--------------------------- MODULE IngestionTask ---------------------------
(***************************************************************************)
(* The life of a document-ingestion task across four processes that share  *)
(* the ingestion_task table and one JetStream work queue:                  *)
(*                                                                         *)
(*   callers    requests in the API server (service.DocumentService) and   *)
(*              in the admin server (admin.Service, admin.Handler)         *)
(*   ingestors  processes that run ingestion.Ingestor: one consumer        *)
(*              goroutine (Start), a bounded channel and a worker pool     *)
(*   table      the ingestion_task rows (dao.IngestionTaskDAO)             *)
(*   stream     RAGFLOW_TASKS with the consumer RAGFLOW_CONSUMER           *)
(*              (engine/nats.NatsEngine)                                   *)
(*                                                                         *)
(* A DAO method is a transaction that SELECTs a row without locking it and *)
(* then writes by primary key.  The database runs at its default isolation *)
(* level, so the SELECT and the write of one method are separate steps     *)
(* here and other processes step between them; the write applies to the    *)
(* row as it then is, or to nothing if the row was deleted.                *)
(***************************************************************************)
EXTENDS Naturals, Sequences, FiniteSets

CONSTANTS
    TaskIds,        \* the UUIDs the runs may generate, as numbers (they are ordered)
    Seeded,         \* the tasks whose row already exists and carries a DSL
    Docs,           \* document ids
    Callers,        \* requests served at the same time
    Ingestors,      \* ingestor processes
    MaxConcurrency, \* workers of one ingestor (runIngestor passes 2)
    FetchSize,      \* messages one GetMessages asks for (4)
    MaxDeliver,     \* deliveries of one message before JetStream gives up (16)
    StreamCap,      \* messages the stream holds (MaxMsgs and MaxBytes)
    Ops,            \* the requests callers make in this run
    Faults,         \* the faults of this run
    MaxRequests,    \* bound on the requests of a run
    MaxRestarts     \* bound on the stops and crashes of ingestors

Other == 0          \* the task id of a message that is not an ingestion task
NoDoc == "none"     \* the document of a task id that is not in use

AllOps == {"ingest", "stop", "remove", "pull", "test"}

(***************************************************************************)
(*   crash     an ingestor process dies                                    *)
(*   expire    AckWait (30s, never extended) runs out under a live worker  *)
(*   publish   PublishTask returns an error, or the API server dies before *)
(*             it publishes                                                *)
(*   deadline  a component of the pipeline returns a deadline error        *)
(*   db        a statement or a commit fails                               *)
(*   ack       the acknowledgement cannot be sent                          *)
(***************************************************************************)
AllFaults == {"crash", "expire", "publish", "deadline", "db", "ack"}

ASSUME ConstantsAssumption ==
    /\ TaskIds \subseteq Nat \ {0}
    /\ Seeded \subseteq TaskIds
    /\ MaxConcurrency \in Nat \ {0}
    /\ FetchSize \in Nat \ {0}
    /\ MaxDeliver \in Nat \ {0}
    /\ StreamCap \in Nat \ {0}
    /\ MaxRequests \in Nat
    /\ MaxRestarts \in Nat
    /\ Ops \subseteq AllOps
    /\ Faults \subseteq AllFaults
    /\ IsFiniteSet(Seeded)
    /\ NoDoc \notin Docs

Workers == 1..MaxConcurrency
ChanCap == 2 * MaxConcurrency

\* Every request publishes at most one message.
MaxMsgs == Cardinality(Seeded) + MaxRequests
Msgs    == 1..MaxMsgs
NoMsg   == 0

Outcomes  == {"COMPLETED", "STOPPED", "FAILED"}
InTable   == {"CREATED", "RUNNING", "STOPPING"} \cup Outcomes
Statuses  == InTable \cup {"unused", "removed"}

VARIABLES
    status,      \* status column of each task; "unused": no such row yet
    docOf,       \* document_id column
    msgTask,     \* the task a published message names, or Other
    msgState,    \* where the message is in the stream
    delivered,   \* how often the message was delivered
    published,   \* number of messages published so far
    caller,      \* each request: its program counter and what it read
    consumer,    \* each Start goroutine: program counter, message, status read
    batch,       \* messages fetched and not yet looked at
    taskChan,    \* the channel between Start and the worker pool
    worker,      \* each worker goroutine: program counter, message, outcome
    proc,        \* each ingestor process: up, stopping (ctx cancelled) or down
    failedCalls, \* history: tasks for which a publish or a status write failed
    requests,    \* number of requests made
    restarts     \* number of stops and crashes

rowVars  == <<status, docOf>>
msgVars  == <<msgTask, msgState, delivered, published>>
ingVars  == <<consumer, batch, taskChan, worker, proc>>
vars     == <<status, docOf, msgTask, msgState, delivered, published, caller,
              consumer, batch, taskChan, worker, proc, failedCalls, requests,
              restarts>>

----------------------------------------------------------------------------
(* The stream *)

MsgStates == {"free", "ready", "pending", "acked", "dead", "evicted", "pulled"}
Live(m)   == msgState[m] \in {"ready", "pending"}
Stored(m) == msgState[m] \in {"ready", "pending", "dead"}

\* A work-queue stream removes a message when any delivery of it is acked; an
\* ack for a message that is no longer there does nothing.
Acked(ms, m) ==
    IF ms[m] \in {"ready", "pending"} THEN [ms EXCEPT ![m] = "acked"] ELSE ms

\* A nacked or timed-out message is delivered again, MaxDeliver times in all.
Requeued(ms, m) ==
    IF ms[m] = "pending"
    THEN [ms EXCEPT ![m] = IF delivered[m] < MaxDeliver THEN "ready" ELSE "dead"]
    ELSE ms

\* The stream is at its limit: JetStream drops the oldest message.
Evicted(ms) ==
    LET kept == {m \in Msgs : ms[m] \in {"ready", "pending", "dead"}}
    IN  IF Cardinality(kept) < StreamCap THEN ms
        ELSE [m \in Msgs |-> IF m \in kept /\ \A k \in kept : m <= k
                             THEN "evicted" ELSE ms[m]]

PublishTask(t) ==
    /\ published < MaxMsgs
    /\ published' = published + 1
    /\ msgTask'   = [msgTask EXCEPT ![published + 1] = t]
    /\ msgState'  = [Evicted(msgState) EXCEPT ![published + 1] = "ready"]
    /\ UNCHANGED delivered

Ack(m)  == msgState' = Acked(msgState, m)
Nack(m) == msgState' = Requeued(msgState, m)

----------------------------------------------------------------------------
(* Requests of the API server and of the admin server *)

Idle == [pc |-> "idle", task |-> Other, doc |-> NoDoc]

Begin(c, op) ==
    /\ caller[c].pc = "idle"
    /\ op \in Ops
    /\ requests < MaxRequests
    /\ requests' = requests + 1

\* The rows a SELECT by document id finds; First takes the lowest primary key.
RowsOf(d)     == {t \in TaskIds : status[t] \in InTable /\ docOf[t] = d}
IsFirst(t, d) == t \in RowsOf(d) /\ \A u \in RowsOf(d) : t <= u

\* The statuses CheckAndCreate starts again.
RestartableOrRunning == {"FAILED", "STOPPED", "RUNNING"}   \* mutant
Restartable          == {"FAILED", "STOPPED"}

\* CheckAndCreate, the SELECT.  A document whose task is neither failed nor
\* stopped is refused.  Any error of the SELECT is taken for "not found".
CheckTask(c, d) ==
    /\ Begin(c, "ingest")
    /\ \/ \E t \in TaskIds :
             /\ IsFirst(t, d)
             /\ caller' = [caller EXCEPT ![c] =
                   IF status[t] \in Restartable
                   THEN [pc |-> "restart", task |-> t, doc |-> d] ELSE Idle]
       \/ /\ RowsOf(d) = {} \/ "db" \in Faults
          /\ caller' = [caller EXCEPT ![c] = [pc |-> "create", task |-> Other, doc |-> d]]
    /\ UNCHANGED <<rowVars, msgVars, ingVars, failedCalls, restarts>>

\* CheckAndCreate, the INSERT and the commit.
CreateTask(c, t) ==
    /\ caller[c].pc = "create"
    /\ status[t] = "unused"
    /\ status' = [status EXCEPT ![t] = "CREATED"]
    /\ docOf'  = [docOf EXCEPT ![t] = caller[c].doc]
    /\ caller' = [caller EXCEPT ![c].pc = "publish", ![c].task = t]
    /\ UNCHANGED <<msgVars, ingVars, failedCalls, requests, restarts>>

\* Setting the status column by primary key: no row, no effect and no error.
SetStatus(t, s) ==
    status' = IF status[t] \in InTable THEN [status EXCEPT ![t] = s] ELSE status

\* The UPDATE fails and its caller does not look at the error.
WriteFails(t) ==
    /\ "db" \in Faults
    /\ failedCalls' = failedCalls \cup {t}
    /\ UNCHANGED status

\* CheckAndCreate, the UPDATE that restarts a failed or stopped task.
RestartTask(c) ==
    /\ caller[c].pc = "restart"
    /\ SetStatus(caller[c].task, "CREATED")
    /\ caller' = [caller EXCEPT ![c].pc = "publish"]
    /\ UNCHANGED <<docOf, msgVars, ingVars, failedCalls, requests, restarts>>

\* IngestDocuments publishes the task once its row is committed.
PublishIngestion(c) ==
    /\ caller[c].pc = "publish"
    /\ PublishTask(caller[c].task)
    /\ caller' = [caller EXCEPT ![c] = Idle]
    /\ UNCHANGED <<rowVars, ingVars, failedCalls, requests, restarts>>

\* ... or cannot, and returns the error: the committed row stays as it is.
PublishFails(c) ==
    /\ "publish" \in Faults
    /\ caller[c].pc = "publish"
    /\ caller' = [caller EXCEPT ![c] = Idle]
    /\ failedCalls' = failedCalls \cup {caller[c].task}
    /\ UNCHANGED <<rowVars, msgVars, ingVars, requests, restarts>>

\* SetStoppingByAPIServer, the SELECT; the admin server asks too.
StopTask(c, t, pc) ==
    /\ Begin(c, "stop")
    /\ pc \in {"stop", "adminStop"}
    /\ caller' = [caller EXCEPT ![c] =
          CASE status[t] = "CREATED" -> [pc |-> "setStopped", task |-> t, doc |-> NoDoc]
            [] status[t] = "RUNNING" -> [pc |-> pc, task |-> t, doc |-> NoDoc]
            [] OTHER                 -> Idle]
    /\ UNCHANGED <<rowVars, msgVars, ingVars, failedCalls, restarts>>

\* SetStoppingByAPIServer, the UPDATE.  After a STOPPING the admin server
\* publishes the bare task id, which does not decode to an ingestion message.
SetStopping(c) ==
    /\ caller[c].pc \in {"setStopped", "stop", "adminStop"}
    /\ SetStatus(caller[c].task,
                 IF caller[c].pc = "setStopped" THEN "STOPPED" ELSE "STOPPING")
    /\ caller' = [caller EXCEPT ![c] =
          IF caller[c].pc = "adminStop"
          THEN [pc |-> "publishRaw", task |-> Other, doc |-> NoDoc] ELSE Idle]
    /\ UNCHANGED <<docOf, msgVars, ingVars, failedCalls, requests, restarts>>

PublishStop(c) ==
    /\ caller[c].pc = "publishRaw"
    /\ \/ PublishTask(Other)
       \/ "publish" \in Faults /\ UNCHANGED msgVars
    /\ caller' = [caller EXCEPT ![c] = Idle]
    /\ UNCHANGED <<rowVars, ingVars, failedCalls, requests, restarts>>

\* RemoveByAPIServerOrAdminServer, the SELECTs and the check.
CheckRemovable(c, t) ==
    /\ Begin(c, "remove")
    /\ caller' = [caller EXCEPT ![c] =
          IF status[t] \in {"CREATED"} \cup Outcomes
          THEN [pc |-> "remove", task |-> t, doc |-> NoDoc] ELSE Idle]
    /\ UNCHANGED <<rowVars, msgVars, ingVars, failedCalls, restarts>>

\* RemoveByAPIServerOrAdminServer, the DELETE by primary key.
RemoveTask(c) ==
    /\ caller[c].pc = "remove"
    /\ SetStatus(caller[c].task, "removed")
    /\ caller' = [caller EXCEPT ![c] = Idle]
    /\ UNCHANGED <<docOf, msgVars, ingVars, failedCalls, requests, restarts>>

\* The admin handler publishes a message of another type ...
PublishMessageToQueue(c) ==
    /\ Begin(c, "test")
    /\ PublishTask(Other)
    /\ UNCHANGED <<rowVars, caller, ingVars, failedCalls, restarts>>

\* ... and takes a message off the queue, acking it or just leaving it pending.
PullMessageFromQueue(c, m) ==
    /\ Begin(c, "pull")
    /\ msgState[m] = "ready"
    /\ delivered' = [delivered EXCEPT ![m] = @ + 1]
    /\ \E s \in {"pulled", "pending"} : msgState' = [msgState EXCEPT ![m] = s]
    /\ UNCHANGED <<rowVars, msgTask, published, caller, ingVars, failedCalls, restarts>>

----------------------------------------------------------------------------
(* The consumer goroutine: Ingestor.Start *)

AtLoop == [pc |-> "loop", msg |-> NoMsg, seen |-> "unused"]

Running(i) == proc[i] # "down"

GetMessages(i) ==
    /\ Running(i)
    /\ consumer[i].pc = "loop"
    /\ batch[i] = {}
    /\ \E S \in SUBSET {m \in Msgs : msgState[m] = "ready"} :
          /\ S # {}
          /\ Cardinality(S) <= FetchSize
          /\ batch' = [batch EXCEPT ![i] = S]
          /\ msgState' = [m \in Msgs |-> IF m \in S THEN "pending" ELSE msgState[m]]
          /\ delivered' = [m \in Msgs |-> IF m \in S THEN delivered[m] + 1 ELSE delivered[m]]
    /\ UNCHANGED <<rowVars, msgTask, published, caller, consumer, taskChan, worker,
                   proc, failedCalls, requests, restarts>>

\* What the consumer does with a task of status s; the mutants overlook a task
\* that is still to be started, and one whose ingestor died.
SkipCreated(s)   == IF s = "STOPPING" THEN "write" ELSE IF s = "RUNNING" THEN "push" ELSE "ack"
SkipRunning(s)   == IF s \in {"CREATED", "STOPPING"} THEN "write" ELSE "ack"
AfterSelect(s) ==
    CASE s \in {"CREATED", "STOPPING"} -> "write"
      [] s = "RUNNING"                 -> "push"
      [] OTHER                         -> "ack"

\* The next handle of the batch.  SetRunningByIngestor, the SELECT: a created or
\* stopping task is to be written, a running one is executed (again), and the
\* message of any other task, or of no task, is acked.
SelectTask(i, m) ==
    LET t == msgTask[m]
        s == IF t = Other THEN "unused" ELSE status[t]
    IN  /\ Running(i)
        /\ consumer[i].pc = "loop"
        /\ m \in batch[i]
        /\ batch' = [batch EXCEPT ![i] = @ \ {m}]
        /\ consumer' = [consumer EXCEPT ![i] =
              [pc |-> AfterSelect(s), msg |-> m, seen |-> s]]
        /\ UNCHANGED <<rowVars, msgVars, caller, taskChan, worker, proc,
                       failedCalls, requests, restarts>>

\* SetRunningByIngestor, the UPDATE.  The outcome of the deferred commit is not
\* looked at: the caller goes on with the status it asked for.
SetRunningByIngestor(i) ==
    LET c == consumer[i]
        t == msgTask[c.msg]
    IN  /\ Running(i)
        /\ c.pc = "write"
        /\ \/ /\ SetStatus(t, IF c.seen = "CREATED" THEN "RUNNING" ELSE "STOPPED")
              /\ UNCHANGED failedCalls
           \/ WriteFails(t)
        /\ consumer' = [consumer EXCEPT ![i].pc =
                          IF c.seen = "CREATED" THEN "push" ELSE "ack"]
        /\ UNCHANGED <<docOf, msgVars, caller, batch, taskChan, worker, proc,
                       requests, restarts>>

\* The select on taskChan finds room in it.
HasRoom(i) == Len(taskChan[i]) < ChanCap

\* The task goes to the worker pool; a full channel sends its message back.
PushTask(i) ==
    LET m == consumer[i].msg
    IN  /\ Running(i)
        /\ consumer[i].pc = "push"
        /\ \/ /\ HasRoom(i)
              /\ taskChan' = [taskChan EXCEPT ![i] = Append(@, m)]
              /\ UNCHANGED msgState
           \/ /\ ~HasRoom(i)
              /\ Nack(m)
              /\ UNCHANGED taskChan
        /\ consumer' = [consumer EXCEPT ![i] = AtLoop]
        /\ UNCHANGED <<rowVars, msgTask, delivered, published, caller, batch, worker,
                       proc, failedCalls, requests, restarts>>

AckSkipped(i) ==
    /\ Running(i)
    /\ consumer[i].pc = "ack"
    /\ Ack(consumer[i].msg)
    /\ consumer' = [consumer EXCEPT ![i] = AtLoop]
    /\ UNCHANGED <<rowVars, msgTask, delivered, published, caller, batch, taskChan,
                   worker, proc, failedCalls, requests, restarts>>

\* Start returns on a database error and on an ack or nack that cannot be sent.
\* The process and its workers stay up, nothing fetches any more, and what is
\* left of the batch is dropped.
StartReturns(i) ==
    /\ Running(i)
    /\ \/ "db" \in Faults /\ (consumer[i].pc = "write" \/ batch[i] # {})
       \/ "ack" \in Faults /\ consumer[i].pc = "ack"
       \/ "ack" \in Faults /\ consumer[i].pc = "push" /\ ~HasRoom(i)
    /\ consumer' = [consumer EXCEPT ![i] = [AtLoop EXCEPT !.pc = "returned"]]
    /\ batch' = [batch EXCEPT ![i] = {}]
    /\ UNCHANGED <<rowVars, msgVars, caller, taskChan, worker, proc, failedCalls,
                   requests, restarts>>

----------------------------------------------------------------------------
(* The worker pool *)

IdleWorker == [pc |-> "idle", msg |-> NoMsg, outcome |-> "none"]

TakeTask(i, w) ==
    /\ Running(i)
    /\ worker[i][w].pc = "idle"
    /\ taskChan[i] # <<>>
    /\ worker' = [worker EXCEPT ![i][w] =
                    [pc |-> "run", msg |-> Head(taskChan[i]), outcome |-> "none"]]
    /\ taskChan' = [taskChan EXCEPT ![i] = Tail(@)]
    /\ UNCHANGED <<rowVars, msgVars, caller, consumer, batch, proc, failedCalls,
                   requests, restarts>>

\* Mutant: a stopped task is created again for another worker.
OutcomesOrCreated(i, t) ==
    IF t \notin Seeded THEN {"FAILED"} ELSE {"COMPLETED", "FAILED", "CREATED"}

\* What executeTask writes when the pipeline is over.  A task without a DSL
\* fails at once; a cancelled context, or a deadline of the pipeline, stops it.
OutcomesOf(i, t) ==
    IF t \notin Seeded THEN {"FAILED"}
    ELSE {"COMPLETED", "FAILED"}
         \cup (IF proc[i] = "stopping" \/ "deadline" \in Faults THEN {"STOPPED"} ELSE {})

\* executeTask runs the pipeline and calls UpdateStatus, whose error is ignored.
ExecuteTask(i, w) ==
    LET t == msgTask[worker[i][w].msg]
    IN  /\ Running(i)
        /\ worker[i][w].pc = "run"
        /\ \E out \in OutcomesOf(i, t) :
              /\ \/ SetStatus(t, out) /\ UNCHANGED failedCalls
                 \/ WriteFails(t)
              /\ worker' = [worker EXCEPT ![i][w] = [@ EXCEPT !.pc = "ack", !.outcome = out]]
        /\ UNCHANGED <<docOf, msgVars, caller, consumer, batch, taskChan, proc,
                       requests, restarts>>

\* ackOrNack, always with ack=true; an error is logged only.
AckOrNack(i, w) ==
    /\ Running(i)
    /\ worker[i][w].pc = "ack"
    /\ \/ Ack(worker[i][w].msg)
       \/ "ack" \in Faults /\ UNCHANGED msgState
    /\ worker' = [worker EXCEPT ![i][w] = IdleWorker]
    /\ UNCHANGED <<rowVars, msgTask, delivered, published, caller, consumer, batch,
                   taskChan, proc, failedCalls, requests, restarts>>

\* A worker whose select sees the cancelled context leaves its loop.
WorkerExit(i, w) ==
    /\ proc[i] = "stopping"
    /\ worker[i][w].pc = "idle"
    /\ worker' = [worker EXCEPT ![i][w] = [@ EXCEPT !.pc = "exited"]]
    /\ UNCHANGED <<rowVars, msgVars, caller, consumer, batch, taskChan, proc,
                   failedCalls, requests, restarts>>

----------------------------------------------------------------------------
(* The ingestor process *)

\* Stop cancels the context of the ingestor; the consumer does not look at it.
Stop(i) ==
    /\ proc[i] = "up"
    /\ restarts < MaxRestarts
    /\ proc' = [proc EXCEPT ![i] = "stopping"]
    /\ restarts' = restarts + 1
    /\ UNCHANGED <<rowVars, msgVars, caller, consumer, batch, taskChan, worker,
                   failedCalls, requests>>

\* The memory of the process is gone.
Down(i) ==
    /\ proc' = [proc EXCEPT ![i] = "down"]
    /\ consumer' = [consumer EXCEPT ![i] = AtLoop]
    /\ batch' = [batch EXCEPT ![i] = {}]
    /\ taskChan' = [taskChan EXCEPT ![i] = <<>>]
    /\ worker' = [worker EXCEPT ![i] = [w \in Workers |-> IdleWorker]]

\* Stop has waited for every worker and the process ends.
Exit(i) ==
    /\ proc[i] = "stopping"
    /\ \A w \in Workers : worker[i][w].pc = "exited"
    /\ Down(i)
    /\ UNCHANGED <<rowVars, msgVars, caller, failedCalls, requests, restarts>>

Crash(i) ==
    /\ "crash" \in Faults
    /\ Running(i)
    /\ restarts < MaxRestarts
    /\ restarts' = restarts + 1
    /\ Down(i)
    /\ UNCHANGED <<rowVars, msgVars, caller, failedCalls, requests>>

\* NewIngestor and Start in a new process.
Restart(i) ==
    /\ proc[i] = "down"
    /\ proc' = [proc EXCEPT ![i] = "up"]
    /\ UNCHANGED <<rowVars, msgVars, caller, consumer, batch, taskChan, worker,
                   failedCalls, requests, restarts>>

\* The ingestor still has a handle of message m.
Holds(i, m) ==
    \/ m \in batch[i]
    \/ consumer[i].msg = m
    \/ \E k \in DOMAIN taskChan[i] : taskChan[i][k] = m
    \/ \E w \in Workers : worker[i][w].msg = m

\* AckWait is over: JetStream delivers the message again, also to a consumer
\* whose earlier handle of it is still at work.
AckWaitExpires(m) ==
    /\ msgState[m] = "pending"
    /\ "expire" \in Faults \/ \A i \in Ingestors : ~Holds(i, m)
    /\ msgState' = Requeued(msgState, m)
    /\ UNCHANGED <<rowVars, msgTask, delivered, published, caller, ingVars,
                   failedCalls, requests, restarts>>

----------------------------------------------------------------------------
\* The seeded tasks are rows with a DSL that were created and published before.
Init ==
    /\ status = [t \in TaskIds |-> IF t \in Seeded THEN "CREATED" ELSE "unused"]
    /\ docOf \in [TaskIds -> Docs \cup {NoDoc}]
    /\ \A t \in TaskIds : docOf[t] = NoDoc <=> t \notin Seeded
    /\ published = Cardinality(Seeded)
    /\ msgTask \in [Msgs -> Seeded \cup {Other}]
    /\ \A m \in Msgs : msgTask[m] = Other <=> m > published
    /\ \A t \in Seeded : \E m \in Msgs : msgTask[m] = t
    /\ msgState = [m \in Msgs |-> IF m <= published THEN "ready" ELSE "free"]
    /\ delivered = [m \in Msgs |-> 0]
    /\ caller = [c \in Callers |-> Idle]
    /\ consumer = [i \in Ingestors |-> AtLoop]
    /\ batch = [i \in Ingestors |-> {}]
    /\ taskChan = [i \in Ingestors |-> <<>>]
    /\ worker = [i \in Ingestors |-> [w \in Workers |-> IdleWorker]]
    /\ proc = [i \in Ingestors |-> "up"]
    /\ failedCalls = {}
    /\ requests = 0
    /\ restarts = 0

\* A step that completes a request.
CallerStep(c) ==
    \/ \E t \in TaskIds : CreateTask(c, t)
    \/ RestartTask(c)
    \/ PublishIngestion(c)
    \/ PublishFails(c)
    \/ SetStopping(c)
    \/ PublishStop(c)
    \/ RemoveTask(c)

Request(c) ==
    \/ \E d \in Docs : CheckTask(c, d)
    \/ \E t \in TaskIds : \E pc \in {"stop", "adminStop"} : StopTask(c, t, pc)
    \/ \E t \in TaskIds : CheckRemovable(c, t)
    \/ PublishMessageToQueue(c)
    \/ \E m \in Msgs : PullMessageFromQueue(c, m)

ConsumerStep(i) ==
    \/ GetMessages(i)
    \/ \E m \in Msgs : SelectTask(i, m)
    \/ SetRunningByIngestor(i)
    \/ PushTask(i)
    \/ AckSkipped(i)

WorkerStep(i, w) ==
    \/ TakeTask(i, w)
    \/ ExecuteTask(i, w)
    \/ AckOrNack(i, w)
    \/ WorkerExit(i, w)

Next ==
    \/ \E c \in Callers : CallerStep(c) \/ Request(c)
    \/ \E i \in Ingestors :
          \/ ConsumerStep(i)
          \/ StartReturns(i)
          \/ \E w \in Workers : WorkerStep(i, w)
          \/ Stop(i) \/ Exit(i) \/ Crash(i) \/ Restart(i)
    \/ \E m \in Msgs : AckWaitExpires(m)

Spec == Init /\ [][Next]_vars

(***************************************************************************)
(* What the scheduling gives: goroutines and requests that can go on do,   *)
(* pipelines end, JetStream's timer fires for a message nobody holds, and  *)
(* an ingestor that went down is started again by its supervisor.  Nothing *)
(* is assumed of new requests, faults, Stop and StartReturns.              *)
(***************************************************************************)
Fairness ==
    /\ \A c \in Callers : WF_vars(CallerStep(c))
    /\ \A i \in Ingestors :
          /\ WF_vars(ConsumerStep(i))
          /\ WF_vars(Exit(i))
          /\ WF_vars(Restart(i))
          /\ \A w \in Workers : WF_vars(WorkerStep(i, w))
    /\ \A m \in Msgs : WF_vars(AckWaitExpires(m))

FairSpec == Spec /\ Fairness

----------------------------------------------------------------------------
(* Properties *)

TableType ==
    /\ status \in [TaskIds -> Statuses]
    /\ docOf \in [TaskIds -> Docs \cup {NoDoc}]
    /\ failedCalls \subseteq TaskIds

StreamType ==
    /\ msgTask \in [Msgs -> TaskIds \cup {Other}]
    /\ msgState \in [Msgs -> MsgStates]
    /\ delivered \in [Msgs -> Nat]
    /\ published \in 0..MaxMsgs

CallerType ==
    caller \in [Callers ->
        [pc   : {"idle", "create", "restart", "publish", "setStopped", "stop",
                 "adminStop", "publishRaw", "remove"},
         task : TaskIds \cup {Other},
         doc  : Docs \cup {NoDoc}]]

ConsumerType ==
    /\ consumer \in [Ingestors ->
          [pc   : {"loop", "write", "push", "ack", "returned"},
           msg  : Msgs \cup {NoMsg},
           seen : Statuses]]
    /\ batch \in [Ingestors -> SUBSET Msgs]

ChanType ==
    /\ taskChan \in [Ingestors -> Seq(Msgs)]
    /\ \A i \in Ingestors : Len(taskChan[i]) <= ChanCap

WorkerType ==
    worker \in [Ingestors -> [Workers ->
        [pc      : {"idle", "run", "ack", "exited"},
         msg     : Msgs \cup {NoMsg},
         outcome : Outcomes \cup {"none"}]]]

CounterType ==
    /\ proc \in [Ingestors -> {"up", "stopping", "down"}]
    /\ requests \in 0..MaxRequests
    /\ restarts \in 0..MaxRestarts

\* Every variable stays in its type: statuses, message states and program
\* counters are among those the code has, and taskChan never exceeds the
\* capacity NewIngestor gave it.
TypeOK ==
    /\ TableType /\ StreamType /\ CallerType /\ ConsumerType /\ ChanType
    /\ WorkerType /\ CounterType

IsFor(m, t) == m \in Msgs /\ msgTask[m] = t

\* The task was lost to a fault: its publish or a write of its status failed,
\* the stream dropped its message, an operator acked the message, or the
\* deliveries of the message are used up.
LostToFault(t) ==
    \/ t \in failedCalls
    \/ \E m \in Msgs : IsFor(m, t) /\ msgState[m] \in {"dead", "evicted", "pulled"}

BeingPublished(t) == \E c \in Callers : caller[c].pc = "publish" /\ caller[c].task = t

\* A message of the task is in the stream and none of those in S, or one is
\* about to be published, or a fault took it.
HasMessage(t, S) == \E m \in Msgs \ S : IsFor(m, t) /\ Live(m)
Answered(t, S)   == BeingPublished(t) \/ HasMessage(t, S) \/ LostToFault(t)

\* A created task is not forgotten.  Whatever requests, restarts, redeliveries
\* and crashes interleave, a row CheckAndCreate left in CREATED has a request
\* that is about to publish it or a message in the stream that some ingestor
\* will still act on, unless the task was lost to one of the faults named in
\* LostToFault.
CreatedHasMessage == \A t \in TaskIds : status[t] = "CREATED" => Answered(t, {})

\* With one ingestor a task that SetRunningByIngestor put in RUNNING is never
\* orphaned, not by a full channel, not by AckWait, not by a crash of the process
\* that handles it: a message for it is still in the stream or about to be
\* published, unless the task was lost to a fault.
RunningHasMessage == \A t \in TaskIds : status[t] = "RUNNING" => Answered(t, {})

(***************************************************************************)
(* Why they are inductive.  Whoever acks a message has seen or written     *)
(* another status before, and the status can only be CREATED again through *)
(* a request that publishes a message of its own.  So the message that     *)
(* answers for a running task is not about to be acked, and the one that   *)
(* answers for a created task was not even started.  A single ingestor     *)
(* that has seen CREATED and is about to write RUNNING also knows of a     *)
(* message that was not started; with two, the other one may have started  *)
(* and acked it since.                                                     *)
(***************************************************************************)
Settling == {m \in Msgs : \E i \in Ingestors :
    \/ consumer[i].pc = "ack" /\ consumer[i].msg = m
    \/ \E w \in Workers : worker[i][w].pc = "ack" /\ worker[i][w].msg = m}

Started == {m \in Msgs : \E i \in Ingestors :
    \/ consumer[i].pc \in {"push", "ack"} /\ consumer[i].msg = m
    \/ \E k \in DOMAIN taskChan[i] : taskChan[i][k] = m
    \/ \E w \in Workers : worker[i][w].pc \in {"run", "ack"} /\ worker[i][w].msg = m}

CreatedIsNew == \A t \in TaskIds : status[t] = "CREATED" => Answered(t, Started)

SeenIsNew ==
    \A i \in Ingestors :
        consumer[i].pc = "write" /\ consumer[i].seen = "CREATED"
            => Answered(msgTask[consumer[i].msg], Started)

RunningIsUnsettled == \A t \in TaskIds : status[t] = "RUNNING" => Answered(t, Settling)

OneIngestor == \A i, j \in Ingestors : i = j

\* Message numbers are given out in order.
Used == {m \in Msgs : m <= published}
Numbered == \A m \in Msgs : msgState[m] = "free" <=> m \notin Used

\* Every handle in an ingestor is of a published message, and past the SELECT
\* it is of an ingestion task.
ConsumerHandles ==
    \A i \in Ingestors :
        /\ batch[i] \subseteq Used
        /\ consumer[i].pc \in {"write", "push", "ack"} => consumer[i].msg \in Used
        /\ consumer[i].pc \in {"write", "push"} => msgTask[consumer[i].msg] \in TaskIds

WorkerHandles ==
    \A i \in Ingestors :
        /\ \A k \in DOMAIN taskChan[i] :
              taskChan[i][k] \in Used /\ msgTask[taskChan[i][k]] \in TaskIds
        /\ \A w \in Workers : worker[i][w].pc \in {"run", "ack"} =>
              worker[i][w].msg \in Used /\ msgTask[worker[i][w].msg] \in TaskIds

RequestsHaveTask ==
    \A c \in Callers :
        /\ caller[c].pc \in {"restart", "publish", "setStopped", "stop", "adminStop", "remove"}
              => caller[c].task \in TaskIds
        /\ caller[c].pc = "create" => caller[c].doc \in Docs

\* What every step needs to know of the state, and the inductive invariant.
WellFormed == TypeOK /\ Numbered /\ ConsumerHandles /\ WorkerHandles /\ RequestsHaveTask

IInv ==
    /\ WellFormed
    /\ CreatedIsNew
    /\ OneIngestor => SeenIsNew /\ RunningIsUnsettled

\* The pipeline of a task is executed by one worker at a time, over all
\* ingestors, while requests come one after another, nobody stops tasks and
\* every pipeline ends within AckWait.
OneExecutionAtATime ==
    \A i, j \in Ingestors : \A v, w \in Workers :
        /\ worker[i][v].pc = "run"
        /\ worker[j][w].pc = "run"
        /\ msgTask[worker[i][v].msg] = msgTask[worker[j][w].msg]
        => i = j /\ v = w

\* The departures from the documented lifecycle the configuration makes possible:
\* the context of a worker is cancelled, or its pipeline runs into a deadline, and a
\* row is deleted on the strength of a status read before the task was started.
MayDepart ==
    {d \in {"interrupted", "removed"} :
        /\ d = "interrupted" => MaxRestarts > 0 \/ "deadline" \in Faults
        /\ d = "removed"     => "remove" \in Ops}

Lifecycle == INSTANCE TaskLifecycle WITH Task <- TaskIds, Departures <- MayDepart

\* While nobody stops tasks, the processes together implement the documented
\* lifecycle of a task but for the departures of MayDepart, although each of them
\* writes by primary key what it decided after an earlier SELECT: no outcome is
\* written over by a stale RUNNING, none is written for a task that was not running,
\* and only a retry starts again.
ImplementsLifecycle == Lifecycle!Spec

(***************************************************************************)
(* Why both hold.  Where requests come one after another, nobody stops     *)
(* tasks and nothing but a publish or a pipeline fails, a message has one  *)
(* handle at a time, and a task one message in play: one that is not yet   *)
(* executed or skipped.  While the message is on its way the status says   *)
(* how far it has come, unless the row is removed, and a task that has     *)
(* ended has none, so that only a retry brings the next one.               *)
(***************************************************************************)
Orderly ==
    /\ \A c, d \in Callers : c = d
    /\ "stop" \notin Ops
    /\ Faults \subseteq {"publish", "deadline"}

\* An ingestor has one handle of each of its messages.
Tidy(i) ==
    /\ consumer[i].pc \in {"loop", "returned"} => consumer[i].msg = NoMsg
    /\ consumer[i].msg \notin batch[i]
    /\ \A k \in DOMAIN taskChan[i] :
          /\ taskChan[i][k] \notin batch[i] \cup {consumer[i].msg}
          /\ \A l \in DOMAIN taskChan[i] : taskChan[i][k] = taskChan[i][l] => k = l
    /\ \A w \in Workers :
          /\ worker[i][w].pc \in {"idle", "exited"} => worker[i][w].msg = NoMsg
          /\ worker[i][w].msg \in Msgs =>
                /\ worker[i][w].msg \notin batch[i] \cup {consumer[i].msg}
                /\ \A k \in DOMAIN taskChan[i] : taskChan[i][k] # worker[i][w].msg
                /\ \A v \in Workers : worker[i][v].msg = worker[i][w].msg => v = w

OneHandle ==
    /\ \A i, j \in Ingestors : \A m \in Msgs : Holds(i, m) /\ Holds(j, m) => i = j
    /\ \A i \in Ingestors : \A m \in Msgs : Holds(i, m) => msgState[m] # "ready"
    /\ \A i \in Ingestors : Tidy(i)

Executed == {m \in Msgs : \E i \in Ingestors : \E w \in Workers :
    worker[i][w].pc = "ack" /\ worker[i][w].msg = m}

InPlay == {m \in Msgs \ Executed : Live(m) \/ \E i \in Ingestors : Holds(i, m)}

OneInPlay ==
    \A m \in InPlay : msgTask[m] \in TaskIds =>
        /\ \A n \in InPlay : msgTask[n] = msgTask[m] => n = m
        /\ status[msgTask[m]] \in {"CREATED", "RUNNING", "removed"}
        /\ \A c \in Callers :
              caller[c].pc \in {"restart", "publish"} => caller[c].task # msgTask[m]

RequestsInTurn ==
    /\ \A t \in TaskIds : status[t] # "STOPPING"
    /\ \A c \in Callers :
          /\ caller[c].pc \notin {"setStopped", "stop", "adminStop"}
          /\ caller[c].pc = "restart" => status[caller[c].task] \in {"FAILED", "STOPPED"}
          /\ caller[c].pc = "publish" => status[caller[c].task] = "CREATED"

\* Ingestor i has seen or made the task of message m RUNNING, and has not yet
\* executed it.
Underway(i, m) ==
    \/ consumer[i].pc = "push" /\ consumer[i].msg = m
    \/ \E k \in DOMAIN taskChan[i] : taskChan[i][k] = m
    \/ \E w \in Workers : worker[i][w].pc = "run" /\ worker[i][w].msg = m

Stages ==
    \A i \in Ingestors :
        /\ consumer[i].pc = "write" =>
              /\ consumer[i].seen = "CREATED"
              /\ status[msgTask[consumer[i].msg]] \in {"CREATED", "removed"}
        /\ \A m \in Msgs :
              Underway(i, m) => status[msgTask[m]] \in {"RUNNING", "removed"}

\* What leads to a departure comes from the configuration.
Configured ==
    /\ \A c \in Callers : caller[c].pc = "remove" => "remove" \in Ops
    /\ \A i \in Ingestors : proc[i] = "stopping" => MaxRestarts > 0

OrderlyInv == OneHandle /\ OneInPlay /\ RequestsInTurn /\ Stages /\ Configured

Settled(t) == status[t] \in Outcomes \cup {"unused", "removed"}

\* Every task that was created or started settles, through the crash or stop of
\* an ingestor and the redelivery of its message.
TasksSettle == \A t \in TaskIds : []<>Settled(t)

----------------------------------------------------------------------------
(* What comments and tests say of the program *)

\* "canceling -> canceled : Cancellation completes" (dao/ingestion.go:40): a
\* task whose stop was recorded does not stay in STOPPING.
StopCompletes == \A t \in TaskIds : status[t] = "STOPPING" ~> status[t] # "STOPPING"

============================================================================
