# TLA+ models of the ingestion service, the agent harness and the canvas runner

This directory holds TLA+ specifications of five concurrent subsystems of the Go
implementation:

* the **ingestion of documents**, which spreads over the API server, the admin
  server, a database table, a JetStream work queue and any number of ingestors;
* the **agent loop** of the harness, which runs the turns of an agent while other
  goroutines push items, preempt turns and stop the loop;
* the **cancel context** of an agent run, shared by its callers, a deadline
  goroutine, the iterator wrappers and the workflows of sub-agents;
* the **graph engine**, its supersteps and its checkpoints;
* the **canvas runner** of the API server, which runs an agent canvas per request,
  streams its events, and pauses for and resumes with an answer of the user.

TLC checks them on small instances; TLAPS proves theorems about all five of them for
every size. Paths below are relative to the root of the repository.

## 1. Inventory

### 1.1 The parts and how they interact

| part | source | state it keeps | operations | interacts with |
|---|---|---|---|---|
| task table | `internal/dao/ingestion.go` | `ingestion_task` rows: id, document, status | CheckAndCreate, UpdateStatus, SetRunningByIngestor, SetStoppingByAPIServer, RemoveByAPIServerOrAdminServer | called by the servers and the ingestors; a transaction SELECTs without a lock and writes by primary key |
| message queue | `internal/engine/nats/nats.go` | stream `RAGFLOW_TASKS`, consumer `RAGFLOW_CONSUMER` | PublishTask, GetMessages, Ack, Nack | at-least-once delivery, 16 deliveries, AckWait 30 s, oldest message dropped at the limit |
| ingestor | `internal/ingestion/ingestion_service.go`, `cmd/ragflow_server.go` | fetched batch, `taskChan`, workers, context | Start, worker pool, executeTask, ackOrNack, Stop | fetches, moves rows, acks |
| API server | `internal/service/document.go` | none of its own | IngestDocuments, StopIngestionTasks, RemoveIngestionTasks | row first, message second |
| admin server | `internal/admin/service.go`, `handler.go` | none of its own | stop, remove, publish a test message, pull messages | as above; a stop publishes the bare id |
| agent loop | `internal/harness/core/agent_loop*.go` | buffer, preempt and stop controllers, flags, captured fields, checkpoint | Push, Stop, Run, Wait; per turn: agent, event copier, handler, two watchers | callbacks GenInput, GenResume, PrepareAgent, OnAgentEvents; Store |
| cancel context | `internal/harness/core/cancel.go`, `flow.go`, `workflow.go` | state, mode and deadline of a cancel, its channels | the cancel function, Wait, the deadline goroutine, wrapIterWithCancelCtx, runSeq, runLoop | one context shared by a run and its sub-agents |
| runner | `internal/harness/core/runner.go`, `utils.go` | event channel | Run, Resume | used by the loop |
| graph engine | `internal/harness/graph` | channels, completed tasks, checkpoints | Run, interrupt, resume | nodes in goroutines, a checkpointer shared by the runs of a thread |
| canvas runner | `internal/agent/canvas/runner.go`, `run_tracker.go`, `internal/service/agent.go`, `internal/handler/agent.go` | registration per canvas, interrupt per session, event channel per request, tracker, session row | Run, the RunFunc, the streaming handler | Redis, the session table, the client |
| canvas scheduler, components | `internal/agent/canvas/scheduler.go`, `internal/agent/component` | workflow of the eino library | compile, invoke | seen through its events and its end |

Everything else (REST handlers, CRUD services, retrieval engines, parsers, model
providers, the CLI, the Python services, the web front end) is sequential, or
pure I/O, or an adapter; `PROJECT.json` lists each part with the reason.

### 1.2 What is hard, and what makes each part correct

*Ingestion.* No lock spans the table and the queue. A request commits a row and
publishes afterwards; an ingestor reads a status and writes afterwards; a worker
writes an outcome and acks afterwards; a process may die between any two of
these. It is correct if a task never gets lost between the table and the queue
(a created row has a message, a running row has somebody at work on it), if a
task is executed by one worker at a time, if every task reaches an end, and if
the status moves as documented.

*Agent loop.* Five kinds of goroutines share three small monitors and a few
atomic flags, and decisions taken inside one critical section are used after it.
It is correct if no item is lost, duplicated or overtaken, if a preempt reaches
only the turn its caller saw and its ack is always closed, if a stop prevents
later turns and ends the loop, if the signals in the one-slot notify channels
are not lost, if none of the panics the controllers contain can be reached, and
if the checkpoint names all that is still to be done.

*Cancel context.* Any number of callers cancel one run, each with a mode and a
timeout of its own, while the run ends by itself. It is correct if exactly the
promised deadline counts, if a timeout is reported only when it happened, if a
cancel that was handled is seen in the events, if nothing starts after Wait has
returned, and if Wait returns.

*Graph engine.* Nodes end in any order, some fail, some interrupt, saves happen
late or not at all, and the next run continues from what is stored. It is correct
if a node starts with its inputs present, if a final result is complete, if a
resumed run neither repeats nor skips a node, and if every run ends.

*Canvas runner.* Three goroutines per request (run, RunFunc, handler) share a
bounded channel; requests share the registration of the canvas, the interrupt of
the session, a tracker entry and a row. It is correct if the newest run is the one
that goes on, if an interrupt is answered once and can be answered, if every
stream ends, with its terminator, and if answers are not lost.

`PROJECT.json` lists the hazards behind these sentences line by line.

## 2. Modules

| module | content |
|---|---|
| `IngestionTask` | servers, table, queue and ingestors, with requests, faults and restarts |
| `TaskLifecycle` | abstract: the lifecycle of a task as the comment on CheckAndCreate documents it, with two named departures |
| `IngestionTaskProofs` | theorems about `IngestionTask`: no created or running task is lost |
| `IngestionOrderProofs` | theorems about `IngestionTask`: one execution at a time, and the refinement of `TaskLifecycle` |
| `MCIngestionTask` | symmetry sets for TLC |
| `AgentLoop` | the loop, its callers, its turns, its timers and its checkpoint |
| `AgentLoopProofs` | theorems about `AgentLoop`: controllers, acks, signals and stops |
| `AgentItemsProofs` | theorems about `AgentLoop`: the order and the places of items, and the checkpoint |
| `MCAgentLoop` | the checkpoint the runs start from, symmetry sets |
| `CancelContext`, `MCCancelContext` | the cancel context with callers, timer, wrappers and a workflow; the modes of the run |
| `CancelContextProofs` | theorems about its timeouts, and about what is reported and what Wait promises |
| `TaskGraph` | abstract: the nodes of a graph finish when they are ready |
| `PregelEngine`, `PregelEngineProofs`, `MCPregelEngine` | the superstep loop with its checkpoints; theorems and the refinement of `TaskGraph`; the graph of the run |
| `CanvasRunner`, `MCCanvasRunner` | the requests of one canvas; sessions and outcomes of the run |
| `CanvasRunnerProofs`, `CanvasSessionProofs` | theorems about the registration and the streams, and about interrupts, answers and the tracker |

Definitions introduced by a comment as *mutant* are wrong variants of the
definition that follows. They are not used by any specification; replacing the
definition by its variant must make the property named in `PROJECT.json` fail,
which shows that the property depends on that piece of code.

### 2.1 IngestionTask

A database method is two steps, the SELECT and the write, because the isolation
level lets other processes in between. The write applies to the row as it then
is (`SetStatus`: no row, no effect). A request is a small program with a counter
(`caller[c].pc`); so are the consumer goroutine of an ingestor (`consumer[i]`)
and each worker.

| code | actions |
|---|---|
| CheckAndCreate + IngestDocuments | `CheckTask`, then `CreateTask` or `RestartTask`, then `PublishIngestion` or `PublishFails` |
| SetStoppingByAPIServer, both callers | `StopTask`, `SetStopping`, for the admin server `PublishStop` |
| RemoveByAPIServerOrAdminServer | `CheckRemovable`, `RemoveTask` |
| admin test endpoints | `PublishMessageToQueue`, `PullMessageFromQueue` |
| Start | `GetMessages`, `SelectTask`, `SetRunningByIngestor`, `PushTask`, `AckSkipped`, `StartReturns` |
| workerLoop, executeTask, failTask, ackOrNack | `TakeTask`, `ExecuteTask`, `AckOrNack`, `WorkerExit` |
| Stop, runIngestor | `Stop`, `Exit`, `Restart`; `Crash` |
| JetStream | `Acked`, `Requeued`, `Evicted`, `AckWaitExpires` |

Task ids are numbers because `First` orders by primary key. A pipeline is one
step: it ends with an outcome out of `OutcomesOf`. New tasks carry no DSL
(IngestDocuments sets no schema) and fail at once, which is what the code does
today; seeded tasks have one, so that pipelines of every outcome occur.
`failedCalls` is a history variable: the tasks for which a publish or a write
failed.

### 2.2 AgentLoop

A step is one critical section of `turnBuffer`, `preemptController` or
`stopController`, or one access to an atomic flag, with the local work around it.
`loop.pc` is the line `run` (with `runAgentAndHandleEvents` and `cleanup`) has
reached; `turn[k]` holds the five goroutines of the k-th turn. Select statements
with several ready channels are choices (`WatchPreempt`, `WatchStop`, and
`FinishTurn` against `CloseIterator`). watchPreempt asks the agent to cancel, closes
preemptDone and acks in three steps (`SubmitPreempt`, `ClosePreemptDone`, `AckPreempt`),
so that the agent may answer in between. A send on, or a second close of, a closed
channel is a panic: `flags.crashed` for the event channel, `ack[p] = "twice"` for
an ack channel, `pc = "panic"` for the panics of the controllers.

Abstractions: items are opaque; a cancel request is its presence (modes,
timeouts and their merging are left out); GenInput and GenResume split the items
they are given, by position, into consumed and remaining ones that keep their order
(`Splits`), and GenInput consumes at least one; the strategy of a push is one of the push kinds; how an agent ends is one of
`Events`, or the answer to a cancel; the Store can delete.

### 2.3 TaskLifecycle

What a client of the table may rely on while requests come one after another,
nobody stops tasks and pipelines end within AckWait. `Documented` is the diagram in the
comment on CheckAndCreate (`dao/ingestion.go:33`; STOPPING is its "canceling", STOPPED
its "canceled"), with the removal of rows that are not executing (line 332). The code
does not keep to it even then, and the two ways in which it leaves it are actions of
their own, allowed by the constant `Departures`: `Interrupt`, a worker whose context is
cancelled or whose deadline passes writes STOPPED over RUNNING
(`ingestion_service.go:276`), and `RemoveExecuting`, a row that was read before its task
was started is deleted while it is executed. Without either of them TLC finds the
refinement violated.

The refinement is the property `ImplementsLifecycle` of `IngestionTask`; `MayDepart`
says which departure a configuration makes possible (the first where an ingestor may
stop or a deadline pass, the second where rows are removed), so that without stops,
deadlines and removals the documented diagram is implemented as it stands. It holds
where requests come one after another, without the operation "stop" and with no fault but
a failed publish and a deadline (`Orderly`), such as in `IngestionTwoIngestors`, and is
proved there (4.1); otherwise the late writes listed in 3.2 leave the lifecycle.

### 2.4 CancelContext

One run, plain or a workflow of `SubAgents` sub-agents that share its context.
`call[c]` is a call of the cancel function and the Wait on its handle; `timer` the
deadline goroutine; `wrap[w]` the iterator wrapper around the outer run (`Outer`)
or a sub-agent; `wf` the workflow goroutine. `cancelMu` is the lock `mu`; the
atomics that are written without it (the mode in `triggerImmediate`, the state in
`markDone`) are steps of their own. Time is discrete (`Tick`), and only the
distance to deadlines matters. Modes are sets of safe points, the empty one being
immediate. An agent ends with one of `Events`; `noInput` is a failing `genInput`.

| code | actions |
|---|---|
| buildCancelFunc | `Cancel`, `Request`, `TriggerImmediate`; `WaitReturns` |
| startTimeout | `TimerLoop`, `TimerSelect`, `TimerWoken`, `TimerFire` |
| flowAgent.Run | `Run`, `RunFails` |
| wrapIterWithCancelCtx | `InnerEnds`, `WrapClosed`, `WrapHandle`, `WrapLast` |
| runSeq, runLoop, drainEvents | `WorkflowCheck`, `WorkflowAfter`, `WorkflowHandle` |

### 2.5 PregelEngine and TaskGraph

Runs of one thread, one after another, that share the checkpointer. `pc` is the top
of the loop or the execution of a step; `task[n]` the result of each node. Each node
writes one channel of its own, so `chans` and a checkpoint of it are sets of nodes. Run
registers the channels of the graph and the keys of its input and restores no others
(`Restored`): the output of a node outside `Declared` lives in a channel that
applyWrites created, and a resume drops it while the node stays completed. The history
variable `now` holds the nodes that completed in the present run, so that `Dropped`, the
completed nodes that are neither declared nor of this run, are the outputs a resume may
have dropped.
Of the merged state only `_next` (`route`) matters to the loop. Map iteration order
is a choice (`LastOf`, `Routes`). An asynchronous save is an element of `saving` that
lands at any later time.

| code | actions |
|---|---|
| Run up to the loop | `Run` |
| checks at the top of the loop | `StopLoop`, `Finish`, `InterruptBefore` |
| executeTasksAsync, RetryExecutor | `StartTasks`, `ExecuteNode` |
| the rest of a superstep | `NodeInterrupt`, `AllFailed`, `ApplyWrites` with `SaveStep` and `EndStep` |
| goroutine of an asynchronous save | `AsyncSave` |
| environment | `CancelRun`, `Crash` |

`TaskGraph` knows only which nodes have finished and which are kept for a resume:
a step adds ready nodes, a new run starts from what is kept or from nothing. The
refinement maps `finished` to `completedTasks` and `kept` to those of the newest
checkpoint.

### 2.6 CanvasRunner

Requests for one canvas. A request has a session and three goroutines: `run[r]`
(Runner.Run), `fn[r]` (the RunFunc in safeInvoke) and `reader[r]` (the handler);
`out[r]` is the event channel, of capacity `Cap`. What a goroutine still has to send
is its `todo`, and each send is a step. A write to the tracker is lost once the
context of the request is done. persistAgentRunSession is two steps, read and write.
Events are reduced to their kind; the node events of a workflow are one `progress`.
A completed run and one that `shouldTreatAsCompletedLoopRun` treats as completed are
the same outcome. `met` is a history variable: requests that overlapped another of
their session. The requests in `Paused` have run before: their clients have been told
that they wait for an answer, and their sessions wait on their interrupts (`Waiting`).

| code | actions |
|---|---|
| Runner.Run | `Register`, `TakeInterrupt`, `SaveInterrupt`, `Push`, `Cleanup`, `CloseEvents` |
| safeInvoke | `InvokeReturns` |
| buildRunFunc | `FnBegin`, `FnOpen`, `FnCompile`, `FnInvoke`, `FnLoad`, `FnStore`, `FnMark`, `FnReturn`; `Emit` |
| RunAgent, AgentChatCompletions | `Read`, `ReadEnd`; the client: `Leave` |

## 3. Runs

All runs name every bound in their `.cfg`. Deadlock is not checked, because all
systems may come to rest: all requests are served and the queue is empty, the loop
is done, the runs are over; that they do not come to rest too early is what the liveness
properties say.

### 3.1 Passing runs

| run | question | bounds |
|---|---|---|
| `IngestionFaults` | is a running task orphaned when two requests interleave with an ingestor, under every fault of processes, database, queue and broker at once? is a created one forgotten? does the inductive invariant hold? | 2 callers, all operations, 1 ingestor with 1 worker, stream of 1 message, 2 deliveries |
| `IngestionTwoIngestors` | is a task executed twice at a time by two ingestors? does the table keep to the lifecycle, but for the named departures? does the inductive invariant behind both hold? | 2 ingestors, 3 requests, 2 restarts |
| `IngestionSettles` | does every task reach an end? | 1 ingestor, 2 crashes or stops, 4 deliveries |
| `AgentLoopPush` | do pushes of every kind and turns get along? does the inductive invariant hold? | 2 items, 1 stop, 3 turns |
| `AgentLoopStop` | is a preempt or a cancel lost on its way to a watcher, or a turn run after a stop, when stops, preempts, turns, failing callbacks and a failing store meet? | 2 preempting pushes, 2 stops (at once, cancelling, skipping the checkpoint), 3 turns |
| `AgentLoopResume` | is a checkpoint resumed and saved completely? does the inductive invariant of the items hold? | 1 old and 1 new item, 1 cancelling stop |
| `AgentLoopAcks` | is every ack closed? | 2 preemptive pushes, immediate or delayed |
| `AgentLoopStopEnds` | does a stop end the loop, whatever its kind, also when callbacks fail and the context is cancelled? | 1 item, 1 stop |
| `PregelRuns` | do runs and resumes of a graph do what the graph says, whatever fails? does the engine implement `TaskGraph`? | diamond of 4 nodes with a conditional edge, both modes, 3 durabilities, interrupts before, in and after nodes (the entry and the join may interrupt), 2 of 4 channels declared, all 4 faults, limit 4, 2 runs |
| `CancelRuns` | do two cancels, the timer and the run they race agree? | 2 callers, timeouts 0 to 2, a plain run or 2 sub-agents |
| `CanvasRuns` | do two requests of a canvas, their streams, the interrupt they find and the one they leave get along? | a paused run and 2 requests, of its session or one of another, one session stored; channel of 1; one client that may leave; outcomes interrupt, error, panic, placeholder, success |

Why these bounds are enough to be interesting: with two callers every pair of
requests interleaves at each statement; a channel of two with redeliveries gets
full; two or three deliveries are enough for a redelivery and for using them up;
two items give a turn that is running and a push that sees it, a remainder that
goes back to the front, and a second turn whose watchers meet those of the first;
two stops give a commit, a cancel after it and an escalation, while a watcher of an
earlier turn reads the channel of the running one; two
cancels with two different timeouts give a deadline that is shortened, one that is
not, and an escalation; a diamond has a fan-out whose halves end and fail in any
order, between an entry and a join that may interrupt, and the join needs both (an
interrupt beside a sibling that succeeds is left to the proofs); a limit of four is just enough to finish
it, and a loop through `_next` runs into it; two runs give an interrupt and a resume;
a channel of one makes every send wait for its reader, where the code's eight make
the ninth wait; two requests supersede and overtake each other, find the same paused
run, and resume the one the other has paused.

`CreatedHasMessage` and `RunningHasMessage` have an escape, `LostToFault`. It
lists exactly the ways in which the code does lose a task (publish failed after
the commit; status write failed before the ack; stream full; message acked by an
operator; deliveries used up). `RunningHasMessage` is for one ingestor:
with two of them the late write of SetRunningByIngestor can put a task whose
message is gone into RUNNING. `OneExecutionAtATime` needs its conditions (`Orderly`),
too: requests one after another, no stop of a task, pipelines within AckWait, and no
crash, failed statement or failed ack. With a crash between the outcome and the ack a
failed task that is started again has two messages, and both of them lead to a worker.

### 3.2 Runs that show a disagreement

`IngestionStopHangs` checks what the comment on CheckAndCreate says, that a
cancellation completes, and finds it violated: a stop that races the end of the task
leaves the row in STOPPING for ever. `PROJECT.json` quotes the line.

The models reproduce further behaviour of the code that a reader of its comments
would not expect. No run is kept for these; the properties above are stated so
that they hold in spite of them.

* SetRunningByIngestor overwrites a STOPPED written after its SELECT: the task is
  executed although its stop was confirmed (`dao/ingestion.go:135`).
* Two concurrent requests create two tasks for one document (`dao/ingestion.go:59`).
* Statuses move in ways the diagram on CheckAndCreate (`dao/ingestion.go:33`) does not
  have: RUNNING to STOPPED when the context of a worker is cancelled or its deadline
  passes (`ingestion_service.go:276`), CREATED to STOPPED by a stop
  (SetStoppingByAPIServer), STOPPED to RUNNING by the late write above, and STOPPING to
  the outcome of a task that ends while it is being stopped. There is no cancel of a
  completed task.
* RemoveByAPIServerOrAdminServer deletes the row of a task that is executed when the
  ingestor has started it after the SELECT, although "task %s is executing, cannot be
  removed" (`dao/ingestion.go:332`).
* A cancelled worker acks; nobody nacks after execution, although the comment on
  ackOrNack says so (`ingestion_service.go:271`).
* A Push that loaded `stopped` before cleanup leaves an accepted item in the
  buffer of a finished loop (`agent_loop.go:171`).
* A stop before the resumed turn is planned loses the items of the checkpoint and
  deletes the checkpoint (`agent_loop_run.go:107`).
* A watcher of an earlier turn takes a preempt, or the cancel of a Stop, meant for
  the running turn (`agent_loop_agent.go:188`): nothing is preempted, and an agent
  that ends only when cancelled keeps the loop from ending.
* A completed resumed turn is saved again by an idle stop, because its bridge
  store keeps the resumed bytes (`agent_loop_agent.go:198`).
* The event copier of an earlier turn reports its interrupt for a later one
  (`agent_loop_agent.go:163`).
* An interrupt without contexts, which is what the constructors make, does not end
  the loop (`agent_loop_run.go:254`).
* An item received while the idle timer commits the stop is not put back
  (`agent_loop_run.go:164`): `AgentLoopPush` with `StopKinds = {"idle"}` violates
  `ItemsConserved`, although a test "verifies stop after receive recovers items"
  (`agent_loop_edge_test.go:82`).
* A preempt whose agent answers the cancel before watchPreempt has closed preemptDone
  ends the loop with a CancelError: the select takes the end of the events for the end of
  the turn (`agent_loop_agent.go:45`, `205`).
* A preempted turn closes the channel its agent is still sending on
  (`agent_loop_agent.go:220`); the next Send panics.
* A Cancel of a run that has ended by itself returns ok and its Wait never returns,
  because the wrapper marks the context done only after a cancel (`cancel.go:494`).
* After a safe-point cancel two callers of Wait may be told nil and ErrCancelTimeout
  for one run, because timeoutEscalated can be set after the cancel was handled.
* A sub-agent that cannot make its input marks the context of the whole run done
  (`flow.go:210`).
* In the mode "any" a resumed run schedules the successors of the last completed
  node, so the node that interrupted need not run again (`pregel/engine.go:789`;
  `interrupt/interrupt.go:56` describes a re-execution).
* A resume drops the values of channels that applyWrites created (`engine.go:1003`,
  `368`), as in the map-schema graphs of `graph_topology_checkpoint_edge_test.go:53`,
  while their nodes stay completed: later nodes run without these inputs and the final
  state lacks them, although the comment at `engine.go:307` says that the values of the
  checkpoint contain the state at the interruption.
* The checkpoint of a node's interrupt lacks the channel writes of the siblings that
  succeeded in the same step (`engine.go:556`); the checkpoint of a step lacks the
  completed tasks, so that a run after a crash starts from the entry point with the
  old channels.
* A late asynchronous save replaces a newer checkpoint (`engine.go:654`); with
  durability "exit" an interrupt or an error drops what was deferred
  (`engine.go:677`); a checkpointer that cannot be read counts as empty
  (`engine.go:341`).
* A request for another session of a canvas cancels the run in progress, and its
  stream ends without `done` (`canvas/runner.go:238`, `308`).
* Overlapping requests of one session lose an interrupt (`runner.go:193`) or an
  answer in the history (`service/agent.go:1240`).
* Every request consumes the interrupt of its session, also with an empty input,
  where the comment on RunAgent speaks of a non-empty one (`runner.go:299`).
* A send blocks when the handler has returned and the channel is full, where the
  comment says the event is dropped (`runner.go:447`). A RunFunc that waits there stays
  until a newer request cancels its run, which closes the channel; a run goroutine that
  waits there stays for ever, because it is past its select on the cancel channel.
* A run that ends with a timeout sends an error and `done`, where the comment on Run says
  that it closes silently (`runner.go:39`).
* The tracker keeps "running" for a run whose client left or that panicked.
* The early return of CheckAndCreate neither commits nor rolls back, and the
  connection stays in use (`dao/ingestion.go:70`); a status write that fails at the
  end of a task is followed by the ack all the same (`ingestion_service.go:282`); one
  database error ends Start while the process stays up (`ingestion_service.go:157`).
* A checkpoint of the loop that cannot be decoded is deleted (`agent_loop.go:188`), one
  without runner state loses its CanceledItems (`agent_loop_checkpoint.go:92`), and a
  failed save leaves the older one in the store (`agent_loop.go:186`).
* The nodes of a step all start at once; maxConcurrency is not looked at
  (`pregel/async.go:182`).
* A mode joined with one that was read before an escalation undoes the escalation in
  the CancelError (`cancel.go:353`); the run ends all the same.
* Interrupt ids are kept in memory and lost at a restart (`canvas/runner.go:193`).
* CancelAgent looks into a map nothing fills and cancels nothing
  (`service/agent.go:1353`).

### 3.3 Fairness

`IngestionTask!Fairness`: goroutines and requests that can go on do (the Go
scheduler and the server give weak fairness to each), a pipeline ends, JetStream
redelivers what nobody holds, and a supervisor restarts an ingestor that is down.
New requests, faults, `Stop` and `StartReturns` are not fair. Redelivery under a
live handle is a fault of a run (`expire`), not a fair action.

`AgentLoop!Fairness`: every goroutine that can go on does, callbacks return,
timers fire, and an agent asked to cancel gets to its answer. It says nothing of
callers of Push, Stop and Run, nor of the context. `CancelSpec` lets agents run
for ever unless cancelled; `FairSpec` adds that agents end by themselves, which is
what a stop without a cancel relies on.

`CancelContext!FairSpec`: goroutines go on and time passes; an agent need not end by
itself, but it does once `immediateChan` is closed, which its model streams and tools
watch. Callers need not cancel.

`PregelEngine!Fairness`: the loop goes on and a node returns (a node that never does
blocks the engine at its barrier). Late saves, cancels and crashes are not fair.

`CanvasRunner!Fairness`: a goroutine that can go on does, and a workflow ends. It is
one weak fairness condition for all goroutines; since each request takes a bounded
number of steps that is the same as one for each. Clients need not call or leave.

## 4. Proofs

Eight modules hold proofs, each for all values of the constants its named assumption
admits and under every fault of the model. Each rests on an inductive invariant
`IInv` (or `OrderlyInv`, `ItemsInv`) that a run checks as well. Where the invariant is
large it has a first part that is inductive by itself (`RunnerInv`, `TimingInv`,
`GraphInv`, and `IInv` of the agent loop), and the second part builds on that theorem.

### 4.1 IngestionTask

`IngestionTaskProofs` proves, for all values of the constants that satisfy
`ConstantsAssumption` (finite seeded tasks, positive capacities, known
operations and faults):

* `TypeCorrect`: `Spec => []TypeOK`. The substance is the bound of `taskChan` and
  that records stay well formed through every action.
* `CreatedTaskIsNotForgotten`: `Spec => []CreatedHasMessage`.
* `RunningTaskIsNotOrphaned`: `Spec => []RunningHasMessage`, for one ingestor
  (`OneIngestor`) with any number of workers.
* `IngestionInvariant`: `Spec => []IInv`, the invariant behind all three.

Neither property is inductive: the message in the stream may be one that a consumer
or a worker is about to ack. For a running task `IInv` therefore asks for a message
nobody is about to ack (not in `Settling`), and for a created one for a message nobody
has even started (not in `Started`). They survive because whoever acks has seen, or
written, another status, and because the row gets back to CREATED only through a
request that then publishes a message of its own. A row becomes RUNNING by the
write of a consumer that saw CREATED some steps earlier; `SeenIsNew` says that the
message it saw then, or another one, has not been started since. This is where one
ingestor is needed: between the SELECT and the UPDATE of one process another one may
execute the redelivered message to its end and ack it.

`IInv` also says that message numbers are given out in order (`Numbered`: a publish
never overwrites a message) and that handles refer to published messages, past the
SELECT to ingestion tasks (`ConsumerHandles`, `WorkerHandles`, `RequestsHaveTask`).
The proof has one lemma for types and handles per group of actions. What keeps a task
answered for is split into what a step does to the stream (`StreamStep`), which
messages it starts or decides to ack (`StartedStep`, `SettlingStep`) and who makes a
task created or running (`StatusStep`); `AnsweredStep` puts these together. TLC
checks `IInv` in `IngestionFaults`.

`IngestionOrderProofs` proves, for any number of tasks, ingestors, workers and messages
and under the assumption `Orderly` (2.3):

* `OneExecution`: `Spec => []OneExecutionAtATime`.
* `LifecycleImplemented`: `Spec => ImplementsLifecycle`. The initial states map to
  initial states, and `StatusMoves` shows that every step moves one row as
  `TaskLifecycle` allows or leaves the table alone. A departure is taken only if
  `MayDepart` has it: `Configured`, a conjunct of `OrderlyInv`, says that an ingestor is
  stopping only where stops are possible, and that a request removes only where that is
  an operation.
* `OrderlyInvariant`: `Spec => []OrderlyInv`, the invariant behind both.

Each process writes by primary key what it decided after an earlier SELECT, so both
results rest on the row still being as it was read. `OrderlyInv` says why it is. A
message has one handle over all ingestors and is not ready while it has one
(`OneHandle`); a task has one message in play, that is, live or held and not yet
executed (`OneInPlay`), and none while a request is about to start it again or to
publish it; the row is as a request read it (`RequestsInTurn`); and the status agrees
with how far the message has come (`Stages`): CREATED before the write of
SetRunningByIngestor, RUNNING from there until the outcome, unless the row was removed
meanwhile. The lemmas follow these four parts. `HoldsStep`, `LiveStep`, `ExecutedStays`
and `InPlayStep` say that a message comes into play through a publish only,
`StatusMoves` and `StatusOf` how a status moves, and one lemma per part that it is kept.
That a seeded task starts with one message is a counting argument (`OneMessageEach`: a
surjection between finite sets of the same size is injective). TLC checks `OrderlyInv`
in `IngestionTwoIngestors`.

### 4.2 PregelEngine

For every finite graph, every set of configurations and faults and any number of runs:

* `EngineInvariant` (`Spec => []GraphInv`) and `EngineImplementsTaskGraph`
  (`Spec => ImplementsTaskGraph`). That every step maps to a step of `TaskGraph` needs
  to know that what is executed is ready there. In the mode "all" this is the guard; in
  the mode "any" the next tasks come from the last completed node and from `_next`, so
  `GraphInv` says where these two come from (`Whence`: the last node is a completed one,
  the branch is one of a completed node's), for the run and for the checkpoint it would
  be resumed from, and carries readiness through the execution of a step.
* `OutputInvariant` (`Spec => []IInv`). `IInv` adds what a step executes (`Scheduled`),
  what a checkpoint of an interrupt keeps (`Resumable`), that completed nodes are closed
  under predecessors (`AllReached`) and, for some graphs, that the channels hold the
  output of every completed node but those in `Dropped` (`Held`).
* `ResumesContinue` (`Spec => []ResumeContinues`): no completed node is run twice and
  none is skipped by a resume.
* `InputsArePresent` and `FinalStatesAreComplete` hold for every set of declared
  channels and say which inputs and outputs a resume may have dropped (`Dropped`, none
  when all channels are declared, and none before the first resume). They have hypotheses
  about the graph.
  `InterruptsAlone` says that a node that can interrupt is never scheduled together with
  another one. Without it the theorems are false of the code: the checkpoint of an
  interrupt lacks the channel writes of the siblings that succeeded (3.2), and a resumed
  run starts their successors without them. `Acyclic` (of the regular edges) is needed
  because on a cycle no node of the mode "all" ever becomes ready, and the engine
  returns a final state without having run any of them. `MCPregelEngine` assumes both of
  its diamond, so TLC evaluates them.

### 4.3 CancelContext

For any number of callers and sub-agents:

* `Deadlines` (`Spec => []TimingInv`), `NoTimeoutIsExtended` and `TimeoutsAreReal`.
  `TimingInv` relates the deadline to what each caller was promised (the earliest one
  asked for), the timer to the deadline (set for it, or a token waits), and the recorded
  timeout to a deadline that has passed.
* `RunInvariant` (`Spec => []IInv`), `CancellationIsReported` (`HandledIsReported`) and
  `WaitEndsTheRun` (`QuietAfterWait`). `IInv` adds where the wrappers are while the
  workflow is at each of its steps (`Nested`), that whoever handles a cancel has seen it
  (`Looked`), that a context that has ended has no agent at work and lets no other start
  (`Settled`), and where a handled cancel is on its way to the reader (`Reported`).

### 4.4 CanvasRunner

For any number of requests and sessions and any capacity of the channel:

* `RunnerInvariant` (`Spec => []RunnerInv`), `OneRunAtATime`,
  `InterruptsAreAnsweredOnce` and `StreamsEndWithDone`. `RunnerInv` says of registration
  and interrupts that a saved interrupt belongs to its session and to a run that has
  reported, and is gone once a run resumes it, and follows the terminator of a stream from what is still to be pushed
  through the channel to the client (`Terminator`).
* `SessionInvariant` (`Spec => []IInv`), `InterruptsAreNotLost`
  (`WaitingCanBeAnswered`), `AnswersAreKept` (`AnswersKept`) and `TrackedRunsAreLive`
  (`RunningIsLive`). `IInv` adds what requests of one session do to each other: those
  that never met have the session to themselves (`Apart`), an interrupt that is, or is
  about to be, told to the client is saved or taken, and taken before another run of the
  session may overwrite it (`InterruptKept`), an answer is in the row and in what every
  other RunFunc is about to write (`AnswerKept`), and the tracker names a run that has
  its end to record or can no longer write it (`TrackedLive`).

### 4.5 AgentLoop

`LoopInvariant` (`Spec => []IInv`), for any number of pushes and stops, every
checkpoint, and so any number of turns. From it follow `NoPanics`, `PushesAreCounted`,
`RequestsNameTheTurn` (`PendingTargetsCurrentTurn`), `SignalsReachAWatcher`
(`NotifyNotLost`) and `StopsPreventTurns`. The properties need each other and more:

* `Stages`: the phase of `preemptController` is a function of where `run` is. This
  is what keeps the phase panics out of reach.
* `PushPath`: the kinds of push at each step of Push; with `PushesCounted` it keeps
  endPush from counting below zero.
* `AckHolder`: an open ack channel has one holder, its push, the controller or the
  watcher of one turn, so it is closed once.
* `Ahead`: the watcher of a turn that has not started is not there yet. Starting it
  must not take the place of a watcher that holds a signal.
* `AfterStopPlanned`: a turn planned after the commit is still in its planning,
  and the stop is still committed.

The steps are proved in four groups, by who takes them: callers of Stop, timers and
the context (`StoppersKeep`); callers of Push (`PushersKeep`); the goroutines of a
turn (`TurnsKeep`); and run (`RunKeeps`), whose steps either leave the controllers
alone (`QuietStep`) or tell them (`ToldStep`). TLC checks `IInv` in `AgentLoopPush`.

`AgentItemsProofs` proves what becomes of the items:

* `ItemsInvariant` (`Spec => []ItemsInv`) and `LoopTypeCorrect` (`Spec => []TypeOK`).
* `ItemsKeepOrder` (`OrderKept`), `ItemsAreNeverDoubled` (an item has one copy at most)
  and `CheckpointsNameItemsOnce` (`StoreDistinct`), under every fault and every kind of
  stop.
* `ItemsAreConserved` (`ItemsConserved`) has two hypotheses, one for each place where
  the code loses items (3.2): `NoIdleStops`, because IdleCheck drops an item received
  while the idle timer commits the stop, and no runner checkpoint in the Store, because
  a stop before the resumed turn is planned drops what was loaded. With a checkpoint
  the second loss is the only one: `ItemsAreLostWithAResume` proves that items are
  conserved or `ResumeForgotten` holds, that is, run is over and has planned no turn.
* `CheckpointsAreComplete` (`CheckpointComplete`), for `NoIdleStops`, a Store that saves
  (no fault "save") and an event handler that reads all events (no fault "early": one
  that returns before the agent has answered leaves nothing captured to save).

`CheckpointAssumption` says that the loaded checkpoint names an item once;
`CheckpointsNameItemsOnce` shows that the loop itself writes no other.

`ItemsInv` is inductive together with `IInv`. What the properties need besides
themselves:

* `RunHolds`: at which steps run holds items in a local variable, a checkpoint to
  resume or an error. Items in hand elsewhere would be lost by the next assignment.
* `NotLoaded`: what run will find when it loads the checkpoint, so that it can take
  charge of items nobody has yet.
* `TurnsAhead`: a turn that has not been planned has no items. The split of a new turn
  overwrites its record, which must not hold items of another one.
* `ItemsApart`: the places of an item exclude each other, and each place is in the
  order of acceptance (`Follows`). The hand of run is always put back in front of the
  buffer, so hand and buffer together are the one sequence (`Queue`) that is ordered.
* `ItemsPlaced` with `NeverIdle`: without idle stops the steps that drop an item are
  not taken.
* `EventsRead`: when the handler has read all events the flags in `captured` are what
  the agent of the turn ended with, so that AfterTurn keeps the items of a cancelled or
  interrupted turn. A preempted turn whose channel was closed is the other case.
* `Saved`, `StoreDistinct`: what is written is what is in the result.

PlanTurn is stated with positions rather than with a filter, since the library has
nothing the provers can use about SelectSeq. The lemmas about sequences come first
(`ConcatFacts`, `PickFacts`, ...), then what a step can do to the items, with one lemma
per kind of step, then the steps in the groups of `AgentLoopProofs`. TLC checks
`ItemsInv` in `AgentLoopResume`.

### 4.6 Only model-checked

Liveness (`TasksSettle`, `AcksComplete`, `StopEnds`, `RunEnds`, `CancelReturns`,
`StreamsEnd`, `CancelledEnds`) is out of reach of the prover, as are ENABLED and
induction over data. Every invariant a run checks is proved; `RegistrationKept` is a
conjunct of the proved `RunnerInv`.

## 5. Not modelled

Task logs, tasklets (`executeTasklet` has no caller that creates a tasklet), the
DSL and the pipeline inside a task, the connection pool of the database, JetStream
clustering; in the harness the parallel workflow, the transfer loop of a flow agent,
derived cancel contexts (no caller), the agents themselves, and the encoding of a
checkpoint; of the graph engine branches, caches, subgraphs, a requested checkpoint
and the stream manager; of the canvas the scheduler, the components, cancellation
through Redis and the loading of versions. Most of the repository (clients of external
services, parsers, the command line, CRUD services) is sequential I/O and text
processing without state a model could tell apart; `PROJECT.json` lists each part.

## 6. Plan

In the order of importance:

1. `runPar` in `CancelContext`: siblings that share a context.
2. The Redis cancellation of a canvas (`canvas/cancel.go`) and the run tracker's
   other writers, composed with `CanvasRunner`.
3. The connection pool with CheckAndCreate's early return (a leak), as a small
   module composed with the request handlers.
