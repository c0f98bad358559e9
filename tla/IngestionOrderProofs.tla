------------------------ MODULE IngestionOrderProofs ------------------------
(***************************************************************************)
(* Proofs about IngestionTask where requests come one after another, nobody*)
(* stops tasks and nothing but a publish or a pipeline fails (Orderly): a  *)
(* task is executed by one worker at a time, and the processes implement   *)
(* TaskLifecycle, through the inductive invariant OrderlyInv.              *)
(***************************************************************************)
EXTENDS IngestionTaskProofs

(* What cannot happen in an orderly run.                                    *)
LEMMA OrderlyFacts ==
    ASSUME Orderly
    PROVE  /\ \A t : ~WriteFails(t)
           /\ \A i \in Ingestors : ~Crash(i) /\ ~StartReturns(i)
           /\ \A c, t, pc : ~StopTask(c, t, pc)
           /\ \A m : AckWaitExpires(m) => \A i \in Ingestors : ~Holds(i, m)
           /\ \A i, w : AckOrNack(i, w) => Ack(worker[i][w].msg)
BY DEF Orderly, WriteFails, Crash, StartReturns, StopTask, Begin, AckWaitExpires, AckOrNack

(***************************************************************************)
(* The handles of an ingestor change in its own steps only.                *)
(***************************************************************************)
Same(j) ==
    /\ consumer'[j] = consumer[j]
    /\ batch'[j] = batch[j]
    /\ taskChan'[j] = taskChan[j]
    /\ worker'[j] = worker[j]

OwnStep(j) ==
    \/ GetMessages(j) \/ \E m \in Msgs : SelectTask(j, m)
    \/ SetRunningByIngestor(j) \/ PushTask(j) \/ AckSkipped(j)
    \/ \E w \in Workers :
          TakeTask(j, w) \/ ExecuteTask(j, w) \/ AckOrNack(j, w) \/ WorkerExit(j, w)
    \/ Exit(j)

LEMMA LocalStep ==
    ASSUME WellFormed, Orderly, Next, NEW j \in Ingestors, ~Same(j)
    PROVE  OwnStep(j)
<1> USE DEF WellFormed
<1>1. ~UNCHANGED ingVars
  BY DEF Same, ingVars
<1>2. ASSUME NEW c \in Callers, CallerStep(c) \/ Request(c) PROVE FALSE
  BY <1>1, <1>2
  DEF CallerStep, Request, CheckTask, CreateTask, RestartTask, PublishIngestion, PublishFails,
      StopTask, SetStopping, PublishStop, CheckRemovable, RemoveTask,
      PublishMessageToQueue, PullMessageFromQueue
<1>3. ASSUME NEW m \in Msgs, AckWaitExpires(m) PROVE FALSE
  BY <1>1, <1>3 DEF AckWaitExpires
<1>4. ASSUME NEW i \in Ingestors, Stop(i) \/ Restart(i) PROVE FALSE
  BY <1>4 DEF Stop, Restart, Same
<1>5. ASSUME NEW i \in Ingestors, ConsumerStep(i) PROVE OwnStep(j)
  <2>1. CASE i = j
    BY <1>5, <2>1 DEF ConsumerStep, OwnStep
  <2>2. CASE i # j
    <3>1. UNCHANGED worker
      BY <1>5 DEF ConsumerStep, GetMessages, SelectTask, SetRunningByIngestor, PushTask, AckSkipped
    <3>2. batch'[j] = batch[j]
      BY <1>5, <2>2 DEF ConsumerStep, GetMessages, SelectTask, SetRunningByIngestor, PushTask,
                        AckSkipped, TypeOK, ConsumerType
    <3>3. taskChan'[j] = taskChan[j]
      BY <1>5, <2>2 DEF ConsumerStep, GetMessages, SelectTask, SetRunningByIngestor, PushTask,
                        AckSkipped, TypeOK, ChanType
    <3>4. consumer'[j] = consumer[j]
      BY <1>5, <2>2 DEF ConsumerStep, GetMessages, SelectTask, SetRunningByIngestor, PushTask,
                        AckSkipped, TypeOK, ConsumerType
    <3> QED BY <3>1, <3>2, <3>3, <3>4 DEF Same
  <2> QED BY <2>1, <2>2
<1>6. ASSUME NEW i \in Ingestors, NEW w \in Workers, WorkerStep(i, w) PROVE OwnStep(j)
  <2>1. CASE i = j
    BY <1>6, <2>1 DEF WorkerStep, OwnStep
  <2>2. CASE i # j
    <3>1. CASE TakeTask(i, w)
      BY <2>2, <3>1 DEF TakeTask, Same, TypeOK, ChanType, WorkerType
    <3>2. CASE ExecuteTask(i, w) \/ AckOrNack(i, w) \/ WorkerExit(i, w)
      <4>1. UNCHANGED <<consumer, batch, taskChan>>
        <5>1. CASE ExecuteTask(i, w)
          BY <5>1, Zenon DEF ExecuteTask
        <5>2. CASE AckOrNack(i, w) \/ WorkerExit(i, w)
          BY <5>2 DEF AckOrNack, WorkerExit
        <5> QED BY <3>2, <5>1, <5>2
      <4>2. PICK r : worker' = [worker EXCEPT ![i][w] = r]
        BY <3>2, WorkerResult
      <4>3. worker'[j] = worker[j]
        BY <2>2, <4>2 DEF TypeOK, WorkerType
      <4> QED BY <4>1, <4>3 DEF Same
    <3> QED BY <1>6, <3>1, <3>2 DEF WorkerStep
  <2> QED BY <2>1, <2>2
<1>7. ASSUME NEW i \in Ingestors, Exit(i) PROVE OwnStep(j)
  <2>1. CASE i # j
    BY <1>7, <2>1 DEF Exit, Down, Same, TypeOK, ConsumerType, ChanType, WorkerType
  <2> QED BY <1>7, <2>1 DEF OwnStep
<1> QED
  BY <1>2, <1>3, <1>4, <1>5, <1>6, <1>7, OrderlyFacts DEF Next

(***************************************************************************)
(* One handle of a message.                                                *)
(***************************************************************************)

(* A step gives an ingestor no handle of a message it had none of, except   *)
(* that GetMessages fetches ready ones.                                     *)
LEMMA HoldsStep ==
    ASSUME WellFormed, Orderly, Next, NEW j \in Ingestors, NEW m \in Msgs,
           Holds(j, m)', ~Holds(j, m)
    PROVE  GetMessages(j) /\ m \in batch'[j]
<1> USE DEF WellFormed
<1>0. OwnStep(j)
  <2>1. CASE Same(j)
    BY <2>1 DEF Same, Holds
  <2> QED BY <2>1, LocalStep
<1>1. CASE GetMessages(j)
  BY <1>1 DEF GetMessages, Holds
<1>2. ASSUME NEW k \in Msgs, SelectTask(j, k) PROVE FALSE
  <2>1. /\ UNCHANGED <<taskChan, worker>>
        /\ consumer'[j].msg = k /\ k \in batch[j]
        /\ batch'[j] \subseteq batch[j]
    BY <1>2 DEF SelectTask, TypeOK, ConsumerType
  <2> QED BY <2>1 DEF Holds
<1>3. CASE SetRunningByIngestor(j)
  <2>1. /\ UNCHANGED <<batch, taskChan, worker>>
        /\ consumer'[j].msg = consumer[j].msg
    BY <1>3 DEF SetRunningByIngestor, TypeOK, ConsumerType
  <2> QED BY <2>1 DEF Holds
<1>4. CASE PushTask(j)
  <2>1. /\ UNCHANGED <<batch, worker>>
        /\ consumer'[j].msg = NoMsg
    BY <1>4 DEF PushTask, AtLoop, TypeOK, ConsumerType
  <2>2. taskChan[j] \in Seq(Msgs) /\ consumer[j].msg \in Msgs
    BY <1>4 DEF PushTask, TypeOK, ChanType, ConsumerHandles, Used
  <2>3. \A k \in DOMAIN taskChan'[j] :
           \/ taskChan'[j][k] = consumer[j].msg
           \/ \E l \in DOMAIN taskChan[j] : taskChan'[j][k] = taskChan[j][l]
    <3>1. CASE taskChan'[j] = taskChan[j]
      BY <3>1
    <3>2. CASE taskChan'[j] = Append(taskChan[j], consumer[j].msg)
      BY <2>2, <3>2, AppendProperties, LenProperties
    <3>3. taskChan'[j] = taskChan[j] \/ taskChan'[j] = Append(taskChan[j], consumer[j].msg)
      BY <1>4 DEF PushTask, TypeOK, ChanType
    <3> QED BY <3>1, <3>2, <3>3
  <2> QED BY <2>1, <2>3 DEF Holds, Msgs, NoMsg
<1>5. CASE AckSkipped(j)
  <2>1. UNCHANGED <<batch, taskChan, worker>> /\ consumer'[j].msg = NoMsg
    BY <1>5 DEF AckSkipped, AtLoop, TypeOK, ConsumerType
  <2> QED BY <2>1 DEF Holds, Msgs, NoMsg
<1>6. ASSUME NEW w \in Workers, TakeTask(j, w) PROVE FALSE
  <2>1. /\ UNCHANGED <<batch, consumer>>
        /\ taskChan[j] # <<>> /\ taskChan[j] \in Seq(Msgs)
        /\ taskChan'[j] = Tail(taskChan[j])
        /\ worker'[j][w].msg = Head(taskChan[j])
        /\ \A v \in Workers : v # w => worker'[j][v] = worker[j][v]
    BY <1>6 DEF TakeTask, TypeOK, ChanType, WorkerType
  <2>2. 1 \in DOMAIN taskChan[j] /\ Head(taskChan[j]) = taskChan[j][1]
    BY <2>1
  <2>3. \A k \in DOMAIN taskChan'[j] :
           k + 1 \in DOMAIN taskChan[j] /\ taskChan'[j][k] = taskChan[j][k + 1]
    BY <2>1
  <2> QED BY <2>1, <2>2, <2>3 DEF Holds
<1>7. ASSUME NEW w \in Workers, ExecuteTask(j, w) \/ AckOrNack(j, w) \/ WorkerExit(j, w)
      PROVE  FALSE
  <2>1. UNCHANGED <<consumer, batch, taskChan>>
    <3>1. CASE ExecuteTask(j, w)
      BY <3>1, Zenon DEF ExecuteTask
    <3>2. CASE AckOrNack(j, w) \/ WorkerExit(j, w)
      BY <3>2 DEF AckOrNack, WorkerExit
    <3> QED BY <1>7, <3>1, <3>2
  <2>2. PICK r : worker' = [worker EXCEPT ![j][w] = r] /\ WorkerBecomes(j, w, r)
    BY <1>7, WorkerResult
  <2>3. worker'[j][w] = r /\ \A v \in Workers : v # w => worker'[j][v] = worker[j][v]
    BY <2>2 DEF TypeOK, WorkerType
  <2> QED BY <2>1, <2>2, <2>3 DEF Holds, WorkerBecomes, Msgs, NoMsg
<1>8. CASE Exit(j)
  <2>1. /\ batch'[j] = {} /\ taskChan'[j] = <<>> /\ consumer'[j].msg = NoMsg
        /\ \A w \in Workers : worker'[j][w].msg = NoMsg
    BY <1>8 DEF Exit, Down, AtLoop, IdleWorker, TypeOK, ConsumerType, ChanType, WorkerType
  <2> QED BY <2>1 DEF Holds, Msgs, NoMsg
<1> QED
  BY <1>0, <1>1, <1>2, <1>3, <1>4, <1>5, <1>6, <1>7, <1>8 DEF OwnStep

LEMMA TidyStep ==
    ASSUME WellFormed, Orderly, OneHandle, Next, NEW j \in Ingestors
    PROVE  Tidy(j)'
<1> USE DEF WellFormed
<1>0. Tidy(j) /\ NoMsg \notin Msgs
  BY DEF OneHandle, Msgs, NoMsg
<1>1. CASE Same(j)
  BY <1>0, <1>1 DEF Same, Tidy
<1>2. CASE GetMessages(j)
  <2>1. /\ UNCHANGED <<consumer, taskChan, worker>>
        /\ consumer[j].pc = "loop"
        /\ \A m \in batch'[j] : m \in Msgs /\ msgState[m] = "ready"
    BY <1>2 DEF GetMessages, TypeOK, ConsumerType
  <2>2. \A m \in batch'[j] : m \in Msgs /\ ~Holds(j, m)
    BY <2>1 DEF OneHandle
  <2> QED BY <1>0, <2>1, <2>2 DEF Tidy, Holds
<1>3. ASSUME NEW m \in Msgs, SelectTask(j, m) PROVE Tidy(j)'
  <2>1. /\ UNCHANGED <<taskChan, worker>>
        /\ consumer'[j].msg = m /\ consumer'[j].pc \in {"write", "push", "ack"}
        /\ m \in batch[j] /\ batch'[j] = batch[j] \ {m}
    BY <1>3 DEF SelectTask, AfterSelect, TypeOK, ConsumerType
  <2> QED BY <1>0, <2>1 DEF Tidy
<1>4. CASE SetRunningByIngestor(j)
  <2>1. /\ UNCHANGED <<batch, taskChan, worker>>
        /\ consumer'[j].msg = consumer[j].msg /\ consumer'[j].pc \in {"push", "ack"}
    BY <1>4 DEF SetRunningByIngestor, TypeOK, ConsumerType
  <2> QED BY <1>0, <2>1 DEF Tidy
<1>5. CASE PushTask(j)
  <2> DEFINE m == consumer[j].msg
  <2>1. /\ UNCHANGED <<batch, worker>>
        /\ consumer'[j].msg = NoMsg /\ batch[j] \subseteq Msgs
    BY <1>5 DEF PushTask, AtLoop, TypeOK, ConsumerType
  <2>2. taskChan[j] \in Seq(Msgs) /\ m \in Msgs
    BY <1>5 DEF PushTask, TypeOK, ChanType, ConsumerHandles, Used
  <2>3. CASE taskChan'[j] = taskChan[j]
    <3>1. \A k \in DOMAIN taskChan[j] : taskChan[j][k] \in Msgs
      BY <2>2
    <3> QED BY <1>0, <2>1, <2>3, <3>1 DEF Tidy
  <2>4. CASE taskChan'[j] = Append(taskChan[j], m)
    <3>1. /\ DOMAIN taskChan[j] = 1..Len(taskChan[j]) /\ Len(taskChan[j]) \in Nat
          /\ DOMAIN taskChan'[j] = 1..(Len(taskChan[j]) + 1)
          /\ \A k \in DOMAIN taskChan[j] : taskChan'[j][k] = taskChan[j][k] /\ taskChan[j][k] \in Msgs
          /\ taskChan'[j][Len(taskChan[j]) + 1] = m
      BY <2>2, <2>4, AppendProperties, LenProperties
    <3>2. \A k \in DOMAIN taskChan'[j] :
             k \in DOMAIN taskChan[j] \/ k = Len(taskChan[j]) + 1
      BY <3>1
    <3>3. /\ m \notin batch[j]
          /\ \A k \in DOMAIN taskChan[j] : taskChan'[j][k] \notin batch[j] \cup {m}
          /\ \A w \in Workers : worker[j][w].msg \in Msgs => worker[j][w].msg # m
      BY <1>0, <2>2, <3>1 DEF Tidy
    <3>4. \A k \in DOMAIN taskChan'[j] : taskChan'[j][k] \notin batch[j] \cup {NoMsg}
      BY <1>0, <2>2, <3>1, <3>2, <3>3
    <3>5. \A k, l \in DOMAIN taskChan'[j] : taskChan'[j][k] = taskChan'[j][l] => k = l
      <4> TAKE k, l \in DOMAIN taskChan'[j]
      <4>1. k \in DOMAIN taskChan[j] /\ l \in DOMAIN taskChan[j] => (taskChan'[j][k] = taskChan'[j][l] => k = l)
        BY <1>0, <3>1 DEF Tidy
      <4> QED BY <3>1, <3>2, <3>3, <4>1
    <3>6. \A w \in Workers : worker[j][w].msg \in Msgs =>
             \A k \in DOMAIN taskChan'[j] : taskChan'[j][k] # worker[j][w].msg
      <4> TAKE w \in Workers
      <4> HAVE worker[j][w].msg \in Msgs
      <4>1. \A k \in DOMAIN taskChan[j] : taskChan[j][k] # worker[j][w].msg
        BY <1>0 DEF Tidy
      <4> QED BY <3>1, <3>2, <3>3, <4>1
    <3> QED BY <1>0, <2>1, <3>4, <3>5, <3>6 DEF Tidy
  <2>5. taskChan'[j] = taskChan[j] \/ taskChan'[j] = Append(taskChan[j], m)
    BY <1>5 DEF PushTask, TypeOK, ChanType
  <2> QED BY <2>3, <2>4, <2>5
<1>6. CASE AckSkipped(j)
  <2>1. /\ UNCHANGED <<batch, taskChan, worker>>
        /\ consumer'[j].msg = NoMsg /\ batch[j] \subseteq Msgs
        /\ \A k \in DOMAIN taskChan[j] : taskChan[j][k] \in Msgs
    BY <1>6 DEF AckSkipped, AtLoop, TypeOK, ConsumerType, ChanType
  <2> QED BY <1>0, <2>1 DEF Tidy
<1>7. ASSUME NEW w \in Workers, TakeTask(j, w) PROVE Tidy(j)'
  <2>1. /\ UNCHANGED <<batch, consumer>>
        /\ taskChan[j] # <<>> /\ taskChan[j] \in Seq(Msgs)
        /\ taskChan'[j] = Tail(taskChan[j])
        /\ worker'[j][w].msg = Head(taskChan[j]) /\ worker'[j][w].pc = "run"
        /\ \A v \in Workers : v # w => worker'[j][v] = worker[j][v]
    BY <1>7 DEF TakeTask, TypeOK, ChanType, WorkerType
  <2>2. 1 \in DOMAIN taskChan[j] /\ Head(taskChan[j]) = taskChan[j][1]
    BY <2>1
  <2>3. \A k \in DOMAIN taskChan'[j] :
           /\ k \in Nat \ {0} /\ k + 1 \in DOMAIN taskChan[j]
           /\ taskChan'[j][k] = taskChan[j][k + 1]
    BY <2>1
  <2>4. \A k \in DOMAIN taskChan'[j] : taskChan'[j][k] # taskChan[j][1]
    BY <1>0, <2>2, <2>3 DEF Tidy
  <2>5. \A k, l \in DOMAIN taskChan'[j] : taskChan'[j][k] = taskChan'[j][l] => k = l
    BY <1>0, <2>3 DEF Tidy
  <2> DEFINE h == taskChan[j][1]
  <2>6. /\ h \in Msgs /\ h \notin batch[j] \cup {consumer[j].msg}
        /\ \A v \in Workers : worker[j][v].msg \in Msgs => worker[j][v].msg # h
    BY <1>0, <2>1, <2>2 DEF Tidy
  <2>7. \A k \in DOMAIN taskChan'[j] :
           /\ taskChan'[j][k] \notin batch[j] \cup {consumer[j].msg}
           /\ \A v \in Workers : worker[j][v].msg \in Msgs => taskChan'[j][k] # worker[j][v].msg
    BY <1>0, <2>3 DEF Tidy
  <2>8. \A v \in Workers : worker'[j][v].msg \in Msgs =>
           /\ worker'[j][v].msg \notin batch[j] \cup {consumer[j].msg}
           /\ \A k \in DOMAIN taskChan'[j] : taskChan'[j][k] # worker'[j][v].msg
           /\ \A u \in Workers : worker'[j][u].msg = worker'[j][v].msg => u = v
    <3> TAKE v \in Workers
    <3> HAVE worker'[j][v].msg \in Msgs
    <3>1. CASE v = w
      <4>1. \A u \in Workers : u # w => worker'[j][u].msg # h
        BY <2>1, <2>6
      <4> QED BY <2>1, <2>2, <2>4, <2>6, <3>1, <4>1
    <3>2. CASE v # w
      <4>1. worker'[j][v] = worker[j][v] /\ worker[j][v].msg # h
        BY <2>1, <2>6, <3>2
      <4>2. \A u \in Workers : worker'[j][u].msg = worker'[j][v].msg => u = v
        BY <1>0, <2>1, <2>2, <4>1 DEF Tidy
      <4> QED BY <1>0, <2>7, <4>1, <4>2 DEF Tidy
    <3> QED BY <3>1, <3>2
  <2>9. \A v \in Workers : worker'[j][v].pc \in {"idle", "exited"} => worker'[j][v].msg = NoMsg
    BY <1>0, <2>1 DEF Tidy
  <2> QED BY <1>0, <2>1, <2>5, <2>7, <2>8, <2>9 DEF Tidy
<1>8. ASSUME NEW w \in Workers, ExecuteTask(j, w) \/ AckOrNack(j, w) \/ WorkerExit(j, w)
      PROVE  Tidy(j)'
  <2>1. UNCHANGED <<consumer, batch, taskChan>>
    <3>1. CASE ExecuteTask(j, w)
      BY <3>1, Zenon DEF ExecuteTask
    <3>2. CASE AckOrNack(j, w) \/ WorkerExit(j, w)
      BY <3>2 DEF AckOrNack, WorkerExit
    <3> QED BY <1>8, <3>1, <3>2
  <2>2. PICK r : worker' = [worker EXCEPT ![j][w] = r] /\ WorkerBecomes(j, w, r)
    BY <1>8, WorkerResult
  <2>3. worker'[j][w] = r /\ \A v \in Workers : v # w => worker'[j][v] = worker[j][v]
    BY <2>2 DEF TypeOK, WorkerType
  <2>4. /\ \A v \in Workers : worker'[j][v].msg \in {worker[j][v].msg, NoMsg}
        /\ \A v \in Workers : worker'[j][v].pc \in {"idle", "exited"} => worker'[j][v].msg = NoMsg
    BY <1>0, <2>2, <2>3 DEF WorkerBecomes, Tidy
  <2> QED BY <1>0, <2>1, <2>4 DEF Tidy
<1>9. CASE Exit(j)
  <2>1. /\ batch'[j] = {} /\ taskChan'[j] = <<>> /\ consumer'[j].msg = NoMsg
        /\ \A w \in Workers : worker'[j][w].msg = NoMsg
    BY <1>9 DEF Exit, Down, AtLoop, IdleWorker, TypeOK, ConsumerType, ChanType, WorkerType
  <2> QED BY <1>0, <2>1 DEF Tidy
<1> QED
  BY <1>1, <1>2, <1>3, <1>4, <1>5, <1>6, <1>7, <1>8, <1>9, LocalStep DEF OwnStep

(* What an ingestor holds is published.                                     *)
LEMMA HeldUsed ==
    ASSUME WellFormed, OneHandle, NEW j \in Ingestors, NEW m \in Msgs, Holds(j, m)
    PROVE  m \in Used
<1>1. /\ NoMsg \notin Msgs /\ Tidy(j)
      /\ consumer[j].pc \in {"loop", "write", "push", "ack", "returned"}
      /\ \A w \in Workers : worker[j][w].pc \in {"idle", "run", "ack", "exited"}
  BY DEF OneHandle, Msgs, NoMsg, WellFormed, TypeOK, ConsumerType, WorkerType
<1>2. CASE m \in batch[j] \/ consumer[j].msg = m
  BY <1>1, <1>2 DEF WellFormed, ConsumerHandles, Tidy
<1>3. CASE \E k \in DOMAIN taskChan[j] : taskChan[j][k] = m
  BY <1>3 DEF WellFormed, WorkerHandles
<1>4. CASE \E w \in Workers : worker[j][w].msg = m
  BY <1>1, <1>4 DEF WellFormed, WorkerHandles, Tidy
<1> QED BY <1>2, <1>3, <1>4 DEF Holds

(* No step brings a published message back to life, and only a nack and a   *)
(* timeout make one ready again.                                            *)
LEMMA LiveStep ==
    ASSUME WellFormed, Next, NEW m \in Used
    PROVE  /\ Live(m)' => Live(m)
           /\ msgState'[m] = "ready" =>
                \/ msgState[m] = "ready"
                \/ AckWaitExpires(m)
                \/ \E j \in Ingestors : PushTask(j) /\ consumer[j].msg = m /\ UNCHANGED taskChan
<1> DEFINE Goal == /\ Live(m)' => Live(m)
                   /\ msgState'[m] = "ready" =>
                        \/ msgState[m] = "ready"
                        \/ AckWaitExpires(m)
                        \/ \E j \in Ingestors : PushTask(j) /\ consumer[j].msg = m
                                                /\ UNCHANGED taskChan
<1> USE DEF WellFormed
<1>0. m \in Msgs /\ msgState \in [Msgs -> MsgStates]
  BY DEF Used, TypeOK, StreamType
<1>1. CASE UNCHANGED msgState
  BY <1>1 DEF Live
<1>2. ASSUME NEW u \in TaskIds \cup {Other}, PublishTask(u) PROVE Goal
  BY <1>2, PublishProperties DEF Live
<1>3. ASSUME NEW k \in Msgs, Ack(k) PROVE Goal
  BY <1>0, <1>3 DEF Ack, Acked, Live
<1>4. ASSUME NEW k \in Msgs, msgState' = Requeued(msgState, k) PROVE
          /\ Live(m)' => Live(m)
          /\ msgState'[m] = "ready" => msgState[m] = "ready" \/ k = m
  BY <1>0, <1>4 DEF Requeued, Live
<1>5. ASSUME NEW c \in Callers, CallerStep(c) \/ Request(c) PROVE Goal
  <2>1. CASE PublishIngestion(c)
    BY <1>2, <2>1 DEF PublishIngestion, RequestsHaveTask
  <2>2. CASE PublishStop(c) \/ PublishMessageToQueue(c)
    BY <1>1, <1>2, <2>2 DEF PublishStop, PublishMessageToQueue, msgVars
  <2>3. ASSUME NEW k \in Msgs, PullMessageFromQueue(c, k) PROVE Goal
    BY <1>0, <2>3 DEF PullMessageFromQueue, Live
  <2> QED
    BY <1>1, <1>5, <2>1, <2>2, <2>3
    DEF CallerStep, Request, CheckTask, CreateTask, RestartTask, PublishFails, StopTask,
        SetStopping, CheckRemovable, RemoveTask, msgVars
<1>6. ASSUME NEW i \in Ingestors, GetMessages(i) PROVE Goal
  BY <1>0, <1>6 DEF GetMessages, Live
<1>7. ASSUME NEW i \in Ingestors, PushTask(i) PROVE Goal
  <2>1. consumer[i].msg \in Msgs
    BY <1>7 DEF PushTask, ConsumerHandles, Used
  <2> QED BY <1>1, <1>4, <1>7, <2>1 DEF PushTask, Nack
<1>8. ASSUME NEW i \in Ingestors, AckSkipped(i) PROVE Goal
  BY <1>3, <1>8 DEF AckSkipped, ConsumerHandles, Used
<1>9. ASSUME NEW i \in Ingestors, NEW w \in Workers, AckOrNack(i, w) PROVE Goal
  BY <1>1, <1>3, <1>9 DEF AckOrNack, WorkerHandles, Used
<1>10. ASSUME NEW i \in Ingestors, NEW w \in Workers, ExecuteTask(i, w) PROVE Goal
  <2>1. UNCHANGED msgVars
    BY <1>10, Zenon DEF ExecuteTask
  <2> QED BY <1>1, <2>1 DEF msgVars
<1>11. ASSUME NEW i \in Ingestors,
              \/ \E k \in Msgs : SelectTask(i, k)
              \/ SetRunningByIngestor(i) \/ StartReturns(i)
              \/ \E w \in Workers : TakeTask(i, w) \/ WorkerExit(i, w)
              \/ Stop(i) \/ Exit(i) \/ Crash(i) \/ Restart(i)
       PROVE  Goal
  BY <1>1, <1>11 DEF SelectTask, SetRunningByIngestor, StartReturns, TakeTask, WorkerExit,
                     Stop, Exit, Crash, Restart, msgVars
<1>12. ASSUME NEW k \in Msgs, AckWaitExpires(k) PROVE Goal
  BY <1>4, <1>12 DEF AckWaitExpires
<1> QED
  BY <1>5, <1>6, <1>7, <1>8, <1>9, <1>10, <1>11, <1>12
  DEF Next, ConsumerStep, WorkerStep

LEMMA OneHandleStep ==
    ASSUME WellFormed, Orderly, OneHandle, Next
    PROVE  OneHandle'
<1>1. \A j \in Ingestors : Tidy(j)'
  BY TidyStep
<1>2. ASSUME NEW i \in Ingestors, NEW j \in Ingestors, NEW m \in Msgs, Holds(i, m)', Holds(j, m)'
      PROVE  i = j
  <2>1. ASSUME NEW k \in Ingestors, NEW l \in Ingestors, Holds(k, m)', Holds(l, m)', ~Holds(k, m)
        PROVE  k = l
    <3>1. GetMessages(k) /\ m \in batch'[k]
      BY <2>1, HoldsStep
    <3>2. msgState[m] = "ready"
      BY <3>1 DEF GetMessages, WellFormed, TypeOK, ConsumerType
    <3>3. GetMessages(l) /\ m \in batch'[l]
      BY <2>1, <3>2, HoldsStep DEF OneHandle
    <3>4. k # l => batch'[l] = {}
      <4>1. PICK S \in SUBSET Msgs : batch' = [batch EXCEPT ![k] = S]
        BY <3>1 DEF GetMessages
      <4>2. batch[l] = {}
        BY <3>3 DEF GetMessages
      <4> QED BY <4>1, <4>2 DEF WellFormed, TypeOK, ConsumerType
    <3> QED BY <3>3, <3>4
  <2>2. CASE Holds(i, m) /\ Holds(j, m)
    BY <2>2 DEF OneHandle
  <2> QED BY <1>2, <2>1, <2>2
<1>3. ASSUME NEW i \in Ingestors, NEW m \in Msgs, Holds(i, m)', msgState'[m] = "ready"
      PROVE  FALSE
  <2>1. CASE ~Holds(i, m)
    <3>1. GetMessages(i) /\ m \in batch'[i]
      BY <1>3, <2>1, HoldsStep
    <3> QED BY <1>3, <3>1 DEF GetMessages, WellFormed, TypeOK, ConsumerType
  <2>2. CASE Holds(i, m)
    <3>1. m \in Used /\ msgState[m] # "ready"
      BY <2>2, HeldUsed DEF OneHandle
    <3>2. ~AckWaitExpires(m)
      BY <2>2, OrderlyFacts
    <3>3. PICK j \in Ingestors : PushTask(j) /\ consumer[j].msg = m /\ UNCHANGED taskChan
      BY <1>3, <3>1, <3>2, LiveStep
    <3>4. i = j /\ Tidy(i)
      BY <2>2, <3>3 DEF OneHandle, Holds
    <3>5. UNCHANGED <<batch, worker>> /\ consumer'[i].msg = NoMsg /\ NoMsg \notin Msgs
      BY <3>3, <3>4 DEF PushTask, AtLoop, WellFormed, TypeOK, ConsumerType, Msgs, NoMsg
    <3> QED BY <1>3, <3>3, <3>4, <3>5 DEF Tidy, Holds
  <2> QED BY <2>1, <2>2
<1> QED BY <1>1, <1>2, <1>3 DEF OneHandle

(***************************************************************************)
(* The messages in play.                                                   *)
(***************************************************************************)

(* A message on its way to a worker, or in its pipeline, is in play.        *)
OnItsWay(i, m) ==
    \/ consumer[i].pc = "write" /\ consumer[i].msg = m
    \/ Underway(i, m)

LEMMA OnItsWayInPlay ==
    ASSUME WellFormed, OneHandle, NEW i \in Ingestors, NEW m, OnItsWay(i, m)
    PROVE  m \in InPlay
<1>1. m \in Msgs /\ Holds(i, m)
  BY DEF OnItsWay, Underway, Holds, WellFormed, ConsumerHandles, WorkerHandles, Used
<1>2. ASSUME m \in Executed PROVE FALSE
  <2>1. PICK j \in Ingestors : \E w \in Workers : worker[j][w].pc = "ack" /\ worker[j][w].msg = m
    BY <1>2 DEF Executed
  <2>2. i = j /\ Tidy(i)
    BY <1>1, <2>1 DEF Holds, OneHandle
  <2> QED BY <1>1, <2>1, <2>2 DEF OnItsWay, Underway, Tidy
<1> QED BY <1>1, <1>2 DEF InPlay

(* An executed message is acked before its worker lets go of it.            *)
LEMMA ExecutedStays ==
    ASSUME WellFormed, Orderly, OneHandle, Next, NEW m \in Executed
    PROVE  m \in Executed' \/ m \notin InPlay'
<1> USE DEF WellFormed
<1>1. PICK j \in Ingestors, w \in Workers : worker[j][w].pc = "ack" /\ worker[j][w].msg = m
  BY DEF Executed
<1>2. m \in Msgs /\ Holds(j, m) /\ Tidy(j) /\ msgState[m] # "ready"
  BY <1>1 DEF Executed, Holds, OneHandle
<1>3. CASE worker'[j][w] = worker[j][w]
  BY <1>1, <1>2, <1>3 DEF Executed
<1>4. CASE AckOrNack(j, w)
  <2>1. /\ Ack(m) /\ UNCHANGED <<consumer, batch, taskChan>>
        /\ worker'[j][w].msg = NoMsg /\ \A v \in Workers : v # w => worker'[j][v] = worker[j][v]
    BY <1>1, <1>4, OrderlyFacts DEF AckOrNack, IdleWorker, TypeOK, WorkerType
  <2>2. ~Live(m)'
    BY <1>2, <2>1 DEF Ack, Acked, Live, TypeOK, StreamType
  <2>3. ~Holds(j, m)'
    BY <1>1, <1>2, <2>1 DEF Holds, Tidy, Msgs, NoMsg
  <2>4. ASSUME NEW i \in Ingestors, Holds(i, m)' PROVE FALSE
    <3>1. CASE Holds(i, m)
      BY <1>2, <2>3, <2>4, <3>1 DEF OneHandle
    <3>2. CASE ~Holds(i, m)
      BY <1>2, <2>4, <3>2, HoldsStep DEF GetMessages, TypeOK, ConsumerType
    <3> QED BY <3>1, <3>2
  <2> QED BY <2>2, <2>4 DEF InPlay
<1>5. CASE ~Same(j) /\ worker'[j][w] # worker[j][w]
  <2>1. OwnStep(j)
    BY <1>5, LocalStep
  <2>2. ASSUME NEW v \in Workers, TakeTask(j, v) PROVE FALSE
    BY <1>1, <1>5, <2>2 DEF TakeTask, TypeOK, WorkerType
  <2>3. ASSUME NEW v \in Workers, ExecuteTask(j, v) \/ AckOrNack(j, v) \/ WorkerExit(j, v)
        PROVE  AckOrNack(j, w)
    <3>1. PICK r : worker' = [worker EXCEPT ![j][v] = r] /\ WorkerBecomes(j, v, r)
      BY <2>3, WorkerResult
    <3>2. v = w
      BY <1>5, <3>1 DEF TypeOK, WorkerType
    <3>3. ~ExecuteTask(j, w)
      <4>1. ExecuteTask(j, w) => worker[j][w].pc = "run"
        BY Zenon DEF ExecuteTask
      <4> QED BY <1>1, <4>1
    <3> QED BY <1>1, <2>3, <3>2, <3>3 DEF WorkerExit
  <2>4. CASE Exit(j)
    BY <1>1, <2>4 DEF Exit
  <2>5. \/ GetMessages(j) \/ \E k \in Msgs : SelectTask(j, k)
        \/ SetRunningByIngestor(j) \/ PushTask(j) \/ AckSkipped(j)
        => UNCHANGED worker
    BY DEF GetMessages, SelectTask, SetRunningByIngestor, PushTask, AckSkipped
  <2> QED BY <1>4, <1>5, <2>1, <2>2, <2>3, <2>4, <2>5 DEF OwnStep
<1> QED BY <1>3, <1>5 DEF Same

(* Only a publish puts a message into play.                                 *)
LEMMA InPlayStep ==
    ASSUME WellFormed, WellFormed', Orderly, OneHandle, Next, NEW m \in InPlay'
    PROVE  m \in InPlay \/ m \notin Used
<1> SUFFICES ASSUME m \in Used PROVE m \in InPlay
  OBVIOUS
<1>1. m \in Msgs /\ m \notin Executed
  BY ExecutedStays DEF InPlay
<1>2. CASE Live(m)'
  BY <1>1, <1>2, LiveStep DEF InPlay
<1>3. ASSUME NEW i \in Ingestors, Holds(i, m)' PROVE m \in InPlay
  <2>1. CASE Holds(i, m)
    BY <1>1, <2>1 DEF InPlay
  <2>2. CASE ~Holds(i, m)
    <3>1. msgState[m] = "ready"
      BY <1>1, <1>3, <2>2, HoldsStep DEF GetMessages, WellFormed, TypeOK, ConsumerType
    <3> QED BY <1>1, <3>1 DEF InPlay, Live
  <2> QED BY <2>1, <2>2
<1> QED BY <1>2, <1>3 DEF InPlay

(***************************************************************************)
(* The moves of the status column, each a step of TaskLifecycle.           *)
(***************************************************************************)
Created(t) ==
    \/ \E c \in Callers : CreateTask(c, t) /\ Lifecycle!Create(t)
    \/ \E c \in Callers : RestartTask(c) /\ t = caller[c].task /\ Lifecycle!Retry(t)
Removed(t) ==
    /\ \E c \in Callers : RemoveTask(c)
    /\ Lifecycle!Remove(t) \/ Lifecycle!RemoveExecuting(t)
StartedBy(i, m) ==
    SetRunningByIngestor(i) /\ m = consumer[i].msg /\ Lifecycle!Start(msgTask[m])
EndedBy(i, w, m) ==
    /\ ExecuteTask(i, w) /\ m = worker[i][w].msg
    /\ Lifecycle!Complete(msgTask[m]) \/ Lifecycle!Interrupt(msgTask[m])

StatusMove ==
    \/ UNCHANGED status
    \/ \E t \in TaskIds : Created(t) \/ Removed(t)
    \/ \E i \in Ingestors : \E m \in Used :
          /\ msgTask[m] \in TaskIds
          /\ StartedBy(i, m) \/ \E w \in Workers : EndedBy(i, w, m)

LEMMA StatusMoves ==
    ASSUME WellFormed, Orderly, RequestsInTurn, Stages, Configured, Next
    PROVE  StatusMove
<1> USE DEF WellFormed
<1>1. status \in [TaskIds -> Statuses] /\ \A t \in TaskIds : status[t] # "STOPPING"
  BY DEF TypeOK, TableType, RequestsInTurn
<1>2. ASSUME NEW c \in Callers, NEW t \in TaskIds, CreateTask(c, t) PROVE StatusMove
  <2>1. Lifecycle!Create(t)
    BY <1>2 DEF CreateTask, Lifecycle!Create, Lifecycle!Move
  <2> QED BY <1>2, <2>1 DEF StatusMove, Created
<1>3. ASSUME NEW c \in Callers, RestartTask(c) PROVE StatusMove
  <2>1. PICK t \in TaskIds : t = caller[c].task
    BY <1>3 DEF RestartTask, RequestsHaveTask
  <2>2. status[t] \in {"FAILED", "STOPPED"} /\ SetStatus(t, "CREATED")
    BY <1>3, <2>1 DEF RestartTask, RequestsInTurn
  <2>3. Lifecycle!Retry(t)
    BY <2>2 DEF SetStatus, InTable, Outcomes, Lifecycle!Retry, Lifecycle!Move
  <2> QED BY <1>3, <2>1, <2>3 DEF StatusMove, Created
<1>4. ASSUME NEW c \in Callers, RemoveTask(c) PROVE StatusMove
  <2>1. PICK t \in TaskIds : t = caller[c].task
    BY <1>4 DEF RemoveTask, RequestsHaveTask
  <2>2. SetStatus(t, "removed") /\ status[t] # "STOPPING"
    BY <1>1, <1>4, <2>1 DEF RemoveTask
  <2>3. "removed" \in MayDepart
    BY <1>4 DEF RemoveTask, Configured, MayDepart
  <2>4. UNCHANGED status \/ Lifecycle!Remove(t) \/ Lifecycle!RemoveExecuting(t)
    BY <2>2, <2>3 DEF SetStatus, InTable, Outcomes, Lifecycle!Remove, Lifecycle!RemoveExecuting,
                      Lifecycle!Move, Lifecycle!Ended
  <2> QED BY <1>4, <2>4 DEF StatusMove, Removed
<1>5. ASSUME NEW i \in Ingestors, SetRunningByIngestor(i) PROVE StatusMove
  <2>1. PICK m \in Used : m = consumer[i].msg /\ msgTask[m] \in TaskIds
    BY <1>5 DEF SetRunningByIngestor, ConsumerHandles
  <2>2. consumer[i].seen = "CREATED" /\ status[msgTask[m]] \in {"CREATED", "removed"}
    BY <1>5, <2>1 DEF SetRunningByIngestor, Stages
  <2>3. SetStatus(msgTask[m], "RUNNING")
    BY <1>5, <2>1, <2>2, OrderlyFacts DEF SetRunningByIngestor
  <2>4. UNCHANGED status \/ Lifecycle!Start(msgTask[m])
    BY <2>2, <2>3 DEF SetStatus, InTable, Outcomes, Lifecycle!Start, Lifecycle!Move
  <2> QED BY <1>5, <2>1, <2>4 DEF StatusMove, StartedBy
<1>6. ASSUME NEW i \in Ingestors, NEW w \in Workers, ExecuteTask(i, w) PROVE StatusMove
  <2>0. worker[i][w].pc = "run"
    BY <1>6, Zenon DEF ExecuteTask
  <2>1. PICK m \in Used : m = worker[i][w].msg /\ msgTask[m] \in TaskIds
    BY <2>0 DEF WorkerHandles
  <2>2. status[msgTask[m]] \in {"RUNNING", "removed"}
    BY <2>0, <2>1 DEF Stages, Underway, Used
  <2>3. PICK out \in OutcomesOf(i, msgTask[m]) : SetStatus(msgTask[m], out) \/ WriteFails(msgTask[m])
    BY <1>6, <2>1, Zenon DEF ExecuteTask
  <2>4. SetStatus(msgTask[m], out)
    BY <2>3, OrderlyFacts
  <2>5. \/ out \in {"COMPLETED", "FAILED"}
        \/ out = "STOPPED" /\ "interrupted" \in MayDepart
    <3>1. proc[i] = "stopping" \/ "deadline" \in Faults => "interrupted" \in MayDepart
      BY DEF Configured, MayDepart
    <3>2. \/ out \in {"COMPLETED", "FAILED"}
          \/ out = "STOPPED" /\ (proc[i] = "stopping" \/ "deadline" \in Faults)
      BY DEF OutcomesOf
    <3> QED BY <3>1, <3>2
  <2>6. UNCHANGED status \/ Lifecycle!Complete(msgTask[m]) \/ Lifecycle!Interrupt(msgTask[m])
    BY <2>2, <2>4, <2>5 DEF SetStatus, InTable, Outcomes, Lifecycle!Complete,
                            Lifecycle!Interrupt, Lifecycle!Move
  <2>7. ASSUME Lifecycle!Complete(msgTask[m]) \/ Lifecycle!Interrupt(msgTask[m])
        PROVE  EndedBy(i, w, m)
    BY <1>6, <2>1, <2>7 DEF EndedBy
  <2> QED BY <2>1, <2>6, <2>7 DEF StatusMove
<1>7. ASSUME NEW c \in Callers, SetStopping(c) PROVE FALSE
  BY <1>7 DEF SetStopping, RequestsInTurn
<1>8. ASSUME NEW c \in Callers, CallerStep(c) \/ Request(c) PROVE StatusMove
  BY <1>2, <1>3, <1>4, <1>7, <1>8
  DEF CallerStep, Request, CheckTask, PublishIngestion, PublishFails, StopTask, PublishStop,
      CheckRemovable, PublishMessageToQueue, PullMessageFromQueue, rowVars, StatusMove
<1>9. ASSUME NEW i \in Ingestors,
             \/ GetMessages(i) \/ \E m \in Msgs : SelectTask(i, m)
             \/ PushTask(i) \/ AckSkipped(i) \/ StartReturns(i)
             \/ \E w \in Workers : TakeTask(i, w) \/ AckOrNack(i, w) \/ WorkerExit(i, w)
             \/ Stop(i) \/ Exit(i) \/ Crash(i) \/ Restart(i)
      PROVE  UNCHANGED status
  BY <1>9 DEF GetMessages, SelectTask, PushTask, AckSkipped, StartReturns, TakeTask, AckOrNack,
              WorkerExit, Stop, Exit, Crash, Restart, rowVars
<1>10. ASSUME NEW m \in Msgs, AckWaitExpires(m) PROVE UNCHANGED status
  BY <1>10 DEF AckWaitExpires, rowVars
<1> QED
  BY <1>5, <1>6, <1>8, <1>9, <1>10 DEF Next, ConsumerStep, WorkerStep, StatusMove

(* What the moves say of one row.                                           *)
LEMMA StatusOf ==
    ASSUME WellFormed, StatusMove, NEW t \in TaskIds, status'[t] # status[t]
    PROVE  \/ /\ status[t] \in {"unused", "FAILED", "STOPPED"} /\ status'[t] = "CREATED"
              /\ Created(t)
           \/ /\ status'[t] = "removed" /\ \E c \in Callers : RemoveTask(c)
           \/ \E i \in Ingestors : \E m \in Used :
                /\ msgTask[m] = t
                /\ \/ status[t] = "CREATED" /\ status'[t] = "RUNNING" /\ StartedBy(i, m)
                   \/ /\ status[t] = "RUNNING" /\ status'[t] \in Outcomes
                      /\ \E w \in Workers : EndedBy(i, w, m)
<1>0. status \in [TaskIds -> Statuses]
  BY DEF WellFormed, TypeOK, TableType
<1>1. ASSUME NEW u \in TaskIds, NEW from, NEW to, Lifecycle!Move(u, from, to)
      PROVE  u = t /\ status[t] \in from /\ status'[t] = to
  BY <1>0, <1>1 DEF Lifecycle!Move
<1>2. ASSUME NEW u \in TaskIds, Created(u)
      PROVE  /\ status[t] \in {"unused", "FAILED", "STOPPED"} /\ status'[t] = "CREATED"
             /\ Created(t)
  BY <1>1, <1>2 DEF Created, Lifecycle!Create, Lifecycle!Retry
<1>3. ASSUME NEW u \in TaskIds, Removed(u)
      PROVE  status'[t] = "removed" /\ \E c \in Callers : RemoveTask(c)
  BY <1>1, <1>3 DEF Removed, Lifecycle!Remove, Lifecycle!RemoveExecuting
<1>4. ASSUME NEW i \in Ingestors, NEW m \in Used, msgTask[m] \in TaskIds, StartedBy(i, m)
      PROVE  msgTask[m] = t /\ status[t] = "CREATED" /\ status'[t] = "RUNNING"
  BY <1>1, <1>4 DEF StartedBy, Lifecycle!Start
<1>5. ASSUME NEW i \in Ingestors, NEW w \in Workers, NEW m \in Used, msgTask[m] \in TaskIds,
             EndedBy(i, w, m)
      PROVE  msgTask[m] = t /\ status[t] = "RUNNING" /\ status'[t] \in Outcomes
  <2>1. PICK s \in Outcomes : Lifecycle!Move(msgTask[m], {"RUNNING"}, s)
    BY <1>5 DEF EndedBy, Lifecycle!Complete, Lifecycle!Interrupt, Outcomes
  <2> QED BY <1>1, <1>5, <2>1
<1> QED BY <1>2, <1>3, <1>4, <1>5 DEF StatusMove

(* The message of a task that is started or ends is in play, and at the end *)
(* of its task it is not any more.                                          *)
LEMMA MovedInPlay ==
    ASSUME WellFormed, OneHandle, NEW i \in Ingestors, NEW m \in Used
    PROVE  /\ StartedBy(i, m) => m \in InPlay
           /\ \A w \in Workers : EndedBy(i, w, m) => m \in InPlay /\ Underway(i, m) /\ m \in Executed'
<1>1. ASSUME StartedBy(i, m) PROVE m \in InPlay
  <2>1. OnItsWay(i, m)
    BY <1>1 DEF StartedBy, SetRunningByIngestor, OnItsWay
  <2> QED BY <2>1, OnItsWayInPlay
<1>2. ASSUME NEW w \in Workers, EndedBy(i, w, m)
      PROVE  m \in InPlay /\ Underway(i, m) /\ m \in Executed'
  <2>1. ExecuteTask(i, w) /\ m = worker[i][w].msg
    BY <1>2 DEF EndedBy
  <2>2. worker[i][w].pc = "run"
    BY <2>1, Zenon DEF ExecuteTask
  <2>3. Underway(i, m)
    BY <2>1, <2>2 DEF Underway
  <2>4. m \in InPlay
    BY <2>3, OnItsWayInPlay DEF OnItsWay
  <2>5. PICK r : worker' = [worker EXCEPT ![i][w] = r] /\ WorkerBecomes(i, w, r)
    BY <2>1, WorkerResult DEF WellFormed
  <2>6. worker'[i][w].pc = "ack" /\ worker'[i][w].msg = m
    BY <2>1, <2>2, <2>5 DEF WorkerBecomes, WellFormed, TypeOK, WorkerType
  <2> QED BY <2>3, <2>4, <2>6 DEF Executed, Used
<1> QED BY <1>1, <1>2

(* A message that comes into play is the one a request publishes.           *)
LEMMA NewInPlay ==
    ASSUME WellFormed, WellFormed', Orderly, OneHandle, Next,
           NEW m \in InPlay', m \notin Used, msgTask'[m] \in TaskIds
    PROVE  /\ m = published + 1
           /\ \E c \in Callers : PublishIngestion(c) /\ caller[c].task = msgTask'[m]
<1> USE DEF WellFormed
<1>1. m \in Msgs /\ msgState[m] = "free"
  BY DEF InPlay, Numbered
<1>2. ASSUME NEW i \in Ingestors, Holds(i, m)' PROVE FALSE
  <2>1. ~Holds(i, m)
    BY <1>1, HeldUsed
  <2> QED BY <1>1, <1>2, <2>1, HoldsStep DEF GetMessages, TypeOK, ConsumerType
<1>3. msgState'[m] # "free" /\ m \in Used'
  BY <1>1, <1>2 DEF InPlay, Live, Numbered
<1>4. published' # published
  BY <1>3 DEF Used
<1>5. ASSUME NEW u \in TaskIds \cup {Other}, PublishTask(u)
      PROVE  m = published + 1 /\ msgTask'[m] = u
  <2>1. published \in Nat /\ published' = published + 1 /\ m \in Nat
    BY <1>1, <1>5, Bounds DEF PublishTask, TypeOK, StreamType, Msgs
  <2>2. m = published + 1
    BY <1>1, <1>3, <2>1 DEF Used
  <2> QED BY <1>5, <2>2, PublishProperties
<1>6. ASSUME NEW c \in Callers, PublishIngestion(c)
      PROVE  m = published + 1 /\ msgTask'[m] = caller[c].task
  BY <1>5, <1>6 DEF PublishIngestion, RequestsHaveTask
<1>7. ASSUME NEW c \in Callers, PublishStop(c) \/ PublishMessageToQueue(c) PROVE FALSE
  BY <1>4, <1>5, <1>7, Bounds DEF PublishStop, PublishMessageToQueue, msgVars
<1>8. PICK c \in Callers : CallerStep(c) \/ Request(c)
  BY <1>4, IngestorsStreamKept DEF Next
<1>9. PublishIngestion(c)
  BY <1>4, <1>7, <1>8
  DEF CallerStep, Request, CheckTask, CreateTask, RestartTask, PublishFails, StopTask,
      SetStopping, CheckRemovable, RemoveTask, PullMessageFromQueue, msgVars
<1> QED BY <1>6, <1>9

(* A step of a request.                                                     *)
LEMMA RequestStep ==
    ASSUME WellFormed, Orderly, RequestsInTurn, Next, NEW c \in Callers,
           caller'[c] # caller[c]
    PROVE  \/ caller'[c].pc \in {"idle", "create", "remove"}
           \/ /\ caller'[c].pc = "restart" /\ UNCHANGED status
              /\ status[caller'[c].task] \in {"FAILED", "STOPPED"}
           \/ /\ caller'[c].pc = "publish" /\ status'[caller'[c].task] = "CREATED"
              /\ \/ status[caller'[c].task] = "unused"
                 \/ caller[c].pc = "restart" /\ caller'[c].task = caller[c].task
<1> DEFINE Goal == \/ caller'[c].pc \in {"idle", "create", "remove"}
                   \/ /\ caller'[c].pc = "restart" /\ UNCHANGED status
                      /\ status[caller'[c].task] \in {"FAILED", "STOPPED"}
                   \/ /\ caller'[c].pc = "publish" /\ status'[caller'[c].task] = "CREATED"
                      /\ \/ status[caller'[c].task] = "unused"
                         \/ caller[c].pc = "restart" /\ caller'[c].task = caller[c].task
<1> USE DEF WellFormed
<1>0. /\ \A d \in Callers : d = c
      /\ caller \in [Callers ->
            [pc   : {"idle", "create", "restart", "publish", "setStopped", "stop",
                     "adminStop", "publishRaw", "remove"},
             task : TaskIds \cup {Other},
             doc  : Docs \cup {NoDoc}]]
      /\ status \in [TaskIds -> Statuses]
  BY DEF Orderly, TypeOK, CallerType, TableType
<1>1. PICK d \in Callers : CallerStep(d) \/ Request(d)
  BY IngestorsStreamKept DEF Next
<1>2. CallerStep(c) \/ Request(c)
  BY <1>0, <1>1
<1>3. ASSUME NEW t \in TaskIds, CreateTask(c, t) PROVE Goal
  BY <1>0, <1>3 DEF CreateTask
<1>4. ASSUME RestartTask(c) PROVE Goal
  <2>1. /\ caller'[c].pc = "publish" /\ caller'[c].task = caller[c].task
        /\ caller[c].task \in TaskIds /\ caller[c].pc = "restart"
        /\ status[caller[c].task] \in {"FAILED", "STOPPED"}
    BY <1>0, <1>4 DEF RestartTask, RequestsInTurn, RequestsHaveTask
  <2>2. SetStatus(caller[c].task, "CREATED")
    BY <1>4 DEF RestartTask
  <2>3. status'[caller[c].task] = "CREATED"
    BY <1>0, <2>1, <2>2 DEF SetStatus, InTable, Outcomes
  <2> QED BY <2>1, <2>3
<1>5. ASSUME NEW e \in Docs, CheckTask(c, e) PROVE Goal
  BY <1>0, <1>5 DEF CheckTask, Idle, Restartable, rowVars
<1>6. ASSUME PublishIngestion(c) \/ PublishFails(c) \/ PublishStop(c) \/ RemoveTask(c) PROVE Goal
  BY <1>0, <1>6 DEF PublishIngestion, PublishFails, PublishStop, RemoveTask, Idle
<1>7. ASSUME NEW t \in TaskIds, CheckRemovable(c, t) PROVE Goal
  BY <1>0, <1>7 DEF CheckRemovable, Idle
<1>8. ~SetStopping(c)
  BY DEF SetStopping, RequestsInTurn
<1>9. ASSUME PublishMessageToQueue(c) \/ \E m \in Msgs : PullMessageFromQueue(c, m) PROVE FALSE
  BY <1>9 DEF PublishMessageToQueue, PullMessageFromQueue
<1> QED
  BY <1>2, <1>3, <1>4, <1>5, <1>6, <1>7, <1>8, <1>9, OrderlyFacts DEF CallerStep, Request

(***************************************************************************)
(* The invariant of the messages in play.                                  *)
(***************************************************************************)
LEMMA OneInPlayStep ==
    ASSUME WellFormed, WellFormed', Orderly, OrderlyInv, Next
    PROVE  OneInPlay'
<1> USE DEF OrderlyInv
<1>1. StatusMove /\ \A k \in Used : msgTask'[k] = msgTask[k]
  BY StatusMoves, StreamStep DEF StreamKept
<1> SUFFICES ASSUME NEW m \in InPlay', msgTask'[m] \in TaskIds
             PROVE  /\ \A n \in InPlay' : msgTask'[n] = msgTask'[m] => n = m
                    /\ status'[msgTask'[m]] \in {"CREATED", "RUNNING", "removed"}
                    /\ \A c \in Callers :
                          caller'[c].pc \in {"restart", "publish"} => caller'[c].task # msgTask'[m]
  BY DEF OneInPlay
<1>2. PICK t \in TaskIds : t = msgTask'[m]
  OBVIOUS
<1>3. ASSUME NEW n \in InPlay', n \in Used, msgTask'[n] = t
      PROVE  n \in InPlay /\ msgTask[n] = t
  BY <1>1, <1>3, InPlayStep
<1>4. CASE m \in Used
  <2>1. /\ m \in InPlay /\ msgTask[m] = t
        /\ \A n \in InPlay : msgTask[n] = t => n = m
        /\ status[t] \in {"CREATED", "RUNNING", "removed"}
        /\ \A c \in Callers : caller[c].pc \in {"restart", "publish"} => caller[c].task # t
    BY <1>2, <1>3, <1>4 DEF OneInPlay
  <2>2. ASSUME NEW n \in InPlay', msgTask'[n] = t PROVE n = m
    <3>1. CASE n \in Used
      BY <1>3, <2>1, <2>2, <3>1
    <3>2. CASE n \notin Used
      <4>1. PICK c \in Callers : PublishIngestion(c) /\ caller[c].task = t
        BY <2>2, <3>2, NewInPlay
      <4> QED BY <2>1, <4>1 DEF PublishIngestion
    <3> QED BY <3>1, <3>2
  <2>3. status'[t] \in {"CREATED", "RUNNING", "removed"}
    <3>1. ASSUME NEW i \in Ingestors, NEW k \in Used, NEW w \in Workers, msgTask[k] = t,
                 EndedBy(i, w, k)
          PROVE  FALSE
      <4>1. k = m /\ m \in Executed'
        BY <2>1, <3>1, MovedInPlay
      <4> QED BY <4>1 DEF InPlay
    <3> QED BY <1>1, <2>1, <3>1, StatusOf
  <2>4. ASSUME NEW c \in Callers, caller'[c].pc \in {"restart", "publish"}, caller'[c].task = t
        PROVE  FALSE
    BY <2>1, <2>4, RequestStep
  <2> QED BY <1>2, <2>2, <2>3, <2>4
<1>5. CASE m \notin Used
  <2>1. PICK c \in Callers : PublishIngestion(c) /\ caller[c].task = t
    BY <1>2, <1>5, NewInPlay
  <2>2. m = published + 1
    BY <1>5, NewInPlay
  <2>3. ASSUME NEW n \in InPlay', msgTask'[n] = t PROVE n = m
    <3>1. CASE n \in Used
      <4>1. n \in InPlay /\ msgTask[n] = t
        BY <1>3, <2>3, <3>1
      <4> QED BY <2>1, <4>1 DEF OneInPlay, PublishIngestion
    <3>2. CASE n \notin Used
      BY <2>2, <2>3, <3>2, NewInPlay
    <3> QED BY <3>1, <3>2
  <2>4. status'[t] = "CREATED"
    BY <2>1 DEF PublishIngestion, RequestsInTurn, rowVars
  <2>5. \A d \in Callers : caller'[d].pc = "idle"
    BY <2>1 DEF PublishIngestion, Idle, Orderly, WellFormed, TypeOK, CallerType
  <2> QED BY <1>2, <2>3, <2>4, <2>5
<1> QED BY <1>4, <1>5

(* A request finds the status it was about to change as it read it.         *)
LEMMA RequestsInTurnStep ==
    ASSUME WellFormed, Orderly, OrderlyInv, Next
    PROVE  RequestsInTurn'
<1> USE DEF OrderlyInv
<1>1. StatusMove /\ \A c, d \in Callers : c = d
  BY StatusMoves DEF Orderly
<1>2. \A t \in TaskIds : status'[t] # "STOPPING"
  BY <1>1, StatusOf DEF RequestsInTurn, Outcomes
<1>3. ASSUME NEW c \in Callers, NEW t \in TaskIds, caller'[c] = caller[c],
             caller[c].pc \in {"restart", "publish"}, t = caller[c].task,
             status'[t] # status[t]
      PROVE  FALSE
  <2>1. /\ caller[c].pc = "restart" => status[t] \in {"FAILED", "STOPPED"}
        /\ caller[c].pc = "publish" => status[t] = "CREATED"
    BY <1>3 DEF RequestsInTurn
  <2>2. ASSUME NEW d \in Callers, RemoveTask(d) PROVE FALSE
    BY <1>1, <1>3, <2>2 DEF RemoveTask
  <2>3. ASSUME NEW d \in Callers, NEW u \in TaskIds, CreateTask(d, u) PROVE FALSE
    BY <1>1, <1>3, <2>3 DEF CreateTask
  <2>4. ASSUME NEW d \in Callers, RestartTask(d) PROVE FALSE
    <3>1. d = c
      BY <1>1
    <3> QED BY <1>3, <2>4, <3>1 DEF RestartTask, WellFormed, TypeOK, CallerType
  <2>5. ASSUME NEW i \in Ingestors, NEW m \in Used, msgTask[m] = t, StartedBy(i, m) PROVE FALSE
    BY <1>3, <2>5, MovedInPlay DEF OneInPlay
  <2> QED
    BY <1>1, <1>3, <2>1, <2>2, <2>3, <2>4, <2>5, StatusOf DEF Created
<1>4. ASSUME NEW c \in Callers
      PROVE  /\ caller'[c].pc \notin {"setStopped", "stop", "adminStop"}
             /\ caller'[c].pc = "restart" => status'[caller'[c].task] \in {"FAILED", "STOPPED"}
             /\ caller'[c].pc = "publish" => status'[caller'[c].task] = "CREATED"
  <2>1. CASE caller'[c] = caller[c]
    <3>1. caller[c].pc \in {"restart", "publish"} => caller[c].task \in TaskIds
      BY DEF WellFormed, RequestsHaveTask
    <3> QED BY <1>3, <2>1, <3>1 DEF RequestsInTurn
  <2>2. CASE caller'[c] # caller[c]
    BY <2>2, RequestStep
  <2> QED BY <2>1, <2>2
<1> QED BY <1>2, <1>4 DEF RequestsInTurn

(***************************************************************************)
(* The invariant of the handles on their way.                              *)
(***************************************************************************)
LEMMA WriteStep ==
    ASSUME WellFormed, Orderly, Next, NEW j \in Ingestors, consumer'[j].pc = "write"
    PROVE  \/ consumer'[j] = consumer[j] /\ ~SetRunningByIngestor(j)
           \/ SelectTask(j, consumer'[j].msg) /\ consumer'[j].msg \in Msgs
<1> USE DEF WellFormed, TypeOK, ConsumerType
<1>1. ~SetRunningByIngestor(j) /\ ~PushTask(j) /\ ~AckSkipped(j) /\ ~Exit(j)
  BY DEF SetRunningByIngestor, PushTask, AckSkipped, Exit, Down, AtLoop
<1>2. ASSUME NEW k \in Msgs, SelectTask(j, k) PROVE consumer'[j].msg = k
  BY <1>2 DEF SelectTask
<1>3. GetMessages(j) => UNCHANGED consumer
  BY DEF GetMessages
<1>4. ASSUME NEW w \in Workers,
             TakeTask(j, w) \/ ExecuteTask(j, w) \/ AckOrNack(j, w) \/ WorkerExit(j, w)
      PROVE  UNCHANGED consumer
  BY <1>4, Zenon DEF TakeTask, ExecuteTask, AckOrNack, WorkerExit
<1> QED BY <1>1, <1>2, <1>3, <1>4, LocalStep DEF OwnStep, Same

LEMMA UnderwayStep ==
    ASSUME WellFormed, Orderly, OneHandle, Next, NEW j \in Ingestors, NEW m \in Msgs, Underway(j, m)'
    PROVE  \/ Underway(j, m)
           \/ SelectTask(j, m) /\ consumer'[j].pc = "push"
           \/ SetRunningByIngestor(j) /\ consumer[j].msg = m
<1> USE DEF WellFormed
<1>0. NoMsg \notin Msgs
  BY DEF Msgs, NoMsg
<1>1. CASE Same(j)
  BY <1>1 DEF Same, Underway
<1>2. CASE GetMessages(j)
  BY <1>2 DEF GetMessages, Underway
<1>3. ASSUME NEW n \in Msgs, SelectTask(j, n)
      PROVE  Underway(j, m) \/ (SelectTask(j, m) /\ consumer'[j].pc = "push")
  <2>1. UNCHANGED <<taskChan, worker>> /\ consumer'[j].msg = n
    BY <1>3 DEF SelectTask, TypeOK, ConsumerType
  <2>2. CASE n = m
    <3>1. SelectTask(j, m)
      BY <1>3, <2>2 DEF SelectTask
    <3> QED BY <2>1, <3>1 DEF Underway
  <2>3. CASE n # m
    BY <2>1, <2>3 DEF Underway
  <2> QED BY <2>2, <2>3
<1>4. CASE SetRunningByIngestor(j)
  <2>1. UNCHANGED <<taskChan, worker>> /\ consumer'[j].msg = consumer[j].msg
    BY <1>4 DEF SetRunningByIngestor, TypeOK, ConsumerType
  <2> QED BY <1>4, <2>1 DEF Underway
<1>5. CASE PushTask(j)
  <2>1. /\ UNCHANGED worker /\ consumer'[j].pc = "loop" /\ consumer[j].pc = "push"
        /\ taskChan[j] \in Seq(Msgs) /\ consumer[j].msg \in Msgs
    BY <1>5 DEF PushTask, AtLoop, TypeOK, ConsumerType, ChanType, ConsumerHandles, Used
  <2>2. \/ taskChan'[j] = taskChan[j]
        \/ taskChan'[j] = Append(taskChan[j], consumer[j].msg)
    BY <1>5 DEF PushTask, TypeOK, ChanType
  <2>3. \A k \in DOMAIN taskChan'[j] :
           \/ taskChan'[j][k] = consumer[j].msg
           \/ \E l \in DOMAIN taskChan[j] : taskChan'[j][k] = taskChan[j][l]
    <3>1. CASE taskChan'[j] = taskChan[j]
      BY <3>1
    <3>2. CASE taskChan'[j] = Append(taskChan[j], consumer[j].msg)
      BY <2>1, <3>2, AppendProperties, LenProperties
    <3> QED BY <2>2, <3>1, <3>2
  <2> QED BY <2>1, <2>3 DEF Underway
<1>6. CASE AckSkipped(j)
  <2>1. UNCHANGED <<taskChan, worker>> /\ consumer'[j].pc = "loop"
    BY <1>6 DEF AckSkipped, AtLoop, TypeOK, ConsumerType
  <2> QED BY <2>1 DEF Underway
<1>7. ASSUME NEW w \in Workers, TakeTask(j, w) PROVE Underway(j, m)
  <2>1. /\ UNCHANGED consumer
        /\ taskChan[j] # <<>> /\ taskChan[j] \in Seq(Msgs)
        /\ taskChan'[j] = Tail(taskChan[j])
        /\ worker'[j][w].msg = Head(taskChan[j])
        /\ \A v \in Workers : v # w => worker'[j][v] = worker[j][v]
    BY <1>7 DEF TakeTask, TypeOK, ChanType, WorkerType
  <2>2. 1 \in DOMAIN taskChan[j] /\ Head(taskChan[j]) = taskChan[j][1]
    BY <2>1
  <2>3. \A k \in DOMAIN taskChan'[j] :
           k + 1 \in DOMAIN taskChan[j] /\ taskChan'[j][k] = taskChan[j][k + 1]
    BY <2>1
  <2> QED BY <2>1, <2>2, <2>3 DEF Underway
<1>8. ASSUME NEW w \in Workers, ExecuteTask(j, w) \/ AckOrNack(j, w) \/ WorkerExit(j, w)
      PROVE  Underway(j, m)
  <2>1. UNCHANGED <<consumer, taskChan>>
    BY <1>8, Zenon DEF ExecuteTask, AckOrNack, WorkerExit
  <2>2. PICK r : worker' = [worker EXCEPT ![j][w] = r] /\ WorkerBecomes(j, w, r)
    BY <1>8, WorkerResult
  <2>3. worker'[j][w] = r /\ \A v \in Workers : v # w => worker'[j][v] = worker[j][v]
    BY <2>2 DEF TypeOK, WorkerType
  <2>4. r.pc # "run"
    BY <2>2 DEF WorkerBecomes
  <2> QED BY <2>1, <2>3, <2>4 DEF Underway
<1>9. CASE Exit(j)
  <2>1. /\ taskChan'[j] = <<>> /\ consumer'[j].pc = "loop"
        /\ \A w \in Workers : worker'[j][w].pc = "idle"
    BY <1>9 DEF Exit, Down, AtLoop, IdleWorker, TypeOK, ConsumerType, ChanType, WorkerType
  <2> QED BY <2>1 DEF Underway
<1> QED
  BY <1>1, <1>2, <1>3, <1>4, <1>5, <1>6, <1>7, <1>8, <1>9, LocalStep DEF OwnStep

LEMMA StagesStep ==
    ASSUME WellFormed, WellFormed', Orderly, OrderlyInv, OneHandle', Next
    PROVE  Stages'
<1> USE DEF OrderlyInv
<1>1. StatusMove /\ \A k \in Used : msgTask'[k] = msgTask[k]
  BY StatusMoves, StreamStep DEF StreamKept
<1>2. ASSUME NEW j \in Ingestors, NEW m \in Msgs, SelectTask(j, m)
      PROVE  /\ consumer'[j].msg = m
             /\ consumer'[j].pc = "write" =>
                   consumer'[j].seen = "CREATED" /\ status'[msgTask'[m]] = "CREATED"
             /\ consumer'[j].pc = "push" => status'[msgTask'[m]] = "RUNNING"
  <2>1. CASE msgTask[m] = Other
    <3>1. consumer' = [consumer EXCEPT ![j] = [pc |-> "ack", msg |-> m, seen |-> "unused"]]
      BY <1>2, <2>1 DEF SelectTask, AfterSelect
    <3> QED BY <3>1 DEF WellFormed, TypeOK, ConsumerType
  <2>2. CASE msgTask[m] # Other
    <3>1. PICK t \in TaskIds : t = msgTask[m] /\ t = msgTask'[m] /\ status'[t] = status[t]
      BY <1>2, <2>2 DEF SelectTask, WellFormed, TypeOK, StreamType, rowVars, msgVars
    <3>2. status[t] # "STOPPING"
      BY DEF RequestsInTurn
    <3> QED BY <1>2, <2>2, <3>1, <3>2 DEF SelectTask, AfterSelect, WellFormed, TypeOK, ConsumerType
  <2> QED BY <2>1, <2>2
<1>3. ASSUME NEW j \in Ingestors, consumer'[j].pc = "write"
      PROVE  /\ consumer'[j].seen = "CREATED"
             /\ status'[msgTask'[consumer'[j].msg]] \in {"CREATED", "removed"}
  <2>1. CASE SelectTask(j, consumer'[j].msg) /\ consumer'[j].msg \in Msgs
    BY <1>2, <1>3, <2>1
  <2>2. CASE consumer'[j] = consumer[j] /\ ~SetRunningByIngestor(j)
    <3>1. PICK m \in Used : m = consumer[j].msg /\ msgTask[m] \in TaskIds
      BY <1>3, <2>2 DEF WellFormed, ConsumerHandles
    <3>2. OnItsWay(j, m) /\ m \in InPlay /\ Holds(j, m)
      <4>1. OnItsWay(j, m) /\ Holds(j, m)
        BY <1>3, <2>2, <3>1 DEF OnItsWay, Holds
      <4> QED BY <4>1, OnItsWayInPlay
    <3>3. consumer[j].seen = "CREATED" /\ status[msgTask[m]] \in {"CREATED", "removed"}
      BY <1>3, <2>2, <3>1 DEF Stages
    <3>4. ASSUME NEW i \in Ingestors, NEW k \in Used, msgTask[k] = msgTask[m], StartedBy(i, k)
          PROVE  FALSE
      <4>1. k = m
        BY <3>1, <3>2, <3>4, MovedInPlay DEF OneInPlay
      <4>2. Holds(i, m)
        BY <3>4, <4>1 DEF StartedBy, Holds
      <4>3. i = j
        BY <3>2, <4>2 DEF OneHandle, Used
      <4> QED BY <2>2, <3>4, <4>3 DEF StartedBy
    <3>5. status'[msgTask[m]] \in {"CREATED", "removed"}
      BY <1>1, <3>1, <3>3, <3>4, StatusOf
    <3> QED BY <1>1, <2>2, <3>1, <3>3, <3>5
  <2> QED BY <1>3, <2>1, <2>2, WriteStep
<1>4. ASSUME NEW j \in Ingestors, NEW m \in Msgs, Underway(j, m)'
      PROVE  status'[msgTask'[m]] \in {"RUNNING", "removed"}
  <2>1. CASE SelectTask(j, m) /\ consumer'[j].pc = "push"
    BY <1>2, <2>1
  <2>2. CASE SetRunningByIngestor(j) /\ consumer[j].msg = m
    <3>1. PICK t \in TaskIds : t = msgTask[m] /\ m \in Used
      BY <2>2 DEF SetRunningByIngestor, WellFormed, ConsumerHandles
    <3>2. status[t] \in {"CREATED", "removed"} /\ consumer[j].seen = "CREATED"
      BY <2>2, <3>1 DEF SetRunningByIngestor, Stages
    <3>3. SetStatus(t, "RUNNING")
      BY <2>2, <3>1, <3>2, OrderlyFacts DEF SetRunningByIngestor
    <3>4. status'[t] \in {"RUNNING", "removed"}
      BY <3>1, <3>2, <3>3 DEF SetStatus, InTable, WellFormed, TypeOK, TableType
    <3> QED BY <1>1, <3>1, <3>4
  <2>3. CASE Underway(j, m)
    <3>1. m \in Used /\ msgTask[m] \in TaskIds /\ m \in InPlay /\ Holds(j, m)
      <4>1. m \in InPlay
        BY <2>3, OnItsWayInPlay DEF OnItsWay
      <4> QED BY <2>3, <4>1 DEF Underway, Holds, WellFormed, ConsumerHandles, WorkerHandles
    <3>2. status[msgTask[m]] \in {"RUNNING", "removed"}
      BY <2>3 DEF Stages
    <3>3. ASSUME NEW i \in Ingestors, NEW k \in Used, NEW w \in Workers, msgTask[k] = msgTask[m],
                 EndedBy(i, w, k)
          PROVE  FALSE
      <4>1. k = m /\ m \in Executed'
        BY <3>1, <3>3, MovedInPlay DEF OneInPlay
      <4>2. PICK h \in Ingestors, v \in Workers : worker'[h][v].pc = "ack" /\ worker'[h][v].msg = m
        BY <4>1 DEF Executed
      <4>3. Holds(h, m)' /\ Holds(j, m)'
        BY <1>4, <4>2 DEF Holds, Underway
      <4>4. h = j /\ Tidy(j)'
        BY <4>3 DEF OneHandle
      <4> QED BY <1>4, <4>2, <4>4 DEF Underway, Tidy
    <3>4. status'[msgTask[m]] \in {"RUNNING", "removed"}
      BY <1>1, <3>1, <3>2, <3>3, StatusOf
    <3> QED BY <1>1, <3>1, <3>4
  <2> QED BY <1>4, <2>1, <2>2, <2>3, UnderwayStep
<1> QED BY <1>3, <1>4 DEF Stages

(***************************************************************************)
(* The initial states.                                                     *)
(***************************************************************************)

(* The stream starts with one message for each seeded task.                 *)
LEMMA OneMessageEach ==
    ASSUME Init, NEW m \in Msgs, NEW n \in Msgs, msgTask[m] \in TaskIds, msgTask[n] = msgTask[m]
    PROVE  n = m
<1> DEFINE N == Cardinality(Seeded)
           f == [k \in 1..N |-> msgTask[k]]
<1>1. /\ N \in Nat /\ 1..N \subseteq Msgs
      /\ Other \notin TaskIds /\ Other \notin Seeded
  <2>1. N \in Nat /\ MaxMsgs = N + MaxRequests /\ MaxRequests \in Nat
    BY Bounds, ConstantsAssumption DEF MaxMsgs
  <2>2. 1..N \subseteq Msgs
    BY <2>1 DEF Msgs
  <2> QED BY <2>1, <2>2, Bounds, ConstantsAssumption
<1>2. \A k \in Msgs : k \in 1..N <=> msgTask[k] # Other
  BY <1>1 DEF Init, Msgs
<1>3. f \in [1..N -> Seeded]
  BY <1>1, <1>2 DEF Init
<1>4. ASSUME NEW t \in Seeded PROVE \E k \in 1..N : f[k] = t
  BY <1>1, <1>2 DEF Init
<1>5. f \in Surjection(1..N, Seeded)
  BY <1>3, <1>4 DEF Surjection
<1>6. IsFiniteSet(1..N) /\ Cardinality(1..N) = N
  BY <1>1, FS_Interval
<1> HIDE DEF f
<1>7. f \in Injection(1..N, Seeded)
  BY <1>1, <1>5, <1>6, FS_SurjSameCardinalityImpliesInj
<1>8. m \in 1..N /\ n \in 1..N /\ f[m] = msgTask[m] /\ f[n] = msgTask[n]
  BY <1>1, <1>2 DEF f
<1> QED BY <1>7, <1>8 DEF Injection, IsInjective

(* A request removes a task, and an ingestor stops, only in a configuration *)
(* that lets it.                                                            *)
LEMMA ConfiguredStep ==
    ASSUME WellFormed, WellFormed', Configured, Next
    PROVE  Configured'
<1> USE DEF WellFormed, TypeOK, CallerType, CounterType
<1>1. ASSUME NEW c \in Callers, caller'[c].pc = "remove", caller[c].pc # "remove"
      PROVE  "remove" \in Ops
  <2>1. PICK d \in Callers : CallerStep(d) \/ Request(d)
    BY <1>1 DEF Next, ConsumerStep, WorkerStep, GetMessages, SelectTask, SetRunningByIngestor,
                PushTask, AckSkipped, StartReturns, TakeTask, ExecuteTask, AckOrNack, WorkerExit,
                Stop, Exit, Crash, Restart, AckWaitExpires
  <2>2. CASE \E t \in TaskIds : CheckRemovable(d, t)
    BY <2>2 DEF CheckRemovable, Begin
  <2>3. CASE CallerStep(d)
    BY <1>1, <2>3 DEF CallerStep, CreateTask, RestartTask, PublishIngestion, PublishFails,
                      SetStopping, PublishStop, RemoveTask, Idle
  <2>4. CASE Request(d) /\ ~\E t \in TaskIds : CheckRemovable(d, t)
    BY <1>1, <2>4 DEF Request, CheckTask, StopTask, PublishMessageToQueue, PullMessageFromQueue,
                      Idle
  <2> QED BY <2>1, <2>2, <2>3, <2>4
<1>2. ASSUME NEW i \in Ingestors, proc'[i] = "stopping", proc[i] # "stopping"
      PROVE  MaxRestarts > 0
  <2>1. \E j \in Ingestors : Stop(j) \/ Exit(j) \/ Crash(j) \/ Restart(j)
    BY <1>2 DEF Next, CallerStep, Request, CreateTask, RestartTask, PublishIngestion, PublishFails,
                SetStopping, PublishStop, RemoveTask, CheckTask, StopTask, CheckRemovable,
                PublishMessageToQueue, PullMessageFromQueue, ConsumerStep, WorkerStep, GetMessages,
                SelectTask, SetRunningByIngestor, PushTask, AckSkipped, StartReturns, TakeTask,
                ExecuteTask, AckOrNack, WorkerExit, AckWaitExpires, ingVars
  <2>2. PICK j \in Ingestors : Stop(j)
    BY <1>2, <2>1 DEF Exit, Crash, Restart, Down
  <2> QED BY <2>2, ConstantsAssumption DEF Stop
<1> QED BY <1>1, <1>2 DEF Configured

LEMMA InitOrderly == Init => OrderlyInv
<1> SUFFICES ASSUME Init PROVE OrderlyInv
  OBVIOUS
<1>1. /\ NoMsg \notin Msgs
      /\ \A i \in Ingestors :
            /\ consumer[i].pc = "loop" /\ consumer[i].msg = NoMsg
            /\ batch[i] = {} /\ DOMAIN taskChan[i] = {}
            /\ \A w \in Workers : worker[i][w].msg = NoMsg /\ worker[i][w].pc = "idle"
      /\ \A c \in Callers : caller[c].pc = "idle"
  BY DEF Init, AtLoop, IdleWorker, Idle, Msgs, NoMsg
<1>2. \A i \in Ingestors : \A m \in Msgs : ~Holds(i, m) /\ ~Underway(i, m)
  BY <1>1 DEF Holds, Underway
<1>3. OneHandle
  <2>1. \A i \in Ingestors : Tidy(i)
    BY <1>1 DEF Tidy
  <2> QED BY <1>2, <2>1 DEF OneHandle
<1>4. OneInPlay
  <2> SUFFICES ASSUME NEW m \in InPlay, msgTask[m] \in TaskIds
               PROVE  /\ \A n \in InPlay : msgTask[n] = msgTask[m] => n = m
                      /\ status[msgTask[m]] = "CREATED"
    BY <1>1 DEF OneInPlay
  <2>1. msgTask[m] \in Seeded
    BY Bounds DEF Init, InPlay
  <2>2. status[msgTask[m]] = "CREATED"
    BY <2>1 DEF Init
  <2>3. ASSUME NEW n \in InPlay, msgTask[n] = msgTask[m] PROVE n = m
    BY <2>3, OneMessageEach DEF InPlay
  <2> QED BY <2>2, <2>3
<1>5. RequestsInTurn /\ Stages
  <2>1. \A t \in TaskIds : status[t] # "STOPPING"
    BY DEF Init
  <2> QED BY <1>1, <1>2, <2>1 DEF RequestsInTurn, Stages
<1>6. Configured
  BY <1>1 DEF Configured, Init
<1> QED BY <1>3, <1>4, <1>5, <1>6 DEF OrderlyInv

(* OrderlyInv is inductive together with the invariant of every run.        *)
LEMMA NextOrderly ==
    ASSUME Orderly
    PROVE  IInv /\ IInv' /\ OrderlyInv /\ [Next]_vars => OrderlyInv'
<1> SUFFICES ASSUME IInv, IInv', OrderlyInv, [Next]_vars PROVE OrderlyInv'
  OBVIOUS
<1>1. WellFormed /\ WellFormed'
  BY DEF IInv
<1>2. CASE Next
  <2>1. OneHandle'
    BY <1>1, <1>2, OneHandleStep DEF OrderlyInv
  <2>2. OneInPlay' /\ RequestsInTurn' /\ Stages'
    BY <1>1, <1>2, <2>1, OneInPlayStep, RequestsInTurnStep, StagesStep
  <2>3. Configured'
    BY <1>1, <1>2, ConfiguredStep DEF OrderlyInv
  <2> QED BY <2>1, <2>2, <2>3 DEF OrderlyInv
<1>3. CASE UNCHANGED vars
  <2>1. /\ \A i, m : (Holds(i, m)' <=> Holds(i, m)) /\ (Underway(i, m)' <=> Underway(i, m))
        /\ \A i : Tidy(i)' <=> Tidy(i)
        /\ Executed' = Executed
        /\ \A m : Live(m)' <=> Live(m)
    BY <1>3 DEF vars, Holds, Underway, Tidy, Executed, Live
  <2>2. InPlay' = InPlay
    BY <2>1 DEF InPlay
  <2> HIDE DEF InPlay
  <2>3. OneHandle' /\ OneInPlay'
    BY <1>3, <2>1, <2>2 DEF vars, OrderlyInv, OneHandle, OneInPlay
  <2>4. RequestsInTurn' /\ Stages' /\ Configured'
    BY <1>3, <2>1 DEF vars, OrderlyInv, RequestsInTurn, Stages, Configured
  <2> QED BY <2>3, <2>4 DEF OrderlyInv
<1> QED BY <1>2, <1>3

(* Where requests come one after another, nobody stops tasks and every      *)
(* pipeline ends within AckWait, for every number of tasks, ingestors and   *)
(* workers: a message has one handle at a time, a task one message that is  *)
(* still to be executed, and the status says how far that message has come. *)
THEOREM OrderlyInvariant ==
    ASSUME Orderly PROVE Spec => []OrderlyInv
<1>1. Init => IInv /\ OrderlyInv
  BY InitIInv, InitOrderly
<1>2. IInv /\ OrderlyInv /\ [Next]_vars => IInv' /\ OrderlyInv'
  BY NextIInv, NextOrderly
<1> QED
  BY <1>1, <1>2, PTL DEF Spec

(* No two workers, of one ingestor or of two, execute the pipeline of one   *)
(* task at the same time: SetRunningByIngestor hands a task that is RUNNING *)
(* to a worker again, but the message that leads there is the one whose     *)
(* handle was lost.                                                         *)
THEOREM OneExecution ==
    ASSUME Orderly PROVE Spec => []OneExecutionAtATime
<1>1. WellFormed /\ OrderlyInv => OneExecutionAtATime
  <2> SUFFICES ASSUME WellFormed, OrderlyInv,
                      NEW i \in Ingestors, NEW j \in Ingestors,
                      NEW v \in Workers, NEW w \in Workers,
                      worker[i][v].pc = "run", worker[j][w].pc = "run",
                      msgTask[worker[i][v].msg] = msgTask[worker[j][w].msg]
               PROVE  i = j /\ v = w
    BY DEF OneExecutionAtATime
  <2>1. PICK m \in Used : m = worker[i][v].msg /\ msgTask[m] \in TaskIds
    BY DEF WellFormed, WorkerHandles
  <2>2. PICK n \in Used : n = worker[j][w].msg /\ msgTask[n] = msgTask[m]
    BY <2>1 DEF WellFormed, WorkerHandles
  <2>3. m \in InPlay /\ n \in InPlay /\ Holds(i, m) /\ Holds(j, n)
    <3>1. OnItsWay(i, m) /\ OnItsWay(j, n) /\ Holds(i, m) /\ Holds(j, n)
      BY <2>1, <2>2 DEF OnItsWay, Underway, Holds
    <3> QED BY <3>1, OnItsWayInPlay DEF OrderlyInv
  <2>4. n = m
    BY <2>1, <2>2, <2>3 DEF OrderlyInv, OneInPlay
  <2>5. i = j /\ Tidy(i) /\ m \in Msgs
    BY <2>3, <2>4 DEF OrderlyInv, OneHandle, Used
  <2> QED BY <2>1, <2>2, <2>4, <2>5 DEF Tidy
<1>2. Init => IInv /\ OrderlyInv
  BY InitIInv, InitOrderly
<1>3. IInv /\ OrderlyInv /\ [Next]_vars => IInv' /\ OrderlyInv'
  BY NextIInv, NextOrderly
<1>4. IInv /\ OrderlyInv => OneExecutionAtATime
  BY <1>1 DEF IInv
<1> QED
  BY <1>2, <1>3, <1>4, PTL DEF Spec

(* The requests, consumers and workers, each of which writes by primary key *)
(* what it decided after an earlier SELECT, implement the status diagram of *)
(* CheckAndCreate: every step is a documented move of one task, leaves the  *)
(* table as it is, or is one of the departures of MayDepart, of which there *)
(* is none where ingestors are not stopped, pipelines have no deadline and  *)
(* nobody removes tasks.                                                    *)
THEOREM LifecycleImplemented ==
    ASSUME Orderly PROVE Spec => ImplementsLifecycle
<1>1. Init => Lifecycle!Init
  BY DEF Init, Lifecycle!Init
<1>2. IInv /\ OrderlyInv /\ [Next]_vars => [Lifecycle!Next]_status
  <2> SUFFICES ASSUME IInv, OrderlyInv, Next PROVE [Lifecycle!Next]_status
    BY DEF vars
  <2>1. StatusMove
    BY StatusMoves DEF IInv, OrderlyInv
  <2>2. ASSUME NEW t \in TaskIds, Created(t) \/ Removed(t) PROVE Lifecycle!Next
    BY <2>2 DEF Created, Removed, Lifecycle!Next, Lifecycle!Documented
  <2>3. ASSUME NEW i \in Ingestors, NEW m \in Used, msgTask[m] \in TaskIds, StartedBy(i, m)
        PROVE  Lifecycle!Next
    BY <2>3 DEF StartedBy, Lifecycle!Next, Lifecycle!Documented
  <2>4. ASSUME NEW i \in Ingestors, NEW w \in Workers, NEW m \in Used, msgTask[m] \in TaskIds,
               EndedBy(i, w, m)
        PROVE  Lifecycle!Next
    BY <2>4 DEF EndedBy, Lifecycle!Next, Lifecycle!Documented
  <2> QED BY <2>1, <2>2, <2>3, <2>4 DEF StatusMove
<1>3. Init => IInv /\ OrderlyInv
  BY InitIInv, InitOrderly
<1>4. IInv /\ OrderlyInv /\ [Next]_vars => IInv' /\ OrderlyInv'
  BY NextIInv, NextOrderly
<1> QED
  BY <1>1, <1>2, <1>3, <1>4, PTL DEF Spec, ImplementsLifecycle, Lifecycle!Spec

============================================================================
