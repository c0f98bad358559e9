------------------------ MODULE IngestionTaskProofs ------------------------
(***************************************************************************)
(* Proofs about IngestionTask: its type invariant, CreatedHasMessage and,  *)
(* for one ingestor, RunningHasMessage, through the inductive invariant    *)
(* IInv, for any number of tasks, callers and workers and with every       *)
(* fault.                                                                  *)
(***************************************************************************)
EXTENDS IngestionTask, FiniteSetTheorems, SequenceTheorems, TLAPS

(* The bounds of the model are numbers. *)
LEMMA Bounds ==
    /\ Cardinality(Seeded) \in Nat
    /\ MaxMsgs \in Nat
    /\ ChanCap \in Nat
    /\ Other \notin TaskIds
BY FS_CardinalityType, ConstantsAssumption DEF MaxMsgs, ChanCap, Other

(* Writing a status by primary key keeps the column typed, and changes only *)
(* the row it names.                                                        *)
LEMMA SetStatusProperties ==
    ASSUME status \in [TaskIds -> Statuses], NEW t \in TaskIds, NEW s \in Statuses,
           SetStatus(t, s)
    PROVE  /\ status' \in [TaskIds -> Statuses]
           /\ \A u \in TaskIds : u # t => status'[u] = status[u]
           /\ status[t] \in InTable => status'[t] = s
           /\ status[t] \notin InTable => status'[t] = status[t]
           /\ s # "CREATED" => status'[t] # "CREATED"
BY DEF SetStatus, Statuses, InTable, Outcomes

(* The stream operations keep message states typed, give out no numbers and *)
(* lose a live message only to an ack, the delivery limit or the size limit.*)
LEMMA AckedProperties ==
    ASSUME msgState \in [Msgs -> MsgStates], NEW m \in Msgs, Ack(m)
    PROVE  /\ msgState' \in [Msgs -> MsgStates]
           /\ \A k \in Msgs : k # m => msgState'[k] = msgState[k]
           /\ \A k \in Msgs : msgState'[k] = "free" <=> msgState[k] = "free"
           /\ \A k \in Msgs : msgState[k] \in {"dead", "evicted", "pulled"}
                                => msgState'[k] = msgState[k]
BY DEF Ack, Acked, MsgStates

LEMMA RequeuedProperties ==
    ASSUME msgState \in [Msgs -> MsgStates], NEW m \in Msgs, 
           msgState' = Requeued(msgState, m)
    PROVE  /\ msgState' \in [Msgs -> MsgStates]
           /\ \A k \in Msgs : msgState'[k] = "free" <=> msgState[k] = "free"
           /\ \A k \in Msgs : msgState[k] \in {"dead", "evicted", "pulled"}
                                => msgState'[k] = msgState[k]
           /\ \A k \in Msgs : msgState[k] \in {"ready", "pending"}
                                => msgState'[k] \in {"ready", "pending", "dead"}
BY DEF Requeued, MsgStates

LEMMA EvictedProperties ==
    ASSUME msgState \in [Msgs -> MsgStates]
    PROVE  /\ Evicted(msgState) \in [Msgs -> MsgStates]
           /\ \A k \in Msgs : \/ Evicted(msgState)[k] = msgState[k]
                              \/ /\ Evicted(msgState)[k] = "evicted"
                                 /\ msgState[k] # "free"
<1> DEFINE kept == {m \in Msgs : msgState[m] \in {"ready", "pending", "dead"}}
           dropped == [m \in Msgs |-> IF m \in kept /\ \A k \in kept : m <= k
                                      THEN "evicted" ELSE msgState[m]]
<1>1. Evicted(msgState) = IF Cardinality(kept) < StreamCap THEN msgState ELSE dropped
  BY DEF Evicted
<1>2. /\ dropped \in [Msgs -> MsgStates]
      /\ \A k \in Msgs : dropped[k] = msgState[k] \/ (dropped[k] = "evicted" /\ k \in kept)
  BY DEF MsgStates
<1>3. CASE Cardinality(kept) < StreamCap
  BY <1>1, <1>3
<1>4. CASE ~(Cardinality(kept) < StreamCap)
  BY <1>1, <1>2, <1>4
<1> QED
  BY <1>3, <1>4

LEMMA PublishProperties ==
    ASSUME TypeOK, Numbered, NEW t \in TaskIds \cup {Other}, PublishTask(t)
    PROVE  /\ msgState' \in [Msgs -> MsgStates]
           /\ msgTask' \in [Msgs -> TaskIds \cup {Other}]
           /\ published' \in 0..MaxMsgs
           /\ Numbered'
           /\ Used \subseteq Used'
           /\ published + 1 \in Msgs
           /\ msgTask'[published + 1] = t
           /\ msgState'[published + 1] = "ready"
           /\ published + 1 \notin Used
           /\ \A k \in Used : msgTask'[k] = msgTask[k]
           /\ \A k \in Used : msgState'[k] = msgState[k] \/ msgState'[k] = "evicted"
           /\ delivered' = delivered
<1>1. /\ published \in Nat /\ published < MaxMsgs
      /\ published' = published + 1
      /\ msgTask'   = [msgTask EXCEPT ![published + 1] = t]
      /\ msgState'  = [Evicted(msgState) EXCEPT ![published + 1] = "ready"]
      /\ msgState \in [Msgs -> MsgStates]
      /\ msgTask \in [Msgs -> TaskIds \cup {Other}]
      /\ delivered' = delivered
  BY Bounds DEF TypeOK, StreamType, PublishTask
<1>2. published + 1 \in Msgs /\ published + 1 \notin Used /\ published' \in 0..MaxMsgs
  BY <1>1, Bounds DEF Msgs, Used
<1>3. Evicted(msgState) \in [Msgs -> MsgStates]
  BY <1>1, EvictedProperties
<1>4. msgState' \in [Msgs -> MsgStates] /\ msgTask' \in [Msgs -> TaskIds \cup {Other}]
  BY <1>1, <1>2, <1>3 DEF MsgStates
<1>5. \A k \in Msgs : k # published + 1 =>
         /\ msgTask'[k] = msgTask[k]
         /\ \/ msgState'[k] = msgState[k]
            \/ msgState'[k] = "evicted" /\ msgState[k] # "free"
  BY <1>1, <1>2, <1>3, EvictedProperties
<1>6. \A k \in Msgs : k \in Used' <=> (k \in Used \/ k = published + 1)
  BY <1>1 DEF Used, Msgs
<1>7. msgTask'[published + 1] = t /\ msgState'[published + 1] = "ready"
  BY <1>1, <1>2, <1>3
<1>8. Numbered'
  BY <1>2, <1>5, <1>6, <1>7 DEF Numbered
<1> QED
  BY <1>1, <1>2, <1>4, <1>5, <1>6, <1>7, <1>8 DEF Used

(* Steps of requests. *)
LEMMA CallersWellFormed ==
    ASSUME WellFormed, NEW c \in Callers, CallerStep(c) \/ Request(c)
    PROVE  WellFormed'
<1> USE Bounds DEF WellFormed
<1>1. CASE \E d \in Docs : CheckTask(c, d)
  <2> PICK d \in Docs : CheckTask(c, d)
    BY <1>1
  <2> USE DEF CheckTask
  <2>1. TableType'
    BY DEF TypeOK, TableType, rowVars
  <2>2. StreamType' /\ Numbered' /\ ConsumerHandles' /\ WorkerHandles'
    BY DEF TypeOK, StreamType, Numbered, Used, ConsumerHandles, WorkerHandles, msgVars, ingVars
  <2>3. CallerType' /\ RequestsHaveTask'
    BY DEF TypeOK, CallerType, RequestsHaveTask, Begin, Idle, IsFirst
  <2>4. ConsumerType' /\ ChanType' /\ WorkerType'
    BY DEF TypeOK, ConsumerType, ChanType, WorkerType, ingVars
  <2>5. CounterType'
    BY ConstantsAssumption DEF TypeOK, CounterType, Begin, ingVars
  <2> QED BY <2>1, <2>2, <2>3, <2>4, <2>5 DEF TypeOK
<1>2. CASE \E t \in TaskIds : CreateTask(c, t)
  <2> PICK t \in TaskIds : CreateTask(c, t)
    BY <1>2
  <2> USE DEF CreateTask
  <2>1. TableType'
    BY DEF TypeOK, TableType, RequestsHaveTask, Statuses, InTable
  <2>2. StreamType' /\ Numbered' /\ ConsumerHandles' /\ WorkerHandles'
    BY DEF TypeOK, StreamType, Numbered, Used, ConsumerHandles, WorkerHandles, msgVars, ingVars
  <2>3. CallerType' /\ RequestsHaveTask'
    BY DEF TypeOK, CallerType, RequestsHaveTask, Idle
  <2>4. ConsumerType' /\ ChanType' /\ WorkerType'
    BY DEF TypeOK, ConsumerType, ChanType, WorkerType, ingVars
  <2>5. CounterType'
    BY DEF TypeOK, CounterType, ingVars
  <2> QED BY <2>1, <2>2, <2>3, <2>4, <2>5 DEF TypeOK
<1>3. CASE RestartTask(c)
  <2> USE <1>3 DEF RestartTask
  <2>1. TableType'
    BY SetStatusProperties DEF TypeOK, TableType, RequestsHaveTask, Statuses, InTable, Outcomes
  <2>2. StreamType' /\ Numbered' /\ ConsumerHandles' /\ WorkerHandles'
    BY DEF TypeOK, StreamType, Numbered, Used, ConsumerHandles, WorkerHandles, msgVars, ingVars
  <2>3. CallerType' /\ RequestsHaveTask'
    BY DEF TypeOK, CallerType, RequestsHaveTask, Idle
  <2>4. ConsumerType' /\ ChanType' /\ WorkerType'
    BY DEF TypeOK, ConsumerType, ChanType, WorkerType, ingVars
  <2>5. CounterType'
    BY DEF TypeOK, CounterType, ingVars
  <2> QED BY <2>1, <2>2, <2>3, <2>4, <2>5 DEF TypeOK
<1>4. CASE PublishIngestion(c)
  <2> USE <1>4 DEF PublishIngestion
  <2>1. TableType'
    BY DEF TypeOK, TableType, rowVars
  <2>2. StreamType' /\ Numbered' /\ ConsumerHandles' /\ WorkerHandles'
    <3>1. caller[c].task \in TaskIds \cup {Other} /\ PublishTask(caller[c].task)
      BY DEF RequestsHaveTask
    <3>2. StreamType' /\ Numbered'
      BY <3>1, PublishProperties DEF StreamType, TypeOK
    <3>3. ConsumerHandles' /\ WorkerHandles'
      BY <3>1, PublishProperties DEF ConsumerHandles, WorkerHandles, ingVars
    <3> QED BY <3>2, <3>3
  <2>3. CallerType' /\ RequestsHaveTask'
    BY DEF TypeOK, CallerType, RequestsHaveTask, Idle
  <2>4. ConsumerType' /\ ChanType' /\ WorkerType'
    BY DEF TypeOK, ConsumerType, ChanType, WorkerType, ingVars
  <2>5. CounterType'
    BY DEF TypeOK, CounterType, ingVars
  <2> QED BY <2>1, <2>2, <2>3, <2>4, <2>5 DEF TypeOK
<1>5. CASE PublishFails(c)
  <2> USE <1>5 DEF PublishFails
  <2>1. TableType'
    BY DEF TypeOK, TableType, RequestsHaveTask, rowVars
  <2>2. StreamType' /\ Numbered' /\ ConsumerHandles' /\ WorkerHandles'
    BY DEF TypeOK, StreamType, Numbered, Used, ConsumerHandles, WorkerHandles, msgVars, ingVars
  <2>3. CallerType' /\ RequestsHaveTask'
    BY DEF TypeOK, CallerType, RequestsHaveTask, Idle
  <2>4. ConsumerType' /\ ChanType' /\ WorkerType'
    BY DEF TypeOK, ConsumerType, ChanType, WorkerType, ingVars
  <2>5. CounterType'
    BY DEF TypeOK, CounterType, ingVars
  <2> QED BY <2>1, <2>2, <2>3, <2>4, <2>5 DEF TypeOK
<1>6. CASE \E t \in TaskIds : \E pc \in {"stop", "adminStop"} : StopTask(c, t, pc)
  <2> PICK t \in TaskIds, pc \in {"stop", "adminStop"} : StopTask(c, t, pc)
    BY <1>6
  <2> USE DEF StopTask
  <2>1. TableType'
    BY DEF TypeOK, TableType, rowVars
  <2>2. StreamType' /\ Numbered' /\ ConsumerHandles' /\ WorkerHandles'
    BY DEF TypeOK, StreamType, Numbered, Used, ConsumerHandles, WorkerHandles, msgVars, ingVars
  <2>3. CallerType' /\ RequestsHaveTask'
    BY DEF TypeOK, CallerType, RequestsHaveTask, Begin, Idle
  <2>4. ConsumerType' /\ ChanType' /\ WorkerType'
    BY DEF TypeOK, ConsumerType, ChanType, WorkerType, ingVars
  <2>5. CounterType'
    BY ConstantsAssumption DEF TypeOK, CounterType, Begin, ingVars
  <2> QED BY <2>1, <2>2, <2>3, <2>4, <2>5 DEF TypeOK
<1>7. CASE SetStopping(c)
  <2> USE <1>7 DEF SetStopping
  <2>1. TableType'
    BY SetStatusProperties DEF TypeOK, TableType, RequestsHaveTask, Statuses, InTable, Outcomes
  <2>2. StreamType' /\ Numbered' /\ ConsumerHandles' /\ WorkerHandles'
    BY DEF TypeOK, StreamType, Numbered, Used, ConsumerHandles, WorkerHandles, msgVars, ingVars
  <2>3. CallerType' /\ RequestsHaveTask'
    BY DEF TypeOK, CallerType, RequestsHaveTask, Idle
  <2>4. ConsumerType' /\ ChanType' /\ WorkerType'
    BY DEF TypeOK, ConsumerType, ChanType, WorkerType, ingVars
  <2>5. CounterType'
    BY DEF TypeOK, CounterType, ingVars
  <2> QED BY <2>1, <2>2, <2>3, <2>4, <2>5 DEF TypeOK
<1>8. CASE PublishStop(c)
  <2> USE <1>8 DEF PublishStop
  <2>1. TableType'
    BY DEF TypeOK, TableType, rowVars
  <2>2. StreamType' /\ Numbered' /\ ConsumerHandles' /\ WorkerHandles'
    <3>1. CASE PublishTask(Other)
      <4>1. StreamType' /\ Numbered'
        BY <3>1, PublishProperties DEF StreamType, TypeOK
      <4>2. ConsumerHandles' /\ WorkerHandles'
        BY <3>1, PublishProperties DEF ConsumerHandles, WorkerHandles, ingVars
      <4> QED BY <4>1, <4>2
    <3>2. CASE UNCHANGED msgVars
      BY <3>2 DEF TypeOK, StreamType, Numbered, Used, ConsumerHandles, WorkerHandles, msgVars, ingVars
    <3> QED BY <3>1, <3>2
  <2>3. CallerType' /\ RequestsHaveTask'
    BY DEF TypeOK, CallerType, RequestsHaveTask, Idle
  <2>4. ConsumerType' /\ ChanType' /\ WorkerType'
    BY DEF TypeOK, ConsumerType, ChanType, WorkerType, ingVars
  <2>5. CounterType'
    BY DEF TypeOK, CounterType, ingVars
  <2> QED BY <2>1, <2>2, <2>3, <2>4, <2>5 DEF TypeOK
<1>9. CASE \E t \in TaskIds : CheckRemovable(c, t)
  <2> PICK t \in TaskIds : CheckRemovable(c, t)
    BY <1>9
  <2> USE DEF CheckRemovable
  <2>1. TableType'
    BY DEF TypeOK, TableType, rowVars
  <2>2. StreamType' /\ Numbered' /\ ConsumerHandles' /\ WorkerHandles'
    BY DEF TypeOK, StreamType, Numbered, Used, ConsumerHandles, WorkerHandles, msgVars, ingVars
  <2>3. CallerType' /\ RequestsHaveTask'
    BY DEF TypeOK, CallerType, RequestsHaveTask, Begin, Idle
  <2>4. ConsumerType' /\ ChanType' /\ WorkerType'
    BY DEF TypeOK, ConsumerType, ChanType, WorkerType, ingVars
  <2>5. CounterType'
    BY ConstantsAssumption DEF TypeOK, CounterType, Begin, ingVars
  <2> QED BY <2>1, <2>2, <2>3, <2>4, <2>5 DEF TypeOK
<1>10. CASE RemoveTask(c)
  <2> USE <1>10 DEF RemoveTask
  <2>1. TableType'
    BY SetStatusProperties DEF TypeOK, TableType, RequestsHaveTask, Statuses, InTable, Outcomes
  <2>2. StreamType' /\ Numbered' /\ ConsumerHandles' /\ WorkerHandles'
    BY DEF TypeOK, StreamType, Numbered, Used, ConsumerHandles, WorkerHandles, msgVars, ingVars
  <2>3. CallerType' /\ RequestsHaveTask'
    BY DEF TypeOK, CallerType, RequestsHaveTask, Idle
  <2>4. ConsumerType' /\ ChanType' /\ WorkerType'
    BY DEF TypeOK, ConsumerType, ChanType, WorkerType, ingVars
  <2>5. CounterType'
    BY DEF TypeOK, CounterType, ingVars
  <2> QED BY <2>1, <2>2, <2>3, <2>4, <2>5 DEF TypeOK
<1>11. CASE PublishMessageToQueue(c)
  <2> USE <1>11 DEF PublishMessageToQueue
  <2>1. TableType'
    BY DEF TypeOK, TableType, rowVars
  <2>2. StreamType' /\ Numbered' /\ ConsumerHandles' /\ WorkerHandles'
    <3>1. Other \in TaskIds \cup {Other} /\ PublishTask(Other)
      BY DEF RequestsHaveTask
    <3>2. StreamType' /\ Numbered'
      BY <3>1, PublishProperties DEF StreamType, TypeOK
    <3>3. ConsumerHandles' /\ WorkerHandles'
      BY <3>1, PublishProperties DEF ConsumerHandles, WorkerHandles, ingVars
    <3> QED BY <3>2, <3>3
  <2>3. CallerType' /\ RequestsHaveTask'
    BY DEF TypeOK, CallerType, RequestsHaveTask
  <2>4. ConsumerType' /\ ChanType' /\ WorkerType'
    BY DEF TypeOK, ConsumerType, ChanType, WorkerType, ingVars
  <2>5. CounterType'
    BY ConstantsAssumption DEF TypeOK, CounterType, Begin, ingVars
  <2> QED BY <2>1, <2>2, <2>3, <2>4, <2>5 DEF TypeOK
<1>12. CASE \E m \in Msgs : PullMessageFromQueue(c, m)
  <2> PICK m \in Msgs : PullMessageFromQueue(c, m)
    BY <1>12
  <2> USE DEF PullMessageFromQueue
  <2>1. TableType'
    BY DEF TypeOK, TableType, rowVars
  <2>2. StreamType' /\ Numbered' /\ ConsumerHandles' /\ WorkerHandles'
    <3>1. StreamType'
      BY DEF TypeOK, StreamType, MsgStates
    <3>2. Numbered' /\ ConsumerHandles' /\ WorkerHandles'
      BY DEF TypeOK, StreamType, Numbered, Used, ConsumerHandles, WorkerHandles, ingVars
    <3> QED BY <3>1, <3>2
  <2>3. CallerType' /\ RequestsHaveTask'
    BY DEF TypeOK, CallerType, RequestsHaveTask
  <2>4. ConsumerType' /\ ChanType' /\ WorkerType'
    BY DEF TypeOK, ConsumerType, ChanType, WorkerType, ingVars
  <2>5. CounterType'
    BY ConstantsAssumption DEF TypeOK, CounterType, Begin, ingVars
  <2> QED BY <2>1, <2>2, <2>3, <2>4, <2>5 DEF TypeOK
<1> QED
  BY <1>1, <1>2, <1>3, <1>4, <1>5, <1>6, <1>7, <1>8, <1>9, <1>10, <1>11, <1>12
  DEF CallerStep, Request

(* Steps of the consumer goroutine. *)
LEMMA ConsumerWellFormed ==
    ASSUME WellFormed, NEW i \in Ingestors, ConsumerStep(i) \/ StartReturns(i)
    PROVE  WellFormed'
<1> USE Bounds DEF WellFormed
<1>1. CASE GetMessages(i)
  <2> PICK S \in SUBSET {m \in Msgs : msgState[m] = "ready"} :
          /\ batch' = [batch EXCEPT ![i] = S]
          /\ msgState' = [m \in Msgs |-> IF m \in S THEN "pending" ELSE msgState[m]]
          /\ delivered' = [m \in Msgs |-> IF m \in S THEN delivered[m] + 1 ELSE delivered[m]]
    BY <1>1 DEF GetMessages
  <2> UNCHANGED <<rowVars, msgTask, published, caller, consumer, taskChan, worker,
                  proc, failedCalls, requests, restarts>>
    BY <1>1 DEF GetMessages
  <2>1. TableType' /\ CallerType' /\ ChanType' /\ WorkerType' /\ CounterType'
    BY DEF TypeOK, TableType, CallerType, ChanType, WorkerType, CounterType, rowVars
  <2>2. StreamType'
    BY DEF TypeOK, StreamType, MsgStates
  <2>3. Numbered' /\ S \subseteq Used /\ Used' = Used
    BY DEF TypeOK, StreamType, Numbered, Used
  <2>4. ConsumerType'
    BY DEF TypeOK, ConsumerType
  <2>5. ConsumerHandles'
    BY <2>3 DEF TypeOK, ConsumerType, ConsumerHandles
  <2>6. WorkerHandles' /\ RequestsHaveTask'
    BY <2>3 DEF WorkerHandles, RequestsHaveTask
  <2> QED BY <2>1, <2>2, <2>3, <2>4, <2>5, <2>6 DEF TypeOK
<1>2. CASE \E m \in Msgs : SelectTask(i, m)
  <2> PICK m \in Msgs : SelectTask(i, m)
    BY <1>2
  <2> USE DEF SelectTask, AfterSelect
  <2>1. TableType' /\ StreamType' /\ CallerType' /\ ChanType' /\ WorkerType' /\ CounterType'
    BY DEF TypeOK, TableType, StreamType, CallerType, ChanType, WorkerType, CounterType,
           rowVars, msgVars
  <2>2. Numbered' /\ WorkerHandles' /\ RequestsHaveTask' /\ Used' = Used
    BY DEF Numbered, Used, WorkerHandles, RequestsHaveTask, msgVars
  <2>3. (IF msgTask[m] = Other THEN "unused" ELSE status[msgTask[m]]) \in Statuses
    BY DEF TypeOK, TableType, StreamType, Statuses
  <2>4. ConsumerType'
    BY <2>3 DEF TypeOK, ConsumerType
  <2>5. ConsumerHandles'
    BY <2>2 DEF TypeOK, StreamType, ConsumerType, ConsumerHandles, msgVars
  <2> QED BY <2>1, <2>2, <2>4, <2>5 DEF TypeOK
<1>3. CASE SetRunningByIngestor(i)
  <2> USE <1>3 DEF SetRunningByIngestor
  <2>1. StreamType' /\ CallerType' /\ ChanType' /\ WorkerType' /\ CounterType'
    BY DEF TypeOK, StreamType, CallerType, ChanType, WorkerType, CounterType, msgVars
  <2>2. Numbered' /\ WorkerHandles' /\ RequestsHaveTask' /\ Used' = Used
    BY DEF Numbered, Used, WorkerHandles, RequestsHaveTask, msgVars
  <2>3. msgTask[consumer[i].msg] \in TaskIds
    BY DEF ConsumerHandles
  <2>4. TableType'
    BY <2>3, SetStatusProperties
    DEF TypeOK, TableType, WriteFails, Statuses, InTable, Outcomes
  <2>5. ConsumerType'
    BY DEF TypeOK, ConsumerType
  <2>6. ConsumerHandles'
    BY <2>2 DEF TypeOK, ConsumerType, ConsumerHandles, msgVars
  <2> QED BY <2>1, <2>2, <2>4, <2>5, <2>6 DEF TypeOK
<1>4. CASE PushTask(i)
  <2> USE <1>4 DEF PushTask, HasRoom
  <2> DEFINE m == consumer[i].msg
  <2>1. m \in Used /\ m \in Msgs /\ msgTask[m] \in TaskIds
    BY DEF ConsumerHandles, Used
  <2>2. TableType' /\ CallerType' /\ WorkerType' /\ CounterType'
    BY DEF TypeOK, TableType, CallerType, WorkerType, CounterType, rowVars
  <2>3. Used' = Used /\ RequestsHaveTask'
    BY DEF Used, RequestsHaveTask
  <2>4. StreamType' /\ Numbered'
    <3>1. CASE UNCHANGED msgState
      BY <3>1, <2>3 DEF TypeOK, StreamType, Numbered
    <3>2. CASE Nack(m)
      BY <3>2, <2>1, <2>3, RequeuedProperties DEF TypeOK, StreamType, Numbered, Nack
    <3> QED BY <3>1, <3>2
  <2>5. ConsumerType' /\ ConsumerHandles'
    BY <2>3 DEF TypeOK, ConsumerType, ConsumerHandles, AtLoop, Statuses
  <2>6. ChanType' /\ WorkerHandles'
    <3>1. CASE UNCHANGED taskChan
      BY <3>1, <2>3 DEF TypeOK, ChanType, WorkerHandles
    <3>2. CASE /\ Len(taskChan[i]) < ChanCap
               /\ taskChan' = [taskChan EXCEPT ![i] = Append(@, m)]
      <4>1. taskChan[i] \in Seq(Msgs) /\ Len(taskChan[i]) \in Nat
        BY DEF TypeOK, ChanType
      <4>2. /\ Append(taskChan[i], m) \in Seq(Msgs)
            /\ Len(Append(taskChan[i], m)) = Len(taskChan[i]) + 1
            /\ \A k \in DOMAIN Append(taskChan[i], m) :
                  \/ k \in DOMAIN taskChan[i] /\ Append(taskChan[i], m)[k] = taskChan[i][k]
                  \/ Append(taskChan[i], m)[k] = m
        BY <4>1, <2>1
      <4>3. ChanType'
        BY <3>2, <4>1, <4>2 DEF TypeOK, ChanType
      <4>4. WorkerHandles'
        <5> SUFFICES ASSUME NEW j \in Ingestors
                     PROVE  /\ \A k \in DOMAIN taskChan'[j] :
                                  taskChan'[j][k] \in Used' /\ msgTask'[taskChan'[j][k]] \in TaskIds
                            /\ \A w \in Workers : worker'[j][w].pc \in {"run", "ack"} =>
                                  /\ worker'[j][w].msg \in Used'
                                  /\ msgTask'[worker'[j][w].msg] \in TaskIds
          BY DEF WorkerHandles
        <5>1. CASE j = i
          BY <5>1, <3>2, <4>1, <4>2, <2>1, <2>3 DEF TypeOK, ChanType, WorkerHandles
        <5>2. CASE j # i
          BY <5>2, <3>2, <2>3 DEF TypeOK, ChanType, WorkerHandles
        <5> QED BY <5>1, <5>2
      <4> QED BY <4>3, <4>4
    <3> QED BY <3>1, <3>2
  <2> QED BY <2>2, <2>3, <2>4, <2>5, <2>6 DEF TypeOK
<1>5. CASE AckSkipped(i)
  <2> USE <1>5 DEF AckSkipped
  <2>1. TableType' /\ CallerType' /\ ChanType' /\ WorkerType' /\ CounterType'
    BY DEF TypeOK, TableType, CallerType, ChanType, WorkerType, CounterType, rowVars
  <2>2. Used' = Used /\ RequestsHaveTask' /\ WorkerHandles'
    BY DEF Used, RequestsHaveTask, WorkerHandles
  <2>3. StreamType' /\ Numbered'
    BY <2>2, AckedProperties DEF TypeOK, StreamType, Numbered, ConsumerHandles, Used
  <2>4. ConsumerType' /\ ConsumerHandles'
    BY <2>2 DEF TypeOK, ConsumerType, ConsumerHandles, AtLoop, Statuses
  <2> QED BY <2>1, <2>2, <2>3, <2>4 DEF TypeOK
<1>6. CASE StartReturns(i)
  <2> USE <1>6 DEF StartReturns
  <2>1. TableType' /\ StreamType' /\ CallerType' /\ ChanType' /\ WorkerType' /\ CounterType'
    BY DEF TypeOK, TableType, StreamType, CallerType, ChanType, WorkerType, CounterType,
           rowVars, msgVars
  <2>2. Numbered' /\ WorkerHandles' /\ RequestsHaveTask' /\ Used' = Used
    BY DEF Numbered, Used, WorkerHandles, RequestsHaveTask, msgVars
  <2>3. ConsumerType' /\ ConsumerHandles'
    BY <2>2 DEF TypeOK, ConsumerType, ConsumerHandles, AtLoop, Statuses, msgVars
  <2> QED BY <2>1, <2>2, <2>3 DEF TypeOK
<1> QED
  BY <1>1, <1>2, <1>3, <1>4, <1>5, <1>6 DEF ConsumerStep

(* A worker moves to another record of the right shape. *)
LEMMA WorkerUpdate ==
    ASSUME WorkerType, NEW i \in Ingestors, NEW w \in Workers,
           NEW p \in {"idle", "run", "ack", "exited"}, NEW o \in Outcomes \cup {"none"},
           NEW r, r = [worker[i][w] EXCEPT !.pc = p, !.outcome = o],
           worker' = [worker EXCEPT ![i][w] = r]
    PROVE  WorkerType'
<1> DEFINE R == [pc      : {"idle", "run", "ack", "exited"},
                 msg     : Msgs \cup {NoMsg},
                 outcome : Outcomes \cup {"none"}]
<1>1. worker \in [Ingestors -> [Workers -> R]]
  BY DEF WorkerType
<1>2. worker[i][w] \in R
  BY <1>1
<1>3. r \in R
  BY <1>2
<1> HIDE DEF R
<1>4. worker' \in [Ingestors -> [Workers -> R]]
  BY <1>1, <1>3
<1> QED
  BY <1>4 DEF WorkerType, R

(* Steps of a worker. *)
LEMMA WorkerWellFormed ==
    ASSUME WellFormed, NEW i \in Ingestors, NEW w \in Workers, WorkerStep(i, w)
    PROVE  WellFormed'
<1> USE Bounds DEF WellFormed
<1>1. CASE TakeTask(i, w)
  <2> USE <1>1 DEF TakeTask
  <2>1. TableType' /\ StreamType' /\ CallerType' /\ ConsumerType' /\ CounterType'
    BY DEF TypeOK, TableType, StreamType, CallerType, ConsumerType, CounterType, rowVars, msgVars
  <2>2. Numbered' /\ ConsumerHandles' /\ RequestsHaveTask' /\ Used' = Used /\ msgTask' = msgTask
    BY DEF Numbered, Used, ConsumerHandles, RequestsHaveTask, msgVars
  <2>3. taskChan[i] \in Seq(Msgs) /\ taskChan[i] # <<>> /\ Len(taskChan[i]) <= ChanCap
    BY DEF TypeOK, ChanType
  <2>4. /\ Head(taskChan[i]) \in Msgs
        /\ Head(taskChan[i]) = taskChan[i][1]
        /\ 1 \in DOMAIN taskChan[i]
        /\ Tail(taskChan[i]) \in Seq(Msgs)
        /\ Len(Tail(taskChan[i])) = Len(taskChan[i]) - 1
        /\ \A k \in DOMAIN Tail(taskChan[i]) :
              k + 1 \in DOMAIN taskChan[i] /\ Tail(taskChan[i])[k] = taskChan[i][k + 1]
    BY <2>3
  <2>5. ChanType'
    BY <2>3, <2>4 DEF TypeOK, ChanType
  <2>6. WorkerType'
    BY <2>4 DEF TypeOK, WorkerType
  <2>7. Head(taskChan[i]) \in Used /\ msgTask[Head(taskChan[i])] \in TaskIds
    BY <2>4 DEF WorkerHandles
  <2>8. WorkerHandles'
    <3> SUFFICES ASSUME NEW j \in Ingestors
                 PROVE  /\ \A k \in DOMAIN taskChan'[j] :
                              taskChan'[j][k] \in Used' /\ msgTask'[taskChan'[j][k]] \in TaskIds
                        /\ \A v \in Workers : worker'[j][v].pc \in {"run", "ack"} =>
                              /\ worker'[j][v].msg \in Used'
                              /\ msgTask'[worker'[j][v].msg] \in TaskIds
      BY DEF WorkerHandles
    <3>1. \A k \in DOMAIN taskChan'[j] :
             taskChan'[j][k] \in Used' /\ msgTask'[taskChan'[j][k]] \in TaskIds
      <4>1. CASE j = i
        <5>1. taskChan'[j] = Tail(taskChan[i])
          BY <4>1 DEF TypeOK, ChanType
        <5> QED BY <5>1, <2>2, <2>4 DEF WorkerHandles
      <4>2. CASE j # i
        BY <4>2, <2>2 DEF TypeOK, ChanType, WorkerHandles
      <4> QED BY <4>1, <4>2
    <3>2. \A v \in Workers : worker'[j][v].pc \in {"run", "ack"} =>
             worker'[j][v].msg \in Used' /\ msgTask'[worker'[j][v].msg] \in TaskIds
      BY <2>2, <2>7 DEF TypeOK, WorkerType, WorkerHandles
    <3> QED BY <3>1, <3>2
  <2> QED BY <2>1, <2>2, <2>5, <2>6, <2>8 DEF TypeOK
<1>2. CASE ExecuteTask(i, w)
  <2> DEFINE t == msgTask[worker[i][w].msg]
  <2> USE <1>2 DEF ExecuteTask
  <2>1. StreamType' /\ CallerType' /\ ConsumerType' /\ ChanType' /\ CounterType'
    BY DEF TypeOK, StreamType, CallerType, ConsumerType, ChanType, CounterType, msgVars
  <2>2. Numbered' /\ ConsumerHandles' /\ RequestsHaveTask' /\ Used' = Used /\ msgTask' = msgTask
    BY DEF Numbered, Used, ConsumerHandles, RequestsHaveTask, msgVars
  <2>3. t \in TaskIds
    BY DEF WorkerHandles
  <2> PICK out \in OutcomesOf(i, t) :
          /\ (SetStatus(t, out) /\ UNCHANGED failedCalls) \/ WriteFails(t)
          /\ worker' = [worker EXCEPT ![i][w] = [@ EXCEPT !.pc = "ack", !.outcome = out]]
    OBVIOUS
  <2>4. out \in Outcomes
    BY DEF OutcomesOf, Outcomes
  <2>5. TableType'
    BY <2>3, <2>4, SetStatusProperties
    DEF TypeOK, TableType, WriteFails, Statuses, InTable, Outcomes
  <2>6. WorkerType'
    BY <2>4, WorkerUpdate DEF TypeOK
  <2>7. WorkerHandles'
    BY <2>2 DEF TypeOK, WorkerType, WorkerHandles
  <2> QED BY <2>1, <2>2, <2>5, <2>6, <2>7 DEF TypeOK
<1>3. CASE AckOrNack(i, w)
  <2> USE <1>3 DEF AckOrNack
  <2>1. TableType' /\ CallerType' /\ ConsumerType' /\ ChanType' /\ CounterType'
    BY DEF TypeOK, TableType, CallerType, ConsumerType, ChanType, CounterType, rowVars
  <2>2. ConsumerHandles' /\ RequestsHaveTask' /\ Used' = Used /\ msgTask' = msgTask
    BY DEF Used, ConsumerHandles, RequestsHaveTask
  <2>3. worker[i][w].msg \in Msgs
    BY DEF WorkerHandles, Used
  <2>4. StreamType' /\ Numbered'
    BY <2>2, <2>3, AckedProperties DEF TypeOK, StreamType, Numbered
  <2>5. WorkerType' /\ WorkerHandles'
    BY <2>2 DEF TypeOK, WorkerType, WorkerHandles, IdleWorker
  <2> QED BY <2>1, <2>2, <2>4, <2>5 DEF TypeOK
<1>4. CASE WorkerExit(i, w)
  <2> USE <1>4 DEF WorkerExit
  <2>1. TableType' /\ StreamType' /\ CallerType' /\ ConsumerType' /\ ChanType' /\ CounterType'
    BY DEF TypeOK, TableType, StreamType, CallerType, ConsumerType, ChanType, CounterType,
           rowVars, msgVars
  <2>2. Numbered' /\ ConsumerHandles' /\ RequestsHaveTask' /\ Used' = Used /\ msgTask' = msgTask
    BY DEF Numbered, Used, ConsumerHandles, RequestsHaveTask, msgVars
  <2>3. WorkerType'
    <3>1. worker[i][w].outcome \in Outcomes \cup {"none"}
      BY DEF TypeOK, WorkerType
    <3>2. [worker[i][w] EXCEPT !.pc = "exited"]
            = [worker[i][w] EXCEPT !.pc = "exited", !.outcome = worker[i][w].outcome]
      BY DEF TypeOK, WorkerType
    <3> QED BY <3>1, <3>2, WorkerUpdate DEF TypeOK
  <2>4. WorkerHandles'
    BY <2>2 DEF TypeOK, WorkerType, WorkerHandles
  <2> QED BY <2>1, <2>2, <2>3, <2>4 DEF TypeOK
<1> QED
  BY <1>1, <1>2, <1>3, <1>4 DEF WorkerStep

(* Stop, crash and restart of an ingestor, and the timer of JetStream. *)
LEMMA ProcessWellFormed ==
    ASSUME WellFormed, NEW i \in Ingestors, Stop(i) \/ Exit(i) \/ Crash(i) \/ Restart(i)
    PROVE  WellFormed'
<1> USE Bounds DEF WellFormed
<1>1. TableType' /\ StreamType' /\ CallerType' /\ Numbered' /\ RequestsHaveTask'
      /\ Used' = Used /\ msgTask' = msgTask
  BY DEF TypeOK, TableType, StreamType, CallerType, Numbered, RequestsHaveTask, Used,
         Stop, Exit, Crash, Restart, rowVars, msgVars
<1>2. CounterType'
  BY ConstantsAssumption DEF TypeOK, CounterType, Stop, Exit, Crash, Restart, Down
<1>3. CASE Stop(i) \/ Restart(i)
  BY <1>1, <1>2, <1>3
  DEF TypeOK, ConsumerType, ChanType, WorkerType, ConsumerHandles, WorkerHandles, Stop, Restart
<1>4. CASE Down(i)
  <2>1. ConsumerType' /\ ConsumerHandles'
    BY <1>1, <1>4 DEF Down, TypeOK, ConsumerType, ConsumerHandles, AtLoop, Statuses
  <2>2. WorkerType'
    BY <1>4 DEF Down, TypeOK, WorkerType, IdleWorker
  <2>3. ChanType'
    BY <1>4 DEF Down, TypeOK, ChanType
  <2>4. \A j \in Ingestors : taskChan'[j] = <<>> \/ taskChan'[j] = taskChan[j]
    BY <1>4 DEF Down, TypeOK, ChanType
  <2>5. \A j \in Ingestors : \A v \in Workers :
           worker'[j][v].pc \in {"run", "ack"} => worker'[j][v] = worker[j][v]
    BY <1>4 DEF Down, TypeOK, WorkerType, IdleWorker
  <2>6. WorkerHandles'
    BY <1>1, <2>4, <2>5 DEF WorkerHandles
  <2> QED BY <1>1, <1>2, <2>1, <2>2, <2>3, <2>6 DEF TypeOK
<1> QED
  BY <1>3, <1>4 DEF Exit, Crash

LEMMA TimerWellFormed ==
    ASSUME WellFormed, NEW m \in Msgs, AckWaitExpires(m)
    PROVE  WellFormed'
<1> USE Bounds DEF WellFormed, AckWaitExpires
<1>1. TableType' /\ CallerType' /\ ConsumerType' /\ ChanType' /\ WorkerType' /\ CounterType'
  BY DEF TypeOK, TableType, CallerType, ConsumerType, ChanType, WorkerType, CounterType,
         rowVars, ingVars
<1>2. ConsumerHandles' /\ WorkerHandles' /\ RequestsHaveTask' /\ Used' = Used
  BY DEF Used, ConsumerHandles, WorkerHandles, RequestsHaveTask, ingVars
<1>3. StreamType' /\ Numbered'
  BY <1>2, RequeuedProperties DEF TypeOK, StreamType, Numbered
<1> QED BY <1>1, <1>2, <1>3 DEF TypeOK

(***************************************************************************)
(* What a step does to the stream and to the requests, whatever the status *)
(* of a task: only a message somebody is about to ack is acked, what was   *)
(* lost to a fault stays lost, and a request about to publish still is, or *)
(* has published, or has failed.                                           *)
(***************************************************************************)
Gone == {"dead", "evicted", "pulled"}

StreamKept ==
    /\ failedCalls \subseteq failedCalls'
    /\ \A m \in Used : msgTask'[m] = msgTask[m]
    /\ \A m \in Msgs : msgState[m] \in Gone => msgState'[m] \in Gone
    /\ \A m \in Msgs : Live(m) /\ m \notin Settling
                         => msgState'[m] \in {"ready", "pending"} \cup Gone

PublishKept(t) ==
    BeingPublished(t) =>
        \/ BeingPublished(t)'
        \/ t \in failedCalls'
        \/ \E n \in Msgs \ Used : msgTask'[n] = t /\ msgState'[n] = "ready"

(* A message that was somebody's business is published, and before it is    *)
(* about to be acked it is started.                                         *)
LEMMA StartedUsed ==
    ASSUME WellFormed
    PROVE  Started \subseteq Used /\ Settling \subseteq Started
BY DEF WellFormed, ConsumerHandles, WorkerHandles, Started, Settling

LEMMA PublishStreamKept ==
    ASSUME WellFormed, NEW u \in TaskIds \cup {Other}, PublishTask(u),
           UNCHANGED failedCalls
    PROVE  /\ StreamKept
           /\ \E n \in Msgs \ Used : msgTask'[n] = u /\ msgState'[n] = "ready"
<1> USE DEF WellFormed
<1>1. /\ \A k \in Used : msgTask'[k] = msgTask[k]
      /\ \A k \in Used : msgState'[k] = msgState[k] \/ msgState'[k] = "evicted"
      /\ \E n \in Msgs \ Used : msgTask'[n] = u /\ msgState'[n] = "ready"
  BY PublishProperties
<1>2. \A k \in Msgs : msgState[k] # "free" => k \in Used
  BY DEF Numbered
<1> QED BY <1>1, <1>2 DEF StreamKept, Gone, Live

LEMMA CallersStreamKept ==
    ASSUME WellFormed, NEW c \in Callers, CallerStep(c) \/ Request(c)
    PROVE  StreamKept /\ \A t \in TaskIds : PublishKept(t)
<1> USE DEF WellFormed
<1>1. ASSUME UNCHANGED <<msgVars, failedCalls>>,
             caller[c].pc # "publish",
             \A a \in Callers \ {c} : caller'[a] = caller[a]
      PROVE  StreamKept /\ \A t \in TaskIds : PublishKept(t)
  BY <1>1 DEF StreamKept, PublishKept, BeingPublished, Live, msgVars
<1>2. CASE \E d \in Docs : CheckTask(c, d)
  BY <1>1, <1>2 DEF CheckTask, Begin, TypeOK, CallerType
<1>3. CASE \E u \in TaskIds : CreateTask(c, u)
  BY <1>1, <1>3 DEF CreateTask, TypeOK, CallerType
<1>4. CASE RestartTask(c)
  BY <1>1, <1>4 DEF RestartTask, TypeOK, CallerType
<1>5. CASE PublishIngestion(c)
  <2> USE <1>5 DEF PublishIngestion
  <2>1. caller[c].task \in TaskIds
    BY DEF RequestsHaveTask
  <2>2. /\ StreamKept
        /\ \E n \in Msgs \ Used : msgTask'[n] = caller[c].task /\ msgState'[n] = "ready"
    BY <2>1, PublishStreamKept
  <2>3. \A a \in Callers \ {c} : caller'[a] = caller[a]
    BY DEF TypeOK, CallerType
  <2> QED BY <2>2, <2>3 DEF PublishKept, BeingPublished
<1>6. CASE PublishFails(c)
  <2> USE <1>6 DEF PublishFails, msgVars
  <2>1. StreamKept
    BY DEF StreamKept, Live
  <2>2. caller[c].task \in failedCalls' /\ \A a \in Callers \ {c} : caller'[a] = caller[a]
    BY DEF TypeOK, CallerType
  <2> QED BY <2>1, <2>2 DEF PublishKept, BeingPublished
<1>7. CASE \E u \in TaskIds : \E pc \in {"stop", "adminStop"} : StopTask(c, u, pc)
  BY <1>1, <1>7 DEF StopTask, Begin, TypeOK, CallerType
<1>8. CASE SetStopping(c)
  BY <1>1, <1>8 DEF SetStopping, TypeOK, CallerType
<1>9. CASE PublishStop(c)
  <2> USE <1>9 DEF PublishStop
  <2>1. \A a \in Callers \ {c} : caller'[a] = caller[a]
    BY DEF TypeOK, CallerType
  <2>2. CASE UNCHANGED msgVars
    BY <1>1, <2>1, <2>2
  <2>3. CASE PublishTask(Other)
    BY <2>1, <2>3, PublishStreamKept DEF PublishKept, BeingPublished
  <2> QED BY <2>2, <2>3
<1>10. CASE \E u \in TaskIds : CheckRemovable(c, u)
  BY <1>1, <1>10 DEF CheckRemovable, Begin, TypeOK, CallerType
<1>11. CASE RemoveTask(c)
  BY <1>1, <1>11 DEF RemoveTask, TypeOK, CallerType
<1>12. CASE PublishMessageToQueue(c)
  BY <1>12, PublishStreamKept DEF PublishMessageToQueue, PublishKept, BeingPublished
<1>13. CASE \E m \in Msgs : PullMessageFromQueue(c, m)
  BY <1>13 DEF PullMessageFromQueue, StreamKept, PublishKept, BeingPublished, Live, Gone,
               TypeOK, StreamType
<1> QED
  BY <1>2, <1>3, <1>4, <1>5, <1>6, <1>7, <1>8, <1>9, <1>10, <1>11, <1>12, <1>13
  DEF CallerStep, Request

LEMMA IngestorsStreamKept ==
    ASSUME WellFormed,
           \/ \E i \in Ingestors : ConsumerStep(i) \/ StartReturns(i)
           \/ \E i \in Ingestors : \E w \in Workers : WorkerStep(i, w)
           \/ \E i \in Ingestors : Stop(i) \/ Exit(i) \/ Crash(i) \/ Restart(i)
           \/ \E m \in Msgs : AckWaitExpires(m)
    PROVE  StreamKept /\ UNCHANGED <<caller, msgTask, published>>
<1> USE DEF WellFormed
<1>1. ASSUME UNCHANGED <<msgState, msgTask>>, failedCalls \subseteq failedCalls'
      PROVE  StreamKept
  BY <1>1 DEF StreamKept, Live
<1>2. ASSUME NEW i \in Ingestors, ConsumerStep(i) \/ StartReturns(i)
      PROVE  StreamKept /\ UNCHANGED <<caller, msgTask, published>>
  <2>1. CASE GetMessages(i)
    BY <2>1 DEF GetMessages, StreamKept, Live, Gone, TypeOK, StreamType
  <2>2. CASE \E m \in Msgs : SelectTask(i, m)
    BY <1>1, <2>2 DEF SelectTask, msgVars
  <2>3. CASE SetRunningByIngestor(i)
    BY <1>1, <2>3 DEF SetRunningByIngestor, WriteFails, msgVars
  <2>4. CASE PushTask(i)
    <3>1. CASE UNCHANGED msgState
      BY <1>1, <2>4, <3>1 DEF PushTask
    <3>2. CASE Nack(consumer[i].msg)
      <4>1. consumer[i].msg \in Msgs
        BY <2>4 DEF PushTask, ConsumerHandles, Used
      <4> QED BY <2>4, <3>2, <4>1, RequeuedProperties
              DEF PushTask, Nack, StreamKept, Live, Gone, TypeOK, StreamType
    <3> QED BY <2>4, <3>1, <3>2 DEF PushTask
  <2>5. CASE AckSkipped(i)
    <3>1. consumer[i].msg \in Msgs /\ consumer[i].msg \in Settling
      BY <2>5 DEF AckSkipped, ConsumerHandles, Used, Settling
    <3> QED BY <2>5, <3>1, AckedProperties
            DEF AckSkipped, StreamKept, Live, Gone, TypeOK, StreamType
  <2>6. CASE StartReturns(i)
    BY <1>1, <2>6 DEF StartReturns, msgVars
  <2> QED BY <1>2, <2>1, <2>2, <2>3, <2>4, <2>5, <2>6 DEF ConsumerStep
<1>3. ASSUME NEW i \in Ingestors, NEW w \in Workers, WorkerStep(i, w)
      PROVE  StreamKept /\ UNCHANGED <<caller, msgTask, published>>
  <2>1. CASE TakeTask(i, w) \/ WorkerExit(i, w)
    BY <1>1, <2>1 DEF TakeTask, WorkerExit, msgVars
  <2>2. CASE ExecuteTask(i, w)
    BY <1>1, <2>2 DEF ExecuteTask, WriteFails, msgVars
  <2>3. CASE AckOrNack(i, w)
    <3>1. worker[i][w].msg \in Msgs /\ worker[i][w].msg \in Settling
      BY <2>3 DEF AckOrNack, WorkerHandles, Used, Settling
    <3> QED BY <1>1, <2>3, <3>1, AckedProperties
            DEF AckOrNack, StreamKept, Live, Gone, TypeOK, StreamType
  <2> QED BY <1>3, <2>1, <2>2, <2>3 DEF WorkerStep
<1>4. ASSUME NEW i \in Ingestors, Stop(i) \/ Exit(i) \/ Crash(i) \/ Restart(i)
      PROVE  StreamKept /\ UNCHANGED <<caller, msgTask, published>>
  BY <1>1, <1>4 DEF Stop, Exit, Crash, Restart, msgVars
<1>5. ASSUME NEW m \in Msgs, AckWaitExpires(m)
      PROVE  StreamKept /\ UNCHANGED <<caller, msgTask, published>>
  BY <1>5, RequeuedProperties
  DEF AckWaitExpires, StreamKept, Live, Gone, TypeOK, StreamType
<1> QED BY <1>2, <1>3, <1>4, <1>5

LEMMA StreamStep ==
    ASSUME WellFormed, Next
    PROVE  StreamKept /\ \A t \in TaskIds : PublishKept(t)
<1>1. CASE UNCHANGED <<caller, msgTask, published>> /\ StreamKept
  BY <1>1 DEF PublishKept, BeingPublished
<1> QED BY <1>1, CallersStreamKept, IngestorsStreamKept DEF Next

(***************************************************************************)
(* Which messages a step starts, and which it decides to ack.              *)
(***************************************************************************)
(* What becomes of a worker in a step that does not take a message.         *)
WorkerBecomes(i, w, r) ==
    \/ worker[i][w].pc = "run"  /\ r.pc = "ack"    /\ r.msg = worker[i][w].msg
    \/ worker[i][w].pc = "ack"  /\ r.pc = "idle"   /\ r.msg = NoMsg
    \/ worker[i][w].pc = "idle" /\ r.pc = "exited" /\ r.msg = worker[i][w].msg

LEMMA WorkerResult ==
    ASSUME TypeOK, NEW i \in Ingestors, NEW w \in Workers,
           ExecuteTask(i, w) \/ AckOrNack(i, w) \/ WorkerExit(i, w)
    PROVE  \E r : worker' = [worker EXCEPT ![i][w] = r] /\ WorkerBecomes(i, w, r)
<1>0. worker[i][w] \in [pc : {"idle", "run", "ack", "exited"}, msg : Msgs \cup {NoMsg},
                        outcome : Outcomes \cup {"none"}]
  BY DEF TypeOK, WorkerType
<1>1. CASE ExecuteTask(i, w)
  <2> DEFINE t == msgTask[worker[i][w].msg]
  <2>1. PICK out \in OutcomesOf(i, t) :
          /\ (SetStatus(t, out) /\ UNCHANGED failedCalls) \/ WriteFails(t)
          /\ worker' = [worker EXCEPT ![i][w] = [@ EXCEPT !.pc = "ack", !.outcome = out]]
    BY <1>1, Zenon DEF ExecuteTask
  <2> DEFINE r == [worker[i][w] EXCEPT !.pc = "ack", !.outcome = out]
  <2>2. worker[i][w].pc = "run"
    BY <1>1, Zenon DEF ExecuteTask
  <2>3. r.pc = "ack" /\ r.msg = worker[i][w].msg
    BY <1>0
  <2>4. worker' = [worker EXCEPT ![i][w] = r]
    BY <2>1
  <2> HIDE DEF r
  <2> QED BY <2>2, <2>3, <2>4 DEF WorkerBecomes
<1>2. CASE AckOrNack(i, w)
  <2>1. /\ worker' = [worker EXCEPT ![i][w] = IdleWorker]
        /\ worker[i][w].pc = "ack" /\ IdleWorker.pc = "idle" /\ IdleWorker.msg = NoMsg
    BY <1>2 DEF AckOrNack, IdleWorker
  <2> QED BY <2>1 DEF WorkerBecomes
<1>3. CASE WorkerExit(i, w)
  <2> DEFINE r == [worker[i][w] EXCEPT !.pc = "exited"]
  <2>1. r.pc = "exited" /\ r.msg = worker[i][w].msg
    BY <1>0
  <2>2. worker' = [worker EXCEPT ![i][w] = r] /\ worker[i][w].pc = "idle"
    BY <1>3 DEF WorkerExit
  <2> HIDE DEF r
  <2> QED BY <2>1, <2>2 DEF WorkerBecomes
<1> QED BY <1>1, <1>2, <1>3

LEMMA StartedStep ==
    ASSUME WellFormed, Next, NEW m \in Started', m \notin Started
    PROVE  \/ \E i \in Ingestors :
                 SelectTask(i, m) /\ consumer'[i].pc \in {"push", "ack"}
           \/ \E i \in Ingestors : SetRunningByIngestor(i) /\ consumer[i].msg = m
<1> USE DEF WellFormed
<1>1. m \in Msgs
  BY DEF Started
<1>2. ASSUME UNCHANGED ingVars PROVE FALSE
  BY <1>2 DEF ingVars, Started
<1>3. ASSUME NEW i \in Ingestors, Stop(i) \/ Restart(i) PROVE FALSE
  BY <1>3 DEF Stop, Restart, Started
<1>4. ASSUME NEW i \in Ingestors, Down(i) PROVE FALSE
  <2>1. \A j \in Ingestors :
           /\ consumer'[j] = consumer[j] \/ consumer'[j].pc = "loop"
           /\ taskChan'[j] = taskChan[j] \/ taskChan'[j] = <<>>
           /\ \A w \in Workers : worker'[j][w] = worker[j][w] \/ worker'[j][w].pc = "idle"
    BY <1>4 DEF Down, AtLoop, IdleWorker, TypeOK, ConsumerType, ChanType, WorkerType
  <2>2. \A j \in Ingestors : \A k \in DOMAIN taskChan'[j] : taskChan'[j] = taskChan[j]
    BY <2>1
  <2> QED BY <2>1, <2>2 DEF Started
<1>5. ASSUME NEW i \in Ingestors, GetMessages(i) PROVE FALSE
  BY <1>5 DEF GetMessages, Started
<1>6. ASSUME NEW i \in Ingestors, NEW k \in Msgs, SelectTask(i, k)
      PROVE  k = m /\ consumer'[i].pc \in {"push", "ack"}
  <2>1. /\ UNCHANGED <<taskChan, worker>>
        /\ consumer'[i].msg = k
        /\ \A j \in Ingestors \ {i} : consumer'[j] = consumer[j]
    BY <1>6 DEF SelectTask, TypeOK, ConsumerType
  <2> QED BY <1>1, <2>1 DEF Started
<1>7. ASSUME NEW i \in Ingestors, SetRunningByIngestor(i)
      PROVE  consumer[i].msg = m
  <2>1. /\ UNCHANGED <<taskChan, worker>>
        /\ consumer'[i].msg = consumer[i].msg
        /\ \A j \in Ingestors \ {i} : consumer'[j] = consumer[j]
    BY <1>7 DEF SetRunningByIngestor, TypeOK, ConsumerType
  <2> QED BY <1>1, <2>1 DEF Started
<1>8. ASSUME NEW i \in Ingestors, PushTask(i) PROVE FALSE
  <2>1. /\ UNCHANGED worker
        /\ consumer[i].pc = "push"
        /\ consumer'[i].pc = "loop"
        /\ \A j \in Ingestors \ {i} :
              consumer'[j] = consumer[j] /\ taskChan'[j] = taskChan[j]
    BY <1>8 DEF PushTask, AtLoop, TypeOK, ConsumerType, ChanType
  <2>2. \A k \in DOMAIN taskChan'[i] :
           taskChan'[i][k] = consumer[i].msg
           \/ \E l \in DOMAIN taskChan[i] : taskChan'[i][k] = taskChan[i][l]
    <3>1. taskChan[i] \in Seq(Msgs) /\ consumer[i].msg \in Msgs
      BY <2>1 DEF TypeOK, ChanType, ConsumerHandles, Used
    <3>2. CASE taskChan'[i] = taskChan[i]
      BY <3>2
    <3>3. CASE taskChan'[i] = Append(taskChan[i], consumer[i].msg)
      BY <3>1, <3>3, AppendProperties, LenProperties
    <3>4. taskChan'[i] = taskChan[i] \/ taskChan'[i] = Append(taskChan[i], consumer[i].msg)
      BY <1>8 DEF PushTask, TypeOK, ChanType
    <3> QED BY <3>2, <3>3, <3>4
  <2> QED BY <1>1, <2>1, <2>2 DEF Started
<1>9. ASSUME NEW i \in Ingestors, AckSkipped(i) \/ StartReturns(i) PROVE FALSE
  <2>1. /\ UNCHANGED <<taskChan, worker>>
        /\ consumer'[i].pc \in {"loop", "returned"}
        /\ \A j \in Ingestors \ {i} : consumer'[j] = consumer[j]
    BY <1>9 DEF AckSkipped, StartReturns, AtLoop, TypeOK, ConsumerType
  <2> QED BY <1>1, <2>1 DEF Started
<1>10. ASSUME NEW i \in Ingestors, NEW w \in Workers, TakeTask(i, w) PROVE FALSE
  <2>1. /\ UNCHANGED consumer
        /\ taskChan[i] # <<>> /\ taskChan[i] \in Seq(Msgs)
        /\ taskChan'[i] = Tail(taskChan[i])
        /\ worker'[i][w].msg = Head(taskChan[i])
        /\ \A j \in Ingestors : j # i => taskChan'[j] = taskChan[j]
    BY <1>10 DEF TakeTask, TypeOK, ChanType, WorkerType
  <2>2. \A j \in Ingestors : \A v \in Workers :
           worker'[j][v] = worker[j][v] \/ (j = i /\ v = w)
    BY <1>10 DEF TakeTask, TypeOK, WorkerType
  <2>3. 1 \in DOMAIN taskChan[i] /\ Head(taskChan[i]) = taskChan[i][1]
    BY <2>1
  <2>4. \A k \in DOMAIN taskChan'[i] :
           k + 1 \in DOMAIN taskChan[i] /\ taskChan'[i][k] = taskChan[i][k + 1]
    BY <2>1
  <2>5. ASSUME NEW j \in Ingestors, NEW k \in DOMAIN taskChan'[j]
        PROVE  \E l \in DOMAIN taskChan[j] : taskChan[j][l] = taskChan'[j][k]
    BY <2>1, <2>4
  <2>6. \A j \in Ingestors : \A v \in Workers :
           worker'[j][v] = worker[j][v] \/ worker'[j][v].msg = taskChan[i][1]
    BY <2>1, <2>2, <2>3
  <2> QED BY <1>1, <2>1, <2>3, <2>5, <2>6 DEF Started
<1>11. ASSUME NEW i \in Ingestors, NEW w \in Workers,
              ExecuteTask(i, w) \/ AckOrNack(i, w) \/ WorkerExit(i, w)
       PROVE  FALSE
  <2>1. UNCHANGED consumer /\ UNCHANGED taskChan
    <3>1. CASE ExecuteTask(i, w)
      BY <3>1 DEF ExecuteTask
    <3>2. CASE AckOrNack(i, w) \/ WorkerExit(i, w)
      BY <3>2 DEF AckOrNack, WorkerExit
    <3> QED BY <1>11, <3>1, <3>2
  <2>2. PICK r : worker' = [worker EXCEPT ![i][w] = r] /\ WorkerBecomes(i, w, r)
    BY <1>11, WorkerResult
  <2>3. /\ worker'[i][w] = r
        /\ \A j \in Ingestors : \A v \in Workers :
              worker'[j][v] = worker[j][v] \/ (j = i /\ v = w)
    BY <2>2 DEF TypeOK, WorkerType
  <2> QED BY <1>1, <2>1, <2>2, <2>3 DEF Started, WorkerBecomes
<1>12. ASSUME NEW c \in Callers, CallerStep(c) \/ Request(c) PROVE FALSE
  BY <1>2, <1>12
  DEF CallerStep, Request, CheckTask, CreateTask, RestartTask, PublishIngestion, PublishFails,
      StopTask, SetStopping, PublishStop, CheckRemovable, RemoveTask,
      PublishMessageToQueue, PullMessageFromQueue
<1>13. ASSUME NEW k \in Msgs, AckWaitExpires(k) PROVE FALSE
  BY <1>2, <1>13 DEF AckWaitExpires
<1> QED
  BY <1>3, <1>4, <1>5, <1>6, <1>7, <1>8, <1>9, <1>10, <1>11, <1>12, <1>13
  DEF Next, ConsumerStep, WorkerStep, Exit, Crash

LEMMA SettlingStep ==
    ASSUME WellFormed, Next, NEW m \in Settling', m \notin Settling
    PROVE  \/ \E i \in Ingestors : SelectTask(i, m) /\ consumer'[i].pc = "ack"
           \/ \E i \in Ingestors : /\ SetRunningByIngestor(i)
                                   /\ consumer[i].msg = m /\ consumer[i].seen # "CREATED"
           \/ \E i \in Ingestors : \E w \in Workers : ExecuteTask(i, w) /\ worker[i][w].msg = m
<1> USE DEF WellFormed
<1>1. m \in Msgs
  BY DEF Settling
<1>2. ASSUME UNCHANGED <<consumer, worker>> PROVE FALSE
  BY <1>2 DEF Settling
<1>3. ASSUME NEW i \in Ingestors, Down(i) PROVE FALSE
  <2>1. \A j \in Ingestors :
           /\ consumer'[j] = consumer[j] \/ consumer'[j].pc = "loop"
           /\ \A w \in Workers : worker'[j][w] = worker[j][w] \/ worker'[j][w].pc = "idle"
    BY <1>3 DEF Down, AtLoop, IdleWorker, TypeOK, ConsumerType, WorkerType
  <2> QED BY <2>1 DEF Settling
<1>4. ASSUME NEW i \in Ingestors, NEW k \in Msgs, SelectTask(i, k)
      PROVE  k = m /\ consumer'[i].pc = "ack"
  <2>1. /\ UNCHANGED worker
        /\ consumer'[i].msg = k
        /\ \A j \in Ingestors \ {i} : consumer'[j] = consumer[j]
    BY <1>4 DEF SelectTask, TypeOK, ConsumerType
  <2> QED BY <1>1, <2>1 DEF Settling
<1>5. ASSUME NEW i \in Ingestors, SetRunningByIngestor(i)
      PROVE  consumer[i].msg = m /\ consumer[i].seen # "CREATED"
  <2>1. /\ UNCHANGED worker
        /\ consumer'[i].msg = consumer[i].msg
        /\ consumer[i].seen = "CREATED" => consumer'[i].pc = "push"
        /\ \A j \in Ingestors \ {i} : consumer'[j] = consumer[j]
    BY <1>5 DEF SetRunningByIngestor, TypeOK, ConsumerType
  <2> QED BY <1>1, <2>1 DEF Settling
<1>6. ASSUME NEW i \in Ingestors, PushTask(i) \/ AckSkipped(i) \/ StartReturns(i) PROVE FALSE
  <2>1. /\ UNCHANGED worker
        /\ consumer'[i].pc \in {"loop", "returned"}
        /\ \A j \in Ingestors \ {i} : consumer'[j] = consumer[j]
    BY <1>6 DEF PushTask, AckSkipped, StartReturns, AtLoop, TypeOK, ConsumerType
  <2> QED BY <1>1, <2>1 DEF Settling
<1>7. ASSUME NEW i \in Ingestors, NEW w \in Workers,
             TakeTask(i, w) \/ AckOrNack(i, w) \/ WorkerExit(i, w)
      PROVE  FALSE
  <2>1. CASE TakeTask(i, w)
    <3>1. /\ UNCHANGED consumer
          /\ worker'[i][w].pc = "run"
          /\ \A j \in Ingestors : \A v \in Workers :
                worker'[j][v] = worker[j][v] \/ (j = i /\ v = w)
      BY <2>1 DEF TakeTask, TypeOK, WorkerType
    <3> QED BY <1>1, <3>1 DEF Settling
  <2>2. CASE AckOrNack(i, w) \/ WorkerExit(i, w)
    <3>1. UNCHANGED consumer /\ worker[i][w].pc # "run"
      BY <2>2 DEF AckOrNack, WorkerExit
    <3>2. PICK r : worker' = [worker EXCEPT ![i][w] = r] /\ r.pc \in {"idle", "exited"}
      BY <2>2, <3>1, WorkerResult DEF WorkerBecomes
    <3>3. /\ worker'[i][w] = r
          /\ \A j \in Ingestors : \A v \in Workers :
                worker'[j][v] = worker[j][v] \/ (j = i /\ v = w)
      BY <3>2 DEF TypeOK, WorkerType
    <3> QED BY <1>1, <3>1, <3>2, <3>3 DEF Settling
  <2> QED BY <1>7, <2>1, <2>2
<1>8. ASSUME NEW i \in Ingestors, NEW w \in Workers, ExecuteTask(i, w)
      PROVE  worker[i][w].msg = m
  <2>1. UNCHANGED consumer /\ worker[i][w].pc = "run"
    BY <1>8, Zenon DEF ExecuteTask
  <2>2. PICK r : /\ worker' = [worker EXCEPT ![i][w] = r]
                 /\ r.msg = worker[i][w].msg \/ r.pc \in {"idle", "exited"}
    BY <1>8, WorkerResult DEF WorkerBecomes
  <2>3. /\ worker'[i][w] = r
        /\ \A j \in Ingestors : \A v \in Workers :
              worker'[j][v] = worker[j][v] \/ (j = i /\ v = w)
    BY <2>2 DEF TypeOK, WorkerType
  <2> QED BY <1>1, <2>1, <2>2, <2>3 DEF Settling
<1>9. ASSUME NEW c \in Callers, CallerStep(c) \/ Request(c) PROVE FALSE
  BY <1>2, <1>9
  DEF CallerStep, Request, CheckTask, CreateTask, RestartTask, PublishIngestion, PublishFails,
      StopTask, SetStopping, PublishStop, CheckRemovable, RemoveTask,
      PublishMessageToQueue, PullMessageFromQueue, ingVars
<1>10. ASSUME NEW k \in Msgs, AckWaitExpires(k) PROVE FALSE
  BY <1>2, <1>10 DEF AckWaitExpires, ingVars
<1>11. ASSUME NEW i \in Ingestors, GetMessages(i) \/ Stop(i) \/ Restart(i) PROVE FALSE
  BY <1>2, <1>11 DEF GetMessages, Stop, Restart
<1> QED
  BY <1>3, <1>4, <1>5, <1>6, <1>7, <1>8, <1>9, <1>10, <1>11
  DEF Next, ConsumerStep, WorkerStep, Exit, Crash

(***************************************************************************)
(* Who makes a task created or running: a request that is about to publish *)
(* it, and a consumer that has seen it created.                            *)
(***************************************************************************)
LEMMA StatusStep ==
    ASSUME WellFormed, Next, NEW t \in TaskIds, status'[t] \in {"CREATED", "RUNNING"}
    PROVE  \/ status'[t] = status[t]
           \/ BeingPublished(t)'
           \/ /\ status'[t] = "RUNNING"
              /\ \E i \in Ingestors : /\ SetRunningByIngestor(i)
                                      /\ consumer[i].seen = "CREATED"
                                      /\ msgTask[consumer[i].msg] = t
<1> USE DEF WellFormed
<1> SUFFICES ASSUME status'[t] # status[t]
             PROVE  \/ BeingPublished(t)'
                    \/ /\ status'[t] = "RUNNING"
                       /\ \E i \in Ingestors : /\ SetRunningByIngestor(i)
                                               /\ consumer[i].seen = "CREATED"
                                               /\ msgTask[consumer[i].msg] = t
  OBVIOUS
<1>1. status \in [TaskIds -> Statuses]
  BY DEF TypeOK, TableType
<1>2. ASSUME NEW u \in TaskIds, NEW s \in Statuses, SetStatus(u, s)
      PROVE  t = u /\ status'[t] = s
  BY <1>1, <1>2, SetStatusProperties
<1>3. ASSUME NEW c \in Callers, NEW u \in TaskIds, CreateTask(c, u)
      PROVE  BeingPublished(t)'
  BY <1>1, <1>3 DEF CreateTask, BeingPublished, TypeOK, CallerType
<1>4. ASSUME NEW c \in Callers, RestartTask(c)
      PROVE  BeingPublished(t)'
  <2>1. caller[c].task \in TaskIds /\ "CREATED" \in Statuses
    BY <1>4 DEF RestartTask, RequestsHaveTask, Statuses, InTable
  <2>2. t = caller[c].task
    BY <1>2, <1>4, <2>1 DEF RestartTask
  <2> QED BY <1>4, <2>2 DEF RestartTask, BeingPublished, TypeOK, CallerType
<1>5. ASSUME NEW c \in Callers, SetStopping(c) \/ RemoveTask(c) PROVE FALSE
  <2>1. caller[c].task \in TaskIds /\ {"STOPPED", "STOPPING", "removed"} \subseteq Statuses
    BY <1>5 DEF SetStopping, RemoveTask, RequestsHaveTask, Statuses, InTable, Outcomes
  <2>2. \E s \in {"STOPPED", "STOPPING", "removed"} : SetStatus(caller[c].task, s)
    BY <1>5 DEF SetStopping, RemoveTask
  <2> QED BY <1>2, <2>1, <2>2
<1>6. ASSUME NEW c \in Callers, CallerStep(c) \/ Request(c) PROVE BeingPublished(t)'
  <2>1. CASE UNCHANGED status
    BY <2>1
  <2> QED BY <1>3, <1>4, <1>5, <1>6, <2>1
          DEF CallerStep, Request, CheckTask, PublishIngestion, PublishFails, StopTask,
              PublishStop, CheckRemovable, PublishMessageToQueue, PullMessageFromQueue, rowVars
<1>7. ASSUME NEW i \in Ingestors, SetRunningByIngestor(i)
      PROVE  /\ status'[t] = "RUNNING"
             /\ consumer[i].seen = "CREATED" /\ msgTask[consumer[i].msg] = t
  <2> DEFINE u == msgTask[consumer[i].msg]
             s == IF consumer[i].seen = "CREATED" THEN "RUNNING" ELSE "STOPPED"
  <2>1. u \in TaskIds /\ s \in Statuses
    BY <1>7 DEF SetRunningByIngestor, ConsumerHandles, Statuses, InTable, Outcomes
  <2>2. SetStatus(u, s)
    BY <1>7 DEF SetRunningByIngestor, WriteFails
  <2>3. t = u /\ status'[t] = s
    BY <1>2, <2>1, <2>2
  <2> QED BY <2>3
<1>8. ASSUME NEW i \in Ingestors, NEW w \in Workers, ExecuteTask(i, w) PROVE FALSE
  <2> DEFINE u == msgTask[worker[i][w].msg]
  <2>1. PICK out \in OutcomesOf(i, u) : SetStatus(u, out) \/ WriteFails(u)
    BY <1>8, Zenon DEF ExecuteTask
  <2>2. u \in TaskIds /\ out \in Outcomes /\ Outcomes \subseteq Statuses
    <3>1. worker[i][w].pc = "run"
      BY <1>8, Zenon DEF ExecuteTask
    <3>2. out \in Outcomes
      BY <2>1 DEF OutcomesOf, Outcomes
    <3> QED BY <3>1, <3>2 DEF WorkerHandles, Outcomes, Statuses, InTable
  <2>3. SetStatus(u, out)
    BY <2>1 DEF WriteFails
  <2>4. status'[t] = out
    BY <1>2, <2>2, <2>3
  <2> QED BY <2>2, <2>4 DEF Outcomes
<1>9. ASSUME NEW i \in Ingestors,
             \/ GetMessages(i) \/ \E m \in Msgs : SelectTask(i, m)
             \/ PushTask(i) \/ AckSkipped(i) \/ StartReturns(i)
             \/ \E w \in Workers : TakeTask(i, w) \/ AckOrNack(i, w) \/ WorkerExit(i, w)
             \/ Stop(i) \/ Exit(i) \/ Crash(i) \/ Restart(i)
      PROVE  FALSE
  BY <1>9 DEF GetMessages, SelectTask, PushTask, AckSkipped, StartReturns, TakeTask, AckOrNack,
              WorkerExit, Stop, Exit, Crash, Restart, rowVars
<1>10. ASSUME NEW m \in Msgs, AckWaitExpires(m) PROVE FALSE
  BY <1>10 DEF AckWaitExpires, rowVars
<1> QED
  BY <1>6, <1>7, <1>8, <1>9, <1>10 DEF Next, ConsumerStep, WorkerStep

(***************************************************************************)
(* A task that is answered for by a message not in S is then answered for  *)
(* by one not in T, if the step puts none of the task's messages into T.   *)
(***************************************************************************)
LEMMA AnsweredStep ==
    ASSUME WellFormed, Next, NEW t \in TaskIds, NEW S, NEW T, Settling \subseteq S, T \subseteq Used,
           \A m \in Msgs \ S : IsFor(m, t) /\ Live(m) /\ m \in T => t \in failedCalls',
           Answered(t, S)
    PROVE  \/ BeingPublished(t)'
           \/ \E m \in Msgs \ T : IsFor(m, t)' /\ Live(m)'
           \/ LostToFault(t)'
<1> USE DEF WellFormed
<1>1. StreamKept /\ PublishKept(t)
  BY StreamStep
<1>2. \A k \in Msgs : msgState[k] # "free" => k \in Used
  BY DEF Numbered
<1>3. CASE BeingPublished(t)
  BY <1>1, <1>3 DEF PublishKept, LostToFault, IsFor, Live
<1>4. CASE HasMessage(t, S)
  <2>1. PICK m \in Msgs \ S : IsFor(m, t) /\ Live(m)
    BY <1>4 DEF HasMessage
  <2>2. msgTask'[m] = t
    BY <1>1, <1>2, <2>1 DEF StreamKept, IsFor, Live
  <2>3. msgState'[m] \in {"ready", "pending"} \cup Gone
    BY <1>1, <2>1 DEF StreamKept
  <2> QED BY <2>1, <2>2, <2>3 DEF IsFor, Live, LostToFault, Gone
<1>5. CASE LostToFault(t)
  BY <1>1, <1>2, <1>5 DEF StreamKept, LostToFault, IsFor, Gone
<1> QED BY <1>3, <1>4, <1>5 DEF Answered

(* No step puts an unpublished message into a handle.                       *)
LEMMA HandlesUsed ==
    ASSUME WellFormed, WellFormed', Next
    PROVE  Started' \subseteq Used /\ Settling' \subseteq Used
<1>1. Started' \subseteq Used' /\ Settling' \subseteq Started'
  BY DEF WellFormed, ConsumerHandles, WorkerHandles, Started, Settling
<1>2. Started \subseteq Used
  BY StartedUsed
<1>3. CASE UNCHANGED ingVars
  <2>1. Started' = Started
    BY <1>3 DEF Started, ingVars
  <2> QED BY <1>1, <1>2, <2>1
<1>4. CASE UNCHANGED published
  <2>1. Used' = Used
    BY <1>4 DEF Used
  <2> QED BY <1>1, <2>1
<1>5. ASSUME NEW c \in Callers, CallerStep(c) \/ Request(c) PROVE UNCHANGED ingVars
  BY <1>5
  DEF CallerStep, Request, CheckTask, CreateTask, RestartTask, PublishIngestion, PublishFails,
      StopTask, SetStopping, PublishStop, CheckRemovable, RemoveTask,
      PublishMessageToQueue, PullMessageFromQueue
<1> QED BY <1>3, <1>4, <1>5, IngestorsStreamKept DEF Next

(***************************************************************************)
(* The invariant of the created, of the running and of the seen tasks.     *)
(***************************************************************************)
LEMMA CreatedStaysNew ==
    ASSUME WellFormed, WellFormed', CreatedIsNew, Next
    PROVE  CreatedIsNew'
<1> SUFFICES ASSUME NEW t \in TaskIds, status'[t] = "CREATED", ~BeingPublished(t)'
             PROVE  Answered(t, Started)'
  BY DEF CreatedIsNew, Answered
<1>1. status[t] = "CREATED" /\ Answered(t, Started)
  BY StatusStep DEF CreatedIsNew
<1>2. Settling \subseteq Started /\ Started' \subseteq Used
  BY StartedUsed, HandlesUsed
<1>3. ASSUME NEW m \in Msgs \ Started, IsFor(m, t), m \in Started'
      PROVE  t \in failedCalls'
  <2>1. ASSUME NEW i \in Ingestors, SelectTask(i, m), consumer'[i].pc \in {"push", "ack"}
        PROVE  FALSE
    BY <1>1, <1>3, <2>1, Bounds
    DEF SelectTask, AfterSelect, IsFor, WellFormed, TypeOK, ConsumerType
  <2>2. ASSUME NEW i \in Ingestors, SetRunningByIngestor(i), consumer[i].msg = m
        PROVE  t \in failedCalls'
    <3>1. CASE WriteFails(t)
      BY <3>1 DEF WriteFails
    <3>2. CASE SetStatus(t, IF consumer[i].seen = "CREATED" THEN "RUNNING" ELSE "STOPPED")
      BY <1>1, <3>2 DEF SetStatus, InTable, WellFormed, TypeOK, TableType
    <3> QED BY <1>3, <2>2, <3>1, <3>2 DEF SetRunningByIngestor, IsFor
  <2> QED BY <1>3, <2>1, <2>2, StartedStep
<1> HIDE DEF Started, Settling
<1> QED BY <1>1, <1>2, <1>3, AnsweredStep DEF Answered, HasMessage

LEMMA RunningStaysUnsettled ==
    ASSUME WellFormed, WellFormed', SeenIsNew, RunningIsUnsettled, Next
    PROVE  RunningIsUnsettled'
<1> SUFFICES ASSUME NEW t \in TaskIds, status'[t] = "RUNNING", ~BeingPublished(t)'
             PROVE  Answered(t, Settling)'
  BY DEF RunningIsUnsettled, Answered
<1>1. Answered(t, Settling)
  <2>1. CASE status[t] = "RUNNING"
    BY <2>1 DEF RunningIsUnsettled
  <2>2. ASSUME NEW i \in Ingestors, SetRunningByIngestor(i),
               consumer[i].seen = "CREATED", msgTask[consumer[i].msg] = t
        PROVE  Answered(t, Settling)
    <3>1. Answered(t, Started)
      BY <2>2 DEF SeenIsNew, SetRunningByIngestor
    <3> QED BY <3>1, StartedUsed DEF Answered, HasMessage
  <2> QED BY <2>1, <2>2, StatusStep
<1>2. Settling' \subseteq Used
  BY HandlesUsed
<1>3. ASSUME NEW m \in Msgs \ Settling, IsFor(m, t), m \in Settling'
      PROVE  t \in failedCalls'
  <2>1. ASSUME NEW s \in {"STOPPED"} \cup Outcomes, SetStatus(t, s) PROVE FALSE
    BY <2>1 DEF SetStatus, InTable, Outcomes, WellFormed, TypeOK, TableType
  <2>2. ASSUME WriteFails(t) PROVE t \in failedCalls'
    BY <2>2 DEF WriteFails
  <2>3. ASSUME NEW i \in Ingestors, SelectTask(i, m), consumer'[i].pc = "ack"
        PROVE  FALSE
    BY <1>3, <2>3, Bounds
    DEF SelectTask, AfterSelect, IsFor, WellFormed, TypeOK, ConsumerType, rowVars
  <2>4. ASSUME NEW i \in Ingestors, SetRunningByIngestor(i),
               consumer[i].msg = m, consumer[i].seen # "CREATED"
        PROVE  t \in failedCalls'
    <3>1. SetStatus(t, "STOPPED") \/ WriteFails(t)
      BY <1>3, <2>4 DEF SetRunningByIngestor, IsFor
    <3> QED BY <2>1, <2>2, <3>1
  <2>5. ASSUME NEW i \in Ingestors, NEW w \in Workers, ExecuteTask(i, w), worker[i][w].msg = m
        PROVE  t \in failedCalls'
    <3>1. PICK out \in OutcomesOf(i, msgTask[worker[i][w].msg]) :
                  \/ SetStatus(msgTask[worker[i][w].msg], out)
                  \/ WriteFails(msgTask[worker[i][w].msg])
      BY <2>5, Zenon DEF ExecuteTask
    <3>2. out \in Outcomes
      BY <3>1 DEF OutcomesOf, Outcomes
    <3> QED BY <1>3, <2>1, <2>2, <2>5, <3>1, <3>2 DEF IsFor
  <2> QED BY <1>3, <2>3, <2>4, <2>5, SettlingStep
<1> QED BY <1>1, <1>2, <1>3, AnsweredStep DEF Answered, HasMessage

LEMMA SeenStaysNew ==
    ASSUME WellFormed, WellFormed', CreatedIsNew', OneIngestor, SeenIsNew, Next
    PROVE  SeenIsNew'
<1> SUFFICES ASSUME NEW i \in Ingestors, consumer'[i].pc = "write", consumer'[i].seen = "CREATED"
             PROVE  Answered(msgTask[consumer[i].msg], Started)'
  BY DEF SeenIsNew
<1>1. PICK t \in TaskIds : t = msgTask'[consumer'[i].msg]
  BY DEF WellFormed, ConsumerHandles
<1>2. \A j \in Ingestors : j = i
  BY DEF OneIngestor
<1>3. CASE \E m \in Msgs : SelectTask(i, m)
  <2>1. status'[t] = "CREATED"
    BY <1>1, <1>3 DEF SelectTask, AfterSelect, WellFormed, TypeOK, ConsumerType, rowVars, msgVars
  <2> QED BY <1>1, <2>1 DEF CreatedIsNew, Answered, HasMessage
<1>4. CASE consumer'[i] = consumer[i]
  <2>1. Started' \subseteq Started
    <3>1. ASSUME NEW m \in Msgs, SelectTask(i, m) PROVE FALSE
      BY <1>4, <3>1 DEF SelectTask
    <3>2. ASSUME SetRunningByIngestor(i) PROVE FALSE
      BY <1>4, <3>2 DEF SetRunningByIngestor, WellFormed, TypeOK, ConsumerType
    <3> QED BY <1>2, <3>1, <3>2, StartedStep DEF Started
  <2>2. consumer[i].msg \in Used
    BY <1>4 DEF WellFormed, ConsumerHandles
  <2>3. t = msgTask[consumer[i].msg]
    BY <1>1, <1>4, <2>2, StreamStep DEF StreamKept
  <2>4. Answered(t, Started)
    BY <1>4, <2>3 DEF SeenIsNew
  <2>5. Settling \subseteq Started /\ Started' \subseteq Used
    BY StartedUsed, HandlesUsed
  <2>6. \/ BeingPublished(t)'
        \/ \E m \in Msgs \ Started' : IsFor(m, t)' /\ Live(m)'
        \/ LostToFault(t)'
    BY <1>1, <2>1, <2>4, <2>5, AnsweredStep
  <2> QED BY <1>1, <2>6 DEF Answered, HasMessage
<1>5. CASE UNCHANGED consumer
  BY <1>4, <1>5
<1>6. ASSUME NEW j \in Ingestors,
             \/ SetRunningByIngestor(j) \/ PushTask(j) \/ AckSkipped(j)
             \/ StartReturns(j) \/ Down(j)
      PROVE  FALSE
  BY <1>2, <1>6 DEF SetRunningByIngestor, PushTask, AckSkipped, StartReturns, Down, AtLoop,
                    WellFormed, TypeOK, ConsumerType
<1>7. ASSUME NEW c \in Callers, CallerStep(c) \/ Request(c) PROVE UNCHANGED consumer
  BY <1>7
  DEF CallerStep, Request, CheckTask, CreateTask, RestartTask, PublishIngestion, PublishFails,
      StopTask, SetStopping, PublishStop, CheckRemovable, RemoveTask,
      PublishMessageToQueue, PullMessageFromQueue, ingVars
<1>8. ASSUME NEW j \in Ingestors,
             \/ GetMessages(j) \/ Stop(j) \/ Restart(j)
             \/ \E w \in Workers : WorkerStep(j, w)
      PROVE  UNCHANGED consumer
  BY <1>8, Zenon DEF GetMessages, Stop, Restart, WorkerStep, TakeTask, ExecuteTask, AckOrNack,
                     WorkerExit
<1>9. ASSUME NEW m \in Msgs, AckWaitExpires(m) PROVE UNCHANGED consumer
  BY <1>9 DEF AckWaitExpires, ingVars
<1> QED BY <1>2, <1>3, <1>5, <1>6, <1>7, <1>8, <1>9
        DEF Next, ConsumerStep, Exit, Crash

(* The seeded tasks have a message that nobody has fetched yet. *)
LEMMA InitIInv == Init => IInv
<1> SUFFICES ASSUME Init PROVE IInv
  OBVIOUS
<1> USE Bounds DEF Init
<1>1. TableType /\ StreamType
  <2>1. Seeded \subseteq TaskIds /\ published \in 0..MaxMsgs
    BY ConstantsAssumption DEF MaxMsgs
  <2>2. TableType
    BY DEF TableType, Statuses, InTable
  <2>3. StreamType
    BY <2>1 DEF StreamType, MsgStates
  <2> QED BY <2>2, <2>3
<1>2. CallerType /\ ConsumerType /\ WorkerType
  BY DEF CallerType, ConsumerType, WorkerType, Idle, AtLoop, IdleWorker, Statuses
<1>3. ChanType /\ CounterType
  BY ConstantsAssumption DEF ChanType, CounterType
<1>4. Numbered /\ ConsumerHandles /\ WorkerHandles /\ RequestsHaveTask
  BY DEF Numbered, Used, Msgs, ConsumerHandles, WorkerHandles, RequestsHaveTask,
         Idle, AtLoop, IdleWorker
<1>5. CreatedIsNew
  <2> SUFFICES ASSUME NEW t \in TaskIds, status[t] = "CREATED"
               PROVE  \E m \in Msgs \ Started : IsFor(m, t) /\ Live(m)
    BY DEF CreatedIsNew, Answered, HasMessage
  <2>1. t \in Seeded
    OBVIOUS
  <2>2. PICK m \in Msgs : msgTask[m] = t
    BY <2>1
  <2>3. msgState[m] = "ready"
    BY <2>2, <1>1 DEF Msgs
  <2>4. Started = {}
    <3>1. /\ \A i \in Ingestors : consumer[i].pc = "loop" /\ DOMAIN taskChan[i] = {}
          /\ \A i \in Ingestors : \A w \in Workers : worker[i][w].pc = "idle"
      BY DEF AtLoop, IdleWorker
    <3> QED BY <3>1 DEF Started
  <2> QED BY <2>2, <2>3, <2>4 DEF IsFor, Live
<1>6. SeenIsNew /\ RunningIsUnsettled
  BY DEF SeenIsNew, RunningIsUnsettled, AtLoop
<1> QED
  BY <1>1, <1>2, <1>3, <1>4, <1>5, <1>6 DEF IInv, WellFormed, TypeOK

(* IInv is inductive. *)
LEMMA NextIInv == IInv /\ [Next]_vars => IInv'
<1> SUFFICES ASSUME IInv, [Next]_vars PROVE IInv'
  OBVIOUS
<1>1. WellFormed /\ CreatedIsNew /\ (OneIngestor => SeenIsNew /\ RunningIsUnsettled)
  BY DEF IInv
<1>2. CASE Next
  <2>1. WellFormed'
    BY <1>1, <1>2, CallersWellFormed, ConsumerWellFormed, WorkerWellFormed,
       ProcessWellFormed, TimerWellFormed DEF Next
  <2>2. CreatedIsNew'
    BY <1>1, <1>2, <2>1, CreatedStaysNew
  <2>3. OneIngestor => SeenIsNew' /\ RunningIsUnsettled'
    BY <1>1, <1>2, <2>1, <2>2, SeenStaysNew, RunningStaysUnsettled
  <2>4. OneIngestor' <=> OneIngestor
    BY DEF OneIngestor
  <2> QED BY <2>1, <2>2, <2>3, <2>4 DEF IInv
<1>3. CASE UNCHANGED vars
  <2>1. WellFormed'
    BY <1>1, <1>3
    DEF WellFormed, TypeOK, TableType, StreamType, CallerType, ConsumerType, ChanType,
        WorkerType, CounterType, Numbered, Used, ConsumerHandles, WorkerHandles,
        RequestsHaveTask, vars
  <2>2. Started' = Started /\ Settling' = Settling
    BY <1>3 DEF Started, Settling, vars
  <2>3. \A t, S : Answered(t, S)' <=> Answered(t, S)
    BY <1>3 DEF Answered, HasMessage, BeingPublished, LostToFault, IsFor, Live, vars
  <2>4. CreatedIsNew' /\ (OneIngestor => SeenIsNew' /\ RunningIsUnsettled')
    <3> HIDE DEF Started, Settling
    <3> QED BY <1>1, <1>3, <2>2, <2>3
            DEF CreatedIsNew, SeenIsNew, RunningIsUnsettled, Answered, HasMessage, vars
  <2> QED BY <2>1, <2>4 DEF IInv, OneIngestor
<1> QED
  BY <1>2, <1>3

(* The invariant of the ingestion processes holds in every reachable state, *)
(* for every number of tasks, requests, ingestors, workers and messages and *)
(* through every fault: what a consumer or worker holds is a message of a   *)
(* task, and a CREATED row has its request or a message that is not started;*)
(* with one ingestor a RUNNING row has one that is not about to be acked.   *)
THEOREM IngestionInvariant == Spec => []IInv
  BY InitIInv, NextIInv, PTL DEF Spec

(* Type correctness of every reachable state: statuses, messages, program   *)
(* counters and the capacity of taskChan.                                   *)
THEOREM TypeCorrect == Spec => []TypeOK
<1>1. IInv => TypeOK
  BY DEF IInv, WellFormed
<1> QED
  BY InitIInv, NextIInv, <1>1, PTL DEF Spec

(* A row that CheckAndCreate left in CREATED is never forgotten: whatever   *)
(* number of requests and ingestors interleave, restart, crash or time out, *)
(* a request is about to publish it or the stream holds a message for it,   *)
(* unless a fault named in LostToFault took that message.                   *)
THEOREM CreatedTaskIsNotForgotten == Spec => []CreatedHasMessage
<1>1. IInv => CreatedHasMessage
  BY DEF IInv, CreatedIsNew, CreatedHasMessage, Answered, HasMessage
<1> QED
  BY InitIInv, NextIInv, <1>1, PTL DEF Spec

(* With one ingestor a task in RUNNING survives the loss of the worker that *)
(* executes it: SetRunningByIngestor writes RUNNING, and executeTask an     *)
(* outcome, before the message is acked, so the stream still holds one,     *)
(* through every fault and for any number of workers and requests.          *)
THEOREM RunningTaskIsNotOrphaned ==
    ASSUME OneIngestor PROVE Spec => []RunningHasMessage
<1>1. IInv => RunningHasMessage
  BY DEF IInv, RunningIsUnsettled, RunningHasMessage, Answered, HasMessage
<1> QED
  BY InitIInv, NextIInv, <1>1, PTL DEF Spec

============================================================================
