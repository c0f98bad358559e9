------------------------- MODULE PregelEngineProofs -------------------------
(***************************************************************************)
(* The graph engine implements the abstract run of a task graph, for every *)
(* graph, every configuration of the engine and every fault: types, the    *)
(* inductive invariant GraphInv, and the refinement step by step.              *)
(***************************************************************************)
EXTENDS PregelEngine, TLAPS

ResultType == {"none", "running", "ok", "err", "interrupt"}

\* An engine has a mode and a durability.
LEMMA EngineFacts ==
  ASSUME engine \in Engines
  PROVE  /\ engine.mode \in {"all", "any"}
         /\ (engine.mode = "all") \in BOOLEAN
  BY EngineAssumption DEF EngineType

\* getNextNodes follows an edge of the node, or the branch in _next.
LEMMA NextNodesFacts ==
  ASSUME NEW n \in Node, route \in Node \cup {End}
  PROVE  /\ NextNodes(n) \subseteq Node
         /\ \A m \in NextNodes(n) : m = route \/ n \in Incoming[m]
  BY EngineAssumption DEF NextNodes, Targets, Incoming, End

\* The tasks of a step are ready nodes of the task graph.
LEMMA TasksReady ==
  ASSUME TypeOK, Whence(done, last, route)
  PROVE  NextTasks \subseteq Abstract!Ready
  <1> USE EngineAssumption
  <1>1. CASE done = {}
    BY <1>1 DEF NextTasks, Abstract!Ready
  <1>2. CASE done # {} /\ engine.mode = "all"
    BY <1>2 DEF NextTasks, Ready, Abstract!Ready
  <1>3. CASE done # {} /\ engine.mode # "all"
    <2>1. last \in done /\ last \in Node /\ NextTasks = NextNodes(last)
      BY <1>3 DEF NextTasks, Whence, TypeOK
    <2>2. ASSUME NEW m \in NextNodes(last)
          PROVE  m \in Node /\ Sources[m] \cap done # {}
      <3>1. m \in Node /\ (m = route \/ last \in Incoming[m])
        BY <2>1, NextNodesFacts DEF TypeOK
      <3>2. CASE last \in Incoming[m]
        BY <2>1, <3>1, <3>2 DEF Sources
      <3>3. CASE m = route
        <4>1. PICK k \in done : route \in Cond[k]
          BY <3>1, <3>3 DEF Whence, End
        <4>2. k \in Node
          BY DEF TypeOK
        <4> QED
          BY <3>1, <3>3, <4>1, <4>2 DEF Sources
      <3> QED
        BY <3>1, <3>2, <3>3
    <2> QED
      BY <1>3, <2>1, <2>2 DEF Abstract!Ready
  <1> QED
    BY <1>1, <1>2, <1>3

\* What Collect makes of the results of a step.
LEMMA CollectFacts ==
  ASSUME TypeOK, Whence(done, last, route), NEW l \in LastOf, NEW r \in Routes(l)
  PROVE  /\ Ok \subseteq Tasks /\ Ok \subseteq Node
         /\ l \in Node \cup {End} /\ r \in Node \cup {End}
         /\ Whence(done \cup Ok, l, r)
  <1> USE EngineAssumption
  <1>1. Ok \subseteq Tasks /\ Ok \subseteq Node
    BY DEF Ok, Tasks
  <1>2. l \in Node \cup {End} /\ (done \cup Ok # {} => l \in done \cup Ok)
    BY <1>1 DEF LastOf, Whence, TypeOK
  <1>3. r = route \/ \E m \in Ok : r \in Cond[m]
    <2>1. CASE Ok \cap Switch = {}
      BY <2>1 DEF Routes
    <2>2. CASE Ok \cap Switch # {}
      BY <2>2 DEF Routes, LastOf
    <2> QED
      BY <2>1, <2>2
  <1>4. r \in Node \cup {End}
    BY <1>1, <1>3 DEF TypeOK
  <1>5. r # End => \E m \in done \cup Ok : r \in Cond[m]
    BY <1>3 DEF Whence
  <1> QED
    BY <1>1, <1>2, <1>4, <1>5 DEF Whence

-----------------------------------------------------------------------------
(* The invariant is kept: one lemma per action *)

\* A checkpoint of a step holds channels and nothing else.
LEMMA StepCheckpointFacts ==
  ASSUME NEW c \in SUBSET Node
  PROVE  /\ StepCheckpoint(c) \in CheckpointType
         /\ StepCheckpoint(c).done = {} /\ StepCheckpoint(c).route = End
         /\ StepCheckpoint(c).last = End /\ StepCheckpoint(c).chans = c
  BY DEF StepCheckpoint, Fresh, CheckpointType

\* What a store is that a step may leave behind.
Kept(cp) == cp \in CheckpointType /\ Whence(cp.done, cp.last, cp.route)

LEMMA StepCheckpointKept ==
  ASSUME NEW c \in SUBSET Node
  PROVE  Kept(StepCheckpoint(c))
  BY StepCheckpointFacts DEF Kept, Whence

\* Returning ends the step: there are no tasks left.
LEMMA ReturnFacts ==
  ASSUME NEW o \in Outcomes, TypeOK, Return(o)
  PROVE  /\ pc' = "idle" /\ outcome' \in Outcomes /\ clean' \in BOOLEAN
         /\ task' \in [Node -> ResultType]
  BY DEF Return, NoTasks, ResultType, TypeOK

LEMMA InitGraphInv == Init => GraphInv
  <1> SUFFICES ASSUME Init PROVE GraphInv
    OBVIOUS
  <1> USE EngineAssumption
  <1>1. TypeOK
    BY DEF Init, TypeOK, NoTasks, Fresh, CheckpointType, Outcomes, End
  <1>2. Whence(done, last, route) /\ Whence(store.done, store.last, store.route)
    BY DEF Init, Whence, Fresh
  <1> QED
    BY <1>1, <1>2 DEF Init, GraphInv

\* Run: the run continues from a checkpoint that knows where it is.
LEMMA RunKeeps ==
  ASSUME GraphInv, Run
  PROVE  GraphInv'
  <1> USE EngineAssumption DEF GraphInv
  <1>1. PICK cp \in {store, Fresh} :
              /\ chans' = Restored(cp.chans) /\ done' = cp.done /\ last' = cp.last
              /\ route' = cp.route /\ clean' \in BOOLEAN
    BY DEF Run, TypeOK
  <1>2. cp \in CheckpointType /\ Whence(cp.done, cp.last, cp.route)
    BY DEF TypeOK, Fresh, CheckpointType, Whence
  <1>3. /\ pc' = "loop" /\ step' = 0 /\ run' \in 0..MaxRuns /\ ctx' = "live"
        /\ deferred' = <<>> /\ outcome' = "none"
        /\ now' = {} /\ UNCHANGED <<engine, task, store, saving, ever>>
    BY DEF Run, TypeOK
  <1>4. TypeOK'
    <2>1. /\ chans' \subseteq Node /\ done' \subseteq Node
          /\ last' \in Node \cup {End} /\ route' \in Node \cup {End}
      BY <1>1, <1>2 DEF CheckpointType, Restored
    <2>2. step' \in 0..RecursionLimit /\ outcome' \in Outcomes
      BY <1>3 DEF Outcomes
    <2>3. deferred' \in Seq(SUBSET Node)
      BY <1>3
    <2> QED
      BY <1>1, <1>3, <2>1, <2>2, <2>3 DEF TypeOK
  <1>5. Whence(done, last, route)'
    BY <1>1, <1>2 DEF Whence
  <1> QED
    BY <1>3, <1>4, <1>5 DEF Whence

\* Whatever else returns from the loop, fails, is cancelled or dies.
LEMMA ReturnKeeps ==
  ASSUME GraphInv, NEW o \in Outcomes, Return(o), Kept(store'),
         saving' \subseteq saving, deferred' \in {deferred, <<>>},
         UNCHANGED <<engine, run, step, done, last, route, chans, ctx, now, ever>>
  PROVE  GraphInv'
  <1> USE DEF GraphInv
  <1>1. /\ pc' = "idle" /\ outcome' \in Outcomes /\ clean' \in BOOLEAN
        /\ task' \in [Node -> ResultType]
    BY ReturnFacts
  <1>2. deferred' \in Seq(SUBSET Node)
    <2>1. <<>> \in Seq(SUBSET Node)
      OBVIOUS
    <2> QED
      BY <2>1 DEF TypeOK
  <1>3. TypeOK'
    BY <1>1, <1>2 DEF TypeOK, Kept, ResultType
  <1> QED
    BY <1>1, <1>3 DEF Whence, Kept

LEMMA StoreKept == GraphInv => Kept(store)
  BY DEF GraphInv, TypeOK, Kept

LEMMA StopLoopKeeps ==
  ASSUME GraphInv, StopLoop
  PROVE  GraphInv'
  BY ReturnKeeps, StoreKept DEF StopLoop, storeVars, Outcomes

LEMMA FinishKeeps ==
  ASSUME GraphInv, Finish
  PROVE  GraphInv'
  <1>1. PICK o \in {"final", "store"} : Return(o)
    BY DEF Finish
  <1>2. store' = store \/ \E k \in DOMAIN deferred : store' = StepCheckpoint(deferred[k])
    <2>1. deferred # <<>> => Len(deferred) \in DOMAIN deferred
      BY DEF GraphInv, TypeOK
    <2> QED
      BY <2>1 DEF Finish, Put
  <1>3. \A k \in DOMAIN deferred : deferred[k] \in SUBSET Node
    BY DEF GraphInv, TypeOK
  <1>4. Kept(store')
    BY <1>2, <1>3, StoreKept, StepCheckpointKept
  <1> QED
    BY <1>1, <1>4, ReturnKeeps DEF Finish, Outcomes

LEMMA InterruptBeforeKeeps ==
  ASSUME GraphInv, InterruptBefore
  PROVE  GraphInv'
  <1>1. PICK o \in {"before", "store"} : Return(o)
    BY DEF InterruptBefore, PutFails
  <1>2. chans \in SUBSET Node /\ store' \in {store, StepCheckpoint(chans)}
    BY DEF GraphInv, TypeOK, InterruptBefore, PutFails, Put
  <1>3. Kept(store')
    BY <1>2, StoreKept, StepCheckpointKept
  <1> QED
    BY <1>1, <1>3, ReturnKeeps DEF InterruptBefore, Outcomes

LEMMA AllFailedKeeps ==
  ASSUME GraphInv, AllFailed
  PROVE  GraphInv'
  BY ReturnKeeps, StoreKept DEF AllFailed, storeVars, Outcomes

LEMMA CrashKeeps ==
  ASSUME GraphInv, Crash
  PROVE  GraphInv'
  BY ReturnKeeps, StoreKept DEF Crash, Outcomes

\* The tasks of a new step are ready, and the limit is not reached.
LEMMA StartTasksKeeps ==
  ASSUME GraphInv, StartTasks
  PROVE  GraphInv'
  <1> USE EngineAssumption DEF GraphInv
  <1>1. /\ pc' = "exec" /\ step < RecursionLimit
        /\ task' = [n \in Node |-> IF n \in NextTasks THEN "running" ELSE "none"]
        /\ UNCHANGED <<engine, run, step, done, last, route, chans, ctx, store, saving,
                       deferred, outcome, now, ever, clean>>
    BY DEF StartTasks, InLoop, storeVars, history
  <1>2. TypeOK'
    BY <1>1 DEF TypeOK
  <1>3. Tasks' \subseteq NextTasks
    BY <1>1 DEF Tasks
  <1>4. Abstract!Ready' = Abstract!Ready
    BY <1>1 DEF Abstract!Ready
  <1>5. Tasks' \subseteq Abstract!Ready'
    BY <1>3, <1>4, TasksReady
  <1> QED
    BY <1>1, <1>2, <1>5 DEF Whence

\* A result makes no task of a node that has none.
LEMMA ExecuteNodeKeeps ==
  ASSUME GraphInv, NEW n \in Node, ExecuteNode(n)
  PROVE  GraphInv'
  <1> USE DEF GraphInv
  <1>1. PICK r \in Results(n) : task' = [task EXCEPT ![n] = r]
    BY DEF ExecuteNode
  <1>2. r \in ResultType
    BY DEF Results, ResultType
  <1>3. /\ pc = "exec" /\ task[n] = "running"
        /\ UNCHANGED <<engine, pc, run, step, done, last, route, chans, ctx, store, saving,
                       deferred, outcome, now, ever, clean>>
    BY DEF ExecuteNode, storeVars, history
  <1>4. TypeOK'
    BY <1>1, <1>2, <1>3 DEF TypeOK, ResultType
  <1>5. Tasks' \subseteq Tasks
    BY <1>1, <1>3 DEF Tasks, TypeOK
  <1>6. Abstract!Ready' = Abstract!Ready
    BY <1>3 DEF Abstract!Ready
  <1> QED
    BY <1>3, <1>4, <1>5, <1>6 DEF Whence

\* The checkpoint of an interrupt is where the run is.
LEMMA NodeInterruptKeeps ==
  ASSUME GraphInv, NodeInterrupt
  PROVE  GraphInv'
  <1> USE DEF GraphInv
  <1>a. PICK l \in LastOf : \E r \in Routes(l) :
           /\ Collect(l, r)
           /\ \/ /\ Put(InterruptCheckpoint(chans, done \cup Ok, l, r))
                 /\ Return("interrupt")
              \/ PutFails
    BY DEF NodeInterrupt
  <1>1. PICK r \in Routes(l) :
           /\ Collect(l, r)
           /\ \/ /\ Put(InterruptCheckpoint(chans, done \cup Ok, l, r))
                 /\ Return("interrupt")
              \/ PutFails
    BY <1>a
  <1>2. /\ Ok \subseteq Node
        /\ l \in Node \cup {End} /\ r \in Node \cup {End}
        /\ Whence(done \cup Ok, l, r)
    BY CollectFacts
  <1>3. PICK o \in Outcomes : Return(o)
    BY <1>1 DEF PutFails, Outcomes
  <1>4. /\ pc' = "idle" /\ outcome' \in Outcomes /\ clean' \in BOOLEAN
        /\ task' \in [Node -> ResultType]
    BY <1>3, ReturnFacts
  <1>5. done' = done \cup Ok /\ now' = now \cup Ok /\ ever' = ever \cup Ok /\ last' = l /\ route' = r
    BY <1>1 DEF Collect
  <1>6. store' = store \/ store' = [chans |-> chans, done |-> done \cup Ok, last |-> l, route |-> r]
    BY <1>1 DEF Put, InterruptCheckpoint, PutFails
  <1>7. Kept(store')
    <2>1. CASE store' = store
      BY <2>1, StoreKept
    <2>2. CASE store' = [chans |-> chans, done |-> done \cup Ok, last |-> l, route |-> r]
      <3>1. store' \in CheckpointType
        BY <1>2, <2>2 DEF CheckpointType, TypeOK
      <3>2. store'.done = done \cup Ok /\ store'.last = l /\ store'.route = r
        BY <2>2
      <3> QED
        BY <1>2, <3>1, <3>2 DEF Kept
    <2> QED
      BY <1>6, <2>1, <2>2
  <1>8. UNCHANGED <<engine, run, step, chans, ctx, saving, deferred>>
    BY DEF NodeInterrupt
  <1>9. TypeOK'
    BY <1>2, <1>4, <1>5, <1>7, <1>8 DEF TypeOK, Kept, ResultType
  <1> QED
    BY <1>2, <1>4, <1>5, <1>7, <1>9 DEF Whence, Kept

\* The end of a superstep with writes, with every durability.
LEMMA ApplyWritesKeeps ==
  ASSUME GraphInv, ApplyWrites
  PROVE  GraphInv'
  <1> USE EngineAssumption DEF GraphInv
  <1>a. PICK l \in LastOf : \E r \in Routes(l) : Collect(l, r)
    BY DEF ApplyWrites
  <1>1. PICK r \in Routes(l) : Collect(l, r)
    BY <1>a
  <1>2. /\ Ok \subseteq Node
        /\ l \in Node \cup {End} /\ r \in Node \cup {End}
        /\ Whence(done \cup Ok, l, r)
    BY CollectFacts
  <1>3. done' = done \cup Ok /\ now' = now \cup Ok /\ ever' = ever \cup Ok /\ last' = l /\ route' = r
    BY <1>1 DEF Collect
  <1>4. /\ chans' = chans \cup Ok /\ chans' \in SUBSET Node /\ pc = "exec"
        /\ SaveStep(chans') /\ UNCHANGED <<engine, run, ctx>>
    BY <1>2 DEF ApplyWrites, StepDone, Written, TypeOK
  <1>5. step < RecursionLimit
    BY <1>4
  <1>6. ASSUME EndStep
        PROVE  /\ pc' \in {"idle", "loop"} /\ step' \in 0..RecursionLimit
               /\ outcome' \in Outcomes /\ clean' \in BOOLEAN
               /\ task' \in [Node -> ResultType]
    <2>1. CASE Ok \cap engine.interruptsAfter # {}
      <3>1. Return("after") /\ UNCHANGED step
        BY <1>6, <2>1 DEF EndStep
      <3> QED
        BY <3>1, ReturnFacts DEF Outcomes, TypeOK
    <2>2. CASE Ok \cap engine.interruptsAfter = {}
      BY <1>5, <1>6, <2>2 DEF EndStep, TypeOK, NoTasks, ResultType
    <2> QED
      BY <2>1, <2>2
  <1>7. /\ pc' \in {"idle", "loop"} /\ step' \in 0..RecursionLimit
        /\ outcome' \in Outcomes /\ clean' \in BOOLEAN
        /\ task' \in [Node -> ResultType]
    <2>1. EndStep \/ (Return("store") /\ UNCHANGED step)
      BY <1>4 DEF SaveStep, PutFails
    <2> QED
      BY <1>6, <2>1, ReturnFacts DEF Outcomes, TypeOK
  <1>8. Kept(store')
    <2>1. store' \in {store, StepCheckpoint(chans')}
      BY <1>4 DEF SaveStep, PutFails, Put
    <2> QED
      BY <1>4, <2>1, StoreKept, StepCheckpointKept
  <1>9. saving' \subseteq [run : 0..MaxRuns, step : 0..RecursionLimit, chans : SUBSET Node]
    BY <1>4 DEF SaveStep, TypeOK
  <1>10. deferred' \in Seq(SUBSET Node)
    <2>1. deferred' = deferred \/ deferred' = Append(deferred, chans')
      BY <1>4 DEF SaveStep
    <2>2. deferred \in Seq(SUBSET Node)
      BY DEF TypeOK
    <2>3. Append(deferred, chans') \in Seq(SUBSET Node)
      BY <1>4, <2>2
    <2> QED
      BY <2>1, <2>2, <2>3
  <1>11. TypeOK'
    BY <1>2, <1>3, <1>4, <1>7, <1>8, <1>9, <1>10 DEF TypeOK, Kept, ResultType
  <1> QED
    BY <1>2, <1>3, <1>7, <1>8, <1>11 DEF Whence, Kept

\* A late save replaces the checkpoint by one that holds channels only.
LEMMA AsyncSaveKeeps ==
  ASSUME GraphInv, NEW s \in saving, AsyncSave(s)
  PROVE  GraphInv'
  <1> USE DEF GraphInv
  <1>1. /\ saving' \subseteq saving
        /\ UNCHANGED <<engine, pc, run, step, done, last, route, chans, task, ctx,
                       deferred, outcome, now, ever, clean>>
    BY DEF AsyncSave, runVars, history
  <1>2. s.chans \in SUBSET Node /\ store' \in {store, StepCheckpoint(s.chans)}
    BY DEF AsyncSave, Put, TypeOK
  <1>3. Kept(store')
    BY <1>2, StoreKept, StepCheckpointKept
  <1>4. TypeOK'
    BY <1>1, <1>3 DEF TypeOK, Kept
  <1>5. Abstract!Ready' = Abstract!Ready /\ Tasks' = Tasks
    BY <1>1 DEF Abstract!Ready, Tasks
  <1> QED
    BY <1>1, <1>3, <1>4, <1>5 DEF Whence, Kept

LEMMA CancelRunKeeps ==
  ASSUME GraphInv, CancelRun
  PROVE  GraphInv'
  <1> USE DEF GraphInv
  <1>1. /\ ctx' = "cancelled"
        /\ UNCHANGED <<engine, pc, run, step, done, last, route, chans, task, store, saving,
                       deferred, outcome, now, ever, clean>>
    BY DEF CancelRun, storeVars, history
  <1>2. TypeOK'
    BY <1>1 DEF TypeOK
  <1>3. Abstract!Ready' = Abstract!Ready /\ Tasks' = Tasks
    BY <1>1 DEF Abstract!Ready, Tasks
  <1> QED
    BY <1>1, <1>2, <1>3 DEF Whence

LEMMA NextGraphInv == GraphInv /\ [Next]_vars => GraphInv'
  <1> SUFFICES ASSUME GraphInv, [Next]_vars PROVE GraphInv'
    OBVIOUS
  <1>1. CASE EngineStep
    BY <1>1, StopLoopKeeps, FinishKeeps, InterruptBeforeKeeps, StartTasksKeeps,
       NodeInterruptKeeps, AllFailedKeeps, ApplyWritesKeeps DEF EngineStep
  <1>2. CASE UNCHANGED vars
    <2>1. Abstract!Ready' = Abstract!Ready /\ Tasks' = Tasks
      BY <1>2 DEF vars, Abstract!Ready, Tasks
    <2> QED
      BY <1>2, <2>1 DEF vars, GraphInv, TypeOK, Whence
  <1> QED
    BY <1>1, <1>2, RunKeeps, ExecuteNodeKeeps, AsyncSaveKeeps, CancelRunKeeps, CrashKeeps
       DEF Next

-----------------------------------------------------------------------------
(* The theorems *)

\* Types, the recursion limit, and that the run and its checkpoint know the last
\* completed node and the node that chose the branch in _next.
THEOREM EngineInvariant == Spec => []GraphInv
  BY InitGraphInv, NextGraphInv, PTL DEF Spec

\* A step of the engine that completes nodes is a superstep of the task graph.
LEMMA NodeInterruptAdvances ==
  ASSUME GraphInv, NodeInterrupt
  PROVE  Abstract!Advance
  <1>1. done' = done \cup Ok /\ UNCHANGED engine
    BY DEF NodeInterrupt, Collect
  <1>2. store'.done \in {store.done, done'}
    BY <1>1 DEF NodeInterrupt, InterruptCheckpoint, Put, PutFails
  <1>3. Ok \subseteq Abstract!Ready
    BY DEF GraphInv, NodeInterrupt, StepDone, Ok, Tasks
  <1> QED
    BY <1>1, <1>2, <1>3 DEF Abstract!Advance

LEMMA ApplyWritesAdvances ==
  ASSUME GraphInv, ApplyWrites
  PROVE  Abstract!Advance
  <1>1. done' = done \cup Ok /\ UNCHANGED engine
    BY DEF ApplyWrites, Collect
  <1>2. store' = store \/ store'.done = {}
    BY DEF ApplyWrites, SaveStep, PutFails, Put, StepCheckpoint, Fresh
  <1>3. Ok \subseteq Abstract!Ready
    BY DEF GraphInv, ApplyWrites, StepDone, Ok, Tasks
  <1> QED
    BY <1>1, <1>2, <1>3 DEF Abstract!Advance

\* Every step of the engine is a step of the task graph or changes nothing there.
LEMMA NextRefines == GraphInv /\ [Next]_vars => [Abstract!Next]_(Abstract!vars)
  <1> SUFFICES ASSUME GraphInv, [Next]_vars PROVE Abstract!Next \/ UNCHANGED Abstract!vars
    OBVIOUS
  <1>1. CASE Run
    BY <1>1 DEF Run, Fresh, Abstract!Next, Abstract!Resume
  <1>2. ASSUME UNCHANGED <<engine, done>>, store' = store \/ store'.done = {}
        PROVE  Abstract!Next \/ UNCHANGED Abstract!vars
    BY <1>2 DEF Abstract!Next, Abstract!Forget, Abstract!vars
  <1>3. CASE Finish
    BY <1>2, <1>3 DEF Finish, Put, StepCheckpoint, Fresh
  <1>4. CASE InterruptBefore
    BY <1>2, <1>4 DEF InterruptBefore, PutFails, Put, StepCheckpoint, Fresh
  <1>5. ASSUME NEW s \in saving, AsyncSave(s)
        PROVE  Abstract!Next \/ UNCHANGED Abstract!vars
    BY <1>2, <1>5 DEF AsyncSave, runVars, Put, StepCheckpoint, Fresh
  <1>6. CASE StopLoop \/ StartTasks \/ AllFailed \/ CancelRun \/ Crash \/ UNCHANGED vars
    BY <1>2, <1>6 DEF StopLoop, StartTasks, AllFailed, CancelRun, Crash, storeVars, vars
  <1>7. ASSUME NEW n \in Node, ExecuteNode(n)
        PROVE  Abstract!Next \/ UNCHANGED Abstract!vars
    BY <1>2, <1>7 DEF ExecuteNode, storeVars
  <1>8. CASE NodeInterrupt
    BY <1>8, NodeInterruptAdvances DEF Abstract!Next
  <1>9. CASE ApplyWrites
    BY <1>9, ApplyWritesAdvances DEF Abstract!Next
  <1> QED
    BY <1>1, <1>3, <1>4, <1>5, <1>6, <1>7, <1>8, <1>9 DEF Next, EngineStep

\* The engine implements the task graph, for every graph: in each run the nodes
\* that finish were ready, and a run that is resumed has lost its finished nodes
\* or goes on from those that some superstep left in a checkpoint, through
\* interrupts, cancels, crashes, failed reads and failed or late saves.
THEOREM EngineImplementsTaskGraph == Spec => ImplementsTaskGraph
  <1>1. Init => Abstract!Init
    BY EngineAssumption DEF Init, Abstract!Init, Fresh
  <1> QED
    BY <1>1, NextRefines, EngineInvariant, PTL DEF Spec, ImplementsTaskGraph, Abstract!Spec

-----------------------------------------------------------------------------
(* What a step executes, what the channels hold and where a resumed run goes on *)

\* Results of tasks are results of tasks.
LEMMA NodeTypes ==
  ASSUME TypeOK
  PROVE  Tasks \subseteq Node /\ Ok \subseteq Tasks /\ Raised \subseteq Tasks
         /\ Ok \cap Raised = {}
  BY DEF Tasks, Ok, Raised

\* A step that returns, or goes to the top of the loop, has no tasks left.
LEMMA NoTasksLeft ==
  ASSUME task' = NoTasks, pc' \in {"idle", "loop"}
  PROVE  Scheduled'
  BY DEF Scheduled, NoTasks, Tasks, Raised

LEMMA NextScheduled ==
  ASSUME GraphInv, Scheduled, [Next]_vars
  PROVE  Scheduled'
  <1> USE DEF GraphInv
  <1>1. CASE Run
    <2>1. UNCHANGED task /\ pc' = "loop" /\ pc = "idle"
      BY <1>1 DEF Run
    <2> QED
      BY <2>1 DEF Scheduled, Tasks, Raised
  <1>2. CASE StopLoop \/ Finish \/ InterruptBefore \/ NodeInterrupt \/ AllFailed \/ Crash
    <2>1. task' = NoTasks /\ pc' = "idle"
      BY <1>2 DEF StopLoop, Finish, InterruptBefore, NodeInterrupt, AllFailed, Crash, PutFails, Return
    <2> QED
      BY <2>1, NoTasksLeft
  <1>3. CASE ApplyWrites
    <2>1. task' = NoTasks /\ pc' \in {"idle", "loop"}
      BY <1>3 DEF ApplyWrites, SaveStep, EndStep, PutFails, Return
    <2> QED
      BY <2>1, NoTasksLeft
  <1>4. CASE StartTasks
    <2>1. /\ pc' = "exec" /\ UNCHANGED <<done, engine, last, route>>
          /\ task' = [n \in Node |-> IF n \in NextTasks THEN "running" ELSE "none"]
      BY <1>4 DEF StartTasks
    <2>2. NextTasks' = NextTasks
      BY <2>1 DEF NextTasks, NextNodes
    <2>3. NextTasks \subseteq Node
      <3>1. Whence(done, last, route) /\ TypeOK
        OBVIOUS
      <3>2. Abstract!Ready \subseteq Node
        BY DEF Abstract!Ready
      <3> QED
        BY <3>1, <3>2, TasksReady
    <2>4. Tasks' = NextTasks /\ Raised' = {}
      BY <2>1, <2>3 DEF Tasks, Raised
    <2> QED
      BY <2>1, <2>2, <2>4 DEF Scheduled
  <1>5. ASSUME NEW n \in Node, ExecuteNode(n)
        PROVE  Scheduled'
    <2>1. PICK r \in Results(n) : task' = [task EXCEPT ![n] = r]
      BY <1>5 DEF ExecuteNode
    <2>2. r # "none" /\ (r = "interrupt" => n \in Interrupting)
      BY DEF Results
    <2>3. pc = "exec" /\ task[n] = "running" /\ UNCHANGED <<pc, done, engine, last, route>>
      BY <1>5 DEF ExecuteNode
    <2>4. Tasks' = Tasks /\ Raised' \subseteq Interrupting
      BY <2>1, <2>2, <2>3 DEF Tasks, Raised, TypeOK, Scheduled
    <2>5. NextTasks' = NextTasks
      BY <2>3 DEF NextTasks, NextNodes
    <2> QED
      BY <2>3, <2>4, <2>5 DEF Scheduled
  <1>6. ASSUME UNCHANGED <<pc, task, done, engine, last, route>>
        PROVE  Scheduled'
    BY <1>6 DEF Scheduled, Tasks, Raised, NextTasks, NextNodes
  <1> QED
    BY <1>1, <1>2, <1>3, <1>4, <1>5, <1>6
       DEF Next, EngineStep, AsyncSave, CancelRun, runVars, vars

\* The step of a node that interrupts completes nothing, in a graph where such a node
\* is alone.
LEMMA InterruptCompletesNothing ==
  ASSUME GraphInv, Scheduled, AllReached, InterruptsAlone, pc = "exec", Raised # {}
  PROVE  Ok = {}
  <1> USE EngineAssumption DEF GraphInv
  <1>1. PICK n \in Raised : TRUE
    OBVIOUS
  <1>2. n \in NextTasks /\ n \in Interrupting /\ Tasks = NextTasks
    BY <1>1, NodeTypes DEF Scheduled
  <1>3. engine \in Engines
    BY DEF TypeOK
  <1>4. NextTasks = {n}
    <2>1. CASE done = {}
      BY <1>2, <2>1 DEF NextTasks
    <2>2. CASE done # {} /\ engine.mode = "all"
      <3>1. NextTasks = Ready(done) /\ Reached(done) /\ done \in SUBSET Node
        BY <2>2 DEF NextTasks, AllReached, TypeOK
      <3> QED
        BY <1>2, <1>3, <2>2, <3>1 DEF InterruptsAlone
    <2>3. CASE done # {} /\ engine.mode # "all"
      <3>1. last \in Node /\ NextTasks = NextNodes(last)
        BY <2>3 DEF NextTasks, Whence, TypeOK
      <3>2. CASE NextNodes(last) = {route} \ {End}
        BY <1>2, <3>1, <3>2
      <3>3. CASE NextNodes(last) = Targets(last)
        BY <1>2, <1>3, <2>3, <3>1, <3>3 DEF InterruptsAlone
      <3> QED
        BY <3>2, <3>3 DEF NextNodes
    <2> QED
      BY <2>1, <2>2, <2>3
  <1> QED
    BY <1>1, <1>2, <1>4, NodeTypes

\* Completed nodes have completed predecessors.
LEMMA ReachedGrows ==
  ASSUME GraphInv, Scheduled, AllReached, engine.mode = "all", pc = "exec"
  PROVE  done \cup Ok = {} \/ Reached(done \cup Ok)
  <1> USE EngineAssumption DEF GraphInv
  <1>1. Ok \subseteq NextTasks /\ Ok \subseteq Node
    BY NodeTypes DEF Scheduled
  <1>2. CASE done = {}
    BY <1>1, <1>2 DEF NextTasks, Reached
  <1>3. CASE done # {}
    <2>1. Reached(done) /\ NextTasks = Ready(done)
      BY <1>3 DEF AllReached, NextTasks
    <2> QED
      BY <1>1, <2>1 DEF Reached, Ready
  <1> QED
    BY <1>2, <1>3

\* A step that completes nothing keeps what is known of the completed nodes, with a
\* checkpoint that says nothing of them or the old one.
Completes == UNCHANGED <<engine, done, now>> /\ (store' = store \/ store'.done = {})

LEMMA CompletesNothing ==
  ASSUME GraphInv, [Next]_vars, ~Run, ~NodeInterrupt, ~ApplyWrites
  PROVE  Completes /\ UNCHANGED chans
  <1>1. CASE Finish
    BY <1>1 DEF Finish, Put, StepCheckpoint, Fresh, Completes
  <1>2. CASE InterruptBefore
    BY <1>2 DEF InterruptBefore, PutFails, Put, StepCheckpoint, Fresh, Completes
  <1>3. ASSUME NEW s \in saving, AsyncSave(s)
        PROVE  Completes /\ UNCHANGED chans
    BY <1>3 DEF AsyncSave, runVars, history, Put, StepCheckpoint, Fresh, Completes
  <1>4. CASE StopLoop \/ StartTasks \/ AllFailed \/ CancelRun \/ Crash \/ UNCHANGED vars
    BY <1>4 DEF StopLoop, StartTasks, AllFailed, CancelRun, Crash, storeVars, history, vars,
                Completes
  <1>5. ASSUME NEW n \in Node, ExecuteNode(n)
        PROVE  Completes /\ UNCHANGED chans
    BY <1>5 DEF ExecuteNode, storeVars, history, Completes
  <1> QED
    BY <1>1, <1>2, <1>3, <1>4, <1>5 DEF Next, EngineStep

\* The two steps that complete nodes, and the one that starts from a checkpoint.
LEMMA InterruptEffect ==
  ASSUME NodeInterrupt
  PROVE  /\ pc = "exec" /\ Raised # {} /\ UNCHANGED <<engine, chans, saving>>
         /\ done' = done \cup Ok /\ now' = now \cup Ok /\ ever' = ever \cup Ok /\ pc' = "idle"
         /\ outcome' # "final" /\ (clean' => clean)
         /\ \/ store'.done = done \cup Ok /\ store'.chans = chans
            \/ store' = store /\ ~clean'
  <1>1. /\ pc = "exec" /\ Raised # {} /\ UNCHANGED <<engine, chans, saving>>
        /\ done' = done \cup Ok /\ now' = now \cup Ok /\ ever' = ever \cup Ok
    BY DEF NodeInterrupt, StepDone, Collect
  <1>a. PICK l \in LastOf : \E r \in Routes(l) :
           \/ /\ Put(InterruptCheckpoint(chans, done \cup Ok, l, r))
              /\ Return("interrupt")
           \/ PutFails
    BY DEF NodeInterrupt
  <1>b. PICK r \in Routes(l) :
           \/ /\ Put(InterruptCheckpoint(chans, done \cup Ok, l, r))
              /\ Return("interrupt")
           \/ PutFails
    BY <1>a
  <1>2. /\ pc' = "idle" /\ outcome' # "final" /\ (clean' => clean)
        /\ \/ store'.done = done \cup Ok /\ store'.chans = chans
           \/ store' = store /\ ~clean'
    <2>1. CASE PutFails
      BY <2>1 DEF PutFails, Return
    <2>2. CASE Put(InterruptCheckpoint(chans, done \cup Ok, l, r)) /\ Return("interrupt")
      BY <2>2 DEF Put, InterruptCheckpoint, Return
    <2> QED
      BY <1>b, <2>1, <2>2
  <1> QED
    BY <1>1, <1>2

LEMMA WritesEffect ==
  ASSUME ApplyWrites
  PROVE  /\ pc = "exec" /\ UNCHANGED engine /\ chans' = chans \cup Ok
         /\ done' = done \cup Ok /\ now' = now \cup Ok /\ ever' = ever \cup Ok
         /\ store' = store \/ store'.done = {}
         /\ engine.durability = "async" \/ UNCHANGED saving
         /\ \/ pc' = "loop" /\ UNCHANGED <<outcome, clean>>
            \/ pc' = "idle" /\ ~clean' /\ outcome' # "final"
  <1>1. /\ pc = "exec" /\ UNCHANGED engine /\ chans' = chans \cup Ok
        /\ done' = done \cup Ok /\ now' = now \cup Ok /\ ever' = ever \cup Ok
    BY DEF ApplyWrites, StepDone, Collect, Written
  <1>2. EndStep \/ PutFails
    BY DEF ApplyWrites, SaveStep
  <1>3. \/ pc' = "loop" /\ UNCHANGED <<outcome, clean>>
        \/ pc' = "idle" /\ ~clean' /\ outcome' # "final"
    BY <1>2 DEF EndStep, PutFails, Return
  <1>4. store' = store \/ store'.done = {}
    BY DEF ApplyWrites, SaveStep, PutFails, Put, StepCheckpoint, Fresh
  <1>5. engine.durability = "async" \/ UNCHANGED saving
    BY DEF ApplyWrites, SaveStep
  <1> QED
    BY <1>1, <1>3, <1>4, <1>5

LEMMA RunEffect ==
  ASSUME TypeOK, Run
  PROVE  /\ pc = "idle" /\ pc' = "loop" /\ outcome' = "none"
         /\ UNCHANGED <<engine, store, saving, ever>>
         /\ now' = {}
         /\ \/ done' = store.done /\ chans' = Restored(store.chans) /\ clean' = clean
            \/ done' = {} /\ chans' = {} /\ ~clean'
  <1>1. /\ pc = "idle" /\ pc' = "loop" /\ outcome' = "none"
        /\ now' = {} /\ UNCHANGED <<engine, store, saving, ever>>
    BY DEF Run
  <1>2. PICK loaded \in BOOLEAN :
            /\ chans' = IF loaded THEN Restored(store.chans) ELSE {}
            /\ done' = IF loaded THEN store.done ELSE {}
            /\ clean' = (clean /\ loaded)
    BY DEF Run, Fresh, Restored
  <1>3. CASE loaded
    BY <1>1, <1>2, <1>3 DEF TypeOK
  <1>4. CASE ~loaded
    BY <1>1, <1>2, <1>4
  <1> QED
    BY <1>3, <1>4

LEMMA NextReached ==
  ASSUME GraphInv, Scheduled, AllReached, [Next]_vars
  PROVE  AllReached'
  <1>1. CASE Run
    BY <1>1, RunEffect DEF AllReached, GraphInv
  <1>2. CASE NodeInterrupt
    <2>1. engine.mode = "all" => done' = {} \/ Reached(done')
      BY <1>2, InterruptEffect, ReachedGrows
    <2> QED
      BY <1>2, <2>1, InterruptEffect DEF AllReached
  <1>3. CASE ApplyWrites
    <2>1. engine.mode = "all" => done' = {} \/ Reached(done')
      BY <1>3, WritesEffect, ReachedGrows
    <2> QED
      BY <1>3, <2>1, WritesEffect DEF AllReached
  <1>4. CASE ~Run /\ ~NodeInterrupt /\ ~ApplyWrites
    BY <1>4, CompletesNothing DEF Completes, AllReached
  <1> QED
    BY <1>1, <1>2, <1>3, <1>4

LEMMA NextHeld ==
  ASSUME GraphInv, Scheduled, AllReached, InterruptsAlone, Held, [Next]_vars
  PROVE  Held'
  <1>1. CASE Run
    BY <1>1, RunEffect DEF Held, Restored, GraphInv
  <1>2. CASE NodeInterrupt
    <2>1. Ok = {}
      BY <1>2, InterruptEffect, InterruptCompletesNothing
    <2> QED
      BY <1>2, <2>1, InterruptEffect DEF Held
  <1>3. CASE ApplyWrites
    BY <1>3, WritesEffect DEF Held
  <1>4. CASE ~Run /\ ~NodeInterrupt /\ ~ApplyWrites
    BY <1>4, CompletesNothing DEF Completes, Held
  <1> QED
    BY <1>1, <1>2, <1>3, <1>4

\* In a graph without a cycle a run that has nothing ready has completed everything.
LEMMA NothingReady ==
  ASSUME TypeOK, Acyclic, engine.mode = "all", NextTasks = {}
  PROVE  done = Node
  <1>1. done # {} /\ Ready(done) = {} /\ done \subseteq Node
    BY DEF NextTasks, TypeOK
  <1> SUFFICES ASSUME Node \ done # {} PROVE FALSE
    BY <1>1
  <1>2. PICK n \in Node \ done : Incoming[n] \cap (Node \ done) = {}
    BY DEF Acyclic
  <1>3. Incoming[n] \subseteq Node
    BY DEF Incoming
  <1>4. n \in Ready(done)
    BY <1>2, <1>3 DEF Ready
  <1> QED
    BY <1>1, <1>4

LEMMA NextFinal ==
  ASSUME GraphInv, Acyclic, Held, FinalComplete, [Next]_vars
  PROVE  FinalComplete'
  <1> USE DEF GraphInv
  <1>1. CASE Run
    BY <1>1, RunEffect DEF FinalComplete
  <1>2. CASE NodeInterrupt
    BY <1>2, InterruptEffect DEF FinalComplete
  <1>3. CASE ApplyWrites
    <2>1. done' = done \cup Ok /\ chans' = chans \cup Ok /\ Ok \subseteq Node
          /\ now' = now \cup Ok
          /\ UNCHANGED engine /\ (outcome' = outcome \/ outcome' # "final")
      BY <1>3, WritesEffect, NodeTypes
    <2> QED
      BY <2>1 DEF FinalComplete, Dropped
  <1>4. CASE Finish
    <2>1. UNCHANGED <<engine, done, chans, now>> /\ NextTasks = {}
      BY <1>4 DEF Finish
    <2>2. engine.mode = "all" => done = Node /\ chans \cup Dropped = Node
      BY <2>1, NothingReady DEF Held, Dropped, TypeOK
    <2> QED
      BY <2>1, <2>2 DEF FinalComplete, Dropped
  <1>5. CASE ~Run /\ ~NodeInterrupt /\ ~ApplyWrites /\ ~Finish
    <2>1. UNCHANGED <<engine, done, chans, now>>
      BY <1>5, CompletesNothing DEF Completes
    <2>2. outcome' = outcome \/ outcome' # "final"
      BY <1>5 DEF Next, EngineStep, StopLoop, InterruptBefore, PutFails, StartTasks, AllFailed,
                  ExecuteNode, AsyncSave, CancelRun, Crash, Return, vars
    <2> QED
      BY <2>1, <2>2 DEF FinalComplete, Dropped
  <1> QED
    BY <1>1, <1>2, <1>3, <1>4, <1>5

\* A thread that interrupts have ended goes on with all it has completed.
LEMMA NextResumable ==
  ASSUME GraphInv, Resumable, [Next]_vars
  PROVE  Resumable'
  <1> USE DEF GraphInv
  <1>1. CASE Run
    BY <1>1, RunEffect DEF Resumable
  <1>2. CASE NodeInterrupt
    BY <1>2, InterruptEffect DEF Resumable
  <1>3. CASE ApplyWrites
    BY <1>3, WritesEffect DEF Resumable
  <1>4. CASE StopLoop \/ Finish \/ InterruptBefore \/ AllFailed \/ Crash
    <2>1. ~clean' /\ UNCHANGED engine
      BY <1>4 DEF StopLoop, Finish, InterruptBefore, PutFails, AllFailed, Crash, Return
    <2>2. saving' \subseteq saving
      BY <1>4 DEF StopLoop, Finish, InterruptBefore, AllFailed, Crash, storeVars
    <2> QED
      BY <2>1, <2>2 DEF Resumable
  <1>5. CASE StartTasks
    <2>1. /\ pc = "loop" /\ pc' = "exec"
          /\ UNCHANGED <<engine, done, saving, store, ever, clean>>
      BY <1>5 DEF StartTasks, InLoop, storeVars, history
    <2> QED
      BY <2>1 DEF Resumable
  <1>6. ASSUME NEW s \in saving, AsyncSave(s)
        PROVE  Resumable'
    <2>1. engine.durability = "async"
      BY <1>6 DEF Resumable
    <2> QED
      BY <1>6, <2>1 DEF AsyncSave, Resumable
  <1>7. ASSUME NEW n \in Node, ExecuteNode(n)
        PROVE  Resumable'
    BY <1>7 DEF ExecuteNode, storeVars, history, Resumable
  <1>8. CASE CancelRun \/ UNCHANGED vars
    BY <1>8 DEF CancelRun, vars, storeVars, history, Resumable
  <1> QED
    BY <1>1, <1>2, <1>3, <1>4, <1>5, <1>6, <1>7, <1>8 DEF Next, EngineStep

-----------------------------------------------------------------------------
(* The theorems on the outputs and the resumes of a run *)

LEMMA InitIInv == Init => IInv
  <1> SUFFICES ASSUME Init PROVE IInv
    OBVIOUS
  <1>1. GraphInv
    BY InitGraphInv
  <1>2. Scheduled
    BY DEF Init, Scheduled, NoTasks, Tasks, Raised
  <1>3. Resumable /\ AllReached /\ Held /\ FinalComplete
    BY DEF Init, Fresh, Resumable, AllReached, Held, FinalComplete, Dropped
  <1> QED
    BY <1>1, <1>2, <1>3 DEF IInv

LEMMA NextIInv == IInv /\ [Next]_vars => IInv'
  <1> SUFFICES ASSUME IInv, [Next]_vars PROVE IInv'
    OBVIOUS
  <1>1. GraphInv' /\ Scheduled' /\ Resumable' /\ AllReached'
    BY NextGraphInv, NextScheduled, NextResumable, NextReached DEF IInv
  <1>2. InterruptsAlone => Held'
    BY NextHeld DEF IInv
  <1>3. InterruptsAlone /\ Acyclic => FinalComplete'
    BY NextFinal DEF IInv
  <1> QED
    BY <1>1, <1>2, <1>3 DEF IInv, InterruptsAlone, Acyclic, Reached, Ready, Targets

\* The whole inductive invariant of the engine, whatever the graph.
THEOREM OutputInvariant == Spec => []IInv
  BY InitIInv, NextIInv, PTL DEF Spec

\* No node executes before its input is in the channels, but for outputs in channels
\* that are not declared, which a resume drops; through failed nodes that are tried
\* again, cancels, crashes, lost, late or unreadable checkpoints and any number of
\* resumes, in every graph where a node that interrupts is alone in its step.
THEOREM InputsArePresent ==
  ASSUME InterruptsAlone
  PROVE  Spec => []InputsPresent
  <1>1. IInv => InputsPresent
    <2> SUFFICES ASSUME IInv, NEW n \in Tasks \ {Entry}
                 PROVE  IF engine.mode = "all"
                        THEN Incoming[n] \subseteq chans \cup Dropped
                        ELSE Sources[n] \cap (chans \cup Dropped) # {}
      BY DEF InputsPresent
    <2>1. pc = "exec" /\ n \in Abstract!Ready
      BY DEF IInv, GraphInv, Scheduled
    <2>2. done \subseteq chans \cup Dropped
      BY DEF IInv, Held, Dropped
    <2> QED
      BY <2>1, <2>2 DEF Abstract!Ready
  <1> QED
    BY <1>1, OutputInvariant, PTL

\* A run with AllPredecessor that returns a final state has completed every node and
\* has every output but those a resume has dropped, for every graph without a cycle in which a node that interrupts
\* is alone in its step.
THEOREM FinalStatesAreComplete ==
  ASSUME InterruptsAlone, Acyclic
  PROVE  Spec => []FinalComplete
  <1>1. IInv => FinalComplete
    BY DEF IInv
  <1> QED
    BY <1>1, OutputInvariant, PTL

\* A thread that only interrupts of its nodes have ended goes on exactly where it
\* was, for every graph: no completed node executes again.
THEOREM ResumesContinue == Spec => []ResumeContinues
  <1>1. IInv => ResumeContinues
    BY DEF IInv, ResumeContinues, Scheduled, Resumable, NextTasks
  <1> QED
    BY <1>1, OutputInvariant, PTL
=============================================================================
