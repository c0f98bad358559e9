---------------------------- MODULE PregelEngine ----------------------------
(***************************************************************************)
(* The superstep loop of the graph engine (harness/graph/pregel, Engine),  *)
(* with its checkpoints: runs of one thread of a graph, one after another, *)
(* that share the checkpointer.  Within a step the nodes execute           *)
(* concurrently; with asynchronous durability the saves of earlier steps,  *)
(* and of earlier runs, are concurrent too.                                *)
(*                                                                         *)
(* Every node writes one channel of its own, so that the channels, and a   *)
(* checkpoint of them, are the set of nodes whose output they hold.  Of    *)
(* the state that mergeStates accumulates, the loop itself reads only the  *)
(* branch a Switch or Categorize node wrote to _next.                      *)
(***************************************************************************)
EXTENDS Naturals, Sequences, FiniteSets

CONSTANTS
    Node,           \* the nodes of the graph, as numbers
    Entry,          \* the entry point
    Edges,          \* the regular edges <<from, to>> in the order they were added
    Cond,           \* the targets of each node's conditional edge, {} for none
    Declared,       \* nodes whose channel the graph, or the input of a run, names
    Engines,        \* the configurations the engine is run with
    RecursionLimit, \* supersteps of a run
    Interrupting,   \* nodes whose function may raise a GraphInterrupt
    Failing,        \* nodes whose function may fail, retries included
    Faults,         \* the faults of this model run
    MaxRuns         \* bound on the runs of the thread

End == 0            \* constants.End; also "no node" and "no branch"

\* The trigger mode, the durability, and the nodes to interrupt before and after.
EngineType == [mode : {"all", "any"}, durability : {"sync", "async", "exit"},
               interrupts : SUBSET Node, interruptsAfter : SUBSET Node]

(***************************************************************************)
(*   cancel  the context of a run is cancelled                             *)
(*   crash   the process dies in a run; the checkpointer is durable        *)
(*   get     the checkpointer cannot be read                               *)
(*   put     the checkpointer cannot be written                            *)
(***************************************************************************)
AllFaults == {"cancel", "crash", "get", "put"}

ASSUME EngineAssumption ==
    /\ Node \subseteq Nat \ {End}
    /\ IsFiniteSet(Node)
    /\ Entry \in Node
    /\ Edges \in Seq(Node \X (Node \cup {End}))
    /\ Cond \in [Node -> SUBSET (Node \cup {End})]
    /\ Declared \subseteq Node
    /\ Engines \subseteq EngineType
    /\ RecursionLimit \in Nat
    /\ Interrupting \subseteq Node
    /\ Failing \subseteq Node
    /\ Faults \subseteq AllFaults
    /\ MaxRuns \in Nat

VARIABLES
    engine,    \* the configuration of the engine
    pc,        \* Run: idle (no run), loop (top of the loop) or exec (nodes execute)
    run,       \* number of Run calls
    step,      \* the superstep of the run
    done,      \* completedTasks
    last,      \* lastCompletedNode
    route,     \* _next of lastState
    chans,     \* the channels of the run
    task,      \* the tasks of this step and their results
    ctx,       \* the context of the run
    store,     \* the newest checkpoint of the thread
    saving,    \* asynchronous saves under way
    deferred,  \* deferredCheckpoints
    outcome,   \* how the latest run ended
    now,       \* history: nodes completed in this run
    ever,      \* history: nodes completed in any run of the thread
    clean      \* history: all earlier runs ended in a node's interrupt, and were loaded

runVars   == <<step, done, last, route, chans, task, ctx>>
storeVars == <<store, saving, deferred>>
history   == <<now, ever, clean>>
vars      == <<engine, pc, run, step, done, last, route, chans, task, ctx, store,
               saving, deferred, outcome, now, ever, clean>>

----------------------------------------------------------------------------
(* The graph *)

Switch == {n \in Node : Cond[n] # {}}

\* buildIncomingEdges: regular edges only.
Incoming == [n \in Node |->
    {m \in Node : \E k \in DOMAIN Edges : Edges[k] = <<m, n>>}]

\* The regular edges of a node; the scan ends at the first edge to End.
HasEnd(n)  == \E k \in DOMAIN Edges : Edges[k] = <<n, End>>
Targets(n) == {m \in Node : \E k \in DOMAIN Edges :
    Edges[k] = <<n, m>> /\ \A i \in 1..k : Edges[i] # <<n, End>>}

\* getNextNodes.  A conditional edge goes where _next says and hides the
\* regular edges; a node without any edge falls back to _next.
NextNodes(n) ==
    IF n \in Switch \/ (Targets(n) = {} /\ ~HasEnd(n))
    THEN {route} \ {End} ELSE Targets(n)

\* prepareNextTasksDAG
Ready(S) == {n \in Node \ S : Incoming[n] \subseteq S}

\* prepareNextTasksWithMode, and its mutant: one predecessor is enough.
NextTasksAny ==
    IF done = {} THEN {Entry}
    ELSE IF engine.mode = "all" THEN {n \in Node \ done : Incoming[n] \cap done # {}}
    ELSE NextNodes(last)
NextTasks ==
    IF done = {} THEN {Entry}
    ELSE IF engine.mode = "all" THEN Ready(done) ELSE NextNodes(last)

NoTasks == [n \in Node |-> "none"]
Tasks   == {n \in Node : task[n] # "none"}
Ok      == {n \in Node : task[n] = "ok"}
Raised  == {n \in Node : task[n] = "interrupt"}

----------------------------------------------------------------------------
(* Checkpoints *)

\* No checkpoint at all is loaded as one that holds nothing.
Fresh == [chans |-> {}, done |-> {}, last |-> End, route |-> End]

\* The checkpoint of a step has the channels only; the one of a node's
\* interrupt has the completed tasks and the state too.  The mutants forget the completed
\* tasks, and count the nodes that interrupted among them.
StepCheckpoint(c)                  == [Fresh EXCEPT !.chans = c]
InterruptCheckpointBare(c, d, l, r) == StepCheckpoint(c)
InterruptCheckpointAll(c, d, l, r)  ==
    [chans |-> c, done |-> d \cup Raised, last |-> l, route |-> r]
InterruptCheckpoint(c, d, l, r) ==
    [chans |-> c, done |-> d, last |-> l, route |-> r]

Put(cp) == store' = cp

\* The run returns.  What was deferred is dropped by the next run.
Return(o) ==
    /\ pc' = "idle"
    /\ outcome' = o
    /\ task' = NoTasks
    /\ clean' = (clean /\ o = "interrupt")

\* A save fails, and the run with it.
PutFails ==
    /\ "put" \in Faults
    /\ Return("store")
    /\ UNCHANGED store

----------------------------------------------------------------------------
(* The run *)

\* The channels of a checkpoint that a run has again.  Run registers the channels
\* of the graph and the keys of its input, and restores no others: an output that
\* applyWrites put into a channel it created itself is dropped, although the task
\* stays completed.  The mutant restores none.
RestoredNone(c) == {}
Restored(c)     == c \cap Declared

\* Run: reset the engine, load the newest checkpoint.  A checkpointer that
\* cannot be read is taken for an empty one.
Run ==
    /\ pc = "idle"
    /\ run < MaxRuns
    /\ run' = run + 1
    /\ \E loaded \in IF "get" \in Faults THEN BOOLEAN ELSE {TRUE} :
          LET cp == IF loaded THEN store ELSE Fresh
          IN  /\ chans' = Restored(cp.chans)
              /\ done'  = cp.done
              /\ last'  = cp.last
              /\ route' = cp.route
              /\ clean' = (clean /\ loaded)
    /\ pc' = "loop"
    /\ step' = 0
    /\ ctx' = "live"
    /\ deferred' = <<>>
    /\ outcome' = "none"
    /\ now' = {}
    /\ UNCHANGED <<engine, task, store, saving, ever>>

\* The top of the loop: a cancelled context, the recursion limit.
StopLoop ==
    /\ pc = "loop"
    /\ \/ ctx = "cancelled" /\ Return("cancelled")
       \/ ctx = "live" /\ step >= RecursionLimit /\ Return("limit")
    /\ UNCHANGED <<engine, run, step, done, last, route, chans, ctx, storeVars,
                   now, ever>>

InLoop ==
    /\ pc = "loop"
    /\ ctx = "live"
    /\ step < RecursionLimit

\* Nothing left to do.  The deferred checkpoints are saved in their order, and
\* one that cannot be saved does not keep the others from it.
Finish ==
    /\ InLoop
    /\ NextTasks = {}
    /\ \/ /\ Return("final")
          /\ Put(IF deferred = <<>> THEN store
                 ELSE StepCheckpoint(deferred[Len(deferred)]))
       \/ /\ "put" \in Faults
          /\ deferred # <<>>
          /\ Return("store")
          /\ \/ UNCHANGED store
             \/ \E k \in DOMAIN deferred : Put(StepCheckpoint(deferred[k]))
    /\ deferred' = <<>>
    /\ UNCHANGED <<engine, run, step, done, last, route, chans, ctx, saving,
                   now, ever>>

\* shouldInterrupt: the checkpoint of an interrupt before a node is that of a step.
InterruptBefore ==
    /\ InLoop
    /\ NextTasks \cap engine.interrupts # {}
    /\ \/ Put(StepCheckpoint(chans)) /\ Return("before")
       \/ PutFails
    /\ UNCHANGED <<engine, run, step, done, last, route, chans, ctx, saving,
                   deferred, now, ever>>

\* executeTasksAsync: one goroutine for each task.
StartTasks ==
    /\ InLoop
    /\ NextTasks # {}
    /\ NextTasks \cap engine.interrupts = {}
    /\ task' = [n \in Node |-> IF n \in NextTasks THEN "running" ELSE "none"]
    /\ pc' = "exec"
    /\ UNCHANGED <<engine, run, step, done, last, route, chans, ctx, storeVars,
                   outcome, history>>

\* What RetryExecutor.Execute, or the cancelled context, makes of a node.
Results(n) ==
    {"ok"} \cup (IF n \in Failing \/ ctx = "cancelled" THEN {"err"} ELSE {})
           \cup (IF n \in Interrupting THEN {"interrupt"} ELSE {})

ExecuteNode(n) ==
    /\ pc = "exec"
    /\ task[n] = "running"
    /\ \E r \in Results(n) : task' = [task EXCEPT ![n] = r]
    /\ UNCHANGED <<engine, pc, run, step, done, last, route, chans, ctx, storeVars,
                   outcome, history>>

\* The barrier: wg.Wait in executeTasksAsync.
StepDone == pc = "exec" /\ \A n \in Node : task[n] # "running"

\* The results in the order of the tasks, which is that of a map: any task that
\* succeeded may be the last completed one, and any branch chosen may win.
Collect(l, r) ==
    /\ done' = done \cup Ok
    /\ now'  = now \cup Ok
    /\ ever' = ever \cup Ok
    /\ last' = l
    /\ route' = r
LastOf    == IF Ok = {} THEN {last} ELSE Ok
Routes(l) == IF Ok \cap Switch = {} THEN {route}
             ELSE IF l \in Switch THEN Cond[l] ELSE UNION {Cond[n] : n \in Ok \cap Switch}

\* A node of the step raised a GraphInterrupt: the run saves what is completed
\* and returns.  The outputs of the other nodes do not reach the channels.
NodeInterrupt ==
    /\ StepDone
    /\ Raised # {}
    /\ \E l \in LastOf : \E r \in Routes(l) :
          /\ Collect(l, r)
          /\ \/ /\ Put(InterruptCheckpoint(chans, done \cup Ok, l, r))
                /\ Return("interrupt")
             \/ PutFails
    /\ UNCHANGED <<engine, run, step, chans, ctx, saving, deferred>>

\* No task of the step succeeded.
AllFailed ==
    /\ StepDone
    /\ Raised = {}
    /\ Ok = {}
    /\ Return("failed")
    /\ UNCHANGED <<engine, run, step, done, last, route, chans, ctx, storeVars,
                   now, ever>>

\* The end of a superstep: go on, or return for an interrupt after a node.  The
\* mutant counts only the steps that complete a new node.
EndStepUncounted ==
    IF Ok \cap engine.interruptsAfter # {}
    THEN Return("after") /\ UNCHANGED step
    ELSE /\ pc' = "loop"
         /\ step' = IF Ok \subseteq done THEN step ELSE step + 1
         /\ task' = NoTasks
         /\ UNCHANGED <<outcome, clean>>
EndStep ==
    IF Ok \cap engine.interruptsAfter # {}
    THEN Return("after") /\ UNCHANGED step
    ELSE /\ pc' = "loop"
         /\ step' = step + 1
         /\ task' = NoTasks
         /\ UNCHANGED <<outcome, clean>>

\* saveCheckpoint by durability, then the end of the step.
SaveStep(c) ==
    \/ /\ engine.durability = "sync"
       /\ \/ Put(StepCheckpoint(c)) /\ EndStep
          \/ PutFails /\ UNCHANGED step
       /\ UNCHANGED <<saving, deferred>>
    \/ /\ engine.durability = "async"
       /\ saving' = saving \cup {[run |-> run, step |-> step, chans |-> c]}
       /\ EndStep
       /\ UNCHANGED <<store, deferred>>
    \/ /\ engine.durability = "exit"
       /\ deferred' = Append(deferred, c)
       /\ EndStep
       /\ UNCHANGED <<store, saving>>

\* applyWrites, and its mutant, which drops a step of several writers.
WrittenIfSingle == IF Cardinality(Ok) = 1 THEN Ok ELSE {}
Written         == Ok

ApplyWrites ==
    /\ StepDone
    /\ Raised = {}
    /\ Ok # {}
    /\ \E l \in LastOf : \E r \in Routes(l) : Collect(l, r)
    /\ chans' = chans \cup Written
    /\ SaveStep(chans')
    /\ UNCHANGED <<engine, run, ctx>>

\* The goroutine of an asynchronous save, at any later time; its error is logged.
AsyncSave(s) ==
    /\ s \in saving
    /\ saving' = saving \ {s}
    /\ \/ Put(StepCheckpoint(s.chans))
       \/ "put" \in Faults /\ UNCHANGED store
    /\ UNCHANGED <<engine, pc, run, runVars, deferred, outcome, history>>

CancelRun ==
    /\ "cancel" \in Faults
    /\ pc # "idle"
    /\ ctx = "live"
    /\ ctx' = "cancelled"
    /\ UNCHANGED <<engine, pc, run, step, done, last, route, chans, task, storeVars,
                   outcome, history>>

\* The process dies, with the saves that were under way.
Crash ==
    /\ "crash" \in Faults
    /\ pc # "idle"
    /\ Return("crash")
    /\ saving' = {}
    /\ UNCHANGED <<engine, run, step, done, last, route, chans, ctx, store, deferred,
                   now, ever>>

Init ==
    /\ engine \in Engines
    /\ pc = "idle"
    /\ run = 0
    /\ step = 0
    /\ done = {}
    /\ last = End
    /\ route = End
    /\ chans = {}
    /\ task = NoTasks
    /\ ctx = "live"
    /\ store = Fresh
    /\ saving = {}
    /\ deferred = <<>>
    /\ outcome = "none"
    /\ now = {}
    /\ ever = {}
    /\ clean = TRUE

EngineStep ==
    \/ StopLoop \/ Finish \/ InterruptBefore \/ StartTasks
    \/ NodeInterrupt \/ AllFailed \/ ApplyWrites

Next ==
    \/ Run
    \/ EngineStep
    \/ \E n \in Node : ExecuteNode(n)
    \/ \E s \in saving : AsyncSave(s)
    \/ CancelRun
    \/ Crash

Spec == Init /\ [][Next]_vars

\* The goroutine of Run goes on while it can, and every node function returns.
\* Nothing is assumed of further runs, of saves, of cancels and of crashes.
Fairness ==
    /\ WF_vars(EngineStep)
    /\ \A n \in Node : WF_vars(ExecuteNode(n))

FairSpec == Spec /\ Fairness

----------------------------------------------------------------------------
(* Properties *)

Outcomes == {"none", "final", "interrupt", "before", "after", "failed", "limit",
             "cancelled", "store", "crash"}

CheckpointType == [chans : SUBSET Node, done : SUBSET Node,
                   last : Node \cup {End}, route : Node \cup {End}]

\* Every variable stays in its type; a run never goes past the recursion limit.
TypeOK ==
    /\ engine \in Engines
    /\ pc \in {"idle", "loop", "exec"}
    /\ run \in 0..MaxRuns
    /\ step \in 0..RecursionLimit
    /\ done \subseteq Node
    /\ last \in Node \cup {End}
    /\ route \in Node \cup {End}
    /\ chans \subseteq Node
    /\ task \in [Node -> {"none", "running", "ok", "err", "interrupt"}]
    /\ ctx \in {"live", "cancelled"}
    /\ store \in CheckpointType
    /\ saving \subseteq [run : 0..MaxRuns, step : 0..RecursionLimit, chans : SUBSET Node]
    /\ deferred \in Seq(SUBSET Node)
    /\ outcome \in Outcomes
    /\ now \subseteq Node
    /\ ever \subseteq Node
    /\ clean \in BOOLEAN

\* The nodes with an edge of any kind to n.
Sources == [n \in Node |-> Incoming[n] \cup {m \in Node : n \in Cond[m]}]

\* Completed tasks whose output the resume has dropped with its channel.
Dropped == done \ (Declared \cup now)

\* A node does not execute before its input is there: with AllPredecessor the
\* channels hold the output of every predecessor, with AnyPredecessor of one
\* node that leads to it, but for what a resume drops (Dropped): an output is
\* missing only if its channel was not declared and its node completed in an
\* earlier run.  Through failed nodes that are tried again, cancels, crashes,
\* checkpoints that are lost, late or cannot be read, and resumes, as long as a
\* node that interrupts is the only one of its step.
InputsPresent ==
    \A n \in Tasks \ {Entry} :
        IF engine.mode = "all" THEN Incoming[n] \subseteq chans \cup Dropped
                               ELSE Sources[n] \cap (chans \cup Dropped) # {}

\* A run with AllPredecessor that returns a final state has completed every
\* node, and the channels the state is built from hold every node's output that
\* no resume has dropped.
FinalComplete ==
    engine.mode = "all" /\ outcome = "final" =>
        done = Node /\ chans \cup Dropped = Node

\* A thread whose runs were only ever ended by interrupts of its nodes goes on
\* where it was: each step executes exactly the nodes that never completed and
\* whose predecessors all did, so no completed node runs twice and the nodes
\* that interrupted run again.  (AllPredecessor; not with asynchronous saves,
\* which may replace the checkpoint of the interrupt by an older one.)
ResumeContinues ==
    engine.mode = "all" /\ engine.durability # "async" /\ clean /\ pc = "exec" =>
        Tasks = IF ever = {} THEN {Entry} ELSE Ready(ever)

\* Every run returns, also when nodes fail and when a loop of the graph goes on
\* for ever.
RunEnds == pc # "idle" ~> pc = "idle"

\* The engine implements the abstract run of a task graph.
Abstract == INSTANCE TaskGraph WITH
    Preds <- Incoming, Sources <- Sources,
    all <- engine.mode = "all", finished <- done, kept <- store.done

\* Every step of the engine, of its nodes and of its late saves is a step of the
\* task graph or changes nothing there.
ImplementsTaskGraph == Abstract!Spec

\* Where the last completed node and the branch in _next come from.
Whence(d, l, r) ==
    /\ d # {} => l \in d
    /\ r # End => \E m \in d : r \in Cond[m]

\* The inductive invariant of the refinement: the run and the checkpoint it
\* would be resumed from know where they are, whatever was lost, and a step
\* executes only what the task graph has ready.
GraphInv ==
    /\ TypeOK
    /\ Whence(done, last, route)
    /\ Whence(store.done, store.last, store.route)
    /\ pc = "exec" => step < RecursionLimit /\ Tasks \subseteq Abstract!Ready

\* A step executes what was prepared for it, and only some nodes can interrupt it.
Scheduled ==
    /\ Tasks = IF pc = "exec" THEN NextTasks ELSE {}
    /\ Raised \subseteq Interrupting

\* Without asynchronous saves a thread that only interrupts of its nodes have ended
\* knows all it has ever completed, in a run and between runs.
Resumable ==
    engine.durability # "async" =>
        /\ saving = {}
        /\ clean => ever = IF pc = "idle" THEN store.done ELSE done

\* With AllPredecessor what is completed is the entry point and nodes whose
\* predecessors are.
Reached(S) == Entry \in S /\ \A n \in S : n = Entry \/ Incoming[n] \subseteq S

AllReached ==
    engine.mode = "all" =>
        (done = {} \/ Reached(done)) /\ (store.done = {} \/ Reached(store.done))

\* The graphs in which a node that can interrupt is the only one of its step, and
\* those whose regular edges have no cycle.
InterruptsAlone ==
    \A e \in Engines :
        IF e.mode = "all"
        THEN \A S \in SUBSET Node : Reached(S) =>
                \A n \in Ready(S) \cap Interrupting : Ready(S) = {n}
        ELSE \A m \in Node : \A n \in Targets(m) \cap Interrupting : Targets(m) = {n}

Acyclic == \A S \in SUBSET Node : S # {} => \E n \in S : Incoming[n] \cap S = {}

\* The channels hold the output of every node completed in this run and of every
\* completed node whose channel is declared, also in a checkpoint.
Held ==
    /\ done \cap (Declared \cup now) \subseteq chans
    /\ store.done \cap Declared \subseteq store.chans

\* With what the three invariants of a run rest on.
IInv ==
    /\ GraphInv /\ Scheduled /\ Resumable /\ AllReached
    /\ InterruptsAlone => Held
    /\ InterruptsAlone /\ Acyclic => FinalComplete

============================================================================
