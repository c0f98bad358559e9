----------------------------- MODULE TaskGraph -----------------------------
(***************************************************************************)
(* What a run of a task graph promises, whatever the engine does inside:   *)
(* the set of finished nodes grows by nodes that were ready, or falls back *)
(* to the set that was kept for a resume, or to nothing.  A node is ready  *)
(* when all of its predecessors have finished (all = TRUE, the mode        *)
(* NodeTriggerAllPredecessor) or when one node with an edge to it has      *)
(* (all = FALSE).                                                          *)
(***************************************************************************)
CONSTANTS
    Node,   \* the nodes of the graph
    Entry,  \* its entry point
    Preds,  \* the predecessors of each node by regular edges
    Sources \* ... by edges of any kind

VARIABLES
    all,       \* the trigger mode of the graph
    finished,  \* the nodes that finished in this run
    kept       \* the nodes a resumed run need not execute again

vars == <<all, finished, kept>>

Ready ==
    IF all THEN {n \in Node \ finished : n = Entry \/ Preds[n] \subseteq finished}
           ELSE {n \in Node : n = Entry \/ Sources[n] \cap finished # {}}

Init ==
    /\ all \in BOOLEAN
    /\ finished = {}
    /\ kept = {}

\* A superstep finishes some ready nodes and may keep what is finished.
Advance ==
    \E S \in SUBSET Ready :
        /\ finished' = finished \cup S
        /\ kept' \in {kept, {}, finished'}
        /\ UNCHANGED all

\* A run starts from what was kept, or from the beginning.
Resume ==
    /\ finished' \in {kept, {}}
    /\ UNCHANGED <<all, kept>>

\* A checkpoint that says nothing of finished nodes replaces the kept one.
Forget ==
    /\ kept' = {}
    /\ UNCHANGED <<all, finished>>

Next == Advance \/ Resume \/ Forget

Spec == Init /\ [][Next]_vars
============================================================================
