---------------------------- MODULE MCAgentLoop ----------------------------
(* Small instances of AgentLoop for TLC. *)
EXTENDS AgentLoop, TLC

\* The items of the checkpoint a run starts from.
NoItems     == <<>>
OldCanceled == <<"r1">>

\* Items are alike, and so are the calls of Stop.
LoopSymmetry == Permutations(Items) \cup Permutations(Stoppers)
============================================================================
