-------------------------- MODULE MCIngestionTask --------------------------
(* Small instances of IngestionTask for TLC. *)
EXTENDS IngestionTask, TLC

\* Requests are alike, and so are ingestors.
CallerSymmetry == Permutations(Callers)
FullSymmetry   == Permutations(Callers) \cup Permutations(Ingestors)
============================================================================
