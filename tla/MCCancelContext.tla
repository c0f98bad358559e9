-------------------------- MODULE MCCancelContext --------------------------
(* Instances of CancelContext. *)
EXTENDS CancelContext

EitherMode == {Immediate, {"chatModel"}}
============================================================================
