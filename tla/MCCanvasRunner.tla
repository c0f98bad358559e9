--------------------------- MODULE MCCanvasRunner ---------------------------
(* A small instance of CanvasRunner for TLC. *)
EXTENDS CanvasRunner, TLC

\* Two requests of the session of the paused run, or one of it and one of another.
SameOrOther == {[r \in Requests |-> "a"], ("r0" :> "a" @@ "r1" :> "a" @@ "r2" :> "b")}

\* The paused run, a request that may pause again, and one that may answer it.
SomeEach ==
    "r0" :> {"interrupt"} @@ "r1" :> {"interrupt", "err"} @@ "r2" :> {"placeholder", "ok", "panic"}
=============================================================================
