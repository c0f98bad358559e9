--------------------------- MODULE TaskLifecycle ---------------------------
(***************************************************************************)
(* What the comments promise about one row of the task table, whoever      *)
(* writes it: the status moves along the diagram in the comment of         *)
(* CheckAndCreate (dao/ingestion.go:33), where STOPPING is its "canceling" *)
(* and STOPPED its "canceled", and a task that is executing cannot be      *)
(* removed (dao/ingestion.go:332).                                         *)
(*                                                                         *)
(* The program departs from that in two ways even when nobody cancels a    *)
(* task, which are actions of their own:                                   *)
(*                                                                         *)
(*   interrupted  the outcome of a task is STOPPED although nobody asked   *)
(*                for it (ingestion_service.go:276)                        *)
(*   removed      a row is deleted while its task is executed              *)
(***************************************************************************)
CONSTANTS
    Task,
    Departures \* those of the two that may happen

VARIABLE status

Ended == {"COMPLETED", "FAILED", "STOPPED"}

Init == status \in [Task -> {"unused", "CREATED"}]

Move(t, from, to) == status[t] \in from /\ status' = [status EXCEPT ![t] = to]

Create(t)   == Move(t, {"unused"}, "CREATED")
Start(t)    == Move(t, {"CREATED"}, "RUNNING")
Complete(t) == Move(t, {"RUNNING"}, "COMPLETED") \/ Move(t, {"RUNNING"}, "FAILED")
Cancel(t)   == Move(t, {"CREATED", "RUNNING", "COMPLETED"}, "STOPPING")
Canceled(t) == Move(t, {"STOPPING"}, "STOPPED")
Retry(t)    == Move(t, {"FAILED", "STOPPED"}, "CREATED")
Remove(t)   == Move(t, {"CREATED"} \cup Ended, "removed")

Documented(t) ==
    \/ Create(t) \/ Start(t) \/ Complete(t)
    \/ Cancel(t) \/ Canceled(t) \/ Retry(t) \/ Remove(t)

Interrupt(t)       == "interrupted" \in Departures /\ Move(t, {"RUNNING"}, "STOPPED")
RemoveExecuting(t) == "removed" \in Departures /\ Move(t, {"RUNNING"}, "removed")

Next == \E t \in Task : Documented(t) \/ Interrupt(t) \/ RemoveExecuting(t)

Spec == Init /\ [][Next]_status
============================================================================
