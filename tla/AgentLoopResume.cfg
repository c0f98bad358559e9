SPECIFICATION Spec
CONSTANTS
    Items = {a}
    Stoppers = {s1}
    PushKinds = {"plain"}
    StopKinds = {"cancel"}
    Stores = {"runner", "bare"}
    Canceled <- OldCanceled
    Unhandled <- NoItems
    Events = {"interrupt", "contexts"}
    Faults = {"load", "resume", "gen"}
INVARIANTS
    ItemsInv
    CheckpointComplete
CHECK_DEADLOCK FALSE
