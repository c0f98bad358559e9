SPECIFICATION Spec
CONSTANTS
    Items = {a, b}
    Stoppers = {s1}
    PushKinds = {"plain", "preempt", "delayed", "strategy", "strategyPreempt"}
    StopKinds = {"now"}
    Stores = {"none"}
    Canceled <- NoItems
    Unhandled <- NoItems
    Events = {"end"}
    Faults = {}
INVARIANTS
    TypeOK
    NoPanic
    PushesCounted
    PendingTargetsCurrentTurn
    IInv
    ItemsConserved
    OrderKept
SYMMETRY LoopSymmetry
CHECK_DEADLOCK FALSE
