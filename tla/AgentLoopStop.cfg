SPECIFICATION Spec
CONSTANTS
    Items = {a, b}
    Stoppers = {s1, s2}
    PushKinds = {"preempt"}
    StopKinds = {"now", "cancel", "skip"}
    Stores = {"empty"}
    Canceled <- NoItems
    Unhandled <- NoItems
    Events = {"end"}
    Faults = {"gen", "take", "save"}
INVARIANTS
    NotifyNotLost
    StopPreventsTurns
SYMMETRY LoopSymmetry
CHECK_DEADLOCK FALSE
