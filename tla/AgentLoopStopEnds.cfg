SPECIFICATION FairSpec
CONSTANTS
    Items = {a}
    Stoppers = {s1}
    PushKinds = {"plain"}
    StopKinds = {"now", "cancel", "idle", "timeout"}
    Stores = {"none"}
    Canceled <- NoItems
    Unhandled <- NoItems
    Events = {"end"}
    Faults = {"gen", "early", "ctx"}
PROPERTY
    StopEnds
CHECK_DEADLOCK FALSE
