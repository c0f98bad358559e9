SPECIFICATION CancelSpec
CONSTANTS
    Items = {a, b}
    Stoppers = {}
    PushKinds = {"preempt", "delayed"}
    StopKinds = {"now"}
    Stores = {"none"}
    Canceled <- NoItems
    Unhandled <- NoItems
    Events = {"end"}
    Faults = {"gen"}
PROPERTY
    AcksComplete
CHECK_DEADLOCK FALSE
