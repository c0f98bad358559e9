SPECIFICATION FairSpec
CONSTANTS
    Callers = {c1, c2}
    SubAgents = 2
    Kinds = {"plain", "workflow"}
    Modes <- EitherMode
    Timeouts = {0, 1, 2}
    MaxTimeout = 2
    Events = {"end", "err", "interrupt", "noInput"}
INVARIANTS
    IInv
    HandledIsReported
    TimeoutNotExtended
    TimeoutIsReal
    QuietAfterWait
PROPERTY
    CancelReturns
CHECK_DEADLOCK FALSE
