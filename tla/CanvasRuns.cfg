SPECIFICATION FairSpec
CONSTANTS
    Requests = {"r0", "r1", "r2"}
    Paused = {"r0"}
    Sessions = {"a", "b"}
    SessionsOf <- SameOrOther
    Stored = {"a"}
    Leavers = {"r2"}
    Cap = 1
    Outcomes <- SomeEach
    None = "none"
INVARIANTS
    IInv
    AnsweredOnce
    WaitingCanBeAnswered
    EndsWithDone
    AnswersKept
    RunningIsLive
PROPERTIES
    StreamsEnd
    CancelledEnds
CHECK_DEADLOCK FALSE
