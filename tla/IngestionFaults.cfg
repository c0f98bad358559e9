SPECIFICATION Spec
CONSTANTS
    TaskIds = {1, 2}
    Seeded = {1}
    Docs = {"d1"}
    Callers = {c1, c2}
    Ingestors = {i1}
    MaxConcurrency = 1
    FetchSize = 2
    MaxDeliver = 2
    StreamCap = 1
    Ops = {"ingest", "stop", "remove", "pull", "test"}
    Faults = {"crash", "expire", "publish", "deadline", "db", "ack"}
    MaxRequests = 2
    MaxRestarts = 1
INVARIANTS
    CreatedHasMessage
    RunningHasMessage
    IInv
SYMMETRY CallerSymmetry
CHECK_DEADLOCK FALSE
