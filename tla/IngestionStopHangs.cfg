SPECIFICATION FairSpec
CONSTANTS
    TaskIds = {1}
    Seeded = {1}
    Docs = {"d1"}
    Callers = {c1}
    Ingestors = {i1}
    MaxConcurrency = 1
    FetchSize = 2
    MaxDeliver = 3
    StreamCap = 4
    Ops = {"stop"}
    Faults = {}
    MaxRequests = 1
    MaxRestarts = 0
PROPERTY
    StopCompletes
CHECK_DEADLOCK FALSE
