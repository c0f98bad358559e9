SPECIFICATION FairSpec
CONSTANTS
    TaskIds = {1, 2}
    Seeded = {1}
    Docs = {"d1"}
    Callers = {c1}
    Ingestors = {i1}
    MaxConcurrency = 1
    FetchSize = 2
    MaxDeliver = 4
    StreamCap = 4
    Ops = {"ingest", "remove"}
    Faults = {"crash"}
    MaxRequests = 2
    MaxRestarts = 2
PROPERTY
    TasksSettle
CHECK_DEADLOCK FALSE
