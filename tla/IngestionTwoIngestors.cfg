SPECIFICATION Spec
CONSTANTS
    TaskIds = {1, 2}
    Seeded = {1}
    Docs = {"d1"}
    Callers = {c1}
    Ingestors = {i1, i2}
    MaxConcurrency = 1
    FetchSize = 2
    MaxDeliver = 3
    StreamCap = 4
    Ops = {"ingest", "remove", "pull"}
    Faults = {"deadline"}
    MaxRequests = 3
    MaxRestarts = 2
INVARIANTS
    OrderlyInv
    OneExecutionAtATime
PROPERTY
    ImplementsLifecycle
SYMMETRY FullSymmetry
CHECK_DEADLOCK FALSE
