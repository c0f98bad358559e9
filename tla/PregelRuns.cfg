SPECIFICATION FairSpec
CONSTANTS
    Node = {1, 2, 3, 4}
    Entry = 1
    Edges <- Diamond
    Cond <- Branches
    Declared = {1, 2}
    Engines <- AllEngines
    RecursionLimit = 4
    Interrupting = {1, 4}
    Failing = {3}
    Faults = {"cancel", "crash", "get", "put"}
    MaxRuns = 2
INVARIANTS
    IInv
    InputsPresent
    FinalComplete
    ResumeContinues
PROPERTIES
    RunEnds
    ImplementsTaskGraph
CHECK_DEADLOCK FALSE
