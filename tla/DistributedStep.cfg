SPECIFICATION Spec
CONSTANTS
    ps = ps
    wk = wk
    s1 = s1
    s2 = s2
    Steps <- MCSteps
    Workers <- MCWorkers
    Edges <- MCEdges
    Fed <- MCFed
    Fetching <- MCFetching
    Setups <- MCSetups
CHECK_DEADLOCK FALSE
INVARIANTS
    TruthfulStep
    StateOutlived
PROPERTIES
    CallsReturn
    CleanedUp
    CancelEndsWork
