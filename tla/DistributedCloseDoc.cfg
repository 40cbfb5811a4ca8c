SPECIFICATION Spec
CONSTANTS
    ps = ps
    wk = wk
    s1 = s1
    s2 = s2
    Steps <- MCSteps
    Workers <- MCWorkers
    Edges <- MCEdges
    Fed <- MCFed
    Fetching <- MCFetching
    Setups <- MCTwoWorkers
CHECK_DEADLOCK FALSE
PROPERTIES
    CloseReturns
