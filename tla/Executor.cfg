\* A conditional with a message that may never be sent, a loop, and a loop in
\* a loop in a branch that may not be taken; kernels that may fail.
CONSTANTS
    Kind <- AllKind
    Edges <- AllEdges
    FrameName <- AllFrames
    IsConstant = {"enter_c", "enter_m"}
    Subgraphs <- AllSubgraphs
    Feeds <- AllFeeds
    MaxDepth = 2
    ParallelIterations <- AllParallel
    Expensive = {"then", "else", "recv", "body_j", "body_k", "use"}
    Async = {"recv"}
    CanFail = {"then", "x", "body_k"}
    Null = Null
SPECIFICATION FairSpec
INVARIANTS
    OutstandingExact
    InputsPresent
    IterationsAlive
    ExecutesGraph
PROPERTY StepFinishes
