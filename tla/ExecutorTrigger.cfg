\* A ControlTrigger after a loop that may be dead.
CONSTANTS
    Kind <- TriggerKind
    Edges <- TriggerEdges
    FrameName <- TriggerFrames
    IsConstant = {}
    Subgraphs <- TriggerSubgraphs
    Feeds <- TriggerFeeds
    MaxDepth = 1
    ParallelIterations <- TriggerParallel
    Expensive = {}
    Async = {}
    CanFail = {}
    Null = Null
SPECIFICATION Spec
INVARIANT TriggersLive
