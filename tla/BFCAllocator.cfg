\* Three clients, in one of four allocators.
CONSTANTS
    c1 = c1  c2 = c2  c3 = c3
    Clients = {c1, c2, c3}
    Options <- MCOptions
SPECIFICATION FairSpec
INVARIANTS
    MemorySound
PROPERTIES
    FailsOnlyWhenFull
    AllocationReturns
CHECK_DEADLOCK FALSE
