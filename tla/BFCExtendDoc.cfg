\* The allocator that grows until the device refuses.
CONSTANTS
    c1 = c1  c2 = c2  c3 = c3
    Clients = {c1, c2, c3}
    Options <- MCGrowing
SPECIFICATION FairSpec
PROPERTIES
    ExtendSatisfies
CHECK_DEADLOCK FALSE
