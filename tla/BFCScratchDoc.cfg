\* The allocator whose device gives next to nothing.
CONSTANTS
    c1 = c1  c2 = c2  c3 = c3
    Clients = {c1, c2, c3}
    Options <- MCStarved
SPECIFICATION FairSpec
PROPERTIES
    ScratchReturns
CHECK_DEADLOCK FALSE
