\* Three operations with a shared manager that may be cancelled at any time.
CONSTANTS
    o1 = o1  o2 = o2  o3 = o3  o4 = o4
    m1 = m1  m2 = m2  m3 = m3
    Ops = {o1, o2, o3}
    Managers = {m1}
    ManagerOf <- OneManager
    Capacity = 1
    ShapeChoices = {TRUE}
    Requests <- AllRequests
SYMMETRY OpSymmetry
SPECIFICATION Spec
INVARIANTS
    FIFOOrder
    CallbackOnce
    NoLostWakeup
    WholeBatches
PROPERTIES
    ImplementsQueue
CHECK_DEADLOCK FALSE
