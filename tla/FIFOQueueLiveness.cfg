\* Two sessions, cancelled independently, with or without component shapes.
CONSTANTS
    o1 = o1  o2 = o2  o3 = o3  o4 = o4
    m1 = m1  m2 = m2  m3 = m3
    Ops = {o1, o2}
    Managers = {m1, m2}
    ManagerOf <- OwnManagers
    Capacity = 1
    ShapeChoices = {TRUE, FALSE}
    Requests <- SomeRequests
SPECIFICATION FairSpec
PROPERTY BlockedCallsEnd
CHECK_DEADLOCK FALSE
