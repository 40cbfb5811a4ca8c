\* Two inserts, a take and a Close.
CONSTANTS
    i1 = i1  i2 = i2  i3 = i3  t1 = t1  t2 = t2  c1 = c1  c2 = c2
    k1 = k1  k2 = k2  None = None
    Keys = {k1, k2}
    Components = {1, 2}
    Inserts = {i1, i2, i3}
    Takes = {t1, t2}
    Closes = {c1, c2}
    Requests <- MCPlainClose
SPECIFICATION FairSpec
PROPERTY ClosedBarrierAnswers
CHECK_DEADLOCK FALSE
