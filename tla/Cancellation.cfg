\* Two concurrent StartCancel calls against three operations.
CONSTANTS
    Cancellers = {c1, c2}
    Ops = {o1, o2, o3}
SPECIFICATION FairSpec
INVARIANTS
    NoCallbackOnFreedOp
    DeregisterContract
    CallbackRunsOnce
PROPERTY CancelCarriedThrough
CHECK_DEADLOCK FALSE
