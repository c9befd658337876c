SPECIFICATION Spec
CONSTANTS
    Caller = {t1, t2}
    Faults = {"request", "reply", "record"}
    OwnTag = {FALSE}
    MaxOrders = 2
    MaxCancels = 1
    MaxSwitches = 2
SYMMETRY Symmetry
INVARIANT PlacementsAccounted
INVARIANT CancellationsAccounted
INVARIANT AtMostOneLate
CHECK_DEADLOCK FALSE
