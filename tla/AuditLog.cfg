SPECIFICATION FairSpec
CONSTANTS
    Thread = {t1, t2, t3}
    NoThread = NoThread
    Torn = Torn
    Faults = {"lost", "torn", "cut"}
    MaxRecords = 5
    MaxCrashes = 2
INVARIANT FileVerifies
INVARIANT MemMirrorsFile
INVARIANT TamperEvident
PROPERTY EarlierLinesStay
PROPERTY LockReleased
PROPERTY ImplementsLedger
CHECK_DEADLOCK FALSE
