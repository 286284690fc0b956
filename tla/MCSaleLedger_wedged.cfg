\* A revision approved before the first receipt is confirmed.
SPECIFICATION Spec
CONSTANTS
    Price = 2
    Schedules <- Two
    Contested = {}
    MaxVersions = 2
    MaxReceipts = 1
    MaxRows = 1
INVARIANTS
    RevisionHasAWay
CHECK_DEADLOCK FALSE
