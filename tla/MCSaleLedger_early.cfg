\* Cash confirmed before the plan exists.
SPECIFICATION Spec
CONSTANTS
    Price = 2
    Schedules <- Two
    Contested = {}
    MaxVersions = 2
    MaxReceipts = 1
    MaxRows = 1
INVARIANTS
    CashOnGoverningSchedule
CHECK_DEADLOCK FALSE
