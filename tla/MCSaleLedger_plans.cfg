\* A plan drawn, revised, collected on, disputed and cleared with one receipt, and
\* two receipts carried from schedule to schedule.
SPECIFICATION CashSpec
CONSTANTS
    Price = 3
    Schedules <- Three
    Contested = {1}
    MaxVersions = 3
    MaxReceipts = 2
    MaxRows = 2
INVARIANTS
    OneGoverningSchedule
    CashStaysOnSchedule
    ClearedMeansPaid
    NoCashTwice
    PouredAsPreviewed
PROPERTIES
    RestructureConserves
CHECK_DEADLOCK FALSE
