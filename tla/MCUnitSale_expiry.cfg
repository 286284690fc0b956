\* One reservation over three business days, read for expiry and extended.
SPECIFICATION Spec
CONSTANTS
    Units = {u1}
    Reservations = {r1}
    Sales = {s1}
    Bases = {b1}
    NoRecord = NoRecord
    MaxDay = 2
    MaxPrices = 1
    MaxQuotes = 1
    DepositGate = FALSE
    Thresholds = FALSE
PROPERTIES
    ExpiredOnlyPastDate
CHECK_DEADLOCK FALSE
