\* One unit, rival reservations and contracts; the promise of UnitCommitment.
SPECIFICATION Spec
CONSTANTS
    Units = {u1}
    Reservations = {r1, r2}
    Sales = {s1, s2}
    Bases = {b1}
    NoRecord = NoRecord
    MaxDay = 0
    MaxPrices = 2
    MaxQuotes = 1
    DepositGate = FALSE
    Thresholds = FALSE
SYMMETRY Symmetric
INVARIANTS
    ExclusiveCommitment
    StatusFollowsHolder
    NoUnitStranded
PROPERTIES
    CommitmentKept
CHECK_DEADLOCK FALSE
