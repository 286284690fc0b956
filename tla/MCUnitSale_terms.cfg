\* One deal and its quotes over two business days, with the deposit gate and the
\* approval thresholds: re-measured units, re-quotes, release dates; with a second
\* price or quote every move is dated the first day.
SPECIFICATION Spec
CONSTANTS
    Units = {u1}
    Reservations = {r1}
    Sales = {s1}
    Bases = {b1, b2}
    NoRecord = NoRecord
    MaxDay = 1
    MaxPrices = 2
    MaxQuotes = 2
    DepositGate = TRUE
    Thresholds = TRUE
SYMMETRY Symmetric
CONSTRAINT DatedApart
INVARIANTS
    ContractMatchesQuote
PROPERTIES
    SubmittedTermsFrozen
    TakenAsPriced
    MarketOnlyThroughGate
CHECK_DEADLOCK FALSE
