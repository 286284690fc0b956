\* One contract, one variation, two certificates, two invoices, two payments.
SPECIFICATION Spec
CONSTANTS
    own = own
    Codes <- TheCode
    OwnCode = own
    MaxVariations = 1
    MaxCertificates = 2
    MaxInvoices = 2
    MaxPayments = 2
    Values <- Four
    Entitlements <- One
    Deltas <- MinusTwo
    Works <- Two
    Releases <- Nothing
    Recoveries <- NoneOrOne
    Claims <- One
    Sums <- One
    RateNum = 1
    RateDen = 2
INVARIANTS
    MoneyNests
    NothingStandsOnAir
    AdvanceRecoveredWithinPaid
CHECK_DEADLOCK FALSE
