\* Advance paid in two parts, the second together with a claim.
SPECIFICATION Spec
CONSTANTS
    own = own
    Codes <- TheCode
    OwnCode = own
    MaxVariations = 0
    MaxCertificates = 1
    MaxInvoices = 2
    MaxPayments = 2
    Values <- Two
    Entitlements <- Two
    Deltas <- Nothing
    Works <- Two
    Releases <- Nothing
    Recoveries <- One
    Claims <- OneOrTwo
    Sums <- OneOrTwo
    RateNum = 0
    RateDen = 1
INVARIANTS
    SomethingCanBeUndone
CHECK_DEADLOCK FALSE
