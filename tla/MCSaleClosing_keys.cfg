\* One contract, from signature to title and keys, under the strictest policy.
SPECIFICATION Spec
CONSTANTS
    Sales = {s1}
    Milestones <- Whole
    MaxCash = 2
    HandoverNeeds = {"legal", "collection", "delivery"}
    TitleNeedsCollection = TRUE
    HandoverNeedsTitle = TRUE
INVARIANTS
    KeysStayGiven
    LegalStatusEvidenced
    ApprovedTermsMatchCash
    CommittedWhileCaseOpen
PROPERTIES
    PaidBeforeKeysAndTitle
CHECK_DEADLOCK FALSE
