\* The schedule alone matters: two milestones and two versions of a plan.
SPECIFICATION Spec
CONSTANTS
    m1 = m1
    m2 = m2
    m3 = m3
    Codes <- ThreeCodes
    MaxBudgets = 2
    MaxForecasts = 2
    MaxWorks = 1
    Authorised <- One
    Remaining <- NothingOrOne
    LastDay = 2
    Milestones <- ThreeMilestones
    Slots <- TheSlot
    MaxPlanVersions = 2
    Dates <- Two
    MaxConfigurations = 2
    MaxPrices = 2
    MaxSchedules = 2
    Facts <- Two
    Names <- Two
    Totals <- Two
    HorizonDay = 2
    MaxBuilds = 2
    MaxCashForecasts = 2
    MaxBuyerPlans = 2
    MaxReceived = 1
    MaxRestrictions = 2
    MaxReleases = 2
    MaxMovements = 1
    Sums <- Two
    LastCashDay = 2
    MaxBases = 2
    EcoUnits <- Two
    PhaseUnits <- One
    MaxReadings = 1
    LastEcoDay = 3
    MaxPhases = 2
    MaxBuildings = 2
    MaxFloors = 1
    MaxHomes = 2
    MaxDeposits = 2
    MaxCases = 2
    MaxRefunds = 2
    Payments <- Two
    Deductions <- NothingOrHalf
    LastRefundDay = 2
    MaxGrants = 2
    MaxShares = 3
    GrantBases <- TwoAndFive
    GrantRates <- TwoAndThree
    ShareRates <- Two
    RateUnit = 4
    Users = {a, b, c}
    Requests = {p, q}
INVARIANTS
    NoScheduleWaitsInVain
CHECK_DEADLOCK FALSE
