SPECIFICATION Spec
CONSTANTS
    Personas = {p1, p2}
    Requests = {r1, r2}
    Reward = 2
    QualityPay <- MCQualityPay
    Splits <- MCSplits
    PayoutKeys = {k1, k2}
    PayoutAmount = 1
    MaxAssignments = 2
    MaxResults = 2
    MaxCrashes = 1
    NoOne = NoOne
SYMMETRY Symmetry
INVARIANTS TypeOK LedgerSound RewardedOnce CompletedIsPaid UndividedOutcome
CHECK_DEADLOCK FALSE
