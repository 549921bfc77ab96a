SPECIFICATION SafeSpec
CONSTANTS
    t1 = t1 t2 = t2 t3 = t3 w1 = w1 w2 = w2 a1 = a1 a2 = a2 c1 = c1 c2 = c2 c3 = c3
    compile = compile g1 = g1 g2 = g2

    Tasks = {t1, t2}
    Workers = {w1, w2}
    Slots = {1}
    Api = {a1, a2}
    Tenants = {"tenant"}
    TenantOf <- OneTenant
    Priority <- SamePriority
    MaxRetries <- TwoAndWorker
    WorkerRetries = 2
    Unregistered = {}
    MaxPending = 1
    Timeout <- LongTimeout2
    StaleAfter = 1
    Retention = 3
    MaxBackoff = 1
    StallTicks = 0
    MaxCrashes = 1
    MaxStalls = 1
    MaxFaults = 1
    Nobody = Nobody

    Clients = {c1, c2, c3}
    Keys = {compile}
    Ttl = 2
    Section = 1
    MaxTokens = 4
    MaxLeaseCrashes = 1
    MaxFreezes = 2
    Nothing = Nothing

    Cycles = {c1, c2}
    Gigs = {g1, g2}
    GigReward <- MCGigReward
    Caps = {2, 3}
    MaxOpenGigs = 1
    PerCycle = 2
    RecentRows = 1
    MaxCycles = 2

    ModelCalls = {c1, c2}
    Estimates = {1, 2}
    Limits = {1, 2}
    NoLimit = NoLimit
    NoUsage = NoUsage
    LastWindow = 1
    MaxPlanChanges = 2
SYMMETRY ServiceSymmetry
INVARIANTS TypeOK AttemptOwnsRow RunBudget QuotaBound EarnsWithinLimits QuotaHolds
PROPERTIES SettledIsFinal RetryNeverForgotten
CHECK_DEADLOCK FALSE
