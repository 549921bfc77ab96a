SPECIFICATION Spec
CONSTANTS
    t1 = t1
    t2 = t2
    t3 = t3
    w1 = w1
    w2 = w2
    a1 = a1
    a2 = a2
    Tasks = {t1, t2}
    Workers = {w1, w2}
    Slots = {1, 2}
    Api = {a1, a2}
    Tenants = {"tenant"}
    TenantOf <- OneTenant
    Priority <- SamePriority
    MaxRetries <- TwoRetries
    WorkerRetries = 2
    Unregistered = {}
    MaxPending = 1
    Timeout <- ShortTimeout
    StaleAfter = 1
    Retention = 2
    MaxBackoff = 1
    StallTicks = 0
    MaxCrashes = 0
    MaxStalls = 0
    Nobody = Nobody

INVARIANT CancelIsFinal

