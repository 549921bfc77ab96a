CONSTANTS
    w1 = w1 w2 = w2 t1 = t1 t2 = t2 c1 = c1 q1 = q1 q2 = q2
    None = None
    Workers = {w1}
    Tasks = {t1, t2}
    Caps = {c1}
    Required <- TwoTasksRequired
    Known <- NothingKnown
    TaskRisk <- TwoTasksRisk
    Manager <- OneWorkerManager
    Rank <- MCRank
    FirstHolder <- TwoTasksHolder
    Calls = {k1}
    LenientCalls = {}
    Wakers = {h1}
    Requests = {q1, q2}
    Approvals = {}
    Handoffs = {}
    WorkersMayApprove = FALSE
    MaxResume = 3
SPECIFICATION MCSpec
PROPERTIES LearntTaskResumes
CHECK_DEADLOCK FALSE
