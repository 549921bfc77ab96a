CONSTANTS
    w1 = w1 w2 = w2 t1 = t1 c1 = c1 k2 = k2 h2 = h2 q1 = q1 q2 = q2
    None = None
    Workers = {w1, w2}
    Tasks = {t1}
    Caps = {c1}
    Required <- MCRequired
    Known <- MCKnown
    TaskRisk <- MCTaskRisk
    Manager <- MCManager
    Rank <- MCRank
    FirstHolder <- MCHolder
    Calls = {k1}
    LenientCalls = {}
    Wakers = {h1}
    Requests = {q1, q2}
    Approvals = {}
    Handoffs = {}
    WorkersMayApprove = TRUE
    MaxResume = 3

    i1 = i1 i2 = i2 r1 = r1 u1 = u1 x1 = x1 x2 = x2
    ToolCalls = {i1, i2}
    Replicas = {r1, r2}
    Callers = {u1, u2}
    NoCaller = NoCaller
    Arguments = {x1, x2, x3}
    RiskyArguments = {x1, x2}
    NoArguments = NoArguments
    ConfirmTokens = {ct1}
    NoToken = NoToken
    ToolCosts = {1, 2}
    MaxPerDay = 1
    DailyBudget = 2
    FailureThreshold = 1
    HalfOpenMax = 1

    p1 = p1 p2 = p2 p3 = p3
    Attempts = {p1, p2, p3}
    Keys = {"key"}
    KeyOf <- MCKeyOf
    HashOf <- MCHashOf
    NoAttempt = NoAttempt

    s1 = s1 s2 = s2 f1 = f1 f2 = f2
    MeterEvents = {1}
    Sources = {s1}
    SourceOf <- MCSourceOf
    Flushers = {f1, f2}
    NoSource = NoSource
    MaxAttempts = 2
    MaxStalls = 2

    d1 = d1 d2 = d2 row1 = row1 row2 = row2 dl1 = dl1 dl2 = dl2
    ObsEvents = {oe1}
    ObsRows = {row1}
    DlqIds = {dl1, dl2}
    NoObs = NoObs
    Drainers = {d1, d2}
    Replayers = {rp1}
    ObsMaxAttempts = 2
    ObsMaxStalls = 1

    hd1 = hd1 hd2 = hd2 rw1 = rw1 rw2 = rw2
    Sessions = {rs1}
    Handlers = {hd1}
    Recoverers = {rw1}
    NoSession = NoSession
    MaxRetries = 1

    st1 = st1 st2 = st2 py1 = py1 py2 = py2
    Orgs = {g1, g2}
    MarketTask = mt
    SettleKeys = {mt, ext}
    Starters = {st1, st2}
    Payers = {py1, py2}
    OrgReward = 3
    PlatformPcts = {50}
    NoOrg = NoOrg
    MaxOrders = 2
    MaxPersonaCalls = 1

    e1 = e1 e2 = e2 e3 = e3 e4 = e4 e5 = e5 g1 = g1 g2 = g2 ch1 = ch1 ch2 = ch2 an1 = an1 an2 = an2
    Staff = {e1, e2, e3, e4, e5}
    Companies = {g1, g2}
    FirstBoss <- MCFirstBoss
    FirstCompany <- MCFirstCompany
    Newcomers = {e5}
    Raiser = e3
    Changes = {ch1, ch2}
    Answers = {an1, an2}
    NoBoss = NoBoss
    MaxDepth = 1
    MaxEscalations = 4
    MaxWrites = 2

    n1 = n1 n2 = n2 n3 = n3 op1 = op1 op2 = op2 ea = ea ec = ec rn1 = rn1 rn2 = rn2 rc1 = rc1
    Emails = {ea, eb}
    Signups = {n1, n2}
    EmailOf <- MCEmailOf
    OperationOf <- MCOperationOf
    ShardOf <- MCShardOf
    Renamers = {rn1}
    Reconcilers = {rc1}
    NoAccount = NoAccount
    NoEmail = NoEmail

    TxWriters = {tw1}
    RequestWriters = {rq1}
    Anchorers = {ks1, ks2}
    Genesis = Genesis
    Nobody = Nobody

    tw1 = tw1 tw2 = tw2 ks2 = ks2 rq2 = rq2 hk1 = hk1 hk2 = hk2
    Hooks = {hk1, hk2}
    PaidPlan = "pro"
    MaxAddOns = 1
SPECIFICATION LiveSpec
PROPERTIES
    RegisteredTaskResumes OutboxesDrain OverdueIsHandled RegisteredLogsIn AuditIsAnchored
CHECK_DEADLOCK FALSE
