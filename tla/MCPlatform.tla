----------------------------- MODULE MCPlatform -----------------------------
(***************************************************************************)
(* One instance of every component that has no run of its own.  The        *)
(* components of this run share no state in the code; a behaviour picks    *)
(* one of them, or one part of its behaviours, at the start and steps only *)
(* that, so the state space is the union of theirs and every property is   *)
(* checked on its component.                                               *)
(***************************************************************************)
EXTENDS Workforce, ToolInvocation, IdempotentRequest, BillingOutbox,
        ObservabilityPipeline, RuntimeSession, OrgMarket, OrgChart,
        IdentityDirectory, AuditChain, SubscriptionBilling, TLC

CONSTANTS
    w1, w2, t1, c1, k2, h2, q1, q2,                                 \* Workforce
    i1, i2, r1, u1, x1, x2, p1, p2, p3, f1, f2, s1, s2,             \* tools to billing
    d1, d2, row1, row2, dl1, dl2,                                   \* ObservabilityPipeline
    hd1, hd2, rw1, rw2,                                             \* RuntimeSession
    st1, st2, py1, py2,                                             \* OrgMarket
    e1, e2, e3, e4, e5, g1, g2, ch1, ch2, an1, an2,                 \* OrgChart
    n1, n2, n3, op1, op2, ea, ec, rn1, rn2, rc1,                    \* IdentityDirectory
    tw1, tw2, ks2, rq2, hk1, hk2                                    \* audit, subscriptions

VARIABLE scenario   \* the part of the platform this behaviour steps

\* Workforce: two workers, one task, one skill.
MCManager == (w1 :> w2) @@ (w2 :> None)
MCRank == [w \in Workers |-> IF w = w1 THEN 1 ELSE 2]
MCRequired == (t1 :> {c1})
MCTaskRisk == (t1 :> "low")
MCHolder == (t1 :> w1)
MCKnown == [w \in Workers |-> {}]
Passed(w) == [status |-> "passed", persona |-> w, cap |-> c1, origin |-> t1]

\* ToolInvocation: two calls that differ in their replica or in their user.
Here == [replica |-> r1, caller |-> u1]

\* IdempotentRequest: a request, its retry, and another one with the same key.
MCKeyOf == [a \in Attempts |-> "key"]
MCHashOf == (p1 :> "body1") @@ (p2 :> "body1") @@ (p3 :> "body2")

\* BillingOutbox: the third event repeats the first.
MCSourceOf == [e \in MeterEvents |-> IF e = 2 THEN s2 ELSE s1]

\* OrgChart: a chain of three and a newcomer in one company, one worker in the other.
MCFirstBoss == [w \in Staff |-> IF w = e2 THEN e1 ELSE IF w = e3 THEN e2 ELSE NoBoss]
MCFirstCompany == [w \in Staff |-> IF w = e4 THEN g2 ELSE g1]

\* IdentityDirectory: two sign-ups for one address that fall on different shards, and
\* the retry of the first.
MCEmailOf == [a \in Signups |-> ea]
MCOperationOf == [a \in Signups |-> IF a = n2 THEN op2 ELSE op1]
MCShardOf == [a \in Signups |-> IF a = n2 THEN "shard2" ELSE "shard1"]
-----------------------------------------------------------------------------
BesidesWorkforce == <<toolVars, idemVars, outboxVars, obsVars, runtimeVars, orgMarketVars,
    orgChartVars, identityVars, auditVars, subscriptionVars>>
BesidesTools == <<vars, idemVars, outboxVars, obsVars, runtimeVars, orgMarketVars, orgChartVars,
    identityVars, auditVars, subscriptionVars>>
BesidesHttp == <<vars, toolVars, outboxVars, obsVars, runtimeVars, orgMarketVars, orgChartVars,
    identityVars, auditVars, subscriptionVars>>
BesidesBilling == <<vars, toolVars, idemVars, obsVars, runtimeVars, orgMarketVars, orgChartVars,
    identityVars, auditVars, subscriptionVars>>
BesidesObs == <<vars, toolVars, idemVars, outboxVars, runtimeVars, orgMarketVars, orgChartVars,
    identityVars, auditVars, subscriptionVars>>
BesidesRuntime == <<vars, toolVars, idemVars, outboxVars, obsVars, orgMarketVars, orgChartVars,
    identityVars, auditVars, subscriptionVars>>
BesidesMarket == <<vars, toolVars, idemVars, outboxVars, obsVars, runtimeVars, orgChartVars,
    identityVars, auditVars, subscriptionVars>>
BesidesChart == <<vars, toolVars, idemVars, outboxVars, obsVars, runtimeVars, orgMarketVars,
    identityVars, auditVars, subscriptionVars>>
BesidesIdentity == <<vars, toolVars, idemVars, outboxVars, obsVars, runtimeVars, orgMarketVars,
    orgChartVars, auditVars, subscriptionVars>>
BesidesAudit == <<vars, toolVars, idemVars, outboxVars, obsVars, runtimeVars, orgMarketVars,
    orgChartVars, identityVars, subscriptionVars>>
BesidesSubscription == <<vars, toolVars, idemVars, outboxVars, obsVars, runtimeVars,
    orgMarketVars, orgChartVars, identityVars, auditVars>>

On(component) == scenario = component
platformVars == <<scenario, vars, toolVars, idemVars, outboxVars, obsVars, runtimeVars,
    orgMarketVars, orgChartVars, identityVars, auditVars, subscriptionVars>>

Scenarios == {"skills", "wakes", "approvals", "tools", "http", "billing", "obs", "runtime", "orgwork",
              "orgpay", "chart", "escalation", "signups", "renames", "retries", "audit", "stripe",
              "plans"}

\* "skills": nothing is learned yet, no approval is asked for, no handoff made.
\* "wakes": two replicas wake the task.
\* "approvals": both personas have passed the exam; approvals and handoffs race.
PlatformInit ==
    /\ scenario \in Scenarios
    /\ IF On("approvals") THEN InitWith((q1 :> Passed(w1)) @@ (q2 :> Passed(w2))) ELSE Init
    /\ ToolInit /\ origin[i1] = Here
    /\ IF On("tools") THEN (origin[i2].replica = r1) # (origin[i2].caller = u1)
                      ELSE origin[i2] = Here
    /\ IdemInit /\ OutboxInit /\ ObsInit /\ RuntimeInit /\ OrgMarketInit /\ OrgChartInit
    /\ IdentityInit /\ AuditInit /\ SubscriptionInit

\* What keeps the scenarios of one component small next to each other.
Narrowed ==
    \* no approvals and handoffs; the second learning request between calls of k2
    /\ On("skills") => /\ approval' = approval /\ handoff' = handoff
                       /\ call'[k2].pc = "idle" \/ request'[q2] = NoRequest
    \* one call, and nobody leaves; a second replica wakes here only
    /\ On("wakes") => /\ approval' = approval /\ handoff' = handoff /\ worker' = worker
                      /\ call'[k2] = IdleCall
    /\ On("wakes") \/ (h2 \in Wakers => wake'[h2] = IdleWake)
    \* a confirmation is presented with what needs one
    /\ On("tools") => \A i \in ToolCalls :
                          toolCall'[i].args \in RiskyArguments \/ toolCall'[i].token = NoToken
    \* two replicas recover while one request runs, or one while two run
    /\ On("runtime") => Cardinality({x \in Recoverers : recovery'[x] # {}})
                            + Cardinality({h \in Handlers : handling'[h].op # "none"}) < 4
    \* acceptances only; then direct settlements, starts that work one by one, and
    \* one request of a persona
    /\ On("orgwork") => \A x \in Payers : payer'[x].pc = "idle" \/ payer'[x].order # 0
    /\ On("orgpay") => /\ \E x \in Starters : starter'[x] = IdleStarter
                       /\ unrecorded' = {} /\ persona'.left > 0
                       /\ \A n \in 1 .. Len(orders') :
                             orders'[n].goal \/ orders'[n].status \in {"assigned", "in_progress"}
    \* two addresses with the recovery worker; three without it and without failures; two
    \* requests with one key
    /\ On("signups") => /\ directory'[ec] = NoEntry /\ \A x \in Renamers : rename'[x].new # ec
                        /\ (\E x \in Renamers : rename'[x] = IdleRename) \/ reconciler'[rc1] = IdleReconciler
    /\ On("renames") => /\ reconciler' = reconciler /\ (\E x \in Renamers : rename'[x] = IdleRename)
                        /\ \A e \in Emails : ~directory'[e].overdue
    /\ On("retries") => /\ directory'[ec] = NoEntry /\ \A x \in Renamers : rename'[x].new # ec
                        /\ \E x \in Renamers : rename'[x] = IdleRename
    /\ \A a \in Signups : signup'[a] = IdleSignup \/ a # (IF On("retries") THEN n2 ELSE n3)
    \* the second service signs until the last request is audited
    /\ On("audit") => anchorer'[ks2] = IdleAnchorer \/ auditWriter'[rq2].pc = "lock"
    \* Stripe's events on two replicas; then one at a time, of those that change the plan,
    \* beside a purchase or a change by the tenant, or these two, until something races
    /\ On("stripe") => purchase' = purchase /\ switch' = switch
    /\ On("plans") => /\ \E h \in Hooks : hook'[h].pc = "idle"
                      /\ \/ purchase' = IdlePurchase \/ switch' = IdleSwitch
                         \/ \A h \in Hooks : hook'[h].pc = "idle"
                      /\ ~subRaced /\ recorded' \cap {"paid", "failed"} = {}

\* Escalations while the company they are in may be absorbed.
OneMerger ==
    /\ version = 0
    /\ \E x \in Changes :
          \/ (\A y \in Changes : ~change[y].busy) /\ \E m \in Staff : Absorb(x, g1, m)
          \/ Write(x)

PlatformNext ==
    /\ UNCHANGED scenario
    /\ \/ (On("skills") \/ On("wakes") \/ On("approvals")) /\ Next /\ UNCHANGED BesidesWorkforce
       \/ On("tools") /\ ToolNext /\ UNCHANGED BesidesTools
       \/ On("http") /\ IdemNext /\ UNCHANGED BesidesHttp
       \/ On("billing") /\ OutboxNext /\ UNCHANGED BesidesBilling
       \/ On("obs") /\ ObsNext /\ UNCHANGED BesidesObs
       \/ On("runtime") /\ RuntimeNext /\ UNCHANGED BesidesRuntime
       \/ (On("orgwork") \/ On("orgpay")) /\ OrgMarketNext /\ UNCHANGED BesidesMarket
       \/ On("chart") /\ ChartNext /\ UNCHANGED BesidesChart
       \/ On("escalation") /\ (EscalationNext \/ OneMerger) /\ UNCHANGED BesidesChart
       \/ (On("signups") \/ On("renames") \/ On("retries")) /\ IdentityNext /\ UNCHANGED BesidesIdentity
       \/ On("audit") /\ AuditNext /\ UNCHANGED BesidesAudit
       \/ (On("stripe") \/ On("plans")) /\ SubscriptionNext /\ UNCHANGED BesidesSubscription

\* The fairness of each component, for the behaviours that step it.
PlatformFairness ==
    /\ \A k \in Wakers :
          /\ WF_vars(On("skills") /\ Sweep(k))
          /\ WF_vars(\E e \in wake[k].todo : WakeRead(k, e))
          /\ WF_vars(WakeWrite(k))
    /\ \A f \in Flushers : WF_outboxVars(On("billing") /\ FlushStep(f))
    /\ \A d \in Drainers : WF_obsVars(On("obs") /\ DrainStep(d))
    /\ \A x \in Recoverers :
          /\ WF_runtimeVars(RecoveryStep(x))
          /\ \A s \in Sessions :
                SF_runtimeVars(\E row \in recovery[x] : row.session = s /\ Recover(x, row))
    /\ IdentityFairness
    /\ AuditFairness

\* Actors and rows that nothing tells apart.  Two exchanges of twins leave the
\* specification as it is; those of one component that may be exchanged without each
\* other are in different ones.
FirstTwins == {{f1, f2}, {x1, x2}, {d1, d2}, {p1, p2}, {hd1, hd2}, {py1, py2}, {ch1, ch2},
               {an1, an2}, {rn1, rn2}, {tw1, tw2}, {hk1, hk2}}
SecondTwins == {{s1, s2}, {row1, row2}, {dl1, dl2}, {rw1, rw2}, {st1, st2}}
Exchange(pairs) ==
    [m \in UNION (FirstTwins \cup SecondTwins) |->
        IF m \in UNION pairs THEN CHOOSE o \in UNION {p \in pairs : m \in p} : o # m ELSE m]
Interchangeable == {Exchange(pairs) : pairs \in {FirstTwins, SecondTwins}}

PlatformSpec == PlatformInit /\ [][PlatformNext /\ Narrowed]_platformVars
LiveInit == PlatformInit /\ scenario \in {"skills", "billing", "obs", "runtime", "signups", "audit"}
LiveSpec == LiveInit /\ [][PlatformNext]_platformVars /\ PlatformFairness

\* Neither outbox keeps a row for ever: usage is reported or given up, platform
\* events are counted or buried, although flushers and drainers stall and die.
OutboxesDrain == UsageSettled /\ ObsSettled
=============================================================================
