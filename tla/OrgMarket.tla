------------------------------ MODULE OrgMarket ------------------------------
(***************************************************************************)
(* Organisations in the task market: bidding for one task, its assignment, *)
(* start, submission and acceptance (org-bidding-service.ts), and the      *)
(* organisation wallets, which an administrator may also credit directly   *)
(* (org-wallet-service.ts).  Personas compete for the same task; of their  *)
(* market only what it does to the task row is kept.                       *)
(***************************************************************************)
EXTENDS Integers, Sequences, FiniteSets, Functions

CONSTANTS
    Orgs,
    MarketTask,      \* the task, a key of settlements
    SettleKeys,      \* source task ids that settlements are made for
    Starters,        \* startOrgTask requests in progress at a time
    Payers,          \* acceptOrgTask and settle requests in progress at a time
    OrgReward,       \* in minor units
    PlatformPcts,
    NoOrg,
    MaxOrders,       \* bound of the model: assignments to organisations
    MaxPersonaCalls  \* bound of the model: requests of the personas' market

ASSUME OrgMarketAssumption ==
    /\ MarketTask \in SettleKeys /\ IsFiniteSet(SettleKeys)
    /\ OrgReward \in Nat \ {0}
    /\ PlatformPcts \subseteq 0 .. 100
    /\ NoOrg \notin Orgs
    /\ MaxOrders \in Nat \ {0} /\ MaxPersonaCalls \in Nat

VARIABLES
    orgTask,    \* marketplace_tasks.status
    bids,       \* task_org_applications.status of each organisation
    orders,     \* task_org_assignments, the latest one last
    starter,    \* startOrgTask requests: step and the order they start
    payer,      \* paying requests: step and what they have read
    orgWallet,  \* org_wallets.balance
    orgLedger,  \* sum of the wallet's org_wallet_transactions
    paidTo,     \* org_wallet_settlements: organisation and net amount by source task
    persona,    \* the other market: whether a persona holds the task, requests that act on that
    trees,      \* goal trees made, by order
    unrecorded  \* history: orders submitted or left by a crash before the goal was recorded

orgMarketVars == <<orgTask, bids, orders, starter, payer, orgWallet, orgLedger, paidTo,
                   persona, trees, unrecorded>>

OrderStatus == {"assigned", "in_progress", "submitted", "accepted"}
IdleStarter == [pc |-> "idle", order |-> 0]
IdlePayer == [pc |-> "idle", order |-> 0, org |-> NoOrg, key |-> MarketTask, pct |-> 0, balance |-> 0]
Unpaid == [org |-> NoOrg, amount |-> 0]
Latest == Len(orders)

OrgMarketInit ==
    /\ orgTask = "open"
    /\ bids = [o \in Orgs |-> "none"]
    /\ orders = <<>>
    /\ starter = [x \in Starters |-> IdleStarter]
    /\ payer = [x \in Payers |-> IdlePayer]
    /\ orgWallet = [o \in Orgs |-> 0]
    /\ orgLedger = [o \in Orgs |-> 0]
    /\ paidTo = [k \in SettleKeys |-> Unpaid]
    /\ persona = [holds |-> FALSE, calls |-> 0, left |-> MaxPersonaCalls]
    /\ trees = [n \in 1 .. MaxOrders |-> 0]
    /\ unrecorded = {}
-----------------------------------------------------------------------------
(* Bidding *)

ApplyAsOrg(o) ==
    /\ orgTask = "open"
    /\ bids[o] = "none"
    /\ bids' = [bids EXCEPT ![o] = "submitted"]
    /\ UNCHANGED <<orgTask, orders, starter, payer, orgWallet, orgLedger, paidTo, persona, trees, unrecorded>>

\* One transaction: the task, the application and the assignment.
ConfirmAssignToOrg(o) ==
    /\ orgTask = "open"
    /\ bids[o] = "submitted"
    /\ Latest < MaxOrders
    /\ orgTask' = "accepted"
    /\ bids' = [bids EXCEPT ![o] = "assigned"]
    /\ orders' = Append(orders, [org |-> o, status |-> "assigned", goal |-> FALSE])
    /\ UNCHANGED <<starter, payer, orgWallet, orgLedger, paidTo, persona, trees, unrecorded>>

\* The personas' market takes the task, and its requests, which have read that
\* a persona holds it, later complete it or open it again, also when it is an
\* organisation's by then.
PersonaTakes ==
    /\ orgTask = "open"
    /\ persona.left > 0
    /\ orgTask' = "accepted"
    /\ persona' = [persona EXCEPT !.holds = TRUE]
    /\ UNCHANGED <<bids, orders, starter, payer, orgWallet, orgLedger, paidTo, trees, unrecorded>>

PersonaCall ==
    /\ persona.holds
    /\ persona.left > 0
    /\ persona' = [persona EXCEPT !.calls = @ + 1, !.left = @ - 1]
    /\ UNCHANGED <<orgTask, bids, orders, starter, payer, orgWallet, orgLedger, paidTo, trees, unrecorded>>

PersonaDecides(status) ==
    /\ persona.calls > 0
    /\ orgTask' = IF orgTask = "accepted" THEN status ELSE orgTask
    /\ persona' = [persona EXCEPT !.calls = @ - 1, !.holds = FALSE]
    /\ UNCHANGED <<bids, orders, starter, payer, orgWallet, orgLedger, paidTo, trees, unrecorded>>
-----------------------------------------------------------------------------
(* Work *)

\* UPDATE task_org_assignments SET status = ? WHERE id = ? AND status = ?
InStatus(n, status) == orders[n].status = status

StartRead(x) ==
    /\ starter[x].pc = "idle"
    /\ Latest > 0 /\ InStatus(Latest, "assigned")
    /\ starter' = [starter EXCEPT ![x] = [pc |-> "claim", order |-> Latest]]
    /\ UNCHANGED <<orgTask, bids, orders, payer, orgWallet, orgLedger, paidTo, persona, trees, unrecorded>>

\* assigned -> in_progress before anything is written, or the request ends.
ClaimableOrder(n) == InStatus(n, "assigned")

StartClaim(x) ==
    LET n == starter[x].order IN
    /\ starter[x].pc = "claim"
    /\ IF ClaimableOrder(n)
       THEN /\ orders' = [orders EXCEPT ![n].status = "in_progress"]
            /\ starter' = [starter EXCEPT ![x].pc = "plan"]
       ELSE starter' = [starter EXCEPT ![x] = IdleStarter] /\ UNCHANGED orders
    /\ UNCHANGED <<orgTask, bids, payer, orgWallet, orgLedger, paidTo, persona, trees, unrecorded>>

\* runGoal: the whole tree in one transaction, or nothing.
StartPlan(x, built) ==
    LET n == starter[x].order IN
    /\ starter[x].pc = "plan"
    /\ trees' = IF built THEN [trees EXCEPT ![n] = @ + 1] ELSE trees
    /\ starter' = [starter EXCEPT ![x].pc = IF built THEN "record" ELSE "undo"]
    /\ UNCHANGED <<orgTask, bids, orders, payer, orgWallet, orgLedger, paidTo, persona, unrecorded>>

\* in_progress -> assigned when there is no goal; the goal's id otherwise.
StartEnd(x) ==
    LET n == starter[x].order
        undo == starter[x].pc = "undo" IN
    /\ starter[x].pc \in {"undo", "record"}
    /\ orders' = IF InStatus(n, "in_progress")
                 THEN [orders EXCEPT ![n] = IF undo THEN [@ EXCEPT !.status = "assigned"]
                                                    ELSE [@ EXCEPT !.goal = TRUE]]
                 ELSE orders
    /\ starter' = [starter EXCEPT ![x] = IdleStarter]
    /\ UNCHANGED <<orgTask, bids, payer, orgWallet, orgLedger, paidTo, persona, trees, unrecorded>>

StarterDies(x) ==
    /\ starter[x].pc \in {"plan", "undo", "record"}
    /\ unrecorded' = unrecorded \cup {starter[x].order}
    /\ starter' = [starter EXCEPT ![x] = IdleStarter]
    /\ UNCHANGED <<orgTask, bids, orders, payer, orgWallet, orgLedger, paidTo, persona, trees>>

SubmitOrgTask ==
    /\ Latest > 0 /\ InStatus(Latest, "in_progress")
    /\ orders' = [orders EXCEPT ![Latest].status = "submitted"]
    /\ unrecorded' = IF orders[Latest].goal THEN unrecorded ELSE unrecorded \cup {Latest}
    /\ UNCHANGED <<orgTask, bids, starter, payer, orgWallet, orgLedger, paidTo, persona, trees>>
-----------------------------------------------------------------------------
(* Payment *)

AcceptRead(x, pct) ==
    /\ payer[x].pc = "idle"
    /\ Latest > 0 /\ InStatus(Latest, "submitted")
    /\ payer' = [payer EXCEPT ![x] = [IdlePayer EXCEPT !.pc = "begin", !.order = Latest,
                                                      !.org = orders[Latest].org, !.pct = pct]]
    /\ UNCHANGED <<orgTask, bids, orders, starter, orgWallet, orgLedger, paidTo, persona, trees, unrecorded>>

\* settleOrgTaskPayment: an administrator names organisation and source task.
SettleRead(x, o, k, pct) ==
    /\ payer[x].pc = "idle"
    /\ paidTo[k] = Unpaid
    /\ payer' = [payer EXCEPT ![x] = [IdlePayer EXCEPT !.pc = "begin", !.org = o, !.key = k, !.pct = pct]]
    /\ UNCHANGED <<orgTask, bids, orders, starter, orgWallet, orgLedger, paidTo, persona, trees, unrecorded>>

\* The transaction reads the wallet ...
PayRead(x) ==
    /\ payer[x].pc = "begin"
    /\ payer' = [payer EXCEPT ![x] = [@ EXCEPT !.pc = "commit", !.balance = orgWallet[payer[x].org]]]
    /\ UNCHANGED <<orgTask, bids, orders, starter, orgWallet, orgLedger, paidTo, persona, trees, unrecorded>>

\* ... and commits when its updates each hit their row: the order and the task
\* of an acceptance, the wallet with the balance read.
Completable == orgTask = "accepted"
Acceptable(p) == p.order # 0 => InStatus(p.order, "submitted") /\ Completable
AlreadyPaid(k) == paidTo[k] # Unpaid
Creditable_Lost(p) == TRUE
Creditable(p) == orgWallet[p.org] = p.balance
Committable(p) == Acceptable(p) /\ (AlreadyPaid(p.key) \/ Creditable(p))

PlatformFee(pct) == (OrgReward * pct) \div 100

PayCommit(x) ==
    LET p == payer[x]
        net == OrgReward - PlatformFee(p.pct)
        pays == Committable(p) /\ ~AlreadyPaid(p.key) IN
    /\ p.pc = "commit"
    /\ payer' = [payer EXCEPT ![x] = IdlePayer]
    /\ IF Committable(p) /\ p.order # 0
       THEN /\ orders' = [orders EXCEPT ![p.order].status = "accepted"]
            /\ orgTask' = "completed"
       ELSE UNCHANGED <<orders, orgTask>>
    /\ IF pays
       THEN /\ paidTo' = [paidTo EXCEPT ![p.key] = [org |-> p.org, amount |-> net]]
            /\ orgWallet' = [orgWallet EXCEPT ![p.org] = p.balance + net]
            /\ orgLedger' = [orgLedger EXCEPT ![p.org] = @ + OrgReward - PlatformFee(p.pct)]
       ELSE UNCHANGED <<paidTo, orgWallet, orgLedger>>
    /\ UNCHANGED <<bids, starter, persona, trees, unrecorded>>

OrgMarketNext ==
    \/ \E o \in Orgs : ApplyAsOrg(o) \/ ConfirmAssignToOrg(o)
    \/ PersonaTakes \/ PersonaCall
    \/ \E status \in {"open", "completed"} : PersonaDecides(status)
    \/ \E x \in Starters :
          \/ StartRead(x) \/ StartClaim(x) \/ StartEnd(x) \/ StarterDies(x)
          \/ \E built \in BOOLEAN : StartPlan(x, built)
    \/ SubmitOrgTask
    \/ \E x \in Payers :
          \/ \E pct \in PlatformPcts :
                \/ AcceptRead(x, pct)
                \/ \E o \in Orgs, k \in SettleKeys : SettleRead(x, o, k, pct)
          \/ PayRead(x) \/ PayCommit(x)

OrgMarketSpec == OrgMarketInit /\ [][OrgMarketNext]_orgMarketVars
-----------------------------------------------------------------------------
(* Properties *)

\* Nothing the organisations were credited is lost or counted twice when
\* acceptances and direct settlements race for one wallet.
OrgBooksBalance ==
    \A o \in Orgs :
        LET net == [k \in SettleKeys |-> IF paidTo[k].org = o THEN paidTo[k].amount ELSE 0]
        IN orgWallet[o] = orgLedger[o] /\ orgLedger[o] = SumFunction(net)

\* An acceptance is the outcome of the task: one order at most is accepted, the
\* task is completed, and the reward of that task has been settled.
AcceptedOnce ==
    \A n \in 1 .. Latest : orders[n].status = "accepted" =>
        /\ orgTask = "completed"
        /\ AlreadyPaid(MarketTask)
        /\ \A m \in 1 .. Latest : orders[m].status = "accepted" => m = n

\* However starts race and fail, an order has one goal tree, and the order knows
\* it unless it was submitted, or its starter died, before that was recorded.
OneGoalTree ==
    \A n \in 1 .. Latest :
        /\ trees[n] <= 1
        /\ trees[n] = 1 => \/ orders[n].goal
                           \/ n \in unrecorded
                           \/ \E x \in Starters : starter[x] = [pc |-> "record", order |-> n]

\* An order is worked, accepted and paid once.
OrderSettledOnce == OrgBooksBalance /\ AcceptedOnce /\ OneGoalTree
=============================================================================
