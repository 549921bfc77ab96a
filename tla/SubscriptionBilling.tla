------------------------- MODULE SubscriptionBilling -------------------------
(***************************************************************************)
(* The subscription of one tenant: Stripe events                           *)
(* (stripe-webhook-service.ts), add-on purchases and changes of plan over  *)
(* the API (billing-service.ts), and the quotas and entitlements they      *)
(* derive from it (plans.ts, entitlement-service.ts).  Transactions of     *)
(* several replicas run at READ COMMITTED: a handler reads the             *)
(* subscription without locking it.                                        *)
(***************************************************************************)
EXTENDS Naturals, FiniteSets

CONSTANTS
    Hooks,       \* webhook requests in progress at a time
    PaidPlan,    \* the plan of the configured price
    MaxAddOns    \* bound of the model: active add-ons of a kind

ASSUME SubscriptionAssumption == PaidPlan # "free" /\ MaxAddOns \in Nat

\* The events a customer's subscription can bring, each with one id: a price that
\* maps to a plan, an update without one, the end, and the invoices.
StripeEvents == {"subscribed", "updated", "deleted", "paid", "failed"}
Plans == {"free", PaidPlan}

VARIABLES
    sub,        \* subscriptions: plan_id and status
    addOns,     \* active tenant_add_ons of each kind
    quota,      \* quota_limits
    entitled,   \* entitlements
    recorded,   \* webhook_events
    hook,       \* webhook requests: step, event, the row they read, what they will commit
    purchase,   \* purchaseAddOn: step, the kind bought, and what it has read
    switch,     \* subscribeTenant: step, plan, and what it has read
    applied,    \* history: how often the handler of each event has committed
    leftover,   \* history: a feature was left entitled although its add-on had ended
    subRaced    \* history: something was derived from a row that changed meanwhile,
                \* or a change of plan died half way

subscriptionVars ==
    <<sub, addOns, quota, entitled, recorded, hook, purchase, switch, applied, leftover, subRaced>>

\* Add-ons raise a resource that every plan limits (simulation, llm_tokens), or unlock
\* a feature that no plan has (advanced_models, priority_queue).  Of each class of
\* resources one stands for all: those that plans and add-ons limit, those that only
\* plans limit (conversation_message), and the features.
AddOnKinds == {"shared", "feature"}
NoAddOns == [k \in AddOnKinds |-> 0]
Less(a, b) == [k \in AddOnKinds |-> a[k] - b[k]]
Bought(a, kind) == [a EXCEPT ![kind] = @ + 1]

\* The limit of a shared resource, by what it is computed from.
Basis(plan, n) == [plan |-> plan, addOns |-> n]
Subscription(plan, status) == [plan |-> plan, status |-> status]
FreeSub == Subscription("free", "active")
IdleHook == [pc |-> "idle", event |-> "none", seen |-> FreeSub, next |-> FreeSub,
             cancelled |-> NoAddOns, addOns |-> NoAddOns]
IdlePurchase == [pc |-> "idle", kind |-> "shared", plan |-> "free", addOns |-> NoAddOns]
IdleSwitch == [pc |-> "idle", plan |-> "free", seen |-> "free", addOns |-> NoAddOns]

SubscriptionInit ==
    /\ sub = FreeSub /\ addOns = NoAddOns
    /\ quota = [plan |-> "free", shared |-> Basis("free", 0)]
    /\ entitled = [shared |-> Basis("free", 0), feature |-> 0]
    /\ recorded = {}
    /\ hook = [h \in Hooks |-> IdleHook]
    /\ purchase = IdlePurchase /\ switch = IdleSwitch
    /\ applied = [e \in StripeEvents |-> 0]
    /\ leftover = FALSE /\ subRaced = FALSE

(* syncTenantEntitlements upserts what the plan and the add-ons it has read    *)
(* limit, and deletes nothing: without an add-on for it, a feature's row stays.*)
FeatureRow(seen) == IF seen["feature"] > 0 THEN seen["feature"] ELSE entitled.feature
Outlives(seen) == seen["feature"] = 0 /\ entitled.feature > 0

Sync(metered, plan, seen) ==
    /\ quota' = [plan |-> metered, shared |-> Basis(plan, seen["shared"])]
    /\ entitled' = [shared |-> Basis(plan, seen["shared"]), feature |-> FeatureRow(seen)]
    /\ leftover' = (leftover \/ Outlives(seen))
-----------------------------------------------------------------------------
(* processEvent *)

HookStart(h, e) ==
    /\ hook[h].pc = "idle"
    /\ hook' = [hook EXCEPT ![h] = [IdleHook EXCEPT !.pc = "record", !.event = e]]
    /\ UNCHANGED <<sub, addOns, quota, entitled, recorded, purchase, switch, applied, leftover, subRaced>>

\* INSERT ... ON CONFLICT DO NOTHING waits for a transaction that has inserted the
\* same id; an event that is known ends the request.
Inserting(e) == \E h \in Hooks : hook[h].event = e /\ hook[h].pc \in {"read", "write", "derive", "commit"}
FirstDelivery_Always(e) == TRUE
FirstDelivery(e) == e \notin recorded

HookRecord(h) ==
    /\ hook[h].pc = "record"
    /\ ~Inserting(hook[h].event)
    /\ hook' = IF FirstDelivery(hook[h].event) THEN [hook EXCEPT ![h].pc = "read"]
                                               ELSE [hook EXCEPT ![h] = IdleHook]
    /\ UNCHANGED <<sub, addOns, quota, entitled, recorded, purchase, switch, applied, leftover, subRaced>>

HookRead(h) ==
    /\ hook[h].pc = "read"
    /\ hook' = [hook EXCEPT ![h].pc = "write", ![h].seen = sub]
    /\ UNCHANGED <<sub, addOns, quota, entitled, recorded, purchase, switch, applied, leftover, subRaced>>

\* The row after the handler's update: an upsert writes the plan it has read when
\* the price is unknown, an invoice keeps the plan the row has now.
Updated(e, seen) ==
    CASE e = "subscribed" -> Subscription(PaidPlan, "active")
      [] e = "updated"    -> Subscription(seen.plan, "active")
      [] e = "deleted"    -> Subscription("free", "canceled")
      [] e = "paid"       -> IF sub.status \in {"past_due", "canceled"} THEN [sub EXCEPT !.status = "active"] ELSE sub
      [] e = "failed"     -> [sub EXCEPT !.status = "past_due"]

\* Quotas and entitlements are derived again when the plan differs from the one
\* read, when a subscription in arrears is paid, and at the end.
Derives(r) ==
    \/ r.event \in {"subscribed", "updated"} /\ r.next.plan # r.seen.plan
    \/ r.event = "paid" /\ r.seen.status = "past_due"
    \/ r.event = "deleted"

\* The update waits for a transaction that has updated the row; from then on this
\* one holds it.  The end of a subscription cancels the add-ons it finds.
RowHeld == \E h \in Hooks : hook[h].pc \in {"derive", "commit"}

HookWrite(h) ==
    LET r == [hook[h] EXCEPT !.next = Updated(hook[h].event, hook[h].seen),
                             !.cancelled = IF hook[h].event = "deleted" THEN addOns ELSE NoAddOns]
    IN
    /\ hook[h].pc = "write"
    /\ ~RowHeld
    /\ hook' = [hook EXCEPT ![h] = [r EXCEPT !.pc = IF Derives(r) THEN "derive" ELSE "commit"]]
    /\ subRaced' = (subRaced \/ sub # hook[h].seen)
    /\ UNCHANGED <<sub, addOns, quota, entitled, recorded, purchase, switch, applied, leftover>>

\* computeEffectiveLimits: the plan is the one this transaction has written.
HookDerive(h) ==
    /\ hook[h].pc = "derive"
    /\ hook' = [hook EXCEPT ![h].pc = "commit", ![h].addOns = Less(addOns, hook[h].cancelled)]
    /\ UNCHANGED <<sub, addOns, quota, entitled, recorded, purchase, switch, applied, leftover, subRaced>>

QuotaPlan(r) == IF r.event = "paid" THEN r.seen.plan ELSE r.next.plan

HookCommit(h) ==
    LET r == hook[h] IN
    /\ r.pc = "commit"
    /\ sub' = r.next
    /\ recorded' = recorded \cup {r.event}
    /\ applied' = [applied EXCEPT ![r.event] = @ + 1]
    /\ addOns' = Less(addOns, r.cancelled)
    /\ IF Derives(r) THEN Sync(QuotaPlan(r), r.next.plan, r.addOns) ELSE UNCHANGED <<quota, entitled, leftover>>
    /\ subRaced' = (subRaced \/ (Derives(r) /\ r.addOns # addOns'))
    /\ hook' = [hook EXCEPT ![h] = IdleHook]
    /\ UNCHANGED <<purchase, switch>>

\* The transaction fails or its replica dies; Stripe delivers the event again.
HookFails(h) ==
    /\ hook[h].pc \in {"read", "write", "derive", "commit"}
    /\ hook' = [hook EXCEPT ![h] = IdleHook]
    /\ UNCHANGED <<sub, addOns, quota, entitled, recorded, purchase, switch, applied, leftover, subRaced>>
-----------------------------------------------------------------------------
(* purchaseAddOn, one transaction: insert, read plan and add-ons, derive *)

PurchaseReadPlan(kind) ==
    /\ purchase.pc = "idle" /\ addOns[kind] < MaxAddOns
    /\ purchase' = [purchase EXCEPT !.pc = "read", !.kind = kind, !.plan = sub.plan]
    /\ UNCHANGED <<sub, addOns, quota, entitled, recorded, hook, switch, applied, leftover, subRaced>>

PurchaseReadAddOns ==
    /\ purchase.pc = "read"
    /\ purchase' = [purchase EXCEPT !.pc = "commit", !.addOns = Bought(addOns, purchase.kind)]
    /\ UNCHANGED <<sub, addOns, quota, entitled, recorded, hook, switch, applied, leftover, subRaced>>

PurchaseCommit ==
    /\ purchase.pc = "commit"
    /\ addOns' = Bought(addOns, purchase.kind)
    /\ Sync(quota.plan, purchase.plan, purchase.addOns)
    /\ subRaced' = (subRaced \/ purchase.plan # sub.plan \/ purchase.addOns # addOns')
    /\ purchase' = IdlePurchase
    /\ UNCHANGED <<sub, recorded, hook, switch, applied>>

\* The replica dies, or the purchase and a webhook wait for each other's rows.
PurchaseFails ==
    /\ purchase.pc # "idle"
    /\ purchase' = IdlePurchase
    /\ UNCHANGED <<sub, addOns, quota, entitled, recorded, hook, switch, applied, leftover, subRaced>>
-----------------------------------------------------------------------------
(* subscribeTenant: every statement is a transaction of its own *)

SwitchPlan(plan) ==
    /\ switch.pc = "idle" /\ ~RowHeld
    /\ sub' = Subscription(plan, "active")
    /\ switch' = [switch EXCEPT !.pc = "quota", !.plan = plan]
    /\ UNCHANGED <<addOns, quota, entitled, recorded, hook, purchase, applied, leftover, subRaced>>

\* syncPlanToQuota: the resources the plan shares with add-ons, then the others.
SwitchSharedQuota ==
    /\ switch.pc = "quota"
    /\ quota' = [quota EXCEPT !.shared = Basis(switch.plan, 0)]
    /\ switch' = [switch EXCEPT !.pc = "metered"]
    /\ UNCHANGED <<sub, addOns, entitled, recorded, hook, purchase, applied, leftover, subRaced>>

SwitchQuota ==
    /\ switch.pc = "metered"
    /\ quota' = [quota EXCEPT !.plan = switch.plan]
    /\ subRaced' = (subRaced \/ sub.plan # switch.plan)
    /\ switch' = [switch EXCEPT !.pc = "plan"]
    /\ UNCHANGED <<sub, addOns, entitled, recorded, hook, purchase, applied, leftover>>

\* computeEffectiveLimits: two queries.
SwitchReadPlan ==
    /\ switch.pc = "plan"
    /\ switch' = [switch EXCEPT !.pc = "addOns", !.seen = sub.plan]
    /\ UNCHANGED <<sub, addOns, quota, entitled, recorded, hook, purchase, applied, leftover, subRaced>>

SwitchReadAddOns ==
    /\ switch.pc = "addOns"
    /\ switch' = [switch EXCEPT !.pc = "entitle", !.addOns = addOns]
    /\ UNCHANGED <<sub, addOns, quota, entitled, recorded, hook, purchase, applied, leftover, subRaced>>

\* syncTenantEntitlements: row by row, the entitlement before the quota.
SwitchBasis == Basis(switch.seen, switch.addOns["shared"])
SwitchIsStale == SwitchBasis # Basis(sub.plan, addOns["shared"])

SwitchEntitle ==
    /\ switch.pc = "entitle"
    /\ entitled' = [entitled EXCEPT !.shared = SwitchBasis]
    /\ subRaced' = (subRaced \/ SwitchIsStale)
    /\ switch' = [switch EXCEPT !.pc = "limit"]
    /\ UNCHANGED <<sub, addOns, quota, recorded, hook, purchase, applied, leftover>>

SwitchLimit ==
    /\ switch.pc = "limit"
    /\ quota' = [quota EXCEPT !.shared = SwitchBasis]
    /\ subRaced' = (subRaced \/ SwitchIsStale)
    /\ switch' = [switch EXCEPT !.pc = "feature"]
    /\ UNCHANGED <<sub, addOns, entitled, recorded, hook, purchase, applied, leftover>>

SwitchFeature ==
    /\ switch.pc = "feature"
    /\ entitled' = [entitled EXCEPT !.feature = FeatureRow(switch.addOns)]
    /\ leftover' = (leftover \/ Outlives(switch.addOns))
    /\ subRaced' = (subRaced \/ switch.addOns["feature"] # addOns["feature"])
    /\ switch' = IdleSwitch
    /\ UNCHANGED <<sub, addOns, quota, recorded, hook, purchase, applied>>

SwitchDies ==
    /\ switch.pc # "idle"
    /\ subRaced' = TRUE
    /\ switch' = IdleSwitch
    /\ UNCHANGED <<sub, addOns, quota, entitled, recorded, hook, purchase, applied, leftover>>

SwitchStep ==
    \/ SwitchSharedQuota \/ SwitchQuota \/ SwitchReadPlan \/ SwitchReadAddOns
    \/ SwitchEntitle \/ SwitchLimit \/ SwitchFeature

SubscriptionNext ==
    \/ \E h \in Hooks :
          \/ \E e \in StripeEvents : HookStart(h, e)
          \/ HookRecord(h) \/ HookRead(h) \/ HookWrite(h) \/ HookDerive(h) \/ HookCommit(h) \/ HookFails(h)
    \/ \E kind \in AddOnKinds : PurchaseReadPlan(kind)
    \/ PurchaseReadAddOns \/ PurchaseCommit \/ PurchaseFails
    \/ \E plan \in Plans : SwitchPlan(plan)
    \/ SwitchStep \/ SwitchDies

SubscriptionSpec == SubscriptionInit /\ [][SubscriptionNext]_subscriptionVars
-----------------------------------------------------------------------------
(* Properties *)

\* An event takes effect once, however often Stripe delivers it, on whatever
\* replicas, and whenever they die: its effect and its record are one transaction.
EventAppliedOnce ==
    \A e \in StripeEvents : applied[e] = IF e \in recorded THEN 1 ELSE 0

\* Between requests the tenant has the quotas and the entitlements that its plan and
\* its add-ons give it, in whatever order the events arrive: only a request that used a
\* row which changed meanwhile, or a plan change that died, can leave others.
PlanLimitsFollow ==
    \/ switch.pc # "idle"
    \/ LET due == Basis(sub.plan, addOns["shared"]) IN
       quota = [plan |-> sub.plan, shared |-> due] /\ entitled.shared = due

\* A feature is entitled to the extent of its active add-ons.  When the last one has
\* ended, and only then, its entitlement may outlive it: no statement takes it back.
FeaturesFollow ==
    \/ entitled.feature = addOns["feature"]
    \/ addOns["feature"] = 0 /\ leftover

LimitsFollowPlan == subRaced \/ (PlanLimitsFollow /\ FeaturesFollow)

\* What Stripe reported is in force: each event once, with the limits it brings.
PlanIsInForce == EventAppliedOnce /\ LimitsFollowPlan
=============================================================================
