----------------------------- MODULE TokenQuota -----------------------------
(***************************************************************************)
(* QuotaManager over quota_limits and quota_usage, for one resource of one *)
(* tenant, and the calls of ModelRouter that consume it: a call takes its  *)
(* estimate from the window it starts in, waits for the providers, and a   *)
(* failed chat gives the estimate back.  Changes of plan, the worker that  *)
(* prunes old windows and the calendar run meanwhile.  Every statement is  *)
(* one step; the reads of quota_limits share the step of what they decide. *)
(***************************************************************************)
EXTENDS Integers

CONSTANTS
    ModelCalls,     \* the calls of ModelRouter that may be in flight at a time
    Estimates,      \* estimatedTokens of the calls
    Limits,         \* max_per_window of the plans
    NoLimit,        \* no row in quota_limits
    NoUsage,        \* no row in quota_usage
    LastWindow,     \* bound: how many windows go by
    MaxPlanChanges  \* bound: how many times the plan changes

ASSUME QuotaAssumption ==
    /\ Estimates \subseteq Nat \ {0} /\ Limits \subseteq Nat
    /\ NoLimit \notin Int /\ NoUsage \notin Int
    /\ LastWindow \in Nat /\ MaxPlanChanges \in Nat

VARIABLES
    limit,          \* quota_limits.max_per_window
    window,         \* the window that is current on the clock
    used,           \* quota_usage.used of every window
    modelCall,      \* what a call has consumed, and in which window
    planChanges,
    granted,        \* history: tokens a window let through, without failed calls
    peak,           \* history: the largest limit that was in force in a window
    quotaSlips      \* history: what the code leaves open and happened

quotaVars == <<limit, window, used, modelCall, planChanges, granted, peak, quotaSlips>>

Windows == 0 .. LastWindow
Unmetered == -1     \* a call that began while there was no limit
NoCall == [kind |-> "none", tokens |-> 0, from |-> Unmetered]
QuotaSlips == {"misplaced",   \* a refund reached a row its call had not consumed from
               "forgotten"}   \* the current row was pruned while there was no limit

QuotaInit ==
    /\ limit \in Limits
    /\ window = 0
    /\ used = [w \in Windows |-> NoUsage]
    /\ modelCall = [c \in ModelCalls |-> NoCall]
    /\ planChanges = 0
    /\ granted = [w \in Windows |-> 0]
    /\ peak = [w \in Windows |-> IF w = 0 THEN limit ELSE 0]
    /\ quotaSlips = {}

(* An operator named X_y is the variant of X in which a plausible defect y  *)
(* replaces X: no specification uses it; it shows that a property can fail. *)

-----------------------------------------------------------------------------
(* consumeQuota: refused without a write, or one upsert that compares.      *)

Fits_RowOnly(tokens) == used[window] # NoUsage => used[window] < limit
Fits(tokens) == used[window] # NoUsage => used[window] + tokens <= limit

Consumable(tokens) == limit > 0 /\ tokens <= limit /\ Fits(tokens)

ConsumeQuota(c, kind, tokens) ==
    /\ modelCall[c] = NoCall /\ limit # NoLimit /\ Consumable(tokens)
    /\ used' = [used EXCEPT ![window] = IF @ = NoUsage THEN tokens ELSE @ + tokens]
    /\ granted' = [granted EXCEPT ![window] = @ + tokens]
    /\ modelCall' = [modelCall EXCEPT ![c] = [kind |-> kind, tokens |-> tokens, from |-> window]]
    /\ UNCHANGED <<limit, window, planChanges, peak, quotaSlips>>

\* recordUsage: a row at the time of the call itself, which no window reads.
RecordUsage(c, kind, tokens) ==
    /\ modelCall[c] = NoCall /\ limit = NoLimit
    /\ modelCall' = [modelCall EXCEPT ![c] = [kind |-> kind, tokens |-> tokens, from |-> Unmetered]]
    /\ UNCHANGED <<limit, window, used, planChanges, granted, peak, quotaSlips>>

-----------------------------------------------------------------------------
(* ModelRouter: the chain of providers answers, or all of them fail.        *)

Served(c) ==
    /\ modelCall[c] # NoCall
    /\ modelCall' = [modelCall EXCEPT ![c] = NoCall]
    /\ UNCHANGED <<limit, window, used, planChanges, granted, peak, quotaSlips>>

Failed(c) ==
    /\ modelCall' = [modelCall EXCEPT ![c] = NoCall]
    /\ granted' = [w \in Windows |-> IF w = modelCall[c].from THEN granted[w] - modelCall[c].tokens ELSE granted[w]]

\* refundQuota: the row of the window that is current when the call fails.
Refundable == limit # NoLimit /\ used[window] # NoUsage

ChatFails(c) ==
    /\ modelCall[c].kind = "chat"
    /\ Failed(c)
    /\ used' = IF Refundable
               THEN [used EXCEPT ![window] = IF @ > modelCall[c].tokens THEN @ - modelCall[c].tokens ELSE 0]
               ELSE used
    /\ quotaSlips' = quotaSlips \cup
           (IF Refundable /\ modelCall[c].from # window THEN {"misplaced"} ELSE {})
    /\ UNCHANGED <<limit, window, planChanges, peak>>

\* embed refunds nothing, and neither does a process that dies.
CallLost(c) ==
    /\ modelCall[c] # NoCall
    /\ Failed(c)
    /\ UNCHANGED <<limit, window, used, planChanges, peak, quotaSlips>>

-----------------------------------------------------------------------------
(* Plans, pruning and the calendar.                                         *)

ChangePlan(new) ==
    /\ planChanges < MaxPlanChanges /\ new # limit
    /\ planChanges' = planChanges + 1
    /\ limit' = new

SetLimit(new) ==
    /\ ChangePlan(new)
    /\ peak' = [peak EXCEPT ![window] = IF new > @ THEN new ELSE @]
    /\ UNCHANGED <<window, used, modelCall, granted, quotaSlips>>

ClearLimit ==
    /\ ChangePlan(NoLimit)
    /\ UNCHANGED <<window, used, modelCall, granted, peak, quotaSlips>>

\* The retention may be shorter than a window: what spares the current row is
\* its comparison with the start of the window, which needs a limit.
Prunable_ByAge(w, cutoff) == w < cutoff
Prunable(w, cutoff) == w < cutoff /\ (limit = NoLimit \/ w < window)

PruneUsageBefore(cutoff) ==
    /\ \E w \in Windows : used[w] # NoUsage /\ Prunable(w, cutoff)
    /\ used' = [w \in Windows |-> IF Prunable(w, cutoff) THEN NoUsage ELSE used[w]]
    /\ quotaSlips' = quotaSlips \cup
           (IF limit = NoLimit /\ window < cutoff /\ used[window] # NoUsage THEN {"forgotten"} ELSE {})
    /\ UNCHANGED <<limit, window, modelCall, planChanges, granted, peak>>

NextWindow ==
    /\ window < LastWindow
    /\ window' = window + 1
    /\ peak' = [peak EXCEPT ![window + 1] = IF limit = NoLimit THEN 0 ELSE limit]
    /\ UNCHANGED <<limit, used, modelCall, planChanges, granted, quotaSlips>>

-----------------------------------------------------------------------------
QuotaNext ==
    \/ \E c \in ModelCalls :
          \/ \E kind \in {"chat", "embed"}, tokens \in Estimates :
                ConsumeQuota(c, kind, tokens) \/ RecordUsage(c, kind, tokens)
          \/ Served(c) \/ ChatFails(c) \/ CallLost(c)
    \/ \E new \in Limits : SetLimit(new)
    \/ ClearLimit
    \/ \E cutoff \in {window, window + 1} : PruneUsageBefore(cutoff)
    \/ NextWindow

QuotaSpec == QuotaInit /\ [][QuotaNext]_quotaVars

-----------------------------------------------------------------------------
\* Limits, rows and calls have their types.
QuotaTypeOK ==
    /\ limit \in Limits \cup {NoLimit}
    /\ window \in Windows
    /\ used \in [Windows -> Nat \cup {NoUsage}]
    /\ modelCall \in [ModelCalls -> [kind: {"none", "chat", "embed"}, tokens: Estimates \cup {0},
                                     from: Windows \cup {Unmetered}]]
    /\ planChanges \in 0 .. MaxPlanChanges
    /\ granted \in [Windows -> Int]
    /\ peak \in [Windows -> Nat]
    /\ quotaSlips \subseteq QuotaSlips

\* The calls of a window that ran or run never sum up to more than the largest
\* limit that was in force in it, whatever fails, however refunds, plan changes
\* and pruning fall between them.
WithinLimit == \A w \in Windows : granted[w] <= peak[w]

\* The row of a window counts at least the calls that ran or run in it.
UsageCounted == \A w \in Windows : used[w] # NoUsage => used[w] >= granted[w]

\* A tenant gets what its plan allows and no more, but for the two windows the
\* code leaves open: a refund after the window has changed (or of a call that
\* was not metered), and a current row pruned while the plan had no limit.
QuotaHolds == quotaSlips = {} => WithinLimit /\ UsageCounted
=============================================================================
