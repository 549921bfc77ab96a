----------------------------- MODULE MCServices -----------------------------
(***************************************************************************)
(* Instances for the model checker of services that share tables with      *)
(* their peers on other replicas: the task queue, the leases, the earning  *)
(* cycles that run under a lease, the quota of model calls.  They share no *)
(* state; a behaviour picks one of them at the start and steps only that.  *)
(***************************************************************************)
EXTENDS MCTaskQueue, PersonaLease, EarningCycle, TokenQuota

CONSTANTS
    c1, c2, c3, compile, g1, g2,
    MaxFaults       \* bound: crashes and freezes of workers in one behaviour

VARIABLE service    \* what this behaviour steps

\* Two tasks of the market: the cap allows either, or both; or one is the owner's.
MCGigReward == (g1 :> 2) @@ (g2 :> 1)

Runs(s) == service = s
ServiceInit ==
    /\ service \in {"queue", "leases", "earning", "quota"}
    /\ Init /\ LeaseInit
    /\ EarningInit /\ (cap = 2 \/ Runs("earning"))
    /\ own = {} \/ (own = {g2} /\ Runs("earning"))
    /\ QuotaInit /\ (Runs("quota") \/ limit = CHOOSE l \in Limits : TRUE)

ServiceNext ==
    /\ UNCHANGED service
    /\ \/ Runs("queue") /\ Next /\ crashes' + stalls' <= MaxFaults /\ UNCHANGED <<leaseVars, earningVars, quotaVars>>
       \/ Runs("leases") /\ LeaseNext /\ UNCHANGED <<vars, earningVars, quotaVars>>
       \/ Runs("earning") /\ EarningNext /\ UNCHANGED <<vars, leaseVars, quotaVars>>
       \/ Runs("quota") /\ QuotaNext /\ UNCHANGED <<vars, leaseVars, earningVars>>

serviceVars == <<service, vars, leaseVars, earningVars, quotaVars>>

SafeInit == ServiceInit /\ service \in {"queue", "earning", "quota"}
SafeSpec == SafeInit /\ [][ServiceNext]_serviceVars

\* What the fairness of a service asks for is never enabled in its initial states,
\* where a behaviour that steps another one stays.
LiveInit == ServiceInit /\ service \in {"queue", "leases"}
FairServiceSpec == LiveInit /\ [][ServiceNext]_serviceVars /\ Fairness /\ LeaseFairness

\* Cycles, calls and workers that nothing tells apart.
ServiceSymmetry == Permutations({c1, c2}) \cup WorkerSymmetry

\* Every task that was enqueued ends, although handlers hang and a worker dies,
\* and a stall alarm clears when a timed-out handler gives its slot back.
TasksSettle == EveryTaskSettles /\ AlarmClears
=============================================================================
