---------------------------- MODULE EarningCycle ----------------------------
(***************************************************************************)
(* PersonaEarningService.runEarningCycle for one persona.  A cycle holds   *)
(* the persona's "earning" lease, reads what is open and what the persona  *)
(* has at stake, and takes the tasks one by one: a decision and an         *)
(* application through the tool pipeline, with awaits in which publishers  *)
(* assign, answer and close tasks.  The reads at the start of a cycle are  *)
(* one step.  The persona stays active and its policy as it is; AML        *)
(* windows, categories, new publishers and the decision engine only ever   *)
(* decline: any task may be.                                               *)
(***************************************************************************)
EXTENDS LeaseTable, FiniteSets, Sequences, Functions

CONSTANTS
    Cycles,         \* the cycles that may be in progress at a time
    Gigs,           \* the tasks of the market
    GigReward,      \* [Gigs -> Nat \ {0}]
    Caps,           \* dailyRewardExposureCap of the personas
    MaxOpenGigs,    \* maxConcurrentTasks
    PerCycle,       \* maxTasksPerCycle
    RecentRows,     \* LIMIT of the query behind a persona's marketplaceTasks
    MaxCycles       \* bound: how many cycles get the lease

ASSUME EarningAssumption ==
    /\ IsFiniteSet(Gigs)
    /\ GigReward \in [Gigs -> Nat \ {0}] /\ Caps \subseteq Nat
    /\ MaxOpenGigs \in Nat /\ MaxCycles \in 0 .. MaxTokens
    /\ PerCycle \in Nat \ {0} /\ RecentRows \in Nat \ {0}

VARIABLES
    cap,            \* the persona's dailyRewardExposureCap
    own,            \* the tasks that the persona's owner publishes
    gig,            \* marketplace_tasks.status, as this persona sees it
    updated,        \* ORDER BY updated_at DESC: pairs of published tasks, the newer first
    bid,            \* status of the persona's application
    before,         \* the accepted tasks whose accepted_at is over 24 hours old
    earnLease,      \* the row of persona_leases
    cycles,         \* how many cycles got the lease, and the last holder token
    cycle,          \* what a cycle in progress has read
    earnSlips       \* history: what the code leaves open and happened

earningVars == <<cap, own, gig, updated, bid, before, earnLease, cycles, cycle, earnSlips>>
persona == <<cap, own>>
market == <<persona, gig, updated, bid, before>>

GigStatus == {"unpublished", "open", "accepted", "completed", "elsewhere"}
EarnSlips == {"pending",    \* a cycle began while an application was undecided
              "unseen",     \* a cycle began with an accepted task beyond the recent rows
              "overrun",    \* a cycle began because another outlived its lease
              "half",       \* an application was made by a call that then failed
              "batch"}      \* a cycle applied for a second task

IdleCycle == [token |-> NoToken, todo |-> <<>>, stake |-> 0, inFlight |-> 0, applying |-> FALSE, won |-> 0]

EarningInit ==
    /\ cap \in Caps /\ own \in SUBSET Gigs
    /\ gig = [g \in Gigs |-> "unpublished"]
    /\ updated = {}
    /\ bid = [g \in Gigs |-> "none"]
    /\ before = {}
    /\ earnLease = NoRow
    /\ cycles = 0
    /\ cycle = [c \in Cycles |-> IdleCycle]
    /\ earnSlips = {}

(* An operator named X_y is the variant of X in which a plausible defect y  *)
(* replaces X: no specification uses it; it shows that a property can fail. *)

Accepted == {g \in Gigs : gig[g] = "accepted"}
Stake(gigs) == SumFunctionOnSet(GigReward, gigs \ before)

Published == {g \in Gigs : gig[g] # "unpublished"}
\* ORDER BY updated_at DESC LIMIT n
Newest(gigs, n) == {g \in gigs : Cardinality({h \in gigs : <<h, g>> \in updated}) < n}

\* published by the owner or assigned to the persona
Related(g) == g \in own \/ gig[g] \in {"accepted", "completed"}
Recent == Newest({g \in Published : Related(g)}, RecentRows)

IsOpen(g) == gig[g] = "open"
FirstOpen == Newest({g \in Published : IsOpen(g)}, PerCycle)
InOrder(rows) == \A m, n \in DOMAIN rows : m < n => <<rows[m], rows[n]>> \in updated

Running(c) == cycle[c].token # NoToken

-----------------------------------------------------------------------------
(* A cycle.                                                                 *)

\* withLease(personaId, 'earning', ...): undefined when somebody holds it.
HasLease_Unasked == TRUE
HasLease == Grantable(earnLease)

BeginCycle(c) ==
    LET known == Accepted \cap Recent IN
    /\ ~Running(c) /\ cycles < MaxCycles /\ HasLease
    /\ cycles' = cycles + 1
    /\ earnLease' = Granted(cycles + 1)
    /\ \E rows \in [1 .. Cardinality(FirstOpen) -> FirstOpen] :
          /\ InOrder(rows)
          /\ cycle' = [cycle EXCEPT ![c] =
                 [token |-> cycles + 1, todo |-> rows, stake |-> Stake(known),
                  inFlight |-> Cardinality(known), applying |-> FALSE, won |-> 0]]
    /\ earnSlips' = earnSlips
           \cup (IF \E g \in Gigs : IsOpen(g) /\ bid[g] = "submitted" THEN {"pending"} ELSE {})
           \cup (IF Accepted \subseteq Recent THEN {} ELSE {"unseen"})
           \cup (IF earnLease.left = 0 /\ \E d \in Cycles : Running(d) THEN {"overrun"} ELSE {})
    /\ UNCHANGED market

\* Done with the first task of its list.
Drop(c) == [cycle[c] EXCEPT !.todo = Tail(@), !.applying = FALSE]
Works(c) == Running(c) /\ cycle[c].todo # <<>>

\* Forbidden, put up for review or skipped.
Decline(c) ==
    /\ Works(c) /\ ~cycle[c].applying
    /\ cycle' = [cycle EXCEPT ![c] = Drop(c)]
    /\ UNCHANGED <<market, earnLease, cycles, earnSlips>>

\* evaluateEarningAdmission: autonomous, and the engine accepts.
Admitted(c, g) ==
    /\ g \notin own
    /\ cycle[c].inFlight < MaxOpenGigs
    /\ cycle[c].stake + GigReward[g] <= cap

DecideAccept(c) ==
    /\ Works(c) /\ ~cycle[c].applying /\ Admitted(c, Head(cycle[c].todo))
    /\ cycle' = [cycle EXCEPT ![c].applying = TRUE]
    /\ UNCHANGED <<market, earnLease, cycles, earnSlips>>

\* applyToTask, through the pipeline and tool marketplace.act.
Bid(g) ==
    /\ IsOpen(g) /\ bid[g] = "none"
    /\ bid' = [bid EXCEPT ![g] = "submitted"]
    /\ UNCHANGED <<persona, gig, updated, before>>

ApplyViaPipeline(c) ==
    LET g == Head(cycle[c].todo) IN
    /\ Works(c) /\ cycle[c].applying
    /\ Bid(g)
    /\ cycle' = [cycle EXCEPT ![c] = [Drop(c) EXCEPT !.stake = @ + GigReward[g], !.won = 1]]
    /\ earnSlips' = earnSlips \cup (IF cycle[c].won > 0 THEN {"batch"} ELSE {})
    /\ UNCHANGED <<earnLease, cycles>>

\* Denied by governance, or the task is gone, or was applied for before.
ApplyRefused(c) ==
    /\ Works(c) /\ cycle[c].applying
    /\ cycle' = [cycle EXCEPT ![c] = Drop(c)]
    /\ UNCHANGED <<market, earnLease, cycles, earnSlips>>

\* The application is inserted, a later statement of the call throws: the
\* pipeline answers that it failed.
ApplyHalf(c) ==
    /\ Works(c) /\ cycle[c].applying
    /\ Bid(Head(cycle[c].todo))
    /\ cycle' = [cycle EXCEPT ![c] = Drop(c)]
    /\ earnSlips' = earnSlips \cup {"half"}
    /\ UNCHANGED <<earnLease, cycles>>

EndCycle(c) ==
    /\ Running(c) /\ cycle[c].todo = <<>>
    /\ earnLease' = Released(earnLease, cycle[c].token)
    /\ cycle' = [cycle EXCEPT ![c] = IdleCycle]
    /\ UNCHANGED <<market, cycles, earnSlips>>

CycleDies(c) ==
    /\ Running(c)
    /\ cycle' = [cycle EXCEPT ![c] = IdleCycle]
    /\ UNCHANGED <<market, earnLease, cycles, earnSlips>>

-----------------------------------------------------------------------------
(* The market and the calendar.                                             *)

Touched(g) == {pair \in updated : pair[2] # g} \cup ({g} \X (Published \ {g}))
Turns(g, from, to) ==
    /\ gig[g] = from
    /\ gig' = [gig EXCEPT ![g] = to]
    /\ updated' = Touched(g)

PublishGig(g) == Turns(g, "unpublished", "open") /\ UNCHANGED <<bid, before>>

\* assignTask of the publisher, for this persona or for another one
AssignGig(g) ==
    /\ bid[g] = "submitted" /\ Turns(g, "open", "accepted")
    /\ bid' = [bid EXCEPT ![g] = "assigned"]
    /\ before' = before \ {g}
TakenElsewhere(g) == Turns(g, "open", "elsewhere") /\ UNCHANGED <<bid, before>>

CompleteGig(g) == Turns(g, "accepted", "completed") /\ UNCHANGED <<bid, before>>
RejectGig(g) ==
    /\ Turns(g, "accepted", "open")
    /\ bid' = [bid EXCEPT ![g] = "rejected"]
    /\ UNCHANGED before

DayPasses ==
    /\ ~(Accepted \subseteq before)
    /\ before' = before \cup Accepted
    /\ UNCHANGED <<persona, gig, updated, bid, earnLease, cycles, cycle, earnSlips>>

EarnLeaseTick ==
    /\ earnLease.left > 0
    /\ earnLease' = Aged(earnLease)
    /\ UNCHANGED <<market, cycles, cycle, earnSlips>>

MarketStep ==
    /\ \E g \in Gigs : \/ PublishGig(g) \/ AssignGig(g) \/ TakenElsewhere(g)
                       \/ CompleteGig(g) \/ RejectGig(g)
    /\ UNCHANGED <<persona, earnLease, cycles, cycle, earnSlips>>

EarningNext ==
    \/ \E c \in Cycles :
          \/ BeginCycle(c) \/ Decline(c) \/ DecideAccept(c)
          \/ ApplyViaPipeline(c) \/ ApplyRefused(c) \/ ApplyHalf(c)
          \/ EndCycle(c) \/ CycleDies(c)
    \/ MarketStep
    \/ DayPasses
    \/ EarnLeaseTick

EarningSpec == EarningInit /\ [][EarningNext]_earningVars

-----------------------------------------------------------------------------
\* Tasks, applications and cycles have their types.
EarningTypeOK ==
    /\ cap \in Caps /\ own \subseteq Gigs
    /\ gig \in [Gigs -> GigStatus]
    /\ updated \subseteq Published \X Published
    /\ \A g, h \in Published : g # h => (<<g, h>> \in updated <=> <<h, g>> \notin updated)
    /\ bid \in [Gigs -> {"none", "submitted", "assigned", "rejected"}]
    /\ before \subseteq Gigs
    /\ earnLease \in Row /\ cycles \in 0 .. MaxCycles
    /\ cycle \in [Cycles -> [token: 0 .. MaxCycles, todo: Seq(Gigs), stake: Nat, inFlight: Nat,
                             applying: BOOLEAN, won: {0, 1}]]
    /\ earnSlips \subseteq EarnSlips

\* What the persona won by itself and has not delivered, of the last 24 hours,
\* stays below its cap: cycles of several replicas do not both spend the same
\* allowance, and one cycle counts what it applies for.
CapKept ==
    earnSlips \cap {"pending", "unseen", "overrun", "half"} = {} => Stake(Accepted) <= cap

\* Neither does the persona take on more tasks than it may have at a time.
OpenGigsKept == earnSlips = {} => Cardinality(Accepted) <= MaxOpenGigs

\* Within its limits, but for the windows named in EarnSlips.
EarnsWithinLimits == EarningTypeOK /\ CapKept /\ OpenGigsKept
=============================================================================
