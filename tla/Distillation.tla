---------------------------- MODULE Distillation ----------------------------
(***************************************************************************)
(* DistillationService: the gate through which artifacts distilled from a  *)
(* language model reach the core state of one persona.  Replicas ingest,   *)
(* approve and reject artifacts; a compile runs under the persona's        *)
(* compile lease, from a snapshot that a compensation may go back to.      *)
(*                                                                         *)
(* Each step of a replica is one statement on the shared database.  A      *)
(* replica runs one operation at a time (they are synchronous); the steps  *)
(* of different replicas interleave.                                       *)
(***************************************************************************)
EXTENDS LeaseTable, FiniteSets

CONSTANTS
    Replicas,
    Artifacts,
    CanAutoCompile, \* the artifacts canAutoCompile lets through
    Tabled,     \* the artifacts of kind rule and response_template
    Budget,     \* unverifiedGrowthBudgetPerWindow, the window never ends
    Section,    \* how long a running replica stays in a section of the lease
    MaxCrashes, \* bound: how many replicas crash during an operation
    MaxStalls,  \* bound: how many times a replica freezes
    MaxFaults,  \* bound: how many statements throw
    NoArtifact

ASSUME DistillationAssumption ==
    /\ CanAutoCompile \subseteq Artifacts /\ Tabled \subseteq Artifacts
    /\ Budget \in Nat
    /\ Section \in Nat /\ Section < Ttl
    /\ MaxCrashes \in Nat /\ MaxStalls \in Nat /\ MaxFaults \in Nat
    /\ NoArtifact \notin Artifacts

VARIABLES
    status, marked, via,    \* columns status, reason (NEEDS_REPAIR or not), compiled_via
    core,       \* the artifacts in effect in the persona's core state
    tables,     \* those in effect in the rule and response template tables
    row, issued,            \* the compile lease, the tokens drawn
    pc, art, how,           \* what a replica does, on which artifact, 'auto' or 'approved'
    seen,       \* the status reject() read
    snap,       \* the core state of its snapshot
    token, held,            \* its lease handle, time since it was granted or refreshed
    stalled, crashes, stalls, faults,
    overrun,    \* history: a replica was in the lease's section beyond the TTL
    unrestored  \* history: the artifacts whose effect no compensation took back

rows  == <<status, marked, via>>
lease == <<row, issued>>
mind  == <<pc, art, how, seen, snap, token, held>>
bounds == <<stalled, crashes, stalls, faults>>
vars == <<rows, core, tables, lease, mind, bounds, overrun, unrestored>>

Statuses == {"absent", "candidate", "approved", "compiled", "rejected"}
Steps == {"idle", "quick", "approve", "reject", "acquire", "recheck", "promote", "snapshot",
          "compile", "advance", "fence", "rollback", "mark", "repair", "release"}

Init ==
    /\ status = [a \in Artifacts |-> "absent"]
    /\ marked = [a \in Artifacts |-> FALSE]
    /\ via = [a \in Artifacts |-> "none"]
    /\ core = {} /\ tables = {}
    /\ row = NoRow /\ issued = 0
    /\ pc = [r \in Replicas |-> "idle"]
    /\ art = [r \in Replicas |-> NoArtifact]
    /\ how = [r \in Replicas |-> "none"]
    /\ seen = [r \in Replicas |-> "absent"]
    /\ snap = [r \in Replicas |-> {}]
    /\ token = [r \in Replicas |-> NoToken]
    /\ held = [r \in Replicas |-> 0]
    /\ stalled = {} /\ crashes = 0 /\ stalls = 0 /\ faults = 0
    /\ overrun = FALSE
    /\ unrestored = {}

At(r, step) == r \notin stalled /\ pc[r] = step
Go(r, step) == pc' = [pc EXCEPT ![r] = step]

\* The operation of r is over; a snapshot it took is of no more use.
Return(r) ==
    /\ pc' = [pc EXCEPT ![r] = "idle"]
    /\ art' = [art EXCEPT ![r] = NoArtifact]
    /\ how' = [how EXCEPT ![r] = "none"]
    /\ seen' = [seen EXCEPT ![r] = "absent"]
    /\ snap' = [snap EXCEPT ![r] = {}]
    /\ token' = [token EXCEPT ![r] = NoToken]
    /\ held' = [held EXCEPT ![r] = 0]

\* UPDATE ... WHERE id = ? AND status = ?
Matches(a, expected) == status[a] = expected

SetStatus(a, next, reason) ==
    /\ status' = [status EXCEPT ![a] = next]
    /\ marked' = [marked EXCEPT ![a] = (reason = "NEEDS_REPAIR")]

(* An operator named X_y is the variant of X in which a plausible defect y  *)
(* replaces X: no specification uses it; it shows that a property can fail. *)

-----------------------------------------------------------------------------
(* ingest, approve and reject up to the lease.                              *)

AutoCompiled == {a \in Artifacts : status[a] = "compiled" /\ via[a] = "auto"}
WithinBudget == Cardinality(AutoCompiled) < Budget

Ingest(r, a) ==
    /\ At(r, "idle") /\ status[a] = "absent"
    /\ SetStatus(a, "candidate", "")
    /\ IF a \in CanAutoCompile
       THEN Go(r, "quick") /\ art' = [art EXCEPT ![r] = a] /\ how' = [how EXCEPT ![r] = "auto"]
       ELSE UNCHANGED <<pc, art, how>>
    /\ UNCHANGED <<via, core, tables, lease, seen, snap, token, held, bounds, overrun, unrestored>>

\* The check without the lease only saves a useless acquire.
QuickBudget(r) ==
    /\ At(r, "quick")
    /\ IF WithinBudget
       THEN Go(r, "acquire") /\ UNCHANGED <<art, how, seen, snap, token, held>>
       ELSE Return(r)
    /\ UNCHANGED <<rows, core, tables, lease, bounds, overrun, unrestored>>

\* approve() on what getById returned: a candidate, or an approved artifact
\* without the NEEDS_REPAIR mark, which is compiled again.
ReadToApprove(r, a) ==
    /\ At(r, "idle")
    /\ status[a] = "candidate" \/ (status[a] = "approved" /\ ~marked[a])
    /\ Go(r, IF status[a] = "candidate" THEN "approve" ELSE "acquire")
    /\ art' = [art EXCEPT ![r] = a]
    /\ how' = [how EXCEPT ![r] = "approved"]
    /\ UNCHANGED <<rows, core, tables, lease, seen, snap, token, held, bounds, overrun, unrestored>>

Approve(r) ==
    /\ At(r, "approve")
    /\ IF Matches(art[r], "candidate")
       THEN /\ SetStatus(art[r], "approved", "manually approved")
            /\ Go(r, "acquire")
            /\ UNCHANGED <<art, how, seen, snap, token, held>>
       ELSE Return(r) /\ UNCHANGED <<status, marked>>
    /\ UNCHANGED <<via, core, tables, lease, bounds, overrun, unrestored>>

ReadToReject(r, a) ==
    /\ At(r, "idle") /\ status[a] \in {"candidate", "approved"}
    /\ Go(r, "reject")
    /\ art' = [art EXCEPT ![r] = a]
    /\ seen' = [seen EXCEPT ![r] = status[a]]
    /\ UNCHANGED <<rows, core, tables, lease, how, snap, token, held, bounds, overrun, unrestored>>

Reject(r) ==
    /\ At(r, "reject")
    /\ IF Matches(art[r], seen[r])
       THEN SetStatus(art[r], "rejected", "rejected")
       ELSE UNCHANGED <<status, marked>>
    /\ Return(r)
    /\ UNCHANGED <<via, core, tables, lease, bounds, overrun, unrestored>>

-----------------------------------------------------------------------------
(* compileApproved: the section of the lease.                               *)

Acquire(r) ==
    /\ At(r, "acquire") /\ Grantable(row) /\ issued < MaxTokens
    /\ issued' = issued + 1
    /\ row' = Granted(issued + 1)
    /\ token' = [token EXCEPT ![r] = issued + 1]
    /\ held' = [held EXCEPT ![r] = 0]
    /\ Go(r, IF how[r] = "auto" THEN "recheck" ELSE "snapshot")
    /\ UNCHANGED <<rows, core, tables, art, how, seen, snap, bounds, overrun, unrestored>>

LeaseBusy(r) ==
    /\ At(r, "acquire") /\ ~Grantable(row)
    /\ Return(r)
    /\ UNCHANGED <<rows, core, tables, lease, bounds, overrun, unrestored>>

\* The check under the lease is the one that counts.
RecheckPasses_QuickOnly == TRUE
RecheckPasses == WithinBudget

Recheck(r) ==
    /\ At(r, "recheck")
    /\ Go(r, IF RecheckPasses THEN "promote" ELSE "release")
    /\ UNCHANGED <<rows, core, tables, lease, art, how, seen, snap, token, held, bounds, overrun, unrestored>>

Promote(r) ==
    /\ At(r, "promote")
    /\ IF Matches(art[r], "candidate")
       THEN SetStatus(art[r], "approved", "auto-approved") /\ Go(r, "snapshot")
       ELSE Go(r, "release") /\ UNCHANGED <<status, marked>>
    /\ UNCHANGED <<via, core, tables, lease, art, how, seen, snap, token, held, bounds, overrun, unrestored>>

Snapshot(r) ==
    /\ At(r, "snapshot")
    /\ snap' = [snap EXCEPT ![r] = core]
    /\ Go(r, "compile")
    /\ UNCHANGED <<rows, core, tables, lease, art, how, seen, token, held, bounds, overrun, unrestored>>

Compile(r) ==
    /\ At(r, "compile")
    /\ IF art[r] \in Tabled
       THEN tables' = tables \cup {art[r]} /\ UNCHANGED core
       ELSE core' = core \cup {art[r]} /\ UNCHANGED tables
    /\ Go(r, "advance")
    /\ UNCHANGED <<rows, lease, art, how, seen, snap, token, held, bounds, overrun, unrestored>>

CompileFails(r) ==
    /\ At(r, "compile")
    /\ Go(r, "fence")
    /\ UNCHANGED <<rows, core, tables, lease, art, how, seen, snap, token, held, bounds, overrun, unrestored>>

\* The status advance that hits no row is compensated like one that throws.
AfterMissedAdvance_Ignored == "release"
AfterMissedAdvance_Untyped == "failed"
AfterMissedAdvance == "fence"

Advance(r) ==
    /\ At(r, "advance")
    /\ IF Matches(art[r], "approved")
       THEN /\ SetStatus(art[r], "compiled", "compiled")
            /\ via' = [via EXCEPT ![art[r]] = how[r]]
            /\ Go(r, "release")
       ELSE Go(r, AfterMissedAdvance) /\ UNCHANGED rows
    /\ UNCHANGED <<core, tables, lease, art, how, seen, snap, token, held, bounds, overrun, unrestored>>

-----------------------------------------------------------------------------
(* compensateAfterCompile.                                                  *)

FencePasses_Unchecked(r) == TRUE
FencePasses(r) == Renewable(row, token[r])

Unrestored(r) == unrestored' = unrestored \cup {art[r]}

Fence(r) ==
    /\ At(r, "fence")
    /\ IF FencePasses(r)
       THEN /\ row' = [row EXCEPT !.left = Ttl]
            /\ held' = [held EXCEPT ![r] = 0]
            /\ Go(r, "rollback") /\ UNCHANGED unrestored
       ELSE Go(r, "release") /\ Unrestored(r) /\ UNCHANGED <<row, held>>
    /\ UNCHANGED <<rows, core, tables, issued, art, how, seen, snap, token, bounds, overrun>>

\* restoreFromSnapshot(coreSelfOnly): the core state, not the tables.
Rollback(r) ==
    /\ At(r, "rollback")
    /\ core' = snap[r]
    /\ Go(r, "mark")
    /\ UNCHANGED <<rows, tables, lease, art, how, seen, snap, token, held, bounds, overrun, unrestored>>

\* restoreFromSnapshot catches what goes wrong and returns false.
RollbackFails(r) ==
    /\ At(r, "rollback") /\ faults < MaxFaults
    /\ faults' = faults + 1
    /\ Unrestored(r)
    /\ Go(r, "repair")
    /\ UNCHANGED <<rows, core, tables, lease, art, how, seen, snap, token, held, stalled, crashes, stalls, overrun>>

Mark(r) ==
    /\ r \notin stalled /\ pc[r] \in {"mark", "repair"}
    /\ IF Matches(art[r], "approved")
       THEN IF pc[r] = "mark"
            THEN SetStatus(art[r], "rejected", "rolled back")
            ELSE SetStatus(art[r], "approved", "NEEDS_REPAIR")
       ELSE UNCHANGED <<status, marked>>
    /\ Go(r, "release")
    /\ UNCHANGED <<via, core, tables, lease, art, how, seen, snap, token, held, bounds, overrun, unrestored>>

Release(r) ==
    /\ At(r, "release")
    /\ row' = Released(row, token[r])
    /\ Return(r)
    /\ UNCHANGED <<rows, core, tables, issued, bounds, overrun, unrestored>>

-----------------------------------------------------------------------------
(* A statement throws.  Before the lease the operation ends; under it the   *)
(* finally block releases the lease; the status advance is caught and       *)
(* compensated; the refresh of the fence is not caught.                     *)

Throws(r) ==
    /\ r \notin stalled /\ faults < MaxFaults
    /\ faults' = faults + 1
    /\ \/ pc[r] \in {"quick", "approve", "reject", "acquire", "release"} /\ Return(r) /\ UNCHANGED unrestored
       \/ /\ pc[r] \in {"recheck", "promote", "snapshot", "mark", "repair"}
          /\ Go(r, "release")
          /\ UNCHANGED <<art, how, seen, snap, token, held, unrestored>>
       \/ pc[r] = "advance" /\ Go(r, "fence") /\ UNCHANGED <<art, how, seen, snap, token, held, unrestored>>
       \/ pc[r] = "fence" /\ Go(r, "release") /\ Unrestored(r) /\ UNCHANGED <<art, how, seen, snap, token, held>>
    /\ UNCHANGED <<rows, core, tables, lease, stalled, crashes, stalls, overrun>>

Crash(r) ==
    /\ pc[r] # "idle" /\ crashes < MaxCrashes
    /\ crashes' = crashes + 1
    /\ stalled' = stalled \ {r}
    /\ unrestored' = IF pc[r] \in {"advance", "fence", "rollback"} THEN unrestored \cup {art[r]} ELSE unrestored
    /\ Return(r)
    /\ UNCHANGED <<rows, core, tables, lease, stalls, faults, overrun>>

Stall(r) ==
    /\ r \notin stalled /\ pc[r] # "idle" /\ stalls < MaxStalls
    /\ stalls' = stalls + 1
    /\ stalled' = stalled \cup {r}
    /\ UNCHANGED <<rows, core, tables, lease, mind, crashes, faults, overrun, unrestored>>

Resume(r) ==
    /\ r \in stalled
    /\ stalled' = stalled \ {r}
    /\ UNCHANGED <<rows, core, tables, lease, mind, crashes, stalls, faults, overrun, unrestored>>

\* Compiling is synchronous: a running replica is out of the section in time.
Tick ==
    /\ \A r \in Replicas \ stalled : token[r] # NoToken => held[r] < Section
    /\ row' = Aged(row)
    /\ held' = [r \in Replicas |-> IF token[r] # NoToken /\ held[r] < Ttl THEN held[r] + 1 ELSE held[r]]
    /\ overrun' = (overrun \/ \E r \in Replicas : held'[r] = Ttl)
    /\ UNCHANGED <<rows, core, tables, issued, pc, art, how, seen, snap, token, bounds, unrestored>>

Next ==
    \/ \E r \in Replicas :
          \/ \E a \in Artifacts : Ingest(r, a) \/ ReadToApprove(r, a) \/ ReadToReject(r, a)
          \/ QuickBudget(r) \/ Approve(r) \/ Reject(r)
          \/ Acquire(r) \/ LeaseBusy(r) \/ Recheck(r) \/ Promote(r) \/ Snapshot(r)
          \/ Compile(r) \/ CompileFails(r) \/ Advance(r)
          \/ Fence(r) \/ Rollback(r) \/ RollbackFails(r) \/ Mark(r) \/ Release(r)
          \/ Throws(r) \/ Crash(r) \/ Stall(r) \/ Resume(r)
    \/ Tick

Spec == Init /\ [][Next]_vars

-----------------------------------------------------------------------------
\* Columns, the lease row and the replicas' steps have their types.
TypeOK ==
    /\ status \in [Artifacts -> Statuses]
    /\ marked \in [Artifacts -> BOOLEAN]
    /\ via \in [Artifacts -> {"none", "auto", "approved"}]
    /\ core \subseteq Artifacts /\ tables \subseteq Artifacts
    /\ row \in Row /\ issued \in 0 .. MaxTokens
    /\ pc \in [Replicas -> Steps]
    /\ art \in [Replicas -> Artifacts \cup {NoArtifact}]
    /\ how \in [Replicas -> {"none", "auto", "approved"}]
    /\ seen \in [Replicas -> Statuses]
    /\ snap \in [Replicas -> SUBSET Artifacts]
    /\ token \in [Replicas -> Token \cup {NoToken}]
    /\ held \in [Replicas -> 0 .. Ttl]
    /\ stalled \subseteq Replicas
    /\ crashes \in 0 .. MaxCrashes /\ stalls \in 0 .. MaxStalls /\ faults \in 0 .. MaxFaults
    /\ overrun \in BOOLEAN
    /\ unrestored \subseteq Artifacts

\* The uncertainty budget is never exceeded by concurrent ingests: the count is
\* repeated under the compile lease, so count and compile are atomic for others.
AutoBudget == ~overrun => Cardinality(AutoCompiled) <= Budget

\* What the table calls compiled is in effect: no replica's compensation goes
\* back behind the compile of another one.
CompiledInEffect ==
    ~overrun => \A a \in Artifacts : status[a] = "compiled" => a \in core \cup tables

InSection(r) == token[r] # NoToken

\* Also after a freeze: the core state is only rolled back by the replica that
\* owns the compile lease, or froze after it made sure that it does.
RollbackIsFenced ==
    [][\A r \in Replicas : pc[r] = "rollback" /\ pc'[r] = "mark" /\ held[r] < Ttl => row.token = token[r]]_vars

\* A rejected artifact is not in effect in the core: whichever way its compile
\* and a concurrent rejection interleave, somebody takes its effect back.
\* Excepted are compiles in progress, and compensations that crashed, threw or
\* failed to restore.
RejectedNotInCore ==
    ~overrun =>
        \A a \in Artifacts \ unrestored :
            status[a] = "rejected" /\ (\A r \in Replicas : InSection(r) => art[r] # a) => a \notin core

\* An artifact's status and the core agree, in both directions: what is compiled
\* is in effect and what is rejected is not.
StatusTellsCore == CompiledInEffect /\ RejectedNotInCore

\* What the comments of compensateAfterCompile say: the core is restored when
\* the artifact ends as rejected, so nothing of a rejected artifact is in effect.
RejectedHasNoEffect ==
    \A a \in Artifacts \ unrestored :
        status[a] = "rejected" /\ (\A r \in Replicas : InSection(r) => art[r] # a) => a \notin core \cup tables

\* What the comment on NEEDS_REPAIR_REASON_PREFIX says: an artifact whose
\* rollback failed is not compiled again while it carries the mark.
MarkedNotRecompiled ==
    [][\A r \in Replicas : pc[r] = "compile" /\ pc'[r] = "advance" => ~marked[art[r]]]_vars
=============================================================================
