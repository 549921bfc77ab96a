------------------------- MODULE Distillation_proofs -------------------------
(***************************************************************************)
(* For any number of replicas and artifacts, crashes, freezes and throwing *)
(* statements: the compile lease makes count, snapshot, compile and        *)
(* rollback of one replica atomic for the others, as long as nobody is     *)
(* frozen in it beyond its time to live.                                   *)
(***************************************************************************)
EXTENDS Distillation, FiniteSetTheorems, TLAPS

InLease == {"recheck", "promote", "snapshot", "compile", "advance", "fence", "rollback", "mark", "repair", "release"}

\* Program counter and local variables go together.
StepsMatch ==
    \A r \in Replicas :
        /\ InSection(r) <=> pc[r] \in InLease
        /\ pc[r] # "idle" => art[r] \in Artifacts
        /\ pc[r] = "reject" => seen[r] \in {"candidate", "approved"}
        /\ pc[r] \in InLease \cup {"quick", "approve", "acquire"} => how[r] \in {"auto", "approved"}

\* Every token in use was drawn, and no two replicas hold the same one.
TokensDrawn ==
    /\ row.token <= issued
    /\ \A r \in Replicas : token[r] <= issued
    /\ \A r, q \in Replicas : InSection(r) /\ token[r] = token[q] => r = q

\* The lease row of a replica within its time is its own, ...
RowIsOwn == \A r \in Replicas : InSection(r) /\ held[r] < Ttl => row.token = token[r]

\* ... and a row that is its own expires when the replica is out of time.
RowInStep == \A r \in Replicas : InSection(r) /\ row.token = token[r] => row.left = Ttl - held[r]

OverrunSeen == \A r \in Replicas : InSection(r) /\ held[r] = Ttl => overrun

LeaseInv == TypeOK /\ StepsMatch /\ TokensDrawn /\ RowIsOwn /\ RowInStep /\ OverrunSeen

\* What the assumptions say of the single constants.
LEMMA Constants ==
    /\ Ttl \in Nat /\ Ttl > 0 /\ MaxTokens \in Nat /\ Section \in Nat /\ Section < Ttl /\ Budget \in Nat
    /\ MaxCrashes \in Nat /\ MaxStalls \in Nat /\ MaxFaults \in Nat
  BY LeaseAssumption, DistillationAssumption

\* Without an overrun the section of the lease has one replica at most.
LEMMA AloneInSection ==
  ASSUME LeaseInv, ~overrun, NEW r \in Replicas, NEW q \in Replicas, InSection(r), InSection(q)
  PROVE  r = q
<1>1. held[r] < Ttl /\ held[q] < Ttl
  BY Constants DEF LeaseInv, TypeOK, OverrunSeen
<1>2. row.token = token[r] /\ row.token = token[q]
  BY <1>1 DEF LeaseInv, RowIsOwn
<1> QED  BY <1>2 DEF LeaseInv, TokensDrawn

\* A row that can be granted means that nobody within its time is inside.
LEMMA GrantedWhenEmpty ==
  ASSUME LeaseInv, Grantable(row), NEW r \in Replicas, InSection(r)
  PROVE  held[r] = Ttl /\ overrun
<1>1. held[r] \in 0 .. Ttl
  BY DEF LeaseInv, TypeOK
<1>2. held[r] = Ttl
  <2>1. CASE held[r] < Ttl
    <3>1. row.token = token[r] /\ row.left = Ttl - held[r] /\ row.left = 0
      BY <2>1 DEF LeaseInv, RowIsOwn, RowInStep, Grantable
    <3> QED  BY <3>1, <1>1, Constants
  <2> QED  BY <2>1, <1>1, Constants
<1> QED  BY <1>2 DEF LeaseInv, OverrunSeen

-----------------------------------------------------------------------------
(* The steps keep the lease.  An operation that ends, and steps that stay   *)
(* inside or outside of the section, leave row and tokens alone.            *)

\* At the start nobody holds a handle and the row is expired.
LEMMA LeaseInit == Init => LeaseInv
<1> SUFFICES ASSUME Init PROVE LeaseInv
  OBVIOUS
<1>1. NoRow \in Row /\ row = NoRow
  BY Constants DEF Init, Row, NoRow, NoToken
<1>2. TypeOK
  <2>1. /\ status \in [Artifacts -> Statuses] /\ marked \in [Artifacts -> BOOLEAN]
        /\ via \in [Artifacts -> {"none", "auto", "approved"}]
        /\ core \subseteq Artifacts /\ tables \subseteq Artifacts
    BY DEF Init, Statuses
  <2>2. /\ pc \in [Replicas -> Steps] /\ art \in [Replicas -> Artifacts \cup {NoArtifact}]
        /\ how \in [Replicas -> {"none", "auto", "approved"}] /\ seen \in [Replicas -> Statuses]
        /\ snap \in [Replicas -> SUBSET Artifacts]
        /\ token \in [Replicas -> Token \cup {NoToken}] /\ held \in [Replicas -> 0 .. Ttl]
    BY Constants DEF Init, Steps, Statuses
  <2>3. /\ issued \in 0 .. MaxTokens /\ stalled \subseteq Replicas
        /\ crashes \in 0 .. MaxCrashes /\ stalls \in 0 .. MaxStalls /\ faults \in 0 .. MaxFaults
    BY Constants DEF Init
  <2>4. overrun \in BOOLEAN /\ unrestored \subseteq Artifacts
    BY DEF Init
  <2> QED  BY <1>1, <2>1, <2>2, <2>3, <2>4 DEF TypeOK
<1>3. StepsMatch /\ TokensDrawn /\ RowIsOwn /\ RowInStep /\ OverrunSeen
  BY DEF Init, StepsMatch, TokensDrawn, RowIsOwn, RowInStep, OverrunSeen, InSection, InLease, NoRow, NoToken
<1> QED  BY <1>2, <1>3 DEF LeaseInv

-----------------------------------------------------------------------------
(* What the steps do to the replica that takes them.                        *)

\* The end of an operation clears the local variables of its replica and of no other.
LEMMA ReturnEffect ==
  ASSUME TypeOK, NEW r \in Replicas, Return(r)
  PROVE  /\ pc'[r] = "idle" /\ token'[r] = NoToken
         /\ \A q \in Replicas \ {r} : /\ pc'[q] = pc[q] /\ art'[q] = art[q] /\ how'[q] = how[q]
                                      /\ seen'[q] = seen[q] /\ snap'[q] = snap[q]
                                      /\ token'[q] = token[q] /\ held'[q] = held[q]
         /\ pc' \in [Replicas -> Steps] /\ art' \in [Replicas -> Artifacts \cup {NoArtifact}]
         /\ how' \in [Replicas -> {"none", "auto", "approved"}] /\ seen' \in [Replicas -> Statuses]
         /\ snap' \in [Replicas -> SUBSET Artifacts]
         /\ token' \in [Replicas -> Token \cup {NoToken}] /\ held' \in [Replicas -> 0 .. Ttl]
  BY Constants DEF Return, TypeOK, Steps, Statuses

\* A replica that returned is outside of the section, without a handle.
LEMMA ReturnMatches ==
  ASSUME TypeOK, StepsMatch, NEW r \in Replicas, Return(r)
  PROVE  StepsMatch'
  BY ReturnEffect DEF StepsMatch, InSection, InLease

\* An operation that ends without touching the row leaves the lease as it was.
LEMMA ReturnLeaves ==
  ASSUME LeaseInv, NEW r \in Replicas, Return(r), UNCHANGED <<lease, overrun>>
  PROVE  TokensDrawn' /\ RowIsOwn' /\ RowInStep' /\ OverrunSeen'
<1>1. TokensDrawn'
  BY ReturnEffect DEF LeaseInv, TypeOK, TokensDrawn, InSection, lease, Token, NoToken
<1>2. RowIsOwn' /\ RowInStep' /\ OverrunSeen'
  BY ReturnEffect DEF LeaseInv, RowIsOwn, RowInStep, OverrunSeen, InSection, lease
<1> QED  BY <1>1, <1>2

\* Steps that change neither row nor handles leave the lease as it was.
LEMMA SameLease ==
  ASSUME LeaseInv, UNCHANGED <<lease, token, held, overrun>>
  PROVE  TokensDrawn' /\ RowIsOwn' /\ RowInStep' /\ OverrunSeen'
  BY DEF LeaseInv, TokensDrawn, RowIsOwn, RowInStep, OverrunSeen, InSection, lease

\* The DELETE of a release only removes the row of the replica's own token.
LEMMA ReleaseLeaves ==
  ASSUME LeaseInv, NEW r \in Replicas, Release(r)
  PROVE  TokensDrawn' /\ RowIsOwn' /\ RowInStep' /\ OverrunSeen'
<1>1. Return(r) /\ UNCHANGED <<issued, overrun>> /\ InSection(r)
  BY DEF Release, At, LeaseInv, StepsMatch, InLease
<1>2. row' = IF row.token = token[r] THEN NoRow ELSE row
  BY DEF Release, Released, ReleaseMatches
<1>3. \A q \in Replicas \ {r} : InSection(q) => token[q] # token[r]
  BY <1>1 DEF LeaseInv, TokensDrawn
<1>4. TokensDrawn'
  BY <1>1, <1>2, ReturnEffect DEF LeaseInv, TypeOK, TokensDrawn, InSection, NoRow, NoToken
<1>5. RowIsOwn' /\ RowInStep' /\ OverrunSeen'
  BY <1>1, <1>2, <1>3, ReturnEffect
  DEF LeaseInv, RowIsOwn, RowInStep, OverrunSeen, InSection, NoRow
<1> QED  BY <1>4, <1>5

\* A grant draws a fresh token, and whoever is inside by then has overrun.
LEMMA AcquireLeaves ==
  ASSUME LeaseInv, NEW r \in Replicas, Acquire(r)
  PROVE  TokensDrawn' /\ RowIsOwn' /\ RowInStep' /\ OverrunSeen'
<1>1. /\ row' = [token |-> issued + 1, left |-> Ttl] /\ issued' = issued + 1 /\ issued \in Nat
      /\ overrun' = overrun
      /\ token'[r] = issued + 1 /\ held'[r] = 0
      /\ \A q \in Replicas \ {r} : token'[q] = token[q] /\ held'[q] = held[q]
  BY Constants DEF Acquire, Granted, LeaseInv, TypeOK
<1>2. \A q \in Replicas : token[q] \in Nat /\ token[q] <= issued
  BY Constants DEF LeaseInv, TypeOK, TokensDrawn, Token, NoToken
<1>3. \A q \in Replicas : InSection(q) => held[q] = Ttl /\ overrun
  BY GrantedWhenEmpty DEF Acquire
<1>4. TokensDrawn'
  BY <1>1, <1>2 DEF LeaseInv, TokensDrawn, InSection
<1>5. RowIsOwn' /\ OverrunSeen'
  BY <1>1, <1>3, Constants DEF RowIsOwn, OverrunSeen, InSection
<1>6. RowInStep'
  BY <1>1, <1>2, Constants DEF RowInStep
<1> QED  BY <1>4, <1>5, <1>6

\* A refresh that hits restarts row and timer together; one that misses changes neither.
LEMMA FenceLeaves ==
  ASSUME LeaseInv, NEW r \in Replicas, Fence(r)
  PROVE  TokensDrawn' /\ RowIsOwn' /\ RowInStep' /\ OverrunSeen'
<1>1. CASE ~FencePasses(r)
  BY <1>1, SameLease DEF Fence, lease
<1>2. CASE FencePasses(r)
  <2>1. /\ row.token = token[r] /\ row'.token = row.token /\ row'.left = Ttl
        /\ UNCHANGED <<issued, token, overrun>> /\ InSection(r)
        /\ held'[r] = 0 /\ \A q \in Replicas \ {r} : held'[q] = held[q]
    BY <1>2 DEF Fence, FencePasses, Renewable, At, LeaseInv, TypeOK, Row, StepsMatch, InLease
  <2>2. \A q \in Replicas \ {r} : InSection(q) => token[q] # row.token
    BY <2>1 DEF LeaseInv, TokensDrawn
  <2>3. TokensDrawn'
    BY <2>1 DEF LeaseInv, TokensDrawn, InSection
  <2>4. RowIsOwn' /\ RowInStep' /\ OverrunSeen'
    BY <2>1, <2>2, Constants DEF LeaseInv, RowIsOwn, RowInStep, OverrunSeen, InSection
  <2> QED  BY <2>3, <2>4
<1> QED  BY <1>1, <1>2

\* Row and timers age in step; a timer that reaches the TTL is an overrun.
LEMMA TickLeaves ==
  ASSUME LeaseInv, Tick
  PROVE  TokensDrawn' /\ RowIsOwn' /\ RowInStep' /\ OverrunSeen'
<1>1. /\ row'.token = row.token /\ row'.left = IF row.left > 0 THEN row.left - 1 ELSE 0
      /\ row.left \in 0 .. Ttl /\ UNCHANGED <<issued, token>>
  BY DEF Tick, Aged, LeaseInv, TypeOK, Row
<1>2. \A q \in Replicas : /\ held[q] \in 0 .. Ttl
                           /\ held'[q] = IF InSection(q) /\ held[q] < Ttl THEN held[q] + 1 ELSE held[q]
  BY DEF Tick, InSection, LeaseInv, TypeOK
<1>3. \A q \in Replicas : held'[q] = Ttl => overrun'
  BY DEF Tick
<1>4. TokensDrawn'
  BY <1>1 DEF LeaseInv, TokensDrawn, InSection
<1>5. RowIsOwn' /\ RowInStep'
  BY <1>1, <1>2, Constants DEF LeaseInv, RowIsOwn, RowInStep, InSection
<1>6. OverrunSeen'
  BY <1>3 DEF OverrunSeen
<1> QED  BY <1>4, <1>5, <1>6

-----------------------------------------------------------------------------
(* Types, and steps that match the local variables.                         *)

RowsTyped ==
    /\ status \in [Artifacts -> Statuses]
    /\ marked \in [Artifacts -> BOOLEAN]
    /\ via \in [Artifacts -> {"none", "auto", "approved"}]

CoreTyped == core \subseteq Artifacts /\ tables \subseteq Artifacts /\ unrestored \subseteq Artifacts

LeaseTyped == row \in Row /\ issued \in 0 .. MaxTokens

MindTyped ==
    /\ pc \in [Replicas -> Steps]
    /\ art \in [Replicas -> Artifacts \cup {NoArtifact}]
    /\ how \in [Replicas -> {"none", "auto", "approved"}]
    /\ seen \in [Replicas -> Statuses]
    /\ snap \in [Replicas -> SUBSET Artifacts]
    /\ token \in [Replicas -> Token \cup {NoToken}]
    /\ held \in [Replicas -> 0 .. Ttl]

BoundsTyped ==
    /\ stalled \subseteq Replicas
    /\ crashes \in 0 .. MaxCrashes /\ stalls \in 0 .. MaxStalls /\ faults \in 0 .. MaxFaults

\* Types are shown for each group of variables.
LEMMA TypeParts == TypeOK <=> RowsTyped /\ CoreTyped /\ LeaseTyped /\ MindTyped /\ BoundsTyped /\ overrun \in BOOLEAN
  BY DEF TypeOK, RowsTyped, CoreTyped, LeaseTyped, MindTyped, BoundsTyped

\* The UPDATE of a status keeps the columns' types.
LEMMA SetStatusTyped ==
  ASSUME TypeOK, NEW a \in Artifacts, NEW next \in Statuses, NEW reason, SetStatus(a, next, reason)
  PROVE  status' \in [Artifacts -> Statuses] /\ marked' \in [Artifacts -> BOOLEAN]
  BY DEF SetStatus, TypeOK

\* The operation of a replica that is under way names an artifact.
LEMMA ArtifactAtWork ==
  ASSUME StepsMatch, NEW r \in Replicas, pc[r] # "idle"
  PROVE  art[r] \in Artifacts
  BY DEF StepsMatch

\* Every statement on distilled_artifacts keeps the columns' types.
LEMMA RowsStep == TypeOK /\ StepsMatch /\ [Next]_vars => RowsTyped'
<1> SUFFICES ASSUME TypeOK, StepsMatch, [Next]_vars PROVE RowsTyped'
  OBVIOUS
<1>1. CASE UNCHANGED rows
  BY <1>1 DEF rows, RowsTyped, TypeOK
<1>2. ASSUME NEW a \in Artifacts, NEW next \in Statuses, NEW reason, SetStatus(a, next, reason),
             via' \in [Artifacts -> {"none", "auto", "approved"}]
      PROVE  RowsTyped'
  BY <1>2, SetStatusTyped DEF RowsTyped
<1>3. ASSUME NEW r \in Replicas, NEW a \in Artifacts, Ingest(r, a) PROVE RowsTyped'
  BY <1>2, <1>3 DEF Ingest, Statuses, TypeOK
<1>4. ASSUME NEW r \in Replicas, Approve(r) \/ Reject(r) \/ Promote(r) \/ Mark(r) PROVE RowsTyped'
  <2>1. art[r] \in Artifacts /\ via' = via
    BY <1>4, ArtifactAtWork DEF Approve, Reject, Promote, Mark, At
  <2>2. UNCHANGED rows \/ \E next \in Statuses, reason \in {"manually approved", "rejected", "auto-approved",
                                     "rolled back", "NEEDS_REPAIR"} : SetStatus(art[r], next, reason)
    BY <1>4 DEF Approve, Reject, Promote, Mark, rows, Statuses
  <2> QED  BY <1>1, <1>2, <2>1, <2>2 DEF TypeOK
<1>5. ASSUME NEW r \in Replicas, Advance(r) PROVE RowsTyped'
  <2>1. art[r] \in Artifacts /\ how[r] \in {"none", "auto", "approved"}
    BY <1>5, ArtifactAtWork DEF Advance, At, TypeOK
  <2>2. UNCHANGED rows \/ (SetStatus(art[r], "compiled", "compiled") /\ via' = [via EXCEPT ![art[r]] = how[r]])
    BY <1>5 DEF Advance
  <2>3. CASE SetStatus(art[r], "compiled", "compiled") /\ via' = [via EXCEPT ![art[r]] = how[r]]
    BY <1>2, <2>1, <2>3 DEF TypeOK, Statuses
  <2> QED  BY <1>1, <2>2, <2>3
<1>6. ASSUME NEW r \in Replicas,
             \/ \E a \in Artifacts : ReadToApprove(r, a) \/ ReadToReject(r, a)
             \/ QuickBudget(r) \/ Acquire(r) \/ LeaseBusy(r) \/ Recheck(r) \/ Snapshot(r)
             \/ Compile(r) \/ CompileFails(r) \/ Fence(r) \/ Rollback(r) \/ RollbackFails(r) \/ Release(r)
             \/ Throws(r) \/ Crash(r) \/ Stall(r) \/ Resume(r)
      PROVE  UNCHANGED rows
  BY <1>6 DEF ReadToApprove, ReadToReject, QuickBudget, Acquire, LeaseBusy, Recheck, Snapshot,
     Compile, CompileFails, Fence, Rollback, RollbackFails, Release, Throws, Crash, Stall, Resume
<1>7. CASE Tick \/ UNCHANGED vars
  BY <1>1, <1>7 DEF Tick, vars
<1> QED  BY <1>1, <1>3, <1>4, <1>5, <1>6, <1>7 DEF Next

\* Core and tables consist of artifacts: compiles add theirs, a rollback restores a snapshot.
LEMMA CoreStep == TypeOK /\ StepsMatch /\ [Next]_vars => CoreTyped'
<1> SUFFICES ASSUME TypeOK, StepsMatch, [Next]_vars PROVE CoreTyped'
  OBVIOUS
<1>1. CASE UNCHANGED <<core, tables, unrestored>>
  BY <1>1 DEF CoreTyped, TypeOK
<1>2. ASSUME NEW r \in Replicas, Compile(r) PROVE CoreTyped'
  BY <1>2, ArtifactAtWork DEF Compile, At, CoreTyped, TypeOK
<1>3. ASSUME NEW r \in Replicas, Rollback(r) PROVE CoreTyped'
  BY <1>3 DEF Rollback, CoreTyped, TypeOK
<1>4. ASSUME NEW r \in Replicas, Fence(r) \/ RollbackFails(r) \/ Throws(r) \/ Crash(r) PROVE CoreTyped'
  <2>1. UNCHANGED <<core, tables>> /\ art[r] \in Artifacts /\ unrestored' \in {unrestored, unrestored \cup {art[r]}}
    BY <1>4, ArtifactAtWork DEF Fence, RollbackFails, Throws, Crash, Unrestored, At
  <2> QED  BY <2>1 DEF CoreTyped, TypeOK
<1>5. ASSUME NEW r \in Replicas,
             \/ \E a \in Artifacts : Ingest(r, a) \/ ReadToApprove(r, a) \/ ReadToReject(r, a)
             \/ QuickBudget(r) \/ Approve(r) \/ Reject(r) \/ Acquire(r) \/ LeaseBusy(r) \/ Recheck(r)
             \/ Promote(r) \/ Snapshot(r) \/ CompileFails(r) \/ Advance(r) \/ Mark(r) \/ Release(r)
             \/ Stall(r) \/ Resume(r)
      PROVE  UNCHANGED <<core, tables, unrestored>>
  BY <1>5 DEF Ingest, ReadToApprove, ReadToReject, QuickBudget, Approve, Reject, Acquire, LeaseBusy, Recheck,
     Promote, Snapshot, CompileFails, Advance, Mark, Release, Stall, Resume
<1>6. CASE Tick \/ UNCHANGED vars
  BY <1>1, <1>6 DEF Tick, vars
<1> QED  BY <1>1, <1>2, <1>3, <1>4, <1>5, <1>6 DEF Next

\* Steps that leave handle and lease to the lemmas above, inside and outside of the section.
Outside(r) == \/ \E a \in Artifacts : Ingest(r, a) \/ ReadToApprove(r, a) \/ ReadToReject(r, a)
              \/ QuickBudget(r) \/ Approve(r) \/ Reject(r) \/ LeaseBusy(r)

Inside(r) == Recheck(r) \/ Promote(r) \/ Snapshot(r) \/ Compile(r) \/ CompileFails(r) \/ Advance(r)
             \/ Rollback(r) \/ RollbackFails(r) \/ Mark(r)

\* The steps of Next in groups.
LEMMA NextCases ==
  ASSUME Next
  PROVE  Tick \/ \E r \in Replicas : \/ Outside(r) \/ Inside(r) \/ Acquire(r) \/ Fence(r) \/ Release(r)
                                     \/ Throws(r) \/ Crash(r) \/ Stall(r) \/ Resume(r)
  BY DEF Next, Outside, Inside

\* An operation begins, goes on before the lease, or ends.
LEMMA OutsideEffect ==
  ASSUME TypeOK, StepsMatch, NEW r \in Replicas, Outside(r)
  PROVE  /\ UNCHANGED <<lease, bounds, overrun>>
         /\ Return(r) \/ UNCHANGED <<token, held>>
         /\ MindTyped' /\ StepsMatch'
<1>1. CASE Return(r) /\ UNCHANGED <<lease, bounds, overrun>>
  BY <1>1, ReturnEffect, ReturnMatches DEF MindTyped
<1>2. ASSUME NEW a \in Artifacts, Ingest(r, a)
      PROVE  UNCHANGED <<lease, bounds, overrun>> /\ UNCHANGED <<token, held>> /\ MindTyped' /\ StepsMatch'
  <2>1. UNCHANGED <<lease, bounds, overrun, seen, snap, token, held>> /\ pc[r] = "idle"
    BY <1>2 DEF Ingest, At
  <2>2. \/ pc' = [pc EXCEPT ![r] = "quick"] /\ art' = [art EXCEPT ![r] = a] /\ how' = [how EXCEPT ![r] = "auto"]
        \/ UNCHANGED <<pc, art, how>>
    BY <1>2 DEF Ingest, Go
  <2>3. CASE pc' = [pc EXCEPT ![r] = "quick"] /\ art' = [art EXCEPT ![r] = a] /\ how' = [how EXCEPT ![r] = "auto"]
    BY <2>1, <2>3 DEF TypeOK, MindTyped, Steps, StepsMatch, InSection, InLease
  <2>4. CASE UNCHANGED <<pc, art, how>>
    BY <2>1, <2>4 DEF TypeOK, MindTyped, StepsMatch, InSection
  <2> QED  BY <2>1, <2>2, <2>3, <2>4
<1>3. ASSUME NEW a \in Artifacts, ReadToApprove(r, a)
      PROVE  UNCHANGED <<lease, bounds, overrun>> /\ UNCHANGED <<token, held>> /\ MindTyped' /\ StepsMatch'
  <2>1. UNCHANGED <<lease, bounds, overrun, seen, snap, token, held>> /\ pc[r] = "idle"
    BY <1>3 DEF ReadToApprove, At
  <2>2. PICK step \in {"approve", "acquire"} :
           pc' = [pc EXCEPT ![r] = step] /\ art' = [art EXCEPT ![r] = a] /\ how' = [how EXCEPT ![r] = "approved"]
    BY <1>3 DEF ReadToApprove, Go
  <2> QED  BY <2>1, <2>2 DEF TypeOK, MindTyped, Steps, StepsMatch, InSection, InLease
<1>4. ASSUME NEW a \in Artifacts, ReadToReject(r, a)
      PROVE  UNCHANGED <<lease, bounds, overrun>> /\ UNCHANGED <<token, held>> /\ MindTyped' /\ StepsMatch'
  <2>1. /\ UNCHANGED <<lease, bounds, overrun, how, snap, token, held>> /\ pc[r] = "idle"
        /\ status[a] \in {"candidate", "approved"}
        /\ pc' = [pc EXCEPT ![r] = "reject"] /\ art' = [art EXCEPT ![r] = a] /\ seen' = [seen EXCEPT ![r] = status[a]]
    BY <1>4 DEF ReadToReject, At, Go
  <2> QED  BY <2>1 DEF TypeOK, MindTyped, Steps, Statuses, StepsMatch, InSection, InLease
<1>5. ASSUME QuickBudget(r) \/ Approve(r), ~Return(r)
      PROVE  UNCHANGED <<lease, bounds, overrun>> /\ UNCHANGED <<token, held>> /\ MindTyped' /\ StepsMatch'
  <2>1. /\ UNCHANGED <<lease, bounds, overrun, art, how, seen, snap, token, held>> /\ pc[r] \in {"quick", "approve"}
        /\ pc' = [pc EXCEPT ![r] = "acquire"]
    BY <1>5 DEF QuickBudget, Approve, At, Go
  <2>2. how[r] \in {"auto", "approved"}
    BY <2>1 DEF StepsMatch
  <2> QED  BY <2>1, <2>2 DEF TypeOK, MindTyped, Steps, StepsMatch, InSection, InLease
<1>6. QuickBudget(r) \/ Approve(r) \/ Reject(r) \/ LeaseBusy(r) => UNCHANGED <<lease, bounds, overrun>>
  BY DEF QuickBudget, Approve, Reject, LeaseBusy
<1>7. Reject(r) \/ LeaseBusy(r) => Return(r)
  BY DEF Reject, LeaseBusy
<1> QED  BY <1>1, <1>2, <1>3, <1>4, <1>5, <1>6, <1>7 DEF Outside

\* Within the section only the program counter moves, and snap at the snapshot.
LEMMA MovesInside ==
  ASSUME TypeOK, StepsMatch, NEW r \in Replicas, pc[r] \in InLease, NEW step \in InLease, Go(r, step),
         UNCHANGED <<art, how, seen, token, held>>, snap' \in [Replicas -> SUBSET Artifacts]
  PROVE  MindTyped' /\ StepsMatch'
<1>1. pc' \in [Replicas -> Steps]
  BY DEF Go, TypeOK, Steps, InLease
<1>2. \A q \in Replicas : pc'[q] = IF q = r THEN step ELSE pc[q]
  BY DEF Go, TypeOK
<1>3. StepsMatch'
  BY <1>2 DEF StepsMatch, InSection, InLease
<1> QED  BY <1>1, <1>3 DEF MindTyped, TypeOK

\* A statement inside of the section leaves the lease alone.
LEMMA InsideEffect ==
  ASSUME TypeOK, StepsMatch, NEW r \in Replicas, Inside(r)
  PROVE  /\ UNCHANGED <<lease, token, held, overrun>>
         /\ pc[r] \in InLease /\ MindTyped' /\ StepsMatch'
<1>1. UNCHANGED <<lease, art, how, seen, token, held, overrun>> /\ pc[r] \in InLease
  BY DEF Inside, Recheck, Promote, Snapshot, Compile, CompileFails, Advance, Rollback, RollbackFails, Mark, At, InLease
<1>2. snap' \in [Replicas -> SUBSET Artifacts]
  BY DEF Inside, Recheck, Promote, Snapshot, Compile, CompileFails, Advance, Rollback, RollbackFails, Mark, TypeOK
<1>3. \E step \in InLease : Go(r, step)
  BY DEF Inside, Recheck, Promote, Snapshot, Compile, CompileFails, Advance, AfterMissedAdvance,
     Rollback, RollbackFails, Mark, InLease
<1> QED  BY <1>1, <1>2, <1>3, MovesInside

\* A statement that throws ends the operation or sends it to its compensation or its finally block.
LEMMA ThrowsEffect ==
  ASSUME TypeOK, StepsMatch, NEW r \in Replicas, Throws(r)
  PROVE  /\ UNCHANGED <<lease, overrun>>
         /\ Return(r) \/ UNCHANGED <<token, held>>
         /\ MindTyped' /\ StepsMatch'
<1>1. UNCHANGED <<lease, overrun>>
  BY DEF Throws
<1>2. CASE Return(r)
  BY <1>1, <1>2, ReturnEffect, ReturnMatches DEF MindTyped
<1>3. CASE pc[r] \in InLease /\ (\E step \in InLease : Go(r, step)) /\ UNCHANGED <<art, how, seen, snap, token, held>>
  BY <1>1, <1>3, MovesInside DEF TypeOK
<1>4. Return(r) \/ (pc[r] \in InLease /\ (\E step \in InLease : Go(r, step)) /\ UNCHANGED <<art, how, seen, snap, token, held>>)
  BY DEF Throws, InLease
<1> QED  BY <1>1, <1>2, <1>3, <1>4

\* The grant takes the replica into the section, at the check or at the snapshot.
LEMMA AcquireEffect ==
  ASSUME TypeOK, StepsMatch, NEW r \in Replicas, Acquire(r)
  PROVE  MindTyped' /\ StepsMatch' /\ LeaseTyped'
<1>1. issued + 1 \in Token /\ issued + 1 # NoToken /\ issued' \in 0 .. MaxTokens /\ row' \in Row
  BY Constants DEF Acquire, TypeOK, Token, NoToken, Granted, Row
<1>2. PICK step \in {"recheck", "snapshot"} : pc' = [pc EXCEPT ![r] = step]
  BY DEF Acquire, Go
<1>3. /\ token' = [token EXCEPT ![r] = issued + 1] /\ held' = [held EXCEPT ![r] = 0]
      /\ UNCHANGED <<art, how, seen, snap>> /\ pc[r] = "acquire"
  BY DEF Acquire, At
<1>4. MindTyped'
  BY <1>1, <1>2, <1>3, Constants DEF TypeOK, MindTyped, Steps
<1>5. StepsMatch'
  BY <1>1, <1>2, <1>3 DEF TypeOK, StepsMatch, InSection, InLease
<1> QED  BY <1>1, <1>4, <1>5 DEF LeaseTyped

\* After the fence the replica rolls back or releases.
LEMMA FenceEffect ==
  ASSUME TypeOK, StepsMatch, NEW r \in Replicas, Fence(r)
  PROVE  MindTyped' /\ StepsMatch' /\ LeaseTyped'
<1>1. UNCHANGED <<art, how, seen, snap, token, issued>> /\ pc[r] = "fence"
  BY DEF Fence, At
<1>2. PICK step \in {"rollback", "release"} : pc' = [pc EXCEPT ![r] = step]
  BY DEF Fence, Go
<1>3. held' \in [Replicas -> 0 .. Ttl] /\ row' \in Row
  BY Constants DEF Fence, TypeOK, Row
<1>4. MindTyped' /\ LeaseTyped'
  BY <1>1, <1>2, <1>3 DEF TypeOK, MindTyped, LeaseTyped, Steps
<1>5. StepsMatch'
  BY <1>1, <1>2 DEF TypeOK, StepsMatch, InSection, InLease
<1> QED  BY <1>4, <1>5

\* Time changes timers only.
LEMMA TickEffect ==
  ASSUME TypeOK, StepsMatch, Tick
  PROVE  MindTyped' /\ StepsMatch' /\ LeaseTyped' /\ overrun' \in BOOLEAN
<1>1. UNCHANGED <<issued, pc, art, how, seen, snap, token>>
  BY DEF Tick
<1>2. held' \in [Replicas -> 0 .. Ttl]
  BY Constants DEF Tick, TypeOK
<1>3. row' \in Row
  BY Constants DEF Tick, Aged, TypeOK, Row
<1>4. MindTyped' /\ LeaseTyped'
  BY <1>1, <1>2, <1>3 DEF TypeOK, MindTyped, LeaseTyped
<1>5. StepsMatch'
  BY <1>1 DEF StepsMatch, InSection
<1>6. overrun' \in BOOLEAN
  BY DEF Tick
<1> QED  BY <1>4, <1>5, <1>6

\* The bounds on crashes, freezes and faults hold.
LEMMA BoundsStep == TypeOK /\ [Next]_vars => BoundsTyped'
<1> SUFFICES ASSUME TypeOK, [Next]_vars PROVE BoundsTyped'
  OBVIOUS
<1>1. CASE UNCHANGED bounds
  BY <1>1 DEF bounds, TypeOK, BoundsTyped
<1>2. ASSUME NEW r \in Replicas, RollbackFails(r) \/ Throws(r) PROVE BoundsTyped'
  BY <1>2, Constants DEF RollbackFails, Throws, TypeOK, BoundsTyped
<1>3. ASSUME NEW r \in Replicas, Crash(r) \/ Stall(r) \/ Resume(r) PROVE BoundsTyped'
  BY <1>3, Constants DEF Crash, Stall, Resume, TypeOK, BoundsTyped
<1>4. ASSUME NEW r \in Replicas,
             \/ \E a \in Artifacts : Ingest(r, a) \/ ReadToApprove(r, a) \/ ReadToReject(r, a)
             \/ QuickBudget(r) \/ Approve(r) \/ Reject(r) \/ Acquire(r) \/ LeaseBusy(r) \/ Recheck(r)
             \/ Promote(r) \/ Snapshot(r) \/ Compile(r) \/ CompileFails(r) \/ Advance(r)
             \/ Fence(r) \/ Rollback(r) \/ Mark(r) \/ Release(r)
      PROVE  UNCHANGED bounds
  BY <1>4 DEF Ingest, ReadToApprove, ReadToReject, QuickBudget, Approve, Reject, Acquire, LeaseBusy, Recheck,
     Promote, Snapshot, Compile, CompileFails, Advance, Fence, Rollback, Mark, Release
<1>5. CASE Tick \/ UNCHANGED vars
  BY <1>1, <1>5 DEF Tick, vars
<1> QED  BY <1>1, <1>2, <1>3, <1>4, <1>5 DEF Next

\* Every step keeps the inductive invariant of the lease.
LEMMA LeaseStep == LeaseInv /\ [Next]_vars => LeaseInv'
<1> SUFFICES ASSUME LeaseInv, [Next]_vars PROVE LeaseInv'
  OBVIOUS
<1> USE DEF LeaseInv
<1>1. ASSUME MindTyped', StepsMatch', LeaseTyped', overrun' \in BOOLEAN,
             TokensDrawn' /\ RowIsOwn' /\ RowInStep' /\ OverrunSeen'
      PROVE  LeaseInv'
  <2>1. RowsTyped' /\ CoreTyped' /\ BoundsTyped'
    BY RowsStep, CoreStep, BoundsStep
  <2>2. TypeOK'
    BY <1>1, <2>1 DEF TypeOK, RowsTyped, CoreTyped, LeaseTyped, MindTyped, BoundsTyped
  <2> QED  BY <1>1, <2>2
<1>2. UNCHANGED lease => LeaseTyped'
  BY DEF lease, LeaseTyped, TypeOK
<1>3. UNCHANGED overrun => overrun' \in BOOLEAN
  BY DEF TypeOK
<1>4. ASSUME NEW r \in Replicas, Outside(r) PROVE LeaseInv'
  <2>1. UNCHANGED <<lease, overrun>> /\ MindTyped' /\ StepsMatch'
    BY <1>4, OutsideEffect
  <2>2. TokensDrawn' /\ RowIsOwn' /\ RowInStep' /\ OverrunSeen'
    BY <1>4, <2>1, OutsideEffect, ReturnLeaves, SameLease
  <2> QED  BY <1>1, <1>2, <1>3, <2>1, <2>2
<1>5. ASSUME NEW r \in Replicas, Inside(r) PROVE LeaseInv'
  BY <1>1, <1>2, <1>3, <1>5, InsideEffect, SameLease
<1>6. ASSUME NEW r \in Replicas, Throws(r) PROVE LeaseInv'
  <2>1. UNCHANGED <<lease, overrun>> /\ MindTyped' /\ StepsMatch'
    BY <1>6, ThrowsEffect
  <2>2. TokensDrawn' /\ RowIsOwn' /\ RowInStep' /\ OverrunSeen'
    BY <1>6, <2>1, ThrowsEffect, ReturnLeaves, SameLease
  <2> QED  BY <1>1, <1>2, <1>3, <2>1, <2>2
<1>7. ASSUME NEW r \in Replicas, Acquire(r) PROVE LeaseInv'
  <2>1. UNCHANGED overrun
    BY <1>7 DEF Acquire
  <2> QED  BY <1>1, <1>3, <1>7, <2>1, AcquireEffect, AcquireLeaves
<1>8. ASSUME NEW r \in Replicas, Fence(r) PROVE LeaseInv'
  <2>1. UNCHANGED overrun
    BY <1>8 DEF Fence
  <2> QED  BY <1>1, <1>3, <1>8, <2>1, FenceEffect, FenceLeaves
<1>9. ASSUME NEW r \in Replicas, Release(r) PROVE LeaseInv'
  <2>1. UNCHANGED <<issued, overrun>> /\ Return(r)
    BY <1>9 DEF Release
  <2>2. MindTyped' /\ StepsMatch'
    BY <2>1, ReturnEffect, ReturnMatches DEF MindTyped
  <2>3. LeaseTyped'
    BY <1>9, <2>1, Constants DEF Release, Released, LeaseTyped, TypeOK, NoRow, NoToken, Row
  <2> QED  BY <1>1, <1>3, <1>9, <2>1, <2>2, <2>3, ReleaseLeaves
<1>10. ASSUME NEW r \in Replicas, Crash(r) PROVE LeaseInv'
  <2>1. UNCHANGED <<lease, overrun>> /\ Return(r)
    BY <1>10 DEF Crash
  <2>2. MindTyped' /\ StepsMatch'
    BY <2>1, ReturnEffect, ReturnMatches DEF MindTyped
  <2> QED  BY <1>1, <1>2, <1>3, <2>1, <2>2, ReturnLeaves
<1>11. CASE UNCHANGED <<lease, mind, overrun>>
  <2>1. MindTyped' /\ StepsMatch'
    BY <1>11 DEF mind, MindTyped, TypeOK, StepsMatch, InSection
  <2> QED  BY <1>1, <1>2, <1>3, <1>11, <2>1, SameLease DEF mind
<1>12. ASSUME NEW r \in Replicas, Stall(r) \/ Resume(r) PROVE LeaseInv'
  BY <1>11, <1>12 DEF Stall, Resume
<1>13. CASE Tick
  BY <1>1, <1>13, TickEffect, TickLeaves
<1>14. CASE UNCHANGED vars
  BY <1>11, <1>14 DEF vars
<1> QED
  BY <1>4, <1>5, <1>6, <1>7, <1>8, <1>9, <1>10, <1>12, <1>13, <1>14, NextCases

\* The inductive invariant: handles of replicas hold different tokens, and the row of a replica
\* within its time is its own and expires with it.
THEOREM LeaseHolds == Spec => []LeaseInv
  BY LeaseInit, LeaseStep, PTL DEF Spec

\* Every column, handle and timer keeps its type.
THEOREM TypeCorrect == Spec => []TypeOK
<1>1. LeaseInv => TypeOK
  BY DEF LeaseInv
<1> QED  BY <1>1, LeaseHolds, PTL

\* The core is rolled back by the owner of the compile lease, also after a freeze.
THEOREM FenceHolds == Spec => RollbackIsFenced
<1>1. LeaseInv /\ [Next]_vars =>
        [\A r \in Replicas : pc[r] = "rollback" /\ pc'[r] = "mark" /\ held[r] < Ttl => row.token = token[r]]_vars
  BY DEF LeaseInv, StepsMatch, RowIsOwn, InLease
<1> QED  BY <1>1, LeaseHolds, PTL DEF Spec, RollbackIsFenced

-----------------------------------------------------------------------------
(* What is compiled.                                                        *)

\* No artifact becomes compiled and none ceases to be, or one replica advances its own.
LEMMA CompiledSteps ==
  ASSUME LeaseInv, [Next]_vars
  PROVE  \/ via' = via /\ \A a \in Artifacts : status'[a] = "compiled" <=> status[a] = "compiled"
         \/ \E r \in Replicas : /\ Advance(r) /\ status[art[r]] = "approved" /\ pc' = [pc EXCEPT ![r] = "release"]
                                /\ status' = [status EXCEPT ![art[r]] = "compiled"]
                                /\ via' = [via EXCEPT ![art[r]] = how[r]]
<1> DEFINE Same == via' = via /\ \A a \in Artifacts : status'[a] = "compiled" <=> status[a] = "compiled"
<1> USE DEF LeaseInv
<1>1. ASSUME UNCHANGED rows PROVE Same
  BY <1>1 DEF rows
<1>2. ASSUME NEW a \in Artifacts, status[a] # "compiled", NEW next \in Statuses \ {"compiled"}, NEW reason,
             SetStatus(a, next, reason), via' = via
      PROVE  Same
  BY <1>2 DEF SetStatus, TypeOK
<1>3. ASSUME NEW r \in Replicas, NEW a \in Artifacts, Ingest(r, a) PROVE Same
  BY <1>2, <1>3 DEF Ingest, Statuses
<1>4. ASSUME NEW r \in Replicas, Approve(r) \/ Reject(r) \/ Promote(r) \/ Mark(r) PROVE Same
  <2>1. art[r] \in Artifacts /\ via' = via
    BY <1>4, ArtifactAtWork DEF Approve, Reject, Promote, Mark, At
  <2>2. pc[r] = "reject" => seen[r] \in {"candidate", "approved"}
    BY DEF StepsMatch
  <2>3. \/ UNCHANGED rows
        \/ /\ status[art[r]] # "compiled"
           /\ \E next \in Statuses \ {"compiled"},
                 reason \in {"manually approved", "rejected", "auto-approved", "rolled back", "NEEDS_REPAIR"} :
                 SetStatus(art[r], next, reason)
    BY <1>4, <2>2 DEF Approve, Reject, Promote, Mark, Matches, At, rows, Statuses
  <2>4. CASE UNCHANGED rows
    BY <1>1, <2>4
  <2>5. CASE ~UNCHANGED rows
    <3>1. PICK next \in Statuses \ {"compiled"},
               reason \in {"manually approved", "rejected", "auto-approved", "rolled back", "NEEDS_REPAIR"} :
               SetStatus(art[r], next, reason)
      BY <2>3, <2>5
    <3>2. status[art[r]] # "compiled"
      BY <2>3, <2>5
    <3> QED  BY <1>2, <2>1, <3>1, <3>2
  <2> QED  BY <2>4, <2>5
<1>5. ASSUME NEW r \in Replicas, Advance(r), ~UNCHANGED rows
      PROVE  /\ status[art[r]] = "approved" /\ pc' = [pc EXCEPT ![r] = "release"]
             /\ status' = [status EXCEPT ![art[r]] = "compiled"]
             /\ via' = [via EXCEPT ![art[r]] = how[r]]
  BY <1>5 DEF Advance, Matches, SetStatus, Go
<1>6. ASSUME NEW r \in Replicas,
             \/ \E a \in Artifacts : ReadToApprove(r, a) \/ ReadToReject(r, a)
             \/ QuickBudget(r) \/ Acquire(r) \/ LeaseBusy(r) \/ Recheck(r) \/ Snapshot(r)
             \/ Compile(r) \/ CompileFails(r) \/ Fence(r) \/ Rollback(r) \/ RollbackFails(r) \/ Release(r)
             \/ Throws(r) \/ Crash(r) \/ Stall(r) \/ Resume(r)
      PROVE  UNCHANGED rows
  BY <1>6 DEF ReadToApprove, ReadToReject, QuickBudget, Acquire, LeaseBusy, Recheck, Snapshot,
     Compile, CompileFails, Fence, Rollback, RollbackFails, Release, Throws, Crash, Stall, Resume
<1>7. ASSUME Tick \/ UNCHANGED vars PROVE Same
  BY <1>1, <1>7 DEF Tick, vars
<1>8. Same \/ \E r \in Replicas : Advance(r) /\ ~UNCHANGED rows
  BY <1>1, <1>3, <1>4, <1>6, <1>7 DEF Next
<1>9. CASE \E r \in Replicas : Advance(r) /\ ~UNCHANGED rows
  <2>1. PICK r \in Replicas : Advance(r) /\ ~UNCHANGED rows
    BY <1>9
  <2> QED  BY <1>5, <2>1
<1> QED  BY <1>8, <1>9

\* An overrun is remembered.
LEMMA OverrunStays == [Next]_vars /\ overrun => overrun'
<1> SUFFICES ASSUME [Next]_vars, overrun PROVE overrun'
  OBVIOUS
<1>1. CASE Tick
  BY <1>1 DEF Tick
<1>2. ASSUME NEW r \in Replicas,
             \/ \E a \in Artifacts : Ingest(r, a) \/ ReadToApprove(r, a) \/ ReadToReject(r, a)
             \/ QuickBudget(r) \/ Approve(r) \/ Reject(r) \/ Acquire(r) \/ LeaseBusy(r) \/ Recheck(r)
             \/ Promote(r) \/ Snapshot(r) \/ Compile(r) \/ CompileFails(r) \/ Advance(r)
             \/ Fence(r) \/ Rollback(r) \/ RollbackFails(r) \/ Mark(r) \/ Release(r)
             \/ Throws(r) \/ Crash(r) \/ Stall(r) \/ Resume(r)
      PROVE  overrun'
  BY <1>2 DEF Ingest, ReadToApprove, ReadToReject, QuickBudget, Approve, Reject, Acquire, LeaseBusy, Recheck,
     Promote, Snapshot, Compile, CompileFails, Advance, Fence, Rollback, RollbackFails, Mark, Release,
     Throws, Crash, Stall, Resume
<1>3. CASE UNCHANGED vars
  BY <1>3 DEF vars
<1> QED  BY <1>1, <1>2, <1>3 DEF Next

\* The steps of a replica that change its local variables.
Moves(r) == Outside(r) \/ Inside(r) \/ Acquire(r) \/ Fence(r) \/ Release(r) \/ Throws(r) \/ Crash(r)

Locals(r) == <<pc[r], art[r], how[r], snap[r], token[r]>>

\* A replica's local variables change in its own steps only.
LEMMA OwnSteps ==
  ASSUME LeaseInv, [Next]_vars, NEW r \in Replicas
  PROVE  Moves(r) \/ UNCHANGED Locals(r)
<1> USE DEF LeaseInv
<1>1. ASSUME UNCHANGED <<pc, art, how, snap, token>> PROVE UNCHANGED Locals(r)
  BY <1>1 DEF Locals
<1>2. ASSUME NEW q \in Replicas \ {r}, Return(q) PROVE UNCHANGED Locals(r)
  BY <1>2, ReturnEffect DEF Locals
<1>3. ASSUME NEW q \in Replicas \ {r}, Inside(q) PROVE UNCHANGED Locals(r)
  BY <1>3 DEF Inside, Recheck, Promote, Snapshot, Compile, CompileFails, Advance,
     Rollback, RollbackFails, Mark, Go, Locals, TypeOK
<1>4. ASSUME NEW q \in Replicas \ {r}, NEW a \in Artifacts, Ingest(q, a) PROVE UNCHANGED Locals(r)
  <2>1. UNCHANGED <<snap, token>>
    BY <1>4 DEF Ingest
  <2>2. \/ pc' = [pc EXCEPT ![q] = "quick"] /\ art' = [art EXCEPT ![q] = a] /\ how' = [how EXCEPT ![q] = "auto"]
        \/ UNCHANGED <<pc, art, how>>
    BY <1>4 DEF Ingest, Go
  <2> QED  BY <2>1, <2>2 DEF Locals, TypeOK
<1>5. ASSUME NEW q \in Replicas \ {r}, NEW a \in Artifacts, ReadToApprove(q, a) \/ ReadToReject(q, a)
      PROVE  UNCHANGED Locals(r)
  BY <1>5 DEF ReadToApprove, ReadToReject, Go, Locals, TypeOK
<1>6. ASSUME NEW q \in Replicas \ {r}, QuickBudget(q) \/ Approve(q) PROVE UNCHANGED Locals(r)
  <2>1. Return(q) \/ (UNCHANGED <<art, how, snap, token>> /\ Go(q, "acquire"))
    BY <1>6 DEF QuickBudget, Approve
  <2> QED  BY <1>2, <2>1 DEF Go, Locals, TypeOK
<1>7. ASSUME NEW q \in Replicas \ {r}, Acquire(q) \/ Fence(q) PROVE UNCHANGED Locals(r)
  BY <1>7 DEF Acquire, Fence, Go, Locals, TypeOK
<1>8. ASSUME NEW q \in Replicas \ {r}, Throws(q) PROVE UNCHANGED Locals(r)
  <2>1. Return(q) \/ (UNCHANGED <<art, how, snap, token>> /\ \E step \in Steps : Go(q, step))
    BY <1>8 DEF Throws, Steps
  <2> QED  BY <1>2, <2>1 DEF Go, Locals, TypeOK
<1>9. ASSUME NEW q \in Replicas \ {r}, Reject(q) \/ LeaseBusy(q) \/ Release(q) \/ Crash(q)
      PROVE  UNCHANGED Locals(r)
  BY <1>2, <1>9 DEF Reject, LeaseBusy, Release, Crash
<1>10. ASSUME NEW q \in Replicas, Stall(q) \/ Resume(q) PROVE UNCHANGED Locals(r)
  <2>1. UNCHANGED mind
    BY <1>10 DEF Stall, Resume
  <2> QED  BY <1>1, <2>1 DEF mind
<1>11. ASSUME Tick \/ UNCHANGED vars PROVE UNCHANGED Locals(r)
  BY <1>1, <1>11 DEF Tick, vars, mind
<1>12. ASSUME NEW q \in Replicas \ {r}, Outside(q) PROVE UNCHANGED Locals(r)
  BY <1>4, <1>5, <1>6, <1>9, <1>12 DEF Outside
<1> QED
  BY <1>3, <1>7, <1>8, <1>9, <1>10, <1>11, <1>12, NextCases DEF Moves

\* Where a replica can be after a step, by where it was.
LEMMA Entering ==
  ASSUME LeaseInv, [Next]_vars, NEW r \in Replicas, pc'[r] \in InLease
  PROVE  \/ UNCHANGED Locals(r)
         \/ Acquire(r) /\ pc'[r] = (IF how[r] = "auto" THEN "recheck" ELSE "snapshot") /\ UNCHANGED how[r]
         \/ /\ InSection(r) /\ pc[r] \in InLease /\ UNCHANGED <<art[r], how[r]>>
            /\ \/ Recheck(r) /\ pc'[r] \in {"promote", "release"} /\ (pc'[r] = "promote" => WithinBudget)
               \/ Promote(r) /\ pc'[r] \in {"snapshot", "release"}
               \/ Snapshot(r) /\ pc'[r] = "compile" /\ snap'[r] = core
               \/ /\ UNCHANGED snap[r]
                  /\ \/ Compile(r) /\ pc'[r] = "advance"
                     \/ CompileFails(r) /\ pc'[r] = "fence"
                     \/ pc[r] = "advance" /\ pc'[r] \in {"fence", "release"}
                     \/ Fence(r) /\ pc'[r] \in {"rollback", "release"}
                     \/ pc'[r] \in {"mark", "repair", "release"}
<1> USE DEF LeaseInv
<1>1. CASE UNCHANGED Locals(r)
  BY <1>1
<1>2. ASSUME Return(r) PROVE FALSE
  BY <1>2, ReturnEffect DEF InLease
<1>3. ASSUME Outside(r), ~Return(r) PROVE FALSE
  <2>1. pc[r] \notin InLease /\ (pc'[r] \in {"quick", "approve", "acquire", "reject"} \/ UNCHANGED pc)
    BY <1>3 DEF Outside, Ingest, ReadToApprove, ReadToReject, QuickBudget, Approve, Reject, LeaseBusy, At, Go,
       TypeOK, InLease
  <2> QED  BY <2>1 DEF InLease
<1>4. CASE Acquire(r)
  BY <1>4 DEF Acquire, Go, TypeOK
<1>5. CASE Inside(r)
  <2>1. InSection(r) /\ pc[r] \in InLease /\ UNCHANGED <<art, how>>
    BY <1>5 DEF Inside, Recheck, Promote, Snapshot, Compile, CompileFails, Advance, Rollback, RollbackFails, Mark,
       At, StepsMatch, InLease
  <2>2. CASE Recheck(r) \/ Promote(r)
    BY <2>1, <2>2 DEF Recheck, Promote, RecheckPasses, Go, TypeOK
  <2>3. CASE Snapshot(r)
    BY <2>1, <2>3 DEF Snapshot, Go, TypeOK
  <2>4. CASE Compile(r) \/ CompileFails(r)
    BY <2>1, <2>4 DEF Compile, CompileFails, Go, TypeOK
  <2>5. CASE Advance(r) \/ Rollback(r) \/ RollbackFails(r) \/ Mark(r)
    BY <2>1, <2>5 DEF Advance, AfterMissedAdvance, Rollback, RollbackFails, Mark, Go, At, TypeOK
  <2> QED  BY <1>5, <2>2, <2>3, <2>4, <2>5 DEF Inside
<1>6. CASE Fence(r)
  BY <1>6 DEF Fence, Go, At, TypeOK, StepsMatch, InLease
<1>7. CASE Throws(r)
  <2>1. /\ InSection(r) /\ pc[r] \in InLease /\ UNCHANGED <<art, how, snap>>
        /\ \/ pc'[r] = "release"
           \/ pc[r] = "advance" /\ pc'[r] = "fence"
    BY <1>2, <1>7 DEF Throws, Go, TypeOK, StepsMatch, InLease
  <2> QED  BY <2>1
<1>8. Release(r) \/ Crash(r) => Return(r)
  BY DEF Release, Crash
<1> QED
  BY <1>1, <1>2, <1>3, <1>4, <1>5, <1>6, <1>7, <1>8, OwnSteps DEF Moves

-----------------------------------------------------------------------------
(* The budget.                                                              *)

\* Between the check under the lease and the status advance there is room for one.
Counted == {"promote", "snapshot", "compile", "advance"}

RoomForOne ==
    /\ Cardinality(AutoCompiled) <= Budget
    /\ \A r \in Replicas : pc[r] \in Counted /\ how[r] = "auto" => Cardinality(AutoCompiled) < Budget

BudgetInv == IsFiniteSet(AutoCompiled) /\ (~overrun => RoomForOne)

\* Who advances is alone: nobody else counts on the room it takes.
LEMMA AdvancesAlone ==
  ASSUME LeaseInv, ~overrun, NEW q \in Replicas, Advance(q), pc' = [pc EXCEPT ![q] = "release"],
         NEW r \in Replicas, pc'[r] \in InLease
  PROVE  r = q /\ pc'[r] = "release"
<1>1. InSection(q)
  BY DEF LeaseInv, StepsMatch, Advance, At, InLease
<1>2. ASSUME r # q PROVE InSection(r)
  BY <1>2 DEF LeaseInv, TypeOK, StepsMatch
<1> QED  BY <1>1, <1>2, AloneInSection DEF LeaseInv, TypeOK

\* Every step keeps the count of auto-compiled artifacts within the budget.
LEMMA BudgetStep == LeaseInv /\ BudgetInv /\ [Next]_vars => BudgetInv'
<1> SUFFICES ASSUME LeaseInv, BudgetInv, [Next]_vars PROVE BudgetInv'
  OBVIOUS
<1>1. Cardinality(AutoCompiled) \in Nat /\ Budget \in Nat
  BY FS_CardinalityType, Constants DEF BudgetInv
<1>2. CASE via' = via /\ \A a \in Artifacts : status'[a] = "compiled" <=> status[a] = "compiled"
  <2>1. AutoCompiled' = AutoCompiled
    BY <1>2 DEF AutoCompiled
  <2>2. ASSUME ~overrun' PROVE RoomForOne'
    <3>1. ~overrun /\ RoomForOne
      BY <2>2, OverrunStays DEF BudgetInv
    <3>2. ASSUME NEW r \in Replicas, pc'[r] \in Counted, how'[r] = "auto"
          PROVE  Cardinality(AutoCompiled) < Budget
      <4>1. pc'[r] \in InLease
        BY <3>2 DEF Counted, InLease
      <4>2. CASE UNCHANGED Locals(r)
        BY <3>1, <3>2, <4>2 DEF Locals, RoomForOne
      <4>3. CASE Acquire(r) /\ pc'[r] = (IF how[r] = "auto" THEN "recheck" ELSE "snapshot") /\ UNCHANGED how[r]
        BY <3>2, <4>3 DEF Counted
      <4>4. CASE UNCHANGED <<art[r], how[r]>> /\ pc'[r] = "promote" /\ WithinBudget
        BY <4>4 DEF WithinBudget
      <4>5. CASE UNCHANGED <<art[r], how[r]>> /\ pc[r] \in Counted
        BY <3>1, <3>2, <4>5 DEF RoomForOne
      <4>6. Promote(r) \/ Snapshot(r) \/ Compile(r) => pc[r] \in Counted
        BY DEF Promote, Snapshot, Compile, At, Counted
      <4> QED  BY <3>2, <4>1, <4>2, <4>3, <4>4, <4>5, <4>6, Entering DEF Counted
    <3> QED  BY <2>1, <3>1, <3>2 DEF RoomForOne
  <2> QED  BY <2>1, <2>2 DEF BudgetInv
<1>3. ASSUME NEW q \in Replicas, Advance(q), status[art[q]] = "approved", pc' = [pc EXCEPT ![q] = "release"],
             status' = [status EXCEPT ![art[q]] = "compiled"], via' = [via EXCEPT ![art[q]] = how[q]]
      PROVE  BudgetInv'
  <2>1. art[q] \in Artifacts /\ pc[q] = "advance" /\ how[q] \in {"auto", "approved"}
    BY <1>3 DEF Advance, At, LeaseInv, StepsMatch, InLease
  <2>2. AutoCompiled' = IF how[q] = "auto" THEN AutoCompiled \cup {art[q]} ELSE AutoCompiled
    BY <1>3, <2>1 DEF AutoCompiled, LeaseInv, TypeOK
  <2>3. IsFiniteSet(AutoCompiled')
    BY <2>2, FS_AddElement DEF BudgetInv
  <2>4. ASSUME ~overrun' PROVE RoomForOne'
    <3>1. ~overrun /\ RoomForOne
      BY <2>4, OverrunStays DEF BudgetInv
    <3>2. Cardinality(AutoCompiled') <= Budget
      <4>1. CASE how[q] = "auto"
        <5>1. Cardinality(AutoCompiled) < Budget
          BY <2>1, <3>1, <4>1 DEF RoomForOne, Counted
        <5>2. AutoCompiled' = AutoCompiled \cup {art[q]}
          BY <2>2, <4>1
        <5>3. Cardinality(AutoCompiled') <= Cardinality(AutoCompiled) + 1
          BY <1>1, <5>2, FS_AddElement DEF BudgetInv
        <5>4. Cardinality(AutoCompiled') \in Nat
          BY <2>3, FS_CardinalityType
        <5> QED  BY <1>1, <5>1, <5>3, <5>4
      <4>2. CASE how[q] # "auto"
        BY <2>2, <3>1, <4>2 DEF RoomForOne
      <4> QED  BY <4>1, <4>2
    <3>3. ASSUME NEW r \in Replicas, pc'[r] \in Counted PROVE FALSE
      BY <1>3, <3>1, <3>3, AdvancesAlone DEF Counted, InLease
    <3> QED  BY <3>2, <3>3 DEF RoomForOne
  <2> QED  BY <2>3, <2>4 DEF BudgetInv
<1> QED  BY <1>2, <1>3, CompiledSteps

\* However many replicas ingest at once, the budget for unverified growth is never exceeded.
THEOREM BudgetHolds == Spec => []AutoBudget
<1>1. Init => BudgetInv
  <2> SUFFICES ASSUME Init PROVE BudgetInv
    OBVIOUS
  <2>1. AutoCompiled = {}
    BY DEF Init, AutoCompiled
  <2>2. IsFiniteSet(AutoCompiled) /\ Cardinality(AutoCompiled) = 0
    BY <2>1, FS_EmptySet
  <2>3. RoomForOne
    BY <2>2, Constants DEF Init, RoomForOne, Counted
  <2> QED  BY <2>2, <2>3 DEF BudgetInv
<1>2. BudgetInv => AutoBudget
  BY DEF BudgetInv, RoomForOne, AutoBudget
<1> QED  BY <1>1, <1>2, LeaseHolds, BudgetStep, PTL DEF Spec

-----------------------------------------------------------------------------
(* What is in effect.                                                       *)

\* The core and the tables grow by a compile; the core goes back by a rollback.
LEMMA CoreSteps ==
  ASSUME LeaseInv, [Next]_vars
  PROVE  /\ tables \subseteq tables' /\ unrestored \subseteq unrestored'
         /\ \/ UNCHANGED <<core, tables>>
            \/ \E q \in Replicas : Rollback(q) /\ core' = snap[q] /\ UNCHANGED <<rows, tables>>
            \/ \E q \in Replicas : /\ Compile(q) /\ pc'[q] = "advance" /\ UNCHANGED art[q]
                                   /\ core \subseteq core' /\ core' \subseteq core \cup {art[q]}
<1>1. ASSUME NEW q \in Replicas, Rollback(q)
      PROVE  core' = snap[q] /\ UNCHANGED <<rows, tables, unrestored>>
  BY <1>1 DEF Rollback
<1>2. ASSUME NEW q \in Replicas, Compile(q)
      PROVE  /\ pc'[q] = "advance" /\ UNCHANGED <<art[q], unrestored>> /\ tables \subseteq tables'
             /\ core \subseteq core' /\ core' \subseteq core \cup {art[q]}
  BY <1>2 DEF Compile, Go, LeaseInv, TypeOK
<1>3. ASSUME NEW q \in Replicas, Fence(q) \/ RollbackFails(q) \/ Throws(q) \/ Crash(q)
      PROVE  UNCHANGED <<core, tables>> /\ unrestored \subseteq unrestored'
  BY <1>3 DEF Fence, RollbackFails, Throws, Crash, Unrestored
<1>4. ASSUME NEW q \in Replicas,
             \/ \E a \in Artifacts : Ingest(q, a) \/ ReadToApprove(q, a) \/ ReadToReject(q, a)
             \/ QuickBudget(q) \/ Approve(q) \/ Reject(q) \/ Acquire(q) \/ LeaseBusy(q) \/ Recheck(q)
             \/ Promote(q) \/ Snapshot(q) \/ CompileFails(q) \/ Advance(q) \/ Mark(q) \/ Release(q)
             \/ Stall(q) \/ Resume(q)
      PROVE  UNCHANGED <<core, tables, unrestored>>
  BY <1>4 DEF Ingest, ReadToApprove, ReadToReject, QuickBudget, Approve, Reject, Acquire, LeaseBusy, Recheck,
     Promote, Snapshot, CompileFails, Advance, Mark, Release, Stall, Resume
<1>5. Tick \/ UNCHANGED vars => UNCHANGED <<core, tables, unrestored>>
  BY DEF Tick, vars
<1>6. CASE UNCHANGED <<core, tables>> /\ unrestored \subseteq unrestored'
  BY <1>6
<1>7. CASE \E q \in Replicas : Rollback(q)
  BY <1>1, <1>7
<1>8. CASE \E q \in Replicas : Compile(q)
  BY <1>2, <1>8
<1> QED  BY <1>3, <1>4, <1>5, <1>6, <1>7, <1>8 DEF Next

\* From the snapshot on, the replica may still go back to it.
Bound == {"compile", "advance", "fence", "rollback"}

\* What is compiled is in effect, and was when a replica that may go back took its snapshot.
EffectKept ==
    /\ \A a \in Artifacts : status[a] = "compiled" => a \in core \cup tables
    /\ \A r \in Replicas : pc[r] \in Bound =>
          \A a \in Artifacts : status[a] = "compiled" => a \in snap[r] \cup tables
    /\ \A r \in Replicas : pc[r] = "advance" => art[r] \in core \cup tables

EffectInv == ~overrun => EffectKept

\* Two replicas in the section are one, also when one of them has only now entered it.
LEMMA AloneInStep ==
  ASSUME LeaseInv, [Next]_vars, ~overrun, NEW q \in Replicas, InSection(q), Inside(q),
         NEW r \in Replicas, pc'[r] \in Bound
  PROVE  r = q
<1>1. CASE UNCHANGED Locals(r)
  <2>1. InSection(r)
    BY <1>1 DEF Locals, LeaseInv, StepsMatch, Bound, InLease
  <2> QED  BY <2>1, AloneInSection
<1>2. CASE InSection(r)
  BY <1>2, AloneInSection
<1>3. ~Acquire(r) \/ pc'[r] \notin Bound
  BY DEF Acquire, Go, Bound, LeaseInv, TypeOK
<1> QED  BY <1>1, <1>2, <1>3, Entering DEF Bound, InLease

\* While a replica is bound to its snapshot it keeps it, and it is bound from the snapshot on.
LEMMA EnteringBound ==
  ASSUME LeaseInv, [Next]_vars, NEW r \in Replicas, pc'[r] \in Bound
  PROVE  (pc[r] \in Bound /\ UNCHANGED snap[r]) \/ (Snapshot(r) /\ snap'[r] = core)
<1>1. pc'[r] \in InLease
  BY DEF Bound, InLease
<1>2. ~Acquire(r) \/ pc'[r] \notin Bound
  BY DEF Acquire, Go, Bound, LeaseInv, TypeOK
<1>3. CASE UNCHANGED Locals(r)
  BY <1>3 DEF Locals
<1>4. Compile(r) \/ CompileFails(r) \/ Fence(r) => pc[r] \in Bound
  BY DEF Compile, CompileFails, Fence, At, Bound
<1>5. ~Recheck(r) \/ pc'[r] \notin Bound
  BY DEF Recheck, Go, Bound, LeaseInv, TypeOK
<1>6. ~Promote(r) \/ pc'[r] \notin Bound
  BY DEF Promote, Go, Bound, LeaseInv, TypeOK
<1> QED  BY <1>1, <1>2, <1>3, <1>4, <1>5, <1>6, Entering DEF Bound

\* Statements of the section run with a handle.
LEMMA InsideIsInSection ==
  ASSUME LeaseInv, NEW r \in Replicas, Inside(r)
  PROVE  InSection(r)
  BY InsideEffect DEF LeaseInv, StepsMatch

\* Every step keeps what is compiled in effect.
LEMMA EffectStep == LeaseInv /\ EffectInv /\ [Next]_vars => EffectInv'
<1> SUFFICES ASSUME LeaseInv, EffectInv, [Next]_vars, ~overrun' PROVE EffectKept'
  BY DEF EffectInv
<1>1. ~overrun /\ EffectKept
  BY OverrunStays DEF EffectInv
<1>2. ASSUME NEW q \in Replicas, Advance(q), status[art[q]] = "approved", pc' = [pc EXCEPT ![q] = "release"],
             status' = [status EXCEPT ![art[q]] = "compiled"]
      PROVE  EffectKept'
  <2>1. UNCHANGED <<core, tables>> /\ pc[q] = "advance" /\ art[q] \in Artifacts
    BY <1>2 DEF Advance, At, LeaseInv, StepsMatch
  <2>2. \A a \in Artifacts : status'[a] = "compiled" => a \in core' \cup tables'
    BY <1>1, <1>2, <2>1 DEF EffectKept, LeaseInv, TypeOK
  <2>3. ASSUME NEW r \in Replicas, pc'[r] \in Bound PROVE FALSE
    BY <1>1, <1>2, <2>3, AdvancesAlone DEF Bound, InLease
  <2> QED  BY <2>2, <2>3 DEF EffectKept, Bound
<1>3. CASE \A a \in Artifacts : status'[a] = "compiled" <=> status[a] = "compiled"
  <2>1. \A a \in Artifacts : status'[a] = "compiled" => a \in core' \cup tables'
    <3>1. CASE \E q \in Replicas : Rollback(q) /\ core' = snap[q] /\ UNCHANGED <<rows, tables>>
      <4>1. PICK q \in Replicas : Rollback(q) /\ core' = snap[q] /\ UNCHANGED <<rows, tables>>
        BY <3>1
      <4>2. pc[q] \in Bound
        BY <4>1 DEF Rollback, At, Bound
      <4> QED  BY <1>1, <1>3, <4>1, <4>2 DEF EffectKept
    <3>2. CASE core \subseteq core' /\ tables \subseteq tables'
      BY <1>1, <1>3, <3>2 DEF EffectKept
    <3> QED  BY <3>1, <3>2, CoreSteps
  <2>2. ASSUME NEW r \in Replicas, pc'[r] \in Bound, NEW a \in Artifacts, status'[a] = "compiled"
        PROVE  a \in snap'[r] \cup tables'
    BY <1>1, <1>3, <2>2, EnteringBound, CoreSteps DEF EffectKept
  <2>3. ASSUME NEW r \in Replicas, pc'[r] = "advance" PROVE art'[r] \in core' \cup tables'
    <3>1. pc'[r] \in InLease /\ pc'[r] \in Bound
      BY <2>3 DEF InLease, Bound
    <3>2. CASE Compile(r)
      BY <3>2 DEF Compile
    <3>3. CASE UNCHANGED Locals(r)
      <4>1. pc[r] = "advance" /\ art'[r] = art[r] /\ art[r] \in core \cup tables
        BY <1>1, <2>3, <3>3 DEF Locals, EffectKept
      <4>2. ASSUME NEW q \in Replicas, Rollback(q) PROVE FALSE
        <5>1. Inside(q) /\ pc[q] = "rollback"
          BY <4>2 DEF Inside, Rollback, At
        <5>2. r = q
          BY <1>1, <3>1, <5>1, AloneInStep, InsideIsInSection
        <5> QED  BY <4>1, <5>1, <5>2
      <4> QED  BY <4>1, <4>2, CoreSteps
    <3>4. ~Acquire(r) \/ pc'[r] \notin Bound
      BY DEF Acquire, Go, Bound, LeaseInv, TypeOK
    <3> QED  BY <2>3, <3>1, <3>2, <3>3, <3>4, Entering
  <2> QED  BY <2>1, <2>2, <2>3 DEF EffectKept
<1> QED  BY <1>2, <1>3, CompiledSteps

\* No compensation goes back behind the compile of another replica.
THEOREM EffectHolds == Spec => []CompiledInEffect
<1>1. Init => EffectInv
  BY DEF Init, EffectInv, EffectKept, Bound
<1>2. EffectInv => CompiledInEffect
  BY DEF EffectInv, EffectKept, CompiledInEffect
<1> QED  BY <1>1, <1>2, LeaseHolds, EffectStep, PTL DEF Spec

-----------------------------------------------------------------------------
(* Who answers for what is in the core.                                     *)

\* An artifact written to the core and not yet compiled is in the hands of a replica.
Pending == {"advance", "fence", "rollback"}

Settled(a) == status[a] = "compiled" \/ a \in unrestored

\* What is in the core is settled or pending, and what is in a snapshot is settled.
CoreAccounted ==
    /\ \A a \in core : Settled(a) \/ \E r \in Replicas : pc[r] \in Pending /\ art[r] = a
    /\ \A r \in Replicas : pc[r] \in Bound => \A a \in snap[r] : Settled(a)

AccountInv == ~overrun => CoreAccounted

\* A replica gives up its artifact by compiling it, by rolling it back, or unrestored.
LEMMA LeavingPending ==
  ASSUME LeaseInv, [Next]_vars, NEW r \in Replicas, pc[r] \in Pending, NEW a \in Artifacts, art[r] = a
  PROVE  \/ pc'[r] \in Pending /\ art'[r] = a
         \/ Settled(a)'
         \/ Rollback(r)
<1>1. CASE UNCHANGED Locals(r)
  BY <1>1 DEF Locals
<1>2. CASE Advance(r)
  <2>1. art' = art
    BY <1>2 DEF Advance
  <2>2. (status' = [status EXCEPT ![a] = "compiled"]) \/ (pc' = [pc EXCEPT ![r] = "fence"])
    BY <1>2 DEF Advance, AfterMissedAdvance, SetStatus, Go
  <2> QED  BY <2>1, <2>2 DEF LeaseInv, TypeOK, Pending, Settled
<1>3. CASE Fence(r)
  BY <1>3 DEF Fence, Unrestored, Go, LeaseInv, TypeOK, Pending, Settled
<1>4. CASE RollbackFails(r)
  BY <1>4 DEF RollbackFails, Unrestored, Settled
<1>5. CASE Throws(r)
  BY <1>5 DEF Throws, Unrestored, Go, LeaseInv, TypeOK, Pending, Settled
<1>6. CASE Crash(r)
  BY <1>6 DEF Crash, Settled, Pending
<1>7. ~Outside(r)
  BY DEF Outside, Ingest, ReadToApprove, ReadToReject, QuickBudget, Approve, Reject, LeaseBusy, At, Pending
<1>8. Inside(r) => Advance(r) \/ Rollback(r) \/ RollbackFails(r)
  BY DEF Inside, Recheck, Promote, Snapshot, Compile, CompileFails, Mark, At, Pending
<1>9. ~Acquire(r) /\ ~Release(r)
  BY DEF Acquire, Release, At, Pending
<1> QED  BY <1>1, <1>2, <1>3, <1>4, <1>5, <1>6, <1>7, <1>8, <1>9, OwnSteps DEF Moves

\* A compiled artifact stays compiled, an unrestored one unrestored.
LEMMA SettledStays ==
  ASSUME LeaseInv, [Next]_vars, NEW a \in Artifacts, Settled(a)
  PROVE  Settled(a)'
<1>1. status[a] = "compiled" => status'[a] = "compiled"
  <2>1. CASE \A b \in Artifacts : status'[b] = "compiled" <=> status[b] = "compiled"
    BY <2>1
  <2>2. ASSUME NEW q \in Replicas, status' = [status EXCEPT ![art[q]] = "compiled"]
        PROVE  status[a] = "compiled" => status'[a] = "compiled"
    BY <2>2 DEF LeaseInv, TypeOK
  <2> QED  BY <2>1, <2>2, CompiledSteps
<1> QED  BY <1>1, CoreSteps DEF Settled

\* Every step keeps the core accounted for.
LEMMA AccountStep == LeaseInv /\ AccountInv /\ [Next]_vars => AccountInv'
<1> SUFFICES ASSUME LeaseInv, AccountInv, [Next]_vars, ~overrun' PROVE CoreAccounted'
  BY DEF AccountInv
<1>1. ~overrun /\ CoreAccounted
  BY OverrunStays DEF AccountInv
<1>2. core \subseteq Artifacts /\ \A r \in Replicas : snap[r] \subseteq Artifacts
  BY DEF LeaseInv, TypeOK
<1>3. ASSUME NEW a \in core, \A r \in Replicas : ~Rollback(r)
      PROVE  Settled(a)' \/ \E r \in Replicas : pc'[r] \in Pending /\ art'[r] = a
  <2>1. CASE Settled(a)
    BY <1>2, <2>1, SettledStays
  <2>2. CASE \E r \in Replicas : pc[r] \in Pending /\ art[r] = a
    <3>1. PICK r \in Replicas : pc[r] \in Pending /\ art[r] = a
      BY <2>2
    <3> QED  BY <1>2, <1>3, <3>1, LeavingPending
  <2> QED  BY <1>1, <2>1, <2>2 DEF CoreAccounted
<1>4. \A a \in core' : Settled(a)' \/ \E r \in Replicas : pc'[r] \in Pending /\ art'[r] = a
  <2>1. CASE \E q \in Replicas : Rollback(q)
    <3>1. PICK q \in Replicas : Rollback(q)
      BY <2>1
    <3>2. pc[q] \in Bound /\ core' = snap[q]
      BY <3>1 DEF Rollback, At, Bound
    <3> QED  BY <1>1, <1>2, <3>2, SettledStays DEF CoreAccounted
  <2>2. CASE UNCHANGED core /\ \A q \in Replicas : ~Rollback(q)
    BY <1>3, <2>2
  <2>3. ASSUME NEW q \in Replicas, Compile(q), pc'[q] = "advance", UNCHANGED art[q], core' \subseteq core \cup {art[q]},
               \A r \in Replicas : ~Rollback(r)
        PROVE  \A a \in core' : Settled(a)' \/ \E r \in Replicas : pc'[r] \in Pending /\ art'[r] = a
    <3>1. pc'[q] \in Pending /\ art'[q] = art[q]
      BY <2>3 DEF Pending
    <3> QED  BY <1>3, <2>3, <3>1
  <2> QED  BY <2>1, <2>2, <2>3, CoreSteps
<1>5. ASSUME NEW r \in Replicas, pc'[r] \in Bound, NEW a \in snap'[r] PROVE Settled(a)'
  <2>1. CASE pc[r] \in Bound /\ UNCHANGED snap[r]
    BY <1>1, <1>2, <1>5, <2>1, SettledStays DEF CoreAccounted
  <2>2. CASE Snapshot(r) /\ snap'[r] = core
    <3>1. InSection(r) /\ pc[r] = "snapshot"
      BY <2>2, InsideIsInSection DEF Inside, Snapshot, At
    <3>2. ASSUME NEW q \in Replicas, pc[q] \in Pending PROVE FALSE
      <4>1. InSection(q)
        BY <3>2 DEF LeaseInv, StepsMatch, Pending, InLease
      <4>2. q = r
        BY <1>1, <3>1, <4>1, AloneInSection
      <4> QED  BY <3>1, <3>2, <4>2 DEF Pending
    <3>3. Settled(a) /\ a \in Artifacts
      BY <1>1, <1>2, <1>5, <2>2, <3>2 DEF CoreAccounted
    <3> QED  BY <3>3, SettledStays
  <2> QED  BY <1>5, <2>1, <2>2, EnteringBound
<1> QED  BY <1>4, <1>5 DEF CoreAccounted

\* Whichever way compile and rejection interleave, somebody takes the effect on the core back.
THEOREM RejectionHolds == Spec => []RejectedNotInCore
<1>1. Init => AccountInv
  BY DEF Init, AccountInv, CoreAccounted, Bound
<1>2. LeaseInv /\ AccountInv => RejectedNotInCore
  <2> SUFFICES ASSUME LeaseInv, CoreAccounted, NEW a \in core, a \notin unrestored, status[a] = "rejected"
               PROVE  \E r \in Replicas : InSection(r) /\ art[r] = a
    BY DEF AccountInv, RejectedNotInCore
  <2>1. PICK r \in Replicas : pc[r] \in Pending /\ art[r] = a
    BY DEF CoreAccounted, Settled
  <2>2. InSection(r)
    BY <2>1 DEF LeaseInv, StepsMatch, Pending, InLease
  <2> QED  BY <2>1, <2>2
<1> QED  BY <1>1, <1>2, LeaseHolds, AccountStep, PTL DEF Spec

\* The status of an artifact and the core agree, for any number of replicas.
THEOREM StatusHolds == Spec => []StatusTellsCore
BY EffectHolds, RejectionHolds, PTL DEF StatusTellsCore
=============================================================================
