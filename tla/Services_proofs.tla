-------------------------- MODULE Services_proofs --------------------------
(***************************************************************************)
(* Proofs about the services that work beside each other in a replica: the *)
(* task queue, for every set of tasks, workers, slots and API threads and  *)
(* every value of the timers and limits; the persona leases, for any       *)
(* number of clients, keys, crashes and freezes; the quota of model calls, *)
(* for any calls, estimates, limits and windows; the earning cycles, for   *)
(* any finite market and any number of cycles.                             *)
(***************************************************************************)
EXTENDS TaskQueue, PersonaLease, TokenQuota, EarningCycle, Sums_proofs
-----------------------------------------------------------------------------
(* The task queue *)

\* A retry's delay is a number of ticks.
LEMMA BackoffType == ASSUME NEW r \in Nat PROVE Backoff(r) \in Nat
  <1>1. MaxBackoff \in Nat  BY QueueAssumption DEF QueueAssumption
  <1> QED  BY <1>1 DEF Backoff

\* A free slot is an attempt at no task.
LEMMA FreeType == Free \in Attempt
  BY DEF Free, Attempt

\* Taking controllers off a worker's list keeps everything else of its attempts.
LEMMA UnlistedSlots ==
  ASSUME slot \in [Slot -> Attempt], NEW w, NEW t
  PROVE  /\ Unlisted(w, t) \in [Slot -> Attempt]
         /\ \A p \in Slot : /\ Unlisted(w, t)[p].task = slot[p].task
                            /\ Unlisted(w, t)[p].retry = slot[p].retry
                            /\ Unlisted(w, t)[p].elapsed = slot[p].elapsed
                            /\ Unlisted(w, t)[p].aborted = slot[p].aborted
  BY DEF Unlisted, Attempt

\* What the end of an attempt does to the slots of its worker and of the others.
LEMMA ReleasedSlots ==
  ASSUME slot \in [Slot -> Attempt], NEW p \in Slot, Release(p)
  PROVE  /\ slot' \in [Slot -> Attempt] /\ slot'[p] = Free
         /\ \A q \in Slot \ {p} : /\ slot'[q].task = slot[q].task /\ slot'[q].retry = slot[q].retry
                                   /\ slot'[q].elapsed = slot[q].elapsed /\ slot'[q].aborted = slot[q].aborted
<1>1. PICK u : u = Unlisted(p[1], slot[p].task)
  OBVIOUS
<1>2. u \in [Slot -> Attempt] /\ slot' = [u EXCEPT ![p] = Free]
  BY <1>1, UnlistedSlots DEF Release
<1>3. slot' \in [Slot -> Attempt] /\ slot'[p] = Free /\ \A q \in Slot \ {p} : slot'[q] = u[q]
  BY <1>2, FreeType
<1>4. \A q \in Slot : /\ u[q].task = slot[q].task /\ u[q].retry = slot[q].retry
                      /\ u[q].elapsed = slot[q].elapsed /\ u[q].aborted = slot[q].aborted
  BY <1>1, UnlistedSlots
<1> QED
  BY <1>3, <1>4

\* Writing a status by id keeps the types of the two columns it touches.
LEMMA WriteStatusType ==
  ASSUME TypeOK, NEW t \in Tasks, NEW s \in Status, WriteStatus(t, s)
  PROVE  status' \in [Tasks -> Status] /\ age' \in [Tasks -> 0 .. AgeCap]
  <1>1. Retention \in Nat  BY QueueAssumption DEF QueueAssumption
  <1> QED  BY <1>1 DEF WriteStatus, TypeOK, AgeCap

\* The catch branch of handleTask keeps the columns' types.
LEMMA RetryOrFailType ==
  ASSUME TypeOK, NEW p \in Slot, slot[p].task # Nobody, RetryOrFail(p)
  PROVE  /\ status' \in [Tasks -> Status] /\ age' \in [Tasks -> 0 .. AgeCap]
         /\ retryCount' \in [Tasks -> Nat] /\ wait' \in [Tasks -> Nat]
  <1>1. slot[p].task \in Tasks /\ slot[p].retry \in Nat
    BY DEF TypeOK, Attempt
  <1>2. Backoff(slot[p].retry) \in Nat
    BY <1>1, BackoffType
  <1>3. retryCount' \in [Tasks -> Nat]
    BY <1>1 DEF RetryOrFail, MayRetry, TypeOK
  <1>4. wait' \in [Tasks -> Nat]
    BY <1>1, <1>2 DEF RetryOrFail, MayRetry, TypeOK
  <1>5. "pending" \in Status /\ "failed" \in Status
    BY DEF Status
  <1>6. WriteStatus(slot[p].task, "pending") \/ WriteStatus(slot[p].task, "failed")
    BY DEF RetryOrFail, MayRetry
  <1> QED  BY <1>1, <1>3, <1>4, <1>5, <1>6, WriteStatusType

\* What a claim does to the slots.
LEMMA ClaimedSlots ==
  ASSUME TypeOK, NEW w \in Workers, NEW s \in Slots, ClaimWon(w, s)
  PROVE  /\ slot' \in [Slot -> Attempt]
         /\ /\ slot'[<<w, s>>].task = candidate[w] /\ slot'[<<w, s>>].retry = retryCount[candidate[w]]
            /\ slot'[<<w, s>>].elapsed = 0 /\ slot'[<<w, s>>].aborted = FALSE
         /\ \A q \in Slot \ {<<w, s>>} :
               /\ slot'[q].task = slot[q].task /\ slot'[q].retry = slot[q].retry
               /\ slot'[q].elapsed = slot[q].elapsed /\ slot'[q].aborted = slot[q].aborted
<1>1. PICK u : u = Unlisted(w, candidate[w])
  OBVIOUS
<1>2. PICK a : a = [task |-> candidate[w], retry |-> retryCount[candidate[w]], elapsed |-> 0, aborted |-> FALSE,
                    listed |-> candidate[w] \notin Unregistered]
  OBVIOUS
<1>3. slot' = [u EXCEPT ![<<w, s>>] = a]
  BY <1>1, <1>2 DEF ClaimWon
<1>4. candidate[w] \in Tasks /\ retryCount[candidate[w]] \in Nat /\ <<w, s>> \in Slot
  BY DEF ClaimWon, TypeOK, Slot
<1>5. a \in Attempt
  BY <1>2, <1>4 DEF Attempt
<1>6. u \in [Slot -> Attempt]
  BY <1>1, UnlistedSlots DEF TypeOK
<1>7. slot' \in [Slot -> Attempt] /\ slot'[<<w, s>>] = a /\ \A q \in Slot \ {<<w, s>>} : slot'[q] = u[q]
  BY <1>3, <1>4, <1>5, <1>6
<1>8. \A q \in Slot : /\ u[q].task = slot[q].task /\ u[q].retry = slot[q].retry
                      /\ u[q].elapsed = slot[q].elapsed /\ u[q].aborted = slot[q].aborted
  BY <1>1, UnlistedSlots DEF TypeOK
<1> QED
  BY <1>2, <1>7, <1>8

\* The queue starts empty.
LEMMA TypeInit == Init => TypeOK
<1> SUFFICES ASSUME Init PROVE TypeOK
  OBVIOUS
<1> USE QueueAssumption DEF QueueAssumption, Init
<1>1. status \in [Tasks -> Status] /\ age \in [Tasks -> 0 .. AgeCap]
  BY DEF Status, AgeCap
<1>2. slot \in [Slot -> Attempt]
  BY DEF Free, Attempt
<1>3. /\ older \subseteq Tasks \X Tasks /\ slept \subseteq Tasks
      /\ overtaken \subseteq Tasks /\ crowded \subseteq Tenants
  OBVIOUS
<1>4. saturated \in [Workers -> 0 .. StallTicks] /\ crashes \in 0 .. MaxCrashes /\ stalls \in 0 .. MaxStalls
  OBVIOUS
<1> QED
  BY <1>1, <1>2, <1>3, <1>4, SMTT(60) DEF TypeOK

\* Every statement on table tasks and every step of a worker keeps the types.
LEMMA TypeStep == TypeOK /\ [Next]_vars => TypeOK'
<1> SUFFICES ASSUME TypeOK, [Next]_vars PROVE TypeOK'
  OBVIOUS
<1> StaleAfter \in Nat /\ Retention \in Nat /\ StallTicks \in Nat /\ MaxCrashes \in Nat /\ MaxStalls \in Nat
  BY QueueAssumption DEF QueueAssumption
<1> USE DEF TypeOK, Status, rowVars, procVars, budget, history
<1>1. ASSUME NEW a \in Api, EnqueueInsert(a) PROVE TypeOK'
  BY <1>1 DEF EnqueueInsert
<1>2. ASSUME NEW a \in Api, NEW t \in Tasks, EnqueueCount(a, t) PROVE TypeOK'
  <2>1. TenantOf[t] \in Tenants
    BY QueueAssumption DEF QueueAssumption
  <2>2. crowded' \subseteq Tenants
    BY <1>2, <2>1 DEF EnqueueCount
  <2> QED  BY <1>2, <2>2 DEF EnqueueCount
<1>3. ASSUME NEW w \in Workers, NEW t \in Tasks, SelectCandidate(w, t) PROVE TypeOK'
  BY <1>3 DEF SelectCandidate
<1>4. ASSUME NEW w \in Workers, NEW s \in Slots, ClaimWon(w, s) PROVE TypeOK'
  <2>1. <<w, s>> \in Slot /\ candidate[w] \in Tasks
    BY <1>4 DEF ClaimWon, Slot
  <2>2. slot' \in [Slot -> Attempt]
    BY <1>4, <2>1, ClaimedSlots
  <2>3. status' \in [Tasks -> Status] /\ age' \in [Tasks -> 0 .. AgeCap]
    BY <1>4 DEF ClaimWon, ClaimMatches, AgeCap
  <2> QED  BY <1>4, <2>2, <2>3 DEF ClaimWon
<1>5. ASSUME NEW w \in Workers, ClaimLost(w) \/ PollSaturated(w) \/ PollEmpty(w) PROVE TypeOK'
  BY <1>5 DEF ClaimLost, ClaimMatches, PollSaturated, PollEmpty
<1>6. ASSUME NEW w \in Workers, Reap(w) PROVE TypeOK'
  BY <1>6 DEF Reap, Reapable, ReapedStatus, ReapedCount, AgeCap
<1>7. ASSUME NEW w \in Workers, PurgeCompleted(w) PROVE TypeOK'
  BY <1>7 DEF PurgeCompleted
<1>8. ASSUME NEW w \in Workers, Crash(w) \/ Exit(w) PROVE TypeOK'
  <2>1. slot' \in [Slot -> Attempt]
    BY <1>8, FreeType DEF Crash, Exit, GoDown
  <2>2. crashes' \in 0 .. MaxCrashes
    BY <1>8 DEF Crash, Exit
  <2> QED
    BY <1>8, <2>1, <2>2 DEF Crash, Exit, GoDown
<1>9. ASSUME NEW w \in Workers, Stop(w) \/ Restart(w) \/ Stall(w) \/ Resume(w) PROVE TypeOK'
  BY <1>9 DEF Stop, Restart, Stall, Resume
<1>10. ASSUME NEW p \in Slot, RejectUnknown(p) \/ HandlerSucceeds(p) PROVE TypeOK'
  <2>1. slot[p].task \in Tasks
    BY <1>10 DEF RejectUnknown, HandlerSucceeds, Holds, Attempt
  <2>2. status' \in [Tasks -> Status] /\ age' \in [Tasks -> 0 .. AgeCap]
    BY <1>10, <2>1, WriteStatusType DEF RejectUnknown, HandlerSucceeds
  <2>3. slot' \in [Slot -> Attempt]
    BY <1>10, ReleasedSlots DEF RejectUnknown, HandlerSucceeds
  <2> QED
    BY <1>10, <2>2, <2>3 DEF RejectUnknown, HandlerSucceeds
<1>11. ASSUME NEW p \in Slot, HandlerFails(p) \/ AbortSettles(p) PROVE TypeOK'
  <2>1. RetryOrFail(p) /\ slot[p].task # Nobody
    BY <1>11 DEF HandlerFails, AbortSettles, Holds
  <2>2. slot' \in [Slot -> Attempt]
    BY <1>11, ReleasedSlots DEF HandlerFails, AbortSettles
  <2> QED
    BY <1>11, <2>1, <2>2, RetryOrFailType DEF HandlerFails, AbortSettles
<1>12. ASSUME NEW p \in Slot, CancelTask(p) PROVE TypeOK'
  <2>1. slot[p].task \in Tasks
    BY <1>12 DEF CancelTask, Holds, Attempt
  <2>2. status' \in [Tasks -> Status] /\ age' \in [Tasks -> 0 .. AgeCap]
    BY <1>12, <2>1, WriteStatusType DEF CancelTask
  <2>3. slot' \in [Slot -> Attempt]
    <3>1. slot[p] \in Attempt /\ slot' = [slot EXCEPT ![p] = [slot[p] EXCEPT !.aborted = TRUE]]
      BY <1>12 DEF CancelTask
    <3>2. [slot[p] EXCEPT !.aborted = TRUE] \in Attempt
      BY <3>1 DEF Attempt
    <3> QED  BY <3>1, <3>2
  <2> QED
    BY <1>12, <2>1, <2>2, <2>3 DEF CancelTask
<1>13. CASE Tick
  <2>1. slot' \in [Slot -> Attempt]
    BY <1>13 DEF Tick, Capped, Attempt, AgeCap
  <2> QED  BY <1>13, <2>1 DEF Tick, Capped, AgeCap
<1>14. CASE UNCHANGED vars
  BY <1>14 DEF vars
<1> QED
  BY <1>1, <1>2, <1>3, <1>4, <1>5, <1>6, <1>7, <1>8, <1>9, <1>10, <1>11, <1>12, <1>13, <1>14 DEF Next

\* Type correctness: rows, timers and slot records keep their types.
THEOREM TypeCorrect == Spec => []TypeOK
  BY TypeInit, TypeStep, PTL DEF Spec
-----------------------------------------------------------------------------
(* The inductive invariant.  AttemptOwnsRow alone is not inductive: that    *)
(* the reaper meets a held row only for a cause needs the age of the row to *)
(* be the time its attempt has run, and that time to be within the timeout  *)
(* of a process that runs; that an insert never overwrites a row needs the  *)
(* pending inserts, and that a late update is only ever that of a cancelled *)
(* or overtaken attempt needs the cancelled set.                            *)

InsertsFresh ==
    \A a \in Api : inserting[a] # Nobody =>
        /\ status[inserting[a]] = "absent"
        /\ \A b \in Api : inserting[b] = inserting[a] => a = b

AbortedCancelled == \A p \in Slot : slot[p].aborted => slot[p].task \in cancelled

\* A process that is down holds no attempt.
DownIsEmpty == \A p \in Slot : proc[p[1]] = "down" => ~Busy(p)

\* The timer of a process that runs ends its attempts in time.
WithinTimeout ==
    \A p \in Slot : Busy(p) /\ slot[p].task \notin slept => slot[p].elapsed <= Timeout[slot[p].task]

OwnsRow(p) ==
    LET t == slot[p].task IN
    /\ retryCount[t] = slot[p].retry
    /\ slot[p].aborted => status[t] \in {"failed", "purged"}
    /\ ~slot[p].aborted => status[t] = "running" /\ claimedBy[t] = p[1] /\ age[t] = slot[p].elapsed

HoldsAlone(p) == \A q \in Slot : slot[q].task = slot[p].task => p = q

Owned == \A p \in Slot : Busy(p) /\ slot[p].task \notin overtaken => OwnsRow(p) /\ HoldsAlone(p)

Started(t) == IF status[t] \in {"absent", "pending"} THEN 0 ELSE 1

AttemptsCounted ==
    /\ \A t \in Tasks : retryCount[t] < RunLimit(t)
    /\ \A t \in Tasks \ overtaken : claims[t] = retryCount[t] + Started(t)

Timely == DownIsEmpty /\ WithinTimeout /\ OvertakenForCause

IInv == TypeOK /\ InsertsFresh /\ AbortedCancelled /\ Timely /\ Owned /\ AttemptsCounted

\* What the assumptions say of the timers.
LEMMA Timers ==
  /\ StaleAfter \in Nat /\ Retention \in Nat /\ StaleAfter <= Retention
  /\ \A t \in Tasks : Timeout[t] \in Nat /\ Timeout[t] <= Retention
  BY QueueAssumption DEF QueueAssumption

\* What the assumptions say of the retry limits.
LEMMA RunLimits ==
  ASSUME NEW t \in Tasks
  PROVE  /\ MaxRetries[t] \in Nat /\ WorkerRetries \in Nat /\ RunLimit(t) \in Nat /\ 0 < RunLimit(t)
         /\ RetryLimit(t) <= RunLimit(t) /\ RetryLimit(t) \in Nat
         /\ MaxRetries[t] > 0 => RunLimit(t) = MaxRetries[t] + 1
  BY QueueAssumption DEF QueueAssumption, RunLimit, RetryLimit

\* What the update by id that ends an attempt does to the rows.
LEMMA WriteStatusRows ==
  ASSUME TypeOK, NEW t \in Tasks, NEW s \in Status, WriteStatus(t, s)
  PROVE  /\ \A u \in Tasks \ {t} : status'[u] = status[u] /\ age'[u] = age[u]
         /\ status'[t] = IF Exists(t) THEN s ELSE status[t]
  BY DEF WriteStatus, TypeOK

\* What an attempt is for the invariant: all but the entry of its controller.
SameAttempt(p) ==
    /\ slot'[p].task = slot[p].task /\ slot'[p].retry = slot[p].retry
    /\ slot'[p].elapsed = slot[p].elapsed /\ slot'[p].aborted = slot[p].aborted

\* An attempt that stays as it is keeps a row that nobody touches to itself.
LEMMA StillOwned ==
  ASSUME TypeOK, Owned, NEW p \in Slot, Busy(p), SameAttempt(p), slot[p].task \notin overtaken,
         NEW t \in Tasks, slot[p].task = t,
         status'[t] = status[t], retryCount'[t] = retryCount[t], claimedBy'[t] = claimedBy[t], age'[t] = age[t],
         \A q \in Slot : slot'[q].task = t => slot[q].task = t
  PROVE  OwnsRow(p)' /\ HoldsAlone(p)'
<1>1. OwnsRow(p) /\ HoldsAlone(p)
  BY DEF Owned
<1>2. OwnsRow(p)'
  BY <1>1 DEF OwnsRow, SameAttempt
<1>3. HoldsAlone(p)'
  BY <1>1 DEF HoldsAlone, SameAttempt
<1> QED
  BY <1>2, <1>3

\* An update of the attempt's row by id, together with its slot record, keeps
\* everything but the count of the attempts.
LEMMA EndAttempt ==
  ASSUME IInv, NEW p \in Slot, Busy(p), Release(p),
         NEW s \in Status \ {"absent", "running", "purged"}, WriteStatus(slot[p].task, s),
         \A u \in Tasks \ {slot[p].task} : retryCount'[u] = retryCount[u],
         UNCHANGED <<claimedBy, inserting, proc, claims, cancelled, slept, overtaken>>, TypeOK'
  PROVE  InsertsFresh' /\ AbortedCancelled' /\ Timely' /\ Owned'
  <1> DEFINE t == slot[p].task
  <1>1. t \in Tasks /\ slot \in [Slot -> Attempt] /\ Nobody \notin Tasks
    BY QueueAssumption DEF QueueAssumption, IInv, TypeOK, Attempt, Busy
  <1>2. /\ \A u \in Tasks \ {t} : status'[u] = status[u] /\ age'[u] = age[u]
        /\ status'[t] = IF Exists(t) THEN s ELSE status[t]
    BY <1>1, WriteStatusRows DEF IInv
  <1>3. slot'[p] = Free /\ \A q \in Slot \ {p} : SameAttempt(q)
    BY <1>1, ReleasedSlots DEF SameAttempt
  <1>4. InsertsFresh'
    BY <1>1, <1>2 DEF InsertsFresh, IInv, TypeOK, Exists
  <1>5. AbortedCancelled'
    BY <1>3 DEF AbortedCancelled, IInv, Free, SameAttempt
  <1>6. Timely'
    BY <1>3 DEF Timely, DownIsEmpty, WithinTimeout, OvertakenForCause, IInv, Busy, Free, SameAttempt
  <1>7. ASSUME NEW q \in Slot, Busy(q)', slot'[q].task \notin overtaken' PROVE OwnsRow(q)' /\ HoldsAlone(q)'
    <2>1. q # p /\ SameAttempt(q) /\ Busy(q) /\ slot[q].task \notin overtaken /\ slot[q].task \in Tasks
      BY <1>1, <1>3, <1>7 DEF Busy, Free, SameAttempt, Attempt
    <2>2. slot[q].task # t
      BY <2>1 DEF IInv, Owned, HoldsAlone
    <2>3. \A r \in Slot : slot'[r].task = slot[q].task => slot[r].task = slot[q].task
      BY <1>1, <1>3, <2>1 DEF Free, SameAttempt
    <2> QED
      BY <1>2, <2>1, <2>2, <2>3, StillOwned DEF IInv
  <1>8. Owned'
    BY <1>7 DEF Owned
  <1> QED
    BY <1>4, <1>5, <1>6, <1>8

\* The invariant holds of the empty queue.
LEMMA Initially == Init => IInv
<1> SUFFICES ASSUME Init PROVE IInv
  OBVIOUS
<1>1. TypeOK
  BY TypeInit
<1>2. InsertsFresh /\ AbortedCancelled
  BY DEF Init, InsertsFresh, AbortedCancelled, Free
<1>3. Timely /\ Owned
  BY DEF Init, Timely, DownIsEmpty, WithinTimeout, OvertakenForCause, Owned, Busy, Free
<1>4. AttemptsCounted
  BY RunLimits DEF Init, AttemptsCounted, Started
<1> QED  BY <1>1, <1>2, <1>3, <1>4 DEF IInv

\* Every action keeps the inductive invariant.
LEMMA StepInv == IInv /\ [Next]_vars => IInv'
<1> SUFFICES ASSUME IInv, [Next]_vars PROVE IInv'
  OBVIOUS
<1>0. TypeOK /\ TypeOK'
  BY TypeStep DEF IInv
<1>1. ASSUME NEW a \in Api, EnqueueInsert(a) PROVE IInv'
  <2> DEFINE t == inserting[a]
  <2>1. t \in Tasks /\ status[t] = "absent" /\ \A b \in Api : inserting[b] = t => a = b
    BY <1>1 DEF EnqueueInsert, IInv, TypeOK, InsertsFresh
  <2>2. status' = [status EXCEPT ![t] = "pending"] /\ inserting' = [inserting EXCEPT ![a] = Nobody]
    BY <1>1 DEF EnqueueInsert
  <2>3. UNCHANGED <<retryCount, claimedBy, age, proc, slot, claims, cancelled, slept, overtaken>>
    BY <1>1 DEF EnqueueInsert, procVars, history
  <2>4. InsertsFresh'
    BY <2>1, <2>2, <1>0 DEF InsertsFresh, IInv, TypeOK
  <2>5. AbortedCancelled' /\ Timely'
    BY <2>3 DEF AbortedCancelled, Timely, DownIsEmpty, WithinTimeout, OvertakenForCause, Busy, IInv
  <2>6. ASSUME NEW p \in Slot, Busy(p)', slot'[p].task \notin overtaken' PROVE OwnsRow(p)' /\ HoldsAlone(p)'
    <3>1. Busy(p) /\ slot[p].task \notin overtaken /\ slot[p].task \in Tasks /\ SameAttempt(p)
      BY <2>3, <2>6, <1>0 DEF Busy, TypeOK, Attempt, SameAttempt
    <3>2. slot[p].task # t
      BY <2>1, <3>1 DEF IInv, Owned, OwnsRow
    <3> QED  BY <2>2, <2>3, <3>1, <3>2, <1>0, StillOwned DEF IInv, TypeOK
  <2>7. AttemptsCounted'
    BY <2>1, <2>2, <2>3, <1>0 DEF AttemptsCounted, Started, RunLimit, IInv, TypeOK
  <2> QED  BY <2>4, <2>5, <2>6, <2>7, <1>0 DEF IInv, Owned
<1>2. ASSUME NEW a \in Api, NEW t \in Tasks, EnqueueCount(a, t) PROVE IInv'
  <2>1. UNCHANGED <<status, retryCount, claimedBy, age, proc, slot, claims, cancelled, slept, overtaken>>
    BY <1>2 DEF EnqueueCount, rowVars, procVars
  <2>2. InsertsFresh'
    BY <1>2, <2>1, <1>0 DEF EnqueueCount, InsertsFresh, IInv, TypeOK
  <2>3. AbortedCancelled' /\ Timely' /\ AttemptsCounted'
    BY <2>1 DEF AbortedCancelled, Timely, DownIsEmpty, WithinTimeout, OvertakenForCause, Busy,
                AttemptsCounted, Started, RunLimit, IInv
  <2>4. Owned'
    BY <2>1 DEF Owned, OwnsRow, HoldsAlone, Busy, IInv
  <2> QED  BY <2>2, <2>3, <2>4, <1>0 DEF IInv
<1>3. ASSUME UNCHANGED <<rowVars, inserting, slot, history>>,
             \A w \in Workers : proc'[w] = "down" => proc[w] = "down"
      PROVE  IInv'
  <2>1. InsertsFresh' /\ AbortedCancelled' /\ AttemptsCounted'
    BY <1>3 DEF rowVars, history, InsertsFresh, AbortedCancelled, AttemptsCounted, Started, RunLimit, IInv
  <2>2. Timely'
    BY <1>3 DEF history, Timely, DownIsEmpty, WithinTimeout, OvertakenForCause, Busy, Slot, IInv
  <2>3. Owned'
    BY <1>3 DEF rowVars, history, Owned, OwnsRow, HoldsAlone, Busy, IInv
  <2> QED  BY <2>1, <2>2, <2>3, <1>0 DEF IInv
<1>4. ASSUME NEW w \in Workers, NEW s \in Slots, ClaimWon(w, s) PROVE IInv'
  <2>1. PICK t \in Tasks, p \in Slot : t = candidate[w] /\ p = <<w, s>>
    BY <1>4, <1>0 DEF ClaimWon, TypeOK, Slot
  <2>2. /\ status[t] = "pending" /\ slot[p] = Free /\ proc[w] = "up"
        /\ status' = [status EXCEPT ![t] = "running"]
        /\ claimedBy' = [claimedBy EXCEPT ![t] = w] /\ age' = [age EXCEPT ![t] = 0]
        /\ claims' = [claims EXCEPT ![t] = @ + 1]
        /\ UNCHANGED <<retryCount, inserting, proc, cancelled, slept, overtaken>>
    BY <1>4, <2>1 DEF ClaimWon, ClaimMatches
  <2>3. /\ slot'[p].task = t /\ slot'[p].retry = retryCount[t]
        /\ slot'[p].elapsed = 0 /\ slot'[p].aborted = FALSE
        /\ \A q \in Slot \ {p} : SameAttempt(q)
    BY <1>4, <2>1, <1>0, ClaimedSlots DEF SameAttempt
  <2>4. InsertsFresh'
    BY <2>2, <1>0 DEF InsertsFresh, IInv, TypeOK
  <2>5. AbortedCancelled'
    BY <2>2, <2>3 DEF AbortedCancelled, SameAttempt, IInv
  <2>6. Timely'
    <3>1. p[1] = w /\ Timeout[t] \in Nat
      BY <2>1, Timers
    <3>2. DownIsEmpty'
      BY <2>2, <2>3, <3>1 DEF DownIsEmpty, Busy, SameAttempt, Timely, IInv
    <3>3. WithinTimeout'
      BY <2>2, <2>3, <3>1 DEF WithinTimeout, Busy, SameAttempt, Timely, IInv
    <3> QED  BY <2>2, <3>2, <3>3 DEF OvertakenForCause, Timely, IInv
  <2>7. ASSUME t \notin overtaken PROVE \A q \in Slot : slot[q].task # t
    BY <2>2, <2>7, QueueAssumption DEF QueueAssumption, IInv, Owned, OwnsRow, Busy
  <2>8. ASSUME NEW q \in Slot, Busy(q)', slot'[q].task \notin overtaken' PROVE OwnsRow(q)' /\ HoldsAlone(q)'
    <3>1. CASE q = p
      <4>1. OwnsRow(p)'
        BY <2>1, <2>2, <2>3, <1>0 DEF OwnsRow, TypeOK
      <4>2. HoldsAlone(p)'
        BY <2>2, <2>3, <2>7, <2>8, <3>1 DEF HoldsAlone, SameAttempt
      <4> QED  BY <3>1, <4>1, <4>2
    <3>2. CASE q # p
      <4>1. Busy(q) /\ SameAttempt(q) /\ slot[q].task \notin overtaken /\ slot[q].task \in Tasks
        BY <2>2, <2>3, <2>8, <3>2, <1>0 DEF Busy, SameAttempt, TypeOK, Attempt
      <4>2. slot[q].task # t
        BY <2>7, <4>1
      <4>3. \A r \in Slot : slot'[r].task = slot[q].task => slot[r].task = slot[q].task
        BY <2>3, <4>2 DEF SameAttempt
      <4> QED  BY <2>2, <4>1, <4>2, <4>3, <1>0, StillOwned DEF IInv, TypeOK
    <3> QED  BY <3>1, <3>2
  <2>9. AttemptsCounted'
    BY <2>2, <1>0 DEF AttemptsCounted, Started, RunLimit, IInv, TypeOK
  <2> QED  BY <2>4, <2>5, <2>6, <2>8, <2>9, <1>0 DEF IInv, Owned
<1>5. ASSUME NEW w \in Workers, Reap(w) PROVE IInv'
  <2>1. UNCHANGED <<inserting, proc, slot, claims, cancelled, slept>>
    BY <1>5 DEF Reap, Reapable, ReapedStatus, ReapedCount, procVars
  <2>2. \A t \in Tasks : ~Stale(t) => /\ status'[t] = status[t] /\ retryCount'[t] = retryCount[t]
                                      /\ claimedBy'[t] = claimedBy[t] /\ age'[t] = age[t]
    BY <1>5 DEF Reap, Reapable, ReapedStatus, ReapedCount
  <2>3. \A t \in Tasks : Stale(t) =>
          /\ status[t] = "running" /\ status'[t] = (IF retryCount[t] < MaxRetries[t] THEN "pending" ELSE "failed")
          /\ retryCount'[t] = (IF retryCount[t] < MaxRetries[t] THEN retryCount[t] + 1 ELSE retryCount[t])
    BY <1>5 DEF Reap, Reapable, ReapedStatus, ReapedCount, Stale
  <2>4. overtaken' = overtaken \cup {t \in Tasks : Stale(t) /\ \E p \in Slot : slot[p].task = t}
    BY <1>5 DEF Reap
  <2>5. InsertsFresh' /\ AbortedCancelled'
    BY <2>1, <2>2, <2>3, <1>0 DEF InsertsFresh, AbortedCancelled, IInv, TypeOK
  <2>6. Timely'
    <3>1. ASSUME NEW t \in Tasks, Stale(t), t \notin overtaken, t \notin slept, NEW p \in Slot, slot[p].task = t
          PROVE  Timeout[t] > StaleAfter
      <4>1. Busy(p) /\ OwnsRow(p) /\ slot[p].elapsed <= Timeout[t]
        BY <3>1, QueueAssumption DEF QueueAssumption, Busy, IInv, Owned, Timely, WithinTimeout
      <4>2. age[t] > StaleAfter /\ age[t] = slot[p].elapsed
        BY <3>1, <4>1 DEF Stale, OwnsRow
      <4>3. slot[p].elapsed \in Nat
        BY <1>0 DEF TypeOK, Attempt
      <4> QED  BY <4>1, <4>2, <4>3, Timers
    <3>2. OvertakenForCause'
      BY <2>1, <2>4, <3>1 DEF OvertakenForCause, Timely, IInv
    <3>3. DownIsEmpty' /\ WithinTimeout'
      BY <2>1 DEF DownIsEmpty, WithinTimeout, Busy, Timely, IInv
    <3> QED  BY <3>2, <3>3 DEF Timely
  <2>7. ASSUME NEW q \in Slot, Busy(q)', slot'[q].task \notin overtaken' PROVE OwnsRow(q)' /\ HoldsAlone(q)'
    <3>1. Busy(q) /\ SameAttempt(q) /\ slot[q].task \notin overtaken /\ slot[q].task \in Tasks
      BY <2>1, <2>4, <2>7, <1>0 DEF Busy, SameAttempt, TypeOK, Attempt
    <3>2. ~Stale(slot[q].task)
      BY <2>1, <2>4, <2>7, <3>1
    <3> QED  BY <2>1, <2>2, <3>1, <3>2, StillOwned DEF IInv
  <2>8. AttemptsCounted'
    <3>1. ASSUME NEW t \in Tasks PROVE retryCount'[t] < RunLimit(t)
      BY <2>2, <2>3, <1>0, RunLimits DEF AttemptsCounted, IInv, TypeOK
    <3>2. ASSUME NEW t \in Tasks \ overtaken' PROVE claims'[t] = retryCount'[t] + Started(t)'
      BY <2>1, <2>2, <2>3, <2>4, <1>0 DEF AttemptsCounted, Started, IInv, TypeOK
    <3> QED  BY <3>1, <3>2 DEF AttemptsCounted, RunLimit
  <2> QED  BY <2>5, <2>6, <2>7, <2>8, <1>0 DEF IInv, Owned
<1>6. ASSUME NEW w \in Workers, PurgeCompleted(w) PROVE IInv'
  <2>1. UNCHANGED <<retryCount, claimedBy, age, inserting, proc, slot, claims, cancelled, slept, overtaken>>
    BY <1>6 DEF PurgeCompleted, procVars, history
  <2>2. \A t \in Tasks : status'[t] = status[t] \/ (status[t] \in {"completed", "failed"} /\ status'[t] = "purged")
    BY <1>6 DEF PurgeCompleted, Expired
  <2>3. InsertsFresh' /\ AbortedCancelled'
    BY <2>1, <2>2, <1>0 DEF InsertsFresh, AbortedCancelled, IInv, TypeOK
  <2>4. Timely'
    BY <2>1 DEF Timely, DownIsEmpty, WithinTimeout, OvertakenForCause, Busy, IInv
  <2>5. Owned'
    BY <2>1, <2>2, <1>0 DEF Owned, OwnsRow, HoldsAlone, Busy, IInv, TypeOK, Attempt
  <2>6. AttemptsCounted'
    BY <2>1, <2>2 DEF AttemptsCounted, Started, RunLimit, IInv
  <2> QED  BY <2>3, <2>4, <2>5, <2>6, <1>0 DEF IInv
<1>7. ASSUME NEW w \in Workers, Crash(w) \/ Exit(w) PROVE IInv'
  <2>1. UNCHANGED <<rowVars, inserting, history>> /\ proc' = [proc EXCEPT ![w] = "down"]
    BY <1>7 DEF Crash, Exit, GoDown
  <2>2. \A p \in Slot : slot'[p] = Free \/ (slot'[p] = slot[p] /\ p[1] # w)
    BY <1>7 DEF Crash, Exit, GoDown
  <2>3. InsertsFresh' /\ AbortedCancelled' /\ AttemptsCounted'
    BY <2>1, <2>2 DEF rowVars, history, InsertsFresh, AbortedCancelled, AttemptsCounted, Started, RunLimit, Free, IInv
  <2>4. DownIsEmpty'
    BY <2>1, <2>2, <1>0 DEF DownIsEmpty, Busy, Free, Slot, Timely, TypeOK, IInv
  <2>5. WithinTimeout' /\ OvertakenForCause'
    BY <2>1, <2>2 DEF history, WithinTimeout, OvertakenForCause, Busy, Free, Timely, IInv
  <2>6. Owned'
    BY <2>1, <2>2 DEF rowVars, history, Owned, OwnsRow, HoldsAlone, Busy, Free, IInv
  <2> QED  BY <2>3, <2>4, <2>5, <2>6, <1>0 DEF IInv, Timely
<1>8. ASSUME NEW p \in Slot, RejectUnknown(p) \/ HandlerSucceeds(p) PROVE IInv'
  <2> DEFINE t == slot[p].task
  <2>1. /\ Busy(p) /\ Release(p) /\ t \in Tasks
        /\ UNCHANGED <<retryCount, claimedBy, inserting, proc, claims, cancelled, slept, overtaken>>
    BY <1>8, <1>0 DEF RejectUnknown, HandlerSucceeds, Holds, Busy, budget, history, TypeOK, Attempt
  <2>2. PICK s \in {"completed", "failed"} : WriteStatus(t, s)
    BY <1>8 DEF RejectUnknown, HandlerSucceeds
  <2>3. t \notin overtaken => OwnsRow(p)
    BY <2>1 DEF IInv, Owned
  <2>4. InsertsFresh' /\ AbortedCancelled' /\ Timely' /\ Owned'
    BY <2>1, <2>2, <1>0, EndAttempt DEF Status
  <2>5. /\ \A u \in Tasks \ {t} : status'[u] = status[u]
        /\ status'[t] = IF Exists(t) THEN s ELSE status[t]
    BY <2>1, <2>2, <1>0, WriteStatusRows DEF Status
  <2>6. AttemptsCounted'
    BY <2>1, <2>3, <2>5 DEF AttemptsCounted, Started, RunLimit, OwnsRow, Exists, IInv
  <2> QED  BY <2>4, <2>6, <1>0 DEF IInv
<1>9. ASSUME NEW p \in Slot, HandlerFails(p) \/ AbortSettles(p) PROVE IInv'
  <2> DEFINE t == slot[p].task
  <2>1. /\ Busy(p) /\ Release(p) /\ RetryOrFail(p)
        /\ UNCHANGED <<claimedBy, inserting, proc, claims, cancelled, slept, overtaken>>
        /\ t \in Tasks /\ slot[p].retry \in Nat
    BY <1>9, <1>0 DEF HandlerFails, AbortSettles, Holds, Busy, budget, history, TypeOK, Attempt
  <2>2. PICK s \in {"pending", "failed"} :
          /\ WriteStatus(t, s)
          /\ s = "pending" <=> slot[p].retry + 1 < RetryLimit(t)
    BY <2>1 DEF RetryOrFail, MayRetry
  <2>3. t \notin overtaken => OwnsRow(p)
    BY <2>1 DEF IInv, Owned
  <2>4. /\ \A u \in Tasks \ {t} : retryCount'[u] = retryCount[u]
        /\ retryCount'[t] = IF s = "pending" /\ Exists(t) THEN slot[p].retry + 1 ELSE retryCount[t]
    BY <2>1, <2>2, <1>0 DEF RetryOrFail, MayRetry, TypeOK
  <2>5. InsertsFresh' /\ AbortedCancelled' /\ Timely' /\ Owned'
    BY <2>1, <2>2, <2>4, <1>0, EndAttempt DEF Status
  <2>6. /\ \A u \in Tasks \ {t} : status'[u] = status[u]
        /\ status'[t] = IF Exists(t) THEN s ELSE status[t]
    BY <2>1, <2>2, <1>0, WriteStatusRows DEF Status
  <2>7. ASSUME NEW u \in Tasks PROVE retryCount'[u] < RunLimit(u)
    BY <2>1, <2>2, <2>4, RunLimits, <1>0 DEF AttemptsCounted, IInv, TypeOK
  <2>8. ASSUME NEW u \in Tasks \ overtaken PROVE claims'[u] = retryCount'[u] + Started(u)'
    <3>1. CASE u # t
      BY <3>1, <2>8, <2>1, <2>4, <2>6 DEF AttemptsCounted, Started, IInv
    <3>2. CASE u = t
      <4>1. claims[t] = retryCount[t] + 1 /\ retryCount[t] = slot[p].retry
        BY <2>1, <2>3, <2>8, <3>2 DEF OwnsRow, AttemptsCounted, Started, IInv
      <4>2. Exists(t) \/ status[t] = "purged"
        BY <2>1, <2>3, <2>8, <3>2 DEF OwnsRow, Exists
      <4> QED  BY <3>2, <4>1, <4>2, <2>1, <2>4, <2>6, <1>0 DEF Started, Exists, TypeOK
    <3> QED  BY <3>1, <3>2
  <2>9. AttemptsCounted'
    BY <2>1, <2>7, <2>8 DEF AttemptsCounted, RunLimit
  <2> QED  BY <2>5, <2>9, <1>0 DEF IInv
<1>10. ASSUME NEW p \in Slot, CancelTask(p) PROVE IInv'
  <2> DEFINE t == slot[p].task
  <2>1. /\ Busy(p) /\ WriteStatus(t, "failed") /\ Exists(t) /\ t \in Tasks
        /\ cancelled' = cancelled \cup {t}
        /\ UNCHANGED <<retryCount, claimedBy, inserting, proc, claims, slept, overtaken>>
    BY <1>10, <1>0 DEF CancelTask, Holds, Busy, budget, TypeOK, Attempt
  <2>2. /\ slot'[p] = [slot[p] EXCEPT !.aborted = TRUE]
        /\ \A q \in Slot \ {p} : slot'[q] = slot[q]
    BY <1>10, <1>0 DEF CancelTask, TypeOK
  <2>3. /\ \A u \in Tasks \ {t} : status'[u] = status[u] /\ age'[u] = age[u]
        /\ status'[t] = "failed"
    BY <2>1, <1>0, WriteStatusRows DEF Status
  <2>4. slot'[p].task = t /\ slot'[p].retry = slot[p].retry /\ slot'[p].elapsed = slot[p].elapsed /\ slot'[p].aborted
    BY <2>2, <1>0 DEF TypeOK, Attempt
  <2>5. InsertsFresh'
    BY <2>1, <2>3, <1>0 DEF InsertsFresh, Exists, IInv, TypeOK
  <2>6. AbortedCancelled'
    BY <2>1, <2>2, <2>4 DEF AbortedCancelled, IInv
  <2>7. Timely'
    <3>1. \A q \in Slot : slot'[q].task = slot[q].task /\ slot'[q].elapsed = slot[q].elapsed
      BY <2>2, <2>4
    <3>2. DownIsEmpty' /\ WithinTimeout'
      BY <2>1, <3>1 DEF DownIsEmpty, WithinTimeout, Busy, Timely, IInv
    <3>3. OvertakenForCause'
      BY <2>1 DEF OvertakenForCause, Timely, IInv
    <3> QED  BY <3>2, <3>3 DEF Timely
  <2>8. ASSUME NEW q \in Slot, Busy(q)', slot'[q].task \notin overtaken' PROVE OwnsRow(q)' /\ HoldsAlone(q)'
    <3>1. \A r \in Slot : slot'[r].task = slot[r].task
      BY <2>2, <2>4
    <3>2. Busy(q) /\ slot[q].task \notin overtaken /\ OwnsRow(q) /\ HoldsAlone(q) /\ slot[q].task \in Tasks
      BY <2>1, <2>8, <3>1, <1>0 DEF Busy, IInv, Owned, TypeOK, Attempt
    <3>3. HoldsAlone(q)'
      BY <3>1, <3>2 DEF HoldsAlone
    <3>4. CASE q = p
      BY <3>2, <3>3, <3>4, <2>1, <2>3, <2>4 DEF OwnsRow
    <3>5. CASE q # p
      <4>1. slot'[q] = slot[q] /\ slot[q].task # t
        BY <3>2, <3>5, <2>2 DEF HoldsAlone
      <4> QED  BY <3>2, <3>3, <4>1, <2>1, <2>3 DEF OwnsRow
    <3> QED  BY <3>4, <3>5
  <2>9. AttemptsCounted'
    <3>1. t \notin overtaken => Started(t) = 1
      BY <2>1 DEF IInv, Owned, OwnsRow, Started
    <3> QED  BY <3>1, <2>1, <2>3 DEF AttemptsCounted, Started, RunLimit, IInv
  <2> QED  BY <2>5, <2>6, <2>7, <2>8, <2>9, <1>0 DEF IInv, Owned
<1>11. CASE Tick
  <2>1. UNCHANGED <<status, retryCount, claimedBy, inserting, proc, claims, cancelled, overtaken>>
    BY <1>11 DEF Tick
  <2>2. \A p \in Slot : /\ slot'[p].task = slot[p].task /\ slot'[p].retry = slot[p].retry
                        /\ slot'[p].aborted = slot[p].aborted
                        /\ Busy(p) => slot'[p].elapsed = Capped(slot[p].elapsed, AgeCap)
    BY <1>11, <1>0 DEF Tick, Busy, TypeOK, Attempt
  <2>3. \A t \in Tasks : status[t] = "running" => age'[t] = Capped(age[t], AgeCap)
    BY <1>11 DEF Tick
  <2>4. InsertsFresh' /\ AbortedCancelled' /\ AttemptsCounted'
    BY <2>1, <2>2 DEF InsertsFresh, AbortedCancelled, AttemptsCounted, Started, RunLimit, IInv
  <2>5. Timely'
    <3>1. slept' = slept \cup {t \in Tasks : \E p \in Slot : slot[p].task = t /\ proc[p[1]] = "stalled"}
      BY <1>11 DEF Tick
    <3>2. DownIsEmpty' /\ OvertakenForCause'
      BY <2>1, <2>2, <3>1 DEF DownIsEmpty, OvertakenForCause, Busy, Timely, IInv
    <3>3. ASSUME NEW p \in Slot, Busy(p)', slot'[p].task \notin slept'
          PROVE  slot'[p].elapsed <= Timeout[slot'[p].task]
      <4>1. /\ Busy(p) /\ slot[p].task \in Tasks /\ slot[p].elapsed \in Nat /\ slot[p].task \notin slept
            /\ proc[p[1]] # "stalled" /\ proc[p[1]] # "down"
        BY <2>2, <3>1, <3>3, <1>0 DEF Busy, TypeOK, Attempt, DownIsEmpty, Timely, IInv
      <4>2. proc[p[1]] \in {"up", "draining"}
        BY <4>1, <1>0 DEF TypeOK, Slot
      <4>3. slot[p].elapsed < Timeout[slot[p].task]
        BY <1>11, <4>1, <4>2 DEF Tick, NothingOverdue, Busy
      <4>4. slot'[p].elapsed = Capped(slot[p].elapsed, AgeCap) /\ slot'[p].task = slot[p].task
        BY <2>2, <4>1
      <4>5. Timeout[slot[p].task] \in Nat /\ Timeout[slot[p].task] <= Retention /\ Retention \in Nat
        BY <4>1, Timers
      <4> QED  BY <4>1, <4>3, <4>4, <4>5 DEF Capped, AgeCap
    <3>4. WithinTimeout'
      BY <3>3 DEF WithinTimeout
    <3> QED  BY <3>2, <3>4 DEF Timely
  <2>6. ASSUME NEW q \in Slot, Busy(q)', slot'[q].task \notin overtaken' PROVE OwnsRow(q)' /\ HoldsAlone(q)'
    <3>1. Busy(q) /\ OwnsRow(q) /\ HoldsAlone(q) /\ slot[q].task \in Tasks
      BY <2>1, <2>2, <2>6, <1>0 DEF Busy, IInv, Owned, TypeOK, Attempt
    <3>2. HoldsAlone(q)'
      BY <2>2, <3>1 DEF HoldsAlone
    <3>3. ~slot[q].aborted => age'[slot[q].task] = slot'[q].elapsed
      BY <2>2, <2>3, <3>1 DEF OwnsRow
    <3> QED  BY <2>1, <2>2, <3>1, <3>2, <3>3 DEF OwnsRow
  <2> QED  BY <2>4, <2>5, <2>6, <1>0 DEF IInv, Owned
<1>12. ASSUME NEW w \in Workers,
              \/ \E t \in Tasks : SelectCandidate(w, t)
              \/ ClaimLost(w) \/ PollSaturated(w) \/ PollEmpty(w)
              \/ Stop(w) \/ Restart(w) \/ Stall(w) \/ Resume(w)
       PROVE  /\ UNCHANGED <<rowVars, inserting, slot, history>>
              /\ \A v \in Workers : proc'[v] = "down" => proc[v] = "down"
  <2>1. UNCHANGED <<rowVars, inserting, slot, history>>
    BY <1>12 DEF SelectCandidate, ClaimLost, PollSaturated, PollEmpty, Stop, Restart, Stall, Resume
  <2>2. proc' = proc \/ \E s \in {"draining", "up", "stalled"} : proc' = [proc EXCEPT ![w] = s]
    BY <1>12 DEF SelectCandidate, ClaimLost, PollSaturated, PollEmpty, Stop, Restart, Stall, Resume
  <2> QED  BY <2>1, <2>2, <1>0 DEF TypeOK
<1>13. CASE UNCHANGED vars
  BY <1>13, <1>3 DEF vars, procVars
<1> QED
  BY <1>1, <1>2, <1>3, <1>4, <1>5, <1>6, <1>7, <1>8, <1>9, <1>10, <1>11, <1>12, <1>13 DEF Next

\* The inductive invariant holds in every reachable state.
LEMMA Invariance == Spec => []IInv
  BY Initially, StepInv, PTL DEF Spec
-----------------------------------------------------------------------------
(* The theorems.                                                            *)

\* For all timeouts and thresholds: every attempt of a task the reaper did not
\* overtake owns its row and no two slots of any replicas hold the task, and the
\* reaper overtakes a task only if its timeout exceeds StaleAfter or its process
\* was frozen.
THEOREM OwnershipHolds == Spec => []AttemptOwnsRow
<1>1. IInv => AttemptOwnsRow
  BY DEF IInv, Timely, Owned, OwnsRow, HoldsAlone, AttemptOwnsRow
<1> QED  BY <1>1, Invariance, PTL

\* Worker and reaper together never start a task more often than its budget, unless
\* the reaper overtook it.
THEOREM RunBudgetHolds == Spec => []RunBudget
<1>1. IInv => RunBudget
  <2> SUFFICES ASSUME IInv, NEW t \in Tasks \ overtaken PROVE claims[t] <= RunLimit(t)
    BY DEF RunBudget
  <2>1. claims[t] = retryCount[t] + Started(t) /\ retryCount[t] < RunLimit(t) /\ retryCount[t] \in Nat
    BY DEF IInv, AttemptsCounted, TypeOK
  <2>2. Started(t) \in {0, 1} /\ RunLimit(t) \in Nat
    BY RunLimits DEF Started
  <2> QED  BY <2>1, <2>2
<1> QED  BY <1>1, Invariance, PTL

\* What a step does to the status and retry count of a row, case by case.
LEMMA RowSteps ==
  ASSUME IInv, Next, NEW t \in Tasks \ overtaken
  PROVE  /\ status[t] \in Settled /\ t \notin cancelled => status'[t] \in {status[t], "purged"}
         /\ retryCount'[t] >= retryCount[t]
<1>0. TypeOK /\ retryCount[t] \in Nat
  BY DEF IInv, TypeOK
<1>1. ASSUME NEW a \in Api, EnqueueInsert(a) \/ \E u \in Tasks : EnqueueCount(a, u)
      PROVE  retryCount' = retryCount /\ (status[t] \in Settled => status'[t] = status[t])
  BY <1>1, <1>0 DEF EnqueueInsert, EnqueueCount, rowVars, IInv, InsertsFresh, TypeOK, Settled
<1>2. ASSUME NEW w \in Workers, NEW s \in Slots, ClaimWon(w, s)
      PROVE  retryCount' = retryCount /\ (status[t] \in Settled => status'[t] = status[t])
  BY <1>2, <1>0 DEF ClaimWon, ClaimMatches, TypeOK, Settled
<1>3. ASSUME NEW w \in Workers, Reap(w)
      PROVE  retryCount'[t] >= retryCount[t] /\ (status[t] \in Settled => status'[t] = status[t])
  BY <1>3, <1>0 DEF Reap, Reapable, ReapedStatus, ReapedCount, Stale, Settled
<1>4. ASSUME NEW w \in Workers, PurgeCompleted(w)
      PROVE  retryCount' = retryCount /\ status'[t] \in {status[t], "purged"}
  BY <1>4 DEF PurgeCompleted
<1>5. ASSUME NEW p \in Slot,
             RejectUnknown(p) \/ HandlerSucceeds(p) \/ HandlerFails(p) \/ AbortSettles(p) \/ CancelTask(p)
      PROVE  /\ status[t] \in Settled /\ t \notin cancelled => status'[t] = status[t]
             /\ retryCount'[t] >= retryCount[t]
  <2> DEFINE u == slot[p].task
  <2>1. Busy(p) /\ u \in Tasks /\ slot[p].retry \in Nat
    BY <1>5, <1>0 DEF RejectUnknown, HandlerSucceeds, HandlerFails, AbortSettles, CancelTask,
                      Holds, Busy, TypeOK, Attempt
  <2>2. (t = u => OwnsRow(p)) /\ (slot[p].aborted => u \in cancelled)
    BY <2>1 DEF IInv, Owned, AbortedCancelled
  <2>3. PICK s \in Status : WriteStatus(u, s)
    BY <1>5 DEF RejectUnknown, HandlerSucceeds, HandlerFails, AbortSettles, CancelTask, RetryOrFail, MayRetry, Status
  <2>4. t # u => status'[t] = status[t]
    BY <2>1, <2>3, <1>0, WriteStatusRows
  <2>5. t = u /\ status[t] \in Settled => t \in cancelled
    BY <2>2 DEF OwnsRow, Settled
  <2>6. retryCount'[t] \in {retryCount[t], slot[p].retry + 1} /\ (t # u => retryCount'[t] = retryCount[t])
    BY <1>5, <2>1, <1>0 DEF RejectUnknown, HandlerSucceeds, HandlerFails, AbortSettles, CancelTask, RetryOrFail,
                            MayRetry, TypeOK
  <2>7. t = u => retryCount[t] = slot[p].retry
    BY <2>2 DEF OwnsRow
  <2> QED  BY <2>1, <2>4, <2>5, <2>6, <2>7, <1>0
<1>6. ASSUME UNCHANGED <<status, retryCount>>
      PROVE  retryCount'[t] >= retryCount[t] /\ status'[t] = status[t]
  BY <1>6, <1>0
<1>7. Tick \/ (\E w \in Workers :
              \/ \E u \in Tasks : SelectCandidate(w, u)
              \/ ClaimLost(w) \/ PollSaturated(w) \/ PollEmpty(w)
              \/ Crash(w) \/ Stop(w) \/ Exit(w) \/ Restart(w) \/ Stall(w) \/ Resume(w))
      => UNCHANGED <<status, retryCount>>
  BY DEF Tick, SelectCandidate, ClaimLost, PollSaturated, PollEmpty, Crash, Exit, GoDown,
         Stop, Restart, Stall, Resume, rowVars
<1> QED
  BY <1>0, <1>1, <1>2, <1>3, <1>4, <1>5, <1>6, <1>7 DEF Next

\* A completed or failed task that was neither cancelled nor overtaken is never
\* written again, but by the purge.
THEOREM SettledFinalHolds == Spec => SettledIsFinal
<1>1. IInv /\ [Next]_vars =>
        [\A t \in Tasks \ (cancelled \cup overtaken) :
            status[t] \in Settled => status'[t] \in {status[t], "purged"}]_vars
  BY RowSteps
<1> QED  BY <1>1, Invariance, PTL DEF Spec, SettledIsFinal

\* The retry count of a row never goes back, unless the reaper overtook the task.
THEOREM RetryMonotone == Spec => RetryNeverForgotten
<1>1. IInv /\ [Next]_vars => [\A t \in Tasks \ overtaken : retryCount'[t] >= retryCount[t]]_vars
  BY RowSteps
<1> QED  BY <1>1, Invariance, PTL DEF Spec, RetryNeverForgotten
-----------------------------------------------------------------------------
(* The quota of a tenant *)

\* The rows that were ever inserted.
Enqueued == {t \in Tasks : status[t] # "absent"}

\* What the quota is about: the live rows that are nobody's second life.
Fresh(tenant) == Live(tenant) \ (cancelled \cup overtaken)

\* How far the inserts of a tenant may exceed its quota together.
Excess(tenant) == IF tenant \in crowded THEN Cardinality(Api) - 1 ELSE 0

\* What counts, and what is about to count, is within the quota; and that it can be
\* counted needs that only so many inserts ever were.
CountInv == IsFiniteSet(Enqueued) /\ QuotaBound

\* How many a set has, with one element more and with fewer.
LEMMA Counting ==
  ASSUME NEW S, IsFiniteSet(S)
  PROVE  /\ Cardinality(S) \in Nat
         /\ \A T \in SUBSET S : IsFiniteSet(T) /\ Cardinality(T) \in Nat /\ Cardinality(T) <= Cardinality(S)
         /\ \A x : \A T \in SUBSET (S \cup {x}) :
               IsFiniteSet(T) /\ Cardinality(T) \in Nat /\ Cardinality(T) <= Cardinality(S) + 1
<1>1. Cardinality(S) \in Nat
  BY FS_CardinalityType
<1>2. \A T \in SUBSET S : IsFiniteSet(T) /\ Cardinality(T) \in Nat /\ Cardinality(T) <= Cardinality(S)
  BY FS_Subset, FS_CardinalityType
<1>3. ASSUME NEW x, NEW T \in SUBSET (S \cup {x})
      PROVE  IsFiniteSet(T) /\ Cardinality(T) \in Nat /\ Cardinality(T) <= Cardinality(S) + 1
  <2>1. IsFiniteSet(S \cup {x}) /\ Cardinality(S \cup {x}) \in Nat /\ Cardinality(S \cup {x}) <= Cardinality(S) + 1
    BY <1>1, FS_AddElement, FS_CardinalityType
  <2>2. IsFiniteSet(T) /\ Cardinality(T) \in Nat /\ Cardinality(T) <= Cardinality(S \cup {x})
    BY <2>1, FS_Subset, FS_CardinalityType
  <2> QED
    BY <1>1, <2>1, <2>2
<1> QED
  BY <1>1, <1>2, <1>3

\* The inserts under way are no more than the API threads.
LEMMA InsertsFew ==
  ASSUME NEW tenant
  PROVE  /\ Cardinality(Api) \in Nat /\ Cardinality(Inserts(tenant)) \in Nat
         /\ IsFiniteSet(Inserts(tenant)) /\ Cardinality(Inserts(tenant)) <= Cardinality(Api)
<1>1. IsFiniteSet(Api)
  BY QueueAssumption DEF QueueAssumption
<1>2. Inserts(tenant) \in SUBSET Api
  BY DEF Inserts
<1> QED
  BY <1>1, <1>2, Counting

\* The live rows are some of the inserted ones.
LEMMA RowsFew ==
  ASSUME IsFiniteSet(Enqueued), NEW tenant
  PROVE  /\ IsFiniteSet(Live(tenant)) /\ Cardinality(Live(tenant)) \in Nat
         /\ IsFiniteSet(Fresh(tenant)) /\ Cardinality(Fresh(tenant)) \in Nat
         /\ Cardinality(Fresh(tenant)) <= Cardinality(Live(tenant))
<1>1. Live(tenant) \in SUBSET Enqueued /\ Fresh(tenant) \in SUBSET Live(tenant)
  BY DEF Live, Enqueued, Fresh
<1>2. IsFiniteSet(Live(tenant)) /\ Cardinality(Live(tenant)) \in Nat
  BY <1>1, Counting
<1> QED
  BY <1>1, <1>2, Counting

\* A task that was cancelled or overtaken stays so, and no step but the two of an
\* insert touches the inserts.
LEMMA WindowsStay ==
  ASSUME TypeOK, [Next]_vars
  PROVE  /\ cancelled \subseteq cancelled' /\ overtaken \subseteq overtaken'
         /\ \/ UNCHANGED <<inserting, crowded>>
            \/ \E a \in Api : EnqueueInsert(a) \/ \E t \in Tasks : EnqueueCount(a, t)
<1>1. ASSUME NEW a \in Api, EnqueueInsert(a) PROVE UNCHANGED <<cancelled, overtaken>>
  BY <1>1 DEF EnqueueInsert, history
<1>2. ASSUME NEW a \in Api, NEW t \in Tasks, EnqueueCount(a, t) PROVE UNCHANGED <<cancelled, overtaken>>
  BY <1>2 DEF EnqueueCount
<1>3. ASSUME NEW w \in Workers,
             \/ \E t \in Tasks : SelectCandidate(w, t)
             \/ ClaimLost(w) \/ PollSaturated(w) \/ PollEmpty(w) \/ PurgeCompleted(w)
             \/ Crash(w) \/ Stop(w) \/ Exit(w) \/ Restart(w) \/ Stall(w) \/ Resume(w)
      PROVE  UNCHANGED <<cancelled, overtaken, inserting, crowded>>
  BY <1>3 DEF SelectCandidate, ClaimLost, PollSaturated, PollEmpty, PurgeCompleted,
              Crash, Stop, Exit, Restart, Stall, Resume, GoDown, history
<1>4. ASSUME NEW w \in Workers, Reap(w)
      PROVE  UNCHANGED <<cancelled, inserting, crowded>> /\ overtaken \subseteq overtaken'
  BY <1>4 DEF Reap
<1>5. ASSUME NEW w \in Workers, NEW s \in Slots, ClaimWon(w, s)
      PROVE  UNCHANGED <<cancelled, overtaken, inserting, crowded>>
  BY <1>5 DEF ClaimWon
<1>6. ASSUME NEW p \in Slot, RejectUnknown(p) \/ HandlerSucceeds(p) \/ HandlerFails(p) \/ AbortSettles(p)
      PROVE  UNCHANGED <<cancelled, overtaken, inserting, crowded>>
  BY <1>6 DEF RejectUnknown, HandlerSucceeds, HandlerFails, AbortSettles, history
<1>7. ASSUME NEW p \in Slot, CancelTask(p)
      PROVE  UNCHANGED <<overtaken, inserting, crowded>> /\ cancelled \subseteq cancelled'
  BY <1>7 DEF CancelTask
<1>8. Tick => UNCHANGED <<cancelled, overtaken, inserting, crowded>>
  BY DEF Tick
<1>9. UNCHANGED vars => UNCHANGED <<cancelled, overtaken, inserting, crowded>>
  BY DEF vars, history
<1> QED
  BY <1>1, <1>2, <1>3, <1>4, <1>5, <1>6, <1>7, <1>8, <1>9 DEF Next

\* Only an insert puts a row where there was none.
LEMMA AbsentStays ==
  ASSUME TypeOK, [Next]_vars, ~\E a \in Api : EnqueueInsert(a), NEW t \in Tasks, status[t] = "absent"
  PROVE  status'[t] = "absent"
<1>1. ASSUME NEW a \in Api, NEW u \in Tasks, EnqueueCount(a, u) PROVE status' = status
  BY <1>1 DEF EnqueueCount, rowVars
<1>2. ASSUME NEW w \in Workers, NEW s \in Slots, ClaimWon(w, s) PROVE status'[t] = "absent"
  BY <1>2 DEF ClaimWon, ClaimMatches, TypeOK
<1>3. ASSUME NEW w \in Workers, Reap(w) \/ PurgeCompleted(w) PROVE status'[t] = "absent"
  BY <1>3 DEF Reap, PurgeCompleted, Stale, Expired
<1>4. ASSUME NEW p \in Slot,
             RejectUnknown(p) \/ HandlerSucceeds(p) \/ HandlerFails(p) \/ AbortSettles(p) \/ CancelTask(p)
      PROVE  status'[t] = "absent"
  <2>1. PICK s \in Status : WriteStatus(slot[p].task, s)
    BY <1>4 DEF RejectUnknown, HandlerSucceeds, HandlerFails, AbortSettles, CancelTask, RetryOrFail, MayRetry, Status
  <2> QED
    BY <2>1 DEF WriteStatus, Exists, TypeOK
<1>5. Tick \/ UNCHANGED vars \/ (\E w \in Workers :
              \/ \E u \in Tasks : SelectCandidate(w, u)
              \/ ClaimLost(w) \/ PollSaturated(w) \/ PollEmpty(w)
              \/ Crash(w) \/ Stop(w) \/ Exit(w) \/ Restart(w) \/ Stall(w) \/ Resume(w))
      => UNCHANGED status
  BY DEF Tick, SelectCandidate, ClaimLost, PollSaturated, PollEmpty, Crash, Exit, GoDown,
         Stop, Restart, Stall, Resume, rowVars, vars
<1> QED
  BY <1>1, <1>2, <1>3, <1>4, <1>5 DEF Next

\* Nothing but an insert makes a tenant's fresh rows more.
LEMMA FreshShrinks ==
  ASSUME IInv, [Next]_vars, ~\E a \in Api : EnqueueInsert(a), NEW tenant
  PROVE  Fresh(tenant)' \subseteq Fresh(tenant)
<1>1. TypeOK /\ cancelled \subseteq cancelled' /\ overtaken \subseteq overtaken'
  BY WindowsStay DEF IInv
<1>2. ASSUME NEW t \in Tasks, t \notin cancelled', t \notin overtaken', status'[t] \in {"pending", "running"}
      PROVE  status[t] \in {"pending", "running"} /\ t \notin cancelled /\ t \notin overtaken
  <2>1. status[t] # "absent" /\ t \notin cancelled /\ t \notin overtaken
    BY <1>1, <1>2, AbsentStays
  <2>2. CASE Next
    <3>1. status[t] \in Settled => status'[t] \in {status[t], "purged"}
      BY <1>1, <2>1, <2>2, RowSteps
    <3> QED
      BY <1>1, <1>2, <2>1, <3>1 DEF Settled, TypeOK, Status
  <2>3. CASE UNCHANGED vars
    BY <1>2, <2>1, <2>3 DEF vars, rowVars
  <2> QED
    BY <2>2, <2>3
<1> QED
  BY <1>2 DEF Fresh, Live

\* Nobody counts in an empty queue.
LEMMA CountStart == Init => CountInv
<1> SUFFICES ASSUME Init PROVE CountInv
  OBVIOUS
<1>1. IsFiniteSet({}) /\ Cardinality({}) = 0 /\ MaxPending \in Nat
  BY FS_EmptySet, QueueAssumption DEF QueueAssumption
<1>2. Enqueued = {} /\ crowded = {}
  BY DEF Init, Enqueued
<1>3. ASSUME NEW tenant \in Tenants
      PROVE  Cardinality(Live(tenant) \ (cancelled \cup overtaken)) = 0 /\ Cardinality(Inserts(tenant)) = 0
  <2>1. Live(tenant) \ (cancelled \cup overtaken) = {} /\ Inserts(tenant) = {}
    BY DEF Init, Live, Inserts
  <2> QED
    BY <1>1, <2>1
<1>4. QuotaBound
  BY <1>1, <1>2, <1>3 DEF QuotaBound
<1> QED
  BY <1>1, <1>2, <1>4 DEF CountInv

\* The invariant for one tenant.
LEMMA WithinQuota ==
  ASSUME CountInv, NEW tenant \in Tenants, MaxPending > 0
  PROVE  Cardinality(Fresh(tenant)) + Cardinality(Inserts(tenant)) <= MaxPending + Excess(tenant)
  BY DEF CountInv, QuotaBound, Fresh, Excess

\* An insert that is committed counts as a live row and no longer as an insert.
LEMMA InsertCounts ==
  ASSUME IInv, CountInv, NEW a \in Api, EnqueueInsert(a) PROVE CountInv'
<1> DEFINE t == inserting[a]
<1>1. /\ t \in Tasks /\ TypeOK /\ inserting \in [Api -> Tasks \cup {Nobody}] /\ t # Nobody
      /\ status' = [status EXCEPT ![t] = "pending"] /\ inserting' = [inserting EXCEPT ![a] = Nobody]
      /\ UNCHANGED <<cancelled, overtaken, crowded>>
  BY DEF EnqueueInsert, IInv, TypeOK, history
<1>2. IsFiniteSet(Enqueued')
  <2>1. Enqueued' \in SUBSET (Enqueued \cup {t})
    BY <1>1 DEF Enqueued, TypeOK
  <2> QED
    BY <2>1, Counting DEF CountInv
<1>3. ASSUME NEW tenant \in Tenants, MaxPending > 0
      PROVE  Cardinality(Fresh(tenant)') + Cardinality(Inserts(tenant)') <= MaxPending + Excess(tenant)'
  <2>1. Excess(tenant)' = Excess(tenant)
    BY <1>1 DEF Excess
  <2>2. /\ Cardinality(Fresh(tenant)) + Cardinality(Inserts(tenant)) <= MaxPending + Excess(tenant)
        /\ IsFiniteSet(Fresh(tenant)) /\ Cardinality(Fresh(tenant)) \in Nat
        /\ IsFiniteSet(Inserts(tenant)) /\ Cardinality(Inserts(tenant)) \in Nat
        /\ MaxPending \in Nat /\ Excess(tenant) \in Int
    BY <1>3, WithinQuota, RowsFew, InsertsFew, QueueAssumption DEF QueueAssumption, CountInv, Excess
  <2>3. PICK F, I : F = Fresh(tenant)' /\ I = Inserts(tenant)'
    OBVIOUS
  <2>4. CASE TenantOf[t] = tenant
    <3>1. F \in SUBSET (Fresh(tenant) \cup {t}) /\ I = Inserts(tenant) \ {a} /\ a \in Inserts(tenant)
      BY <1>1, <2>3, <2>4 DEF Fresh, Live, Inserts, TypeOK
    <3>2. Cardinality(F) \in Nat /\ Cardinality(F) <= Cardinality(Fresh(tenant)) + 1
      BY <2>2, <3>1, Counting
    <3>3. Cardinality(I) = Cardinality(Inserts(tenant)) - 1
      BY <2>2, <3>1, FS_RemoveElement
    <3> QED
      BY <2>1, <2>2, <2>3, <3>2, <3>3
  <2>5. CASE TenantOf[t] # tenant
    <3>1. F \in SUBSET Fresh(tenant) /\ I = Inserts(tenant)
      BY <1>1, <2>3, <2>5 DEF Fresh, Live, Inserts, TypeOK
    <3>2. Cardinality(F) \in Nat /\ Cardinality(F) <= Cardinality(Fresh(tenant))
      BY <2>2, <3>1, Counting
    <3> QED
      BY <2>1, <2>2, <2>3, <3>1, <3>2
  <2> QED
    BY <2>4, <2>5
<1>4. QuotaBound'
  BY <1>3 DEF QuotaBound, Fresh, Excess
<1> QED
  BY <1>2, <1>4 DEF CountInv

\* An insert that has counted a tenant below its quota fits, if it is alone; else
\* it is one of as many as there are threads.
LEMMA CountFits ==
  ASSUME IInv, CountInv, NEW a \in Api, NEW t \in Tasks, EnqueueCount(a, t) PROVE CountInv'
<1>1. /\ inserting \in [Api -> Tasks \cup {Nobody}] /\ crowded \subseteq Tenants
      /\ inserting[a] = Nobody /\ t # Nobody
      /\ inserting' = [inserting EXCEPT ![a] = t] /\ UNCHANGED <<status, cancelled, overtaken>>
      /\ crowded' = IF Inserts(TenantOf[t]) = {} THEN crowded ELSE crowded \cup {TenantOf[t]}
  BY QueueAssumption DEF EnqueueCount, IInv, TypeOK, rowVars, QueueAssumption
<1>2. IsFiniteSet(Enqueued')
  BY <1>1 DEF Enqueued, CountInv
<1>3. ASSUME NEW tenant \in Tenants, MaxPending > 0
      PROVE  Cardinality(Fresh(tenant)') + Cardinality(Inserts(tenant)') <= MaxPending + Excess(tenant)'
  <2>1. /\ Cardinality(Fresh(tenant)) + Cardinality(Inserts(tenant)) <= MaxPending + Excess(tenant)
        /\ Cardinality(Live(tenant)) \in Nat /\ Cardinality(Fresh(tenant)) \in Nat
        /\ Cardinality(Fresh(tenant)) <= Cardinality(Live(tenant))
        /\ Cardinality(Inserts(tenant)) \in Nat /\ Cardinality(Api) \in Nat /\ MaxPending \in Nat
    BY <1>3, WithinQuota, RowsFew, InsertsFew, QueueAssumption DEF QueueAssumption, CountInv
  <2>2. Fresh(tenant)' = Fresh(tenant)
    BY <1>1 DEF Fresh, Live
  <2>3. Cardinality(Fresh(tenant)') = Cardinality(Fresh(tenant))
    BY <2>2
  <2>4. CASE TenantOf[t] # tenant
    <3>1. Inserts(tenant)' = Inserts(tenant) /\ Excess(tenant)' = Excess(tenant)
      BY <1>1, <2>4 DEF Inserts, Excess
    <3> QED
      BY <2>1, <2>3, <3>1
  <2>5. CASE TenantOf[t] = tenant /\ Inserts(tenant) = {}
    <3>1. Inserts(tenant)' = {a} /\ Excess(tenant)' = Excess(tenant)
      BY <1>1, <2>5 DEF Inserts, Excess
    <3>2. Cardinality(Inserts(tenant)') = 1
      BY <3>1, FS_Singleton
    <3>3. Cardinality(Live(tenant)) < MaxPending
      BY <1>3, <2>1, <2>5 DEF EnqueueCount, Counted
    <3>4. Excess(tenant) \in Nat
      <4>1. Cardinality(Api) # 0
        BY QueueAssumption, FS_EmptySet DEF QueueAssumption
      <4> QED
        BY <2>1, <4>1 DEF Excess
    <3> QED
      BY <2>1, <2>3, <3>1, <3>2, <3>3, <3>4
  <2>6. CASE TenantOf[t] = tenant /\ Inserts(tenant) # {}
    <3>1. Excess(tenant)' = Cardinality(Api) - 1
      BY <1>1, <2>6 DEF Excess
    <3>2. Cardinality(Inserts(tenant)') \in Nat /\ Cardinality(Inserts(tenant)') <= Cardinality(Api)
      <4>1. PICK I : I = Inserts(tenant)'
        OBVIOUS
      <4>2. I \in SUBSET Api /\ IsFiniteSet(Api)
        BY <4>1, QueueAssumption DEF Inserts, QueueAssumption
      <4> QED
        BY <4>1, <4>2, Counting
    <3>3. Cardinality(Live(tenant)) < MaxPending
      BY <1>3, <2>1, <2>6 DEF EnqueueCount, Counted
    <3> QED
      BY <2>1, <2>3, <3>1, <3>2, <3>3
  <2> QED
    BY <2>4, <2>5, <2>6
<1>4. QuotaBound'
  BY <1>3 DEF QuotaBound, Fresh, Excess
<1> QED
  BY <1>2, <1>4 DEF CountInv

\* Every other step leaves the inserts alone and makes no tenant's fresh rows more.
LEMMA CountStep == IInv /\ CountInv /\ [Next]_vars => CountInv'
<1> SUFFICES ASSUME IInv, CountInv, [Next]_vars PROVE CountInv'
  OBVIOUS
<1>1. CASE \E a \in Api : EnqueueInsert(a) \/ \E t \in Tasks : EnqueueCount(a, t)
  BY <1>1, InsertCounts, CountFits
<1>2. CASE ~\E a \in Api : EnqueueInsert(a) \/ \E t \in Tasks : EnqueueCount(a, t)
  <2>1. UNCHANGED <<inserting, crowded>> /\ TypeOK
    BY <1>2, WindowsStay DEF IInv
  <2>2. IsFiniteSet(Enqueued')
    <3>1. PICK E : E = Enqueued'
      OBVIOUS
    <3>2. E \in SUBSET Enqueued
      BY <1>2, <2>1, <3>1, AbsentStays DEF Enqueued
    <3> QED
      BY <3>1, <3>2, Counting DEF CountInv
  <2>3. ASSUME NEW tenant \in Tenants, MaxPending > 0
        PROVE  Cardinality(Fresh(tenant)') + Cardinality(Inserts(tenant)') <= MaxPending + Excess(tenant)'
    <3>1. /\ Cardinality(Fresh(tenant)) + Cardinality(Inserts(tenant)) <= MaxPending + Excess(tenant)
          /\ IsFiniteSet(Fresh(tenant)) /\ Cardinality(Fresh(tenant)) \in Nat
          /\ Cardinality(Inserts(tenant)) \in Nat /\ MaxPending \in Nat /\ Excess(tenant) \in Int
      BY <2>3, WithinQuota, RowsFew, InsertsFew, QueueAssumption DEF QueueAssumption, CountInv, Excess
    <3>2. PICK F : F = Fresh(tenant)'
      OBVIOUS
    <3>3. F \in SUBSET Fresh(tenant)
      BY <1>2, <3>2, FreshShrinks
    <3>4. Cardinality(F) \in Nat /\ Cardinality(F) <= Cardinality(Fresh(tenant))
      BY <3>1, <3>3, Counting
    <3>5. Inserts(tenant)' = Inserts(tenant) /\ Excess(tenant)' = Excess(tenant)
      BY <2>1 DEF Inserts, Excess
    <3> QED
      BY <3>1, <3>2, <3>4, <3>5
  <2>4. QuotaBound'
    BY <2>3 DEF QuotaBound, Fresh, Excess
  <2> QED
    BY <2>2, <2>4 DEF CountInv
<1> QED
  BY <1>1, <1>2

\* Whatever workers, reaper and purge do in between, the enqueue statement keeps a
\* tenant's live rows within its quota (task-queue.ts, enqueue): inserts that overlap
\* exceed it by at most one for each other API thread, and only tasks that were
\* cancelled or overtaken come back beside them.
THEOREM QuotaKept == Spec => []QuotaBound
<1>1. CountInv => QuotaBound
  BY DEF CountInv
<1> QED
  BY <1>1, CountStart, CountStep, Invariance, PTL DEF Spec
-----------------------------------------------------------------------------
(* The persona leases *)

\* Every token in use was drawn, and no two clients hold the same one.
TokensDrawn ==
    /\ \A k \in Keys : row[k].token <= issued
    /\ \A c \in Clients : token[c] <= issued
    /\ \A c \in Clients : leased[c] # Nothing => token[c] # NoToken
    /\ \A c \in Clients : leased[c] = Nothing => token[c] = NoToken
    /\ \A c, d \in Clients : token[c] = token[d] /\ token[c] # NoToken => c = d

WorksOnLeasedKey == \A c \in Clients : using[c] # Nothing => using[c] = leased[c]

\* The row of a client that is within its time is its own, ...
RowIsOwn ==
    \A c \in Clients : using[c] # Nothing /\ held[c] < Ttl => row[using[c]].token = token[c]

\* ... and a row that is its own expires when the client is out of time ...
RowInStep ==
    \A c \in Clients :
        using[c] # Nothing /\ row[using[c]].token = token[c] => row[using[c]].left = Ttl - held[c]

\* ... and was never granted to anybody else since.
OwnRowUnbroken ==
    \A c \in Clients : using[c] # Nothing /\ row[using[c]].token = token[c] => c \notin intruded

LeaseInv == LeaseTypeOK /\ TokensDrawn /\ WorksOnLeasedKey /\ RowIsOwn /\ RowInStep /\ OwnRowUnbroken

\* What the assumptions say of the single constants.
LEMMA LeaseConstants == Ttl \in Nat /\ Ttl > 0 /\ MaxTokens \in Nat /\ Nothing \notin Keys
  BY LeaseAssumption, ClientAssumption
-----------------------------------------------------------------------------
\* At the start no client has a handle.
LEMMA LeaseTypesStart == LeaseInit => LeaseTypeOK
  BY LeaseConstants, ClientAssumption
  DEF LeaseInit, LeaseTypeOK, Row, NoRow, Token, NoToken

\* A client that ends forgets its handle.
LEMMA ForgetKeepsTypes ==
  ASSUME LeaseTypeOK, NEW c \in Clients, Forget(c)
  PROVE  /\ using' \in [Clients -> Keys \cup {Nothing}]
         /\ leased' \in [Clients -> Keys \cup {Nothing}]
         /\ token' \in [Clients -> Token \cup {NoToken}]
         /\ held' \in [Clients -> 0 .. Ttl]
         /\ renewed' \in [Clients -> BOOLEAN]
         /\ intruded' \subseteq Clients
  BY LeaseConstants DEF LeaseTypeOK, Forget

\* Every statement on the lease row keeps the types.
LEMMA LeaseTypesStep == LeaseTypeOK /\ [LeaseNext]_leaseVars => LeaseTypeOK'
<1> SUFFICES ASSUME LeaseTypeOK, [LeaseNext]_leaseVars PROVE LeaseTypeOK'
  OBVIOUS
<1>1. ASSUME NEW c \in Clients, NEW k \in Keys, Acquire(c, k) PROVE LeaseTypeOK'
  <2>1. issued + 1 \in Token
    BY <1>1, LeaseConstants DEF Acquire, LeaseTypeOK, Token
  <2>2. Granted(issued + 1) \in Row
    BY <2>1, LeaseConstants DEF Granted, Row
  <2>3. row' \in [Keys -> Row]
    BY <1>1, <2>2 DEF Acquire, LeaseTypeOK
  <2>4. issued' \in 0 .. MaxTokens
    BY <1>1, LeaseConstants DEF Acquire, LeaseTypeOK
  <2> QED
    BY <1>1, <2>1, <2>3, <2>4, LeaseConstants DEF Acquire, LeaseTypeOK
<1>2. ASSUME NEW c \in Clients, Refresh(c) PROVE LeaseTypeOK'
  <2>1. row' \in [Keys -> Row]
    <3>1. using[c] \in Keys
      BY <1>2 DEF Refresh, MayRefresh, LeaseTypeOK
    <3>2. [row[using[c]] EXCEPT !.left = Ttl] \in Row
      BY <3>1, LeaseConstants DEF LeaseTypeOK, Row
    <3> QED
      BY <1>2, <3>1, <3>2 DEF Refresh, LeaseTypeOK
  <2> QED
    BY <1>2, <2>1, LeaseConstants DEF Refresh, LeaseTypeOK
<1>3. ASSUME NEW c \in Clients, RefreshRefused(c) PROVE LeaseTypeOK'
  BY <1>3 DEF RefreshRefused, LeaseTypeOK
<1>4. ASSUME NEW c \in Clients, ReleaseLease(c) PROVE LeaseTypeOK'
  <2>1. row' \in [Keys -> Row]
    BY <1>4, LeaseConstants DEF ReleaseLease, LeaseTypeOK, Released, NoRow, Row, NoToken
  <2> QED
    BY <1>4, <2>1, ForgetKeepsTypes DEF ReleaseLease, LeaseTypeOK
<1>5. ASSUME NEW c \in Clients, ClientDies(c) PROVE LeaseTypeOK'
  BY <1>5, ForgetKeepsTypes, ClientAssumption DEF ClientDies, LeaseTypeOK
<1>6. ASSUME NEW c \in Clients, Freeze(c) PROVE LeaseTypeOK'
  BY <1>6, ClientAssumption DEF Freeze, LeaseTypeOK, handle
<1>7. ASSUME NEW c \in Clients, Thaw(c) PROVE LeaseTypeOK'
  BY <1>7 DEF Thaw, LeaseTypeOK, handle
<1>8. ASSUME LeaseTick PROVE LeaseTypeOK'
  <2>1. \A k \in Keys : Aged(row[k]) \in Row
    BY LeaseConstants DEF LeaseTypeOK, Row, Aged
  <2>2. held' \in [Clients -> 0 .. Ttl]
    BY <1>8, LeaseConstants DEF LeaseTick, LeaseTypeOK
  <2> QED
    BY <1>8, <2>1, <2>2 DEF LeaseTick, LeaseTypeOK
<1>9. CASE UNCHANGED leaseVars
  BY <1>9 DEF leaseVars, handle, LeaseTypeOK
<1> QED
  BY <1>1, <1>2, <1>3, <1>4, <1>5, <1>6, <1>7, <1>8, <1>9 DEF LeaseNext
-----------------------------------------------------------------------------
\* Every step keeps the invariant: acquire, refresh, release and time.
LEMMA LeaseStep == LeaseInv /\ [LeaseNext]_leaseVars => LeaseInv'
<1> SUFFICES ASSUME LeaseInv, [LeaseNext]_leaseVars PROVE LeaseInv'
  OBVIOUS
<1>t. LeaseTypeOK /\ LeaseTypeOK'
  BY LeaseTypesStep DEF LeaseInv
<1>1. ASSUME NEW c \in Clients, NEW k \in Keys, Acquire(c, k) PROVE LeaseInv'
  <2>1. /\ row' = [row EXCEPT ![k] = [token |-> issued + 1, left |-> Ttl]]
        /\ using' = [using EXCEPT ![c] = k]
        /\ leased' = [leased EXCEPT ![c] = k]
        /\ token' = [token EXCEPT ![c] = issued + 1]
        /\ held' = [held EXCEPT ![c] = 0]
        /\ issued' = issued + 1
        /\ intruded' = (intruded \ {c}) \cup {d \in Clients \ {c} : using[d] = k}
        /\ row[k].left = 0
    BY <1>1 DEF Acquire, Granted, Grantable
  <2>2. issued \in Nat
    BY <1>t, LeaseConstants DEF LeaseTypeOK
  <2>a. \A j \in Keys : row[j].token \in Nat /\ row[j].token <= issued
    BY <1>t DEF LeaseInv, TokensDrawn, LeaseTypeOK, Row, Token, NoToken
  <2>b. \A d \in Clients : token[d] \in Nat /\ token[d] <= issued
    BY <1>t DEF LeaseInv, TokensDrawn, LeaseTypeOK, Token, NoToken
  <2>c. /\ \A d \in Clients : token'[d] = IF d = c THEN issued + 1 ELSE token[d]
        /\ \A d \in Clients : leased'[d] = IF d = c THEN k ELSE leased[d]
        /\ \A j \in Keys : row'[j].token = IF j = k THEN issued + 1 ELSE row[j].token
    BY <1>t, <2>1 DEF LeaseTypeOK
  <2>3. TokensDrawn'
    <3>1. \A j \in Keys : row'[j].token <= issued'
      BY <2>1, <2>2, <2>a, <2>c
    <3>2. \A d \in Clients : token'[d] <= issued'
      BY <2>1, <2>2, <2>b, <2>c
    <3>3. \A d, e \in Clients : token'[d] = token'[e] /\ token'[d] # NoToken => d = e
      BY <2>2, <2>b, <2>c DEF LeaseInv, TokensDrawn
    <3>4. \A d \in Clients : /\ leased'[d] # Nothing => token'[d] # NoToken
                             /\ leased'[d] = Nothing => token'[d] = NoToken
      BY <2>2, <2>c, LeaseConstants DEF LeaseInv, TokensDrawn, NoToken
    <3> QED
      BY <3>1, <3>2, <3>3, <3>4 DEF TokensDrawn
  <2>4. WorksOnLeasedKey'
    BY <1>t, <2>1, LeaseConstants DEF LeaseInv, WorksOnLeasedKey, LeaseTypeOK
  <2>5. \A d \in Clients : using[d] = k => held[d] >= Ttl
    BY <1>t, <2>1, LeaseConstants DEF LeaseInv, RowIsOwn, RowInStep, LeaseTypeOK, Row
  <2>6. RowIsOwn'
    BY <1>t, <2>1, <2>5, LeaseConstants DEF LeaseInv, RowIsOwn, LeaseTypeOK
  <2>7. \A d \in Clients \ {c} : token'[d] # issued + 1
    BY <2>2, <2>b, <2>c
  <2>8. RowInStep'
    BY <1>t, <2>1, <2>7, LeaseConstants DEF LeaseInv, RowInStep, LeaseTypeOK
  <2>9. OwnRowUnbroken'
    BY <1>t, <2>1, <2>7, LeaseConstants DEF LeaseInv, OwnRowUnbroken, LeaseTypeOK
  <2> QED
    BY <1>t, <2>3, <2>4, <2>6, <2>8, <2>9 DEF LeaseInv
<1>2. ASSUME NEW c \in Clients, Refresh(c) PROVE LeaseInv'
  <2> DEFINE k == using[c]
  <2>1. /\ k \in Keys
        /\ row' = [row EXCEPT ![k].left = Ttl]
        /\ held' = [held EXCEPT ![c] = 0]
        /\ UNCHANGED <<issued, using, leased, token, intruded>>
        /\ row[k].token = token[c]
    BY <1>2, <1>t DEF Refresh, MayRefresh, Renewable, LeaseTypeOK
  <2>2. \A j \in Keys : /\ row'[j].token = row[j].token
                        /\ row'[j].left = IF j = k THEN Ttl ELSE row[j].left
    BY <1>t, <2>1 DEF LeaseTypeOK, Row
  <2>3. TokensDrawn'
    BY <2>1, <2>2 DEF LeaseInv, TokensDrawn
  <2>4. WorksOnLeasedKey'
    BY <2>1 DEF LeaseInv, WorksOnLeasedKey
  <2>5. RowIsOwn'
    BY <1>t, <2>1, <2>2, LeaseConstants DEF LeaseInv, RowIsOwn, LeaseTypeOK
  <2>6. \A d \in Clients : using[d] = k /\ d # c => row[k].token # token[d]
    BY <1>t, <2>1, LeaseConstants DEF LeaseInv, TokensDrawn, WorksOnLeasedKey, LeaseTypeOK
  <2>7. RowInStep'
    BY <1>t, <2>1, <2>2, <2>6, LeaseConstants DEF LeaseInv, RowInStep, LeaseTypeOK
  <2>8. OwnRowUnbroken'
    BY <1>t, <2>1, <2>2, LeaseConstants DEF LeaseInv, OwnRowUnbroken, LeaseTypeOK
  <2> QED
    BY <1>t, <2>3, <2>4, <2>5, <2>7, <2>8 DEF LeaseInv
<1>3. ASSUME NEW c \in Clients, RefreshRefused(c) PROVE LeaseInv'
  BY <1>3, <1>t, LeaseConstants
  DEF RefreshRefused, LeaseInv, TokensDrawn, WorksOnLeasedKey, RowIsOwn, RowInStep, OwnRowUnbroken, LeaseTypeOK
<1>4. ASSUME NEW c \in Clients, Forget(c), UNCHANGED <<row, issued>> PROVE LeaseInv'
  BY <1>4, <1>t, LeaseConstants
  DEF Forget, LeaseInv, TokensDrawn, WorksOnLeasedKey, RowIsOwn, RowInStep, OwnRowUnbroken, LeaseTypeOK, NoToken
<1>5. ASSUME NEW c \in Clients, ReleaseLease(c) PROVE LeaseInv'
  <2> DEFINE k == leased[c]
  <2>1. /\ k \in Keys /\ token[c] # NoToken
        /\ row' = [row EXCEPT ![k] = IF row[k].token = token[c] THEN NoRow ELSE row[k]]
        /\ issued' = issued
    BY <1>5, <1>t DEF ReleaseLease, Released, ReleaseMatches, LeaseTypeOK, LeaseInv, TokensDrawn
  <2>2. \A d \in Clients \ {c} :
           /\ using'[d] = using[d] /\ leased'[d] = leased[d]
           /\ token'[d] = token[d] /\ held'[d] = held[d]
           /\ d \in intruded' <=> d \in intruded
    BY <1>5, <1>t DEF ReleaseLease, Forget, LeaseTypeOK
  <2>3. using'[c] = Nothing /\ leased'[c] = Nothing /\ token'[c] = NoToken
    BY <1>5, <1>t DEF ReleaseLease, Forget, LeaseTypeOK
  <2>4. issued \in Nat /\ NoRow.token = 0 /\ NoRow.left = 0 /\ NoToken = 0
    BY <1>t, LeaseConstants DEF LeaseTypeOK, NoRow, NoToken
  <2>5. TokensDrawn'
    <3>1. \A j \in Keys : row'[j].token <= issued'
      BY <1>t, <2>1, <2>4 DEF LeaseInv, TokensDrawn, LeaseTypeOK
    <3>2. \A d \in Clients : token'[d] <= issued'
      BY <2>1, <2>2, <2>3, <2>4 DEF LeaseInv, TokensDrawn
    <3> QED
      BY <3>1, <3>2, <2>2, <2>3 DEF LeaseInv, TokensDrawn
  <2>6. WorksOnLeasedKey'
    BY <2>2, <2>3 DEF LeaseInv, WorksOnLeasedKey
  <2>7. \A d \in Clients \ {c} : using[d] # Nothing =>
           /\ using[d] \in Keys /\ token[d] # NoToken /\ token[d] # token[c]
    BY <1>t, <2>1, LeaseConstants DEF LeaseInv, TokensDrawn, WorksOnLeasedKey, LeaseTypeOK
  <2>8. \A d \in Clients \ {c} : using[d] # Nothing /\ row[using[d]].token = token[d]
           => row'[using[d]] = row[using[d]]
    BY <1>t, <2>1, <2>7 DEF LeaseTypeOK
  <2>9. \A d \in Clients \ {c} : using[d] # Nothing /\ row'[using[d]].token = token[d]
           => row'[using[d]] = row[using[d]]
    BY <1>t, <2>1, <2>4, <2>7 DEF LeaseTypeOK
  <2>10. RowIsOwn'
    BY <2>2, <2>3, <2>8 DEF LeaseInv, RowIsOwn
  <2>11. RowInStep'
    BY <2>2, <2>3, <2>9 DEF LeaseInv, RowInStep
  <2>12. OwnRowUnbroken'
    BY <2>2, <2>3, <2>9 DEF LeaseInv, OwnRowUnbroken
  <2> QED
    BY <1>t, <2>5, <2>6, <2>10, <2>11, <2>12 DEF LeaseInv
<1>6. ASSUME NEW c \in Clients, ClientDies(c) PROVE LeaseInv'
  BY <1>6, <1>4 DEF ClientDies
<1>7. ASSUME NEW c \in Clients, Freeze(c) \/ Thaw(c) PROVE LeaseInv'
  BY <1>7, <1>t
  DEF Freeze, Thaw, handle, LeaseInv, TokensDrawn, WorksOnLeasedKey, RowIsOwn, RowInStep, OwnRowUnbroken
<1>8. ASSUME LeaseTick PROVE LeaseInv'
  <2>1. \A k \in Keys : /\ row'[k].token = row[k].token
                        /\ row'[k].left = IF row[k].left > 0 THEN row[k].left - 1 ELSE 0
    BY <1>8, <1>t DEF LeaseTick, Aged, LeaseTypeOK, Row
  <2>2. \A c \in Clients : using[c] # Nothing => held'[c] = IF held[c] < Ttl THEN held[c] + 1 ELSE held[c]
    BY <1>8, <1>t, LeaseConstants DEF LeaseTick, LeaseInv, WorksOnLeasedKey, LeaseTypeOK
  <2>3. UNCHANGED <<issued, using, leased, token, intruded>>
    BY <1>8 DEF LeaseTick
  <2>4. TokensDrawn' /\ WorksOnLeasedKey'
    BY <2>1, <2>3 DEF LeaseInv, TokensDrawn, WorksOnLeasedKey
  <2>5. \A c \in Clients : using[c] # Nothing => using[c] \in Keys /\ held[c] \in 0 .. Ttl
    BY <1>t DEF LeaseTypeOK
  <2>6. RowIsOwn'
    BY <2>1, <2>2, <2>3, <2>5, LeaseConstants DEF LeaseInv, RowIsOwn
  <2>7. RowInStep'
    BY <2>1, <2>2, <2>3, <2>5, LeaseConstants DEF LeaseInv, RowInStep
  <2>8. OwnRowUnbroken'
    BY <2>1, <2>3, <2>5 DEF LeaseInv, OwnRowUnbroken
  <2> QED
    BY <1>t, <2>4, <2>6, <2>7, <2>8 DEF LeaseInv
<1>9. CASE UNCHANGED leaseVars
  BY <1>9, <1>t DEF leaseVars, handle, LeaseInv, TokensDrawn, WorksOnLeasedKey, RowIsOwn, RowInStep, OwnRowUnbroken
<1> QED
  BY <1>1, <1>2, <1>3, <1>5, <1>6, <1>7, <1>8, <1>9 DEF LeaseNext

\* The invariant holds of the empty table.
LEMMA LeaseStart == LeaseInit => LeaseInv
  BY LeaseTypesStart, LeaseConstants
  DEF LeaseInit, LeaseInv, TokensDrawn, WorksOnLeasedKey, RowIsOwn, RowInStep, OwnRowUnbroken, NoRow, NoToken

\* The inductive invariant holds of every behaviour of the lease.
THEOREM LeaseInvariant == LeaseSpec => []LeaseInv
<1>1. LeaseInit => LeaseInv
  BY LeaseStart
<1>2. LeaseInv /\ [LeaseNext]_leaseVars => LeaseInv'
  BY LeaseStep
<1> QED
  BY <1>1, <1>2, PTL DEF LeaseSpec

\* Rows, handles and timers keep their types.
THEOREM LeaseTyped == LeaseSpec => []LeaseTypeOK
<1>1. LeaseInv => LeaseTypeOK
  BY DEF LeaseInv
<1> QED
  BY <1>1, LeaseInvariant, PTL

\* A refresh that succeeds proves that nobody was granted the key meanwhile,
\* however long its client was frozen.
THEOREM LeaseFenceHolds == LeaseSpec => RefreshIsFence
<1>1. LeaseInv /\ [LeaseNext]_leaseVars =>
        [\A c \in Clients : renewed'[c] /\ ~renewed[c] /\ using'[c] # Nothing => c \notin intruded]_leaseVars
  <2> SUFFICES ASSUME LeaseInv, [LeaseNext]_leaseVars, NEW c \in Clients,
                      renewed'[c], ~renewed[c], using'[c] # Nothing
               PROVE  c \notin intruded
    OBVIOUS
  <2>t. LeaseTypeOK
    BY DEF LeaseInv
  <2>1. Refresh(c)
    <3>1. ASSUME NEW d \in Clients, NEW k \in Keys, Acquire(d, k) PROVE FALSE
      BY <3>1, <2>t DEF Acquire, LeaseTypeOK
    <3>2. ASSUME NEW d \in Clients, ReleaseLease(d) \/ ClientDies(d) PROVE FALSE
      BY <3>2, <2>t DEF ReleaseLease, ClientDies, Forget, LeaseTypeOK
    <3>3. ASSUME NEW d \in Clients, Freeze(d) \/ Thaw(d) PROVE FALSE
      BY <3>3 DEF Freeze, Thaw, handle
    <3>4. ASSUME NEW d \in Clients, RefreshRefused(d) PROVE FALSE
      BY <3>4, <2>t DEF RefreshRefused, LeaseTypeOK
    <3>5. ASSUME NEW d \in Clients, Refresh(d) PROVE d = c
      BY <3>5, <2>t DEF Refresh, LeaseTypeOK
    <3> QED
      BY <3>1, <3>2, <3>3, <3>4, <3>5 DEF LeaseNext, LeaseTick, leaseVars, handle
  <2> QED
    BY <2>1 DEF LeaseInv, OwnRowUnbroken, Refresh, MayRefresh, Renewable
<1> QED
  BY <1>1, LeaseInvariant, PTL DEF LeaseSpec, RefreshIsFence
-----------------------------------------------------------------------------
\* Nobody uses a key at the start, and nobody is late.
LEMMA RefinesInitially == LeaseInit => Abstract!Init
  BY DEF LeaseInit, Abstract!Init, Late

\* What ends a client's use of its key, whatever becomes of the row.
LEMMA ForgetLeaves ==
  ASSUME LeaseTypeOK, NEW c \in Clients, Forget(c)
  PROVE  Abstract!Leave(c) \/ UNCHANGED <<using, Late>>
<1>1. using' = [using EXCEPT ![c] = Nothing] /\ Late' = Late \ {c}
  BY LeaseConstants DEF LeaseTypeOK, Forget, Late
<1>2. CASE using[c] # Nothing
  BY <1>1, <1>2 DEF Abstract!Leave
<1>3. CASE using[c] = Nothing
  <2>1. using' = using
    BY <1>1, <1>3 DEF LeaseTypeOK
  <2>2. c \notin Late
    BY <1>3 DEF Late
  <2> QED
    BY <1>1, <2>1, <2>2
<1> QED
  BY <1>2, <1>3

\* An acquire enters a key that only late clients use; all other steps leave or age.
LEMMA RefinesStep == LeaseInv /\ [LeaseNext]_leaseVars => [Abstract!Next]_<<using, Late>>
<1> SUFFICES ASSUME LeaseInv, [LeaseNext]_leaseVars PROVE [Abstract!Next]_<<using, Late>>
  OBVIOUS
<1>t. LeaseTypeOK
  BY DEF LeaseInv
<1>1. ASSUME NEW c \in Clients, NEW k \in Keys, Acquire(c, k) PROVE Abstract!Enter(c, k)
  <2>1. using[c] = Nothing
    BY <1>1, <1>t DEF Acquire, LeaseInv, WorksOnLeasedKey
  <2>2. \A d \in Clients : using[d] = k => d \in Late
    BY <1>1, <1>t, LeaseConstants DEF Acquire, Grantable, LeaseInv, RowIsOwn, RowInStep, Late, LeaseTypeOK, Row
  <2>3. using' = [using EXCEPT ![c] = k]
    BY <1>1 DEF Acquire
  <2>4. Late' = Late \ {c}
    BY <1>1, <1>t, <2>1, LeaseConstants DEF Acquire, Late, LeaseTypeOK
  <2> QED
    BY <2>1, <2>2, <2>3, <2>4 DEF Abstract!Enter
<1>2. ASSUME NEW c \in Clients, Refresh(c) PROVE UNCHANGED <<using, Late>>
  <2>1. held[c] < Ttl
    BY <1>2, <1>t, LeaseConstants DEF Refresh, MayRefresh, Renewable, LeaseInv, RowInStep, LeaseTypeOK, Row
  <2>2. held' = [held EXCEPT ![c] = 0] /\ using' = using
    BY <1>2 DEF Refresh
  <2> QED
    BY <2>1, <2>2, <1>t, LeaseConstants DEF Late, LeaseTypeOK
<1>3. ASSUME NEW c \in Clients, RefreshRefused(c) PROVE Abstract!Leave(c)
  <2>1. Late' = Late \ {c}
    BY <1>3, <1>t DEF RefreshRefused, Late, LeaseTypeOK
  <2> QED
    BY <1>3, <2>1 DEF RefreshRefused, MayRefresh, Abstract!Leave
<1>4. ASSUME NEW c \in Clients, ReleaseLease(c) \/ ClientDies(c)
      PROVE  Abstract!Leave(c) \/ UNCHANGED <<using, Late>>
  BY <1>4, <1>t, ForgetLeaves DEF ReleaseLease, ClientDies
<1>5. ASSUME NEW c \in Clients, Freeze(c) \/ Thaw(c) PROVE UNCHANGED <<using, Late>>
  BY <1>5 DEF Freeze, Thaw, handle, Late
<1>6. ASSUME LeaseTick PROVE Abstract!TimePasses
  <2>1. using' = using
    BY <1>6 DEF LeaseTick
  <2>2. Late \subseteq Late'
    BY <1>6, <1>t, <2>1, LeaseConstants DEF LeaseTick, Late, LeaseTypeOK
  <2> QED
    BY <2>1, <2>2 DEF Abstract!TimePasses, Late
<1>7. CASE UNCHANGED leaseVars
  BY <1>7 DEF leaseVars, handle, Late
<1> QED
  BY <1>1, <1>2, <1>3, <1>4, <1>5, <1>6, <1>7 DEF LeaseNext, Abstract!Next

\* The lease table implements exclusive use with a time limit.
THEOREM LeaseImplements == LeaseSpec => GrantsAreExclusive
<1>1. LeaseInit => Abstract!Init
  BY RefinesInitially
<1>2. LeaseInv /\ [LeaseNext]_leaseVars => [Abstract!Next]_<<using, Late>>
  BY RefinesStep
<1> QED
  BY <1>1, <1>2, LeaseInvariant, PTL DEF LeaseSpec, GrantsAreExclusive, Abstract!Spec
-----------------------------------------------------------------------------
(* The token quota *)

\* The limit in force is one that counts for its window, and while no refund and no pruning
\* went astray, rows tell what was granted: nothing where there is no row yet.
LimitIsPeak == limit # NoLimit => limit <= peak[window]
RowsTell ==
    /\ \A w \in Windows : w > window => used[w] = NoUsage /\ granted[w] <= 0
    /\ quotaSlips = {} /\ used[window] = NoUsage => granted[window] <= 0

QuotaInv == QuotaTypeOK /\ LimitIsPeak /\ RowsTell /\ QuotaHolds

\* What the proofs use of the constants' assumptions.
LEMMA QuotaConstants ==
  /\ Estimates \subseteq Nat \ {0} /\ Limits \subseteq Nat /\ NoLimit \notin Int /\ NoUsage \notin Int
  /\ LastWindow \in Nat /\ MaxPlanChanges \in Nat /\ 0 \in Windows
  /\ \A w \in Windows : w \in Nat /\ w # Unmetered
  BY QuotaAssumption DEF Windows, Unmetered

\* In the first window nothing is used.
LEMMA QuotaStart == QuotaInit => QuotaInv
<1> SUFFICES ASSUME QuotaInit PROVE QuotaInv
  OBVIOUS
<1>1. QuotaTypeOK
  BY QuotaConstants DEF QuotaInit, QuotaTypeOK, NoCall, Unmetered, QuotaSlips
<1>2. LimitIsPeak /\ RowsTell /\ QuotaHolds
  BY QuotaConstants DEF QuotaInit, LimitIsPeak, RowsTell, QuotaHolds, WithinLimit, UsageCounted
<1> QED
  BY <1>1, <1>2 DEF QuotaInv

\* A call takes its estimate from the row, if there is one, within the limit.
LEMMA ConsumeKeeps ==
  ASSUME QuotaInv, NEW c \in ModelCalls, NEW kind \in {"chat", "embed"}, NEW tokens \in Estimates,
         ConsumeQuota(c, kind, tokens)
  PROVE  QuotaInv'
<1>1. /\ QuotaTypeOK /\ LimitIsPeak /\ RowsTell /\ QuotaHolds /\ tokens \in Nat
      /\ limit \in Nat /\ limit <= peak[window] /\ tokens <= limit /\ Fits(tokens) /\ window \in Windows
      /\ UNCHANGED <<limit, window, planChanges, peak, quotaSlips>>
  BY QuotaConstants DEF QuotaInv, ConsumeQuota, Consumable, QuotaTypeOK, LimitIsPeak
<1>2. /\ used' = [used EXCEPT ![window] = IF used[window] = NoUsage THEN tokens ELSE used[window] + tokens]
      /\ granted' = [granted EXCEPT ![window] = granted[window] + tokens]
  BY DEF ConsumeQuota
<1>3. /\ used[window] \in Nat \cup {NoUsage} /\ granted[window] \in Int /\ peak[window] \in Nat
      /\ used'[window] = IF used[window] = NoUsage THEN tokens ELSE used[window] + tokens
      /\ granted'[window] = granted[window] + tokens
      /\ \A w \in Windows \ {window} : used'[w] = used[w] /\ granted'[w] = granted[w]
  BY <1>1, <1>2 DEF QuotaTypeOK
<1>4. used'[window] \in Nat /\ granted'[window] \in Int
  BY <1>1, <1>3
<1>5. QuotaTypeOK'
  <2>1. used' \in [Windows -> Nat \cup {NoUsage}] /\ granted' \in [Windows -> Int]
    BY <1>1, <1>2, <1>3, <1>4 DEF QuotaTypeOK
  <2>2. modelCall' \in [ModelCalls -> [kind: {"none", "chat", "embed"}, tokens: Estimates \cup {0},
                                       from: Windows \cup {Unmetered}]]
    BY <1>1 DEF ConsumeQuota, QuotaTypeOK
  <2> QED
    BY <1>1, <2>1, <2>2 DEF QuotaTypeOK
<1>6. used'[window] # NoUsage
  BY <1>4, QuotaConstants
<1>7. LimitIsPeak' /\ RowsTell'
  BY <1>1, <1>3, <1>6, QuotaConstants DEF LimitIsPeak, RowsTell
<1>8. ASSUME quotaSlips = {} PROVE granted'[window] <= peak[window] /\ used'[window] >= granted'[window]
  <2>1. used[window] = NoUsage => granted[window] <= 0
    BY <1>1, <1>8 DEF RowsTell
  <2>2. used[window] # NoUsage => used[window] \in Nat /\ used[window] >= granted[window]
        /\ used[window] + tokens <= limit
    BY <1>1, <1>3, <1>8 DEF QuotaHolds, UsageCounted, Fits
  <2> QED
    BY <1>1, <1>3, <2>1, <2>2
<1>9. QuotaHolds'
  BY <1>1, <1>3, <1>8 DEF QuotaHolds, WithinLimit, UsageCounted
<1> QED
  BY <1>5, <1>7, <1>9 DEF QuotaInv

\* What a call that failed leaves of the grants.
LEMMA FailureGives ==
  ASSUME QuotaInv, NEW c \in ModelCalls, Failed(c)
  PROVE  /\ granted' \in [Windows -> Int] /\ \A w \in Windows : granted'[w] <= granted[w]
         /\ modelCall' \in [ModelCalls -> [kind: {"none", "chat", "embed"}, tokens: Estimates \cup {0},
                                           from: Windows \cup {Unmetered}]]
         /\ modelCall[c].tokens \in Nat
         /\ modelCall[c].from = window => granted'[window] = granted[window] - modelCall[c].tokens
<1>1. /\ modelCall[c].tokens \in Estimates \cup {0} /\ granted \in [Windows -> Int] /\ window \in Windows
      /\ modelCall \in [ModelCalls -> [kind: {"none", "chat", "embed"}, tokens: Estimates \cup {0},
                                       from: Windows \cup {Unmetered}]]
  BY DEF QuotaInv, QuotaTypeOK
<1>2. modelCall[c].tokens \in Nat
  BY <1>1, QuotaConstants
<1>3. \A w \in Windows : granted[w] - modelCall[c].tokens \in Int /\ granted[w] - modelCall[c].tokens <= granted[w]
  BY <1>1, <1>2
<1>4. granted' = [w \in Windows |-> IF w = modelCall[c].from THEN granted[w] - modelCall[c].tokens ELSE granted[w]]
  BY DEF Failed
<1>5. granted' \in [Windows -> Int] /\ \A w \in Windows : granted'[w] <= granted[w]
  BY <1>1, <1>3, <1>4
<1>6. modelCall[c].from = window => granted'[window] = granted[window] - modelCall[c].tokens
  BY <1>1, <1>4
<1>7. NoCall \in [kind: {"none", "chat", "embed"}, tokens: Estimates \cup {0}, from: Windows \cup {Unmetered}]
  BY DEF NoCall
<1> QED
  BY <1>1, <1>2, <1>5, <1>6, <1>7 DEF Failed

\* A call that fails gives its estimate back to the window of now.
LEMMA ChatFailsKeeps == ASSUME QuotaInv, NEW c \in ModelCalls, ChatFails(c) PROVE QuotaInv'
<1> DEFINE tokens == modelCall[c].tokens
<1>1. /\ QuotaTypeOK /\ LimitIsPeak /\ RowsTell /\ QuotaHolds /\ window \in Windows
      /\ UNCHANGED <<limit, window, planChanges, peak>> /\ Failed(c)
      /\ quotaSlips' = quotaSlips \cup (IF Refundable /\ modelCall[c].from # window THEN {"misplaced"} ELSE {})
  BY DEF QuotaInv, ChatFails, QuotaTypeOK
<1>2. /\ granted' \in [Windows -> Int] /\ \A w \in Windows : granted'[w] <= granted[w]
      /\ modelCall' \in [ModelCalls -> [kind: {"none", "chat", "embed"}, tokens: Estimates \cup {0},
                                        from: Windows \cup {Unmetered}]]
      /\ tokens \in Nat
      /\ modelCall[c].from = window => granted'[window] = granted[window] - tokens
  BY <1>1, FailureGives
<1> HIDE DEF tokens
<1>3. /\ ~Refundable => used' = used
      /\ Refundable => used' = [used EXCEPT ![window] = IF used[window] > tokens THEN used[window] - tokens ELSE 0]
  BY DEF ChatFails, tokens
<1>4. Refundable => used[window] \in Nat
  BY <1>1 DEF Refundable, QuotaTypeOK
<1>5. /\ used' \in [Windows -> Nat \cup {NoUsage}]
      /\ \A w \in Windows \ {window} : used'[w] = used[w]
      /\ used[window] = NoUsage <=> used'[window] = NoUsage
      /\ Refundable => used'[window] = IF used[window] > tokens THEN used[window] - tokens ELSE 0
  <2>1. CASE ~Refundable
    BY <1>1, <1>3, <2>1 DEF QuotaTypeOK
  <2>2. CASE Refundable
    <3>1. (IF used[window] > tokens THEN used[window] - tokens ELSE 0) \in Nat
      BY <1>2, <1>4, <2>2
    <3>2. used[window] # NoUsage
      BY <2>2 DEF Refundable
    <3> QED
      BY <1>1, <1>3, <2>2, <3>1, <3>2, QuotaConstants DEF QuotaTypeOK
  <2> QED
    BY <2>1, <2>2
<1>6. quotaSlips \subseteq quotaSlips' /\ quotaSlips' \subseteq QuotaSlips
  BY <1>1 DEF QuotaTypeOK, QuotaSlips
<1>7. QuotaTypeOK' /\ LimitIsPeak'
  BY <1>1, <1>2, <1>5, <1>6 DEF QuotaTypeOK, LimitIsPeak
<1>8. \A w \in Windows : granted[w] \in Int /\ granted'[w] \in Int /\ peak[w] \in Nat /\ w \in Nat
  BY <1>1, <1>2, QuotaConstants DEF QuotaTypeOK
<1>9. RowsTell'
  <2>1. \A w \in Windows : w > window => used'[w] = NoUsage /\ granted'[w] <= 0
    BY <1>1, <1>2, <1>5, <1>8 DEF RowsTell
  <2>2. quotaSlips' = {} /\ used'[window] = NoUsage => granted'[window] <= 0
    BY <1>1, <1>2, <1>5, <1>6, <1>8 DEF RowsTell
  <2> QED
    BY <1>1, <2>1, <2>2 DEF RowsTell
<1>10. ASSUME quotaSlips' = {} PROVE (WithinLimit /\ UsageCounted)'
  <2>1. quotaSlips = {} /\ WithinLimit /\ UsageCounted
    BY <1>1, <1>6, <1>10 DEF QuotaHolds
  <2>2. WithinLimit'
    BY <1>1, <1>2, <1>8, <2>1 DEF WithinLimit
  <2>3. \A w \in Windows \ {window} : used'[w] # NoUsage => used'[w] >= granted'[w]
    BY <1>1, <1>2, <1>5, <1>8, <2>1 DEF UsageCounted, QuotaTypeOK
  <2>4. used'[window] # NoUsage => used'[window] >= granted'[window]
    <3> SUFFICES ASSUME used'[window] # NoUsage PROVE used'[window] >= granted'[window]
      OBVIOUS
    <3>1. used[window] \in Nat /\ used[window] >= granted[window]
      BY <1>1, <1>5, <2>1 DEF UsageCounted, QuotaTypeOK
    <3>2. CASE ~Refundable
      BY <1>1, <1>2, <1>3, <1>8, <2>1, <3>1, <3>2
    <3>3. CASE Refundable
      <4>1. modelCall[c].from = window
        BY <1>1, <1>10, <3>3
      <4> QED
        BY <1>1, <1>2, <1>5, <1>8, <3>1, <3>3, <4>1
    <3> QED
      BY <3>2, <3>3
  <2> QED
    BY <1>1, <2>2, <2>3, <2>4 DEF UsageCounted
<1> QED
  BY <1>7, <1>9, <1>10 DEF QuotaInv, QuotaHolds

\* A call that is lost gives nothing back.
LEMMA CallLostKeeps == ASSUME QuotaInv, NEW c \in ModelCalls, CallLost(c) PROVE QuotaInv'
<1>1. /\ QuotaTypeOK /\ LimitIsPeak /\ RowsTell /\ QuotaHolds /\ window \in Windows
      /\ UNCHANGED <<limit, window, used, planChanges, peak, quotaSlips>> /\ Failed(c)
  BY DEF QuotaInv, CallLost, QuotaTypeOK
<1>2. /\ granted' \in [Windows -> Int] /\ \A w \in Windows : granted'[w] <= granted[w]
      /\ modelCall' \in [ModelCalls -> [kind: {"none", "chat", "embed"}, tokens: Estimates \cup {0},
                                        from: Windows \cup {Unmetered}]]
  BY <1>1, FailureGives
<1>3. \A w \in Windows : /\ granted[w] \in Int /\ granted'[w] \in Int /\ peak[w] \in Nat
                         /\ used[w] # NoUsage => used[w] \in Nat
  BY <1>1, <1>2 DEF QuotaTypeOK
<1>4. QuotaTypeOK' /\ LimitIsPeak'
  BY <1>1, <1>2 DEF QuotaTypeOK, LimitIsPeak
<1>5. RowsTell'
  BY <1>1, <1>2, <1>3 DEF RowsTell
<1>6. QuotaHolds'
  BY <1>1, <1>2, <1>3 DEF QuotaHolds, WithinLimit, UsageCounted
<1> QED
  BY <1>4, <1>5, <1>6 DEF QuotaInv

\* Calls without a limit, calls that are served, and plans leave rows and grants alone.
LEMMA QuotaQuiet ==
  ASSUME QuotaInv, UNCHANGED <<window, used, granted, quotaSlips>>,
         \/ UNCHANGED <<limit, peak, planChanges>>
            /\ \/ \E c \in ModelCalls, kind \in {"chat", "embed"}, tokens \in Estimates : RecordUsage(c, kind, tokens)
               \/ \E c \in ModelCalls : Served(c)
               \/ UNCHANGED modelCall
         \/ UNCHANGED modelCall /\ (ClearLimit \/ \E new \in Limits : SetLimit(new))
  PROVE  QuotaInv'
<1>1. QuotaTypeOK /\ LimitIsPeak /\ RowsTell /\ QuotaHolds
  BY DEF QuotaInv
<1>2. modelCall' \in [ModelCalls -> [kind: {"none", "chat", "embed"}, tokens: Estimates \cup {0},
                                     from: Windows \cup {Unmetered}]]
  BY <1>1 DEF QuotaTypeOK, RecordUsage, Served, NoCall
<1>3. /\ limit' \in Limits \cup {NoLimit} /\ planChanges' \in 0 .. MaxPlanChanges
      /\ peak' \in [Windows -> Nat] /\ \A w \in Windows : peak'[w] >= peak[w]
      /\ limit' # NoLimit => limit' <= peak'[window]
  <2>0. /\ limit \in Limits \cup {NoLimit} /\ planChanges \in 0 .. MaxPlanChanges /\ window \in Windows
        /\ peak \in [Windows -> Nat] /\ (limit # NoLimit => limit <= peak[window]) /\ NoLimit \notin Limits
    <3>1. NoLimit \notin Limits
      <4>1. \A l \in Limits : l \in Int
        BY QuotaConstants
      <4> QED
        BY <4>1, QuotaConstants
    <3> QED
      BY <1>1, <3>1 DEF QuotaTypeOK, LimitIsPeak
  <2>1. CASE UNCHANGED <<limit, peak, planChanges>>
    BY <2>0, <2>1
  <2>2. CASE ClearLimit
    BY <2>0, <2>2, QuotaConstants DEF ClearLimit, ChangePlan
  <2>3. ASSUME NEW new \in Limits, SetLimit(new)
        PROVE  /\ limit' \in Limits \cup {NoLimit} /\ planChanges' \in 0 .. MaxPlanChanges
               /\ peak' \in [Windows -> Nat] /\ \A w \in Windows : peak'[w] >= peak[w]
               /\ limit' # NoLimit => limit' <= peak'[window]
    <3>1. new \in Nat /\ peak[window] \in Nat
      BY <2>0, QuotaConstants
    <3>2. /\ limit' = new /\ planChanges' = planChanges + 1 /\ planChanges < MaxPlanChanges
          /\ peak' = [peak EXCEPT ![window] = IF new > peak[window] THEN new ELSE peak[window]]
      BY <2>3 DEF SetLimit, ChangePlan
    <3>3. peak' \in [Windows -> Nat] /\ \A w \in Windows : peak'[w] >= peak[w]
      BY <2>0, <3>1, <3>2
    <3>4. new <= peak'[window]
      BY <2>0, <3>1, <3>2
    <3>5. planChanges' \in 0 .. MaxPlanChanges
      BY <2>0, <3>2, QuotaConstants
    <3> QED
      BY <3>2, <3>3, <3>4, <3>5
  <2> QED
    BY <2>1, <2>2, <2>3
<1>4. QuotaTypeOK' /\ LimitIsPeak' /\ RowsTell'
  BY <1>1, <1>2, <1>3 DEF QuotaTypeOK, LimitIsPeak, RowsTell
<1>5. \A w \in Windows : granted[w] \in Int /\ peak[w] \in Nat /\ peak'[w] \in Nat
  BY <1>1, <1>3 DEF QuotaTypeOK
<1>6. QuotaHolds'
  BY <1>1, <1>3, <1>5 DEF QuotaHolds, WithinLimit, UsageCounted
<1> QED
  BY <1>4, <1>6 DEF QuotaInv

\* Pruning spares the current row, or is on record.
LEMMA PruneKeeps ==
  ASSUME QuotaInv, NEW cutoff \in {window, window + 1}, PruneUsageBefore(cutoff) PROVE QuotaInv'
<1>1. /\ QuotaTypeOK /\ LimitIsPeak /\ RowsTell /\ QuotaHolds /\ window \in Windows
      /\ UNCHANGED <<limit, window, modelCall, planChanges, granted, peak>>
      /\ used' = [w \in Windows |-> IF Prunable(w, cutoff) THEN NoUsage ELSE used[w]]
      /\ quotaSlips' = quotaSlips \cup
           (IF limit = NoLimit /\ window < cutoff /\ used[window] # NoUsage THEN {"forgotten"} ELSE {})
  BY DEF QuotaInv, PruneUsageBefore, QuotaTypeOK
<1>2. used' \in [Windows -> Nat \cup {NoUsage}] /\ \A w \in Windows : used'[w] # NoUsage => used'[w] = used[w]
  BY <1>1 DEF QuotaTypeOK
<1>3. quotaSlips \subseteq quotaSlips' /\ quotaSlips' \subseteq QuotaSlips
  BY <1>1 DEF QuotaTypeOK, QuotaSlips
<1>4. quotaSlips' = {} => used'[window] = used[window]
  BY <1>1, QuotaConstants DEF Prunable
<1>5. QuotaTypeOK' /\ LimitIsPeak'
  BY <1>1, <1>2, <1>3 DEF QuotaTypeOK, LimitIsPeak
<1>6. RowsTell'
  BY <1>1, <1>2, <1>3, <1>4 DEF RowsTell
<1>7. QuotaHolds'
  BY <1>1, <1>2, <1>3 DEF QuotaHolds, WithinLimit, UsageCounted
<1> QED
  BY <1>5, <1>6, <1>7 DEF QuotaInv

\* A new window starts with no row.
LEMMA NextWindowKeeps == ASSUME QuotaInv, NextWindow PROVE QuotaInv'
<1>1. /\ QuotaTypeOK /\ LimitIsPeak /\ RowsTell /\ QuotaHolds /\ window \in Nat /\ window + 1 \in Windows
      /\ window' = window + 1
      /\ peak' = [peak EXCEPT ![window + 1] = IF limit = NoLimit THEN 0 ELSE limit]
      /\ UNCHANGED <<limit, used, modelCall, planChanges, granted, quotaSlips>>
  BY QuotaConstants DEF QuotaInv, NextWindow, QuotaTypeOK, Windows
<1>2. limit # NoLimit => limit \in Nat
  BY <1>1, QuotaConstants DEF QuotaTypeOK
<1>3. /\ peak' \in [Windows -> Nat] /\ peak'[window + 1] = IF limit = NoLimit THEN 0 ELSE limit
      /\ \A w \in Windows \ {window + 1} : peak'[w] = peak[w]
  BY <1>1, <1>2 DEF QuotaTypeOK
<1>4. QuotaTypeOK' /\ LimitIsPeak'
  BY <1>1, <1>2, <1>3 DEF QuotaTypeOK, LimitIsPeak
<1>5. used[window + 1] = NoUsage /\ granted[window + 1] <= 0 /\ granted[window + 1] \in Int
  BY <1>1 DEF RowsTell, QuotaTypeOK
<1>6. RowsTell'
  BY <1>1, <1>5, QuotaConstants DEF RowsTell
<1>7. granted[window + 1] <= peak'[window + 1]
  BY <1>2, <1>3, <1>5
<1>8. QuotaHolds'
  BY <1>1, <1>3, <1>7 DEF QuotaHolds, WithinLimit, UsageCounted
<1> QED
  BY <1>4, <1>6, <1>8 DEF QuotaInv

\* Every step of the token quota keeps QuotaInv.
THEOREM QuotaInvariant == QuotaSpec => []QuotaInv
<1>1. ASSUME QuotaInv, QuotaNext PROVE QuotaInv'
  <2>1. ASSUME NEW c \in ModelCalls, NEW kind \in {"chat", "embed"}, NEW tokens \in Estimates, RecordUsage(c,
               kind, tokens)
        PROVE  QuotaInv'
    <3>1. UNCHANGED <<window, used, granted, quotaSlips, limit, peak, planChanges>>
      BY <2>1 DEF RecordUsage
    <3> QED
      BY <1>1, <2>1, <3>1, QuotaQuiet
  <2>2. ASSUME NEW c \in ModelCalls, Served(c) PROVE QuotaInv'
    <3>1. UNCHANGED <<window, used, granted, quotaSlips, limit, peak, planChanges>>
      BY <2>2 DEF Served
    <3> QED
      BY <1>1, <2>2, <3>1, QuotaQuiet
  <2>3. CASE ClearLimit \/ \E new \in Limits : SetLimit(new)
    <3>1. UNCHANGED <<window, used, granted, quotaSlips, modelCall>>
      BY <2>3 DEF ClearLimit, SetLimit
    <3> QED
      BY <1>1, <2>3, <3>1, QuotaQuiet
  <2> QED
    BY <1>1, <2>1, <2>2, <2>3, ConsumeKeeps, ChatFailsKeeps, CallLostKeeps, PruneKeeps, NextWindowKeeps DEF QuotaNext
<1>2. ASSUME QuotaInv, UNCHANGED quotaVars PROVE QuotaInv'
  <2>1. UNCHANGED <<window, used, granted, quotaSlips, limit, peak, planChanges, modelCall>>
    BY <1>2 DEF quotaVars
  <2> QED
    BY <1>2, <2>1, QuotaQuiet
<1> QED
  BY <1>1, <1>2, QuotaStart, PTL DEF QuotaSpec

\* What a window lets through stays within the largest limit that was in force in it, and
\* its row counts it (quota-manager.ts), but for the two slips that the property names.
THEOREM QuotaLimitHolds == QuotaSpec => []QuotaHolds
<1>1. QuotaInv => QuotaHolds
  BY DEF QuotaInv
<1> QED
  BY <1>1, QuotaInvariant, PTL
-----------------------------------------------------------------------------
(* The earning cycle *)

\* What the persona may yet win, or has won and not delivered.
Awaited == {g \in Gigs : IsOpen(g) /\ bid[g] = "submitted"}
Exposed == (Accepted \ before) \cup Awaited
Taken == Accepted \cup Awaited
Exposure == SumFunctionOnSet(GigReward, Exposed)

CapWatched == earnSlips \cap {"pending", "unseen", "overrun", "half"} = {}

\* A cycle that nobody overran is alone; it counts with what the persona is exposed to, and
\* is about to apply only for what still fits.
CycleSound(c) ==
    Running(c) =>
        /\ "overrun" \notin earnSlips => \A d \in Cycles : Running(d) => d = c
        /\ CapWatched => Exposure <= cycle[c].stake
        /\ earnSlips = {} => Cardinality(Taken) <= cycle[c].inFlight + cycle[c].won
        /\ cycle[c].applying =>
              /\ cycle[c].todo # <<>> /\ cycle[c].inFlight < MaxOpenGigs
              /\ cycle[c].stake + GigReward[Head(cycle[c].todo)] <= cap

ExposureKept ==
    /\ CapWatched => Exposure <= cap
    /\ earnSlips = {} => Cardinality(Taken) <= MaxOpenGigs

BidsArePublished == \A g \in Gigs : bid[g] # "none" => gig[g] # "unpublished"

EarningInv ==
    EarningTypeOK /\ BidsArePublished /\ ExposureKept /\ \A c \in Cycles : CycleSound(c)

CycleRecord == [token: 0 .. MaxCycles, todo: Seq(Gigs), stake: Nat, inFlight: Nat,
                applying: BOOLEAN, won: {0, 1}]
Reward(T) == SumFunctionOnSet(GigReward, T)

\* What is counted is finite, and counts more the more there is.
LEMMA EarningCounts ==
  /\ \A T \in SUBSET Gigs : /\ IsFiniteSet(T) /\ Cardinality(T) \in Nat /\ Reward(T) \in Nat
                            /\ \A U \in SUBSET T : Cardinality(U) <= Cardinality(T) /\ Reward(U) <= Reward(T)
  /\ \A T \in SUBSET Gigs, g \in Gigs : g \notin T =>
        /\ Cardinality(T \cup {g}) = Cardinality(T) + 1
        /\ Reward(T \cup {g}) = Reward(T) + GigReward[g]
  /\ Cardinality({}) = 0 /\ Reward({}) = 0
<1>0. IsFiniteSet(Gigs) /\ \A g \in Gigs : GigReward[g] \in Nat
  BY EarningAssumption
<1>1. \A T \in SUBSET Gigs : IsFiniteSet(T) /\ \A g \in T : GigReward[g] \in Nat
  BY <1>0, FS_Subset
<1>2. ASSUME NEW T \in SUBSET Gigs
      PROVE  /\ IsFiniteSet(T) /\ Cardinality(T) \in Nat /\ Reward(T) \in Nat
             /\ \A U \in SUBSET T : Cardinality(U) <= Cardinality(T) /\ Reward(U) <= Reward(T)
  BY <1>1, SumMonotone, FS_CardinalityType, FS_Subset DEF Reward
<1>3. ASSUME NEW T \in SUBSET Gigs, NEW g \in Gigs, g \notin T
      PROVE  Cardinality(T \cup {g}) = Cardinality(T) + 1 /\ Reward(T \cup {g}) = Reward(T) + GigReward[g]
  <2>1. Cardinality(T \cup {g}) = Cardinality(T) + 1
    BY <1>1, <1>3, FS_AddElement
  <2>2. Reward(T \cup {g}) = Reward(T) + GigReward[g]
    BY <1>0, <1>1, <1>3, SumOneMore DEF Reward
  <2> QED
    BY <2>1, <2>2
<1> QED
  BY <1>2, <1>3, FS_EmptySet, SumOfNothing DEF Reward

\* What the proofs use of the constants' assumptions.
LEMMA EarningConstants ==
  /\ Caps \subseteq Nat /\ MaxOpenGigs \in Nat /\ MaxCycles \in Nat /\ MaxCycles <= MaxTokens
  /\ GigReward \in [Gigs -> Nat \ {0}] /\ Ttl \in Nat /\ MaxTokens \in Nat
  BY EarningAssumption, LeaseAssumption

\* Nothing is published, and no cycle has begun.
LEMMA EarningStart == EarningInit => EarningInv
<1> SUFFICES ASSUME EarningInit PROVE EarningInv
  OBVIOUS
<1>1. Accepted = {} /\ Awaited = {} /\ Published = {}
  BY DEF EarningInit, Accepted, Awaited, IsOpen, Published
<1>2. EarningTypeOK
  <2>1. IdleCycle \in CycleRecord /\ NoRow \in Row
    BY EarningConstants DEF IdleCycle, CycleRecord, NoToken, NoRow, Row
  <2> QED
    BY <1>1, <2>1, EarningConstants DEF EarningInit, EarningTypeOK, CycleRecord, GigStatus, EarnSlips
<1>3. Exposed = {} /\ Taken = {}
  BY <1>1 DEF Exposed, Taken
<1>4. ExposureKept
  <2>1. Exposure = 0 /\ Cardinality(Taken) = 0
    BY <1>3, EarningCounts DEF Exposure, Reward
  <2> QED
    BY <1>2, <2>1, EarningConstants DEF ExposureKept, EarningTypeOK
<1>5. \A c \in Cycles : ~Running(c)
  BY DEF EarningInit, Running, IdleCycle
<1> QED
  BY <1>2, <1>4, <1>5 DEF EarningInv, CycleSound, BidsArePublished, EarningInit
-----------------------------------------------------------------------------
\* What the invariant needs of the sets in a state, and of the next ones.
LEMMA EarningSets ==
  ASSUME EarningInv
  PROVE  /\ Exposed \in SUBSET Gigs /\ Taken \in SUBSET Gigs
         /\ Exposure \in Nat /\ Cardinality(Taken) \in Nat /\ Exposure = Reward(Exposed)
         /\ cap \in Nat /\ cycle \in [Cycles -> CycleRecord]
         /\ earnSlips \subseteq EarnSlips /\ cycles \in 0 .. MaxCycles
<1>1. Exposed \in SUBSET Gigs /\ Taken \in SUBSET Gigs
  BY DEF Exposed, Taken, Accepted, Awaited
<1>2. cap \in Nat /\ cycle \in [Cycles -> CycleRecord] /\ earnSlips \subseteq EarnSlips
      /\ cycles \in 0 .. MaxCycles
  BY EarningConstants DEF EarningInv, EarningTypeOK, CycleRecord
<1> QED
  BY <1>1, <1>2, EarningCounts DEF Exposure, Reward

\* A step that exposes the persona to nothing new, and lets no cycle count less.
LEMMA ShrinkKeeps ==
  ASSUME EarningInv, EarningTypeOK', BidsArePublished', Exposed' \subseteq Exposed, Taken' \subseteq Taken,
         cap' = cap, earnSlips \subseteq earnSlips',
         \A c \in Cycles : Running(c)' =>
             /\ Running(c)
             /\ cycle'[c].stake = cycle[c].stake /\ cycle'[c].inFlight = cycle[c].inFlight
             /\ cycle'[c].won = cycle[c].won
             /\ cycle'[c].applying =>
                   /\ cycle'[c].todo # <<>> /\ cycle[c].inFlight < MaxOpenGigs
                   /\ cycle[c].stake + GigReward[Head(cycle'[c].todo)] <= cap
  PROVE  EarningInv'
<1>1. Exposure' \in Nat /\ Exposure' <= Exposure /\ Cardinality(Taken)' \in Nat
      /\ Cardinality(Taken)' <= Cardinality(Taken)
  <2>1. Exposed \in SUBSET Gigs /\ Taken \in SUBSET Gigs /\ Exposed' \in SUBSET Exposed
        /\ Taken' \in SUBSET Taken
    BY EarningSets
  <2>2. Reward(Exposed') <= Reward(Exposed) /\ Reward(Exposed') \in Nat
        /\ Cardinality(Taken') <= Cardinality(Taken) /\ Cardinality(Taken') \in Nat
    BY <2>1, EarningCounts
  <2> QED
    BY <2>2 DEF Exposure, Reward
<1>2. /\ Exposure \in Nat /\ Cardinality(Taken) \in Nat /\ cap \in Nat /\ MaxOpenGigs \in Nat
      /\ \A c \in Cycles : cycle[c].stake \in Nat /\ cycle[c].inFlight \in Nat /\ cycle[c].won \in Nat
  BY EarningSets, EarningConstants DEF CycleRecord
<1>3. (CapWatched' => CapWatched) /\ (earnSlips' = {} => earnSlips = {})
  BY DEF CapWatched
<1>4. ExposureKept'
  BY <1>1, <1>2, <1>3 DEF EarningInv, ExposureKept
<1>5. ASSUME NEW c \in Cycles, Running(c)' PROVE CycleSound(c)'
  <2>1. CycleSound(c) /\ Running(c)
    BY <1>5 DEF EarningInv
  <2>2. "overrun" \notin earnSlips' => \A d \in Cycles : Running(d)' => d = c
    BY <2>1 DEF CycleSound
  <2>3. CapWatched' => Exposure' <= cycle'[c].stake
    BY <1>1, <1>2, <1>3, <1>5, <2>1 DEF CycleSound
  <2>4. earnSlips' = {} => Cardinality(Taken)' <= cycle'[c].inFlight + cycle'[c].won
    BY <1>1, <1>2, <1>3, <1>5, <2>1 DEF CycleSound
  <2>5. cycle'[c].applying =>
              /\ cycle'[c].todo # <<>> /\ cycle'[c].inFlight < MaxOpenGigs
              /\ cycle'[c].stake + GigReward[Head(cycle'[c].todo)] <= cap'
    BY <1>5
  <2> QED
    BY <2>2, <2>3, <2>4, <2>5 DEF CycleSound
<1> QED
  BY <1>4, <1>5 DEF EarningInv, CycleSound

\* A task that publishers act on: it leaves the persona's exposure, or it was in it.
LEMMA MarketKeeps == ASSUME EarningInv, MarketStep PROVE EarningInv'
<1>1. PICK g \in Gigs : \/ PublishGig(g) \/ AssignGig(g) \/ TakenElsewhere(g) \/ CompleteGig(g) \/ RejectGig(g)
  BY DEF MarketStep
<1>2. PICK from \in GigStatus, to \in GigStatus :
        /\ Turns(g, from, to) /\ to # "unpublished"
        /\ \/ from = "unpublished" /\ to = "open" /\ UNCHANGED <<bid, before>>
           \/ /\ from = "open" /\ to = "accepted" /\ bid[g] = "submitted" /\ before' = before \ {g}
              /\ bid' = [bid EXCEPT ![g] = "assigned"]
           \/ to \in {"elsewhere", "completed"} /\ UNCHANGED <<bid, before>>
           \/ to = "open" /\ bid' = [bid EXCEPT ![g] = "rejected"] /\ UNCHANGED before
  BY <1>1 DEF GigStatus, PublishGig, AssignGig, TakenElsewhere, CompleteGig, RejectGig
<1>3. /\ EarningTypeOK /\ BidsArePublished /\ UNCHANGED <<cap, own, earnLease, cycles, cycle, earnSlips>>
      /\ gig[g] = from /\ gig' = [gig EXCEPT ![g] = to] /\ updated' = Touched(g)
  BY <1>2 DEF EarningInv, MarketStep, Turns, persona
<1>4. /\ gig' \in [Gigs -> GigStatus] /\ bid' \in [Gigs -> {"none", "submitted", "assigned", "rejected"}]
      /\ before' \subseteq Gigs
      /\ gig'[g] = to /\ \A h \in Gigs \ {g} : gig'[h] = gig[h] /\ bid'[h] = bid[h]
  BY <1>2, <1>3 DEF EarningTypeOK
<1>5. Published' = Published \cup {g}
  BY <1>2, <1>4 DEF Published
<1>6. EarningTypeOK'
  <2>1. updated \subseteq Published \X Published
        /\ \A h, k \in Published : h # k => (<<h, k>> \in updated <=> <<k, h>> \notin updated)
    BY <1>3 DEF EarningTypeOK
  <2>2. updated' = {pair \in updated : pair[2] # g} \cup ({g} \X (Published \ {g}))
    BY <1>3 DEF Touched
  <2>3. updated' \subseteq Published' \X Published'
    BY <1>5, <2>1, <2>2
  <2>4. ASSUME NEW h \in Published', NEW k \in Published', h # k
        PROVE  <<h, k>> \in updated' <=> <<k, h>> \notin updated'
    <3>1. \A a, b : <<a, b>> \in updated' <=> (<<a, b>> \in updated /\ b # g) \/ (a = g
          /\ b \in Published \ {g})
      BY <2>2
    <3>2. CASE h = g
      BY <1>5, <2>4, <3>1, <3>2
    <3>3. CASE k = g
      BY <1>5, <2>4, <3>1, <3>3
    <3>4. CASE h # g /\ k # g
      BY <1>5, <2>1, <2>4, <3>1, <3>4
    <3> QED
      BY <3>2, <3>3, <3>4
  <2> QED
    BY <1>3, <1>4, <2>3, <2>4 DEF EarningTypeOK
<1>7. BidsArePublished'
  BY <1>2, <1>3, <1>4 DEF BidsArePublished
<1>8. Exposed' \subseteq Exposed /\ Taken' \subseteq Taken
  <2>1. bid \in [Gigs -> {"none", "submitted", "assigned", "rejected"}]
    BY <1>3 DEF EarningTypeOK
  <2> QED
    BY <1>2, <1>3, <1>4, <2>1 DEF Exposed, Taken, Accepted, Awaited, IsOpen, BidsArePublished
<1>9. \A c \in Cycles : CycleSound(c)
  BY DEF EarningInv
<1> QED
  BY <1>3, <1>6, <1>7, <1>8, <1>9, ShrinkKeeps DEF Running, CycleSound

\* After a day an acceptance no longer counts for the cap.
LEMMA DayKeeps == ASSUME EarningInv, DayPasses PROVE EarningInv'
<1>1. /\ EarningTypeOK /\ BidsArePublished /\ before' = before \cup Accepted
      /\ UNCHANGED <<cap, own, gig, updated, bid, earnLease, cycles, cycle, earnSlips>>
  BY DEF EarningInv, DayPasses, persona
<1>2. EarningTypeOK' /\ BidsArePublished'
  BY <1>1 DEF EarningTypeOK, BidsArePublished, Accepted, Published
<1>3. Exposed' \subseteq Exposed /\ Taken' \subseteq Taken
  BY <1>1 DEF Exposed, Taken, Accepted, Awaited, IsOpen
<1>4. \A c \in Cycles : CycleSound(c)
  BY DEF EarningInv
<1> QED
  BY <1>1, <1>2, <1>3, <1>4, ShrinkKeeps DEF Running, CycleSound

\* Steps of a cycle that neither apply nor begin: it decides, drops a task, ends or dies.
LEMMA CycleMoves ==
  ASSUME EarningInv, NEW c \in Cycles, NEW s \in CycleRecord, cycle' = [cycle EXCEPT ![c] = s],
         UNCHANGED <<market, cycles, earnSlips>>, earnLease' \in Row,
         \/ s.token = NoToken
         \/ /\ Running(c) /\ s.stake = cycle[c].stake /\ s.inFlight = cycle[c].inFlight /\ s.won = cycle[c].won
            /\ s.applying => /\ s.todo # <<>> /\ s.inFlight < MaxOpenGigs
                             /\ s.stake + GigReward[Head(s.todo)] <= cap
  PROVE  EarningInv'
<1>1. EarningTypeOK /\ BidsArePublished /\ UNCHANGED <<cap, own, gig, updated, bid, before>>
  BY DEF EarningInv, market, persona
<1>2. /\ cycle \in [Cycles -> CycleRecord] /\ cycle' \in [Cycles -> CycleRecord]
      /\ cycle'[c] = s /\ \A d \in Cycles \ {c} : cycle'[d] = cycle[d]
  BY EarningSets
<1>3. EarningTypeOK' /\ BidsArePublished'
  BY <1>1, <1>2 DEF EarningTypeOK, BidsArePublished, Published, CycleRecord
<1>4. Exposed' = Exposed /\ Taken' = Taken
  BY <1>1 DEF Exposed, Taken, Accepted, Awaited, IsOpen
<1>5. \A d \in Cycles : CycleSound(d)
  BY DEF EarningInv
<1>6. ASSUME NEW d \in Cycles, Running(d)'
      PROVE  /\ Running(d)
             /\ cycle'[d].stake = cycle[d].stake /\ cycle'[d].inFlight = cycle[d].inFlight
             /\ cycle'[d].won = cycle[d].won
             /\ cycle'[d].applying =>
                   /\ cycle'[d].todo # <<>> /\ cycle[d].inFlight < MaxOpenGigs
                   /\ cycle[d].stake + GigReward[Head(cycle'[d].todo)] <= cap
  <2>1. CASE d = c
    BY <1>2, <1>6, <2>1 DEF Running
  <2>2. CASE d # c
    BY <1>2, <1>5, <1>6, <2>2 DEF Running, CycleSound
  <2> QED
    BY <2>1, <2>2
<1> QED
  BY <1>1, <1>3, <1>4, <1>6, ShrinkKeeps

\* The list of a cycle without its first task.
LEMMA DropType ==
  ASSUME NEW s \in CycleRecord, s.todo # <<>>
  PROVE  Head(s.todo) \in Gigs /\ [s EXCEPT !.todo = Tail(@), !.applying = FALSE] \in CycleRecord
<1>1. s.todo \in Seq(Gigs)
  BY DEF CycleRecord
<1>2. Head(s.todo) \in Gigs /\ Tail(s.todo) \in Seq(Gigs)
  BY <1>1
<1> QED
  BY <1>2 DEF CycleRecord

\* What an application does to the persona's exposure, whoever makes it.
LEMMA BidExposes ==
  ASSUME EarningInv, NEW g \in Gigs, Bid(g)
  PROVE  /\ Exposure' = Exposure + GigReward[g] /\ Cardinality(Taken)' = Cardinality(Taken) + 1
         /\ Published' = Published
         /\ bid' \in [Gigs -> {"none", "submitted", "assigned", "rejected"}] /\ BidsArePublished'
<1>1. /\ EarningTypeOK /\ BidsArePublished /\ UNCHANGED <<gig, before, cap, own>> /\ gig[g] = "open"
      /\ bid[g] = "none"
      /\ bid' = [bid EXCEPT ![g] = "submitted"]
      /\ bid \in [Gigs -> {"none", "submitted", "assigned", "rejected"}]
  BY DEF EarningInv, Bid, IsOpen, persona, EarningTypeOK
<1>2. /\ Exposed' = Exposed \cup {g} /\ g \notin Exposed
      /\ Taken' = Taken \cup {g} /\ g \notin Taken
  BY <1>1 DEF Exposed, Taken, Accepted, Awaited, IsOpen
<1>3. Exposed \in SUBSET Gigs /\ Taken \in SUBSET Gigs /\ Exposure = Reward(Exposed)
  BY EarningSets
<1>4. Reward(Exposed \cup {g}) = Reward(Exposed) + GigReward[g]
      /\ Cardinality(Taken \cup {g}) = Cardinality(Taken) + 1
  BY <1>2, <1>3, EarningCounts
<1>5. Exposure' = Reward(Exposed \cup {g}) /\ Cardinality(Taken)' = Cardinality(Taken \cup {g})
  BY <1>2, Zenon DEF Exposure, Reward
<1>6. Published' = Published /\ BidsArePublished'
  BY <1>1 DEF Published, BidsArePublished
<1> QED
  BY <1>1, <1>3, <1>4, <1>5, <1>6

\* An application fits what the cycle has counted, and is counted, or is on record.
LEMMA ApplyKeeps ==
  ASSUME EarningInv, NEW c \in Cycles, ApplyViaPipeline(c) \/ ApplyHalf(c) PROVE EarningInv'
<1>1. PICK s \in CycleRecord : s = cycle[c]
  BY EarningSets
<1> DEFINE g == Head(s.todo)
<1>2. /\ EarningTypeOK /\ BidsArePublished /\ ExposureKept /\ CycleSound(c) /\ Running(c)
      /\ s.todo # <<>> /\ s.applying /\ Bid(g) /\ UNCHANGED <<earnLease, cycles>>
      /\ earnSlips \subseteq earnSlips'
      /\ UNCHANGED <<cap, own, gig, updated, before>>
  BY <1>1 DEF EarningInv, ApplyViaPipeline, ApplyHalf, Works, Bid, persona
<1>3. g \in Gigs /\ s.stake \in Nat /\ s.inFlight \in Nat /\ s.won \in {0, 1} /\ GigReward[g] \in Nat
  BY <1>2, DropType, EarningConstants DEF CycleRecord
<1>4. PICK d \in CycleRecord : d = [s EXCEPT !.todo = Tail(@), !.applying = FALSE]
  BY <1>2, DropType
<1>5. d = Drop(c) /\ d.stake = s.stake /\ d.inFlight = s.inFlight /\ d.won = s.won /\ d.applying = FALSE
      /\ d.token = s.token
  BY <1>1, <1>4 DEF Drop, CycleRecord
<1> HIDE DEF g
<1>6. /\ Exposure' = Exposure + GigReward[g] /\ Cardinality(Taken)' = Cardinality(Taken) + 1
      /\ Published' = Published
      /\ bid' \in [Gigs -> {"none", "submitted", "assigned", "rejected"}] /\ BidsArePublished'
      /\ Exposure \in Nat /\ Cardinality(Taken) \in Nat /\ cap \in Nat
  BY <1>2, <1>3, BidExposes, EarningSets
<1>7. s.inFlight < MaxOpenGigs /\ s.stake + GigReward[g] <= cap
  BY <1>1, <1>2 DEF CycleSound, g
<1>8. \E n \in CycleRecord :
        /\ cycle' = [cycle EXCEPT ![c] = n] /\ n.token = s.token /\ n.applying = FALSE
        /\ n.inFlight = s.inFlight
        /\ \/ n.stake = s.stake + GigReward[g] /\ n.won = 1 /\ (s.won # 0 => "batch" \in earnSlips')
           \/ n.stake = s.stake /\ n.won = s.won /\ "half" \in earnSlips'
        /\ earnSlips' \subseteq EarnSlips
  <2>0. earnSlips \subseteq EarnSlips
    BY EarningSets
  <2>1. CASE ApplyViaPipeline(c)
    <3>0. s.stake + GigReward[g] \in Nat /\ d.stake = s.stake
      BY <1>3, <1>5
    <3>1. PICK n \in CycleRecord : n = [d EXCEPT !.stake = @ + GigReward[g], !.won = 1]
      <4>1. [d EXCEPT !.stake = s.stake + GigReward[g], !.won = 1] \in CycleRecord
        BY <1>4, <3>0 DEF CycleRecord
      <4>2. [d EXCEPT !.stake = @ + GigReward[g], !.won = 1] = [d EXCEPT !.stake = s.stake + GigReward[g],
            !.won = 1]
        BY <3>0
      <4> QED
        BY <4>1, <4>2
    <3>2. n.token = s.token /\ n.applying = FALSE /\ n.inFlight = s.inFlight
          /\ n.stake = s.stake + GigReward[g] /\ n.won = 1
      BY <1>5, <3>1 DEF CycleRecord
    <3>3. cycle' = [cycle EXCEPT ![c] = n]
      BY <1>1, <1>5, <2>1, <3>1 DEF ApplyViaPipeline, g
    <3>4. (s.won # 0 => "batch" \in earnSlips') /\ earnSlips' \subseteq EarnSlips
      BY <1>1, <1>3, <2>0, <2>1 DEF ApplyViaPipeline, EarnSlips
    <3> QED
      BY <3>2, <3>3, <3>4
  <2>2. CASE ApplyHalf(c)
    <3>1. cycle' = [cycle EXCEPT ![c] = d] /\ earnSlips' = earnSlips \cup {"half"}
      BY <1>5, <2>2 DEF ApplyHalf
    <3> QED
      BY <1>5, <2>0, <3>1 DEF EarnSlips
  <2> QED
    BY <1>2, <2>1, <2>2
<1>9. PICK n \in CycleRecord :
        /\ cycle' = [cycle EXCEPT ![c] = n] /\ n.token = s.token /\ n.applying = FALSE
        /\ n.inFlight = s.inFlight
        /\ \/ n.stake = s.stake + GigReward[g] /\ n.won = 1 /\ (s.won # 0 => "batch" \in earnSlips')
           \/ n.stake = s.stake /\ n.won = s.won /\ "half" \in earnSlips'
        /\ earnSlips' \subseteq EarnSlips
  BY <1>8
<1>10. /\ cycle \in [Cycles -> CycleRecord] /\ cycle' \in [Cycles -> CycleRecord]
       /\ cycle'[c] = n /\ \A e \in Cycles \ {c} : cycle'[e] = cycle[e]
  BY <1>9, EarningSets
<1>11. EarningTypeOK'
  BY <1>2, <1>6, <1>9, <1>10 DEF EarningTypeOK, CycleRecord
<1>12. (CapWatched' => CapWatched) /\ (earnSlips' = {} => earnSlips = {} /\ CapWatched')
  BY <1>2 DEF CapWatched
<1>13. ASSUME CapWatched' PROVE Exposure' <= n.stake /\ Exposure' <= cap /\ n.stake = s.stake + GigReward[g]
  <2>1. Exposure <= s.stake
    BY <1>1, <1>2, <1>12, <1>13 DEF CycleSound
  <2>2. n.stake = s.stake + GigReward[g]
    BY <1>9, <1>13 DEF CapWatched
  <2> QED
    BY <1>3, <1>6, <1>7, <2>1, <2>2
<1>14. ASSUME earnSlips' = {}
       PROVE  Cardinality(Taken)' <= n.inFlight + n.won /\ Cardinality(Taken)' <= MaxOpenGigs
  <2>1. Cardinality(Taken) <= s.inFlight + s.won
    BY <1>1, <1>2, <1>12, <1>14 DEF CycleSound
  <2>2. s.won = 0 /\ n.won = 1
    BY <1>9, <1>14
  <2> QED
    BY <1>3, <1>6, <1>7, <1>9, <2>1, <2>2, EarningConstants
<1>15. ExposureKept'
  BY <1>2, <1>13, <1>14 DEF ExposureKept
<1>16. ASSUME NEW e \in Cycles, Running(e)' PROVE CycleSound(e)'
  <2>1. Running(e) /\ CycleSound(e)
    BY <1>1, <1>2, <1>9, <1>10, <1>16 DEF Running, EarningInv
  <2>2. \A f \in Cycles : Running(f)' => Running(f)
    BY <1>1, <1>2, <1>9, <1>10 DEF Running
  <2>3. CASE e = c
    <3>1. cycle'[e] = n
      BY <1>10, <2>3
    <3>2. "overrun" \notin earnSlips' => \A f \in Cycles : Running(f)' => f = e
      BY <1>2, <2>1, <2>2 DEF CycleSound
    <3> QED
      BY <1>9, <1>13, <1>14, <3>1, <3>2 DEF CycleSound
  <2>4. CASE e # c
    <3>1. "overrun" \in earnSlips /\ "overrun" \in earnSlips'
      BY <1>2, <2>1, <2>4 DEF CycleSound
    <3>2. ~CapWatched' /\ earnSlips' # {}
      BY <3>1 DEF CapWatched
    <3>3. cycle'[e] = cycle[e]
      BY <1>10, <2>4
    <3> QED
      BY <1>2, <2>1, <3>1, <3>2, <3>3 DEF CycleSound
  <2> QED
    BY <2>3, <2>4
<1> QED
  BY <1>6, <1>11, <1>15, <1>16 DEF EarningInv, CycleSound

\* A cycle that begins reads all that the persona is exposed to, or it is on record what
\* it missed; and it is alone, or another one outlived its lease.
LEMMA BeginKeeps == ASSUME EarningInv, NEW c \in Cycles, BeginCycle(c) PROVE EarningInv'
<1> DEFINE known == Accepted \cap Recent
<1>1. /\ EarningTypeOK /\ BidsArePublished /\ ExposureKept /\ ~Running(c) /\ earnSlips \subseteq earnSlips'
      /\ cycles < MaxCycles /\ cycles' = cycles + 1 /\ earnLease' = Granted(cycles + 1) /\ earnLease.left = 0
      /\ UNCHANGED <<cap, own, gig, updated, bid, before>>
  BY DEF EarningInv, BeginCycle, market, persona, HasLease, Grantable
<1>2. PICK rows \in [1 .. Cardinality(FirstOpen) -> FirstOpen] :
        cycle' = [cycle EXCEPT ![c] = [token |-> cycles + 1, todo |-> rows, stake |-> Stake(known),
                                       inFlight |-> Cardinality(known), applying |-> FALSE, won |-> 0]]
  BY DEF BeginCycle
<1>3. known \in SUBSET Gigs /\ known \ before \in SUBSET Gigs /\ FirstOpen \in SUBSET Gigs
  BY DEF Accepted, FirstOpen, Newest, Published
<1>4. Stake(known) = Reward(known \ before)
  BY DEF Stake, Reward
<1> HIDE DEF known
<1>5. Cardinality(known) \in Nat /\ Stake(known) \in Nat /\ Cardinality(FirstOpen) \in Nat
  BY <1>3, <1>4, EarningCounts
<1>6. rows \in Seq(Gigs)
  BY <1>2, <1>3, <1>5
<1>7. cycles + 1 \in 1 .. MaxCycles /\ cycles + 1 \in 0 .. MaxCycles
  BY <1>1, EarningSets, EarningConstants
<1>8. PICK n \in CycleRecord : n = [token |-> cycles + 1, todo |-> rows, stake |-> Stake(known),
                                    inFlight |-> Cardinality(known), applying |-> FALSE, won |-> 0]
  BY <1>5, <1>6, <1>7 DEF CycleRecord
<1>9. /\ cycle' = [cycle EXCEPT ![c] = n] /\ n.token = cycles + 1 /\ n.stake = Stake(known)
      /\ n.inFlight = Cardinality(known) /\ n.applying = FALSE /\ n.won = 0
  BY <1>2, <1>8
<1>10. /\ cycle \in [Cycles -> CycleRecord] /\ cycle' \in [Cycles -> CycleRecord]
       /\ cycle'[c] = n /\ \A e \in Cycles \ {c} : cycle'[e] = cycle[e]
  BY <1>9, EarningSets
<1>11. /\ (\E g \in Gigs : IsOpen(g) /\ bid[g] = "submitted") => "pending" \in earnSlips'
       /\ ~(Accepted \subseteq Recent) => "unseen" \in earnSlips'
       /\ (\E d \in Cycles : Running(d)) => "overrun" \in earnSlips'
       /\ earnSlips' \subseteq EarnSlips
  <2>1. earnSlips \subseteq EarnSlips
    BY EarningSets
  <2> QED
    BY <1>1, <2>1 DEF BeginCycle, EarnSlips
<1>12. earnLease' \in Row
  BY <1>1, <1>7, EarningConstants DEF Granted, Row, Token
<1>13. EarningTypeOK' /\ BidsArePublished'
  BY <1>1, <1>7, <1>10, <1>11, <1>12 DEF EarningTypeOK, CycleRecord, Published, BidsArePublished
<1>14. Exposed' = Exposed /\ Taken' = Taken
  BY <1>1 DEF Exposed, Taken, Accepted, Awaited, IsOpen
<1>15. Exposure' = Exposure /\ Cardinality(Taken)' = Cardinality(Taken)
  BY <1>14, Zenon DEF Exposure
<1>16. (CapWatched' => CapWatched) /\ (earnSlips' = {} => earnSlips = {})
  BY <1>1 DEF CapWatched
<1>17. ExposureKept'
  BY <1>1, <1>15, <1>16 DEF ExposureKept
<1>18. ASSUME NEW e \in Cycles, Running(e)' PROVE CycleSound(e)'
  <2>1. CASE e = c
    <3>1. "overrun" \notin earnSlips' => \A f \in Cycles : Running(f)' => f = e
      BY <1>10, <1>11, <2>1 DEF Running
    <3>2. ASSUME "pending" \notin earnSlips', "unseen" \notin earnSlips'
          PROVE  Exposed = known \ before /\ Taken = known
      BY <1>11, <3>2 DEF Exposed, Taken, Awaited, known
    <3>3. CapWatched' => Exposure' <= n.stake
      <4> SUFFICES ASSUME CapWatched' PROVE Exposure' <= n.stake
        OBVIOUS
      <4>1. Exposed = known \ before
        BY <3>2 DEF CapWatched
      <4>2. Exposure = Stake(known)
        BY <1>4, <4>1, Zenon DEF Exposure, Reward
      <4> QED
        BY <1>5, <1>9, <1>15, <4>2
    <3>4. earnSlips' = {} => Cardinality(Taken)' <= n.inFlight + n.won
      <4> SUFFICES ASSUME earnSlips' = {} PROVE Cardinality(Taken)' <= n.inFlight + n.won
        OBVIOUS
      <4>1. Taken = known
        BY <3>2
      <4>2. Cardinality(Taken) = Cardinality(known)
        BY <4>1, Zenon
      <4> QED
        BY <1>5, <1>9, <1>15, <4>2
    <3>5. cycle'[e] = n
      BY <1>10, <2>1
    <3> QED
      BY <1>9, <3>1, <3>3, <3>4, <3>5 DEF CycleSound
  <2>2. CASE e # c
    <3>1. Running(e) /\ CycleSound(e) /\ cycle'[e] = cycle[e]
      BY <1>10, <1>18, <2>2 DEF Running, EarningInv
    <3>2. "overrun" \in earnSlips'
      BY <1>11, <3>1
    <3>3. ~CapWatched' /\ earnSlips' # {}
      BY <3>2 DEF CapWatched
    <3> QED
      BY <1>1, <3>1, <3>2, <3>3 DEF CycleSound
  <2> QED
    BY <2>1, <2>2
<1> QED
  BY <1>13, <1>17, <1>18 DEF EarningInv, CycleSound

\* The other steps of a cycle.
LEMMA CycleStepKeeps ==
  ASSUME EarningInv, NEW c \in Cycles,
         Decline(c) \/ DecideAccept(c) \/ ApplyRefused(c) \/ EndCycle(c) \/ CycleDies(c)
  PROVE  EarningInv'
<1>1. PICK s \in CycleRecord : s = cycle[c]
  BY EarningSets
<1>2. earnLease \in Row /\ CycleSound(c) /\ Running(c) /\ NoRow \in Row
  <2>1. NoRow \in Row
    BY EarningConstants DEF NoRow, Row
  <2> QED
    BY <2>1 DEF EarningInv, EarningTypeOK, Decline, DecideAccept, ApplyRefused, EndCycle, CycleDies, Works
<1>3. CASE Decline(c) \/ ApplyRefused(c)
  <2>1. s.todo # <<>>
    BY <1>1, <1>3 DEF Decline, ApplyRefused, Works
  <2>2. PICK d \in CycleRecord : d = [s EXCEPT !.todo = Tail(@), !.applying = FALSE]
    BY <2>1, DropType
  <2>3. cycle' = [cycle EXCEPT ![c] = d] /\ UNCHANGED <<market, earnLease, cycles, earnSlips>>
    BY <1>1, <1>3, <2>2 DEF Decline, ApplyRefused, Drop
  <2>4. d.stake = s.stake /\ d.inFlight = s.inFlight /\ d.won = s.won /\ d.applying = FALSE
    BY <2>2 DEF CycleRecord
  <2> QED
    BY <1>1, <1>2, <2>3, <2>4, CycleMoves
<1>4. CASE DecideAccept(c)
  <2>1. PICK d \in CycleRecord : d = [s EXCEPT !.applying = TRUE]
    BY DEF CycleRecord
  <2>2. cycle' = [cycle EXCEPT ![c] = d] /\ UNCHANGED <<market, earnLease, cycles, earnSlips>>
    BY <1>1, <1>4, <2>1 DEF DecideAccept
  <2>3. d.stake = s.stake /\ d.inFlight = s.inFlight /\ d.won = s.won /\ d.todo = s.todo
    BY <2>1 DEF CycleRecord
  <2>4. s.todo # <<>> /\ s.inFlight < MaxOpenGigs /\ s.stake + GigReward[Head(s.todo)] <= cap
    BY <1>1, <1>4 DEF DecideAccept, Works, Admitted
  <2> QED
    BY <1>1, <1>2, <2>2, <2>3, <2>4, CycleMoves
<1>5. CASE EndCycle(c) \/ CycleDies(c)
  <2>1. IdleCycle \in CycleRecord /\ IdleCycle.token = NoToken
    BY EarningConstants DEF IdleCycle, CycleRecord, NoToken
  <2>2. cycle' = [cycle EXCEPT ![c] = IdleCycle] /\ UNCHANGED <<market, cycles, earnSlips>>
        /\ earnLease' \in Row
    BY <1>2, <1>5 DEF EndCycle, CycleDies, Released
  <2> QED
    BY <2>1, <2>2, CycleMoves
<1> QED
  BY <1>3, <1>4, <1>5

\* The step that passes time touches the lease alone.
LEMMA EarningTick == ASSUME EarningInv, EarnLeaseTick \/ UNCHANGED earningVars PROVE EarningInv'
<1>1. UNCHANGED <<cap, own, gig, updated, bid, before, cycles, cycle, earnSlips>> /\ earnLease \in Row
      /\ EarningTypeOK
      /\ BidsArePublished
  BY DEF EarningInv, EarningTypeOK, EarnLeaseTick, earningVars, market, persona
<1>2. earnLease' \in Row
  <2>1. CASE EarnLeaseTick
    BY <1>1, <2>1, EarningConstants DEF EarnLeaseTick, Aged, Row
  <2>2. CASE UNCHANGED earningVars
    BY <1>1, <2>2 DEF earningVars
  <2> QED
    BY <2>1, <2>2
<1>3. EarningTypeOK' /\ BidsArePublished'
  BY <1>1, <1>2 DEF EarningTypeOK, BidsArePublished, Published
<1>4. Exposed' = Exposed /\ Taken' = Taken
  BY <1>1 DEF Exposed, Taken, Accepted, Awaited, IsOpen
<1>5. \A c \in Cycles : CycleSound(c)
  BY DEF EarningInv
<1> QED
  BY <1>1, <1>3, <1>4, <1>5, ShrinkKeeps DEF Running, CycleSound

\* Every step of the cycles, the market and the calendar keeps EarningInv.
THEOREM EarningInvariant == EarningSpec => []EarningInv
<1>1. EarningInv /\ [EarningNext]_earningVars => EarningInv'
  BY CycleStepKeeps, ApplyKeeps, BeginKeeps, MarketKeeps, DayKeeps, EarningTick DEF EarningNext
<1> QED
  BY <1>1, EarningStart, PTL DEF EarningSpec

\* What the persona won and has not delivered stays below its cap and its number of open
\* tasks (persona-earning-service.ts, earning-policy.ts), but for the slips that are named.
THEOREM EarningsHold == EarningSpec => []EarnsWithinLimits
<1>1. EarningInv => EarnsWithinLimits
  <2> SUFFICES ASSUME EarningInv PROVE EarnsWithinLimits
    OBVIOUS
  <2>1. Accepted \ before \in SUBSET Exposed /\ Accepted \in SUBSET Taken
    BY DEF Exposed, Taken
  <2>2. Reward(Accepted \ before) \in Nat /\ Reward(Accepted \ before) <= Exposure
        /\ Cardinality(Accepted) <= Cardinality(Taken)
        /\ Cardinality(Accepted) \in Nat
    <3>1. Accepted \ before \in SUBSET Gigs /\ Accepted \in SUBSET Gigs
      BY DEF Accepted
    <3> QED
      BY <2>1, <3>1, EarningSets, EarningCounts
  <2>3. Stake(Accepted) = Reward(Accepted \ before)
    BY DEF Stake, Reward
  <2>4. Exposure \in Nat /\ Cardinality(Taken) \in Nat /\ cap \in Nat /\ MaxOpenGigs \in Nat
    BY EarningSets, EarningConstants
  <2> QED
    BY <2>2, <2>3, <2>4 DEF EarningInv, ExposureKept, CapWatched, EarnsWithinLimits, CapKept, OpenGigsKept
<1> QED
  BY <1>1, EarningInvariant, PTL
=============================================================================
