-------------------------- MODULE Requests_proofs --------------------------
(***************************************************************************)
(* For any number of requests, keys and replicas: an idempotency key lets  *)
(* one handler take effect, and what it replays is faithful; an event of   *)
(* Stripe takes effect once and the plan in force is its events' plan;     *)
(* a tool acts once under a confirmation, for what was confirmed, and      *)
(* within the quota, the budget and the probes of its breaker.             *)
(***************************************************************************)
EXTENDS IdempotentRequest, SubscriptionBilling, ToolInvocation, Integers, FiniteSetTheorems, TLAPS

AttemptSteps == {"new", "lookup", "claim", "reread", "handler", "done", "failed",
                 "answered", "dead", "dead_done"}

KeyRows == [state : {"none", "in_progress", "completed"},
            by : Attempts \cup {NoAttempt}, expired : BOOLEAN]

IdemTypes ==
    /\ keyRow \in [Keys -> KeyRows]
    /\ attempt \in [Attempts -> [pc : AttemptSteps, early : BOOLEAN]]
    /\ lapsed \subseteq Attempts
    /\ answer \in [Attempts -> Attempts \cup {Refused, Silent}]

\* A row names an attempt that claimed this key; one that expired is remembered.
Owned(k) ==
    IF keyRow[k].state = "none" THEN keyRow[k].by = NoAttempt /\ ~keyRow[k].expired
    ELSE /\ keyRow[k].by \in Attempts /\ KeyOf[keyRow[k].by] = k
         /\ attempt[keyRow[k].by].pc \notin {"new", "lookup", "claim", "reread"}
         /\ keyRow[k].expired => keyRow[k].by \in lapsed
RowsAreOwned == \A k \in Keys : Owned(k)

\* Only the response ends an attempt that has an answer.
AnswersAreLast == \A a \in Attempts : answer[a] # Silent => attempt[a].pc = "answered"

\* An attempt whose handler runs or took effect has the row, until it expires.
Held(a) == InHandler(a) \/ Effective(a) => a \in lapsed \/ RowOf(a).by = a
ClaimsAreHeld == \A a \in Attempts : Held(a)

\* A stored response is that of a handler that took effect.
StoredIsEffective ==
    \A k \in Keys : keyRow[k].state = "completed" => Effective(keyRow[k].by)

IdemInv ==
    /\ IdemTypes /\ RowsAreOwned /\ AnswersAreLast /\ ClaimsAreHeld /\ StoredIsEffective
    /\ ReplayIsFaithful

USE DEF Refused, Silent
-----------------------------------------------------------------------------
\* The invariant holds before the first request.
LEMMA IdemStart == IdemInit => IdemInv
  BY IdempotencyAssumption
  DEF IdemInit, IdemInv, IdemTypes, KeyRows, RowsAreOwned, Owned, AnswersAreLast, ClaimsAreHeld, Held, StoredIsEffective,
      ReplayIsFaithful, AttemptSteps, NoRow, InHandler, Effective, RowOf

\* An effect is never taken back.
LEMMA EffectiveStays ==
  ASSUME IdemInv, [IdemNext]_idemVars, NEW b \in Attempts, Effective(b) PROVE Effective(b)'
<1> USE IdempotencyAssumption DEF IdemInv, IdemTypes, AttemptSteps, AnswersAreLast, Effective
<1>1. CASE UNCHANGED idemVars
  BY <1>1 DEF idemVars
<1>2. ASSUME NEW k \in Keys, ExpireRow(k) PROVE Effective(b)'
  BY <1>2 DEF ExpireRow
<1>3. ASSUME NEW a \in Attempts, CleanupExpired(a) PROVE Effective(b)'
  BY <1>3 DEF CleanupExpired, IdemAt
<1>4. ASSUME NEW a \in Attempts, Lookup(a) PROVE Effective(b)'
  BY <1>4 DEF Lookup, AnswerFromRow, Answered, IdemAt, IdemGoto
<1>5. ASSUME NEW a \in Attempts, ClaimKey(a) PROVE Effective(b)'
  BY <1>5 DEF ClaimKey, IdemAt, IdemGoto
<1>6. ASSUME NEW a \in Attempts, Reread(a) PROVE Effective(b)'
  BY <1>6 DEF Reread, AnswerFromRow, Answered, IdemAt, IdemGoto
<1>7. ASSUME NEW a \in Attempts, NEW ok \in BOOLEAN, HandlerDone(a, ok) PROVE Effective(b)'
  BY <1>7 DEF HandlerDone, IdemAt, IdemGoto
<1>8. ASSUME NEW a \in Attempts, StoreResponse(a) PROVE Effective(b)'
  BY <1>8 DEF StoreResponse, Answered, IdemAt, IdemGoto
<1>9. ASSUME NEW a \in Attempts, ReleaseKey(a) PROVE Effective(b)'
  BY <1>9 DEF ReleaseKey, Answered, IdemAt, IdemGoto
<1>10. ASSUME NEW a \in Attempts, DieInHandler(a) PROVE Effective(b)'
  BY <1>10 DEF DieInHandler
<1> QED
  BY <1>1, <1>2, <1>3, <1>4, <1>5, <1>6, <1>7, <1>8, <1>9, <1>10 DEF IdemNext, IdemStep

\* What expired is in lapsed when its row goes.
LEMMA CleanupKeeps == ASSUME IdemInv, NEW a \in Attempts, CleanupExpired(a) PROVE IdemInv'
<1> USE IdempotencyAssumption DEF IdemInv, IdemTypes
<1>1. /\ attempt[a].pc = "new" /\ attempt'[a].pc = "lookup" /\ answer'[a] = answer[a]
      /\ \A b \in Attempts \ {a} : attempt'[b] = attempt[b] /\ answer'[b] = answer[b]
      /\ UNCHANGED lapsed
  BY DEF CleanupExpired, IdemAt, NoRow
<1>2. \A k \in Keys : keyRow'[k] = keyRow[k] \/ (keyRow[k].expired /\ keyRow'[k] = NoRow)
  BY DEF CleanupExpired, IdemAt, NoRow
<1>3. keyRow' \in [Keys -> KeyRows]
  <2>1. NoRow \in KeyRows
    BY DEF NoRow, KeyRows
  <2> QED
    BY <2>1 DEF CleanupExpired
<1>4. \A b \in Attempts : Effective(b) => Effective(b)'
  BY EffectiveStays DEF IdemNext, IdemStep
<1>5. attempt' \in [Attempts -> [pc : AttemptSteps, early : BOOLEAN]]
  BY DEF CleanupExpired, IdemAt, AttemptSteps
<1>9. answer' \in [Attempts -> Attempts \cup {Refused, Silent}]
  BY DEF CleanupExpired, IdemAt
<1>6. RowsAreOwned'
  <2> SUFFICES ASSUME NEW k \in Keys PROVE Owned(k)'
    BY DEF RowsAreOwned
  <2>1. Owned(k)
    BY DEF RowsAreOwned
  <2>2. CASE keyRow'[k] = keyRow[k]
    BY <1>1, <2>1, <2>2 DEF Owned
  <2>3. CASE keyRow'[k] # keyRow[k]
    BY <1>1, <1>2, <2>1, <2>3 DEF Owned, NoRow
  <2> QED
    BY <2>2, <2>3
<1>7. ClaimsAreHeld'
  <2> SUFFICES ASSUME NEW b \in Attempts PROVE Held(b)'
    BY DEF ClaimsAreHeld
  <2>1. Held(b) /\ Owned(KeyOf[b]) /\ KeyOf[b] \in Keys
    BY DEF ClaimsAreHeld, RowsAreOwned
  <2>2. CASE b = a
    BY <1>1, <1>2, <2>1, <2>2 DEF Held, Owned, AnswersAreLast, InHandler, Effective, RowOf, NoRow
  <2>3. CASE b # a
    BY <1>1, <1>2, <2>1, <2>3 DEF Held, Owned, InHandler, Effective, RowOf, NoRow
  <2> QED
    BY <2>2, <2>3
<1>8. StoredIsEffective'
  <2> SUFFICES ASSUME NEW k \in Keys, keyRow'[k].state = "completed" PROVE Effective(keyRow[k].by)'
    BY DEF StoredIsEffective
  <2>1. Owned(k) /\ (keyRow[k].state = "completed" => Effective(keyRow[k].by))
    BY DEF RowsAreOwned, StoredIsEffective
  <2> QED
    BY <1>1, <1>2, <1>4, <2>1 DEF Effective, Owned, NoRow
<1>10. AnswersAreLast'
  BY <1>1 DEF AnswersAreLast
<1>11. ReplayIsFaithful'
  BY <1>1, <1>4 DEF ReplayIsFaithful, StoredIsEffective, RowsAreOwned, Owned, Effective, RowOf
<1> QED
  BY <1>1, <1>3, <1>5, <1>6, <1>7, <1>8, <1>9, <1>10, <1>11

\* A replay passes on the stored response of another attempt.
LEMMA LookupKeeps == ASSUME IdemInv, NEW a \in Attempts, Lookup(a) \/ Reread(a) PROVE IdemInv'
<1> USE IdempotencyAssumption DEF IdemInv, IdemTypes
<1>1. /\ attempt[a].pc \in {"lookup", "reread"}
      /\ \/ attempt'[a].pc = "claim" /\ answer'[a] = answer[a]
         \/ attempt'[a].pc = "answered" /\ answer'[a] = Refused
         \/ /\ attempt'[a].pc = "answered" /\ RowOf(a).state = "completed"
            /\ answer'[a] = RowOf(a).by /\ HashOf[RowOf(a).by] = HashOf[a]
      /\ \A b \in Attempts \ {a} : attempt'[b] = attempt[b] /\ answer'[b] = answer[b]
      /\ UNCHANGED lapsed
  BY DEF Lookup, Reread, AnswerFromRow, SameRequest, Answered, IdemAt, IdemGoto, RowOf, Visible
<1>2. UNCHANGED keyRow
  BY DEF Lookup, Reread, AnswerFromRow, SameRequest, Answered, IdemAt, IdemGoto, RowOf, Visible
<1>3. keyRow' \in [Keys -> KeyRows]
  BY <1>2
<1>4. \A b \in Attempts : Effective(b) => Effective(b)'
  BY EffectiveStays DEF IdemNext, IdemStep
<1>5. attempt' \in [Attempts -> [pc : AttemptSteps, early : BOOLEAN]]
  BY DEF Lookup, Reread, AnswerFromRow, SameRequest, Answered, IdemAt, IdemGoto, AttemptSteps
<1>9. answer' \in [Attempts -> Attempts \cup {Refused, Silent}]
  <2>1. RowOf(a).state = "completed" => RowOf(a).by \in Attempts
    BY DEF RowsAreOwned, Owned, RowOf
  <2>2. answer' = [answer EXCEPT ![a] = answer'[a]]
    BY DEF Lookup, Reread, AnswerFromRow, Answered
  <2> QED
    BY <1>1, <2>1, <2>2
<1>6. RowsAreOwned'
  BY <1>1, <1>2 DEF RowsAreOwned, Owned
<1>7. ClaimsAreHeld'
  BY <1>1, <1>2 DEF ClaimsAreHeld, Held, RowsAreOwned, Owned, AnswersAreLast, InHandler, Effective, RowOf
<1>8. StoredIsEffective'
  BY <1>1, <1>2, <1>4 DEF StoredIsEffective, RowsAreOwned, Owned, Effective
<1>10. AnswersAreLast'
  BY <1>1 DEF AnswersAreLast
<1>11. ReplayIsFaithful'
  BY <1>1, <1>4 DEF ReplayIsFaithful, StoredIsEffective, RowsAreOwned, Owned, Effective, RowOf
<1> QED
  BY <1>1, <1>3, <1>5, <1>6, <1>7, <1>8, <1>9, <1>10, <1>11

\* A key can be claimed only when nobody holds it.
LEMMA ClaimKeyKeeps == ASSUME IdemInv, NEW a \in Attempts, ClaimKey(a) PROVE IdemInv'
<1> USE IdempotencyAssumption DEF IdemInv, IdemTypes
<1>1. /\ attempt[a].pc = "claim" /\ answer'[a] = answer[a]
      /\ attempt'[a].pc = IF RowOf(a).state = "none" THEN "handler" ELSE "reread"
      /\ \A b \in Attempts \ {a} : attempt'[b] = attempt[b] /\ answer'[b] = answer[b]
      /\ UNCHANGED lapsed
  BY DEF ClaimKey, ClaimFree, IdemAt, IdemGoto, RowOf
<1>2. \A k \in Keys : keyRow'[k] = IF k = KeyOf[a] /\ keyRow[k].state = "none"
                                  THEN [state |-> "in_progress", by |-> a, expired |-> FALSE]
                                  ELSE keyRow[k]
  BY DEF ClaimKey, ClaimFree, IdemAt, IdemGoto, RowOf
<1>3. keyRow' \in [Keys -> KeyRows]
  <2>1. [state |-> "in_progress", by |-> a, expired |-> FALSE] \in KeyRows
    BY DEF KeyRows
  <2> QED
    BY <2>1 DEF ClaimKey
<1>4. \A b \in Attempts : Effective(b) => Effective(b)'
  BY EffectiveStays DEF IdemNext, IdemStep
<1>5. attempt' \in [Attempts -> [pc : AttemptSteps, early : BOOLEAN]]
  BY DEF ClaimKey, ClaimFree, IdemAt, IdemGoto, AttemptSteps
<1>9. answer' \in [Attempts -> Attempts \cup {Refused, Silent}]
  BY DEF ClaimKey, ClaimFree, IdemAt, IdemGoto
<1>6. RowsAreOwned'
  <2> SUFFICES ASSUME NEW k \in Keys PROVE Owned(k)'
    BY DEF RowsAreOwned
  <2>1. Owned(k)
    BY DEF RowsAreOwned
  <2>2. CASE keyRow'[k] = keyRow[k]
    BY <1>1, <2>1, <2>2 DEF Owned
  <2>3. CASE keyRow'[k] # keyRow[k]
    BY <1>1, <1>2, <2>1, <2>3 DEF Owned, NoRow, RowOf
  <2> QED
    BY <2>2, <2>3
<1>7. ClaimsAreHeld'
  <2> SUFFICES ASSUME NEW b \in Attempts PROVE Held(b)'
    BY DEF ClaimsAreHeld
  <2>1. Held(b) /\ Owned(KeyOf[b]) /\ KeyOf[b] \in Keys
    BY DEF ClaimsAreHeld, RowsAreOwned
  <2>2. CASE b = a
    BY <1>1, <1>2, <2>1, <2>2 DEF Held, Owned, AnswersAreLast, InHandler, Effective, RowOf, NoRow
  <2>3. CASE b # a
    BY <1>1, <1>2, <2>1, <2>3 DEF Held, Owned, InHandler, Effective, RowOf, NoRow
  <2> QED
    BY <2>2, <2>3
<1>8. StoredIsEffective'
  <2> SUFFICES ASSUME NEW k \in Keys, keyRow'[k].state = "completed" PROVE Effective(keyRow[k].by)'
    BY DEF StoredIsEffective
  <2>1. Owned(k) /\ (keyRow[k].state = "completed" => Effective(keyRow[k].by))
    BY DEF RowsAreOwned, StoredIsEffective
  <2> QED
    BY <1>1, <1>2, <1>4, <2>1 DEF Effective, Owned, NoRow
<1>10. AnswersAreLast'
  BY <1>1 DEF AnswersAreLast
<1>11. ReplayIsFaithful'
  BY <1>1, <1>4 DEF ReplayIsFaithful, StoredIsEffective, RowsAreOwned, Owned, Effective, RowOf
<1> QED
  BY <1>1, <1>3, <1>5, <1>6, <1>7, <1>8, <1>9, <1>10, <1>11

\* The handler of an attempt ends.
LEMMA HandlerKeeps == ASSUME IdemInv, NEW a \in Attempts, NEW ok \in BOOLEAN, HandlerDone(a, ok) PROVE IdemInv'
<1> USE IdempotencyAssumption DEF IdemInv, IdemTypes
<1>1. /\ attempt[a].pc = "handler" /\ attempt'[a].pc \in {"done", "failed"} /\ answer'[a] = answer[a]
      /\ \A b \in Attempts \ {a} : attempt'[b] = attempt[b] /\ answer'[b] = answer[b]
      /\ UNCHANGED lapsed
  BY DEF HandlerDone, IdemAt, IdemGoto
<1>2. UNCHANGED keyRow
  BY DEF HandlerDone, IdemAt, IdemGoto
<1>3. keyRow' \in [Keys -> KeyRows]
  BY <1>2
<1>4. \A b \in Attempts : Effective(b) => Effective(b)'
  BY EffectiveStays DEF IdemNext, IdemStep
<1>5. attempt' \in [Attempts -> [pc : AttemptSteps, early : BOOLEAN]]
  BY DEF HandlerDone, IdemAt, IdemGoto, AttemptSteps
<1>9. answer' \in [Attempts -> Attempts \cup {Refused, Silent}]
  BY DEF HandlerDone, IdemAt, IdemGoto
<1>6. RowsAreOwned'
  BY <1>1, <1>2 DEF RowsAreOwned, Owned
<1>7. ClaimsAreHeld'
  BY <1>1, <1>2 DEF ClaimsAreHeld, Held, RowsAreOwned, Owned, AnswersAreLast, InHandler, Effective, RowOf
<1>8. StoredIsEffective'
  BY <1>1, <1>2, <1>4 DEF StoredIsEffective, RowsAreOwned, Owned, Effective
<1>10. AnswersAreLast'
  BY <1>1 DEF AnswersAreLast
<1>11. ReplayIsFaithful'
  BY <1>1, <1>4 DEF ReplayIsFaithful, StoredIsEffective, RowsAreOwned, Owned, Effective, RowOf
<1> QED
  BY <1>1, <1>3, <1>5, <1>6, <1>7, <1>8, <1>9, <1>10, <1>11

\* The response is stored in the row this attempt has, or nowhere.
LEMMA StoreKeeps == ASSUME IdemInv, NEW a \in Attempts, StoreResponse(a) PROVE IdemInv'
<1> USE IdempotencyAssumption DEF IdemInv, IdemTypes
<1>1. /\ attempt[a].pc = "done" /\ attempt'[a].pc = "answered" /\ answer'[a] = a
      /\ \A b \in Attempts \ {a} : attempt'[b] = attempt[b] /\ answer'[b] = answer[b]
      /\ UNCHANGED lapsed
  BY DEF StoreResponse, Mine, Answered, IdemAt, IdemGoto, RowOf
<1>2. \A k \in Keys : \/ keyRow'[k] = keyRow[k]
                     \/ /\ keyRow[k].by = a /\ keyRow'[k].by = a
                        /\ keyRow'[k].state = "completed" /\ keyRow'[k].expired = keyRow[k].expired
  <2>1. CASE UNCHANGED keyRow
    BY <2>1
  <2>2. CASE Mine(a) /\ keyRow' = [keyRow EXCEPT ![KeyOf[a]].state = "completed"]
    BY <2>2 DEF Mine, RowOf, KeyRows
  <2> QED
    BY <2>1, <2>2 DEF StoreResponse
<1>3. keyRow' \in [Keys -> KeyRows]
  <2>1. CASE keyRow' = [keyRow EXCEPT ![KeyOf[a]].state = "completed"]
    BY <2>1 DEF KeyRows
  <2> QED
    BY <2>1 DEF StoreResponse
<1>4. \A b \in Attempts : Effective(b) => Effective(b)'
  BY EffectiveStays DEF IdemNext, IdemStep
<1>5. attempt' \in [Attempts -> [pc : AttemptSteps, early : BOOLEAN]]
  BY DEF StoreResponse, Mine, Answered, IdemAt, IdemGoto, AttemptSteps
<1>9. answer' \in [Attempts -> Attempts \cup {Refused, Silent}]
  BY DEF StoreResponse, Mine, Answered, IdemAt, IdemGoto
<1>6. RowsAreOwned'
  <2> SUFFICES ASSUME NEW k \in Keys PROVE Owned(k)'
    BY DEF RowsAreOwned
  <2>1. Owned(k)
    BY DEF RowsAreOwned
  <2>2. CASE keyRow'[k] = keyRow[k]
    BY <1>1, <2>1, <2>2 DEF Owned
  <2>3. CASE keyRow'[k] # keyRow[k]
    BY <1>1, <1>2, <2>1, <2>3 DEF Owned, NoRow
  <2> QED
    BY <2>2, <2>3
<1>7. ClaimsAreHeld'
  <2> SUFFICES ASSUME NEW b \in Attempts PROVE Held(b)'
    BY DEF ClaimsAreHeld
  <2>1. Held(b) /\ Owned(KeyOf[b]) /\ KeyOf[b] \in Keys
    BY DEF ClaimsAreHeld, RowsAreOwned
  <2>2. CASE b = a
    BY <1>1, <1>2, <2>1, <2>2 DEF Held, Owned, AnswersAreLast, InHandler, Effective, RowOf, NoRow
  <2>3. CASE b # a
    BY <1>1, <1>2, <2>1, <2>3 DEF Held, Owned, InHandler, Effective, RowOf, NoRow
  <2> QED
    BY <2>2, <2>3
<1>8. StoredIsEffective'
  <2> SUFFICES ASSUME NEW k \in Keys, keyRow'[k].state = "completed" PROVE Effective(keyRow[k].by)'
    BY DEF StoredIsEffective
  <2>1. Owned(k) /\ (keyRow[k].state = "completed" => Effective(keyRow[k].by))
    BY DEF RowsAreOwned, StoredIsEffective
  <2> QED
    BY <1>1, <1>2, <1>4, <2>1 DEF Effective, Owned, NoRow
<1>10. AnswersAreLast'
  BY <1>1 DEF AnswersAreLast
<1>11. ReplayIsFaithful'
  BY <1>1, <1>4 DEF ReplayIsFaithful, StoredIsEffective, RowsAreOwned, Owned, Effective, RowOf
<1> QED
  BY <1>1, <1>3, <1>5, <1>6, <1>7, <1>8, <1>9, <1>10, <1>11

\* The row of a failed attempt goes, and nothing of another one.
LEMMA ReleaseKeeps == ASSUME IdemInv, NEW a \in Attempts, ReleaseKey(a) PROVE IdemInv'
<1> USE IdempotencyAssumption DEF IdemInv, IdemTypes
<1>1. /\ attempt[a].pc = "failed" /\ attempt'[a].pc = "answered" /\ answer'[a] = Refused
      /\ \A b \in Attempts \ {a} : attempt'[b] = attempt[b] /\ answer'[b] = answer[b]
      /\ UNCHANGED lapsed
  BY DEF ReleaseKey, Mine, Answered, IdemAt, IdemGoto, RowOf, NoRow
<1>2. \A k \in Keys : keyRow'[k] = keyRow[k] \/ (keyRow[k].by = a /\ keyRow'[k] = NoRow)
  BY DEF ReleaseKey, Mine, Answered, IdemAt, IdemGoto, RowOf, NoRow
<1>3. keyRow' \in [Keys -> KeyRows]
  <2>1. NoRow \in KeyRows
    BY DEF NoRow, KeyRows
  <2> QED
    BY <2>1 DEF ReleaseKey
<1>4. \A b \in Attempts : Effective(b) => Effective(b)'
  BY EffectiveStays DEF IdemNext, IdemStep
<1>5. attempt' \in [Attempts -> [pc : AttemptSteps, early : BOOLEAN]]
  BY DEF ReleaseKey, Mine, Answered, IdemAt, IdemGoto, AttemptSteps
<1>9. answer' \in [Attempts -> Attempts \cup {Refused, Silent}]
  BY DEF ReleaseKey, Mine, Answered, IdemAt, IdemGoto
<1>6. RowsAreOwned'
  <2> SUFFICES ASSUME NEW k \in Keys PROVE Owned(k)'
    BY DEF RowsAreOwned
  <2>1. Owned(k)
    BY DEF RowsAreOwned
  <2>2. CASE keyRow'[k] = keyRow[k]
    BY <1>1, <2>1, <2>2 DEF Owned
  <2>3. CASE keyRow'[k] # keyRow[k]
    BY <1>1, <1>2, <2>1, <2>3 DEF Owned, NoRow
  <2> QED
    BY <2>2, <2>3
<1>7. ClaimsAreHeld'
  <2> SUFFICES ASSUME NEW b \in Attempts PROVE Held(b)'
    BY DEF ClaimsAreHeld
  <2>1. Held(b) /\ Owned(KeyOf[b]) /\ KeyOf[b] \in Keys
    BY DEF ClaimsAreHeld, RowsAreOwned
  <2>2. CASE b = a
    BY <1>1, <1>2, <2>1, <2>2 DEF Held, Owned, AnswersAreLast, InHandler, Effective, RowOf, NoRow
  <2>3. CASE b # a
    BY <1>1, <1>2, <2>1, <2>3 DEF Held, Owned, InHandler, Effective, RowOf, NoRow
  <2> QED
    BY <2>2, <2>3
<1>8. StoredIsEffective'
  <2> SUFFICES ASSUME NEW k \in Keys, keyRow'[k].state = "completed" PROVE Effective(keyRow[k].by)'
    BY DEF StoredIsEffective
  <2>1. Owned(k) /\ (keyRow[k].state = "completed" => Effective(keyRow[k].by))
    BY DEF RowsAreOwned, StoredIsEffective
  <2> QED
    BY <1>1, <1>2, <1>4, <2>1 DEF Effective, Owned, NoRow
<1>10. AnswersAreLast'
  BY <1>1 DEF AnswersAreLast
<1>11. ReplayIsFaithful'
  BY <1>1, <1>4 DEF ReplayIsFaithful, StoredIsEffective, RowsAreOwned, Owned, Effective, RowOf
<1> QED
  BY <1>1, <1>3, <1>5, <1>6, <1>7, <1>8, <1>9, <1>10, <1>11

\* A dead replica leaves the row as it was.
LEMMA DieKeeps == ASSUME IdemInv, NEW a \in Attempts, DieInHandler(a) PROVE IdemInv'
<1> USE IdempotencyAssumption DEF IdemInv, IdemTypes
<1>1. /\ attempt[a].pc \in {"handler", "done", "failed"} /\ answer'[a] = answer[a]
      /\ attempt'[a].pc \in {"dead", "dead_done"}
      /\ \A b \in Attempts \ {a} : attempt'[b] = attempt[b] /\ answer'[b] = answer[b]
      /\ UNCHANGED lapsed
  BY DEF DieInHandler
<1>2. UNCHANGED keyRow
  BY DEF DieInHandler
<1>3. keyRow' \in [Keys -> KeyRows]
  BY <1>2
<1>4. \A b \in Attempts : Effective(b) => Effective(b)'
  BY EffectiveStays DEF IdemNext, IdemStep
<1>5. attempt' \in [Attempts -> [pc : AttemptSteps, early : BOOLEAN]]
  BY DEF DieInHandler, AttemptSteps
<1>9. answer' \in [Attempts -> Attempts \cup {Refused, Silent}]
  BY DEF DieInHandler
<1>6. RowsAreOwned'
  BY <1>1, <1>2 DEF RowsAreOwned, Owned
<1>7. ClaimsAreHeld'
  BY <1>1, <1>2 DEF ClaimsAreHeld, Held, RowsAreOwned, Owned, AnswersAreLast, InHandler, Effective, RowOf
<1>8. StoredIsEffective'
  BY <1>1, <1>2, <1>4 DEF StoredIsEffective, RowsAreOwned, Owned, Effective
<1>10. AnswersAreLast'
  BY <1>1 DEF AnswersAreLast
<1>11. ReplayIsFaithful'
  BY <1>1, <1>4 DEF ReplayIsFaithful, StoredIsEffective, RowsAreOwned, Owned, Effective, RowOf
<1> QED
  BY <1>1, <1>3, <1>5, <1>6, <1>7, <1>8, <1>9, <1>10, <1>11

\* The row is no longer relied upon.
LEMMA ExpireKeeps == ASSUME IdemInv, NEW k \in Keys, ExpireRow(k) PROVE IdemInv'
<1> USE IdempotencyAssumption DEF IdemInv, IdemTypes
<1>1. /\ \A b \in Attempts : attempt'[b].pc = attempt[b].pc
      /\ keyRow' = [keyRow EXCEPT ![k].expired = TRUE]
      /\ lapsed' = lapsed \cup {keyRow[k].by}
      /\ keyRow[k].by \in Attempts
      /\ UNCHANGED answer
  BY DEF ExpireRow, RowsAreOwned, Owned
<1>2. \A q \in Keys : /\ keyRow'[q].by = keyRow[q].by /\ keyRow'[q].state = keyRow[q].state
                      /\ keyRow'[q].expired = IF q = k THEN TRUE ELSE keyRow[q].expired
  BY <1>1 DEF KeyRows
<1>3. attempt' \in [Attempts -> [pc : AttemptSteps, early : BOOLEAN]]
  BY DEF ExpireRow
<1>4. keyRow' \in [Keys -> KeyRows]
  <2>1. keyRow[k] \in KeyRows
    OBVIOUS
  <2>2. [keyRow[k] EXCEPT !.expired = TRUE] \in KeyRows
    BY <2>1 DEF KeyRows
  <2> QED
    BY <1>1, <2>2
<1>5. RowsAreOwned'
  BY <1>1, <1>2 DEF RowsAreOwned, Owned, ExpireRow
<1>6. AnswersAreLast'
  BY <1>1 DEF AnswersAreLast
<1>7. ClaimsAreHeld'
  BY <1>1, <1>2 DEF ClaimsAreHeld, Held, InHandler, Effective, RowOf
<1>8. StoredIsEffective'
  BY <1>1, <1>2, <1>5 DEF StoredIsEffective, RowsAreOwned, Owned, Effective
<1>9. ReplayIsFaithful'
  BY <1>1 DEF ReplayIsFaithful, Effective
<1> QED
  BY <1>1, <1>3, <1>4, <1>5, <1>6, <1>7, <1>8, <1>9

\* Every step of an attempt keeps the invariant, and so do expiry and death.
LEMMA IdemKeeps == IdemInv /\ [IdemNext]_idemVars => IdemInv'
<1> SUFFICES ASSUME IdemInv, [IdemNext]_idemVars PROVE IdemInv'
  OBVIOUS
<1>1. CASE UNCHANGED idemVars
  BY <1>1 DEF idemVars, IdemInv, IdemTypes, RowsAreOwned, Owned, AnswersAreLast, ClaimsAreHeld, Held,
              StoredIsEffective, ReplayIsFaithful, InHandler, Effective, RowOf
<1> QED
  BY <1>1, CleanupKeeps, LookupKeeps, ClaimKeyKeeps, HandlerKeeps, StoreKeeps, ReleaseKeeps,
     DieKeeps, ExpireKeeps
  DEF IdemNext, IdemStep

\* An attempt whose handler runs or took effect has the row of its key until the row expires, and
\* a stored response is one of a handler that took effect (idempotency.ts), for any number of attempts.
THEOREM IdemInvariant == IdemSpec => []IdemInv
BY IdemStart, IdemKeeps, PTL DEF IdemSpec

\* One handler per key runs or takes effect, unless a row expired.
THEOREM OncePerKeyHolds == IdemSpec => []OncePerKey
<1>1. IdemInv => OncePerKey
  BY IdempotencyAssumption DEF IdemInv, ClaimsAreHeld, Held, OncePerKey, RowOf
<1> QED
  BY <1>1, IdemInvariant, PTL

\* A replay is the response of a successful run of the same request.
THEOREM ReplayHolds == IdemSpec => []ReplayIsFaithful
<1>1. IdemInv => ReplayIsFaithful
  BY DEF IdemInv
<1> QED
  BY <1>1, IdemInvariant, PTL

\* A key stands for one execution and its answer, for any number of attempts.
THEOREM AnswerHolds == IdemSpec => []OneAnswerPerKey
BY OncePerKeyHolds, ReplayHolds, PTL DEF OneAnswerPerKey
-----------------------------------------------------------------------------
(* Stripe events *)

SubRecord == [plan : Plans, status : {"active", "canceled", "past_due"}]
Amounts == [AddOnKinds -> Int]
HookRows == [pc : {"idle", "record", "read", "write", "derive", "commit"}, event : StripeEvents \cup {"none"},
               seen : SubRecord, next : SubRecord, cancelled : Amounts, addOns : Amounts]
InTransaction(h) == hook[h].pc \in {"read", "write", "derive", "commit"}

SubscriptionTypes ==
    /\ sub \in SubRecord /\ addOns \in Amounts
    /\ hook \in [Hooks -> HookRows]
    /\ applied \in [StripeEvents -> Nat]

\* A transaction has an event that is not recorded, and no other has the same.
OneTransactionPerEvent ==
    \A h \in Hooks : InTransaction(h) =>
        /\ hook[h].event \notin recorded
        /\ \A g \in Hooks : InTransaction(g) /\ hook[g].event = hook[h].event => g = h

WaitingHasEvent == \A h \in Hooks : hook[h].pc # "idle" => hook[h].event \in StripeEvents

HookInv == SubscriptionTypes /\ OneTransactionPerEvent /\ WaitingHasEvent /\ EventAppliedOnce

\* Amounts of add-ons can be added and taken off.
LEMMA NoAddOnsType == NoAddOns \in Amounts
  BY DEF NoAddOns, Amounts
LEMMA LessType == ASSUME NEW a \in Amounts, NEW b \in Amounts PROVE Less(a, b) \in Amounts
  BY DEF Less, Amounts
LEMMA BoughtType == ASSUME NEW a \in Amounts, NEW kind PROVE Bought(a, kind) \in Amounts
<1>1. CASE kind \in AddOnKinds
  BY <1>1 DEF Bought, Amounts
<1>2. CASE kind \notin AddOnKinds
  <2>1. Bought(a, kind) = a
    BY <1>2 DEF Bought, Amounts
  <2> QED  BY <2>1
<1> QED  BY <1>1, <1>2

\* A request between two deliveries has its type.
LEMMA IdleHookType == IdleHook \in HookRows
  BY NoAddOnsType DEF IdleHook, HookRows, SubRecord, FreeSub, Subscription, Plans

\* The invariant holds of a new subscription.
LEMMA HookInitial == SubscriptionInit => HookInv
  BY IdleHookType, NoAddOnsType DEF SubscriptionInit, HookInv, SubscriptionTypes, OneTransactionPerEvent,
       WaitingHasEvent, EventAppliedOnce, InTransaction, IdleHook, SubRecord, FreeSub, Subscription, Plans

\* A step that ends one request, or moves it on inside its transaction.
LEMMA QuietStep ==
  ASSUME HookInv, NEW h \in Hooks, NEW r \in HookRows, hook' = [hook EXCEPT ![h] = r],
         sub' \in SubRecord, addOns' \in Amounts, UNCHANGED <<applied, recorded>>,
         \/ r.pc = "idle"
         \/ r.pc = "record" /\ r.event \in StripeEvents
         \/ InTransaction(h) /\ r.event = hook[h].event
         \/ /\ r.event = hook[h].event /\ r.event \in StripeEvents \ recorded
            /\ ~ \E g \in Hooks : InTransaction(g) /\ hook[g].event = r.event
  PROVE  HookInv'
<1>1. hook'[h] = r /\ \A g \in Hooks \ {h} : hook'[g] = hook[g]
  BY DEF HookInv, SubscriptionTypes
<1>2. SubscriptionTypes'
  BY DEF HookInv, SubscriptionTypes
<1>3. WaitingHasEvent'
  BY <1>1 DEF HookInv, WaitingHasEvent, InTransaction
<1>4. OneTransactionPerEvent'
  BY <1>1 DEF HookInv, OneTransactionPerEvent, InTransaction
<1> QED
  BY <1>2, <1>3, <1>4 DEF HookInv, EventAppliedOnce

\* A step of another request, or none.
LEMMA NoHookStep ==
  ASSUME HookInv, UNCHANGED <<hook, applied, recorded>>, sub' \in SubRecord, addOns' \in Amounts
  PROVE  HookInv'
  BY DEF HookInv, SubscriptionTypes, OneTransactionPerEvent, WaitingHasEvent, EventAppliedOnce,
         InTransaction

\* What a delivery knows when it has written the row: it goes on to derive limits or to commit.
WrittenBy(h, r) ==
    /\ hook' = [hook EXCEPT ![h] = r]
    /\ r.event = hook[h].event /\ r.seen = hook[h].seen
    /\ r.next = Updated(hook[h].event, hook[h].seen)
    /\ r.cancelled = IF hook[h].event = "deleted" THEN addOns ELSE NoAddOns

LEMMA WriteEffect ==
  ASSUME SubscriptionTypes, WaitingHasEvent, NEW h \in Hooks, HookWrite(h)
  PROVE  \E r \in HookRows : r.pc \in {"derive", "commit"} /\ WrittenBy(h, r)
<1>1. PICK u : u = Updated(hook[h].event, hook[h].seen)
  OBVIOUS
<1>2. PICK c : c = IF hook[h].event = "deleted" THEN addOns ELSE NoAddOns
  OBVIOUS
<1>3. PICK step \in {"derive", "commit"} :
         hook' = [hook EXCEPT ![h] = [hook[h] EXCEPT !.next = u, !.cancelled = c, !.pc = step]]
  <2>1. hook[h] \in HookRows
    BY DEF SubscriptionTypes
  <2> DEFINE w == [hook[h] EXCEPT !.next = u, !.cancelled = c]
  <2>2. hook' = [hook EXCEPT ![h] = [w EXCEPT !.pc = IF Derives(w) THEN "derive" ELSE "commit"]]
    BY <1>1, <1>2 DEF HookWrite
  <2>3. PICK step \in {"derive", "commit"} : step = IF Derives(w) THEN "derive" ELSE "commit"
    OBVIOUS
  <2>4. [w EXCEPT !.pc = step] = [hook[h] EXCEPT !.next = u, !.cancelled = c, !.pc = step]
    BY <2>1 DEF HookRows
  <2> QED  BY <2>2, <2>3, <2>4
<1>4. u \in SubRecord /\ c \in Amounts
  <2>1. hook[h].event \in StripeEvents /\ hook[h].seen \in SubRecord /\ sub \in SubRecord
    BY DEF HookWrite, WaitingHasEvent, SubscriptionTypes, HookRows
  <2>2. u \in SubRecord
    BY <1>1, <2>1 DEF Updated, SubRecord, Subscription, Plans, StripeEvents
  <2>3. c \in Amounts
    BY <1>2, NoAddOnsType DEF SubscriptionTypes
  <2> QED  BY <2>2, <2>3
<1>5. PICK r : r = [hook[h] EXCEPT !.next = u, !.cancelled = c, !.pc = step]
  OBVIOUS
<1>6. /\ r \in HookRows /\ r.pc = step /\ r.event = hook[h].event /\ r.seen = hook[h].seen
      /\ r.next = u /\ r.cancelled = c
  BY <1>4, <1>5 DEF HookRows, SubscriptionTypes
<1> QED  BY <1>1, <1>2, <1>3, <1>5, <1>6 DEF WrittenBy

\* Every step of a delivery, a purchase and a change of plan keeps the invariant.
LEMMA HookKeeps == HookInv /\ [SubscriptionNext]_subscriptionVars => HookInv'
<1> SUFFICES ASSUME HookInv, [SubscriptionNext]_subscriptionVars PROVE HookInv'
  OBVIOUS
<1>0. sub \in SubRecord /\ addOns \in Amounts /\ hook \in [Hooks -> HookRows]
  BY DEF HookInv, SubscriptionTypes
<1>1. CASE UNCHANGED subscriptionVars
  BY <1>1, <1>0, NoHookStep DEF subscriptionVars
<1>2. ASSUME NEW h \in Hooks, NEW e \in StripeEvents, HookStart(h, e) PROVE HookInv'
  <2> DEFINE r == [IdleHook EXCEPT !.pc = "record", !.event = e]
  <2>2. r \in HookRows /\ r.pc = "record" /\ r.event = e
    BY IdleHookType DEF HookRows
  <2>3. hook' = [hook EXCEPT ![h] = r] /\ UNCHANGED <<sub, addOns, applied, recorded>>
    BY <1>2 DEF HookStart
  <2> HIDE DEF r
  <2> QED
    BY <1>0, <2>2, <2>3, QuietStep
<1>3. ASSUME NEW h \in Hooks, HookRecord(h) PROVE HookInv'
  <2>1. UNCHANGED <<sub, addOns, applied, recorded>>
    BY <1>3 DEF HookRecord
  <2>2. CASE hook' = [hook EXCEPT ![h] = IdleHook]
    <3>1. IdleHook.pc = "idle"
      BY DEF IdleHook
    <3> QED
      BY <1>0, <2>1, <2>2, <3>1, IdleHookType, QuietStep
  <2>3. CASE hook[h].event \notin recorded /\ hook' = [hook EXCEPT ![h].pc = "read"]
    <3> DEFINE r == [hook[h] EXCEPT !.pc = "read"]
    <3>1. r \in HookRows /\ r.pc = "read" /\ r.event = hook[h].event
      BY <1>0 DEF HookRows
    <3>2. hook' = [hook EXCEPT ![h] = r]
      BY <1>0, <2>3
    <3>3. hook[h].event \in StripeEvents
      BY <1>3 DEF HookRecord, HookInv, WaitingHasEvent
    <3>4. ~ \E g \in Hooks : InTransaction(g) /\ hook[g].event = hook[h].event
      BY <1>3 DEF HookRecord, Inserting, InTransaction
    <3> HIDE DEF r
    <3> QED
      BY <1>0, <2>1, <2>3, <3>1, <3>2, <3>3, <3>4, QuietStep
  <2> QED
    BY <1>3, <2>2, <2>3 DEF HookRecord, FirstDelivery
<1>4. ASSUME NEW h \in Hooks, HookRead(h) PROVE HookInv'
  <2> DEFINE r == [hook[h] EXCEPT !.pc = "write", !.seen = sub]
  <2>1. r \in HookRows /\ r.pc = "write" /\ r.event = hook[h].event
    BY <1>0 DEF HookRows
  <2>2. hook' = [hook EXCEPT ![h] = r] /\ InTransaction(h)
    BY <1>0, <1>4 DEF HookRead, InTransaction
  <2>3. UNCHANGED <<sub, addOns, applied, recorded>>
    BY <1>4 DEF HookRead
  <2> HIDE DEF r
  <2> QED
    BY <1>0, <2>1, <2>2, <2>3, QuietStep
<1>5. ASSUME NEW h \in Hooks, HookWrite(h) PROVE HookInv'
  <2>1. PICK r \in HookRows : r.pc \in {"derive", "commit"} /\ WrittenBy(h, r)
    BY <1>0, <1>5, WriteEffect DEF HookInv
  <2>2. InTransaction(h) /\ UNCHANGED <<sub, addOns, applied, recorded>>
    BY <1>5 DEF HookWrite, InTransaction
  <2> QED
    BY <1>0, <2>1, <2>2, QuietStep DEF WrittenBy, InTransaction
<1>51. ASSUME NEW h \in Hooks, HookDerive(h) PROVE HookInv'
  <2> DEFINE r == [hook[h] EXCEPT !.pc = "commit", !.addOns = Less(addOns, hook[h].cancelled)]
  <2>1. r \in HookRows /\ r.pc = "commit" /\ r.event = hook[h].event
    <3>1. Less(addOns, hook[h].cancelled) \in Amounts
      BY <1>0, LessType DEF HookRows
    <3> QED  BY <1>0, <3>1 DEF HookRows
  <2>2. hook' = [hook EXCEPT ![h] = r] /\ InTransaction(h)
    BY <1>0, <1>51 DEF HookDerive, InTransaction
  <2>3. UNCHANGED <<sub, addOns, applied, recorded>>
    BY <1>51 DEF HookDerive
  <2> HIDE DEF r
  <2> QED
    BY <1>0, <2>1, <2>2, <2>3, QuietStep
<1>6. ASSUME NEW h \in Hooks, HookCommit(h) PROVE HookInv'
  <2> DEFINE e == hook[h].event
  <2>1. InTransaction(h) /\ e \in StripeEvents /\ e \notin recorded /\ applied[e] = 0
    BY <1>6 DEF HookCommit, InTransaction, HookInv, WaitingHasEvent, OneTransactionPerEvent,
                EventAppliedOnce
  <2>2. /\ recorded' = recorded \cup {e} /\ applied' = [applied EXCEPT ![e] = @ + 1]
        /\ hook' = [hook EXCEPT ![h] = IdleHook]
        /\ sub' \in SubRecord /\ addOns' \in Amounts
    BY <1>0, <1>6, LessType DEF HookCommit, HookRows
  <2> HIDE DEF e
  <2>3. hook'[h].pc = "idle" /\ \A g \in Hooks \ {h} : hook'[g] = hook[g]
    BY <1>0, <2>2 DEF IdleHook
  <2>4. SubscriptionTypes'
    BY <2>1, <2>2, IdleHookType DEF HookInv, SubscriptionTypes
  <2>5. EventAppliedOnce'
    BY <2>1, <2>2 DEF HookInv, SubscriptionTypes, EventAppliedOnce
  <2>6. WaitingHasEvent'
    BY <2>3 DEF HookInv, WaitingHasEvent
  <2>7. OneTransactionPerEvent'
    BY <2>1, <2>2, <2>3 DEF HookInv, OneTransactionPerEvent, InTransaction, e
  <2> QED
    BY <2>4, <2>5, <2>6, <2>7 DEF HookInv
<1>7. ASSUME NEW h \in Hooks, HookFails(h) PROVE HookInv'
  <2>1. IdleHook.pc = "idle"
    BY DEF IdleHook
  <2> QED
    BY <1>0, <1>7, <2>1, IdleHookType, QuietStep DEF HookFails
<1>8. ASSUME \/ \E kind \in AddOnKinds : PurchaseReadPlan(kind)
             \/ PurchaseReadAddOns \/ PurchaseFails \/ SwitchStep \/ SwitchDies
      PROVE  HookInv'
  <2>1. UNCHANGED <<sub, addOns, hook, applied, recorded>>
    BY <1>8 DEF PurchaseReadPlan, PurchaseReadAddOns, PurchaseFails, SwitchStep, SwitchSharedQuota, SwitchQuota,
                SwitchReadPlan, SwitchReadAddOns, SwitchEntitle, SwitchLimit, SwitchFeature, SwitchDies
  <2> QED  BY <1>0, <2>1, NoHookStep
<1>81. CASE PurchaseCommit
  BY <1>0, <1>81, BoughtType, NoHookStep DEF PurchaseCommit
<1>9. ASSUME NEW plan \in Plans, SwitchPlan(plan) PROVE HookInv'
  <2>1. sub' \in SubRecord
    BY <1>9 DEF SwitchPlan, Subscription, SubRecord
  <2> QED
    BY <1>0, <1>9, <2>1, NoHookStep DEF SwitchPlan
<1> QED
  BY <1>1, <1>2, <1>3, <1>4, <1>5, <1>51, <1>6, <1>7, <1>8, <1>81, <1>9 DEF SubscriptionNext

\* At most one transaction is open for an event, and only while the event is not recorded
\* (stripe-webhook-service.ts), for any number of deliveries.
THEOREM HookInvariant == SubscriptionSpec => []HookInv
BY HookInitial, HookKeeps, PTL DEF SubscriptionSpec

\* An event of Stripe takes effect once, whoever delivers it and dies.
THEOREM EventAppliedOnceHolds == SubscriptionSpec => []EventAppliedOnce
<1>1. HookInv => EventAppliedOnce
  BY DEF HookInv
<1> QED
  BY <1>1, HookInvariant, PTL

\* One delivery at a time holds the subscription's row.
Holds(h) == hook[h].pc \in {"derive", "commit"}
OneHoldsRow == \A g, h \in Hooks : Holds(g) /\ Holds(h) => g = h

\* The add-ons it has cancelled are still there, and only the end cancels any.
CancelsExist ==
    /\ \A k \in AddOnKinds : addOns[k] >= 0
    /\ \A h \in Hooks : Holds(h) =>
          /\ \A k \in AddOnKinds : hook[h].cancelled[k] <= addOns[k]
          /\ hook[h].event # "deleted" => hook[h].cancelled = NoAddOns

\* What a delivery will write has the plan its event brings: of the row it has
\* read, which is the row as it is, but for the price and the end.
PlanOfEvent(r) ==
    CASE r.event = "subscribed" -> PaidPlan
      [] r.event = "deleted" -> "free"
      [] OTHER -> r.seen.plan
WritesAreCurrent ==
    \A h \in Hooks : Holds(h) => sub = hook[h].seen /\ hook[h].next.plan = PlanOfEvent(hook[h])

Bases == [plan : Plans, addOns : Int]
SwitchPcs == {"idle", "quota", "metered", "plan", "addOns", "entitle", "limit", "feature"}
PlanLimitTypes ==
    /\ quota \in [plan : Plans, shared : Bases]
    /\ entitled \in [shared : Bases, feature : Nat]
    /\ purchase \in [pc : {"idle", "read", "commit"}, kind : AddOnKinds, plan : Plans, addOns : Amounts]
    /\ switch \in [pc : SwitchPcs, plan : Plans, seen : Plans, addOns : Amounts]
    /\ subRaced \in BOOLEAN /\ leftover \in BOOLEAN

\* A change of plan leaves the limits to be set one after the other.
Due == Basis(sub.plan, addOns["shared"])
MeteredInStep == switch.pc \in {"quota", "metered"} \/ quota.plan = sub.plan
EntitledInStep == switch.pc \in {"limit", "feature", "idle"} => entitled.shared = Due
QuotaInStep == switch.pc \in {"feature", "idle"} => quota.shared = Due
InStep == MeteredInStep /\ EntitledInStep /\ QuotaInStep /\ FeaturesFollow

RowInv == OneHoldsRow /\ CancelsExist /\ (subRaced \/ WritesAreCurrent)
LimitsInv == PlanLimitTypes /\ RowInv /\ (subRaced \/ InStep)

\* A new tenant has the limits of the free plan.
LEMMA LimitsInitial == SubscriptionInit => LimitsInv
<1> SUFFICES ASSUME SubscriptionInit PROVE LimitsInv
  OBVIOUS
<1>1. \A h \in Hooks : ~Holds(h)
  BY DEF SubscriptionInit, IdleHook, Holds
<1>2. RowInv
  BY <1>1 DEF RowInv, OneHoldsRow, CancelsExist, WritesAreCurrent, SubscriptionInit, NoAddOns
<1>3. PlanLimitTypes
  <2>1. quota \in [plan : Plans, shared : Bases] /\ entitled \in [shared : Bases, feature : Nat]
    BY DEF SubscriptionInit, Bases, Basis, Plans
  <2>2. purchase \in [pc : {"idle", "read", "commit"}, kind : AddOnKinds, plan : Plans, addOns : Amounts]
    BY NoAddOnsType DEF SubscriptionInit, IdlePurchase, AddOnKinds, Plans
  <2>3. switch \in [pc : SwitchPcs, plan : Plans, seen : Plans, addOns : Amounts]
    BY NoAddOnsType DEF SubscriptionInit, IdleSwitch, SwitchPcs, Plans
  <2> QED  BY <2>1, <2>2, <2>3 DEF SubscriptionInit, PlanLimitTypes
<1>4. InStep
  BY DEF SubscriptionInit, InStep, MeteredInStep, EntitledInStep, QuotaInStep, FeaturesFollow, Due, Basis, FreeSub,
         Subscription, NoAddOns, AddOnKinds
<1> QED
  BY <1>2, <1>3, <1>4 DEF LimitsInv

\* A limit that was computed from the plan and the add-ons as they are is the one that is due, and a
\* feature that has an add-on gets it: a row may outlive its add-on, and is then left over.
LEMMA SyncFollows ==
  ASSUME NEW metered \in Plans, NEW plan \in Plans, NEW seen \in Amounts, Sync(metered, plan, seen),
         entitled.feature \in Nat, leftover \in BOOLEAN
  PROVE  /\ quota' \in [plan : Plans, shared : Bases] /\ entitled' \in [shared : Bases, feature : Nat]
         /\ leftover' \in BOOLEAN
         /\ quota'.plan = metered
         /\ seen = addOns' /\ plan = sub'.plan => entitled'.shared = Due' /\ quota'.shared = Due'
         /\ seen = addOns' /\ seen["feature"] >= 0 => FeaturesFollow'
<1>1. "shared" \in AddOnKinds /\ "feature" \in AddOnKinds /\ seen["shared"] \in Int /\ seen["feature"] \in Int
  BY DEF AddOnKinds, Amounts
<1>2. PICK b \in Bases : b = Basis(plan, seen["shared"])
  BY <1>1 DEF Bases, Basis
<1>3. PICK f \in Nat : f = FeatureRow(seen)
  BY <1>1 DEF FeatureRow
<1>4. quota' = [plan |-> metered, shared |-> b] /\ entitled' = [shared |-> b, feature |-> f]
  BY <1>2, <1>3 DEF Sync
<1>5. leftover' = (leftover \/ Outlives(seen))
  BY DEF Sync
<1>6. seen = addOns' /\ plan = sub'.plan => b = Due'
  BY <1>2 DEF Due
<1>7. ASSUME seen = addOns', seen["feature"] >= 0 PROVE FeaturesFollow'
  <2>1. CASE seen["feature"] > 0
    BY <1>3, <1>4, <1>7, <2>1 DEF FeaturesFollow, FeatureRow
  <2>2. CASE seen["feature"] = 0
    <3>1. f = entitled.feature
      BY <1>3, <2>2 DEF FeatureRow
    <3>2. CASE entitled.feature > 0
      BY <1>4, <1>5, <1>7, <2>2, <3>1, <3>2 DEF FeaturesFollow, Outlives
    <3>3. CASE entitled.feature = 0
      BY <1>4, <1>7, <2>2, <3>1, <3>3 DEF FeaturesFollow
    <3> QED  BY <3>2, <3>3
  <2> QED  BY <1>1, <1>7, <2>1, <2>2
<1> QED
  BY <1>4, <1>5, <1>6, <1>7

\* A step of a delivery that neither takes the row nor writes it.
LEMMA HookElsewhere ==
  ASSUME HookInv, LimitsInv, NEW h \in Hooks, NEW r \in HookRows, hook' = [hook EXCEPT ![h] = r],
         UNCHANGED <<sub, addOns, quota, entitled, purchase, switch, leftover, subRaced>>,
         \/ r.pc \notin {"derive", "commit"}
         \/ /\ Holds(h)
            /\ r.event = hook[h].event /\ r.seen = hook[h].seen /\ r.next = hook[h].next
            /\ r.cancelled = hook[h].cancelled
  PROVE  LimitsInv'
<1>1. hook'[h] = r /\ \A g \in Hooks \ {h} : hook'[g] = hook[g]
  BY DEF HookInv, SubscriptionTypes
<1>2. \A g \in Hooks : Holds(g)' =>
         /\ Holds(g) /\ hook'[g].event = hook[g].event /\ hook'[g].seen = hook[g].seen
         /\ hook'[g].next = hook[g].next /\ hook'[g].cancelled = hook[g].cancelled
  BY <1>1 DEF Holds
<1>3. OneHoldsRow'
  BY <1>2 DEF LimitsInv, RowInv, OneHoldsRow
<1>4. CancelsExist'
  BY <1>2 DEF LimitsInv, RowInv, CancelsExist
<1>5. WritesAreCurrent => WritesAreCurrent'
  BY <1>2 DEF WritesAreCurrent, PlanOfEvent
<1>6. PlanLimitTypes' /\ (InStep => InStep')
  BY DEF LimitsInv, PlanLimitTypes, InStep, MeteredInStep, EntitledInStep, QuotaInStep, FeaturesFollow, Due
<1> QED
  BY <1>3, <1>4, <1>5, <1>6 DEF LimitsInv, RowInv

\* A step of a purchase or a change of plan that leaves row, add-ons and deliveries alone.
LEMMA RowStands ==
  ASSUME LimitsInv, UNCHANGED <<sub, addOns, hook>>, subRaced => subRaced'
  PROVE  RowInv'
  BY DEF LimitsInv, RowInv, OneHoldsRow, CancelsExist, WritesAreCurrent, PlanOfEvent, Holds

\* A delivery takes the row.
LEMMA WriteKeepsLimits == ASSUME HookInv, LimitsInv, NEW h \in Hooks, HookWrite(h) PROVE LimitsInv'
<1>1. PICK r \in HookRows : r.pc \in {"derive", "commit"} /\ WrittenBy(h, r)
  BY WriteEffect DEF HookInv
<1>2. /\ \A g \in Hooks : ~Holds(g)
      /\ UNCHANGED <<sub, addOns, quota, entitled, purchase, switch, leftover>>
      /\ subRaced' = (subRaced \/ sub # hook[h].seen)
  BY DEF HookWrite, RowHeld, Holds
<1>3. hook[h].event \in StripeEvents /\ sub \in SubRecord
  BY DEF HookWrite, HookInv, WaitingHasEvent, SubscriptionTypes
<1>4. hook'[h] = r /\ \A g \in Hooks \ {h} : hook'[g] = hook[g]
  BY <1>1 DEF WrittenBy, HookInv, SubscriptionTypes
<1>5. \A g \in Hooks : Holds(g)' => g = h
  BY <1>2, <1>4 DEF Holds
<1>6. OneHoldsRow'
  BY <1>5 DEF OneHoldsRow
<1>7. CancelsExist'
  <2>1. \A k \in AddOnKinds : addOns[k] \in Int /\ addOns[k] >= 0 /\ NoAddOns[k] = 0
    BY DEF LimitsInv, RowInv, CancelsExist, NoAddOns, HookInv, SubscriptionTypes, Amounts
  <2>2. \A k \in AddOnKinds : r.cancelled[k] <= addOns[k]
    BY <1>1, <2>1 DEF WrittenBy
  <2>3. r.event # "deleted" => r.cancelled = NoAddOns
    BY <1>1 DEF WrittenBy
  <2> QED  BY <1>2, <1>4, <1>5, <2>1, <2>2, <2>3 DEF CancelsExist
<1>8. sub = hook[h].seen => WritesAreCurrent'
  <2>1. sub = hook[h].seen => Updated(hook[h].event, hook[h].seen).plan = PlanOfEvent(hook[h])
    BY <1>3 DEF Updated, PlanOfEvent, Subscription, SubRecord, StripeEvents
  <2> QED  BY <1>1, <1>2, <1>4, <1>5, <2>1 DEF WritesAreCurrent, WrittenBy, PlanOfEvent
<1>9. PlanLimitTypes' /\ (InStep => InStep')
  BY <1>2 DEF LimitsInv, PlanLimitTypes, InStep, MeteredInStep, EntitledInStep, QuotaInStep, FeaturesFollow, Due
<1> QED
  BY <1>2, <1>6, <1>7, <1>8, <1>9 DEF LimitsInv, RowInv

\* A delivery writes the row and what it derives from it, and nobody else held the row.
LEMMA CommitKeepsLimits == ASSUME HookInv, LimitsInv, NEW h \in Hooks, HookCommit(h) PROVE LimitsInv'
<1> DEFINE r == hook[h]
<1>1. /\ r \in HookRows /\ r.event \in StripeEvents /\ sub \in SubRecord /\ addOns \in Amounts
      /\ r.addOns \in Amounts /\ r.cancelled \in Amounts /\ r.seen \in SubRecord /\ r.next \in SubRecord
  BY DEF HookCommit, HookInv, WaitingHasEvent, SubscriptionTypes, HookRows
<1>2. /\ hook' = [hook EXCEPT ![h] = IdleHook] /\ Holds(h) /\ UNCHANGED <<purchase, switch>>
      /\ sub' = r.next /\ addOns' = Less(addOns, r.cancelled)
      /\ subRaced' = (subRaced \/ (Derives(r) /\ r.addOns # addOns'))
  BY DEF HookCommit, Holds
<1>3. \A g \in Hooks : ~Holds(g)'
  <2>1. hook'[h].pc = "idle" /\ \A g \in Hooks \ {h} : hook'[g] = hook[g]
    BY <1>2 DEF HookInv, SubscriptionTypes, IdleHook
  <2>2. \A g \in Hooks \ {h} : ~Holds(g)
    BY <1>2 DEF LimitsInv, RowInv, OneHoldsRow
  <2> QED
    BY <2>1, <2>2 DEF Holds
<1>4. addOns' \in Amounts /\ \A k \in AddOnKinds : addOns'[k] >= 0
  <2>1. \A k \in AddOnKinds : r.cancelled[k] <= addOns[k] /\ addOns[k] \in Int /\ r.cancelled[k] \in Int
    BY <1>1, <1>2 DEF LimitsInv, RowInv, CancelsExist, Amounts
  <2>2. \A k \in AddOnKinds : addOns'[k] = addOns[k] - r.cancelled[k]
    BY <1>2 DEF Less
  <2> QED
    BY <1>1, <1>2, <2>1, <2>2, LessType
<1>5. RowInv'
  BY <1>3, <1>4 DEF RowInv, OneHoldsRow, CancelsExist, WritesAreCurrent
<1>6. subRaced \in BOOLEAN /\ leftover \in BOOLEAN /\ entitled.feature \in Nat
  BY DEF LimitsInv, PlanLimitTypes
<1>7. subRaced' \in BOOLEAN /\ (~subRaced' => ~subRaced /\ (Derives(r) => r.addOns = addOns'))
  <2>1. PICK d \in BOOLEAN : d = (Derives(r) /\ r.addOns # addOns')
    OBVIOUS
  <2> QED  BY <1>2, <1>6, <2>1
<1>8. ~subRaced => sub = r.seen /\ r.next.plan = PlanOfEvent(r)
  BY <1>2 DEF LimitsInv, RowInv, WritesAreCurrent
<1>9. CASE Derives(r)
  <2>1. Sync(QuotaPlan(r), r.next.plan, r.addOns)
    BY <1>9 DEF HookCommit
  <2>2. QuotaPlan(r) \in Plans /\ r.next.plan \in Plans
    BY <1>1 DEF QuotaPlan, SubRecord
  <2>3. PICK metered \in Plans : metered = QuotaPlan(r)
    BY <2>2
  <2>4. ~subRaced => metered = sub'.plan
    BY <1>2, <1>8, <2>3 DEF QuotaPlan, PlanOfEvent
  <2>5. /\ quota' \in [plan : Plans, shared : Bases] /\ entitled' \in [shared : Bases, feature : Nat]
        /\ leftover' \in BOOLEAN /\ quota'.plan = metered
        /\ r.addOns = addOns' => entitled'.shared = Due' /\ quota'.shared = Due'
        /\ r.addOns = addOns' /\ r.addOns["feature"] >= 0 => FeaturesFollow'
    <3>1. Sync(metered, r.next.plan, r.addOns)
      BY <2>1, <2>3
    <3>2. r.next.plan = sub'.plan
      BY <1>2
    <3> QED  BY <1>1, <1>6, <2>2, <3>1, <3>2, SyncFollows
  <2>6. PlanLimitTypes'
    BY <1>2, <1>7, <2>5 DEF LimitsInv, PlanLimitTypes
  <2>7. ~subRaced' => InStep'
    <3>1. "feature" \in AddOnKinds
      BY DEF AddOnKinds
    <3> QED
      BY <1>4, <1>7, <1>9, <2>4, <2>5, <3>1 DEF InStep, MeteredInStep, EntitledInStep, QuotaInStep
  <2> QED
    BY <1>5, <2>6, <2>7 DEF LimitsInv
<1>10. CASE ~Derives(r)
  <2>1. UNCHANGED <<quota, entitled, leftover>> /\ r.event # "deleted"
    BY <1>10 DEF HookCommit, Derives
  <2>2. addOns' = addOns
    <3>1. r.cancelled = NoAddOns
      BY <1>2, <2>1 DEF LimitsInv, RowInv, CancelsExist
    <3>2. \A k \in AddOnKinds : addOns[k] - NoAddOns[k] = addOns[k]
      BY <1>1 DEF NoAddOns, Amounts
    <3>3. addOns' = [k \in AddOnKinds |-> addOns[k] - NoAddOns[k]]
      BY <1>2, <3>1 DEF Less
    <3>4. addOns = [k \in AddOnKinds |-> addOns[k]]
      BY <1>1 DEF Amounts
    <3> QED  BY <3>2, <3>3, <3>4
  <2>3. ~subRaced => sub'.plan = sub.plan
    BY <1>1, <1>2, <1>8, <1>10, <2>1 DEF Derives, PlanOfEvent, StripeEvents
  <2>4. PlanLimitTypes'
    BY <1>2, <1>7, <2>1 DEF LimitsInv, PlanLimitTypes
  <2>5. ~subRaced => Due' = Due
    BY <2>2, <2>3 DEF Due
  <2>6. ~subRaced /\ InStep => InStep'
    BY <1>2, <2>1, <2>2, <2>3, <2>5 DEF InStep, MeteredInStep, EntitledInStep, QuotaInStep, FeaturesFollow
  <2> QED
    BY <1>5, <1>7, <2>4, <2>6 DEF LimitsInv
<1> QED
  BY <1>9, <1>10

\* A purchase inserts its add-on and derives from what it has read.
LEMMA PurchaseKeepsLimits == ASSUME HookInv, LimitsInv, PurchaseCommit PROVE LimitsInv'
<1>1. /\ addOns \in Amounts /\ entitled.feature \in Nat /\ leftover \in BOOLEAN /\ subRaced \in BOOLEAN
      /\ quota.plan \in Plans /\ purchase.plan \in Plans /\ purchase.addOns \in Amounts
      /\ purchase.kind \in AddOnKinds
  BY DEF HookInv, SubscriptionTypes, LimitsInv, PlanLimitTypes
<1>2. /\ UNCHANGED <<sub, hook, switch>> /\ addOns' = Bought(addOns, purchase.kind) /\ purchase' = IdlePurchase
      /\ Sync(quota.plan, purchase.plan, purchase.addOns)
      /\ subRaced' = (subRaced \/ purchase.plan # sub.plan \/ purchase.addOns # addOns')
  BY DEF PurchaseCommit
<1>3. \A k \in AddOnKinds : addOns[k] \in Int /\ addOns[k] >= 0
  BY <1>1 DEF LimitsInv, RowInv, CancelsExist, Amounts
<1>4. \A k \in AddOnKinds : addOns'[k] \in Int /\ addOns'[k] >= addOns[k] /\ addOns'[k] >= 0
  BY <1>1, <1>2, <1>3 DEF Bought, Amounts
<1>5. CancelsExist'
  <2>1. \A h \in Hooks : Holds(h) => \A k \in AddOnKinds : hook[h].cancelled[k] \in Int
    BY DEF HookInv, SubscriptionTypes, HookRows, Amounts
  <2> QED
    BY <1>2, <1>3, <1>4, <2>1 DEF LimitsInv, RowInv, CancelsExist, Holds
<1>6. OneHoldsRow' /\ (WritesAreCurrent => WritesAreCurrent')
  BY <1>2 DEF LimitsInv, RowInv, OneHoldsRow, WritesAreCurrent, PlanOfEvent, Holds
<1>7. /\ subRaced' \in BOOLEAN
      /\ ~subRaced' => ~subRaced /\ purchase.plan = sub'.plan /\ purchase.addOns = addOns'
  BY <1>1, <1>2
<1>8. /\ quota' \in [plan : Plans, shared : Bases] /\ entitled' \in [shared : Bases, feature : Nat]
      /\ leftover' \in BOOLEAN /\ quota'.plan = quota.plan
      /\ ~subRaced' => entitled'.shared = Due' /\ quota'.shared = Due' /\ FeaturesFollow'
  <2>1. "feature" \in AddOnKinds
    BY DEF AddOnKinds
  <2> QED  BY <1>1, <1>2, <1>4, <1>7, <2>1, SyncFollows
<1>9. PlanLimitTypes'
  BY <1>2, <1>7, <1>8, NoAddOnsType DEF LimitsInv, PlanLimitTypes, IdlePurchase, AddOnKinds, Plans
<1>10. ~subRaced' => InStep'
  BY <1>2, <1>7, <1>8 DEF LimitsInv, InStep, MeteredInStep, EntitledInStep, QuotaInStep
<1> QED
  BY <1>5, <1>6, <1>7, <1>9, <1>10 DEF LimitsInv, RowInv

\* A change of plan sets, statement by statement, the limits it has computed.
LEMMA SwitchKeepsLimits == ASSUME HookInv, LimitsInv, SwitchStep PROVE LimitsInv'
<1>0. /\ sub \in SubRecord /\ addOns \in Amounts /\ sub.plan \in Plans /\ addOns["shared"] \in Int
      /\ switch \in [pc : SwitchPcs, plan : Plans, seen : Plans, addOns : Amounts]
      /\ quota \in [plan : Plans, shared : Bases] /\ entitled \in [shared : Bases, feature : Nat]
      /\ subRaced \in BOOLEAN /\ leftover \in BOOLEAN
  BY DEF HookInv, SubscriptionTypes, LimitsInv, PlanLimitTypes, SubRecord, Amounts, AddOnKinds
<1>1. switch.addOns["shared"] \in Int /\ switch.addOns["feature"] \in Int
  BY <1>0 DEF Amounts, AddOnKinds
<1>2. Basis(switch.plan, 0) \in Bases /\ SwitchBasis \in Bases
  BY <1>0, <1>1 DEF SwitchBasis, Basis, Bases
<1>3. UNCHANGED <<sub, addOns, hook, purchase>> /\ (subRaced => subRaced')
  <2>1. UNCHANGED <<sub, addOns, hook, purchase>>
    BY DEF SwitchStep, SwitchSharedQuota, SwitchQuota, SwitchReadPlan, SwitchReadAddOns, SwitchEntitle, SwitchLimit,
           SwitchFeature
  <2>2. \/ UNCHANGED subRaced
        \/ \E raced \in BOOLEAN : subRaced' = (subRaced \/ raced)
    BY DEF SwitchStep, SwitchSharedQuota, SwitchQuota, SwitchReadPlan, SwitchReadAddOns, SwitchEntitle, SwitchLimit,
           SwitchFeature
  <2> QED  BY <1>0, <2>1, <2>2
<1>4. RowInv' /\ Due' = Due
  BY <1>3, RowStands DEF Due
<1>5. CASE SwitchSharedQuota
  <2>1. PlanLimitTypes'
    BY <1>0, <1>2, <1>3, <1>5 DEF SwitchSharedQuota, LimitsInv, PlanLimitTypes, SwitchPcs
  <2>2. InStep => InStep'
    BY <1>0, <1>3, <1>4, <1>5
    DEF SwitchSharedQuota, InStep, MeteredInStep, EntitledInStep, QuotaInStep, FeaturesFollow
  <2> QED  BY <1>4, <1>5, <2>1, <2>2 DEF LimitsInv, SwitchSharedQuota
<1>6. CASE SwitchQuota
  <2>1. /\ quota' = [quota EXCEPT !.plan = switch.plan] /\ switch' = [switch EXCEPT !.pc = "plan"]
        /\ subRaced' = (subRaced \/ sub.plan # switch.plan) /\ UNCHANGED <<entitled, leftover>>
    BY <1>6 DEF SwitchQuota
  <2>2. PlanLimitTypes'
    BY <1>0, <1>3, <2>1 DEF LimitsInv, PlanLimitTypes, SwitchPcs
  <2>3. InStep /\ ~subRaced' => InStep'
    BY <1>0, <1>3, <2>1 DEF InStep, MeteredInStep, EntitledInStep, QuotaInStep, FeaturesFollow
  <2> QED  BY <1>3, <1>4, <2>2, <2>3 DEF LimitsInv
<1>7. CASE SwitchReadPlan \/ SwitchReadAddOns
  <2>1. UNCHANGED <<quota, entitled, leftover, subRaced>> /\ switch.pc \in {"plan", "addOns"}
    BY <1>7 DEF SwitchReadPlan, SwitchReadAddOns
  <2>2. switch' \in [pc : {"addOns", "entitle"}, plan : Plans, seen : Plans, addOns : Amounts]
    BY <1>0, <1>7 DEF SwitchReadPlan, SwitchReadAddOns
  <2>3. PlanLimitTypes'
    BY <1>3, <2>1, <2>2 DEF LimitsInv, PlanLimitTypes, SwitchPcs
  <2>4. InStep => InStep'
    BY <1>3, <2>1, <2>2 DEF InStep, MeteredInStep, EntitledInStep, QuotaInStep, FeaturesFollow
  <2> QED  BY <1>4, <2>1, <2>3, <2>4 DEF LimitsInv
<1>8. CASE SwitchEntitle
  <2>1. /\ entitled' = [entitled EXCEPT !.shared = SwitchBasis] /\ switch' = [switch EXCEPT !.pc = "limit"]
        /\ subRaced' = (subRaced \/ SwitchBasis # Due) /\ UNCHANGED <<quota, leftover>> /\ switch.pc = "entitle"
    BY <1>8 DEF SwitchEntitle, SwitchIsStale, Due
  <2>2. PlanLimitTypes'
    BY <1>0, <1>2, <1>3, <2>1 DEF LimitsInv, PlanLimitTypes, SwitchPcs
  <2>3. InStep /\ ~subRaced' => InStep'
    BY <1>0, <1>3, <1>4, <2>1 DEF InStep, MeteredInStep, EntitledInStep, QuotaInStep, FeaturesFollow
  <2> QED  BY <1>3, <1>4, <2>2, <2>3 DEF LimitsInv
<1>9. CASE SwitchLimit
  <2>1. /\ quota' = [quota EXCEPT !.shared = SwitchBasis] /\ switch' = [switch EXCEPT !.pc = "feature"]
        /\ subRaced' = (subRaced \/ SwitchBasis # Due) /\ UNCHANGED <<entitled, leftover>> /\ switch.pc = "limit"
    BY <1>9 DEF SwitchLimit, SwitchIsStale, Due
  <2>2. PlanLimitTypes'
    BY <1>0, <1>2, <1>3, <2>1 DEF LimitsInv, PlanLimitTypes, SwitchPcs
  <2>3. InStep /\ ~subRaced' => InStep'
    BY <1>0, <1>3, <1>4, <2>1 DEF InStep, MeteredInStep, EntitledInStep, QuotaInStep, FeaturesFollow
  <2> QED  BY <1>3, <1>4, <2>2, <2>3 DEF LimitsInv
<1>10. CASE SwitchFeature
  <2>1. PICK f \in Nat : f = FeatureRow(switch.addOns)
    BY <1>0, <1>1 DEF FeatureRow
  <2>2. /\ entitled' = [entitled EXCEPT !.feature = f] /\ switch' = IdleSwitch
        /\ leftover' = (leftover \/ Outlives(switch.addOns))
        /\ subRaced' = (subRaced \/ switch.addOns["feature"] # addOns["feature"])
        /\ UNCHANGED quota /\ switch.pc = "feature"
    BY <1>10, <2>1 DEF SwitchFeature
  <2>3. PlanLimitTypes'
    <3>1. leftover' \in BOOLEAN /\ subRaced' \in BOOLEAN
      BY <1>0, <2>2
    <3>2. switch' \in [pc : SwitchPcs, plan : Plans, seen : Plans, addOns : Amounts]
      BY <2>2, NoAddOnsType DEF IdleSwitch, SwitchPcs, Plans
    <3>3. entitled' \in [shared : Bases, feature : Nat]
      BY <1>0, <2>2
    <3> QED  BY <1>3, <2>2, <3>1, <3>2, <3>3 DEF LimitsInv, PlanLimitTypes
  <2>4. ASSUME ~subRaced' PROVE FeaturesFollow'
    <3>1. switch.addOns["feature"] = addOns["feature"] /\ addOns["feature"] >= 0
      BY <2>2, <2>4 DEF LimitsInv, RowInv, CancelsExist, AddOnKinds
    <3>2. entitled'.feature = f /\ entitled.feature \in Nat
      BY <1>0, <2>2
    <3>3. CASE addOns["feature"] > 0
      BY <1>3, <2>1, <3>1, <3>2, <3>3 DEF FeatureRow, FeaturesFollow
    <3>4. CASE addOns["feature"] = 0
      <4>1. f = entitled.feature
        BY <2>1, <3>1, <3>4 DEF FeatureRow
      <4>2. CASE entitled.feature > 0
        BY <1>3, <2>2, <3>1, <3>4, <4>2 DEF Outlives, FeaturesFollow
      <4>3. CASE entitled.feature = 0
        BY <1>3, <3>2, <3>4, <4>1, <4>3 DEF FeaturesFollow
      <4> QED  BY <3>2, <4>2, <4>3
    <3> QED  BY <1>1, <3>1, <3>3, <3>4
  <2>5. InStep => MeteredInStep' /\ EntitledInStep' /\ QuotaInStep'
    BY <1>0, <1>3, <1>4, <2>2 DEF InStep, MeteredInStep, EntitledInStep, QuotaInStep
  <2> QED  BY <1>3, <1>4, <2>3, <2>4, <2>5 DEF LimitsInv, InStep
<1> QED
  BY <1>5, <1>6, <1>7, <1>8, <1>9, <1>10 DEF SwitchStep

\* Every step keeps the limits in step with the plan.
LEMMA LimitsKeep == HookInv /\ LimitsInv /\ [SubscriptionNext]_subscriptionVars => LimitsInv'
<1> SUFFICES ASSUME HookInv, LimitsInv, [SubscriptionNext]_subscriptionVars PROVE LimitsInv'
  OBVIOUS
<1>0. hook \in [Hooks -> HookRows] /\ sub \in SubRecord /\ addOns \in Amounts
  BY DEF HookInv, SubscriptionTypes
<1>1. CASE UNCHANGED subscriptionVars
  <2>1. RowInv' /\ UNCHANGED <<sub, addOns, quota, entitled, purchase, switch, leftover, subRaced>>
    BY <1>1, RowStands DEF subscriptionVars
  <2>2. PlanLimitTypes' /\ (InStep => InStep')
    BY <2>1 DEF LimitsInv, PlanLimitTypes, InStep, MeteredInStep, EntitledInStep, QuotaInStep, FeaturesFollow, Due
  <2> QED  BY <2>1, <2>2 DEF LimitsInv
<1>2. ASSUME NEW h \in Hooks, NEW e \in StripeEvents, HookStart(h, e) PROVE LimitsInv'
  <2> DEFINE r == [IdleHook EXCEPT !.pc = "record", !.event = e]
  <2>1. r \in HookRows /\ r.pc = "record"
    BY IdleHookType DEF HookRows
  <2>2. /\ hook' = [hook EXCEPT ![h] = r]
        /\ UNCHANGED <<sub, addOns, quota, entitled, purchase, switch, leftover, subRaced>>
    BY <1>2 DEF HookStart
  <2> HIDE DEF r
  <2> QED
    BY <2>1, <2>2, HookElsewhere
<1>3. ASSUME NEW h \in Hooks, HookRecord(h) \/ HookRead(h) \/ HookFails(h) \/ HookDerive(h) PROVE LimitsInv'
  <2>1. UNCHANGED <<sub, addOns, quota, entitled, purchase, switch, leftover, subRaced>>
    BY <1>3 DEF HookRecord, HookRead, HookFails, HookDerive
  <2>2. CASE hook' = [hook EXCEPT ![h] = IdleHook]
    <3>1. IdleHook.pc = "idle"
      BY DEF IdleHook
    <3> QED
      BY <2>1, <2>2, <3>1, IdleHookType, HookElsewhere
  <2>3. CASE hook' = [hook EXCEPT ![h].pc = "read"]
    <3> DEFINE r == [hook[h] EXCEPT !.pc = "read"]
    <3>1. r \in HookRows /\ r.pc = "read" /\ hook' = [hook EXCEPT ![h] = r]
      BY <1>0, <2>3 DEF HookRows
    <3> HIDE DEF r
    <3> QED
      BY <2>1, <3>1, HookElsewhere
  <2>4. CASE hook' = [hook EXCEPT ![h].pc = "write", ![h].seen = sub]
    <3> DEFINE r == [hook[h] EXCEPT !.pc = "write", !.seen = sub]
    <3>1. r \in HookRows /\ r.pc = "write" /\ hook' = [hook EXCEPT ![h] = r]
      BY <1>0, <2>4 DEF HookRows
    <3> HIDE DEF r
    <3> QED
      BY <2>1, <3>1, HookElsewhere
  <2>5. CASE HookDerive(h)
    <3>1. PICK a \in Amounts : a = Less(addOns, hook[h].cancelled)
      BY <1>0, LessType DEF HookRows
    <3>2. PICK r : r = [hook[h] EXCEPT !.pc = "commit", !.addOns = a]
      OBVIOUS
    <3>3. /\ r \in HookRows /\ hook' = [hook EXCEPT ![h] = r]
          /\ r.event = hook[h].event /\ r.seen = hook[h].seen /\ r.next = hook[h].next
          /\ r.cancelled = hook[h].cancelled
      BY <1>0, <2>5, <3>1, <3>2 DEF HookDerive, HookRows
    <3>4. Holds(h)
      BY <2>5 DEF HookDerive, Holds
    <3> QED
      BY <2>1, <3>3, <3>4, HookElsewhere
  <2> QED
    BY <1>3, <2>2, <2>3, <2>4, <2>5 DEF HookRecord, HookRead, HookFails
<1>4. ASSUME NEW h \in Hooks, HookWrite(h) \/ HookCommit(h) PROVE LimitsInv'
  BY <1>4, WriteKeepsLimits, CommitKeepsLimits
<1>5. ASSUME \/ \E kind \in AddOnKinds : PurchaseReadPlan(kind)
             \/ PurchaseReadAddOns \/ PurchaseFails
      PROVE  LimitsInv'
  <2>1. UNCHANGED <<sub, addOns, hook, quota, entitled, switch, leftover, subRaced>>
    BY <1>5 DEF PurchaseReadPlan, PurchaseReadAddOns, PurchaseFails
  <2>2. purchase' \in [pc : {"idle", "read", "commit"}, kind : AddOnKinds, plan : Plans, addOns : Amounts]
    <3>1. /\ purchase \in [pc : {"idle", "read", "commit"}, kind : AddOnKinds, plan : Plans, addOns : Amounts]
          /\ sub.plan \in Plans
      BY <1>0 DEF LimitsInv, PlanLimitTypes, SubRecord
    <3>2. ASSUME NEW kind \in AddOnKinds, PurchaseReadPlan(kind)
          PROVE  purchase' \in [pc : {"idle", "read", "commit"}, kind : AddOnKinds, plan : Plans, addOns : Amounts]
      BY <3>1, <3>2 DEF PurchaseReadPlan
    <3>3. ASSUME PurchaseReadAddOns
          PROVE  purchase' \in [pc : {"idle", "read", "commit"}, kind : AddOnKinds, plan : Plans, addOns : Amounts]
      <4>1. PICK a \in Amounts : a = Bought(addOns, purchase.kind)
        BY <1>0, BoughtType
      <4>2. purchase' = [purchase EXCEPT !.pc = "commit", !.addOns = a]
        BY <3>3, <4>1 DEF PurchaseReadAddOns
      <4> QED  BY <3>1, <4>2
    <3>4. ASSUME PurchaseFails
          PROVE  purchase' \in [pc : {"idle", "read", "commit"}, kind : AddOnKinds, plan : Plans, addOns : Amounts]
      BY <3>4, NoAddOnsType DEF PurchaseFails, IdlePurchase, AddOnKinds, Plans
    <3> QED  BY <1>5, <3>2, <3>3, <3>4
  <2>3. RowInv'
    BY <2>1, RowStands
  <2>4. PlanLimitTypes' /\ (InStep => InStep')
    BY <2>1, <2>2
    DEF LimitsInv, PlanLimitTypes, InStep, MeteredInStep, EntitledInStep, QuotaInStep, FeaturesFollow, Due
  <2> QED  BY <2>1, <2>3, <2>4 DEF LimitsInv
<1>6. CASE PurchaseCommit
  BY <1>6, PurchaseKeepsLimits
<1>7. ASSUME NEW plan \in Plans, SwitchPlan(plan) PROVE LimitsInv'
  <2>1. /\ UNCHANGED <<addOns, hook, quota, entitled, purchase, leftover, subRaced>>
        /\ switch' = [switch EXCEPT !.pc = "quota", !.plan = plan]
        /\ \A h \in Hooks : ~Holds(h)
    BY <1>7 DEF SwitchPlan, RowHeld, Holds
  <2>2. RowInv'
    BY <2>1 DEF LimitsInv, RowInv, OneHoldsRow, CancelsExist, WritesAreCurrent, Holds
  <2>3. PlanLimitTypes'
    BY <2>1 DEF LimitsInv, PlanLimitTypes, SwitchPcs
  <2>4. switch'.pc = "quota"
    BY <2>1 DEF LimitsInv, PlanLimitTypes
  <2>5. InStep => InStep'
    BY <2>1, <2>4 DEF InStep, MeteredInStep, EntitledInStep, QuotaInStep, FeaturesFollow
  <2> QED  BY <2>1, <2>2, <2>3, <2>5 DEF LimitsInv
<1>8. CASE SwitchStep
  BY <1>8, SwitchKeepsLimits
<1>9. CASE SwitchDies
  <2>1. /\ UNCHANGED <<sub, addOns, hook, quota, entitled, purchase, leftover>>
        /\ subRaced' = TRUE /\ switch' = IdleSwitch
    BY <1>9 DEF SwitchDies
  <2>2. PlanLimitTypes'
    BY <2>1, NoAddOnsType DEF LimitsInv, PlanLimitTypes, SwitchPcs, IdleSwitch, Plans
  <2> QED  BY <2>1, <2>2, RowStands DEF LimitsInv
<1> QED
  BY <1>1, <1>2, <1>3, <1>4, <1>5, <1>6, <1>7, <1>8, <1>9 DEF SubscriptionNext

\* Between requests the limits of a tenant are those of its plan and add-ons (plans.ts,
\* entitlement-service.ts), for any number of deliveries, purchases and changes of plan, unless a
\* request used a row that changed or a change of plan died; a feature may outlive its last add-on.
THEOREM LimitsHold == SubscriptionSpec => []LimitsFollowPlan
<1>1. LimitsInv => LimitsFollowPlan
  <2> SUFFICES ASSUME LimitsInv, ~subRaced, switch.pc = "idle" \/ ~PlanLimitsFollow
               PROVE  PlanLimitsFollow /\ FeaturesFollow
    BY DEF LimitsInv, InStep, LimitsFollowPlan
  <2>1. FeaturesFollow
    BY DEF LimitsInv, InStep
  <2>2. CASE switch.pc = "idle"
    <3>1. quota.plan = sub.plan /\ quota.shared = Due /\ entitled.shared = Due
      BY <2>2 DEF LimitsInv, InStep, MeteredInStep, QuotaInStep, EntitledInStep
    <3>2. quota = [plan |-> quota.plan, shared |-> quota.shared]
      BY DEF LimitsInv, PlanLimitTypes
    <3> QED  BY <2>1, <3>1, <3>2 DEF PlanLimitsFollow, Due
  <2> QED  BY <2>1, <2>2 DEF PlanLimitsFollow
<1> QED
  BY <1>1, LimitsInitial, LimitsKeep, HookInvariant, PTL DEF SubscriptionSpec

\* What Stripe reported is in force, each event once, with the limits it brings.
THEOREM PlanHolds == SubscriptionSpec => []PlanIsInForce
BY EventAppliedOnceHolds, LimitsHold, PTL DEF PlanIsInForce
-----------------------------------------------------------------------------
(* Confirmations of tool calls *)

ToolRecord == [pc : ToolSteps, args : Arguments \cup {NoArguments},
               token : ConfirmTokens \cup {NoToken}, acted : BOOLEAN]
TokenRecord == [status : {"unused", "issued", "consumed", "expired"},
                args : Arguments \cup {NoArguments}, caller : Callers \cup {NoCaller}]

ToolTypes ==
    /\ token \in [ConfirmTokens -> TokenRecord]
    /\ toolCall \in [ToolCalls -> ToolRecord]
    /\ effects \in [ConfirmTokens -> Nat]

ToolOrigin == origin \in [ToolCalls -> [replica : Replicas, caller : Callers]]

Risky(x) == x.args \in RiskyArguments

\* The record of a call that was let through under a confirmation.
Confirmed(x) == x.pc \in {"execute", "running", "abandoned"} /\ Risky(x)

\* The token was issued for these arguments and this caller.
Bound(c, x) ==
    /\ x.token \in ConfirmTokens
    /\ token[x.token].status # "unused"
    /\ token[x.token].args = x.args /\ token[x.token].caller = CallerOf(c)

\* Only risky calls are confirmed; a token is looked at before it is consumed.
CallSound(c, x) ==
    /\ x.pc \in {"confirm", "consume"} => Risky(x)
    /\ x.pc = "consume" => Bound(c, x)
    /\ Confirmed(x) => Bound(c, x) /\ token[x.token].status = "consumed"
CallsSound == \A c \in ToolCalls : CallSound(c, toolCall[c])

\* A consumed token has let one call through, and what the tool did under a token
\* it did in that call.
OneCallPerToken ==
    \A c, d \in ToolCalls :
        Confirmed(toolCall[c]) /\ Confirmed(toolCall[d]) /\ toolCall[c].token = toolCall[d].token => c = d
EffectsCounted ==
    /\ \A k \in ConfirmTokens : effects[k] <= 1
    /\ \A k \in ConfirmTokens : token[k].status # "consumed" => effects[k] = 0
    /\ \A c \in ToolCalls : Confirmed(toolCall[c]) /\ ~toolCall[c].acted => effects[toolCall[c].token] = 0

ToolInv == ToolTypes /\ CallsSound /\ OneCallPerToken /\ EffectsCounted

\* What the assumptions say of tokens and arguments.
LEMMA ToolConstants == NoToken \notin ConfirmTokens /\ NoArguments \notin Arguments /\ RiskyArguments \subseteq Arguments
  BY ToolAssumption

\* An invocation that has ended holds no confirmation.
LEMMA IdleToolIsSound ==
  /\ IdleTool \in ToolRecord /\ IdleTool.pc = "idle" /\ ~Confirmed(IdleTool)
  /\ \A c : CallSound(c, IdleTool)
  BY DEF IdleTool, ToolRecord, ToolSteps, Confirmed, CallSound

\* The invariant holds before the first invocation.
LEMMA ToolStart == ToolInit => ToolInv
<1> SUFFICES ASSUME ToolInit PROVE ToolInv
  OBVIOUS
<1>1. ToolTypes
  BY IdleToolIsSound DEF ToolInit, ToolTypes, TokenRecord
<1>2. CallsSound
  BY IdleToolIsSound DEF ToolInit, CallsSound
<1>3. OneCallPerToken /\ EffectsCounted
  BY IdleToolIsSound DEF ToolInit, OneCallPerToken, EffectsCounted
<1> QED
  BY <1>1, <1>2, <1>3 DEF ToolInv

\* A call goes on, or ends, without a token or the tool being touched.
LEMMA CallGoesOn ==
  ASSUME ToolInv, UNCHANGED <<origin, token, effects>>, NEW c \in ToolCalls, NEW x \in ToolRecord,
         toolCall' = [toolCall EXCEPT ![c] = x], CallSound(c, x),
         Confirmed(x) => /\ Confirmed(toolCall[c])
                         /\ x.token = toolCall[c].token /\ x.acted = toolCall[c].acted
  PROVE  ToolInv'
<1>1. /\ toolCall' \in [ToolCalls -> ToolRecord] /\ toolCall'[c] = x
      /\ \A d \in ToolCalls \ {c} : toolCall'[d] = toolCall[d]
  BY DEF ToolInv, ToolTypes
<1>2. ToolTypes'
  BY <1>1 DEF ToolInv, ToolTypes
<1>3. \A d, y : CallSound(d, y) => CallSound(d, y)'
  BY DEF CallSound, Bound, CallerOf, Confirmed, Risky
<1>4. \A d \in ToolCalls : CallSound(d, toolCall'[d])
  BY <1>1 DEF ToolInv, CallsSound
<1>5. CallsSound'
  BY <1>4 DEF CallsSound, CallSound, Bound, CallerOf, Confirmed, Risky
<1>6. \A d \in ToolCalls : Confirmed(toolCall'[d]) =>
        /\ Confirmed(toolCall[d])
        /\ toolCall'[d].token = toolCall[d].token /\ toolCall'[d].acted = toolCall[d].acted
  BY <1>1
<1>7. OneCallPerToken'
  BY <1>6 DEF ToolInv, OneCallPerToken, Confirmed, Risky
<1>8. EffectsCounted'
  BY <1>6 DEF ToolInv, EffectsCounted, Confirmed, Risky
<1> QED
  BY <1>2, <1>5, <1>7, <1>8 DEF ToolInv

\* An invocation that returns puts its confirmation down.
LEMMA ReturnKeeps ==
  ASSUME ToolInv, UNCHANGED <<origin, token, effects>>, NEW c \in ToolCalls, ToolReturn(c) PROVE ToolInv'
  BY CallGoesOn, IdleToolIsSound DEF ToolReturn

\* An invocation goes on only with what its next step requires.
LEMMA GotoKeeps ==
  ASSUME ToolInv, UNCHANGED <<origin, token, effects>>, NEW c \in ToolCalls, NEW pc \in ToolSteps,
         ToolGoto(c, pc),
         pc \in {"confirm", "consume"} => Risky(toolCall[c]),
         pc = "consume" => Bound(c, toolCall[c]),
         pc \in {"execute", "running", "abandoned"} => ~Risky(toolCall[c]) \/ Confirmed(toolCall[c])
  PROVE  ToolInv'
<1> DEFINE x == [toolCall[c] EXCEPT !.pc = pc]
<1>1. /\ x \in ToolRecord /\ x.pc = pc /\ x.args = toolCall[c].args
      /\ x.token = toolCall[c].token /\ x.acted = toolCall[c].acted
  BY DEF ToolInv, ToolTypes, ToolRecord
<1>2. toolCall' = [toolCall EXCEPT ![c] = x]
  BY DEF ToolGoto
<1> HIDE DEF x
<1>3. CallSound(c, toolCall[c])
  BY DEF ToolInv, CallsSound
<1>4. Confirmed(x) => Confirmed(toolCall[c])
  BY <1>1 DEF Confirmed, Risky
<1>5. CallSound(c, x)
  BY <1>1, <1>3, <1>4 DEF CallSound, Bound, Risky
<1> QED
  BY <1>1, <1>2, <1>4, <1>5, CallGoesOn

\* The steps that touch neither a token nor the tool.
LEMMA ToolStepKeeps ==
  ASSUME ToolInv, NEW c \in ToolCalls,
         \/ \E args \in Arguments, k \in ConfirmTokens \cup {NoToken} : BeginCall(c, args, k)
         \/ CheckQuota(c) \/ CheckBudget(c) \/ VerifyToken(c) \/ Admit(c)
         \/ \E cost \in ToolCosts : Succeed(c, cost)
         \/ Fail(c) \/ Forget(c)
  PROVE  ToolInv'
<1>0. toolCall[c] \in ToolRecord /\ CallSound(c, toolCall[c])
  BY DEF ToolInv, ToolTypes, CallsSound
<1>1. ASSUME NEW args \in Arguments, NEW k \in ConfirmTokens \cup {NoToken}, BeginCall(c, args, k)
      PROVE  ToolInv'
  <2> DEFINE x == [pc |-> "quota", args |-> args, token |-> k, acted |-> FALSE]
  <2>1. x \in ToolRecord /\ x.pc = "quota"
    BY DEF ToolRecord, ToolSteps
  <2>2. toolCall' = [toolCall EXCEPT ![c] = x] /\ UNCHANGED <<origin, token, effects>>
    BY <1>1 DEF BeginCall
  <2> HIDE DEF x
  <2>3. CallSound(c, x) /\ ~Confirmed(x)
    BY <2>1 DEF CallSound, Confirmed
  <2> QED
    BY <2>1, <2>2, <2>3, CallGoesOn
<1>2. CASE CheckQuota(c)
  BY <1>2, ReturnKeeps, GotoKeeps DEF CheckQuota, ToolSteps
<1>3. CASE CheckBudget(c)
  BY <1>3, ReturnKeeps, GotoKeeps DEF CheckBudget, ToolSteps, Risky
<1>4. CASE VerifyToken(c)
  <2>1. UNCHANGED <<origin, token, effects>>
    BY <1>4 DEF VerifyToken
  <2>2. CASE TokenFits(c, toolCall[c].token)
    <3>1. Risky(toolCall[c]) /\ toolCall[c].token \in ConfirmTokens
      BY <1>0, <1>4 DEF VerifyToken, ToolAt, CallSound, ToolRecord
    <3>2. Bound(c, toolCall[c])
      BY <2>2, <3>1 DEF TokenFits, Bound
    <3>3. ToolGoto(c, "consume")
      BY <1>4, <2>2 DEF VerifyToken
    <3> QED
      BY <2>1, <3>1, <3>2, <3>3, GotoKeeps DEF ToolSteps
  <2>3. CASE ~TokenFits(c, toolCall[c].token)
    BY <1>4, <2>1, <2>3, ReturnKeeps DEF VerifyToken
  <2> QED
    BY <2>2, <2>3
<1>5. CASE Admit(c)
  <2>1. UNCHANGED <<origin, token, effects>> /\ toolCall[c].pc = "execute"
    BY <1>5 DEF Admit, ToolAt
  <2>2. ToolGoto(c, "running") \/ ToolReturn(c)
    BY <1>5 DEF Admit
  <2>3. ~Risky(toolCall[c]) \/ Confirmed(toolCall[c])
    BY <2>1 DEF Confirmed
  <2> QED
    BY <2>1, <2>2, <2>3, ReturnKeeps, GotoKeeps DEF ToolSteps
<1>6. ASSUME NEW cost \in ToolCosts, Succeed(c, cost) PROVE ToolInv'
  BY <1>6, ReturnKeeps DEF Succeed
<1>7. CASE Fail(c)
  <2>1. UNCHANGED <<origin, token, effects>> /\ toolCall[c].pc = "running"
    BY <1>7 DEF Fail, ToolAt
  <2>2. ToolGoto(c, "abandoned") \/ ToolReturn(c)
    BY <1>7 DEF Fail
  <2>3. ~Risky(toolCall[c]) \/ Confirmed(toolCall[c])
    BY <2>1 DEF Confirmed
  <2> QED
    BY <2>1, <2>2, <2>3, ReturnKeeps, GotoKeeps DEF ToolSteps
<1>8. CASE Forget(c)
  BY <1>8, ReturnKeeps DEF Forget
<1> QED
  BY <1>1, <1>2, <1>3, <1>4, <1>5, <1>6, <1>7, <1>8

\* A token changes hands or ends, and no call is let through by that.
LEMMA TokenMoves ==
  ASSUME ToolInv, UNCHANGED <<origin, toolCall, effects>>, NEW k \in ConfirmTokens, NEW t \in TokenRecord,
         token' = [token EXCEPT ![k] = t],
         token[k].status # "consumed", t.status \notin {"unused", "consumed"},
         token[k].status = "unused" \/ (t.args = token[k].args /\ t.caller = token[k].caller)
  PROVE  ToolInv'
<1>1. /\ token' \in [ConfirmTokens -> TokenRecord] /\ token'[k] = t
      /\ \A j \in ConfirmTokens \ {k} : token'[j] = token[j]
  BY DEF ToolInv, ToolTypes
<1>2. ToolTypes' /\ OneCallPerToken'
  BY <1>1 DEF ToolInv, ToolTypes, OneCallPerToken, Confirmed, Risky
<1>3. CallsSound'
  BY <1>1 DEF ToolInv, CallsSound, CallSound, Bound, CallerOf, Confirmed, Risky
<1>4. EffectsCounted'
  BY <1>1 DEF ToolInv, EffectsCounted, Confirmed, Risky
<1> QED
  BY <1>2, <1>3, <1>4 DEF ToolInv

\* A new token is bound to the arguments and the user of its invocation.
LEMMA IssueKeeps ==
  ASSUME ToolInv, ToolOrigin, NEW c \in ToolCalls, NEW k \in ConfirmTokens,
         IssueToken(c, k)
  PROVE  ToolInv'
<1> DEFINE t == [status |-> "issued", args |-> toolCall[c].args, caller |-> CallerOf(c)]
<1>1. token[k].status = "unused" /\ token' = [token EXCEPT ![k] = t]
      /\ toolCall' = [toolCall EXCEPT ![c] = IdleTool] /\ UNCHANGED <<origin, effects>>
  BY DEF IssueToken, ToolReturn
<1>2. t \in TokenRecord /\ t.status = "issued"
  BY DEF ToolInv, ToolTypes, ToolRecord, TokenRecord, ToolOrigin, CallerOf
<1> HIDE DEF t
<1>3. /\ token' \in [ConfirmTokens -> TokenRecord] /\ token'[k] = t
      /\ \A j \in ConfirmTokens \ {k} : token'[j] = token[j]
  BY <1>1, <1>2 DEF ToolInv, ToolTypes
<1>4. /\ toolCall' \in [ToolCalls -> ToolRecord] /\ toolCall'[c] = IdleTool
      /\ \A d \in ToolCalls \ {c} : toolCall'[d] = toolCall[d]
  BY <1>1, IdleToolIsSound DEF ToolInv, ToolTypes
<1>5. ToolTypes'
  BY <1>1, <1>3, <1>4 DEF ToolInv, ToolTypes
<1>6. CallsSound'
  <2> SUFFICES ASSUME NEW d \in ToolCalls PROVE CallSound(d, toolCall[d])'
    BY DEF CallsSound
  <2>1. CASE d = c
    BY <2>1, <1>4 DEF CallSound, Confirmed, IdleTool
  <2>2. CASE d # c
    BY <2>2, <1>1, <1>2, <1>3, <1>4 DEF ToolInv, CallsSound, CallSound, Bound, CallerOf, Confirmed, Risky
  <2> QED
    BY <2>1, <2>2
<1>7. \A d \in ToolCalls : Confirmed(toolCall[d])' => Confirmed(toolCall[d]) /\ toolCall'[d] = toolCall[d]
  BY <1>4 DEF Confirmed, Risky, IdleTool
<1>8. OneCallPerToken' /\ EffectsCounted'
  BY <1>1, <1>2, <1>3, <1>7 DEF ToolInv, OneCallPerToken, EffectsCounted
<1> QED
  BY <1>5, <1>6, <1>8 DEF ToolInv

\* A token that expires was not consumed.
LEMMA ToolExpireKeeps == ASSUME ToolInv, NEW k \in ConfirmTokens, ExpireToken(k) PROVE ToolInv'
<1> DEFINE t == [token[k] EXCEPT !.status = "expired"]
<1>1. t \in TokenRecord /\ t.status = "expired" /\ t.args = token[k].args /\ t.caller = token[k].caller
  BY DEF ToolInv, ToolTypes, TokenRecord
<1>2. /\ token[k].status = "issued" /\ token' = [token EXCEPT ![k] = t]
      /\ UNCHANGED <<origin, toolCall, effects>>
  BY DEF ExpireToken
<1> HIDE DEF t
<1> QED
  BY <1>1, <1>2, TokenMoves

\* The compare-and-set on consumed_at lets one call through.
LEMMA ConsumeKeeps == ASSUME ToolInv, NEW c \in ToolCalls, ConsumeToken(c) PROVE ToolInv'
<1>1. CASE ~Unconsumed(toolCall[c].token)
  BY <1>1, ReturnKeeps DEF ConsumeToken
<1>2. CASE Unconsumed(toolCall[c].token)
  <2>0. toolCall[c].pc = "consume" /\ CallSound(c, toolCall[c]) /\ toolCall[c] \in ToolRecord
    BY DEF ConsumeToken, ToolAt, ToolInv, ToolTypes, CallsSound
  <2>1. PICK k \in ConfirmTokens : k = toolCall[c].token
    BY <2>0 DEF CallSound, Bound
  <2> DEFINE t == [token[k] EXCEPT !.status = "consumed"]
  <2> DEFINE x == [toolCall[c] EXCEPT !.pc = "execute"]
  <2>2. /\ token[k].status = "issued" /\ token' = [token EXCEPT ![k] = t]
        /\ toolCall' = [toolCall EXCEPT ![c] = x] /\ UNCHANGED <<origin, effects>>
    BY <1>2, <2>1 DEF ConsumeToken, Unconsumed, ToolGoto
  <2>3. t \in TokenRecord /\ t.status = "consumed" /\ t.args = token[k].args /\ t.caller = token[k].caller
    BY DEF ToolInv, ToolTypes, TokenRecord
  <2>4. x \in ToolRecord /\ x.pc = "execute" /\ x.args = toolCall[c].args /\ x.token = k
    BY <2>0, <2>1 DEF ToolRecord, ToolSteps
  <2> HIDE DEF t, x
  <2>5. /\ token' \in [ConfirmTokens -> TokenRecord] /\ token'[k] = t
        /\ \A j \in ConfirmTokens \ {k} : token'[j] = token[j]
    BY <2>2, <2>3 DEF ToolInv, ToolTypes
  <2>6. /\ toolCall' \in [ToolCalls -> ToolRecord] /\ toolCall'[c] = x
        /\ \A d \in ToolCalls \ {c} : toolCall'[d] = toolCall[d]
    BY <2>2, <2>4 DEF ToolInv, ToolTypes
  <2>7. \A d \in ToolCalls : Confirmed(toolCall[d]) => toolCall[d].token # k
    BY <2>2 DEF ToolInv, CallsSound, CallSound
  <2>8. ToolTypes'
    BY <2>2, <2>5, <2>6 DEF ToolInv, ToolTypes
  <2>9. CallsSound'
    <3> SUFFICES ASSUME NEW d \in ToolCalls PROVE CallSound(d, toolCall[d])'
      BY DEF CallsSound
    <3>1. CASE d = c
      BY <3>1, <2>0, <2>1, <2>2, <2>3, <2>4, <2>5, <2>6 DEF CallSound, Bound, CallerOf, Confirmed, Risky
    <3>2. CASE d # c
      BY <3>2, <2>2, <2>3, <2>5, <2>6 DEF ToolInv, CallsSound, CallSound, Bound, CallerOf, Confirmed, Risky
    <3> QED
      BY <3>1, <3>2
  <2>10. OneCallPerToken'
    BY <2>4, <2>6, <2>7 DEF ToolInv, OneCallPerToken, Confirmed, Risky
  <2>11. effects[k] = 0
    BY <2>2 DEF ToolInv, EffectsCounted
  <2>12. EffectsCounted'
    BY <2>2, <2>3, <2>4, <2>5, <2>6, <2>11 DEF ToolInv, EffectsCounted, Confirmed, Risky
  <2> QED
    BY <2>8, <2>9, <2>10, <2>12 DEF ToolInv
<1> QED
  BY <1>1, <1>2

\* The tool acts once in a call, and only this call holds its token.
LEMMA ActKeeps == ASSUME ToolInv, NEW c \in ToolCalls, ToolActs(c) PROVE ToolInv'
<1> DEFINE x == [toolCall[c] EXCEPT !.acted = TRUE]
<1>1. /\ toolCall[c].pc \in {"running", "abandoned"} /\ ~toolCall[c].acted
      /\ toolCall' = [toolCall EXCEPT ![c] = x] /\ UNCHANGED <<origin, token>>
  BY DEF ToolActs, ToolAt
<1>2. /\ x \in ToolRecord /\ x.pc = toolCall[c].pc /\ x.args = toolCall[c].args
      /\ x.token = toolCall[c].token /\ x.acted
  BY DEF ToolInv, ToolTypes, ToolRecord
<1>3. effects' = [k \in ConfirmTokens |-> IF k = toolCall[c].token /\ Confirmed(toolCall[c])
                                          THEN effects[k] + 1 ELSE effects[k]]
  BY <1>1 DEF ToolActs, Confirmed, Risky
<1> HIDE DEF x
<1>4. /\ toolCall' \in [ToolCalls -> ToolRecord] /\ toolCall'[c] = x
      /\ \A d \in ToolCalls \ {c} : toolCall'[d] = toolCall[d]
  BY <1>1, <1>2 DEF ToolInv, ToolTypes
<1>5. effects' \in [ConfirmTokens -> Nat]
  BY <1>3 DEF ToolInv, ToolTypes
<1>6. ToolTypes'
  BY <1>1, <1>4, <1>5 DEF ToolInv, ToolTypes
<1>7. CallsSound'
  BY <1>1, <1>2, <1>4 DEF ToolInv, CallsSound, CallSound, Bound, CallerOf, Confirmed, Risky
<1>8. OneCallPerToken'
  BY <1>1, <1>2, <1>4 DEF ToolInv, OneCallPerToken, Confirmed, Risky
<1>9. EffectsCounted'
  <2>1. CASE ~Confirmed(toolCall[c])
    <3>1. \A k \in ConfirmTokens : effects'[k] = effects[k]
      BY <1>3, <2>1
    <3>2. \A d \in ToolCalls : Confirmed(toolCall[d])' => d # c
      BY <1>2, <1>4, <2>1 DEF Confirmed, Risky
    <3>3. \A d \in ToolCalls : Confirmed(toolCall[d]) => toolCall[d].token \in ConfirmTokens
      BY DEF ToolInv, CallsSound, CallSound, Bound
    <3> QED
      BY <1>1, <1>4, <3>1, <3>2, <3>3 DEF ToolInv, EffectsCounted, Confirmed, Risky
  <2>2. CASE Confirmed(toolCall[c])
    <3>1. PICK k \in ConfirmTokens : k = toolCall[c].token /\ token[k].status = "consumed"
      BY <2>2 DEF ToolInv, CallsSound, CallSound, Bound
    <3>2. effects[k] = 0
      BY <1>1, <2>2, <3>1 DEF ToolInv, EffectsCounted
    <3>3. \A j \in ConfirmTokens : effects'[j] = IF j = k THEN 1 ELSE effects[j]
      BY <1>3, <2>2, <3>1, <3>2
    <3>4. \A d \in ToolCalls : Confirmed(toolCall[d])' /\ ~toolCall'[d].acted =>
            /\ d # c /\ Confirmed(toolCall[d]) /\ toolCall'[d] = toolCall[d]
            /\ toolCall[d].token \in ConfirmTokens /\ toolCall[d].token # k
      BY <1>2, <1>4, <2>2, <3>1 DEF ToolInv, OneCallPerToken, CallsSound, CallSound, Bound, Confirmed, Risky
    <3> QED
      BY <1>1, <3>1, <3>3, <3>4 DEF ToolInv, EffectsCounted
  <2> QED
    BY <2>1, <2>2
<1> QED
  BY <1>6, <1>7, <1>8, <1>9 DEF ToolInv

\* A restart drops calls, and abandons those whose tool runs.
LEMMA RestartKeeps == ASSUME ToolInv, NEW r \in Replicas, RestartReplica(r) PROVE ToolInv'
<1>1. UNCHANGED <<origin, token, effects>>
  BY DEF RestartReplica
<1>2. \A c \in ToolCalls : \/ toolCall'[c] = toolCall[c]
                           \/ toolCall'[c] = IdleTool
                           \/ toolCall[c].pc = "running" /\ toolCall'[c] = [toolCall[c] EXCEPT !.pc = "abandoned"]
  BY DEF RestartReplica, ToolAt
<1>3. \A c \in ToolCalls : toolCall[c] \in ToolRecord
  BY DEF ToolInv, ToolTypes
<1>4. \A c \in ToolCalls : /\ toolCall'[c] \in ToolRecord
                           /\ Confirmed(toolCall[c])' => /\ Confirmed(toolCall[c])
                                                         /\ toolCall'[c].token = toolCall[c].token
                                                         /\ toolCall'[c].args = toolCall[c].args
                                                         /\ toolCall'[c].acted = toolCall[c].acted
                           /\ \/ toolCall'[c] = toolCall[c]
                              \/ toolCall'[c].pc \in {"idle", "abandoned"}
  <2> TAKE c \in ToolCalls
  <2>1. CASE toolCall'[c] = toolCall[c]
    BY <2>1, <1>3 DEF Confirmed, Risky
  <2>2. CASE toolCall'[c] = IdleTool
    BY <2>2, IdleToolIsSound DEF Confirmed, Risky
  <2>3. CASE toolCall[c].pc = "running" /\ toolCall'[c] = [toolCall[c] EXCEPT !.pc = "abandoned"]
    BY <2>3, <1>3 DEF Confirmed, Risky, ToolRecord, ToolSteps
  <2> QED
    BY <1>2, <2>1, <2>2, <2>3
<1>5. ToolTypes'
  BY <1>1, <1>4 DEF RestartReplica, ToolInv, ToolTypes
<1>6. CallsSound'
  BY <1>1, <1>4 DEF ToolInv, CallsSound, CallSound, Bound, CallerOf, Confirmed, Risky
<1>7. OneCallPerToken' /\ EffectsCounted'
  BY <1>1, <1>4 DEF ToolInv, OneCallPerToken, EffectsCounted
<1> QED
  BY <1>5, <1>6, <1>7 DEF ToolInv

\* The invariant of tool calls, for any number of calls, replicas and tokens.
THEOREM ToolInvariant == ToolSpec => [](ToolInv /\ ToolOrigin)
<1>1. ToolInit => ToolInv /\ ToolOrigin
  BY ToolStart DEF ToolInit, ToolOrigin
<1>2. ASSUME ToolInv, ToolOrigin, [ToolNext]_toolVars PROVE (ToolInv /\ ToolOrigin)'
  <2>1. UNCHANGED origin
    BY <1>2 DEF ToolNext, ToolStep, BeginCall, CheckQuota, CheckBudget, IssueToken, VerifyToken, ConsumeToken,
                Admit, ToolActs, Succeed, Fail, Forget, ExpireToken, RestartReplica, toolVars
  <2>2. ASSUME NEW c \in ToolCalls, ToolStep(c) PROVE ToolInv'
    BY <1>2, <2>2, ToolStepKeeps, IssueKeeps, ConsumeKeeps, ActKeeps DEF ToolStep, ToolOrigin
  <2>3. ASSUME NEW k \in ConfirmTokens, ExpireToken(k) PROVE ToolInv'
    BY <1>2, <2>3, ToolExpireKeeps
  <2>4. ASSUME NEW r \in Replicas, RestartReplica(r) PROVE ToolInv'
    BY <1>2, <2>4, RestartKeeps
  <2>5. CASE UNCHANGED toolVars
    <3>1. UNCHANGED <<origin, token, toolCall, effects>>
      BY <2>5 DEF toolVars
    <3>2. ToolTypes'
      BY <1>2, <3>1 DEF ToolInv, ToolTypes
    <3>3. CallsSound'
      BY <1>2, <3>1 DEF ToolInv, CallsSound, CallSound, Bound, CallerOf, Confirmed, Risky
    <3>4. OneCallPerToken' /\ EffectsCounted'
      BY <1>2, <3>1 DEF ToolInv, OneCallPerToken, EffectsCounted, Confirmed, Risky
    <3> QED
      BY <1>2, <3>1, <3>2, <3>3, <3>4 DEF ToolInv, ToolOrigin
  <2> QED
    BY <1>2, <2>1, <2>2, <2>3, <2>4, <2>5 DEF ToolNext, ToolOrigin
<1> QED
  BY <1>1, <1>2, PTL DEF ToolSpec

\* A confirmation lets the tool act once, whatever calls, retries and restarts share
\* its token (ConfirmationTokenStore.consume and the pipeline around it).
THEOREM EffectsHold == ToolSpec => []OneEffectPerConfirmation
<1>1. ToolInv => OneEffectPerConfirmation
  BY DEF ToolInv, EffectsCounted, OneEffectPerConfirmation
<1> QED
  BY <1>1, ToolInvariant, PTL

\* What runs is what was confirmed, by the one who asked for it.
THEOREM ConfirmedHolds == ToolSpec => []RunsAsConfirmed
<1>1. ASSUME ToolInv PROVE RunsAsConfirmed
  <2> SUFFICES ASSUME NEW c \in ToolCalls, ToolAt(c, "running"), toolCall[c].args \in RiskyArguments
               PROVE  LET k == toolCall[c].token IN
                      /\ k # NoToken
                      /\ token[k] = [status |-> "consumed", args |-> toolCall[c].args, caller |-> CallerOf(c)]
    BY DEF RunsAsConfirmed
  <2>1. Bound(c, toolCall[c]) /\ token[toolCall[c].token].status = "consumed"
    BY <1>1 DEF ToolInv, CallsSound, CallSound, Confirmed, Risky, ToolAt
  <2>2. toolCall[c].token \in ConfirmTokens /\ token[toolCall[c].token] \in TokenRecord
    BY <1>1, <2>1 DEF Bound, ToolInv, ToolTypes
  <2> QED
    BY <2>1, <2>2, ToolConstants DEF Bound, TokenRecord
<1> QED
  BY <1>1, ToolInvariant, PTL

\* A confirmation is used once, for what was confirmed, by whichever replica.
THEOREM ConfirmationHolds == ToolSpec => []ConfirmedOnce
BY EffectsHold, ConfirmedHolds, PTL DEF ConfirmedOnce
-----------------------------------------------------------------------------
(* Quotas, budgets and probes of tool calls *)

BreakerRecord == [state : {"closed", "open", "half_open"}, failures : 0..FailureThreshold, probes : Nat]
LimitTypes ==
    /\ invocations \in [count : Nat, cost : Nat]
    /\ breaker \in [Replicas -> BreakerRecord]

UseInv == LimitTypes /\ QuotaOverrunBounded /\ BudgetOverrunBounded /\ ProbesAccounted

\* What the assumptions say of the limits.
LEMMA LimitConstants ==
    /\ IsFiniteSet(ToolCalls) /\ ToolCosts \subseteq Nat
    /\ MaxPerDay \in Nat /\ MaxPerDay > 0 /\ DailyBudget \in Nat /\ DailyBudget > 0
    /\ FailureThreshold \in Nat /\ FailureThreshold > 0 /\ HalfOpenMax \in Nat /\ HalfOpenMax > 0
  BY ToolAssumption

\* A set of calls is finite and has no more members than there are calls.
LEMMA CallsAreFew ==
  ASSUME NEW S, S \subseteq ToolCalls
  PROVE  IsFiniteSet(S) /\ Cardinality(S) \in Nat /\ Cardinality(S) <= Cardinality(ToolCalls)
  BY LimitConstants, FS_Subset, FS_CardinalityType

\* The calls that may exceed a limit: fewer go on, or the limit is not reached, or one of
\* them is recorded.
LEMMA QuotaMoves ==
  ASSUME LimitTypes, QuotaOverrunBounded, LimitTypes',
         \/ invocations'.count = invocations.count /\ PastQuota' \subseteq PastQuota
         \/ invocations'.count = invocations.count /\ invocations.count < MaxPerDay
         \/ /\ invocations'.count = invocations.count + 1
            /\ \E c \in PastQuota : PastQuota' \subseteq PastQuota \ {c}
  PROVE  QuotaOverrunBounded'
<1> DEFINE P == PastQuota
           Q == PastQuota'
           n == invocations.count
<1>1. P \subseteq ToolCalls /\ Q \subseteq ToolCalls
  BY DEF PastQuota
<1>2. n \in Nat /\ n + Cardinality(P) < MaxPerDay + Cardinality(ToolCalls)
  BY DEF LimitTypes, QuotaOverrunBounded
<1>3. invocations'.count \in Nat
  BY DEF LimitTypes
<1> SUFFICES invocations'.count + Cardinality(Q) < MaxPerDay + Cardinality(ToolCalls)
  BY DEF QuotaOverrunBounded
<1> HIDE DEF P, Q, n
<1>4. /\ Cardinality(P) \in Nat /\ Cardinality(Q) \in Nat /\ Cardinality(ToolCalls) \in Nat
      /\ IsFiniteSet(P) /\ Cardinality(Q) <= Cardinality(ToolCalls)
  BY <1>1, CallsAreFew
<1>5. CASE invocations'.count = n /\ Q \subseteq P
  <2>1. Cardinality(Q) <= Cardinality(P)
    BY <1>4, <1>5, FS_Subset
  <2> QED
    BY <1>2, <1>4, <1>5, <2>1, LimitConstants
<1>6. CASE invocations'.count = n /\ n < MaxPerDay
  BY <1>2, <1>4, <1>6, LimitConstants
<1>7. ASSUME invocations'.count = n + 1, NEW c \in P, Q \subseteq P \ {c}
      PROVE  invocations'.count + Cardinality(Q) < MaxPerDay + Cardinality(ToolCalls)
  <2>1. Cardinality(P \ {c}) = Cardinality(P) - 1 /\ IsFiniteSet(P \ {c})
    BY <1>4, FS_RemoveElement
  <2>2. Cardinality(Q) <= Cardinality(P \ {c})
    BY <1>7, <2>1, FS_Subset
  <2> QED
    BY <1>2, <1>4, <1>7, <2>1, <2>2, LimitConstants
<1> QED
  BY <1>5, <1>6, <1>7 DEF P, Q, n

\* More calls past a check cost no less.
LEMMA CostGrows == ASSUME NEW m \in Nat, NEW a \in Nat, NEW b \in Nat, a <= b PROVE m * a <= m * b
<1>1. PICK d \in Nat : b = a + d
  <2>1. b - a \in Nat /\ b = a + (b - a)
    OBVIOUS
  <2> QED
    BY <2>1
<1>2. m * b = m * a + m * d /\ m * d >= 0 /\ m * a \in Int
  BY <1>1
<1> QED
  BY <1>2

\* The same of the budget, where a call adds its cost.
LEMMA BudgetMoves ==
  ASSUME LimitTypes, BudgetOverrunBounded, LimitTypes',
         \/ invocations'.cost = invocations.cost /\ PastBudget' \subseteq PastBudget
         \/ invocations'.cost = invocations.cost /\ invocations.cost < DailyBudget
         \/ \E c \in PastBudget, cost \in ToolCosts :
               invocations'.cost = invocations.cost + cost /\ PastBudget' \subseteq PastBudget \ {c}
  PROVE  BudgetOverrunBounded'
<1> SUFFICES ASSUME NEW m \in ToolCosts, \A n \in ToolCosts : n <= m
             PROVE  invocations'.cost + m * Cardinality(PastBudget')
                      < DailyBudget + m * Cardinality(ToolCalls)
  BY DEF BudgetOverrunBounded
<1> DEFINE P == PastBudget
           Q == PastBudget'
           all == Cardinality(ToolCalls)
           n == invocations.cost
<1>1. P \subseteq ToolCalls /\ Q \subseteq ToolCalls
  BY DEF PastBudget
<1>2. n \in Nat /\ n + m * Cardinality(P) < DailyBudget + m * all
  BY DEF LimitTypes, BudgetOverrunBounded
<1>3. invocations'.cost \in Nat /\ m \in Nat
  BY LimitConstants DEF LimitTypes
<1> HIDE DEF P, n
<1>4. /\ Cardinality(P) \in Nat /\ Cardinality(Q) \in Nat /\ all \in Nat
      /\ IsFiniteSet(P) /\ Cardinality(Q) <= all
  BY <1>1, CallsAreFew
<1> HIDE DEF Q, all
<1>5. CASE invocations'.cost = n /\ Q \subseteq P
  <2>1. Cardinality(Q) <= Cardinality(P)
    BY <1>4, <1>5, FS_Subset
  <2>2. m * Cardinality(Q) <= m * Cardinality(P)
    BY <1>3, <1>4, <2>1, CostGrows
  <2>3. m * Cardinality(Q) \in Int /\ m * Cardinality(P) \in Int /\ m * all \in Int
    BY <1>3, <1>4
  <2> QED
    BY <1>2, <1>5, <2>2, <2>3, LimitConstants DEF Q, all
<1>6. CASE invocations'.cost = n /\ n < DailyBudget
  <2>1. m * Cardinality(Q) <= m * all
    BY <1>3, <1>4, CostGrows
  <2>2. m * Cardinality(Q) \in Int /\ m * all \in Int
    BY <1>3, <1>4
  <2> QED
    BY <1>2, <1>6, <2>1, <2>2, LimitConstants DEF Q, all
<1>7. ASSUME NEW c \in P, NEW cost \in ToolCosts, invocations'.cost = n + cost, Q \subseteq P \ {c}
      PROVE  invocations'.cost + m * Cardinality(Q) < DailyBudget + m * all
  <2>1. Cardinality(P \ {c}) = Cardinality(P) - 1 /\ IsFiniteSet(P \ {c})
    BY <1>4, FS_RemoveElement
  <2>2. Cardinality(Q) <= Cardinality(P \ {c})
    BY <1>7, <2>1, FS_Subset
  <2>3. cost \in Nat /\ cost <= m
    BY LimitConstants
  <2>4. Cardinality(Q) + 1 <= Cardinality(P)
    BY <1>4, <2>1, <2>2
  <2>5. m * (Cardinality(Q) + 1) <= m * Cardinality(P)
    BY <1>3, <1>4, <2>4, CostGrows
  <2>6. m * (Cardinality(Q) + 1) = m * Cardinality(Q) + m
    BY <1>3, <1>4
  <2>7. m * Cardinality(Q) \in Int /\ m * Cardinality(P) \in Int /\ m * all \in Int
    BY <1>3, <1>4
  <2> QED
    BY <1>2, <1>3, <1>7, <2>3, <2>5, <2>6, <2>7, LimitConstants
<1> QED
  BY <1>5, <1>6, <1>7 DEF P, Q, n, all

\* The steps at which a call counts.
QuotaSteps == {"budget", "confirm", "consume", "execute", "running"}
BudgetSteps == {"confirm", "consume", "execute", "running"}

\* What the step of one call makes of the sets it may be in.
LEMMA SetsMove ==
  ASSUME ToolTypes, NEW c \in ToolCalls, NEW x, toolCall' = [toolCall EXCEPT ![c] = x], UNCHANGED origin
  PROVE  /\ (x.pc \in QuotaSteps /\ toolCall[c].pc \notin QuotaSteps) \/ PastQuota' \subseteq PastQuota
         /\ x.pc \notin QuotaSteps => PastQuota' \subseteq PastQuota \ {c}
         /\ (x.pc \in BudgetSteps /\ toolCall[c].pc \notin BudgetSteps) \/ PastBudget' \subseteq PastBudget
         /\ x.pc \notin BudgetSteps => PastBudget' \subseteq PastBudget \ {c}
         /\ \A r \in Replicas : r # HomeOf(c) => InFlight(r)' = InFlight(r)
         /\ \A r \in Replicas : r = HomeOf(c) =>
               InFlight(r)' = IF x.pc = "running" THEN InFlight(r) \cup {c} ELSE InFlight(r) \ {c}
<1>1. toolCall'[c] = x /\ \A d \in ToolCalls \ {c} : toolCall'[d] = toolCall[d]
  BY DEF ToolTypes
<1>2. \A d \in ToolCalls : HomeOf(d)' = HomeOf(d)
  BY DEF HomeOf
<1>3. /\ (x.pc \in QuotaSteps /\ toolCall[c].pc \notin QuotaSteps) \/ PastQuota' \subseteq PastQuota
      /\ x.pc \notin QuotaSteps => PastQuota' \subseteq PastQuota \ {c}
  BY <1>1 DEF PastQuota, QuotaSteps
<1>4. /\ (x.pc \in BudgetSteps /\ toolCall[c].pc \notin BudgetSteps) \/ PastBudget' \subseteq PastBudget
      /\ x.pc \notin BudgetSteps => PastBudget' \subseteq PastBudget \ {c}
  BY <1>1 DEF PastBudget, BudgetSteps
<1>5. \A r \in Replicas : r # HomeOf(c) => InFlight(r)' = InFlight(r)
  BY <1>1, <1>2 DEF InFlight, ToolAt
<1>6. \A r \in Replicas : r = HomeOf(c) =>
        InFlight(r)' = IF x.pc = "running" THEN InFlight(r) \cup {c} ELSE InFlight(r) \ {c}
  BY <1>1, <1>2 DEF InFlight, ToolAt
<1> QED
  BY <1>3, <1>4, <1>5, <1>6

\* A step that neither records an invocation nor uses a breaker passes a check at most.
LEMMA UseKept ==
  ASSUME UseInv, UNCHANGED <<invocations, breaker>>,
         PastQuota' \subseteq PastQuota \/ invocations.count < MaxPerDay,
         PastBudget' \subseteq PastBudget \/ invocations.cost < DailyBudget,
         \A r \in Replicas : InFlight(r)' = InFlight(r)
  PROVE  UseInv'
<1>1. LimitTypes'
  BY DEF UseInv, LimitTypes
<1>2. QuotaOverrunBounded'
  BY <1>1, QuotaMoves DEF UseInv
<1>3. BudgetOverrunBounded'
  BY <1>1, BudgetMoves DEF UseInv
<1>4. ProbesAccounted'
  BY DEF UseInv, ProbesAccounted
<1> QED
  BY <1>1, <1>2, <1>3, <1>4 DEF UseInv

\* The same for the step of a call.
LEMMA CallKeepsUse ==
  ASSUME ToolInv, UseInv, NEW c \in ToolCalls, NEW x, toolCall' = [toolCall EXCEPT ![c] = x],
         UNCHANGED <<origin, invocations, breaker>>,
         x.pc \notin QuotaSteps \/ toolCall[c].pc \in QuotaSteps \/ invocations.count < MaxPerDay,
         x.pc \notin BudgetSteps \/ toolCall[c].pc \in BudgetSteps \/ invocations.cost < DailyBudget,
         x.pc = "running" <=> toolCall[c].pc = "running"
  PROVE  UseInv'
<1>1. /\ PastQuota' \subseteq PastQuota \/ invocations.count < MaxPerDay
      /\ PastBudget' \subseteq PastBudget \/ invocations.cost < DailyBudget
      /\ \A r \in Replicas : r # HomeOf(c) => InFlight(r)' = InFlight(r)
      /\ \A r \in Replicas : r = HomeOf(c) =>
            InFlight(r)' = IF x.pc = "running" THEN InFlight(r) \cup {c} ELSE InFlight(r) \ {c}
  BY SetsMove DEF ToolInv
<1>2. \A r \in Replicas : InFlight(r)' = InFlight(r)
  <2> SUFFICES ASSUME NEW r \in Replicas, r = HomeOf(c) PROVE InFlight(r)' = InFlight(r)
    BY <1>1
  <2>1. InFlight(r)' = IF x.pc = "running" THEN InFlight(r) \cup {c} ELSE InFlight(r) \ {c}
    BY <1>1
  <2>2. c \in InFlight(r) <=> x.pc = "running"
    BY DEF InFlight, ToolAt
  <2> QED
    BY <2>1, <2>2
<1> QED
  BY <1>1, <1>2, UseKept

\* The steps of a call before its admission, and after its tool was called.
LEMMA CheckStepsKeepUse ==
  ASSUME ToolInv, UseInv, NEW c \in ToolCalls,
         \/ \E args \in Arguments, k \in ConfirmTokens \cup {NoToken} : BeginCall(c, args, k)
         \/ CheckQuota(c) \/ CheckBudget(c)
         \/ \E k \in ConfirmTokens : IssueToken(c, k)
         \/ VerifyToken(c) \/ ConsumeToken(c) \/ ToolActs(c) \/ Forget(c)
  PROVE  UseInv'
<1>1. toolCall[c] \in ToolRecord /\ UNCHANGED <<origin, invocations, breaker>>
  BY DEF ToolInv, ToolTypes, BeginCall, CheckQuota, CheckBudget, IssueToken, VerifyToken, ConsumeToken,
         ToolActs, Forget
<1>2. IdleTool.pc = "idle"
  BY DEF IdleTool
<1>3. ASSUME ToolReturn(c), ~ToolAt(c, "running") PROVE UseInv'
  BY <1>1, <1>2, <1>3, CallKeepsUse DEF ToolReturn, ToolAt, QuotaSteps, BudgetSteps
<1>4. ASSUME NEW pc \in ToolSteps, ToolGoto(c, pc), pc # "running", ~ToolAt(c, "running"),
             pc \notin QuotaSteps \/ toolCall[c].pc \in QuotaSteps \/ invocations.count < MaxPerDay,
             pc \notin BudgetSteps \/ toolCall[c].pc \in BudgetSteps \/ invocations.cost < DailyBudget
      PROVE  UseInv'
  <2> DEFINE x == [toolCall[c] EXCEPT !.pc = pc]
  <2>1. toolCall' = [toolCall EXCEPT ![c] = x] /\ x.pc = pc
    BY <1>1, <1>4 DEF ToolGoto, ToolRecord
  <2> HIDE DEF x
  <2> QED
    BY <1>1, <1>4, <2>1, CallKeepsUse DEF ToolAt
<1>5. ASSUME NEW args \in Arguments, NEW k \in ConfirmTokens \cup {NoToken}, BeginCall(c, args, k)
      PROVE  UseInv'
  <2> DEFINE x == [pc |-> "quota", args |-> args, token |-> k, acted |-> FALSE]
  <2>1. toolCall' = [toolCall EXCEPT ![c] = x] /\ x.pc = "quota" /\ toolCall[c].pc = "idle"
    BY <1>5 DEF BeginCall, ToolAt
  <2> HIDE DEF x
  <2> QED
    BY <1>1, <2>1, CallKeepsUse DEF QuotaSteps, BudgetSteps
<1>6. CASE CheckQuota(c)
  BY <1>3, <1>4, <1>6 DEF CheckQuota, WithinQuota, ToolAt, ToolSteps, QuotaSteps, BudgetSteps
<1>7. CASE CheckBudget(c)
  BY <1>3, <1>4, <1>7 DEF CheckBudget, WithinBudget, ToolAt, ToolSteps, QuotaSteps, BudgetSteps
<1>8. ASSUME NEW k \in ConfirmTokens, IssueToken(c, k) PROVE UseInv'
  BY <1>3, <1>8 DEF IssueToken, ToolAt
<1>9. CASE VerifyToken(c) \/ ConsumeToken(c)
  BY <1>3, <1>4, <1>9 DEF VerifyToken, ConsumeToken, ToolAt, ToolSteps, QuotaSteps, BudgetSteps
<1>10. CASE ToolActs(c)
  <2> DEFINE x == [toolCall[c] EXCEPT !.acted = TRUE]
  <2>1. toolCall' = [toolCall EXCEPT ![c] = x] /\ x.pc = toolCall[c].pc
    BY <1>1, <1>10 DEF ToolActs, ToolRecord
  <2> HIDE DEF x
  <2> QED
    BY <1>1, <2>1, CallKeepsUse
<1>11. CASE Forget(c)
  BY <1>3, <1>11 DEF Forget, ToolAt
<1> QED
  BY <1>5, <1>6, <1>7, <1>8, <1>9, <1>10, <1>11

\* Recording a success or a failure keeps a breaker's type, and no half-open breaker stays so.
LEMMA RecordedBreaker ==
  ASSUME NEW b \in BreakerRecord
  PROVE  /\ RecordSuccess(b) \in BreakerRecord /\ RecordSuccess(b).state # "half_open"
         /\ RecordFailure(b) \in BreakerRecord /\ RecordFailure(b).state # "half_open"
<1>1. RecordSuccess(b) \in BreakerRecord /\ RecordSuccess(b).state # "half_open"
  BY LimitConstants DEF RecordSuccess, InitialBreaker, BreakerRecord
<1> DEFINE n == IF b.failures < FailureThreshold THEN b.failures + 1 ELSE b.failures
           s == IF b.state = "half_open" \/ n >= FailureThreshold THEN "open" ELSE b.state
<1>2. RecordFailure(b) = [b EXCEPT !.failures = n, !.state = s]
  BY DEF RecordFailure
<1>3. n \in 0..FailureThreshold /\ s \in {"closed", "open"}
  BY LimitConstants DEF BreakerRecord
<1> HIDE DEF n, s
<1>4. RecordFailure(b) \in BreakerRecord /\ RecordFailure(b).state # "half_open"
  BY <1>2, <1>3 DEF BreakerRecord
<1> QED
  BY <1>1, <1>4

\* A call that ends takes its place among those that passed, and decides a half-open breaker.
LEMMA EndKeepsUse ==
  ASSUME ToolInv, UseInv, ToolOrigin, NEW c \in ToolCalls,
         (\E cost \in ToolCosts : Succeed(c, cost)) \/ Fail(c)
  PROVE  UseInv'
<1>1. /\ HomeOf(c) \in Replicas /\ UNCHANGED origin /\ toolCall[c] \in ToolRecord
      /\ toolCall[c].pc = "running" /\ breaker[HomeOf(c)] \in BreakerRecord
  BY DEF ToolOrigin, HomeOf, ToolInv, ToolTypes, UseInv, LimitTypes, Succeed, Fail, ToolAt
<1>2. PICK x : toolCall' = [toolCall EXCEPT ![c] = x] /\ x.pc \in {"idle", "abandoned"}
  <2>1. CASE ToolReturn(c)
    <3>1. IdleTool.pc = "idle"
      BY DEF IdleTool
    <3> QED
      BY <2>1, <3>1 DEF ToolReturn
  <2>2. CASE ToolGoto(c, "abandoned")
    <3> DEFINE x == [toolCall[c] EXCEPT !.pc = "abandoned"]
    <3>1. toolCall' = [toolCall EXCEPT ![c] = x] /\ x.pc = "abandoned"
      BY <1>1, <2>2 DEF ToolGoto, ToolRecord
    <3> QED
      BY <3>1
  <2> QED
    BY <2>1, <2>2 DEF Succeed, Fail
<1>3. PICK b \in BreakerRecord : breaker' = [breaker EXCEPT ![HomeOf(c)] = b] /\ b.state # "half_open"
  <2>1. CASE breaker' = [breaker EXCEPT ![HomeOf(c)] = RecordSuccess(breaker[HomeOf(c)])]
    BY <1>1, <2>1, RecordedBreaker
  <2>2. CASE breaker' = [breaker EXCEPT ![HomeOf(c)] = RecordFailure(breaker[HomeOf(c)])]
    BY <1>1, <2>2, RecordedBreaker
  <2> QED
    BY <2>1, <2>2 DEF Succeed, Fail
<1>4. /\ PastQuota' \subseteq PastQuota \ {c} /\ PastBudget' \subseteq PastBudget \ {c}
      /\ \A r \in Replicas : r # HomeOf(c) => InFlight(r)' = InFlight(r)
      /\ c \in PastQuota /\ c \in PastBudget
  BY <1>1, <1>2, SetsMove DEF ToolInv, QuotaSteps, BudgetSteps, PastQuota, PastBudget
<1>5. \/ UNCHANGED invocations
      \/ \E cost \in ToolCosts : invocations' = [count |-> invocations.count + 1, cost |-> invocations.cost + cost]
  BY DEF Succeed, Fail
<1>6. LimitTypes'
  BY <1>1, <1>3, <1>5, LimitConstants DEF UseInv, LimitTypes
<1>7. QuotaOverrunBounded'
  BY <1>4, <1>5, <1>6, QuotaMoves DEF UseInv
<1>8. BudgetOverrunBounded'
  BY <1>4, <1>5, <1>6, BudgetMoves DEF UseInv
<1>9. ProbesAccounted'
  BY <1>1, <1>3, <1>4 DEF UseInv, LimitTypes, ProbesAccounted
<1> QED
  BY <1>6, <1>7, <1>8, <1>9 DEF UseInv

\* A call that a breaker lets through is one of its probes, if it is half-open.
LEMMA AdmitKeepsUse ==
  ASSUME ToolInv, UseInv, ToolOrigin, NEW c \in ToolCalls, Admit(c) PROVE UseInv'
<1>0. PICK r \in Replicas : r = HomeOf(c)
  BY DEF ToolOrigin, HomeOf
<1>1. /\ UNCHANGED <<origin, invocations>> /\ toolCall[c] \in ToolRecord
      /\ toolCall[c].pc = "execute" /\ breaker[r] \in BreakerRecord
  BY DEF ToolInv, ToolTypes, UseInv, LimitTypes, Admit, ToolAt
<1>2. PICK b \in Evaluated(r) :
         IF CanExecute(b)
         THEN breaker' = [breaker EXCEPT ![r] = HalfOpenAttempt(b)] /\ ToolGoto(c, "running")
         ELSE breaker' = [breaker EXCEPT ![r] = b] /\ ToolReturn(c)
  BY <1>0 DEF Admit
<1>3. /\ b \in BreakerRecord
      /\ b.state = "half_open" => b.probes = Cardinality(InFlight(r)) /\ b.probes <= HalfOpenMax
  <2>1. CASE b = breaker[r]
    BY <1>1, <2>1 DEF UseInv, ProbesAccounted
  <2>2. CASE b # breaker[r]
    <3>1. InFlight(r) = {} /\ b = [breaker[r] EXCEPT !.state = "half_open", !.probes = 0]
      BY <1>2, <2>2 DEF Evaluated
    <3>2. b \in BreakerRecord /\ b.probes = 0
      BY <1>1, <3>1 DEF BreakerRecord
    <3> QED
      BY <3>1, <3>2, FS_EmptySet, LimitConstants
  <2> QED
    BY <2>1, <2>2
<1>4. c \notin InFlight(r) /\ IsFiniteSet(InFlight(r)) /\ Cardinality(InFlight(r)) \in Nat
  <2>1. InFlight(r) \subseteq ToolCalls
    BY DEF InFlight
  <2> QED
    BY <1>1, <2>1, CallsAreFew DEF InFlight, ToolAt
<1>5. CASE CanExecute(b)
  <2> DEFINE x == [toolCall[c] EXCEPT !.pc = "running"]
  <2>1. toolCall' = [toolCall EXCEPT ![c] = x] /\ x.pc = "running"
    BY <1>1, <1>2, <1>5 DEF ToolGoto, ToolRecord
  <2> HIDE DEF x
  <2>2. /\ PastQuota' \subseteq PastQuota /\ PastBudget' \subseteq PastBudget
        /\ \A q \in Replicas : q # r => InFlight(q)' = InFlight(q)
        /\ InFlight(r)' = InFlight(r) \cup {c}
    BY <1>0, <1>1, <2>1, SetsMove DEF ToolInv, QuotaSteps, BudgetSteps
  <2>3. breaker' = [breaker EXCEPT ![r] = HalfOpenAttempt(b)] /\ HalfOpenAttempt(b) \in BreakerRecord
    BY <1>2, <1>3, <1>5 DEF HalfOpenAttempt, BreakerRecord
  <2>4. HalfOpenAttempt(b).state = "half_open" =>
          HalfOpenAttempt(b).probes = Cardinality(InFlight(r)) + 1 /\ HalfOpenAttempt(b).probes <= HalfOpenMax
    BY <1>3, <1>5, LimitConstants DEF HalfOpenAttempt, CanExecute, BreakerRecord
  <2>5. Cardinality(InFlight(r)') = Cardinality(InFlight(r)) + 1
    BY <1>4, <2>2, FS_AddElement
  <2>6. ProbesAccounted'
    <3>1. /\ breaker'[r] = HalfOpenAttempt(b)
          /\ \A q \in Replicas : q # r => breaker'[q] = breaker[q]
      BY <1>1, <2>3 DEF UseInv, LimitTypes
    <3>2. \A q \in Replicas : q # r => Cardinality(InFlight(q)') = Cardinality(InFlight(q))
      BY <2>2, Zenon
    <3> QED
      BY <2>4, <2>5, <3>1, <3>2 DEF UseInv, ProbesAccounted
  <2>7. LimitTypes'
    BY <1>1, <2>3 DEF UseInv, LimitTypes
  <2>8. QuotaOverrunBounded' /\ BudgetOverrunBounded'
    BY <1>1, <2>2, <2>7, QuotaMoves, BudgetMoves DEF UseInv
  <2> QED
    BY <2>6, <2>7, <2>8 DEF UseInv
<1>6. CASE ~CanExecute(b)
  <2>1. toolCall' = [toolCall EXCEPT ![c] = IdleTool] /\ IdleTool.pc = "idle"
    BY <1>2, <1>6 DEF ToolReturn, IdleTool
  <2>2. /\ PastQuota' \subseteq PastQuota /\ PastBudget' \subseteq PastBudget
        /\ \A q \in Replicas : q # r => InFlight(q)' = InFlight(q)
        /\ InFlight(r)' = InFlight(r) \ {c}
    BY <1>0, <1>1, <2>1, SetsMove DEF ToolInv, QuotaSteps, BudgetSteps
  <2>3. InFlight(r)' = InFlight(r)
    BY <1>4, <2>2
  <2>4. breaker' = [breaker EXCEPT ![r] = b]
    BY <1>2, <1>6
  <2>5. ProbesAccounted'
    <3>1. breaker'[r] = b /\ \A q \in Replicas : q # r => breaker'[q] = breaker[q]
      BY <1>1, <2>4 DEF UseInv, LimitTypes
    <3>2. /\ \A q \in Replicas : q # r => Cardinality(InFlight(q)') = Cardinality(InFlight(q))
          /\ Cardinality(InFlight(r)') = Cardinality(InFlight(r))
      BY <2>2, <2>3, Zenon
    <3> QED
      BY <1>3, <3>1, <3>2 DEF UseInv, ProbesAccounted
  <2>6. LimitTypes'
    BY <1>1, <1>3, <2>4 DEF UseInv, LimitTypes
  <2>7. QuotaOverrunBounded' /\ BudgetOverrunBounded'
    BY <1>1, <2>2, <2>6, QuotaMoves, BudgetMoves DEF UseInv
  <2> QED
    BY <2>5, <2>6, <2>7 DEF UseInv
<1> QED
  BY <1>5, <1>6

\* A restart forgets a breaker and leaves no call of its replica in flight.
LEMMA RestartKeepsUse == ASSUME ToolInv, UseInv, NEW r \in Replicas, RestartReplica(r) PROVE UseInv'
<1>1. /\ UNCHANGED <<origin, invocations>> /\ breaker' = [breaker EXCEPT ![r] = InitialBreaker]
      /\ \A d \in ToolCalls : HomeOf(d)' = HomeOf(d)
  BY DEF RestartReplica, HomeOf
<1>2. \A d \in ToolCalls : /\ HomeOf(d) # r => toolCall'[d] = toolCall[d]
                           /\ HomeOf(d) = r => toolCall'[d].pc \in {"idle", "abandoned"}
  <2> SUFFICES ASSUME NEW d \in ToolCalls
               PROVE  /\ HomeOf(d) # r => toolCall'[d] = toolCall[d]
                      /\ HomeOf(d) = r => toolCall'[d].pc \in {"idle", "abandoned"}
    OBVIOUS
  <2>1. toolCall[d] \in ToolRecord
    BY DEF ToolInv, ToolTypes
  <2>2. [toolCall[d] EXCEPT !.pc = "abandoned"].pc = "abandoned"
    BY <2>1 DEF ToolRecord
  <2> QED
    BY <2>2 DEF RestartReplica, ToolAt, IdleTool
<1>3. PastQuota' \subseteq PastQuota /\ PastBudget' \subseteq PastBudget
  BY <1>2 DEF PastQuota, PastBudget
<1>4. \A q \in Replicas : q # r => InFlight(q)' = InFlight(q)
  BY <1>1, <1>2 DEF InFlight, ToolAt
<1>5. InitialBreaker \in BreakerRecord /\ InitialBreaker.state # "half_open"
  BY LimitConstants DEF InitialBreaker, BreakerRecord
<1>6. LimitTypes'
  BY <1>1, <1>5 DEF UseInv, LimitTypes
<1>7. QuotaOverrunBounded' /\ BudgetOverrunBounded'
  BY <1>1, <1>3, <1>6, QuotaMoves, BudgetMoves DEF UseInv
<1>8. ProbesAccounted'
  BY <1>1, <1>4, <1>5 DEF UseInv, LimitTypes, ProbesAccounted
<1> QED
  BY <1>6, <1>7, <1>8 DEF UseInv

\* Nothing has been used at first.
LEMMA UseStart == ToolInit => UseInv
<1> SUFFICES ASSUME ToolInit PROVE UseInv
  OBVIOUS
<1>1. LimitTypes
  BY LimitConstants DEF ToolInit, LimitTypes, InitialBreaker, BreakerRecord
<1>2. PastQuota = {} /\ PastBudget = {}
  BY DEF ToolInit, PastQuota, PastBudget, IdleTool
<1>3. invocations.count = 0 /\ invocations.cost = 0 /\ Cardinality(ToolCalls) \in Nat
  BY CallsAreFew DEF ToolInit
<1>4. QuotaOverrunBounded
  BY <1>2, <1>3, LimitConstants, FS_EmptySet DEF QuotaOverrunBounded
<1>5. BudgetOverrunBounded
  <2> SUFFICES ASSUME NEW m \in ToolCosts
               PROVE  0 + m * Cardinality(PastBudget) < DailyBudget + m * Cardinality(ToolCalls)
    BY <1>3 DEF BudgetOverrunBounded
  <2>1. Cardinality(PastBudget) = 0 /\ m \in Nat
    BY <1>2, FS_EmptySet, LimitConstants
  <2>2. m * Cardinality(ToolCalls) \in Nat /\ m * 0 = 0
    BY <1>3, <2>1
  <2> QED
    BY <2>1, <2>2, LimitConstants
<1>6. ProbesAccounted
  BY DEF ToolInit, ProbesAccounted, InitialBreaker
<1> QED
  BY <1>1, <1>4, <1>5, <1>6 DEF UseInv

\* The limits hold on what is in flight, for any number of calls and replicas.
LEMMA UseStep == ToolInv /\ ToolOrigin /\ UseInv /\ [ToolNext]_toolVars => UseInv'
<1> SUFFICES ASSUME ToolInv, ToolOrigin, UseInv, [ToolNext]_toolVars PROVE UseInv'
  OBVIOUS
<1>1. ASSUME NEW c \in ToolCalls, ToolStep(c) PROVE UseInv'
  BY <1>1, CheckStepsKeepUse, AdmitKeepsUse, EndKeepsUse DEF ToolStep
<1>2. ASSUME UNCHANGED <<origin, invocations, breaker, toolCall>> PROVE UseInv'
  BY <1>2, UseKept DEF PastQuota, PastBudget, InFlight, ToolAt, HomeOf
<1>3. ASSUME NEW k \in ConfirmTokens, ExpireToken(k) PROVE UseInv'
  BY <1>2, <1>3 DEF ExpireToken
<1>4. ASSUME NEW r \in Replicas, RestartReplica(r) PROVE UseInv'
  BY <1>4, RestartKeepsUse
<1>5. CASE UNCHANGED toolVars
  BY <1>2, <1>5 DEF toolVars
<1> QED
  BY <1>1, <1>3, <1>4, <1>5 DEF ToolNext

\* The daily quota and the budget are exceeded by no more than the calls in flight, and a
\* half-open breaker has no more probes than it may (checkQuota, checkBudget, CircuitBreaker),
\* for any number of calls and replicas, any limits and any costs.
THEOREM UseHolds == ToolSpec => []UseWithinLimits
<1>1. ToolInv /\ ToolOrigin /\ UseInv => UseWithinLimits
  BY DEF ToolInv, ToolTypes, ToolOrigin, UseInv, LimitTypes, UseWithinLimits, ToolTypeOK, ToolRecord,
         TokenRecord, BreakerRecord
<1>2. ToolSpec => []UseInv
  BY UseStart, UseStep, ToolInvariant, PTL DEF ToolSpec
<1> QED
  BY <1>1, <1>2, ToolInvariant, PTL
=============================================================================
