--------------------------- MODULE Runtime_proofs ---------------------------
(***************************************************************************)
(* Delegated runs and delegated tasks.  For any number of sessions,        *)
(* requests and recovery workers: what is stored is a state the code       *)
(* knows, retries are bounded, an active session is watched, and a         *)
(* submitted result stays submitted.  For any organisation, any number of  *)
(* execute calls and replicas: a task runs once at a time, by a worker     *)
(* with its skills, and an approval lets one run through.  For any         *)
(* companies, staff and requests: organisations stay trees and escalations *)
(* are answered once.                                                      *)
(***************************************************************************)
EXTENDS RuntimeSession, Workforce, OrgChart, Integers, FiniteSetTheorems, SequenceTheorems,
        WellFoundedInduction, TLAPS

SessionRecord == [state : StoredStates, retries : Nat, due : BOOLEAN, ended : BOOLEAN]
ListedRow == [session : Sessions, state : ActiveStates, retries : Nat]

\* A worker lists a session once; only a session that exists has a deadline, and
\* only an ended one can be resurrected.
ListedOnce ==
    \A w \in Recoverers : \A x, y \in recovery[w] : x.session = y.session => x = y
DueExists == \A s \in Sessions : session[s].due => StateOf(s) # "absent"
ResurrectedEnded == \A s \in resurrected : session[s].ended
HandlingIsReal ==
    \A h \in Handlers : handling[h] # NoHandling =>
        handling[h].session \in Sessions /\ handling[h].op \in Operations

\* The workers that would still retry s from their list.
RowIn(w, s, row) == row \in recovery[w] /\ row.session = s /\ row.retries < MaxRetries
LateRetriers(s) == {w \in Recoverers : \E row \in recovery[w] : RowIn(w, s, row)}

\* At the limit, nobody lists a session for another retry: those left use up the
\* retries of the other workers.
RetriesLeft(s) ==
    session[s].retries >= MaxRetries =>
        session[s].retries + Cardinality(LateRetriers(s)) <= MaxRetries + Cardinality(Recoverers) - 1

RuntimeInv ==
    /\ RuntimeTypeOK /\ ListedOnce /\ DueExists /\ ResurrectedEnded /\ HandlingIsReal
    /\ ActiveIsWatched
    /\ \A s \in Sessions : RetriesLeft(s)

\* What the assumptions say of sessions, retries and recovery workers.
LEMMA RuntimeConstants ==
    /\ NoSession \notin Sessions /\ MaxRetries \in Nat
    /\ IsFiniteSet(Recoverers) /\ Cardinality(Recoverers) \in Nat /\ Cardinality(Recoverers) >= 1
<1>1. Cardinality(Recoverers) \in Nat /\ Cardinality(Recoverers) # 0
  BY RuntimeAssumption, FS_CardinalityType, FS_EmptySet
<1> QED
  BY <1>1, RuntimeAssumption

\* The workers that would still retry a session are finitely many.
LEMMA LateRetriersFinite ==
  ASSUME NEW s
  PROVE  /\ IsFiniteSet(LateRetriers(s)) /\ Cardinality(LateRetriers(s)) \in Nat
         /\ Cardinality(LateRetriers(s)) <= Cardinality(Recoverers)
<1>1. LateRetriers(s) \subseteq Recoverers
  BY DEF LateRetriers
<1> QED
  BY <1>1, RuntimeConstants, FS_Subset, FS_CardinalityType
-----------------------------------------------------------------------------
\* The invariant holds before the first session.
LEMMA RuntimeStart == RuntimeInit => RuntimeInv
<1> SUFFICES ASSUME RuntimeInit PROVE RuntimeInv
  OBVIOUS
<1>1. RuntimeTypeOK
  BY DEF RuntimeInit, RuntimeTypeOK, StoredStates, AssignmentStates, NoHandling, ActiveStates
<1>2. ListedOnce
  BY DEF RuntimeInit, ListedOnce
<1>3. /\ resurrected = {}
      /\ \A s \in Sessions : /\ session[s].due = FALSE /\ session[s].ended = FALSE
                             /\ session[s].state = "absent"
  BY DEF RuntimeInit
<1>4. DueExists /\ ResurrectedEnded /\ HandlingIsReal
  BY <1>3 DEF RuntimeInit, DueExists, ResurrectedEnded, HandlingIsReal
<1>5. ActiveIsWatched
  BY <1>3 DEF ActiveIsWatched, StateOf, TerminalStates
<1>6. ASSUME NEW s \in Sessions PROVE RetriesLeft(s)
  <2>1. LateRetriers(s) = {} /\ session[s].retries = 0
    BY DEF RuntimeInit, LateRetriers
  <2> QED
    BY <2>1, FS_EmptySet, RuntimeConstants DEF RetriesLeft
<1> QED
  BY <1>1, <1>2, <1>4, <1>5, <1>6 DEF RuntimeInv

\* A step that leaves the lists alone and retries nothing.
LEMMA RetriesStay ==
  ASSUME RuntimeInv, NEW s \in Sessions, session'[s].retries = session[s].retries,
         UNCHANGED recovery
  PROVE  RetriesLeft(s)'
  BY DEF RuntimeInv, RetriesLeft, LateRetriers, RowIn

\* A step that changes one session, and does not retry it.
LEMMA SessionStep ==
  ASSUME RuntimeInv, NEW s \in Sessions, NEW r \in SessionRecord,
         session' = [session EXCEPT ![s] = r], r.retries = session[s].retries,
         r.due => r.state # "absent",
         assignment' \in AssignmentStates, resurrected' \subseteq Sessions,
         handling' \in [Handlers -> [op : Operations \cup {"none"}, session : Sessions \cup {NoSession}]],
         HandlingIsReal', UNCHANGED recovery,
         resurrected \subseteq resurrected', resurrected' \subseteq resurrected \cup {s},
         s \in resurrected' => r.ended,
         s \notin resurrected' => (r.ended <=> r.state \in TerminalStates)
  PROVE  RuntimeInv'
<1>1. session'[s] = r /\ \A q \in Sessions \ {s} : session'[q] = session[q]
  BY DEF RuntimeInv, RuntimeTypeOK
<1>2. RuntimeTypeOK'
  BY DEF RuntimeInv, RuntimeTypeOK, SessionRecord
<1>3. ListedOnce'
  BY DEF RuntimeInv, ListedOnce
<1>4. DueExists' /\ ActiveIsWatched'
  BY <1>1 DEF RuntimeInv, DueExists, ActiveIsWatched, StateOf
<1>5. ResurrectedEnded'
  BY <1>1 DEF RuntimeInv, RuntimeTypeOK, ResurrectedEnded
<1>6. \A q \in Sessions : RetriesLeft(q)'
  BY <1>1, RetriesStay
<1> QED
  BY <1>2, <1>3, <1>4, <1>5, <1>6 DEF RuntimeInv

\* A step that leaves the sessions alone and makes no list.
LEMMA OtherStep ==
  ASSUME RuntimeInv, UNCHANGED <<session, recovery, resurrected>>,
         assignment' \in AssignmentStates, HandlingIsReal',
         handling' \in [Handlers -> [op : Operations \cup {"none"}, session : Sessions \cup {NoSession}]]
  PROVE  RuntimeInv'
<1>1. RuntimeTypeOK'
  BY DEF RuntimeInv, RuntimeTypeOK
<1>2. ListedOnce' /\ DueExists' /\ ResurrectedEnded' /\ ActiveIsWatched'
  BY DEF RuntimeInv, ListedOnce, DueExists, ResurrectedEnded, ActiveIsWatched, StateOf
<1>3. \A q \in Sessions : RetriesLeft(q)'
  BY RetriesStay
<1> QED
  BY <1>1, <1>2, <1>3 DEF RuntimeInv

\* A step that only takes rows off one worker's list.
LEMMA ShorterList ==
  ASSUME RuntimeInv, NEW w \in Recoverers, NEW L \in SUBSET recovery[w],
         recovery' = [recovery EXCEPT ![w] = L], UNCHANGED <<assignment, handling, resurrected>>
  PROVE  /\ recovery' \in [Recoverers -> SUBSET ListedRow]
         /\ ListedOnce'
         /\ \A s \in Sessions : LateRetriers(s)' \subseteq LateRetriers(s)
<1>1. \A v \in Recoverers : recovery'[v] \subseteq recovery[v]
  BY DEF RuntimeInv, RuntimeTypeOK
<1>2. recovery' \in [Recoverers -> SUBSET ListedRow]
  BY DEF RuntimeInv, RuntimeTypeOK, ListedRow
<1>3. ListedOnce'
  BY <1>1 DEF RuntimeInv, ListedOnce
<1>4. \A s \in Sessions : LateRetriers(s)' \subseteq LateRetriers(s)
  BY <1>1 DEF LateRetriers, RowIn
<1> QED
  BY <1>2, <1>3, <1>4

\* Without a new retry, fewer lists leave the bound as it was.
LEMMA RetriesLeftWhenFewer ==
  ASSUME RuntimeInv, NEW s \in Sessions, session'[s].retries = session[s].retries,
         LateRetriers(s)' \subseteq LateRetriers(s)
  PROVE  RetriesLeft(s)'
<1>1. /\ Cardinality(LateRetriers(s)') <= Cardinality(LateRetriers(s))
      /\ Cardinality(LateRetriers(s)') \in Nat /\ Cardinality(LateRetriers(s)) \in Nat
  BY LateRetriersFinite, FS_Subset, FS_CardinalityType
<1>2. session[s].retries \in Nat
  BY DEF RuntimeInv, RuntimeTypeOK
<1> QED
  BY <1>1, <1>2, RuntimeConstants DEF RuntimeInv, RetriesLeft

\* A listed row with retries left, in a list that is about to be made, shows a
\* session with retries left.
LEMMA ListKeeps == ASSUME RuntimeInv, NEW w \in Recoverers, ListOverdue(w) PROVE RuntimeInv'
<1> DEFINE RowFor(s) == [session |-> s, state |-> StateOf(s), retries |-> session[s].retries]
<1> DEFINE L == {RowFor(s) : s \in {q \in Sessions : Overdue(q)}}
<1>1. recovery' = [recovery EXCEPT ![w] = L] /\ UNCHANGED <<session, assignment, handling, resurrected>>
  BY DEF ListOverdue
<1>2. \A s \in Sessions : Overdue(s) => StateOf(s) \in ActiveStates
  BY DEF Overdue, RuntimeInv, DueExists, ResurrectedEnded, ActiveIsWatched, StateOf,
     RuntimeTypeOK, StoredStates, ActiveStates, TerminalStates
<1>3. L \in SUBSET ListedRow
  BY <1>2 DEF RuntimeInv, RuntimeTypeOK, ListedRow
<1>4. \A row \in L : row.session \in Sessions /\ row = RowFor(row.session)
  OBVIOUS
<1> HIDE DEF L
<1>5. recovery'[w] = L /\ \A v \in Recoverers \ {w} : recovery'[v] = recovery[v]
  BY <1>1 DEF RuntimeInv, RuntimeTypeOK
<1>6. RuntimeTypeOK'
  <2>1. recovery' \in [Recoverers -> SUBSET ListedRow]
    BY <1>1, <1>3 DEF RuntimeInv, RuntimeTypeOK, ListedRow
  <2> QED
    BY <1>1, <2>1 DEF RuntimeInv, RuntimeTypeOK, ListedRow
<1>7. ListedOnce'
  BY <1>4, <1>5 DEF RuntimeInv, ListedOnce
<1>8. DueExists' /\ ResurrectedEnded' /\ HandlingIsReal' /\ ActiveIsWatched'
  BY <1>1 DEF RuntimeInv, DueExists, ResurrectedEnded, HandlingIsReal, ActiveIsWatched, StateOf
<1>9. ASSUME NEW s \in Sessions PROVE RetriesLeft(s)'
  <2>1. CASE session[s].retries < MaxRetries
    BY <1>1, <2>1, RuntimeConstants DEF RetriesLeft, RuntimeInv, RuntimeTypeOK
  <2>2. CASE ~(session[s].retries < MaxRetries)
    <3>1. LateRetriers(s)' \subseteq LateRetriers(s)
      BY <1>4, <1>5, <2>2 DEF LateRetriers, RowIn
    <3> QED
      BY <1>1, <3>1, RetriesLeftWhenFewer
  <2> QED
    BY <2>1, <2>2
<1> QED
  BY <1>6, <1>7, <1>8, <1>9 DEF RuntimeInv

\* A retry uses up the row it comes from.
LEMMA RecoverKeeps ==
  ASSUME RuntimeInv, NEW w \in Recoverers, NEW row \in recovery[w], Recover(w, row) PROVE RuntimeInv'
<1> DEFINE s == row.session
<1>1. row \in ListedRow /\ s \in Sessions /\ row.state \in ActiveStates /\ row.retries \in Nat
  BY DEF RuntimeInv, RuntimeTypeOK, ListedRow
<1>2. recovery' = [recovery EXCEPT ![w] = @ \ {row}] /\ UNCHANGED <<assignment, handling, resurrected>>
  BY DEF Recover
<1>3. /\ recovery' \in [Recoverers -> SUBSET ListedRow] /\ ListedOnce'
      /\ \A q \in Sessions : LateRetriers(q)' \subseteq LateRetriers(q)
  BY <1>2, ShorterList
<1>4. session[s] \in SessionRecord
  BY <1>1 DEF RuntimeInv, RuntimeTypeOK, SessionRecord
<1>5. PICK r \in SessionRecord :
        /\ session' = [session EXCEPT ![s] = r]
        /\ \/ r = session[s]
           \/ /\ StateOf(s) = row.state /\ row.retries < MaxRetries
              /\ r.state = "PLAN" /\ ~r.due /\ r.retries = session[s].retries + 1
              /\ r.ended = session[s].ended
           \/ /\ r.state = "TIMEOUT" /\ ~r.due /\ r.retries = session[s].retries /\ r.ended
  <2>1. CASE UNCHANGED session
    BY <1>1, <1>4, <2>1 DEF RuntimeInv, RuntimeTypeOK
  <2>2. CASE /\ StateOf(s) = row.state /\ row.retries < MaxRetries
             /\ session' = [session EXCEPT ![s] = [@ EXCEPT !.state = "PLAN", !.due = FALSE,
                                                       !.retries = session[s].retries + 1]]
    <3> DEFINE n == session[s].retries + 1
    <3> DEFINE r == [session[s] EXCEPT !.state = "PLAN", !.due = FALSE, !.retries = n]
    <3>0. n \in Nat
      BY <1>4 DEF SessionRecord
    <3> HIDE DEF n
    <3>1. /\ r \in SessionRecord /\ r.state = "PLAN" /\ ~r.due
          /\ r.retries = n /\ r.ended = session[s].ended
      BY <1>4, <3>0 DEF SessionRecord, StoredStates
    <3> USE DEF n
    <3>2. session' = [session EXCEPT ![s] = r]
      BY <2>2
    <3> HIDE DEF r
    <3> QED
      BY <2>2, <3>1, <3>2
  <2>3. CASE session' = [session EXCEPT ![s] = [@ EXCEPT !.state = "TIMEOUT", !.due = FALSE,
                                                       !.ended = TRUE]]
    <3> DEFINE r == [session[s] EXCEPT !.state = "TIMEOUT", !.due = FALSE, !.ended = TRUE]
    <3>1. /\ r \in SessionRecord /\ r.state = "TIMEOUT" /\ ~r.due
          /\ r.retries = session[s].retries /\ r.ended
      BY <1>4 DEF SessionRecord, StoredStates
    <3>2. session' = [session EXCEPT ![s] = r]
      BY <2>3
    <3> HIDE DEF r
    <3> QED
      BY <3>1, <3>2
  <2> QED
    BY <2>1, <2>2, <2>3 DEF Recover, StillIn, ShouldRetry
<1> HIDE DEF s
<1>6. session'[s] = r /\ \A q \in Sessions \ {s} : session'[q] = session[q]
  BY <1>1, <1>5 DEF RuntimeInv, RuntimeTypeOK
<1>7. RuntimeTypeOK'
  BY <1>1, <1>2, <1>3, <1>5 DEF RuntimeInv, RuntimeTypeOK, SessionRecord, ListedRow
<1>8. DueExists' /\ ResurrectedEnded' /\ HandlingIsReal'
  BY <1>1, <1>2, <1>5, <1>6
  DEF RuntimeInv, RuntimeTypeOK, DueExists, ResurrectedEnded, HandlingIsReal, StateOf
<1>9. ActiveIsWatched'
  <2> SUFFICES ASSUME NEW q \in Sessions \ resurrected
               PROVE  session'[q].ended <=> session'[q].state \in TerminalStates
    BY <1>2 DEF ActiveIsWatched, StateOf
  <2>1. session[q].ended <=> session[q].state \in TerminalStates
    BY DEF RuntimeInv, ActiveIsWatched, StateOf
  <2>2. CASE q # s \/ r = session[s]
    BY <1>6, <2>1, <2>2
  <2>3. CASE q = s /\ r.state = "PLAN" /\ StateOf(s) = row.state /\ r.ended = session[s].ended
    BY <1>1, <1>6, <2>1, <2>3 DEF StateOf, ActiveStates, TerminalStates
  <2>4. CASE q = s /\ r.state = "TIMEOUT" /\ r.ended
    BY <1>6, <2>4 DEF TerminalStates
  <2> QED
    BY <1>5, <2>2, <2>3, <2>4
<1>10. ASSUME NEW q \in Sessions PROVE RetriesLeft(q)'
  <2>1. CASE session'[q].retries = session[q].retries
    BY <1>3, <2>1, RetriesLeftWhenFewer
  <2>2. CASE session'[q].retries # session[q].retries
    <3>1. q = s /\ row.retries < MaxRetries /\ session'[s].retries = session[s].retries + 1
      BY <1>5, <1>6, <2>2
    <3>2. w \in LateRetriers(s)
      BY <3>1 DEF LateRetriers, RowIn, s
    <3>3. w \notin LateRetriers(s)'
      <4>1. recovery'[w] = recovery[w] \ {row}
        BY <1>2 DEF RuntimeInv, RuntimeTypeOK
      <4>2. \A x \in recovery'[w] : x.session # s
        BY <4>1 DEF RuntimeInv, ListedOnce, s
      <4> QED
        BY <4>2 DEF LateRetriers, RowIn
    <3>4. Cardinality(LateRetriers(s)') <= Cardinality(LateRetriers(s)) - 1
      <4>1. LateRetriers(s)' \subseteq LateRetriers(s) \ {w}
        BY <1>1, <1>3, <3>3
      <4>2. /\ IsFiniteSet(LateRetriers(s) \ {w})
            /\ Cardinality(LateRetriers(s) \ {w}) = Cardinality(LateRetriers(s)) - 1
        BY <3>2, LateRetriersFinite, FS_RemoveElement
      <4> QED
        BY <4>1, <4>2, FS_Subset
    <3>5. Cardinality(LateRetriers(s)') \in Nat
      BY <1>1, <1>3, LateRetriersFinite, FS_Subset, FS_CardinalityType
    <3>6. /\ session[s].retries \in Nat /\ Cardinality(LateRetriers(s)) \in Nat
          /\ Cardinality(LateRetriers(s)) <= Cardinality(Recoverers)
      BY <1>1, LateRetriersFinite DEF RuntimeInv, RuntimeTypeOK
    <3> QED
      BY <1>1, <3>1, <3>4, <3>5, <3>6, RuntimeConstants DEF RuntimeInv, RetriesLeft
  <2> QED
    BY <2>1, <2>2
<1> QED
  BY <1>3, <1>7, <1>8, <1>9, <1>10 DEF RuntimeInv

\* A late write of an ended session is remembered; another ends it exactly when it
\* completes it.
LEMMA WriteKeeps == ASSUME RuntimeInv, NEW h \in Handlers, WriteSession(h) PROVE RuntimeInv'
<1> DEFINE s == handling[h].session
<1> DEFINE op == handling[h].op
<1> DEFINE r == [session[s] EXCEPT !.state = Outcome[op], !.due = FALSE,
                                   !.ended = session[s].ended \/ op = "complete"]
<1>1. handling[h] # NoHandling /\ UNCHANGED recovery
  BY DEF WriteSession
<1>2. s \in Sessions /\ op \in Operations
  BY <1>1 DEF RuntimeInv, HandlingIsReal
<1>3. session[s] \in SessionRecord
  BY <1>2 DEF RuntimeInv, RuntimeTypeOK, SessionRecord
<1>4. Outcome[op] \in StoredStates /\ Outcome[op] # "absent"
      /\ (Outcome[op] \in TerminalStates <=> op = "complete")
  BY <1>2 DEF Outcome, Operations, StoredStates, TerminalStates
<1>5. /\ r \in SessionRecord /\ r.state = Outcome[op] /\ ~r.due
      /\ r.retries = session[s].retries /\ (r.ended <=> session[s].ended \/ op = "complete")
  BY <1>3, <1>4 DEF SessionRecord
<1>6. session' = [session EXCEPT ![s] = r]
  BY DEF WriteSession
<1>7. resurrected' = IF session[s].ended THEN resurrected \cup {s} ELSE resurrected
  BY DEF WriteSession
<1>8. assignment' \in AssignmentStates /\ handling' = [handling EXCEPT ![h] = NoHandling]
  BY DEF WriteSession, RuntimeInv, RuntimeTypeOK, AssignmentStates
<1> HIDE DEF r, s, op
<1>9. handling' \in [Handlers -> [op : Operations \cup {"none"}, session : Sessions \cup {NoSession}]]
  BY <1>8 DEF RuntimeInv, RuntimeTypeOK, NoHandling
<1>10. HandlingIsReal'
  <2>1. handling'[h] = NoHandling /\ \A g \in Handlers \ {h} : handling'[g] = handling[g]
    BY <1>8 DEF RuntimeInv, RuntimeTypeOK
  <2> QED
    BY <2>1 DEF RuntimeInv, HandlingIsReal
<1>11. s \in resurrected => session[s].ended
  BY DEF RuntimeInv, ResurrectedEnded
<1>12. resurrected \subseteq Sessions
  BY DEF RuntimeInv, RuntimeTypeOK
<1> QED
  BY <1>1, <1>2, <1>4, <1>5, <1>6, <1>7, <1>8, <1>9, <1>10, <1>11, <1>12, SessionStep

\* Every handler, every list and every recovery keeps the invariant.
LEMMA RuntimeKeeps == RuntimeInv /\ [RuntimeNext]_runtimeVars => RuntimeInv'
<1> SUFFICES ASSUME RuntimeInv, [RuntimeNext]_runtimeVars PROVE RuntimeInv'
  OBVIOUS
<1>0. /\ assignment \in AssignmentStates /\ resurrected \subseteq Sessions
      /\ handling \in [Handlers -> [op : Operations \cup {"none"}, session : Sessions \cup {NoSession}]]
      /\ \A s \in Sessions : session[s] \in SessionRecord
      /\ session \in [Sessions -> SessionRecord]
      /\ HandlingIsReal
  BY DEF RuntimeInv, RuntimeTypeOK, SessionRecord
<1>1. CASE UNCHANGED runtimeVars
  <2>1. HandlingIsReal'
    BY <1>0, <1>1 DEF runtimeVars, HandlingIsReal
  <2> QED
    BY <1>0, <1>1, <2>1, OtherStep DEF runtimeVars
<1>2. ASSUME NEW s \in Sessions, CreateSession(s) PROVE RuntimeInv'
  <2> DEFINE r == [session[s] EXCEPT !.state = "PLAN"]
  <2>1. /\ r \in SessionRecord /\ r.state = "PLAN" /\ r.retries = session[s].retries
        /\ r.ended = session[s].ended
    BY <1>0 DEF SessionRecord, StoredStates
  <2>2. session' = [session EXCEPT ![s] = r]
    BY <1>0, <1>2 DEF CreateSession
  <2>3. session[s].state = "absent" /\ UNCHANGED <<assignment, handling, recovery, resurrected>>
    BY <1>2 DEF CreateSession, StateOf
  <2> HIDE DEF r
  <2>4. HandlingIsReal'
    BY <1>0, <2>3 DEF HandlingIsReal
  <2>5. /\ s \in resurrected => session[s].ended
        /\ s \notin resurrected => (session[s].ended <=> "absent" \in TerminalStates)
    BY <2>3 DEF RuntimeInv, ResurrectedEnded, ActiveIsWatched, StateOf
  <2>6. /\ s \in resurrected => r.ended
        /\ s \notin resurrected => (r.ended <=> r.state \in TerminalStates)
    BY <2>1, <2>5 DEF TerminalStates
  <2> QED
    BY <1>0, <2>1, <2>2, <2>3, <2>4, <2>6, SessionStep
<1>3. ASSUME NEW s \in Sessions, PassDeadline(s) PROVE RuntimeInv'
  <2> DEFINE r == [session[s] EXCEPT !.due = TRUE]
  <2>1. /\ r \in SessionRecord /\ r.state = session[s].state /\ r.retries = session[s].retries
        /\ r.ended = session[s].ended
    BY <1>0 DEF SessionRecord
  <2>2. session' = [session EXCEPT ![s] = r]
    BY <1>0, <1>3 DEF PassDeadline
  <2>3. session[s].state # "absent" /\ UNCHANGED <<assignment, handling, recovery, resurrected>>
    BY <1>3 DEF PassDeadline, StateOf, ActiveStates
  <2> HIDE DEF r
  <2>4. HandlingIsReal'
    BY <1>0, <2>3 DEF HandlingIsReal
  <2>5. /\ s \in resurrected => session[s].ended
        /\ s \notin resurrected => (session[s].ended <=> session[s].state \in TerminalStates)
    BY <2>3 DEF RuntimeInv, ResurrectedEnded, ActiveIsWatched, StateOf
  <2>6. /\ s \in resurrected => r.ended
        /\ s \notin resurrected => (r.ended <=> r.state \in TerminalStates)
    BY <2>1, <2>5
  <2> QED
    BY <1>0, <2>1, <2>2, <2>3, <2>4, <2>6, SessionStep
<1>4. ASSUME NEW h \in Handlers, NEW op \in Operations, NEW s \in Sessions, ReadSession(h, op, s)
      PROVE  RuntimeInv'
  <2>1. handling' = [handling EXCEPT ![h] = [op |-> op, session |-> s]]
    BY <1>4 DEF ReadSession
  <2>2. HandlingIsReal'
    BY <1>0, <2>1 DEF HandlingIsReal
  <2> QED
    BY <1>0, <1>4, <2>1, <2>2, OtherStep DEF ReadSession
<1>5. ASSUME NEW h \in Handlers, HandlerDies(h) PROVE RuntimeInv'
  <2>1. handling' = [handling EXCEPT ![h] = NoHandling]
    BY <1>5 DEF HandlerDies
  <2>2. HandlingIsReal'
    BY <1>0, <2>1 DEF HandlingIsReal
  <2>3. handling' \in [Handlers -> [op : Operations \cup {"none"}, session : Sessions \cup {NoSession}]]
    BY <1>0, <2>1 DEF NoHandling
  <2> QED
    BY <1>0, <1>5, <2>2, <2>3, OtherStep DEF HandlerDies
<1>6. CASE SubmitResult \/ ReviewResult
  <2>1. HandlingIsReal'
    BY <1>0, <1>6 DEF SubmitResult, ReviewResult, HandlingIsReal
  <2> QED
    BY <1>0, <1>6, <2>1, OtherStep DEF SubmitResult, ReviewResult, AssignmentStates
<1>7. ASSUME NEW w \in Recoverers, RecoveryDies(w) PROVE RuntimeInv'
  <2>1. recovery' = [recovery EXCEPT ![w] = {}] /\ UNCHANGED <<session, assignment, handling, resurrected>>
    BY <1>7 DEF RecoveryDies
  <2>2. {} \in SUBSET recovery[w]
    OBVIOUS
  <2>3. /\ recovery' \in [Recoverers -> SUBSET ListedRow] /\ ListedOnce'
        /\ \A q \in Sessions : LateRetriers(q)' \subseteq LateRetriers(q)
    BY <2>1, <2>2, ShorterList
  <2>4. RuntimeTypeOK'
    BY <2>1, <2>3 DEF RuntimeInv, RuntimeTypeOK, ListedRow
  <2>5. DueExists' /\ ResurrectedEnded' /\ HandlingIsReal' /\ ActiveIsWatched'
    BY <2>1 DEF RuntimeInv, DueExists, ResurrectedEnded, HandlingIsReal, ActiveIsWatched, StateOf
  <2>6. \A q \in Sessions : RetriesLeft(q)'
    BY <2>1, <2>3, RetriesLeftWhenFewer
  <2> QED
    BY <2>3, <2>4, <2>5, <2>6 DEF RuntimeInv
<1> QED
  BY <1>1, <1>2, <1>3, <1>4, <1>5, <1>6, <1>7, WriteKeeps, ListKeeps, RecoverKeeps
  DEF RuntimeNext, RecoveryStep

\* Retries that are made and retries still on somebody's list stay within the bound, and only a
\* late handler brings an ended session back (persona-marketplace-service.ts).
THEOREM RuntimeInvariant == RuntimeSafety => []RuntimeInv
BY RuntimeStart, RuntimeKeeps, PTL DEF RuntimeSafety

\* Only states the code knows are stored, and the other variables have their types.
THEOREM RuntimeTyped == RuntimeSafety => []RuntimeTypeOK
<1>1. RuntimeInv => RuntimeTypeOK
  BY DEF RuntimeInv
<1> QED
  BY <1>1, RuntimeInvariant, PTL

\* MaxRetries retries, and one more for each other replica that listed the session.
THEOREM RetriesHold == RuntimeSafety => []RetriesBounded
<1>1. RuntimeInv => RetriesBounded
  <2> SUFFICES ASSUME RuntimeInv, NEW s \in Sessions
               PROVE  session[s].retries < MaxRetries + Cardinality(Recoverers)
    BY DEF RetriesBounded
  <2>1. session[s].retries \in Nat /\ Cardinality(LateRetriers(s)) \in Nat /\ RetriesLeft(s)
    BY LateRetriersFinite DEF RuntimeInv, RuntimeTypeOK
  <2> QED
    BY <2>1, RuntimeConstants DEF RetriesLeft
<1> QED
  BY <1>1, RuntimeInvariant, PTL

\* Recovery watches exactly the sessions that are not over, unless a handler wrote
\* to one that was.
THEOREM WatchHolds == RuntimeSafety => []ActiveIsWatched
<1>1. RuntimeInv => ActiveIsWatched
  BY DEF RuntimeInv
<1> QED
  BY <1>1, RuntimeInvariant, PTL

\* A late execute does not take a submitted result back.
THEOREM SubmissionHolds == RuntimeSafety => SubmissionStands
<1> DEFINE Stands == assignment \in {"submitted", "rejected", "accepted"} => assignment' # "in_progress"
<1>1. [RuntimeNext]_runtimeVars => [Stands]_<<assignment>>
  <2> SUFFICES ASSUME RuntimeNext, assignment \in {"submitted", "rejected", "accepted"},
                      assignment' = "in_progress", assignment' # assignment
               PROVE  FALSE
    BY DEF runtimeVars
  <2>1. ASSUME NEW h \in Handlers, WriteSession(h) PROVE FALSE
    BY <2>1 DEF WriteSession, Startable
  <2>2. CASE SubmitResult \/ ReviewResult
    BY <2>2 DEF SubmitResult, ReviewResult
  <2>3. ASSUME NEW s \in Sessions, CreateSession(s) \/ PassDeadline(s) PROVE FALSE
    BY <2>3 DEF CreateSession, PassDeadline
  <2>4. ASSUME NEW h \in Handlers, NEW op \in Operations, NEW s \in Sessions, ReadSession(h, op, s)
        PROVE  FALSE
    BY <2>4 DEF ReadSession
  <2>5. ASSUME NEW h \in Handlers, HandlerDies(h) PROVE FALSE
    BY <2>5 DEF HandlerDies
  <2>6. ASSUME NEW w \in Recoverers, RecoveryStep(w) \/ RecoveryDies(w) PROVE FALSE
    BY <2>6 DEF RecoveryStep, ListOverdue, Recover, RecoveryDies
  <2> QED
    BY <2>1, <2>2, <2>3, <2>4, <2>5, <2>6 DEF RuntimeNext
<1> QED
  BY <1>1, PTL DEF RuntimeSafety, SubmissionStands, Stands

\* Sessions stay under recovery, within their retries, and take no result back,
\* for any number of handlers and recovery workers.
THEOREM SessionsHold == RuntimeSafety => SessionsUnderControl
BY RuntimeTyped, RetriesHold, WatchHolds, SubmissionHolds, PTL DEF SessionsUnderControl
-----------------------------------------------------------------------------
(* Delegated work *)

TaskRecord == [status : Statuses, holder : Workers, reason : Reasons,
               wakes : Nat, lastWake : EventIds \cup {NoEvent}]
RequestRecord == [status : RequestStatuses, persona : Workers \cup {None},
                  cap : Caps \cup {None}, origin : Tasks \cup {None}]
ApprovalRecord == [status : ApprovalStatuses, task : Tasks \cup {None},
                   requester : Workers \cup {None}, risk : Risks,
                   mode : {"human_only", "org_or_human"}, used : BOOLEAN]
HandoffRecord == [status : HandoffStatuses, task : Tasks \cup {None},
                  from : Workers \cup {None}, to : Workers \cup {None}]
CallRecord == [pc : CallSteps, task : Tasks \cup {None},
               worker : Workers \cup {None}, approval : Approvals \cup {None},
               missing : SUBSET Caps, target : Workers \cup {None}, risk : Risks]
EntryRecord == [task : Tasks, persona : Workers, cause : Requests \cup {"sweep"}]
PlanRecord == [task : Tasks, id : EventIds, resume : BOOLEAN]
WakeRecord == [todo : SUBSET EntryRecord, plan : SUBSET PlanRecord]

TaskTypes == task \in [Tasks -> TaskRecord]
RequestTypes ==
    /\ request \in [Requests -> RequestRecord]
    /\ \A q \in Requests : request[q].status # "unused" =>
          request[q].persona \in Workers /\ request[q].cap \in Caps /\ request[q].origin \in Tasks
ApprovalTypes ==
    /\ approval \in [Approvals -> ApprovalRecord]
    /\ \A a \in Approvals : approval[a].used => approval[a].status = "approved"
HandoffTypes ==
    /\ handoff \in [Handoffs -> HandoffRecord]
    /\ \A h \in Handoffs : handoff[h].status # "unused" =>
          handoff[h].task \in Tasks /\ handoff[h].to \in Workers
CallTypes == call \in [Calls -> CallRecord]
WakeTypes ==
    /\ wake \in [Wakers -> WakeRecord]
    /\ signals \subseteq {q \in Requests : request[q].status = "passed"}
WorkerTypes == worker \in [Workers -> {"active", "offboarded"}]
PaidTypes == paid \in [Approvals -> Nat]

WfTypes == TaskTypes /\ RequestTypes /\ ApprovalTypes /\ HandoffTypes /\ CallTypes /\ WakeTypes
           /\ WorkerTypes /\ PaidTypes

\* What a call has established on its way: the skills before the gate, a matching
\* approval above low risk, spent before the claim, and the task while it runs.
AtGate == {"gate", "consume", "claim", "running"}
BeforeGate == {"register", "dispose", "delegate", "degrade", "suspend", "gate"}
Past == {"claim", "running"}

Spent(x) == approval[x.approval].used /\ Matches(x.approval, x.task, x.worker, x.risk)
CallSound(x) ==
    /\ x.pc # "idle" => x.task \in Tasks /\ x.worker \in Workers
    /\ x.pc \in AtGate => Gaps(x.task, x.worker) = {}
    /\ x.pc \in BeforeGate => x.risk = "low"
    /\ x.pc = "delegate" => x.target \in Workers
    /\ x.pc = "consume" => x.approval \in Approvals /\ Matches(x.approval, x.task, x.worker, x.risk)
    /\ x.pc \in Past /\ x.approval # None => Spent(x)
    /\ x.pc \in Past /\ x.approval = None => x.risk = "low"
CallsSound == \A c \in Calls : CallSound(call[c])

RunsAlone ==
    /\ \A c \in Calls : Running(c) => task[call[c].task].status = "in_progress"
    /\ \A c, d \in Calls : Running(c) /\ Running(d) /\ call[c].task = call[d].task => c = d

\* A spent approval is with one claim, until it has let a run through.
Claims(x) == x.pc = "claim" /\ x.approval # None
PaidSound ==
    /\ \A a \in Approvals : paid[a] <= 1
    /\ \A a \in Approvals : ~approval[a].used => paid[a] = 0
    /\ \A c \in Calls : Claims(call[c]) => paid[call[c].approval] = 0
    /\ \A c, d \in Calls : Claims(call[c]) /\ Claims(call[d]) /\ call[c].approval = call[d].approval => c = d

WfInv == WfTypes /\ CallsSound /\ RunsAlone /\ PaidSound

\* What the assumptions say of the organisation.
LEMMA WfConstants ==
    /\ None \notin Workers /\ None \notin Tasks /\ None \notin Caps /\ None \notin Approvals
    /\ Required \in [Tasks -> SUBSET Caps] /\ Known \in [Workers -> SUBSET Caps]
    /\ FirstHolder \in [Tasks -> Workers] /\ Rank \in [Workers -> Nat]
  BY WorkforceAssumption

\* A call that has ended has established nothing and claims nothing.
LEMMA IdleIsSound == IdleCall \in CallRecord /\ IdleCall.pc = "idle" /\ CallSound(IdleCall) /\ ~Claims(IdleCall)
  BY DEF IdleCall, CallRecord, CallSteps, Risks, CallSound, AtGate, BeforeGate, Past, Claims

\* The invariant holds of a new organisation.
LEMMA WfStart == Init => WfInv
<1> SUFFICES ASSUME Init PROVE WfInv
  OBVIOUS
<1>1. /\ task = [t \in Tasks |-> [status |-> "delegated", holder |-> FirstHolder[t],
                                  reason |-> "none", wakes |-> 0, lastWake |-> NoEvent]]
      /\ request = [q \in Requests |-> NoRequest]
      /\ worker = [w \in Workers |-> "active"]
      /\ approval = [a \in Approvals |-> [status |-> "unused", task |-> None, requester |-> None, risk |-> "low",
                                          mode |-> "human_only", used |-> FALSE]]
      /\ handoff = [h \in Handoffs |-> [status |-> "unused", task |-> None, from |-> None, to |-> None]]
      /\ call = [c \in Calls |-> IdleCall]
      /\ wake = [k \in Wakers |-> IdleWake]
      /\ signals = {}
      /\ paid = [a \in Approvals |-> 0]
  BY DEF Init, InitWith
<1>2. TaskTypes
  BY <1>1, WfConstants DEF TaskTypes, TaskRecord, Statuses, Reasons
<1>3. RequestTypes /\ ApprovalTypes /\ HandoffTypes
  BY <1>1 DEF RequestTypes, RequestRecord, NoRequest, RequestStatuses, ApprovalTypes, ApprovalRecord,
              ApprovalStatuses, Risks, HandoffTypes, HandoffRecord, HandoffStatuses
<1>4. CallTypes /\ CallsSound /\ RunsAlone
  BY <1>1, IdleIsSound DEF CallTypes, CallsSound, RunsAlone, Running
<1>5. WakeTypes /\ WorkerTypes /\ PaidTypes
  BY <1>1 DEF WakeTypes, WakeRecord, IdleWake, WorkerTypes, PaidTypes
<1>6. PaidSound
  BY <1>1, IdleIsSound DEF PaidSound
<1> QED
  BY <1>2, <1>3, <1>4, <1>5, <1>6 DEF WfInv, WfTypes
-----------------------------------------------------------------------------
(* What a step may not undo *)

\* What has been learned stays learned, a decided approval keeps its terms, and a
\* spent one stays spent.
SkillsKept == \A w \in Workers : Learned(w) \subseteq Learned(w)'
ApprovalsKept ==
    \A a \in Approvals :
        /\ approval[a].used => approval'[a].used
        /\ approval[a].status = "approved" =>
              /\ approval'[a].status = "approved"
              /\ approval'[a].task = approval[a].task
              /\ approval'[a].requester = approval[a].requester
              /\ approval'[a].risk = approval[a].risk
Kept == SkillsKept /\ ApprovalsKept

\* What a call has established stays true while skills and approvals are kept.
LEMMA SoundStays ==
  ASSUME WfTypes, Kept, NEW x \in CallRecord, CallSound(x) PROVE CallSound(x)'
<1>1. x.pc \in AtGate => Gaps(x.task, x.worker)' = {}
  BY DEF CallSound, AtGate, Gaps, Kept, SkillsKept
<1>2. \A a \in Approvals : \A t, w, r : Matches(a, t, w, r) => Matches(a, t, w, r)'
  BY DEF Kept, ApprovalsKept, Matches
<1>3. x.pc \in Past /\ x.approval # None => Spent(x)'
  BY <1>2 DEF CallSound, CallRecord, Spent, Kept, ApprovalsKept
<1>4. x.pc = "consume" => x.approval \in Approvals /\ Matches(x.approval, x.task, x.worker, x.risk)'
  BY <1>2 DEF CallSound
<1> QED
  BY <1>1, <1>3, <1>4 DEF CallSound

\* Skills come from learning requests only.
LEMMA RequestsUntouched == ASSUME UNCHANGED request PROVE SkillsKept
  BY DEF SkillsKept, Learned
\* Approvals that are not written keep their terms.
LEMMA ApprovalsUntouched == ASSUME UNCHANGED approval PROVE ApprovalsKept
  BY DEF ApprovalsKept

\* A step of anybody but the calls.
LEMMA OthersStep ==
  ASSUME WfInv, WfTypes', Kept, UNCHANGED <<call, paid>>,
         \A a \in Approvals : approval'[a].used = approval[a].used,
         \A t \in Tasks : task[t].status = "in_progress" => task'[t].status = "in_progress"
  PROVE  WfInv'
<1>1. \A c \in Calls : call[c] \in CallRecord /\ CallSound(call[c])
  BY DEF WfInv, WfTypes, CallTypes, CallsSound
<1>2. CallsSound'
  <2> SUFFICES ASSUME NEW c \in Calls PROVE CallSound(call[c])'
    BY DEF CallsSound
  <2> DEFINE x == call[c]
  <2>1. CallSound(call[c])' <=> CallSound(x)'
    OBVIOUS
  <2>2. PICK y \in CallRecord : y = call[c] /\ y = call'[c]
    BY <1>1
  <2>3. CallSound(y)'
    BY <1>1, <2>2, SoundStays DEF WfInv
  <2> QED
    BY <2>2, <2>3
<1>3. RunsAlone'
  BY <1>1 DEF WfInv, RunsAlone, Running, CallSound
<1>4. PaidSound'
  BY DEF WfInv, PaidSound, Claims
<1> QED
  BY <1>2, <1>3, <1>4 DEF WfInv

\* A step of one call that does not lead into a claim or a run.
LEMMA CallStep ==
  ASSUME WfInv, WfTypes', Kept, UNCHANGED paid,
         \A a \in Approvals : approval'[a].used = approval[a].used,
         NEW c \in Calls, NEW x \in CallRecord, call' = [call EXCEPT ![c] = x],
         CallSound(x)', x.pc # "running", ~Claims(x),
         \A d \in Calls \ {c} : Running(d) => task'[call[d].task].status = "in_progress"
  PROVE  WfInv'
<1>1. \A d \in Calls : call[d] \in CallRecord /\ CallSound(call[d])
  BY DEF WfInv, WfTypes, CallTypes, CallsSound
<1>2. call'[c] = x /\ \A d \in Calls \ {c} : call'[d] = call[d]
  BY DEF WfInv, WfTypes, CallTypes
<1>3. CallsSound'
  <2> SUFFICES ASSUME NEW d \in Calls PROVE CallSound(call[d])'
    BY DEF CallsSound
  <2>1. CASE d = c
    BY <2>1, <1>2
  <2>2. CASE d # c
    <3>1. PICK y \in CallRecord : y = call[d] /\ y = call'[d]
      BY <1>1, <1>2, <2>2
    <3>2. CallSound(y)'
      BY <1>1, <3>1, SoundStays DEF WfInv
    <3> QED
      BY <3>1, <3>2
  <2> QED
    BY <2>1, <2>2
<1>4. RunsAlone'
  BY <1>2 DEF WfInv, RunsAlone, Running
<1>5. \A d \in Calls : Claims(call'[d]) => call'[d] = call[d]
  BY <1>2
<1>6. PaidSound'
  BY <1>5 DEF WfInv, PaidSound, Claims
<1> QED
  BY <1>3, <1>4, <1>6 DEF WfInv
-----------------------------------------------------------------------------
(* WorkerExecutionService.execute *)

\* A colleague of the smallest rank exists when any is capable.
LEMMA ColleagueExists ==
  ASSUME NEW t \in Tasks, NEW w \in Workers, Capable(t, w) # {} PROVE Colleague(t, w) \in Workers
<1> DEFINE Less == OpToRel(<, Nat)
<1> DEFINE Ranks == {Rank[v] : v \in Capable(t, w)}
<1>1. Capable(t, w) \subseteq Workers
  BY DEF Capable
<1>2. Ranks \subseteq Nat /\ Ranks # {}
  BY <1>1, WfConstants
<1>3. \E m \in Ranks : \A n \in Ranks : ~(<<n, m>> \in Less)
  <2> HIDE DEF Ranks
  <2> QED
    BY <1>2, NatLessThanWellFounded, WFMin
<1>4. PICK v \in Capable(t, w) : \A u \in Capable(t, w) : ~(<<Rank[u], Rank[v]>> \in Less)
  BY <1>3
<1>5. \A u \in Capable(t, w) : Rank[v] <= Rank[u]
  <2> TAKE u \in Capable(t, w)
  <2>1. Rank[u] \in Nat /\ Rank[v] \in Nat
    BY <1>1, WfConstants
  <2>2. ~(Rank[u] < Rank[v])
    BY <1>4, <2>1 DEF OpToRel
  <2> QED
    BY <2>1, <2>2
<1>6. Colleague(t, w) \in Capable(t, w)
  BY <1>4, <1>5 DEF Colleague
<1> QED
  BY <1>1, <1>6

\* The invariant, of one call.
LEMMA CallFacts ==
  ASSUME WfInv, NEW c \in Calls PROVE call[c] \in CallRecord /\ CallSound(call[c])
  BY DEF WfInv, WfTypes, CallTypes, CallsSound

\* A call that changes nothing but itself.
LEMMA CallAlone ==
  ASSUME WfInv, UNCHANGED <<task, worker, request, approval, handoff, wake, signals, paid>>,
         NEW c \in Calls, NEW x \in CallRecord, call' = [call EXCEPT ![c] = x],
         CallSound(x), x.pc # "running", ~Claims(x)
  PROVE  WfInv'
<1>1. WfTypes'
  BY DEF WfInv, WfTypes, TaskTypes, RequestTypes, ApprovalTypes, HandoffTypes, CallTypes, WakeTypes,
         WorkerTypes, PaidTypes
<1>2. Kept
  BY RequestsUntouched, ApprovalsUntouched DEF Kept
<1>3. CallSound(x)'
  BY <1>2, SoundStays DEF WfInv
<1> QED
  BY <1>1, <1>2, <1>3, CallStep DEF WfInv, RunsAlone

\* A call starts with its gaps in hand, or at the gate without any.
LEMMA BeginKeeps ==
  ASSUME WfInv, NEW c \in Calls, NEW t \in Tasks, NEW w \in Workers, NEW a \in Approvals \cup {None},
         Begin(c, t, w, a)
  PROVE  WfInv'
<1> DEFINE x == [pc |-> IF Missing(t, w) = {} THEN "gate" ELSE "register", task |-> t, worker |-> w,
                 approval |-> a, missing |-> Missing(t, w), target |-> None, risk |-> "low"]
<1>1. Missing(t, w) \subseteq Caps
  BY WfConstants DEF Missing, Gaps
<1>2. x \in CallRecord
  BY <1>1 DEF CallRecord, CallSteps, Risks
<1>3. CallSound(x) /\ x.pc # "running" /\ ~Claims(x)
  BY DEF CallSound, AtGate, BeforeGate, Past, Claims, Missing
<1>4. call' = [call EXCEPT ![c] = x]
      /\ UNCHANGED <<task, worker, request, approval, handoff, wake, signals, paid>>
  BY DEF Begin
<1> HIDE DEF x
<1> QED
  BY <1>2, <1>3, <1>4, CallAlone

\* A new learning request takes an identifier that taught nobody anything.
LEMMA RegisterKeeps ==
  ASSUME WfInv, NEW c \in Calls, NEW cap \in Caps, NEW q \in Requests, Register(c, cap, q) PROVE WfInv'
<1> DEFINE pc == IF call[c].missing = {cap} THEN "dispose" ELSE call[c].pc
<1> DEFINE x == [call[c] EXCEPT !.missing = @ \ {cap}, !.pc = pc]
<1>0. call[c] \in CallRecord /\ CallSound(call[c]) /\ call[c].pc = "register"
  BY CallFacts DEF Register
<1>1. pc \in {"dispose", "register"}
  BY <1>0
<1> HIDE DEF pc
<1>2. /\ x \in CallRecord /\ x.pc = pc /\ x.task = call[c].task /\ x.worker = call[c].worker
      /\ x.risk = call[c].risk
  BY <1>0, <1>1 DEF CallRecord, CallSteps
<1>3. /\ UNCHANGED <<task, worker, approval, handoff, wake, signals, paid>>
      /\ call' = [call EXCEPT ![c] = x]
  BY DEF Register, pc, WfInv, WfTypes, CallTypes
<1> HIDE DEF x
<1>4. CallSound(x) /\ x.pc # "running" /\ ~Claims(x)
  BY <1>0, <1>1, <1>2 DEF CallSound, AtGate, BeforeGate, Past, Claims
<1>5. CASE UNCHANGED request
  BY <1>2, <1>3, <1>4, <1>5, CallAlone
<1>6. CASE ~UNCHANGED request
  <2> DEFINE new == [status |-> "pending", persona |-> call[c].worker, cap |-> cap, origin |-> call[c].task]
  <2>1. request[q].status = "unused" /\ request' = [request EXCEPT ![q] = new]
    BY <1>6 DEF Register
  <2>2. call[c].worker \in Workers /\ call[c].task \in Tasks
    BY <1>0 DEF CallSound
  <2>3. new \in RequestRecord /\ new.status = "pending" /\ new.persona \in Workers /\ new.cap \in Caps
        /\ new.origin \in Tasks
    BY <2>2 DEF RequestRecord, RequestStatuses
  <2> HIDE DEF new
  <2>4. /\ request' \in [Requests -> RequestRecord] /\ request'[q] = new
        /\ \A r \in Requests \ {q} : request'[r] = request[r]
    BY <2>1, <2>3 DEF WfInv, WfTypes, RequestTypes
  <2>5. RequestTypes' /\ WakeTypes'
    BY <1>3, <2>1, <2>3, <2>4 DEF WfInv, WfTypes, RequestTypes, WakeTypes
  <2>6. CallTypes'
    BY <1>2, <1>3 DEF WfInv, WfTypes, CallTypes
  <2>7. WfTypes'
    BY <1>3, <2>5, <2>6 DEF WfInv, WfTypes, TaskTypes, ApprovalTypes, HandoffTypes, WorkerTypes, PaidTypes
  <2>8. SkillsKept
    BY <2>1, <2>4 DEF SkillsKept, Learned
  <2>9. Kept
    BY <1>3, <2>8, ApprovalsUntouched DEF Kept
  <2>10. PICK y \in CallRecord : y = x
    BY <1>2
  <2>11. CallSound(y)'
    BY <1>4, <2>9, <2>10, SoundStays DEF WfInv
  <2>12. call' = [call EXCEPT ![c] = y] /\ y.pc # "running" /\ ~Claims(y)
    BY <1>3, <1>4, <2>10
  <2>13. /\ UNCHANGED paid
         /\ \A a \in Approvals : approval'[a].used = approval[a].used
         /\ \A d \in Calls \ {c} : Running(d) => task'[call[d].task].status = "in_progress"
    BY <1>3 DEF WfInv, RunsAlone
  <2> QED
    BY <2>7, <2>9, <2>11, <2>12, <2>13, CallStep
<1> QED
  BY <1>5, <1>6

\* The disposition of a gap chooses what is written and writes nothing.
LEMMA DisposeKeeps == ASSUME WfInv, NEW c \in Calls, Dispose(c) PROVE WfInv'
<1>0. call[c] \in CallRecord /\ CallSound(call[c]) /\ call[c].pc = "dispose"
      /\ call[c].task \in Tasks /\ call[c].worker \in Workers /\ call[c].risk = "low"
  BY CallFacts DEF Dispose, CallSound, BeforeGate
<1>1. UNCHANGED <<task, worker, request, approval, handoff, wake, signals, paid>>
  BY DEF Dispose
<1>2. CASE Capable(call[c].task, call[c].worker) # {}
  <2> DEFINE v == Colleague(call[c].task, call[c].worker)
  <2>1. v \in Workers
    BY <1>0, <1>2, ColleagueExists
  <2> HIDE DEF v
  <2> DEFINE x == [call[c] EXCEPT !.pc = "delegate", !.target = v]
  <2>2. x \in CallRecord /\ x.pc = "delegate" /\ x.task = call[c].task /\ x.worker = call[c].worker
        /\ x.risk = call[c].risk /\ x.target = v
    BY <1>0, <2>1 DEF CallRecord, CallSteps
  <2>3. call' = [call EXCEPT ![c] = x]
    BY <1>2 DEF Dispose, v, WfInv, WfTypes, CallTypes
  <2> HIDE DEF x
  <2>4. CallSound(x) /\ ~Claims(x)
    BY <1>0, <2>1, <2>2 DEF CallSound, AtGate, BeforeGate, Past, Claims
  <2> QED
    BY <1>1, <2>2, <2>3, <2>4, CallAlone
<1>3. CASE Capable(call[c].task, call[c].worker) = {}
  <2>1. PICK pc \in {"degrade", "suspend"} : Goto(c, pc)
    BY <1>3 DEF Dispose
  <2> DEFINE x == [call[c] EXCEPT !.pc = pc]
  <2>2. x \in CallRecord /\ x.pc = pc /\ x.task = call[c].task /\ x.worker = call[c].worker /\ x.risk = call[c].risk
    BY <1>0 DEF CallRecord, CallSteps
  <2>3. call' = [call EXCEPT ![c] = x]
    BY <2>1 DEF Goto
  <2> HIDE DEF x
  <2>4. CallSound(x) /\ ~Claims(x)
    BY <1>0, <2>2 DEF CallSound, AtGate, BeforeGate, Past, Claims
  <2> QED
    BY <1>1, <2>2, <2>3, <2>4, CallAlone
<1> QED
  BY <1>2, <1>3

\* A call that returns without a write keeps the invariant.
LEMMA DoneKeeps ==
  ASSUME WfInv, UNCHANGED <<task, worker, request, approval, handoff, wake, signals, paid>>,
         NEW c \in Calls, Done(c)
  PROVE  WfInv'
  BY CallAlone, IdleIsSound DEF Done

\* The writes of a call to its task.
LEMMA TaskWritten ==
  ASSUME WfInv, UNCHANGED <<worker, request, approval, handoff, wake, signals, paid>>,
         NEW c \in Calls, Done(c), TaskTypes',
         \A d \in Calls \ {c} : Running(d) => task'[call[d].task].status = "in_progress"
  PROVE  WfInv'
<1>1. call' = [call EXCEPT ![c] = IdleCall]
  BY DEF Done
<1>2. WfTypes'
  BY <1>1, IdleIsSound
  DEF WfInv, WfTypes, RequestTypes, ApprovalTypes, HandoffTypes, CallTypes, WakeTypes, WorkerTypes, PaidTypes
<1>3. Kept
  BY RequestsUntouched, ApprovalsUntouched DEF Kept
<1>4. CallSound(IdleCall)'
  BY <1>3, IdleIsSound, SoundStays DEF WfInv
<1> QED
  BY <1>1, <1>2, <1>3, <1>4, CallStep, IdleIsSound DEF WfInv

\* Delegate, Degrade and Suspend write a task that nobody runs.
LEMMA HandBackKeeps ==
  ASSUME WfInv, NEW c \in Calls, Delegate(c) \/ Degrade(c) \/ Suspend(c) PROVE WfInv'
<1>0. call[c] \in CallRecord /\ CallSound(call[c]) /\ call[c].pc \in {"delegate", "degrade", "suspend"}
      /\ call[c].task \in Tasks /\ call[c].worker \in Workers /\ call[c].risk = "low"
  BY CallFacts DEF Delegate, Degrade, Suspend, CallSound, BeforeGate
<1>1. UNCHANGED <<worker, request, approval, handoff, wake, signals, paid>>
  BY DEF Delegate, Degrade, Suspend
<1> DEFINE t == call[c].task
<1>2. \A d \in Calls : Running(d) => task[call[d].task].status = "in_progress" /\ call[d].task \in Tasks
  BY CallFacts DEF WfInv, RunsAlone, Running, CallSound
<1>3. CASE UNCHANGED task /\ Done(c)
  BY <1>1, <1>3, DoneKeeps
<1>4. CASE UNCHANGED task /\ Goto(c, "suspend")
  <2> DEFINE x == [call[c] EXCEPT !.pc = "suspend"]
  <2>1. x \in CallRecord /\ x.pc = "suspend" /\ x.task = t /\ x.worker = call[c].worker /\ x.risk = call[c].risk
    BY <1>0 DEF CallRecord, CallSteps
  <2>2. call' = [call EXCEPT ![c] = x]
    BY <1>4 DEF Goto
  <2> HIDE DEF x
  <2>3. CallSound(x) /\ ~Claims(x)
    BY <1>0, <2>1 DEF CallSound, AtGate, BeforeGate, Past, Claims
  <2> QED
    BY <1>1, <1>4, <2>1, <2>2, <2>3, CallAlone
<1>5. CASE ~UNCHANGED task
  <2>1. Done(c) /\ task[t].status = "delegated"
    BY <1>5 DEF Delegate, Degrade, Suspend, Holds
  <2>2. \A u \in Tasks \ {t} : task'[u] = task[u]
    BY <1>5 DEF Delegate, Degrade, Suspend, WfInv, WfTypes, TaskTypes
  <2>3. TaskTypes'
    <3>0. task \in [Tasks -> TaskRecord] /\ t \in Tasks
      BY <1>0 DEF WfInv, WfTypes, TaskTypes
    <3>1. CASE Delegate(c)
      <4>1. call[c].target \in Workers
        BY <1>0, <3>1 DEF Delegate, CallSound
      <4>2. task' = [task EXCEPT ![t].holder = call[c].target]
        BY <1>5, <3>1 DEF Delegate
      <4> HIDE DEF t
      <4> QED
        BY <3>0, <4>1, <4>2 DEF TaskTypes, TaskRecord
    <3>2. CASE Degrade(c)
      <4>1. task' = [task EXCEPT ![t].status = "submitted", ![t].reason = "none"]
        BY <1>5, <3>2 DEF Degrade
      <4> HIDE DEF t
      <4> QED
        BY <3>0, <4>1 DEF TaskTypes, TaskRecord, Statuses, Reasons
    <3>3. CASE Suspend(c)
      <4>1. task' = [task EXCEPT ![t].status = "blocked", ![t].reason = "capability_gap"]
        BY <1>5, <3>3 DEF Suspend
      <4> HIDE DEF t
      <4> QED
        BY <3>0, <4>1 DEF TaskTypes, TaskRecord, Statuses, Reasons
    <3> QED
      BY <3>1, <3>2, <3>3
  <2>4. \A d \in Calls : Running(d) => task'[call[d].task].status = "in_progress"
    BY <1>2, <2>1, <2>2
  <2> QED
    BY <1>1, <2>1, <2>3, <2>4, TaskWritten
<1> QED
  BY <1>3, <1>4, <1>5 DEF Delegate, Degrade, Suspend
\* The gate lets a call on with an approval that matches, or at low risk.
LEMMA GateKeeps == ASSUME WfInv, NEW c \in Calls, Gate(c) PROVE WfInv'
<1>0. call[c] \in CallRecord /\ CallSound(call[c]) /\ call[c].pc = "gate"
      /\ call[c].task \in Tasks /\ call[c].worker \in Workers /\ call[c].risk = "low"
      /\ Gaps(call[c].task, call[c].worker) = {}
  BY CallFacts DEF Gate, CallSound, BeforeGate, AtGate
<1>1. UNCHANGED <<task, worker, request, approval, handoff, wake, signals, paid>>
  BY DEF Gate
<1>2. CASE Done(c)
  BY <1>1, <1>2, DoneKeeps
<1>3. CASE call' = [call EXCEPT ![c].pc = "claim", ![c].approval = None]
  <2> DEFINE x == [call[c] EXCEPT !.pc = "claim", !.approval = None]
  <2>1. x \in CallRecord /\ x.pc = "claim" /\ x.task = call[c].task /\ x.worker = call[c].worker
        /\ x.risk = "low" /\ x.approval = None
    BY <1>0 DEF CallRecord, CallSteps
  <2>2. call' = [call EXCEPT ![c] = x]
    BY <1>3 DEF WfInv, WfTypes, CallTypes
  <2> HIDE DEF x
  <2>3. CallSound(x) /\ ~Claims(x)
    BY <1>0, <2>1 DEF CallSound, AtGate, BeforeGate, Past, Claims
  <2> QED
    BY <1>1, <2>1, <2>2, <2>3, CallAlone
<1>4. ASSUME NEW r \in Risks, call[c].approval # None,
             Matches(call[c].approval, call[c].task, call[c].worker, r),
             call' = [call EXCEPT ![c].pc = "consume", ![c].risk = r]
      PROVE  WfInv'
  <2> DEFINE x == [call[c] EXCEPT !.pc = "consume", !.risk = r]
  <2>1. x \in CallRecord /\ x.pc = "consume" /\ x.task = call[c].task /\ x.worker = call[c].worker
        /\ x.risk = r /\ x.approval = call[c].approval
    BY <1>0 DEF CallRecord, CallSteps
  <2>2. call' = [call EXCEPT ![c] = x]
    BY <1>4 DEF WfInv, WfTypes, CallTypes
  <2>3. call[c].approval \in Approvals
    BY <1>0, <1>4 DEF CallRecord
  <2> HIDE DEF x
  <2>4. CallSound(x) /\ ~Claims(x)
    BY <1>0, <1>4, <2>1, <2>3 DEF CallSound, AtGate, BeforeGate, Past, Claims
  <2> QED
    BY <1>1, <2>1, <2>2, <2>4, CallAlone
<1> QED
  BY <1>2, <1>3, <1>4 DEF Gate

\* consumeApprovalIfUnused: a compare-and-set that one call wins.
LEMMA ConsumeKeeps == ASSUME WfInv, NEW c \in Calls, Consume(c) PROVE WfInv'
<1>0. call[c] \in CallRecord /\ CallSound(call[c]) /\ call[c].pc = "consume"
      /\ call[c].task \in Tasks /\ call[c].worker \in Workers
      /\ Gaps(call[c].task, call[c].worker) = {}
  BY CallFacts DEF Consume, CallSound, AtGate
<1>1. PICK a \in Approvals : a = call[c].approval /\ Matches(a, call[c].task, call[c].worker, call[c].risk)
  BY <1>0 DEF CallSound
<1>2. UNCHANGED <<task, worker, request, handoff, wake, signals, paid>>
  BY DEF Consume
<1>3. CASE ~Spendable(a)
  BY <1>1, <1>2, <1>3, DoneKeeps DEF Consume
<1>4. CASE Spendable(a)
  <2>1. approval[a].status = "approved" /\ ~approval[a].used
        /\ approval' = [approval EXCEPT ![a].used = TRUE]
    BY <1>1, <1>4 DEF Consume, Spendable
  <2>2. PICK x \in CallRecord : x = [call[c] EXCEPT !.pc = "claim"]
    BY <1>0 DEF CallRecord, CallSteps
  <2>3. x.pc = "claim" /\ x.task = call[c].task /\ x.worker = call[c].worker
        /\ x.risk = call[c].risk /\ x.approval = a
    BY <1>0, <1>1, <2>2 DEF CallRecord
  <2>4. call' = [call EXCEPT ![c] = x]
    BY <1>1, <1>4, <2>2 DEF Consume, Goto
  <2>5. call'[c] = x /\ \A d \in Calls \ {c} : call'[d] = call[d]
    BY <2>4 DEF WfInv, WfTypes, CallTypes
  <2>6. /\ approval' \in [Approvals -> ApprovalRecord] /\ approval'[a].used
        /\ \A b \in Approvals : /\ approval'[b].status = approval[b].status
                                /\ approval'[b].task = approval[b].task
                                /\ approval'[b].requester = approval[b].requester
                                /\ approval'[b].risk = approval[b].risk
                                /\ b # a => approval'[b].used = approval[b].used
    BY <2>1 DEF WfInv, WfTypes, ApprovalTypes, ApprovalRecord
  <2>6a. ApprovalTypes'
    BY <2>1, <2>6 DEF WfInv, WfTypes, ApprovalTypes
  <2>7. WfTypes'
    BY <1>2, <2>4, <2>6a
    DEF WfInv, WfTypes, TaskTypes, RequestTypes, HandoffTypes, CallTypes, WakeTypes, WorkerTypes, PaidTypes
  <2>8. Kept
    BY <1>2, <2>6, RequestsUntouched DEF Kept, ApprovalsKept
  <2>9. Gaps(x.task, x.worker)' = {}
    BY <1>0, <1>2, <2>3 DEF Gaps, Learned
  <2>10. Spent(x)'
    BY <1>1, <2>3, <2>6 DEF Spent, Matches
  <2>11. CallSound(x)'
    BY <1>0, <2>3, <2>9, <2>10, WfConstants DEF CallSound, AtGate, BeforeGate, Past
  <2>12. CallsSound'
    <3> SUFFICES ASSUME NEW d \in Calls PROVE CallSound(call[d])'
      BY DEF CallsSound
    <3>1. CASE d = c
      BY <3>1, <2>5, <2>11
    <3>2. CASE d # c
      <4>1. PICK y \in CallRecord : y = call[d] /\ y = call'[d]
        BY <2>5, <3>2, CallFacts
      <4>2. CallSound(y)'
        BY <2>8, <4>1, CallFacts, SoundStays DEF WfInv
      <4> QED
        BY <4>1, <4>2
    <3> QED
      BY <3>1, <3>2
  <2>13. RunsAlone'
    BY <1>2, <2>3, <2>5 DEF WfInv, RunsAlone, Running
  <2>14. \A d \in Calls : Claims(call[d]) => call[d].approval # a /\ call[d].approval \in Approvals
    BY <2>1, CallFacts DEF Claims, CallSound, Past, Spent, CallRecord
  <2>15. paid[a] = 0
    BY <2>1 DEF WfInv, PaidSound
  <2>16. PaidSound'
    BY <1>2, <2>3, <2>5, <2>6, <2>14, <2>15 DEF WfInv, PaidSound, Claims
  <2> QED
    BY <2>7, <2>12, <2>13, <2>16 DEF WfInv
<1> QED
  BY <1>3, <1>4

\* The compare-and-set on the task: nobody runs a delegated one.
LEMMA ClaimKeeps == ASSUME WfInv, NEW c \in Calls, Claim(c) PROVE WfInv'
<1>0. call[c] \in CallRecord /\ CallSound(call[c]) /\ call[c].pc = "claim"
      /\ call[c].task \in Tasks /\ call[c].worker \in Workers
  BY CallFacts DEF Claim, CallSound
<1>2. UNCHANGED <<worker, request, approval, handoff, wake, signals>>
  BY DEF Claim
<1>3. CASE ~Holds(c)
  BY <1>2, <1>3, DoneKeeps DEF Claim
<1>4. CASE Holds(c)
  <2>1. PICK t \in Tasks : t = call[c].task /\ task[t].status = "delegated"
    BY <1>0, <1>4 DEF Holds
  <2>2. PICK x \in CallRecord : x = [call[c] EXCEPT !.pc = "running"]
    BY <1>0 DEF CallRecord, CallSteps
  <2>3. x.pc = "running" /\ x.task = t /\ x.worker = call[c].worker
        /\ x.risk = call[c].risk /\ x.approval = call[c].approval
    BY <1>0, <2>1, <2>2 DEF CallRecord
  <2>4. call' = [call EXCEPT ![c] = x]
    BY <1>4, <2>2 DEF Claim, Goto
  <2>5. call'[c] = x /\ \A d \in Calls \ {c} : call'[d] = call[d]
    BY <2>4 DEF WfInv, WfTypes, CallTypes
  <2>6. task' = [task EXCEPT ![t].status = "in_progress", ![t].reason = "none"]
    BY <1>4, <2>1 DEF Claim
  <2>7. /\ task' \in [Tasks -> TaskRecord] /\ task'[t].status = "in_progress"
        /\ \A u \in Tasks \ {t} : task'[u] = task[u]
    BY <2>6 DEF WfInv, WfTypes, TaskTypes, TaskRecord, Statuses, Reasons
  <2>8. /\ paid' \in [Approvals -> Nat]
        /\ \A a \in Approvals : paid'[a] = IF a = call[c].approval THEN paid[a] + 1 ELSE paid[a]
    <3>1. paid \in [Approvals -> Nat]
      BY DEF WfInv, WfTypes, PaidTypes
    <3>2. CASE call[c].approval = None
      BY <1>4, <3>1, <3>2, WfConstants DEF Claim
    <3>3. CASE call[c].approval # None
      <4>1. PICK a \in Approvals : a = call[c].approval
        BY <1>0, <3>3 DEF CallRecord
      <4>2. paid' = [paid EXCEPT ![a] = @ + 1]
        BY <1>4, <3>3, <4>1 DEF Claim
      <4> QED
        BY <3>1, <4>1, <4>2
    <3> QED
      BY <3>2, <3>3
  <2>9. WfTypes'
    BY <1>2, <2>4, <2>7, <2>8
    DEF WfInv, WfTypes, TaskTypes, RequestTypes, ApprovalTypes, HandoffTypes, CallTypes, WakeTypes,
        WorkerTypes, PaidTypes
  <2>10. Kept
    BY <1>2, RequestsUntouched, ApprovalsUntouched DEF Kept
  <2>11. CallSound(x)
    BY <1>0, <2>1, <2>3 DEF CallSound, AtGate, BeforeGate, Past, Spent
  <2>12. CallsSound'
    <3> SUFFICES ASSUME NEW d \in Calls PROVE CallSound(call[d])'
      BY DEF CallsSound
    <3>1. PICK y \in CallRecord : y = call'[d] /\ CallSound(y)
      BY <2>5, <2>11, CallFacts
    <3>2. CallSound(y)'
      BY <2>10, <3>1, SoundStays DEF WfInv
    <3> QED
      BY <3>1, <3>2
  <2>13. \A d \in Calls : Running(d) => call[d].task # t /\ call[d].task \in Tasks
    BY <2>1, CallFacts DEF WfInv, RunsAlone, Running, CallSound
  <2>14. RunsAlone'
    BY <2>3, <2>5, <2>7, <2>13 DEF WfInv, RunsAlone, Running
  <2>15. \A d \in Calls : Claims(call'[d]) => d # c /\ call'[d] = call[d] /\ call[d].approval \in Approvals
    BY <2>3, <2>5, CallFacts DEF Claims, CallRecord
  <2>16. call[c].approval \in Approvals =>
            /\ paid[call[c].approval] = 0 /\ approval[call[c].approval].used
            /\ \A d \in Calls \ {c} : Claims(call[d]) => call[d].approval # call[c].approval
    BY <1>0, WfConstants DEF WfInv, PaidSound, Claims, CallSound, Past, Spent
  <2>17. PaidSound'
    BY <1>2, <2>8, <2>15, <2>16 DEF WfInv, PaidSound
  <2> QED
    BY <2>9, <2>12, <2>14, <2>17 DEF WfInv
<1> QED
  BY <1>3, <1>4

\* The write-back is of the call that runs the task, and of nobody else.
LEMMA FinishKeeps == ASSUME WfInv, NEW c \in Calls, Finish(c) PROVE WfInv'
<1>1. PICK t \in Tasks : t = call[c].task /\ Running(c)
  BY CallFacts DEF Finish, Running, CallSound
<1>2. PICK status \in Statuses, reason \in Reasons :
         task' = [task EXCEPT ![t].status = status, ![t].reason = reason]
  BY <1>1 DEF Finish, WriteBack, Statuses, Reasons
<1>3. TaskTypes' /\ \A u \in Tasks \ {t} : task'[u] = task[u]
  BY <1>2 DEF WfInv, WfTypes, TaskTypes, TaskRecord
<1>4. \A d \in Calls \ {c} : Running(d) =>
         /\ call[d].task \in Tasks \ {t}
         /\ task[call[d].task].status = "in_progress"
  BY <1>1, CallFacts DEF WfInv, RunsAlone, Running, CallSound
<1>5. Done(c) /\ UNCHANGED <<worker, request, approval, handoff, wake, signals, paid>>
  BY DEF Finish
<1> QED
  BY <1>3, <1>4, <1>5, TaskWritten
-----------------------------------------------------------------------------
(* Learning, waking, approvals, handoffs and offboarding *)

\* A task in progress stays so in a step that writes no task.
LEMMA RunningStays ==
  ASSUME WfInv, UNCHANGED task
  PROVE  \A t \in Tasks : task[t].status = "in_progress" => task'[t].status = "in_progress"
  OBVIOUS

\* A request is decided once: what it taught is not taken back.
LEMMA LearnKeeps == ASSUME WfInv, NEW q \in Requests, Learn(q) PROVE WfInv'
<1>1. UNCHANGED <<task, worker, approval, handoff, call, wake, paid>>
  BY DEF Learn, TakeRequest, PassRequest, FailRequest, LoseEvent
<1>2. CASE LoseEvent(q)
  <2>1. UNCHANGED request /\ signals' \subseteq signals
    BY <1>2 DEF LoseEvent
  <2>2. WfTypes'
    BY <1>1, <2>1
    DEF WfInv, WfTypes, TaskTypes, RequestTypes, ApprovalTypes, HandoffTypes, CallTypes, WakeTypes,
        WorkerTypes, PaidTypes
  <2> QED
    BY <1>1, <2>1, <2>2, OthersStep, RequestsUntouched, ApprovalsUntouched DEF Kept
<1>3. CASE ~LoseEvent(q)
  <2>1. PICK status \in {"learning", "passed", "failed"} :
           /\ request' = [request EXCEPT ![q].status = status]
           /\ request[q].status \in {"pending", "learning"}
           /\ signals' = IF status = "passed" THEN signals \cup {q} ELSE signals
    BY <1>3 DEF Learn, TakeRequest, PassRequest, FailRequest
  <2>2. /\ request' \in [Requests -> RequestRecord] /\ request'[q].status = status
        /\ request'[q].persona = request[q].persona /\ request'[q].cap = request[q].cap
        /\ request'[q].origin = request[q].origin
        /\ \A r \in Requests \ {q} : request'[r] = request[r]
    BY <2>1 DEF WfInv, WfTypes, RequestTypes, RequestRecord, RequestStatuses
  <2>3. RequestTypes' /\ WakeTypes'
    BY <1>1, <2>1, <2>2 DEF WfInv, WfTypes, RequestTypes, WakeTypes
  <2>4. WfTypes'
    BY <1>1, <2>3
    DEF WfInv, WfTypes, TaskTypes, ApprovalTypes, HandoffTypes, CallTypes, WorkerTypes, PaidTypes
  <2>5. SkillsKept
    BY <2>1, <2>2 DEF SkillsKept, Learned
  <2> QED
    BY <1>1, <2>4, <2>5, OthersStep, ApprovalsUntouched DEF Kept
<1> QED
  BY <1>2, <1>3

\* What is learned are capabilities.
LEMMA LearnedIsCaps == ASSUME WfInv, NEW w \in Workers PROVE Learned(w) \subseteq Caps
  BY WfConstants DEF Learned, WfInv, WfTypes, RequestTypes

\* The wakers touch blocked tasks only, and nobody runs one.
LEMMA WakeKeeps == ASSUME WfInv, NEW k \in Wakers, Wake(k) PROVE WfInv'
<1>1. UNCHANGED <<worker, request, approval, handoff, call, paid>>
  BY DEF Wake, DeliverEvent, Sweep, WakeRead, WakeWrite
<1>2. wake \in [Wakers -> WakeRecord] /\ task \in [Tasks -> TaskRecord]
  BY DEF WfInv, WfTypes, WakeTypes, TaskTypes
<1>3. ASSUME TaskTypes', WakeTypes',
             \A t \in Tasks : task[t].status = "in_progress" => task'[t].status = "in_progress"
      PROVE  WfInv'
  <2>1. WfTypes'
    BY <1>1, <1>3
    DEF WfInv, WfTypes, RequestTypes, ApprovalTypes, HandoffTypes, CallTypes, WorkerTypes, PaidTypes
  <2> QED
    BY <1>1, <1>3, <2>1, OthersStep, RequestsUntouched, ApprovalsUntouched DEF Kept
<1>4. ASSUME NEW q \in Requests, DeliverEvent(k, q) PROVE WfInv'
  <2>1. request[q].persona \in Workers
    BY <1>4 DEF DeliverEvent, WfInv, WfTypes, WakeTypes, RequestTypes
  <2>2. EventList(q) \subseteq EntryRecord
    BY <2>1 DEF EventList, Entry, EntryRecord
  <2>3. wake' = [wake EXCEPT ![k].todo = EventList(q)] /\ UNCHANGED task /\ signals' \subseteq signals
    BY <1>4 DEF DeliverEvent
  <2>4. wake' \in [Wakers -> WakeRecord]
    BY <1>2, <2>2, <2>3 DEF WakeRecord
  <2> QED
    BY <1>1, <1>3, <2>3, <2>4 DEF WfInv, WfTypes, WakeTypes, TaskTypes
<1>5. CASE Sweep(k)
  <2>1. SweepList \subseteq EntryRecord
    BY <1>2 DEF SweepList, Entry, EntryRecord, TaskRecord
  <2>2. wake' = [wake EXCEPT ![k].todo = SweepList] /\ UNCHANGED <<task, signals>>
    BY <1>5 DEF Sweep
  <2>3. wake' \in [Wakers -> WakeRecord]
    BY <1>2, <2>1, <2>2 DEF WakeRecord
  <2> QED
    BY <1>1, <1>3, <2>2, <2>3 DEF WfInv, WfTypes, WakeTypes, TaskTypes
<1>6. ASSUME NEW e \in wake[k].todo, WakeRead(k, e) PROVE WfInv'
  <2>1. e \in EntryRecord
    BY <1>2 DEF WakeRecord
  <2>2. EventId(e) \in EventIds
    <3>1. e.persona \in Workers /\ Learned(e.persona) \subseteq Caps
      BY <2>1, LearnedIsCaps DEF EntryRecord
    <3>2. e.cause \in Requests \cup {"sweep"}
      BY <2>1 DEF EntryRecord
    <3>3. CASE e.cause = "sweep"
      BY <3>1, <3>3 DEF EventId, EventIds
    <3>4. CASE e.cause # "sweep"
      BY <3>2, <3>4 DEF EventId, EventIds
    <3> QED
      BY <3>3, <3>4
  <2> DEFINE plan == IF task[e.task].status # "blocked" \/ task[e.task].lastWake = EventId(e) THEN {}
                     ELSE {[task |-> e.task, id |-> EventId(e), resume |-> MayResume(e.task, e.persona)]}
  <2>3. plan \subseteq PlanRecord
    <3>1. MayResume(e.task, e.persona) \in BOOLEAN
      BY DEF MayResume
    <3> QED
      BY <2>1, <2>2, <3>1 DEF EntryRecord, PlanRecord
  <2> DEFINE rest == wake[k].todo \ {e}
  <2>4. rest \subseteq EntryRecord
    BY <1>2 DEF WakeRecord
  <2>5. wake' = [wake EXCEPT ![k] = [todo |-> rest, plan |-> plan]] /\ UNCHANGED <<task, signals>>
    BY <1>6 DEF WakeRead
  <2> HIDE DEF plan, rest
  <2>6. wake' \in [Wakers -> WakeRecord]
    BY <1>2, <2>3, <2>4, <2>5 DEF WakeRecord
  <2> QED
    BY <1>1, <1>3, <2>5, <2>6 DEF WfInv, WfTypes, WakeTypes, TaskTypes
<1>7. CASE WakeWrite(k)
  <2>1. PICK p \in PlanRecord :
           /\ p \in wake[k].plan /\ wake' = [wake EXCEPT ![k].plan = {}] /\ UNCHANGED signals
           /\ IF task[p.task].status = "blocked" /\ task[p.task].lastWake # p.id
              THEN task' = [task EXCEPT ![p.task].status = IF p.resume THEN "delegated" ELSE @,
                                        ![p.task].wakes = @ + 1,
                                        ![p.task].lastWake = p.id]
              ELSE UNCHANGED task
    BY <1>2, <1>7 DEF WakeWrite, WakeRecord
  <2>2. wake' \in [Wakers -> WakeRecord]
    BY <1>2, <2>1 DEF WakeRecord
  <2>3. PICK t \in Tasks : t = p.task
    BY DEF PlanRecord
  <2>4. CASE UNCHANGED task
    BY <1>1, <1>3, <2>1, <2>2, <2>4 DEF WfInv, WfTypes, WakeTypes, TaskTypes
  <2>5. CASE ~UNCHANGED task
    <3> DEFINE status == IF p.resume THEN "delegated" ELSE task[t].status
    <3> DEFINE wakes == task[t].wakes + 1
    <3>0. task[t] \in TaskRecord /\ p.id \in EventIds
      BY <1>2 DEF PlanRecord
    <3>1. status \in Statuses /\ wakes \in Nat
      BY <3>0 DEF TaskRecord, Statuses
    <3>2. /\ task[t].status = "blocked"
          /\ task' = [task EXCEPT ![t] = [task[t] EXCEPT !.status = status, !.wakes = wakes, !.lastWake = p.id]]
      BY <1>2, <2>1, <2>3, <2>5
    <3> HIDE DEF status, wakes
    <3>3. [task[t] EXCEPT !.status = status, !.wakes = wakes, !.lastWake = p.id] \in TaskRecord
      BY <3>0, <3>1 DEF TaskRecord
    <3>4. TaskTypes'
      BY <1>2, <3>2, <3>3 DEF TaskTypes
    <3>5. \A u \in Tasks : task[u].status = "in_progress" => task'[u].status = "in_progress"
      BY <1>2, <3>2
    <3> QED
      BY <1>1, <1>3, <2>1, <2>2, <3>4, <3>5 DEF WfInv, WfTypes, WakeTypes
  <2> QED
    BY <2>4, <2>5
<1> QED
  BY <1>4, <1>5, <1>6, <1>7 DEF Wake

\* An approval that is not decided yet is asked for, decided or expires.
LEMMA ApprovalWritten ==
  ASSUME WfInv, UNCHANGED <<task, worker, request, handoff, call, wake, signals, paid>>,
         NEW a \in Approvals, NEW new \in ApprovalRecord, approval' = [approval EXCEPT ![a] = new],
         approval[a].status \in {"unused", "pending"}, ~new.used
  PROVE  WfInv'
<1>1. /\ approval \in [Approvals -> ApprovalRecord]
      /\ \A b \in Approvals : approval[b].used => approval[b].status = "approved"
  BY DEF WfInv, WfTypes, ApprovalTypes
<1>2. /\ approval' \in [Approvals -> ApprovalRecord] /\ approval'[a] = new /\ ~approval[a].used
      /\ \A b \in Approvals \ {a} : approval'[b] = approval[b]
  BY <1>1
<1>3. ApprovalTypes'
  BY <1>1, <1>2 DEF ApprovalTypes
<1>4. WfTypes'
  BY <1>3
  DEF WfInv, WfTypes, TaskTypes, RequestTypes, HandoffTypes, CallTypes, WakeTypes, WorkerTypes, PaidTypes
<1>5. \A b \in Approvals : approval'[b].used = approval[b].used
  BY <1>1, <1>2 DEF ApprovalRecord
<1>6. ApprovalsKept
  BY <1>2, <1>5 DEF ApprovalsKept
<1> QED
  BY <1>4, <1>5, <1>6, OthersStep, RequestsUntouched DEF Kept

\* The decision of a pending approval spends nothing.
LEMMA DecisionKeeps ==
  ASSUME WfInv, UNCHANGED <<task, worker, request, handoff, call, wake, signals, paid>>,
         NEW a \in Approvals, NEW status \in {"approved", "rejected", "expired"},
         approval[a].status = "pending", approval' = [approval EXCEPT ![a].status = status]
  PROVE  WfInv'
<1>1. approval[a] \in ApprovalRecord /\ ~approval[a].used
  BY DEF WfInv, WfTypes, ApprovalTypes
<1> DEFINE new == [approval[a] EXCEPT !.status = status]
<1>2. new \in ApprovalRecord
  BY <1>1 DEF ApprovalRecord, ApprovalStatuses
<1>3. ~new.used
  BY <1>1 DEF ApprovalRecord
<1>4. approval' = [approval EXCEPT ![a] = new]
  OBVIOUS
<1> HIDE DEF new
<1> QED
  BY <1>2, <1>3, <1>4, ApprovalWritten

\* Requests, decisions and expiries of approvals keep the invariant.
LEMMA ApproveKeeps == ASSUME WfInv, NEW a \in Approvals, Approve(a) PROVE WfInv'
<1>1. UNCHANGED <<task, worker, request, handoff, call, wake, signals, paid>>
  BY DEF Approve, RequestApproval, DecideApproval, ExpireApproval
<1>2. ASSUME NEW t \in Tasks, NEW w \in Workers, NEW r \in Risks, RequestApproval(a, t, w, r) PROVE WfInv'
  <2> DEFINE new == [status |-> "pending", task |-> t, requester |-> w, risk |-> r,
                     mode |-> IF r = "medium" /\ WorkersMayApprove THEN "org_or_human" ELSE "human_only",
                     used |-> FALSE]
  <2>1. new \in ApprovalRecord /\ ~new.used
    BY DEF ApprovalRecord, ApprovalStatuses
  <2>2. approval' = [approval EXCEPT ![a] = new] /\ approval[a].status = "unused"
    BY <1>2 DEF RequestApproval
  <2> HIDE DEF new
  <2> QED
    BY <1>1, <2>1, <2>2, ApprovalWritten
<1>3. ASSUME NEW by, NEW verdict \in {"approved", "rejected"}, DecideApproval(a, by, verdict) PROVE WfInv'
  BY <1>1, <1>3, DecisionKeeps DEF DecideApproval
<1>4. CASE ExpireApproval(a)
  BY <1>1, <1>4, DecisionKeeps DEF ExpireApproval
<1> QED
  BY <1>2, <1>3, <1>4 DEF Approve

\* Handoffs and offboarding change who holds a task, and never its status.
LEMMA HoldersChange ==
  ASSUME WfInv, UNCHANGED <<request, approval, call, wake, signals, paid>>,
         TaskTypes', HandoffTypes', WorkerTypes',
         \A t \in Tasks : task'[t].status = task[t].status
  PROVE  WfInv'
<1>1. WfTypes'
  BY DEF WfInv, WfTypes, RequestTypes, ApprovalTypes, CallTypes, WakeTypes, PaidTypes
<1> QED
  BY <1>1, OthersStep, RequestsUntouched, ApprovalsUntouched DEF Kept

\* Handoffs change the holder of a task and not its status.
LEMMA HandOverKeeps == ASSUME WfInv, NEW h \in Handoffs, HandOver(h) PROVE WfInv'
<1>1. UNCHANGED <<worker, request, approval, call, wake, signals, paid>>
  BY DEF HandOver, ProposeHandoff, AcceptHandoff, CloseHandoff
<1>2. /\ task \in [Tasks -> TaskRecord] /\ handoff \in [Handoffs -> HandoffRecord] /\ WorkerTypes'
  BY <1>1 DEF WfInv, WfTypes, TaskTypes, HandoffTypes, WorkerTypes
<1>3. ASSUME NEW t \in Tasks, NEW w \in Workers, NEW v \in Workers, ProposeHandoff(h, t, w, v) PROVE WfInv'
  <2> DEFINE new == [status |-> "proposed", task |-> t, from |-> w, to |-> v]
  <2>1. new \in HandoffRecord /\ new.task \in Tasks /\ new.to \in Workers
    BY DEF HandoffRecord, HandoffStatuses
  <2>2. handoff' = [handoff EXCEPT ![h] = new] /\ UNCHANGED task
    BY <1>3 DEF ProposeHandoff
  <2> HIDE DEF new
  <2>3. HandoffTypes'
    BY <1>2, <2>1, <2>2 DEF WfInv, WfTypes, HandoffTypes
  <2> QED
    BY <1>1, <1>2, <2>2, <2>3, HoldersChange DEF TaskTypes
<1>4. ASSUME NEW status \in HandoffStatuses, handoff[h].status = "proposed",
             handoff' = [handoff EXCEPT ![h].status = status]
      PROVE  HandoffTypes'
  <2>1. /\ handoff' \in [Handoffs -> HandoffRecord]
        /\ handoff'[h].task = handoff[h].task /\ handoff'[h].to = handoff[h].to
        /\ \A g \in Handoffs \ {h} : handoff'[g] = handoff[g]
    BY <1>2, <1>4 DEF HandoffRecord
  <2> QED
    BY <1>4, <2>1 DEF WfInv, WfTypes, HandoffTypes
<1>5. CASE AcceptHandoff(h)
  <2>1. handoff[h].status = "proposed" /\ handoff' = [handoff EXCEPT ![h].status = "accepted"]
    BY <1>5 DEF AcceptHandoff
  <2>2. HandoffTypes'
    BY <1>4, <2>1 DEF HandoffStatuses
  <2>3. PICK t \in Tasks, v \in Workers : t = handoff[h].task /\ v = handoff[h].to
    BY <2>1 DEF WfInv, WfTypes, HandoffTypes
  <2>4. task' = [task EXCEPT ![t].holder = v]
    BY <1>5, <2>3 DEF AcceptHandoff
  <2>5. task' \in [Tasks -> TaskRecord] /\ \A u \in Tasks : task'[u].status = task[u].status
    BY <1>2, <2>4 DEF TaskRecord
  <2> QED
    BY <1>1, <1>2, <2>2, <2>5, HoldersChange DEF TaskTypes
<1>6. ASSUME NEW status \in {"rejected", "cancelled"}, CloseHandoff(h, status) PROVE WfInv'
  <2>1. HandoffTypes' /\ UNCHANGED task
    BY <1>4, <1>6 DEF CloseHandoff, HandoffStatuses
  <2> QED
    BY <1>1, <1>2, <2>1, HoldersChange DEF TaskTypes
<1> QED
  BY <1>3, <1>5, <1>6 DEF HandOver

\* Offboarding moves what the worker has in hand to a successor and leaves its status.
LEMMA OffboardKeeps ==
  ASSUME WfInv, NEW w \in Workers, NEW v \in Workers, Offboard(w, v) PROVE WfInv'
<1> DEFINE InHand == {t \in Tasks : task[t].holder = w /\ task[t].status # "blocked"}
<1>1. /\ task' = [t \in Tasks |-> IF t \in InHand THEN [task[t] EXCEPT !.holder = v] ELSE task[t]]
      /\ worker' = [worker EXCEPT ![w] = "offboarded"]
      /\ UNCHANGED <<request, approval, handoff, call, wake, signals, paid>>
  BY DEF Offboard
<1> HIDE DEF InHand
<1>2. task \in [Tasks -> TaskRecord] /\ worker \in [Workers -> {"active", "offboarded"}]
  BY DEF WfInv, WfTypes, TaskTypes, WorkerTypes
<1>3. task' \in [Tasks -> TaskRecord] /\ \A t \in Tasks : task'[t].status = task[t].status
  BY <1>1, <1>2 DEF TaskRecord
<1>4. WorkerTypes' /\ HandoffTypes'
  BY <1>1, <1>2 DEF WorkerTypes, WfInv, WfTypes, HandoffTypes
<1> QED
  BY <1>1, <1>3, <1>4, HoldersChange DEF TaskTypes

\* A step that changes no variable keeps the invariant.
LEMMA WfStutter == ASSUME WfInv, UNCHANGED vars PROVE WfInv'
<1>1. UNCHANGED <<task, worker, request, approval, handoff, call, wake, signals, paid>>
  BY DEF vars
<1>2. TaskTypes' /\ HandoffTypes' /\ WorkerTypes'
  BY <1>1 DEF WfInv, WfTypes, TaskTypes, HandoffTypes, WorkerTypes
<1> QED
  BY <1>1, <1>2, HoldersChange

\* The invariant of delegated work, for any number of workers, tasks, skills,
\* calls and replicas.
THEOREM WorkforceInvariant == Spec => []WfInv
<1>1. ASSUME WfInv, [Next]_vars PROVE WfInv'
  <2>1. ASSUME NEW c \in Calls, Execute(c) PROVE WfInv'
    <3>1. CASE Crash(c)
      BY <1>1, <3>1, DoneKeeps DEF Crash
    <3> QED
      BY <1>1, <2>1, <3>1, BeginKeeps, RegisterKeeps, DisposeKeeps, HandBackKeeps, GateKeeps, ConsumeKeeps,
         ClaimKeeps, FinishKeeps
      DEF Execute
  <2>2. CASE UNCHANGED vars
    BY <1>1, <2>2, WfStutter
  <2> QED
    BY <1>1, <2>1, <2>2, LearnKeeps, WakeKeeps, ApproveKeeps, HandOverKeeps, OffboardKeeps DEF Next
<1> QED
  BY <1>1, WfStart, PTL DEF Spec

-----------------------------------------------------------------------------
(* Wakes *)

\* The replicas that are about to resume a task.
Resumers(t) == {k \in Wakers : \E p \in wake[k].plan : p.task = t /\ p.resume}

WakeCounts == /\ resumes \in [Tasks -> Nat] /\ outrun \in SUBSET Tasks
              /\ \A t \in Tasks : resumes[t] <= task[t].wakes
\* A replica has a task in its hands once.
HandsDiffer(x) ==
    /\ \A e, f \in x.todo : e.task = f.task => e = f
    /\ \A p, q \in x.plan : p = q
    /\ \A e \in x.todo, p \in x.plan : e.task # p.task
\* What a replica has in its hands is as it read it, unless another one woke the task.
HandsFresh(x) ==
    /\ \A e \in x.todo : e.cause = "sweep" /\ e.task \notin outrun => GapBlocked(e.task)
    /\ \A p \in x.plan : p.task \notin outrun =>
          /\ p.id[1] = "sweep" => GapBlocked(p.task)
          /\ p.resume => task[p.task].wakes < MaxResume
\* Once the budget is spent, a resume more is one that was about to be made.
BudgetSpent(t) ==
    task[t].wakes >= MaxResume =>
        resumes[t] + Cardinality(Resumers(t)) < MaxResume + Cardinality(Wakers)

ResumeInv ==
    /\ WakeCounts
    /\ \A k \in Wakers : HandsDiffer(wake[k]) /\ HandsFresh(wake[k])
    /\ \A t \in Tasks : BudgetSpent(t) /\ (t \notin outrun => resumes[t] <= MaxResume)

\* What the assumptions say of the wakers.
LEMMA WakeConstants ==
    /\ MaxResume \in Nat /\ MaxResume > 0 /\ "sweep" \notin Requests
    /\ IsFiniteSet(Wakers) /\ Cardinality(Wakers) \in Nat
  BY WorkforceAssumption, FS_CardinalityType

\* Replicas are finitely many.
LEMMA ResumersCount ==
  /\ \A t : IsFiniteSet(Resumers(t)) /\ Cardinality(Resumers(t)) \in Nat
  /\ \A S \in SUBSET Wakers : Cardinality(S) \in Nat /\ Cardinality(S) <= Cardinality(Wakers)
  /\ \A S \in SUBSET Wakers : \A T \in SUBSET S : Cardinality(T) <= Cardinality(S)
  /\ \A S \in SUBSET Wakers : \A k \in S : Cardinality(S \ {k}) = Cardinality(S) - 1
<1>1. \A S \in SUBSET Wakers : IsFiniteSet(S) /\ Cardinality(S) \in Nat
  BY WakeConstants, FS_Subset, FS_CardinalityType
<1>2. \A S \in SUBSET Wakers : \A T \in SUBSET S : Cardinality(T) <= Cardinality(S)
  BY <1>1, FS_Subset
<1>3. \A S \in SUBSET Wakers : \A k \in S : Cardinality(S \ {k}) = Cardinality(S) - 1
  BY <1>1, FS_RemoveElement
<1>4. \A t : Resumers(t) \in SUBSET Wakers
  BY DEF Resumers
<1> QED
  BY <1>1, <1>2, <1>3, <1>4

\* Nobody has been woken in a new organisation.
LEMMA ResumeStart == Init => ResumeInv
<1> SUFFICES ASSUME Init PROVE ResumeInv
  OBVIOUS
<1>1. /\ task = [t \in Tasks |-> [status |-> "delegated", holder |-> FirstHolder[t],
                                  reason |-> "none", wakes |-> 0, lastWake |-> NoEvent]]
      /\ wake = [k \in Wakers |-> IdleWake]
      /\ resumes = [t \in Tasks |-> 0] /\ outrun = {}
  BY DEF Init, InitWith
<1>2. WakeCounts
  BY <1>1 DEF WakeCounts
<1>3. \A k \in Wakers : HandsDiffer(wake[k]) /\ HandsFresh(wake[k])
  BY <1>1 DEF HandsDiffer, HandsFresh, IdleWake
<1>4. \A t \in Tasks : BudgetSpent(t) /\ resumes[t] <= MaxResume
  BY <1>1, WakeConstants DEF BudgetSpent
<1> QED
  BY <1>2, <1>3, <1>4 DEF ResumeInv

\* Nobody but a waker counts a wake, or changes a blocked task's status or reason.
BlockedKept ==
    \A t \in Tasks :
        /\ task'[t].wakes = task[t].wakes
        /\ task[t].status = "blocked" => task'[t].status = "blocked" /\ task'[t].reason = task[t].reason

\* Such a step leaves alone what the wakers count on.
LEMMA BlockedKeeps ==
  ASSUME WfInv, ResumeInv, BlockedKept, UNCHANGED <<wake, resumes, outrun>>
  PROVE  ResumeInv'
<1>1. \A k \in Wakers : wake[k].todo \subseteq EntryRecord /\ wake[k].plan \subseteq PlanRecord
  BY DEF WfInv, WfTypes, WakeTypes, WakeRecord
<1>2. \A t \in Tasks : GapBlocked(t) => GapBlocked(t)'
  BY DEF BlockedKept, GapBlocked
<1>3. WakeCounts'
  BY DEF ResumeInv, WakeCounts, BlockedKept
<1>4. ASSUME NEW k \in Wakers PROVE HandsDiffer(wake[k])' /\ HandsFresh(wake[k])'
  <2>1. HandsDiffer(wake[k])'
    BY DEF ResumeInv, HandsDiffer
  <2>2. \A e \in wake[k].todo : e.task \in Tasks
    BY <1>1 DEF EntryRecord
  <2>3. \A p \in wake[k].plan : p.task \in Tasks
    BY <1>1 DEF PlanRecord
  <2>4. HandsFresh(wake[k])'
    BY <1>2, <2>2, <2>3 DEF ResumeInv, HandsFresh, BlockedKept
  <2> QED
    BY <2>1, <2>4
<1>5. \A t \in Tasks : Resumers(t)' = Resumers(t)
  BY DEF Resumers
<1>6. \A t \in Tasks : BudgetSpent(t)' /\ (t \notin outrun' => resumes'[t] <= MaxResume)
  BY <1>5 DEF ResumeInv, BudgetSpent, BlockedKept
<1> QED
  BY <1>3, <1>4, <1>6 DEF ResumeInv

\* A call writes delegated tasks, and the one it runs.
LEMMA ExecuteSpares ==
  ASSUME WfInv, NEW c \in Calls, Execute(c) PROVE BlockedKept /\ UNCHANGED <<wake, resumes, outrun>>
<1>1. task \in [Tasks -> TaskRecord] /\ RunsAlone
  BY DEF WfInv, WfTypes, TaskTypes
<1>2. UNCHANGED <<wake, resumes, outrun>>
  BY DEF Execute, Begin, Register, Dispose, Delegate, Degrade, Suspend, Gate, Consume, Claim, Finish, Crash
<1>3. CASE UNCHANGED task
  BY <1>2, <1>3 DEF BlockedKept
<1>4. CASE Delegate(c) \/ Degrade(c) \/ Suspend(c) \/ Claim(c)
  <2>1. \/ UNCHANGED task
        \/ /\ task[call[c].task].status = "delegated"
           /\ \/ task' = [task EXCEPT ![call[c].task].holder = call[c].target]
              \/ \E s, r : task' = [task EXCEPT ![call[c].task].status = s, ![call[c].task].reason = r]
    BY <1>4 DEF Delegate, Degrade, Suspend, Claim, Holds
  <2>2. CASE task' = [task EXCEPT ![call[c].task].holder = call[c].target]
    BY <1>1, <1>2, <2>2 DEF BlockedKept, TaskRecord
  <2>3. ASSUME task[call[c].task].status = "delegated", NEW s, NEW r,
               task' = [task EXCEPT ![call[c].task].status = s, ![call[c].task].reason = r]
        PROVE  BlockedKept
    BY <1>1, <2>3 DEF BlockedKept, TaskRecord
  <2> QED
    BY <1>2, <1>3, <2>1, <2>2, <2>3
<1>5. CASE Finish(c)
  <2>1. /\ task[call[c].task].status = "in_progress"
        /\ \E s, r : task' = [task EXCEPT ![call[c].task].status = s, ![call[c].task].reason = r]
    BY <1>1, <1>5 DEF Finish, WriteBack, RunsAlone, Running
  <2> QED
    BY <1>1, <1>2, <2>1 DEF BlockedKept, TaskRecord
<1> QED
  BY <1>3, <1>4, <1>5 DEF Execute, Begin, Register, Dispose, Gate, Consume, Crash

\* Neither do learners, approvers, handoffs and offboardings touch a blocked task's status.
LEMMA OthersSpare ==
  ASSUME WfInv,
         \/ \E q \in Requests : Learn(q)
         \/ \E a \in Approvals : Approve(a)
         \/ \E h \in Handoffs : HandOver(h)
         \/ \E w, v \in Workers : Offboard(w, v)
         \/ UNCHANGED vars
  PROVE  BlockedKept /\ UNCHANGED <<wake, resumes, outrun>>
<1>1. task \in [Tasks -> TaskRecord]
  BY DEF WfInv, WfTypes, TaskTypes
<1>2. ASSUME NEW h \in Handoffs, HandOver(h) PROVE BlockedKept /\ UNCHANGED <<wake, resumes, outrun>>
  <2>1. UNCHANGED <<wake, resumes, outrun>> /\ (UNCHANGED task \/ \E t, v : task' = [task EXCEPT ![t].holder = v])
    BY <1>2 DEF HandOver, ProposeHandoff, AcceptHandoff, CloseHandoff
  <2> QED
    BY <1>1, <2>1 DEF BlockedKept, TaskRecord
<1>3. ASSUME NEW w \in Workers, NEW v \in Workers, Offboard(w, v)
      PROVE  BlockedKept /\ UNCHANGED <<wake, resumes, outrun>>
  <2>1. UNCHANGED <<wake, resumes, outrun>>
        /\ \E S : task' = [t \in Tasks |-> IF t \in S THEN [task[t] EXCEPT !.holder = v] ELSE task[t]]
    BY <1>3 DEF Offboard
  <2> QED
    BY <1>1, <2>1 DEF BlockedKept, TaskRecord
<1>4. ASSUME NEW q \in Requests, Learn(q) PROVE UNCHANGED <<task, wake, resumes, outrun>>
  BY <1>4 DEF Learn, TakeRequest, PassRequest, FailRequest, LoseEvent
<1>5. ASSUME NEW a \in Approvals, Approve(a) PROVE UNCHANGED <<task, wake, resumes, outrun>>
  BY <1>5 DEF Approve, RequestApproval, DecideApproval, ExpireApproval
<1>6. UNCHANGED vars => UNCHANGED <<task, wake, resumes, outrun>>
  BY DEF vars
<1>7. UNCHANGED task => BlockedKept
  BY DEF BlockedKept
<1> QED
  BY <1>2, <1>3, <1>4, <1>5, <1>6, <1>7

\* A replica that takes up a list counts for no task yet; what it lists is fresh.
LEMMA ListKeepsResumes ==
  ASSUME WfInv, ResumeInv, NEW k \in Wakers, NEW list \in SUBSET EntryRecord,
         wake[k] = IdleWake, wake' = [wake EXCEPT ![k].todo = list],
         UNCHANGED <<task, resumes, outrun>>,
         \A e, f \in list : e.task = f.task => e = f,
         \A e \in list : e.cause = "sweep" => GapBlocked(e.task)
  PROVE  ResumeInv'
<1>1. wake \in [Wakers -> WakeRecord]
  BY DEF WfInv, WfTypes, WakeTypes
<1>2. /\ wake'[k].todo = list /\ wake'[k].plan = {}
      /\ \A j \in Wakers \ {k} : wake'[j] = wake[j]
  BY <1>1 DEF IdleWake, WakeRecord
<1>3. \A t : GapBlocked(t)' <=> GapBlocked(t)
  BY DEF GapBlocked
<1>4. WakeCounts'
  BY DEF ResumeInv, WakeCounts
<1>5. ASSUME NEW j \in Wakers PROVE HandsDiffer(wake[j])' /\ HandsFresh(wake[j])'
  <2>1. CASE j = k
    BY <1>2, <1>3, <2>1 DEF HandsDiffer, HandsFresh
  <2>2. CASE j # k
    BY <1>2, <1>3, <2>2 DEF ResumeInv, HandsDiffer, HandsFresh
  <2> QED
    BY <2>1, <2>2
<1>6. \A t \in Tasks : Resumers(t)' = Resumers(t)
  <2>1. \A j \in Wakers : wake'[j].plan = wake[j].plan
    BY <1>2 DEF IdleWake
  <2> QED
    BY <2>1 DEF Resumers
<1>7. \A t \in Tasks : BudgetSpent(t)' /\ (t \notin outrun' => resumes'[t] <= MaxResume)
  BY <1>6 DEF ResumeInv, BudgetSpent
<1> QED
  BY <1>4, <1>5, <1>7 DEF ResumeInv

\* An event's list, and a sweep's.
LEMMA ListsKeep ==
  ASSUME WfInv, ResumeInv, NEW k \in Wakers, (\E q \in Requests : DeliverEvent(k, q)) \/ Sweep(k)
  PROVE  ResumeInv' /\ UNCHANGED task
<1>1. ASSUME NEW q \in Requests, DeliverEvent(k, q) PROVE ResumeInv' /\ UNCHANGED task
  <2>1. request[q].persona \in Workers
    BY <1>1 DEF DeliverEvent, WfInv, WfTypes, WakeTypes, RequestTypes
  <2>2. EventList(q) \in SUBSET EntryRecord
    BY <2>1 DEF EventList, Entry, EntryRecord
  <2>3. /\ \A e, f \in EventList(q) : e.task = f.task => e = f
        /\ \A e \in EventList(q) : e.cause # "sweep"
    BY WakeConstants DEF EventList, Entry
  <2>4. /\ wake[k] = IdleWake /\ wake' = [wake EXCEPT ![k].todo = EventList(q)]
        /\ UNCHANGED <<task, resumes, outrun>>
    BY <1>1 DEF DeliverEvent, IdleWaker
  <2> QED
    BY <2>2, <2>3, <2>4, ListKeepsResumes
<1>2. CASE Sweep(k)
  <2>1. SweepList \in SUBSET EntryRecord
    BY DEF SweepList, Entry, EntryRecord, TaskRecord, WfInv, WfTypes, TaskTypes
  <2>2. /\ \A e, f \in SweepList : e.task = f.task => e = f
        /\ \A e \in SweepList : GapBlocked(e.task)
    BY DEF SweepList, Entry
  <2>3. /\ wake[k] = IdleWake /\ wake' = [wake EXCEPT ![k].todo = SweepList]
        /\ UNCHANGED <<task, resumes, outrun>>
    BY <1>2 DEF Sweep, IdleWaker
  <2> QED
    BY <2>1, <2>2, <2>3, ListKeepsResumes
<1> QED
  BY <1>1, <1>2

\* What is planned on a read is fresh, and is a resume only while the budget lasts.
LEMMA ReadKeepsResumes ==
  ASSUME WfInv, ResumeInv, NEW k \in Wakers, NEW e \in wake[k].todo, WakeRead(k, e)
  PROVE  ResumeInv' /\ UNCHANGED task
<1>1. PICK id, resume, plan :
         /\ wake' = [wake EXCEPT ![k] = [todo |-> wake[k].todo \ {e}, plan |-> plan]]
         /\ plan \in SUBSET {[task |-> e.task, id |-> id, resume |-> resume]}
         /\ id[1] = "sweep" => e.cause = "sweep"
         /\ resume => task[e.task].wakes < MaxResume
  <2>1. EventId(e)[1] = "sweep" => e.cause = "sweep"
    BY DEF EventId
  <2>2. MayResume(e.task, e.persona) => task[e.task].wakes < MaxResume
    BY DEF MayResume
  <2> WITNESS EventId(e), MayResume(e.task, e.persona),
              IF task[e.task].status # "blocked" \/ task[e.task].lastWake = EventId(e)
              THEN {} ELSE {[task |-> e.task, id |-> EventId(e), resume |-> MayResume(e.task, e.persona)]}
  <2> QED
    BY <2>1, <2>2 DEF WakeRead
<1>2. wake \in [Wakers -> WakeRecord] /\ UNCHANGED <<task, resumes, outrun>>
  BY DEF WfInv, WfTypes, WakeTypes, WakeRead
<1>3. /\ \A p, q \in plan : p = q
      /\ \A p \in plan : /\ p.task = e.task
                         /\ p.id[1] = "sweep" => e.cause = "sweep"
                         /\ p.resume => task[e.task].wakes < MaxResume
  <2>1. PICK q : q = [task |-> e.task, id |-> id, resume |-> resume]
    OBVIOUS
  <2>2. q.task = e.task /\ q.id = id /\ q.resume = resume
    BY <2>1
  <2>3. \A p \in plan : p = q
    BY <1>1, <2>1
  <2> QED
    BY <1>1, <2>2, <2>3
<1> DEFINE rest == wake[k].todo \ {e}
<1>4. /\ wake'[k].todo = rest /\ wake'[k].plan = plan
      /\ \A j \in Wakers \ {k} : wake'[j] = wake[j]
  BY <1>1, <1>2
<1>5. \A t : GapBlocked(t)' <=> GapBlocked(t)
  BY <1>2 DEF GapBlocked
<1>6. WakeCounts'
  BY <1>2 DEF ResumeInv, WakeCounts
<1>7. ASSUME NEW j \in Wakers PROVE HandsDiffer(wake[j])' /\ HandsFresh(wake[j])'
  <2>1. CASE j = k
    <3>1. HandsDiffer(wake[k]) /\ HandsFresh(wake[k])
      BY DEF ResumeInv
    <3>2. \A f \in rest : f \in wake[k].todo /\ f # e /\ f.task # e.task
      BY <3>1 DEF HandsDiffer
    <3>3. HandsDiffer(wake[k])'
      <4>1. \A f, g \in rest : f.task = g.task => f = g
        BY <3>1, <3>2 DEF HandsDiffer
      <4>2. \A f \in rest, p \in plan : f.task # p.task
        BY <1>3, <3>2
      <4> QED
        BY <1>3, <1>4, <4>1, <4>2 DEF HandsDiffer
    <3>4. HandsFresh(wake[k])'
      <4>1. \A f \in rest : f.cause = "sweep" /\ f.task \notin outrun => GapBlocked(f.task)
        BY <3>1, <3>2 DEF HandsFresh
      <4>2. e.cause = "sweep" /\ e.task \notin outrun => GapBlocked(e.task)
        BY <3>1 DEF HandsFresh
      <4>3. \A p \in plan : p.task \notin outrun =>
               /\ p.id[1] = "sweep" => GapBlocked(p.task)
               /\ p.resume => task[p.task].wakes < MaxResume
        BY <1>3, <4>2
      <4> QED
        BY <1>2, <1>4, <1>5, <4>1, <4>3 DEF HandsFresh
    <3> QED
      BY <2>1, <3>3, <3>4
  <2>2. CASE j # k
    BY <1>2, <1>4, <1>5, <2>2 DEF ResumeInv, HandsDiffer, HandsFresh
  <2> QED
    BY <2>1, <2>2
<1>8. ASSUME NEW t \in Tasks PROVE BudgetSpent(t)' /\ (t \notin outrun' => resumes'[t] <= MaxResume)
  <2>1. CASE task[t].wakes >= MaxResume
    <3>1. task[t].wakes \in Nat /\ resumes[t] \in Nat
      BY DEF WfInv, WfTypes, TaskTypes, TaskRecord, ResumeInv, WakeCounts
    <3>2. Resumers(t)' \subseteq Resumers(t)
      <4>1. ~(task[t].wakes < MaxResume)
        BY <2>1, <3>1, WakeConstants
      <4>2. \A p \in plan : ~(p.task = t /\ p.resume)
        BY <1>3, <4>1
      <4> QED
        BY <1>4, <4>2 DEF Resumers
    <3>3. Cardinality(Resumers(t)') <= Cardinality(Resumers(t)) /\ Cardinality(Resumers(t)') \in Nat
          /\ Cardinality(Resumers(t)) \in Nat
      <4>1. Resumers(t) \in SUBSET Wakers /\ Resumers(t)' \in SUBSET Wakers
        BY DEF Resumers
      <4> QED
        BY <3>2, <4>1, ResumersCount
    <3>4. resumes[t] + Cardinality(Resumers(t)) < MaxResume + Cardinality(Wakers)
      BY <2>1 DEF ResumeInv, BudgetSpent
    <3>5. resumes[t] + Cardinality(Resumers(t)') < MaxResume + Cardinality(Wakers)
      BY <3>1, <3>3, <3>4, WakeConstants
    <3> QED
      BY <1>2, <3>5 DEF ResumeInv, BudgetSpent
  <2>2. CASE ~(task[t].wakes >= MaxResume)
    BY <1>2, <2>2 DEF ResumeInv, BudgetSpent
  <2> QED
    BY <2>1, <2>2
<1> QED
  BY <1>2, <1>6, <1>7, <1>8 DEF ResumeInv

\* What a write leaves of the hands: its replica has done with the task.
LEMMA WriteHands ==
  ASSUME WfInv, ResumeInv, NEW k \in Wakers, NEW p \in wake[k].plan, wake' = [wake EXCEPT ![k].plan = {}]
  PROVE  /\ p.task \in Tasks
         /\ \A j \in Wakers : /\ wake'[j].todo = wake[j].todo
                              /\ wake'[j].plan = IF j = k THEN {} ELSE wake[j].plan
         /\ \A j \in Wakers : HandsDiffer(wake[j])'
         /\ \A j \in Wakers : \A e \in wake'[j].todo \cup wake'[j].plan :
               e.task = p.task => j # k /\ HasInHand(j, p.task)
         /\ \A t : Resumers(t)' = Resumers(t) \ {k}
<1>1. wake \in [Wakers -> WakeRecord]
  BY DEF WfInv, WfTypes, WakeTypes
<1>2. p.task \in Tasks
  BY <1>1 DEF WakeRecord, PlanRecord
<1>3. \A j \in Wakers : /\ wake'[j].todo = wake[j].todo
                        /\ wake'[j].plan = IF j = k THEN {} ELSE wake[j].plan
  BY <1>1 DEF WakeRecord
<1>4. \A j \in Wakers : HandsDiffer(wake[j])
  BY DEF ResumeInv
<1>5. \A j \in Wakers : HandsDiffer(wake[j])'
  BY <1>3, <1>4 DEF HandsDiffer
<1>6. ASSUME NEW j \in Wakers, NEW e \in wake'[j].todo \cup wake'[j].plan, e.task = p.task
      PROVE  j # k /\ HasInHand(j, p.task)
  <2>1. j # k
    BY <1>3, <1>4, <1>6 DEF HandsDiffer
  <2>2. e \in wake[j].todo \cup wake[j].plan
    BY <1>3, <1>6, <2>1
  <2> QED
    BY <1>6, <2>1, <2>2 DEF HasInHand
<1>7. \A t : Resumers(t)' = Resumers(t) \ {k}
  BY <1>3 DEF Resumers
<1> QED
  BY <1>2, <1>3, <1>5, <1>6, <1>7

\* A write either finds the task no longer as it was, or wakes it.
LEMMA WriteKeepsResumes ==
  ASSUME WfInv, ResumeInv, NEW k \in Wakers, WakeWrite(k)
  PROVE  ResumeInv'
<1>1. PICK p \in wake[k].plan :
        /\ wake' = [wake EXCEPT ![k].plan = {}]
        /\ IF task[p.task].status = "blocked" /\ task[p.task].lastWake # p.id
           THEN /\ task' = [task EXCEPT ![p.task].status = IF p.resume THEN "delegated" ELSE @,
                                        ![p.task].wakes = @ + 1,
                                        ![p.task].lastWake = p.id]
                /\ resumes' = [resumes EXCEPT ![p.task] = IF p.resume THEN @ + 1 ELSE @]
                /\ outrun' = IF \E j \in Wakers \ {k} : HasInHand(j, p.task)
                             THEN outrun \cup {p.task} ELSE outrun
           ELSE UNCHANGED <<task, resumes, outrun>>
  BY DEF WakeWrite
<1> DEFINE t == p.task
<1>2. /\ t \in Tasks
      /\ \A j \in Wakers : /\ wake'[j].todo = wake[j].todo
                           /\ wake'[j].plan = IF j = k THEN {} ELSE wake[j].plan
      /\ \A j \in Wakers : HandsDiffer(wake[j])'
      /\ \A j \in Wakers : \A e \in wake'[j].todo \cup wake'[j].plan :
            e.task = t => j # k /\ HasInHand(j, t)
      /\ \A u : Resumers(u)' = Resumers(u) \ {k}
  BY <1>1, WriteHands
<1>3. /\ task \in [Tasks -> TaskRecord] /\ resumes \in [Tasks -> Nat]
      /\ \A u \in Tasks : task[u].wakes \in Nat /\ resumes[u] \in Nat /\ resumes[u] <= task[u].wakes
  BY DEF WfInv, WfTypes, TaskTypes, TaskRecord, ResumeInv, WakeCounts
<1>4. CASE UNCHANGED <<task, resumes, outrun>>
  <2>1. WakeCounts' /\ \A u : GapBlocked(u)' <=> GapBlocked(u)
    BY <1>4 DEF ResumeInv, WakeCounts, GapBlocked
  <2>2. ASSUME NEW j \in Wakers PROVE HandsFresh(wake[j])'
    <3>1. wake'[j].todo = wake[j].todo /\ wake'[j].plan \subseteq wake[j].plan
      BY <1>2
    <3>2. HandsFresh(wake[j])
      BY DEF ResumeInv
    <3> QED
      BY <1>4, <2>1, <3>1, <3>2 DEF HandsFresh
  <2>3. ASSUME NEW u \in Tasks PROVE BudgetSpent(u)' /\ (u \notin outrun' => resumes'[u] <= MaxResume)
    <3>1. Cardinality(Resumers(u) \ {k}) <= Cardinality(Resumers(u))
          /\ Cardinality(Resumers(u) \ {k}) \in Nat /\ Cardinality(Resumers(u)) \in Nat
      <4>1. Resumers(u) \in SUBSET Wakers /\ Resumers(u) \ {k} \in SUBSET Resumers(u)
            /\ Resumers(u) \ {k} \in SUBSET Wakers
        BY DEF Resumers
      <4> QED
        BY <4>1, ResumersCount
    <3>2. Resumers(u)' = Resumers(u) \ {k}
      BY <1>2
    <3>3. BudgetSpent(u) /\ (u \notin outrun => resumes[u] <= MaxResume)
      BY DEF ResumeInv
    <3>4. BudgetSpent(u)'
      BY <1>3, <1>4, <3>1, <3>2, <3>3, WakeConstants DEF BudgetSpent
    <3> QED
      BY <1>4, <3>3, <3>4
  <2> QED
    BY <1>2, <2>1, <2>2, <2>3 DEF ResumeInv
<1>5. CASE task[p.task].status = "blocked" /\ task[p.task].lastWake # p.id
  <2>1. PICK n \in {0, 1} : (n = 1 <=> p.resume) /\ resumes' = [resumes EXCEPT ![t] = resumes[t] + n]
    <3>1. resumes' = [resumes EXCEPT ![t] = IF p.resume THEN resumes[t] + 1 ELSE resumes[t]]
      BY <1>1, <1>5
    <3>2. CASE p.resume
      BY <3>1, <3>2
    <3>3. CASE ~p.resume
      <4>1. resumes' = [resumes EXCEPT ![t] = resumes[t]] /\ resumes[t] = resumes[t] + 0
        BY <1>2, <1>3, <3>1, <3>3
      <4> WITNESS 0 \in {0, 1}
      <4>2. ~(0 = 1)
        OBVIOUS
      <4> QED
        BY <3>3, <4>1, <4>2
    <3> QED
      BY <3>2, <3>3
  <2>2. /\ task'[t].wakes = task[t].wakes + 1
        /\ \A u \in Tasks \ {t} : task'[u] = task[u]
    BY <1>1, <1>2, <1>3, <1>5 DEF TaskRecord
  <2>3. /\ outrun \subseteq outrun' /\ outrun' \in SUBSET Tasks
        /\ t \notin outrun' => \A j \in Wakers \ {k} : ~HasInHand(j, t)
    <3>1. outrun' = IF \E j \in Wakers \ {k} : HasInHand(j, t) THEN outrun \cup {t} ELSE outrun
      BY <1>1, <1>5
    <3>2. outrun \in SUBSET Tasks
      BY DEF ResumeInv, WakeCounts
    <3> QED
      BY <1>2, <3>1, <3>2
  <2>4. HandsFresh(wake[k])
    BY DEF ResumeInv
  <2>5. p.resume /\ t \notin outrun => task[t].wakes < MaxResume
    BY <2>4 DEF HandsFresh
  <2>6. p.resume => k \in Resumers(t)
    BY DEF Resumers
  <2> HIDE DEF t
  <2>7. /\ resumes'[t] = resumes[t] + n /\ resumes' \in [Tasks -> Nat]
        /\ \A u \in Tasks \ {t} : resumes'[u] = resumes[u]
    BY <1>2, <1>3, <2>1
  <2>8. WakeCounts'
    <3>1. \A u \in Tasks : resumes'[u] <= task'[u].wakes
      BY <1>2, <1>3, <2>2, <2>7
    <3> QED
      BY <2>3, <2>7, <3>1 DEF WakeCounts
  <2>9. ASSUME NEW j \in Wakers PROVE HandsFresh(wake[j])'
    <3>1. wake'[j].todo = wake[j].todo /\ wake'[j].plan \subseteq wake[j].plan
      BY <1>2
    <3>2. HandsFresh(wake[j])
      BY DEF ResumeInv
    <3>3. \A e \in wake'[j].todo \cup wake'[j].plan : e.task \notin outrun' => e.task # t /\ e.task \notin outrun
      BY <1>2, <2>3
    <3>4. /\ \A e \in wake'[j].todo : e.task \in Tasks
          /\ \A e \in wake'[j].plan : e.task \in Tasks
      BY <3>1 DEF WfInv, WfTypes, WakeTypes, WakeRecord, EntryRecord, PlanRecord
    <3>5. \A u \in Tasks \ {t} : GapBlocked(u) => GapBlocked(u)'
      BY <2>2 DEF GapBlocked
    <3>6. \A e \in wake'[j].todo : e.cause = "sweep" /\ e.task \notin outrun' => GapBlocked(e.task)'
      BY <3>1, <3>2, <3>3, <3>4, <3>5 DEF HandsFresh
    <3>7. \A q \in wake'[j].plan : q.task \notin outrun' =>
             /\ q.id[1] = "sweep" => GapBlocked(q.task)'
             /\ q.resume => task'[q.task].wakes < MaxResume
      BY <2>2, <3>1, <3>2, <3>3, <3>4, <3>5 DEF HandsFresh
    <3> QED
      BY <3>6, <3>7 DEF HandsFresh
  <2>10. ASSUME NEW u \in Tasks PROVE BudgetSpent(u)' /\ (u \notin outrun' => resumes'[u] <= MaxResume)
    <3>1. /\ Cardinality(Resumers(u)') <= Cardinality(Resumers(u))
          /\ Cardinality(Resumers(u)') < Cardinality(Wakers)
          /\ Cardinality(Resumers(u)') \in Nat /\ Cardinality(Resumers(u)) \in Nat
          /\ k \in Resumers(u) => Cardinality(Resumers(u)') = Cardinality(Resumers(u)) - 1
      <4>1. /\ Resumers(u) \in SUBSET Wakers /\ Resumers(u) \ {k} \in SUBSET Resumers(u)
            /\ Resumers(u) \ {k} \in SUBSET Wakers /\ Resumers(u) \ {k} \in SUBSET (Wakers \ {k})
            /\ Wakers \ {k} \in SUBSET Wakers /\ Wakers \in SUBSET Wakers
        BY DEF Resumers
      <4>2. Cardinality(Resumers(u) \ {k}) <= Cardinality(Wakers \ {k})
            /\ Cardinality(Wakers \ {k}) = Cardinality(Wakers) - 1
        BY <4>1, ResumersCount
      <4>3. /\ Cardinality(Resumers(u) \ {k}) <= Cardinality(Resumers(u))
            /\ Cardinality(Resumers(u) \ {k}) \in Nat /\ Cardinality(Resumers(u)) \in Nat
            /\ k \in Resumers(u) => Cardinality(Resumers(u) \ {k}) = Cardinality(Resumers(u)) - 1
        BY <4>1, ResumersCount
      <4>4. Cardinality(Resumers(u) \ {k}) < Cardinality(Wakers)
        BY <4>2, <4>3, WakeConstants
      <4>5. Resumers(u)' = Resumers(u) \ {k}
        BY <1>2
      <4> QED
        BY <4>3, <4>4, <4>5
    <3>2. BudgetSpent(u) /\ (u \notin outrun => resumes[u] <= MaxResume)
      BY DEF ResumeInv
    <3>3. CASE u # t
      <4>1. task'[u] = task[u] /\ resumes'[u] = resumes[u]
        BY <2>2, <2>7, <3>3
      <4>2. BudgetSpent(u)'
        BY <1>3, <3>1, <3>2, <4>1, WakeConstants DEF BudgetSpent
      <4> QED
        BY <2>3, <3>2, <4>1, <4>2
    <3>4. CASE u = t
      <4>1. resumes'[u] = resumes[u] + n /\ task'[u].wakes = task[u].wakes + 1
        BY <2>2, <2>7, <3>4
      <4>2. CASE task[u].wakes < MaxResume
        <5>1. resumes'[u] <= MaxResume
          BY <1>3, <4>1, <4>2, WakeConstants
        <5>2. resumes'[u] + Cardinality(Resumers(u)') < MaxResume + Cardinality(Wakers)
          BY <1>3, <3>1, <4>1, <5>1, WakeConstants
        <5> QED
          BY <5>1, <5>2 DEF BudgetSpent
      <4>3. CASE ~(task[u].wakes < MaxResume)
        <5>1. resumes[u] + Cardinality(Resumers(u)) < MaxResume + Cardinality(Wakers)
          BY <1>3, <3>2, <4>3, WakeConstants DEF BudgetSpent
        <5>2. n = 0 \/ (n = 1 /\ k \in Resumers(u))
          BY <2>1, <2>6, <3>4
        <5>3. resumes'[u] + Cardinality(Resumers(u)') < MaxResume + Cardinality(Wakers)
          BY <1>3, <3>1, <4>1, <5>1, <5>2, WakeConstants
        <5>4. u \notin outrun' => n = 0 /\ u \notin outrun
          BY <2>1, <2>3, <2>5, <3>4, <4>3
        <5> QED
          BY <1>3, <3>2, <4>1, <5>3, <5>4 DEF BudgetSpent
      <4> QED
        BY <4>2, <4>3
    <3> QED
      BY <3>3, <3>4
  <2> QED
    BY <1>2, <2>8, <2>9, <2>10 DEF ResumeInv
<1> QED
  BY <1>1, <1>4, <1>5

\* The budget of resumes is kept by every step.
THEOREM ResumeInvariant == Spec => [](WfInv /\ ResumeInv)
<1>1. ASSUME WfInv, ResumeInv, [Next]_vars PROVE ResumeInv'
  <2>1. ASSUME NEW c \in Calls, Execute(c) PROVE ResumeInv'
    BY <1>1, <2>1, ExecuteSpares, BlockedKeeps
  <2>2. ASSUME NEW k \in Wakers, Wake(k) PROVE ResumeInv'
    BY <1>1, <2>2, ListsKeep, ReadKeepsResumes, WriteKeepsResumes DEF Wake
  <2>3. ASSUME \/ \E q \in Requests : Learn(q)
               \/ \E a \in Approvals : Approve(a)
               \/ \E h \in Handoffs : HandOver(h)
               \/ \E w, v \in Workers : Offboard(w, v)
               \/ UNCHANGED vars
        PROVE  ResumeInv'
    BY <1>1, <2>3, OthersSpare, BlockedKeeps
  <2> QED
    BY <1>1, <2>1, <2>2, <2>3 DEF Next
<1>2. Spec => [][Next]_vars /\ Init
  BY DEF Spec
<1> QED
  BY <1>1, <1>2, ResumeStart, WorkforceInvariant, PTL

\* What the invariant says of the budget.
LEMMA BudgetFollows == WfInv /\ ResumeInv => ResumeBudget
<1> SUFFICES ASSUME WfInv, ResumeInv, NEW t \in Tasks
             PROVE  resumes[t] < MaxResume + Cardinality(Wakers) /\ (t \notin outrun => resumes[t] <= MaxResume)
  BY DEF ResumeBudget
<1>1. task[t].wakes \in Nat /\ resumes[t] \in Nat /\ resumes[t] <= task[t].wakes
  BY DEF WfInv, WfTypes, TaskTypes, TaskRecord, ResumeInv, WakeCounts
<1>2. BudgetSpent(t) /\ (t \notin outrun => resumes[t] <= MaxResume)
  BY DEF ResumeInv
<1>3. Cardinality(Resumers(t)) \in Nat
  BY ResumersCount
<1>4. CASE task[t].wakes < MaxResume
  BY <1>1, <1>2, <1>4, WakeConstants
<1>5. CASE ~(task[t].wakes < MaxResume)
  <2>1. resumes[t] + Cardinality(Resumers(t)) < MaxResume + Cardinality(Wakers)
    BY <1>1, <1>2, <1>5, WakeConstants DEF BudgetSpent
  <2> QED
    BY <1>1, <1>2, <1>3, <2>1, WakeConstants
<1> QED
  BY <1>4, <1>5

\* Only a wake turns a blocked task into a delegated one, and a sweep's wake is of
\* a task it found blocked for a missing skill.
LEMMA FailuresSpared ==
  ASSUME WfInv, ResumeInv, [Next]_vars, NEW t \in Tasks,
         task[t].status = "blocked", task[t].reason = "execution_failure", task'[t].status = "delegated"
  PROVE  task'[t].lastWake[1] = "event" \/ t \in outrun
<1>1. ~BlockedKept
  BY DEF BlockedKept
<1>2. ~UNCHANGED task
  OBVIOUS
<1>3. PICK k \in Wakers : Wake(k)
  BY <1>1, ExecuteSpares, OthersSpare DEF Next
<1>4. WakeWrite(k)
  BY <1>2, <1>3, ListsKeep, ReadKeepsResumes DEF Wake
<1>5. PICK p \in wake[k].plan :
         task' = [task EXCEPT ![p.task].status = IF p.resume THEN "delegated" ELSE @,
                              ![p.task].wakes = @ + 1,
                              ![p.task].lastWake = p.id]
  BY <1>2, <1>4 DEF WakeWrite
<1>6. task \in [Tasks -> TaskRecord] /\ p \in PlanRecord
  BY DEF WfInv, WfTypes, TaskTypes, WakeTypes, WakeRecord
<1>7. t = p.task /\ task'[t].lastWake = p.id
  BY <1>5, <1>6 DEF TaskRecord, PlanRecord
<1>8. p.id[1] \in {"event", "sweep"}
  <2>1. p.id \in EventIds
    BY <1>6 DEF PlanRecord
  <2> QED
    BY <2>1 DEF EventIds
<1>9. p.id[1] = "sweep" /\ t \notin outrun => task[t].reason = "capability_gap"
  BY <1>7 DEF ResumeInv, HandsFresh, GapBlocked
<1> QED
  BY <1>7, <1>8, <1>9

\* A wake is bounded and safe: however many events and sweeps of several replicas
\* race (task-wake-handler.ts, task-wake-reconciler.ts), a task is resumed within
\* its budget, or once more for each further replica that had it in hand, and the
\* sweep spares a failed tool.
THEOREM ResumeHolds == Spec => ResumeIsSafe
<1>1. WfInv /\ ResumeInv /\ [Next]_vars =>
         [\A t \in Tasks : /\ task[t].status = "blocked"
                           /\ task[t].reason = "execution_failure"
                           /\ task'[t].status = "delegated"
                           => task'[t].lastWake[1] = "event" \/ t \in outrun]_vars
  BY FailuresSpared
<1>2. WfInv /\ ResumeInv => ResumeBudget
  BY BudgetFollows
<1>3. Spec => [][Next]_vars
  BY DEF Spec
<1> QED
  BY <1>1, <1>2, <1>3, ResumeInvariant, PTL DEF ResumeIsSafe, SweepSparesFailures

\* Every row, call and wake list has its type in every state.
THEOREM WorkforceTyped == Spec => []WorkforceTypeOK
<1>1. ASSUME WfInv, ResumeInv PROVE WorkforceTypeOK
  <2>1. signals \subseteq Requests /\ wake \in [Wakers -> WakeRecord]
    BY <1>1 DEF WfInv, WfTypes, WakeTypes
  <2>2. WakeRecord \subseteq [todo : SUBSET [task : Tasks, persona : Workers \cup {None}, cause : Requests \cup {"sweep"}],
                             plan : SUBSET [task : Tasks, id : EventIds, resume : BOOLEAN]]
    <3>1. EntryRecord \subseteq [task : Tasks, persona : Workers \cup {None}, cause : Requests \cup {"sweep"}]
      BY DEF EntryRecord
    <3> QED
      BY <3>1 DEF WakeRecord, PlanRecord
  <2>3. wake \in [Wakers -> [todo : SUBSET [task : Tasks, persona : Workers \cup {None}, cause : Requests \cup {"sweep"}],
                             plan : SUBSET [task : Tasks, id : EventIds, resume : BOOLEAN]]]
    BY <2>1, <2>2
  <2> QED
    BY <1>1, <2>1, <2>3
    DEF WfInv, WfTypes, TaskTypes, RequestTypes, ApprovalTypes, HandoffTypes, CallTypes, WorkerTypes, PaidTypes,
        TaskRecord, RequestRecord, ApprovalRecord, HandoffRecord, CallRecord, WorkforceTypeOK, ResumeInv, WakeCounts
<1> QED
  BY <1>1, ResumeInvariant, PTL

\* While a tool runs its task is in progress and no second call runs it: the claim
\* is a compare-and-set, and nothing else writes the status of a task in progress.
THEOREM ExclusionHolds == Spec => []RunExclusive
<1>1. WfInv => RunExclusive
  BY DEF WfInv, RunsAlone, RunExclusive
<1> QED
  BY <1>1, WorkforceInvariant, PTL

\* A tool runs only for a worker that has learned everything the task requires.
THEOREM SkillHolds == Spec => []SkilledRun
<1>1. WfInv => SkilledRun
  BY DEF WfInv, CallsSound, CallSound, AtGate, SkilledRun, Running
<1> QED
  BY <1>1, WorkforceInvariant, PTL

\* One approval lets at most one run through (consumeApprovalIfUnused).
THEOREM ApprovalHolds == Spec => []OneRunPerApproval
<1>1. WfInv => OneRunPerApproval
  BY DEF WfInv, PaidSound, OneRunPerApproval
<1> QED
  BY <1>1, WorkforceInvariant, PTL

\* A run above low risk holds a spent approval for this task, this worker and at
\* least this risk (isExecutionApprovalCleared).
THEOREM RiskHolds == Spec => []RiskyRunApproved
<1>1. WfInv => RiskyRunApproved
  BY DEF WfInv, CallsSound, CallSound, Past, Spent, Matches, RiskyRunApproved, Running
<1> QED
  BY <1>1, WorkforceInvariant, PTL

\* Whoever runs a tool is alone on the task and has its skills (execute).
THEOREM EntitlementHolds == Spec => []RunIsEntitled
BY WorkforceTyped, ExclusionHolds, SkillHolds, PTL DEF RunIsEntitled

\* An approval covers one run, of its task, worker and risk (consumeApproval).
THEOREM CoverHolds == Spec => []ApprovalCoversRun
BY ApprovalHolds, RiskHolds, PTL DEF ApprovalCoversRun

-----------------------------------------------------------------------------
(* Organisation charts: trees *)

\* What is below goes down: with a worker, its reports are in.
Downward(S, members, b) == \A w \in members : b[w] \in S => w \in S

\* A tree looks at the managers of its members only.
LEMMA TreeLocal ==
  ASSUME NEW M, NEW b, NEW d, \A w \in M : d[w] = b[w], IsTree(M, b)
  PROVE  IsTree(M, d)
BY DEF IsTree

\* Workers that go to a manager who is not below any of them leave the tree a tree.
LEMMA TreeMoves ==
  ASSUME NEW M, NEW b, NEW d, IsTree(M, b), NEW m \in M, NEW R \in SUBSET M, NEW D \in SUBSET M,
         R \subseteq D, m \notin D, Downward(D, M, b),
         \A w \in M : d[w] = IF w \in R THEN m ELSE b[w]
  PROVE  IsTree(M, d)
<1>1. PICK r \in M :
        /\ b[r] = NoBoss
        /\ \A w \in M \ {r} : b[w] \in M
        /\ \A S \in SUBSET M : r \in S /\ Downward(S, M, b) => S = M
  BY DEF IsTree, Downward
<1>2. r \notin D
  BY <1>1
<1>3. d[r] = NoBoss /\ \A w \in M \ {r} : d[w] \in M
  BY <1>1, <1>2
<1>4. ASSUME NEW S \in SUBSET M, r \in S, \A w \in M : d[w] \in S => w \in S PROVE S = M
  <2>1. Downward(S \cup D, M, b)
    BY <1>4 DEF Downward
  <2>2. m \in S
    BY <1>1, <1>4, <2>1
  <2>3. R \subseteq S
    BY <1>4, <2>2
  <2>4. Downward(S, M, b)
    BY <1>4, <2>3 DEF Downward
  <2> QED
    BY <1>1, <1>4, <2>4
<1> QED
  BY <1>3, <1>4 DEF IsTree

\* A tree that is hung under a member of another makes one tree with it.
LEMMA TreesJoin ==
  ASSUME NEW M, NEW N, NEW b, NEW d, IsTree(M, b), M \cap N = {}, NEW m \in M, NEW t \in N,
         \A w \in M : d[w] = b[w],
         d[t] = m, \A w \in N \ {t} : d[w] \in N,
         \A S \in SUBSET N : t \in S /\ Downward(S, N, d) => S = N
  PROVE  IsTree(M \cup N, d)
<1>1. PICK r \in M :
        /\ b[r] = NoBoss
        /\ \A w \in M \ {r} : b[w] \in M
        /\ \A S \in SUBSET M : r \in S /\ Downward(S, M, b) => S = M
  BY DEF IsTree, Downward
<1>2. d[r] = NoBoss /\ \A w \in (M \cup N) \ {r} : d[w] \in M \cup N
  BY <1>1
<1>3. ASSUME NEW S \in SUBSET (M \cup N), r \in S, \A w \in M \cup N : d[w] \in S => w \in S PROVE S = M \cup N
  <2>1. Downward(S \cap M, M, b)
    BY <1>1, <1>3 DEF Downward
  <2>2. S \cap M = M
    BY <1>1, <1>3, <2>1
  <2>3. t \in S
    BY <1>3, <2>2
  <2>4. Downward(S \cap N, N, d)
    BY <1>3 DEF Downward
  <2>5. S \cap N = N
    BY <2>3, <2>4
  <2> QED
    BY <1>3, <2>2, <2>5
<1> QED
  BY <1>2, <1>3 DEF IsTree

-----------------------------------------------------------------------------
(* Organisation charts: the requests that change them *)

ChartTypes ==
    /\ boss \in [Staff -> Staff \cup {NoBoss}]
    /\ employment \in [Staff -> {"absent", "active", "offboarded"}]
    /\ company \in [Staff -> Companies]
    /\ version \in Nat /\ raced \in BOOLEAN

\* What a request writes: managers for some workers, and where those that move go.
PlanTyped(r) ==
    /\ \A w \in DOMAIN r.edges : r.edges[w] \in Staff
    /\ r.from # {} => r.to \in Companies
    /\ r.seen \in Nat /\ r.seen <= version

\* What reparent and offboard have checked.
MoveChecked(r) ==
    /\ r.from = {}
    /\ \E m \in Staff, R \in SUBSET Staff :
          /\ r.edges = [v \in R |-> m]
          /\ \A v \in R : CanReparent(v, m)
          /\ \A w \in r.leaves : w \in Staff /\ employment[w] # "absent" /\ R = Reports(w)

\* What absorb has checked.
AbsorbChecked(r) ==
    /\ r.leaves = {}
    /\ \E c \in Companies, m \in Staff : \E t \in RootOf(c) :
          /\ r.edges = [v \in {t} |-> m] /\ r.from = {c} /\ r.to = company[m]
          /\ InOffice(m) /\ c # company[m]

RequestSound(r) ==
    r.busy => PlanTyped(r) /\ (r.seen = version => MoveChecked(r) \/ AbsorbChecked(r))

ChartInv ==
    /\ ChartTypes
    /\ DOMAIN change = Changes /\ change = [x \in Changes |-> change[x]]
    /\ \A x \in Changes : RequestSound(change[x])
    /\ OneTreePerCompany

\* What the assumptions say of the first chart.
LEMMA ChartConstants ==
  /\ FirstBoss \in [Staff -> Staff \cup {NoBoss}] /\ FirstCompany \in [Staff -> Companies]
  /\ Newcomers \subseteq Staff /\ NoBoss \notin Staff
  /\ \A c \in Companies : FirstMembers(c) # {} => IsTree(FirstMembers(c), FirstBoss)
BY OrgChartAssumption

\* The first chart is sound.
LEMMA ChartStart == OrgChartInit => ChartInv
<1> SUFFICES ASSUME OrgChartInit PROVE ChartInv
  OBVIOUS
<1>1. ChartTypes
  BY ChartConstants DEF OrgChartInit, ChartTypes
<1>2. \A c \in Companies : Members(c) = FirstMembers(c)
  BY ChartConstants DEF OrgChartInit, Members, FirstMembers
<1>3. OneTreePerCompany
  BY <1>2, ChartConstants DEF OrgChartInit, OneTreePerCompany
<1>4. \A x \in Changes : RequestSound(change[x])
  BY DEF OrgChartInit, RequestSound, IdleChange
<1> QED
  BY <1>1, <1>3, <1>4 DEF ChartInv, OrgChartInit

\* What a request has checked depends on the chart alone.
LEMMA ChecksLast ==
  ASSUME UNCHANGED <<boss, employment, company, version>>, NEW s, RequestSound(s)
  PROVE  RequestSound(s)'
<1>1. \A w : Members(w)' = Members(w) /\ Reports(w)' = Reports(w) /\ RootOf(w)' = RootOf(w) /\ (InOffice(w)' <=> InOffice(w))
  BY DEF Members, Reports, RootOf, InOffice
<1>2. \A v, m : InSubtree(v, m)' <=> InSubtree(v, m)
  BY <1>1 DEF InSubtree
<1>3. \A v, m : CanReparent(v, m)' <=> CanReparent(v, m)
  BY <1>1, <1>2 DEF CanReparent
<1>4. MoveChecked(s) => MoveChecked(s)'
  BY <1>1, <1>3 DEF MoveChecked
<1>5. AbsorbChecked(s) => AbsorbChecked(s)'
  BY <1>1 DEF AbsorbChecked
<1>6. PlanTyped(s) => PlanTyped(s)'
  BY DEF PlanTyped
<1> QED
  BY <1>4, <1>5, <1>6 DEF RequestSound

\* A request that has checked the chart stands as long as nobody writes.
LEMMA CheckKeeps ==
  ASSUME ChartInv, NEW x \in Changes, NEW edges, NEW leaves, NEW from, NEW to, Check(x, edges, leaves, from, to),
         \A w \in DOMAIN edges : edges[w] \in Staff,
         from # {} => to \in Companies,
         NEW r, r = [busy |-> TRUE, seen |-> version, edges |-> edges, leaves |-> leaves, from |-> from, to |-> to],
         MoveChecked(r) \/ AbsorbChecked(r)
  PROVE  ChartInv'
<1>1. /\ change' = [change EXCEPT ![x] = r] /\ UNCHANGED <<boss, employment, company, version, raced>>
  BY DEF Check
<1>2. ChartTypes' /\ OneTreePerCompany'
  BY <1>1 DEF ChartInv, ChartTypes, OneTreePerCompany, Members
<1>3. \A s : RequestSound(s) => RequestSound(s)'
  BY <1>1, ChecksLast
<1>4. RequestSound(r)
  BY DEF RequestSound, PlanTyped, ChartInv, ChartTypes
<1>5. DOMAIN change' = Changes /\ change' = [y \in Changes |-> change'[y]]
  BY <1>1 DEF ChartInv
<1>6. ASSUME NEW y \in Changes PROVE RequestSound(change[y])'
  <2>1. change'[y] = r \/ change'[y] = change[y]
    BY <1>1 DEF ChartInv
  <2>2. RequestSound(change[y])
    BY DEF ChartInv
  <2>3. PICK s : s = change'[y] /\ RequestSound(s)
    BY <1>4, <2>1, <2>2
  <2> QED
    BY <1>3, <2>3
<1> QED
  BY <1>2, <1>5, <1>6 DEF ChartInv

\* Subtrees are closed: with a worker, its reports are in.
LEMMA SubtreesClosed ==
  ASSUME ChartTypes, NEW R \in SUBSET Staff, NEW m \in Staff, \A v \in R : CanReparent(v, m)
  PROVE  \E D \in SUBSET Members(company[m]) :
            /\ R \subseteq D /\ R \subseteq Members(company[m]) /\ m \notin D
            /\ R # {} => m \in Members(company[m])
            /\ Downward(D, Members(company[m]), boss)
<1> DEFINE M == Members(company[m])
<1> DEFINE D == {u \in M : \E v \in R : InSubtree(v, u)}
<1>1. \A v \in R : v \in M /\ m \in M
  BY DEF CanReparent, Members
<1>2. \A v \in R : InSubtree(v, v) /\ ~InSubtree(v, m)
  BY DEF CanReparent, InSubtree
<1>3. ASSUME NEW w \in M, boss[w] \in D PROVE w \in D
  <2>1. PICK v \in R : InSubtree(v, boss[w])
    BY <1>3
  <2>2. boss[w] \in M /\ w \in Reports(boss[w]) /\ boss[w] \in Staff /\ w \in Staff
    BY <1>3 DEF Members, Reports
  <2>3. InSubtree(v, w)
    BY <2>1, <2>2 DEF InSubtree
  <2> QED
    BY <2>1, <2>3
<1>4. Downward(D, M, boss)
  BY <1>3 DEF Downward
<1> QED
  BY <1>1, <1>2, <1>4

\* A hire puts a worker without reports under a member of the organisation.
LEMMA HireKeeps ==
  ASSUME ChartInv, NEW w \in Staff, NEW m \in Staff, Hire(w, m) PROVE ChartInv'
<1>1. /\ employment[w] = "absent" /\ employment[m] # "absent" /\ w # m
      /\ boss' = [boss EXCEPT ![w] = m] /\ employment' = [employment EXCEPT ![w] = "active"]
      /\ company' = [company EXCEPT ![w] = company[m]]
      /\ version' = version + 1 /\ UNCHANGED <<change, raced>>
  BY DEF Hire, HireUnder
<1>2. ChartTypes /\ ChartTypes'
  BY <1>1 DEF ChartInv, ChartTypes
<1>3. ASSUME NEW c \in Companies, ~raced, Members(c)' # {} PROVE IsTree(Members(c)', boss')
  <2>1. Members(c) # {} => IsTree(Members(c), boss)
    BY <1>3 DEF ChartInv, OneTreePerCompany
  <2>2. /\ Members(c)' = IF c = company[m] THEN Members(c) \cup {w} ELSE Members(c)
        /\ w \notin Members(c) /\ (c = company[m] => m \in Members(c))
        /\ \A v \in Members(c) : boss'[v] = boss[v]
    BY <1>1, <1>2 DEF ChartTypes, Members
  <2>3. CASE c = company[m]
    <3>1. boss'[w] = m
      BY <1>1, <1>2 DEF ChartTypes
    <3>2. IsTree(Members(c), boss) /\ m \in Members(c) /\ Members(c) \cap {w} = {}
      BY <2>1, <2>2, <2>3
    <3>3. PICK N, d : N = {w} /\ d = boss'
      OBVIOUS
    <3>4. /\ w \in N /\ m \in Members(c) /\ Members(c) \cap N = {} /\ d[w] = m
          /\ \A v \in Members(c) : d[v] = boss[v]
          /\ \A v \in N \ {w} : d[v] \in N
          /\ \A S \in SUBSET N : w \in S /\ Downward(S, N, d) => S = N
      BY <2>2, <3>1, <3>2, <3>3
    <3>5. IsTree(Members(c) \cup N, d)
      BY <3>2, <3>4, TreesJoin
    <3> QED
      BY <2>2, <2>3, <3>3, <3>5
  <2>4. CASE c # company[m]
    <3>1. IsTree(Members(c), boss')
      BY <1>3, <2>1, <2>2, <2>4, TreeLocal
    <3> QED
      BY <2>2, <2>4, <3>1
  <2> QED
    BY <2>3, <2>4
<1>4. OneTreePerCompany'
  BY <1>1, <1>3 DEF OneTreePerCompany
<1>5. ASSUME NEW x \in Changes PROVE RequestSound(change[x])'
  BY <1>1, <1>2 DEF ChartInv, RequestSound, PlanTyped, ChartTypes
<1> QED
  BY <1>1, <1>2, <1>4, <1>5 DEF ChartInv

\* What a write does, and when it leaves trees.
LEMMA WriteFacts ==
  ASSUME ChartInv, NEW x \in Changes, Write(x)
  PROVE  \E r :
           /\ r = change[x] /\ PlanTyped(r)
           /\ ~raced' => ~raced /\ r.seen = version /\ (MoveChecked(r) \/ AbsorbChecked(r))
           /\ boss' = [w \in Staff |-> IF w \in DOMAIN r.edges THEN r.edges[w] ELSE boss[w]]
           /\ employment' = [w \in Staff |-> IF w \in r.leaves THEN "offboarded" ELSE employment[w]]
           /\ company' = [w \in Staff |-> IF company[w] \in r.from THEN r.to ELSE company[w]]
           /\ version' = version + 1 /\ change' = [change EXCEPT ![x] = IdleChange]
           /\ raced' \in BOOLEAN
<1>1. PICK r : r = change[x]
  OBVIOUS
<1>2. /\ boss' = [w \in Staff |-> IF w \in DOMAIN r.edges THEN r.edges[w] ELSE boss[w]]
      /\ employment' = [w \in Staff |-> IF w \in r.leaves THEN "offboarded" ELSE employment[w]]
      /\ company' = [w \in Staff |-> IF w \in {v \in Staff : company[v] \in r.from} THEN r.to ELSE company[w]]
      /\ raced' = (raced \/ r.seen # version) /\ r.busy
      /\ version' = version + 1 /\ change' = [change EXCEPT ![x] = IdleChange]
  BY <1>1 DEF Write
<1>3. company' = [w \in Staff |-> IF company[w] \in r.from THEN r.to ELSE company[w]]
  BY <1>2
<1>4. RequestSound(r) /\ raced \in BOOLEAN
  BY <1>1 DEF ChartInv, ChartTypes
<1>5. raced' \in BOOLEAN /\ (~raced' => ~raced /\ r.seen = version)
  BY <1>2, <1>4
<1> QED
  BY <1>1, <1>2, <1>3, <1>4, <1>5 DEF RequestSound

\* Reports that go to somebody outside their subtrees leave every organisation a tree.
LEMMA MoveKeepsTrees ==
  ASSUME ChartTypes, OneTreePerCompany, ~raced, NEW m \in Staff, NEW R \in SUBSET Staff,
         \A v \in R : CanReparent(v, m),
         boss' = [w \in Staff |-> IF w \in R THEN m ELSE boss[w]],
         \A c : Members(c)' = Members(c)
  PROVE  \A c \in Companies : Members(c)' # {} => IsTree(Members(c)', boss')
<1> SUFFICES ASSUME NEW c \in Companies, Members(c) # {} PROVE IsTree(Members(c), boss')
  OBVIOUS
<1>1. IsTree(Members(c), boss) /\ Members(c) \subseteq Staff
  BY DEF OneTreePerCompany, Members
<1>2. PICK M : M = Members(company[m])
  OBVIOUS
<1>3. PICK D \in SUBSET M :
        /\ R \subseteq D /\ R \subseteq M /\ m \notin D
        /\ R # {} => m \in M
        /\ Downward(D, M, boss)
  BY <1>2, SubtreesClosed
<1>4. CASE c = company[m] /\ R # {}
  <2>1. IsTree(M, boss) /\ m \in M /\ \A w \in M : boss'[w] = IF w \in R THEN m ELSE boss[w]
    BY <1>1, <1>2, <1>3, <1>4
  <2>2. PICK b, d : b = boss /\ d = boss'
    OBVIOUS
  <2>3. IsTree(M, b) /\ Downward(D, M, b) /\ \A w \in M : d[w] = IF w \in R THEN m ELSE b[w]
    BY <1>3, <2>1, <2>2
  <2>4. IsTree(M, d)
    BY <1>3, <2>1, <2>3, TreeMoves
  <2> QED
    BY <1>2, <1>4, <2>2, <2>4
<1>5. CASE ~(c = company[m] /\ R # {})
  <2>1. \A w \in Members(c) : w \notin R
    BY <1>2, <1>3, <1>5 DEF Members
  <2>2. \A w \in Members(c) : boss'[w] = boss[w]
    BY <1>1, <2>1
  <2> QED
    BY <1>1, <2>2, TreeLocal
<1> QED
  BY <1>4, <1>5

\* An organisation that is absorbed hangs as a whole under its new manager.
LEMMA AbsorbKeepsTrees ==
  ASSUME ChartTypes, OneTreePerCompany, ~raced, NEW a \in Companies, NEW m \in Staff, NEW t \in RootOf(a),
         InOffice(m), a # company[m],
         boss' = [w \in Staff |-> IF w = t THEN m ELSE boss[w]],
         UNCHANGED employment,
         company' = [w \in Staff |-> IF company[w] = a THEN company[m] ELSE company[w]]
  PROVE  \A c \in Companies : Members(c)' # {} => IsTree(Members(c)', boss')
<1>1. \A c \in Companies : Members(c) # {} => IsTree(Members(c), boss)
  BY DEF OneTreePerCompany
<1>2. \A c \in Companies : /\ Members(c) \subseteq Staff
                           /\ c # a => t \notin Members(c) /\ Members(c) \cap Members(a) = {}
                           /\ Members(c)' = IF c = a THEN {} ELSE IF c = company[m]
                                            THEN Members(c) \cup Members(a) ELSE Members(c)
  BY DEF RootOf, Members, ChartTypes
<1>3. t \in Members(a) /\ t \in Staff /\ boss[t] = NoBoss /\ m \in Members(company[m]) /\ company[m] \in Companies
  BY DEF RootOf, Members, InOffice, ChartTypes
<1>4. ASSUME NEW c \in Companies, c # a, c # company[m], Members(c)' # {} PROVE IsTree(Members(c)', boss')
  <2>1. Members(c)' = Members(c) /\ \A w \in Members(c) : boss'[w] = boss[w]
    BY <1>2, <1>3, <1>4
  <2>2. IsTree(Members(c), boss')
    BY <1>1, <1>4, <2>1, TreeLocal
  <2> QED
    BY <2>1, <2>2
<1>5. IsTree(Members(company[m])', boss')
  <2>1. PICK M, N, d : M = Members(company[m]) /\ N = Members(a) /\ d = boss'
    OBVIOUS
  <2>2. IsTree(M, boss) /\ IsTree(N, boss) /\ M \cap N = {} /\ m \in M /\ t \in N
    BY <1>1, <1>2, <1>3, <2>1
  <2>3. /\ \A w \in M : d[w] = boss[w]
        /\ d[t] = m /\ \A w \in N \ {t} : d[w] = boss[w]
    BY <1>2, <1>3, <2>1
  <2>4. PICK r \in N :
          /\ boss[r] = NoBoss
          /\ \A w \in N \ {r} : boss[w] \in N
          /\ \A S \in SUBSET N : r \in S /\ Downward(S, N, boss) => S = N
    BY <2>2 DEF IsTree, Downward
  <2>5. NoBoss \notin N
    BY <1>2, <2>1, ChartConstants
  <2>6. r = t
    BY <1>3, <2>2, <2>4, <2>5
  <2>7. \A w \in N \ {t} : d[w] \in N
    BY <2>3, <2>4, <2>6
  <2>8. ASSUME NEW S \in SUBSET N, t \in S, Downward(S, N, d) PROVE S = N
    <3>1. Downward(S, N, boss)
      BY <2>3, <2>8 DEF Downward
    <3> QED
      BY <2>4, <2>6, <2>8, <3>1
  <2>9. IsTree(M \cup N, d)
    BY <2>2, <2>3, <2>7, <2>8, TreesJoin
  <2> QED
    BY <1>2, <1>3, <2>1, <2>9
<1> QED
  BY <1>2, <1>4, <1>5

\* A write on the chart that was checked keeps it whole; any other one is recorded.
LEMMA ChartWriteKeeps ==
  ASSUME ChartInv, NEW x \in Changes, Write(x) PROVE ChartInv'
<1>1. PICK r :
           /\ r = change[x] /\ PlanTyped(r)
           /\ ~raced' => ~raced /\ r.seen = version /\ (MoveChecked(r) \/ AbsorbChecked(r))
           /\ boss' = [w \in Staff |-> IF w \in DOMAIN r.edges THEN r.edges[w] ELSE boss[w]]
           /\ employment' = [w \in Staff |-> IF w \in r.leaves THEN "offboarded" ELSE employment[w]]
           /\ company' = [w \in Staff |-> IF company[w] \in r.from THEN r.to ELSE company[w]]
           /\ version' = version + 1 /\ change' = [change EXCEPT ![x] = IdleChange]
           /\ raced' \in BOOLEAN
  BY WriteFacts
<1>2. ChartTypes
  BY DEF ChartInv
<1>3. ChartTypes'
  <2>1. boss' \in [Staff -> Staff \cup {NoBoss}]
    BY <1>1, <1>2 DEF ChartTypes, PlanTyped
  <2>2. employment' \in [Staff -> {"absent", "active", "offboarded"}]
    BY <1>1, <1>2 DEF ChartTypes
  <2>3. company' \in [Staff -> Companies]
    BY <1>1, <1>2 DEF ChartTypes, PlanTyped
  <2> QED
    BY <1>1, <1>2, <2>1, <2>2, <2>3 DEF ChartTypes
<1>4. ASSUME ~raced' PROVE \A c \in Companies : Members(c)' # {} => IsTree(Members(c)', boss')
  <2>1. ~raced /\ (MoveChecked(r) \/ AbsorbChecked(r)) /\ OneTreePerCompany
    BY <1>1, <1>4 DEF ChartInv
  <2>2. CASE MoveChecked(r)
    <3>1. PICK m \in Staff, R \in SUBSET Staff :
            /\ r.edges = [v \in R |-> m]
            /\ \A v \in R : CanReparent(v, m)
            /\ \A w \in r.leaves : w \in Staff /\ employment[w] # "absent" /\ R = Reports(w)
      BY <2>2 DEF MoveChecked
    <3>2. boss' = [w \in Staff |-> IF w \in R THEN m ELSE boss[w]]
      BY <1>1, <3>1
    <3>3. r.from = {} /\ company' = company
      BY <1>1, <1>2, <2>2 DEF MoveChecked, ChartTypes
    <3>4. \A w \in Staff : employment'[w] = "absent" <=> employment[w] = "absent"
      BY <1>1, <3>1
    <3>5. \A c : Members(c)' = Members(c)
      BY <3>3, <3>4 DEF Members
    <3> QED
      BY <1>2, <2>1, <3>1, <3>2, <3>5, MoveKeepsTrees
  <2>3. CASE AbsorbChecked(r)
    <3>1. PICK a \in Companies, m \in Staff : \E t \in RootOf(a) :
            /\ r.edges = [v \in {t} |-> m] /\ r.from = {a} /\ r.to = company[m]
            /\ InOffice(m) /\ a # company[m]
      BY <2>3 DEF AbsorbChecked
    <3>2. PICK t \in RootOf(a) :
            /\ r.edges = [v \in {t} |-> m] /\ r.from = {a} /\ r.to = company[m]
            /\ InOffice(m) /\ a # company[m]
      BY <3>1
    <3>3. boss' = [w \in Staff |-> IF w = t THEN m ELSE boss[w]]
      BY <1>1, <3>2
    <3>4. company' = [w \in Staff |-> IF company[w] = a THEN company[m] ELSE company[w]]
      BY <1>1, <3>2
    <3>5. employment' = employment
      BY <1>1, <1>2, <2>3 DEF AbsorbChecked, ChartTypes
    <3> QED
      BY <1>2, <2>1, <3>2, <3>3, <3>4, <3>5, AbsorbKeepsTrees
  <2> QED
    BY <2>1, <2>2, <2>3
<1>5. OneTreePerCompany'
  BY <1>4 DEF OneTreePerCompany
<1>6. ASSUME NEW y \in Changes PROVE RequestSound(change[y])'
  <2>1. CASE y = x
    <3>1. change'[y] = IdleChange
      BY <1>1, <2>1 DEF ChartInv
    <3> QED
      BY <3>1 DEF RequestSound, IdleChange
  <2>2. CASE y # x
    <3>1. change'[y] = change[y]
      BY <1>1, <2>2 DEF ChartInv
    <3> QED
      BY <1>1, <1>2, <3>1 DEF ChartInv, RequestSound, PlanTyped, ChartTypes
  <2> QED
    BY <2>1, <2>2
<1>7. DOMAIN change' = Changes /\ change' = [y \in Changes |-> change'[y]]
  BY <1>1 DEF ChartInv
<1> QED
  BY <1>3, <1>5, <1>6, <1>7 DEF ChartInv

\* A reparenting or offboarding that has been checked.
LEMMA MoveIsChecked ==
  ASSUME ChartInv, NEW x \in Changes, NEW m \in Staff, NEW R \in SUBSET Staff, NEW L \in SUBSET Staff,
         Check(x, [v \in R |-> m], L, {}, NoBoss),
         \A v \in R : CanReparent(v, m),
         \A w \in L : employment[w] # "absent" /\ R = Reports(w)
  PROVE  ChartInv'
<1>1. PICK e : e = [v \in R |-> m]
  OBVIOUS
<1>2. PICK r : r = [busy |-> TRUE, seen |-> version, edges |-> e, leaves |-> L, from |-> {}, to |-> NoBoss]
  OBVIOUS
<1>3. r.edges = e /\ r.leaves = L /\ r.from = {}
  BY <1>2
<1>4. MoveChecked(r)
  BY <1>1, <1>3 DEF MoveChecked
<1>5. \A w \in DOMAIN e : e[w] \in Staff
  BY <1>1
<1>6. Check(x, e, L, {}, NoBoss)
  BY <1>1
<1> QED
  BY <1>2, <1>4, <1>5, <1>6, CheckKeeps

\* An absorption that has been checked.
LEMMA AbsorbIsChecked ==
  ASSUME ChartInv, NEW x \in Changes, NEW c \in Companies, NEW m \in Staff, Absorb(x, c, m)
  PROVE  ChartInv'
<1>1. PICK t \in RootOf(c) : Check(x, [v \in {t} |-> m], {}, {c}, company[m])
  BY DEF Absorb
<1>2. InOffice(m) /\ c # company[m] /\ company[m] \in Companies
  BY DEF Absorb, InOffice, ChartInv, ChartTypes
<1>3. PICK e, f : e = [v \in {t} |-> m] /\ f = {c}
  OBVIOUS
<1>4. PICK r : r = [busy |-> TRUE, seen |-> version, edges |-> e, leaves |-> {}, from |-> f, to |-> company[m]]
  OBVIOUS
<1>5. r.edges = e /\ r.leaves = {} /\ r.from = f /\ r.to = company[m]
  BY <1>4
<1>6. AbsorbChecked(r)
  BY <1>2, <1>3, <1>5 DEF AbsorbChecked
<1>7. \A w \in DOMAIN e : e[w] \in Staff
  BY <1>3
<1>8. Check(x, e, {}, f, company[m])
  BY <1>1, <1>3
<1> QED
  BY <1>2, <1>4, <1>6, <1>7, <1>8, CheckKeeps

\* Every step keeps the charts whole.
LEMMA ChartStep == ChartInv /\ [OrgChartNext]_orgChartVars => ChartInv'
<1> SUFFICES ASSUME ChartInv, [OrgChartNext]_orgChartVars PROVE ChartInv'
  OBVIOUS
<1>1. ASSUME NEW x \in Changes, NEW w \in Staff, NEW m \in Staff, Reparent(x, w, m) PROVE ChartInv'
  BY <1>1, MoveIsChecked DEF Reparent
<1>2. ASSUME NEW x \in Changes, NEW w \in Staff, NEW m \in Staff, OffboardAndReassign(x, w, m) PROVE ChartInv'
  <2>1. PICK R, L : R = Reports(w) /\ L = {w}
    OBVIOUS
  <2>2. R \in SUBSET Staff /\ L \in SUBSET Staff
    BY <2>1 DEF Reports, Members
  <2>3. /\ Check(x, [v \in R |-> m], L, {}, NoBoss)
        /\ \A v \in R : CanReparent(v, m)
        /\ \A u \in L : employment[u] # "absent" /\ R = Reports(u)
    BY <1>2, <2>1 DEF OffboardAndReassign
  <2> QED
    BY <2>2, <2>3, MoveIsChecked
<1>3. ASSUME NEW w \in Staff, NEW m \in Staff, Hire(w, m) PROVE ChartInv'
  BY <1>3, HireKeeps
<1>4. CASE EscalationNext \/ UNCHANGED orgChartVars
  <2>1. UNCHANGED chartVars
    BY <1>4 DEF EscalationNext, Raise, StartAnswer, GiveAnswer, orgChartVars
  <2>2. UNCHANGED <<boss, employment, company, version, change, raced>>
    BY <2>1 DEF chartVars
  <2>3. \A s : RequestSound(s) => RequestSound(s)'
    BY <2>2, ChecksLast
  <2>4. ASSUME NEW y \in Changes PROVE RequestSound(change[y])'
    <3>1. PICK s : s = change[y] /\ s = change'[y]
      BY <2>2
    <3> QED
      BY <2>3, <3>1 DEF ChartInv
  <2>5. ChartTypes' /\ OneTreePerCompany'
    BY <2>2 DEF ChartInv, ChartTypes, OneTreePerCompany, Members
  <2> QED
    BY <2>2, <2>4, <2>5 DEF ChartInv
<1> QED
  BY <1>1, <1>2, <1>3, <1>4, ChartWriteKeeps, AbsorbIsChecked DEF OrgChartNext, ChartNext

\* Whoever has a manager has one in the same organisation.
LEMMA BossIsColleague ==
  ASSUME ChartTypes, OneTreePerCompany, ~raced, NEW w \in Staff, InOffice(w), boss[w] # NoBoss
  PROVE  w \in Members(company[w]) /\ boss[w] \in Members(company[w])
<1>1. w \in Members(company[w]) /\ company[w] \in Companies
  BY DEF ChartTypes, Members, InOffice
<1>2. PICK M : M = Members(company[w])
  OBVIOUS
<1>3. IsTree(M, boss)
  BY <1>1, <1>2 DEF OneTreePerCompany
<1>4. PICK r \in M : boss[r] = NoBoss /\ \A v \in M \ {r} : boss[v] \in M
  BY <1>3 DEF IsTree
<1> QED
  BY <1>1, <1>2, <1>4

\* A write on the chart that was checked leaves nobody under a manager who leaves.
LEMMA WriteOrphansNobody ==
  ASSUME ChartInv, NEW x \in Changes, Write(x), ~raced',
         NEW w \in Staff, UnderOffice(w), InOffice(w), ~OntoTheLeaver(w)
  PROVE  UnderOffice(w)'
<1>1. PICK r :
           /\ r = change[x] /\ PlanTyped(r)
           /\ ~raced' => ~raced /\ r.seen = version /\ (MoveChecked(r) \/ AbsorbChecked(r))
           /\ boss' = [v \in Staff |-> IF v \in DOMAIN r.edges THEN r.edges[v] ELSE boss[v]]
           /\ employment' = [v \in Staff |-> IF v \in r.leaves THEN "offboarded" ELSE employment[v]]
           /\ company' = [v \in Staff |-> IF company[v] \in r.from THEN r.to ELSE company[v]]
           /\ version' = version + 1 /\ change' = [change EXCEPT ![x] = IdleChange]
           /\ raced' \in BOOLEAN
  BY WriteFacts
<1>2. ChartTypes /\ OneTreePerCompany /\ ~raced
  BY <1>1 DEF ChartInv
<1>3. \A v \in Staff : v \notin r.leaves /\ InOffice(v) => InOffice(v)'
  BY <1>1 DEF InOffice
<1>4. \A v \in Staff : v \in DOMAIN r.edges /\ r.edges[v] \in r.leaves => OntoTheLeaver(v)
  BY <1>1 DEF OntoTheLeaver
<1>5. boss[w] = NoBoss \/ (boss[w] \in Staff /\ InOffice(boss[w]))
  BY <1>2 DEF UnderOffice, ChartTypes
<1>6. CASE MoveChecked(r)
  <2>1. PICK m \in Staff, R \in SUBSET Staff :
          /\ r.edges = [v \in R |-> m]
          /\ \A v \in R : CanReparent(v, m)
          /\ \A v \in r.leaves : v \in Staff /\ employment[v] # "absent" /\ R = Reports(v)
    BY <1>6 DEF MoveChecked
  <2>2. CASE w \in R
    <3>1. boss'[w] = m /\ InOffice(m) /\ m \notin r.leaves
      BY <1>1, <1>4, <2>1, <2>2 DEF CanReparent
    <3> QED
      BY <1>3, <2>1, <3>1 DEF UnderOffice, InOffice
  <2>3. CASE w \notin R
    <3>1. boss'[w] = boss[w]
      BY <1>1, <2>1, <2>3
    <3>2. ASSUME boss[w] # NoBoss PROVE boss[w] \notin r.leaves
      <4>1. w \in Members(company[w]) /\ boss[w] \in Members(company[w])
        BY <1>2, <3>2, BossIsColleague
      <4>2. w \in Reports(boss[w])
        BY <4>1 DEF Reports, Members
      <4> QED
        BY <2>1, <2>3, <4>2
    <3>3. CASE boss[w] = NoBoss
      BY <3>1, <3>3 DEF UnderOffice
    <3>4. CASE boss[w] # NoBoss
      <4>1. PICK b \in Staff : b = boss[w] /\ b = boss'[w] /\ InOffice(b)
        BY <1>5, <3>1, <3>4
      <4>2. InOffice(b)'
        BY <1>3, <3>2, <3>4, <4>1
      <4> QED
        BY <4>1, <4>2 DEF UnderOffice, InOffice
    <3> QED
      BY <3>3, <3>4
  <2> QED
    BY <2>2, <2>3
<1>7. CASE AbsorbChecked(r)
  <2>1. PICK m \in Staff : \E t : r.edges = [v \in {t} |-> m] /\ InOffice(m) /\ r.leaves = {}
    BY <1>7 DEF AbsorbChecked
  <2>2. boss'[w] = m \/ boss'[w] = boss[w]
    BY <1>1, <2>1
  <2>3. employment' = employment
    BY <1>1, <1>2, <2>1 DEF ChartTypes
  <2> QED
    BY <1>5, <2>1, <2>2, <2>3 DEF UnderOffice, InOffice
<1> QED
  BY <1>1, <1>2, <1>6, <1>7

\* No step leaves a worker under a manager out of office.
LEMMA NobodyOrphanedStep ==
  ASSUME ChartInv, [OrgChartNext]_orgChartVars, <<boss, employment>>' # <<boss, employment>>,
         NEW w \in Staff, UnderOffice(w), InOffice(w), InOffice(w)'
  PROVE  UnderOffice(w)' \/ raced' \/ OntoTheLeaver(w)
<1>1. (\E x \in Changes : Write(x)) \/ (\E v, m \in Staff : Hire(v, m))
  BY DEF OrgChartNext, ChartNext, EscalationNext, Reparent, OffboardAndReassign, Absorb, Check, Raise,
         StartAnswer, GiveAnswer, orgChartVars, chartVars
<1>2. CASE \E x \in Changes : Write(x)
  BY <1>2, WriteOrphansNobody
<1>3. ASSUME NEW v \in Staff, NEW m \in Staff, Hire(v, m) PROVE UnderOffice(w)'
  <2>1. /\ employment[v] = "absent" /\ boss' = [boss EXCEPT ![v] = m]
        /\ employment' = [employment EXCEPT ![v] = "active"] /\ ChartTypes
    BY <1>3 DEF Hire, HireUnder, ChartInv
  <2>2. w # v /\ boss'[w] = boss[w]
    BY <2>1 DEF InOffice, ChartTypes
  <2>3. \A u \in Staff : InOffice(u) => InOffice(u)'
    BY <2>1 DEF InOffice, ChartTypes
  <2>4. boss[w] = NoBoss \/ (boss[w] \in Staff /\ InOffice(boss[w]))
    BY <2>1 DEF UnderOffice, ChartTypes
  <2> QED
    BY <2>2, <2>3, <2>4 DEF UnderOffice, InOffice
<1> QED
  BY <1>1, <1>2, <1>3

-----------------------------------------------------------------------------
(* Organisation charts: escalations *)

EscalationRecords ==
    [from : Staff, to : Staff, parent : Nat, depth : Nat,
     status : {"pending", "resolved", "reescalated", "cancelled"}]

AnswerTyped(a, s) ==
    \/ a = IdleAnswer
    \/ /\ a.esc \in 1 .. Len(s)
       /\ a.status \in {"resolved", "reescalated", "cancelled"}
       /\ a.status = "reescalated" => a.boss \in Staff

\* s[k] is what the addressee of s[n] raised in answer to it.
Succeeds(s, k, n) == s[k].parent = n /\ s[k].from = s[n].to /\ s[k].depth = s[n].depth + 1

\* Chains of escalations: whatever has a parent answers one that was escalated
\* further, each of those is answered, and nothing is answered twice.
Chains(s) ==
    /\ \A k \in 1 .. Len(s) : s[k].parent = 0 \/ (/\ s[k].parent \in 1 .. Len(s)
                                                 /\ s[s[k].parent].status = "reescalated"
                                                 /\ Succeeds(s, k, s[k].parent))
    /\ \A n \in 1 .. Len(s) : s[n].status = "reescalated" => \E k \in 1 .. Len(s) : s[k].parent = n
    /\ \A j, k \in 1 .. Len(s) : s[j].parent = s[k].parent /\ s[j].parent # 0 => j = k

ChainsInv ==
    /\ escalations \in Seq(EscalationRecords)
    /\ \A x \in Answers : AnswerTyped(answering[x], escalations)
    /\ DOMAIN answering = Answers /\ answering = [x \in Answers |-> answering[x]]
    /\ Chains(escalations)

\* A first escalation belongs to no chain yet.
LEMMA RaiseKeepsChains ==
  ASSUME NEW s \in Seq(EscalationRecords), Chains(s), NEW e \in EscalationRecords, e.parent = 0, e.status = "pending"
  PROVE  Append(s, e) \in Seq(EscalationRecords) /\ Chains(Append(s, e))
<1>1. PICK t : t = Append(s, e)
  OBVIOUS
<1>2. /\ t \in Seq(EscalationRecords) /\ Len(t) = Len(s) + 1 /\ Len(s) \in Nat
      /\ t[Len(s) + 1] = e /\ \A k \in 1 .. Len(s) : t[k] = s[k]
  BY <1>1
<1>3. \A k \in 1 .. Len(t) : k \in 1 .. Len(s) \/ k = Len(s) + 1
  BY <1>2
<1>4. \A k \in 1 .. Len(s) : k \in 1 .. Len(t)
  BY <1>2
<1>5. ASSUME NEW k \in 1 .. Len(t)
      PROVE  t[k].parent = 0 \/ (/\ t[k].parent \in 1 .. Len(t) /\ t[t[k].parent].status = "reescalated"
                                 /\ Succeeds(t, k, t[k].parent))
  <2>1. CASE k = Len(s) + 1
    BY <1>2, <2>1
  <2>2. CASE k \in 1 .. Len(s)
    BY <1>2, <1>4, <2>2 DEF Chains, Succeeds
  <2> QED
    BY <1>3, <2>1, <2>2
<1>6. ASSUME NEW n \in 1 .. Len(t), t[n].status = "reescalated" PROVE \E k \in 1 .. Len(t) : t[k].parent = n
  <2>1. n \in 1 .. Len(s)
    BY <1>2, <1>3, <1>6
  <2>2. PICK k \in 1 .. Len(s) : s[k].parent = n
    BY <1>2, <1>6, <2>1 DEF Chains
  <2> QED
    BY <1>2, <1>4, <2>2
<1>7. ASSUME NEW j \in 1 .. Len(t), NEW k \in 1 .. Len(t), t[j].parent = t[k].parent, t[j].parent # 0 PROVE j = k
  <2>1. j \in 1 .. Len(s) /\ k \in 1 .. Len(s)
    BY <1>2, <1>3, <1>7
  <2> QED
    BY <1>2, <1>7, <2>1 DEF Chains
<1> QED
  BY <1>1, <1>2, <1>5, <1>6, <1>7 DEF Chains

\* An answer that ends the chain.
LEMMA ClosingKeepsChains ==
  ASSUME NEW s \in Seq(EscalationRecords), Chains(s), NEW n \in 1 .. Len(s), s[n].status = "pending",
         NEW c \in {"resolved", "cancelled"}, NEW t, t = [s EXCEPT ![n].status = c]
  PROVE  t \in Seq(EscalationRecords) /\ Chains(t)
<1>1. PICK e : e = [s[n] EXCEPT !.status = c]
  OBVIOUS
<1>2. s[n] \in EscalationRecords /\ Len(s) \in Nat
  BY SMT
<1>3. /\ e \in EscalationRecords /\ e.status = c /\ e.parent = s[n].parent /\ e.from = s[n].from
      /\ e.to = s[n].to /\ e.depth = s[n].depth
  BY <1>1, <1>2 DEF EscalationRecords
<1>4. t = [s EXCEPT ![n] = e]
  BY <1>1
<1>5. t \in Seq(EscalationRecords) /\ Len(t) = Len(s) /\ \A k \in 1 .. Len(s) : t[k] = IF k = n THEN e ELSE s[k]
  BY <1>3, <1>4
<1>6. \A k \in 1 .. Len(s) : /\ t[k].parent = s[k].parent /\ t[k].from = s[k].from /\ t[k].to = s[k].to
                             /\ t[k].depth = s[k].depth
                             /\ t[k].status = "reescalated" <=> s[k].status = "reescalated"
  BY <1>3, <1>5
<1> QED
  BY <1>5, <1>6 DEF Chains, Succeeds

\* An answer that escalates further closes one and opens its only successor.
LEMMA ReescalationKeepsChains ==
  ASSUME NEW s \in Seq(EscalationRecords), Chains(s), NEW n \in 1 .. Len(s), s[n].status = "pending",
         NEW t, t = [s EXCEPT ![n].status = "reescalated"],
         NEW m \in Staff, NEW e, e = Escalation(s[n].to, m, n, s[n].depth + 1)
  PROVE  Append(t, e) \in Seq(EscalationRecords) /\ Chains(Append(t, e))
<1>1. PICK d : d = [s[n] EXCEPT !.status = "reescalated"]
  OBVIOUS
<1>2. s[n] \in EscalationRecords /\ Len(s) \in Nat
  BY SMT
<1>3. /\ d \in EscalationRecords /\ d.status = "reescalated" /\ d.parent = s[n].parent /\ d.from = s[n].from
      /\ d.to = s[n].to /\ d.depth = s[n].depth
  BY <1>1, <1>2 DEF EscalationRecords
<1>4. t = [s EXCEPT ![n] = d]
  BY <1>1
<1>5. t \in Seq(EscalationRecords) /\ Len(t) = Len(s) /\ \A k \in 1 .. Len(s) : t[k] = IF k = n THEN d ELSE s[k]
  BY <1>3, <1>4
<1>6. /\ e \in EscalationRecords /\ e.parent = n /\ e.from = s[n].to /\ e.depth = s[n].depth + 1
      /\ e.status = "pending"
  BY <1>2 DEF EscalationRecords, Escalation
<1>7. PICK u : u = Append(t, e)
  OBVIOUS
<1>8. /\ u \in Seq(EscalationRecords) /\ Len(u) = Len(s) + 1 /\ u[Len(s) + 1] = e
      /\ \A k \in 1 .. Len(s) : u[k] = t[k]
  BY <1>2, <1>5, <1>6, <1>7
<1>9. /\ \A k \in 1 .. Len(s) : /\ u[k].parent = s[k].parent /\ u[k].from = s[k].from /\ u[k].to = s[k].to
                                /\ u[k].depth = s[k].depth
                                /\ u[k].status = "reescalated" <=> (k = n \/ s[k].status = "reescalated")
  BY <1>3, <1>5, <1>8
<1>10. \A k \in 1 .. Len(u) : k \in 1 .. Len(s) \/ k = Len(s) + 1
  BY <1>2, <1>8
<1>11. (\A k \in 1 .. Len(s) : k \in 1 .. Len(u)) /\ Len(s) + 1 \in 1 .. Len(u)
  BY <1>2, <1>8
<1>12. \A k \in 1 .. Len(s) : s[k].parent # n
  BY DEF Chains
<1>13. n # 0
  BY <1>2
<1>14. ASSUME NEW k \in 1 .. Len(u)
       PROVE  u[k].parent = 0 \/ (/\ u[k].parent \in 1 .. Len(u) /\ u[u[k].parent].status = "reescalated"
                                  /\ Succeeds(u, k, u[k].parent))
  <2>1. CASE k = Len(s) + 1
    <3>1. u[k] = e /\ u[k].parent = n /\ n \in 1 .. Len(u)
      BY <1>6, <1>8, <1>11, <2>1
    <3>2. u[n].status = "reescalated" /\ u[n].to = s[n].to /\ u[n].depth = s[n].depth
      BY <1>9
    <3> QED
      BY <1>6, <3>1, <3>2 DEF Succeeds
  <2>2. CASE k \in 1 .. Len(s)
    BY <1>9, <1>11, <2>2 DEF Chains, Succeeds
  <2> QED
    BY <1>10, <2>1, <2>2
<1>15. ASSUME NEW k \in 1 .. Len(u), u[k].status = "reescalated" PROVE \E j \in 1 .. Len(u) : u[j].parent = k
  <2>1. k \in 1 .. Len(s)
    BY <1>6, <1>8, <1>10, <1>15
  <2>2. CASE k = n
    BY <1>6, <1>8, <1>11, <2>2
  <2>3. CASE k # n
    <3>1. PICK j \in 1 .. Len(s) : s[j].parent = k
      BY <1>9, <1>15, <2>1, <2>3 DEF Chains
    <3> QED
      BY <1>9, <1>11, <3>1
  <2> QED
    BY <2>2, <2>3
<1>16. ASSUME NEW j \in 1 .. Len(u), NEW k \in 1 .. Len(u), u[j].parent = u[k].parent, u[j].parent # 0 PROVE j = k
  <2>1. CASE j \in 1 .. Len(s) /\ k \in 1 .. Len(s)
    BY <1>9, <1>16, <2>1 DEF Chains
  <2>2. CASE j = Len(s) + 1 \/ k = Len(s) + 1
    BY <1>6, <1>8, <1>9, <1>10, <1>12, <1>16, <2>2
  <2> QED
    BY <1>10, <2>1, <2>2
<1>17. Chains(u)
  BY <1>14, <1>15, <1>16 DEF Chains
<1> QED
  BY <1>7, <1>8, <1>17

\* Every step keeps the chains.
LEMMA ChainsStep ==
  ASSUME ChainsInv, ChartTypes, [OrgChartNext]_orgChartVars PROVE ChainsInv'
<1>1. CASE UNCHANGED escalationVars
  BY <1>1 DEF ChainsInv, escalationVars
<1>2. ASSUME Raise PROVE ChainsInv'
  <2>1. PICK e : e = Escalation(Raiser, boss[Raiser], 0, 0) /\ escalations' = Append(escalations, e) /\ UNCHANGED answering
    BY <1>2 DEF Raise
  <2>2. e \in EscalationRecords /\ e.parent = 0 /\ e.status = "pending"
    BY <1>2, <2>1, OrgChartAssumption DEF Raise, Escalation, EscalationRecords, ChartTypes
  <2>3. escalations' \in Seq(EscalationRecords) /\ Chains(escalations') /\ Len(escalations') = Len(escalations) + 1
    <3>1. PICK s : s = escalations
      OBVIOUS
    <3>2. s \in Seq(EscalationRecords) /\ Chains(s) /\ escalations' = Append(s, e)
      BY <2>1, <3>1 DEF ChainsInv
    <3>3. PICK u : u = Append(s, e)
      OBVIOUS
    <3>4. u \in Seq(EscalationRecords) /\ Chains(u)
      BY <2>2, <3>2, <3>3, RaiseKeepsChains
    <3>5. Len(u) = Len(s) + 1
      BY <3>2, <3>3
    <3> QED
      BY <3>1, <3>2, <3>3, <3>4, <3>5
  <2>4. \A x \in Answers : AnswerTyped(answering[x], escalations')
    BY <2>3 DEF ChainsInv, AnswerTyped
  <2> QED
    BY <2>1, <2>3, <2>4 DEF ChainsInv
<1>3. ASSUME NEW x \in Answers, NEW n \in 1 .. Len(escalations), NEW status \in {"resolved", "reescalated", "cancelled"},
             StartAnswer(x, n, status)
      PROVE  ChainsInv'
  <2>1. PICK a : a = [esc |-> n, status |-> status, boss |-> boss[escalations[n].to]]
    OBVIOUS
  <2>2. answering' = [answering EXCEPT ![x] = a] /\ escalations' = escalations
    BY <1>3, <2>1 DEF StartAnswer
  <2>3. status = "reescalated" => a.boss \in Staff
    <3>1. escalations[n].to \in Staff
      <4>1. escalations[n] \in EscalationRecords
        BY DEF ChainsInv
      <4> QED
        BY <4>1 DEF EscalationRecords
    <3> QED
      BY <1>3, <2>1, <3>1 DEF StartAnswer, ChartTypes
  <2>4. AnswerTyped(a, escalations)
    BY <2>1, <2>3 DEF AnswerTyped
  <2> QED
    BY <2>2, <2>4 DEF ChainsInv
<1>4. ASSUME NEW x \in Answers, GiveAnswer(x) PROVE ChainsInv'
  <2>1. PICK a, e, closed : /\ a = answering[x] /\ e = escalations[a.esc]
                            /\ closed = [escalations EXCEPT ![a.esc].status = a.status]
    OBVIOUS
  <2>2. /\ a # IdleAnswer
        /\ escalations' = IF ~Answerable(a.esc) THEN escalations
                          ELSE IF a.status = "reescalated"
                          THEN Append(closed, Escalation(e.to, a.boss, a.esc, e.depth + 1))
                          ELSE closed
        /\ answering' = [answering EXCEPT ![x] = IdleAnswer]
    BY <1>4, <2>1 DEF GiveAnswer
  <2>3. /\ a.esc \in 1 .. Len(escalations) /\ a.status \in {"resolved", "reescalated", "cancelled"}
        /\ a.status = "reescalated" => a.boss \in Staff
    BY <2>1, <2>2 DEF ChainsInv, AnswerTyped
  <2>4. escalations \in Seq(EscalationRecords) /\ Chains(escalations) /\ Len(escalations) \in Nat
    BY DEF ChainsInv
  <2>5. PICK s : s = escalations'
    OBVIOUS
  <2>6. Len(closed) = Len(escalations)
    BY <2>1, <2>4
  <2>7. s \in Seq(EscalationRecords) /\ Chains(s) /\ Len(s) \in Nat /\ Len(s) >= Len(escalations)
    <3>1. CASE ~Answerable(a.esc)
      BY <2>2, <2>4, <2>5, <3>1
    <3>2. CASE Answerable(a.esc) /\ a.status = "reescalated"
      <4>1. PICK f : f = Escalation(e.to, a.boss, a.esc, e.depth + 1)
        OBVIOUS
      <4>2. s = Append(closed, f)
        BY <2>2, <2>5, <3>2, <4>1
      <4>3. Append(closed, f) \in Seq(EscalationRecords) /\ Chains(Append(closed, f))
        BY <2>1, <2>3, <2>4, <3>2, <4>1, ReescalationKeepsChains DEF Answerable, IsPending
      <4>4. Len(s) = Len(escalations) + 1
        BY <2>4, <2>6, <4>2, <4>3
      <4> QED
        BY <2>4, <4>2, <4>3, <4>4
    <3>3. CASE Answerable(a.esc) /\ a.status # "reescalated"
      <4>1. s = closed /\ escalations[a.esc].status = "pending" /\ a.status \in {"resolved", "cancelled"}
        BY <2>2, <2>3, <2>5, <3>3 DEF Answerable, IsPending
      <4>2. closed \in Seq(EscalationRecords) /\ Chains(closed)
        BY <2>1, <2>3, <2>4, <4>1, ClosingKeepsChains
      <4> QED
        BY <2>4, <2>6, <4>1, <4>2
    <3> QED
      BY <3>1, <3>2, <3>3
  <2>8. \A b : AnswerTyped(b, escalations) => AnswerTyped(b, s)
    BY <2>4, <2>7 DEF AnswerTyped
  <2>9. \A y \in Answers : AnswerTyped(answering'[y], s)
    BY <2>2, <2>8 DEF ChainsInv, AnswerTyped
  <2> QED
    BY <2>2, <2>5, <2>7, <2>9 DEF ChainsInv
<1>5. ChartNext => UNCHANGED escalationVars
  BY DEF ChartNext, Reparent, OffboardAndReassign, Absorb, Check, Write, Hire
<1>6. UNCHANGED orgChartVars => UNCHANGED escalationVars
  BY DEF orgChartVars
<1> QED
  BY <1>1, <1>2, <1>3, <1>4, <1>5, <1>6 DEF OrgChartNext, EscalationNext

\* In chains every escalation has the successors its answer asks for.
LEMMA ChainsAnswerOnce == ChainsInv => AnsweredOnce
<1> SUFFICES ASSUME ChainsInv, NEW n \in 1 .. Len(escalations)
             PROVE  Cardinality({k \in 1 .. Len(escalations) : Succeeds(escalations, k, n)})
                    = IF escalations[n].status = "reescalated" THEN 1 ELSE 0
  BY DEF AnsweredOnce, Succeeds
<1> DEFINE K == {k \in 1 .. Len(escalations) : Succeeds(escalations, k, n)}
<1>1. n # 0 /\ \A k \in 1 .. Len(escalations) : escalations[k].parent = n => Succeeds(escalations, k, n)
  BY DEF ChainsInv, Chains
<1>2. CASE escalations[n].status = "reescalated"
  <2>1. PICK k \in 1 .. Len(escalations) : escalations[k].parent = n
    BY <1>2 DEF ChainsInv, Chains
  <2>2. \A j \in 1 .. Len(escalations) : escalations[j].parent = n => j = k
    BY <1>1, <2>1 DEF ChainsInv, Chains
  <2>3. K = {k}
    BY <1>1, <2>1, <2>2 DEF Succeeds
  <2> QED
    BY <1>2, <2>3, FS_Singleton
<1>3. CASE escalations[n].status # "reescalated"
  <2>1. K = {}
    BY <1>1, <1>3 DEF ChainsInv, Chains, Succeeds
  <2> QED
    BY <1>3, <2>1, FS_EmptySet
<1> QED
  BY <1>2, <1>3

\* Whatever companies, staff and first trees there are: organisations stay trees
\* while no request writes on a chart that changed since its check, no worker in
\* office is left under a manager who leaves, and an escalation has one successor
\* exactly when it was escalated further (org-restructure-service.ts,
\* escalation-service.ts).
THEOREM ChartHolds == OrgChartSpec => ChartStaysWhole
<1>1. OrgChartInit => ChartInv
  BY ChartStart
<1>2. OrgChartInit => ChainsInv
  BY DEF OrgChartInit, ChainsInv, Chains, AnswerTyped
<1>3. ChartInv /\ [OrgChartNext]_orgChartVars => ChartInv'
  BY ChartStep
<1>4. ChainsInv /\ ChartInv /\ [OrgChartNext]_orgChartVars => ChainsInv'
  BY ChainsStep DEF ChartInv
<1>5. ChartInv => OneTreePerCompany
  BY DEF ChartInv
<1>6. ChainsInv => AnsweredOnce
  BY ChainsAnswerOnce
<1> DEFINE NoOrphans == <<boss, employment>>' # <<boss, employment>> =>
              \A w \in Staff : UnderOffice(w) /\ InOffice(w) /\ InOffice(w)'
                 => UnderOffice(w)' \/ raced' \/ OntoTheLeaver(w)
<1>7. ChartInv /\ [OrgChartNext]_orgChartVars => [NoOrphans]_chartVars
  BY NobodyOrphanedStep
<1>8. OrgChartSpec => []OneTreePerCompany /\ []AnsweredOnce /\ [][NoOrphans]_chartVars
  BY <1>1, <1>2, <1>3, <1>4, <1>5, <1>6, <1>7, PTL DEF OrgChartSpec
<1> QED
  BY <1>8 DEF ChartStaysWhole, NobodyOrphaned
=============================================================================
