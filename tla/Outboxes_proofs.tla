-------------------------- MODULE Outboxes_proofs --------------------------
(***************************************************************************)
(* For any number of events, rows and replicas, whatever flushes stall or  *)
(* die: what the billing outbox calls sent was reported, a waiting row can *)
(* be selected, and a sent row stays sent unless its flusher was           *)
(* overtaken; the observability outbox adds each row and each event to the *)
(* rollups once, and its dead letters are exactly what was given up.       *)
(***************************************************************************)
EXTENDS BillingOutbox, ObservabilityPipeline, Integers, FiniteSetTheorems, TLAPS

RowSteps == {"report", "mark_sent", "mark_failed"}

FlushRecord == [pc : {"idle", "fetch", "next"} \cup RowSteps, batch : SUBSET Sources,
                row : Sources \cup {NoSource}, slow : BOOLEAN]

OutboxTypes ==
    /\ outbox \in [Sources -> [status : OutboxStatus, attempts : Nat]]
    /\ flush \in [Flushers -> FlushRecord]
    /\ reported \subseteq Sources
    /\ overtaken \subseteq Sources
    /\ stalls \in Nat

\* A flusher has a row exactly while it reports and marks it.
RowInHand == \A f \in Flushers : (flush[f].pc \in RowSteps) = (flush[f].row # NoSource)

\* A row is marked as sent only by a flusher that Stripe answered.
MarkIsReported == \A f \in Flushers : flush[f].pc = "mark_sent" => flush[f].row \in reported

\* Unless it was overtaken, a flusher is alone with its row, and the row says so.
RowIsClaimed ==
    \A f \in Flushers : flush[f].row # NoSource /\ flush[f].row \notin overtaken =>
        /\ outbox[flush[f].row].status = "processing"
        /\ \A g \in Flushers : flush[g].row = flush[f].row => g = f

OutboxInv ==
    /\ OutboxTypes /\ RowInHand /\ MarkIsReported /\ RowIsClaimed
    /\ SentIsReported /\ PendingIsSelectable

\* What the assumptions say of the billing outbox.
LEMMA OutboxConstants == NoSource \notin Sources /\ MaxAttempts \in Nat /\ MaxAttempts > 0 /\ MaxStalls \in Nat
  BY OutboxAssumption
-----------------------------------------------------------------------------
\* The invariant holds of the empty outbox.
LEMMA OutboxStart == OutboxInit => OutboxInv
  BY OutboxConstants
  DEF OutboxInit, OutboxInv, OutboxTypes, FlushRecord, RowInHand, MarkIsReported, RowIsClaimed, SentIsReported,
      PendingIsSelectable, OutboxStatus, IdleFlush, RowSteps

\* enqueue touches a key that no flusher can have.
LEMMA EnqueueKeeps == ASSUME OutboxInv, NEW e \in MeterEvents, Enqueue(e) PROVE OutboxInv'
<1> DEFINE s == SourceOf[e]
<1>1. s \in Sources /\ outbox[s].status = "absent"
  BY OutboxAssumption DEF Enqueue, FirstOfKey
<1>2. outbox' = [outbox EXCEPT ![s] = [status |-> "pending", attempts |-> 0]]
  BY DEF Enqueue
<1>3. UNCHANGED <<flush, reported, stalls, overtaken>>
  BY DEF Enqueue
<1>4. OutboxTypes'
  BY <1>1, <1>2, <1>3 DEF OutboxInv, OutboxTypes, FlushRecord, OutboxStatus
<1>5. RowInHand' /\ MarkIsReported'
  BY <1>3 DEF OutboxInv, RowInHand, MarkIsReported
<1>6. RowIsClaimed'
  BY <1>1, <1>2, <1>3 DEF OutboxInv, OutboxTypes, FlushRecord, RowIsClaimed
<1>7. SentIsReported' /\ PendingIsSelectable'
  BY <1>1, <1>2, <1>3, OutboxConstants DEF OutboxInv, OutboxTypes, FlushRecord, SentIsReported, PendingIsSelectable
<1> QED
  BY <1>4, <1>5, <1>6, <1>7 DEF OutboxInv

\* The requeue takes a row from a flusher only by overtaking it.
LEMMA RequeueKeeps == ASSUME OutboxInv, NEW f \in Flushers, RequeueStale(f) PROVE OutboxInv'
<1> DEFINE S == {s \in Sources : Stale(s)}
<1>1. /\ flush[f].pc = "idle"
      /\ outbox' = [s \in Sources |-> IF s \in S THEN [outbox[s] EXCEPT !.status = "pending"]
                                                 ELSE outbox[s]]
      /\ overtaken' = overtaken \cup {s \in S : Holder(s) # {}}
      /\ flush' = [flush EXCEPT ![f].pc = "fetch"]
      /\ UNCHANGED <<reported, stalls>>
  BY DEF RequeueStale
<1>2. \A s \in S : s \in Sources /\ outbox[s].status = "processing"
  BY DEF Stale
<1> HIDE DEF S
<1>3. OutboxTypes'
  BY <1>1, <1>2 DEF OutboxInv, OutboxTypes, FlushRecord, OutboxStatus
<1>4. \A g \in Flushers : flush'[g].row = flush[g].row /\ flush'[g].pc = (IF g = f THEN "fetch" ELSE flush[g].pc)
  BY <1>1 DEF OutboxInv, OutboxTypes, FlushRecord
<1>5. RowInHand' /\ MarkIsReported'
  BY <1>1, <1>4 DEF OutboxInv, RowInHand, MarkIsReported, RowSteps
<1>6. RowIsClaimed'
  <2> SUFFICES ASSUME NEW g \in Flushers, flush[g].row # NoSource, flush[g].row \notin overtaken'
               PROVE  /\ outbox'[flush[g].row].status = "processing"
                      /\ \A h \in Flushers : flush[h].row = flush[g].row => h = g
    BY <1>4 DEF RowIsClaimed
  <2>1. flush[g].row \in Sources /\ flush[g].row \notin overtaken
    BY <1>1 DEF OutboxInv, OutboxTypes, FlushRecord
  <2>2. flush[g].row \notin S
    BY <1>1 DEF Holder
  <2> QED
    BY <1>1, <2>1, <2>2 DEF OutboxInv, RowIsClaimed
<1>7. SentIsReported' /\ PendingIsSelectable'
  BY <1>1, <1>2 DEF OutboxInv, OutboxTypes, FlushRecord, SentIsReported, PendingIsSelectable
<1> QED
  BY <1>3, <1>5, <1>6, <1>7 DEF OutboxInv

\* What a step on the way of one flusher does to the rows in hand.
LEMMA FetchKeeps ==
  ASSUME OutboxInv, NEW f \in Flushers, FetchPending(f) \/ FlushDone(f) PROVE OutboxInv'
<1>1. /\ UNCHANGED <<outbox, reported, stalls, overtaken>>
      /\ flush[f].pc \in {"fetch", "next"} /\ flush[f].row = NoSource
      /\ \A g \in Flushers \ {f} : flush'[g] = flush[g]
  BY DEF FetchPending, FlushDone, OutboxInv, OutboxTypes, FlushRecord, RowInHand, RowSteps
<1>2. /\ flush' = [flush EXCEPT ![f] = flush'[f]]
      /\ flush'[f] \in FlushRecord
      /\ flush'[f].pc \in {"idle", "next"} /\ flush'[f].row = NoSource
  <2>1. CASE FetchPending(f)
    <3> DEFINE B == {s \in Sources : Selectable(s)}
    <3>1. B \in SUBSET Sources
      OBVIOUS
    <3> HIDE DEF B
    <3>2. flush' = [flush EXCEPT ![f] = [@ EXCEPT !.pc = "next", !.batch = B]]
      BY <2>1 DEF FetchPending, B
    <3> QED
      BY <1>1, <3>1, <3>2 DEF OutboxInv, OutboxTypes, FlushRecord
  <2>2. CASE FlushDone(f)
    BY <2>2 DEF FlushDone, OutboxInv, OutboxTypes, FlushRecord, IdleFlush
  <2> QED
    BY <2>1, <2>2
<1>4. OutboxTypes' /\ RowInHand' /\ MarkIsReported'
  BY <1>1, <1>2 DEF OutboxInv, OutboxTypes, FlushRecord, RowInHand, MarkIsReported, RowSteps
<1>5. RowIsClaimed'
  BY <1>1, <1>2 DEF OutboxInv, OutboxTypes, FlushRecord, RowIsClaimed
<1>6. SentIsReported' /\ PendingIsSelectable'
  BY <1>1 DEF OutboxInv, SentIsReported, PendingIsSelectable
<1> QED
  BY <1>4, <1>5, <1>6 DEF OutboxInv

\* A claim wins a row that waits, and that nobody has who was not overtaken.
LEMMA ClaimKeeps ==
  ASSUME OutboxInv, NEW f \in Flushers, NEW s \in Sources, ClaimRow(f, s) PROVE OutboxInv'
<1> DEFINE Rest == flush[f].batch \ {s}
<1>0. Rest \in SUBSET Sources
  BY DEF OutboxInv, OutboxTypes, FlushRecord
<1> HIDE DEF Rest
<1>1. CASE ~Claimable(s)
  <2>1. UNCHANGED <<outbox, reported, stalls, overtaken>>
    BY <1>1 DEF ClaimRow
  <2>2. \A g \in Flushers : flush'[g].row = flush[g].row /\ flush'[g].pc = flush[g].pc
    BY <1>1 DEF ClaimRow, OutboxInv, OutboxTypes, FlushRecord
  <2>3. OutboxTypes'
    <3>1. flush' = [flush EXCEPT ![f].batch = Rest]
      BY <1>1 DEF ClaimRow, Rest
    <3>2. flush' \in [Flushers -> FlushRecord]
      BY <1>0, <3>1 DEF OutboxInv, OutboxTypes, FlushRecord
    <3> QED
      BY <2>1, <3>2 DEF OutboxInv, OutboxTypes
  <2> QED
    BY <2>1, <2>2, <2>3 DEF OutboxInv, RowInHand, MarkIsReported, RowIsClaimed, SentIsReported, PendingIsSelectable
<1>2. CASE Claimable(s)
  <2>1. /\ outbox[s].status = "pending"
        /\ outbox' = [outbox EXCEPT ![s].status = "processing"]
        /\ flush' = [flush EXCEPT ![f] = [pc |-> "report", row |-> s, slow |-> @.slow, batch |-> @.batch \ {s}]]
        /\ flush[f].pc = "next"
        /\ UNCHANGED <<reported, stalls, overtaken>>
    BY <1>2 DEF ClaimRow, Claimable
  <2>2. /\ flush'[f].row = s /\ flush'[f].pc = "report"
        /\ \A g \in Flushers \ {f} : flush'[g] = flush[g]
    BY <2>1 DEF OutboxInv, OutboxTypes, FlushRecord
  <2>3. OutboxTypes'
    <3> DEFINE r == [pc |-> "report", row |-> s, slow |-> flush[f].slow, batch |-> Rest]
    <3>2. r \in FlushRecord
      BY <1>0 DEF OutboxInv, OutboxTypes, FlushRecord, RowSteps
    <3>3. flush' = [flush EXCEPT ![f] = r]
      BY <2>1 DEF Rest
    <3> HIDE DEF r
    <3>4. flush' \in [Flushers -> FlushRecord]
      BY <3>2, <3>3 DEF OutboxInv, OutboxTypes
    <3> QED
      BY <3>4, <2>1 DEF OutboxInv, OutboxTypes, OutboxStatus
  <2>4. RowInHand' /\ MarkIsReported'
    BY <2>1, <2>2, OutboxConstants DEF OutboxInv, RowInHand, MarkIsReported, RowSteps
  <2>5. \A g \in Flushers : flush[g].row = s => s \in overtaken
    BY <2>1, OutboxConstants DEF OutboxInv, RowIsClaimed
  <2>6. RowIsClaimed'
    <3> SUFFICES ASSUME NEW g \in Flushers, flush'[g].row # NoSource, flush'[g].row \notin overtaken
                 PROVE  /\ outbox'[flush'[g].row].status = "processing"
                        /\ \A h \in Flushers : flush'[h].row = flush'[g].row => h = g
      BY <2>1 DEF RowIsClaimed
    <3>1. CASE g = f
      BY <3>1, <2>1, <2>2, <2>5 DEF OutboxInv, OutboxTypes, FlushRecord
    <3>2. CASE g # f
      <4>1. flush[g].row # s
        BY <3>2, <2>2, <2>5
      <4> QED
        BY <3>2, <4>1, <2>1, <2>2 DEF OutboxInv, OutboxTypes, FlushRecord, RowIsClaimed
    <3> QED
      BY <3>1, <3>2
  <2>7. SentIsReported' /\ PendingIsSelectable'
    BY <2>1 DEF OutboxInv, OutboxTypes, FlushRecord, SentIsReported, PendingIsSelectable
  <2> QED
    BY <2>1, <2>3, <2>4, <2>6, <2>7 DEF OutboxInv
<1> QED
  BY <1>1, <1>2

\* A report goes on to the mark of a sent row only without an error, and then it
\* was accepted.
LEMMA ReportKeeps ==
  ASSUME OutboxInv, NEW f \in Flushers, NEW accepted \in BOOLEAN, NEW error \in BOOLEAN,
         ReportUsage(f, accepted, error)
  PROVE  OutboxInv'
<1> DEFINE s == flush[f].row
<1>1. /\ flush[f].pc = "report" /\ (accepted \/ error)
      /\ reported' = IF accepted THEN reported \cup {s} ELSE reported
      /\ flush' = [flush EXCEPT ![f].pc = IF error THEN "mark_failed" ELSE "mark_sent"]
      /\ UNCHANGED <<outbox, stalls, overtaken>>
  BY DEF ReportUsage, AfterReport
<1>2. s \in Sources
  BY <1>1 DEF OutboxInv, OutboxTypes, FlushRecord, RowInHand, RowSteps
<1>3. /\ \A g \in Flushers : flush'[g].row = flush[g].row
      /\ \A g \in Flushers \ {f} : flush'[g] = flush[g]
      /\ flush'[f].pc = IF error THEN "mark_failed" ELSE "mark_sent"
  BY <1>1 DEF OutboxInv, OutboxTypes, FlushRecord
<1> HIDE DEF s
<1>4. OutboxTypes'
  BY <1>1, <1>2 DEF OutboxInv, OutboxTypes, FlushRecord, RowSteps
<1>5. RowInHand'
  BY <1>1, <1>3 DEF OutboxInv, RowInHand, RowSteps
<1>6. MarkIsReported'
  BY <1>1, <1>3 DEF OutboxInv, MarkIsReported, s
<1>7. RowIsClaimed' /\ SentIsReported' /\ PendingIsSelectable'
  BY <1>1, <1>3 DEF OutboxInv, RowIsClaimed, SentIsReported, PendingIsSelectable
<1> QED
  BY <1>4, <1>5, <1>6, <1>7 DEF OutboxInv

\* A mark changes one row, and its flusher lets go of it.
LEMMA MarkKeeps ==
  ASSUME OutboxInv, NEW f \in Flushers, MarkSent(f) \/ MarkFailed(f) PROVE OutboxInv'
<1> DEFINE s == flush[f].row
<1> DEFINE n == outbox[s].attempts + 1
<1>1. flush[f].pc \in RowSteps /\ s \in Sources
  BY DEF MarkSent, MarkFailed, OutboxInv, OutboxTypes, FlushRecord, RowInHand, RowSteps
<1>2. /\ flush' = [flush EXCEPT ![f] = [@ EXCEPT !.pc = "next", !.row = NoSource, !.slow = FALSE]]
      /\ UNCHANGED <<reported, stalls, overtaken>>
  BY DEF MarkSent, MarkFailed, NextRow
<1>3. \/ outbox' = [outbox EXCEPT ![s].status = "sent"] /\ s \in reported
      \/ outbox' = [outbox EXCEPT ![s] = [status |-> IF n >= MaxAttempts THEN "failed" ELSE "pending",
                                          attempts |-> n]]
  BY DEF MarkSent, MarkFailed, AfterFailure, OutboxInv, MarkIsReported
<1>4. n \in Nat
  BY <1>1 DEF OutboxInv, OutboxTypes, FlushRecord
<1>5. /\ flush'[f].row = NoSource /\ flush'[f].pc = "next"
      /\ \A g \in Flushers \ {f} : flush'[g] = flush[g]
  BY <1>2 DEF OutboxInv, OutboxTypes, FlushRecord
<1> HIDE DEF s, n
<1>6. OutboxTypes'
  <2>1. flush' \in [Flushers -> FlushRecord]
    BY <1>2 DEF OutboxInv, OutboxTypes, FlushRecord
  <2>2. outbox' \in [Sources -> [status : OutboxStatus, attempts : Nat]]
    <3>1. CASE outbox' = [outbox EXCEPT ![s].status = "sent"]
      BY <3>1 DEF OutboxInv, OutboxTypes, OutboxStatus
    <3>2. CASE outbox' = [outbox EXCEPT ![s] = [status |-> IF n >= MaxAttempts THEN "failed" ELSE "pending",
                                                attempts |-> n]]
      BY <3>2, <1>4 DEF OutboxInv, OutboxTypes, OutboxStatus
    <3> QED
      BY <1>3, <3>1, <3>2
  <2> QED
    BY <1>2, <2>1, <2>2 DEF OutboxInv, OutboxTypes
<1>7. RowInHand' /\ MarkIsReported'
  BY <1>2, <1>5 DEF OutboxInv, RowInHand, MarkIsReported, RowSteps
<1>8. \A r \in Sources \ {s} : outbox'[r] = outbox[r]
  BY <1>3 DEF OutboxInv, OutboxTypes, FlushRecord
<1>9. RowIsClaimed'
  <2> SUFFICES ASSUME NEW g \in Flushers, flush'[g].row # NoSource, flush'[g].row \notin overtaken
               PROVE  /\ outbox'[flush'[g].row].status = "processing"
                      /\ \A h \in Flushers : flush'[h].row = flush'[g].row => h = g
    BY <1>2 DEF RowIsClaimed
  <2>1. g # f /\ flush'[g] = flush[g] /\ flush[g].row \in Sources
    BY <1>5 DEF OutboxInv, OutboxTypes, FlushRecord
  <2>2. flush[g].row # s
    BY <2>1 DEF OutboxInv, RowIsClaimed, s
  <2> QED
    BY <2>1, <2>2, <1>5, <1>8 DEF OutboxInv, RowIsClaimed
<1>10. SentIsReported'
  BY <1>1, <1>2, <1>3, <1>8 DEF OutboxInv, OutboxTypes, FlushRecord, SentIsReported
<1>11. PendingIsSelectable'
  BY <1>1, <1>3, <1>4, <1>8, OutboxConstants DEF OutboxInv, OutboxTypes, FlushRecord, PendingIsSelectable
<1> QED
  BY <1>6, <1>7, <1>9, <1>10, <1>11 DEF OutboxInv

\* A flusher that hangs keeps its row, one that dies lets go of it.
LEMMA StallKeeps == ASSUME OutboxInv, NEW f \in Flushers, Stall(f) PROVE OutboxInv'
<1>1. /\ UNCHANGED <<outbox, reported, overtaken>>
      /\ stalls' = stalls + 1
      /\ \A g \in Flushers \ {f} : flush'[g] = flush[g]
      /\ \/ flush'[f].row = flush[f].row /\ flush'[f].pc = flush[f].pc
         \/ flush'[f].row = NoSource /\ flush'[f].pc = "idle"
  BY DEF Stall, OutboxInv, OutboxTypes, FlushRecord, IdleFlush
<1>2. OutboxTypes'
  <2>1. flush' \in [Flushers -> FlushRecord]
    <3>1. CASE flush' = [flush EXCEPT ![f].slow = TRUE]
      BY <3>1 DEF OutboxInv, OutboxTypes, FlushRecord
    <3>2. CASE flush' = [flush EXCEPT ![f] = IdleFlush]
      BY <3>2 DEF OutboxInv, OutboxTypes, FlushRecord, IdleFlush
    <3> QED
      BY <3>1, <3>2 DEF Stall
  <2> QED
    BY <1>1, <2>1 DEF OutboxInv, OutboxTypes
<1>3. RowInHand' /\ MarkIsReported'
  BY <1>1 DEF OutboxInv, RowInHand, MarkIsReported, RowSteps
<1>4. RowIsClaimed' /\ SentIsReported' /\ PendingIsSelectable'
  BY <1>1 DEF OutboxInv, RowIsClaimed, SentIsReported, PendingIsSelectable
<1> QED
  BY <1>2, <1>3, <1>4 DEF OutboxInv

\* Every step of enqueue and of a flush keeps the invariant.
LEMMA OutboxKeeps == OutboxInv /\ [OutboxNext]_outboxVars => OutboxInv'
<1> SUFFICES ASSUME OutboxInv, [OutboxNext]_outboxVars PROVE OutboxInv'
  OBVIOUS
<1>1. CASE UNCHANGED outboxVars
  BY <1>1 DEF outboxVars, OutboxInv, OutboxTypes, FlushRecord, RowInHand, MarkIsReported, RowIsClaimed,
       SentIsReported, PendingIsSelectable
<1>2. ASSUME NEW f \in Flushers, NEW s \in flush[f].batch, ClaimRow(f, s) PROVE OutboxInv'
  BY <1>2, ClaimKeeps DEF OutboxInv, OutboxTypes, FlushRecord
<1> QED
  BY <1>1, <1>2, EnqueueKeeps, RequeueKeeps, FetchKeeps, ReportKeeps, MarkKeeps, StallKeeps
  DEF OutboxNext, FlushStep

\* A flusher marks a row as sent after Stripe has answered, and is alone with its row unless it
\* was overtaken by a requeue (billing-outbox.ts), for any number of flushers and rows.
THEOREM OutboxInvariant == OutboxSpec => []OutboxInv
BY OutboxStart, OutboxKeeps, PTL DEF OutboxSpec

\* The outbox counts a key as sent only after Stripe accepted it.
THEOREM SentHolds == OutboxSpec => []SentIsReported
<1>1. OutboxInv => SentIsReported
  BY DEF OutboxInv
<1> QED
  BY <1>1, OutboxInvariant, PTL

\* A row that waits will be selected.
THEOREM SelectableHolds == OutboxSpec => []PendingIsSelectable
<1>1. OutboxInv => PendingIsSelectable
  BY DEF OutboxInv
<1> QED
  BY <1>1, OutboxInvariant, PTL

\* Only the late mark of an overtaken flusher reopens a sent row.
THEOREM FinalHolds == OutboxSpec => SentIsFinal
<1> DEFINE Kept == \A s \in Sources : outbox[s].status = "sent" /\ outbox'[s].status # "sent" => s \in overtaken
<1>1. OutboxInv /\ [OutboxNext]_outboxVars => [Kept]_outboxVars
  <2> SUFFICES ASSUME OutboxInv, OutboxNext, NEW s \in Sources,
                      outbox[s].status = "sent", outbox'[s].status # "sent"
               PROVE  s \in overtaken
    OBVIOUS
  <2>1. ASSUME NEW e \in MeterEvents, Enqueue(e) PROVE FALSE
    BY <2>1, OutboxAssumption DEF Enqueue, FirstOfKey, OutboxInv, OutboxTypes, FlushRecord
  <2>2. ASSUME NEW f \in Flushers, RequeueStale(f) PROVE FALSE
    BY <2>2 DEF RequeueStale, Stale, OutboxInv, OutboxTypes, FlushRecord
  <2>3. ASSUME NEW f \in Flushers, NEW t \in flush[f].batch, ClaimRow(f, t) PROVE FALSE
    BY <2>3 DEF ClaimRow, Claimable, OutboxInv, OutboxTypes, FlushRecord
  <2>4. ASSUME NEW f \in Flushers, MarkSent(f) PROVE FALSE
    BY <2>4 DEF MarkSent, OutboxInv, OutboxTypes, FlushRecord
  <2>5. ASSUME NEW f \in Flushers, MarkFailed(f) PROVE s \in overtaken
    <3>1. s = flush[f].row
      BY <2>5 DEF MarkFailed, OutboxInv, OutboxTypes, FlushRecord
    <3> QED
      BY <3>1, OutboxConstants DEF OutboxInv, RowIsClaimed
  <2>6. ASSUME NEW f \in Flushers, FetchPending(f) \/ FlushDone(f) \/ Stall(f) PROVE FALSE
    BY <2>6 DEF FetchPending, FlushDone, Stall
  <2>7. ASSUME NEW f \in Flushers, NEW accepted, NEW error, ReportUsage(f, accepted, error) PROVE FALSE
    BY <2>7 DEF ReportUsage
  <2> QED
    BY <2>1, <2>2, <2>3, <2>4, <2>5, <2>6, <2>7 DEF OutboxNext, FlushStep
<1> QED
  BY <1>1, OutboxInvariant, PTL DEF OutboxSpec, SentIsFinal, Kept

\* The status of a row tells what happened to its usage, for any number of
\* flushers, rows, stalls and crashes.
THEOREM ReportHolds == OutboxSpec => UsageReported
BY SentHolds, SelectableHolds, FinalHolds, PTL DEF UsageReported
-----------------------------------------------------------------------------
(* The observability outbox *)

ObsRowRecord == [status : {"absent", "pending", "processing", "sent", "failed"},
                 attempts : 0..ObsMaxAttempts, event : ObsEvents \cup {NoObs}]
DrainRecord == [pc : {"idle", "list", "next", "apply", "mark_failed", "bury"},
                batch : SUBSET (ObsRows \X (0..(ObsMaxAttempts - 1))), row : ObsRows \cup {NoObs},
                seen : 0..(ObsMaxAttempts - 1), slow : BOOLEAN]
DlqRecord == [status : {"absent", "pending", "replayed"}, row : ObsRows \cup {NoObs}]
ReplayRecord == [pc : {"idle", "publish", "mark"}, letter : DlqIds \cup {NoObs}]

\* A worker remembers only counts of attempts that are not used up.
ObsTypes ==
    /\ obsRow \in [ObsRows -> ObsRowRecord]
    /\ processed \subseteq ObsRows /\ IsFiniteSet(processed)
    /\ counted \in [ObsEvents -> Nat]
    /\ dlq \in [DlqIds -> DlqRecord]
    /\ drain \in [Drainers -> DrainRecord]
    /\ replay \in [Replayers -> ReplayRecord]
    /\ obsStalls \in 0..ObsMaxStalls
    /\ doubtful \subseteq ObsEvents

Present(r) == obsRow[r].status # "absent"

\* A row in the table carries an event, and has attempts left while it waits.
RowsAreSound ==
    \A r \in ObsRows :
        /\ Present(r) => EventOf(r) \in ObsEvents
        /\ obsRow[r].status \in {"pending", "processing"} => obsRow[r].attempts < ObsMaxAttempts

\* What a worker holds, what was counted, and what a letter or a replay names exists.
HandsArePresent ==
    \A d \in Drainers :
        /\ drain[d].pc \in {"apply", "mark_failed", "bury"} => drain[d].row # NoObs
        /\ drain[d].row # NoObs => Present(drain[d].row)
ProcessedArePresent == \A r \in processed : Present(r)
LettersArePresent ==
    /\ \A i \in DlqIds : dlq[i].status # "absent" => dlq[i].row \in ObsRows /\ Present(dlq[i].row)
    /\ \A p \in Replayers : replay[p].pc # "idle" =>
          replay[p].letter \in DlqIds /\ dlq[replay[p].letter].status # "absent"

ObsInv ==
    /\ ObsTypes /\ RowsAreSound /\ HandsArePresent /\ ProcessedArePresent /\ LettersArePresent
    /\ RowCountedOnce

\* What the assumptions say of the observability pipeline.
LEMMA ObsConstants ==
    /\ NoObs \notin ObsEvents /\ NoObs \notin ObsRows /\ NoObs \notin DlqIds
    /\ ObsMaxAttempts \in Nat /\ ObsMaxAttempts > 0 /\ ObsMaxStalls \in Nat
  BY ObservabilityAssumption

\* The invariant holds of the empty pipeline.
LEMMA ObsStart == ObsInit => ObsInv
<1> SUFFICES ASSUME ObsInit PROVE ObsInv
  OBVIOUS
<1>1. ObsTypes
  BY ObsConstants, FS_EmptySet
  DEF ObsInit, ObsTypes, ObsRowRecord, DrainRecord, DlqRecord, ReplayRecord, IdleDrain, IdleReplay
<1>2. RowsAreSound /\ HandsArePresent /\ ProcessedArePresent /\ LettersArePresent
  BY DEF ObsInit, RowsAreSound, HandsArePresent, ProcessedArePresent, LettersArePresent, Present,
         IdleDrain, IdleReplay
<1>3. RowCountedOnce
  <2> SUFFICES ASSUME NEW e \in ObsEvents
               PROVE  counted[e] = Cardinality({r \in processed : EventOf(r) = e})
    BY DEF RowCountedOnce
  <2>1. {r \in processed : EventOf(r) = e} = {}
    BY DEF ObsInit
  <2> QED
    BY <2>1, FS_EmptySet DEF ObsInit
<1> QED
  BY <1>1, <1>2, <1>3 DEF ObsInv

\* The rows that exist stay and keep their event: then what is not counted anew
\* stays counted, and what was named still exists.
RowsKept == \A r \in ObsRows : Present(r) => Present(r)' /\ EventOf(r)' = EventOf(r)

\* Steps that count nothing and lose no row keep the counts.
LEMMA CountsKept ==
  ASSUME ObsInv, RowsKept, UNCHANGED <<processed, counted>>
  PROVE  ProcessedArePresent' /\ RowCountedOnce'
<1>1. ProcessedArePresent'
  BY DEF ObsInv, ObsTypes, RowsKept, ProcessedArePresent
<1>2. \A e : {r \in processed : EventOf(r) = e}' = {r \in processed : EventOf(r) = e}
  BY DEF ObsInv, ObsTypes, RowsKept, ProcessedArePresent
<1> QED
  BY <1>1, <1>2 DEF ObsInv, RowCountedOnce

\* Steps that touch no dead letter and lose no row keep the letters.
LEMMA LettersKept ==
  ASSUME ObsInv, RowsKept, UNCHANGED <<dlq, replay>> PROVE LettersArePresent'
  BY DEF ObsInv, RowsKept, LettersArePresent

\* Steps that touch no drain and lose no row keep what is in hand.
LEMMA HandsKept ==
  ASSUME ObsInv, RowsKept, UNCHANGED drain PROVE HandsArePresent'
<1>1. \A d \in Drainers : drain[d].row \in ObsRows \cup {NoObs}
  BY DEF ObsInv, ObsTypes, DrainRecord
<1> QED
  BY <1>1 DEF ObsInv, RowsKept, HandsArePresent

\* A worker that takes nothing new into its hands.
LEMMA NothingTaken ==
  ASSUME ObsInv, RowsKept, ObsTypes', NEW d \in Drainers,
         \A c \in Drainers \ {d} : drain'[c] = drain[c],
         drain'[d].row \in {NoObs, drain[d].row},
         drain'[d].pc \in {"apply", "mark_failed", "bury"} => drain'[d].row # NoObs
  PROVE  HandsArePresent'
<1>1. \A c \in Drainers : drain[c].row \in ObsRows \cup {NoObs}
  BY DEF ObsInv, ObsTypes, DrainRecord
<1> QED
  BY <1>1 DEF ObsInv, RowsKept, HandsArePresent

\* Rows that are not written are kept.
LEMMA Untouched == ASSUME UNCHANGED obsRow PROVE RowsKept
  BY DEF RowsKept, Present, EventOf
-----------------------------------------------------------------------------
\* A new row takes an identifier nobody has seen.
LEMMA NewRowKeeps ==
  ASSUME ObsInv, NEW r \in ObsRows, NEW e \in ObsEvents, NewRow(r, e)
  PROVE  RowsKept /\ RowsAreSound' /\ obsRow' \in [ObsRows -> ObsRowRecord]
  BY ObsConstants DEF NewRow, ObsInv, ObsTypes, ObsRowRecord, RowsKept, RowsAreSound, Present, EventOf

\* publish adds a row that nobody lists.
LEMMA PublishKeeps ==
  ASSUME ObsInv, NEW r \in ObsRows, NEW e \in ObsEvents, Publish(r, e) PROVE ObsInv'
<1>1. NewRow(r, e) /\ UNCHANGED <<processed, counted, dlq, drain, replay, obsStalls, doubtful>>
  BY DEF Publish
<1>2. RowsKept /\ RowsAreSound' /\ obsRow' \in [ObsRows -> ObsRowRecord]
  BY <1>1, NewRowKeeps
<1>3. ObsTypes'
  BY <1>1, <1>2 DEF ObsInv, ObsTypes
<1>4. HandsArePresent' /\ LettersArePresent' /\ ProcessedArePresent' /\ RowCountedOnce'
  BY <1>1, <1>2, HandsKept, LettersKept, CountsKept
<1> QED
  BY <1>2, <1>3, <1>4 DEF ObsInv

\* The publication of a replay adds a row of the same event.
LEMMA PublishAgainKeeps ==
  ASSUME ObsInv, NEW p \in Replayers, NEW r \in ObsRows, PublishAgain(p, r) PROVE ObsInv'
<1> DEFINE e == EventOf(dlq[replay[p].letter].row)
<1>1. /\ replay[p].pc = "publish" /\ NewRow(r, e)
      /\ replay' = [replay EXCEPT ![p].pc = "mark"]
      /\ UNCHANGED <<processed, counted, dlq, drain, obsStalls, doubtful>>
  BY DEF PublishAgain
<1>2. e \in ObsEvents
  BY <1>1 DEF ObsInv, LettersArePresent, RowsAreSound
<1> HIDE DEF e
<1>3. RowsKept /\ RowsAreSound' /\ obsRow' \in [ObsRows -> ObsRowRecord]
  BY <1>1, <1>2, NewRowKeeps
<1>4. ObsTypes'
  BY <1>1, <1>3 DEF ObsInv, ObsTypes, ReplayRecord
<1>5. LettersArePresent'
  BY <1>1, <1>3 DEF ObsInv, ObsTypes, ReplayRecord, LettersArePresent, RowsKept
<1>6. HandsArePresent' /\ ProcessedArePresent' /\ RowCountedOnce'
  BY <1>1, <1>3, HandsKept, CountsKept
<1> QED
  BY <1>3, <1>4, <1>5, <1>6 DEF ObsInv

\* A requeue makes stale rows pending and no row disappear.
LEMMA RequeueObsKeeps == ASSUME ObsInv, NEW d \in Drainers, RequeueObs(d) PROVE ObsInv'
<1> DEFINE S == {r \in ObsRows : ObsStale(r)}
<1> DEFINE D == {EventOf(r) : r \in {q \in S : ObsHolder(q) # {}}}
<1>1. /\ drain[d].pc = "idle"
      /\ obsRow' = [r \in ObsRows |-> IF r \in S THEN [obsRow[r] EXCEPT !.status = "pending"]
                                                 ELSE obsRow[r]]
      /\ doubtful' = doubtful \cup D
      /\ drain' = [drain EXCEPT ![d].pc = "list"]
      /\ UNCHANGED <<processed, counted, dlq, replay, obsStalls>>
  BY DEF RequeueObs
<1>2. \A r \in S : r \in ObsRows /\ obsRow[r].status = "processing"
  BY DEF ObsStale
<1>3. D \subseteq ObsEvents
  BY <1>2 DEF ObsInv, RowsAreSound, Present
<1> HIDE DEF S, D
<1>4. RowsKept /\ RowsAreSound'
  BY <1>1, <1>2 DEF ObsInv, ObsTypes, ObsRowRecord, RowsKept, RowsAreSound, Present, EventOf
<1>5. obsRow' \in [ObsRows -> ObsRowRecord]
  BY <1>1 DEF ObsInv, ObsTypes, ObsRowRecord
<1>6. drain' \in [Drainers -> DrainRecord]
  BY <1>1 DEF ObsInv, ObsTypes, DrainRecord
<1>7. ObsTypes'
  BY <1>1, <1>3, <1>5, <1>6 DEF ObsInv, ObsTypes
<1>8. HandsArePresent'
  BY <1>1, <1>4, <1>7, NothingTaken DEF ObsInv, ObsTypes, DrainRecord
<1>9. LettersArePresent' /\ ProcessedArePresent' /\ RowCountedOnce'
  BY <1>1, <1>4, LettersKept, CountsKept
<1> QED
  BY <1>4, <1>7, <1>8, <1>9 DEF ObsInv

\* A batch lists pending rows, none of them at the limit.
LEMMA ListPendingKeeps == ASSUME ObsInv, NEW d \in Drainers, ListPending(d) PROVE ObsInv'
<1> DEFINE B == {<<r, obsRow[r].attempts>> : r \in {q \in ObsRows : obsRow[q].status = "pending"}}
<1>1. /\ drain[d].pc = "list"
      /\ drain' = [drain EXCEPT ![d].pc = "next", ![d].batch = B]
      /\ UNCHANGED <<obsRow, processed, counted, dlq, replay, obsStalls, doubtful>>
  BY DEF ListPending
<1>2. B \subseteq ObsRows \X (0..(ObsMaxAttempts - 1))
  BY ObsConstants DEF ObsInv, ObsTypes, ObsRowRecord, RowsAreSound
<1> HIDE DEF B
<1>3. drain' \in [Drainers -> DrainRecord]
  <2>1. drain' = [drain EXCEPT ![d] = [drain[d] EXCEPT !.pc = "next", !.batch = B]]
    BY <1>1 DEF ObsInv, ObsTypes
  <2>2. [drain[d] EXCEPT !.pc = "next", !.batch = B] \in DrainRecord
    BY <1>2 DEF ObsInv, ObsTypes, DrainRecord
  <2> QED
    BY <2>1, <2>2 DEF ObsInv, ObsTypes
<1>4. ObsTypes' /\ RowsKept /\ RowsAreSound'
  BY <1>1, <1>3, Untouched DEF ObsInv, ObsTypes, RowsAreSound, Present, EventOf
<1>5. HandsArePresent'
  BY <1>1, <1>4, NothingTaken DEF ObsInv, ObsTypes, DrainRecord
<1>6. LettersArePresent' /\ ProcessedArePresent' /\ RowCountedOnce'
  BY <1>1, <1>4, LettersKept, CountsKept
<1> QED
  BY <1>4, <1>5, <1>6 DEF ObsInv

\* The conditional update takes a pending row of the batch or leaves it.
LEMMA ClaimObsKeeps ==
  ASSUME ObsInv, NEW d \in Drainers, NEW r \in ObsRows, NEW n \in 0..ObsMaxAttempts, ClaimObs(d, r, n)
  PROVE  ObsInv'
<1> DEFINE Rest == drain[d].batch \ {<<r, n>>}
<1>1. /\ n \in 0..(ObsMaxAttempts - 1)
      /\ Rest \subseteq ObsRows \X (0..(ObsMaxAttempts - 1))
      /\ UNCHANGED <<processed, counted, dlq, replay, obsStalls, doubtful>>
      /\ drain[d].pc = "next"
  BY DEF ClaimObs, ObsInv, ObsTypes, DrainRecord
<1> HIDE DEF Rest
<1>2. CASE MarkProcessing(r)
  <2>1. /\ obsRow[r].status = "pending"
        /\ obsRow' = [obsRow EXCEPT ![r].status = "processing"]
        /\ drain' = [drain EXCEPT ![d] = [pc |-> "apply", batch |-> Rest, row |-> r, seen |-> n, slow |-> FALSE]]
    BY <1>2 DEF ClaimObs, MarkProcessing, Rest
  <2>2. RowsKept /\ RowsAreSound' /\ obsRow' \in [ObsRows -> ObsRowRecord] /\ Present(r)'
    BY <2>1 DEF ObsInv, ObsTypes, ObsRowRecord, RowsKept, RowsAreSound, Present, EventOf
  <2>3. drain' \in [Drainers -> DrainRecord]
    BY <1>1, <2>1 DEF ObsInv, ObsTypes, DrainRecord
  <2>4. ObsTypes'
    BY <1>1, <2>2, <2>3 DEF ObsInv, ObsTypes
  <2>5. drain'[d].row = r /\ \A c \in Drainers \ {d} : drain'[c] = drain[c]
    BY <2>1 DEF ObsInv, ObsTypes, DrainRecord
  <2>6. \A c \in Drainers : drain[c].row \in ObsRows \cup {NoObs}
    BY DEF ObsInv, ObsTypes, DrainRecord
  <2>7. HandsArePresent'
    BY <2>2, <2>5, <2>6, ObsConstants DEF ObsInv, HandsArePresent, RowsKept
  <2>8. LettersArePresent' /\ ProcessedArePresent' /\ RowCountedOnce'
    BY <1>1, <2>2, LettersKept, CountsKept
  <2> QED
    BY <2>2, <2>4, <2>7, <2>8 DEF ObsInv
<1>3. CASE ~MarkProcessing(r)
  <2>1. UNCHANGED obsRow /\ drain' = [drain EXCEPT ![d].batch = Rest]
    BY <1>3 DEF ClaimObs, Rest
  <2>2. drain' \in [Drainers -> DrainRecord]
    BY <1>1, <2>1 DEF ObsInv, ObsTypes, DrainRecord
  <2>3. ObsTypes' /\ RowsKept /\ RowsAreSound'
    BY <1>1, <2>1, <2>2, Untouched DEF ObsInv, ObsTypes, RowsAreSound, Present, EventOf
  <2>4. HandsArePresent'
    BY <1>1, <2>1, <2>3, NothingTaken DEF ObsInv, ObsTypes, DrainRecord
  <2>5. LettersArePresent' /\ ProcessedArePresent' /\ RowCountedOnce'
    BY <1>1, <2>3, LettersKept, CountsKept
  <2> QED
    BY <2>3, <2>4, <2>5 DEF ObsInv
<1> QED
  BY <1>2, <1>3

\* A drain between two flushes has no row.
LEMMA IdleIsSound == IdleDrain \in DrainRecord
  BY ObsConstants DEF IdleDrain, DrainRecord

\* Going on with the batch puts the row down and touches no other drain.
LEMMA NextInBatchIsSound ==
  ASSUME ObsTypes, NEW d \in Drainers, NextInBatch(d)
  PROVE  /\ drain' \in [Drainers -> DrainRecord]
         /\ drain'[d].row = NoObs /\ drain'[d].pc = "next"
         /\ \A c \in Drainers \ {d} : drain'[c] = drain[c]
  BY ObsConstants DEF NextInBatch, ObsTypes, DrainRecord

\* The claim of the event and its delta are one transaction.
LEMMA ApplyKeeps == ASSUME ObsInv, NEW d \in Drainers, ApplyAndSend(d) PROVE ObsInv'
<1>0. PICK r \in ObsRows : r = drain[d].row /\ Present(r)
  BY DEF ApplyAndSend, ObsInv, ObsTypes, DrainRecord, HandsArePresent
<1>1. /\ drain[d].pc = "apply"
      /\ counted' = [counted EXCEPT ![EventOf(r)] = IF r \notin processed THEN @ + 1 ELSE @]
      /\ processed' = processed \cup {r}
      /\ obsRow' = [obsRow EXCEPT ![r].status = "sent"]
      /\ NextInBatch(d)
      /\ UNCHANGED <<dlq, replay, obsStalls, doubtful>>
  BY <1>0 DEF ApplyAndSend, FirstTime
<1>2. r \in ObsRows /\ Present(r)
  BY <1>0
<1>3. RowsKept /\ RowsAreSound' /\ obsRow' \in [ObsRows -> ObsRowRecord] /\ Present(r)'
  BY <1>1, <1>2 DEF ObsInv, ObsTypes, ObsRowRecord, RowsKept, RowsAreSound, Present, EventOf
<1>4. processed' \subseteq ObsRows /\ IsFiniteSet(processed') /\ counted' \in [ObsEvents -> Nat]
  <2>1. processed' \subseteq ObsRows /\ IsFiniteSet(processed')
    BY <1>1, FS_AddElement DEF ObsInv, ObsTypes
  <2>2. counted' \in [ObsEvents -> Nat]
    <3>1. counted \in [ObsEvents -> Nat]
      BY DEF ObsInv, ObsTypes
    <3>2. counted' = [e \in ObsEvents |-> IF e = EventOf(r) /\ r \notin processed THEN counted[e] + 1
                                                                                 ELSE counted[e]]
      <4> DEFINE x == EventOf(r)
      <4> HIDE DEF x
      <4>1. counted' = [counted EXCEPT ![x] = IF r \notin processed THEN @ + 1 ELSE @]
        BY <1>1 DEF x
      <4>2. counted' = [e \in ObsEvents |-> IF e = x /\ r \notin processed THEN counted[e] + 1 ELSE counted[e]]
        BY <3>1, <4>1
      <4> QED
        BY <4>2 DEF x
    <3>3. \A e \in ObsEvents : counted[e] \in Nat
      BY <3>1
    <3> QED
      BY <3>2, <3>3
  <2> QED
    BY <2>1, <2>2
<1>5. ObsTypes'
  BY <1>1, <1>3, <1>4, NextInBatchIsSound DEF ObsInv, ObsTypes
<1>6. HandsArePresent'
  BY <1>1, <1>3, <1>5, NextInBatchIsSound, NothingTaken DEF ObsInv
<1>7. LettersArePresent'
  BY <1>1, <1>3, LettersKept
<1>8. ProcessedArePresent'
  BY <1>1, <1>3 DEF ObsInv, ObsTypes, RowsKept, ProcessedArePresent
<1>9. RowCountedOnce'
  <2> SUFFICES ASSUME NEW e \in ObsEvents
               PROVE  counted'[e] = Cardinality({q \in processed : EventOf(q) = e}')
    BY DEF RowCountedOnce
  <2> DEFINE Old == {q \in processed : EventOf(q) = e}
  <2> DEFINE New == {q \in processed : EventOf(q) = e}'
  <2>1. \A q \in processed \cup {r} : EventOf(q)' = EventOf(q)
    BY <1>2, <1>3 DEF ObsInv, ObsTypes, RowsKept, ProcessedArePresent
  <2>2. New = IF EventOf(r) = e THEN Old \cup {r} ELSE Old
    BY <1>1, <2>1
  <2>3. IsFiniteSet(Old) /\ counted[e] = Cardinality(Old) /\ Cardinality(Old) \in Nat
    BY FS_Subset, FS_CardinalityType DEF ObsInv, ObsTypes, RowCountedOnce
  <2>4. (r \in Old) = (r \in processed /\ EventOf(r) = e)
    OBVIOUS
  <2> HIDE DEF Old, New
  <2>5. Cardinality(Old \cup {r}) = IF r \in Old THEN Cardinality(Old) ELSE Cardinality(Old) + 1
    BY <2>3, FS_AddElement
  <2>6. counted'[e] = IF EventOf(r) = e /\ r \notin processed THEN counted[e] + 1 ELSE counted[e]
    BY <1>1 DEF ObsInv, ObsTypes
  <2>7. counted'[e] = Cardinality(New)
    <3>1. CASE EventOf(r) # e
      BY <3>1, <2>2, <2>3, <2>6
    <3>2. CASE EventOf(r) = e
      BY <3>2, <2>2, <2>3, <2>4, <2>5, <2>6
    <3> QED
      BY <3>1, <3>2
  <2> QED
    BY <2>7 DEF New
<1> QED
  BY <1>3, <1>5, <1>6, <1>7, <1>8, <1>9 DEF ObsInv

\* The counts of attempts a worker writes back come from its batch.
LEMMA MarkObsFailedKeeps == ASSUME ObsInv, NEW d \in Drainers, MarkObsFailed(d) PROVE ObsInv'
<1>0. PICK r \in ObsRows, n \in 0..ObsMaxAttempts :
         r = drain[d].row /\ Present(r) /\ r # NoObs /\ n = drain[d].seen + 1
  BY ObsConstants DEF MarkObsFailed, ObsInv, ObsTypes, DrainRecord, HandsArePresent
<1>1. /\ drain[d].pc = "mark_failed"
      /\ obsRow' = [obsRow EXCEPT ![r] =
            [status |-> IF n >= ObsMaxAttempts THEN "failed" ELSE "pending", attempts |-> n,
             event |-> EventOf(r)]]
      /\ IF n >= ObsMaxAttempts THEN drain' = [drain EXCEPT ![d].pc = "bury"] ELSE NextInBatch(d)
      /\ UNCHANGED <<processed, counted, dlq, replay, obsStalls, doubtful>>
  BY <1>0 DEF MarkObsFailed, GivesUp
<1>2. EventOf(r) \in ObsEvents
  BY <1>0 DEF ObsInv, RowsAreSound
<1>3. RowsKept /\ RowsAreSound' /\ obsRow' \in [ObsRows -> ObsRowRecord]
  BY <1>0, <1>1, <1>2, ObsConstants DEF ObsInv, ObsTypes, ObsRowRecord, RowsKept, RowsAreSound, Present, EventOf
<1>4. /\ drain' \in [Drainers -> DrainRecord]
      /\ \A c \in Drainers \ {d} : drain'[c] = drain[c]
      /\ \/ drain'[d].row = NoObs /\ drain'[d].pc = "next"
         \/ drain'[d].row = r
  <2>1. CASE n >= ObsMaxAttempts
    <3>1. drain' = [drain EXCEPT ![d].pc = "bury"]
      BY <1>1, <2>1
    <3>2. drain \in [Drainers -> DrainRecord]
      BY DEF ObsInv, ObsTypes
    <3>3. drain'[d].row = drain[d].row /\ drain' \in [Drainers -> DrainRecord]
      BY <3>1, <3>2 DEF DrainRecord
    <3> QED
      BY <1>0, <3>1, <3>2, <3>3
  <2>2. CASE ~(n >= ObsMaxAttempts)
    BY <1>1, <2>2, NextInBatchIsSound DEF ObsInv
  <2> QED
    BY <2>1, <2>2
<1>5. ObsTypes'
  BY <1>1, <1>3, <1>4 DEF ObsInv, ObsTypes
<1>6. HandsArePresent'
  BY <1>0, <1>3, <1>4, <1>5, NothingTaken
<1>7. LettersArePresent' /\ ProcessedArePresent' /\ RowCountedOnce'
  BY <1>1, <1>3, LettersKept, CountsKept
<1> QED
  BY <1>3, <1>5, <1>6, <1>7 DEF ObsInv

\* The other steps of a worker leave the rows alone.
LEMMA DrainKeeps ==
  ASSUME ObsInv, NEW d \in Drainers, DrainDone(d) \/ ApplyFails(d) PROVE ObsInv'
<1>1. UNCHANGED <<obsRow, processed, counted, dlq, replay, obsStalls, doubtful>>
  BY DEF DrainDone, ApplyFails
<1>2. /\ drain' \in [Drainers -> DrainRecord]
      /\ \A c \in Drainers \ {d} : drain'[c] = drain[c]
      /\ drain'[d] = IdleDrain \/ (drain'[d].row = drain[d].row /\ drain[d].pc = "apply")
  <2>1. CASE DrainDone(d)
    BY <2>1, IdleIsSound DEF DrainDone, ObsInv, ObsTypes
  <2>2. CASE ApplyFails(d)
    BY <2>2 DEF ApplyFails, ObsInv, ObsTypes, DrainRecord
  <2> QED
    BY <2>1, <2>2
<1>3. ObsTypes' /\ RowsKept /\ RowsAreSound'
  BY <1>1, <1>2, Untouched DEF ObsInv, ObsTypes, RowsAreSound, Present, EventOf
<1>4. HandsArePresent'
  BY <1>2, <1>3, NothingTaken DEF ObsInv, HandsArePresent, IdleDrain
<1>5. LettersArePresent' /\ ProcessedArePresent' /\ RowCountedOnce'
  BY <1>1, <1>3, LettersKept, CountsKept
<1> QED
  BY <1>3, <1>4, <1>5 DEF ObsInv

\* A dead letter is written of the row in hand.
LEMMA BuryKeeps == ASSUME ObsInv, NEW d \in Drainers, NEW i \in DlqIds, Bury(d, i) PROVE ObsInv'
<1> DEFINE r == drain[d].row
<1>1. /\ drain[d].pc = "bury"
      /\ dlq' = [dlq EXCEPT ![i] = [status |-> "pending", row |-> r]]
      /\ NextInBatch(d)
      /\ UNCHANGED <<obsRow, processed, counted, replay, obsStalls, doubtful>>
  BY DEF Bury
<1>2. r \in ObsRows /\ Present(r)
  BY <1>1 DEF ObsInv, ObsTypes, DrainRecord, HandsArePresent
<1> HIDE DEF r
<1>3. dlq' \in [DlqIds -> DlqRecord]
  BY <1>1, <1>2 DEF ObsInv, ObsTypes, DlqRecord
<1>4. ObsTypes' /\ RowsKept /\ RowsAreSound'
  BY <1>1, <1>3, NextInBatchIsSound, Untouched DEF ObsInv, ObsTypes, RowsAreSound, Present, EventOf
<1>5. HandsArePresent'
  BY <1>1, <1>4, NextInBatchIsSound, NothingTaken DEF ObsInv
<1>6. LettersArePresent'
  BY <1>1, <1>2 DEF ObsInv, ObsTypes, DlqRecord, LettersArePresent, Present
<1>7. ProcessedArePresent' /\ RowCountedOnce'
  BY <1>1, <1>4, CountsKept
<1> QED
  BY <1>4, <1>5, <1>6, <1>7 DEF ObsInv

\* A stalled or dead drain leaves its row to the requeue.
LEMMA ObsStallKeeps == ASSUME ObsInv, NEW d \in Drainers, ObsStall(d) PROVE ObsInv'
<1>1. /\ obsStalls < ObsMaxStalls /\ obsStalls' = obsStalls + 1 /\ drain[d].row # NoObs
      /\ UNCHANGED <<obsRow, processed, counted, dlq, replay>>
  BY DEF ObsStall
<1>2. /\ drain' \in [Drainers -> DrainRecord]
      /\ \A c \in Drainers \ {d} : drain'[c] = drain[c]
      /\ drain'[d] = IdleDrain \/ drain'[d].row = drain[d].row
  <2>1. CASE drain' = [drain EXCEPT ![d].slow = TRUE]
    BY <2>1 DEF ObsInv, ObsTypes, DrainRecord
  <2>2. CASE drain' = [drain EXCEPT ![d] = IdleDrain]
    BY <2>2, IdleIsSound DEF ObsInv, ObsTypes
  <2> QED
    BY <2>1, <2>2 DEF ObsStall
<1>3. drain[d].row \in ObsRows /\ EventOf(drain[d].row) \in ObsEvents
  BY <1>1 DEF ObsInv, ObsTypes, DrainRecord, HandsArePresent, RowsAreSound
<1>4. doubtful' \subseteq ObsEvents
  BY <1>3 DEF ObsStall, ObsInv, ObsTypes
<1>5. ObsTypes' /\ RowsKept /\ RowsAreSound'
  BY <1>1, <1>2, <1>4, ObsConstants, Untouched DEF ObsInv, ObsTypes, RowsAreSound, Present, EventOf
<1>6. HandsArePresent'
  BY <1>1, <1>2, <1>5, NothingTaken DEF IdleDrain
<1>7. LettersArePresent' /\ ProcessedArePresent' /\ RowCountedOnce'
  BY <1>1, <1>5, LettersKept, CountsKept
<1> QED
  BY <1>5, <1>6, <1>7 DEF ObsInv

\* A replay names a letter that exists, and letters stay.
LEMMA ReplayKeeps ==
  ASSUME ObsInv, NEW p \in Replayers,
         (\E i \in DlqIds : ReadLetter(p, i)) \/ MarkReplayed(p) \/ ReplayDies(p)
  PROVE  ObsInv'
<1>1. UNCHANGED <<obsRow, processed, counted, drain, obsStalls>>
  BY DEF ReadLetter, MarkReplayed, ReplayDies
<1>2. \A i \in DlqIds : dlq[i].status # "absent" => EventOf(dlq[i].row) \in ObsEvents
  BY DEF ObsInv, LettersArePresent, RowsAreSound
<1>3. dlq' \in [DlqIds -> DlqRecord] /\ replay' \in [Replayers -> ReplayRecord]
  <2>1. CASE \E i \in DlqIds : ReadLetter(p, i)
    BY <2>1 DEF ReadLetter, ObsInv, ObsTypes, ReplayRecord
  <2>2. CASE MarkReplayed(p)
    BY <2>2 DEF MarkReplayed, ObsInv, ObsTypes, DlqRecord, ReplayRecord, IdleReplay
  <2>3. CASE ReplayDies(p)
    BY <2>3 DEF ReplayDies, ObsInv, ObsTypes, ReplayRecord, IdleReplay
  <2> QED
    BY <2>1, <2>2, <2>3
<1>4. doubtful' \subseteq ObsEvents
  BY <1>2 DEF ReadLetter, MarkReplayed, ReplayDies, ObsInv, ObsTypes, LettersArePresent
<1>5. LettersArePresent'
  <2>1. CASE \E i \in DlqIds : ReadLetter(p, i)
    BY <1>1, <2>1 DEF ReadLetter, ObsInv, ObsTypes, ReplayRecord, LettersArePresent, Present
  <2>2. CASE MarkReplayed(p)
    BY <1>1, <2>2 DEF MarkReplayed, ObsInv, ObsTypes, ReplayRecord, DlqRecord, LettersArePresent, Present, IdleReplay
  <2>3. CASE ReplayDies(p)
    BY <1>1, <2>3 DEF ReplayDies, ObsInv, ObsTypes, ReplayRecord, LettersArePresent, Present, IdleReplay
  <2> QED
    BY <2>1, <2>2, <2>3
<1>6. ObsTypes' /\ RowsKept /\ RowsAreSound'
  BY <1>1, <1>3, <1>4, Untouched DEF ObsInv, ObsTypes, RowsAreSound, Present, EventOf
<1>7. HandsArePresent' /\ ProcessedArePresent' /\ RowCountedOnce'
  BY <1>1, <1>6, HandsKept, CountsKept
<1> QED
  BY <1>5, <1>6, <1>7 DEF ObsInv

\* A step that changes no variable keeps the invariant.
LEMMA ObsStutter == ASSUME ObsInv, UNCHANGED obsVars PROVE ObsInv'
<1>1. ObsTypes' /\ RowsKept /\ RowsAreSound'
  BY Untouched DEF obsVars, ObsInv, ObsTypes, RowsAreSound, Present, EventOf
<1>2. HandsArePresent' /\ LettersArePresent' /\ ProcessedArePresent' /\ RowCountedOnce'
  BY <1>1, HandsKept, LettersKept, CountsKept DEF obsVars
<1> QED
  BY <1>1, <1>2 DEF ObsInv

\* The invariant of the observability outbox, for any number of rows and workers.
THEOREM ObsInvariant == ObsSpec => []ObsInv
<1>1. ASSUME ObsInv, [ObsNext]_obsVars PROVE ObsInv'
  <2>1. ASSUME NEW r \in ObsRows, NEW e \in ObsEvents, Publish(r, e) PROVE ObsInv'
    BY <1>1, <2>1, PublishKeeps
  <2>2. ASSUME NEW d \in Drainers, DrainStep(d) PROVE ObsInv'
    BY <1>1, <2>2, RequeueObsKeeps, ListPendingKeeps, ClaimObsKeeps, ApplyKeeps, MarkObsFailedKeeps,
       DrainKeeps, BuryKeeps
    DEF DrainStep
  <2>3. ASSUME NEW d \in Drainers, ObsStall(d) PROVE ObsInv'
    BY <1>1, <2>3, ObsStallKeeps
  <2>4. ASSUME NEW p \in Replayers, ReplayStep(p) PROVE ObsInv'
    BY <1>1, <2>4, PublishAgainKeeps, ReplayKeeps DEF ReplayStep
  <2>5. CASE UNCHANGED obsVars
    BY <1>1, <2>5, ObsStutter
  <2> QED
    BY <1>1, <2>1, <2>2, <2>3, <2>4, <2>5 DEF ObsNext
<1> QED
  BY <1>1, ObsStart, PTL DEF ObsSpec

\* Type correctness of the observability outbox.
THEOREM ObsTyped == ObsSpec => []ObsTypeOK
<1>1. ObsInv => ObsTypeOK
  BY ObsConstants DEF ObsInv, ObsTypes, ObsTypeOK, ObsRowRecord, DrainRecord, DlqRecord, ReplayRecord
<1> QED
  BY <1>1, ObsInvariant, PTL

\* A row is added to the rollup at most once, whichever workers stall, die or are
\* overtaken with it in their hands (ObservabilityWorker, ON CONFLICT DO NOTHING).
THEOREM RowsCountOnce == ObsSpec => []RowCountedOnce
<1>1. ObsInv => RowCountedOnce
  BY DEF ObsInv
<1> QED
  BY <1>1, ObsInvariant, PTL
-----------------------------------------------------------------------------
(* An event is counted once, and what was given up waits for a replay *)

\* Rows, letters, replays and hands are blank exactly when their state says so.
BlanksAgree ==
    /\ \A r \in ObsRows : EventOf(r) # NoObs => Present(r)
    /\ \A i \in DlqIds : (dlq[i].status = "absent") <=> (dlq[i].row = NoObs)
    /\ \A p \in Replayers : (replay[p].pc = "idle") <=> (replay[p].letter = NoObs)
    /\ \A d \in Drainers : (drain[d].pc \in {"apply", "mark_failed", "bury"}) <=> (drain[d].row # NoObs)

\* Nobody was overtaken with a row of this one's event.
Sure(r) == EventOf(r) \notin doubtful

\* A row in a worker's hands is in nobody else's and in the state its step expects.
HandAlone ==
    \A d \in Drainers : drain[d].row # NoObs /\ Sure(drain[d].row) =>
        /\ obsRow[drain[d].row].status = IF drain[d].pc = "bury" THEN "failed" ELSE "processing"
        /\ \A c \in Drainers : drain[c].row = drain[d].row => c = d

\* A row has one dead letter, and nobody works on it any more.
BuriedOnce ==
    \A i \in DlqIds : dlq[i].row # NoObs /\ Sure(dlq[i].row) =>
        /\ obsRow[dlq[i].row].status = "failed"
        /\ \A j \in DlqIds : dlq[j].row = dlq[i].row => j = i
        /\ \A d \in Drainers : drain[d].row # dlq[i].row

\* A row that failed has its letter, or its worker is about to write it.
FailedIsKept ==
    \A r \in ObsRows : obsRow[r].status = "failed" /\ Sure(r) =>
        \/ \E i \in DlqIds : dlq[i].row = r
        \/ \E d \in Drainers : drain[d].pc = "bury" /\ drain[d].row = r

CountedIsSent == \A r \in processed : Sure(r) => obsRow[r].status = "sent"

\* A letter that is being replayed is pending and in one replay.
ReplayAlone ==
    \A p \in Replayers : replay[p].pc # "idle" /\ Sure(dlq[replay[p].letter].row) =>
        /\ dlq[replay[p].letter].status = "pending"
        /\ \A q \in Replayers : replay[q].pc # "idle" /\ replay[q].letter = replay[p].letter => q = p

\* A row whose letter was published again.
Superseded(r) ==
    \E i \in DlqIds :
        /\ dlq[i].row = r
        /\ dlq[i].status = "replayed" \/ \E p \in Replayers : replay[p].pc = "mark" /\ replay[p].letter = i

\* Of two rows of an event, one was superseded.
OneOpenRow ==
    \A q, r \in ObsRows : q # r /\ EventOf(q) = EventOf(r) /\ EventOf(q) # NoObs /\ Sure(q) =>
        Superseded(q) \/ Superseded(r)
OncePaths ==
    /\ BlanksAgree /\ HandAlone /\ BuriedOnce /\ FailedIsKept /\ CountedIsSent
    /\ ReplayAlone /\ OneOpenRow
OnceInv == ObsInv /\ OncePaths

\* The empty pipeline.
LEMMA OnceStart == ObsInit => OnceInv
<1> SUFFICES ASSUME ObsInit PROVE OncePaths
  BY ObsStart DEF OnceInv
<1> QED
  BY DEF ObsInit, OncePaths, BlanksAgree, HandAlone, BuriedOnce, FailedIsKept, CountedIsSent,
         ReplayAlone, OneOpenRow, Present, EventOf, IdleDrain, IdleReplay

\* Steps that change neither rows nor letters nor what is in hand.
LEMMA OnceKept ==
  ASSUME OnceInv, UNCHANGED <<obsRow, processed, dlq, replay, doubtful>>,
         \A c \in Drainers : drain'[c].row = drain[c].row /\ drain'[c].pc = drain[c].pc
  PROVE  OncePaths'
<1>1. BlanksAgree' /\ HandAlone' /\ BuriedOnce'
  BY DEF OnceInv, OncePaths, BlanksAgree, HandAlone, BuriedOnce, Present, EventOf, Sure
<1>2. FailedIsKept' /\ CountedIsSent' /\ ReplayAlone' /\ OneOpenRow'
  BY DEF OnceInv, OncePaths, FailedIsKept, CountedIsSent, ReplayAlone, OneOpenRow, Superseded,
         EventOf, Sure
<1> QED
  BY <1>1, <1>2 DEF OncePaths

\* A new row is of an event that had none, so nothing on a path mentions it.
LEMMA OncePublish ==
  ASSUME OnceInv, NEW r \in ObsRows, NEW e \in ObsEvents, Publish(r, e)
  PROVE  OncePaths'
<1> USE ObsConstants DEF OnceInv, OncePaths, ObsInv, ObsTypes
<1>1. BlanksAgree'
  BY DEF Publish, NewRow, BlanksAgree, Present, EventOf, ObsRowRecord, DrainRecord, DlqRecord,
         ReplayRecord
<1>2. HandAlone'
  BY DEF Publish, NewRow, BlanksAgree, HandAlone, Sure, EventOf, ObsRowRecord, DrainRecord,
         Present, HandsArePresent
<1>3. BuriedOnce'
  BY DEF Publish, NewRow, BlanksAgree, BuriedOnce, Sure, EventOf, ObsRowRecord, DrainRecord,
         DlqRecord, Present, LettersArePresent
<1>4. FailedIsKept'
  BY DEF Publish, NewRow, BlanksAgree, FailedIsKept, Sure, EventOf, ObsRowRecord, DrainRecord,
         DlqRecord
<1>5. CountedIsSent'
  BY DEF Publish, NewRow, CountedIsSent, ProcessedArePresent, Sure, EventOf, ObsRowRecord, Present,
         BlanksAgree, HandAlone, DrainRecord
<1>6. ReplayAlone'
  BY DEF Publish, NewRow, ReplayAlone, LettersArePresent, Sure, EventOf, ObsRowRecord, DlqRecord,
         ReplayRecord, Present, BlanksAgree
<1>7. OneOpenRow'
  BY DEF Publish, NewRow, OneOpenRow, Superseded, BlanksAgree, Sure, EventOf, ObsRowRecord,
         DlqRecord, ReplayRecord
<1> QED
  BY <1>1, <1>2, <1>3, <1>4, <1>5, <1>6, <1>7

\* A stale row returns to the queue: its holder, if there is one, was overtaken.
LEMMA OnceRequeueObs ==
  ASSUME OnceInv, NEW d \in Drainers, RequeueObs(d)
  PROVE  OncePaths'
<1> USE ObsConstants DEF OnceInv, OncePaths, ObsInv, ObsTypes
<1>1. BlanksAgree'
  BY DEF RequeueObs, ObsStale, ObsHolder, BlanksAgree, Present, EventOf, ObsRowRecord, DrainRecord,
         DlqRecord, ReplayRecord
<1>2. HandAlone'
  BY DEF RequeueObs, ObsStale, ObsHolder, BlanksAgree, HandAlone, Sure, EventOf, ObsRowRecord,
         DrainRecord
<1>3. BuriedOnce'
  BY DEF RequeueObs, ObsStale, ObsHolder, BlanksAgree, BuriedOnce, Sure, EventOf, ObsRowRecord,
         DrainRecord, DlqRecord
<1>4. FailedIsKept'
  BY DEF RequeueObs, ObsStale, ObsHolder, BlanksAgree, FailedIsKept, Sure, EventOf, ObsRowRecord,
         DrainRecord, DlqRecord
<1>5. CountedIsSent'
  BY DEF RequeueObs, ObsStale, ObsHolder, CountedIsSent, ProcessedArePresent, Sure, EventOf,
         ObsRowRecord
<1>6. ReplayAlone'
  <2>1. \A p \in Replayers : replay[p].pc # "idle" => dlq[replay[p].letter].row \in ObsRows
    BY DEF LettersArePresent
  <2>2. \A q \in ObsRows : Sure(q)' => Sure(q)
    BY DEF RequeueObs, Sure, EventOf, ObsRowRecord
  <2> QED
    BY <2>1, <2>2 DEF RequeueObs, ReplayAlone
<1>7. OneOpenRow'
  BY DEF RequeueObs, ObsStale, ObsHolder, OneOpenRow, Superseded, BlanksAgree, Sure, EventOf,
         ObsRowRecord, DlqRecord, ReplayRecord
<1> QED
  BY <1>1, <1>2, <1>3, <1>4, <1>5, <1>6, <1>7

\* A worker reads the next batch.
LEMMA OnceListPending ==
  ASSUME OnceInv, NEW d \in Drainers, ListPending(d)
  PROVE  OncePaths'
<1> USE ObsConstants DEF OnceInv, OncePaths, ObsInv, ObsTypes
<1>1. BlanksAgree'
  BY DEF ListPending, BlanksAgree, Present, EventOf, ObsRowRecord, DrainRecord, DlqRecord,
         ReplayRecord
<1>2. HandAlone'
  BY DEF ListPending, BlanksAgree, HandAlone, Sure, EventOf, ObsRowRecord, DrainRecord
<1>3. BuriedOnce'
  BY DEF ListPending, BlanksAgree, BuriedOnce, Sure, EventOf, ObsRowRecord, DrainRecord, DlqRecord
<1>4. FailedIsKept'
  BY DEF ListPending, BlanksAgree, FailedIsKept, Sure, EventOf, ObsRowRecord, DrainRecord, DlqRecord
<1>5. CountedIsSent'
  BY DEF ListPending, CountedIsSent, ProcessedArePresent, Sure, EventOf, ObsRowRecord
<1>6. ReplayAlone'
  BY DEF ListPending, ReplayAlone, LettersArePresent, Sure, EventOf, ObsRowRecord, DlqRecord,
         ReplayRecord
<1>7. OneOpenRow'
  BY DEF ListPending, OneOpenRow, Superseded, BlanksAgree, Sure, EventOf, ObsRowRecord, DlqRecord,
         ReplayRecord
<1> QED
  BY <1>1, <1>2, <1>3, <1>4, <1>5, <1>6, <1>7

\* A claim of a pending row takes it into one pair of hands; any other claim skips it.
LEMMA OnceClaimObs ==
  ASSUME OnceInv, NEW d \in Drainers, NEW r \in ObsRows, NEW n \in 0..ObsMaxAttempts, ClaimObs(d, r, n)
  PROVE  OncePaths'
<1>1. /\ drain[d].pc = "next" /\ r \in ObsRows
      /\ UNCHANGED <<processed, counted, dlq, replay, obsStalls, doubtful>>
      /\ drain \in [Drainers -> DrainRecord] /\ obsRow \in [ObsRows -> ObsRowRecord]
      /\ drain[d].row = NoObs /\ r # NoObs
  BY ObsConstants DEF ClaimObs, OnceInv, OncePaths, BlanksAgree, ObsInv, ObsTypes
<1>2. CASE obsRow[r].status = "pending"
  <2>1. /\ drain'[d].row = r /\ drain'[d].pc = "apply"
        /\ \A c \in Drainers \ {d} : drain'[c] = drain[c]
        /\ obsRow'[r].status = "processing"
        /\ \A q \in ObsRows : obsRow'[q].event = obsRow[q].event /\ (q # r => obsRow'[q] = obsRow[q])
    BY <1>1, <1>2 DEF ClaimObs, MarkProcessing, DrainRecord, ObsRowRecord
  <2>2. \A c \in Drainers : drain[c].row = r => ~Sure(r)
    BY <1>1, <1>2 DEF OnceInv, OncePaths, HandAlone
  <2>3. \A i \in DlqIds : dlq[i].row = r => ~Sure(r)
    BY <1>1, <1>2 DEF OnceInv, OncePaths, BuriedOnce
  <2>4. \A q \in ObsRows : Sure(q)' <=> Sure(q)
    BY <1>1, <2>1 DEF Sure, EventOf
  <2>5. /\ \A c \in Drainers : drain[c].row \in ObsRows \cup {NoObs}
        /\ \A i \in DlqIds : dlq[i].row \in ObsRows \cup {NoObs}
        /\ \A i \in DlqIds : dlq[i].status # "absent" => dlq[i].row \in ObsRows
        /\ \A p \in Replayers : replay[p].pc # "idle" =>
              replay[p].letter \in DlqIds /\ dlq[replay[p].letter].row \in ObsRows
        /\ processed \subseteq ObsRows
    BY <1>1 DEF OnceInv, ObsInv, ObsTypes, DrainRecord, DlqRecord, LettersArePresent
  <2>6. BlanksAgree'
    BY <1>1, <1>2, <2>1 DEF OnceInv, OncePaths, BlanksAgree, Present, EventOf
  <2>7. HandAlone'
    BY <1>1, <1>2, <2>1, <2>2, <2>4, <2>5 DEF OnceInv, OncePaths, HandAlone
  <2>8. BuriedOnce'
    BY <1>1, <1>2, <2>1, <2>3, <2>4, <2>5 DEF OnceInv, OncePaths, BuriedOnce
  <2>9. FailedIsKept'
    <3> SUFFICES ASSUME NEW q \in ObsRows, obsRow'[q].status = "failed", Sure(q)'
                 PROVE  \/ \E i \in DlqIds : dlq'[i].row = q
                        \/ \E c \in Drainers : drain'[c].pc = "bury" /\ drain'[c].row = q
      BY DEF FailedIsKept
    <3> QED
      BY <1>1, <1>2, <2>1, <2>4, <2>5 DEF OnceInv, OncePaths, FailedIsKept
  <2>10. CountedIsSent'
    BY <1>1, <1>2, <2>1, <2>4, <2>5 DEF OnceInv, OncePaths, CountedIsSent
  <2>11. ReplayAlone'
    BY <1>1, <2>4, <2>5 DEF OnceInv, OncePaths, ReplayAlone
  <2>12. OneOpenRow'
    BY <1>1, <2>1, <2>4 DEF OnceInv, OncePaths, OneOpenRow, Superseded, EventOf
  <2> QED
    BY <2>6, <2>7, <2>8, <2>9, <2>10, <2>11, <2>12 DEF OncePaths
<1>3. CASE obsRow[r].status # "pending"
  <2>1. /\ \A c \in Drainers : drain'[c].row = drain[c].row /\ drain'[c].pc = drain[c].pc
        /\ UNCHANGED obsRow
    BY <1>1, <1>3 DEF ClaimObs, MarkProcessing, DrainRecord
  <2> QED
    BY <1>1, <2>1, OnceKept
<1> QED
  BY <1>2, <1>3

\* A worker with nothing left to do.
LEMMA OnceDrainDone ==
  ASSUME OnceInv, NEW d \in Drainers, DrainDone(d)
  PROVE  OncePaths'
<1> USE ObsConstants DEF OnceInv, OncePaths, ObsInv, ObsTypes
<1>1. BlanksAgree'
  BY DEF DrainDone, IdleDrain, BlanksAgree, Present, EventOf, ObsRowRecord, DrainRecord, DlqRecord,
         ReplayRecord
<1>2. HandAlone'
  BY DEF DrainDone, IdleDrain, BlanksAgree, HandAlone, Sure, EventOf, ObsRowRecord, DrainRecord
<1>3. BuriedOnce'
  BY DEF DrainDone, IdleDrain, BlanksAgree, BuriedOnce, Sure, EventOf, ObsRowRecord, DrainRecord,
         DlqRecord
<1>4. FailedIsKept'
  BY DEF DrainDone, IdleDrain, BlanksAgree, FailedIsKept, Sure, EventOf, ObsRowRecord, DrainRecord,
         DlqRecord
<1>5. CountedIsSent'
  BY DEF DrainDone, IdleDrain, CountedIsSent, ProcessedArePresent, Sure, EventOf, ObsRowRecord
<1>6. ReplayAlone'
  BY DEF DrainDone, IdleDrain, ReplayAlone, LettersArePresent, Sure, EventOf, ObsRowRecord,
         DlqRecord, ReplayRecord
<1>7. OneOpenRow'
  BY DEF DrainDone, IdleDrain, OneOpenRow, Superseded, BlanksAgree, Sure, EventOf, ObsRowRecord,
         DlqRecord, ReplayRecord
<1> QED
  BY <1>1, <1>2, <1>3, <1>4, <1>5, <1>6, <1>7

\* The rollups and the row change together.
LEMMA OnceApply ==
  ASSUME OnceInv, NEW d \in Drainers, ApplyAndSend(d)
  PROVE  OncePaths'
<1> USE ObsConstants DEF OnceInv, OncePaths, ObsInv, ObsTypes
<1>1. BlanksAgree'
  BY DEF ApplyAndSend, NextInBatch, BlanksAgree, Present, EventOf, ObsRowRecord, DrainRecord,
         DlqRecord, ReplayRecord
<1>2. HandAlone'
  BY DEF ApplyAndSend, NextInBatch, BlanksAgree, HandAlone, Sure, EventOf, ObsRowRecord, DrainRecord
<1>3. BuriedOnce'
  BY DEF ApplyAndSend, NextInBatch, BlanksAgree, BuriedOnce, Sure, EventOf, ObsRowRecord,
         DrainRecord, DlqRecord
<1>4. FailedIsKept'
  BY DEF ApplyAndSend, NextInBatch, BlanksAgree, FailedIsKept, Sure, EventOf, ObsRowRecord,
         DrainRecord, DlqRecord
<1>5. CountedIsSent'
  BY DEF ApplyAndSend, NextInBatch, CountedIsSent, ProcessedArePresent, Sure, EventOf,
         ObsRowRecord, Present, BlanksAgree, HandAlone, DrainRecord
<1>6. ReplayAlone'
  BY DEF ApplyAndSend, NextInBatch, ReplayAlone, LettersArePresent, Sure, EventOf, ObsRowRecord,
         DlqRecord, ReplayRecord
<1>7. OneOpenRow'
  BY DEF ApplyAndSend, NextInBatch, OneOpenRow, Superseded, BlanksAgree, Sure, EventOf,
         ObsRowRecord, DlqRecord, ReplayRecord
<1> QED
  BY <1>1, <1>2, <1>3, <1>4, <1>5, <1>6, <1>7

\* A failed transaction leaves the row in hand.
LEMMA OnceApplyFails ==
  ASSUME OnceInv, NEW d \in Drainers, ApplyFails(d)
  PROVE  OncePaths'
<1> USE ObsConstants DEF OnceInv, OncePaths, ObsInv, ObsTypes
<1>1. BlanksAgree'
  BY DEF ApplyFails, BlanksAgree, Present, EventOf, ObsRowRecord, DrainRecord, DlqRecord,
         ReplayRecord
<1>2. HandAlone'
  BY DEF ApplyFails, BlanksAgree, HandAlone, Sure, EventOf, ObsRowRecord, DrainRecord
<1>3. BuriedOnce'
  BY DEF ApplyFails, BlanksAgree, BuriedOnce, Sure, EventOf, ObsRowRecord, DrainRecord, DlqRecord
<1>4. FailedIsKept'
  BY DEF ApplyFails, BlanksAgree, FailedIsKept, Sure, EventOf, ObsRowRecord, DrainRecord, DlqRecord
<1>5. CountedIsSent'
  BY DEF ApplyFails, CountedIsSent, ProcessedArePresent, Sure, EventOf, ObsRowRecord
<1>6. ReplayAlone'
  BY DEF ApplyFails, ReplayAlone, LettersArePresent, Sure, EventOf, ObsRowRecord, DlqRecord,
         ReplayRecord
<1>7. OneOpenRow'
  BY DEF ApplyFails, OneOpenRow, Superseded, BlanksAgree, Sure, EventOf, ObsRowRecord, DlqRecord,
         ReplayRecord
<1> QED
  BY <1>1, <1>2, <1>3, <1>4, <1>5, <1>6, <1>7

\* The row returns to the queue, or its attempts are spent and it goes to the letters.
LEMMA OnceMarkObsFailed ==
  ASSUME OnceInv, NEW d \in Drainers, MarkObsFailed(d)
  PROVE  OncePaths'
<1> DEFINE r == drain[d].row
           n == drain[d].seen + 1
<1>1. /\ drain[d].pc = "mark_failed" /\ r \in ObsRows /\ r # NoObs
      /\ UNCHANGED <<processed, counted, dlq, replay, obsStalls, doubtful>>
      /\ drain \in [Drainers -> DrainRecord] /\ obsRow \in [ObsRows -> ObsRowRecord]
  BY ObsConstants DEF MarkObsFailed, OnceInv, OncePaths, BlanksAgree, ObsInv, ObsTypes, DrainRecord
<1>2. /\ \A c \in Drainers \ {d} : drain'[c] = drain[c]
      /\ \A q \in ObsRows : obsRow'[q].event = obsRow[q].event /\ (q # r => obsRow'[q] = obsRow[q])
      /\ obsRow'[r].status \in {"failed", "pending"}
      /\ obsRow'[r].status = "failed" => drain'[d].pc = "bury" /\ drain'[d].row = r
      /\ obsRow'[r].status = "pending" => drain'[d].pc = "next" /\ drain'[d].row = NoObs
  <2>1. \A c \in Drainers \ {d} : drain'[c] = drain[c]
    BY <1>1 DEF MarkObsFailed, NextInBatch
  <2>2. /\ \A q \in ObsRows : obsRow'[q].event = obsRow[q].event /\ (q # r => obsRow'[q] = obsRow[q])
        /\ obsRow'[r].status = IF n >= ObsMaxAttempts THEN "failed" ELSE "pending"
    BY <1>1 DEF MarkObsFailed, GivesUp, EventOf, ObsRowRecord
  <2>3. CASE n >= ObsMaxAttempts
    BY <1>1, <2>1, <2>2, <2>3 DEF MarkObsFailed, DrainRecord
  <2>4. CASE ~(n >= ObsMaxAttempts)
    BY <1>1, <2>1, <2>2, <2>4 DEF MarkObsFailed, NextInBatch, DrainRecord
  <2> QED
    BY <2>1, <2>2, <2>3, <2>4
<1>3. /\ \A c \in Drainers : drain[c].row = r /\ Sure(r) => c = d
      /\ \A i \in DlqIds : dlq[i].row = r => ~Sure(r)
      /\ Sure(r) => obsRow[r].status = "processing" /\ r \notin processed
  BY <1>1 DEF OnceInv, OncePaths, HandAlone, BuriedOnce, CountedIsSent
<1>4. \A q \in ObsRows : Sure(q)' <=> Sure(q)
  BY <1>1, <1>2 DEF Sure, EventOf
<1>5. /\ \A c \in Drainers : drain[c].row \in ObsRows \cup {NoObs}
      /\ \A i \in DlqIds : dlq[i].row \in ObsRows \cup {NoObs}
      /\ \A p \in Replayers : replay[p].pc # "idle" =>
            replay[p].letter \in DlqIds /\ dlq[replay[p].letter].row \in ObsRows
      /\ processed \subseteq ObsRows /\ NoObs \notin ObsRows
  BY <1>1, ObsConstants DEF OnceInv, ObsInv, ObsTypes, DrainRecord, DlqRecord, LettersArePresent
<1> HIDE DEF n, r
<1>6. BlanksAgree'
  BY <1>1, <1>2 DEF OnceInv, OncePaths, BlanksAgree, Present, EventOf
<1>7. HandAlone'
  BY <1>1, <1>2, <1>3, <1>4, <1>5 DEF OnceInv, OncePaths, HandAlone
<1>8. BuriedOnce'
  BY <1>1, <1>2, <1>3, <1>4, <1>5 DEF OnceInv, OncePaths, BuriedOnce
<1>9. FailedIsKept'
  <2> SUFFICES ASSUME NEW q \in ObsRows, obsRow'[q].status = "failed", Sure(q)'
               PROVE  \/ \E i \in DlqIds : dlq'[i].row = q
                      \/ \E c \in Drainers : drain'[c].pc = "bury" /\ drain'[c].row = q
    BY DEF FailedIsKept
  <2>1. CASE q = r
    BY <1>2, <2>1
  <2>2. CASE q # r
    <3>1. \/ \E i \in DlqIds : dlq[i].row = q
          \/ \E c \in Drainers : drain[c].pc = "bury" /\ drain[c].row = q
      BY <1>2, <1>4, <2>2 DEF OnceInv, OncePaths, FailedIsKept
    <3> QED
      BY <1>1, <1>2, <2>2, <3>1 DEF r
  <2> QED
    BY <2>1, <2>2
<1>10. CountedIsSent'
  BY <1>1, <1>2, <1>3, <1>4, <1>5 DEF OnceInv, OncePaths, CountedIsSent
<1>11. ReplayAlone'
  BY <1>1, <1>4, <1>5 DEF OnceInv, OncePaths, ReplayAlone
<1>12. OneOpenRow'
  BY <1>1, <1>2, <1>4 DEF OnceInv, OncePaths, OneOpenRow, Superseded, EventOf
<1> QED
  BY <1>6, <1>7, <1>8, <1>9, <1>10, <1>11, <1>12 DEF OncePaths

\* A row that was given up gets its letter.
LEMMA OnceBury ==
  ASSUME OnceInv, NEW d \in Drainers, NEW i \in DlqIds, Bury(d, i)
  PROVE  OncePaths'
<1> USE ObsConstants DEF OnceInv, OncePaths, ObsInv, ObsTypes
<1>1. BlanksAgree'
  BY DEF Bury, NextInBatch, BlanksAgree, Present, EventOf, ObsRowRecord, DrainRecord, DlqRecord,
         ReplayRecord
<1>2. HandAlone'
  BY DEF Bury, NextInBatch, BlanksAgree, HandAlone, Sure, EventOf, ObsRowRecord, DrainRecord
<1>3. BuriedOnce'
  <2>1. /\ drain[d].row \in ObsRows /\ drain[d].row # NoObs
        /\ dlq'[i].row = drain[d].row /\ \A j \in DlqIds \ {i} : dlq'[j] = dlq[j]
        /\ drain'[d].row = NoObs /\ \A c \in Drainers \ {d} : drain'[c] = drain[c]
        /\ UNCHANGED <<obsRow, doubtful>>
    BY DEF Bury, NextInBatch, BlanksAgree, DrainRecord, DlqRecord
  <2>2. /\ drain[d].pc = "bury"
        /\ \A j \in DlqIds : dlq[j].row = drain[d].row => ~Sure(drain[d].row)
        /\ Sure(drain[d].row) => obsRow[drain[d].row].status = "failed"
        /\ Sure(drain[d].row) => \A c \in Drainers : drain[c].row = drain[d].row => c = d
    BY <2>1 DEF Bury, BuriedOnce, HandAlone
  <2>3. \A q \in ObsRows : Sure(q)' <=> Sure(q)
    BY <2>1 DEF Sure, EventOf
  <2>4. \A j \in DlqIds : dlq[j].row \in ObsRows \cup {NoObs}
    BY DEF DlqRecord
  <2> QED
    BY <2>1, <2>2, <2>3, <2>4 DEF BuriedOnce
<1>4. FailedIsKept'
  BY DEF Bury, NextInBatch, BlanksAgree, FailedIsKept, Sure, EventOf, ObsRowRecord, DrainRecord,
         DlqRecord
<1>5. CountedIsSent'
  BY DEF Bury, NextInBatch, CountedIsSent, ProcessedArePresent, Sure, EventOf, ObsRowRecord
<1>6. ReplayAlone'
  BY DEF Bury, NextInBatch, ReplayAlone, LettersArePresent, Sure, EventOf, ObsRowRecord, DlqRecord,
         ReplayRecord
<1>7. OneOpenRow'
  <2>1. \A q \in ObsRows : Superseded(q) => Superseded(q)'
    BY DEF Bury, BlanksAgree, Superseded, ReplayRecord
  <2> QED
    BY <2>1 DEF Bury, OneOpenRow, Sure, EventOf
<1> QED
  BY <1>1, <1>2, <1>3, <1>4, <1>5, <1>6, <1>7

\* A worker hangs with a row, which it still holds, or dies with it: if its letter was not
\* written, the event is doubtful.
LEMMA OnceObsStall ==
  ASSUME OnceInv, NEW d \in Drainers, ObsStall(d)
  PROVE  OncePaths'
<1>1. /\ drain[d].row \in ObsRows /\ drain[d].row # NoObs /\ NoObs \notin ObsRows
      /\ UNCHANGED <<obsRow, processed, counted, dlq, replay>>
      /\ drain \in [Drainers -> DrainRecord]
      /\ drain[d].pc \in {"apply", "mark_failed", "bury"}
  BY ObsConstants DEF ObsStall, OnceInv, OncePaths, BlanksAgree, ObsInv, ObsTypes, DrainRecord
<1>2. CASE drain' = [drain EXCEPT ![d].slow = TRUE] /\ UNCHANGED doubtful
  <2>1. \A c \in Drainers : drain'[c].row = drain[c].row /\ drain'[c].pc = drain[c].pc
    BY <1>1, <1>2 DEF DrainRecord
  <2> QED
    BY <1>1, <1>2, <2>1, OnceKept
<1>3. CASE /\ drain' = [drain EXCEPT ![d] = IdleDrain]
           /\ doubtful' = IF drain[d].pc = "bury" THEN doubtful \cup {EventOf(drain[d].row)}
                           ELSE doubtful
  <2>1. /\ drain'[d].row = NoObs /\ drain'[d].pc = "idle"
        /\ \A c \in Drainers \ {d} : drain'[c] = drain[c]
    BY <1>1, <1>3 DEF IdleDrain
  <2>2. /\ \A q \in ObsRows : Sure(q)' => Sure(q)
        /\ drain[d].pc = "bury" => \A q \in ObsRows : q = drain[d].row => ~Sure(q)'
    BY <1>1, <1>3 DEF Sure, EventOf
  <2>3. /\ \A c \in Drainers : drain[c].row \in ObsRows \cup {NoObs}
        /\ \A i \in DlqIds : dlq[i].row \in ObsRows \cup {NoObs}
        /\ \A p \in Replayers : replay[p].pc # "idle" => dlq[replay[p].letter].row \in ObsRows
        /\ processed \subseteq ObsRows
    BY <1>1 DEF OnceInv, ObsInv, ObsTypes, DrainRecord, DlqRecord, LettersArePresent
  <2>4. BlanksAgree' /\ HandAlone' /\ BuriedOnce'
    BY <1>1, <2>1, <2>2, <2>3
    DEF OnceInv, OncePaths, BlanksAgree, HandAlone, BuriedOnce, Present, EventOf
  <2>5. FailedIsKept'
    <3> SUFFICES ASSUME NEW q \in ObsRows, obsRow[q].status = "failed", Sure(q)'
                 PROVE  \/ \E i \in DlqIds : dlq[i].row = q
                        \/ \E c \in Drainers : drain'[c].pc = "bury" /\ drain'[c].row = q
      BY <1>1 DEF FailedIsKept
    <3>1. \/ \E i \in DlqIds : dlq[i].row = q
          \/ \E c \in Drainers : drain[c].pc = "bury" /\ drain[c].row = q
      BY <2>2 DEF OnceInv, OncePaths, FailedIsKept
    <3> QED
      BY <2>1, <2>2, <3>1
  <2>6. CountedIsSent' /\ ReplayAlone' /\ OneOpenRow'
    BY <1>1, <2>2, <2>3
    DEF OnceInv, OncePaths, CountedIsSent, ReplayAlone, OneOpenRow, Superseded, EventOf
  <2> QED
    BY <2>4, <2>5, <2>6 DEF OncePaths
<1> QED
  BY <1>2, <1>3 DEF ObsStall

\* A replay takes a pending letter; with a second replay the event becomes doubtful.
LEMMA OnceReadLetter ==
  ASSUME OnceInv, NEW p \in Replayers, NEW i \in DlqIds, ReadLetter(p, i)
  PROVE  OncePaths'
<1> USE ObsConstants DEF OnceInv, OncePaths, ObsInv, ObsTypes
<1>1. BlanksAgree'
  BY DEF ReadLetter, InReplay, BlanksAgree, Present, EventOf, ObsRowRecord, DrainRecord, DlqRecord,
         ReplayRecord
<1>2. HandAlone'
  BY DEF ReadLetter, InReplay, BlanksAgree, HandAlone, Sure, EventOf, ObsRowRecord, DrainRecord
<1>3. BuriedOnce'
  BY DEF ReadLetter, InReplay, BlanksAgree, BuriedOnce, Sure, EventOf, ObsRowRecord, DrainRecord,
         DlqRecord
<1>4. FailedIsKept'
  BY DEF ReadLetter, InReplay, BlanksAgree, FailedIsKept, Sure, EventOf, ObsRowRecord, DrainRecord,
         DlqRecord
<1>5. CountedIsSent'
  BY DEF ReadLetter, InReplay, CountedIsSent, ProcessedArePresent, Sure, EventOf, ObsRowRecord
<1>6. ReplayAlone'
  BY DEF ReadLetter, InReplay, ReplayAlone, LettersArePresent, Sure, EventOf, ObsRowRecord,
         DlqRecord, ReplayRecord
<1>7. OneOpenRow'
  BY DEF ReadLetter, InReplay, OneOpenRow, Superseded, BlanksAgree, Sure, EventOf, ObsRowRecord,
         DlqRecord, ReplayRecord
<1> QED
  BY <1>1, <1>2, <1>3, <1>4, <1>5, <1>6, <1>7

\* The event of a letter gets a second row, and the first is superseded.
LEMMA OncePublishAgain ==
  ASSUME OnceInv, NEW p \in Replayers, NEW r \in ObsRows, PublishAgain(p, r)
  PROVE  OncePaths'
<1> USE ObsConstants DEF OnceInv, OncePaths, ObsInv, ObsTypes
<1>1. BlanksAgree'
  BY DEF PublishAgain, NewRow, BlanksAgree, Present, EventOf, ObsRowRecord, DrainRecord, DlqRecord,
         ReplayRecord
<1>2. HandAlone'
  BY DEF PublishAgain, NewRow, BlanksAgree, HandAlone, Sure, EventOf, ObsRowRecord, DrainRecord,
         Present, HandsArePresent
<1>3. BuriedOnce'
  BY DEF PublishAgain, NewRow, BlanksAgree, BuriedOnce, Sure, EventOf, ObsRowRecord, DrainRecord,
         DlqRecord, Present, LettersArePresent
<1>4. FailedIsKept'
  BY DEF PublishAgain, NewRow, BlanksAgree, FailedIsKept, Sure, EventOf, ObsRowRecord, DrainRecord,
         DlqRecord
<1>5. CountedIsSent'
  BY DEF PublishAgain, NewRow, CountedIsSent, ProcessedArePresent, Sure, EventOf, ObsRowRecord,
         Present, BlanksAgree, HandAlone, DrainRecord
<1>6. ReplayAlone'
  BY DEF PublishAgain, NewRow, ReplayAlone, LettersArePresent, Sure, EventOf, ObsRowRecord,
         DlqRecord, ReplayRecord, Present, BlanksAgree
<1>7. OneOpenRow'
  <2>0. PICK i \in DlqIds, o \in ObsRows : i = replay[p].letter /\ o = dlq[i].row
    BY DEF PublishAgain, LettersArePresent, Present, EventOf, ObsRowRecord, DlqRecord, ReplayRecord
  <2>1. /\ replay[p].pc = "publish" /\ o # r
        /\ EventOf(r)' = EventOf(o) /\ EventOf(o) # NoObs
        /\ \A q \in ObsRows \ {r} : EventOf(q)' = EventOf(q)
        /\ replay'[p].pc = "mark" /\ replay'[p].letter = i
        /\ \A t \in Replayers \ {p} : replay'[t] = replay[t]
        /\ UNCHANGED <<dlq, doubtful>>
    BY <2>0
    DEF PublishAgain, NewRow, EventOf, Present, ObsRowRecord, ReplayRecord, RowsAreSound,
        BlanksAgree, HandsArePresent, LettersArePresent, ProcessedArePresent
  <2>2. Superseded(o)'
    BY <2>0, <2>1 DEF Superseded
  <2>3. \A q \in ObsRows : Superseded(q) => Superseded(q)'
    BY <2>1 DEF Superseded
  <2>4. Sure(o) => ~Superseded(o)
    <3> SUFFICES ASSUME Sure(o), NEW j \in DlqIds, dlq[j].row = o,
                        \/ dlq[j].status = "replayed"
                        \/ \E t \in Replayers : replay[t].pc = "mark" /\ replay[t].letter = j
                 PROVE  FALSE
      BY DEF Superseded
    <3>1. o # NoObs
      BY <2>1
    <3>2. j = i
      BY <2>0, <3>1 DEF BuriedOnce
    <3>3. dlq[i].status = "pending"
      BY <2>0, <2>1 DEF ReplayAlone
    <3>4. PICK t \in Replayers : replay[t].pc = "mark" /\ replay[t].letter = i
      BY <3>2, <3>3
    <3>5. t = p
      BY <2>0, <2>1, <3>4 DEF ReplayAlone
    <3> QED
      BY <2>1, <3>4, <3>5
  <2>5. SUFFICES ASSUME NEW q \in ObsRows, NEW z \in ObsRows, q # z, EventOf(q)' = EventOf(z)',
                        EventOf(q)' # NoObs, Sure(q)'
                 PROVE  Superseded(q)' \/ Superseded(z)'
    BY DEF OneOpenRow
  <2>6. CASE q # r /\ z # r
    BY <2>1, <2>3, <2>5, <2>6 DEF OneOpenRow, Sure
  <2>7. ASSUME NEW y \in ObsRows, y # r, EventOf(y) = EventOf(o), Sure(o) PROVE Superseded(y)'
    BY <2>1, <2>2, <2>3, <2>4, <2>7 DEF OneOpenRow
  <2>8. CASE q = r
    BY <2>1, <2>5, <2>7, <2>8 DEF Sure
  <2>9. CASE z = r
    BY <2>1, <2>5, <2>7, <2>9 DEF Sure
  <2> QED
    BY <2>6, <2>8, <2>9
<1> QED
  BY <1>1, <1>2, <1>3, <1>4, <1>5, <1>6, <1>7

\* The letter is marked, and the replay lets it go.
LEMMA OnceMarkReplayed ==
  ASSUME OnceInv, NEW p \in Replayers, MarkReplayed(p)
  PROVE  OncePaths'
<1> USE ObsConstants DEF OnceInv, OncePaths, ObsInv, ObsTypes
<1>1. BlanksAgree'
  BY DEF MarkReplayed, IdleReplay, BlanksAgree, Present, EventOf, ObsRowRecord, DrainRecord,
         DlqRecord, ReplayRecord, LettersArePresent
<1>2. HandAlone'
  BY DEF MarkReplayed, IdleReplay, BlanksAgree, HandAlone, Sure, EventOf, ObsRowRecord, DrainRecord
<1>3. BuriedOnce'
  BY DEF MarkReplayed, IdleReplay, BlanksAgree, BuriedOnce, Sure, EventOf, ObsRowRecord,
         DrainRecord, DlqRecord
<1>4. FailedIsKept'
  BY DEF MarkReplayed, IdleReplay, BlanksAgree, FailedIsKept, Sure, EventOf, ObsRowRecord,
         DrainRecord, DlqRecord
<1>5. CountedIsSent'
  BY DEF MarkReplayed, IdleReplay, CountedIsSent, ProcessedArePresent, Sure, EventOf, ObsRowRecord
<1>6. ReplayAlone'
  BY DEF MarkReplayed, IdleReplay, ReplayAlone, LettersArePresent, Sure, EventOf, ObsRowRecord,
         DlqRecord, ReplayRecord
<1>7. OneOpenRow'
  BY DEF MarkReplayed, IdleReplay, OneOpenRow, Superseded, BlanksAgree, Sure, EventOf,
         ObsRowRecord, DlqRecord, ReplayRecord, HandAlone, DrainRecord, LettersArePresent
<1> QED
  BY <1>1, <1>2, <1>3, <1>4, <1>5, <1>6, <1>7

\* A replay dies with its letter: its event is doubtful if it was published.
LEMMA OnceReplayDies ==
  ASSUME OnceInv, NEW p \in Replayers, ReplayDies(p)
  PROVE  OncePaths'
<1> USE ObsConstants DEF OnceInv, OncePaths, ObsInv, ObsTypes
<1>1. BlanksAgree'
  BY DEF ReplayDies, IdleReplay, BlanksAgree, Present, EventOf, ObsRowRecord, DrainRecord,
         DlqRecord, ReplayRecord
<1>2. HandAlone'
  BY DEF ReplayDies, IdleReplay, BlanksAgree, HandAlone, Sure, EventOf, ObsRowRecord, DrainRecord
<1>3. BuriedOnce'
  BY DEF ReplayDies, IdleReplay, BlanksAgree, BuriedOnce, Sure, EventOf, ObsRowRecord, DrainRecord,
         DlqRecord
<1>4. FailedIsKept'
  BY DEF ReplayDies, IdleReplay, BlanksAgree, FailedIsKept, Sure, EventOf, ObsRowRecord,
         DrainRecord, DlqRecord
<1>5. CountedIsSent'
  BY DEF ReplayDies, IdleReplay, CountedIsSent, ProcessedArePresent, Sure, EventOf, ObsRowRecord
<1>6. ReplayAlone'
  BY DEF ReplayDies, IdleReplay, ReplayAlone, LettersArePresent, Sure, EventOf, ObsRowRecord,
         DlqRecord, ReplayRecord
<1>7. OneOpenRow'
  BY DEF ReplayDies, IdleReplay, OneOpenRow, Superseded, BlanksAgree, Sure, EventOf, ObsRowRecord,
         DlqRecord, ReplayRecord
<1> QED
  BY <1>1, <1>2, <1>3, <1>4, <1>5, <1>6, <1>7

\* However rows fail, stall and are replayed, the paths of an event stay apart.
LEMMA OnceKeeps == OnceInv /\ [ObsNext]_obsVars => OncePaths'
<1> SUFFICES ASSUME OnceInv, [ObsNext]_obsVars PROVE OncePaths'
  OBVIOUS
<1>1. ASSUME NEW r \in ObsRows, NEW e \in ObsEvents, Publish(r, e) PROVE OncePaths'
  BY <1>1, OncePublish
<1>2. ASSUME NEW d \in Drainers, DrainStep(d) PROVE OncePaths'
  BY <1>2, OnceRequeueObs, OnceListPending, OnceClaimObs, OnceDrainDone, OnceApply,
     OnceApplyFails, OnceMarkObsFailed, OnceBury
  DEF DrainStep
<1>3. ASSUME NEW d \in Drainers, ObsStall(d) PROVE OncePaths'
  BY <1>3, OnceObsStall
<1>4. ASSUME NEW p \in Replayers, ReplayStep(p) PROVE OncePaths'
  BY <1>4, OnceReadLetter, OncePublishAgain, OnceMarkReplayed, OnceReplayDies DEF ReplayStep
<1>5. CASE UNCHANGED obsVars
  BY <1>5, OnceKept DEF obsVars
<1> QED
  BY <1>1, <1>2, <1>3, <1>4, <1>5 DEF ObsNext

\* Of the rows of an event that nobody was overtaken with, at most one was counted.
LEMMA OnceCounts == OnceInv => EventCountedOnce
<1> SUFFICES ASSUME OnceInv, NEW e \in ObsEvents \ doubtful PROVE counted[e] <= 1
  BY DEF EventCountedOnce
<1> DEFINE S == {r \in processed : EventOf(r) = e}
<1>1. counted[e] = Cardinality(S) /\ processed \subseteq ObsRows
  BY DEF OnceInv, ObsInv, ObsTypes, RowCountedOnce
<1>2. \A q \in ObsRows : Sure(q) /\ Superseded(q) => q \notin processed
  <2> SUFFICES ASSUME NEW q \in ObsRows, Sure(q), q \in processed, NEW i \in DlqIds, dlq[i].row = q
               PROVE  FALSE
    BY DEF Superseded
  <2>1. obsRow[q].status = "sent"
    BY DEF OnceInv, OncePaths, CountedIsSent
  <2>2. obsRow[q].status = "failed"
    BY ObsConstants DEF OnceInv, OncePaths, BuriedOnce
  <2> QED
    BY <2>1, <2>2
<1>3. \A q, r \in S : q = r
  BY <1>1, <1>2, ObsConstants DEF OnceInv, OncePaths, OneOpenRow, Sure
<1>4. S = {} \/ \E q : S = {q}
  BY <1>3
<1>5. Cardinality(S) <= 1
  <2>1. CASE S = {}
    BY <2>1, FS_EmptySet
  <2>2. ASSUME NEW q, S = {q} PROVE Cardinality(S) <= 1
    BY <2>2, FS_Singleton
  <2> QED
    BY <1>4, <2>1, <2>2
<1> QED
  BY <1>1, <1>5

\* The invariant of an event's paths, for any number of workers, rows and replays.
THEOREM OnceInvariant == ObsSpec => []OnceInv
<1>1. OnceInv /\ [ObsNext]_obsVars /\ ObsInv' => OnceInv'
  BY OnceKeeps DEF OnceInv
<1> QED
  BY <1>1, OnceStart, ObsInvariant, PTL DEF ObsSpec

\* A row that was given up waits in the dead-letter queue, once, and was not counted
\* (ObservabilityWorker, recordPlatformDlqEvent).
LEMMA OnceBuried == OnceInv => GivenUpIsBuried
<1> SUFFICES ASSUME OnceInv, NEW r \in ObsRows, EventOf(r) \notin doubtful
             PROVE  LET buried == \E i \in DlqIds : dlq[i].row = r
                        burying == \E d \in Drainers : drain[d].pc = "bury" /\ drain[d].row = r
                    IN  /\ (obsRow[r].status = "failed") = (buried \/ burying)
                        /\ buried => r \notin processed
  BY DEF GivenUpIsBuried
<1>1. Sure(r) /\ r # NoObs
  BY ObsConstants DEF Sure
<1>2. ASSUME NEW i \in DlqIds, dlq[i].row = r PROVE obsRow[r].status = "failed" /\ r \notin processed
  BY <1>1, <1>2 DEF OnceInv, OncePaths, BuriedOnce, CountedIsSent
<1>3. ASSUME NEW d \in Drainers, drain[d].pc = "bury", drain[d].row = r PROVE obsRow[r].status = "failed"
  BY <1>1, <1>3 DEF OnceInv, OncePaths, HandAlone
<1>4. obsRow[r].status = "failed" => \/ \E i \in DlqIds : dlq[i].row = r
                                     \/ \E d \in Drainers : drain[d].pc = "bury" /\ drain[d].row = r
  BY <1>1 DEF OnceInv, OncePaths, FailedIsKept
<1> QED
  BY <1>2, <1>3, <1>4

\* The projection counts each row and each event at most once, and the dead-letter
\* queue keeps exactly what was given up, unless a worker or a replay was overtaken
\* (ObservabilityWorker.flushInternal, replayPlatformDlqEvent).
THEOREM ProjectionHolds == ObsSpec => []CountedOnce
<1>1. OnceInv => EventCountedOnce /\ GivenUpIsBuried
  BY OnceCounts, OnceBuried
<1> QED
  BY <1>1, OnceInvariant, ObsTyped, RowsCountOnce, PTL DEF CountedOnce
=============================================================================
