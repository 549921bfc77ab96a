---------------------------- MODULE BillingOutbox ----------------------------
(***************************************************************************)
(* The outbox of metered usage (src/src/billing/billing-outbox.ts): events *)
(* are stored under an idempotency key and reported to Stripe by periodic  *)
(* flushes that run in every API replica on one table.  A flush may stall  *)
(* or die between any two of its steps; rows it left behind are requeued   *)
(* after five minutes.                                                     *)
(***************************************************************************)
EXTENDS Naturals, FiniteSets

CONSTANTS
    MeterEvents,   \* calls of enqueue
    Sources,       \* what events are derived from (message, simulation)
    SourceOf,      \* MeterEvents -> Sources: the idempotency key of each
    Flushers,      \* replicas that flush
    NoSource,
    MaxAttempts,   \* MAX_ATTEMPTS
    MaxStalls      \* bound of the model: flushes that stall or die

ASSUME OutboxAssumption ==
    /\ SourceOf \in [MeterEvents -> Sources]
    /\ NoSource \notin Sources
    /\ MaxAttempts \in Nat \ {0} /\ MaxStalls \in Nat

VARIABLES
    outbox,     \* billing_outbox: status and attempts of each key
    flush,      \* where each flusher is: its batch and the row it reports
    reported,   \* Stripe: keys accepted
    stalls,     \* flushes that stalled so far
    overtaken   \* history: rows requeued while their flusher had them

outboxVars == <<outbox, flush, reported, stalls, overtaken>>

OutboxStatus == {"absent", "pending", "processing", "sent", "failed"}
IdleFlush == [pc |-> "idle", batch |-> {}, row |-> NoSource, slow |-> FALSE]

OutboxInit ==
    /\ outbox = [s \in Sources |-> [status |-> "absent", attempts |-> 0]]
    /\ flush = [f \in Flushers |-> IdleFlush]
    /\ reported = {}
    /\ stalls = 0
    /\ overtaken = {}

\* INSERT ... ON CONFLICT(idempotency_key) DO NOTHING
FirstOfKey(e) == outbox[SourceOf[e]].status = "absent"
Enqueue(e) ==
    /\ FirstOfKey(e)
    /\ outbox' = [outbox EXCEPT ![SourceOf[e]] = [status |-> "pending", attempts |-> 0]]
    /\ UNCHANGED <<flush, reported, stalls, overtaken>>

\* requeueStale: rows whose claim is older than five minutes, that is, of a
\* flusher that stalled or died.
Holder(s) == {f \in Flushers : flush[f].row = s}
Stale_NoClaimTime(s) == FALSE
Stale(s) ==
    /\ outbox[s].status = "processing"
    /\ \A f \in Holder(s) : flush[f].slow

RequeueStale(f) ==
    LET S == {s \in Sources : Stale(s)} IN
    /\ flush[f].pc = "idle"
    /\ outbox' = [s \in Sources |-> IF s \in S THEN [outbox[s] EXCEPT !.status = "pending"]
                                               ELSE outbox[s]]
    /\ overtaken' = overtaken \cup {s \in S : Holder(s) # {}}
    /\ flush' = [flush EXCEPT ![f].pc = "fetch"]
    /\ UNCHANGED <<reported, stalls>>

\* boutboxQueryPending
Selectable(s) == outbox[s].status = "pending" /\ outbox[s].attempts < MaxAttempts
FetchPending(f) ==
    /\ flush[f].pc = "fetch"
    /\ flush' = [flush EXCEPT ![f] = [@ EXCEPT !.pc = "next",
                                              !.batch = {s \in Sources : Selectable(s)}]]
    /\ UNCHANGED <<outbox, reported, stalls, overtaken>>

\* UPDATE ... SET status = 'processing' WHERE id = ? AND status = 'pending'
Claimable_AnyStatus(s) == TRUE
Claimable(s) == outbox[s].status = "pending"

ClaimRow(f, s) ==
    /\ flush[f].pc = "next"
    /\ s \in flush[f].batch
    /\ IF Claimable(s)
       THEN /\ outbox' = [outbox EXCEPT ![s].status = "processing"]
            /\ flush' = [flush EXCEPT ![f] = [pc |-> "report", row |-> s, slow |-> @.slow,
                                              batch |-> @.batch \ {s}]]
       ELSE flush' = [flush EXCEPT ![f].batch = @ \ {s}] /\ UNCHANGED outbox
    /\ UNCHANGED <<reported, stalls, overtaken>>

FlushDone(f) ==
    /\ flush[f].pc = "next"
    /\ flush[f].batch = {}
    /\ flush' = [flush EXCEPT ![f] = IdleFlush]
    /\ UNCHANGED <<outbox, reported, stalls, overtaken>>

AfterReport(error) == IF error THEN "mark_failed" ELSE "mark_sent"

\* reportUsage: accepted, or an error - also after Stripe has accepted.
ReportUsage(f, accepted, error) ==
    /\ flush[f].pc = "report"
    /\ accepted \/ error
    /\ reported' = IF accepted THEN reported \cup {flush[f].row} ELSE reported
    /\ flush' = [flush EXCEPT ![f].pc = AfterReport(error)]
    /\ UNCHANGED <<outbox, stalls, overtaken>>

\* markSent and markFailed name the row by its id, whatever became of it.
NextRow(f) == flush' = [flush EXCEPT ![f] = [@ EXCEPT !.pc = "next", !.row = NoSource,
                                                     !.slow = FALSE]]

MarkSent(f) ==
    /\ flush[f].pc = "mark_sent"
    /\ outbox' = [outbox EXCEPT ![flush[f].row].status = "sent"]
    /\ NextRow(f)
    /\ UNCHANGED <<reported, stalls, overtaken>>

AfterFailure(n) == IF n >= MaxAttempts THEN "failed" ELSE "pending"

MarkFailed(f) ==
    LET s == flush[f].row
        n == outbox[s].attempts + 1 IN
    /\ flush[f].pc = "mark_failed"
    /\ outbox' = [outbox EXCEPT ![s] = [status |-> AfterFailure(n), attempts |-> n]]
    /\ NextRow(f)
    /\ UNCHANGED <<reported, stalls, overtaken>>

\* A flusher hangs in a row for more than five minutes, or dies with it.
Stall(f) ==
    /\ stalls < MaxStalls
    /\ flush[f].row # NoSource
    /\ ~flush[f].slow
    /\ stalls' = stalls + 1
    /\ \/ flush' = [flush EXCEPT ![f].slow = TRUE]
       \/ flush' = [flush EXCEPT ![f] = IdleFlush]
    /\ UNCHANGED <<outbox, reported, overtaken>>

FlushStep(f) ==
    \/ RequeueStale(f) \/ FetchPending(f) \/ FlushDone(f)
    \/ \E s \in flush[f].batch : ClaimRow(f, s)
    \/ \E accepted, error \in BOOLEAN : ReportUsage(f, accepted, error)
    \/ MarkSent(f) \/ MarkFailed(f)

OutboxNext ==
    \/ \E e \in MeterEvents : Enqueue(e)
    \/ \E f \in Flushers : FlushStep(f) \/ Stall(f)

\* Every replica goes on flushing.
OutboxFairness == \A f \in Flushers : WF_outboxVars(FlushStep(f))
OutboxSpec == OutboxInit /\ [][OutboxNext]_outboxVars /\ OutboxFairness
-----------------------------------------------------------------------------
(* Properties *)

\* The outbox counts a key as sent only after Stripe accepted it.
SentIsReported ==
    \A s \in Sources : outbox[s].status = "sent" => s \in reported

\* A row that waits will be selected: attempts at the limit mean failed, also
\* when two flushers fail on the same row.
PendingIsSelectable ==
    \A s \in Sources : outbox[s].status \in {"pending", "processing"}
        => outbox[s].attempts < MaxAttempts

\* A sent row is final unless its flusher was overtaken: the late mark of a
\* stalled flusher is the only step that sends it again.
SentIsFinal ==
    [][\A s \in Sources : outbox[s].status = "sent" /\ outbox'[s].status # "sent"
            => s \in overtaken]_outboxVars

\* The status of a row tells what happened to its usage: sent means reported and
\* stays sent, pending means that a flush will find it.
UsageReported == []SentIsReported /\ []PendingIsSelectable /\ SentIsFinal

\* No usage is forgotten: every event is reported or given up as failed, although
\* flushers stall and die.
UsageSettled ==
    \A s \in Sources : (outbox[s].status = "pending")
        ~> (outbox[s].status \in {"sent", "failed"})
=============================================================================
