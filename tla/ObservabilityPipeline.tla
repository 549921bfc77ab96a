------------------------ MODULE ObservabilityPipeline ------------------------
(***************************************************************************)
(* The observability outbox (src/src/observability): workers in several    *)
(* processes drain one table into the rollups of a tenant; a row that      *)
(* keeps failing goes to the dead-letter queue, whence an administrator    *)
(* replays it (src/src/events/platform-dlq.ts) as a new row.  A worker may *)
(* stall or die between any two statements; rows it left behind are        *)
(* requeued after five minutes.                                            *)
(***************************************************************************)
EXTENDS Naturals, FiniteSets

CONSTANTS
    ObsEvents,     \* business events that are published once each
    ObsRows,       \* identifiers of outbox rows
    DlqIds,        \* identifiers of dead letters
    NoObs,         \* no event, no row, no dead letter
    Drainers,      \* workers
    Replayers,     \* administrators' requests to replay
    ObsMaxAttempts,
    ObsMaxStalls   \* bound of the model: workers that stall or die

ASSUME ObservabilityAssumption ==
    /\ NoObs \notin ObsEvents \cup ObsRows \cup DlqIds
    /\ ObsMaxAttempts \in Nat \ {0} /\ ObsMaxStalls \in Nat

VARIABLES
    obsRow,      \* observability_outbox
    processed,   \* observability_processed_events: rows already counted
    counted,     \* observability_rollups: how often each event was added
    dlq,         \* platform_dlq_events
    drain,       \* what each worker is doing
    replay,      \* what each replay request is doing
    obsStalls,   \* workers that stalled or died so far
    doubtful     \* history: events requeued or replayed under somebody's hands

obsVars == <<obsRow, processed, counted, dlq, drain, replay, obsStalls, doubtful>>

IdleDrain == [pc |-> "idle", batch |-> {}, row |-> NoObs, seen |-> 0, slow |-> FALSE]
IdleReplay == [pc |-> "idle", letter |-> NoObs]

ObsInit ==
    /\ obsRow = [r \in ObsRows |-> [status |-> "absent", attempts |-> 0, event |-> NoObs]]
    /\ processed = {}
    /\ counted = [e \in ObsEvents |-> 0]
    /\ dlq = [i \in DlqIds |-> [status |-> "absent", row |-> NoObs]]
    /\ drain = [d \in Drainers |-> IdleDrain]
    /\ replay = [p \in Replayers |-> IdleReplay]
    /\ obsStalls = 0
    /\ doubtful = {}

EventOf(r) == obsRow[r].event

\* publishObservabilityEvent: a row with an identifier of its own.
NewRow(r, e) ==
    /\ obsRow[r].status = "absent"
    /\ obsRow' = [obsRow EXCEPT ![r] = [status |-> "pending", attempts |-> 0, event |-> e]]

Publish(r, e) ==
    /\ \A q \in ObsRows : EventOf(q) # e
    /\ NewRow(r, e)
    /\ UNCHANGED <<processed, counted, dlq, drain, replay, obsStalls, doubtful>>
-----------------------------------------------------------------------------
(* ObservabilityWorker.flushInternal *)

ObsHolder(r) == {d \in Drainers : drain[d].row = r}
ObsStale(r) ==
    /\ obsRow[r].status = "processing"
    /\ \A d \in ObsHolder(r) : drain[d].slow

RequeueObs(d) ==
    LET S == {r \in ObsRows : ObsStale(r)} IN
    /\ drain[d].pc = "idle"
    /\ obsRow' = [r \in ObsRows |-> IF r \in S THEN [obsRow[r] EXCEPT !.status = "pending"]
                                               ELSE obsRow[r]]
    /\ doubtful' = doubtful \cup {EventOf(r) : r \in {q \in S : ObsHolder(q) # {}}}
    /\ drain' = [drain EXCEPT ![d].pc = "list"]
    /\ UNCHANGED <<processed, counted, dlq, replay, obsStalls>>

\* The batch remembers how many attempts each row had had.
ListPending(d) ==
    /\ drain[d].pc = "list"
    /\ drain' = [drain EXCEPT ![d].pc = "next", ![d].batch =
          {<<r, obsRow[r].attempts>> : r \in {q \in ObsRows : obsRow[q].status = "pending"}}]
    /\ UNCHANGED <<obsRow, processed, counted, dlq, replay, obsStalls, doubtful>>

MarkProcessing_AnyStatus(r) == TRUE
MarkProcessing(r) == obsRow[r].status = "pending"

ClaimObs(d, r, n) ==
    /\ drain[d].pc = "next"
    /\ <<r, n>> \in drain[d].batch
    /\ IF MarkProcessing(r)
       THEN /\ obsRow' = [obsRow EXCEPT ![r].status = "processing"]
            /\ drain' = [drain EXCEPT ![d] = [pc |-> "apply", batch |-> drain[d].batch \ {<<r, n>>},
                                              row |-> r, seen |-> n, slow |-> FALSE]]
       ELSE /\ drain' = [drain EXCEPT ![d].batch = @ \ {<<r, n>>}]
            /\ UNCHANGED obsRow
    /\ UNCHANGED <<processed, counted, dlq, replay, obsStalls, doubtful>>

DrainDone(d) ==
    /\ drain[d].pc = "next"
    /\ drain[d].batch = {}
    /\ drain' = [drain EXCEPT ![d] = IdleDrain]
    /\ UNCHANGED <<obsRow, processed, counted, dlq, replay, obsStalls, doubtful>>

NextInBatch(d) == drain' = [drain EXCEPT ![d] = [pc |-> "next", batch |-> drain[d].batch, row |-> NoObs,
                                                seen |-> 0, slow |-> FALSE]]

\* INSERT INTO observability_processed_events ... ON CONFLICT DO NOTHING
FirstTime(r) == r \notin processed

\* One transaction: claim the event, add its delta, mark the row sent.
ApplyAndSend(d) ==
    LET r == drain[d].row IN
    /\ drain[d].pc = "apply"
    /\ counted' = [counted EXCEPT ![EventOf(r)] = IF FirstTime(r) THEN @ + 1 ELSE @]
    /\ processed' = processed \cup {r}
    /\ obsRow' = [obsRow EXCEPT ![r].status = "sent"]
    /\ NextInBatch(d)
    /\ UNCHANGED <<dlq, replay, obsStalls, doubtful>>

\* The transaction fails and is rolled back.
ApplyFails(d) ==
    /\ drain[d].pc = "apply"
    /\ drain' = [drain EXCEPT ![d].pc = "mark_failed"]
    /\ UNCHANGED <<obsRow, processed, counted, dlq, replay, obsStalls, doubtful>>

\* The count of attempts is written from the batch, over whatever the row holds.
GivesUp(n) == n >= ObsMaxAttempts

MarkObsFailed(d) ==
    LET n == drain[d].seen + 1 IN
    /\ drain[d].pc = "mark_failed"
    /\ obsRow' = [obsRow EXCEPT ![drain[d].row] =
          [status |-> IF GivesUp(n) THEN "failed" ELSE "pending", attempts |-> n,
           event |-> EventOf(drain[d].row)]]
    /\ IF n >= ObsMaxAttempts THEN drain' = [drain EXCEPT ![d].pc = "bury"]
                              ELSE NextInBatch(d)
    /\ UNCHANGED <<processed, counted, dlq, replay, obsStalls, doubtful>>

\* recordPlatformDlqEvent
Bury(d, i) ==
    /\ drain[d].pc = "bury"
    /\ dlq[i].status = "absent"
    /\ dlq' = [dlq EXCEPT ![i] = [status |-> "pending", row |-> drain[d].row]]
    /\ NextInBatch(d)
    /\ UNCHANGED <<obsRow, processed, counted, replay, obsStalls, doubtful>>

\* A worker hangs in a row for more than five minutes, or dies with it.
ObsStall(d) ==
    /\ obsStalls < ObsMaxStalls
    /\ drain[d].row # NoObs
    /\ ~drain[d].slow
    /\ obsStalls' = obsStalls + 1
    /\ \/ drain' = [drain EXCEPT ![d].slow = TRUE] /\ UNCHANGED doubtful
       \/ /\ drain' = [drain EXCEPT ![d] = IdleDrain]
          /\ doubtful' = IF drain[d].pc = "bury" THEN doubtful \cup {EventOf(drain[d].row)}
                         ELSE doubtful
    /\ UNCHANGED <<obsRow, processed, counted, dlq, replay>>
-----------------------------------------------------------------------------
(* replayPlatformDlqEvent *)

InReplay(i) == \E p \in Replayers : replay[p].letter = i

ReadLetter(p, i) ==
    /\ replay[p].pc = "idle"
    /\ dlq[i].status = "pending"
    /\ replay' = [replay EXCEPT ![p] = [pc |-> "publish", letter |-> i]]
    /\ doubtful' = IF InReplay(i) THEN doubtful \cup {EventOf(dlq[i].row)} ELSE doubtful
    /\ UNCHANGED <<obsRow, processed, counted, dlq, drain, obsStalls>>

PublishAgain(p, r) ==
    /\ replay[p].pc = "publish"
    /\ NewRow(r, EventOf(dlq[replay[p].letter].row))
    /\ replay' = [replay EXCEPT ![p].pc = "mark"]
    /\ UNCHANGED <<processed, counted, dlq, drain, obsStalls, doubtful>>

MarkReplayed(p) ==
    /\ replay[p].pc = "mark"
    /\ dlq' = [dlq EXCEPT ![replay[p].letter].status = "replayed"]
    /\ replay' = [replay EXCEPT ![p] = IdleReplay]
    /\ UNCHANGED <<obsRow, processed, counted, drain, obsStalls, doubtful>>

\* The process dies: a letter that was published again is still pending.
ReplayDies(p) ==
    /\ replay[p].pc # "idle"
    /\ replay' = [replay EXCEPT ![p] = IdleReplay]
    /\ doubtful' = IF replay[p].pc = "mark"
                   THEN doubtful \cup {EventOf(dlq[replay[p].letter].row)} ELSE doubtful
    /\ UNCHANGED <<obsRow, processed, counted, dlq, drain, obsStalls>>
-----------------------------------------------------------------------------
DrainStep(d) ==
    \/ RequeueObs(d) \/ ListPending(d) \/ DrainDone(d)
    \/ \E r \in ObsRows, n \in 0..ObsMaxAttempts : ClaimObs(d, r, n)
    \/ ApplyAndSend(d) \/ ApplyFails(d) \/ MarkObsFailed(d)
    \/ \E i \in DlqIds : Bury(d, i)

ReplayStep(p) ==
    \/ \E i \in DlqIds : ReadLetter(p, i)
    \/ \E r \in ObsRows : PublishAgain(p, r)
    \/ MarkReplayed(p) \/ ReplayDies(p)

ObsNext ==
    \/ \E r \in ObsRows, e \in ObsEvents : Publish(r, e)
    \/ \E d \in Drainers : DrainStep(d) \/ ObsStall(d)
    \/ \E p \in Replayers : ReplayStep(p)

\* The timer of every worker goes on firing.
ObsFairness == \A d \in Drainers : WF_obsVars(DrainStep(d))
ObsSpec == ObsInit /\ [][ObsNext]_obsVars /\ ObsFairness
-----------------------------------------------------------------------------
(* Properties *)

ObsTypeOK ==
    /\ obsRow \in [ObsRows ->
          [status : {"absent", "pending", "processing", "sent", "failed"},
           attempts : 0..ObsMaxAttempts, event : ObsEvents \cup {NoObs}]]
    /\ processed \subseteq ObsRows
    /\ counted \in [ObsEvents -> Nat]
    /\ dlq \in [DlqIds -> [status : {"absent", "pending", "replayed"},
                           row : ObsRows \cup {NoObs}]]
    /\ drain \in [Drainers ->
          [pc : {"idle", "list", "next", "apply", "mark_failed", "bury"},
           batch : SUBSET (ObsRows \X (0..ObsMaxAttempts)), row : ObsRows \cup {NoObs},
           seen : 0..ObsMaxAttempts, slow : BOOLEAN]]
    /\ replay \in [Replayers -> [pc : {"idle", "publish", "mark"},
                                 letter : DlqIds \cup {NoObs}]]
    /\ obsStalls \in 0..ObsMaxStalls
    /\ doubtful \subseteq ObsEvents

\* A row is added to the rollup at most once, whoever was overtaken while having
\* it: the claim of the event and the delta are one transaction.
RowCountedOnce ==
    \A e \in ObsEvents : counted[e] =
        Cardinality({r \in processed : EventOf(r) = e})

\* Through failures, dead letters and replays an event is counted once at most,
\* unless a worker was overtaken, or a replay died or met another one.
EventCountedOnce ==
    \A e \in ObsEvents \ doubtful : counted[e] <= 1

\* A row given up is in the dead-letter queue, or about to be; and no counted row
\* is, so that a replay does not count it again.
GivenUpIsBuried ==
    \A r \in ObsRows : EventOf(r) \notin doubtful =>
        LET buried == \E i \in DlqIds : dlq[i].row = r
            burying == \E d \in Drainers : drain[d].pc = "bury" /\ drain[d].row = r
        IN  /\ (obsRow[r].status = "failed") = (buried \/ burying)
            /\ buried => r \notin processed

\* The projection counts once: by row and by event, and never what the dead-letter
\* queue keeps for a replay.
CountedOnce == ObsTypeOK /\ RowCountedOnce /\ EventCountedOnce /\ GivenUpIsBuried

\* Every row is counted or given up, although workers stall and die.
ObsSettled ==
    \A r \in ObsRows : (obsRow[r].status = "pending") ~> (obsRow[r].status \in {"sent", "failed"})
=============================================================================
