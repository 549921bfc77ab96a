--------------------------- MODULE RuntimeSession ---------------------------
(***************************************************************************)
(* Runtime sessions of marketplace assignments                             *)
(* (src/src/persona-core/persona-marketplace-service.ts): requests move a  *)
(* session through plan, execute, evaluate and complete, each by a read    *)
(* and an unconditional write; recovery workers in several replicas list   *)
(* the sessions past their deadline and retry or end them by a             *)
(* compare-and-set on the state they saw.                                  *)
(***************************************************************************)
EXTENDS Naturals, FiniteSets

CONSTANTS
    Sessions,     \* runtime sessions of one assignment
    Handlers,     \* requests in flight, over all replicas
    Recoverers,   \* replicas that run RuntimeRecoveryWorker
    NoSession,
    MaxRetries    \* maxRetries

ASSUME RuntimeAssumption ==
    /\ NoSession \notin Sessions
    /\ IsFiniteSet(Recoverers) /\ Recoverers # {}
    /\ MaxRetries \in Nat

VARIABLES
    session,      \* runtime_sessions
    assignment,   \* task_assignments.status
    handling,      \* what each handler has read
    recovery,     \* what each recovery worker has listed
    resurrected   \* history: ended sessions a late handler wrote to

runtimeVars == <<session, assignment, handling, recovery, resurrected>>

ActiveStates == {"PLAN", "EXECUTE", "EVALUATE", "MEMORY_UPDATE", "REPUTATION_UPDATE"}
TerminalStates == {"COMPLETED", "FAILED", "TIMEOUT", "ERROR"}
AssignmentStates == {"assigned", "in_progress", "submitted", "rejected", "accepted"}

NoHandling == [op |-> "none", session |-> NoSession]

RuntimeInit ==
    /\ session = [s \in Sessions |-> [state |-> "absent", retries |-> 0,
                                      due |-> FALSE, ended |-> FALSE]]
    /\ assignment = "assigned"
    /\ handling = [h \in Handlers |-> NoHandling]
    /\ recovery = [w \in Recoverers |-> {}]
    /\ resurrected = {}

StateOf(s) == session[s].state

CreateSession(s) ==
    /\ StateOf(s) = "absent"
    /\ assignment \in {"assigned", "in_progress", "submitted"}
    /\ session' = [session EXCEPT ![s].state = "PLAN"]
    /\ UNCHANGED <<assignment, handling, recovery, resurrected>>

\* What a handler demands of the session it reads.
Demanded == [plan |-> ActiveStates, execute |-> {"PLAN", "EXECUTE"},
             evaluate |-> {"EVALUATE"}, complete |-> {"EVALUATE", "MEMORY_UPDATE", "REPUTATION_UPDATE"}]
Outcome == [plan |-> "EXECUTE", execute |-> "EVALUATE",
            evaluate |-> "MEMORY_UPDATE", complete |-> "COMPLETED"]
Operations == {"plan", "execute", "evaluate", "complete"}

ReadSession(h, op, s) ==
    /\ handling[h] = NoHandling
    /\ StateOf(s) \in Demanded[op]
    /\ handling' = [handling EXCEPT ![h] = [op |-> op, session |-> s]]
    /\ UNCHANGED <<session, assignment, recovery, resurrected>>

\* UPDATE task_assignments ... WHERE status IN ('assigned', 'in_progress')
Startable_AnyStatus(st) == TRUE
Startable(st) == st \in {"assigned", "in_progress"}

\* The write names the row by its id only; every one but the last renews the
\* deadline, and execute starts the assignment in the same transaction.
WriteSession(h) ==
    LET s == handling[h].session
        op == handling[h].op IN
    /\ handling[h] # NoHandling
    /\ session' = [session EXCEPT ![s] =
          [@ EXCEPT !.state = Outcome[op], !.due = FALSE,
                    !.ended = session[s].ended \/ op = "complete"]]
    /\ assignment' = IF op = "execute" /\ Startable(assignment) THEN "in_progress"
                     ELSE assignment
    /\ resurrected' = IF session[s].ended THEN resurrected \cup {s} ELSE resurrected
    /\ handling' = [handling EXCEPT ![h] = NoHandling]
    /\ UNCHANGED recovery

\* The replica dies between the read and the write.
HandlerDies(h) ==
    /\ handling[h] # NoHandling
    /\ handling' = [handling EXCEPT ![h] = NoHandling]
    /\ UNCHANGED <<session, assignment, recovery, resurrected>>

\* submitTaskResult, rejection and approval of the assignment.
SubmitResult ==
    /\ assignment \in {"assigned", "in_progress", "rejected"}
    /\ assignment' = "submitted"
    /\ UNCHANGED <<session, handling, recovery, resurrected>>

ReviewResult ==
    /\ assignment = "submitted"
    /\ assignment' \in {"rejected", "accepted"}
    /\ UNCHANGED <<session, handling, recovery, resurrected>>
-----------------------------------------------------------------------------
(* Deadlines and recovery *)

PassDeadline(s) ==
    /\ StateOf(s) \in ActiveStates
    /\ session' = [session EXCEPT ![s].due = TRUE]
    /\ UNCHANGED <<assignment, handling, recovery, resurrected>>

\* timeout_at <= now AND completed_at IS NULL
Overdue(s) == session[s].due /\ ~session[s].ended

ListOverdue(w) ==
    /\ recovery[w] = {}
    /\ \E s \in Sessions : Overdue(s)
    /\ recovery' = [recovery EXCEPT ![w] =
          {[session |-> s, state |-> StateOf(s), retries |-> session[s].retries] :
              s \in {q \in Sessions : Overdue(q)}}]
    /\ UNCHANGED <<session, assignment, handling, resurrected>>

ShouldRetry(n) == n < MaxRetries

StillIn_AsRetried(s, st) == StateOf(s) = "PLAN"
StillIn(s, st) == StateOf(s) = st

\* One row of the list: a retry always goes back to PLAN.
Recover(w, row) ==
    LET s == row.session IN
    /\ row \in recovery[w]
    /\ recovery' = [recovery EXCEPT ![w] = @ \ {row}]
    /\ session' = IF ~StillIn(s, row.state) THEN session
                  ELSE IF ShouldRetry(row.retries)
                  THEN [session EXCEPT ![s] = [@ EXCEPT !.state = "PLAN", !.due = FALSE,
                                                       !.retries = session[s].retries + 1]]
                  ELSE [session EXCEPT ![s] = [@ EXCEPT !.state = "TIMEOUT", !.due = FALSE,
                                                       !.ended = TRUE]]
    /\ UNCHANGED <<assignment, handling, resurrected>>

RecoveryDies(w) ==
    /\ recovery[w] # {}
    /\ recovery' = [recovery EXCEPT ![w] = {}]
    /\ UNCHANGED <<session, assignment, handling, resurrected>>

RecoveryStep(w) == ListOverdue(w) \/ \E row \in recovery[w] : Recover(w, row)

RuntimeNext ==
    \/ \E s \in Sessions : CreateSession(s) \/ PassDeadline(s)
    \/ \E h \in Handlers :
          \/ \E op \in Operations, s \in Sessions : ReadSession(h, op, s)
          \/ WriteSession(h) \/ HandlerDies(h)
    \/ SubmitResult \/ ReviewResult
    \/ \E w \in Recoverers : RecoveryStep(w) \/ RecoveryDies(w)

RuntimeSafety == RuntimeInit /\ [][RuntimeNext]_runtimeVars

\* A worker that lists a session gets to its row again and again: the timer of
\* every replica fires every five seconds.
RuntimeFairness ==
    \A w \in Recoverers :
        /\ WF_runtimeVars(RecoveryStep(w))
        /\ \A s \in Sessions : SF_runtimeVars(\E row \in recovery[w] : row.session = s /\ Recover(w, row))
RuntimeSpec == RuntimeSafety /\ RuntimeFairness
-----------------------------------------------------------------------------
(* Properties *)

\* Type correctness; of the states the code knows, only these are ever stored, so
\* a session that is not over can always go on or be planned again.
StoredStates == {"absent", "PLAN", "EXECUTE", "EVALUATE", "MEMORY_UPDATE", "COMPLETED", "TIMEOUT"}
RuntimeTypeOK ==
    /\ session \in [Sessions -> [state : StoredStates,
                                 retries : Nat, due : BOOLEAN, ended : BOOLEAN]]
    /\ assignment \in AssignmentStates
    /\ handling \in [Handlers -> [op : Operations \cup {"none"},
                                 session : Sessions \cup {NoSession}]]
    /\ recovery \in [Recoverers -> SUBSET [session : Sessions, state : ActiveStates,
                                           retries : Nat]]
    /\ resurrected \subseteq Sessions

\* A session is retried at most MaxRetries times, and once more for every other
\* replica that listed it before.
RetriesBounded ==
    \A s \in Sessions : session[s].retries < MaxRetries + Cardinality(Recoverers)

\* completed_at is set exactly for the terminal sessions, so recovery watches
\* every active one: only a handler that read before the end can break this.
ActiveIsWatched ==
    \A s \in Sessions \ resurrected : session[s].ended <=> StateOf(s) \in TerminalStates

\* A session that runs late does not take a submitted result back.
SubmissionStands ==
    [][(assignment \in {"submitted", "rejected", "accepted"})
            => (assignment' # "in_progress")]_<<assignment>>

\* A session stays under recovery until it is over, is retried within its budget,
\* and takes back no result when it runs late.
SessionsUnderControl ==
    []RuntimeTypeOK /\ []RetriesBounded /\ []ActiveIsWatched /\ SubmissionStands

\* A session past its deadline does not stay there.
OverdueIsHandled ==
    \A s \in Sessions : Overdue(s) ~> ~Overdue(s)
=============================================================================
