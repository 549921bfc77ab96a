----------------------------- MODULE Workforce -----------------------------
(***************************************************************************)
(* Delegated work of a digital organisation (src/src/workforce).  A call   *)
(* of WorkerExecutionService.execute checks the skills of the worker,      *)
(* spends an approval, claims the task, runs a tool and writes the result  *)
(* back.  A missing skill is registered as a learning request and the task *)
(* is handed to a colleague, degraded or suspended; when the skill has     *)
(* been learned the task is woken, by the capability-learned event or by   *)
(* the periodic sweep.  Several replicas share the database: every         *)
(* database call is a step of its own, a transaction is one step, and an   *)
(* execute call may die at any point.                                      *)
(***************************************************************************)
EXTENDS Naturals, FiniteSets

CONSTANTS
    Workers,     \* digital workers of the organisation, each with a persona
    Tasks,       \* tasks that allow tool execution
    Caps,        \* capabilities
    Required,    \* Tasks -> SUBSET Caps
    Known,       \* Workers -> SUBSET Caps, learned before the model starts
    TaskRisk,    \* Tasks -> Risks
    Manager,     \* Workers -> Workers \cup {None}
    Rank,        \* Workers -> Nat, the order in which they were hired
    FirstHolder, \* Tasks -> Workers
    None,        \* no worker, task, approval or capability
    Calls,       \* execute calls in flight, over all replicas
    LenientCalls,\* the calls whose disposition service allows degrading
    Wakers,      \* replicas that run the wake handler and the sweep
    Requests, Approvals, Handoffs,   \* identifiers, used at most once
    WorkersMayApprove, \* enterprise policy: managers may approve medium risk
    MaxResume    \* DEFAULT_MAX_RESUME_ATTEMPTS

Risks == {"low", "medium", "high"}
RiskOrder == [low |-> 0, medium |-> 1, high |-> 2]

ASSUME WorkforceAssumption ==
    /\ None \notin Workers \cup Tasks \cup Caps \cup Approvals
    /\ Required \in [Tasks -> SUBSET Caps]
    /\ Known \in [Workers -> SUBSET Caps]
    /\ TaskRisk \in [Tasks -> Risks]
    /\ Manager \in [Workers -> Workers \cup {None}]
    /\ Rank \in [Workers -> Nat]
    /\ \A v, w \in Workers : Rank[v] = Rank[w] => v = w
    /\ FirstHolder \in [Tasks -> Workers]
    /\ LenientCalls \subseteq Calls
    /\ WorkersMayApprove \in BOOLEAN
    /\ MaxResume \in Nat \ {0} /\ IsFiniteSet(Wakers) /\ "sweep" \notin Requests

VARIABLES
    task,     \* org_tasks: status, holder, blocked_reason and the wake guards
    worker,   \* employment status
    request,  \* learning_requests
    approval, \* org_approvals
    handoff,  \* org_handoffs
    call,     \* program counter and locals of each execute call
    wake,     \* what each replica still has to wake, and its next write
    signals,  \* capability-learned events emitted and not yet delivered
    paid,     \* history: how many runs each approval let through
    resumes,  \* history: how often each task was resumed
    outrun    \* history: tasks woken while another replica was about to wake them

vars == <<task, worker, request, approval, handoff, call, wake, signals, paid, resumes, outrun>>

Statuses == {"delegated", "in_progress", "submitted", "blocked"}
Reasons == {"none", "capability_gap", "execution_failure"}
RequestStatuses == {"unused", "pending", "learning", "passed", "failed"}
ApprovalStatuses == {"unused", "pending", "approved", "rejected", "expired"}
HandoffStatuses == {"unused", "proposed", "accepted", "rejected", "cancelled"}
CallSteps == {"idle", "register", "dispose", "delegate", "degrade", "suspend",
              "gate", "consume", "claim", "running"}
NoEvent == <<"none">>
EventIds == ({"event"} \X Requests) \cup ({"sweep"} \X Workers \X SUBSET Caps)

Active(w) == worker[w] = "active"

\* listLearnedCapabilities: what the passed requests of the persona taught it.
Learned(w) ==
    Known[w] \cup {request[q].cap : q \in {r \in Requests :
                        request[r].status = "passed" /\ request[r].persona = w}}

Gaps(t, w) == Required[t] \ Learned(w)

\* What execute sends to school: every gap, also one already registered.
Missing(t, w) == Gaps(t, w)

\* findActive: the request that a new gap of this persona joins.
ActiveRequest(w, c) ==
    \E q \in Requests : /\ request[q].status \in {"pending", "learning"}
                        /\ request[q].persona = w
                        /\ request[q].cap = c

\* findCapableColleague: the first hired active colleague with every skill.
Capable(t, w) == {v \in Workers \ {w} : Active(v) /\ Gaps(t, v) = {}}
Colleague(t, w) ==
    CHOOSE v \in Capable(t, w) : \A u \in Capable(t, w) : Rank[v] <= Rank[u]

IdleCall ==
    [pc |-> "idle", task |-> None, worker |-> None,
     approval |-> None, missing |-> {}, target |-> None, risk |-> "low"]

IdleWake == [todo |-> {}, plan |-> {}]

NoRequest == [status |-> "unused", persona |-> None, cap |-> None, origin |-> None]

\* The state of a new organisation with the given learning requests.
InitWith(requests) ==
    /\ request = requests
    /\ task = [t \in Tasks |-> [status |-> "delegated", holder |-> FirstHolder[t],
                                reason |-> "none", wakes |-> 0, lastWake |-> NoEvent]]
    /\ worker = [w \in Workers |-> "active"]
    /\ approval = [a \in Approvals |-> [status |-> "unused", task |-> None,
                                        requester |-> None, risk |-> "low",
                                        mode |-> "human_only", used |-> FALSE]]
    /\ handoff = [h \in Handoffs |-> [status |-> "unused", task |-> None,
                                      from |-> None, to |-> None]]
    /\ call = [c \in Calls |-> IdleCall]
    /\ wake = [k \in Wakers |-> IdleWake]
    /\ signals = {}
    /\ paid = [a \in Approvals |-> 0]
    /\ resumes = [t \in Tasks |-> 0] /\ outrun = {}

Init == InitWith([q \in Requests |-> NoRequest])

-----------------------------------------------------------------------------
(* WorkerExecutionService.execute *)

Goto(c, pc) == call' = [call EXCEPT ![c].pc = pc]
Done(c) == call' = [call EXCEPT ![c] = IdleCall]

\* The compare-and-set of a call on its task: still delegated, still its worker's.
Holds_AnyStatus(c) == task[call[c].task].holder = call[c].worker
Holds(c) == /\ task[call[c].task].status = "delegated"
            /\ task[call[c].task].holder = call[c].worker

\* requireExecutableTask, and the learned capabilities the gap check reads.
Begin(c, t, w, a) ==
    /\ call[c].pc = "idle"
    /\ task[t].holder = w
    /\ task[t].status = "delegated"
    /\ Active(w)
    /\ call' = [call EXCEPT ![c] =
          [pc |-> IF Missing(t, w) = {} THEN "gate" ELSE "register", task |-> t, worker |-> w,
           approval |-> a, missing |-> Missing(t, w), target |-> None, risk |-> "low"]]
    /\ UNCHANGED <<task, worker, request, approval, handoff, wake, signals, paid, resumes, outrun>>

\* registerGap for one missing capability: an active request is reused, and the
\* unique index on active requests makes a lost race a reuse as well.
Register(c, cap, q) ==
    LET w == call[c].worker IN
    /\ call[c].pc = "register"
    /\ cap \in call[c].missing
    /\ IF ActiveRequest(w, cap)
       THEN UNCHANGED request
       ELSE /\ request[q].status = "unused"
            /\ request' = [request EXCEPT ![q] =
                  [status |-> "pending", persona |-> w, cap |-> cap,
                   origin |-> call[c].task]]
    /\ call' = [call EXCEPT ![c].missing = @ \ {cap},
                            ![c].pc = IF call[c].missing = {cap} THEN "dispose" ELSE @]
    /\ UNCHANGED <<task, worker, approval, handoff, wake, signals, paid, resumes, outrun>>

\* TaskDispositionService.dispose decides: a colleague, degrade, or suspend.
Dispose(c) ==
    LET t == call[c].task
        w == call[c].worker IN
    /\ call[c].pc = "dispose"
    /\ IF Capable(t, w) # {}
       THEN call' = [call EXCEPT ![c].pc = "delegate", ![c].target = Colleague(t, w)]
       ELSE Goto(c, IF c \in LenientCalls THEN "degrade" ELSE "suspend")
    /\ UNCHANGED <<task, worker, request, approval, handoff, wake, signals, paid, resumes, outrun>>

\* reassignDelegatedTaskIfHeldBy
Delegate(c) ==
    /\ call[c].pc = "delegate"
    /\ IF Holds(c)
       THEN task' = [task EXCEPT ![call[c].task].holder = call[c].target] /\ Done(c)
       ELSE Goto(c, "suspend") /\ UNCHANGED task
    /\ UNCHANGED <<worker, request, approval, handoff, wake, signals, paid, resumes, outrun>>

\* The degrading compare-and-set constrains the status and not the holder.
Degrade(c) ==
    LET t == call[c].task IN
    /\ call[c].pc = "degrade"
    /\ IF task[t].status = "delegated"
       THEN task' = [task EXCEPT ![t].status = "submitted", ![t].reason = "none"] /\ Done(c)
       ELSE Goto(c, "suspend") /\ UNCHANGED task
    /\ UNCHANGED <<worker, request, approval, handoff, wake, signals, paid, resumes, outrun>>

\* delegated -> blocked for a capability gap; a lost race is an error.
Suspend(c) ==
    /\ call[c].pc = "suspend"
    /\ IF Holds(c)
       THEN task' = [task EXCEPT ![call[c].task].status = "blocked",
                                 ![call[c].task].reason = "capability_gap"]
       ELSE UNCHANGED task
    /\ Done(c)
    /\ UNCHANGED <<worker, request, approval, handoff, wake, signals, paid, resumes, outrun>>

\* isExecutionApprovalCleared: the approval is for this run.
Matches(a, t, w, r) ==
    /\ approval[a].status = "approved"
    /\ approval[a].task = t
    /\ approval[a].requester = w
    /\ RiskOrder[approval[a].risk] >= RiskOrder[r]

\* Argument compilation may refuse.  The effective risk is that of the task,
\* raised by the tool and its arguments; above low an approval must match.
Gate(c) ==
    /\ call[c].pc = "gate"
    /\ \/ Done(c)
       \/ \E r \in Risks :
            /\ RiskOrder[r] >= RiskOrder[TaskRisk[call[c].task]]
            /\ IF r = "low"
               THEN call' = [call EXCEPT ![c].pc = "claim", ![c].approval = None]
               ELSE IF /\ call[c].approval # None
                       /\ Matches(call[c].approval, call[c].task, call[c].worker, r)
                    THEN call' = [call EXCEPT ![c].pc = "consume", ![c].risk = r]
                    ELSE Done(c)
    /\ UNCHANGED <<task, worker, request, approval, handoff, wake, signals, paid, resumes, outrun>>

\* consumeApprovalIfUnused
Spendable_Again(a) == approval[a].status = "approved"
Spendable(a) == approval[a].status = "approved" /\ ~approval[a].used

Consume(c) ==
    LET a == call[c].approval IN
    /\ call[c].pc = "consume"
    /\ IF Spendable(a)
       THEN approval' = [approval EXCEPT ![a].used = TRUE] /\ Goto(c, "claim")
       ELSE Done(c) /\ UNCHANGED approval
    /\ UNCHANGED <<task, worker, request, handoff, wake, signals, paid, resumes, outrun>>

\* delegated -> in_progress, constrained by status and holder; then the tool runs.
Claim(c) ==
    LET t == call[c].task
        a == call[c].approval IN
    /\ call[c].pc = "claim"
    /\ IF Holds(c)
       THEN /\ task' = [task EXCEPT ![t].status = "in_progress", ![t].reason = "none"]
            /\ paid' = IF a = None THEN paid ELSE [paid EXCEPT ![a] = @ + 1]
            /\ Goto(c, "running")
       ELSE Done(c) /\ UNCHANGED <<task, paid>>
    /\ UNCHANGED <<worker, request, approval, handoff, wake, signals, resumes, outrun>>

\* updateTaskExecution after the tool: the write has no condition.
WriteBack(t, status, reason) ==
    task' = [task EXCEPT ![t].status = status, ![t].reason = reason]

Finish(c) ==
    /\ call[c].pc = "running"
    /\ \/ WriteBack(call[c].task, "submitted", "none")
       \/ WriteBack(call[c].task, "delegated", "none")
       \/ WriteBack(call[c].task, "blocked", "execution_failure")
    /\ Done(c)
    /\ UNCHANGED <<worker, request, approval, handoff, wake, signals, paid, resumes, outrun>>

\* The replica dies: nothing is written back and nothing takes the task up.
Crash(c) ==
    /\ call[c].pc # "idle"
    /\ Done(c)
    /\ UNCHANGED <<task, worker, request, approval, handoff, wake, signals, paid, resumes, outrun>>

-----------------------------------------------------------------------------
(* DeterministicLearningService.learnOne *)

TakeRequest(q) ==
    /\ request[q].status = "pending"
    /\ request' = [request EXCEPT ![q].status = "learning"]
    /\ UNCHANGED <<task, worker, approval, handoff, call, wake, signals, paid, resumes, outrun>>

\* Exam passed and landed: learning -> passed, then the event is emitted.
PassRequest(q) ==
    /\ request[q].status = "learning"
    /\ request' = [request EXCEPT ![q].status = "passed"]
    /\ signals' = signals \cup {q}
    /\ UNCHANGED <<task, worker, approval, handoff, call, wake, paid, resumes, outrun>>

FailRequest(q) ==
    /\ request[q].status = "learning"
    /\ request' = [request EXCEPT ![q].status = "failed"]
    /\ UNCHANGED <<task, worker, approval, handoff, call, wake, signals, paid, resumes, outrun>>

-----------------------------------------------------------------------------
(* TaskWakeHandler and TaskWakeReconciler *)

\* An entry of a replica's work list: the task, the persona whose skills are
\* checked, and the request whose event it answers ("sweep" for the sweep).
Entry(t, w, q) == [task |-> t, persona |-> w, cause |-> q]

\* listBlockedTasksForLearnedCapability: any blocked task some request of this
\* persona and capability was registered for.
EventList(q) ==
    {Entry(t, request[q].persona, q) : t \in {u \in Tasks :
        /\ task[u].status = "blocked"
        /\ \E r \in Requests : /\ request[r].persona = request[q].persona
                               /\ request[r].cap = request[q].cap
                               /\ request[r].origin = u}}

Registered(t) == \E r \in Requests : request[r].origin = t

\* listCapabilityGapBlockedTasks
GapBlocked_AnyReason(t) == task[t].status = "blocked"
GapBlocked(t) == task[t].status = "blocked" /\ task[t].reason = "capability_gap"
SweepList ==
    {Entry(t, task[t].holder, "sweep") : t \in {u \in Tasks : GapBlocked(u) /\ Registered(u)}}

IdleWaker(k) == wake[k] = IdleWake

DeliverEvent(k, q) ==
    /\ IdleWaker(k)
    /\ q \in signals
    /\ signals' = signals \ {q}
    /\ wake' = [wake EXCEPT ![k].todo = EventList(q)]
    /\ UNCHANGED <<task, worker, request, approval, handoff, call, paid, resumes, outrun>>

\* The event bus is best effort, and the learner may die before it emits.
LoseEvent(q) ==
    /\ q \in signals
    /\ signals' = signals \ {q}
    /\ UNCHANGED <<task, worker, request, approval, handoff, call, wake, paid, resumes, outrun>>

Sweep(k) ==
    /\ IdleWaker(k)
    /\ SweepList # {}
    /\ wake' = [wake EXCEPT ![k].todo = SweepList]
    /\ UNCHANGED <<task, worker, request, approval, handoff, call, signals, paid, resumes, outrun>>

\* The identifier a wake is recorded under: the request of the event, or the
\* fingerprint of what the persona has learned.
EventId_PersonaOnly(e) == IF e.cause = "sweep" THEN <<"sweep", e.persona>>
                                               ELSE <<"event", e.cause>>
EventId(e) == IF e.cause = "sweep" THEN <<"sweep", e.persona, Learned(e.persona)>>
                                   ELSE <<"event", e.cause>>

\* wakeOneTask resumes within its budget and after a complete re-check.
MayResume(t, w) == task[t].wakes < MaxResume /\ Gaps(t, w) = {}

\* wakeOneTask up to its write: skip, wake, or only count the attempt.
WakeRead(k, e) ==
    LET t == e.task IN
    /\ wake[k].plan = {}
    /\ e \in wake[k].todo
    /\ wake' = [wake EXCEPT ![k] =
          [todo |-> wake[k].todo \ {e},
           plan |-> IF task[t].status # "blocked" \/ task[t].lastWake = EventId(e)
                    THEN {}
                    ELSE {[task |-> t, id |-> EventId(e),
                           resume |-> MayResume(t, e.persona)]}]]
    /\ UNCHANGED <<task, worker, request, approval, handoff, call, signals, paid, resumes, outrun>>

\* The replica has listed the task and not yet done with it.
HasInHand(k, t) == \E e \in wake[k].todo \cup wake[k].plan : e.task = t

\* wakeBlockedTaskToDelegated (which leaves blocked_reason) and
\* recordWakeAttemptOnBlocked; both lose to a task that is no longer blocked.
WakeWrite(k) ==
    \E p \in wake[k].plan :
        /\ wake' = [wake EXCEPT ![k].plan = {}]
        /\ IF task[p.task].status = "blocked" /\ task[p.task].lastWake # p.id
           THEN /\ task' = [task EXCEPT ![p.task].status = IF p.resume THEN "delegated" ELSE @,
                                        ![p.task].wakes = @ + 1,
                                        ![p.task].lastWake = p.id]
                /\ resumes' = [resumes EXCEPT ![p.task] = IF p.resume THEN @ + 1 ELSE @]
                /\ outrun' = IF \E j \in Wakers \ {k} : HasInHand(j, p.task)
                             THEN outrun \cup {p.task} ELSE outrun
           ELSE UNCHANGED <<task, resumes, outrun>>
        /\ UNCHANGED <<worker, request, approval, handoff, call, signals, paid>>

-----------------------------------------------------------------------------
(* ApprovalService *)

\* request: low risk needs none; high is for humans, medium is for the manager
\* too when the policy allows it.
RequestApproval(a, t, w, r) ==
    /\ approval[a].status = "unused"
    /\ r # "low"
    /\ approval' = [approval EXCEPT ![a] =
          [status |-> "pending", task |-> t, requester |-> w, risk |-> r,
           mode |-> IF r = "medium" /\ WorkersMayApprove THEN "org_or_human"
                                                         ELSE "human_only",
           used |-> FALSE]]
    /\ UNCHANGED <<task, worker, request, handoff, call, wake, signals, paid, resumes, outrun>>

\* assertWorkerMayDispose
MayDispose(a, m) ==
    /\ approval[a].mode = "org_or_human"
    /\ m # approval[a].requester
    /\ Active(m)
    /\ Manager[approval[a].requester] = m

\* approveByHuman, approveByWorker and reject: decideApprovalIfPending.
DecideApproval(a, by, verdict) ==
    /\ approval[a].status = "pending"
    /\ by \in Workers => MayDispose(a, by)
    /\ approval' = [approval EXCEPT ![a].status = verdict]
    /\ UNCHANGED <<task, worker, request, handoff, call, wake, signals, paid, resumes, outrun>>

\* The deadline of a pending approval passes (expireStaleApprovals).
ExpireApproval(a) ==
    /\ approval[a].status = "pending"
    /\ approval' = [approval EXCEPT ![a].status = "expired"]
    /\ UNCHANGED <<task, worker, request, handoff, call, wake, signals, paid, resumes, outrun>>

-----------------------------------------------------------------------------
(* HandoffService and OrgRestructureService.offboard *)

ProposeHandoff(h, t, w, v) ==
    /\ handoff[h].status = "unused"
    /\ v # w
    /\ task[t].holder = w
    /\ handoff' = [handoff EXCEPT ![h] =
          [status |-> "proposed", task |-> t, from |-> w, to |-> v]]
    /\ UNCHANGED <<task, worker, request, approval, call, wake, signals, paid, resumes, outrun>>

\* accept is one transaction: it fails when the task has changed hands since.
AcceptHandoff(h) ==
    LET t == handoff[h].task IN
    /\ handoff[h].status = "proposed"
    /\ task[t].holder = handoff[h].from
    /\ handoff' = [handoff EXCEPT ![h].status = "accepted"]
    /\ task' = [task EXCEPT ![t].holder = handoff[h].to]
    /\ UNCHANGED <<worker, request, approval, call, wake, signals, paid, resumes, outrun>>

CloseHandoff(h, status) ==
    /\ handoff[h].status = "proposed"
    /\ handoff' = [handoff EXCEPT ![h].status = status]
    /\ UNCHANGED <<task, worker, request, approval, call, wake, signals, paid, resumes, outrun>>

\* The tasks in hand go to an active worker; blocked tasks are left behind.
Offboard(w, v) ==
    LET InHand == {t \in Tasks : /\ task[t].holder = w
                                 /\ task[t].status # "blocked"} IN
    /\ Manager[w] # None
    /\ InHand # {} => Active(v)
    /\ task' = [t \in Tasks |-> IF t \in InHand THEN [task[t] EXCEPT !.holder = v]
                                                ELSE task[t]]
    /\ worker' = [worker EXCEPT ![w] = "offboarded"]
    /\ UNCHANGED <<request, approval, handoff, call, wake, signals, paid, resumes, outrun>>

-----------------------------------------------------------------------------
Execute(c) ==
    \/ \E t \in Tasks, w \in Workers, a \in Approvals \cup {None} : Begin(c, t, w, a)
    \/ \E cap \in Caps, q \in Requests : Register(c, cap, q)
    \/ Dispose(c) \/ Delegate(c) \/ Degrade(c) \/ Suspend(c)
    \/ Gate(c) \/ Consume(c) \/ Claim(c) \/ Finish(c) \/ Crash(c)

Learn(q) == TakeRequest(q) \/ PassRequest(q) \/ FailRequest(q) \/ LoseEvent(q)

Wake(k) ==
    \/ \E q \in Requests : DeliverEvent(k, q)
    \/ Sweep(k)
    \/ \E e \in wake[k].todo : WakeRead(k, e)
    \/ WakeWrite(k)

Approve(a) ==
    \/ \E t \in Tasks, w \in Workers, r \in Risks : RequestApproval(a, t, w, r)
    \/ \E by \in Workers \cup {"human"}, verdict \in {"approved", "rejected"} :
            DecideApproval(a, by, verdict)
    \/ ExpireApproval(a)

HandOver(h) ==
    \/ \E t \in Tasks, w, v \in Workers : ProposeHandoff(h, t, w, v)
    \/ AcceptHandoff(h)
    \/ \E status \in {"rejected", "cancelled"} : CloseHandoff(h, status)

Next ==
    \/ \E c \in Calls : Execute(c)
    \/ \E q \in Requests : Learn(q)
    \/ \E k \in Wakers : Wake(k)
    \/ \E a \in Approvals : Approve(a)
    \/ \E h \in Handoffs : HandOver(h)
    \/ \E w, v \in Workers : Offboard(w, v)

\* The sweep runs on a timer and a started sweep is carried through.
SweepFairness ==
    \A k \in Wakers :
        /\ WF_vars(Sweep(k))
        /\ WF_vars(\E e \in wake[k].todo : WakeRead(k, e))
        /\ WF_vars(WakeWrite(k))

Spec == Init /\ [][Next]_vars /\ SweepFairness
-----------------------------------------------------------------------------
(* Properties *)

Running(c) == call[c].pc = "running"

\* Type invariant: the records of org_tasks, learning_requests, org_approvals
\* and org_handoffs, and the locals of an execute call.
WorkforceTypeOK ==
    /\ task \in [Tasks -> [status : Statuses, holder : Workers, reason : Reasons,
                           wakes : Nat, lastWake : EventIds \cup {NoEvent}]]
    /\ worker \in [Workers -> {"active", "offboarded"}]
    /\ request \in [Requests -> [status : RequestStatuses, persona : Workers \cup {None},
                                 cap : Caps \cup {None}, origin : Tasks \cup {None}]]
    /\ approval \in [Approvals -> [status : ApprovalStatuses, task : Tasks \cup {None},
                                   requester : Workers \cup {None}, risk : Risks,
                                   mode : {"human_only", "org_or_human"}, used : BOOLEAN]]
    /\ handoff \in [Handoffs -> [status : HandoffStatuses, task : Tasks \cup {None},
                                 from : Workers \cup {None}, to : Workers \cup {None}]]
    /\ call \in [Calls -> [pc : CallSteps, task : Tasks \cup {None},
                           worker : Workers \cup {None}, approval : Approvals \cup {None},
                           missing : SUBSET Caps, target : Workers \cup {None},
                           risk : Risks]]
    /\ wake \in [Wakers -> [todo : SUBSET [task : Tasks, persona : Workers \cup {None},
                                           cause : Requests \cup {"sweep"}],
                            plan : SUBSET [task : Tasks, id : EventIds, resume : BOOLEAN]]]
    /\ signals \subseteq Requests
    /\ paid \in [Approvals -> Nat]
    /\ resumes \in [Tasks -> Nat] /\ outrun \subseteq Tasks

\* While a tool runs its task is in_progress, and no second call runs it: the
\* claim is a compare-and-set and no handoff, wake, degrade or offboarding
\* writes the status of a task in progress.
RunExclusive ==
    \A c \in Calls : Running(c) =>
        /\ task[call[c].task].status = "in_progress"
        /\ \A d \in Calls \ {c} : Running(d) => call[d].task # call[c].task

\* A tool runs only for a worker that has learned everything the task requires,
\* although the gap check is many steps and races old.
SkilledRun == \A c \in Calls : Running(c) => Gaps(call[c].task, call[c].worker) = {}

\* One approval lets at most one run through (audit 407): two calls carrying the
\* same approval, a retry after a confirmation, a wake.
OneRunPerApproval == \A a \in Approvals : paid[a] <= 1

\* A run above low risk holds a spent approval for this task, this worker and
\* at least this risk.
RiskyRunApproved ==
    \A c \in Calls : Running(c) /\ call[c].risk # "low" =>
        /\ call[c].approval # None
        /\ LET a == approval[call[c].approval]
           IN  /\ a.status = "approved" /\ a.used
               /\ a.task = call[c].task
               /\ a.requester = call[c].worker
               /\ RiskOrder[a.risk] >= RiskOrder[call[c].risk]

\* A tool runs only for a worker entitled to it: alone on its task, and with every
\* skill the task requires at the moment of the run.
RunIsEntitled == WorkforceTypeOK /\ RunExclusive /\ SkilledRun

\* An approval covers the one run it lets through, whatever calls, retries and
\* replicas carry it.
ApprovalCoversRun == OneRunPerApproval /\ RiskyRunApproved

\* However many events and sweeps of several replicas race, a task is resumed no
\* more often than its budget and once for each further replica, whose count was
\* read before; and within its budget while no two of them worked on it.
ResumeBudget ==
    \A t \in Tasks : /\ resumes[t] < MaxResume + Cardinality(Wakers)
                     /\ t \notin outrun => resumes[t] <= MaxResume

\* The sweep never resumes a task that is blocked because its tool failed
\* (audit 408), which would replay the side effect; unless another replica woke
\* it between the sweep's list and its turn.
SweepSparesFailures ==
    [][\A t \in Tasks :
            /\ task[t].status = "blocked"
            /\ task[t].reason = "execution_failure"
            /\ task'[t].status = "delegated"
            => task'[t].lastWake[1] = "event" \/ t \in outrun]_vars

\* A wake is bounded and safe: within the budget, and never of a failed tool by
\* the sweep.
ResumeIsSafe == []ResumeBudget /\ SweepSparesFailures

\* Suspended, its holder w has learned everything, this sweep has not been
\* recorded yet, and the budget outlasts one stale attempt in flight.
Learnt(t, w) == /\ task[t].status = "blocked"
                /\ task[t].reason = "capability_gap"
                /\ task[t].holder = w
                /\ Gaps(t, w) = {}
                /\ task[t].wakes + 1 < MaxResume
                /\ task[t].lastWake # <<"sweep", w, Learned(w)>>

Resumed(t, w) == task[t].status # "blocked" \/ task[t].holder # w

\* A suspended task that some learning request names is resumed once its holder
\* has learned everything, although every event may be lost.
RegisteredTaskResumes ==
    \A t \in Tasks, w \in Workers : (Learnt(t, w) /\ Registered(t)) ~> Resumed(t, w)

\* The reconciler's promise (task-wake-reconciler.ts:4): every blocked task is
\* resumed at the latest by the next sweep once its skills have been learned.
LearntTaskResumes == \A t \in Tasks, w \in Workers : Learnt(t, w) ~> Resumed(t, w)
=============================================================================
