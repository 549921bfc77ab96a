------------------------------ MODULE TaskQueue ------------------------------
(***************************************************************************)
(* The database-driven task queue (TaskQueue) and the workers of the       *)
(* replicas that drain it (TaskWorker).  The rows of table "tasks" are the *)
(* shared state; slot records are the memory of one worker process.        *)
(*                                                                         *)
(* Every SQL statement is one step.  Time is kept as relative timers (how  *)
(* long a row or an attempt has been in its state), capped where a longer  *)
(* wait makes no difference.                                               *)
(***************************************************************************)
EXTENDS Naturals, FiniteSets

CONSTANTS
    Tasks,          \* the task ids that may be enqueued
    Workers,        \* worker processes, one per replica
    Slots,          \* concurrency slots of a worker (maxConcurrent)
    Api,            \* API request threads that enqueue
    Tenants,
    TenantOf,       \* [Tasks -> Tenants]
    Priority,       \* [Tasks -> Nat]
    MaxRetries,     \* [Tasks -> Nat], column max_retries
    WorkerRetries,  \* TaskWorker.maxRetries, used when max_retries is 0
    Unregistered,   \* tasks whose type has no handler
    MaxPending,     \* maxPendingPerTenant, 0 for no limit
    Timeout,        \* [Tasks -> Nat \ {0}], the timeout its type was registered with
    StaleAfter,     \* staleThresholdMs of the reaper
    Retention,      \* completedRetentionMs
    MaxBackoff,     \* cap of the retry delay
    StallTicks,     \* STALL_TICKS_THRESHOLD of isHealthy
    MaxCrashes,     \* bound: how many times worker processes go down
    MaxStalls,      \* bound: how many times a worker process freezes
    Nobody          \* "no task" and "no worker"

ASSUME QueueAssumption ==
    /\ TenantOf \in [Tasks -> Tenants]
    /\ Priority \in [Tasks -> Nat]
    /\ MaxRetries \in [Tasks -> Nat]
    /\ WorkerRetries \in Nat
    /\ Unregistered \subseteq Tasks
    /\ MaxPending \in Nat
    /\ IsFiniteSet(Api)
    /\ Timeout \in [Tasks -> Nat \ {0}]
    /\ StaleAfter \in Nat
    /\ Retention \in Nat /\ StaleAfter <= Retention
    /\ \A t \in Tasks : Timeout[t] <= Retention
    /\ MaxBackoff \in Nat
    /\ StallTicks \in Nat
    /\ MaxCrashes \in Nat
    /\ MaxStalls \in Nat
    /\ Nobody \notin Tasks \cup Workers

VARIABLES
    status,      \* column status, "absent" before the insert, "purged" after the delete
    retryCount,  \* column retry_count
    wait,        \* time left until available_at
    claimedBy,   \* column claimed_by
    age,         \* time since claimed_at / updated_at was stamped
    older,       \* the pairs <<t, u>> such that created_at of t is before that of u
    inserting,   \* the insert an API thread has passed the quota count of
    proc,        \* state of a worker process
    candidate,   \* the row a dequeue transaction has selected and not yet claimed
    slot,        \* the attempts a worker holds a slot for
    saturated,   \* saturatedTicks
    crashes, stalls,                 \* how much of the bounds is used
    claims,      \* history: successful claims of each task
    cancelled,   \* history: tasks whose cancellation the API confirmed
    slept,       \* history: tasks of an attempt whose process was frozen while time passed
    overtaken,   \* history: tasks the reaper took from an attempt that was still held
    crowded      \* history: tenants of which one insert was counted while another was under way

rowVars  == <<status, retryCount, wait, claimedBy, age, older>>
procVars == <<proc, candidate, slot, saturated>>
budget   == <<crashes, stalls>>
history  == <<claims, cancelled, slept, overtaken, crowded>>
vars == <<rowVars, inserting, procVars, budget, history>>

Slot    == Workers \X Slots
Status  == {"absent", "pending", "running", "completed", "failed", "purged"}
Settled == {"completed", "failed", "purged"}
\* listed: the worker finds the controller of the attempt by the task's id.
Attempt == [task: Tasks \cup {Nobody}, retry: Nat, elapsed: Nat, aborted: BOOLEAN, listed: BOOLEAN]
Free    == [task |-> Nobody, retry |-> 0, elapsed |-> 0, aborted |-> FALSE, listed |-> FALSE]
AgeCap  == Retention + 1

Init ==
    /\ status = [t \in Tasks |-> "absent"]
    /\ retryCount = [t \in Tasks |-> 0]
    /\ wait = [t \in Tasks |-> 0]
    /\ claimedBy = [t \in Tasks |-> Nobody]
    /\ age = [t \in Tasks |-> 0]
    /\ older = {}
    /\ inserting = [a \in Api |-> Nobody]
    /\ proc = [w \in Workers |-> "up"]
    /\ candidate = [w \in Workers |-> Nobody]
    /\ slot = [p \in Slot |-> Free]
    /\ saturated = [w \in Workers |-> 0]
    /\ crashes = 0 /\ stalls = 0
    /\ claims = [t \in Tasks |-> 0]
    /\ cancelled = {}
    /\ slept = {} /\ overtaken = {}
    /\ crowded = {}

-----------------------------------------------------------------------------
(* An operator named X_y is the variant of X in which a plausible defect y  *)
(* replaces X: no specification uses it; it shows that a property can fail. *)

-----------------------------------------------------------------------------
(* Enqueue.  The statement counts the tenant's live tasks on its snapshot   *)
(* and inserts; the inserts of two replicas may both be counted before      *)
(* either commits.                                                          *)

Live(tenant) == {t \in Tasks : TenantOf[t] = tenant /\ status[t] \in {"pending", "running"}}

Counted_OnlyPending(tenant) == {t \in Tasks : TenantOf[t] = tenant /\ status[t] = "pending"}

\* The rows the insert's subquery counts.
Counted(tenant) == Live(tenant)

\* The inserts that have been counted and have not committed.
Inserts(tenant) == {a \in Api : inserting[a] # Nobody /\ TenantOf[inserting[a]] = tenant}

EnqueueCount(a, t) ==
    /\ inserting[a] = Nobody
    /\ status[t] = "absent"
    /\ \A b \in Api : inserting[b] # t
    /\ MaxPending = 0 \/ Cardinality(Counted(TenantOf[t])) < MaxPending
    /\ inserting' = [inserting EXCEPT ![a] = t]
    /\ crowded' = IF Inserts(TenantOf[t]) = {} THEN crowded ELSE crowded \cup {TenantOf[t]}
    /\ UNCHANGED <<rowVars, procVars, budget, claims, cancelled, slept, overtaken>>

EnqueueInsert(a) ==
    LET t == inserting[a] IN
    /\ t # Nobody
    /\ inserting' = [inserting EXCEPT ![a] = Nobody]
    /\ status' = [status EXCEPT ![t] = "pending"]
    /\ older' = older \cup ({u \in Tasks : status[u] # "absent"} \X {t})
    /\ UNCHANGED <<retryCount, wait, claimedBy, age, procVars, budget, history>>

-----------------------------------------------------------------------------
(* Dequeue: select the best candidate, then claim it with a compare-and-set *)
(* on status.  Both run in one transaction, which at READ COMMITTED lets    *)
(* another replica claim the row in between.                                *)

Due(t) == status[t] = "pending" /\ wait[t] = 0

Load(tenant) == Cardinality({t \in Tasks : TenantOf[t] = tenant /\ status[t] = "running"})

Ahead(t, u) ==
    \/ Priority[t] > Priority[u]
    \/ /\ Priority[t] = Priority[u]
       /\ Load(TenantOf[t]) < Load(TenantOf[u])
    \/ /\ Priority[t] = Priority[u]
       /\ Load(TenantOf[t]) = Load(TenantOf[u])
       /\ <<t, u>> \in older

HasFreeSlot(w) == \E s \in Slots : slot[<<w, s>>] = Free

\* The event loop of w runs: it is not frozen, not down and not inside a database call.
Responsive(w) == proc[w] \in {"up", "draining"} /\ candidate[w] = Nobody

SelectCandidate(w, t) ==
    /\ proc[w] = "up" /\ candidate[w] = Nobody
    /\ HasFreeSlot(w)
    /\ Due(t) /\ \A u \in Tasks : Due(u) => ~Ahead(u, t)
    /\ candidate' = [candidate EXCEPT ![w] = t]
    /\ UNCHANGED <<rowVars, inserting, proc, slot, saturated, budget, history>>

\* WHERE id = ? AND status = 'pending'
ClaimMatches_NoCas(t) == status[t] \notin {"absent", "purged"}
ClaimMatches(t) == status[t] = "pending"

\* activeAbortControllers holds one controller per task id: a second attempt of a
\* task in the same worker replaces it, and the first of them to end deletes it.
Unlisted(w, t) ==
    [p \in Slot |-> IF p[1] = w /\ slot[p].task = t THEN [slot[p] EXCEPT !.listed = FALSE] ELSE slot[p]]

ClaimWon(w, s) ==
    LET t == candidate[w] IN
    /\ proc[w] = "up" /\ t # Nobody
    /\ slot[<<w, s>>] = Free
    /\ ClaimMatches(t)
    /\ status' = [status EXCEPT ![t] = "running"]
    /\ claimedBy' = [claimedBy EXCEPT ![t] = w]
    /\ age' = [age EXCEPT ![t] = 0]
    /\ slot' = [Unlisted(w, t) EXCEPT ![<<w, s>>] =
                  [task |-> t, retry |-> retryCount[t], elapsed |-> 0, aborted |-> FALSE,
                   listed |-> t \notin Unregistered]]
    /\ candidate' = [candidate EXCEPT ![w] = Nobody]
    /\ saturated' = [saturated EXCEPT ![w] = 0]
    /\ claims' = [claims EXCEPT ![t] = @ + 1]
    /\ UNCHANGED <<retryCount, wait, older, inserting, proc, budget, cancelled, slept, overtaken, crowded>>

\* rowsAffected = 0: dequeue returns undefined and the polling loop ends.
ClaimLost(w) ==
    /\ proc[w] = "up" /\ candidate[w] # Nobody
    /\ ~ClaimMatches(candidate[w])
    /\ candidate' = [candidate EXCEPT ![w] = Nobody]
    /\ UNCHANGED <<rowVars, inserting, proc, slot, saturated, budget, history>>

\* A poll that finds every slot taken counts towards the stall alarm; one
\* that finds a free slot and nothing due resets it.
PollSaturated(w) ==
    /\ proc[w] = "up" /\ candidate[w] = Nobody
    /\ ~HasFreeSlot(w) /\ saturated[w] < StallTicks
    /\ saturated' = [saturated EXCEPT ![w] = @ + 1]
    /\ UNCHANGED <<rowVars, inserting, proc, candidate, slot, budget, history>>

PollEmpty(w) ==
    /\ proc[w] = "up" /\ candidate[w] = Nobody
    /\ HasFreeSlot(w) /\ saturated[w] > 0
    /\ \A t \in Tasks : ~Due(t)
    /\ saturated' = [saturated EXCEPT ![w] = 0]
    /\ UNCHANGED <<rowVars, inserting, proc, candidate, slot, budget, history>>

IsHealthy(w) == proc[w] = "up" /\ (HasFreeSlot(w) \/ saturated[w] < StallTicks)

-----------------------------------------------------------------------------
(* handleTask.  The updates that end an attempt name the row by id only: no *)
(* predicate on status or claimed_by.                                       *)

Exists(t) == status[t] \notin {"absent", "purged"}

WriteStatus(t, s) ==
    /\ status' = IF Exists(t) THEN [status EXCEPT ![t] = s] ELSE status
    /\ age' = IF Exists(t) THEN [age EXCEPT ![t] = 0] ELSE age

Release(p) == slot' = [Unlisted(p[1], slot[p].task) EXCEPT ![p] = Free]

RetryLimit(t) == IF MaxRetries[t] = 0 THEN WorkerRetries ELSE MaxRetries[t]

Backoff(r) == LET d == 2 ^ r IN IF d \in 0 .. MaxBackoff THEN d ELSE MaxBackoff

MayRetry_OffByOne(a) == a.retry + 1 <= RetryLimit(a.task)
MayRetry(a) == a.retry + 1 < RetryLimit(a.task)

\* The catch branch: retry with what the attempt read at dequeue, or give up.
RetryOrFail(p) ==
    LET a == slot[p]  t == a.task IN
    IF MayRetry(a)
    THEN /\ WriteStatus(t, "pending")
         /\ retryCount' = IF Exists(t) THEN [retryCount EXCEPT ![t] = a.retry + 1] ELSE retryCount
         /\ wait' = IF Exists(t) THEN [wait EXCEPT ![t] = Backoff(a.retry)] ELSE wait
    ELSE /\ WriteStatus(t, "failed")
         /\ UNCHANGED <<retryCount, wait>>

Holds(p) == Responsive(p[1]) /\ slot[p].task # Nobody

RejectUnknown(p) ==
    /\ Holds(p) /\ slot[p].task \in Unregistered
    /\ WriteStatus(slot[p].task, "failed")
    /\ Release(p)
    /\ UNCHANGED <<retryCount, wait, claimedBy, older, inserting, proc, candidate, saturated, budget, history>>

HandlerSucceeds(p) ==
    /\ Holds(p) /\ slot[p].task \notin Unregistered /\ ~slot[p].aborted
    /\ WriteStatus(slot[p].task, "completed")
    /\ Release(p)
    /\ UNCHANGED <<retryCount, wait, claimedBy, older, inserting, proc, candidate, saturated, budget, history>>

HandlerFails(p) ==
    /\ Holds(p) /\ slot[p].task \notin Unregistered /\ ~slot[p].aborted
    /\ RetryOrFail(p)
    /\ Release(p)
    /\ UNCHANGED <<claimedBy, older, inserting, proc, candidate, saturated, budget, history>>

\* The signal is only looked at once the handler has answered.
AbortSeen_AfterHandler(a) == a.aborted
AbortSeen(a) == a.aborted \/ a.elapsed >= Timeout[a.task]

\* The abort signal (timer or cancellation) settles the race without the handler.
AbortSettles(p) ==
    /\ Holds(p) /\ slot[p].task \notin Unregistered
    /\ AbortSeen(slot[p])
    /\ RetryOrFail(p)
    /\ Release(p)
    /\ UNCHANGED <<claimedBy, older, inserting, proc, candidate, saturated, budget, history>>

\* TaskQueryService.cancelTask on the replica that runs the attempt: abort the
\* controller, then mark the row failed.  The abort is noticed later, by AbortSettles.
CancelTask(p) ==
    LET t == slot[p].task IN
    /\ Holds(p) /\ slot[p].listed /\ ~slot[p].aborted
    /\ Exists(t)
    /\ slot' = [slot EXCEPT ![p].aborted = TRUE]
    /\ WriteStatus(t, "failed")
    /\ cancelled' = cancelled \cup {t}
    /\ UNCHANGED <<retryCount, wait, claimedBy, older, inserting, proc, candidate, saturated, budget, claims, slept, overtaken, crowded>>

-----------------------------------------------------------------------------
(* Reaper and purge timers.                                                 *)

Stale_AnyStatus(t) == Exists(t) /\ age[t] > StaleAfter
Stale_OnlyUnclaimed(t) == status[t] = "running" /\ claimedBy[t] = Nobody /\ age[t] > StaleAfter
Stale(t) == status[t] = "running" /\ age[t] > StaleAfter

Reapable(t) == retryCount[t] < MaxRetries[t]

ReapedStatus_Untyped(t) == IF Reapable(t) THEN "pending" ELSE "exhausted"
ReapedStatus(t) == IF Reapable(t) THEN "pending" ELSE "failed"

ReapedCount_Reset(t) == 0
ReapedCount(t) == IF Reapable(t) THEN retryCount[t] + 1 ELSE retryCount[t]

\* Two statements, each row touched by exactly one of them.  Neither asks whether the
\* attempt that claimed the row is still within the timeout of its type.
Reap(w) ==
    /\ proc[w] = "up" /\ candidate[w] = Nobody
    /\ \E t \in Tasks : Stale(t)
    /\ status' = [t \in Tasks |-> IF Stale(t) THEN ReapedStatus(t) ELSE status[t]]
    /\ retryCount' = [t \in Tasks |-> IF Stale(t) THEN ReapedCount(t) ELSE retryCount[t]]
    /\ wait' = [t \in Tasks |-> IF Stale(t) /\ Reapable(t) THEN 0 ELSE wait[t]]
    /\ claimedBy' = [t \in Tasks |-> IF Stale(t) THEN Nobody ELSE claimedBy[t]]
    /\ age' = [t \in Tasks |-> IF Stale(t) THEN 0 ELSE age[t]]
    /\ overtaken' = overtaken \cup {t \in Tasks : Stale(t) /\ \E p \in Slot : slot[p].task = t}
    /\ UNCHANGED <<older, inserting, procVars, budget, claims, cancelled, slept, crowded>>

Expired(t) == status[t] \in {"completed", "failed"} /\ age[t] > Retention

PurgeCompleted(w) ==
    /\ proc[w] = "up" /\ candidate[w] = Nobody
    /\ \E t \in Tasks : Expired(t)
    /\ status' = [t \in Tasks |-> IF Expired(t) THEN "purged" ELSE status[t]]
    /\ UNCHANGED <<retryCount, wait, claimedBy, age, older, inserting, procVars, budget, history>>

-----------------------------------------------------------------------------
(* Processes and time.                                                      *)

GoDown(w) ==
    /\ proc' = [proc EXCEPT ![w] = "down"]
    /\ candidate' = [candidate EXCEPT ![w] = Nobody]
    /\ slot' = [p \in Slot |-> IF p[1] = w THEN Free ELSE slot[p]]
    /\ saturated' = [saturated EXCEPT ![w] = 0]
    /\ UNCHANGED <<rowVars, inserting, stalls, history>>

Crash(w) ==
    /\ proc[w] \in {"up", "stalled"} /\ crashes < MaxCrashes
    /\ crashes' = crashes + 1
    /\ GoDown(w)

\* stop() clears the timers and waits for the attempts in flight.
Stop(w) ==
    /\ proc[w] = "up" /\ candidate[w] = Nobody /\ crashes < MaxCrashes
    /\ crashes' = crashes + 1
    /\ proc' = [proc EXCEPT ![w] = "draining"]
    /\ UNCHANGED <<rowVars, inserting, candidate, slot, saturated, stalls, history>>

\* All attempts ended, or drainTimeoutMs is over with some still in flight.
Exit(w) ==
    /\ proc[w] = "draining"
    /\ UNCHANGED crashes
    /\ GoDown(w)

Restart(w) ==
    /\ proc[w] = "down"
    /\ proc' = [proc EXCEPT ![w] = "up"]
    /\ UNCHANGED <<rowVars, inserting, candidate, slot, saturated, budget, history>>

Stall(w) ==
    /\ proc[w] = "up" /\ stalls < MaxStalls
    /\ stalls' = stalls + 1
    /\ proc' = [proc EXCEPT ![w] = "stalled"]
    /\ UNCHANGED <<rowVars, inserting, candidate, slot, saturated, crashes, history>>

Resume(w) ==
    /\ proc[w] = "stalled"
    /\ proc' = [proc EXCEPT ![w] = "up"]
    /\ UNCHANGED <<rowVars, inserting, candidate, slot, saturated, budget, history>>

\* A running event loop fires its timers and settles its aborts before time passes on.
NothingOverdue ==
    \A p \in Slot :
        proc[p[1]] \in {"up", "draining"} /\ slot[p].task # Nobody =>
            /\ slot[p].elapsed < Timeout[slot[p].task]
            /\ ~slot[p].aborted
            /\ slot[p].task \notin Unregistered

Capped(n, cap) == IF n < cap THEN n + 1 ELSE n

Tick ==
    /\ NothingOverdue
    /\ age' = [t \in Tasks |->
          IF status[t] \in {"running", "completed", "failed"} THEN Capped(age[t], AgeCap) ELSE age[t]]
    /\ wait' = [t \in Tasks |-> IF wait[t] > 0 THEN wait[t] - 1 ELSE 0]
    /\ slot' = [p \in Slot |->
          IF slot[p].task = Nobody THEN slot[p]
          ELSE [slot[p] EXCEPT !.elapsed = Capped(@, AgeCap)]]
    /\ slept' = slept \cup {t \in Tasks : \E p \in Slot : slot[p].task = t /\ proc[p[1]] = "stalled"}
    /\ UNCHANGED <<status, retryCount, claimedBy, older, inserting, proc, candidate, saturated, budget, claims,
                   cancelled, overtaken, crowded>>

-----------------------------------------------------------------------------
Next ==
    \/ \E a \in Api : EnqueueInsert(a) \/ \E t \in Tasks : EnqueueCount(a, t)
    \/ \E w \in Workers :
          \/ \E t \in Tasks : SelectCandidate(w, t)
          \/ \E s \in Slots : ClaimWon(w, s)
          \/ ClaimLost(w) \/ PollSaturated(w) \/ PollEmpty(w)
          \/ Reap(w) \/ PurgeCompleted(w)
          \/ Crash(w) \/ Stop(w) \/ Exit(w) \/ Restart(w) \/ Stall(w) \/ Resume(w)
    \/ \E p \in Slot :
          RejectUnknown(p) \/ HandlerSucceeds(p) \/ HandlerFails(p) \/ AbortSettles(p) \/ CancelTask(p)
    \/ Tick

Spec == Init /\ [][Next]_vars

\* setInterval keeps polling and reaping on a live replica, the timeout timer
\* and the abort listener fire, the orchestrator restarts what went down, a
\* frozen process resumes, a started insert finishes, and time passes.  A
\* handler that neither resolves nor rejects is allowed.
Fairness ==
    /\ WF_vars(Tick)
    /\ \A a \in Api : WF_vars(EnqueueInsert(a))
    /\ \A w \in Workers :
          /\ WF_vars(\E t \in Tasks : SelectCandidate(w, t))
          /\ WF_vars(\E s \in Slots : ClaimWon(w, s))
          /\ WF_vars(ClaimLost(w))
          /\ WF_vars(PollSaturated(w))
          /\ WF_vars(PollEmpty(w))
          /\ WF_vars(Reap(w))
          /\ WF_vars(Exit(w))
          /\ WF_vars(Restart(w))
          /\ WF_vars(Resume(w))
    /\ \A p \in Slot : WF_vars(RejectUnknown(p)) /\ WF_vars(AbortSettles(p))

FairSpec == Spec /\ Fairness

-----------------------------------------------------------------------------
(* Properties.                                                              *)

\* Every row, timer and slot record has its type.
TypeOK ==
    /\ status \in [Tasks -> Status]
    /\ retryCount \in [Tasks -> Nat]
    /\ wait \in [Tasks -> Nat]
    /\ claimedBy \in [Tasks -> Workers \cup {Nobody}]
    /\ age \in [Tasks -> 0 .. AgeCap]
    /\ older \subseteq Tasks \X Tasks
    /\ inserting \in [Api -> Tasks \cup {Nobody}]
    /\ proc \in [Workers -> {"up", "stalled", "draining", "down"}]
    /\ candidate \in [Workers -> Tasks \cup {Nobody}]
    /\ slot \in [Slot -> Attempt]
    /\ saturated \in [Workers -> 0 .. StallTicks]
    /\ crashes \in 0 .. MaxCrashes /\ stalls \in 0 .. MaxStalls
    /\ claims \in [Tasks -> Nat]
    /\ cancelled \subseteq Tasks
    /\ slept \subseteq Tasks /\ overtaken \subseteq Tasks
    /\ crowded \subseteq Tenants

Busy(p) == slot[p].task # Nobody

\* The reaper's threshold (300 s) is no bound of an attempt: a type registered with a
\* longer timeout (bulk_knowledge_import, 600 s) outlives it, and so does a frozen
\* process.  These are the only ways to lose the row of an attempt that goes on.
OvertakenForCause == overtaken \subseteq slept \cup {t \in Tasks : Timeout[t] > StaleAfter}

\* The attempts of all replicas own their rows although no update is fenced by
\* claimed_by: unless the reaper overtook the task, two slots never hold it, and
\* the row of an attempt is running, claimed by the attempt's worker, with the
\* retry count the attempt read (failed, once the attempt was cancelled).  This is
\* what complete, fail and reschedule by id rely on; and a task is only ever
\* overtaken if its timeout is longer than the reaper's threshold or its process
\* was frozen.
AttemptOwnsRow ==
    /\ OvertakenForCause
    /\ \A p \in Slot : Busy(p) /\ slot[p].task \notin overtaken =>
          LET t == slot[p].task IN
          /\ \A q \in Slot : slot[q].task = t => p = q
          /\ IF slot[p].aborted
             THEN status[t] \in {"failed", "purged"}
             ELSE /\ status[t] = "running"
                  /\ claimedBy[t] = p[1]
                  /\ retryCount[t] = slot[p].retry

RunLimit(t) ==
    IF MaxRetries[t] = 0 /\ WorkerRetries > 0 THEN WorkerRetries ELSE MaxRetries[t] + 1

\* Worker retries (retry + 1 < max) and reaper retries (retry < max) together
\* never start a task more than max_retries + 1 times, nor more often than the
\* worker's own limit when max_retries is 0, unless the reaper overtook it: then
\* the late answer of the first attempt takes back what the reaper counted.
RunBudget ==
    \A t \in Tasks \ overtaken : claims[t] <= RunLimit(t)

\* Whatever workers, reaper and purge do in between, the enqueue statement keeps a
\* tenant's live rows within its quota, but for two things: inserts of the tenant
\* that overlap exceed it together, by at most one for each other API thread; and a
\* task that was cancelled or overtaken may come back from its end beside them.
QuotaBound ==
    MaxPending > 0 => \A tenant \in Tenants :
        Cardinality(Live(tenant) \ (cancelled \cup overtaken)) + Cardinality(Inserts(tenant))
            <= MaxPending + (IF tenant \in crowded THEN Cardinality(Api) - 1 ELSE 0)

\* A completed or failed task is never touched again but by the purge: no late
\* answer of an earlier attempt, no reaper and no claim brings it back, unless it
\* was cancelled or overtaken.
SettledIsFinal ==
    [][\A t \in Tasks \ (cancelled \cup overtaken) :
          status[t] \in Settled => status'[t] \in {status[t], "purged"}]_vars

\* retry_count never goes back: an attempt that read an old count does not
\* overwrite what the reaper counted since, unless the reaper overtook it.
RetryNeverForgotten ==
    [][\A t \in Tasks \ overtaken : retryCount'[t] >= retryCount[t]]_vars

\* What the reaper's comments promise ("回收卡死任务：将超时的 running 任务重置为
\* pending"): it takes the rows of attempts that are dead or stuck, never that of
\* an attempt that runs within its timeout in a process that runs.
OnlyStuckIsReaped == overtaken \subseteq slept

\* What the cancel route confirms ({cancelled: true}, row failed) stays so: a
\* cancelled task is not run again.
CancelIsFinal == \A t \in cancelled : status[t] \in Settled

\* Every task that was enqueued ends: no slot leak, lost claim, crash or hung
\* handler keeps it pending or running for ever.
EveryTaskSettles == \A t \in Tasks : status[t] = "pending" ~> status[t] \in Settled

\* The stall alarm of isHealthy always clears: a timed-out handler gives its
\* slot back even if it never returns.
AlarmClears == \A w \in Workers : proc[w] = "up" /\ ~IsHealthy(w) ~> proc[w] # "up" \/ IsHealthy(w)
=============================================================================
