----------------------------- MODULE Marketplace -----------------------------
(***************************************************************************)
(* PersonaMarketplaceService: one published task, the personas that apply  *)
(* for it, work on it and are paid, and their wallets.                     *)
(*                                                                         *)
(* A request reads its rows with statements of their own and then writes;  *)
(* between the two, other requests run, also where both are in one         *)
(* transaction: it is READ COMMITTED and locks nothing it reads.  What a   *)
(* request has read and still uses is in request[r].  Wallets and personas *)
(* are active throughout; assigned_at and created_at order rows as         *)
(* inserted.                                                               *)
(***************************************************************************)
EXTENDS Integers, Sequences, FiniteSets, FiniteSetsExt, Functions

CONSTANTS
    Personas,
    Requests,       \* the requests that may be in progress at a time
    Reward,         \* toMinor(reward): a positive reward may round to 0 minor units
    QualityPay,     \* payouts of completeTask: round(reward * max(quality, 0.2), 2)
    Splits,         \* the [owner, persona, platform] percentages callers send
    PayoutKeys,     \* the idempotency keys of payout requests
    PayoutAmount,   \* the amount each of them asks for
    MaxAssignments, \* bound: rows in task_assignments
    MaxResults,     \* bound: rows in task_results
    MaxCrashes,     \* bound: how many requests die half-way
    NoOne

ASSUME MarketplaceAssumption ==
    /\ Reward \in Nat
    /\ QualityPay \subseteq 0 .. Reward
    /\ \A s \in Splits : /\ s \in [owner: 0 .. 100, persona: 0 .. 100, platform: 0 .. 100]
                         /\ s.owner + s.persona + s.platform = 100
    /\ PayoutAmount \in Nat \ {0}
    /\ MaxAssignments \in Nat \ {0} /\ MaxResults \in Nat \ {0} /\ MaxCrashes \in Nat
    /\ NoOne \notin Personas

VARIABLES
    task,           \* marketplace_tasks: status and assignee
    application,    \* task_applications: the status of a persona's application
    assignments,    \* task_assignments with the statuses of their task_results
    settlements,    \* wallet_settlements
    balance,        \* persona_wallets.balance, in minor units
    journal,        \* sum of a wallet's wallet_transactions
    payouts,        \* wallet_payout_requests: the wallet an idempotency key was used for
    request,        \* what the requests do and what they have read
    crashes,
    payments,       \* history: task_payment entries written to the journal
    growth,         \* history: task_completed growth events
    slips           \* history: the windows that the code leaves open and were hit

board  == <<task, application, assignments>>
money  == <<settlements, balance, journal, payouts, payments>>
vars == <<board, money, request, crashes, growth, slips>>

AssignmentStatus == {"assigned", "submitted", "accepted", "rejected", "disputed"}
ResultStatus == {"submitted", "accepted", "rejected", "disputed"}
Assignment == [persona: Personas, applied: BOOLEAN, status: AssignmentStatus, results: Seq(ResultStatus)]
Steps == {"idle", "apply", "assign", "take", "submit", "accept", "settle", "pay", "reject", "dispute",
          "route", "anchor", "complete", "payout"}
Slips == {"stray",     \* an assignment was inserted although the task was taken
          "swapped",   \* a task was closed or reopened on behalf of an older assignment
          "reopened",  \* a task was reopened after it was paid
          "older",     \* an older assignment was settled by route
          "late",      \* the task left the persona before its settlement by route was written
          "rounded",   \* a task was completed for a payout that rounds to nothing
          "cut"}       \* a request died between acceptance and settlement

Idle == [step |-> "idle", who |-> NoOne, on |-> 0, result |-> 0]

Init ==
    /\ task = [status |-> "open", assignee |-> NoOne]
    /\ application = [p \in Personas |-> "none"]
    /\ assignments = <<>>
    /\ settlements = {}
    /\ balance = [p \in Personas |-> 0]
    /\ journal = [p \in Personas |-> 0]
    /\ payouts = [k \in PayoutKeys |-> NoOne]
    /\ request = [r \in Requests |-> Idle]
    /\ crashes = 0
    /\ payments = 0 /\ growth = 0 /\ slips = {}

(* An operator named X_y is the variant of X in which a plausible defect y  *)
(* replaces X: no specification uses it; it shows that a property can fail. *)

Latest == Len(assignments)
LatestResult(a) == Len(assignments[a].results)
Results == MapThenSumSet(LatestResult, 1 .. Latest)
StatusOf(a) == assignments[a].status
Settled(a) == \E s \in settlements : s.assignment = a

At(r, step) == request[r].step = step
Go(r, step) == request' = [request EXCEPT ![r].step = step]
Begin(r, step, who, on, result) ==
    /\ At(r, "idle")
    /\ request' = [request EXCEPT ![r] = [step |-> step, who |-> who, on |-> on, result |-> result]]
Return(r) == request' = [request EXCEPT ![r] = Idle]

\* A request that has accepted a result and has not paid for it yet.
Owes(r) == At(r, "settle") \/ At(r, "pay")

Window(what, happened) == IF happened THEN {what} ELSE {}
Slip(what, happened) == slips' = slips \cup Window(what, happened)

-----------------------------------------------------------------------------
(* Applying for the task, and the two ways to get it.                       *)

ReadToApply(r, p) ==
    /\ task.status = "open" /\ application[p] = "none"
    /\ Begin(r, "apply", p, 0, 0)
    /\ UNCHANGED <<board, money, crashes, growth, slips>>

\* The unique index on (task, persona) makes a second insert throw.
Apply(r) ==
    LET p == request[r].who IN
    /\ At(r, "apply")
    /\ application' = IF application[p] = "none" THEN [application EXCEPT ![p] = "submitted"] ELSE application
    /\ Return(r)
    /\ UNCHANGED <<task, assignments, money, crashes, growth, slips>>

ReadToAssign(r, p) ==
    /\ task.status = "open" /\ application[p] = "submitted"
    /\ Latest > 0 => StatusOf(Latest) = "rejected"
    /\ Begin(r, "assign", p, 0, 0)
    /\ UNCHANGED <<board, money, crashes, growth, slips>>

ReadToTake(r, p) ==
    /\ task.status = "open"
    /\ Begin(r, "take", p, 0, 0)
    /\ UNCHANGED <<board, money, crashes, growth, slips>>

\* INSERT the assignment; UPDATE ... WHERE status = 'open', whose count of rows
\* nobody looks at.
Take(p, applied) ==
    /\ Latest < MaxAssignments
    /\ assignments' =
           Append(assignments, [persona |-> p, applied |-> applied, status |-> "assigned", results |-> <<>>])
    /\ task' = IF task.status = "open" THEN [status |-> "accepted", assignee |-> p] ELSE task
    /\ Slip("stray", task.status # "open")

AssignTask(r) ==
    /\ At(r, "assign")
    /\ Take(request[r].who, TRUE)
    /\ application' = [application EXCEPT ![request[r].who] = "assigned"]
    /\ Return(r)
    /\ UNCHANGED <<money, crashes, growth>>

AcceptTask(r) ==
    /\ At(r, "take")
    /\ Take(request[r].who, FALSE)
    /\ Return(r)
    /\ UNCHANGED <<application, money, crashes, growth>>

-----------------------------------------------------------------------------
(* Submitting a result, and the publisher's answers to it.                  *)

\* Also for an older assignment of the persona that holds the task.
ReadToSubmit(r, a) ==
    /\ Results < MaxResults
    /\ StatusOf(a) \in {"assigned", "rejected"}
    /\ task.assignee = assignments[a].persona
    /\ Begin(r, "submit", NoOne, a, 0)
    /\ UNCHANGED <<board, money, crashes, growth, slips>>

SubmitTaskResult(r) ==
    LET a == request[r].on IN
    /\ At(r, "submit") /\ Results < MaxResults
    /\ assignments' = [assignments EXCEPT ![a].status = "submitted", ![a].results = Append(@, "submitted")]
    /\ Return(r)
    /\ UNCHANGED <<task, application, money, crashes, growth, slips>>

AwaitsAnswer ==
    /\ Latest > 0 /\ StatusOf(Latest) = "submitted"
    /\ LatestResult(Latest) > 0 /\ assignments[Latest].results[LatestResult(Latest)] = "submitted"

\* A reward that rounds to nothing is refused before anything is written.
ReadToAccept(r) ==
    /\ task.assignee # NoOne /\ AwaitsAnswer
    /\ Reward > 0
    /\ Begin(r, "accept", NoOne, Latest, LatestResult(Latest))
    /\ UNCHANGED <<board, money, crashes, growth, slips>>

ReadToReject(r) ==
    /\ AwaitsAnswer
    /\ Begin(r, "reject", NoOne, Latest, LatestResult(Latest))
    /\ UNCHANGED <<board, money, crashes, growth, slips>>

ReadToDispute(r) ==
    /\ task.assignee # NoOne
    /\ Latest > 0 /\ StatusOf(Latest) \in {"submitted", "accepted"}
    /\ Begin(r, "dispute", NoOne, Latest, LatestResult(Latest))
    /\ UNCHANGED <<board, money, crashes, growth, slips>>

\* UPDATE marketplace_tasks ... WHERE status = 'accepted', and 1 row or rollback.
ClaimsCompletion == task.status = "accepted"
ClaimsReopen_Always == TRUE
ClaimsReopen == task.status = "accepted"

\* The result of the request by id, the assignment WHERE status = 'submitted'.
Answer_Misspelt(r, verdict) == [assignments EXCEPT ![request[r].on].status = "completed"]
Answer(r, verdict) ==
    LET a == request[r].on IN
    [assignments EXCEPT ![a].results[request[r].result] = verdict,
                        ![a].status = IF @ = "submitted" THEN verdict ELSE @]

Complete == task' = [task EXCEPT !.status = "completed"] /\ growth' = growth + 1

AcceptSubmittedTask(r) ==
    /\ At(r, "accept") /\ ClaimsCompletion
    /\ assignments' = Answer(r, "accepted")
    /\ Complete
    /\ Slip("swapped", request[r].on # Latest)
    /\ Go(r, "settle")
    /\ UNCHANGED <<application, money, crashes>>

RejectSubmittedTask(r) ==
    LET a == request[r].on IN
    /\ At(r, "reject") /\ ClaimsReopen
    /\ assignments' = Answer(r, "rejected")
    /\ application' = IF assignments[a].applied
                      THEN [application EXCEPT ![assignments[a].persona] = "rejected"]
                      ELSE application
    /\ task' = [status |-> "open", assignee |-> NoOne]
    /\ slips' = slips \cup Window("swapped", a # Latest) \cup Window("reopened", payments > 0)
    /\ Return(r)
    /\ UNCHANGED <<money, crashes, growth>>

\* The transition has been taken by somebody else: the transaction rolls back.
AnswerTooLate(r) ==
    /\ \/ At(r, "accept") /\ ~ClaimsCompletion
       \/ At(r, "reject") /\ ~ClaimsReopen
    /\ Return(r)
    /\ UNCHANGED <<board, money, crashes, growth, slips>>

\* Both rows by id, whatever their status is by now.
DisputeTask(r) ==
    LET a == request[r].on
        result == request[r].result
    IN
    /\ At(r, "dispute")
    /\ assignments' = [assignments EXCEPT
           ![a].status = "disputed",
           ![a].results = IF result > 0 THEN [@ EXCEPT ![result] = "disputed"] ELSE @]
    /\ Return(r)
    /\ UNCHANGED <<task, application, money, crashes, growth, slips>>

-----------------------------------------------------------------------------
(* The two ways to be paid, and the way out.                                *)

Floor(percent) == (Reward * percent) \div 100
OwnerShare(split) == Floor(split.owner)
PersonaShare(split) == Floor(split.persona)
PlatformShare(split) == Reward - OwnerShare(split) - PersonaShare(split)

Pay(a, p, owner, net) ==
    /\ settlements' = settlements \cup {[assignment |-> a, wallet |-> p, owner |-> owner]}
    /\ balance' = [balance EXCEPT ![p] = @ + owner]
    /\ journal' = [journal EXCEPT ![p] = @ + net]
    /\ payments' = payments + 1
    /\ UNCHANGED payouts

\* Without a look at the status of the task or of the assignment.
Settleable_WhileAccepted(a) ==
    task.status = "accepted" /\ task.assignee = assignments[a].persona /\ ~Settled(a) /\ Reward > 0
Settleable(a) == task.assignee = assignments[a].persona /\ ~Settled(a) /\ Reward > 0

\* The writes look at nothing that was read; only the unique index on assignment_id
\* refuses a second settlement, and all of it rolls back.
SettleTaskPayment(a, split) ==
    LET net == Reward - PlatformShare(split) - PersonaShare(split) IN
    IF Settled(a) THEN UNCHANGED money ELSE Pay(a, assignments[a].persona, OwnerShare(split), net)

\* POST /api/v1/wallets/settlements/task
ReadToSettle(r, a) ==
    /\ Settleable(a)
    /\ Begin(r, "route", NoOne, a, 0)
    /\ UNCHANGED <<board, money, crashes, growth, slips>>

SettleByRoute(r, split) ==
    LET a == request[r].on IN
    /\ At(r, "route")
    /\ SettleTaskPayment(a, split)
    /\ slips' = slips \cup Window("older", ~Settled(a) /\ a # Latest)
                     \cup Window("late", ~Settled(a) /\ task.assignee # assignments[a].persona)
    /\ Return(r)
    /\ UNCHANGED <<board, crashes, growth>>

AcceptedSplit == [owner |-> 60, persona |-> 20, platform |-> 20]

\* The second transaction of acceptSubmittedTask; refused or settled before, it
\* leaves everything as it is.
ReadToPay(r) ==
    /\ At(r, "settle")
    /\ IF Settleable(request[r].on) THEN Go(r, "pay") ELSE Return(r)
    /\ UNCHANGED <<board, money, crashes, growth, slips>>

SettleAccepted(r) ==
    /\ At(r, "pay")
    /\ SettleTaskPayment(request[r].on, AcceptedSplit)
    /\ Return(r)
    /\ UNCHANGED <<board, crashes, growth, slips>>

ReadToComplete(r) ==
    /\ task.status = "accepted"
    /\ Begin(r, "anchor", task.assignee, 0, 0)
    /\ UNCHANGED <<board, money, crashes, growth, slips>>

\* The latest assignment is read after the task, for its unique settlement row.
ReadAnchor(r) ==
    /\ At(r, "anchor")
    /\ IF Latest = 0 \/ Settled(Latest)
       THEN Return(r)
       ELSE request' = [request EXCEPT ![r].step = "complete", ![r].on = Latest]
    /\ UNCHANGED <<board, money, crashes, growth, slips>>

\* A payout that rounds to nothing writes neither settlement nor journal.
PaysWithAnchor_BareBalance(a, p, amount) ==
    /\ balance' = [balance EXCEPT ![p] = @ + amount]
    /\ payments' = payments + 1
    /\ UNCHANGED <<settlements, journal, payouts>>
PaysWithAnchor(a, p, amount) == IF amount > 0 THEN Pay(a, p, amount, amount) ELSE UNCHANGED money

\* The unique index refuses a second settlement, if there is one to write.
Anchors(a, amount) == amount > 0 => ~Settled(a)

CompleteTask(r, amount) ==
    LET a == request[r].on
        p == request[r].who
    IN
    /\ At(r, "complete") /\ ClaimsCompletion /\ Anchors(a, amount)
    /\ PaysWithAnchor(a, p, amount)
    /\ Complete
    /\ slips' = slips \cup Window("swapped", a # Latest \/ assignments[a].persona # p)
                     \cup Window("rounded", amount = 0)
    /\ Return(r)
    /\ UNCHANGED <<application, assignments, crashes>>

\* The claim fails, or the settlement is refused: rollback.
CompleteTooLate(r, amount) ==
    /\ At(r, "complete") /\ (~ClaimsCompletion \/ ~Anchors(request[r].on, amount))
    /\ Return(r)
    /\ UNCHANGED <<board, money, crashes, growth, slips>>

\* UPDATE persona_wallets ... WHERE ROUND(balance * 100) >= amount
Debits_Unchecked(p) == TRUE
Debits(p) == balance[p] >= PayoutAmount

ReadToPayOut(r, p) ==
    /\ balance[p] >= PayoutAmount
    /\ Begin(r, "payout", p, 0, 0)
    /\ UNCHANGED <<board, money, crashes, growth, slips>>

\* A used key is refused by its unique index, an insufficient balance rolls back.
RequestWalletPayout(r, k) ==
    LET p == request[r].who IN
    /\ At(r, "payout")
    /\ IF payouts[k] = NoOne /\ Debits(p)
       THEN /\ payouts' = [payouts EXCEPT ![k] = p]
            /\ balance' = [balance EXCEPT ![p] = @ - PayoutAmount]
            /\ journal' = [journal EXCEPT ![p] = @ - PayoutAmount]
       ELSE UNCHANGED <<payouts, balance, journal>>
    /\ Return(r)
    /\ UNCHANGED <<board, settlements, payments, crashes, growth, slips>>

Crash(r) ==
    /\ ~At(r, "idle") /\ crashes < MaxCrashes
    /\ crashes' = crashes + 1
    /\ Slip("cut", Owes(r))
    /\ Return(r)
    /\ UNCHANGED <<board, money, growth>>

-----------------------------------------------------------------------------
Reads(r) ==
    \/ \E p \in Personas : ReadToApply(r, p) \/ ReadToAssign(r, p) \/ ReadToTake(r, p) \/ ReadToPayOut(r, p)
    \/ \E a \in 1 .. Latest : ReadToSubmit(r, a) \/ ReadToSettle(r, a)
    \/ ReadToAccept(r) \/ ReadToReject(r) \/ ReadToDispute(r)
    \/ ReadToPay(r) \/ ReadToComplete(r) \/ ReadAnchor(r)

Writes(r) ==
    \/ Apply(r) \/ AssignTask(r) \/ AcceptTask(r) \/ SubmitTaskResult(r)
    \/ AcceptSubmittedTask(r) \/ RejectSubmittedTask(r) \/ AnswerTooLate(r) \/ DisputeTask(r)
    \/ SettleAccepted(r)
    \/ \E split \in Splits : SettleByRoute(r, split)
    \/ \E amount \in QualityPay : CompleteTask(r, amount) \/ CompleteTooLate(r, amount)
    \/ \E k \in PayoutKeys : RequestWalletPayout(r, k)

Next == \E r \in Requests : Reads(r) \/ Writes(r) \/ Crash(r)

Spec == Init /\ [][Next]_vars

-----------------------------------------------------------------------------
\* Rows and requests have their types.
TypeOK ==
    /\ task \in [status: {"open", "accepted", "completed"}, assignee: Personas \cup {NoOne}]
    /\ application \in [Personas -> {"none", "submitted", "assigned", "rejected"}]
    /\ assignments \in Seq(Assignment) /\ Latest <= MaxAssignments
    /\ settlements \subseteq [assignment: 1 .. Latest, wallet: Personas, owner: 0 .. Reward]
    /\ balance \in [Personas -> Int] /\ journal \in [Personas -> Int]
    /\ payouts \in [PayoutKeys -> Personas \cup {NoOne}]
    /\ request \in [Requests -> [step: Steps, who: Personas \cup {NoOne}, on: 0 .. Latest, result: Nat]]
    /\ payments \in Nat /\ growth \in Nat /\ slips \subseteq Slips
    /\ crashes \in 0 .. MaxCrashes

OwnerShares(p) == SumFunction([s \in {s \in settlements : s.wallet = p} |-> s.owner])

\* The three books of a wallet agree at all times: what it holds is the sum of
\* its journal, and the owner's shares of its settlements less its payouts.
LedgerBalances ==
    \A p \in Personas :
        /\ balance[p] = journal[p]
        /\ balance[p] = OwnerShares(p) - PayoutAmount * Cardinality({k \in PayoutKeys : payouts[k] = p})

\* Two concurrent payouts never take more than there is.
NoOverdraft == \A p \in Personas : balance[p] >= 0

\* The wallets are sound: their books agree and none is overdrawn, however
\* settlements of acceptances, completions and routes interleave with payouts.
LedgerSound == LedgerBalances /\ NoOverdraft

\* Acceptance and completion race for one transition: the growth, reputation
\* and memory that a finished task brings are granted once.
GrowthOnce == growth <= 1

\* The two ways of payment see each other's settlement: nobody is paid twice
\* for the task, however settlements by route, acceptances and completions race,
\* as long as one round of it is judged and paid.  Excepted are the windows, named
\* in Slips, in which a request acts for a round that is not the task's any more.
PaidOnce == slips \cap {"stray", "swapped", "reopened", "older", "late"} = {} => payments <= 1

\* A task is rewarded once, in growth as in money.
RewardedOnce == GrowthOnce /\ PaidOnce

\* A task that counts as completed has been paid, or the request that completed
\* it is about to pay: nobody works for nothing.  Excepted are a task completed on
\* behalf of another round, a request that died before it paid, and a completion
\* whose payout rounds to nothing.
CompletedIsPaid ==
    slips \cap {"stray", "swapped", "cut", "rounded"} = {} /\ task.status = "completed" =>
        Settled(Latest) \/ \E r \in Requests : Owes(r)

\* Acceptance and rejection are all or nothing: no result ends accepted under a
\* rejected assignment or rejected under an accepted one.
UndividedOutcome ==
    "swapped" \notin slips =>
        \A a \in 1 .. Latest :
            LET verdict == assignments[a].results[LatestResult(a)] IN
            LatestResult(a) > 0 =>
                /\ ~(verdict = "accepted" /\ StatusOf(a) = "rejected")
                /\ ~(verdict = "rejected" /\ StatusOf(a) = "accepted")

\* What the comment on the reopen statement says: a task that has been paid does
\* not go back to the market, to be taken and paid again.
PaidTaskOffMarket == [][task.status # "open" /\ task'.status = "open" => payments = 0]_vars
=============================================================================
