--------------------------- MODULE ToolInvocation ---------------------------
(***************************************************************************)
(* Agent tool calls (src/src/agent/tool-invocation-pipeline.ts): the quota *)
(* and budget checks, the confirmation token, the circuit breaker and the  *)
(* record of the outcome, for one persona and one tool.  Each database     *)
(* access is a step, since replicas share the database; inside a replica   *)
(* nothing runs between the checks of a call, and its breaker is its own.  *)
(* A call that authorization or permission refuses changes nothing.        *)
(***************************************************************************)
EXTENDS Naturals, FiniteSets

CONSTANTS
    ToolCalls,      \* invocations in flight, over all replicas
    Replicas,
    Callers,        \* external users a call may come from
    NoCaller,
    Arguments,      \* what a tool call may ask for
    RiskyArguments, \* those that need a confirmation
    NoArguments,
    ConfirmTokens,  \* identifiers of confirmation tokens
    NoToken,
    ToolCosts,      \* what a successful invocation may cost
    MaxPerDay,      \* maxActionsPerDay
    DailyBudget,    \* budgetLimitCents
    FailureThreshold,
    HalfOpenMax     \* halfOpenMaxRequests

ASSUME ToolAssumption ==
    /\ NoCaller \notin Callers /\ NoArguments \notin Arguments
    /\ NoToken \notin ConfirmTokens /\ IsFiniteSet(ToolCalls)
    /\ RiskyArguments \subseteq Arguments
    /\ ToolCosts \subseteq Nat
    /\ MaxPerDay \in Nat \ {0} /\ DailyBudget \in Nat \ {0}
    /\ FailureThreshold \in Nat \ {0} /\ HalfOpenMax \in Nat \ {0}

VARIABLES
    origin,        \* the replica that serves each call, and the user it comes from
    token,         \* conversation_confirmation_tokens
    invocations,   \* tool_invocations of the day: successes and their cost
    breaker,       \* circuit breaker of each replica
    toolCall,      \* program counter and locals of each invocation
    effects        \* history: how often the tool acted under each token

toolVars == <<origin, token, invocations, breaker, toolCall, effects>>

ToolSteps == {"idle", "quota", "budget", "confirm", "consume",
              "execute", "running", "abandoned"}
IdleTool == [pc |-> "idle", args |-> NoArguments, token |-> NoToken, acted |-> FALSE]
InitialBreaker == [state |-> "closed", failures |-> 0, probes |-> 0]

ToolInit ==
    /\ origin \in [ToolCalls -> [replica : Replicas, caller : Callers]]
    /\ token = [k \in ConfirmTokens |-> [status |-> "unused", args |-> NoArguments,
                                         caller |-> NoCaller]]
    /\ invocations = [count |-> 0, cost |-> 0]
    /\ breaker = [r \in Replicas |-> InitialBreaker]
    /\ toolCall = [c \in ToolCalls |-> IdleTool]
    /\ effects = [k \in ConfirmTokens |-> 0]

HomeOf(c) == origin[c].replica
CallerOf(c) == origin[c].caller

ToolAt(c, pc) == toolCall[c].pc = pc
ToolGoto(c, pc) == toolCall' = [toolCall EXCEPT ![c].pc = pc]
ToolReturn(c) == toolCall' = [toolCall EXCEPT ![c] = IdleTool]

-----------------------------------------------------------------------------
\* The checks of a call run in one turn of the replica's event loop.
LoopFree(r) ==
    \A c \in ToolCalls : HomeOf(c) = r => toolCall[c].pc \in {"idle", "running", "abandoned"}

\* A call that is authorized and permitted.
BeginCall(c, args, k) ==
    /\ ToolAt(c, "idle")
    /\ LoopFree(HomeOf(c))
    /\ toolCall' = [toolCall EXCEPT ![c] =
          [pc |-> "quota", args |-> args, token |-> k, acted |-> FALSE]]
    /\ UNCHANGED <<origin, token, invocations, breaker, effects>>

WithinQuota(n) == n < MaxPerDay

CheckQuota(c) ==
    /\ ToolAt(c, "quota")
    /\ IF WithinQuota(invocations.count) THEN ToolGoto(c, "budget") ELSE ToolReturn(c)
    /\ UNCHANGED <<origin, token, invocations, breaker, effects>>

WithinBudget(n) == n < DailyBudget

CheckBudget(c) ==
    /\ ToolAt(c, "budget")
    /\ IF ~WithinBudget(invocations.cost) THEN ToolReturn(c)
       ELSE IF toolCall[c].args \in RiskyArguments THEN ToolGoto(c, "confirm")
       ELSE ToolGoto(c, "execute")
    /\ UNCHANGED <<origin, token, invocations, breaker, effects>>

\* A call without a token gets a new one, bound to its caller and arguments.
IssueToken(c, k) ==
    /\ ToolAt(c, "confirm")
    /\ toolCall[c].token = NoToken
    /\ token[k].status = "unused"
    /\ token' = [token EXCEPT ![k] = [status |-> "issued", args |-> toolCall[c].args,
                                      caller |-> CallerOf(c)]]
    /\ ToolReturn(c)
    /\ UNCHANGED <<origin, invocations, breaker, effects>>

\* ConfirmationTokenStore.consume: the checks of the row.
TokenFits(c, k) ==
    /\ token[k].status = "issued"
    /\ token[k].caller = CallerOf(c)
    /\ token[k].args = toolCall[c].args

VerifyToken(c) ==
    /\ ToolAt(c, "confirm")
    /\ toolCall[c].token # NoToken
    /\ IF TokenFits(c, toolCall[c].token) THEN ToolGoto(c, "consume") ELSE ToolReturn(c)
    /\ UNCHANGED <<origin, token, invocations, breaker, effects>>

\* UPDATE ... SET consumed_at WHERE consumed_at IS NULL
Unconsumed_Unchecked(k) == TRUE
Unconsumed(k) == token[k].status = "issued"

ConsumeToken(c) ==
    LET k == toolCall[c].token IN
    /\ ToolAt(c, "consume")
    /\ IF Unconsumed(k)
       THEN token' = [token EXCEPT ![k].status = "consumed"] /\ ToolGoto(c, "execute")
       ELSE ToolReturn(c) /\ UNCHANGED token
    /\ UNCHANGED <<origin, invocations, breaker, effects>>

ExpireToken(k) ==
    /\ token[k].status = "issued"
    /\ token' = [token EXCEPT ![k].status = "expired"]
    /\ UNCHANGED <<origin, invocations, breaker, toolCall, effects>>

-----------------------------------------------------------------------------
(* CircuitBreaker.execute around the adapter *)

InFlight(r) == {c \in ToolCalls : ToolAt(c, "running") /\ HomeOf(c) = r}

\* evaluateCircuitState.  The reset timeout (60 s) is longer than the execution
\* timeout (30 s): a breaker that half-opens has no call of before in flight.
Evaluated(r) ==
    {breaker[r]} \cup
    IF breaker[r].state = "open" /\ InFlight(r) = {}
    THEN {[breaker[r] EXCEPT !.state = "half_open", !.probes = 0]}
    ELSE {}

CanExecute(b) == b.state = "closed" \/ (b.state = "half_open" /\ b.probes < HalfOpenMax)

HalfOpenAttempt_Uncounted(b) == b
HalfOpenAttempt(b) == IF b.state = "half_open" THEN [b EXCEPT !.probes = @ + 1] ELSE b

RecordSuccess(b) ==
    IF b.state = "half_open" THEN InitialBreaker ELSE [b EXCEPT !.failures = 0]

\* The counter of failures only matters up to the threshold.
RecordFailure(b) ==
    LET n == IF b.failures < FailureThreshold THEN b.failures + 1 ELSE b.failures
    IN  [b EXCEPT !.failures = n,
                  !.state = IF b.state = "half_open" \/ n >= FailureThreshold
                            THEN "open" ELSE @]

Admit(c) ==
    LET r == HomeOf(c) IN
    /\ ToolAt(c, "execute")
    /\ \E b \in Evaluated(r) :
          IF CanExecute(b)
          THEN breaker' = [breaker EXCEPT ![r] = HalfOpenAttempt(b)] /\ ToolGoto(c, "running")
          ELSE breaker' = [breaker EXCEPT ![r] = b] /\ ToolReturn(c)
    /\ UNCHANGED <<origin, token, invocations, effects>>

\* The tool acts, at the latest some time after its caller has given up.
ToolActs(c) ==
    /\ ToolAt(c, "running") \/ ToolAt(c, "abandoned")
    /\ ~toolCall[c].acted
    /\ toolCall' = [toolCall EXCEPT ![c].acted = TRUE]
    /\ effects' = [k \in ConfirmTokens |->
          IF k = toolCall[c].token /\ toolCall[c].args \in RiskyArguments
          THEN effects[k] + 1 ELSE effects[k]]
    /\ UNCHANGED <<origin, token, invocations, breaker>>

\* The record of the success may fail: then a failure without cost is recorded.
Succeed(c, cost) ==
    LET r == HomeOf(c) IN
    /\ ToolAt(c, "running")
    /\ toolCall[c].acted
    /\ breaker' = [breaker EXCEPT ![r] = RecordSuccess(@)]
    /\ \/ invocations' = [count |-> invocations.count + 1, cost |-> invocations.cost + cost]
       \/ UNCHANGED invocations
    /\ ToolReturn(c)
    /\ UNCHANGED <<origin, token, effects>>

\* The adapter throws, or the 30 s race is lost: then the tool goes on unseen.
Fail(c) ==
    LET r == HomeOf(c) IN
    /\ ToolAt(c, "running")
    /\ breaker' = [breaker EXCEPT ![r] = RecordFailure(@)]
    /\ ToolReturn(c) \/ ToolGoto(c, "abandoned")
    /\ UNCHANGED <<origin, token, invocations, effects>>

Forget(c) ==
    /\ ToolAt(c, "abandoned")
    /\ ToolReturn(c)
    /\ UNCHANGED <<origin, token, invocations, breaker, effects>>

-----------------------------------------------------------------------------
\* A replica restarts: its breaker is gone, a tool it had called may still act.
RestartReplica(r) ==
    /\ breaker' = [breaker EXCEPT ![r] = InitialBreaker]
    /\ toolCall' = [c \in ToolCalls |->
          IF HomeOf(c) # r THEN toolCall[c]
          ELSE IF ToolAt(c, "running") THEN [toolCall[c] EXCEPT !.pc = "abandoned"]
          ELSE IF ToolAt(c, "abandoned") THEN toolCall[c]
          ELSE IdleTool]
    /\ UNCHANGED <<origin, token, invocations, effects>>

ToolStep(c) ==
    \/ \E args \in Arguments, k \in ConfirmTokens \cup {NoToken} : BeginCall(c, args, k)
    \/ CheckQuota(c) \/ CheckBudget(c)
    \/ \E k \in ConfirmTokens : IssueToken(c, k)
    \/ VerifyToken(c) \/ ConsumeToken(c) \/ Admit(c)
    \/ ToolActs(c)
    \/ \E cost \in ToolCosts : Succeed(c, cost)
    \/ Fail(c) \/ Forget(c)

ToolNext ==
    \/ \E c \in ToolCalls : ToolStep(c)
    \/ \E k \in ConfirmTokens : ExpireToken(k)
    \/ \E r \in Replicas : RestartReplica(r)

ToolSpec == ToolInit /\ [][ToolNext]_toolVars
-----------------------------------------------------------------------------
(* Properties *)

ToolTypeOK ==
    /\ origin \in [ToolCalls -> [replica : Replicas, caller : Callers]]
    /\ token \in [ConfirmTokens ->
          [status : {"unused", "issued", "consumed", "expired"},
           args : Arguments \cup {NoArguments}, caller : Callers \cup {NoCaller}]]
    /\ invocations \in [count : Nat, cost : Nat]
    /\ breaker \in [Replicas -> [state : {"closed", "open", "half_open"},
                                 failures : 0..FailureThreshold, probes : Nat]]
    /\ toolCall \in [ToolCalls ->
          [pc : ToolSteps, args : Arguments \cup {NoArguments},
           token : ConfirmTokens \cup {NoToken}, acted : BOOLEAN]]
    /\ effects \in [ConfirmTokens -> Nat]

\* Calls that have passed the quota check and have not been recorded yet.
PastQuota == {c \in ToolCalls :
                toolCall[c].pc \in {"budget", "confirm", "consume", "execute", "running"}}
PastBudget == {c \in ToolCalls :
                toolCall[c].pc \in {"confirm", "consume", "execute", "running"}}

\* The quota is checked before the call and counted after it: concurrent calls
\* exceed it by what is in flight, and by no more.
QuotaOverrunBounded ==
    invocations.count + Cardinality(PastQuota) < MaxPerDay + Cardinality(ToolCalls)

\* The budget is a posteriori as well: the overrun is one cost per call in flight.
BudgetOverrunBounded ==
    \A m \in ToolCosts : (\A n \in ToolCosts : n <= m) =>
        invocations.cost + m * Cardinality(PastBudget)
            < DailyBudget + m * Cardinality(ToolCalls)

\* A confirmation lets the tool act once, although retries, replicas and calls
\* that were given up share it.
OneEffectPerConfirmation == \A k \in ConfirmTokens : effects[k] <= 1

\* What runs is what was confirmed, by the one who asked for it.
RunsAsConfirmed ==
    \A c \in ToolCalls : ToolAt(c, "running") /\ toolCall[c].args \in RiskyArguments =>
        LET k == toolCall[c].token IN
        /\ k # NoToken
        /\ token[k] = [status |-> "consumed", args |-> toolCall[c].args,
                       caller |-> CallerOf(c)]

\* A half-open breaker counts exactly the probes in flight: no storm of probes,
\* and no slot that stays taken when its probe has ended.
ProbesAccounted ==
    \A r \in Replicas : breaker[r].state = "half_open" =>
        /\ breaker[r].probes = Cardinality(InFlight(r))
        /\ breaker[r].probes <= HalfOpenMax

\* The limits hold on what is in flight: the quota, the budget and the probes of
\* a half-open breaker are exceeded by no more than the calls that passed them.
UseWithinLimits == ToolTypeOK /\ QuotaOverrunBounded /\ BudgetOverrunBounded /\ ProbesAccounted

\* A confirmation is used once, for what was confirmed.
ConfirmedOnce == OneEffectPerConfirmation /\ RunsAsConfirmed
=============================================================================
