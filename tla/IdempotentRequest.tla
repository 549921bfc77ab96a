-------------------------- MODULE IdempotentRequest --------------------------
(***************************************************************************)
(* The idempotency hooks of the HTTP server                                *)
(* (src/src/server/plugins/idempotency.ts): a request with an              *)
(* Idempotency-Key claims a row before its handler runs and turns it into  *)
(* a stored response, or removes it, when the response is sent.  Replicas  *)
(* share the table, every statement is a step, and a replica may die while *)
(* a handler runs.                                                         *)
(***************************************************************************)
EXTENDS Naturals, FiniteSets

CONSTANTS
    Attempts,    \* HTTP requests, first tries and retries
    Keys,        \* (tenant, scope, Idempotency-Key)
    KeyOf,       \* Attempts -> Keys
    HashOf,      \* Attempts -> the hash of method, path and body
    NoAttempt

Refused == "refused"
Silent == "silent"

ASSUME IdempotencyAssumption ==
    /\ KeyOf \in [Attempts -> Keys]
    /\ NoAttempt \notin Attempts
    /\ Refused \notin Attempts /\ Silent \notin Attempts

VARIABLES
    keyRow,   \* idempotency_keys: the row of each key and the attempt that wrote it
    attempt,  \* progress of each attempt
    lapsed,   \* history: attempts whose row ran past its time to live
    answer    \* what the client was told: nothing, a refusal, or whose response

idemVars == <<keyRow, attempt, lapsed, answer>>

NoRow == [state |-> "none", by |-> NoAttempt, expired |-> FALSE]

\* `early`: the attempt took its timestamp before the row expired, and still
\* sees it afterwards.
IdemInit ==
    /\ keyRow = [k \in Keys |-> NoRow]
    /\ attempt = [a \in Attempts |-> [pc |-> "new", early |-> FALSE]]
    /\ lapsed = {}
    /\ answer = [a \in Attempts |-> Silent]

RowOf(a) == keyRow[KeyOf[a]]
IdemAt(a, pc) == attempt[a].pc = pc
IdemGoto(a, pc) == attempt' = [attempt EXCEPT ![a].pc = pc]
Answered(a, what) == answer' = [answer EXCEPT ![a] = what] /\ IdemGoto(a, "answered")

\* DELETE ... WHERE expires_at <= now; a failure is ignored.
CleanupExpired(a) ==
    /\ IdemAt(a, "new")
    /\ \/ keyRow' = [k \in Keys |-> IF keyRow[k].expired THEN NoRow ELSE keyRow[k]]
       \/ UNCHANGED keyRow
    /\ attempt' = [attempt EXCEPT ![a] = [pc |-> "lookup", early |-> FALSE]]
    /\ UNCHANGED <<lapsed, answer>>

\* idemQueryExisting: expires_at > now
Visible(a) == RowOf(a).state # "none" /\ (~RowOf(a).expired \/ attempt[a].early)

SameRequest(a) == HashOf[RowOf(a).by] = HashOf[a]

\* Replay a completed response; refuse another request, or one in progress.
AnswerFromRow(a) ==
    IF SameRequest(a) /\ RowOf(a).state = "completed"
    THEN Answered(a, RowOf(a).by)
    ELSE Answered(a, Refused)

Lookup(a) ==
    /\ IdemAt(a, "lookup")
    /\ IF Visible(a) THEN AnswerFromRow(a) ELSE IdemGoto(a, "claim") /\ UNCHANGED answer
    /\ UNCHANGED <<keyRow, lapsed>>

\* INSERT OR IGNORE: an expired row that is still there blocks the key as well.
ClaimFree_Overwrites(a) == RowOf(a).state # "completed"
ClaimFree(a) == RowOf(a).state = "none"

ClaimKey(a) ==
    /\ IdemAt(a, "claim")
    /\ IF ClaimFree(a)
       THEN /\ keyRow' = [keyRow EXCEPT ![KeyOf[a]] =
                  [state |-> "in_progress", by |-> a, expired |-> FALSE]]
            /\ IdemGoto(a, "handler")
       ELSE IdemGoto(a, "reread") /\ UNCHANGED keyRow
    /\ UNCHANGED <<lapsed, answer>>

\* The claim was lost: the winner decides, or has gone in the meantime.
Reread(a) ==
    /\ IdemAt(a, "reread")
    /\ IF Visible(a) THEN AnswerFromRow(a) ELSE Answered(a, Refused)
    /\ UNCHANGED <<keyRow, lapsed>>

\* The handler commits its effect, or fails without one.
HandlerDone(a, ok) ==
    /\ IdemAt(a, "handler")
    /\ IdemGoto(a, IF ok THEN "done" ELSE "failed")
    /\ UNCHANGED <<keyRow, lapsed, answer>>

\* The row named by its id: the one this attempt inserted, if it still exists.
Mine(a) == RowOf(a).by = a

\* onSend after success: the response is stored and sent; errors are ignored.
StoreResponse(a) ==
    /\ IdemAt(a, "done")
    /\ \/ /\ Mine(a)
          /\ keyRow' = [keyRow EXCEPT ![KeyOf[a]].state = "completed"]
       \/ UNCHANGED keyRow
    /\ Answered(a, a)
    /\ UNCHANGED lapsed

\* onSend after a failure: the row goes, and a retry may run the handler again.
ReleaseKey(a) ==
    /\ IdemAt(a, "failed")
    /\ \/ /\ Mine(a)
          /\ keyRow' = [keyRow EXCEPT ![KeyOf[a]] = NoRow]
       \/ UNCHANGED keyRow
    /\ Answered(a, Refused)
    /\ UNCHANGED lapsed

\* The replica dies: the handler may have committed, the row stays as it is.
DieInHandler(a) ==
    /\ attempt[a].pc \in {"handler", "done", "failed"}
    /\ attempt' = [attempt EXCEPT ![a].pc = IF @ = "done" THEN "dead_done" ELSE "dead"]
    /\ UNCHANGED <<keyRow, lapsed, answer>>

\* The time to live of a row ends.
ExpireRow(k) ==
    /\ keyRow[k].state # "none"
    /\ ~keyRow[k].expired
    /\ keyRow' = [keyRow EXCEPT ![k].expired = TRUE]
    /\ lapsed' = lapsed \cup {keyRow[k].by}
    /\ attempt' = [a \in Attempts |-> IF KeyOf[a] = k /\ attempt[a].pc # "new"
                                      THEN [attempt[a] EXCEPT !.early = TRUE]
                                      ELSE attempt[a]]
    /\ UNCHANGED answer

IdemStep(a) ==
    \/ CleanupExpired(a) \/ Lookup(a) \/ ClaimKey(a) \/ Reread(a)
    \/ \E ok \in BOOLEAN : HandlerDone(a, ok)
    \/ StoreResponse(a) \/ ReleaseKey(a) \/ DieInHandler(a)

IdemNext == (\E a \in Attempts : IdemStep(a)) \/ (\E k \in Keys : ExpireRow(k))

IdemSpec == IdemInit /\ [][IdemNext]_idemVars
-----------------------------------------------------------------------------
(* Properties *)

InHandler(a) == attempt[a].pc \in {"handler", "done", "failed"}
Effective(a) == attempt[a].pc \in {"done", "dead_done"} \/ answer[a] = a

\* A handler never runs twice at once, and its effect never happens twice, for
\* requests with one key, unless the time to live ended in between.
OncePerKey ==
    \A a, b \in Attempts : a # b /\ KeyOf[a] = KeyOf[b] =>
        /\ InHandler(a) /\ InHandler(b) => a \in lapsed \/ b \in lapsed
        /\ Effective(a) /\ Effective(b) => a \in lapsed \/ b \in lapsed

\* A replayed response is that of a successful run of the same request.
ReplayIsFaithful ==
    \A a \in Attempts : answer[a] \in Attempts =>
        /\ Effective(answer[a])
        /\ HashOf[answer[a]] = HashOf[a]

\* A key stands for one execution and its answer: no second run, and no answer of
\* another request or of a failed run.
OneAnswerPerKey == OncePerKey /\ ReplayIsFaithful
=============================================================================
