----------------------------- MODULE LeaseTable -----------------------------
(***************************************************************************)
(* One row of table persona_leases and the three statements that write it. *)
(* expires_at is kept as the time left on the database's clock, which both *)
(* stamps and compares it; a missing row is an expired row of nobody.      *)
(***************************************************************************)
EXTENDS Integers

CONSTANTS
    Ttl,        \* ttlMs of acquire and refresh
    MaxTokens   \* bound: how many holder tokens are drawn

ASSUME LeaseAssumption == Ttl \in Nat \ {0} /\ MaxTokens \in Nat \ {0}

Token == 1 .. MaxTokens
NoToken == 0
Row == [token: Token \cup {NoToken}, left: 0 .. Ttl]
NoRow == [token |-> NoToken, left |-> 0]

(* An operator named X_y is the variant of X in which a plausible defect y  *)
(* replaces X: no specification uses it; it shows that a property can fail. *)

\* INSERT ... ON CONFLICT DO UPDATE ... WHERE expires_at <= now
Grantable_NoTakeover(row) == row.token = NoToken
Grantable(row) == row.left = 0

Granted(token) == [token |-> token, left |-> Ttl]

\* UPDATE ... WHERE holder_token = ? AND expires_at > now
Renewable_AnyToken(row, token) == row.left > 0
Renewable(row, token) == row.token = token /\ row.left > 0

\* DELETE ... WHERE holder_token = ?
ReleaseMatches_AnyToken(row, token) == TRUE
ReleaseMatches(row, token) == row.token = token

Released(row, token) == IF ReleaseMatches(row, token) THEN NoRow ELSE row

\* Time left is expires_at minus the clock, and a lease is expired from 0 on.
Aged_NoFloor(row) == [row EXCEPT !.left = @ - 1]
Aged(row) == [row EXCEPT !.left = IF @ > 0 THEN @ - 1 ELSE 0]
=============================================================================
