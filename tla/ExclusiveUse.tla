---------------------------- MODULE ExclusiveUse ----------------------------
(***************************************************************************)
(* What a lease with a time to live promises its clients: nobody enters a  *)
(* key while someone who is still within its time is using it.             *)
(***************************************************************************)
CONSTANTS Clients, Keys, Nothing

VARIABLES
    using,      \* the key a client is using, or Nothing
    late        \* the clients that have used their key for longer than they may

Init ==
    /\ using = [c \in Clients |-> Nothing]
    /\ late = {}

Enter(c, k) ==
    /\ using[c] = Nothing
    /\ \A d \in Clients : using[d] = k => d \in late
    /\ using' = [using EXCEPT ![c] = k]
    /\ late' = late \ {c}

Leave(c) ==
    /\ using[c] # Nothing
    /\ using' = [using EXCEPT ![c] = Nothing]
    /\ late' = late \ {c}

TimePasses ==
    /\ late \subseteq late'
    /\ late' \subseteq {c \in Clients : using[c] # Nothing}
    /\ UNCHANGED using

Next ==
    \/ \E c \in Clients, k \in Keys : Enter(c, k)
    \/ \E c \in Clients : Leave(c)
    \/ TimePasses

Spec == Init /\ [][Next]_<<using, late>>
=============================================================================
