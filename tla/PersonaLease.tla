---------------------------- MODULE PersonaLease ----------------------------
(***************************************************************************)
(* The lease of PersonaLeaseStore, shared by the replicas through table    *)
(* persona_leases, and the way its callers use it: acquire, work, perhaps  *)
(* refresh once (the fence before a compensation), and release in a        *)
(* finally block.  A client is one request of one replica; it may crash    *)
(* with the lease or freeze beyond the time to live.                       *)
(***************************************************************************)
EXTENDS LeaseTable

CONSTANTS
    Clients,
    Keys,       \* the (tenant, persona, purpose) triples
    Section,    \* how long a running client works before it refreshes or releases
    MaxLeaseCrashes, \* bound: how many clients crash
    MaxFreezes,  \* bound: how many times a client freezes
    Nothing

ASSUME ClientAssumption ==
    /\ Section \in Nat /\ Section < Ttl
    /\ MaxLeaseCrashes \in Nat /\ MaxFreezes \in Nat
    /\ Nothing \notin Keys

VARIABLES
    row,        \* persona_leases
    issued,     \* the holder tokens drawn so far
    using,      \* the key a client works on, Nothing outside the critical section
    leased,     \* the key of a client's LeaseHandle, Nothing without a handle
    token,      \* its holderToken
    held,       \* time since the handle was granted or refreshed
    renewed,    \* the client has used its refresh
    frozen,     \* the frozen clients
    leaseCrashes, freezes,
    intruded    \* history: the clients whose key was granted to another meanwhile

handle == <<using, leased, token, held, renewed>>
leaseVars == <<row, issued, handle, frozen, leaseCrashes, freezes, intruded>>

LeaseInit ==
    /\ row = [k \in Keys |-> NoRow]
    /\ issued = 0
    /\ using = [c \in Clients |-> Nothing]
    /\ leased = [c \in Clients |-> Nothing]
    /\ token = [c \in Clients |-> NoToken]
    /\ held = [c \in Clients |-> 0]
    /\ renewed = [c \in Clients |-> FALSE]
    /\ frozen = {}
    /\ leaseCrashes = 0 /\ freezes = 0
    /\ intruded = {}

-----------------------------------------------------------------------------
\* acquire() returns a handle with a fresh token, or null and nothing changes.
Acquire(c, k) ==
    /\ c \notin frozen /\ leased[c] = Nothing
    /\ issued < MaxTokens
    /\ Grantable(row[k])
    /\ issued' = issued + 1
    /\ row' = [row EXCEPT ![k] = Granted(issued + 1)]
    /\ using' = [using EXCEPT ![c] = k]
    /\ leased' = [leased EXCEPT ![c] = k]
    /\ token' = [token EXCEPT ![c] = issued + 1]
    /\ held' = [held EXCEPT ![c] = 0]
    /\ renewed' = [renewed EXCEPT ![c] = FALSE]
    /\ intruded' = (intruded \ {c}) \cup {d \in Clients \ {c} : using[d] = k}
    /\ UNCHANGED <<frozen, leaseCrashes, freezes>>

MayRefresh(c) == c \notin frozen /\ using[c] # Nothing /\ ~renewed[c]

Refresh(c) ==
    LET k == using[c] IN
    /\ MayRefresh(c) /\ Renewable(row[k], token[c])
    /\ row' = [row EXCEPT ![k].left = Ttl]
    /\ held' = [held EXCEPT ![c] = 0]
    /\ renewed' = [renewed EXCEPT ![c] = TRUE]
    /\ UNCHANGED <<issued, using, leased, token, frozen, leaseCrashes, freezes, intruded>>

\* refresh() returns null: the lease is gone and the client gives its work up.
RefreshRefused(c) ==
    /\ MayRefresh(c) /\ ~Renewable(row[using[c]], token[c])
    /\ using' = [using EXCEPT ![c] = Nothing]
    /\ renewed' = [renewed EXCEPT ![c] = TRUE]
    /\ intruded' = intruded \ {c}
    /\ UNCHANGED <<row, issued, leased, token, held, frozen, leaseCrashes, freezes>>

Forget(c) ==
    /\ using' = [using EXCEPT ![c] = Nothing]
    /\ leased' = [leased EXCEPT ![c] = Nothing]
    /\ token' = [token EXCEPT ![c] = NoToken]
    /\ held' = [held EXCEPT ![c] = 0]
    /\ renewed' = [renewed EXCEPT ![c] = FALSE]
    /\ intruded' = intruded \ {c}

\* The finally block of withLease and compileApproved.
ReleaseLease(c) ==
    /\ c \notin frozen /\ leased[c] # Nothing
    /\ row' = [row EXCEPT ![leased[c]] = Released(@, token[c])]
    /\ Forget(c)
    /\ UNCHANGED <<issued, frozen, leaseCrashes, freezes>>

ClientDies(c) ==
    /\ leased[c] # Nothing /\ leaseCrashes < MaxLeaseCrashes
    /\ leaseCrashes' = leaseCrashes + 1
    /\ frozen' = frozen \ {c}
    /\ Forget(c)
    /\ UNCHANGED <<row, issued, freezes>>

Freeze(c) ==
    /\ c \notin frozen /\ leased[c] # Nothing /\ freezes < MaxFreezes
    /\ freezes' = freezes + 1
    /\ frozen' = frozen \cup {c}
    /\ UNCHANGED <<row, issued, handle, leaseCrashes, intruded>>

Thaw(c) ==
    /\ c \in frozen
    /\ frozen' = frozen \ {c}
    /\ UNCHANGED <<row, issued, handle, leaseCrashes, freezes, intruded>>

\* A client that runs is done with its section in time; a frozen one may not be.
LeaseTick ==
    /\ \A c \in Clients \ frozen : leased[c] # Nothing => held[c] < Section
    /\ row' = [k \in Keys |-> Aged(row[k])]
    /\ held' = [c \in Clients |-> IF leased[c] # Nothing /\ held[c] < Ttl THEN held[c] + 1 ELSE held[c]]
    /\ UNCHANGED <<issued, using, leased, token, renewed, frozen, leaseCrashes, freezes, intruded>>

LeaseNext ==
    \/ \E c \in Clients :
          \/ \E k \in Keys : Acquire(c, k)
          \/ Refresh(c) \/ RefreshRefused(c) \/ ReleaseLease(c)
          \/ ClientDies(c) \/ Freeze(c) \/ Thaw(c)
    \/ LeaseTick

LeaseSpec == LeaseInit /\ [][LeaseNext]_leaseVars

\* Time passes, a frozen process resumes or is restarted, and a critical
\* section (synchronous, or a short await) reaches its finally block.
LeaseFairness ==
    /\ WF_leaseVars(LeaseTick)
    /\ \A c \in Clients : WF_leaseVars(ReleaseLease(c)) /\ WF_leaseVars(Thaw(c))

-----------------------------------------------------------------------------
\* Rows, handles and timers have their types.
LeaseTypeOK ==
    /\ row \in [Keys -> Row]
    /\ issued \in 0 .. MaxTokens
    /\ using \in [Clients -> Keys \cup {Nothing}]
    /\ leased \in [Clients -> Keys \cup {Nothing}]
    /\ token \in [Clients -> Token \cup {NoToken}]
    /\ held \in [Clients -> 0 .. Ttl]
    /\ renewed \in [Clients -> BOOLEAN]
    /\ frozen \subseteq Clients
    /\ leaseCrashes \in 0 .. MaxLeaseCrashes /\ freezes \in 0 .. MaxFreezes
    /\ intruded \subseteq Clients

Late == {c \in Clients : using[c] # Nothing /\ held[c] >= Ttl}

Abstract == INSTANCE ExclusiveUse WITH late <- Late

\* The lease table implements exclusive use with a time limit: whatever the
\* crashes, freezes, expired rows, foreign releases and takeovers, acquire hands
\* a key out only when everybody else inside has been frozen past its own TTL.
GrantsAreExclusive == Abstract!Spec

\* refresh is a fence, also for a client that was frozen: when it succeeds,
\* nobody was granted the key since this client was, so what the client writes
\* next (the compensating rollback of the compiler) overwrites nobody's work.
RefreshIsFence ==
    [][\A c \in Clients : renewed'[c] /\ ~renewed[c] /\ using'[c] # Nothing => c \notin intruded]_leaseVars

\* A lease never stays taken: its holder's crash, freeze or late release ends
\* in a row that can be granted.
LeaseComesFree == \A k \in Keys : ~Grantable(row[k]) ~> Grantable(row[k])
=============================================================================
