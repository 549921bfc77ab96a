----------------------------- MODULE AuditChain -----------------------------
(***************************************************************************)
(* The hash chain of one tenant's audit log (audit-log-store.ts) and the   *)
(* anchors that sign its tail (audit-chain-anchor-service.ts).  Business   *)
(* audits run inside the transaction they record and hold the chain lock   *)
(* until it ends; request audits run outside a transaction, where the lock *)
(* of PostgreSQL is released with the statement that took it.              *)
(***************************************************************************)
EXTENDS Naturals, FiniteSets, FiniteSetsExt

CONSTANTS
    TxWriters,      \* transactions, with one business audit each
    RequestWriters, \* requests, audited after the response
    Anchorers,      \* replicas with the anchor service
    Genesis,        \* GENESIS_HASH
    Nobody

AuditWriters == TxWriters \cup RequestWriters

ASSUME AuditAssumption ==
    /\ TxWriters \cap RequestWriters = {}
    /\ Genesis \notin AuditWriters /\ Nobody \notin AuditWriters
    /\ IsFiniteSet(AuditWriters)

VARIABLES
    auditLog,    \* committed rows: chain_seq, record_hash (its writer) and prev_hash
    chainLock,   \* the transaction that holds pg_advisory_xact_lock
    auditWriter, \* each writer: its step and the row it inserts
    anchors,     \* audit_chain_anchors
    anchorer     \* each anchor service: its step and the window it signs

auditVars == <<auditLog, chainLock, auditWriter, anchors, anchorer>>

ChainRow(seq, hash, prev) == [seq |-> seq, hash |-> hash, prev |-> prev]
NoChainRow == ChainRow(0, Genesis, Genesis)
IdleAnchorer == [pc |-> "idle", from |-> 0, to |-> 0, tail |-> Genesis]

AuditInit ==
    /\ auditLog = {}
    /\ chainLock = Nobody
    /\ auditWriter = [w \in AuditWriters |-> [pc |-> "lock", row |-> NoChainRow]]
    /\ anchors = {}
    /\ anchorer = [r \in Anchorers |-> IdleAnchorer]

ChainTail == IF auditLog = {} THEN NoChainRow
             ELSE CHOOSE row \in auditLog : \A other \in auditLog : other.seq <= row.seq
-----------------------------------------------------------------------------
(* Writing *)

InTx(w) == w \in TxWriters
WriterGoes(w, pc) == auditWriter' = [auditWriter EXCEPT ![w].pc = pc]

\* Waits for the holder; only a transaction keeps the lock.
TakesLock(w) == InTx(w)

LockChain(w) ==
    /\ auditWriter[w].pc = "lock"
    /\ chainLock = Nobody
    /\ chainLock' = IF TakesLock(w) THEN w ELSE chainLock
    /\ WriterGoes(w, "read")
    /\ UNCHANGED <<auditLog, anchors, anchorer>>

ReadTail(w) ==
    /\ auditWriter[w].pc = "read"
    /\ auditWriter' = [auditWriter EXCEPT ![w] =
           [pc |-> "insert", row |-> ChainRow(ChainTail.seq + 1, w, ChainTail.hash)]]
    /\ UNCHANGED <<auditLog, chainLock, anchors, anchorer>>

\* The unique index over (tenant, chain_seq): an insert waits for a transaction
\* that holds the same number, and fails when a committed row has it.
SeqFree(n) == \A row \in auditLog : row.seq # n
SeqPending(n) == \E v \in TxWriters : auditWriter[v].pc = "commit" /\ auditWriter[v].row.seq = n

Release(w) == IF chainLock = w THEN Nobody ELSE chainLock

InsertRow(w) ==
    LET row == auditWriter[w].row
        free == SeqFree(row.seq) IN
    /\ auditWriter[w].pc = "insert"
    /\ ~SeqPending(row.seq)
    /\ auditLog' = IF free /\ ~InTx(w) THEN auditLog \cup {row} ELSE auditLog
    /\ WriterGoes(w, IF ~free THEN "lost" ELSE IF InTx(w) THEN "commit" ELSE "written")
    /\ chainLock' = IF free THEN chainLock ELSE Release(w)
    /\ UNCHANGED <<anchors, anchorer>>

\* The rest of the transaction, which may fail.
EndTx(w, commits) ==
    /\ auditWriter[w].pc = "commit"
    /\ auditLog' = IF commits THEN auditLog \cup {auditWriter[w].row} ELSE auditLog
    /\ WriterGoes(w, IF commits THEN "written" ELSE "lost")
    /\ chainLock' = Release(w)
    /\ UNCHANGED <<anchors, anchorer>>
-----------------------------------------------------------------------------
(* Anchoring *)

AnchorTail(r) ==
    /\ anchorer[r].pc = "idle"
    /\ auditLog # {}
    /\ anchorer' = [anchorer EXCEPT ![r] = [pc |-> "latest", from |-> 0, to |-> ChainTail.seq, tail |-> ChainTail.hash]]
    /\ UNCHANGED <<auditLog, chainLock, auditWriter, anchors>>

\* The newest anchor, 0 when there is none: the window starts behind it, or at the
\* first row of the log.
LatestAnchored == Max({0} \cup {a.to : a \in anchors})
WindowStart_Tail(r) == anchorer[r].to
WindowStart(r) == LatestAnchored + 1

Covered_OneShort(r) == LatestAnchored + 1 >= anchorer[r].to
Covered(r) == LatestAnchored >= anchorer[r].to

AnchorWindow(r) ==
    /\ anchorer[r].pc = "latest"
    /\ anchorer' = IF Covered(r)
                   THEN [anchorer EXCEPT ![r] = IdleAnchorer]
                   ELSE [anchorer EXCEPT ![r].pc = "sign", ![r].from = WindowStart(r)]
    /\ UNCHANGED <<auditLog, chainLock, auditWriter, anchors>>

\* The signature arrives: INSERT ... ON CONFLICT (tenant, to_seq, tail_hash) DO NOTHING.
SignAnchor(r) ==
    LET a == anchorer[r]
        known == \E b \in anchors : b.to = a.to /\ b.tail = a.tail IN
    /\ a.pc = "sign"
    /\ anchors' = IF known THEN anchors ELSE anchors \cup {[from |-> a.from, to |-> a.to, tail |-> a.tail]}
    /\ anchorer' = [anchorer EXCEPT ![r] = IdleAnchorer]
    /\ UNCHANGED <<auditLog, chainLock, auditWriter>>

\* The KMS refuses or times out, or the replica dies: the next round tries again.
AnchorFails(r) ==
    /\ anchorer[r].pc = "sign"
    /\ anchorer' = [anchorer EXCEPT ![r] = IdleAnchorer]
    /\ UNCHANGED <<auditLog, chainLock, auditWriter, anchors>>

\* verifyChain: numbered 1, 2, ... and each row naming the hash of the one before.
VerifyChain(log) ==
    /\ {row.seq : row \in log} = 1 .. Cardinality(log)
    /\ \A row \in log :
          IF row.seq = 1 THEN row.prev = Genesis
          ELSE \E before \in log : before.seq = row.seq - 1 /\ row.prev = before.hash

AuditNext ==
    \/ \E w \in AuditWriters :
          \/ LockChain(w) \/ ReadTail(w) \/ InsertRow(w)
          \/ \E commits \in BOOLEAN : EndTx(w, commits)
    \/ \E r \in Anchorers : AnchorTail(r) \/ AnchorWindow(r) \/ SignAnchor(r) \/ AnchorFails(r)

AuditSpec == AuditInit /\ [][AuditNext]_auditVars

\* Rounds go on, and the KMS does not refuse for ever.
AuditFairness ==
    \A r \in Anchorers :
        /\ WF_auditVars(AnchorTail(r))
        /\ WF_auditVars(AnchorWindow(r))
        /\ SF_auditVars(SignAnchor(r))
-----------------------------------------------------------------------------
(* Properties *)

\* verifyChain finds no break, whatever writers race and whichever transactions
\* fail: the numbers are 1, 2, ... without a gap or a second row, and every row
\* names the hash of the row before it.
ChainVerifies == VerifyChain(auditLog)

\* The chain lock does what it is for: a transaction is refused its audit row, and
\* with it everything else it wrote, only for a row written outside a transaction.
TransactionsSpared ==
    \A w \in TxWriters : auditWriter[w].pc = "insert" =>
        \A row \in auditLog : row.seq = auditWriter[w].row.seq => row.hash \in RequestWriters

\* The signed windows cover the log up to the newest anchor, and each anchor signs
\* the hash the log has at its end, although services of several replicas race
\* with each other and with the writers.
AnchorsCover ==
    /\ \A n \in 1 .. LatestAnchored : \E a \in anchors : a.from <= n /\ n <= a.to
    /\ \A a \in anchors : \E row \in auditLog : row.seq = a.to /\ row.hash = a.tail

\* The audit trail is sound: it verifies, its anchors sign what it holds, and
\* keeping it costs no transaction its writes but for a request audit in between.
AuditTrailSound == ChainVerifies /\ TransactionsSpared /\ AnchorsCover

\* Every audit row is covered by an anchor at last, in spite of failed signatures.
AuditIsAnchored ==
    \A w \in AuditWriters :
        (auditWriter[w].pc = "written") ~> (auditWriter[w].row.seq <= LatestAnchored)
=============================================================================
