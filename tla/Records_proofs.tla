--------------------------- MODULE Records_proofs ---------------------------
(***************************************************************************)
(* For any number of writers and anchor services: the audit chain          *)
(* verifies, the lock spares transactions, and the anchors cover the log.  *)
(* For any organisations, starts and payments: the market's orders are     *)
(* worked, accepted and paid once, and the organisations' books balance.   *)
(* For any accounts, addresses, requests and workers: the directory of     *)
(* addresses follows what the shards have.                                 *)
(***************************************************************************)
EXTENDS AuditChain, OrgMarket, IdentityDirectory, Sums_proofs, SequenceTheorems
-----------------------------------------------------------------------------
(* The audit chain *)

WriterSteps == {"lock", "read", "insert", "commit", "written", "lost"}
ChainRows == [seq : Nat, hash : AuditWriters \cup {Genesis}, prev : AuditWriters \cup {Genesis}]
AnchorRows == [from : Nat, to : Nat, tail : AuditWriters \cup {Genesis}]

AuditTypes ==
    /\ auditLog \subseteq ChainRows /\ IsFiniteSet(auditLog)
    /\ chainLock \in TxWriters \cup {Nobody}
    /\ auditWriter \in [AuditWriters -> [pc : WriterSteps, row : ChainRows]]

\* The rows are numbered from 1, and each names the one before it.
Follows(row) == IF row.seq = 1 THEN row.prev = Genesis
                ELSE \E before \in auditLog : before.seq = row.seq - 1 /\ row.prev = before.hash
Chained ==
    /\ \A row \in auditLog : Follows(row)
    /\ {row.seq : row \in auditLog} = 1 .. Cardinality(auditLog)

\* A row that is about to be inserted follows the log; one that waits for its
\* transaction has its number for itself.
Linked(w) == auditWriter[w].row.seq >= 1 /\ auditWriter[w].row.hash = w /\ Follows(auditWriter[w].row)
RowsFollow == \A w \in AuditWriters : auditWriter[w].pc \in {"insert", "commit"} => Linked(w)
NumbersReserved ==
    \A w \in AuditWriters : auditWriter[w].pc = "commit" =>
        /\ w \in TxWriters
        /\ SeqFree(auditWriter[w].row.seq)

\* A transaction holds the lock from the read of the tail to its end.
LockHeld ==
    \A w \in TxWriters : auditWriter[w].pc \in {"read", "insert", "commit"} => chainLock = w

AuditInv == AuditTypes /\ Chained /\ RowsFollow /\ NumbersReserved /\ LockHeld /\ TransactionsSpared

\* What the assumptions say of the two kinds of writers.
LEMMA AuditConstants ==
    /\ TxWriters \cap RequestWriters = {} /\ Genesis \notin AuditWriters /\ Nobody \notin AuditWriters
    /\ TxWriters \subseteq AuditWriters /\ RequestWriters \subseteq AuditWriters
  BY AuditAssumption DEF AuditWriters

\* A log that is not empty has one newest row, and its number is the number of rows.
LEMMA TailExists ==
  ASSUME AuditTypes, Chained, auditLog # {}
  PROVE  /\ ChainTail \in auditLog /\ \A other \in auditLog : other.seq <= ChainTail.seq
<1>1. Cardinality(auditLog) \in Nat /\ Cardinality(auditLog) # 0
  BY FS_CardinalityType, FS_EmptySet DEF AuditTypes
<1>2. Cardinality(auditLog) \in {row.seq : row \in auditLog}
  BY <1>1 DEF Chained
<1>3. PICK row \in auditLog : row.seq = Cardinality(auditLog)
  BY <1>2
<1>4. \A other \in auditLog : other.seq \in 1 .. Cardinality(auditLog)
  BY DEF Chained
<1>5. \A other \in auditLog : other.seq <= row.seq
  BY <1>1, <1>3, <1>4
<1> QED
  BY <1>5 DEF ChainTail

\* The invariant of the chain holds of the empty log.
LEMMA AuditStart == AuditInit => AuditInv
<1> SUFFICES ASSUME AuditInit PROVE AuditInv
  OBVIOUS
<1>1. auditLog = {} /\ IsFiniteSet(auditLog) /\ Cardinality(auditLog) = 0
  BY FS_EmptySet DEF AuditInit
<1>2. AuditTypes
  BY <1>1 DEF AuditInit, AuditTypes, WriterSteps, ChainRows, NoChainRow, ChainRow
<1>3. Chained
  <2>1. 1 .. 0 = {}
    OBVIOUS
  <2> QED
    BY <1>1, <2>1 DEF Chained
<1>4. RowsFollow /\ NumbersReserved /\ LockHeld /\ TransactionsSpared
  <2>1. \A w \in AuditWriters : auditWriter[w].pc = "lock"
    BY DEF AuditInit
  <2> QED
    BY <2>1, AuditConstants DEF RowsFollow, NumbersReserved, LockHeld, TransactionsSpared
<1> QED
  BY <1>2, <1>3, <1>4 DEF AuditInv

\* One row more: its number is free and the one before it is taken, so it is the next.
LEMMA AppendKeepsChain ==
  ASSUME AuditInv, NEW w \in AuditWriters, Linked(w), SeqFree(auditWriter[w].row.seq),
         auditLog' = auditLog \cup {auditWriter[w].row}
  PROVE  Chained' /\ auditLog' \subseteq ChainRows /\ IsFiniteSet(auditLog')
<1> DEFINE row == auditWriter[w].row
<1> DEFINE n == Cardinality(auditLog)
<1>1. row \in ChainRows /\ row.seq \in Nat /\ row.seq >= 1 /\ Follows(row)
  BY DEF AuditInv, AuditTypes, ChainRows, Linked
<1>2. row \notin auditLog /\ IsFiniteSet(auditLog) /\ n \in Nat
  BY FS_CardinalityType DEF AuditInv, AuditTypes, SeqFree
<1>3. IsFiniteSet(auditLog') /\ Cardinality(auditLog') = n + 1
  BY <1>2, FS_AddElement
<1>4. row.seq \notin 1 .. n
  BY DEF AuditInv, Chained, SeqFree
<1>5. row.seq = 1 \/ row.seq - 1 \in 1 .. n
  <2>1. CASE row.seq # 1
    <3>1. PICK before \in auditLog : before.seq = row.seq - 1
      BY <1>1, <2>1 DEF Follows
    <3>2. before.seq \in 1 .. n
      BY DEF AuditInv, Chained
    <3> QED
      BY <3>1, <3>2
  <2> QED
    BY <2>1
<1>6. row.seq = n + 1
  BY <1>1, <1>2, <1>4, <1>5
<1>7. {r.seq : r \in auditLog'} = 1 .. Cardinality(auditLog')
  <2>1. {r.seq : r \in auditLog'} = {r.seq : r \in auditLog} \cup {row.seq}
    OBVIOUS
  <2>2. {r.seq : r \in auditLog} = 1 .. n
    BY DEF AuditInv, Chained
  <2>3. (1 .. n) \cup {n + 1} = 1 .. (n + 1)
    BY <1>2
  <2> QED
    BY <1>3, <1>6, <2>1, <2>2, <2>3
<1>8. \A r \in auditLog' : Follows(r)'
  BY <1>1 DEF AuditInv, Chained, Follows
<1> QED
  BY <1>1, <1>3, <1>7, <1>8 DEF Chained, AuditInv, AuditTypes

\* A writer's own step, which does not change the log.
LEMMA WriterStep ==
  ASSUME AuditInv, NEW w \in AuditWriters, UNCHANGED auditLog,
         NEW r \in [pc : WriterSteps, row : ChainRows],
         auditWriter' = [auditWriter EXCEPT ![w] = r],
         chainLock' \in TxWriters \cup {Nobody},
         \A v \in TxWriters : auditWriter'[v].pc \in {"read", "insert", "commit"} => chainLock' = v,
         r.pc \in {"insert", "commit"} => r.row.seq >= 1 /\ r.row.hash = w /\ Follows(r.row),
         r.pc = "commit" => w \in TxWriters /\ SeqFree(r.row.seq),
         r.pc = "insert" => SeqFree(r.row.seq)
  PROVE  AuditInv'
<1>1. auditWriter'[w] = r /\ \A v \in AuditWriters \ {w} : auditWriter'[v] = auditWriter[v]
  BY DEF AuditInv, AuditTypes
<1>2. AuditTypes'
  BY DEF AuditInv, AuditTypes
<1>3. Chained' /\ \A x : Follows(x)' <=> Follows(x)
  BY DEF AuditInv, Chained, Follows
<1>4. RowsFollow'
  <2> SUFFICES ASSUME NEW v \in AuditWriters, auditWriter'[v].pc \in {"insert", "commit"}
               PROVE  Linked(v)'
    BY DEF RowsFollow
  <2>1. CASE v = w
    BY <1>1, <2>1 DEF Linked, Follows
  <2>2. CASE v # w
    BY <1>1, <2>2 DEF AuditInv, RowsFollow, Linked, Follows
  <2> QED
    BY <2>1, <2>2
<1>5. NumbersReserved'
  BY <1>1 DEF AuditInv, NumbersReserved, SeqFree
<1>6. LockHeld'
  BY DEF LockHeld
<1>7. TransactionsSpared'
  BY <1>1, AuditConstants DEF AuditInv, TransactionsSpared, SeqFree
<1> QED
  BY <1>2, <1>3, <1>4, <1>5, <1>6, <1>7 DEF AuditInv

\* A request, outside a transaction, adds its row.
LEMMA RequestInserts ==
  ASSUME AuditInv, NEW w \in RequestWriters, InsertRow(w), SeqFree(auditWriter[w].row.seq)
  PROVE  AuditInv'
<1>1. /\ auditWriter[w].pc = "insert" /\ ~SeqPending(auditWriter[w].row.seq)
      /\ auditLog' = auditLog \cup {auditWriter[w].row}
      /\ auditWriter' = [auditWriter EXCEPT ![w].pc = "written"]
      /\ UNCHANGED chainLock
      /\ w \notin TxWriters /\ w \in AuditWriters
  BY AuditConstants DEF InsertRow, InTx, WriterGoes
<1>2. Linked(w)
  BY <1>1 DEF AuditInv, RowsFollow
<1>3. Chained' /\ auditLog' \subseteq ChainRows /\ IsFiniteSet(auditLog')
  BY <1>1, <1>2, AppendKeepsChain
<1>4. /\ \A v \in AuditWriters : auditWriter'[v].row = auditWriter[v].row
      /\ \A v \in AuditWriters \ {w} : auditWriter'[v].pc = auditWriter[v].pc
      /\ auditWriter'[w].pc = "written"
  BY <1>1 DEF AuditInv, AuditTypes
<1>5. AuditTypes'
  BY <1>1, <1>3 DEF AuditInv, AuditTypes, WriterSteps
<1>6. \A x : Follows(x) => Follows(x)'
  BY <1>1 DEF Follows
<1>7. RowsFollow'
  BY <1>4, <1>6 DEF AuditInv, RowsFollow, Linked
<1>8. NumbersReserved'
  BY <1>1, <1>4 DEF AuditInv, NumbersReserved, SeqFree, SeqPending
<1>9. LockHeld'
  BY <1>1, <1>4, AuditConstants DEF AuditInv, LockHeld
<1>10. TransactionsSpared'
  BY <1>1, <1>2, <1>4, AuditConstants DEF AuditInv, TransactionsSpared, Linked
<1> QED
  BY <1>3, <1>5, <1>7, <1>8, <1>9, <1>10 DEF AuditInv

\* A transaction commits its row: no other transaction is between its read and its end.
LEMMA TransactionCommits == ASSUME AuditInv, NEW w \in AuditWriters, EndTx(w, TRUE) PROVE AuditInv'
<1>1. /\ auditWriter[w].pc = "commit"
      /\ auditLog' = auditLog \cup {auditWriter[w].row}
      /\ auditWriter' = [auditWriter EXCEPT ![w].pc = "written"]
      /\ chainLock' = Release(w)
  BY DEF EndTx, WriterGoes
<1>2. Linked(w) /\ w \in TxWriters /\ SeqFree(auditWriter[w].row.seq) /\ chainLock = w
  BY <1>1 DEF AuditInv, RowsFollow, NumbersReserved, LockHeld
<1>3. Chained' /\ auditLog' \subseteq ChainRows /\ IsFiniteSet(auditLog')
  BY <1>1, <1>2, AppendKeepsChain
<1>4. /\ \A v \in AuditWriters : auditWriter'[v].row = auditWriter[v].row
      /\ \A v \in AuditWriters \ {w} : auditWriter'[v].pc = auditWriter[v].pc
      /\ auditWriter'[w].pc = "written"
  BY <1>1 DEF AuditInv, AuditTypes
<1>5. \A v \in TxWriters : auditWriter'[v].pc \notin {"read", "insert", "commit"}
  BY <1>2, <1>4, AuditConstants DEF AuditInv, LockHeld
<1>6. AuditTypes'
  BY <1>1, <1>2, <1>3 DEF AuditInv, AuditTypes, WriterSteps, Release
<1>7. \A x : Follows(x) => Follows(x)'
  BY <1>1 DEF Follows
<1>8. RowsFollow'
  BY <1>4, <1>7 DEF AuditInv, RowsFollow, Linked
<1>9. NumbersReserved'
  BY <1>4, <1>5 DEF AuditInv, NumbersReserved
<1>10. LockHeld' /\ TransactionsSpared'
  BY <1>5 DEF LockHeld, TransactionsSpared
<1> QED
  BY <1>3, <1>6, <1>8, <1>9, <1>10 DEF AuditInv

\* Every writer and every anchor service keeps the invariant of the chain.
LEMMA AuditKeeps == AuditInv /\ [AuditNext]_auditVars => AuditInv'
<1> SUFFICES ASSUME AuditInv, [AuditNext]_auditVars PROVE AuditInv'
  OBVIOUS
<1>0. /\ auditWriter \in [AuditWriters -> [pc : WriterSteps, row : ChainRows]]
      /\ chainLock \in TxWriters \cup {Nobody}
      /\ \A v \in TxWriters : auditWriter[v].pc \in {"read", "insert", "commit"} => chainLock = v
  BY DEF AuditInv, AuditTypes, LockHeld
<1>1. CASE UNCHANGED <<auditLog, chainLock, auditWriter>>
  BY <1>1 DEF AuditInv, AuditTypes, Chained, Follows, RowsFollow, Linked, NumbersReserved, SeqFree,
              LockHeld, TransactionsSpared
<1>2. ASSUME NEW w \in AuditWriters, LockChain(w) PROVE AuditInv'
  <2> DEFINE r == [auditWriter[w] EXCEPT !.pc = "read"]
  <2>1. r \in [pc : WriterSteps, row : ChainRows] /\ r.pc = "read"
    BY <1>0 DEF WriterSteps
  <2>2. /\ UNCHANGED auditLog /\ auditWriter' = [auditWriter EXCEPT ![w] = r]
        /\ chainLock = Nobody /\ chainLock' = IF w \in TxWriters THEN w ELSE chainLock
    BY <1>0, <1>2 DEF LockChain, WriterGoes, TakesLock, InTx
  <2> HIDE DEF r
  <2>3. \A v \in TxWriters : auditWriter'[v].pc \in {"read", "insert", "commit"} => chainLock' = v
    BY <1>0, <2>1, <2>2, AuditConstants
  <2> QED
    BY <1>0, <2>1, <2>2, <2>3, WriterStep
<1>3. ASSUME NEW w \in AuditWriters, ReadTail(w) PROVE AuditInv'
  <2> DEFINE row == ChainRow(ChainTail.seq + 1, w, ChainTail.hash)
  <2> DEFINE r == [pc |-> "insert", row |-> row]
  <2>1. /\ UNCHANGED <<auditLog, chainLock>> /\ auditWriter' = [auditWriter EXCEPT ![w] = r]
        /\ auditWriter[w].pc = "read"
    BY <1>3 DEF ReadTail
  <2>2. ChainTail \in ChainRows
    BY TailExists DEF AuditInv, AuditTypes, ChainTail, ChainRows, NoChainRow, ChainRow
  <2>3. row \in ChainRows /\ row.seq = ChainTail.seq + 1 /\ row.hash = w /\ row.prev = ChainTail.hash
    BY <2>2, AuditConstants DEF ChainRows, ChainRow
  <2>4. Follows(row)
    <3>1. CASE auditLog = {}
      BY <2>3, <3>1 DEF Follows, ChainTail, NoChainRow, ChainRow
    <3>2. CASE auditLog # {}
      <4>1. ChainTail \in auditLog /\ ChainTail.seq \in 1 .. Cardinality(auditLog)
        BY <3>2, TailExists DEF AuditInv, Chained
      <4> QED
        BY <2>3, <4>1 DEF Follows
    <3> QED
      BY <3>1, <3>2
  <2>5. SeqFree(row.seq)
    <3>1. CASE auditLog = {}
      BY <3>1 DEF SeqFree
    <3>2. CASE auditLog # {}
      BY <2>2, <2>3, <3>2, TailExists DEF SeqFree, AuditInv, AuditTypes, ChainRows
    <3> QED
      BY <3>1, <3>2
  <2> HIDE DEF row
  <2>6. r \in [pc : WriterSteps, row : ChainRows] /\ r.pc = "insert" /\ r.row = row
    BY <2>3 DEF WriterSteps
  <2>7. row.seq >= 1
    BY <2>2, <2>3 DEF ChainRows
  <2> HIDE DEF r
  <2>8. \A v \in TxWriters : auditWriter'[v].pc \in {"read", "insert", "commit"} => chainLock' = v
    BY <1>0, <2>1, AuditConstants
  <2> QED
    BY <1>0, <2>1, <2>3, <2>4, <2>5, <2>6, <2>7, <2>8, WriterStep
<1>4. ASSUME NEW w \in AuditWriters, InsertRow(w) PROVE AuditInv'
  <2> DEFINE n == auditWriter[w].row.seq
  <2>0. auditWriter[w].pc = "insert" /\ Linked(w) /\ auditWriter[w].row \in ChainRows
    BY <1>0, <1>4 DEF InsertRow, AuditInv, RowsFollow
  <2>1. CASE w \in RequestWriters /\ SeqFree(n)
    BY <1>4, <2>1, RequestInserts
  <2>2. CASE w \in TxWriters /\ SeqFree(n)
    <3> DEFINE r == [auditWriter[w] EXCEPT !.pc = "commit"]
    <3>1. r \in [pc : WriterSteps, row : ChainRows] /\ r.pc = "commit" /\ r.row = auditWriter[w].row
      BY <1>0 DEF WriterSteps
    <3>2. UNCHANGED <<auditLog, chainLock>> /\ auditWriter' = [auditWriter EXCEPT ![w] = r]
      BY <1>0, <1>4, <2>2 DEF InsertRow, WriterGoes, InTx
    <3> HIDE DEF r
    <3>3. \A v \in TxWriters : auditWriter'[v].pc \in {"read", "insert", "commit"} => chainLock' = v
      BY <1>0, <2>0, <3>2, AuditConstants
    <3> QED
      BY <1>0, <2>0, <2>2, <3>1, <3>2, <3>3, WriterStep DEF Linked
  <2>3. CASE ~SeqFree(n)
    <3> DEFINE r == [auditWriter[w] EXCEPT !.pc = "lost"]
    <3>1. r \in [pc : WriterSteps, row : ChainRows] /\ r.pc = "lost"
      BY <1>0 DEF WriterSteps
    <3>2. /\ UNCHANGED auditLog /\ auditWriter' = [auditWriter EXCEPT ![w] = r]
          /\ chainLock' = Release(w)
      BY <1>0, <1>4, <2>3 DEF InsertRow, WriterGoes, InTx
    <3> HIDE DEF r
    <3>3. \A v \in TxWriters : auditWriter'[v].pc \in {"read", "insert", "commit"} => chainLock' = v
      BY <1>0, <3>1, <3>2, AuditConstants DEF Release
    <3>4. chainLock' \in TxWriters \cup {Nobody}
      BY <1>0, <3>2 DEF Release
    <3> QED
      BY <1>0, <3>1, <3>2, <3>3, <3>4, WriterStep
  <2> QED
    BY <2>1, <2>2, <2>3 DEF AuditWriters
<1>5. ASSUME NEW w \in AuditWriters, EndTx(w, FALSE) PROVE AuditInv'
  <2> DEFINE r == [auditWriter[w] EXCEPT !.pc = "lost"]
  <2>1. r \in [pc : WriterSteps, row : ChainRows] /\ r.pc = "lost"
    BY <1>0 DEF WriterSteps
  <2>2. /\ UNCHANGED auditLog /\ auditWriter' = [auditWriter EXCEPT ![w] = r]
        /\ chainLock' = Release(w)
    BY <1>0, <1>5 DEF EndTx, WriterGoes
  <2> HIDE DEF r
  <2>3. \A v \in TxWriters : auditWriter'[v].pc \in {"read", "insert", "commit"} => chainLock' = v
    BY <1>0, <2>1, <2>2, AuditConstants DEF Release
  <2>4. chainLock' \in TxWriters \cup {Nobody}
    BY <1>0, <2>2 DEF Release
  <2> QED
    BY <1>0, <2>1, <2>2, <2>3, <2>4, WriterStep
<1>6. ASSUME NEW r \in Anchorers, AnchorTail(r) \/ AnchorWindow(r) \/ SignAnchor(r) \/ AnchorFails(r)
      PROVE  AuditInv'
  BY <1>1, <1>6 DEF AnchorTail, AnchorWindow, SignAnchor, AnchorFails
<1> QED
  BY <1>1, <1>2, <1>3, <1>4, <1>5, <1>6, TransactionCommits DEF AuditNext, auditVars

\* The chain has no gap and no fork, and whoever is between its read and its insert in a
\* transaction holds the lock on the chain (audit-log-store.ts), for any number of writers.
THEOREM AuditInvariant == AuditSpec => []AuditInv
BY AuditStart, AuditKeeps, PTL DEF AuditSpec

\* The chain verifies, whatever writers race and whichever transactions fail.
THEOREM ChainHolds == AuditSpec => []ChainVerifies
<1>1. AuditInv => ChainVerifies
  BY DEF AuditInv, Chained, Follows, ChainVerifies, VerifyChain
<1> QED
  BY <1>1, AuditInvariant, PTL

\* A transaction loses its number to a request only.
THEOREM SparedHolds == AuditSpec => []TransactionsSpared
<1>1. AuditInv => TransactionsSpared
  BY DEF AuditInv
<1> QED
  BY <1>1, AuditInvariant, PTL
-----------------------------------------------------------------------------
(* The anchors *)

AnchorerRecord == [pc : {"idle", "latest", "sign"}, from : Nat, to : Nat, tail : AuditWriters \cup {Genesis}]
AnchorTypes == anchors \subseteq AnchorRows /\ anchorer \in [Anchorers -> AnchorerRecord]

Ends == {0} \cup {a.to : a \in anchors}
NewestExists == \E m \in Ends : \A n \in Ends : m >= n

\* What an anchor names, or a service is about to sign, is in the log.
InLog(a) == \E row \in auditLog : row.seq = a.to /\ row.hash = a.tail
SignedAreInLog ==
    /\ \A a \in anchors : InLog(a)
    /\ \A r \in Anchorers : anchorer[r].pc \in {"latest", "sign"} => InLog(anchorer[r])

\* A window starts behind what was covered when it was opened, or before that.
WindowsAreNear == \A r \in Anchorers : anchorer[r].pc = "sign" => anchorer[r].from <= LatestAnchored + 1

NoGap == \A n \in 1 .. LatestAnchored : \E a \in anchors : a.from <= n /\ n <= a.to

AnchorInv == AnchorTypes /\ NewestExists /\ SignedAreInLog /\ WindowsAreNear /\ NoGap

\* The newest anchor is the one getLatestAnchor returns.
LEMMA NewestIsLatest ==
  ASSUME NewestExists PROVE LatestAnchored \in Ends /\ \A n \in Ends : LatestAnchored >= n
  BY DEF NewestExists, LatestAnchored, Max, Ends

\* The log only grows.
LEMMA LogGrows == ASSUME AuditNext PROVE auditLog \subseteq auditLog'
<1>1. ASSUME NEW w \in AuditWriters, LockChain(w) \/ ReadTail(w) \/ InsertRow(w)
      PROVE  auditLog \subseteq auditLog'
  BY <1>1 DEF LockChain, ReadTail, InsertRow
<1>2. ASSUME NEW w \in AuditWriters, NEW commits \in BOOLEAN, EndTx(w, commits)
      PROVE  auditLog \subseteq auditLog'
  BY <1>2 DEF EndTx
<1>3. ASSUME NEW r \in Anchorers, AnchorTail(r) \/ AnchorWindow(r) \/ SignAnchor(r) \/ AnchorFails(r)
      PROVE  auditLog \subseteq auditLog'
  BY <1>3 DEF AnchorTail, AnchorWindow, SignAnchor, AnchorFails
<1> QED
  BY <1>1, <1>2, <1>3 DEF AuditNext

\* The invariant of the anchors holds while nothing is signed.
LEMMA AnchorStart == AuditInit => AnchorInv
<1> SUFFICES ASSUME AuditInit PROVE AnchorInv
  OBVIOUS
<1>1. anchors = {} /\ anchorer = [r \in Anchorers |-> IdleAnchorer]
  BY DEF AuditInit
<1>2. AnchorTypes
  BY <1>1 DEF AnchorTypes, AnchorerRecord, IdleAnchorer
<1>3. Ends = {0}
  BY <1>1 DEF Ends
<1>4. NewestExists
  BY <1>3 DEF NewestExists
<1>5. LatestAnchored = 0
  BY <1>3, <1>4, NewestIsLatest
<1>6. SignedAreInLog /\ WindowsAreNear /\ NoGap
  BY <1>1, <1>5 DEF SignedAreInLog, WindowsAreNear, NoGap, IdleAnchorer
<1> QED
  BY <1>2, <1>4, <1>6 DEF AnchorInv

\* A step that adds no anchor, and readies one service at most.
LEMMA NoNewAnchor ==
  ASSUME AnchorInv, auditLog \subseteq auditLog', UNCHANGED anchors, NEW r \in Anchorers,
         NEW new \in AnchorerRecord, anchorer' = [anchorer EXCEPT ![r] = new],
         new.pc \in {"latest", "sign"} => InLog(new),
         new.pc = "sign" => new.from <= LatestAnchored + 1
  PROVE  AnchorInv'
<1>1. anchorer' \in [Anchorers -> AnchorerRecord] /\ anchorer'[r] = new
      /\ \A x \in Anchorers \ {r} : anchorer'[x] = anchorer[x]
  BY DEF AnchorInv, AnchorTypes
<1>2. LatestAnchored' = LatestAnchored /\ Ends' = Ends
  BY DEF LatestAnchored, Ends
<1>3. AnchorTypes' /\ NewestExists'
  BY <1>1, <1>2 DEF AnchorInv, AnchorTypes, NewestExists
<1>4. SignedAreInLog'
  BY <1>1 DEF AnchorInv, SignedAreInLog, InLog
<1>5. WindowsAreNear' /\ NoGap'
  BY <1>1, <1>2 DEF AnchorInv, WindowsAreNear, NoGap
<1> QED
  BY <1>3, <1>4, <1>5 DEF AnchorInv

\* An anchor service between two rounds has no window.
LEMMA IdleAnchorerIsSound == IdleAnchorer \in AnchorerRecord /\ IdleAnchorer.pc = "idle"
  BY DEF IdleAnchorer, AnchorerRecord

\* The new anchor reaches back to what was covered before it.
LEMMA SigningKeeps == ASSUME AnchorInv, NEW r \in Anchorers, SignAnchor(r) PROVE AnchorInv'
<1>1. PICK a \in AnchorerRecord : a = anchorer[r] /\ a.pc = "sign"
  BY DEF SignAnchor, AnchorInv, AnchorTypes
<1> DEFINE b == [from |-> a.from, to |-> a.to, tail |-> a.tail]
<1>2. /\ UNCHANGED auditLog /\ anchorer' = [anchorer EXCEPT ![r] = IdleAnchorer]
      /\ anchors' = anchors \/ anchors' = anchors \cup {b}
  BY <1>1 DEF SignAnchor
<1>3. CASE anchors' = anchors
  BY <1>2, <1>3, NoNewAnchor, IdleAnchorerIsSound
<1>4. CASE anchors' = anchors \cup {b}
  <2>1. b \in AnchorRows /\ b.from = a.from /\ b.to = a.to /\ b.tail = a.tail
    BY DEF AnchorRows, AnchorerRecord
  <2>2. a.from <= LatestAnchored + 1 /\ InLog(a)
    BY <1>1 DEF AnchorInv, WindowsAreNear, SignedAreInLog
  <2> HIDE DEF b
  <2>3. /\ anchorer' \in [Anchorers -> AnchorerRecord] /\ anchorer'[r].pc = "idle"
        /\ \A x \in Anchorers \ {r} : anchorer'[x] = anchorer[x]
    BY <1>2, IdleAnchorerIsSound DEF AnchorInv, AnchorTypes
  <2>4. AnchorTypes'
    BY <1>4, <2>1, <2>3 DEF AnchorInv, AnchorTypes
  <2>5. Ends' = Ends \cup {a.to}
    BY <1>4, <2>1 DEF Ends
  <2>6. Ends \subseteq Nat /\ a.to \in Nat
    BY DEF AnchorInv, AnchorTypes, AnchorRows, AnchorerRecord, Ends
  <2>7. NewestExists'
    BY <2>5, <2>6 DEF AnchorInv, NewestExists
  <2>8. LatestAnchored \in Ends /\ \A n \in Ends : LatestAnchored >= n
    BY NewestIsLatest DEF AnchorInv
  <2>9. LatestAnchored' \in Ends' /\ \A n \in Ends' : LatestAnchored' >= n
    BY <2>7 DEF NewestExists, LatestAnchored, Max, Ends
  <2>10. /\ LatestAnchored \in Nat /\ LatestAnchored' \in Nat /\ LatestAnchored' >= LatestAnchored
         /\ LatestAnchored' \in {LatestAnchored, a.to}
    BY <2>5, <2>6, <2>8, <2>9
  <2>11. SignedAreInLog'
    BY <1>2, <1>4, <2>1, <2>2, <2>3 DEF AnchorInv, SignedAreInLog, InLog
  <2>12. WindowsAreNear'
    BY <2>3, <2>10 DEF AnchorInv, AnchorTypes, AnchorerRecord, WindowsAreNear
  <2>13. NoGap'
    <3> SUFFICES ASSUME NEW n \in 1 .. LatestAnchored'
                 PROVE  \E c \in anchors' : c.from <= n /\ n <= c.to
      BY DEF NoGap
    <3>1. CASE n <= LatestAnchored
      BY <3>1, <1>4, <2>10 DEF AnchorInv, NoGap
    <3>2. CASE n > LatestAnchored
      <4>1. a.from \in Nat
        BY DEF AnchorerRecord
      <4>2. b.from <= n /\ n <= b.to
        BY <3>2, <4>1, <2>1, <2>2, <2>6, <2>10
      <4> QED
        BY <4>2, <1>4
    <3> QED
      BY <3>1, <3>2, <2>10
  <2> QED
    BY <2>4, <2>7, <2>11, <2>12, <2>13 DEF AnchorInv
<1> QED
  BY <1>2, <1>3, <1>4

\* Every writer and every anchor service keeps the invariant of the anchors.
LEMMA AnchorKeeps == AuditInv /\ AnchorInv /\ [AuditNext]_auditVars => AnchorInv'
<1> SUFFICES ASSUME AuditInv, AnchorInv, [AuditNext]_auditVars PROVE AnchorInv'
  OBVIOUS
<1>1. CASE UNCHANGED auditVars
  BY <1>1 DEF auditVars, AnchorInv, AnchorTypes, NewestExists, Ends, SignedAreInLog, InLog, WindowsAreNear,
              NoGap, LatestAnchored
<1>2. ASSUME AuditNext, UNCHANGED <<anchors, anchorer>> PROVE AnchorInv'
  BY <1>2, LogGrows DEF AnchorInv, AnchorTypes, NewestExists, Ends, SignedAreInLog, InLog, WindowsAreNear,
                        NoGap, LatestAnchored
<1>3. ASSUME NEW r \in Anchorers, AnchorTail(r) PROVE AnchorInv'
  <2> DEFINE new == [pc |-> "latest", from |-> 0, to |-> ChainTail.seq, tail |-> ChainTail.hash]
  <2>1. ChainTail \in auditLog
    BY <1>3, TailExists DEF AuditInv, AnchorTail
  <2>2. new \in AnchorerRecord /\ InLog(new)
    BY <2>1 DEF AuditInv, AuditTypes, ChainRows, AnchorerRecord, InLog
  <2>3. anchorer' = [anchorer EXCEPT ![r] = new] /\ UNCHANGED <<auditLog, anchors>> /\ new.pc # "sign"
    BY <1>3 DEF AnchorTail
  <2> HIDE DEF new
  <2> QED
    BY <2>2, <2>3, NoNewAnchor
<1>4. ASSUME NEW r \in Anchorers, AnchorWindow(r) PROVE AnchorInv'
  <2>1. PICK a \in AnchorerRecord : a = anchorer[r] /\ a.pc = "latest" /\ InLog(a)
    BY <1>4 DEF AnchorWindow, AnchorInv, AnchorTypes, SignedAreInLog
  <2>2. UNCHANGED <<auditLog, anchors>>
    BY <1>4 DEF AnchorWindow
  <2>3. LatestAnchored \in Nat
    BY NewestIsLatest DEF AnchorInv, AnchorTypes, AnchorRows, Ends
  <2>4. CASE anchorer' = [anchorer EXCEPT ![r] = IdleAnchorer]
    BY <2>2, <2>4, NoNewAnchor, IdleAnchorerIsSound
  <2>5. CASE anchorer' = [anchorer EXCEPT ![r].pc = "sign", ![r].from = WindowStart(r)]
    <3> DEFINE new == [a EXCEPT !.pc = "sign", !.from = LatestAnchored + 1]
    <3>1. new \in AnchorerRecord /\ new.pc = "sign" /\ new.from = LatestAnchored + 1
          /\ new.to = a.to /\ new.tail = a.tail
      <4> DEFINE mid == [a EXCEPT !.pc = "sign"]
      <4>1. mid \in AnchorerRecord /\ mid.pc = "sign" /\ mid.to = a.to /\ mid.tail = a.tail
        BY DEF AnchorerRecord
      <4>2. new = [mid EXCEPT !.from = LatestAnchored + 1]
        OBVIOUS
      <4>3. LatestAnchored + 1 \in Nat
        BY <2>3
      <4> HIDE DEF mid, new
      <4> QED
        BY <4>1, <4>2, <4>3 DEF AnchorerRecord
    <3>2. anchorer' = [anchorer EXCEPT ![r] = new]
      BY <2>1, <2>5 DEF WindowStart, AnchorInv, AnchorTypes
    <3> HIDE DEF new
    <3>3. InLog(new)
      BY <2>1, <3>1 DEF InLog
    <3>4. new.from <= LatestAnchored + 1
      BY <3>1, <2>3
    <3> QED
      BY <2>2, <3>1, <3>2, <3>3, <3>4, NoNewAnchor
  <2> QED
    BY <1>4, <2>4, <2>5 DEF AnchorWindow
<1>5. ASSUME NEW r \in Anchorers, AnchorFails(r) PROVE AnchorInv'
  BY <1>5, NoNewAnchor, IdleAnchorerIsSound DEF AnchorFails
<1>6. ASSUME NEW w \in AuditWriters, LockChain(w) \/ ReadTail(w) \/ InsertRow(w)
      PROVE  UNCHANGED <<anchors, anchorer>>
  BY <1>6 DEF LockChain, ReadTail, InsertRow
<1>7. ASSUME NEW w \in AuditWriters, NEW commits \in BOOLEAN, EndTx(w, commits)
      PROVE  UNCHANGED <<anchors, anchorer>>
  BY <1>7 DEF EndTx
<1> QED
  BY <1>1, <1>2, <1>3, <1>4, <1>5, <1>6, <1>7, SigningKeeps DEF AuditNext

\* What is signed is in the log, and every number up to the newest anchor is in a window
\* (audit-chain-anchor-service.ts), for any number of services.
THEOREM AnchorInvariant == AuditSpec => []AnchorInv
BY AuditInvariant, AnchorStart, AnchorKeeps, PTL DEF AuditSpec

\* The signed windows leave no gap and sign what the log holds, whichever services
\* race, and however often the KMS fails (audit-chain-anchor-service.ts).
THEOREM AnchorsHold == AuditSpec => []AnchorsCover
<1>1. AnchorInv => AnchorsCover
  BY DEF AnchorInv, NoGap, SignedAreInLog, InLog, AnchorsCover
<1> QED
  BY <1>1, AnchorInvariant, PTL

\* The audit trail is sound, for any number of writers and anchor services.
THEOREM TrailHolds == AuditSpec => []AuditTrailSound
BY ChainHolds, SparedHolds, AnchorsHold, PTL DEF AuditTrailSound
-----------------------------------------------------------------------------
(* Organisations in the task market *)

OrderRecord == [org : Orgs, status : OrderStatus, goal : BOOLEAN]
StarterRecord == [pc : {"idle", "claim", "plan", "undo", "record"}, order : Nat]
PayerRecord == [pc : {"idle", "begin", "commit"}, order : Nat, org : Orgs \cup {NoOrg},
                key : SettleKeys, pct : 0..100, balance : Int]
PaymentRecord == [org : Orgs \cup {NoOrg}, amount : Int]

OrgTypes ==
    /\ orgTask \in {"open", "accepted", "completed"}
    /\ bids \in [Orgs -> {"none", "submitted", "assigned"}]
    /\ orders \in Seq(OrderRecord) /\ Latest \in 0..MaxOrders
    /\ starter \in [Starters -> StarterRecord]
    /\ payer \in [Payers -> PayerRecord]
    /\ orgWallet \in [Orgs -> Int]
    /\ orgLedger \in [Orgs -> Int]
    /\ paidTo \in [SettleKeys -> PaymentRecord]
    /\ trees \in [1..MaxOrders -> Nat]
    /\ unrecorded \subseteq 1..MaxOrders

\* A request acts on an order that exists, for an organisation; an acceptance pays the task.
RequestsAreSound ==
    /\ \A x \in Starters : starter[x].pc # "idle" => starter[x].order \in 1..Latest
    /\ \A x \in Payers : payer[x].pc # "idle" =>
          /\ payer[x].org \in Orgs
          /\ payer[x].order # 0 => payer[x].order \in 1..Latest /\ payer[x].key = MarketTask

\* A starter that has claimed its order.
Builds(x, n) == starter[x].pc \in {"plan", "undo", "record"} /\ starter[x].order = n

\* One starter builds for an order, which is not up for a start then, and only the one
\* that records has a tree.
BuildersAlone ==
    \A x \in Starters : \A n \in 1..Latest : Builds(x, n) =>
        /\ orders[n].status # "assigned"
        /\ \A y \in Starters : Builds(y, n) => y = x
        /\ trees[n] = IF starter[x].pc = "record" THEN 1 ELSE 0

\* An order that was not started has no tree, and what is submitted knows its tree or
\* is counted as unrecorded.
TreesAgree ==
    /\ \A n \in 1..MaxOrders : n > Latest => trees[n] = 0
    /\ \A n \in 1..Latest :
          /\ orders[n].status = "assigned" => trees[n] = 0
          /\ orders[n].status \in {"submitted", "accepted"} => orders[n].goal \/ n \in unrecorded

OrgInv ==
    /\ OrgTypes /\ RequestsAreSound /\ BuildersAlone /\ TreesAgree
    /\ OrderSettledOnce

\* What the assumptions say of the organisations' market.
LEMMA OrgConstants ==
    /\ MarketTask \in SettleKeys /\ IsFiniteSet(SettleKeys) /\ NoOrg \notin Orgs
    /\ OrgReward \in Nat /\ OrgReward > 0 /\ PlatformPcts \subseteq 0..100
    /\ MaxOrders \in Nat /\ MaxOrders > 0
  BY OrgMarketAssumption

\* An organisation's part of a settlement, and the sum of its parts.
NetOf(o) == [k \in SettleKeys |-> IF paidTo[k].org = o THEN paidTo[k].amount ELSE 0]

\* The invariant holds of a task nobody has applied for.
LEMMA OrgStart == OrgMarketInit => OrgInv
<1> SUFFICES ASSUME OrgMarketInit PROVE OrgInv
  OBVIOUS
<1> USE OrgConstants
<1>1. orders = <<>> /\ Latest = 0
  BY DEF OrgMarketInit, Latest
<1>2. OrgTypes
  BY <1>1 DEF OrgMarketInit, OrgTypes, StarterRecord, PayerRecord, PaymentRecord,
         IdleStarter, IdlePayer, Unpaid
<1>3. RequestsAreSound /\ BuildersAlone /\ TreesAgree
  BY <1>1 DEF OrgMarketInit, RequestsAreSound, BuildersAlone, TreesAgree, Builds, IdleStarter, IdlePayer
<1>4. OrgBooksBalance
  <2> SUFFICES ASSUME NEW o \in Orgs PROVE orgWallet[o] = orgLedger[o] /\ orgLedger[o] = SumFunction(NetOf(o))
    BY DEF OrgBooksBalance, NetOf
  <2>1. \A k \in SettleKeys : NetOf(o)[k] = 0
    BY DEF OrgMarketInit, NetOf, Unpaid
  <2>2. SumFunction(NetOf(o)) = 0
    BY <2>1, SumOfZeros DEF SumFunction, NetOf
  <2> QED
    BY <2>2 DEF OrgMarketInit
<1>5. AcceptedOnce /\ OneGoalTree
  BY <1>1 DEF AcceptedOnce, OneGoalTree
<1> QED
  BY <1>2, <1>3, <1>4, <1>5 DEF OrgInv, OrderSettledOnce

\* Steps that pay nothing keep the books.
LEMMA BooksKept ==
  ASSUME OrgBooksBalance, UNCHANGED <<orgWallet, orgLedger, paidTo>> PROVE OrgBooksBalance'
  BY DEF OrgBooksBalance
-----------------------------------------------------------------------------
\* A step that writes neither orders nor trees nor starts leaves to the starts what they build.
LEMMA BuildersKept ==
  ASSUME BuildersAlone, TreesAgree, OneGoalTree, AcceptedOnce,
         UNCHANGED <<orders, starter, trees, unrecorded>>
  PROVE  BuildersAlone' /\ TreesAgree' /\ OneGoalTree'
<1>1. Latest' = Latest
  BY DEF Latest
<1>2. BuildersAlone'
  BY <1>1 DEF BuildersAlone, Builds
<1>3. TreesAgree' /\ OneGoalTree'
  BY <1>1 DEF TreesAgree, OneGoalTree
<1> QED
  BY <1>2, <1>3

\* What the sequence of orders holds.
LEMMA OrdersAre ==
  ASSUME OrgTypes
  PROVE  /\ Latest = Len(orders) /\ Latest \in Nat /\ Latest <= MaxOrders
         /\ \A n \in 1..Latest : orders[n] \in OrderRecord
  BY OrgConstants, ElementOfSeq DEF OrgTypes, Latest

\* An application changes the organisation's bid alone.
LEMMA OrgBid == ASSUME OrgInv, NEW o \in Orgs, ApplyAsOrg(o) PROVE OrgInv'
<1> USE OrgConstants DEF OrgInv, OrderSettledOnce
<1>1. /\ orders' = orders /\ Latest' = Latest
      /\ UNCHANGED <<starter, trees, unrecorded, orgWallet, orgLedger, paidTo>>
  BY DEF ApplyAsOrg, Latest
<1>3. OrgTypes'
  BY <1>1 DEF ApplyAsOrg, OrgTypes
<1>4. RequestsAreSound'
  BY <1>1, OrdersAre DEF ApplyAsOrg, RequestsAreSound, OrgTypes
<1>5. AcceptedOnce'
  BY <1>1 DEF ApplyAsOrg, AcceptedOnce, AlreadyPaid
<1> QED
  BY <1>1, <1>3, <1>4, <1>5, BuildersKept, BooksKept

\* A persona takes the open task (confirmAcceptance), whatever organisations have applied for.
LEMMA OrgPersonaTakes == ASSUME OrgInv, PersonaTakes PROVE OrgInv'
<1> USE OrgConstants DEF OrgInv, OrderSettledOnce
<1>1. /\ orders' = orders /\ Latest' = Latest
      /\ UNCHANGED <<starter, trees, unrecorded, orgWallet, orgLedger, paidTo>>
  BY DEF PersonaTakes, Latest
<1>3. OrgTypes'
  BY <1>1 DEF PersonaTakes, OrgTypes
<1>4. RequestsAreSound'
  BY <1>1, OrdersAre DEF PersonaTakes, RequestsAreSound, OrgTypes
<1>5. AcceptedOnce'
  BY <1>1 DEF PersonaTakes, AcceptedOnce, AlreadyPaid
<1> QED
  BY <1>1, <1>3, <1>4, <1>5, BuildersKept, BooksKept

\* A request of the personas' market begins, having read that a persona holds the task.
LEMMA OrgPersonaCall == ASSUME OrgInv, PersonaCall PROVE OrgInv'
<1> USE OrgConstants DEF OrgInv, OrderSettledOnce
<1>1. /\ orders' = orders /\ Latest' = Latest
      /\ UNCHANGED <<starter, trees, unrecorded, orgWallet, orgLedger, paidTo>>
  BY DEF PersonaCall, Latest
<1>3. OrgTypes'
  BY <1>1 DEF PersonaCall, OrgTypes
<1>4. RequestsAreSound'
  BY <1>1, OrdersAre DEF PersonaCall, RequestsAreSound, OrgTypes
<1>5. AcceptedOnce'
  BY <1>1 DEF PersonaCall, AcceptedOnce, AlreadyPaid
<1> QED
  BY <1>1, <1>3, <1>4, <1>5, BuildersKept, BooksKept

\* It completes the task or opens it again, unless an acceptance has completed it.
LEMMA OrgPersonaDecides ==
  ASSUME OrgInv, NEW status \in {"open", "completed"}, PersonaDecides(status)
  PROVE  OrgInv'
<1> USE OrgConstants DEF OrgInv, OrderSettledOnce
<1>1. /\ orders' = orders /\ Latest' = Latest
      /\ UNCHANGED <<starter, trees, unrecorded, orgWallet, orgLedger, paidTo>>
  BY DEF PersonaDecides, Latest
<1>3. OrgTypes'
  BY <1>1 DEF PersonaDecides, OrgTypes
<1>4. RequestsAreSound'
  BY <1>1, OrdersAre DEF PersonaDecides, RequestsAreSound, OrgTypes
<1>5. AcceptedOnce'
  BY <1>1 DEF PersonaDecides, AcceptedOnce, AlreadyPaid
<1> QED
  BY <1>1, <1>3, <1>4, <1>5, BuildersKept, BooksKept

\* An acceptance reads a submitted order, which names the organisation it will pay.
LEMMA OrgAcceptRead ==
  ASSUME OrgInv, NEW x \in Payers, NEW pct \in PlatformPcts, AcceptRead(x, pct)
  PROVE  OrgInv'
<1> USE OrgConstants DEF OrgInv, OrderSettledOnce
<1>1. /\ orders' = orders /\ Latest' = Latest
      /\ UNCHANGED <<starter, trees, unrecorded, orgWallet, orgLedger, paidTo>>
  BY DEF AcceptRead, Latest
<1> DEFINE p == [IdlePayer EXCEPT !.pc = "begin", !.order = Latest, !.org = orders[Latest].org, !.pct = pct]
<1>a. /\ payer' = [payer EXCEPT ![x] = p]
      /\ Latest \in 1..Latest /\ Latest \in Nat /\ orders[Latest].org \in Orgs
  BY OrdersAre DEF AcceptRead, OrderRecord
<1>b. IdlePayer \in PayerRecord /\ IdlePayer.key = MarketTask
  BY DEF IdlePayer, PayerRecord
<1>c. p \in PayerRecord /\ p.order = Latest /\ p.org = orders[Latest].org /\ p.key = MarketTask
  BY <1>a, <1>b DEF PayerRecord
<1> HIDE DEF p
<1>2. payer' \in [Payers -> PayerRecord]
  BY <1>a, <1>c DEF OrgTypes
<1>3. OrgTypes'
  BY <1>1, <1>2 DEF AcceptRead, OrgTypes
<1>4. RequestsAreSound'
  BY <1>1, <1>a, <1>c DEF RequestsAreSound, OrgTypes
<1>5. AcceptedOnce'
  BY <1>1 DEF AcceptRead, AcceptedOnce, AlreadyPaid
<1> QED
  BY <1>1, <1>3, <1>4, <1>5, BuildersKept, BooksKept

\* An administrator's settlement names organisation and source task.
LEMMA OrgSettleRead ==
  ASSUME OrgInv, NEW x \in Payers, NEW o \in Orgs, NEW k \in SettleKeys, NEW pct \in PlatformPcts,
         SettleRead(x, o, k, pct)
  PROVE  OrgInv'
<1> USE OrgConstants DEF OrgInv, OrderSettledOnce
<1>1. /\ orders' = orders /\ Latest' = Latest
      /\ UNCHANGED <<starter, trees, unrecorded, orgWallet, orgLedger, paidTo>>
  BY DEF SettleRead, Latest
<1> DEFINE p == [IdlePayer EXCEPT !.pc = "begin", !.org = o, !.key = k, !.pct = pct]
<1>a. payer' = [payer EXCEPT ![x] = p]
  BY DEF SettleRead
<1>b. IdlePayer \in PayerRecord /\ IdlePayer.order = 0
  BY DEF IdlePayer, PayerRecord
<1>c. p \in PayerRecord /\ p.order = 0 /\ p.org = o
  BY <1>b DEF PayerRecord
<1> HIDE DEF p
<1>2. payer' \in [Payers -> PayerRecord]
  BY <1>a, <1>c DEF OrgTypes
<1>3. OrgTypes'
  BY <1>1, <1>2 DEF SettleRead, OrgTypes
<1>4. RequestsAreSound'
  BY <1>1, <1>a, <1>c DEF RequestsAreSound, OrgTypes
<1>5. AcceptedOnce'
  BY <1>1 DEF SettleRead, AcceptedOnce, AlreadyPaid
<1> QED
  BY <1>1, <1>3, <1>4, <1>5, BuildersKept, BooksKept

\* The transaction of a payment reads the wallet.
LEMMA OrgPayRead == ASSUME OrgInv, NEW x \in Payers, PayRead(x) PROVE OrgInv'
<1> USE OrgConstants DEF OrgInv, OrderSettledOnce
<1>1. /\ orders' = orders /\ Latest' = Latest
      /\ UNCHANGED <<starter, trees, unrecorded, orgWallet, orgLedger, paidTo>>
  BY DEF PayRead, Latest
<1>2. payer' \in [Payers -> PayerRecord]
  <2>1. payer[x] \in PayerRecord /\ orgWallet[payer[x].org] \in Int
    BY DEF PayRead, RequestsAreSound, OrgTypes
  <2> QED
    BY <2>1 DEF PayRead, OrgTypes, PayerRecord
<1>3. OrgTypes'
  BY <1>1, <1>2 DEF PayRead, OrgTypes
<1>4. RequestsAreSound'
  BY <1>1, OrdersAre DEF PayRead, RequestsAreSound, OrgTypes, PayerRecord
<1>5. AcceptedOnce'
  BY <1>1 DEF PayRead, AcceptedOnce, AlreadyPaid
<1> QED
  BY <1>1, <1>3, <1>4, <1>5, BuildersKept, BooksKept

-----------------------------------------------------------------------------
\* A start reads an assigned order: nothing is built for it yet.
LEMMA OrgStartRead == ASSUME OrgInv, NEW x \in Starters, StartRead(x) PROVE OrgInv'
<1> USE OrgConstants DEF OrgInv, OrderSettledOnce
<1>1. /\ orders' = orders /\ Latest' = Latest /\ Latest \in Nat /\ Latest > 0
      /\ UNCHANGED <<orgTask, bids, payer, orgWallet, orgLedger, paidTo, trees, unrecorded>>
      /\ starter[x].pc = "idle"
      /\ starter' = [starter EXCEPT ![x] = [pc |-> "claim", order |-> Latest]]
  BY OrdersAre DEF StartRead, Latest
<1>2. starter' \in [Starters -> StarterRecord]
  BY <1>1 DEF OrgTypes, StarterRecord
<1>3. /\ \A y \in Starters : \A n \in 1..Latest : Builds(y, n)' <=> Builds(y, n)
      /\ \A y \in Starters : Builds(y, 0)' => Builds(y, 0)
      /\ \A y \in Starters : starter'[y].pc = "record" <=> starter[y].pc = "record"
      /\ \A y \in Starters : starter[y].pc # "idle" => starter'[y] = starter[y]
  BY <1>1 DEF OrgTypes, Builds
<1>4. OrgTypes'
  BY <1>1, <1>2 DEF OrgTypes
<1>5. RequestsAreSound'
  BY <1>1 DEF RequestsAreSound, OrgTypes
<1>6. BuildersAlone'
  BY <1>1, <1>3 DEF BuildersAlone
<1>7. TreesAgree' /\ AcceptedOnce'
  BY <1>1 DEF TreesAgree, AcceptedOnce, AlreadyPaid
<1>8. OneGoalTree'
  BY <1>1, <1>3 DEF OneGoalTree
<1> QED
  BY <1>1, <1>4, <1>5, <1>6, <1>7, <1>8, BooksKept

\* A start that dies leaves its order to those counted as unrecorded.
LEMMA OrgStarterDies == ASSUME OrgInv, NEW x \in Starters, StarterDies(x) PROVE OrgInv'
<1> USE OrgConstants DEF OrgInv, OrderSettledOnce
<1>1. /\ orders' = orders /\ Latest' = Latest /\ Latest \in Nat /\ Latest <= MaxOrders
      /\ UNCHANGED <<orgTask, bids, payer, orgWallet, orgLedger, paidTo, trees>>
      /\ starter[x].pc \in {"plan", "undo", "record"}
      /\ unrecorded' = unrecorded \cup {starter[x].order} /\ starter[x].order \in 1..Latest
      /\ starter[x].order \in 1..MaxOrders
      /\ starter'[x].pc = "idle" /\ \A y \in Starters \ {x} : starter'[y] = starter[y]
  BY OrdersAre DEF StarterDies, Latest, OrgTypes, RequestsAreSound, IdleStarter
<1>2. starter' \in [Starters -> StarterRecord]
  BY <1>1 DEF StarterDies, IdleStarter, OrgTypes, StarterRecord
<1>3. \A y \in Starters : \A n \in 1..Latest :
          Builds(y, n)' => Builds(y, n) /\ y # x /\ starter'[y] = starter[y]
  BY <1>1 DEF Builds
<1>4. OrgTypes'
  BY <1>1, <1>2 DEF OrgTypes
<1>5. RequestsAreSound'
  BY <1>1 DEF RequestsAreSound
<1>6. BuildersAlone'
  BY <1>1, <1>3 DEF BuildersAlone
<1>7. TreesAgree' /\ AcceptedOnce'
  BY <1>1 DEF TreesAgree, AcceptedOnce, AlreadyPaid
<1>8. OneGoalTree'
  <2> SUFFICES ASSUME NEW n \in 1..Latest, trees[n] = 1, ~orders[n].goal, n \notin unrecorded'
               PROVE  \E y \in Starters : starter'[y] = [pc |-> "record", order |-> n]
    BY <1>1 DEF OneGoalTree
  <2>1. PICK y \in Starters : starter[y] = [pc |-> "record", order |-> n]
    BY <1>1 DEF OneGoalTree
  <2> QED
    BY <1>1, <2>1
<1> QED
  BY <1>1, <1>4, <1>5, <1>6, <1>7, <1>8, BooksKept

\* The one start that claimed the order builds its tree, the only one, or none.
LEMMA OrgStartPlan ==
  ASSUME OrgInv, NEW x \in Starters, NEW built \in BOOLEAN, StartPlan(x, built) PROVE OrgInv'
<1> USE OrgConstants DEF OrgInv, OrderSettledOnce
<1> DEFINE n == starter[x].order
           next == IF built THEN "record" ELSE "undo"
<1>1. /\ orders' = orders /\ Latest' = Latest /\ Latest \in Nat /\ Latest <= MaxOrders
      /\ UNCHANGED <<orgTask, bids, payer, orgWallet, orgLedger, paidTo, unrecorded>>
      /\ starter[x] \in StarterRecord /\ starter[x].pc = "plan" /\ n \in 1..Latest /\ n \in 1..MaxOrders
      /\ starter' = [starter EXCEPT ![x].pc = next]
      /\ trees' = IF built THEN [trees EXCEPT ![n] = @ + 1] ELSE trees
  BY OrdersAre DEF StartPlan, Latest, OrgTypes, RequestsAreSound
<1>2. /\ starter'[x] = [pc |-> next, order |-> n]
      /\ \A y \in Starters \ {x} : starter'[y] = starter[y]
      /\ starter' \in [Starters -> StarterRecord]
  BY <1>1 DEF OrgTypes, StarterRecord
<1>3. /\ Builds(x, n) /\ trees[n] = 0 /\ orders[n].status # "assigned"
      /\ \A y \in Starters : Builds(y, n) => y = x
      /\ \A m \in 1..MaxOrders : trees'[m] = IF m = n /\ built THEN 1 ELSE trees[m]
      /\ trees' \in [1..MaxOrders -> Nat]
  <2>1. Builds(x, n)
    BY <1>1 DEF Builds
  <2>2. trees[n] = 0 /\ orders[n].status # "assigned" /\ \A y \in Starters : Builds(y, n) => y = x
    BY <1>1, <2>1 DEF BuildersAlone
  <2> QED
    BY <1>1, <2>1, <2>2 DEF OrgTypes
<1> HIDE DEF n
<1>4. \A y \in Starters : \A m \in 1..Latest : Builds(y, m)' <=> Builds(y, m)
  <2>1. \A m \in 1..Latest : Builds(x, m)' <=> Builds(x, m)
    BY <1>1, <1>2 DEF Builds, n
  <2>2. \A y \in Starters \ {x} : \A m \in 1..Latest : Builds(y, m)' <=> Builds(y, m)
    BY <1>2 DEF Builds
  <2> QED
    BY <2>1, <2>2
<1>5. OrgTypes'
  BY <1>1, <1>2, <1>3 DEF OrgTypes
<1>6. RequestsAreSound'
  BY <1>1, <1>2 DEF RequestsAreSound
<1>7. BuildersAlone'
  <2> SUFFICES ASSUME NEW y \in Starters, NEW m \in 1..Latest, Builds(y, m)
               PROVE  /\ orders[m].status # "assigned"
                      /\ \A z \in Starters : Builds(z, m) => z = y
                      /\ trees'[m] = IF starter'[y].pc = "record" THEN 1 ELSE 0
    BY <1>1, <1>4 DEF BuildersAlone
  <2>1. CASE y = x
    <3>1. m = n
      BY <2>1 DEF Builds, n
    <3> QED
      BY <1>1, <1>2, <1>3, <2>1, <3>1
  <2>2. CASE y # x
    <3>1. m # n
      BY <1>3, <2>2
    <3> QED
      BY <1>1, <1>2, <1>3, <2>2, <3>1 DEF BuildersAlone
  <2> QED
    BY <2>1, <2>2
<1>8. TreesAgree'
  BY <1>1, <1>3 DEF TreesAgree
<1>9. AcceptedOnce'
  BY <1>1 DEF AcceptedOnce, AlreadyPaid
<1>10. OneGoalTree'
  <2> SUFFICES ASSUME NEW m \in 1..Latest
               PROVE  /\ trees'[m] <= 1
                      /\ trees'[m] = 1 => \/ orders[m].goal
                                          \/ m \in unrecorded
                                          \/ \E y \in Starters : starter'[y] = [pc |-> "record", order |-> m]
    BY <1>1 DEF OneGoalTree
  <2>1. CASE m = n
    BY <1>1, <1>2, <1>3, <2>1
  <2>2. CASE m # n
    BY <1>1, <1>2, <1>3, <2>2 DEF OneGoalTree, n
  <2> QED
    BY <2>1, <2>2
<1> QED
  BY <1>1, <1>5, <1>6, <1>7, <1>8, <1>9, <1>10, BooksKept

\* A write to one order leaves the others, and the order that is the latest.
LEMMA OrderWritten ==
  ASSUME OrgTypes, NEW n \in 1..Latest, NEW r \in OrderRecord, orders' = [orders EXCEPT ![n] = r]
  PROVE  /\ orders' \in Seq(OrderRecord) /\ Latest' = Latest /\ orders'[n] = r
         /\ \A m \in 1..Latest : m # n => orders'[m] = orders[m]
  BY OrdersAre, ExceptSeq DEF OrgTypes, Latest

\* A claim finds an order that nobody builds for, or ends its request.
LEMMA OrgStartClaim == ASSUME OrgInv, NEW x \in Starters, StartClaim(x) PROVE OrgInv'
<1> USE OrgConstants DEF OrgInv, OrderSettledOnce
<1> DEFINE n == starter[x].order
           r == [orders[n] EXCEPT !.status = "in_progress"]
<1>1. /\ Latest \in Nat /\ Latest <= MaxOrders /\ n \in 1..Latest /\ n \in 1..MaxOrders
      /\ UNCHANGED <<orgTask, bids, payer, orgWallet, orgLedger, paidTo, trees, unrecorded>>
      /\ starter[x] \in StarterRecord /\ starter[x].pc = "claim" /\ orders[n] \in OrderRecord
  BY OrdersAre DEF StartClaim, OrgTypes, RequestsAreSound
<1>2. \A m \in 1..Latest : ~Builds(x, m)
  BY <1>1 DEF Builds
<1>3. CASE orders[n].status = "assigned"
  <2>1. orders' = [orders EXCEPT ![n] = r] /\ r \in OrderRecord /\ r.status = "in_progress"
        /\ starter' = [starter EXCEPT ![x].pc = "plan"]
    BY <1>1, <1>3 DEF StartClaim, ClaimableOrder, InStatus, OrderRecord, OrderStatus, OrgTypes
  <2>2. /\ orders' \in Seq(OrderRecord) /\ Latest' = Latest /\ orders'[n] = r
        /\ \A m \in 1..Latest : m # n => orders'[m] = orders[m]
    BY <1>1, <2>1, OrderWritten
  <2>3. /\ starter'[x] = [pc |-> "plan", order |-> n]
        /\ \A y \in Starters \ {x} : starter'[y] = starter[y]
        /\ starter' \in [Starters -> StarterRecord]
    BY <1>1, <2>1 DEF OrgTypes, StarterRecord
  <2>4. trees[n] = 0 /\ \A y \in Starters : ~Builds(y, n)
    BY <1>1, <1>3 DEF TreesAgree, BuildersAlone
  <2> HIDE DEF n, r
  <2>5. /\ \A m \in 1..Latest : Builds(x, m)' <=> m = n
        /\ \A y \in Starters \ {x} : \A m \in 1..Latest : Builds(y, m)' <=> Builds(y, m)
    BY <1>1, <2>3 DEF Builds
  <2>6. OrgTypes'
    BY <1>1, <2>2, <2>3 DEF OrgTypes
  <2>7. RequestsAreSound'
    BY <1>1, <2>2, <2>3 DEF RequestsAreSound
  <2>8. BuildersAlone'
    <3> SUFFICES ASSUME NEW y \in Starters, NEW m \in 1..Latest, Builds(y, m)'
                 PROVE  /\ orders'[m].status # "assigned"
                        /\ \A z \in Starters : Builds(z, m)' => z = y
                        /\ trees[m] = IF starter'[y].pc = "record" THEN 1 ELSE 0
      BY <1>1, <2>2 DEF BuildersAlone
    <3>1. CASE y = x
      BY <2>1, <2>2, <2>3, <2>4, <2>5, <3>1
    <3>2. CASE y # x
      BY <2>2, <2>3, <2>4, <2>5, <3>2 DEF BuildersAlone
    <3> QED
      BY <3>1, <3>2
  <2>9. TreesAgree'
    BY <1>1, <2>1, <2>2 DEF TreesAgree
  <2>10. AcceptedOnce'
    BY <1>1, <2>1, <2>2 DEF AcceptedOnce, AlreadyPaid
  <2>11. OneGoalTree'
    <3> SUFFICES ASSUME NEW m \in 1..Latest
                 PROVE  /\ trees[m] <= 1
                        /\ trees[m] = 1 => \/ orders'[m].goal
                                           \/ m \in unrecorded
                                           \/ \E y \in Starters : starter'[y] = [pc |-> "record", order |-> m]
      BY <1>1, <2>2 DEF OneGoalTree
    <3>1. CASE m = n
      BY <2>4, <3>1
    <3>2. CASE m # n
      BY <1>1, <2>2, <2>3, <3>2 DEF OneGoalTree
    <3> QED
      BY <3>1, <3>2
  <2> QED
    BY <1>1, <2>6, <2>7, <2>8, <2>9, <2>10, <2>11, BooksKept
<1>4. CASE orders[n].status # "assigned"
  <2>1. /\ orders' = orders /\ starter'[x] = [pc |-> "idle", order |-> 0]
        /\ \A y \in Starters \ {x} : starter'[y] = starter[y]
        /\ starter' = [starter EXCEPT ![x] = IdleStarter]
    BY <1>1, <1>4 DEF StartClaim, ClaimableOrder, InStatus, IdleStarter, OrgTypes
  <2> HIDE DEF n, r
  <2>2. Latest' = Latest
    BY <2>1 DEF Latest
  <2>3. \A y \in Starters : \A m \in 1..Latest : Builds(y, m)' <=> Builds(y, m)
    BY <1>2, <2>1 DEF Builds
  <2>a. IdleStarter \in StarterRecord
    BY DEF IdleStarter, StarterRecord
  <2>b. OrgTypes'
    BY <1>1, <2>1, <2>2, <2>a DEF OrgTypes
  <2>c. RequestsAreSound'
    BY <1>1, <2>1, <2>2 DEF RequestsAreSound
  <2>4. TreesAgree' /\ AcceptedOnce'
    BY <1>1, <2>1, <2>2 DEF TreesAgree, AcceptedOnce, AlreadyPaid
  <2>5. BuildersAlone'
    BY <1>1, <1>2, <2>1, <2>2, <2>3 DEF BuildersAlone
  <2>6. OneGoalTree'
    BY <1>1, <2>1, <2>2 DEF OneGoalTree
  <2> QED
    BY <1>1, <2>b, <2>c, <2>4, <2>5, <2>6, BooksKept
<1> QED
  BY <1>3, <1>4

\* A start ends: the order knows its tree, or is up for another start without one.
LEMMA OrgStartEnd == ASSUME OrgInv, NEW x \in Starters, StartEnd(x) PROVE OrgInv'
<1> USE OrgConstants DEF OrgInv, OrderSettledOnce
<1> DEFINE n == starter[x].order
           undo == starter[x].pc = "undo"
<1>1. /\ Latest \in Nat /\ Latest <= MaxOrders /\ n \in 1..Latest /\ n \in 1..MaxOrders
      /\ UNCHANGED <<orgTask, bids, payer, orgWallet, orgLedger, paidTo, trees, unrecorded>>
      /\ starter[x] \in StarterRecord /\ starter[x].pc \in {"undo", "record"} /\ orders[n] \in OrderRecord
      /\ orders \in Seq(OrderRecord)
  BY OrdersAre DEF StartEnd, OrgTypes, RequestsAreSound
<1>2. /\ Builds(x, n) /\ orders[n].status # "assigned"
      /\ \A y \in Starters : Builds(y, n) => y = x
      /\ trees[n] = IF undo THEN 0 ELSE 1
  BY <1>1 DEF Builds, BuildersAlone
<1>3. /\ starter'[x] = [pc |-> "idle", order |-> 0]
      /\ \A y \in Starters \ {x} : starter'[y] = starter[y]
      /\ starter' \in [Starters -> StarterRecord]
  BY <1>1 DEF StartEnd, IdleStarter, OrgTypes, StarterRecord
<1>4. PICK r \in OrderRecord : /\ orders' = [orders EXCEPT ![n] = r] /\ r.org = orders[n].org
                               /\ \/ r.status = orders[n].status
                                  \/ undo /\ r.status = "assigned" /\ orders[n].status = "in_progress"
                               /\ orders[n].goal => r.goal
                               /\ ~undo /\ orders[n].status = "in_progress" => r.goal
  <2>1. CASE orders[n].status # "in_progress"
    <3>1. orders' = orders /\ orders = [orders EXCEPT ![n] = orders[n]]
      BY <1>1, <2>1 DEF StartEnd, InStatus
    <3> QED
      BY <1>1, <2>1, <3>1
  <2>2. CASE orders[n].status = "in_progress" /\ undo
    <3> DEFINE r == [orders[n] EXCEPT !.status = "assigned"]
    <3>1. orders' = [orders EXCEPT ![n] = r]
      BY <1>1, <2>2 DEF StartEnd, InStatus
    <3>2. r \in OrderRecord /\ r.org = orders[n].org /\ r.status = "assigned" /\ r.goal = orders[n].goal
      BY <1>1 DEF OrderRecord, OrderStatus
    <3> QED
      BY <2>2, <3>1, <3>2
  <2>3. CASE orders[n].status = "in_progress" /\ ~undo
    <3> DEFINE r == [orders[n] EXCEPT !.goal = TRUE]
    <3>1. orders' = [orders EXCEPT ![n] = r]
      BY <1>1, <2>3 DEF StartEnd, InStatus
    <3>2. r \in OrderRecord /\ r.org = orders[n].org /\ r.status = orders[n].status /\ r.goal = TRUE
      BY <1>1 DEF OrderRecord
    <3> QED
      BY <2>3, <3>1, <3>2
  <2> QED
    BY <2>1, <2>2, <2>3
<1>5. /\ orders' \in Seq(OrderRecord) /\ Latest' = Latest /\ orders'[n] = r
      /\ \A m \in 1..Latest : m # n => orders'[m] = orders[m]
  BY <1>1, <1>4, OrderWritten
<1> HIDE DEF n, undo
<1>6. \A y \in Starters : \A m \in 1..Latest : Builds(y, m)' => y # x /\ m # n /\ Builds(y, m)
  BY <1>2, <1>3 DEF Builds
<1>7. OrgTypes'
  BY <1>1, <1>3, <1>5 DEF OrgTypes
<1>8. RequestsAreSound'
  <2>1. \A y \in Starters : starter'[y].pc # "idle" => starter'[y].order \in 1..Latest
    BY <1>3 DEF RequestsAreSound
  <2> QED
    BY <1>1, <1>5, <2>1 DEF RequestsAreSound
<1>9. BuildersAlone'
  BY <1>1, <1>3, <1>5, <1>6 DEF BuildersAlone
<1>10. TreesAgree'
  <2> SUFFICES ASSUME NEW m \in 1..Latest
               PROVE  /\ orders'[m].status = "assigned" => trees[m] = 0
                      /\ orders'[m].status \in {"submitted", "accepted"} =>
                            orders'[m].goal \/ m \in unrecorded
    BY <1>1, <1>5 DEF TreesAgree
  <2>1. CASE m = n
    BY <1>1, <1>2, <1>4, <1>5, <2>1 DEF TreesAgree
  <2>2. CASE m # n
    BY <1>5, <2>2 DEF TreesAgree
  <2> QED
    BY <2>1, <2>2
<1>11. AcceptedOnce'
  BY <1>1, <1>4, <1>5 DEF AcceptedOnce, AlreadyPaid
<1>12. OneGoalTree'
  <2> SUFFICES ASSUME NEW m \in 1..Latest
               PROVE  /\ trees[m] <= 1
                      /\ trees[m] = 1 => \/ orders'[m].goal
                                         \/ m \in unrecorded
                                         \/ \E y \in Starters : starter'[y] = [pc |-> "record", order |-> m]
    BY <1>1, <1>5 DEF OneGoalTree
  <2>1. CASE m = n
    <3>1. orders[n].status \in {"in_progress", "submitted", "accepted"}
      BY <1>1, <1>2 DEF OrderRecord, OrderStatus
    <3> QED
      BY <1>1, <1>2, <1>4, <1>5, <2>1, <3>1 DEF TreesAgree
  <2>2. CASE m # n
    BY <1>1, <1>3, <1>5, <2>2 DEF OneGoalTree, n
  <2> QED
    BY <2>1, <2>2
<1> QED
  BY <1>1, <1>7, <1>8, <1>9, <1>10, <1>11, <1>12, BooksKept

\* A submission of an order whose tree it does not know counts it as unrecorded.
LEMMA OrgSubmit == ASSUME OrgInv, SubmitOrgTask PROVE OrgInv'
<1> USE OrgConstants DEF OrgInv, OrderSettledOnce
<1> DEFINE n == Latest
           r == [orders[n] EXCEPT !.status = "submitted"]
<1>1. /\ n \in Nat /\ n <= MaxOrders /\ n \in 1..n /\ n \in 1..MaxOrders
      /\ UNCHANGED <<orgTask, bids, starter, payer, orgWallet, orgLedger, paidTo, trees>>
      /\ orders[n] \in OrderRecord /\ orders[n].status = "in_progress"
      /\ orders' = [orders EXCEPT ![n] = r]
      /\ unrecorded' = IF orders[n].goal THEN unrecorded ELSE unrecorded \cup {n}
  BY OrdersAre DEF SubmitOrgTask, InStatus
<1>2. r \in OrderRecord /\ r.org = orders[n].org /\ r.status = "submitted" /\ r.goal = orders[n].goal
  BY <1>1 DEF OrderRecord, OrderStatus
<1>3. /\ orders' \in Seq(OrderRecord) /\ Latest' = n /\ orders'[n] = r
      /\ \A m \in 1..n : m # n => orders'[m] = orders[m]
  BY <1>1, <1>2, OrderWritten
<1>4. /\ unrecorded \subseteq unrecorded' /\ unrecorded' \subseteq 1..MaxOrders
      /\ orders[n].goal \/ n \in unrecorded'
  BY <1>1 DEF OrgTypes
<1>5. \A y \in Starters : \A m \in 1..n : Builds(y, m)' <=> Builds(y, m)
  BY <1>1 DEF Builds
<1> HIDE DEF r
<1>6. OrgTypes'
  BY <1>1, <1>3, <1>4 DEF OrgTypes
<1>7. RequestsAreSound'
  BY <1>1, <1>3 DEF RequestsAreSound
<1>8. BuildersAlone'
  BY <1>1, <1>2, <1>3, <1>5 DEF BuildersAlone
<1>9. TreesAgree'
  BY <1>1, <1>2, <1>3, <1>4 DEF TreesAgree
<1>10. AcceptedOnce'
  BY <1>1, <1>2, <1>3 DEF AcceptedOnce, AlreadyPaid
<1>11. OneGoalTree'
  BY <1>1, <1>2, <1>3, <1>4 DEF OneGoalTree
<1> QED
  BY <1>1, <1>6, <1>7, <1>8, <1>9, <1>10, <1>11, BooksKept

\* An assignment appends an order without a tree to the task it takes.
LEMMA OrgAssign == ASSUME OrgInv, NEW o \in Orgs, ConfirmAssignToOrg(o) PROVE OrgInv'
<1> USE OrgConstants DEF OrgInv, OrderSettledOnce
<1> DEFINE r == [org |-> o, status |-> "assigned", goal |-> FALSE]
<1>1. /\ orders \in Seq(OrderRecord) /\ Latest = Len(orders) /\ Latest \in Nat /\ Latest < MaxOrders
      /\ UNCHANGED <<starter, payer, orgWallet, orgLedger, paidTo, trees, unrecorded>>
      /\ orgTask = "open" /\ orgTask' = "accepted"
      /\ orders' = Append(orders, r)
      /\ bids' \in [Orgs -> {"none", "submitted", "assigned"}]
  BY OrdersAre DEF ConfirmAssignToOrg, OrgTypes
<1>2. r \in OrderRecord /\ r.status = "assigned"
  BY DEF OrderRecord, OrderStatus
<1> HIDE DEF r
<1>3. /\ orders' \in Seq(OrderRecord) /\ Latest' = Latest + 1 /\ orders'[Latest + 1] = r
      /\ \A m \in 1..Latest : orders'[m] = orders[m]
  BY <1>1, <1>2, AppendProperties DEF Latest
<1>4. trees[Latest + 1] = 0 /\ \A y \in Starters : ~Builds(y, Latest + 1)
  BY <1>1 DEF TreesAgree, RequestsAreSound, Builds
<1>5. \A y \in Starters : \A m \in 1..(Latest + 1) : Builds(y, m)' <=> m \in 1..Latest /\ Builds(y, m)
  BY <1>1, <1>4 DEF Builds
<1>6. OrgTypes'
  BY <1>1, <1>3 DEF OrgTypes
<1>7. RequestsAreSound'
  BY <1>1, <1>3 DEF RequestsAreSound
<1>8. BuildersAlone'
  BY <1>1, <1>3, <1>5 DEF BuildersAlone
<1>9. TreesAgree'
  BY <1>1, <1>2, <1>3, <1>4 DEF TreesAgree
<1>10. AcceptedOnce'
  BY <1>1, <1>2, <1>3 DEF AcceptedOnce, AlreadyPaid
<1>11. OneGoalTree'
  BY <1>1, <1>3, <1>4 DEF OneGoalTree
<1> QED
  BY <1>1, <1>6, <1>7, <1>8, <1>9, <1>10, <1>11, BooksKept

\* What a payment adds to the books of its organisation, and to no other.
LEMMA PaymentAdds ==
  ASSUME OrgTypes, OrgBooksBalance, NEW o \in Orgs, NEW k \in SettleKeys, NEW v \in Int,
         paidTo[k] = Unpaid, paidTo' = [paidTo EXCEPT ![k] = [org |-> o, amount |-> v]],
         orgWallet' = [orgWallet EXCEPT ![o] = orgWallet[o] + v],
         orgLedger' = [orgLedger EXCEPT ![o] = orgLedger[o] + v]
  PROVE  OrgBooksBalance'
<1> USE OrgConstants
<1> SUFFICES ASSUME NEW p \in Orgs
             PROVE  orgWallet'[p] = orgLedger'[p] /\ orgLedger'[p] = SumFunction(NetOf(p)')
  BY DEF OrgBooksBalance, NetOf
<1> DEFINE old == NetOf(p)
           new == NetOf(p)'
           rest == SettleKeys \ {k}
<1>1. /\ \A j \in SettleKeys : old[j] \in Int /\ new[j] \in Int
      /\ old[k] = 0 /\ new[k] = IF p = o THEN v ELSE 0
      /\ \A j \in rest : new[j] = old[j]
      /\ DOMAIN old = SettleKeys /\ DOMAIN new = SettleKeys
  BY DEF OrgTypes, PaymentRecord, NetOf, Unpaid
<1>2. /\ SumFunction(old) = SumFunctionOnSet(old, SettleKeys)
      /\ SumFunction(new) = SumFunctionOnSet(new, SettleKeys)
  BY <1>1 DEF SumFunction
<1> HIDE DEF old, new
<1>3. /\ SumFunctionOnSet(old, SettleKeys) = old[k] + SumFunctionOnSet(old, rest)
      /\ SumFunctionOnSet(new, SettleKeys) = new[k] + SumFunctionOnSet(new, rest)
  BY <1>1, SumSplits
<1>4. IsFiniteSet(rest)
  BY FS_Subset
<1>5. SumFunctionOnSet(new, rest) = SumFunctionOnSet(old, rest) /\ SumFunctionOnSet(old, rest) \in Int
  BY <1>1, <1>4, SumAgrees, SumIsInteger
<1>6. SumFunction(new) = SumFunction(old) + (IF p = o THEN v ELSE 0)
  BY <1>1, <1>2, <1>3, <1>5
<1>7. orgWallet[p] = orgLedger[p] /\ orgLedger[p] = SumFunction(old)
  BY DEF OrgBooksBalance, NetOf, old
<1>8. /\ orgWallet'[p] = orgWallet[p] + (IF p = o THEN v ELSE 0)
      /\ orgLedger'[p] = orgLedger[p] + (IF p = o THEN v ELSE 0)
      /\ orgWallet[p] \in Int /\ orgLedger[p] \in Int
  BY DEF OrgTypes
<1> QED
  BY <1>6, <1>7, <1>8 DEF new

\* The fee taken from a reward is a number.
LEMMA NetIsInt == ASSUME NEW pct \in 0..100 PROVE OrgReward - PlatformFee(pct) \in Int
<1>1. OrgReward * pct \in Int
  BY OrgConstants
<1>2. (OrgReward * pct) \div 100 \in Int
  BY <1>1
<1> QED
  BY <1>2, OrgConstants DEF PlatformFee

\* The types a commit leaves alone, or writes in the orders.
LEMMA CommitTypes ==
  ASSUME OrgTypes, RequestsAreSound, NEW x \in Payers, PayCommit(x),
         paidTo' \in [SettleKeys -> PaymentRecord], orgWallet' \in [Orgs -> Int],
         orgLedger' \in [Orgs -> Int]
  PROVE  OrgTypes'
<1> USE OrgConstants
<1>1. /\ UNCHANGED <<bids, starter, trees, unrecorded>>
      /\ payer' = [payer EXCEPT ![x] = IdlePayer] /\ IdlePayer \in PayerRecord
      /\ orgTask' \in {"open", "accepted", "completed"}
  BY DEF PayCommit, IdlePayer, PayerRecord, OrgTypes
<1>2. payer' \in [Payers -> PayerRecord]
  BY <1>1 DEF OrgTypes
<1>3. orders' \in Seq(OrderRecord) /\ Latest' = Latest
  <2>1. CASE orders' = orders
    BY <2>1 DEF OrgTypes, Latest
  <2>2. CASE orders' # orders
    <3> DEFINE n == payer[x].order
               r == [orders[n] EXCEPT !.status = "accepted"]
    <3>1. n \in 1..Latest /\ orders' = [orders EXCEPT ![n] = r]
      BY <2>2 DEF PayCommit, RequestsAreSound
    <3>2. r \in OrderRecord
      BY <3>1, OrdersAre DEF OrderRecord, OrderStatus
    <3> QED
      BY <3>1, <3>2, OrderWritten
  <2> QED
    BY <2>1, <2>2
<1> QED
  BY <1>1, <1>2, <1>3 DEF OrgTypes

\* The books of a commit: it pays the organisation it read the balance of, or nothing.
LEMMA CommitBooks ==
  ASSUME OrgInv, NEW x \in Payers, PayCommit(x)
  PROVE  OrgBooksBalance' /\ OrgTypes'
<1> USE OrgConstants DEF OrgInv, OrderSettledOnce
<1>1. PICK p \in PayerRecord, net \in Int :
         /\ p = payer[x] /\ net = OrgReward - PlatformFee(payer[x].pct)
         /\ p.org \in Orgs
  <2>1. payer[x] \in PayerRecord /\ payer[x].org \in Orgs
    BY DEF PayCommit, OrgTypes, RequestsAreSound
  <2>2. OrgReward - PlatformFee(payer[x].pct) \in Int
    BY <2>1, NetIsInt DEF PayerRecord
  <2> QED
    BY <2>1, <2>2
<1>2. p.key \in SettleKeys /\ p.balance \in Int /\ p.order \in Nat
  BY DEF PayerRecord
<1>3. CASE Committable(p) /\ ~AlreadyPaid(p.key)
  <2>1. paidTo[p.key] = Unpaid /\ p.balance = orgWallet[p.org]
    BY <1>3 DEF Committable, Creditable, AlreadyPaid
  <2>2. orgLedger[p.org] + OrgReward - PlatformFee(p.pct) = orgLedger[p.org] + net
    BY <1>1, NetIsInt DEF OrgTypes, PlatformFee, PayerRecord
  <2>3. /\ paidTo' = [paidTo EXCEPT ![p.key] = [org |-> p.org, amount |-> net]]
        /\ orgWallet' = [orgWallet EXCEPT ![p.org] = orgWallet[p.org] + net]
        /\ orgLedger' = [orgLedger EXCEPT ![p.org] = orgLedger[p.org] + net]
    BY <1>1, <1>3, <2>1, <2>2 DEF PayCommit
  <2>4. OrgBooksBalance'
    BY <1>1, <1>2, <2>1, <2>3, PaymentAdds
  <2>5. /\ paidTo' \in [SettleKeys -> PaymentRecord] /\ orgWallet' \in [Orgs -> Int]
        /\ orgLedger' \in [Orgs -> Int]
    BY <1>1, <1>2, <2>3 DEF OrgTypes, PaymentRecord
  <2> QED
    BY <2>4, <2>5, CommitTypes
<1>4. CASE ~(Committable(p) /\ ~AlreadyPaid(p.key))
  <2>1. UNCHANGED <<paidTo, orgWallet, orgLedger>>
    BY <1>1, <1>4 DEF PayCommit
  <2> QED
    BY <2>1, BooksKept, CommitTypes DEF OrgTypes
<1> QED
  BY <1>3, <1>4

\* The orders of a commit: the one accepted was submitted while the task was accepted.
LEMMA OrgPayCommit == ASSUME OrgInv, NEW x \in Payers, PayCommit(x) PROVE OrgInv'
<1> USE OrgConstants DEF OrgInv, OrderSettledOnce
<1>1. PICK p \in PayerRecord : p = payer[x] /\ p.org \in Orgs /\ p.pc = "commit"
  BY DEF PayCommit, OrgTypes, RequestsAreSound
<1>2. OrgTypes' /\ OrgBooksBalance'
  BY CommitBooks
<1>3. /\ payer'[x].pc = "idle" /\ \A y \in Payers \ {x} : payer'[y] = payer[y]
      /\ UNCHANGED <<starter, trees, unrecorded>>
      /\ p.order # 0 => p.order \in 1..Latest /\ p.key = MarketTask
      /\ p.key \in SettleKeys /\ Latest \in Nat /\ Latest <= MaxOrders
  BY <1>1, OrdersAre DEF PayCommit, OrgTypes, IdlePayer, RequestsAreSound, PayerRecord
<1>4. \A k \in SettleKeys : AlreadyPaid(k) => AlreadyPaid(k)'
  BY <1>1, <1>3 DEF PayCommit, AlreadyPaid, Unpaid, OrgTypes
<1>5. CASE Committable(p) /\ p.order # 0
  <2> DEFINE n == p.order
             r == [orders[n] EXCEPT !.status = "accepted"]
  <2>1. /\ n \in 1..Latest /\ n \in 1..MaxOrders /\ orders[n] \in OrderRecord
        /\ orders[n].status = "submitted" /\ orgTask = "accepted" /\ orgTask' = "completed"
        /\ orders' = [orders EXCEPT ![n] = r]
    BY <1>1, <1>3, <1>5, OrdersAre DEF PayCommit, Committable, Acceptable, InStatus, Completable
  <2>2. r \in OrderRecord /\ r.status = "accepted" /\ r.goal = orders[n].goal
    BY <2>1 DEF OrderRecord, OrderStatus
  <2>3. /\ Latest' = Latest /\ orders'[n] = r
        /\ \A m \in 1..Latest : m # n => orders'[m] = orders[m]
    BY <2>1, <2>2, OrderWritten
  <2>4. AlreadyPaid(MarketTask)'
    BY <1>1, <1>3, <1>4, <1>5 DEF PayCommit, AlreadyPaid, Unpaid, OrgTypes
  <2> HIDE DEF n, r
  <2>5. \A m \in 1..Latest : orders[m].status # "accepted"
    BY <2>1 DEF AcceptedOnce
  <2>6. AcceptedOnce'
    BY <2>1, <2>3, <2>4, <2>5 DEF AcceptedOnce
  <2>7. RequestsAreSound'
    BY <1>3, <2>3 DEF RequestsAreSound
  <2>8. \A y \in Starters : \A m \in 1..Latest : Builds(y, m)' <=> Builds(y, m)
    BY <1>3 DEF Builds
  <2>9. BuildersAlone'
    BY <1>3, <2>2, <2>3, <2>8 DEF BuildersAlone
  <2>10. TreesAgree'
    BY <1>3, <2>1, <2>2, <2>3 DEF TreesAgree
  <2>11. OneGoalTree'
    BY <1>3, <2>1, <2>2, <2>3 DEF OneGoalTree
  <2> QED
    BY <1>2, <2>6, <2>7, <2>9, <2>10, <2>11
<1>6. CASE ~(Committable(p) /\ p.order # 0)
  <2>1. orders' = orders /\ orgTask' = orgTask /\ Latest' = Latest
    BY <1>1, <1>6 DEF PayCommit, Latest
  <2>2. AcceptedOnce'
    BY <1>4, <2>1 DEF AcceptedOnce
  <2>3. RequestsAreSound'
    BY <1>3, <2>1 DEF RequestsAreSound
  <2> QED
    BY <1>2, <1>3, <2>1, <2>2, <2>3, BuildersKept
<1> QED
  BY <1>5, <1>6

\* OrgInv is kept by every step of the market.
LEMMA OrgStep == OrgInv /\ [OrgMarketNext]_orgMarketVars => OrgInv'
<1> SUFFICES ASSUME OrgInv, [OrgMarketNext]_orgMarketVars PROVE OrgInv'
  OBVIOUS
<1>1. ASSUME NEW o \in Orgs, ApplyAsOrg(o) \/ ConfirmAssignToOrg(o) PROVE OrgInv'
  BY <1>1, OrgBid, OrgAssign
<1>2. CASE PersonaTakes \/ PersonaCall \/ SubmitOrgTask
  BY <1>2, OrgPersonaTakes, OrgPersonaCall, OrgSubmit
<1>3. ASSUME NEW status \in {"open", "completed"}, PersonaDecides(status) PROVE OrgInv'
  BY <1>3, OrgPersonaDecides
<1>4. ASSUME NEW x \in Starters, StartRead(x) \/ StartClaim(x) \/ StartEnd(x) \/ StarterDies(x)
      PROVE  OrgInv'
  BY <1>4, OrgStartRead, OrgStartClaim, OrgStartEnd, OrgStarterDies
<1>5. ASSUME NEW x \in Starters, NEW built \in BOOLEAN, StartPlan(x, built) PROVE OrgInv'
  BY <1>5, OrgStartPlan
<1>6. ASSUME NEW x \in Payers, NEW pct \in PlatformPcts, AcceptRead(x, pct) PROVE OrgInv'
  BY <1>6, OrgAcceptRead
<1>7. ASSUME NEW x \in Payers, NEW pct \in PlatformPcts, NEW o \in Orgs, NEW k \in SettleKeys,
             SettleRead(x, o, k, pct)
      PROVE  OrgInv'
  BY <1>7, OrgSettleRead
<1>8. ASSUME NEW x \in Payers, PayRead(x) \/ PayCommit(x) PROVE OrgInv'
  BY <1>8, OrgPayRead, OrgPayCommit
<1>9. CASE UNCHANGED orgMarketVars
  <2>1. Latest' = Latest /\ UNCHANGED <<orders, starter, trees, unrecorded, orgWallet, orgLedger, paidTo,
                                        orgTask, bids, payer>>
    BY <1>9 DEF orgMarketVars, Latest
  <2>2. OrgTypes' /\ RequestsAreSound' /\ AcceptedOnce'
    BY <2>1 DEF OrgInv, OrderSettledOnce, OrgTypes, RequestsAreSound, AcceptedOnce, AlreadyPaid
  <2> QED
    BY <2>1, <2>2, BuildersKept, BooksKept DEF OrgInv, OrderSettledOnce
<1> QED
  BY <1>1, <1>2, <1>3, <1>4, <1>5, <1>6, <1>7, <1>8, <1>9 DEF OrgMarketNext

\* Every state of the organisations' market satisfies OrgInv.
THEOREM OrgInvariant == OrgMarketSpec => []OrgInv
  BY OrgStart, OrgStep, PTL DEF OrgMarketSpec

\* The books balance, a task is accepted and paid for one order, and an order has one goal tree
\* (org-wallet-service.ts and org-bidding-service.ts).
THEOREM OrdersHold == OrgMarketSpec => []OrderSettledOnce
<1>1. OrgInv => OrderSettledOnce
  BY DEF OrgInv
<1> QED
  BY <1>1, OrgInvariant, PTL
-----------------------------------------------------------------------------
(* The directory follows the shards *)

OpenSteps == {"boot", "write", "activate"}
OperationKeys == {OperationOf[a] : a \in Signups} \cup (Signups \X Emails) \cup {NoAccount}

EntryRecord == [owner : Signups \cup {NoAccount}, op : OperationKeys,
                kind : {"none", "REGISTER", "EMAIL_CHANGE"}, prev : Emails \cup {NoEmail},
                status : {"none", "PENDING", "ACTIVE"}, overdue : BOOLEAN]
SignupRecord == [pc : {"idle", "reserve"} \cup OpenSteps, account : Signups \cup {NoAccount}]
RenameRecord == [pc : {"idle", "reserve", "shard", "complete"}, account : Signups \cup {NoAccount},
                 old : Emails \cup {NoEmail}, new : Emails \cup {NoEmail}]
ReconcilerRecord == [at : Emails \cup {NoEmail}, row : EntryRecord, read : Emails \cup {NoEmail}]

IdentityTypes ==
    /\ directory \in [Emails -> EntryRecord]
    /\ mailbox \in [Signups -> Emails \cup {NoEmail}]
    /\ signup \in [Signups -> SignupRecord]
    /\ rename \in [Renamers -> RenameRecord]
    /\ reconciler \in [Reconcilers -> ReconcilerRecord]

\* A user in a shard has logged in or has its registration on record.
Findable(a) ==
    LogsIn(a) \/ \E e \in Emails : directory[e].owner = a /\ directory[e].kind = "REGISTER"

\* What a row is for, and whose.
EntrySound(e, row) ==
    /\ row.kind = "none" => row = NoEntry
    /\ row.kind # "none" => row.status # "none" /\ row.owner \in Signups
    /\ row.kind = "REGISTER" => row.op = OperationOf[row.owner] /\ EmailOf[row.owner] = e
    /\ row.kind = "EMAIL_CHANGE" =>
          /\ row.op = <<row.owner, e>> /\ mailbox[row.owner] # NoEmail
          /\ row.status = "PENDING" => row.prev \in Emails \ {e}

\* A row that was read and is still there under its key is still the account's.
KeyStands(e, op, account) ==
    directory[e].kind = "REGISTER" /\ directory[e].op = op /\ e \notin rekeyed =>
        directory[e].owner = account

SignupSound(a, s) ==
    s.pc \in OpenSteps =>
        /\ s.account \in Signups
        /\ KeyStands(EmailOf[a], OperationOf[a], s.account)
        /\ s.account \notin evicted => Findable(s.account)
        /\ s.pc = "activate" => mailbox[s.account] # NoEmail

RenameSound(r) ==
    r.pc # "idle" =>
        /\ r.account \in Signups /\ mailbox[r.account] # NoEmail
        /\ r.new \in Emails /\ r.old \in Emails \ {r.new}

ReconcilerSound(k) ==
    k # IdleReconciler =>
        /\ k.at \in Emails /\ k.row.kind # "none" /\ k.row.owner \in Signups
        /\ k.read # NoEmail => mailbox[k.row.owner] # NoEmail
        /\ k.row.kind = "REGISTER" => KeyStands(k.at, k.row.op, k.row.owner)
        /\ k.row.kind = "REGISTER" => k.row.op = OperationOf[k.row.owner]
        /\ k.row.kind = "EMAIL_CHANGE" =>
              k.row.op = <<k.row.owner, k.at>> /\ k.row.prev \in Emails \ {k.at}

EntriesSound == \A e \in Emails : EntrySound(e, directory[e])
RequestsSound ==
    /\ \A a \in Signups : SignupSound(a, signup[a])
    /\ \A x \in Renamers : RenameSound(rename[x])
    /\ \A k \in Reconcilers : ReconcilerSound(reconciler[k])

IdentityInv == IdentityTypes /\ EntriesSound /\ RequestsSound /\ AccountIsReachable /\ ActiveIsRegistered

\* Before anybody registered.
LEMMA IdentityStart == IdentityInit => IdentityInv
<1> SUFFICES ASSUME IdentityInit PROVE IdentityInv
  OBVIOUS
<1>0. NoEntry \in EntryRecord /\ NoEntry.kind = "none" /\ NoEntry.status = "none"
  BY DEF NoEntry, Row, EntryRecord, OperationKeys
<1>1. IdentityTypes
  BY <1>0 DEF IdentityInit, IdentityTypes, IdleSignup, IdleRename, IdleReconciler, SignupRecord, RenameRecord,
              ReconcilerRecord
<1>2. EntriesSound
  BY <1>0 DEF IdentityInit, EntriesSound, EntrySound
<1>3. RequestsSound
  BY DEF IdentityInit, RequestsSound, SignupSound, RenameSound, ReconcilerSound, IdleSignup, IdleRename, OpenSteps
<1>4. AccountIsReachable /\ ActiveIsRegistered
  BY <1>0 DEF IdentityInit, AccountIsReachable, ActiveIsRegistered
<1> QED
  BY <1>1, <1>2, <1>3, <1>4 DEF IdentityInv

\* What a step leaves of the accounts and rows that requests have read.
WaysKept ==
    /\ \A e \in Emails : directory'[e].kind = "REGISTER" /\ e \notin rekeyed' =>
          /\ directory[e].kind = "REGISTER" /\ e \notin rekeyed
          /\ directory'[e].op = directory[e].op /\ directory'[e].owner = directory[e].owner
    /\ \A a \in Signups : mailbox[a] # NoEmail => mailbox'[a] # NoEmail
    /\ \A a \in Signups : a \notin evicted' => a \notin evicted /\ (Findable(a) => Findable(a)')

\* Requests that were sound still are.
LEMMA StaysSound ==
  ASSUME IdentityInv, WaysKept
  PROVE  /\ \A a \in Signups, s \in SignupRecord : SignupSound(a, s) => SignupSound(a, s)'
         /\ \A r \in RenameRecord : RenameSound(r) => RenameSound(r)'
         /\ \A k \in ReconcilerRecord : ReconcilerSound(k) => ReconcilerSound(k)'
<1>1. \A a \in Signups, s \in SignupRecord : SignupSound(a, s) => SignupSound(a, s)'
  BY IdentityAssumption DEF WaysKept, SignupSound, KeyStands
<1>2. \A r \in RenameRecord : RenameSound(r) => RenameSound(r)'
  BY DEF WaysKept, RenameSound
<1>3. \A k \in ReconcilerRecord : ReconcilerSound(k) => ReconcilerSound(k)'
  BY DEF WaysKept, ReconcilerSound, KeyStands
<1> QED
  BY <1>1, <1>2, <1>3

\* A step that changes no row, no user and no history.
LEMMA Quiet ==
  ASSUME IdentityInv, UNCHANGED <<directory, mailbox, evicted, rekeyed>>
  PROVE  WaysKept /\ EntriesSound' /\ AccountIsReachable' /\ ActiveIsRegistered'
<1>1. WaysKept
  BY DEF WaysKept, Findable, LogsIn
<1>2. EntriesSound' /\ AccountIsReachable' /\ ActiveIsRegistered'
  BY DEF IdentityInv, EntriesSound, EntrySound, AccountIsReachable, ActiveIsRegistered, LogsIn
<1> QED
  BY <1>1, <1>2

\* The three ways in which one request moves, given what the step left.
LEMMA SignupMoves ==
  ASSUME IdentityInv, WaysKept, NEW a \in Signups, NEW s \in SignupRecord, SignupSound(a, s)',
         signup' = [signup EXCEPT ![a] = s], UNCHANGED <<rename, reconciler>>
  PROVE  RequestsSound' /\ signup' \in [Signups -> SignupRecord]
  BY StaysSound DEF IdentityInv, IdentityTypes, RequestsSound

LEMMA RenameMoves ==
  ASSUME IdentityInv, WaysKept, NEW x \in Renamers, NEW r \in RenameRecord, RenameSound(r)',
         rename' = [rename EXCEPT ![x] = r], UNCHANGED <<signup, reconciler>>
  PROVE  RequestsSound' /\ rename' \in [Renamers -> RenameRecord]
  BY StaysSound DEF IdentityInv, IdentityTypes, RequestsSound

LEMMA ReconcilerMoves ==
  ASSUME IdentityInv, WaysKept, NEW k \in Reconcilers, NEW r \in ReconcilerRecord, ReconcilerSound(r)',
         reconciler' = [reconciler EXCEPT ![k] = r], UNCHANGED <<signup, rename>>
  PROVE  RequestsSound' /\ reconciler' \in [Reconcilers -> ReconcilerRecord]
  BY StaysSound DEF IdentityInv, IdentityTypes, RequestsSound

\* Activating a registration whose user is in its shard.
LEMMA Activates ==
  ASSUME IdentityInv, NEW e \in Emails, NEW a \in Signups, NEW op, op = OperationOf[a], Activate(e, op),
         UNCHANGED <<mailbox, evicted, rekeyed>>,
         NEW account \in Signups, KeyStands(e, op, account), mailbox[account] # NoEmail
  PROVE  /\ directory' \in [Emails -> EntryRecord]
         /\ WaysKept /\ EntriesSound' /\ AccountIsReachable' /\ ActiveIsRegistered'
<1>0. directory \in [Emails -> EntryRecord] /\ EntriesSound /\ AccountIsReachable /\ ActiveIsRegistered
  BY DEF IdentityInv, IdentityTypes
<1>1. CASE ~Activatable(e, op)
  BY <1>0, <1>1, Quiet DEF Activate
<1>2. CASE Activatable(e, op)
  <2>1. directory[e].kind = "REGISTER" /\ directory[e].status = "PENDING" /\ directory[e].op = op
    BY <1>0, <1>2, IdentityAssumption DEF Activatable, EntriesSound, EntrySound, EntryRecord, NoEntry, Row
  <2>2. /\ directory' \in [Emails -> EntryRecord]
        /\ \A f \in Emails : /\ directory'[f].owner = directory[f].owner /\ directory'[f].op = directory[f].op
                             /\ directory'[f].kind = directory[f].kind
                             /\ directory'[f].status = IF f = e THEN "ACTIVE" ELSE directory[f].status
        /\ \A f \in Emails \ {e} : directory'[f] = directory[f]
    BY <1>0, <1>2 DEF Activate, Activated, EntryRecord
  <2>3. WaysKept
    BY <2>1, <2>2 DEF WaysKept, Findable, LogsIn
  <2>4. EntriesSound'
    BY <1>0, <2>1, <2>2 DEF EntriesSound, EntrySound
  <2>5. AccountIsReachable'
    BY <1>0, <2>2 DEF AccountIsReachable, LogsIn
  <2>6. ActiveIsRegistered'
    BY <1>0, <2>1, <2>2 DEF ActiveIsRegistered, KeyStands
  <2> QED
    BY <2>2, <2>3, <2>4, <2>5, <2>6
<1> QED
  BY <1>1, <1>2

\* Completing a change: the account's new row is active, so it does not need the old one,
\* and whoever else owned that one is evicted.
LEMMA CompletesChange ==
  ASSUME IdentityInv, NEW a \in Signups, NEW new \in Emails, NEW old \in Emails \ {new},
         mailbox[a] # NoEmail, CompleteChange(old, new, <<a, new>>), UNCHANGED <<mailbox, rekeyed>>
  PROVE  /\ directory' \in [Emails -> EntryRecord]
         /\ WaysKept /\ EntriesSound' /\ AccountIsReachable' /\ ActiveIsRegistered'
<1> DEFINE op == <<a, new>>
<1>0. directory \in [Emails -> EntryRecord] /\ EntriesSound /\ AccountIsReachable /\ ActiveIsRegistered
  BY DEF IdentityInv, IdentityTypes
<1>1. CASE ~Completes(new, op)
  BY <1>0, <1>1, Quiet DEF CompleteChange
<1>2. CASE Completes(new, op)
  <2>1. directory[new].kind = "EMAIL_CHANGE" /\ directory[new].owner = a /\ directory[new].status = "PENDING"
    <3>1. directory[new].op = op /\ directory[new].status = "PENDING"
      BY <1>2 DEF Completes, Activatable
    <3>2. directory[new].kind # "none"
      BY <1>0, <3>1 DEF EntriesSound, EntrySound, NoEntry, Row
    <3>3. directory[new].kind # "REGISTER"
      BY <1>0, <3>1, <3>2, IdentityAssumption DEF EntriesSound, EntrySound
    <3>4. directory[new].kind = "EMAIL_CHANGE"
      BY <1>0, <3>2, <3>3 DEF EntryRecord
    <3> QED
      BY <1>0, <3>1, <3>4 DEF EntriesSound, EntrySound
  <2>2. NoEntry \in EntryRecord /\ NoEntry.kind = "none" /\ NoEntry.status = "none"
    BY DEF NoEntry, Row, EntryRecord, OperationKeys
  <2>3. directory' = [e \in Emails |-> IF e = old THEN NoEntry
                                       ELSE IF e = new THEN Activated(directory[new]) ELSE directory[e]]
    BY <1>2 DEF CompleteChange, Completes
  <2>4. Activated(directory[new]) \in EntryRecord
    BY <1>0 DEF Activated, EntryRecord
  <2>5. directory' \in [Emails -> EntryRecord]
    BY <1>0, <2>2, <2>3, <2>4
  <2>6. /\ directory'[old] = NoEntry
        /\ directory'[new].owner = a /\ directory'[new].op = op
        /\ directory'[new].kind = "EMAIL_CHANGE" /\ directory'[new].status = "ACTIVE"
        /\ \A e \in Emails \ {old, new} : directory'[e] = directory[e]
    BY <1>0, <1>2, <2>1, <2>3 DEF Activated, EntryRecord, Completes, Activatable
  <2>7. /\ \A e \in Emails : e # old /\ directory[e].status = "ACTIVE" => directory'[e] = directory[e]
        /\ \A e \in Emails : e # old /\ directory[e].kind = "REGISTER" => directory'[e] = directory[e]
    BY <2>1, <2>6
  <2>8. \A b \in Signups : b \notin evicted' =>
            b \notin evicted /\ (directory[old].status # "none" /\ directory[old].owner = b => b = a)
    BY <1>2, <2>1 DEF CompleteChange
  <2>9. LogsIn(a)'
    BY <2>6 DEF LogsIn
  <2>10. ASSUME NEW b \in Signups, b \notin evicted', Findable(b) PROVE Findable(b)'
    <3>1. PICK e \in Emails : directory[e].owner = b /\ (directory[e].status = "ACTIVE" \/ directory[e].kind = "REGISTER")
      BY <2>10 DEF Findable, LogsIn
    <3>2. CASE e = old
      <4>1. directory[old].status # "none"
        BY <1>0, <3>1, <3>2 DEF EntriesSound, EntrySound
      <4> QED
        BY <2>8, <2>9, <2>10, <3>1, <3>2, <4>1 DEF Findable
    <3>3. CASE e # old
      <4>1. directory'[e] = directory[e]
        BY <2>7, <3>1, <3>3
      <4> QED
        BY <3>1, <4>1 DEF Findable, LogsIn
    <3> QED
      BY <3>2, <3>3
  <2>11. WaysKept
    <3>1. \A e \in Emails : directory'[e].kind = "REGISTER" => directory'[e] = directory[e]
      BY <2>2, <2>6
    <3> QED
      BY <2>8, <2>10, <3>1 DEF WaysKept
  <2>12. EntriesSound'
    <3> SUFFICES ASSUME NEW e \in Emails PROVE EntrySound(e, directory[e])'
      BY DEF EntriesSound
    <3>1. CASE e = old
      BY <2>2, <2>6, <3>1 DEF EntrySound
    <3>2. CASE e = new
      BY <2>6, <3>2 DEF EntrySound
    <3>3. CASE e \in Emails \ {old, new}
      BY <1>0, <2>6, <3>3 DEF EntriesSound, EntrySound
    <3> QED
      BY <3>1, <3>2, <3>3
  <2>13. AccountIsReachable'
    <3>1. \A b \in Signups : mailbox[b] # NoEmail /\ b \notin evicted' => Findable(b)
      BY <1>0, <2>8 DEF AccountIsReachable, Findable
    <3> QED
      BY <2>10, <3>1 DEF AccountIsReachable, Findable
  <2>14. ActiveIsRegistered'
    BY <1>0, <2>2, <2>6 DEF ActiveIsRegistered
  <2> QED
    BY <2>5, <2>11, <2>12, <2>13, <2>14
<1> QED
  BY <1>1, <1>2

\* Rolling a pending change back takes no way to an account.
LEMMA RollsBack ==
  ASSUME IdentityInv, NEW a \in Signups, NEW e \in Emails,
         directory' = IF Activatable(e, <<a, e>>) THEN [directory EXCEPT ![e] = NoEntry] ELSE directory,
         UNCHANGED <<mailbox, evicted, rekeyed>>
  PROVE  /\ directory' \in [Emails -> EntryRecord]
         /\ WaysKept /\ EntriesSound' /\ AccountIsReachable' /\ ActiveIsRegistered'
<1>0. directory \in [Emails -> EntryRecord] /\ EntriesSound /\ AccountIsReachable /\ ActiveIsRegistered
  BY DEF IdentityInv, IdentityTypes
<1>1. CASE ~Activatable(e, <<a, e>>)
  BY <1>0, <1>1, Quiet
<1>2. CASE Activatable(e, <<a, e>>)
  <2>1. directory[e].kind # "REGISTER" /\ directory[e].status = "PENDING"
    BY <1>0, <1>2, IdentityAssumption DEF Activatable, EntriesSound, EntrySound
  <2>2. NoEntry \in EntryRecord /\ NoEntry.kind = "none" /\ NoEntry.status = "none"
    BY DEF NoEntry, Row, EntryRecord, OperationKeys
  <2>3. directory'[e] = NoEntry /\ \A f \in Emails \ {e} : directory'[f] = directory[f]
    BY <1>0, <1>2
  <2>4. \A b \in Signups : Findable(b) => Findable(b)'
    <3> SUFFICES ASSUME NEW b \in Signups, Findable(b) PROVE Findable(b)'
      OBVIOUS
    <3>1. PICK f \in Emails : directory[f].owner = b /\ (directory[f].status = "ACTIVE" \/ directory[f].kind = "REGISTER")
      BY DEF Findable, LogsIn
    <3>2. directory'[f] = directory[f]
      BY <2>1, <2>3, <3>1
    <3> QED
      BY <3>1, <3>2 DEF Findable, LogsIn
  <2>5. WaysKept
    BY <2>2, <2>3, <2>4 DEF WaysKept
  <2>6. EntriesSound'
    BY <1>0, <2>2, <2>3 DEF EntriesSound, EntrySound
  <2>7. AccountIsReachable'
    BY <1>0, <2>4 DEF AccountIsReachable, Findable
  <2>8. ActiveIsRegistered'
    BY <1>0, <2>2, <2>3 DEF ActiveIsRegistered
  <2> QED
    BY <1>0, <1>2, <2>2, <2>5, <2>6, <2>7, <2>8
<1> QED
  BY <1>1, <1>2

\* Requests and the worker that only read, and those that end.
LEMMA ReadingKeeps ==
  ASSUME IdentityInv, NEW a \in Signups, SignupStart(a) \/ SignupBoot(a) \/ SignupDies(a)
  PROVE  IdentityInv'
<1>0. UNCHANGED <<directory, mailbox, evicted, rekeyed>>
  BY DEF SignupStart, SignupBoot, SignupDies
<1>1. WaysKept /\ EntriesSound' /\ AccountIsReachable' /\ ActiveIsRegistered'
  BY <1>0, Quiet
<1>2. /\ SignupSound(a, signup[a]) /\ signup[a] \in SignupRecord /\ UNCHANGED <<rename, reconciler>>
      /\ signup[a].account \in Signups \cup {NoAccount}
  BY DEF IdentityInv, IdentityTypes, RequestsSound, SignupStart, SignupBoot, SignupDies, SignupRecord
<1>3. \E s \in SignupRecord : signup' = [signup EXCEPT ![a] = s] /\ SignupSound(a, s)'
  <2>1. CASE SignupStart(a)
    <3> DEFINE s == [pc |-> "reserve", account |-> NoAccount]
    <3>1. s \in SignupRecord /\ SignupSound(a, s)' /\ signup' = [signup EXCEPT ![a] = s]
      BY <2>1 DEF SignupStart, SignupGoes, SignupRecord, SignupSound, OpenSteps
    <3> HIDE DEF s
    <3> QED
      BY <3>1
  <2>2. CASE SignupDies(a)
    <3>1. IdleSignup \in SignupRecord /\ SignupSound(a, IdleSignup)'
      BY DEF IdleSignup, SignupRecord, SignupSound, OpenSteps
    <3>2. signup' = [signup EXCEPT ![a] = IdleSignup]
      BY <2>2 DEF SignupDies, SignupEnds
    <3> QED
      BY <3>1, <3>2
  <2>3. CASE SignupBoot(a)
    <3> DEFINE s == [pc |-> IF Booted(signup[a].account) THEN "activate" ELSE "write", account |-> signup[a].account]
    <3>1. s \in SignupRecord /\ signup' = [signup EXCEPT ![a] = s]
      BY <1>2, <2>3 DEF SignupBoot, SignupGoes, SignupRecord, OpenSteps
    <3>2. SignupSound(a, s)
      BY <1>2, <2>3 DEF SignupBoot, SignupSound, OpenSteps, Booted
    <3>3. \A t \in SignupRecord : SignupSound(a, t) => SignupSound(a, t)'
      BY <1>1, StaysSound
    <3> HIDE DEF s
    <3> QED
      BY <3>1, <3>2, <3>3
  <2> QED
    BY <2>1, <2>2, <2>3
<1>4. RequestsSound' /\ signup' \in [Signups -> SignupRecord]
  BY <1>1, <1>2, <1>3, SignupMoves
<1> QED
  BY <1>0, <1>1, <1>2, <1>4 DEF IdentityInv, IdentityTypes

\* A reservation finds a row, or makes one and is on record as using its key.
LEMMA ReserveKeeps == ASSUME IdentityInv, NEW a \in Signups, SignupReserve(a) PROVE IdentityInv'
<1> DEFINE e == EmailOf[a]
           op == OperationOf[a]
           new == Row(a, op, "REGISTER", NoEmail)
<1>0. /\ directory \in [Emails -> EntryRecord] /\ EntriesSound /\ AccountIsReachable /\ ActiveIsRegistered
      /\ RequestsSound /\ e \in Emails /\ signup \in [Signups -> SignupRecord]
      /\ UNCHANGED <<mailbox, rename, reconciler, evicted>>
      /\ rename \in [Renamers -> RenameRecord] /\ reconciler \in [Reconcilers -> ReconcilerRecord]
  BY IdentityAssumption DEF IdentityInv, IdentityTypes, SignupReserve
<1>1. /\ new \in EntryRecord /\ new.kind = "REGISTER" /\ new.status = "PENDING" /\ new.owner = a /\ new.op = op
      /\ NoEntry.kind = "none" /\ NoEntry.status = "none"
  BY DEF Row, EntryRecord, OperationKeys, NoEntry
<1>2. directory' \in [Emails -> EntryRecord] /\ EntriesSound'
  BY <1>0, <1>1 DEF SignupReserve, Reserve, EntriesSound, EntrySound
<1>3. \A f \in Emails : f # e \/ directory[e] # NoEntry => directory'[f] = directory[f]
  BY <1>0 DEF SignupReserve, Reserve
<1>4. directory[e] = NoEntry => directory'[e] = new
  BY <1>0 DEF SignupReserve, Reserve
<1>5. \A b : Findable(b) => Findable(b)'
  BY <1>1, <1>3 DEF Findable, LogsIn
<1>6. AccountIsReachable'
  BY <1>0, <1>5 DEF AccountIsReachable, Findable
<1>7. rekeyed \subseteq rekeyed' /\ ActiveIsRegistered'
  BY <1>0, <1>1, <1>3, <1>4 DEF ActiveIsRegistered, SignupReserve
<1>8. ASSUME NEW b \in Signups, NEW account \in Signups, signup[b].pc \in OpenSteps, signup[b].account = account
      PROVE  KeyStands(EmailOf[b], OperationOf[b], account)'
  <2>1. EmailOf[b] \in Emails /\ KeyStands(EmailOf[b], OperationOf[b], account)
    BY <1>0, <1>8, IdentityAssumption DEF RequestsSound, SignupSound
  <2>2. CASE EmailOf[b] = e /\ directory[e] = NoEntry /\ OperationOf[b] = op /\ account # a
    <3>1. StillUsed(e, op, a)
      BY <1>8, <2>2 DEF StillUsed, OpenSteps
    <3>2. e \in rekeyed'
      BY <2>2, <3>1 DEF SignupReserve
    <3> QED
      BY <2>2, <3>2 DEF KeyStands
  <2>3. CASE EmailOf[b] = e /\ directory[e] = NoEntry /\ ~(OperationOf[b] = op /\ account # a)
    <3>1. directory'[EmailOf[b]].op = op /\ directory'[EmailOf[b]].owner = a
      BY <1>1, <1>4, <2>3
    <3> QED
      BY <2>3, <3>1 DEF KeyStands
  <2>4. CASE ~(EmailOf[b] = e /\ directory[e] = NoEntry)
    <3>1. directory'[EmailOf[b]] = directory[EmailOf[b]]
      BY <1>3, <2>1, <2>4
    <3> QED
      BY <1>7, <2>1, <3>1 DEF KeyStands
  <2> QED
    BY <2>2, <2>3, <2>4
<1>9. \A b \in Signups : SignupSound(b, signup[b])'  \/ b = a
  <2> SUFFICES ASSUME NEW b \in Signups, b # a, signup[b].pc \in OpenSteps PROVE SignupSound(b, signup[b])'
    BY <1>0 DEF SignupReserve, SignupGoes, SignupEnds, SignupSound
  <2>1. signup'[b] = signup[b]
    BY <1>0 DEF SignupReserve, SignupGoes, SignupEnds
  <2>2. SignupSound(b, signup[b])
    BY <1>0 DEF RequestsSound
  <2>3. PICK account \in Signups : account = signup[b].account /\ account = signup'[b].account
    BY <2>1, <2>2 DEF SignupSound
  <2>4. KeyStands(EmailOf[b], OperationOf[b], account)'
    BY <1>8, <2>3
  <2>5. (account \notin evicted => Findable(account))' /\ (signup[b].pc = "activate" => mailbox[account] # NoEmail)'
    BY <1>0, <1>5, <2>1, <2>2, <2>3 DEF SignupSound
  <2> QED
    BY <2>3, <2>4, <2>5 DEF SignupSound
<1>10. SignupSound(a, signup[a])' /\ signup' \in [Signups -> SignupRecord]
  <2>1. CASE directory'[e].op = op
    <3>1. directory'[e] # NoEntry
      BY <1>0, <1>1, <1>3, <1>4
    <3>2. directory'[e].kind = "REGISTER" /\ directory'[e].owner \in Signups
      BY <1>0, <1>2, <2>1, <3>1, IdentityAssumption DEF EntriesSound, EntrySound, EntryRecord
    <3>3. signup' = [signup EXCEPT ![a] = [pc |-> "boot", account |-> directory'[e].owner]]
      BY <2>1 DEF SignupReserve, SignupGoes
    <3>4. Findable(directory[e].owner)'
      BY <1>0, <3>2 DEF Findable
    <3>5. signup'[a].pc = "boot" /\ signup'[a].account = directory'[e].owner
      BY <1>0, <3>3
    <3>6. SignupSound(a, signup[a])'
      BY <3>2, <3>4, <3>5 DEF SignupSound, KeyStands
    <3> QED
      BY <1>0, <3>2, <3>3, <3>6 DEF SignupRecord, OpenSteps
  <2>2. CASE directory'[e].op # op
    BY <1>0, <2>2 DEF SignupReserve, SignupEnds, IdleSignup, SignupRecord, SignupSound, OpenSteps
  <2> QED
    BY <2>1, <2>2
<1>11. \A x \in Renamers : RenameSound(rename[x])'
  BY <1>0 DEF RequestsSound, RenameSound
<1>12. \A k \in Reconcilers : ReconcilerSound(reconciler[k])'
  <2> SUFFICES ASSUME NEW k \in Reconcilers, reconciler[k] # IdleReconciler PROVE ReconcilerSound(reconciler[k])'
    BY <1>0 DEF ReconcilerSound
  <2>1. ReconcilerSound(reconciler[k])
    BY <1>0 DEF RequestsSound
  <2>2. ASSUME reconciler[k].row.kind = "REGISTER"
        PROVE  KeyStands(reconciler[k].at, reconciler[k].row.op, reconciler[k].row.owner)'
    <3>1. CASE reconciler[k].at = e /\ directory[e] = NoEntry
      BY <1>0, <1>1, <1>4, <3>1 DEF KeyStands, SignupReserve, StillUsed
    <3>2. CASE ~(reconciler[k].at = e /\ directory[e] = NoEntry)
      BY <1>0, <1>3, <1>7, <2>1, <2>2, <3>2 DEF KeyStands, ReconcilerSound
    <3> QED
      BY <3>1, <3>2
  <2> QED
    BY <1>0, <2>1, <2>2 DEF ReconcilerSound, KeyStands
<1> QED
  BY <1>0, <1>2, <1>6, <1>7, <1>9, <1>10, <1>11, <1>12 DEF IdentityInv, IdentityTypes, RequestsSound

\* The user's row appears in its shard: the account is findable already.
LEMMA WriteKeeps == ASSUME IdentityInv, NEW a \in Signups, SignupWrite(a) PROVE IdentityInv'
<1> DEFINE account == signup[a].account
<1>0. /\ IdentityTypes /\ EntriesSound /\ AccountIsReachable /\ ActiveIsRegistered /\ SignupSound(a, signup[a])
      /\ signup[a].pc = "write" /\ UNCHANGED <<directory, rename, reconciler, evicted, rekeyed>>
      /\ account \in Signups /\ EmailOf[a] \in Emails /\ signup[a] \in SignupRecord
  BY IdentityAssumption DEF IdentityInv, RequestsSound, SignupWrite, SignupSound, OpenSteps, IdentityTypes
<1> HIDE DEF account
<1>1. CASE mailbox[account] = NoEmail /\ FreeInShard(account, EmailOf[a])
  <2>1. /\ mailbox' = [mailbox EXCEPT ![account] = EmailOf[a]]
        /\ signup' = [signup EXCEPT ![a] = [pc |-> "activate", account |-> account]]
    BY <1>1 DEF SignupWrite, SignupGoes, account
  <2>2. /\ mailbox' \in [Signups -> Emails \cup {NoEmail}] /\ mailbox'[account] # NoEmail
        /\ \A b \in Signups \ {account} : mailbox'[b] = mailbox[b]
    BY <1>0, <2>1, IdentityAssumption DEF IdentityTypes
  <2>3. WaysKept
    BY <1>0, <2>2 DEF WaysKept, Findable, LogsIn
  <2>4. EntriesSound' /\ ActiveIsRegistered'
    <3>1. \A b \in Signups : mailbox[b] # NoEmail => mailbox'[b] # NoEmail
      BY <2>2
    <3>2. EntriesSound'
      <4> SUFFICES ASSUME NEW e \in Emails PROVE EntrySound(e, directory[e])'
        BY DEF EntriesSound
      <4>1. EntrySound(e, directory[e]) /\ directory'[e] = directory[e]
        BY <1>0 DEF EntriesSound
      <4> QED
        BY <3>1, <4>1 DEF EntrySound
    <3>3. \A e \in Emails : directory[e].status = "ACTIVE" => directory[e].owner \in Signups
      <4> SUFFICES ASSUME NEW e \in Emails, directory[e].status = "ACTIVE" PROVE directory[e].owner \in Signups
        OBVIOUS
      <4>1. EntrySound(e, directory[e])
        BY <1>0 DEF EntriesSound
      <4>2. directory[e].kind # "none"
        BY <4>1 DEF EntrySound, NoEntry, Row
      <4> QED
        BY <4>1, <4>2 DEF EntrySound
    <3>4. ActiveIsRegistered'
      BY <1>0, <3>1, <3>3 DEF ActiveIsRegistered
    <3> QED
      BY <3>2, <3>4
  <2>5. AccountIsReachable'
    BY <1>0, <2>2 DEF AccountIsReachable, LogsIn, Findable, SignupSound, OpenSteps, account
  <2>6. PICK s \in SignupRecord : s = [pc |-> "activate", account |-> account]
    BY <1>0 DEF SignupRecord, OpenSteps
  <2>7. s.account = account /\ s.pc = "activate" /\ signup' = [signup EXCEPT ![a] = s]
    BY <2>1, <2>6
  <2>8. SignupSound(a, s)'
    <3>1. PICK w \in Signups : w = account
      BY <1>0
    <3>2. KeyStands(EmailOf[a], OperationOf[a], w) /\ (w \notin evicted => Findable(w)) /\ mailbox'[w] # NoEmail
      BY <1>0, <2>2, <3>1 DEF SignupSound, OpenSteps, account
    <3>3. KeyStands(EmailOf[a], OperationOf[a], w)' /\ (w \notin evicted => Findable(w))'
      BY <1>0, <2>3, <3>2 DEF KeyStands, WaysKept
    <3> QED
      BY <2>7, <3>1, <3>2, <3>3 DEF SignupSound
  <2>9. RequestsSound' /\ signup' \in [Signups -> SignupRecord]
    BY <1>0, <2>3, <2>7, <2>8, SignupMoves
  <2> QED
    BY <1>0, <2>2, <2>4, <2>5, <2>9 DEF IdentityInv, IdentityTypes
<1>2. CASE ~(mailbox[account] = NoEmail /\ FreeInShard(account, EmailOf[a]))
  <2>1. signup' = [signup EXCEPT ![a] = IdleSignup] /\ UNCHANGED mailbox
    BY <1>2 DEF SignupWrite, SignupEnds, account
  <2>2. IdleSignup \in SignupRecord /\ SignupSound(a, IdleSignup)'
    BY DEF IdleSignup, SignupRecord, SignupSound, OpenSteps
  <2>3. WaysKept /\ EntriesSound' /\ AccountIsReachable' /\ ActiveIsRegistered'
    BY <1>0, <2>1, Quiet
  <2>4. RequestsSound' /\ signup' \in [Signups -> SignupRecord]
    BY <1>0, <2>1, <2>2, <2>3, SignupMoves
  <2> QED
    BY <1>0, <2>1, <2>3, <2>4 DEF IdentityInv, IdentityTypes
<1> QED
  BY <1>1, <1>2

\* The activation at the end of a registration.
LEMMA ActivateKeeps == ASSUME IdentityInv, NEW a \in Signups, SignupActivate(a) PROVE IdentityInv'
<1>1. /\ IdentityTypes /\ SignupSound(a, signup[a]) /\ signup[a].pc = "activate" /\ EmailOf[a] \in Emails
      /\ Activate(EmailOf[a], OperationOf[a]) /\ UNCHANGED <<mailbox, rename, reconciler, evicted, rekeyed>>
      /\ signup' = [signup EXCEPT ![a] = IdleSignup]
  BY IdentityAssumption DEF IdentityInv, RequestsSound, SignupActivate, SignupEnds
<1>2. /\ signup[a].account \in Signups /\ mailbox[signup[a].account] # NoEmail
      /\ KeyStands(EmailOf[a], OperationOf[a], signup[a].account)
  BY <1>1 DEF SignupSound, OpenSteps
<1>3. /\ directory' \in [Emails -> EntryRecord]
      /\ WaysKept /\ EntriesSound' /\ AccountIsReachable' /\ ActiveIsRegistered'
  BY <1>1, <1>2, Activates
<1>4. IdleSignup \in SignupRecord /\ SignupSound(a, IdleSignup)'
  BY DEF IdleSignup, SignupRecord, SignupSound, OpenSteps
<1>5. RequestsSound' /\ signup' \in [Signups -> SignupRecord]
  BY <1>1, <1>3, <1>4, SignupMoves
<1> QED
  BY <1>1, <1>3, <1>5 DEF IdentityInv, IdentityTypes

\* What a step of a change of address or of the worker leaves as it was.
LEMMA ChangeFrame ==
  ASSUME IdentityInv, WaysKept, directory' \in [Emails -> EntryRecord], mailbox' \in [Signups -> Emails \cup {NoEmail}],
         EntriesSound', AccountIsReachable', ActiveIsRegistered', UNCHANGED signup,
         \/ \E x \in Renamers, r \in RenameRecord :
               rename' = [rename EXCEPT ![x] = r] /\ RenameSound(r)' /\ UNCHANGED reconciler
         \/ \E k \in Reconcilers, s \in ReconcilerRecord :
               reconciler' = [reconciler EXCEPT ![k] = s] /\ ReconcilerSound(s)' /\ UNCHANGED rename
         \/ UNCHANGED <<rename, reconciler>>
  PROVE  IdentityInv'
<1>0. IdentityTypes /\ RequestsSound
  BY DEF IdentityInv
<1>1. CASE \E x \in Renamers, r \in RenameRecord :
              rename' = [rename EXCEPT ![x] = r] /\ RenameSound(r)' /\ UNCHANGED reconciler
  BY <1>0, <1>1, RenameMoves DEF IdentityInv, IdentityTypes
<1>2. CASE \E k \in Reconcilers, s \in ReconcilerRecord :
              reconciler' = [reconciler EXCEPT ![k] = s] /\ ReconcilerSound(s)' /\ UNCHANGED rename
  BY <1>0, <1>2, ReconcilerMoves DEF IdentityInv, IdentityTypes
<1>3. CASE UNCHANGED <<rename, reconciler>>
  BY <1>0, <1>3, StaysSound DEF IdentityInv, IdentityTypes, RequestsSound
<1> QED
  BY <1>1, <1>2, <1>3

\* Who has ended claims nothing.
LEMMA EndsSound == /\ IdleRename \in RenameRecord /\ RenameSound(IdleRename)'
                   /\ IdleReconciler \in ReconcilerRecord /\ ReconcilerSound(IdleReconciler)'
<1>1. NoEntry \in EntryRecord
  BY DEF NoEntry, Row, EntryRecord, OperationKeys
<1> QED
  BY <1>1 DEF IdleRename, RenameRecord, RenameSound, IdleReconciler, ReconcilerRecord, ReconcilerSound

\* A change starts at the address its user has, or where its own pending row left off.
LEMMA RenameStartKeeps ==
  ASSUME IdentityInv, NEW x \in Renamers, NEW a \in Signups, NEW new \in Emails, RenameStart(x, a, new)
  PROVE  IdentityInv'
<1>0. /\ IdentityTypes /\ EntrySound(new, directory[new])
      /\ UNCHANGED <<directory, mailbox, signup, reconciler, evicted, rekeyed>>
  BY DEF IdentityInv, EntriesSound, RenameStart
<1>1. WaysKept /\ EntriesSound' /\ AccountIsReachable' /\ ActiveIsRegistered'
  BY <1>0, Quiet
<1>2. \E r \in RenameRecord : rename' = [rename EXCEPT ![x] = r] /\ RenameSound(r)'
  <2>1. CASE mailbox[a] = new
    <3>1. directory[new].prev \in Emails \ {new} /\ mailbox'[a] # NoEmail
      BY <1>0, <2>1 DEF RenameStart, EntrySound
    <3>2. PICK r \in RenameRecord : r = [pc |-> "complete", account |-> a, old |-> directory[new].prev, new |-> new]
      BY <3>1 DEF RenameRecord
    <3>3. r.account = a /\ r.new = new /\ r.old \in Emails \ {new} /\ rename' = [rename EXCEPT ![x] = r]
      BY <2>1, <3>1, <3>2 DEF RenameStart
    <3>4. RenameSound(r)'
      BY <3>1, <3>3 DEF RenameSound
    <3> QED
      BY <3>3, <3>4
  <2>2. CASE mailbox[a] # new
    <3>1. mailbox[a] \in Emails \ {new} /\ mailbox'[a] # NoEmail
      BY <1>0, <2>2 DEF RenameStart, IdentityTypes
    <3>2. PICK r \in RenameRecord : r = [pc |-> "reserve", account |-> a, old |-> mailbox[a], new |-> new]
      BY <3>1 DEF RenameRecord
    <3>3. r.account = a /\ r.new = new /\ r.old \in Emails \ {new} /\ rename' = [rename EXCEPT ![x] = r]
      BY <2>2, <3>1, <3>2 DEF RenameStart
    <3>4. RenameSound(r)'
      BY <3>1, <3>3 DEF RenameSound
    <3> QED
      BY <3>3, <3>4
  <2> QED
    BY <2>1, <2>2
<1> QED
  BY <1>0, <1>1, <1>2, ChangeFrame DEF IdentityTypes

\* A change reserves its new address where no row is.
LEMMA RenameReserveKeeps == ASSUME IdentityInv, NEW x \in Renamers, RenameReserve(x) PROVE IdentityInv'
<1>1. PICK r \in RenameRecord : r = rename[x]
  BY DEF IdentityInv, IdentityTypes
<1> DEFINE op == ChangeOp(r.account, r.new)
           row == Row(r.account, op, "EMAIL_CHANGE", r.old)
<1>2. /\ IdentityTypes /\ EntriesSound /\ AccountIsReachable /\ ActiveIsRegistered /\ r.pc = "reserve"
      /\ UNCHANGED <<mailbox, signup, reconciler, evicted, rekeyed>> /\ RenameSound(r)
      /\ directory' = IF directory[r.new] = NoEntry THEN [directory EXCEPT ![r.new] = row] ELSE directory
  BY <1>1 DEF IdentityInv, RequestsSound, RenameReserve, Reserve
<1>3. /\ r.account \in Signups /\ mailbox[r.account] # NoEmail /\ r.new \in Emails /\ r.old \in Emails \ {r.new}
  BY <1>2 DEF RenameSound
<1>4. /\ row \in EntryRecord /\ row.kind = "EMAIL_CHANGE" /\ row.owner = r.account /\ row.op = <<r.account, r.new>>
      /\ row.prev = r.old /\ row.status = "PENDING"
      /\ NoEntry.kind = "none" /\ NoEntry.status = "none"
  BY <1>3 DEF Row, EntryRecord, OperationKeys, ChangeOp, NoEntry
<1> HIDE DEF row
<1>5. \E s \in RenameRecord : rename' = [rename EXCEPT ![x] = s] /\ RenameSound(s)'
  <2>1. CASE directory'[r.new].op = op
    <3>1. rename' = [rename EXCEPT ![x].pc = "shard"]
      BY <1>1, <2>1 DEF RenameReserve
    <3>2. PICK s \in RenameRecord : s = [r EXCEPT !.pc = "shard"]
      BY DEF RenameRecord
    <3>3. s.account = r.account /\ s.new = r.new /\ s.old = r.old
      BY <1>1, <3>2 DEF RenameRecord
    <3>4. rename' = [rename EXCEPT ![x] = s]
      BY <1>1, <3>1, <3>2
    <3>5. RenameSound(s)'
      BY <1>2, <1>3, <3>3 DEF RenameSound
    <3> QED
      BY <3>4, <3>5
  <2>2. CASE directory'[r.new].op # op
    BY <1>1, <2>2, EndsSound DEF RenameReserve, RenameEnds
  <2> QED
    BY <2>1, <2>2
<1>6. CASE directory[r.new] # NoEntry
  <2>1. UNCHANGED directory
    BY <1>2, <1>6
  <2>2. WaysKept /\ EntriesSound' /\ AccountIsReachable' /\ ActiveIsRegistered'
    BY <1>2, <2>1, Quiet
  <2> QED
    BY <1>2, <1>5, <2>1, <2>2, ChangeFrame DEF IdentityTypes
<1>7. CASE directory[r.new] = NoEntry
  <2>1. directory' = [directory EXCEPT ![r.new] = row]
    BY <1>2, <1>7
  <2>2. /\ directory' \in [Emails -> EntryRecord] /\ directory'[r.new] = row
        /\ \A f \in Emails \ {r.new} : directory'[f] = directory[f]
    BY <1>2, <1>3, <1>4, <2>1 DEF IdentityTypes
  <2>3. \A b : Findable(b) => Findable(b)'
    BY <1>4, <1>7, <2>2 DEF Findable, LogsIn
  <2>4. WaysKept
    BY <1>2, <1>4, <2>2, <2>3 DEF WaysKept
  <2>5. EntriesSound'
    <3> SUFFICES ASSUME NEW e \in Emails PROVE EntrySound(e, directory[e])'
      BY DEF EntriesSound
    <3>1. CASE e = r.new
      BY <1>2, <1>3, <1>4, <2>2, <3>1 DEF EntrySound
    <3>2. CASE e # r.new
      BY <1>2, <2>2, <3>2 DEF EntriesSound, EntrySound
    <3> QED
      BY <3>1, <3>2
  <2>6. AccountIsReachable'
    BY <1>2, <2>3 DEF AccountIsReachable, Findable
  <2>7. ActiveIsRegistered'
    BY <1>2, <1>4, <2>2 DEF ActiveIsRegistered
  <2> QED
    BY <1>2, <1>5, <2>2, <2>4, <2>5, <2>6, <2>7, ChangeFrame DEF IdentityTypes
<1> QED
  BY <1>6, <1>7

\* The shard has the new address now; the user is in it as before.
LEMMA RenameShardKeeps == ASSUME IdentityInv, NEW x \in Renamers, RenameShard(x) PROVE IdentityInv'
<1>1. PICK r \in RenameRecord : r = rename[x]
  BY DEF IdentityInv, IdentityTypes
<1>2. /\ IdentityTypes /\ EntriesSound /\ AccountIsReachable /\ ActiveIsRegistered /\ r.pc = "shard"
      /\ UNCHANGED <<directory, signup, reconciler, evicted, rekeyed>> /\ RenameSound(r)
  BY <1>1 DEF IdentityInv, RequestsSound, RenameShard
<1>3. /\ r.account \in Signups /\ mailbox[r.account] # NoEmail /\ r.new \in Emails /\ r.old \in Emails \ {r.new}
  BY <1>2 DEF RenameSound
<1>4. CASE ~FreeInShard(r.account, r.new)
  <2>1. rename' = [rename EXCEPT ![x] = IdleRename] /\ UNCHANGED mailbox
    BY <1>1, <1>4 DEF RenameShard, RenameEnds
  <2>2. WaysKept /\ EntriesSound' /\ AccountIsReachable' /\ ActiveIsRegistered'
    BY <1>2, <2>1, Quiet
  <2> QED
    BY <1>2, <2>1, <2>2, EndsSound, ChangeFrame DEF IdentityTypes
<1>5. CASE FreeInShard(r.account, r.new)
  <2>1. mailbox' = [mailbox EXCEPT ![r.account] = r.new] /\ rename' = [rename EXCEPT ![x].pc = "complete"]
    BY <1>1, <1>5 DEF RenameShard
  <2>2. /\ mailbox' \in [Signups -> Emails \cup {NoEmail}]
        /\ \A b \in Signups : mailbox[b] # NoEmail <=> mailbox'[b] # NoEmail
    BY <1>2, <1>3, <2>1, IdentityAssumption DEF IdentityTypes
  <2>3. WaysKept
    BY <1>2, <2>2 DEF WaysKept, Findable, LogsIn
  <2>4. EntriesSound'
    <3> SUFFICES ASSUME NEW e \in Emails PROVE EntrySound(e, directory[e])'
      BY DEF EntriesSound
    <3>1. EntrySound(e, directory[e]) /\ directory'[e] = directory[e]
      BY <1>2 DEF EntriesSound
    <3> QED
      BY <2>2, <3>1 DEF EntrySound
  <2>5. \A e \in Emails : directory[e].status = "ACTIVE" => directory[e].owner \in Signups
    <3> SUFFICES ASSUME NEW e \in Emails, directory[e].status = "ACTIVE" PROVE directory[e].owner \in Signups
      OBVIOUS
    <3>1. EntrySound(e, directory[e])
      BY <1>2 DEF EntriesSound
    <3>2. directory[e].kind # "none"
      BY <3>1 DEF EntrySound, NoEntry, Row
    <3> QED
      BY <3>1, <3>2 DEF EntrySound
  <2>6. AccountIsReachable' /\ ActiveIsRegistered'
    BY <1>2, <2>2, <2>5 DEF AccountIsReachable, ActiveIsRegistered, LogsIn
  <2>7. \E s \in RenameRecord : rename' = [rename EXCEPT ![x] = s] /\ RenameSound(s)'
    <3>1. PICK s \in RenameRecord : s = [r EXCEPT !.pc = "complete"]
      BY DEF RenameRecord
    <3>2. s.account = r.account /\ s.new = r.new /\ s.old = r.old
      BY <3>1 DEF RenameRecord
    <3>3. rename' = [rename EXCEPT ![x] = s]
      BY <1>1, <2>1, <3>1
    <3>4. RenameSound(s)'
      BY <1>3, <2>2, <3>2 DEF RenameSound
    <3> QED
      BY <3>3, <3>4
  <2> QED
    BY <1>2, <2>2, <2>3, <2>4, <2>6, <2>7, ChangeFrame DEF IdentityTypes
<1> QED
  BY <1>4, <1>5

\* The last step of a change: its account is in the shard under the new address.
LEMMA RenameCompleteKeeps == ASSUME IdentityInv, NEW x \in Renamers, RenameComplete(x) PROVE IdentityInv'
<1>1. PICK r \in RenameRecord : r = rename[x]
  BY DEF IdentityInv, IdentityTypes
<1>2. /\ IdentityTypes /\ UNCHANGED <<mailbox, signup, reconciler, rekeyed>> /\ RenameSound(r) /\ r.pc = "complete"
      /\ CompleteChange(r.old, r.new, <<r.account, r.new>>) /\ rename' = [rename EXCEPT ![x] = IdleRename]
  BY <1>1 DEF IdentityInv, RequestsSound, RenameComplete, RenameEnds, ChangeOp
<1>3. r.account \in Signups /\ mailbox[r.account] # NoEmail /\ r.new \in Emails /\ r.old \in Emails \ {r.new}
  BY <1>2 DEF RenameSound
<1>4. /\ directory' \in [Emails -> EntryRecord]
      /\ WaysKept /\ EntriesSound' /\ AccountIsReachable' /\ ActiveIsRegistered'
  BY <1>2, <1>3, CompletesChange
<1> QED
  BY <1>2, <1>4, EndsSound, ChangeFrame DEF IdentityTypes

\* A change that dies leaves its row for the worker.
LEMMA RenameDiesKeeps == ASSUME IdentityInv, NEW x \in Renamers, RenameDies(x) PROVE IdentityInv'
<1>1. /\ IdentityTypes /\ UNCHANGED <<directory, mailbox, signup, reconciler, evicted, rekeyed>>
      /\ rename' = [rename EXCEPT ![x] = IdleRename]
  BY DEF IdentityInv, RenameDies, RenameEnds
<1>2. WaysKept /\ EntriesSound' /\ AccountIsReachable' /\ ActiveIsRegistered'
  BY <1>1, Quiet
<1> QED
  BY <1>1, <1>2, EndsSound, ChangeFrame DEF IdentityTypes

\* Time passes over a row.
LEMMA GraceKeeps == ASSUME IdentityInv, NEW e \in Emails, GracePasses(e) PROVE IdentityInv'
<1>1. /\ IdentityTypes /\ EntriesSound /\ AccountIsReachable /\ ActiveIsRegistered /\ directory[e].status = "PENDING"
      /\ UNCHANGED <<mailbox, signup, rename, reconciler, evicted, rekeyed>>
      /\ directory' = [directory EXCEPT ![e].overdue = TRUE]
  BY DEF IdentityInv, GracePasses
<1>2. /\ directory' \in [Emails -> EntryRecord]
      /\ \A f \in Emails : /\ directory'[f].owner = directory[f].owner /\ directory'[f].op = directory[f].op
                           /\ directory'[f].kind = directory[f].kind /\ directory'[f].status = directory[f].status
                           /\ directory'[f].prev = directory[f].prev
      /\ \A f \in Emails \ {e} : directory'[f] = directory[f]
  BY <1>1 DEF IdentityTypes, EntryRecord
<1>3. WaysKept
  BY <1>1, <1>2 DEF WaysKept, Findable, LogsIn
<1>4. directory[e].kind # "none"
  BY <1>1 DEF EntriesSound, EntrySound, NoEntry, Row
<1>5. EntriesSound'
  <2> SUFFICES ASSUME NEW f \in Emails PROVE EntrySound(f, directory[f])'
    BY DEF EntriesSound
  <2>1. EntrySound(f, directory[f])
    BY <1>1 DEF EntriesSound
  <2> QED
    BY <1>1, <1>2, <1>4, <2>1 DEF EntrySound
<1>6. AccountIsReachable' /\ ActiveIsRegistered'
  BY <1>1, <1>2 DEF AccountIsReachable, ActiveIsRegistered, LogsIn
<1> QED
  BY <1>1, <1>2, <1>3, <1>5, <1>6, ChangeFrame DEF IdentityTypes

\* The worker reads a row and then the shard of the row's account.
LEMMA ReconcileReadKeeps ==
  ASSUME IdentityInv, NEW k \in Reconcilers, NEW e \in Emails, ReconcileRead(k, e) PROVE IdentityInv'
<1>1. /\ IdentityTypes /\ EntrySound(e, directory[e]) /\ directory[e].status = "PENDING"
      /\ UNCHANGED <<directory, mailbox, signup, rename, evicted, rekeyed>>
  BY DEF IdentityInv, EntriesSound, ReconcileRead
<1>2. WaysKept /\ EntriesSound' /\ AccountIsReachable' /\ ActiveIsRegistered'
  BY <1>1, Quiet
<1>3. PICK row \in EntryRecord : row = directory[e]
  BY <1>1 DEF IdentityTypes
<1>4. row.kind # "none"
  BY <1>1, <1>3 DEF EntrySound, NoEntry, Row
<1>5. row.owner \in Signups /\ mailbox[row.owner] \in Emails \cup {NoEmail}
  BY <1>1, <1>3, <1>4 DEF EntrySound, IdentityTypes
<1>6. PICK s \in ReconcilerRecord : s = [at |-> e, row |-> row, read |-> mailbox[row.owner]]
  BY <1>5 DEF ReconcilerRecord
<1>7. reconciler' = [reconciler EXCEPT ![k] = s] /\ s.at = e /\ s.row = row /\ s.read = mailbox[row.owner]
  BY <1>3, <1>6 DEF ReconcileRead
<1>8. KeyStands(e, row.op, row.owner)
  BY <1>3 DEF KeyStands
<1>9. ReconcilerSound(s)
  BY <1>1, <1>3, <1>4, <1>5, <1>7, <1>8 DEF ReconcilerSound, EntrySound
<1>10. ReconcilerSound(s)'
  BY <1>2, <1>9, StaysSound
<1> QED
  BY <1>1, <1>2, <1>7, <1>10, ChangeFrame DEF IdentityTypes

\* The worker writes what the shard told it, which still holds of the account.
LEMMA ReconcileWriteKeeps == ASSUME IdentityInv, NEW k \in Reconcilers, ReconcileWrite(k) PROVE IdentityInv'
<1>1. PICK r \in ReconcilerRecord : r = reconciler[k]
  BY DEF IdentityInv, IdentityTypes
<1>2. /\ IdentityTypes /\ ReconcilerSound(r) /\ r # IdleReconciler /\ UNCHANGED <<mailbox, signup, rename, rekeyed>>
      /\ reconciler' = [reconciler EXCEPT ![k] = IdleReconciler]
  BY <1>1 DEF IdentityInv, RequestsSound, ReconcileWrite
<1>3. /\ r.at \in Emails /\ r.row.owner \in Signups
      /\ r.row.kind = "REGISTER" => KeyStands(r.at, r.row.op, r.row.owner) /\ r.row.op = OperationOf[r.row.owner]
      /\ r.row.kind = "EMAIL_CHANGE" => r.row.op = <<r.row.owner, r.at>> /\ r.row.prev \in Emails \ {r.at}
      /\ r.read # NoEmail => mailbox[r.row.owner] # NoEmail
  BY <1>2 DEF ReconcilerSound
<1>4. /\ directory' \in [Emails -> EntryRecord]
      /\ WaysKept /\ EntriesSound' /\ AccountIsReachable' /\ ActiveIsRegistered'
  <2>1. CASE r.row.kind = "REGISTER" /\ r.read # NoEmail
    <3>1. Activate(r.at, r.row.op) /\ UNCHANGED evicted
      BY <1>1, <2>1 DEF ReconcileWrite, Confirmed
    <3> QED
      BY <1>2, <1>3, <2>1, <3>1, Activates
  <2>2. CASE r.row.kind = "EMAIL_CHANGE" /\ r.read = r.at
    <3>1. CompleteChange(r.row.prev, r.at, r.row.op)
      BY <1>1, <1>3, <2>2 DEF ReconcileWrite, Confirmed
    <3>2. mailbox[r.row.owner] # NoEmail
      BY <1>3, <2>2, IdentityAssumption
    <3> QED
      BY <1>2, <1>3, <2>2, <3>1, <3>2, CompletesChange
  <2>3. CASE r.row.kind = "EMAIL_CHANGE" /\ r.read # r.at /\ r.read = r.row.prev
    <3>1. /\ directory' = IF Activatable(r.at, r.row.op) THEN [directory EXCEPT ![r.at] = NoEntry] ELSE directory
          /\ UNCHANGED evicted
      BY <1>1, <2>3 DEF ReconcileWrite, Confirmed
    <3> QED
      BY <1>2, <1>3, <2>3, <3>1, RollsBack
  <2>4. CASE /\ ~(r.row.kind = "REGISTER" /\ r.read # NoEmail)
             /\ ~(r.row.kind = "EMAIL_CHANGE" /\ r.read = r.at)
             /\ ~(r.row.kind = "EMAIL_CHANGE" /\ r.read = r.row.prev)
    <3>1. UNCHANGED <<directory, evicted>>
      BY <1>1, <2>4 DEF ReconcileWrite, Confirmed
    <3> QED
      BY <1>2, <3>1, Quiet DEF IdentityTypes
  <2> QED
    BY <2>1, <2>2, <2>3, <2>4
<1> QED
  BY <1>2, <1>4, EndsSound, ChangeFrame DEF IdentityTypes

\* Every step keeps the rows, the requests and the worker's readings sound, whatever
\* dies or is retried in between.
THEOREM IdentityInvariant == IdentitySpec => []IdentityInv
<1>1. IdentityInv /\ UNCHANGED identityVars => IdentityInv'
  <2> SUFFICES ASSUME IdentityInv, UNCHANGED identityVars PROVE IdentityInv'
    OBVIOUS
  <2>1. UNCHANGED <<directory, mailbox, evicted, rekeyed, signup, rename, reconciler>>
    BY DEF identityVars
  <2>2. WaysKept /\ EntriesSound' /\ AccountIsReachable' /\ ActiveIsRegistered'
    BY <2>1, Quiet
  <2> QED
    BY <2>1, <2>2, ChangeFrame DEF IdentityInv, IdentityTypes
<1>2. ASSUME IdentityInv, IdentityNext PROVE IdentityInv'
  <2>1. CASE \E a \in Signups : SignupStart(a) \/ SignupStep(a)
    BY <1>2, <2>1, ReadingKeeps, ReserveKeeps, WriteKeeps, ActivateKeeps DEF SignupStep
  <2>2. CASE \E x \in Renamers : \E a \in Signups, new \in Emails : RenameStart(x, a, new)
    BY <1>2, <2>2, RenameStartKeeps
  <2>3. CASE \E x \in Renamers : RenameStep(x)
    BY <1>2, <2>3, RenameReserveKeeps, RenameShardKeeps, RenameCompleteKeeps, RenameDiesKeeps DEF RenameStep
  <2>4. CASE \E e \in Emails : GracePasses(e)
    BY <1>2, <2>4, GraceKeeps
  <2>5. CASE \E k \in Reconcilers : (\E e \in Emails : ReconcileRead(k, e)) \/ ReconcileWrite(k)
    BY <1>2, <2>5, ReconcileReadKeeps, ReconcileWriteKeeps
  <2> QED
    BY <1>2, <2>1, <2>2, <2>3, <2>4, <2>5 DEF IdentityNext
<1> QED
  BY <1>1, <1>2, IdentityStart, PTL DEF IdentitySpec

\* Every user in a shard can log in or has its registration on record, and an active address
\* is of a registered user (auth-service.ts, user-email-directory-service.ts and
\* tenant-reservation-recovery.ts), with the exceptions that the property names.
THEOREM DirectoryHolds == IdentitySpec => []DirectoryFollowsShards
<1>1. IdentityInv => DirectoryFollowsShards
  BY DEF IdentityInv, DirectoryFollowsShards
<1> QED
  BY <1>1, IdentityInvariant, PTL
=============================================================================
