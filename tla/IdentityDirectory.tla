-------------------------- MODULE IdentityDirectory --------------------------
(***************************************************************************)
(* The directory of e-mail addresses in the coordinator database and the   *)
(* users in the shards (tenant-identity-directory.ts): registration        *)
(* (auth-service.ts), change of address (user-email-directory-service.ts)  *)
(* and the worker that reconciles what a crash between the two databases   *)
(* left behind (tenant-reservation-recovery.ts).                           *)
(***************************************************************************)
EXTENDS Naturals, FiniteSets

CONSTANTS
    Emails,       \* canonical addresses
    Signups,      \* register requests; also the accounts they would create
    EmailOf,      \* Signups -> Emails
    OperationOf,  \* Signups -> the Idempotency-Key of the request
    ShardOf,      \* Signups -> the shard of the account
    Renamers,     \* updateEmail requests in progress at a time
    Reconcilers,  \* replicas running the recovery worker
    NoAccount, NoEmail

ASSUME IdentityAssumption ==
    /\ EmailOf \in [Signups -> Emails]
    /\ NoAccount \notin Signups /\ NoEmail \notin Emails
    \* no client sends the key that a change of address derives for itself
    /\ \A a, b \in Signups, e \in Emails : OperationOf[a] # <<b, e>>

VARIABLES
    directory,   \* tenant_identity_directory, by lookup_value
    mailbox,     \* users.email of each account, NoEmail before its shard has it
    signup,      \* register: step and canonical account
    rename,      \* updateEmail: step, account, old and new address
    reconciler,  \* the row a worker is at and what it read in the shard
    evicted,     \* history: accounts whose row another account's change deleted
    rekeyed      \* history: addresses reserved anew, for another account, under a
                 \* key that a request or the worker still has of the first time

identityVars == <<directory, mailbox, signup, rename, reconciler, evicted, rekeyed>>

Row(owner, op, kind, prev) ==
    [owner |-> owner, op |-> op, kind |-> kind, prev |-> prev, status |-> "PENDING", overdue |-> FALSE]
NoEntry == [Row(NoAccount, NoAccount, "none", NoEmail) EXCEPT !.status = "none"]

IdleSignup == [pc |-> "idle", account |-> NoAccount]
IdleRename == [pc |-> "idle", account |-> NoAccount, old |-> NoEmail, new |-> NoEmail]
IdleReconciler == [at |-> NoEmail, row |-> NoEntry, read |-> NoEmail]

IdentityInit ==
    /\ directory = [e \in Emails |-> NoEntry]
    /\ mailbox = [a \in Signups |-> NoEmail]
    /\ signup = [a \in Signups |-> IdleSignup]
    /\ rename = [x \in Renamers |-> IdleRename]
    /\ reconciler = [k \in Reconcilers |-> IdleReconciler]
    /\ evicted = {}
    /\ rekeyed = {}
-----------------------------------------------------------------------------
(* Statements *)

\* INSERT ... ON CONFLICT DO NOTHING, then the row is read back.
Reserve(e, row) ==
    directory' = IF directory[e] = NoEntry THEN [directory EXCEPT ![e] = row] ELSE directory

\* UPDATE ... SET status = 'ACTIVE' WHERE operation_id = ? AND status = 'PENDING'
Activatable_InTime(e, op) ==
    directory[e].op = op /\ directory[e].status = "PENDING" /\ ~directory[e].overdue
Activatable(e, op) == directory[e].op = op /\ directory[e].status = "PENDING"

\* What pertains to a pending row is never read again.
Activated(row) == [row EXCEPT !.status = "ACTIVE", !.overdue = FALSE, !.prev = NoEmail]

Activate(e, op) ==
    directory' = IF Activatable(e, op) THEN [directory EXCEPT ![e] = Activated(@)] ELSE directory

\* completeEmailChange, one transaction: the old row goes, whoever owns it, but
\* only with the new one active.
Completes(e, op) == Activatable(e, op)

CompleteChange(old, new, op) ==
    /\ directory' = IF Completes(new, op)
                    THEN [e \in Emails |->
                            IF e = old THEN NoEntry
                            ELSE IF e = new /\ Activatable(new, op)
                            THEN Activated(directory[e])
                            ELSE directory[e]]
                    ELSE directory
    /\ evicted' = IF /\ Completes(new, op)
                     /\ directory[old].status # "none"
                     /\ directory[old].owner # directory[new].owner
                  THEN evicted \cup {directory[old].owner} ELSE evicted

\* The unique index of users.email, in one shard.
FreeInShard(a, e) == \A b \in Signups \ {a} : ShardOf[b] = ShardOf[a] => mailbox[b] # e
-----------------------------------------------------------------------------
(* register *)

SignupGoes(a, pc, account) == signup' = [signup EXCEPT ![a] = [pc |-> pc, account |-> account]]
SignupEnds(a) == signup' = [signup EXCEPT ![a] = IdleSignup]

SignupStart(a) ==
    /\ signup[a] = IdleSignup
    /\ directory[EmailOf[a]].status # "ACTIVE"
    /\ SignupGoes(a, "reserve", NoAccount)
    /\ UNCHANGED <<directory, mailbox, rename, reconciler, evicted, rekeyed>>

\* A request or the worker goes on with an earlier reservation under this key.
StillUsed(e, op, a) ==
    \/ \E b \in Signups :
          /\ signup[b].pc \in {"boot", "write", "activate"}
          /\ EmailOf[b] = e /\ OperationOf[b] = op /\ signup[b].account # a
    \/ \E k \in Reconcilers :
          /\ reconciler[k].at = e /\ reconciler[k].row.op = op
          /\ reconciler[k].row.owner # a

SignupReserve(a) ==
    LET e == EmailOf[a] IN
    /\ signup[a].pc = "reserve"
    /\ Reserve(e, Row(a, OperationOf[a], "REGISTER", NoEmail))
    /\ IF directory'[e].op = OperationOf[a]
       THEN SignupGoes(a, "boot", directory'[e].owner)
       ELSE SignupEnds(a)
    /\ rekeyed' = rekeyed \cup (IF directory[e] = NoEntry /\ StillUsed(e, OperationOf[a], a) THEN {e} ELSE {})
    /\ UNCHANGED <<mailbox, rename, reconciler, evicted>>

\* tenant_bootstrap is COMPLETE for this operation: one transaction with the user.
Booted(account) == mailbox[account] # NoEmail

SignupBoot(a) ==
    /\ signup[a].pc = "boot"
    /\ SignupGoes(a, IF Booted(signup[a].account) THEN "activate" ELSE "write", signup[a].account)
    /\ UNCHANGED <<directory, mailbox, rename, reconciler, evicted, rekeyed>>

SignupWrite(a) ==
    LET account == signup[a].account IN
    /\ signup[a].pc = "write"
    /\ IF mailbox[account] = NoEmail /\ FreeInShard(account, EmailOf[a])
       THEN /\ mailbox' = [mailbox EXCEPT ![account] = EmailOf[a]]
            /\ SignupGoes(a, "activate", account)
       ELSE SignupEnds(a) /\ UNCHANGED mailbox
    /\ UNCHANGED <<directory, rename, reconciler, evicted, rekeyed>>

SignupActivate(a) ==
    /\ signup[a].pc = "activate"
    /\ Activate(EmailOf[a], OperationOf[a])
    /\ SignupEnds(a)
    /\ UNCHANGED <<mailbox, rename, reconciler, evicted, rekeyed>>

SignupDies(a) ==
    /\ signup[a] # IdleSignup
    /\ SignupEnds(a)
    /\ UNCHANGED <<directory, mailbox, rename, reconciler, evicted, rekeyed>>
-----------------------------------------------------------------------------
(* updateEmail *)

ChangeOp(account, new) == <<account, new>>
RenameEnds(x) == rename' = [rename EXCEPT ![x] = IdleRename]

\* The request carries a token of an account that has logged in.  A user whose
\* shard has the address already completes its own pending change.
LogsIn(a) == \E e \in Emails : directory[e].owner = a /\ directory[e].status = "ACTIVE"

RenameStart(x, a, new) ==
    LET row == directory[new]
        mine == row.status = "none" \/ row.owner = a IN
    /\ rename[x] = IdleRename
    /\ mailbox[a] # NoEmail /\ LogsIn(a)
    /\ IF mailbox[a] = new
       THEN /\ row.status = "PENDING" /\ row.kind = "EMAIL_CHANGE" /\ row.owner = a
            /\ rename' = [rename EXCEPT ![x] = [pc |-> "complete", account |-> a, old |-> row.prev, new |-> new]]
       ELSE /\ mine
            /\ rename' = [rename EXCEPT ![x] = [pc |-> "reserve", account |-> a, old |-> mailbox[a], new |-> new]]
    /\ UNCHANGED <<directory, mailbox, signup, reconciler, evicted, rekeyed>>

RenameReserve(x) ==
    LET r == rename[x]
        op == ChangeOp(r.account, r.new) IN
    /\ r.pc = "reserve"
    /\ Reserve(r.new, Row(r.account, op, "EMAIL_CHANGE", r.old))
    /\ IF directory'[r.new].op = op
       THEN rename' = [rename EXCEPT ![x].pc = "shard"]
       ELSE RenameEnds(x)
    /\ UNCHANGED <<mailbox, signup, reconciler, evicted, rekeyed>>

RenameShard(x) ==
    LET r == rename[x] IN
    /\ r.pc = "shard"
    /\ IF FreeInShard(r.account, r.new)
       THEN /\ mailbox' = [mailbox EXCEPT ![r.account] = r.new]
            /\ rename' = [rename EXCEPT ![x].pc = "complete"]
       ELSE RenameEnds(x) /\ UNCHANGED mailbox
    /\ UNCHANGED <<directory, signup, reconciler, evicted, rekeyed>>

RenameComplete(x) ==
    LET r == rename[x] IN
    /\ r.pc = "complete"
    /\ CompleteChange(r.old, r.new, ChangeOp(r.account, r.new))
    /\ RenameEnds(x)
    /\ UNCHANGED <<mailbox, signup, reconciler, rekeyed>>

RenameDies(x) ==
    /\ rename[x].pc \in {"shard", "complete"}
    /\ RenameEnds(x)
    /\ UNCHANGED <<directory, mailbox, signup, reconciler, evicted, rekeyed>>
-----------------------------------------------------------------------------
(* The recovery worker *)

\* A row is listed once it has been PENDING for the grace period, which is longer
\* than any request that was running when it was inserted; a retry does not
\* refresh the row.
InProgress(op) ==
    \/ \E a \in Signups : signup[a].pc \in {"boot", "write", "activate"} /\ OperationOf[a] = op
    \/ \E x \in Renamers :
          rename[x].pc \in {"shard", "complete"} /\ ChangeOp(rename[x].account, rename[x].new) = op

GracePasses(e) ==
    /\ directory[e].status = "PENDING" /\ ~directory[e].overdue
    /\ ~InProgress(directory[e].op)
    /\ directory' = [directory EXCEPT ![e].overdue = TRUE]
    /\ UNCHANGED <<mailbox, signup, rename, reconciler, evicted, rekeyed>>

\* The shard's answer: the user's address, or whether the operation is COMPLETE.
ReconcileRead(k, e) ==
    /\ reconciler[k] = IdleReconciler
    /\ directory[e].status = "PENDING" /\ directory[e].overdue
    /\ reconciler' = [reconciler EXCEPT ![k] = [at |-> e, row |-> directory[e],
                                               read |-> mailbox[directory[e].owner]]]
    /\ UNCHANGED <<directory, mailbox, signup, rename, evicted, rekeyed>>

Confirmed_Always(k) == TRUE
Confirmed(k) == reconciler[k].read # NoEmail

ReconcileWrite(k) ==
    LET r == reconciler[k] IN
    /\ r # IdleReconciler
    /\ CASE r.row.kind = "REGISTER" /\ Confirmed(k) ->
               Activate(r.at, r.row.op) /\ UNCHANGED evicted
         [] r.row.kind = "EMAIL_CHANGE" /\ r.read = r.at ->
               CompleteChange(r.row.prev, r.at, r.row.op)
         [] r.row.kind = "EMAIL_CHANGE" /\ r.read = r.row.prev ->
               /\ directory' = IF Activatable(r.at, r.row.op)
                               THEN [directory EXCEPT ![r.at] = NoEntry] ELSE directory
               /\ UNCHANGED evicted
         [] OTHER -> UNCHANGED <<directory, evicted>>
    /\ reconciler' = [reconciler EXCEPT ![k] = IdleReconciler]
    /\ UNCHANGED <<mailbox, signup, rename, rekeyed>>

SignupStep(a) ==
    SignupReserve(a) \/ SignupBoot(a) \/ SignupWrite(a) \/ SignupActivate(a) \/ SignupDies(a)
RenameStep(x) == RenameReserve(x) \/ RenameShard(x) \/ RenameComplete(x) \/ RenameDies(x)

IdentityNext ==
    \/ \E a \in Signups : SignupStart(a) \/ SignupStep(a)
    \/ \E x \in Renamers :
          \/ \E a \in Signups, new \in Emails : RenameStart(x, a, new)
          \/ RenameStep(x)
    \/ \E e \in Emails : GracePasses(e)
    \/ \E k \in Reconcilers :
          \/ \E e \in Emails : ReconcileRead(k, e)
          \/ ReconcileWrite(k)

IdentitySpec == IdentityInit /\ [][IdentityNext]_identityVars

\* A request goes on or dies, time passes, and the worker's rounds come to every
\* overdue row.
IdentityFairness ==
    /\ \A a \in Signups : WF_identityVars(SignupStep(a))
    /\ \A x \in Renamers : WF_identityVars(RenameStep(x))
    /\ \A e \in Emails : SF_identityVars(GracePasses(e))
    /\ \A k \in Reconcilers :
          /\ \A e \in Emails : SF_identityVars(ReconcileRead(k, e))
          /\ WF_identityVars(ReconcileWrite(k))
-----------------------------------------------------------------------------
(* Properties *)

\* A user in a shard can be found through the directory, or the registration that
\* put it there is still on record: neither a crash between the databases, nor a
\* race of changes, retries and reconciliation, loses the way to an account.
\* Exempt are accounts whose row another account's late completion deleted.
AccountIsReachable ==
    \A a \in Signups : mailbox[a] # NoEmail /\ a \notin evicted =>
        \/ LogsIn(a)
        \/ \E e \in Emails : directory[e].owner = a /\ directory[e].kind = "REGISTER"

\* An address is active only for an account that its shard has.  Exempt are
\* addresses reserved anew, under the key of a request that is still activating.
ActiveIsRegistered ==
    \A e \in Emails : directory[e].status = "ACTIVE" /\ e \notin rekeyed =>
        mailbox[directory[e].owner] # NoEmail

\* The directory and the shards tell the same, in both directions.
DirectoryFollowsShards == AccountIsReachable /\ ActiveIsRegistered

\* A registration that reached its shard ends in an account that can log in,
\* even if the request died and its client never retries.
RegisteredLogsIn ==
    \A a \in Signups : (mailbox[a] # NoEmail) ~> (LogsIn(a) \/ a \in evicted)
=============================================================================
