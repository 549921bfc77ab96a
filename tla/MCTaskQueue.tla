---------------------------- MODULE MCTaskQueue ----------------------------
(* Instances of TaskQueue for the model checker.                            *)
EXTENDS TaskQueue, TLC

CONSTANTS t1, t2, t3, w1, w2, a1, a2

OneTenant    == [t \in Tasks |-> "tenant"]
SamePriority == [t \in Tasks |-> 0]
\* t1 relies on the worker's own retry limit, the others on max_retries = 1.
MixedRetries == [t \in Tasks |-> IF t = t1 THEN 0 ELSE 1]
OneRetry     == [t \in Tasks |-> 1]
TwoRetries   == [t \in Tasks |-> 2]
Urgent1      == [t \in Tasks |-> IF t = t1 THEN 2 ELSE 0]
OddTenant    == [t \in Tasks |-> IF t = t1 THEN "t" ELSE "u"]

TwoAndWorker == [t \in Tasks |-> IF t = t1 THEN 2 ELSE 0]
\* The reaper takes a row after one tick: a type may have to answer by then, or not.
ShortTimeout == [t \in Tasks |-> 1]
LongTimeout1 == [t \in Tasks |-> IF t = t1 THEN 2 ELSE 1]
LongTimeout2 == [t \in Tasks |-> IF t = t1 THEN 1 ELSE 3]

WorkerSymmetry == Permutations(Workers)
=============================================================================
