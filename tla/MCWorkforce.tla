---------------------------- MODULE MCWorkforce ----------------------------
(***************************************************************************)
(* Instances of Workforce for TLC.                                         *)
(***************************************************************************)
EXTENDS Workforce, TLC

CONSTANTS w1, w2, t1, t2, c1, q1, q2

VARIABLE scenario   \* which half of the state space this behaviour explores

MCManager == (w1 :> w2) @@ (w2 :> None)
MCRank == [w \in Workers |-> IF w = w1 THEN 1 ELSE 2]
OneWorkerManager == (w1 :> None)
OneTaskRequired == (t1 :> {c1})
OneTaskRisk == (t1 :> "low")
OneTaskHolder == (t1 :> w1)
TwoTasksRequired == (t1 :> {c1}) @@ (t2 :> {c1})
TwoTasksRisk == (t1 :> "low") @@ (t2 :> "low")
TwoTasksHolder == (t1 :> w1) @@ (t2 :> w1)
NothingKnown == [w \in Workers |-> {}]

\* "skills": nothing is learned yet, no approval is asked for, no handoff made.
\* "approvals": both personas have passed the exam; approvals and handoffs race.
Passed(w) == [status |-> "passed", persona |-> w, cap |-> c1, origin |-> t1]
MCInit ==
    \/ Init /\ scenario = "skills"
    \/ /\ Approvals # {}
       /\ InitWith((q1 :> Passed(w1)) @@ (q2 :> Passed(w2)))
       /\ scenario = "approvals"
MCNext == Next /\ UNCHANGED scenario /\ (scenario = "skills" => UNCHANGED <<approval, handoff>>)
MCSpec == MCInit /\ [][MCNext]_<<vars, scenario>> /\ SweepFairness
=============================================================================
