--------------------------- MODULE MCDistillation ---------------------------
(* Instances of Distillation for the model checker.                         *)
EXTENDS Distillation, TLC

CONSTANTS r1, r2, shift, rule, edge

ReplicaSymmetry == Permutations(Replicas)
=============================================================================
