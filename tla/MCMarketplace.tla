---------------------------- MODULE MCMarketplace ----------------------------
EXTENDS Marketplace, TLC

MCQualityPay == {0, 1}
MCSplits == {[owner |-> 80, persona |-> 0, platform |-> 20]}
Symmetry == Permutations(Personas) \cup Permutations(Requests) \cup Permutations(PayoutKeys)
=============================================================================
