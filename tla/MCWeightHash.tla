---------------------------- MODULE MCWeightHash ----------------------------
(* Two files, so that one can be read before and one after a write; each is *)
(* written twice at most, so that it can be changed and changed back.       *)
EXTENDS WeightHash, TLC

Symmetry == Permutations(Files)
=============================================================================
