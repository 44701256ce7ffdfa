------------------------- MODULE MCProfileCuration -------------------------
(* Two evidence ids of one text, two of texts of their own; no action      *)
(* tells one policy from the other, or one version of a definition.        *)
EXTENDS ProfileCuration, TLC

MCTextOf == [e1 |-> "t1", e2 |-> "t1", e3 |-> "t2", e4 |-> "t3"]

MCSymmetry == Permutations(Policy) \cup Permutations(Definition)
=============================================================================
