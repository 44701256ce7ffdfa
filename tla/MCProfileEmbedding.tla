------------------------- MODULE MCProfileEmbedding -------------------------
(* Two spellings of one name; an article describes the entity or does not. *)
EXTENDS ProfileEmbedding, TLC

MCSymmetry == Permutations(Name) \cup Permutations(Definition)
=============================================================================
