---------------------------- MODULE MCClaimStore ----------------------------
(* Two companies, every claim by which they can contradict each other, and *)
(* two articles.  No action tells one article from the other.              *)
EXTENDS ClaimStore, TLC

MCEntity == {1, 2}
MCMention ==
  {[relationship |-> "ACQUIRED", source |-> 1, target |-> 2],
   [relationship |-> "ACQUIRED", source |-> 2, target |-> 1],
   [relationship |-> "MERGED_WITH", source |-> 2, target |-> 1]}

Articles == Permutations(Article)
=============================================================================
