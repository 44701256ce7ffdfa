--------------------------- MODULE MCEntityMerge ---------------------------
(* Three companies, of which two acquire the third and one merges with it: *)
(* merging the first two makes one claim of the acquisitions, with their   *)
(* support and their decisions, and a contradiction with the merger;       *)
(* merging the third into the first turns the merger round.  Either two    *)
(* articles are ingested once, among two edits and two decisions, or one   *)
(* article is ingested three times.                                        *)
EXTENDS EntityMerge

MCEntity == {1, 2, 3}
MCMention ==
  {[relationship |-> "ACQUIRED", source |-> 1, target |-> 3],
   [relationship |-> "ACQUIRED", source |-> 2, target |-> 3],
   [relationship |-> "MERGED_WITH", source |-> 3, target |-> 2]}

MCBudgets ==
  {[articles |-> {"a1", "a2"}, runs |-> 1, edits |-> 2, reviews |-> 2],
   [articles |-> {"a1"}, runs |-> 3, edits |-> 1, reviews |-> 1]}

OneArticleTwice == {[articles |-> {"a1"}, runs |-> 2, edits |-> 1, reviews |-> 0]}
=============================================================================
