---------------------------- MODULE MergePromise ----------------------------
(***************************************************************************)
(* What the merge of two entities adds to the promise of ClaimPromise: it  *)
(* is a renaming.  Whatever an article produced about the entity that      *)
(* goes, it is taken to have produced about the one that stays; what it    *)
(* produced about the two is dropped.  No rejection is lost, but where the *)
(* same claim of the two entities was rejected for one and not for the     *)
(* other.                                                                  *)
(***************************************************************************)
EXTENDS ClaimPromise

CONSTANT Entity   \* the ends of the claims

Ends(c) == {c.source, c.target}

Rename(c, from, to) ==
  [c EXCEPT !.source = IF @ = from THEN to ELSE @, !.target = IF @ = from THEN to ELSE @]

Renamed(claims, from, to) ==
  {Rename(c, from, to) : c \in {d \in claims : Ends(d) # {from, to}}}

Merge(from, to) ==
  /\ from # to
  /\ latest' = [a \in Article |-> Renamed(latest[a], from, to)]
  /\ known' = Renamed(known, from, to)
  /\ supported' = Supported(latest')
  /\ hidden' \subseteq Renamed(hidden, from, to)
  /\ Renamed(hidden, from, to) \subseteq hidden' \cup Renamed(known \ hidden, from, to)

MergeNext == Next \/ \E from, to \in Entity : Merge(from, to)

MergeSpec == Init /\ [][MergeNext]_vars
=============================================================================
