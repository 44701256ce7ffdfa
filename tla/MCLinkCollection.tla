------------------------- MODULE MCLinkCollection -------------------------
(* Two spellings of an article and a link to another host.  The listings   *)
(* show one spelling and the foreign link, the feed may have any.          *)
EXTENDS LinkCollection

MCFold == [l \in Link |-> IF l = "A" THEN "a" ELSE l]
=============================================================================
