--------------------------- MODULE LinkCollection ---------------------------
(***************************************************************************)
(* The scraper (services/scraper.py): the listings of a site are read page *)
(* by page, one page of every path before the next of any, and the links   *)
(* found are fetched, a few at a time.  The site is somebody else's: while *)
(* it is read, articles are published and push the others to later pages,  *)
(* or are withdrawn and pull them to earlier ones, and any request may     *)
(* fail.                                                                   *)
(*                                                                         *)
(* The order of the links is left out: of two that are equal up to case,   *)
(* any may come first.                                                     *)
(***************************************************************************)
EXTENDS Naturals, FiniteSets

CONSTANTS
  Link,
  Fold,        \* [Link -> Link], a link in lower case
  OnSite,      \* the links to the host of the source
  Numbered,    \* the links with a digit in their path and no blocked part
  Listed,      \* the links that the listings ever show; the feed may have any
  Unusable,    \* those of an event tip, of a page without an article, or of a short text
  Path,        \* the listing paths of the request
  MaxPages,    \* max_pages of the request
  Places,      \* of the semaphore in fetch_articles
  MaxChanges   \* bounds the changes of the site during a collection

ASSUME FoldAssumption == Fold \in [Link -> Link]
ASSUME PagesAssumption == MaxPages \in Nat \ {0}
ASSUME LinkAssumption == IsFiniteSet(Link) /\ Listed \subseteq Link
ASSUME PlacesAssumption == Places \in Nat \ {0}
ASSUME ChangesAssumption == MaxChanges \in Nat

VARIABLES
  place,       \* the page of a path that shows a link, 0 for none
  phase,
  page, todo,  \* the page that is being read, and the paths left of it
  exhausted,
  links,
  state,       \* of the fetch of each link
  due,         \* history: the links of each path that the collection should not miss
  changes

site == <<place, changes>>
scan == <<page, todo, exhausted>>
vars == <<site, phase, scan, links, state, due>>

Fetching == {l \in Link : state[l] = "fetching"}

(* The last number stands for all the pages that are not asked for. *)
PageNumber == 0..(MaxPages + 1)

TypeOK ==
  /\ place \in [Path -> [Listed -> PageNumber]]
  /\ phase \in {"idle", "feed", "listings", "collected", "fetching"}
  /\ page \in 1..MaxPages /\ todo \subseteq Path /\ exhausted \subseteq Path
  /\ links \subseteq Link
  /\ state \in [Link -> {"none", "waiting", "fetching", "article", "skipped", "failed"}]
  /\ due \in [Path -> SUBSET Link]
  /\ changes \in 0..MaxChanges
  /\ Cardinality(Fetching) <= Places

(* The links on some pages of a path. *)
At(p, pages) == {l \in Listed : place[p][l] \in pages}

Shown(p) == At(p, 1..(MaxPages + 1))

NoScan ==
  /\ page' = 1 /\ todo' = {} /\ exhausted' = {}
  /\ due' = [p \in Path |-> {}] /\ changes' = 0

-----------------------------------------------------------------------------
(* Which links are wanted. *)

_same_host(l) == l \in OnSite

_looks_like_article(l) == _same_host(l) /\ l \in Numbered

(* Mutant: links are compared as they are written. *)
_dedupe_exact(found) == {found}

(* One of each, up to case. *)
_dedupe(found) ==
  {kept \in SUBSET found :
     /\ \A l \in found : \E k \in kept : Fold[k] = Fold[l]
     /\ \A k, l \in kept : Fold[k] = Fold[l] => k = l}

-----------------------------------------------------------------------------
(* collect_links. *)

(* The feed of deutsche-startups.de is not used. *)
Collect(use_feed) ==
  /\ phase = "idle"
  /\ phase' = IF use_feed THEN "feed" ELSE "listings"
  /\ page' = 1 /\ todo' = Path /\ exhausted' = {}
  /\ due' = [p \in Path |-> Shown(p)]
  /\ UNCHANGED <<site, links, state>>

_links_from_feed(entries) ==
  /\ phase = "feed"
  /\ phase' = "listings"
  /\ links' = entries
  /\ UNCHANGED <<site, scan, state, due>>

(* raise_for_status, of which nothing takes care *)
FailFeed ==
  /\ phase = "feed"
  /\ phase' = "idle"
  /\ NoScan
  /\ UNCHANGED <<place, links, state>>

(* _links_from_listing_page *)
Reading(p) == phase = "listings" /\ p \in todo \ exhausted

ReadPage(p) ==
  /\ Reading(p)
  /\ links' = links \cup {l \in At(p, {page}) : _looks_like_article(l)}
  /\ todo' = todo \ {p}
  /\ UNCHANGED <<site, phase, page, exhausted, state, due>>

FailPage(p) ==
  /\ Reading(p)
  /\ todo' = todo \ {p}
  /\ due' = [due EXCEPT ![p] = @ \ At(p, {page})]
  /\ UNCHANGED <<site, phase, page, exhausted, links, state>>

(* A 404 means that there are no further pages, except on the first page,  *)
(* where it is a failure like others.  With a site that answers 404 for a  *)
(* page it has, the pages after it are lost as well.                       *)
EndOfPath(p) ==
  /\ Reading(p) /\ page > 1
  /\ exhausted' = exhausted \cup {p}
  /\ todo' = todo \ {p}
  /\ due' = [due EXCEPT ![p] = @ \ At(p, page..(MaxPages + 1))]
  /\ UNCHANGED <<site, phase, page, links, state>>

(* Mutant: break instead of continue. *)
SkipExhausted_break(p) ==
  /\ phase = "listings"
  /\ p \in todo \cap exhausted
  /\ todo' = {}
  /\ UNCHANGED <<site, phase, page, exhausted, links, state, due>>

SkipExhausted(p) ==
  /\ phase = "listings"
  /\ p \in todo \cap exhausted
  /\ todo' = todo \ {p}
  /\ UNCHANGED <<site, phase, page, exhausted, links, state, due>>

NextPage ==
  /\ phase = "listings"
  /\ todo = {} /\ page < MaxPages
  /\ page' = page + 1 /\ todo' = Path
  /\ UNCHANGED <<site, phase, exhausted, links, state, due>>

EndOfListings ==
  /\ phase = "listings"
  /\ todo = {} /\ page = MaxPages
  /\ links' \in _dedupe({l \in links : _same_host(l)})
  /\ phase' = "collected"
  /\ NoScan
  /\ UNCHANGED <<place, state>>

-----------------------------------------------------------------------------
(* fetch_articles, of the links the ingest does not skip. *)
fetch_articles(asked) ==
  /\ phase = "collected"
  /\ state' = [l \in Link |-> IF l \in asked THEN "waiting" ELSE "none"]
  /\ phase' = "fetching"
  /\ UNCHANGED <<site, scan, links, due>>

Become(l, from, to) ==
  /\ phase = "fetching" /\ state[l] = from
  /\ state' = [state EXCEPT ![l] = to]
  /\ UNCHANGED <<site, phase, scan, links, due>>

(* async with semaphore *)
fetch_link(l) ==
  /\ Cardinality(Fetching) < Places
  /\ Become(l, "waiting", "fetching")

_fetch_article(l) ==
  Become(l, "fetching", IF l \in Unusable THEN "skipped" ELSE "article")

(* Mutant: a fetch that fails is tried again. *)
FailFetch_retried(l) == Become(l, "fetching", "waiting")

FailFetch(l) == Become(l, "fetching", "failed")

(* asyncio.gather *)
EndOfFetches ==
  /\ phase = "fetching"
  /\ \A l \in Link : state[l] \notin {"waiting", "fetching"}
  /\ phase' = "idle"
  /\ links' = {} /\ state' = [l \in Link |-> "none"]
  /\ UNCHANGED <<site, scan, due>>

-----------------------------------------------------------------------------
(* The site, newest articles first. *)

(* Whether the page k of a path is still to be read. *)
Unread(p, k) ==
  /\ p \notin exhausted
  /\ k > page \/ (k = page /\ p \in todo)

Later(k) == IF k \in {0, MaxPages + 1} THEN k ELSE k + 1

(* The new article is on the first page, and the last one of every page    *)
(* moves to the next.                                                      *)
Publish(p, l, pushed) ==
  /\ phase = "listings"
  /\ changes < MaxChanges /\ changes' = changes + 1
  /\ l \in Listed \ Shown(p) /\ pushed \subseteq Shown(p)
  /\ place' = [place EXCEPT ![p] =
       [k \in Listed |-> IF k = l THEN 1 ELSE IF k \in pushed THEN Later(place[p][k])
                       ELSE place[p][k]]]
  /\ UNCHANGED <<phase, scan, links, state, due>>

(* The first one of every later page moves to the one before. *)
Withdraw(p, l, pulled) ==
  /\ phase = "listings"
  /\ changes < MaxChanges /\ changes' = changes + 1
  /\ l \in Shown(p) /\ pulled \subseteq {k \in Listed : place[p][k] > place[p][l]}
  /\ place' = [place EXCEPT ![p] =
       [k \in Listed |-> IF k = l THEN 0 ELSE IF k \in pulled THEN place[p][k] - 1
                       ELSE place[p][k]]]
  /\ due' = [due EXCEPT ![p] = @ \ ({l} \cup
       {k \in pulled : Unread(p, place[p][k]) /\ ~Unread(p, place[p][k] - 1)})]
  /\ UNCHANGED <<phase, scan, links, state>>

-----------------------------------------------------------------------------
Init ==
  /\ place \in [Path -> [Listed -> PageNumber]]
  /\ phase = "idle"
  /\ page = 1 /\ todo = {} /\ exhausted = {}
  /\ links = {}
  /\ state = [l \in Link |-> "none"]
  /\ due = [p \in Path |-> {}]
  /\ changes = 0

ReadListing(p) == ReadPage(p) \/ FailPage(p) \/ EndOfPath(p) \/ SkipExhausted(p)

Fetch(l) == fetch_link(l) \/ _fetch_article(l) \/ FailFetch(l)

Scrape ==
  \/ \E entries \in SUBSET Link : _links_from_feed(entries)
  \/ FailFeed
  \/ \E p \in Path : ReadListing(p)
  \/ NextPage \/ EndOfListings
  \/ \E asked \in SUBSET links : fetch_articles(asked)
  \/ \E l \in Link : Fetch(l)
  \/ EndOfFetches

Change ==
  \E p \in Path, l \in Link, moved \in SUBSET Link :
    Publish(p, l, moved) \/ Withdraw(p, l, moved)

Next ==
  \/ \E use_feed \in BOOLEAN : Collect(use_feed)
  \/ Scrape
  \/ Change

Spec == Init /\ [][Next]_vars

(* Every request of the scraper has a timeout, and its tasks are run. *)
FairSpec == Spec /\ WF_vars(Scrape)

-----------------------------------------------------------------------------
(* A collection misses only what it could not have found: every article a  *)
(* listing has shown since the collection began, and still shows on one of *)
(* the pages that were asked for, is among the links, unless it was on a   *)
(* page whose request failed, or a withdrawal pulled it from a page that   *)
(* was still to be read to one that had been.  No article is missed for    *)
(* what is published meanwhile, nor for another path that ends early.      *)
MissedForCause ==
  [][EndOfListings =>
       \A p \in Path : \A l \in due[p] :
         place[p][l] <= MaxPages /\ _looks_like_article(l) =>
           \E k \in links' : Fold[k] = Fold[l]]_vars

(* No article is fetched twice, whether the feed or several paths list it, *)
(* and nothing is fetched from another host.                               *)
OneFetchPerArticle ==
  \A k, l \in Link :
    state[k] # "none" /\ state[l] # "none" =>
      _same_host(k) /\ (Fold[k] = Fold[l] => k = l)

(* Whatever fails, a collection ends: no fetch waits for ever, and no path *)
(* is read for ever.                                                       *)
EveryCollectionEnds == phase # "idle" ~> phase = "idle"
=============================================================================
