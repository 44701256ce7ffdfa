------------------------ MODULE LinkCollectionProofs ------------------------
(***************************************************************************)
(* What a collection should not miss and has not found yet is on a page    *)
(* that is still to be read, for any site, paths and number of pages.      *)
(***************************************************************************)
EXTENDS LinkCollection, TLAPS, FiniteSetTheorems

Typed ==
  /\ place \in [Path -> [Listed -> PageNumber]]
  /\ phase \in {"idle", "feed", "listings", "collected", "fetching"}
  /\ page \in 1..MaxPages /\ todo \subseteq Path /\ exhausted \subseteq Path
  /\ links \subseteq Link
  /\ state \in [Link -> {"none", "waiting", "fetching", "article", "skipped", "failed"}]
  /\ due \in [Path -> SUBSET Link]
  /\ changes \in 0..MaxChanges

(* Nothing is read before the feed. *)
FeedIsFirst == phase = "feed" => page = 1 /\ todo = Path /\ exhausted = {}

(* What is due is shown, and found or still to be read. *)
Due(p, l) ==
  /\ l \in Listed /\ place[p][l] # 0
  /\ \/ phase = "listings" /\ l \in links
     \/ ~_looks_like_article(l)
     \/ Unread(p, place[p][l])

DueIsAhead == \A p \in Path : \A l \in due[p] : Due(p, l)

Distinct(S) == \A k, l \in S : _same_host(k) /\ (Fold[k] = Fold[l] => k = l)

(* Once they are collected, links are distinct; fetched are only these. *)
LinksAreDistinct ==
  /\ phase \in {"collected", "fetching"} => Distinct(links)
  /\ \A l \in Link : state[l] # "none" => phase = "fetching" /\ l \in links

IInv == Typed /\ FeedIsFirst /\ DueIsAhead /\ LinksAreDistinct

(* At first nothing is due, and nothing is fetched. *)
LEMMA InitInvariant == Init => IInv
PROOF
  <1> SUFFICES ASSUME Init
               PROVE  IInv
    OBVIOUS
  <1>1. Typed
    BY PagesAssumption, ChangesAssumption DEF Init, Typed
  <1>2. FeedIsFirst /\ DueIsAhead /\ LinksAreDistinct
    BY DEF Init, FeedIsFirst, DueIsAhead, LinksAreDistinct
  <1> QED BY <1>1, <1>2 DEF IInv

(* What is due stays ahead when the reader moves on and the site does not. *)
LEMMA ReaderStep ==
  ASSUME IInv, UNCHANGED place,
         NEW p \in Path, NEW l \in due[p]', l \in due[p],
         phase' = "listings",
         phase = "listings" /\ l \in links => l \in links',
         Unread(p, place[p][l]) /\ _looks_like_article(l) =>
           l \in links' \/ Unread(p, place[p][l])'
  PROVE  Due(p, l)'
PROOF
  BY DEF IInv, DueIsAhead, Due, _looks_like_article, _same_host

(* A step of the reader on one path. *)
LEMMA ReadListingStep ==
  ASSUME IInv, NEW p \in Path, ReadListing(p)
  PROVE  IInv'
PROOF
  <1>1. Typed'
    BY LinkAssumption DEF IInv, Typed, ReadListing, ReadPage, FailPage, EndOfPath,
           SkipExhausted, Reading, At, site
  <1>2. FeedIsFirst' /\ LinksAreDistinct'
    BY DEF IInv, FeedIsFirst, LinksAreDistinct, ReadListing, ReadPage, FailPage, EndOfPath,
           SkipExhausted, Reading, site
  <1>3. /\ phase = "listings" /\ phase' = "listings" /\ page' = page /\ UNCHANGED place
        /\ links \subseteq links' /\ todo' = todo \ {p}
    BY DEF ReadListing, ReadPage, FailPage, EndOfPath, SkipExhausted, Reading, site
  <1>4. ASSUME NEW q \in Path, NEW l \in due[q]'
        PROVE  Due(q, l)'
    <2>1. l \in due[q]
      BY <1>4 DEF IInv, Typed, ReadListing, ReadPage, FailPage, EndOfPath, SkipExhausted
    <2>2. /\ l \in Listed /\ place[q][l] \in PageNumber /\ page \in 1..MaxPages
          /\ due \in [Path -> SUBSET Link]
      BY <2>1 DEF IInv, Typed, DueIsAhead, Due
    <2>3. ASSUME Unread(q, place[q][l]), _looks_like_article(l)
          PROVE  l \in links' \/ Unread(q, place[q][l])'
      <3>1. CASE ReadPage(p)
        BY <3>1, <2>2, <2>3, <1>3, PagesAssumption DEF ReadPage, Unread, At, PageNumber
      <3>2. CASE FailPage(p)
        BY <3>2, <2>2, <2>3, <1>3, <1>4, PagesAssumption DEF FailPage, Unread, At, PageNumber
      <3>3. CASE EndOfPath(p)
        BY <3>3, <2>2, <2>3, <1>3, <1>4, PagesAssumption DEF EndOfPath, Unread, At, PageNumber
      <3>4. CASE SkipExhausted(p)
        BY <3>4, <2>2, <2>3, <1>3 DEF SkipExhausted, Unread
      <3> QED BY <3>1, <3>2, <3>3, <3>4 DEF ReadListing
    <2> QED BY <2>1, <2>3, <1>3, ReaderStep
  <1> QED BY <1>1, <1>2, <1>4 DEF IInv, DueIsAhead

LEMMA NextPageStep ==
  ASSUME IInv, NextPage
  PROVE  IInv'
PROOF
  <1>1. Typed' /\ FeedIsFirst' /\ LinksAreDistinct'
    BY PagesAssumption DEF IInv, Typed, FeedIsFirst, LinksAreDistinct, NextPage, site
  <1>2. ASSUME NEW q \in Path, NEW l \in due[q]'
        PROVE  Due(q, l)'
    <2>1. /\ l \in due[q] /\ place[q][l] \in PageNumber /\ page \in 1..MaxPages
          /\ UNCHANGED place /\ UNCHANGED links /\ phase' = "listings"
      BY <1>2 DEF IInv, Typed, NextPage, DueIsAhead, Due, site
    <2>2. Unread(q, place[q][l]) => Unread(q, place[q][l])'
      BY <2>1, PagesAssumption DEF NextPage, Unread, PageNumber
    <2> QED BY <2>1, <2>2, ReaderStep
  <1> QED BY <1>1, <1>2 DEF IInv, DueIsAhead

(* The steps with nothing due before or after, or before anything is read. *)
LEMMA CollectStep ==
  ASSUME IInv, NEW use_feed \in BOOLEAN, Collect(use_feed)
  PROVE  IInv'
PROOF
  <1>1. Typed'
    <2>1. \A p \in Path : Shown(p) \subseteq Link
      BY LinkAssumption DEF Shown, At
    <2> QED BY <2>1, PagesAssumption DEF IInv, Typed, Collect, site
  <1>2. FeedIsFirst' /\ LinksAreDistinct'
    BY DEF IInv, FeedIsFirst, LinksAreDistinct, Collect
  <1>3. ASSUME NEW p \in Path, NEW l \in due[p]'
        PROVE  Due(p, l)'
    <2>1. /\ l \in Listed /\ place[p][l] \in 1..(MaxPages + 1) /\ UNCHANGED place
          /\ page' = 1 /\ todo' = Path /\ exhausted' = {}
      BY <1>3 DEF Collect, Shown, At, site
    <2>2. place[p][l] # 0 /\ (place[p][l] > 1 \/ place[p][l] = 1)
      BY <2>1, PagesAssumption
    <2> QED BY <2>1, <2>2 DEF Due, Unread
  <1> QED BY <1>1, <1>2, <1>3 DEF IInv, DueIsAhead

LEMMA FeedStep ==
  ASSUME IInv, NEW entries \in SUBSET Link, _links_from_feed(entries)
  PROVE  IInv'
PROOF
  <1>1. Typed' /\ FeedIsFirst' /\ LinksAreDistinct'
    BY DEF IInv, Typed, FeedIsFirst, LinksAreDistinct, _links_from_feed, site, scan
  <1>2. ASSUME NEW p \in Path, NEW l \in due[p]'
        PROVE  Due(p, l)'
    <2>1. l \in due[p] /\ phase = "feed" /\ UNCHANGED <<place, page, todo, exhausted>>
      BY <1>2 DEF _links_from_feed, site, scan
    <2> QED BY <2>1 DEF IInv, DueIsAhead, Due, Unread, _looks_like_article, _same_host
  <1> QED BY <1>1, <1>2 DEF IInv, DueIsAhead

(* At the end of a scan nothing is due any more. *)
LEMMA EndStep ==
  ASSUME IInv, FailFeed \/ EndOfListings
  PROVE  IInv'
PROOF
  <1>1. ASSUME EndOfListings
        PROVE  links' \subseteq links /\ Distinct(links')
    BY <1>1 DEF EndOfListings, _dedupe, Distinct
  <1>2. Typed' /\ FeedIsFirst' /\ DueIsAhead'
    BY <1>1, PagesAssumption, ChangesAssumption
    DEF IInv, Typed, FeedIsFirst, DueIsAhead, FailFeed, EndOfListings, NoScan
  <1>3. LinksAreDistinct'
    BY <1>1 DEF IInv, LinksAreDistinct, Distinct, FailFeed, EndOfListings
  <1> QED BY <1>2, <1>3 DEF IInv

LEMMA FetchStep ==
  ASSUME IInv,
         \/ \E asked \in SUBSET links : fetch_articles(asked)
         \/ \E l \in Link : Fetch(l)
         \/ EndOfFetches
  PROVE  IInv'
PROOF
  <1>1. /\ phase \in {"collected", "fetching"} /\ phase' # "feed" /\ phase' # "listings"
        /\ phase # "listings"
        /\ UNCHANGED <<site, scan, due>>
    BY DEF fetch_articles, Fetch, fetch_link, _fetch_article, FailFetch, Become, EndOfFetches
  <1>2. Typed' /\ LinksAreDistinct'
    <2>1. CASE \E asked \in SUBSET links : fetch_articles(asked)
      BY <2>1 DEF IInv, Typed, LinksAreDistinct, Distinct, fetch_articles, site, scan
    <2>2. CASE \E l \in Link : Fetch(l)
      BY <2>2 DEF IInv, Typed, LinksAreDistinct, Distinct, Fetch, fetch_link, _fetch_article,
                  FailFetch, Become, site, scan
    <2>3. CASE EndOfFetches
      BY <2>3 DEF IInv, Typed, LinksAreDistinct, EndOfFetches, site, scan
    <2> QED BY <2>1, <2>2, <2>3
  <1>3. FeedIsFirst'
    BY <1>1 DEF FeedIsFirst
  <1>4. DueIsAhead'
    BY <1>1 DEF IInv, DueIsAhead, Due, Unread, _looks_like_article, _same_host, site, scan
  <1> QED BY <1>2, <1>3, <1>4 DEF IInv

(* What moves to a later page stays ahead of the reader. *)
LEMMA PublishStep ==
  ASSUME IInv, NEW p \in Path, NEW l \in Link, NEW pushed \in SUBSET Link,
         Publish(p, l, pushed)
  PROVE  IInv'
PROOF
  <1> DEFINE moved == [k \in Listed |-> IF k = l THEN 1 ELSE IF k \in pushed THEN Later(place[p][k])
                                         ELSE place[p][k]]
  <1>1. /\ place' = [place EXCEPT ![p] = moved]
        /\ phase = "listings" /\ phase' = "listings"
        /\ UNCHANGED <<page, todo, exhausted, links, due, state>>
        /\ l \notin Shown(p)
    BY DEF Publish, scan
  <1>2. moved \in [Listed -> PageNumber]
    <2>1. ASSUME NEW k \in Listed
          PROVE  Later(place[p][k]) \in PageNumber /\ place[p][k] \in PageNumber
      <3>1. place[p][k] \in PageNumber
        BY DEF IInv, Typed
      <3> QED BY <3>1, PagesAssumption DEF Later, PageNumber
    <2>2. 1 \in PageNumber
      BY PagesAssumption DEF PageNumber
    <2> QED BY <2>1, <2>2
  <1>3. Typed'
    <2>1. changes' \in 0..MaxChanges
      BY ChangesAssumption DEF IInv, Typed, Publish
    <2> QED BY <1>1, <1>2, <2>1 DEF IInv, Typed
  <1>4. ASSUME NEW q \in Path, NEW k \in due[q]'
        PROVE  Due(q, k)'
    <2>1. k \in due[q] /\ Due(q, k) /\ place[q][k] \in PageNumber /\ page \in 1..MaxPages
      BY <1>1, <1>4 DEF IInv, Typed, DueIsAhead, Due
    <2>2. CASE q # p
      <3>1. place'[q] = place[q]
        BY <1>1, <2>2 DEF IInv, Typed
      <3> QED BY <1>1, <2>1, <3>1 DEF Due, Unread, _looks_like_article, _same_host
    <2>3. CASE q = p
      <3>1. k # l
        BY <1>1, <2>1, <2>3, PagesAssumption DEF Due, Shown, At, PageNumber
      <3>2. place'[p][k] = IF k \in pushed THEN Later(place[p][k]) ELSE place[p][k]
        BY <1>1, <2>1, <3>1 DEF IInv, Typed, Due
      <3>3. /\ place'[p][k] # 0
            /\ place'[p][k] = place[p][k] \/ place'[p][k] = place[p][k] + 1
        BY <3>2, <2>1, <2>3, PagesAssumption DEF Later, PageNumber, Due
      <3>4. Unread(p, place[p][k]) => Unread(p, place'[p][k])
        BY <3>3, <2>1, <2>3, PagesAssumption DEF Unread, PageNumber
      <3>5. Unread(p, place[p][k]) => Unread(p, place[p][k])'
        BY <3>4, <1>1 DEF Unread
      <3> QED BY <1>1, <2>1, <2>3, <3>3, <3>5 DEF Due, _looks_like_article, _same_host
    <2> QED BY <2>2, <2>3
  <1>5. FeedIsFirst' /\ LinksAreDistinct'
    BY <1>1 DEF IInv, FeedIsFirst, LinksAreDistinct
  <1> QED BY <1>3, <1>4, <1>5 DEF IInv, DueIsAhead

(* What a withdrawal pulls behind the reader is no longer due. *)
LEMMA WithdrawStep ==
  ASSUME IInv, NEW p \in Path, NEW l \in Link, NEW pulled \in SUBSET Link,
         Withdraw(p, l, pulled)
  PROVE  IInv'
PROOF
  <1> DEFINE moved == [k \in Listed |-> IF k = l THEN 0 ELSE IF k \in pulled THEN place[p][k] - 1
                                         ELSE place[p][k]]
             passed == {k \in pulled : Unread(p, place[p][k]) /\ ~Unread(p, place[p][k] - 1)}
  <1>1. /\ place' = [place EXCEPT ![p] = moved]
        /\ due' = [due EXCEPT ![p] = due[p] \ ({l} \cup passed)]
        /\ phase = "listings" /\ phase' = "listings"
        /\ UNCHANGED <<page, todo, exhausted, links, state>>
        /\ l \in Listed /\ place[p][l] # 0 /\ place[p][l] \in PageNumber
        /\ pulled \subseteq {k \in Listed : place[p][k] > place[p][l]}
    BY PagesAssumption DEF Withdraw, scan, Shown, At, PageNumber
  <1>2. ASSUME NEW k \in pulled
        PROVE  place[p][k] \in 2..(MaxPages + 1)
    <2>1. k \in Listed /\ place[p][k] \in PageNumber /\ place[p][k] > place[p][l]
      BY <1>1 DEF IInv, Typed
    <2> QED BY <1>1, <2>1, PagesAssumption DEF PageNumber
  <1>3. moved \in [Listed -> PageNumber]
    <2>1. ASSUME NEW k \in Listed
          PROVE  place[p][k] \in PageNumber
      BY DEF IInv, Typed
    <2>2. ASSUME NEW k \in pulled
          PROVE  place[p][k] - 1 \in PageNumber
      BY <1>2, PagesAssumption DEF PageNumber
    <2>3. 0 \in PageNumber
      BY PagesAssumption DEF PageNumber
    <2> QED BY <2>1, <2>2, <2>3
  <1>4. Typed'
    <2>1. changes' \in 0..MaxChanges
      BY ChangesAssumption DEF IInv, Typed, Withdraw
    <2> QED BY <1>1, <1>3, <2>1 DEF IInv, Typed
  <1>5. ASSUME NEW q \in Path, NEW k \in due[q]'
        PROVE  Due(q, k)'
    <2>1. k \in due[q] /\ Due(q, k) /\ place[q][k] \in PageNumber /\ page \in 1..MaxPages
      BY <1>1, <1>5 DEF IInv, Typed, DueIsAhead, Due
    <2>2. CASE q # p
      <3>1. place'[q] = place[q]
        BY <1>1, <2>2 DEF IInv, Typed
      <3> QED BY <1>1, <2>1, <3>1 DEF Due, Unread, _looks_like_article, _same_host
    <2>3. CASE q = p
      <3>1. k # l /\ k \notin passed
        BY <1>1, <1>5, <2>3 DEF IInv, Typed
      <3>2. place'[p][k] = IF k \in pulled THEN place[p][k] - 1 ELSE place[p][k]
        BY <1>1, <2>1, <3>1 DEF IInv, Typed, Due
      <3>3. place'[p][k] # 0
        BY <3>2, <1>2, <2>1, <2>3, PagesAssumption DEF Due
      <3>4. Unread(p, place[p][k]) => Unread(p, place'[p][k])
        BY <3>1, <3>2
      <3>5. Unread(p, place[p][k]) => Unread(p, place[p][k])'
        BY <3>4, <1>1 DEF Unread
      <3> QED BY <1>1, <2>1, <2>3, <3>3, <3>5 DEF Due, _looks_like_article, _same_host
    <2> QED BY <2>2, <2>3
  <1>6. FeedIsFirst' /\ LinksAreDistinct'
    BY <1>1 DEF IInv, FeedIsFirst, LinksAreDistinct
  <1> QED BY <1>4, <1>5, <1>6 DEF IInv, DueIsAhead

LEMMA NextInvariant == IInv /\ [Next]_vars => IInv'
PROOF
  <1> SUFFICES ASSUME IInv, [Next]_vars
               PROVE  IInv'
    OBVIOUS
  <1>1. CASE \E use_feed \in BOOLEAN : Collect(use_feed)
    BY <1>1, CollectStep
  <1>2. CASE Scrape
    <2>1. CASE \E entries \in SUBSET Link : _links_from_feed(entries)
      BY <2>1, FeedStep
    <2>2. CASE FailFeed \/ EndOfListings
      BY <2>2, EndStep
    <2>3. CASE \E p \in Path : ReadListing(p)
      BY <2>3, ReadListingStep
    <2>4. CASE NextPage
      BY <2>4, NextPageStep
    <2>5. CASE \/ \E asked \in SUBSET links : fetch_articles(asked)
               \/ \E l \in Link : Fetch(l)
               \/ EndOfFetches
      BY <2>5, FetchStep
    <2> QED BY <1>2, <2>1, <2>2, <2>3, <2>4, <2>5 DEF Scrape
  <1>3. CASE Change
    BY <1>3, PublishStep, WithdrawStep DEF Change
  <1>4. CASE UNCHANGED vars
    BY <1>4 DEF vars, site, scan, IInv, Typed, FeedIsFirst, DueIsAhead, Due, Unread,
                LinksAreDistinct, _looks_like_article, _same_host
  <1> QED BY <1>1, <1>2, <1>3, <1>4 DEF Next

-----------------------------------------------------------------------------
(* At most as many links are fetched at once as there are places. *)
LEMMA FetchingStays ==
  ASSUME Cardinality(Fetching) <= Places, Fetching' \subseteq Fetching
  PROVE  Cardinality(Fetching') <= Places
PROOF
  <1>1. Fetching \subseteq Link
    BY DEF Fetching
  <1>2. IsFiniteSet(Fetching)
    BY <1>1, LinkAssumption, FS_Subset
  <1>3. Cardinality(Fetching') <= Cardinality(Fetching)
    BY <1>2, FS_Subset
  <1>4. Cardinality(Fetching) \in Nat /\ Cardinality(Fetching') \in Nat
    BY <1>2, FS_Subset, FS_CardinalityType
  <1> QED BY <1>3, <1>4, PlacesAssumption

LEMMA FetchingGrows ==
  ASSUME NEW l \in Link, Cardinality(Fetching) < Places,
         Fetching' \subseteq Fetching \cup {l}
  PROVE  Cardinality(Fetching') <= Places
PROOF
  <1>1. Fetching \subseteq Link
    BY DEF Fetching
  <1>2. IsFiniteSet(Fetching) /\ Cardinality(Fetching) \in Nat
    BY <1>1, LinkAssumption, FS_Subset, FS_CardinalityType
  <1>3. /\ IsFiniteSet(Fetching \cup {l})
        /\ \/ Cardinality(Fetching \cup {l}) = Cardinality(Fetching)
           \/ Cardinality(Fetching \cup {l}) = Cardinality(Fetching) + 1
    BY <1>2, FS_AddElement
  <1> DEFINE more == Fetching \cup {l}
  <1> HIDE DEF more
  <1>4. Cardinality(Fetching') <= Cardinality(more)
    BY <1>3, FS_Subset DEF more
  <1>5. Cardinality(Fetching') \in Nat /\ Cardinality(more) \in Nat
    BY <1>3, FS_Subset, FS_CardinalityType DEF more
  <1> QED BY <1>2, <1>3, <1>4, <1>5, PlacesAssumption DEF more

LEMMA FetchingBound ==
  ASSUME IInv, Cardinality(Fetching) <= Places, [Next]_vars
  PROVE  Cardinality(Fetching') <= Places
PROOF
  <1>1. ASSUME NEW l \in Link, fetch_link(l)
        PROVE  Cardinality(Fetching') <= Places
    <2>1. Fetching' \subseteq Fetching \cup {l}
      BY <1>1 DEF fetch_link, Become, Fetching, IInv, Typed
    <2> QED BY <1>1, <2>1, FetchingGrows DEF fetch_link
  <1>2. CASE \A l \in Link : ~fetch_link(l)
    <2>1. Fetching' \subseteq Fetching
      <3>1. CASE UNCHANGED state
        BY <3>1 DEF Fetching
      <3>2. CASE \E l \in Link : _fetch_article(l) \/ FailFetch(l)
        BY <3>2 DEF _fetch_article, FailFetch, Become, Fetching, IInv, Typed
      <3>3. CASE EndOfFetches \/ \E asked \in SUBSET links : fetch_articles(asked)
        BY <3>3 DEF EndOfFetches, fetch_articles, Fetching
      <3>4. UNCHANGED state \/ (\E l \in Link : _fetch_article(l) \/ FailFetch(l))
              \/ EndOfFetches \/ (\E asked \in SUBSET links : fetch_articles(asked))
        BY <1>2 DEF Next, vars, Collect, Scrape, Change, _links_from_feed, FailFeed, ReadListing,
                    ReadPage, FailPage, EndOfPath, SkipExhausted, NextPage, EndOfListings,
                    Fetch, Publish, Withdraw
      <3> QED BY <3>1, <3>2, <3>3, <3>4
    <2> QED BY <2>1, FetchingStays
  <1> QED BY <1>1, <1>2

-----------------------------------------------------------------------------
(* The inductive invariant of the reader and of the links it has found. *)
THEOREM CollectionInvariant == Spec => []IInv
PROOF
  BY InitInvariant, NextInvariant, PTL DEF Spec

(* A collection stays well-typed, and the semaphore of the fetches holds. *)
THEOREM TypeCorrect == Spec => []TypeOK
PROOF
  <1> DEFINE Bounded == Cardinality(Fetching) <= Places
  <1>1. Init => Bounded
    <2>1. Init => Fetching = {}
      BY DEF Init, Fetching
    <2>2. Cardinality({}) = 0
      BY FS_EmptySet
    <2> QED BY <2>1, <2>2, PlacesAssumption
  <1>2. IInv /\ Bounded => TypeOK
    BY DEF IInv, Typed, TypeOK
  <1>3. IInv /\ Bounded /\ [Next]_vars => Bounded'
    BY FetchingBound
  <1> HIDE DEF Bounded
  <1> QED BY <1>1, <1>2, <1>3, CollectionInvariant, PTL DEF Spec

(* A collection misses an article only if the page it was on failed, or if *)
(* a withdrawal pulled it behind the reader: for any number of paths and   *)
(* pages, and however the site changes.                                    *)
THEOREM MissesForCauseOnly == Spec => MissedForCause
PROOF
  <1> DEFINE Complete ==
        \A p \in Path : \A l \in due[p] :
          place[p][l] <= MaxPages /\ _looks_like_article(l) =>
            \E k \in links' : Fold[k] = Fold[l]
  <1>1. IInv /\ [Next]_vars => [EndOfListings => Complete]_vars
    <2> SUFFICES ASSUME IInv, EndOfListings,
                        NEW p \in Path, NEW l \in due[p],
                        place[p][l] <= MaxPages, _looks_like_article(l)
                 PROVE  \E k \in links' : Fold[k] = Fold[l]
      OBVIOUS
    <2>1. place[p][l] \in PageNumber /\ Due(p, l)
      BY DEF IInv, Typed, DueIsAhead, Due
    <2>2. ~Unread(p, place[p][l])
      BY <2>1, PagesAssumption DEF EndOfListings, Unread, PageNumber
    <2>3. l \in {k \in links : _same_host(k)}
      BY <2>1, <2>2 DEF Due, _looks_like_article
    <2> QED BY <2>3 DEF EndOfListings, _dedupe
  <1> QED BY <1>1, CollectionInvariant, PTL DEF Spec, MissedForCause

(* No article is fetched twice, and none from another host. *)
THEOREM FetchesEachOnce == Spec => []OneFetchPerArticle
PROOF
  <1>1. IInv => OneFetchPerArticle
    BY DEF IInv, LinksAreDistinct, Distinct, OneFetchPerArticle
  <1> QED BY <1>1, CollectionInvariant, PTL

-----------------------------------------------------------------------------
(* What EveryCollectionEnds does not need fairness for. *)

PhaseRank(f) ==
  CASE f = "feed" -> 1 [] f = "listings" -> 2 [] f = "collected" -> 3
    [] f = "fetching" -> 4 [] f = "idle" -> 5

FetchRank(s) ==
  CASE s = "none" -> 0 [] s = "waiting" -> 1 [] s = "fetching" -> 2
    [] s \in {"article", "skipped", "failed"} -> 3

ReaderAdvances ==
  /\ phase' = phase
  /\ \/ page' > page
     \/ page' = page /\ todo' \subseteq todo /\ todo' # todo

FetchAdvances(l) ==
  /\ phase' = phase
  /\ FetchRank(state'[l]) > FetchRank(state[l])
  /\ \A k \in Link \ {l} : state'[k] = state[k]

(* Every step of a running collection brings it to a later phase, its      *)
(* reader to a later page or to fewer paths of the same page, or one       *)
(* fetch, and only that one, to a later state.  What the site does takes   *)
(* none of them back.                                                      *)
CollectionAdvances ==
  [][phase # "idle" =>
       \/ PhaseRank(phase') > PhaseRank(phase)
       \/ ReaderAdvances
       \/ \E l \in Link : FetchAdvances(l)]_<<phase, page, todo, state>>

LEMMA ReadingAdvances ==
  ASSUME IInv, NEW p \in Path, ReadListing(p)
  PROVE  ReaderAdvances
PROOF
  <1>1. p \in todo /\ todo' = todo \ {p} /\ UNCHANGED <<phase, page>>
    BY DEF ReadListing, ReadPage, FailPage, EndOfPath, SkipExhausted, Reading
  <1>2. todo' \subseteq todo /\ todo' # todo
    BY <1>1
  <1> QED BY <1>1, <1>2 DEF ReaderAdvances

LEMMA FetchingAdvances ==
  ASSUME IInv, NEW l \in Link, Fetch(l)
  PROVE  FetchAdvances(l)
PROOF
  <1>1. PICK from \in {"waiting", "fetching"}, to \in {"fetching", "article", "skipped", "failed"} :
          Become(l, from, to) /\ FetchRank(to) > FetchRank(from)
    BY DEF Fetch, fetch_link, _fetch_article, FailFetch, FetchRank
  <1> QED BY <1>1 DEF Become, FetchAdvances, IInv, Typed

(* A collection never goes back: with finitely many pages, paths and links *)
(* it ends after finitely many steps of the scraper, whatever the site     *)
(* does.                                                                   *)
THEOREM CollectionsAdvance == Spec => CollectionAdvances
PROOF
  <1> DEFINE Forward == \/ PhaseRank(phase') > PhaseRank(phase)
                        \/ ReaderAdvances
                        \/ \E l \in Link : FetchAdvances(l)
  <1>1. ASSUME IInv, [Next]_vars, phase # "idle", ~UNCHANGED <<phase, page, todo, state>>
        PROVE  Forward
    <2>1. CASE \E p \in Path : ReadListing(p)
      BY <1>1, <2>1, ReadingAdvances
    <2>2. CASE \E l \in Link : Fetch(l)
      BY <1>1, <2>2, FetchingAdvances
    <2>3. CASE NextPage
      BY <1>1, <2>3 DEF NextPage, ReaderAdvances, IInv, Typed
    <2>4. CASE \/ \E entries \in SUBSET Link : _links_from_feed(entries)
               \/ FailFeed \/ EndOfListings
               \/ \E asked \in SUBSET links : fetch_articles(asked)
               \/ EndOfFetches
      BY <2>4 DEF _links_from_feed, FailFeed, EndOfListings, fetch_articles, EndOfFetches, PhaseRank
    <2>5. ~(\E use_feed \in BOOLEAN : Collect(use_feed)) /\ ~Change /\ ~UNCHANGED vars
      BY <1>1 DEF Collect, Change, Publish, Withdraw, vars, scan
    <2> QED BY <1>1, <2>1, <2>2, <2>3, <2>4, <2>5 DEF Next, Scrape
  <1>2. IInv /\ [Next]_vars => [phase # "idle" => Forward]_<<phase, page, todo, state>>
    BY <1>1
  <1> QED BY <1>2, CollectionInvariant, PTL DEF Spec, CollectionAdvances
=============================================================================
