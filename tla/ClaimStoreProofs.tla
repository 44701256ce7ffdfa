-------------------------- MODULE ClaimStoreProofs --------------------------
(***************************************************************************)
(* Proofs about ClaimStore, and about EntityMerge, which extends it, for   *)
(* any entities, articles and mentions.                                    *)
(*                                                                         *)
(* The invariants the runs check are not inductive one by one: a claim     *)
(* that re-enters the graph must come in clean, the queue has to be known  *)
(* to carry its reasons before a re-assertion strips some of them, and     *)
(* only a reviewer can have moved a claim out of the two states the        *)
(* ingest writes.  ClaimInv adds exactly these, and is what merges         *)
(* preserve as well; of a store without merges it is known, besides, that  *)
(* reasons about lost support are current.                                 *)
(***************************************************************************)
EXTENDS EntityMerge, FiniteSetTheorems, WellFoundedInduction, TLAPS

(* A claim the graph does not hold has the values a new one starts with. *)
AbsentIsClean ==
  \A c \in Claim \ present :
    /\ active_article_urls[c] = {}
    /\ lifecycle_status[c] = "supported"
    /\ review_status[c] = "unreviewed"
    /\ review_reasons[c] = {}

(* Decisions come from reviewers only. *)
UndecidedUntilReviewed ==
  \A c \in Claim \ reviewed : review_status[c] \in {"unreviewed", "needs_review"}

ClaimInv ==
  /\ TypeOK
  /\ AbsentIsClean
  /\ UndecidedUntilReviewed
  /\ LifecycleMatchesSupport
  /\ QueuedHasReason
  /\ LostSupportIsQueued
  /\ LiveConflictIsQueued

IInv == ClaimInv /\ SupportReasonIsCurrent

-----------------------------------------------------------------------------
(* The conflict queries: which claims contradict a given one, and what the *)
(* queries write on it.                                                    *)

LEMMA ConflictsOfFacts ==
  ASSUME NEW live, NEW c
  PROVE  /\ ConflictsOf(c, live) \subseteq ConflictReason
         /\ c \notin live => ConflictsOf(c, live) = {}
         /\ \A d \in live : c \in live /\ Inverted(c, d) =>
              "inverse_direction" \in ConflictsOf(c, live)
         /\ \A d \in live : c \in live /\ Competing(c, d) =>
              "competing_transaction_type" \in ConflictsOf(c, live)
  BY DEF ConflictsOf, ConflictReason

(* The flags never reach a claim that is not live, and a live claim stays  *)
(* live: the queries leave the set they read as it is.                     *)
LEMMA FlagsKeepLive ==
  ASSUME NEW claims \in SUBSET Claim, NEW lifecycle, NEW review,
         NEW live, live \subseteq Live(claims, lifecycle, review)
  PROVE  Live(claims, lifecycle, FlaggedStatus(review, live)) = Live(claims, lifecycle, review)
PROOF
  <1> SUFFICES ASSUME NEW c \in claims, lifecycle[c] = "supported"
               PROVE  FlaggedStatus(review, live)[c] # "rejected" <=> review[c] # "rejected"
    BY DEF Live
  <1>1. FlaggedStatus(review, live)[c] =
          IF ConflictsOf(c, live) # {} THEN "needs_review" ELSE review[c]
    BY DEF FlaggedStatus
  <1>2. CASE c \in live
    BY <1>1, <1>2 DEF Live
  <1>3. CASE c \notin live
    <2>1. ConflictsOf(c, live) = {}
      BY <1>3 DEF ConflictsOf
    <2> QED BY <1>1, <2>1
  <1> QED BY <1>2, <1>3

LEMMA InverseIsOther ==
  ASSUME NEW c \in Claim, NEW d \in Claim, Inverted(c, d)
  PROVE  Inverted(d, c)
  BY DEF Claim, Inverted, InverseOf

LEMMA AssertableIsClaim == Assertable \subseteq Claim
  BY MentionAssumption DEF Assertable, Claim, claim_endpoint_ids

-----------------------------------------------------------------------------
(* One article's transaction, claim by claim.                              *)

LEMMA IngestFacts ==
  ASSUME NEW a \in Article, NEW emitted \in SUBSET Claim, NEW c \in Claim,
         IngestArticle(a, emitted)
  PROVE  /\ c \in emitted => active_article_urls'[c] = active_article_urls[c] \cup {a}
         /\ c \notin emitted => active_article_urls'[c] = active_article_urls[c] \ {a}
         /\ lifecycle_status'[c] = LifecycleAfter(a, emitted)[c]
         /\ ConflictsOf(c, LiveAfter(a, emitted)) = {} =>
              /\ review_status'[c] = StatusAfter(a, emitted)[c]
              /\ review_reasons'[c] = ReasonsAfter(a, emitted)[c]
         /\ ConflictsOf(c, LiveAfter(a, emitted)) # {} =>
              /\ c \in LiveAfter(a, emitted)
              /\ review_status'[c] = "needs_review"
              /\ review_reasons'[c] =
                   ReasonsAfter(a, emitted)[c] \cup ConflictsOf(c, LiveAfter(a, emitted))
PROOF
  <1>1. active_article_urls'[c] = ActiveAfter(a, emitted)[c]
    BY DEF IngestArticle
  <1>2. lifecycle_status'[c] = LifecycleAfter(a, emitted)[c]
    BY DEF IngestArticle
  <1>3. review_status'[c] = FlaggedStatus(StatusAfter(a, emitted), LiveAfter(a, emitted))[c]
    BY DEF IngestArticle
  <1>4. review_reasons'[c] = FlaggedReasons(ReasonsAfter(a, emitted), LiveAfter(a, emitted))[c]
    BY DEF IngestArticle
  <1>5. ConflictsOf(c, LiveAfter(a, emitted)) # {} => c \in LiveAfter(a, emitted)
    BY DEF ConflictsOf
  <1>6. review_status'[c] =
          IF ConflictsOf(c, LiveAfter(a, emitted)) # {} THEN "needs_review"
          ELSE StatusAfter(a, emitted)[c]
    BY <1>3 DEF FlaggedStatus
  <1>7. review_reasons'[c] =
          ReasonsAfter(a, emitted)[c] \cup ConflictsOf(c, LiveAfter(a, emitted))
    BY <1>4 DEF FlaggedReasons
  <1>8. ActiveAfter(a, emitted)[c] =
          IF c \in emitted THEN active_article_urls[c] \cup {a}
                           ELSE active_article_urls[c] \ {a}
    BY DEF ActiveAfter
  <1> QED BY <1>1, <1>2, <1>5, <1>6, <1>7, <1>8

LEMMA AfterFacts ==
  ASSUME NEW a \in Article, NEW emitted \in SUBSET Claim, NEW c \in Claim
  PROVE  /\ c \in emitted =>
              /\ LifecycleAfter(a, emitted)[c] = "supported"
              /\ StatusAfter(a, emitted)[c] = ReassertedStatus(c)
              /\ ReasonsAfter(a, emitted)[c] = review_reasons[c] \ SupportReason
         /\ c \notin emitted /\ active_article_urls[c] = {a} =>
              /\ LifecycleAfter(a, emitted)[c] = Unsupported
              /\ StatusAfter(a, emitted)[c] =
                   IF review_status[c] = "rejected" THEN "rejected" ELSE "needs_review"
              /\ ReasonsAfter(a, emitted)[c] = review_reasons[c] \cup {LossReason(emitted, c)}
         /\ c \notin emitted /\ active_article_urls[c] # {a} =>
              /\ LifecycleAfter(a, emitted)[c] =
                   IF a \in active_article_urls[c] THEN "supported" ELSE lifecycle_status[c]
              /\ StatusAfter(a, emitted)[c] = review_status[c]
              /\ ReasonsAfter(a, emitted)[c] = review_reasons[c]
  BY DEF LifecycleAfter, StatusAfter, ReasonsAfter, LosesLastSupport, Lost

LEMMA LossReasonIsSupportReason ==
  ASSUME NEW emitted, NEW c
  PROVE  LossReason(emitted, c) \in SupportReason
  BY DEF LossReason, SupportReason

LEMMA ReassertedFacts ==
  ASSUME TypeOK, NEW c \in Claim
  PROVE  /\ ReassertedStatus(c) \in ReviewStatus
         /\ ReassertedStatus(c) = "rejected" <=> review_status[c] = "rejected"
         /\ review_status[c] \in {"unreviewed", "needs_review"} =>
              ReassertedStatus(c) \in {"unreviewed", "needs_review"}
         /\ ReassertedStatus(c) = "needs_review" =>
              review_reasons[c] \ SupportReason # {}
  BY DEF ReassertedStatus, TypeOK, ReviewStatus, Decision

(* The claims the conflict queries of a transaction look at are those that *)
(* are live when it commits; a transaction that asserts nothing makes no   *)
(* claim live.                                                             *)
LEMMA IngestLive ==
  ASSUME TypeOK, AbsentIsClean, LifecycleMatchesSupport,
         NEW a \in Article, NEW emitted \in SUBSET Claim, IngestArticle(a, emitted)
  PROVE  LET before == Live(present, lifecycle_status, review_status)
             after == Live(present', lifecycle_status', review_status')
         IN  IF emitted = {} THEN after \subseteq before
                             ELSE LiveAfter(a, emitted) = after
PROOF
  <1> DEFINE flagged == LiveAfter(a, emitted)
             review == StatusAfter(a, emitted)
             lifecycle == LifecycleAfter(a, emitted)
  <1>1. /\ present' = present \cup emitted
        /\ lifecycle_status' = lifecycle
        /\ review_status' = FlaggedStatus(review, flagged)
    BY DEF IngestArticle
  <1>2. present \cup emitted \in SUBSET Claim
    BY DEF TypeOK
  <1>3. flagged \subseteq Live(present \cup emitted, lifecycle, review)
    BY DEF LiveAfter
  <1>4. Live(present', lifecycle_status', review_status')
          = Live(present \cup emitted, lifecycle, review)
    <2> HIDE DEF flagged, review, lifecycle
    <2> QED BY <1>1, <1>2, <1>3, FlagsKeepLive
  <1>5. CASE emitted = {}
    <2> SUFFICES ASSUME NEW c \in Live(present, lifecycle, review)
                 PROVE  c \in Live(present, lifecycle_status, review_status)
      BY <1>4, <1>5
    <2>1. c \in present /\ c \in Claim /\ c \notin emitted
      BY <1>2, <1>5 DEF Live
    <2>2. lifecycle[c] = "supported" /\ review[c] # "rejected"
      BY DEF Live
    <2>3. active_article_urls[c] # {a}
      BY <2>1, <2>2, AfterFacts DEF Unsupported
    <2>4. /\ review_status[c] = review[c]
          /\ \/ a \in active_article_urls[c]
             \/ lifecycle_status[c] = lifecycle[c]
      BY <2>1, <2>3, AfterFacts
    <2>5. lifecycle_status[c] = "supported"
      BY <2>1, <2>2, <2>4 DEF LifecycleMatchesSupport
    <2> QED BY <2>1, <2>2, <2>4, <2>5 DEF Live
  <1>6. CASE emitted # {}
    BY <1>4, <1>6 DEF LiveAfter
  <1> QED BY <1>5, <1>6

LEMMA IngestPreserves ==
  ASSUME ClaimInv, NEW a \in Article, NEW emitted \in SUBSET Claim, IngestArticle(a, emitted)
  PROVE  ClaimInv'
PROOF
  <1> DEFINE flagged == LiveAfter(a, emitted)
  <1> USE DEF ClaimInv
  <1>1. present' = present \cup emitted /\ reviewed' = reviewed
    BY DEF IngestArticle
  <1>2. TypeOK'
    <2>1. active_article_urls' \in [Claim -> SUBSET Article]
      BY DEF TypeOK, IngestArticle, ActiveAfter
    <2>2. lifecycle_status' \in [Claim -> {"supported", Unsupported}]
      BY DEF TypeOK, IngestArticle, LifecycleAfter
    <2>3. review_status' \in [Claim -> ReviewStatus]
      <3>1. \A c \in Claim : StatusAfter(a, emitted)[c] \in ReviewStatus
        BY AfterFacts, ReassertedFacts DEF TypeOK, ReviewStatus, Decision
      <3> QED BY <3>1 DEF IngestArticle, FlaggedStatus, ReviewStatus
    <2>4. review_reasons' \in [Claim -> SUBSET Reason]
      <3>1. \A c \in Claim : ReasonsAfter(a, emitted)[c] \subseteq Reason
        BY AfterFacts, LossReasonIsSupportReason DEF TypeOK, Reason
      <3>2. \A c \in Claim : ConflictsOf(c, flagged) \subseteq Reason
        BY ConflictsOfFacts DEF Reason
      <3> HIDE DEF flagged
      <3> QED BY <3>1, <3>2 DEF IngestArticle, FlaggedReasons, flagged
    <2> QED BY <1>1, <2>1, <2>2, <2>3, <2>4 DEF TypeOK
  <1>3. ASSUME NEW c \in Claim
        PROVE  /\ c \in emitted => active_article_urls'[c] = active_article_urls[c] \cup {a}
               /\ c \notin emitted => active_article_urls'[c] = active_article_urls[c] \ {a}
               /\ lifecycle_status'[c] = LifecycleAfter(a, emitted)[c]
    BY IngestFacts
  <1>4. ASSUME NEW c \in Claim
        PROVE  /\ ConflictsOf(c, flagged) = {} =>
                    /\ review_status'[c] = StatusAfter(a, emitted)[c]
                    /\ review_reasons'[c] = ReasonsAfter(a, emitted)[c]
               /\ ConflictsOf(c, flagged) # {} =>
                    /\ c \in flagged
                    /\ review_status'[c] = "needs_review"
                    /\ review_reasons'[c] =
                         ReasonsAfter(a, emitted)[c] \cup ConflictsOf(c, flagged)
    BY IngestFacts
  <1>5. \A c \in flagged : c \in Claim /\ c \in present' /\ lifecycle_status'[c] = "supported"
    BY <1>1, <1>3 DEF LiveAfter, Live, TypeOK
  <1> HIDE DEF flagged
  <1>6. AbsentIsClean'
    <2> SUFFICES ASSUME NEW c \in Claim, c \notin present'
                 PROVE  /\ active_article_urls'[c] = {}
                        /\ lifecycle_status'[c] = "supported"
                        /\ review_status'[c] = "unreviewed"
                        /\ review_reasons'[c] = {}
      BY DEF AbsentIsClean
    <2>1. c \notin present /\ c \notin emitted /\ c \notin flagged
      BY <1>1, <1>5
    <2>2. /\ active_article_urls[c] = {}
          /\ lifecycle_status[c] = "supported"
          /\ review_status[c] = "unreviewed"
          /\ review_reasons[c] = {}
      BY <2>1 DEF AbsentIsClean
    <2>3. ConflictsOf(c, flagged) = {}
      BY <2>1, <1>4
    <2> QED BY <2>1, <2>2, <2>3, <1>3, <1>4, AfterFacts
  <1>7. UndecidedUntilReviewed'
    <2> SUFFICES ASSUME NEW c \in Claim, c \notin reviewed
                 PROVE  review_status'[c] \in {"unreviewed", "needs_review"}
      BY <1>1 DEF UndecidedUntilReviewed
    <2>1. review_status[c] \in {"unreviewed", "needs_review"}
      BY DEF UndecidedUntilReviewed
    <2>2. StatusAfter(a, emitted)[c] \in {"unreviewed", "needs_review"}
      BY <2>1, AfterFacts, ReassertedFacts
    <2> QED BY <2>2, <1>4
  <1>8. LifecycleMatchesSupport'
    <2> SUFFICES ASSUME NEW c \in present'
                 PROVE  lifecycle_status'[c] = "supported" <=> active_article_urls'[c] # {}
      BY DEF LifecycleMatchesSupport
    <2>1. c \in Claim
      BY <1>1 DEF TypeOK
    <2>2. CASE c \in emitted
      BY <2>1, <2>2, <1>3, AfterFacts
    <2>3. CASE c \notin emitted
      <3>1. lifecycle_status[c] = "supported" <=> active_article_urls[c] # {}
        BY <1>1, <2>3 DEF LifecycleMatchesSupport
      <3>2. active_article_urls'[c] = {} <=> active_article_urls[c] \in {{}, {a}}
        BY <2>1, <2>3, <1>3
      <3> QED BY <2>1, <2>3, <3>1, <3>2, <1>3, AfterFacts DEF Unsupported
    <2> QED BY <2>2, <2>3
  <1>9. QueuedHasReason'
    <2> SUFFICES ASSUME NEW c \in present', review_status'[c] = "needs_review"
                 PROVE  review_reasons'[c] # {}
      BY DEF QueuedHasReason
    <2>1. c \in Claim
      BY <1>1 DEF TypeOK
    <2>2. CASE ConflictsOf(c, flagged) # {}
      BY <2>1, <2>2, <1>4
    <2>3. CASE ConflictsOf(c, flagged) = {}
      <3>1. /\ StatusAfter(a, emitted)[c] = "needs_review"
            /\ review_reasons'[c] = ReasonsAfter(a, emitted)[c]
        BY <2>1, <2>3, <1>4
      <3>2. CASE c \in emitted
        BY <2>1, <3>1, <3>2, AfterFacts, ReassertedFacts
      <3>3. CASE c \notin emitted /\ active_article_urls[c] = {a}
        BY <2>1, <3>1, <3>3, AfterFacts
      <3>4. CASE c \notin emitted /\ active_article_urls[c] # {a}
        BY <2>1, <3>1, <3>4, <1>1, AfterFacts DEF QueuedHasReason
      <3> QED BY <3>2, <3>3, <3>4
    <2> QED BY <2>2, <2>3
  <1>10. LostSupportIsQueued'
    <2> SUFFICES ASSUME NEW c \in present', active_article_urls'[c] = {}, c \notin reviewed
                 PROVE  /\ review_status'[c] = "needs_review"
                        /\ review_reasons'[c] \cap SupportReason # {}
      BY <1>1 DEF LostSupportIsQueued
    <2>1. c \in Claim
      BY <1>1 DEF TypeOK
    <2>2. c \notin emitted /\ c \in present /\ active_article_urls[c] \in {{}, {a}}
      BY <2>1, <1>1, <1>3
    <2>3. /\ StatusAfter(a, emitted)[c] = "needs_review"
          /\ ReasonsAfter(a, emitted)[c] \cap SupportReason # {}
      <3>1. CASE active_article_urls[c] = {a}
        BY <2>1, <2>2, <3>1, AfterFacts, LossReasonIsSupportReason DEF UndecidedUntilReviewed
      <3>2. CASE active_article_urls[c] = {}
        BY <2>1, <2>2, <3>2, AfterFacts DEF LostSupportIsQueued
      <3> QED BY <2>2, <3>1, <3>2
    <2> QED BY <2>1, <2>3, <1>4
  <1>11. LiveConflictIsQueued'
    <2> DEFINE live == Live(present, lifecycle_status, review_status)
    <2> SUFFICES ASSUME NEW c \in live', NEW d \in live',
                        c \notin reviewed, d \notin reviewed
                 PROVE  /\ Inverted(c, d) =>
                             /\ review_status'[c] = "needs_review"
                             /\ "inverse_direction" \in review_reasons'[c]
                        /\ Competing(c, d) =>
                             /\ review_status'[c] = "needs_review"
                             /\ "competing_transaction_type" \in review_reasons'[c]
      BY <1>1 DEF LiveConflictIsQueued
    <2>1. c \in Claim /\ c \in present' /\ lifecycle_status'[c] = "supported"
      BY <1>1 DEF Live, TypeOK
    <2>2. CASE emitted # {}
      <3>1. flagged = live'
        BY <2>2, IngestLive DEF flagged
      <3> QED BY <2>1, <3>1, <1>4, ConflictsOfFacts
    <2>3. CASE emitted = {}
      <3>1. c \in live /\ d \in live
        BY <2>3, IngestLive
      <3>2. active_article_urls[c] # {a}
        BY <2>1, <2>3, <1>3, AfterFacts DEF Unsupported
      <3>3. flagged = {}
        BY <2>3 DEF flagged, LiveAfter
      <3>4. review_status'[c] = review_status[c] /\ review_reasons'[c] = review_reasons[c]
        BY <2>1, <2>3, <3>2, <3>3, <1>4, AfterFacts
      <3> QED BY <3>1, <3>4 DEF LiveConflictIsQueued
    <2> QED BY <2>2, <2>3
  <1> QED BY <1>2, <1>6, <1>7, <1>8, <1>9, <1>10, <1>11

(* Without merges, a claim that has a source never says that it lost it.   *)
LEMMA IngestKeepsReasons ==
  ASSUME IInv, NEW a \in Article, NEW emitted \in SUBSET Claim, IngestArticle(a, emitted)
  PROVE  SupportReasonIsCurrent'
PROOF
  <1> DEFINE flagged == LiveAfter(a, emitted)
  <1> USE DEF IInv, ClaimInv
  <1> SUFFICES ASSUME NEW c \in present', active_article_urls'[c] # {}
               PROVE  review_reasons'[c] \cap SupportReason = {}
    BY DEF SupportReasonIsCurrent
  <1>1. c \in Claim /\ present' = present \cup emitted
    BY DEF IngestArticle, TypeOK
  <1>2. ReasonsAfter(a, emitted)[c] \cap SupportReason = {}
    <2>1. CASE c \in emitted
      BY <1>1, <2>1, AfterFacts
    <2>2. CASE c \notin emitted
      <3>1. active_article_urls[c] # {a} /\ active_article_urls[c] # {} /\ c \in present
        BY <1>1, <2>2, IngestFacts
      <3> QED BY <1>1, <2>2, <3>1, AfterFacts DEF SupportReasonIsCurrent
    <2> QED BY <2>1, <2>2
  <1>3. ConflictsOf(c, flagged) \cap SupportReason = {}
    BY ConflictsOfFacts DEF ConflictReason, SupportReason
  <1> QED BY <1>1, <1>2, <1>3, IngestFacts

-----------------------------------------------------------------------------
(* The other operations.                                                   *)

LEMMA ReviewPreserves ==
  ASSUME ClaimInv, NEW c \in Claim, NEW decision \in Decision, review_claim(c, decision)
  PROVE  ClaimInv' /\ (SupportReasonIsCurrent => SupportReasonIsCurrent')
PROOF
  <1> USE DEF ClaimInv
  <1>1. /\ c \in present
        /\ UNCHANGED <<present, active_article_urls, lifecycle_status>>
        /\ reviewed' = reviewed \cup {c}
    BY DEF review_claim
  <1>2. /\ review_status'[c] = decision
        /\ review_reasons'[c] = IF decision \in {"accepted", "rejected"} THEN {}
                                ELSE review_reasons[c]
        /\ \A d \in Claim \ {c} : /\ review_status'[d] = review_status[d]
                                 /\ review_reasons'[d] = review_reasons[d]
    BY DEF review_claim, TypeOK
  <1>3. TypeOK'
    BY DEF review_claim, TypeOK, ReviewStatus
  <1>4. present \subseteq Claim
    BY DEF TypeOK
  <1>5. AbsentIsClean'
    BY <1>1, <1>2 DEF AbsentIsClean
  <1>6. UndecidedUntilReviewed'
    BY <1>1, <1>2 DEF UndecidedUntilReviewed
  <1>7. LifecycleMatchesSupport'
    BY <1>1 DEF LifecycleMatchesSupport
  <1>8. QueuedHasReason'
    BY <1>1, <1>2, <1>4 DEF QueuedHasReason, Decision
  <1>9. SupportReasonIsCurrent => SupportReasonIsCurrent'
    BY <1>1, <1>2, <1>4 DEF SupportReasonIsCurrent
  <1>10. LostSupportIsQueued'
    BY <1>1, <1>2, <1>4 DEF LostSupportIsQueued
  <1>11. LiveConflictIsQueued'
    <2> DEFINE live == Live(present, lifecycle_status, review_status)
    <2>1. \A d \in live' \ reviewed' : d \in live \ reviewed /\ d \in Claim \ {c}
      BY <1>1, <1>2, <1>4 DEF Live
    <2> QED BY <2>1, <1>1, <1>2 DEF LiveConflictIsQueued
  <1> QED BY <1>3, <1>5, <1>6, <1>7, <1>8, <1>9, <1>10, <1>11

(* One of the two queries, claim by claim. *)
LEMMA RefreshFacts ==
  ASSUME NEW reason \in ConflictReason, NEW c \in Claim, NEW live,
         live = Live(present, lifecycle_status, review_status),
         refresh_claim_conflicts(reason)
  PROVE  \/ /\ review_status'[c] = review_status[c]
            /\ review_reasons'[c] = review_reasons[c]
         \/ /\ c \in live
            /\ ConflictsOf(c, live) # {}
            /\ review_status'[c] = "needs_review"
            /\ review_reasons'[c] = review_reasons[c] \cup {reason}
PROOF
  <1>1. reason \in ConflictsOf(c, live) => c \in live
    BY DEF ConflictsOf
  <1> QED BY <1>1 DEF refresh_claim_conflicts

LEMMA RefreshPreserves ==
  ASSUME ClaimInv, NEW reason \in ConflictReason, refresh_claim_conflicts(reason)
  PROVE  ClaimInv' /\ (SupportReasonIsCurrent => SupportReasonIsCurrent')
PROOF
  <1> USE DEF ClaimInv
  <1> DEFINE live == Live(present, lifecycle_status, review_status)
  <1>1. UNCHANGED <<present, active_article_urls, lifecycle_status, reviewed>>
    BY DEF refresh_claim_conflicts
  <1>2. ASSUME NEW c \in Claim
        PROVE  \/ /\ review_status'[c] = review_status[c]
                  /\ review_reasons'[c] = review_reasons[c]
               \/ /\ c \in live
                  /\ review_status'[c] = "needs_review"
                  /\ review_reasons'[c] = review_reasons[c] \cup {reason}
    BY RefreshFacts
  <1>3. live \subseteq present /\ present \subseteq Claim
    BY DEF Live, TypeOK
  <1>4. live' = live
    BY <1>1, <1>2, <1>3 DEF Live
  <1>5. reason \in Reason /\ reason \notin SupportReason
    BY DEF Reason, ConflictReason, SupportReason
  <1>6. TypeOK'
    <2>1. review_status' \in [Claim -> ReviewStatus]
      BY DEF refresh_claim_conflicts, TypeOK, ReviewStatus
    <2>2. review_reasons' \in [Claim -> SUBSET Reason]
      BY <1>5 DEF refresh_claim_conflicts, TypeOK
    <2> QED BY <1>1, <2>1, <2>2 DEF TypeOK
  <1> HIDE DEF live
  <1>7. AbsentIsClean'
    BY <1>1, <1>2, <1>3 DEF AbsentIsClean
  <1>8. UndecidedUntilReviewed'
    BY <1>1, <1>2 DEF UndecidedUntilReviewed
  <1>9. LifecycleMatchesSupport'
    BY <1>1 DEF LifecycleMatchesSupport
  <1>10. QueuedHasReason'
    BY <1>1, <1>2, <1>3 DEF QueuedHasReason
  <1>11. SupportReasonIsCurrent => SupportReasonIsCurrent'
    BY <1>1, <1>2, <1>3, <1>5 DEF SupportReasonIsCurrent
  <1>12. LostSupportIsQueued'
    BY <1>1, <1>2, <1>3 DEF LostSupportIsQueued
  <1>13. LiveConflictIsQueued'
    <2> SUFFICES ASSUME NEW c \in live, NEW d \in live,
                        c \notin reviewed, d \notin reviewed
                 PROVE  /\ Inverted(c, d) =>
                             /\ review_status'[c] = "needs_review"
                             /\ "inverse_direction" \in review_reasons'[c]
                        /\ Competing(c, d) =>
                             /\ review_status'[c] = "needs_review"
                             /\ "competing_transaction_type" \in review_reasons'[c]
      BY <1>1, <1>4 DEF LiveConflictIsQueued, live
    <2>1. c \in Claim
      BY <1>3
    <2>2. /\ Inverted(c, d) => /\ review_status[c] = "needs_review"
                               /\ "inverse_direction" \in review_reasons[c]
          /\ Competing(c, d) => /\ review_status[c] = "needs_review"
                                /\ "competing_transaction_type" \in review_reasons[c]
      BY DEF LiveConflictIsQueued, live
    <2> QED BY <2>1, <2>2, <1>2
  <1> QED BY <1>6, <1>7, <1>8, <1>9, <1>10, <1>11, <1>12, <1>13

LEMMA ClearPreserves ==
  ASSUME clear_all
  PROVE  IInv'
  BY DEF clear_all, IInv, ClaimInv, TypeOK, AbsentIsClean, UndecidedUntilReviewed,
         LifecycleMatchesSupport, QueuedHasReason, SupportReasonIsCurrent,
         LostSupportIsQueued, LiveConflictIsQueued, Live, ReviewStatus, Decision

LEMMA InitEstablishes ==
  ASSUME Init
  PROVE  IInv
PROOF
  <1>1. PICK support \in [Assertable -> SUBSET Article] :
          LET old == {c \in Assertable : support[c] # {}}
              lifecycle == [c \in Claim |-> "supported"]
              review == [c \in Claim |-> "unreviewed"]
              live == Live(old, lifecycle, review)
          IN /\ present = old
             /\ active_article_urls = [c \in Claim |-> IF c \in old THEN support[c] ELSE {}]
             /\ lifecycle_status = lifecycle
             /\ review_status = FlaggedStatus(review, live)
             /\ review_reasons = FlaggedReasons([c \in Claim |-> {}], live)
             /\ reviewed = {}
    BY DEF Init
  <1> DEFINE review == [c \in Claim |-> "unreviewed"]
             flagged == Live(present, lifecycle_status, review)
             live == Live(present, lifecycle_status, review_status)
  <1>2. /\ present = {c \in Claim : active_article_urls[c] # {}}
        /\ active_article_urls \in [Claim -> SUBSET Article]
        /\ lifecycle_status = [c \in Claim |-> "supported"]
        /\ review_status = FlaggedStatus(review, flagged)
        /\ review_reasons = FlaggedReasons([c \in Claim |-> {}], flagged)
        /\ reviewed = {}
    BY <1>1, AssertableIsClaim
  <1>3. flagged \subseteq present
    BY DEF Live
  <1>4. live = flagged
    <2>1. present \in SUBSET Claim /\ flagged \subseteq flagged
      BY <1>2
    <2> HIDE DEF review
    <2> QED BY <2>1, <1>2, FlagsKeepLive
  <1>5. ASSUME NEW c \in Claim
        PROVE  /\ ConflictsOf(c, flagged) = {} =>
                    review_status[c] = "unreviewed" /\ review_reasons[c] = {}
               /\ ConflictsOf(c, flagged) # {} =>
                    /\ c \in flagged
                    /\ review_status[c] = "needs_review"
                    /\ review_reasons[c] = ConflictsOf(c, flagged)
    <2>1. ConflictsOf(c, flagged) # {} => c \in flagged
      BY DEF ConflictsOf
    <2> HIDE DEF flagged
    <2> QED BY <1>2, <2>1 DEF FlaggedStatus, FlaggedReasons
  <1>6. TypeOK
    <2>1. review_status \in [Claim -> ReviewStatus]
      BY <1>2 DEF FlaggedStatus, ReviewStatus, Decision
    <2>2. review_reasons \in [Claim -> SUBSET Reason]
      <3>1. \A c \in Claim : ConflictsOf(c, flagged) \subseteq Reason
        BY ConflictsOfFacts DEF Reason
      <3> HIDE DEF flagged
      <3> QED BY <1>2, <3>1 DEF FlaggedReasons
    <2> QED BY <1>2, <2>1, <2>2 DEF TypeOK
  <1>7. /\ AbsentIsClean
        /\ UndecidedUntilReviewed
        /\ LifecycleMatchesSupport
        /\ QueuedHasReason
        /\ SupportReasonIsCurrent
        /\ LostSupportIsQueued
    <2>1. \A c : ConflictsOf(c, flagged) \cap SupportReason = {}
      BY ConflictsOfFacts DEF ConflictReason, SupportReason
    <2> HIDE DEF flagged
    <2> QED BY <1>2, <1>3, <1>5, <2>1
         DEF AbsentIsClean, UndecidedUntilReviewed, LifecycleMatchesSupport,
             QueuedHasReason, SupportReasonIsCurrent, LostSupportIsQueued
  <1>8. LiveConflictIsQueued
    <2> HIDE DEF flagged
    <2>1. \A c \in live : c \in Claim
      BY <1>2, <1>3, <1>4
    <2> QED BY <2>1, <1>4, <1>5, ConflictsOfFacts DEF LiveConflictIsQueued
  <1> QED BY <1>6, <1>7, <1>8 DEF IInv, ClaimInv

-----------------------------------------------------------------------------
LEMMA NextPreserves ==
  ASSUME IInv, [Next]_vars
  PROVE  IInv'
PROOF
  <1>1. CASE \E a \in Article, emitted \in SUBSET Assertable : IngestArticle(a, emitted)
    BY <1>1, AssertableIsClaim, IngestPreserves, IngestKeepsReasons DEF IInv
  <1>2. CASE \E c \in Claim, decision \in Decision : review_claim(c, decision)
    BY <1>2, ReviewPreserves DEF IInv
  <1>3. CASE \E reason \in ConflictReason : refresh_claim_conflicts(reason)
    BY <1>3, RefreshPreserves DEF IInv
  <1>4. CASE clear_all
    BY <1>4, ClearPreserves
  <1>5. CASE UNCHANGED vars
    BY <1>5 DEF vars, IInv, ClaimInv, TypeOK, AbsentIsClean, UndecidedUntilReviewed,
                LifecycleMatchesSupport, QueuedHasReason, SupportReasonIsCurrent,
                LostSupportIsQueued, LiveConflictIsQueued
  <1> QED BY <1>1, <1>2, <1>3, <1>4, <1>5 DEF Next

(* IInv holds throughout every behaviour of the claim graph. *)
THEOREM ClaimInvariant == Spec => []IInv
PROOF
  <1>1. Init => IInv
    BY InitEstablishes
  <1>2. IInv /\ [Next]_vars => IInv'
    BY NextPreserves
  <1> QED BY <1>1, <1>2, PTL DEF Spec

(* Every value the graph writes on a claim is one the readers know. *)
THEOREM TypeCorrect == Spec => []TypeOK
  BY ClaimInvariant, PTL DEF IInv, ClaimInv

(* A claim is "supported" exactly while some article reproduces it. *)
THEOREM LifecycleFollowsSupport == Spec => []LifecycleMatchesSupport
  BY ClaimInvariant, PTL DEF IInv, ClaimInv

(* Every card of the review queue has a reason. *)
THEOREM QueueHasReasons == Spec => []QueuedHasReason
  BY ClaimInvariant, PTL DEF IInv, ClaimInv

(* Reasons about lost support are gone as soon as a source returns. *)
THEOREM SupportReasonsAreCurrent == Spec => []SupportReasonIsCurrent
  BY ClaimInvariant, PTL DEF IInv, ClaimInv

(* A claim nobody reviewed cannot lose its final article unnoticed. *)
THEOREM LostSupportReachesTheQueue == Spec => []LostSupportIsQueued
  BY ClaimInvariant, PTL DEF IInv, ClaimInv

(* Nor can two claims nobody reviewed contradict each other unnoticed. *)
THEOREM LiveConflictsReachTheQueue == Spec => []LiveConflictIsQueued
  BY ClaimInvariant, PTL DEF IInv, ClaimInv

-----------------------------------------------------------------------------
(* What a step may never do.                                               *)

LEMMA IngestKeepsRejection ==
  ASSUME TypeOK, NEW a \in Article, NEW emitted \in SUBSET Claim,
         NEW c \in Claim, review_status[c] = "rejected", IngestArticle(a, emitted)
  PROVE  review_status'[c] = "rejected"
PROOF
  <1>1. StatusAfter(a, emitted)[c] = "rejected"
    BY AfterFacts, ReassertedFacts
  <1>2. c \notin LiveAfter(a, emitted)
    BY <1>1 DEF LiveAfter, Live
  <1> QED BY <1>1, <1>2, IngestFacts

(* Re-ingestion and the conflict queries never revive a rejected claim. *)
THEOREM RejectionsStand == Spec => RejectionStands
PROOF
  <1> DEFINE Step ==
        \A c \in present :
          review_status[c] = "rejected" /\ review_status'[c] # "rejected" =>
            c \notin present' \/ \E d \in Decision : review_claim(c, d)
  <1>1. ASSUME IInv, [Next]_vars
        PROVE  Step
    <2> SUFFICES ASSUME NEW c \in present, review_status[c] = "rejected",
                        review_status'[c] # "rejected", c \in present'
                 PROVE  \E d \in Decision : review_claim(c, d)
      OBVIOUS
    <2>1. c \in Claim /\ TypeOK
      BY <1>1 DEF IInv, ClaimInv, TypeOK
    <2>2. CASE \E a \in Article, emitted \in SUBSET Assertable : IngestArticle(a, emitted)
      BY <2>1, <2>2, AssertableIsClaim, IngestKeepsRejection
    <2>3. CASE \E b \in Claim, decision \in Decision : review_claim(b, decision)
      <3>1. PICK b \in Claim, decision \in Decision : review_claim(b, decision)
        BY <2>3
      <3>2. b = c
        BY <2>1, <3>1 DEF review_claim, TypeOK
      <3> QED BY <3>1, <3>2
    <2>4. CASE \E reason \in ConflictReason : refresh_claim_conflicts(reason)
      <3>1. c \notin Live(present, lifecycle_status, review_status)
        BY DEF Live
      <3> QED BY <2>1, <2>4, <3>1, RefreshFacts
    <2>5. CASE clear_all
      BY <2>5 DEF clear_all
    <2>6. CASE UNCHANGED vars
      BY <2>6 DEF vars
    <2> QED BY <1>1, <2>2, <2>3, <2>4, <2>5, <2>6 DEF Next
  <1>2. IInv /\ [Next]_vars => [Step]_vars
    BY <1>1
  <1> QED BY <1>2, ClaimInvariant, PTL DEF Spec, RejectionStands

(* A claim the conflict queries flag has a contradicting claim that they   *)
(* flag as well.                                                           *)
LEMMA FlaggedInPairs ==
  ASSUME NEW claims \in SUBSET Claim, NEW lifecycle, NEW review, NEW live, NEW c \in Claim,
         live = Live(claims, lifecycle, review), ConflictsOf(c, live) # {}
  PROVE  \E d \in claims :
           /\ Inverted(c, d) \/ Competing(c, d)
           /\ lifecycle[c] = "supported"
           /\ lifecycle[d] = "supported"
           /\ FlaggedStatus(review, live)[d] = "needs_review"
PROOF
  <1>1. PICK d \in live : c \in live /\ (Inverted(c, d) \/ Competing(c, d))
    BY DEF ConflictsOf
  <1>2. /\ c \in claims /\ d \in claims /\ d \in Claim
        /\ lifecycle[c] = "supported" /\ lifecycle[d] = "supported"
    BY <1>1 DEF Live
  <1>3. Inverted(d, c) \/ Competing(d, c)
    BY <1>1, <1>2, InverseIsOther DEF Competing
  <1>4. ConflictsOf(d, live) # {}
    BY <1>1, <1>3, ConflictsOfFacts
  <1>5. FlaggedStatus(review, live)[d] = "needs_review"
    BY <1>2, <1>4 DEF FlaggedStatus
  <1> QED BY <1>1, <1>2, <1>5

(* An accepted claim is queued again only for a loss of support in this    *)
(* very step or for a contradiction that is live now.                      *)
THEOREM AcceptedStayUnlessForCause == Spec => AcceptedRequeuedForCause
PROOF
  <1> DEFINE Cause(c) ==
        \/ active_article_urls[c] # {} /\ active_article_urls'[c] = {}
        \/ \E d \in present' : /\ Inverted(c, d) \/ Competing(c, d)
                               /\ lifecycle_status'[c] = "supported"
                               /\ lifecycle_status'[d] = "supported"
                               /\ review_status'[d] = "needs_review"
  <1> DEFINE Step ==
        \A c \in present \cap present' :
          review_status[c] = "accepted" /\ review_status'[c] = "needs_review" => Cause(c)
  <1>1. ASSUME IInv, [Next]_vars
        PROVE  Step
    <2> SUFFICES ASSUME NEW c \in present, c \in present', review_status[c] = "accepted",
                        review_status'[c] = "needs_review"
                 PROVE  Cause(c)
      OBVIOUS
    <2>1. c \in Claim /\ present \in SUBSET Claim
      BY <1>1 DEF IInv, ClaimInv, TypeOK
    <2>2. ASSUME NEW a \in Article, NEW emitted \in SUBSET Claim, IngestArticle(a, emitted)
          PROVE  Cause(c)
      <3>1. CASE ConflictsOf(c, LiveAfter(a, emitted)) # {}
        <4> DEFINE claims == present \cup emitted
                   lifecycle == LifecycleAfter(a, emitted)
                   review == StatusAfter(a, emitted)
                   live == LiveAfter(a, emitted)
        <4>1. /\ claims \in SUBSET Claim
              /\ ConflictsOf(c, live) # {}
          BY <2>1, <3>1
        <4>2. live = Live(claims, lifecycle, review)
          BY <3>1 DEF ConflictsOf, LiveAfter
        <4>3. /\ present' = claims
              /\ lifecycle_status' = lifecycle
              /\ review_status' = FlaggedStatus(review, live)
          BY <2>2 DEF IngestArticle
        <4> HIDE DEF claims, lifecycle, review, live
        <4>4. \E d \in claims : /\ Inverted(c, d) \/ Competing(c, d)
                               /\ lifecycle[c] = "supported"
                               /\ lifecycle[d] = "supported"
                               /\ FlaggedStatus(review, live)[d] = "needs_review"
          BY <2>1, <4>1, <4>2, FlaggedInPairs
        <4> QED BY <4>3, <4>4
      <3>2. CASE ConflictsOf(c, LiveAfter(a, emitted)) = {}
        <4>1. StatusAfter(a, emitted)[c] = "needs_review"
          BY <2>1, <2>2, <3>2, IngestFacts
        <4>2. c \notin emitted /\ active_article_urls[c] = {a}
          BY <2>1, <4>1, AfterFacts DEF ReassertedStatus
        <4> QED BY <2>1, <2>2, <4>2, IngestFacts
      <3> QED BY <3>1, <3>2
    <2>3. ASSUME NEW b \in Claim, NEW decision \in Decision, review_claim(b, decision)
          PROVE  FALSE
      BY <1>1, <2>1, <2>3 DEF review_claim, Decision, IInv, ClaimInv, TypeOK
    <2>4. CASE \E reason \in ConflictReason : refresh_claim_conflicts(reason)
      <3> DEFINE live == Live(present, lifecycle_status, review_status)
      <3>1. PICK reason \in ConflictReason : refresh_claim_conflicts(reason)
        BY <2>4
      <3>2. reason \in ConflictsOf(c, live)
        BY <2>1, <3>1 DEF refresh_claim_conflicts
      <3>3. PICK d \in live : /\ c \in live
                              /\ Inverted(c, d) \/ Competing(c, d)
                              /\ reason \in ConflictsOf(d, live)
        <4>1. PICK d \in live : /\ c \in live
                                /\ \/ reason = "inverse_direction" /\ Inverted(c, d)
                                   \/ reason = "competing_transaction_type" /\ Competing(c, d)
          BY <3>2 DEF ConflictsOf
        <4>2. d \in Claim
          BY <2>1 DEF Live
        <4>3. (Inverted(c, d) => Inverted(d, c)) /\ (Competing(c, d) => Competing(d, c))
          BY <2>1, <4>2, InverseIsOther DEF Competing
        <4>4. reason \in ConflictsOf(d, live)
          <5> HIDE DEF live
          <5> QED BY <4>1, <4>3, ConflictsOfFacts
        <4> QED BY <4>1, <4>4
      <3>4. d \in present /\ lifecycle_status[c] = "supported" /\ lifecycle_status[d] = "supported"
        BY <3>3 DEF Live
      <3>5. /\ UNCHANGED <<present, lifecycle_status>>
            /\ review_status'[d] = "needs_review"
        BY <2>1, <3>1, <3>3, <3>4 DEF refresh_claim_conflicts
      <3> QED BY <3>3, <3>4, <3>5
    <2>5. CASE clear_all
      BY <2>5 DEF clear_all
    <2>6. CASE UNCHANGED vars
      BY <2>6 DEF vars
    <2> QED BY <1>1, AssertableIsClaim, <2>2, <2>3, <2>4, <2>5, <2>6 DEF Next
  <1>2. IInv /\ [Next]_vars => [Step]_vars
    BY <1>1
  <1> QED BY <1>2, ClaimInvariant, PTL DEF Spec, AcceptedRequeuedForCause

(* What one conflict query finds of a claim it finds of the other side.    *)
LEMMA ConflictsInPairs ==
  ASSUME NEW live \in SUBSET Claim, NEW c, NEW reason \in ConflictsOf(c, live)
  PROVE  c \in live /\ \E d \in live :
           /\ IF reason = "inverse_direction" THEN Inverted(c, d) ELSE Competing(c, d)
           /\ reason \in ConflictsOf(d, live)
PROOF
  <1>1. PICK d \in live : /\ c \in live
                          /\ \/ reason = "inverse_direction" /\ Inverted(c, d)
                             \/ reason = "competing_transaction_type" /\ Competing(c, d)
    BY DEF ConflictsOf
  <1>2. (Inverted(c, d) => Inverted(d, c)) /\ (Competing(c, d) => Competing(d, c))
    BY <1>1, InverseIsOther DEF Competing
  <1>3. reason \in ConflictsOf(d, live)
    BY <1>1, <1>2, ConflictsOfFacts
  <1> QED BY <1>1, <1>3

(* Apart from the conflict queries, an ingest records no contradiction.    *)
LEMMA ReasonsAfterFacts ==
  ASSUME NEW a \in Article, NEW emitted \in SUBSET Claim, NEW c \in Claim
  PROVE  ReasonsAfter(a, emitted)[c] \cap ConflictReason \subseteq review_reasons[c]
PROOF
  <1>1. LossReason(emitted, c) \notin ConflictReason
    BY DEF LossReason, ConflictReason
  <1> QED BY <1>1, AfterFacts

(* A step of the claim store records a contradiction only of two claims    *)
(* that it leaves supported and queued, each with the reason.              *)
THEOREM ConflictsAreFlaggedForCause == Spec => ConflictFlaggedForCause
PROOF
  <1> DEFINE Side(d, reason) == /\ active_article_urls'[d] # {}
                                /\ review_status'[d] = "needs_review"
                                /\ reason \in review_reasons'[d]
             Cause(c, reason) ==
               \E d \in present' :
                 /\ IF reason = "inverse_direction" THEN Inverted(c, d) ELSE Competing(c, d)
                 /\ \A side \in {c, d} : Side(side, reason)
             Step == \A c \in Claim, reason \in ConflictReason :
                       reason \in review_reasons'[c] \ review_reasons[c] => Cause(c, reason)
  <1>1. ASSUME IInv, [Next]_vars
        PROVE  Step
    <2> SUFFICES ASSUME NEW c \in Claim, NEW reason \in ConflictReason,
                        reason \in review_reasons'[c], reason \notin review_reasons[c]
                 PROVE  Cause(c, reason)
      OBVIOUS
    <2>1. TypeOK /\ AbsentIsClean /\ LifecycleMatchesSupport /\ LifecycleMatchesSupport' /\ TypeOK'
      BY <1>1, NextPreserves DEF IInv, ClaimInv
    <2> DEFINE live == Live(present', lifecycle_status', review_status')
    <2>2. live \subseteq present' /\ live \subseteq Claim
          /\ \A d \in live : active_article_urls'[d] # {}
      BY <2>1 DEF Live, LifecycleMatchesSupport, TypeOK
    <2>3. ASSUME reason \in ConflictsOf(c, live),
                 \A d \in Claim : reason \in ConflictsOf(d, live) =>
                   review_status'[d] = "needs_review" /\ reason \in review_reasons'[d]
          PROVE  Cause(c, reason)
      <3> HIDE DEF live
      <3>1. PICK d \in live :
              /\ c \in live
              /\ IF reason = "inverse_direction" THEN Inverted(c, d) ELSE Competing(c, d)
              /\ reason \in ConflictsOf(d, live)
        BY <2>2, <2>3, ConflictsInPairs
      <3>2. Side(c, reason) /\ Side(d, reason) /\ d \in present'
        BY <2>2, <2>3, <3>1
      <3> QED BY <3>1, <3>2
    <2>4. ASSUME NEW a \in Article, NEW emitted \in SUBSET Claim, IngestArticle(a, emitted)
          PROVE  Cause(c, reason)
      <3>1. reason \in ConflictsOf(c, LiveAfter(a, emitted))
        <4>1. reason \notin ReasonsAfter(a, emitted)[c]
          BY ReasonsAfterFacts
        <4> QED BY <2>4, <4>1, IngestFacts
      <3>2. emitted # {}
        BY <3>1 DEF LiveAfter, ConflictsOf
      <3>3. LiveAfter(a, emitted) = live
        BY <2>1, <2>4, <3>2, IngestLive
      <3>4. \A d \in Claim : reason \in ConflictsOf(d, LiveAfter(a, emitted)) =>
              review_status'[d] = "needs_review" /\ reason \in review_reasons'[d]
        BY <2>4, IngestFacts
      <3> QED BY <2>3, <3>1, <3>3, <3>4
    <2>5. ASSUME NEW b \in Claim, NEW decision \in Decision, review_claim(b, decision)
          PROVE  FALSE
      <3>1. review_reasons'[c] \subseteq review_reasons[c]
        BY <2>1, <2>5 DEF review_claim, TypeOK
      <3> QED BY <3>1
    <2>6. ASSUME NEW asked \in ConflictReason, refresh_claim_conflicts(asked)
          PROVE  Cause(c, reason)
      <3> DEFINE before == Live(present, lifecycle_status, review_status)
      <3>1. asked = reason /\ reason \in ConflictsOf(c, before)
        BY <2>6 DEF refresh_claim_conflicts
      <3>2. \A d \in Claim : reason \in ConflictsOf(d, before) =>
              /\ review_status'[d] = "needs_review" /\ reason \in review_reasons'[d]
        BY <2>6, <3>1 DEF refresh_claim_conflicts
      <3>3. live = before
        <4>1. UNCHANGED <<present, lifecycle_status>>
          BY <2>6 DEF refresh_claim_conflicts
        <4>2. \A d \in present : review_status'[d] = "rejected" <=> review_status[d] = "rejected"
          <5> SUFFICES ASSUME NEW d \in present
                       PROVE  review_status'[d] = "rejected" <=> review_status[d] = "rejected"
            OBVIOUS
          <5>1. d \in Claim
            BY <2>1 DEF TypeOK
          <5>2. d \in before => review_status[d] # "rejected"
            BY DEF Live
          <5> HIDE DEF before
          <5>3. before = Live(present, lifecycle_status, review_status)
            BY DEF before
          <5> QED BY <2>6, <5>1, <5>2, <5>3, RefreshFacts
        <4> QED BY <4>1, <4>2 DEF Live
      <3> QED BY <2>3, <3>1, <3>2, <3>3
    <2>7. CASE clear_all
      BY <2>7 DEF clear_all
    <2>8. CASE UNCHANGED vars
      BY <2>8 DEF vars
    <2> QED BY <1>1, AssertableIsClaim, <2>4, <2>5, <2>6, <2>7, <2>8 DEF Next
  <1>2. IInv /\ [Next]_vars => [Step]_vars
    BY <1>1
  <1> QED BY <1>2, ClaimInvariant, PTL DEF Spec, ConflictFlaggedForCause

-----------------------------------------------------------------------------
(* ClaimStore implements ClaimPromise.                                     *)

latest    == [a \in Article |-> {c \in present : a \in active_article_urls[c]}]
supported == {c \in present : lifecycle_status[c] = "supported"}
hidden    == {c \in present : review_status[c] = "rejected"}

(* While the lifecycle follows the support, the supported claims are those *)
(* some article's latest processing produced.                              *)
LEMMA SupportedIsLatest ==
  ASSUME TypeOK, LifecycleMatchesSupport
  PROVE  supported = Promise!Supported(latest)
PROOF
  <1>1. ASSUME NEW c \in present
        PROVE  active_article_urls[c] # {} <=> \E a \in Article : a \in active_article_urls[c]
    BY DEF TypeOK
  <1>2. \A c : c \in Promise!Supported(latest) <=>
          c \in present /\ \E a \in Article : a \in active_article_urls[c]
    BY DEF Promise!Supported, latest
  <1> QED BY <1>1, <1>2 DEF supported, LifecycleMatchesSupport

LEMMA IngestProcesses ==
  ASSUME ClaimInv, ClaimInv', NEW a \in Article, NEW emitted \in SUBSET Claim,
         IngestArticle(a, emitted)
  PROVE  latest'[a] \subseteq Claim /\ Promise!Process(a, latest'[a])
PROOF
  <1>1. present' = present \cup emitted /\ present' \subseteq Claim /\ TypeOK
    BY DEF IngestArticle, ClaimInv, TypeOK
  <1>2. ASSUME NEW c \in Claim
        PROVE  /\ c \in emitted => active_article_urls'[c] = active_article_urls[c] \cup {a}
               /\ c \notin emitted => active_article_urls'[c] = active_article_urls[c] \ {a}
    BY IngestFacts
  <1>3. latest' = [latest EXCEPT ![a] = emitted]
    <2>1. \A c \in Claim \ present : active_article_urls[c] = {}
      BY DEF ClaimInv, AbsentIsClean
    <2>2. ASSUME NEW b \in Article
          PROVE  {c \in present' : b \in active_article_urls'[c]} =
                   IF b = a THEN emitted ELSE {c \in present : b \in active_article_urls[c]}
      BY <1>1, <1>2, <2>1
    <2> QED BY <2>2 DEF latest
  <1>4. supported' = Promise!Supported(latest')
    <2>1. (TypeOK /\ LifecycleMatchesSupport => supported = Promise!Supported(latest))'
      BY SupportedIsLatest, PTL
    <2>2. (supported = Promise!Supported(latest))'
      BY <2>1 DEF ClaimInv
    <2> QED BY <2>2 DEF Promise!Supported
  <1>5. hidden' = hidden
    <2>1. ASSUME NEW c \in Claim
          PROVE  review_status'[c] = "rejected" <=> review_status[c] = "rejected"
      <3>1. review_status[c] = "rejected" => review_status'[c] = "rejected"
        BY <1>1, IngestKeepsRejection
      <3>2. review_status[c] # "rejected" => StatusAfter(a, emitted)[c] # "rejected"
        BY <1>1, AfterFacts, ReassertedFacts
      <3>3. review_status'[c] \in {"needs_review", StatusAfter(a, emitted)[c]}
        BY IngestFacts
      <3> QED BY <3>1, <3>2, <3>3
    <2>2. \A c \in Claim \ present : review_status[c] = "unreviewed"
      BY DEF ClaimInv, AbsentIsClean
    <2> QED BY <1>1, <2>1, <2>2 DEF hidden
  <1>6. latest'[a] = emitted
    BY <1>3 DEF latest
  <1>7. Promise!Process(a, latest'[a])
    BY <1>1, <1>3, <1>4, <1>5, <1>6 DEF Promise!Process, latest, supported, hidden
  <1> QED BY <1>6, <1>7

LEMMA ReviewDecides ==
  ASSUME ClaimInv, NEW c \in Claim, NEW decision \in Decision, review_claim(c, decision)
  PROVE  Promise!Reject(c) \/ Promise!Restore(c)
PROOF
  <1>1. /\ c \in present /\ present \subseteq Claim
        /\ UNCHANGED <<present, latest, supported>>
        /\ \A d \in present :
             review_status'[d] = IF d = c THEN decision ELSE review_status[d]
    BY DEF review_claim, ClaimInv, TypeOK, latest, supported
  <1>2. hidden' = IF decision = "rejected" THEN hidden \cup {c} ELSE hidden \ {c}
    BY <1>1 DEF hidden
  <1> QED BY <1>1, <1>2 DEF Promise!Reject, Promise!Restore, latest, supported, hidden

LEMMA RefreshStutters ==
  ASSUME ClaimInv, NEW reason \in ConflictReason, refresh_claim_conflicts(reason)
  PROVE  UNCHANGED <<latest, present, supported, hidden>>
PROOF
  <1>1. UNCHANGED <<present, active_article_urls, lifecycle_status>>
    BY DEF refresh_claim_conflicts
  <1>2. ASSUME NEW c \in present
        PROVE  review_status'[c] = "rejected" <=> review_status[c] = "rejected"
    <2>1. c \in Claim
      BY DEF ClaimInv, TypeOK
    <2>2. review_status[c] = "rejected" =>
            c \notin Live(present, lifecycle_status, review_status)
      BY DEF Live
    <2> QED BY <2>1, <2>2, RefreshFacts
  <1> QED BY <1>1, <1>2 DEF latest, supported, hidden

(* Every behaviour of the claim graph is one the promise allows.           *)
THEOREM KeepsItsPromise == Spec => KeepsPromise
PROOF
  <1>1. Init => Promise!Init
    <2> SUFFICES ASSUME Init
                 PROVE  Promise!Init
      OBVIOUS
    <2>1. IInv
      BY InitEstablishes
    <2>2. latest \in [Article -> SUBSET Claim]
      BY <2>1 DEF latest, IInv, ClaimInv, TypeOK
    <2>3. present = supported
      BY AssertableIsClaim DEF Init, supported
    <2>4. hidden = {}
      BY <2>1 DEF Init, hidden, IInv, ClaimInv, UndecidedUntilReviewed, TypeOK
    <2>5. supported = Promise!Supported(latest)
      BY <2>1, SupportedIsLatest DEF IInv, ClaimInv
    <2> QED BY <2>2, <2>3, <2>4, <2>5 DEF Promise!Init, latest, supported, hidden
  <1>2. IInv /\ IInv' /\ [Next]_vars => [Promise!Next]_(Promise!vars)
    <2> SUFFICES ASSUME IInv, IInv', [Next]_vars
                 PROVE  Promise!Next \/ UNCHANGED <<latest, present, supported, hidden>>
      BY DEF Promise!vars, latest, supported, hidden
    <2>1. CASE \E a \in Article, emitted \in SUBSET Assertable : IngestArticle(a, emitted)
      <3>1. PICK a \in Article : \E emitted \in SUBSET Claim : IngestArticle(a, emitted)
        BY <2>1, AssertableIsClaim
      <3>2. PICK emitted \in SUBSET Claim : IngestArticle(a, emitted)
        BY <3>1
      <3>3. latest'[a] \subseteq Claim /\ Promise!Process(a, latest'[a])
        BY <3>2, IngestProcesses DEF IInv
      <3> QED BY <3>3 DEF Promise!Next, latest
    <2>2. CASE \E c \in Claim, decision \in Decision : review_claim(c, decision)
      BY <2>2, ReviewDecides DEF IInv, Promise!Next
    <2>3. CASE \E reason \in ConflictReason : refresh_claim_conflicts(reason)
      BY <2>3, RefreshStutters DEF IInv
    <2>4. CASE clear_all
      BY <2>4 DEF clear_all, Promise!Next, Promise!Forget
    <2>5. CASE UNCHANGED vars
      BY <2>5 DEF vars, latest, supported, hidden
    <2> QED BY <2>1, <2>2, <2>3, <2>4, <2>5 DEF Next
  <1> QED BY <1>1, <1>2, ClaimInvariant, PTL DEF Spec, KeepsPromise, Promise!Spec

-----------------------------------------------------------------------------
(* The merge of source into n, claim by claim.                             *)

(* c is a claim of the entity that stays that takes over one of the entity *)
(* that goes.                                                              *)
Joins(c, source, n) ==
  /\ Touches(c, n) /\ ~Touches(c, source)
  /\ Redirect(c, n, source) \in present

(* Of a claim of source with anyone but n, the redirection is the same     *)
(* claim of n, and the way back is the redirection of n.                   *)
LEMMA RedirectFacts ==
  ASSUME NEW source \in Entity, NEW n \in Entity, source # n, NEW c \in Claim
  PROVE  /\ ~Touches(c, source) => Redirect(c, source, n) = c
         /\ Touches(c, source) /\ ~Touches(c, n) =>
              /\ Redirect(c, source, n) \in Claim
              /\ Touches(Redirect(c, source, n), n)
              /\ ~Touches(Redirect(c, source, n), source)
              /\ Redirect(Redirect(c, source, n), n, source) = c
PROOF
  <1> DEFINE Shape == [relationship : {m.relationship : m \in Mention},
                      source : Entity, target : Entity]
  <1>1. /\ c \in Shape /\ c.source # c.target
        /\ \A d \in Shape : d.source # d.target => d \in Claim
    BY DEF Claim
  <1>2. ASSUME NEW d \in Shape, NEW from \in Entity, NEW to \in Entity
        PROVE  /\ Redirect(d, from, to) \in Shape
               /\ Redirect(d, from, to).relationship = d.relationship
               /\ Redirect(d, from, to).source = IF d.source = from THEN to ELSE d.source
               /\ Redirect(d, from, to).target = IF d.target = from THEN to ELSE d.target
    BY DEF Redirect
  <1>3. ASSUME NEW d \in Shape, NEW e \in Shape, d.relationship = e.relationship,
               d.source = e.source, d.target = e.target
        PROVE  d = e
    <2>1. \A r \in Shape :
            r = [relationship |-> r.relationship, source |-> r.source, target |-> r.target]
      OBVIOUS
    <2> HIDE DEF Shape
    <2> QED BY <1>3, <2>1
  <1>4. ASSUME ~Touches(c, source)
        PROVE  Redirect(c, source, n) = c
    <2>1. c.source # source /\ c.target # source
      BY <1>4 DEF Touches
    <2> HIDE DEF Shape
    <2> QED BY <1>1, <1>2, <1>3, <2>1
  <1>5. ASSUME Touches(c, source), ~Touches(c, n)
        PROVE  /\ Redirect(c, source, n) \in Claim
               /\ Touches(Redirect(c, source, n), n)
               /\ ~Touches(Redirect(c, source, n), source)
               /\ Redirect(Redirect(c, source, n), n, source) = c
    <2> DEFINE d == Redirect(c, source, n)
    <2>1. /\ source \in {c.source, c.target}
          /\ c.source # n /\ c.target # n
      BY <1>5 DEF Touches
    <2>2. /\ d \in Shape
          /\ d.relationship = c.relationship
          /\ d.source = IF c.source = source THEN n ELSE c.source
          /\ d.target = IF c.target = source THEN n ELSE c.target
      BY <1>1, <1>2
    <2>3. /\ Redirect(d, n, source) \in Shape
          /\ Redirect(d, n, source).relationship = d.relationship
          /\ Redirect(d, n, source).source = IF d.source = n THEN source ELSE d.source
          /\ Redirect(d, n, source).target = IF d.target = n THEN source ELSE d.target
      BY <2>2, <1>2
    <2> HIDE DEF Shape, d
    <2>4. d \in Claim
      BY <1>1, <2>1, <2>2
    <2>5. Touches(d, n) /\ ~Touches(d, source)
      BY <1>1, <2>1, <2>2 DEF Touches
    <2>6. Redirect(d, n, source) = c
      BY <1>1, <1>3, <2>1, <2>2, <2>3
    <2> QED BY <2>4, <2>5, <2>6 DEF d
  <1> QED BY <1>4, <1>5

(* A claim that is joined is what one of the moved claims becomes.         *)
LEMMA JoinsFacts ==
  ASSUME TypeOK, NEW source \in Entity, NEW n \in Entity, source # n, NEW c \in Claim
  PROVE  /\ Joins(c, source, n) <=>
              ~Touches(c, source) /\ Redirect(c, n, source) \in Moved(source, n)
         /\ c \in {Redirect(d, source, n) : d \in Moved(source, n)} <=> Joins(c, source, n)
         /\ Joins(c, source, n) => /\ Redirect(c, n, source) \in Claim
                                   /\ Redirect(c, n, source) \in present
PROOF
  <1>1. present \subseteq Claim
    BY DEF TypeOK
  <1>2. Touches(c, n) /\ ~Touches(c, source) =>
          /\ Redirect(c, n, source) \in Claim
          /\ Touches(Redirect(c, n, source), source)
          /\ ~Touches(Redirect(c, n, source), n)
          /\ Redirect(Redirect(c, n, source), source, n) = c
    BY RedirectFacts
  <1>3. ~Touches(c, n) => Redirect(c, n, source) = c
    BY RedirectFacts
  <1>4. Joins(c, source, n) <=>
          ~Touches(c, source) /\ Redirect(c, n, source) \in Moved(source, n)
    BY <1>2, <1>3 DEF Joins, Moved
  <1>5. ASSUME NEW d \in Moved(source, n), c = Redirect(d, source, n)
        PROVE  Joins(c, source, n)
    <2>1. d \in Claim /\ d \in present /\ Touches(d, source) /\ ~Touches(d, n)
      BY <1>1 DEF Moved
    <2> QED BY <2>1, <1>5, RedirectFacts DEF Joins
  <1>6. Joins(c, source, n) => c \in {Redirect(d, source, n) : d \in Moved(source, n)}
    BY <1>2, <1>4 DEF Joins
  <1> QED BY <1>1, <1>4, <1>5, <1>6 DEF Joins

(* What the queries that move and join relationships leave on a claim for  *)
(* the conflict queries to add to.                                         *)
JoinedLifecycle(c, source, n) ==
  IF Joins(c, source, n) THEN MergedLifecycle(c, Redirect(c, n, source))
                         ELSE lifecycle_status[c]

JoinedStatus(c, source, n) ==
  IF Joins(c, source, n)
  THEN MergedReview(review_status[c], review_status[Redirect(c, n, source)])
  ELSE review_status[c]

JoinedReasons(c, source, n) ==
  IF Joins(c, source, n) THEN MergedReasons(c, Redirect(c, n, source)) ELSE review_reasons[c]

(* The conflict queries of a merge look at the claims that are live when   *)
(* it commits.                                                             *)
LEMMA MergeFacts ==
  ASSUME TypeOK, NEW source \in Entity, NEW n \in Entity, source # n,
         MergeClaims(source, n), NEW live,
         live = Live(present', lifecycle_status', review_status')
  PROVE  /\ present' = {c \in Claim : /\ ~Touches(c, source)
                                      /\ c \in present \/ Joins(c, source, n)}
         /\ reviewed' = {c \in present' :
              \/ c \in reviewed
              \/ Joins(c, source, n) /\ Redirect(c, n, source) \in reviewed}
         /\ active_article_urls' = [c \in Claim |->
              IF Touches(c, source) THEN {}
              ELSE IF Joins(c, source, n)
              THEN active_article_urls[c] \cup active_article_urls[Redirect(c, n, source)]
              ELSE active_article_urls[c]]
         /\ lifecycle_status' = [c \in Claim |-> IF Touches(c, source) THEN "supported"
                                                 ELSE JoinedLifecycle(c, source, n)]
         /\ review_status' = [c \in Claim |->
              IF ConflictsOf(c, live) # {} THEN "needs_review"
              ELSE IF Touches(c, source) THEN "unreviewed"
              ELSE JoinedStatus(c, source, n)]
         /\ review_reasons' = [c \in Claim |->
              (IF Touches(c, source) THEN {} ELSE JoinedReasons(c, source, n))
                \cup ConflictsOf(c, live)]
         /\ \A c \in live : JoinedStatus(c, source, n) # "rejected"
PROOF
  <1> DEFINE moved == Moved(source, n)
             onto(c) == Redirect(c, n, source)
             merged(c) == ~Touches(c, source) /\ onto(c) \in moved
             claims == {c \in present : ~Touches(c, source)}
                         \cup {Redirect(c, source, n) : c \in moved}
             lifecycle == [c \in Claim |-> IF Touches(c, source) THEN "supported"
                                           ELSE IF merged(c) THEN MergedLifecycle(c, onto(c))
                                           ELSE lifecycle_status[c]]
             review == [c \in Claim |-> IF Touches(c, source) THEN "unreviewed"
                                        ELSE IF merged(c)
                                        THEN MergedReview(review_status[c], review_status[onto(c)])
                                        ELSE review_status[c]]
             reasons == [c \in Claim |-> IF Touches(c, source) THEN {}
                                         ELSE IF merged(c) THEN MergedReasons(c, onto(c))
                                         ELSE review_reasons[c]]
             flagged == Live(claims, lifecycle, review)
  <1>1. /\ present' = claims
        /\ active_article_urls' = [c \in Claim |->
             IF Touches(c, source) THEN {}
             ELSE IF merged(c) THEN active_article_urls[c] \cup active_article_urls[onto(c)]
             ELSE active_article_urls[c]]
        /\ lifecycle_status' = lifecycle
        /\ review_status' = FlaggedStatus(review, flagged)
        /\ review_reasons' = FlaggedReasons(reasons, flagged)
        /\ reviewed' = {c \in claims : c \in reviewed \/ (merged(c) /\ onto(c) \in reviewed)}
    BY DEF MergeClaims, FlaggedAfterMerge
  <1>2. \A c \in Claim : merged(c) <=> Joins(c, source, n)
    BY JoinsFacts
  <1>3. claims = {c \in Claim : ~Touches(c, source) /\ (c \in present \/ Joins(c, source, n))}
    <2>1. \A d \in moved : Redirect(d, source, n) \in Claim /\ ~Touches(Redirect(d, source, n), source)
      BY RedirectFacts DEF Moved, TypeOK
    <2>2. \A c \in Claim : c \in {Redirect(d, source, n) : d \in moved} <=> Joins(c, source, n)
      BY JoinsFacts
    <2> QED BY <2>1, <2>2 DEF TypeOK
  <1> HIDE DEF merged, claims, lifecycle, review, reasons, moved
  <1>4. live = flagged
    <2>1. claims \in SUBSET Claim
      BY <1>3
    <2>2. Live(claims, lifecycle, FlaggedStatus(review, flagged)) = flagged
      BY <2>1, FlagsKeepLive
    <2> QED BY <1>1, <2>2
  <1>5. /\ lifecycle = [c \in Claim |-> IF Touches(c, source) THEN "supported"
                                        ELSE JoinedLifecycle(c, source, n)]
        /\ review = [c \in Claim |-> IF Touches(c, source) THEN "unreviewed"
                                     ELSE JoinedStatus(c, source, n)]
        /\ reasons = [c \in Claim |-> IF Touches(c, source) THEN {}
                                      ELSE JoinedReasons(c, source, n)]
    BY <1>2 DEF lifecycle, review, reasons, JoinedLifecycle, JoinedStatus, JoinedReasons
  <1>6. review_status' = [c \in Claim |->
          IF ConflictsOf(c, live) # {} THEN "needs_review"
          ELSE IF Touches(c, source) THEN "unreviewed"
          ELSE JoinedStatus(c, source, n)]
    BY <1>1, <1>4, <1>5 DEF FlaggedStatus
  <1>7. review_reasons' = [c \in Claim |->
          (IF Touches(c, source) THEN {} ELSE JoinedReasons(c, source, n))
            \cup ConflictsOf(c, live)]
    BY <1>1, <1>4, <1>5 DEF FlaggedReasons
  <1>8. \A c \in live : JoinedStatus(c, source, n) # "rejected"
    <2> SUFFICES ASSUME NEW c \in flagged
                 PROVE  JoinedStatus(c, source, n) # "rejected"
      BY <1>4
    <2>1. c \in Claim /\ ~Touches(c, source) /\ review[c] # "rejected"
      BY <1>3 DEF Live
    <2> QED BY <2>1, <1>5
  <1>9. reviewed' = {c \in present' :
          \/ c \in reviewed
          \/ Joins(c, source, n) /\ Redirect(c, n, source) \in reviewed}
    BY <1>1, <1>2, <1>3
  <1>10. active_article_urls' = [c \in Claim |->
           IF Touches(c, source) THEN {}
           ELSE IF Joins(c, source, n)
           THEN active_article_urls[c] \cup active_article_urls[Redirect(c, n, source)]
           ELSE active_article_urls[c]]
    BY <1>1, <1>2
  <1> QED BY <1>1, <1>3, <1>5, <1>6, <1>7, <1>8, <1>9, <1>10

(* The lifecycles, decisions and reasons of two claims that become one.    *)
LEMMA MergedFacts ==
  ASSUME TypeOK, NEW t \in Claim, NEW s \in Claim
  PROVE  /\ MergedLifecycle(t, s) \in {"supported", Unsupported}
         /\ MergedReview(review_status[t], review_status[s]) \in ReviewStatus
         /\ MergedReasons(t, s) \subseteq Reason
         /\ review_reasons[t] \cup review_reasons[s] \subseteq MergedReasons(t, s)
         /\ {review_status[t], review_status[s]} = {"accepted", "rejected"} =>
              "manual_entity_merge_conflict" \in MergedReasons(t, s)
  BY DEF TypeOK, MergedLifecycle, MergedReview, MergedReasons, ReviewStatus, Decision,
         Reason, MergeReason

LEMMA MergePreserves ==
  ASSUME ClaimInv, NEW source \in Entity, NEW n \in Entity, source # n,
         MergeClaims(source, n)
  PROVE  ClaimInv'
PROOF
  <1> DEFINE live == Live(present', lifecycle_status', review_status')
             other(c) == Redirect(c, n, source)
  <1> USE DEF ClaimInv
  <1>1. /\ present' = {c \in Claim : /\ ~Touches(c, source)
                                     /\ c \in present \/ Joins(c, source, n)}
        /\ reviewed' = {c \in present' :
             c \in reviewed \/ (Joins(c, source, n) /\ other(c) \in reviewed)}
    BY MergeFacts
  <1>2. /\ active_article_urls' = [c \in Claim |->
             IF Touches(c, source) THEN {}
             ELSE IF Joins(c, source, n)
             THEN active_article_urls[c] \cup active_article_urls[other(c)]
             ELSE active_article_urls[c]]
        /\ lifecycle_status' = [c \in Claim |-> IF Touches(c, source) THEN "supported"
                                                ELSE JoinedLifecycle(c, source, n)]
    BY MergeFacts
  <1>3. /\ review_status' = [c \in Claim |->
             IF ConflictsOf(c, live) # {} THEN "needs_review"
             ELSE IF Touches(c, source) THEN "unreviewed"
             ELSE JoinedStatus(c, source, n)]
        /\ review_reasons' = [c \in Claim |->
             (IF Touches(c, source) THEN {} ELSE JoinedReasons(c, source, n))
               \cup ConflictsOf(c, live)]
    BY MergeFacts
  <1>4. \A c \in Claim : Joins(c, source, n) => /\ ~Touches(c, source)
                                               /\ other(c) \in Claim /\ other(c) \in present
    BY JoinsFacts DEF Joins
  <1>5. \A c : c \notin live => ConflictsOf(c, live) = {}
    BY ConflictsOfFacts
  <1>6. live \subseteq present'
    BY DEF Live
  <1> HIDE DEF live, other
  <1>7. TypeOK'
    <2>1. active_article_urls' \in [Claim -> SUBSET Article]
      BY <1>2, <1>4 DEF TypeOK
    <2>2. lifecycle_status' \in [Claim -> {"supported", Unsupported}]
      <3>1. \A c \in Claim : JoinedLifecycle(c, source, n) \in {"supported", Unsupported}
        BY <1>4, MergedFacts DEF JoinedLifecycle, TypeOK, other
      <3> QED BY <1>2, <3>1
    <2>3. review_status' \in [Claim -> ReviewStatus]
      <3>1. \A c \in Claim : JoinedStatus(c, source, n) \in ReviewStatus
        BY <1>4, MergedFacts DEF JoinedStatus, TypeOK, other
      <3> QED BY <1>3, <3>1 DEF ReviewStatus, Decision
    <2>4. review_reasons' \in [Claim -> SUBSET Reason]
      <3>1. \A c \in Claim : JoinedReasons(c, source, n) \subseteq Reason
        BY <1>4, MergedFacts DEF JoinedReasons, TypeOK, other
      <3>2. \A c \in Claim : ConflictsOf(c, live) \subseteq Reason
        BY ConflictsOfFacts DEF Reason
      <3> QED BY <1>3, <3>1, <3>2
    <2>5. present' \subseteq Claim /\ reviewed' \subseteq present'
      BY <1>1
    <2> QED BY <2>1, <2>2, <2>3, <2>4, <2>5 DEF TypeOK
  <1>8. AbsentIsClean'
    <2> SUFFICES ASSUME NEW c \in Claim, c \notin present'
                 PROVE  /\ active_article_urls'[c] = {}
                        /\ lifecycle_status'[c] = "supported"
                        /\ review_status'[c] = "unreviewed"
                        /\ review_reasons'[c] = {}
      BY DEF AbsentIsClean
    <2>1. ConflictsOf(c, live) = {}
      BY <1>5, <1>6
    <2>2. CASE Touches(c, source)
      BY <1>2, <1>3, <2>1, <2>2
    <2>3. CASE ~Touches(c, source)
      <3>1. c \notin present /\ ~Joins(c, source, n)
        BY <1>1, <2>3
      <3> QED BY <1>2, <1>3, <2>1, <2>3, <3>1
              DEF AbsentIsClean, JoinedLifecycle, JoinedStatus, JoinedReasons
    <2> QED BY <2>2, <2>3
  (* A claim that was not in the graph adds nothing to one that moves onto  *)
  (* it.                                                                    *)
  <1>9. ASSUME NEW c \in Claim, c \notin present
        PROVE  /\ active_article_urls[c] = {}
               /\ lifecycle_status[c] = "supported"
               /\ review_status[c] = "unreviewed"
               /\ review_reasons[c] = {}
    BY <1>9 DEF AbsentIsClean
  <1>10. UndecidedUntilReviewed'
    <2> SUFFICES ASSUME NEW c \in Claim, c \notin reviewed'
                 PROVE  review_status'[c] \in {"unreviewed", "needs_review"}
      BY DEF UndecidedUntilReviewed
    <2>1. CASE c \notin present'
      BY <1>8, <2>1 DEF AbsentIsClean
    <2>2. CASE c \in present'
      <3>1. /\ c \notin reviewed
            /\ Joins(c, source, n) => other(c) \in Claim \ reviewed
        BY <1>1, <1>4, <2>2
      <3>2. JoinedStatus(c, source, n) \in {"unreviewed", "needs_review"}
        BY <3>1 DEF UndecidedUntilReviewed, JoinedStatus, MergedReview, other
      <3> QED BY <1>3, <3>2
    <2> QED BY <2>1, <2>2
  <1>11. LifecycleMatchesSupport'
    <2> SUFFICES ASSUME NEW c \in present'
                 PROVE  lifecycle_status'[c] = "supported" <=> active_article_urls'[c] # {}
      BY DEF LifecycleMatchesSupport
    <2>1. c \in Claim /\ ~Touches(c, source)
      BY <1>1
    <2>2. CASE Joins(c, source, n)
      <3>1. /\ lifecycle_status'[c] = MergedLifecycle(c, other(c))
            /\ active_article_urls'[c] = active_article_urls[c] \cup active_article_urls[other(c)]
        BY <1>2, <2>1, <2>2 DEF JoinedLifecycle, other
      <3>2. lifecycle_status[other(c)] = "supported" <=> active_article_urls[other(c)] # {}
        BY <1>4, <2>1, <2>2 DEF LifecycleMatchesSupport
      <3>3. CASE c \in present
        BY <3>1, <3>2, <3>3 DEF LifecycleMatchesSupport, MergedLifecycle
      <3>4. CASE c \notin present
        BY <1>9, <2>1, <3>1, <3>2, <3>4 DEF MergedLifecycle
      <3> QED BY <3>3, <3>4
    <2>3. CASE ~Joins(c, source, n)
      BY <1>1, <1>2, <2>1, <2>3 DEF JoinedLifecycle, LifecycleMatchesSupport
    <2> QED BY <2>2, <2>3
  <1>12. QueuedHasReason'
    <2> SUFFICES ASSUME NEW c \in present', review_status'[c] = "needs_review",
                        ConflictsOf(c, live) = {}
                 PROVE  JoinedReasons(c, source, n) # {}
      BY <1>1, <1>3 DEF QueuedHasReason
    <2>1. c \in Claim /\ JoinedStatus(c, source, n) = "needs_review"
      BY <1>1, <1>3
    <2>2. \A d \in Claim : review_status[d] = "needs_review" => review_reasons[d] # {}
      BY <1>9 DEF QueuedHasReason
    <2>3. CASE Joins(c, source, n)
      <3>1. \/ {review_status[c], review_status[other(c)]} = {"accepted", "rejected"}
            \/ "needs_review" \in {review_status[c], review_status[other(c)]}
        BY <2>1, <2>3 DEF JoinedStatus, MergedReview, other
      <3>2. JoinedReasons(c, source, n) = MergedReasons(c, other(c)) /\ other(c) \in Claim
        BY <1>4, <2>1, <2>3 DEF JoinedReasons, other
      <3> QED BY <2>1, <2>2, <3>1, <3>2, MergedFacts
    <2>4. CASE ~Joins(c, source, n)
      BY <2>1, <2>2, <2>4 DEF JoinedStatus, JoinedReasons
    <2> QED BY <2>3, <2>4
  <1>13. LostSupportIsQueued'
    <2> SUFFICES ASSUME NEW c \in present', active_article_urls'[c] = {}, c \notin reviewed'
                 PROVE  /\ review_status'[c] = "needs_review"
                        /\ review_reasons'[c] \cap SupportReason # {}
      BY DEF LostSupportIsQueued
    <2>1. c \in Claim /\ ~Touches(c, source)
      BY <1>1
    <2>2. /\ JoinedStatus(c, source, n) = "needs_review"
          /\ JoinedReasons(c, source, n) \cap SupportReason # {}
      <3>1. CASE Joins(c, source, n)
        <4>1. /\ other(c) \in present /\ other(c) \in Claim /\ other(c) \notin reviewed
              /\ c \notin reviewed /\ active_article_urls[other(c)] = {}
          BY <1>1, <1>2, <1>4, <2>1, <3>1
        <4>2. /\ review_status[other(c)] = "needs_review"
              /\ review_reasons[other(c)] \cap SupportReason # {}
              /\ review_status[c] \in {"unreviewed", "needs_review"}
          BY <2>1, <4>1 DEF LostSupportIsQueued, UndecidedUntilReviewed
        <4>3. JoinedReasons(c, source, n) = MergedReasons(c, other(c))
          BY <3>1 DEF JoinedReasons, other
        <4>4. JoinedStatus(c, source, n) = "needs_review"
          BY <3>1, <4>2 DEF JoinedStatus, MergedReview, other
        <4> QED BY <2>1, <4>1, <4>2, <4>3, <4>4, MergedFacts
      <3>2. CASE ~Joins(c, source, n)
        BY <1>1, <1>2, <2>1, <3>2 DEF LostSupportIsQueued, JoinedStatus, JoinedReasons
      <3> QED BY <3>1, <3>2
    <2> QED BY <1>3, <2>1, <2>2
  <1>14. LiveConflictIsQueued'
    <2> SUFFICES ASSUME NEW c \in live, NEW d \in live
                 PROVE  /\ Inverted(c, d) =>
                             /\ review_status'[c] = "needs_review"
                             /\ "inverse_direction" \in review_reasons'[c]
                        /\ Competing(c, d) =>
                             /\ review_status'[c] = "needs_review"
                             /\ "competing_transaction_type" \in review_reasons'[c]
      BY DEF LiveConflictIsQueued, live
    <2>1. c \in Claim
      BY <1>1, <1>6
    <2>2. /\ Inverted(c, d) => "inverse_direction" \in ConflictsOf(c, live)
          /\ Competing(c, d) => "competing_transaction_type" \in ConflictsOf(c, live)
      BY ConflictsOfFacts
    <2> QED BY <1>3, <2>1, <2>2
  <1> QED BY <1>7, <1>8, <1>10, <1>11, <1>12, <1>13, <1>14

-----------------------------------------------------------------------------
(* Entity resolution.                                                      *)

MergeInv == MergeTypeOK /\ ClaimInv /\ RelatedNamesStayApart

(* Of finitely many entities, one has the last place in the listing.       *)
LEMMA LastListed ==
  ASSUME NEW holders \in SUBSET Entity, holders # {}, NEW position \in [Entity -> Entity]
  PROVE  \E n \in holders : \A m \in holders : position[m] <= position[n]
PROOF
  <1> DEFINE Later(n) == {m \in holders : position[n] < position[m]}
             sizes == {Cardinality(Later(n)) : n \in holders}
  <1>1. IsFiniteSet(holders)
    BY FiniteAssumption, FS_Subset
  <1>2. \A n \in holders : IsFiniteSet(Later(n)) /\ Cardinality(Later(n)) \in Nat
    BY <1>1, FS_Subset, FS_CardinalityType
  <1>3. PICK k \in sizes : \A l \in sizes : k <= l
    <2>1. sizes \subseteq Nat /\ sizes # {}
      BY <1>2
    <2> HIDE DEF sizes
    <2>2. PICK k \in sizes : \A l \in sizes : <<l, k>> \notin OpToRel(<, Nat)
      BY <2>1, NatLessThanWellFounded, WFMin
    <2>3. \A l \in sizes : ~(l < k)
      BY <2>1, <2>2, Zenon DEF OpToRel
    <2>4. \A l \in sizes : k <= l
      BY <2>1, <2>3
    <2> QED BY <2>4
  <1>4. PICK n \in holders : k = Cardinality(Later(n))
    BY <1>3
  <1>5. \A m \in holders : position[m] \in Nat
    BY EntityAssumption
  <1>6. ASSUME NEW m \in holders, position[n] < position[m]
        PROVE  FALSE
    <2>1. Later(m) \subseteq Later(n) /\ m \in Later(n) /\ m \notin Later(m)
      BY <1>4, <1>5, <1>6
    <2> HIDE DEF Later
    <2>2. /\ Cardinality(Later(m)) <= Cardinality(Later(n))
          /\ Cardinality(Later(m)) # Cardinality(Later(n))
      BY <1>2, <1>4, <2>1, FS_Subset
    <2>3. k <= Cardinality(Later(m))
      BY <1>3
    <2> QED BY <1>2, <1>4, <2>2, <2>3
  <1> QED BY <1>4, <1>5, <1>6

Registry ==
  [entries : SUBSET Entity, keys : [Entity -> SUBSET Entity], index : [Entity -> Entity]]

LEMMA LoadTyped ==
  ASSUME MergeTypeOK, NEW position \in Positions
  PROVE  load_from_graph(position) \in Registry
PROOF
  <1> DEFINE holders(e) == {n \in nodes : e \in Names(n)}
             index == [e \in Entity |->
               IF holders(e) = {} THEN e
               ELSE CHOOSE n \in holders(e) : \A m \in holders(e) : position[m] <= position[n]]
  <1>1. nodes \subseteq Entity /\ aliases \in [Entity -> SUBSET Entity]
    BY DEF MergeTypeOK
  <1>2. position \in [Entity -> Entity]
    BY DEF Positions
  <1>3. ASSUME NEW e \in Entity
        PROVE  index[e] \in Entity
    <2>1. CASE holders(e) = {}
      BY <2>1
    <2>2. CASE holders(e) # {}
      <3>1. holders(e) \in SUBSET Entity
        BY <1>1
      <3> HIDE DEF holders
      <3>2. \E n \in holders(e) : \A m \in holders(e) : position[m] <= position[n]
        BY <1>2, <2>2, <3>1, LastListed
      <3> QED BY <2>2, <3>1, <3>2
    <2> QED BY <2>1, <2>2
  <1>4. index \in [Entity -> Entity]
    BY <1>3
  <1>5. load_from_graph(position) =
          [entries |-> nodes,
           keys |-> [n \in Entity |-> IF n \in nodes THEN Names(n) ELSE {}],
           index |-> index]
    BY DEF load_from_graph
  <1>6. [n \in Entity |-> IF n \in nodes THEN Names(n) ELSE {}] \in [Entity -> SUBSET Entity]
    BY <1>1 DEF Names
  <1> HIDE DEF index
  <1> QED BY <1>1, <1>4, <1>5, <1>6 DEF Registry

LEMMA NamedIsEntity ==
  ASSUME NEW mentions \in SUBSET Mention
  PROVE  NamedIn(mentions) \subseteq Entity
  BY MentionAssumption DEF NamedIn

LEMMA RegistryAfterTyped ==
  ASSUME registry \in Registry, NEW mentions \in SUBSET Mention,
         NEW resolved \in [Entity -> Entity]
  PROVE  RegistryAfter(mentions, resolved) \in Registry
PROOF
  <1>1. NamedIn(mentions) \subseteq Entity
    BY NamedIsEntity
  <1>2. /\ registry.entries \subseteq Entity
        /\ registry.keys \in [Entity -> SUBSET Entity]
        /\ registry.index \in [Entity -> Entity]
    BY DEF Registry
  <1> QED BY <1>1, <1>2 DEF RegistryAfter, Registry

(* What an article emits are claims between the entities its names resolve *)
(* to.                                                                     *)
LEMMA EmittedIsClaim ==
  ASSUME NEW mentions \in SUBSET Mention, NEW resolved \in [Entity -> Entity],
         NEW c \in EmittedBy(mentions, resolved)
  PROVE  /\ c \in Claim
         /\ {c.source, c.target} \subseteq {resolved[e] : e \in NamedIn(mentions)}
PROOF
  <1>1. PICK m \in mentions :
          /\ resolved[m.source] # resolved[m.target]
          /\ c = claim_endpoint_ids([m EXCEPT !.source = resolved[@], !.target = resolved[@]])
    BY DEF EmittedBy
  <1> DEFINE d == [m EXCEPT !.source = resolved[@], !.target = resolved[@]]
             Shape == [relationship : {k.relationship : k \in Mention},
                       source : Entity, target : Entity]
  <1>2. /\ m \in Mention /\ m \in Shape
        /\ m.source \in NamedIn(mentions) /\ m.target \in NamedIn(mentions)
    BY MentionAssumption DEF NamedIn
  <1>3. d \in Shape /\ d.source = resolved[m.source] /\ d.target = resolved[m.target]
    BY <1>2
  <1>4. d \in Claim
    <2> HIDE DEF d
    <2> QED BY <1>1, <1>3 DEF Claim
  <1>5. c = d \/ c = [relationship |-> d.relationship, source |-> d.target, target |-> d.source]
    <2> HIDE DEF d
    <2>1. c = claim_endpoint_ids(d)
      BY <1>1 DEF d
    <2> QED BY <2>1 DEF claim_endpoint_ids
  <1> HIDE DEF d, Shape
  <1>6. c \in Claim /\ {c.source, c.target} = {d.source, d.target}
    BY <1>4, <1>5 DEF Claim
  <1> QED BY <1>2, <1>3, <1>6

(* Of two names an article relates, the one resolved second cannot take    *)
(* what the first one has, and the first one cannot take the name of the   *)
(* second.                                                                 *)
LEMMA ResolutionsApart ==
  ASSUME NEW mentions \in SUBSET Mention, NEW resolved \in Resolutions(mentions),
         NEW m \in mentions, m.source # m.target
  PROVE  resolved[m.source] # resolved[m.target]
PROOF
  <1>1. ASSUME NEW e \in NamedIn(mentions)
        PROVE  /\ e \in Entity
               /\ \/ resolved[e] = e
                  \/ ~BlockedByArticle(mentions, resolved, e, resolved[e])
    BY <1>1, NamedIsEntity DEF Resolutions, Resolves
  <1>2. ASSUME NEW e \in NamedIn(mentions), NEW f \in NamedIn(mentions), e < f,
               f \in Neighbors(mentions, e), e \in Neighbors(mentions, f)
        PROVE  resolved[e] # resolved[f]
    <2> SUFFICES ASSUME resolved[e] = resolved[f]
                 PROVE  FALSE
      OBVIOUS
    <2>1. e # f
      BY <1>2 DEF Neighbors
    <2>2. BlockedByArticle(mentions, resolved, f, resolved[f])
      BY <1>2 DEF BlockedByArticle
    <2>3. resolved[e] = f
      BY <1>1, <2>2
    <2>4. BlockedByArticle(mentions, resolved, e, resolved[e])
      BY <1>2, <2>3 DEF BlockedByArticle
    <2> QED BY <1>1, <2>1, <2>3, <2>4
  <1>3. /\ m.source \in NamedIn(mentions) /\ m.target \in NamedIn(mentions)
        /\ m.source \in Nat /\ m.target \in Nat
        /\ m.source \in Neighbors(mentions, m.target)
        /\ m.target \in Neighbors(mentions, m.source)
    <2>1. /\ m.source \in Entity /\ m.target \in Entity
          /\ m.source \in NamedIn(mentions) /\ m.target \in NamedIn(mentions)
      BY MentionAssumption DEF NamedIn
    <2>2. {m.source, m.target} = {m.target, m.source}
      OBVIOUS
    <2>3. m.source \in Neighbors(mentions, m.target)
      BY <2>1, <2>2 DEF Neighbors
    <2>4. m.target \in Neighbors(mentions, m.source)
      BY <2>1 DEF Neighbors
    <2> QED BY <2>1, <2>3, <2>4, EntityAssumption
  <1>4. m.source < m.target \/ m.target < m.source
    BY <1>3
  <1> QED BY <1>2, <1>3, <1>4

-----------------------------------------------------------------------------
(* Every step of the graph, the resolver and its corrections keeps what    *)
(* is known of the claims, and of the names under resolution.              *)

LEMMA UnchangedKeepsClaims ==
  ASSUME ClaimInv, UNCHANGED vars
  PROVE  ClaimInv'
  BY DEF vars, ClaimInv, TypeOK, AbsentIsClean, UndecidedUntilReviewed,
         LifecycleMatchesSupport, QueuedHasReason, LostSupportIsQueued, LiveConflictIsQueued

LEMMA StartPreserves ==
  ASSUME MergeInv, NEW batch \in SUBSET budget.articles, NEW position \in Positions,
         StartIngest(batch, position)
  PROVE  MergeInv'
PROOF
  <1> USE DEF MergeInv
  <1>1. ClaimInv'
    BY UnchangedKeepsClaims DEF StartIngest
  <1>2. registry' \in Registry
    BY LoadTyped DEF StartIngest
  <1>3. pending = {} /\ pending' = pending
    BY DEF StartIngest, MergeTypeOK
  <1>4. todo' \subseteq Article /\ runs' \in 0..budget'.runs
    BY BoundsAssumption DEF StartIngest, MergeTypeOK
  <1>5. /\ UNCHANGED <<present, nodes, aliases, edits, reviews, budget>>
        /\ Cardinality(pending') <= 1
    BY DEF StartIngest, MergeTypeOK, vars
  <1>6. MergeTypeOK'
    BY <1>1, <1>2, <1>3, <1>4, <1>5 DEF MergeTypeOK, ClaimInv, Registry
  <1>7. RelatedNamesStayApart'
    BY <1>3 DEF RelatedNamesStayApart
  <1> QED BY <1>1, <1>6, <1>7

LEMMA ResolvePreserves ==
  ASSUME MergeInv, NEW a \in todo, NEW mentions \in SUBSET Mention,
         NEW resolved \in Resolutions(mentions), ResolveArticle(a, mentions, resolved)
  PROVE  MergeInv'
PROOF
  <1> USE DEF MergeInv
  <1>1. ClaimInv'
    BY UnchangedKeepsClaims DEF ResolveArticle
  <1>2. resolved \in [Entity -> Entity]
    BY DEF Resolutions
  <1>3. registry' \in Registry
    BY <1>2, RegistryAfterTyped DEF ResolveArticle, MergeTypeOK, Registry
  <1>4. /\ pending' = {[article |-> a, mentions |-> mentions, resolved |-> resolved]}
        /\ UNCHANGED <<present, nodes, aliases, todo, runs, edits, reviews, budget>>
    BY DEF ResolveArticle, vars
  <1>5. Cardinality(pending') <= 1
    <2>1. PICK p : pending' = {p}
      BY <1>4
    <2>2. Cardinality({p}) = 1
      BY FS_Singleton
    <2> QED BY <2>1, <2>2
  <1>6. pending' \subseteq [article : todo', mentions : SUBSET Mention,
                            resolved : [Entity -> Entity]]
    BY <1>2, <1>4
  <1>7. MergeTypeOK'
    BY <1>1, <1>3, <1>4, <1>5, <1>6 DEF MergeTypeOK, ClaimInv, Registry
  <1>8. RelatedNamesStayApart'
    BY <1>4, ResolutionsApart DEF RelatedNamesStayApart
  <1> QED BY <1>1, <1>7, <1>8

(* The end of an article's turn under the resolver lock. *)
LEMMA FinishTyped ==
  ASSUME MergeInv, NEW p \in pending, FinishArticle(p)
  PROVE  /\ pending' = {} /\ Cardinality(pending') <= 1
         /\ todo' \subseteq Article
         /\ registry' \in Registry
         /\ UNCHANGED <<runs, edits, reviews, budget>>
PROOF
  <1>1. NoRegistry \in Registry
    BY DEF NoRegistry, Registry
  <1> QED BY <1>1, FS_EmptySet DEF FinishArticle, MergeInv, MergeTypeOK, Registry

LEMMA WritePreserves ==
  ASSUME MergeInv, NEW p \in pending, WriteArticle(p)
  PROVE  /\ MergeInv'
         /\ p.article \in Article
         /\ EmittedBy(p.mentions, p.resolved) \in SUBSET Claim
         /\ IngestArticle(p.article, EmittedBy(p.mentions, p.resolved))
PROOF
  <1> USE DEF MergeInv
  <1> DEFINE emitted == EmittedBy(p.mentions, p.resolved)
             written == {p.resolved[e] : e \in NamedIn(p.mentions)}
  <1>1. /\ p.article \in Article /\ p.mentions \in SUBSET Mention
        /\ p.resolved \in [Entity -> Entity]
    BY DEF MergeTypeOK
  <1>2. written \subseteq Entity
    BY <1>1, NamedIsEntity
  <1>3. \A c \in emitted : c \in Claim /\ {c.source, c.target} \subseteq written
    BY <1>1, EmittedIsClaim
  <1>4. /\ FinishArticle(p)
        /\ nodes' = nodes \cup written
        /\ aliases' = [n \in Entity |-> IF n \in written
                                        THEN aliases[n] \cup (registry.keys[n] \ {n})
                                        ELSE aliases[n]]
        /\ IngestArticle(p.article, emitted)
    BY DEF WriteArticle
  <1> HIDE DEF emitted, written
  <1>5. ClaimInv'
    BY <1>1, <1>3, <1>4, IngestPreserves
  <1>6. nodes' \subseteq Entity /\ aliases' \in [Entity -> SUBSET Entity]
    BY <1>2, <1>4 DEF MergeTypeOK
  <1>7. \A e \in Entity \ nodes' : aliases'[e] = {}
    BY <1>4 DEF MergeTypeOK
  <1>8. \A c \in present' : {c.source, c.target} \subseteq nodes'
    BY <1>3, <1>4 DEF IngestArticle, MergeTypeOK
  <1>9. MergeTypeOK'
    BY <1>4, <1>5, <1>6, <1>7, <1>8, FinishTyped DEF MergeTypeOK, ClaimInv, Registry
  <1>10. RelatedNamesStayApart'
    BY <1>4, FinishTyped DEF RelatedNamesStayApart
  <1> QED BY <1>1, <1>3, <1>4, <1>5, <1>9, <1>10 DEF emitted

LEMMA FailPreserves ==
  ASSUME MergeInv, NEW p \in pending, FailArticle(p)
  PROVE  MergeInv'
PROOF
  <1>1. ClaimInv'
    BY UnchangedKeepsClaims DEF FailArticle, MergeInv
  <1>2. FinishArticle(p) /\ UNCHANGED <<present, nodes, aliases>>
    BY DEF FailArticle, vars
  <1>3. MergeTypeOK'
    BY <1>1, <1>2, FinishTyped DEF MergeInv, MergeTypeOK, ClaimInv, Registry
  <1>4. RelatedNamesStayApart'
    BY <1>2, FinishTyped DEF RelatedNamesStayApart
  <1> QED BY <1>1, <1>3, <1>4 DEF MergeInv

(* An alias that another entity has merges that one into n.                *)
LEMMA AliasCases ==
  ASSUME MergeInv, NEW n \in nodes, NEW name \in Entity, add_alias(n, name)
  PROVE  /\ UNCHANGED <<registry, todo, pending, runs, budget, reviews>>
         /\ edits' \in 0..budget.edits
         /\ \/ /\ UNCHANGED <<vars, nodes>>
               /\ aliases' = [aliases EXCEPT ![n] = @ \cup ({name} \ {n})]
            \/ \E source \in nodes \ {n} :
                 /\ nodes' = nodes \ {source}
                 /\ aliases' = [aliases EXCEPT ![n] = (@ \cup Names(source)) \ {n},
                                               ![source] = {}]
                 /\ MergeClaims(source, n)
PROOF
  <1>1. edits' \in 0..budget.edits
    BY BoundsAssumption DEF add_alias, MergeInv, MergeTypeOK
  <1> QED BY <1>1 DEF add_alias, ingestVars

LEMMA AliasPreserves ==
  ASSUME MergeInv, NEW n \in nodes, NEW name \in Entity, add_alias(n, name)
  PROVE  MergeInv'
PROOF
  <1> USE DEF MergeInv
  <1>1. /\ UNCHANGED <<registry, todo, pending, runs, budget, reviews>>
        /\ edits' \in 0..budget.edits
    BY AliasCases
  <1>2. RelatedNamesStayApart'
    BY <1>1 DEF RelatedNamesStayApart
  <1>3. Cardinality(pending') <= 1
    BY <1>1 DEF MergeTypeOK
  <1>4. n \in Entity /\ nodes \subseteq Entity /\ aliases \in [Entity -> SUBSET Entity]
    BY DEF MergeTypeOK
  <1>5. CASE /\ UNCHANGED <<vars, nodes>>
             /\ aliases' = [aliases EXCEPT ![n] = @ \cup ({name} \ {n})]
    <2>1. ClaimInv'
      BY <1>5, UnchangedKeepsClaims
    <2>2. /\ aliases' \in [Entity -> SUBSET Entity]
          /\ \A e \in Entity \ nodes' : aliases'[e] = {}
      BY <1>4, <1>5 DEF MergeTypeOK
    <2>3. UNCHANGED <<present, nodes>>
      BY <1>5 DEF vars
    <2>4. MergeTypeOK'
      BY <1>1, <1>3, <2>1, <2>2, <2>3 DEF MergeTypeOK, ClaimInv
    <2> QED BY <1>2, <2>1, <2>4
  <1>6. ASSUME NEW source \in nodes \ {n}, nodes' = nodes \ {source},
               aliases' = [aliases EXCEPT ![n] = (@ \cup Names(source)) \ {n},
                                          ![source] = {}],
               MergeClaims(source, n)
        PROVE  MergeInv'
    <2>1. source \in Entity /\ source # n /\ TypeOK
      BY <1>4 DEF ClaimInv
    <2>2. ClaimInv'
      BY <1>4, <1>6, <2>1, MergePreserves
    <2>3. /\ aliases' \in [Entity -> SUBSET Entity]
          /\ \A e \in Entity \ nodes' : aliases'[e] = {}
      BY <1>4, <1>6, <2>1 DEF MergeTypeOK, Names
    <2>4. ASSUME NEW c \in present'
          PROVE  {c.source, c.target} \subseteq nodes'
      <3>1. /\ c \in Claim /\ ~Touches(c, source)
            /\ c \in present \/ Joins(c, source, n)
        BY <1>4, <1>6, <2>1, MergeFacts
      <3>2. CASE c \in present
        BY <1>6, <3>1, <3>2 DEF MergeTypeOK, Touches
      <3>3. CASE Joins(c, source, n)
        <4>1. c \in {Redirect(d, source, n) : d \in Moved(source, n)}
          BY <1>4, <2>1, <3>1, <3>3, JoinsFacts
        <4>2. PICK d \in Moved(source, n) : c = Redirect(d, source, n)
          BY <4>1
        <4>3. /\ d \in present /\ d \in Claim
              /\ d.source \in nodes /\ d.target \in nodes
          BY <2>1, <4>2 DEF Moved, MergeTypeOK, TypeOK
        <4>4. /\ c.source = IF d.source = source THEN n ELSE d.source
              /\ c.target = IF d.target = source THEN n ELSE d.target
          BY <4>2, <4>3 DEF Redirect, Claim
        <4> QED BY <1>6, <2>1, <4>3, <4>4
      <3> QED BY <3>1, <3>2, <3>3
    <2>5. MergeTypeOK'
      BY <1>1, <1>3, <1>4, <1>6, <2>2, <2>3, <2>4 DEF MergeTypeOK, ClaimInv
    <2> QED BY <1>2, <2>2, <2>5
  <1> QED BY <1>5, <1>6, AliasCases

LEMMA UnaliasPreserves ==
  ASSUME MergeInv, NEW n \in nodes, NEW name \in Entity, remove_alias(n, name)
  PROVE  MergeInv'
PROOF
  <1> USE DEF MergeInv
  <1>1. ClaimInv'
    BY UnchangedKeepsClaims DEF remove_alias
  <1>2. UNCHANGED <<present, nodes, registry, todo, pending, runs, budget, reviews>>
    BY DEF remove_alias, vars, ingestVars
  <1>3. edits' \in 0..budget.edits
    BY BoundsAssumption DEF remove_alias, MergeTypeOK
  <1>4. /\ aliases' \in [Entity -> SUBSET Entity]
        /\ \A e \in Entity \ nodes : aliases'[e] = {}
    BY DEF remove_alias, MergeTypeOK
  <1>5. MergeTypeOK'
    BY <1>1, <1>2, <1>3, <1>4 DEF MergeTypeOK, ClaimInv
  <1>6. RelatedNamesStayApart'
    BY <1>2 DEF RelatedNamesStayApart
  <1> QED BY <1>1, <1>5, <1>6

(* The steps of ClaimStore that touch neither entities nor names.          *)
LEMMA ClaimStepPreserves ==
  ASSUME MergeInv, ClaimInv', present' \subseteq present,
         UNCHANGED <<nodes, aliases, ingestVars, edits>>,
         reviews' \in 0..budget.reviews
  PROVE  MergeInv'
PROOF
  <1>1. UNCHANGED <<nodes, aliases, registry, todo, pending, runs, budget, edits>>
    BY DEF ingestVars
  <1>2. MergeTypeOK'
    BY <1>1 DEF MergeInv, MergeTypeOK, ClaimInv
  <1>3. RelatedNamesStayApart'
    BY <1>1 DEF MergeInv, RelatedNamesStayApart
  <1> QED BY <1>2, <1>3 DEF MergeInv

LEMMA ClearMergePreserves ==
  ASSUME MergeInv, Clear
  PROVE  MergeInv'
PROOF
  <1>1. ClaimInv'
    BY ClearPreserves DEF Clear, IInv
  <1>2. /\ UNCHANGED <<registry, todo, pending, runs, budget, edits, reviews>>
        /\ present' = {} /\ nodes' = {} /\ aliases' = [e \in Entity |-> {}]
    BY DEF Clear, clear_all, ingestVars
  <1>3. MergeTypeOK'
    BY <1>1, <1>2 DEF MergeInv, MergeTypeOK, ClaimInv
  <1>4. RelatedNamesStayApart'
    BY <1>2 DEF MergeInv, RelatedNamesStayApart
  <1> QED BY <1>1, <1>3, <1>4 DEF MergeInv

LEMMA MergeNextPreserves ==
  ASSUME MergeInv, [MergeNext]_mergeVars
  PROVE  MergeInv'
PROOF
  <1>1. CASE \E batch \in SUBSET budget.articles, position \in Positions :
               StartIngest(batch, position)
    BY <1>1, StartPreserves
  <1>2. CASE \E a \in todo, mentions \in SUBSET Mention :
               \E resolved \in Resolutions(mentions) : ResolveArticle(a, mentions, resolved)
    BY <1>2, ResolvePreserves
  <1>3. CASE \E p \in pending : WriteArticle(p) \/ FailArticle(p)
    BY <1>3, WritePreserves, FailPreserves
  <1>4. CASE \E n \in nodes, name \in Entity : add_alias(n, name) \/ remove_alias(n, name)
    BY <1>4, AliasPreserves, UnaliasPreserves
  <1>5. CASE \E c \in present, decision \in Decision : Review(c, decision)
    <2>1. PICK c \in present, decision \in Decision : Review(c, decision)
      BY <1>5
    <2>2. c \in Claim
      BY DEF MergeInv, ClaimInv, TypeOK
    <2>3. ClaimInv' /\ present' = present
      BY <2>1, <2>2, ReviewPreserves DEF Review, MergeInv, review_claim
    <2>4. reviews' \in 0..budget.reviews
      BY <2>1, BoundsAssumption DEF Review, MergeInv, MergeTypeOK
    <2> QED BY <2>1, <2>3, <2>4, ClaimStepPreserves DEF Review
  <1>6. CASE \E reason \in ConflictReason : Refresh(reason)
    <2>1. PICK reason \in ConflictReason : Refresh(reason)
      BY <1>6
    <2>2. ClaimInv' /\ present' = present
      BY <2>1, RefreshPreserves DEF Refresh, MergeInv, refresh_claim_conflicts
    <2> QED BY <2>1, <2>2, ClaimStepPreserves DEF Refresh, MergeInv, MergeTypeOK
  <1>7. CASE Clear
    BY <1>7, ClearMergePreserves
  <1>8. CASE UNCHANGED mergeVars
    <2>1. ClaimInv'
      BY <1>8, UnchangedKeepsClaims DEF mergeVars, MergeInv
    <2>2. present' = present /\ UNCHANGED <<nodes, aliases, ingestVars, edits, reviews>>
      BY <1>8 DEF mergeVars, vars
    <2> QED BY <2>1, <2>2, ClaimStepPreserves DEF MergeInv, MergeTypeOK
  <1> QED BY <1>1, <1>2, <1>3, <1>4, <1>5, <1>6, <1>7, <1>8 DEF MergeNext

LEMMA MergeInitEstablishes ==
  ASSUME MergeInit
  PROVE  MergeInv
PROOF
  <1>1. ClaimInv
    BY InitEstablishes DEF MergeInit, IInv
  <1>2. NoRegistry \in Registry
    BY DEF NoRegistry, Registry
  <1>3. pending = {} /\ Cardinality(pending) <= 1
    BY FS_EmptySet DEF MergeInit
  <1>4. MergeTypeOK
    BY <1>1, <1>2, <1>3, BoundsAssumption DEF MergeInit, MergeTypeOK, ClaimInv, Registry
  <1> QED BY <1>1, <1>3, <1>4 DEF MergeInv, RelatedNamesStayApart

-----------------------------------------------------------------------------
(* What the graph promises while entities are resolved and merged.         *)

(* MergeInv holds throughout every behaviour with ingests and merges.      *)
THEOREM MergeInvariant == MergeSpec => []MergeInv
PROOF
  <1>1. MergeInit => MergeInv
    BY MergeInitEstablishes
  <1>2. MergeInv /\ [MergeNext]_mergeVars => MergeInv'
    BY MergeNextPreserves
  <1> QED BY <1>1, <1>2, PTL DEF MergeSpec

(* Entities, aliases, resolver and claims stay well-formed: no relationship *)
(* is left at an entity a merge removed.                                   *)
THEOREM MergeTypeCorrect == MergeSpec => []MergeTypeOK
  BY MergeInvariant, PTL DEF MergeInv

(* Merges leave a lifecycle that says what the joined support says.        *)
THEOREM MergedLifecycleFollowsSupport == MergeSpec => []LifecycleMatchesSupport
  BY MergeInvariant, PTL DEF MergeInv, ClaimInv

(* Merges put no card into the review queue without a reason.              *)
THEOREM MergedQueueHasReasons == MergeSpec => []QueuedHasReason
  BY MergeInvariant, PTL DEF MergeInv, ClaimInv

(* A merge does not hide that a claim nobody reviewed lost its support.    *)
THEOREM MergedLostSupportIsQueued == MergeSpec => []LostSupportIsQueued
  BY MergeInvariant, PTL DEF MergeInv, ClaimInv

(* Nor does it bring together contradicting claims nobody reviewed that    *)
(* are not queued.                                                         *)
THEOREM MergedConflictsAreQueued == MergeSpec => []LiveConflictIsQueued
  BY MergeInvariant, PTL DEF MergeInv, ClaimInv

(* Two names an article relates never resolve to one entity, however stale *)
(* the registry is.                                                        *)
THEOREM RelatedNamesNeverMeet == MergeSpec => []RelatedNamesStayApart
  BY MergeInvariant, PTL DEF MergeInv

(* The claim that one of the carried claims of a merge becomes.            *)
LEMMA CarriedFacts ==
  ASSUME ClaimInv, NEW source \in Entity, NEW n \in Entity, source # n,
         MergeClaims(source, n), NEW c \in Carried(source, n),
         NEW r, r = Redirect(c, source, n)
  PROVE  /\ c \in Claim /\ c \in present
         /\ r \in present' /\ r \in Claim /\ ~Touches(r, source)
         /\ \/ r = c
            \/ Joins(r, source, n) /\ c = Redirect(r, n, source)
PROOF
  <1>1. /\ c \in present /\ c \in Claim /\ TypeOK
        /\ Touches(c, source) => ~Touches(c, n)
    BY DEF Carried, ClaimInv, TypeOK
  <1>2. CASE Touches(c, source)
    <2>1. c \in Moved(source, n) /\ r \in Claim /\ ~Touches(r, source) /\ c = Redirect(r, n, source)
      BY <1>1, <1>2, RedirectFacts DEF Moved
    <2>2. Joins(r, source, n)
      BY <1>1, <2>1, JoinsFacts
    <2> QED BY <1>1, <2>1, <2>2, MergeFacts
  <1>3. CASE ~Touches(c, source)
    <2>1. r = c
      BY <1>1, <1>3, RedirectFacts
    <2> QED BY <1>1, <1>3, <2>1, MergeFacts
  <1> QED BY <1>2, <1>3

(* The alias edit that removes an entity merges it into the one that is    *)
(* given the name.                                                         *)
LEMMA RemovalMerges ==
  ASSUME MergeInv, NEW source \in nodes \ nodes', NEW n \in nodes', NEW name \in Entity,
         add_alias(n, name)
  PROVE  /\ source \in Entity /\ n \in Entity /\ source # n
         /\ MergeClaims(source, n)
PROOF
  <1>1. n \in nodes /\ nodes \subseteq Entity
    BY DEF add_alias, MergeInv, MergeTypeOK
  <1>2. \E other \in nodes \ {n} : nodes' = nodes \ {other} /\ MergeClaims(other, n)
    BY <1>1, AliasCases
  <1> QED BY <1>1, <1>2

(* A merge loses no support.                                               *)
THEOREM SupportSurvivesMerges == MergeSpec => MergeKeepsSupport
PROOF
  <1> DEFINE Step ==
        \A source \in nodes \ nodes', n \in nodes', name \in Entity :
          add_alias(n, name) =>
            \A c \in Carried(source, n) :
              /\ Redirect(c, source, n) \in present'
              /\ active_article_urls[c] \subseteq active_article_urls'[Redirect(c, source, n)]
  <1>1. ASSUME MergeInv
        PROVE  Step
    <2> SUFFICES ASSUME NEW source \in nodes \ nodes', NEW n \in nodes', NEW name \in Entity,
                        add_alias(n, name), NEW c \in Carried(source, n),
                        NEW r, r = Redirect(c, source, n)
                 PROVE  r \in present' /\ active_article_urls[c] \subseteq active_article_urls'[r]
      OBVIOUS
    <2>1. /\ source \in Entity /\ n \in Entity /\ source # n
          /\ MergeClaims(source, n) /\ ClaimInv /\ TypeOK
      BY <1>1, RemovalMerges DEF MergeInv, ClaimInv
    <2>2. /\ r \in present' /\ r \in Claim /\ ~Touches(r, source)
          /\ r = c \/ (Joins(r, source, n) /\ c = Redirect(r, n, source))
      BY <2>1, CarriedFacts
    <2>3. active_article_urls'[r] = IF Joins(r, source, n)
                                    THEN active_article_urls[r]
                                           \cup active_article_urls[Redirect(r, n, source)]
                                    ELSE active_article_urls[r]
      <3>1. active_article_urls' = [d \in Claim |->
              IF Touches(d, source) THEN {}
              ELSE IF Joins(d, source, n)
              THEN active_article_urls[d] \cup active_article_urls[Redirect(d, n, source)]
              ELSE active_article_urls[d]]
        BY <2>1, MergeFacts
      <3> QED BY <2>2, <3>1
    <2> QED BY <2>2, <2>3
  <1>2. MergeInv /\ [MergeNext]_mergeVars => [Step]_mergeVars
    BY <1>1
  <1> QED BY <1>2, MergeInvariant, PTL DEF MergeSpec, MergeKeepsSupport

(* A merge overrules no rejection without asking.                          *)
THEOREM RejectionsSurviveMerges == MergeSpec => MergeKeepsRejections
PROOF
  <1> DEFINE Kept(d) ==
        \/ review_status'[d] = "rejected"
        \/ /\ review_status'[d] = "needs_review"
           /\ "manual_entity_merge_conflict" \in review_reasons'[d]
  <1> DEFINE Step ==
        \A source \in nodes \ nodes', n \in nodes', name \in Entity :
          add_alias(n, name) =>
            \A c \in Carried(source, n) :
              LET d == Redirect(c, source, n) IN review_status[c] = "rejected" => Kept(d)
  <1>1. ASSUME MergeInv
        PROVE  Step
    <2> SUFFICES ASSUME NEW source \in nodes \ nodes', NEW n \in nodes', NEW name \in Entity,
                        add_alias(n, name), NEW c \in Carried(source, n),
                        NEW r, r = Redirect(c, source, n), review_status[c] = "rejected"
                 PROVE  Kept(r)
      OBVIOUS
    <2>1. /\ source \in Entity /\ n \in Entity /\ source # n
          /\ MergeClaims(source, n) /\ ClaimInv /\ TypeOK
      BY <1>1, RemovalMerges DEF MergeInv, ClaimInv
    <2>2. /\ r \in Claim /\ ~Touches(r, source)
          /\ r = c \/ (Joins(r, source, n) /\ c = Redirect(r, n, source))
      BY <2>1, CarriedFacts
    <2> DEFINE live == Live(present', lifecycle_status', review_status')
               s == Redirect(r, n, source)
    <2>3. /\ review_status'[r] = IF ConflictsOf(r, live) # {} THEN "needs_review"
                                 ELSE JoinedStatus(r, source, n)
          /\ JoinedReasons(r, source, n) \subseteq review_reasons'[r]
          /\ r \in live => JoinedStatus(r, source, n) # "rejected"
      BY <2>1, <2>2, MergeFacts
    <2>4. ConflictsOf(r, live) # {} => r \in live
      BY ConflictsOfFacts
    <2> HIDE DEF live
    <2>5. CASE Joins(r, source, n)
      <3>1. s \in Claim /\ "rejected" \in {review_status[r], review_status[s]}
        BY <2>1, <2>2, <2>5, JoinsFacts
      <3>2. /\ JoinedStatus(r, source, n) = MergedReview(review_status[r], review_status[s])
            /\ JoinedReasons(r, source, n) = MergedReasons(r, s)
        BY <2>5 DEF JoinedStatus, JoinedReasons
      <3>3. CASE {review_status[r], review_status[s]} = {"accepted", "rejected"}
        <4>1. JoinedStatus(r, source, n) = "needs_review"
          BY <3>2, <3>3 DEF MergedReview
        <4>2. "manual_entity_merge_conflict" \in MergedReasons(r, s)
          BY <2>1, <2>2, <3>1, <3>3, MergedFacts
        <4> QED BY <2>3, <3>2, <4>1, <4>2
      <3>4. CASE {review_status[r], review_status[s]} # {"accepted", "rejected"}
        <4>1. JoinedStatus(r, source, n) = "rejected"
          BY <3>1, <3>2, <3>4 DEF MergedReview
        <4> QED BY <2>3, <2>4, <4>1
      <3> QED BY <3>3, <3>4
    <2>6. CASE ~Joins(r, source, n)
      BY <2>2, <2>3, <2>4, <2>6 DEF JoinedStatus
    <2> QED BY <2>5, <2>6
  <1>2. MergeInv /\ [MergeNext]_mergeVars => [Step]_mergeVars
    BY <1>1
  <1> QED BY <1>2, MergeInvariant, PTL DEF MergeSpec, MergeKeepsRejections

-----------------------------------------------------------------------------
(* EntityMerge implements MergePromise.                                    *)

(* The claims of a set under their new names, seen from the claim that     *)
(* carries the new name: it had it before, or one of source moves onto it. *)
LEMMA RenamedFacts ==
  ASSUME NEW source \in Entity, NEW n \in Entity, source # n,
         NEW claims \in SUBSET Claim, NEW r \in Claim
  PROVE  r \in MergedPromise!Renamed(claims, source, n) <=>
           /\ ~Touches(r, source)
           /\ r \in claims \/ (Touches(r, n) /\ Redirect(r, n, source) \in claims)
PROOF
  <1>1. MergedPromise!Renamed(claims, source, n) =
          {Redirect(c, source, n) : c \in {d \in claims : ~(Touches(d, source) /\ Touches(d, n))}}
    <2>1. \A c \in Claim : {c.source, c.target} # {source, n} <=>
                             ~(Touches(c, source) /\ Touches(c, n))
      BY DEF Touches, Claim
    <2> QED BY <2>1 DEF MergedPromise!Renamed, MergedPromise!Rename, MergedPromise!Ends, Redirect
  <1>2. ASSUME r \in MergedPromise!Renamed(claims, source, n)
        PROVE  /\ ~Touches(r, source)
               /\ r \in claims \/ (Touches(r, n) /\ Redirect(r, n, source) \in claims)
    <2>1. PICK c \in claims : /\ ~(Touches(c, source) /\ Touches(c, n))
                              /\ r = Redirect(c, source, n)
      BY <1>1, <1>2
    <2> QED BY <2>1, RedirectFacts
  <1>3. ASSUME ~Touches(r, source), r \in claims
        PROVE  r \in MergedPromise!Renamed(claims, source, n)
    <2>1. r = Redirect(r, source, n)
      BY <1>3, RedirectFacts
    <2> QED BY <1>1, <1>3, <2>1
  <1>4. ASSUME ~Touches(r, source), Touches(r, n), Redirect(r, n, source) \in claims
        PROVE  r \in MergedPromise!Renamed(claims, source, n)
    <2>1. /\ ~Touches(Redirect(r, n, source), n)
          /\ r = Redirect(Redirect(r, n, source), source, n)
      BY <1>4, RedirectFacts
    <2> QED BY <1>1, <1>4, <2>1
  <1> QED BY <1>2, <1>3, <1>4

(* A renaming yields claims.                                               *)
LEMMA RenamedAreClaims ==
  ASSUME NEW source \in Entity, NEW n \in Entity, source # n, NEW claims \in SUBSET Claim
  PROVE  MergedPromise!Renamed(claims, source, n) \subseteq Claim
PROOF
  <1>1. ASSUME NEW c \in Claim, {c.source, c.target} # {source, n}
        PROVE  Redirect(c, source, n) \in Claim
    <2>1. Touches(c, source) => ~Touches(c, n)
      BY <1>1 DEF Touches, Claim
    <2> QED BY <2>1, RedirectFacts
  <1> QED BY <1>1 DEF MergedPromise!Renamed, MergedPromise!Rename, MergedPromise!Ends, Redirect

LEMMA MergeRenames ==
  ASSUME ClaimInv, NEW source \in Entity, NEW n \in Entity, source # n,
         MergeClaims(source, n)
  PROVE  MergedPromise!Merge(source, n)
PROOF
  <1> DEFINE Renamed(claims) == MergedPromise!Renamed(claims, source, n)
             other(c) == Redirect(c, n, source)
             live == Live(present', lifecycle_status', review_status')
  <1> USE DEF ClaimInv
  <1>1. /\ ClaimInv' /\ TypeOK
        /\ present \in SUBSET Claim /\ present' \in SUBSET Claim
    BY MergePreserves DEF TypeOK
  <1>2. ASSUME NEW claims \in SUBSET Claim
        PROVE  /\ Renamed(claims) \subseteq Claim
               /\ \A r \in Claim : r \in Renamed(claims) <=>
                    /\ ~Touches(r, source)
                    /\ r \in claims \/ (Touches(r, n) /\ other(r) \in claims)
    BY RenamedFacts, RenamedAreClaims
  <1>3. /\ present' = {c \in Claim : /\ ~Touches(c, source)
                                     /\ c \in present \/ Joins(c, source, n)}
        /\ active_article_urls' = [c \in Claim |->
             IF Touches(c, source) THEN {}
             ELSE IF Joins(c, source, n)
             THEN active_article_urls[c] \cup active_article_urls[other(c)]
             ELSE active_article_urls[c]]
    BY MergeFacts
  <1>4. /\ review_status' = [c \in Claim |->
             IF ConflictsOf(c, live) # {} THEN "needs_review"
             ELSE IF Touches(c, source) THEN "unreviewed"
             ELSE JoinedStatus(c, source, n)]
        /\ \A c \in live : JoinedStatus(c, source, n) # "rejected"
    BY MergeFacts
  <1>5. \A c \in Claim : Joins(c, source, n) <=>
          ~Touches(c, source) /\ Touches(c, n) /\ other(c) \in present
    BY DEF Joins
  <1>6. \A c : c \notin live => ConflictsOf(c, live) = {}
    BY ConflictsOfFacts
  <1>7. \A c \in Claim \ present : /\ active_article_urls[c] = {}
                                   /\ review_status[c] = "unreviewed"
    BY DEF AbsentIsClean
  <1> HIDE DEF Renamed, live, other
  <1>8. present' = Renamed(present)
    BY <1>1, <1>2, <1>3, <1>5
  <1>9. latest' = [a \in Article |-> Renamed(latest[a])]
    <2>1. ASSUME NEW a \in Article
          PROVE  {c \in present' : a \in active_article_urls'[c]} =
                   Renamed({c \in present : a \in active_article_urls[c]})
      <3> DEFINE found == {c \in present : a \in active_article_urls[c]}
      <3>1. found \in SUBSET Claim
        BY <1>1
      <3>2. ASSUME NEW r \in Claim
            PROVE  r \in present' /\ a \in active_article_urls'[r] <=>
                     /\ ~Touches(r, source)
                     /\ r \in found \/ (Touches(r, n) /\ other(r) \in found)
        BY <1>3, <1>5, <1>7
      <3>3. /\ Renamed(found) \subseteq Claim
            /\ \A r \in Claim : r \in Renamed(found) <=>
                 /\ ~Touches(r, source)
                 /\ r \in found \/ (Touches(r, n) /\ other(r) \in found)
        BY <3>1, <1>2
      <3> HIDE DEF found
      <3>4. {c \in present' : a \in active_article_urls'[c]} = Renamed(found)
        BY <1>1, <3>2, <3>3
      <3> QED BY <3>4 DEF found
    <2> QED BY <2>1 DEF latest
  <1>10. supported' = Promise!Supported(latest')
    <2>1. (TypeOK /\ LifecycleMatchesSupport => supported = Promise!Supported(latest))'
      BY SupportedIsLatest, PTL
    <2>2. (supported = Promise!Supported(latest))'
      BY <1>1, <2>1
    <2> QED BY <2>2 DEF Promise!Supported
  <1>11. ASSUME NEW r \in present'
         PROVE  /\ review_status'[r] = "rejected" <=> JoinedStatus(r, source, n) = "rejected"
                /\ r \in Claim /\ ~Touches(r, source)
    BY <1>3, <1>4, <1>6
  <1>12. hidden \in SUBSET Claim /\ present \ hidden \in SUBSET Claim
    BY <1>1 DEF hidden
  <1>13. hidden' \subseteq Renamed(hidden)
    <2> SUFFICES ASSUME NEW r \in present', JoinedStatus(r, source, n) = "rejected"
                 PROVE  r \in Renamed(hidden)
      BY <1>11 DEF hidden
    <2>1. r \in Claim /\ ~Touches(r, source)
      BY <1>11
    <2>2. CASE Joins(r, source, n)
      <3>1. "rejected" \in {review_status[r], review_status[other(r)]}
        BY <2>2 DEF JoinedStatus, MergedReview, other
      <3> QED BY <1>2, <1>5, <1>7, <1>12, <2>1, <2>2, <3>1 DEF hidden
    <2>3. CASE ~Joins(r, source, n)
      BY <1>2, <1>3, <1>12, <2>1, <2>3 DEF JoinedStatus, hidden
    <2> QED BY <2>2, <2>3
  <1>14. Renamed(hidden) \subseteq hidden' \cup Renamed(present \ hidden)
    <2> SUFFICES ASSUME NEW r \in Renamed(hidden), r \notin Renamed(present \ hidden)
                 PROVE  r \in present' /\ JoinedStatus(r, source, n) = "rejected"
      BY <1>11 DEF hidden
    <2>1. /\ r \in Claim /\ ~Touches(r, source)
          /\ r \in hidden \/ (Touches(r, n) /\ other(r) \in hidden)
          /\ r \notin present \ hidden
          /\ ~(Touches(r, n) /\ other(r) \in present \ hidden)
      BY <1>2, <1>12
    <2>2. r \in present'
      BY <1>3, <1>5, <2>1 DEF hidden
    <2>3. CASE Joins(r, source, n)
      <3>1. review_status[other(r)] = "rejected"
        BY <1>5, <2>1, <2>3 DEF hidden
      <3>2. review_status[r] \in {"rejected", "unreviewed"}
        BY <1>7, <2>1 DEF hidden
      <3> QED BY <2>2, <2>3, <3>1, <3>2 DEF JoinedStatus, MergedReview, other
    <2>4. CASE ~Joins(r, source, n)
      BY <1>5, <2>1, <2>2, <2>4 DEF JoinedStatus, hidden
    <2> QED BY <2>3, <2>4
  <1> QED BY <1>8, <1>9, <1>10, <1>13, <1>14
          DEF MergedPromise!Merge, MergedPromise!Supported, Promise!Supported,
              Renamed, latest, supported, hidden

(* Every behaviour in which entities are resolved, merged and given or     *)
(* deprived of names is one the promise with renamings allows.             *)
THEOREM MergesKeepThePromise == MergeSpec => KeepsMergePromise
PROOF
  <1>1. MergeInit => MergedPromise!Init
    <2> SUFFICES ASSUME MergeInit
                 PROVE  MergedPromise!Init
      OBVIOUS
    <2>1. present = {}
      BY DEF MergeInit
    <2> QED BY <2>1 DEF MergedPromise!Init, MergedPromise!Supported
  <1>2. MergeInv /\ MergeInv' /\ [MergeNext]_mergeVars => [MergedPromise!MergeNext]_(MergedPromise!vars)
    <2> SUFFICES ASSUME MergeInv, MergeInv', [MergeNext]_mergeVars
                 PROVE  MergedPromise!MergeNext
                          \/ UNCHANGED <<latest, present, supported, hidden>>
      BY DEF MergedPromise!vars, latest, supported, hidden
    <2> USE DEF MergeInv
    <2>1. UNCHANGED vars => UNCHANGED <<latest, present, supported, hidden>>
      BY DEF vars, latest, supported, hidden
    <2>2. CASE \E batch \in SUBSET budget.articles, position \in Positions :
                 StartIngest(batch, position)
      BY <2>1, <2>2 DEF StartIngest
    <2>3. CASE \E a \in todo, mentions \in SUBSET Mention :
                 \E resolved \in Resolutions(mentions) : ResolveArticle(a, mentions, resolved)
      BY <2>1, <2>3 DEF ResolveArticle
    <2>4. ASSUME NEW p \in pending, WriteArticle(p)
          PROVE  MergedPromise!MergeNext
      <3>1. PICK a \in Article : \E emitted \in SUBSET Claim : IngestArticle(a, emitted)
        BY <2>4, WritePreserves
      <3>2. latest'[a] \subseteq Claim /\ Promise!Process(a, latest'[a])
        BY <3>1, IngestProcesses
      <3>3. MergedPromise!Process(a, latest'[a])
        BY <3>2 DEF Promise!Process, MergedPromise!Process, Promise!Supported,
                    MergedPromise!Supported
      <3> QED BY <3>2, <3>3 DEF MergedPromise!MergeNext, MergedPromise!Next, latest
    <2>5. ASSUME NEW p \in pending, FailArticle(p)
          PROVE  UNCHANGED <<latest, present, supported, hidden>>
      BY <2>1, <2>5 DEF FailArticle
    <2>6. ASSUME NEW n \in nodes, NEW name \in Entity, add_alias(n, name)
          PROVE  MergedPromise!MergeNext
                   \/ UNCHANGED <<latest, present, supported, hidden>>
      <3>1. ASSUME NEW source \in nodes \ {n}, MergeClaims(source, n)
            PROVE  MergedPromise!MergeNext
        <4>1. source \in Entity /\ n \in Entity /\ source # n
          BY DEF MergeTypeOK
        <4>2. MergedPromise!Merge(source, n)
          BY <3>1, <4>1, MergeRenames
        <4> QED BY <4>1, <4>2 DEF MergedPromise!MergeNext
      <3> QED BY <2>1, <2>6, <3>1, AliasCases
    <2>7. ASSUME NEW n \in nodes, NEW name \in Entity, remove_alias(n, name)
          PROVE  UNCHANGED <<latest, present, supported, hidden>>
      BY <2>1, <2>7 DEF remove_alias
    <2>8. ASSUME NEW c \in present, NEW decision \in Decision, Review(c, decision)
          PROVE  MergedPromise!MergeNext
      <3>1. c \in Claim
        BY DEF ClaimInv, TypeOK
      <3>2. Promise!Reject(c) \/ Promise!Restore(c)
        BY <2>8, <3>1, ReviewDecides DEF Review
      <3>3. MergedPromise!Reject(c) \/ MergedPromise!Restore(c)
        BY <3>2 DEF Promise!Reject, Promise!Restore, MergedPromise!Reject, MergedPromise!Restore
      <3> QED BY <3>1, <3>3 DEF MergedPromise!MergeNext, MergedPromise!Next
    <2>9. ASSUME NEW reason \in ConflictReason, Refresh(reason)
          PROVE  UNCHANGED <<latest, present, supported, hidden>>
      BY <2>9, RefreshStutters DEF Refresh
    <2>10. CASE Clear
      BY <2>10 DEF Clear, clear_all, MergedPromise!MergeNext, MergedPromise!Next,
                   MergedPromise!Forget
    <2>11. CASE UNCHANGED mergeVars
      BY <2>1, <2>11 DEF mergeVars
    <2> QED BY <2>2, <2>3, <2>4, <2>5, <2>6, <2>7, <2>8, <2>9, <2>10, <2>11 DEF MergeNext
  <1> QED BY <1>1, <1>2, MergeInvariant, PTL DEF MergeSpec, KeepsMergePromise, MergedPromise!MergeSpec

=============================================================================
