----------------------------- MODULE ClaimStore -----------------------------
(***************************************************************************)
(* The life of a claim: an entity-to-entity relationship of the graph with *)
(* the articles that currently support it and its place in the human       *)
(* review queue.                                                           *)
(*                                                                         *)
(* Ingesting an article is one Neo4j write transaction                     *)
(* (article_graph_writer.ingest_article_tx): it (re)asserts the claims the *)
(* extraction produced, withdraws the article's support from the claims it *)
(* produced before and no longer does, and, when it asserted anything,     *)
(* queues every pair of live claims that contradict each other.  Review    *)
(* decisions, the schema refresh and the reset of the graph arrive from    *)
(* other requests and interleave with it.                                  *)
(*                                                                         *)
(* A claim written before the lifecycle properties existed has null in     *)
(* place of them; every query reads it through coalesce, which makes it    *)
(* the claim supported by its article_urls, unreviewed and without         *)
(* reasons.  Init holds such claims in that form.                          *)
(***************************************************************************)
EXTENDS Naturals, FiniteSets

CONSTANTS
  Entity,    \* entity ids; "<" on them is the order of the id strings
  Article,   \* article URLs
  Mention    \* the relationships an extraction can name, endpoints resolved

DOMAIN_RELATIONSHIPS ==
  {"INVESTED_IN", "FOUNDED_BY", "EMPLOYED_BY", "PARTNERED_WITH",
   "MERGED_WITH", "ACQUIRED", "HAS_TOPIC"}

DIRECTIONAL_CONFLICT_RELATIONSHIPS ==
  {"INVESTED_IN", "FOUNDED_BY", "EMPLOYED_BY", "ACQUIRED"}

ASSUME EntityAssumption == Entity \subseteq Nat
ASSUME MentionAssumption ==
  Mention \subseteq [relationship : DOMAIN_RELATIONSHIPS, source : Entity, target : Entity]

(* MERGED_WITH is stored once, from the smaller id to the larger one. *)
claim_endpoint_ids(m) ==
  IF m.relationship = "MERGED_WITH" /\ m.target < m.source
  THEN [relationship |-> m.relationship, source |-> m.target, target |-> m.source]
  ELSE m

(* The relationships the graph can hold, and those an ingest can assert: *)
(* relationships of an entity with itself are skipped by the writer.     *)
Claim ==
  {c \in [relationship : {m.relationship : m \in Mention}, source : Entity, target : Entity] :
     c.source # c.target}

Assertable == {claim_endpoint_ids(m) : m \in {n \in Mention : n.source # n.target}}

Decision     == {"accepted", "rejected", "unreviewed"}
ReviewStatus == Decision \cup {"needs_review"}
Unsupported  == "unsupported_by_latest_source_processing"

(* Reasons of the article's own processing, of the conflict queries, and of *)
(* a merge of two entities (EntityMerge).                                  *)
SupportReason  == {"not_reproduced_same_article", "direction_changed_same_article"}
ConflictReason == {"inverse_direction", "competing_transaction_type"}
MergeReason    == {"manual_entity_merge_conflict"}
Reason         == SupportReason \cup ConflictReason \cup MergeReason

VARIABLES
  present,              \* the claims the graph holds
  active_article_urls,  \* [Claim -> SUBSET Article]
  lifecycle_status,     \* [Claim -> {"supported", Unsupported}]
  review_status,        \* [Claim -> ReviewStatus]
  review_reasons,       \* [Claim -> SUBSET Reason]
  reviewed              \* the claims whose review_history is not empty

vars == <<present, active_article_urls, lifecycle_status, review_status,
          review_reasons, reviewed>>

TypeOK ==
  /\ present \subseteq Claim
  /\ active_article_urls \in [Claim -> SUBSET Article]
  /\ lifecycle_status \in [Claim -> {"supported", Unsupported}]
  /\ review_status \in [Claim -> ReviewStatus]
  /\ review_reasons \in [Claim -> SUBSET Reason]
  /\ reviewed \subseteq present

-----------------------------------------------------------------------------
(* The two conflict queries.  A claim is live while it is supported and    *)
(* not rejected; only two live claims contradict each other.               *)

InverseOf(c) == [relationship |-> c.relationship, source |-> c.target, target |-> c.source]

Inverted(c, d) ==
  c.relationship \in DIRECTIONAL_CONFLICT_RELATIONSHIPS /\ d = InverseOf(c)

Competing(c, d) ==
  /\ {c.relationship, d.relationship} = {"ACQUIRED", "MERGED_WITH"}
  /\ {c.source, c.target} = {d.source, d.target}

Live(claims, lifecycle, review) ==
  {c \in claims : lifecycle[c] = "supported" /\ review[c] # "rejected"}

ConflictsOf(c, live) ==
  {r \in ConflictReason :
     /\ c \in live
     /\ \E d \in live : \/ r = "inverse_direction" /\ Inverted(c, d)
                        \/ r = "competing_transaction_type" /\ Competing(c, d)}

(* The second query cannot see a difference the first one makes: neither   *)
(* writes "rejected" nor a lifecycle, so both read the same live claims.   *)
FlaggedStatus(review, live) ==
  [c \in Claim |-> IF ConflictsOf(c, live) # {} THEN "needs_review" ELSE review[c]]

FlaggedReasons(reasons, live) ==
  [c \in Claim |-> reasons[c] \cup ConflictsOf(c, live)]

-----------------------------------------------------------------------------
(* One article's transaction: relate_tx for each emitted claim, then       *)
(* mark_not_reproduced_claims_tx for the claims it supported before.       *)

Lost(a, emitted, c) == a \in active_article_urls[c] /\ c \notin emitted

(* Mutant: any loss of support counts as the loss of the last. *)
LosesAnySupport(a, emitted, c) == Lost(a, emitted, c)

LosesLastSupport(a, emitted, c) ==
  Lost(a, emitted, c) /\ active_article_urls[c] = {a}

LossReason(emitted, c) ==
  IF c.relationship \in DIRECTIONAL_CONFLICT_RELATIONSHIPS /\ InverseOf(c) \in emitted
  THEN "direction_changed_same_article"
  ELSE "not_reproduced_same_article"

(* Mutant: support is added and never withdrawn. *)
ActiveAfterKept(a, emitted) ==
  [c \in Claim |-> IF c \in emitted THEN active_article_urls[c] \cup {a}
                                    ELSE active_article_urls[c]]

ActiveAfter(a, emitted) ==
  [c \in Claim |-> IF c \in emitted THEN active_article_urls[c] \cup {a}
                                    ELSE active_article_urls[c] \ {a}]

LifecycleAfter(a, emitted) ==
  [c \in Claim |-> IF c \in emitted THEN "supported"
                   ELSE IF LosesLastSupport(a, emitted, c) THEN Unsupported
                   ELSE IF Lost(a, emitted, c) THEN "supported"
                   ELSE lifecycle_status[c]]

(* Mutants: the status does not look at the reasons that go; only an       *)
(* acceptance is protected.                                                *)
ReassertedStatusKept(c) == review_status[c]

ReassertedStatusRevived(c) ==
  IF review_status[c] = "accepted" THEN review_status[c]
  ELSE IF review_reasons[c] \ SupportReason = {} THEN "unreviewed"
  ELSE review_status[c]

(* relate_tx: a decision survives a re-assertion, and a claim whose only   *)
(* reasons were about its support goes back to unreviewed.                 *)
ReassertedStatus(c) ==
  IF review_status[c] \in {"accepted", "rejected"} THEN review_status[c]
  ELSE IF review_reasons[c] \ SupportReason = {} THEN "unreviewed"
  ELSE review_status[c]

(* Mutant: a claim that keeps other sources is queued as well. *)
StatusAfterAnyLoss(a, emitted) ==
  [c \in Claim |-> IF c \in emitted THEN ReassertedStatus(c)
                   ELSE IF Lost(a, emitted, c) /\ review_status[c] # "rejected"
                   THEN "needs_review"
                   ELSE review_status[c]]

StatusAfter(a, emitted) ==
  [c \in Claim |-> IF c \in emitted THEN ReassertedStatus(c)
                   ELSE IF LosesLastSupport(a, emitted, c) /\ review_status[c] # "rejected"
                   THEN "needs_review"
                   ELSE review_status[c]]

(* Mutants: the new reason is added to a claim without reasons only; a     *)
(* re-assertion leaves the reasons alone.                                  *)
ReasonsAfterFirstOnly(a, emitted) ==
  [c \in Claim |-> IF c \in emitted THEN review_reasons[c] \ SupportReason
                   ELSE IF LosesLastSupport(a, emitted, c) /\ review_reasons[c] = {}
                   THEN {LossReason(emitted, c)}
                   ELSE review_reasons[c]]

ReasonsAfterKept(a, emitted) ==
  [c \in Claim |-> IF LosesLastSupport(a, emitted, c)
                   THEN review_reasons[c] \cup {LossReason(emitted, c)}
                   ELSE review_reasons[c]]

ReasonsAfter(a, emitted) ==
  [c \in Claim |-> IF c \in emitted THEN review_reasons[c] \ SupportReason
                   ELSE IF LosesLastSupport(a, emitted, c)
                   THEN review_reasons[c] \cup {LossReason(emitted, c)}
                   ELSE review_reasons[c]]

(* Mutant: the conflict queries look at this article's claims only. *)
LiveAfterEmitted(a, emitted) ==
  Live(emitted, LifecycleAfter(a, emitted), StatusAfter(a, emitted))

(* Mutant: the conflict queries run before support is withdrawn. *)
LiveAfterEarly(a, emitted) ==
  IF emitted = {} THEN {}
  ELSE Live(present \cup emitted,
            [c \in Claim |-> IF c \in emitted THEN "supported" ELSE lifecycle_status[c]],
            [c \in Claim |-> IF c \in emitted THEN ReassertedStatus(c) ELSE review_status[c]])

(* The conflict queries run only when the article asserted a claim. *)
LiveAfter(a, emitted) ==
  IF emitted = {} THEN {}
  ELSE Live(present \cup emitted, LifecycleAfter(a, emitted), StatusAfter(a, emitted))

IngestArticle(a, emitted) ==
  /\ present' = present \cup emitted
  /\ active_article_urls' = ActiveAfter(a, emitted)
  /\ lifecycle_status' = LifecycleAfter(a, emitted)
  /\ review_status' = FlaggedStatus(StatusAfter(a, emitted), LiveAfter(a, emitted))
  /\ review_reasons' = FlaggedReasons(ReasonsAfter(a, emitted), LiveAfter(a, emitted))
  /\ UNCHANGED reviewed

-----------------------------------------------------------------------------
(* POST /claims/review: a decision on a claim in any state. *)
review_claim(c, decision) ==
  /\ c \in present
  /\ review_status' = [review_status EXCEPT ![c] = decision]
  /\ review_reasons' = [review_reasons EXCEPT
       ![c] = IF decision \in {"accepted", "rejected"} THEN {} ELSE @]
  /\ reviewed' = reviewed \cup {c}
  /\ UNCHANGED <<present, active_article_urls, lifecycle_status>>

(* Startup and POST /schema/apply: initialize_claim_state changes nothing   *)
(* a reader can see, and refresh_claim_conflicts runs the two conflict      *)
(* queries over the whole graph.  Each is a transaction of its own: other   *)
(* requests come in between, and a failure of the one leaves out the other. *)
refresh_claim_conflicts(reason) ==
  LET flagged == {c \in Claim :
        reason \in ConflictsOf(c, Live(present, lifecycle_status, review_status))} IN
  /\ review_status' = [c \in Claim |-> IF c \in flagged THEN "needs_review"
                                        ELSE review_status[c]]
  /\ review_reasons' = [c \in Claim |-> IF c \in flagged THEN review_reasons[c] \cup {reason}
                                         ELSE review_reasons[c]]
  /\ UNCHANGED <<present, active_article_urls, lifecycle_status, reviewed>>

(* DELETE /graph. *)
clear_all ==
  /\ present' = {}
  /\ active_article_urls' = [c \in Claim |-> {}]
  /\ lifecycle_status' = [c \in Claim |-> "supported"]
  /\ review_status' = [c \in Claim |-> "unreviewed"]
  /\ review_reasons' = [c \in Claim |-> {}]
  /\ reviewed' = {}

(* An older graph, after the schema refresh of the first startup: each of  *)
(* its claims is supported by the articles listed on it.                   *)
Init ==
  \E support \in [Assertable -> SUBSET Article] :
    LET old == {c \in Assertable : support[c] # {}}
        lifecycle == [c \in Claim |-> "supported"]
        review == [c \in Claim |-> "unreviewed"]
        live == Live(old, lifecycle, review)
    IN /\ present = old
       /\ active_article_urls = [c \in Claim |-> IF c \in old THEN support[c] ELSE {}]
       /\ lifecycle_status = lifecycle
       /\ review_status = FlaggedStatus(review, live)
       /\ review_reasons = FlaggedReasons([c \in Claim |-> {}], live)
       /\ reviewed = {}

Next ==
  \/ \E a \in Article, emitted \in SUBSET Assertable : IngestArticle(a, emitted)
  \/ \E c \in Claim, decision \in Decision : review_claim(c, decision)
  \/ \E reason \in ConflictReason : refresh_claim_conflicts(reason)
  \/ clear_all

Spec == Init /\ [][Next]_vars

-----------------------------------------------------------------------------
(* The lifecycle kept on a claim agrees with its support: it is supported  *)
(* exactly while some article still reproduces it (relate_tx and           *)
(* mark_not_reproduced_claims_tx maintain the two separately).             *)
LifecycleMatchesSupport ==
  \A c \in present :
    lifecycle_status[c] = "supported" <=> active_article_urls[c] # {}

(* A card in the review queue always says why it is there: no order of     *)
(* re-ingestion, decision and reset leaves a queued claim without a reason *)
(* (relate_tx strips reasons, the reset keeps them).                       *)
QueuedHasReason ==
  \A c \in present : review_status[c] = "needs_review" => review_reasons[c] # {}

(* A claim that lost its final article is in the queue with the reason,    *)
(* unless a reviewer has acted on it, whatever was lost and regained       *)
(* before.                                                                 *)
LostSupportIsQueued ==
  \A c \in present :
    active_article_urls[c] = {} /\ c \notin reviewed =>
      /\ review_status[c] = "needs_review"
      /\ review_reasons[c] \cap SupportReason # {}

(* A reason that says the source no longer reproduces the claim is never   *)
(* left on a claim that has a source again.                                *)
SupportReasonIsCurrent ==
  \A c \in present :
    review_reasons[c] \cap SupportReason # {} => active_article_urls[c] = {}

(* Two contradicting live claims nobody has reviewed are both in the queue *)
(* with the reason of the contradiction: a conflict cannot arise by a path *)
(* that skips the conflict queries.                                        *)
LiveConflictIsQueued ==
  LET live == Live(present, lifecycle_status, review_status) IN
  \A c \in live \ reviewed : \A d \in live \ reviewed :
    /\ Inverted(c, d) => /\ review_status[c] = "needs_review"
                         /\ "inverse_direction" \in review_reasons[c]
    /\ Competing(c, d) => /\ review_status[c] = "needs_review"
                          /\ "competing_transaction_type" \in review_reasons[c]

(* A rejection stands until a reviewer changes it or the graph is cleared: *)
(* neither re-ingestion nor the conflict refresh brings the claim back.    *)
RejectionStands ==
  [][\A c \in present :
       review_status[c] = "rejected" /\ review_status'[c] # "rejected" =>
         c \notin present' \/ \E d \in Decision : review_claim(c, d)]_vars

(* An accepted claim returns to the queue only when it has just lost its   *)
(* final article or is one side of a live contradiction.                   *)
AcceptedRequeuedForCause ==
  [][\A c \in present \cap present' :
       review_status[c] = "accepted" /\ review_status'[c] = "needs_review" =>
         \/ active_article_urls[c] # {} /\ active_article_urls'[c] = {}
         \/ \E d \in present' : /\ Inverted(c, d) \/ Competing(c, d)
                                /\ lifecycle_status'[c] = "supported"
                                /\ lifecycle_status'[d] = "supported"
                                /\ review_status'[d] = "needs_review"]_vars

(* A contradiction is recorded on a claim only while there is one, and on  *)
(* both sides at once: an article that turns a claim round withdraws the   *)
(* old one in the same transaction and contradicts nothing, unless another *)
(* article still supports the old one; and a claim that was rejected, or   *)
(* lost its support, is no longer a reason to queue another.               *)
ConflictFlaggedForCause ==
  [][\A c \in Claim, reason \in ConflictReason :
       reason \in review_reasons'[c] \ review_reasons[c] =>
         \E d \in present' :
           /\ IF reason = "inverse_direction" THEN Inverted(c, d) ELSE Competing(c, d)
           /\ \A side \in {c, d} : /\ active_article_urls'[side] # {}
                                   /\ review_status'[side] = "needs_review"
                                   /\ reason \in review_reasons'[side]]_vars

(* The graph keeps the promise of ClaimPromise: the queries that add and   *)
(* withdraw an article's support, each restricted to some of the claims,   *)
(* add up to "supports exactly what it last produced", and the lifecycle   *)
(* they write on the way is the one that support implies.                  *)
Promise ==
  INSTANCE ClaimPromise WITH
    latest <- [a \in Article |-> {c \in present : a \in active_article_urls[c]}],
    known <- present,
    supported <- {c \in present : lifecycle_status[c] = "supported"},
    hidden <- {c \in present : review_status[c] = "rejected"}

KeepsPromise == Promise!Spec
=============================================================================
