---------------------------- MODULE EntityMerge ----------------------------
(***************************************************************************)
(* Entity resolution and the correction of its mistakes, over the claims   *)
(* of ClaimStore.                                                          *)
(*                                                                         *)
(* An ingest loads every entity with its aliases into the resolver once    *)
(* (EntityResolver.load_from_graph) and then maps the names of each of its *)
(* articles to entities.  Meanwhile a reader may give an entity another    *)
(* name: if the graph has an entity of that name, the two are merged       *)
(* (_add_alias_tx), relationships and review history included.             *)
(*                                                                         *)
(* Entities are of one label, and each has one name of its own, which is   *)
(* also the name that yields its id: the value of Entity stands for both.  *)
(* Names are either equal or unlike; the similarity and embedding matches  *)
(* only find what is equal.                                                *)
(***************************************************************************)
EXTENDS ClaimStore

CONSTANT
  Budgets   \* the bounds, one of which a behaviour keeps to: the articles, and
            \* how many ingests, alias edits and review decisions there are

(* Of the entities of the load, one is listed last. *)
ASSUME FiniteAssumption == IsFiniteSet(Entity)

ASSUME BoundsAssumption ==
  Budgets \subseteq [articles : SUBSET Article, runs : Nat, edits : Nat, reviews : Nat]

VARIABLES
  nodes,      \* the entities of the graph
  aliases,    \* [Entity -> SUBSET Entity], the further names of each
  registry,   \* the resolver of the running ingest
  todo,       \* the articles the running ingest has not finished
  pending,    \* what the holder of the resolver lock is about to write
  runs, edits, reviews,
  budget      \* the bounds of this behaviour

ingestVars == <<registry, todo, pending, runs, budget>>
mergeVars  == <<vars, nodes, aliases, ingestVars, edits, reviews>>

NoRegistry ==
  [entries |-> {}, keys |-> [e \in Entity |-> {}], index |-> [e \in Entity |-> e]]

MergeTypeOK ==
  /\ TypeOK
  /\ nodes \subseteq Entity
  /\ aliases \in [Entity -> SUBSET Entity]
  /\ registry \in [entries : SUBSET Entity, keys : [Entity -> SUBSET Entity],
                   index : [Entity -> Entity]]
  /\ todo \subseteq Article
  /\ pending \subseteq [article : todo, mentions : SUBSET Mention, resolved : [Entity -> Entity]]
  /\ Cardinality(pending) <= 1
  /\ \A c \in present : {c.source, c.target} \subseteq nodes
  /\ budget \in Budgets
  /\ runs \in 0..budget.runs /\ edits \in 0..budget.edits /\ reviews \in 0..budget.reviews
  /\ \A e \in Entity \ nodes : aliases[e] = {}

(* _node_has_key *)
Names(n) == {n} \cup aliases[n]

-----------------------------------------------------------------------------
(* The resolver. *)

(* load_from_graph: of the entries that share a name, the one the graph    *)
(* lists last owns it.                                                     *)
load_from_graph(position) ==
  [entries |-> nodes,
   keys |-> [n \in Entity |-> IF n \in nodes THEN Names(n) ELSE {}],
   index |-> [e \in Entity |->
     LET holders == {n \in nodes : e \in Names(n)} IN
     IF holders = {} THEN e
     ELSE CHOOSE n \in holders : \A m \in holders : position[m] <= position[n]]]

Neighbors(mentions, e) ==
  {f \in Entity : \E m \in mentions : {m.source, m.target} = {e, f}} \ {e}

NamedIn(mentions) == UNION {{m.source, m.target} : m \in mentions}

(* Mutant: the neighbours' own names are not compared. *)
BlockedByArticleIds(mentions, resolved, e, n) ==
  \E f \in Neighbors(mentions, e) : f < e /\ resolved[f] = n

(* An entity is not the target of a name the article relates it to: by an  *)
(* id that was resolved before, or by its own name.  (Names are resolved   *)
(* in the order of Entity.)                                                *)
BlockedByArticle(mentions, resolved, e, n) ==
  \E f \in Neighbors(mentions, e) : n = f \/ (f < e /\ resolved[f] = n)

(* has_relationship_to_named_entity: nor of a name that the graph relates  *)
(* it to.                                                                  *)
BlockedByGraph(e, n) ==
  \E other \in nodes \ {n} :
    /\ e \in Names(other)
    /\ \E c \in Live(present, lifecycle_status, review_status) :
         {c.source, c.target} = {n, other}

(* resolve: the exact match, else the best similar entry that the article  *)
(* does not relate to the name, else a new entity.  A graph that cannot be *)
(* asked blocks nothing.                                                   *)
Resolves(mentions, resolved, e) ==
  LET similar == {n \in registry.entries :
                    e \in registry.keys[n] /\ ~BlockedByArticle(mentions, resolved, e, n)}
      exact   == similar \cap {registry.index[e]}
  IN  \/ resolved[e] \in exact
      \/ /\ \A n \in exact : BlockedByGraph(e, n)
         /\ \/ resolved[e] \in similar
            \/ resolved[e] = e /\ (similar = {} \/ \E n \in similar : BlockedByGraph(e, n))

(* Names the article does not mention are left as they are. *)
Resolutions(mentions) ==
  {resolved \in [Entity -> Entity] :
     \A e \in Entity : IF e \in NamedIn(mentions) THEN Resolves(mentions, resolved, e)
                       ELSE resolved[e] = e}

(* _merge_into_entry, _add_entry *)
RegistryAfter(mentions, resolved) ==
  LET found(n) == {e \in NamedIn(mentions) : resolved[e] = n} IN
  [entries |-> registry.entries \cup {resolved[e] : e \in NamedIn(mentions)},
   keys |-> [n \in Entity |-> registry.keys[n] \cup found(n)],
   index |-> [e \in Entity |-> IF e \in NamedIn(mentions) THEN resolved[e]
                                                          ELSE registry.index[e]]]

-----------------------------------------------------------------------------
(* The ingest: one at a time. *)
StartIngest(batch, position) ==
  /\ todo = {} /\ batch # {}
  /\ runs < budget.runs
  /\ runs' = runs + 1
  /\ todo' = batch
  /\ registry' = load_from_graph(position)
  /\ UNCHANGED <<vars, nodes, aliases, pending, edits, reviews, budget>>

EmittedBy(mentions, resolved) ==
  {claim_endpoint_ids([m EXCEPT !.source = resolved[@], !.target = resolved[@]]) :
     m \in {n \in mentions : resolved[n.source] # resolved[n.target]}}

(* Under the resolver lock the names of an article are resolved, and       *)
(* written; requests of readers come in between.                           *)
ResolveArticle(a, mentions, resolved) ==
  /\ a \in todo /\ pending = {}
  /\ resolved \in Resolutions(mentions)
  /\ pending' = {[article |-> a, mentions |-> mentions, resolved |-> resolved]}
  /\ registry' = RegistryAfter(mentions, resolved)
  /\ UNCHANGED <<vars, nodes, aliases, todo, runs, edits, reviews, budget>>

(* The registry is dropped with the ingest. *)
FinishArticle(p) ==
  /\ pending' = {}
  /\ todo' = todo \ {p.article}
  /\ registry' = IF todo' = {} THEN NoRegistry ELSE registry
  /\ UNCHANGED <<runs, edits, reviews, budget>>

(* upsert_entity_tx brings back an entity that is gone, and adds what the  *)
(* resolver knows of its names to those the graph has now.                 *)
WriteArticle(p) ==
  LET written == {p.resolved[e] : e \in NamedIn(p.mentions)} IN
  /\ FinishArticle(p)
  /\ nodes' = nodes \cup written
  /\ aliases' = [n \in Entity |-> IF n \in written THEN aliases[n] \cup (registry.keys[n] \ {n})
                                                     ELSE aliases[n]]
  /\ IngestArticle(p.article, EmittedBy(p.mentions, p.resolved))

(* A failed write leaves the resolver as the resolution made it. *)
FailArticle(p) ==
  /\ FinishArticle(p)
  /\ UNCHANGED <<vars, nodes, aliases>>

-----------------------------------------------------------------------------
(* The merge of source into target (_merge_entity_relationships_tx).       *)

Touches(c, n) == n \in {c.source, c.target}

Redirect(c, from, to) ==
  [c EXCEPT !.source = IF @ = from THEN to ELSE @, !.target = IF @ = from THEN to ELSE @]

(* Mutant: incoming relationships are deleted with the node. *)
MovedOutgoing(source, target) == {c \in present : c.source = source /\ ~Touches(c, target)}

(* Relationships between the two are deleted. *)
Moved(source, target) == {c \in present : Touches(c, source) /\ ~Touches(c, target)}

(* Mutant: the decision on the entity that stays wins. *)
MergedReviewTarget(t, s) ==
  IF t \in {"accepted", "rejected"} THEN t
  ELSE IF s = "needs_review" THEN s
  ELSE t

MergedReview(t, s) ==
  IF {t, s} = {"accepted", "rejected"} THEN "needs_review"
  ELSE IF t \in {"accepted", "rejected"} THEN t
  ELSE IF s \in {"accepted", "rejected"} THEN s
  ELSE IF "needs_review" \in {t, s} THEN "needs_review"
  ELSE "unreviewed"

(* Mutant: the conflict of two decisions is not named. *)
MergedReasonsUnnamed(t, s) == review_reasons[t] \cup review_reasons[s]

MergedReasons(t, s) ==
  IF {review_status[t], review_status[s]} = {"accepted", "rejected"}
  THEN review_reasons[t] \cup review_reasons[s] \cup MergeReason
  ELSE review_reasons[t] \cup review_reasons[s]

(* Mutant: the lifecycle of the entity that stays wins. *)
MergedLifecycleTarget(t, s) ==
  IF t \notin present THEN lifecycle_status[s] ELSE lifecycle_status[t]

MergedLifecycle(t, s) ==
  IF t \notin present THEN lifecycle_status[s]
  ELSE IF "supported" \in {lifecycle_status[t], lifecycle_status[s]} THEN "supported"
  ELSE lifecycle_status[t]

(* Mutant: the conflicts are left to the next ingest. *)
FlaggedAfterMergeLater(claims, lifecycle, review) == {}

(* mark_claim_conflicts_tx after the merge. *)
FlaggedAfterMerge(claims, lifecycle, review) == Live(claims, lifecycle, review)

MergeClaims(source, target) ==
  LET moved  == Moved(source, target)
      onto(c) == Redirect(c, target, source)    \* the claim that moves onto c
      merged(c) == ~Touches(c, source) /\ onto(c) \in moved
      claims == {c \in present : ~Touches(c, source)}
                  \cup {Redirect(c, source, target) : c \in moved}
      lifecycle == [c \in Claim |-> IF Touches(c, source) THEN "supported"
                                    ELSE IF merged(c) THEN MergedLifecycle(c, onto(c))
                                    ELSE lifecycle_status[c]]
      review == [c \in Claim |-> IF Touches(c, source) THEN "unreviewed"
                                 ELSE IF merged(c)
                                 THEN MergedReview(review_status[c], review_status[onto(c)])
                                 ELSE review_status[c]]
      reasons == [c \in Claim |-> IF Touches(c, source) THEN {}
                                  ELSE IF merged(c) THEN MergedReasons(c, onto(c))
                                  ELSE review_reasons[c]]
      live == FlaggedAfterMerge(claims, lifecycle, review)
  IN /\ present' = claims
     /\ active_article_urls' = [c \in Claim |->
          IF Touches(c, source) THEN {}
          ELSE IF merged(c) THEN active_article_urls[c] \cup active_article_urls[onto(c)]
          ELSE active_article_urls[c]]
     /\ lifecycle_status' = lifecycle
     /\ review_status' = FlaggedStatus(review, live)
     /\ review_reasons' = FlaggedReasons(reasons, live)
     /\ reviewed' = {c \in claims : c \in reviewed \/ (merged(c) /\ onto(c) \in reviewed)}

(* POST /nodes/{node_id}/aliases: a name that several other entities have  *)
(* is refused.                                                             *)
add_alias(n, name) ==
  LET candidates == {m \in nodes \ {n} : name \in Names(m)} IN
  /\ n \in nodes
  /\ edits < budget.edits /\ edits' = edits + 1
  /\ \/ /\ candidates = {}
        /\ aliases' = [aliases EXCEPT ![n] = @ \cup ({name} \ {n})]
        /\ UNCHANGED <<vars, nodes>>
     \/ \E source \in candidates :
        /\ candidates = {source}
        /\ nodes' = nodes \ {source}
        /\ aliases' = [aliases EXCEPT ![n] = (@ \cup Names(source)) \ {n}, ![source] = {}]
        /\ MergeClaims(source, n)
  /\ UNCHANGED <<ingestVars, reviews>>

(* DELETE /nodes/{node_id}/aliases *)
remove_alias(n, name) ==
  /\ n \in nodes /\ name \in aliases[n]
  /\ edits < budget.edits /\ edits' = edits + 1
  /\ aliases' = [aliases EXCEPT ![n] = @ \ {name}]
  /\ UNCHANGED <<vars, nodes, ingestVars, reviews>>

Review(c, decision) ==
  /\ reviews < budget.reviews /\ reviews' = reviews + 1
  /\ review_claim(c, decision)
  /\ UNCHANGED <<nodes, aliases, ingestVars, edits>>

Refresh(reason) ==
  /\ refresh_claim_conflicts(reason)
  /\ UNCHANGED <<nodes, aliases, ingestVars, edits, reviews>>

Clear ==
  /\ clear_all
  /\ nodes' = {}
  /\ aliases' = [e \in Entity |-> {}]
  /\ UNCHANGED <<ingestVars, edits, reviews>>

MergeInit ==
  /\ Init /\ present = {}
  /\ nodes = {} /\ aliases = [e \in Entity |-> {}]
  /\ registry = NoRegistry /\ todo = {} /\ pending = {}
  /\ runs = 0 /\ edits = 0 /\ reviews = 0
  /\ budget \in Budgets

Positions == {p \in [Entity -> Entity] : \A m, n \in Entity : p[m] = p[n] => m = n}

MergeNext ==
  \/ \E batch \in SUBSET budget.articles, position \in Positions : StartIngest(batch, position)
  \/ \E a \in todo, mentions \in SUBSET Mention : \E resolved \in Resolutions(mentions) :
       ResolveArticle(a, mentions, resolved)
  \/ \E p \in pending : WriteArticle(p) \/ FailArticle(p)
  \/ \E n \in nodes, name \in Entity : add_alias(n, name) \/ remove_alias(n, name)
  \/ \E c \in present, decision \in Decision : Review(c, decision)
  \/ \E reason \in ConflictReason : Refresh(reason)
  \/ Clear

MergeSpec == MergeInit /\ [][MergeNext]_mergeVars

-----------------------------------------------------------------------------
(* Two names an article relates never become one entity, whatever aliases  *)
(* they share and whatever was merged since the registry was loaded: the   *)
(* writer would drop the relationship of the entity with itself.           *)
RelatedNamesStayApart ==
  \A p \in pending : \A m \in p.mentions :
    m.source # m.target => p.resolved[m.source] # p.resolved[m.target]

(* Of the relationships of the entity that a merge removes, those with     *)
(* the entity that stays are deleted.                                      *)
Carried(source, n) == {c \in present : ~(Touches(c, source) /\ Touches(c, n))}

(* A merge loses no support: the article that reproduces a claim of either *)
(* entity supports the claim of the one that stays.                        *)
MergeKeepsSupport ==
  [][\A source \in nodes \ nodes', n \in nodes', name \in Entity :
       add_alias(n, name) =>
         \A c \in Carried(source, n) :
           /\ Redirect(c, source, n) \in present'
           /\ active_article_urls[c] \subseteq
                active_article_urls'[Redirect(c, source, n)]]_mergeVars

(* A merge overrules no rejection: the claim it moves onto stays rejected, *)
(* or, where a reviewer accepted that one, returns to the queue with the   *)
(* contradiction of the two decisions as its reason.                       *)
MergeKeepsRejections ==
  [][\A source \in nodes \ nodes', n \in nodes', name \in Entity :
       add_alias(n, name) =>
         \A c \in Carried(source, n) :
           LET d == Redirect(c, source, n) IN
           review_status[c] = "rejected" =>
             \/ review_status'[d] = "rejected"
             \/ /\ review_status'[d] = "needs_review"
                /\ "manual_entity_merge_conflict" \in review_reasons'[d]]_mergeVars

(* With merges, the graph keeps the promise of MergePromise: the queries   *)
(* that move, join and delete relationships one by one add up to giving    *)
(* one entity the name of the other, in what every article supports, in    *)
(* the lifecycles and in the rejections; and ingests that resolve names    *)
(* while entities merge still assert and withdraw as ClaimPromise says.    *)
MergedPromise ==
  INSTANCE MergePromise WITH
    latest <- [a \in Article |-> {c \in present : a \in active_article_urls[c]}],
    known <- present,
    supported <- {c \in present : lifecycle_status[c] = "supported"},
    hidden <- {c \in present : review_status[c] = "rejected"}

KeepsMergePromise == MergedPromise!MergeSpec

-----------------------------------------------------------------------------
(* A statement of the README that merges break.                            *)

(* "`Missing in latest extraction`: the final active source no longer      *)
(* produced this relationship in the latest run": a claim loses its final  *)
(* article only if that article does not assert the same merger now.       *)
LostMergerIsGone ==
  [][\A c \in present \cap present' :
       c.relationship = "MERGED_WITH" /\ Cardinality(active_article_urls[c]) = 1
         /\ active_article_urls'[c] = {} =>
       \A a \in active_article_urls[c] : a \notin active_article_urls'[InverseOf(c)]]_mergeVars
=============================================================================
