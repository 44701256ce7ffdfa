# Startup Radar: TLA+ models and proofs

Startup Radar collects articles about startups, has an LLM extract entities and
claims from them, resolves the entities against a Neo4j graph, and lets people
review what the graph says. This directory holds TLA+ models of the parts whose
correctness depends on the order in which things happen, the TLC configurations
that check them, and TLAPS proofs of the properties that matter most.

Line references are to the repository; `app/` stands for `src/backend/app/`.

## 1. Inventory

### Components

| Component | State | Operations | Source |
| --- | --- | --- | --- |
| Claim store | relationships: supporting articles, lifecycle, review status, reasons, history | write of an article, review, conflict refresh, reset | `app/graph/claim_store.py`, `app/graph/article_graph_writer.py` |
| Entity resolution and alias corrections | the resolver's registry (memory, one per ingest); names and aliases of entities | load, resolve, write; add alias (= merge), remove alias | `app/services/entity_resolution.py`, `app/graph/entity_resolution_store.py` |
| Entity profiles and curation | description, its source, its human review; embedding and its hash; evidence nodes; considered evidence ids | evidence upsert, candidate query, review, rewrite, save, mark; human review | `app/graph/entity_profile_store.py`, `app/services/entity_curation.py` |
| Background tasks | status of each task (memory) | start, run, get | `app/services/tasks.py`, `app/api/routes.py` |
| Workflow control of the frontend | the last known state of each task | start, poll | `src/frontend/src/App.tsx`, `src/frontend/src/lib/api.ts` |
| LLM service | the time at which calls may resume, semaphore | chat completion with pauses, extraction with retries, gleaning | `app/services/llm.py` |
| Ingestion pipeline | statistics of the run, resolver lock | scrape, cache lookup, registry, dispatch, tally | `app/services/ingestion.py` |
| Scraper | none between runs; the page it reads, exhausted paths, links found | feed, listings, deduplication, fetches | `app/services/scraper.py` |
| Evidence, relationship and topic contracts | none | evidence references, signatures, topic gate | `app/evidence.py`, `app/relationship_contract.py`, `app/topic_ontology.py` |
| Graph reading and insights | none | read-only queries | `app/graph/graph_read_store.py`, `app/graph/insight_store.py` |
| Schema and administration | none of their own | schema, reset | `app/graph/admin_store.py`, `app/db/` |
| Observability | traces, costs | logging | `app/observability/`, `app/core/` |
| Graph and details views | what is selected and shown | display | `src/frontend/src/components/` |

### Interactions

A browser tab starts an *ingest* or a *curation* (POST) and polls the task. The
task manager lets one of the two run at a time. An ingest collects links, skips
those the graph has under the current extraction policy, fetches the others, and
works on all articles concurrently: extraction goes through the LLM service,
then, under one lock, names are resolved against the registry that was loaded
when the ingest started, and the article is written in one transaction. The
write upserts entities (with the descriptions the registry holds), asserts
claims, withdraws the support of claims the article no longer produces, and
marks contradictions. A curation loads entities with enough new evidence, asks
the LLM for a review and perhaps a rewrite, and saves.

Review of claims, review of descriptions, adding and removing aliases and the
reset of the graph are ordinary requests. **None of them is exclusive with a
running task**: they come in between any two awaits of it. This, and state that
is loaded early and used late, is where the hard behaviour of this system is.

### Hard behaviours

* *Long sequences of legal calls*: claims change through re-ingestion, review,
  contradiction and merge, in any order (`ClaimStore`, `EntityMerge`).
* *Stale state*: the registry of an ingest (loaded once), the candidate of a
  curation (loaded before the LLM answers), the resume time of rate-limited
  calls (read before a sleep), answers that arrive late in a tab, the node an
  alias correction read before it writes, the aliases a description is embedded
  with, the pages of a site that move while they are read.
* *Partial failure*: a write that fails after the registry was changed, a save
  in several statements, a gleaning pass that fails after a good extraction.
* *Restart*: task statuses are in memory, evidence carries the policy of the
  process that wrote it.
* *Liveness*: a task slot must free up; a tab must learn the end of its task; a
  collection, an ingest, an extraction must end whatever fails in it.

`PROJECT.json` lists each of these under `hazards` with its line, and the
properties that cover it.

## 2. Modules

| Module | Models | Kind |
| --- | --- | --- |
| `ClaimPromise` | what readers of the graph are promised about a claim | abstract specification |
| `ClaimStore` | lifecycle, review and contradictions of claims | component, refines `ClaimPromise` |
| `MergePromise` | what a merge of two entities adds to that promise | abstract specification (EXTENDS `ClaimPromise`) |
| `EntityMerge` | resolver, article writes, alias edits and merges over `ClaimStore` | composition (EXTENDS `ClaimStore`), refines `MergePromise` |
| `ClaimStoreProofs` | theorems about `ClaimStore` and `EntityMerge` | proofs |
| `ProfileCuration` | one entity's description between ingest, curation and reviewer | component |
| `ProfileCurationProofs` | theorems about `ProfileCuration` | proofs |
| `ProfileEmbedding` | one node's embedding, hash, aliases and description among all their writers | component |
| `ProfileEmbeddingProofs` | theorems about `ProfileEmbedding` | proofs |
| `WorkflowSlot` | one slot for all workflows, which a task has once | abstract specification |
| `TaskManager` | background tasks | component, refines `WorkflowSlot` |
| `TaskPolling` | tabs, network and backend over `TaskManager` | composition (EXTENDS `TaskManager`) |
| `TaskPollingProofs` | theorems about `TaskPolling` | proofs |
| `LlmCalls` | rate-limit pauses, retries and gleaning of concurrent extractions | component |
| `LlmCallsProofs` | theorems about `LlmCalls` | proofs |
| `IngestRun` | one ingest after another: cache lookup, fetches, failures, lock, restarts | component |
| `IngestRunProofs` | theorems about `IngestRun` | proofs |
| `Extraction` | the records of the answers about an article, up to the claims and entities written | component |
| `ExtractionProofs` | theorems about `Extraction` | proofs |
| `LinkCollection` | the scraper over a site that changes while it is read | component |
| `LinkCollectionProofs` | theorems about `LinkCollection` | proofs |
| `MC*` | constants for TLC | model checking |

### ClaimStore

A claim is a relationship with its two ends; `Mention` is the set of those that
an extraction can assert. `present` are the relationships of the graph and
`active_article_urls`, `lifecycle_status`, `review_status`, `review_reasons` are
their properties of that name; `reviewed` stands for a non-empty review history.
`IngestArticle(a, emitted)` is the part of `ingest_article_tx` that concerns
claims, in its order: endpoints ordered (`claim_endpoint_ids`), `relate_tx` for
each asserted claim, `mark_not_reproduced_claims_tx`, and
`mark_claim_conflicts_tx` if anything was asserted. It is one action because it
is one transaction. `review_claim`, `refresh_claim_conflicts` (schema setup) and
`clear_all` are the other actions. A legacy claim that the startup migration
gives its first lifecycle is an initial state.

Evidence texts, provenance and time stamps are left out. Each conflict query
is evaluated atomically; two transactions that flag at once under
read-committed isolation are not modelled (see hazards).

`ClaimPromise` knows nothing of queries, reasons and statuses. It keeps what each
article produced when it was last processed (`latest`), every claim ever
produced (`known`), the `supported` claims and the `hidden` ones. The promise: an
article supports exactly the claims its latest processing produced, a claim is
supported while some article supports it, no claim is forgotten, and only a
reviewer hides a claim or brings it back. `KeepsPromise` says that `ClaimStore`
implements it, with `active_article_urls`, `present`, `lifecycle_status` and
`review_status` mapped to these four.

### EntityMerge

`registry` is the `EntityResolver` of the running ingest: its entries, the
names of each, and the alias index. `ResolveArticle` and `WriteArticle` are two
actions, because the resolver lock keeps other articles out but no request of a
reader; `FailArticle` is a failed write, which leaves the registry changed.
`add_alias` is the route of that name with both outcomes: a new alias, or a
merge with the one other entity of that name, which moves, joins or deletes its
relationships. All entities have one label, and names are equal or unlike: the
similarity and the embedding match find what is equal and nothing more, but in
every order and with both guards (`BlockedByArticle`, `BlockedByGraph`). The
graph guard is evaluated when the article is resolved, and may fail, which
blocks nothing. A behaviour keeps to one of the `Budgets`, so that one run
explores both many edits over two articles and many ingests of one.

`MergePromise` says what the queries of a merge, which move, join and delete
relationships one by one, add up to: a renaming. Whatever an article produced
about the entity that goes, it counts as having produced about the one that
stays, and what it produced about the two is dropped; the claims known and the
claims supported follow. What was hidden stays hidden under its new name, except
that a claim which was rejected for one entity and not for the other may be
either. `KeepsMergePromise` says that `EntityMerge` implements it: merges, alias
edits, resets and writes from a stale registry included.

`SupportReasonIsCurrent`, which holds of `ClaimStore` alone, does not hold here:
a merge joins the reasons of two claims, and `Missing in latest extraction` stays
on the result although the other claim brought support along.

### ProfileCuration

One entity, because curations of two entities share no state. Of an ingest the
model keeps what its resolver holds of the entity (loaded at its start and
written back with every article); of a curation, what it loaded and decided.
Saving and marking the evidence are separate actions, as they are separate
auto-commit statements. Texts are equal or different; `_same_evidence_text`,
which also takes near-duplicates for equal, is modelled as equality, as its
similarity is not transitive. Revision numbers, the list of used evidence,
traces and history are left out. A candidate has at least `MinNew` texts, so the
save of a candidate whose evidence is all duplicate, and the refresh of an
embedding without a review, are not reached.

The entity may be a topic. `concept` is then the definition that the ontology of
the running process has of it, and every article that mentions it writes that
definition and the source `topic_ontology` over whatever is there: the first
branch of the CASEs in `upsert_entity_tx` comes before the one that protects
curated and reviewed texts. Topics do not enter the resolver's registry, so that
what the ingest loaded does not matter. They are profiles like others, though:
curated, reviewed, and marked. A restart may bring another ontology.
`HumanTextLostForCause` therefore has a disjunct for topics, which says that an
article leaves nothing but the definition.

### ProfileEmbedding

The same node seen from its vector: `node` has its description, aliases,
embedding and `embedding_input_hash`, both of the latter represented by the text
they were made from (`NoText` for null). An embedding is of a mention
(`MentionText`, ingestion, which stores no hash) or of a profile
(`profile_embedding_text`: description and aliases). Everybody who writes the
node holds something that was read earlier, and each of these is a variable:
`registry` (the ingest's entries with the node's id), `job` (the curation's
candidate), `edit` (the aliases a reviewer's description is embedded with, read
before the call of the embedding service), `correction` (the node an alias
correction read, all of whose properties it sets). Ingestion and curation
exclude each other, the requests exclude nothing.

A topic (`concept`, here with its aliases) is written by `WriteTopic` instead of
`WriteArticle`: without registry and mention, with the ontology's description and
aliases in the place of the node's, and without an embedding, so that the one of
an earlier profile stays with its hash. Alias corrections refuse topics.

The id of a new entry is a slug of its name, and slugs of different names can be
equal; `Name` is a set of such spellings. An ingest that knows the node under one
of them may take the other for new, and then writes its own description and the
mention's embedding to the node that is there.

What a candidate needs besides its source is `ProfileCuration`'s business, and
which description wins in `upsert_entity_tx` depends on evidence statuses: both
are left open here. A merged node gives this one its hash if there is none
(`OtherProfile`), never its embedding. The name of the embedding model is left
out.

### TaskManager, TaskPolling

`TaskManager.start` checks for conflicts and registers the task in one
synchronous call. `TaskPolling` adds tabs with open calls that are answered and
received in any order, lost, or dropped by a reload, and restarts of the
backend. A tab does not know whether an answer is newer than what it shows.

`PassesTheSlot` says that the tasks implement `WorkflowSlot`: the active task has
the slot, a task that starts takes it when it is free, and one that ends, or that
a restart drops, leaves it and never has it again.

### LlmCalls

`job[a]` is the extraction of article `a`: where it stands (`phase`), the number
of its conversation (`attempt`), of the call in it (`pass`, 0 for the first
answer), of the request for that call (`request`), how long it still sleeps
(`timer`), and the answers it has merged (`raw`). `pause` is what remains until
`_rate_limit_resume_at`; `asked` and `owed` are histories of what the API asked
for and of what each article could know of it when it looked. Time is kept as
remaining durations that one `Tick` decreases, so that the model needs no clock
and no horizon.

`CheckPause` and `Send` are two steps because `_create_chat_completion` reads the
resume time once and then sleeps: a pause that is extended meanwhile is not kept
by those asleep, and `KnownPauseIsKept` claims no more than that. An article
holds the semaphore while it sleeps. Answers are whole or fail; that a failed
gleaning pass fails its conversation, and a new conversation starts empty, is
modelled, the parsing and repair of answers is not. The openai client's own
retries happen inside one request of the model.

### IngestRun

The stages of `IngestionService.ingest`: `collect`, `lookup`, `fetch`,
`registry`, `process`. `graph[u]` is the Article node stored under url `u`: the
extraction policy it carries and the urls that are its aliases; `Canonical[u]`
is the canonical url of the page behind a link, and is its own canonical url.
`Known` is the query that decides what is skipped. `job[u]` follows one page
through extraction, lock and write, `lock` is the holder of `_resolver_lock`.
`processed` is a history, and the only place where the model says which page was
really written under which policy.

What the scraper does is abstract: any links may be found, any of the pages asked
for may be fetched. A lookup that fails skips nothing, a registry that fails to
load ends the ingest, a failed extraction or write ends its article only.
`Restart` starts a process with the same or other prompts and models;
`clear_all` is DELETE /graph, which nothing excludes from a running ingest. An
exception that leaves `_process_article` outside its `try` blocks is not
modelled. What the writes do to entities and claims is in `EntityMerge` and
`ClaimStore`.

### LinkCollection

`ArticleScraper.collect_links` and `fetch_articles`, and the site as an actor
that the code does not control. `place[p]` says on which page of a path each link
is shown; `Publish` pushes links to later pages, `Withdraw` pulls them to earlier
ones, both between any two requests. `page` and `todo` are the two nested loops
over pages and paths, `exhausted` is the set of that name. A page is read, or
fails (`FailPage`), or answers 404 (`EndOfPath`; on the first page a failure like
any other). `due` is a history: what the listings showed when the collection
began, less what a failed page or a withdrawal put out of its reach.
`MissedForCause` says that everything else is found.

Which text a page has is left out (`Unusable` are those of which
`_fetch_article` makes nothing), and so is the order of the links: of two
spellings, any may come first. Which links the ingest asks for is any subset.

### Extraction

The steps of one article from the records of the LLM's answers to what
`ingest_article_tx` writes, which three files share: `Glean` merges further
answers into the first, `Convert` types rows whose evidence reference resolves
and restores ends of relationships, `Gates` is the evidence gate and the topic
gate, `Complete` adds the ends still missing and hands the topics to the
ontology, `Write` looks up ends by normalised key. Nothing of this is
concurrent; it is the order of the steps, each with its own idea of when two
names are the same, that is hard to get right. Names are equal up to case;
`Key`, `GateKey` and `Concept`, the three ways in which the code compares them
otherwise, are constants, so that the theorems hold for any of them.

`Facts` says without any of these steps which relationships of the answers
count: evidence in the article, not unsure, one way to read the types of its
ends, a known topic, ends with different keys. `ClaimsAreFacts` and
`FactsAreClaimed` say that the claims written are these, and
`StoredAreBacked` does the same for entities.

Lists are sets here: which of several rows comes first is a choice, as in
`NewEntities` and `Unique`. Descriptions, aliases and keywords are left out,
stated and attributed evidence are one status. The path for prompts without
strict JSON, with evidence quoted instead of referred to, is not modelled.

## 3. Checks

| Run | Question | Bounds |
| --- | --- | --- |
| `claim_store` | Do the claim invariants and the promise hold in every order of operations? | two companies, two articles, claims in both directions of ACQUIRED and MERGED_WITH, so that inverse directions, competing transactions and shared support all occur |
| `entity_merge` | Do stale registries and merges keep related names apart, is a merge a renaming, and what happens to support, decisions and contradictions when claims become one? | three companies; two articles, one ingest, two edits, two reviews, or one article, three ingests, one edit, one review |
| `entity_merge_turned` | A statement of the README that merges break (finding) | one article, two ingests, one edit |
| `profile_curation` | Is a rewrite prompted by news only, is what is marked considered, and when is a human's text lost? | an entity, or a topic with two versions of its definition; four evidence nodes of three texts (one duplicate), two policies, thresholds scaled to two |
| `profile_curation_accepted`, `profile_curation_spares` | Acceptance of a text nobody saw; curation over a human's text (findings) | same |
| `task_polling` | Exclusion, no tab ahead of the backend, every task ends, every tab learns it | one tab with two open calls, two tasks, one restart |
| `llm_calls` | Are pauses kept, are results whole, does every extraction end? | three articles for two places, two attempts, one gleaning pass, delays of one and two |
| `ingest_run` | Is what is skipped processed, does every ingest end, does every page arrive? | two links to one page, two policies, two restarts or resets |
| `link_collection` | Is what the listings show found, is it fetched once, does every collection end? | two spellings and a foreign link, two paths of three pages (a third page is pushed to and pulled from, a second may end its path), one place, one change of the site in each collection |
| `profile_embedding` | Does the hash belong to the embedding, does a curation leave an embedding of the profile, and who can overwrite a human's text? | two spellings, or a topic with two versions of what the ontology says; one description of articles, two requests of reviewers in flight or in sequence |
| `extraction` | Are the claims and entities written those the answers support, and does gleaning take nothing back? | two answers of up to two records of each kind (`MaxRows`), out of eight entities and seven relationships: names with equal keys, with none, with two types; references that do not resolve; a topic by two names and one nobody knows |

The bounds are small because every rule of the code looks at one or two claims,
names, tasks or calls at a time: a contradiction needs two claims, shared
support two articles, a merge two entities and a third name that relates them
to something, a race in a tab two open calls, a queue at the semaphore one more
article than places, an alias a second link. Tabs share nothing but the backend,
so that a second one adds no behaviour of the first; the theorems cover any
number. What the bounds cut is named in the modules (`Budgets`, `MaxEdits`,
`MaxRestarts`, `MaxResets`, `MaxChanges`); `ClaimStore`, `ProfileCuration` and
`LlmCalls` have no counters of their own and are explored completely.

The type invariants are proved for every module with a module of proofs, and the
run of `IngestRun` checks its own, where it says that no counter goes below zero.

Deadlock is checked in every run.

Each property has a mutant, a definition next to the one it mutates, that is a
plausible bug in that code and makes TLC report that property.

### Fairness

Only liveness properties rest on fairness (`FairSpec` of four modules).

`TaskPolling`:

* weak fairness of `Work`: asyncio runs every created task, and the waits inside
  a workflow have timeouts (`LLM_TIMEOUT_SECONDS`, `SCRAPE_TIMEOUT_SECONDS`).
  That a whole workflow ends is what `LlmCalls` and `IngestRun` show of its parts;
* strong fairness of the timer, of answering and of receiving: the timer fires
  every 2.2 s while a task is active, and a network that answers now and then
  is assumed, one that loses every answer is not.

`LlmCalls`:

* weak fairness of `Tick`: time passes;
* strong fairness of each article's `Extract`: asyncio's semaphore is first in,
  first out, so an article that waits while a place comes free again and again
  gets one, and each request is answered, if only by its timeout. Nothing is
  assumed about the answers: every one may be a 429.

`IngestRun`:

* weak fairness of `Ingest`, as a whole: the calls an ingest awaits have timeouts.
  `EveryIngestEnds` needs no more;
* for `EveryPageArrives` only, assumptions about the world: somebody starts
  ingests again and again, and for each page, each of listing, fetch, registry,
  extraction and write succeeds now and then when it is tried again and again.
  A page that fails for ever cannot arrive.

`LinkCollection`:

* weak fairness of `Scrape`, as a whole: the HTTP client has a timeout
  (`SCRAPE_TIMEOUT_SECONDS`), and the loops and tasks of the scraper are run.
  Nothing is assumed about the site: every request may fail, and it may change
  meanwhile. `EveryCollectionEnds` needs no more.

Nothing is assumed about readers, reloads, losses or restarts: they may or may
not happen.

### Findings

The runs that expect a violation show statements of the repository that its
code does not keep; `PROJECT.json` quotes them.

1. A merge turns a MERGED_WITH claim against the order of its ids; the next
   extraction of the same merger withdraws it.
2. "Accepted by human review." is shown for a description that an ingest or a
   curation wrote after the acceptance; for a topic, any ingest of an article that
   mentions it suffices.
3. A curation that loaded an entity before a human's edit overwrites the edit.

Noticed, but without a run:

* What a reviewer wrote or accepted of a topic lasts until the next article that
  mentions it, whose write brings the ontology's definition back
  (`article_graph_writer.py:441`); so does what a curation wrote
  (`HumanTextLostForCause` and `HumanProfileLostForCause` name it).
* `Conflicting direction` ("both directions are active in the graph", README of
  the repository, line 270) stays on a claim after the other direction was
  rejected or lost its support (`claim_store.py:29`).
* A claim accepted in spite of a contradiction is queued again by the next
  ingest or startup without the "new issue found" of that README's state diagram
  (`claim_store.py:27`).
* A merged claim keeps a support reason that no longer holds (see EntityMerge).
* A row that gleaning adds for a name whose type was guessed can make a
  relationship of the first answer ambiguous or invalid, although gleaning is
  "Recall-only" (see `GleaningKeepsFacts`).
* An entity restored for a HAS_TOPIC stays when the topic gate rejects that
  relationship (see `StoredAreBacked`).
* Evidence a rewrite used but the review did not list stays new, and comes up for
  review again (`entity_curation.py:901`).
* A call asleep until the end of a pause sends although the pause was extended
  (see LlmCalls).
* DELETE /graph during an ingest is no "clean re-ingest"
  (`app/api/routes.py:185`), as the ingest writes back ids, aliases and
  descriptions its registry had loaded before.
* "Attach pre-computed embeddings to new entities" (`ingestion.py:1239`): new to
  the registry, and not always to the graph. A node that is there under another
  spelling with the same slug, or that a reviewer edited after the ingest
  created it, has the embedding of its profile replaced by that of a mention,
  while its hash goes on saying that the profile is embedded; a curation that
  keeps the text then spares the call (the exceptions of
  `HashVouchesForEmbedding` and `CuratedProfileIsEmbedded`).
* A merge fills every property the remaining node lacks from the removed one
  (`entity_resolution_store.py:397`), so that it can take over the hash of a
  profile that is not its own, or the human review of a description.
* The hash covers the text and not the embedding model
  (`entity_curation.py:1113`): after a change of provider, kept profiles stay in
  the old vector space.
* A 404 for a page the site has loses all later pages of that path
  (`scraper.py:307`); the message says only that the pagination ended.
* Hosts are compared as they are written (`scraper.py:1115`), links up to case.
  Two links to one canonical page are both fetched; `IngestRun` shows that they
  end up in one article.

## 4. Proofs

TLAPS proves for every value of the constants:

* `ClaimStoreProofs`, of `ClaimStore`: the inductive invariant `ClaimInvariant`
  and from it type correctness and every safety and action property the run
  `claim_store` checks, and the refinement of `ClaimPromise`. `ClaimInv` joins
  the checked invariants with `AbsentIsClean` (a claim that is not in the graph
  carries no state) and `UndecidedUntilReviewed` (without a review history no
  decision is recorded); `IInv` adds `SupportReasonIsCurrent`, which merges do not
  keep. Neither part alone is inductive: that two live claims in contradiction
  are queued follows, when an article asserts the second one, from what is
  known of claims that were absent or withdrawn until then.
  `ConflictFlaggedForCause` is the converse over time: `ConflictsInPairs` says
  that the queries flag both sides or none, and the theorem that no step which
  flags them leaves one of them without support or out of the queue.
* `ClaimStoreProofs`, of `EntityMerge`: `MergeInvariant` and from it type
  correctness, every property the run `entity_merge` checks,
  `LifecycleMatchesSupport`, `LostSupportIsQueued`, and the refinement of `MergePromise`. The invariant
  is `MergeTypeOK`, `ClaimInv` and `RelatedNamesStayApart`.

  *Merges.* What a merge leaves is described claim by claim (`Joins`): untouched,
  gone, moved, or joined with what was there. `JoinsFacts` and the lemmas on
  `JoinedLifecycle`, `JoinedStatus` and `JoinedReasons` say what each case does to
  support, status and reasons; claims that are gone are clean. The queries that
  look for contradictions run last, on what is live at that point, so that
  `LiveConflictIsQueued` does not depend on what the merge did before.
  `MergeRenames` then adds this up to the renaming of `MergePromise`.

  *Related names.* `ResolutionsApart`: of two names that an article relates, the
  one resolved second is refused the entity the first one has
  (`BlockedByArticle`), so that they could meet only if the second is new and the
  first had taken the entity of the second's own name, which `BlockedByArticle`
  refuses as well. Nothing is assumed about how stale the registry is.

  Assumption, besides those of the modules: `FiniteAssumption`, that there are
  finitely many entities. The alias index keeps the last entity that lists a
  name, and a last one there is of finitely many.
* `TaskPollingProofs`: `PollingInvariant`, type correctness,
  `OneWorkflowAtATime`, the refinement of `WorkflowSlot` and `ShownIsPast`, for any number of tabs, calls and
  tasks. `CallsArePast` says of every answer under way what `ShownIsPast` says
  of the screen; a tab only ever shows an answer that was under way.
* `LlmCallsProofs`: `CallsInvariant`, type correctness, `OneConversation` and
  `KnownPauseIsKept`. The invariant: the pause is at least as long as any delay
  asked for, a waiting call sleeps at least as long as it owed when it looked,
  and a conversation holds exactly the answers it got so far. Assumptions:
  `SettingsAssumption`, and that there are finitely many articles.
* `IngestRunProofs`: `IngestInvariant`, type correctness,
  `SkippedIsProcessed`, and the progress described below. The invariant: an article carries the policy its page was
  last processed under, every alias leads to the page it is stored with, and
  no job is ahead of its stage. Assumptions: canonical urls are their own
  canonical urls, and no policy is called "none".
* `ProfileCurationProofs`: `ProfileInvariant`, type correctness, `PromptIsNews`,
  `MarkedIsConsidered` and `HumanTextLostForCause`, for entities and topics. A new text is compared
  with the considered evidence that the graph has, and with the description
  only; that this is all evidence ever considered is `ConsideredIsIngested`, and
  it needs `JobIsIngested` for the save, `SavedIsConsidered` for the marks, and
  `NoJobOfHumanText` for the last theorem. Assumptions: positive thresholds, and
  that no evidence text and no definition of a topic is one of the model's names for other texts.
* `ExtractionProofs`: type correctness and the five properties of `Extraction`.
  The invariant says at each stage what the one before made of the answers. The
  core is that the entities that reach the write have exactly the keys that
  `StoredAreBacked` names: topics are the targets of HAS_TOPIC and of nothing
  else (`TopicEnds`), every kept topic relationship is one of the typed ones
  under its concept's name (`KeptAreTopical`), and whatever end `Complete` still
  adds was backed before (`EndsAreBacked`). Assumptions: a concept is found by
  its own name, which has a key.

* `LinkCollectionProofs`: `CollectionInvariant`, type correctness,
  `MissedForCause` and `OneFetchPerArticle`, for any links, paths, numbers of
  pages and changes of the site. The invariant: a link that is due is
  among the links already, or is none to an article, or is shown on a page that is
  still to be read (`Unread`), those beyond the last one included. Assumptions: finitely many links, a
  positive number of pages and of places.
* `ProfileEmbeddingProofs`: `EmbeddingInvariant`, type correctness,
  `HashVouchesForEmbedding`, `CuratedProfileIsEmbedded` and
  `HumanProfileLostForCause`, for any spellings, texts and ontologies. The invariant
  says of the node an alias correction has read what `HashVouchesForEmbedding`
  says of the node: the correction writes its copy back, so that the property of
  the node alone is not inductive. Entries of the registry hold embeddings of
  mentions only, a curation has loaded no text of a reviewer, and nobody has read a topic for a
  correction of its aliases (`TopicsAreNotCorrected`). Assumption: article texts
  and definitions are not the model's names for other texts.

Each component's proofs consist of a lemma for every action that can disturb the
invariant, a lemma that puts them together over `Next`, and the theorems.

Of the liveness properties, the part that needs no fairness is proved as well, for
any number of articles, links and pages:

* `IngestRunProofs`: every step of a running ingest brings its stage, or one of its
  articles, forward and takes nothing back (`IngestsAdvance`); as long as articles
  are processed, one is at work, or one can take the lock, or all have their
  results (`NoArticleIsStuck`, as the lock is always some article's that can
  release it); what has arrived stays until a reset or a restart (`PagesStay`).
* `LlmCallsProofs`: an extraction goes through its conversations, calls, requests
  and phases once each, in this order, and nobody makes it sleep longer
  (`ExtractionsAdvance`).
* `LinkCollectionProofs`: a collection goes through its phases, pages, paths and
  fetches once each, whatever the site does (`CollectionsAdvance`).

With finitely many stages, links and requests, nothing can go round for ever:
`EveryIngestEnds`, `EveryExtractionEnds` and `EveryCollectionEnds` need beyond
this only that steps which can be taken are taken. That last part, the fairness,
and all of `EveryPageArrives`, `SlotFreesUp` and `TabLearnsTheEnd`, are only
model-checked: fairness and ENABLED are beyond the prover. Every invariant and
every action property that a passing run checks is proved.

## 5. Not modelled

* Text: similarity scores, distances of embeddings, prompts, JSON repair.
* How the scraper makes links and text of HTML (`scraper.py` from line 505):
  sequential and without state; a model of it would be a transliteration. Two
  remarks from reading it: text in a `p` within an `li` is taken twice from pages
  without an article body, and cleaning a text twice is not cleaning it once. An exception of
  `urljoin` or `urlparse` for a malformed link, which is made and compared after
  the `try` of the request (`scraper.py:349`-`360`), would end the collection;
  `LinkCollection` has no such link.
* How the frontend loads and shows the graph.
* Observability, cost reports, read-only queries, views: they change no state of
  the program.
* Isolation inside Neo4j: transactions are atomic here, but for the alias
  corrections of `ProfileEmbedding`, which read and write in two steps.
* Two backends on one database: the deployment has one.

## 6. Plan

1. `ClaimStore`, `ClaimPromise` (done, proved).
2. `TaskManager`, `TaskPolling` (done, proved).
3. `EntityMerge`, `MergePromise` (done, proved), `ProfileCuration` (done, proved).
4. `LlmCalls` (done, proved).
5. `IngestRun` (done, proved).
6. `Extraction` (done, proved): evidence references, relationship signatures, the
   gates, the repair of extraction results.
7. `LinkCollection` (done, proved): feed, listings, deduplication, fetches.
8. `ProfileEmbedding` (done, proved): embeddings and their hashes, the slug as an
   id, overlapping corrections.
9. Proofs about `EntityMerge` over the invariant of `ClaimStore`, and the parts of
   liveness that need no fairness (done).
10. An abstract specification of a workflow slot that `TaskManager` implements
   (done, proved), and of an ingest (each page is written or stays to be written)
   that `IngestRun` implements.
11. A property of resets during an ingest, and runs for the observations listed
    after the findings.
12. `ProfileCuration` and `ProfileEmbedding` composed: which evidence the vector
    that retrieval uses is based on.
