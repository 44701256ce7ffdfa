----------------------------- MODULE IngestRun -----------------------------
(***************************************************************************)
(* One ingest after another (services/ingestion.py): links are collected,  *)
(* those whose page the graph has under the current extraction policy are  *)
(* skipped, the others fetched, and their pages extracted side by side and *)
(* resolved and written one at a time.  Anything may fail, the backend may *)
(* restart with another policy, and the graph may be cleared at any time.  *)
(*                                                                         *)
(* A page is stored as an article under its canonical url, with the links  *)
(* that led to it as aliases.                                              *)
(***************************************************************************)
EXTENDS Naturals

CONSTANTS
  Url,
  Canonical,    \* the canonical url of the page at each url
  Policy,       \* hashes of the extraction prompts and model settings
  MaxResets     \* bounds the restarts and clearings

ASSUME CanonicalAssumption ==
  /\ Canonical \in [Url -> Url]
  /\ \A u \in Url : Canonical[Canonical[u]] = Canonical[u]
ASSUME PolicyAssumption == "none" \notin Policy
ASSUME ResetsAssumption == MaxResets \in Nat

VARIABLES
  policy,    \* the policy of the running backend
  graph,     \* [Url -> Article]
  stage,
  force,     \* force_rescrape of the request
  links,     \* what collect_links found
  cached,    \* the links that are skipped
  job,       \* [Url -> JobState], of the links that were fetched
  lock,      \* the holder of _resolver_lock
  processed, \* history: the policy under which the page at a url was last written
  resets

run == <<stage, force, links, cached, job, lock>>
vars == <<policy, graph, run, processed, resets>>

Article == [policy : Policy \cup {"none"}, aliases : SUBSET Url]
NoArticle == [policy |-> "none", aliases |-> {}]

JobState == {"none", "extract", "extracted", "write", "written", "failed"}

TypeOK ==
  /\ policy \in Policy
  /\ graph \in [Url -> Article]
  /\ stage \in {"idle", "collect", "lookup", "fetch", "registry", "process"}
  /\ force \in BOOLEAN
  /\ links \subseteq Url /\ cached \subseteq links
  /\ job \in [Url -> JobState]
  /\ \A u \in Url : job[u] # "none" => u \in links \ cached
  /\ \A u \in Url : job[u] = "write" <=> lock = {u}
  /\ processed \in [Url -> Policy \cup {"none"}]
  /\ resets \in 0..MaxResets

NoJobs == [u \in Url |-> "none"]

Idle ==
  /\ stage' = "idle" /\ force' = FALSE
  /\ links' = {} /\ cached' = {}
  /\ job' = NoJobs /\ lock' = {}

-----------------------------------------------------------------------------
StartIngest ==
  /\ stage = "idle"
  /\ stage' = "collect"
  /\ force' \in BOOLEAN
  /\ UNCHANGED <<policy, graph, links, cached, job, lock, processed, resets>>

(* A page of a listing that fails adds no links; nor does one that shows   *)
(* only old news.                                                          *)
collect_links(found) ==
  /\ stage = "collect"
  /\ links' = found
  /\ stage' = "lookup"
  /\ UNCHANGED <<policy, graph, force, cached, job, lock, processed, resets>>

(* Mutant: a page of any policy counts. *)
Known_any ==
  {u \in Url : \E a \in Url :
     graph[a].policy # "none" /\ (a = u \/ u \in graph[a].aliases)}

(* cached_article_urls_for_extraction_policy_tx *)
Known ==
  {u \in Url : \E a \in Url :
     graph[a].policy = policy /\ (a = u \/ u \in graph[a].aliases)}

(* A lookup that fails skips nothing. *)
Lookup ==
  /\ stage = "lookup"
  /\ cached' \in IF force THEN {{}} ELSE {links \cap Known, {}}
  /\ stage' = "fetch"
  /\ UNCHANGED <<policy, graph, force, links, job, lock, processed, resets>>

(* Mutant: an ingest tries until it has something to process. *)
fetch_articles_retried(fetched) ==
  /\ stage = "fetch"
  /\ job' = [u \in Url |-> IF u \in fetched THEN "extract" ELSE "none"]
  /\ stage' = IF fetched = {} THEN "fetch" ELSE "registry"
  /\ UNCHANGED <<policy, graph, force, links, cached, lock, processed, resets>>

(* Fetches that fail and pages without an article are dropped; nothing to  *)
(* process needs no registry.                                              *)
fetch_articles(fetched) ==
  /\ stage = "fetch"
  /\ job' = [u \in Url |-> IF u \in fetched THEN "extract" ELSE "none"]
  /\ stage' = IF fetched = {} THEN "process" ELSE "registry"
  /\ UNCHANGED <<policy, graph, force, links, cached, lock, processed, resets>>

LoadRegistry ==
  /\ stage = "registry"
  /\ stage' = "process"
  /\ UNCHANGED <<policy, graph, force, links, cached, job, lock, processed, resets>>

(* A feed that cannot be read, or a registry that cannot be loaded, ends   *)
(* the ingest.                                                             *)
FailIngest ==
  /\ stage \in {"collect", "registry"}
  /\ Idle
  /\ UNCHANGED <<policy, graph, processed, resets>>

Advance(u, from, to) ==
  /\ stage = "process" /\ job[u] = from
  /\ job' = [job EXCEPT ![u] = to]
  /\ UNCHANGED <<policy, stage, force, links, cached, resets>>

Extract(u) ==
  /\ Advance(u, "extract", "extracted")
  /\ UNCHANGED <<graph, lock, processed>>

FailExtraction(u) ==
  /\ Advance(u, "extract", "failed")
  /\ UNCHANGED <<graph, lock, processed>>

(* async with self._resolver_lock *)
Acquire(u) ==
  /\ lock = {}
  /\ Advance(u, "extracted", "write")
  /\ lock' = {u}
  /\ UNCHANGED <<graph, processed>>

(* Mutant: only the canonical url is stored. *)
Written_unaliased(u) ==
  [policy |-> policy, aliases |-> graph[Canonical[u]].aliases \cup {Canonical[u]}]

Written(u) ==
  [policy |-> policy, aliases |-> graph[Canonical[u]].aliases \cup {Canonical[u], u}]

(* ingest_article_tx, one transaction *)
Write(u) ==
  /\ Advance(u, "write", "written")
  /\ lock' = {}
  /\ graph' = [graph EXCEPT ![Canonical[u]] = Written(u)]
  /\ processed' = [v \in Url |-> IF Canonical[v] = Canonical[u] THEN policy ELSE processed[v]]

(* Mutant: a write that fails does not release the lock. *)
FailWrite_locked(u) ==
  /\ Advance(u, "write", "failed")
  /\ UNCHANGED <<graph, lock, processed>>

FailWrite(u) ==
  /\ Advance(u, "write", "failed")
  /\ lock' = {}
  /\ UNCHANGED <<graph, processed>>

(* asyncio.gather returns when every article has its result. *)
Tally ==
  /\ stage = "process"
  /\ \A u \in Url : job[u] \in {"none", "written", "failed"}
  /\ Idle
  /\ UNCHANGED <<policy, graph, processed, resets>>

(* DELETE /graph, which no running task excludes *)
clear_all ==
  /\ resets < MaxResets
  /\ resets' = resets + 1
  /\ graph' = [a \in Url |-> NoArticle]
  /\ processed' = [u \in Url |-> "none"]
  /\ UNCHANGED <<policy, run>>

(* A new process, perhaps with other prompts or another model. *)
Restart(next) ==
  /\ resets < MaxResets
  /\ resets' = resets + 1
  /\ policy' = next
  /\ Idle
  /\ UNCHANGED <<graph, processed>>

Init ==
  /\ policy \in Policy
  /\ graph = [a \in Url |-> NoArticle]
  /\ stage = "idle" /\ force = FALSE
  /\ links = {} /\ cached = {}
  /\ job = NoJobs /\ lock = {}
  /\ processed = [u \in Url |-> "none"]
  /\ resets = 0

ProcessArticle(u) ==
  Extract(u) \/ FailExtraction(u) \/ Acquire(u) \/ Write(u) \/ FailWrite(u)

Ingest ==
  \/ \E found \in SUBSET Url : collect_links(found)
  \/ Lookup
  \/ \E fetched \in SUBSET (links \ cached) : fetch_articles(fetched)
  \/ LoadRegistry \/ FailIngest
  \/ \E u \in Url : ProcessArticle(u)
  \/ Tally

Next ==
  \/ StartIngest
  \/ Ingest
  \/ clear_all
  \/ \E next \in Policy : Restart(next)

Spec == Init /\ [][Next]_vars

(* A running ingest goes on: its calls have timeouts.  For                 *)
(* EveryPageArrives, ingests are started again and again, and no page is   *)
(* unlucky for ever: when it gets to a step often enough, the step         *)
(* succeeds.                                                               *)
FairSpec ==
  /\ Spec
  /\ WF_vars(StartIngest) /\ WF_vars(Ingest)
  /\ \A u \in Url :
       /\ SF_vars(\E found \in SUBSET Url : u \in found /\ collect_links(found))
       /\ SF_vars(\E fetched \in SUBSET (links \ cached) : u \in fetched /\ fetch_articles(fetched))
       /\ SF_vars(job[u] = "extract" /\ LoadRegistry)
       /\ SF_vars(Extract(u))
       /\ SF_vars(Write(u))

-----------------------------------------------------------------------------
(* "Already processed": whatever an ingest skips, its page was written     *)
(* under the policy of that ingest, not only some page, or under some      *)
(* policy.                                                                 *)
SkippedIsProcessed ==
  [][\A u \in cached' \ cached : processed[u] = policy]_vars

(* No failure of an article, and none of its neighbours, keeps an ingest   *)
(* (and with it the slot of the workflows) for ever.                       *)
EveryIngestEnds == stage # "idle" ~> stage = "idle"

(* Whatever fails, crashes or is cleared meanwhile, in the end the graph   *)
(* has every page, under the policy of the day, and skips every link to    *)
(* it: a failed article comes up again, and one that was written does not. *)
EveryPageArrives ==
  \A u \in Url : <>[](processed[u] = policy /\ u \in Known)
=============================================================================
