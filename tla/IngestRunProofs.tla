-------------------------- MODULE IngestRunProofs --------------------------
(***************************************************************************)
(* What an ingest skips was processed, for any links, pages and policies.  *)
(* The policy of an article is the one its page was last written under,    *)
(* and its url and aliases all lead to its page.                           *)
(***************************************************************************)
EXTENDS IngestRun, TLAPS

PolicyIsOfPage == \A u \in Url : graph[Canonical[u]].policy = processed[u]

AliasesLeadHere ==
  \A a \in Url :
    /\ graph[a].policy # "none" => Canonical[a] = a
    /\ \A u \in graph[a].aliases : Canonical[u] = a

(* Nothing is skipped before the lookup, nor in work before the fetches.   *)
NothingAhead ==
  /\ stage \in {"idle", "collect", "lookup"} => cached = {}
  /\ stage \notin {"registry", "process"} => \A u \in Url : job[u] = "none"

IInv == TypeOK /\ NothingAhead /\ PolicyIsOfPage /\ AliasesLeadHere

(* Nothing has been processed at first.                                    *)
LEMMA InitInvariant == Init => IInv
PROOF
  <1> USE PolicyAssumption, CanonicalAssumption, ResetsAssumption
  <1>1. ASSUME Init
        PROVE  TypeOK
    <2>1. graph \in [Url -> Article] /\ job \in [Url -> JobState] /\ force \in BOOLEAN
      BY <1>1 DEF Init, NoArticle, Article, NoJobs, JobState
    <2>2. \A u \in Url : job[u] = "none" /\ {u} # {}
      BY <1>1 DEF Init, NoJobs
    <2> QED BY <1>1, <2>1, <2>2 DEF Init, TypeOK
  <1>2. ASSUME Init
        PROVE  NothingAhead /\ PolicyIsOfPage /\ AliasesLeadHere
    BY <1>2 DEF Init, NothingAhead, NoJobs, PolicyIsOfPage, AliasesLeadHere, NoArticle
  <1> QED BY <1>1, <1>2 DEF IInv

(* A write makes the article one of the running policy.                    *)
LEMMA WriteStep ==
  ASSUME NEW u \in Url, IInv, Write(u)
  PROVE  IInv'
PROOF
  <1> USE CanonicalAssumption
  <1> DEFINE c == Canonical[u]
  <1>1. /\ policy \in Policy /\ graph \in [Url -> Article] /\ c \in Url
        /\ graph[c].aliases \subseteq Url
    BY DEF IInv, TypeOK, Article
  <1>2. /\ Written(u) \in Article
        /\ Written(u).policy = policy
        /\ Written(u).aliases = graph[c].aliases \cup {c, u}
    BY <1>1 DEF Written, Article
  <1>3. /\ graph' = [graph EXCEPT ![c] = Written(u)]
        /\ processed' = [v \in Url |-> IF Canonical[v] = c THEN policy ELSE processed[v]]
        /\ job' = [job EXCEPT ![u] = "written"] /\ lock' = {} /\ job[u] = "write"
        /\ stage = "process"
        /\ UNCHANGED <<policy, stage, force, links, cached, resets>>
    BY DEF Write, Advance
  <1>4. TypeOK'
    <2>1. graph' \in [Url -> Article]
      BY <1>1, <1>2, <1>3
    <2>2. processed' \in [Url -> Policy \cup {"none"}]
      BY <1>1, <1>3 DEF IInv, TypeOK
    <2>3. /\ job' \in [Url -> JobState]
          /\ \A v \in Url : job'[v] # "none" => v \in links \ cached
      BY <1>3 DEF IInv, TypeOK, JobState
    <2>4. \A v \in Url : job'[v] # "write"
      BY <1>3 DEF IInv, TypeOK
    <2> QED BY <1>3, <2>1, <2>2, <2>3, <2>4 DEF IInv, TypeOK
  <1>5. PolicyIsOfPage'
    <2> SUFFICES ASSUME NEW v \in Url
                 PROVE  graph'[Canonical[v]].policy = processed'[v]
      BY DEF PolicyIsOfPage
    <2>1. CASE Canonical[v] = c
      BY <1>1, <1>2, <1>3, <2>1
    <2>2. CASE Canonical[v] # c
      BY <1>1, <1>3, <2>2 DEF IInv, PolicyIsOfPage
    <2> QED BY <2>1, <2>2
  <1>6. AliasesLeadHere'
    <2> SUFFICES ASSUME NEW a \in Url
                 PROVE  /\ graph'[a].policy # "none" => Canonical[a] = a
                        /\ \A v \in graph'[a].aliases : Canonical[v] = a
      BY DEF AliasesLeadHere
    <2>1. CASE a = c
      BY <1>1, <1>2, <1>3, <2>1 DEF IInv, AliasesLeadHere
    <2>2. CASE a # c
      BY <1>1, <1>3, <2>2 DEF IInv, AliasesLeadHere
    <2> QED BY <2>1, <2>2
  <1>7. NothingAhead'
    BY <1>3 DEF NothingAhead
  <1> QED BY <1>4, <1>5, <1>6, <1>7 DEF IInv

(* No other step of an article touches the graph.                          *)
LEMMA ArticleStep ==
  ASSUME NEW u \in Url, IInv,
         Extract(u) \/ FailExtraction(u) \/ Acquire(u) \/ FailWrite(u)
  PROVE  IInv'
PROOF
  <1>1. /\ UNCHANGED <<policy, graph, processed, stage, force, links, cached, resets>>
        /\ stage = "process"
    BY DEF Extract, FailExtraction, Acquire, FailWrite, Advance
  <1>2. CASE Extract(u) \/ FailExtraction(u)
    <2>1. /\ job \in [Url -> JobState] /\ job[u] = "extract" /\ lock' = lock
          /\ \E to \in {"extracted", "failed"} : job' = [job EXCEPT ![u] = to]
      BY <1>2 DEF Extract, FailExtraction, Advance, IInv, TypeOK
    <2>2. TypeOK'
      BY <1>1, <2>1 DEF IInv, TypeOK, JobState
    <2> QED BY <1>1, <2>2 DEF IInv, NothingAhead, PolicyIsOfPage, AliasesLeadHere
  <1>3. CASE Acquire(u)
    <2>1. TypeOK'
      BY <1>1, <1>3 DEF Acquire, Advance, IInv, TypeOK, JobState
    <2> QED BY <1>1, <2>1 DEF IInv, NothingAhead, PolicyIsOfPage, AliasesLeadHere
  <1>4. CASE FailWrite(u)
    <2>1. TypeOK'
      BY <1>1, <1>4 DEF FailWrite, Advance, IInv, TypeOK, JobState
    <2> QED BY <1>1, <2>1 DEF IInv, NothingAhead, PolicyIsOfPage, AliasesLeadHere
  <1> QED BY <1>2, <1>3, <1>4

(* An ingest that ends leaves no work behind.                              *)
LEMMA IdleTyped ==
  ASSUME Idle
  PROVE  /\ stage' = "idle" /\ force' \in BOOLEAN
         /\ links' = {} /\ cached' = {} /\ job' \in [Url -> JobState]
         /\ \A u \in Url : job'[u] = "none" /\ lock' # {u}
PROOF
  <1>1. \A u : {} # {u}
    OBVIOUS
  <1> QED BY <1>1 DEF Idle, NoJobs, JobState

(* The stages of an ingest leave the graph alone.                          *)
LEMMA StageStep ==
  ASSUME IInv,
         \/ StartIngest \/ Lookup \/ LoadRegistry \/ FailIngest \/ Tally
         \/ \E found \in SUBSET Url : collect_links(found)
         \/ \E fetched \in SUBSET (links \ cached) : fetch_articles(fetched)
  PROVE  IInv'
PROOF
  <1>1. UNCHANGED <<policy, graph, processed, resets>>
    BY DEF StartIngest, Lookup, LoadRegistry, FailIngest, Tally, collect_links, fetch_articles
  <1>2. SUFFICES TypeOK' /\ NothingAhead'
    BY <1>1 DEF IInv, PolicyIsOfPage, AliasesLeadHere
  <1>3. CASE StartIngest
    <2>1. stage' = "collect" /\ force' \in BOOLEAN /\ UNCHANGED <<links, cached, job, lock>>
      BY <1>3 DEF StartIngest
    <2>2. TypeOK'
      BY <1>1, <2>1 DEF IInv, TypeOK
    <2>3. NothingAhead'
      BY <1>3, <2>1 DEF StartIngest, IInv, NothingAhead
    <2> QED BY <2>2, <2>3
  <1>4. CASE Lookup
    BY <1>1, <1>4 DEF Lookup, IInv, TypeOK, NothingAhead
  <1>5. CASE LoadRegistry
    BY <1>1, <1>5 DEF LoadRegistry, IInv, TypeOK, NothingAhead
  <1>6. CASE FailIngest \/ Tally
    BY <1>1, <1>6, IdleTyped DEF FailIngest, Tally, IInv, TypeOK, NothingAhead
  <1>7. CASE \E found \in SUBSET Url : collect_links(found)
    BY <1>1, <1>7 DEF collect_links, IInv, TypeOK, NothingAhead
  <1>8. CASE \E fetched \in SUBSET (links \ cached) : fetch_articles(fetched)
    BY <1>1, <1>8 DEF fetch_articles, JobState, IInv, TypeOK, NothingAhead
  <1> QED BY <1>3, <1>4, <1>5, <1>6, <1>7, <1>8

(* Clearing and restarting.                                                *)
LEMMA ResetStep ==
  ASSUME IInv, clear_all \/ \E next \in Policy : Restart(next)
  PROVE  IInv'
PROOF
  <1> USE CanonicalAssumption, PolicyAssumption, ResetsAssumption
  <1>1. CASE clear_all
    <2>1. TypeOK'
      BY <1>1 DEF clear_all, run, NoArticle, Article, IInv, TypeOK
    <2>2. NothingAhead' /\ PolicyIsOfPage' /\ AliasesLeadHere'
      BY <1>1 DEF clear_all, run, NoArticle, IInv, NothingAhead, PolicyIsOfPage, AliasesLeadHere
    <2> QED BY <2>1, <2>2 DEF IInv
  <1>2. CASE \E next \in Policy : Restart(next)
    <2>1. TypeOK'
      BY <1>2, IdleTyped DEF Restart, IInv, TypeOK
    <2>2. NothingAhead' /\ PolicyIsOfPage' /\ AliasesLeadHere'
      BY <1>2, IdleTyped DEF NothingAhead, Restart, IInv, PolicyIsOfPage, AliasesLeadHere
    <2> QED BY <2>1, <2>2 DEF IInv
  <1> QED BY <1>1, <1>2

(* The invariant, for any number of ingests, clearings and restarts.       *)
THEOREM IngestInvariant == Spec => []IInv
PROOF
  <1>1. ASSUME IInv, [Next]_vars
        PROVE  IInv'
    <2>1. CASE UNCHANGED vars
      BY <1>1, <2>1 DEF vars, run, IInv, TypeOK, NothingAhead, PolicyIsOfPage, AliasesLeadHere
    <2>2. CASE Next
      BY <1>1, <2>2, WriteStep, ArticleStep, StageStep, ResetStep DEF Next, Ingest, ProcessArticle
    <2> QED BY <1>1, <2>1, <2>2
  <1> QED BY InitInvariant, <1>1, PTL DEF Spec

(* The ingest stays well-typed; its lock is held by the article that       *)
(* writes.                                                                 *)
THEOREM TypeCorrect == Spec => []TypeOK
PROOF
  <1>1. IInv => TypeOK
    BY DEF IInv
  <1> QED BY <1>1, IngestInvariant, PTL

(* Whatever an ingest skips was written under its policy.                  *)
THEOREM SkippedAreProcessed == Spec => SkippedIsProcessed
PROOF
  <1>1. ASSUME IInv, [Next]_vars, NEW u \in cached' \ cached
        PROVE  processed[u] = policy
    <2>1. Lookup
      BY <1>1 DEF Next, Ingest, ProcessArticle, StartIngest, LoadRegistry, FailIngest, Tally,
                  collect_links, fetch_articles, Extract, FailExtraction, Acquire, Write,
                  FailWrite, Advance, clear_all, Restart, Idle, vars, run
    <2>2. u \in links \cap Known
      BY <1>1, <2>1 DEF Lookup
    <2>3. PICK a \in Url : graph[a].policy = policy /\ (a = u \/ u \in graph[a].aliases)
      BY <2>2 DEF Known
    <2>4. u \in Url /\ policy # "none"
      BY <1>1, <2>2, PolicyAssumption DEF IInv, TypeOK
    <2>5. Canonical[u] = a
      BY <1>1, <2>3, <2>4 DEF IInv, AliasesLeadHere
    <2> QED BY <1>1, <2>3, <2>4, <2>5 DEF IInv, PolicyIsOfPage
  <1>2. IInv /\ [Next]_vars => [\A u \in cached' \ cached : processed[u] = policy]_vars
    BY <1>1
  <1> QED BY <1>2, IngestInvariant, PTL DEF Spec, SkippedIsProcessed

-----------------------------------------------------------------------------
(* Of the two liveness properties, what does not need fairness: what has   *)
(* arrived stays, a running ingest moves only forward, and something in it *)
(* can always move.                                                        *)

Arrived(u) == processed[u] = policy /\ u \in Known

(* A page that the graph has, and that the next ingest will skip, stays    *)
(* one until the graph is cleared or the backend restarts: no ingest, and  *)
(* no write of the same page from another link, loses it.                  *)
ArrivedPagesStay ==
  [][\A u \in Url : Arrived(u) /\ UNCHANGED resets => Arrived(u)']_vars

StageRank(s) ==
  CASE s = "collect" -> 1 [] s = "lookup" -> 2 [] s = "fetch" -> 3
    [] s = "registry" -> 4 [] s = "process" -> 5 [] s = "idle" -> 6

JobRank(j) ==
  CASE j = "none" -> 0 [] j = "extract" -> 1 [] j = "extracted" -> 2 [] j = "write" -> 3
    [] j \in {"written", "failed"} -> 4

ArticleAdvances(u) ==
  /\ stage' = stage
  /\ JobRank(job'[u]) > JobRank(job[u])
  /\ \A v \in Url \ {u} : job'[v] = job[v]

(* Every step of a running ingest brings it to a later stage, or one of    *)
(* its articles, and only that one, to a later step.                       *)
IngestAdvances ==
  [][stage # "idle" =>
       StageRank(stage') > StageRank(stage) \/ \E u \in Url : ArticleAdvances(u)]_run

LockIsAnArticles == lock = {} \/ \E u \in Url : lock = {u}

(* While articles are processed, one of them is at work, or one can take   *)
(* the lock, or all have their results.                                    *)
NobodyWaitsForNobody ==
  stage = "process" =>
    \/ \A u \in Url : job[u] \in {"none", "written", "failed"}
    \/ \E u \in Url : job[u] \in {"extract", "write"}
    \/ lock = {} /\ \E u \in Url : job[u] = "extracted"

(* An article that leads to a url under the running policy still does when *)
(* any page is written.                                                    *)
LEMMA WriteKeepsArrived ==
  ASSUME NEW u \in Url, IInv, Arrived(u), NEW v \in Url, Write(v)
  PROVE  Arrived(u)'
PROOF
  <1> USE CanonicalAssumption
  <1> DEFINE c == Canonical[v]
  <1>1. /\ graph \in [Url -> Article] /\ c \in Url
        /\ policy' = policy
        /\ graph' = [graph EXCEPT ![c] = Written(v)]
        /\ processed' = [w \in Url |-> IF Canonical[w] = c THEN policy ELSE processed[w]]
    BY DEF Write, Advance, IInv, TypeOK
  <1>2. /\ Written(v).policy = policy
        /\ graph[c].aliases \subseteq Written(v).aliases
    BY DEF Written
  <1>3. PICK a \in Url : graph[a].policy = policy /\ (a = u \/ u \in graph[a].aliases)
    BY DEF Arrived, Known
  <1>4. graph'[a].policy = policy' /\ (a = u \/ u \in graph'[a].aliases)
    <2>1. CASE a = c
      BY <1>1, <1>2, <1>3, <2>1
    <2>2. CASE a # c
      BY <1>1, <1>3, <2>2
    <2> QED BY <2>1, <2>2
  <1>5. u \in Known'
    BY <1>4 DEF Known
  <1>6. processed'[u] = policy'
    BY <1>1 DEF Arrived
  <1> QED BY <1>5, <1>6 DEF Arrived

(* What an ingest has brought is not lost by this ingest or a later one.   *)
THEOREM PagesStay == Spec => ArrivedPagesStay
PROOF
  <1>1. ASSUME IInv, [Next]_vars, NEW u \in Url, Arrived(u), UNCHANGED resets
        PROVE  Arrived(u)'
    <2>1. CASE \E v \in Url : Write(v)
      BY <1>1, <2>1, WriteKeepsArrived
    <2>2. CASE UNCHANGED <<policy, graph, processed>>
      BY <1>1, <2>2 DEF Arrived, Known
    <2>3. resets \in Nat
      BY <1>1, ResetsAssumption DEF IInv, TypeOK
    <2>4. ~clear_all /\ ~\E next \in Policy : Restart(next)
      BY <1>1, <2>3 DEF clear_all, Restart
    <2>5. (\E v \in Url : Write(v)) \/ UNCHANGED <<policy, graph, processed>>
      BY <1>1, <2>4 DEF Next, Ingest, ProcessArticle, StartIngest, Lookup, LoadRegistry,
                        FailIngest, Tally, collect_links, fetch_articles, Extract,
                        FailExtraction, Acquire, FailWrite, Advance, vars
    <2> QED BY <2>1, <2>2, <2>5
  <1>2. IInv /\ [Next]_vars =>
          [\A u \in Url : Arrived(u) /\ UNCHANGED resets => Arrived(u)']_vars
    BY <1>1
  <1> QED BY <1>2, IngestInvariant, PTL DEF Spec, ArrivedPagesStay

(* A step of an article, which is one of the five it can take.             *)
LEMMA ProcessingAdvances ==
  ASSUME IInv, NEW u \in Url, ProcessArticle(u)
  PROVE  ArticleAdvances(u)
PROOF
  <1>1. job \in [Url -> JobState]
    BY DEF IInv, TypeOK
  <1>2. ASSUME NEW from \in JobState, NEW to \in JobState, Advance(u, from, to),
               JobRank(to) > JobRank(from)
        PROVE  ArticleAdvances(u)
    BY <1>1, <1>2 DEF Advance, ArticleAdvances
  <1>3. /\ JobRank("extracted") > JobRank("extract") /\ JobRank("failed") > JobRank("extract")
        /\ JobRank("write") > JobRank("extracted")
        /\ JobRank("written") > JobRank("write") /\ JobRank("failed") > JobRank("write")
    BY DEF JobRank
  <1>4. {"extract", "extracted", "write", "written", "failed"} \subseteq JobState
    BY DEF JobState
  <1>5. \/ Advance(u, "extract", "extracted") \/ Advance(u, "extract", "failed")
        \/ Advance(u, "extracted", "write")
        \/ Advance(u, "write", "written") \/ Advance(u, "write", "failed")
    BY DEF ProcessArticle, Extract, FailExtraction, Acquire, Write, FailWrite
  <1> QED BY <1>2, <1>3, <1>4, <1>5

(* An ingest never goes back: with finitely many links it ends after       *)
(* finitely many of its own steps.                                         *)
THEOREM IngestsAdvance == Spec => IngestAdvances
PROOF
  <1>1. ASSUME IInv, [Next]_vars, stage # "idle", run' # run
        PROVE  StageRank(stage') > StageRank(stage) \/ \E u \in Url : ArticleAdvances(u)
    <2>1. CASE \E u \in Url : ProcessArticle(u)
      BY <1>1, <2>1, ProcessingAdvances
    <2>2. CASE stage' = "idle"
      <3>1. stage \in {"collect", "lookup", "fetch", "registry", "process"}
        BY <1>1 DEF IInv, TypeOK
      <3> QED BY <2>2, <3>1 DEF StageRank
    <2>3. CASE \/ Lookup \/ LoadRegistry
               \/ \E found \in SUBSET Url : collect_links(found)
               \/ \E fetched \in SUBSET (links \ cached) : fetch_articles(fetched)
      BY <2>3 DEF Lookup, LoadRegistry, collect_links, fetch_articles, StageRank
    <2>4. ~StartIngest /\ ~clear_all /\ ~UNCHANGED vars
      BY <1>1 DEF StartIngest, clear_all, vars
    <2>5. FailIngest \/ Tally \/ (\E next \in Policy : Restart(next)) => stage' = "idle"
      BY DEF FailIngest, Tally, Restart, Idle
    <2> QED BY <1>1, <2>1, <2>2, <2>3, <2>4, <2>5 DEF Next, Ingest
  <1>2. IInv /\ [Next]_vars =>
          [stage # "idle" =>
             StageRank(stage') > StageRank(stage) \/ \E u \in Url : ArticleAdvances(u)]_run
    BY <1>1
  <1> QED BY <1>2, IngestInvariant, PTL DEF Spec, IngestAdvances

(* The lock has a holder that releases it, so that no article waits for    *)
(* one that waits itself.                                                  *)
THEOREM NoArticleIsStuck == Spec => []NobodyWaitsForNobody
PROOF
  <1>1. Init => LockIsAnArticles
    BY DEF Init, LockIsAnArticles
  <1>2. LockIsAnArticles /\ [Next]_vars => LockIsAnArticles'
    <2> SUFFICES ASSUME LockIsAnArticles, [Next]_vars
                 PROVE  LockIsAnArticles'
      OBVIOUS
    <2>1. UNCHANGED lock \/ lock' = {} \/ \E u \in Url : lock' = {u}
      BY DEF Next, Ingest, ProcessArticle, StartIngest, Lookup, LoadRegistry, FailIngest, Tally,
             collect_links, fetch_articles, Extract, FailExtraction, Acquire, Write,
             FailWrite, clear_all, Restart, Idle, vars, run
    <2> QED BY <2>1 DEF LockIsAnArticles
  <1>3. IInv /\ LockIsAnArticles => NobodyWaitsForNobody
    BY DEF IInv, TypeOK, JobState, LockIsAnArticles, NobodyWaitsForNobody
  <1> QED BY <1>1, <1>2, <1>3, IngestInvariant, PTL DEF Spec
=============================================================================
