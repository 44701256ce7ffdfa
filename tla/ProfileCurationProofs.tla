----------------------- MODULE ProfileCurationProofs -----------------------
(***************************************************************************)
(* Proofs about ProfileCuration, for any evidence, texts and policies.     *)
(*                                                                         *)
(* That considered evidence is in the graph, and that the job's evidence   *)
(* is, is what makes the comparison of texts with what the graph has a     *)
(* comparison with all that was considered.  Clearing the graph under a    *)
(* running job breaks neither, because nothing stores the entity again     *)
(* before the job is over.                                                 *)
(***************************************************************************)
EXTENDS ProfileCuration, FiniteSetTheorems, TLAPS

Ingested == {e \in Evidence : ingested[e] # {}}

(* The ontology of the process has one definition of a topic. *)
OneConcept == concept = {} \/ \E definition \in Definition : concept = {definition}

(* The fields of the state, each in its range. *)
Typed ==
  /\ stored \in BOOLEAN
  /\ description \in Description
  /\ description_source \in Source
  /\ human_review_status \in Decision
  /\ considered \subseteq Evidence
  /\ marked \subseteq Evidence
  /\ ingested \in [Evidence -> SUBSET Policy]
  /\ policy \in Policy
  /\ OneConcept
  /\ ~stored => description = "" /\ considered = {} /\ marked = {}

(* One ingest or one job, which has its slot to itself. *)
OneRuns ==
  \/ ingest = {} /\ job = {}
  \/ job = {} /\ \E entry \in Description \cup {NoEntry} : ingest = {entry}
  \/ ingest = {} /\ \E j \in Job : job = {j}

ConsideredIsIngested == considered \subseteq Ingested

JobIsIngested ==
  stored => \A j \in job : j.ids \cup j.prompt \cup j.duplicates \subseteq Ingested

SavedIsConsidered ==
  stored => \A j \in job : j.phase = "mark" => j.ids \subseteq considered

NoJobOfHumanText == \A j \in job : j.seen_source # "human"

IInv ==
  /\ Typed /\ OneRuns
  /\ ConsideredIsIngested /\ JobIsIngested /\ SavedIsConsidered
  /\ PromptIsNews /\ MarkedIsConsidered /\ NoJobOfHumanText

-----------------------------------------------------------------------------
LEMMA InitInvariant == Init => IInv
PROOF
  <1> SUFFICES ASSUME Init
               PROVE  IInv
    OBVIOUS
  <1>1. Typed /\ OneRuns
    BY DEF Init, Typed, OneConcept, OneRuns, Description, Source, Decision
  <1> QED BY <1>1 DEF Init, IInv, ConsideredIsIngested, JobIsIngested, SavedIsConsidered,
                      PromptIsNews, MarkedIsConsidered, NoJobOfHumanText

(* What keeps the job and the considered evidence, and loses no ingested   *)
(* evidence, keeps the facts about them.                                   *)
LEMMA FactsStay ==
  ASSUME IInv, ingested' \in [Evidence -> SUBSET Policy], Ingested \subseteq Ingested',
         UNCHANGED <<considered, marked>>, job' = job, job = {} \/ stored' = stored
  PROVE  /\ ConsideredIsIngested' /\ JobIsIngested' /\ SavedIsConsidered'
         /\ PromptIsNews' /\ MarkedIsConsidered' /\ NoJobOfHumanText'
PROOF
  <1>1. ConsideredIsIngested'
    BY DEF IInv, ConsideredIsIngested
  <1>2. JobIsIngested'
    BY DEF IInv, JobIsIngested
  <1>3. SavedIsConsidered'
    BY DEF IInv, SavedIsConsidered
  <1>4. PromptIsNews' /\ MarkedIsConsidered' /\ NoJobOfHumanText'
    BY DEF IInv, PromptIsNews, MarkedIsConsidered, NoJobOfHumanText, Texts
  <1> QED BY <1>1, <1>2, <1>3, <1>4

(* What ends the job keeps all facts about considered evidence.            *)
LEMMA NoJobFacts ==
  ASSUME IInv, job' = {}, Ingested' = Ingested, considered' = considered,
         marked' \subseteq considered
  PROVE  /\ ConsideredIsIngested' /\ JobIsIngested' /\ SavedIsConsidered'
         /\ PromptIsNews' /\ MarkedIsConsidered' /\ NoJobOfHumanText'
  BY DEF IInv, ConsideredIsIngested, JobIsIngested, SavedIsConsidered,
         PromptIsNews, MarkedIsConsidered, NoJobOfHumanText

-----------------------------------------------------------------------------
LEMMA StartIngestStep ==
  ASSUME IInv, StartIngest
  PROVE  IInv'
PROOF
  <1>1. /\ UNCHANGED <<node, marked, ingested, policy, concept, job>> /\ Ingested' = Ingested
        /\ job = {} /\ ingest' \in {{description}, {NoEntry}}
    BY DEF StartIngest, SlotFree, Ingested
  <1>2. Typed'
    BY <1>1 DEF IInv, Typed, OneConcept, node
  <1>3. OneRuns'
    BY <1>1 DEF IInv, Typed, OneRuns
  <1> QED BY <1>1, <1>2, <1>3, FactsStay DEF IInv, Typed, node

LEMMA EndIngestStep ==
  ASSUME IInv, EndIngest
  PROVE  IInv'
PROOF
  <1>1. /\ UNCHANGED <<node, marked, ingested, policy, concept, job>> /\ Ingested' = Ingested
        /\ ingest # {} /\ ingest' = {}
    BY DEF EndIngest, Ingested
  <1>2. Typed'
    BY <1>1 DEF IInv, Typed, OneConcept, node
  <1>3. OneRuns' /\ job = {}
    BY <1>1 DEF IInv, OneRuns
  <1> QED BY <1>1, <1>2, <1>3, FactsStay DEF IInv, Typed, node

(* An article adds evidence and may write the description that the ingest  *)
(* holds; no job runs meanwhile.                                           *)
LEMMA WriteArticleStep ==
  ASSUME NEW found \in SUBSET Evidence, IInv, WriteArticle(found)
  PROVE  IInv'
PROOF
  <1>1. PICK entry \in ingest : WriteEntity(entry)
    BY DEF WriteArticle
  <1>2. /\ job = {} /\ entry \in Description \cup {NoEntry}
        /\ UNCHANGED <<marked, policy, concept, job>>
        /\ ingested' = [e \in Evidence |-> IF e \in found THEN ingested[e] \cup {policy}
                                                          ELSE ingested[e]]
    BY DEF IInv, OneRuns, WriteArticle
  <1>3. PICK held \in Description : upsert_entity_tx(held) /\ ingest' \in {{held}, {entry}}
    <2>1. CASE ~IsTopic /\ \E held \in IF entry = NoEntry THEN Text \cup {""} ELSE {entry} :
                             upsert_entity_tx(held) /\ ingest' = {held}
      BY <1>2, <2>1 DEF Description
    <2>2. CASE (\E definition \in concept : upsert_entity_tx(definition)) /\ ingest' = {entry}
      BY <2>2 DEF IInv, Typed, OneConcept, Description
    <2> QED BY <1>1, <2>1, <2>2 DEF WriteEntity
  <1>4. /\ stored' = TRUE
        /\ description' \in {description, held}
        /\ description_source' \in {description_source, "extraction", "topic_ontology"}
        /\ UNCHANGED <<human_review_status, considered>>
    BY <1>3 DEF upsert_entity_tx
  <1>5. ingested' \in [Evidence -> SUBSET Policy] /\ Ingested \subseteq Ingested'
    BY <1>2 DEF IInv, Typed, Ingested
  <1>6. Typed'
    BY <1>2, <1>3, <1>4, <1>5 DEF IInv, Typed, OneConcept, Source
  <1>7. OneRuns'
    BY <1>2, <1>3 DEF OneRuns
  <1> QED BY <1>2, <1>4, <1>5, <1>6, <1>7, FactsStay DEF IInv

-----------------------------------------------------------------------------
(* The texts of a new job's prompt are new.                                *)
LEMMA LoadCandidateStep ==
  ASSUME IInv, LoadCandidate
  PROVE  IInv'
PROOF
  <1> DEFINE fresh == NewEvidence \ ExactDuplicates
  <1>1. PICK prompt \in Prompts(fresh) :
          job' = {[phase |-> IF description = "" THEN "curate" ELSE "review",
                   seen_source |-> description_source, prompt |-> prompt,
                   duplicates |-> ExactDuplicates, outcome |-> "none",
                   ids |-> IF description = "" THEN ExactDuplicates \cup prompt ELSE {}]}
    BY DEF LoadCandidate
  <1>2. /\ UNCHANGED <<node, marked, ingested, policy, concept, ingest>> /\ Ingested' = Ingested
        /\ ingest = {} /\ stored /\ description_source # "human"
    BY DEF LoadCandidate, SlotFree, Curatable, Ingested
  <1>3. prompt \subseteq fresh
    BY DEF Prompts
  <1>4. fresh \subseteq NewEvidence /\ ExactDuplicates \subseteq NewEvidence
    BY DEF ExactDuplicates
  <1>5. NewEvidence \subseteq Ingested
    BY DEF NewEvidence, Ingested
  <1>6. Texts(fresh) \cap Texts(considered) = {}
    <2>1. \A e \in fresh : TextOf[e] \notin Texts(considered \cap Ingested)
      BY DEF ExactDuplicates, Ingested
    <2>2. considered \cap Ingested = considered
      BY DEF IInv, ConsideredIsIngested
    <2> QED BY <2>1, <2>2 DEF Texts
  <1>7. Texts(prompt) \cap Texts(considered) = {}
    BY <1>3, <1>6 DEF Texts
  <1> DEFINE j == [phase |-> IF description = "" THEN "curate" ELSE "review",
                   seen_source |-> description_source, prompt |-> prompt,
                   duplicates |-> ExactDuplicates, outcome |-> "none",
                   ids |-> IF description = "" THEN ExactDuplicates \cup prompt ELSE {}]
  <1>8. /\ j \in Job /\ job' = {j} /\ j.phase \in {"curate", "review"}
        /\ j.seen_source = description_source /\ j.prompt = prompt
        /\ j.ids \cup j.prompt \cup j.duplicates \subseteq Ingested
    <2>1. Ingested \subseteq Evidence
      BY DEF Ingested
    <2> QED BY <1>1, <1>3, <1>4, <1>5, <2>1 DEF Job, IInv, Typed
  <1> HIDE DEF j, fresh
  <1>9. Typed'
    BY <1>2 DEF IInv, Typed, OneConcept, node
  <1>10. OneRuns'
    BY <1>2, <1>8 DEF OneRuns
  <1>11. /\ considered' = considered /\ marked' = marked
         /\ Texts(prompt)' = Texts(prompt) /\ Texts(considered)' = Texts(considered)
    BY <1>2 DEF node, Texts
  <1>12. PromptIsNews'
    BY <1>7, <1>8, <1>11 DEF PromptIsNews, Texts
  <1>13. JobIsIngested' /\ ConsideredIsIngested' /\ MarkedIsConsidered'
    BY <1>2, <1>8, <1>11 DEF IInv, JobIsIngested, ConsideredIsIngested, MarkedIsConsidered
  <1>14. SavedIsConsidered' /\ NoJobOfHumanText'
    BY <1>2, <1>8 DEF SavedIsConsidered, NoJobOfHumanText
  <1> QED BY <1>9, <1>10, <1>12, <1>13, <1>14 DEF IInv

(* A step of the job that changes no node replaces it by one with the same *)
(* evidence.                                                               *)
LEMMA JobMoves ==
  ASSUME NEW j \in job, NEW k \in Job, IInv, job' = {k},
         UNCHANGED <<node, marked, ingested, policy, concept, ingest>>,
         k.prompt = j.prompt, k.duplicates = j.duplicates, k.seen_source = j.seen_source,
         k.ids \subseteq j.ids \cup j.prompt \cup j.duplicates,
         k.phase # "mark", k.phase \in {"review", "curate"} => j.phase \in {"review", "curate"}
  PROVE  IInv'
PROOF
  <1>1. Ingested' = Ingested /\ ingest = {}
    BY DEF Ingested, IInv, OneRuns
  <1>2. Typed'
    BY DEF IInv, Typed, OneConcept, node
  <1>3. OneRuns'
    BY <1>1 DEF OneRuns
  <1>4. JobIsIngested' /\ ConsideredIsIngested' /\ MarkedIsConsidered'
    BY <1>1 DEF IInv, JobIsIngested, ConsideredIsIngested, MarkedIsConsidered, node
  <1>5. SavedIsConsidered' /\ NoJobOfHumanText'
    BY DEF IInv, SavedIsConsidered, NoJobOfHumanText
  <1>6. PromptIsNews'
    BY DEF IInv, PromptIsNews, Texts, node
  <1> QED BY <1>2, <1>3, <1>4, <1>5, <1>6 DEF IInv

LEMMA ReviewProfileStep ==
  ASSUME NEW j \in job, NEW chosen \in SUBSET Text, NEW outcome \in {"keep", "flag", "update"},
         IInv, review_profile(j, chosen, outcome)
  PROVE  IInv'
PROOF
  <1> DEFINE ids == j.duplicates \cup {e \in j.prompt : TextOf[e] \in chosen}
             k == [j EXCEPT !.phase = IF outcome = "update" THEN "curate" ELSE "save",
                            !.outcome = outcome, !.ids = ids]
  <1>1. j \in Job
    BY DEF IInv, OneRuns
  <1>2. /\ k \in Job /\ k.prompt = j.prompt /\ k.duplicates = j.duplicates
        /\ k.seen_source = j.seen_source /\ k.ids = ids /\ k.phase \in {"curate", "save"}
    BY <1>1 DEF Job
  <1>3. job' = {k} /\ j.phase = "review" /\ UNCHANGED <<node, marked, ingested, policy, concept, ingest>>
    BY DEF review_profile
  <1> HIDE DEF k
  <1> QED BY <1>2, <1>3, JobMoves

LEMMA CurateProfileStep ==
  ASSUME NEW j \in job, IInv, curate_profile(j)
  PROVE  IInv'
PROOF
  <1> DEFINE k == [j EXCEPT !.phase = "save", !.outcome = "update"]
  <1>1. j \in Job
    BY DEF IInv, OneRuns
  <1>2. /\ k \in Job /\ k.prompt = j.prompt /\ k.duplicates = j.duplicates
        /\ k.seen_source = j.seen_source /\ k.ids = j.ids /\ k.phase = "save"
    BY <1>1 DEF Job
  <1>3. job' = {k} /\ UNCHANGED <<node, marked, ingested, policy, concept, ingest>>
    BY DEF curate_profile
  <1> HIDE DEF k
  <1> QED BY <1>2, <1>3, JobMoves

(* The save considers the job's evidence, if the entity is still there.    *)
LEMMA SaveEntityStep ==
  ASSUME NEW j \in job, IInv, save_entity(j)
  PROVE  IInv'
PROOF
  <1> DEFINE k == [j EXCEPT !.phase = "mark"]
  <1>1. j \in Job /\ ingest = {}
    BY DEF IInv, OneRuns
  <1>2. /\ k \in Job /\ k.prompt = j.prompt /\ k.duplicates = j.duplicates
        /\ k.seen_source = j.seen_source /\ k.ids = j.ids /\ k.phase = "mark"
    BY <1>1 DEF Job
  <1>3. /\ job' = {k} /\ Ingested' = Ingested
        /\ UNCHANGED <<stored, human_review_status, marked, ingested, policy, concept, ingest>>
    BY DEF save_entity, Ingested
  <1>4. j.ids \subseteq Evidence
    BY <1>1 DEF Job
  <1>5. ~stored => UNCHANGED <<considered, description, description_source>>
    BY DEF save_entity
  <1>6. stored => /\ considered' = considered \cup j.ids
                  /\ description' \in {description, "llm"}
                  /\ description_source' \in {description_source, "curated_llm", "reviewed_llm"}
    BY DEF save_entity, considered_after
  <1> HIDE DEF k
  <1>7. Typed'
    BY <1>3, <1>4, <1>5, <1>6 DEF IInv, Typed, OneConcept, Description, Source
  <1>8. OneRuns'
    BY <1>1, <1>2, <1>3 DEF OneRuns
  <1>9. ConsideredIsIngested' /\ JobIsIngested' /\ MarkedIsConsidered'
    BY <1>2, <1>3, <1>5, <1>6 DEF IInv, ConsideredIsIngested, JobIsIngested, MarkedIsConsidered
  <1>10. SavedIsConsidered' /\ PromptIsNews' /\ NoJobOfHumanText'
    BY <1>2, <1>3, <1>6 DEF IInv, SavedIsConsidered, PromptIsNews, NoJobOfHumanText
  <1> QED BY <1>7, <1>8, <1>9, <1>10 DEF IInv

(* What is marked was saved before, if the entity is still there.          *)
LEMMA MarkEvidenceStep ==
  ASSUME NEW j \in job, IInv, mark_evidence(j)
  PROVE  IInv'
PROOF
  <1>1. /\ j.phase = "mark" /\ job' = {} /\ UNCHANGED <<node, ingested, policy, concept, ingest>>
        /\ marked' = marked \cup {e \in j.ids : stored /\ ingested[e] # {}}
        /\ Ingested' = Ingested
    BY DEF mark_evidence, Ingested
  <1>2. marked' \subseteq considered
    BY <1>1 DEF IInv, SavedIsConsidered, MarkedIsConsidered
  <1>3. Typed'
    BY <1>1, <1>2 DEF IInv, Typed, OneConcept, node
  <1>4. OneRuns'
    BY <1>1 DEF IInv, OneRuns
  <1> QED BY <1>1, <1>2, <1>3, <1>4, NoJobFacts DEF IInv, node

LEMMA FailCurationStep ==
  ASSUME IInv, FailCuration
  PROVE  IInv'
PROOF
  <1>1. /\ job' = {} /\ UNCHANGED <<node, marked, ingested, policy, concept, ingest>>
        /\ Ingested' = Ingested
    BY DEF FailCuration, Ingested
  <1>2. Typed' /\ OneRuns'
    BY <1>1 DEF IInv, Typed, OneConcept, OneRuns, node
  <1> QED BY <1>1, <1>2, NoJobFacts DEF IInv, MarkedIsConsidered, node

-----------------------------------------------------------------------------
LEMMA ReviewDescriptionStep ==
  ASSUME NEW decision \in Decision, NEW edited \in BOOLEAN,
         IInv, review_description(decision, edited)
  PROVE  IInv'
PROOF
  <1>1. /\ stored /\ UNCHANGED <<stored, considered, marked, ingested, policy, concept, ingest, job>>
        /\ human_review_status' = decision
        /\ description' \in {"human", description}
        /\ description_source' \in {"human", description_source}
        /\ Ingested' = Ingested
    BY DEF review_description, Ingested
  <1>2. Typed'
    BY <1>1 DEF IInv, Typed, OneConcept, Description, Source
  <1>3. OneRuns'
    BY <1>1 DEF IInv, OneRuns
  <1> QED BY <1>1, <1>2, <1>3, FactsStay DEF IInv, Typed

(* A job that is running when the graph is cleared finds nothing to save.  *)
LEMMA ClearStep ==
  ASSUME IInv, Clear
  PROVE  IInv'
PROOF
  <1>1. Typed'
    BY DEF Clear, IInv, Typed, OneConcept, Description, Source, Decision
  <1>2. OneRuns'
    BY DEF Clear, IInv, OneRuns
  <1>3. Texts({}) = {}
    BY DEF Texts
  <1> QED BY <1>1, <1>2, <1>3 DEF Clear, IInv, ConsideredIsIngested, JobIsIngested,
             SavedIsConsidered, PromptIsNews, MarkedIsConsidered, NoJobOfHumanText, Texts

LEMMA RestartStep ==
  ASSUME NEW next \in Policy, IInv, Restart(next)
  PROVE  IInv'
PROOF
  <1>1. /\ policy' = next /\ ingest' = {} /\ job' = {} /\ UNCHANGED <<node, marked, ingested>>
        /\ Ingested' = Ingested /\ OneConcept'
    BY DEF Restart, Ingested, OneConcept
  <1>2. Typed' /\ OneRuns'
    BY <1>1 DEF IInv, Typed, OneRuns, node
  <1> QED BY <1>1, <1>2, NoJobFacts DEF IInv, MarkedIsConsidered, node

LEMMA NextInvariant ==
  ASSUME IInv, [Next]_vars
  PROVE  IInv'
PROOF
  <1>1. CASE UNCHANGED vars
    <2>1. UNCHANGED <<node, marked, ingested, policy, concept, ingest, job>> /\ Ingested' = Ingested
      BY <1>1 DEF vars, Ingested
    <2>2. Typed' /\ OneRuns'
      BY <2>1 DEF IInv, Typed, OneConcept, OneRuns, node
    <2> QED BY <2>1, <2>2, FactsStay DEF IInv, Typed, node
  <1>2. CASE Next
    BY <1>2, StartIngestStep, EndIngestStep, WriteArticleStep, LoadCandidateStep,
       ReviewProfileStep, CurateProfileStep, SaveEntityStep, MarkEvidenceStep, FailCurationStep,
       ReviewDescriptionStep, ClearStep, RestartStep DEF Next
  <1> QED BY <1>1, <1>2

(* The invariant, for any evidence, texts and policies.                    *)
THEOREM ProfileInvariant == Spec => []IInv
PROOF
  <1> QED BY InitInvariant, NextInvariant, PTL DEF Spec

(* The entity stays well-typed, and one ingest or one job has the slot.    *)
THEOREM TypeCorrect == Spec => []TypeOK
PROOF
  <1>1. ASSUME IInv
        PROVE  TypeOK
    <2>1. \A x : Cardinality({x}) = 1
      BY FS_Singleton
    <2>2. Cardinality({}) = 0
      BY FS_EmptySet
    <2>3. ingest \subseteq Description \cup {NoEntry} /\ job \subseteq Job
      BY <1>1 DEF IInv, OneRuns
    <2>4. Cardinality(ingest) + Cardinality(job) <= 1
      <3>1. \/ Cardinality(ingest) = 0 /\ Cardinality(job) = 0
            \/ Cardinality(ingest) = 1 /\ Cardinality(job) = 0
            \/ Cardinality(ingest) = 0 /\ Cardinality(job) = 1
        BY <1>1, <2>1, <2>2, Zenon DEF IInv, OneRuns
      <3> QED BY <3>1
    <2> QED BY <1>1, <2>3, <2>4 DEF IInv, Typed, OneConcept, TypeOK
  <1> QED BY <1>1, ProfileInvariant, PTL

(* No text is reviewed again that was considered before.                   *)
THEOREM PromptsAreNews == Spec => []PromptIsNews
PROOF
  <1>1. IInv => PromptIsNews
    BY DEF IInv
  <1> QED BY <1>1, ProfileInvariant, PTL

(* Whatever is marked is considered for good, also after a job that fails  *)
(* between its statements.                                                 *)
THEOREM MarkedAreConsidered == Spec => []MarkedIsConsidered
PROOF
  <1>1. IInv => MarkedIsConsidered
    BY DEF IInv
  <1> QED BY <1>1, ProfileInvariant, PTL

(* A reviewer's text is lost only to an ingest or a curation that had      *)
(* loaded the entity without it; that of a topic, to any article of an     *)
(* ingest (upsert_entity_tx with a concept_id), for its definition.        *)
THEOREM HumanTextsAreLostForCause == Spec => HumanTextLostForCause
PROOF
  <1> DEFINE Lost == /\ description_source = "human" /\ description' # description /\ stored'
             Cause == \/ ingest # {} /\ concept = {description'}
                      \/ ~IsTopic /\ \E entry \in ingest : entry # description
                      \/ \E j \in job : j.seen_source # "human"
                      \/ review_description("accepted", TRUE)
  <1>1. ASSUME IInv, Next, Lost
        PROVE  Cause
    <2>1. ASSUME NEW found \in SUBSET Evidence, WriteArticle(found)
          PROVE  Cause
      <3>1. PICK entry \in ingest : WriteEntity(entry)
        BY <2>1 DEF WriteArticle
      <3>2. CASE ~IsTopic
        <4>1. PICK held \in IF entry = NoEntry THEN Text \cup {""} ELSE {entry} :
                upsert_entity_tx(held)
          BY <3>1, <3>2 DEF WriteEntity, IsTopic
        <4>2. description' \in {description, held}
          BY <3>2, <4>1 DEF upsert_entity_tx
        <4>3. description # NoEntry
          BY <1>1, TextAssumption, DefinitionAssumption DEF IInv, Typed, Description, NoEntry
        <4> QED BY <1>1, <3>2, <4>2, <4>3
      <3>3. CASE IsTopic
        <4>1. PICK definition \in concept : upsert_entity_tx(definition)
          BY <3>1, <3>3 DEF WriteEntity
        <4>2. description' = definition
          BY <3>3, <4>1 DEF upsert_entity_tx
        <4>3. concept = {definition}
          BY <1>1, <4>1 DEF IInv, Typed, OneConcept
        <4> QED BY <3>1, <4>2, <4>3
      <3> QED BY <3>2, <3>3
    <2>2. ASSUME NEW j \in job
          PROVE  Cause
      BY <1>1, <2>2 DEF IInv, NoJobOfHumanText
    <2>3. ASSUME NEW decision \in Decision, NEW edited \in BOOLEAN,
                 review_description(decision, edited)
          PROVE  Cause
      BY <1>1, <2>3 DEF review_description
    <2>4. ASSUME StartIngest \/ EndIngest \/ LoadCandidate \/ FailCuration \/ Clear
                 \/ (\E next \in Policy : Restart(next))
          PROVE  FALSE
      BY <1>1, <2>4 DEF StartIngest, EndIngest, LoadCandidate, FailCuration, Clear, Restart, node
    <2> QED BY <1>1, <2>1, <2>2, <2>3, <2>4 DEF Next
  <1>2. IInv /\ [Next]_vars => [Lost => Cause]_vars
    BY <1>1
  <1> QED BY <1>2, ProfileInvariant, PTL DEF Spec, HumanTextLostForCause
=============================================================================
