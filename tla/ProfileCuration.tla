-------------------------- MODULE ProfileCuration --------------------------
(***************************************************************************)
(* The description of one entity and the three who write it: ingestion,    *)
(* which stores the description its resolver loaded when it started; the   *)
(* curation job, which loads the entity, asks the LLM, and saves in        *)
(* several statements; and a human reviewer, at any time.                  *)
(*                                                                         *)
(* Evidence is the stable id of a ProfileEvidence node; ids whose texts    *)
(* are the same after normalisation have the same TextOf.  Written by a    *)
(* reviewer or by a curation, a description is "human" or "llm"; otherwise *)
(* it is a text from an article, or "" while there is none.  A topic stays *)
(* one: it takes no text from articles, but with each of them the          *)
(* definition that its concept has in the ontology of the process.  The    *)
(* revision counter, embedding, traces and history are left out.           *)
(***************************************************************************)
EXTENDS Naturals, FiniteSets

CONSTANTS
  Evidence,
  TextOf,     \* the normalised text of each evidence id
  Definition, \* what versions of the ontology say of a topic
  Policy,     \* hashes of the curation prompts and model settings
  MinNew,     \* PROFILE_CURATION_MIN_NEW_EVIDENCE
  MaxTexts    \* _MAX_PROFILE_EVIDENCE_TEXTS

Text == {TextOf[e] : e \in Evidence}

ASSUME ThresholdAssumption ==
  MinNew \in Nat \ {0} /\ MaxTexts \in Nat \ {0}
ASSUME TextAssumption ==
  TextOf = [e \in Evidence |-> TextOf[e]] /\ Text \cap {"", "human", "llm", "no entry"} = {}
ASSUME DefinitionAssumption == Definition \cap {"", "human", "llm", "no entry"} = {}

VARIABLES
  stored,       \* whether the graph has the entity
  description,
  description_source,
  human_review_status,
  considered,   \* description_considered_evidence_ids of the entity
  marked,       \* the evidence nodes that carry a considered_profile_revision
  ingested,     \* [Evidence -> SUBSET Policy], {}: not in the graph
  policy,       \* the policy hash of the running backend
  concept,      \* the definition its ontology has of the entity, if it is a Topic
  ingest,       \* the description the running ingest's resolver holds, at most one
  job           \* the running curation of the entity, at most one

node    == <<stored, description, description_source, human_review_status, considered>>
vars    == <<node, marked, ingested, policy, concept, ingest, job>>

NoEntry     == "no entry"
Description == Text \cup Definition \cup {"", "human", "llm"}
Source      == {"", "extraction", "topic_ontology", "curated_llm", "reviewed_llm", "human"}
Decision    == {"accepted", "rejected", "unreviewed"}

(* What a curation has loaded, and what it has decided to save. *)
Job == [phase : {"review", "curate", "save", "mark"},
        seen_source : Source, prompt : SUBSET Evidence, duplicates : SUBSET Evidence,
        outcome : {"none", "keep", "flag", "update"}, ids : SUBSET Evidence]

TypeOK ==
  /\ stored \in BOOLEAN
  /\ description \in Description
  /\ description_source \in Source
  /\ human_review_status \in Decision
  /\ considered \subseteq Evidence
  /\ marked \subseteq Evidence
  /\ ingested \in [Evidence -> SUBSET Policy]
  /\ policy \in Policy
  /\ concept \subseteq Definition
  /\ ingest \subseteq Description \cup {NoEntry}
  /\ job \subseteq Job
  /\ Cardinality(ingest) + Cardinality(job) <= 1
  /\ ~stored => description = "" /\ considered = {} /\ marked = {}

IsTopic == concept # {}

Texts(evidence) == {TextOf[e] : e \in evidence}

(* Ingestion and curation exclude each other (TaskManager). *)
SlotFree == ingest = {} /\ job = {}

-----------------------------------------------------------------------------
(* Ingestion.  load_from_graph leaves out topics. *)

StartIngest ==
  /\ SlotFree
  /\ ingest' = {IF stored /\ ~IsTopic THEN description ELSE NoEntry}
  /\ UNCHANGED <<node, marked, ingested, policy, concept, job>>

Protected(source) == ~IsTopic /\ source \in {"curated_llm", "reviewed_llm"}

(* upsert_entity_tx stores what the resolver holds: the description it     *)
(* loaded or, for an entity it did not know, that of the first article;    *)
(* for a topic, the definition of its concept, over whatever is there.     *)
(* Whether a description replaces another depends on evidence statuses,    *)
(* which are left out.                                                     *)
upsert_entity_tx(held) ==
  /\ stored' = TRUE
  /\ \/ /\ IsTopic
        /\ description' = held
        /\ description_source' = "topic_ontology"
     \/ /\ ~IsTopic
        /\ Protected(description_source) \/ held = ""
        /\ UNCHANGED <<description, description_source>>
     \/ /\ ~IsTopic
        /\ ~Protected(description_source) /\ held # ""
        /\ description' \in {held} \cup ({description} \ {""})
        /\ description_source' = IF description_source = "" THEN "extraction"
                                                            ELSE description_source
  /\ UNCHANGED <<human_review_status, considered>>

(* What the resolver holds of the entity, now and from then on; a topic is *)
(* resolved by the ontology and never enters the registry.                 *)
WriteEntity(entry) ==
  \/ /\ ~IsTopic
     /\ \E held \in IF entry = NoEntry THEN Text \cup {""} ELSE {entry} :
          upsert_entity_tx(held) /\ ingest' = {held}
  \/ /\ \E definition \in concept : upsert_entity_tx(definition)
     /\ ingest' = {entry}

(* upsert_profile_evidence_tx, for an article with or without evidence. *)
WriteArticle(found) ==
  /\ \E entry \in ingest : WriteEntity(entry)
  /\ ingested' = [e \in Evidence |-> IF e \in found THEN ingested[e] \cup {policy}
                                                    ELSE ingested[e]]
  /\ UNCHANGED <<marked, policy, concept, job>>

EndIngest ==
  /\ ingest # {}
  /\ ingest' = {}
  /\ UNCHANGED <<node, marked, ingested, policy, concept, job>>

-----------------------------------------------------------------------------
(* Curation. *)

(* profile_review_inputs: what is new is decided by evidence id. *)
NewEvidence == {e \in Evidence : policy \in ingested[e] /\ e \notin considered}

(* Mutant: evidence is compared by its id only. *)
ExactDuplicates_none == {}

(* build_profile_evidence_match_summary: and then by its text. *)
ExactDuplicates ==
  {e \in NewEvidence : TextOf[e] \in Texts(considered \cap {f \in Evidence : ingested[f] # {}})
                                       \cup {description}}

(* build_profile_prompt_context: every id of at most MaxTexts of the texts, *)
(* the latest ones.                                                         *)
Prompts(evidence) ==
  LET size == IF Cardinality(Texts(evidence)) < MaxTexts THEN Cardinality(Texts(evidence))
                                                         ELSE MaxTexts
  IN  {{e \in evidence : TextOf[e] \in chosen} :
         chosen \in {texts \in SUBSET Texts(evidence) : Cardinality(texts) = size}}

(* Mutant: descriptions of reviewers are candidates too. *)
Curatable_any == stored

Curatable == stored /\ description_source # "human"

(* The job loads the entity unless a reviewer wrote its description, and   *)
(* works on it if enough of its texts are new.  An entity without a        *)
(* description is rewritten without a review.                              *)
LoadCandidate ==
  LET fresh == NewEvidence \ ExactDuplicates IN
  /\ SlotFree
  /\ Curatable
  /\ Cardinality(Texts(fresh)) >= MinNew
  /\ \E prompt \in Prompts(fresh) :
       job' = {[phase |-> IF description = "" THEN "curate" ELSE "review",
                seen_source |-> description_source, prompt |-> prompt, duplicates |-> ExactDuplicates,
                outcome |-> "none",
                ids |-> IF description = "" THEN ExactDuplicates \cup prompt ELSE {}]}
  /\ UNCHANGED <<node, marked, ingested, policy, concept, ingest>>

(* The review considers some of the texts it was shown (all of them, if it *)
(* names none it knows) and decides.                                       *)
review_profile(j, chosen, outcome) ==
  /\ j.phase = "review"
  /\ chosen # {} /\ chosen \subseteq Texts(j.prompt)
  /\ job' = {[j EXCEPT !.phase = IF outcome = "update" THEN "curate" ELSE "save",
                       !.outcome = outcome,
                       !.ids = j.duplicates \cup {e \in j.prompt : TextOf[e] \in chosen}]}
  /\ UNCHANGED <<node, marked, ingested, policy, concept, ingest>>

curate_profile(j) ==
  /\ j.phase = "curate"
  /\ job' = {[j EXCEPT !.phase = "save", !.outcome = "update"]}
  /\ UNCHANGED <<node, marked, ingested, policy, concept, ingest>>

(* Mutant: the evidence nodes are marked before the entity is saved. *)
considered_after_marks(j) == considered

considered_after(j) == considered \cup j.ids

(* save_profile_revision, save_profile_review_keep, flag_profile_for_review: *)
(* each saves the entity in a statement of its own, whatever it holds by now. *)
save_entity(j) ==
  /\ j.phase = "save"
  /\ job' = {[j EXCEPT !.phase = "mark"]}
  /\ IF ~stored THEN UNCHANGED <<considered, description, description_source>>
     ELSE /\ considered' = considered_after(j)
          /\ description' = IF j.outcome = "update" THEN "llm" ELSE description
          /\ description_source' =
               IF j.outcome = "update" THEN "curated_llm"
               ELSE IF j.outcome = "keep" /\ description # "" THEN "reviewed_llm"
               ELSE description_source
  /\ UNCHANGED <<stored, human_review_status, marked, ingested, policy, concept, ingest>>

(* _mark_profile_evidence_considered *)
mark_evidence(j) ==
  /\ j.phase = "mark"
  /\ job' = {}
  /\ marked' = marked \cup {e \in j.ids : stored /\ ingested[e] # {}}
  /\ UNCHANGED <<node, ingested, policy, concept, ingest>>

(* An answer that is no valid decision, or a call that fails. *)
FailCuration ==
  /\ job # {}
  /\ job' = {}
  /\ UNCHANGED <<node, marked, ingested, policy, concept, ingest>>

-----------------------------------------------------------------------------
(* POST /nodes/{node_id}/description/review: an edited description is      *)
(* accepted with it.                                                       *)
review_description(decision, edited) ==
  /\ stored
  /\ edited => decision = "accepted"
  /\ edited \/ description # ""
  /\ human_review_status' = decision
  /\ description' = IF edited THEN "human" ELSE description
  /\ description_source' = IF edited THEN "human" ELSE description_source
  /\ UNCHANGED <<stored, considered, marked, ingested, policy, concept, ingest, job>>

(* DELETE /graph *)
Clear ==
  /\ stored' = FALSE /\ description' = "" /\ description_source' = ""
  /\ human_review_status' = "unreviewed"
  /\ considered' = {} /\ marked' = {}
  /\ ingested' = [e \in Evidence |-> {}]
  /\ UNCHANGED <<policy, concept, ingest, job>>

(* A new process, perhaps with other prompts, another model or ontology. *)
Restart(next) ==
  /\ policy' = next
  /\ IF IsTopic THEN \E definition \in Definition : concept' = {definition}
                ELSE concept' = {}
  /\ ingest' = {} /\ job' = {}
  /\ UNCHANGED <<node, marked, ingested>>

Init ==
  /\ stored = FALSE /\ description = "" /\ description_source = ""
  /\ human_review_status = "unreviewed"
  /\ considered = {} /\ marked = {}
  /\ ingested = [e \in Evidence |-> {}]
  /\ policy \in Policy
  /\ concept = {} \/ \E definition \in Definition : concept = {definition}
  /\ ingest = {} /\ job = {}

Next ==
  \/ StartIngest \/ EndIngest
  \/ \E found \in SUBSET Evidence : WriteArticle(found)
  \/ LoadCandidate
  \/ \E j \in job :
       \/ \E chosen \in SUBSET Text, outcome \in {"keep", "flag", "update"} :
            review_profile(j, chosen, outcome)
       \/ curate_profile(j) \/ save_entity(j) \/ mark_evidence(j)
  \/ FailCuration
  \/ \E decision \in Decision, edited \in BOOLEAN : review_description(decision, edited)
  \/ Clear
  \/ \E next \in Policy : Restart(next)

Spec == Init /\ [][Next]_vars

-----------------------------------------------------------------------------
(* The LLM is never shown a text that was considered before: neither under *)
(* another id, nor under another policy, nor after a job that failed       *)
(* between its statements ("the same evidence is not reviewed again").     *)
PromptIsNews ==
  \A j \in job :
    j.phase \in {"review", "curate"} => Texts(j.prompt) \cap Texts(considered) = {}

(* An evidence node is marked as considered only after its entity keeps    *)
(* that for good: a job that fails half way leaves no marked evidence that *)
(* will be considered again.                                               *)
MarkedIsConsidered == marked \subseteq considered

(* Among an ingest that knows the entity by its name, a curation and       *)
(* reviewers, a reviewer's description is lost to an ingest that had       *)
(* loaded another one before, and to a curation that had loaded the entity *)
(* before the reviewer's edit; of a topic, to every article that mentions  *)
(* it, and then to nothing but its definition.  (ProfileEmbedding has the  *)
(* ways of a second spelling and of alias corrections.)                    *)
HumanTextLostForCause ==
  [][description_source = "human" /\ description' # description /\ stored' =>
       \/ ingest # {} /\ concept = {description'}
       \/ ~IsTopic /\ \E entry \in ingest : entry # description
       \/ \E j \in job : j.seen_source # "human"
       \/ review_description("accepted", TRUE)]_vars

-----------------------------------------------------------------------------
(* Statements of the user interface and of a test that do not hold.        *)

(* "Accepted by human review.": while the panel says so of a description,  *)
(* it is replaced only by another decision of a reviewer.                  *)
AcceptedTextWasReviewed ==
  [][human_review_status = "accepted" /\ human_review_status' = "accepted"
       /\ description' # description =>
         \E edited \in BOOLEAN : review_description("accepted", edited)]_vars

(* The candidates exclude descriptions a human wrote: a curation does not  *)
(* replace one.                                                            *)
CurationSparesHumanText ==
  [][description_source = "human" => description_source' # "curated_llm"]_vars
=============================================================================
