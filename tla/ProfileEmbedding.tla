-------------------------- MODULE ProfileEmbedding --------------------------
(***************************************************************************)
(* The profile of one node - description, aliases, embedding - and the     *)
(* requests and jobs that read it, wait, and write it.  An embedding is    *)
(* the text it is an embedding of; embedding_input_hash is the text whose  *)
(* hash it is.  Ingestion embeds the mention of an article and stores no   *)
(* hash; a curation and a reviewer's edit embed the profile and store      *)
(* both.                                                                   *)
(*                                                                         *)
(* The id of a node is a slug of its name.  The names of this module are   *)
(* spellings with one slug ("Mueller" with and without its umlaut): the    *)
(* resolver, which compares normalised names, may take them for different  *)
(* entities.  A topic has its text and aliases from the ontology of the    *)
(* process, and from nobody's reading of it.                               *)
(*                                                                         *)
(* Evidence and what it decides is ProfileCuration's; that a correction    *)
(* redirects relationships is EntityMerge's.  Requests that write nothing  *)
(* are left out.                                                           *)
(***************************************************************************)
EXTENDS Naturals, FiniteSets

CONSTANTS
  Name,       \* the spellings of the node's name
  Text,       \* the descriptions articles give
  Definition, \* what versions of the ontology say of a topic
  MaxEdits    \* bound on the reviewer's edits and corrections

ASSUME TextAssumption == (Text \cup Definition) \cap {"", "human", "llm"} = {}
ASSUME EditsAssumption == MaxEdits \in Nat

VARIABLES
  node,        \* the node of the graph
  registry,    \* the entries of the running ingest with the node's id
  ingesting,
  job,         \* the node as the running curation loaded it, at most one
  edit,        \* the aliases a reviewer's edit was given, at most one
  correction,  \* the node as an alias correction read it, at most one
  service,     \* whether the process has an embedding service
  concept,     \* what its ontology has of the node, if it is a Topic
  edits

vars == <<node, registry, ingesting, job, edit, correction, service, concept, edits>>

Description == Text \cup Definition \cup {"", "human", "llm"}
Source      == {"", "extraction", "topic_ontology", "curated_llm", "reviewed_llm", "human"}
Concept     == [definition : Definition, aliases : SUBSET Name]

NoText == [of |-> "none", text |-> "", aliases |-> {}]

profile_embedding_text(description, aliases) ==
  [of |-> "profile", text |-> description, aliases |-> aliases]

MentionText(description) == [of |-> "mention", text |-> description, aliases |-> {}]

(* The profile of a node that was merged into this one. *)
OtherProfile == [of |-> "other profile", text |-> "", aliases |-> {}]

Embedded == [of : {"none", "mention", "profile", "other profile"},
             text : Description, aliases : SUBSET Name]

Node == [stored : BOOLEAN, description : Description, description_source : Source,
         aliases : SUBSET Name, embedding : Embedded, embedding_input_hash : Embedded]

Absent == [stored |-> FALSE, description |-> "", description_source |-> "", aliases |-> {},
           embedding |-> NoText, embedding_input_hash |-> NoText]

Entry == [description : Description, aliases : SUBSET Name, embedding : Embedded]

TypeOK ==
  /\ node \in Node
  /\ registry \subseteq Entry
  /\ ingesting \in BOOLEAN
  /\ job \subseteq Node
  /\ edit \subseteq SUBSET Name
  /\ correction \subseteq Node
  /\ service \in BOOLEAN
  /\ concept \subseteq Concept
  /\ edits \in 0..MaxEdits

IsTopic == concept # {}

Current == profile_embedding_text(node.description, node.aliases)

Over(value, stored) == IF value = NoText THEN stored ELSE value

-----------------------------------------------------------------------------
(* Ingestion and curation exclude each other (TaskManager). *)
SlotFree == ~ingesting /\ job = {}

(* The registry has the names and the description of the node, but not its *)
(* embedding; it has no topics.                                            *)
load_from_graph ==
  IF node.stored /\ ~IsTopic
  THEN {[description |-> node.description, aliases |-> node.aliases, embedding |-> NoText]}
  ELSE {}

StartIngest ==
  /\ SlotFree
  /\ ingesting' = TRUE
  /\ registry' = load_from_graph
  /\ UNCHANGED <<node, job, edit, correction, service, concept, edits>>

(* A mention belongs to the entry with its name, or to one that is similar *)
(* to it; if there is none it makes one, with the embedding of the mention *)
(* unless there is no service or the call failed.  (Entries a relationship *)
(* of the article rules out are EntityMerge's.)                            *)
Exact(name) == {entry \in registry : name \in entry.aliases}

Similar(name) == IF Exact(name) # {} THEN Exact(name) ELSE registry

NewEntries(name, text) ==
  {[description |-> text, aliases |-> {name}, embedding |-> vector] :
     vector \in {NoText} \cup (IF service THEN {MentionText(text)} ELSE {})}

(* A topic is what the ontology says, whatever the article calls it. *)
normalized_entity(topic) ==
  [description |-> topic.definition, aliases |-> topic.aliases, embedding |-> NoText]

Protected(source) == ~IsTopic /\ source \in {"curated_llm", "reviewed_llm"}

(* Whether a description replaces another depends on evidence statuses,    *)
(* which are left out; a topic's replaces whatever is there.               *)
upsert_entity_tx(entry) ==
  LET keeps == Protected(node.description_source) \/ entry.description = "" IN
  \/ /\ ~IsTopic
     /\ \E description \in IF keeps THEN {node.description}
                           ELSE {entry.description} \cup ({node.description} \ {""}) :
          node' = [node EXCEPT
            !.stored = TRUE,
            !.aliases = @ \cup entry.aliases,
            !.description = description,
            !.description_source = IF ~keeps /\ @ = "" THEN "extraction" ELSE @,
            !.embedding = Over(entry.embedding, @)]
  \/ /\ IsTopic
     /\ node' = [node EXCEPT
          !.stored = TRUE,
          !.aliases = entry.aliases,
          !.description = entry.description,
          !.description_source = "topic_ontology",
          !.embedding = Over(entry.embedding, @)]

(* An article with a mention of the entity, if its transaction commits. *)
Mention(entry, others) ==
  /\ registry' = others \cup {entry}
  /\ upsert_entity_tx(entry) \/ node' = node

WriteArticle(name, text) ==
  /\ ingesting
  /\ ~IsTopic
  /\ \/ \E entry \in Similar(name) :
          Mention([entry EXCEPT !.aliases = @ \cup {name}], registry \ {entry})
     \/ /\ Exact(name) = {}
        /\ \E entry \in NewEntries(name, text) : Mention(entry, registry)
  /\ UNCHANGED <<ingesting, job, edit, correction, service, concept, edits>>

WriteTopic(topic) ==
  /\ ingesting
  /\ upsert_entity_tx(normalized_entity(topic))
  /\ UNCHANGED <<registry, ingesting, job, edit, correction, service, concept, edits>>

EndIngest ==
  /\ ingesting
  /\ ingesting' = FALSE
  /\ registry' = {}
  /\ UNCHANGED <<node, job, edit, correction, service, concept, edits>>

-----------------------------------------------------------------------------
(* Curation: it loads the node, asks the LLM once or twice, and saves.     *)
(* What makes a node a candidate besides its source is left out.           *)

(* Mutant: descriptions of reviewers are candidates too. *)
Candidate_any == node.stored

Candidate == node.stored /\ node.description_source # "human"

LoadCandidate ==
  /\ SlotFree
  /\ service
  /\ Candidate
  /\ job' = {node}
  /\ UNCHANGED <<node, registry, ingesting, edit, correction, service, concept, edits>>

Fresh(text) == [embedding |-> text, embedding_input_hash |-> text]
Nothing     == Fresh(NoText)

(* Mutant: a node with an embedding is not embedded again, and gets the hash. *)
_embedding_if_needed_hash(entity) ==
  LET text == profile_embedding_text(entity.description, entity.aliases) IN
  IF entity.embedding # NoText
  THEN [embedding |-> NoText, embedding_input_hash |-> text]
  ELSE Fresh(text)

(* Mutant: a node with an embedding is not embedded again. *)
_embedding_if_needed_any(entity) ==
  IF entity.embedding # NoText THEN Nothing
  ELSE Fresh(profile_embedding_text(entity.description, entity.aliases))

_embedding_if_needed(entity) ==
  LET text == profile_embedding_text(entity.description, entity.aliases) IN
  IF entity.embedding # NoText /\ entity.embedding_input_hash = text THEN Nothing
                                                                     ELSE Fresh(text)

(* The node is saved with what it holds by now; if it is gone nothing is. *)
Save(saved) ==
  /\ node' = IF node.stored THEN saved ELSE node
  /\ job' = {}
  /\ UNCHANGED <<registry, ingesting, edit, correction, service, concept, edits>>

save_profile_review_keep(entity) ==
  LET new == _embedding_if_needed(entity) IN
  /\ entity.description # ""
  /\ Save([node EXCEPT
       !.description_source = IF node.description = "" THEN @ ELSE "reviewed_llm",
       !.embedding = Over(new.embedding, @),
       !.embedding_input_hash = Over(new.embedding_input_hash, @)])

(* The new text is embedded with the aliases the curation loaded. *)
save_profile_revision(entity) ==
  LET new == Fresh(profile_embedding_text("llm", entity.aliases)) IN
  Save([node EXCEPT
    !.description = "llm", !.description_source = "curated_llm",
    !.embedding = new.embedding, !.embedding_input_hash = new.embedding_input_hash])

(* A flagged profile, an invalid answer, a call that fails. *)
EndCuration ==
  /\ job # {}
  /\ job' = {}
  /\ UNCHANGED <<node, registry, ingesting, edit, correction, service, concept, edits>>

-----------------------------------------------------------------------------
(* POST /nodes/{node_id}/description/review with a description. *)

description_review_input ==
  /\ node.stored /\ edit = {}
  /\ edits < MaxEdits /\ edits' = edits + 1
  /\ edit' = {node.aliases}
  /\ UNCHANGED <<node, registry, ingesting, job, correction, service, concept>>

(* Without a service the embedding of the old description is removed. *)
review_description(aliases) ==
  LET text == IF service THEN profile_embedding_text("human", aliases) ELSE NoText IN
  /\ node' = IF node.stored
             THEN [node EXCEPT
                    !.description = "human", !.description_source = "human",
                    !.embedding = text, !.embedding_input_hash = text]
             ELSE node
  /\ edit' = {}
  /\ UNCHANGED <<registry, ingesting, job, correction, service, concept, edits>>

(* POST and DELETE /nodes/{node_id}/aliases: a transaction that reads the  *)
(* node and later writes all of it, or its aliases.  Those of a topic      *)
(* cannot be corrected.                                                    *)
ReadForCorrection ==
  /\ node.stored /\ ~IsTopic /\ correction = {}
  /\ edits < MaxEdits /\ edits' = edits + 1
  /\ correction' = {node}
  /\ UNCHANGED <<node, registry, ingesting, job, edit, service, concept>>

Correct(written) ==
  /\ node' = IF node.stored THEN written ELSE node
  /\ correction' = {}
  /\ UNCHANGED <<registry, ingesting, job, edit, service, concept, edits>>

(* A merged node has names of its own, and may have a hash.  It does not   *)
(* give away its embedding, but its hash if this node has none.            *)
_merge_node_properties(read, names, hash) ==
  [read EXCEPT !.aliases = @ \cup names,
               !.embedding_input_hash = IF @ = NoText THEN hash ELSE @]

_add_alias_tx(read, alias) ==
  \E names \in SUBSET Name, hash \in {NoText, OtherProfile} :
    Correct(_merge_node_properties(read, names \cup {alias}, hash))

_remove_alias_tx(read, alias) == Correct([node EXCEPT !.aliases = read.aliases \ {alias}])

(* A reviewer's request that fails before it writes. *)
FailRequest ==
  \/ /\ edit # {} /\ edit' = {}
     /\ UNCHANGED <<node, registry, ingesting, job, correction, service, concept, edits>>
  \/ /\ correction # {} /\ correction' = {}
     /\ UNCHANGED <<node, registry, ingesting, job, edit, service, concept, edits>>

(* DELETE /graph *)
Clear ==
  /\ node' = Absent
  /\ UNCHANGED <<registry, ingesting, job, edit, correction, service, concept, edits>>

(* A new process, perhaps without an API key, or with another ontology. *)
Restart ==
  /\ ingesting' = FALSE /\ registry' = {} /\ job' = {} /\ edit' = {} /\ correction' = {}
  /\ service' \in BOOLEAN
  /\ IF IsTopic THEN \E topic \in Concept : concept' = {topic}
                ELSE concept' = {}
  /\ UNCHANGED <<node, edits>>

Init ==
  /\ node = Absent
  /\ ingesting = FALSE /\ registry = {} /\ job = {} /\ edit = {} /\ correction = {}
  /\ service \in BOOLEAN
  /\ concept = {} \/ \E topic \in Concept : concept = {topic}
  /\ edits = 0

Next ==
  \/ StartIngest \/ EndIngest
  \/ \E name \in Name, text \in Text \cup {""} : WriteArticle(name, text)
  \/ \E topic \in concept : WriteTopic(topic)
  \/ LoadCandidate
  \/ \E entity \in job : save_profile_review_keep(entity) \/ save_profile_revision(entity)
  \/ EndCuration
  \/ description_review_input
  \/ \E aliases \in edit : review_description(aliases)
  \/ ReadForCorrection
  \/ \E read \in correction, alias \in Name :
       _add_alias_tx(read, alias) \/ _remove_alias_tx(read, alias)
  \/ FailRequest
  \/ Clear
  \/ Restart

Spec == Init /\ [][Next]_vars

-----------------------------------------------------------------------------
(* The embedding of a node is of the text its hash is of, whoever read     *)
(* what before it wrote; only the embedding of an article's mention can    *)
(* lie over a hash it does not belong to.                                  *)
HashVouchesForEmbedding ==
  node.embedding_input_hash.of = "profile" =>
    node.embedding = node.embedding_input_hash \/ node.embedding.of = "mention"

(* When a curation keeps or rewrites the description of a node nobody      *)
(* wrote meanwhile, the node's embedding is then of its profile: the call  *)
(* is spared only where it is - but for a mention's embedding over the     *)
(* hash of the profile, which no curation that keeps the text repairs.     *)
CuratedProfileIsEmbedded ==
  [][\A entity \in job :
       entity = node /\ (save_profile_review_keep(entity) \/ save_profile_revision(entity))
       => \/ node'.embedding = Current'
          \/ node.embedding.of = "mention" /\ node.embedding_input_hash = Current]_vars

(* A reviewer's text is lost to an ingest that loaded another text before  *)
(* or met the node under a name it took for a new one, to a curation that  *)
(* loaded the node before, and to a correction of its aliases that read    *)
(* the node before.  That of a topic is lost to each article that mentions *)
(* it, to what the ontology of the process says.                           *)
HumanProfileLostForCause ==
  [][node.description_source = "human" /\ node.description = "human"
       /\ node'.description # "human" /\ node'.stored =>
       \/ ~IsTopic /\ \E entry \in registry' : entry.description # "human"
       \/ \E topic \in concept :
            /\ ingesting
            /\ node'.description = topic.definition /\ node'.aliases = topic.aliases
       \/ \E entity \in job : entity.description_source # "human"
       \/ ~IsTopic /\ \E read \in correction : read.description # "human"]_vars
=============================================================================
