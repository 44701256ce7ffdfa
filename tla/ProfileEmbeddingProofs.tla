----------------------- MODULE ProfileEmbeddingProofs -----------------------
(***************************************************************************)
(* Proofs about ProfileEmbedding, for any names, texts and number of       *)
(* edits.                                                                  *)
(*                                                                         *)
(* A request or a job may hold a node of the past, and a correction writes *)
(* all of it back.  That the embedding and the hash are always written     *)
(* together, and that what ingestion holds is an embedding of a mention,   *)
(* makes each node that was ever read one whose hash vouches for it.       *)
(***************************************************************************)
EXTENDS ProfileEmbedding, TLAPS

Vouched(n) ==
  n.embedding_input_hash.of = "profile" =>
    n.embedding = n.embedding_input_hash \/ n.embedding.of = "mention"

RegistryHoldsMentions ==
  \A entry \in registry : entry.embedding = NoText \/ entry.embedding.of = "mention"

JobIsCandidate ==
  \A entity \in job : entity.stored /\ entity.description_source # "human"

TopicsAreNotCorrected == IsTopic => correction = {}

IInv ==
  /\ TypeOK
  /\ Vouched(node)
  /\ \A read \in correction : Vouched(read)
  /\ RegistryHoldsMentions
  /\ JobIsCandidate
  /\ TopicsAreNotCorrected

-----------------------------------------------------------------------------
LEMMA Texts ==
  /\ NoText \in Embedded /\ OtherProfile \in Embedded
  /\ \A text \in Description : MentionText(text) \in Embedded
  /\ \A text \in Description, aliases \in SUBSET Name :
       profile_embedding_text(text, aliases) \in Embedded
PROOF
  <1>1. NoText \in Embedded /\ OtherProfile \in Embedded
    BY DEF NoText, OtherProfile, Embedded, Description
  <1>2. \A text \in Description : MentionText(text) \in Embedded
    BY DEF MentionText, Embedded
  <1>3. \A text \in Description, aliases \in SUBSET Name :
          profile_embedding_text(text, aliases) \in Embedded
    BY DEF profile_embedding_text, Embedded
  <1> QED BY <1>1, <1>2, <1>3

LEMMA AbsentIsNode == Absent \in Node /\ Vouched(Absent)
PROOF
  <1>1. Absent \in Node
    BY Texts DEF Absent, Node, Description, Source
  <1>2. Vouched(Absent)
    BY DEF Absent, Vouched, NoText
  <1> QED BY <1>1, <1>2

LEMMA InitInvariant == Init => IInv
PROOF
  <1> SUFFICES ASSUME Init
               PROVE  IInv
    OBVIOUS
  <1>1. TypeOK
    <2>1. node \in Node
      BY AbsentIsNode DEF Init
    <2>2. registry = {} /\ job = {} /\ edit = {} /\ correction = {} /\ ingesting = FALSE
      BY DEF Init
    <2>3. service \in BOOLEAN
      BY DEF Init
    <2>4. edits \in 0..MaxEdits
      BY EditsAssumption DEF Init
    <2>5. concept \subseteq Concept
      BY DEF Init
    <2> QED BY <2>1, <2>2, <2>3, <2>4, <2>5 DEF TypeOK
  <1>2. Vouched(node)
    BY AbsentIsNode DEF Init
  <1>3. /\ \A read \in correction : Vouched(read)
        /\ RegistryHoldsMentions /\ JobIsCandidate /\ TopicsAreNotCorrected
    BY DEF Init, RegistryHoldsMentions, JobIsCandidate, TopicsAreNotCorrected, IsTopic
  <1> QED BY <1>1, <1>2, <1>3 DEF IInv

-----------------------------------------------------------------------------
(* Ingestion. *)
LEMMA StartIngestStep ==
  ASSUME IInv, StartIngest
  PROVE  IInv'
PROOF
  <1>1. UNCHANGED <<node, job, edit, correction, service, concept, edits>>
        /\ registry' = load_from_graph /\ ingesting' = TRUE
    BY DEF StartIngest
  <1>2. node \in Node
    BY DEF IInv, TypeOK
  <1>3. load_from_graph \subseteq Entry
        /\ \A entry \in load_from_graph : entry.embedding = NoText
    BY <1>2, Texts DEF load_from_graph, Entry, Node
  <1>4. TypeOK'
    BY <1>1, <1>3 DEF IInv, TypeOK
  <1>5. RegistryHoldsMentions'
    BY <1>1, <1>3 DEF RegistryHoldsMentions
  <1> QED BY <1>1, <1>4, <1>5 DEF IInv, Vouched, JobIsCandidate, TopicsAreNotCorrected, IsTopic

LEMMA EndIngestStep ==
  ASSUME IInv, EndIngest
  PROVE  IInv'
PROOF
  <1>1. UNCHANGED <<node, job, edit, correction, service, concept, edits>>
        /\ registry' = {} /\ ingesting' = FALSE
    BY DEF EndIngest
  <1>2. TypeOK' /\ RegistryHoldsMentions'
    BY <1>1 DEF IInv, TypeOK, RegistryHoldsMentions
  <1> QED BY <1>1, <1>2 DEF IInv, Vouched, JobIsCandidate, TopicsAreNotCorrected, IsTopic

(* Storing an entry adds a mention's embedding or none.                    *)
LEMMA UpsertStep ==
  ASSUME NEW entry \in Entry, node \in Node, Vouched(node),
         entry.embedding = NoText \/ entry.embedding.of = "mention",
         upsert_entity_tx(entry)
  PROVE  node' \in Node /\ Vouched(node') /\ node'.description \in {entry.description, node.description}
PROOF
  <1>1. PICK description \in {entry.description, node.description},
             source \in {"extraction", "topic_ontology", node.description_source},
             aliases \in {entry.aliases, node.aliases \cup entry.aliases} :
          node' = [node EXCEPT
            !.stored = TRUE,
            !.aliases = aliases,
            !.description = description,
            !.description_source = source,
            !.embedding = Over(entry.embedding, node.embedding)]
    BY DEF upsert_entity_tx
  <1>2. /\ node'.description = description
        /\ node'.description_source = source /\ node'.stored = TRUE
        /\ node'.aliases = aliases
        /\ node'.embedding = Over(entry.embedding, node.embedding)
        /\ node'.embedding_input_hash = node.embedding_input_hash
    BY <1>1 DEF Node
  <1>3. Over(entry.embedding, node.embedding) \in Embedded
    BY DEF Over, Node, Entry
  <1>4. node' \in Node
    BY <1>1, <1>3 DEF Node, Entry, Source
  <1>5. Vouched(node')
    BY <1>2 DEF Vouched, Over
  <1> QED BY <1>2, <1>4, <1>5

LEMMA MentionStep ==
  ASSUME NEW entry \in Entry, NEW others \in SUBSET registry, IInv,
         entry.embedding = NoText \/ entry.embedding.of = "mention",
         Mention(entry, others),
         UNCHANGED <<ingesting, job, edit, correction, service, concept, edits>>
  PROVE  IInv'
PROOF
  <1>1. node \in Node /\ Vouched(node) /\ registry \subseteq Entry
    BY DEF IInv, TypeOK
  <1>2. node' \in Node /\ Vouched(node')
    BY <1>1, UpsertStep DEF Mention, Vouched
  <1>3. registry' \subseteq Entry /\ RegistryHoldsMentions'
    BY <1>1 DEF Mention, IInv, RegistryHoldsMentions
  <1>4. TypeOK'
    BY <1>2, <1>3 DEF IInv, TypeOK
  <1> QED BY <1>2, <1>3, <1>4 DEF IInv, JobIsCandidate, Vouched, TopicsAreNotCorrected, IsTopic

LEMMA WriteArticleStep ==
  ASSUME NEW name \in Name, NEW text \in Text \cup {""}, IInv, WriteArticle(name, text)
  PROVE  IInv'
PROOF
  <1>1. registry \subseteq Entry /\ UNCHANGED <<ingesting, job, edit, correction, service, concept, edits>>
    BY DEF IInv, TypeOK, WriteArticle
  <1>2. CASE \E entry \in Similar(name) :
               Mention([entry EXCEPT !.aliases = entry.aliases \cup {name}], registry \ {entry})
    <2>1. PICK entry \in registry :
            Mention([entry EXCEPT !.aliases = entry.aliases \cup {name}], registry \ {entry})
      BY <1>2 DEF Similar, Exact
    <2> DEFINE longer == [entry EXCEPT !.aliases = entry.aliases \cup {name}]
    <2>2. longer \in Entry /\ longer.embedding = entry.embedding
      BY <1>1 DEF Entry
    <2>3. longer.embedding = NoText \/ longer.embedding.of = "mention"
      BY <2>2 DEF IInv, RegistryHoldsMentions
    <2>4. Mention(longer, registry \ {entry})
      BY <2>1
    <2> HIDE DEF longer
    <2> QED BY <1>1, <2>2, <2>3, <2>4, MentionStep
  <1>3. CASE \E entry \in NewEntries(name, text) : Mention(entry, registry)
    <2>1. PICK entry \in NewEntries(name, text) : Mention(entry, registry)
      BY <1>3
    <2>2. text \in Description
      BY DEF Description
    <2>3. PICK vector \in {NoText, MentionText(text)} :
            entry = [description |-> text, aliases |-> {name}, embedding |-> vector]
      BY DEF NewEntries
    <2>4. entry \in Entry
      BY <2>2, <2>3, Texts DEF Entry
    <2>5. entry.embedding = NoText \/ entry.embedding.of = "mention"
      <3>1. MentionText(text).of = "mention"
        BY DEF MentionText
      <3> QED BY <2>3, <3>1
    <2> QED BY <1>1, <2>1, <2>4, <2>5, MentionStep
  <1> QED BY <1>2, <1>3 DEF WriteArticle

(* A topic is stored without an embedding, and never meets the registry.   *)
LEMMA WriteTopicStep ==
  ASSUME NEW topic \in concept, IInv, WriteTopic(topic)
  PROVE  IInv'
PROOF
  <1> DEFINE entry == normalized_entity(topic)
  <1>1. node \in Node /\ Vouched(node) /\ topic \in Concept
    BY DEF IInv, TypeOK
  <1>2. entry \in Entry /\ entry.embedding = NoText
    BY <1>1, Texts DEF normalized_entity, Entry, Concept, Description
  <1>3. upsert_entity_tx(entry)
        /\ UNCHANGED <<registry, ingesting, job, edit, correction, service, concept, edits>>
    BY DEF WriteTopic
  <1> HIDE DEF entry
  <1>4. node' \in Node /\ Vouched(node')
    BY <1>1, <1>2, <1>3, UpsertStep
  <1>5. TypeOK'
    BY <1>3, <1>4 DEF IInv, TypeOK
  <1> QED BY <1>3, <1>4, <1>5 DEF IInv, RegistryHoldsMentions, JobIsCandidate, Vouched,
                                  TopicsAreNotCorrected, IsTopic

-----------------------------------------------------------------------------
(* Curation. *)
LEMMA LoadCandidateStep ==
  ASSUME IInv, LoadCandidate
  PROVE  IInv'
PROOF
  <1>1. /\ UNCHANGED <<node, registry, ingesting, edit, correction, service, concept, edits>>
        /\ job' = {node} /\ node.stored /\ node.description_source # "human"
    BY DEF LoadCandidate, Candidate
  <1>2. TypeOK' /\ JobIsCandidate'
    BY <1>1 DEF IInv, TypeOK, JobIsCandidate
  <1> QED BY <1>1, <1>2 DEF IInv, Vouched, RegistryHoldsMentions, TopicsAreNotCorrected, IsTopic

LEMMA EndCurationStep ==
  ASSUME IInv, job' = {},
         node' \in Node, Vouched(node'),
         UNCHANGED <<registry, ingesting, edit, correction, service, concept, edits>>
  PROVE  IInv'
PROOF
  <1>1. TypeOK' /\ JobIsCandidate' /\ RegistryHoldsMentions' /\ TopicsAreNotCorrected'
    BY DEF IInv, TypeOK, JobIsCandidate, RegistryHoldsMentions, TopicsAreNotCorrected, IsTopic
  <1> QED BY <1>1 DEF IInv, Vouched

(* What is saved with an embedding and its hash is a node they belong to.  *)
LEMMA KeepStep ==
  ASSUME NEW entity \in job, IInv, save_profile_review_keep(entity)
  PROVE  IInv'
PROOF
  <1> DEFINE text == profile_embedding_text(entity.description, entity.aliases)
  <1>1. node \in Node /\ Vouched(node) /\ entity \in Node
    BY DEF IInv, TypeOK
  <1>2. text \in Embedded /\ text.of = "profile"
    BY <1>1, Texts DEF Node, profile_embedding_text
  <1>3. PICK new \in {Nothing, Fresh(text)}, source \in {node.description_source, "reviewed_llm"} :
          Save([node EXCEPT
            !.description_source = source,
            !.embedding = Over(new.embedding, node.embedding),
            !.embedding_input_hash = Over(new.embedding_input_hash, node.embedding_input_hash)])
    BY DEF save_profile_review_keep, _embedding_if_needed
  <1> DEFINE saved == [node EXCEPT
            !.description_source = source,
            !.embedding = Over(new.embedding, node.embedding),
            !.embedding_input_hash = Over(new.embedding_input_hash, node.embedding_input_hash)]
  <1>4. saved.embedding = Over(new.embedding, node.embedding)
        /\ saved.embedding_input_hash = Over(new.embedding_input_hash, node.embedding_input_hash)
    BY <1>1 DEF Node
  <1>5. \/ saved.embedding = node.embedding /\ saved.embedding_input_hash = node.embedding_input_hash
        \/ saved.embedding = text /\ saved.embedding_input_hash = text
    <2>1. CASE new = Nothing
      <3>1. new.embedding = NoText /\ new.embedding_input_hash = NoText
        BY <2>1 DEF Nothing, Fresh
      <3> QED BY <1>4, <3>1 DEF Over
    <2>2. CASE new = Fresh(text)
      <3>1. new.embedding = text /\ new.embedding_input_hash = text
        BY <2>2 DEF Fresh
      <3>2. text # NoText
        <4>1. NoText.of = "none"
          BY DEF NoText
        <4> HIDE DEF text
        <4> QED BY <1>2, <4>1
      <3> HIDE DEF text
      <3> QED BY <1>4, <3>1, <3>2 DEF Over
    <2> QED BY <2>1, <2>2
  <1>6. saved.embedding \in Embedded /\ saved.embedding_input_hash \in Embedded
    BY <1>1, <1>2, <1>5 DEF Node
  <1>7. saved \in Node
    BY <1>1, <1>4, <1>6 DEF Node, Source
  <1>8. Vouched(saved)
    BY <1>1, <1>5 DEF Vouched
  <1> HIDE DEF saved
  <1>9. Save(saved)
    BY <1>3 DEF saved
  <1> QED BY <1>1, <1>7, <1>8, <1>9, EndCurationStep DEF Save

LEMMA RevisionStep ==
  ASSUME NEW entity \in job, IInv, save_profile_revision(entity)
  PROVE  IInv'
PROOF
  <1> DEFINE text  == profile_embedding_text("llm", entity.aliases)
             saved == [node EXCEPT
                        !.description = "llm", !.description_source = "curated_llm",
                        !.embedding = text, !.embedding_input_hash = text]
  <1>1. node \in Node /\ Vouched(node) /\ entity \in Node
    BY DEF IInv, TypeOK
  <1>2. text \in Embedded
    BY <1>1, Texts DEF Node, Description
  <1>3. saved \in Node /\ Vouched(saved)
    BY <1>1, <1>2 DEF Node, Source, Description, Vouched
  <1>4. Save(saved)
    BY DEF save_profile_revision, Fresh
  <1> HIDE DEF saved
  <1> QED BY <1>1, <1>3, <1>4, EndCurationStep DEF Save

-----------------------------------------------------------------------------
(* Reviewers. *)
LEMMA ReadForEditStep ==
  ASSUME IInv, description_review_input
  PROVE  IInv'
PROOF
  <1>1. /\ UNCHANGED <<node, registry, ingesting, job, correction, service, concept>>
        /\ edit' = {node.aliases} /\ edits < MaxEdits /\ edits' = edits + 1
    BY DEF description_review_input
  <1>2. node.aliases \in SUBSET Name /\ edits' \in 0..MaxEdits
    BY <1>1, EditsAssumption DEF IInv, TypeOK, Node
  <1>3. TypeOK'
    BY <1>1, <1>2 DEF IInv, TypeOK
  <1> QED BY <1>1, <1>3
      DEF IInv, Vouched, RegistryHoldsMentions, JobIsCandidate, TopicsAreNotCorrected, IsTopic

LEMMA ReviewStep ==
  ASSUME NEW aliases \in edit, IInv, review_description(aliases)
  PROVE  IInv'
PROOF
  <1>1. node \in Node /\ Vouched(node) /\ aliases \in SUBSET Name
    BY DEF IInv, TypeOK
  <1>2. PICK text \in {profile_embedding_text("human", aliases), NoText} :
          node' = IF node.stored
                  THEN [node EXCEPT
                         !.description = "human", !.description_source = "human",
                         !.embedding = text, !.embedding_input_hash = text]
                  ELSE node
    BY DEF review_description
  <1>3. text \in Embedded
    BY <1>1, <1>2, Texts DEF Description
  <1>4. node' \in Node
    BY <1>1, <1>2, <1>3 DEF Node, Description, Source
  <1>5. Vouched(node')
    <2>1. CASE node.stored
      BY <1>1, <1>2, <2>1 DEF Node, Vouched
    <2>2. CASE ~node.stored
      BY <1>1, <1>2, <2>2
    <2> QED BY <2>1, <2>2
  <1>6. UNCHANGED <<registry, ingesting, job, correction, service, concept, edits>> /\ edit' = {}
    BY DEF review_description
  <1>7. TypeOK'
    BY <1>4, <1>6 DEF IInv, TypeOK
  <1> QED BY <1>5, <1>6, <1>7
      DEF IInv, RegistryHoldsMentions, JobIsCandidate, TopicsAreNotCorrected, IsTopic, Vouched

LEMMA ReadForCorrectionStep ==
  ASSUME IInv, ReadForCorrection
  PROVE  IInv'
PROOF
  <1>1. /\ UNCHANGED <<node, registry, ingesting, job, edit, service, concept>>
        /\ correction' = {node} /\ edits < MaxEdits /\ edits' = edits + 1
        /\ ~IsTopic
    BY DEF ReadForCorrection
  <1>2. edits' \in 0..MaxEdits
    BY <1>1, EditsAssumption DEF IInv, TypeOK
  <1>3. TypeOK'
    BY <1>1, <1>2 DEF IInv, TypeOK
  <1> QED BY <1>1, <1>3
      DEF IInv, Vouched, RegistryHoldsMentions, JobIsCandidate, TopicsAreNotCorrected, IsTopic

LEMMA CorrectStep ==
  ASSUME NEW written \in Node, IInv, Vouched(written), Correct(written)
  PROVE  IInv'
PROOF
  <1>1. /\ node' \in Node /\ Vouched(node')
        /\ correction' = {} /\ UNCHANGED <<registry, ingesting, job, edit, service, concept, edits>>
    BY DEF Correct, IInv, TypeOK, Vouched
  <1>2. TypeOK'
    BY <1>1 DEF IInv, TypeOK
  <1> QED BY <1>1, <1>2
      DEF IInv, RegistryHoldsMentions, JobIsCandidate, TopicsAreNotCorrected, IsTopic, Vouched

(* A node that takes the hash of another takes one of another profile.     *)
LEMMA AddAliasStep ==
  ASSUME NEW read \in correction, NEW alias \in Name, IInv, _add_alias_tx(read, alias)
  PROVE  IInv'
PROOF
  <1>1. PICK names \in SUBSET Name, hash \in {NoText, OtherProfile} :
          Correct(_merge_node_properties(read, names \cup {alias}, hash))
    BY DEF _add_alias_tx
  <1> DEFINE written == _merge_node_properties(read, names \cup {alias}, hash)
  <1>2. read \in Node /\ Vouched(read)
    BY DEF IInv, TypeOK
  <1>3. /\ written.embedding = read.embedding
        /\ written.embedding_input_hash \in {read.embedding_input_hash, hash}
    BY <1>2 DEF _merge_node_properties, Node
  <1>4. hash \in Embedded /\ hash.of # "profile"
    <2>1. NoText.of # "profile" /\ OtherProfile.of # "profile"
      BY DEF NoText, OtherProfile
    <2> QED BY <1>1, <2>1, Texts
  <1>5. written \in Node
    BY <1>2, <1>4 DEF _merge_node_properties, Node
  <1>6. Vouched(written)
    BY <1>2, <1>3, <1>4 DEF Vouched
  <1>7. Correct(written)
    BY <1>1
  <1> HIDE DEF written
  <1> QED BY <1>5, <1>6, <1>7, CorrectStep

LEMMA RemoveAliasStep ==
  ASSUME NEW read \in correction, NEW alias \in Name, IInv, _remove_alias_tx(read, alias)
  PROVE  IInv'
PROOF
  <1> DEFINE written == [node EXCEPT !.aliases = read.aliases \ {alias}]
  <1>1. node \in Node /\ Vouched(node) /\ read \in Node
    BY DEF IInv, TypeOK
  <1>2. written \in Node
    BY <1>1 DEF Node
  <1>3. Vouched(written)
    BY <1>1 DEF Node, Vouched
  <1>4. Correct(written)
    BY DEF _remove_alias_tx
  <1> HIDE DEF written
  <1> QED BY <1>2, <1>3, <1>4, CorrectStep

LEMMA OtherSteps ==
  ASSUME IInv, EndCuration \/ FailRequest \/ Clear \/ Restart
  PROVE  IInv'
PROOF
  <1>1. CASE EndCuration
    BY <1>1, EndCurationStep DEF EndCuration, IInv, TypeOK, Vouched
  <1>2. CASE FailRequest
    <2>1. /\ UNCHANGED <<node, registry, ingesting, job, service, concept, edits>>
          /\ edit' \subseteq edit /\ correction' \subseteq correction
      BY <1>2 DEF FailRequest
    <2>2. TypeOK'
      BY <2>1 DEF IInv, TypeOK
    <2> QED BY <2>1, <2>2
        DEF IInv, Vouched, RegistryHoldsMentions, JobIsCandidate, TopicsAreNotCorrected, IsTopic
  <1>3. CASE Clear
    <2>1. node' = Absent /\ UNCHANGED <<registry, ingesting, job, edit, correction, service, concept, edits>>
      BY <1>3 DEF Clear
    <2>2. TypeOK' /\ Vouched(node')
      BY <2>1, AbsentIsNode DEF IInv, TypeOK
    <2> QED BY <2>1, <2>2
        DEF IInv, RegistryHoldsMentions, JobIsCandidate, TopicsAreNotCorrected, IsTopic, Vouched
  <1>4. CASE Restart
    <2>1. /\ UNCHANGED <<node, edits>> /\ service' \in BOOLEAN /\ ingesting' = FALSE
          /\ registry' = {} /\ job' = {} /\ edit' = {} /\ correction' = {}
          /\ concept' \subseteq Concept
      BY <1>4 DEF Restart
    <2>2. TypeOK'
      BY <2>1 DEF IInv, TypeOK
    <2> QED BY <2>1, <2>2
        DEF IInv, Vouched, RegistryHoldsMentions, JobIsCandidate, TopicsAreNotCorrected, IsTopic
  <1> QED BY <1>1, <1>2, <1>3, <1>4

LEMMA NextInvariant == IInv /\ [Next]_vars => IInv'
PROOF
  <1> SUFFICES ASSUME IInv, [Next]_vars
               PROVE  IInv'
    OBVIOUS
  <1>1. CASE StartIngest
    BY <1>1, StartIngestStep
  <1>2. CASE EndIngest
    BY <1>2, EndIngestStep
  <1>3. CASE \E name \in Name, text \in Text \cup {""} : WriteArticle(name, text)
    BY <1>3, WriteArticleStep
  <1>4. CASE LoadCandidate
    BY <1>4, LoadCandidateStep
  <1>5. CASE \E entity \in job :
               save_profile_review_keep(entity) \/ save_profile_revision(entity)
    BY <1>5, KeepStep, RevisionStep
  <1>6. CASE description_review_input
    BY <1>6, ReadForEditStep
  <1>7. CASE \E aliases \in edit : review_description(aliases)
    BY <1>7, ReviewStep
  <1>8. CASE ReadForCorrection
    BY <1>8, ReadForCorrectionStep
  <1>9. CASE \E read \in correction, alias \in Name :
               _add_alias_tx(read, alias) \/ _remove_alias_tx(read, alias)
    BY <1>9, AddAliasStep, RemoveAliasStep
  <1>10. CASE EndCuration \/ FailRequest \/ Clear \/ Restart
    BY <1>10, OtherSteps
  <1>11. CASE \E topic \in concept : WriteTopic(topic)
    BY <1>11, WriteTopicStep
  <1>12. CASE UNCHANGED vars
    BY <1>12
        DEF vars, IInv, TypeOK, Vouched, RegistryHoldsMentions, JobIsCandidate, TopicsAreNotCorrected, IsTopic
  <1> QED BY <1>1, <1>2, <1>3, <1>4, <1>5, <1>6, <1>7, <1>8, <1>9, <1>10, <1>11, <1>12 DEF Next

(* The node is of its type, each embedding belongs to its hash or is of a  *)
(* mention, and so it was with every node a correction read: save_profile_ *)
(* revision, save_profile_review_keep and review_description write both.   *)
THEOREM EmbeddingInvariant == Spec => []IInv
PROOF
  <1> QED BY InitInvariant, NextInvariant, PTL DEF Spec

(* Every variable has its type: upsert_entity_tx, the profile store and    *)
(* the alias corrections store only nodes the others can read.             *)
THEOREM TypeCorrect == Spec => []TypeOK
PROOF
  <1>1. IInv => TypeOK
    BY DEF IInv
  <1> QED BY <1>1, EmbeddingInvariant, PTL

(* The hash a curation compares (_embedding_if_needed) never stands beside *)
(* the embedding of another profile.                                       *)
THEOREM HashVouches == Spec => []HashVouchesForEmbedding
PROOF
  <1>1. IInv => HashVouchesForEmbedding
    BY DEF IInv, Vouched, HashVouchesForEmbedding
  <1> QED BY <1>1, EmbeddingInvariant, PTL

-----------------------------------------------------------------------------
EmbeddedStep ==
  \A entity \in job :
    entity = node /\ (save_profile_review_keep(entity) \/ save_profile_revision(entity))
    => \/ node'.embedding = Current'
       \/ node.embedding.of = "mention" /\ node.embedding_input_hash = Current

LEMMA KeptIsEmbedded ==
  ASSUME IInv, NEW entity \in job, entity = node, save_profile_review_keep(entity)
  PROVE  \/ node'.embedding = Current'
         \/ node.embedding.of = "mention" /\ node.embedding_input_hash = Current
PROOF
  <1>1. node \in Node /\ Vouched(node) /\ node.stored
    BY DEF IInv, TypeOK, JobIsCandidate
  <1> DEFINE new == _embedding_if_needed(node)
  <1>2. PICK source \in Source \cup {node.description_source} :
          node' = [node EXCEPT
            !.description_source = source,
            !.embedding = Over(new.embedding, node.embedding),
            !.embedding_input_hash = Over(new.embedding_input_hash, node.embedding_input_hash)]
    BY <1>1 DEF save_profile_review_keep, Save, Source
  <1>3. Current' = Current /\ node'.embedding = Over(new.embedding, node.embedding)
    BY <1>1, <1>2 DEF Node, Current
  <1>4. CASE node.embedding # NoText /\ node.embedding_input_hash = Current
    <2>1. new = Nothing
      BY <1>4 DEF _embedding_if_needed, Current
    <2>2. node'.embedding = node.embedding
      BY <1>3, <2>1 DEF Over, Nothing, Fresh
    <2>3. node.embedding_input_hash.of = "profile"
      BY <1>4 DEF Current, profile_embedding_text
    <2> QED BY <1>1, <1>3, <1>4, <2>2, <2>3 DEF Vouched
  <1>5. CASE ~(node.embedding # NoText /\ node.embedding_input_hash = Current)
    <2>1. new = Fresh(Current)
      BY <1>5 DEF _embedding_if_needed, Current
    <2>2. Current # NoText
      BY DEF Current, profile_embedding_text, NoText
    <2> QED BY <1>3, <2>1, <2>2 DEF Over, Fresh
  <1> QED BY <1>4, <1>5

LEMMA RevisedIsEmbedded ==
  ASSUME IInv, NEW entity \in job, entity = node, save_profile_revision(entity)
  PROVE  node'.embedding = Current'
PROOF
  <1> DEFINE text == profile_embedding_text("llm", node.aliases)
  <1>1. node \in Node /\ node.stored
    BY DEF IInv, TypeOK, JobIsCandidate
  <1>2. node' = [node EXCEPT
                  !.description = "llm", !.description_source = "curated_llm",
                  !.embedding = text, !.embedding_input_hash = text]
    BY <1>1 DEF save_profile_revision, Save, Fresh
  <1>3. node'.description = "llm" /\ node'.aliases = node.aliases /\ node'.embedding = text
    BY <1>1, <1>2 DEF Node
  <1> QED BY <1>3 DEF Current

(* A kept or rewritten description of a node nobody else wrote is embedded *)
(* with its aliases when _embedding_if_needed and _embedding_for_          *)
(* description return, but for a mention's embedding over its hash.        *)
THEOREM CuratedIsEmbedded == Spec => CuratedProfileIsEmbedded
PROOF
  <1>1. IInv => EmbeddedStep
    BY KeptIsEmbedded, RevisedIsEmbedded DEF EmbeddedStep
  <1>2. IInv /\ [Next]_vars => [EmbeddedStep]_vars
    BY <1>1
  <1> HIDE DEF EmbeddedStep
  <1>3. Spec => [][EmbeddedStep]_vars
    BY <1>2, EmbeddingInvariant, PTL DEF Spec
  <1> QED BY <1>3 DEF CuratedProfileIsEmbedded, EmbeddedStep

-----------------------------------------------------------------------------
HumanTextStep ==
  node.description_source = "human" /\ node.description = "human"
    /\ node'.description # "human" /\ node'.stored =>
    \/ ~IsTopic /\ \E entry \in registry' : entry.description # "human"
    \/ \E topic \in concept :
         /\ ingesting
         /\ node'.description = topic.definition /\ node'.aliases = topic.aliases
    \/ \E entity \in job : entity.description_source # "human"
    \/ ~IsTopic /\ \E read \in correction : read.description # "human"

LEMMA ArticleTextStep ==
  ASSUME NEW name \in Name, NEW text \in Text \cup {""}, IInv, WriteArticle(name, text)
  PROVE  HumanTextStep
PROOF
  <1>1. node \in Node /\ Vouched(node) /\ registry \subseteq Entry
    BY DEF IInv, TypeOK
  <1>2. /\ ~IsTopic
        /\ \E entry : entry \in registry' /\ (upsert_entity_tx(entry) \/ node' = node)
    BY DEF WriteArticle, Mention
  <1>3. CASE node' = node
    BY <1>3 DEF HumanTextStep
  <1>4. ASSUME NEW entry \in registry', upsert_entity_tx(entry)
        PROVE  HumanTextStep
    <2>1. node'.description \in {entry.description, node.description}
      BY <1>1, <1>2, <1>4 DEF upsert_entity_tx, Node
    <2> QED BY <1>2, <2>1 DEF HumanTextStep
  <1> QED BY <1>2, <1>3, <1>4

LEMMA TopicTextStep ==
  ASSUME NEW topic \in concept, IInv, WriteTopic(topic)
  PROVE  HumanTextStep
PROOF
  <1>1. node \in Node
    BY DEF IInv, TypeOK
  <1>2. ingesting /\ upsert_entity_tx(normalized_entity(topic))
    BY DEF WriteTopic
  <1>3. node'.description = topic.definition /\ node'.aliases = topic.aliases
    BY <1>1, <1>2 DEF upsert_entity_tx, IsTopic, normalized_entity, Node
  <1> QED BY <1>2, <1>3 DEF HumanTextStep

LEMMA SavedTextStep ==
  ASSUME IInv, NEW entity \in job,
         save_profile_review_keep(entity) \/ save_profile_revision(entity)
  PROVE  HumanTextStep
  BY DEF IInv, JobIsCandidate, HumanTextStep

LEMMA ReviewedTextStep ==
  ASSUME IInv, NEW aliases \in edit, review_description(aliases)
  PROVE  HumanTextStep
PROOF
  <1>1. node \in Node
    BY DEF IInv, TypeOK
  <1>2. node'.description \in {"human", node.description}
    BY <1>1 DEF review_description, Node
  <1> QED BY <1>2 DEF HumanTextStep

LEMMA CorrectedTextStep ==
  ASSUME IInv, NEW read \in correction, NEW alias \in Name,
         _add_alias_tx(read, alias) \/ _remove_alias_tx(read, alias)
  PROVE  HumanTextStep
PROOF
  <1>1. node \in Node /\ read \in Node /\ ~IsTopic
    BY DEF IInv, TypeOK, TopicsAreNotCorrected
  <1>2. CASE _add_alias_tx(read, alias)
    <2>1. PICK names, hash :
            Correct(_merge_node_properties(read, names \cup {alias}, hash))
      BY <1>2 DEF _add_alias_tx
    <2>2. _merge_node_properties(read, names \cup {alias}, hash).description = read.description
      BY <1>1 DEF _merge_node_properties, Node
    <2>3. node'.description \in {read.description, node.description}
      BY <2>1, <2>2 DEF Correct
    <2> QED BY <1>1, <2>3 DEF HumanTextStep
  <1>3. CASE _remove_alias_tx(read, alias)
    <2>1. node'.description = node.description
      BY <1>1, <1>3 DEF _remove_alias_tx, Correct, Node
    <2> QED BY <2>1 DEF HumanTextStep
  <1> QED BY <1>2, <1>3

LEMMA OtherTextSteps ==
  ASSUME node' = node \/ Clear
  PROVE  HumanTextStep
PROOF
  <1>1. CASE node' = node
    BY <1>1 DEF HumanTextStep
  <1>2. CASE Clear
    <2>1. node'.stored = FALSE
      BY <1>2 DEF Clear, Absent
    <2> QED BY <2>1 DEF HumanTextStep
  <1> QED BY <1>1, <1>2

(* A reviewer's text is lost only to an actor that acts on what it read    *)
(* before, or to a name the resolver took for a new one; that of a topic   *)
(* also to upsert_entity_tx, which has read nothing, and only to what the  *)
(* ontology of the process says of it.                                     *)
THEOREM HumanProfilesAreLostForCause == Spec => HumanProfileLostForCause
PROOF
  <1>1. IInv /\ [Next]_vars => [HumanTextStep]_vars
    <2> SUFFICES ASSUME IInv, Next
                 PROVE  HumanTextStep
      OBVIOUS
    <2>1. CASE \E name \in Name, text \in Text \cup {""} : WriteArticle(name, text)
      BY <2>1, ArticleTextStep
    <2>2. CASE \E entity \in job :
                 save_profile_review_keep(entity) \/ save_profile_revision(entity)
      BY <2>2, SavedTextStep
    <2>3. CASE \E aliases \in edit : review_description(aliases)
      BY <2>3, ReviewedTextStep
    <2>4. CASE \E read \in correction, alias \in Name :
                 _add_alias_tx(read, alias) \/ _remove_alias_tx(read, alias)
      BY <2>4, CorrectedTextStep
    <2>5. CASE \/ StartIngest \/ EndIngest \/ LoadCandidate \/ EndCuration
               \/ description_review_input \/ ReadForCorrection \/ FailRequest \/ Restart
      <3>1. node' = node
        BY <2>5 DEF StartIngest, EndIngest, LoadCandidate, EndCuration, FailRequest,
                    description_review_input, ReadForCorrection, Restart
      <3> QED BY <3>1, OtherTextSteps
    <2>6. CASE Clear
      BY <2>6, OtherTextSteps
    <2>7. CASE \E topic \in concept : WriteTopic(topic)
      BY <2>7, TopicTextStep
    <2> QED BY <2>1, <2>2, <2>3, <2>4, <2>5, <2>6, <2>7 DEF Next
  <1> HIDE DEF HumanTextStep
  <1>2. Spec => [][HumanTextStep]_vars
    BY <1>1, EmbeddingInvariant, PTL DEF Spec
  <1> QED BY <1>2 DEF HumanProfileLostForCause, HumanTextStep
=============================================================================
