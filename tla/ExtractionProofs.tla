-------------------------- MODULE ExtractionProofs --------------------------
(***************************************************************************)
(* Proofs about Extraction, for any answers, names, keys and topics.       *)
(*                                                                         *)
(* The invariant says of each stage what the one before it made of the     *)
(* answers: typed, then gated, and, when it comes to the write, that the   *)
(* entities have exactly the keys that StoredAreBacked names.  For that,   *)
(* two ways to add the end of a relationship (Recoveries, Completed) must   *)
(* agree with what the gates leave of relationships and topics.            *)
(***************************************************************************)
EXTENDS Extraction, TLAPS

(* Gleaning adds no row of a name that the first answer has. *)
FirstIsKept ==
  /\ first.entities \subseteq raw.entities /\ first.relationships \subseteq raw.relationships
  /\ \A row \in raw.entities : row.name \in Names(first) => row \in first.entities

Backed ==
  {KeyOf(e.type, e.name) : e \in {f \in Admitted(TypedEntities(raw)) : f.type # "Topic"}}
    \cup {KeyOf(end[1], end[2]) :
       end \in {f \in Supported(TypedRelationships(raw)) : f[1] # "Topic"}}
    \cup {KeyOf("Topic", Concept[rel.target]) :
       rel \in {q \in Admitted(TypedRelationships(raw)) :
                  q.type = "HAS_TOPIC" /\ Concept[q.target] # NoConcept}}

Topical == Canonical(Admitted(TypedRelationships(raw)))

Gated(kept) == OtherThanTopics(Admitted(TypedRelationships(raw))) \cup kept

(* The entities that leave the gates, besides the kept topics.             *)
Others ==
  {e \in Admitted(TypedEntities(raw)) \cup {Restored(end) : end \in Supported(TypedRelationships(raw))} :
     e.type # "Topic"}

PassesLeft ==
  /\ stage = "ask" => pass = 0
  /\ stage = "glean" => pass < Passes

AtGates ==
  stage = "gates" =>
    /\ relationships = TypedRelationships(raw)
    /\ {e \in Admitted(entities) : e.type # "Topic"} = Others

AtComplete ==
  stage = "complete" =>
    \E kept \in Unique(Topical) :
      relationships = Gated(kept) /\ entities = Others \cup TopicsOf(kept)

AtWrite ==
  stage = "write" =>
    /\ \E kept \in Unique(Topical) : relationships = Gated(kept)
    /\ Admitted(entities) = entities
    /\ Keyed(Keys(entities)) = Keyed(Backed)
    /\ \A rel \in relationships :
         Keyed({KeyOf(end[1], end[2]) : end \in Ends(rel)}) \subseteq Keyed(Keys(entities))

IInv ==
  /\ TypeOK
  /\ FirstIsKept /\ PassesLeft
  /\ AtGates /\ AtComplete /\ AtWrite
  /\ ClaimsAreFacts /\ FactsAreClaimed /\ StoredAreBacked /\ TopicsAreKnown

-----------------------------------------------------------------------------
(* Topics are the targets of HAS_TOPIC, and nothing else.                  *)
LEMMA TopicEnds ==
  ASSUME NEW rel \in Relation, ValidSignature(rel)
  PROVE  rel.source_type # "Topic" /\ (rel.target_type = "Topic" <=> rel.type = "HAS_TOPIC")
PROOF
  <1>1. rel.type \in {"INVESTED_IN", "ACQUIRED", "MERGED_WITH", "FOUNDED_BY", "EMPLOYED_BY",
                      "PARTNERED_WITH", "HAS_TOPIC"}
    BY DEF Relation, Relationship, SourceTypes
  <1> QED BY <1>1 DEF ValidSignature, SourceTypes, TargetTypes, Organization

LEMMA EndTypesAreTypes ==
  ASSUME NEW rows \in Raw, NEW name, NEW allowed \in SUBSET Type
  PROVE  EndTypes(rows, name, allowed) \subseteq Type
PROOF
  <1>1. \A row \in rows.entities : row.type \in Type
    BY RowAssumption DEF Raw
  <1> QED BY <1>1 DEF EndTypes, AcceptedTypes, DeclaredTypes

(* What has been typed has a signature.                                    *)
LEMMA TypedAreRelations ==
  ASSUME NEW rows \in Raw, NEW rel \in TypedRelationships(rows)
  PROVE  rel \in Relation /\ ValidSignature(rel)
PROOF
  <1>1. PICK r \in rows.relationships : \E signature \in Signatures(rows, r) : rel = Typed(r, signature)
    BY DEF TypedRelationships
  <1>2. PICK signature \in Signatures(rows, r) : rel = Typed(r, signature)
    BY <1>1
  <1>3. /\ r.source \in Name /\ r.target \in Name /\ r.type \in Relationship
        /\ r.admitted \in BOOLEAN
    BY RowAssumption DEF Raw
  <1>4. SourceTypes[r.type] \subseteq Type /\ TargetTypes[r.type] \subseteq Type
    BY <1>3 DEF Relationship, SourceTypes, TargetTypes, Organization, Type
  <1>5. signature[1] \in SourceTypes[r.type] /\ signature[2] \in TargetTypes[r.type]
    BY <1>2 DEF Signatures
  <1> QED BY <1>2, <1>3, <1>4, <1>5 DEF Typed, Relation, ValidSignature

LEMMA TypedAreEntities ==
  ASSUME NEW rows \in Raw
  PROVE  TypedEntities(rows) \subseteq Entity
PROOF
  <1>1. \A row \in rows.entities : row.type \in Type /\ row.name \in Name /\ row.admitted \in BOOLEAN
    BY RowAssumption DEF Raw
  <1> QED BY <1>1 DEF TypedEntities, Entity

(* The ends of relationships are types and names.                          *)
LEMMA EndsAreNamed ==
  ASSUME NEW rels, rels \subseteq Relation, NEW end \in Supported(rels)
  PROVE  end \in Type \X Name
PROOF
  <1> QED BY DEF Supported, Ends, Relation

LEMMA RestoredAreEntities ==
  ASSUME NEW end \in Type \X Name
  PROVE  Restored(end) \in Entity
PROOF
  <1> QED BY DEF Restored, Entity

(* A kept topic relationship is one of the typed ones under its concept's  *)
(* name.                                                                   *)
LEMMA KeptAreTopical ==
  ASSUME TypeOK, NEW kept \in Unique(Topical), NEW rel \in kept
  PROVE  /\ rel \in Relation /\ ValidSignature(rel) /\ rel.type = "HAS_TOPIC"
         /\ rel.target_type = "Topic" /\ rel.admitted
         /\ Concept[rel.target] = rel.target /\ rel.target # NoConcept
         /\ \E q \in Admitted(TypedRelationships(raw)) :
              /\ q.type = "HAS_TOPIC" /\ Concept[q.target] # NoConcept
              /\ rel = Retargeted(q, Concept[q.target])
PROOF
  <1>1. rel \in Topical
    BY DEF Unique
  <1>2. PICK q \in Admitted(TypedRelationships(raw)) :
          /\ q.type = "HAS_TOPIC" /\ Concept[q.target] # NoConcept
          /\ rel = Retargeted(q, Concept[q.target])
    BY <1>1 DEF Topical, Canonical
  <1>3. q \in Relation /\ ValidSignature(q) /\ q.admitted
    BY <1>2, TypedAreRelations DEF Admitted, TypeOK
  <1>4. q.target_type = "Topic"
    BY <1>2, <1>3, TopicEnds
  <1>5. Concept[q.target] \in Name /\ Concept[Concept[q.target]] = Concept[q.target]
    BY <1>2, <1>3, ConceptAssumption DEF Relation
  <1>6. rel \in Relation /\ rel.target = Concept[q.target] /\ rel.type = q.type
        /\ rel.source_type = q.source_type /\ rel.target_type = q.target_type
        /\ rel.admitted = q.admitted
    BY <1>2, <1>3, <1>5 DEF Relation, Retargeted
  <1> QED BY <1>2, <1>3, <1>4, <1>5, <1>6, ConceptAssumption DEF ValidSignature

LEMMA GatedAreRelations ==
  ASSUME TypeOK, NEW kept \in Unique(Topical), NEW rel \in Gated(kept)
  PROVE  rel \in Relation /\ ValidSignature(rel) /\ rel.admitted
PROOF
  <1>1. CASE rel \in kept
    BY <1>1, KeptAreTopical
  <1>2. CASE rel \in OtherThanTopics(Admitted(TypedRelationships(raw)))
    BY <1>2, TypedAreRelations DEF OtherThanTopics, Admitted, TypeOK
  <1> QED BY <1>1, <1>2 DEF Gated

-----------------------------------------------------------------------------
LEMMA InitInvariant == Init => IInv
PROOF
  <1> SUFFICES ASSUME Init
               PROVE  IInv
    OBVIOUS
  <1>1. Nothing \in Raw
    BY DEF Nothing, Raw
  <1>2. TypeOK
    BY <1>1, PassesAssumption DEF Init, TypeOK
  <1> QED BY <1>2 DEF Init, IInv, FirstIsKept, PassesLeft, AtGates, AtComplete, AtWrite, ClaimsAreFacts,
                      FactsAreClaimed, StoredAreBacked, TopicsAreKnown, Nothing

(* Before the conversion nothing is said of entities and relationships.    *)
LEMMA AnswerStep ==
  ASSUME IInv, NEW rows \in Answers, Answer(rows)
  PROVE  IInv'
PROOF
  <1>1. rows \in Raw
    BY DEF Answers
  <1>2. TypeOK'
    BY <1>1 DEF Answer, IInv, TypeOK
  <1>3. FirstIsKept'
    BY DEF Answer, FirstIsKept, Names
  <1>4. stage' \in {"convert", "glean"} /\ PassesLeft'
    BY PassesAssumption DEF Answer, IInv, PassesLeft
  <1> QED BY <1>2, <1>3, <1>4 DEF IInv, AtGates, AtComplete, AtWrite, ClaimsAreFacts,
                                  FactsAreClaimed, StoredAreBacked, TopicsAreKnown

LEMMA GleanStep ==
  ASSUME IInv, NEW extra \in Answers, Glean(extra)
  PROVE  IInv'
PROOF
  <1>1. PICK es \in NewEntities(extra) :
          \E rs \in NewRelationships(extra, Names(raw) \cup {row.name : row \in es}) :
            raw' = [entities |-> raw.entities \cup es, relationships |-> raw.relationships \cup rs]
    BY DEF Glean
  <1>2. PICK rs \in NewRelationships(extra, Names(raw) \cup {row.name : row \in es}) :
          raw' = [entities |-> raw.entities \cup es, relationships |-> raw.relationships \cup rs]
    BY <1>1
  <1>3. es \subseteq extra.entities /\ \A row \in es : row.name \notin Names(raw)
    BY DEF NewEntities
  <1>4. rs \subseteq extra.relationships
    BY <1>2 DEF NewRelationships
  <1>5. raw' \in Raw
    BY <1>2, <1>3, <1>4 DEF Answers, Raw, IInv, TypeOK
  <1>6. stage' \in {"convert", "glean"} /\ pass' \in 0..Passes /\ PassesLeft'
    BY PassesAssumption DEF Glean, IInv, TypeOK, PassesLeft
  <1>7. TypeOK'
    BY <1>5, <1>6 DEF Glean, IInv, TypeOK
  <1>8. FirstIsKept'
    <2>1. first' = first /\ Names(first)' = Names(first)
      BY DEF Glean, Names
    <2>2. Names(first) \subseteq Names(raw)
      BY DEF IInv, FirstIsKept, Names
    <2>3. raw'.entities = raw.entities \cup es /\ raw'.relationships = raw.relationships \cup rs
      BY <1>2
    <2> QED BY <1>3, <2>1, <2>2, <2>3 DEF IInv, FirstIsKept
  <1> QED BY <1>6, <1>7, <1>8 DEF IInv, AtGates, AtComplete, AtWrite, ClaimsAreFacts,
                                  FactsAreClaimed, StoredAreBacked, TopicsAreKnown

LEMMA ConvertStep ==
  ASSUME IInv, Convert
  PROVE  IInv'
PROOF
  <1>1. /\ raw' = raw /\ first' = first /\ stage' = "gates"
        /\ relationships' = TypedRelationships(raw)
        /\ entities' \in Recoveries(TypedEntities(raw), TypedRelationships(raw))
    BY DEF Convert
  <1>2. relationships' \subseteq Relation /\ \A rel \in relationships' : ValidSignature(rel)
    BY <1>1, TypedAreRelations DEF IInv, TypeOK
  <1>3. entities' \subseteq Entity
    <2>1. Supported(TypedRelationships(raw)) \subseteq Type \X Name
      BY <1>1, <1>2, EndsAreNamed
    <2>2. TypedEntities(raw) \subseteq Entity
      BY TypedAreEntities DEF IInv, TypeOK
    <2>3. \A end \in Supported(TypedRelationships(raw)) : Restored(end) \in Entity
      BY <2>1, RestoredAreEntities
    <2> QED BY <1>1, <2>2, <2>3 DEF Recoveries
  <1>4. TypeOK'
    BY <1>1, <1>2, <1>3 DEF Convert, IInv, TypeOK
  <1>5. FirstIsKept' /\ PassesLeft'
    BY <1>1 DEF IInv, FirstIsKept, Names, PassesLeft
  <1>6. AtGates'
    <2>1. ASSUME NEW end
          PROVE  Restored(end).type = end[1] /\ Restored(end).admitted
      BY DEF Restored
    <2>2. {e \in Admitted(entities') : e.type # "Topic"} = Others
      <3> DEFINE ends == {end \in Supported(TypedRelationships(raw)) : end[1] # "Topic"}
                 recovered == {Restored(end) : end \in ends}
      <3>1. PICK replaced \in SUBSET {e \in TypedEntities(raw) : ~e.admitted} :
              entities' = (TypedEntities(raw) \ replaced) \cup recovered
        BY <1>1 DEF Recoveries
      <3>2. \A e \in recovered : e.admitted /\ e.type # "Topic"
        BY <2>1
      <3>3. Others = {e \in Admitted(TypedEntities(raw)) : e.type # "Topic"} \cup recovered
        BY <2>1 DEF Others
      <3> HIDE DEF recovered
      <3> QED BY <3>1, <3>2, <3>3 DEF Admitted
    <2>3. Others' = Others /\ TypedRelationships(raw)' = TypedRelationships(raw)
      BY <1>1 DEF Others
    <2>4. ({e \in Admitted(entities) : e.type # "Topic"})' = {e \in Admitted(entities') : e.type # "Topic"}
      BY DEF Admitted
    <2> QED BY <1>1, <2>2, <2>3, <2>4 DEF AtGates
  <1> QED BY <1>1, <1>4, <1>5, <1>6 DEF IInv, AtComplete, AtWrite, ClaimsAreFacts,
                                       FactsAreClaimed, StoredAreBacked, TopicsAreKnown

LEMMA GatesStep ==
  ASSUME IInv, Gates
  PROVE  IInv'
PROOF
  <1>1. /\ relationships = TypedRelationships(raw)
        /\ {e \in Admitted(entities) : e.type # "Topic"} = Others
    BY DEF Gates, IInv, AtGates
  <1>2. PICK kept \in Unique(Topical) :
          relationships' = Gated(kept) /\ entities' = Others \cup TopicsOf(kept)
    BY <1>1 DEF Gates, Topical, Gated
  <1>3. raw' = raw /\ first' = first /\ stage' = "complete"
    BY DEF Gates
  <1>4. relationships' \subseteq Relation /\ \A rel \in relationships' : ValidSignature(rel)
    BY <1>2, GatedAreRelations DEF IInv
  <1>5. entities' \subseteq Entity
    <2>1. Others \subseteq entities
      BY <1>1 DEF Admitted
    <2>2. TopicsOf(kept) \subseteq Entity
      <3>1. \A rel \in kept : rel.target \in Name
        BY KeptAreTopical DEF IInv, Relation
      <3>2. \A rel \in kept : <<"Topic", rel.target>> \in Type \X Name
        BY <3>1 DEF Type
      <3>3. \A rel \in kept : Restored(<<"Topic", rel.target>>) \in Entity
        BY <3>2, RestoredAreEntities
      <3> QED BY <3>3 DEF TopicsOf
    <2> QED BY <1>2, <2>1, <2>2 DEF IInv, TypeOK
  <1>6. TypeOK'
    BY <1>3, <1>4, <1>5 DEF Gates, IInv, TypeOK
  <1>7. FirstIsKept' /\ PassesLeft'
    BY <1>3 DEF IInv, FirstIsKept, Names, PassesLeft
  <1>8. AtComplete'
    <2>1. Topical' = Topical /\ Gated(kept)' = Gated(kept) /\ Others' = Others
      BY <1>3 DEF Topical, Gated, Others
    <2>2. Unique(Topical)' = Unique(Topical)
      BY <2>1 DEF Unique
    <2> QED BY <1>2, <2>1, <2>2 DEF AtComplete
  <1> QED BY <1>3, <1>6, <1>7, <1>8 DEF IInv, AtGates, AtWrite, ClaimsAreFacts,
                                       FactsAreClaimed, StoredAreBacked, TopicsAreKnown

-----------------------------------------------------------------------------
(* What an entity, or an end that needs one, is looked up by is backed.    *)
LEMMA OthersAreBacked ==
  ASSUME NEW e \in Others
  PROVE  KeyOf(e.type, e.name) \in Backed
PROOF
  <1>1. CASE e \in Admitted(TypedEntities(raw))
    BY <1>1 DEF Others, Backed
  <1>2. CASE \E end \in Supported(TypedRelationships(raw)) : end[1] # "Topic" /\ e = Restored(end)
    BY <1>2 DEF Restored, Backed
  <1> QED BY <1>1, <1>2 DEF Others, Restored

LEMMA EndsAreBacked ==
  ASSUME TypeOK, NEW kept \in Unique(Topical), NEW rel \in Gated(kept), NEW end \in Ends(rel)
  PROVE  KeyOf(end[1], end[2]) \in Backed
PROOF
  <1>1. CASE rel \in OtherThanTopics(Admitted(TypedRelationships(raw)))
    <2>1. rel \in Admitted(TypedRelationships(raw)) /\ rel.type # "HAS_TOPIC"
      BY <1>1 DEF OtherThanTopics
    <2>2. rel.source_type # "Topic" /\ rel.target_type # "Topic"
      BY <2>1, TypedAreRelations, TopicEnds DEF Admitted, TypeOK
    <2>3. end[1] # "Topic"
      BY <2>2 DEF Ends
    <2>4. end \in Supported(TypedRelationships(raw))
      BY <2>1 DEF Supported, Admitted
    <2> QED BY <2>3, <2>4 DEF Backed
  <1>2. CASE rel \in kept
    <2>1. PICK q \in Admitted(TypedRelationships(raw)) :
            /\ q.type = "HAS_TOPIC" /\ Concept[q.target] # NoConcept
            /\ rel = Retargeted(q, Concept[q.target])
      BY <1>2, KeptAreTopical
    <2>2. rel.target_type = "Topic"
      BY <1>2, KeptAreTopical
    <2>3. CASE end = <<rel.target_type, rel.target>>
      <3>1. KeyOf(end[1], end[2]) = KeyOf("Topic", Concept[q.target])
        BY <2>1, <2>2, <2>3 DEF Retargeted
      <3> QED BY <2>1, <3>1 DEF Backed
    <2>4. CASE end = <<rel.source_type, rel.source>>
      <3>1. end = <<q.source_type, q.source>>
        BY <2>1, <2>4 DEF Retargeted
      <3>2. end \in Supported(TypedRelationships(raw))
        BY <2>1, <3>1 DEF Supported, Admitted, Ends
      <3>3. end[1] # "Topic"
        BY <2>1, <3>1, TypedAreRelations, TopicEnds DEF Admitted, TypeOK
      <3> QED BY <3>2, <3>3 DEF Backed
    <2> QED BY <2>3, <2>4 DEF Ends
  <1> QED BY <1>1, <1>2 DEF Gated

(* And what is backed has an entity once the topics are restored.          *)
LEMMA BackedAreEntities ==
  ASSUME TypeOK, NEW kept \in Unique(Topical)
  PROVE  Backed \subseteq Keys(Others \cup TopicsOf(kept))
PROOF
  <1> SUFFICES ASSUME NEW k \in Backed
               PROVE  k \in Keys(Others \cup TopicsOf(kept))
    OBVIOUS
  <1>1. CASE \E e \in Admitted(TypedEntities(raw)) : e.type # "Topic" /\ k = KeyOf(e.type, e.name)
    BY <1>1 DEF Others, Keys
  <1>2. CASE \E end \in Supported(TypedRelationships(raw)) :
               end[1] # "Topic" /\ k = KeyOf(end[1], end[2])
    <2>1. PICK end \in Supported(TypedRelationships(raw)) :
            end[1] # "Topic" /\ k = KeyOf(end[1], end[2])
      BY <1>2
    <2>2. Restored(end).type = end[1] /\ Restored(end).name = end[2] /\ Restored(end).admitted
      BY DEF Restored
    <2>3. Restored(end) \in Others
      BY <2>1, <2>2 DEF Others
    <2> QED BY <2>1, <2>2, <2>3 DEF Keys
  <1>3. CASE \E q \in Admitted(TypedRelationships(raw)) :
               /\ q.type = "HAS_TOPIC" /\ Concept[q.target] # NoConcept
               /\ k = KeyOf("Topic", Concept[q.target])
    <2>1. PICK q \in Admitted(TypedRelationships(raw)) :
            /\ q.type = "HAS_TOPIC" /\ Concept[q.target] # NoConcept
            /\ k = KeyOf("Topic", Concept[q.target])
      BY <1>3
    <2>2. Retargeted(q, Concept[q.target]) \in Topical
      BY <2>1 DEF Topical, Canonical
    <2>3. PICK chosen \in kept : Alike(chosen, Retargeted(q, Concept[q.target]))
      BY <2>2 DEF Unique
    <2>4. chosen.target = Concept[q.target]
      BY <2>3 DEF Alike, Retargeted
    <2>5. Restored(<<"Topic", chosen.target>>) \in TopicsOf(kept)
      BY DEF TopicsOf
    <2>6. /\ Restored(<<"Topic", chosen.target>>).type = "Topic"
          /\ Restored(<<"Topic", chosen.target>>).name = chosen.target
      BY DEF Restored
    <2> QED BY <2>1, <2>4, <2>5, <2>6 DEF Keys
  <1> QED BY <1>1, <1>2, <1>3 DEF Backed

LEMMA CompleteStep ==
  ASSUME IInv, Complete
  PROVE  IInv'
PROOF
  <1> DEFINE Needed == {KeyOf(end[1], end[2]) : end \in Supported(relationships)}
  <1>1. PICK kept \in Unique(Topical) :
          relationships = Gated(kept) /\ entities = Others \cup TopicsOf(kept)
    BY DEF Complete, IInv, AtComplete
  <1>2. PICK more \in Completed(entities) : entities' = entities \cup more
    BY DEF Complete
  <1>3. /\ raw' = raw /\ first' = first /\ relationships' = relationships
    BY DEF Complete
  <1>4. \A e \in more : \E end \in Supported(relationships) : e = Restored(end)
    BY <1>2 DEF Completed
  <1>5. \A rel \in relationships : rel \in Relation /\ ValidSignature(rel) /\ rel.admitted
    BY <1>1, GatedAreRelations DEF IInv
  <1>6. Keys(more) = Keyed(Needed) \ Keys(entities)
    BY <1>2 DEF Completed
  <1>7. stage' = "write"
    <2>1. ASSUME NEW e \in entities, e.type = "Topic"
          PROVE  Concept[e.name] # NoConcept
      <3>1. PICK rel \in kept : e = Restored(<<"Topic", rel.target>>)
        BY <1>1, <2>1 DEF Others, TopicsOf
      <3>2. e.name = rel.target
        BY <3>1 DEF Restored
      <3> QED BY <3>2, KeptAreTopical DEF IInv
    <2>2. ASSUME NEW e \in more, e.type = "Topic"
          PROVE  Concept[e.name] # NoConcept
      <3>1. PICK rel \in relationships : \E end \in Ends(rel) : e = Restored(end)
        BY <1>4 DEF Supported
      <3>2. PICK end \in Ends(rel) : e = Restored(end)
        BY <3>1
      <3>3. end[1] = "Topic" /\ end[2] = e.name
        BY <2>2, <3>2 DEF Restored
      <3>4. rel.source_type # "Topic" /\ (rel.target_type = "Topic" <=> rel.type = "HAS_TOPIC")
        BY <1>5, TopicEnds
      <3>5. rel.type = "HAS_TOPIC" /\ e.name = rel.target
        BY <3>3, <3>4 DEF Ends
      <3>6. rel \in kept
        BY <1>1, <3>5 DEF Gated, OtherThanTopics
      <3> QED BY <3>5, <3>6, KeptAreTopical DEF IInv
    <2> QED BY <1>2, <2>1, <2>2 DEF Complete
  <1>8. TypeOK'
    <2>1. Supported(relationships) \subseteq Type \X Name
      BY EndsAreNamed DEF IInv, TypeOK
    <2>2. \A end \in Supported(relationships) : Restored(end) \in Entity
      BY <2>1, RestoredAreEntities
    <2>3. entities' \subseteq Entity
      BY <1>2, <1>4, <2>2 DEF IInv, TypeOK
    <2> QED BY <1>3, <1>7, <2>3 DEF Complete, IInv, TypeOK
  <1>9. Admitted(entities') = entities'
    <2>1. \A e \in Others : e.admitted
      BY DEF Others, Admitted, Restored
    <2>2. \A e \in TopicsOf(kept) : e.admitted
      BY DEF TopicsOf, Restored
    <2>3. \A e \in more : e.admitted
      BY <1>4 DEF Restored
    <2> QED BY <1>1, <1>2, <2>1, <2>2, <2>3 DEF Admitted
  <1>10. Keys(entities') = Keys(entities) \cup Keys(more)
    BY <1>2 DEF Keys
  <1>11. Needed \subseteq Backed
    BY <1>1, EndsAreBacked DEF Supported, IInv
  <1>12. Keys(entities) \subseteq Backed
    <2>1. \A e \in Others : KeyOf(e.type, e.name) \in Backed
      BY OthersAreBacked
    <2>2. ASSUME NEW e \in TopicsOf(kept)
          PROVE  KeyOf(e.type, e.name) \in Backed
      <3>1. PICK rel \in kept : e = Restored(<<"Topic", rel.target>>)
        BY DEF TopicsOf
      <3>2. e.type = "Topic" /\ e.name = rel.target
        BY <3>1 DEF Restored
      <3>3. rel.target_type = "Topic"
        BY KeptAreTopical DEF IInv
      <3>4. <<rel.target_type, rel.target>> \in Ends(rel) /\ rel \in Gated(kept)
        BY DEF Ends, Gated
      <3>5. KeyOf(rel.target_type, rel.target) \in Backed
        BY <3>4, EndsAreBacked DEF IInv
      <3> QED BY <3>2, <3>3, <3>5
    <2> QED BY <1>1, <2>1, <2>2 DEF Keys
  <1>13. Keyed(Keys(entities')) = Keyed(Backed)
    <2>1. Backed \subseteq Keys(entities)
      BY <1>1, BackedAreEntities DEF IInv
    <2> QED BY <1>6, <1>10, <1>11, <1>12, <2>1 DEF Keyed
  <1>14. ASSUME NEW rel \in relationships
         PROVE  Keyed({KeyOf(end[1], end[2]) : end \in Ends(rel)}) \subseteq Keyed(Keys(entities'))
    <2>1. Ends(rel) \subseteq Supported(relationships)
      BY <1>5 DEF Supported
    <2>2. {KeyOf(end[1], end[2]) : end \in Ends(rel)} \subseteq Needed
      BY <2>1
    <2> QED BY <1>6, <1>10, <2>2 DEF Keyed
  <1>15. AtWrite'
    <2>1. Topical' = Topical /\ Gated(kept)' = Gated(kept) /\ Backed' = Backed
      BY <1>3 DEF Topical, Gated, Backed
    <2>2. Unique(Topical)' = Unique(Topical)
      BY <2>1 DEF Unique
    <2>3. (\E k \in Unique(Topical) : relationships = Gated(k))'
      BY <1>1, <1>3, <2>1, <2>2
    <2>4. Keyed(Keys(entities))' = Keyed(Keys(entities')) /\ Keyed(Backed)' = Keyed(Backed)
      BY <2>1 DEF Keyed, Keys
    <2>5. (Admitted(entities) = entities)'
      BY <1>9
    <2> QED BY <1>3, <1>13, <1>14, <2>3, <2>4, <2>5 DEF AtWrite
  <1>16. FirstIsKept' /\ PassesLeft'
    BY <1>3, <1>7 DEF IInv, FirstIsKept, Names, PassesLeft
  <1> QED BY <1>7, <1>8, <1>15, <1>16 DEF IInv, AtGates, AtComplete, ClaimsAreFacts,
                                         FactsAreClaimed, StoredAreBacked, TopicsAreKnown

-----------------------------------------------------------------------------
(* The write of what has passed the gates: claims and facts are the same.  *)
LEMMA WriteStep ==
  ASSUME IInv, Write
  PROVE  IInv'
PROOF
  <1> DEFINE mapped == Keyed(Keys(entities))
  <1>1. PICK kept \in Unique(Topical) : relationships = Gated(kept)
    BY DEF Write, IInv, AtWrite
  <1>2. /\ Admitted(entities) = entities
        /\ mapped = Keyed(Backed)
        /\ \A rel \in relationships :
             Keyed({KeyOf(end[1], end[2]) : end \in Ends(rel)}) \subseteq mapped
    BY DEF Write, IInv, AtWrite
  <1>3. /\ raw' = raw /\ first' = first /\ relationships' = relationships
        /\ entities' = entities /\ pass' = pass /\ stage' = "written" /\ stored' = mapped
    BY <1>2 DEF Write
  <1>4. \A rel \in relationships : rel \in Relation /\ ValidSignature(rel) /\ rel.admitted
    BY <1>1, GatedAreRelations DEF IInv
  <1>5. claims' = {ClaimOf(rel) : rel \in {q \in relationships :
                     /\ {ClaimOf(q).source, ClaimOf(q).target} \subseteq mapped
                     /\ ClaimOf(q).source # ClaimOf(q).target}}
    <2>1. Admitted(relationships) = relationships
      BY <1>4 DEF Admitted
    <2> QED BY <2>1 DEF Write, ClaimOf
  <1> HIDE DEF mapped
  <1>6. ASSUME NEW rel \in relationships, HasKeys(rel), ClaimOf(rel).source # ClaimOf(rel).target
        PROVE  ClaimOf(rel) \in claims'
    <2>1. /\ ClaimOf(rel).source = KeyOf(rel.source_type, rel.source)
          /\ ClaimOf(rel).target = KeyOf(rel.target_type, rel.target)
      BY DEF ClaimOf
    <2>2. {ClaimOf(rel).source, ClaimOf(rel).target}
            \subseteq {KeyOf(end[1], end[2]) : end \in Ends(rel)}
      BY <2>1 DEF Ends
    <2>3. {ClaimOf(rel).source, ClaimOf(rel).target} \subseteq mapped
      BY <1>2, <1>6, <2>2 DEF Keyed, HasKeys
    <2> QED BY <1>5, <1>6, <2>3
  <1>7. ASSUME NEW rel \in relationships
        PROVE  rel \in {Named(q) : q \in {p \in Admitted(TypedRelationships(raw)) :
                                        p.type = "HAS_TOPIC" => Concept[p.target] # NoConcept}}
    <2>1. CASE rel \in kept
      BY <2>1, KeptAreTopical DEF IInv, Named
    <2>2. CASE rel \in OtherThanTopics(Admitted(TypedRelationships(raw)))
      BY <2>2 DEF OtherThanTopics, Named
    <2> QED BY <1>1, <2>1, <2>2 DEF Gated
  <1>8. ClaimsAreFacts'
    <2>1. \A k \in mapped : k[2] # ""
      BY DEF mapped, Keyed
    <2>2. ASSUME NEW claim \in claims'
          PROVE  claim \in {ClaimOf(rel) : rel \in Facts(raw)}
      <3>1. PICK rel \in relationships :
              /\ claim = ClaimOf(rel)
              /\ {ClaimOf(rel).source, ClaimOf(rel).target} \subseteq mapped
              /\ ClaimOf(rel).source # ClaimOf(rel).target
        BY <1>5, <2>2
      <3>2. HasKeys(rel)
        BY <2>1, <3>1 DEF HasKeys
      <3>3. rel \in Facts(raw)
        BY <1>7, <3>1, <3>2 DEF Facts
      <3> QED BY <3>1, <3>3
    <2>3. Facts(raw)' = Facts(raw)
      BY <1>3 DEF Facts
    <2> QED BY <2>2, <2>3 DEF ClaimsAreFacts
  <1>9. FactsAreClaimed'
    <2>1. ASSUME NEW rel \in Facts(raw)
          PROVE  \/ ClaimOf(rel) \in claims'
                 \/ rel.type = "HAS_TOPIC" /\ \E other \in relationships :
                      /\ other.type = "HAS_TOPIC" /\ Alike(other, rel)
                      /\ ClaimOf(other) \in claims' \/ ~HasKeys(other)
      <3>1. PICK p \in Admitted(TypedRelationships(raw)) :
              /\ p.type = "HAS_TOPIC" => Concept[p.target] # NoConcept
              /\ rel = Named(p)
        BY DEF Facts
      <3>2. HasKeys(rel) /\ ClaimOf(rel).source # ClaimOf(rel).target
        BY DEF Facts
      <3>3. CASE p.type # "HAS_TOPIC"
        <4>1. rel = p
          BY <3>1, <3>3 DEF Named
        <4>2. rel \in relationships
          BY <1>1, <3>3, <4>1 DEF Gated, OtherThanTopics
        <4> QED BY <1>6, <3>2, <4>2
      <3>4. CASE p.type = "HAS_TOPIC"
        <4>1. rel = Retargeted(p, Concept[p.target]) /\ rel.type = "HAS_TOPIC"
          BY <3>1, <3>4 DEF Named, Retargeted
        <4>2. rel \in Topical
          BY <3>1, <3>4, <4>1 DEF Topical, Canonical
        <4>3. PICK chosen \in kept : Alike(chosen, rel)
          BY <4>2 DEF Unique
        <4>4. chosen \in relationships /\ chosen.type = "HAS_TOPIC"
          BY <1>1, KeptAreTopical DEF Gated, IInv
        <4>5. chosen.source_type # "Topic" /\ chosen.target_type = "Topic"
          BY <1>4, <4>4, TopicEnds
        <4>6. ClaimOf(chosen).source # ClaimOf(chosen).target
          BY <4>5 DEF ClaimOf, KeyOf
        <4>7. ClaimOf(chosen) \in claims' \/ ~HasKeys(chosen)
          BY <1>6, <4>4, <4>6
        <4> QED BY <4>1, <4>3, <4>4, <4>7
      <3> QED BY <3>3, <3>4
    <2>2. Facts(raw)' = Facts(raw)
      BY <1>3 DEF Facts
    <2> QED BY <1>3, <2>1, <2>2 DEF FactsAreClaimed
  <1>10. StoredAreBacked'
    <2>1. stored' = Keyed(Backed)
      BY <1>2, <1>3
    <2>2. Keyed(Backed)' = Keyed(Backed)
      BY <1>3 DEF Keyed, Backed
    <2>3. (stored = Keyed(Backed))'
      BY <2>1, <2>2
    <2> QED BY <2>3 DEF StoredAreBacked, Backed
  <1>11. TypeOK'
    <2>1. Keys(entities) \subseteq Type \X (Name \cup {""})
      <3>1. ASSUME NEW type \in Type, NEW name \in Name
            PROVE  KeyOf(type, name) \in Type \X (Name \cup {""})
        BY KeyAssumption DEF KeyOf
      <3>2. \A e \in entities : e.type \in Type /\ e.name \in Name
        BY DEF Entity, IInv, TypeOK
      <3> QED BY <3>1, <3>2 DEF Keys
    <2>2. mapped \subseteq Type \X Name
      BY <2>1 DEF mapped, Keyed
    <2>3. ASSUME NEW claim \in claims'
          PROVE  claim \in [type : Relationship, source : Type \X Name, target : Type \X Name]
      <3>1. PICK rel \in relationships :
              /\ claim = ClaimOf(rel)
              /\ {ClaimOf(rel).source, ClaimOf(rel).target} \subseteq mapped
        BY <1>5, <2>3
      <3>2. claim = [type |-> rel.type, source |-> claim.source, target |-> claim.target]
        BY <3>1 DEF ClaimOf
      <3>3. rel.type \in Relationship
        BY <1>4 DEF Relation
      <3> QED BY <2>2, <3>1, <3>2, <3>3
    <2> QED BY <1>3, <2>2, <2>3 DEF IInv, TypeOK
  <1>12. FirstIsKept' /\ PassesLeft'
    BY <1>3 DEF IInv, FirstIsKept, Names, PassesLeft
  <1> QED BY <1>3, <1>8, <1>9, <1>10, <1>11, <1>12 DEF IInv, AtGates, AtComplete, AtWrite,
                                                       TopicsAreKnown

LEMMA NextArticleStep ==
  ASSUME IInv, NextArticle
  PROVE  IInv'
PROOF
  <1>1. Nothing \in Raw
    BY DEF Nothing, Raw
  <1>2. TypeOK'
    BY <1>1, PassesAssumption DEF NextArticle, TypeOK
  <1>3. FirstIsKept' /\ PassesLeft' /\ stage' = "ask"
    BY DEF NextArticle, FirstIsKept, PassesLeft, Names, Nothing
  <1> QED BY <1>2, <1>3 DEF IInv, AtGates, AtComplete, AtWrite, ClaimsAreFacts,
                            FactsAreClaimed, StoredAreBacked, TopicsAreKnown

LEMMA NextInvariant == IInv /\ [Next]_vars => IInv'
PROOF
  <1> SUFFICES ASSUME IInv, [Next]_vars
               PROVE  IInv'
    OBVIOUS
  <1>1. CASE \E rows \in Answers : Answer(rows) \/ Glean(rows)
    BY <1>1, AnswerStep, GleanStep
  <1>2. CASE Convert
    BY <1>2, ConvertStep
  <1>3. CASE Gates
    BY <1>3, GatesStep
  <1>4. CASE Complete
    BY <1>4, CompleteStep
  <1>5. CASE Write
    BY <1>5, WriteStep
  <1>6. CASE NextArticle
    BY <1>6, NextArticleStep
  <1>7. CASE UNCHANGED vars
    <2>1. /\ stage' = stage /\ pass' = pass /\ raw' = raw /\ first' = first
          /\ entities' = entities /\ relationships' = relationships
          /\ stored' = stored /\ claims' = claims
      BY <1>7 DEF vars
    <2>2. TypeOK' /\ FirstIsKept' /\ PassesLeft'
      BY <2>1 DEF IInv, TypeOK, FirstIsKept, PassesLeft, Names
    <2>3. AtGates' /\ ClaimsAreFacts' /\ FactsAreClaimed' /\ StoredAreBacked' /\ TopicsAreKnown'
      BY <2>1 DEF IInv, AtGates, Others, Admitted, ClaimsAreFacts, FactsAreClaimed, StoredAreBacked, TopicsAreKnown
    <2>4. AtComplete'
      BY <2>1 DEF IInv, AtComplete, Topical, Gated, Others
    <2>5. AtWrite'
      BY <2>1 DEF IInv, AtWrite, Topical, Gated, Backed
    <2> QED BY <2>2, <2>3, <2>4, <2>5 DEF IInv
  <1> QED BY <1>1, <1>2, <1>3, <1>4, <1>5, <1>6, <1>7 DEF Next

LEMMA Invariance == Spec => []IInv
PROOF
  <1> QED BY InitInvariant, NextInvariant, PTL DEF Spec

-----------------------------------------------------------------------------
(* Whatever is typed carries one of the signatures of its relationship.    *)
THEOREM TypeCorrect == Spec => []TypeOK
PROOF
  <1>1. IInv => TypeOK
    BY DEF IInv
  <1> QED BY <1>1, Invariance, PTL

(* Every claim that is written is a fact of the answers.                   *)
THEOREM ClaimsWritten == Spec => []ClaimsAreFacts
PROOF
  <1>1. IInv => ClaimsAreFacts
    BY DEF IInv
  <1> QED BY <1>1, Invariance, PTL

(* Every fact is written, but for a HAS_TOPIC that gives way to one like   *)
(* it.                                                                     *)
THEOREM FactsWritten == Spec => []FactsAreClaimed
PROOF
  <1>1. IInv => FactsAreClaimed
    BY DEF IInv
  <1> QED BY <1>1, Invariance, PTL

(* The entities written are those of rows that are not unsure, of          *)
(* relationships that need them, and no others.                            *)
THEOREM EntitiesWritten == Spec => []StoredAreBacked
PROOF
  <1>1. IInv => StoredAreBacked
    BY DEF IInv
  <1> QED BY <1>1, Invariance, PTL

(* The resolver is never handed a topic it does not know.                  *)
THEOREM TopicsKnown == Spec => []TopicsAreKnown
PROOF
  <1>1. IInv => TopicsAreKnown
    BY DEF IInv
  <1> QED BY <1>1, Invariance, PTL

(* The types of an end depend on the rows of its name only, and gleaning   *)
(* adds none to the names that the first answer has.                       *)
LEMMA FactsAreKept == TypeOK /\ FirstIsKept => GleaningKeepsFacts
PROOF
  <1> SUFFICES ASSUME TypeOK, FirstIsKept,
                      NEW r \in first.relationships, {r.source, r.target} \subseteq Names(first),
                      NEW rel \in TypedRelationships([entities |-> first.entities, relationships |-> {r}])
               PROVE  rel \in TypedRelationships(raw)
    BY DEF GleaningKeepsFacts
  <1> DEFINE alone == [entities |-> first.entities, relationships |-> {r}]
  <1>1. alone.entities = first.entities /\ alone.relationships = {r}
    OBVIOUS
  <1> HIDE DEF alone
  <1>2. ASSUME NEW name \in Names(first), NEW allowed
        PROVE  EndTypes(alone, name, allowed) = EndTypes(raw, name, allowed)
    <2>1. {e \in alone.entities : e.name = name} = {e \in raw.entities : e.name = name}
      BY <1>1 DEF FirstIsKept
    <2>2. DeclaredTypes(alone, name) = DeclaredTypes(raw, name)
      BY <2>1 DEF DeclaredTypes
    <2>3. {e \in alone.entities : e.name = name /\ Resolves(e.evidence_ref)}
            = {e \in raw.entities : e.name = name /\ Resolves(e.evidence_ref)}
      BY <2>1
    <2>4. AcceptedTypes(alone, name) = AcceptedTypes(raw, name)
      BY <2>3 DEF AcceptedTypes
    <2> QED BY <2>2, <2>4 DEF EndTypes
  <1>3. Signatures(alone, r) = Signatures(raw, r)
    BY <1>2 DEF Signatures
  <1>4. /\ Resolves(r.evidence_ref)
        /\ \E signature \in Signatures(alone, r) : Signatures(alone, r) = {signature}
        /\ rel \in {Typed(r, signature) : signature \in Signatures(alone, r)}
    BY <1>1 DEF TypedRelationships, alone
  <1>5. r \in raw.relationships
    BY DEF FirstIsKept
  <1>6. PICK signature \in Signatures(raw, r) : rel = Typed(r, signature)
    BY <1>3, <1>4
  <1>7. r \in {q \in raw.relationships :
                /\ Resolves(q.evidence_ref)
                /\ \E s \in Signatures(raw, q) : Signatures(raw, q) = {s}}
    BY <1>3, <1>4, <1>5
  <1>8. rel \in {Typed(r, s) : s \in Signatures(raw, r)}
    BY <1>6
  <1> QED BY <1>7, <1>8 DEF TypedRelationships

(* Gleaning takes back no fact between names of the first answer.          *)
THEOREM FirstFactsKept == Spec => []GleaningKeepsFacts
PROOF
  <1>1. IInv => GleaningKeepsFacts
    BY FactsAreKept DEF IInv
  <1> QED BY <1>1, Invariance, PTL
=============================================================================
