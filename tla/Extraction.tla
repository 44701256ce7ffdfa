----------------------------- MODULE Extraction -----------------------------
(***************************************************************************)
(* What becomes of the answers about one article on their way to the       *)
(* graph: gleaning adds rows to the first answer, rows become typed        *)
(* entities and relationships if their evidence is in the article,         *)
(* relationships restore their ends, two gates drop what is unsure or      *)
(* about unknown topics, missing ends are added, and what is left is       *)
(* looked up by normalised name and written.                               *)
(*                                                                         *)
(* A Name is a name up to case.  "Admitted" is the evidence status stated  *)
(* or attributed, as opposed to unsure.  Which names are one entity is     *)
(* decided in EntityMerge, the order of the ends of a merger in            *)
(* ClaimStore; here each type and key is an entity.                        *)
(***************************************************************************)
EXTENDS Naturals, FiniteSets

CONSTANTS
  Name,
  Sentence,      \* the <<block, sentence>> numbers of the article
  EntityRow,     \* entity records an answer may contain
  RelationRow,   \* relationship records an answer may contain
  Key,           \* NameNormalizer.key by type and name, "" if nothing is left
  GateKey,       \* the key by which the topic gate compares sources
  Concept,       \* the topic's name by any of its names, NoConcept if unknown
  NoConcept,
  Passes,        \* llm_gleaning_passes
  MaxRows        \* bounds the records of each kind in an answer

Type == {"Startup", "Investor", "Person", "Topic", "Company"}
Organization == {"Startup", "Investor", "Company"}

(* RELATIONSHIP_SIGNATURES *)
SourceTypes ==
  [INVESTED_IN |-> Organization \cup {"Person"}, ACQUIRED |-> Organization \cup {"Person"},
   MERGED_WITH |-> Organization, FOUNDED_BY |-> Organization, EMPLOYED_BY |-> {"Person"},
   PARTNERED_WITH |-> Organization, HAS_TOPIC |-> Organization \cup {"Person"}]
TargetTypes ==
  [INVESTED_IN |-> Organization, ACQUIRED |-> Organization, MERGED_WITH |-> Organization,
   FOUNDED_BY |-> {"Person"}, EMPLOYED_BY |-> Organization,
   PARTNERED_WITH |-> Organization, HAS_TOPIC |-> {"Topic"}]
Relationship == DOMAIN SourceTypes

(* A reference B001.S002-B001.S003 as its four numbers; <<>> stands for    *)
(* none, and for one that is malformed or a list.  Strict JSON leaves no   *)
(* other evidence, and no status or type that is unknown.                  *)
Reference == {<<>>} \cup (Nat \X Nat \X Nat \X Nat)

ASSUME RowAssumption ==
  /\ EntityRow \subseteq
       [name : Name, type : Type, admitted : BOOLEAN, evidence_ref : Reference]
  /\ RelationRow \subseteq
       [source : Name, target : Name, type : Relationship, admitted : BOOLEAN,
        evidence_ref : Reference]
ASSUME KeyAssumption ==
  /\ Key \in [Type -> [Name -> Name \cup {""}]]
  /\ DOMAIN GateKey = Name
(* A topic is found by its own name, which has a key. *)
ASSUME ConceptAssumption ==
  /\ NoConcept \notin Name
  /\ Concept \in [Name -> Name \cup {NoConcept}]
  /\ \A n \in Name : Concept[n] # NoConcept =>
       Concept[Concept[n]] = Concept[n] /\ Key["Topic"][Concept[n]] # ""
ASSUME PassesAssumption == Passes \in Nat

VARIABLES
  stage,
  pass,            \* gleaning passes so far
  raw,             \* the records of all answers
  first,           \* history: those of the first answer
  entities,        \* of the ExtractionResult
  relationships,
  stored,          \* <<type, key>> of the entities written
  claims           \* [type, source, target] of the claims written

vars == <<stage, pass, raw, first, entities, relationships, stored, claims>>

Raw == [entities : SUBSET EntityRow, relationships : SUBSET RelationRow]
Entity == [type : Type, name : Name, admitted : BOOLEAN]

(* ExtractedRelationship and its validator. *)
Relation ==
  [type : Relationship, source : Name, source_type : Type,
   target : Name, target_type : Type, admitted : BOOLEAN]
ValidSignature(rel) ==
  rel.source_type \in SourceTypes[rel.type] /\ rel.target_type \in TargetTypes[rel.type]

TypeOK ==
  /\ stage \in {"ask", "glean", "convert", "gates", "complete", "write", "written", "failed"}
  /\ pass \in 0..Passes
  /\ raw \in Raw /\ first \in Raw
  /\ entities \subseteq Entity
  /\ relationships \subseteq Relation /\ \A rel \in relationships : ValidSignature(rel)
  /\ stored \subseteq Type \X Name
  /\ claims \subseteq [type : Relationship, source : Type \X Name, target : Type \X Name]

Nothing == [entities |-> {}, relationships |-> {}]
Names(rows) == {row.name : row \in rows.entities}
Ends(rel) == {<<rel.source_type, rel.source>>, <<rel.target_type, rel.target>>}

-----------------------------------------------------------------------------
(* The answers. *)

Answers ==
  {rows \in Raw : Cardinality(rows.entities) <= MaxRows
                  /\ Cardinality(rows.relationships) <= MaxRows}

Answer(rows) ==
  /\ stage = "ask"
  /\ raw' = rows /\ first' = rows
  /\ stage' = IF Passes = 0 THEN "convert" ELSE "glean"
  /\ UNCHANGED <<pass, entities, relationships, stored, claims>>

(* Mutant: a row is new unless it is there already. *)
NewEntities_rows(extra) == {extra.entities \ raw.entities}

(* One row for each new name, whichever comes first in the answer. *)
NewEntities(extra) ==
  {new \in SUBSET {row \in extra.entities : row.name \notin Names(raw)} :
     \A row \in extra.entities :
       row.name \notin Names(raw) => \E chosen \in new : chosen.name = row.name
                                       /\ \A other \in new : other.name = row.name => other = chosen}

Same(r, s) == r.type = s.type /\ r.source = s.source /\ r.target = s.target

(* And one for each new relationship between names that have rows. *)
NewRelationships(extra, names) ==
  LET candidates == {r \in extra.relationships :
                       /\ {r.source, r.target} \subseteq names
                       /\ \A s \in raw.relationships : ~Same(r, s)}
  IN  {new \in SUBSET candidates :
         \A r \in candidates : \E chosen \in new : Same(chosen, r)
                                 /\ \A other \in new : Same(other, r) => other = chosen}

(* _merge_gleaning_pass; an empty answer ends the gleaning. *)
Glean(extra) ==
  /\ stage = "glean"
  /\ \E es \in NewEntities(extra) :
       \E rs \in NewRelationships(extra, Names(raw) \cup {row.name : row \in es}) :
         raw' = [entities |-> raw.entities \cup es, relationships |-> raw.relationships \cup rs]
  /\ pass' = pass + 1
  /\ stage' = IF pass' = Passes \/ extra = Nothing THEN "convert" ELSE "glean"
  /\ UNCHANGED <<first, entities, relationships, stored, claims>>

-----------------------------------------------------------------------------
(* _raw_to_extraction_result_with_diagnostics *)

(* EvidenceCatalog.resolve: consecutive sentences of one block. *)
Resolves(ref) ==
  /\ ref # <<>>
  /\ ref[1] = ref[3] /\ ref[2] <= ref[4]
  /\ {<<ref[1], ref[2]>>, <<ref[3], ref[4]>>} \subseteq Sentence

DeclaredTypes(rows, name) == {row.type : row \in {e \in rows.entities : e.name = name}}
AcceptedTypes(rows, name) ==
  {row.type : row \in {e \in rows.entities : e.name = name /\ Resolves(e.evidence_ref)}}

(* The types of a relationship's end: of accepted rows, else of rejected   *)
(* ones, else the only one that the relationship allows.                   *)
EndTypes(rows, name, allowed) ==
  IF AcceptedTypes(rows, name) # {} THEN AcceptedTypes(rows, name)
  ELSE IF DeclaredTypes(rows, name) # {} THEN DeclaredTypes(rows, name)
  ELSE IF \E t \in Type : allowed = {t} THEN allowed
  ELSE {}

Signatures(rows, r) ==
  (EndTypes(rows, r.source, SourceTypes[r.type]) \cap SourceTypes[r.type])
    \X (EndTypes(rows, r.target, TargetTypes[r.type]) \cap TargetTypes[r.type])

TypedEntities(rows) ==
  {[type |-> row.type, name |-> row.name, admitted |-> row.admitted] :
     row \in {e \in rows.entities : Resolves(e.evidence_ref)}}

Typed(r, signature) ==
  [type |-> r.type, source |-> r.source, source_type |-> signature[1],
   target |-> r.target, target_type |-> signature[2], admitted |-> r.admitted]

(* A relationship is kept if exactly one signature fits it. *)
TypedRelationships(rows) ==
  UNION {{Typed(r, signature) : signature \in Signatures(rows, r)} :
           r \in {q \in rows.relationships :
                    /\ Resolves(q.evidence_ref)
                    /\ \E signature \in Signatures(rows, q) : Signatures(rows, q) = {signature}}}

Supported(rels) == UNION {Ends(rel) : rel \in {q \in rels : q.admitted}}

Restored(end) == [type |-> end[1], name |-> end[2], admitted |-> TRUE]

(* _recover_relationship_backed_entities: a row that is unsure is replaced *)
(* or, if the entity has another, perhaps left.                            *)
Recoveries(es, rels) ==
  LET ends == {end \in Supported(rels) : end[1] # "Topic"} IN
  {(es \ replaced) \cup {Restored(end) : end \in ends} :
     replaced \in SUBSET {e \in es : ~e.admitted /\ <<e.type, e.name>> \in ends}}

Convert ==
  /\ stage = "convert"
  /\ relationships' = TypedRelationships(raw)
  /\ entities' \in Recoveries(TypedEntities(raw), TypedRelationships(raw))
  /\ stage' = "gates"
  /\ UNCHANGED <<pass, raw, first, stored, claims>>

-----------------------------------------------------------------------------
(* _process_article, after the extraction. *)

Admitted(facts) == {f \in facts : f.admitted}

OtherThanTopics(rels) == {rel \in rels : rel.type # "HAS_TOPIC"}

Retargeted(rel, name) ==
  [type |-> rel.type, source |-> rel.source, source_type |-> rel.source_type,
   target |-> name, target_type |-> rel.target_type, admitted |-> rel.admitted]

(* Mutant: the name of the topic is kept as it is. *)
Canonical_named(rels) == {q \in rels : q.type = "HAS_TOPIC" /\ Concept[q.target] # NoConcept}

(* Mutant: a name that no topic has is a topic of its own. *)
Canonical_open(rels) ==
  {IF Concept[rel.target] = NoConcept THEN rel ELSE Retargeted(rel, Concept[rel.target]) :
     rel \in {q \in rels : q.type = "HAS_TOPIC"}}

(* HAS_TOPIC relationships under the names of their concepts. *)
Canonical(rels) ==
  {Retargeted(rel, Concept[rel.target]) :
     rel \in {q \in rels : q.type = "HAS_TOPIC" /\ Concept[q.target] # NoConcept}}

(* One of those with the same source, up to punctuation, and topic. *)
Alike(r, s) ==
  r.source_type = s.source_type /\ GateKey[r.source] = GateKey[s.source] /\ r.target = s.target
Unique(rels) ==
  {kept \in SUBSET rels :
     \A rel \in rels : \E chosen \in kept : Alike(chosen, rel)
                         /\ \A other \in kept : Alike(other, rel) => other = chosen}

(* A topic is kept, or made, for each HAS_TOPIC that is kept. *)
TopicsOf(kept) ==
  {Restored(<<"Topic", rel.target>>) : rel \in kept}

(* Mutant: a topic that the answers have no entity for is dropped. *)
Gates_rows ==
  /\ stage = "gates"
  /\ LET known == {Concept[e.name] : e \in {f \in Admitted(entities) : f.type = "Topic"}} IN
     \E kept \in Unique({r \in Canonical(Admitted(relationships)) : r.target \in known}) :
       /\ relationships' = OtherThanTopics(Admitted(relationships)) \cup kept
       /\ entities' = {e \in Admitted(entities) : e.type # "Topic"} \cup TopicsOf(kept)
  /\ stage' = "complete"
  /\ UNCHANGED <<pass, raw, first, stored, claims>>

(* Mutant: topics without a relationship are kept. *)
Gates_orphans ==
  /\ stage = "gates"
  /\ \E kept \in Unique(Canonical(Admitted(relationships))) :
       /\ relationships' = OtherThanTopics(Admitted(relationships)) \cup kept
       /\ entities' = {e \in Admitted(entities) : e.type = "Topic" => Concept[e.name] # NoConcept}
                        \cup TopicsOf(kept)
  /\ stage' = "complete"
  /\ UNCHANGED <<pass, raw, first, stored, claims>>

(* _filter_by_evidence_traced and TopicOntology.enforce *)
Gates ==
  /\ stage = "gates"
  /\ \E kept \in Unique(Canonical(Admitted(relationships))) :
       /\ relationships' = OtherThanTopics(Admitted(relationships)) \cup kept
       /\ entities' = {e \in Admitted(entities) : e.type # "Topic"} \cup TopicsOf(kept)
  /\ stage' = "complete"
  /\ UNCHANGED <<pass, raw, first, stored, claims>>

KeyOf(type, name) == <<type, Key[type][name]>>
Keys(es) == {KeyOf(e.type, e.name) : e \in es}
Keyed(ends) == {k \in ends : k[2] # ""}

(* _ensure_relationship_entities: one entity more for each key of an end   *)
(* that has none.                                                          *)
Completed(es) ==
  {more \in SUBSET {Restored(end) : end \in Supported(relationships)} :
     /\ Keys(more) = Keyed({KeyOf(end[1], end[2]) : end \in Supported(relationships)}) \ Keys(es)
     /\ \A e \in more, f \in more : KeyOf(e.type, e.name) = KeyOf(f.type, f.name) => e = f}

(* _do_resolve_entities; a topic it does not know is an error. *)
Complete ==
  /\ stage = "complete"
  /\ \E more \in Completed(entities) : entities' = entities \cup more
  /\ stage' = IF \E e \in entities' : e.type = "Topic" /\ Concept[e.name] = NoConcept
              THEN "failed" ELSE "write"
  /\ UNCHANGED <<pass, raw, first, relationships, stored, claims>>

(* ingest_article_tx: what a lookup finds is written. *)
Write ==
  LET mapped == Keyed(Keys(entities)) IN
  /\ stage = "write"
  /\ stored' = Keyed(Keys(Admitted(entities)))
  /\ claims' =
       {[type |-> rel.type, source |-> KeyOf(rel.source_type, rel.source),
         target |-> KeyOf(rel.target_type, rel.target)] :
          rel \in {q \in Admitted(relationships) :
                     LET source == KeyOf(q.source_type, q.source)
                         target == KeyOf(q.target_type, q.target)
                     IN  {source, target} \subseteq mapped /\ source # target}}
  /\ stage' = "written"
  /\ UNCHANGED <<pass, raw, first, entities, relationships>>

NextArticle ==
  /\ stage \in {"written", "failed"}
  /\ stage' = "ask" /\ pass' = 0
  /\ raw' = Nothing /\ first' = Nothing
  /\ entities' = {} /\ relationships' = {}
  /\ stored' = {} /\ claims' = {}

Init ==
  /\ stage = "ask" /\ pass = 0
  /\ raw = Nothing /\ first = Nothing
  /\ entities = {} /\ relationships = {}
  /\ stored = {} /\ claims = {}

Next ==
  \/ \E rows \in Answers : Answer(rows) \/ Glean(rows)
  \/ Convert \/ Gates \/ Complete \/ Write \/ NextArticle

Spec == Init /\ [][Next]_vars

-----------------------------------------------------------------------------
(* Of each topic relationship, the concept's name. *)
Named(rel) == IF rel.type = "HAS_TOPIC" THEN Retargeted(rel, Concept[rel.target]) ELSE rel

ClaimOf(rel) ==
  [type |-> rel.type, source |-> KeyOf(rel.source_type, rel.source),
   target |-> KeyOf(rel.target_type, rel.target)]

HasKeys(rel) == ClaimOf(rel).source[2] # "" /\ ClaimOf(rel).target[2] # ""

(* The relationships of the answers that are facts: evidence in the        *)
(* article, not unsure, one way to read it, a known topic, and ends that   *)
(* have keys and are not the same.                                         *)
Facts(rows) ==
  {rel \in {Named(q) : q \in {p \in Admitted(TypedRelationships(rows)) :
                              p.type = "HAS_TOPIC" => Concept[p.target] # NoConcept}} :
     HasKeys(rel) /\ ClaimOf(rel).source # ClaimOf(rel).target}

(* Every claim that is written is a fact of the answers.                   *)
ClaimsAreFacts ==
  stage = "written" => claims \subseteq {ClaimOf(rel) : rel \in Facts(raw)}

(* Every fact is written, whatever became of the rows of its ends.  Of     *)
(* several HAS_TOPICs whose sources differ in punctuation only, one is     *)
(* kept, and it is written if its ends have keys.                          *)
FactsAreClaimed ==
  stage = "written" =>
    \A rel \in Facts(raw) :
      \/ ClaimOf(rel) \in claims
      \/ rel.type = "HAS_TOPIC" /\ \E other \in relationships :
           /\ other.type = "HAS_TOPIC" /\ Alike(other, rel)
           /\ ClaimOf(other) \in claims \/ ~HasKeys(other)

(* An entity is written if its own row is not unsure and has evidence, or  *)
(* if a relationship that is not unsure needs it, and for no other reason; *)
(* a topic only if a relationship needs it.                                *)
StoredAreBacked ==
  stage = "written" =>
    stored =
      Keyed({KeyOf(e.type, e.name) :
               e \in {f \in Admitted(TypedEntities(raw)) : f.type # "Topic"}}
            \cup {KeyOf(end[1], end[2]) :
               end \in {f \in Supported(TypedRelationships(raw)) : f[1] # "Topic"}}
            \cup {KeyOf("Topic", Concept[rel.target]) :
               rel \in {q \in Admitted(TypedRelationships(raw)) :
                          q.type = "HAS_TOPIC" /\ Concept[q.target] # NoConcept}})

(* The resolver is never handed a topic outside the ontology.              *)
TopicsAreKnown == stage # "failed"

(* Gleaning takes no fact of the first answer back, but for those with an  *)
(* end that the first answer had no row for, so that its type was guessed. *)
GleaningKeepsFacts ==
  \A r \in first.relationships :
    {r.source, r.target} \subseteq Names(first) =>
      \A rel \in TypedRelationships([entities |-> first.entities, relationships |-> {r}]) :
        rel \in TypedRelationships(raw)
=============================================================================
