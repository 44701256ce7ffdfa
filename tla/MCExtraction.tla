---------------------------- MODULE MCExtraction ----------------------------
(* A startup of three spellings, of which one has the same key and one is  *)
(* the same for the topic gate; a person who may be an investor; a topic   *)
(* by another name; and a topic nobody knows.                              *)
EXTENDS Extraction

MCName == {"isar", "isar gmbh", "i-sar", "gmbh", "anna", "ki", "ai", "art"}
MCSentence == {<<1, 1>>, <<1, 2>>, <<2, 1>>}

Quote == <<1, 1, 1, 2>>
Across == <<1, 2, 2, 1>>

Row(name, type, admitted, ref) ==
  [name |-> name, type |-> type, admitted |-> admitted, evidence_ref |-> ref]
MCEntityRow ==
  {Row("isar", "Startup", TRUE, Quote), Row("isar", "Company", TRUE, Across),
   Row("isar gmbh", "Startup", FALSE, Quote), Row("i-sar", "Startup", TRUE, <<>>),
   Row("gmbh", "Startup", TRUE, Quote), Row("anna", "Investor", TRUE, Quote),
   Row("ki", "Topic", FALSE, Quote), Row("ai", "Topic", TRUE, Quote)}

Link(source, type, target, admitted, ref) ==
  [source |-> source, target |-> target, type |-> type, admitted |-> admitted,
   evidence_ref |-> ref]
MCRelationRow ==
  {Link("isar", "FOUNDED_BY", "anna", TRUE, Quote), Link("isar", "HAS_TOPIC", "ki", TRUE, Quote),
   Link("i-sar", "HAS_TOPIC", "ai", TRUE, Quote), Link("isar", "HAS_TOPIC", "art", TRUE, Quote),
   Link("gmbh", "HAS_TOPIC", "ai", TRUE, Quote), Link("isar", "FOUNDED_BY", "anna", FALSE, Quote),
   Link("isar gmbh", "MERGED_WITH", "isar", TRUE, Quote)}

MCKey ==
  [type \in Type |-> [name \in MCName |->
     IF type # "Startup" THEN name
     ELSE IF name = "isar gmbh" THEN "isar"
     ELSE IF name = "gmbh" THEN "" ELSE name]]
MCGateKey == [name \in MCName |-> IF name = "i-sar" THEN "isar" ELSE name]
MCConcept ==
  [name \in MCName |-> IF name \in {"ki", "ai"} THEN "ai" ELSE "unknown"]
=============================================================================
