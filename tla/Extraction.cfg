SPECIFICATION Spec
CONSTANTS
  Name <- MCName
  Sentence <- MCSentence
  EntityRow <- MCEntityRow
  RelationRow <- MCRelationRow
  Key <- MCKey
  GateKey <- MCGateKey
  Concept <- MCConcept
  NoConcept = "unknown"
  Passes = 1
  MaxRows = 2
INVARIANTS
  ClaimsAreFacts
  FactsAreClaimed
  StoredAreBacked
  TopicsAreKnown
  GleaningKeepsFacts
