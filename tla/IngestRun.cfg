SPECIFICATION FairSpec
CONSTANTS
  Url = {"page", "link"}
  Canonical <- MCCanonical
  Policy = {"p1", "p2"}
  MaxResets = 2
INVARIANTS
  TypeOK
PROPERTIES
  SkippedIsProcessed
  EveryIngestEnds
  EveryPageArrives
