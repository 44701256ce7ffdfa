SPECIFICATION FairSpec
CONSTANTS
  Article = {a1, a2, a3}
  MaxConcurrency = 2
  Attempts = 2
  Passes = 1
  Delay = {1, 2}
INVARIANTS
  OneConversation
PROPERTIES
  KnownPauseIsKept
  EveryExtractionEnds
