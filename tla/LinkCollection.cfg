SPECIFICATION FairSpec
CONSTANTS
  Link = {"a", "A", "x"}
  Fold <- MCFold
  OnSite = {"a", "A"}
  Numbered = {"a", "A", "x"}
  Listed = {"a", "x"}
  Unusable = {"A"}
  Path = {"p", "q"}
  MaxPages = 3
  Places = 1
  MaxChanges = 1
INVARIANTS
  OneFetchPerArticle
PROPERTIES
  MissedForCause
  EveryCollectionEnds
