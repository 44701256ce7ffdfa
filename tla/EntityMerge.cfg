SPECIFICATION MergeSpec
CONSTANTS
  Entity <- MCEntity
  Article = {"a1", "a2"}
  Mention <- MCMention
  Budgets <- MCBudgets
INVARIANTS
  RelatedNamesStayApart
  QueuedHasReason
  LiveConflictIsQueued
PROPERTIES
  KeepsMergePromise
  MergeKeepsSupport
  MergeKeepsRejections
