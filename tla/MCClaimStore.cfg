SPECIFICATION Spec
CONSTANTS
  Entity <- MCEntity
  Article = {a1, a2}
  Mention <- MCMention
SYMMETRY Articles
INVARIANTS
  LifecycleMatchesSupport
  QueuedHasReason
  LostSupportIsQueued
  SupportReasonIsCurrent
  LiveConflictIsQueued
PROPERTIES
  RejectionStands
  AcceptedRequeuedForCause
  ConflictFlaggedForCause
  KeepsPromise
