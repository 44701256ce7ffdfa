SPECIFICATION MergeSpec
CONSTANTS
  Entity <- MCEntity
  Article = {"a1"}
  Mention <- MCMention
  Budgets <- OneArticleTwice
PROPERTY LostMergerIsGone
