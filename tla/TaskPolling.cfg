SPECIFICATION FairSpec
CONSTANTS
  Task = {t1, t2}
  Tab = {tab1}
  Call = {c1, c2}
  NoTask = NoTask
  MaxRestarts = 1
INVARIANTS
  ShownIsPast
PROPERTIES
  PassesTheSlot
  SlotFreesUp
  TabLearnsTheEnd
