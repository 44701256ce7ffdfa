SPECIFICATION Spec
CONSTANTS
  Name = {n1, n2}
  Text = {"t1"}
  Definition = {d1, d2}
  MaxEdits = 2
SYMMETRY MCSymmetry
INVARIANTS
  HashVouchesForEmbedding
PROPERTIES
  CuratedProfileIsEmbedded
  HumanProfileLostForCause
