SPECIFICATION Spec
CONSTANTS
  Evidence = {"e1", "e2", "e3", "e4"}
  TextOf <- MCTextOf
  Definition = {d1, d2}
  Policy = {p1, p2}
  MinNew = 2
  MaxTexts = 2
PROPERTY AcceptedTextWasReviewed
