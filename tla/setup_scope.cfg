SPECIFICATION Spec
CHECK_DEADLOCK FALSE
CONSTANTS
  e1 = e1
  e2 = e2
  Jids = {"j1"}
  Editors = {e1, e2}
  Legacy <- NoLegacy
  MaxEdits = 1
  MaxTroubles = 0
SYMMETRY Symmetry
INVARIANTS SetupsAnswerHolds
