SPECIFICATION Spec
CHECK_DEADLOCK FALSE
CONSTANTS
  e1 = e1
  e2 = e2
  Jids = {"j1"}
  Editors = {e1, e2}
  Legacy <- OldScope
  MaxEdits = 2
  MaxTroubles = 1
SYMMETRY Symmetry
INVARIANTS TypeOK GrantsDieWithServe
PROPERTIES AnswersAreInForce SettingsMoveByTheirFile
