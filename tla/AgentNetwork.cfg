\* Two tabs, two rounds or commands, five things done by people, any request
\* may be lost.
SPECIFICATION CommandsSpec
CONSTANTS
  Round = {p1, p2}
  Tab = {t1, t2}
  MaxActs = 5
  Faulty = TRUE
  None = None
SYMMETRY Interchangeable
INVARIANTS AllTypesOK OneAppliedPlan TaskOfAppliedPlan ResultForItsTask
PROPERTIES HandedToOneTab NeverReopened
CHECK_DEADLOCK FALSE
