\* One tab and nothing lost: the canvas is replaced while an execution saves it.
SPECIFICATION Spec
CONSTANTS
  Round = {p1, p2}
  Tab = {t1}
  MaxActs = 6
  Faulty = FALSE
  None = None
INVARIANT ExecutesTaskOfCanvas
CHECK_DEADLOCK FALSE
