SPECIFICATION Spec
CONSTANTS
  Request = {r1, r2, r3}
  Modes = {"plain", "workflow"}
  MaxActive = 2
SYMMETRY Interchangeable
INVARIANTS FinishedHoldsNoSlot LimitRespected RefusedNotCharged
PROPERTY NoSpuriousRefusal
CHECK_DEADLOCK FALSE
