SPECIFICATION Spec
CONSTANTS
  Turn = {t1, t2, t3}
  Submitter = {h1}
  MaxSnapshot = 2
  Debug = FALSE
  Orderly = FALSE
  Faulty = TRUE
  None = None
SYMMETRY Interchangeable
INVARIANTS TypeOK AnswerMatchesSnapshot
PROPERTY SaveLeavesOneSession
CHECK_DEADLOCK FALSE
