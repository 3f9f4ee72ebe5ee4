SPECIFICATION Spec
CONSTANTS
  Turn = {t1, t2}
  Submitter = {h1}
  MaxSnapshot = 2
  Debug = FALSE
  Orderly = TRUE
  Faulty = FALSE
  None = None
INVARIANT ResumeCarriesAnswer
CHECK_DEADLOCK FALSE
