SPECIFICATION Spec
CONSTANTS
  Turn = {t1, t2, t3, t4}
  Submitter = {h1, h2}
  MaxSnapshot = 2
  Debug = TRUE
  Orderly = TRUE
  Faulty = FALSE
  None = None
INVARIANT ResumeCarriesAnswer
PROPERTIES KeepsContext AnswerDelivered
CHECK_DEADLOCK FALSE
