\* One page is shorter than the stream, and one more connection breaks than the budget covers.
CONSTANTS
  Run = run
  PageLimit = 2
  MaxReconnects = 2
  MaxEvents = 5
  MaxDrops = 3
SPECIFICATION Spec
INVARIANTS ExactlyOnceInOrder StopsAtOutcome
PROPERTIES OutcomeIsDelivered
CHECK_DEADLOCK FALSE
