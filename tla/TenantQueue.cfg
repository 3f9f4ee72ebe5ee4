SPECIFICATION Spec
CONSTANTS
  Job = {j1, j2, j3, j4}
  Concurrency = 2
INVARIANTS OnePlaceEach FlagHasTask
PROPERTIES ImplementsContract WaitingJobSent
CHECK_DEADLOCK FALSE
