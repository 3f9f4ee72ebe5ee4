SPECIFICATION Spec
CONSTANTS
  Watcher = {w1, w2}
  Requester = w1
  MaxEvents = 2
  MayPause = FALSE
  QueueMax = 2
INVARIANT NotCutOff
CHECK_DEADLOCK FALSE
