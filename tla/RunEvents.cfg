SPECIFICATION SnapSpec
CONSTANTS
  Watcher = {w1, w2}
  Requester = w1
  MaxEvents = 2
  MayPause = TRUE
  QueueMax = 2
  BufferMax = 2
INVARIANTS AllTypesOK NoGap  RequesterSeesAll LateWatcherSeesAll
PROPERTIES AllThreadsEnd EndAnnounced
CHECK_DEADLOCK FALSE
