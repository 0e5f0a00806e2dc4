SPECIFICATION ReleaseSpec
CONSTANTS
  Runs = {1, 2, 3, 4}
  Event <- QueueEvent
  Channel <- QueueChannel
  Base <- OneBase
  Serialized = TRUE
  NumberFloor = 0
  MaxNumber = 4
  MaxAttempt <- QueueAttempt
  MaxHead = 1
  NoPlan = NoPlan
  NoLedger = NoLedger
INVARIANTS PublishedInOrder StableIsAccepted OvertakenStaysPrivate
PROPERTIES StableClosesBase
CHECK_DEADLOCK FALSE
