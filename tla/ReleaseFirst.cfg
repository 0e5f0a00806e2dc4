SPECIFICATION ReleaseSpec
CONSTANTS
  Runs = {1, 2, 3}
  Event <- RacingEvent
  Channel <- RacingChannel
  Base <- OneBase
  Serialized = TRUE
  NumberFloor = 0
  MaxNumber = 4
  MaxAttempt <- RacingAttempt
  MaxHead = 0
  NoPlan = NoPlan
  NoLedger = NoLedger
INVARIANTS MissingLedgerWasRemoved
CHECK_DEADLOCK FALSE
