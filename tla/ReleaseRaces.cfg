SPECIFICATION ReleaseSpec
CONSTANTS
  Runs = {1, 2, 3, 4}
  Event <- RacingEvent
  Channel <- RacingChannel
  Base <- OneBase
  Serialized = FALSE
  NumberFloor = 0
  MaxNumber = 4
  MaxAttempt <- RacingAttempt
  MaxHead = 0
  NoPlan = NoPlan
  NoLedger = NoLedger
INVARIANTS UniqueReservations OneReleasePerTag
PROPERTIES LedgerOnlyGrows
CHECK_DEADLOCK FALSE
