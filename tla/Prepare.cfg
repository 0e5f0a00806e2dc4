CONSTANTS
  Operators = {1, 2, 3, 4, 5}
  Persistent = {1}
  Crews <- MCCrews
  Wants <- MCWants
  Edits = {e1}
  First <- MCFirst
  Versions <- MCVersions
  Reserved <- MCReserved
  MaxMoves = 2
SPECIFICATION FairSpec
INVARIANTS ChosenIsNext OwnTopicRecognised
PROPERTIES VersionNeverGoesDown EditsSurvive StableTagsGoUp Converges
CHECK_DEADLOCK FALSE
