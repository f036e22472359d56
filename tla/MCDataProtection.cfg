SPECIFICATION Spec
CONSTANTS
  Ids <- TwoIds
  MaxFailed = 2
  MaxRecords = 3
  MaxCodes = 2
INVARIANTS
  KeysSurvive
  OpenIsWhole
  SpentStaysSpent
PROPERTIES
  OpensForPresentPin
