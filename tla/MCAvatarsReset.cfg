CONSTANTS
  Numbers = {"own", "contact"}
  OwnNumber = "own"
  QueueCap = 1
  MaxChanges = 2
  MaxLapses = 1
SPECIFICATION AvatarSpec
CHECK_DEADLOCK FALSE
PROPERTIES PhotoSurvivesReset
