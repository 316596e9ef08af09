CONSTANTS
  ann = ann bob = bob k1 = k1 k2 = k2
  Messages <- MCMessages
  Speakers <- MCSpeakers
  SpeakerOf <- MCSpeakerOf
  Drafts <- MCTwoDrafts
  Callers <- MCCallers
  Approvers <- MCCallers
  MaxRounds = 2
  MaxEdits = 1
  MaxCrashes = 1
  NumItems = 2
  BadItems <- MCNone
  MediaItems <- MCSecond
  TextLen = 3
  Sizes <- MCTwoWords
  MaxRetry = 2
  DailyMax = 2
  Burst = 1
  LostAcks = TRUE
  Trips = FALSE
  MaxRestarts = 1
  MaxDay = 1
  MaxKillCalls = 1
SPECIFICATION MCSpec
SYMMETRY MCSymmetry
CHECK_DEADLOCK FALSE
INVARIANTS DraftsSafe OutboxSafe NothingSkipped RepeatsExcused BrakeHonoured
PROPERTIES ImplementsBox
