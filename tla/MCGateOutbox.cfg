CONSTANTS
  d1 = d1 d2 = d2 n1 = n1 n2 = n2 p = p s = s j = j
  Dispatches <- MCTwoDispatches
  Nonces <- MCTwoNonces
  Terminals <- MCTwoTerminals
  Principal = p
  Agents <- MCOneAgent
  Levels <- MCCaution
  Jobs <- MCJobs
  SendBound = 0
  NonceReuse = FALSE
  CheckInFlight = TRUE
  NoDispatch = NoDispatch
  NoTerminal = NoTerminal
  NoNonce = NoNonce
  NoJob = NoJob
  NumItems = 2
  BadItems <- MCSecond
  MediaItems <- MCNone
  TextLen = 3
  Sizes <- MCTwoWords
  MaxRetry = 2
  DailyMax = 0
  Burst = 1
  LostAcks = TRUE
  Trips = TRUE
  MaxRestarts = 1
  MaxDay = 0
  MaxKillCalls = 1
SPECIFICATION MCSpec
INVARIANTS IndexInv RitualOrder
PROPERTIES FreedOnFailure NeverStuckForever Settled
