CONSTANTS
  Items = {1, 2}
  Chats = {"chat"}
  ChatOf <- MCChatOf
  Popups = {"p"}
  MaxAttempts = 2
  Pool = 1
  MaxArrivals = 2
  MaxFaults = 1
  Numbers = {"own", "contact"}
  OwnNumber = "own"
  QueueCap = 1
  MaxChanges = 1
  MaxLapses = 2
  People = {"host", "a"}
  Host = "host"
  MaxMoves = 2
  MaxFailures = 1
  MaxResets = 1
  Callers = {"sweep", "ping"}
  Antennas = {"old", "new"}
  NoAntenna = "none"
  Hosts = {"host"}
  HostOf <- MCHostOf
  MaxSetConfig = 1
  MaxInjects = 2
  MaxUpsets = 1
  Clients = {"a", "b"}
  RatePerMin = 2
  EmitRatePerMin = 1
  BlockThreshold = 2
  BlockCooldown = 5
  ClientStaleAfter = 3
  Minute = 2
SPECIFICATION MCSpec
CHECK_DEADLOCK FALSE
 
PROPERTIES QueueMoves PhotoShown MembersStay RosterHeals
