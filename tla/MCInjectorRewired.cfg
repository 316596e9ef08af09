CONSTANTS
  Callers = {"sweep", "ping"}
  Antennas = {"old", "new"}
  NoAntenna = "none"
  Hosts = {"host"}
  HostOf <- MCHostOf
  MaxSetConfig = 1
  MaxInjects = 3
  MaxUpsets = 1
SPECIFICATION InjectorSpec
CHECK_DEADLOCK FALSE
INVARIANTS TakesEffect
