SPECIFICATION Spec
CONSTANTS
  c1 = c1
  k1 = k1
  r1 = r1
  r2 = r2
  Clients <- MCClients
  Relays <- MCRelays
  DeviceArg <- MCDevices
  Target <- ToBoth
  Commands <- Mixed
  MaxInput = 0
  Interrupts = TRUE
  Killable = {}
  Unpluggable = {}
INVARIANTS
  TypeOK
  GrabMatchesState
  RelayRegistry
  StopAnswerTrue
PROPERTIES
  ExitLeavesNobodyWaiting
CHECK_DEADLOCK FALSE
