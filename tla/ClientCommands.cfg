SPECIFICATION FairSpec
CONSTANTS
  c1 = c1
  k1 = k1
  r1 = r1
  r2 = r2
  Clients <- MCClients
  Relays <- MCRelays
  DeviceArg <- MCDevices
  Target <- ToClient
  Commands <- Commanded
  MaxInput = 0
  Interrupts = FALSE
  Killable = {}
  Unpluggable = {}
INVARIANTS
  GrabMatchesState
  PeersAgree
PROPERTIES
  RelayAnswered
  StopEnds
  PauseReachesServer
CHECK_DEADLOCK FALSE
