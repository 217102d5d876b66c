SPECIFICATION Spec
CONSTANTS
  c1 = c1
  k1 = k1
  r1 = r1
  r2 = r2
  Clients <- MCClients
  Relays <- MCRelays
  DeviceArg <- MCDevices
  Target <- ToClient
  Commands <- OneStop
  MaxInput = 1
  Interrupts = FALSE
  Killable = {}
  Unpluggable = {}
INVARIANTS
  ClientStopLeavesServer
CHECK_DEADLOCK FALSE
