SPECIFICATION Spec
CONSTANTS
  c1 = c1
  k1 = k1
  r1 = r1
  r2 = r2
  Clients <- MCClients
  Relays <- MCRelays
  DeviceArg <- MCDevices
  Target <- ToBoth
  Commands <- OnlyPause
  MaxInput = 1
  Interrupts = FALSE
  Killable = {}
  Unpluggable = {}
INVARIANTS
  PausedMeansReleased
CHECK_DEADLOCK FALSE
