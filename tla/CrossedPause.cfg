SPECIFICATION Spec
CONSTANTS
  c1 = c1
  k1 = k1
  r1 = r1
  r2 = r2
  Clients <- MCClients
  Relays <- MCRelays
  DeviceArg <- MCDevices
  Target <- ToBoth
  Commands <- OnlyPause
  MaxInput = 0
  Interrupts = FALSE
  Killable = {}
  Unpluggable = {}
PROPERTIES
  PauseSurvived
CHECK_DEADLOCK FALSE
