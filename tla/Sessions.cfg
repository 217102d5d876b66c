SPECIFICATION Spec
CONSTANTS
  c1 = c1
  c2 = c2
  k1 = k1
  k2 = k2
  r1 = r1
  Clients <- MCClients
  Relays <- MCRelays
  DeviceArg <- MCDevices
  Target <- MCTarget
  Commands <- MCCommands
  MaxInput = 1
  Interrupts = FALSE
  Killable <- MCKillable
  Unpluggable <- MCUnpluggable
INVARIANTS
  PeerPointerValid
  ListeningIsFresh
PROPERTIES
  ImplementsSession
CHECK_DEADLOCK FALSE
