SPECIFICATION Spec
CONSTANTS
  s1 = s1
  s2 = s2
  d1 = d1
  u1 = u1
  b1 = b1
  b2 = b2
  b3 = b3
  e1 = e1
  m1 = m1
  m2 = m2
  Null = Null
  Sockets <- MCSockets
  Captured <- MCCaptured
  Virtual <- MCVirtual
  Buffers <- MCBuffers
  Events <- MCEvents
  Blocks <- MCBlocks
  NewBlock = m1
  Capacity = 1
  MaxQueued = 2
SYMMETRY Symmetry
INVARIANTS
  TypeOK
  NextCurrent
  QueueIsFifo
  RegistryExact
  BuffersOwned
CHECK_DEADLOCK FALSE
