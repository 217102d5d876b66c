SPECIFICATION FairSpec
CONSTANTS
  bare = bare
  full = full
  Msgs <- MCMsgs
  HeaderLen = 2
  BodyLen <- MCBodyLen
  MaxSent = 3
  MaxOffered = 3
INVARIANTS
  TypeOK
  WriteFraming
  ArmedForQueue
  NeverRestreamed
  HandledInOrder
  ReadsExactUnlessOverlapped
PROPERTIES
  ImplementsQueue
  QueuedIsWritten
  ArrivedIsRead
CHECK_DEADLOCK FALSE
