SPECIFICATION FairSpec
CONSTANTS
  c1 = c1
  c2 = c2
  c3 = c3
  i1 = i1
  i2 = i2
  NoSocket = NoSocket
  Clients = {c1, c2, c3}
  Ifaces = {i1, i2}
  IfaceOf <- MCIfaceOf
  Requests <- MCRequests
  NumPieces = 3
INVARIANTS
  TypeOK
  InterfaceExclusive
  NoTornPiece
  SentExactlyOnce
  NoLostWakeup
  QueuedAreAvailable
PROPERTIES
  ServedUnlessAborted
  ImplementsService
