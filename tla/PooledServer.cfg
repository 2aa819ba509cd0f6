SPECIFICATION FairSpec
CONSTANTS
  c1 = c1
  c2 = c2
  c3 = c3
  c4 = c4
  i1 = i1
  i2 = i2
  NoClient = NoClient
  threads = 3
  Clients = {c1, c2, c3, c4}
  IfaceOf <- MCIfaceOf
  Pieces = {p1, p2}
INVARIANTS
  TypeOK
  SleepersBounded
PROPERTIES
  MetadataAnswered
  AllServedOnceDownloaded
  ImplementsService
CHECK_DEADLOCK FALSE
