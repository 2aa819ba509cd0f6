SPECIFICATION FairSpec
CONSTANTS
  Clients = {c1, c2}
  MaxEvents = 2
  MaxRequests = 2
INVARIANTS
  TypeOK
  OneTaskPerSocket
  NoBlindRead
PROPERTIES
  NoRequestStranded
  StopReturns
CHECK_DEADLOCK FALSE
