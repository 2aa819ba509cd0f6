SPECIFICATION Spec
CONSTANTS
  c1 = c1
  c2 = c2
  c3 = c3
  i1 = i1
  i2 = i2
  NoSocket = NoSocket
  Clients = {c1}
  Ifaces = {i1}
  IfaceOf <- MCIfaceOf
  Requests <- MCRequests
  NumPieces = 2
INVARIANT LostWakeupHandled
