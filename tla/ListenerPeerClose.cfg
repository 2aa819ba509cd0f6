SPECIFICATION Spec
CONSTANTS
  Clients = {c1}
  MaxEvents = 2
  MaxRequests = 1
INVARIANT PeerCloseHandled
CHECK_DEADLOCK FALSE
