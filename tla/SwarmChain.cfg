SPECIFICATION PatientSpec
CONSTANTS
  src = src
  d1 = d1
  d2 = d2
  d3 = d3
  d4 = d4
  Topology = "chain"
  NoNode = NoNode
  Nodes <- MCNodes
  Source = src
  Neighbors <- MCNeighbors
  IfaceAt <- MCIfaceAt
  network_info <- MCNetworkInfo
  ip_info <- MCIpInfo
  Iteration <- MCIteration
  Pieces = {p1, p2}
PROPERTY FileDelivered
CHECK_DEADLOCK FALSE
