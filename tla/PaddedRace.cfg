SPECIFICATION Spec
CONSTANTS
  src = src
  relay = relay
  a = a
  b = b
  Local = Local
  Nodes = {src, a, b}
  Source = src
  Upstream <- BySource
  piece_size = 2
  IP4_LENGTH = 3
  SizeMod = 8
  node_ip <- NodeIp
  Sizes = {3}
  MaxInFlight = 1
INVARIANT ReconstructedMatches
