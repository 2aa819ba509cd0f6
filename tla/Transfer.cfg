SPECIFICATION Spec
CONSTANTS
  src = src
  relay = relay
  a = a
  b = b
  Local = Local
  Nodes = {src, relay, a, b}
  Source = src
  Upstream <- ByRelay
  piece_size = 2
  IP4_LENGTH = 3
  SizeMod = 8
  node_ip <- NodeIp
  Sizes = {0, 1, 3, 4, 5}
  MaxInFlight = 1
INVARIANTS
  TypeOK
  MetadataAgrees
  AnswersCounted
  NothingReadOutside
  ContentUnlessRaced
