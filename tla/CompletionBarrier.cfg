SPECIFICATION FairSpec
CONSTANTS
  Nodes = {src, d1, d2}
  Source = src
INVARIANTS
  TypeOK
  NobodyLeavesEarly
PROPERTIES
  DroppedOnlyByAbsent
  AllLeaveUnlessFailed
CHECK_DEADLOCK FALSE
