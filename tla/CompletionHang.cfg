SPECIFICATION FairSpec
CONSTANTS
  Nodes = {src, d1}
  Source = src
PROPERTY LeaversExit
CHECK_DEADLOCK FALSE
