SPECIFICATION Spec
CONSTANTS
  ZoneName <- z
  Versions <- MCVersions
  ClientLoc = "in"
  Peers = {"axfrdns"}
  Strange = {}
  MaxLines = 0
  MaxTime = 2
  None = None
  MaxString = 4
  Short = 1024
  Long = 4096
INVARIANT ServicesCopied
CHECK_DEADLOCK FALSE
