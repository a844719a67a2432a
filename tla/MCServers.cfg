SPECIFICATION MCSpec
CONSTANTS
  Programs = {"server", "walldns", "rbldns", "pickdns", "response"}
  Node = {"m", "n"}
  Sockets = 2
  Client <- MCClient
  Question <- MCQuestion
  Outcome = {0, 100, 600}
  MaxSends = 1
  MaxQueue = 2
  MaxRepeats = 1
  Octets = 2
  Digits <- MCDigits
  WallName <- MCWallName
  WallType = {"A", "PTR", "ANY", "MX"}
  Base <- MCBase
  Bits = 2
  Value <- MCValue
  MaxShift = 3
  MaxText = 6
  RblLine <- MCRblLine
  MaxRbl = 3
  RblName <- MCRblName
  RblType = {"A", "ANY", "MX"}
  MaxData = 3
  MaxAnswer = 2
  PickLine <- MCPickLine
  MaxPick = 4
  PickName <- MCPickName
  PickType = {"A", "MX", "NS"}
  PickClient <- MCPickClient
INVARIANTS ServedRight NamesRead
PROPERTIES QuietAndRight
CHECK_DEADLOCK FALSE
