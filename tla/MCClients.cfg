SPECIFICATION MCSpec
CONSTANTS
  Byte = 6
  Ptr = 4
  Lab = 3
  NameMax = 4
  LoopMax = 9
  Packets <- MCPackets
  Programs = {"packet", "domain", "resolve", "loglol", "dnsfilter", "dnstrace"}
  Configs <- MCConfigs
  Names <- MCAsked
  Numbers = {"1"}
  Answer <- MCAnswer
  Uses = 2
  Life = 1
  MaxIps = 2
  MaxTime = 2
  MaxCalls = 3
  None = None
  Error = Error
  Zero = Zero
  Local = Local
  LOGLINES = 0
  KEEPTIME = 1
  OldFiles <- MCLeft
  Begin = 3
  MaxLog = 5
  MaxLines = 4
  Inputs <- MCInputs
  Address <- MCAddress
  NewLine = "nl"
  Blank = " "
  xmax = 3
  maxactive = 2
  Size = 3
  localip = localip
  Broken = Broken
  ip1 = ip1
  ip2 = ip2
INVARIANTS WellFormed NamesAgree OrderKept LinesWhole Closed
 
CHECK_DEADLOCK FALSE
