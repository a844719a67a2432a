SPECIFICATION MCSpec
CONSTANTS
  Lines = 2
  Bad = {2}
  Server = {"s", "t"}
  MaxVersion = 3
  MaxFailures = 2
  MaxCrashes = 2
PROPERTIES DataPublished LinesWritten
CHECK_DEADLOCK FALSE
