SPECIFICATION MCSpec
CONSTANTS
  Key <- MCKey
  Datum <- MCDatum
  KeyLen <- MCKeyLen
  DataLen <- MCDataLen
  Hash <- MCHash
  Tables = 2
  Wide = 93
  MaxEntries = 3
  None = None
  DataLine <- MCLine
  MaxData = 2
  Mtimes = {0, 5, 262144}
  Client = {"in", "ex"}
  Times = {2, 3, 4}
  MaxString = 4
  Short = 1024
  Long = 262144
  Editor <- MCEditor
  Letters <- MCLetters
  Old <- MCOld
  Command <- MCCommand
  MaxEdits = 3
  FileLines = 2
  Bad = {2}
  Server = {"s", "t"}
  MaxVersion = 3
  MaxFailures = 2
  MaxCrashes = 2
  e1 = e1
  e2 = e2
  host = host
  other = other
  one = one
  two = two
  far = far
INVARIANTS Layout ReadsInside Compiled Edited Copied ServedWhole
PROPERTIES IsMultimap KeptAndSkipped
CHECK_DEADLOCK FALSE
