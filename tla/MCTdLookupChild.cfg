SPECIFICATION Spec
CONSTANTS
  Name <- MCName
  Parent <- MCParent
  Client <- MCClient
  LocKeys <- MCLocKeys
  QType = {"A", "NS", "MX", "ANY"}
  Databases <- MCBroken
  Replaced <- MCReplaced
  MaxAddr = 2
  MaxRecords = 4
  Ttl = 9
  MinTtl = 2
  MaxTtl = 3
  MaxTime = 1
  MaxPublish = 0
INVARIANTS ChildZone
