SPECIFICATION Spec
CONSTANTS
  Name <- MCName
  Parent <- MCParent
  Client <- MCClient
  LocKeys <- MCLocKeys
  QType = {"A", "NS", "MX", "ANY"}
  Databases <- MCAll
  Replaced <- MCReplaced
  MaxAddr = 2
  MaxRecords = 4
  Ttl = 9
  MinTtl = 2
  MaxTtl = 3
  MaxTime = 4
  MaxPublish = 2
INVARIANTS AnswerRight SectionsRight NothingForeign Timely
