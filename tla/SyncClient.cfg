SPECIFICATION FairSpec
CONSTANTS
  p1 = p1
  Page = {p1}
  NoStore = NoStore
  Unlike = Unlike
  Get = Get
  NoPost = NoPost
  Cap = 1
  MaxWire = 1
  MaxDumps = 1
  MaxApplies = 1
  MaxWrites = 1
  MaxOther = 1
  MaxFaults = 1
INVARIANTS
  TypeOK
  SuppressedOnlyWhileApplying
  SkippedIsUploaded
PROPERTIES
  EveryWriteSettles
  ScriptsRun
CHECK_DEADLOCK FALSE
