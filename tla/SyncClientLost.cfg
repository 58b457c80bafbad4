SPECIFICATION Spec
CONSTANTS
  p1 = p1
  Page = {p1}
  NoStore = NoStore
  Unlike = Unlike
  Get = Get
  NoPost = NoPost
  Cap = 1
  MaxWire = 1
  MaxDumps = 1
  MaxApplies = 1
  MaxWrites = 2
  MaxOther = 0
  MaxFaults = 0
INVARIANTS
  WriteSurvives
CHECK_DEADLOCK FALSE
