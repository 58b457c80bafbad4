SPECIFICATION Spec
CONSTANTS
  Snapshots <- MCSnapshots
  Scalars = {"x", "y"}
  Fields = {"a", "b", "c"}
  Depth = 3
  Texts <- MCStrings
  Streams <- MCStreams
  MaxStream = 5
  Rounds = 4
  EnvName = {"E"}
  MacroSets <- MCMacroSets
  Defs <- MCDefs
  Word = 256
  Half = 16
  MaxText = 40
  KeySize = 9
  Nesting = 3
  Files <- MCFiles
  Exact = 8
  Grown = 23
  Requests <- MCRequests
  Pages <- MCPages
  Visits <- MCVisits
INVARIANTS
  MergeSettles
  MergeIsOverride
  EventsAreTheStreams
  ExpansionIsUnique
  ListingIsUnique
  HeaderIsReadOrRefused
  ForwardedAsSent
  TrackedStreamsReport
  ScriptsRunInOrder
  PagesKeepToTheirRow
CHECK_DEADLOCK FALSE
