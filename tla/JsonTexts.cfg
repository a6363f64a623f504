SPECIFICATION FairSpec
CONSTANTS
  Texts <- NearJson
INVARIANTS
  JsonTypeOK
  FillsAllocation
  RepeatsFirstPass
  ReadsWhatWasAccepted
  RecursionIsNesting
  AcceptsJson
  WrittenAsRead
PROPERTIES
  ParseTerminates
CHECK_DEADLOCK FALSE
