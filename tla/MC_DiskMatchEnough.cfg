CONSTANTS
  MaxVolumes = 3
  MaxDisks = 3
  MaxSize = 3
  RequestLists <- MCRequestLists
  HaveLists <- MCHaveLists
SPECIFICATION Spec
INVARIANTS
  EnoughIsMatch
CHECK_DEADLOCK FALSE
