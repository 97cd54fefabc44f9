CONSTANTS
  MaxVolumes = 4
  MaxDisks = 3
  MaxSize = 4
  RequestLists <- MCRequestLists
  HaveLists <- MCHaveLists
SPECIFICATION Spec
INVARIANTS
  TypeOK
  MatchFits
  RefusedFitsNowhere
  OneVolumeExact
  TwoVolumesExact
  LoopIsWalk
PROPERTIES
  Terminates
CHECK_DEADLOCK FALSE
