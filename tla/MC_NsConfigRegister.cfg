CONSTANTS
  prod = prod
  dev = dev
  sys = sys
  zone = zone
  bad = bad
  none = none
  va = va
  Wildcard = Wildcard
  NilMap = NilMap
  Absent = Absent
  BadJson = BadJson
  NilData = NilData
  Namespaces = {prod, dev}
  Listed = {prod, dev}
  Keys = {sys, zone, bad, none}
  SysKey = sys
  EmptyKey = none
  BadKeys = {bad}
  Values = {va, Wildcard}
  EditRequests <- MCRequests
  InitConfigs <- MCInitConfigs
SPECIFICATION Spec
INVARIANT TypeOK
PROPERTIES
  AddNarrows
  OthersUnmoved
CHECK_DEADLOCK FALSE
