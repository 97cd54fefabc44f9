CONSTANTS
  p1 = p1
  p2 = p2
  t1 = t1
  t2 = t2
  prod = prod
  dev = dev
  sys = sys
  zone = zone
  va = va
  n1 = n1
  n2 = n2
  pod1 = pod1
  pod2 = pod2
  none = none
  Wildcard = Wildcard
  NilMap = NilMap
  Absent = Absent
  BadJson = BadJson
  NilData = NilData
  Nil = Nil
  Namespaces = {prod, dev}
  Listed = {prod, dev}
  Keys = {sys, zone}
  SysKey = sys
  EmptyKey = none
  BadKeys = {}
  Values = {va, Wildcard}
  Procs = {p1}
  Threads = {t1, t2}
  ProcOf <- SharedProcess
  Serves <- FreeServes
  Objects = {1, 2, 3, 4, 5}
  Nodes = {n1, n2}
  Pods = {pod1}
  PodNs <- PodNamespace
  InitStores <- Stores
  InitLabels <- OneLabeling
  InitPlaces <- PodWaits
  HandEdits = {}
  NewLabels = {}
  Faults = {"write", "read"}
  Pacing = "free"
  MaxEdits = 2
  MaxFaults = 1
  MaxHandEdits = 0
  MaxRestarts = 1
  MaxRelabels = 0
SPECIFICATION FairSpec
INVARIANTS
  SystemNodesGuarded
PROPERTIES
  Converges
CHECK_DEADLOCK FALSE
