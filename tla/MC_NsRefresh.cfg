CONSTANTS
  p1 = p1
  p2 = p2
  t1 = t1
  t2 = t2
  prod = prod
  dev = dev
  sys = sys
  zone = zone
  va = va
  n1 = n1
  n2 = n2
  pod1 = pod1
  pod2 = pod2
  none = none
  Wildcard = Wildcard
  NilMap = NilMap
  Absent = Absent
  BadJson = BadJson
  NilData = NilData
  Nil = Nil
  Namespaces = {prod, dev}
  Listed = {prod, dev}
  Keys = {sys, zone}
  SysKey = sys
  EmptyKey = none
  BadKeys = {}
  Values = {va, Wildcard}
  Procs = {p1}
  Threads = {t1}
  ProcOf <- OneProcess
  Serves <- RefreshServes
  Objects = {1, 2, 3, 4}
  Nodes = {n1, n2}
  Pods = {pod1, pod2}
  PodNs <- PodNamespaces
  InitStores <- Created
  InitLabels <- OneLabeling
  InitPlaces <- OnePlacing
  HandEdits = {}
  NewLabels = {}
  Faults = {}
  Pacing = "serial"
  MaxEdits = 1
  MaxFaults = 0
  MaxHandEdits = 0
  MaxRestarts = 0
  MaxRelabels = 0
SPECIFICATION Spec
PROPERTIES
  RefreshKeepsSoftMismatch
CHECK_DEADLOCK FALSE
