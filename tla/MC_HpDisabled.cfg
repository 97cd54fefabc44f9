SPECIFICATION Spec
CONSTANTS
  p1 = p1
  p2 = p2
  p3 = p3
  p4 = p4
  own = own
  other = other
  home = home
  n1 = n1
  n2 = n2
  d1 = d1
  d2 = d2
  Nodes = {n1, n2}
  NoNode = NoNode
  Pods = {p1, p2}
  NoPod = NoPod
  Volumes = {own}
  Disks = {d1, d2}
  Shared = {}
  Keep = {own}
  Capacity <- MC_Sizes
  VolumesOf <- MC_AllOwn
  DisksOf <- MC_OneDisabled
  PathPrefix <- MC_Same
  Promises = {"bound", "placed", "synced"}
INVARIANT AdmittedFits
CHECK_DEADLOCK FALSE
