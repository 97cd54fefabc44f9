SPECIFICATION FairSpec
CONSTANTS
  p1 = p1
  p2 = p2
  p3 = p3
  p4 = p4
  own = own
  other = other
  home = home
  n1 = n1
  n2 = n2
  d1 = d1
  d2 = d2
  Nodes = {n1, n2}
  NoNode = NoNode
  Pods = {p1, p2}
  NoPod = NoPod
  Volumes = {home}
  Disks = {d1}
  Shared = {home}
  Keep = {home}
  Capacity <- MC_Small
  VolumesOf <- MC_AllHome
  DisksOf <- MC_Ample
  PathPrefix <- MC_Same
  Promises = {}
PROPERTY EveryPodBinds
CHECK_DEADLOCK FALSE
