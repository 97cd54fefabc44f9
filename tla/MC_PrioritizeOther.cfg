SPECIFICATION Spec
CONSTANTS
  p1 = p1
  p2 = p2
  p3 = p3
  own = own
  home = home
  n1 = n1
  n2 = n2
  n3 = n3
  d1 = d1
  Nodes = {n1, n2}
  NoNode = NoNode
  Pods = {p1, p2, p3}
  NoPod = NoPod
  Volumes = {own, home}
  Disks = {d1}
  Shared = {home}
  Keep = {own, home}
  Capacity <- MC_Sizes
  VolumesOf <- MC_OwnOnly
  DisksOf <- MC_DisksOf
  PathPrefix <- MC_Same
  Kinds = {"spread"}
  Other = {own}
  BrokenSets = {{}}
  Views <- MC_Views
INVARIANT SpreadSkipsOther
