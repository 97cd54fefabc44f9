SPECIFICATION FairSpec
CONSTANTS
  p1 = p1
  p2 = p2
  p3 = p3
  own = own
  home = home
  n1 = n1
  n2 = n2
  n3 = n3
  d1 = d1
  Nodes = {n1, n2, n3}
  NoNode = NoNode
  Pods = {p1, p2, p3}
  NoPod = NoPod
  Volumes = {own, home}
  Disks = {d1}
  Shared = {home}
  Keep = {own, home}
  Capacity <- MC_Sizes
  VolumesOf <- MC_VolumesOf
  DisksOf <- MC_DisksOf
  PathPrefix <- MC_Same
  Kinds = {"diskuse", "spread"}
  Other = {}
  BrokenSets = {{}, {n1, n3}}
  Views <- MC_Views
INVARIANT TypeOK
INVARIANT RankedByReading
INVARIANT RankedTruly
INVARIANT AnswerWhole
INVARIANT ErrorsKept
PROPERTY Answers
