CONSTANTS
  a = a
  b = b
  e1 = e1
  e2 = e2
  a1 = a1
  a2 = a2
  free = free
  other = other
  Instances <- MCInstances
  Ports <- MCPorts
  Deployments <- MCDeployments
  Free <- free
  Other <- other
  Patient = TRUE
  MaxTrouble = 1
SPECIFICATION FairSpec
INVARIANTS
  TypeOK
  HealthTellsTruth
  AdminGuarded
PROPERTIES
  ModesIsolate
  ExtenderServes
  AdminServes
CHECK_DEADLOCK FALSE
