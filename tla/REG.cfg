SPECIFICATION Spec
CONSTANTS
  s1 = s1  s2 = s2  x = x  y = y  n1 = n1  p1 = p1  p2 = p2
  Steps = {s1, s2}
  Sources = {x, y}
  Names = {n1}
  Procs = {p1, p2}
  VersionOf <- OneRelease
  RetryLimit = 2
  MaxCalls = 4
  MaxFaults = 1
  MaxWrites = 2
SYMMETRY Alike
INVARIANTS
  TypeOK
  RegistryAgrees
PROPERTIES
  RegistersOnce
CHECK_DEADLOCK FALSE
