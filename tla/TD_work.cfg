CONSTANTS
  a = a  b = b  c = c  d = d  p1 = p1  p2 = p2
  Tasks = {a, b, c}
  Initial = {a}
  Procs = {p1, p2}
  Calls <- TwoCompleters
SPECIFICATION FairSpec
INVARIANTS Acyclic NeverStuck
PROPERTIES AddsLikeOneStep EverythingFinishes
CHECK_DEADLOCK FALSE
