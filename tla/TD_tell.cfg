CONSTANTS
  a = a  b = b  c = c  d = d  p1 = p1  p2 = p2
  Tasks = {a, b, c}
  Initial = {a, b, c}
  Procs = {p1, p2}
  Calls <- Everybody
SPECIFICATION Spec
INVARIANTS TypeOK LastCompletionAnnounces
SYMMETRY Alike
CHECK_DEADLOCK FALSE
