CONSTANTS
  a = a  b = b  c = c  d = d  p1 = p1  p2 = p2
  Tasks = {a, b, c}
  Initial = {a, b, c}
  Procs = {p1, p2}
  Calls <- WalkerAndWriter
SPECIFICATION CallsGoOn
PROPERTIES AddReturns
