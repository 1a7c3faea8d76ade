SPECIFICATION FairSpec
CONSTANTS
  d1 = d1  d2 = d2  p1 = p1  p2 = p2  p3 = p3  None = None
  Dispatches = {d1, d2}
  Procs = {p1, p2}
  Sweepers = {p2}
  MaxFaults = 1
INVARIANTS TypeOK SentWasShown RepeatsHaveACause
PROPERTIES SettledIsQuiet DueIsSettled
CHECK_DEADLOCK FALSE
