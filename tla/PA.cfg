SPECIFICATION Spec
CONSTANTS
  home = home  away = away  p1 = p1  m1 = m1  t1 = t1  g1 = g1
  k1 = k1  k2 = k2  op = op  e1 = e1
  None = None
  Projects = {home, away}
  Plans = {p1, m1}
  Tasks = {t1, g1}
  OrdinaryPlans = {p1}
  OrdinaryTasks = {t1}
  Procs = {c1}
  Keys = {k1, k2}
  Ops = {op}
  Effects = {e1}
  PlanOf <- MCPlanOf
  TasksOf <- MCTasksOf
  ProjectOf <- MCProjectOf
  MaxWrites = 3
SYMMETRY Alike
INVARIANTS
  TypeOK
  NothingDangles
  CompensatedIsUndone
PROPERTIES
  CompensationIsContained
  MembershipIsKept
CHECK_DEADLOCK FALSE
