CONSTANTS
  t1 = t1  ann = ann  bob = bob
  None = None
  Tasks = {t1}
  Procs = {ann, bob}
  Agents = {ann, bob}
  AgentOf <- OwnName
  Deps <- NoDeps
  Kinds <- MostKinds
  Expiry = 1
  StealAge = 1
  RedistributeAge = 1
  MaxClock = 3
  MaxVersion = 4
SPECIFICATION Spec
INVARIANTS TypeOK FinishedUnlocked VersionIdentifiesRow
PROPERTIES CompletionByHolder
SYMMETRY Alike
