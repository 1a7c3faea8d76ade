CONSTANTS
  t1 = t1  ann = ann  bob = bob
  None = None
  Tasks = {t1}
  Procs = {ann, bob}
  Agents = {ann, bob}
  AgentOf <- OwnName
  Deps <- NoDeps
  Kinds = {"start", "lock", "force_unlock", "complete", "update", "steal", "claim_or_steal", "fail", "claim", "sweep"}
  Expiry = 1
  StealAge = 1
  RedistributeAge = 1
  MaxClock = 3
  MaxVersion = 3
SPECIFICATION Spec
INVARIANTS LeaseHonoured
PROPERTIES OutcomeOverwrittenKnowingly TasksAreLeased
SYMMETRY Alike
