SPECIFICATION Spec
CONSTANTS
  ann = ann  bob = bob  p1 = p1  p2 = p2
  f = f  advisory = advisory  exclusive = exclusive  r1 = r1  None = None
  Paths = {f}
  Slots = {advisory, exclusive}
  ResourceOf <- OneResource
  Agents = {ann, bob}
  Procs = {p1, p2}
  AgentOf <- TwoAgents
  TTLs = {1}
  MaxClock = 3
  MaxIds = 4
SYMMETRY Alike
INVARIANTS TypeOK GrantHonoured
PROPERTIES LocksAreLeases
CHECK_DEADLOCK FALSE
