CONSTANTS
  a1 = a1  a2 = a2  h1 = h1  h2 = h2  ann = ann  bob = bob
  None = None
  Attempts = {a1, a2}
  Heads = {h1, h2}
  Actors = {ann, bob}
  Verdicts = {"approved", "changes_requested"}
  RepairLimit = 1
  MaxLog = 5
SPECIFICATION FairSpec
INVARIANTS TypeOK OneWriter GenerationsInOrder
PROPERTIES TerminalIsFinal MergedIsCleanedUp MergesAreReviewed
CHECK_DEADLOCK FALSE
