SPECIFICATION FairSpec
CHECK_DEADLOCK FALSE
CONSTANTS
  g1 = g1  g2 = g2  p1 = p1  s1 = s1
  Parents = {g1, g2}
  Paths = {p1}
  Targets = {s1}
  Kind = "Secret"
  forceSyncSecrets <- MCOnePath
  forceSyncConfigmaps <- MCNone
  Environment = {"parent", "target", "restart", "call_failure"}
  MaxMoves = 4
INVARIANTS TypeOK QuietMeansMarked
PROPERTIES NeverUnmarkedWhileReferenced EventuallyMarked
