SPECIFICATION FairSpec
CHECK_DEADLOCK FALSE
CONSTANTS
  a = a  b = b
  User = User  NoField = NoField  Absent = Absent
  Controllers = {a}
  Data = {1, 2}
  BackData = {1}
  NeedsName = TRUE
  Environment = {"host_create", "host_update", "host_delete", "user_delete", "parent", "crash", "call_failure"}
  MaxMoves = 3
  MaxLag = 1
INVARIANTS QuietMeansSettled
PROPERTIES EventuallyConsistent
