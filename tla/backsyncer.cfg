SPECIFICATION Spec
CHECK_DEADLOCK FALSE
CONSTANTS
  a = a  b = b
  User = User  NoField = NoField  Absent = Absent
  Controllers = {a}
  Data = {1, 2}
  BackData = {1, 2}
  NeedsName = FALSE
  Environment = {"host_create", "host_update", "host_delete", "user_create", "user_update", "user_delete", "parent", "resync", "handler_failure"}
  MaxMoves = 3
  MaxLag = 2
INVARIANTS TypeOK QuietMeansConsistent
PROPERTIES NoLostHostUpdate
