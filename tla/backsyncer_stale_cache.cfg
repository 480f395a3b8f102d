SPECIFICATION Spec
CHECK_DEADLOCK FALSE
CONSTANTS
  a = a  b = b
  User = User  NoField = NoField  Absent = Absent
  Controllers = {a}
  Data = {1}
  BackData = {1}
  NeedsName = FALSE
  Environment = {"host_create"}
  MaxMoves = 1
  MaxLag = 2
PROPERTIES DeletedOnlyByUser
