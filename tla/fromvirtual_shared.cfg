SPECIFICATION Spec
CHECK_DEADLOCK FALSE
CONSTANTS
  a = a  b = b  red = red  blue = blue
  Nobody = Nobody  NoSelector = NoSelector  NoField = NoField  Absent = Absent
  Controllers = {a, b}
  Labels = {red, blue}
  Selector <- MCExcluding
  Wanted <- MCDivided
  Data = {1, 2}
  BackData = {1}
  Statuses = {1}
  StatusReversed = FALSE
  Environment = {"create", "create_controlled", "update", "relabel", "set_status", "delete", "host_update", "host_delete", "host_foreign", "restart", "call_failure"}
  MaxMoves = 4
INVARIANTS QuietMeansInStep QuietMeansNoLeftover
