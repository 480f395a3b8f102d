SPECIFICATION FairSpec
CHECK_DEADLOCK FALSE
CONSTANTS
  a = a  b = b  red = red  blue = blue
  Nobody = Nobody  NoSelector = NoSelector  NoField = NoField  Absent = Absent
  Controllers = {a}
  Labels = {red, blue}
  Selector <- MCExcluding
  Wanted <- MCDivided
  Data = {1, 2}
  BackData = {1}
  Statuses = {1}
  StatusReversed = TRUE
  Environment = {"create", "create_controlled", "update", "relabel", "set_status", "delete", "host_update", "host_delete", "restart", "call_failure"}
  MaxMoves = 5
INVARIANTS TypeOK QuietMeansNoLeftover
PROPERTIES ReverseKeepsUserEdits EventuallyInStep
