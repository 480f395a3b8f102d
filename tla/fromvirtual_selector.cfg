SPECIFICATION Spec
CHECK_DEADLOCK FALSE
CONSTANTS
  a = a  b = b  red = red  blue = blue
  Nobody = Nobody  NoSelector = NoSelector  NoField = NoField  Absent = Absent
  Controllers = {a}
  Labels = {red, blue}
  Selector <- MCDivided
  Wanted <- MCDivided
  Data = {1}
  BackData = {}
  Statuses = {}
  StatusReversed = TRUE
  Environment = {"create", "relabel", "delete"}
  MaxMoves = 2
INVARIANTS QuietMeansInStep
