SPECIFICATION FairSpec
CHECK_DEADLOCK FALSE
CONSTANTS
  a = a  b = b  red = red  blue = blue
  Nobody = Nobody  NoSelector = NoSelector  NoField = NoField  Absent = Absent
  Controllers = {a}
  Labels = {red}
  Selector <- MCNoSelectors
  Wanted <- MCAll
  Data = {1}
  BackData = {}
  Statuses = {1}
  StatusReversed = FALSE
  Environment = {"create", "set_status"}
  MaxMoves = 2
PROPERTIES EventuallyInStep
