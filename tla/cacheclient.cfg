SPECIFICATION FairSpec
CONSTANTS
  Absent = Absent
  FirstRevision = 7
  MaxRevision = 13
  MaxPolls = 2
INVARIANTS TypeOK BlocksUntilVisible
PROPERTIES EveryCallReturns
