CONSTANTS
  Objects <- MCObjects
  Others <- MCOthers
  Nil <- MCNil
  PatchLists <- MCPatchLists
  Ignores <- MCIgnores
  MaxRounds = 3
  CachedNames <- MCCachedNames
SPECIFICATION Spec
CHECK_DEADLOCK FALSE
INVARIANTS TypeOK CarefulListsStaySound IgnoredPathsAbsent Settles
PROPERTIES PatchesWhatItSelects CreatesWhatItNames
