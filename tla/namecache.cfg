SPECIFICATION FairSpec
CHECK_DEADLOCK FALSE
CONSTANTS
  o1 = o1  o2 = o2
  h1 = h1  h2 = h2
  name = name  ref = ref
  c1 = c1  c2 = c2
  AnyPath = AnyPath  NoName = NoName  NoMapping = NoMapping  Absent = Absent
  VirtualNames = {o1, o2}
  Objects = {o1, o2}
  HostNames = {h1, h2}
  PhysicalName <- MCPhysicalName
  Paths = {name, ref}
  MetadataFieldPath = name
  Handlers = {c1}
  RewritePaths <- MCRewritePaths
  Uncompilable = {}
  Contents <- MCContents
  Selectors <- MCSelectors
  MaxChanges = 2
  MaxHostEvents = 1
INVARIANTS TypeOK IndexExact NoLostWakeup EveryNameResolves NoStaleName
PROPERTIES ImplementsResolver EventuallyResolved
