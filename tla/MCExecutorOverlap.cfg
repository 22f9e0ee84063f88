\* Two runs over graphs that share some, all or none of their node objects, one
\* disk cache, fail_fast, a file that goes missing, cancellation and crashes; a
\* file and a key that change while a run is planned and after it.
CONSTANTS
  v1 = v1
  v2 = v2
  a1 = a1
  a2 = a2
  Nodes <- AuditNodes
  Upstreams <- AuditUpstreams
  Kind <- AuditKind
  ContentBearing <- AuditContent
  Declassifies <- AuditDeclassifies
  Runs = {r1, r2}
  Graphs = {"g", "h", "k"}
  Copies = {"a", "b"}
  Copy <- AuditCopy
  Config <- OwnConfigs
  Configs = {a1, a2}
  Contents = {v1, v2}
  Missing = Missing
  Unreadable = Unreadable
  Empty = Empty
  NoValue = NoValue
  Samples = {a1}
  ScopedNodes = {1, 2}
  LenientNodes = {1}
  TargetSets <- AuditTargets
  MaxConcurrency = 2
  FailFast = TRUE
  CacheDeclares = "persistent"
  CachePersists = TRUE
  OpaqueNodes = {}
  MayFail = {}
  CacheMayFail = FALSE
  MayCancel = TRUE
  MayCrash = TRUE
  MaxEdits = 2
SYMMETRY Exchange
SPECIFICATION Spec
INVARIANTS
  TypeOK
  Isolation
  SnapshotHeld
  OutputsMatchPlan
  CacheSound
PROPERTIES
  RunsAreSnapshots
CHECK_DEADLOCK FALSE
