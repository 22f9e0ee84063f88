\* The file is missing while a run is planned and there when it is read.
CONSTANTS
  v1 = v1
  v2 = v2
  a1 = a1
  a2 = a2
  Nodes <- AuditNodes
  Upstreams <- AuditUpstreams
  Kind <- AuditKind
  ContentBearing <- AuditContent
  Declassifies <- AuditDeclassifies
  Runs = {r1, r2}
  Graphs = {"g"}
  Copies = {"a"}
  Copy <- OneGraphCopy
  Config <- OneConfig
  Configs = {v1}
  Contents = {v1, v2}
  Missing = Missing
  Unreadable = Unreadable
  Empty = Empty
  NoValue = NoValue
  Samples = {v1}
  ScopedNodes = {1, 2}
  LenientNodes = {1}
  TargetSets <- AuditTargets
  MaxConcurrency = 2
  FailFast = TRUE
  CacheDeclares = "persistent"
  CachePersists = TRUE
  OpaqueNodes = {}
  MayFail = {}
  CacheMayFail = FALSE
  MayCancel = FALSE
  MayCrash = FALSE
  MaxEdits = 3
SPECIFICATION Spec
INVARIANTS
  CoherentOutputs
CHECK_DEADLOCK FALSE
