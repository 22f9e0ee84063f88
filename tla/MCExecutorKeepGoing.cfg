\* One run over a wide graph, two slots, fail_fast off, every node and the cache
\* may raise.
CONSTANTS
  v1 = v1
  v2 = v2
  a1 = a1
  a2 = a2
  Nodes <- WideNodes
  Upstreams <- WideUpstreams
  Kind <- WideKind
  ContentBearing <- WideFlags
  Declassifies <- WideFlags
  Runs = {r1}
  Graphs = {"g"}
  Copies = {"a"}
  Copy <- WideCopy
  Config <- OneConfig
  Configs = {v1}
  Contents = {v1, v2}
  Missing = Missing
  Unreadable = Unreadable
  Empty = Empty
  NoValue = NoValue
  Samples = {v1}
  ScopedNodes = {1, 2}
  LenientNodes = {}
  TargetSets <- WideTargets
  MaxConcurrency = 2
  FailFast = FALSE
  CacheDeclares = "transient"
  CachePersists = FALSE
  OpaqueNodes = {}
  MayFail = {1, 2, 3, 4, 5, 6, 7}
  CacheMayFail = TRUE
  MayCancel = TRUE
  MayCrash = FALSE
  MaxEdits = 0
SPECIFICATION Spec
INVARIANTS
  SchedulerExact
  EndedIsComplete
PROPERTIES
  StartedOnce
CHECK_DEADLOCK FALSE
