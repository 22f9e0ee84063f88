\* Two runs over a graph with raw content and an LLM node, disk cache, several
\* tasks in flight that fail and are cancelled; fairness.
CONSTANTS
  v1 = v1
  v2 = v2
  a1 = a1
  a2 = a2
  Nodes <- JudgeNodes
  Upstreams <- JudgeUpstreams
  Kind <- JudgeKind
  ContentBearing <- JudgeContent
  Declassifies <- JudgeDeclassifies
  Runs = {r1, r2}
  Graphs = {"g"}
  Copies = {"a"}
  Copy <- JudgeCopy
  Config <- OneConfig
  Configs = {v1}
  Contents = {v1, v2}
  Missing = Missing
  Unreadable = Unreadable
  Empty = Empty
  NoValue = NoValue
  Samples = {v1, v2}
  ScopedNodes = {1}
  LenientNodes = {1}
  TargetSets <- JudgeTargets
  MaxConcurrency = 2
  FailFast = TRUE
  CacheDeclares = "persistent"
  CachePersists = TRUE
  OpaqueNodes = {4}
  MayFail = {1, 2, 3, 4, 5}
  CacheMayFail = FALSE
  MayCancel = TRUE
  MayCrash = FALSE
  MaxEdits = 1
SPECIFICATION FairSpec
INVARIANTS
  ContentBoundary
  ManifestContentFree
  CertifiedIsDeterministic
  CoherentWhenFound
  NoTaskOutlivesRun
PROPERTIES
  RunEnds
CHECK_DEADLOCK FALSE
