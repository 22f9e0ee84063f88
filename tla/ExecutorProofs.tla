--------------------------- MODULE ExecutorProofs -----------------------------
(* Safety of Executor, for every graph, every number of runs and graph        *)
(* objects, every cache and every amount of change outside.  IInv is shown    *)
(* inductive one part at a time; Bookkeeping, beside it, is about one run's   *)
(* queue, slots and records.                                                  *)
EXTENDS Executor, FiniteSetTheorems, TLAPS

-----------------------------------------------------------------------------
(* The closures of GraphPlan, for every graph.  The code computes each from a *)
(* node's direct upstreams (graph.py:251-318); the lemmas say that the least  *)
(* closed sets obey those same equations.                                     *)

(* A closed set that holds a node holds its lineage.                          *)
LEMMA LineageIsLeast ==
  ASSUME NEW n \in Nodes, NEW S \in SUBSET Nodes, n \in S, UpClosed(S)
  PROVE  Lineage[n] \subseteq S
BY DEF Lineage

(* A lineage is a set of nodes, holds its node, and is closed.                *)
LEMMA LineageIsClosed ==
  ASSUME NEW n \in Nodes
  PROVE  Lineage[n] \subseteq Nodes /\ n \in Lineage[n] /\ UpClosed(Lineage[n])
<1>1. Lineage[n] \subseteq Nodes /\ n \in Lineage[n]
  BY DEF Lineage
<1>2. ASSUME NEW m \in Lineage[n], NEW u \in Upstreams[m]
      PROVE  u \in Lineage[n]
  <2>1. m \in Nodes /\ u \in Nodes
    BY <1>1, <1>2, GraphAssumption
  <2>2. ASSUME NEW S \in SUBSET Nodes, n \in S, UpClosed(S)
        PROVE  u \in S
    <3>1. m \in S
      BY <1>2, <2>2, LineageIsLeast
    <3> QED
      BY <1>2, <2>2, <3>1 DEF UpClosed
  <2> QED
    BY <2>1, <2>2 DEF Lineage
<1> QED
  BY <1>1, <1>2 DEF UpClosed

(* What a cache key hashes: the node and its upstreams' keys (graph.py:232).  *)
LEMMA LineageUnfold ==
  ASSUME NEW n \in Nodes
  PROVE  Lineage[n] = {n} \cup UNION {Lineage[u] : u \in Upstreams[n]}
<1> DEFINE S == {n} \cup UNION {Lineage[u] : u \in Upstreams[n]}
<1>1. Upstreams[n] \subseteq Nodes
  BY GraphAssumption
<1>2. S \in SUBSET Nodes
  BY <1>1, LineageIsClosed
<1>3. UpClosed(S)
  <2>1. ASSUME NEW m \in S, NEW u \in Upstreams[m]
        PROVE  u \in S
    <3>1. CASE m = n
      BY <3>1, <2>1, <1>1, LineageIsClosed
    <3>2. CASE m # n
      <4>1. PICK w \in Upstreams[n] : m \in Lineage[w]
        BY <3>2, <2>1
      <4>2. u \in Lineage[w]
        BY <4>1, <1>1, <2>1, LineageIsClosed DEF UpClosed
      <4> QED
        BY <4>1, <4>2
    <3> QED
      BY <3>1, <3>2
  <2> QED
    BY <2>1 DEF UpClosed
<1>4. Lineage[n] \subseteq S
  <2> HIDE DEF S
  <2>1. n \in S
    BY DEF S
  <2> QED
    BY <1>2, <1>3, <2>1, LineageIsLeast
<1>5. S \subseteq Lineage[n]
  <2>1. ASSUME NEW u \in Upstreams[n]
        PROVE  Lineage[u] \subseteq Lineage[n]
    <3>1. u \in Lineage[n] /\ u \in Nodes
      BY <1>1, <2>1, LineageIsClosed DEF UpClosed
    <3> QED
      BY <3>1, LineageIsClosed, LineageIsLeast
  <2> QED
    BY <2>1, LineageIsClosed
<1> QED
  BY <1>4, <1>5

(* What is needed for some targets includes the upstreams of what is needed.  *)
LEMMA AncestorsClosed ==
  ASSUME NEW T \in SUBSET Nodes
  PROVE  Ancestors(T) \subseteq Nodes /\ UpClosed(Ancestors(T)) /\ T \subseteq Ancestors(T)
<1>1. \A t \in T : t \in Nodes
  OBVIOUS
<1> QED
  BY <1>1, LineageIsClosed DEF Ancestors, UpClosed

(* When nothing of what is needed can start, every node that has not started  *)
(* is computed from one that has been lost.                                   *)
LEMMA StuckBehind ==
  ASSUME NEW N \in SUBSET Nodes, UpClosed(N), NEW I \in SUBSET N, NEW D,
         \A n \in I : ~(Upstreams[n] \subseteq D),
         NEW n \in I
  PROVE  Lineage[n] \cap (N \ (I \cup D)) # {}
<1> DEFINE Lost == N \ (I \cup D)
           U == {m \in I : Lineage[m] \cap Lost = {}}
<1> SUFFICES ASSUME U # {} PROVE FALSE
  OBVIOUS
<1>1. U \in SUBSET Nodes
  OBVIOUS
<1>2. PICK x \in U : Upstreams[x] \cap U = {}
  <2> HIDE DEF U
  <2> QED
    BY <1>1, AcyclicAssumption
<1>3. PICK u \in Upstreams[x] : u \notin D
  OBVIOUS
<1>4. x \in Nodes /\ u \in Nodes /\ u \in N
  BY GraphAssumption DEF UpClosed
<1>5. u \in Lineage[u] /\ Lineage[u] \subseteq Lineage[x]
  BY <1>4, LineageUnfold
<1>6. u \in I
  BY <1>3, <1>4, <1>5
<1> QED
  BY <1>2, <1>3, <1>5, <1>6

-----------------------------------------------------------------------------
(* A downstream closure holds its seeds, and whatever reads one of its nodes. *)
LEMMA DownstreamIsClosed ==
  ASSUME NEW seeds \in SUBSET Nodes
  PROVE  /\ DownstreamOf(seeds) \subseteq Nodes
         /\ seeds \subseteq DownstreamOf(seeds)
         /\ DownClosed(DownstreamOf(seeds))
<1> DEFINE D == DownstreamOf(seeds)
<1>1. D \subseteq Nodes /\ seeds \subseteq D
  BY DEF DownstreamOf
<1>2. ASSUME NEW n \in Nodes, Upstreams[n] \cap D # {}
      PROVE  n \in D
  <2>1. PICK u \in Upstreams[n] : u \in D
    BY <1>2
  <2>2. ASSUME NEW S \in SUBSET Nodes, seeds \subseteq S, DownClosed(S)
        PROVE  n \in S
    <3>1. u \in S
      BY <2>1, <2>2 DEF DownstreamOf
    <3> QED
      BY <2>1, <2>2, <3>1 DEF DownClosed
  <2> QED
    BY <2>2 DEF DownstreamOf
<1> QED
  BY <1>1, <1>2 DEF DownClosed

(* A node no seed reaches has no seed in its lineage.                         *)
LEMMA NoSeedInLineage ==
  ASSUME NEW seeds \in SUBSET Nodes, NEW n \in Nodes, n \notin DownstreamOf(seeds)
  PROVE  Lineage[n] \cap DownstreamOf(seeds) = {}
<1> DEFINE D == DownstreamOf(seeds)
           S == Nodes \ D
<1>1. DownClosed(D)
  BY DownstreamIsClosed
<1>2. UpClosed(S)
  <2>1. ASSUME NEW m \in S, NEW u \in Upstreams[m]
        PROVE  u \in S
    <3>1. u \in Nodes
      BY GraphAssumption
    <3> QED
      BY <1>1, <3>1, <2>1 DEF DownClosed
  <2> QED
    BY <2>1 DEF UpClosed
<1>3. Lineage[n] \subseteq S
  <2> HIDE DEF S
  <2>1. S \in SUBSET Nodes /\ n \in S
    BY DEF S
  <2> QED
    BY <1>2, <2>1, LineageIsLeast
<1> QED
  BY <1>3

(* The tainted nodes are exactly those computed from a stochastic one.        *)
THEOREM TaintedIffStochasticLineage ==
  \A n \in Nodes : n \in TaintedNodes <=> \E m \in Lineage[n] : Kind[m] = "stochastic"
<1> DEFINE seeds == {n \in Nodes : Kind[n] = "stochastic"}
           S == {n \in Nodes : \E m \in Lineage[n] : Kind[m] = "stochastic"}
<1>1. DownClosed(S)
  <2>1. ASSUME NEW n \in Nodes, NEW u \in Upstreams[n], u \in S
        PROVE  n \in S
    <3>1. Lineage[u] \subseteq Lineage[n]
      BY LineageUnfold
    <3> QED
      BY <2>1, <3>1
  <2> QED
    BY <2>1 DEF DownClosed
<1>2. seeds \subseteq S
  BY LineageIsClosed
<1>3. TaintedNodes \subseteq S
  <2> HIDE DEF S
  <2>1. S \in SUBSET Nodes
    BY DEF S
  <2> QED
    BY <1>1, <1>2, <2>1 DEF TaintedNodes, DownstreamOf
<1>4. ASSUME NEW n \in Nodes, NEW m \in Lineage[n], Kind[m] = "stochastic"
      PROVE  n \in TaintedNodes
  <2>1. m \in seeds
    BY <1>4, LineageIsClosed
  <2>2. m \in DownstreamOf(seeds)
    <3> HIDE DEF seeds
    <3>1. seeds \in SUBSET Nodes
      BY DEF seeds
    <3> QED
      BY <2>1, <3>1, DownstreamIsClosed
  <2>3. TaintedNodes = DownstreamOf(seeds)
    BY DEF TaintedNodes
  <2> QED
    BY <2>2, <2>3, <1>4, NoSeedInLineage
<1> QED
  BY <1>3, <1>4

(* What the cache may not keep: resident and stochastic nodes, and readers.   *)
LEMMA CacheUnsafeClosed ==
  ASSUME NEW n \in Nodes, n \notin CacheUnsafeNodes
  PROVE  IsCacheable(n) /\ Upstreams[n] \cap CacheUnsafeNodes = {}
<1> DEFINE seeds == {m \in Nodes : Kind[m] \in {"resident", "stochastic"}}
<1>1. DownClosed(CacheUnsafeNodes) /\ seeds \subseteq CacheUnsafeNodes
  BY DownstreamIsClosed DEF CacheUnsafeNodes
<1> QED
  BY <1>1, GraphAssumption DEF DownClosed, IsCacheable, Kinds

(* Tainted nodes are among them, so nothing tainted is ever cached.           *)
LEMMA TaintedIsCacheUnsafe == TaintedNodes \subseteq CacheUnsafeNodes
<1> DEFINE seeds == {m \in Nodes : Kind[m] \in {"resident", "stochastic"}}
<1>1. /\ DownClosed(CacheUnsafeNodes)
      /\ seeds \subseteq CacheUnsafeNodes
      /\ CacheUnsafeNodes \subseteq Nodes
  BY DownstreamIsClosed DEF CacheUnsafeNodes
<1> QED
  BY <1>1 DEF TaintedNodes, DownstreamOf

(* The content-bearing pass reaches every node its rule names.                *)
LEMMA ContentBearingClosed ==
  ASSUME NEW n \in Nodes, CarriesContent(n, ContentBearingNodes)
  PROVE  n \in ContentBearingNodes
<1>1. ASSUME NEW S \in SUBSET Nodes, \A m \in Nodes : CarriesContent(m, S) => m \in S
      PROVE  n \in S
  <2>1. ContentBearingNodes \subseteq S
    BY <1>1 DEF ContentBearingNodes
  <2>2. CarriesContent(n, S)
    BY <2>1 DEF CarriesContent
  <2> QED
    BY <1>1, <2>2
<1> QED
  BY <1>1 DEF ContentBearingNodes

-----------------------------------------------------------------------------
(* Runs over a plan *)

LEMMA InitInvariant == Init => IInv
<1> SUFFICES ASSUME Init PROVE IInv
  OBVIOUS
<1>1. TypeOK
  <2>1. (CHOOSE g \in Graphs : TRUE) \in Graphs
    BY ExecutorAssumption
  <2>2. 0 \in 0 .. MaxEdits
    BY ExecutorAssumption
  <2> QED
    BY <2>1, <2>2 DEF Init, TypeOK, Exts, PCs, TaskStates
<1>2. Isolation /\ SnapshotHeld /\ PlanFixed
  BY DEF Init, Isolation, SnapshotHeld, PlanFixed, Live
<1>3. PlanComplete /\ Scheduled
  BY DEF Init, PlanComplete, Scheduled, UpClosed, Begun
<1>4. Results /\ ValuesTracked
  BY DEF Init, Results, ValuesTracked, TasksIn
<1>5. CacheSound /\ CacheTracked /\ ManifestContentFree
  BY DEF Init, CacheSound, CacheTracked, ManifestContentFree
<1> QED
  BY <1>1, <1>2, <1>3, <1>4, <1>5 DEF IInv

-----------------------------------------------------------------------------
(* What execute() makes of a node's stored inputs *)

(* The snapshot is what execute() finds: a running node takes from outside    *)
(* exactly what its config_key() said, unless the file was missing then.      *)
LEMMA ExtIsPlanned ==
  ASSUME IInv, NEW r \in Runs, NEW n \in Nodes, Live(r),
         NEW ext \in ExtsOf(r, n),
         n \in ScopedNodes => ~ResolveFails(Instance(graph[r], n))
  PROVE  /\ ext \in Exts
         /\ n \notin CacheUnsafeNodes /\ plan[r][n] # Missing => ext = plan[r][n]
<1> DEFINE i == Instance(graph[r], n)
<1>1. graph[r] \in Graphs /\ Copy[graph[r]][n] \in Copies /\ i \in Instances /\ i[1] = n
  BY ExecutorAssumption DEF IInv, TypeOK, Instance, Instances
<1>2. CASE n \in ScopedNodes
  <2>1. ext = Resolved(i) /\ ext \notin {Missing, Unreadable}
    BY <1>2 DEF ExtsOf, ResolveFails
  <2>2. scoped[i] \in Contents \cup {Empty} /\ world[n] \in Contents \cup {Missing, Unreadable}
    BY <1>1, <1>2 DEF IInv, TypeOK
  <2>3. ext \in Exts
    BY <1>1, <2>1, <2>2 DEF Resolved, Exts
  <2>4. ASSUME plan[r][n] # Missing
        PROVE  ext = plan[r][n]
    <3>1. scoped[i] = plan[r][n]
      BY <1>2, <2>4 DEF IInv, SnapshotHeld
    <3>2. plan[r][n] \in Exts
      BY DEF IInv, TypeOK
    <3>3. scoped[i] # Empty
      BY <3>1, <3>2, ExecutorAssumption
    <3> QED
      BY <2>1, <3>1, <3>3 DEF Resolved
  <2> QED
    BY <2>3, <2>4
<1>3. CASE n \notin ScopedNodes /\ IsCacheable(n)
  <2>1. ext = Config[Copy[graph[r]][n]]
    BY <1>3 DEF ExtsOf
  <2>2. ext \in Exts
    BY <1>1, <2>1, ExecutorAssumption DEF Exts
  <2> QED
    BY <1>3, <2>1, <2>2 DEF IInv, PlanFixed
<1>4. CASE n \notin ScopedNodes /\ ~IsCacheable(n)
  <2>1. ext \in Samples
    BY <1>4 DEF ExtsOf
  <2>2. n \in CacheUnsafeNodes
    BY <1>4, CacheUnsafeClosed
  <2> QED
    BY <2>1, <2>2 DEF Exts
<1> QED
  BY <1>2, <1>3, <1>4

(* The digest of a node is its own pair and the digests of its upstreams.     *)
LEMMA DigestUnfold ==
  ASSUME NEW r \in Runs, NEW n \in Nodes
  PROVE  Digest(r, n) = {<<n, plan[r][n]>>} \cup UNION {Digest(r, u) : u \in Upstreams[n]}
<1>1. Lineage[n] = {n} \cup UNION {Lineage[u] : u \in Upstreams[n]}
  BY LineageUnfold
<1> QED
  BY <1>1 DEF Digest

(* The inputs of a started node are there, and sound.                         *)
LEMMA InputsStored ==
  ASSUME IInv, NEW r \in Runs, NEW n \in Nodes, task[r][n] # "idle", NEW u \in Upstreams[n]
  PROVE  /\ u \in Nodes
         /\ value[r][u] \in Values
         /\ Origin(value[r][u], u)
         /\ MatchesPlan(value[r][u], r, u)
<1>1. u \in Done(r) /\ u \in Nodes
  BY GraphAssumption DEF IInv, Scheduled, Done, TasksIn
<1>2. value[r][u] # NoValue /\ MatchesPlan(value[r][u], r, u)
  BY <1>1 DEF IInv, Results, Done, TasksIn
<1>3. value[r][u] \in Values
  BY <1>1, <1>2 DEF IInv, TypeOK
<1>4. Origin(value[r][u], u)
  BY <1>1, <1>2 DEF IInv, ValuesTracked
<1> QED
  BY <1>1, <1>2, <1>3, <1>4

LEMMA OutputIsSound ==
  ASSUME IInv, NEW r \in Runs, NEW n \in Nodes, Live(r), task[r][n] # "idle",
         NEW ext \in ExtsOf(r, n),
         n \in ScopedNodes => ~ResolveFails(Instance(graph[r], n))
  PROVE  /\ Output(r, n, ext) \in Values
         /\ Origin(Output(r, n, ext), n)
         /\ MatchesPlan(Output(r, n, ext), r, n)
<1> DEFINE c == Computed(r, n, ext)
           v == Output(r, n, ext)
           srcs == UNION {value[r][u].src : u \in Upstreams[n]}
<1>1. /\ ext \in Exts
      /\ n \notin CacheUnsafeNodes /\ plan[r][n] # Missing => ext = plan[r][n]
  BY ExtIsPlanned
<1>2. \A u \in Upstreams[n] : /\ u \in Nodes
                              /\ value[r][u] \in Values
                              /\ Origin(value[r][u], u)
                              /\ MatchesPlan(value[r][u], r, u)
  BY InputsStored
<1>3. c.src = {<<n, ext>>} \cup srcs
  BY DEF Computed
<1>4. c.raw = (ContentBearing[n] \/ (~Declassifies[n] /\ \E u \in Upstreams[n] : value[r][u].raw))
  BY DEF Computed
<1>5. c \in Values
  <2>1. {<<n, ext>>} \cup srcs \in Sources
    BY <1>1, <1>2 DEF Values, Sources
  <2> QED
    BY <2>1, GraphAssumption DEF Computed, Values, Sources, Places
<1>6. /\ v \in Values /\ v.src = c.src /\ v.raw = c.raw
      /\ n \in TaintedNodes => v.cert \subseteq IF n \in OpaqueNodes THEN {"opaque"} ELSE {}
  <2>1. c.cert = IF n \in OpaqueNodes THEN Places ELSE {"walked"}
    BY DEF Computed
  <2> HIDE DEF c
  <2>2. Detaint(c) \in Values /\ Detaint(c).src = c.src /\ Detaint(c).raw = c.raw
    BY <1>5 DEF Detaint, Values
  <2>3. Detaint(c).cert = c.cert \ {"walked"}
    BY <1>5 DEF Detaint, Values
  <2>4. v = IF n \in TaintedNodes THEN Detaint(c) ELSE c
    BY DEF Output, c
  <2> QED
    BY <1>5, <2>1, <2>2, <2>3, <2>4 DEF Places
<1>7. \A p \in v.src : p[1] \in Lineage[n]
  <2>1. Lineage[n] = {n} \cup UNION {Lineage[u] : u \in Upstreams[n]}
    BY LineageUnfold
  <2> QED
    BY <1>2, <1>3, <1>6, <2>1 DEF Origin
<1>8. v.raw => n \in ContentBearingNodes
  <2>1. ASSUME v.raw PROVE CarriesContent(n, ContentBearingNodes)
    BY <2>1, <1>2, <1>4, <1>6 DEF CarriesContent, Origin
  <2> QED
    BY <2>1, ContentBearingClosed
<1>9. MatchesPlan(v, r, n)
  <2> SUFFICES ASSUME n \notin CacheUnsafeNodes, Known(Digest(r, n))
               PROVE  v.src = Digest(r, n)
    BY DEF MatchesPlan
  <2>1. Digest(r, n) = {<<n, plan[r][n]>>} \cup UNION {Digest(r, u) : u \in Upstreams[n]}
    BY DigestUnfold
  <2>2. ext = plan[r][n]
    <3>1. <<n, plan[r][n]>> \in Digest(r, n)
      BY <2>1
    <3> QED
      BY <1>1, <3>1 DEF Known
  <2>3. \A u \in Upstreams[n] : value[r][u].src = Digest(r, u)
    <3>1. ASSUME NEW u \in Upstreams[n] PROVE value[r][u].src = Digest(r, u)
      <4>1. u \notin CacheUnsafeNodes
        BY CacheUnsafeClosed
      <4>2. Known(Digest(r, u))
        BY <2>1 DEF Known
      <4> QED
        BY <1>2, <4>1, <4>2 DEF MatchesPlan
    <3> QED
      BY <3>1
  <2> QED
    BY <1>3, <1>6, <2>1, <2>2, <2>3
<1> QED
  BY <1>6, <1>7, <1>8, <1>9 DEF Origin

(* A key is well formed, and no error text leaks.                             *)
LEMMA KeyType ==
  ASSUME IInv, NEW r \in Runs, NEW n \in Nodes
  PROVE  Key(r, n) \in Keys
<1>1. \A m \in Lineage[n] : m \in Nodes /\ plan[r][m] \in Exts
  BY LineageIsClosed DEF IInv, TypeOK
<1> QED
  BY <1>1 DEF Key, Keys, Digest, Sources

LEMMA NoErrorLeaks ==
  ASSUME IInv, NEW r \in Runs, NEW n \in Nodes, task[r][n] # "idle"
  PROVE  ErrorLeaks(r, n) = FALSE
<1>1. \A u \in Upstreams[n] : Origin(value[r][u], u)
  BY InputsStored
<1> QED
  BY <1>1 DEF ErrorLeaks, HandlesContentInput, Origin

-----------------------------------------------------------------------------
(* Frames: what a part of the invariant needs of a step to carry over *)

(* A run does not begin in this step, nor is it back where it was before.     *)
Onward(r) ==
  /\ pc'[r] \in {"idle", "planning"} => pc'[r] = pc[r]
  /\ Begun(r)' => Begun(r)

LEMMA IsolationFrame ==
  ASSUME Isolation, UNCHANGED <<graph, claimed>>, \A r \in Runs : Live(r)' <=> Live(r)
  PROVE  Isolation'
BY DEF Isolation, InstancesOf, Instance

LEMMA PlanFrame ==
  ASSUME PlanFixed, PlanComplete, UNCHANGED run,
         \A r \in Runs : (Live(r)' => Live(r)) /\ Onward(r)
  PROVE  PlanFixed' /\ PlanComplete'
BY DEF PlanFixed, PlanComplete, Onward, run

LEMMA SnapshotFrame ==
  ASSUME TypeOK, SnapshotHeld, UNCHANGED run, \A r \in Runs : Live(r)' => Live(r),
         \A i \in Instances : scoped[i] # Empty => scoped'[i] = scoped[i]
  PROVE  SnapshotHeld'
<1> SUFFICES ASSUME NEW r \in Runs, Live(r)', NEW n \in ScopedNodes, plan[r][n] # Missing
             PROVE  scoped'[Instance(graph[r], n)] = plan[r][n]
  BY DEF SnapshotHeld, run, Instance
<1>1. n \in Nodes /\ Instance(graph[r], n) \in Instances
  BY ExecutorAssumption DEF TypeOK, Instance, Instances
<1>2. scoped[Instance(graph[r], n)] = plan[r][n]
  BY DEF SnapshotHeld
<1>3. plan[r][n] # Empty
  BY <1>1, ExecutorAssumption DEF TypeOK
<1> QED
  BY <1>1, <1>2, <1>3

LEMMA ScheduledFrame ==
  ASSUME Scheduled, UNCHANGED <<needed, remaining, ready>>,
         \A r \in Runs : Onward(r),
         \A r \in Runs, n \in Nodes : /\ task'[r][n] = "idle" <=> task[r][n] = "idle"
                                      /\ task'[r][n] = "done" <=> task[r][n] = "done",
         TypeOK
  PROVE  Scheduled'
<1>1. \A r \in Runs : Done(r)' = Done(r)
  BY DEF Done, TasksIn
<1> SUFFICES ASSUME NEW r \in Runs
             PROVE  /\ UpClosed(needed[r])
                    /\ Begun(r)' =>
                         /\ \A n \in needed[r] : remaining[r][n] = Upstreams[n] \ Done(r)
                         /\ \A n \in ready[r] : /\ n \in needed[r]
                                                /\ task'[r][n] = "idle"
                                                /\ Upstreams[n] \subseteq Done(r)
                    /\ \A n \in Nodes : task'[r][n] # "idle" =>
                         /\ n \in needed[r] /\ Upstreams[n] \subseteq Done(r)
                         /\ pc'[r] \notin {"idle", "planning"}
  BY <1>1 DEF Scheduled, UpClosed
<1>2. ready[r] \subseteq Nodes
  BY DEF TypeOK
<1> QED
  BY <1>2 DEF Scheduled, Onward

LEMMA ResultsFrame ==
  ASSUME Results, UNCHANGED <<plan, value>>,
         \A r \in Runs, n \in Nodes : task'[r][n] \in {"returned", "done"} =>
                                      task[r][n] \in {"returned", "done"}
  PROVE  Results'
BY DEF Results, MatchesPlan, Digest, TasksIn, Known

(* A run none of whose tasks has started may change its plan.                 *)
LEMMA ReplanFrame ==
  ASSUME TypeOK, Results, NEW r \in Runs, \A n \in Nodes : task[r][n] = "idle",
         \A s \in Runs : s # r => plan'[s] = plan[s], UNCHANGED <<task, value>>
  PROVE  Results'
<1> SUFFICES ASSUME NEW s \in Runs, NEW n \in Nodes, task[s][n] \in {"returned", "done"}
             PROVE  value[s][n] # NoValue /\ MatchesPlan(value[s][n], s, n)'
  BY DEF Results, TasksIn, MatchesPlan
<1>1. s # r
  OBVIOUS
<1>2. Digest(s, n)' = Digest(s, n)
  BY <1>1 DEF Digest
<1> QED
  BY <1>2 DEF Results, TasksIn, MatchesPlan, Known

LEMMA ValuesFrame ==
  ASSUME ValuesTracked, UNCHANGED value
  PROVE  ValuesTracked'
BY DEF ValuesTracked, Origin

LEMMA CacheFrame ==
  ASSUME CacheSound, CacheTracked, UNCHANGED cache
  PROVE  CacheSound' /\ CacheTracked'
BY DEF CacheSound, CacheTracked, Known, Origin, UseCache

LEMMA ManifestFrame ==
  ASSUME ManifestContentFree, UNCHANGED manifest
  PROVE  ManifestContentFree'
BY DEF ManifestContentFree

LEMMA RecordFrame ==
  ASSUME TypeOK, ManifestContentFree, NEW r \in Runs, NEW n \in Nodes,
         NEW outcome \in {"executed", "cache_hit", "failed"},
         manifest' = [manifest EXCEPT ![r] =
                        @ \cup {[node |-> n, outcome |-> outcome, leak |-> FALSE]}]
  PROVE  manifest' \in [Runs -> SUBSET Record] /\ ManifestContentFree'
<1> DEFINE rec == [node |-> n, outcome |-> outcome, leak |-> FALSE]
<1>1. rec \in Record /\ ~rec.leak
  BY DEF Record
<1> HIDE DEF rec
<1>2. \A s \in Runs : manifest'[s] = IF s = r THEN manifest[s] \cup {rec} ELSE manifest[s]
  BY DEF TypeOK, rec
<1>3. manifest' \in [Runs -> SUBSET Record]
  BY <1>1 DEF TypeOK, rec
<1> QED
  BY <1>1, <1>2, <1>3 DEF ManifestContentFree

(* Storing a sound output under its node's key keeps the cache sound.         *)
LEMMA PutFrame ==
  ASSUME IInv, NEW r \in Runs, NEW n \in Nodes, NEW v \in Values, UseCache(n),
         Origin(v, n), MatchesPlan(v, r, n), cache' = Put(Key(r, n), v)
  PROVE  /\ CacheSound' /\ CacheTracked'
         /\ DOMAIN cache' \subseteq Keys
         /\ \A k \in DOMAIN cache' : cache'[k] \in Values
<1>1. Key(r, n) \in Keys
  BY KeyType
<1>2. /\ DOMAIN cache' = DOMAIN cache \cup {Key(r, n)}
      /\ \A k \in DOMAIN cache' : cache'[k] = IF k = Key(r, n) THEN v ELSE cache[k]
  BY DEF Put
<1>3. Key(r, n)[1] = n /\ Key(r, n)[2] = Digest(r, n)
  BY DEF Key
<1>4. n \notin CacheUnsafeNodes
  BY DEF UseCache
<1>5. CacheSound'
  BY <1>2, <1>3, <1>4 DEF IInv, CacheSound, MatchesPlan, Known
<1>6. CacheTracked'
  BY <1>2, <1>3 DEF IInv, CacheTracked, Origin, UseCache
<1> QED
  BY <1>1, <1>2, <1>5, <1>6 DEF IInv, TypeOK

(* Resolving in execute() only fills what is empty.                           *)
LEMMA ResolveFrame ==
  ASSUME TypeOK, NEW r \in Runs, NEW n \in Nodes,
         n \in ScopedNodes => ~ResolveFails(Instance(graph[r], n)),
         scoped' = AfterResolve(Instance(graph[r], n))
  PROVE  /\ scoped' \in [Instances -> Contents \cup {Empty}]
         /\ \A i \in Instances : scoped[i] # Empty => scoped'[i] = scoped[i]
<1> DEFINE j == Instance(graph[r], n)
<1>1. j \in Instances /\ j[1] = n
  BY ExecutorAssumption DEF TypeOK, Instance, Instances
<1>2. CASE n \in ScopedNodes
  <2>1. scoped' = [scoped EXCEPT ![j] = Resolved(j)]
    BY <1>1, <1>2 DEF AfterResolve
  <2>2. Resolved(j) \in Contents /\ (scoped[j] # Empty => Resolved(j) = scoped[j])
    <3>1. scoped[j] \in Contents \cup {Empty} /\ world[n] \in Contents \cup {Missing, Unreadable}
      BY <1>1, <1>2 DEF TypeOK
    <3>2. Resolved(j) \notin {Missing, Unreadable}
      BY <1>2 DEF ResolveFails
    <3> QED
      BY <1>1, <3>1, <3>2 DEF Resolved
  <2> QED
    BY <1>1, <2>1, <2>2 DEF TypeOK
<1>3. CASE n \notin ScopedNodes
  BY <1>1, <1>3 DEF AfterResolve, TypeOK
<1> QED
  BY <1>2, <1>3

-----------------------------------------------------------------------------
(* One lemma per action *)

LEMMA EditStep ==
  ASSUME IInv, NEW n \in ScopedNodes, Edit(n)
  PROVE  IInv'
<1> USE DEF IInv, Edit, run, sched
<1>1. TypeOK'
  <2>1. world' \in [ScopedNodes -> Contents \cup {Missing, Unreadable}]
    BY DEF TypeOK, WorldOf
  <2>2. edits' \in 0 .. MaxEdits
    BY ExecutorAssumption DEF TypeOK
  <2> QED
    BY <2>1, <2>2 DEF TypeOK
<1>2. \A r \in Runs : (Live(r)' <=> Live(r)) /\ Onward(r)
  BY DEF Live, Onward, Begun
<1> QED
  BY <1>1, <1>2, IsolationFrame, SnapshotFrame, PlanFrame, ScheduledFrame, ResultsFrame,
     ValuesFrame, CacheFrame, ManifestFrame

LEMMA RejectStep ==
  ASSUME IInv, NEW r \in Runs, NEW g \in Graphs, Reject(r, g)
  PROVE  IInv'
<1> USE DEF IInv, Reject, run, sched, outside
<1>1. TypeOK'
  BY DEF TypeOK, PCs
<1>2. \A s \in Runs : (Live(s)' <=> Live(s)) /\ Onward(s)
  BY DEF Live, TypeOK, Onward, Begun
<1> QED
  BY <1>1, <1>2, IsolationFrame, SnapshotFrame, PlanFrame, ScheduledFrame, ResultsFrame,
     ValuesFrame, CacheFrame, ManifestFrame

(* A graph that is free has no node object in common with a run in flight.    *)
LEMMA FreeGraphIsApart ==
  ASSUME IInv, NEW g \in Graphs, InstancesOf(g) \cap claimed = {},
         NEW r \in Runs, Live(r), NEW n \in Nodes
  PROVE  Instance(graph[r], n) \notin InstancesOf(g)
BY DEF IInv, Isolation, InstancesOf

(* The node objects of two runs in flight are apart, and so are the objects   *)
(* of two nodes of one run.                                                   *)
LEMMA LiveNodesApart ==
  ASSUME IInv, NEW r \in Runs, NEW s \in Runs, Live(r), Live(s),
         NEW m \in Nodes, NEW n \in Nodes, r # s \/ m # n
  PROVE  Instance(graph[s], m) # Instance(graph[r], n)
<1>1. CASE m # n
  BY <1>1 DEF Instance
<1>2. CASE r # s
  <2>1. InstancesOf(graph[r]) \cap InstancesOf(graph[s]) = {}
    BY <1>2 DEF IInv, Isolation
  <2> QED
    BY <2>1 DEF InstancesOf
<1> QED
  BY <1>1, <1>2

LEMMA InstanceType ==
  ASSUME TypeOK, NEW r \in Runs, NEW n \in Nodes
  PROVE  Instance(graph[r], n) \in Instances
BY ExecutorAssumption DEF TypeOK, Instance, Instances

LEMMA ClaimStep ==
  ASSUME IInv, NEW r \in Runs, NEW g \in Graphs, NEW targets \in TargetSets,
         Claim(r, g, targets)
  PROVE  IInv'
<1> DEFINE need == Ancestors(targets)
           own  == [n \in Nodes |-> IF n \in ScopedNodes THEN Missing ELSE Config[Copy[g][n]]]
<1> USE DEF IInv, run, sched, outside
<1>0. need \subseteq Nodes /\ UpClosed(need) /\ need # {}
  <2>1. targets \in SUBSET Nodes /\ targets # {}
    BY ExecutorAssumption DEF Claim
  <2> QED
    BY <2>1, AncestorsClosed
<1> HIDE DEF need
<1>1. /\ pc[r] = "idle"
      /\ InstancesOf(g) \cap claimed = {}
      /\ claimed' = claimed \cup InstancesOf(g)
      /\ graph' = [graph EXCEPT ![r] = g]
      /\ needed' = [needed EXCEPT ![r] = need]
      /\ plan' = [plan EXCEPT ![r] = own]
      /\ unread' = [unread EXCEPT ![r] = ScopedNodes]
      /\ pc' = [pc EXCEPT ![r] = "planning"]
      /\ UNCHANGED <<outside, scoped, cache, sched, task, value, manifest>>
  BY DEF Claim, Claimable, need
<1>2. /\ \A s \in Runs : Live(s)' <=> Live(s) \/ s = r
      /\ \A s \in Runs : Begun(s)' <=> Begun(s) /\ s # r
      /\ ~Live(r)
  BY <1>1 DEF Live, TypeOK, Begun
<1>3. InstancesOf(g) \subseteq Instances
  BY ExecutorAssumption DEF Instance, Instances, InstancesOf
<1>4. TypeOK'
  <2>1. own \in [Nodes -> Exts]
    BY ExecutorAssumption DEF Exts
  <2> HIDE DEF own
  <2>2. /\ claimed' \subseteq Instances
        /\ graph' \in [Runs -> Graphs]
        /\ pc' \in [Runs -> PCs]
    BY <1>1, <1>3 DEF TypeOK, PCs
  <2>3. /\ needed' \in [Runs -> SUBSET Nodes]
        /\ unread' \in [Runs -> SUBSET ScopedNodes]
        /\ plan' \in [Runs -> [Nodes -> Exts]]
    BY <1>0, <1>1, <2>1 DEF TypeOK
  <2> QED
    BY <1>1, <2>2, <2>3 DEF TypeOK
<1>5. Isolation'
  <2>1. \A s \in Runs : graph'[s] = IF s = r THEN g ELSE graph[s]
    BY <1>1 DEF TypeOK
  <2>2. \A s \in Runs : Live(s) => InstancesOf(graph[s]) \cap InstancesOf(g) = {}
    BY <1>1, FreeGraphIsApart DEF InstancesOf
  <2>3. \A s \in Runs : InstancesOf(graph[s])' = InstancesOf(graph'[s])
    BY DEF InstancesOf, Instance
  <2>4. ASSUME NEW s \in Runs, NEW t \in Runs, Live(s)', Live(t)', s # t
        PROVE  InstancesOf(graph'[s]) \cap InstancesOf(graph'[t]) = {}
    BY <1>2, <2>1, <2>2, <2>4 DEF Isolation
  <2>5. claimed' = UNION {InstancesOf(graph'[s]) : s \in {t \in Runs : Live(t)'}}
    <3>1. {t \in Runs : Live(t)'} = {t \in Runs : Live(t)} \cup {r}
      BY <1>2
    <3> QED
      BY <1>1, <1>2, <2>1, <3>1 DEF Isolation
  <2> QED
    BY <2>3, <2>4, <2>5 DEF Isolation
<1>6. SnapshotHeld'
  <2> SUFFICES ASSUME NEW s \in Runs, Live(s)', NEW m \in ScopedNodes, plan'[s][m] # Missing
               PROVE  scoped[Instance(graph'[s], m)] = plan'[s][m]
    BY <1>1 DEF SnapshotHeld, Instance
  <2>1. m \in Nodes
    BY ExecutorAssumption
  <2>2. s # r
    BY <1>1, <2>1 DEF TypeOK
  <2>3. Live(s) /\ plan'[s] = plan[s] /\ graph'[s] = graph[s]
    BY <1>1, <1>2, <2>2 DEF TypeOK
  <2> QED
    BY <2>3 DEF SnapshotHeld
<1>7. PlanFixed'
  BY <1>1, <1>2 DEF PlanFixed, TypeOK
<1>8. PlanComplete'
  BY <1>0, <1>1, <1>2 DEF PlanComplete, TypeOK
<1>9. \A n \in Nodes : task[r][n] = "idle"
  BY <1>1 DEF Scheduled
<1>10. Scheduled'
  <2> SUFFICES ASSUME NEW s \in Runs
               PROVE  /\ UpClosed(needed'[s])
                      /\ Begun(s)' =>
                           /\ \A n \in needed'[s] : remaining[s][n] = Upstreams[n] \ Done(s)
                           /\ \A n \in ready[s] : /\ n \in needed'[s]
                                                  /\ task[s][n] = "idle"
                                                  /\ Upstreams[n] \subseteq Done(s)
                      /\ \A n \in Nodes : task[s][n] # "idle" =>
                           /\ n \in needed'[s] /\ Upstreams[n] \subseteq Done(s)
                           /\ pc'[s] \notin {"idle", "planning"}
    BY <1>1 DEF Scheduled, UpClosed, Done, TasksIn
  <2>1. CASE s = r
    BY <1>0, <1>1, <1>2, <1>9, <2>1 DEF TypeOK
  <2>2. CASE s # r
    <3>1. needed'[s] = needed[s] /\ pc'[s] = pc[s]
      BY <1>1, <2>2 DEF TypeOK
    <3> QED
      BY <1>2, <3>1 DEF Scheduled
  <2> QED
    BY <2>1, <2>2
<1>11. Results'
  BY <1>1, <1>9, ReplanFrame
<1> QED
  BY <1>1, <1>4, <1>5, <1>6, <1>7, <1>8, <1>10, <1>11, ValuesFrame, CacheFrame, ManifestFrame

(* config_key() holds for the run what it returns; no other run has the node. *)
LEMMA ConfigKeyStep ==
  ASSUME IInv, NEW r \in Runs, NEW n \in ScopedNodes, ConfigKey(r, n)
  PROVE  IInv'
<1> DEFINE i == Instance(graph[r], n)
<1> USE DEF IInv, run, sched, outside
<1>1. /\ pc[r] = "planning"
      /\ world[n] # Unreadable
      /\ scoped' = [scoped EXCEPT ![i] = Refreshed(n)]
      /\ plan' = [plan EXCEPT ![r][n] = world[n]]
      /\ unread' = [unread EXCEPT ![r] = @ \ {n}]
      /\ UNCHANGED <<outside, claimed, cache, pc, graph, needed, sched, task, value, manifest>>
  BY DEF ConfigKey, ReadsNext
<1>2. \A s \in Runs : (Live(s)' <=> Live(s)) /\ Onward(s) /\ (Begun(s)' <=> Begun(s))
  BY <1>1 DEF Live, Onward, Begun
<1>3. n \in Nodes /\ i \in Instances /\ Live(r) /\ ~Begun(r)
  BY <1>1, ExecutorAssumption, InstanceType DEF Live, Begun
<1>4. /\ world[n] \in Contents \cup {Missing}
      /\ Refreshed(n) \in Contents \cup {Empty}
      /\ world[n] # Missing => Refreshed(n) = world[n]
  BY <1>1 DEF Refreshed, TypeOK
<1>5. \A s \in Runs, m \in Nodes :
        plan'[s][m] = IF s = r /\ m = n THEN world[n] ELSE plan[s][m]
  BY <1>1, <1>3 DEF TypeOK
<1>6. TypeOK'
  <2>1. scoped' \in [Instances -> Contents \cup {Empty}]
    BY <1>1, <1>4 DEF TypeOK
  <2>2. plan' \in [Runs -> [Nodes -> Exts]]
    BY <1>1, <1>4 DEF TypeOK, Exts
  <2>3. unread' \in [Runs -> SUBSET ScopedNodes]
    BY <1>1 DEF TypeOK
  <2> QED
    BY <1>1, <2>1, <2>2, <2>3 DEF TypeOK
<1>7. SnapshotHeld'
  <2> SUFFICES ASSUME NEW s \in Runs, Live(s), NEW m \in ScopedNodes, plan'[s][m] # Missing
               PROVE  scoped'[Instance(graph[s], m)] = plan'[s][m]
    BY <1>1, <1>2 DEF SnapshotHeld, Instance
  <2>1. m \in Nodes /\ Instance(graph[s], m) \in Instances
    BY ExecutorAssumption, InstanceType
  <2>2. CASE s = r /\ m = n
    BY <1>1, <1>3, <1>4, <1>5, <2>1, <2>2 DEF TypeOK
  <2>3. CASE s # r \/ m # n
    <3>1. Instance(graph[s], m) # i
      BY <1>3, <2>1, <2>3, LiveNodesApart
    <3>2. scoped'[Instance(graph[s], m)] = scoped[Instance(graph[s], m)]
      BY <1>1, <2>1, <3>1 DEF TypeOK
    <3> QED
      BY <1>5, <2>1, <2>3, <3>2 DEF SnapshotHeld
  <2> QED
    BY <2>2, <2>3
<1>8. PlanFixed'
  BY <1>1, <1>2, <1>5 DEF PlanFixed
<1>9. PlanComplete'
  BY <1>1, <1>2, <1>3 DEF PlanComplete, TypeOK
<1>10. \A m \in Nodes : task[r][m] = "idle"
  BY <1>1 DEF Scheduled
<1>11. Results'
  <2>1. \A s \in Runs : s # r => plan'[s] = plan[s]
    BY <1>1 DEF TypeOK
  <2> QED
    BY <1>1, <1>10, <2>1, ReplanFrame
<1> QED
  BY <1>1, <1>2, <1>6, <1>7, <1>8, <1>9, <1>11, IsolationFrame, ScheduledFrame, ValuesFrame,
     CacheFrame, ManifestFrame

(* The queue and the first tasks come out of the finished plan.               *)
LEMMA BeginStep ==
  ASSUME IInv, NEW r \in Runs, Begin(r)
  PROVE  IInv'
<1> DEFINE need  == needed[r]
           roots == {n \in need : Upstreams[n] \cap need = {}}
           first == Least(roots, MaxConcurrency)
<1> USE DEF IInv, run, sched, outside
<1>0. /\ need \subseteq Nodes /\ UpClosed(need) /\ first \subseteq roots
      /\ \A n \in need : Upstreams[n] \cap need = Upstreams[n]
  BY DEF TypeOK, Scheduled, UpClosed, Least
<1> HIDE DEF need
<1>1. /\ pc[r] = "planning" /\ unread[r] = {}
      /\ remaining' = [remaining EXCEPT ![r] =
                         [n \in Nodes |-> IF n \in need THEN Upstreams[n] \cap need ELSE {}]]
      /\ ready' = [ready EXCEPT ![r] = roots \ first]
      /\ task' = [task EXCEPT ![r] = [n \in Nodes |->
                    IF n \in first THEN "created" ELSE "idle"]]
      /\ pc' = [pc EXCEPT ![r] = "looping"]
      /\ UNCHANGED <<outside, scoped, claimed, cache, run, value, manifest>>
  BY DEF Begin, need
<1>2. \A s \in Runs : /\ Live(s)' <=> Live(s)
                      /\ s # r => Onward(s) /\ (Begun(s)' <=> Begun(s))
  BY <1>1 DEF Live, TypeOK, Onward, Begun
<1>3. \A n \in Nodes : task[r][n] = "idle"
  BY <1>1 DEF Scheduled
<1>4. \A s \in Runs, n \in Nodes :
        task'[s][n] = IF s # r THEN task[s][n]
                      ELSE IF n \in first THEN "created" ELSE "idle"
  BY <1>1 DEF TypeOK
<1>5. TypeOK'
  <2>1. pc' \in [Runs -> PCs] /\ ready' \in [Runs -> SUBSET Nodes]
    BY <1>0, <1>1 DEF TypeOK, PCs
  <2>2. remaining' \in [Runs -> [Nodes -> SUBSET Nodes]]
    BY <1>0, <1>1 DEF TypeOK
  <2>3. task' \in [Runs -> [Nodes -> TaskStates]]
    BY <1>1 DEF TypeOK, TaskStates
  <2> QED
    BY <1>1, <2>1, <2>2, <2>3 DEF TypeOK
<1>6. PlanFixed' /\ PlanComplete'
  BY <1>1, <1>2 DEF PlanFixed, PlanComplete, TypeOK, Onward
<1>7. Scheduled'
  <2>0. needed' = needed
    BY <1>1
  <2> SUFFICES ASSUME NEW s \in Runs
               PROVE  /\ UpClosed(needed[s])
                      /\ Begun(s)' =>
                           /\ \A n \in needed[s] : remaining'[s][n] = Upstreams[n] \ Done(s)'
                           /\ \A n \in ready'[s] : /\ n \in needed[s]
                                                   /\ task'[s][n] = "idle"
                                                   /\ Upstreams[n] \subseteq Done(s)'
                      /\ \A n \in Nodes : task'[s][n] # "idle" =>
                           /\ n \in needed[s] /\ Upstreams[n] \subseteq Done(s)'
                           /\ pc'[s] \notin {"idle", "planning"}
    BY <2>0 DEF Scheduled, UpClosed
  <2>1. CASE s = r
    <3>1. Done(s)' = {}
      BY <1>4, <2>1 DEF Done, TasksIn
    <3>2. needed[s] = need /\ ready'[s] = roots \ first /\ pc'[s] = "looping"
      BY <1>1, <2>1 DEF TypeOK, need
    <3>3. \A n \in need : remaining'[s][n] = Upstreams[n]
      BY <1>0, <1>1, <2>1 DEF TypeOK
    <3>4. \A n \in Nodes : task'[s][n] = IF n \in first THEN "created" ELSE "idle"
      BY <1>4, <2>1
    <3>5. \A n \in roots : n \in need /\ n \in Nodes /\ Upstreams[n] = {}
      BY <1>0
    <3> QED
      BY <1>0, <3>1, <3>2, <3>3, <3>4, <3>5
  <2>2. CASE s # r
    <3>1. /\ remaining'[s] = remaining[s] /\ ready'[s] = ready[s]
          /\ task'[s] = task[s] /\ pc'[s] = pc[s]
      BY <1>1, <2>2 DEF TypeOK
    <3>2. Done(s)' = Done(s)
      BY <3>1 DEF Done, TasksIn
    <3> QED
      BY <1>2, <2>2, <3>1, <3>2 DEF Scheduled
  <2> QED
    BY <2>1, <2>2
<1>8. Results'
  BY <1>1, <1>4, ResultsFrame
<1> QED
  BY <1>1, <1>2, <1>5, <1>6, <1>7, <1>8, IsolationFrame, SnapshotFrame, ValuesFrame,
     CacheFrame, ManifestFrame

(* Steps that only move a task, or the run itself, without a result.          *)
LEMMA QuietStep ==
  ASSUME IInv, UNCHANGED <<outside, scoped, claimed, cache, run, sched, value, manifest>>,
         pc' \in [Runs -> PCs], task' \in [Runs -> [Nodes -> TaskStates]],
         \A r \in Runs : (Live(r)' <=> Live(r)) /\ Onward(r),
         \A r \in Runs, n \in Nodes :
           \/ task'[r][n] = task[r][n]
           \/ /\ task[r][n] \in {"created", "running"}
              /\ task'[r][n] \in {"running", "raised", "cancelled"}
  PROVE  IInv'
<1> USE DEF IInv, run, sched, outside
<1>1. TypeOK'
  BY DEF TypeOK
<1>2. \A r \in Runs, n \in Nodes :
        /\ task'[r][n] = "idle" <=> task[r][n] = "idle"
        /\ task'[r][n] = "done" <=> task[r][n] = "done"
        /\ task'[r][n] \in {"returned", "done"} => task[r][n] \in {"returned", "done"}
  OBVIOUS
<1> QED
  BY <1>1, <1>2, IsolationFrame, SnapshotFrame, PlanFrame, ScheduledFrame, ResultsFrame,
     ValuesFrame, CacheFrame, ManifestFrame

LEMMA StartExecuteStep ==
  ASSUME IInv, NEW r \in Runs, NEW n \in Nodes, StartExecute(r, n)
  PROVE  IInv'
BY QuietStep DEF StartExecute, SetTask, IInv, TypeOK, TaskStates, Live, Onward, Begun

LEMMA GetFailsStep ==
  ASSUME IInv, NEW r \in Runs, NEW n \in Nodes, GetFails(r, n)
  PROVE  IInv'
BY QuietStep DEF GetFails, SetTask, IInv, TypeOK, TaskStates, Live, Onward, Begun

LEMMA TaskCancelledStep ==
  ASSUME IInv, NEW r \in Runs, NEW n \in Nodes, TaskCancelled(r, n)
  PROVE  IInv'
BY QuietStep DEF TaskCancelled, SetTask, InFlight, TasksIn, IInv, TypeOK, TaskStates, Live,
   Onward, Begun

LEMMA CancelStep ==
  ASSUME IInv, NEW r \in Runs, Cancel(r)
  PROVE  IInv'
BY QuietStep DEF Cancel, IInv, TypeOK, PCs, Live, Onward, Begun

-----------------------------------------------------------------------------
(* Steps that give a task its result or its error *)

LEMMA CacheHitStep ==
  ASSUME IInv, NEW r \in Runs, NEW n \in Nodes, CacheHit(r, n)
  PROVE  IInv'
<1> DEFINE v == cache[Key(r, n)]
<1> USE DEF IInv, run, sched, outside
<1>1. /\ pc[r] = "looping" /\ task[r][n] = "created"
      /\ UseCache(n) /\ Key(r, n) \in DOMAIN cache
      /\ value' = [value EXCEPT ![r][n] = v]
      /\ manifest' = [manifest EXCEPT ![r] =
                        @ \cup {[node |-> n, outcome |-> "cache_hit", leak |-> FALSE]}]
      /\ task' = [task EXCEPT ![r][n] = "returned"]
      /\ UNCHANGED <<outside, scoped, claimed, cache, pc, run, sched>>
  BY DEF CacheHit, AddRecord, SetTask
<1>2. /\ v \in Values
      /\ Origin(v, n)
      /\ MatchesPlan(v, r, n)
  <2>1. Key(r, n)[1] = n /\ Key(r, n)[2] = Digest(r, n)
    BY DEF Key
  <2> QED
    BY <1>1, <2>1 DEF TypeOK, CacheTracked, CacheSound, MatchesPlan
<1> HIDE DEF v
<1>3. TypeOK'
  <2>1. manifest' \in [Runs -> SUBSET Record]
    BY <1>1, RecordFrame
  <2>2. task' \in [Runs -> [Nodes -> TaskStates]]
    BY <1>1 DEF TypeOK, TaskStates
  <2>3. value' \in [Runs -> [Nodes -> Values \cup {NoValue}]]
    BY <1>1, <1>2 DEF TypeOK
  <2> QED
    BY <1>1, <2>1, <2>2, <2>3 DEF TypeOK
<1>4. \A s \in Runs : (Live(s)' <=> Live(s)) /\ Onward(s)
  BY <1>1 DEF Live, Onward, Begun
<1>5. \A s \in Runs, m \in Nodes :
        task'[s][m] = IF s = r /\ m = n THEN "returned" ELSE task[s][m]
  BY <1>1 DEF TypeOK
<1>6. \A s \in Runs, m \in Nodes :
        value'[s][m] = IF s = r /\ m = n THEN v ELSE value[s][m]
  BY <1>1 DEF TypeOK
<1>7. Scheduled'
  BY <1>1, <1>4, <1>5, ScheduledFrame
<1>8. v # NoValue
  BY <1>2, ExecutorAssumption DEF Values, Sources, Places
<1>9. Results'
  BY <1>1, <1>2, <1>5, <1>6, <1>8 DEF Results, TasksIn, MatchesPlan, Digest, Known
<1>10. ValuesTracked'
  BY <1>2, <1>6 DEF ValuesTracked, Origin
<1>11. ManifestContentFree'
  BY <1>1, RecordFrame
<1> QED
  BY <1>1, <1>3, <1>4, <1>7, <1>9, <1>10, <1>11, IsolationFrame, SnapshotFrame, PlanFrame,
     CacheFrame

LEMMA ExecuteStep ==
  ASSUME IInv, NEW r \in Runs, NEW n \in Nodes, Execute(r, n)
  PROVE  IInv'
<1> USE DEF IInv, run, sched, outside
<1>1. PICK ext \in ExtsOf(r, n) :
        /\ value' = [value EXCEPT ![r][n] = Output(r, n, ext)]
        /\ cache' = IF UseCache(n) THEN Put(Key(r, n), Output(r, n, ext)) ELSE cache
  BY DEF Execute
<1> DEFINE v == Output(r, n, ext)
<1>2. /\ Live(r) /\ task[r][n] = "running"
      /\ n \in ScopedNodes => ~ResolveFails(Instance(graph[r], n))
      /\ scoped' = AfterResolve(Instance(graph[r], n))
      /\ manifest' = [manifest EXCEPT ![r] =
                        @ \cup {[node |-> n, outcome |-> "executed", leak |-> FALSE]}]
      /\ task' = [task EXCEPT ![r][n] = "returned"]
      /\ UNCHANGED <<outside, claimed, pc, run, sched>>
  BY DEF Execute, AddRecord, SetTask
<1>3. /\ v \in Values
      /\ Origin(v, n)
      /\ MatchesPlan(v, r, n)
  BY <1>2, OutputIsSound
<1>4. value' = [value EXCEPT ![r][n] = v] /\ cache' = IF UseCache(n) THEN Put(Key(r, n), v) ELSE cache
  BY <1>1
<1> HIDE DEF v
<1>5. /\ CacheSound' /\ CacheTracked'
      /\ DOMAIN cache' \subseteq Keys
      /\ \A k \in DOMAIN cache' : cache'[k] \in Values
  <2>1. CASE UseCache(n)
    BY <1>3, <1>4, <2>1, PutFrame
  <2>2. CASE ~UseCache(n)
    BY <1>4, <2>2, CacheFrame DEF TypeOK
  <2> QED
    BY <2>1, <2>2
<1>6. /\ scoped' \in [Instances -> Contents \cup {Empty}]
      /\ \A i \in Instances : scoped[i] # Empty => scoped'[i] = scoped[i]
  BY <1>2, ResolveFrame
<1>7. TypeOK'
  <2>1. manifest' \in [Runs -> SUBSET Record]
    BY <1>2, RecordFrame
  <2>2. task' \in [Runs -> [Nodes -> TaskStates]]
    BY <1>2 DEF TypeOK, TaskStates
  <2>3. value' \in [Runs -> [Nodes -> Values \cup {NoValue}]]
    BY <1>3, <1>4 DEF TypeOK
  <2> QED
    BY <1>2, <1>5, <1>6, <2>1, <2>2, <2>3 DEF TypeOK
<1>8. \A s \in Runs : (Live(s)' <=> Live(s)) /\ Onward(s)
  BY <1>2 DEF Live, Onward, Begun
<1>9. \A s \in Runs, m \in Nodes :
        task'[s][m] = IF s = r /\ m = n THEN "returned" ELSE task[s][m]
  BY <1>2 DEF TypeOK
<1>10. \A s \in Runs, m \in Nodes :
         value'[s][m] = IF s = r /\ m = n THEN v ELSE value[s][m]
  BY <1>4 DEF TypeOK
<1>11. Scheduled'
  BY <1>2, <1>8, <1>9, ScheduledFrame
<1>12. v # NoValue
  BY <1>3, ExecutorAssumption DEF Values, Sources, Places
<1>13. Results'
  BY <1>2, <1>3, <1>9, <1>10, <1>12 DEF Results, TasksIn, MatchesPlan, Digest, Known
<1>14. ValuesTracked'
  BY <1>3, <1>10 DEF ValuesTracked, Origin
<1>15. ManifestContentFree'
  BY <1>2, RecordFrame
<1> QED
  BY <1>2, <1>5, <1>6, <1>7, <1>8, <1>11, <1>13, <1>14, <1>15, IsolationFrame,
     SnapshotFrame, PlanFrame

(* The error paths: no result, at most a put or a resolve that went before.   *)
LEMMA RaiseStep ==
  ASSUME IInv, NEW r \in Runs, NEW n \in Nodes, task[r][n] = "running",
         task' = [task EXCEPT ![r][n] = "raised"],
         UNCHANGED <<outside, claimed, pc, run, sched, value>>,
         n \in ScopedNodes => ~ResolveFails(Instance(graph[r], n)) \/ UNCHANGED scoped,
         scoped' = scoped \/ scoped' = AfterResolve(Instance(graph[r], n)),
         CacheSound', CacheTracked', DOMAIN cache' \subseteq Keys,
         \A k \in DOMAIN cache' : cache'[k] \in Values,
         manifest' \in [Runs -> SUBSET Record], ManifestContentFree'
  PROVE  IInv'
<1> USE DEF IInv, run, sched, outside
<1>1. /\ scoped' \in [Instances -> Contents \cup {Empty}]
      /\ \A i \in Instances : scoped[i] # Empty => scoped'[i] = scoped[i]
  <2>1. CASE scoped' = scoped
    BY <2>1 DEF TypeOK
  <2>2. CASE scoped' # scoped
    BY <2>2, ResolveFrame
  <2> QED
    BY <2>1, <2>2
<1>2. TypeOK'
  BY <1>1 DEF TypeOK, TaskStates
<1>3. \A s \in Runs : (Live(s)' <=> Live(s)) /\ Onward(s)
  BY DEF Live, Onward, Begun
<1>4. \A s \in Runs, m \in Nodes :
        task'[s][m] = IF s = r /\ m = n THEN "raised" ELSE task[s][m]
  BY DEF TypeOK
<1> QED
  BY <1>1, <1>2, <1>3, <1>4, IsolationFrame, SnapshotFrame, PlanFrame, ScheduledFrame,
     ResultsFrame, ValuesFrame

LEMMA NodeFailsStep ==
  ASSUME IInv, NEW r \in Runs, NEW n \in Nodes, NodeFails(r, n)
  PROVE  IInv'
<1> DEFINE rec == [node |-> n, outcome |-> "failed", leak |-> ErrorLeaks(r, n)]
<1>1. /\ task[r][n] = "running"
      /\ task' = [task EXCEPT ![r][n] = "raised"]
      /\ manifest' = [manifest EXCEPT ![r] = @ \cup {rec}]
      /\ UNCHANGED <<outside, claimed, cache, pc, run, sched, value>>
      /\ n \in ScopedNodes => ~ResolveFails(Instance(graph[r], n)) \/ UNCHANGED scoped
      /\ scoped' = scoped \/ scoped' = AfterResolve(Instance(graph[r], n))
  BY DEF NodeFails, SetTask, AddRecord
<1>2. rec = [node |-> n, outcome |-> "failed", leak |-> FALSE]
  BY <1>1, NoErrorLeaks
<1>3. manifest' \in [Runs -> SUBSET Record] /\ ManifestContentFree'
  BY <1>1, <1>2, RecordFrame DEF IInv
<1>4. /\ CacheSound' /\ CacheTracked' /\ DOMAIN cache' \subseteq Keys
      /\ \A k \in DOMAIN cache' : cache'[k] \in Values
  BY <1>1, CacheFrame DEF IInv, TypeOK
<1> QED
  BY <1>1, <1>3, <1>4, RaiseStep

LEMMA PutFailsStep ==
  ASSUME IInv, NEW r \in Runs, NEW n \in Nodes, PutFails(r, n)
  PROVE  IInv'
<1>1. /\ Live(r) /\ task[r][n] = "running" /\ UseCache(n)
      /\ task' = [task EXCEPT ![r][n] = "raised"]
      /\ n \in ScopedNodes => ~ResolveFails(Instance(graph[r], n))
      /\ scoped' = AfterResolve(Instance(graph[r], n))
      /\ UNCHANGED <<outside, claimed, pc, run, sched, value, manifest>>
  BY DEF PutFails, SetTask
<1>2. PICK ext \in ExtsOf(r, n) : cache' = Put(Key(r, n), Output(r, n, ext))
  BY DEF PutFails
<1>3. /\ CacheSound' /\ CacheTracked' /\ DOMAIN cache' \subseteq Keys
      /\ \A k \in DOMAIN cache' : cache'[k] \in Values
  BY <1>1, <1>2, OutputIsSound, PutFrame
<1>4. manifest' \in [Runs -> SUBSET Record] /\ ManifestContentFree'
  BY <1>1, ManifestFrame DEF IInv, TypeOK
<1> QED
  BY <1>1, <1>3, <1>4, RaiseStep

-----------------------------------------------------------------------------
(* Steps of the loop, and the end of a run *)

(* Giving a claim back frees the run's own nodes and no other.                *)
LEMMA ReleaseFrame ==
  ASSUME IInv, NEW r \in Runs, Live(r), UNCHANGED graph,
         NEW final \in {"success", "failed", "cancelled", "unplanned"}, Release(r, final),
         final # "unplanned" => Begun(r)
  PROVE  /\ Isolation'
         /\ pc' \in [Runs -> PCs]
         /\ claimed' \subseteq Instances
         /\ \A s \in Runs : Live(s)' => Live(s) /\ s # r
         /\ \A s \in Runs : Onward(s)
<1> USE DEF IInv
<1>1. /\ pc' = [pc EXCEPT ![r] = final]
      /\ claimed' = claimed \ InstancesOf(graph[r])
  BY DEF Release
<1>2. \A s \in Runs : pc'[s] = IF s = r THEN final ELSE pc[s]
  BY <1>1 DEF TypeOK
<1>3. \A s \in Runs : Live(s)' <=> Live(s) /\ s # r
  BY <1>2 DEF Live
<1>4. pc' \in [Runs -> PCs]
  BY <1>1 DEF TypeOK, PCs
<1>5. \A s, t \in Runs : Live(s)' /\ Live(t)' /\ s # t =>
        InstancesOf(graph[s]) \cap InstancesOf(graph[t]) = {}
  BY <1>3 DEF Isolation
<1>6. claimed' = UNION {InstancesOf(graph[s]) : s \in {t \in Runs : Live(t)'}}
  <2>1. \A s \in Runs : Live(s)' => InstancesOf(graph[s]) \cap InstancesOf(graph[r]) = {}
    BY <1>3 DEF Isolation
  <2>2. {t \in Runs : Live(t)} = {t \in Runs : Live(t)'} \cup {r}
    BY <1>3
  <2> QED
    BY <1>1, <2>1, <2>2 DEF Isolation
<1>7. \A s \in Runs : InstancesOf(graph[s])' = InstancesOf(graph[s])
  BY DEF InstancesOf, Instance
<1>8. Isolation'
  BY <1>5, <1>6, <1>7 DEF Isolation
<1>9. \A s \in Runs : Onward(s)
  BY <1>2 DEF Onward, Begun
<1> QED
  BY <1>1, <1>3, <1>4, <1>8, <1>9 DEF TypeOK

(* A planning run that gives up leaves its claim, and other runs' nodes alone.*)
LEMMA PlanFailsStep ==
  ASSUME IInv, NEW r \in Runs, NEW n \in ScopedNodes, PlanFails(r, n)
  PROVE  IInv'
<1> DEFINE i == Instance(graph[r], n)
<1> USE DEF IInv, run, sched, outside
<1>1. /\ Live(r)
      /\ scoped' = [scoped EXCEPT ![i] = Empty]
      /\ Release(r, "unplanned")
      /\ UNCHANGED <<outside, cache, run, sched, task, value, manifest>>
  BY DEF PlanFails, ReadsNext, Live
<1>2. /\ Isolation'
      /\ pc' \in [Runs -> PCs]
      /\ claimed' \subseteq Instances
      /\ \A s \in Runs : Live(s)' => Live(s) /\ s # r
      /\ \A s \in Runs : Onward(s)
  BY <1>1, ReleaseFrame
<1>3. TypeOK'
  <2>1. scoped' \in [Instances -> Contents \cup {Empty}]
    BY <1>1 DEF TypeOK
  <2> QED
    BY <1>1, <1>2, <2>1 DEF TypeOK
<1>4. SnapshotHeld'
  <2> SUFFICES ASSUME NEW s \in Runs, Live(s), s # r, NEW m \in ScopedNodes, plan[s][m] # Missing
               PROVE  scoped'[Instance(graph[s], m)] = plan[s][m]
    BY <1>1, <1>2 DEF SnapshotHeld, Instance
  <2>1. m \in Nodes /\ n \in Nodes /\ Instance(graph[s], m) \in Instances
    BY ExecutorAssumption, InstanceType
  <2>2. Instance(graph[s], m) # i
    BY <1>1, <2>1, LiveNodesApart
  <2> QED
    BY <1>1, <2>1, <2>2 DEF SnapshotHeld, TypeOK
<1> QED
  BY <1>1, <1>2, <1>3, <1>4, PlanFrame, ScheduledFrame, ResultsFrame, ValuesFrame,
     CacheFrame, ManifestFrame

(* What the two collecting actions have in common: `got` and `lost` are       *)
(* popped, `next` are created.                                                *)
Popped(r, got, lost, next) ==
  /\ pc[r] = "looping"
  /\ got \subseteq TasksIn(r, {"returned"})
  /\ lost \subseteq TasksIn(r, {"raised"})
  /\ next \subseteq ReadyAfter(r, got)
  /\ remaining' = [remaining EXCEPT ![r] = RemainingAfter(r, got)]
  /\ ready' = [ready EXCEPT ![r] = ReadyAfter(r, got) \ next]
  /\ task' \in [Runs -> [Nodes -> TaskStates]]
  /\ \A s \in Runs, n \in Nodes :
       task'[s][n] = IF s # r THEN task[s][n]
                     ELSE IF n \in got THEN "done"
                     ELSE IF n \in lost THEN "failed"
                     ELSE IF n \in next THEN "created" ELSE task[r][n]
  /\ UNCHANGED <<needed, plan, value>>
  /\ \A s \in Runs : Onward(s)

(* Popping finished tasks and starting ready nodes keeps the books right.     *)
LEMMA PopFrame ==
  ASSUME IInv, NEW r \in Runs, NEW got, NEW lost, NEW next, Popped(r, got, lost, next)
  PROVE  /\ Scheduled' /\ Results'
         /\ remaining' \in [Runs -> [Nodes -> SUBSET Nodes]]
         /\ ready' \in [Runs -> SUBSET Nodes]
<1> USE DEF IInv, Popped
<1>0. /\ got \subseteq Nodes /\ next \subseteq Nodes /\ ReadyAfter(r, got) \subseteq Nodes
      /\ Begun(r)
  BY DEF TasksIn, ReadyAfter, TypeOK, Begun
<1>1. /\ remaining' \in [Runs -> [Nodes -> SUBSET Nodes]]
      /\ ready' \in [Runs -> SUBSET Nodes]
  BY <1>0 DEF TypeOK, RemainingAfter
<1>2. \A n \in ReadyAfter(r, got) :
        /\ n \in needed[r] /\ task[r][n] = "idle"
        /\ Upstreams[n] \subseteq Done(r) \cup got
  <2> SUFFICES ASSUME NEW n \in ReadyAfter(r, got)
               PROVE  /\ n \in needed[r] /\ task[r][n] = "idle"
                      /\ Upstreams[n] \subseteq Done(r) \cup got
    OBVIOUS
  <2>1. CASE n \in ready[r]
    BY <1>0, <2>1 DEF Scheduled
  <2>2. CASE n \notin ready[r]
    <3>1. /\ n \in needed[r] /\ n \in Nodes
          /\ remaining[r][n] \cap got # {}
          /\ remaining[r][n] \ got = {}
      BY <2>2, <1>0 DEF ReadyAfter, RemainingAfter
    <3>2. remaining[r][n] = Upstreams[n] \ Done(r)
      BY <1>0, <3>1 DEF Scheduled
    <3>3. task[r][n] = "idle"
      BY <3>1, <3>2 DEF Scheduled
    <3> QED
      BY <3>1, <3>2, <3>3
  <2> QED
    BY <2>1, <2>2
<1>3. /\ Done(r)' = Done(r) \cup got
      /\ \A s \in Runs : s # r => Done(s)' = Done(s)
  <2>1. \A n \in next : task[r][n] = "idle"
    BY <1>2
  <2>2. \A n \in lost : task[r][n] = "raised"
    BY DEF TasksIn
  <2> QED
    BY <1>0, <2>1, <2>2 DEF Done, TasksIn
<1>4. Scheduled'
  <2> SUFFICES ASSUME NEW s \in Runs
               PROVE  /\ UpClosed(needed[s])
                      /\ Begun(s)' =>
                           /\ \A n \in needed[s] : remaining'[s][n] = Upstreams[n] \ Done(s)'
                           /\ \A n \in ready'[s] : /\ n \in needed[s]
                                                   /\ task'[s][n] = "idle"
                                                   /\ Upstreams[n] \subseteq Done(s)'
                      /\ \A n \in Nodes : task'[s][n] # "idle" =>
                           /\ n \in needed[s] /\ Upstreams[n] \subseteq Done(s)'
                           /\ pc'[s] \notin {"idle", "planning"}
    BY DEF Scheduled, UpClosed
  <2>0. needed[s] \subseteq Nodes /\ ready[s] \subseteq Nodes
    BY DEF TypeOK
  <2>1. CASE s = r
    <3>1. \A n \in needed[r] : remaining'[r][n] = Upstreams[n] \ Done(r)'
      <4>1. \A n \in needed[r] : remaining'[r][n] = remaining[r][n] \ got
        BY <2>0, <2>1 DEF TypeOK, RemainingAfter
      <4> QED
        BY <1>0, <1>3, <4>1 DEF Scheduled
    <3>2. ready'[r] = ReadyAfter(r, got) \ next
      BY DEF TypeOK
    <3>3. \A n \in ready'[r] : task'[r][n] = "idle"
      BY <1>0, <1>2, <3>2 DEF TasksIn
    <3>4. \A n \in ready'[r] : n \in needed[r] /\ Upstreams[n] \subseteq Done(r)'
      BY <1>3, <1>2, <3>2
    <3>5. ASSUME NEW n \in Nodes, task'[r][n] # "idle"
          PROVE  n \in needed[r] /\ Upstreams[n] \subseteq Done(r)'
      <4>1. CASE n \in next
        BY <1>3, <1>2, <4>1
      <4>2. CASE n \notin next
        <5>1. task[r][n] # "idle"
          BY <3>5, <4>2 DEF TasksIn
        <5> QED
          BY <1>3, <5>1 DEF Scheduled
      <4> QED
        BY <4>1, <4>2
    <3>6. UpClosed(needed[r]) /\ pc'[r] \notin {"idle", "planning"}
      BY DEF Scheduled, Onward
    <3> QED
      BY <2>1, <3>1, <3>3, <3>4, <3>5, <3>6
  <2>2. CASE s # r
    <3>1. remaining'[s] = remaining[s] /\ ready'[s] = ready[s]
      BY <2>2 DEF TypeOK
    <3>2. \A n \in Nodes : task'[s][n] = task[s][n]
      BY <2>2
    <3>3. Done(s)' = Done(s)
      BY <1>3, <2>2
    <3> QED
      BY <2>0, <3>1, <3>2, <3>3 DEF Scheduled, Onward
  <2> QED
    BY <2>1, <2>2
<1>5. Results'
  <2>1. \A s \in Runs, n \in Nodes : task'[s][n] \in {"returned", "done"} =>
                                     task[s][n] \in {"returned", "done"}
    BY DEF TasksIn
  <2> QED
    BY <2>1, ResultsFrame
<1> QED
  BY <1>1, <1>4, <1>5

LEMMA CollectStep ==
  ASSUME IInv, NEW r \in Runs, Collect(r)
  PROVE  IInv'
<1> DEFINE got    == TasksIn(r, {"returned"})
           lost   == TasksIn(r, {"raised"})
           queue  == ReadyAfter(r, got)
           next   == Least(queue, MaxConcurrency - Cardinality(InFlight(r)))
           failed == lost \cup TasksIn(r, {"failed"})
<1> USE DEF IInv, run, sched, outside
<1>1. /\ pc[r] = "looping"
      /\ remaining' = [remaining EXCEPT ![r] = RemainingAfter(r, got)]
      /\ ready' = [ready EXCEPT ![r] = queue \ next]
      /\ task' = [task EXCEPT ![r] = [n \in Nodes |->
                    CASE n \in got  -> "done"
                      [] n \in lost -> "failed"
                      [] n \in next -> "created"
                      [] OTHER      -> task[r][n]]]
      /\ \/ UNCHANGED <<pc, claimed>>
         \/ Release(r, "failed")
         \/ Release(r, "success")
      /\ UNCHANGED <<outside, scoped, cache, run, value, manifest>>
  BY DEF Collect
<1>2. next \subseteq queue
  BY DEF Least
<1>3. \A n \in Nodes : /\ n \in got => task[r][n] = "returned"
                       /\ n \in lost => task[r][n] = "raised"
                       /\ n \in next => task[r][n] = "idle"
  BY <1>1, <1>2 DEF TasksIn, ReadyAfter, Scheduled, RemainingAfter, Begun
<1> HIDE DEF next, queue
<1>4. \A s \in Runs, n \in Nodes :
        task'[s][n] = IF s # r THEN task[s][n]
                      ELSE IF n \in got THEN "done"
                      ELSE IF n \in lost THEN "failed"
                      ELSE IF n \in next THEN "created" ELSE task[r][n]
  BY <1>1, <1>3 DEF TypeOK
<1>5. task' \in [Runs -> [Nodes -> TaskStates]]
  <2>1. [n \in Nodes |-> CASE n \in got  -> "done"
                           [] n \in lost -> "failed"
                           [] n \in next -> "created"
                           [] OTHER      -> task[r][n]] \in [Nodes -> TaskStates]
    BY <1>3 DEF TypeOK, TaskStates
  <2> QED
    BY <1>1, <2>1 DEF TypeOK
<1>6. /\ Isolation'
      /\ pc' \in [Runs -> PCs]
      /\ claimed' \subseteq Instances
      /\ \A s \in Runs : Live(s)' => Live(s)
      /\ \A s \in Runs : Onward(s)
  <2>1. CASE UNCHANGED <<pc, claimed>>
    <3>1. \A s \in Runs : (Live(s)' <=> Live(s)) /\ Onward(s)
      BY <2>1 DEF Live, Onward, Begun
    <3> QED
      BY <1>1, <2>1, <3>1, IsolationFrame DEF TypeOK
  <2>2. CASE Release(r, "failed") \/ Release(r, "success")
    <3>1. Live(r) /\ Begun(r)
      BY <1>1 DEF Live, Begun
    <3> QED
      BY <1>1, <2>2, <3>1, ReleaseFrame
  <2> QED
    BY <1>1, <2>1, <2>2
<1>7. /\ Scheduled' /\ Results'
      /\ remaining' \in [Runs -> [Nodes -> SUBSET Nodes]]
      /\ ready' \in [Runs -> SUBSET Nodes]
  <2>1. next \subseteq ReadyAfter(r, got)
    BY <1>2 DEF queue
  <2>2. ready' = [ready EXCEPT ![r] = ReadyAfter(r, got) \ next]
    BY <1>1 DEF queue
  <2>3. Popped(r, got, lost, next)
    BY <1>1, <1>4, <1>5, <1>6, <2>1, <2>2 DEF Popped
  <2> HIDE DEF got, lost
  <2> QED
    BY <2>3, PopFrame
<1>8. TypeOK'
  BY <1>1, <1>5, <1>6, <1>7 DEF TypeOK
<1> QED
  BY <1>1, <1>6, <1>7, <1>8, SnapshotFrame, PlanFrame, ValuesFrame, CacheFrame, ManifestFrame

LEMMA StopLoopStep ==
  ASSUME IInv, NEW r \in Runs, pc[r] = "looping",
         NEW got \in SUBSET TasksIn(r, {"returned"}), NEW lost \in SUBSET TasksIn(r, {"raised"}),
         NEW stop, NEW unwinding \in {"failing", "cancelling"}, NEW final \in {"failed", "cancelled"},
         StopLoop(r, got, lost, stop, unwinding, final),
         UNCHANGED <<outside, scoped, cache, run, value, manifest>>
  PROVE  IInv'
<1> USE DEF IInv, run, sched, outside
<1>1. /\ remaining' = [remaining EXCEPT ![r] = RemainingAfter(r, got)]
      /\ ready' = [ready EXCEPT ![r] = ReadyAfter(r, got)]
      /\ task' = [task EXCEPT ![r] = [n \in Nodes |->
                    CASE n \in got  -> "done"
                      [] n \in lost -> "failed"
                      [] OTHER      -> task[r][n]]]
      /\ Release(r, final) \/ (pc' = [pc EXCEPT ![r] = unwinding] /\ UNCHANGED claimed)
  BY DEF StopLoop
<1>2. Live(r) /\ Begun(r)
  BY DEF Live, Begun
<1>3. /\ \A n \in got : task[r][n] = "returned"
      /\ \A n \in lost : n \in Nodes /\ task[r][n] = "raised"
  BY DEF TasksIn
<1>4. \A s \in Runs, n \in Nodes :
        task'[s][n] = IF s # r THEN task[s][n]
                      ELSE IF n \in got THEN "done"
                      ELSE IF n \in lost THEN "failed"
                      ELSE IF n \in {} THEN "created" ELSE task[r][n]
  BY <1>1, <1>3 DEF TypeOK
<1>5. task' \in [Runs -> [Nodes -> TaskStates]]
  <2>1. [n \in Nodes |-> CASE n \in got  -> "done"
                           [] n \in lost -> "failed"
                           [] OTHER      -> task[r][n]] \in [Nodes -> TaskStates]
    BY <1>3 DEF TypeOK, TaskStates
  <2> QED
    BY <1>1, <2>1 DEF TypeOK
<1>6. /\ Isolation'
      /\ pc' \in [Runs -> PCs]
      /\ claimed' \subseteq Instances
      /\ \A s \in Runs : Live(s)' => Live(s)
      /\ \A s \in Runs : Onward(s)
  <2>1. CASE pc' = [pc EXCEPT ![r] = unwinding] /\ UNCHANGED claimed
    <3>1. \A s \in Runs : (Live(s)' <=> Live(s)) /\ Onward(s)
      BY <1>2, <2>1 DEF Live, TypeOK, Onward, Begun
    <3>2. pc' \in [Runs -> PCs]
      BY <2>1 DEF TypeOK, PCs
    <3> QED
      BY <1>2, <2>1, <3>1, <3>2, IsolationFrame DEF TypeOK
  <2>2. CASE Release(r, final)
    BY <1>2, <2>2, ReleaseFrame
  <2> QED
    BY <1>1, <2>1, <2>2
<1>7. /\ Scheduled' /\ Results'
      /\ remaining' \in [Runs -> [Nodes -> SUBSET Nodes]]
      /\ ready' \in [Runs -> SUBSET Nodes]
  <2>1. ready' = [ready EXCEPT ![r] = ReadyAfter(r, got) \ {}]
    BY <1>1
  <2>2. Popped(r, got, lost, {})
    BY <1>1, <1>2, <1>4, <1>5, <1>6, <2>1 DEF Popped
  <2> QED
    BY <2>2, PopFrame
<1>8. TypeOK'
  BY <1>2, <1>5, <1>6, <1>7 DEF TypeOK
<1> QED
  BY <1>2, <1>6, <1>7, <1>8, SnapshotFrame, PlanFrame, ValuesFrame, CacheFrame, ManifestFrame

LEMMA CollectErrorStep ==
  ASSUME IInv, NEW r \in Runs, CollectError(r)
  PROVE  IInv'
<1>1. PICK bad \in TasksIn(r, {"raised"}), got \in SUBSET TasksIn(r, {"returned"}) :
        StopLoop(r, got, {bad}, bad, "failing", "failed")
  BY DEF CollectError
<1>2. /\ pc[r] = "looping" /\ {bad} \in SUBSET TasksIn(r, {"raised"})
      /\ UNCHANGED <<outside, scoped, cache, run, value, manifest>>
  BY DEF CollectError
<1> QED
  BY <1>1, <1>2, StopLoopStep

LEMMA CollectCancelledStep ==
  ASSUME IInv, NEW r \in Runs, CollectCancelled(r)
  PROVE  IInv'
<1>1. PICK gone \in TasksIn(r, {"cancelled"}),
           got \in SUBSET TasksIn(r, {"returned"}), lost \in SUBSET TasksIn(r, {"raised"}) :
        StopLoop(r, got, lost, gone, "cancelling", "cancelled")
  BY DEF CollectCancelled
<1>2. pc[r] = "looping" /\ UNCHANGED <<outside, scoped, cache, run, value, manifest>>
  BY DEF CollectCancelled
<1> QED
  BY <1>1, <1>2, StopLoopStep

LEMMA UnwoundStep ==
  ASSUME IInv, NEW r \in Runs, Unwound(r)
  PROVE  IInv'
<1> USE DEF IInv, run, sched, outside
<1>1. /\ Live(r) /\ Begun(r)
      /\ Release(r, "failed") \/ Release(r, "cancelled")
      /\ UNCHANGED <<outside, scoped, cache, run, sched, task, value, manifest>>
  BY DEF Unwound, Live, Begun
<1>2. /\ Isolation'
      /\ pc' \in [Runs -> PCs]
      /\ claimed' \subseteq Instances
      /\ \A s \in Runs : Live(s)' => Live(s)
      /\ \A s \in Runs : Onward(s)
  BY <1>1, ReleaseFrame
<1>3. TypeOK'
  BY <1>1, <1>2 DEF TypeOK
<1> QED
  BY <1>1, <1>2, <1>3, SnapshotFrame, PlanFrame, ScheduledFrame, ResultsFrame, ValuesFrame,
     CacheFrame, ManifestFrame

LEMMA CrashStep ==
  ASSUME IInv, Crash
  PROVE  IInv'
<1> USE DEF IInv, run, sched, outside
<1>1. PICK kept \in SUBSET DOMAIN cache : cache' = [k \in kept |-> cache[k]]
  BY DEF Crash
<1>2. /\ pc' = [r \in Runs |-> IF Live(r) THEN "died" ELSE pc[r]]
      /\ task' = [r \in Runs |-> [n \in Nodes |->
                    IF Live(r) /\ n \in InFlight(r) THEN "cancelled" ELSE task[r][n]]]
      /\ claimed' = {}
      /\ scoped' = [i \in Instances |-> Empty]
      /\ UNCHANGED <<outside, run, sched, value, manifest>>
  BY DEF Crash
<1>3. \A r \in Runs : ~Live(r)' /\ Onward(r)
  BY <1>2 DEF Live, Onward, Begun
<1>4. CacheSound' /\ CacheTracked'
  BY <1>1 DEF CacheSound, CacheTracked, Known, Origin, UseCache
<1>5. TypeOK'
  <2>1. task' \in [Runs -> [Nodes -> TaskStates]] /\ pc' \in [Runs -> PCs]
    BY <1>2 DEF TypeOK, TaskStates, PCs
  <2> QED
    BY <1>1, <1>2, <2>1 DEF TypeOK
<1>6. Isolation' /\ SnapshotHeld' /\ PlanFixed' /\ PlanComplete'
  BY <1>2, <1>3 DEF Isolation, SnapshotHeld, PlanFixed, PlanComplete, Onward
<1>7. \A r \in Runs, n \in Nodes :
        /\ task'[r][n] = "idle" <=> task[r][n] = "idle"
        /\ task'[r][n] = "done" <=> task[r][n] = "done"
        /\ task'[r][n] \in {"returned", "done"} => task[r][n] \in {"returned", "done"}
  BY <1>2 DEF InFlight, TasksIn
<1> QED
  BY <1>2, <1>3, <1>4, <1>5, <1>6, <1>7, ScheduledFrame, ResultsFrame, ValuesFrame, ManifestFrame

-----------------------------------------------------------------------------
(* Theorems *)

LEMMA StutterStep ==
  ASSUME IInv, UNCHANGED vars
  PROVE  IInv'
BY QuietStep DEF IInv, TypeOK, vars, Live, Onward, Begun

LEMMA NextInvariant == IInv /\ [Next]_vars => IInv'
<1> SUFFICES ASSUME IInv, [Next]_vars PROVE IInv'
  OBVIOUS
<1>1. ASSUME NEW n \in ScopedNodes, Edit(n) PROVE IInv'
  BY <1>1, EditStep
<1>2. ASSUME NEW r \in Runs, Call(r) PROVE IInv'
  BY <1>2, RejectStep, ClaimStep DEF Call
<1>3. ASSUME NEW r \in Runs, PlanStep(r) PROVE IInv'
  BY <1>3, ConfigKeyStep, PlanFailsStep, BeginStep DEF PlanStep
<1>4. ASSUME NEW r \in Runs, NEW n \in Nodes, TaskStep(r, n) PROVE IInv'
  BY <1>4, CacheHitStep, StartExecuteStep, ExecuteStep, NodeFailsStep, GetFailsStep,
     PutFailsStep, TaskCancelledStep DEF TaskStep
<1>5. ASSUME NEW r \in Runs, RunStep(r) \/ Cancel(r) PROVE IInv'
  BY <1>5, CollectStep, CollectErrorStep, CollectCancelledStep, UnwoundStep, CancelStep DEF RunStep
<1>6. CASE Crash
  BY <1>6, CrashStep
<1>7. CASE UNCHANGED vars
  BY <1>7, StutterStep
<1> QED
  BY <1>1, <1>2, <1>3, <1>4, <1>5, <1>6, <1>7 DEF Next

(* The inductive invariant holds in every reachable state.                    *)
THEOREM InvariantHolds == Spec => []IInv
BY InitInvariant, NextInvariant, PTL DEF Spec

(* Every variable keeps its type.                                             *)
THEOREM TypeCorrect == Spec => []TypeOK
<1>1. IInv => TypeOK
  BY DEF IInv
<1> QED
  BY <1>1, InvariantHolds, PTL

(* Runs in flight never share a node object, and the claim registry holds     *)
(* exactly their nodes, however runs fail, are cancelled or end.              *)
THEOREM RunsAreIsolated == Spec => []Isolation
<1>1. IInv => Isolation
  BY DEF IInv
<1> QED
  BY <1>1, InvariantHolds, PTL

(* A run's nodes hold what the run planned with until the run is over.        *)
THEOREM SnapshotsAreHeld == Spec => []SnapshotHeld
<1>1. IInv => SnapshotHeld
  BY DEF IInv
<1> QED
  BY <1>1, InvariantHolds, PTL

(* The cache never binds a key to a value of other contents.                  *)
THEOREM CacheIsSound == Spec => []CacheSound
<1>1. IInv => CacheSound
  BY DEF IInv
<1> QED
  BY <1>1, InvariantHolds, PTL

(* A cache entry is never rebound to a result of other contents               *)
(* (executor.py:322).                                                        *)
EntryNeverRebound ==
  [][\A k \in DOMAIN cache \cap DOMAIN cache' :
       Known(k[2]) => cache'[k].src = cache[k].src]_vars

(* An entry that is written again keeps the contents its value comes from.    *)
THEOREM EntriesKeepTheirSource == Spec => EntryNeverRebound
<1>1. CacheSound /\ CacheSound'
        => [\A k \in DOMAIN cache \cap DOMAIN cache' :
              Known(k[2]) => cache'[k].src = cache[k].src]_vars
  BY DEF CacheSound, Known
<1> QED
  BY <1>1, CacheIsSound, PTL DEF EntryNeverRebound

(* What a run hands out was computed from what it planned with.               *)
THEOREM OutputsFollowPlan == Spec => []OutputsMatchPlan
<1>1. IInv => OutputsMatchPlan
  BY DEF IInv, Results, OutputsMatchPlan, MatchesPlan, TasksIn
<1> QED
  BY <1>1, InvariantHolds, PTL

(* Raw content never reaches a persistent cache.                              *)
THEOREM ContentStaysTransient == Spec => []ContentBoundary
<1>1. IInv => ContentBoundary
  <2> SUFFICES ASSUME IInv, CachePersists, NEW k \in DOMAIN cache, cache[k].raw
               PROVE  FALSE
    BY DEF ContentBoundary
  <2>1. UseCache(k[1]) /\ k[1] \in ContentBearingNodes
    BY DEF IInv, CacheTracked, Origin
  <2> QED
    BY <2>1, ExecutorAssumption DEF UseCache, CacheIsPersistent
<1> QED
  BY <1>1, InvariantHolds, PTL

(* No manifest quotes customer content.                                       *)
THEOREM ManifestsAreContentFree == Spec => []ManifestContentFree
<1>1. IInv => ManifestContentFree
  BY DEF IInv
<1> QED
  BY <1>1, InvariantHolds, PTL

(* No Finding computed from a stochastic node passes as certified, but where  *)
(* its own node put it out of _detaint's reach (executor.py:43-79).           *)
THEOREM CertificationIsDeterministic == Spec => []CertifiedIsDeterministic
<1>1. IInv => CertifiedIsDeterministic
  <2> SUFFICES ASSUME IInv, NEW r \in Runs, NEW n \in Nodes, value[r][n] # NoValue,
                      NEW p \in value[r][n].src, Kind[p[1]] = "stochastic"
               PROVE  value[r][n].cert \subseteq IF n \in OpaqueNodes THEN {"opaque"} ELSE {}
    BY DEF CertifiedIsDeterministic
  <2>1. Origin(value[r][n], n)
    BY DEF IInv, ValuesTracked
  <2>2. n \in TaintedNodes
    BY <2>1, TaintedIffStochasticLineage DEF Origin
  <2> QED
    BY <2>1, <2>2 DEF Origin
<1> QED
  BY <1>1, InvariantHolds, PTL
-----------------------------------------------------------------------------
(* What happens to tasks, in every step at once: a task's states go forward,  *)
(* and a run ends only with nothing in flight.                                *)
Forward ==
  \A r \in Runs, n \in Nodes :
    /\ task'[r][n] = "created" => task[r][n] \in {"idle", "created"}
    /\ task[r][n] \in {"done", "failed", "cancelled"} => task'[r][n] = task[r][n]

LEMMA QuietForward ==
  ASSUME TypeOK, NEW r \in Runs, NEW n \in Nodes,
         task[r][n] \in {"created", "running"},
         NEW state \in {"running", "returned", "raised", "cancelled"}, SetTask(r, n, state)
  PROVE  Forward
<1>1. \A s \in Runs, m \in Nodes :
        task'[s][m] = IF s = r /\ m = n THEN state ELSE task[s][m]
  BY DEF SetTask, TypeOK
<1> QED
  BY <1>1 DEF Forward

(* Which tasks Collect touches, and what they were.                           *)
LEMMA CollectTasks ==
  ASSUME IInv, NEW r \in Runs, Collect(r)
  PROVE  \A s \in Runs, n \in Nodes :
           \/ task'[s][n] = task[s][n] /\ (s = r => task[s][n] \notin {"returned", "raised"})
           \/ s = r /\ task[s][n] = "returned" /\ task'[s][n] = "done"
           \/ s = r /\ task[s][n] = "raised" /\ task'[s][n] = "failed"
           \/ s = r /\ task[s][n] = "idle" /\ task'[s][n] = "created" /\ pc'[r] = "looping"
<1> DEFINE got  == TasksIn(r, {"returned"})
           lost == TasksIn(r, {"raised"})
           queue == ReadyAfter(r, got)
           next == Least(queue, MaxConcurrency - Cardinality(InFlight(r)))
<1> USE DEF IInv
<1>1. /\ task' = [task EXCEPT ![r] = [n \in Nodes |->
                    CASE n \in got  -> "done"
                      [] n \in lost -> "failed"
                      [] n \in next -> "created"
                      [] OTHER      -> task[r][n]]]
      /\ next # {} => pc'[r] = "looping"
  BY DEF Collect
<1>2. \A n \in Nodes : /\ n \in got <=> task[r][n] = "returned"
                       /\ n \in lost <=> task[r][n] = "raised"
  BY DEF TasksIn
<1>3. \A n \in next : task[r][n] = "idle"
  <2>1. next \subseteq queue
    BY DEF Least
  <2>2. \A n \in ready[r] : task[r][n] = "idle"
    BY DEF Scheduled, Begun, Collect
  <2>3. ASSUME NEW n \in needed[r], remaining[r][n] \cap got # {}
        PROVE  task[r][n] = "idle"
    BY <2>3 DEF Scheduled, Done, TasksIn, TypeOK, Begun, Collect
  <2>4. \A n \in queue : task[r][n] = "idle"
    BY <2>2, <2>3 DEF ReadyAfter
  <2> HIDE DEF next, queue
  <2> QED
    BY <2>1, <2>4
<1> HIDE DEF next, got, lost
<1>4. \A n \in Nodes :
        task'[r][n] = IF n \in got THEN "done"
                      ELSE IF n \in lost THEN "failed"
                      ELSE IF n \in next THEN "created" ELSE task[r][n]
  BY <1>1, <1>2, <1>3 DEF TypeOK
<1>5. \A s \in Runs : s # r => task'[s] = task[s]
  BY <1>1 DEF TypeOK
<1> QED
  BY <1>1, <1>2, <1>3, <1>4, <1>5

LEMMA StopLoopTasks ==
  ASSUME IInv, NEW r \in Runs, pc[r] = "looping",
         NEW got \in SUBSET TasksIn(r, {"returned"}), NEW lost \in SUBSET TasksIn(r, {"raised"}),
         NEW stop, stop \in TasksIn(r, {"cancelled"}) \/ stop \in lost,
         NEW unwinding \in {"failing", "cancelling"}, NEW final,
         StopLoop(r, got, lost, stop, unwinding, final)
  PROVE  /\ \A s \in Runs, n \in Nodes :
              \/ task'[s][n] = task[s][n]
              \/ s = r /\ task[s][n] = "returned" /\ task'[s][n] = "done"
              \/ s = r /\ task[s][n] = "raised" /\ task'[s][n] = "failed"
         /\ \A s \in Runs : s # r => task'[s] = task[s] /\ pc'[s] = pc[s]
         /\ Ended(r)' => InFlight(r) = {}
<1> USE DEF IInv
<1>1. /\ task' = [task EXCEPT ![r] = [n \in Nodes |->
                    CASE n \in got  -> "done"
                      [] n \in lost -> "failed"
                      [] OTHER      -> task[r][n]]]
      /\ IF Pending(r) \subseteq got \cup lost \cup {stop} THEN Release(r, final)
         ELSE pc' = [pc EXCEPT ![r] = unwinding] /\ UNCHANGED claimed
  BY DEF StopLoop
<1>2. \A s \in Runs, n \in Nodes :
        task'[s][n] = IF s # r THEN task[s][n]
                      ELSE IF n \in got THEN "done"
                      ELSE IF n \in lost THEN "failed" ELSE task[s][n]
  BY <1>1 DEF TypeOK, TasksIn
<1>3. \A s \in Runs : s # r => task'[s] = task[s] /\ pc'[s] = pc[s]
  BY <1>1 DEF TypeOK, Release
<1>4. ASSUME Ended(r)' PROVE InFlight(r) = {}
  <2>1. Pending(r) \subseteq got \cup lost \cup {stop}
    BY <1>1, <1>4 DEF Ended, TypeOK
  <2> QED
    BY <2>1 DEF Pending, InFlight, TasksIn
<1>5. \A n \in Nodes : /\ n \in got => task[r][n] = "returned"
                       /\ n \in lost => task[r][n] = "raised"
  BY DEF TasksIn
<1> QED
  BY <1>2, <1>3, <1>4, <1>5

LEMMA CollectErrorTasks ==
  ASSUME IInv, NEW r \in Runs, CollectError(r) \/ CollectCancelled(r)
  PROVE  /\ \A s \in Runs, n \in Nodes :
              \/ task'[s][n] = task[s][n]
              \/ s = r /\ task[s][n] = "returned" /\ task'[s][n] = "done"
              \/ s = r /\ task[s][n] = "raised" /\ task'[s][n] = "failed"
         /\ \A s \in Runs : s # r => task'[s] = task[s] /\ pc'[s] = pc[s]
         /\ Ended(r)' => InFlight(r) = {}
<1>1. CASE CollectError(r)
  <2>1. PICK bad \in TasksIn(r, {"raised"}), got \in SUBSET TasksIn(r, {"returned"}) :
          StopLoop(r, got, {bad}, bad, "failing", "failed")
    BY <1>1 DEF CollectError
  <2>2. pc[r] = "looping" /\ {bad} \in SUBSET TasksIn(r, {"raised"})
    BY <1>1 DEF CollectError
  <2> QED
    BY <2>1, <2>2, StopLoopTasks
<1>2. CASE CollectCancelled(r)
  <2>1. PICK gone \in TasksIn(r, {"cancelled"}),
             got \in SUBSET TasksIn(r, {"returned"}), lost \in SUBSET TasksIn(r, {"raised"}) :
          StopLoop(r, got, lost, gone, "cancelling", "cancelled")
    BY <1>2 DEF CollectCancelled
  <2>2. pc[r] = "looping"
    BY <1>2 DEF CollectCancelled
  <2> QED
    BY <2>1, <2>2, StopLoopTasks
<1> QED
  BY <1>1, <1>2

LEMMA BeginTasks ==
  ASSUME IInv, NEW r \in Runs, Begin(r)
  PROVE  /\ pc[r] = "planning" /\ pc'[r] = "looping"
         /\ \A n \in Nodes : task[r][n] = "idle"
         /\ \A s \in Runs : s # r => task'[s] = task[s] /\ pc'[s] = pc[s]
BY DEF Begin, Scheduled, IInv, TypeOK

(* Neither a call nor the reading of a plan touches a task, and what it ends  *)
(* had none.                                                                  *)
LEMMA PlanningTasks ==
  ASSUME IInv, NEW r \in Runs,
         Call(r) \/ \E n \in ScopedNodes : ConfigKey(r, n) \/ PlanFails(r, n)
  PROVE  /\ pc[r] \in {"idle", "planning"} /\ pc'[r] \in {"rejected", "planning", "unplanned"}
         /\ UNCHANGED task
         /\ \A s \in Runs : s # r => pc'[s] = pc[s]
<1>1. CASE Call(r)
  BY <1>1 DEF Call, Reject, Claim, IInv, TypeOK
<1>2. CASE \E n \in ScopedNodes : ConfigKey(r, n)
  BY <1>2 DEF ConfigKey, ReadsNext
<1>3. CASE \E n \in ScopedNodes : PlanFails(r, n)
  BY <1>3 DEF PlanFails, ReadsNext, Release, IInv, TypeOK
<1> QED
  BY <1>1, <1>2, <1>3

LEMMA NextForward == IInv /\ [Next]_vars => Forward
<1> SUFFICES ASSUME IInv, [Next]_vars PROVE Forward
  OBVIOUS
<1>1. ASSUME task' = task PROVE Forward
  BY <1>1 DEF Forward
<1>2. ASSUME NEW r \in Runs, NEW n \in Nodes, TaskStep(r, n) PROVE Forward
  <2>1. task[r][n] \in {"created", "running"}
    BY <1>2 DEF TaskStep, CacheHit, StartExecute, Execute, NodeFails, GetFails, PutFails,
       TaskCancelled, InFlight, TasksIn
  <2>2. \E state \in {"running", "returned", "raised", "cancelled"} : SetTask(r, n, state)
    BY <1>2 DEF TaskStep, CacheHit, StartExecute, Execute, NodeFails, GetFails, PutFails,
       TaskCancelled
  <2> QED
    BY <2>1, <2>2, QuietForward DEF IInv
<1>3. ASSUME NEW r \in Runs, Collect(r) PROVE Forward
  BY <1>3, CollectTasks DEF Forward
<1>4. ASSUME NEW r \in Runs, CollectError(r) \/ CollectCancelled(r) PROVE Forward
  BY <1>4, CollectErrorTasks DEF Forward
<1>5. ASSUME NEW r \in Runs, Call(r) \/ PlanStep(r) PROVE Forward
  BY <1>1, <1>5, BeginTasks, PlanningTasks DEF Forward, PlanStep
<1>6. CASE Crash
  BY <1>6 DEF Crash, Forward, InFlight, TasksIn
<1> QED
  BY <1>1, <1>2, <1>3, <1>4, <1>5, <1>6
  DEF Next, Edit, RunStep, Unwound, Cancel, vars

LEMMA NextEndsQuiet == IInv /\ NoTaskOutlivesRun /\ [Next]_vars => NoTaskOutlivesRun'
<1> SUFFICES ASSUME IInv, NoTaskOutlivesRun, [Next]_vars, NEW r \in Runs, Ended(r)'
             PROVE  InFlight(r)' = {}
  BY DEF NoTaskOutlivesRun
<1> USE DEF IInv
<1>0. /\ Ended(r) => \A n \in Nodes : task[r][n] \notin {"created", "running"}
      /\ pc[r] \in {"idle", "planning"} => \A n \in Nodes : task[r][n] = "idle"
  BY DEF NoTaskOutlivesRun, Scheduled, InFlight, TasksIn
<1>1. ASSUME task'[r] = task[r], Ended(r) \/ pc[r] \in {"idle", "planning"}
      PROVE  InFlight(r)' = {}
  BY <1>0, <1>1 DEF InFlight, TasksIn
<1>2. ASSUME NEW s \in Runs, NEW n \in Nodes, TaskStep(s, n) PROVE InFlight(r)' = {}
  <2>1. Live(s) /\ pc' = pc
    BY <1>2 DEF TaskStep, CacheHit, StartExecute, Execute, NodeFails, GetFails, PutFails,
       TaskCancelled, Live
  <2>2. r # s /\ Ended(r)
    BY <2>1 DEF Ended, Live
  <2>3. \E state : SetTask(s, n, state)
    BY <1>2 DEF TaskStep, CacheHit, StartExecute, Execute, NodeFails, GetFails, PutFails,
       TaskCancelled
  <2>4. task'[r] = task[r]
    BY <2>2, <2>3 DEF SetTask, TypeOK
  <2> QED
    BY <1>1, <2>2, <2>4
<1>3. ASSUME NEW s \in Runs, Collect(s) PROVE InFlight(r)' = {}
  <2>1. CASE r = s
    <3>1. pc'[r] # "looping" /\ pc[r] = "looping"
      BY <1>3, <2>1 DEF Collect, Ended
    <3>2. InFlight(r) = {}
      BY <1>3, <2>1, <3>1 DEF Collect
    <3> QED
      BY <1>3, <2>1, <3>1, <3>2, CollectTasks DEF InFlight, TasksIn
  <2>2. CASE r # s
    <3>1. task'[r] = task[r] /\ pc'[r] = pc[r]
      BY <1>3, <2>2 DEF Collect, Release, TypeOK
    <3> QED
      BY <1>1, <3>1 DEF Ended
  <2> QED
    BY <2>1, <2>2
<1>4. ASSUME NEW s \in Runs, CollectError(s) \/ CollectCancelled(s) PROVE InFlight(r)' = {}
  <2>1. CASE r = s
    <3>1. InFlight(r) = {}
      BY <1>4, <2>1, CollectErrorTasks
    <3> QED
      BY <1>4, <2>1, <3>1, CollectErrorTasks DEF InFlight, TasksIn
  <2>2. CASE r # s
    BY <1>1, <1>4, <2>2, CollectErrorTasks DEF Ended
  <2> QED
    BY <2>1, <2>2
<1>5. ASSUME NEW s \in Runs, Begin(s) PROVE InFlight(r)' = {}
  <2>1. r # s
    BY <1>5, BeginTasks DEF Ended
  <2> QED
    BY <1>1, <1>5, <2>1, BeginTasks DEF Ended
<1>6. CASE Crash
  <2>1. CASE Live(r)
    BY <1>6, <2>1 DEF Crash, InFlight, TasksIn
  <2>2. CASE ~Live(r)
    <3>1. pc'[r] = pc[r] /\ \A n \in Nodes : task'[r][n] = task[r][n]
      BY <1>6, <2>2 DEF Crash
    <3> QED
      BY <1>0, <3>1 DEF Ended, InFlight, TasksIn
  <2> QED
    BY <2>1, <2>2
<1>7. ASSUME NEW s \in Runs,
             Call(s) \/ \E n \in ScopedNodes : ConfigKey(s, n) \/ PlanFails(s, n)
      PROVE  InFlight(r)' = {}
  <2>1. task' = task /\ (pc'[r] = pc[r] \/ pc[r] \in {"idle", "planning"})
    BY <1>7, PlanningTasks
  <2> QED
    BY <1>1, <2>1 DEF Ended
<1>8. ASSUME NEW s \in Runs, Unwound(s) PROVE InFlight(r)' = {}
  <2>1. CASE r = s
    BY <1>8, <2>1 DEF Unwound, InFlight, TasksIn
  <2>2. CASE r # s
    <3>1. task'[r] = task[r] /\ pc'[r] = pc[r]
      BY <1>8, <2>2 DEF Unwound, Release, TypeOK
    <3> QED
      BY <1>1, <3>1 DEF Ended
  <2> QED
    BY <2>1, <2>2
<1>9. ASSUME NEW s \in Runs, Cancel(s) PROVE InFlight(r)' = {}
  <2>1. r # s /\ pc'[r] = pc[r] /\ task' = task
    BY <1>9 DEF Cancel, Ended, TypeOK
  <2> QED
    BY <1>1, <2>1 DEF Ended
<1>10. ASSUME UNCHANGED <<pc, task>> PROVE InFlight(r)' = {}
  BY <1>1, <1>10 DEF Ended
<1> QED
  BY <1>2, <1>3, <1>4, <1>5, <1>6, <1>7, <1>8, <1>9, <1>10
  DEF Next, Edit, PlanStep, RunStep, vars

(* A node is started at most once per run, and a popped result is final.      *)
THEOREM NodesStartOnce == Spec => StartedOnce
<1>1. IInv /\ [Next]_vars => [Forward]_vars
  BY NextForward
<1> QED
  BY <1>1, InvariantHolds, PTL DEF StartedOnce, Forward, Spec

(* When a run is over, nothing of it still uses the nodes it released.        *)
THEOREM RunsEndQuiet == Spec => []NoTaskOutlivesRun
<1>1. Init => NoTaskOutlivesRun
  BY DEF Init, NoTaskOutlivesRun, Ended
<1> QED
  BY <1>1, InvariantHolds, NextEndsQuiet, PTL DEF Spec

-----------------------------------------------------------------------------
(* The outputs of a run belong together *)

(* The same of what has been returned and not been popped.                    *)
Coherent ==
  \A r \in Runs : \A n \in TasksIn(r, {"returned", "done"}) :
    Known(Digest(r, n)) => MadeOfInputs(r, n)

LEMMA CoherentFrame ==
  ASSUME Coherent, UNCHANGED value,
         \A r \in Runs, n \in Nodes : task'[r][n] \in {"returned", "done"} =>
           task[r][n] \in {"returned", "done"} /\ plan'[r] = plan[r]
  PROVE  Coherent'
<1> SUFFICES ASSUME NEW r \in Runs, NEW n \in Nodes, task'[r][n] \in {"returned", "done"},
                    Known(Digest(r, n))'
             PROVE  MadeOfInputs(r, n)'
  BY DEF Coherent, TasksIn
<1>1. task[r][n] \in {"returned", "done"} /\ plan'[r] = plan[r]
  OBVIOUS
<1>2. Digest(r, n)' = Digest(r, n)
  BY <1>1 DEF Digest
<1>3. Known(Digest(r, n))
  BY <1>2 DEF Known
<1> QED
  BY <1>1, <1>3 DEF Coherent, TasksIn, MadeOfInputs

(* A result made of the inputs that are stored keeps the others as they are:  *)
(* none of them has read a node that was still running.                       *)
LEMMA ResultCoheres ==
  ASSUME IInv, Coherent, NEW r \in Runs, NEW n \in Nodes,
         task[r][n] \in {"created", "running"}, NEW v,
         value' = [value EXCEPT ![r][n] = v], task' = [task EXCEPT ![r][n] = "returned"],
         UNCHANGED plan,
         Known(Digest(r, n)) => \A u \in Upstreams[n] : value[r][u].src \subseteq v.src
  PROVE  Coherent'
<1>1. \A s \in Runs, m \in Nodes :
        /\ value'[s][m] = IF s = r /\ m = n THEN v ELSE value[s][m]
        /\ task'[s][m] = IF s = r /\ m = n THEN "returned" ELSE task[s][m]
  BY DEF IInv, TypeOK
<1>2. \A m \in Nodes : task[r][m] # "idle" => \A u \in Upstreams[m] : u \in Nodes /\ u # n
  BY GraphAssumption DEF IInv, Scheduled, Done, TasksIn
<1> SUFFICES ASSUME NEW s \in Runs, NEW m \in Nodes, task'[s][m] \in {"returned", "done"},
                    Known(Digest(s, m))
             PROVE  \A u \in Upstreams[m] : value'[s][u].src \subseteq value'[s][m].src
  BY DEF Coherent, TasksIn, MadeOfInputs, Known, Digest
<1>3. CASE s = r /\ m = n
  BY <1>1, <1>2, <1>3
<1>4. CASE s = r /\ m # n
  BY <1>1, <1>2, <1>4 DEF Coherent, TasksIn, MadeOfInputs
<1>5. CASE s # r
  BY <1>1, <1>5, GraphAssumption DEF Coherent, TasksIn, MadeOfInputs
<1> QED
  BY <1>3, <1>4, <1>5

(* A hit is served only where the key tells all: of the node and of its       *)
(* inputs it names the same contents.                                         *)
LEMMA CacheHitCoheres ==
  ASSUME IInv, Coherent, NEW r \in Runs, NEW n \in Nodes, CacheHit(r, n)
  PROVE  Coherent'
<1>1. /\ task[r][n] = "created" /\ n \notin CacheUnsafeNodes
      /\ Key(r, n) \in DOMAIN cache
      /\ value' = [value EXCEPT ![r][n] = cache[Key(r, n)]]
      /\ task' = [task EXCEPT ![r][n] = "returned"]
      /\ UNCHANGED plan
  BY DEF CacheHit, UseCache, SetTask, run
<1>2. ASSUME Known(Digest(r, n)), NEW u \in Upstreams[n]
      PROVE  value[r][u].src \subseteq cache[Key(r, n)].src
  <2>1. cache[Key(r, n)].src = Digest(r, n)
    BY <1>1, <1>2 DEF IInv, CacheSound, Key
  <2>2. Digest(r, u) \subseteq Digest(r, n)
    BY DigestUnfold
  <2>3. Known(Digest(r, u)) /\ u \notin CacheUnsafeNodes
    BY <1>1, <1>2, <2>2, CacheUnsafeClosed DEF Known
  <2>4. value[r][u].src = Digest(r, u)
    BY <1>1, <2>3, InputsStored DEF MatchesPlan
  <2> QED
    BY <2>1, <2>2, <2>4
<1> QED
  BY <1>1, <1>2, ResultCoheres

LEMMA ExecuteCoheres ==
  ASSUME IInv, Coherent, NEW r \in Runs, NEW n \in Nodes, Execute(r, n)
  PROVE  Coherent'
<1>1. PICK ext \in ExtsOf(r, n) : value' = [value EXCEPT ![r][n] = Output(r, n, ext)]
  BY DEF Execute
<1>2. /\ task[r][n] = "running"
      /\ task' = [task EXCEPT ![r][n] = "returned"]
      /\ UNCHANGED plan
  BY DEF Execute, SetTask, run
<1>3. \A u \in Upstreams[n] : value[r][u].src \subseteq Computed(r, n, ext).src
  BY DEF Computed
<1>4. Output(r, n, ext).src = Computed(r, n, ext).src
  BY DEF Output, Detaint, Computed
<1> QED
  BY <1>1, <1>2, <1>3, <1>4, ResultCoheres

LEMMA NextCoheres == IInv /\ Coherent /\ [Next]_vars => Coherent'
<1> SUFFICES ASSUME IInv, Coherent, [Next]_vars PROVE Coherent'
  OBVIOUS
<1>1. ASSUME UNCHANGED <<value, plan>>,
             \A r \in Runs, n \in Nodes : task'[r][n] \in {"returned", "done"} =>
               task[r][n] \in {"returned", "done"}
      PROVE  Coherent'
  BY <1>1, CoherentFrame
<1>2. CASE UNCHANGED vars \/ \E n \in ScopedNodes : Edit(n)
  BY <1>1, <1>2 DEF vars, run, Edit
<1>3. ASSUME NEW r \in Runs,
             Call(r) \/ \E n \in ScopedNodes : ConfigKey(r, n) \/ PlanFails(r, n)
      PROVE  Coherent'
  <2>1. /\ \A n \in Nodes : task[r][n] = "idle"
        /\ UNCHANGED task
    BY <1>3, PlanningTasks DEF IInv, Scheduled
  <2>2. /\ UNCHANGED value
        /\ \A s \in Runs : s # r => plan'[s] = plan[s]
    BY <1>3 DEF Call, Reject, Claim, ConfigKey, PlanFails, run, IInv, TypeOK
  <2> QED
    BY <2>1, <2>2, CoherentFrame
<1>4. ASSUME NEW r \in Runs, Begin(r) PROVE Coherent'
  <2>1. \A s \in Runs, n \in Nodes : task'[s][n] \in {"returned", "done"} => task'[s][n] = task[s][n]
    BY <1>4 DEF Begin, IInv, TypeOK
  <2> QED
    BY <1>1, <1>4, <2>1 DEF Begin, run
<1>5. ASSUME NEW r \in Runs, NEW n \in Nodes, TaskStep(r, n) PROVE Coherent'
  <2>1. CASE CacheHit(r, n) \/ Execute(r, n)
    BY <2>1, CacheHitCoheres, ExecuteCoheres
  <2>2. CASE UNCHANGED <<value, plan>>
             /\ \E state \in {"running", "raised", "cancelled"} : SetTask(r, n, state)
    <3>1. \A s \in Runs, m \in Nodes :
            task'[s][m] \in {"returned", "done"} => task'[s][m] = task[s][m]
      BY <2>2 DEF SetTask, IInv, TypeOK
    <3> QED
      BY <1>1, <2>2, <3>1
  <2> QED
    BY <1>5, <2>1, <2>2 DEF TaskStep, StartExecute, NodeFails, GetFails, PutFails,
       TaskCancelled, run
<1>6. ASSUME NEW r \in Runs, RunStep(r) \/ Cancel(r) PROVE Coherent'
  <2>1. UNCHANGED <<value, plan>>
    BY <1>6 DEF RunStep, Collect, CollectError, CollectCancelled, Unwound, Cancel, run
  <2>2. CASE Collect(r)
    BY <1>1, <2>1, <2>2, CollectTasks
  <2>3. CASE CollectError(r) \/ CollectCancelled(r)
    BY <1>1, <2>1, <2>3, CollectErrorTasks
  <2>4. CASE Unwound(r) \/ Cancel(r)
    BY <1>1, <2>1, <2>4 DEF Unwound, Cancel
  <2> QED
    BY <1>6, <2>2, <2>3, <2>4 DEF RunStep
<1>7. CASE Crash
  BY <1>1, <1>7 DEF Crash, run, InFlight, TasksIn
<1> QED
  BY <1>2, <1>3, <1>4, <1>5, <1>6, <1>7 DEF Next, PlanStep

(* Where every file was there, each output of a run is made of the outputs    *)
(* the run hands out for its upstream nodes, also below a stochastic or       *)
(* resident node (graph.py:251-279, executor.py:256-261).                     *)
THEOREM OutputsCohereWhenFound == Spec => []CoherentWhenFound
<1>1. Init => Coherent
  BY DEF Init, Coherent, TasksIn
<1>2. Coherent => CoherentWhenFound
  BY DEF Coherent, CoherentWhenFound, TasksIn
<1> QED
  BY <1>1, <1>2, InvariantHolds, NextCoheres, PTL DEF Spec

-----------------------------------------------------------------------------
(* The bookkeeping of one run, from its plan to its end *)

(* `ready` is exact from the plan on, also while a run unwinds and afterwards.*)
ReadyExact(r) ==
  Begun(r) => ready[r] = {n \in needed[r] : task[r][n] = "idle" /\ Upstreams[n] \subseteq Done(r)}

SlotsFilled(r) ==
  pc[r] = "looping" =>
    LET slots == Cardinality(Pending(r)) IN
    /\ slots \in 1 .. MaxConcurrency
    /\ ready[r] # {} => slots = MaxConcurrency

(* The manifest has one record of each task with a result, and none of a task *)
(* that is still to come.                                                     *)
Recorded(r) ==
  /\ \A rec \in manifest[r] :
       /\ task[r][rec.node] \in (IF rec.outcome = "failed" THEN {"raised", "failed"}
                                 ELSE {"returned", "done"})
       /\ \A other \in manifest[r] : other.node = rec.node => other = rec
  /\ \A n \in TasksIn(r, {"returned", "done"}) : \E rec \in manifest[r] : rec.node = n

(* A run that ends by itself has nothing left to start.                       *)
Exhausted(r) ==
  /\ pc[r] = "failing" => FailFast
  /\ pc[r] = "success" => Done(r) = needed[r]
  /\ pc[r] = "failed" /\ ~FailFast =>
       \A n \in needed[r] \ TasksIn(r, {"done", "failed"}) :
         Lineage[n] \cap TasksIn(r, {"failed"}) # {}

Kept(r) == ReadyExact(r) /\ SlotsFilled(r) /\ Recorded(r) /\ Exhausted(r)

Bookkeeping == \A r \in Runs : Kept(r)

-----------------------------------------------------------------------------
(* Popping the head of the sorted list of what is ready *)

(* A set of node ids has a least one.                                         *)
LEMMA LeastNode ==
  ASSUME NEW S \in SUBSET Nodes, S # {}
  PROVE  \E n \in S : \A m \in S : ~(m < n)
<1>1. S \in SUBSET Nat
  BY GraphAssumption
<1>2. PICK n \in S : \A m \in S : ~(<<m, n>> \in OpToRel(<, Nat))
  BY <1>1, NatLessThanWellFounded, WFMin
<1> QED
  BY <1>1, <1>2 DEF OpToRel

LEMMA NodesFinite ==
  ASSUME NEW S \in SUBSET Nodes
  PROVE  IsFiniteSet(S) /\ Cardinality(S) \in Nat
BY GraphAssumption, FS_Subset, FS_CardinalityType

(* How many smaller ids there are orders the ids of a set.                    *)
LEMMA RankGrows ==
  ASSUME NEW S \in SUBSET Nodes, NEW m \in S, NEW n \in S, m < n
  PROVE  Cardinality({l \in S : l < m}) < Cardinality({l \in S : l < n})
<1> DEFINE M == {l \in S : l < m}
           N == {l \in S : l < n}
<1>1. m \in Nat /\ n \in Nat /\ S \subseteq Nat
  BY GraphAssumption
<1>2. M \subseteq N /\ m \in N /\ m \notin M
  <2>1. \A l \in S : l < m => l < n
    BY <1>1
  <2>2. ~(m < m)
    BY <1>1
  <2> QED
    BY <2>1, <2>2
<1>3. N \in SUBSET Nodes /\ M \in SUBSET Nodes
  OBVIOUS
<1> HIDE DEF M, N
<1>4. Cardinality(M) <= Cardinality(N) /\ (Cardinality(N) = Cardinality(M) => N = M)
  BY <1>2, <1>3, NodesFinite, FS_Subset
<1>5. Cardinality(M) \in Nat /\ Cardinality(N) \in Nat
  BY <1>3, NodesFinite
<1> QED
  BY <1>2, <1>4, <1>5 DEF M, N

(* Popping takes k nodes, or all there are; something unless there is nothing *)
(* to take or no room for it.                                                 *)
LEMMA LeastFills ==
  ASSUME NEW S \in SUBSET Nodes, NEW k \in Nat
  PROVE  /\ Least(S, k) \subseteq S
         /\ Cardinality(Least(S, k)) \in 0 .. k
         /\ Least(S, k) # S => Cardinality(Least(S, k)) = k
         /\ S # {} /\ k # 0 => Least(S, k) # {}
<1> DEFINE Rank(n) == Cardinality({m \in S : m < n})
           L == Least(S, k)
<1>0. S \subseteq Nat
  BY GraphAssumption
<1>1. L \subseteq S /\ \A n \in S : n \in L <=> Rank(n) < k
  BY DEF Least
<1>2. \A n \in S : Rank(n) \in Nat
  <2>1. ASSUME NEW n \in S PROVE Rank(n) \in Nat
    <3>1. {m \in S : m < n} \in SUBSET Nodes
      OBVIOUS
    <3> QED
      BY <3>1, NodesFinite
  <2> QED
    BY <2>1
<1>3. \A m, n \in S : m < n => Rank(m) < Rank(n)
  BY RankGrows
<1> HIDE DEF Rank, L
<1>4. IsFiniteSet(L) /\ Cardinality(L) \in Nat
  <2>1. L \in SUBSET Nodes
    BY <1>1
  <2> QED
    BY <2>1, NodesFinite
<1>5. Cardinality(L) <= k
  <2> DEFINE f == [n \in L |-> Rank(n)]
             R == 0 .. k - 1
  <2>1. f \in [L -> R]
    BY <1>1, <1>2
  <2>2. \A m, n \in L : f[m] = f[n] => m = n
    <3> SUFFICES ASSUME NEW m \in L, NEW n \in L, m # n PROVE Rank(m) # Rank(n)
      OBVIOUS
    <3>1. m \in Nat /\ n \in Nat /\ m \in S /\ n \in S
      BY <1>0, <1>1
    <3>2. m < n \/ n < m
      BY <3>1
    <3> QED
      BY <3>1, <3>2, <1>2, <1>3
  <2> HIDE DEF f
  <2>3. f \in Injection(L, R)
    BY <2>1, <2>2 DEF Injection, IsInjective
  <2>4. IsFiniteSet(R) /\ Cardinality(R) = k
    BY FS_Interval
  <2> HIDE DEF R
  <2> QED
    BY <2>3, <2>4, FS_Injection
<1>6. ASSUME S # L PROVE Cardinality(L) >= k
  <2> DEFINE T == S \ L
  <2>1. T \in SUBSET Nodes /\ T # {}
    BY <1>1, <1>6
  <2>2. PICK n \in T : \A m \in T : ~(m < n)
    BY <2>1, LeastNode
  <2> DEFINE M == {m \in S : m < n}
  <2>3. M \subseteq L
    BY <2>2
  <2>4. Cardinality(M) \in Nat /\ ~(Cardinality(M) < k)
    BY <1>1, <1>2, <2>2 DEF Rank
  <2> HIDE DEF M
  <2>5. Cardinality(M) <= Cardinality(L)
    BY <1>4, <2>3, FS_Subset
  <2> QED
    BY <1>4, <2>4, <2>5
<1>7. ASSUME S # {}, k # 0 PROVE L # {}
  <2>1. PICK n \in S : \A m \in S : ~(m < n)
    BY <1>7, LeastNode
  <2>2. {m \in S : m < n} = {}
    BY <2>1
  <2>3. Rank(n) = 0
    BY <2>2, FS_EmptySet DEF Rank
  <2> QED
    BY <1>1, <1>7, <2>3
<1> QED
  BY <1>1, <1>4, <1>5, <1>6, <1>7 DEF L

-----------------------------------------------------------------------------
(* What each step does to the bookkeeping of its run *)

LEMMA Untouched ==
  ASSUME NEW r \in Runs, Kept(r), pc'[r] = pc[r], task'[r] = task[r], ready'[r] = ready[r],
         needed'[r] = needed[r], manifest'[r] = manifest[r]
  PROVE  Kept(r)'
BY DEF Kept, ReadyExact, SlotsFilled, Recorded, Exhausted, Done, Pending, TasksIn, Begun

LEMMA RecordNode ==
  ASSUME TypeOK, NEW r \in Runs, NEW rec \in manifest[r]
  PROVE  rec.node \in Nodes
<1>1. manifest[r] \subseteq Record
  BY DEF TypeOK
<1> QED
  BY <1>1 DEF Record

(* A run begins with its roots in the queue and the first of them popped.     *)
LEMMA BeginKeeps ==
  ASSUME IInv, NEW r \in Runs, Kept(r), Begin(r)
  PROVE  Kept(r)'
<1> DEFINE need  == needed[r]
           roots == {n \in need : Upstreams[n] \cap need = {}}
           first == Least(roots, MaxConcurrency)
<1>1. /\ pc[r] = "planning"
      /\ pc'[r] = "looping"
      /\ needed'[r] = need
      /\ ready'[r] = roots \ first
      /\ \A n \in Nodes : task'[r][n] = IF n \in first THEN "created" ELSE "idle"
      /\ manifest' = manifest
  BY DEF Begin, IInv, TypeOK, run
<1>2. /\ need \subseteq Nodes /\ UpClosed(need) /\ need # {}
      /\ roots = {n \in need : Upstreams[n] = {}}
  <2>1. need \subseteq Nodes /\ UpClosed(need) /\ need # {}
    BY <1>1 DEF IInv, TypeOK, Scheduled, PlanComplete
  <2> QED
    BY <2>1 DEF UpClosed
<1>3. roots # {}
  BY <1>2, AcyclicAssumption
<1>4. roots \in SUBSET Nodes /\ MaxConcurrency \in Nat /\ MaxConcurrency # 0
  BY <1>2, ExecutorAssumption
<1> HIDE DEF need, first
<1>5. /\ first \subseteq roots /\ first # {}
      /\ Cardinality(first) \in 0 .. MaxConcurrency
      /\ first # roots => Cardinality(first) = MaxConcurrency
  <2> HIDE DEF roots
  <2> QED
    BY <1>3, <1>4, LeastFills DEF first
<1>6. \A n \in Nodes : n \in first => n \in roots
  BY <1>5
<1> HIDE DEF roots
<1>7. Done(r)' = {} /\ Pending(r)' = first
  BY <1>1, <1>4, <1>5 DEF Done, Pending, TasksIn
<1>8. ReadyExact(r)'
  <2>1. \A n \in need : n \in roots <=> Upstreams[n] = {}
    BY <1>2 DEF roots
  <2>2. roots \subseteq need
    BY DEF roots
  <2> QED
    BY <1>1, <1>2, <1>7, <2>1, <2>2 DEF ReadyExact
<1>9. SlotsFilled(r)'
  <2>1. Cardinality(first) # 0
    BY <1>4, <1>5, NodesFinite, FS_EmptySet
  <2> QED
    BY <1>1, <1>4, <1>5, <1>7, <2>1 DEF SlotsFilled
<1>10. Recorded(r)'
  <2>1. \A n \in Nodes : task[r][n] = "idle"
    BY <1>1 DEF IInv, Scheduled
  <2>2. manifest[r] = {}
    BY <2>1, RecordNode DEF Kept, Recorded, IInv
  <2> QED
    BY <1>1, <2>2 DEF Recorded, TasksIn
<1>11. Exhausted(r)'
  BY <1>1 DEF Exhausted
<1> QED
  BY <1>8, <1>9, <1>10, <1>11 DEF Kept

(* A task that goes on leaves what is ready and the number of tasks alone.    *)
LEMMA TaskMoves ==
  ASSUME TypeOK, NEW r \in Runs, NEW n \in Nodes, Kept(r), Live(r),
         task[r][n] \in {"created", "running"},
         NEW state \in {"running", "returned", "raised", "cancelled"},
         SetTask(r, n, state), UNCHANGED <<pc, needed, ready>>
  PROVE  /\ \A m \in Nodes : task'[r][m] = IF m = n THEN state ELSE task[r][m]
         /\ ReadyExact(r)' /\ SlotsFilled(r)' /\ Exhausted(r)'
<1>1. \A m \in Nodes : task'[r][m] = IF m = n THEN state ELSE task[r][m]
  BY DEF SetTask, TypeOK
<1>2. Done(r)' = Done(r)
  BY <1>1 DEF Done, TasksIn
<1>3. ReadyExact(r)'
  <2>1. \A m \in Nodes : task'[r][m] = "idle" <=> task[r][m] = "idle"
    BY <1>1
  <2>2. needed[r] \subseteq Nodes
    BY DEF TypeOK
  <2> QED
    BY <1>2, <2>1, <2>2 DEF Kept, ReadyExact, Begun
<1>4. Pending(r)' = Pending(r)
  BY <1>1 DEF Pending, TasksIn
<1>5. SlotsFilled(r)'
  BY <1>4 DEF Kept, SlotsFilled
<1>6. Exhausted(r)'
  BY DEF Kept, Exhausted, Live
<1> QED
  BY <1>1, <1>3, <1>5, <1>6

(* A task that writes its record as it returns or raises keeps the records    *)
(* and the results in step.                                                   *)
LEMMA RecordMade ==
  ASSUME TypeOK, NEW r \in Runs, NEW n \in Nodes, Recorded(r),
         task[r][n] \in {"created", "running"},
         NEW outcome \in {"executed", "cache_hit", "failed"}, NEW leak,
         NEW state, state = (IF outcome = "failed" THEN "raised" ELSE "returned"),
         AddRecord(r, n, outcome, leak),
         \A m \in Nodes : task'[r][m] = IF m = n THEN state ELSE task[r][m]
  PROVE  Recorded(r)'
<1> DEFINE rec == [node |-> n, outcome |-> outcome, leak |-> leak]
<1>1. manifest'[r] = manifest[r] \cup {rec} /\ rec.node = n /\ rec.outcome = outcome
  BY DEF AddRecord, TypeOK
<1> HIDE DEF rec
<1>2. \A old \in manifest[r] : old.node \in Nodes /\ old.node # n
  BY RecordNode DEF Recorded
<1>3. ASSUME NEW new \in manifest'[r]
      PROVE  /\ task'[r][new.node] \in (IF new.outcome = "failed" THEN {"raised", "failed"}
                                        ELSE {"returned", "done"})
             /\ \A other \in manifest'[r] : other.node = new.node => other = new
  <2>1. CASE new = rec
    BY <1>1, <1>2, <2>1
  <2>2. CASE new \in manifest[r]
    BY <1>1, <1>2, <2>2 DEF Recorded
  <2> QED
    BY <1>1, <2>1, <2>2
<1>4. ASSUME NEW m \in Nodes, task'[r][m] \in {"returned", "done"}
      PROVE  \E new \in manifest'[r] : new.node = m
  BY <1>1, <1>4 DEF Recorded, TasksIn
<1> QED
  BY <1>3, <1>4 DEF Recorded, TasksIn

(* So does a step of a task without a result that writes none.                *)
LEMMA NoRecordMade ==
  ASSUME TypeOK, NEW r \in Runs, NEW n \in Nodes, Recorded(r),
         task[r][n] \in {"created", "running"},
         NEW state \in {"running", "raised", "cancelled"}, UNCHANGED manifest,
         \A m \in Nodes : task'[r][m] = IF m = n THEN state ELSE task[r][m]
  PROVE  Recorded(r)'
<1>1. \A old \in manifest[r] : old.node \in Nodes /\ old.node # n
  BY RecordNode DEF Recorded
<1> QED
  BY <1>1 DEF Recorded, TasksIn

(* A step of a task moves it between states the queue does not look at.       *)
LEMMA TaskStepKeeps ==
  ASSUME IInv, NEW r \in Runs, NEW n \in Nodes, Kept(r), TaskStep(r, n)
  PROVE  Kept(r)'
<1>0. TypeOK /\ Recorded(r)
  BY DEF IInv, Kept
<1>1. /\ Live(r)
      /\ task[r][n] \in {"created", "running"}
      /\ UNCHANGED <<pc, needed, ready>>
  BY DEF TaskStep, CacheHit, StartExecute, Execute, NodeFails, GetFails, PutFails,
         TaskCancelled, InFlight, TasksIn, Live, run, sched
<1>2. CASE \E outcome \in {"executed", "cache_hit"} :
             AddRecord(r, n, outcome, FALSE) /\ SetTask(r, n, "returned")
  <2>1. PICK outcome \in {"executed", "cache_hit"} :
          AddRecord(r, n, outcome, FALSE) /\ SetTask(r, n, "returned")
    BY <1>2
  <2>2. /\ \A m \in Nodes : task'[r][m] = IF m = n THEN "returned" ELSE task[r][m]
        /\ ReadyExact(r)' /\ SlotsFilled(r)' /\ Exhausted(r)'
    BY <1>0, <1>1, <2>1, TaskMoves
  <2>3. outcome \in {"executed", "cache_hit", "failed"} /\ outcome # "failed"
    OBVIOUS
  <2>4. Recorded(r)'
    BY <1>0, <1>1, <2>1, <2>2, <2>3, RecordMade
  <2> QED
    BY <2>2, <2>4 DEF Kept
<1>3. CASE AddRecord(r, n, "failed", ErrorLeaks(r, n)) /\ SetTask(r, n, "raised")
  <2>1. /\ \A m \in Nodes : task'[r][m] = IF m = n THEN "raised" ELSE task[r][m]
        /\ ReadyExact(r)' /\ SlotsFilled(r)' /\ Exhausted(r)'
    BY <1>0, <1>1, <1>3, TaskMoves
  <2>2. Recorded(r)'
    BY <1>0, <1>1, <1>3, <2>1, RecordMade
  <2> QED
    BY <2>1, <2>2 DEF Kept
<1>4. CASE /\ UNCHANGED manifest
           /\ \E state \in {"running", "raised", "cancelled"} : SetTask(r, n, state)
  <2>1. PICK state \in {"running", "raised", "cancelled"} : SetTask(r, n, state)
    BY <1>4
  <2>2. state \in {"running", "returned", "raised", "cancelled"}
    OBVIOUS
  <2>3. /\ \A m \in Nodes : task'[r][m] = IF m = n THEN state ELSE task[r][m]
        /\ ReadyExact(r)' /\ SlotsFilled(r)' /\ Exhausted(r)'
    BY <1>0, <1>1, <2>1, <2>2, TaskMoves
  <2>4. Recorded(r)'
    BY <1>0, <1>1, <1>4, <2>3, NoRecordMade
  <2> QED
    BY <2>3, <2>4 DEF Kept
<1> QED
  BY <1>2, <1>3, <1>4 DEF TaskStep, CacheHit, StartExecute, Execute, NodeFails, GetFails, PutFails,
         TaskCancelled

(* What a pop makes ready is what lacks nothing any more.                     *)
LEMMA PopReady ==
  ASSUME IInv, NEW r \in Runs, Kept(r), pc[r] = "looping",
         NEW got \in SUBSET TasksIn(r, {"returned"})
  PROVE  ReadyAfter(r, got) =
           {n \in needed[r] : task[r][n] = "idle" /\ Upstreams[n] \subseteq Done(r) \cup got}
<1>1. needed[r] \subseteq Nodes /\ \A n \in needed[r] : remaining[r][n] = Upstreams[n] \ Done(r)
  BY DEF IInv, TypeOK, Scheduled, Begun
<1>2. \A n \in needed[r] : n \in ready[r] <=> task[r][n] = "idle" /\ Upstreams[n] \subseteq Done(r)
  BY DEF Kept, ReadyExact, Begun
<1>3. ready[r] \subseteq needed[r]
  BY DEF Kept, ReadyExact, Begun
<1>4. \A n \in needed[r] : task[r][n] # "idle" => Upstreams[n] \subseteq Done(r)
  BY <1>1 DEF IInv, Scheduled
<1>5. \A n \in needed[r] : RemainingAfter(r, got)[n] = (Upstreams[n] \ Done(r)) \ got
  BY <1>1 DEF RemainingAfter
<1> QED
  BY <1>1, <1>2, <1>3, <1>4, <1>5 DEF ReadyAfter

(* A pop moves what has ended, and starts some of what is ready.              *)
Popping(r, got, lost, next) ==
  /\ pc[r] = "looping"
  /\ got \subseteq TasksIn(r, {"returned"}) /\ lost \subseteq TasksIn(r, {"raised"})
  /\ next \subseteq ReadyAfter(r, got)
  /\ ready'[r] = ReadyAfter(r, got) \ next
  /\ needed'[r] = needed[r] /\ manifest'[r] = manifest[r]
  /\ \A n \in Nodes : task'[r][n] = IF n \in got THEN "done"
                                    ELSE IF n \in lost THEN "failed"
                                    ELSE IF n \in next THEN "created" ELSE task[r][n]

LEMMA PopKeeps ==
  ASSUME IInv, NEW r \in Runs, Kept(r), NEW got, NEW lost, NEW next,
         Popping(r, got, lost, next)
  PROVE  /\ \A n \in next : n \in Nodes /\ task[r][n] = "idle"
         /\ Done(r)' = Done(r) \cup got
         /\ ReadyExact(r)' /\ Recorded(r)'
<1>1. ReadyAfter(r, got) =
        {n \in needed[r] : task[r][n] = "idle" /\ Upstreams[n] \subseteq Done(r) \cup got}
  BY PopReady DEF Popping
<1>2. needed[r] \subseteq Nodes
  BY DEF IInv, TypeOK
<1>3. \A n \in next : n \in Nodes /\ task[r][n] = "idle"
  BY <1>1, <1>2 DEF Popping
<1>4. \A n \in Nodes : /\ n \in got => task[r][n] = "returned"
                       /\ n \in lost => task[r][n] = "raised"
  BY DEF TasksIn, Popping
<1>5. Done(r)' = Done(r) \cup got
  BY <1>3, <1>4 DEF Done, TasksIn, Popping
<1>6. \A n \in Nodes : task'[r][n] = "idle" <=> task[r][n] = "idle" /\ n \notin next
  BY <1>3, <1>4 DEF Popping
<1>7. ReadyExact(r)'
  BY <1>1, <1>2, <1>5, <1>6 DEF ReadyExact, Popping
<1>8. Recorded(r)'
  <2>1. \A rec \in manifest[r] : rec.node \in Nodes
    BY RecordNode DEF IInv
  <2>2. ASSUME NEW n \in Nodes
        PROVE  /\ task[r][n] \in {"raised", "failed"} <=> task'[r][n] \in {"raised", "failed"}
               /\ task[r][n] \in {"returned", "done"} <=> task'[r][n] \in {"returned", "done"}
    BY <1>3, <1>4 DEF Popping
  <2> QED
    BY <2>1, <2>2 DEF Kept, Recorded, TasksIn, Popping
<1> QED
  BY <1>3, <1>5, <1>7, <1>8

(* The loop: what it pops leaves every count right, and if it ends the run    *)
(* there is nothing left to start (StuckBehind).                              *)
LEMMA CollectKeeps ==
  ASSUME IInv, IInv', NEW r \in Runs, Kept(r), Collect(r)
  PROVE  Kept(r)'
<1> DEFINE got   == TasksIn(r, {"returned"})
           lost  == TasksIn(r, {"raised"})
           queue == ReadyAfter(r, got)
           room  == MaxConcurrency - Cardinality(InFlight(r))
           next  == Least(queue, room)
           failed == lost \cup TasksIn(r, {"failed"})
<1>1. /\ pc[r] = "looping"
      /\ got \cup lost # {}
      /\ TasksIn(r, {"cancelled"}) = {}
      /\ ready'[r] = queue \ next
      /\ \A n \in Nodes : task'[r][n] = IF n \in got THEN "done"
                                        ELSE IF n \in lost THEN "failed"
                                        ELSE IF n \in next THEN "created" ELSE task[r][n]
      /\ needed' = needed /\ manifest' = manifest
  <2>1. \A n \in Nodes : ~(n \in got /\ n \in lost)
    BY DEF TasksIn
  <2>2. task' = [task EXCEPT ![r] = [n \in Nodes |->
                   CASE n \in got  -> "done"
                     [] n \in lost -> "failed"
                     [] n \in next -> "created"
                     [] OTHER      -> task[r][n]]]
    BY DEF Collect
  <2>3. \A n \in queue : task[r][n] = "idle"
    BY PopReady DEF Collect
  <2>4. \A n \in next : task[r][n] = "idle"
    BY <2>3 DEF Least
  <2>5. \A n \in Nodes : ~(n \in got /\ n \in next) /\ ~(n \in lost /\ n \in next)
    BY <2>4 DEF TasksIn
  <2>6. /\ pc[r] = "looping"
        /\ got \cup lost # {}
        /\ TasksIn(r, {"cancelled"}) = {}
        /\ ready'[r] = queue \ next
        /\ needed' = needed /\ manifest' = manifest
    BY DEF Collect, IInv, TypeOK, run
  <2> HIDE DEF got, lost, next, queue
  <2> QED
    BY <2>1, <2>2, <2>5, <2>6 DEF IInv, TypeOK
<1>2. IF InFlight(r) \cup next # {} THEN pc'[r] = "looping"
      ELSE pc'[r] = IF failed # {} THEN "failed" ELSE "success"
  BY DEF Collect, Release, IInv, TypeOK
<1> HIDE DEF next
<1>3. Cardinality(InFlight(r)) \in Nat /\ Cardinality(InFlight(r)) < MaxConcurrency
  <2>1. Pending(r) \in SUBSET Nodes /\ InFlight(r) \in SUBSET Pending(r) /\ InFlight(r) # Pending(r)
    BY <1>1 DEF Pending, InFlight, TasksIn
  <2>2. /\ Cardinality(InFlight(r)) <= Cardinality(Pending(r))
        /\ Cardinality(InFlight(r)) # Cardinality(Pending(r))
    BY <2>1, NodesFinite, FS_Subset
  <2>3. Cardinality(InFlight(r)) \in Nat /\ Cardinality(Pending(r)) \in Nat
    BY <2>1, NodesFinite
  <2>4. Cardinality(Pending(r)) <= MaxConcurrency
    BY <1>1, ExecutorAssumption DEF Kept, SlotsFilled
  <2> QED
    BY <2>2, <2>3, <2>4, ExecutorAssumption
<1>4. room \in Nat /\ room # 0
  BY <1>3, ExecutorAssumption
<1>5. queue \in SUBSET Nodes
  BY <1>1, PopReady DEF IInv, TypeOK
<1>6. /\ next \subseteq queue
      /\ Cardinality(next) \in 0 .. room
      /\ next # queue => Cardinality(next) = room
      /\ queue # {} => next # {}
  <2> HIDE DEF queue, room
  <2> QED
    BY <1>4, <1>5, LeastFills DEF next
<1>7. /\ \A n \in next : n \in Nodes /\ task[r][n] = "idle"
      /\ Done(r)' = Done(r) \cup got
      /\ ReadyExact(r)' /\ Recorded(r)'
  <2>1. Popping(r, got, lost, next)
    BY <1>1, <1>6 DEF Popping
  <2> HIDE DEF got, lost
  <2> QED
    BY <2>1, PopKeeps
<1>8. SlotsFilled(r)'
  <2> SUFFICES ASSUME pc'[r] = "looping"
               PROVE  /\ Cardinality(Pending(r)') \in 1 .. MaxConcurrency
                      /\ ready'[r] # {} => Cardinality(Pending(r)') = MaxConcurrency
    BY DEF SlotsFilled
  <2>1. Pending(r)' = InFlight(r) \cup next /\ InFlight(r) \cap next = {}
    BY <1>1, <1>7 DEF Pending, InFlight, TasksIn
  <2>2. InFlight(r) \in SUBSET Nodes /\ next \in SUBSET Nodes
    BY <1>7 DEF InFlight, TasksIn
  <2>3. Cardinality(Pending(r)') = Cardinality(InFlight(r)) + Cardinality(next)
    <3>1. IsFiniteSet(InFlight(r)) /\ IsFiniteSet(next) /\ Cardinality(next) \in Nat
      BY <2>2, NodesFinite
    <3>2. Cardinality(InFlight(r) \cup next) =
            Cardinality(InFlight(r)) + Cardinality(next) - Cardinality(InFlight(r) \cap next)
      BY <3>1, FS_Union
    <3>3. Cardinality(InFlight(r) \cap next) = 0
      BY <2>1, FS_EmptySet
    <3> QED
      BY <2>1, <3>1, <3>2, <3>3, <1>3
  <2>4. Cardinality(Pending(r)') # 0
    <3>1. Pending(r)' # {}
      BY <1>2, <2>1
    <3>2. Pending(r)' \in SUBSET Nodes
      BY <2>1, <2>2
    <3> QED
      BY <3>1, <3>2, NodesFinite, FS_EmptySet
  <2>5. ready'[r] # {} => Cardinality(next) = room
    BY <1>1, <1>6
  <2> HIDE DEF queue
  <2> QED
    BY <2>3, <2>4, <2>5, <1>3, <1>6, ExecutorAssumption
<1>9. Exhausted(r)'
  <2> SUFFICES ASSUME InFlight(r) \cup next = {}
               PROVE  Exhausted(r)'
    BY <1>2 DEF Exhausted
  <2> DEFINE lostNow == {n \in Nodes : task'[r][n] = "failed"}
             waiting == {n \in needed[r] : task'[r][n] = "idle"}
  <2>1. queue = {}
    BY <1>6
  <2>2. \A n \in Nodes : task'[r][n] \in {"idle", "done", "failed"}
    BY <1>1 DEF InFlight, TasksIn, IInv, TypeOK, TaskStates
  <2>3. lostNow = failed
    BY <1>1, <1>7 DEF TasksIn
  <2>4. /\ needed[r] \in SUBSET Nodes /\ UpClosed(needed[r])
        /\ Done(r)' \subseteq needed[r]
    <3>1. UpClosed(needed[r]) /\ needed[r] \in SUBSET Nodes
      BY DEF IInv, TypeOK, Scheduled
    <3>2. \A n \in Nodes : task'[r][n] # "idle" => n \in needed'[r]
      BY DEF IInv, Scheduled
    <3> QED
      BY <1>1, <3>1, <3>2 DEF Done, TasksIn
  <2>5. \A n \in waiting : ~(Upstreams[n] \subseteq Done(r)')
    <3>1. ready'[r] = {}
      BY <1>1, <2>1
    <3>2. ready'[r] = {n \in needed[r] : task'[r][n] = "idle" /\ Upstreams[n] \subseteq Done(r)'}
      BY <1>1, <1>2, <1>7 DEF ReadyExact, Begun
    <3> QED
      BY <3>1, <3>2
  <2>6. \A n \in waiting : Lineage[n] \cap (needed[r] \ (waiting \cup Done(r)')) # {}
    <3> HIDE DEF waiting
    <3>1. waiting \in SUBSET needed[r]
      BY DEF waiting
    <3> QED
      BY <2>4, <2>5, <3>1, StuckBehind
  <2>7. \A n \in needed[r] \ (waiting \cup Done(r)') : n \in lostNow
    BY <2>2, <2>4 DEF Done, TasksIn
  <2>8. \A n \in waiting : Lineage[n] \cap lostNow # {}
    BY <2>6, <2>7
  <2>9. CASE failed = {}
    <3>1. waiting = {}
      BY <2>3, <2>8, <2>9
    <3>2. Done(r)' = needed[r]
      BY <2>3, <2>4, <2>7, <2>9, <3>1
    <3> QED
      BY <1>1, <1>2, <2>9, <3>2 DEF Exhausted
  <2>10. CASE failed # {}
    <3>1. \A n \in needed[r] \ TasksIn(r, {"done", "failed"})' : n \in waiting
      BY <2>2, <2>4 DEF TasksIn
    <3>2. TasksIn(r, {"failed"})' = lostNow
      BY DEF TasksIn
    <3>3. pc'[r] = "failed"
      BY <1>2, <2>10
    <3> HIDE DEF waiting, lostNow, failed
    <3> QED
      BY <1>1, <2>8, <3>1, <3>2, <3>3 DEF Exhausted
  <2> QED
    BY <2>9, <2>10
<1> QED
  BY <1>7, <1>8, <1>9 DEF Kept

(* An error or a cancelled task ends the loop with some of the ended popped.  *)
LEMMA StopKeeps ==
  ASSUME IInv, NEW r \in Runs, Kept(r), pc[r] = "looping",
         NEW got \in SUBSET TasksIn(r, {"returned"}), NEW lost \in SUBSET TasksIn(r, {"raised"}),
         NEW stop, NEW unwinding \in {"failing", "cancelling"}, NEW final \in {"failed", "cancelled"},
         StopLoop(r, got, lost, stop, unwinding, final),
         unwinding = "failing" \/ final = "failed" => FailFast,
         UNCHANGED <<needed, manifest>>
  PROVE  Kept(r)'
<1>1. /\ ready'[r] = ReadyAfter(r, got)
      /\ \A n \in Nodes : task'[r][n] = IF n \in got THEN "done"
                                        ELSE IF n \in lost THEN "failed" ELSE task[r][n]
      /\ pc'[r] \in {unwinding, final}
  <2>1. \A n \in Nodes : ~(n \in got /\ n \in lost)
    BY DEF TasksIn
  <2>2. /\ task' = [task EXCEPT ![r] = [n \in Nodes |->
                      CASE n \in got  -> "done"
                        [] n \in lost -> "failed"
                        [] OTHER      -> task[r][n]]]
        /\ ready' = [ready EXCEPT ![r] = ReadyAfter(r, got)]
        /\ IF Pending(r) \subseteq got \cup lost \cup {stop} THEN Release(r, final)
           ELSE pc' = [pc EXCEPT ![r] = unwinding]
    BY DEF StopLoop
  <2> QED
    BY <2>1, <2>2 DEF IInv, TypeOK, Release
<1>2. Popping(r, got, lost, {})
  BY <1>1 DEF Popping
<1>3. ReadyExact(r)' /\ Recorded(r)'
  BY <1>2, PopKeeps
<1>4. SlotsFilled(r)' /\ Exhausted(r)'
  BY <1>1 DEF SlotsFilled, Exhausted
<1> QED
  BY <1>3, <1>4 DEF Kept

(* A loop that raises has popped some of what was finished, and starts        *)
(* nothing.                                                                   *)
LEMMA CollectErrorKeeps ==
  ASSUME IInv, NEW r \in Runs, Kept(r), CollectError(r) \/ CollectCancelled(r)
  PROVE  Kept(r)'
<1>1. CASE CollectError(r)
  <2>1. PICK bad \in TasksIn(r, {"raised"}), got \in SUBSET TasksIn(r, {"returned"}) :
          StopLoop(r, got, {bad}, bad, "failing", "failed")
    BY <1>1 DEF CollectError
  <2>2. /\ pc[r] = "looping" /\ FailFast /\ {bad} \in SUBSET TasksIn(r, {"raised"})
        /\ UNCHANGED <<needed, manifest>>
    BY <1>1 DEF CollectError, run
  <2> QED
    BY <2>1, <2>2, StopKeeps
<1>2. CASE CollectCancelled(r)
  <2>1. PICK gone \in TasksIn(r, {"cancelled"}),
             got \in SUBSET TasksIn(r, {"returned"}), lost \in SUBSET TasksIn(r, {"raised"}) :
          StopLoop(r, got, lost, gone, "cancelling", "cancelled")
    BY <1>2 DEF CollectCancelled
  <2>2. pc[r] = "looping" /\ UNCHANGED <<needed, manifest>>
    BY <1>2 DEF CollectCancelled, run
  <2> QED
    BY <2>1, <2>2, StopKeeps
<1> QED
  BY <1>1, <1>2

(* The steps of a run that move only its coroutine.                           *)
LEMMA EndKeeps ==
  ASSUME IInv, NEW r \in Runs, Kept(r),
         Cancel(r) \/ Unwound(r)
  PROVE  Kept(r)'
<1>1. /\ UNCHANGED <<needed, ready, task, manifest>>
      /\ Begun(r)
      /\ \/ pc'[r] \in {"cancelling", "cancelled"}
         \/ pc[r] = "failing" /\ pc'[r] = "failed"
  BY DEF Cancel, Unwound, Release, run, sched, IInv, TypeOK, Begun
<1>2. ReadyExact(r)' /\ Recorded(r)'
  BY <1>1 DEF Kept, ReadyExact, Recorded, Done, TasksIn
<1>3. SlotsFilled(r)' /\ Exhausted(r)'
  BY <1>1 DEF Kept, SlotsFilled, Exhausted
<1> QED
  BY <1>2, <1>3 DEF Kept

(* So do those of a run that has not begun: there is nothing to keep.         *)
LEMMA PlanningKeeps ==
  ASSUME IInv, NEW r \in Runs, Kept(r),
         Call(r) \/ \E n \in ScopedNodes : ConfigKey(r, n) \/ PlanFails(r, n)
  PROVE  Kept(r)'
<1>1. pc'[r] \in {"rejected", "planning", "unplanned"} /\ UNCHANGED task
  BY PlanningTasks
<1>2. UNCHANGED manifest
  BY DEF Call, Reject, Claim, ConfigKey, PlanFails
<1>3. Recorded(r)'
  BY <1>1, <1>2 DEF Kept, Recorded, TasksIn
<1> QED
  BY <1>1, <1>3 DEF Kept, ReadyExact, SlotsFilled, Exhausted, Begun

(* A crash ends the tasks in flight and writes nothing.                       *)
LEMMA CrashKeeps ==
  ASSUME IInv, NEW r \in Runs, Kept(r), Live(r), Crash
  PROVE  Kept(r)'
<1>1. /\ UNCHANGED <<needed, ready, manifest>>
      /\ pc'[r] = "died"
      /\ \A n \in Nodes : task'[r][n] = IF n \in InFlight(r) THEN "cancelled" ELSE task[r][n]
  BY DEF Crash, run, sched
<1>2. \A n \in Nodes : n \in InFlight(r) <=> task[r][n] \in {"created", "running"}
  BY DEF InFlight, TasksIn
<1>3. ReadyExact(r)'
  BY <1>1 DEF ReadyExact, Begun
<1>4. Recorded(r)'
  <2>1. \A n \in Nodes : \A ends \in {{"raised", "failed"}, {"returned", "done"}} :
          task[r][n] \in ends <=> task'[r][n] \in ends
    BY <1>1, <1>2
  <2>2. \A rec \in manifest[r] : rec.node \in Nodes
    BY RecordNode DEF IInv
  <2> QED
    BY <1>1, <2>1, <2>2 DEF Kept, Recorded, TasksIn
<1>5. SlotsFilled(r)' /\ Exhausted(r)'
  BY <1>1 DEF SlotsFilled, Exhausted
<1> QED
  BY <1>3, <1>4, <1>5 DEF Kept

(* A step of another run leaves the bookkeeping of this one alone.            *)
LEMMA OthersKeep ==
  ASSUME IInv, NEW r \in Runs, Kept(r), NEW s \in Runs, s # r,
         \/ \E n \in Nodes : TaskStep(s, n)
         \/ Call(s) \/ PlanStep(s) \/ RunStep(s) \/ Cancel(s)
  PROVE  Kept(r)'
<1> SUFFICES /\ pc'[r] = pc[r] /\ task'[r] = task[r] /\ ready'[r] = ready[r]
             /\ needed'[r] = needed[r] /\ manifest'[r] = manifest[r]
  BY Untouched
<1> USE DEF run, sched, IInv, TypeOK
<1>1. CASE \E n \in Nodes : TaskStep(s, n)
  BY <1>1 DEF TaskStep, CacheHit, StartExecute, Execute, NodeFails, GetFails, PutFails,
              TaskCancelled, SetTask, AddRecord
<1>2. CASE Call(s)
  BY <1>2 DEF Call, Reject, Claim
<1>3. CASE PlanStep(s)
  BY <1>3 DEF PlanStep, ConfigKey, PlanFails, Begin, Release
<1>4. CASE Collect(s)
  BY <1>4 DEF Collect, Release
<1>5. CASE CollectError(s) \/ CollectCancelled(s)
  BY <1>5 DEF CollectError, CollectCancelled, StopLoop, Release
<1>6. CASE Unwound(s) \/ Cancel(s)
  BY <1>6 DEF Unwound, Cancel, Release
<1> QED
  BY <1>1, <1>2, <1>3, <1>4, <1>5, <1>6 DEF RunStep

(* Every step keeps the bookkeeping of the run that takes it, and that of the *)
(* others.                                                                    *)
LEMMA NextKeeps ==
  ASSUME IInv, IInv', Bookkeeping, [Next]_vars
  PROVE  Bookkeeping'
<1> SUFFICES ASSUME NEW r \in Runs PROVE Kept(r)'
  BY DEF Bookkeeping
<1>0. Kept(r)
  BY DEF Bookkeeping
<1>1. ASSUME UNCHANGED <<pc, task, ready, needed, manifest>> PROVE Kept(r)'
  BY <1>0, <1>1, Untouched
<1>2. CASE UNCHANGED vars \/ \E n \in ScopedNodes : Edit(n)
  BY <1>1, <1>2 DEF vars, Edit, run, sched
<1>3. ASSUME NEW s \in Runs, Call(s) PROVE Kept(r)'
  BY <1>0, <1>3, PlanningKeeps, OthersKeep
<1>4. ASSUME NEW s \in Runs, PlanStep(s) PROVE Kept(r)'
  BY <1>0, <1>4, PlanningKeeps, BeginKeeps, OthersKeep DEF PlanStep
<1>5. ASSUME NEW s \in Runs, NEW n \in Nodes, TaskStep(s, n) PROVE Kept(r)'
  BY <1>0, <1>5, TaskStepKeeps, OthersKeep
<1>6. ASSUME NEW s \in Runs, RunStep(s) \/ Cancel(s) PROVE Kept(r)'
  BY <1>0, <1>6, CollectKeeps, CollectErrorKeeps, EndKeeps, OthersKeep DEF RunStep
<1>7. CASE Crash
  <2>1. CASE Live(r)
    BY <1>0, <1>7, <2>1, CrashKeeps
  <2>2. CASE ~Live(r)
    <3>1. /\ pc'[r] = pc[r]
          /\ task'[r] = [n \in Nodes |-> task[r][n]]
          /\ UNCHANGED <<ready, needed, manifest>>
      BY <1>7, <2>2 DEF Crash, run, sched
    <3>2. task'[r] = task[r]
      BY <3>1 DEF IInv, TypeOK
    <3> QED
      BY <1>0, <3>1, <3>2, Untouched
  <2> QED
    BY <2>1, <2>2
<1> QED
  BY <1>2, <1>3, <1>4, <1>5, <1>6, <1>7 DEF Next

(* Before it begins a run has no queue, no task and no record.                *)
LEMMA InitKeeps == Init => Bookkeeping
BY DEF Init, Bookkeeping, Kept, ReadyExact, SlotsFilled, Recorded, Exhausted, TasksIn, Begun

(* The bookkeeping holds beside the invariant, on which it rests.             *)
LEMMA BookkeepingHolds == Spec => [](IInv /\ Bookkeeping)
<1>1. IInv /\ IInv' /\ Bookkeeping /\ [Next]_vars => Bookkeeping'
  BY NextKeeps
<1> QED
  BY <1>1, InitKeeps, InvariantHolds, PTL DEF Spec

(* While a run loops, `ready` is exactly what lacks no input, no slot stays   *)
(* empty while something is ready, and there are at most max_concurrency      *)
(* tasks, for every graph and limit (executor.py:158-207).                    *)
THEOREM SchedulerIsExact == Spec => []SchedulerExact
<1>1. Bookkeeping => SchedulerExact
  BY DEF Bookkeeping, Kept, ReadyExact, SlotsFilled, SchedulerExact, Done, Begun
<1> QED
  BY <1>1, BookkeepingHolds, PTL

(* A success has all it needed, once each: the records of the manifest are in *)
(* step with the tasks, and a run with nothing left to start has nothing left *)
(* to do, because the graph has no cycle.                                     *)
THEOREM SuccessesAreComplete == Spec => []SuccessIsComplete
<1>1. ASSUME IInv, Bookkeeping PROVE SuccessIsComplete
  <2> SUFFICES ASSUME NEW r \in Runs, pc[r] = "success"
               PROVE  /\ TasksIn(r, {"done"}) = needed[r]
                      /\ {rec.node : rec \in manifest[r]} = needed[r]
                      /\ Cardinality(manifest[r]) = Cardinality(needed[r])
                      /\ \A rec \in manifest[r] : rec.outcome # "failed"
    BY DEF SuccessIsComplete
  <2>1. Recorded(r) /\ Done(r) = needed[r] /\ needed[r] \in SUBSET Nodes
    BY <1>1 DEF Bookkeeping, Kept, Exhausted, IInv, TypeOK
  <2>2. \A n \in Nodes : task[r][n] \in {"idle", "done"}
    BY <1>1, <2>1 DEF IInv, Scheduled, Done, TasksIn
  <2>3. \A rec \in manifest[r] : /\ rec.node \in Nodes
                                 /\ task[r][rec.node] = "done"
                                 /\ rec.outcome # "failed"
    BY <1>1, <2>1, <2>2, RecordNode DEF Recorded, IInv
  <2>4. \A rec \in manifest[r] : rec.node \in needed[r]
    BY <2>1, <2>3 DEF Done, TasksIn
  <2>5. \A n \in needed[r] : \E rec \in manifest[r] : rec.node = n
    BY <2>1 DEF Recorded, Done, TasksIn
  <2>6. \A rec, other \in manifest[r] : other.node = rec.node => other = rec
    BY <2>1 DEF Recorded
  <2>7. Cardinality(manifest[r]) = Cardinality(needed[r])
    <3> DEFINE M == manifest[r]
               N == needed[r]
               f == [rec \in M |-> rec.node]
    <3>1. f \in [M -> N]
      BY <2>4
    <3>2. \A rec, other \in M : f[rec] = f[other] => rec = other
      BY <2>6
    <3>3. \A n \in N : \E rec \in M : f[rec] = n
      BY <2>5
    <3> HIDE DEF f, M, N
    <3>4. f \in Injection(M, N) /\ f \in Surjection(M, N)
      BY <3>1, <3>2, <3>3 DEF Injection, IsInjective, Surjection
    <3>5. IsFiniteSet(N)
      BY <2>1, NodesFinite DEF N
    <3>6. Cardinality(M) = Cardinality(N)
      BY <3>4, <3>5, FS_Injection
    <3> QED
      BY <3>6 DEF M, N
  <2> QED
    BY <2>1, <2>3, <2>4, <2>5, <2>7 DEF Done
<1> QED
  BY <1>1, BookkeepingHolds, PTL

(* With fail_fast off, what a failing run did not produce is computed from a  *)
(* node that failed (executor.py:158-207).                                    *)
THEOREM KeepGoingIsComplete == Spec => []KeepGoingComplete
<1>1. Bookkeeping => KeepGoingComplete
  BY DEF Bookkeeping, Kept, Exhausted, KeepGoingComplete
<1> QED
  BY <1>1, BookkeepingHolds, PTL

(* Whichever way a run comes to its end, what it had to produce is there, and *)
(* only what depends on a failure is missing (executor.py:158-208).           *)
THEOREM EndsAreComplete == Spec => []EndedIsComplete
BY SuccessesAreComplete, KeepGoingIsComplete, PTL DEF EndedIsComplete

-----------------------------------------------------------------------------
(* The promise of SnapshotRuns *)

(* What the promise's steps see of a step: phases, what a run has read, and   *)
(* the answers that are given.                                                *)
HadOf(r) == [n \in Nodes \ unread[r] |-> plan[r][n]]

LEMMA AnswerKept ==
  ASSUME NEW r \in Runs, pc'[r] = "success" <=> pc[r] = "success",
         needed'[r] = needed[r], pc[r] = "success" => value'[r] = value[r]
  PROVE  AnswerOf(r)' = AnswerOf(r)
BY DEF AnswerOf

LEMMA StepStutters ==
  ASSUME UNCHANGED <<world, run>>, \A r \in Runs : PhaseOf(r)' = PhaseOf(r),
         \A r \in Runs : pc[r] = "success" => value'[r] = value[r]
  PROVE  UNCHANGED Promise!vars
<1>1. \A r \in Runs : AnswerOf(r)' = AnswerOf(r)
  <2>1. \A r \in Runs : pc'[r] = "success" <=> pc[r] = "success"
    BY DEF PhaseOf, Live
  <2> QED
    BY <2>1, AnswerKept DEF run
<1> QED
  BY <1>1 DEF Promise!vars, run

(* A run that ends without an answer, before its plan or after.               *)
LEMMA FailPromised ==
  ASSUME TypeOK, NEW r \in Runs, pc[r] = "idle" \/ Live(r),
         NEW end \in {"rejected", "unplanned", "failed", "cancelled"},
         pc' = [pc EXCEPT ![r] = end], UNCHANGED <<world, run, value>>
  PROVE  Promise!Fail(r)
<1>1. \A s \in Runs : pc'[s] = IF s = r THEN end ELSE pc[s]
  BY DEF TypeOK
<1>2. /\ PhaseOf(r) \in {"waiting", "working"} /\ PhaseOf(r)' = "failed"
      /\ \A s \in Runs \ {r} : PhaseOf(s)' = PhaseOf(s)
  BY <1>1 DEF PhaseOf, Live
<1>3. \A s \in Runs : AnswerOf(s)' = AnswerOf(s)
  <2>1. pc[r] # "success"
    BY DEF Live
  <2> QED
    BY <1>1, <2>1, AnswerKept DEF run
<1> QED
  BY <1>2, <1>3 DEF Promise!Fail, run

(* The claim keeps other runs off the nodes from before the first reading.    *)
LEMMA StartPromised ==
  ASSUME IInv, NEW r \in Runs, NEW g \in Graphs, NEW targets \in TargetSets,
         Claim(r, g, targets)
  PROVE  Promise!Start(r, g, Ancestors(targets))
<1> DEFINE own == [n \in Nodes |-> IF n \in ScopedNodes THEN Missing ELSE Config[Copy[g][n]]]
<1>1. /\ pc[r] = "idle" /\ \A s \in Runs : pc'[s] = IF s = r THEN "planning" ELSE pc[s]
      /\ graph' = [graph EXCEPT ![r] = g]
      /\ needed' = [needed EXCEPT ![r] = Ancestors(targets)]
      /\ plan' = [plan EXCEPT ![r] = own]
      /\ unread' = [unread EXCEPT ![r] = ScopedNodes]
      /\ UNCHANGED <<world, value>>
  BY DEF Claim, outside, IInv, TypeOK
<1>2. /\ PhaseOf(r) = "waiting" /\ PhaseOf(r)' = "working"
      /\ \A s \in Runs \ {r} : PhaseOf(s)' = PhaseOf(s)
  BY <1>1 DEF PhaseOf, Live
<1>3. \A s \in Runs : AnswerOf(s)' = AnswerOf(s)
  <2>1. \A s \in Runs \ {r} : needed'[s] = needed[s]
    BY <1>1 DEF IInv, TypeOK
  <2>2. AnswerOf(r)' = [n \in {} |-> value[r][n].src] /\ AnswerOf(r) = [n \in {} |-> value[r][n].src]
    BY <1>1 DEF AnswerOf
  <2> QED
    BY <1>1, <2>1, <2>2, AnswerKept
<1>4. \A s \in Runs : PhaseOf(s) = "working" => InstancesOf(g) \cap InstancesOf(graph[s]) = {}
  <2>1. \A s \in Runs : PhaseOf(s) = "working" => Live(s)
    BY DEF PhaseOf
  <2> QED
    BY <2>1 DEF Claim, Claimable, IInv, Isolation
<1>5. \A s \in Runs : HadOf(s)' =
        IF s = r THEN [h \in Graphs |-> [n \in Nodes \ ScopedNodes |-> Config[Copy[h][n]]]][g]
        ELSE HadOf(s)
  <2>1. ASSUME NEW s \in Runs, s # r PROVE HadOf(s)' = HadOf(s)
    BY <1>1, <2>1 DEF HadOf, IInv, TypeOK
  <2>2. unread'[r] = ScopedNodes /\ plan'[r] = own
    BY <1>1 DEF IInv, TypeOK
  <2>3. HadOf(r)' = [n \in Nodes \ ScopedNodes |-> Config[Copy[g][n]]]
    BY <2>2 DEF HadOf
  <2> QED
    BY <2>1, <2>3
<1>6. [s \in Runs |-> HadOf(s)'] = [[s \in Runs |-> HadOf(s)] EXCEPT ![r] =
        [h \in Graphs |-> [n \in Nodes \ ScopedNodes |-> Config[Copy[h][n]]]][g]]
  <2> HIDE DEF HadOf
  <2> QED
    BY <1>5
<1>7. /\ [s \in Runs |-> PhaseOf(s)'] = [[s \in Runs |-> PhaseOf(s)] EXCEPT ![r] = "working"]
      /\ [s \in Runs |-> AnswerOf(s)'] = [s \in Runs |-> AnswerOf(s)]
  BY <1>2, <1>3
<1> QED
  BY <1>1, <1>2, <1>4, <1>6, <1>7 DEF Promise!Start, HadOf

(* A node that is planned takes what is there, and takes it once.             *)
LEMMA ReadPromised ==
  ASSUME IInv, NEW r \in Runs, NEW n \in ScopedNodes, ConfigKey(r, n)
  PROVE  Promise!Read(r, n)
<1>1. /\ pc[r] = "planning" /\ n \in unread[r] /\ n \in Nodes
      /\ plan' = [plan EXCEPT ![r][n] = world[n]]
      /\ unread' = [unread EXCEPT ![r] = @ \ {n}]
      /\ UNCHANGED <<world, value, pc, graph, needed>>
  BY ExecutorAssumption DEF ConfigKey, ReadsNext, outside
<1>2. PhaseOf(r) = "working" /\ \A s \in Runs : PhaseOf(s)' = PhaseOf(s)
  BY <1>1 DEF PhaseOf, Live
<1>3. \A s \in Runs : AnswerOf(s)' = AnswerOf(s)
  BY <1>1, AnswerKept
<1>4. ASSUME NEW s \in Runs, s # r PROVE HadOf(s)' = HadOf(s)
  BY <1>1, <1>4 DEF HadOf, IInv, TypeOK
<1>5. HadOf(r)' = [m \in DOMAIN HadOf(r) \cup {n} |-> IF m = n THEN world[n] ELSE HadOf(r)[m]]
  <2>1. unread'[r] = unread[r] \ {n} /\ unread[r] \subseteq Nodes
    BY <1>1, ExecutorAssumption DEF IInv, TypeOK
  <2>2. \A m \in Nodes : plan'[r][m] = IF m = n THEN world[n] ELSE plan[r][m]
    BY <1>1 DEF IInv, TypeOK
  <2>3. Nodes \ unread'[r] = (Nodes \ unread[r]) \cup {n}
    BY <1>1, <2>1
  <2> QED
    BY <2>2, <2>3 DEF HadOf
<1>6. n \notin DOMAIN HadOf(r)
  BY <1>1 DEF HadOf
<1>7. [s \in Runs |-> HadOf(s)'] = [[s \in Runs |-> HadOf(s)] EXCEPT ![r] =
        [m \in DOMAIN @ \cup {n} |-> IF m = n THEN world[n] ELSE @[m]]]
  BY <1>4, <1>5
<1>8. /\ [s \in Runs |-> PhaseOf(s)'] = [s \in Runs |-> PhaseOf(s)]
      /\ [s \in Runs |-> AnswerOf(s)'] = [s \in Runs |-> AnswerOf(s)]
  BY <1>2, <1>3
<1> QED
  BY <1>1, <1>2, <1>6, <1>7, <1>8 DEF Promise!Read, HadOf

(* A success has produced all that was needed, each from what was planned.    *)
LEMMA AnswerPromised ==
  ASSUME IInv, IInv', Bookkeeping', NEW r \in Runs, pc[r] = "looping",
         pc' = [pc EXCEPT ![r] = "success"], UNCHANGED <<world, run, value>>
  PROVE  Promise!Answer(r)
<1>1. \A s \in Runs : pc'[s] = IF s = r THEN "success" ELSE pc[s]
  BY DEF IInv, TypeOK
<1>2. /\ PhaseOf(r) = "working" /\ PhaseOf(r)' = "answered"
      /\ \A s \in Runs \ {r} : PhaseOf(s)' = PhaseOf(s)
  BY <1>1 DEF PhaseOf, Live
<1>3. \A s \in Runs \ {r} : AnswerOf(s)' = AnswerOf(s)
  BY <1>1, AnswerKept DEF run
<1>4. AnswerOf(r)' = [n \in needed[r] |-> value[r][n].src]
  BY <1>1 DEF AnswerOf, run
<1>5. needed[r] \in SUBSET Nodes /\ Done(r)' = needed[r]
  BY <1>1 DEF Bookkeeping, Kept, Exhausted, IInv, TypeOK, run
<1>6. ASSUME NEW n \in needed[r], n \notin CacheUnsafeNodes,
             \A m \in Lineage[n] : plan[r][m] # Missing
      PROVE  value[r][n].src = {<<m, plan[r][m]>> : m \in Lineage[n]}
  <2>1. n \in TasksIn(r, {"done"})' /\ n \in Nodes
    BY <1>5 DEF Done, TasksIn
  <2>2. plan'[r] = plan[r] /\ value'[r] = value[r]
    BY DEF run
  <2>3. Digest(r, n)' = Digest(r, n) /\ Known(Digest(r, n))
    BY <1>6, <2>2 DEF Digest, Known
  <2>4. MatchesPlan(value[r][n], r, n)'
    BY <2>1 DEF IInv, Results, TasksIn
  <2> QED
    BY <1>6, <2>2, <2>3, <2>4 DEF MatchesPlan, Digest
<1>7. /\ DOMAIN HadOf(r) = Nodes
      /\ \A n \in Nodes : \A m \in Lineage[n] : HadOf(r)[m] = plan[r][m]
  <2>1. unread[r] = {}
    BY DEF IInv, PlanComplete, Begun
  <2> QED
    BY <2>1, LineageIsClosed DEF HadOf
<1>8. [s \in Runs |-> HadOf(s)'] = [s \in Runs |-> HadOf(s)]
  BY DEF HadOf, run
<1>9. ASSUME NEW n \in needed[r], Promise!Determined(r, n)
      PROVE  AnswerOf(r)'[n] = {<<m, HadOf(r)[m]>> : m \in Lineage[n]}
  <2>1. n \in Nodes /\ n \notin CacheUnsafeNodes /\ \A m \in Lineage[n] : HadOf(r)[m] # Missing
    BY <1>5, <1>9 DEF Promise!Determined, HadOf
  <2>2. \A m \in Lineage[n] : plan[r][m] # Missing
    BY <1>7, <2>1
  <2>3. {<<m, HadOf(r)[m]>> : m \in Lineage[n]} = {<<m, plan[r][m]>> : m \in Lineage[n]}
    BY <1>7, <2>1
  <2> HIDE DEF HadOf
  <2> QED
    BY <1>4, <1>6, <2>1, <2>2, <2>3
<1>10. DOMAIN AnswerOf(r)' = needed[r]
  BY <1>4
<1>11. [s \in Runs |-> PhaseOf(s)'] = [[s \in Runs |-> PhaseOf(s)] EXCEPT ![r] = "answered"]
  BY <1>2
<1>12. \A n \in needed[r] : Promise!Determined(r, n) =>
         [s \in Runs |-> AnswerOf(s)'][r][n] =
           {<<m, [s \in Runs |-> HadOf(s)][r][m]>> : m \in Lineage[n]}
  <2> HIDE DEF HadOf
  <2> QED
    BY <1>9
<1>13. /\ DOMAIN [s \in Runs |-> AnswerOf(s)'][r] = needed[r]
       /\ \A s \in Runs \ {r} : [t \in Runs |-> AnswerOf(t)'][s] = [t \in Runs |-> AnswerOf(t)][s]
  BY <1>3, <1>10
<1> QED
  BY <1>2, <1>7, <1>8, <1>11, <1>12, <1>13 DEF Promise!Answer, run, HadOf

(* A step of a task touches the values of its own run only, which has not     *)
(* answered yet.                                                              *)
LEMMA TaskStepStutters ==
  ASSUME IInv, NEW r \in Runs, NEW n \in Nodes, TaskStep(r, n)
  PROVE  UNCHANGED Promise!vars
<1>1. UNCHANGED <<world, run, pc>>
  BY DEF TaskStep, CacheHit, StartExecute, Execute, NodeFails, GetFails, PutFails,
         TaskCancelled, outside
<1>2. Live(r)
  <2>1. task[r][n] = "created" /\ pc[r] = "looping" => Live(r)
    BY DEF Live
  <2> QED
    BY <2>1 DEF TaskStep, CacheHit, StartExecute, Execute, NodeFails, GetFails, PutFails,
                TaskCancelled, Live
<1>3. \A s \in Runs \ {r} : value'[s] = value[s]
  BY DEF TaskStep, CacheHit, StartExecute, Execute, NodeFails, GetFails, PutFails,
         TaskCancelled, IInv, TypeOK
<1>4. \A s \in Runs : PhaseOf(s)' = PhaseOf(s)
  BY <1>1 DEF PhaseOf, Live
<1>5. \A s \in Runs : pc[s] = "success" => value'[s] = value[s]
  BY <1>2, <1>3 DEF Live
<1> QED
  BY <1>1, <1>4, <1>5, StepStutters

(* A step of the loop is an answer, a failure, or none of the caller's        *)
(* business.                                                                  *)
LEMMA RunStepPromised ==
  ASSUME IInv, IInv', Bookkeeping', NEW r \in Runs, RunStep(r) \/ Cancel(r)
  PROVE  Promise!Answer(r) \/ Promise!Fail(r) \/ UNCHANGED Promise!vars
<1>1. UNCHANGED <<world, run, value>>
  BY DEF RunStep, Collect, CollectError, CollectCancelled, Unwound, Cancel, outside
<1>2. /\ Live(r) /\ pc' \in {pc} \cup {[pc EXCEPT ![r] = p] :
                 p \in {"failing", "cancelling", "success", "failed", "cancelled"}}
      /\ pc' = [pc EXCEPT ![r] = "success"] => pc[r] = "looping"
  <2>0. pc \in [Runs -> PCs]
    BY DEF IInv, TypeOK
  <2>1. CASE Collect(r)
    BY <2>1 DEF Collect, Release, Live
  <2>2. CASE CollectError(r)
    <3>1. pc' = [pc EXCEPT ![r] = "failing"] \/ pc' = [pc EXCEPT ![r] = "failed"]
      BY <2>2 DEF CollectError, StopLoop, Release
    <3> QED
      BY <2>2, <3>1 DEF CollectError, Live
  <2>3. CASE CollectCancelled(r)
    <3>1. pc' = [pc EXCEPT ![r] = "cancelling"] \/ pc' = [pc EXCEPT ![r] = "cancelled"]
      BY <2>3 DEF CollectCancelled, StopLoop, Release
    <3> QED
      BY <2>3, <3>1 DEF CollectCancelled, Live
  <2>4. CASE Unwound(r)
    <3>1. pc' = [pc EXCEPT ![r] = "failed"] \/ pc' = [pc EXCEPT ![r] = "cancelled"]
      BY <2>4 DEF Unwound, Release
    <3> QED
      BY <2>0, <2>4, <3>1 DEF Unwound, Live
  <2>5. CASE Cancel(r)
    BY <2>0, <2>5 DEF Cancel, Live
  <2> QED
    BY <2>1, <2>2, <2>3, <2>4, <2>5 DEF RunStep
<1>3. CASE pc' = pc
  <2>1. \A s \in Runs : PhaseOf(s)' = PhaseOf(s)
    BY <1>3 DEF PhaseOf, Live
  <2> QED
    BY <1>1, <2>1, StepStutters
<1>4. ASSUME NEW p \in {"failing", "cancelling"}, pc' = [pc EXCEPT ![r] = p]
      PROVE  UNCHANGED Promise!vars
  <2>1. \A s \in Runs : pc'[s] = IF s = r THEN p ELSE pc[s]
    BY <1>4 DEF IInv, TypeOK
  <2>2. \A s \in Runs : PhaseOf(s)' = PhaseOf(s)
    BY <1>2, <2>1 DEF PhaseOf, Live
  <2> QED
    BY <1>1, <2>2, StepStutters
<1>5. CASE pc' = [pc EXCEPT ![r] = "success"]
  BY <1>1, <1>2, <1>5, AnswerPromised
<1>6. ASSUME NEW p \in {"failed", "cancelled"}, pc' = [pc EXCEPT ![r] = p]
      PROVE  Promise!Fail(r)
  BY <1>1, <1>2, <1>6, FailPromised DEF IInv
<1> QED
  BY <1>2, <1>3, <1>4, <1>5, <1>6

LEMMA NextPromised ==
  ASSUME IInv, IInv', Bookkeeping', [Next]_vars
  PROVE  [Promise!Next]_(Promise!vars)
<1>1. ASSUME NEW n \in ScopedNodes, Edit(n) PROVE [Promise!Next]_(Promise!vars)
  <2>1. UNCHANGED <<pc, run, value>> /\ world' # world
    <3>1. PICK c \in WorldOf(n) \ {world[n]} : world' = [world EXCEPT ![n] = c]
      BY <1>1 DEF Edit
    <3>2. world'[n] # world[n]
      BY <1>1, <3>1 DEF IInv, TypeOK
    <3> QED
      BY <1>1, <3>2 DEF Edit
  <2>2. \A r \in Runs : PhaseOf(r)' = PhaseOf(r) /\ AnswerOf(r)' = AnswerOf(r)
    BY <2>1, AnswerKept DEF PhaseOf, Live, run
  <2>3. Promise!Change
    BY <2>1, <2>2 DEF Promise!Change, run
  <2> QED
    BY <2>3 DEF Promise!Next
<1>2. ASSUME NEW r \in Runs, Call(r) PROVE [Promise!Next]_(Promise!vars)
  <2>1. ASSUME NEW g \in Graphs, Reject(r, g) PROVE Promise!Fail(r)
    BY <2>1, FailPromised DEF Reject, outside, IInv
  <2>2. ASSUME NEW g \in Graphs, NEW targets \in TargetSets, Claim(r, g, targets)
        PROVE  Promise!Next
    BY <2>2, StartPromised DEF Promise!Next
  <2> QED
    BY <1>2, <2>1, <2>2 DEF Call, Promise!Next
<1>3. ASSUME NEW r \in Runs, PlanStep(r) PROVE [Promise!Next]_(Promise!vars)
  <2>1. ASSUME NEW n \in ScopedNodes, ConfigKey(r, n) PROVE Promise!Next
    BY <2>1, ReadPromised DEF Promise!Next
  <2>2. ASSUME NEW n \in ScopedNodes, PlanFails(r, n) PROVE Promise!Next
    <3>1. Promise!Fail(r)
      BY <2>2, FailPromised DEF PlanFails, ReadsNext, Release, Live, outside, IInv
    <3> QED
      BY <3>1 DEF Promise!Next
  <2>3. CASE Begin(r)
    <3>1. UNCHANGED <<world, run, value>> /\ pc[r] = "planning"
          /\ \A s \in Runs : pc'[s] = IF s = r THEN "looping" ELSE pc[s]
      BY <2>3 DEF Begin, outside, IInv, TypeOK
    <3>2. \A s \in Runs : PhaseOf(s)' = PhaseOf(s)
      BY <3>1 DEF PhaseOf, Live
    <3> QED
      BY <3>1, <3>2, StepStutters
  <2> QED
    BY <1>3, <2>1, <2>2, <2>3 DEF PlanStep
<1>4. ASSUME NEW r \in Runs, NEW n \in Nodes, TaskStep(r, n)
      PROVE  [Promise!Next]_(Promise!vars)
  BY <1>4, TaskStepStutters
<1>5. ASSUME NEW r \in Runs, RunStep(r) \/ Cancel(r) PROVE [Promise!Next]_(Promise!vars)
  BY <1>5, RunStepPromised DEF Promise!Next
<1>6. CASE Crash
  <2>1. UNCHANGED <<world, run, value>> /\ \A r \in Runs : pc'[r] = IF Live(r) THEN "died" ELSE pc[r]
    BY <1>6 DEF Crash, outside
  <2>2. \A r \in Runs : /\ PhaseOf(r)' = IF PhaseOf(r) = "working" THEN "failed" ELSE PhaseOf(r)
                        /\ AnswerOf(r)' = AnswerOf(r)
    <3>1. \A r \in Runs : pc'[r] = "success" <=> pc[r] = "success"
      BY <2>1 DEF Live
    <3> QED
      BY <2>1, <3>1, AnswerKept DEF PhaseOf, Live, run
  <2>3. Promise!Die
    BY <2>1, <2>2 DEF Promise!Die, run
  <2> QED
    BY <2>3 DEF Promise!Next
<1>7. CASE UNCHANGED vars
  <2>1. UNCHANGED <<world, run, pc, value>>
    BY <1>7 DEF vars, outside
  <2>2. \A r \in Runs : PhaseOf(r)' = PhaseOf(r)
    BY <2>1 DEF PhaseOf, Live
  <2> QED
    BY <2>1, <2>2, StepStutters
<1> QED
  BY <1>1, <1>2, <1>3, <1>4, <1>5, <1>6, <1>7 DEF Next

(* Executor.run keeps the promise of SnapshotRuns, for every graph, number of *)
(* runs, cache and fault: what it answers is what its own readings determine, *)
(* whatever is scheduled, cached, cancelled or changed around it              *)
(* (run_scoped.py:8, executor.py:94-213).                                     *)
THEOREM ExecutorKeepsPromise == Spec => RunsAreSnapshots
<1>1. Init => Promise!Init
  <2> SUFFICES ASSUME Init PROVE Promise!Init
    OBVIOUS
  <2>1. \A r \in Runs : PhaseOf(r) = "waiting" /\ AnswerOf(r) = [n \in {} |-> {}]
    <3>1. \A r \in Runs : pc[r] = "idle"
      BY DEF Init
    <3>2. \A r \in Runs : {m \in needed[r] : pc[r] = "success"} = {}
      BY <3>1
    <3> QED
      BY <3>1, <3>2 DEF PhaseOf, AnswerOf
  <2> QED
    BY <2>1 DEF Promise!Init
<1>2. IInv /\ IInv' /\ Bookkeeping' /\ [Next]_vars => [Promise!Next]_(Promise!vars)
  BY NextPromised
<1> QED
  BY <1>1, <1>2, BookkeepingHolds, PTL DEF Spec, RunsAreSnapshots, Promise!Spec
=============================================================================
