------------------------------ MODULE Executor -------------------------------
(* Executor.run and Executor._run_node (src/sixeyes/graph/executor.py) with    *)
(* what they call: the claim registry (run_isolation.py), the run-scoped       *)
(* values of JsonlSource and Fingerprint (run_scoped.py, ingest/jsonl.py,      *)
(* fingerprint/fingerprint.py), the artifact cache (cache.py) and the run      *)
(* manifest (obs/trace.py).                                                    *)
(*                                                                             *)
(* Several runs are coroutines of one event loop.  They share the cache and,   *)
(* when their Graph objects hold the same node objects, those nodes.  A step   *)
(* is the code between two awaits, or, while a run is planned, between two     *)
(* reads of a file or a key: the outside may change there.  A graph is one     *)
(* object built from the wiring of GraphPlan; Copy tells which object it holds *)
(* under each node id.                                                         *)
(*                                                                             *)
(* Data.  A value is known by where it came from: the set of pairs <<m, x>>,   *)
(* m a node it was computed from and x what m took from outside its inputs.    *)
(* A cache key hashes the same pairs, with x as config_key() saw it while the  *)
(* run was planned, so that "the cached value is the one the key names" is an  *)
(* equality of two sets.                                                       *)
EXTENDS GraphPlan

CONSTANTS
  Runs,             \* calls of Executor.run
  Graphs,           \* Graph objects
  Copies,           \* node objects that may exist under one node id
  Copy,             \* [Graphs -> [Nodes -> Copies]]: the object under each id
  Config,           \* [Copies -> Configs]: the static configuration and version
  Configs,
  Contents,         \* contents of an external file or key
  Missing,          \* the file does not exist
  Unreadable,       \* reading raises something other than FileNotFoundError
  Empty,            \* RunScoped holds nothing
  NoValue,          \* a task holds no result
  Samples,          \* what a stochastic or resident node adds of its own
  ScopedNodes,      \* nodes whose config_key() resolves a RunScoped
  LenientNodes,     \* of those, the ones whose config_key() forgives a missing file
  TargetSets,       \* values of run's targets argument
  MaxConcurrency,
  FailFast,
  CacheDeclares,    \* the cache's `persistent` attribute, "nothing" when undeclared
  CachePersists,    \* whether entries really outlive the process
  OpaqueNodes,      \* nodes whose output holds Findings also where _detaint
                    \* does not look, made there or passed on
  MayFail,          \* nodes whose execute() may raise
  CacheMayFail,     \* whether the cache's get and put may raise
  MayCancel,        \* whether the caller may cancel a run
  MayCrash,         \* whether the process may die
  MaxEdits          \* bound on changes of the outside world

Exts == Configs \cup Contents \cup Samples \cup {Missing}

ASSUME ExecutorAssumption ==
  /\ Graphs # {}
  /\ Copy \in [Graphs -> [Nodes -> Copies]]
  /\ Config \in [Copies -> Configs]
  /\ Missing \notin Configs \cup Contents \cup Samples
  /\ NoValue \notin [src : SUBSET (Nodes \X Exts), raw : BOOLEAN,
                      cert : SUBSET {"walked", "opaque"}]
  /\ Empty \notin Exts
  /\ Unreadable \notin Contents \cup {Missing}
  /\ LenientNodes \subseteq ScopedNodes
  /\ ScopedNodes \subseteq {n \in Nodes : IsCacheable(n)}
  /\ TargetSets \subseteq SUBSET Nodes
  /\ MaxConcurrency \in Nat \ {0}
  /\ FailFast \in BOOLEAN
  /\ CacheDeclares \in {"persistent", "transient", "nothing"}
  /\ CachePersists \in BOOLEAN
  /\ CacheDeclares = "transient" => ~CachePersists
  /\ MayFail \subseteq Nodes
  /\ OpaqueNodes \subseteq Nodes
  /\ {CacheMayFail, MayCancel, MayCrash} \subseteq BOOLEAN
  /\ MaxEdits \in Nat

VARIABLES
  world,      \* [ScopedNodes -> what is outside]: the file or key a node reads
  edits,      \* how often the world changed
  scoped,     \* [Instances -> Contents or Empty]: RunScoped._value
  claimed,    \* run_isolation._claimed
  cache,      \* partial function from keys to values
  pc,         \* [Runs -> where the coroutine of Executor.run is]
  graph,      \* [Runs -> Graphs]
  needed,     \* [Runs -> SUBSET Nodes]
  plan,       \* [Runs -> [Nodes -> Exts]]: what config_key() returned
  unread,     \* [Runs -> SUBSET ScopedNodes]: whose config_key() is still to come
  remaining,  \* [Runs -> [Nodes -> SUBSET Nodes]]
  ready,      \* [Runs -> SUBSET Nodes]: sorted in the code, so a set with <
  task,       \* [Runs -> [Nodes -> TaskStates]]
  value,      \* [Runs -> [Nodes -> value held by the task, or collected]]
  manifest    \* [Runs -> SUBSET Record]

outside == <<world, edits>>
run     == <<graph, needed, plan, unread>>
sched   == <<remaining, ready>>
vars    == <<outside, scoped, claimed, cache, pc, run, sched, task, value, manifest>>

-----------------------------------------------------------------------------
(* Keys, values, records *)

Instances == Nodes \X Copies

Instance(g, n) == <<n, Copy[g][n]>>

InstancesOf(g) == {Instance(g, n) : n \in Nodes}

Sources == SUBSET (Nodes \X Exts)

(* Where a value can hold a Finding: "walked" is in Findings, FindingSets,    *)
(* tuples, lists and values of dicts, to any depth; "opaque" is in a key, an  *)
(* attribute or any other container.                                          *)
Places == {"walked", "opaque"}

(* raw: holds customer content.  cert: where it holds a Finding that is not   *)
(* tainted.                                                                   *)
Values == [src : Sources, raw : BOOLEAN, cert : SUBSET Places]

Keys == Nodes \X Sources

(* Mutant of Digest: the key leaves the keys of the upstream nodes out.       *)
OwnDigest(r, n) == {<<n, plan[r][n]>>}

Digest(r, n) == {<<m, plan[r][m]>> : m \in Lineage[n]}

Key(r, n) == <<n, Digest(r, n)>>

(* leak: the error text carries customer content.                             *)
Record == [node : Nodes, outcome : {"executed", "cache_hit", "failed"}, leak : BOOLEAN]

PCs == {"idle", "planning", "looping", "failing", "cancelling",
        "success", "failed", "cancelled", "rejected", "unplanned", "died"}

(* created: create_task called, first step still to come.  running: suspended *)
(* in node.execute.  returned, raised: the Task is done but not yet popped by *)
(* the loop.  done, failed: popped.                                           *)
TaskStates == {"idle", "created", "running", "returned", "raised",
               "done", "failed", "cancelled"}

TasksIn(r, states) == {n \in Nodes : task[r][n] \in states}

InFlight(r) == TasksIn(r, {"created", "running"})

(* The keys of `running`, as long as the loop runs.                           *)
Pending(r) == TasksIn(r, {"created", "running", "returned", "raised", "cancelled"})

Live(r) == pc[r] \in {"planning", "looping", "failing", "cancelling"}

Ended(r) == pc[r] \in {"success", "failed", "cancelled", "rejected", "unplanned", "died"}

(* A run plans without an await: no other coroutine gets the event loop.      *)
LoopIsFree == \A r \in Runs : pc[r] # "planning"

-----------------------------------------------------------------------------
(* What a run decides about a node from the plan *)

(* Mutant of Claimable: the registry holds Graph objects.                     *)
ClaimableByGraph(g) == \A r \in Runs : Live(r) => graph[r] # g

(* claim(): every node object of the graph is free.                           *)
Claimable(g) == InstancesOf(g) \cap claimed = {}

CacheIsPersistent == CacheDeclares # "transient"

(* Mutants of UseCache: only the node's own declaration counts.               *)
UseCacheByDeclaration(n) ==
  IsCacheable(n) /\ n \notin CacheUnsafeNodes /\ ~(ContentBearing[n] /\ CacheIsPersistent)

(* What lies below a stochastic or resident node is cached like the rest.     *)
UseCacheBelowRandom(n) == IsCacheable(n) /\ ~(n \in ContentBearingNodes /\ CacheIsPersistent)

UseCache(n) ==
  /\ IsCacheable(n)
  /\ n \notin CacheUnsafeNodes
  /\ ~(n \in ContentBearingNodes /\ CacheIsPersistent)

(* Mutant of HandlesContentInput: redaction goes by the output's class.       *)
EmitsContent(n) == n \in ContentBearingNodes

HandlesContentInput(n) ==
  ContentBearing[n] \/ (Upstreams[n] \cap ContentBearingNodes # {})

(* The k smallest of a set: popping the head of a sorted list k times.        *)
Least(S, k) == {n \in S : Cardinality({m \in S : m < n}) < k}

WorldOf(n) == Contents \cup {Unreadable} \cup (IF n \in LenientNodes THEN {Missing} ELSE {})

(* Mutant of Refreshed: a missing file is held like a content.                *)
RefreshedBlindly(n) == world[n]

(* config_key(): forced resolve, a missing file forgiven.                     *)
Refreshed(n) == IF world[n] = Missing THEN Empty ELSE world[n]

(* Mutant of Resolved: config_key() and execute() read on their own.          *)
ReadAgain(i) == world[i[1]]

(* Plain resolve: the held value, or else a read now.                         *)
Resolved(i) == IF scoped[i] = Empty THEN world[i[1]] ELSE scoped[i]

ResolveFails(i) == Resolved(i) \in {Missing, Unreadable}

(* Mutant of AfterResolve: execute() replaces what the run holds.             *)
AfterReading(i) ==
  IF i[1] \in ScopedNodes THEN [scoped EXCEPT ![i] = world[i[1]]] ELSE scoped

AfterResolve(i) ==
  IF i[1] \in ScopedNodes THEN [scoped EXCEPT ![i] = Resolved(i)] ELSE scoped

Put(k, v) == [j \in DOMAIN cache \cup {k} |-> IF j = k THEN v ELSE cache[j]]

(* _detaint: every Finding where it looks is forced to tainted; any other     *)
(* value is returned as it is.                                                *)
Detaint(v) == [v EXCEPT !.cert = @ \ {"walked"}]

(* execute() on a node's collected inputs.  The node is taken at its worst:   *)
(* it builds Findings by hand that claim not to be tainted, for all places it *)
(* uses, and keeps the raw content of its inputs unless it is reviewed as     *)
(* declassifying.                                                             *)
Computed(r, n, ext) ==
  LET inputs == {value[r][u] : u \in Upstreams[n]} IN
  [src  |-> {<<n, ext>>} \cup UNION {v.src : v \in inputs},
   raw  |-> ContentBearing[n] \/ (~Declassifies[n] /\ \E v \in inputs : v.raw),
   cert |-> IF n \in OpaqueNodes THEN Places ELSE {"walked"}]

(* Mutant of Output: only the stochastic node itself is tainted.              *)
OutputOfOwnKind(r, n, ext) ==
  IF Kind[n] = "stochastic" THEN Detaint(Computed(r, n, ext)) ELSE Computed(r, n, ext)

Output(r, n, ext) ==
  IF n \in TaintedNodes THEN Detaint(Computed(r, n, ext)) ELSE Computed(r, n, ext)

ExtsOf(r, n) ==
  IF n \in ScopedNodes THEN {Resolved(Instance(graph[r], n))}
  ELSE IF IsCacheable(n) THEN {Config[Copy[graph[r]][n]]} ELSE Samples

(* The exception text quotes what the node had in scope.                      *)
ErrorLeaks(r, n) ==
  /\ ~HandlesContentInput(n)
  /\ ContentBearing[n] \/ (\E u \in Upstreams[n] : value[r][u].raw)

SetTask(r, n, state) == task' = [task EXCEPT ![r][n] = state]

AddRecord(r, n, outcome, leak) ==
  manifest' = [manifest EXCEPT ![r] =
                 @ \cup {[node |-> n, outcome |-> outcome, leak |-> leak]}]

-----------------------------------------------------------------------------
Init ==
  /\ world \in [ScopedNodes -> Contents \cup {Missing, Unreadable}]
  /\ \A n \in ScopedNodes : world[n] \in WorldOf(n)
  /\ edits = 0
  /\ scoped = [i \in Instances |-> Empty]
  /\ claimed = {}
  /\ cache = [k \in {} |-> NoValue]
  /\ pc = [r \in Runs |-> "idle"]
  /\ graph = [r \in Runs |-> CHOOSE g \in Graphs : TRUE]
  /\ needed = [r \in Runs |-> {}]
  /\ plan = [r \in Runs |-> [n \in Nodes |-> Missing]]
  /\ unread = [r \in Runs |-> {}]
  /\ remaining = [r \in Runs |-> [n \in Nodes |-> {}]]
  /\ ready = [r \in Runs |-> {}]
  /\ task = [r \in Runs |-> [n \in Nodes |-> "idle"]]
  /\ value = [r \in Runs |-> [n \in Nodes |-> NoValue]]
  /\ manifest = [r \in Runs |-> {}]

(* The outside world changes a file or replaces a key.                        *)
Edit(n) ==
  /\ edits < MaxEdits
  /\ \E c \in WorldOf(n) \ {world[n]} : world' = [world EXCEPT ![n] = c]
  /\ edits' = edits + 1
  /\ UNCHANGED <<scoped, claimed, cache, pc, run, sched, task, value, manifest>>

-----------------------------------------------------------------------------
(* Executor.run up to its first await *)

(* No target, or a node of the graph is held by another run: nothing changes. *)
Reject(r, g) ==
  /\ pc[r] = "idle"
  /\ {} \in TargetSets \/ ~Claimable(g)
  /\ pc' = [pc EXCEPT ![r] = "rejected"]
  /\ UNCHANGED <<outside, scoped, claimed, cache, run, sched, task, value, manifest>>

(* Claim the whole graph, and begin to plan it: what a node has of its own    *)
(* does not change meanwhile, what it reads outside may.                      *)
Claim(r, g, targets) ==
  /\ pc[r] = "idle"
  /\ targets # {}
  /\ Claimable(g)
  /\ claimed' = claimed \cup InstancesOf(g)
  /\ graph' = [graph EXCEPT ![r] = g]
  /\ needed' = [needed EXCEPT ![r] = Ancestors(targets)]
  /\ plan' = [plan EXCEPT ![r] =
                [n \in Nodes |-> IF n \in ScopedNodes THEN Missing ELSE Config[Copy[g][n]]]]
  /\ unread' = [unread EXCEPT ![r] = ScopedNodes]
  /\ pc' = [pc EXCEPT ![r] = "planning"]
  /\ UNCHANGED <<outside, scoped, cache, sched, task, value, manifest>>

(* cache_keys() takes the nodes in an order in which upstreams come first.    *)
ReadsNext(r, n) ==
  pc[r] = "planning" /\ Lineage[n] \cap unread[r] = {n}

(* config_key(), which may wait for the key's lock, reads what is there.      *)
ConfigKey(r, n) ==
  /\ ReadsNext(r, n)
  /\ world[n] # Unreadable
  /\ scoped' = [scoped EXCEPT ![Instance(graph[r], n)] = Refreshed(n)]
  /\ plan' = [plan EXCEPT ![r][n] = world[n]]
  /\ unread' = [unread EXCEPT ![r] = @ \ {n}]
  /\ UNCHANGED <<outside, claimed, cache, pc, graph, needed, sched, task, value, manifest>>

Release(r, final) ==
  /\ pc' = [pc EXCEPT ![r] = final]
  /\ claimed' = claimed \ InstancesOf(graph[r])

(* config_key() raises: the node is invalidated, those before it stay         *)
(* refreshed, and the claim is given back.                                    *)
PlanFails(r, n) ==
  /\ ReadsNext(r, n)
  /\ world[n] = Unreadable
  /\ scoped' = [scoped EXCEPT ![Instance(graph[r], n)] = Empty]
  /\ Release(r, "unplanned")
  /\ UNCHANGED <<outside, cache, run, sched, task, value, manifest>>

(* The plan is there: the queue and the first tasks, up to the first await.   *)
Begin(r) ==
  LET need  == needed[r]
      roots == {n \in need : Upstreams[n] \cap need = {}}
      first == Least(roots, MaxConcurrency)
  IN
  /\ pc[r] = "planning" /\ unread[r] = {}
  /\ remaining' = [remaining EXCEPT ![r] =
                     [n \in Nodes |-> IF n \in need THEN Upstreams[n] \cap need ELSE {}]]
  /\ ready' = [ready EXCEPT ![r] = roots \ first]
  /\ task' = [task EXCEPT ![r] = [n \in Nodes |-> IF n \in first THEN "created" ELSE "idle"]]
  /\ pc' = [pc EXCEPT ![r] = "looping"]
  /\ UNCHANGED <<outside, scoped, claimed, cache, run, value, manifest>>

-----------------------------------------------------------------------------
(* _run_node *)

CacheHit(r, n) ==
  /\ pc[r] = "looping"
  /\ task[r][n] = "created"
  /\ UseCache(n)
  /\ Key(r, n) \in DOMAIN cache
  /\ value' = [value EXCEPT ![r][n] = cache[Key(r, n)]]
  /\ AddRecord(r, n, "cache_hit", FALSE)
  /\ SetTask(r, n, "returned")
  /\ UNCHANGED <<outside, scoped, claimed, cache, pc, run, sched>>

(* A miss, or no look at all: on to the call of node.execute.                 *)
StartExecute(r, n) ==
  /\ pc[r] = "looping"
  /\ task[r][n] = "created"
  /\ ~(UseCache(n) /\ Key(r, n) \in DOMAIN cache)
  /\ SetTask(r, n, "running")
  /\ UNCHANGED <<outside, scoped, claimed, cache, pc, run, sched, value, manifest>>

(* execute() returns: detaint, put, record.  A node may also finish like this *)
(* after its task was cancelled, when it swallows the cancellation.           *)
Execute(r, n) ==
  LET i == Instance(graph[r], n) IN
  /\ Live(r)
  /\ task[r][n] = "running"
  /\ n \in ScopedNodes => ~ResolveFails(i)
  /\ \E ext \in ExtsOf(r, n) :
       /\ value' = [value EXCEPT ![r][n] = Output(r, n, ext)]
       /\ cache' = IF UseCache(n) THEN Put(Key(r, n), Output(r, n, ext)) ELSE cache
  /\ scoped' = AfterResolve(i)
  /\ AddRecord(r, n, "executed", FALSE)
  /\ SetTask(r, n, "returned")
  /\ UNCHANGED <<outside, claimed, pc, run, sched>>

(* execute() raises: the read of an unresolved file fails, or the node's own  *)
(* work does after it.  The record's message is suppressed by the rule of     *)
(* HandlesContentInput.                                                       *)
NodeFails(r, n) ==
  LET i == Instance(graph[r], n) IN
  /\ Live(r)
  /\ task[r][n] = "running"
  /\ \/ /\ n \in ScopedNodes /\ ResolveFails(i)
        /\ UNCHANGED scoped
     \/ /\ n \in MayFail
        /\ n \in ScopedNodes => ~ResolveFails(i)
        /\ scoped' = AfterResolve(i)
  /\ AddRecord(r, n, "failed", ErrorLeaks(r, n))
  /\ SetTask(r, n, "raised")
  /\ UNCHANGED <<outside, claimed, cache, pc, run, sched, value>>

(* cache.get raises before the node runs.                                     *)
GetFails(r, n) ==
  /\ CacheMayFail
  /\ pc[r] = "looping"
  /\ task[r][n] = "created"
  /\ UseCache(n)
  /\ SetTask(r, n, "raised")
  /\ UNCHANGED <<outside, scoped, claimed, cache, pc, run, sched, value, manifest>>

(* cache.put raises after the node ran.  It stands outside the try, so no     *)
(* record is made; DiskCache has already put the value in its memo.           *)
PutFails(r, n) ==
  LET i == Instance(graph[r], n) IN
  /\ CacheMayFail
  /\ Live(r)
  /\ task[r][n] = "running"
  /\ UseCache(n)
  /\ n \in ScopedNodes => ~ResolveFails(i)
  /\ \E ext \in ExtsOf(r, n) : cache' = Put(Key(r, n), Output(r, n, ext))
  /\ scoped' = AfterResolve(i)
  /\ SetTask(r, n, "raised")
  /\ UNCHANGED <<outside, claimed, pc, run, sched, value, manifest>>

(* The cancellation asked for while unwinding reaches the task: before its    *)
(* first step, or where it waits inside execute(), which no scoped node does. *)
(* Or execute() lets a CancelledError of its own escape, which the handler for*)
(* Exception does not see.                                                    *)
TaskCancelled(r, n) ==
  /\ \/ /\ pc[r] \in {"failing", "cancelling"}
        /\ n \in InFlight(r)
        /\ task[r][n] = "created" \/ n \notin ScopedNodes
     \/ /\ pc[r] = "looping"
        /\ task[r][n] = "running"
        /\ n \in MayFail \ ScopedNodes
  /\ SetTask(r, n, "cancelled")
  /\ UNCHANGED <<outside, scoped, claimed, cache, pc, run, sched, value, manifest>>

-----------------------------------------------------------------------------
(* The loop of Executor.run *)

(* Outputs of `got` are stored and their dependents' counts updated.          *)
RemainingAfter(r, got) == [n \in Nodes |-> remaining[r][n] \ got]

(* Mutants of ReadyAfter: one stored input is enough; what was waiting is     *)
(* forgotten; a node that has started is ready again.                         *)
ReadyOnAnyInput(r, got) == ready[r] \cup {n \in needed[r] : remaining[r][n] \cap got # {}}

ReadyOnlyNew(r, got) ==
  {n \in needed[r] : remaining[r][n] \cap got # {} /\ RemainingAfter(r, got)[n] = {}}

ReadyAgain(r, got) == ready[r] \cup {n \in needed[r] : RemainingAfter(r, got)[n] = {}}

ReadyAfter(r, got) ==
  ready[r] \cup {n \in needed[r] : /\ remaining[r][n] \cap got # {}
                                   /\ RemainingAfter(r, got)[n] = {}}

(* Every finished task is popped: outputs stored, failures kept, new tasks    *)
(* created up to the limit.  The run ends when nothing is ready or running.   *)
Collect(r) ==
  LET got    == TasksIn(r, {"returned"})
      lost   == TasksIn(r, {"raised"})
      queue  == ReadyAfter(r, got)
      next   == Least(queue, MaxConcurrency - Cardinality(InFlight(r)))
      failed == lost \cup TasksIn(r, {"failed"})
  IN
  /\ pc[r] = "looping"
  /\ got \cup lost # {}
  /\ TasksIn(r, {"cancelled"}) = {}
  /\ FailFast => lost = {}
  /\ remaining' = [remaining EXCEPT ![r] = RemainingAfter(r, got)]
  /\ ready' = [ready EXCEPT ![r] = queue \ next]
  /\ task' = [task EXCEPT ![r] = [n \in Nodes |->
                CASE n \in got  -> "done"
                  [] n \in lost -> "failed"
                  [] n \in next -> "created"
                  [] OTHER      -> task[r][n]]]
  /\ IF InFlight(r) \cup next # {} THEN UNCHANGED <<pc, claimed>>
     ELSE Release(r, IF failed # {} THEN "failed" ELSE "success")
  /\ UNCHANGED <<outside, scoped, cache, run, value, manifest>>

(* A popped task makes the loop raise.  The finished tasks come in no         *)
(* particular order, so any of the others may have been popped before it.     *)
(* Tasks still in `running` are unwound; with none left the run is over.      *)
StopLoop(r, got, lost, stop, unwinding, final) ==
  /\ remaining' = [remaining EXCEPT ![r] = RemainingAfter(r, got)]
  /\ ready' = [ready EXCEPT ![r] = ReadyAfter(r, got)]
  /\ task' = [task EXCEPT ![r] = [n \in Nodes |->
                 CASE n \in got  -> "done"
                   [] n \in lost -> "failed"
                   [] OTHER      -> task[r][n]]]
  /\ IF Pending(r) \subseteq got \cup lost \cup {stop} THEN Release(r, final)
     ELSE pc' = [pc EXCEPT ![r] = unwinding] /\ UNCHANGED claimed

(* fail_fast: the first error popped is raised.                               *)
CollectError(r) ==
  /\ pc[r] = "looping"
  /\ FailFast
  /\ \E bad \in TasksIn(r, {"raised"}), got \in SUBSET TasksIn(r, {"returned"}) :
       StopLoop(r, got, {bad}, bad, "failing", "failed")
  /\ UNCHANGED <<outside, scoped, cache, run, value, manifest>>

(* task.exception() of a cancelled task raises, whatever fail_fast says.      *)
CollectCancelled(r) ==
  /\ pc[r] = "looping"
  /\ \E gone \in TasksIn(r, {"cancelled"}),
        got \in SUBSET TasksIn(r, {"returned"}), lost \in SUBSET TasksIn(r, {"raised"}) :
       /\ FailFast => lost = {}
       /\ StopLoop(r, got, lost, gone, "cancelling", "cancelled")
  /\ UNCHANGED <<outside, scoped, cache, run, value, manifest>>

(* The caller cancels the run, also while it unwinds after an error: gather   *)
(* still waits for its children and then raises CancelledError.               *)
Cancel(r) ==
  /\ MayCancel
  /\ pc[r] \in {"looping", "failing"}
  /\ pc' = [pc EXCEPT ![r] = "cancelling"]
  /\ UNCHANGED <<outside, scoped, claimed, cache, run, sched, task, value, manifest>>

(* Mutants of Unwound: the tasks are cancelled and not awaited; only an error,*)
(* not a cancellation, is cleaned up after.                                   *)
UnwoundWithoutJoin(r) ==
  /\ pc[r] \in {"failing", "cancelling"}
  /\ Release(r, IF pc[r] = "failing" THEN "failed" ELSE "cancelled")
  /\ UNCHANGED <<outside, scoped, cache, run, sched, task, value, manifest>>

UnwoundOnError(r) ==
  /\ pc[r] = "failing"
  /\ InFlight(r) = {}
  /\ Release(r, "failed")
  /\ UNCHANGED <<outside, scoped, cache, run, sched, task, value, manifest>>

(* gather returns once every task in `running` is done; the claim is released.*)
Unwound(r) ==
  /\ pc[r] \in {"failing", "cancelling"}
  /\ InFlight(r) = {}
  /\ Release(r, IF pc[r] = "failing" THEN "failed" ELSE "cancelled")
  /\ UNCHANGED <<outside, scoped, cache, run, sched, task, value, manifest>>

(* The process dies.  Of its state only a persistent cache survives, without  *)
(* the entries whose file had not been written; node objects are new.         *)
Crash ==
  /\ MayCrash
  /\ \E r \in Runs : Live(r)
  /\ pc' = [r \in Runs |-> IF Live(r) THEN "died" ELSE pc[r]]
  /\ task' = [r \in Runs |-> [n \in Nodes |->
                IF Live(r) /\ n \in InFlight(r) THEN "cancelled" ELSE task[r][n]]]
  /\ claimed' = {}
  /\ scoped' = [i \in Instances |-> Empty]
  /\ \E kept \in SUBSET DOMAIN cache :
       /\ ~CachePersists => kept = {}
       /\ cache' = [k \in kept |-> cache[k]]
  /\ UNCHANGED <<outside, run, sched, value, manifest>>

-----------------------------------------------------------------------------
Call(r) ==
  \E g \in Graphs : Reject(r, g) \/ \E targets \in TargetSets : Claim(r, g, targets)

PlanStep(r) ==
  \/ \E n \in ScopedNodes : ConfigKey(r, n) \/ PlanFails(r, n)
  \/ Begin(r)

TaskStep(r, n) ==
  /\ LoopIsFree
  /\ \/ CacheHit(r, n)
     \/ StartExecute(r, n)
     \/ Execute(r, n)
     \/ NodeFails(r, n)
     \/ GetFails(r, n)
     \/ PutFails(r, n)
     \/ TaskCancelled(r, n)

RunStep(r) ==
  /\ LoopIsFree
  /\ \/ Collect(r)
     \/ CollectError(r)
     \/ CollectCancelled(r)
     \/ Unwound(r)

Next ==
  \/ \E n \in ScopedNodes : Edit(n)
  \/ \E r \in Runs : LoopIsFree /\ (Call(r) \/ Cancel(r))
  \/ \E r \in Runs : PlanStep(r) \/ RunStep(r)
  \/ \E r \in Runs, n \in Nodes : TaskStep(r, n)
  \/ Crash

Spec == Init /\ [][Next]_vars

(* The event loop keeps stepping what can step; config_key() ends, as the     *)
(* wait for a key does (CallEnds of module KeyStore); and a node's execute()  *)
(* ends: it returns, raises, or gives way to a cancellation.                  *)
Fairness ==
  \A r \in Runs : WF_vars(PlanStep(r)) /\ WF_vars(RunStep(r)) /\ \A n \in Nodes : WF_vars(TaskStep(r, n))

FairSpec == Spec /\ Fairness
-----------------------------------------------------------------------------
(* Properties *)

TypeOK ==
  /\ world \in [ScopedNodes -> Contents \cup {Missing, Unreadable}]
  /\ edits \in 0 .. MaxEdits
  /\ scoped \in [Instances -> Contents \cup {Empty}]
  /\ claimed \subseteq Instances
  /\ DOMAIN cache \subseteq Keys
  /\ \A k \in DOMAIN cache : cache[k] \in Values
  /\ pc \in [Runs -> PCs]
  /\ graph \in [Runs -> Graphs]
  /\ needed \in [Runs -> SUBSET Nodes]
  /\ plan \in [Runs -> [Nodes -> Exts]]
  /\ unread \in [Runs -> SUBSET ScopedNodes]
  /\ remaining \in [Runs -> [Nodes -> SUBSET Nodes]]
  /\ ready \in [Runs -> SUBSET Nodes]
  /\ task \in [Runs -> [Nodes -> TaskStates]]
  /\ value \in [Runs -> [Nodes -> Values \cup {NoValue}]]
  /\ manifest \in [Runs -> SUBSET Record]

(* Two runs in flight never hold one node object, and the registry holds      *)
(* exactly the nodes of the runs in flight: a run that ends in any way gives  *)
(* its claim back, and only its own (run_isolation.py, executor.py:209).      *)
Isolation ==
  /\ \A r, s \in Runs : Live(r) /\ Live(s) /\ r # s =>
       InstancesOf(graph[r]) \cap InstancesOf(graph[s]) = {}
  /\ claimed = UNION {InstancesOf(graph[r]) : r \in {s \in Runs : Live(s)}}

(* What a run planned with is what its nodes still hold, as long as it is in  *)
(* flight, whatever happens to the file or the key (run_scoped.py:8).         *)
SnapshotHeld ==
  \A r \in Runs : Live(r) =>
    \A n \in ScopedNodes : plan[r][n] # Missing =>
      scoped[Instance(graph[r], n)] = plan[r][n]

(* No digest in the set stands for a file that was not there.                 *)
Known(src) == \A p \in src : p[2] # Missing

(* A cache entry is the value its key names: the key hashes the contents and  *)
(* configurations the value was really computed from, so no hit is stale.     *)
CacheSound ==
  \A k \in DOMAIN cache : Known(k[2]) => cache[k].src = k[2]

(* The same for what a run hands out: a collected output that no stochastic   *)
(* or resident node influenced comes from the contents the run planned with,  *)
(* computed now or taken from the cache.                                      *)
OutputsMatchPlan ==
  \A r \in Runs : \A n \in TasksIn(r, {"done"}) \ CacheUnsafeNodes :
    Known(Digest(r, n)) => value[r][n].src = Digest(r, n)

(* The outputs of one run belong together: each was computed from what its    *)
(* upstream nodes are seen to have produced (jsonl.py:225-229).               *)
MadeOfInputs(r, n) == \A u \in Upstreams[n] : value[r][u].src \subseteq value[r][n].src

CoherentOutputs == \A r \in Runs : \A n \in TasksIn(r, {"done"}) : MadeOfInputs(r, n)

(* They do where every file of the lineage was there, also below a stochastic *)
(* or resident node, whose key does not tell what it gave: no answer of       *)
(* another run is served for it (graph.py:251-279, executor.py:256-261).      *)
CoherentWhenFound ==
  \A r \in Runs : \A n \in TasksIn(r, {"done"}) :
    Known(Digest(r, n)) => MadeOfInputs(r, n)

(* Raw customer content never reaches a cache that outlives the process       *)
(* (executor.py:246-261).                                                     *)
ContentBoundary ==
  CachePersists => \A k \in DOMAIN cache : ~cache[k].raw

(* No error text in a manifest quotes customer content, a declassifying       *)
(* node's failure included (executor.py:232-243).                             *)
ManifestContentFree ==
  \A r \in Runs : \A rec \in manifest[r] : ~rec.leak

(* A Finding that claims not to be tainted was computed without any           *)
(* stochastic node, even when it comes out of the cache, wherever _detaint    *)
(* looks.  Only an output that holds Findings elsewhere as well keeps those   *)
(* as they were, and a node that takes one from there and returns it where    *)
(* _detaint looks does not get it certified (executor.py:43-79).              *)
CertifiedIsDeterministic ==
  \A r \in Runs, n \in Nodes :
    value[r][n] # NoValue /\ (\E p \in value[r][n].src : Kind[p[1]] = "stochastic") =>
      value[r][n].cert \subseteq IF n \in OpaqueNodes THEN {"opaque"} ELSE {}

(* The scheduler's bookkeeping while it loops: `ready` is exactly the nodes   *)
(* not started whose inputs are all stored, no slot is idle while one of them *)
(* waits, and never more than max_concurrency tasks exist.                    *)
SchedulerExact ==
  \A r \in Runs : pc[r] = "looping" =>
    LET slots == Cardinality(Pending(r)) IN
    /\ ready[r] = {n \in needed[r] : task[r][n] = "idle"
                                     /\ Upstreams[n] \subseteq TasksIn(r, {"done"})}
    /\ slots \in 1 .. MaxConcurrency
    /\ ready[r] # {} => slots = MaxConcurrency

(* A run reported as a success produced every node it needed and nothing      *)
(* else, and its manifest says of each, once, that it ran or was cached.      *)
SuccessIsComplete ==
  \A r \in Runs : pc[r] = "success" =>
    /\ TasksIn(r, {"done"}) = needed[r]
    /\ {rec.node : rec \in manifest[r]} = needed[r]
    /\ Cardinality(manifest[r]) = Cardinality(needed[r])
    /\ \A rec \in manifest[r] : rec.outcome # "failed"

(* With fail_fast off a failure costs only what depends on it: when the run   *)
(* raises, every other needed node has been produced (executor.py:158-207).   *)
KeepGoingComplete ==
  ~FailFast => \A r \in Runs : pc[r] = "failed" =>
    \A n \in needed[r] \ TasksIn(r, {"done", "failed"}) :
      Lineage[n] \cap TasksIn(r, {"failed"}) # {}

(* Both: whichever way a run that was not cut short comes to its end, what it *)
(* had to produce is there and what is missing has its reason.                *)
EndedIsComplete == SuccessIsComplete /\ KeepGoingComplete

(* No task outlives its run: when the claim is released nothing still uses    *)
(* the nodes (executor.py:199-213).                                           *)
NoTaskOutlivesRun ==
  \A r \in Runs : Ended(r) => InFlight(r) = {}

(* A node is started at most once in a run, and a result once popped, or      *)
(* cancelled, is final.                                                       *)
StartedOnce ==
  [][\A r \in Runs, n \in Nodes :
       /\ task'[r][n] = "created" => task[r][n] \in {"idle", "created"}
       /\ task[r][n] \in {"done", "failed", "cancelled"} => task'[r][n] = task[r][n]]_vars

(* Runs are as SnapshotRuns promises: a run reads each file and key once, and *)
(* its answer is what those readings determine, for every node it needed,     *)
(* whatever other runs, the cache, failures and the outside do in between     *)
(* (run_scoped.py:8).                                                         *)
PhaseOf(r) ==
  IF pc[r] = "idle" THEN "waiting"
  ELSE IF Live(r) THEN "working"
  ELSE IF pc[r] = "success" THEN "answered" ELSE "failed"

AnswerOf(r) ==
  [n \in {m \in needed[r] : pc[r] = "success"} |-> value[r][n].src]

Promise == INSTANCE SnapshotRuns WITH
  Shares   <- {gh \in Graphs \X Graphs : InstancesOf(gh[1]) \cap InstancesOf(gh[2]) # {}},
  Asks     <- {Ancestors(targets) : targets \in TargetSets},
  Random   <- CacheUnsafeNodes,
  Outside  <- ScopedNodes,
  Config   <- [g \in Graphs |-> [n \in Nodes \ ScopedNodes |-> Config[Copy[g][n]]]],
  phase    <- [r \in Runs |-> PhaseOf(r)],
  asked    <- needed,
  snapshot <- [r \in Runs |-> [n \in Nodes \ unread[r] |-> plan[r][n]]],
  answer   <- [r \in Runs |-> AnswerOf(r)]

RunsAreSnapshots == Promise!Spec

(* "Every run records what executed" (trace.py:3): when execute() has ended,  *)
(* the manifest has the node.                                                 *)
RecordsWhatExecuted ==
  [][\A r \in Runs, n \in Nodes :
       task[r][n] = "running" /\ task'[r][n] \in {"returned", "raised"} =>
         \E rec \in manifest'[r] : rec.node = n]_vars

(* A cache that does not declare `persistent` "is treated as non-persistent"  *)
(* (cache.py:33-39): what may be cached at all, it is given.                  *)
UndeclaredCacheIsFilled ==
  CacheDeclares = "nothing" =>
    \A r \in Runs : \A rec \in manifest[r] :
      rec.outcome = "executed" /\ IsCacheable(rec.node) /\ rec.node \notin CacheUnsafeNodes
        => Key(r, rec.node) \in DOMAIN cache

(* Every run ends, and by Isolation gives its nodes back.                     *)
RunEnds == \A r \in Runs : Live(r) ~> Ended(r)
-----------------------------------------------------------------------------
(* The inductive invariant: what the properties above rest on.                *)

Done(r) == TasksIn(r, {"done"})

PlanFixed ==
  \A r \in Runs : Live(r) =>
    \A n \in Nodes \ ScopedNodes : plan[r][n] = Config[Copy[graph[r]][n]]

Begun(r) == pc[r] \in {"looping", "failing", "cancelling", "success", "failed", "cancelled"}

(* A run plans for something, and one that has begun has read all it reads.   *)
PlanComplete ==
  \A r \in Runs :
    /\ pc[r] = "planning" => needed[r] # {}
    /\ Begun(r) => unread[r] = {}

(* Only nodes whose inputs are stored are ready or have been started.         *)
Scheduled ==
  \A r \in Runs :
    /\ UpClosed(needed[r])
    /\ Begun(r) =>
         /\ \A n \in needed[r] : remaining[r][n] = Upstreams[n] \ Done(r)
         /\ \A n \in ready[r] :
              n \in needed[r] /\ task[r][n] = "idle" /\ Upstreams[n] \subseteq Done(r)
    /\ \A n \in Nodes : task[r][n] # "idle" =>
         n \in needed[r] /\ Upstreams[n] \subseteq Done(r) /\ pc[r] \notin {"idle", "planning"}

MatchesPlan(v, r, n) ==
  n \notin CacheUnsafeNodes /\ Known(Digest(r, n)) => v.src = Digest(r, n)

Results ==
  \A r \in Runs : \A n \in TasksIn(r, {"returned", "done"}) :
    value[r][n] # NoValue /\ MatchesPlan(value[r][n], r, n)

(* A value of node n comes from n's lineage, is raw only where the plan says  *)
(* so, and certified only where the plan allows it.                           *)
Origin(v, n) ==
  /\ \A p \in v.src : p[1] \in Lineage[n]
  /\ v.raw => n \in ContentBearingNodes
  /\ n \in TaintedNodes => v.cert \subseteq IF n \in OpaqueNodes THEN {"opaque"} ELSE {}

ValuesTracked ==
  \A r \in Runs, n \in Nodes : value[r][n] # NoValue => Origin(value[r][n], n)

CacheTracked ==
  \A k \in DOMAIN cache : UseCache(k[1]) /\ Origin(cache[k], k[1])

IInv ==
  /\ TypeOK
  /\ Isolation
  /\ SnapshotHeld
  /\ PlanFixed
  /\ PlanComplete
  /\ Scheduled
  /\ Results
  /\ ValuesTracked
  /\ CacheSound
  /\ CacheTracked
  /\ ManifestContentFree
=============================================================================
