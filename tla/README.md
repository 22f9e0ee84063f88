# SixEyes: a verification project

TLA+ modules, model-checking configurations and machine-checked proofs for
SixEyes, the local analyser of LLM request traces under `src/`. Paths below are
relative to the repository; `graph/`, `ingest/`, `fingerprint/`, `core/` and
`obs/` stand for the directories of `src/sixeyes/`.

## 1. The system

A trace of LLM requests is read, turned into content-free fingerprints, and
compared request by request. The work is described as a graph of typed nodes;
an executor plans the graph, runs its nodes concurrently on one event loop,
reuses results through a content-addressed cache, and writes a manifest of what
it did. A pilot drives a real agent loop against a local model server within a
budget of calls and analyses what was captured.

| Component | State it keeps | Operations | Talks to |
|---|---|---|---|
| Graph plan (`graph/graph.py`, `node.py`) | nodes, wiring, `_validated` | `add`, `validate`, `cache_keys`, `tainted_nodes`, `content_bearing_nodes`, `cache_unsafe_nodes`, `levels` | calls `config_key` of every node |
| Executor (`graph/executor.py`) | per run: `remaining`, `ready`, `running`, outputs, failures | `run`, `_run_node`, `_detaint` | all of the `graph/` package, node code |
| Claim registry (`graph/run_isolation.py`) | set of node objects in use, one per process | `claim`, `release` | called by every run |
| Run-scoped values (`graph/run_scoped.py`) | one value per node object | `resolve`, forced or not | file, key file |
| Artifact cache (`graph/cache.py`) | memory dict; files and an in-memory copy | `get`, `put`, `has`, `clear` | shared by runs, `DiskCache` by processes |
| Run manifest (`obs/trace.py`) | list of records | `record`, rendering | written by `_run_node` |
| Run context (`graph/context.py`) | tainted set, `scratch` | `certify`, `provenance`, `for_node` | handed to nodes |
| Sources (`ingest/*.py`) | `JsonlSource`: run-scoped file content | `config_key`, `execute`, parsers | file system |
| Fingerprint (`fingerprint/fingerprint.py`) | run-scoped key | `fingerprint_request`, `execute` | key file |
| Key file (`fingerprint/keys.py`) | key file, lock file, temporary file | `load_or_create_key` | other processes |
| Divergence (`fingerprint/divergence.py`) | none | `compare` | |
| Hashing (`core/ids.py`), findings, money | none | `content_hash`, totals | |
| Line readers (`ingest/jsonl.py`, `strict_jsonl.py`, `tool_choice.py`) | none | `parse_jsonl`, `parse_strict_jsonl` | sources, command line |
| Command line (`cli.py`, `report.py`) | none | `main`, `analyze_trace`, `to_dict` | executor |
| Call budget and client (`pilots/agentfuse/local_client.py`, `local_run.py`) | ledger file and its lock, captured calls | `reserve`, `create`, `run`, `main` | local server, other processes |
| Tool loop and bridge (`bridge.py`, `capture.py`, `fake_client.py`, `demo.py`) | list of messages, captured calls | `run_scripted_loop`, `convert_captured_calls` | client, router, analysis |
| Server and tools (`local_runtime.py`, `repo_tools.py`) | a child process, a port; counters, reads so far | `local_server`, `__call__` | other programs; the loop |

### What is hard about it

* **Interleaving.** Runs are coroutines that meet in shared node objects, in the
  claim registry and in the cache. Planning reads one file or key after the other,
  and between planning a node and executing it the run waits: what is outside may
  change at any of these moments.
* **Failure.** Planning, a node, the cache's read and write can each raise; a
  caller can cancel, also while the run unwinds; a node may let a cancellation
  of its own escape; the process can die. Each way out must give back
  the claim, leave no task behind, and leave nothing wrong in the cache.
* **Ordering.** Nodes complete in any order and in batches; the scheduler keeps
  counts per node, a queue and a limit.
* **Closures.** Taint, content class and cache safety propagate through the graph.
  Their rules differ in small ways, and each guards a promise to the customer.
* **Files shared between processes.** The key file, the disk cache and the call
  ledger each have a lock or rename protocol, and their holders can die.
* **Several readers of one format.** A request comes in through a coercing
  parser, a strict one, or the bridge from a live conversation, and the same
  request must be the same to the comparison.
* **A process and a port of the machine.** The pilot's server is a child that may
  load slowly, die or hang, on a port that other programs may take.

### What makes each component correct

* Executor: a run computes from exactly the inputs it planned with; runs do not
  disturb each other; a cached value is the value its key names; a successful
  run is complete; a failure costs only what depends on it; runs end.
* Graph plan: the one-pass closures are the least fixed points of their rules and
  agree with each other (tainted nodes are exactly those with an LLM behind them).
* Cache: raw content is never persistent; entries are never rebound; a damaged
  file is a miss.
* Manifest: complete and free of content.
* Key file: all users end up with one key; nobody replaces an installed key.
* Call budget: never more requests than the limit, counted before they are sent.
* Fingerprint and divergence: an append is not reported, an edit always is, with
  the place of the first difference.
* Hashing: a cache key is shared exactly by equal computations.
* Readers and bridge: what is accepted is taken verbatim; what the bridge maps is a
  request the format has.
* Tool loop: a captured call keeps what was sent; the counters add up.
* Server: none is left behind; no answer of another program is taken.
* Programs: they end, and their exit code is earned.

`PROJECT.json` lists the hazards, each at the line where it bites, with the
properties that would catch it.

## 2. The modules

| Module | Models | Status |
|---|---|---|
| `GraphPlan` | what a validated graph says about its nodes | checked with `Executor`, proved in `ExecutorProofs` |
| `Executor` | `Executor.run`, `_run_node`, the registry, run-scoped values, cache, manifest | checked, invariants proved |
| `SnapshotRuns` | what `Executor.run` promises: each run reads everything outside once and answers from that | implemented by `Executor`, proved |
| `ExecutorProofs` | the closures of `GraphPlan`, the inductive invariant, the bookkeeping of the scheduler and what follows | proved |
| `KeyStore` | `load_or_create_key`: key file, lock, temporary file | checked, safety proved |
| `WriteOnceKey` | what the key file promises: a register written once | implemented by `KeyStore`, proved |
| `KeyStoreProofs` | the key protocol's invariant and the refinement | proved |
| `CallBudget` | the steps of `CallBudget.reserve` and `used` on the ledger | part of `Pilot` |
| `AtomicBudget` | what the budget promises: a call is counted in one step, and made at most once | implemented by `Pilot`, proved |
| `Pilot` | `LocalClient.create` and `run`, composed with `CallBudget` | checked, safety proved |
| `PilotProofs` | the invariant of ledger and requests and of what a run captures, and the refinement | proved |
| `DiskCache` | `DiskCache.get`, `put`, `clear` of several processes over one directory | checked, safety proved |
| `LossyStore` | what a cache promises: it may forget, and never answers with anything else | implemented by `DiskCache`, proved |
| `DiskCacheProofs` | the invariant of the files, and the refinement | proved |
| `GraphBuild` | `add`, `validate`, Kahn's order, `_find_cycle`, the one-pass closures | checked against `GraphPlan`, proved |
| `ContentHash` | `core/ids.py` and the cache keys made with it | checked, proved |
| `GraphSetup` | configs, then construction: `ContentHash` and `GraphBuild` in turn | checked, proved |
| `GraphSetupProofs` | the invariant of the sort and of the walk, the passes, and what bytes and keys tell | proved |
| `ListLemmas` | recursive functions, joined sequences, reading blocks back, places of a sorted list | lemmas for the proofs |
| `Structure` | units, fingerprints and `compare` | operators; `compare` proved |
| `StructureProofs` | offsets and reports for segments of any length | proved |
| `JsonLines` | the two line readers and tool choices | operators |
| `LocalAnalysis` | the analysis every program runs, and the rows of its report | part of `Analysis` |
| `CommandLine` | `cli.main` over a file that is being written | part of `Analysis` |
| `ToolLoop` | the tool loop, what the clients capture, the bridge, the router | part of `Analysis` |
| `LocalServer` | `local_server`, its child and the port | part of `Analysis`, finding |
| `Analysis` | the three programs, composed of the four above | checked, safety proved |
| `AnalysisProofs` | the strict reader, the counters, the bridge, the server and the exit code of the local pilot | proved |
| `MCExecutor`, `MCKeyStore`, `MCPilot`, `MCDiskCache`, `MCGraphSetup`, `MCAnalysis` | instances for TLC | |

### GraphPlan

The graph is a constant: nothing changes it once a run holds the plan. Node ids
are numbers because the code sorts them. The code computes each closure in one
pass over the topological order; the module states the set that this pass
computes, the least set closed under the rule of the loop body; that the pass
computes it is proved of `GraphBuild`. `Lineage[n]`, a
node and everything upstream of it, is what its cache key hashes and what
`_ancestors` collects. The only assumption beyond types is that `validate`
accepted the graph (`AcyclicAssumption`).

### Executor

A step is the code between two awaits of one coroutine, or, while a run is planned,
between two reads of something outside. Planning has no await, so no other run takes a
step before it is over (`LoopIsFree`); but `cache_keys` asks one node after the other, the
key may have to be waited for, and other programs go on. The plan may so be of no one
moment. The state of one run is the coroutine's position `pc`, the local variables
`needed`, `plan`, `unread` (the nodes whose `config_key` is still to come), `remaining`,
`ready`, a `task` state per node, the `value` each task returned, and the `manifest`. Runs
share `claimed`, `scoped` (`RunScoped._value` of each node object), and `cache`. `world`
is the file or key outside.

| Action | Code |
|---|---|
| `Reject`, `Claim` | a call of `run`: no targets or a claim refused; or the whole graph is claimed |
| `ConfigKey`, `PlanFails` | `cache_keys` comes to the next node that reads a file or key: it is read and held, or reading raises and the claim is given back |
| `Begin` | the plan is there: counts, queue and first tasks, up to the first await |
| `CacheHit`, `StartExecute`, `GetFails` | first step of a task: the cache look-up, its hit, its miss, its failure |
| `Execute`, `NodeFails`, `PutFails` | `node.execute` returns, raises, or its result cannot be stored |
| `TaskCancelled` | a task ends with `CancelledError`, asked for or not |
| `Collect` | the loop pops every finished task, updates counts and queue, creates tasks; or the run ends |
| `CollectError`, `CollectCancelled` | a popped task makes the loop raise; the other finished tasks may have been popped before it, in any subset |
| `Cancel`, `Unwound` | the caller cancels; `gather` has returned and the claim is released |
| `Crash` | the process dies: memory is lost, of a persistent cache any subset of entries is kept |
| `Edit` | the file or the key changes |

Abstractions, and why they lose nothing the properties ask about:

* A value is the set of pairs (node, what that node took from outside), and a
  cache key is the node with the same set of pairs as `config_key()` saw them.
  "The cached value is the one its key names" is then an equality of sets.
  Keys are injective by construction: SHA-256 and the framing of `core/ids.py`
  are taken at their word here. The wiring is fixed, so the nesting of the real
  key adds nothing to the set.
* Every node is at its worst: it keeps the raw content of its inputs unless it
  declassifies, it builds Findings that claim not to be tainted, and its
  exceptions quote what it had in scope. What holds then holds for better nodes.
* A Finding is known by where in the value it is: in a place `_detaint` walks (a
  `Finding`, `FindingSet`, tuple, list, value of a dict, to any depth) or elsewhere
  (`Places`). `Detaint` takes the certification of the first only, as the docstring at
  `executor.py:55` says. `OpaqueNodes` are the nodes whose output has Findings
  elsewhere too: they are not guarded, and `CertifiedIsDeterministic` says what is left
  for their outputs and for those of the nodes behind them.
* The order of `cache_keys` among nodes that do not depend on each other is left open;
  nodes that read nothing outside are planned with the first step.
* `ready` is a list kept sorted, so popping its head k times is `Least(ready, k)`.
* The semaphore never blocks, because there are never more tasks than its
  permits (`SchedulerExact`), and is left out.
* Time stamps, durations, versions and log lines are left out.
* `JsonlSource` and `Fingerprint` (the scoped nodes) do not await inside
  `execute`. The model still separates their start from their end, which only
  adds interleavings.

`SnapshotRuns` is what a caller may rely on. A run waits, works, and has answered or
failed; it starts (`Start`) while no other run works on its node objects, reads for each
node once what is outside (`Read`), each at a moment of its own, and holds it; and answers
(`Answer`) for every node it needed with what it has read determines, whatever the outside
did since. This is `run_scoped.py:8`, one value per node and run, and not a snapshot of
the world: two files that are edited together may be read one before and one after. It
promises nothing for a node below a stochastic or resident one, or below a file that was
missing (`Determined`, finding 1). `RunsAreSnapshots` says that `Executor` implements it.

### KeyStore and WriteOnceKey

Callers are threads, each in a process (`PidOf`). A step is one system call:
reads of the key file, the exclusive open of the lock, truncating and filling
the temporary file, `os.replace`, the unlink. `tmp` is per process, because its
name holds the pid, and starts with what an earlier process may have left; so do
`file` and `lock`.

| Action | Code |
|---|---|
| `FirstRead`, `ReadWhileContended`, `Recheck` | the three calls of `_read_existing`, which share `ReadExisting` |
| `Acquire`, `Contention` | `os.open` succeeds, or finds the lock there |
| `Poll` | the deadline has passed, or the caller sleeps and tries again |
| `Truncate`, `Fill`, `Install` | the new key is written to the temporary file and moved into place |
| `OsError` | a call raises |
| `Leave`, `CloseFails` | the `finally`, which removes the lock by name and ignores a failure; or `os.close` raises before it |
| `Die` | a process with all its threads |

A key is named by the call that drew it. The clock is the choice in `Poll`: the
deadline passes after any number of polls up to `MaxPolls`. On Windows a
`PermissionError` on a lock that is being deleted counts as contention; the
model then still has the lock, and its retry is one more poll. A lock that is
denied for good ends as a timeout either way. `chmod` and the file's mode
are left out, and so are retries of a read that a `PermissionError` stopped for
a moment. `stuck` is a history variable, the callers that
could not remove their lock.

`WriteOnceKey` has the same callers and two actions: the first use makes the key,
any other use is given it. `OneKeyForAll` says that `KeyStore` implements it with
the key file as the register.

### CallBudget and Pilot

`CallBudget` has the steps of `reserve` on the ledger, the lock and the one
temporary file that all processes share; `Pilot` extends it with a run's tool
loop, its requests and its report.

| Action | Code |
|---|---|
| `Begin` | `before = budget.used()`, outside the `try` |
| `Turn`, `OutOfTurns` | the loop calls `create`, up to `max_turns` times |
| `LockBudget`, `BudgetLocked` | the lock is opened with mode `x`, or the call is refused |
| `ReadCount`, `TruncateTemp`, `FillTemp`, `Replace`, `BudgetError`, `Unlock` | the rest of `reserve` with its `finally` |
| `Post`, `Answer`, `CallFails` | the request is sent; a completion is captured; anything else |
| `Fail` | `except LocalPilotError` |
| `ReportSession`, `ReportAttempted` | the two readings of the ledger in the report |
| `Die` | the process |

A ledger is a count, missing or invalid. `Limit` stands for the 10 of the code,
which it uses both as the limit and for `max_turns`. The tool loop and the
server are not in the repository. The loop is taken to call `create` at most
`max_turns` times, one call after the other, and to return `max_turns`, `complete`
or `escalated`; the server may answer, fail or fall silent until the timeout. What
the messages say, the outcome made of them and the analysis of the report are the
business of `ToolLoop` and `Analysis`. `log` (the
requests the server received) and `first` (the count when the session began) are
history variables.

In `AtomicBudget` a run counts a call and is given the count as a permit (`Reserve`),
makes one call with it (`Call`) or none (`Drop`). `BudgetIsAtomic` says that `Pilot`
implements it: the permit of a run is the count it has reserved, from `Replace` until
the request is sent or given up.

### DiskCache and LossyStore

A file is an inode with the parts written so far, `entry[k]` and `temp[k]` are the
names `<key>.pkl` and `<key>.tmp`, and `folder[k]` the fan-out directory. A step is
one system call.

| Action | Code |
|---|---|
| `Put`, `MakeFolder`, `OpenTemp`, `WriteTemp`, `Replace` | `put`: the memo, `mkdir`, `write_bytes` (open with truncation, two parts), `replace` |
| `PutFails` | any of these calls raises, as they must when the directory or the temporary file is gone |
| `Get`, `Read`, `Drop` | the memo and `exists`; `read_bytes` with `pickle.loads`; `unlink` of what does not load |
| `Clear`, `RemoveFile`, `EndClear` | the memo, and `rmtree` with errors ignored, a name at a time |
| `Die` | the process, wherever it is |

A key names one value (`CacheSound`), so every process writes the same bytes, and
what has only one part does not load. Two processes that store one key at the same
time share the temporary name: one may truncate the file the other is about to
rename. Then an entry can be half written for a while, which `crowded` remembers;
the comment in `cache.py:133` is about a killed process alone, and for that
`EntryWholeUnlessCrowded` says it is right. Readers never notice either way:
`StoreSpec`, the refinement of `LossyStore`, holds without that exception. In
`LossyStore` a `put` is `Store`, the start of a `get` is `Ask`, and its answer (or
the end of the process that waits for it) is `Tell`.

### GraphBuild, ContentHash, GraphSetup

`GraphBuild` has a graph's nodes and wiring, added in any order, and the locals
of `_topological_order` and `_find_cycle` as variables, one loop round to a step.

| Action | Code |
|---|---|
| `Add`, `AddAgain` | `add`; a duplicate is refused |
| `Refuse` | `_check_ports`; the first fault is raised, here any of those there are |
| `StartSort`, `TakeReady`, `EndSort` | Kahn's algorithm with its sorted ready list |
| `Visit`, `Return`, `RaiseCycle` | the depth-first walk and the error that names a cycle |

`ready`, a list that is sorted before its head is popped, is a set whose least node
is taken. The passes (`TaintedPass`, `CacheUnsafePass`, `ContentBearingPass`) have one
loop, `OnePass`: it goes over the order once and collects a node that is marked by
itself, or that has an upstream collected so far and does not stop the mark.
`BuildSpec` is this module alone; `GraphSetup` has a run that does one of the two.

`ContentHash` has the canonical encoding of every type `_canonical` takes: None, bool,
int, float, text, bytes, list (or tuple), set, dict and an object with a
`content_key()`. `Data[k]` are the values nested up to `k` deep; `Canonical` encodes
them level by level, as the code does by calling itself, and `MaxNesting` is where
Python would raise `RecursionError`. Bytes are numbers, the eight bytes of a length are
one number, and a digest is its input: that SHA-256 has no collisions is assumed. Two
processes fill the config of one node, entry by entry, and each asks for the key of a
node wired to it. `KeysIdentify` compares the keys with what the configs say
(`Meaning`): types and contents, where sets and dicts have no order. A dict with two
keys of one text (`1` and `"1"`) is the exception of its second half (`Unambiguous`):
`sorted` by text leaves them in the order they were put in (`ids.py:66`), so equal
dicts may get two keys, which costs a recomputation and no wrong result.

### Structure, JsonLines, LocalAnalysis, CommandLine

A text is a sequence of symbols, a JSON value a record whose field says its type. A line
of a file is the value `json.loads` makes of it, or one of three kinds it cannot read:
blank, garbage, or nested beyond `MaxDepth`, the recursion limit of `json.loads`, which is
the same for every line. HMAC and SHA-256 are ideal: `HashChain` at `i` is the key, the
segment and the units up to `i`. `Compare` follows the order of `compare`; `ReportIsExact`
says what it should find in terms of the requests alone: the longest common prefix of what
a provider reads.

`ParsesLine` and `RequestOf` are the coercing reader, `ValidLine` and `WellFormed`
the strict one, which then calls the first (`Accepts`). `ParseJsonl` and
`ParseStrictJsonl` give the requests or the line named in the error.

`CommandLine` has a file that is written line by line (`Write`), and `main` at any
moment: `InputRefused`, `LineRefused`, `AnalysisRefused`, `Reported`, one for each
way to an exit code. `main` reads the file in one go and does not wait in between.

### ToolLoop, LocalServer, Analysis

`ToolLoop` has the list of messages of each loop, the calls captured so far, and
the tool calls that wait for a result.

| Action | Code |
|---|---|
| `StartLoop` | `run_scripted_loop` begins, or begins again over the same client |
| `Answer` | the client copies the call and returns a completion; the loop appends the assistant's message |
| `RouteCall` | the router answers one tool call, with its checks and counters |
| `CreateRaises`, `CallFails` | `create` raises: out of script or an unsupported shape; `LocalPilotError` |
| `LoopEnds` | out of turns, or AgentFuse's monitor escalates |
| `Drift` | the demo edits the second captured call |
| `AnalyzeCaptured` | `analyze_captured_calls`: conversion, fingerprints, comparison |

`Supported` is the trial conversion `create` makes before it sends anything. `Completes`
is the check an answer must pass to be taken over: the local client's, and the scripted
one's answers are built so. What a loop is called with and answered are JSON values
(`SessionsAssumption`, `RepliesAssumption`). `Bridges...` is
what the conversion accepts, `Bridged...` what it makes. A
captured call says which list it came from, so that a reference instead of a copy
can be told from it (`ByReference`).

`LocalServer` has `local_server` step by step (`Verify`, `Probe`, `Spawn`, `Poll`,
`Healthy`, `Unhealthy`, `Leave`, `Stop`, `Waited`, `Kill`), its child (`Listen`,
`Exit`), the clock (`Deadline`) and the other programs (`OtherBinds`).

`Analysis` composes them into three programs with an exit code: the command line
(`ByFile`), the demo (`ByScript`) and the local pilot, whose loop runs while the
server is up (`Main`), among what it has no say in (`Around`).

### Mutants

Operators commented "Mutant of X" are plausible bugs of the definition they
name; nothing refers to them. With such an operator in X's place, TLC finds the
property listed with it in `PROJECT.json` violated. Some are bugs the source
says it had: a registry that holds graphs, two independent reads, redaction by
the class of the output.

## 3. The runs

`CHECK_DEADLOCK FALSE` in each, because runs and calls end and a bounded number
of them is all there is.

| Run | Instance | Shows |
|---|---|---|
| `overlap` | 2 runs, 3 graph objects that share all, one or no node objects; a file and a key, read one after the other, and 2 changes of them at any time; `fail_fast`; missing and unreadable files; cancellation; a disk cache; crashes | `TypeOK`, `Isolation`, `SnapshotHeld`, `OutputsMatchPlan`, `CacheSound`, `RunsAreSnapshots` |
| `keep_going` | 7 nodes, 2 slots, `fail_fast` off, every node may raise, the unscoped ones let a cancellation escape, the cache may fail; 4 target sets | `SchedulerExact`, `EndedIsComplete` (of a success and of a failure), `StartedOnce` |
| `content` | 2 runs, 5 nodes with raw content, relay, declassifier and LLM; the LLM node hides some Findings; disk cache; `fail_fast`, errors, cancellation, fairness | `ContentBoundary`, `ManifestContentFree`, `CertifiedIsDeterministic`, `CoherentWhenFound`, `NoTaskOutlivesRun`, `RunEnds` |
| `key_store` | 2 threads of one process and 1 of another, 2 polls, every fault, every state of the files at the start | `TypeOK`, `Exclusive`, `LockNotLeaked`, `CallEnds`, `OneKeyForAll` |
| `pilot` | 2 runs over one ledger, limit 3, every fault, every count at the start | `TypeOK`, `CountedBeforeSent`, `BudgetIsAtomic`, `ReportCoversOwn`, `NoRetry`, `CallLimitIsReal`, `RunEnds` |
| `analysis` | files of up to 3 lines out of 16, well formed and not; 2 loops of up to 2 turns out of 5 sessions and 7 replies; the local pilot with its server | `ReportIsExact`, `NothingCoerced`, `ExitIsEarned`, `ReportTellsHistory`, `BridgeWithinFormat`, `ToolCountsAddUp`, `ServerStopped`, `SessionEnds` |
| `graph_build` | every graph of up to 4 nodes and 5 ports, in every order; configs of up to 2 entries, nested up to 3 deep (`MaxNesting`) | `OrderExact`, `ClosuresExact`, `KeysIdentify` |
| `disk_cache` | 2 processes, 1 key, 3 files, failures and deaths anywhere | `EntryWholeUnlessCrowded`, `StoreSpec` |
| `port_race` | finding | `OnlyOwnServer` is violated |
| `missing_file` | finding | `CoherentOutputs` is violated |
| `undeclared_cache` | finding | `UndeclaredCacheIsFilled` is violated |
| `put_fails` | finding | `RecordsWhatExecuted` is violated |

Bounds. Two runs are enough to disturb each other, or for one to reuse what the other
left; the proofs cover any number. The audit graph (source, fingerprint, divergence) is
the one the program builds, with both nodes that read something outside. The judge graph
is the smallest in which lineage, taint, cache-unsafe and content classes all differ. The
wide graph has a queue longer than the slots, a join of three, a node no target needs, and
an empty target set. Two contents and one edit (`MaxEdits`) give a stale value; two edits,
as in `overlap`, can fall between the two reads of a plan or change both what a run has
read and what it has not, so that its plan was never the world. A run that failed or
crashed before the edit leaves entries of the earlier one. `overlap` is symmetric in the
runs and in the contents, which no configuration is equal to (`Exchange`); it checks no
liveness. A cache that fails is in `keep_going`, nodes that raise are in `content` and
there; the proofs have all of it together. In `key_store` two threads share a temporary
file and a third caller does not, one can hold the lock, one wait for it and one arrive
late; a second poll meets a lock that was given back and taken again. In `pilot` a limit
of three lets each of two runs attempt more than one call and one of them find the rest
gone; the number of runs and the limit are free in the proofs.

In `analysis` two lines make a pair and a third one that must be named behind them; the
limit on requests (`MaxRequests`) is two, so that the third line meets it. The lines are a
base and one edit for every part of a request the comparison tells apart or a reader
refuses (a number for a text, a lone surrogate, NaN in a schema, a negative count, a time
stamp no float can hold, a key twice, garbage, a blank line). Two turns let a reply ask
for tools and the next one end, and two loops (`MaxLoops`) a restart. The replies hold a
call of each kind, a read repeated with its defaults spelled out, arguments that are no
JSON or no object, empty ids, blank text, and cut text. A `MaxDepth` of six is one more
than the deepest line has. In `graph_build` four nodes make a diamond, a chain of three
below a stochastic node, and cycles of one to four. A graph and a config do not interact
beyond the key, so `GraphSetup` does the one or the other. In `disk_cache` three inodes
are an entry, a temporary file and one that was removed while it was open; the proofs are
for any number.

Fairness. `RunEnds` of `Executor` assumes weak fairness of each task and of each run's
loop: the event loop runs whatever is ready, a plan goes on (`PlanStep`: a `config_key`
that waits for the key ends, by `CallEnds` of `KeyStore`), and a node's `execute` ends in
one of its ways. Nothing is assumed of the outside world, of callers or of crashes.
Without the assumption about `execute` the code promises nothing: it has no timeout.
`CallEnds` and `RunEnds` of `Pilot` assume weak fairness of each caller or run: the
operating system schedules it, and a request is answered or times out (`timeout=240`). It
is given to the steps other than file errors (`Proceed`, `GoOn`), so that no failure is
needed to get on. Nothing is assumed of other callers, and a dead holder never gives its
lock back: the key's waiters end by their deadline, the budget's at once.

`SessionEnds` assumes weak fairness of each program's own next step and of the
clock of the server's start: the requests and the waits it makes have timeouts
(`local_client.py`, `local_runtime.py:68`), the file and the tools are read without
waiting, and the loop has a turn limit. Nothing is assumed of the child, other
programs or the user.

### Findings

1. **A file that was missing during planning** (`ingest/jsonl.py:275`).
   `config_key` maps a missing file to the digest `None` and leaves the
   run-scoped value empty; `execute` then reads the file if it has appeared.
   What it computes is cached under the key of a missing file, and a later run
   that is also planned without the file gets the old fingerprints beside its
   own trace. `CoherentOutputs` is violated. `CacheSound`, `SnapshotHeld` and
   `OutputsMatchPlan` therefore speak of contents that were there (`Known`):
   that is the one exception they need.
2. **An undeclared cache** (`graph/cache.py:36`). The comment says such a cache
   is treated as non-persistent; the executor treats it as persistent. The
   executor's choice is the safe one, the comment is wrong.
3. **A result that cannot be stored** (`graph/executor.py:322`). The node ran,
   and the manifest does not mention it (`obs/trace.py:3`).

4. **Another service on the port** (`local_runtime.py:53`). The probe that shall
   "Refuse an already occupied port" closes its socket before the child is even
   started, and the child binds the port only once it has loaded its model. The
   health check takes a 200 from whoever listens. A program that binds the port
   in between is queried with the session's requests: `OnlyOwnServer` is
   violated. `ServerStopped` holds all the same.

Smaller disagreements that are described here and not run: `parse_line` lets an
`OverflowError` (a time stamp beyond the floats, `jsonl.py:87`) and a
`RecursionError` through without the line number that its other refusals carry
(`Escapes`); the strict reader, which the command line uses, catches both. A
schema with NaN passes the bridge and is refused by the strict reader
(`BridgeWithinFormat` excepts it). "dicts hash by sorted key, so equal content
always yields equal digest" (`ids.py:8`) is not true of a dict with the keys `1` and
`"1"`: they are sorted by `str(key)` alone (`ids.py:66`), and `sorted` is stable, so the
digest depends on the order the dict was filled in (the exception in `KeysIdentify`).

## 4. The proofs

TLAPS checks the following for every value of the constants.

### Executor

For any acyclic graph, any number of runs, graph objects and contents, every
cache and every fault setting, `ExecutorProofs` has

`TypeOK`, `Isolation`, `SnapshotHeld`, `CacheSound`, `OutputsMatchPlan`,
`ContentBoundary`, `ManifestContentFree`, `CertifiedIsDeterministic`,
`CoherentWhenFound`, `NoTaskOutlivesRun`, `SchedulerExact`, `EndedIsComplete` as
invariants, `StartedOnce` as an action property of `Spec`, and `RunsAreSnapshots`,
the refinement of `SnapshotRuns`.

The argument. None of these but `Isolation` is inductive alone; `IInv` adds what
they rest on:

* `Isolation` gives that two runs in flight have disjoint node objects, so a
  step of one leaves the run-scoped values of the other alone. That, and that
  planning refreshes only claimed nodes, makes `SnapshotHeld` inductive, read by read.
* `PlanComplete` says that a run that has begun has no read left, so what it combines is
  all of one plan (`Begun`); `Scheduled` holds its bookkeeping only from then on.
* `Scheduled` says that a started node has all its inputs stored, so `execute`
  combines values of finished nodes only.
* `Results` says that a finished node outside the reach of randomness has
  exactly its planned digest as source: by `SnapshotHeld` for what it reads, by
  `Scheduled` and induction along the run for its inputs, by `CacheSound` for
  a hit. `Lineage` of a node is the node and the lineages of its upstreams
  (`LineageUnfold`), which is why the union of the inputs' digests is the digest.
* `CacheSound` follows because only results that match the plan are stored, under
  the key of that plan; and from it `EntryNeverRebound` (stated in `ExecutorProofs`), that
  no step changes the contents the value of a key comes from.
* `ValuesTracked` and `CacheTracked` say that a value comes from the lineage of
  its node, is raw only in content-bearing nodes, and certified in a walked place only in
  untainted ones. With `TaintedIffStochasticLineage` the content and the taint
  properties follow.

`CoherentWhenFound` is about the nodes `OutputsMatchPlan` leaves out, too: a pure node below a
stochastic one has one key whatever that one gave. Its output was computed from the
outputs handed out with it, by `Scheduled` (`ExecuteCoheres`), or it came from the cache; then
`UseCache` rules out that anything stochastic is above it, and its source and those of its
inputs are their planned digests (`CacheHitCoheres`).

`SchedulerExact` and both parts of `EndedIsComplete` rest on `Bookkeeping`,
an invariant of one run from its plan to its end, shown beside `IInv`:

* `ReadyExact`: the queue is the nodes not started whose inputs are all stored. `Collect`
  adds the nodes whose count comes to zero. That count is the upstreams not stored, by
  `IInv`, so the new ones are exactly those whose last inputs were popped
  (`PopReady`), however many were popped at once.
* `SlotsFilled`: the loop takes `Least` of the queue, which is as many as there is room
  or all there are (`LeastFills`, by the number of smaller ids).
* `Recorded`: the records of a run and its tasks with a result are in one-to-one
  correspondence, so the records are as many as the nodes.
* `Exhausted`: a run that ends by itself has an empty queue and nothing in flight. A node
  that is neither done nor failed then waits for an upstream which is not done either; by
  acyclicity the least such node waits for a failed one (`StuckBehind`). If none failed
  there is no such node, and the run has produced all.

`RunsAreSnapshots` takes both invariants. A run's snapshot is its plan for the nodes not in
`unread`. `Claim` is `Start`, and `Isolation` keeps other runs off the nodes; `ConfigKey` is
`Read` of its node, which no later step reads again (`ReadPromised`); once a run has begun
its snapshot has every node (`PlanComplete`). A
`Collect` that ends in success is `Answer`: by `Exhausted` all needed nodes are done, and by
`Results` each that is determined has its planned digest as source. Every other way out is
`Fail` or `Die`; the steps of tasks touch only values of a run that has not answered.

The section on `GraphPlan` proves that each closure is closed and least, and that
the forward closure of `tainted_nodes` names exactly the nodes with a stochastic
node in their lineage.

The proofs assume `GraphAssumption`, `AcyclicAssumption` (where they cite it) and
`ExecutorAssumption`, which TLC evaluates in every run.

### KeyStore

For any threads, processes and faults, `KeyStoreProofs` has `TypeOK`, `Exclusive`
and `LockNotLeaked` as invariants and `OneKeyForAll`, the refinement of
`WriteOnceKey`. `Exclusive` is what makes the rest inductive. Only the holder of
the lock installs a key, so what it found absent under the lock stays absent
(`StillAbsent`), and only it writes the temporary file of its process, so what it
installs is the key it drew (`OwnTemporary`). Hence `Install` is `Create`, a read
that finds a key is `Load`, and every other step stutters. `Agreement`, that
whoever has a key has the one in the file, shows that `Load` never changes an
answer. The assumption is `KeyStoreAssumption`: keys, callers and the values for
"no file" are different things.

### CallBudget and Pilot

For any runs and any limit, `PilotProofs` has `TypeOK`, `CountedBeforeSent`,
`ReportCoversOwn`, `NoRetry` and `CallLimitIsReal` as invariants, `BudgetIsAtomic`, the
refinement of `AtomicBudget`, and the action property `LedgerCounts` (stated in that
module): the ledger only goes up by one, under the lock. The
count that a holder of the lock read stays the ledger's until it is replaced
(`CountHeld`, from `Exclusive`), so each reservation gets a count of its own
(`Reservations`), and so does each request sent on one (`Requests`). Requests
then map one to one to the counts between the first and the last, and are no
more than those (`DistinctTickets`, from the library's theorem on injections). The
same argument over one run's requests and the counts since it began gives
`ReportCoversOwn`. The refinement needs the first two and `OwnTemp`, that what is renamed
is what was written: `Replace` is `Reserve` because the count it installs is one more than
the ledger's, `Post` is `Call`, and every other step keeps all permits or drops one
(`QuietIsDropOrStutter`). The assumption is `BudgetAssumption`.

The last two rest on a second invariant, `Accounts`, about each run by itself.
`Tracked` says that what a run captured are counts it sent a request with, and that
at most one count was sent with and not captured (`Lost`): the one that is under
way, or the one whose answer ended the run. The counts a run sent with are as many as
its requests, because no two requests have one (`SentIsKnown`); that is `NoRetry`.
`CallLimitIsReal` has two cases. A refused reservation read the limit, and the ledger
never goes down (`LimitIsFinal`). A run that is out of turns may say `max_turns` too:
as `Limit` bounds the turns as well, it has then sent one request per turn (`Turned`),
and by `ReportCoversOwn`'s argument the ledger has counted them all.

### GraphBuild and ContentHash

For any finite set of nodes and any wirings, `GraphSetupProofs` has `OrderExact` and
`ClosuresExact` as invariants of `BuildSpec`. `BuildInv` says how far the sort and the
walk are:

* `Sorting`: the count of a node is its upstreams not yet in the order (`Counted`),
  `ready` is what has none and is not in the order, and every place of the order has
  been taken as `OrderExact` says (`Ordered`). A node is ready exactly when its count
  comes to zero, which is once, because upstreams are a set (the mutant counts ports).
* `Walking`: what is on the stack is distinct, each node an upstream of the one before,
  and nodes in state 2 have all their upstreams in state 2; they were done one after
  the other, so no set of them has in each member's upstreams another member. The
  walk begins only if some nodes could not be ordered, and those are such a set: not
  every node can get to state 2 (`RaiseCycleKeeps`), so the walk meets its own stack.
  The fallback of `_find_cycle`, all nodes sorted, is never the answer.
* `Named`: what is named is the end of the stack from the node that was met.

A graph with an order has no cycle: the first place of a set's nodes in the order has
no upstream in the set (`OrderedIsAcyclic`). That the recursive function of `OnePass`
exists, and that it grows and collects a node when its place comes, is shown by the
first place where it would not (`PassExists`, `PassGrows`). It collects every node the
rule asks for, since its upstreams come before it (`PassIsFixed`), and no other, since a
closed set has all of it (`PassIsLeast`); the sets of `GraphPlan` are the least ones.

`SetupRefinesBuild` carries both over to `GraphSetup`, which the run checks: it takes the
steps of `BuildSpec` on the graph or leaves it alone.

The other half of that module is about hashing, for values of every type and any
nesting up to `MaxNesting`. `CanonicalInjective` is the docstring's claim that "no two
distinct inputs may serialise to the same byte string", `CanonicalStable` its claim that
equal content has equal bytes, with the exception above, and `KeysAlwaysIdentify` is
`KeysIdentify` as an invariant of `GraphSetup`. The argument:

* Blocks of bytes of which none is a beginning of another can be read back from the
  whole (`BlocksReadBack`, upwards along the blocks). Frames are such blocks, since a
  frame says how long it is (`FramesDelimit`), and so are the entries of a dict, of two
  frames each (`EntriesDelimit`). No two types share a tag (`TagsDiffer`).
* So two encodings that are the same are of one type, and hold values with the same
  bytes, item by item (`ListsFaithful`, `SetsFaithful`, `DictsFaithful`). If the bytes of
  what they hold tell what it says, theirs do (`StepFaithful`); a scalar's do
  (`ScalarsTold`), hence those of every level do (`AllFaithful`).
* Sorting keeps a dict's entries: the places that `sorted` counts are filled each once
  (`PlacesFilled`), so `SortedPairs` is a permutation (`SortedIs`). Where texts differ, the
  place of a key depends on the set of keys alone (`RanksCount`), so two dicts with the
  same entries are sorted alike (`SortedAlike`), and level by level values that say the
  same have the same bytes (`StepStable`, `AllClosed`).
* A digest tells the bytes of its parts (`HashedTells`), the source's key its config
  (`SourceTells`), and the key of a node the port and the source's key (`NodeTells`). That
  a config stays a dict of such values is `HashInv`, the invariant.

The levels are recursive functions over `0 .. MaxNesting`, which the library's
induction theorems do not reach; that they exist is shown upwards from 0
(`DataExists`, `LevelsExist`). The assumption is `HashAssumption`: keys are None,
numbers or texts whose place in sorted order is known, values nest less deep
than the limit, and the limit is at least two.

### DiskCache

For any number of processes, keys and files, `DiskCacheProofs` has
`EntryWholeUnlessCrowded` as an invariant and `StoreSpec`, the refinement of
`LossyStore`. The refinement needs little: files and memos are of keys that were put
(`OnlyTried`), and a value is answered only from a memo or a file that loads. The
invariant needs to know who may touch a file: it has one name at most, is open only
for those who put that name's key, and is an entry's only if they crowd
(`OneName`); two who put one key have crowded it (`CrowdSeen`); so the temporary
file of a key that is not crowded is as far as its one writer is (`Progress`), and
whole when it is renamed.

### The programs that compare requests

`AnalysisProofs` is about `Analysis`, the three programs with their files, loops and
server, for every file, session, answer, number of loops and of turns. It has
`ServerStopped`, `NothingCoerced`, `ToolCountsAddUp`, `BridgeWithinFormat`,
`ReportIsExact`, `ReportTellsHistory` and `ExitIsEarned` as invariants.

* The server (`ServerInv`): nothing is spawned before the probe, the port is the child's
  own only while it listens, and an end comes after the child's. The programs only note
  that somebody answered, so the invariant of `LocalServer` is one of `Analysis`.
* The strict reader. `NothingCoerced` holds of every JSON value (`TextsAreStrings`). The
  strings of a value are those among its parts, which are collected level by level; that
  the recursive function of levels exists is shown by the first level where it would not
  (`LevelsExist`). The checks of `_validate` say of each field a request takes a text from
  that it is a string, five levels down at the deepest (`DepthAssumption`).
* The counters (`LoopInv`). While the loop calls, every tool call of the list has its
  result (`Settled`): call `i` of message `k` at place `k + i`. While it routes, one
  message is the exception (`AwaitedAt`): its first results are there and the pending calls
  are the others, in order. So each `RouteCall` answers one more call, and the counters are
  the number of results and of different reads answered (`Counted`), also when a
  conversation breaks off between a call and its result and another begins.
* The bridge. `BridgedIsWithinFormat` needs no state: of any call the bridge takes, the line
  written of it has the shape the strict reader asks for, and reads back as the same
  request, tool by tool, call by call, message by message (`ToolsAgree`, `CallsAgree`,
  `MessagesAgree`). `CapturedLists` adds that what is captured is a list with messages.
* The exit code of the local pilot (`ExitInv`, `LocalExitIsEarned`). Every call id of the list is answered or pending
  (`CallsBound`), and none is pending once the loop is over; a loop that is `complete`
  ended with a message without calls, and an exit code comes after the comparison of all
  that was captured (`LocalLoop`). `run_outcome` says `finished_with_text` only of a
  `complete` loop whose last answer stopped by itself.

* The report (`AnalysisInv`). Whatever is compared is `WellShaped`: its tools, messages and
  calls are lists of such records and its texts sequences. For a file this comes from the
  checks of the strict reader (`LinesAreShaped`); for a loop, from what the bridge
  accepts (`BridgedIsShaped`) and from what the loop appends (`CapturedShaped`, which the
  drift keeps too: `DriftedMessage`). The rest is a fact about two requests, `CompareIsExact`.
* The history (`HistoryInv`). A captured call is of the session and its messages are a
  beginning of its list, which went on since (`HasBeginning`); the first call of a list has
  its opening, and each later one more than the one before (`GrowsFrom`), since a list
  without a captured call has no more than its opening (`ListsOpened`); the demo edits one
  message, when its loops are over (`DriftIsLast`). `PairOfCalls` compares two captured
  calls by this, and `CompareIsExact` says what is reported.
* The exit code of the command line (`FileExit`). The exact report gives the number of
  changes its code stands for (`ChangesCounted`), and the code is of the file that was read,
  or refused at its first bad line.

The assumptions: `DepthAssumption`; what lines, answers and sessions hold are JSON values,
in which a text and an array are sequences (`LinesAssumption`, `RepliesAssumption`,
`SessionsAssumption`); and None is no number, session, text, trace or digest
(`NoneAssumption` and these three).

### Structure

`StructureProofs` has `OffsetIsFirstChange`, for units of any kind and segments of
any length: an offset is `None` exactly for equal segments, or for grown ones where
growth is tolerated, and otherwise the first difference or the end of the shorter
segment. It rests on `MinOfNats` of `ListLemmas` (a set of naturals has a least element, from the
library's theorem on well-founded relations) and on `ChainsDifferWithUnits` (chains of
one seed differ at a place exactly if the units up to it do), and assumes that
`None` is no number.

`CompareFindsFirstChange` is about `compare` as a whole, on the fingerprints of two requests
under one key. It is silent exactly when the model, the tool choice, the tools and the system
text are the same and the messages are or have grown; otherwise it names the first that
changed, all units before the offset are in common, and the missed units are those of
the later request from the offset to its end (`UnitsSummed` adds them up). What the units of
a request are is left open, but that they are sequences (`HasUnits`), and a digest is
taken not to be `None`.

`CompareIsExact` takes the units of `tokenize.py` and says the same of the requests
themselves: silent exactly for `OnlyAppended`, and otherwise the offset and the missed units
are those of the longest common prefix of what a provider reads. It needs that units
determine a request:

* a text: `Tokenize` can be undone, as its units joined are the text again
  (`TokenizeInjective`, by the least place of the scan where it would not);
* the tools and the system text: one unit each for a tool, and the units of a text;
* the messages: a message ends with the only `message_end` of its units (`OnlyLastEnds`), so
  of two joined lists of messages with a common beginning the ends are at the same places
  (`Blocks`, `BlockPlaces`), and the messages are the same up to there
  (`MessagesFromUnits`). So messages whose units have grown have had messages appended.

`PrefixesPart` then finds the place where two prefixes part: in the first segment that
differs, as the tags keep one segment's units from another's.

### Only model-checked

* `RunEnds` (of `Executor` and of `Pilot`), `CallEnds` and `SessionEnds`: liveness under
  fairness, and `ENABLED`, are beyond this prover.

## 5. Not modelled

* `docs/problem_statement_generator.py`: it lays out a PDF of fixed prose.
* Node code other than what its node takes in and gives out; `levels`, `describe`
  and the other renderings; the class checks of `NodeMeta` and the `node` decorator,
  which run at import.
* What makes names and no keys in `core/ids.py` (`short`, `is_digest`), and the `TypeError`
  for a value without a `content_key()`; money and totals,
  arithmetic without state; `certify` and `provenance` of the run context, which only
  refuse what `_detaint` would take away; `scratch`, which no node uses.
* The text a tool returns and its length limits, the pinned Git tree behind it, and the
  text and size limit of a server's response.
* Threads. The registry is correct under cooperative scheduling, as its comment
  says; two threads with an event loop each are outside its promise. `MemoryCache` and
  `RunScoped` likewise.
* The AgentFuse tool loop and monitor and the server program, which are not in the
  repository, beyond what the code relies on.
* `KeyboardInterrupt` and other exceptions that stop the event loop itself.
* Of `local_server`: a child that is killed is taken to be gone at once, so the second
  `wait(timeout=10)` (`local_runtime.py:87`) does not time out; an interrupt between `Popen`
  and the `try` (`local_runtime.py:54`-`62`), and a second one inside the `finally`, are left
  out. `ServerStopped` promises nothing for these.
* `DiskCache` takes a key to have one value and one value to have the same bytes in every
  process. `CacheSound` says so but for a file that was missing while a run was planned
  (finding 1): two processes may then store different values under one key, and get answers
  one of them.

## 6. What is left

Every invariant, action property and refinement that a passing run checks is proved as
well; the four liveness properties are not. `ToolLoop` has no abstract specification of its
own: one would take the same steps, and what a loop promises is in `ToolCountsAddUp`,
`ReportTellsHistory` and `ExitIsEarned`.
