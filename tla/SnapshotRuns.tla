---------------------------- MODULE SnapshotRuns -----------------------------
(* What Executor.run promises its callers, however its nodes are scheduled,   *)
(* cached, failed or cancelled: a run reads all that is outside of it once,   *)
(* one after the other and while no other run works on its node objects, and  *)
(* answers for all it was asked with what it has read determines, or not at   *)
(* all.                                                                       *)
CONSTANTS
  Runs, Graphs, Nodes,
  Shares,           \* pairs of graphs that have a node object in common
  Asks,             \* the sets of nodes a caller may need
  Lineage,          \* Lineage[n]: n and all it is computed from
  Random,           \* nodes no reading determines
  Outside,          \* nodes that read something outside
  Config,           \* Config[g][n]: what any other node has of its own
  Missing           \* what a node reads that finds nothing

VARIABLES
  world,            \* what is outside now
  phase,            \* "waiting", "working", "answered" or "failed"
  graph, asked,
  snapshot,         \* snapshot[r][n]: what r has for n, once it has read it
  answer            \* answer[r][n]: what the output of n comes from

vars == <<world, phase, graph, asked, snapshot, answer>>

Init ==
  /\ phase = [r \in Runs |-> "waiting"]
  /\ answer = [r \in Runs |-> [n \in {} |-> {}]]

Change ==
  /\ world' # world
  /\ UNCHANGED <<phase, graph, asked, snapshot, answer>>

Start(r, g, nodes) ==
  /\ phase[r] = "waiting"
  /\ \A s \in Runs : phase[s] = "working" => <<g, graph[s]>> \notin Shares
  /\ phase' = [phase EXCEPT ![r] = "working"]
  /\ graph' = [graph EXCEPT ![r] = g]
  /\ asked' = [asked EXCEPT ![r] = nodes]
  /\ snapshot' = [snapshot EXCEPT ![r] = Config[g]]
  /\ UNCHANGED <<world, answer>>

(* What is held for a node is what was there at one moment, and is not read   *)
(* again; for another node it may have been another moment.                   *)
Read(r, n) ==
  /\ phase[r] = "working"
  /\ n \in Outside \ DOMAIN snapshot[r]
  /\ snapshot' = [snapshot EXCEPT ![r] =
                    [m \in DOMAIN @ \cup {n} |-> IF m = n THEN world[n] ELSE @[m]]]
  /\ UNCHANGED <<world, phase, graph, asked, answer>>

Determined(r, n) ==
  n \notin Random /\ \A m \in Lineage[n] : snapshot[r][m] # Missing

Answer(r) ==
  /\ phase[r] = "working"
  /\ DOMAIN snapshot[r] = Nodes
  /\ phase' = [phase EXCEPT ![r] = "answered"]
  /\ DOMAIN answer'[r] = asked[r]
  /\ \A n \in asked[r] : Determined(r, n) =>
       answer'[r][n] = {<<m, snapshot[r][m]>> : m \in Lineage[n]}
  /\ \A s \in Runs \ {r} : answer'[s] = answer[s]
  /\ UNCHANGED <<world, graph, asked, snapshot>>

Fail(r) ==
  /\ phase[r] \in {"waiting", "working"}
  /\ phase' = [phase EXCEPT ![r] = "failed"]
  /\ UNCHANGED <<world, graph, asked, snapshot, answer>>

(* The process dies with all the runs in it.                                  *)
Die ==
  /\ phase' = [r \in Runs |-> IF phase[r] = "working" THEN "failed" ELSE phase[r]]
  /\ UNCHANGED <<world, graph, asked, snapshot, answer>>

Next ==
  \/ Change \/ Die
  \/ \E r \in Runs :
       \/ Answer(r) \/ Fail(r)
       \/ \E n \in Outside : Read(r, n)
       \/ \E g \in Graphs, nodes \in Asks : Start(r, g, nodes)

Spec == Init /\ [][Next]_vars
=============================================================================
