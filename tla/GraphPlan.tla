------------------------------ MODULE GraphPlan ------------------------------
(* What a validated graph tells the executor about its nodes before any of   *)
(* them runs (src/sixeyes/graph/graph.py).  The graph is a constant: wiring   *)
(* and declarations cannot change once a run holds the plan.  Every closure   *)
(* the code computes in one pass over the topological order is stated here    *)
(* as the set that pass computes, the least one closed under the rule of its  *)
(* loop body.                                                                 *)
EXTENDS Naturals, FiniteSets

CONSTANTS
  Nodes,            \* node ids, as numbers so that sorted() is <
  Upstreams,        \* [Nodes -> SUBSET Nodes]: the upstream ids of a node's ports
  Kind,             \* [Nodes -> Kinds]: NodeKind
  ContentBearing,   \* [Nodes -> BOOLEAN]: the node's own declaration
  Declassifies      \* [Nodes -> BOOLEAN]

Kinds == {"source", "pure", "resident", "stochastic"}

ASSUME GraphAssumption ==
  /\ Nodes \subseteq Nat
  /\ IsFiniteSet(Nodes)
  /\ Upstreams \in [Nodes -> SUBSET Nodes]
  /\ Kind \in [Nodes -> Kinds]
  /\ ContentBearing \in [Nodes -> BOOLEAN]
  /\ Declassifies \in [Nodes -> BOOLEAN]

(* Graph.validate has accepted the graph: no set of nodes in which every node *)
(* waits for another one.                                                     *)
ASSUME AcyclicAssumption ==
  \A S \in SUBSET Nodes : S # {} => \E n \in S : Upstreams[n] \cap S = {}

-----------------------------------------------------------------------------
IsCacheable(n) == Kind[n] \in {"source", "pure"}

UpClosed(S) == \A n \in S : Upstreams[n] \subseteq S

(* A node and everything it is computed from: what its cache key hashes.      *)
Lineage ==
  [n \in Nodes |->
     {m \in Nodes : \A S \in SUBSET Nodes : n \in S /\ UpClosed(S) => m \in S}]

Ancestors(targets) == UNION {Lineage[t] : t \in targets}

DownClosed(S) == \A n \in Nodes : Upstreams[n] \cap S # {} => n \in S

DownstreamOf(seeds) ==
  {m \in Nodes : \A S \in SUBSET Nodes : seeds \subseteq S /\ DownClosed(S) => m \in S}

TaintedNodes == DownstreamOf({n \in Nodes : Kind[n] = "stochastic"})

CacheUnsafeNodes == DownstreamOf({n \in Nodes : Kind[n] \in {"resident", "stochastic"}})

(* One iteration of the content-bearing pass: what the node is, given the     *)
(* nodes already known to carry content.                                      *)
CarriesContent(n, S) ==
  \/ ContentBearing[n]
  \/ ~Declassifies[n] /\ Upstreams[n] \cap S # {}

ContentBearingNodes ==
  {m \in Nodes : \A S \in SUBSET Nodes :
                   (\A n \in Nodes : CarriesContent(n, S) => n \in S) => m \in S}
=============================================================================
