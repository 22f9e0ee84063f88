------------------------------ MODULE GraphBuild ------------------------------
(* Building and validating a graph (src/sixeyes/graph/graph.py): add, the     *)
(* check of ports, Kahn's order one node at a time, the walk that names a     *)
(* cycle, and the passes over the order that module GraphPlan takes as sets.  *)
(* Node ids are numbers, so that sorted() is <.                               *)
EXTENDS Integers, Sequences, SequencesExt, FiniteSetsExt

CONSTANTS
  Nodes,            \* nodes that may be added
  Wirings,          \* Wirings[n]: what the ports of n may be wired to
  Inputs,           \* Inputs[n]: the declared ports of n, with their types
  Output,           \* Output[n]: the type n produces
  Kind, ContentBearing, Declassifies,   \* the nodes' declarations
  Classes,          \* the types that are classes
  NewTypes,         \* the class each NewType wraps
  Subclass          \* pairs of a class and a proper base of it

ASSUME BuildAssumption == Nodes \subseteq Nat /\ IsFiniteSet(Nodes)

VARIABLES
  wiring,           \* the wiring of the nodes added so far
  stage,            \* "open", "sorting", "walking" or "validated"
  outcome,          \* what the last operation raised, None for nothing
  indegree, ready, order,   \* locals of _topological_order; ready, a list kept
                            \* sorted, is a set whose least node is popped
  state, stack,     \* locals of _find_cycle
  cycle             \* the nodes CycleError names

sortVars == <<indegree, ready, order>>
walkVars == <<state, stack, cycle>>
graphVars == <<wiring, stage, outcome, sortVars, walkVars>>

Added == DOMAIN wiring
UpstreamsOf(n) == Range(wiring[n])
DependentsOf(n) == {m \in Added : n \in UpstreamsOf(m)}

BuildInit ==
  /\ wiring = <<>> /\ stage = "open" /\ outcome = "none"
  /\ indegree = <<>> /\ ready = {} /\ order = <<>>
  /\ state = <<>> /\ stack = <<>> /\ cycle = <<>>

(* Every new node takes the validation back.                                  *)
Add(n, wires) ==
  /\ stage \in {"open", "validated"} /\ n \notin Added
  /\ wiring' = [m \in Added \cup {n} |-> IF m = n THEN wires ELSE wiring[m]]
  /\ stage' = "open" /\ outcome' = "none"
  /\ indegree' = <<>> /\ ready' = {} /\ order' = <<>> /\ cycle' = <<>>
  /\ UNCHANGED <<state, stack>>

AddAgain(n) ==
  /\ stage \in {"open", "validated"} /\ n \in Added
  /\ outcome' = "duplicate"
  /\ UNCHANGED <<wiring, stage, sortVars, walkVars>>

-----------------------------------------------------------------------------
(* _check_ports *)

Unwrapped(type) == IF type \in DOMAIN NewTypes THEN NewTypes[type] ELSE type

(* A NewType is checked as the class it wraps; what is no class is accepted.  *)
TypesCompatible(produced, expected) ==
  \/ expected \in {"Any", "object"}
  \/ {Unwrapped(produced), Unwrapped(expected)} \subseteq Classes
       => \/ Unwrapped(produced) = Unwrapped(expected)
          \/ <<Unwrapped(produced), Unwrapped(expected)>> \in Subclass

FaultsOf(n) ==
  {"unknown port" : port \in DOMAIN wiring[n] \ DOMAIN Inputs[n]}
    \cup {"not wired" : port \in DOMAIN Inputs[n] \ DOMAIN wiring[n]}
    \cup {IF wiring[n][port] \notin Added THEN "unknown node" ELSE "type" :
          port \in {p \in DOMAIN Inputs[n] \cap DOMAIN wiring[n] :
                      wiring[n][p] \notin Added
                        \/ ~TypesCompatible(Output[wiring[n][p]], Inputs[n][p])}}

PortFaults == UNION {FaultsOf(n) : n \in Added}

(* validate: the first fault in the order of adding is raised; here, any.     *)
Refuse ==
  /\ stage = "open"
  /\ outcome' \in PortFaults
  /\ UNCHANGED <<wiring, stage, sortVars, walkVars>>

(* Mutant of StartSort: an upstream counts once for each port it is wired to. *)
StartSortByPort ==
  /\ stage = "open" /\ PortFaults = {}
  /\ stage' = "sorting" /\ outcome' = "none"
  /\ indegree' = [n \in Added |-> Cardinality(DOMAIN wiring[n])]
  /\ ready' = {n \in Added : DOMAIN wiring[n] = {}}
  /\ order' = <<>>
  /\ UNCHANGED <<wiring, walkVars>>

StartSort ==
  /\ stage = "open" /\ PortFaults = {}
  /\ stage' = "sorting" /\ outcome' = "none"
  /\ indegree' = [n \in Added |-> Cardinality(UpstreamsOf(n))]
  /\ ready' = {n \in Added : UpstreamsOf(n) = {}}
  /\ order' = <<>>
  /\ UNCHANGED <<wiring, walkVars>>

-----------------------------------------------------------------------------
(* _topological_order and _find_cycle *)

(* One round of the while loop.                                               *)
TakeReady ==
  /\ stage = "sorting" /\ ready # {}
  /\ LET current == Min(ready)
         after == DependentsOf(current)
     IN /\ indegree' = [n \in Added |-> IF n \in after THEN indegree[n] - 1 ELSE indegree[n]]
        /\ ready' = (ready \ {current}) \cup {n \in after : indegree'[n] = 0}
        /\ order' = Append(order, current)
  /\ UNCHANGED <<wiring, stage, outcome, walkVars>>

EndSort ==
  /\ stage = "sorting" /\ ready = {}
  /\ IF Len(order) = Cardinality(Added)
       THEN stage' = "validated" /\ UNCHANGED walkVars
       ELSE /\ stage' = "walking"
            /\ state' = [n \in Added |-> 0] /\ stack' = <<>> /\ cycle' = <<>>
  /\ UNCHANGED <<wiring, outcome, sortVars>>

Unfinished == IF stack = <<>> THEN {n \in Added : state[n] = 0}
              ELSE {u \in UpstreamsOf(Last(stack)) : state[u] # 2}

Visit ==
  /\ stage = "walking" /\ Unfinished # {} /\ state[Min(Unfinished)] = 0
  /\ state' = [state EXCEPT ![Min(Unfinished)] = 1]
  /\ stack' = Append(stack, Min(Unfinished))
  /\ UNCHANGED <<wiring, stage, outcome, sortVars, cycle>>

Return ==
  /\ stage = "walking" /\ Unfinished = {} /\ stack # <<>>
  /\ state' = [state EXCEPT ![Last(stack)] = 2]
  /\ stack' = Front(stack)
  /\ UNCHANGED <<wiring, stage, outcome, sortVars, cycle>>

Sorted(S) == SetToSortSeq(S, <)

(* The walk meets a node of its own stack; if it met none, all are named.     *)
RaiseCycle ==
  /\ stage = "walking"
  /\ IF Unfinished = {} THEN stack = <<>> ELSE state[Min(Unfinished)] = 1
  /\ cycle' = IF Unfinished = {} THEN Sorted(Added)
              ELSE SubSeq(stack, CHOOSE i \in DOMAIN stack : stack[i] = Min(Unfinished), Len(stack))
  /\ stage' = "open" /\ outcome' = "cycle"
  /\ indegree' = <<>> /\ ready' = {} /\ order' = <<>> /\ state' = <<>> /\ stack' = <<>>
  /\ UNCHANGED wiring

BuildNext ==
  \/ \E n \in Nodes : AddAgain(n) \/ \E wires \in Wirings[n] : Add(n, wires)
  \/ Refuse \/ StartSort \/ TakeReady \/ EndSort \/ Visit \/ Return \/ RaiseCycle

BuildSpec == BuildInit /\ [][BuildNext]_graphVars

-----------------------------------------------------------------------------
(* The passes over the order *)

(* One pass that collects what is marked by itself, and what has an upstream  *)
(* collected so far unless it stops the mark.                                 *)
OnePass(marked, stops) ==
  LET Collects(n, S) == n \in marked \/ (n \notin stops /\ UpstreamsOf(n) \cap S # {})
      pass[i \in 0 .. Len(order)] ==
        IF i = 0 THEN {}
        ELSE pass[i - 1] \cup {n \in {order[i]} : Collects(n, pass[i - 1])}
  IN pass[Len(order)]

TaintedPass == OnePass({n \in Added : Kind[n] = "stochastic"}, {})

CacheUnsafePass == OnePass({n \in Added : Kind[n] \in {"resident", "stochastic"}}, {})

(* Mutant of ContentBearingPass: content is passed on once, not further.      *)
DirectBearingPass ==
  OnePass({n \in Added : \/ ContentBearing[n]
                         \/ ~Declassifies[n] /\ \E u \in UpstreamsOf(n) : ContentBearing[u]},
          Added)

ContentBearingPass ==
  OnePass({n \in Added : ContentBearing[n]}, {n \in Added : Declassifies[n]})

-----------------------------------------------------------------------------
Plan == INSTANCE GraphPlan WITH
  Nodes <- Added, Upstreams <- [n \in Added |-> UpstreamsOf(n)],
  Kind <- [n \in Added |-> Kind[n]], ContentBearing <- [n \in Added |-> ContentBearing[n]],
  Declassifies <- [n \in Added |-> Declassifies[n]]

(* The order is the one of the least id first: at every position stands the   *)
(* least node whose upstreams have all been before, and validated is the      *)
(* graph that has such an order of all its nodes.  The cycle an error names   *)
(* is one: each node waits for the next, and the last for the first           *)
(* (graph.py:165-210).                                                        *)
OrderExact ==
  /\ stage \in {"sorting", "validated"} =>
       \A i \in DOMAIN order :
         LET before == ToSet(SubSeq(order, 1, i - 1))
         IN order[i] = Min({n \in Added \ before : UpstreamsOf(n) \subseteq before})
  /\ stage = "validated" => Added = ToSet(order) /\ PortFaults = {}
  /\ outcome = "cycle" =>
       cycle # <<>> /\ \A i \in DOMAIN cycle :
         (IF i = Len(cycle) THEN cycle[1] ELSE cycle[i + 1]) \in UpstreamsOf(cycle[i])

(* What one pass over the order collects is the whole closure: no node is     *)
(* left out because it came before what makes it tainted, cache-unsafe or     *)
(* content-bearing, and a validated graph is one without a cycle, as module   *)
(* GraphPlan assumes (graph.py:251-318).                                      *)
ClosuresExact ==
  stage = "validated" =>
    /\ \A S \in SUBSET Added : S # {} => \E n \in S : UpstreamsOf(n) \cap S = {}
    /\ TaintedPass = Plan!TaintedNodes
    /\ CacheUnsafePass = Plan!CacheUnsafeNodes
    /\ ContentBearingPass = Plan!ContentBearingNodes
=============================================================================
