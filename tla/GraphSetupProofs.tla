--------------------------- MODULE GraphSetupProofs ----------------------------
(* What precedes a run.  For any graph over finitely many nodes: the order of *)
(* _topological_order is the one of the least id first, a graph is validated  *)
(* exactly when it has one, the cycle an error names is one, and each pass    *)
(* over the order collects the least set its rule allows, however the nodes   *)
(* were added.  And for values of any type and nesting: the bytes a value is  *)
(* hashed from tell what it says, and a cache key the config and the wiring.  *)
EXTENDS GraphSetup, ListLemmas

UpTo(k) == {order[j] : j \in 1 .. k}

(* The nodes that may come next when S has been.                              *)
Free(S) == {n \in Added \ S : UpstreamsOf(n) \subseteq S}

Wired ==
  /\ Added \subseteq Nodes
  /\ stage \in {"open", "sorting", "walking", "validated"}
  /\ stage # "open" => PortFaults = {} /\ outcome # "cycle"

Ordered ==
  /\ order \in Seq(Added)
  /\ \A i, j \in DOMAIN order : order[i] = order[j] => i = j
  /\ \A i \in DOMAIN order : /\ order[i] \in Free(UpTo(i - 1))
                             /\ order[i] = Min(Free(UpTo(i - 1)))

(* What is counted of a node are the upstreams that are still to come.        *)
Counted ==
  /\ indegree = [n \in Added |-> Cardinality(UpstreamsOf(n) \ ToSet(order))]
  /\ ready = Free(ToSet(order))

(* Nodes that wait for each other.                                            *)
Stuck(S) == S # {} /\ \A n \in S : UpstreamsOf(n) \cap S # {}

Sorting ==
  stage # "open" =>
    /\ Ordered
    /\ stage = "sorting" => Counted
    /\ stage = "walking" => \E S \in SUBSET Added : Stuck(S)
    /\ stage = "validated" => ToSet(order) = Added

Walked == {n \in Added : state[n] = 2}

(* The stack is a path of the nodes that are visited and not yet returned     *)
(* from, and no nodes that were returned from wait for each other.            *)
Walking ==
  stage = "walking" =>
    /\ state \in [Added -> 0 .. 2]
    /\ stack \in Seq(Added)
    /\ \A i, j \in DOMAIN stack : stack[i] = stack[j] => i = j
    /\ \A n \in Added : state[n] = 1 <=> \E i \in DOMAIN stack : stack[i] = n
    /\ \A i \in DOMAIN stack : i + 1 \in DOMAIN stack => stack[i + 1] \in UpstreamsOf(stack[i])
    /\ \A n \in Walked : UpstreamsOf(n) \subseteq Walked
    /\ \A S \in SUBSET Walked : ~Stuck(S)

IsCycle(c) ==
  /\ c # <<>>
  /\ \A i \in DOMAIN c : (IF i = Len(c) THEN c[1] ELSE c[i + 1]) \in UpstreamsOf(c[i])

Named == outcome = "cycle" => stage = "open" /\ IsCycle(cycle)

BuildInv == Wired /\ Sorting /\ Walking /\ Named

-----------------------------------------------------------------------------
LEMMA LeastOf ==
  ASSUME NEW T \in SUBSET Nat, T # {}
  PROVE  Min(T) \in T /\ \A n \in T : Min(T) =< n
<1>1. PICK n \in T : \A m \in T : ~(<<m, n>> \in OpToRel(<, Nat))
  BY NatLessThanWellFounded, WFMin
<1>2. \A m \in T : ~(m < n)
  BY <1>1 DEF OpToRel
<1>3. \A m \in T : n =< m
  BY <1>2
<1>4. QED
  BY <1>3 DEF Min

LEMMA AddedFinite ==
  ASSUME Wired
  PROVE  Added \subseteq Nat /\ IsFiniteSet(Added)
BY BuildAssumption, FS_Subset DEF Wired

(* Ports that pass the check are wired to nodes of the graph.                 *)
LEMMA PortsWired ==
  ASSUME PortFaults = {}, NEW n \in Added
  PROVE  UpstreamsOf(n) \subseteq Added
<1>1. DOMAIN wiring[n] \subseteq DOMAIN Inputs[n]
  <2> SUFFICES ASSUME NEW port \in DOMAIN wiring[n] \ DOMAIN Inputs[n] PROVE FALSE
    OBVIOUS
  <2>1. "unknown port" \in FaultsOf(n)
    BY DEF FaultsOf
  <2>2. QED
    BY <2>1 DEF PortFaults
<1>2. ASSUME NEW port \in DOMAIN wiring[n], wiring[n][port] \notin Added
      PROVE  FALSE
  <2>1. port \in {p \in DOMAIN Inputs[n] \cap DOMAIN wiring[n] :
                    wiring[n][p] \notin Added
                      \/ ~TypesCompatible(Output[wiring[n][p]], Inputs[n][p])}
    BY <1>1, <1>2
  <2>2. "unknown node" \in FaultsOf(n)
    BY <1>2, <2>1 DEF FaultsOf
  <2>3. QED
    BY <2>2 DEF PortFaults
<1>3. QED
  BY <1>2 DEF UpstreamsOf, Range

LEMMA NoCycleFault == "cycle" \notin PortFaults
BY DEF PortFaults, FaultsOf

LEMMA SeqSet ==
  ASSUME NEW s \in Seq(Added)
  PROVE  /\ Len(s) \in Nat /\ DOMAIN s = 1 .. Len(s)
         /\ \A i \in DOMAIN s : s[i] \in Added
         /\ ToSet(s) \subseteq Added
<1>1. Len(s) \in Nat /\ DOMAIN s = 1 .. Len(s)
  BY LenProperties
<1>2. \A i \in 1 .. Len(s) : s[i] \in Added
  BY ElementOfSeq
<1>3. QED
  BY <1>1, <1>2 DEF ToSet

(* A stretch of a sequence of nodes.                                          *)
LEMMA Stretch ==
  ASSUME NEW s \in Seq(Added), NEW m \in Nat \ {0}, NEW n \in Nat, n =< Len(s), m =< n + 1
  PROVE  LET t == SubSeq(s, m, n) IN
         /\ t \in Seq(Added) /\ Len(t) = n - m + 1 /\ DOMAIN t = 1 .. n - m + 1
         /\ \A i \in DOMAIN t : t[i] = s[m + i - 1] /\ m + i - 1 \in DOMAIN s
<1> DEFINE t == SubSeq(s, m, n)
<1>1. /\ Len(s) \in Nat /\ DOMAIN s = 1 .. Len(s)
      /\ \A i \in m .. n : s[i] \in Added
  BY SeqSet
<1>2. /\ t \in Seq(Added) /\ Len(t) = n - m + 1
      /\ \A i \in 1 .. n - m + 1 : t[i] = s[m + i - 1]
  <2>1. /\ t \in Seq(Added)
        /\ Len(t) = IF m <= n THEN n - m + 1 ELSE 0
        /\ \A i \in 1 .. n - m + 1 : t[i] = s[m + i - 1]
    BY <1>1, SubSeqProperties
  <2>2. QED
    BY <2>1
<1> HIDE DEF t
<1>3. DOMAIN t = 1 .. n - m + 1
  BY <1>2, SeqSet
<1>4. \A i \in 1 .. n - m + 1 : m + i - 1 \in 1 .. Len(s)
  BY <1>1
<1>5. QED
  BY <1>1, <1>2, <1>3, <1>4 DEF t

LEMMA PrefixSet ==
  ASSUME order \in Seq(Added)
  PROVE  /\ UpTo(Len(order)) = ToSet(order)
         /\ \A i \in DOMAIN order : ToSet(SubSeq(order, 1, i - 1)) = UpTo(i - 1)
<1>1. Len(order) \in Nat /\ DOMAIN order = 1 .. Len(order)
  BY SeqSet
<1>2. UpTo(Len(order)) = ToSet(order)
  BY <1>1 DEF UpTo, ToSet
<1>3. ASSUME NEW i \in DOMAIN order
      PROVE  ToSet(SubSeq(order, 1, i - 1)) = UpTo(i - 1)
  <2> DEFINE t == SubSeq(order, 1, i - 1)
  <2>1. i - 1 \in Nat /\ i - 1 =< Len(order)
    BY <1>1, <1>3
  <2>2. DOMAIN t = 1 .. (i - 1) - 1 + 1 /\ \A j \in DOMAIN t : t[j] = order[1 + j - 1]
    BY <2>1, Stretch
  <2> HIDE DEF t
  <2>3. DOMAIN t = 1 .. i - 1 /\ \A j \in 1 .. i - 1 : t[j] = order[j]
    BY <2>1, <2>2
  <2>4. ToSet(t) = UpTo(i - 1)
    BY <2>3 DEF ToSet, UpTo
  <2>5. QED
    BY <2>4 DEF t
<1>4. QED
  BY <1>2, <1>3

(* One node more at the end of a sequence of nodes.                           *)
LEMMA Appended ==
  ASSUME NEW s \in Seq(Added), NEW n \in Added
  PROVE  LET t == Append(s, n) IN
         /\ t \in Seq(Added) /\ Len(t) = Len(s) + 1
         /\ DOMAIN t = DOMAIN s \cup {Len(s) + 1} /\ Len(s) + 1 \notin DOMAIN s
         /\ \A i \in DOMAIN s : t[i] = s[i]
         /\ t[Len(s) + 1] = n
         /\ ToSet(t) = ToSet(s) \cup {n}
<1> DEFINE t == Append(s, n)
<1>1. Len(s) \in Nat /\ DOMAIN s = 1 .. Len(s)
  BY SeqSet
<1>2. /\ t \in Seq(Added) /\ Len(t) = Len(s) + 1
      /\ \A i \in 1 .. Len(s) : t[i] = s[i]
      /\ t[Len(s) + 1] = n
  BY AppendProperties
<1> HIDE DEF t
<1>3. DOMAIN t = 1 .. Len(s) + 1
  BY <1>2, SeqSet
<1>4. DOMAIN t = DOMAIN s \cup {Len(s) + 1} /\ Len(s) + 1 \notin DOMAIN s
  BY <1>1, <1>3
<1>5. ToSet(t) = ToSet(s) \cup {n}
  BY <1>1, <1>2, <1>4 DEF ToSet
<1>6. QED
  BY <1>1, <1>2, <1>4, <1>5 DEF t

(* What depends on the wiring only.                                           *)
LEMMA SameWiring ==
  ASSUME wiring' = wiring
  PROVE  /\ Added' = Added /\ PortFaults' = PortFaults
         /\ \A n : UpstreamsOf(n)' = UpstreamsOf(n)
<1>1. Added' = Added
  BY DEF Added
<1>2. \A n : UpstreamsOf(n)' = UpstreamsOf(n)
  BY DEF UpstreamsOf
<1>3. \A n : FaultsOf(n)' = FaultsOf(n)
  BY <1>1 DEF FaultsOf
<1>4. PortFaults' = PortFaults
  BY <1>1, <1>3 DEF PortFaults
<1>5. QED
  BY <1>1, <1>2, <1>4

LEMMA OrderedKept ==
  ASSUME UNCHANGED <<wiring, order>>, Ordered
  PROVE  Ordered'
<1>1. /\ Added' = Added /\ order' = order
      /\ \A n : UpstreamsOf(n)' = UpstreamsOf(n)
  BY SameWiring
<1>2. \A k : Free(UpTo(k))' = Free(UpTo(k))
  BY <1>1 DEF Free, UpTo
<1>3. QED
  BY <1>1, <1>2 DEF Ordered

-----------------------------------------------------------------------------
LEMMA InitKeeps == BuildInit => BuildInv
BY DEF BuildInit, BuildInv, Wired, Sorting, Walking, Named, Added

(* Nothing happens but that a node is refused, or not even that.              *)
LEMMA NothingKeeps ==
  ASSUME BuildInv, outcome' \in {outcome, "duplicate"},
         UNCHANGED <<wiring, stage, indegree, ready, order, state, stack, cycle>>
  PROVE  BuildInv'
<1>1. /\ Added' = Added /\ PortFaults' = PortFaults
      /\ \A n : UpstreamsOf(n)' = UpstreamsOf(n)
  BY SameWiring
<1>2. Sorting'
  <2>1. Ordered => Ordered'
    BY OrderedKept
  <2>2. ToSet(order)' = ToSet(order) /\ Free(ToSet(order))' = Free(ToSet(order))
    BY <1>1 DEF Free
  <2>3. Counted => Counted'
    BY <1>1, <2>2 DEF Counted
  <2>4. QED
    BY <1>1, <2>1, <2>2, <2>3 DEF BuildInv, Sorting, Stuck
<1>3. Walking'
  <2>1. Walked' = Walked /\ \A S : Stuck(S)' <=> Stuck(S)
    BY <1>1 DEF Walked, Stuck
  <2>2. QED
    BY <1>1, <2>1 DEF BuildInv, Walking
<1>4. IsCycle(cycle)' <=> IsCycle(cycle)
  BY <1>1 DEF IsCycle
<1>5. QED
  BY <1>1, <1>2, <1>3, <1>4 DEF BuildInv, Wired, Named

LEMMA RefuseKeeps ==
  ASSUME BuildInv, Refuse
  PROVE  BuildInv'
<1>1. /\ UNCHANGED <<wiring, stage>> /\ stage = "open" /\ outcome' \in PortFaults
  BY DEF Refuse
<1>2. QED
  BY <1>1, NoCycleFault DEF BuildInv, Wired, Sorting, Walking, Named, Added

LEMMA AddKeeps ==
  ASSUME BuildInv, NEW n \in Nodes, \E wires \in Wirings[n] : Add(n, wires)
  PROVE  BuildInv'
<1>1. stage' = "open" /\ outcome' = "none" /\ Added' = Added \cup {n}
  BY DEF Add, Added
<1>2. QED
  BY <1>1 DEF BuildInv, Wired, Sorting, Walking, Named

LEMMA StartSortKeeps ==
  ASSUME BuildInv, StartSort
  PROVE  BuildInv'
<1>1. /\ wiring' = wiring /\ stage' = "sorting" /\ outcome' = "none"
      /\ PortFaults = {} /\ order' = <<>>
      /\ indegree' = [n \in Added |-> Cardinality(UpstreamsOf(n))]
      /\ ready' = {n \in Added : UpstreamsOf(n) = {}}
  BY DEF StartSort
<1>2. /\ Added' = Added /\ PortFaults' = PortFaults
      /\ \A n : UpstreamsOf(n)' = UpstreamsOf(n)
  BY <1>1, SameWiring
<1>3. ToSet(order)' = {} /\ order' \in Seq(Added)' /\ DOMAIN order' = {}
  BY <1>1 DEF ToSet
<1>4. Ordered'
  BY <1>3 DEF Ordered
<1>5. Counted'
  <2>1. \A n \in Added : UpstreamsOf(n) \ {} = UpstreamsOf(n)
    OBVIOUS
  <2>2. Free(ToSet(order))' = ready'
    BY <1>1, <1>2, <1>3 DEF Free
  <2>3. QED
    BY <1>1, <1>2, <1>3, <2>1, <2>2 DEF Counted
<1>6. QED
  BY <1>1, <1>2, <1>4, <1>5 DEF BuildInv, Wired, Sorting, Walking, Named

(* What has been is closed upwards.                                           *)
LEMMA SeenClosed ==
  ASSUME Ordered, NEW n \in ToSet(order)
  PROVE  UpstreamsOf(n) \subseteq ToSet(order)
<1>1. DOMAIN order = 1 .. Len(order) /\ Len(order) \in Nat
  BY SeqSet DEF Ordered
<1>2. PICK i \in DOMAIN order : n = order[i]
  BY DEF ToSet
<1>3. UpstreamsOf(n) \subseteq UpTo(i - 1)
  BY <1>2 DEF Ordered, Free
<1>4. i \in 1 .. Len(order)
  BY <1>1
<1>5. UpTo(i - 1) \subseteq ToSet(order)
  BY <1>1, <1>4 DEF UpTo, ToSet
<1>6. QED
  BY <1>3, <1>5

LEMMA TakeReadyKeeps ==
  ASSUME BuildInv, TakeReady
  PROVE  BuildInv'
<1> DEFINE m == Min(ready)
           Seen == ToSet(order)
           last == Len(order) + 1
<1>1. /\ Added \subseteq Nat /\ IsFiniteSet(Added)
      /\ \A n \in Added : UpstreamsOf(n) \subseteq Added
  BY AddedFinite, PortsWired DEF BuildInv, Wired, TakeReady
<1>2. Ordered /\ Counted /\ stage = "sorting"
  BY DEF BuildInv, Sorting, TakeReady
<1>3. m \in Free(Seen) /\ m = Min(Free(Seen)) /\ m \in Added \ Seen
  BY <1>1, <1>2, LeastOf DEF TakeReady, Counted, Free
<1>4. /\ UNCHANGED <<wiring, stage, outcome, state, stack, cycle>>
      /\ order' = Append(order, m)
      /\ indegree' = [n \in Added |-> IF n \in DependentsOf(m) THEN indegree[n] - 1
                                      ELSE indegree[n]]
      /\ ready' = (ready \ {m}) \cup {n \in DependentsOf(m) : indegree'[n] = 0}
  BY DEF TakeReady, walkVars
<1> HIDE DEF m
<1>5. /\ Added' = Added /\ PortFaults' = PortFaults
      /\ \A n : UpstreamsOf(n)' = UpstreamsOf(n)
  BY <1>4, SameWiring
<1>6. /\ order' \in Seq(Added)
      /\ DOMAIN order' = DOMAIN order \cup {last} /\ last \notin DOMAIN order
      /\ \A i \in DOMAIN order : order'[i] = order[i]
      /\ order'[last] = m
      /\ ToSet(order') = Seen \cup {m}
  BY <1>2, <1>3, <1>4, Appended DEF Ordered
<1>7. DOMAIN order = 1 .. Len(order) /\ Len(order) \in Nat
  BY <1>2, SeqSet DEF Ordered
<1>8. Ordered'
  <2>1. \A i, j \in DOMAIN order' : order'[i] = order'[j] => i = j
    BY <1>2, <1>3, <1>6 DEF Ordered, ToSet
  <2>2. \A i : i = last => UpTo(i - 1)' = Seen
    BY <1>6, <1>7 DEF UpTo, ToSet
  <2>3. ASSUME NEW i \in DOMAIN order
        PROVE  UpTo(i - 1)' = UpTo(i - 1)
    BY <1>6, <1>7, <2>3 DEF UpTo
  <2>4. \A S : Free(S)' = Free(S)
    BY <1>5 DEF Free
  <2>5. ASSUME NEW i \in DOMAIN order'
        PROVE  order'[i] \in Free(UpTo(i - 1))' /\ order'[i] = Min(Free(UpTo(i - 1))')
    <3>1. CASE i = last
      <4>1. Free(UpTo(i - 1))' = Free(Seen)
        BY <3>1, <2>2, <1>5 DEF Free
      <4>2. QED
        BY <1>3, <1>6, <3>1, <4>1
    <3>2. CASE i \in DOMAIN order
      <4>1. Free(UpTo(i - 1))' = Free(UpTo(i - 1))
        BY <3>2, <2>3, <1>5 DEF Free
      <4>2. QED
        BY <1>2, <1>6, <3>2, <4>1 DEF Ordered
    <3>3. QED
      BY <1>6, <2>5, <3>1, <3>2
  <2>6. QED
    BY <1>5, <1>6, <2>1, <2>5 DEF Ordered
<1>9. Counted'
  <2>1. ASSUME NEW n \in Added
        PROVE  indegree'[n] = Cardinality(UpstreamsOf(n) \ (Seen \cup {m}))
    <3> DEFINE U == UpstreamsOf(n) \ Seen
    <3>1. IsFiniteSet(U) /\ Cardinality(U) \in Nat
      BY <1>1, FS_Subset, FS_CardinalityType
    <3>2. n \in DependentsOf(m) <=> m \in U
      BY <1>3 DEF DependentsOf
    <3>3. indegree[n] = Cardinality(U)
      BY <1>2 DEF Counted
    <3>4. UpstreamsOf(n) \ (Seen \cup {m}) = U \ {m}
      OBVIOUS
    <3> HIDE DEF U
    <3>5. m \in U => Cardinality(U \ {m}) = Cardinality(U) - 1
      BY <3>1, FS_RemoveElement
    <3>6. m \notin U => U \ {m} = U
      OBVIOUS
    <3>7. QED
      BY <1>4, <3>2, <3>3, <3>4, <3>5, <3>6
  <2>2. ASSUME NEW n \in Added
        PROVE  indegree'[n] = 0 <=> UpstreamsOf(n) \subseteq Seen \cup {m}
    <3>1. IsFiniteSet(UpstreamsOf(n) \ (Seen \cup {m}))
      BY <1>1, FS_Subset
    <3>2. QED
      BY <2>1, <3>1, FS_EmptySet
  <2>3. Free(Seen \cup {m}) = (ready \ {m}) \cup {n \in DependentsOf(m) : indegree'[n] = 0}
    <3>1. ready = Free(Seen)
      BY <1>2 DEF Counted
    <3>2. \A n \in Added : n \in DependentsOf(m) <=> m \in UpstreamsOf(n)
      BY DEF DependentsOf
    <3>3. \A n \in Seen : m \notin UpstreamsOf(n)
      BY <1>2, <1>3, SeenClosed
    <3>4. m \notin UpstreamsOf(m)
      BY <1>3 DEF Free
    <3>5. DependentsOf(m) \subseteq Added
      BY DEF DependentsOf
    <3>6. QED
      BY <2>2, <3>1, <3>2, <3>3, <3>4, <3>5 DEF Free
  <2>4. Free(ToSet(order))' = Free(Seen \cup {m})
    BY <1>5, <1>6 DEF Free
  <2>5. indegree' = [n \in Added |-> Cardinality(UpstreamsOf(n) \ (Seen \cup {m}))]
    BY <1>4, <2>1
  <2>6. QED
    BY <1>4, <1>5, <1>6, <2>3, <2>4, <2>5 DEF Counted
<1>10. QED
  BY <1>2, <1>4, <1>5, <1>8, <1>9 DEF BuildInv, Wired, Sorting, Walking, Named

(* An order of as many nodes as there are is one of all of them.              *)
LEMMA OrderOfAll ==
  ASSUME Wired, Ordered
  PROVE  /\ ToSet(order) \subseteq Added
         /\ Len(order) = Cardinality(Added) <=> ToSet(order) = Added
<1> DEFINE D == ToSet(order)
<1>1. /\ Len(order) \in Nat /\ DOMAIN order = 1 .. Len(order) /\ D \subseteq Added
      /\ \A i \in DOMAIN order : order[i] \in Added
  BY SeqSet DEF Ordered
<1>2. IsFiniteSet(Added)
  BY AddedFinite
<1>3. order \in [1 .. Len(order) -> D]
  BY <1>1 DEF Ordered, ToSet
<1>4. order \in Bijection(1 .. Len(order), D)
  BY <1>1, <1>3 DEF Ordered, ToSet, Bijection, Injection, IsInjective, Surjection
<1>5. IsFiniteSet(1 .. Len(order)) /\ Cardinality(1 .. Len(order)) = Len(order)
  <2>1. Cardinality(1 .. Len(order)) = IF 1 > Len(order) THEN 0 ELSE Len(order) - 1 + 1
    BY <1>1, FS_Interval
  <2>2. QED
    BY <1>1, <2>1, FS_Interval
<1> HIDE DEF D
<1>6. Cardinality(D) = Len(order)
  BY <1>4, <1>5, FS_Bijection DEF ExistsBijection
<1>7. Cardinality(D) = Cardinality(Added) <=> D = Added
  BY <1>1, <1>2, FS_Subset
<1>8. QED
  BY <1>1, <1>6, <1>7 DEF D

LEMMA EndSortKeeps ==
  ASSUME BuildInv, EndSort
  PROVE  BuildInv'
<1>1. Wired /\ Ordered /\ Counted /\ stage = "sorting" /\ ready = {}
  BY DEF BuildInv, Sorting, EndSort
<1>2. /\ UNCHANGED <<wiring, outcome, indegree, ready, order>>
      /\ stage' \in {"validated", "walking"}
      /\ stage' = "validated" <=> Len(order) = Cardinality(Added)
      /\ stage' = "walking" => state' = [n \in Added |-> 0] /\ stack' = <<>>
  BY DEF EndSort, sortVars
<1>3. /\ Added' = Added /\ PortFaults' = PortFaults
      /\ \A n : UpstreamsOf(n)' = UpstreamsOf(n)
  BY <1>2, SameWiring
<1>4. Wired'
  BY <1>1, <1>2, <1>3 DEF Wired
<1>5. Sorting'
  <2>1. Ordered'
    BY <1>1, <1>2, OrderedKept
  <2>2. stage' = "validated" => ToSet(order)' = Added'
    BY <1>1, <1>2, <1>3, OrderOfAll
  <2>3. stage' = "walking" => \E S \in SUBSET Added : Stuck(S)
    <3> DEFINE S == Added \ ToSet(order)
    <3>1. stage' = "walking" => S # {}
      BY <1>1, <1>2, OrderOfAll
    <3>2. ASSUME NEW n \in S
          PROVE  UpstreamsOf(n) \cap S # {}
      <4>1. Free(ToSet(order)) = {}
        BY <1>1 DEF Counted
      <4>2. ~(UpstreamsOf(n) \subseteq ToSet(order))
        BY <4>1 DEF Free
      <4>3. UpstreamsOf(n) \subseteq Added
        BY <1>1, PortsWired DEF Wired
      <4>4. QED
        BY <4>2, <4>3
    <3>3. QED
      BY <3>1, <3>2 DEF Stuck
  <2>4. \A S : Stuck(S)' <=> Stuck(S)
    BY <1>3 DEF Stuck
  <2>5. stage' = "walking" => \E S \in SUBSET Added' : Stuck(S)'
    BY <1>3, <2>3 DEF Stuck
  <2>6. QED
    BY <1>2, <2>1, <2>2, <2>5 DEF Sorting
<1>6. Walking'
  <2> SUFFICES ASSUME stage' = "walking" PROVE Walking'
    BY DEF Walking
  <2>1. state' = [n \in Added |-> 0] /\ stack' = <<>>
    BY <1>2
  <2>2. Walked' = {}
    BY <1>3, <2>1 DEF Walked
  <2>3. stack' \in Seq(Added') /\ DOMAIN stack' = {}
    BY <2>1
  <2>4. QED
    BY <1>3, <2>1, <2>2, <2>3 DEF Walking, Stuck
<1>7. Named'
  BY <1>1, <1>2 DEF Wired, Named
<1>8. QED
  BY <1>4, <1>5, <1>6, <1>7 DEF BuildInv

-----------------------------------------------------------------------------
(* What a step of the walk leaves alone.                                      *)
LEMMA WalkKeeps ==
  ASSUME BuildInv, stage = "walking", UNCHANGED <<wiring, stage, outcome, order, cycle>>
  PROVE  Wired' /\ Sorting' /\ Named'
<1>1. /\ Added' = Added /\ PortFaults' = PortFaults
      /\ \A n : UpstreamsOf(n)' = UpstreamsOf(n)
  BY SameWiring
<1>2. Ordered'
  BY OrderedKept DEF BuildInv, Sorting
<1>3. \E S \in SUBSET Added' : Stuck(S)'
  BY <1>1 DEF BuildInv, Sorting, Stuck
<1>4. QED
  BY <1>1, <1>2, <1>3 DEF BuildInv, Wired, Sorting, Named

(* The node the walk goes to next, or meets.                                  *)
LEMMA NextNode ==
  ASSUME BuildInv, stage = "walking", Unfinished # {}
  PROVE  /\ Min(Unfinished) \in Added /\ Min(Unfinished) \in Unfinished
         /\ stack # <<>> => /\ Len(stack) \in DOMAIN stack
                            /\ Last(stack) \in Added
                            /\ Min(Unfinished) \in UpstreamsOf(Last(stack))
<1>1. /\ Added \subseteq Nat
      /\ \A n \in Added : UpstreamsOf(n) \subseteq Added
  BY AddedFinite, PortsWired DEF BuildInv, Wired
<1>2. stack # <<>> => Len(stack) \in DOMAIN stack /\ Last(stack) \in Added
  <2>1. stack \in Seq(Added)
    BY DEF BuildInv, Walking
  <2>2. Len(stack) \in Nat /\ DOMAIN stack = 1 .. Len(stack)
        /\ \A i \in DOMAIN stack : stack[i] \in Added
    BY <2>1, SeqSet
  <2>3. stack # <<>> => Len(stack) # 0
    BY <2>1, EmptySeq
  <2>4. QED
    BY <2>2, <2>3 DEF Last
<1>3. Unfinished \subseteq Added
  BY <1>1, <1>2 DEF Unfinished
<1>4. Min(Unfinished) \in Unfinished
  BY <1>1, <1>3, LeastOf
<1>5. stack # <<>> => Min(Unfinished) \in UpstreamsOf(Last(stack))
  BY <1>4 DEF Unfinished
<1>6. QED
  BY <1>2, <1>3, <1>4, <1>5

LEMMA VisitKeeps ==
  ASSUME BuildInv, Visit
  PROVE  BuildInv'
<1> DEFINE m == Min(Unfinished)
           last == Len(stack) + 1
<1>1. /\ stage = "walking" /\ m \in Added /\ state[m] = 0
      /\ stack # <<>> => Len(stack) \in DOMAIN stack /\ m \in UpstreamsOf(stack[Len(stack)])
      /\ UNCHANGED <<wiring, stage, outcome, order, cycle>>
      /\ state' = [state EXCEPT ![m] = 1]
      /\ stack' = Append(stack, m)
  BY NextNode DEF Visit, sortVars, Last
<1> HIDE DEF m
<1>2. Wired' /\ Sorting' /\ Named'
  BY <1>1, WalkKeeps
<1>3. /\ Added' = Added /\ \A n : UpstreamsOf(n)' = UpstreamsOf(n)
  BY <1>1, SameWiring
<1>4. stack \in Seq(Added) /\ state \in [Added -> 0 .. 2]
  BY <1>1 DEF BuildInv, Walking
<1>5. /\ stack' \in Seq(Added)
      /\ DOMAIN stack' = DOMAIN stack \cup {last} /\ last \notin DOMAIN stack
      /\ \A i \in DOMAIN stack : stack'[i] = stack[i]
      /\ stack'[last] = m
  BY <1>1, <1>4, Appended
<1>6. DOMAIN stack = 1 .. Len(stack) /\ Len(stack) \in Nat
  BY <1>4, SeqSet
<1>7. \A i \in DOMAIN stack : stack[i] # m
  BY <1>1 DEF BuildInv, Walking
<1>8. Walked' = Walked
  BY <1>1, <1>3, <1>4 DEF Walked
<1>9. /\ state' \in [Added -> 0 .. 2]
      /\ \A i, j \in DOMAIN stack' : stack'[i] = stack'[j] => i = j
      /\ \A n \in Added : state'[n] = 1 <=> \E i \in DOMAIN stack' : stack'[i] = n
  <2>1. state' \in [Added -> 0 .. 2]
    BY <1>1, <1>4
  <2>2. \A i, j \in DOMAIN stack' : stack'[i] = stack'[j] => i = j
    BY <1>1, <1>5, <1>7 DEF BuildInv, Walking
  <2>3. \A n \in Added : state[n] = 1 <=> \E i \in DOMAIN stack : stack[i] = n
    BY <1>1 DEF BuildInv, Walking
  <2>4. \A n \in Added : state'[n] = 1 <=> n = m \/ state[n] = 1
    BY <1>1, <1>4
  <2>5. \A n \in Added : (\E i \in DOMAIN stack' : stack'[i] = n)
                           <=> n = m \/ \E i \in DOMAIN stack : stack[i] = n
    BY <1>5
  <2>6. QED
    BY <2>1, <2>2, <2>3, <2>4, <2>5
<1>10. \A i \in DOMAIN stack' : i + 1 \in DOMAIN stack' => stack'[i + 1] \in UpstreamsOf(stack'[i])
  <2> SUFFICES ASSUME NEW i \in DOMAIN stack', i + 1 \in DOMAIN stack'
               PROVE  stack'[i + 1] \in UpstreamsOf(stack'[i])
    OBVIOUS
  <2>1. CASE i + 1 = last
    <3>1. i = Len(stack) /\ i \in DOMAIN stack
      BY <1>5, <1>6, <2>1
    <3>2. stack # <<>>
      BY <3>1
    <3>3. QED
      BY <1>1, <1>5, <2>1, <3>1, <3>2
  <2>2. CASE i + 1 \in DOMAIN stack
    <3>1. i \in DOMAIN stack
      BY <1>5, <1>6, <2>2
    <3>2. QED
      BY <1>1, <1>5, <2>2, <3>1 DEF BuildInv, Walking
  <2>3. QED
    BY <1>5, <2>1, <2>2
<1>11. Walking'
  <2>1. /\ \A n \in Walked : UpstreamsOf(n) \subseteq Walked
        /\ \A S \in SUBSET Walked : ~Stuck(S)
    BY <1>1 DEF BuildInv, Walking
  <2>2. \A S \in SUBSET Walked' : ~Stuck(S)'
    BY <1>3, <1>8, <2>1 DEF Stuck
  <2>3. QED
    BY <1>3, <1>5, <1>8, <1>9, <1>10, <2>1, <2>2 DEF Walking
<1>12. QED
  BY <1>2, <1>11 DEF BuildInv

(* No set of nodes that were returned from is stuck: the last one's upstreams *)
(* were all returned from before it.                                          *)
LEMMA ReturnKeeps ==
  ASSUME BuildInv, Return
  PROVE  BuildInv'
<1> DEFINE k == Len(stack)
           m == stack[k]
<1>1. /\ stage = "walking" /\ stack # <<>> /\ Unfinished = {}
      /\ UNCHANGED <<wiring, stage, outcome, order, cycle>>
      /\ state' = [state EXCEPT ![m] = 2]
      /\ stack' = SubSeq(stack, 1, k - 1)
  BY DEF Return, sortVars, Last, Front
<1>2. Wired' /\ Sorting' /\ Named'
  BY <1>1, WalkKeeps
<1>3. /\ Added' = Added /\ \A n : UpstreamsOf(n)' = UpstreamsOf(n)
  BY <1>1, SameWiring
<1>4. stack \in Seq(Added) /\ state \in [Added -> 0 .. 2]
  BY <1>1 DEF BuildInv, Walking
<1>5. /\ k \in Nat /\ k # 0 /\ DOMAIN stack = 1 .. k
      /\ k \in DOMAIN stack /\ m \in Added
  <2>1. k \in Nat /\ DOMAIN stack = 1 .. k /\ \A i \in DOMAIN stack : stack[i] \in Added
    BY <1>4, SeqSet
  <2>2. k # 0
    BY <1>1, <1>4, EmptySeq
  <2>3. QED
    BY <2>1, <2>2
<1>6. /\ stack' \in Seq(Added) /\ DOMAIN stack' = 1 .. k - 1
      /\ \A i \in 1 .. k - 1 : stack'[i] = stack[i]
  <2>1. k - 1 \in Nat /\ k - 1 =< k
    BY <1>5
  <2>2. /\ stack' \in Seq(Added) /\ DOMAIN stack' = 1 .. (k - 1) - 1 + 1
        /\ \A i \in DOMAIN stack' : stack'[i] = stack[1 + i - 1]
    BY <1>1, <1>4, <2>1, Stretch
  <2>3. QED
    BY <1>5, <2>2
<1>7. DOMAIN stack' \subseteq DOMAIN stack /\ DOMAIN stack = DOMAIN stack' \cup {k}
      /\ k \notin DOMAIN stack'
  BY <1>5, <1>6
<1>8. state[m] = 1
  BY <1>1, <1>5 DEF BuildInv, Walking
<1>9. UpstreamsOf(m) \subseteq Walked /\ m \notin Walked /\ m \in Added
  <2>1. \A u \in UpstreamsOf(m) : state[u] = 2
    BY <1>1 DEF Unfinished, Last
  <2>2. UpstreamsOf(m) \subseteq Added
    BY <1>1, <1>5, PortsWired DEF BuildInv, Wired
  <2>3. QED
    BY <1>5, <1>8, <2>1, <2>2 DEF Walked
<1>10. /\ state' \in [Added -> 0 .. 2]
       /\ \A i, j \in DOMAIN stack' : stack'[i] = stack'[j] => i = j
       /\ \A n \in Added : state'[n] = 1 <=> \E i \in DOMAIN stack' : stack'[i] = n
       /\ \A i \in DOMAIN stack' :
            i + 1 \in DOMAIN stack' => stack'[i + 1] \in UpstreamsOf(stack'[i])
  <2>1. state' \in [Added -> 0 .. 2]
    BY <1>1, <1>4
  <2>2. \A i, j \in DOMAIN stack : stack[i] = stack[j] => i = j
    BY <1>1 DEF BuildInv, Walking
  <2>3. \A n \in Added : state[n] = 1 <=> \E i \in DOMAIN stack : stack[i] = n
    BY <1>1 DEF BuildInv, Walking
  <2>4. \A n \in Added : state'[n] = 1 <=> n # m /\ state[n] = 1
    BY <1>1, <1>4
  <2>5. \A n \in Added : (\E i \in DOMAIN stack' : stack'[i] = n)
                           <=> n # m /\ \E i \in DOMAIN stack : stack[i] = n
    BY <1>5, <1>6, <1>7, <2>2
  <2>6. \A i \in DOMAIN stack :
          i + 1 \in DOMAIN stack => stack[i + 1] \in UpstreamsOf(stack[i])
    BY <1>1 DEF BuildInv, Walking
  <2>7. \A i, j \in DOMAIN stack' : stack'[i] = stack'[j] => i = j
    BY <1>6, <1>7, <2>2
  <2>8. \A i \in DOMAIN stack' :
          i + 1 \in DOMAIN stack' => stack'[i + 1] \in UpstreamsOf(stack'[i])
    BY <1>6, <1>7, <2>6
  <2>9. QED
    BY <2>1, <2>3, <2>4, <2>5, <2>7, <2>8
<1> HIDE DEF m
<1>11. Walked' = Walked \cup {m}
  BY <1>1, <1>3, <1>4, <1>9 DEF Walked
<1>12. \A n \in Walked : UpstreamsOf(n) \subseteq Walked
  BY <1>1 DEF BuildInv, Walking
<1>13. ASSUME NEW S \in SUBSET (Walked \cup {m}), Stuck(S)
       PROVE  FALSE
  <2>1. \A T \in SUBSET Walked : ~Stuck(T)
    BY <1>1 DEF BuildInv, Walking
  <2>2. \A n \in S : UpstreamsOf(n) \cap (S \ {m}) # {}
    BY <1>9, <1>12, <1>13 DEF Stuck
  <2>3. Stuck(S \ {m})
    BY <1>13, <2>2 DEF Stuck
  <2>4. QED
    BY <2>1, <2>3
<1>14. Walking'
  <2>1. \A S \in SUBSET Walked' : ~Stuck(S)'
    BY <1>3, <1>11, <1>13 DEF Stuck
  <2>2. \A n \in Walked' : UpstreamsOf(n) \subseteq Walked'
    BY <1>9, <1>11, <1>12
  <2>3. QED
    BY <1>3, <1>6, <1>10, <2>1, <2>2 DEF Walking
<1>15. QED
  BY <1>2, <1>14 DEF BuildInv

(* The walk that starts because nodes wait for each other meets one of its    *)
(* own stack; it never comes to name all nodes.                               *)
LEMMA RaiseCycleKeeps ==
  ASSUME BuildInv, RaiseCycle
  PROVE  BuildInv'
<1> DEFINE m == Min(Unfinished)
           k == Len(stack)
           i == CHOOSE j \in DOMAIN stack : stack[j] = m
<1>1. /\ stage = "walking" /\ UNCHANGED wiring /\ stage' = "open" /\ outcome' = "cycle"
      /\ IF Unfinished = {} THEN stack = <<>> ELSE state[m] = 1
      /\ Unfinished # {} => cycle' = SubSeq(stack, i, k)
  BY DEF RaiseCycle
<1>2. /\ Added' = Added /\ \A n : UpstreamsOf(n)' = UpstreamsOf(n)
  BY <1>1, SameWiring
<1>3. /\ stack \in Seq(Added) /\ state \in [Added -> 0 .. 2]
      /\ \A n \in Added : state[n] = 1 <=> \E j \in DOMAIN stack : stack[j] = n
      /\ \A j \in DOMAIN stack :
           j + 1 \in DOMAIN stack => stack[j + 1] \in UpstreamsOf(stack[j])
      /\ \A S \in SUBSET Walked : ~Stuck(S)
  BY <1>1 DEF BuildInv, Walking
<1>4. Unfinished # {}
  <2> SUFFICES ASSUME Unfinished = {} PROVE FALSE
    OBVIOUS
  <2>1. stack = <<>> /\ \A n \in Added : state[n] # 0
    BY <1>1 DEF Unfinished
  <2>2. \A n \in Added : state[n] # 1
    BY <1>3, <2>1
  <2>3. \A n \in Added : state[n] = 2
    BY <1>3, <2>1, <2>2
  <2>4. Added \subseteq Walked
    BY <2>3 DEF Walked
  <2>5. \E S \in SUBSET Added : Stuck(S)
    BY <1>1 DEF BuildInv, Sorting
  <2>6. QED
    BY <1>3, <2>4, <2>5
<1>5. m \in Added /\ state[m] = 1 /\ (stack # <<>> => m \in UpstreamsOf(stack[k]))
  BY <1>1, <1>4, NextNode DEF Last
<1> HIDE DEF m
<1>6. i \in DOMAIN stack /\ stack[i] = m
  BY <1>3, <1>5
<1> HIDE DEF i
<1>7. k \in Nat /\ DOMAIN stack = 1 .. k
  BY <1>3, SeqSet
<1>8. m \in UpstreamsOf(stack[k])
  BY <1>5, <1>6
<1>9. /\ Len(cycle') = k - i + 1 /\ DOMAIN cycle' = 1 .. k - i + 1
      /\ \A j \in DOMAIN cycle' : cycle'[j] = stack[i + j - 1] /\ i + j - 1 \in DOMAIN stack
  <2>1. i \in Nat \ {0} /\ k \in Nat /\ k =< k /\ i =< k + 1
    BY <1>6, <1>7
  <2>2. cycle' = SubSeq(stack, i, k)
    BY <1>1, <1>4
  <2> HIDE DEF k
  <2>3. k =< Len(stack)
    BY <2>1 DEF k
  <2>4. QED
    BY <1>3, <2>1, <2>2, <2>3, Stretch
<1>10. IsCycle(cycle)'
  <2>1. cycle' # <<>>
    BY <1>6, <1>7, <1>9
  <2>2. ASSUME NEW j \in DOMAIN cycle'
        PROVE  (IF j = Len(cycle') THEN cycle'[1] ELSE cycle'[j + 1]) \in UpstreamsOf(cycle'[j])
    <3>1. CASE j = k - i + 1
      <4>1. cycle'[j] = stack[k] /\ cycle'[1] = stack[i]
        <5>1. i + j - 1 = k /\ i + 1 - 1 = i /\ 1 \in DOMAIN cycle'
          BY <1>6, <1>7, <1>9, <3>1
        <5>2. QED
          BY <1>9, <5>1
      <4>2. QED
        BY <1>6, <1>8, <1>9, <3>1, <4>1
    <3>2. CASE j # k - i + 1
      <4>1. /\ j + 1 \in DOMAIN cycle' /\ i + (j + 1) - 1 = (i + j - 1) + 1
            /\ i + j - 1 \in DOMAIN stack /\ (i + j - 1) + 1 \in DOMAIN stack
        BY <1>6, <1>7, <1>9, <3>2
      <4>2. cycle'[j + 1] = stack[(i + j - 1) + 1] /\ cycle'[j] = stack[i + j - 1]
        BY <1>9, <4>1
      <4>3. QED
        BY <1>3, <1>9, <3>2, <4>1, <4>2
    <3>3. QED
      BY <3>1, <3>2
  <2>3. QED
    BY <1>2, <2>1, <2>2 DEF IsCycle
<1>11. Wired'
  BY <1>1, <1>2 DEF BuildInv, Wired
<1>12. QED
  BY <1>1, <1>10, <1>11 DEF BuildInv, Sorting, Walking, Named

(* The inductive invariant of building.                                       *)
THEOREM BuildInvariant == BuildSpec => []BuildInv
<1>1. ASSUME BuildInv, UNCHANGED graphVars
      PROVE  BuildInv'
  BY <1>1, NothingKeeps DEF graphVars, sortVars, walkVars
<1>2. ASSUME BuildInv, BuildNext
      PROVE  BuildInv'
  <2>1. ASSUME NEW n \in Nodes, AddAgain(n)
        PROVE  BuildInv'
    BY <1>2, <2>1, NothingKeeps DEF AddAgain, sortVars, walkVars
  <2>2. QED
    BY <1>2, <2>1, AddKeeps, RefuseKeeps, StartSortKeeps, TakeReadyKeeps, EndSortKeeps,
       VisitKeeps, ReturnKeeps, RaiseCycleKeeps DEF BuildNext
<1>3. QED
  BY <1>1, <1>2, InitKeeps, PTL DEF BuildSpec

(* Whatever is added, in whatever order: the order is the one of the least id *)
(* first, only a graph without faults that has an order of all its nodes is   *)
(* validated, and a cycle that is named is one (graph.py:165-210).            *)
THEOREM OrderIsExact == BuildSpec => []OrderExact
<1>1. ASSUME BuildInv
      PROVE  OrderExact
  <2>1. ASSUME stage \in {"sorting", "validated"}, NEW j \in DOMAIN order
        PROVE  LET before == ToSet(SubSeq(order, 1, j - 1))
               IN order[j] = Min({n \in Added \ before : UpstreamsOf(n) \subseteq before})
    <3>1. Ordered
      BY <1>1, <2>1 DEF BuildInv, Sorting
    <3>2. ToSet(SubSeq(order, 1, j - 1)) = UpTo(j - 1)
      BY <2>1, <3>1, PrefixSet DEF Ordered
    <3>3. order[j] = Min(Free(UpTo(j - 1)))
      BY <2>1, <3>1 DEF Ordered
    <3>4. QED
      BY <3>2, <3>3 DEF Free
  <2>2. stage = "validated" => Added = ToSet(order) /\ PortFaults = {}
    BY <1>1 DEF BuildInv, Wired, Sorting
  <2>3. QED
    BY <1>1, <2>1, <2>2 DEF BuildInv, Named, IsCycle, OrderExact
<1>2. QED
  BY <1>1, BuildInvariant, PTL

-----------------------------------------------------------------------------
(* The rule of a pass, for node n when S has been collected.                  *)
Collects(marked, stops, S, n) ==
  n \in marked \/ (n \notin stops /\ UpstreamsOf(n) \cap S # {})

Extended(marked, stops, S, n) == S \cup {m \in {n} : Collects(marked, stops, S, m)}

(* What has been collected after each of the first k nodes of the order.      *)
IsPass(marked, stops, f, k) ==
  f = [i \in 0 .. k |-> IF i = 0 THEN {} ELSE Extended(marked, stops, f[i - 1], order[i])]

LEMMA OrderTyped ==
  ASSUME Ordered
  PROVE  /\ Len(order) \in Nat /\ DOMAIN order = 1 .. Len(order)
         /\ \A i \in 1 .. Len(order) : /\ order[i] \in Added \ UpTo(i - 1)
                                       /\ UpstreamsOf(order[i]) \subseteq UpTo(i - 1)
BY SeqSet DEF Ordered, Free

LEMMA PassSteps ==
  ASSUME NEW marked, NEW stops, NEW f, NEW k \in Nat, IsPass(marked, stops, f, k)
  PROVE  /\ f[0] = {}
         /\ \A i \in 1 .. k : f[i] = Extended(marked, stops, f[i - 1], order[i])
<1>1. 0 \in 0 .. k /\ \A i \in 1 .. k : i \in 0 .. k /\ i # 0
  OBVIOUS
<1>2. QED
  BY <1>1 DEF IsPass

(* A pass can be made, whatever it collects: there is no first node at which  *)
(* it could not go on.                                                        *)
LEMMA PassExists ==
  ASSUME NEW marked, NEW stops, NEW n \in Nat
  PROVE  \E f : IsPass(marked, stops, f, n)
<1> DEFINE T == {k \in Nat : ~ \E f : IsPass(marked, stops, f, k)}
<1>1. SUFFICES ASSUME T # {} PROVE FALSE
  OBVIOUS
<1>2. PICK k \in T : \A l \in T : k =< l
  BY <1>1, LeastOf
<1>3. k \in Nat /\ ~ \E f : IsPass(marked, stops, f, k)
  BY <1>2
<1>4. CASE k = 0
  <2> DEFINE f == [i \in 0 .. 0 |-> {}]
  <2>1. f = [i \in 0 .. 0 |-> IF i = 0 THEN {} ELSE Extended(marked, stops, f[i - 1], order[i])]
    OBVIOUS
  <2>2. IsPass(marked, stops, f, 0)
    BY <2>1 DEF IsPass
  <2>3. QED
    BY <1>3, <1>4, <2>2
<1>5. CASE k # 0
  <2>1. k - 1 \in Nat /\ ~(k =< k - 1)
    BY <1>3, <1>5
  <2>2. k - 1 \notin T
    BY <1>2, <2>1
  <2>3. PICK f : IsPass(marked, stops, f, k - 1)
    BY <2>1, <2>2
  <2>4. /\ f[0] = {}
        /\ \A i \in 1 .. k - 1 : f[i] = Extended(marked, stops, f[i - 1], order[i])
    BY <2>1, <2>3, PassSteps
  <2> DEFINE g == [i \in 0 .. k |-> IF i = k THEN Extended(marked, stops, f[k - 1], order[k])
                                    ELSE f[i]]
  <2>5. ASSUME NEW i \in 0 .. k
        PROVE  g[i] = IF i = 0 THEN {} ELSE Extended(marked, stops, g[i - 1], order[i])
    <3>1. CASE i = 0
      BY <1>5, <2>4, <3>1
    <3>2. CASE i # 0
      <4>1. i - 1 \in 0 .. k /\ i - 1 # k
        BY <1>3, <2>5, <3>2
      <4>2. g[i - 1] = f[i - 1]
        BY <4>1
      <4>3. g[i] = Extended(marked, stops, f[i - 1], order[i])
        <5>1. CASE i = k
          BY <5>1
        <5>2. CASE i # k
          <6>1. i \in 1 .. k - 1
            BY <1>3, <2>5, <3>2, <5>2
          <6>2. QED
            BY <2>4, <5>2, <6>1
        <5>3. QED
          BY <5>1, <5>2
      <4>4. QED
        BY <3>2, <4>2, <4>3
    <3>3. QED
      BY <3>1, <3>2
  <2>6. DOMAIN g = 0 .. k /\ g = [i \in 0 .. k |-> g[i]]
    OBVIOUS
  <2> HIDE DEF g
  <2>7. IsPass(marked, stops, g, k)
    BY <2>5, <2>6 DEF IsPass
  <2>8. QED
    BY <1>3, <2>7
<1>6. QED
  BY <1>4, <1>5

LEMMA PassIsOne ==
  ASSUME Ordered, NEW marked, NEW stops
  PROVE  \E f : /\ IsPass(marked, stops, f, Len(order))
                /\ OnePass(marked, stops) = f[Len(order)]
<1> DEFINE pass == CHOOSE f : IsPass(marked, stops, f, Len(order))
<1>1. OnePass(marked, stops) = pass[Len(order)]
  BY DEF OnePass, Extended, Collects, IsPass
<1>2. IsPass(marked, stops, pass, Len(order))
  BY OrderTyped, PassExists
<1> HIDE DEF pass
<1>3. QED
  BY <1>1, <1>2

(* The nodes before the one at i have been collected, or not, for good.       *)
LEMMA PassGrows ==
  ASSUME Ordered, NEW marked, NEW stops, NEW f, IsPass(marked, stops, f, Len(order)),
         NEW n \in 0 .. Len(order)
  PROVE  \A j \in 0 .. n : f[j] = f[n] \cap UpTo(j)
<1> DEFINE L == Len(order)
           Right(i) == \A j \in 0 .. i : f[j] = f[i] \cap UpTo(j)
           T == {i \in 0 .. L : ~Right(i)}
<1>1. /\ L \in Nat
      /\ \A i \in 1 .. L : order[i] \notin UpTo(i - 1)
  BY OrderTyped
<1>2. /\ f[0] = {}
      /\ \A i \in 1 .. L : f[i] = Extended(marked, stops, f[i - 1], order[i])
  BY <1>1, PassSteps
<1>3. SUFFICES ASSUME T # {} PROVE FALSE
  OBVIOUS
<1>4. T \subseteq Nat
  BY <1>1
<1> HIDE DEF Right
<1>5. PICK k \in T : \A l \in T : k =< l
  BY <1>3, <1>4, LeastOf
<1>6. k \in 0 .. L /\ ~Right(k)
  BY <1>5
<1>7. CASE k = 0
  <2>1. \A j \in 0 .. 0 : j = 0
    OBVIOUS
  <2>2. Right(0)
    BY <1>2, <2>1 DEF Right
  <2>3. QED
    BY <1>6, <1>7, <2>2
<1>8. CASE k # 0
  <2>1. k \in 1 .. L /\ k - 1 \in 0 .. L /\ ~(k =< k - 1) /\ k \in Nat
    BY <1>1, <1>6, <1>8
  <2>2. Right(k - 1)
    BY <1>5, <2>1
  <2>3. f[k] \ {order[k]} = f[k - 1] \ {order[k]} /\ f[k - 1] \subseteq f[k]
        /\ f[k] \subseteq f[k - 1] \cup {order[k]}
    BY <1>2, <2>1 DEF Extended
  <2>4. UpTo(k) = UpTo(k - 1) \cup {order[k]}
    BY <2>1 DEF UpTo
  <2>5. ASSUME NEW j \in 0 .. k - 1
        PROVE  f[j] = f[k] \cap UpTo(j)
    <3>1. UpTo(j) \subseteq UpTo(k - 1)
      BY <2>1, <2>5 DEF UpTo
    <3>2. order[k] \notin UpTo(j)
      BY <1>1, <2>1, <3>1
    <3>3. f[j] = f[k - 1] \cap UpTo(j)
      BY <2>2, <2>5 DEF Right
    <3>4. QED
      BY <2>3, <3>2, <3>3
  <2>6. f[k] = f[k] \cap UpTo(k)
    <3>1. f[k - 1] = f[k - 1] \cap UpTo(k - 1)
      BY <2>1, <2>2 DEF Right
    <3>2. QED
      BY <2>3, <2>4, <3>1
  <2>7. \A j \in 0 .. k : j = k \/ j \in 0 .. k - 1
    BY <2>1
  <2>8. Right(k)
    BY <2>5, <2>6, <2>7 DEF Right
  <2>9. QED
    BY <1>6, <2>8
<1>9. QED
  BY <1>7, <1>8

(* One pass is enough: with all that is collected in the end, its rule        *)
(* collects the same nodes.                                                   *)
LEMMA PassIsFixed ==
  ASSUME Ordered, ToSet(order) = Added, NEW marked, NEW stops
  PROVE  LET P == OnePass(marked, stops) IN
         /\ P \subseteq Added
         /\ \A n \in Added : n \in P <=> Collects(marked, stops, P, n)
<1> DEFINE L == Len(order)
           P == OnePass(marked, stops)
<1>1. /\ L \in Nat /\ DOMAIN order = 1 .. L
      /\ \A i \in 1 .. L : /\ order[i] \in Added \ UpTo(i - 1)
                            /\ UpstreamsOf(order[i]) \subseteq UpTo(i - 1)
  BY OrderTyped
<1>2. PICK f : IsPass(marked, stops, f, L) /\ P = f[L]
  BY PassIsOne
<1> HIDE DEF P
<1>3. \A i \in 1 .. L : f[i] = Extended(marked, stops, f[i - 1], order[i])
  BY <1>1, <1>2, PassSteps
<1>4. \A j \in 0 .. L : f[j] = P \cap UpTo(j)
  <2>1. L \in 0 .. L
    BY <1>1
  <2>2. QED
    BY <1>2, <2>1, PassGrows
<1>5. P \subseteq Added
  <2>1. UpTo(L) = Added
    BY PrefixSet DEF Ordered
  <2>2. P = P \cap UpTo(L)
    BY <1>1, <1>2, <1>4
  <2>3. QED
    BY <2>1, <2>2
<1>6. ASSUME NEW n \in Added
      PROVE  n \in P <=> Collects(marked, stops, P, n)
  <2>1. PICK i \in 1 .. L : n = order[i]
    BY <1>1, <1>6 DEF ToSet
  <2>2. i - 1 \in 0 .. L /\ i \in 0 .. L /\ i \in 1 .. i
    BY <1>1, <2>1
  <2>3. f[i - 1] = P \cap UpTo(i - 1) /\ f[i] = P \cap UpTo(i)
    BY <1>4, <2>2
  <2>4. n \in UpTo(i) /\ n \notin UpTo(i - 1) /\ UpstreamsOf(n) \subseteq UpTo(i - 1)
    BY <1>1, <2>1, <2>2 DEF UpTo
  <2>5. n \in P <=> n \in f[i]
    BY <2>3, <2>4
  <2>6. n \in f[i] <=> Collects(marked, stops, f[i - 1], n)
    BY <1>3, <2>1, <2>3, <2>4 DEF Extended
  <2>7. UpstreamsOf(n) \cap f[i - 1] = UpstreamsOf(n) \cap P
    BY <2>3, <2>4
  <2>8. QED
    BY <2>5, <2>6, <2>7 DEF Collects
<1>7. QED
  BY <1>5, <1>6 DEF P

(* A graph that has an order has no nodes that wait for each other.           *)
LEMMA OrderedIsAcyclic ==
  ASSUME Ordered, ToSet(order) = Added, NEW S \in SUBSET Added, S # {}
  PROVE  \E n \in S : UpstreamsOf(n) \cap S = {}
<1> DEFINE T == {i \in 1 .. Len(order) : order[i] \in S}
<1>1. /\ Len(order) \in Nat /\ DOMAIN order = 1 .. Len(order)
      /\ \A i \in 1 .. Len(order) : UpstreamsOf(order[i]) \subseteq UpTo(i - 1)
  BY OrderTyped
<1>2. T # {} /\ T \subseteq Nat
  BY <1>1 DEF ToSet
<1>3. PICK i \in T : \A j \in T : i =< j
  BY <1>2, LeastOf
<1>4. UpTo(i - 1) \cap S = {}
  <2> SUFFICES ASSUME NEW j \in 1 .. i - 1, order[j] \in S PROVE FALSE
    BY DEF UpTo
  <2>1. j \in T /\ ~(i =< j)
    BY <1>1, <1>3
  <2>2. QED
    BY <1>3, <2>1
<1>5. QED
  BY <1>1, <1>3, <1>4

(* What one pass collects is in every set that is closed under its rule.      *)
LEMMA PassIsLeast ==
  ASSUME Ordered, ToSet(order) = Added, NEW marked, NEW stops,
         NEW S \in SUBSET Added,
         \A n \in Added : Collects(marked, stops, S, n) => n \in S
  PROVE  OnePass(marked, stops) \subseteq S
<1> DEFINE P == OnePass(marked, stops)
<1>1. /\ P \subseteq Added
      /\ \A n \in Added : n \in P => Collects(marked, stops, P, n)
  BY PassIsFixed
<1> HIDE DEF P
<1>2. SUFFICES ASSUME P \ S # {} PROVE FALSE
  BY DEF P
<1>3. PICK n \in P \ S : UpstreamsOf(n) \cap (P \ S) = {}
  BY <1>1, <1>2, OrderedIsAcyclic
<1>4. Collects(marked, stops, S, n)
  BY <1>1, <1>3 DEF Collects
<1>5. QED
  BY <1>1, <1>3, <1>4

(* What one pass over the order collects is the whole closure of its rule,    *)
(* and a validated graph is one without a cycle: what the executor's plan     *)
(* (module GraphPlan) takes for granted (graph.py:251-318).                   *)
THEOREM ClosuresAreExact == BuildSpec => []ClosuresExact
<1>1. ASSUME BuildInv, stage = "validated"
      PROVE  /\ \A S \in SUBSET Added : S # {} => \E n \in S : UpstreamsOf(n) \cap S = {}
             /\ TaintedPass = Plan!TaintedNodes
             /\ CacheUnsafePass = Plan!CacheUnsafeNodes
             /\ ContentBearingPass = Plan!ContentBearingNodes
  <2>1. Ordered /\ ToSet(order) = Added
    BY <1>1 DEF BuildInv, Sorting
  <2>2. ASSUME NEW seeds \in SUBSET Added
        PROVE  OnePass(seeds, {}) = Plan!DownstreamOf(seeds)
    <3> DEFINE P == OnePass(seeds, {})
    <3>1. /\ P \subseteq Added
          /\ \A n \in Added : n \in P <=> Collects(seeds, {}, P, n)
      BY <2>1, PassIsFixed
    <3>2. ASSUME NEW S \in SUBSET Added, seeds \subseteq S,
                 \A n \in Added : UpstreamsOf(n) \cap S # {} => n \in S
          PROVE  P \subseteq S
      <4>1. \A n \in Added : Collects(seeds, {}, S, n) => n \in S
        BY <3>2 DEF Collects
      <4>2. QED
        BY <2>1, <4>1, PassIsLeast
    <3> HIDE DEF P
    <3>3. /\ seeds \subseteq P
          /\ \A n \in Added : UpstreamsOf(n) \cap P # {} => n \in P
      BY <3>1 DEF Collects
    <3>4. P = {m \in Added : \A S \in SUBSET Added :
                seeds \subseteq S /\ (\A n \in Added : UpstreamsOf(n) \cap S # {} => n \in S)
                  => m \in S}
      BY <3>1, <3>2, <3>3
    <3>5. QED
      BY <3>4 DEF P, Plan!DownstreamOf, Plan!DownClosed
  <2>3. TaintedPass = Plan!TaintedNodes
    BY <2>2 DEF TaintedPass, Plan!TaintedNodes
  <2>4. CacheUnsafePass = Plan!CacheUnsafeNodes
    BY <2>2 DEF CacheUnsafePass, Plan!CacheUnsafeNodes
  <2>5. ContentBearingPass = Plan!ContentBearingNodes
    <3> DEFINE own == {n \in Added : ContentBearing[n]}
               stops == {n \in Added : Declassifies[n]}
               P == OnePass(own, stops)
    <3>1. \A S, n : n \in Added => (Plan!CarriesContent(n, S) <=> Collects(own, stops, S, n))
      BY DEF Plan!CarriesContent, Collects
    <3>2. /\ P \subseteq Added
          /\ \A n \in Added : n \in P <=> Collects(own, stops, P, n)
      BY <2>1, PassIsFixed
    <3>3. \A S \in SUBSET Added :
            (\A n \in Added : Collects(own, stops, S, n) => n \in S) => P \subseteq S
      BY <2>1, PassIsLeast
    <3>4. ContentBearingPass = P
      BY DEF ContentBearingPass
    <3> HIDE DEF P, own, stops
    <3>5. P = {m \in Added : \A S \in SUBSET Added :
                (\A n \in Added : Collects(own, stops, S, n) => n \in S) => m \in S}
      BY <3>2, <3>3
    <3>6. QED
      BY <3>1, <3>4, <3>5 DEF Plan!ContentBearingNodes
  <2>6. QED
    BY <2>1, <2>3, <2>4, <2>5, OrderedIsAcyclic
<1>2. BuildInv => ClosuresExact
  BY <1>1 DEF ClosuresExact
<1>3. QED
  BY <1>2, BuildInvariant, PTL

-----------------------------------------------------------------------------
(* A frame says how long it is.                                               *)
LEMMA FrameIs ==
  ASSUME NEW data \in Seq(Nat)
  PROVE  /\ Frame(data) \in Seq(Nat) /\ Len(Frame(data)) = Len(data) + 1
         /\ Frame(data)[1] = Len(data)
         /\ \A k \in 1 .. Len(data) : Frame(data)[k + 1] = data[k]
<1>1. <<Len(data)>> \in Seq(Nat) /\ Len(<<Len(data)>>) = 1 /\ <<Len(data)>>[1] = Len(data)
  OBVIOUS
<1> DEFINE head == <<Len(data)>>
<1> HIDE DEF head
<1>2. /\ head \o data \in Seq(Nat) /\ Len(head \o data) = Len(head) + Len(data)
      /\ \A k \in 1 .. Len(head) : (head \o data)[k] = head[k]
      /\ \A k \in 1 .. Len(data) : (head \o data)[k + Len(head)] = data[k]
  BY <1>1 DEF head
<1> QED
  BY <1>1, <1>2 DEF Frame, head

Frames == {Frame(data) : data \in Seq(Nat)}

LEMMA FramesDelimit == Delimiting(Frames)
<1>1. \A b \in Frames : b \in Seq(Nat) /\ Len(b) > 0
  BY FrameIs DEF Frames
<1>2. ASSUME NEW b \in Frames, NEW c \in Frames, Agree(b, c)
      PROVE  b = c
  <2>1. PICK d \in Seq(Nat) : b = Frame(d)
    BY DEF Frames
  <2>2. PICK e \in Seq(Nat) : c = Frame(e)
    BY DEF Frames
  <2>3. Len(b) = Len(d) + 1 /\ b[1] = Len(d) /\ Len(c) = Len(e) + 1 /\ c[1] = Len(e)
    BY <2>1, <2>2, FrameIs
  <2>4. Len(b) = Len(c)
    BY <1>2, <2>3 DEF Agree
  <2> QED
    BY <1>1, <1>2, <2>4, SeqEqual DEF Agree
<1> QED
  BY <1>1, <1>2 DEF Delimiting

(* A frame determines what it frames.                                         *)
LEMMA FrameInjective ==
  ASSUME NEW d \in Seq(Nat), NEW e \in Seq(Nat), Frame(d) = Frame(e)
  PROVE  d = e
<1>1. Len(d) = Len(e)
  BY FrameIs
<1>2. \A k \in 1 .. Len(d) : d[k] = e[k]
  <2> DEFINE f == Frame(d)
  <2>1. /\ \A k \in 1 .. Len(d) : f[k + 1] = d[k]
        /\ \A k \in 1 .. Len(e) : f[k + 1] = e[k]
    BY FrameIs
  <2> HIDE DEF f
  <2> QED
    BY <1>1, <2>1
<1> QED
  BY <1>1, <1>2, SeqEqual

(* An entry of a dict: two frames.                                            *)
Entries == {e[1] \o e[2] : e \in Frames \X Frames}

LEMMA ConcatIs ==
  ASSUME NEW f \in Seq(Nat), NEW g \in Seq(Nat)
  PROVE  /\ f \o g \in Seq(Nat) /\ Len(f \o g) = Len(f) + Len(g)
         /\ \A k \in 1 .. Len(f) : (f \o g)[k] = f[k]
         /\ \A k \in 1 .. Len(g) : (f \o g)[Len(f) + k] = g[k]
OBVIOUS

(* Two entries that agree as far as both go are of the same frames.           *)
LEMMA EntryParts ==
  ASSUME NEW f \in Frames, NEW g \in Frames, NEW a \in Frames, NEW b \in Frames,
         Agree(f \o g, a \o b)
  PROVE  f = a /\ g = b
<1>1. /\ f \in Seq(Nat) /\ g \in Seq(Nat) /\ a \in Seq(Nat) /\ b \in Seq(Nat)
      /\ Len(f) \in Nat /\ Len(g) \in Nat /\ Len(a) \in Nat /\ Len(b) \in Nat
  BY FramesDelimit DEF Delimiting
<1> DEFINE x == f \o g
           y == a \o b
<1>2. /\ Len(x) = Len(f) + Len(g)
      /\ \A k \in 1 .. Len(f) : x[k] = f[k]
      /\ \A k \in 1 .. Len(g) : x[Len(f) + k] = g[k]
  BY <1>1, ConcatIs
<1>3. /\ Len(y) = Len(a) + Len(b)
      /\ \A k \in 1 .. Len(a) : y[k] = a[k]
      /\ \A k \in 1 .. Len(b) : y[Len(a) + k] = b[k]
  BY <1>1, ConcatIs
<1>4. \A k \in 1 .. Len(x) : k =< Len(y) => x[k] = y[k]
  BY DEF Agree
<1> HIDE DEF x, y
<1>5. f = a
  <2>1. \A k \in 1 .. Len(f) : k =< Len(a) => f[k] = a[k]
    <3> SUFFICES ASSUME NEW k \in 1 .. Len(f), k =< Len(a) PROVE f[k] = a[k]
      OBVIOUS
    <3>1. k \in 1 .. Len(x) /\ k =< Len(y) /\ k \in 1 .. Len(a)
      BY <1>1, <1>2, <1>3
    <3> QED
      BY <1>2, <1>3, <1>4, <3>1
  <2> QED
    BY <2>1, FramesDelimit DEF Delimiting, Agree
<1>6. g = b
  <2>1. \A k \in 1 .. Len(g) : k =< Len(b) => g[k] = b[k]
    <3> SUFFICES ASSUME NEW k \in 1 .. Len(g), k =< Len(b) PROVE g[k] = b[k]
      OBVIOUS
    <3>1. Len(f) + k \in 1 .. Len(x) /\ Len(f) + k =< Len(y) /\ k \in 1 .. Len(b)
      BY <1>1, <1>2, <1>3, <1>5
    <3>2. x[Len(f) + k] = g[k] /\ y[Len(a) + k] = b[k]
      BY <1>2, <1>3, <3>1
    <3> QED
      BY <1>4, <1>5, <3>1, <3>2
  <2> QED
    BY <2>1, FramesDelimit DEF Delimiting, Agree
<1> QED
  BY <1>5, <1>6

LEMMA EntriesDelimit == Delimiting(Entries)
<1>1. \A x \in Entries : \E f \in Frames, g \in Frames : x = f \o g
  BY DEF Entries
<1>2. ASSUME NEW x \in Entries PROVE x \in Seq(Nat) /\ Len(x) > 0
  <2>1. PICK f \in Frames, g \in Frames : x = f \o g
    BY <1>1
  <2>2. f \in Seq(Nat) /\ g \in Seq(Nat) /\ Len(f) > 0
    BY FramesDelimit DEF Delimiting
  <2> QED
    BY <2>1, <2>2, ConcatIs
<1>3. ASSUME NEW x \in Entries, NEW y \in Entries, Agree(x, y)
      PROVE  x = y
  <2>1. PICK f \in Frames, g \in Frames : x = f \o g
    BY <1>1
  <2>2. PICK a \in Frames, b \in Frames : y = a \o b
    BY <1>1
  <2>3. f = a /\ g = b
    <3>1. Agree(f \o g, a \o b)
      BY <1>3, <2>1, <2>2
    <3> QED
      BY <3>1, EntryParts
  <2> QED
    BY <2>1, <2>2, <2>3
<1> QED
  BY <1>2, <1>3 DEF Delimiting

-----------------------------------------------------------------------------
(* The texts of a dict's keys differ.                                         *)
ApartTexts(pairs) ==
  \A i, j \in DOMAIN pairs : TextOf(pairs[i][1]) = TextOf(pairs[j][1]) => i = j

LEMMA RankIs ==
  ASSUME NEW key \in Keys
  PROVE  Rank(key) \in Nat /\ KeyTexts[Rank(key)] = TextOf(key)
<1>1. \E i \in DOMAIN KeyTexts : KeyTexts[i] = TextOf(key)
  BY HashAssumption
<1>2. Rank(key) \in DOMAIN KeyTexts /\ KeyTexts[Rank(key)] = TextOf(key)
  BY <1>1 DEF Rank
<1> QED
  BY <1>2, HashAssumption

(* What SortedPairs puts before what.                                         *)
Earlier(pairs) ==
  {e \in (1 .. Len(pairs)) \X (1 .. Len(pairs)) :
     \/ Rank(pairs[e[1]][1]) < Rank(pairs[e[2]][1])
     \/ Rank(pairs[e[1]][1]) = Rank(pairs[e[2]][1]) /\ e[1] < e[2]}

PlaceOf(pairs, j) == CountBefore(Len(pairs), Earlier(pairs), j)

(* A sorted dict has its entries, each at the place it is counted to.         *)
LEMMA SortedIs ==
  ASSUME NEW V, NEW pairs \in Seq(Keys \X V)
  PROVE  LET s == SortedPairs(pairs)
             n == Len(pairs)
         IN /\ s \in Seq(Keys \X V) /\ Len(s) = n
            /\ \A p \in 1 .. n : \E j \in 1 .. n : s[p] = pairs[j] /\ PlaceOf(pairs, j) = p - 1
            /\ \A j \in 1 .. n : \E p \in 1 .. n : s[p] = pairs[j]
<1> DEFINE s == SortedPairs(pairs)
           n == Len(pairs)
           r == [i \in 1 .. n |-> Rank(pairs[i][1])]
           Place(j) == PlaceOf(pairs, j)
<1>1. n \in Nat /\ DOMAIN pairs = 1 .. n /\ \A i \in 1 .. n : pairs[i] \in Keys \X V
  OBVIOUS
<1>2. \A i \in 1 .. n : r[i] \in Nat
  BY <1>1, RankIs
<1>3. \A i, j \in 1 .. n : <<i, j>> \in Earlier(pairs) <=> (r[i] < r[j] \/ (r[i] = r[j] /\ i < j))
  BY <1>1 DEF Earlier
<1>4. s = [p \in 1 .. n |-> pairs[CHOOSE j \in 1 .. n :
                                  Cardinality({i \in 1 .. n : <<i, j>> \in Earlier(pairs)}) = p - 1]]
  <2> DEFINE Before(i, j) == \/ Rank(pairs[i][1]) < Rank(pairs[j][1])
                             \/ Rank(pairs[i][1]) = Rank(pairs[j][1]) /\ i < j
  <2>1. \A j \in 1 .. n : {i \in 1 .. n : Before(i, j)} = {i \in 1 .. n : <<i, j>> \in Earlier(pairs)}
    BY <1>1 DEF Earlier
  <2>2. s = [p \in 1 .. n |-> pairs[CHOOSE j \in 1 .. n :
                                      Cardinality({i \in 1 .. n : Before(i, j)}) = p - 1]]
    BY <1>1 DEF SortedPairs
  <2> DEFINE Old(p) == CHOOSE j \in 1 .. n : Cardinality({i \in 1 .. n : Before(i, j)}) = p - 1
             New(p) == CHOOSE j \in 1 .. n :
                         Cardinality({i \in 1 .. n : <<i, j>> \in Earlier(pairs)}) = p - 1
  <2> HIDE DEF Before, n, s
  <2>3. \A p \in 1 .. n : Old(p) = New(p)
    BY <2>1
  <2>4. s = [p \in 1 .. n |-> pairs[Old(p)]]
    BY <2>2
  <2> HIDE DEF Old, New
  <2>5. s = [p \in 1 .. n |-> pairs[New(p)]]
    BY <2>3, <2>4
  <2> QED
    BY <2>5 DEF New
<1> HIDE DEF r, s
<1>5. /\ \A i \in 1 .. n : <<i, i>> \notin Earlier(pairs)
      /\ \A i, j \in 1 .. n : i # j => <<i, j>> \in Earlier(pairs) \/ <<j, i>> \in Earlier(pairs)
      /\ \A i, j, k \in 1 .. n : <<i, j>> \in Earlier(pairs) /\ <<j, k>> \in Earlier(pairs)
                                   => <<i, k>> \in Earlier(pairs)
  <2> HIDE DEF n
  <2>1. \A i \in 1 .. n : <<i, i>> \notin Earlier(pairs)
    BY <1>1, <1>2, <1>3
  <2>2. \A i, j \in 1 .. n : i # j => <<i, j>> \in Earlier(pairs) \/ <<j, i>> \in Earlier(pairs)
    <3> SUFFICES ASSUME NEW i \in 1 .. n, NEW j \in 1 .. n, i # j
                 PROVE  <<i, j>> \in Earlier(pairs) \/ <<j, i>> \in Earlier(pairs)
      OBVIOUS
    <3>1. r[i] \in Nat /\ r[j] \in Nat
      BY <1>2
    <3>2. (r[i] < r[j] \/ (r[i] = r[j] /\ i < j)) \/ (r[j] < r[i] \/ (r[j] = r[i] /\ j < i))
      BY <1>1, <3>1
    <3> QED
      BY <1>3, <3>2, Zenon
  <2>3. ASSUME NEW i \in 1 .. n, NEW j \in 1 .. n, NEW k \in 1 .. n,
               <<i, j>> \in Earlier(pairs), <<j, k>> \in Earlier(pairs)
        PROVE  <<i, k>> \in Earlier(pairs)
    <3>1. r[i] \in Nat /\ r[j] \in Nat /\ r[k] \in Nat
      BY <1>2
    <3>2. (r[i] < r[j] \/ (r[i] = r[j] /\ i < j)) /\ (r[j] < r[k] \/ (r[j] = r[k] /\ j < k))
      BY <1>3, <2>3, Zenon
    <3>3. r[i] < r[k] \/ (r[i] = r[k] /\ i < k)
      BY <1>1, <3>1, <3>2
    <3> QED
      BY <1>3, <3>3, Zenon
  <2> QED
    BY <2>1, <2>2, <2>3
<1>6. /\ \A i, j \in 1 .. n : Place(i) = Place(j) => i = j
      /\ \A p \in 1 .. n : \E j \in 1 .. n : Place(j) = p - 1
      /\ \A j \in 1 .. n : Place(j) \in Nat /\ Place(j) + 1 \in 1 .. n
  BY <1>1, <1>5, PlacesFilled DEF PlaceOf
<1>7. s = [p \in 1 .. n |-> pairs[CHOOSE j \in 1 .. n : Place(j) = p - 1]]
  BY <1>4 DEF PlaceOf, CountBefore
<1> HIDE DEF n, Place
<1>8. ASSUME NEW p \in 1 .. n PROVE \E j \in 1 .. n : s[p] = pairs[j] /\ Place(j) = p - 1
  <2> DEFINE j == CHOOSE j \in 1 .. n : Place(j) = p - 1
  <2>1. j \in 1 .. n /\ Place(j) = p - 1
    BY <1>6
  <2>2. s[p] = pairs[j]
    BY <1>7
  <2> QED
    BY <2>1, <2>2
<1>9. ASSUME NEW j \in 1 .. n PROVE \E p \in 1 .. n : s[p] = pairs[j]
  <2> DEFINE p == Place(j) + 1
  <2>1. p \in 1 .. n
    BY <1>6
  <2>2. PICK k \in 1 .. n : s[p] = pairs[k] /\ Place(k) = p - 1
    BY <1>8, <2>1
  <2>3. Place(j) \in Int
    BY <1>1, <1>6
  <2>4. k = j
    BY <1>6, <2>2, <2>3
  <2> QED
    BY <2>1, <2>2, <2>4
<1>10. s \in [1 .. n -> Keys \X V]
  <2>1. \A p \in 1 .. n : s[p] \in Keys \X V
    BY <1>1, <1>8
  <2> QED
    BY <1>7, <2>1
<1>11. s \in Seq(Keys \X V) /\ Len(s) = n
  BY <1>1, <1>10
<1> QED
  BY <1>8, <1>9, <1>11 DEF s, n, Place

-----------------------------------------------------------------------------
(* The ranks of a dict whose keys have different texts: none twice, and the   *)
(* place of an entry is how many are less.                                    *)
Ranks(pairs) == {Rank(pairs[i][1]) : i \in 1 .. Len(pairs)}

LEMMA RanksCount ==
  ASSUME NEW V, NEW pairs \in Seq(Keys \X V), ApartTexts(pairs)
  PROVE  /\ Ranks(pairs) \in SUBSET Nat /\ IsFiniteSet(Ranks(pairs))
         /\ Cardinality(Ranks(pairs)) = Len(pairs)
         /\ \A j \in 1 .. Len(pairs) :
              PlaceOf(pairs, j) = HowManyLess(Ranks(pairs), Rank(pairs[j][1]))
<1> DEFINE n == Len(pairs)
           r == [i \in 1 .. n |-> Rank(pairs[i][1])]
           R == Ranks(pairs)
<1>1. n \in Nat /\ DOMAIN pairs = 1 .. n /\ \A i \in 1 .. n : pairs[i][1] \in Keys
  OBVIOUS
<1>2. r \in [1 .. n -> Nat]
  BY <1>1, RankIs
<1>3. \A i, j \in 1 .. n : r[i] = r[j] => i = j
  <2> SUFFICES ASSUME NEW i \in 1 .. n, NEW j \in 1 .. n, r[i] = r[j] PROVE i = j
    OBVIOUS
  <2>1. TextOf(pairs[i][1]) = KeyTexts[r[i]] /\ TextOf(pairs[j][1]) = KeyTexts[r[j]]
    BY <1>1, RankIs
  <2> QED
    BY <1>1, <2>1 DEF ApartTexts
<1>4. R = {r[i] : i \in 1 .. n}
  BY DEF Ranks
<1>5. R \in SUBSET Nat
  BY <1>2, <1>4
<1> HIDE DEF r, R, n
<1>6. IsFiniteSet(R) /\ Cardinality(R) = n
  BY <1>1, <1>2, <1>3, <1>4, CountedAsSet
<1>7. ASSUME NEW j \in 1 .. n
      PROVE  PlaceOf(pairs, j) = Cardinality({y \in R : y < r[j]})
  <2>1. \A i \in 1 .. n : <<i, j>> \in Earlier(pairs) <=> r[i] < r[j]
    <3> SUFFICES ASSUME NEW i \in 1 .. n PROVE <<i, j>> \in Earlier(pairs) <=> r[i] < r[j]
      OBVIOUS
    <3>1. <<i, j>> \in Earlier(pairs) <=> (r[i] < r[j] \/ (r[i] = r[j] /\ i < j))
      BY DEF Earlier, r, n
    <3>2. i \in Nat /\ (r[i] = r[j] => ~(i < j))
      BY <1>1, <1>3
    <3> QED
      BY <3>1, <3>2
  <2>2. {i \in 1 .. n : <<i, j>> \in Earlier(pairs)} = {i \in 1 .. n : r[i] < r[j]}
    BY <2>1
  <2>3. Cardinality({i \in 1 .. n : r[i] < r[j]}) = Cardinality({y \in R : y < r[j]})
    <3> DEFINE x == r[j]
    <3>1. x \in Nat
      BY <1>2
    <3> HIDE DEF x
    <3>2. Cardinality({i \in 1 .. n : r[i] < x}) = Cardinality({y \in {r[i] : i \in 1 .. n} : y < x})
      BY <1>1, <1>2, <1>3, <3>1, CountedAsSet
    <3> QED
      BY <1>4, <3>2 DEF x
  <2> QED
    BY <2>2, <2>3 DEF PlaceOf, CountBefore, n
<1> QED
  BY <1>5, <1>6, <1>7 DEF R, n, r, HowManyLess

SameKeys(s, t) ==
  /\ \A i \in 1 .. Len(s) : \E j \in 1 .. Len(t) : s[i][1] = t[j][1]
  /\ \A j \in 1 .. Len(t) : \E i \in 1 .. Len(s) : s[i][1] = t[j][1]

SortedToSameKeys(x, y) == Len(x) = Len(y) /\ \A p \in 1 .. Len(x) : x[p][1] = y[p][1]

(* Two dicts with the same keys are sorted alike, however they were filled.   *)
LEMMA SortedAlike ==
  ASSUME NEW V, NEW s \in Seq(Keys \X V), NEW t \in Seq(Keys \X V), ApartTexts(s), ApartTexts(t), SameKeys(s, t)
  PROVE  SortedToSameKeys(SortedPairs(s), SortedPairs(t))
<1>1. /\ Len(s) \in Nat /\ Len(t) \in Nat /\ DOMAIN t = 1 .. Len(t)
      /\ \A i \in 1 .. Len(s) : s[i][1] \in Keys
      /\ \A i \in 1 .. Len(t) : t[i][1] \in Keys
  OBVIOUS
<1>2. Ranks(s) = Ranks(t)
  BY DEF Ranks, SameKeys
<1>3. Len(s) = Len(t)
  BY <1>2, RanksCount
<1>4. Len(SortedPairs(s)) = Len(s) /\ Len(SortedPairs(t)) = Len(t)
  BY SortedIs
<1>5. ASSUME NEW p \in 1 .. Len(s) PROVE SortedPairs(s)[p][1] = SortedPairs(t)[p][1]
  <2>1. PICK j \in 1 .. Len(s) : SortedPairs(s)[p] = s[j] /\ PlaceOf(s, j) = p - 1
    BY SortedIs
  <2>2. PICK k \in 1 .. Len(t) : SortedPairs(t)[p] = t[k] /\ PlaceOf(t, k) = p - 1
    BY <1>3, SortedIs
  <2> DEFINE x == Rank(s[j][1])
             y == Rank(t[k][1])
             R == Ranks(s)
  <2>3. x \in R /\ y \in R
    BY <1>2 DEF Ranks
  <2>4. PlaceOf(s, j) = HowManyLess(R, x)
    BY RanksCount
  <2>5. PlaceOf(t, k) = HowManyLess(R, y)
    <3>1. PlaceOf(t, k) = HowManyLess(Ranks(t), Rank(t[k][1]))
      BY RanksCount
    <3> QED
      BY <1>2, <3>1
  <2>6. R \in SUBSET Nat /\ IsFiniteSet(R)
    BY RanksCount
  <2> HIDE DEF R, x, y
  <2>7. x = y
    <3>1. HowManyLess(R, x) = HowManyLess(R, y)
      BY <2>1, <2>2, <2>4, <2>5
    <3> QED
      BY <2>3, <2>6, <3>1, KnownByCount
  <2>8. TextOf(s[j][1]) = TextOf(t[k][1])
    BY <1>1, <2>7, RankIs DEF x, y
  <2>9. PICK i \in 1 .. Len(t) : s[j][1] = t[i][1]
    BY DEF SameKeys
  <2>10. i = k
    BY <1>1, <2>8, <2>9 DEF ApartTexts
  <2> QED
    BY <2>1, <2>2, <2>9, <2>10
<1> QED
  BY <1>3, <1>4, <1>5 DEF SortedToSameKeys

-----------------------------------------------------------------------------
DataStep(k, below) == [type : Scalars, is : Seq(Nat)] \cup IF k = 0 THEN {} ELSE Containers(below)

BytesStep(k, below) == [u \in Data[k] |-> Encoded(u, below)]

MeaningStep(k, below) == [u \in Data[k] |-> Says(u, below)]

ApartStep(k, below) == {v \in Data[k] : KeysApart(v, below)}

NoLevel == << <<>>, <<>>, {} >>

LevelStep(k, below) == <<BytesStep(k, below[1]), MeaningStep(k, below[2]), ApartStep(k, below[3])>>

(* The levels of nesting can be built up.                                     *)
LEMMA DataExists ==
  \E f : f = [k \in 0 .. MaxNesting |-> DataStep(k, IF k = 0 THEN {} ELSE f[k - 1])]
<1> DEFINE Upto(f, m) == \A k \in 0 .. m : f[k] = DataStep(k, IF k = 0 THEN {} ELSE f[k - 1])
           T == {m \in 0 .. MaxNesting : \E f : Upto(f, m)}
<1>1. MaxNesting \in Nat
  BY HashAssumption
<1>2. 0 \in T
  <2> DEFINE f == [k \in 0 .. 0 |-> DataStep(0, {})]
  <2>1. Upto(f, 0)
    OBVIOUS
  <2> HIDE DEF f, Upto
  <2> QED
    BY <1>1, <2>1
<1>3. ASSUME NEW m \in 1 .. MaxNesting, m - 1 \in T PROVE m \in T
  <2>1. PICK f : Upto(f, m - 1)
    BY <1>3
  <2> DEFINE g == [k \in 0 .. m |-> IF k = m THEN DataStep(m, f[m - 1]) ELSE f[k]]
  <2>2. ASSUME NEW k \in 0 .. m PROVE g[k] = DataStep(k, IF k = 0 THEN {} ELSE g[k - 1])
    <3>1. CASE k = m
      <4>1. m - 1 \in 0 .. m /\ m - 1 # m /\ m # 0
        OBVIOUS
      <4>2. g[m] = DataStep(m, f[m - 1]) /\ g[m - 1] = f[m - 1]
        BY <4>1
      <4> QED
        BY <3>1, <4>1, <4>2
    <3>2. CASE k # m
      <4>1. k \in 0 .. m - 1 /\ (k # 0 => k - 1 \in 0 .. m /\ k - 1 # m)
        BY <3>2
      <4>2. g[k] = f[k] /\ (k # 0 => g[k - 1] = f[k - 1])
        BY <3>2, <4>1
      <4>3. f[k] = DataStep(k, IF k = 0 THEN {} ELSE f[k - 1])
        BY <2>1, <4>1
      <4> QED
        BY <4>2, <4>3
    <3> QED
      BY <3>1, <3>2
  <2> HIDE DEF g
  <2>3. Upto(g, m)
    BY <2>2
  <2> HIDE DEF Upto
  <2> QED
    BY <2>3
<1> HIDE DEF T
<1>4. MaxNesting \in T
  <2>1. \A k \in 0 .. MaxNesting : k \in T
    BY <1>1, <1>2, <1>3, Upwards
  <2> QED
    BY <1>1, <2>1
<1>5. PICK f : Upto(f, MaxNesting)
  BY <1>4 DEF T
<1> DEFINE g == [k \in 0 .. MaxNesting |-> f[k]]
<1>6. \A k \in 0 .. MaxNesting : g[k] = DataStep(k, IF k = 0 THEN {} ELSE g[k - 1])
  <2> SUFFICES ASSUME NEW k \in 0 .. MaxNesting
               PROVE  g[k] = DataStep(k, IF k = 0 THEN {} ELSE g[k - 1])
    OBVIOUS
  <2>1. k # 0 => k - 1 \in 0 .. MaxNesting
    BY <1>1
  <2>2. g[k] = f[k] /\ (k # 0 => g[k - 1] = f[k - 1])
    BY <2>1
  <2> HIDE DEF g
  <2> QED
    BY <1>5, <2>2
<1>7. g = [k \in 0 .. MaxNesting |-> g[k]]
  OBVIOUS
<1> HIDE DEF g
<1> QED
  BY <1>6, <1>7

(* So can the bytes, the meaning and the values without two keys of one text. *)
LEMMA LevelsExist ==
  \E f : f = [k \in 0 .. MaxNesting |-> LevelStep(k, IF k = 0 THEN NoLevel ELSE f[k - 1])]
<1> DEFINE Upto(f, m) == \A k \in 0 .. m : f[k] = LevelStep(k, IF k = 0 THEN NoLevel ELSE f[k - 1])
           T == {m \in 0 .. MaxNesting : \E f : Upto(f, m)}
<1>1. MaxNesting \in Nat
  BY HashAssumption
<1>2. 0 \in T
  <2> DEFINE f == [k \in 0 .. 0 |-> LevelStep(0, NoLevel)]
  <2>1. Upto(f, 0)
    OBVIOUS
  <2> HIDE DEF f, Upto
  <2> QED
    BY <1>1, <2>1
<1>3. ASSUME NEW m \in 1 .. MaxNesting, m - 1 \in T PROVE m \in T
  <2>1. PICK f : Upto(f, m - 1)
    BY <1>3
  <2> DEFINE g == [k \in 0 .. m |-> IF k = m THEN LevelStep(m, f[m - 1]) ELSE f[k]]
  <2>2. ASSUME NEW k \in 0 .. m PROVE g[k] = LevelStep(k, IF k = 0 THEN NoLevel ELSE g[k - 1])
    <3>1. CASE k = m
      <4>1. m - 1 \in 0 .. m /\ m - 1 # m /\ m # 0
        OBVIOUS
      <4>2. g[m] = LevelStep(m, f[m - 1]) /\ g[m - 1] = f[m - 1]
        BY <4>1
      <4> QED
        BY <3>1, <4>1, <4>2
    <3>2. CASE k # m
      <4>1. k \in 0 .. m - 1 /\ (k # 0 => k - 1 \in 0 .. m /\ k - 1 # m)
        BY <3>2
      <4>2. g[k] = f[k] /\ (k # 0 => g[k - 1] = f[k - 1])
        BY <3>2, <4>1
      <4>3. f[k] = LevelStep(k, IF k = 0 THEN NoLevel ELSE f[k - 1])
        BY <2>1, <4>1
      <4> QED
        BY <4>2, <4>3
    <3> QED
      BY <3>1, <3>2
  <2> HIDE DEF g
  <2>3. Upto(g, m)
    BY <2>2
  <2> HIDE DEF Upto
  <2> QED
    BY <2>3
<1> HIDE DEF T
<1>4. MaxNesting \in T
  <2>1. \A k \in 0 .. MaxNesting : k \in T
    BY <1>1, <1>2, <1>3, Upwards
  <2> QED
    BY <1>1, <2>1
<1>5. PICK f : Upto(f, MaxNesting)
  BY <1>4 DEF T
<1> DEFINE g == [k \in 0 .. MaxNesting |-> f[k]]
<1>6. \A k \in 0 .. MaxNesting : g[k] = LevelStep(k, IF k = 0 THEN NoLevel ELSE g[k - 1])
  <2> SUFFICES ASSUME NEW k \in 0 .. MaxNesting
               PROVE  g[k] = LevelStep(k, IF k = 0 THEN NoLevel ELSE g[k - 1])
    OBVIOUS
  <2>1. k # 0 => k - 1 \in 0 .. MaxNesting
    BY <1>1
  <2>2. g[k] = f[k] /\ (k # 0 => g[k - 1] = f[k - 1])
    BY <2>1
  <2> HIDE DEF g
  <2> QED
    BY <1>5, <2>2
<1>7. g = [k \in 0 .. MaxNesting |-> g[k]]
  OBVIOUS
<1> HIDE DEF g
<1> QED
  BY <1>6, <1>7


LEMMA BytesExist ==
  \E f : f = [k \in 0 .. MaxNesting |-> BytesStep(k, IF k = 0 THEN <<>> ELSE f[k - 1])]
<1>1. PICK f : f = [k \in 0 .. MaxNesting |-> LevelStep(k, IF k = 0 THEN NoLevel ELSE f[k - 1])]
  BY LevelsExist
<1> DEFINE g == [k \in 0 .. MaxNesting |-> f[k][1]]
<1>2. ASSUME NEW k \in 0 .. MaxNesting PROVE g[k] = BytesStep(k, IF k = 0 THEN <<>> ELSE g[k - 1])
  <2>1. k # 0 => k - 1 \in 0 .. MaxNesting
    BY HashAssumption
  <2>2. f[k] = LevelStep(k, IF k = 0 THEN NoLevel ELSE f[k - 1])
    BY <1>1
  <2>3. g[k] = f[k][1] /\ (k # 0 => g[k - 1] = f[k - 1][1])
    BY <2>1
  <2> HIDE DEF g
  <2> QED
    BY <2>2, <2>3 DEF LevelStep, NoLevel
<1>3. g = [k \in 0 .. MaxNesting |-> g[k]]
  OBVIOUS
<1> HIDE DEF g
<1> QED
  BY <1>2, <1>3

LEMMA MeaningExists ==
  \E f : f = [k \in 0 .. MaxNesting |-> MeaningStep(k, IF k = 0 THEN <<>> ELSE f[k - 1])]
<1>1. PICK f : f = [k \in 0 .. MaxNesting |-> LevelStep(k, IF k = 0 THEN NoLevel ELSE f[k - 1])]
  BY LevelsExist
<1> DEFINE g == [k \in 0 .. MaxNesting |-> f[k][2]]
<1>2. ASSUME NEW k \in 0 .. MaxNesting PROVE g[k] = MeaningStep(k, IF k = 0 THEN <<>> ELSE g[k - 1])
  <2>1. k # 0 => k - 1 \in 0 .. MaxNesting
    BY HashAssumption
  <2>2. f[k] = LevelStep(k, IF k = 0 THEN NoLevel ELSE f[k - 1])
    BY <1>1
  <2>3. g[k] = f[k][2] /\ (k # 0 => g[k - 1] = f[k - 1][2])
    BY <2>1
  <2> HIDE DEF g
  <2> QED
    BY <2>2, <2>3 DEF LevelStep, NoLevel
<1>3. g = [k \in 0 .. MaxNesting |-> g[k]]
  OBVIOUS
<1> HIDE DEF g
<1> QED
  BY <1>2, <1>3

LEMMA ApartExists ==
  \E f : f = [k \in 0 .. MaxNesting |-> ApartStep(k, IF k = 0 THEN {} ELSE f[k - 1])]
<1>1. PICK f : f = [k \in 0 .. MaxNesting |-> LevelStep(k, IF k = 0 THEN NoLevel ELSE f[k - 1])]
  BY LevelsExist
<1> DEFINE g == [k \in 0 .. MaxNesting |-> f[k][3]]
<1>2. ASSUME NEW k \in 0 .. MaxNesting PROVE g[k] = ApartStep(k, IF k = 0 THEN {} ELSE g[k - 1])
  <2>1. k # 0 => k - 1 \in 0 .. MaxNesting
    BY HashAssumption
  <2>2. f[k] = LevelStep(k, IF k = 0 THEN NoLevel ELSE f[k - 1])
    BY <1>1
  <2>3. g[k] = f[k][3] /\ (k # 0 => g[k - 1] = f[k - 1][3])
    BY <2>1
  <2> HIDE DEF g
  <2> QED
    BY <2>2, <2>3 DEF LevelStep, NoLevel
<1>3. g = [k \in 0 .. MaxNesting |-> g[k]]
  OBVIOUS
<1> HIDE DEF g
<1> QED
  BY <1>2, <1>3

LEMMA DataIs ==
  /\ Data[0] = [type : Scalars, is : Seq(Nat)]
  /\ \A k \in 1 .. MaxNesting :
       Data[k] = [type : Scalars, is : Seq(Nat)] \cup Containers(Data[k - 1])
<1> DEFINE D == Data
           G(f) == [k \in 0 .. MaxNesting |->
                      [type : Scalars, is : Seq(Nat)] \cup IF k = 0 THEN {} ELSE Containers(f[k - 1])]
<1>1. MaxNesting \in Nat
  BY HashAssumption
<1>2. \E f : f = G(f)
  <2>1. PICK f : f = [k \in 0 .. MaxNesting |-> DataStep(k, IF k = 0 THEN {} ELSE f[k - 1])]
    BY DataExists
  <2>2. f = G(f)
    BY <2>1 DEF DataStep
  <2> QED
    BY <2>2
<1>3. D = G(D)
  BY <1>2 DEF Data
<1> HIDE DEF D
<1>4. \A k \in 0 .. MaxNesting :
        D[k] = [type : Scalars, is : Seq(Nat)] \cup IF k = 0 THEN {} ELSE Containers(D[k - 1])
  BY <1>3
<1>5. D[0] = [type : Scalars, is : Seq(Nat)]
  <2>1. 0 \in 0 .. MaxNesting
    BY <1>1
  <2>2. D[0] = [type : Scalars, is : Seq(Nat)] \cup IF 0 = 0 THEN {} ELSE Containers(D[0 - 1])
    BY <1>4, <2>1, Zenon
  <2> QED
    BY <2>2, Zenon
<1>6. \A k \in 1 .. MaxNesting : D[k] = [type : Scalars, is : Seq(Nat)] \cup Containers(D[k - 1])
  BY <1>1, <1>4
<1> QED
  BY <1>5, <1>6 DEF D

(* The bytes and the meaning of the values of each level, named.              *)
Bytes ==
  CHOOSE f : f = [k \in 0 .. MaxNesting |->
                    [u \in Data[k] |-> Encoded(u, IF k = 0 THEN <<>> ELSE f[k - 1])]]

Meanings ==
  CHOOSE f : f = [k \in 0 .. MaxNesting |->
                    [u \in Data[k] |-> Says(u, IF k = 0 THEN <<>> ELSE f[k - 1])]]

LEMMA BytesAre ==
  /\ \A v : Canonical(v) = Bytes[MaxNesting][v]
  /\ \A k \in 0 .. MaxNesting :
       /\ Bytes[k] = [u \in Data[k] |-> Bytes[k][u]]
       /\ \A u \in Data[k] : Bytes[k][u] = Encoded(u, IF k = 0 THEN <<>> ELSE Bytes[k - 1])
<1> DEFINE G(f) == [k \in 0 .. MaxNesting |->
                      [u \in Data[k] |-> Encoded(u, IF k = 0 THEN <<>> ELSE f[k - 1])]]
           B == Bytes
<1>1. \E f : f = G(f)
  <2>1. PICK f : f = [k \in 0 .. MaxNesting |-> BytesStep(k, IF k = 0 THEN <<>> ELSE f[k - 1])]
    BY BytesExist
  <2>2. f = G(f)
    BY <2>1 DEF BytesStep
  <2> QED
    BY <2>2
<1>2. B = G(B)
  BY <1>1 DEF Bytes
<1>3. \A v : Canonical(v) = B[MaxNesting][v]
  BY DEF Canonical, Bytes
<1> HIDE DEF B
<1>4. \A k \in 0 .. MaxNesting : B[k] = [u \in Data[k] |-> Encoded(u, IF k = 0 THEN <<>> ELSE B[k - 1])]
  BY <1>2
<1> QED
  BY <1>3, <1>4 DEF B

LEMMA MeaningsAre ==
  /\ \A v : Meaning(v) = Meanings[MaxNesting][v]
  /\ \A k \in 0 .. MaxNesting : \A u \in Data[k] :
       Meanings[k][u] = Says(u, IF k = 0 THEN <<>> ELSE Meanings[k - 1])
<1> DEFINE G(f) == [k \in 0 .. MaxNesting |->
                      [u \in Data[k] |-> Says(u, IF k = 0 THEN <<>> ELSE f[k - 1])]]
           B == Meanings
<1>1. \E f : f = G(f)
  <2>1. PICK f : f = [k \in 0 .. MaxNesting |-> MeaningStep(k, IF k = 0 THEN <<>> ELSE f[k - 1])]
    BY MeaningExists
  <2>2. f = G(f)
    BY <2>1 DEF MeaningStep
  <2> QED
    BY <2>2
<1>2. B = G(B)
  BY <1>1 DEF Meanings
<1>3. \A v : Meaning(v) = B[MaxNesting][v]
  BY DEF Meaning, Meanings
<1> HIDE DEF B
<1>4. \A k \in 0 .. MaxNesting : B[k] = [u \in Data[k] |-> Says(u, IF k = 0 THEN <<>> ELSE B[k - 1])]
  BY <1>2
<1> QED
  BY <1>3, <1>4 DEF B

LEMMA UnambiguousIs ==
  \A k \in 0 .. MaxNesting :
    Unambiguous[k] = {v \in Data[k] : KeysApart(v, IF k = 0 THEN {} ELSE Unambiguous[k - 1])}
<1> DEFINE G(f) == [k \in 0 .. MaxNesting |->
                      {v \in Data[k] : KeysApart(v, IF k = 0 THEN {} ELSE f[k - 1])}]
           B == Unambiguous
<1>1. \E f : f = G(f)
  <2>1. PICK f : f = [k \in 0 .. MaxNesting |-> ApartStep(k, IF k = 0 THEN {} ELSE f[k - 1])]
    BY ApartExists
  <2>2. f = G(f)
    BY <2>1 DEF ApartStep
  <2> QED
    BY <2>2
<1>2. B = G(B)
  BY <1>1 DEF Unambiguous
<1> HIDE DEF B
<1>3. \A k \in 0 .. MaxNesting : B[k] = {v \in Data[k] : KeysApart(v, IF k = 0 THEN {} ELSE B[k - 1])}
  BY <1>2
<1> QED
  BY <1>3 DEF B

-----------------------------------------------------------------------------
(* inner has the bytes of the values V, the keys among them.                  *)
Coding(V, inner) == Keys \subseteq V /\ inner \in [V -> Seq(Nat)]

Level(V) == [type : Scalars, is : Seq(Nat)] \cup Containers(V)

(* What follows the tag.                                                      *)
ListFrames(items, inner) == [k \in DOMAIN items |-> Frame(inner[items[k]])]
SetFrames(items, inner) == {Frame(inner[u]) : u \in items}
DictFrames(pairs, inner) ==
  [k \in DOMAIN SortedPairs(pairs) |-> Frame(inner[SortedPairs(pairs)[k][1]])
                                         \o Frame(inner[SortedPairs(pairs)[k][2]])]

Body(v, inner) ==
  CASE v.type \in Scalars -> v.is
    [] v.type = "list" -> FlattenSeq(ListFrames(v.is, inner))
    [] v.type = "set" -> FlattenSeq(SetToSeq(SetFrames(v.is, inner)))
    [] v.type = "dict" -> FlattenSeq(DictFrames(v.is, inner))
    [] v.type = "object" -> Frame(inner[v.is])

LEMMA EncodedIs ==
  \A v, inner : Encoded(v, inner) = <<Tag[v.type]>> \o Body(v, inner)
BY DEF Encoded, Body, ListFrames, SetFrames, DictFrames

Types == Scalars \cup {"list", "set", "dict", "object"}

(* No two types share a tag.                                                  *)
LEMMA TagsDiffer ==
  /\ \A a \in Types : Tag[a] \in Nat
  /\ \A a, b \in Types : Tag[a] = Tag[b] => a = b
<1>1. /\ Tag["none"] = 110 /\ Tag["bool"] = 98 /\ Tag["int"] = 105 /\ Tag["float"] = 102
      /\ Tag["str"] = 115 /\ Tag["bytes"] = 121 /\ Tag["list"] = 108 /\ Tag["set"] = 101
      /\ Tag["dict"] = 100 /\ Tag["object"] = 111
  BY DEF Tag
<1> QED
  BY <1>1 DEF Types, Scalars

(* What a value of a level is, by its type.                                   *)
LEMMA LevelCases ==
  ASSUME NEW V, NEW v \in Level(V)
  PROVE  \/ v.type \in Scalars /\ v.is \in Seq(Nat)
         \/ v.type = "list" /\ v.is \in Seq(V)
         \/ v.type = "set" /\ v.is \in SUBSET V /\ IsFiniteSet(v.is)
         \/ v.type = "dict" /\ v.is \in Dicts(V)
         \/ v.type = "object" /\ v.is \in V
BY DEF Level, Containers

LEMMA ScalarBody ==
  ASSUME NEW v, NEW inner, v.type \in Scalars
  PROVE  Body(v, inner) = v.is
BY DEF Body, Scalars

LEMMA ContainerBody ==
  ASSUME NEW v, NEW inner
  PROVE  /\ v.type = "list" => Body(v, inner) = FlattenSeq(ListFrames(v.is, inner))
         /\ v.type = "set" => Body(v, inner) = FlattenSeq(SetToSeq(SetFrames(v.is, inner)))
         /\ v.type = "dict" => Body(v, inner) = FlattenSeq(DictFrames(v.is, inner))
         /\ v.type = "object" => Body(v, inner) = Frame(inner[v.is])
BY DEF Body, Scalars

LEMMA FlatIsBytes ==
  ASSUME NEW B, Delimiting(B), NEW ss \in Seq(B)
  PROVE  FlattenSeq(ss) \in Seq(Nat)
<1>1. ss \in Seq(Seq(Nat))
  BY SeqMonotonic DEF Delimiting
<1> QED
  BY <1>1, BlockPlaces, Zenon

LEMMA FramesOfList ==
  ASSUME NEW V, NEW inner, Coding(V, inner), NEW items \in Seq(V)
  PROVE  /\ ListFrames(items, inner) \in Seq(Frames)
         /\ Len(ListFrames(items, inner)) = Len(items)
         /\ \A i \in 1 .. Len(items) : ListFrames(items, inner)[i] = Frame(inner[items[i]])
<1>1. Len(items) \in Nat /\ DOMAIN items = 1 .. Len(items) /\ \A i \in 1 .. Len(items) : items[i] \in V
  OBVIOUS
<1>2. \A i \in 1 .. Len(items) : Frame(inner[items[i]]) \in Frames
  BY <1>1 DEF Frames, Coding
<1>3. ListFrames(items, inner) = [i \in 1 .. Len(items) |-> Frame(inner[items[i]])]
  BY <1>1 DEF ListFrames
<1> DEFINE F == ListFrames(items, inner)
           n == Len(items)
<1>4. F \in [1 .. n -> Frames] /\ \A i \in 1 .. n : F[i] = Frame(inner[items[i]])
  BY <1>2, <1>3
<1> HIDE DEF F
<1>5. F \in Seq(Frames) /\ Len(F) = n
  <2>1. n \in Nat
    BY <1>1
  <2> HIDE DEF n
  <2> QED
    BY <1>4, <2>1
<1> QED
  BY <1>4, <1>5 DEF F

LEMMA FramesOfSet ==
  ASSUME NEW V, NEW inner, Coding(V, inner), NEW items \in SUBSET V, IsFiniteSet(items)
  PROVE  /\ SetToSeq(SetFrames(items, inner)) \in Seq(Frames)
         /\ ToSet(SetToSeq(SetFrames(items, inner))) = SetFrames(items, inner)
<1> DEFINE F == SetFrames(items, inner)
           f == [u \in items |-> Frame(inner[u])]
<1>1. f \in Surjection(items, F)
  BY DEF Surjection, SetFrames
<1>2. IsFiniteSet(F)
  <2> HIDE DEF F, f
  <2> QED
    BY <1>1, FS_Surjection
<1>3. F \subseteq Frames
  BY DEF SetFrames, Frames, Coding
<1> HIDE DEF F
<1>4. SetToSeq(F) \in Seq(F) /\ ToSet(SetToSeq(F)) = F
  BY <1>2, SetListed
<1>5. SetToSeq(F) \in Seq(Frames)
  BY <1>3, <1>4, SeqMonotonic
<1> QED
  BY <1>4, <1>5 DEF F

(* The frames of a dict, one entry after the other.                           *)
EntryFrames(V, inner, s, f) ==
  /\ f \in Seq(Entries) /\ Len(f) = Len(s)
  /\ \A p \in 1 .. Len(s) : s[p] \in Keys \X V /\ f[p] = Frame(inner[s[p][1]]) \o Frame(inner[s[p][2]])

LEMMA FramesOfDict ==
  ASSUME NEW V, NEW inner, Coding(V, inner), NEW pairs \in Seq(Keys \X V)
  PROVE  EntryFrames(V, inner, SortedPairs(pairs), DictFrames(pairs, inner))
<1> DEFINE s == SortedPairs(pairs)
           F == DictFrames(pairs, inner)
<1>1. s \in Seq(Keys \X V)
  BY SortedIs
<1>2. F = [k \in DOMAIN s |-> Frame(inner[s[k][1]]) \o Frame(inner[s[k][2]])]
  BY DEF DictFrames
<1> HIDE DEF s, F
<1>3. Len(s) \in Nat /\ DOMAIN s = 1 .. Len(s) /\ \A k \in 1 .. Len(s) : s[k] \in Keys \X V
  BY <1>1
<1>4. ASSUME NEW k \in 1 .. Len(s) PROVE Frame(inner[s[k][1]]) \o Frame(inner[s[k][2]]) \in Entries
  <2>1. s[k][1] \in V /\ s[k][2] \in V
    BY <1>3 DEF Coding
  <2>2. Frame(inner[s[k][1]]) \in Frames /\ Frame(inner[s[k][2]]) \in Frames
    BY <2>1 DEF Frames, Coding
  <2> DEFINE f == Frame(inner[s[k][1]])
             g == Frame(inner[s[k][2]])
  <2> HIDE DEF f, g
  <2>3. f \in Frames /\ g \in Frames
    BY <2>2 DEF f, g
  <2>4. f \o g \in Entries
    <3>1. <<f, g>> \in Frames \X Frames /\ <<f, g>>[1] = f /\ <<f, g>>[2] = g
      BY <2>3
    <3> QED
      BY <3>1, Zenon DEF Entries
  <2> QED
    BY <2>4 DEF f, g
<1>5. F \in [1 .. Len(s) -> Entries]
  BY <1>2, <1>3, <1>4
<1>6. \A k \in 1 .. Len(s) : F[k] = Frame(inner[s[k][1]]) \o Frame(inner[s[k][2]])
  BY <1>2, <1>3
<1>7. F \in Seq(Entries) /\ Len(F) = Len(s)
  <2> DEFINE n == Len(s)
  <2>1. n \in Nat /\ F \in [1 .. n -> Entries]
    BY <1>3, <1>5
  <2> HIDE DEF n
  <2>2. F \in Seq(Entries) /\ Len(F) = n
    BY <2>1
  <2> QED
    BY <2>2 DEF n
<1>8. EntryFrames(V, inner, s, F)
  BY <1>3, <1>6, <1>7 DEF EntryFrames
<1> QED
  BY <1>8 DEF s, F

(* The bytes of a value are bytes, and tell its type and its body.            *)
LEMMA BodyIsBytes ==
  ASSUME NEW V, NEW inner, Coding(V, inner), NEW v \in Level(V)
  PROVE  v.type \in Types /\ Body(v, inner) \in Seq(Nat) /\ Encoded(v, inner) \in Seq(Nat)
<1>1. v.type \in Types /\ Body(v, inner) \in Seq(Nat)
  <2>1. CASE v.type \in Scalars /\ v.is \in Seq(Nat)
    BY <2>1, ScalarBody DEF Types
  <2>2. CASE v.type = "list" /\ v.is \in Seq(V)
    <3>1. FlattenSeq(ListFrames(v.is, inner)) \in Seq(Nat)
      BY <2>2, FramesOfList, FlatIsBytes, FramesDelimit
    <3> QED
      BY <2>2, <3>1, ContainerBody DEF Types
  <2>3. CASE v.type = "set" /\ v.is \in SUBSET V /\ IsFiniteSet(v.is)
    <3>1. FlattenSeq(SetToSeq(SetFrames(v.is, inner))) \in Seq(Nat)
      BY <2>3, FramesOfSet, FlatIsBytes, FramesDelimit
    <3> QED
      BY <2>3, <3>1, ContainerBody DEF Types
  <2>4. CASE v.type = "dict" /\ v.is \in Dicts(V)
    <3>1. FlattenSeq(DictFrames(v.is, inner)) \in Seq(Nat)
      BY <2>4, FramesOfDict, FlatIsBytes, EntriesDelimit DEF Dicts, EntryFrames
    <3> QED
      BY <2>4, <3>1, ContainerBody DEF Types
  <2>5. CASE v.type = "object" /\ v.is \in V
    <3>1. Frame(inner[v.is]) \in Seq(Nat)
      BY <2>5, FrameIs DEF Coding
    <3> QED
      BY <2>5, <3>1, ContainerBody DEF Types
  <2> QED
    BY <2>1, <2>2, <2>3, <2>4, <2>5, LevelCases
<1>2. <<Tag[v.type]>> \in Seq(Nat)
  BY <1>1, TagsDiffer
<1>3. Encoded(v, inner) \in Seq(Nat)
  BY <1>1, <1>2, EncodedIs, ConcatIs
<1> QED
  BY <1>1, <1>3

(* What follows one byte.                                                     *)
Follows(x, a, s) == a \in Seq(Nat) /\ Len(a) = 1 /\ s \in Seq(Nat) /\ x = a \o s

LEMMA FollowsIs ==
  ASSUME NEW x, NEW a, NEW s, Follows(x, a, s)
  PROVE  /\ s \in Seq(Nat) /\ Len(x) = 1 + Len(s) /\ x[1] = a[1]
         /\ \A k \in 1 .. Len(s) : x[1 + k] = s[k]
<1>1. a \in Seq(Nat) /\ Len(a) = 1 /\ s \in Seq(Nat) /\ x = a \o s
  BY DEF Follows
<1> DEFINE y == a \o s
<1>2. /\ Len(y) = Len(a) + Len(s)
      /\ \A k \in 1 .. Len(a) : y[k] = a[k]
      /\ \A k \in 1 .. Len(s) : y[Len(a) + k] = s[k]
  BY <1>1, ConcatIs
<1>3. x = y
  BY <1>1
<1> HIDE DEF y
<1> QED
  BY <1>1, <1>2, <1>3

LEMMA AfterOne ==
  ASSUME NEW x, NEW a, NEW b, NEW s, NEW t, Follows(x, a, s), Follows(x, b, t)
  PROVE  a[1] = b[1] /\ s = t
<1>1. s \in Seq(Nat) /\ Len(x) = 1 + Len(s) /\ x[1] = a[1] /\ \A k \in 1 .. Len(s) : x[1 + k] = s[k]
  BY FollowsIs
<1>2. t \in Seq(Nat) /\ Len(x) = 1 + Len(t) /\ x[1] = b[1] /\ \A k \in 1 .. Len(t) : x[1 + k] = t[k]
  BY FollowsIs
<1>3. Len(s) = Len(t)
  BY <1>1, <1>2
<1>4. \A k \in 1 .. Len(s) : s[k] = t[k]
  BY <1>1, <1>2, <1>3
<1>5. s = t
  BY <1>1, <1>2, <1>3, <1>4, SeqEqual
<1> QED
  BY <1>1, <1>2, <1>5

LEMMA EncodedApart ==
  ASSUME NEW u, NEW v, NEW inner, u.type \in Types, v.type \in Types,
         Body(u, inner) \in Seq(Nat), Body(v, inner) \in Seq(Nat),
         Encoded(u, inner) = Encoded(v, inner)
  PROVE  u.type = v.type /\ Body(u, inner) = Body(v, inner)
<1> DEFINE a == <<Tag[u.type]>>
           b == <<Tag[v.type]>>
           s == Body(u, inner)
           t == Body(v, inner)
           x == Encoded(u, inner)
<1>1. a \in Seq(Nat) /\ b \in Seq(Nat) /\ Len(a) = 1 /\ Len(b) = 1 /\ a[1] = Tag[u.type] /\ b[1] = Tag[v.type]
  BY TagsDiffer
<1>2. x = a \o s /\ x = b \o t
  BY EncodedIs
<1>3. s \in Seq(Nat) /\ t \in Seq(Nat)
  OBVIOUS
<1> HIDE DEF a, b, s, t, x
<1>4. Follows(x, a, s) /\ Follows(x, b, t)
  BY <1>1, <1>2, <1>3 DEF Follows
<1>5. a[1] = b[1] /\ s = t
  BY <1>4, AfterOne
<1>6. u.type = v.type
  BY <1>1, <1>5, TagsDiffer
<1> QED
  BY <1>5, <1>6 DEF s, t

-----------------------------------------------------------------------------
(* What a value says after its type.                                          *)
ListContent(items, mean) == [k \in DOMAIN items |-> mean[items[k]]]
SetContent(items, mean) == {mean[u] : u \in items}
DictContent(pairs, mean) == {<<pairs[k][1], mean[pairs[k][2]]>> : k \in DOMAIN pairs}

Content(v, mean) ==
  CASE v.type \in Scalars -> v.is
    [] v.type = "list" -> ListContent(v.is, mean)
    [] v.type = "set" -> SetContent(v.is, mean)
    [] v.type = "dict" -> DictContent(v.is, mean)
    [] v.type = "object" -> mean[v.is]

LEMMA SaysIs == \A v, mean : Says(v, mean) = <<v.type, Content(v, mean)>>
BY DEF Says, Content, ListContent, SetContent, DictContent

LEMMA ContentIs ==
  ASSUME NEW v, NEW mean
  PROVE  /\ v.type \in Scalars => Content(v, mean) = v.is
         /\ v.type = "list" => Content(v, mean) = ListContent(v.is, mean)
         /\ v.type = "set" => Content(v, mean) = SetContent(v.is, mean)
         /\ v.type = "dict" => Content(v, mean) = DictContent(v.is, mean)
         /\ v.type = "object" => Content(v, mean) = mean[v.is]
BY DEF Content, Scalars

(* inner has the bytes of the values V, and those tell what mean says of one. *)
Faithful(V, inner, mean) == \A a, b \in V : inner[a] = inner[b] => mean[a] = mean[b]
KeysTold(inner) == \A a, b \in Keys : inner[a] = inner[b] => a = b

LEMMA SameFrames ==
  ASSUME NEW V, NEW inner, Coding(V, inner), NEW a \in V, NEW b \in V, Frame(inner[a]) = Frame(inner[b])
  PROVE  inner[a] = inner[b]
<1>1. inner[a] \in Seq(Nat) /\ inner[b] \in Seq(Nat)
  BY DEF Coding
<1> QED
  BY <1>1, FrameInjective

(* The bytes of two lists are the same only if they hold the same,            *)
LEMMA ListsFaithful ==
  ASSUME NEW V, NEW inner, NEW mean, Coding(V, inner), Faithful(V, inner, mean),
         NEW s \in Seq(V), NEW t \in Seq(V),
         FlattenSeq(ListFrames(s, inner)) = FlattenSeq(ListFrames(t, inner))
  PROVE  ListContent(s, mean) = ListContent(t, mean)
<1> DEFINE f == ListFrames(s, inner)
           g == ListFrames(t, inner)
<1>1. /\ f \in Seq(Frames) /\ Len(f) = Len(s)
      /\ \A k \in 1 .. Len(s) : f[k] = Frame(inner[s[k]])
  BY FramesOfList
<1>2. /\ g \in Seq(Frames) /\ Len(g) = Len(t)
      /\ \A k \in 1 .. Len(t) : g[k] = Frame(inner[t[k]])
  BY FramesOfList
<1>3. FlattenSeq(f) = FlattenSeq(g)
  OBVIOUS
<1> HIDE DEF f, g
<1>4. f = g
  BY <1>1, <1>2, <1>3, FramesDelimit, BlocksReadBack
<1>5. /\ DOMAIN s = 1 .. Len(s) /\ DOMAIN t = 1 .. Len(s)
      /\ \A k \in 1 .. Len(s) : s[k] \in V /\ t[k] \in V
  BY <1>1, <1>2, <1>4
<1>6. ASSUME NEW k \in 1 .. Len(s) PROVE mean[s[k]] = mean[t[k]]
  <2>1. Frame(inner[s[k]]) = Frame(inner[t[k]])
    BY <1>1, <1>2, <1>4
  <2>2. s[k] \in V /\ t[k] \in V
    BY <1>5
  <2>3. inner[s[k]] = inner[t[k]]
    BY <2>1, <2>2, SameFrames
  <2> QED
    BY <2>2, <2>3 DEF Faithful
<1> QED
  BY <1>5, <1>6 DEF ListContent

(* of two sets,                                                               *)
LEMMA SetsFaithful ==
  ASSUME NEW V, NEW inner, NEW mean, Coding(V, inner), Faithful(V, inner, mean),
         NEW s \in SUBSET V, NEW t \in SUBSET V, IsFiniteSet(s), IsFiniteSet(t),
         FlattenSeq(SetToSeq(SetFrames(s, inner))) = FlattenSeq(SetToSeq(SetFrames(t, inner)))
  PROVE  SetContent(s, mean) = SetContent(t, mean)
<1> DEFINE f == SetToSeq(SetFrames(s, inner))
           g == SetToSeq(SetFrames(t, inner))
<1>1. f \in Seq(Frames) /\ ToSet(f) = SetFrames(s, inner)
  BY FramesOfSet
<1>2. g \in Seq(Frames) /\ ToSet(g) = SetFrames(t, inner)
  BY FramesOfSet
<1>3. FlattenSeq(f) = FlattenSeq(g)
  OBVIOUS
<1> HIDE DEF f, g
<1>4. f = g
  BY <1>1, <1>2, <1>3, FramesDelimit, BlocksReadBack
<1>5. SetFrames(s, inner) = SetFrames(t, inner)
  BY <1>1, <1>2, <1>4
<1>6. ASSUME NEW a \in s PROVE \E b \in t : mean[a] = mean[b]
  <2>1. PICK b \in t : Frame(inner[a]) = Frame(inner[b])
    BY <1>5 DEF SetFrames
  <2>2. inner[a] = inner[b]
    BY <2>1, SameFrames
  <2> QED
    BY <2>2 DEF Faithful
<1>7. ASSUME NEW b \in t PROVE \E a \in s : mean[a] = mean[b]
  <2>1. PICK a \in s : Frame(inner[a]) = Frame(inner[b])
    BY <1>5 DEF SetFrames
  <2>2. inner[a] = inner[b]
    BY <2>1, SameFrames
  <2> QED
    BY <2>2 DEF Faithful
<1> QED
  BY <1>6, <1>7 DEF SetContent

(* and of two dicts.                                                          *)
LEMMA DictsFaithful ==
  ASSUME NEW V, NEW inner, NEW mean, Coding(V, inner), Faithful(V, inner, mean), KeysTold(inner),
         NEW s \in Seq(Keys \X V), NEW t \in Seq(Keys \X V),
         FlattenSeq(DictFrames(s, inner)) = FlattenSeq(DictFrames(t, inner))
  PROVE  DictContent(s, mean) = DictContent(t, mean)
<1> DEFINE x == SortedPairs(s)
           y == SortedPairs(t)
           f == DictFrames(s, inner)
           g == DictFrames(t, inner)
<1>1. EntryFrames(V, inner, x, f)
  BY FramesOfDict
<1>2. EntryFrames(V, inner, y, g)
  BY FramesOfDict
<1>3. FlattenSeq(f) = FlattenSeq(g)
  OBVIOUS
<1>4. /\ Len(x) = Len(s)
      /\ \A p \in 1 .. Len(s) : \E j \in 1 .. Len(s) : x[p] = s[j]
      /\ \A j \in 1 .. Len(s) : \E p \in 1 .. Len(s) : x[p] = s[j]
  BY SortedIs
<1>5. /\ Len(y) = Len(t)
      /\ \A p \in 1 .. Len(t) : \E j \in 1 .. Len(t) : y[p] = t[j]
      /\ \A j \in 1 .. Len(t) : \E p \in 1 .. Len(t) : y[p] = t[j]
  BY SortedIs
<1>6. DOMAIN s = 1 .. Len(s) /\ DOMAIN t = 1 .. Len(t)
  OBVIOUS
<1> HIDE DEF x, y, f, g
<1>7. f = g
  BY <1>1, <1>2, <1>3, EntriesDelimit, BlocksReadBack DEF EntryFrames
<1>8. Len(s) = Len(t)
  BY <1>1, <1>2, <1>4, <1>5, <1>7 DEF EntryFrames
<1>9. ASSUME NEW p \in 1 .. Len(s) PROVE x[p][1] = y[p][1] /\ mean[x[p][2]] = mean[y[p][2]]
  <2>1. x[p] \in Keys \X V /\ y[p] \in Keys \X V
    BY <1>1, <1>2, <1>4, <1>5, <1>8 DEF EntryFrames
  <2>2. x[p][1] \in Keys /\ x[p][2] \in V /\ y[p][1] \in Keys /\ y[p][2] \in V
    BY <2>1
  <2>3. x[p][1] \in V /\ y[p][1] \in V
    BY <2>2 DEF Coding
  <2> DEFINE c == Frame(inner[x[p][1]])
             d == Frame(inner[x[p][2]])
             a == Frame(inner[y[p][1]])
             b == Frame(inner[y[p][2]])
  <2>4. c \in Frames /\ d \in Frames /\ a \in Frames /\ b \in Frames
    BY <2>2, <2>3 DEF Frames, Coding
  <2>5. f[p] = c \o d /\ g[p] = a \o b
    BY <1>1, <1>2, <1>4, <1>5, <1>8 DEF EntryFrames
  <2> HIDE DEF a, b, c, d
  <2>6. Agree(c \o d, a \o b)
    BY <1>7, <2>5 DEF Agree
  <2>7. c = a /\ d = b
    BY <2>4, <2>6, EntryParts
  <2>8. inner[x[p][1]] = inner[y[p][1]]
    BY <2>3, <2>7, SameFrames DEF a, c
  <2>9. inner[x[p][2]] = inner[y[p][2]]
    BY <2>2, <2>7, SameFrames DEF b, d
  <2> QED
    BY <2>2, <2>8, <2>9 DEF Faithful, KeysTold
<1>10. ASSUME NEW k \in DOMAIN s PROVE \E j \in DOMAIN t : t[j][1] = s[k][1] /\ mean[t[j][2]] = mean[s[k][2]]
  <2>1. PICK p \in 1 .. Len(s) : x[p] = s[k]
    BY <1>4, <1>6
  <2>2. PICK j \in 1 .. Len(t) : y[p] = t[j]
    BY <1>5, <1>8
  <2> QED
    BY <1>6, <1>9, <2>1, <2>2
<1>11. ASSUME NEW k \in DOMAIN t PROVE \E j \in DOMAIN s : t[k][1] = s[j][1] /\ mean[t[k][2]] = mean[s[j][2]]
  <2>1. PICK p \in 1 .. Len(t) : y[p] = t[k]
    BY <1>5, <1>6
  <2>2. PICK j \in 1 .. Len(s) : x[p] = s[j]
    BY <1>4, <1>8
  <2> QED
    BY <1>6, <1>8, <1>9, <2>1, <2>2
<1>12. DictContent(s, mean) \subseteq DictContent(t, mean)
  <2> SUFFICES ASSUME NEW c \in DictContent(s, mean) PROVE c \in DictContent(t, mean)
    OBVIOUS
  <2>1. PICK k \in DOMAIN s : c = <<s[k][1], mean[s[k][2]]>>
    BY DEF DictContent
  <2>2. PICK j \in DOMAIN t : t[j][1] = s[k][1] /\ mean[t[j][2]] = mean[s[k][2]]
    BY <1>10
  <2> QED
    BY <2>1, <2>2 DEF DictContent
<1>13. DictContent(t, mean) \subseteq DictContent(s, mean)
  <2> SUFFICES ASSUME NEW c \in DictContent(t, mean) PROVE c \in DictContent(s, mean)
    OBVIOUS
  <2>1. PICK k \in DOMAIN t : c = <<t[k][1], mean[t[k][2]]>>
    BY DEF DictContent
  <2>2. PICK j \in DOMAIN s : t[k][1] = s[j][1] /\ mean[t[k][2]] = mean[s[j][2]]
    BY <1>11
  <2> QED
    BY <2>1, <2>2 DEF DictContent
<1> QED
  BY <1>12, <1>13

(* So the bytes of a value tell what it says, if those of what it holds do.   *)
LEMMA StepFaithful ==
  ASSUME NEW V, NEW inner, NEW mean, Coding(V, inner), Faithful(V, inner, mean), KeysTold(inner),
         NEW u \in Level(V), NEW v \in Level(V), Encoded(u, inner) = Encoded(v, inner)
  PROVE  Says(u, mean) = Says(v, mean)
<1>1. u.type = v.type /\ Body(u, inner) = Body(v, inner)
  <2>1. u.type \in Types /\ Body(u, inner) \in Seq(Nat)
    BY BodyIsBytes
  <2>2. v.type \in Types /\ Body(v, inner) \in Seq(Nat)
    BY BodyIsBytes
  <2> QED
    BY <2>1, <2>2, EncodedApart
<1>2. Content(u, mean) = Content(v, mean)
  <2>1. CASE u.type \in Scalars
    BY <1>1, <2>1, ScalarBody, ContentIs
  <2>2. CASE u.type = "list"
    <3>1. u.is \in Seq(V) /\ v.is \in Seq(V)
      BY <1>1, <2>2, LevelCases DEF Scalars
    <3>2. FlattenSeq(ListFrames(u.is, inner)) = FlattenSeq(ListFrames(v.is, inner))
      BY <1>1, <2>2, ContainerBody
    <3>3. ListContent(u.is, mean) = ListContent(v.is, mean)
      BY <3>1, <3>2, ListsFaithful
    <3> QED
      BY <1>1, <2>2, <3>3, ContentIs
  <2>3. CASE u.type = "set"
    <3>1. u.is \in SUBSET V /\ v.is \in SUBSET V /\ IsFiniteSet(u.is) /\ IsFiniteSet(v.is)
      BY <1>1, <2>3, LevelCases DEF Scalars
    <3>2. FlattenSeq(SetToSeq(SetFrames(u.is, inner))) = FlattenSeq(SetToSeq(SetFrames(v.is, inner)))
      BY <1>1, <2>3, ContainerBody
    <3>3. SetContent(u.is, mean) = SetContent(v.is, mean)
      BY <3>1, <3>2, SetsFaithful
    <3> QED
      BY <1>1, <2>3, <3>3, ContentIs
  <2>4. CASE u.type = "dict"
    <3>1. u.is \in Seq(Keys \X V) /\ v.is \in Seq(Keys \X V)
      BY <1>1, <2>4, LevelCases DEF Scalars, Dicts
    <3>2. FlattenSeq(DictFrames(u.is, inner)) = FlattenSeq(DictFrames(v.is, inner))
      BY <1>1, <2>4, ContainerBody
    <3>3. DictContent(u.is, mean) = DictContent(v.is, mean)
      BY <3>1, <3>2, DictsFaithful
    <3> QED
      BY <1>1, <2>4, <3>3, ContentIs
  <2>5. CASE u.type = "object"
    <3>1. u.is \in V /\ v.is \in V
      BY <1>1, <2>5, LevelCases DEF Scalars
    <3>2. Frame(inner[u.is]) = Frame(inner[v.is])
      BY <1>1, <2>5, ContainerBody
    <3>3. inner[u.is] = inner[v.is]
      BY <3>1, <3>2, SameFrames
    <3>4. mean[u.is] = mean[v.is]
      BY <3>1, <3>3 DEF Faithful
    <3> QED
      BY <1>1, <2>5, <3>4, ContentIs
  <2>6. u.type \in Types
    BY BodyIsBytes
  <2> QED
    BY <2>1, <2>2, <2>3, <2>4, <2>5, <2>6 DEF Types
<1> QED
  BY <1>1, <1>2, SaysIs

-----------------------------------------------------------------------------
(* What says the same as one of S has its bytes, and is one of S.             *)
Closed(S, V, inner, mean) ==
  /\ S \subseteq V
  /\ \A a \in S, b \in V : mean[a] = mean[b] => inner[a] = inner[b] /\ b \in S

LEMMA ListsStable ==
  ASSUME NEW V, NEW S, NEW inner, NEW mean, Closed(S, V, inner, mean),
         NEW s \in Seq(V), NEW t \in Seq(V), \A i \in DOMAIN s : s[i] \in S,
         ListContent(s, mean) = ListContent(t, mean)
  PROVE  ListFrames(s, inner) = ListFrames(t, inner) /\ \A i \in DOMAIN t : t[i] \in S
<1>1. DOMAIN s = DOMAIN t
  BY DEF ListContent
<1>2. ASSUME NEW k \in DOMAIN s PROVE mean[s[k]] = mean[t[k]]
  <2>1. ListContent(s, mean)[k] = mean[s[k]] /\ ListContent(t, mean)[k] = mean[t[k]]
    BY <1>1 DEF ListContent
  <2> QED
    BY <2>1
<1>3. ASSUME NEW k \in DOMAIN s PROVE inner[s[k]] = inner[t[k]] /\ t[k] \in S
  <2>1. s[k] \in S /\ t[k] \in V
    BY <1>1
  <2> QED
    BY <1>2, <2>1 DEF Closed
<1> QED
  BY <1>1, <1>3 DEF ListFrames

LEMMA SetsStable ==
  ASSUME NEW V, NEW S, NEW inner, NEW mean, Closed(S, V, inner, mean),
         NEW s \in SUBSET V, NEW t \in SUBSET V, s \subseteq S,
         SetContent(s, mean) = SetContent(t, mean)
  PROVE  SetFrames(s, inner) = SetFrames(t, inner) /\ t \subseteq S
<1>1. ASSUME NEW b \in t PROVE b \in S /\ \E a \in s : inner[a] = inner[b]
  <2>1. PICK a \in s : mean[a] = mean[b]
    BY DEF SetContent
  <2> QED
    BY <2>1 DEF Closed
<1>2. ASSUME NEW a \in s PROVE \E b \in t : inner[a] = inner[b]
  <2>1. PICK b \in t : mean[a] = mean[b]
    BY DEF SetContent
  <2> QED
    BY <2>1 DEF Closed
<1> QED
  BY <1>1, <1>2 DEF SetFrames

LEMMA SameEntries ==
  ASSUME NEW s, NEW t, NEW mean, DictContent(s, mean) = DictContent(t, mean), NEW i \in DOMAIN s
  PROVE  \E j \in DOMAIN t : s[i][1] = t[j][1] /\ mean[s[i][2]] = mean[t[j][2]]
<1> DEFINE c == <<s[i][1], mean[s[i][2]]>>
<1>1. c \in DictContent(t, mean)
  BY DEF DictContent
<1>2. PICK j \in DOMAIN t : c = <<t[j][1], mean[t[j][2]]>>
  BY <1>1 DEF DictContent
<1> QED
  BY <1>2

LEMMA DictsStable ==
  ASSUME NEW V, NEW S, NEW inner, NEW mean, Closed(S, V, inner, mean),
         NEW s \in Dicts(V), NEW t \in Dicts(V), ApartTexts(s), \A i \in DOMAIN s : s[i][2] \in S,
         DictContent(s, mean) = DictContent(t, mean)
  PROVE  /\ DictFrames(s, inner) = DictFrames(t, inner)
         /\ ApartTexts(t) /\ \A i \in DOMAIN t : t[i][2] \in S
<1>1. /\ s \in Seq(Keys \X V) /\ \A i, j \in DOMAIN s : s[i][1] = s[j][1] => i = j
      /\ t \in Seq(Keys \X V) /\ \A i, j \in DOMAIN t : t[i][1] = t[j][1] => i = j
  BY DEF Dicts
<1>2. /\ DOMAIN s = 1 .. Len(s) /\ DOMAIN t = 1 .. Len(t)
      /\ \A i \in DOMAIN s : s[i][1] \in Keys /\ s[i][2] \in V
      /\ \A i \in DOMAIN t : t[i][1] \in Keys /\ t[i][2] \in V
  BY <1>1
<1>3. \A i \in DOMAIN s : \E j \in DOMAIN t : s[i][1] = t[j][1] /\ mean[s[i][2]] = mean[t[j][2]]
  BY SameEntries
<1>4. \A j \in DOMAIN t : \E i \in DOMAIN s : t[j][1] = s[i][1] /\ mean[t[j][2]] = mean[s[i][2]]
  BY SameEntries
<1>5. ASSUME NEW i \in DOMAIN t, NEW j \in DOMAIN t, TextOf(t[i][1]) = TextOf(t[j][1]) PROVE i = j
  <2>1. PICK k \in DOMAIN s : t[i][1] = s[k][1]
    BY <1>4
  <2>2. PICK l \in DOMAIN s : t[j][1] = s[l][1]
    BY <1>4
  <2>3. k = l
    BY <1>5, <2>1, <2>2 DEF ApartTexts
  <2> QED
    BY <1>1, <2>1, <2>2, <2>3
<1>6. ApartTexts(t)
  BY <1>5, Zenon DEF ApartTexts
<1>7. \A i \in DOMAIN t : t[i][2] \in S
  BY <1>2, <1>4 DEF Closed
<1> DEFINE x == SortedPairs(s)
           y == SortedPairs(t)
<1>8. SortedToSameKeys(x, y)
  <2>1. SameKeys(s, t)
    BY <1>2, <1>3, <1>4 DEF SameKeys
  <2> QED
    BY <1>1, <1>6, <2>1, SortedAlike
<1>9. x \in Seq(Keys \X V) /\ Len(x) = Len(s) /\ \A p \in 1 .. Len(s) : \E j \in 1 .. Len(s) : x[p] = s[j]
  BY <1>1, SortedIs
<1>10. y \in Seq(Keys \X V) /\ Len(y) = Len(t) /\ \A p \in 1 .. Len(t) : \E j \in 1 .. Len(t) : y[p] = t[j]
  BY <1>1, SortedIs
<1> HIDE DEF x, y
<1>11. DOMAIN x = 1 .. Len(s) /\ DOMAIN y = 1 .. Len(s)
  <2>1. DOMAIN x = 1 .. Len(x) /\ DOMAIN y = 1 .. Len(y)
    BY <1>9, <1>10
  <2> QED
    BY <1>8, <1>9, <2>1 DEF SortedToSameKeys
<1>12. ASSUME NEW p \in 1 .. Len(s) PROVE inner[x[p][1]] = inner[y[p][1]] /\ inner[x[p][2]] = inner[y[p][2]]
  <2>1. PICK i \in DOMAIN s : x[p] = s[i]
    BY <1>2, <1>9
  <2>2. PICK j \in DOMAIN t : y[p] = t[j]
    BY <1>2, <1>8, <1>9, <1>10 DEF SortedToSameKeys
  <2>3. PICK k \in DOMAIN t : s[i][1] = t[k][1] /\ mean[s[i][2]] = mean[t[k][2]]
    BY <1>3
  <2>4. x[p][1] = y[p][1]
    BY <1>8, <1>9 DEF SortedToSameKeys
  <2>5. j = k
    BY <1>1, <2>1, <2>2, <2>3, <2>4
  <2>6. s[i][2] \in S /\ t[j][2] \in V
    BY <1>2
  <2>7. inner[s[i][2]] = inner[t[j][2]]
    BY <2>3, <2>5, <2>6 DEF Closed
  <2> QED
    BY <2>1, <2>2, <2>4, <2>7
<1>13. DictFrames(s, inner) = DictFrames(t, inner)
  <2>1. DictFrames(s, inner) = [k \in DOMAIN x |-> Frame(inner[x[k][1]]) \o Frame(inner[x[k][2]])]
    BY DEF x, DictFrames
  <2>2. DictFrames(t, inner) = [k \in DOMAIN y |-> Frame(inner[y[k][1]]) \o Frame(inner[y[k][2]])]
    BY DEF y, DictFrames
  <2> QED
    BY <1>11, <1>12, <2>1, <2>2
<1> QED
  BY <1>6, <1>7, <1>13

(* A value without two keys of one text has the bytes of what says the same.  *)
LEMMA StepStable ==
  ASSUME NEW V, NEW S, NEW inner, NEW mean, Coding(V, inner), Closed(S, V, inner, mean),
         NEW u \in Level(V), NEW v \in Level(V), KeysApart(u, S), Says(u, mean) = Says(v, mean)
  PROVE  Encoded(u, inner) = Encoded(v, inner) /\ KeysApart(v, S)
<1>1. u.type = v.type /\ Content(u, mean) = Content(v, mean)
  BY SaysIs
<1>2. SUFFICES Body(u, inner) = Body(v, inner) /\ KeysApart(v, S)
  BY <1>1, EncodedIs
<1>3. CASE u.type \in Scalars
  <2>1. u.is = v.is
    BY <1>1, <1>3, ContentIs
  <2>2. Body(u, inner) = Body(v, inner)
    BY <1>1, <1>3, <2>1, ScalarBody
  <2> QED
    BY <1>1, <1>3, <2>2 DEF KeysApart
<1>4. CASE u.type = "list"
  <2>1. u.is \in Seq(V) /\ v.is \in Seq(V)
    BY <1>1, <1>4, LevelCases DEF Scalars
  <2>2. \A i \in DOMAIN u.is : u.is[i] \in S
    BY <1>4 DEF KeysApart, Scalars
  <2>3. ListContent(u.is, mean) = ListContent(v.is, mean)
    BY <1>1, <1>4, ContentIs
  <2>4. ListFrames(u.is, inner) = ListFrames(v.is, inner) /\ \A i \in DOMAIN v.is : v.is[i] \in S
    BY <2>1, <2>2, <2>3, ListsStable
  <2>5. Body(u, inner) = Body(v, inner)
    BY <1>1, <1>4, <2>4, ContainerBody
  <2> QED
    BY <1>1, <1>4, <2>4, <2>5 DEF KeysApart
<1>5. CASE u.type = "set"
  <2>1. u.is \in SUBSET V /\ v.is \in SUBSET V
    BY <1>1, <1>5, LevelCases DEF Scalars
  <2>2. u.is \subseteq S
    BY <1>5 DEF KeysApart, Scalars
  <2>3. SetContent(u.is, mean) = SetContent(v.is, mean)
    BY <1>1, <1>5, ContentIs
  <2>4. SetFrames(u.is, inner) = SetFrames(v.is, inner) /\ v.is \subseteq S
    BY <2>1, <2>2, <2>3, SetsStable
  <2>5. Body(u, inner) = Body(v, inner)
    BY <1>1, <1>5, <2>4, ContainerBody
  <2> QED
    BY <1>1, <1>5, <2>4, <2>5 DEF KeysApart
<1>6. CASE u.type = "dict"
  <2>1. u.is \in Dicts(V) /\ v.is \in Dicts(V)
    BY <1>1, <1>6, LevelCases DEF Scalars
  <2>2. ApartTexts(u.is) /\ \A i \in DOMAIN u.is : u.is[i][2] \in S
    BY <1>6 DEF KeysApart, Scalars, ApartTexts
  <2>3. DictContent(u.is, mean) = DictContent(v.is, mean)
    BY <1>1, <1>6, ContentIs
  <2>4. /\ DictFrames(u.is, inner) = DictFrames(v.is, inner)
        /\ ApartTexts(v.is) /\ \A i \in DOMAIN v.is : v.is[i][2] \in S
    BY <2>1, <2>2, <2>3, DictsStable
  <2>5. Body(u, inner) = Body(v, inner)
    BY <1>1, <1>6, <2>4, ContainerBody
  <2> QED
    BY <1>1, <1>6, <2>4, <2>5 DEF KeysApart, ApartTexts
<1>7. CASE u.type = "object"
  <2>1. u.is \in V /\ v.is \in V
    BY <1>1, <1>7, LevelCases DEF Scalars
  <2>2. u.is \in S
    BY <1>7 DEF KeysApart, Scalars
  <2>3. mean[u.is] = mean[v.is]
    BY <1>1, <1>7, ContentIs
  <2>4. inner[u.is] = inner[v.is] /\ v.is \in S
    BY <2>1, <2>2, <2>3 DEF Closed
  <2>5. Body(u, inner) = Body(v, inner)
    BY <1>1, <1>7, <2>4, ContainerBody
  <2> QED
    BY <1>1, <1>7, <2>4, <2>5 DEF KeysApart
<1>8. u.type \in Types
  BY BodyIsBytes
<1> QED
  BY <1>3, <1>4, <1>5, <1>6, <1>7, <1>8 DEF Types

-----------------------------------------------------------------------------
ScalarValues == [type : Scalars, is : Seq(Nat)]

(* Each level is made of the one below it, and a scalar is of every level.    *)
LEMMA LevelsAre ==
  /\ MaxNesting \in Nat /\ MaxNesting >= 2
  /\ Data[0] = ScalarValues
  /\ \A k \in 1 .. MaxNesting : Data[k] = Level(Data[k - 1])
  /\ \A k \in 0 .. MaxNesting : ScalarValues \subseteq Data[k] /\ Keys \subseteq Data[k]
<1>1. MaxNesting \in Nat /\ MaxNesting >= 2
  BY HashAssumption
<1>2. Data[0] = ScalarValues
  BY DataIs DEF ScalarValues
<1>3. \A k \in 1 .. MaxNesting : Data[k] = Level(Data[k - 1])
  BY DataIs DEF Level
<1>4. ASSUME NEW k \in 0 .. MaxNesting PROVE ScalarValues \subseteq Data[k]
  <2>1. CASE k = 0
    BY <1>2, <2>1
  <2>2. CASE k \in 1 .. MaxNesting
    BY <1>3, <2>2 DEF Level, ScalarValues
  <2> QED
    BY <1>1, <2>1, <2>2
<1>5. Keys \subseteq ScalarValues
  BY HashAssumption DEF ScalarValues, Scalars
<1> QED
  BY <1>1, <1>2, <1>3, <1>4, <1>5

(* The bytes, and what is said, of the level below: none under a scalar.      *)
Below(f, k) == IF k = 0 THEN <<>> ELSE f[k - 1]

LEMMA ByLevel ==
  ASSUME NEW k \in 0 .. MaxNesting, NEW u \in Data[k]
  PROVE  Bytes[k][u] = Encoded(u, Below(Bytes, k)) /\ Meanings[k][u] = Says(u, Below(Meanings, k))
<1>1. Bytes[k][u] = Encoded(u, Below(Bytes, k))
  BY BytesAre DEF Below
<1>2. Meanings[k][u] = Says(u, Below(Meanings, k))
  BY MeaningsAre DEF Below
<1> QED
  BY <1>1, <1>2

LEMMA ScalarsTold ==
  ASSUME NEW u \in ScalarValues, NEW v \in ScalarValues, NEW inner, NEW mean
  PROVE  /\ Encoded(u, inner) \in Seq(Nat)
         /\ Encoded(u, inner) = Encoded(v, inner) => u = v
         /\ Says(u, mean) = Says(v, mean) => u = v
<1>1. /\ u.type \in Scalars /\ u.is \in Seq(Nat) /\ v.type \in Scalars /\ v.is \in Seq(Nat)
      /\ (u.type = v.type /\ u.is = v.is => u = v)
  BY DEF ScalarValues
<1>2. u.type \in Types /\ v.type \in Types
  BY <1>1 DEF Types
<1>3. Body(u, inner) = u.is /\ Body(v, inner) = v.is
  BY <1>1, ScalarBody
<1>4. Encoded(u, inner) \in Seq(Nat)
  <2>1. <<Tag[u.type]>> \in Seq(Nat)
    BY <1>2, TagsDiffer
  <2> QED
    BY <1>1, <1>3, <2>1, EncodedIs, ConcatIs
<1>5. ASSUME Encoded(u, inner) = Encoded(v, inner) PROVE u = v
  <2>1. Body(u, inner) \in Seq(Nat) /\ Body(v, inner) \in Seq(Nat)
    BY <1>1, <1>3
  <2>2. u.type = v.type /\ Body(u, inner) = Body(v, inner)
    BY <1>2, <1>5, <2>1, EncodedApart
  <2> QED
    BY <1>1, <1>3, <2>2
<1>6. ASSUME Says(u, mean) = Says(v, mean) PROVE u = v
  <2>1. u.type = v.type /\ Content(u, mean) = Content(v, mean)
    BY <1>6, SaysIs
  <2> QED
    BY <1>1, <2>1, ContentIs
<1> QED
  BY <1>4, <1>5, <1>6

(* At every level values have bytes, and the bytes of a key tell the key.     *)
LEMMA AllCoded == \A k \in 0 .. MaxNesting : Coding(Data[k], Bytes[k])
<1> DEFINE T == {k \in 0 .. MaxNesting : Coding(Data[k], Bytes[k])}
<1>1. ASSUME NEW k \in 0 .. MaxNesting, \A u \in Data[k] : Encoded(u, Below(Bytes, k)) \in Seq(Nat)
      PROVE  k \in T
  <2>1. \A u \in Data[k] : Bytes[k][u] \in Seq(Nat)
    BY <1>1, ByLevel
  <2>2. Bytes[k] = [u \in Data[k] |-> Bytes[k][u]]
    BY BytesAre
  <2>3. Bytes[k] \in [Data[k] -> Seq(Nat)]
    <3> DEFINE b == Bytes[k]
    <3> HIDE DEF b
    <3>1. b = [u \in Data[k] |-> b[u]] /\ \A u \in Data[k] : b[u] \in Seq(Nat)
      BY <2>1, <2>2 DEF b
    <3>2. b \in [Data[k] -> Seq(Nat)]
      BY <3>1
    <3> QED
      BY <3>2 DEF b
  <2> QED
    BY <2>3, LevelsAre DEF Coding
<1>2. 0 \in T
  <2>1. \A u \in Data[0] : Encoded(u, Below(Bytes, 0)) \in Seq(Nat)
    BY LevelsAre, ScalarsTold
  <2>2. 0 \in 0 .. MaxNesting
    BY LevelsAre
  <2> QED
    BY <1>1, <2>1, <2>2
<1>3. ASSUME NEW k \in 1 .. MaxNesting, k - 1 \in T PROVE k \in T
  <2>1. Coding(Data[k - 1], Bytes[k - 1])
    BY <1>3
  <2>2. \A u \in Level(Data[k - 1]) : Encoded(u, Bytes[k - 1]) \in Seq(Nat)
    BY <2>1, BodyIsBytes
  <2>3. Data[k] = Level(Data[k - 1]) /\ Below(Bytes, k) = Bytes[k - 1] /\ k \in 0 .. MaxNesting
    BY LevelsAre DEF Below
  <2>4. \A u \in Data[k] : Encoded(u, Below(Bytes, k)) \in Seq(Nat)
    BY <2>2, <2>3
  <2> QED
    BY <1>1, <2>3, <2>4
<1> HIDE DEF T
<1>4. \A k \in 0 .. MaxNesting : k \in T
  BY <1>2, <1>3, LevelsAre, Upwards
<1> QED
  BY <1>4 DEF T

LEMMA ScalarBytesTell ==
  ASSUME NEW k \in 0 .. MaxNesting, NEW a \in ScalarValues, NEW b \in ScalarValues
  PROVE  /\ Bytes[k][a] = Bytes[k][b] => a = b
         /\ Meanings[k][a] = Meanings[k][b] => a = b
<1>1. a \in Data[k] /\ b \in Data[k]
  BY LevelsAre
<1>2. /\ Bytes[k][a] = Encoded(a, Below(Bytes, k)) /\ Bytes[k][b] = Encoded(b, Below(Bytes, k))
      /\ Meanings[k][a] = Says(a, Below(Meanings, k)) /\ Meanings[k][b] = Says(b, Below(Meanings, k))
  BY <1>1, ByLevel
<1> QED
  BY <1>2, ScalarsTold

LEMMA AllKeysTold == \A k \in 0 .. MaxNesting : KeysTold(Bytes[k])
<1>1. Keys \subseteq ScalarValues
  BY HashAssumption DEF ScalarValues, Scalars
<1> QED
  BY <1>1, ScalarBytesTell DEF KeysTold

(* At every level the bytes of a value tell what it says,                     *)
LEMMA AllFaithful == \A k \in 0 .. MaxNesting : Faithful(Data[k], Bytes[k], Meanings[k])
<1> DEFINE T == {k \in 0 .. MaxNesting : Faithful(Data[k], Bytes[k], Meanings[k])}
<1>1. 0 \in T
  <2>1. 0 \in 0 .. MaxNesting
    BY LevelsAre
  <2>2. ASSUME NEW a \in Data[0], NEW b \in Data[0], Bytes[0][a] = Bytes[0][b] PROVE a = b
    <3>1. Encoded(a, Below(Bytes, 0)) = Encoded(b, Below(Bytes, 0))
      BY <2>1, <2>2, ByLevel
    <3> QED
      BY <3>1, LevelsAre, ScalarsTold
  <2> QED
    BY <2>1, <2>2 DEF Faithful
<1>2. ASSUME NEW k \in 1 .. MaxNesting, k - 1 \in T PROVE k \in T
  <2>1. k \in 0 .. MaxNesting /\ k - 1 \in 0 .. MaxNesting
    BY LevelsAre
  <2>2. Faithful(Data[k - 1], Bytes[k - 1], Meanings[k - 1])
    BY <1>2
  <2>3. Coding(Data[k - 1], Bytes[k - 1]) /\ KeysTold(Bytes[k - 1])
    BY <2>1, AllCoded, AllKeysTold
  <2>4. Data[k] = Level(Data[k - 1]) /\ Below(Bytes, k) = Bytes[k - 1] /\ Below(Meanings, k) = Meanings[k - 1]
    BY LevelsAre DEF Below
  <2>5. ASSUME NEW a \in Data[k], NEW b \in Data[k], Bytes[k][a] = Bytes[k][b]
        PROVE  Meanings[k][a] = Meanings[k][b]
    <3>1. /\ Bytes[k][a] = Encoded(a, Bytes[k - 1]) /\ Bytes[k][b] = Encoded(b, Bytes[k - 1])
          /\ Meanings[k][a] = Says(a, Meanings[k - 1]) /\ Meanings[k][b] = Says(b, Meanings[k - 1])
      BY <2>1, <2>4, ByLevel
    <3>2. a \in Level(Data[k - 1]) /\ b \in Level(Data[k - 1]) /\ Encoded(a, Bytes[k - 1]) = Encoded(b, Bytes[k - 1])
      BY <2>4, <2>5, <3>1
    <3>3. Says(a, Meanings[k - 1]) = Says(b, Meanings[k - 1])
      BY <2>2, <2>3, <3>2, StepFaithful
    <3> QED
      BY <3>1, <3>3
  <2> QED
    BY <2>1, <2>5 DEF Faithful
<1> HIDE DEF T
<1>3. \A k \in 0 .. MaxNesting : k \in T
  BY <1>1, <1>2, LevelsAre, Upwards
<1> QED
  BY <1>3 DEF T

(* and one without two keys of one text has the bytes of what says the same.  *)
LEMMA AllClosed == \A k \in 0 .. MaxNesting : Closed(Unambiguous[k], Data[k], Bytes[k], Meanings[k])
<1> DEFINE T == {k \in 0 .. MaxNesting : Closed(Unambiguous[k], Data[k], Bytes[k], Meanings[k])}
<1>1. 0 \in T
  <2>1. 0 \in 0 .. MaxNesting
    BY LevelsAre
  <2>2. Unambiguous[0] \subseteq Data[0]
    BY <2>1, UnambiguousIs
  <2>3. ASSUME NEW a \in Data[0], NEW b \in Data[0], Meanings[0][a] = Meanings[0][b] PROVE a = b
    <3>1. Says(a, Below(Meanings, 0)) = Says(b, Below(Meanings, 0))
      BY <2>1, <2>3, ByLevel
    <3> QED
      BY <3>1, LevelsAre, ScalarsTold
  <2>4. Closed(Unambiguous[0], Data[0], Bytes[0], Meanings[0])
    BY <2>2, <2>3 DEF Closed
  <2> QED
    BY <2>1, <2>4
<1>2. ASSUME NEW k \in 1 .. MaxNesting, k - 1 \in T PROVE k \in T
  <2> DEFINE S == Unambiguous[k - 1]
  <2>1. k \in 0 .. MaxNesting /\ k - 1 \in 0 .. MaxNesting
    BY LevelsAre
  <2>2. Closed(S, Data[k - 1], Bytes[k - 1], Meanings[k - 1])
    BY <1>2
  <2>3. Coding(Data[k - 1], Bytes[k - 1])
    BY <2>1, AllCoded
  <2>4. Data[k] = Level(Data[k - 1]) /\ Below(Bytes, k) = Bytes[k - 1] /\ Below(Meanings, k) = Meanings[k - 1]
    BY LevelsAre DEF Below
  <2>5. Unambiguous[k] = {v \in Data[k] : KeysApart(v, S)}
    BY <2>1, UnambiguousIs
  <2> HIDE DEF S
  <2>6. ASSUME NEW a \in Unambiguous[k], NEW b \in Data[k], Meanings[k][a] = Meanings[k][b]
        PROVE  Bytes[k][a] = Bytes[k][b] /\ b \in Unambiguous[k]
    <3>1. a \in Data[k] /\ KeysApart(a, S)
      BY <2>5
    <3>2. /\ Bytes[k][a] = Encoded(a, Bytes[k - 1]) /\ Bytes[k][b] = Encoded(b, Bytes[k - 1])
          /\ Meanings[k][a] = Says(a, Meanings[k - 1]) /\ Meanings[k][b] = Says(b, Meanings[k - 1])
      BY <2>1, <2>4, <3>1, ByLevel
    <3>3. a \in Level(Data[k - 1]) /\ b \in Level(Data[k - 1]) /\ Says(a, Meanings[k - 1]) = Says(b, Meanings[k - 1])
      BY <2>4, <2>6, <3>1, <3>2
    <3>4. Encoded(a, Bytes[k - 1]) = Encoded(b, Bytes[k - 1]) /\ KeysApart(b, S)
      BY <2>2, <2>3, <3>1, <3>3, StepStable
    <3> QED
      BY <2>5, <3>2, <3>4
  <2>7. Closed(Unambiguous[k], Data[k], Bytes[k], Meanings[k])
    BY <2>5, <2>6 DEF Closed
  <2> QED
    BY <2>1, <2>7
<1> HIDE DEF T
<1>3. \A k \in 0 .. MaxNesting : k \in T
  BY <1>1, <1>2, LevelsAre, Upwards
<1> QED
  BY <1>3 DEF T

-----------------------------------------------------------------------------
Top == Data[MaxNesting]

LEMMA TopIsCoded ==
  /\ Coding(Top, Bytes[MaxNesting])
  /\ \A a, b \in Top : Bytes[MaxNesting][a] = Bytes[MaxNesting][b] => Meaning(a) = Meaning(b)
  /\ \A a \in Unambiguous[MaxNesting], b \in Top :
       Meaning(a) = Meaning(b) => Bytes[MaxNesting][a] = Bytes[MaxNesting][b]
<1>1. MaxNesting \in 0 .. MaxNesting
  BY LevelsAre
<1>2. /\ Coding(Top, Bytes[MaxNesting])
      /\ Faithful(Top, Bytes[MaxNesting], Meanings[MaxNesting])
      /\ Closed(Unambiguous[MaxNesting], Top, Bytes[MaxNesting], Meanings[MaxNesting])
  BY <1>1, AllCoded, AllFaithful, AllClosed DEF Top
<1>3. \A a : Meaning(a) = Meanings[MaxNesting][a]
  BY MeaningsAre
<1> QED
  BY <1>2, <1>3 DEF Faithful, Closed

(* _canonical is injective, as ids.py:12 has it: two values of any type and   *)
(* any nesting that serialise to the same bytes say the same.                 *)
THEOREM CanonicalInjective ==
  \A u, v \in Data[MaxNesting] : Canonical(u) = Canonical(v) => Meaning(u) = Meaning(v)
BY TopIsCoded, BytesAre DEF Top

(* It is canonical as well: the bytes of a value are those of every other that*)
(* says the same, in whatever order their dicts were filled, if no dict in it *)
(* has two keys of one text (ids.py:8, 64-68).                                *)
THEOREM CanonicalStable ==
  \A u \in Unambiguous[MaxNesting], v \in Data[MaxNesting] :
    Meaning(u) = Meaning(v) => Canonical(u) = Canonical(v)
BY TopIsCoded, BytesAre DEF Top

(* A digest is a text, and tells the bytes of each part.                      *)
LEMMA HashedIs ==
  ASSUME NEW parts \in Seq(Top)
  PROVE  /\ Hashed(parts) = Text(<<35>> \o FlattenSeq(ListFrames(parts, Bytes[MaxNesting])))
         /\ FlattenSeq(ListFrames(parts, Bytes[MaxNesting])) \in Seq(Nat)
         /\ Hashed(parts) \in ScalarValues
<1> DEFINE F == ListFrames(parts, Bytes[MaxNesting])
<1>1. F = [k \in DOMAIN parts |-> Frame(Canonical(parts[k]))]
  BY BytesAre DEF ListFrames
<1>2. Hashed(parts) = Text(<<35>> \o FlattenSeq(F))
  BY <1>1 DEF Hashed
<1>3. F \in Seq(Frames)
  BY TopIsCoded, FramesOfList
<1> HIDE DEF F
<1>4. FlattenSeq(F) \in Seq(Nat)
  BY <1>3, FramesDelimit, FlatIsBytes
<1>5. <<35>> \o FlattenSeq(F) \in Seq(Nat)
  BY <1>4
<1>6. Hashed(parts) \in ScalarValues
  BY <1>2, <1>5 DEF Text, Value, ScalarValues, Scalars
<1> QED
  BY <1>2, <1>4, <1>6 DEF F

LEMMA HashedTells ==
  ASSUME NEW s \in Seq(Top), NEW t \in Seq(Top), Hashed(s) = Hashed(t)
  PROVE  Len(s) = Len(t) /\ \A k \in 1 .. Len(s) : Bytes[MaxNesting][s[k]] = Bytes[MaxNesting][t[k]]
<1> DEFINE B == Bytes[MaxNesting]
           f == ListFrames(s, B)
           g == ListFrames(t, B)
           x == FlattenSeq(f)
           y == FlattenSeq(g)
<1>1. x \in Seq(Nat) /\ y \in Seq(Nat)
  BY HashedIs
<1>2. x = y
  <2> DEFINE a == <<35>>
  <2>1. Hashed(s) = Text(a \o x) /\ Hashed(t) = Text(a \o y)
    BY HashedIs
  <2>2. a \in Seq(Nat) /\ Len(a) = 1
    OBVIOUS
  <2> HIDE DEF a, x, y
  <2>3. Text(a \o x) = Text(a \o y)
    BY <2>1
  <2>4. \A u, v : Text(u) = Text(v) => u = v
    BY DEF Text, Value
  <2>5. Follows(a \o x, a, x) /\ Follows(a \o x, a, y)
    BY <1>1, <2>2, <2>3, <2>4 DEF Follows
  <2> QED
    BY <2>5, AfterOne
<1>3. f \in Seq(Frames) /\ Len(f) = Len(s) /\ \A k \in 1 .. Len(s) : f[k] = Frame(B[s[k]])
  BY TopIsCoded, FramesOfList
<1>4. g \in Seq(Frames) /\ Len(g) = Len(t) /\ \A k \in 1 .. Len(t) : g[k] = Frame(B[t[k]])
  BY TopIsCoded, FramesOfList
<1> HIDE DEF f, g
<1>5. f = g
  BY <1>2, <1>3, <1>4, FramesDelimit, BlocksReadBack
<1> HIDE DEF B, x, y
<1>6. Len(s) = Len(t) /\ \A k \in 1 .. Len(s) : s[k] \in Top /\ t[k] \in Top
  BY <1>3, <1>4, <1>5
<1>7. ASSUME NEW k \in 1 .. Len(s) PROVE B[s[k]] = B[t[k]]
  <2>1. Frame(B[s[k]]) = Frame(B[t[k]])
    BY <1>3, <1>4, <1>5, <1>6
  <2>2. s[k] \in Top /\ t[k] \in Top
    BY <1>6
  <2>3. Coding(Top, B)
    BY TopIsCoded DEF B
  <2> QED
    BY <2>1, <2>2, <2>3, SameFrames
<1> QED
  BY <1>6, <1>7 DEF B

(* Parts with the same bytes have the same digest.                            *)
LEMMA HashedAlike ==
  ASSUME NEW s, NEW t, DOMAIN s = DOMAIN t, \A k \in DOMAIN s : Canonical(s[k]) = Canonical(t[k])
  PROVE  Hashed(s) = Hashed(t)
<1>1. [k \in DOMAIN s |-> Frame(Canonical(s[k]))] = [k \in DOMAIN t |-> Frame(Canonical(t[k]))]
  OBVIOUS
<1> QED
  BY <1>1 DEF Hashed

-----------------------------------------------------------------------------
(* A config is a dict of values nested less deep than the limit.              *)
ConfigValues == Dicts(Data[MaxNesting - 1])

LEMMA TextsAreTop == \A s \in Seq(Nat) : Text(s) \in ScalarValues /\ Text(s) \in Top
<1>1. \A s \in Seq(Nat) : Text(s) \in ScalarValues
  BY DEF Text, Value, ScalarValues, Scalars
<1>2. MaxNesting \in 0 .. MaxNesting
  BY LevelsAre
<1> QED
  BY <1>1, <1>2, LevelsAre DEF Top

LEMMA ListsOfLevel ==
  ASSUME NEW k \in 1 .. MaxNesting
  PROVE  /\ \A s \in Seq(Data[k - 1]) : List(s) \in Data[k]
         /\ \A s \in Dicts(Data[k - 1]) : Dict(s) \in Data[k]
<1>1. Data[k] = Level(Data[k - 1])
  BY LevelsAre
<1> DEFINE V == Data[k - 1]
<1> HIDE DEF V
<1>2. \A s \in Seq(V) : List(s) \in Level(V)
  BY DEF Level, Containers, List, Value
<1>3. \A s \in Dicts(V) : Dict(s) \in Level(V)
  BY DEF Level, Containers, Dict, Value
<1> QED
  BY <1>1, <1>2, <1>3 DEF V

LEMMA DictsAreTop == /\ \A c \in ConfigValues : Dict(c) \in Top
                     /\ <<>> \in ConfigValues /\ List(<<>>) \in Top
<1>1. MaxNesting \in 1 .. MaxNesting
  BY LevelsAre
<1>2. <<>> \in ConfigValues
  <2> DEFINE e == <<>>
             K == Keys \X Data[MaxNesting - 1]
  <2>1. e \in Seq(K) /\ DOMAIN e = {}
    OBVIOUS
  <2> QED
    BY <2>1 DEF ConfigValues, Dicts
<1>3. <<>> \in Seq(Data[MaxNesting - 1])
  OBVIOUS
<1> QED
  BY <1>1, <1>2, <1>3, ListsOfLevel DEF Top, ConfigValues

LEMMA IdentityTells ==
  ASSUME NEW id \in Seq(Nat), NEW c \in ConfigValues, NEW d \in ConfigValues
  PROVE  /\ Identity(id, Dict(c)) \in ScalarValues
         /\ Identity(id, Dict(c)) = Identity(id, Dict(d))
              => Bytes[MaxNesting][Dict(c)] = Bytes[MaxNesting][Dict(d)]
         /\ Canonical(Dict(c)) = Canonical(Dict(d)) => Identity(id, Dict(c)) = Identity(id, Dict(d))
<1> DEFINE Parts(x) == <<Text(<<1>>), Text(id), Text(<<2>>), Text(<<3>>), x>>
           u == Dict(c)
           v == Dict(d)
<1>1. u \in Top /\ v \in Top
  BY DictsAreTop
<1>2. Text(<<1>>) \in Top /\ Text(id) \in Top /\ Text(<<2>>) \in Top /\ Text(<<3>>) \in Top
  <2>1. <<1>> \in Seq(Nat) /\ <<2>> \in Seq(Nat) /\ <<3>> \in Seq(Nat)
    OBVIOUS
  <2> QED
    BY <2>1, TextsAreTop
<1>3. Identity(id, u) = Hashed(Parts(u)) /\ Identity(id, v) = Hashed(Parts(v))
  BY DEF Identity
<1> HIDE DEF u, v
<1>4. Parts(u) \in Seq(Top) /\ Parts(v) \in Seq(Top)
  BY <1>1, <1>2
<1>5. /\ Len(Parts(u)) = 5 /\ DOMAIN Parts(u) = 1 .. 5 /\ DOMAIN Parts(v) = 1 .. 5
      /\ Parts(u)[5] = u /\ Parts(v)[5] = v
      /\ \A k \in 1 .. 5 : k # 5 => Parts(u)[k] = Parts(v)[k]
  OBVIOUS
<1> HIDE DEF Parts
<1>6. Identity(id, u) \in ScalarValues
  BY <1>3, <1>4, HashedIs
<1>7. ASSUME Identity(id, u) = Identity(id, v) PROVE Bytes[MaxNesting][u] = Bytes[MaxNesting][v]
  <2> DEFINE s == Parts(u)
             t == Parts(v)
  <2>1. s \in Seq(Top) /\ t \in Seq(Top) /\ Hashed(s) = Hashed(t) /\ Len(s) = 5 /\ s[5] = u /\ t[5] = v
    BY <1>3, <1>4, <1>5, <1>7
  <2> HIDE DEF s, t
  <2>2. \A k \in 1 .. Len(s) : Bytes[MaxNesting][s[k]] = Bytes[MaxNesting][t[k]]
    BY <2>1, HashedTells
  <2> QED
    BY <2>1, <2>2
<1>8. ASSUME Canonical(u) = Canonical(v) PROVE Identity(id, u) = Identity(id, v)
  <2>1. \A k \in DOMAIN Parts(u) : Canonical(Parts(u)[k]) = Canonical(Parts(v)[k])
    BY <1>5, <1>8
  <2> QED
    BY <1>3, <1>5, <2>1, HashedAlike
<1> QED
  BY <1>6, <1>7, <1>8 DEF u, v

LEMMA PairTells ==
  ASSUME NEW a \in Top, NEW b \in Top, NEW c \in Top, NEW d \in Top
  PROVE  /\ Hashed(<<a, b>>) \in ScalarValues
         /\ Hashed(<<a, b>>) = Hashed(<<c, d>>) => /\ Bytes[MaxNesting][a] = Bytes[MaxNesting][c]
                                                   /\ Bytes[MaxNesting][b] = Bytes[MaxNesting][d]
         /\ a = c /\ b = d => Hashed(<<a, b>>) = Hashed(<<c, d>>)
<1> DEFINE s == <<a, b>>
           t == <<c, d>>
<1>1. s \in Seq(Top) /\ t \in Seq(Top) /\ Len(s) = 2 /\ s[1] = a /\ s[2] = b /\ t[1] = c /\ t[2] = d
  OBVIOUS
<1>2. a = c /\ b = d => s = t
  OBVIOUS
<1> HIDE DEF s, t
<1>3. Hashed(s) \in ScalarValues
  BY <1>1, HashedIs
<1>4. Hashed(s) = Hashed(t) => \A k \in 1 .. Len(s) : Bytes[MaxNesting][s[k]] = Bytes[MaxNesting][t[k]]
  BY <1>1, HashedTells
<1> QED
  BY <1>1, <1>2, <1>3, <1>4 DEF s, t

-----------------------------------------------------------------------------
SourceKey(c) == CacheKey(<<4>>, Dict(c), List(<<>>))

WiredTo(port, key) == List(<<List(<<Text(port), key>>)>>)

(* The key of the source tells the bytes of its config,                       *)
LEMMA SourceTells ==
  ASSUME NEW c \in ConfigValues, NEW d \in ConfigValues
  PROVE  /\ SourceKey(c) \in ScalarValues
         /\ SourceKey(c) = SourceKey(d) => Bytes[MaxNesting][Dict(c)] = Bytes[MaxNesting][Dict(d)]
         /\ Canonical(Dict(c)) = Canonical(Dict(d)) => SourceKey(c) = SourceKey(d)
<1> DEFINE a == Identity(<<4>>, Dict(c))
           b == Identity(<<4>>, Dict(d))
           e == List(<<>>)
<1>1. <<4>> \in Seq(Nat)
  OBVIOUS
<1>2. /\ a \in ScalarValues /\ b \in ScalarValues
      /\ a = b => Bytes[MaxNesting][Dict(c)] = Bytes[MaxNesting][Dict(d)]
      /\ Canonical(Dict(c)) = Canonical(Dict(d)) => a = b
  BY <1>1, IdentityTells
<1>3. SourceKey(c) = Hashed(<<a, e>>) /\ SourceKey(d) = Hashed(<<b, e>>)
  BY DEF SourceKey, CacheKey
<1>4. a \in Top /\ b \in Top /\ e \in Top
  <2>1. MaxNesting \in 0 .. MaxNesting
    BY LevelsAre
  <2> QED
    BY <1>2, <2>1, LevelsAre, DictsAreTop DEF Top
<1> HIDE DEF a, b, e
<1>5. Hashed(<<a, e>>) \in ScalarValues
  BY <1>4, PairTells
<1>6. Hashed(<<a, e>>) = Hashed(<<b, e>>) => Bytes[MaxNesting][a] = Bytes[MaxNesting][b]
  BY <1>4, PairTells
<1>7. Bytes[MaxNesting][a] = Bytes[MaxNesting][b] => a = b
  <2>1. MaxNesting \in 0 .. MaxNesting
    BY LevelsAre
  <2> QED
    BY <1>2, <2>1, ScalarBytesTell
<1> QED
  BY <1>2, <1>3, <1>5, <1>6, <1>7

LEMMA ItemsTold ==
  ASSUME NEW k \in 1 .. MaxNesting, NEW s \in Seq(Data[k - 1]), NEW t \in Seq(Data[k - 1]),
         Meanings[k][List(s)] = Meanings[k][List(t)]
  PROVE  DOMAIN s = DOMAIN t /\ \A i \in DOMAIN s : Meanings[k - 1][s[i]] = Meanings[k - 1][t[i]]
<1> DEFINE mean == Meanings[k - 1]
<1>1. List(s) \in Data[k] /\ List(t) \in Data[k]
  BY ListsOfLevel
<1>2. k \in 0 .. MaxNesting /\ Below(Meanings, k) = mean
  BY LevelsAre DEF Below
<1> HIDE DEF mean
<1>3. Says(List(s), mean) = Says(List(t), mean)
  BY <1>1, <1>2, ByLevel
<1>4. Content(List(s), mean) = Content(List(t), mean)
  BY <1>3, SaysIs
<1>5. ListContent(s, mean) = ListContent(t, mean)
  BY <1>4, ContentIs DEF List, Value
<1>6. DOMAIN s = DOMAIN t
  BY <1>5 DEF ListContent
<1>7. ASSUME NEW i \in DOMAIN s PROVE mean[s[i]] = mean[t[i]]
  <2>1. ListContent(s, mean)[i] = mean[s[i]] /\ ListContent(t, mean)[i] = mean[t[i]]
    BY <1>6 DEF ListContent
  <2> QED
    BY <1>5, <2>1
<1> QED
  BY <1>6, <1>7 DEF mean

(* the wiring of a node the port and the key of the source,                   *)
LEMMA WiringTells ==
  ASSUME NEW p \in Seq(Nat), NEW q \in Seq(Nat), NEW a \in ScalarValues, NEW b \in ScalarValues
  PROVE  /\ WiredTo(p, a) \in Top
         /\ Bytes[MaxNesting][WiredTo(p, a)] = Bytes[MaxNesting][WiredTo(q, b)] => p = q /\ a = b
<1> DEFINE m == MaxNesting - 1
           n == MaxNesting - 2
           s == <<Text(p), a>>
           t == <<Text(q), b>>
           u == <<List(s)>>
           v == <<List(t)>>
<1>1. /\ MaxNesting \in 1 .. MaxNesting /\ m \in 1 .. MaxNesting /\ n \in 0 .. MaxNesting
      /\ m = MaxNesting - 1 /\ n = m - 1
  BY LevelsAre
<1>2. Text(p) \in ScalarValues /\ Text(q) \in ScalarValues
  BY TextsAreTop
<1>3. WiredTo(p, a) = List(u) /\ WiredTo(q, b) = List(v)
  BY DEF WiredTo
<1> HIDE DEF m, n
<1>4. ScalarValues \subseteq Data[n]
  BY <1>1, LevelsAre
<1>5. s \in Seq(Data[n]) /\ t \in Seq(Data[n]) /\ DOMAIN s = {1, 2} /\ DOMAIN t = {1, 2}
      /\ s[1] = Text(p) /\ s[2] = a /\ t[1] = Text(q) /\ t[2] = b
  <2> DEFINE V == Data[n]
             x == Text(p)
             y == Text(q)
  <2>1. x \in V /\ y \in V /\ a \in V /\ b \in V
    BY <1>2, <1>4
  <2> HIDE DEF V, x, y
  <2>2. <<x, a>> \in Seq(V) /\ <<y, b>> \in Seq(V)
    BY <2>1
  <2>3. s \in Seq(V) /\ t \in Seq(V)
    BY <2>2 DEF x, y
  <2> QED
    BY <2>3 DEF V
<1> HIDE DEF s, t
<1>6. List(s) \in Data[m] /\ List(t) \in Data[m]
  BY <1>1, <1>5, ListsOfLevel
<1>7. u \in Seq(Data[m]) /\ v \in Seq(Data[m]) /\ 1 \in DOMAIN u /\ u[1] = List(s) /\ v[1] = List(t)
  <2> DEFINE V == Data[m]
             x == List(s)
             y == List(t)
  <2>1. x \in V /\ y \in V
    BY <1>6
  <2> HIDE DEF V, x, y
  <2>2. <<x>> \in Seq(V) /\ <<y>> \in Seq(V)
    BY <2>1
  <2>3. u \in Seq(V) /\ v \in Seq(V)
    BY <2>2 DEF x, y
  <2> QED
    BY <2>3 DEF V
<1> HIDE DEF u, v
<1>8. List(u) \in Top /\ List(v) \in Top
  BY <1>1, <1>7, ListsOfLevel DEF Top
<1>9. ASSUME Bytes[MaxNesting][List(u)] = Bytes[MaxNesting][List(v)] PROVE p = q /\ a = b
  <2>1. Meanings[MaxNesting][List(u)] = Meanings[MaxNesting][List(v)]
    BY <1>8, <1>9, TopIsCoded, MeaningsAre
  <2>2. Meanings[m][List(s)] = Meanings[m][List(t)]
    BY <1>1, <1>7, <2>1, ItemsTold
  <2>3. \A i \in DOMAIN s : Meanings[n][s[i]] = Meanings[n][t[i]]
    BY <1>1, <1>5, <2>2, ItemsTold
  <2>4. Meanings[n][Text(p)] = Meanings[n][Text(q)] /\ Meanings[n][a] = Meanings[n][b]
    BY <1>5, <2>3
  <2>5. Text(p) = Text(q) /\ a = b
    BY <1>1, <1>2, <2>4, ScalarBytesTell
  <2> QED
    BY <2>5 DEF Text, Value
<1> QED
  BY <1>3, <1>8, <1>9

(* and the key of a node what is wired to it.                                 *)
LEMMA NodeTells ==
  ASSUME NEW node \in Seq(Nat), NEW p \in Seq(Nat), NEW q \in Seq(Nat),
         NEW a \in ScalarValues, NEW b \in ScalarValues,
         CacheKey(node, Dict(<<>>), WiredTo(p, a)) = CacheKey(node, Dict(<<>>), WiredTo(q, b))
  PROVE  p = q /\ a = b
<1> DEFINE id == Identity(node, Dict(<<>>))
           u == WiredTo(p, a)
           v == WiredTo(q, b)
<1>1. Hashed(<<id, u>>) = Hashed(<<id, v>>)
  BY DEF CacheKey
<1>2. MaxNesting \in 0 .. MaxNesting
  BY LevelsAre
<1>3. id \in ScalarValues
  BY <1>2, DictsAreTop, IdentityTells
<1>4. id \in Top
  BY <1>2, <1>3, LevelsAre DEF Top
<1>5. u \in Top /\ v \in Top /\ (Bytes[MaxNesting][u] = Bytes[MaxNesting][v] => p = q /\ a = b)
  BY WiringTells
<1> HIDE DEF id, u, v
<1>6. Bytes[MaxNesting][u] = Bytes[MaxNesting][v]
  BY <1>1, <1>4, <1>5, PairTells
<1> QED
  BY <1>5, <1>6

-----------------------------------------------------------------------------
HashInv ==
  /\ configs \in [{1, 2} -> ConfigValues]
  /\ ports \in [{1, 2} -> Ports]

LEMMA HashInitially == HashInit => HashInv
BY DictsAreTop DEF HashInit, HashInv

(* An entry keeps a config a dict: a key that is there keeps its place.       *)
LEMMA SetEntryKeeps ==
  ASSUME HashInv, NEW p \in {1, 2}, NEW key \in Keys, NEW value \in Values, SetEntry(p, key, value)
  PROVE  HashInv'
<1> DEFINE V == Data[MaxNesting - 1]
           c == configs[p]
           at == {i \in DOMAIN c : c[i][1] = key}
           e == <<key, value>>
           d == IF at = {} THEN Append(c, e) ELSE [i \in DOMAIN c |-> IF i \in at THEN e ELSE c[i]]
<1>1. configs' = [configs EXCEPT ![p] = d] /\ ports' = ports
  BY DEF SetEntry
<1>2. e \in Keys \X V /\ e[1] = key
  BY HashAssumption
<1>3. c \in ConfigValues
  BY DEF HashInv
<1>4. c \in Seq(Keys \X V) /\ \A i, j \in DOMAIN c : c[i][1] = c[j][1] => i = j
  BY <1>3 DEF ConfigValues, Dicts
<1>5. d \in Seq(Keys \X V) /\ \A i, j \in DOMAIN d : d[i][1] = d[j][1] => i = j
  <2> HIDE DEF V, c, e
  <2>1. Len(c) \in Nat /\ DOMAIN c = 1 .. Len(c) /\ \A i \in DOMAIN c : c[i] \in Keys \X V
    BY <1>4
  <2>2. CASE at = {}
    <3>1. d = Append(c, e)
      BY <2>2
    <3>2. d \in Seq(Keys \X V) /\ DOMAIN d = 1 .. Len(c) + 1 /\ d[Len(c) + 1] = e
          /\ \A i \in 1 .. Len(c) : d[i] = c[i]
      BY <1>2, <1>4, <3>1
    <3>3. \A i \in 1 .. Len(c) : d[i][1] # d[Len(c) + 1][1]
      BY <1>2, <2>1, <2>2, <3>2
    <3> HIDE DEF d
    <3>4. ASSUME NEW i \in DOMAIN d, NEW j \in DOMAIN d, d[i][1] = d[j][1] PROVE i = j
      <4>1. CASE i = Len(c) + 1 \/ j = Len(c) + 1
        BY <2>1, <3>2, <3>3, <3>4, <4>1
      <4>2. CASE i # Len(c) + 1 /\ j # Len(c) + 1
        <5>1. i \in 1 .. Len(c) /\ j \in 1 .. Len(c)
          BY <2>1, <3>2, <4>2
        <5> QED
          BY <1>4, <2>1, <3>2, <3>4, <5>1
      <4> QED
        BY <4>1, <4>2
    <3> QED
      BY <3>2, <3>4
  <2>3. CASE at # {}
    <3>1. d = [i \in 1 .. Len(c) |-> IF i \in at THEN e ELSE c[i]]
      BY <2>1, <2>3
    <3>2. \A i \in 1 .. Len(c) : d[i] \in Keys \X V /\ d[i][1] = c[i][1]
      BY <1>2, <2>1, <3>1
    <3> HIDE DEF d
    <3>3. d = [i \in 1 .. Len(c) |-> d[i]] /\ DOMAIN d = 1 .. Len(c)
      BY <3>1
    <3>4. d \in Seq(Keys \X V)
      <4> DEFINE n == Len(c)
      <4>1. n \in Nat /\ d \in [1 .. n -> Keys \X V]
        BY <2>1, <3>2, <3>3
      <4> HIDE DEF n
      <4> QED
        BY <4>1
    <3> QED
      BY <1>4, <2>1, <3>2, <3>3, <3>4
  <2> QED
    BY <2>2, <2>3
<1>6. d \in ConfigValues
  BY <1>5 DEF ConfigValues, Dicts
<1> HIDE DEF d
<1> QED
  BY <1>1, <1>6 DEF HashInv

LEMMA KeysTell == HashInv => KeysIdentify
<1> SUFFICES ASSUME HashInv PROVE KeysIdentify
  OBVIOUS
<1> DEFINE c == configs[1]
           d == configs[2]
           p == ports[1]
           q == ports[2]
           a == SourceKey(c)
           b == SourceKey(d)
           node == <<5>>
<1>1. c \in ConfigValues /\ d \in ConfigValues /\ p \in Seq(Nat) /\ q \in Seq(Nat)
  BY HashAssumption DEF HashInv
<1>2. /\ node \in Seq(Nat)
      /\ KeyOf(1) = CacheKey(node, Dict(<<>>), WiredTo(p, a))
      /\ KeyOf(2) = CacheKey(node, Dict(<<>>), WiredTo(q, b))
  BY DEF KeyOf, WiredTo, SourceKey
<1>3. KeysIdentify <=>
        /\ KeyOf(1) = KeyOf(2) => p = q /\ Meaning(Dict(c)) = Meaning(Dict(d))
        /\ p = q /\ Meaning(Dict(c)) = Meaning(Dict(d)) /\ Dict(c) \in Unambiguous[MaxNesting]
             => KeyOf(1) = KeyOf(2)
  BY DEF KeysIdentify, SameComputation
<1> HIDE DEF c, d, p, q
<1>4. Dict(c) \in Top /\ Dict(d) \in Top
  BY <1>1, DictsAreTop
<1>5. /\ a \in ScalarValues /\ b \in ScalarValues
      /\ a = b => Bytes[MaxNesting][Dict(c)] = Bytes[MaxNesting][Dict(d)]
      /\ Canonical(Dict(c)) = Canonical(Dict(d)) => a = b
  BY <1>1, SourceTells
<1> HIDE DEF a, b, node
<1>6. ASSUME KeyOf(1) = KeyOf(2) PROVE p = q /\ Meaning(Dict(c)) = Meaning(Dict(d))
  <2>1. p = q /\ a = b
    BY <1>1, <1>2, <1>5, <1>6, NodeTells
  <2> QED
    BY <1>4, <1>5, <2>1, TopIsCoded
<1>7. ASSUME p = q, Meaning(Dict(c)) = Meaning(Dict(d)), Dict(c) \in Unambiguous[MaxNesting]
      PROVE  KeyOf(1) = KeyOf(2)
  <2>1. Canonical(Dict(c)) = Canonical(Dict(d))
    BY <1>4, <1>7, TopIsCoded, BytesAre
  <2> QED
    BY <1>2, <1>5, <1>7, <2>1
<1> QED
  BY <1>3, <1>6, <1>7

(* KeysIdentify for any keys, values and ports, and any number of entries: two*)
(* processes come to one cache key exactly for the same config and wiring.    *)
THEOREM KeysAlwaysIdentify == Spec => []KeysIdentify
<1>1. Init => HashInv
  BY HashInitially DEF Init
<1>2. ASSUME HashInv, [Next]_vars PROVE HashInv'
  <2>1. CASE Configure
    BY <1>2, <2>1, SetEntryKeeps DEF Configure, HashNext
  <2>2. CASE Build
    BY <1>2, <2>2 DEF Build, hashVars, HashInv
  <2>3. CASE UNCHANGED vars
    BY <1>2, <2>3 DEF vars, hashVars, HashInv
  <2> QED
    BY <1>2, <2>1, <2>2, <2>3 DEF Next
<1> QED
  BY <1>1, <1>2, KeysTell, PTL DEF Spec

(* Setting up a run builds a graph as BuildSpec does, or leaves it alone.     *)
THEOREM SetupRefinesBuild == Spec => BuildSpec
<1>1. Init => BuildInit
  BY DEF Init
<1>2. ASSUME [Next]_vars PROVE [BuildNext]_graphVars
  BY <1>2 DEF Next, Configure, Build, vars
<1> QED
  BY <1>1, <1>2, PTL DEF Spec, BuildSpec

(* So all of it holds of the composition that the runs check.                 *)
THEOREM SetupIsExact == Spec => [](OrderExact /\ ClosuresExact /\ KeysIdentify)
BY SetupRefinesBuild, OrderIsExact, ClosuresAreExact, KeysAlwaysIdentify, PTL
=============================================================================
