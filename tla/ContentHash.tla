------------------------------ MODULE ContentHash ------------------------------
(* Content hashing (src/sixeyes/core/ids.py) and the cache keys made with it: *)
(* two processes each give a node its config and wire another node to it, and *)
(* both ask for the key of the other.  A byte is a number; a length, eight    *)
(* bytes in the code, is one.  SHA-256 is ideal: a digest is what it hashes.  *)
EXTENDS Integers, Sequences, FiniteSets, SequencesExt

CONSTANTS
  KeyTexts,         \* the texts of the keys of a dict, sorted
  Keys, Values,     \* the keys and values a config may have
  Ports,            \* the ports the config's node may be wired to
  MaxEntries,       \* bound on the entries of a config
  MaxNesting        \* how deep a value may be nested: Python's recursion limit

VARIABLES
  configs,          \* configs[p]: the config of process p, in insertion order
  ports             \* ports[p]: the port process p wires

hashVars == <<configs, ports>>

-----------------------------------------------------------------------------
(* The values _canonical takes: the type, and the bytes of a scalar, the      *)
(* items of a list or tuple, those of a set, the entries of a dict in the     *)
(* order they were put in, or the content_key() of an object.                 *)

Value(type, is) == [type |-> type, is |-> is]
NoneValue == Value("none", <<>>)
Number(digits) == Value("int", digits)
Text(bytes) == Value("str", bytes)
List(items) == Value("list", items)
Dict(pairs) == Value("dict", pairs)

Scalars == {"none", "bool", "int", "float", "str", "bytes"}

Dicts(V) ==
  {pairs \in Seq(Keys \X V) : \A i, j \in DOMAIN pairs : pairs[i][1] = pairs[j][1] => i = j}

Containers(V) ==
  [type : {"list"}, is : Seq(V)] \cup [type : {"set"}, is : {S \in SUBSET V : IsFiniteSet(S)}]
    \cup [type : {"dict"}, is : Dicts(V)] \cup [type : {"object"}, is : V]

(* The values that are nested at most so deep.                                *)
Data[k \in 0 .. MaxNesting] ==
  [type : Scalars, is : Seq(Nat)] \cup IF k = 0 THEN {} ELSE Containers(Data[k - 1])

(* str(k), for the keys of a dict.                                            *)
TextOf(key) == IF key.type = "none" THEN <<78, 111, 110, 101>> ELSE key.is

(* A key is None, a number or a text, and its place in sorted order known.    *)
ASSUME HashAssumption ==
  /\ MaxNesting \in Nat \ {0, 1}
  /\ Keys \subseteq [type : {"none", "int", "str"}, is : Seq(Nat)]
  /\ DOMAIN KeyTexts \subseteq Nat /\ \A key \in Keys : \E i \in DOMAIN KeyTexts : KeyTexts[i] = TextOf(key)
  /\ Values \subseteq Data[MaxNesting - 1]
  /\ Ports \subseteq Seq(Nat)

-----------------------------------------------------------------------------
Rank(key) == CHOOSE i \in DOMAIN KeyTexts : KeyTexts[i] = TextOf(key)

(* Mutant of SortedPairs: a dict in the order it was filled.                  *)
PairsAsFilled(pairs) == pairs

(* sorted() keeps the order of what it finds equal.                           *)
SortedPairs(pairs) ==
  LET Before(i, j) == \/ Rank(pairs[i][1]) < Rank(pairs[j][1])
                      \/ Rank(pairs[i][1]) = Rank(pairs[j][1]) /\ i < j
  IN [p \in DOMAIN pairs |->
        pairs[CHOOSE j \in DOMAIN pairs :
                Cardinality({i \in DOMAIN pairs : Before(i, j)}) = p - 1]]

Tag == [none |-> 110, bool |-> 98, int |-> 105, float |-> 102, str |-> 115, bytes |-> 121,
        list |-> 108, set |-> 101, dict |-> 100, object |-> 111]

Frame(data) == <<Len(data)>> \o data

(* A value after its tag, what a container holds framed, given the bytes of   *)
(* what it holds.  The frames of a set are sorted: in one order of their own. *)
Encoded(v, inner) ==
  LET Framed(u) == Frame(inner[u])
  IN <<Tag[v.type]>> \o
       CASE v.type \in Scalars -> v.is
         [] v.type = "list" -> FlattenSeq([k \in DOMAIN v.is |-> Framed(v.is[k])])
         [] v.type = "set" -> FlattenSeq(SetToSeq({Framed(u) : u \in v.is}))
         [] v.type = "dict" ->
              LET pairs == SortedPairs(v.is)
              IN FlattenSeq([k \in DOMAIN pairs |-> Framed(pairs[k][1]) \o Framed(pairs[k][2])])
         [] v.type = "object" -> Framed(v.is)

Canonical(v) ==
  LET bytes[k \in 0 .. MaxNesting] ==
        [u \in Data[k] |-> Encoded(u, IF k = 0 THEN <<>> ELSE bytes[k - 1])]
  IN bytes[MaxNesting][v]

Hashed(parts) == Text(<<35>> \o FlattenSeq([k \in DOMAIN parts |-> Frame(Canonical(parts[k]))]))

(* Node.identity, and the key of a node that is wired to another; the bytes   *)
(* 1 to 5 stand for the class, its version and kind, and the two ids.         *)
Identity(id, config) == Hashed(<<Text(<<1>>), Text(id), Text(<<2>>), Text(<<3>>), config>>)

CacheKey(id, config, upstream_keys) == Hashed(<<Identity(id, config), upstream_keys>>)

KeyOf(p) ==
  LET source == CacheKey(<<4>>, Dict(configs[p]), List(<<>>))
  IN CacheKey(<<5>>, Dict(<<>>), List(<<List(<<Text(ports[p]), source>>)>>))

-----------------------------------------------------------------------------
HashInit == configs = [p \in {1, 2} |-> <<>>] /\ ports \in [{1, 2} -> Ports]

(* config[key] = value: a key the dict has keeps its place.                   *)
SetEntry(p, key, value) ==
  LET config == configs[p]
      at == {i \in DOMAIN config : config[i][1] = key}
  IN /\ at = {} => Len(config) < MaxEntries
     /\ configs' = [configs EXCEPT ![p] =
                      IF at = {} THEN Append(@, <<key, value>>)
                      ELSE [i \in DOMAIN @ |-> IF i \in at THEN <<key, value>> ELSE @[i]]]
     /\ UNCHANGED ports

HashNext == \E p \in {1, 2}, key \in Keys, value \in Values : SetEntry(p, key, value)

-----------------------------------------------------------------------------
(* What a value says, given what those it holds say: a set and a dict have no *)
(* order.                                                                     *)
Says(v, inner) ==
  <<v.type,
    CASE v.type \in Scalars -> v.is
      [] v.type = "list" -> [k \in DOMAIN v.is |-> inner[v.is[k]]]
      [] v.type = "set" -> {inner[u] : u \in v.is}
      [] v.type = "dict" -> {<<v.is[k][1], inner[v.is[k][2]]>> : k \in DOMAIN v.is}
      [] v.type = "object" -> inner[v.is]>>

Meaning(v) ==
  LET meaning[k \in 0 .. MaxNesting] ==
        [u \in Data[k] |-> Says(u, IF k = 0 THEN <<>> ELSE meaning[k - 1])]
  IN meaning[MaxNesting][v]

(* No dict, however deep, has two keys of one text.                           *)
KeysApart(v, inner) ==
  \/ v.type \in Scalars
  \/ v.type = "list" /\ \A i \in DOMAIN v.is : v.is[i] \in inner
  \/ v.type = "set" /\ v.is \subseteq inner
  \/ /\ v.type = "dict"
     /\ \A i, j \in DOMAIN v.is : TextOf(v.is[i][1]) = TextOf(v.is[j][1]) => i = j
     /\ \A i \in DOMAIN v.is : v.is[i][2] \in inner
  \/ v.type = "object" /\ v.is \in inner

Unambiguous[k \in 0 .. MaxNesting] ==
  {v \in Data[k] : KeysApart(v, IF k = 0 THEN {} ELSE Unambiguous[k - 1])}

SameComputation ==
  ports[1] = ports[2] /\ Meaning(Dict(configs[1])) = Meaning(Dict(configs[2]))

(* A cache key is reused exactly for the same computation: two processes come *)
(* to one key only if the port and the whole config behind it are the same,   *)
(* and always if they are, in whatever order a config was filled; short of a  *)
(* dict with two keys of the same text, which sorted() leaves in that order   *)
(* (ids.py:8-16, 64-68).                                                      *)
KeysIdentify ==
  /\ KeyOf(1) = KeyOf(2) => SameComputation
  /\ SameComputation /\ Dict(configs[1]) \in Unambiguous[MaxNesting] => KeyOf(1) = KeyOf(2)
=============================================================================
