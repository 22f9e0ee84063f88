------------------------------ MODULE ListLemmas ------------------------------
(* Facts about numbers, recursive functions and sequences that the proofs of  *)
(* several components rest on.                                                *)
EXTENDS Integers, Sequences, SequencesExt, FiniteSetsExt, FiniteSetTheorems,
        SequenceTheorems, WellFoundedInduction, TLAPS

(* A set of natural numbers has a least one, and Min is it.                   *)
LEMMA MinOfNats ==
  ASSUME NEW T \in SUBSET Nat, T # {}
  PROVE  Min(T) \in T /\ \A n \in T : Min(T) =< n
<1>1. PICK n \in T : \A m \in T : ~(<<m, n>> \in OpToRel(<, Nat))
  BY NatLessThanWellFounded, WFMin
<1>2. \A m \in T : ~(m < n)
  BY <1>1 DEF OpToRel
<1>3. \A m \in T : n =< m
  BY <1>2
<1> QED
  BY <1>3 DEF Min

(* What holds of 0 and passes from each number to the next holds up to n.     *)
LEMMA Upwards ==
  ASSUME NEW n \in Nat, NEW T, 0 \in T, \A i \in 1 .. n : i - 1 \in T => i \in T
  PROVE  \A i \in 0 .. n : i \in T
<1> DEFINE Out == {i \in 0 .. n : i \notin T}
<1> SUFFICES ASSUME Out # {} PROVE FALSE
  OBVIOUS
<1>1. Min(Out) \in Out /\ \A i \in Out : Min(Out) =< i
  <2>1. Out \in SUBSET Nat
    OBVIOUS
  <2> HIDE DEF Out
  <2> QED
    BY <2>1, MinOfNats
<1> DEFINE least == Min(Out)
<1> HIDE DEF least
<1>2. least \in 0 .. n /\ least \notin T /\ \A i \in Out : least =< i
  BY <1>1 DEF least
<1>3. least \in 1 .. n /\ least - 1 \in 0 .. n /\ ~(least =< least - 1)
  BY <1>2
<1>4. least - 1 \in T
  BY <1>2, <1>3
<1> QED
  BY <1>2, <1>3, <1>4

(* The first n values of a recursive function, and the next.                  *)
IsRecursion(f, V, start, step, n) ==
  /\ f \in [0 .. n -> V]
  /\ f[0] = start
  /\ \A i \in 1 .. n : f[i] = step[<<i, f[i - 1]>>]

(* A recursive function over 0 .. n exists, and there is only one.            *)
LEMMA RecursionExists ==
  ASSUME NEW V, NEW start \in V, NEW step, NEW n \in Nat, step \in [Nat \X V -> V]
  PROVE  \E f : IsRecursion(f, V, start, step, n)
<1> DEFINE IsUpTo(f, m) == f \in [0 .. m -> V] /\ f[0] = start /\ \A i \in 1 .. m : f[i] = step[<<i, f[i - 1]>>]
           T == {m \in 0 .. n : \E f : IsUpTo(f, m)}
<1>1. 0 \in T
  <2>1. IsUpTo([i \in 0 .. 0 |-> start], 0)
    BY SMT
  <2> HIDE DEF IsUpTo
  <2> QED
    BY <2>1
<1>2. ASSUME NEW m \in 1 .. n, m - 1 \in T PROVE m \in T
  <2>1. PICK f : IsUpTo(f, m - 1)
    BY <1>2
  <2> DEFINE value == step[<<m, f[m - 1]>>]
             g == [i \in 0 .. m |-> IF i = m THEN value ELSE f[i]]
  <2>2. value \in V
    BY <2>1
  <2> HIDE DEF value
  <2>3. g \in [0 .. m -> V] /\ g[0] = start
    BY <2>1, <2>2
  <2>4. ASSUME NEW i \in 1 .. m PROVE g[i] = step[<<i, g[i - 1]>>]
    <3>1. i - 1 \in 0 .. m - 1 /\ g[i - 1] = f[i - 1]
      OBVIOUS
    <3>2. CASE i = m
      BY <3>1, <3>2 DEF value
    <3>3. CASE i # m
      <4>1. i \in 1 .. m - 1 /\ g[i] = f[i]
        BY <3>3
      <4> QED
        BY <2>1, <3>1, <4>1
    <3> QED
      BY <3>2, <3>3
  <2> HIDE DEF g
  <2>5. IsUpTo(g, m)
    BY <2>3, <2>4
  <2> QED
    BY <2>5
<1> HIDE DEF T
<1>3. \A i \in 0 .. n : i \in T
  BY <1>1, <1>2, Upwards
<1>4. n \in T
  BY <1>3
<1> QED
  BY <1>4 DEF T, IsRecursion

-----------------------------------------------------------------------------
(* Blocks one after the other *)

(* The first block, the first two joined, and so on.                          *)
Joins(ss, u) == u = [i \in 1 .. Len(ss) |-> IF i = 1 THEN ss[i] ELSE u[i - 1] \o ss[i]]

(* The first i of the blocks ss as one sequence.                              *)
FirstBlocks(ss, i) == IF i = 0 THEN <<>> ELSE (CHOOSE u : Joins(ss, u))[i]

(* FlattenSeq puts one block after the other.                                 *)
LEMMA Blocks ==
  ASSUME NEW S, NEW ss \in Seq(Seq(S))
  PROVE  /\ FirstBlocks(ss, 0) = <<>>
         /\ \A i \in 1 .. Len(ss) : FirstBlocks(ss, i) = FirstBlocks(ss, i - 1) \o ss[i]
         /\ \A i \in 0 .. Len(ss) : FirstBlocks(ss, i) \in Seq(S)
         /\ FlattenSeq(ss) = FirstBlocks(ss, Len(ss))
<1> DEFINE n == Len(ss)
           V == Seq(S)
           step == [x \in Nat \X V |-> IF x[1] \in 1 .. n THEN x[2] \o ss[x[1]] ELSE <<>>]
           start == <<>>
<1>1. n \in Nat /\ start \in V /\ \A i \in 1 .. n : ss[i] \in Seq(S)
  OBVIOUS
<1>2. step \in [Nat \X V -> V]
  BY <1>1
<1>3. PICK f : /\ f \in [0 .. n -> V] /\ f[0] = <<>>
               /\ \A i \in 1 .. n : f[i] = step[<<i, f[i - 1]>>]
  <2> HIDE DEF step, start, n
  <2>1. \E f : IsRecursion(f, V, start, step, n)
    BY <1>1, <1>2, RecursionExists
  <2> QED
    BY <2>1 DEF start, IsRecursion
<1>4. \A i \in 1 .. n : f[i] = f[i - 1] \o ss[i]
  <2> SUFFICES ASSUME NEW i \in 1 .. n PROVE f[i] = f[i - 1] \o ss[i]
    OBVIOUS
  <2>1. i - 1 \in 0 .. n /\ i \in Nat
    BY <1>1
  <2>2. <<i, f[i - 1]>> \in Nat \X V
    BY <1>3, <2>1
  <2> QED
    BY <1>3, <2>2
<1> DEFINE More(u, i) == IF i = 1 THEN ss[i] ELSE u[i - 1] \o ss[i]
           whole == [i \in 1 .. n |-> f[i]]
<1>5. \A u : Joins(ss, u) <=> u = [i \in 1 .. n |-> More(u, i)]
  BY DEF Joins
<1>6. Joins(ss, whole)
  <2>1. \A i \in 1 .. n : whole[i] = More(whole, i)
    <3> SUFFICES ASSUME NEW i \in 1 .. n PROVE whole[i] = More(whole, i)
      OBVIOUS
    <3>1. whole[i] = f[i - 1] \o ss[i] /\ ss[i] \in Seq(S)
      BY <1>1, <1>4
    <3>2. CASE i = 1
      <4>1. f[i - 1] = <<>> /\ <<>> \o ss[i] = ss[i]
        BY <1>3, <3>1, <3>2, ConcatEmptySeq
      <4> HIDE DEF whole
      <4> QED
        BY <3>1, <3>2, <4>1
    <3>3. CASE i # 1
      <4>1. i - 1 \in 1 .. n
        BY <1>1, <3>3
      <4> QED
        BY <3>1, <3>3, <4>1
    <3> QED
      BY <3>2, <3>3
  <2>2. whole = [i \in 1 .. n |-> whole[i]]
    OBVIOUS
  <2> HIDE DEF whole, More
  <2>3. [i \in 1 .. n |-> whole[i]] = [i \in 1 .. n |-> More(whole, i)]
    BY <2>1
  <2> QED
    BY <1>5, <2>2, <2>3
<1> DEFINE u == CHOOSE u : Joins(ss, u)
<1>7. Joins(ss, u)
  BY <1>6
<1> HIDE DEF u, More, whole
<1>8. u = [i \in 1 .. n |-> More(u, i)]
  BY <1>5, <1>7
<1>9. \A i \in 1 .. n : u[i] = IF i = 1 THEN ss[i] ELSE u[i - 1] \o ss[i]
  BY <1>8 DEF More
<1>10. FirstBlocks(ss, 0) = <<>> /\ \A i \in 1 .. n : FirstBlocks(ss, i) = u[i]
  BY <1>1 DEF FirstBlocks, u
<1>11. \A i \in 1 .. n : FirstBlocks(ss, i) = FirstBlocks(ss, i - 1) \o ss[i]
  <2> SUFFICES ASSUME NEW i \in 1 .. n
               PROVE  FirstBlocks(ss, i) = FirstBlocks(ss, i - 1) \o ss[i]
    OBVIOUS
  <2>1. CASE i = 1
    BY <1>1, <1>9, <1>10, <2>1, ConcatEmptySeq
  <2>2. CASE i # 1
    <3>1. i - 1 \in 1 .. n
      BY <1>1, <2>2
    <3> QED
      BY <1>9, <1>10, <2>2, <3>1
  <2> QED
    BY <2>1, <2>2
<1>12. \A i \in 0 .. n : FirstBlocks(ss, i) \in Seq(S)
  <2> DEFINE T == {i \in 0 .. n : FirstBlocks(ss, i) \in Seq(S)}
  <2>1. \A i \in 1 .. n : i - 1 \in T => i \in T
    <3> SUFFICES ASSUME NEW i \in 1 .. n, i - 1 \in T PROVE i \in T
      OBVIOUS
    <3>1. FirstBlocks(ss, i - 1) \in Seq(S) /\ ss[i] \in Seq(S) /\ i \in 0 .. n
      BY <1>1
    <3>2. FirstBlocks(ss, i) = FirstBlocks(ss, i - 1) \o ss[i]
      BY <1>11
    <3>3. FirstBlocks(ss, i) \in Seq(S)
      BY <3>1, <3>2, ConcatProperties
    <3> QED
      BY <3>1, <3>3
  <2>2. 0 \in T
    <3>1. 0 \in 0 .. n /\ <<>> \in Seq(S)
      BY <1>1
    <3>2. FirstBlocks(ss, 0) \in Seq(S)
      BY <1>10, <3>1
    <3> QED
      BY <3>1, <3>2
  <2> HIDE DEF T, n
  <2>3. \A i \in 0 .. n : i \in T
    BY <1>1, <2>1, <2>2, Upwards
  <2> QED
    BY <2>3 DEF T
<1>13. FlattenSeq(ss) = FirstBlocks(ss, n)
  <2> DEFINE last == u[n]
  <2>1. FlattenSeq(ss) = IF n = 0 THEN ss ELSE last
    BY DEF FlattenSeq, u, Joins
  <2> HIDE DEF last
  <2>2. CASE n = 0
    BY <1>10, <2>1, <2>2
  <2>3. CASE n # 0
    <3>1. n \in 1 .. n
      BY <1>1, <2>3
    <3> QED
      BY <1>10, <2>1, <2>3, <3>1 DEF last
  <2> QED
    BY <2>2, <2>3
<1> QED
  BY <1>10, <1>11, <1>12, <1>13

(* Where each block is in the whole.                                          *)
LEMMA BlockPlaces ==
  ASSUME NEW S, NEW ss \in Seq(Seq(S))
  PROVE  LET flat == FlattenSeq(ss)
             At(i) == Len(FirstBlocks(ss, i))
         IN /\ flat \in Seq(S)
            /\ \A i \in 0 .. Len(ss) :
                 At(i) \in Nat /\ At(i) =< Len(flat) /\ IsPrefix(FirstBlocks(ss, i), flat)
            /\ At(0) = 0 /\ At(Len(ss)) = Len(flat)
            /\ \A i \in 1 .. Len(ss) :
                 /\ At(i) = At(i - 1) + Len(ss[i])
                 /\ \A k \in 1 .. Len(ss[i]) : flat[At(i - 1) + k] = ss[i][k]
<1> DEFINE n == Len(ss)
           flat == FlattenSeq(ss)
           F(i) == FirstBlocks(ss, i)
<1>1. /\ n \in Nat /\ F(0) = <<>> /\ flat = F(n)
      /\ \A i \in 0 .. n : F(i) \in Seq(S)
      /\ \A i \in 1 .. n : F(i) = F(i - 1) \o ss[i]
  <2>1. n \in Nat
    OBVIOUS
  <2>2. /\ F(0) = <<>> /\ flat = F(n)
        /\ \A i \in 0 .. n : F(i) \in Seq(S)
        /\ \A i \in 1 .. n : F(i) = F(i - 1) \o ss[i]
    BY Blocks, Zenon
  <2> QED
    BY <2>1, <2>2
<1> HIDE DEF flat, F
<1>2. ASSUME NEW i \in 1 .. n
      PROVE  /\ Len(F(i)) = Len(F(i - 1)) + Len(ss[i])
             /\ \A k \in 1 .. Len(F(i - 1)) : F(i)[k] = F(i - 1)[k]
             /\ \A k \in 1 .. Len(ss[i]) : F(i)[Len(F(i - 1)) + k] = ss[i][k]
  <2>1. F(i - 1) \in Seq(S) /\ ss[i] \in Seq(S)
    BY <1>1
  <2>2. F(i) = F(i - 1) \o ss[i]
    BY <1>1
  <2> DEFINE a == F(i - 1)
             b == ss[i]
  <2> HIDE DEF a, b
  <2>3. a \in Seq(S) /\ b \in Seq(S)
    BY <2>1 DEF a, b
  <2>4. Len(a \o b) = Len(a) + Len(b) /\ (\A k \in 1 .. Len(a) : (a \o b)[k] = a[k])
        /\ \A k \in 1 .. Len(b) : (a \o b)[Len(a) + k] = b[k]
    BY <2>3
  <2> QED
    BY <2>2, <2>4 DEF a, b
<1> DEFINE Under(i, j) == Len(F(i)) =< Len(F(j)) /\ \A k \in 1 .. Len(F(i)) : F(j)[k] = F(i)[k]
<1>3. ASSUME NEW i \in 0 .. n PROVE \A j \in 0 .. n : i =< j => Under(i, j)
  <2> DEFINE T == {j \in 0 .. n : i =< j => Under(i, j)}
  <2>1. 0 \in T
    <3>1. i =< 0 => i = 0
      BY <1>1
    <3>2. Under(0, 0)
      BY <1>1
    <3> QED
      BY <1>1, <3>1, <3>2
  <2>2. ASSUME NEW j \in 1 .. n, j - 1 \in T PROVE j \in T
    <3>1. i = j => Under(i, j)
      BY <1>1
    <3>2. i =< j - 1 => Under(i, j - 1)
      BY <2>2
    <3>3. Len(F(i)) \in Nat /\ Len(F(j - 1)) \in Nat /\ Len(F(j)) \in Nat /\ Len(ss[j]) \in Nat
      BY <1>1
    <3>4. Under(i, j - 1) => Under(i, j)
      <4> SUFFICES ASSUME Under(i, j - 1) PROVE Under(i, j)
        OBVIOUS
      <4>1. /\ Len(F(j)) = Len(F(j - 1)) + Len(ss[j])
            /\ \A k \in 1 .. Len(F(j - 1)) : F(j)[k] = F(j - 1)[k]
        BY <1>2
      <4>2. Len(F(i)) =< Len(F(j - 1)) /\ Len(F(i)) =< Len(F(j))
        <5>1. Len(F(i)) =< Len(F(j - 1))
          OBVIOUS
        <5>2. Len(F(j)) = Len(F(j - 1)) + Len(ss[j])
          BY <4>1
        <5> DEFINE a == Len(F(i))
                   b == Len(F(j - 1))
                   d == Len(F(j))
                   e == Len(ss[j])
        <5>3. a \in Nat /\ b \in Nat /\ e \in Nat /\ a =< b /\ d = b + e
          BY <3>3, <5>1, <5>2, Zenon
        <5> HIDE DEF a, b, d, e
        <5>4. a =< b /\ a =< d
          BY <5>3
        <5> QED
          BY <5>4 DEF a, b, d
      <4>3. \A k \in 1 .. Len(F(i)) : k \in 1 .. Len(F(j - 1))
        BY <3>3, <4>2
      <4> QED
        BY <4>1, <4>2, <4>3
    <3>5. i =< j => i = j \/ i =< j - 1
      BY <1>1
    <3> HIDE DEF Under
    <3> QED
      BY <3>1, <3>2, <3>4, <3>5
  <2> HIDE DEF T
  <2>3. \A j \in 0 .. n : j \in T
    BY <1>1, <2>1, <2>2, Upwards
  <2> QED
    BY <2>3 DEF T
<1>4. ASSUME NEW i \in 0 .. n
      PROVE  Len(F(i)) \in Nat /\ Len(F(i)) =< Len(flat) /\ IsPrefix(F(i), flat)
             /\ \A k \in 1 .. Len(F(i)) : flat[k] = F(i)[k]
  <2>1. Under(i, n)
    BY <1>1, <1>3
  <2>2. F(i) \in Seq(S) /\ flat \in Seq(S)
    BY <1>1
  <2>3. Len(F(i)) =< Len(flat) /\ \A k \in 1 .. Len(F(i)) : flat[k] = F(i)[k]
    BY <1>1, <2>1
  <2> DEFINE a == F(i)
  <2> HIDE DEF a
  <2>4. SubSeq(a, 1, Len(a)) = SubSeq(flat, 1, Len(a))
    BY <2>2, <2>3, SubSeqProperties, SeqEqual DEF a
  <2> QED
    BY <2>2, <2>3, <2>4 DEF a, IsPrefix
<1>5. ASSUME NEW i \in 1 .. n, NEW k \in 1 .. Len(ss[i])
      PROVE  flat[Len(F(i - 1)) + k] = ss[i][k]
  <2>1. Len(F(i - 1)) \in Nat /\ Len(ss[i]) \in Nat /\ i \in 0 .. n
    BY <1>1, <1>4
  <2>2. Len(F(i - 1)) + k \in 1 .. Len(F(i))
    <3>1. Len(F(i)) = Len(F(i - 1)) + Len(ss[i])
      BY <1>2
    <3> QED
      BY <2>1, <3>1
  <2>3. flat[Len(F(i - 1)) + k] = F(i)[Len(F(i - 1)) + k]
    BY <1>4, <2>1, <2>2
  <2> QED
    BY <1>2, <2>3
<1>6. flat \in Seq(S) /\ Len(F(0)) = 0 /\ Len(F(n)) = Len(flat)
  BY <1>1
<1> QED
  BY <1>2, <1>4, <1>5, <1>6 DEF flat, F

-----------------------------------------------------------------------------
(* Sequences *)

(* A sequence, of whatever is in it.                                          *)
IsListOf(s) == s \in Seq(ToSet(s))

(* What is known of a sequence.                                               *)
LEMMA Lists ==
  ASSUME NEW s, IsListOf(s)
  PROVE  /\ Len(s) \in Nat /\ DOMAIN s = 1 .. Len(s) /\ s = [i \in 1 .. Len(s) |-> s[i]]
         /\ \A i \in 1 .. Len(s) : s[i] \in ToSet(s)
         /\ \A S : ToSet(s) \subseteq S => s \in Seq(S)
<1>1. s \in Seq(ToSet(s))
  BY DEF IsListOf
<1>2. Len(s) \in Nat /\ DOMAIN s = 1 .. Len(s) /\ s = [i \in 1 .. Len(s) |-> s[i]]
      /\ \A i \in 1 .. Len(s) : s[i] \in ToSet(s)
  <2> DEFINE S == ToSet(s)
  <2> HIDE DEF S
  <2>1. s \in Seq(S)
    BY <1>1 DEF S
  <2> QED
    BY <2>1 DEF S
<1>3. \A S : ToSet(s) \subseteq S => s \in Seq(S)
  <2> SUFFICES ASSUME NEW S, ToSet(s) \subseteq S PROVE s \in Seq(S)
    OBVIOUS
  <2> QED
    BY <1>1, SeqMonotonic
<1> QED
  BY <1>2, <1>3

(* A function on 1 .. n is a sequence,                                        *)
LEMMA ListOfFunction ==
  ASSUME NEW n \in Nat, NEW f, f = [i \in 1 .. n |-> f[i]]
  PROVE  IsListOf(f) /\ Len(f) = n /\ DOMAIN f = 1 .. n
<1>1. DOMAIN f = 1 .. n
  OBVIOUS
<1>2. ToSet(f) = {f[i] : i \in 1 .. n}
  BY <1>1 DEF ToSet
<1> DEFINE S == {f[i] : i \in 1 .. n}
<1>3. f \in [1 .. n -> S]
  <2>1. \A i \in 1 .. n : f[i] \in S
    OBVIOUS
  <2> HIDE DEF S
  <2>2. [i \in 1 .. n |-> f[i]] \in [1 .. n -> S]
    BY <2>1
  <2> QED
    BY <2>2
<1> HIDE DEF S
<1>4. f \in Seq(S) /\ Len(f) = n
  BY <1>3
<1> QED
  BY <1>1, <1>2, <1>4 DEF IsListOf, S

(* and two of them are equal if their items are.                              *)
LEMMA ListsEqual ==
  ASSUME NEW s, NEW t, IsListOf(s), IsListOf(t), Len(s) = Len(t),
         \A i \in 1 .. Len(s) : s[i] = t[i]
  PROVE  s = t
<1> DEFINE S == ToSet(s) \cup ToSet(t)
<1>1. s \in Seq(S) /\ t \in Seq(S)
  BY Lists
<1> HIDE DEF S
<1> QED
  BY <1>1, SeqEqual

(* Two sequences, one after the other, and a sequence of one.                 *)
LEMMA JoinedLists ==
  ASSUME NEW s, NEW t, IsListOf(s), IsListOf(t)
  PROVE  /\ IsListOf(s \o t) /\ Len(s \o t) = Len(s) + Len(t)
         /\ \A k \in 1 .. Len(s) : (s \o t)[k] = s[k]
         /\ \A k \in 1 .. Len(t) : (s \o t)[Len(s) + k] = t[k]
<1> DEFINE S == ToSet(s) \cup ToSet(t)
           u == s \o t
<1>1. s \in Seq(S) /\ t \in Seq(S)
  BY Lists
<1> HIDE DEF S
<1>2. u \in Seq(S) /\ Len(u) = Len(s) + Len(t) /\ Len(s) \in Nat /\ Len(t) \in Nat
      /\ (\A k \in 1 .. Len(s) : u[k] = s[k]) /\ \A k \in 1 .. Len(t) : u[Len(s) + k] = t[k]
  BY <1>1
<1> HIDE DEF u
<1>3. u = [k \in 1 .. Len(u) |-> u[k]] /\ Len(u) \in Nat
  BY <1>2
<1>4. IsListOf(u)
  BY <1>3, ListOfFunction
<1> QED
  BY <1>2, <1>4 DEF u

LEMMA OneLong ==
  ASSUME NEW x
  PROVE  IsListOf(<<x>>) /\ Len(<<x>>) = 1 /\ <<x>>[1] = x
BY DEF IsListOf, ToSet

-----------------------------------------------------------------------------
(* Two sequences agree as far as both go.                                     *)
Agree(s, t) == \A k \in 1 .. Len(s) : k =< Len(t) => s[k] = t[k]

(* Blocks of which none starts another, so that it is clear where one ends.   *)
Delimiting(B) ==
  /\ B \subseteq Seq(Nat)
  /\ \A b \in B : Len(b) > 0
  /\ \A b, c \in B : Agree(b, c) => b = c

(* Such blocks can be read back from the whole.                               *)
LEMMA BlocksReadBack ==
  ASSUME NEW B, Delimiting(B), NEW ss \in Seq(B), NEW tt \in Seq(B),
         FlattenSeq(ss) = FlattenSeq(tt)
  PROVE  ss = tt
<1> DEFINE n == Len(ss)
           m == Len(tt)
           flat == FlattenSeq(ss)
           P(i) == Len(FirstBlocks(ss, i))
           Q(i) == Len(FirstBlocks(tt, i))
<1>1. /\ n \in Nat /\ m \in Nat
      /\ \A i \in 1 .. n : ss[i] \in B /\ Len(ss[i]) \in Nat /\ Len(ss[i]) > 0
      /\ \A i \in 1 .. m : tt[i] \in B /\ Len(tt[i]) \in Nat /\ Len(tt[i]) > 0
  <2>1. n \in Nat /\ m \in Nat /\ (\A i \in 1 .. n : ss[i] \in B) /\ \A i \in 1 .. m : tt[i] \in B
    OBVIOUS
  <2>2. \A b \in B : Len(b) \in Nat /\ Len(b) > 0
    BY DEF Delimiting
  <2> QED
    BY <2>1, <2>2
<1>2. ss \in Seq(Seq(Nat)) /\ tt \in Seq(Seq(Nat))
  BY SeqMonotonic DEF Delimiting
<1>3. /\ P(0) = 0 /\ P(n) = Len(flat)
      /\ \A i \in 0 .. n : P(i) \in Nat /\ P(i) =< Len(flat)
      /\ \A i \in 1 .. n : P(i) = P(i - 1) + Len(ss[i])
                           /\ \A k \in 1 .. Len(ss[i]) : flat[P(i - 1) + k] = ss[i][k]
  BY <1>2, BlockPlaces, Zenon
<1>4. /\ Q(0) = 0 /\ Q(m) = Len(flat)
      /\ \A i \in 0 .. m : Q(i) \in Nat /\ Q(i) =< Len(flat)
      /\ \A i \in 1 .. m : Q(i) = Q(i - 1) + Len(tt[i])
                           /\ \A k \in 1 .. Len(tt[i]) : flat[Q(i - 1) + k] = tt[i][k]
  <2> DEFINE other == FlattenSeq(tt)
  <2>1. /\ Q(0) = 0 /\ Q(m) = Len(other)
        /\ \A i \in 0 .. m : Q(i) \in Nat /\ Q(i) =< Len(other)
        /\ \A i \in 1 .. m : Q(i) = Q(i - 1) + Len(tt[i])
                             /\ \A k \in 1 .. Len(tt[i]) : other[Q(i - 1) + k] = tt[i][k]
    BY <1>2, BlockPlaces, Zenon
  <2>2. other = flat
    OBVIOUS
  <2> HIDE DEF other, flat, Q
  <2> QED
    BY <2>1, <2>2
<1> HIDE DEF n, m, flat, P, Q
<1> DEFINE T == {i \in 0 .. n : i =< m /\ P(i) = Q(i) /\ \A j \in 1 .. i : ss[j] = tt[j]}
<1>5. 0 \in T
  BY <1>1, <1>3, <1>4
<1>6. ASSUME NEW i \in 1 .. n, i - 1 \in T PROVE i \in T
  <2>1. i - 1 =< m /\ P(i - 1) = Q(i - 1) /\ \A j \in 1 .. i - 1 : ss[j] = tt[j]
    BY <1>6
  <2>2. P(i) = P(i - 1) + Len(ss[i]) /\ Len(ss[i]) > 0 /\ Len(ss[i]) \in Nat /\ P(i) =< Len(flat)
        /\ P(i - 1) \in Nat /\ P(i) \in Nat
    BY <1>1, <1>3
  <2>3. i \in 1 .. m
    <3>1. i - 1 # m
      BY <1>4, <2>1, <2>2
    <3> QED
      BY <1>1, <2>1, <3>1
  <2>4. Q(i) = Q(i - 1) + Len(tt[i]) /\ Len(tt[i]) \in Nat
    BY <1>1, <1>4, <2>3
  <2>5. ss[i] = tt[i]
    <3>1. \A k \in 1 .. Len(ss[i]) : k =< Len(tt[i]) => ss[i][k] = tt[i][k]
      <4> SUFFICES ASSUME NEW k \in 1 .. Len(ss[i]), k =< Len(tt[i]) PROVE ss[i][k] = tt[i][k]
        OBVIOUS
      <4>1. flat[P(i - 1) + k] = ss[i][k]
        BY <1>3
      <4>2. k \in 1 .. Len(tt[i])
        BY <2>2, <2>4
      <4>3. flat[Q(i - 1) + k] = tt[i][k]
        BY <1>4, <2>3, <4>2
      <4> QED
        BY <2>1, <4>1, <4>3
    <3>2. ss[i] \in B /\ tt[i] \in B
      BY <1>1, <2>3
    <3> QED
      BY <3>1, <3>2 DEF Delimiting, Agree
  <2>6. P(i) = Q(i)
    BY <2>1, <2>2, <2>4, <2>5
  <2>7. \A j \in 1 .. i : ss[j] = tt[j]
    <3>1. \A j \in 1 .. i : j = i \/ j \in 1 .. i - 1
      OBVIOUS
    <3> QED
      BY <2>1, <2>5, <3>1
  <2> QED
    BY <2>3, <2>6, <2>7
<1> HIDE DEF T
<1>7. n \in T
  <2>1. \A i \in 0 .. n : i \in T
    BY <1>1, <1>5, <1>6, Upwards
  <2> QED
    BY <1>1, <2>1
<1>8. n =< m /\ P(n) = Q(n) /\ \A j \in 1 .. n : ss[j] = tt[j]
  BY <1>7 DEF T
<1>9. n = m
  <2> SUFFICES ASSUME n < m PROVE FALSE
    BY <1>1, <1>8
  <2>1. n + 1 \in 1 .. m /\ (n + 1) - 1 = n
    BY <1>1
  <2>2. Q(n + 1) = Q(n) + Len(tt[n + 1]) /\ Len(tt[n + 1]) \in Nat /\ Len(tt[n + 1]) > 0
    BY <1>1, <1>4, <2>1
  <2>3. Q(n + 1) =< Len(flat) /\ Q(n + 1) \in Nat /\ Q(n) = Len(flat) /\ Q(n) \in Nat
    BY <1>1, <1>3, <1>4, <1>8, <2>1
  <2> QED
    BY <2>2, <2>3
<1> QED
  BY <1>8, <1>9, SeqEqual DEF n, m

-----------------------------------------------------------------------------
(* A finite set, listed.                                                      *)
LEMMA SetListed ==
  ASSUME NEW S, IsFiniteSet(S)
  PROVE  SetToSeq(S) \in Seq(S) /\ ToSet(SetToSeq(S)) = S
<1> DEFINE n == Cardinality(S)
           f == SetToSeq(S)
<1>1. n \in Nat /\ ExistsBijection(1 .. n, S)
  BY FS_CardinalityType
<1>2. PICK g : g \in [1 .. n -> S] /\ IsInjective(g)
  BY <1>1 DEF ExistsBijection, Bijection, Injection
<1>3. f \in [1 .. n -> S] /\ IsInjective(f)
  BY <1>2 DEF SetToSeq
<1> HIDE DEF n, f
<1>4. f \in Injection(1 .. n, S)
  BY <1>3 DEF Injection
<1>5. IsFiniteSet(1 .. n) /\ Cardinality(1 .. n) = n
  BY <1>1, FS_Interval
<1>6. f \in Surjection(1 .. n, S)
  BY <1>4, <1>5, FS_Injection DEF n
<1>7. \A x \in S : \E i \in 1 .. n : f[i] = x
  BY <1>6 DEF Surjection
<1>8. f \in Seq(S) /\ DOMAIN f = 1 .. n
  BY <1>1, <1>3
<1>9. ToSet(f) = S
  BY <1>3, <1>7, <1>8 DEF ToSet
<1> QED
  BY <1>8, <1>9 DEF f

(* How many of 1 .. n come before j.                                          *)
CountBefore(n, before, j) == Cardinality({i \in 1 .. n : <<i, j>> \in before})

(* Each number up to n - 1 is the count of one of 1 .. n.                     *)
LEMMA PlacesFilled ==
  ASSUME NEW n \in Nat, NEW before,
         \A i \in 1 .. n : <<i, i>> \notin before,
         \A i, j \in 1 .. n : i # j => <<i, j>> \in before \/ <<j, i>> \in before,
         \A i, j, k \in 1 .. n : <<i, j>> \in before /\ <<j, k>> \in before => <<i, k>> \in before
  PROVE  /\ \A i, j \in 1 .. n : CountBefore(n, before, i) = CountBefore(n, before, j) => i = j
         /\ \A p \in 1 .. n : \E j \in 1 .. n : CountBefore(n, before, j) = p - 1
         /\ \A j \in 1 .. n : CountBefore(n, before, j) \in Nat
                              /\ CountBefore(n, before, j) + 1 \in 1 .. n
<1> DEFINE A(j) == {i \in 1 .. n : <<i, j>> \in before}
           c(j) == CountBefore(n, before, j)
<1>1. IsFiniteSet(1 .. n) /\ Cardinality(1 .. n) = n
  BY FS_Interval
<1>2. ASSUME NEW j \in 1 .. n
      PROVE  IsFiniteSet(A(j)) /\ c(j) \in Nat /\ j \notin A(j) /\ c(j) = Cardinality(A(j))
  BY <1>1, FS_Subset, FS_CardinalityType DEF CountBefore
<1>3. ASSUME NEW i \in 1 .. n, NEW j \in 1 .. n, <<i, j>> \in before PROVE c(i) < c(j)
  <2>1. A(i) \cup {i} \subseteq A(j)
    BY <1>3
  <2>2. i \notin A(i) /\ IsFiniteSet(A(i)) /\ IsFiniteSet(A(j)) /\ c(i) \in Nat /\ c(j) \in Nat
    BY <1>2
  <2>3. c(i) = Cardinality(A(i)) /\ c(j) = Cardinality(A(j))
    BY <1>2
  <2> HIDE DEF A, c
  <2>4. Cardinality(A(i) \cup {i}) = Cardinality(A(i)) + 1
    BY <2>2, FS_AddElement
  <2>5. Cardinality(A(i) \cup {i}) =< Cardinality(A(j))
    BY <2>1, <2>2, FS_Subset
  <2> QED
    BY <2>2, <2>3, <2>4, <2>5
<1>4. ASSUME NEW j \in 1 .. n PROVE c(j) + 1 \in 1 .. n
  <2>1. A(j) \cup {j} \subseteq 1 .. n
    OBVIOUS
  <2>2. j \notin A(j) /\ IsFiniteSet(A(j)) /\ c(j) \in Nat /\ c(j) = Cardinality(A(j))
    BY <1>2
  <2> HIDE DEF A, c
  <2>3. Cardinality(A(j) \cup {j}) = c(j) + 1
    BY <2>2, FS_AddElement
  <2>4. Cardinality(A(j) \cup {j}) =< n
    BY <1>1, <2>1, FS_Subset
  <2> QED
    BY <2>2, <2>3, <2>4
<1> HIDE DEF A, c
<1>5. \A i, j \in 1 .. n : c(i) = c(j) => i = j
  <2> SUFFICES ASSUME NEW i \in 1 .. n, NEW j \in 1 .. n, i # j PROVE c(i) # c(j)
    OBVIOUS
  <2>1. c(i) < c(j) \/ c(j) < c(i)
    BY <1>3
  <2> QED
    BY <1>2, <2>1
<1> DEFINE f == [j \in 1 .. n |-> c(j) + 1]
<1>6. f \in [1 .. n -> 1 .. n]
  BY <1>4
<1>7. IsInjective(f)
  BY <1>2, <1>5 DEF IsInjective
<1>8. f \in Surjection(1 .. n, 1 .. n)
  <2> HIDE DEF f
  <2>1. f \in Injection(1 .. n, 1 .. n)
    BY <1>6, <1>7 DEF Injection
  <2> QED
    BY <1>1, <2>1, FS_Injection
<1>9. ASSUME NEW p \in 1 .. n PROVE \E j \in 1 .. n : c(j) = p - 1
  <2>1. PICK j \in 1 .. n : f[j] = p
    BY <1>8 DEF Surjection
  <2>2. c(j) = p - 1
    BY <1>2, <2>1
  <2> QED
    BY <2>2
<1> QED
  BY <1>2, <1>4, <1>5, <1>9 DEF c

(* Counting the numbers of a list without repetition is counting its members. *)
LEMMA CountedAsSet ==
  ASSUME NEW n \in Nat, NEW r \in [1 .. n -> Nat], NEW x \in Nat,
         \A i, j \in 1 .. n : r[i] = r[j] => i = j
  PROVE  LET R == {r[i] : i \in 1 .. n}
         IN /\ IsFiniteSet(R) /\ Cardinality(R) = n
            /\ Cardinality({i \in 1 .. n : r[i] < x}) = Cardinality({y \in R : y < x})
<1> DEFINE R == {r[i] : i \in 1 .. n}
           A == {i \in 1 .. n : r[i] < x}
           B == {y \in R : y < x}
<1>1. IsFiniteSet(1 .. n) /\ Cardinality(1 .. n) = n
  BY FS_Interval
<1>2. IsFiniteSet(R) /\ Cardinality(R) = n
  <2>1. r \in [1 .. n -> R] /\ IsInjective(r) /\ \A y \in R : \E i \in 1 .. n : r[i] = y
    BY DEF IsInjective
  <2> HIDE DEF R
  <2>2. ExistsBijection(1 .. n, R)
    BY <2>1 DEF ExistsBijection, Bijection, Injection, Surjection
  <2> QED
    BY <1>1, <2>2, FS_Bijection
<1>3. IsFiniteSet(A) /\ Cardinality(A) = Cardinality(B)
  <2>1. IsFiniteSet(A)
    BY <1>1, FS_Subset
  <2> DEFINE f == [i \in A |-> r[i]]
  <2>2. f \in [A -> B] /\ (\A i, j \in A : f[i] = f[j] => i = j) /\ \A y \in B : \E i \in A : f[i] = y
    OBVIOUS
  <2>3. DOMAIN f = A
    OBVIOUS
  <2> HIDE DEF A, B, f
  <2>4. ExistsBijection(A, B)
    BY <2>2, <2>3 DEF ExistsBijection, Bijection, Injection, Surjection, IsInjective
  <2> QED
    BY <2>1, <2>4, FS_Bijection
<1> QED
  BY <1>2, <1>3

HowManyLess(R, x) == Cardinality({z \in R : z < x})

(* A member of a finite set of numbers is known by how many are less.         *)
LEMMA KnownByCount ==
  ASSUME NEW R \in SUBSET Nat, IsFiniteSet(R), NEW x \in R, NEW y \in R,
         HowManyLess(R, x) = HowManyLess(R, y)
  PROVE  x = y
<1> DEFINE Less(a) == {z \in R : z < a}
<1>1. ASSUME NEW a \in R, NEW b \in R, a < b PROVE Cardinality(Less(a)) < Cardinality(Less(b))
  <2>1. Less(a) \cup {a} \subseteq Less(b) /\ a \notin Less(a)
    <3>1. a \in Nat /\ b \in Nat /\ \A z \in R : z \in Nat
      OBVIOUS
    <3>2. \A z \in R : z < a => z < b
      BY <1>1, <3>1
    <3>3. ~(a < a)
      BY <3>1
    <3> QED
      BY <1>1, <3>2, <3>3, Zenon
  <2>2. IsFiniteSet(Less(a)) /\ IsFiniteSet(Less(b))
    BY FS_Subset
  <2> HIDE DEF Less
  <2>3. Cardinality(Less(a) \cup {a}) = Cardinality(Less(a)) + 1
    BY <2>1, <2>2, FS_AddElement
  <2>4. Cardinality(Less(a) \cup {a}) =< Cardinality(Less(b))
    BY <2>1, <2>2, FS_Subset
  <2>5. Cardinality(Less(a)) \in Nat /\ Cardinality(Less(b)) \in Nat
    BY <2>2, FS_CardinalityType
  <2> QED
    BY <2>3, <2>4, <2>5
<1>2. IsFiniteSet(Less(x)) /\ IsFiniteSet(Less(y))
  BY FS_Subset
<1>3. Cardinality(Less(x)) = Cardinality(Less(y)) /\ Cardinality(Less(x)) \in Nat
  BY <1>2, FS_CardinalityType DEF HowManyLess
<1> HIDE DEF Less
<1>4. ~(x < y) /\ ~(y < x)
  BY <1>1, <1>3
<1> QED
  BY <1>4
=============================================================================
