----------------------------- MODULE StructureProofs -----------------------------
(* What the comparison finds (fingerprint/divergence.py:33-134): of two       *)
(* segments, for units of any kind and segments of any length; of two         *)
(* fingerprints; and of two requests, whose units determine them.             *)
EXTENDS Structure, ListLemmas

(* Two chains of one seed differ at a place exactly if the units up to it do. *)
LEMMA ChainsDifferWithUnits ==
  ASSUME NEW U, NEW p \in Seq(U), NEW c \in Seq(U), NEW key, NEW kind,
         NEW i \in 1 .. Len(p), i =< Len(c)
  PROVE  HashChain(key, kind, p)[i] # HashChain(key, kind, c)[i]
           <=> \E j \in 1 .. i : p[j] # c[j]
<1>1. i \in DOMAIN p /\ i \in DOMAIN c
  BY LenProperties
<1>2. /\ HashChain(key, kind, p)[i] = <<key, kind, SubSeq(p, 1, i)>>
      /\ HashChain(key, kind, c)[i] = <<key, kind, SubSeq(c, 1, i)>>
  BY <1>1 DEF HashChain
<1>3. HashChain(key, kind, p)[i] # HashChain(key, kind, c)[i] <=> SubSeq(p, 1, i) # SubSeq(c, 1, i)
  BY <1>2
<1>4. /\ SubSeq(p, 1, i) \in Seq(U) /\ Len(SubSeq(p, 1, i)) = i
      /\ \A j \in 1 .. i : SubSeq(p, 1, i)[j] = p[j]
  BY SubSeqProperties
<1>5. /\ SubSeq(c, 1, i) \in Seq(U) /\ Len(SubSeq(c, 1, i)) = i
      /\ \A j \in 1 .. i : SubSeq(c, 1, i)[j] = c[j]
  BY SubSeqProperties
<1>6. SubSeq(p, 1, i) = SubSeq(c, 1, i) <=> \A j \in 1 .. i : p[j] = c[j]
  BY <1>4, <1>5, SeqEqual
<1> QED
  BY <1>3, <1>6

(* An offset is None exactly if the units are the same, or the segment may    *)
(* grow and only did; any other offset is the first place where they differ,  *)
(* or where the shorter one ends, all before it being equal.  So neither the  *)
(* boundary of equal lengths nor the end of a segment is off by one           *)
(* (divergence.py:48-57), for units of any kind and segments of any length.   *)
THEOREM OffsetIsFirstChange ==
  ASSUME NEW U, NEW p \in Seq(U), NEW c \in Seq(U), NEW key, NEW kind, NEW tolerate \in BOOLEAN,
         NEW offset,
         offset = SegmentDivergenceOffset(Segment(key, kind, p), Segment(key, kind, c), tolerate)
  PROVE  /\ offset = None <=>
              p = c \/ (tolerate /\ Len(p) < Len(c) /\ \A j \in 1 .. Len(p) : p[j] = c[j])
         /\ offset # None =>
              /\ offset \in Nat /\ offset =< Len(p) /\ offset =< Len(c)
              /\ \A j \in 1 .. offset : p[j] = c[j]
              /\ offset < Len(p) /\ offset < Len(c) => p[offset + 1] # c[offset + 1]
<1> DEFINE shared    == Min({Len(p), Len(c)})
           P         == HashChain(key, kind, p)
           C         == HashChain(key, kind, c)
           differing == {i \in 0 .. shared - 1 : P[i + 1] # C[i + 1]}
<1>1. Len(p) \in Nat /\ Len(c) \in Nat
  BY LenProperties
<1>2. shared \in {Len(p), Len(c)} /\ shared =< Len(p) /\ shared =< Len(c)
  BY <1>1, MinOfNats
<1>3. offset = IF differing # {} THEN Min(differing)
               ELSE IF Len(c) = Len(p) THEN None
               ELSE IF tolerate /\ Len(c) > Len(p) THEN None
               ELSE shared
  BY DEF SegmentDivergenceOffset, Segment
<1> HIDE DEF shared
<1>4. \A i \in 0 .. shared - 1 : P[i + 1] # C[i + 1] <=> \E j \in 1 .. i + 1 : p[j] # c[j]
  <2> SUFFICES ASSUME NEW i \in 0 .. shared - 1
               PROVE  P[i + 1] # C[i + 1] <=> \E j \in 1 .. i + 1 : p[j] # c[j]
    OBVIOUS
  <2>1. i + 1 \in 1 .. Len(p) /\ i + 1 =< Len(c)
    BY <1>1, <1>2
  <2> QED
    BY <2>1, ChainsDifferWithUnits
<1> HIDE DEF P, C
<1>5. CASE differing # {}
  <2>1. offset \in differing /\ \A n \in differing : offset =< n
    <3>1. differing \in SUBSET Nat
      BY <1>1, <1>2
    <3> HIDE DEF differing
    <3>2. offset = Min(differing)
      BY <1>3, <1>5
    <3> QED
      BY <3>1, <3>2, <1>5, MinOfNats
  <2>2. offset \in 0 .. shared - 1 /\ \E j \in 1 .. offset + 1 : p[j] # c[j]
    BY <2>1, <1>4
  <2>3. \A j \in 1 .. offset : p[j] = c[j]
    <3> SUFFICES ASSUME NEW j \in 1 .. offset, p[j] # c[j] PROVE FALSE
      OBVIOUS
    <3>1. j - 1 \in 0 .. shared - 1 /\ j - 1 < offset /\ j \in 1 .. (j - 1) + 1
      BY <2>2, <1>1, <1>2
    <3>2. j - 1 \in differing
      BY <3>1, <1>4
    <3> QED
      BY <3>1, <3>2, <2>1, <2>2
  <2>4. p[offset + 1] # c[offset + 1]
    BY <2>2, <2>3
  <2>5. p # c /\ ~(\A j \in 1 .. Len(p) : p[j] = c[j])
    BY <2>2, <2>4, <1>1, <1>2
  <2>6. offset # None
    BY <2>2, <1>1, <1>2, NoneAssumption
  <2> QED
    BY <2>2, <2>3, <2>4, <2>5, <2>6, <1>1, <1>2
<1>6. CASE differing = {}
  <2>1. \A j \in 1 .. shared : p[j] = c[j]
    <3> SUFFICES ASSUME NEW j \in 1 .. shared PROVE p[j] = c[j]
      OBVIOUS
    <3>1. j - 1 \in 0 .. shared - 1 /\ j \in 1 .. (j - 1) + 1
      BY <1>1, <1>2
    <3> QED
      BY <3>1, <1>4, <1>6
  <2>2. CASE Len(p) = Len(c)
    <3>1. p = c
      BY <2>1, <2>2, <1>1, <1>2, SeqEqual
    <3> QED
      BY <3>1, <2>2, <1>3, <1>6
  <2>3. CASE Len(p) # Len(c) /\ tolerate /\ Len(c) > Len(p)
    <3>1. offset = None
      BY <2>3, <1>1, <1>3, <1>6
    <3>2. shared = Len(p)
      BY <2>3, <1>1, <1>2
    <3>3. \A j \in 1 .. Len(p) : p[j] = c[j]
      BY <2>1, <3>2
    <3> QED
      BY <3>1, <3>3, <2>3
  <2>4. CASE Len(p) # Len(c) /\ ~(tolerate /\ Len(c) > Len(p))
    <3>1. offset = shared /\ offset # None /\ p # c
      BY <2>4, <1>1, <1>2, <1>3, <1>6, NoneAssumption
    <3> QED
      BY <3>1, <2>1, <2>4, <1>1, <1>2
  <2> QED
    BY <2>2, <2>3, <2>4
<1> QED
  BY <1>5, <1>6

-----------------------------------------------------------------------------
(* compare as a whole *)

(* What a segment may do without a report: stay, or grow if it is tolerated.  *)
Unchanged(kind, p, c) ==
  \/ Units(kind, p) = Units(kind, c)
  \/ /\ kind \in GROWTH_TOLERANT_SEGMENTS
     /\ Len(Units(kind, p)) < Len(Units(kind, c))
     /\ \A j \in 1 .. Len(Units(kind, p)) : Units(kind, p)[j] = Units(kind, c)[j]

(* The units p and c have in common in one segment end at offset.             *)
ChangesAt(kind, p, c, offset) ==
  /\ offset \in Nat /\ offset =< Len(Units(kind, p)) /\ offset =< Len(Units(kind, c))
  /\ \A j \in 1 .. offset : Units(kind, p)[j] = Units(kind, c)[j]
  /\ offset < Len(Units(kind, p)) /\ offset < Len(Units(kind, c)) =>
       Units(kind, p)[offset + 1] # Units(kind, c)[offset + 1]

(* The units are what they are in the source: sequences.                      *)
HasUnits(request, U) == \A kind \in ToSet(SEGMENT_ORDER) : Units(kind, request) \in Seq(U)

(* The offset of a segment between the fingerprints of two requests.          *)
OffsetOf(kind, p, c, key) ==
  SegmentDivergenceOffset(FingerprintRequest(p, key).segments[kind],
                          FingerprintRequest(c, key).segments[kind],
                          kind \in GROWTH_TOLERANT_SEGMENTS)

(* The order of the segments, spelled out.                                    *)
LEMMA Order ==
  /\ DOMAIN SEGMENT_ORDER = 1 .. 3 /\ Len(SEGMENT_ORDER) = 3
  /\ SEGMENT_ORDER[1] = "tools" /\ SEGMENT_ORDER[2] = "system" /\ SEGMENT_ORDER[3] = "messages"
  /\ ToSet(SEGMENT_ORDER) = {"tools", "system", "messages"}
<1>1. /\ DOMAIN SEGMENT_ORDER = 1 .. 3 /\ Len(SEGMENT_ORDER) = 3
      /\ SEGMENT_ORDER[1] = "tools" /\ SEGMENT_ORDER[2] = "system" /\ SEGMENT_ORDER[3] = "messages"
  BY DEF SEGMENT_ORDER
<1> QED
  BY <1>1 DEF ToSet

(* The sum over the segments, written out.                                    *)
LEMMA UnitsSummed ==
  ASSUME NEW f, NEW t \in Nat, NEW s \in Nat, NEW m \in Nat,
         f.segments["tools"].unit_count = t, f.segments["system"].unit_count = s,
         f.segments["messages"].unit_count = m
  PROVE  /\ UnitsBefore(f, 1) = 0 /\ UnitsBefore(f, 2) = t /\ UnitsBefore(f, 3) = t + s
         /\ TotalUnits(f) = t + s + m
<1> DEFINE Step(g, i) == IF i = 1 THEN 0 ELSE g[i - 1] + f.segments[SEGMENT_ORDER[i - 1]].unit_count
           IsSum(g, k) == g = [i \in 1 .. k |-> Step(g, i)]
           written == [i \in 1 .. 4 |-> CASE i = 1 -> 0 [] i = 2 -> t [] i = 3 -> t + s [] i = 4 -> t + s + m]
<1>1. ASSUME NEW k \in 1 .. 4 PROVE UnitsBefore(f, k) = written[k]
  <2> DEFINE part == [i \in 1 .. k |-> written[i]]
             sum  == CHOOSE g : IsSum(g, k)
  <2>1. IsSum(part, k)
    <3>1. ASSUME NEW i \in 1 .. k PROVE written[i] = Step(part, i)
      <4>1. i \in 1 .. 4 /\ (i # 1 => i - 1 \in 1 .. k)
        OBVIOUS
      <4>2. i # 1 => part[i - 1] = written[i - 1]
        BY <4>1
      <4>3. CASE i = 1
        BY <4>3
      <4>4. CASE i = 2
        BY <4>1, <4>2, <4>4, Order
      <4>5. CASE i = 3
        BY <4>1, <4>2, <4>5, Order
      <4>6. CASE i = 4
        BY <4>1, <4>2, <4>6, Order
      <4> QED
        BY <4>1, <4>3, <4>4, <4>5, <4>6
    <3> HIDE DEF written
    <3>2. \A i \in 1 .. k : part[i] = Step(part, i)
      BY <3>1
    <3>3. part = [i \in 1 .. k |-> part[i]]
      OBVIOUS
    <3> HIDE DEF part
    <3>4. [i \in 1 .. k |-> part[i]] = [i \in 1 .. k |-> Step(part, i)]
      BY <3>2
    <3> QED
      BY <3>3, <3>4
  <2>2. IsSum(sum, k)
    BY <2>1
  <2>3. ASSUME NEW i \in 1 .. k PROVE sum[i] = Step(sum, i)
    BY <2>2
  <2> HIDE DEF sum, part, written
  <2>4. sum[1] = 0
    <3>1. 1 \in 1 .. k
      OBVIOUS
    <3> QED
      BY <3>1, <2>3
  <2>5. k >= 2 => sum[2] = t
    BY <2>3, <2>4, Order
  <2>6. k >= 3 => sum[3] = t + s
    BY <2>3, <2>5, Order
  <2>7. k >= 4 => sum[4] = t + s + m
    BY <2>3, <2>6, Order
  <2>8. UnitsBefore(f, k) = sum[k]
    BY DEF UnitsBefore, sum
  <2> QED
    BY <2>4, <2>5, <2>6, <2>7, <2>8 DEF written
<1>2. written[1] = 0 /\ written[2] = t /\ written[3] = t + s /\ written[4] = t + s + m
  OBVIOUS
<1>3. TotalUnits(f) = UnitsBefore(f, 4)
  BY Order DEF TotalUnits
<1> QED
  BY <1>1, <1>2, <1>3

(* What is behind each segment of c in the order of the prefix.               *)
Behind(c) ==
  [tools    |-> Len(Units("system", c)) + Len(Units("messages", c)),
   system   |-> Len(Units("messages", c)),
   messages |-> 0]

(* The units of all segments.                                                 *)
AllUnits(c) == Len(Units("tools", c)) + Behind(c).tools

(* Model and tool choice, which are compared before the segments.             *)
SameControls(p, c) == p.model = c.model /\ p.tool_choice = c.tool_choice

(* A segment of a fingerprint has the offset of the request's units.          *)
LEMMA SegmentOffset ==
  ASSUME NEW U, NEW key, NEW p, NEW c, HasUnits(p, U), HasUnits(c, U),
         NEW kind \in ToSet(SEGMENT_ORDER)
  PROVE  /\ OffsetOf(kind, p, c, key) = None <=> Unchanged(kind, p, c)
         /\ OffsetOf(kind, p, c, key) # None => ChangesAt(kind, p, c, OffsetOf(kind, p, c, key))
<1> DEFINE up == Units(kind, p)
           uc == Units(kind, c)
           tolerate == kind \in GROWTH_TOLERANT_SEGMENTS
           offset == SegmentDivergenceOffset(Segment(key, kind, up), Segment(key, kind, uc), tolerate)
<1>1. up \in Seq(U) /\ uc \in Seq(U) /\ tolerate \in BOOLEAN
  BY DEF HasUnits
<1>2. OffsetOf(kind, p, c, key) = offset
  BY DEF OffsetOf, FingerprintRequest
<1> HIDE DEF offset
<1>3. offset = SegmentDivergenceOffset(Segment(key, kind, up), Segment(key, kind, uc), tolerate)
  BY DEF offset
<1> HIDE DEF up, uc, tolerate
<1>4. /\ offset = None <=>
              up = uc \/ (tolerate /\ Len(up) < Len(uc) /\ \A j \in 1 .. Len(up) : up[j] = uc[j])
      /\ offset # None =>
              /\ offset \in Nat /\ offset =< Len(up) /\ offset =< Len(uc)
              /\ \A j \in 1 .. offset : up[j] = uc[j]
              /\ offset < Len(up) /\ offset < Len(uc) => up[offset + 1] # uc[offset + 1]
  BY <1>1, <1>3, OffsetIsFirstChange
<1> QED
  BY <1>2, <1>4 DEF Unchanged, ChangesAt, up, uc, tolerate

(* The units of a fingerprint are those of its request.                       *)
LEMMA UnitsOfFingerprint ==
  ASSUME NEW U, NEW key, NEW c, HasUnits(c, U), NEW f, f = FingerprintRequest(c, key)
  PROVE  /\ \A kind \in ToSet(SEGMENT_ORDER) :
              /\ Len(Units(kind, c)) \in Nat
              /\ f.segments[kind].unit_count = Len(Units(kind, c))
         /\ TotalUnits(f) = AllUnits(c) /\ AllUnits(c) \in Nat
         /\ \A k \in 1 .. 3 :
              /\ UnitsBefore(f, k) \in Nat /\ Behind(c)[SEGMENT_ORDER[k]] \in Nat
              /\ UnitsBefore(f, k) + Len(Units(SEGMENT_ORDER[k], c)) + Behind(c)[SEGMENT_ORDER[k]]
                   = AllUnits(c)
<1>1. \A kind \in ToSet(SEGMENT_ORDER) :
        /\ Len(Units(kind, c)) \in Nat
        /\ f.segments[kind].unit_count = Len(Units(kind, c))
  BY LenProperties DEF HasUnits, FingerprintRequest, Segment
<1> DEFINE t == Len(Units("tools", c))
           s == Len(Units("system", c))
           m == Len(Units("messages", c))
<1>2. /\ t \in Nat /\ s \in Nat /\ m \in Nat
      /\ f.segments["tools"].unit_count = t /\ f.segments["system"].unit_count = s
      /\ f.segments["messages"].unit_count = m
  BY <1>1, Order
<1>3. Behind(c) = [tools |-> s + m, system |-> m, messages |-> 0] /\ AllUnits(c) = t + (s + m)
  BY DEF Behind, AllUnits
<1>4. /\ UnitsBefore(f, 1) = 0 /\ UnitsBefore(f, 2) = t /\ UnitsBefore(f, 3) = t + s
      /\ TotalUnits(f) = t + s + m
  <2> HIDE DEF t, s, m
  <2> QED
    BY <1>2, UnitsSummed
<1>5. ASSUME NEW k \in 1 .. 3
      PROVE  /\ UnitsBefore(f, k) \in Nat /\ Behind(c)[SEGMENT_ORDER[k]] \in Nat
             /\ UnitsBefore(f, k) + Len(Units(SEGMENT_ORDER[k], c)) + Behind(c)[SEGMENT_ORDER[k]]
                  = AllUnits(c)
  <2> HIDE DEF t, s, m
  <2>1. CASE k = 1
    BY <1>2, <1>3, <1>4, <2>1, Order DEF t
  <2>2. CASE k = 2
    BY <1>2, <1>3, <1>4, <2>2, Order DEF s
  <2>3. CASE k = 3
    BY <1>2, <1>3, <1>4, <2>3, Order DEF m
  <2> QED
    BY <2>1, <2>2, <2>3
<1>6. TotalUnits(f) = AllUnits(c) /\ AllUnits(c) \in Nat
  <2> HIDE DEF t, s, m
  <2> QED
    BY <1>2, <1>3, <1>4
<1> QED
  BY <1>1, <1>5, <1>6

(* compare, for requests of any length under one key: it is silent exactly    *)
(* when nothing changed but that messages were appended.  Otherwise it names  *)
(* the model, or the tool choice, or the first segment that changed, with all *)
(* of the prefix before its offset in common, and counts as missed what the   *)
(* later request has from there to its end, through all segments              *)
(* (divergence.py:60-116).                                                    *)
THEOREM CompareFindsFirstChange ==
  ASSUME NEW U, NEW key, NEW p, NEW c, HasUnits(p, U), HasUnits(c, U),
         <<key, p.tool_choice>> # None, <<key, c.tool_choice>> # None,
         NEW report, report = Compare(FingerprintRequest(p, key), FingerprintRequest(c, key))
  PROVE  /\ report.kind \in {"none", "model_changed", "tool_choice_changed"}
                              \cup {KindForSegment[SEGMENT_ORDER[k]] : k \in 1 .. 3}
         /\ report.kind = "none" <=>
              /\ SameControls(p, c)
              /\ \A kind \in ToSet(SEGMENT_ORDER) : Unchanged(kind, p, c)
         /\ report.kind = "model_changed" <=> p.model # c.model
         /\ report.kind = "model_changed" => report.cache_missed_units = AllUnits(c)
         /\ report.kind = "tool_choice_changed" <=>
              p.model = c.model /\ p.tool_choice # c.tool_choice
         /\ \A k \in 1 .. 3 :
              LET kind == SEGMENT_ORDER[k] IN
              report.kind = KindForSegment[kind] =>
                /\ SameControls(p, c) /\ ~Unchanged(kind, p, c)
                /\ \A i \in 1 .. k - 1 : Units(SEGMENT_ORDER[i], p) = Units(SEGMENT_ORDER[i], c)
                /\ ChangesAt(kind, p, c, report.segment_offset)
                /\ report.cache_missed_units =
                     Len(Units(kind, c)) - report.segment_offset + Behind(c)[kind]
<1> DEFINE fp == FingerprintRequest(p, key)
           fc == FingerprintRequest(c, key)
           Off(k) == OffsetOf(SEGMENT_ORDER[k], p, c, key)
           diverged == {k \in 1 .. 3 : Off(k) # None}
           first == Min(diverged)
<1>1. /\ fp.key_ref = fc.key_ref
      /\ fp.model_digest = fc.model_digest <=> p.model = c.model
      /\ fp.tool_choice_digest = fc.tool_choice_digest <=> p.tool_choice = c.tool_choice
  BY DEF FingerprintRequest
<1>2. \A k \in 1 .. 3 :
        /\ Off(k) = None <=> Unchanged(SEGMENT_ORDER[k], p, c)
        /\ Off(k) # None => ChangesAt(SEGMENT_ORDER[k], p, c, Off(k))
  BY SegmentOffset, Order
<1>3. /\ TotalUnits(fc) = AllUnits(c) /\ AllUnits(c) \in Nat
      /\ \A k \in 1 .. 3 :
           /\ Len(Units(SEGMENT_ORDER[k], c)) \in Nat
           /\ Behind(c)[SEGMENT_ORDER[k]] \in Nat
           /\ UnitsBefore(fc, k) + Len(Units(SEGMENT_ORDER[k], c)) + Behind(c)[SEGMENT_ORDER[k]]
                = AllUnits(c)
           /\ UnitsBefore(fc, k) \in Nat
  <2>1. fc = FingerprintRequest(c, key)
    OBVIOUS
  <2> HIDE DEF fc
  <2> QED
    BY <2>1, UnitsOfFingerprint, Order
<1>4. SegmentReport(fp, fc) =
        IF diverged = {} THEN Report(fp, fc, "none", 0, 0)
        ELSE Report(fp, fc, KindForSegment[SEGMENT_ORDER[first]], Off(first),
                    TotalUnits(fc) - UnitsBefore(fc, first) - Off(first))
  BY Order DEF SegmentReport, OffsetOf
<1>5. diverged # {} => first \in diverged /\ \A k \in diverged : first =< k
  <2>1. diverged \in SUBSET Nat
    OBVIOUS
  <2> HIDE DEF diverged
  <2> QED
    BY <2>1, MinOfNats
<1>6. report = Compare(fp, fc)
  OBVIOUS
<1> HIDE DEF fp, fc, diverged, first, Off
<1>7. CASE p.model # c.model
  <2>1. report = Report(fp, fc, "model_changed", 0, AllUnits(c))
    BY <1>1, <1>3, <1>6, <1>7 DEF Compare, Comparable
  <2>2. report.kind = "model_changed" /\ report.cache_missed_units = AllUnits(c)
    BY <2>1 DEF Report
  <2>3. ~SameControls(p, c) /\ \A k \in 1 .. 3 : KindForSegment[SEGMENT_ORDER[k]] # "model_changed"
    BY <1>7, Order DEF SameControls, KindForSegment
  <2> QED
    BY <1>7, <2>2, <2>3
<1>8. CASE p.model = c.model /\ p.tool_choice # c.tool_choice
  <2>1. report = Report(fp, fc, "tool_choice_changed", 0, 0)
    BY <1>1, <1>6, <1>8 DEF Compare, Comparable
  <2>2. report.kind = "tool_choice_changed"
    BY <2>1 DEF Report
  <2>3. ~SameControls(p, c) /\ \A k \in 1 .. 3 : KindForSegment[SEGMENT_ORDER[k]] # "tool_choice_changed"
    BY <1>8, Order DEF SameControls, KindForSegment
  <2> QED
    BY <1>8, <2>2, <2>3
<1>9. CASE SameControls(p, c) /\ diverged = {}
  <2>1. report = Report(fp, fc, "none", 0, 0)
    BY <1>1, <1>4, <1>6, <1>9 DEF Compare, Comparable, SameControls
  <2>2. report.kind = "none"
    BY <2>1 DEF Report
  <2>3. \A k \in 1 .. 3 : Unchanged(SEGMENT_ORDER[k], p, c)
    BY <1>2, <1>9 DEF diverged
  <2>4. \A k \in 1 .. 3 : KindForSegment[SEGMENT_ORDER[k]] # "none"
    BY Order DEF KindForSegment
  <2> QED
    BY <1>9, <2>2, <2>3, <2>4, Order DEF SameControls
<1>10. CASE SameControls(p, c) /\ diverged # {}
  <2>1. report = Report(fp, fc, KindForSegment[SEGMENT_ORDER[first]], Off(first),
                        AllUnits(c) - UnitsBefore(fc, first) - Off(first))
    BY <1>1, <1>3, <1>4, <1>6, <1>10 DEF Compare, Comparable, SameControls
  <2>2. /\ report.kind = KindForSegment[SEGMENT_ORDER[first]]
        /\ report.segment_offset = Off(first)
        /\ report.cache_missed_units = AllUnits(c) - UnitsBefore(fc, first) - Off(first)
    BY <2>1 DEF Report
  <2>3. first \in 1 .. 3 /\ Off(first) # None /\ \A i \in 1 .. first - 1 : Off(i) = None
    BY <1>5, <1>10 DEF diverged
  <2>4. /\ ~Unchanged(SEGMENT_ORDER[first], p, c)
        /\ ChangesAt(SEGMENT_ORDER[first], p, c, Off(first))
    BY <1>2, <2>3
  <2>5. \A i \in 1 .. first - 1 : Units(SEGMENT_ORDER[i], p) = Units(SEGMENT_ORDER[i], c)
    <3>1. \A i \in 1 .. first - 1 : i \in 1 .. 3 /\ i # 3
      BY <2>3
    <3>2. \A i \in 1 .. first - 1 : SEGMENT_ORDER[i] \notin GROWTH_TOLERANT_SEGMENTS
      BY <3>1, Order DEF GROWTH_TOLERANT_SEGMENTS
    <3> QED
      BY <1>2, <2>3, <3>1, <3>2 DEF Unchanged
  <2>6. AllUnits(c) - UnitsBefore(fc, first) - Off(first)
          = Len(Units(SEGMENT_ORDER[first], c)) - Off(first) + Behind(c)[SEGMENT_ORDER[first]]
    <3>1. Off(first) \in Nat
      BY <2>4 DEF ChangesAt
    <3>2. /\ Len(Units(SEGMENT_ORDER[first], c)) \in Nat
          /\ Behind(c)[SEGMENT_ORDER[first]] \in Nat /\ UnitsBefore(fc, first) \in Nat
          /\ UnitsBefore(fc, first) + Len(Units(SEGMENT_ORDER[first], c))
               + Behind(c)[SEGMENT_ORDER[first]] = AllUnits(c)
      BY <1>3, <2>3
    <3> QED
      BY <3>1, <3>2
  <2>7. \A k \in 1 .. 3 : report.kind = KindForSegment[SEGMENT_ORDER[k]] => k = first
    BY <2>2, <2>3, Order DEF KindForSegment
  <2>8. report.kind \notin {"none", "model_changed", "tool_choice_changed"}
    BY <2>2, <2>3, Order DEF KindForSegment
  <2>9. ~(\A kind \in ToSet(SEGMENT_ORDER) : Unchanged(kind, p, c))
    BY <2>3, <2>4, Order
  <2>10. ASSUME NEW k \in 1 .. 3, report.kind = KindForSegment[SEGMENT_ORDER[k]]
         PROVE  /\ SameControls(p, c) /\ ~Unchanged(SEGMENT_ORDER[k], p, c)
                /\ \A i \in 1 .. k - 1 : Units(SEGMENT_ORDER[i], p) = Units(SEGMENT_ORDER[i], c)
                /\ ChangesAt(SEGMENT_ORDER[k], p, c, report.segment_offset)
                /\ report.cache_missed_units =
                     Len(Units(SEGMENT_ORDER[k], c)) - report.segment_offset
                       + Behind(c)[SEGMENT_ORDER[k]]
    BY <1>10, <2>2, <2>4, <2>5, <2>6, <2>7, <2>10
  <2>11. report.kind \in {KindForSegment[SEGMENT_ORDER[k]] : k \in 1 .. 3}
    BY <2>2, <2>3
  <2> QED
    BY <1>10, <2>8, <2>9, <2>10, <2>11 DEF SameControls
<1> QED
  BY <1>7, <1>8, <1>9, <1>10 DEF SameControls

(* Taken back, a scan is what it was one symbol before.                       *)
Undone(units) ==
  LET last == units[Len(units)]
  IN IF Len(last) = 1 THEN SubSeq(units, 1, Len(units) - 1)
     ELSE [units EXCEPT ![Len(units)] = SubSeq(last, 1, Len(last) - 1)]

(* What Tokenize has after each symbol of the text.                           *)
Scans(text, u) ==
  u = [i \in 0 .. Len(text) |->
         IF i = 0 THEN <<>>
         ELSE IF i \in UnitStarts(text) THEN Append(u[i - 1], <<text[i]>>)
         ELSE [u[i - 1] EXCEPT ![Len(u[i - 1])] = Append(@, text[i])]]

Scan(text) == CHOOSE u : Scans(text, u)

(* The scan exists, and is a list of units after each symbol.                 *)
LEMMA ScanExists ==
  ASSUME NEW S, NEW text \in Seq(S)
  PROVE  Scans(text, Scan(text)) /\ Scan(text) \in [0 .. Len(text) -> Seq(Seq(S))]
<1> DEFINE n == Len(text)
           V == Seq(Seq(S))
           More(i, units) ==
             IF i \in UnitStarts(text) THEN Append(units, <<text[i]>>)
             ELSE [units EXCEPT ![Len(units)] = Append(units[Len(units)], text[i])]
           step == [x \in Nat \X V |-> IF x[1] \in 1 .. n THEN More(x[1], x[2]) ELSE <<>>]
<1>1. n \in Nat /\ <<>> \in V /\ \A i \in 1 .. n : text[i] \in S
  OBVIOUS
<1>2. ASSUME NEW i \in 1 .. n, NEW units \in V PROVE More(i, units) \in V
  <2>1. text[i] \in S /\ <<text[i]>> \in Seq(S)
    BY <1>1
  <2>2. CASE i \in UnitStarts(text)
    BY <2>1, <2>2
  <2>3. CASE i \notin UnitStarts(text) /\ units = <<>>
    <3>1. Len(units) = 0 /\ DOMAIN units = {}
      BY <2>3
    <3>2. More(i, units) = units
      BY <2>3, <3>1
    <3> QED
      BY <3>2
  <2>4. CASE i \notin UnitStarts(text) /\ units # <<>>
    <3>1. Len(units) \in 1 .. Len(units) /\ units[Len(units)] \in Seq(S)
      BY <2>4
    <3> DEFINE last == Append(units[Len(units)], text[i])
    <3>2. last \in Seq(S)
      BY <2>1, <3>1
    <3>3. More(i, units) = [units EXCEPT ![Len(units)] = last]
      BY <2>4
    <3> HIDE DEF last, More
    <3>4. [units EXCEPT ![Len(units)] = last] \in Seq(Seq(S))
      BY <3>1, <3>2, ExceptSeq
    <3> QED
      BY <3>3, <3>4
  <2> QED
    BY <2>2, <2>3, <2>4
<1> HIDE DEF More, V
<1>3. step \in [Nat \X V -> V]
  BY <1>1, <1>2
<1>4. PICK f : /\ f \in [0 .. n -> V] /\ f[0] = <<>>
               /\ \A i \in 1 .. n : f[i] = step[<<i, f[i - 1]>>]
  <2> DEFINE start == <<>>
  <2>1. start \in V
    BY <1>1
  <2> HIDE DEF step, start, n
  <2>2. \E f : IsRecursion(f, V, start, step, n)
    BY <1>1, <1>3, <2>1, RecursionExists
  <2> QED
    BY <2>2 DEF start, IsRecursion
<1>5. \A i \in 1 .. n : f[i] = More(i, f[i - 1])
  <2> SUFFICES ASSUME NEW i \in 1 .. n PROVE f[i] = More(i, f[i - 1])
    OBVIOUS
  <2>1. i - 1 \in 0 .. n /\ i \in Nat
    BY <1>1
  <2>2. <<i, f[i - 1]>> \in Nat \X V
    BY <1>4, <2>1
  <2> QED
    BY <1>4, <2>2
<1>6. \A u : Scans(text, u) <=>
         u = [i \in 0 .. n |-> IF i = 0 THEN <<>> ELSE More(i, u[i - 1])]
  BY DEF Scans, More
<1>7. Scans(text, f)
  <2>1. \A i \in 0 .. n : f[i] = IF i = 0 THEN <<>> ELSE More(i, f[i - 1])
    BY <1>1, <1>4, <1>5
  <2>2. f = [i \in 0 .. n |-> f[i]]
    BY <1>4
  <2> QED
    BY <1>6, <2>1, <2>2
<1>8. Scans(text, Scan(text))
  BY <1>7 DEF Scan
<1> DEFINE g == Scan(text)
<1> HIDE DEF g
<1>9. g = [i \in 0 .. n |-> IF i = 0 THEN <<>> ELSE More(i, g[i - 1])]
  BY <1>6, <1>8 DEF g
<1>10. g = [i \in 0 .. n |-> g[i]] /\ f = [i \in 0 .. n |-> f[i]]
  BY <1>9, <1>4
<1>11. \A i \in 0 .. n : g[i] = IF i = 0 THEN <<>> ELSE More(i, g[i - 1])
  BY <1>9
<1>12. f[0] = g[0] /\ \A i \in 1 .. n : f[i - 1] = g[i - 1] => f[i] = g[i]
  BY <1>1, <1>4, <1>5, <1>11
<1>13. \A i \in 0 .. n : f[i] = g[i]
  <2> DEFINE T == {i \in 0 .. n : f[i] = g[i]}
  <2>1. 0 \in T /\ \A i \in 1 .. n : i - 1 \in T => i \in T
    BY <1>1, <1>12
  <2> HIDE DEF T, n
  <2>2. \A i \in 0 .. n : i \in T
    BY <1>1, <2>1, Upwards
  <2> QED
    BY <2>2 DEF T
<1>14. f = g
  BY <1>10, <1>13
<1> QED
  BY <1>4, <1>8, <1>14 DEF V, g

(* After a symbol there is a unit, it ends with that symbol, and what was     *)
(* scanned before can be told.                                                *)
LEMMA ScanUndone ==
  ASSUME NEW S, NEW text \in Seq(S), NEW i \in 1 .. Len(text)
  PROVE  LET units == Scan(text)[i]
             last == units[Len(units)]
         IN /\ units # <<>>
            /\ Scan(text)[i - 1] = Undone(units)
            /\ text[i] = last[Len(last)]
<1> DEFINE u == Scan(text)
           n == Len(text)
           Ends(units) == units # <<>> /\ units[Len(units)] # <<>>
<1>1. n \in Nat /\ \A k \in 1 .. n : text[k] \in S
  OBVIOUS
<1>2. u \in [0 .. n -> Seq(Seq(S))] /\ Scans(text, u)
  BY ScanExists
<1> HIDE DEF u
<1>3. u[0] = <<>>
  BY <1>1, <1>2 DEF Scans
<1>4. \A k \in 1 .. n :
        u[k] = IF k \in UnitStarts(text) THEN Append(u[k - 1], <<text[k]>>)
               ELSE [u[k - 1] EXCEPT ![Len(u[k - 1])] = Append(@, text[k])]
  <2> DEFINE Next(k) == IF k \in UnitStarts(text) THEN Append(u[k - 1], <<text[k]>>)
                        ELSE [u[k - 1] EXCEPT ![Len(u[k - 1])] = Append(@, text[k])]
  <2>1. u = [k \in 0 .. n |-> IF k = 0 THEN <<>> ELSE Next(k)]
    BY <1>2 DEF Scans
  <2> HIDE DEF Next
  <2>2. \A k \in 1 .. n : u[k] = Next(k)
    BY <1>1, <2>1
  <2> QED
    BY <2>2 DEF Next
<1>5. 1 \in DOMAIN text => 1 \in UnitStarts(text)
  BY DEF UnitStarts
<1>6. ASSUME NEW k \in 1 .. n, k = 1 \/ Ends(u[k - 1])
      PROVE  LET units == u[k]
                 last == units[Len(units)]
             IN /\ Ends(units)
                /\ u[k - 1] = Undone(units)
                /\ text[k] = last[Len(last)]
  <2> DEFINE before == u[k - 1]
             units == u[k]
             last == units[Len(units)]
             x == text[k]
  <2>1. before \in Seq(Seq(S)) /\ x \in S
    BY <1>1, <1>2
  <2>2. units = IF k \in UnitStarts(text) THEN Append(before, <<x>>)
                ELSE [before EXCEPT ![Len(before)] = Append(@, x)]
    BY <1>4
  <2>3. k \notin UnitStarts(text) => before # <<>> /\ before[Len(before)] # <<>>
    BY <1>1, <1>5, <1>6
  <2> HIDE DEF before, units, x, Ends
  <2>4. CASE k \in UnitStarts(text)
    <3>1. units = Append(before, <<x>>) /\ <<x>> \in Seq(S)
      BY <2>1, <2>2, <2>4
    <3>2. Len(units) = Len(before) + 1 /\ units[Len(units)] = <<x>> /\ units # <<>>
      BY <2>1, <3>1
    <3>3. SubSeq(units, 1, Len(units) - 1) = before
      BY <2>1, <3>1, <3>2
    <3>4. Len(<<x>>) = 1 /\ <<x>>[Len(<<x>>)] = x /\ <<x>> # <<>>
      OBVIOUS
    <3>5. Undone(units) = before
      BY <3>2, <3>3, <3>4 DEF Undone
    <3> QED
      BY <3>2, <3>4, <3>5 DEF Ends, before, units, x
  <2>5. CASE k \notin UnitStarts(text)
    <3> DEFINE m == Len(before)
               old == before[m]
               new == Append(old, x)
    <3>1. m \in 1 .. m /\ m \in Nat /\ old \in Seq(S) /\ old # <<>>
      BY <2>1, <2>3, <2>5
    <3>2. new \in Seq(S) /\ Len(new) = Len(old) + 1 /\ Len(old) >= 1 /\ new # <<>>
          /\ new[Len(new)] = x /\ SubSeq(new, 1, Len(new) - 1) = old
      BY <2>1, <3>1
    <3>3. units = [before EXCEPT ![m] = new]
      BY <2>2, <2>5
    <3> HIDE DEF m, new
    <3>4. /\ units \in Seq(Seq(S)) /\ Len(units) = m
          /\ \A j \in 1 .. m : units[j] = IF j = m THEN new ELSE before[j]
      BY <2>1, <3>1, <3>2, <3>3, ExceptSeq DEF m
    <3>5. units # <<>> /\ units[Len(units)] = new
      BY <3>1, <3>4
    <3>6. [units EXCEPT ![m] = old] \in Seq(Seq(S)) /\ Len([units EXCEPT ![m] = old]) = m
          /\ \A j \in 1 .. m : [units EXCEPT ![m] = old][j] = IF j = m THEN old ELSE units[j]
      BY <3>1, <3>4, ExceptSeq
    <3>7. [units EXCEPT ![m] = old] = before
      <4> DEFINE back == [units EXCEPT ![m] = old]
      <4>1. \A j \in 1 .. m : back[j] = before[j]
        BY <3>4, <3>6
      <4>2. back \in Seq(Seq(S)) /\ Len(back) = m
        BY <3>6
      <4> HIDE DEF back, old
      <4>3. back = before
        BY <2>1, <4>1, <4>2, SeqEqual DEF m
      <4> QED
        BY <4>3 DEF back
    <3>8. Undone(units) = before
      <4> DEFINE end == units[Len(units)]
      <4>1. end = new /\ Len(end) # 1 /\ Len(units) = m /\ SubSeq(end, 1, Len(end) - 1) = old
        BY <3>1, <3>2, <3>4, <3>5
      <4>2. Undone(units) = IF Len(end) = 1 THEN SubSeq(units, 1, Len(units) - 1)
                            ELSE [units EXCEPT ![Len(units)] = SubSeq(end, 1, Len(end) - 1)]
        BY DEF Undone
      <4> HIDE DEF end
      <4>3. Undone(units) = [units EXCEPT ![m] = old]
        BY <4>1, <4>2
      <4> QED
        BY <4>3, <3>7
    <3> QED
      BY <3>2, <3>5, <3>8 DEF Ends, before, units, x
  <2> QED
    BY <2>4, <2>5
<1>7. \A k \in 0 .. n : k = 0 \/ Ends(u[k])
  <2> DEFINE T == {k \in 0 .. n : k = 0 \/ Ends(u[k])}
  <2>1. \A k \in 1 .. n : k - 1 \in T => k \in T
    <3> SUFFICES ASSUME NEW k \in 1 .. n, k - 1 \in T PROVE k \in T
      OBVIOUS
    <3>1. k = 1 \/ Ends(u[k - 1])
      BY SMT
    <3>2. Ends(u[k])
      BY <1>6, <3>1
    <3> QED
      BY <3>2
  <2>2. 0 \in T
    BY <1>1
  <2> HIDE DEF T, n
  <2>3. \A k \in 0 .. n : k \in T
    BY <1>1, <2>1, <2>2, Upwards
  <2> QED
    BY <2>3 DEF T
<1>8. i = 1 \/ Ends(u[i - 1])
  <2>1. i - 1 \in 0 .. n
    BY <1>1
  <2> QED
    BY <1>7, <2>1
<1>9. LET units == u[i]
          last == units[Len(units)]
      IN Ends(units) /\ u[i - 1] = Undone(units) /\ text[i] = last[Len(last)]
  BY <1>6, <1>8
<1> QED
  BY <1>9 DEF u

(* A text can be told from its units.                                         *)
LEMMA TokenizeInjective ==
  ASSUME NEW S, NEW p \in Seq(S), NEW c \in Seq(S), Tokenize(p) = Tokenize(c)
  PROVE  p = c
<1> DEFINE up == Scan(p)
           uc == Scan(c)
           Same(i, j) == i = j /\ \A k \in 1 .. i : p[k] = c[k]
           T == {i \in 0 .. Len(p) : \A j \in 0 .. Len(c) : up[i] = uc[j] => Same(i, j)}
<1>1. Len(p) \in Nat /\ Len(c) \in Nat
  OBVIOUS
<1>2. Tokenize(p) = up[Len(p)] /\ Tokenize(c) = uc[Len(c)]
  BY DEF Tokenize, Scan, Scans
<1>3. up[0] = <<>> /\ uc[0] = <<>>
  <2>1. Scans(p, Scan(p)) /\ Scans(c, Scan(c))
    BY ScanExists
  <2> QED
    BY <1>1, <2>1 DEF Scans
<1>4. \A i \in 1 .. Len(p) : up[i] # <<>> /\ up[i - 1] = Undone(up[i])
                               /\ p[i] = up[i][Len(up[i])][Len(up[i][Len(up[i])])]
  BY ScanUndone
<1>5. \A j \in 1 .. Len(c) : uc[j] # <<>> /\ uc[j - 1] = Undone(uc[j])
                               /\ c[j] = uc[j][Len(uc[j])][Len(uc[j][Len(uc[j])])]
  BY ScanUndone
<1> HIDE DEF up, uc
<1>6. 0 \in T
  <2>1. \A j \in 0 .. Len(c) : j # 0 => up[0] # uc[j]
    BY <1>1, <1>3, <1>5
  <2> QED
    BY <1>1, <2>1
<1>7. ASSUME NEW i \in 1 .. Len(p), i - 1 \in T PROVE i \in T
  <2> SUFFICES ASSUME NEW j \in 0 .. Len(c), up[i] = uc[j] PROVE Same(i, j)
    BY <1>1
  <2>1. j \in 1 .. Len(c) /\ j - 1 \in 0 .. Len(c)
    BY <1>1, <1>3, <1>4
  <2>2. up[i - 1] = uc[j - 1] /\ p[i] = c[j]
    BY <1>4, <1>5, <2>1
  <2>3. Same(i - 1, j - 1)
    BY <1>7, <2>1, <2>2
  <2> QED
    BY <1>1, <2>1, <2>2, <2>3
<1> HIDE DEF T
<1>8. \A i \in 0 .. Len(p) : i \in T
  BY <1>1, <1>6, <1>7, Upwards
<1>9. Len(p) \in 0 .. Len(p) /\ Len(c) \in 0 .. Len(c) /\ up[Len(p)] = uc[Len(c)]
  <2>1. Len(p) \in 0 .. Len(p) /\ Len(c) \in 0 .. Len(c)
    BY <1>1
  <2>2. up[Len(p)] = uc[Len(c)]
    BY <1>2, Zenon
  <2> QED
    BY <2>1, <2>2
<1>10. \A j \in 0 .. Len(c) : up[Len(p)] = uc[j] => Same(Len(p), j)
  BY <1>8, <1>9 DEF T
<1>11. Same(Len(p), Len(c))
  BY <1>9, <1>10
<1> QED
  BY <1>11, SeqEqual

(* Units of a text are texts.                                                 *)
LEMMA TokenizeType ==
  ASSUME NEW S, NEW text \in Seq(S)
  PROVE  Tokenize(text) \in Seq(Seq(S))
<1>1. Tokenize(text) = Scan(text)[Len(text)]
  BY DEF Tokenize, Scan, Scans
<1>2. Scan(text) \in [0 .. Len(text) -> Seq(Seq(S))] /\ Len(text) \in 0 .. Len(text)
  BY ScanExists
<1> QED
  BY <1>1, <1>2

-----------------------------------------------------------------------------
(* The units of a request determine what they were taken from *)

(* Tools, calls and messages with the fields of ingest/types.py.              *)
WellShapedTool(t) ==
  t = [name |-> t.name, description |-> t.description, schema_json |-> t.schema_json]

WellShapedCall(c) == c = [id |-> c.id, name |-> c.name, arguments_raw |-> c.arguments_raw]

WellShapedMessage(m) ==
  /\ m = [role |-> m.role, content |-> m.content, tool_call_id |-> m.tool_call_id,
          tool_calls |-> m.tool_calls]
  /\ IsListOf(m.content) /\ IsListOf(m.tool_calls)
  /\ \A c \in ToSet(m.tool_calls) : WellShapedCall(c)

(* What parse_line and convert_captured_calls make: lists are sequences, and  *)
(* the records have the fields of ingest/types.py.                            *)
WellShaped(request) ==
  /\ request.system # None => IsListOf(request.system)
  /\ IsListOf(request.tools) /\ \A t \in ToSet(request.tools) : WellShapedTool(t)
  /\ IsListOf(request.messages) /\ \A m \in ToSet(request.messages) : WellShapedMessage(m)

(* The units of a text, and the text from them.                               *)
LEMMA TextUnitsAre ==
  ASSUME NEW text, IsListOf(text)
  PROVE  /\ IsListOf(TextUnits(text)) /\ IsListOf(Tokenize(text))
         /\ Len(TextUnits(text)) = Len(Tokenize(text))
         /\ \A k \in 1 .. Len(TextUnits(text)) : TextUnits(text)[k] = <<"text", Tokenize(text)[k]>>
<1> DEFINE units == Tokenize(text)
           f == TextUnits(text)
           S == ToSet(text)
<1>1. Tokenize(text) \in Seq(Seq(S))
  <2>1. text \in Seq(S)
    BY DEF IsListOf
  <2> HIDE DEF S
  <2> QED
    BY <2>1, TokenizeType
<1>2. f = [k \in DOMAIN units |-> <<"text", units[k]>>]
  BY DEF TextUnits
<1> HIDE DEF units, f, S
<1>3. units \in Seq(Seq(S))
  BY <1>1 DEF units
<1>4. Len(units) \in Nat /\ DOMAIN units = 1 .. Len(units) /\ units = [k \in 1 .. Len(units) |-> units[k]]
  BY <1>3
<1>5. IsListOf(units)
  BY <1>4, ListOfFunction
<1>6. f = [k \in 1 .. Len(units) |-> f[k]] /\ \A k \in 1 .. Len(units) : f[k] = <<"text", units[k]>>
  BY <1>2, <1>4
<1>7. IsListOf(f) /\ Len(f) = Len(units)
  BY <1>4, <1>6, ListOfFunction
<1> QED
  BY <1>5, <1>6, <1>7 DEF f, units

(* Two texts with the same units are the same text.                           *)
LEMMA TextFromUnits ==
  ASSUME NEW p, NEW c, IsListOf(p), IsListOf(c), TextUnits(p) = TextUnits(c)
  PROVE  p = c
<1>1. /\ IsListOf(Tokenize(p)) /\ IsListOf(Tokenize(c)) /\ Len(Tokenize(p)) = Len(Tokenize(c))
      /\ \A k \in 1 .. Len(Tokenize(p)) : <<"text", Tokenize(p)[k]>> = <<"text", Tokenize(c)[k]>>
  BY TextUnitsAre
<1>2. \A k \in 1 .. Len(Tokenize(p)) : Tokenize(p)[k] = Tokenize(c)[k]
  BY <1>1
<1>3. Tokenize(p) = Tokenize(c)
  BY <1>1, <1>2, ListsEqual
<1> DEFINE S == ToSet(p) \cup ToSet(c)
<1>4. p \in Seq(S) /\ c \in Seq(S)
  BY Lists
<1> HIDE DEF S
<1> QED
  BY <1>3, <1>4, TokenizeInjective

(* The empty text has no units.                                               *)
LEMMA NoText == TextUnits(<<>>) = <<>>
<1> DEFINE S == {}
           none == <<>>
<1>1. none \in Seq(S) /\ Len(none) = 0
  OBVIOUS
<1> HIDE DEF S, none
<1>2. Scans(none, Scan(none))
  BY <1>1, ScanExists
<1>3. Scan(none)[0] = <<>>
  BY <1>1, <1>2 DEF Scans
<1>4. Tokenize(none) = <<>>
  BY <1>1, <1>3 DEF Tokenize, Scan, Scans
<1> QED
  BY <1>4 DEF TextUnits, none

(* The same tools have the same units, and only they.                         *)
LEMMA ToolsFromUnits ==
  ASSUME NEW p, NEW c, WellShaped(p), WellShaped(c)
  PROVE  /\ IsListOf(ToolsUnits(p)) /\ Len(ToolsUnits(p)) = Len(p.tools)
         /\ ToolsUnits(p) = ToolsUnits(c) <=> p.tools = c.tools
<1> DEFINE Unit(t) == <<"tool", t.name, t.description, t.schema_json>>
<1>1. ASSUME NEW r, WellShaped(r)
      PROVE  /\ IsListOf(ToolsUnits(r)) /\ Len(ToolsUnits(r)) = Len(r.tools) /\ IsListOf(r.tools)
             /\ \A k \in 1 .. Len(r.tools) :
                  ToolsUnits(r)[k] = Unit(r.tools[k]) /\ WellShapedTool(r.tools[k])
  <2> DEFINE tools == r.tools
             f == ToolsUnits(r)
  <2>1. IsListOf(tools) /\ \A t \in ToSet(tools) : WellShapedTool(t)
    BY <1>1 DEF WellShaped
  <2>2. f = [k \in DOMAIN tools |-> Unit(tools[k])]
    BY DEF ToolsUnits
  <2> HIDE DEF tools, f, Unit
  <2>3. Len(tools) \in Nat /\ DOMAIN tools = 1 .. Len(tools) /\ \A k \in 1 .. Len(tools) : tools[k] \in ToSet(tools)
    BY <2>1, Lists
  <2>4. f = [k \in 1 .. Len(tools) |-> f[k]] /\ \A k \in 1 .. Len(tools) : f[k] = Unit(tools[k])
    BY <2>2, <2>3
  <2>5. IsListOf(f) /\ Len(f) = Len(tools)
    BY <2>3, <2>4, ListOfFunction
  <2> QED
    BY <2>1, <2>3, <2>4, <2>5 DEF tools, f
<1>2. \A s, t : WellShapedTool(s) /\ WellShapedTool(t) /\ Unit(s) = Unit(t) => s = t
  BY DEF WellShapedTool
<1> HIDE DEF Unit
<1>3. ASSUME ToolsUnits(p) = ToolsUnits(c) PROVE p.tools = c.tools
  <2>1. IsListOf(p.tools) /\ IsListOf(c.tools) /\ Len(p.tools) = Len(c.tools)
    BY <1>1, <1>3
  <2>2. \A k \in 1 .. Len(p.tools) : p.tools[k] = c.tools[k]
    BY <1>1, <1>2, <1>3, <2>1
  <2> QED
    BY <2>1, <2>2, ListsEqual
<1>4. p.tools = c.tools => ToolsUnits(p) = ToolsUnits(c)
  BY DEF ToolsUnits
<1> QED
  BY <1>1, <1>3, <1>4

(* No system message and an empty one have the same units: none.              *)
LEMMA SystemFromUnits ==
  ASSUME NEW p, NEW c, WellShaped(p), WellShaped(c)
  PROVE  /\ IsListOf(SystemUnits(p))
         /\ SystemUnits(p) = SystemUnits(c) <=> SystemText(p) = SystemText(c)
<1>0. IsListOf(<<>>)
  BY DEF IsListOf
<1>1. ASSUME NEW r, WellShaped(r)
      PROVE  SystemUnits(r) = TextUnits(SystemText(r)) /\ IsListOf(SystemText(r))
  <2>1. CASE r.system = None
    BY <1>0, <2>1, NoText DEF SystemUnits, SystemText
  <2>2. CASE r.system # None
    BY <1>1, <2>2 DEF SystemUnits, SystemText, WellShaped
  <2> QED
    BY <2>1, <2>2
<1>2. SystemUnits(p) = TextUnits(SystemText(p)) /\ SystemUnits(c) = TextUnits(SystemText(c))
      /\ IsListOf(SystemText(p)) /\ IsListOf(SystemText(c))
  BY <1>1
<1>3. IsListOf(TextUnits(SystemText(p)))
  BY <1>2, TextUnitsAre
<1>4. TextUnits(SystemText(p)) = TextUnits(SystemText(c)) => SystemText(p) = SystemText(c)
  BY <1>2, TextFromUnits
<1> QED
  BY <1>2, <1>3, <1>4

(* One unit for each call of a message.                                       *)
LEMMA CallUnitsAre ==
  ASSUME NEW calls, IsListOf(calls)
  PROVE  /\ IsListOf(CallUnits(calls)) /\ Len(CallUnits(calls)) = Len(calls)
         /\ \A k \in 1 .. Len(calls) :
              CallUnits(calls)[k] = <<"tool_call", calls[k].id, calls[k].name, calls[k].arguments_raw>>
<1> DEFINE f == CallUnits(calls)
           Unit(c) == <<"tool_call", c.id, c.name, c.arguments_raw>>
<1>1. f = [k \in DOMAIN calls |-> Unit(calls[k])]
  BY DEF CallUnits
<1> HIDE DEF f, Unit
<1>2. Len(calls) \in Nat /\ DOMAIN calls = 1 .. Len(calls)
  BY Lists
<1>3. f = [k \in 1 .. Len(calls) |-> f[k]] /\ \A k \in 1 .. Len(calls) : f[k] = Unit(calls[k])
  BY <1>1, <1>2
<1>4. IsListOf(f) /\ Len(f) = Len(calls)
  BY <1>2, <1>3, ListOfFunction
<1> QED
  BY <1>3, <1>4 DEF f, Unit

(* What the units of a message are: its start, its text, its calls, its end.  *)
LEMMA MessageBlock ==
  ASSUME NEW m, WellShapedMessage(m)
  PROVE  LET block == UnitsOfMessage(m)
             texts == TextUnits(m.content)
             calls == CallUnits(m.tool_calls)
         IN /\ IsListOf(block) /\ IsListOf(texts) /\ IsListOf(calls)
            /\ Len(texts) \in Nat /\ Len(calls) \in Nat
            /\ Len(block) = Len(texts) + Len(calls) + 2
            /\ block[1] = <<"message_start", m.role, m.tool_call_id>>
            /\ \A k \in 1 .. Len(texts) : block[k + 1] = texts[k]
            /\ \A k \in 1 .. Len(calls) : block[Len(texts) + 1 + k] = calls[k]
            /\ block[Len(block)] = <<"message_end", m.role>>
            /\ \A k \in 1 .. Len(texts) : block[k + 1][1] = "text"
            /\ \A k \in 1 .. Len(calls) : block[Len(texts) + 1 + k][1] = "tool_call"
<1> DEFINE texts == TextUnits(m.content)
           calls == CallUnits(m.tool_calls)
           start == <<"message_start", m.role, m.tool_call_id>>
           end   == <<"message_end", m.role>>
           block == UnitsOfMessage(m)
<1>1. /\ IsListOf(texts) /\ \A k \in 1 .. Len(texts) : texts[k][1] = "text"
  <2>1. IsListOf(m.content)
    BY DEF WellShapedMessage
  <2>2. \A k \in 1 .. Len(texts) : texts[k] = <<"text", Tokenize(m.content)[k]>>
    BY <2>1, TextUnitsAre
  <2> QED
    BY <2>1, <2>2, TextUnitsAre
<1>2. /\ IsListOf(calls) /\ \A k \in 1 .. Len(calls) : calls[k][1] = "tool_call"
  <2> DEFINE list == m.tool_calls
  <2>1. IsListOf(list)
    BY DEF WellShapedMessage
  <2> HIDE DEF list
  <2>2. IsListOf(CallUnits(list)) /\ Len(CallUnits(list)) = Len(list)
        /\ \A k \in 1 .. Len(list) : CallUnits(list)[k] = <<"tool_call", list[k].id, list[k].name, list[k].arguments_raw>>
    BY <2>1, CallUnitsAre
  <2> QED
    BY <2>2 DEF list
<1>3. block = ((<<start>> \o texts) \o calls) \o <<end>>
  BY DEF UnitsOfMessage
<1> HIDE DEF texts, calls, start, end, block
<1> DEFINE one == <<start>> \o texts
<1>4. /\ IsListOf(one) /\ Len(one) = 1 + Len(texts) /\ one[1] = start
      /\ \A k \in 1 .. Len(texts) : one[1 + k] = texts[k]
  <2>1. IsListOf(<<start>>) /\ Len(<<start>>) = 1 /\ <<start>>[1] = start
    BY OneLong
  <2>2. /\ IsListOf(one) /\ Len(one) = Len(<<start>>) + Len(texts)
        /\ \A k \in 1 .. Len(<<start>>) : one[k] = <<start>>[k]
        /\ \A k \in 1 .. Len(texts) : one[Len(<<start>>) + k] = texts[k]
    BY <1>1, <2>1, JoinedLists
  <2> QED
    BY <2>1, <2>2
<1> HIDE DEF one
<1> DEFINE two == one \o calls
<1>5. /\ IsListOf(two) /\ Len(two) = Len(one) + Len(calls)
      /\ \A k \in 1 .. Len(one) : two[k] = one[k]
      /\ \A k \in 1 .. Len(calls) : two[Len(one) + k] = calls[k]
  <2>1. IsListOf(one) /\ IsListOf(calls)
    BY <1>2, <1>4
  <2>2. two = one \o calls
    BY DEF two
  <2>3. /\ IsListOf(one \o calls) /\ Len(one \o calls) = Len(one) + Len(calls)
        /\ \A k \in 1 .. Len(one) : (one \o calls)[k] = one[k]
        /\ \A k \in 1 .. Len(calls) : (one \o calls)[Len(one) + k] = calls[k]
    BY <2>1, JoinedLists
  <2> QED
    BY <2>2, <2>3
<1> HIDE DEF two
<1>6. /\ IsListOf(block) /\ Len(block) = Len(two) + 1 /\ block[Len(two) + 1] = end
      /\ \A k \in 1 .. Len(two) : block[k] = two[k]
  <2>1. IsListOf(<<end>>) /\ Len(<<end>>) = 1 /\ <<end>>[1] = end
    BY OneLong
  <2>2. block = two \o <<end>>
    BY <1>3 DEF one, two
  <2>3. /\ IsListOf(block) /\ Len(block) = Len(two) + Len(<<end>>)
        /\ \A k \in 1 .. Len(two) : block[k] = two[k]
        /\ \A k \in 1 .. Len(<<end>>) : block[Len(two) + k] = <<end>>[k]
    BY <1>5, <2>1, <2>2, JoinedLists
  <2> QED
    BY <2>1, <2>3
<1>7. Len(texts) \in Nat /\ Len(calls) \in Nat
  BY <1>1, <1>2, Lists
<1>8. Len(one) = 1 + Len(texts) /\ Len(two) = 1 + Len(texts) + Len(calls)
      /\ Len(block) = Len(texts) + Len(calls) + 2
  BY <1>4, <1>5, <1>6, <1>7
<1>9. block[1] = start
  <2>1. 1 \in 1 .. Len(one) /\ 1 \in 1 .. Len(two)
    BY <1>7, <1>8
  <2> QED
    BY <1>4, <1>5, <1>6, <2>1
<1>10. \A k \in 1 .. Len(texts) : block[k + 1] = texts[k]
  <2> SUFFICES ASSUME NEW k \in 1 .. Len(texts) PROVE block[k + 1] = texts[k]
    OBVIOUS
  <2>1. k + 1 \in 1 .. Len(one) /\ k + 1 \in 1 .. Len(two) /\ k + 1 = 1 + k
    BY <1>7, <1>8
  <2> QED
    BY <1>4, <1>5, <1>6, <2>1
<1>11. \A k \in 1 .. Len(calls) : block[Len(texts) + 1 + k] = calls[k]
  <2> SUFFICES ASSUME NEW k \in 1 .. Len(calls) PROVE block[Len(texts) + 1 + k] = calls[k]
    OBVIOUS
  <2>1. Len(one) + k \in 1 .. Len(two) /\ Len(one) + k = Len(texts) + 1 + k
    BY <1>7, <1>8
  <2> QED
    BY <1>5, <1>6, <2>1
<1>12. block[Len(block)] = end
  <2>1. Len(block) = Len(two) + 1
    BY <1>6
  <2> QED
    BY <1>6, <2>1
<1>13. /\ \A k \in 1 .. Len(texts) : block[k + 1][1] = "text"
       /\ \A k \in 1 .. Len(calls) : block[Len(texts) + 1 + k][1] = "tool_call"
  BY <1>1, <1>2, <1>10, <1>11
<1> QED
  BY <1>1, <1>2, <1>6, <1>7, <1>8, <1>9, <1>10, <1>11, <1>12, <1>13
     DEF texts, calls, start, end, block

(* Only the last unit of a message ends one.                                  *)
LEMMA OnlyLastEnds ==
  ASSUME NEW m, WellShapedMessage(m), NEW k \in 1 .. Len(UnitsOfMessage(m))
  PROVE  UnitsOfMessage(m)[k][1] = "message_end" <=> k = Len(UnitsOfMessage(m))
<1> DEFINE block == UnitsOfMessage(m)
           t == Len(TextUnits(m.content))
           n == Len(CallUnits(m.tool_calls))
<1>1. /\ t \in Nat /\ n \in Nat /\ Len(block) = t + n + 2
      /\ block[1] = <<"message_start", m.role, m.tool_call_id>>
      /\ \A j \in 1 .. t : block[j + 1][1] = "text"
      /\ \A j \in 1 .. n : block[t + 1 + j][1] = "tool_call"
      /\ block[Len(block)] = <<"message_end", m.role>>
  BY MessageBlock
<1>2. k \in 1 .. Len(block)
  OBVIOUS
<1> HIDE DEF block, t, n
<1> SUFFICES block[k][1] = "message_end" <=> k = Len(block)
  BY DEF block
<1>3. CASE k = 1
  <2>1. Len(block) # 1 /\ block[k][1] = "message_start"
    BY <1>1, <1>3
  <2> QED
    BY <1>3, <2>1
<1>4. CASE k \in 2 .. t + 1
  <2>1. k - 1 \in 1 .. t /\ (k - 1) + 1 = k /\ k # Len(block)
    BY <1>1, <1>4
  <2>2. block[k][1] = "text"
    BY <1>1, <2>1
  <2> QED
    BY <2>1, <2>2
<1>5. CASE k \in t + 2 .. t + 1 + n
  <2>1. k - t - 1 \in 1 .. n /\ t + 1 + (k - t - 1) = k /\ k # Len(block)
    BY <1>1, <1>5
  <2>2. block[k][1] = "tool_call"
    BY <1>1, <2>1
  <2> QED
    BY <2>1, <2>2
<1>6. CASE k = Len(block)
  BY <1>1, <1>6
<1>7. k = 1 \/ k \in 2 .. t + 1 \/ k \in t + 2 .. t + 1 + n \/ k = Len(block)
  BY <1>1, <1>2
<1> QED
  BY <1>3, <1>4, <1>5, <1>6, <1>7

(* A message can be told from its units.                                      *)
LEMMA MessageFromUnits ==
  ASSUME NEW m, NEW o, WellShapedMessage(m), WellShapedMessage(o),
         UnitsOfMessage(m) = UnitsOfMessage(o)
  PROVE  m = o
<1> DEFINE block == UnitsOfMessage(m)
           t == TextUnits(m.content)
           n == CallUnits(m.tool_calls)
           s == TextUnits(o.content)
           l == CallUnits(o.tool_calls)
<1>1. /\ Len(t) \in Nat /\ Len(n) \in Nat /\ Len(block) = Len(t) + Len(n) + 2
      /\ IsListOf(t) /\ IsListOf(n)
      /\ block[1] = <<"message_start", m.role, m.tool_call_id>>
      /\ \A k \in 1 .. Len(t) : block[k + 1] = t[k] /\ block[k + 1][1] = "text"
      /\ \A k \in 1 .. Len(n) : block[Len(t) + 1 + k] = n[k] /\ block[Len(t) + 1 + k][1] = "tool_call"
      /\ block[Len(block)] = <<"message_end", m.role>>
  BY MessageBlock
<1>2. /\ Len(s) \in Nat /\ Len(l) \in Nat /\ Len(block) = Len(s) + Len(l) + 2
      /\ IsListOf(s) /\ IsListOf(l)
      /\ block[1] = <<"message_start", o.role, o.tool_call_id>>
      /\ \A k \in 1 .. Len(s) : block[k + 1] = s[k] /\ block[k + 1][1] = "text"
      /\ \A k \in 1 .. Len(l) : block[Len(s) + 1 + k] = l[k] /\ block[Len(s) + 1 + k][1] = "tool_call"
      /\ block[Len(block)] = <<"message_end", o.role>>
  BY MessageBlock
<1> HIDE DEF block, t, n, s, l
<1>3. m.role = o.role /\ m.tool_call_id = o.tool_call_id
  BY <1>1, <1>2
<1>4. ~(Len(t) < Len(s))
  <2> SUFFICES ASSUME Len(t) < Len(s) PROVE FALSE
    OBVIOUS
  <2>1. Len(t) + 1 \in 1 .. Len(s) /\ (Len(t) + 1) + 1 = Len(t) + 2
    BY <1>1, <1>2
  <2>2. block[Len(t) + 2][1] = "text"
    BY <1>2, <2>1
  <2>3. CASE Len(n) = 0
    <3>1. Len(block) = Len(t) + 2
      BY <1>1, <2>3
    <3> QED
      BY <1>1, <2>2, <3>1
  <2>4. CASE Len(n) # 0
    <3>1. 1 \in 1 .. Len(n) /\ Len(t) + 1 + 1 = Len(t) + 2
      BY <1>1, <2>4
    <3> QED
      BY <1>1, <2>2, <3>1
  <2> QED
    BY <2>3, <2>4
<1>5. ~(Len(s) < Len(t))
  <2> SUFFICES ASSUME Len(s) < Len(t) PROVE FALSE
    OBVIOUS
  <2>1. Len(s) + 1 \in 1 .. Len(t) /\ (Len(s) + 1) + 1 = Len(s) + 2
    BY <1>1, <1>2
  <2>2. block[Len(s) + 2][1] = "text"
    BY <1>1, <2>1
  <2>3. CASE Len(l) = 0
    <3>1. Len(block) = Len(s) + 2
      BY <1>2, <2>3
    <3> QED
      BY <1>2, <2>2, <3>1
  <2>4. CASE Len(l) # 0
    <3>1. 1 \in 1 .. Len(l) /\ Len(s) + 1 + 1 = Len(s) + 2
      BY <1>2, <2>4
    <3> QED
      BY <1>2, <2>2, <3>1
  <2> QED
    BY <2>3, <2>4
<1>6. Len(t) = Len(s) /\ Len(n) = Len(l)
  BY <1>1, <1>2, <1>4, <1>5
<1>7. t = s
  BY <1>1, <1>2, <1>6, ListsEqual
<1>8. n = l
  BY <1>1, <1>2, <1>6, ListsEqual
<1>9. IsListOf(m.content) /\ IsListOf(o.content) /\ IsListOf(m.tool_calls) /\ IsListOf(o.tool_calls)
  BY DEF WellShapedMessage
<1>10. m.content = o.content
  BY <1>7, <1>9, TextFromUnits DEF t, s
<1>11. m.tool_calls = o.tool_calls
  <2> DEFINE mine == m.tool_calls
             others == o.tool_calls
  <2>1. IsListOf(mine) /\ IsListOf(others) /\ CallUnits(mine) = CallUnits(others)
    BY <1>8, <1>9 DEF n, l
  <2>2. (\A c \in ToSet(mine) : WellShapedCall(c)) /\ \A c \in ToSet(others) : WellShapedCall(c)
    BY DEF WellShapedMessage
  <2> HIDE DEF mine, others
  <2>3. Len(mine) = Len(others) /\ \A k \in 1 .. Len(mine) :
          <<"tool_call", mine[k].id, mine[k].name, mine[k].arguments_raw>>
            = <<"tool_call", others[k].id, others[k].name, others[k].arguments_raw>>
    BY <2>1, CallUnitsAre
  <2>4. \A k \in 1 .. Len(mine) : WellShapedCall(mine[k]) /\ WellShapedCall(others[k])
    BY <2>1, <2>2, <2>3, Lists
  <2>5. \A k \in 1 .. Len(mine) : mine[k] = others[k]
    BY <2>3, <2>4 DEF WellShapedCall
  <2>6. mine = others
    BY <2>1, <2>3, <2>5, ListsEqual
  <2> QED
    BY <2>6 DEF mine, others
<1> QED
  BY <1>3, <1>10, <1>11 DEF WellShapedMessage

(* The items of s are the first of t: a prefix, without SubSeq.               *)
Starts(s, t) == Len(s) =< Len(t) /\ \A k \in 1 .. Len(s) : s[k] = t[k]

LEMMA PrefixStarts ==
  ASSUME NEW s, NEW t, IsListOf(s), IsListOf(t)
  PROVE  IsPrefix(s, t) <=> Starts(s, t)
<1> DEFINE S == ToSet(s) \cup ToSet(t)
           n == Len(s)
<1>1. s \in Seq(S) /\ t \in Seq(S) /\ n \in Nat /\ Len(t) \in Nat
  BY Lists
<1> HIDE DEF S
<1>2. CASE n =< Len(t)
  <2>1. (\A k \in 1 .. n : s[k] \in S) /\ \A k \in 1 .. n : t[k] \in S
    BY <1>1, <1>2
  <2> HIDE DEF n
  <2>2. /\ SubSeq(s, 1, n) \in Seq(S) /\ Len(SubSeq(s, 1, n)) = n
        /\ \A k \in 1 .. n : SubSeq(s, 1, n)[k] = s[k]
    BY <1>1, <2>1, SubSeqProperties
  <2>3. /\ SubSeq(t, 1, n) \in Seq(S) /\ Len(SubSeq(t, 1, n)) = n
        /\ \A k \in 1 .. n : SubSeq(t, 1, n)[k] = t[k]
    BY <1>1, <2>1, SubSeqProperties
  <2>4. SubSeq(s, 1, n) = SubSeq(t, 1, n) <=> \A k \in 1 .. n : s[k] = t[k]
    BY <2>2, <2>3, SeqEqual
  <2> QED
    BY <1>2, <2>4 DEF IsPrefix, Starts, n
<1>3. CASE ~(n =< Len(t))
  BY <1>3 DEF IsPrefix, Starts
<1> QED
  BY <1>2, <1>3

(* The units of each message of a request, and where each block ends.         *)
BlocksOf(r) == [k \in DOMAIN r.messages |-> UnitsOfMessage(r.messages[k])]

EndOf(r, i) == Len(FirstBlocks(BlocksOf(r), i))

(* The units of the messages are their blocks, each in its place.             *)
LEMMA RequestBlocks ==
  ASSUME NEW r, WellShaped(r)
  PROVE  /\ IsListOf(MessageUnits(r)) /\ Len(r.messages) \in Nat
         /\ \A i \in 1 .. Len(r.messages) : WellShapedMessage(r.messages[i])
         /\ \A i \in 0 .. Len(r.messages) :
              /\ EndOf(r, i) \in Nat /\ EndOf(r, i) =< Len(MessageUnits(r))
              /\ Starts(FirstBlocks(BlocksOf(r), i), MessageUnits(r))
         /\ EndOf(r, 0) = 0 /\ EndOf(r, Len(r.messages)) = Len(MessageUnits(r))
         /\ FirstBlocks(BlocksOf(r), 0) = <<>>
         /\ MessageUnits(r) = FirstBlocks(BlocksOf(r), Len(r.messages))
         /\ \A i \in 1 .. Len(r.messages) :
              /\ EndOf(r, i) = EndOf(r, i - 1) + Len(UnitsOfMessage(r.messages[i]))
              /\ FirstBlocks(BlocksOf(r), i)
                   = FirstBlocks(BlocksOf(r), i - 1) \o UnitsOfMessage(r.messages[i])
              /\ \A k \in 1 .. Len(UnitsOfMessage(r.messages[i])) :
                   MessageUnits(r)[EndOf(r, i - 1) + k] = UnitsOfMessage(r.messages[i])[k]
<1> DEFINE list == r.messages
           ss == BlocksOf(r)
           S == UNION {ToSet(UnitsOfMessage(list[i])) : i \in 1 .. Len(list)}
           flat == MessageUnits(r)
<1>1. IsListOf(list) /\ \A m \in ToSet(list) : WellShapedMessage(m)
  BY DEF WellShaped
<1>2. ss = [k \in DOMAIN list |-> UnitsOfMessage(list[k])] /\ flat = FlattenSeq(ss)
  BY DEF BlocksOf, MessageUnits
<1> HIDE DEF list, ss, flat
<1>3. Len(list) \in Nat /\ DOMAIN list = 1 .. Len(list) /\ \A i \in 1 .. Len(list) : WellShapedMessage(list[i])
  BY <1>1, Lists
<1>4. \A i \in 1 .. Len(list) : UnitsOfMessage(list[i]) \in Seq(S)
  <2> SUFFICES ASSUME NEW i \in 1 .. Len(list) PROVE UnitsOfMessage(list[i]) \in Seq(S)
    OBVIOUS
  <2> DEFINE block == UnitsOfMessage(list[i])
  <2>1. IsListOf(block)
    BY <1>3, MessageBlock
  <2>2. ToSet(block) \subseteq S
    OBVIOUS
  <2> HIDE DEF block, S
  <2>3. block \in Seq(S)
    BY <2>1, <2>2, Lists
  <2> QED
    BY <2>3 DEF block
<1> HIDE DEF S
<1>5. ss \in Seq(Seq(S)) /\ Len(ss) = Len(list) /\ \A i \in 1 .. Len(list) : ss[i] = UnitsOfMessage(list[i])
  <2>1. ss \in [1 .. Len(list) -> Seq(S)]
    BY <1>2, <1>3, <1>4
  <2> QED
    BY <1>2, <1>3, <2>1
<1> DEFINE F(i) == FirstBlocks(ss, i)
<1>6. /\ F(0) = <<>> /\ flat = F(Len(ss))
      /\ \A i \in 1 .. Len(ss) : F(i) = F(i - 1) \o ss[i]
      /\ \A i \in 0 .. Len(ss) : F(i) \in Seq(S)
  BY <1>2, <1>5, Blocks
<1>7. /\ flat \in Seq(S)
      /\ \A i \in 0 .. Len(ss) : Len(F(i)) \in Nat /\ Len(F(i)) =< Len(flat) /\ IsPrefix(F(i), flat)
      /\ Len(F(0)) = 0 /\ Len(F(Len(ss))) = Len(flat)
      /\ \A i \in 1 .. Len(ss) :
           /\ Len(F(i)) = Len(F(i - 1)) + Len(ss[i])
           /\ \A k \in 1 .. Len(ss[i]) : flat[Len(F(i - 1)) + k] = ss[i][k]
  <2> DEFINE whole == FlattenSeq(ss)
  <2>1. ss \in Seq(Seq(S))
    BY <1>5
  <2>2. /\ whole \in Seq(S)
        /\ \A i \in 0 .. Len(ss) : Len(F(i)) \in Nat /\ Len(F(i)) =< Len(whole) /\ IsPrefix(F(i), whole)
        /\ Len(F(0)) = 0 /\ Len(F(Len(ss))) = Len(whole)
        /\ \A i \in 1 .. Len(ss) :
             /\ Len(F(i)) = Len(F(i - 1)) + Len(ss[i])
             /\ \A k \in 1 .. Len(ss[i]) : whole[Len(F(i - 1)) + k] = ss[i][k]
    BY <2>1, BlockPlaces
  <2>3. flat = whole
    BY <1>2
  <2> QED
    BY <2>2, <2>3
<1>8. \A s \in Seq(S) : IsListOf(s)
  <2> SUFFICES ASSUME NEW s \in Seq(S) PROVE IsListOf(s)
    OBVIOUS
  <2>1. Len(s) \in Nat /\ s = [i \in 1 .. Len(s) |-> s[i]]
    OBVIOUS
  <2> QED
    BY <2>1, ListOfFunction
<1> HIDE DEF F
<1>9. \A i \in 0 .. Len(ss) : Starts(F(i), flat)
  BY <1>6, <1>7, <1>8, PrefixStarts
<1>10. \A i : EndOf(r, i) = Len(F(i))
  BY DEF EndOf, F, ss
<1>11. IsListOf(flat)
  BY <1>7, <1>8
<1> DEFINE n == Len(list)
           Block(i) == UnitsOfMessage(list[i])
<1>12. Len(ss) = n /\ n \in Nat /\ \A i \in 1 .. n : ss[i] = Block(i)
  BY <1>3, <1>5
<1> HIDE DEF n, Block
<1>13. /\ \A i \in 0 .. n : EndOf(r, i) \in Nat /\ EndOf(r, i) =< Len(flat) /\ Starts(F(i), flat)
       /\ EndOf(r, 0) = 0 /\ EndOf(r, n) = Len(flat) /\ F(0) = <<>> /\ flat = F(n)
  BY <1>6, <1>7, <1>9, <1>10, <1>12
<1>14. \A i \in 1 .. n :
         /\ EndOf(r, i) = EndOf(r, i - 1) + Len(Block(i))
         /\ F(i) = F(i - 1) \o Block(i)
         /\ \A k \in 1 .. Len(Block(i)) : flat[EndOf(r, i - 1) + k] = Block(i)[k]
  <2> SUFFICES ASSUME NEW i \in 1 .. n
               PROVE  /\ EndOf(r, i) = EndOf(r, i - 1) + Len(Block(i))
                      /\ F(i) = F(i - 1) \o Block(i)
                      /\ \A k \in 1 .. Len(Block(i)) : flat[EndOf(r, i - 1) + k] = Block(i)[k]
    OBVIOUS
  <2>1. EndOf(r, i) = Len(F(i)) /\ EndOf(r, i - 1) = Len(F(i - 1)) /\ ss[i] = Block(i)
        /\ i \in 1 .. Len(ss)
    BY <1>10, <1>12
  <2>2. /\ Len(F(i)) = Len(F(i - 1)) + Len(ss[i]) /\ F(i) = F(i - 1) \o ss[i]
        /\ \A k \in 1 .. Len(ss[i]) : flat[Len(F(i - 1)) + k] = ss[i][k]
    BY <1>6, <1>7, <2>1
  <2> QED
    BY <2>1, <2>2
<1>15. \A i \in 1 .. n : WellShapedMessage(list[i])
  BY <1>3 DEF n
<1> QED
  BY <1>11, <1>12, <1>13, <1>14, <1>15 DEF F, list, flat, ss, n, Block

(* The units of the messages of one request start those of another exactly if *)
(* its messages do: a unit that ends a message ends no other's, so blocks are *)
(* told apart.                                                                *)
LEMMA MessagesFromUnits ==
  ASSUME NEW p, NEW c, WellShaped(p), WellShaped(c)
  PROVE  Starts(MessageUnits(p), MessageUnits(c)) <=> IsPrefix(p.messages, c.messages)
<1> DEFINE mp == p.messages
           mc == c.messages
           up == MessageUnits(p)
           uc == MessageUnits(c)
           P(i) == FirstBlocks(BlocksOf(p), i)
           C(i) == FirstBlocks(BlocksOf(c), i)
           B(m) == UnitsOfMessage(m)
           ep(i) == EndOf(p, i)
           ec(i) == EndOf(c, i)
<1>1. /\ Len(mp) \in Nat
      /\ \A i \in 1 .. Len(mp) : WellShapedMessage(mp[i])
      /\ \A i \in 0 .. Len(mp) : ep(i) \in Nat /\ ep(i) =< Len(up)
      /\ ep(0) = 0 /\ ep(Len(mp)) = Len(up) /\ P(0) = <<>> /\ up = P(Len(mp))
      /\ \A i \in 1 .. Len(mp) :
           /\ ep(i) = ep(i - 1) + Len(B(mp[i]))
           /\ P(i) = P(i - 1) \o B(mp[i])
           /\ \A k \in 1 .. Len(B(mp[i])) : up[ep(i - 1) + k] = B(mp[i])[k]
  BY RequestBlocks
<1>2. /\ Len(mc) \in Nat
      /\ \A i \in 1 .. Len(mc) : WellShapedMessage(mc[i])
      /\ \A i \in 0 .. Len(mc) : ec(i) \in Nat /\ ec(i) =< Len(uc) /\ Starts(C(i), uc)
      /\ ec(0) = 0 /\ ec(Len(mc)) = Len(uc) /\ C(0) = <<>>
      /\ \A i \in 1 .. Len(mc) :
           /\ ec(i) = ec(i - 1) + Len(B(mc[i]))
           /\ C(i) = C(i - 1) \o B(mc[i])
           /\ \A k \in 1 .. Len(B(mc[i])) : uc[ec(i - 1) + k] = B(mc[i])[k]
  BY RequestBlocks
<1>3. \A m : WellShapedMessage(m) =>
        /\ IsListOf(B(m)) /\ Len(B(m)) \in Nat /\ Len(B(m)) >= 2
        /\ \A k \in 1 .. Len(B(m)) : B(m)[k][1] = "message_end" <=> k = Len(B(m))
  <2> SUFFICES ASSUME NEW m, WellShapedMessage(m)
               PROVE  /\ IsListOf(B(m)) /\ Len(B(m)) \in Nat /\ Len(B(m)) >= 2
                      /\ \A k \in 1 .. Len(B(m)) : B(m)[k][1] = "message_end" <=> k = Len(B(m))
    OBVIOUS
  <2> DEFINE t == Len(TextUnits(m.content))
             n == Len(CallUnits(m.tool_calls))
  <2>1. IsListOf(B(m)) /\ Len(B(m)) = t + n + 2 /\ t \in Nat /\ n \in Nat
    BY MessageBlock
  <2> HIDE DEF t, n
  <2>2. Len(B(m)) \in Nat /\ Len(B(m)) >= 2
    BY <2>1
  <2> QED
    BY <2>1, <2>2, OnlyLastEnds
<1>4. \A m, o : WellShapedMessage(m) /\ WellShapedMessage(o) /\ B(m) = B(o) => m = o
  BY MessageFromUnits
<1>5. IsListOf(mp) /\ IsListOf(mc) /\ IsPrefix(mp, mc) <=> IsListOf(mp) /\ IsListOf(mc) /\ Starts(mp, mc)
  BY PrefixStarts
<1>6. IsListOf(mp) /\ IsListOf(mc)
  BY DEF WellShaped
<1> HIDE DEF mp, mc, up, uc, P, C, B, ep, ec
<1>7. ASSUME Starts(mp, mc) PROVE Starts(up, uc)
  <2>1. Len(mp) =< Len(mc) /\ \A i \in 1 .. Len(mp) : mp[i] = mc[i]
    BY <1>7 DEF Starts
  <2> DEFINE T == {i \in 0 .. Len(mp) : P(i) = C(i)}
  <2>2. 0 \in T
    BY <1>1, <1>2
  <2>3. ASSUME NEW i \in 1 .. Len(mp), i - 1 \in T PROVE i \in T
    <3>1. i \in 1 .. Len(mc) /\ i \in 0 .. Len(mp)
      BY <1>1, <1>2, <2>1
    <3>2. P(i) = P(i - 1) \o B(mp[i]) /\ C(i) = C(i - 1) \o B(mc[i])
      BY <1>1, <1>2, <3>1
    <3> QED
      BY <2>1, <2>3, <3>1, <3>2
  <2> HIDE DEF T
  <2>4. \A i \in 0 .. Len(mp) : i \in T
    BY <1>1, <2>2, <2>3, Upwards
  <2>5. Len(mp) \in 0 .. Len(mp) /\ Len(mp) \in 0 .. Len(mc)
    BY <1>1, <1>2, <2>1
  <2>6. up = C(Len(mp))
    BY <1>1, <2>4, <2>5 DEF T
  <2> QED
    BY <1>2, <2>5, <2>6
<1>8. ASSUME Starts(up, uc) PROVE Starts(mp, mc)
  <2>1. Len(up) =< Len(uc) /\ \A k \in 1 .. Len(up) : up[k] = uc[k]
    BY <1>8 DEF Starts
  <2> DEFINE Same(i) == i =< Len(mc) /\ ep(i) = ec(i) /\ \A j \in 1 .. i : mp[j] = mc[j]
             T == {i \in 0 .. Len(mp) : Same(i)}
  <2>2. 0 \in T
    BY <1>1, <1>2
  <2>3. ASSUME NEW i \in 1 .. Len(mp), i - 1 \in T PROVE i \in T
    <3> DEFINE a == ep(i - 1)
               Bp == B(mp[i])
               Bc == B(mc[i])
               l == Len(Bp)
               r == Len(Bc)
    <3>1. i - 1 =< Len(mc) /\ a = ec(i - 1) /\ \A j \in 1 .. i - 1 : mp[j] = mc[j]
      BY <2>3
    <3>2. /\ WellShapedMessage(mp[i]) /\ ep(i) = a + l /\ a \in Nat /\ ep(i) =< Len(up)
          /\ \A k \in 1 .. l : up[a + k] = Bp[k]
      <4>1. i - 1 \in 0 .. Len(mp) /\ i \in 0 .. Len(mp)
        BY <1>1
      <4> QED
        BY <1>1, <4>1
    <3>3. /\ IsListOf(Bp) /\ l \in Nat /\ l >= 2
          /\ \A k \in 1 .. l : Bp[k][1] = "message_end" <=> k = l
      BY <1>3, <3>2
    <3>4. i \in 1 .. Len(mc)
      <4>1. a + 2 =< Len(uc)
        BY <1>1, <1>2, <2>1, <3>2, <3>3
      <4>2. i - 1 = Len(mc) => a = Len(uc)
        BY <1>2, <3>1
      <4>3. i - 1 # Len(mc)
        BY <3>2, <4>1, <4>2
      <4> QED
        BY <1>1, <1>2, <3>1, <4>3
    <3>5. /\ WellShapedMessage(mc[i]) /\ ec(i) = a + r /\ ec(i) =< Len(uc)
          /\ \A k \in 1 .. r : uc[a + k] = Bc[k]
      <4>1. i \in 0 .. Len(mc)
        BY <1>2, <3>4
      <4> QED
        BY <1>2, <3>1, <3>4, <4>1
    <3>6. /\ IsListOf(Bc) /\ r \in Nat /\ r >= 2
          /\ \A k \in 1 .. r : Bc[k][1] = "message_end" <=> k = r
      BY <1>3, <3>5
    <3> HIDE DEF a, Bp, Bc, l, r, Same
    <3>7. Len(up) \in Nat /\ Len(uc) \in Nat
      BY <1>1, <1>2
    <3>8. \A k \in 1 .. l : k =< r => Bp[k] = Bc[k]
      <4> SUFFICES ASSUME NEW k \in 1 .. l, k =< r PROVE Bp[k] = Bc[k]
        OBVIOUS
      <4>1. a + k \in 1 .. Len(up) /\ k \in 1 .. r
        BY <3>2, <3>3, <3>6, <3>7
      <4> QED
        BY <2>1, <3>2, <3>5, <4>1
    <3>9. l = r
      <4>1. CASE l =< r
        <5>1. l \in 1 .. l /\ l \in 1 .. r
          BY <3>3, <3>6, <4>1
        <5> QED
          BY <3>3, <3>6, <3>8, <4>1, <5>1
      <4>2. CASE r =< l
        <5>1. r \in 1 .. l /\ r \in 1 .. r
          BY <3>3, <3>6, <4>2
        <5> QED
          BY <3>3, <3>6, <3>8, <5>1
      <4> QED
        BY <3>3, <3>6, <4>1, <4>2
    <3>10. Bp = Bc
      <4>1. Len(Bp) = Len(Bc) /\ \A k \in 1 .. Len(Bp) : Bp[k] = Bc[k]
        BY <3>3, <3>8, <3>9 DEF l, r
      <4> QED
        BY <3>3, <3>6, <4>1, ListsEqual
    <3>11. mp[i] = mc[i]
      BY <1>4, <3>2, <3>5, <3>10 DEF Bp, Bc
    <3>12. \A j \in 1 .. i : j \in 1 .. i - 1 \/ j = i
      OBVIOUS
    <3>13. Same(i)
      BY <3>1, <3>2, <3>4, <3>5, <3>9, <3>11, <3>12 DEF Same
    <3> QED
      BY <3>13
  <2> HIDE DEF T
  <2>4. \A i \in 0 .. Len(mp) : i \in T
    BY <1>1, <2>2, <2>3, Upwards
  <2>5. Len(mp) \in 0 .. Len(mp)
    BY <1>1
  <2>6. Same(Len(mp))
    BY <2>4, <2>5 DEF T
  <2> QED
    BY <2>6 DEF Starts
<1>9. Starts(up, uc) <=> IsPrefix(mp, mc)
  BY <1>5, <1>6, <1>7, <1>8
<1> QED
  BY <1>9 DEF up, uc, mp, mc

-----------------------------------------------------------------------------
(* The prefix a provider reads *)

(* How far two sequences agree is the length of their longest common prefix.  *)
LEMMA CommonLength ==
  ASSUME NEW s, NEW t, IsListOf(s), IsListOf(t), NEW n \in Nat, n =< Len(s), n =< Len(t),
         \A k \in 1 .. n : s[k] = t[k],
         n < Len(s) /\ n < Len(t) => s[n + 1] # t[n + 1]
  PROVE  Len(LongestCommonPrefix({s, t})) = n
<1> DEFINE S == ToSet(s) \cup ToSet(t)
           Common == CommonPrefixes({s, t})
           w == SubSeq(s, 1, n)
           longest == LongestCommonPrefix({s, t})
<1>1. s \in Seq(S) /\ t \in Seq(S) /\ Len(s) \in Nat /\ Len(t) \in Nat
  BY Lists
<1> HIDE DEF S
<1>2. w \in Seq(S) /\ Len(w) = n /\ \A k \in 1 .. n : w[k] = s[k]
  <2>1. \A k \in 1 .. n : s[k] \in S
    BY <1>1
  <2> QED
    BY <2>1, SubSeqProperties
<1>3. \A x : x \in Common <=>
         /\ \E seq \in {s, t} : \E l \in 0 .. Len(seq) : x = SubSeq(seq, 1, l)
         /\ IsPrefix(x, s) /\ IsPrefix(x, t)
  BY DEF CommonPrefixes, Prefixes
<1>4. \A x \in Seq(S) : IsListOf(x)
  <2> SUFFICES ASSUME NEW x \in Seq(S) PROVE IsListOf(x)
    OBVIOUS
  <2>1. Len(x) \in Nat /\ x = [i \in 1 .. Len(x) |-> x[i]]
    OBVIOUS
  <2> QED
    BY <2>1, ListOfFunction
<1>5. w \in Common
  <2>1. n \in 0 .. Len(s)
    BY <1>1
  <2>2. Starts(w, s) /\ Starts(w, t)
    BY <1>2 DEF Starts
  <2>3. IsListOf(w)
    BY <1>2, <1>4
  <2>4. IsPrefix(w, s) /\ IsPrefix(w, t)
    <3> HIDE DEF w
    <3> QED
      BY <2>2, <2>3, PrefixStarts
  <2> QED
    BY <1>3, <2>1, <2>4
<1>6. \A x \in Common : Len(x) \in Nat /\ Len(x) =< n
  <2> SUFFICES ASSUME NEW x \in Common PROVE Len(x) \in Nat /\ Len(x) =< n
    OBVIOUS
  <2>0. PICK seq \in {s, t} : \E l \in 0 .. Len(seq) : x = SubSeq(seq, 1, l)
    BY <1>3
  <2>1. PICK l \in 0 .. Len(seq) : x = SubSeq(seq, 1, l)
    BY <2>0
  <2>2. x \in Seq(S)
    <3>1. seq \in Seq(S) /\ Len(seq) \in Nat
      BY <1>1
    <3>2. \A k \in 1 .. l : seq[k] \in S
      BY <3>1
    <3> QED
      BY <2>1, <3>1, <3>2, SubSeqProperties
  <2>3. IsListOf(x) /\ Len(x) \in Nat
    BY <1>4, <2>2
  <2>4. Starts(x, s) /\ Starts(x, t)
    BY <1>3, <2>3, PrefixStarts
  <2>5. ASSUME n + 1 =< Len(x) PROVE FALSE
    <3>1. n + 1 \in 1 .. Len(x) /\ n < Len(s) /\ n < Len(t)
      BY <1>1, <2>3, <2>4, <2>5 DEF Starts
    <3>2. s[n + 1] = t[n + 1]
      BY <2>4, <3>1 DEF Starts
    <3> QED
      BY <3>1, <3>2
  <2> QED
    BY <2>3, <2>5
<1>7. longest = CHOOSE x \in Common : \A other \in Common : Len(other) <= Len(x)
  BY DEF LongestCommonPrefix
<1> HIDE DEF Common, w, longest
<1>8. \E x \in Common : \A other \in Common : Len(other) <= Len(x)
  BY <1>2, <1>5, <1>6
<1>9. longest \in Common /\ \A other \in Common : Len(other) <= Len(longest)
  BY <1>7, <1>8
<1>10. Len(longest) = n
  BY <1>2, <1>5, <1>6, <1>9
<1> QED
  BY <1>10 DEF longest

(* The units of a request are sequences.                                      *)
LEMMA UnitsAreLists ==
  ASSUME NEW r, WellShaped(r)
  PROVE  /\ \A k \in 1 .. 3 : IsListOf(Units(SEGMENT_ORDER[k], r))
         /\ Units("tools", r) = ToolsUnits(r) /\ Units("system", r) = SystemUnits(r)
         /\ Units("messages", r) = MessageUnits(r)
<1>1. Units("tools", r) = ToolsUnits(r) /\ Units("system", r) = SystemUnits(r)
      /\ Units("messages", r) = MessageUnits(r)
  BY DEF Units
<1>2. IsListOf(ToolsUnits(r)) /\ IsListOf(SystemUnits(r)) /\ IsListOf(MessageUnits(r))
  BY ToolsFromUnits, SystemFromUnits, RequestBlocks
<1> QED
  BY <1>1, <1>2, Order

(* Where the k-th segment begins in the prefix, and what stands there.        *)
Before(r, k) == CASE k = 1 -> 0
                  [] k = 2 -> Len(ToolsUnits(r))
                  [] k = 3 -> Len(ToolsUnits(r)) + Len(SystemUnits(r))

(* The prefix is the three segments, one after the other, each unit tagged.   *)
LEMMA PrefixIs ==
  ASSUME NEW r, WellShaped(r)
  PROVE  /\ IsListOf(Prefix(r)) /\ Len(Prefix(r)) \in Nat
         /\ Before(r, 1) = 0
         /\ Before(r, 2) = Before(r, 1) + Len(Units(SEGMENT_ORDER[1], r))
         /\ Before(r, 3) = Before(r, 2) + Len(Units(SEGMENT_ORDER[2], r))
         /\ Len(Prefix(r)) = Before(r, 3) + Len(Units(SEGMENT_ORDER[3], r))
         /\ \A k \in 1 .. 3 :
              /\ Before(r, k) \in Nat /\ Len(Units(SEGMENT_ORDER[k], r)) \in Nat
              /\ Before(r, k) + Len(Units(SEGMENT_ORDER[k], r)) =< Len(Prefix(r))
              /\ \A i \in 1 .. Len(Units(SEGMENT_ORDER[k], r)) :
                   Prefix(r)[Before(r, k) + i] = <<SEGMENT_ORDER[k], Units(SEGMENT_ORDER[k], r)[i]>>
<1> DEFINE Tagged(k) == [i \in DOMAIN Units(SEGMENT_ORDER[k], r) |->
                           <<SEGMENT_ORDER[k], Units(SEGMENT_ORDER[k], r)[i]>>]
           ss == [k \in DOMAIN SEGMENT_ORDER |-> Tagged(k)]
           Size(k) == Len(Units(SEGMENT_ORDER[k], r))
           flat == FlattenSeq(ss)
           At(i) == Len(FirstBlocks(ss, i))
<1>1. Prefix(r) = flat
  BY DEF Prefix
<1>2. ASSUME NEW k \in 1 .. 3
      PROVE  /\ Size(k) \in Nat /\ IsListOf(Tagged(k)) /\ Len(Tagged(k)) = Size(k)
             /\ \A i \in 1 .. Size(k) :
                  Tagged(k)[i] = <<SEGMENT_ORDER[k], Units(SEGMENT_ORDER[k], r)[i]>>
  <2> DEFINE units == Units(SEGMENT_ORDER[k], r)
             kind == SEGMENT_ORDER[k]
             f == Tagged(k)
  <2>1. IsListOf(units)
    BY UnitsAreLists
  <2>2. f = [i \in DOMAIN units |-> <<kind, units[i]>>]
    OBVIOUS
  <2> HIDE DEF units, kind, f
  <2>3. Len(units) \in Nat /\ DOMAIN units = 1 .. Len(units)
    BY <2>1, Lists
  <2>4. f = [i \in 1 .. Len(units) |-> f[i]] /\ \A i \in 1 .. Len(units) : f[i] = <<kind, units[i]>>
    BY <2>2, <2>3
  <2>5. IsListOf(f) /\ Len(f) = Len(units)
    BY <2>3, <2>4, ListOfFunction
  <2> QED
    BY <2>3, <2>4, <2>5 DEF f, units, kind
<1>3. ss = [k \in 1 .. 3 |-> Tagged(k)]
  BY Order
<1> HIDE DEF Tagged, Size, ss
<1> DEFINE S == UNION {ToSet(Tagged(k)) : k \in 1 .. 3}
<1>4. \A k \in 1 .. 3 : Tagged(k) \in Seq(S)
  <2> SUFFICES ASSUME NEW k \in 1 .. 3 PROVE Tagged(k) \in Seq(S)
    OBVIOUS
  <2>1. ToSet(Tagged(k)) \subseteq S
    OBVIOUS
  <2> HIDE DEF S
  <2> QED
    BY <1>2, <2>1, Lists
<1> HIDE DEF S
<1>5. ss \in Seq(Seq(S)) /\ Len(ss) = 3 /\ \A k \in 1 .. 3 : ss[k] = Tagged(k)
  <2>1. ss \in [1 .. 3 -> Seq(S)]
    BY <1>3, <1>4
  <2> QED
    BY <1>3, <2>1
<1>6. /\ flat \in Seq(S)
      /\ \A i \in 0 .. Len(ss) : At(i) \in Nat
      /\ At(0) = 0 /\ At(Len(ss)) = Len(flat)
      /\ \A i \in 1 .. Len(ss) :
           /\ At(i) = At(i - 1) + Len(ss[i])
           /\ \A k \in 1 .. Len(ss[i]) : flat[At(i - 1) + k] = ss[i][k]
  <2>1. ss \in Seq(Seq(S))
    BY <1>5
  <2> QED
    BY <2>1, BlockPlaces
<1> HIDE DEF flat, At
<1>7. /\ At(0) = 0 /\ At(3) = Len(flat)
      /\ \A i \in 1 .. 3 :
           /\ At(i - 1) \in Nat /\ At(i) = At(i - 1) + Size(i)
           /\ \A k \in 1 .. Size(i) :
                flat[At(i - 1) + k] = <<SEGMENT_ORDER[i], Units(SEGMENT_ORDER[i], r)[k]>>
  <2>1. /\ At(0) = 0 /\ At(3) = Len(flat)
    BY <1>5, <1>6
  <2> SUFFICES ASSUME NEW i \in 1 .. 3
               PROVE  /\ At(i - 1) \in Nat /\ At(i) = At(i - 1) + Size(i)
                      /\ \A k \in 1 .. Size(i) :
                           flat[At(i - 1) + k] = <<SEGMENT_ORDER[i], Units(SEGMENT_ORDER[i], r)[k]>>
    BY <2>1
  <2>2. i \in 1 .. Len(ss) /\ i - 1 \in 0 .. Len(ss) /\ ss[i] = Tagged(i) /\ Len(Tagged(i)) = Size(i)
    BY <1>2, <1>5
  <2>3. /\ At(i - 1) \in Nat /\ At(i) = At(i - 1) + Len(ss[i])
        /\ \A k \in 1 .. Len(ss[i]) : flat[At(i - 1) + k] = ss[i][k]
    BY <1>6, <2>2
  <2> QED
    BY <1>2, <2>2, <2>3
<1>8. At(1) = At(0) + Size(1) /\ At(2) = At(1) + Size(2) /\ At(3) = At(2) + Size(3)
  <2>1. 1 \in 1 .. 3 /\ 2 \in 1 .. 3 /\ 3 \in 1 .. 3 /\ 1 - 1 = 0 /\ 2 - 1 = 1 /\ 3 - 1 = 2
    OBVIOUS
  <2> QED
    BY <1>7, <2>1
<1>9. Size(1) = Len(ToolsUnits(r)) /\ Size(2) = Len(SystemUnits(r))
  BY UnitsAreLists, Order DEF Size
<1>10. Before(r, 1) = At(0) /\ Before(r, 2) = At(1) /\ Before(r, 3) = At(2)
  <2>1. /\ Before(r, 1) = 0 /\ Before(r, 2) = Len(ToolsUnits(r))
        /\ Before(r, 3) = Len(ToolsUnits(r)) + Len(SystemUnits(r))
    BY DEF Before
  <2>2. Size(1) \in Nat /\ Size(2) \in Nat /\ At(0) = 0
    BY <1>2, <1>7
  <2> QED
    BY <1>8, <1>9, <2>1, <2>2
<1>11. \A k \in 1 .. 3 : Before(r, k) = At(k - 1)
  BY <1>10
<1>12. IsListOf(flat) /\ Len(flat) \in Nat
  <2>1. Len(flat) \in Nat /\ flat = [i \in 1 .. Len(flat) |-> flat[i]]
    BY <1>6
  <2> QED
    BY <2>1, ListOfFunction
<1>13. \A k \in 1 .. 3 : Before(r, k) + Size(k) =< Len(flat)
  <2> DEFINE a == Size(1)
             b == Size(2)
             d == Size(3)
             n == Len(flat)
  <2>1. a \in Nat /\ b \in Nat /\ d \in Nat /\ n = a + b + d
        /\ Before(r, 1) = 0 /\ Before(r, 2) = a /\ Before(r, 3) = a + b
    BY <1>2, <1>7, <1>8, <1>10
  <2> HIDE DEF a, b, d, n
  <2>2. Before(r, 1) + a =< n /\ Before(r, 2) + b =< n /\ Before(r, 3) + d =< n
    BY <2>1
  <2> QED
    BY <2>2 DEF a, b, d, n
<1> QED
  BY <1>1, <1>2, <1>7, <1>8, <1>10, <1>11, <1>12, <1>13 DEF Size

(* Where a segment is left, another begins: its units say so.                 *)
LEMMA PrefixTags ==
  ASSUME NEW r, WellShaped(r), NEW k \in 1 .. 3,
         NEW x \in 1 .. Len(Prefix(r)), Before(r, k) + Len(Units(SEGMENT_ORDER[k], r)) < x
  PROVE  Prefix(r)[x][1] # SEGMENT_ORDER[k]
<1> DEFINE Size(j) == Len(Units(SEGMENT_ORDER[j], r))
           B(j) == Before(r, j)
           n == Len(Prefix(r))
           Tag(y) == Prefix(r)[y][1]
<1>1. /\ B(1) = 0 /\ B(2) = B(1) + Size(1) /\ B(3) = B(2) + Size(2) /\ n = B(3) + Size(3)
      /\ \A j \in 1 .. 3 :
           /\ B(j) \in Nat /\ Size(j) \in Nat
           /\ \A i \in 1 .. Size(j) : Tag(B(j) + i) = SEGMENT_ORDER[j]
  <2>1. /\ B(1) = 0 /\ B(2) = B(1) + Size(1) /\ B(3) = B(2) + Size(2) /\ n = B(3) + Size(3)
        /\ \A j \in 1 .. 3 :
             /\ B(j) \in Nat /\ Size(j) \in Nat
             /\ \A i \in 1 .. Size(j) :
                  Prefix(r)[B(j) + i] = <<SEGMENT_ORDER[j], Units(SEGMENT_ORDER[j], r)[i]>>
    BY PrefixIs
  <2> HIDE DEF B, Size, n
  <2>2. ASSUME NEW j \in 1 .. 3, NEW i \in 1 .. Size(j) PROVE Tag(B(j) + i) = SEGMENT_ORDER[j]
    <3>1. Prefix(r)[B(j) + i] = <<SEGMENT_ORDER[j], Units(SEGMENT_ORDER[j], r)[i]>>
      BY <2>1
    <3> QED
      BY <3>1
  <2> QED
    BY <2>1, <2>2
<1>2. x \in 1 .. n /\ B(k) + Size(k) < x
  OBVIOUS
<1> HIDE DEF Size, B, n, Tag
<1>3. ASSUME NEW j \in 1 .. 3, B(j) < x, x =< B(j) + Size(j) PROVE Tag(x) = SEGMENT_ORDER[j]
  <2>1. B(j) \in Nat /\ Size(j) \in Nat /\ \A i \in 1 .. Size(j) : Tag(B(j) + i) = SEGMENT_ORDER[j]
    BY <1>1
  <2>2. n \in Nat /\ x \in Int
    BY <1>1, <1>2
  <2>3. x - B(j) \in 1 .. Size(j) /\ B(j) + (x - B(j)) = x
    BY <1>3, <2>1, <2>2
  <2> QED
    BY <2>1, <2>3
<1>4. \E j \in 1 .. 3 : j # k /\ B(j) < x /\ x =< B(j) + Size(j)
  <2> DEFINE a == Size(1)
             b == Size(2)
             d == Size(3)
  <2>1. a \in Nat /\ b \in Nat /\ d \in Nat /\ B(1) = 0 /\ B(2) = a /\ B(3) = a + b /\ n = a + b + d
    BY <1>1
  <2> HIDE DEF a, b, d
  <2>2. CASE k = 1
    <3>1. a < x
      BY <1>2, <2>1, <2>2 DEF a
    <3>2. (B(2) < x /\ x =< B(2) + b) \/ (B(3) < x /\ x =< B(3) + d)
      BY <1>2, <2>1, <3>1
    <3> QED
      BY <2>2, <3>2 DEF b, d
  <2>3. CASE k = 2
    <3>1. a + b < x
      BY <1>2, <2>1, <2>3 DEF b
    <3>2. B(3) < x /\ x =< B(3) + d
      BY <1>2, <2>1, <3>1
    <3> QED
      BY <2>3, <3>2 DEF d
  <2>4. CASE k = 3
    <3>1. a + b + d < x
      BY <1>2, <2>1, <2>4 DEF d
    <3> QED
      BY <1>2, <2>1, <3>1
  <2> QED
    BY <2>2, <2>3, <2>4
<1>5. PICK j \in 1 .. 3 : j # k /\ Tag(x) = SEGMENT_ORDER[j]
  BY <1>3, <1>4
<1> QED
  BY <1>5, Order DEF Tag

(* The first segment that changed, and where: there the prefixes part.        *)
LEMMA PrefixesPart ==
  ASSUME NEW p, NEW c, WellShaped(p), WellShaped(c), NEW k \in 1 .. 3, NEW offset,
         \A i \in 1 .. k - 1 : Units(SEGMENT_ORDER[i], p) = Units(SEGMENT_ORDER[i], c),
         ChangesAt(SEGMENT_ORDER[k], p, c, offset), ~Unchanged(SEGMENT_ORDER[k], p, c)
  PROVE  Len(LongestCommonPrefix({Prefix(p), Prefix(c)})) = Before(c, k) + offset
<1> DEFINE up == Units(SEGMENT_ORDER[k], p)
           uc == Units(SEGMENT_ORDER[k], c)
           P  == Prefix(p)
           C  == Prefix(c)
           b  == Before(c, k)
           n  == b + offset
<1>1. /\ offset \in Nat /\ offset =< Len(up) /\ offset =< Len(uc)
      /\ \A j \in 1 .. offset : up[j] = uc[j]
      /\ offset < Len(up) /\ offset < Len(uc) => up[offset + 1] # uc[offset + 1]
  BY DEF ChangesAt
<1>2. up # uc
  BY DEF Unchanged
<1>3. IsListOf(up) /\ IsListOf(uc) /\ IsListOf(P) /\ IsListOf(C)
  BY UnitsAreLists, PrefixIs
<1>4. /\ Before(p, 1) = 0 /\ Before(p, 2) = Before(p, 1) + Len(Units(SEGMENT_ORDER[1], p))
      /\ Before(p, 3) = Before(p, 2) + Len(Units(SEGMENT_ORDER[2], p))
      /\ Len(P) = Before(p, 3) + Len(Units(SEGMENT_ORDER[3], p))
      /\ \A j \in 1 .. 3 :
           /\ Before(p, j) \in Nat /\ Len(Units(SEGMENT_ORDER[j], p)) \in Nat
           /\ Before(p, j) + Len(Units(SEGMENT_ORDER[j], p)) =< Len(P)
           /\ \A i \in 1 .. Len(Units(SEGMENT_ORDER[j], p)) :
                P[Before(p, j) + i] = <<SEGMENT_ORDER[j], Units(SEGMENT_ORDER[j], p)[i]>>
  BY PrefixIs
<1>5. /\ Before(c, 1) = 0 /\ Before(c, 2) = Before(c, 1) + Len(Units(SEGMENT_ORDER[1], c))
      /\ Before(c, 3) = Before(c, 2) + Len(Units(SEGMENT_ORDER[2], c))
      /\ Len(C) = Before(c, 3) + Len(Units(SEGMENT_ORDER[3], c))
      /\ \A j \in 1 .. 3 :
           /\ Before(c, j) \in Nat /\ Len(Units(SEGMENT_ORDER[j], c)) \in Nat
           /\ Before(c, j) + Len(Units(SEGMENT_ORDER[j], c)) =< Len(C)
           /\ \A i \in 1 .. Len(Units(SEGMENT_ORDER[j], c)) :
                C[Before(c, j) + i] = <<SEGMENT_ORDER[j], Units(SEGMENT_ORDER[j], c)[i]>>
  BY PrefixIs
<1>6. k > 1 => Units(SEGMENT_ORDER[1], p) = Units(SEGMENT_ORDER[1], c)
  OBVIOUS
<1>7. k > 2 => Units(SEGMENT_ORDER[2], p) = Units(SEGMENT_ORDER[2], c)
  OBVIOUS
<1>8. (\A x \in 1 .. Len(P) : Before(p, k) + Len(up) < x => P[x][1] # SEGMENT_ORDER[k])
      /\ \A x \in 1 .. Len(C) : b + Len(uc) < x => C[x][1] # SEGMENT_ORDER[k]
  BY PrefixTags
<1> HIDE DEF P, C
<1> DEFINE Up(j) == Units(SEGMENT_ORDER[j], p)
           Uc(j) == Units(SEGMENT_ORDER[j], c)
           Bp(j) == Before(p, j)
           Bc(j) == Before(c, j)
<1> HIDE DEF Up, Uc, Bp, Bc
<1>9. Bp(k) = Bc(k)
  <2>1. Bp(1) = 0 /\ Bc(1) = 0 /\ Bp(2) = Bp(1) + Len(Up(1)) /\ Bc(2) = Bc(1) + Len(Uc(1))
        /\ Bp(3) = Bp(2) + Len(Up(2)) /\ Bc(3) = Bc(2) + Len(Uc(2))
    BY <1>4, <1>5 DEF Bp, Bc, Up, Uc
  <2>2. (k > 1 => Up(1) = Uc(1)) /\ (k > 2 => Up(2) = Uc(2))
    BY <1>6, <1>7 DEF Up, Uc
  <2> QED
    BY <2>1, <2>2
<1>10. b \in Nat /\ Before(p, k) = b /\ Len(up) \in Nat /\ Len(uc) \in Nat
       /\ b + Len(up) =< Len(P) /\ b + Len(uc) =< Len(C) /\ Len(P) \in Nat /\ Len(C) \in Nat
  <2>1. /\ \A j \in 1 .. 3 : Bp(j) \in Nat /\ Bc(j) \in Nat /\ Len(Up(j)) \in Nat /\ Len(Uc(j)) \in Nat
        /\ Bp(2) = Bp(1) + Len(Up(1)) /\ Bc(2) = Bc(1) + Len(Uc(1))
        /\ Bp(3) = Bp(2) + Len(Up(2)) /\ Bc(3) = Bc(2) + Len(Uc(2))
        /\ Len(P) = Bp(3) + Len(Up(3)) /\ Len(C) = Bc(3) + Len(Uc(3))
    BY <1>4, <1>5 DEF Bp, Bc, Up, Uc
  <2>2. \A j \in 1 .. 3 : Bp(j) + Len(Up(j)) =< Len(P) /\ Bc(j) + Len(Uc(j)) =< Len(C)
    BY <1>4, <1>5 DEF Bp, Bc, Up, Uc
  <2>3. Len(P) \in Nat /\ Len(C) \in Nat
    BY <2>1
  <2> QED
    BY <1>9, <2>1, <2>2, <2>3 DEF Bp, Bc, Up, Uc
<1>11. \A x \in 1 .. n : P[x] = C[x]
  <2> SUFFICES ASSUME NEW x \in 1 .. n PROVE P[x] = C[x]
    OBVIOUS
  <2>1. CASE b < x
    <3>1. x - b \in 1 .. offset /\ x = b + (x - b) /\ x - b \in 1 .. Len(up) /\ x - b \in 1 .. Len(uc)
      BY <1>1, <1>10, <2>1
    <3>2. P[b + (x - b)] = <<SEGMENT_ORDER[k], up[x - b]>>
      BY <1>4, <1>10, <3>1
    <3>3. C[b + (x - b)] = <<SEGMENT_ORDER[k], uc[x - b]>>
      BY <1>5, <1>10, <3>1
    <3> QED
      BY <1>1, <3>1, <3>2, <3>3
  <2>2. CASE x =< b
    <3>1. ASSUME NEW j \in 1 .. 2, j < k, Bc(j) < x, x =< Bc(j) + Len(Uc(j))
          PROVE  P[x] = C[x]
      <4>1. Up(j) = Uc(j)
        BY <3>1 DEF Up, Uc
      <4>2. Bp(j) = Bc(j)
        <5>1. Bp(1) = 0 /\ Bc(1) = 0 /\ Bp(2) = Bp(1) + Len(Up(1)) /\ Bc(2) = Bc(1) + Len(Uc(1))
          BY <1>4, <1>5 DEF Bp, Bc, Up, Uc
        <5>2. k > 1 /\ Up(1) = Uc(1)
          BY <1>6, <3>1 DEF Up, Uc
        <5> QED
          BY <5>1, <5>2
      <4>3. /\ Bc(j) \in Nat /\ Len(Uc(j)) \in Nat
            /\ \A i \in 1 .. Len(Uc(j)) : C[Bc(j) + i] = <<SEGMENT_ORDER[j], Uc(j)[i]>>
            /\ \A i \in 1 .. Len(Up(j)) : P[Bp(j) + i] = <<SEGMENT_ORDER[j], Up(j)[i]>>
        <5>1. j \in 1 .. 3
          OBVIOUS
        <5>2. /\ Before(c, j) \in Nat /\ Len(Units(SEGMENT_ORDER[j], c)) \in Nat
              /\ \A i \in 1 .. Len(Units(SEGMENT_ORDER[j], c)) :
                   C[Before(c, j) + i] = <<SEGMENT_ORDER[j], Units(SEGMENT_ORDER[j], c)[i]>>
          BY <1>5, <5>1
        <5>3. \A i \in 1 .. Len(Units(SEGMENT_ORDER[j], p)) :
                 P[Before(p, j) + i] = <<SEGMENT_ORDER[j], Units(SEGMENT_ORDER[j], p)[i]>>
          BY <1>4, <5>1
        <5> QED
          BY <5>2, <5>3 DEF Bp, Bc, Up, Uc
      <4>4. x - Bc(j) \in 1 .. Len(Uc(j)) /\ Bc(j) + (x - Bc(j)) = x
        BY <1>1, <1>10, <3>1, <4>3
      <4> QED
        BY <4>1, <4>2, <4>3, <4>4
    <3>2. \E j \in 1 .. 2 : j < k /\ Bc(j) < x /\ x =< Bc(j) + Len(Uc(j))
      <4>1. /\ Bc(1) = 0 /\ Bc(2) = Bc(1) + Len(Uc(1)) /\ Bc(3) = Bc(2) + Len(Uc(2))
            /\ Bc(2) \in Nat /\ Bc(3) \in Nat /\ b = Bc(k)
        BY <1>5 DEF Bc, Uc
      <4>2. x \in Int /\ x > 0 /\ x =< Bc(k)
        BY <1>1, <1>10, <2>2, <4>1
      <4>3. CASE k = 1
        BY <4>1, <4>2, <4>3
      <4>4. CASE k = 2
        BY <4>1, <4>2, <4>4
      <4>5. CASE k = 3 /\ x =< Bc(2)
        BY <4>1, <4>2, <4>5
      <4>6. CASE k = 3 /\ Bc(2) < x
        BY <4>1, <4>2, <4>6
      <4> QED
        BY <4>1, <4>2, <4>3, <4>4, <4>5, <4>6
    <3> QED
      BY <3>1, <3>2
  <2> QED
    BY <1>1, <1>10, <2>1, <2>2
<1>12. ASSUME n < Len(P), n < Len(C) PROVE P[n + 1] # C[n + 1]
  <2>1. n + 1 \in 1 .. Len(P) /\ n + 1 \in 1 .. Len(C) /\ n + 1 = b + (offset + 1)
    BY <1>1, <1>10, <1>12
  <2>2. offset < Len(up) => P[n + 1] = <<SEGMENT_ORDER[k], up[offset + 1]>>
    <3>1. offset < Len(up) => offset + 1 \in 1 .. Len(up)
      BY <1>1, <1>10
    <3> QED
      BY <1>4, <1>10, <2>1, <3>1
  <2>3. offset < Len(uc) => C[n + 1] = <<SEGMENT_ORDER[k], uc[offset + 1]>>
    <3>1. offset < Len(uc) => offset + 1 \in 1 .. Len(uc)
      BY <1>1, <1>10
    <3> QED
      BY <1>5, <1>10, <2>1, <3>1
  <2>4. ~(offset < Len(up)) => P[n + 1][1] # SEGMENT_ORDER[k]
    <3>1. ~(offset < Len(up)) => Before(p, k) + Len(up) < n + 1
      BY <1>1, <1>10
    <3> QED
      BY <1>8, <2>1, <3>1
  <2>5. ~(offset < Len(uc)) => C[n + 1][1] # SEGMENT_ORDER[k]
    <3>1. ~(offset < Len(uc)) => b + Len(uc) < n + 1
      BY <1>1, <1>10
    <3> QED
      BY <1>8, <2>1, <3>1
  <2>6. offset < Len(up) \/ offset < Len(uc)
    <3> SUFFICES ASSUME Len(up) = offset, Len(uc) = offset PROVE FALSE
      BY <1>1, <1>10
    <3>1. up = uc
      BY <1>1, <1>3, ListsEqual
    <3> QED
      BY <1>2, <3>1
  <2> HIDE DEF up, uc, n
  <2>7. CASE offset < Len(up) /\ offset < Len(uc)
    BY <1>1, <2>2, <2>3, <2>7
  <2>8. CASE offset < Len(up) /\ ~(offset < Len(uc))
    BY <2>2, <2>5, <2>8
  <2>9. CASE offset < Len(uc) /\ ~(offset < Len(up))
    BY <2>3, <2>4, <2>9
  <2> QED
    BY <2>6, <2>7, <2>8, <2>9
<1>13. n \in Nat /\ n =< Len(P) /\ n =< Len(C)
  BY <1>1, <1>10
<1> HIDE DEF n
<1>14. Len(LongestCommonPrefix({P, C})) = n
  BY <1>3, <1>11, <1>12, <1>13, CommonLength
<1> QED
  BY <1>14 DEF P, C, n

(* What it takes for a segment not to be reported, of the request itself.     *)
LEMMA UnchangedMeans ==
  ASSUME NEW p, NEW c, WellShaped(p), WellShaped(c)
  PROVE  /\ Unchanged("tools", p, c) <=> p.tools = c.tools
         /\ Unchanged("system", p, c) <=> SystemText(p) = SystemText(c)
         /\ Unchanged("messages", p, c) <=> IsPrefix(p.messages, c.messages)
<1>1. /\ Units("tools", p) = ToolsUnits(p) /\ Units("tools", c) = ToolsUnits(c)
      /\ Units("system", p) = SystemUnits(p) /\ Units("system", c) = SystemUnits(c)
      /\ Units("messages", p) = MessageUnits(p) /\ Units("messages", c) = MessageUnits(c)
  BY UnitsAreLists
<1>2. Unchanged("tools", p, c) <=> p.tools = c.tools
  <2>1. Unchanged("tools", p, c) <=> ToolsUnits(p) = ToolsUnits(c)
    BY <1>1 DEF Unchanged, GROWTH_TOLERANT_SEGMENTS
  <2> QED
    BY <2>1, ToolsFromUnits
<1>3. Unchanged("system", p, c) <=> SystemText(p) = SystemText(c)
  <2>1. Unchanged("system", p, c) <=> SystemUnits(p) = SystemUnits(c)
    BY <1>1 DEF Unchanged, GROWTH_TOLERANT_SEGMENTS
  <2> QED
    BY <2>1, SystemFromUnits
<1>4. Unchanged("messages", p, c) <=> IsPrefix(p.messages, c.messages)
  <2> DEFINE up == MessageUnits(p)
             uc == MessageUnits(c)
  <2>1. IsListOf(up) /\ IsListOf(uc)
    BY RequestBlocks
  <2>2. Unchanged("messages", p, c) <=>
          up = uc \/ (Len(up) < Len(uc) /\ \A j \in 1 .. Len(up) : up[j] = uc[j])
    BY <1>1 DEF Unchanged, GROWTH_TOLERANT_SEGMENTS
  <2> HIDE DEF up, uc
  <2>3. Len(up) \in Nat /\ Len(uc) \in Nat
    BY <2>1, Lists
  <2>4. Starts(up, uc) /\ Len(up) = Len(uc) => up = uc
    BY <2>1, ListsEqual DEF Starts
  <2>5. Unchanged("messages", p, c) <=> Starts(up, uc)
    BY <2>2, <2>3, <2>4 DEF Starts
  <2> QED
    BY <2>5, MessagesFromUnits DEF up, uc
<1> QED
  BY <1>2, <1>3, <1>4

(* The segments of a request and what is behind each make up its prefix.      *)
LEMMA PrefixBehind ==
  ASSUME NEW c, WellShaped(c), NEW k \in 1 .. 3
  PROVE  /\ Before(c, k) \in Nat /\ Len(Units(SEGMENT_ORDER[k], c)) \in Nat
         /\ Behind(c)[SEGMENT_ORDER[k]] \in Nat
         /\ Before(c, k) + Len(Units(SEGMENT_ORDER[k], c)) + Behind(c)[SEGMENT_ORDER[k]]
              = Len(Prefix(c))
<1> DEFINE t == Len(Units("tools", c))
           s == Len(Units("system", c))
           m == Len(Units("messages", c))
           n == Len(Prefix(c))
<1>1. /\ t \in Nat /\ s \in Nat /\ m \in Nat
      /\ Before(c, 1) = 0 /\ Before(c, 2) = Before(c, 1) + t /\ Before(c, 3) = Before(c, 2) + s
      /\ n = Before(c, 3) + m
  BY PrefixIs, Order
<1>2. Behind(c) = [tools |-> s + m, system |-> m, messages |-> 0]
  BY DEF Behind
<1>3. SEGMENT_ORDER[1] = "tools" /\ SEGMENT_ORDER[2] = "system" /\ SEGMENT_ORDER[3] = "messages"
  BY Order
<1> HIDE DEF t, s, m, n
<1>4. Before(c, 1) = 0 /\ Before(c, 2) = t /\ Before(c, 3) = t + s /\ n = t + s + m
  BY <1>1
<1>5. CASE k = 1
  BY <1>1, <1>2, <1>3, <1>4, <1>5 DEF t, n
<1>6. CASE k = 2
  BY <1>1, <1>2, <1>3, <1>4, <1>6 DEF s, n
<1>7. CASE k = 3
  BY <1>1, <1>2, <1>3, <1>4, <1>7 DEF m, n
<1> QED
  BY <1>5, <1>6, <1>7

(* What a report finds of two requests: that nothing changed, or which part   *)
(* changed first, where the prefixes part, and what is behind that place.     *)
FindsTheChange(p, c, report) ==
  LET common == Len(LongestCommonPrefix({Prefix(p), Prefix(c)}))
  IN /\ report.kind = "none" <=> OnlyAppended(p, c)
     /\ report.kind = "model_changed" <=> p.model # c.model
     /\ report.kind = "tool_choice_changed" <=>
          p.model = c.model /\ p.tool_choice # c.tool_choice
     /\ SameControls(p, c) /\ ~OnlyAppended(p, c) =>
          \E k \in 1 .. 3 :
            /\ report.kind = KindForSegment[SEGMENT_ORDER[k]]
            /\ SEGMENT_ORDER[k] = IF p.tools # c.tools THEN "tools"
                                  ELSE IF SystemText(p) # SystemText(c) THEN "system"
                                  ELSE "messages"
            /\ report.segment_offset = common - Before(c, k)
            /\ report.cache_missed_units = Len(Prefix(c)) - common
            /\ common \in Nat

(* What compare reports of two requests of any length is exactly what changed *)
(* between them: nothing if nothing changed but that messages were appended;  *)
(* otherwise the model, or the tool choice, or the first of tools, system and *)
(* messages that differs, with the place where the prefixes a provider reads  *)
(* part and what the later one has from there.  No two requests look alike    *)
(* for their units: a blank moved, a text cut elsewhere or a message split in *)
(* two is told (divergence.py:60-126, tokenize.py:24-30,                      *)
(* fingerprint.py:85-114).                                                    *)
THEOREM CompareIsExact ==
  ASSUME NEW key, NEW p, NEW c, WellShaped(p), WellShaped(c),
         <<key, p.tool_choice>> # None, <<key, c.tool_choice>> # None,
         NEW report, report = Compare(FingerprintRequest(p, key), FingerprintRequest(c, key))
  PROVE  FindsTheChange(p, c, report)
<1> DEFINE U == UNION {ToSet(Units(kind, r)) : kind \in ToSet(SEGMENT_ORDER), r \in {p, c}}
           common == Len(LongestCommonPrefix({Prefix(p), Prefix(c)}))
<1>1. HasUnits(p, U) /\ HasUnits(c, U)
  <2>1. ASSUME NEW r \in {p, c}, NEW kind \in ToSet(SEGMENT_ORDER)
        PROVE  Units(kind, r) \in Seq(U)
    <3>1. ToSet(Units(kind, r)) \subseteq U
      OBVIOUS
    <3>2. IsListOf(Units(kind, r))
      BY UnitsAreLists, Order
    <3> HIDE DEF U
    <3> QED
      BY <3>1, <3>2, Lists
  <2> HIDE DEF U
  <2> QED
    BY <2>1 DEF HasUnits
<1> HIDE DEF U
<1>2. /\ report.kind \in {"none", "model_changed", "tool_choice_changed"}
                           \cup {KindForSegment[SEGMENT_ORDER[k]] : k \in 1 .. 3}
      /\ report.kind = "none" <=>
           /\ SameControls(p, c)
           /\ \A kind \in ToSet(SEGMENT_ORDER) : Unchanged(kind, p, c)
      /\ report.kind = "model_changed" <=> p.model # c.model
      /\ report.kind = "tool_choice_changed" <=>
           p.model = c.model /\ p.tool_choice # c.tool_choice
      /\ \A k \in 1 .. 3 :
           report.kind = KindForSegment[SEGMENT_ORDER[k]] =>
             /\ ~Unchanged(SEGMENT_ORDER[k], p, c)
             /\ \A i \in 1 .. k - 1 : Units(SEGMENT_ORDER[i], p) = Units(SEGMENT_ORDER[i], c)
             /\ ChangesAt(SEGMENT_ORDER[k], p, c, report.segment_offset)
             /\ report.cache_missed_units =
                  Len(Units(SEGMENT_ORDER[k], c)) - report.segment_offset
                    + Behind(c)[SEGMENT_ORDER[k]]
  BY <1>1, CompareFindsFirstChange
<1>3. report.kind = "none" <=> OnlyAppended(p, c)
  BY <1>2, UnchangedMeans, Order DEF OnlyAppended, SameControls
<1>4. ASSUME SameControls(p, c), ~OnlyAppended(p, c)
      PROVE  \E k \in 1 .. 3 :
               /\ report.kind = KindForSegment[SEGMENT_ORDER[k]]
               /\ SEGMENT_ORDER[k] = IF p.tools # c.tools THEN "tools"
                                     ELSE IF SystemText(p) # SystemText(c) THEN "system"
                                     ELSE "messages"
               /\ report.segment_offset = common - Before(c, k)
               /\ report.cache_missed_units = Len(Prefix(c)) - common
               /\ common \in Nat
  <2>1. PICK k \in 1 .. 3 : report.kind = KindForSegment[SEGMENT_ORDER[k]]
    BY <1>2, <1>3, <1>4 DEF SameControls
  <2> DEFINE offset == report.segment_offset
  <2>2. /\ ~Unchanged(SEGMENT_ORDER[k], p, c)
        /\ \A i \in 1 .. k - 1 : Units(SEGMENT_ORDER[i], p) = Units(SEGMENT_ORDER[i], c)
        /\ ChangesAt(SEGMENT_ORDER[k], p, c, offset)
        /\ report.cache_missed_units =
             Len(Units(SEGMENT_ORDER[k], c)) - offset + Behind(c)[SEGMENT_ORDER[k]]
    BY <1>2, <2>1
  <2>3. SEGMENT_ORDER[k] = IF p.tools # c.tools THEN "tools"
                           ELSE IF SystemText(p) # SystemText(c) THEN "system"
                           ELSE "messages"
    <3>1. Unchanged("tools", p, c) <=> p.tools = c.tools
      BY UnchangedMeans
    <3>2. Unchanged("system", p, c) <=> SystemText(p) = SystemText(c)
      BY UnchangedMeans
    <3>3. \A kind : Units(kind, p) = Units(kind, c) => Unchanged(kind, p, c)
      BY DEF Unchanged
    <3>4. (k > 1 => Unchanged("tools", p, c)) /\ (k > 2 => Unchanged("system", p, c))
      <4>1. k > 1 => 1 \in 1 .. k - 1
        OBVIOUS
      <4>2. k > 2 => 2 \in 1 .. k - 1
        OBVIOUS
      <4> QED
        BY <2>2, <3>3, <4>1, <4>2, Order
    <3>5. CASE k = 1
      BY <2>2, <3>1, <3>5, Order
    <3>6. CASE k = 2
      BY <2>2, <3>1, <3>2, <3>4, <3>6, Order
    <3>7. CASE k = 3
      BY <3>1, <3>2, <3>4, <3>7, Order
    <3> QED
      BY <3>5, <3>6, <3>7
  <2> HIDE DEF offset
  <2>4. common = Before(c, k) + offset
    <3>1. \A i \in 1 .. k - 1 : Units(SEGMENT_ORDER[i], p) = Units(SEGMENT_ORDER[i], c)
      BY <2>2
    <3>2. ChangesAt(SEGMENT_ORDER[k], p, c, offset) /\ ~Unchanged(SEGMENT_ORDER[k], p, c)
      BY <2>2
    <3> QED
      BY <3>1, <3>2, PrefixesPart, Zenon
  <2>5. offset \in Nat
    BY <2>2 DEF ChangesAt
  <2>6. /\ Before(c, k) \in Nat /\ Len(Units(SEGMENT_ORDER[k], c)) \in Nat
        /\ Behind(c)[SEGMENT_ORDER[k]] \in Nat
        /\ Before(c, k) + Len(Units(SEGMENT_ORDER[k], c)) + Behind(c)[SEGMENT_ORDER[k]]
             = Len(Prefix(c))
    BY PrefixBehind
  <2> HIDE DEF common
  <2>7. offset = common - Before(c, k) /\ report.cache_missed_units = Len(Prefix(c)) - common
        /\ common \in Nat
    <3> DEFINE b == Before(c, k)
               u == Len(Units(SEGMENT_ORDER[k], c))
               h == Behind(c)[SEGMENT_ORDER[k]]
               n == Len(Prefix(c))
    <3>1. /\ common = b + offset /\ offset \in Nat /\ b \in Nat /\ u \in Nat /\ h \in Nat
          /\ n = b + u + h /\ report.cache_missed_units = u - offset + h
      BY <2>2, <2>4, <2>5, <2>6
    <3> HIDE DEF b, u, h, n
    <3>2. offset = common - b /\ report.cache_missed_units = n - common /\ common \in Nat
      BY <3>1
    <3> QED
      BY <3>2 DEF b, n
  <2> QED
    BY <2>1, <2>3, <2>7 DEF offset
<1> QED
  BY <1>2, <1>3, <1>4 DEF FindsTheChange
=============================================================================
