--------------------------- MODULE ScanLookupProofs ---------------------------
(***************************************************************************)
(* Proofs about ScanLookup: whichever way the records are gone through, the *)
(* result is exact with respect to the data as they were read, for every   *)
(* data set, group file, R-tree and dual transformation.                   *)
(***************************************************************************)
EXTENDS ScanLookup, TopKProofs

\* Similarities of the records the join works on.
DataSim(q, id) == Sim(Size(q), Size(id), Cardinality(data[q] \cap data[id]))

SetupInv ==
  /\ algorithm \in {"baseline", "baselinepp", "les3", "transformation"}
  /\ IsDataset(data)
  /\ \A q, id \in Ids : TrueSim(q, id) = DataSim(q, id)
  /\ algorithm = "baselinepp" => SortedBySize(data)
  /\ algorithm = "les3" /\ pc \notin {"load", "failed"} => GroupFileIsValid
  /\ algorithm = "transformation" =>
       /\ \A n \in {1, 2}, id \in Ids : \A t \in data[id] : tree.dual[n][t] \in GroupIds
       /\ IsTree(tree.levels, Ids)
       /\ tree.levels \in Seq(SUBSET SUBSET Ids)

-------------------------------------------------------------------------------
(* The set-up. *)

\* An injection keeps the size of a set.
LEMMA ImageIsAsLarge ==
  ASSUME NEW A, NEW B, NEW f \in Injection(A, B), NEW S, S \subseteq A, IsFiniteSet(S),
         NEW image, image = {f[t] : t \in S}
  PROVE  /\ IsFiniteSet(image)
         /\ Cardinality(image) = Cardinality(S)
<1> DEFINE g == [t \in S |-> f[t]]
<1>1. g \in Surjection(S, image) /\ g \in Injection(S, image)
  BY DEF Surjection, Injection, IsInjective
<1> HIDE DEF g
<1> QED
  BY <1>1, FS_Surjection

\* Relabeled tokens and reordered records have the sizes and overlaps of the original.
LEMMA PreprocessingKeepsOverlaps ==
  ASSUME NEW records, IsDataset(records),
         NEW relabel, relabel \in Relabelings(records),
         NEW order, order \in SizeOrders(records),
         NEW new, new = Relabeled(records, relabel, order)
  PROVE  /\ IsDataset(new)
         /\ RecordIds(new) = RecordIds(records)
         /\ SortedBySize(new)
         /\ \A q, id \in RecordIds(records) :
              /\ order[q] \in RecordIds(records)
              /\ Cardinality(new[q]) = Cardinality(records[order[q]])
              /\ Cardinality(new[q] \cap new[id])
                   = Cardinality(records[order[q]] \cap records[order[id]])
<1> DEFINE R == RecordIds(records)
           T == UsedTokens(records)
           Labels == 0 .. (Cardinality(T) - 1)
<1>1. /\ relabel \in Injection(T, Labels)
      /\ order \in [R -> R]
  BY DEF Relabelings, SizeOrders, Bijection, Injection
<1>2. RecordIds(new) = R
  BY DEF Relabeled, RecordIds
<1>3. \A q \in R : /\ order[q] \in R
                   /\ new[q] = {relabel[t] : t \in records[order[q]]}
                   /\ records[order[q]] \subseteq T
                   /\ records[order[q]] # {}
                   /\ IsFiniteSet(records[order[q]])
  BY <1>1 DEF Relabeled, IsDataset, UsedTokens
<1>4. \A q \in R : /\ IsFiniteSet(new[q])
                   /\ Cardinality(new[q]) = Cardinality(records[order[q]])
  BY <1>1, <1>3, ImageIsAsLarge
<1>5. ASSUME NEW q \in R, NEW id \in R
      PROVE  Cardinality(new[q] \cap new[id])
               = Cardinality(records[order[q]] \cap records[order[id]])
  <2> DEFINE common == records[order[q]] \cap records[order[id]]
  <2>1. new[q] \cap new[id] = {relabel[t] : t \in common}
    <3>1. \A t, u \in T : relabel[t] = relabel[u] => t = u
      BY <1>1 DEF Injection, IsInjective
    <3> QED
      BY <1>3, <3>1
  <2>2. common \subseteq T /\ IsFiniteSet(common)
    BY <1>3, FS_Intersection
  <2> QED
    BY <1>1, <2>1, <2>2, ImageIsAsLarge
<1>6. SortedBySize(new)
  BY <1>2, <1>4 DEF SortedBySize, SizeOrders
<1>7. IsDataset(new)
  <2>1. \A q \in R : new[q] # {} /\ new[q] \subseteq Nat
    <3>1. \A t \in T : relabel[t] \in Nat
      BY <1>1 DEF Injection
    <3> QED
      BY <1>3, <3>1
  <2> QED
    BY <1>2, <1>4, <2>1 DEF IsDataset
<1> QED
  BY <1>2, <1>3, <1>4, <1>5, <1>6, <1>7

LEMMA InitSetup == Init => SetupInv
<1> SUFFICES ASSUME Init
             PROVE  SetupInv
  OBVIOUS
<1>1. PICK input \in Inputs(raw) : data = input.data /\ origin = input.origin
  BY DEF Init
<1>2. IsDataset(raw) /\ raw \in Datasets /\ algorithm \in Algorithms
  BY ScanAssumption DEF Init, ScanAssumption
<1>3. /\ IsDataset(data) /\ Ids = RecordIds(raw)
      /\ \A q, id \in Ids : TrueSim(q, id) = DataSim(q, id)
      /\ algorithm = "baselinepp" => SortedBySize(data)
  <2>1. CASE input \in Loaded(raw) /\ (algorithm = "baselinepp" => SortedBySize(input.data))
    <3>1. data = raw /\ origin = [id \in RecordIds(raw) |-> id]
      BY <1>1, <2>1 DEF Loaded
    <3> QED
      BY <1>1, <1>2, <2>1, <3>1 DEF TrueSim, DataSim, Size, Ids, RecordIds
  <2>2. CASE input \in Preprocessed(raw)
    <3>1. PICK relabel \in Relabelings(raw), order \in SizeOrders(raw) :
            data = Relabeled(raw, relabel, order) /\ origin = order
      BY <1>1, <2>2 DEF Preprocessed
    <3>. IsDataset(raw)
      BY <1>2
    <3>. data = Relabeled(raw, relabel, order)
      BY <3>1
    <3>2. /\ IsDataset(data) /\ RecordIds(data) = RecordIds(raw) /\ SortedBySize(data)
          /\ \A q, id \in RecordIds(raw) :
               /\ Cardinality(data[q]) = Cardinality(raw[order[q]])
               /\ Cardinality(data[q] \cap data[id])
                    = Cardinality(raw[order[q]] \cap raw[order[id]])
      BY ONLY IsDataset(raw), relabel \in Relabelings(raw), order \in SizeOrders(raw),
              data = Relabeled(raw, relabel, order), PreprocessingKeepsOverlaps
    <3> QED
      BY <3>1, <3>2 DEF TrueSim, DataSim, Size, Ids, RecordIds
  <2> QED
    BY <1>1, <2>1, <2>2 DEF Inputs
<1>4. algorithm = "les3" /\ pc \notin {"load", "failed"} => GroupFileIsValid
  BY DEF Init
<1>5. ASSUME algorithm = "transformation"
      PROVE  /\ \A n \in {1, 2}, id \in Ids : \A t \in data[id] : tree.dual[n][t] \in GroupIds
             /\ IsTree(tree.levels, Ids)
             /\ tree.levels \in Seq(SUBSET SUBSET Ids)
  <2>1. /\ tree.dual \in DualTransformations(Frequency(data))
        /\ tree.levels \in Trees(Cardinality(RecordIds(raw)))
    BY <1>5 DEF Init
  <2>2. IsTree(tree.levels, Ids) /\ tree.levels \in Seq(SUBSET SUBSET Ids)
    BY <1>2, <1>3, <2>1, ScanAssumption DEF ScanAssumption
  <2>3. \A id \in Ids : \A t \in data[id] : t \in DOMAIN Frequency(data)
    BY <1>3, LargestToken DEF Ids, RecordIds, Frequency
  <2> QED
    BY <2>1, <2>2, <2>3, TransformationsAreTotal
<1>6. algorithm \in {"baseline", "baselinepp", "les3", "transformation"}
  BY <1>2, ScanAssumption DEF ScanAssumption
<1> QED
  BY <1>3, <1>4, <1>5, <1>6 DEF SetupInv

-------------------------------------------------------------------------------
(* The inductive invariant. *)

\* Records a query has yet to read besides those of the group being scanned.
Unread ==
  CASE algorithm = "baseline"       -> {}
    [] algorithm = "baselinepp"     -> {id \in Ids : id <= left \/ id >= right}
    [] algorithm = "les3"           -> UNION {lines[g] : g \in open}
    [] algorithm = "transformation" -> UNION {b.ids : b \in open}

Ahead(q) == IF q \in active THEN rest \cup Unread ELSE {}

Entry(q, id) == [id |-> id, sim |-> DataSim(q, id)]

\* Exactly the records that are not ahead of a query were compared with it or left out
\* for a reason: they are in its heap or settled.
QueryInv(q) ==
  /\ IsHeap(heaps[q], K)
  /\ \A e \in heaps[q] : \E id \in Ids \ Ahead(q) : e = Entry(q, id)
  /\ \A id \in Ids \ Ahead(q) : Entry(q, id) \in heaps[q] \/ Settled(heaps[q], K, DataSim(q, id))

\* baselinepp: left and right are next to whole runs of records of one size.
SizesInv ==
  /\ left \in Int /\ right \in Int
  /\ \A q \in batch : left < q /\ q < right
  /\ \A p, q \in batch : Size(p) = Size(q)
  /\ left \in Ids => \A id \in Ids : left < id => Size(left) < Size(id)
  /\ right \in Ids => \A id \in Ids : id < right => Size(id) < Size(right)

\* transformation: the nodes in the queue are nodes of the tree and share no record.
NodesInv ==
  /\ \A b \in open : /\ b.level \in 0 .. (Len(tree.levels) - 1)
                     /\ b.ids \in tree.levels[b.level + 1]
  /\ \A b, c \in open : b # c => b.ids \cap c.ids = {}

ScanInv ==
  /\ batch \subseteq Ids
  /\ active \subseteq batch
  /\ DOMAIN heaps = batch
  /\ rest \subseteq Ids
  /\ rest \cap Unread = {}
  /\ pc = "choose" => rest = {}
  /\ algorithm = "baselinepp" => SizesInv
  /\ algorithm = "les3" => open \subseteq Groups
  /\ algorithm = "transformation" => NodesInv
  /\ algorithm \in {"les3", "transformation"} => \E q \in Ids : batch = {q}
  /\ \A q \in batch : QueryInv(q)

IInv ==
  /\ SetupInv
  /\ pc \in {"load", "failed", "idle", "scan", "choose"}
  /\ pc \in {"scan", "choose"} => ScanInv

-------------------------------------------------------------------------------
(* Records and their similarities. *)
LEMMA IdsAreRange ==
  ASSUME SetupInv
  PROVE  /\ IsFiniteSet(Ids)
         /\ Cardinality(Ids) \in Nat
         /\ Ids = 0 .. (Cardinality(Ids) - 1)
<1>1. IsFiniteSet(Ids) /\ Ids = 0 .. (Cardinality(Ids) - 1)
  BY DEF SetupInv, IsDataset, RecordIds, Ids
<1> QED
  BY <1>1, FS_CardinalityType

LEMMA RecordFacts ==
  ASSUME SetupInv, NEW q \in Ids, NEW id \in Ids
  PROVE  /\ IsFiniteSet(data[q]) /\ data[q] \subseteq Int /\ data[q] # {}
         /\ Size(q) \in Nat \ {0}
         /\ Cardinality(data[q] \cap data[id]) \in Nat
         /\ Cardinality(data[q] \cap data[id]) <= Size(q)
         /\ Cardinality(data[q] \cap data[id]) <= Size(id)
         /\ DataSim(q, id) \in Fraction
         /\ 0 <= DataSim(q, id).num
         /\ q \in Int
<1>a. Ids \subseteq Int
  BY IdsAreRange
<1>b. \A r \in Ids : IsFiniteSet(data[r]) /\ data[r] \subseteq Nat /\ data[r] # {}
  BY DEF SetupInv, IsDataset, RecordIds, Ids
<1>1. \A r \in Ids : /\ IsFiniteSet(data[r]) /\ data[r] \subseteq Int /\ data[r] # {}
                     /\ r \in Int
  BY <1>a, <1>b
<1>2. \A r \in Ids : Size(r) \in Nat \ {0}
  BY <1>1, FS_CardinalityType, FS_EmptySet DEF Size
<1>3. /\ Cardinality(data[q] \cap data[id]) \in Nat
      /\ Cardinality(data[q] \cap data[id]) <= Size(q)
      /\ Cardinality(data[q] \cap data[id]) <= Size(id)
  BY <1>1, FS_Intersection, FS_CardinalityType DEF Size
<1> DEFINE o == Cardinality(data[q] \cap data[id])
<1>4. Sim(Size(q), Size(id), o) \in Fraction
  <2> HIDE DEF o
  <2> QED
    BY <1>2, <1>3, SimIsFraction DEF o
<1>5. DataSim(q, id) = Sim(Size(q), Size(id), o) /\ DataSim(q, id).num = o
  BY DEF DataSim, Sim
<1> QED
  BY <1>1, <1>2, <1>3, <1>4, <1>5

LEMMA ComparedIsComparison ==
  ASSUME SetupInv, NEW q \in Ids, NEW id \in Ids, IsHeap(heaps[q], K),
         NEW after \in Compared(q, id)
  PROVE  IsComparison(heaps[q], K, Entry(q, id), after)
<1> DEFINE h == heaps[q]
           t == Threshold(q)
           o == Cardinality(data[q] \cap data[id])
           sim == DataSim(q, id)
<1>1. PICK needed \in Eqo(Size(q), Size(id), t) :
        LET overlap == FalsifyOrCompute(data[q], data[id], needed)
            entry == [id |-> id, sim |-> Sim(Size(q), Size(id), overlap)]
        IN after \in IF IsHopeless(q, id, needed) \/ ~IsResult(overlap) THEN {h}
                     ELSE IF algorithm = "transformation" THEN Stored(h, K, entry)
                     ELSE Pushed(h, K, entry)
  BY DEF Compared
<1> DEFINE overlap == FalsifyOrCompute(data[q], data[id], needed)
<1>2. /\ IsFiniteSet(data[q]) /\ IsFiniteSet(data[id])
      /\ data[q] \subseteq Int /\ data[id] \subseteq Int /\ data[id] # {}
  BY RecordFacts
<1>3. K \in Nat \ {0}
  BY ScanAssumption DEF ScanAssumption
<1>4. /\ o \in Nat /\ needed \in Int
      /\ sim \in Fraction /\ sim.num = o
      /\ overlap \in {o, -1}
      /\ overlap = o => AtMost(t, sim)
      /\ overlap = -1 => Settled(h, K, sim)
      /\ o < needed => Settled(h, K, sim)
      /\ o = 0 => Settled(h, K, sim)
  <2>1. t = HeapThreshold(h, K)
    BY DEF Threshold
  <2>2. needed \in Eqo(Cardinality(data[q]), Cardinality(data[id]), t)
    BY DEF Size
  <2>3. sim = Sim(Cardinality(data[q]), Cardinality(data[id]), o)
    BY DEF DataSim, Size
  <2>4. o = Cardinality(data[q] \cap data[id]) /\ IsHeap(h, K)
    OBVIOUS
  <2> HIDE DEF t, o, sim, h
  <2> QED
    BY ONLY <1>2, <1>3, <2>1, <2>2, <2>3, <2>4, ComparisonIsSound
<1>5. CASE IsHopeless(q, id, needed)
  <2>1. o <= MaxOverlap(Point(q), Point(id)) /\ MaxOverlap(Point(q), Point(id)) \in Nat
    <3>1. \A n \in {1, 2} : \A u \in data[q] \cup data[id] : tree.dual[n][u] \in GroupIds
      BY <1>5 DEF SetupInv, IsHopeless
    <3> QED
      BY <1>2, <3>1, MaxOverlapIsBound DEF Point
  <2>2. MaxOverlap(Point(q), Point(id)) < needed
    BY <1>5 DEF IsHopeless
  <2>3. Settled(h, K, sim)
    BY <1>4, <2>1, <2>2
  <2> QED
    BY <1>1, <1>5, <2>3 DEF IsComparison, Entry
<1>6. CASE ~IsHopeless(q, id, needed) /\ ~IsResult(overlap)
  <2>1. overlap = -1 \/ overlap = 0
    BY <1>4, <1>6 DEF IsResult
  <2>2. Settled(h, K, sim)
    BY <1>4, <2>1
  <2> QED
    BY <1>1, <1>6, <2>2 DEF IsComparison, Entry
<1>7. CASE ~IsHopeless(q, id, needed) /\ IsResult(overlap)
  <2>1. overlap = o
    BY <1>4, <1>7 DEF IsResult
  <2>2. Entry(q, id) = [id |-> id, sim |-> Sim(Size(q), Size(id), overlap)]
    BY <2>1 DEF Entry, DataSim
  <2>3. AtMost(t, sim)
    BY <1>4, <2>1
  <2>4. IF algorithm = "transformation" THEN after \in Stored(h, K, Entry(q, id))
                                        ELSE after \in Pushed(h, K, Entry(q, id))
    BY <1>1, <1>7, <2>2
  <2>5. CASE after \in Pushed(h, K, Entry(q, id))
    BY <2>3, <2>5 DEF IsComparison, Entry, Threshold
  <2>6. CASE after = h /\ ~(Cardinality(h) < K) /\ ~Less(t, sim)
    <3>1. t \in Fraction
      BY <1>3, ThresholdIsLeast DEF Threshold
    <3>2. AtMost(sim, t)
      BY <1>4, <2>6, <3>1, AtMostTotal
    <3> QED
      BY <2>6, <3>2 DEF IsComparison, Entry, Settled, Threshold
  <2> QED
    BY <2>4, <2>5, <2>6 DEF Stored, Entry, Threshold
<1> QED
  BY <1>5, <1>6, <1>7

-------------------------------------------------------------------------------
(* The bounds the algorithms go by. *)

\* What a bound does not put above the threshold is settled.
LEMMA BoundSettles ==
  ASSUME NEW heap, IsHeap(heap, K), NEW sim \in Fraction, NEW ub \in Fraction,
         AtMost(sim, ub), AtMost(ub, HeapThreshold(heap, K))
  PROVE  Settled(heap, K, sim)
<1>1. K \in Nat \ {0}
  BY ScanAssumption DEF ScanAssumption
<1>2. /\ HeapThreshold(heap, K) \in Fraction
      /\ Cardinality(heap) < K => HeapThreshold(heap, K) = Zero
  BY <1>1, ThresholdIsLeast
<1>3. AtMost(sim, HeapThreshold(heap, K))
  BY <1>2, AtMostTransitive
<1> QED
  BY <1>2, <1>3, AtMostZero DEF Settled

\* o / (r + s - o) is at most p / d for p >= o and d <= r + s - o.
LEMMA LargerFraction ==
  ASSUME NEW o \in Nat, NEW u \in Nat, o <= u, NEW p \in Nat, NEW d \in Nat, o <= p, d <= u
  PROVE  o * d <= p * u
<1>1. o * d <= o * u
  OBVIOUS
<1>2. o * u <= p * u
  OBVIOUS
<1>3. o * d \in Int /\ o * u \in Int /\ p * u \in Int
  OBVIOUS
<1> QED
  BY <1>1, <1>2, <1>3

\* baselinepp: a size bounds the records of that size and those further away.
LEMMA SizeIsBound ==
  ASSUME NEW r \in Nat \ {0}, NEW s \in Nat \ {0}, NEW x \in Nat \ {0},
         NEW o \in Nat, o <= r, o <= x, (s <= r /\ x <= s) \/ (r <= s /\ s <= x)
  PROVE  /\ SimUb(r, s, 0, 0) \in Fraction
         /\ 0 <= SimUb(r, s, 0, 0).num
         /\ AtMost(Sim(r, x, o), SimUb(r, s, 0, 0))
<1>1. CASE s <= r /\ x <= s
  <2>1. SimUb(r, s, 0, 0) = [num |-> s, den |-> r]
    BY <1>1 DEF SimUb, Sim, Smaller
  <2>2. r <= r + x - o /\ o <= s /\ r + x - o \in Nat /\ o <= r + x - o
    BY <1>1
  <2>3. o * r <= s * (r + x - o)
    BY <2>2, LargerFraction
  <2> QED
    BY <2>1, <2>3 DEF Fraction, AtMost, Sim
<1>2. CASE r <= s /\ s <= x
  <2>1. SimUb(r, s, 0, 0) = [num |-> r, den |-> s]
    BY <1>2 DEF SimUb, Sim, Smaller
  <2>2. s <= r + x - o /\ o <= r /\ r + x - o \in Nat /\ o <= r + x - o
    BY <1>2
  <2>3. o * s <= r * (r + x - o)
    BY <2>2, LargerFraction
  <2> QED
    BY <2>1, <2>3 DEF Fraction, AtMost, Sim
<1> QED
  BY <1>1, <1>2

LEMMA SideIsBound ==
  ASSUME SetupInv, algorithm = "baselinepp", SizesInv, batch \subseteq Ids,
         NEW q \in batch, NEW id \in Ids
  PROVE  /\ LeftUb \in Fraction /\ RightUb \in Fraction
         /\ IF left \in Ids THEN 0 <= LeftUb.num ELSE LeftUb = NoRecord
         /\ IF right \in Ids THEN 0 <= RightUb.num ELSE RightUb = NoRecord
         /\ id <= left => left \in Ids /\ AtMost(DataSim(q, id), LeftUb)
         /\ id >= right => right \in Ids /\ AtMost(DataSim(q, id), RightUb)
<1> DEFINE p == CHOOSE p \in batch : TRUE
<1>1. p \in batch /\ Size(p) = Size(q)
  BY DEF SizesInv
<1>2. NoRecord \in Fraction
  BY DEF NoRecord, Fraction
<1>3. \A r \in Ids : Size(r) \in Nat \ {0} /\ r \in Int
  BY RecordFacts
<1>4. \A r, s \in Ids : r < s => Size(r) <= Size(s)
  BY DEF SetupInv, SortedBySize, RecordIds, Ids, Size
<1>5. \A a, b, x \in Int : a \in Ids /\ b \in Ids /\ a <= x /\ x <= b => x \in Ids
  BY IdsAreRange
<1>6. /\ left \in Int /\ right \in Int /\ left < q /\ q < right
      /\ left \in Ids => Size(left) <= Size(q)
      /\ right \in Ids => Size(q) <= Size(right)
  BY <1>3, <1>4 DEF SizesInv
<1>7. /\ LeftUb = IF left \in Ids THEN SimUb(Size(q), Size(left), 0, 0) ELSE NoRecord
      /\ RightUb = IF right \in Ids THEN SimUb(Size(q), Size(right), 0, 0) ELSE NoRecord
  BY <1>1 DEF LeftUb, RightUb, SizeUb
<1>8. /\ LeftUb \in Fraction /\ RightUb \in Fraction
      /\ left \in Ids => 0 <= LeftUb.num
      /\ right \in Ids => 0 <= RightUb.num
  <2>1. ASSUME left \in Ids
        PROVE  /\ SimUb(Size(q), Size(left), 0, 0) \in Fraction
               /\ 0 <= SimUb(Size(q), Size(left), 0, 0).num
    BY <1>3, <1>6, <2>1, SizeIsBound
  <2>2. ASSUME right \in Ids
        PROVE  /\ SimUb(Size(q), Size(right), 0, 0) \in Fraction
               /\ 0 <= SimUb(Size(q), Size(right), 0, 0).num
    <3>1. 0 \in Nat /\ 0 <= Size(q) /\ 0 <= Size(right)
      BY <1>3, <2>2
    <3> QED
      BY <1>3, <1>6, <2>2, <3>1, SizeIsBound
  <2> QED
    BY <1>2, <1>7, <2>1, <2>2
<1>9. DataSim(q, id) = Sim(Size(q), Size(id), Cardinality(data[q] \cap data[id]))
  BY DEF DataSim
<1>10. /\ Cardinality(data[q] \cap data[id]) \in Nat
       /\ Cardinality(data[q] \cap data[id]) <= Size(q)
       /\ Cardinality(data[q] \cap data[id]) <= Size(id)
  BY RecordFacts
<1>11. ASSUME id <= left
       PROVE  left \in Ids /\ AtMost(DataSim(q, id), LeftUb)
  <2>1. left \in Ids
    BY <1>3, <1>5, <1>6, <1>11
  <2>2. Size(id) <= Size(left)
    BY <1>3, <1>4, <1>6, <1>11, <2>1
  <2>3. Size(left) \in Nat \ {0} /\ Size(q) \in Nat \ {0} /\ Size(id) \in Nat \ {0}
    BY <1>3, <2>1
  <2>4. AtMost(DataSim(q, id), SimUb(Size(q), Size(left), 0, 0))
    BY <1>6, <1>9, <1>10, <2>1, <2>2, <2>3, SizeIsBound
  <2> QED
    BY <1>7, <2>1, <2>4
<1>12. ASSUME id >= right
       PROVE  right \in Ids /\ AtMost(DataSim(q, id), RightUb)
  <2>1. right \in Ids
    BY <1>3, <1>5, <1>6, <1>12
  <2>2. Size(right) <= Size(id)
    BY <1>3, <1>4, <1>6, <1>12, <2>1
  <2>3. Size(right) \in Nat \ {0} /\ Size(q) \in Nat \ {0} /\ Size(id) \in Nat \ {0}
    BY <1>3, <2>1
  <2>4. AtMost(DataSim(q, id), SimUb(Size(q), Size(right), 0, 0))
    BY <1>6, <1>9, <1>10, <2>1, <2>2, <2>3, SizeIsBound
  <2> QED
    BY <1>7, <2>1, <2>4
<1> QED
  BY <1>7, <1>8, <1>11, <1>12

\* les3: the tokens that occur in a group bound its records.
LEMMA GroupIsBound ==
  ASSUME SetupInv, NEW q \in Ids, batch = {q}, NEW g, NEW id \in lines[g], id \in Ids
  PROVE  GroupUb(g) \in Fraction /\ AtMost(DataSim(q, id), GroupUb(g))
<1>1. Query = q
  BY DEF Query
<1> DEFINE common == data[q] \cap data[id]
           covered == data[q] \cap GroupTokens(g)
<1>2. /\ Size(q) \in Nat \ {0} /\ Size(id) \in Nat \ {0}
      /\ Cardinality(common) \in Nat
      /\ Cardinality(common) <= Size(q) /\ Cardinality(common) <= Size(id)
      /\ IsFiniteSet(data[q])
  BY RecordFacts
<1>3. common \subseteq covered /\ IsFiniteSet(covered)
  BY <1>2, FS_Intersection DEF GroupTokens
<1>4. Cardinality(covered) \in Nat /\ Cardinality(common) <= Cardinality(covered)
  BY <1>3, FS_Subset, FS_CardinalityType
<1>5. GroupUb(g) = [num |-> Cardinality(covered), den |-> Size(q)]
  BY <1>1 DEF GroupUb
<1>6. DataSim(q, id) = Sim(Size(q), Size(id), Cardinality(common))
  BY DEF DataSim
<1> HIDE DEF common, covered
<1>7. Cardinality(common) * Size(q)
        <= Cardinality(covered) * (Size(q) + Size(id) - Cardinality(common))
  <2>1. /\ Size(q) + Size(id) - Cardinality(common) \in Nat
        /\ Size(q) <= Size(q) + Size(id) - Cardinality(common)
        /\ Cardinality(common) <= Size(q) + Size(id) - Cardinality(common)
        /\ Size(q) \in Nat
    BY <1>2
  <2> QED
    BY <1>2, <1>4, <2>1, LargerFraction
<1> QED
  BY <1>2, <1>4, <1>5, <1>6, <1>7 DEF Fraction, AtMost, Sim

\* transformation: the box of a node bounds its records.
LEMMA NodeIsBound ==
  ASSUME SetupInv, algorithm = "transformation", NEW q \in Ids, batch = {q},
         NEW b, b.ids \subseteq Ids, NEW id \in b.ids
  PROVE  NodeUb(b) \in Fraction /\ AtMost(DataSim(q, id), NodeUb(b))
<1> DEFINE records == {data[x] : x \in b.ids}
           record == [x \in b.ids |-> data[x]]
<1>1. Query = q
  BY DEF Query
<1>2. \A x \in Ids : IsFiniteSet(data[x]) /\ data[x] # {}
  BY RecordFacts
<1>3. IsFiniteSet(records)
  <2>1. IsFiniteSet(b.ids)
    BY FS_Subset DEF SetupInv, IsDataset, RecordIds, Ids
  <2>2. record \in Surjection(b.ids, records)
    BY DEF Surjection
  <2> HIDE DEF record, records
  <2> QED
    BY <2>1, <2>2, FS_Surjection
<1>4. {Point(x) : x \in b.ids} = {Fingerprint(r, tree.dual) : r \in records}
  BY DEF Point
<1>5. \A n \in {1, 2} : \A t \in data[q] \cup UNION records : tree.dual[n][t] \in GroupIds
  BY DEF SetupInv
<1>6. data[id] \in records /\ \A s \in records : IsFiniteSet(s)
  BY <1>2
<1> DEFINE box == BoxAround({Fingerprint(r, tree.dual) : r \in records})
<1>7. NodeUb(b) = BoxUb(Fingerprint(data[q], tree.dual), box)
  BY <1>1, <1>4 DEF NodeUb, Point
<1>8. /\ BoxUb(Fingerprint(data[q], tree.dual), box) \in Fraction
      /\ AtMost(Sim(Cardinality(data[q]), Cardinality(data[id]),
                    Cardinality(data[q] \cap data[id])),
                BoxUb(Fingerprint(data[q], tree.dual), box))
  <2>1. box = BoxAround({Fingerprint(r, tree.dual) : r \in records})
    OBVIOUS
  <2> HIDE DEF records, box
  <2> QED
    BY <1>2, <1>3, <1>5, <1>6, <2>1, BoxIsBound
<1> QED
  BY <1>7, <1>8 DEF DataSim, Size

-------------------------------------------------------------------------------
(* What is left out is settled. *)
LEMMA InactiveIsSettled ==
  ASSUME SetupInv, ScanInv, algorithm = "baselinepp", NEW q \in active, q \notin StillActive,
         NEW id \in Ids, id \in Unread
  PROVE  Settled(heaps[q], K, DataSim(q, id))
<1>1. /\ q \in batch /\ q \in Ids /\ batch \subseteq Ids /\ SizesInv /\ IsHeap(heaps[q], K)
  BY DEF ScanInv, QueryInv
<1>2. /\ LeftUb \in Fraction /\ RightUb \in Fraction
      /\ id <= left => AtMost(DataSim(q, id), LeftUb)
      /\ id >= right => AtMost(DataSim(q, id), RightUb)
  BY <1>1, SideIsBound
<1>3. id <= left \/ id >= right
  BY DEF Unread
<1>4. DataSim(q, id) \in Fraction
  BY <1>1, RecordFacts
<1>5. Threshold(q) \in Fraction /\ Threshold(q) = HeapThreshold(heaps[q], K)
  BY <1>1, ScanAssumption, ThresholdIsLeast DEF ScanAssumption, Threshold
<1>6. ~Less(Threshold(q), Larger(LeftUb, RightUb))
  BY DEF StillActive
<1>7. AtMost(LeftUb, Threshold(q)) /\ AtMost(RightUb, Threshold(q))
  <2> DEFINE x == LeftUb
             y == RightUb
             t == Threshold(q)
  <2>1. x \in Fraction /\ y \in Fraction /\ t \in Fraction
    BY <1>2, <1>5
  <2>2. IF Less(x, y) THEN ~Less(t, y) ELSE ~Less(t, x)
    BY <1>6 DEF Larger
  <2> HIDE DEF x, y, t
  <2>3. CASE Less(x, y)
    <3>1. AtMost(y, t) /\ AtMost(x, y)
      BY <2>1, <2>2, <2>3, AtMostTotal
    <3>2. AtMost(x, t)
      BY <2>1, <3>1, AtMostTransitive
    <3> QED
      BY <3>1, <3>2 DEF x, y, t
  <2>4. CASE ~Less(x, y)
    <3>1. AtMost(x, t) /\ AtMost(y, x)
      BY <2>1, <2>2, <2>4, AtMostTotal
    <3>2. AtMost(y, t)
      BY <2>1, <3>1, AtMostTransitive
    <3> QED
      BY <3>1, <3>2 DEF x, y, t
  <2> QED
    BY <2>3, <2>4
<1> QED
  BY <1>1, <1>2, <1>3, <1>4, <1>5, <1>7, BoundSettles

LEMMA IgnoredIsSettled ==
  ASSUME SetupInv, ScanInv, algorithm = "transformation", NEW q \in batch,
         NEW b, b.ids \subseteq Ids, IsIgnored(b), NEW id \in b.ids
  PROVE  Settled(heaps[q], K, DataSim(q, id))
<1>1. batch = {q} /\ q \in Ids /\ IsHeap(heaps[q], K)
  BY DEF ScanInv, QueryInv
<1>2. Query = q
  BY <1>1 DEF Query
<1>3. NodeUb(b) \in Fraction /\ AtMost(DataSim(q, id), NodeUb(b))
  BY <1>1, NodeIsBound
<1>4. AtMost(NodeUb(b), HeapThreshold(heaps[q], K))
  BY <1>2 DEF IsIgnored, Threshold
<1>5. DataSim(q, id) \in Fraction
  BY <1>1, RecordFacts
<1> QED
  BY <1>1, <1>3, <1>4, <1>5, BoundSettles

\* The nodes of a level are sets of records.
LEMMA NodesAreSets ==
  ASSUME SetupInv, algorithm = "transformation", NEW l \in 1 .. Len(tree.levels),
         NEW s \in tree.levels[l]
  PROVE  s \subseteq Ids
BY DEF SetupInv, IsTree

LEMMA OverIsSettled ==
  ASSUME IInv, IsOver, NEW q \in batch, NEW id \in Ids
  PROVE  Entry(q, id) \in heaps[q] \/ Settled(heaps[q], K, DataSim(q, id))
<1>1. SetupInv /\ ScanInv /\ pc = "choose" /\ rest = {}
  BY DEF IInv, IsOver, ScanInv
<1>2. CASE id \notin Ahead(q)
  BY <1>1, <1>2 DEF ScanInv, QueryInv
<1>3. CASE id \in Ahead(q)
  <2>1. q \in active /\ id \in Unread
    BY <1>1, <1>3 DEF Ahead
  <2>2. q \in Ids /\ IsHeap(heaps[q], K) /\ batch \subseteq Ids
    BY <1>1 DEF ScanInv, QueryInv
  <2>3. algorithm \in {"baseline", "baselinepp", "les3", "transformation"}
    BY <1>1 DEF SetupInv
  <2>4. CASE algorithm = "baseline"
    BY <2>1, <2>4 DEF Unread
  <2>5. CASE algorithm = "baselinepp"
    <3>1. id <= left \/ id >= right
      BY <2>1, <2>5 DEF Unread
    <3>2. left \in Ids \/ right \in Ids
      BY <1>1, <2>2, <2>5, <3>1, SideIsBound DEF ScanInv
    <3>3. StillActive = {}
      BY <2>5, <3>2 DEF IsOver
    <3> QED
      BY <1>1, <2>1, <2>5, <3>3, InactiveIsSettled
  <2>6. CASE algorithm = "les3"
    <3>1. PICK g \in open : id \in lines[g]
      BY <2>1, <2>6 DEF Unread
    <3>2. batch = {q}
      BY <1>1, <2>6 DEF ScanInv
    <3>3. GroupUb(g) \in Fraction /\ AtMost(DataSim(q, id), GroupUb(g))
      BY <1>1, <2>2, <3>1, <3>2, GroupIsBound
    <3>4. AtMost(GroupUb(g), HeapThreshold(heaps[q], K))
      BY <2>6, <3>1, <3>2 DEF IsOver, Query, Threshold
    <3>5. DataSim(q, id) \in Fraction
      BY <1>1, <2>2, RecordFacts
    <3> QED
      BY <2>2, <3>3, <3>4, <3>5, BoundSettles
  <2>7. CASE algorithm = "transformation"
    <3>1. PICK b \in open : id \in b.ids
      BY <2>1, <2>7 DEF Unread
    <3>2. b.ids \subseteq Ids
      <4>1. b.level + 1 \in 1 .. Len(tree.levels) /\ b.ids \in tree.levels[b.level + 1]
        BY <1>1, <2>7 DEF ScanInv, NodesInv, SetupInv
      <4> QED
        BY <1>1, <2>7, <4>1, NodesAreSets
    <3>3. IsIgnored(b)
      BY <2>7 DEF IsOver
    <3> QED
      BY <1>1, <2>7, <3>1, <3>2, <3>3, IgnoredIsSettled
  <2> QED
    BY <2>3, <2>4, <2>5, <2>6, <2>7
<1> QED
  BY <1>2, <1>3

-------------------------------------------------------------------------------
(* What becomes of a query in a step. *)
LEMMA QueryStarts ==
  ASSUME data' = data, NEW q, heaps'[q] = {}, Ids \subseteq Ahead(q)'
  PROVE  QueryInv(q)'
<1>1. K \in Nat
  BY ScanAssumption DEF ScanAssumption
<1>2. Ids' = Ids
  BY DEF Ids
<1>3. IsHeap({}, K)
  BY <1>1, FS_EmptySet DEF IsHeap
<1>4. IsHeap(heaps[q], K)'
  BY <1>3
<1> QED
  BY <1>2, <1>4 DEF QueryInv

LEMMA QueryLeavesOut ==
  ASSUME data' = data, NEW q, heaps'[q] = heaps[q], QueryInv(q), Ahead(q)' \subseteq Ahead(q),
         \A id \in Ahead(q) \ Ahead(q)' : id \in Ids => Settled(heaps[q], K, DataSim(q, id))
  PROVE  QueryInv(q)'
<1>1. Ids' = Ids /\ \A id : DataSim(q, id)' = DataSim(q, id) /\ Entry(q, id)' = Entry(q, id)
  BY DEF Ids, DataSim, Size, Entry
<1>2. IsHeap(heaps[q], K)'
  BY DEF QueryInv
<1>3. \A e \in heaps[q] : \E id \in Ids \ Ahead(q)' : e = Entry(q, id)
  BY DEF QueryInv
<1>4. \A id \in Ids \ Ahead(q)' : Entry(q, id) \in heaps[q] \/ Settled(heaps[q], K, DataSim(q, id))
  BY DEF QueryInv
<1> QED
  BY <1>1, <1>2, <1>3, <1>4 DEF QueryInv

LEMMA QueryCompares ==
  ASSUME SetupInv, data' = data, NEW q \in Ids, NEW id \in Ids, id \in Ahead(q),
         heaps'[q] \in Compared(q, id), QueryInv(q), Ahead(q)' = Ahead(q) \ {id}
  PROVE  QueryInv(q)'
<1> DEFINE h == heaps[q]
           after == heaps'[q]
           entry == Entry(q, id)
<1>1. Ids' = Ids /\ \A x : DataSim(q, x)' = DataSim(q, x) /\ Entry(q, x)' = Entry(q, x)
  BY DEF Ids, DataSim, Size, Entry
<1>2. K \in Nat \ {0} /\ IsHeap(h, K)
  BY ScanAssumption DEF ScanAssumption, QueryInv
<1>3. IsComparison(h, K, entry, after)
  BY <1>2, ComparedIsComparison
<1>4. entry \notin h /\ entry.sim = DataSim(q, id)
  BY DEF QueryInv, Entry
<1>5. DataSim(q, id) \in Fraction /\ 0 <= DataSim(q, id).num
  BY RecordFacts
<1>6. /\ IsHeap(after, K)
      /\ after \subseteq h \cup {entry}
      /\ \A e \in h \cup {entry} : e \in after \/ Settled(after, K, e.sim)
      /\ \A sim \in Fraction : Settled(h, K, sim) => Settled(after, K, sim)
  <2> HIDE DEF h, after, entry
  <2> QED
    BY <1>2, <1>3, <1>4, <1>5, ComparisonKeepsHeap
<1>7. ASSUME NEW e \in after
      PROVE  \E x \in Ids \ Ahead(q)' : e = Entry(q, x)
  <2>1. CASE e \in h
    BY <2>1 DEF QueryInv
  <2>2. CASE e = entry
    BY <2>2
  <2> QED
    BY <1>6, <2>1, <2>2
<1>8. ASSUME NEW x \in Ids \ Ahead(q)'
      PROVE  Entry(q, x) \in after \/ Settled(after, K, DataSim(q, x))
  <2>1. Entry(q, x).sim = DataSim(q, x) /\ DataSim(q, x) \in Fraction
    BY RecordFacts DEF Entry
  <2>2. CASE x = id
    BY <1>4, <1>6, <2>2
  <2>3. CASE x # id
    <3>1. Entry(q, x) \in h \/ Settled(h, K, DataSim(q, x))
      BY <2>3 DEF QueryInv
    <3> HIDE DEF h, after, entry
    <3> QED
      BY <1>6, <2>1, <3>1
  <2> QED
    BY <2>2, <2>3
<1>9. IsHeap(heaps[q], K)'
  BY <1>6
<1> QED
  BY <1>1, <1>7, <1>8, <1>9 DEF QueryInv

-------------------------------------------------------------------------------
(* The steps. *)
LEMMA SetupStays ==
  ASSUME SetupInv, UNCHANGED setup, pc' = pc \/ pc \notin {"load", "failed"}
  PROVE  SetupInv'
<1>1. /\ Ids' = Ids /\ GroupFileIsValid' = GroupFileIsValid
      /\ \A q, id : TrueSim(q, id)' = TrueSim(q, id) /\ DataSim(q, id)' = DataSim(q, id)
  BY DEF setup, Ids, TrueSim, DataSim, Size, GroupFileIsValid, Groups
<1> QED
  BY <1>1 DEF SetupInv, setup

LEMMA InitIInv == Init => IInv
<1>1. Init => pc \in {"load", "idle"}
  BY DEF Init
<1> QED
  BY <1>1, InitSetup DEF IInv

LEMMA ReadGroupsKeepsIInv ==
  ASSUME IInv, ReadGroups
  PROVE  IInv'
<1>1. /\ Ids' = Ids /\ GroupFileIsValid' = GroupFileIsValid
      /\ \A q, id : TrueSim(q, id)' = TrueSim(q, id) /\ DataSim(q, id)' = DataSim(q, id)
  BY DEF ReadGroups, setup, Ids, TrueSim, DataSim, Size, GroupFileIsValid, Groups
<1>2. SetupInv'
  BY <1>1 DEF IInv, SetupInv, ReadGroups, setup
<1> QED
  BY <1>2 DEF IInv, ReadGroups

LEMMA StartScanKeepsIInv ==
  ASSUME IInv, NEW queries \in SUBSET Ids, NEW group \in SUBSET Ids, StartScan(queries, group),
         group \cap Unread' = {}, Ids \subseteq group \cup Unread',
         algorithm = "baselinepp" => SizesInv',
         algorithm = "les3" => open' \subseteq Groups,
         algorithm = "transformation" => NodesInv',
         algorithm \in {"les3", "transformation"} => \E q \in Ids : queries = {q}
  PROVE  IInv'
<1>1. /\ UNCHANGED setup /\ pc = "idle" /\ pc' = "scan"
      /\ batch' = queries /\ active' = queries /\ rest' = group
      /\ heaps' = [q \in queries |-> {}]
      /\ data' = data /\ algorithm' = algorithm /\ lines' = lines
  BY DEF StartScan, setup
<1>2. SetupInv'
  BY <1>1, SetupStays DEF IInv
<1>3. Ids' = Ids /\ Groups' = Groups
  BY <1>1 DEF Ids, Groups
<1>4. ASSUME NEW q \in queries
      PROVE  QueryInv(q)'
  <2>1. Ids \subseteq Ahead(q)'
    BY <1>1 DEF Ahead
  <2> QED
    BY <1>1, <2>1, QueryStarts
<1>5. ScanInv'
  BY <1>1, <1>3, <1>4 DEF ScanInv
<1> QED
  BY <1>1, <1>2, <1>5 DEF IInv

LEMMA StartBaselineKeepsIInv ==
  ASSUME IInv, NEW queries \in SUBSET Ids, StartBaseline(queries)
  PROVE  IInv'
<1>1. algorithm = "baseline" /\ algorithm' = algorithm /\ StartScan(queries, Ids)
  BY DEF StartBaseline, StartScan, setup
<1>2. Unread' = {}
  BY <1>1 DEF Unread
<1> QED
  BY <1>1, <1>2, StartScanKeepsIInv

\* Records sorted by size: those of one size lie together.
LEMMA OneSize ==
  ASSUME SetupInv, algorithm = "baselinepp", NEW x \in Ids,
         NEW same, same = OfSize(Size(x))
  PROVE  /\ same \subseteq Ids /\ x \in same
         /\ Min(same) \in same /\ Max(same) \in same
         /\ \A id \in same : Min(same) <= id /\ id <= Max(same)
         /\ \A id \in Ids : id < Min(same) => Size(id) < Size(x)
         /\ \A id \in Ids : id > Max(same) => Size(id) > Size(x)
         /\ \A id \in Ids : Min(same) <= id /\ id <= Max(same) => id \in same
         /\ Min(same) - 1 \in Ids =>
              \A id \in Ids : Min(same) - 1 < id => Size(Min(same) - 1) < Size(id)
         /\ Max(same) + 1 \in Ids =>
              \A id \in Ids : id < Max(same) + 1 => Size(id) < Size(Max(same) + 1)
<1>1. /\ same \subseteq Ids /\ x \in same
      /\ \A id \in Ids : id \in same <=> Size(id) = Size(x)
  BY DEF OfSize
<1>2. \A id \in Ids : id \in Int /\ Size(id) \in Nat
  BY RecordFacts
<1>3. /\ Min(same) \in same /\ Max(same) \in same
      /\ \A id \in same : Min(same) <= id /\ id <= Max(same)
  <2>1. IsFiniteSet(same)
    BY <1>1, IdsAreRange, FS_Subset
  <2>2. same \subseteq Int /\ same # {}
    BY <1>1, <1>2
  <2>3. /\ \E a \in same : \A b \in same : a <= b
        /\ \E a \in same : \A b \in same : b <= a
    BY <2>1, <2>2, LeastInteger
  <2> QED
    BY <2>2, <2>3 DEF Min, Max
<1>4. \A r, s \in Ids : r < s => Size(r) <= Size(s)
  BY DEF SetupInv, SortedBySize, RecordIds, Ids, Size
<1> DEFINE a == Min(same)
           b == Max(same)
<1>5. a \in Ids /\ b \in Ids /\ Size(a) = Size(x) /\ Size(b) = Size(x)
  BY <1>1, <1>3
<1>6. \A id \in Ids : /\ id < a => Size(id) <= Size(x) /\ id \notin same
                      /\ id > b => Size(id) >= Size(x) /\ id \notin same
  <2>1. a \in Int /\ b \in Int
    BY <1>2, <1>5
  <2>2. \A id \in same : a <= id /\ id <= b /\ id \in Int
    BY <1>1, <1>2, <1>3
  <2> HIDE DEF a, b
  <2> QED
    BY <1>2, <1>4, <1>5, <2>1, <2>2
<1>7. \A id \in Ids : a <= id /\ id <= b => id \in same
  <2> HIDE DEF a, b
  <2> SUFFICES ASSUME NEW id \in Ids, a <= id, id <= b
               PROVE  Size(id) = Size(x)
    BY <1>1
  <2>1. Size(a) <= Size(id)
    BY <1>2, <1>4, <1>5
  <2>2. Size(id) <= Size(b)
    BY <1>2, <1>4, <1>5
  <2> QED
    BY <1>2, <1>5, <2>1, <2>2
<1>8. /\ \A id \in Ids : id < a => Size(id) < Size(x)
      /\ \A id \in Ids : id > b => Size(id) > Size(x)
  <2> HIDE DEF a, b
  <2> QED
    BY <1>1, <1>2, <1>6
<1>9. a - 1 \in Ids => \A id \in Ids : a - 1 < id => Size(a - 1) < Size(id)
  <2> HIDE DEF a, b
  <2> SUFFICES ASSUME a - 1 \in Ids, NEW id \in Ids, a - 1 < id
               PROVE  Size(a - 1) < Size(id)
    OBVIOUS
  <2>1. Size(a - 1) < Size(x) /\ a <= id
    BY <1>2, <1>5, <1>8
  <2>2. Size(x) <= Size(id)
    <3>1. Size(a) <= Size(id)
      BY <1>2, <1>4, <1>5, <2>1
    <3> QED
      BY <1>5, <3>1
  <2> QED
    BY <1>2, <2>1, <2>2
<1>10. b + 1 \in Ids => \A id \in Ids : id < b + 1 => Size(id) < Size(b + 1)
  <2> HIDE DEF a, b
  <2> SUFFICES ASSUME b + 1 \in Ids, NEW id \in Ids, id < b + 1
               PROVE  Size(id) < Size(b + 1)
    OBVIOUS
  <2>1. Size(x) < Size(b + 1) /\ id <= b
    BY <1>2, <1>5, <1>8
  <2>2. Size(id) <= Size(x)
    <3>1. Size(id) <= Size(b)
      BY <1>2, <1>4, <1>5, <2>1
    <3> QED
      BY <1>5, <3>1
  <2> QED
    BY <1>2, <2>1, <2>2
<1> QED
  BY <1>1, <1>3, <1>7, <1>8, <1>9, <1>10

LEMMA StartBaselineppKeepsIInv ==
  ASSUME IInv, NEW queries \in SUBSET Ids, queries # {}, StartBaselinepp(queries)
  PROVE  IInv'
<1>1. PICK q \in queries : /\ queries \subseteq OfSize(Size(q))
                           /\ StartScan(queries, OfSize(Size(q)))
                           /\ left' = Min(OfSize(Size(q))) - 1
                           /\ right' = Max(OfSize(Size(q))) + 1
  BY DEF StartBaselinepp
<1> DEFINE same == OfSize(Size(q))
           a == Min(same)
           b == Max(same)
<1>2. algorithm = "baselinepp" /\ algorithm' = algorithm /\ data' = data /\ batch' = queries
  BY <1>1 DEF StartBaselinepp, StartScan, setup
<1>3. SetupInv /\ q \in Ids /\ \A id \in Ids : id \in Int /\ Size(id) \in Nat
  BY RecordFacts DEF IInv
<1>4. /\ same \subseteq Ids /\ a \in same /\ b \in same
      /\ \A id \in same : a <= id /\ id <= b
      /\ \A id \in Ids : a <= id /\ id <= b => id \in same
      /\ a - 1 \in Ids => \A id \in Ids : a - 1 < id => Size(a - 1) < Size(id)
      /\ b + 1 \in Ids => \A id \in Ids : id < b + 1 => Size(id) < Size(b + 1)
  BY <1>2, <1>3, OneSize
<1>5. \A id \in same : Size(id) = Size(q)
  BY DEF OfSize
<1>6. /\ Ids' = Ids /\ \A id : Size(id)' = Size(id)
      /\ Unread' = {id \in Ids : id <= a - 1 \/ id >= b + 1}
  BY <1>1, <1>2 DEF Ids, Size, Unread
<1> HIDE DEF a, b, same
<1>7. a \in Int /\ b \in Int
  BY <1>3, <1>4
<1>8. same \cap Unread' = {} /\ Ids \subseteq same \cup Unread'
  <2>1. \A id \in Ids : id \in Unread' <=> ~(a <= id /\ id <= b)
    BY <1>3, <1>6, <1>7
  <2>2. Unread' \subseteq Ids
    BY <1>6
  <2> QED
    BY <1>4, <2>1, <2>2
<1>9. /\ left' = a - 1 /\ right' = b + 1 /\ queries \subseteq same
      /\ StartScan(queries, same)
  BY <1>1 DEF a, b, same
<1>10. SizesInv'
  <2>1. left' \in Int /\ right' \in Int
    BY <1>7, <1>9
  <2>2. \A p \in queries : left' < p /\ p < right'
    BY <1>3, <1>4, <1>7, <1>9
  <2>3. \A p, r \in queries : Size(p) = Size(r)
    BY <1>5, <1>9
  <2> QED
    BY <1>2, <1>4, <1>6, <1>9, <2>1, <2>2, <2>3 DEF SizesInv
<1> QED
  BY <1>2, <1>4, <1>8, <1>9, <1>10, StartScanKeepsIInv

LEMMA StartLes3KeepsIInv ==
  ASSUME IInv, NEW q \in Ids, StartLes3(q)
  PROVE  IInv'
<1>1. /\ algorithm = "les3" /\ algorithm' = algorithm /\ lines' = lines
      /\ StartScan({q}, {}) /\ open' = Groups /\ pc = "idle"
  BY DEF StartLes3, StartScan, setup
<1>2. GroupFileIsValid
  BY <1>1 DEF IInv, SetupInv
<1>3. Unread' = Ids
  BY <1>1, <1>2 DEF Unread, GroupFileIsValid
<1>4. {q} \in SUBSET Ids /\ {} \in SUBSET Ids
  OBVIOUS
<1> QED
  BY <1>1, <1>3, <1>4, StartScanKeepsIInv

LEMMA StartTransformationKeepsIInv ==
  ASSUME IInv, NEW q \in Ids, StartTransformation(q)
  PROVE  IInv'
<1>1. /\ algorithm = "transformation" /\ algorithm' = algorithm /\ tree' = tree
      /\ StartScan({q}, {}) /\ open' = {Root}
  BY DEF StartTransformation, StartScan, setup
<1>2. Unread' = Ids
  BY <1>1 DEF Unread, Root
<1>3. {q} \in SUBSET Ids /\ {} \in SUBSET Ids
  OBVIOUS
<1>4. Len(tree.levels) \in Nat \ {0} /\ tree.levels[Len(tree.levels)] = {Ids}
  BY <1>1 DEF IInv, SetupInv, IsTree
<1>5. /\ Root.level \in 0 .. (Len(tree.levels) - 1)
      /\ Root.ids \in tree.levels[Root.level + 1]
  BY <1>4 DEF Root
<1>6. NodesInv'
  <2> HIDE DEF Root
  <2> QED
    BY <1>1, <1>5 DEF NodesInv
<1> QED
  BY <1>1, <1>2, <1>3, <1>6, StartScanKeepsIInv

LEMMA ScanRecordKeepsIInv ==
  ASSUME IInv, NEW id \in rest, ScanRecord(id)
  PROVE  IInv'
<1>1. /\ SetupInv /\ ScanInv /\ pc = "scan" /\ pc' = pc /\ rest' = rest \ {id}
      /\ UNCHANGED <<setup, batch, active, places>>
  BY DEF IInv, ScanRecord
<1>2. PICK after \in [active -> UNION {Compared(q, id) : q \in active}] :
        /\ \A q \in active : after[q] \in Compared(q, id)
        /\ heaps' = [q \in batch |-> IF q \in active THEN after[q] ELSE heaps[q]]
  BY DEF ScanRecord
<1>3. /\ data' = data /\ algorithm' = algorithm /\ lines' = lines /\ tree' = tree
      /\ batch' = batch /\ active' = active
      /\ left' = left /\ right' = right /\ open' = open
  BY <1>1 DEF setup, places
<1>4. SetupInv'
  BY <1>1, SetupStays
<1>5. /\ Ids' = Ids /\ Unread' = Unread /\ Groups' = Groups
      /\ SizesInv' <=> SizesInv
      /\ NodesInv' <=> NodesInv
  BY <1>3 DEF Ids, Unread, Groups, SizesInv, NodesInv, Size
<1>6. /\ active \subseteq batch /\ DOMAIN heaps = batch /\ batch \subseteq Ids
      /\ rest \subseteq Ids /\ rest \cap Unread = {}
  BY <1>1 DEF ScanInv
<1>7. /\ DOMAIN heaps' = batch
      /\ \A q \in active : heaps'[q] = after[q]
      /\ \A q \in batch \ active : heaps'[q] = heaps[q]
  BY <1>2, <1>6
<1>8. ASSUME NEW q \in batch
      PROVE  QueryInv(q)'
  <2>1. QueryInv(q) /\ q \in Ids /\ id \in Ids
    BY <1>1, <1>6 DEF ScanInv
  <2>2. CASE q \in active
    <3>1. id \in Ahead(q) /\ Ahead(q)' = Ahead(q) \ {id}
      BY <1>1, <1>3, <1>5, <1>6, <2>2 DEF Ahead
    <3>2. heaps'[q] \in Compared(q, id)
      BY <1>2, <1>7, <2>2
    <3> QED
      BY <1>1, <1>3, <2>1, <3>1, <3>2, QueryCompares
  <2>3. CASE q \notin active
    <3>1. Ahead(q)' = Ahead(q) /\ heaps'[q] = heaps[q]
      BY <1>3, <1>7, <2>3 DEF Ahead
    <3> QED
      BY <1>3, <2>1, <3>1, QueryLeavesOut
  <2> QED
    BY <2>2, <2>3
<1>9. ScanInv'
  BY <1>1, <1>3, <1>5, <1>7, <1>8 DEF ScanInv
<1> QED
  BY <1>1, <1>4, <1>9 DEF IInv

\* The steps that compare nothing: a query may leave out records that are settled.
LEMMA ScanStaysSound ==
  ASSUME IInv, pc \in {"scan", "choose"}, pc' \in {"scan", "choose"}, UNCHANGED setup,
         batch' = batch, heaps' = heaps, active' \subseteq active, rest' \subseteq Ids,
         rest' \cap Unread' = {}, pc' = "choose" => rest' = {},
         \A q \in batch : Ahead(q)' \subseteq Ahead(q),
         \A q \in batch : \A id \in Ahead(q) \ Ahead(q)' :
            id \in Ids => Settled(heaps[q], K, DataSim(q, id)),
         algorithm = "baselinepp" => SizesInv',
         algorithm = "les3" => open' \subseteq Groups,
         algorithm = "transformation" => NodesInv'
  PROVE  IInv'
<1>1. SetupInv /\ ScanInv
  BY DEF IInv
<1>2. SetupInv'
  BY <1>1, SetupStays
<1>3. data' = data /\ algorithm' = algorithm /\ Ids' = Ids /\ Groups' = Groups
  BY DEF setup, Ids, Groups
<1>4. \A q \in batch : QueryInv(q)'
  <2> SUFFICES ASSUME NEW q \in batch
               PROVE  QueryInv(q)'
    OBVIOUS
  <2>1. QueryInv(q)
    BY <1>1 DEF ScanInv
  <2> QED
    BY <1>3, <2>1, QueryLeavesOut
<1>5. ScanInv'
  BY <1>1, <1>3, <1>4 DEF ScanInv
<1> QED
  BY <1>2, <1>5 DEF IInv

LEMMA EndGroupKeepsIInv ==
  ASSUME IInv, EndGroup
  PROVE  IInv'
<1>1. /\ pc = "scan" /\ pc' = "choose" /\ rest = {} /\ ScanInv
      /\ UNCHANGED <<setup, batch, active, heaps, places, rest>>
  BY DEF EndGroup, IInv
<1>2. /\ data' = data /\ algorithm' = algorithm /\ lines' = lines /\ tree' = tree
      /\ batch' = batch /\ active' = active /\ rest' = rest /\ heaps' = heaps
      /\ left' = left /\ right' = right /\ open' = open
  BY <1>1 DEF setup, places
<1>3. /\ Ids' = Ids /\ Unread' = Unread /\ Groups' = Groups
      /\ SizesInv' <=> SizesInv
      /\ NodesInv' <=> NodesInv
  BY <1>2 DEF Ids, Unread, Groups, SizesInv, NodesInv, Size
<1>4. \A q : Ahead(q)' = Ahead(q)
  BY <1>2, <1>3 DEF Ahead
<1>5. /\ active' \subseteq active /\ rest' \subseteq Ids /\ rest' \cap Unread' = {}
      /\ algorithm = "baselinepp" => SizesInv'
      /\ algorithm = "les3" => open' \subseteq Groups
      /\ algorithm = "transformation" => NodesInv'
  BY <1>1, <1>2, <1>3 DEF ScanInv
<1> QED
  BY <1>1, <1>2, <1>4, <1>5, ScanStaysSound

LEMMA NextGroupKeepsIInv ==
  ASSUME IInv, NEW g \in open, NextGroup(g)
  PROVE  IInv'
<1>1. /\ algorithm = "les3" /\ pc = "choose" /\ pc' = "scan" /\ ScanInv /\ SetupInv
      /\ rest' = lines[g] /\ open' = open \ {g}
      /\ UNCHANGED <<setup, batch, active, heaps>>
  BY DEF NextGroup, IInv
<1>2. algorithm' = algorithm /\ lines' = lines
  BY <1>1 DEF setup
<1>3. /\ open \subseteq Groups /\ rest = {}
      /\ \A h \in Groups : lines[h] \subseteq Ids
      /\ \A h, i \in Groups : h # i => lines[h] \cap lines[i] = {}
  BY <1>1 DEF ScanInv, SetupInv, GroupFileIsValid
<1>4. Unread = UNION {lines[h] : h \in open} /\ Unread' = UNION {lines[h] : h \in open \ {g}}
  BY <1>1, <1>2 DEF Unread
<1>5. rest' \cap Unread' = {} /\ rest' \cup Unread' = rest \cup Unread /\ rest' \subseteq Ids
  BY <1>1, <1>3, <1>4
<1>6. \A q : Ahead(q)' = Ahead(q)
  BY <1>1, <1>5 DEF Ahead
<1> QED
  BY <1>1, <1>3, <1>5, <1>6, ScanStaysSound

LEMMA EnterNodeKeepsIInv ==
  ASSUME IInv, NEW b \in open, EnterNode(b)
  PROVE  IInv'
<1>1. /\ algorithm = "transformation" /\ pc = "choose" /\ ScanInv /\ SetupInv /\ rest = {}
      /\ UNCHANGED <<setup, batch, active, heaps>>
  BY DEF EnterNode, IInv, ScanInv
<1>2. algorithm' = algorithm /\ tree' = tree
  BY <1>1 DEF setup
<1> DEFINE L == tree.levels
<1>3. /\ NodesInv /\ b.level \in 0 .. (Len(L) - 1) /\ b.ids \in L[b.level + 1]
      /\ Len(L) \in Nat
      /\ IsTree(L, Ids)
  BY <1>1 DEF ScanInv, NodesInv, SetupInv
<1>4. b.ids \subseteq Ids
  <2>1. b.level + 1 \in 1 .. Len(L)
    BY <1>3
  <2> QED
    BY <1>1, <1>3, <2>1, NodesAreSets
<1>5. Unread = UNION {c.ids : c \in open} /\ Unread' = UNION {c.ids : c \in open'}
  BY <1>1, <1>2 DEF Unread
<1>6. CASE b.level > 0
  <2> DEFINE kept == {c \in Children(b) : ~IsIgnored(c)}
  <2>1. open' = (open \ {b}) \cup kept /\ pc' = pc /\ rest' = rest
    BY <1>6 DEF EnterNode
  <2>2. b.level \in 1 .. Len(L)
    BY <1>3, <1>6
  <2>3. ASSUME NEW c \in Children(b)
        PROVE  /\ c.ids \subseteq b.ids
               /\ c.level = b.level - 1 /\ c.ids \in L[b.level]
               /\ c = [level |-> c.level, ids |-> c.ids]
    BY DEF Children
  <2>4. \A c, d \in Children(b) : c # d => c.ids \cap d.ids = {}
    <3>1. \A s, t \in L[b.level] : s # t => s \cap t = {}
      BY <1>3, <2>2 DEF IsTree
    <3> QED
      BY <2>3, <3>1
  <2>5. \A x \in b.ids : \E c \in Children(b) : x \in c.ids
    <3> SUFFICES ASSUME NEW x \in b.ids
                 PROVE  \E c \in Children(b) : x \in c.ids
      OBVIOUS
    <3>1. PICK s \in L[b.level] : x \in s
      <4>1. UNION L[b.level] = Ids
        BY <1>3, <2>2 DEF IsTree
      <4> QED
        BY <1>4, <4>1
    <3>2. b.level + 1 \in 2 .. Len(L) /\ (b.level + 1) - 1 = b.level /\ b.level + 1 \in 1 .. Len(L)
      BY <1>3, <1>6
    <3>3. PICK t \in L[b.level + 1] : s \subseteq t
      BY <1>3, <3>1, <3>2 DEF IsTree
    <3>4. t = b.ids
      <4>1. t # b.ids => t \cap b.ids = {}
        BY <1>3, <3>2, <3>3 DEF IsTree
      <4> QED
        BY <3>1, <3>3, <4>1
    <3>5. [level |-> b.level - 1, ids |-> s] \in Children(b)
      BY <3>1, <3>3, <3>4 DEF Children
    <3> QED
      BY <3>1, <3>5
  <2>6. NodesInv'
    <3>1. ASSUME NEW c \in open'
          PROVE  c.level \in 0 .. (Len(L) - 1) /\ c.ids \in L[c.level + 1]
      <4>1. CASE c \in open
        BY <1>3, <4>1 DEF NodesInv
      <4>2. CASE c \in Children(b)
        <5>1. c.level = b.level - 1 /\ c.level + 1 = b.level /\ c.level \in 0 .. (Len(L) - 1)
          BY <1>3, <1>6, <2>3, <4>2
        <5> QED
          BY <2>3, <4>2, <5>1
      <4> QED
        BY <2>1, <4>1, <4>2
    <3>2. ASSUME NEW c \in open', NEW d \in open', c # d
          PROVE  c.ids \cap d.ids = {}
      <4>1. \A e \in open \ {b} : e.ids \cap b.ids = {}
        BY <1>3 DEF NodesInv
      <4> QED
        BY <1>3, <2>1, <2>3, <2>4, <3>2, <4>1 DEF NodesInv
    <3> QED
      BY <1>2, <3>1, <3>2 DEF NodesInv
  <2>7. Unread' \subseteq Unread
    BY <1>5, <2>1, <2>3
  <2>8. ASSUME NEW q \in batch, NEW x \in Unread \ Unread'
        PROVE  Settled(heaps[q], K, DataSim(q, x))
    <3>1. PICK c \in open : x \in c.ids
      BY <1>5, <2>8
    <3>2. c = b
      BY <1>5, <2>1, <2>8, <3>1
    <3>3. PICK d \in Children(b) : x \in d.ids
      BY <2>5, <3>1, <3>2
    <3>4. IsIgnored(d)
      BY <1>5, <2>1, <2>8, <3>3
    <3>5. d.ids \subseteq Ids
      BY <1>4, <2>3
    <3> QED
      BY <1>1, <3>3, <3>4, <3>5, IgnoredIsSettled
  <2>9. \A q : /\ Ahead(q)' \subseteq Ahead(q)
               /\ Ahead(q) \ Ahead(q)' \subseteq Unread \ Unread'
    BY <1>1, <2>1, <2>7 DEF Ahead
  <2> QED
    BY <1>1, <2>1, <2>6, <2>8, <2>9, ScanStaysSound
<1>7. CASE ~(b.level > 0)
  <2>1. open' = open \ {b} /\ rest' = b.ids /\ pc' = "scan"
    BY <1>7 DEF EnterNode
  <2>2. NodesInv'
    BY <1>2, <1>3, <2>1 DEF NodesInv
  <2>3. rest' \cap Unread' = {} /\ rest' \cup Unread' = rest \cup Unread
    BY <1>1, <1>3, <1>5, <2>1 DEF NodesInv
  <2>4. \A q : Ahead(q)' = Ahead(q)
    BY <1>1, <2>3 DEF Ahead
  <2> QED
    BY <1>1, <1>4, <2>1, <2>2, <2>3, <2>4, ScanStaysSound
<1> QED
  BY <1>6, <1>7

LEMMA NextSizeKeepsIInv ==
  ASSUME IInv, NextSize
  PROVE  IInv'
<1>1. /\ algorithm = "baselinepp" /\ pc = "choose" /\ pc' = "scan" /\ ScanInv /\ SetupInv
      /\ left \in Ids \/ right \in Ids
      /\ active' = StillActive /\ StillActive # {} /\ StillActive \subseteq active
      /\ active \subseteq batch /\ batch \subseteq Ids /\ rest = {} /\ SizesInv
      /\ UNCHANGED <<setup, batch, heaps, open>>
  BY DEF NextSize, ScanSide, IInv, ScanInv, StillActive
<1>2. /\ algorithm' = algorithm /\ Ids' = Ids /\ batch' = batch
      /\ \A id : Size(id)' = Size(id)
  BY <1>1 DEF setup, Ids, Size
<1>3. PICK q \in batch : q \in Ids
  BY <1>1
<1>4. /\ IF left \in Ids THEN 0 <= LeftUb.num ELSE LeftUb = NoRecord
      /\ IF right \in Ids THEN 0 <= RightUb.num ELSE RightUb = NoRecord
      /\ LeftUb \in Fraction /\ RightUb \in Fraction
  BY <1>1, <1>3, SideIsBound
<1>5. /\ Less(RightUb, LeftUb) => left \in Ids
      /\ ~Less(RightUb, LeftUb) => right \in Ids
  <2>1. \A x \in Fraction : 0 <= x.num => Less(NoRecord, x) /\ ~Less(x, NoRecord)
    BY DEF Fraction, Less, NoRecord
  <2>2. ~Less(NoRecord, NoRecord)
    BY DEF Less, NoRecord
  <2> QED
    BY <1>1, <1>4, <2>1, <2>2
<1>6. /\ \A id \in Ids : id \in Int /\ Size(id) \in Nat
      /\ left \in Int /\ right \in Int
      /\ \A p \in batch : left < p /\ p < right
      /\ \A p, r \in batch : Size(p) = Size(r)
      /\ left \in Ids => \A id \in Ids : left < id => Size(left) < Size(id)
      /\ right \in Ids => \A id \in Ids : id < right => Size(id) < Size(right)
      /\ left < right
  <2>1. \A id \in Ids : id \in Int /\ Size(id) \in Nat
    BY <1>1, RecordFacts
  <2>2. /\ left \in Int /\ right \in Int
        /\ \A p \in batch : left < p /\ p < right
        /\ \A p, r \in batch : Size(p) = Size(r)
        /\ left \in Ids => \A id \in Ids : left < id => Size(left) < Size(id)
        /\ right \in Ids => \A id \in Ids : id < right => Size(id) < Size(right)
    BY <1>1 DEF SizesInv
  <2>3. left < right
    <3>1. left < q /\ q < right /\ q \in Int
      BY <1>3, <2>1, <2>2
    <3> QED
      BY <2>2, <3>1
  <2> QED
    BY <2>1, <2>2, <2>3
<1>7. Unread = {id \in Ids : id <= left \/ id >= right}
  BY <1>1 DEF Unread
<1>8. /\ rest' \subseteq Ids
      /\ rest' \cap Unread' = {}
      /\ rest' \cup Unread' = Unread
      /\ SizesInv'
  <2>1. CASE Less(RightUb, LeftUb)
    <3> DEFINE same == OfSize(Size(left))
               a == Min(same)
               b == Max(same)
    <3>1. rest' = same /\ left' = a - 1 /\ right' = right
      BY <2>1 DEF NextSize, ScanSide
    <3>2. left \in Ids
      BY <1>5, <2>1
    <3>3. /\ same \subseteq Ids /\ left \in same /\ a \in same /\ b \in same
          /\ \A id \in same : a <= id /\ id <= b
          /\ \A id \in Ids : a <= id /\ id <= b => id \in same
          /\ a - 1 \in Ids => \A id \in Ids : a - 1 < id => Size(a - 1) < Size(id)
      BY <1>1, <3>2, OneSize
    <3>4. \A id \in same : Size(id) = Size(left)
      BY DEF OfSize
    <3>5. Unread' = {id \in Ids : id <= left' \/ id >= right'}
      BY <1>1, <1>2 DEF Unread
    <3> HIDE DEF same, a, b
    <3>6. a \in Int /\ b \in Int /\ a <= left /\ left <= b
      BY <1>6, <3>3
    <3>7. \A id \in same : id <= left
      BY <1>6, <3>2, <3>3, <3>4
    <3>8. /\ \A id \in Ids : id \in Unread' <=> id < a \/ id >= right
          /\ \A id \in Ids : id \in Unread <=> id <= left \/ id >= right
          /\ Unread \subseteq Ids /\ Unread' \subseteq Ids
      BY <1>6, <1>7, <3>1, <3>5, <3>6
    <3>9. \A id \in Ids : id \in same <=> a <= id /\ id <= left
      BY <1>6, <3>3, <3>6, <3>7
    <3>10. rest' \cap Unread' = {} /\ rest' \cup Unread' = Unread
      <4>1. \A id \in Ids : id \in same => id \notin Unread'
        BY <1>6, <3>6, <3>8, <3>9
      <4>2. \A id \in Ids : id \in same \/ id \in Unread' <=> id \in Unread
        BY <1>6, <3>6, <3>8, <3>9
      <4> QED
        BY <3>1, <3>3, <3>8, <4>1, <4>2
    <3>11. SizesInv'
      <4>1. left' \in Int /\ right' \in Int
        BY <1>6, <3>1, <3>6
      <4>2. \A p \in batch : left' < p /\ p < right'
        BY <1>1, <1>6, <3>1, <3>6
      <4> QED
        BY <1>2, <1>6, <3>1, <3>3, <4>1, <4>2 DEF SizesInv
    <3> QED
      BY <3>1, <3>3, <3>10, <3>11
  <2>2. CASE ~Less(RightUb, LeftUb)
    <3> DEFINE same == OfSize(Size(right))
               a == Min(same)
               b == Max(same)
    <3>1. rest' = same /\ right' = b + 1 /\ left' = left
      BY <2>2 DEF NextSize, ScanSide
    <3>2. right \in Ids
      BY <1>5, <2>2
    <3>3. /\ same \subseteq Ids /\ right \in same /\ a \in same /\ b \in same
          /\ \A id \in same : a <= id /\ id <= b
          /\ \A id \in Ids : a <= id /\ id <= b => id \in same
          /\ b + 1 \in Ids => \A id \in Ids : id < b + 1 => Size(id) < Size(b + 1)
      BY <1>1, <3>2, OneSize
    <3>4. \A id \in same : Size(id) = Size(right)
      BY DEF OfSize
    <3>5. Unread' = {id \in Ids : id <= left' \/ id >= right'}
      BY <1>1, <1>2 DEF Unread
    <3> HIDE DEF same, a, b
    <3>6. a \in Int /\ b \in Int /\ a <= right /\ right <= b
      BY <1>6, <3>3
    <3>7. \A id \in same : id >= right
      BY <1>6, <3>2, <3>3, <3>4
    <3>8. /\ \A id \in Ids : id \in Unread' <=> id <= left \/ id > b
          /\ \A id \in Ids : id \in Unread <=> id <= left \/ id >= right
          /\ Unread \subseteq Ids /\ Unread' \subseteq Ids
      BY <1>6, <1>7, <3>1, <3>5, <3>6
    <3>9. \A id \in Ids : id \in same <=> right <= id /\ id <= b
      BY <1>6, <3>3, <3>6, <3>7
    <3>10. rest' \cap Unread' = {} /\ rest' \cup Unread' = Unread
      <4>1. \A id \in Ids : id \in same => id \notin Unread'
        BY <1>6, <3>6, <3>8, <3>9
      <4>2. \A id \in Ids : id \in same \/ id \in Unread' <=> id \in Unread
        BY <1>6, <3>6, <3>8, <3>9
      <4> QED
        BY <3>1, <3>3, <3>8, <4>1, <4>2
    <3>11. SizesInv'
      <4>1. left' \in Int /\ right' \in Int
        BY <1>6, <3>1, <3>6
      <4>2. \A p \in batch : left' < p /\ p < right'
        BY <1>1, <1>6, <3>1, <3>6
      <4> QED
        BY <1>2, <1>6, <3>1, <3>3, <4>1, <4>2 DEF SizesInv
    <3> QED
      BY <3>1, <3>3, <3>10, <3>11
  <2> QED
    BY <2>1, <2>2
<1>9. \A p \in batch : Ahead(p)' \subseteq Ahead(p)
  BY <1>1, <1>8 DEF Ahead
<1>10. ASSUME NEW p \in batch, NEW id \in Ahead(p) \ Ahead(p)', id \in Ids
       PROVE  Settled(heaps[p], K, DataSim(p, id))
  <2>1. p \in active /\ p \notin StillActive /\ id \in Unread
    BY <1>1, <1>8, <1>10 DEF Ahead
  <2> QED
    BY <1>1, <2>1, <1>10, InactiveIsSettled
<1> QED
  BY <1>1, <1>2, <1>8, <1>9, <1>10, ScanStaysSound

LEMMA FinishKeepsIInv ==
  ASSUME IInv, Finish
  PROVE  IInv'
<1>1. pc = "choose" /\ pc' = "idle" /\ UNCHANGED setup
  BY DEF Finish, IsOver
<1>2. SetupInv'
  BY <1>1, SetupStays DEF IInv
<1> QED
  BY <1>1, <1>2 DEF IInv

LEMMA StutterKeepsIInv ==
  ASSUME IInv, UNCHANGED vars
  PROVE  IInv'
<1>1. SetupInv'
  BY SetupStays DEF IInv, vars
<1>2. /\ UNCHANGED <<setup, pc, batch, active, heaps, places, rest>>
      /\ data' = data /\ algorithm' = algorithm /\ lines' = lines /\ tree' = tree
      /\ left' = left /\ right' = right /\ open' = open
  BY DEF vars, setup, places
<1>3. /\ Ids' = Ids /\ Unread' = Unread /\ Groups' = Groups
      /\ SizesInv' <=> SizesInv
      /\ NodesInv' <=> NodesInv
  BY <1>2 DEF Ids, Unread, Groups, SizesInv, NodesInv, Size
<1>4. ASSUME ScanInv
      PROVE  ScanInv'
  <2>1. ASSUME NEW q \in batch
        PROVE  QueryInv(q)'
    <3>1. Ahead(q)' = Ahead(q) /\ heaps'[q] = heaps[q] /\ QueryInv(q)
      BY <1>2, <1>3, <1>4 DEF Ahead, ScanInv
    <3> QED
      BY <1>2, <3>1, QueryLeavesOut
  <2> QED
    BY <1>2, <1>3, <1>4, <2>1 DEF ScanInv
<1> QED
  BY <1>1, <1>2, <1>4 DEF IInv

LEMMA NextKeepsIInv == IInv /\ [Next]_vars => IInv'
<1> SUFFICES ASSUME IInv, [Next]_vars
             PROVE  IInv'
  OBVIOUS
<1>1. CASE ReadGroups
  BY <1>1, ReadGroupsKeepsIInv
<1>2. ASSUME NEW queries \in SUBSET Ids, StartBaseline(queries)
      PROVE  IInv'
  BY <1>2, StartBaselineKeepsIInv
<1>3. ASSUME NEW queries \in SUBSET Ids, StartBaselinepp(queries)
      PROVE  IInv'
  <2>1. queries # {}
    BY <1>3 DEF StartBaselinepp
  <2> QED
    BY <1>3, <2>1, StartBaselineppKeepsIInv
<1>4. ASSUME NEW q \in Ids, StartLes3(q) \/ StartTransformation(q)
      PROVE  IInv'
  BY <1>4, StartLes3KeepsIInv, StartTransformationKeepsIInv
<1>5. ASSUME NEW id \in rest, ScanRecord(id)
      PROVE  IInv'
  BY <1>5, ScanRecordKeepsIInv
<1>6. CASE EndGroup
  BY <1>6, EndGroupKeepsIInv
<1>7. CASE NextSize
  BY <1>7, NextSizeKeepsIInv
<1>8. ASSUME NEW g \in open, NextGroup(g) \/ EnterNode(g)
      PROVE  IInv'
  BY <1>8, NextGroupKeepsIInv, EnterNodeKeepsIInv
<1>9. CASE Finish
  BY <1>9, FinishKeepsIInv
<1>10. CASE UNCHANGED vars
  BY <1>10, StutterKeepsIInv
<1> QED
  BY <1>1, <1>2, <1>3, <1>4, <1>5, <1>6, <1>7, <1>8, <1>9, <1>10 DEF Next

THEOREM Invariance == Spec => []IInv
BY InitIInv, NextKeepsIInv, PTL DEF Spec

-------------------------------------------------------------------------------
(* What follows from the invariant. *)
LEMMA IInvIsExact ==
  ASSUME IInv
  PROVE  ResultIsExact
<1> SUFFICES ASSUME IsOver, NEW q \in batch
             PROVE  /\ \A e \in heaps[q] : e.sim.num * TrueSim(q, e.id).den
                                             = TrueSim(q, e.id).num * e.sim.den
                    /\ \A e, f \in heaps[q] : e.id = f.id => e = f
                    /\ \A id \in Ids :
                         (\A e \in heaps[q] : e.id # id)
                           => /\ AtMost(TrueSim(q, id), Threshold(q))
                              /\ Cardinality(heaps[q]) < K => TrueSim(q, id).num = 0
  BY DEF ResultIsExact
<1>1. SetupInv /\ ScanInv /\ QueryInv(q) /\ q \in Ids
  BY DEF IInv, IsOver, ScanInv
<1>2. \A id \in Ids : TrueSim(q, id) = DataSim(q, id)
  BY <1>1 DEF SetupInv
<1>3. \A e \in heaps[q] : e.id \in Ids /\ e = Entry(q, e.id) /\ e.sim = DataSim(q, e.id)
  BY <1>1 DEF QueryInv, Entry
<1>4. \A id \in Ids : DataSim(q, id).num \in Int /\ DataSim(q, id).den \in Int
                      /\ 0 <= DataSim(q, id).num
  <2> SUFFICES ASSUME NEW id \in Ids
               PROVE  /\ DataSim(q, id).num \in Int /\ DataSim(q, id).den \in Int
                      /\ 0 <= DataSim(q, id).num
    OBVIOUS
  <2>1. DataSim(q, id) \in Fraction /\ 0 <= DataSim(q, id).num
    BY <1>1, RecordFacts
  <2> QED
    BY <2>1 DEF Fraction
<1>5. \A e \in heaps[q] : e.sim.num * TrueSim(q, e.id).den = TrueSim(q, e.id).num * e.sim.den
  BY <1>2, <1>3, <1>4
<1>6. \A e, f \in heaps[q] : e.id = f.id => e = f
  BY <1>3
<1>7. ASSUME NEW id \in Ids, \A e \in heaps[q] : e.id # id
      PROVE  /\ AtMost(TrueSim(q, id), Threshold(q))
             /\ Cardinality(heaps[q]) < K => TrueSim(q, id).num = 0
  <2>1. Entry(q, id) \notin heaps[q]
    BY <1>7 DEF Entry
  <2>2. Settled(heaps[q], K, DataSim(q, id))
    BY <2>1, OverIsSettled
  <2> QED
    BY <1>2, <1>4, <2>2 DEF Settled, Threshold
<1> QED
  BY <1>5, <1>6, <1>7

\* Whichever way the records are gone through, and whether the data were preprocessed or
\* not: when the loops of a lookup end, the results of every query are K nearest
\* neighbours with their true similarities.
THEOREM ResultsAreExact == Spec => []ResultIsExact
BY Invariance, IInvIsExact, PTL

LEMMA IInvOverlooksNothing ==
  ASSUME IInv
  PROVE  NothingOverlooked
<1> SUFFICES ASSUME pc = "choose", NEW q \in batch, NEW id \in Ids
             PROVE  \/ \E e \in heaps[q] : e.id = id
                    \/ AtMost(TrueSim(q, id), Threshold(q))
                    \/ IsCovered(q, id)
  BY DEF NothingOverlooked
<1>1. SetupInv /\ ScanInv /\ QueryInv(q) /\ q \in Ids /\ batch \subseteq Ids
  BY DEF IInv, ScanInv
<1>2. TrueSim(q, id) = DataSim(q, id)
  BY <1>1 DEF SetupInv
<1>3. CASE id \notin Ahead(q)
  BY <1>1, <1>2, <1>3 DEF QueryInv, Entry, Settled, Threshold
<1>4. CASE id \in Ahead(q)
  <2>1. q \in active /\ id \in Unread
    BY <1>1, <1>4 DEF Ahead, ScanInv
  <2>2. algorithm \in {"baseline", "baselinepp", "les3", "transformation"}
    BY <1>1 DEF SetupInv
  <2>3. CASE algorithm = "baseline"
    BY <2>1, <2>3 DEF Unread
  <2>4. CASE algorithm = "baselinepp"
    <3>1. id <= left \/ id >= right
      BY <2>1, <2>4 DEF Unread
    <3>2. \/ id <= left /\ AtMost(DataSim(q, id), LeftUb)
          \/ id >= right /\ AtMost(DataSim(q, id), RightUb)
      BY <1>1, <2>4, <3>1, SideIsBound DEF ScanInv
    <3> QED
      BY <1>2, <2>1, <2>4, <3>2 DEF IsCovered
  <2>5. CASE algorithm = "les3"
    <3>1. PICK g \in open : id \in lines[g]
      BY <2>1, <2>5 DEF Unread
    <3>2. batch = {q}
      BY <1>1, <2>5 DEF ScanInv
    <3>3. AtMost(DataSim(q, id), GroupUb(g))
      BY <1>1, <3>1, <3>2, GroupIsBound
    <3> QED
      BY <1>2, <2>5, <3>1, <3>3 DEF IsCovered
  <2>6. CASE algorithm = "transformation"
    <3>1. PICK b \in open : id \in b.ids
      BY <2>1, <2>6 DEF Unread
    <3>2. b.ids \subseteq Ids
      <4>1. b.level + 1 \in 1 .. Len(tree.levels) /\ b.ids \in tree.levels[b.level + 1]
        BY <1>1, <2>6 DEF ScanInv, NodesInv, SetupInv
      <4> QED
        BY <1>1, <2>6, <4>1, NodesAreSets
    <3>3. batch = {q}
      BY <1>1, <2>6 DEF ScanInv
    <3>4. AtMost(DataSim(q, id), NodeUb(b))
      BY <1>1, <2>6, <3>1, <3>2, <3>3, NodeIsBound
    <3> QED
      BY <1>2, <2>6, <3>1, <3>4 DEF IsCovered
  <2> QED
    BY <2>2, <2>3, <2>4, <2>5, <2>6
<1> QED
  BY <1>3, <1>4

\* Between two groups every record is among the results of a query, cannot improve them,
\* or is covered by a bound the query waits for.
THEOREM NothingIsOverlooked == Spec => []NothingOverlooked
BY Invariance, IInvOverlooksNothing, PTL
===============================================================================
