------------------------------ MODULE ScanLookup ------------------------------
(***************************************************************************)
(* The lookups that compare a query with records one by one, and differ in *)
(* the records they leave out:                                             *)
(*   - baseline.hh compares a batch of queries with every record;           *)
(*   - baselinepp.hh takes a batch of queries of one size, starts with the *)
(*     records of that size and goes on to shorter (left) and longer        *)
(*     (right) ones, most promising size first, for as long as the size     *)
(*     alone allows a better neighbour;                                     *)
(*   - les3.hh reads groups of records from a file, bounds each group by   *)
(*     the tokens of the query that occur in it (tgm_c.hh) and takes the   *)
(*     groups in the order of the bounds;                                  *)
(*   - transformation.hh keeps the fingerprints of the records in an R-tree *)
(*     (boost::geometry, external) and goes into the node whose box bounds *)
(*     the similarity least.                                               *)
(* All may run on preprocessed data but les3: the group file names records *)
(* by their place in the input.                                            *)
(***************************************************************************)
EXTENDS Integers, FiniteSets, FiniteSetsExt, Preprocess, SetOps, TopKHeap,
        Fingerprints

CONSTANTS
  Datasets,       \* data sets as they are read from a file
  K,              \* number of neighbours asked for
  Algorithms,     \* "baseline", "baselinepp", "les3", "transformation"
  Preprocessing,  \* bound: those of them that are run with --preprocess as well
  BatchBound,     \* bound: queries of a batch
  GroupFiles(_),  \* GroupFiles(n): group files for n records; file[i] is the set
                  \* of the ids on line i
  Trees(_)        \* Trees(n): R-trees over n records; tree[l + 1] is the partition
                  \* of the ids by the nodes of level l, leaves have level 0

\* The nodes of a level part the ids, those of a lower level part the nodes above them,
\* and one node is the root.
IsTree(levels, ids) ==
  /\ Len(levels) > 0
  /\ levels[Len(levels)] = {ids}
  /\ \A l \in 1 .. Len(levels) :
       /\ UNION levels[l] = ids
       /\ \A s, t \in levels[l] : s # t => s \cap t = {}
  /\ \A l \in 2 .. Len(levels) :
       \A s \in levels[l - 1] : \E t \in levels[l] : s \subseteq t

ASSUME ScanAssumption ==
  /\ K \in Nat \ {0}
  /\ Algorithms \subseteq {"baseline", "baselinepp", "les3", "transformation"}
  /\ "les3" \notin Preprocessing
  /\ \A records \in Datasets :
       /\ IsDataset(records)
       /\ \A levels \in Trees(Cardinality(RecordIds(records))) :
            levels \in Seq(SUBSET SUBSET RecordIds(records)) /\ IsTree(levels, RecordIds(records))

VARIABLES
  raw,         \* the data set as it was read
  origin,      \* history: origin[id] is the place in raw of record id
  data,        \* the records the join works on
  algorithm,
  lines,       \* les3: the group file
  tree,        \* transformation: the tree and the transformations t1, t2
  pc,          \* "load", "failed", "idle", "scan" or "choose"
  batch,       \* the queries looked up together
  active,      \* baselinepp: those of them that still read records
  heaps,       \* heaps[q]: the results of query q
  left, right, \* baselinepp: the next shorter and the next longer record
  open,        \* les3, transformation: groups, nodes in the priority queue
  side,        \* baselinepp: the direction of the scan
  rest         \* records of the group being scanned that are still to come

setup == <<raw, origin, data, algorithm, lines, tree>>
places == <<left, right, open, side>>
vars == <<setup, pc, batch, active, heaps, places, rest>>

Ids == DOMAIN data

Size(id) == Cardinality(data[id])

-------------------------------------------------------------------------------
(* Set-up. *)

\* The data and the ids it had in the input, with and without --preprocess.
Loaded(records) ==
  {[data |-> records, origin |-> [id \in RecordIds(records) |-> id]]}

Preprocessed(records) ==
  {[data |-> Relabeled(records, relabel, order), origin |-> order] :
     relabel \in Relabelings(records), order \in SizeOrders(records)}

\* baselinepp finds sizes by a binary search: its input is sorted by size.
Inputs(records) ==
  {i \in Loaded(records) : algorithm = "baselinepp" => SortedBySize(i.data)}
    \cup (IF algorithm \in Preprocessing THEN Preprocessed(records) ELSE {})

\* SetData::count_frequency
Frequency(records) ==
  [t \in 0 .. UniverseSize(records) |-> TokenFrequency(records, t)]

Init ==
  /\ raw \in Datasets
  /\ algorithm \in Algorithms
  /\ \E input \in Inputs(raw) : data = input.data /\ origin = input.origin
  /\ IF algorithm = "les3"
     THEN lines \in GroupFiles(Cardinality(RecordIds(raw))) /\ pc = "load"
     ELSE lines = <<>> /\ pc = "idle"
  /\ IF algorithm = "transformation"
     THEN tree \in [dual : DualTransformations(Frequency(data)),
                    levels : Trees(Cardinality(RecordIds(raw)))]
     ELSE tree = <<>>
  /\ batch = {}
  /\ active = {}
  /\ heaps = <<>>
  /\ left = -1
  /\ right = Cardinality(RecordIds(raw))
  /\ open = {}
  /\ side = "right"
  /\ rest = {}

Groups == DOMAIN lines

\* Mutant of GroupFileIsValid: no id is missed.
GroupFileIsValid_MayMiss ==
  /\ \A g \in Groups : lines[g] \subseteq Ids
  /\ \A g, h \in Groups : g # h => lines[g] \cap lines[h] = {}

\* read_groups throws for an id out of range, a duplicate and a missing one.
GroupFileIsValid ==
  /\ \A g \in Groups : lines[g] \subseteq Ids
  /\ \A g, h \in Groups : g # h => lines[g] \cap lines[h] = {}
  /\ UNION {lines[g] : g \in Groups} = Ids

ReadGroups ==
  /\ pc = "load"
  /\ pc' = IF GroupFileIsValid THEN "idle" ELSE "failed"
  /\ UNCHANGED <<setup, batch, active, heaps, places, rest>>

-------------------------------------------------------------------------------
(* Comparing records. *)
Threshold(q) == HeapThreshold(heaps[q], K)

\* les3 takes a record without a common token for a neighbour while the heap has
\* initial entries left.
IsResult(overlap) == IF algorithm = "les3" THEN overlap >= 0 ELSE overlap > 0

\* transformation.hh: store_value, which keeps what it has when nothing is gained.
Stored(heap, slots, entry) ==
  IF Cardinality(heap) < slots \/ Less(HeapThreshold(heap, slots), entry.sim)
  THEN Pushed(heap, slots, entry)
  ELSE {heap}

Point(id) == Fingerprint(data[id], tree.dual)

\* tree_point.hh: calculate_distance gives up when the fingerprints of the records
\* have too little in common.
IsHopeless(q, id, needed) ==
  algorithm = "transformation" /\ MaxOverlap(Point(q), Point(id)) < needed

\* What the heap of q may be after the comparison with record id.
Compared(q, id) ==
  UNION {LET overlap == FalsifyOrCompute(data[q], data[id], needed)
             entry == [id |-> id, sim |-> Sim(Size(q), Size(id), overlap)]
         IN IF IsHopeless(q, id, needed) \/ ~IsResult(overlap) THEN {heaps[q]}
            ELSE IF algorithm = "transformation" THEN Stored(heaps[q], K, entry)
            ELSE Pushed(heaps[q], K, entry) : needed \in Eqo(Size(q), Size(id), Threshold(q))}

\* Upwards, on the left side downwards; the ids of a line in their order in the
\* file and those of a leaf in theirs, which may be any.
ScannedNext(id) ==
  \/ algorithm \in {"les3", "transformation"}
  \/ id = IF side = "left" THEN Max(rest) ELSE Min(rest)

ScanRecord(id) ==
  /\ pc = "scan"
  /\ id \in rest
  /\ ScannedNext(id)
  /\ rest' = rest \ {id}
  /\ \E after \in [active -> UNION {Compared(q, id) : q \in active}] :
       /\ \A q \in active : after[q] \in Compared(q, id)
       /\ heaps' = [q \in batch |-> IF q \in active THEN after[q] ELSE heaps[q]]
  /\ UNCHANGED <<setup, pc, batch, active, places>>

EndGroup ==
  /\ pc = "scan"
  /\ rest = {}
  /\ pc' = "choose"
  /\ UNCHANGED <<setup, batch, active, heaps, places, rest>>

\* New heaps, all queries active; group is scanned first.
StartScan(queries, group) ==
  /\ pc = "idle"
  /\ batch' = queries
  /\ active' = queries
  /\ heaps' = [q \in queries |-> {}]
  /\ rest' = group
  /\ side' = "right"
  /\ pc' = "scan"
  /\ UNCHANGED setup

-------------------------------------------------------------------------------
(* baseline.hh: linear_scan_batch *)
StartBaseline(queries) ==
  /\ algorithm = "baseline"
  /\ StartScan(queries, Ids)
  /\ UNCHANGED <<left, right, open>>

-------------------------------------------------------------------------------
(* baselinepp.hh: linear_scan_batch; data is sorted by size. *)
OfSize(size) == {id \in Ids : Size(id) = size}

\* All queries of a batch have one size, and records of that size exist.
StartBaselinepp(queries) ==
  /\ algorithm = "baselinepp"
  /\ \E same \in {OfSize(Size(q)) : q \in queries} :
       /\ queries \subseteq same
       /\ StartScan(queries, same)
       /\ left' = Min(same) - 1
       /\ right' = Max(same) + 1
  /\ UNCHANGED open

NoRecord == [num |-> -1, den |-> 1]

\* compute_upper_bound
SizeUb(idx) ==
  IF idx \in Ids THEN SimUb(Size(CHOOSE q \in batch : TRUE), Size(idx), 0, 0)
                 ELSE NoRecord

LeftUb == SizeUb(left)
RightUb == SizeUb(right)

Larger(x, y) == IF Less(x, y) THEN y ELSE x

\* Mutant of StillActive: a query gives up when the right side has nothing for it.
StillActive_RightOnly == {q \in active : Less(Threshold(q), RightUb)}

\* remove_inactive_queries
StillActive == {q \in active : Less(Threshold(q), Larger(LeftUb, RightUb))}

ScanSide(queries) ==
  /\ active' = queries
  /\ pc' = "scan"
  /\ IF Less(RightUb, LeftUb)
     THEN /\ side' = "left"
          /\ rest' = OfSize(Size(left))
          /\ left' = Min(rest') - 1
          /\ UNCHANGED right
     ELSE /\ side' = "right"
          /\ rest' = OfSize(Size(right))
          /\ right' = Max(rest') + 1
          /\ UNCHANGED left
  /\ UNCHANGED <<setup, batch, heaps, open>>

\* Queries that are settled leave, and the more promising side goes on.
NextSize ==
  /\ algorithm = "baselinepp"
  /\ pc = "choose"
  /\ left \in Ids \/ right \in Ids
  /\ StillActive # {}
  /\ ScanSide(StillActive)

-------------------------------------------------------------------------------
(* les3.hh: findKNN *)
Query == CHOOSE q \in batch : TRUE

\* TGM_C::construct
GroupTokens(g) == UNION {data[id] : id \in lines[g]}

\* TGM_C::getUB
GroupUb(g) == [num |-> Cardinality(data[Query] \cap GroupTokens(g)), den |-> Size(Query)]

StartLes3(q) ==
  /\ algorithm = "les3"
  /\ StartScan({q}, {})
  /\ open' = Groups
  /\ UNCHANGED <<left, right>>

\* The queue is ordered by bound, then by group id.
IsTop(g) ==
  \A h \in open : \/ Less(GroupUb(h), GroupUb(g))
                  \/ AtMost(GroupUb(h), GroupUb(g)) /\ h <= g

NextGroup(g) ==
  /\ algorithm = "les3"
  /\ pc = "choose"
  /\ IsTop(g)
  /\ Less(Threshold(Query), GroupUb(g))
  /\ rest' = lines[g]
  /\ open' = open \ {g}
  /\ pc' = "scan"
  /\ UNCHANGED <<setup, batch, active, heaps, left, right, side>>

-------------------------------------------------------------------------------
(* transformation.hh: distance_query::apply *)
Root == [level |-> Len(tree.levels) - 1, ids |-> Ids]

Children(node) ==
  {[level |-> node.level - 1, ids |-> ids] :
     ids \in {s \in tree.levels[node.level] : s \subseteq node.ids}}

NodeUb(node) == BoxUb(Point(Query), BoxAround({Point(id) : id \in node.ids}))

\* ignore_branch
IsIgnored(node) ==
  Cardinality(heaps[Query]) = K /\ AtMost(NodeUb(node), Threshold(Query))

StartTransformation(q) ==
  /\ algorithm = "transformation"
  /\ StartScan({q}, {})
  /\ open' = {Root}
  /\ UNCHANGED <<left, right>>

\* The node of the least distance is taken from the branches; its children join
\* them unless they are ignored already, or its records are scanned.
EnterNode(node) ==
  /\ algorithm = "transformation"
  /\ pc = "choose"
  /\ \A b \in open : AtMost(NodeUb(b), NodeUb(node))
  /\ ~IsIgnored(node)
  /\ IF node.level > 0
     THEN /\ open' = (open \ {node}) \cup {c \in Children(node) : ~IsIgnored(c)}
          /\ UNCHANGED <<pc, rest>>
     ELSE /\ open' = open \ {node}
          /\ rest' = node.ids
          /\ pc' = "scan"
  /\ UNCHANGED <<setup, batch, active, heaps, left, right, side>>

-------------------------------------------------------------------------------
\* When the loops end: after all records; when the sizes are used up or all
\* queries settled; when no group or node in the queue promises more than the threshold.
IsOver ==
  /\ pc = "choose"
  /\ CASE algorithm = "baseline"   -> TRUE
       [] algorithm = "baselinepp" -> \/ left \notin Ids /\ right \notin Ids
                                      \/ StillActive = {}
       [] algorithm = "les3"       ->
            \A g \in open : AtMost(GroupUb(g), Threshold(Query))
       [] algorithm = "transformation" -> \A b \in open : IsIgnored(b)

Finish ==
  /\ IsOver
  /\ pc' = "idle"
  /\ batch' = {}
  /\ active' = {}
  /\ heaps' = <<>>
  /\ left' = -1
  /\ right' = Cardinality(Ids)
  /\ open' = {}
  /\ side' = "right"
  /\ UNCHANGED <<setup, rest>>

Next ==
  \/ ReadGroups
  \/ \E queries \in SUBSET Ids :
       /\ Cardinality(queries) \in 1 .. BatchBound
       /\ StartBaseline(queries) \/ StartBaselinepp(queries)
  \/ \E q \in Ids : StartLes3(q) \/ StartTransformation(q)
  \/ \E id \in rest : ScanRecord(id)
  \/ EndGroup
  \/ NextSize
  \/ \E g \in open : NextGroup(g) \/ EnterNode(g)
  \/ Finish

Spec == Init /\ [][Next]_vars

-------------------------------------------------------------------------------
\* Similarities are those of the records as they were read.
TrueSim(q, id) ==
  LET r == raw[origin[q]]
      s == raw[origin[id]]
  IN Sim(Cardinality(r), Cardinality(s), Cardinality(r \cap s))

\* The result is exact with respect to the data as they were read: entries carry
\* their true similarity, no record occurs twice, no record left out is more
\* similar than the threshold, and with fewer than K results the records left
\* out have nothing in common with the query.
ResultIsExact ==
  IsOver =>
    \A q \in batch :
      /\ \A e \in heaps[q] : e.sim.num * TrueSim(q, e.id).den
                               = TrueSim(q, e.id).num * e.sim.den
      /\ \A e, f \in heaps[q] : e.id = f.id => e = f
      /\ \A id \in Ids :
           (\A e \in heaps[q] : e.id # id)
             => /\ AtMost(TrueSim(q, id), Threshold(q))
                /\ Cardinality(heaps[q]) < K => TrueSim(q, id).num = 0

\* The record is still to be read, and what the algorithm knows of where it lies
\* does not promise less than its similarity.
IsCovered(q, id) ==
  CASE algorithm = "baseline"   -> FALSE
    [] algorithm = "baselinepp" -> /\ q \in active
                                   /\ \/ id <= left  /\ AtMost(TrueSim(q, id), LeftUb)
                                      \/ id >= right /\ AtMost(TrueSim(q, id), RightUb)
    [] algorithm = "les3"       ->
         \E g \in open : id \in lines[g] /\ AtMost(TrueSim(q, id), GroupUb(g))
    [] algorithm = "transformation" ->
         \E b \in open : id \in b.ids /\ AtMost(TrueSim(q, id), NodeUb(b))

\* Nothing is overlooked: between two groups every record is among the results of
\* a query, cannot improve them, or is covered by a bound the query waits for.
NothingOverlooked ==
  pc = "choose" =>
    \A q \in batch, id \in Ids :
      \/ \E e \in heaps[q] : e.id = id
      \/ AtMost(TrueSim(q, id), Threshold(q))
      \/ IsCovered(q, id)
===============================================================================
