------------------------------- MODULE KNNLookup -------------------------------
(***************************************************************************)
(* KNNJoin::lookup (join.hh): one exact k-nearest-neighbour query over the *)
(* positional inverted index, with the event queue of equeue.hh and the    *)
(* heap of topk_heap.hh, run again and again on the state of one thread.   *)
(*                                                                         *)
(* A record is the set of its tokens; the position of a token in the sorted *)
(* record is the number of smaller tokens in it.  A match of the query r and *)
(* a record s is a common token; it lies in row Position(r, token) and       *)
(* column Position(s, token).  An event (pR, grp, pS) of the queue stands for *)
(* the rows up to pR and the columns up to pS of one length group.           *)
(*                                                                         *)
(* Before a candidate is verified it may have to pass the suffix filter (-x) *)
(* and the sketch filter (-v), which bound what it can still have in common *)
(* with the query.                                                         *)
(***************************************************************************)
EXTENDS Integers, FiniteSets, FiniteSetsExt, Preprocess, TopKHeap, Fingerprints

CONSTANT
  Setups   \* joins, as records of
           \*   data:     a function from 0 .. n-1 to non-empty token sets
           \*   k:        number of neighbours asked for
           \*   mode:     "TOPK_BASELINE", "FILTER" or "FULL"
           \*   grouping: "identity", "aio", "fixed", "usqrt" or "wsqrt"
           \*   depth:    depth of the suffix filter, 0 for none
           \*   sketch:   whether the sketch filter is on

Size(records, id) == Cardinality(records[id])

\* SetFileParser leaves the order of the file, which is by size.
ASSUME LookupAssumption ==
  \A s \in Setups :
    /\ s.k \in Nat \ {0}
    /\ s.mode \in {"TOPK_BASELINE", "FILTER", "FULL"}
    /\ s.grouping \in {"identity", "aio", "fixed", "usqrt", "wsqrt"}
    /\ s.depth \in Nat
    /\ IsDataset(s.data)
    /\ SortedBySize(s.data)

VARIABLES
  data,        \* the records, by id
  k,           \* number of neighbours asked for
  mode,        \* positional mode of the join
  groups,      \* lower bounds of the length groups
  depth,       \* depth of the suffix filter
  dual,        \* transformations of the sketch filter, <<>> when it is off
  pc,          \* "idle", "pop", "verify" or "done"
  query,       \* id of the query record, -1 between lookups
  queue,       \* the events of the priority queue; no two are alike
  event,       \* the event popped last
  slots,       \* actual_k, the size of the heap
  heap,        \* the entries of the heap that are not the initial zeros
  candidates,  \* records with a match read so far
  fresh,       \* the candidates found by this event and not verified yet
  overlaps     \* overlaps[id]: matches read, and where the last one lies

lookup == <<pc, query, queue, event, slots, heap, candidates, fresh, overlaps>>
setup == <<data, k, mode, groups, depth, dual>>
vars == <<setup, lookup>>

Ids == RecordIds(data)

-------------------------------------------------------------------------------
(* Set-up: histogram and grouping, fixed for the life of the join. *)

Histogram(records) ==
  [s \in {Size(records, id) : id \in RecordIds(records)} |->
     s * Cardinality({id \in RecordIds(records) : Size(records, id) = s})]

TokenCount(records) == TotalWeight(Histogram(records))

MaxCandidatePairs(records) ==
  MapThenSumSet(LAMBDA t : TokenFrequency(records, t) ^ 2, UsedTokens(records))

AtLeastOne(n) == IF n > 1 THEN n ELSE 1

FixedWidth == 3

Grouping(name, records) ==
  LET hist == Histogram(records) IN
  CASE name = "identity" -> ExactGrouping(hist)
    [] name = "aio"      -> AioGrouping(hist)
    [] name = "fixed"    -> FixedWidthGrouping(hist, FixedWidth)
    [] name = "usqrt"    ->
         BalancedGrouping(hist, AtLeastOne(RoundedRoot(TokenCount(records),
                                             2 * UniverseSize(records))))
    [] name = "wsqrt"    ->
         BalancedGrouping(hist, AtLeastOne(RoundedRoot(MaxCandidatePairs(records),
                                             32 * TokenCount(records))))

\* The loop of the fixed grouping makes no group for records of one size: what a
\* lookup then reads lies before the first group.
HasGroups(name, records) ==
  name = "fixed" => LET hist == Histogram(records)
                    IN SmallestSize(hist) < LargestSize(hist)

\* topkbaseline runs with the aio grouping whatever -g says.
GroupingFor(m, name) == IF m = "TOPK_BASELINE" THEN "aio" ELSE name

\* SetData::count_frequency
CountFrequency(records) ==
  [t \in 0 .. UniverseSize(records) |-> TokenFrequency(records, t)]

NoEvent == [pR |-> 0, grp |-> 0, pS |-> 0, ub |-> Zero]

Init ==
  /\ \E s \in Setups :
       LET name == GroupingFor(s.mode, s.grouping) IN
       /\ data = s.data /\ k = s.k /\ mode = s.mode /\ depth = s.depth
       /\ HasGroups(name, s.data)
       /\ groups = Grouping(name, s.data)
       /\ dual \in IF s.sketch THEN DualTransformations(CountFrequency(s.data)) ELSE {<<>>}
  /\ pc = "idle"
  /\ query = -1
  /\ queue = {}
  /\ event = NoEvent
  /\ slots = 0
  /\ heap = {}
  /\ candidates = {}
  /\ fresh = {}
  /\ overlaps = [id \in Ids |-> [overlap |-> 0, pR |-> 0, pS |-> 0]]

-------------------------------------------------------------------------------
(* The query record and the data. *)
RSize == Size(data, query)

Position(record, token) == Cardinality({x \in record : x < token})

Matches(id) ==
  {[row |-> Position(data[query], t), col |-> Position(data[id], t)] :
     t \in data[query] \cap data[id]}

\* Mutant of ActualK: the tokens of the query are counted, not their records.
ActualK_TokensOnly(id) ==
  IF Size(data, id) >= k THEN k ELSE Size(data, id)

\* sim_above_zero: no more neighbours than records read from the query's lists.
ActualK(id) ==
  LET sum == MapThenSumSet(LAMBDA t : TokenFrequency(data, t), data[id])
  IN IF sum >= k THEN k ELSE sum

-------------------------------------------------------------------------------
(* TopKHeap. *)

Threshold == HeapThreshold(heap, slots)

Push(entry) == heap' \in Pushed(heap, slots, entry)

-------------------------------------------------------------------------------
(* EQueue. *)
Event(rSize, pR, g, pS) ==
  [pR |-> pR, grp |-> g, pS |-> pS, ub |-> GroupedSimUb(groups, rSize, g, pR)]

\* The last group, before the tombstone.
LastGroup == GroupCount(groups) - 1

\* The records of the group before g lack at least this many rows of the query.
FirstShorter(g, rSize) == Event(rSize, rSize - UpperBound(groups, g - 1), g - 1, 0)

\* The group of the query, the next larger sizes and the next smaller ones.
InitialEvents(rSize) ==
  LET g == GroupOf(groups, rSize) IN
  {Event(rSize, 0, g, UpperBound(groups, g) - rSize)}
    \cup (IF g < LastGroup
          THEN {Event(rSize, 0, g + 1, UpperBound(groups, g + 1) - rSize)} ELSE {})
    \cup (IF g > 0 THEN {FirstShorter(g, rSize)} ELSE {})

IncPos(pS, g) == pS + (LowerBound(groups, g + 1) - LowerBound(groups, g))

DecPos(pR, g) == pR + (UpperBound(groups, g) - UpperBound(groups, g - 1))

\* Mutant of HasShorterGroup: the first group is not reached.
HasShorterGroup_NotFirst(g) == g > 1

HasShorterGroup(g) == g > 0

\* One row and one column further, and from the first row of a group of longer
\* (the first column of a group of shorter) records on to the next group.
NextEvents(e) ==
  {Event(RSize, e.pR + 1, e.grp, e.pS + 1)}
    \cup (IF /\ LowerBound(groups, e.grp) > RSize
             /\ e.pR = 0
             /\ e.grp < LastGroup
          THEN {Event(RSize, e.pR, e.grp + 1, IncPos(e.pS, e.grp))} ELSE {})
    \cup (IF /\ LowerBound(groups, e.grp) <= RSize
             /\ UpperBound(groups, e.grp) < RSize
             /\ e.pS = 0
             /\ HasShorterGroup(e.grp)
          THEN {Event(RSize, DecPos(e.pR, e.grp), e.grp - 1, e.pS)} ELSE {})

\* The event by which a group of shorter records is entered.
ProbeVertical(e) == GroupOf(groups, RSize) > e.grp /\ e.pS = 0

-------------------------------------------------------------------------------
(* inv_index: what a read sees of one record's matches.  The parts of a   *)
(* read follow each other, and a part is read by ascending rows.           *)
GroupRecords(g) == {id \in Ids : GroupOf(groups, Size(data, id)) = g}

Part(n, matches) == {[part |-> n, match |-> m] : m \in matches}

ReadHorizontal(id, pR, pUb) == {m \in Matches(id) : m.row = pR /\ m.col <= pUb}

ReadVerticalFiltered(id, pR, pUb) == {m \in Matches(id) : m.row <= pR /\ m.col <= pUb}

\* Mutant of ReadVertical: the bound is taken to be inclusive.
ReadVertical_Inclusive(id, pR, pS) == {m \in Matches(id) : m.row <= pR /\ m.col = pS}

\* Rows below pR of one column.
ReadVertical(id, pR, pS) == {m \in Matches(id) : m.row < pR /\ m.col = pS}

\* The third part is the column before pS, read once more.
ReadCross(id, pR, pS) ==
  Part(1, ReadHorizontal(id, pR, pS))
    \cup Part(2, ReadVertical(id, pR, pS))
    \cup Part(3, IF pS > 0 THEN ReadVertical(id, pR, pS - 1) ELSE {})

\* p_ub by mode; MAX_INT lets every column pass.
ColumnBounds(e) ==
  CASE mode = "FULL" ->
         {Min({e.pS, p}) : p \in MaxGroupedPs(groups, RSize, e.grp, Threshold)}
    [] mode = "FILTER" -> MaxGroupedPs(groups, RSize, e.grp, Threshold)
    [] mode = "TOPK_BASELINE" -> {UpperBound(groups, e.grp)}

Read(id, e, pUb) ==
  IF mode = "FULL" /\ pUb = e.pS
  THEN ReadCross(id, e.pR, e.pS)
  ELSE IF ProbeVertical(e)
       THEN Part(1, ReadVerticalFiltered(id, e.pR, pUb))
       ELSE Part(1, ReadHorizontal(id, e.pR, pUb))

LastRead(reads) ==
  (CHOOSE x \in reads :
     \A y \in reads : \/ y.part < x.part
                      \/ y.part = x.part /\ y.match.row <= x.match.row).match

AfterRead(old, reads) ==
  IF reads = {}
  THEN old
  ELSE [overlap |-> old.overlap + Cardinality(reads),
        pR      |-> LastRead(reads).row,
        pS      |-> LastRead(reads).col]

-------------------------------------------------------------------------------
(* lookup. *)
StartLookup(id) ==
  /\ pc = "idle"
  /\ query' = id
  /\ slots' = ActualK(id)
  /\ queue' = InitialEvents(Size(data, id))
  /\ pc' = "pop"
  /\ UNCHANGED <<setup, event, heap, candidates, fresh, overlaps>>

\* Mutant of IsOver: only the end of the queue ends the lookup.
IsOver_WhenEmpty == queue = {}

\* No event left, or none that can beat the threshold.
IsOver == \A e \in queue : AtMost(e.ub, Threshold)

\* Events of equal bound leave the priority queue in any order.
IsTop(e) == \A f \in queue : AtMost(f.ub, e.ub)

\* The most promising event is popped and its part of the index read.  A token
\* behind the end of the query record cannot be read: a lookup that gets there does
\* not go on.
PopAndRead(e) ==
  /\ pc = "pop"
  /\ ~IsOver
  /\ e \in queue
  /\ IsTop(e)
  /\ e.pR < RSize
  /\ \E pUb \in ColumnBounds(e) :
       \E reads \in {[id \in GroupRecords(e.grp) |-> Read(id, e, pUb)]} :
         overlaps' = [id \in Ids |-> IF id \in DOMAIN reads
                                    THEN AfterRead(overlaps[id], reads[id])
                                    ELSE overlaps[id]]
  /\ fresh' = {id \in Ids : overlaps[id].overlap = 0 /\ overlaps'[id].overlap > 0}
  /\ candidates' = candidates \cup fresh'
  /\ event' = e
  /\ queue' = queue \ {e}
  /\ pc' = "verify"
  /\ UNCHANGED <<setup, query, slots, heap>>

\* falsify_or_compute from the last match read on: the overlap found so far and
\* the matches that follow, or -1 when that stays below the bound asked for.
FalsifyOrComputeRest(id, needed) ==
  LET o == overlaps[id]
      total == o.overlap
                 + Cardinality({m \in Matches(id) : m.row > o.pR /\ m.col > o.pS})
  IN IF total >= needed THEN total ELSE -1

\* suffix_filter: the symmetric difference of two suffixes, from below.  The middle
\* token of s cuts both in two; when their sizes alone tell that they differ by more
\* than most, or at depth 0, the halves are not looked at.  (If no token of r reaches
\* the middle one, the code compares it with what lies behind the vector; either
\* answer leaves the same distance.)
Apart(r, s) ==
  Max({Cardinality(r) - Cardinality(s), Cardinality(s) - Cardinality(r)})

Middle(s) == CHOOSE t \in s : Position(s, t) = Cardinality(s) \div 2

Below(record, token) == {t \in record : t < token}
Above(record, token) == {t \in record : t > token}

SuffixDistance ==
  LET tokens == SUBSET UsedTokens(data)
      distance[c \in [depth : 0 .. depth, r : tokens, s : tokens, most : Int]] ==
        LET middle == Middle(c.s)
            diff == IF middle \in c.r THEN 0 ELSE 1
            lower == Apart(Below(c.r, middle), Below(c.s, middle))
            upper == Apart(Above(c.r, middle), Above(c.s, middle))
        IN IF c.depth = 0 \/ c.r = {} \/ c.s = {} THEN Apart(c.r, c.s)
           ELSE IF lower + upper + diff > c.most THEN lower + upper + diff
           ELSE distance[[depth |-> c.depth - 1, most |-> c.most - upper - diff,
                          r |-> Below(c.r, middle), s |-> Below(c.s, middle)]]
                + distance[[depth |-> c.depth - 1, most |-> c.most - lower - diff,
                            r |-> Above(c.r, middle), s |-> Above(c.s, middle)]]
                + diff
  IN distance

\* What follows the last match read in a record.
Rest(record, p) == {t \in record : Position(record, t) > p}

\* Mutant of MaxDistance: the overlap found so far is left out.
MaxDistance_NoOverlap(id, needed) ==
  LET o == overlaps[id] IN RSize + Size(data, id) - 2 * needed - (o.pR + o.pS + 2)

\* max_hd: with more differences behind the last match than this, the records have
\* fewer tokens in common than needed.
MaxDistance(id, needed) ==
  LET o == overlaps[id] IN
  RSize + Size(data, id) - 2 * (needed - o.overlap) - (o.pR + o.pS + 2)

PassesSuffixFilter(id, needed) ==
  LET most == MaxDistance(id, needed) IN
  SuffixDistance[[depth |-> depth, most |-> most,
                  r |-> Rest(data[query], overlaps[id].pR),
                  s |-> Rest(data[id], overlaps[id].pS)]] <= most

PassesSketchFilter(id, needed) ==
  MaxOverlap(Fingerprint(data[query], dual), Fingerprint(data[id], dual)) >= needed

Passes(id, needed) ==
  /\ depth > 0 => PassesSuffixFilter(id, needed)
  /\ dual # <<>> => PassesSketchFilter(id, needed)

\* The code verifies in the order of reading; any order is allowed here.
Verify(id) ==
  /\ pc = "verify"
  /\ id \in fresh
  /\ fresh' = fresh \ {id}
  /\ \E needed \in Eqo(RSize, Size(data, id), Threshold) :
       LET result == FalsifyOrComputeRest(id, needed)
       IN IF Passes(id, needed) /\ result > 0
          THEN Push([id |-> id, sim |-> Sim(RSize, Size(data, id), result)])
          ELSE UNCHANGED heap
  /\ UNCHANGED <<setup, pc, query, queue, event, slots, candidates,
                 overlaps>>

EnqueueNext ==
  /\ pc = "verify"
  /\ fresh = {}
  /\ queue' = queue \cup NextEvents(event)
  /\ pc' = "pop"
  /\ UNCHANGED <<setup, query, event, slots, heap, candidates, fresh,
                 overlaps>>

EndLookup ==
  /\ pc = "pop"
  /\ IsOver
  /\ pc' = "done"
  /\ UNCHANGED <<setup, query, queue, event, slots, heap, candidates, fresh, overlaps>>

\* Mutant of ResetOverlaps: the candidates are forgotten before their overlaps.
ResetOverlaps_None == overlaps

ResetOverlaps ==
  [id \in Ids |-> IF id \in candidates THEN [overlaps[id] EXCEPT !.overlap = 0]
                                      ELSE overlaps[id]]

\* The cleanup callback of do_multiple_lookups; queue and heap go out of scope.
Cleanup ==
  /\ pc = "done"
  /\ overlaps' = ResetOverlaps
  /\ candidates' = {}
  /\ queue' = {}
  /\ heap' = {}
  /\ event' = NoEvent
  /\ slots' = 0
  /\ query' = -1
  /\ pc' = "idle"
  /\ UNCHANGED <<setup, fresh>>

Next ==
  \/ \E id \in Ids : StartLookup(id) \/ Verify(id)
  \/ \E e \in queue : PopAndRead(e)
  \/ EnqueueNext
  \/ EndLookup
  \/ Cleanup

Spec == Init /\ [][Next]_vars

\* A lookup is sequential code: it goes on while it has a step.
FairSpec == Spec /\ WF_vars(pc # "idle" /\ Next)

-------------------------------------------------------------------------------
TypeOK ==
  /\ pc \in {"idle", "pop", "verify", "done"}
  /\ query \in Ids \cup {-1}
  /\ candidates \subseteq Ids
  /\ fresh \subseteq candidates
  /\ slots \in 0 .. k
  /\ Cardinality(heap) <= slots
  /\ \A e \in queue : e.grp \in 0 .. LastGroup /\ e.pR \in Nat /\ e.pS \in Int
  /\ \A id \in Ids : overlaps[id].overlap \in Nat

TrueSim(id) ==
  Sim(RSize, Size(data, id), Cardinality(data[query] \cap data[id]))

\* The result is exact: what the heap holds has its true similarity, no record
\* outside the heap is more similar than the threshold, and when fewer than k
\* neighbours are found the others have nothing in common with the query.
ResultIsExact ==
  pc = "done" =>
    /\ \A e \in heap : e.sim = TrueSim(e.id)
    /\ \A id \in Ids :
         (\A e \in heap : e.id # id)
           => /\ AtMost(TrueSim(id), Threshold)
              /\ Cardinality(heap) < k => TrueSim(id).num = 0

\* Why the early end is right: while events are left, a record that could still
\* enter the heap and was not met has an event whose bound covers it.
UnseenIsCovered ==
  pc = "pop" =>
    \A id \in Ids \ candidates :
      Less(Threshold, TrueSim(id))
        => \E e \in queue : AtMost(TrueSim(id), e.ub)

\* Verification resumes behind the last match read: the overlap handed to it
\* counts every match up to there, none missed by a filter and none twice.
PartialOverlapIsExact ==
  pc = "verify" =>
    \A id \in fresh :
      overlaps[id].overlap =
        Cardinality({m \in Matches(id) :
                       m.row <= overlaps[id].pR /\ m.col <= overlaps[id].pS})

\* A query starts from clean thread state, whatever the query before it read.
NoLeftovers ==
  pc = "idle" => candidates = {} /\ \A id \in Ids : overlaps[id].overlap = 0

\* Every lookup ends: the bounds of the events it adds run out.
LookupEnds == pc # "idle" ~> pc = "idle"

\* The assertion of KNNJoin::compare: the threshold is the one the exhaustive
\* baseline ends with.  Its heap of k entries holds the k best similarities.
BaselineThreshold ==
  LET better(id) == Cardinality({x \in Ids : Less(TrueSim(id), TrueSim(x))})
      reaching(id) == Cardinality({x \in Ids : AtMost(TrueSim(id), TrueSim(x))})
      kth == {id \in Ids : better(id) < k /\ k <= reaching(id)}
  IN IF kth = {} THEN Zero ELSE TrueSim(CHOOSE id \in kth : TRUE)

CompareAssertion ==
  pc = "done" => /\ AtMost(Threshold, BaselineThreshold)
                 /\ AtMost(BaselineThreshold, Threshold)
===============================================================================
