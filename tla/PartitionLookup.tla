---------------------------- MODULE PartitionLookup ----------------------------
(***************************************************************************)
(* PartJoin::lookup (partition.hh): the tokens of a record are parted by   *)
(* their lowest bit, and the index finds the records that have the same     *)
(* part as the query ("partition"), or, one token more or less ("palloc",   *)
(* DELETION in the code).  A part that has been compared without success    *)
(* proves one token of difference, two with the deletion step; what is      *)
(* proved so far bounds the similarity of every record not found yet.      *)
(*                                                                         *)
(* The 64-bit hash of a part stands for the part: that two parts have one   *)
(* hash is left out.                                                       *)
(***************************************************************************)
EXTENDS Integers, FiniteSets, FiniteSetsExt, Preprocess, SetOps, TopKHeap

CONSTANTS
  Datasets,     \* data sets
  K,            \* number of neighbours asked for
  Variants      \* values of DELETION

\* For a universe of size 0 or 1 the code shifts a 32-bit 1 by 32 or counts the
\* leading zeros of zero: what it does then is undefined.
ASSUME PartitionAssumption ==
  /\ K \in Nat \ {0}
  /\ Variants \subseteq BOOLEAN
  /\ \A data \in Datasets : IsDataset(data) /\ UniverseSize(data) >= 2

VARIABLES
  data,        \* the records, by id
  deletion,    \* DELETION
  pc,          \* "idle", "pop" or "list"
  query,       \* id of the query record, -1 between lookups
  steps,       \* sig_heap: steps [sig, deletion] not taken yet
  step,        \* the step taken last
  distance,    \* hamming_distance
  list,        \* records of the lists of this step that are still to come
  candidates,  \* records met so far, also those marked in candidate_bitmap
  marked,      \* candidate_bitmap
  heap         \* result_heap

lookup == <<pc, query, steps, step, distance, list, candidates, marked, heap>>
vars == <<data, deletion, lookup>>

Ids == DOMAIN data

Size(id) == Cardinality(data[id])

-------------------------------------------------------------------------------
(* Parts and index. *)

\* fast_ceil_log2, by the number of bits of n - 1.
CeilLog2(n) == CHOOSE b \in 0 .. n : 2 ^ b >= n /\ \A c \in 0 .. (b - 1) : 2 ^ c < n

PartitionCount == CeilLog2(UniverseSize(data)) + 1

Parts == 0 .. (PartitionCount - 1)

\* next_signature takes the tokens that the next power of two does not divide, of
\* those that no signature before it took.
PartOf(t, i) == t % (2 ^ (i + 1)) # 0 /\ \A j \in 0 .. (i - 1) : t % (2 ^ (j + 1)) = 0

Signature(record, i) == {t \in record : PartOf(t, i)}

Deletions(part) == {part \ {t} : t \in part}

\* index and del_index.
Index(i, part) == {id \in Ids : Signature(data[id], i) = part}

DelIndex(i, part) == {id \in Ids : part \in Deletions(Signature(data[id], i))}

\* deletion_cost adds up what a deletion step would read.
NormalCost(i, part) == Cardinality(Index(i, part))

DeletionCost(i, part) ==
  Cardinality(DelIndex(i, part))
    + MapThenSumSet(LAMBDA p : Cardinality(Index(i, p)), Deletions(part))

QueryPart(i) == Signature(data[query], i)

Cost(s) == IF s.deletion THEN DeletionCost(s.sig, QueryPart(s.sig))
                         ELSE NormalCost(s.sig, QueryPart(s.sig))

\* Mutant of Lists: a deletion step forgets the deletions of the query.
Lists_IndexSideOnly(s) ==
  IF s.deletion THEN DelIndex(s.sig, QueryPart(s.sig))
                ELSE Index(s.sig, QueryPart(s.sig))

\* The records a step reads; one that is in several lists is met once.
Lists(s) ==
  IF s.deletion
  THEN DelIndex(s.sig, QueryPart(s.sig))
         \cup UNION {Index(s.sig, p) : p \in Deletions(QueryPart(s.sig))}
  ELSE Index(s.sig, QueryPart(s.sig))

\* jaccard_bound and two_sided_jaccard_bound for records of distance d.
JaccardBound(querySize, d) == [num |-> querySize, den |-> querySize + d]

\* Mutant of TwoSidedBound: the difference is taken from one side only.
TwoSidedBound_OneSided(querySize, indexSize, d) ==
  [num |-> querySize + indexSize - 2 * d, den |-> querySize + indexSize]

TwoSidedBound(querySize, indexSize, d) ==
  [num |-> querySize + indexSize - d, den |-> querySize + indexSize + d]

-------------------------------------------------------------------------------
NoStep == [sig |-> -1, deletion |-> FALSE]

Init ==
  /\ data \in Datasets
  /\ deletion \in Variants
  /\ pc = "idle"
  /\ query = -1
  /\ steps = {}
  /\ step = NoStep
  /\ distance = 0
  /\ list = {}
  /\ candidates = {}
  /\ marked = {}
  /\ heap = {}

Threshold == HeapThreshold(heap, K)

StartLookup(id) ==
  /\ pc = "idle"
  /\ query' = id
  /\ steps' = [sig : Parts, deletion : {FALSE}]
  /\ pc' = "pop"
  /\ UNCHANGED <<data, deletion, step, distance, list, candidates, marked, heap>>

\* The loop condition; equal costs leave the priority queue in any order.
GoesOn == steps # {} /\ Less(Threshold, JaccardBound(Size(query), distance))

TakeStep(s) ==
  /\ pc = "pop"
  /\ GoesOn
  /\ s \in steps
  /\ \A other \in steps : Cost(s) <= Cost(other)
  /\ step' = s
  /\ steps' = steps \ {s}
  /\ list' = Lists(s)
  /\ pc' = "list"
  /\ UNCHANGED <<data, deletion, query, distance, candidates, marked, heap>>

\* Comparison with a record that may still be a result.
Compare(id) ==
  \E needed \in Eqo(Size(query), Size(id), Threshold) :
    LET overlap == FalsifyOrCompute(data[query], data[id], needed)
    IN IF overlap > 0
       THEN heap' \in Pushed(heap, K,
                        [id |-> id, sim |-> Sim(Size(query), Size(id), overlap)])
       ELSE UNCHANGED heap

\* handle_list, one record; records of a list are met in any order.
Handle(id) ==
  /\ pc = "list"
  /\ id \in list
  /\ list' = list \ {id}
  /\ IF id \in marked
     THEN UNCHANGED <<candidates, marked, heap>>
     ELSE /\ marked' = marked \cup {id}
          /\ candidates' = candidates \cup {id}
          /\ IF AtMost(Threshold, TwoSidedBound(Size(query), Size(id), distance))
             THEN Compare(id)
             ELSE UNCHANGED heap
  /\ UNCHANGED <<data, deletion, pc, query, steps, step, distance>>

\* The lists of the step are done: with DELETION a normal step is followed by a
\* deletion step of its part, and the distance grows.
EndStep ==
  /\ pc = "list"
  /\ list = {}
  /\ steps' = IF deletion /\ ~step.deletion
              THEN steps \cup {[step EXCEPT !.deletion = TRUE]}
              ELSE steps
  /\ distance' = distance + 1
  /\ pc' = "pop"
  /\ UNCHANGED <<data, deletion, query, step, list, candidates, marked, heap>>

IsOver == pc = "pop" /\ ~GoesOn

\* Mutant of Unmarked: the candidates are forgotten, their marks are not.
Unmarked_None == marked

Unmarked == marked \ candidates

\* The cleanup callback of do_multiple_lookups; the rest goes out of scope.
Cleanup ==
  /\ IsOver
  /\ marked' = Unmarked
  /\ candidates' = {}
  /\ query' = -1
  /\ steps' = {}
  /\ step' = NoStep
  /\ distance' = 0
  /\ heap' = {}
  /\ pc' = "idle"
  /\ UNCHANGED <<data, deletion, list>>

Next ==
  \/ \E id \in Ids : StartLookup(id) \/ Handle(id)
  \/ \E s \in steps : TakeStep(s)
  \/ EndStep
  \/ Cleanup

Spec == Init /\ [][Next]_vars

-------------------------------------------------------------------------------
TrueSim(id) == Sim(Size(query), Size(id), Cardinality(data[query] \cap data[id]))

\* The bounds rest on this: a record that has not been met differs from the query
\* in as many tokens as steps have been taken in vain.
DistanceIsEarned ==
  pc = "pop" =>
    \A id \in Ids \ candidates :
      Cardinality((data[query] \ data[id]) \cup (data[id] \ data[query])) >= distance

\* Entries carry their true similarity, and no record that was left out, met or
\* not, beats the threshold.
ResultIsExact ==
  IsOver => /\ \A e \in heap : e.sim = TrueSim(e.id)
            /\ \A id \in Ids : \/ \E e \in heap : e.id = id
                               \/ AtMost(TrueSim(id), Threshold)

\* What compare() calls an error in the result does not happen: the threshold is
\* not below the one of a linear scan, whose heap holds the K best similarities.
CompareIsSilent ==
  IsOver =>
    LET better(id) == Cardinality({x \in Ids : Less(TrueSim(id), TrueSim(x))})
        reaching(id) == Cardinality({x \in Ids : AtMost(TrueSim(id), TrueSim(x))})
    IN \A id \in Ids : better(id) < K /\ K <= reaching(id)
                         => AtMost(TrueSim(id), Threshold)

\* A query starts from a clean bitmap, whatever the query before it met.
NoLeftovers == pc = "idle" => candidates = {} /\ marked = {}
===============================================================================
