------------------------- MODULE PartitionLookupProofs -------------------------
(***************************************************************************)
(* Proofs about PartitionLookup: a query starts from a clean bitmap, every  *)
(* unit of the distance bound is earned, for every data set, and the result *)
(* is exact unless the largest token is a power of two, in both variants.   *)
(*                                                                         *)
(* That the bound is earned is shown by witnesses: for a record not met,    *)
(* there is a set of as many tokens it does not share with the query as     *)
(* steps are completed.  A normal step adds a token of its part, a deletion *)
(* step another one.  That the new token is none of the old ones is what    *)
(* the invariant has to say about parts: those with a step to come hold no  *)
(* witness before their normal step and a single one after it.              *)
(***************************************************************************)
EXTENDS PartitionLookup, TopKProofs

\* The steps that are not completed.
Open == IF pc = "list" THEN steps \cup {step} ELSE steps

StepsAreDistinct ==
  /\ Open \subseteq [sig : Parts, deletion : BOOLEAN]
  /\ \A s, u \in Open : s.sig = u.sig => s = u
  /\ pc = "list" => step \notin steps

Control ==
  /\ data \in Datasets
  /\ pc \in {"idle", "pop", "list"}
  /\ pc # "idle" => query \in Ids
  /\ distance \in Nat
  /\ marked = candidates
  /\ pc = "idle" => candidates = {} /\ distance = 0

\* A record of the lists of the step has been met or is still to come.
ListIsComplete ==
  pc = "list" => \A id \in Ids \ candidates : id \in Lists(step) => id \in list

Difference(id) == (data[query] \ data[id]) \cup (data[id] \ data[query])

IsWitness(id, W) ==
  /\ W \subseteq Difference(id)
  /\ IsFiniteSet(W)
  /\ Cardinality(W) = distance
  /\ \A s \in Open : IF s.deletion THEN \E w : Signature(W, s.sig) = {w}
                                   ELSE Signature(W, s.sig) = {}

HasWitnesses == pc # "idle" => \A id \in Ids \ candidates : \E W : IsWitness(id, W)

IInv == Control /\ StepsAreDistinct /\ ListIsComplete /\ HasWitnesses

-------------------------------------------------------------------------------
(* Parts. *)

\* A token is in one part at most.
LEMMA PartsAreDisjoint ==
  ASSUME NEW i \in Nat, NEW j \in Nat, NEW t, PartOf(t, i), PartOf(t, j)
  PROVE  i = j
<1>1. ASSUME NEW a \in Nat, NEW b \in Nat, a < b, PartOf(t, a), PartOf(t, b)
      PROVE  FALSE
  <2>1. a \in 0 .. (b - 1)
    BY <1>1
  <2> QED
    BY <1>1, <2>1 DEF PartOf
<1> QED
  BY <1>1

\* A record whose part is another one than the query's lacks a token of the query's
\* part or has one more.
LEMMA NormalStep ==
  ASSUME NEW id, NEW i, Signature(data[id], i) # Signature(data[query], i)
  PROVE  \E t \in Difference(id) : PartOf(t, i)
BY DEF Signature, Difference

\* A record that is in neither list of a deletion step differs in two tokens of the
\* part, if it differs at all.
LEMMA DeletionStep ==
  ASSUME NEW id \in Ids, NEW i, NEW w \in Difference(id), PartOf(w, i),
         id \notin Lists([sig |-> i, deletion |-> TRUE])
  PROVE  \E t \in Difference(id) : PartOf(t, i) /\ t # w
<1> SUFFICES ASSUME \A t \in Difference(id) : PartOf(t, i) => t = w
             PROVE  FALSE
  OBVIOUS
<1>1. CASE w \in data[query]
  <2>1. Signature(data[id], i) = Signature(data[query], i) \ {w}
    BY <1>1 DEF Signature, Difference
  <2>2. w \in Signature(data[query], i)
    BY <1>1 DEF Signature
  <2>3. id \in Index(i, Signature(data[id], i))
    BY DEF Index
  <2> QED
    BY <2>1, <2>2, <2>3 DEF Lists, QueryPart, Deletions
<1>2. CASE w \in data[id]
  <2>1. Signature(data[query], i) = Signature(data[id], i) \ {w}
    BY <1>2 DEF Signature, Difference
  <2>2. w \in Signature(data[id], i)
    BY <1>2 DEF Signature
  <2> QED
    BY <2>1, <2>2 DEF Lists, QueryPart, Deletions, DelIndex
<1> QED
  BY <1>1, <1>2 DEF Difference

-------------------------------------------------------------------------------
(* One more witness. *)
LEMMA OneMore ==
  ASSUME IInv, EndStep, NEW id \in Ids \ candidates
  PROVE  \E W : IsWitness(id, W)'
<1> DEFINE i == step.sig
<1>1. PICK W : IsWitness(id, W)
  BY DEF IInv, HasWitnesses, EndStep
<1>2. step \in Open /\ step \in [sig : Parts, deletion : BOOLEAN]
  BY DEF IInv, StepsAreDistinct, Open, EndStep
<1>3. id \notin Lists(step)
  BY DEF IInv, ListIsComplete, EndStep
<1>4. \E t \in Difference(id) : PartOf(t, i) /\ t \notin W
  <2>1. CASE ~step.deletion
    <3>1. Signature(W, i) = {}
      BY <1>1, <1>2, <2>1 DEF IsWitness
    <3>2. Signature(data[id], i) # Signature(data[query], i)
      BY <1>3, <2>1 DEF Lists, Index, QueryPart
    <3> QED
      BY <3>1, <3>2, NormalStep DEF Signature
  <2>2. CASE step.deletion
    <3>1. PICK w : Signature(W, i) = {w}
      BY <1>1, <1>2, <2>2 DEF IsWitness
    <3>2. w \in Difference(id) /\ PartOf(w, i)
      BY <1>1, <3>1 DEF IsWitness, Signature
    <3>3. step = [sig |-> i, deletion |-> TRUE]
      BY <1>2, <2>2
    <3>4. PICK t \in Difference(id) : PartOf(t, i) /\ t # w
      BY <1>3, <3>2, <3>3, DeletionStep
    <3> QED
      BY <3>1, <3>4 DEF Signature
  <2> QED
    BY <2>1, <2>2
<1>5. PICK t \in Difference(id) : PartOf(t, i) /\ t \notin W
  BY <1>4
<1> DEFINE V == W \cup {t}
<1>6. IsFiniteSet(V) /\ Cardinality(V) = distance + 1
  BY <1>1, <1>5, FS_AddElement DEF IsWitness
<1>7. V \subseteq Difference(id)'
  BY <1>1, <1>5 DEF IsWitness, Difference, EndStep
<1>8. ASSUME NEW s \in Open'
      PROVE  IF s.deletion THEN \E w : Signature(V, s.sig) = {w}
                           ELSE Signature(V, s.sig) = {}
  <2>1. Open' = steps'
    BY DEF Open, EndStep
  <2>2. CASE s \in steps
    <3>1. s \in Open /\ s.sig # i
      BY <1>2, <2>2 DEF IInv, StepsAreDistinct, Open, EndStep
    <3>2. s.sig \in Nat /\ i \in Nat
      BY <1>2, <3>1 DEF IInv, StepsAreDistinct, Parts
    <3>3. ~PartOf(t, s.sig)
      BY <1>5, <3>1, <3>2, PartsAreDisjoint
    <3>4. Signature(V, s.sig) = Signature(W, s.sig)
      BY <3>3 DEF Signature
    <3> QED
      BY <1>1, <3>1, <3>4 DEF IsWitness
  <2>3. CASE s \notin steps
    <3>1. ~step.deletion /\ s = [step EXCEPT !.deletion = TRUE]
      BY <2>1, <2>3 DEF EndStep
    <3>2. s.deletion /\ s.sig = i
      BY <1>2, <3>1
    <3>3. Signature(W, i) = {}
      BY <1>1, <1>2, <3>1 DEF IsWitness
    <3>4. Signature(V, i) = {t}
      BY <1>5, <3>3 DEF Signature
    <3> QED
      BY <3>2, <3>4
  <2> QED
    BY <2>2, <2>3
<1>9. distance' = distance + 1
  BY DEF EndStep
<1> QED
  BY <1>6, <1>7, <1>8, <1>9 DEF IsWitness

-------------------------------------------------------------------------------
(* The invariant. *)
LEMMA InitIInv == Init => IInv
BY DEF Init, IInv, Control, StepsAreDistinct, Open, ListIsComplete, HasWitnesses

\* The first steps are told apart by their parts.
LEMMA FirstSteps ==
  ASSUME NEW S PROVE \A s, u \in [sig : S, deletion : {FALSE}] : s.sig = u.sig => s = u
<1>1. ASSUME NEW s \in [sig : S, deletion : {FALSE}]
      PROVE  s = [sig |-> s.sig, deletion |-> FALSE]
  <2>1. s.deletion = FALSE
    OBVIOUS
  <2>2. s = [sig |-> s.sig, deletion |-> s.deletion]
    OBVIOUS
  <2> QED
    BY <2>1, <2>2
<1> QED
  BY <1>1

\* Nothing is in the way of the first lookup: no step is completed.
LEMMA StartKeepsIInv ==
  ASSUME IInv, NEW id \in Ids, StartLookup(id)
  PROVE  IInv'
<1> USE DEF IInv, StartLookup
<1>1. Control'
  BY DEF Control, Ids
<1>2. StepsAreDistinct'
  <2>1. Open' = [sig : Parts, deletion : {FALSE}]
    BY DEF Open
  <2>2. Parts' = Parts
    BY DEF Parts, PartitionCount
  <2>3. ASSUME NEW s \in [sig : Parts, deletion : {FALSE}]
        PROVE  s \in [sig : Parts, deletion : BOOLEAN]
    OBVIOUS
  <2>4. \A s, u \in [sig : Parts, deletion : {FALSE}] : s.sig = u.sig => s = u
    BY FirstSteps
  <2>5. pc' # "list"
    OBVIOUS
  <2>6. Open' \subseteq [sig : Parts, deletion : BOOLEAN]
    BY <2>1, <2>3
  <2>7. \A s, u \in Open' : s.sig = u.sig => s = u
    BY <2>1, <2>4
  <2> QED
    BY <2>2, <2>5, <2>6, <2>7 DEF StepsAreDistinct
<1>3. ListIsComplete'
  BY DEF ListIsComplete
<1>4. ASSUME NEW x \in Ids' \ candidates' PROVE IsWitness(x, {})'
  <2>1. IsFiniteSet({}) /\ Cardinality({}) = 0
    BY FS_EmptySet
  <2>2. \A s \in Open' : s.deletion = FALSE
    BY DEF Open
  <2>3. distance = 0
    BY DEF Control
  <2> QED
    BY <2>1, <2>2, <2>3 DEF IsWitness, Signature
<1> QED
  BY <1>1, <1>2, <1>3, <1>4 DEF HasWitnesses

LEMMA TakeStepKeepsIInv ==
  ASSUME IInv, NEW s \in steps, TakeStep(s)
  PROVE  IInv'
<1> USE DEF IInv, TakeStep
<1>1. Control'
  BY DEF Control, Ids
<1>2. Open' = Open /\ Parts' = Parts
  BY DEF Open, Parts, PartitionCount
<1>3. StepsAreDistinct'
  BY <1>2 DEF StepsAreDistinct
<1>4. Lists(s)' = Lists(s)
  BY DEF Lists, DelIndex, Index, QueryPart, Ids
<1>5. ListIsComplete'
  BY <1>4 DEF ListIsComplete, Lists, DelIndex, Index, QueryPart, Ids
<1>6. ASSUME NEW id \in Ids \ candidates, NEW W, IsWitness(id, W)
      PROVE  IsWitness(id, W)'
  BY <1>2, <1>6 DEF IsWitness, Difference
<1> QED
  BY <1>1, <1>3, <1>5, <1>6 DEF HasWitnesses, Ids

LEMMA HandleKeepsIInv ==
  ASSUME IInv, NEW id \in Ids, Handle(id)
  PROVE  IInv'
<1> USE DEF IInv, Handle
<1>1. Control'
  BY DEF Control, Ids
<1>2. Open' = Open /\ Parts' = Parts
  BY DEF Open, Parts, PartitionCount
<1>3. StepsAreDistinct'
  BY <1>2 DEF StepsAreDistinct
<1>4. id \in candidates' /\ candidates \subseteq candidates'
  BY DEF Control
<1>5. ListIsComplete'
  <2>1. Lists(step)' = Lists(step)
    BY DEF Lists, DelIndex, Index, QueryPart, Ids
  <2> QED
    BY <1>4, <2>1 DEF ListIsComplete, Ids
<1>6. ASSUME NEW x \in Ids \ candidates, NEW W, IsWitness(x, W)
      PROVE  IsWitness(x, W)'
  BY <1>2, <1>6 DEF IsWitness, Difference
<1> QED
  BY <1>1, <1>3, <1>4, <1>5, <1>6 DEF HasWitnesses, Ids

LEMMA EndStepKeepsIInv ==
  ASSUME IInv, EndStep
  PROVE  IInv'
<1>1. Control'
  BY DEF IInv, Control, EndStep, Ids
<1>2. StepsAreDistinct'
  <2>1. Parts' = Parts
    BY DEF EndStep, Parts, PartitionCount
  <2> DEFINE late == [step EXCEPT !.deletion = TRUE]
  <2>2. \A s \in Open' : s \in steps \/ s = late
    BY DEF EndStep, Open
  <2>3. step \in [sig : Parts, deletion : BOOLEAN] /\ steps \cup {step} = Open
    BY DEF IInv, StepsAreDistinct, EndStep, Open
  <2>4. late \in [sig : Parts, deletion : BOOLEAN] /\ late.sig = step.sig
    BY <2>3
  <2>5. \A s \in steps : s \in [sig : Parts, deletion : BOOLEAN] /\ s.sig # step.sig
    BY <2>3 DEF IInv, StepsAreDistinct, EndStep
  <2>6. Open' \subseteq [sig : Parts, deletion : BOOLEAN]
    BY <2>2, <2>4, <2>5
  <2>7. ASSUME NEW s \in Open', NEW u \in Open', s.sig = u.sig PROVE s = u
    BY <2>2, <2>3, <2>4, <2>5, <2>7 DEF IInv, StepsAreDistinct
  <2>8. pc' # "list"
    BY DEF EndStep
  <2> QED
    BY <2>1, <2>6, <2>7, <2>8 DEF StepsAreDistinct
<1>3. ListIsComplete'
  BY DEF ListIsComplete, EndStep
<1>4. HasWitnesses'
  BY OneMore DEF HasWitnesses, EndStep, Ids
<1> QED
  BY <1>1, <1>2, <1>3, <1>4 DEF IInv

LEMMA CleanupKeepsIInv ==
  ASSUME IInv, Cleanup
  PROVE  IInv'
BY DEF IInv, Cleanup, Unmarked, Control, StepsAreDistinct, Open, ListIsComplete,
       HasWitnesses

LEMMA NextIInv == IInv /\ [Next]_vars => IInv'
<1> SUFFICES ASSUME IInv, [Next]_vars PROVE IInv'
  OBVIOUS
<1>1. CASE Next
  BY <1>1, StartKeepsIInv, TakeStepKeepsIInv, HandleKeepsIInv, EndStepKeepsIInv,
     CleanupKeepsIInv DEF Next
<1>2. CASE UNCHANGED vars
  <2> USE <1>2 DEF vars, lookup, IInv
  <2>1. Control' /\ Ids' = Ids
    BY DEF Control, Ids
  <2>2. Open' = Open /\ Parts' = Parts /\ Lists(step)' = Lists(step)
    BY DEF Open, Parts, PartitionCount, Lists, DelIndex, Index, QueryPart, Ids
  <2>3. StepsAreDistinct' /\ ListIsComplete'
    BY <2>1, <2>2 DEF StepsAreDistinct, ListIsComplete
  <2>4. \A id, W : IsWitness(id, W) => IsWitness(id, W)'
    BY <2>2 DEF IsWitness, Difference
  <2> QED
    BY <2>1, <2>3, <2>4 DEF HasWitnesses
<1> QED
  BY <1>1, <1>2

THEOREM Invariance == Spec => []IInv
BY InitIInv, NextIInv, PTL DEF Spec

\* Every query starts from a clean bitmap.
THEOREM MarksAreCleared == Spec => []NoLeftovers
<1>1. IInv => NoLeftovers
  BY DEF IInv, Control, NoLeftovers
<1> QED
  BY <1>1, Invariance, PTL

\* Records are finite.
LEMMA DifferencesAreFinite ==
  ASSUME IInv, pc # "idle", NEW id \in Ids
  PROVE  IsFiniteSet(Difference(id))
<1>1. IsFiniteSet(data[query]) /\ IsFiniteSet(data[id])
  BY PartitionAssumption DEF PartitionAssumption, IsDataset, IInv, Control, Ids, RecordIds
<1>2. IsFiniteSet(data[query] \cup data[id])
  BY <1>1, FS_Union
<1> QED
  BY <1>2, FS_Subset DEF Difference

\* A record not met differs from the query in as many tokens as steps were completed.
LEMMA DistanceIsBelow ==
  ASSUME IInv, pc # "idle", NEW id \in Ids \ candidates
  PROVE  Cardinality(Difference(id)) >= distance
<1>1. PICK W : IsWitness(id, W)
  BY DEF IInv, HasWitnesses
<1>2. IsFiniteSet(Difference(id))
  BY DifferencesAreFinite
<1>3. Cardinality(W) <= Cardinality(Difference(id)) /\ Cardinality(Difference(id)) \in Nat
  BY <1>1, <1>2, FS_Subset, FS_CardinalityType DEF IsWitness
<1> QED
  BY <1>1, <1>3 DEF IsWitness, IInv, Control

\* The early end of the search and the bound of a comparison rest on it.
THEOREM DistancesAreEarned == Spec => []DistanceIsEarned
<1>1. IInv => DistanceIsEarned
  BY DistanceIsBelow DEF DistanceIsEarned, Difference
<1> QED
  BY <1>1, Invariance, PTL

-------------------------------------------------------------------------------
(* Powers of two; the last part of a data set. *)
LEMMA PowersOfTwo ==
  ASSUME NEW n \in Nat
  PROVE  /\ 2 ^ n \in Nat \ {0}
         /\ n <= 2 ^ n
<1>1. IsFiniteSet(1 .. n) /\ Cardinality(1 .. n) = n
  BY FS_Interval
<1>2. IsFiniteSet(SUBSET (1 .. n)) /\ Cardinality(SUBSET (1 .. n)) = 2 ^ n
  BY <1>1, FS_SUBSET
<1>3. 2 ^ n \in Nat
  BY <1>2, FS_CardinalityType
<1> DEFINE single == [x \in 1 .. n |-> {x}]
<1>4. single \in Injection(1 .. n, SUBSET (1 .. n))
  <2>1. single \in [1 .. n -> SUBSET (1 .. n)]
    OBVIOUS
  <2>2. \A a, b \in 1 .. n : single[a] = single[b] => a = b
    OBVIOUS
  <2> QED
    BY <2>1, <2>2 DEF Injection, IsInjective
<1>5. n <= 2 ^ n
  <2> HIDE DEF single
  <2> QED
    BY <1>1, <1>2, <1>4, FS_Injection
<1>6. 2 ^ n # 0
  BY <1>2, FS_EmptySet
<1> QED
  BY <1>3, <1>5, <1>6

\* Unless the largest token is a power of two, no record has a token in the last part.
LEMMA LastPartIsEmpty ==
  ASSUME IInv, NEW id \in Ids, ~ \E n \in Nat : UniverseSize(data) = 2 ^ n
  PROVE  /\ PartitionCount - 1 \in Parts
         /\ \A r \in Ids : Signature(data[r], PartitionCount - 1) = {}
<1> DEFINE used == UsedTokens(data)
           u == UniverseSize(data)
           Enough == {b \in Nat : 2 ^ b >= u}
           last == CeilLog2(u)
<1>1. /\ IsFiniteSet(Ids) /\ u >= 2
      /\ \A r \in Ids : IsFiniteSet(data[r]) /\ data[r] # {} /\ data[r] \subseteq Nat
  BY PartitionAssumption DEF PartitionAssumption, IsDataset, IInv, Control, Ids, RecordIds
<1>2. u \in used /\ (\A t \in used : t <= u) /\ used \subseteq Nat
  <2>1. IsDataset(data)
    BY PartitionAssumption DEF PartitionAssumption, IInv, Control
  <2>2. PICK t \in data[id] : TRUE
    BY <1>1
  <2> QED
    BY <2>1, <2>2, LargestToken DEF Ids, RecordIds
<1>3. u \in Nat
  BY <1>2
<1> HIDE DEF u
<1>4. /\ last \in 0 .. u
      /\ 2 ^ last >= u
  <2>1. Enough \subseteq Nat /\ u \in Enough
    BY <1>3, PowersOfTwo
  <2>2. PICK b \in Enough : \A c \in Enough : b <= c
    <3> HIDE DEF Enough
    <3> QED
      BY <2>1, LeastNatural
  <2>3. b \in 0 .. u /\ 2 ^ b >= u
    BY <1>3, <2>1, <2>2
  <2>4. ASSUME NEW c \in 0 .. (b - 1)
        PROVE  2 ^ c < u
    <3>1. c \in Nat /\ c < b /\ 2 ^ c \in Nat
      BY <2>3, PowersOfTwo
    <3> QED
      BY <1>3, <2>2, <2>3, <3>1
  <2>5. \E x \in 0 .. u : 2 ^ x >= u /\ \A c \in 0 .. (x - 1) : 2 ^ c < u
    BY <2>3, <2>4
  <2> QED
    BY <2>5 DEF CeilLog2
<1> HIDE DEF last
<1>5. last \in Nat /\ 2 ^ last \in Nat /\ u < 2 ^ last
  BY <1>3, <1>4, PowersOfTwo DEF u
<1>6. last # 0
  <2>1. last = 0 => 2 ^ last = 1
    <3>1. last = 0 => 2 ^ last = 2 ^ 0
      OBVIOUS
    <3>2. 2 ^ 0 = 1
      OBVIOUS
    <3> QED
      BY <3>1, <3>2, Zenon
  <2> QED
    BY <1>1, <1>3, <1>5, <2>1 DEF u
<1>7. PartitionCount - 1 = last /\ last \in Parts
  BY <1>5 DEF PartitionCount, Parts, last, u
<1>8. ASSUME NEW t \in used
       PROVE  ~PartOf(t, last)
  <2>1. t \in Nat /\ t < 2 ^ last
    BY <1>2, <1>3, <1>5
  <2>2. t % (2 ^ last) = t
    BY <1>5, <2>1
  <2>3. last - 1 \in 0 .. (last - 1) /\ (last - 1) + 1 = last
    BY <1>5, <1>6
  <2>4. PartOf(t, last) => t = 0
    BY <2>2, <2>3 DEF PartOf
  <2>5. 0 % (2 ^ (last + 1)) = 0
    BY <1>5, PowersOfTwo
  <2> QED
    BY <2>4, <2>5 DEF PartOf
<1>9. ASSUME NEW r \in Ids
       PROVE  Signature(data[r], last) = {}
  BY <1>8 DEF Signature, UsedTokens, RecordIds, Ids
<1> QED
  BY <1>7, <1>9

-------------------------------------------------------------------------------
(* The results.  A record that was met has an entry or is settled; of one that was not
   met, either the bound tells that it is, or its parts were not all looked up yet. *)
Entry(id) == [id |-> id, sim |-> TrueSim(id)]

HeapIsSound ==
  /\ IsHeap(heap, K)
  /\ \A e \in heap : \E id \in candidates : e = Entry(id)
  /\ \A id \in candidates : Entry(id) \in heap \/ Settled(heap, K, TrueSim(id))

\* The records that share a part with the query whose step is completed were met.
PartsAreLookedUp ==
  \A i \in Parts :
    \/ [sig |-> i, deletion |-> FALSE] \in Open
    \/ \A id \in Ids : Signature(data[id], i) = QueryPart(i) => id \in candidates

ExactInv ==
  /\ candidates \subseteq Ids
  /\ pc = "idle" => heap = {}
  /\ pc # "idle" => HeapIsSound /\ PartsAreLookedUp

LEMMA RecordFacts ==
  ASSUME IInv, NEW q \in Ids, NEW id \in Ids
  PROVE  /\ IsFiniteSet(data[q]) /\ data[q] \subseteq Int /\ data[q] # {}
         /\ Size(q) \in Nat \ {0} /\ Size(id) \in Nat \ {0}
         /\ Cardinality(data[q] \cap data[id]) \in Nat
         /\ Cardinality(data[q] \cap data[id]) <= Size(q)
         /\ Cardinality(data[q] \cap data[id]) <= Size(id)
         /\ Cardinality((data[q] \ data[id]) \cup (data[id] \ data[q]))
              = Size(q) + Size(id) - 2 * Cardinality(data[q] \cap data[id])
<1>1. \A r \in Ids : /\ IsFiniteSet(data[r]) /\ data[r] # {}
                     /\ data[r] \subseteq Nat
  BY PartitionAssumption DEF PartitionAssumption, IsDataset, IInv, Control, Ids, RecordIds
<1> DEFINE r == data[q]
           s == data[id]
<1>2. /\ IsFiniteSet(r) /\ IsFiniteSet(s) /\ r # {} /\ s # {}
      /\ r \subseteq Nat /\ r \subseteq Int
  BY <1>1
<1>3. Size(q) = Cardinality(r) /\ Size(id) = Cardinality(s)
  BY DEF Size
<1> HIDE DEF r, s
<1>4. /\ Cardinality(r) \in Nat \ {0} /\ Cardinality(s) \in Nat \ {0}
  BY <1>2, FS_CardinalityType, FS_EmptySet
<1>5. /\ r \cap s = s \cap r
      /\ IsFiniteSet(r \cap s) /\ Cardinality(r \cap s) \in Nat
      /\ Cardinality(r \cap s) <= Cardinality(r)
      /\ Cardinality(r \cap s) <= Cardinality(s)
  <2>1. r \cap s \subseteq r /\ r \cap s \subseteq s
    OBVIOUS
  <2> QED
    BY <1>2, <2>1, FS_Subset, FS_CardinalityType
<1>6. /\ IsFiniteSet(r \ s) /\ Cardinality(r \ s) = Cardinality(r) - Cardinality(r \cap s)
      /\ IsFiniteSet(s \ r) /\ Cardinality(s \ r) = Cardinality(s) - Cardinality(r \cap s)
  <2>1. /\ IsFiniteSet(r \ s)
        /\ Cardinality(r \ s) = Cardinality(r) - Cardinality(r \cap s)
    BY <1>2, FS_Difference
  <2>2. /\ IsFiniteSet(s \ r)
        /\ Cardinality(s \ r) = Cardinality(s) - Cardinality(s \cap r)
    BY <1>2, FS_Difference
  <2>3. Cardinality(s \cap r) = Cardinality(r \cap s)
    BY <1>5
  <2> QED
    BY <2>1, <2>2, <2>3
<1>7. Cardinality((r \ s) \cup (s \ r)) = Cardinality(r \ s) + Cardinality(s \ r)
  <2>1. (r \ s) \cap (s \ r) = {}
    OBVIOUS
  <2>2. Cardinality((r \ s) \cap (s \ r)) = 0
    BY <2>1, FS_EmptySet
  <2>3. Cardinality((r \ s) \cup (s \ r))
          = Cardinality(r \ s) + Cardinality(s \ r) - Cardinality((r \ s) \cap (s \ r))
    BY <1>6, FS_Union
  <2> QED
    BY <1>4, <1>5, <1>6, <2>2, <2>3
<1>8. Cardinality((r \ s) \cup (s \ r))
        = Cardinality(r) + Cardinality(s) - 2 * Cardinality(r \cap s)
  BY <1>4, <1>5, <1>6, <1>7
<1> QED
  BY <1>2, <1>3, <1>4, <1>5, <1>8 DEF r, s

\* jaccard_bound and two_sided_jaccard_bound bound the similarity of records that
\* differ in d tokens or more.
LEMMA BoundsAreSound ==
  ASSUME NEW q \in Nat \ {0}, NEW s \in Nat \ {0}, NEW o \in Nat, o <= q, o <= s,
         NEW d \in Nat, q + s - 2 * o >= d
  PROVE  /\ Sim(q, s, o) \in Fraction /\ Sim(q, s, o).num = o
         /\ JaccardBound(q, d) \in Fraction
         /\ TwoSidedBound(q, s, d) \in Fraction
         /\ AtMost(Sim(q, s, o), JaccardBound(q, d))
         /\ AtMost(Sim(q, s, o), TwoSidedBound(q, s, d))
<1>1. /\ Sim(q, s, o) \in Fraction /\ Sim(q, s, o).num = o
      /\ JaccardBound(q, d) \in Fraction
      /\ TwoSidedBound(q, s, d) \in Fraction
  BY DEF Sim, Fraction, JaccardBound, TwoSidedBound
<1>2. o * (q + d) <= q * (q + s - o)
  <2>1. o * d <= o * (q + s - 2 * o)
    OBVIOUS
  <2>2. 0 <= (q - o) * (q + s - 2 * o)
    <3>1. q - o \in Nat /\ q + s - 2 * o \in Nat
      OBVIOUS
    <3> QED
      BY <3>1
  <2>3. (q - o) * (q + s - 2 * o) + o * (q + s - 2 * o) = q * (q + s - 2 * o)
    OBVIOUS
  <2>4. q * (q + s - 2 * o) = q * (q + s - o) - q * o
    OBVIOUS
  <2>5. o * (q + d) = o * d + q * o
    OBVIOUS
  <2>6. /\ o * d \in Int /\ q * o \in Int /\ o * (q + s - 2 * o) \in Int
        /\ (q - o) * (q + s - 2 * o) \in Int /\ q * (q + s - o) \in Int
    OBVIOUS
  <2> QED
    BY <2>1, <2>2, <2>3, <2>4, <2>5, <2>6
<1>3. o * (q + s + d) <= (q + s - d) * (q + s - o)
  <2>1. (q + s) * (2 * o) <= (q + s) * (q + s - d)
    <3>1. 2 * o <= q + s - d /\ q + s \in Nat
      OBVIOUS
    <3> QED
      BY <3>1
  <2>2. (q + s - d) * (q + s - o) - o * (q + s + d)
          = (q + s) * (q + s - d) - (q + s) * (2 * o)
    OBVIOUS
  <2>3. /\ (q + s) * (2 * o) \in Int /\ (q + s) * (q + s - d) \in Int
        /\ (q + s - d) * (q + s - o) \in Int /\ o * (q + s + d) \in Int
    OBVIOUS
  <2> QED
    BY <2>1, <2>2, <2>3
<1> QED
  BY <1>1, <1>2, <1>3 DEF AtMost, Sim, JaccardBound, TwoSidedBound

\* What is not met differs enough for the bounds, during a step as well as after it.
LEMMA UnmetIsBounded ==
  ASSUME IInv, pc # "idle", NEW id \in Ids, NEW o, o = Cardinality(data[query] \cap data[id])
  PROVE  /\ query \in Ids
         /\ Size(query) \in Nat \ {0} /\ Size(id) \in Nat \ {0}
         /\ o \in Nat /\ TrueSim(id) \in Fraction /\ TrueSim(id).num = o
         /\ id \notin candidates =>
              /\ JaccardBound(Size(query), distance) \in Fraction
              /\ TwoSidedBound(Size(query), Size(id), distance) \in Fraction
              /\ AtMost(TrueSim(id), JaccardBound(Size(query), distance))
              /\ AtMost(TrueSim(id), TwoSidedBound(Size(query), Size(id), distance))
<1>1. query \in Ids /\ distance \in Nat
  BY DEF IInv, Control
<1>2. /\ Size(query) \in Nat \ {0} /\ Size(id) \in Nat \ {0}
      /\ o \in Nat /\ o <= Size(query) /\ o <= Size(id)
      /\ Cardinality(Difference(id)) = Size(query) + Size(id) - 2 * o
  BY <1>1, RecordFacts DEF Difference
<1>3. TrueSim(id) = Sim(Size(query), Size(id), o)
  BY DEF TrueSim
<1>4. TrueSim(id) \in Fraction /\ TrueSim(id).num = o
  BY <1>2, <1>3 DEF Sim, Fraction
<1>5. id \notin candidates => Cardinality(Difference(id)) >= distance
  BY DistanceIsBelow
<1>6. ASSUME id \notin candidates
      PROVE  /\ JaccardBound(Size(query), distance) \in Fraction
             /\ TwoSidedBound(Size(query), Size(id), distance) \in Fraction
             /\ AtMost(TrueSim(id), JaccardBound(Size(query), distance))
             /\ AtMost(TrueSim(id), TwoSidedBound(Size(query), Size(id), distance))
  <2>1. Size(query) + Size(id) - 2 * o >= distance
    BY <1>2, <1>5, <1>6
  <2> QED
    BY <1>1, <1>2, <1>3, <2>1, BoundsAreSound
<1> QED
  BY <1>1, <1>2, <1>4, <1>6

\* A record met for the first time is settled, by its bound or by the comparison, or its
\* entry is pushed.
LEMMA FirstMeeting ==
  ASSUME IInv, pc # "idle", IsHeap(heap, K), NEW id \in Ids \ candidates,
         IF AtMost(Threshold, TwoSidedBound(Size(query), Size(id), distance))
         THEN Compare(id)
         ELSE UNCHANGED heap
  PROVE  IsComparison(heap, K, Entry(id), heap')
<1> DEFINE o == Cardinality(data[query] \cap data[id])
           bound == TwoSidedBound(Size(query), Size(id), distance)
<1>1. K \in Nat \ {0}
  BY PartitionAssumption DEF PartitionAssumption
<1>2. /\ Threshold \in Fraction
      /\ Cardinality(heap) < K => Threshold = Zero
  BY <1>1, ThresholdIsLeast DEF Threshold
<1>3. /\ query \in Ids /\ o \in Nat
      /\ TrueSim(id) \in Fraction /\ TrueSim(id).num = o
      /\ bound \in Fraction /\ AtMost(TrueSim(id), bound)
  BY UnmetIsBounded
<1>4. Entry(id).sim = TrueSim(id)
  BY DEF Entry
<1>5. CASE ~AtMost(Threshold, bound)
  <2> HIDE DEF bound, o
  <2>1. AtMost(TrueSim(id), Threshold)
    BY <1>2, <1>3, <1>5, AtMostTotal, AtMostTransitive
  <2>2. Cardinality(heap) < K => TrueSim(id).num <= 0
    BY <1>2, <1>3, <2>1, AtMostZero
  <2> QED
    BY <1>4, <1>5, <2>1, <2>2 DEF IsComparison, Settled, Threshold, bound
<1>6. CASE AtMost(Threshold, bound)
  <2>1. PICK needed \in Eqo(Size(query), Size(id), Threshold) :
          IF FalsifyOrCompute(data[query], data[id], needed) > 0
          THEN heap' \in Pushed(heap, K,
                 [id |-> id, sim |-> Sim(Size(query), Size(id),
                                         FalsifyOrCompute(data[query], data[id], needed))])
          ELSE UNCHANGED heap
    BY <1>6 DEF Compare
  <2> DEFINE found == FalsifyOrCompute(data[query], data[id], needed)
  <2>2. /\ IsFiniteSet(data[query]) /\ data[query] \subseteq Int
        /\ IsFiniteSet(data[id]) /\ data[id] \subseteq Int /\ data[id] # {}
    BY <1>3, RecordFacts
  <2>3. /\ Threshold = HeapThreshold(heap, K)
        /\ needed \in Eqo(Cardinality(data[query]), Cardinality(data[id]), Threshold)
        /\ TrueSim(id) = Sim(Cardinality(data[query]), Cardinality(data[id]), o)
    BY <2>1 DEF Threshold, Size, TrueSim
  <2>4. /\ found \in {o, -1}
        /\ found = o => AtMost(Threshold, TrueSim(id))
        /\ found = -1 => Settled(heap, K, TrueSim(id))
        /\ o = 0 => Settled(heap, K, TrueSim(id))
    <3> DEFINE t == Threshold
               sim == TrueSim(id)
    <3>1. t = HeapThreshold(heap, K) /\ IsHeap(heap, K)
      BY <2>3
    <3>2. needed \in Eqo(Cardinality(data[query]), Cardinality(data[id]), t)
      BY <2>3
    <3>3. /\ o = Cardinality(data[query] \cap data[id])
          /\ sim = Sim(Cardinality(data[query]), Cardinality(data[id]), o)
      BY <2>3
    <3> HIDE DEF t, o, sim
    <3>4. /\ FalsifyOrCompute(data[query], data[id], needed) \in {o, -1}
          /\ FalsifyOrCompute(data[query], data[id], needed) = o => AtMost(t, sim)
          /\ FalsifyOrCompute(data[query], data[id], needed) = -1 => Settled(heap, K, sim)
          /\ o = 0 => Settled(heap, K, sim)
      BY ONLY <1>1, <2>2, <3>1, <3>2, <3>3, ComparisonIsSound
    <3> QED
      BY <3>4 DEF t, sim
  <2>5. CASE found > 0
    <3>1. found = o
      BY <1>3, <2>4, <2>5
    <3>2. heap' \in Pushed(heap, K, Entry(id))
      BY <2>1, <2>5, <3>1 DEF Entry, TrueSim
    <3> QED
      BY <1>4, <2>4, <3>1, <3>2 DEF IsComparison, Threshold
  <2>6. CASE ~(found > 0)
    <3>1. heap' = heap
      BY <2>1, <2>6
    <3>2. Settled(heap, K, TrueSim(id))
      BY <1>3, <2>4, <2>6
    <3> QED
      BY <1>4, <3>1, <3>2 DEF IsComparison
  <2> QED
    BY <2>5, <2>6
<1> QED
  BY <1>5, <1>6

LEMMA HandleKeepsExactInv ==
  ASSUME IInv, ExactInv, NEW id \in Ids, Handle(id)
  PROVE  ExactInv'
<1>1. /\ pc = "list" /\ pc' = "list" /\ UNCHANGED <<data, query, steps, step, distance>>
      /\ candidates \subseteq Ids /\ Ids' = Ids
      /\ HeapIsSound /\ PartsAreLookedUp /\ marked = candidates
  BY DEF Handle, ExactInv, IInv, Control, Ids
<1>2. candidates' = candidates \cup {id}
  BY <1>1 DEF Handle
<1>3. PartsAreLookedUp'
  <2>1. Parts' = Parts /\ Open' = Open
    BY <1>1 DEF Parts, PartitionCount, Open
  <2>2. \A i : QueryPart(i)' = QueryPart(i)
    BY <1>1 DEF QueryPart, Signature
  <2> QED
    BY <1>1, <1>2, <2>1, <2>2 DEF PartsAreLookedUp
<1>4. \A x : Entry(x)' = Entry(x) /\ TrueSim(x)' = TrueSim(x)
  BY <1>1 DEF Entry, TrueSim, Size
<1>5. HeapIsSound'
  <2>1. CASE id \in candidates
    <3>1. UNCHANGED <<heap, candidates>>
      BY <1>1, <2>1 DEF Handle
    <3> QED
      BY <1>1, <1>4, <3>1 DEF HeapIsSound
  <2>2. CASE id \notin candidates
    <3>1. IF AtMost(Threshold, TwoSidedBound(Size(query), Size(id), distance))
          THEN Compare(id)
          ELSE UNCHANGED heap
      BY <1>1, <2>2 DEF Handle
    <3>2. IsComparison(heap, K, Entry(id), heap')
      BY <1>1, <2>2, <3>1, FirstMeeting DEF HeapIsSound
    <3>3. /\ K \in Nat \ {0}
          /\ IsHeap(heap, K)
      BY <1>1, PartitionAssumption DEF HeapIsSound, PartitionAssumption
    <3>4. \A x \in Ids : /\ TrueSim(x) \in Fraction /\ 0 <= TrueSim(x).num
                         /\ Entry(x).sim = TrueSim(x) /\ Entry(x).id = x
      <4> TAKE x \in Ids
      <4> DEFINE o == Cardinality(data[query] \cap data[x])
      <4>1. o \in Nat /\ TrueSim(x) \in Fraction /\ TrueSim(x).num = o
        BY <1>1, UnmetIsBounded
      <4> QED
        BY <4>1 DEF Entry
    <3>5. Entry(id) \notin heap
      BY <1>1, <2>2, <3>4 DEF HeapIsSound
    <3>6. /\ IsHeap(heap', K)
          /\ heap' \subseteq heap \cup {Entry(id)}
          /\ \A e \in heap \cup {Entry(id)} : e \in heap' \/ Settled(heap', K, e.sim)
          /\ \A sim \in Fraction : Settled(heap, K, sim) => Settled(heap', K, sim)
      BY <3>2, <3>3, <3>4, <3>5, ComparisonKeepsHeap
    <3>7. ASSUME NEW x \in candidates'
          PROVE  Entry(x) \in heap' \/ Settled(heap', K, TrueSim(x))
      BY <1>1, <1>2, <3>4, <3>6 DEF HeapIsSound
    <3>8. \A e \in heap' : \E x \in candidates' : e = Entry(x)
      BY <1>1, <1>2, <3>6 DEF HeapIsSound
    <3> QED
      BY <1>4, <3>6, <3>7, <3>8 DEF HeapIsSound
  <2> QED
    BY <2>1, <2>2
<1> QED
  BY <1>1, <1>2, <1>3, <1>5 DEF ExactInv

LEMMA StartKeepsExactInv ==
  ASSUME IInv, ExactInv, NEW id \in Ids, StartLookup(id)
  PROVE  ExactInv'
<1>1. /\ pc = "idle" /\ pc' = "pop" /\ heap = {} /\ candidates = {}
      /\ heap' = {} /\ candidates' = {} /\ data' = data
      /\ steps' = [sig : Parts, deletion : {FALSE}]
  BY DEF StartLookup, ExactInv, IInv, Control
<1>2. IsHeap({}, K)
  BY FS_EmptySet, PartitionAssumption DEF IsHeap, PartitionAssumption
<1>3. \A i \in Parts' : [sig |-> i, deletion |-> FALSE] \in Open'
  BY <1>1 DEF Open, Parts, PartitionCount
<1> QED
  BY <1>1, <1>2, <1>3 DEF ExactInv, HeapIsSound, PartsAreLookedUp

LEMMA TakeStepKeepsExactInv ==
  ASSUME IInv, ExactInv, NEW s \in steps, TakeStep(s)
  PROVE  ExactInv'
<1>1. /\ pc # "idle" /\ pc' # "idle" /\ UNCHANGED <<data, query, candidates, heap>>
      /\ Open' = Open
  BY DEF TakeStep, Open
<1>2. HeapIsSound'
  BY <1>1 DEF ExactInv, HeapIsSound, Entry, TrueSim, Size
<1>3. PartsAreLookedUp'
  <2>1. Parts' = Parts /\ Ids' = Ids
    BY <1>1 DEF Parts, PartitionCount, Ids
  <2>2. \A i : QueryPart(i)' = QueryPart(i)
    BY <1>1 DEF QueryPart, Signature
  <2> QED
    BY <1>1, <2>1, <2>2 DEF ExactInv, PartsAreLookedUp
<1> QED
  BY <1>1, <1>2, <1>3 DEF ExactInv, Ids

LEMMA EndStepKeepsExactInv ==
  ASSUME IInv, ExactInv, EndStep
  PROVE  ExactInv'
<1>1. /\ pc = "list" /\ pc' # "idle" /\ UNCHANGED <<data, query, candidates, heap>>
      /\ list = {}
  BY DEF EndStep
<1>2. HeapIsSound'
  BY <1>1 DEF ExactInv, HeapIsSound, Entry, TrueSim, Size
<1>3. PartsAreLookedUp'
  <2>1. Parts' = Parts /\ Ids' = Ids
    BY <1>1 DEF Parts, PartitionCount, Ids
  <2>2. \A i : QueryPart(i)' = QueryPart(i)
    BY <1>1 DEF QueryPart, Signature
  <2>3. Open \subseteq Open' \cup {step}
    BY DEF EndStep, Open
  <2>4. ASSUME NEW i \in Parts, step = [sig |-> i, deletion |-> FALSE],
               NEW id \in Ids, Signature(data[id], i) = QueryPart(i)
        PROVE  id \in candidates
    <3>1. id \in Lists(step)
      BY <2>4 DEF Lists, Index
    <3> QED
      BY <1>1, <3>1 DEF IInv, ListIsComplete
  <2>5. ASSUME NEW i \in Parts
        PROVE  \/ [sig |-> i, deletion |-> FALSE] \in Open'
               \/ \A id \in Ids : Signature(data[id], i) = QueryPart(i) => id \in candidates
    <3>1. CASE step = [sig |-> i, deletion |-> FALSE]
      BY <2>4, <3>1
    <3>2. CASE step # [sig |-> i, deletion |-> FALSE]
      BY <1>1, <2>3, <3>2 DEF ExactInv, PartsAreLookedUp
    <3> QED
      BY <3>1, <3>2
  <2> QED
    BY <1>1, <2>1, <2>2, <2>5 DEF PartsAreLookedUp
<1> QED
  BY <1>1, <1>2, <1>3 DEF ExactInv, Ids

THEOREM Exactness == Spec => []ExactInv
<1>1. Init => ExactInv
  BY DEF Init, ExactInv
<1>2. IInv /\ ExactInv /\ [Next]_vars => ExactInv'
  <2> SUFFICES ASSUME IInv, ExactInv, [Next]_vars
               PROVE  ExactInv'
    OBVIOUS
  <2>1. CASE Cleanup
    BY <2>1 DEF Cleanup, ExactInv
  <2>2. CASE UNCHANGED vars
    <3>1. UNCHANGED <<data, pc, query, steps, step, candidates, heap>>
      BY <2>2 DEF vars, lookup
    <3>2. Parts' = Parts /\ Ids' = Ids /\ Open' = Open
      BY <3>1 DEF Parts, PartitionCount, Ids, Open
    <3>3. \A i : QueryPart(i)' = QueryPart(i)
      BY <3>1 DEF QueryPart, Signature
    <3>4. HeapIsSound <=> HeapIsSound'
      BY <3>1 DEF HeapIsSound, Entry, TrueSim, Size
    <3>5. PartsAreLookedUp <=> PartsAreLookedUp'
      BY <3>1, <3>2, <3>3 DEF PartsAreLookedUp
    <3> QED
      BY <3>1, <3>2, <3>4, <3>5 DEF ExactInv
  <2> QED
    BY <2>1, <2>2, StartKeepsExactInv, TakeStepKeepsExactInv, HandleKeepsExactInv,
       EndStepKeepsExactInv DEF Next
<1> QED
  BY <1>1, <1>2, Invariance, PTL DEF Spec

\* The results are exact, in both variants, unless the largest token is a power of two:
\* then the last part is empty in every record, so that its list is the whole data set,
\* and a search that runs out of steps has met everything.
THEOREM ResultsAreExact ==
  Spec => [](~(\E n \in Nat : UniverseSize(data) = 2 ^ n) => ResultIsExact)
<1>1. ASSUME IInv, ExactInv, ~ \E n \in Nat : UniverseSize(data) = 2 ^ n, IsOver
      PROVE  /\ \A e \in heap : e.sim = TrueSim(e.id)
             /\ \A id \in Ids : (\E e \in heap : e.id = id) \/ AtMost(TrueSim(id), Threshold)
  <2>1. pc = "pop" /\ HeapIsSound /\ PartsAreLookedUp /\ candidates \subseteq Ids
    BY <1>1 DEF IsOver, ExactInv
  <2>2. \A e \in heap : e.sim = TrueSim(e.id)
    BY <2>1 DEF HeapIsSound, Entry
  <2>3. ASSUME NEW id \in candidates
        PROVE  (\E e \in heap : e.id = id) \/ AtMost(TrueSim(id), Threshold)
    BY <2>1 DEF HeapIsSound, Entry, Settled, Threshold
  <2>4. ASSUME NEW id \in Ids \ candidates
        PROVE  AtMost(TrueSim(id), Threshold)
    <3> DEFINE bound == JaccardBound(Size(query), distance)
    <3>1. query \in Ids
      BY <1>1, <2>1 DEF IInv, Control
    <3>2. steps # {}
      <4>1. PICK last \in Parts : \A r \in Ids : Signature(data[r], last) = {}
        BY <1>1, <2>4, LastPartIsEmpty
      <4>2. [sig |-> last, deletion |-> FALSE] \in Open
        BY <2>1, <2>4, <3>1, <4>1 DEF PartsAreLookedUp, QueryPart
      <4> QED
        BY <2>1, <4>2 DEF Open
    <3>3. ~Less(Threshold, bound)
      BY <1>1, <3>2 DEF IsOver, GoesOn
    <3>4. Threshold \in Fraction
      BY <2>1, PartitionAssumption, ThresholdIsLeast
         DEF HeapIsSound, Threshold, PartitionAssumption
    <3>5. /\ TrueSim(id) \in Fraction /\ bound \in Fraction
          /\ AtMost(TrueSim(id), bound)
      <4> DEFINE o == Cardinality(data[query] \cap data[id])
      <4>1. o = Cardinality(data[query] \cap data[id])
        OBVIOUS
      <4> HIDE DEF o
      <4> QED
        BY <1>1, <2>1, <2>4, <4>1, UnmetIsBounded
    <3> HIDE DEF bound
    <3> QED
      BY <3>3, <3>4, <3>5, AtMostTotal, AtMostTransitive
  <2> QED
    BY <2>2, <2>3, <2>4
<1>2. IInv /\ ExactInv => (~(\E n \in Nat : UniverseSize(data) = 2 ^ n) => ResultIsExact)
  BY <1>1 DEF ResultIsExact
<1> QED
  BY <1>2, Invariance, Exactness, PTL
===============================================================================
