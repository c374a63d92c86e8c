---------------------------- MODULE KNNLookupProofs ----------------------------
(***************************************************************************)
(* Proofs about KNNLookup, for every data set, k, grouping, depth of the    *)
(* suffix filter and sketch: a query starts from clean overlap counters,    *)
(* verification resumes from an exact overlap, the early end overlooks no   *)
(* record and the result is exact.  The last two need a grouping that suits *)
(* the mode FULL (Sound); the other modes are exact with every grouping.    *)
(*                                                                         *)
(* The invariant comes in three parts.  IInv is about the counters alone.   *)
(* StateInv says what the states of a lookup look like: events lie on the   *)
(* diagonals of their groups and carry the bound of their row.  SearchInv   *)
(* says that no group is forgotten (an event of the queue is in it or will  *)
(* lead to it), that no event has passed the first match of a record not    *)
(* read, unless the record is beyond the threshold, and that what was       *)
(* verified is in the heap or settled.                                     *)
(***************************************************************************)
EXTENDS KNNLookup, TopKProofs

IsOverlap(o) == \E n, row, col : n \in Nat /\ o = [overlap |-> n, pR |-> row, pS |-> col]

\* A record that was not read since the last cleanup is not counted, and only the
\* records that were are in the list the cleanup goes through.
IInv ==
  /\ \A id \in Ids : IsFiniteSet(data[id])
  /\ pc \in {"idle", "pop", "verify", "done"}
  /\ pc = "idle" => candidates = {}
  /\ \A id \in Ids : IsOverlap(overlaps[id])
  /\ \A id \in Ids \ candidates : overlaps[id].overlap = 0

-------------------------------------------------------------------------------
(* A read is finite: its matches are common tokens of two finite records. *)
LEMMA MatchesAreFinite ==
  ASSUME NEW id, IsFiniteSet(data[id])
  PROVE  IsFiniteSet(Matches(id))
<1>1. IsFiniteSet(data[query] \cap data[id])
  BY FS_Intersection
<1> DEFINE match == [t \in data[query] \cap data[id] |->
                       [row |-> Position(data[query], t), col |-> Position(data[id], t)]]
<1>2. match \in Surjection(data[query] \cap data[id], Matches(id))
  BY DEF Surjection, Matches
<1> QED
  BY <1>1, <1>2, FS_Surjection

LEMMA PartsAreFinite ==
  ASSUME NEW n, NEW S, IsFiniteSet(S)
  PROVE  IsFiniteSet(Part(n, S))
<1> DEFINE tag == [m \in S |-> [part |-> n, match |-> m]]
<1>1. tag \in Surjection(S, Part(n, S))
  BY DEF Surjection, Part
<1> QED
  BY <1>1, FS_Surjection

LEMMA ReadsAreFinite ==
  ASSUME NEW id, IsFiniteSet(data[id]), NEW e, NEW pUb
  PROVE  IsFiniteSet(Read(id, e, pUb))
<1> DEFINE M == Matches(id)
<1>1. IsFiniteSet(M)
  BY MatchesAreFinite
<1>2. \A n : \A S \in SUBSET M : IsFiniteSet(Part(n, S))
  BY <1>1, FS_Subset, PartsAreFinite
<1>3. \A pR, pS : /\ ReadHorizontal(id, pR, pS) \in SUBSET M
                  /\ ReadVertical(id, pR, pS) \in SUBSET M
                  /\ ReadVerticalFiltered(id, pR, pS) \in SUBSET M
  BY DEF ReadHorizontal, ReadVertical, ReadVerticalFiltered
<1>4. ASSUME NEW pR, NEW pS
      PROVE  IsFiniteSet(ReadCross(id, pR, pS))
  <2> DEFINE Third == IF pS > 0 THEN ReadVertical(id, pR, pS - 1) ELSE {}
  <2>1. Third \in SUBSET M
    BY <1>3
  <2>2. /\ IsFiniteSet(Part(1, ReadHorizontal(id, pR, pS)))
        /\ IsFiniteSet(Part(2, ReadVertical(id, pR, pS)))
        /\ IsFiniteSet(Part(3, Third))
    BY <1>2, <1>3, <2>1
  <2> QED
    BY <2>2, FS_Union DEF ReadCross
<1>5. /\ IsFiniteSet(Part(1, ReadVerticalFiltered(id, e.pR, pUb)))
      /\ IsFiniteSet(Part(1, ReadHorizontal(id, e.pR, pUb)))
  BY <1>2, <1>3
<1>6. IsFiniteSet(ReadCross(id, e.pR, e.pS))
  BY <1>4
<1> QED
  BY <1>5, <1>6 DEF Read

LEMMA CountIsNatural ==
  ASSUME NEW o, IsOverlap(o)
  PROVE  o.overlap \in Nat
BY DEF IsOverlap

LEMMA CountAfterRead ==
  ASSUME NEW old, IsOverlap(old), NEW reads, IsFiniteSet(reads)
  PROVE  IsOverlap(AfterRead(old, reads))
<1>1. Cardinality(reads) \in Nat
  BY FS_CardinalityType
<1>2. PICK n, row, col : n \in Nat /\ old = [overlap |-> n, pR |-> row, pS |-> col]
  BY DEF IsOverlap
<1>3. CASE reads = {}
  BY <1>3 DEF AfterRead
<1>4. CASE reads # {}
  <2>1. old.overlap + Cardinality(reads) \in Nat
    BY <1>1, <1>2
  <2> QED
    BY <1>4, <2>1 DEF AfterRead, IsOverlap
<1> QED
  BY <1>3, <1>4

-------------------------------------------------------------------------------
LEMMA InitInv == Init => IInv
<1> SUFFICES ASSUME Init
             PROVE  IInv
  OBVIOUS
<1>1. \A id \in Ids : IsFiniteSet(data[id])
  BY LookupAssumption DEF IsDataset, Init, Ids
<1>2. \A id \in Ids : IsOverlap(overlaps[id]) /\ overlaps[id].overlap = 0
  <2>1. \A id \in Ids : overlaps[id] = [overlap |-> 0, pR |-> 0, pS |-> 0]
    BY DEF Init
  <2>2. IsOverlap([overlap |-> 0, pR |-> 0, pS |-> 0])
    BY DEF IsOverlap
  <2> QED
    BY <2>1, <2>2
<1> QED
  BY <1>1, <1>2 DEF Init, IInv

LEMMA PopAndReadInv ==
  ASSUME IInv, NEW e, PopAndRead(e)
  PROVE  IInv'
<1> DEFINE Reads(pUb) == [id \in GroupRecords(e.grp) |-> Read(id, e, pUb)]
           Counted(pUb, reads) == [id \in Ids |-> IF id \in DOMAIN reads
                                               THEN AfterRead(overlaps[id], reads[id])
                                               ELSE overlaps[id]]
<1>1. PICK pUb \in ColumnBounds(e) :
        \E reads \in {Reads(pUb)} : overlaps' = Counted(pUb, reads)
  BY DEF PopAndRead
<1>2. PICK reads \in {Reads(pUb)} : overlaps' = Counted(pUb, reads)
  BY <1>1
<1>3. /\ fresh' = {id \in Ids : overlaps[id].overlap = 0 /\ overlaps'[id].overlap > 0}
      /\ candidates' = candidates \cup fresh'
  BY DEF PopAndRead
<1>4. Ids' = Ids /\ data' = data
  BY DEF PopAndRead, setup, Ids
<1>5. ASSUME NEW id \in Ids
      PROVE  IsOverlap(overlaps'[id])
  <2>1. CASE id \in GroupRecords(e.grp)
    <3>1. overlaps'[id] = AfterRead(overlaps[id], Read(id, e, pUb))
      BY <1>2, <2>1
    <3>2. IsFiniteSet(Read(id, e, pUb))
      BY ReadsAreFinite DEF IInv
    <3> QED
      BY <3>1, <3>2, CountAfterRead DEF IInv
  <2>2. CASE id \notin GroupRecords(e.grp)
    BY <1>2, <2>2 DEF IInv
  <2> QED
    BY <2>1, <2>2
<1>6. ASSUME NEW id \in Ids, id \notin candidates'
      PROVE  overlaps'[id].overlap = 0
  <2>1. overlaps[id].overlap = 0
    BY <1>6, <1>3 DEF IInv
  <2>2. ~(overlaps'[id].overlap > 0)
    BY <1>6, <1>3, <2>1
  <2>3. overlaps'[id].overlap \in Nat
    BY <1>5, CountIsNatural
  <2> QED
    BY <2>2, <2>3
<1>7. pc' = "verify"
  BY DEF PopAndRead
<1> QED
  BY <1>4, <1>5, <1>6, <1>7 DEF IInv

LEMMA CleanupInv ==
  ASSUME IInv, Cleanup
  PROVE  IInv' /\ \A id \in Ids : overlaps'[id].overlap = 0
<1>1. Ids' = Ids /\ data' = data /\ pc' = "idle" /\ candidates' = {}
  BY DEF Cleanup, setup, Ids
<1>2. ASSUME NEW id \in Ids
      PROVE  IsOverlap(overlaps'[id]) /\ overlaps'[id].overlap = 0
  <2>1. PICK n, row, col :
        n \in Nat /\ overlaps[id] = [overlap |-> n, pR |-> row, pS |-> col]
    BY DEF IInv, IsOverlap
  <2>2. CASE id \in candidates
    <3>1. overlaps'[id] = [overlap |-> 0, pR |-> row, pS |-> col]
      BY <2>1, <2>2 DEF Cleanup, ResetOverlaps
    <3>2. overlaps'[id].overlap = 0
      BY <3>1
    <3>3. IsOverlap(overlaps'[id])
      BY <3>1 DEF IsOverlap
    <3> QED
      BY <3>2, <3>3
  <2>3. CASE id \notin candidates
    <3>1. overlaps'[id] = overlaps[id]
      BY <2>3 DEF Cleanup, ResetOverlaps
    <3> QED
      BY <2>3, <3>1 DEF IInv
  <2> QED
    BY <2>2, <2>3
<1> QED
  BY <1>1, <1>2 DEF IInv

LEMMA NextInv == IInv /\ [Next]_vars => IInv'
<1> SUFFICES ASSUME IInv, [Next]_vars
             PROVE  IInv'
  OBVIOUS
<1>1. ASSUME NEW id \in Ids, StartLookup(id)
      PROVE  IInv'
  BY <1>1 DEF StartLookup, IInv, setup, Ids
<1>2. ASSUME NEW id \in Ids, Verify(id)
      PROVE  IInv'
  BY <1>2 DEF Verify, IInv, setup, Ids
<1>3. ASSUME NEW e \in queue, PopAndRead(e)
      PROVE  IInv'
  BY <1>3, PopAndReadInv
<1>4. CASE EnqueueNext
  BY <1>4 DEF EnqueueNext, IInv, setup, Ids
<1>5. CASE EndLookup
  BY <1>5 DEF EndLookup, IInv, setup, Ids
<1>6. CASE Cleanup
  BY <1>6, CleanupInv
<1>7. CASE UNCHANGED vars
  BY <1>7 DEF vars, setup, lookup, IInv, Ids
<1> QED
  BY <1>1, <1>2, <1>3, <1>4, <1>5, <1>6, <1>7 DEF Next

\* The inductive invariant of the lookups of one thread.
THEOREM Invariance == Spec => []IInv
<1> QED
  BY InitInv, NextInv, PTL DEF Spec

\* A query starts from clean thread state: the cleanup callback of
\* do_multiple_lookups (join.hh) reaches every counter a read has touched.
THEOREM CountersAreCleared == Spec => []NoLeftovers
<1>1. IInv => NoLeftovers
  BY DEF IInv, NoLeftovers
<1> QED
  BY <1>1, Invariance, PTL

-------------------------------------------------------------------------------
(* Positions and matches. *)
LEMMA PositionsAscend ==
  ASSUME NEW r, IsFiniteSet(r), r \subseteq Int, NEW t \in r, NEW u \in Int
  PROVE  /\ Position(r, t) \in Nat /\ Position(r, u) \in Nat
         /\ t < u => Position(r, t) < Position(r, u)
         /\ Position(r, t) < Cardinality(r)
<1> DEFINE before(x) == {y \in r : y < x}
<1>1. \A x : IsFiniteSet(before(x)) /\ Cardinality(before(x)) \in Nat
  <2> TAKE x
  <2>1. before(x) \subseteq r
    OBVIOUS
  <2> QED
    BY <2>1, FS_Subset, FS_CardinalityType
<1>2. \A x : Position(r, x) = Cardinality(before(x))
  BY DEF Position
<1>3. t \notin before(t) /\ t \in Int
  OBVIOUS
<1>4. IsFiniteSet(before(t) \cup {t}) /\ Cardinality(before(t) \cup {t}) = Cardinality(before(t)) + 1
  <2> HIDE DEF before
  <2> QED
    BY <1>1, <1>3, FS_AddElement
<1>5. ASSUME t < u
      PROVE  Cardinality(before(t)) < Cardinality(before(u))
  <2>1. before(t) \cup {t} \subseteq before(u)
    <3>1. \A y \in r : y \in Int
      OBVIOUS
    <3>2. \A y \in r : y < t => y < u
      BY <1>5, <3>1
    <3> QED
      BY <1>5, <3>2
  <2>2. Cardinality(before(t) \cup {t}) <= Cardinality(before(u))
    <3> HIDE DEF before
    <3> QED
      BY <1>1, <2>1, FS_Subset
  <2> HIDE DEF before
  <2> QED
    BY <1>1, <1>4, <2>2
<1>6. Cardinality(before(t)) < Cardinality(r)
  <2>1. before(t) \cup {t} \subseteq r
    OBVIOUS
  <2>2. Cardinality(before(t) \cup {t}) <= Cardinality(r) /\ Cardinality(r) \in Nat
    BY <2>1, FS_Subset, FS_CardinalityType
  <2> HIDE DEF before
  <2> QED
    BY <1>1, <1>4, <2>2
<1> HIDE DEF before
<1> QED
  BY <1>1, <1>2, <1>5, <1>6

\* The tokens from one on are as many as its position leaves.
LEMMA TokensFrom ==
  ASSUME NEW r, IsFiniteSet(r), r \subseteq Int, NEW t \in r
  PROVE  Cardinality({x \in r : t <= x}) = Cardinality(r) - Position(r, t)
<1> DEFINE before == {x \in r : x < t}
           from == {x \in r : t <= x}
<1>1. from = r \ before /\ r \cap before = before
  <2>1. \A y \in r : y \in Int
    OBVIOUS
  <2>2. \A y \in r : t <= y <=> ~(y < t)
    BY <2>1
  <2> QED
    BY <2>2
<1>2. Position(r, t) = Cardinality(before)
  BY DEF Position
<1> HIDE DEF before
<1>3. Cardinality(r \ before) = Cardinality(r) - Cardinality(r \cap before)
  BY FS_Difference
<1> QED
  BY <1>1, <1>2, <1>3

Match(r, s, t) == [row |-> Position(r, t), col |-> Position(s, t)]

MatchesOf(r, s) == {Match(r, s, t) : t \in r \cap s}

LEMMA MatchesAreMatches ==
  ASSUME NEW id
  PROVE  Matches(id) = MatchesOf(data[query], data[id])
BY DEF Matches, MatchesOf, Match

\* Matches lie on an ascending line.
LEMMA MatchesAscend ==
  ASSUME NEW r, NEW s, IsFiniteSet(r), IsFiniteSet(s), r \subseteq Int, s \subseteq Int,
         NEW m \in MatchesOf(r, s), NEW n \in MatchesOf(r, s)
  PROVE  /\ m.row \in Nat /\ m.col \in Nat
         /\ m.row < Cardinality(r) /\ m.col < Cardinality(s)
         /\ m = [row |-> m.row, col |-> m.col]
         /\ m.row < n.row <=> m.col < n.col
         /\ m.row = n.row <=> m.col = n.col
         /\ m.row = n.row => m = n
<1>1. PICK t \in r \cap s : m = Match(r, s, t)
  BY DEF MatchesOf
<1>2. PICK u \in r \cap s : n = Match(r, s, u)
  BY DEF MatchesOf
<1>3. /\ m.row = Position(r, t) /\ m.col = Position(s, t)
      /\ n.row = Position(r, u) /\ n.col = Position(s, u)
  BY <1>1, <1>2 DEF Match
<1>4. t \in Int /\ u \in Int
  OBVIOUS
<1>5. /\ Position(r, t) \in Nat /\ Position(r, u) \in Nat
      /\ Position(s, t) \in Nat /\ Position(s, u) \in Nat
      /\ t < u => Position(r, t) < Position(r, u)
      /\ t < u => Position(s, t) < Position(s, u)
      /\ u < t => Position(r, u) < Position(r, t)
      /\ u < t => Position(s, u) < Position(s, t)
      /\ Position(r, t) < Cardinality(r) /\ Position(s, t) < Cardinality(s)
  BY <1>4, PositionsAscend
<1>6. m = [row |-> m.row, col |-> m.col]
  BY <1>1 DEF Match
<1>7. t < u \/ u < t \/ t = u
  BY <1>4
<1> QED
  BY <1>1, <1>2, <1>3, <1>5, <1>6, <1>7

LEMMA MatchesCount ==
  ASSUME NEW r, NEW s, IsFiniteSet(r), IsFiniteSet(s), r \subseteq Int, s \subseteq Int
  PROVE  /\ IsFiniteSet(MatchesOf(r, s))
         /\ Cardinality(MatchesOf(r, s)) = Cardinality(r \cap s)
<1> DEFINE match == [t \in r \cap s |-> Match(r, s, t)]
<1>1. IsFiniteSet(r \cap s)
  BY FS_Intersection
<1>2. match \in Bijection(r \cap s, MatchesOf(r, s))
  <2>1. match \in [r \cap s -> MatchesOf(r, s)]
    BY DEF MatchesOf
  <2>2. \A m \in MatchesOf(r, s) : \E t \in r \cap s : match[t] = m
    BY DEF MatchesOf
  <2>3. ASSUME NEW t \in r \cap s, NEW u \in r \cap s, match[t] = match[u]
        PROVE  t = u
    <3>1. Position(r, t) = Position(r, u)
      BY <2>3 DEF Match
    <3>2. t \in Int /\ u \in Int
      OBVIOUS
    <3>3. /\ Position(r, t) \in Nat /\ Position(r, u) \in Nat
          /\ t < u => Position(r, t) < Position(r, u)
          /\ u < t => Position(r, u) < Position(r, t)
      BY <3>2, PositionsAscend
    <3> QED
      BY <3>1, <3>2, <3>3
  <2> QED
    BY <2>1, <2>2, <2>3 DEF Bijection, Injection, Surjection, IsInjective
<1>3. ExistsBijection(r \cap s, MatchesOf(r, s))
  BY <1>2 DEF ExistsBijection
<1> QED
  BY <1>1, <1>3, FS_Bijection

\* Before its first match nothing is in common.
LEMMA FirstMatch ==
  ASSUME NEW r, NEW s, IsFiniteSet(r), IsFiniteSet(s), r \subseteq Int, s \subseteq Int,
         r \cap s # {}
  PROVE  \E m \in MatchesOf(r, s) :
           /\ \A n \in MatchesOf(r, s) : m.row <= n.row /\ m.col <= n.col
           /\ Cardinality(r \cap s) <= Cardinality(r) - m.row
           /\ Cardinality(r \cap s) <= Cardinality(s) - m.col
<1>1. IsFiniteSet(r \cap s) /\ r \cap s \subseteq Int
  BY FS_Intersection
<1>2. PICK t \in r \cap s : \A u \in r \cap s : t <= u
  BY <1>1, LeastInteger
<1> DEFINE m == Match(r, s, t)
<1>3. m \in MatchesOf(r, s)
  BY DEF MatchesOf
<1>4. \A n \in MatchesOf(r, s) : m.row <= n.row /\ m.col <= n.col
  <2> TAKE n \in MatchesOf(r, s)
  <2>1. PICK u \in r \cap s : n = Match(r, s, u)
    BY DEF MatchesOf
  <2>2. t \in Int /\ u \in Int /\ t <= u
    BY <1>2
  <2>3. /\ Position(r, t) \in Nat /\ Position(s, t) \in Nat
        /\ t < u => Position(r, t) < Position(r, u) /\ Position(s, t) < Position(s, u)
        /\ Position(r, u) \in Nat /\ Position(s, u) \in Nat
    BY <2>2, PositionsAscend
  <2> QED
    BY <2>1, <2>2, <2>3 DEF Match
<1>5. ASSUME NEW x \in {r, s}
      PROVE  Cardinality(r \cap s) <= Cardinality(x) - Position(x, t)
  <2> DEFINE from == {y \in x : t <= y}
  <2>1. r \cap s \subseteq from /\ from \subseteq x
    BY <1>2
  <2>2. IsFiniteSet(x) /\ x \subseteq Int /\ t \in x
    BY <1>5
  <2>3. Cardinality(from) = Cardinality(x) - Position(x, t)
    BY <2>2, TokensFrom
  <2>4. IsFiniteSet(from)
    BY <2>1, <2>2, FS_Subset
  <2> HIDE DEF from
  <2>5. Cardinality(r \cap s) <= Cardinality(from)
    BY <2>1, <2>4, FS_Subset
  <2> QED
    BY <2>3, <2>5
<1>6. m.row = Position(r, t) /\ m.col = Position(s, t)
  BY DEF Match
<1> QED
  <2> HIDE DEF m
  <2> QED
    BY <1>3, <1>4, <1>5, <1>6

-------------------------------------------------------------------------------
(* Groups. *)

\* The lower bounds of a finite set of groups are numbered from 0 on.
LEMMA RanksExist ==
  ASSUME NEW S, IsFiniteSet(S), S \subseteq Int
  PROVE  \A g \in 0 .. (Cardinality(S) - 1) : \E b \in S : Cardinality({x \in S : x < b}) = g
<1> DEFINE Ranked(T) == \A g \in 0 .. (Cardinality(T) - 1) :
                          \E b \in T : Cardinality({x \in T : x < b}) = g
           F == {T \in SUBSET S : Ranked(T)}
<1>1. {} \in F
  BY FS_EmptySet
<1>2. ASSUME NEW T \in SUBSET S, T # {}
      PROVE  \E z \in T : T \ {z} \in F => T \in F
  <2>1. IsFiniteSet(T) /\ T \subseteq Int
    BY FS_Subset
  <2>2. PICK z \in T : \A y \in T : y <= z
    BY <1>2, <2>1, LeastInteger
  <2>3. /\ IsFiniteSet(T \ {z}) /\ Cardinality(T \ {z}) = Cardinality(T) - 1
        /\ Cardinality(T) \in Nat
    BY <2>1, FS_RemoveElement, FS_CardinalityType
  <2>4. ASSUME T \ {z} \in F, NEW g \in 0 .. (Cardinality(T) - 1)
        PROVE  \E b \in T : Cardinality({x \in T : x < b}) = g
    <3>1. CASE g = Cardinality(T) - 1
      <4>1. {x \in T : x < z} = T \ {z}
        <5>1. \A x \in T : x < z <=> x # z
          BY <2>1, <2>2
        <5> QED
          BY <5>1
      <4> QED
        BY <2>3, <3>1, <4>1
    <3>2. CASE g \in 0 .. (Cardinality(T \ {z}) - 1)
      <4>1. PICK b \in T \ {z} : Cardinality({x \in T \ {z} : x < b}) = g
        BY <2>4, <3>2
      <4>2. {x \in T : x < b} = {x \in T \ {z} : x < b}
        <5>1. ~(z < b)
          BY <2>1, <2>2
        <5> QED
          BY <5>1
      <4> QED
        BY <4>1, <4>2
    <3> QED
      BY <2>3, <3>1, <3>2
  <2>5. T \ {z} \in F => T \in F
    BY <2>4
  <2> HIDE DEF F
  <2> QED
    BY <2>5
<1>3. S \in F
  <2> HIDE DEF F
  <2> QED
    BY <1>1, <1>2, SubsetDescent
<1> QED
  BY <1>3

\* A grouping of a data set: finite, with a lower bound for every size and a tombstone
\* above it.
IsGrouping(gs, records) ==
  /\ IsFiniteSet(gs)
  /\ gs \subseteq Int
  /\ \A id \in RecordIds(records) : /\ \E b \in gs : b <= Size(records, id)
                                    /\ \E b \in gs : Size(records, id) < b

LEMMA LowerBoundRank ==
  ASSUME NEW gs, IsFiniteSet(gs), gs \subseteq Int, NEW g \in 0 .. GroupCount(gs)
  PROVE  /\ LowerBound(gs, g) \in gs
         /\ LowerBound(gs, g) \in Int
         /\ Cardinality({x \in gs : x < LowerBound(gs, g)}) = g
<1>1. \E b \in gs : Cardinality({x \in gs : x < b}) = g
  BY RanksExist DEF GroupCount
<1> QED
  BY <1>1 DEF LowerBound

LEMMA BoundsAscend ==
  ASSUME NEW gs, IsFiniteSet(gs), gs \subseteq Int,
         NEW g \in 0 .. GroupCount(gs), NEW h \in 0 .. GroupCount(gs), g < h
  PROVE  LowerBound(gs, g) < LowerBound(gs, h)
<1> DEFINE b == LowerBound(gs, g)
           c == LowerBound(gs, h)
<1>1. /\ b \in Int /\ Cardinality({x \in gs : x < b}) = g
      /\ c \in Int /\ Cardinality({x \in gs : x < c}) = h
  BY LowerBoundRank
<1> HIDE DEF b, c
<1>2. ASSUME c <= b
      PROVE  FALSE
  <2>1. \A x \in gs : x \in Int
    OBVIOUS
  <2>2. {x \in gs : x < c} \subseteq {x \in gs : x < b}
    <3>1. \A x \in gs : x < c => x < b
      BY <1>1, <1>2, <2>1
    <3> QED
      BY <3>1
  <2>3. IsFiniteSet({x \in gs : x < b})
    BY FS_Subset
  <2>4. h <= g
    BY <1>1, <2>2, <2>3, FS_Subset
  <2> QED
    BY <2>4
<1> QED
  BY <1>1, <1>2 DEF b, c

\* The group of a size has it between its bounds.
LEMMA GroupHoldsSize ==
  ASSUME NEW gs, IsFiniteSet(gs), gs \subseteq Int, NEW size \in Int,
         \E b \in gs : b <= size, \E b \in gs : size < b
  PROVE  /\ GroupOf(gs, size) \in 0 .. (GroupCount(gs) - 1)
         /\ LowerBound(gs, GroupOf(gs, size)) <= size
         /\ size <= UpperBound(gs, GroupOf(gs, size))
<1> DEFINE below == {b \in gs : b <= size}
           g == GroupOf(gs, size)
<1>1. below \subseteq gs /\ below # {} /\ IsFiniteSet(below)
  BY FS_Subset
<1>2. Cardinality(below) \in Nat \ {0} /\ Cardinality(gs) \in Nat
  BY <1>1, FS_CardinalityType, FS_EmptySet
<1>3. Cardinality(below) < Cardinality(gs)
  <2>1. PICK b \in gs : size < b
    OBVIOUS
  <2>2. b \notin below
    BY <2>1
  <2>3. below # gs
    BY <2>2
  <2> HIDE DEF below
  <2>4. Cardinality(below) <= Cardinality(gs)
    BY <1>1, FS_Subset
  <2>5. Cardinality(below) = Cardinality(gs) => below = gs
    BY <1>1, FS_Subset
  <2> QED
    BY <1>2, <2>3, <2>4, <2>5
<1>4. g = Cardinality(below) - 1
  BY DEF GroupOf
<1>5. g \in 0 .. (GroupCount(gs) - 1) /\ g \in Int
  BY <1>2, <1>3, <1>4 DEF GroupCount
<1> HIDE DEF g
<1>6. g \in 0 .. GroupCount(gs) /\ g + 1 \in 0 .. GroupCount(gs)
  BY <1>2, <1>5 DEF GroupCount
<1> DEFINE b == LowerBound(gs, g)
           c == LowerBound(gs, g + 1)
<1>7. /\ b \in gs /\ b \in Int /\ Cardinality({x \in gs : x < b}) = g
      /\ c \in gs /\ c \in Int /\ Cardinality({x \in gs : x < c}) = g + 1
  BY <1>6, LowerBoundRank
<1> HIDE DEF b, c
<1>8. \A x \in gs : x \in Int
  OBVIOUS
<1>9. b <= size
  <2> SUFFICES ASSUME size < b
               PROVE  FALSE
    BY <1>7
  <2>1. below \subseteq {x \in gs : x < b}
    <3>1. \A x \in gs : x <= size => x < b
      BY <1>7, <1>8
    <3> QED
      BY <3>1
  <2>2. Cardinality(below) <= Cardinality({x \in gs : x < b})
    <3>1. IsFiniteSet({x \in gs : x < b})
      BY FS_Subset
    <3> HIDE DEF below
    <3> QED
      BY <2>1, <3>1, FS_Subset
  <2> QED
    BY <1>2, <1>4, <1>7, <2>2
<1>10. size < c
  <2> SUFFICES ASSUME c <= size
               PROVE  FALSE
    BY <1>7
  <2> DEFINE before == {x \in gs : x < c}
  <2>1. before \cup {c} \subseteq below
    <3>1. \A x \in gs : x < c => x <= size
      BY <1>7, <1>8
    <3> QED
      BY <1>7, <3>1
  <2>2. IsFiniteSet(before) /\ c \notin before
    <3>1. before \subseteq gs
      OBVIOUS
    <3> QED
      BY <1>7, <3>1, FS_Subset
  <2>3. Cardinality(before \cup {c}) <= Cardinality(below)
    <3> HIDE DEF below, before
    <3> QED
      BY <1>1, <2>1, FS_Subset
  <2>4. Cardinality(before \cup {c}) = Cardinality(before) + 1
    <3> HIDE DEF before
    <3> QED
      BY <2>2, FS_AddElement
  <2> QED
    BY <1>2, <1>4, <1>5, <1>7, <2>3, <2>4
<1>11. UpperBound(gs, g) = c - 1
  BY DEF UpperBound, c
<1> QED
  BY <1>5, <1>7, <1>9, <1>10, <1>11 DEF g, b

\* The recursive function of Load, which packs the sizes from the smallest on.
LoadFrom(load, hist, cap, s) ==
  LET smaller == {x \in Sizes(hist) : x < s}
      previous == CHOOSE x \in smaller : \A y \in smaller : y <= x
  IN IF smaller # {} /\ load[previous] + hist[s] <= cap
     THEN load[previous] + hist[s]
     ELSE hist[s]

IsLoad(load, hist, cap) == load = [s \in Sizes(hist) |-> LoadFrom(load, hist, cap, s)]

LEMMA LoadExists ==
  ASSUME NEW hist, NEW cap, IsFiniteSet(Sizes(hist)), Sizes(hist) \subseteq Int
  PROVE  \E load : IsLoad(load, hist, cap)
<1> DEFINE D == Sizes(hist)
           smaller(s) == {x \in D : x < s}
           previous(s) == CHOOSE x \in smaller(s) : \A y \in smaller(s) : y <= x
           N == {n \in Nat : \E f : \A s \in D : Cardinality(smaller(s)) < n
                                                => f[s] = LoadFrom(f, hist, cap, s)}
<1>1. ASSUME NEW s \in D
      PROVE  /\ IsFiniteSet(smaller(s)) /\ Cardinality(smaller(s)) \in Nat
             /\ Cardinality(smaller(s)) <= Cardinality(D)
             /\ smaller(s) # {} => /\ previous(s) \in D
                                   /\ Cardinality(smaller(previous(s))) < Cardinality(smaller(s))
  <2>1. smaller(s) \subseteq D
    OBVIOUS
  <2>2. /\ IsFiniteSet(smaller(s)) /\ Cardinality(smaller(s)) \in Nat
        /\ Cardinality(smaller(s)) <= Cardinality(D)
    <3> HIDE DEF smaller
    <3> QED
      BY <2>1, FS_Subset, FS_CardinalityType
  <2>3. ASSUME smaller(s) # {}
        PROVE  /\ previous(s) \in D
               /\ Cardinality(smaller(previous(s))) < Cardinality(smaller(s))
    <3>1. \E x \in smaller(s) : \A y \in smaller(s) : y <= x
      <4> HIDE DEF smaller
      <4> QED
        BY <2>1, <2>2, <2>3, LeastInteger
    <3>2. previous(s) \in smaller(s)
      BY <3>1
    <3> DEFINE p == previous(s)
    <3>3. p \in D /\ p < s /\ p \in Int /\ s \in Int
      BY <3>2
    <3> HIDE DEF p, previous
    <3>4. smaller(p) \subseteq smaller(s) /\ p \in smaller(s) /\ p \notin smaller(p)
      <4>1. \A x \in D : x \in Int
        OBVIOUS
      <4>2. \A x \in D : x < p => x < s
        BY <3>3, <4>1
      <4> QED
        BY <3>3, <4>2
    <3>5. /\ Cardinality(smaller(p)) <= Cardinality(smaller(s))
          /\ Cardinality(smaller(p)) = Cardinality(smaller(s)) => smaller(p) = smaller(s)
          /\ Cardinality(smaller(p)) \in Nat
      <4> HIDE DEF smaller
      <4> QED
        BY <2>2, <3>4, FS_Subset, FS_CardinalityType
    <3>6. smaller(p) # smaller(s)
      <4> HIDE DEF smaller
      <4> QED
        BY <3>4
    <3>7. Cardinality(smaller(p)) < Cardinality(smaller(s))
      <4> HIDE DEF smaller
      <4> QED
        BY <2>2, <3>5, <3>6
    <3> QED
      BY <3>3, <3>7 DEF p
  <2> QED
    BY <2>2, <2>3
<1>2. 0 \in N
  <2>1. \A s \in D : ~(Cardinality(smaller(s)) < 0)
    <3> HIDE DEF D, smaller
    <3> QED
      BY <1>1
  <2> QED
    BY <2>1
<1>3. ASSUME NEW n \in Nat, n \in N
      PROVE  n + 1 \in N
  <2>1. PICK f : \A s \in D : Cardinality(smaller(s)) < n => f[s] = LoadFrom(f, hist, cap, s)
    BY <1>3
  <2> DEFINE g == [s \in D |-> IF Cardinality(smaller(s)) < n THEN f[s]
                                                         ELSE LoadFrom(f, hist, cap, s)]
  <2>2. ASSUME NEW s \in D, Cardinality(smaller(s)) < n + 1
        PROVE  g[s] = LoadFrom(g, hist, cap, s)
    <3>1. g[s] = LoadFrom(f, hist, cap, s)
      BY <2>1
    <3>2. CASE smaller(s) = {}
      BY <3>1, <3>2 DEF LoadFrom
    <3>3. CASE smaller(s) # {}
      <4>1. previous(s) \in D /\ Cardinality(smaller(previous(s))) < n
        <5> HIDE DEF previous, smaller, D
        <5>1. previous(s) \in D /\ Cardinality(smaller(previous(s))) < Cardinality(smaller(s))
          BY <1>1, <3>3
        <5>2. Cardinality(smaller(s)) \in Nat /\ Cardinality(smaller(previous(s))) \in Nat
          BY <1>1, <5>1
        <5> QED
          BY <2>2, <5>1, <5>2
      <4>2. g[previous(s)] = f[previous(s)]
        <5> HIDE DEF previous
        <5> QED
          BY <4>1
      <4>3. LoadFrom(g, hist, cap, s) = LoadFrom(f, hist, cap, s)
        <5> HIDE DEF g
        <5> QED
          BY <4>2 DEF LoadFrom
      <4> QED
        BY <3>1, <4>3
    <3> QED
      BY <3>2, <3>3
  <2> QED
    <3> HIDE DEF g
    <3> QED
      BY <2>2
<1>4. Nat \subseteq N
  <2> HIDE DEF N
  <2> QED
    BY <1>2, <1>3, NatClosure
<1>5. PICK f : \A s \in D : f[s] = LoadFrom(f, hist, cap, s)
  <2> DEFINE n == Cardinality(D) + 1
  <2>1. n \in N /\ Cardinality(D) \in Nat
    BY <1>4, FS_CardinalityType
  <2>2. PICK f : \A s \in D : Cardinality(smaller(s)) < n => f[s] = LoadFrom(f, hist, cap, s)
    BY <2>1
  <2>3. \A s \in D : Cardinality(smaller(s)) < n
    <3> HIDE DEF smaller, D
    <3> QED
      BY <1>1, <2>1
  <2> QED
    BY <2>2, <2>3
<1> DEFINE load == [s \in D |-> f[s]]
<1>6. ASSUME NEW s \in D
      PROVE  LoadFrom(load, hist, cap, s) = LoadFrom(f, hist, cap, s)
  <2>1. CASE smaller(s) = {}
    BY <2>1 DEF LoadFrom
  <2>2. CASE smaller(s) # {}
    <3>1. load[previous(s)] = f[previous(s)]
      <4>1. previous(s) \in D
        BY <1>1, <2>2
      <4> HIDE DEF previous
      <4> QED
        BY <4>1
    <3> HIDE DEF load
    <3> QED
      BY <3>1 DEF LoadFrom
  <2> QED
    BY <2>1, <2>2
<1>7. load = [s \in D |-> LoadFrom(load, hist, cap, s)]
  <2>1. \A s \in D : load[s] = LoadFrom(load, hist, cap, s)
    <3>1. \A s \in D : load[s] = f[s]
      OBVIOUS
    <3> HIDE DEF load
    <3> QED
      BY <1>5, <1>6, <3>1
  <2>2. load = [s \in D |-> load[s]]
    OBVIOUS
  <2> HIDE DEF load
  <2> QED
    BY <2>1, <2>2
<1> QED
  <2> HIDE DEF load
  <2> QED
    BY <1>7 DEF IsLoad

\* The smallest size starts a group of every packing.
LEMMA SmallestStarts ==
  ASSUME NEW hist, NEW cap, IsFiniteSet(Sizes(hist)), Sizes(hist) \subseteq Int,
         NEW least \in Sizes(hist), \A s \in Sizes(hist) : least <= s
  PROVE  least \in PackingStarts(hist, cap)
<1> DEFINE load == CHOOSE load : IsLoad(load, hist, cap)
<1>1. IsLoad(load, hist, cap)
  BY LoadExists
<1>2. Load(hist, cap) = load
  BY DEF Load, IsLoad, LoadFrom
<1> HIDE DEF load
<1>3. {x \in Sizes(hist) : x < least} = {}
  <2>1. \A x \in Sizes(hist) : ~(x < least)
    <3> TAKE x \in Sizes(hist)
    <3>1. x \in Int /\ least \in Int /\ least <= x
      OBVIOUS
    <3> QED
      BY <3>1
  <2> QED
    BY <2>1
<1>4. load[least] = hist[least]
  BY <1>1, <1>3 DEF IsLoad, LoadFrom
<1> QED
  BY <1>2, <1>4 DEF PackingStarts

LEMMA GroupingIsGrouping ==
  ASSUME NEW records, IsDataset(records), RecordIds(records) # {},
         NEW name \in {"identity", "aio", "fixed", "usqrt", "wsqrt"}, HasGroups(name, records)
  PROVE  IsGrouping(Grouping(name, records), records)
<1> DEFINE hist == Histogram(records)
           sizes == Sizes(hist)
           least == SmallestSize(hist)
           most == LargestSize(hist)
<1>1. sizes = {Size(records, id) : id \in RecordIds(records)}
  BY DEF Histogram, Sizes
<1>2. IsFiniteSet(sizes) /\ sizes # {} /\ sizes \subseteq Nat \ {0}
  <2> DEFINE size == [id \in RecordIds(records) |-> Size(records, id)]
  <2>1. size \in Surjection(RecordIds(records), sizes)
    BY <1>1 DEF Surjection
  <2>2. IsFiniteSet(sizes)
    <3> HIDE DEF size, sizes
    <3> QED
      BY <2>1, FS_Surjection DEF IsDataset
  <2>3. \A id \in RecordIds(records) : Size(records, id) \in Nat \ {0}
    BY FS_CardinalityType, FS_EmptySet DEF IsDataset, Size
  <2> QED
    BY <1>1, <2>2, <2>3
<1> HIDE DEF sizes
<1>3. /\ \E x \in sizes : \A y \in sizes : x <= y
      /\ \E x \in sizes : \A y \in sizes : y <= x
  <2>1. sizes \subseteq Int
    BY <1>2
  <2> QED
    BY <1>2, <2>1, LeastInteger
<1>4. /\ least \in sizes /\ \A s \in sizes : least <= s
      /\ most \in sizes /\ \A s \in sizes : s <= most
  BY <1>3 DEF SmallestSize, LargestSize, sizes
<1>5. Tombstone(hist) = most + 1
  BY DEF Tombstone
<1> HIDE DEF least, most, hist
<1>6. /\ least \in Nat \ {0} /\ most \in Nat /\ least <= most
      /\ \A s \in sizes : s \in Nat \ {0} /\ 1 <= s
  BY <1>2, <1>4
<1>7. ASSUME NEW gs, NEW starts, gs = starts \cup {Tombstone(hist)},
             IsFiniteSet(starts), starts \subseteq Int, \E b \in starts : b <= least
      PROVE  IsGrouping(gs, records)
  <2>1. IsFiniteSet(gs)
    BY <1>7, FS_AddElement
  <2>2. gs \subseteq Int /\ most + 1 \in gs
    BY <1>5, <1>6, <1>7
  <2>3. PICK b \in starts : b <= least /\ b \in Int
    BY <1>7
  <2>4. ASSUME NEW id \in RecordIds(records)
        PROVE  /\ \E x \in gs : x <= Size(records, id)
               /\ \E x \in gs : Size(records, id) < x
    <3>1. Size(records, id) \in sizes
      BY <1>1
    <3>2. Size(records, id) \in Nat /\ least <= Size(records, id) /\ Size(records, id) <= most
      BY <1>4, <1>6, <3>1
    <3>3. b <= Size(records, id) /\ b \in gs
      BY <1>6, <1>7, <2>3, <3>2
    <3>4. Size(records, id) < most + 1
      BY <1>6, <3>2
    <3> QED
      BY <2>2, <3>3, <3>4
  <2> QED
    BY <2>1, <2>2, <2>4 DEF IsGrouping
<1>8. sizes \subseteq Int
  BY <1>2
<1>9. CASE name = "identity"
  <2>1. Grouping(name, records) = sizes \cup {Tombstone(hist)}
    BY <1>9 DEF Grouping, ExactGrouping, hist, sizes
  <2>2. \E b \in sizes : b <= least
    BY <1>4, <1>6
  <2> QED
    BY <1>2, <1>7, <1>8, <2>1, <2>2
<1>10. CASE name = "aio"
  <2>1. Grouping(name, records) = {1} \cup {Tombstone(hist)}
    BY <1>10 DEF Grouping, AioGrouping, hist
  <2>2. IsFiniteSet({1})
    BY FS_Singleton
  <2>3. \E b \in {1} : b <= least
    BY <1>6
  <2> QED
    BY <1>7, <2>1, <2>2, <2>3
<1>11. CASE name = "fixed"
  <2> DEFINE starts == {s \in least .. (most - 1) : (s - least) % FixedWidth = 0}
  <2>1. Grouping(name, records) = starts \cup {Tombstone(hist)}
    BY <1>11 DEF Grouping, FixedWidthGrouping, hist, least, most
  <2>2. least < most
    BY <1>11 DEF HasGroups, hist, least, most
  <2>3. IsFiniteSet(starts)
    <3>1. IsFiniteSet(least .. (most - 1))
      BY <1>6, FS_Interval
    <3> QED
      BY <3>1, FS_Subset
  <2>4. least \in starts
    <3>1. least - least = 0 /\ 0 % FixedWidth = 0
      BY <1>6 DEF FixedWidth
    <3> QED
      BY <1>6, <2>2, <3>1
  <2>5. starts \subseteq Int /\ \E b \in starts : b <= least
    BY <1>6, <2>4
  <2> HIDE DEF starts
  <2> QED
    BY <1>7, <2>1, <2>3, <2>5
<1>12. CASE name \in {"usqrt", "wsqrt"}
  <2>1. \E cap : Grouping(name, records) = PackingStarts(hist, cap) \cup {Tombstone(hist)}
    BY <1>12 DEF Grouping, BalancedGrouping, hist
  <2>2. PICK cap : Grouping(name, records) = PackingStarts(hist, cap) \cup {Tombstone(hist)}
    BY <2>1
  <2>3. PackingStarts(hist, cap) \subseteq sizes
    BY DEF PackingStarts, sizes
  <2>4. least \in PackingStarts(hist, cap)
    BY <1>2, <1>4, <1>8, SmallestStarts DEF sizes
  <2>5. IsFiniteSet(PackingStarts(hist, cap))
    BY <1>2, <2>3, FS_Subset
  <2>6. PackingStarts(hist, cap) \subseteq Int
    BY <1>8, <2>3
  <2>7. \E b \in PackingStarts(hist, cap) : b <= least
    <3>1. least <= least
      BY <1>6
    <3> QED
      BY <2>4, <3>1
  <2> QED
    BY <1>7, <2>2, <2>5, <2>6, <2>7
<1> QED
  BY <1>9, <1>10, <1>11, <1>12

-------------------------------------------------------------------------------
(* The join and its groups. *)
SetupInv ==
  /\ IsDataset(data)
  /\ k \in Nat \ {0}
  /\ mode \in {"TOPK_BASELINE", "FILTER", "FULL"}
  /\ depth \in Nat
  /\ Ids # {} => IsGrouping(groups, data)
  /\ dual # <<>> => \A n \in {1, 2} : \A t \in UsedTokens(data) : dual[n][t] \in GroupIds

\* The mode FULL reads enough columns only when there is one group, or when all records
\* of a group have one size; KNNFullGrouped has the counterexample.
SuitsFull == LastGroup = 0 \/ \A id \in Ids : Size(data, id) \in groups

Sound == mode = "FULL" => SuitsFull

Home(id) == GroupOf(groups, Size(data, id))

LEMMA RecordFacts ==
  ASSUME SetupInv, NEW id \in Ids
  PROVE  /\ IsFiniteSet(data[id]) /\ data[id] \subseteq Int /\ data[id] # {}
         /\ Size(data, id) = Cardinality(data[id])
         /\ Size(data, id) \in Nat \ {0}
         /\ Ids # {}
<1>1. IsFiniteSet(data[id]) /\ data[id] \subseteq Nat /\ data[id] # {}
  BY DEF SetupInv, IsDataset, Ids
<1>2. data[id] \subseteq Int
  BY <1>1
<1> QED
  BY <1>1, <1>2, FS_CardinalityType, FS_EmptySet DEF Size

LEMMA GroupFacts ==
  ASSUME SetupInv, Ids # {}
  PROVE  /\ LastGroup \in Nat
         /\ \A id \in Ids : /\ Home(id) \in 0 .. LastGroup
                            /\ LowerBound(groups, Home(id)) <= Size(data, id)
                            /\ Size(data, id) <= UpperBound(groups, Home(id))
         /\ \A g \in 0 .. LastGroup : /\ LowerBound(groups, g) \in Int
                                      /\ UpperBound(groups, g) \in Int
                                      /\ LowerBound(groups, g) <= UpperBound(groups, g)
         /\ \A g, h \in 0 .. LastGroup :
              g < h => /\ UpperBound(groups, g) < LowerBound(groups, h)
                       /\ UpperBound(groups, g) < UpperBound(groups, h)
                       /\ LowerBound(groups, g) < LowerBound(groups, h)
<1>1. IsFiniteSet(groups) /\ groups \subseteq Int /\ IsGrouping(groups, data)
  BY DEF SetupInv, IsGrouping
<1>2. ASSUME NEW id \in Ids
      PROVE  /\ Home(id) \in 0 .. LastGroup
             /\ LowerBound(groups, Home(id)) <= Size(data, id)
             /\ Size(data, id) <= UpperBound(groups, Home(id))
  <2>1. Size(data, id) \in Int
    BY RecordFacts
  <2>2. (\E b \in groups : b <= Size(data, id)) /\ (\E b \in groups : Size(data, id) < b)
    BY <1>1 DEF IsGrouping, Ids
  <2> QED
    BY <1>1, <2>1, <2>2, GroupHoldsSize DEF Home, LastGroup
<1>3. GroupCount(groups) \in Int /\ LastGroup = GroupCount(groups) - 1
  BY <1>1, FS_CardinalityType DEF GroupCount, LastGroup
<1>4. LastGroup \in Nat
  BY <1>2, <1>3
<1>5. \A g \in 0 .. (LastGroup + 1) : LowerBound(groups, g) \in Int
  <2> TAKE g \in 0 .. (LastGroup + 1)
  <2>1. g \in 0 .. GroupCount(groups)
    BY <1>3
  <2>2. LowerBound(groups, g) \in groups
    BY <1>1, <2>1, LowerBoundRank
  <2> QED
    BY <1>1, <2>2
<1>6. \A g, h \in 0 .. (LastGroup + 1) : g < h => LowerBound(groups, g) < LowerBound(groups, h)
  <2> TAKE g, h \in 0 .. (LastGroup + 1)
  <2>1. g \in 0 .. GroupCount(groups) /\ h \in 0 .. GroupCount(groups)
    BY <1>3
  <2> QED
    BY <1>1, <2>1, BoundsAscend
<1>7. ASSUME NEW g \in 0 .. LastGroup
      PROVE  /\ LowerBound(groups, g) \in Int
             /\ UpperBound(groups, g) = LowerBound(groups, g + 1) - 1
             /\ UpperBound(groups, g) \in Int
             /\ LowerBound(groups, g) <= UpperBound(groups, g)
  <2>1. g \in 0 .. (LastGroup + 1) /\ g + 1 \in 0 .. (LastGroup + 1) /\ g < g + 1
    BY <1>4
  <2>2. /\ LowerBound(groups, g) \in Int /\ LowerBound(groups, g + 1) \in Int
        /\ LowerBound(groups, g) < LowerBound(groups, g + 1)
    BY <1>5, <1>6, <2>1
  <2> QED
    BY <2>2 DEF UpperBound
<1>8. ASSUME NEW g \in 0 .. LastGroup, NEW h \in 0 .. LastGroup, g < h
      PROVE  UpperBound(groups, g) < LowerBound(groups, h)
  <2>1. g + 1 = h \/ g + 1 < h
    BY <1>8
  <2>2. g + 1 \in 0 .. (LastGroup + 1) /\ h \in 0 .. (LastGroup + 1)
    BY <1>4
  <2>3. LowerBound(groups, g + 1) <= LowerBound(groups, h)
    BY <1>5, <1>6, <2>1, <2>2
  <2> QED
    BY <1>5, <1>7, <2>2, <2>3
<1>9. ASSUME NEW g \in 0 .. LastGroup, NEW h \in 0 .. LastGroup, g < h
      PROVE  /\ UpperBound(groups, g) < UpperBound(groups, h)
             /\ LowerBound(groups, g) < LowerBound(groups, h)
  <2>1. UpperBound(groups, g) < LowerBound(groups, h)
    BY <1>8, <1>9
  <2> QED
    BY <1>7, <2>1
<1> QED
  BY <1>2, <1>4, <1>7, <1>8, <1>9

-------------------------------------------------------------------------------
(* The queue. *)
Own == GroupOf(groups, RSize)

\* The events that are in the queue or will be when the popped one is done with.
Open == IF pc = "verify" THEN queue \cup NextEvents(event) ELSE queue

IsEvent(e) ==
  /\ e.grp \in 0 .. LastGroup /\ e.pR \in Nat /\ e.pS \in Int
  /\ e.ub = GroupedSimUb(groups, RSize, e.grp, e.pR)
  /\ e.grp < Own => e.pS >= 0 /\ (e.pS = 0 => e.pR = RSize - UpperBound(groups, e.grp))
  /\ e.pS - e.pR >= LowerBound(groups, e.grp) - RSize
  /\ LastGroup = 0 => e.pS - e.pR >= UpperBound(groups, e.grp) - RSize

\* An event reaches its own group and, before it was read, the groups behind it.
Reaches(e, g) ==
  \/ e.grp = g
  \/ Own < e.grp /\ e.grp < g /\ e.pR = 0
  \/ g < e.grp /\ e.grp < Own /\ e.pS = 0

QueueInv ==
  /\ \A e \in Open : IsEvent(e)
  /\ \A g \in 0 .. LastGroup : \E e \in Open : Reaches(e, g)

LEMMA OwnFacts ==
  ASSUME SetupInv, query \in Ids
  PROVE  /\ RSize \in Nat \ {0}
         /\ Own \in 0 .. LastGroup
         /\ LowerBound(groups, Own) <= RSize /\ RSize <= UpperBound(groups, Own)
         /\ \A g \in 0 .. LastGroup :
              /\ g < Own => UpperBound(groups, g) < RSize
              /\ Own < g => RSize < LowerBound(groups, g)
              /\ LowerBound(groups, g) > RSize => Own < g
              /\ UpperBound(groups, g) < RSize => g < Own
<1>1. RSize \in Nat \ {0} /\ RSize = Size(data, query) /\ Ids # {} /\ Own = Home(query)
  BY RecordFacts DEF RSize, Own, Home
<1>2. /\ Own \in 0 .. LastGroup
      /\ LowerBound(groups, Own) <= RSize /\ RSize <= UpperBound(groups, Own)
  BY <1>1, GroupFacts
<1>3. ASSUME NEW g \in 0 .. LastGroup
      PROVE  /\ g < Own => UpperBound(groups, g) < RSize
             /\ Own < g => RSize < LowerBound(groups, g)
             /\ LowerBound(groups, g) > RSize => Own < g
             /\ UpperBound(groups, g) < RSize => g < Own
  <2>1. /\ LowerBound(groups, g) \in Int /\ UpperBound(groups, g) \in Int
        /\ LowerBound(groups, Own) \in Int /\ UpperBound(groups, Own) \in Int
        /\ LowerBound(groups, g) <= UpperBound(groups, g)
        /\ g < Own => UpperBound(groups, g) < LowerBound(groups, Own)
        /\ Own < g => UpperBound(groups, Own) < LowerBound(groups, g)
    BY <1>1, <1>2, GroupFacts
  <2>2. g < Own \/ g = Own \/ Own < g
    BY <1>2
  <2> QED
    BY <1>1, <1>2, <2>1, <2>2
<1> QED
  BY <1>1, <1>2, <1>3

\* The next events are the next row and column of the group, and the entry of the next
\* group, longer or shorter.
LEMMA NextEventCases ==
  ASSUME SetupInv, query \in Ids, NEW e, IsEvent(e), NEW n \in NextEvents(e)
  PROVE  /\ IsEvent(n)
         /\ \/ n.grp = e.grp /\ n.pR = e.pR + 1 /\ n.pS = e.pS + 1
            \/ n.grp = e.grp + 1 /\ Own < e.grp /\ e.pR = 0 /\ n.pR = 0
            \/ n.grp = e.grp - 1 /\ e.grp < Own /\ e.pS = 0 /\ n.pS = 0
<1> DEFINE g == e.grp
           lb(h) == LowerBound(groups, h)
           ub(h) == UpperBound(groups, h)
<1>1. /\ g \in 0 .. LastGroup /\ e.pR \in Nat /\ e.pS \in Int
      /\ g < Own => e.pS >= 0 /\ (e.pS = 0 => e.pR = RSize - ub(g))
      /\ e.pS - e.pR >= lb(g) - RSize
      /\ LastGroup = 0 => e.pS - e.pR >= ub(g) - RSize
  BY DEF IsEvent
<1>2. /\ RSize \in Nat \ {0} /\ Own \in 0 .. LastGroup /\ LastGroup \in Nat
      /\ \A h \in 0 .. LastGroup : /\ lb(h) \in Int /\ ub(h) \in Int /\ lb(h) <= ub(h)
                                   /\ h < Own => ub(h) < RSize
                                   /\ lb(h) > RSize => Own < h
                                   /\ ub(h) < RSize => h < Own
  BY OwnFacts, GroupFacts
<1>3. CASE n = Event(RSize, e.pR + 1, g, e.pS + 1)
  <2>1. /\ n.grp = g /\ n.pR = e.pR + 1 /\ n.pS = e.pS + 1
        /\ n.ub = GroupedSimUb(groups, RSize, n.grp, n.pR)
    BY <1>3 DEF Event
  <2>2. lb(g) \in Int /\ ub(g) \in Int /\ n.pS - n.pR = e.pS - e.pR
    BY <1>1, <1>2, <2>1
  <2>3. n.pR \in Nat /\ n.pS \in Int /\ (g < Own => n.pS >= 0 /\ n.pS # 0)
    BY <1>1, <2>1
  <2>4. IsEvent(n)
    BY <1>1, <2>1, <2>2, <2>3 DEF IsEvent
  <2> QED
    BY <2>1, <2>4
<1>4. CASE /\ lb(g) > RSize /\ e.pR = 0 /\ g < LastGroup
           /\ n = Event(RSize, e.pR, g + 1, IncPos(e.pS, g))
  <2>1. /\ n.grp = g + 1 /\ n.pR = 0 /\ n.pS = e.pS + (lb(g + 1) - lb(g))
        /\ n.ub = GroupedSimUb(groups, RSize, n.grp, n.pR)
    BY <1>4 DEF Event, IncPos
  <2>2. g + 1 \in 0 .. LastGroup /\ Own < g
    BY <1>1, <1>2, <1>4
  <2>3. lb(g) \in Int /\ lb(g + 1) \in Int
    BY <1>1, <1>2, <2>2
  <2>4. n.pR \in Nat /\ n.pS \in Int /\ n.pS - n.pR >= lb(g + 1) - RSize
    BY <1>1, <1>2, <1>4, <2>1, <2>3
  <2>5. IsEvent(n)
    <3>1. LastGroup # 0 /\ ~(n.grp < Own)
      BY <1>1, <1>2, <2>1, <2>2
    <3> QED
      BY <2>1, <2>2, <2>4, <3>1 DEF IsEvent
  <2> QED
    BY <1>4, <2>1, <2>2, <2>5
<1>5. CASE /\ ub(g) < RSize /\ e.pS = 0 /\ g > 0
           /\ n = Event(RSize, DecPos(e.pR, g), g - 1, e.pS)
  <2>1. /\ n.grp = g - 1 /\ n.pS = 0 /\ n.pR = e.pR + (ub(g) - ub(g - 1))
        /\ n.ub = GroupedSimUb(groups, RSize, n.grp, n.pR)
    BY <1>5 DEF Event, DecPos
  <2>2. g - 1 \in 0 .. LastGroup /\ g < Own /\ g - 1 < Own
    BY <1>1, <1>2, <1>5
  <2>3. lb(g - 1) \in Int /\ ub(g - 1) \in Int /\ ub(g) \in Int /\ lb(g - 1) <= ub(g - 1)
        /\ ub(g - 1) < RSize
    BY <1>1, <1>2, <2>2
  <2>4. n.pR = RSize - ub(g - 1)
    BY <1>1, <1>2, <1>5, <2>1, <2>2, <2>3
  <2>5. n.pR \in Nat /\ n.pS \in Int /\ n.pS - n.pR >= lb(g - 1) - RSize
    BY <1>2, <2>1, <2>3, <2>4
  <2>6. IsEvent(n)
    <3>1. LastGroup # 0
      BY <1>1, <1>2, <2>2
    <3> QED
      BY <2>1, <2>2, <2>4, <2>5, <3>1 DEF IsEvent
  <2> QED
    BY <1>5, <2>1, <2>2, <2>6
<1> QED
  BY <1>3, <1>4, <1>5 DEF NextEvents, HasShorterGroup

-------------------------------------------------------------------------------
(* Bounds. *)

\* max_ps is right: a first match behind it leaves less than the threshold, and when a
\* match up to it is read none before it does.
LEMMA MaxPsIsSound ==
  ASSUME NEW r \in Nat \ {0}, NEW ub \in Int, NEW t \in Fraction, 0 <= t.num,
         NEW p \in MaxPs(r, ub, t)
  PROVE  /\ p \in Int
         /\ \A c \in Nat : c > p => AtMost(Sim(r, ub, ub - c), t)
         /\ \A c, d \in Nat : d < c /\ c <= p => ~AtMost(Sim(r, ub, ub - d), t)
<1> DEFINE n == NeededNum(r, ub, t)
           d == NeededDen(t)
           a == ub * d - n
           floor == a \div d
<1>1. t.num \in Nat /\ t.den \in Nat \ {0}
  BY DEF Fraction
<1>2. n \in Int /\ d \in Nat \ {0} /\ a \in Int /\ n = (r + ub) * t.num /\ d = t.num + t.den
  BY <1>1 DEF NeededNum, NeededDen
<1>3. ASSUME NEW c \in Nat
      PROVE  AtMost(Sim(r, ub, ub - c), t) <=> a <= c * d
  <2>1. AtMost(Sim(r, ub, ub - c), t) <=> (ub - c) * t.den <= t.num * (r + ub - (ub - c))
    BY DEF AtMost, Sim
  <2>2. (ub - c) * t.den = ub * t.den - c * t.den
    BY <1>1
  <2>3. t.num * (r + ub - (ub - c)) = t.num * r + c * t.num
    BY <1>1
  <2>4. a = ub * t.den - t.num * r
    <3>1. ub * d = ub * t.num + ub * t.den
      BY <1>1, <1>2
    <3>2. n = r * t.num + ub * t.num
      BY <1>1, <1>2
    <3> QED
      BY <1>1, <3>1, <3>2
  <2>5. c * d = c * t.num + c * t.den
    BY <1>1, <1>2
  <2> QED
    BY <1>1, <2>1, <2>2, <2>3, <2>4, <2>5
<1>4. /\ floor \in Int /\ d * floor <= a /\ a < d * floor + d
  <2> HIDE DEF a, d
  <2> QED
    BY <1>2, Division
<1>5. n % d = 0 => a = d * floor
  <2>1. ASSUME n % d = 0
        PROVE  a = d * floor
    <3> DEFINE q == n \div d
    <3>1. q \in Int /\ n = d * q
      <4> HIDE DEF n, d
      <4>1. q \in Int /\ n = d * q + (n % d)
        BY <1>2, Division
      <4> HIDE DEF q
      <4> QED
        BY <1>2, <2>1, <4>1
    <3>2. a = d * (ub - q)
      <4> HIDE DEF q, n, d
      <4>1. ub * d = d * ub /\ d * (ub - q) = d * ub - d * q
        BY <1>2, <3>1
      <4> QED
        BY <3>1, <4>1
    <3> DEFINE x == ub - q - floor
    <3>3. d * (ub - q) = d * floor + d * x /\ x \in Int
      <4> HIDE DEF q, n, d, a, floor
      <4>1. ub - q = floor + x /\ x \in Int
        BY <1>4, <3>1
      <4> HIDE DEF x
      <4> QED
        BY <1>2, <1>4, <4>1
    <3>4. 0 <= d * x /\ d * x < d
      <4> HIDE DEF q, n, d, a, floor, x
      <4> QED
        BY <1>2, <1>4, <3>1, <3>2, <3>3
    <3>5. x = 0
      <4> HIDE DEF q, n, d, a, floor, x
      <4>1. x >= 1 => d * x >= d
        BY <1>2, <3>3
      <4>2. x <= -1 => d * x < 0
        BY <1>2, <3>3
      <4> QED
        BY <1>2, <3>3, <3>4, <4>1, <4>2
    <3> QED
      <4> HIDE DEF q, n, d, a, floor, x
      <4> QED
        BY <1>2, <1>4, <3>2, <3>3, <3>5
  <2> QED
    BY <2>1
<1>6. p \in IF n % d = 0 /\ n # 0 THEN {floor - 1, floor} ELSE {floor}
  BY DEF MaxPs
<1> HIDE DEF n, d, a, floor
<1>7. p \in Int /\ p <= floor
  BY <1>4, <1>6
<1>8. ASSUME NEW c \in Nat, c > p
      PROVE  a <= c * d
  <2>1. CASE p = floor
    <3>1. c >= floor + 1
      BY <1>4, <1>8, <2>1
    <3>2. c * d >= (floor + 1) * d
      BY <1>2, <1>4, <3>1
    <3>3. (floor + 1) * d = d * floor + d /\ c * d \in Int
      BY <1>2, <1>4
    <3> QED
      BY <1>2, <1>4, <3>2, <3>3
  <2>2. CASE p # floor
    <3>1. n % d = 0 /\ c >= floor
      BY <1>4, <1>6, <1>8, <2>2
    <3>2. c * d >= floor * d
      BY <1>2, <1>4, <3>1
    <3>3. floor * d = d * floor /\ c * d \in Int
      BY <1>2, <1>4
    <3> QED
      BY <1>2, <1>4, <1>5, <3>1, <3>2, <3>3
  <2> QED
    BY <2>1, <2>2
<1>9. ASSUME NEW c \in Nat, NEW e \in Nat, e < c, c <= p
      PROVE  ~(a <= e * d)
  <2>1. e + 1 <= floor
    BY <1>4, <1>7, <1>9
  <2>2. (e + 1) * d <= floor * d
    BY <1>2, <1>4, <2>1
  <2>3. (e + 1) * d = e * d + d /\ floor * d = d * floor /\ e * d \in Int
    BY <1>2, <1>4
  <2> QED
    BY <1>2, <1>4, <2>2, <2>3
<1> QED
  BY <1>3, <1>7, <1>8, <1>9

\* The bound of an event is right for every record with at most so many tokens in
\* common with the query as the rows from the event on.
LEMMA EventBound ==
  ASSUME SetupInv, query \in Ids, NEW e, IsEvent(e), NEW s \in Nat, NEW o \in Nat \ {0},
         o <= RSize - e.pR, o <= s,
         LowerBound(groups, e.grp) <= s \/ LowerBound(groups, e.grp) <= RSize - e.pR
  PROVE  e.ub \in Fraction /\ AtMost(Sim(RSize, s, o), e.ub)
<1> DEFINE l == LowerBound(groups, e.grp)
           q == RSize - e.pR
           size == Greater(l, q)
<1>1. /\ e.pR \in Nat /\ e.grp \in 0 .. LastGroup
      /\ e.ub = GroupedSimUb(groups, RSize, e.grp, e.pR)
  BY DEF IsEvent
<1>2. RSize \in Nat \ {0} /\ l \in Int /\ Ids # {}
  BY <1>1, OwnFacts, GroupFacts
<1>3. q \in Int /\ o <= q /\ (l <= s \/ l <= q)
  BY <1>1, <1>2
<1>4. size \in Int /\ q <= size /\ (size = q \/ size = l)
  BY <1>2, <1>3 DEF Greater
<1>5. e.ub = [num |-> q, den |-> size + e.pR]
  <2>1. size - (size - RSize + e.pR) = q
    BY <1>1, <1>2, <1>4
  <2>2. Smaller(q, q) = q
    BY DEF Smaller
  <2>3. RSize + size - q = size + e.pR
    BY <1>1, <1>2, <1>4
  <2>4. e.ub = SimUb(RSize, size, e.pR, size - RSize + e.pR)
    BY <1>1 DEF GroupedSimUb
  <2> HIDE DEF size
  <2> QED
    BY <2>1, <2>2, <2>3, <2>4 DEF SimUb, Sim
<1>6. e.ub \in Fraction
  BY <1>1, <1>3, <1>4, <1>5 DEF Fraction
<1>7. o * (size + e.pR) <= q * (RSize + s - o)
  <2> DEFINE p == e.pR
  <2>1. RSize = q + p
    BY <1>1, <1>2
  <2> HIDE DEF q, size, l
  <2>2. 0 <= p * (q - o)
    BY <1>1, <1>3
  <2>3. p * (q - o) = p * q - p * o
    BY <1>1, <1>3
  <2>4. q * (q + p + s - o) = q * q + q * p + q * s - q * o
    BY <1>1, <1>3
  <2>5. CASE size = q
    <3>1. 0 <= q * (q - o) /\ 0 <= q * (s - o)
      BY <1>3
    <3>2. q * (q - o) = q * q - q * o /\ q * (s - o) = q * s - q * o
      BY <1>3
    <3>3. o * (size + p) = q * o + p * o
      BY <1>1, <1>3, <2>5
    <3>4. q * p = p * q
      BY <1>1, <1>3
    <3> DEFINE pq == p * q
               po == p * o
               qq == q * q
               qs == q * s
               qo == q * o
    <3>5. pq \in Int /\ po \in Int /\ qq \in Int /\ qs \in Int /\ qo \in Int
      BY <1>1, <1>3
    <3>6. 0 <= pq - po /\ 0 <= qq - qo /\ 0 <= qs - qo
      BY <2>2, <2>3, <3>1, <3>2
    <3>7. o * (size + p) = qo + po /\ q * (RSize + s - o) = qq + pq + qs - qo
      BY <2>1, <2>4, <3>3, <3>4
    <3> HIDE DEF pq, po, qq, qs, qo
    <3> QED
      BY <3>5, <3>6, <3>7
  <2>6. CASE size # q
    <3>1. size = l /\ size <= s
      BY <1>2, <1>3, <1>4, <2>6
    <3>2. o * size <= o * s
      BY <1>2, <1>3, <3>1
    <3>3. 0 <= (q - o) * (q + s)
      BY <1>3
    <3>4. (q - o) * (q + s) = q * q + q * s - o * q - o * s
      BY <1>3
    <3>5. o * (size + p) = o * size + p * o /\ o * q = q * o
      BY <1>1, <1>3, <1>4
    <3>6. q * p = p * q
      BY <1>1, <1>3
    <3> QED
      <4> DEFINE pq == p * q
                 po == p * o
                 qq == q * q
                 qs == q * s
                 qo == q * o
                 os == o * s
                 oz == o * size
      <4>1. /\ pq \in Int /\ po \in Int /\ qq \in Int /\ qs \in Int /\ qo \in Int
            /\ os \in Int /\ oz \in Int
        BY <1>1, <1>3, <1>4
      <4>2. oz <= os /\ 0 <= pq - po /\ 0 <= qq + qs - qo - os
        BY <2>2, <2>3, <3>2, <3>3, <3>4, <3>5
      <4>3. o * (size + p) = oz + po /\ q * (RSize + s - o) = qq + pq + qs - qo
        BY <2>1, <2>4, <3>5, <3>6
      <4> HIDE DEF pq, po, qq, qs, qo, os, oz
      <4> QED
        BY <4>1, <4>2, <4>3
  <2> QED
    BY <2>5, <2>6
<1> QED
  <2> HIDE DEF q, size
  <2> QED
    BY <1>5, <1>6, <1>7 DEF AtMost, Sim

-------------------------------------------------------------------------------
(* What a read leaves to the events after it. *)
LEMMA MatchFacts ==
  ASSUME SetupInv, query \in Ids, NEW id \in Ids
  PROVE  /\ IsFiniteSet(Matches(id))
         /\ Cardinality(Matches(id)) = Cardinality(data[query] \cap data[id])
         /\ \A m \in Matches(id) : /\ m.row \in Nat /\ m.col \in Nat
                                   /\ m.row < RSize /\ m.col < Size(data, id)
                                   /\ m = [row |-> m.row, col |-> m.col]
         /\ \A m, n \in Matches(id) : /\ m.row < n.row <=> m.col < n.col
                                      /\ m.row = n.row <=> m.col = n.col
                                      /\ m.row = n.row => m = n
         /\ data[query] \cap data[id] # {} =>
              \E m \in Matches(id) :
                /\ \A n \in Matches(id) : m.row <= n.row /\ m.col <= n.col
                /\ Cardinality(data[query] \cap data[id]) <= RSize - m.row
                /\ Cardinality(data[query] \cap data[id]) <= Size(data, id) - m.col
<1>1. /\ IsFiniteSet(data[query]) /\ data[query] \subseteq Int
      /\ IsFiniteSet(data[id]) /\ data[id] \subseteq Int
      /\ RSize = Cardinality(data[query]) /\ Size(data, id) = Cardinality(data[id])
  BY RecordFacts DEF RSize
<1>2. Matches(id) = MatchesOf(data[query], data[id])
  BY MatchesAreMatches
<1>3. /\ IsFiniteSet(MatchesOf(data[query], data[id]))
      /\ Cardinality(MatchesOf(data[query], data[id])) = Cardinality(data[query] \cap data[id])
  BY <1>1, MatchesCount
<1>4. ASSUME NEW m \in Matches(id), NEW n \in Matches(id)
      PROVE  /\ m.row \in Nat /\ m.col \in Nat
             /\ m.row < RSize /\ m.col < Size(data, id)
             /\ m = [row |-> m.row, col |-> m.col]
             /\ m.row < n.row <=> m.col < n.col
             /\ m.row = n.row <=> m.col = n.col
             /\ m.row = n.row => m = n
  <2>1. m \in MatchesOf(data[query], data[id]) /\ n \in MatchesOf(data[query], data[id])
    BY <1>2
  <2> QED
    BY ONLY <1>1, <2>1, MatchesAscend
<1>5. data[query] \cap data[id] # {} =>
        \E m \in Matches(id) :
          /\ \A n \in Matches(id) : m.row <= n.row /\ m.col <= n.col
          /\ Cardinality(data[query] \cap data[id]) <= RSize - m.row
          /\ Cardinality(data[query] \cap data[id]) <= Size(data, id) - m.col
  BY <1>1, <1>2, FirstMatch
<1> QED
  <2>1. \A m \in Matches(id) : /\ m.row \in Nat /\ m.col \in Nat
                               /\ m.row < RSize /\ m.col < Size(data, id)
                               /\ m = [row |-> m.row, col |-> m.col]
    BY <1>4
  <2>2. \A m, n \in Matches(id) : /\ m.row < n.row <=> m.col < n.col
                                  /\ m.row = n.row <=> m.col = n.col
                                  /\ m.row = n.row => m = n
    BY <1>4
  <2> QED
    BY <1>2, <1>3, <1>5, <2>1, <2>2

\* What a record of the group g can reach when its first match is in column c.
ColumnSim(g, c) == Sim(RSize, UpperBound(groups, g), UpperBound(groups, g) - c)

\* No first match of the record is worth a read any more.
Beyond(id) == \A m \in Matches(id) : AtMost(ColumnSim(Home(id), m.col), Threshold)

\* The event has passed no match of the record.
Ahead(e, id) ==
  \/ ProbeVertical(e)
  \/ \A m \in Matches(id) : e.pR <= m.row
  \/ mode = "FULL" /\ \A m \in Matches(id) : e.pS <= m.col

NotPassed(e, id) == Ahead(e, id) \/ (mode # "TOPK_BASELINE" /\ Beyond(id))

RecordsInv ==
  \A id \in Ids \ candidates : \A e \in Open : e.grp = Home(id) => NotPassed(e, id)

LEMMA ColumnBoundFacts ==
  ASSUME SetupInv, query \in Ids, Threshold \in Fraction, 0 <= Threshold.num,
         NEW e, IsEvent(e), NEW pUb \in ColumnBounds(e)
  PROVE  /\ pUb \in Int /\ e.pR \in Nat /\ e.pS \in Int
         /\ mode = "TOPK_BASELINE" => pUb = UpperBound(groups, e.grp)
         /\ mode = "FULL" => pUb <= e.pS
         /\ mode # "TOPK_BASELINE" =>
              /\ \A c \in Nat : c > pUb /\ ~(mode = "FULL" /\ pUb = e.pS)
                                  => AtMost(ColumnSim(e.grp, c), Threshold)
              /\ \A c, d \in Nat : d < c /\ c <= pUb => ~AtMost(ColumnSim(e.grp, d), Threshold)
<1> DEFINE ub == UpperBound(groups, e.grp)
<1>1. /\ RSize \in Nat \ {0} /\ e.grp \in 0 .. LastGroup /\ e.pR \in Nat /\ e.pS \in Int
      /\ Ids # {}
  BY OwnFacts DEF IsEvent
<1>2. ub \in Int
  BY <1>1, GroupFacts
<1>3. ASSUME NEW p \in MaxGroupedPs(groups, RSize, e.grp, Threshold)
      PROVE  /\ p \in Int
             /\ \A c \in Nat : c > p => AtMost(ColumnSim(e.grp, c), Threshold)
             /\ \A c, d \in Nat : d < c /\ c <= p => ~AtMost(ColumnSim(e.grp, d), Threshold)
  <2>1. p \in MaxPs(RSize, ub, Threshold)
    BY DEF MaxGroupedPs
  <2>2. /\ p \in Int
        /\ \A c \in Nat : c > p => AtMost(Sim(RSize, ub, ub - c), Threshold)
        /\ \A c, d \in Nat : d < c /\ c <= p => ~AtMost(Sim(RSize, ub, ub - d), Threshold)
    <3> HIDE DEF ub
    <3> QED
      BY <1>1, <1>2, <2>1, MaxPsIsSound
  <2> QED
    BY <2>2 DEF ColumnSim
<1>4. CASE mode = "TOPK_BASELINE"
  <2>1. pUb = ub
    BY <1>4 DEF ColumnBounds
  <2> QED
    BY <1>1, <1>2, <1>4, <2>1
<1>5. CASE mode = "FILTER"
  <2>1. pUb \in MaxGroupedPs(groups, RSize, e.grp, Threshold)
    BY <1>5 DEF ColumnBounds
  <2> QED
    BY <1>1, <1>3, <1>5, <2>1
<1>6. CASE mode = "FULL"
  <2>1. PICK p \in MaxGroupedPs(groups, RSize, e.grp, Threshold) : pUb = Min({e.pS, p})
    BY <1>6 DEF ColumnBounds
  <2>2. p \in Int
    BY <1>3
  <2>3. /\ \E x \in {e.pS, p} : \A y \in {e.pS, p} : x <= y
    BY <1>1, <2>2
  <2>4. pUb \in {e.pS, p} /\ pUb <= e.pS /\ pUb <= p
    BY <2>1, <2>3 DEF Min
  <2>5. ASSUME NEW c \in Nat, c > pUb, pUb # e.pS
        PROVE  AtMost(ColumnSim(e.grp, c), Threshold)
    BY <1>3, <2>4, <2>5
  <2>6. ASSUME NEW c \in Nat, NEW d \in Nat, d < c, c <= pUb
        PROVE  ~AtMost(ColumnSim(e.grp, d), Threshold)
    <3>1. c <= p
      BY <1>1, <2>2, <2>4, <2>6
    <3> QED
      BY <1>3, <2>6, <3>1
  <2> QED
    BY <1>1, <1>6, <2>2, <2>4, <2>5, <2>6
<1> QED
  BY <1>4, <1>5, <1>6 DEF SetupInv

\* A read that finds nothing of a record leaves it to the next event of the group.
LEMMA EmptyRead ==
  ASSUME SetupInv, query \in Ids, Threshold \in Fraction, 0 <= Threshold.num,
         NEW e, IsEvent(e), NEW pUb \in ColumnBounds(e),
         NEW id \in Ids, Home(id) = e.grp, NotPassed(e, id), Read(id, e, pUb) = {},
         NEW n, n.pR = e.pR + 1, n.pS = e.pS + 1
  PROVE  NotPassed(n, id)
<1> DEFINE M == Matches(id)
           Cross == mode = "FULL" /\ pUb = e.pS
<1>1. SUFFICES ASSUME ~Beyond(id) \/ mode = "TOPK_BASELINE", M # {}
               PROVE  Ahead(n, id)
  BY DEF NotPassed, Ahead
<1>2. PICK f \in M : \A m \in M : f.row <= m.row /\ f.col <= m.col
  <2>1. data[query] \cap data[id] # {}
    BY <1>1 DEF Matches
  <2> QED
    BY <2>1, MatchFacts
<1>3. /\ \A m \in M : m.row \in Nat /\ m.col \in Nat /\ m.col < Size(data, id)
      /\ f.row \in Nat /\ f.col \in Nat
      /\ pUb \in Int /\ e.pR \in Nat /\ e.pS \in Int
  BY MatchFacts, ColumnBoundFacts
<1>4. SUFFICES ASSUME f.row <= e.pR
               PROVE  mode = "FULL" /\ e.pS + 1 <= f.col
  <2>1. CASE f.row <= e.pR
    <3>1. mode = "FULL" /\ \A m \in M : n.pS <= m.col
      BY <1>2, <1>3, <1>4, <2>1
    <3> QED
      BY <3>1 DEF Ahead
  <2>2. CASE ~(f.row <= e.pR)
    <3>1. \A m \in M : n.pR <= m.row
      BY <1>2, <1>3, <2>2
    <3> QED
      BY <3>1 DEF Ahead
  <2> QED
    BY <2>1, <2>2
<1>5. ASSUME ~Cross
      PROVE  ~(f.col > pUb)
  <2>1. SUFFICES ASSUME f.col > pUb
                 PROVE  FALSE
    OBVIOUS
  <2>2. CASE mode = "TOPK_BASELINE"
    <3>1. /\ pUb = UpperBound(groups, Home(id)) /\ f.col < Size(data, id)
          /\ Size(data, id) <= UpperBound(groups, Home(id))
          /\ Size(data, id) \in Nat
      BY <1>3, <2>2, ColumnBoundFacts, GroupFacts, RecordFacts
    <3> QED
      BY <1>3, <2>1, <3>1
  <2>3. CASE mode # "TOPK_BASELINE"
    <3>1. \A m \in M : m.col > pUb
      BY <1>2, <1>3, <2>1
    <3>2. \A m \in M : AtMost(ColumnSim(e.grp, m.col), Threshold)
      BY <1>3, <1>5, <2>3, <3>1, ColumnBoundFacts
    <3>3. Beyond(id)
      BY <3>2 DEF Beyond
    <3> QED
      BY <1>1, <2>3, <3>3
  <2> QED
    BY <2>2, <2>3
<1>6. CASE ~Cross
  <2>1. f.col <= pUb
    BY <1>3, <1>5, <1>6
  <2>2. CASE ProbeVertical(e)
    <3>1. Read(id, e, pUb) = Part(1, ReadVerticalFiltered(id, e.pR, pUb))
      BY <1>6, <2>2 DEF Read
    <3>2. f \in ReadVerticalFiltered(id, e.pR, pUb)
      BY <1>4, <2>1 DEF ReadVerticalFiltered
    <3>3. [part |-> 1, match |-> f] \in Read(id, e, pUb)
      BY <3>1, <3>2 DEF Part
    <3> QED
      BY <3>3
  <2>3. CASE ~ProbeVertical(e)
    <3>1. Read(id, e, pUb) = Part(1, ReadHorizontal(id, e.pR, pUb))
      BY <1>6, <2>3 DEF Read
    <3>2. f.row # e.pR
      <4>1. ASSUME f.row = e.pR
            PROVE  FALSE
        <5>1. f \in ReadHorizontal(id, e.pR, pUb)
          BY <2>1, <4>1 DEF ReadHorizontal
        <5>2. [part |-> 1, match |-> f] \in Read(id, e, pUb)
          BY <3>1, <5>1 DEF Part
        <5> QED
          BY <5>2
      <4> QED
        BY <4>1
    <3>3. mode = "FULL" /\ e.pS <= f.col
      <4>1. ~(e.pR <= f.row)
        BY <1>3, <1>4, <3>2
      <4> QED
        BY <1>1, <2>3, <4>1 DEF NotPassed, Ahead
    <3>4. pUb < e.pS
      BY <1>3, <1>6, <3>3, ColumnBoundFacts
    <3> QED
      BY <1>3, <2>1, <3>3, <3>4
  <2> QED
    BY <2>2, <2>3
<1>7. CASE Cross
  <2>1. Read(id, e, pUb) = ReadCross(id, e.pR, e.pS)
    BY <1>7 DEF Read
  <2>2. ReadHorizontal(id, e.pR, e.pS) = {} /\ ReadVertical(id, e.pR, e.pS) = {}
    <3>1. \A m \in ReadHorizontal(id, e.pR, e.pS) : [part |-> 1, match |-> m] \in Read(id, e, pUb)
      BY <2>1 DEF ReadCross, Part
    <3>2. \A m \in ReadVertical(id, e.pR, e.pS) : [part |-> 2, match |-> m] \in Read(id, e, pUb)
      BY <2>1 DEF ReadCross, Part
    <3> QED
      BY <3>1, <3>2
  <2>3. CASE f.row = e.pR
    <3>1. ~(f.col <= e.pS)
      BY <2>2, <2>3 DEF ReadHorizontal
    <3> QED
      BY <1>3, <1>7, <3>1
  <2>4. CASE f.row # e.pR
    <3>1. f.row < e.pR /\ ~(e.pR <= f.row)
      BY <1>3, <1>4, <2>4
    <3>2. f.col # e.pS
      BY <2>2, <3>1 DEF ReadVertical
    <3>3. e.pS <= f.col
      <4>1. CASE ProbeVertical(e)
        BY <1>3, <4>1 DEF ProbeVertical
      <4>2. CASE ~ProbeVertical(e)
        BY <1>1, <1>7, <3>1, <4>2 DEF NotPassed, Ahead
      <4> QED
        BY <4>1, <4>2
    <3> QED
      BY <1>3, <1>7, <3>2, <3>3
  <2> QED
    BY <2>3, <2>4
<1> QED
  BY <1>6, <1>7

\* The matches of a record up to one of them.
Prefix(id, m) == {n \in Matches(id) : n.row <= m.row /\ n.col <= m.col}

\* What falsify_or_compute resumes from.
Resumes(o, id) ==
  \E m \in Matches(id) : /\ o.overlap = Cardinality(Prefix(id, m))
                         /\ o.pR = m.row /\ o.pS = m.col
                         /\ o.overlap > 0

\* A read of one match, the first one.
LEMMA FirstRead ==
  ASSUME SetupInv, query \in Ids, NEW id \in Ids,
         NEW f \in Matches(id), \A m \in Matches(id) : f.row <= m.row,
         NEW reads, reads # {}, \A x \in reads : x = [part |-> x.part, match |-> f],
         \A x, y \in reads : x.part = y.part, \A x \in reads : x.part \in Nat,
         NEW old, old.overlap = 0
  PROVE  Resumes(AfterRead(old, reads), id)
<1>1. PICK x \in reads : TRUE
  OBVIOUS
<1>2. reads = {x}
  <2>1. ASSUME NEW y \in reads
        PROVE  y = x
    <3>1. x = [part |-> x.part, match |-> f] /\ y = [part |-> y.part, match |-> f]
      OBVIOUS
    <3>2. x.part = y.part
      OBVIOUS
    <3> QED
      BY <3>1, <3>2
  <2> QED
    BY <1>1, <2>1
<1>3. x.match = f /\ x.part \in Nat
  <2>1. x = [part |-> x.part, match |-> f]
    BY <1>1
  <2> QED
    BY <2>1
<1>4. LastRead(reads) = f
  <2>1. \E y \in reads : \A z \in reads :
          \/ z.part < y.part
          \/ z.part = y.part /\ z.match.row <= y.match.row
    <3>1. f.row <= f.row
      BY MatchFacts
    <3> QED
      BY <1>1, <1>2, <1>3, <3>1
  <2>2. (CHOOSE y \in reads : \A z \in reads :
           \/ z.part < y.part
           \/ z.part = y.part /\ z.match.row <= y.match.row) = x
    BY <1>2, <2>1
  <2> QED
    BY <1>3, <2>2 DEF LastRead
<1>5. Cardinality(reads) = 1 /\ 0 + 1 = 1
  <2>1. Cardinality({x}) = 1
    BY FS_Singleton
  <2> QED
    BY <1>2, <2>1
<1>6. Prefix(id, f) = {f}
  <2>1. ASSUME NEW n \in Matches(id), n.row <= f.row
        PROVE  n = f
    <3>1. f.row <= n.row /\ f.row \in Nat /\ n.row \in Nat
      BY MatchFacts
    <3>2. n.row = f.row
      BY <2>1, <3>1
    <3> QED
      BY <3>2, MatchFacts
  <2>2. f.row \in Nat /\ f.col \in Nat
    BY MatchFacts
  <2> QED
    BY <2>1, <2>2 DEF Prefix
<1>7. Cardinality(Prefix(id, f)) = 1
  BY <1>6, FS_Singleton
<1>8. AfterRead(old, reads) = [overlap |-> 1, pR |-> f.row, pS |-> f.col]
  BY <1>4, <1>5 DEF AfterRead
<1> QED
  BY <1>7, <1>8 DEF Resumes

\* A filtered vertical read takes all matches up to the last one it takes.
LEMMA PrefixRead ==
  ASSUME SetupInv, query \in Ids, NEW id \in Ids, NEW pR \in Int, NEW pUb \in Int,
         NEW reads, reads = Part(1, ReadVerticalFiltered(id, pR, pUb)), reads # {},
         NEW old, old.overlap = 0
  PROVE  Resumes(AfterRead(old, reads), id)
<1> DEFINE S == ReadVerticalFiltered(id, pR, pUb)
           rows == {m.row : m \in S}
<1>1. S \subseteq Matches(id) /\ S # {}
  BY DEF ReadVerticalFiltered, Part
<1>2. IsFiniteSet(S)
  BY <1>1, MatchFacts, FS_Subset
<1>3. \E m \in S : \A n \in S : n.row <= m.row
  <2> DEFINE row == [m \in S |-> m.row]
  <2>1. row \in Surjection(S, rows)
    BY DEF Surjection
  <2>2. IsFiniteSet(rows)
    <3> HIDE DEF row, rows, S
    <3> QED
      BY <1>2, <2>1, FS_Surjection
  <2>3. rows \subseteq Int
    <3>1. \A m \in S : m.row \in Nat
      <4> HIDE DEF S
      <4> QED
        BY <1>1, MatchFacts
    <3> QED
      BY <3>1
  <2>4. rows # {}
    BY <1>1
  <2>5. \E x \in rows : \A y \in rows : y <= x
    <3> HIDE DEF rows
    <3> QED
      BY <2>2, <2>3, <2>4, LeastInteger
  <2> QED
    BY <2>5
<1>4. PICK m \in S : \A n \in S : n.row <= m.row
  BY <1>3
<1>5. /\ \A n \in Matches(id) : n.row \in Nat /\ n.col \in Nat
      /\ \A n \in Matches(id) : n.row < m.row <=> n.col < m.col
      /\ \A n \in Matches(id) : n.row = m.row <=> n.col = m.col
      /\ \A n \in Matches(id) : n.row = m.row => n = m
      /\ m \in Matches(id) /\ m.row \in Nat /\ m.col \in Nat
  <2>1. m \in Matches(id)
    BY <1>1
  <2> HIDE DEF S
  <2>2. \A n \in Matches(id) : n.row \in Nat /\ n.col \in Nat
    BY MatchFacts
  <2>3. \A a, b \in Matches(id) : /\ a.row < b.row <=> a.col < b.col
                                  /\ a.row = b.row <=> a.col = b.col
                                  /\ a.row = b.row => a = b
    BY MatchFacts
  <2> QED
    BY ONLY <2>1, <2>2, <2>3
<1>6. S = Prefix(id, m)
  <2>1. ASSUME NEW n \in S
        PROVE  n \in Prefix(id, m)
    <3>1. n \in Matches(id) /\ n.row <= m.row
      BY <1>1, <1>4
    <3>2. n.col <= m.col
      BY <1>5, <3>1
    <3> QED
      BY <3>1, <3>2 DEF Prefix
  <2>2. ASSUME NEW n \in Prefix(id, m)
        PROVE  n \in S
    <3>1. n \in Matches(id) /\ n.row <= m.row /\ n.col <= m.col
      BY DEF Prefix
    <3>2. m.row <= pR /\ m.col <= pUb
      BY DEF ReadVerticalFiltered
    <3>3. n.row <= pR /\ n.col <= pUb
      BY <1>5, <3>1, <3>2
    <3> QED
      BY <3>1, <3>3 DEF ReadVerticalFiltered
  <2> QED
    BY <2>1, <2>2
<1>7. Cardinality(reads) = Cardinality(S)
  <2> DEFINE tag == [n \in S |-> [part |-> 1, match |-> n]]
  <2>1. tag \in Bijection(S, reads)
    <3>1. reads = {[part |-> 1, match |-> n] : n \in S}
      BY DEF Part
    <3>2. \A a, b \in S : tag[a] = tag[b] => a = b
      <4>1. \A a, b \in S : [part |-> 1, match |-> a] = [part |-> 1, match |-> b] => a = b
        <5> TAKE a, b \in S
        <5> HAVE [part |-> 1, match |-> a] = [part |-> 1, match |-> b]
        <5>1. [part |-> 1, match |-> a].match = [part |-> 1, match |-> b].match
          OBVIOUS
        <5> QED
          BY <5>1
      <4> QED
        BY <4>1
    <3>3. tag \in [S -> reads]
      BY <3>1
    <3>4. \A y \in reads : \E a \in S : tag[a] = y
      BY <3>1
    <3> HIDE DEF tag, S
    <3>5. tag \in Injection(S, reads)
      BY <3>2, <3>3 DEF Injection, IsInjective
    <3>6. tag \in Surjection(S, reads)
      BY <3>3, <3>4 DEF Surjection
    <3> QED
      BY <3>5, <3>6 DEF Bijection
  <2>2. ExistsBijection(S, reads)
    BY <2>1 DEF ExistsBijection
  <2> HIDE DEF S
  <2> QED
    BY <1>2, <2>2, FS_Bijection
<1>8. LastRead(reads) = m
  <2> DEFINE last(x) == \A y \in reads : \/ y.part < x.part
                                         \/ y.part = x.part /\ y.match.row <= x.match.row
  <2>1. \A y \in reads : y.part = 1 /\ y.match \in S /\ y = [part |-> 1, match |-> y.match]
    BY DEF Part
  <2>2. [part |-> 1, match |-> m] \in reads
    BY DEF Part
  <2>3. last([part |-> 1, match |-> m])
    BY <1>4, <2>1
  <2>4. ASSUME NEW x \in reads, last(x)
        PROVE  x.match = m
    <3>1. 1 < x.part \/ (1 = x.part /\ m.row <= x.match.row)
      BY <2>2, <2>4
    <3>2. m.row <= x.match.row /\ x.match.row <= m.row /\ x.match \in Matches(id)
      BY <1>1, <1>4, <2>1, <3>1
    <3>3. x.match.row = m.row
      BY <1>5, <3>2
    <3> QED
      BY <1>5, <3>2, <3>3
  <2>5. (CHOOSE x \in reads : last(x)) \in reads /\ last(CHOOSE x \in reads : last(x))
    <3> HIDE DEF last
    <3> QED
      BY <2>2, <2>3
  <2>6. (CHOOSE x \in reads : last(x)).match = m
    <3> HIDE DEF last
    <3> QED
      BY <2>4, <2>5
  <2> QED
    BY <2>6 DEF LastRead
<1>9. Cardinality(S) \in Nat /\ Cardinality(S) > 0
  <2> HIDE DEF S
  <2> QED
    BY <1>1, <1>2, FS_CardinalityType, FS_EmptySet
<1>10. 0 + Cardinality(S) = Cardinality(S)
  <2> HIDE DEF S
  <2> QED
    BY <1>9
<1>11. AfterRead(old, reads) = [overlap |-> Cardinality(S), pR |-> m.row, pS |-> m.col]
  <2> HIDE DEF S
  <2> QED
    BY <1>7, <1>8, <1>10 DEF AfterRead
<1> QED
  BY <1>5, <1>6, <1>9, <1>11 DEF Resumes

\* A read that finds something of a record it had not met finds the first matches.
LEMMA SomeRead ==
  ASSUME SetupInv, query \in Ids, Threshold \in Fraction, 0 <= Threshold.num,
         NEW e, IsEvent(e), NEW pUb \in ColumnBounds(e),
         NEW id \in Ids, Home(id) = e.grp, NotPassed(e, id), Read(id, e, pUb) # {},
         NEW old, old.overlap = 0
  PROVE  Resumes(AfterRead(old, Read(id, e, pUb)), id)
<1> DEFINE M == Matches(id)
           reads == Read(id, e, pUb)
           isFirst(f) == \A m \in Matches(id) : f.row <= m.row
<1>1. \A m \in M : m.row \in Nat /\ m.col \in Nat
  BY MatchFacts
<1>2. \A m, n \in M : /\ m.row < n.row <=> m.col < n.col
                      /\ m.row = n.row <=> m.col = n.col
                      /\ m.row = n.row => m = n
  BY MatchFacts
<1>3. pUb \in Int /\ e.pR \in Nat /\ e.pS \in Int /\ (mode = "FULL" => pUb <= e.pS)
  BY ColumnBoundFacts
<1>4. ASSUME NEW m \in M, m.col <= pUb, mode # "TOPK_BASELINE", Beyond(id)
      PROVE  isFirst(m)
  <2>1. ASSUME NEW x \in M, x.row < m.row
        PROVE  FALSE
    <3>1. x.col < m.col /\ x.col \in Nat /\ m.col \in Nat
      BY <1>1, <1>2, <2>1
    <3>2. ~AtMost(ColumnSim(e.grp, x.col), Threshold)
      BY <1>4, <3>1, ColumnBoundFacts
    <3> QED
      BY <1>4, <3>2 DEF Beyond
  <2> QED
    BY <1>1, <2>1
<1>5. ASSUME NEW m \in M, NEW n \in M, isFirst(m), isFirst(n)
      PROVE  m = n
  <2>1. m.row = n.row
    BY <1>1, <1>5
  <2> QED
    BY <1>2, <2>1
<1>6. ASSUME \A x \in reads : /\ x = [part |-> x.part, match |-> x.match]
                              /\ x.match \in M /\ isFirst(x.match) /\ x.part \in Nat,
             \A x, y \in reads : x.match = y.match => x.part = y.part
      PROVE  Resumes(AfterRead(old, reads), id)
  <2>1. PICK x \in reads : TRUE
    OBVIOUS
  <2>2. PICK f \in M : isFirst(f) /\ f = x.match
    BY <1>6, <2>1
  <2>3. \A y \in reads : y = [part |-> y.part, match |-> f]
    BY <1>5, <1>6, <2>2
  <2>4. \A y \in reads : y.match = f
    BY <1>5, <1>6, <2>2
  <2>5. \A y, z \in reads : y.part = z.part
    BY <1>6, <2>4
  <2>6. (\A y \in reads : y.part \in Nat) /\ reads # {}
    BY <1>6
  <2> HIDE DEF reads
  <2> QED
    BY <2>2, <2>3, <2>5, <2>6, FirstRead
<1>7. CASE mode = "FULL" /\ pUb = e.pS
  <2> DEFINE H == ReadHorizontal(id, e.pR, e.pS)
             V == ReadVertical(id, e.pR, e.pS)
             W == IF e.pS > 0 THEN ReadVertical(id, e.pR, e.pS - 1) ELSE {}
  <2>1. reads = Part(1, H) \cup Part(2, V) \cup Part(3, W)
    BY <1>7 DEF Read, ReadCross
  <2>2. ASSUME NEW x \in reads
        PROVE  /\ x = [part |-> x.part, match |-> x.match] /\ x.match \in M /\ x.part \in Nat
               /\ \/ x.part = 1 /\ x.match.row = e.pR /\ x.match.col <= e.pS
                  \/ x.part = 2 /\ x.match.row < e.pR /\ x.match.col = e.pS
                  \/ x.part = 3 /\ x.match.row < e.pR /\ x.match.col = e.pS - 1 /\ e.pS > 0
    <3>1. CASE x \in Part(1, H)
      BY <3>1 DEF Part, ReadHorizontal
    <3>2. CASE x \in Part(2, V)
      BY <3>2 DEF Part, ReadVertical
    <3>3. CASE x \in Part(3, W)
      BY <3>3 DEF Part, ReadVertical
    <3> QED
      BY <2>1, <3>1, <3>2, <3>3
  <2> HIDE DEF H, V, W, reads
  <2>3. ASSUME NEW x \in reads
        PROVE  isFirst(x.match)
    <3> DEFINE m == x.match
    <3>1. /\ m \in M /\ m.row \in Nat /\ m.col \in Nat /\ m.col <= e.pS /\ m.row <= e.pR
          /\ m.row = e.pR \/ (m.col = e.pS \/ e.pS > 0)
      BY <1>1, <1>3, <2>2
    <3>2. CASE mode # "TOPK_BASELINE" /\ Beyond(id)
      BY <1>3, <1>4, <1>7, <3>1, <3>2
    <3>3. CASE \A n \in M : e.pR <= n.row
      BY <1>1, <1>3, <3>1, <3>3
    <3>4. CASE \A n \in M : e.pS <= n.col
      <4>1. ASSUME NEW n \in M, n.row < m.row
            PROVE  FALSE
        <5>1. n.col < m.col /\ e.pS <= n.col /\ n.col \in Nat
          BY <1>1, <1>2, <3>1, <3>4, <4>1
        <5> QED
          BY <1>3, <3>1, <5>1
      <4> QED
        BY <1>1, <3>1, <4>1
    <3>5. CASE ProbeVertical(e)
      <4>1. \A n \in M : e.pS <= n.col
        BY <1>1, <3>5 DEF ProbeVertical
      <4> QED
        BY <3>4, <4>1
    <3> QED
      BY <3>2, <3>3, <3>4, <3>5 DEF NotPassed, Ahead
  <2>4. ASSUME NEW x \in reads, NEW y \in reads, x.match = y.match
        PROVE  x.part = y.part
    <3>1. x.match.row \in Nat /\ x.match.col \in Nat
      BY <1>1, <2>2
    <3> QED
      BY <1>3, <2>2, <2>4, <3>1
  <2> QED
    BY <1>6, <2>2, <2>3, <2>4 DEF reads
<1>8. CASE ~(mode = "FULL" /\ pUb = e.pS) /\ ProbeVertical(e)
  <2>1. reads = Part(1, ReadVerticalFiltered(id, e.pR, pUb)) /\ reads # {}
    BY <1>8 DEF Read
  <2>2. e.pR \in Int
    BY <1>3
  <2> HIDE DEF reads
  <2> QED
    BY <1>3, <2>1, <2>2, PrefixRead DEF reads
<1>9. CASE ~(mode = "FULL" /\ pUb = e.pS) /\ ~ProbeVertical(e)
  <2>1. reads = Part(1, ReadHorizontal(id, e.pR, pUb))
    BY <1>9 DEF Read
  <2>2. ASSUME NEW x \in reads
        PROVE  /\ x = [part |-> x.part, match |-> x.match] /\ x.match \in M /\ x.part = 1
               /\ x.match.row = e.pR /\ x.match.col <= pUb
    BY <2>1 DEF Part, ReadHorizontal
  <2> HIDE DEF reads
  <2>3. ASSUME NEW x \in reads
        PROVE  isFirst(x.match)
    <3>1. CASE mode # "TOPK_BASELINE" /\ Beyond(id)
      BY <1>4, <2>2, <3>1
    <3>2. CASE \A n \in M : e.pR <= n.row
      BY <2>2, <3>2
    <3>3. CASE mode = "FULL" /\ \A n \in M : e.pS <= n.col
      <4>1. pUb < e.pS
        BY <1>3, <1>9, <3>3
      <4>2. x.match.col \in Nat /\ x.match.col <= pUb /\ e.pS <= x.match.col
        BY <1>1, <2>2, <3>3
      <4> QED
        BY <1>3, <4>1, <4>2
    <3> QED
      BY <1>9, <3>1, <3>2, <3>3 DEF NotPassed, Ahead
  <2>4. \A x \in reads : x.part = 1 /\ x.part \in Nat
    BY <2>2
  <2>5. \A x, y \in reads : x.match = y.match => x.part = y.part
    BY <2>4
  <2> QED
    BY <1>6, <2>2, <2>3, <2>4, <2>5 DEF reads
<1> QED
  BY <1>7, <1>8, <1>9

-------------------------------------------------------------------------------
(* What the events in the queue are worth. *)
LEMMA TrueSimFacts ==
  ASSUME SetupInv, query \in Ids, NEW id \in Ids
  PROVE  /\ TrueSim(id) \in Fraction
         /\ TrueSim(id).num = Cardinality(data[query] \cap data[id])
         /\ TrueSim(id).num \in Nat
         /\ TrueSim(id).num <= RSize /\ TrueSim(id).num <= Size(data, id)
         /\ TrueSim(id).num = 0 <=> data[query] \cap data[id] = {}
<1> DEFINE o == Cardinality(data[query] \cap data[id])
<1>1. /\ IsFiniteSet(data[query]) /\ IsFiniteSet(data[id])
      /\ RSize = Cardinality(data[query]) /\ Size(data, id) = Cardinality(data[id])
      /\ RSize \in Nat \ {0} /\ Size(data, id) \in Nat \ {0}
  BY RecordFacts, OwnFacts DEF RSize
<1>2. IsFiniteSet(data[query] \cap data[id])
  BY <1>1, FS_Intersection
<1>3. /\ o \in Nat /\ o <= Cardinality(data[query]) /\ o <= Cardinality(data[id])
      /\ o = 0 <=> data[query] \cap data[id] = {}
  <2>1. data[query] \cap data[id] \subseteq data[query]
    OBVIOUS
  <2>2. data[query] \cap data[id] \subseteq data[id]
    OBVIOUS
  <2>3. o <= Cardinality(data[query])
    BY <1>1, <2>1, FS_Subset
  <2>4. o <= Cardinality(data[id])
    BY <1>1, <2>2, FS_Subset
  <2> QED
    BY <1>2, <2>3, <2>4, FS_CardinalityType, FS_EmptySet
<1>4. TrueSim(id) = [num |-> o, den |-> RSize + Size(data, id) - o]
  BY DEF TrueSim, Sim
<1> HIDE DEF o
<1>5. TrueSim(id) \in Fraction
  BY <1>1, <1>3, <1>4 DEF Fraction
<1> QED
  BY <1>1, <1>3, <1>4, <1>5 DEF o

\* A record beyond its column bound does not pass the threshold.
LEMMA BeyondIsSettled ==
  ASSUME SetupInv, query \in Ids, Threshold \in Fraction, NEW id \in Ids,
         data[query] \cap data[id] # {}, Beyond(id)
  PROVE  AtMost(TrueSim(id), Threshold)
<1> DEFINE o == Cardinality(data[query] \cap data[id])
           s == Size(data, id)
           ub == UpperBound(groups, Home(id))
<1>1. PICK f \in Matches(id) : o <= s - f.col /\ f.col \in Nat
  BY MatchFacts
<1>2. AtMost(ColumnSim(Home(id), f.col), Threshold)
  BY DEF Beyond
<1>3. /\ RSize \in Nat \ {0} /\ s \in Nat \ {0} /\ ub \in Int /\ s <= ub
      /\ TrueSim(id) \in Fraction /\ o \in Nat /\ o <= s
  BY OwnFacts, RecordFacts, GroupFacts, TrueSimFacts
<1> DEFINE c == f.col
           w == ub - c
<1>4. ColumnSim(Home(id), c) = [num |-> w, den |-> RSize + ub - w]
  BY DEF ColumnSim, Sim
<1>5. TrueSim(id) = [num |-> o, den |-> RSize + s - o]
  BY DEF TrueSim, Sim
<1> HIDE DEF o, s, ub
<1>6. w \in Nat /\ o <= w /\ RSize + ub - w = RSize + c
  BY <1>1, <1>3
<1>7. ColumnSim(Home(id), c) \in Fraction
  <2>1. RSize + c \in Nat \ {0}
    BY <1>1, <1>3
  <2> HIDE DEF w, c
  <2> QED
    BY <1>4, <1>6, <2>1 DEF Fraction
<1>8. o * (RSize + c) <= w * (RSize + s - o)
  <2> DEFINE a == RSize + c
             b == RSize + s - o
  <2>1. a \in Nat /\ b \in Nat /\ a <= b
    BY <1>1, <1>3
  <2> HIDE DEF a, b, w
  <2>2. o * a <= w * a /\ w * a <= w * b /\ o * a \in Int /\ w * a \in Int /\ w * b \in Int
    BY <1>3, <1>6, <2>1
  <2>3. o * a <= w * b
    BY <2>2
  <2> QED
    BY <2>3 DEF a, b
<1>9. AtMost(TrueSim(id), ColumnSim(Home(id), c))
  <2> HIDE DEF w, c
  <2> QED
    BY <1>4, <1>5, <1>6, <1>8 DEF AtMost
<1> QED
  BY <1>2, <1>3, <1>7, <1>9, AtMostTransitive

\* A group of records of one size starts with that size.
LEMMA SizeIsLowerBound ==
  ASSUME SetupInv, NEW id \in Ids, Size(data, id) \in groups
  PROVE  LowerBound(groups, Home(id)) = Size(data, id)
<1> DEFINE s == Size(data, id)
           g == Home(id)
           l == LowerBound(groups, g)
           below(x) == {b \in groups : b < x}
<1>1. /\ IsFiniteSet(groups) /\ groups \subseteq Int /\ Ids # {} /\ s \in Int /\ s \in groups
      /\ g \in 0 .. LastGroup /\ l <= s
  BY RecordFacts, GroupFacts DEF SetupInv, IsGrouping
<1>2. g \in 0 .. GroupCount(groups)
  <2>1. GroupCount(groups) \in Int
    BY <1>1, FS_CardinalityType DEF GroupCount
  <2> QED
    BY <1>1, <2>1 DEF LastGroup
<1>3. l \in groups /\ l \in Int /\ Cardinality(below(l)) = g
  BY <1>1, <1>2, LowerBoundRank
<1>4. \A x : IsFiniteSet(below(x)) /\ Cardinality(below(x)) \in Nat
  <2> TAKE x
  <2>1. below(x) \subseteq groups
    OBVIOUS
  <2> QED
    BY <1>1, <2>1, FS_Subset, FS_CardinalityType
<1>5. g = Cardinality(below(s))
  <2>1. {b \in groups : b <= s} = below(s) \cup {s} /\ s \notin below(s)
    <3>1. \A b \in groups : b \in Int
      BY <1>1
    <3>2. \A b \in groups : b <= s <=> b < s \/ b = s
      BY <1>1, <3>1
    <3>3. ~(s < s)
      BY <1>1
    <3> HIDE DEF s
    <3> QED
      BY <1>1, <3>2, <3>3
  <2>2. Cardinality(below(s) \cup {s}) = Cardinality(below(s)) + 1
    <3> HIDE DEF below, s
    <3> QED
      BY <1>4, <2>1, FS_AddElement
  <2>3. g = Cardinality({b \in groups : b <= s}) - 1
    BY DEF Home, GroupOf
  <2> HIDE DEF below, s, g
  <2> QED
    BY <1>4, <2>1, <2>2, <2>3
<1>6. ASSUME l < s
      PROVE  FALSE
  <2>1. below(l) \cup {l} \subseteq below(s) /\ l \notin below(l)
    <3>1. \A b \in groups : b \in Int
      BY <1>1
    <3>2. \A b \in groups : b < l => b < s
      BY <1>1, <1>3, <1>6, <3>1
    <3>3. ~(l < l)
      BY <1>3
    <3> HIDE DEF l, s
    <3> QED
      BY <1>3, <1>6, <3>2, <3>3
  <2>2. Cardinality(below(l) \cup {l}) = Cardinality(below(l)) + 1
    <3> HIDE DEF below, l
    <3> QED
      BY <1>4, <2>1, FS_AddElement
  <2>3. Cardinality(below(l) \cup {l}) <= Cardinality(below(s))
    <3> HIDE DEF below, l, s
    <3> QED
      BY <1>4, <2>1, FS_Subset
  <2> HIDE DEF below, l, s, g
  <2> QED
    BY <1>3, <1>4, <1>5, <2>2, <2>3
<1> QED
  BY <1>1, <1>3, <1>6

\* An event that reaches a record it has not passed covers it, unless the record is
\* settled.
LEMMA EventCovers ==
  ASSUME SetupInv, Sound, query \in Ids, Threshold \in Fraction,
         NEW id \in Ids, data[query] \cap data[id] # {},
         NEW e, IsEvent(e), Reaches(e, Home(id)), e.grp = Home(id) => NotPassed(e, id)
  PROVE  \/ AtMost(TrueSim(id), Threshold)
         \/ e.ub \in Fraction /\ AtMost(TrueSim(id), e.ub)
<1> DEFINE o == Cardinality(data[query] \cap data[id])
           s == Size(data, id)
           g == e.grp
           h == Home(id)
           lb(x) == LowerBound(groups, x)
           ub(x) == UpperBound(groups, x)
<1>1. /\ RSize \in Nat \ {0} /\ s \in Nat \ {0} /\ Own \in 0 .. LastGroup /\ LastGroup \in Nat
      /\ g \in 0 .. LastGroup /\ e.pR \in Nat /\ e.pS \in Int
      /\ g < Own => e.pS >= 0 /\ (e.pS = 0 => e.pR = RSize - ub(g))
      /\ e.pS - e.pR >= lb(g) - RSize
      /\ LastGroup = 0 => e.pS - e.pR >= ub(g) - RSize
      /\ h \in 0 .. LastGroup /\ lb(h) <= s /\ s <= ub(h)
  BY OwnFacts, RecordFacts, GroupFacts DEF IsEvent
<1>2. /\ lb(g) \in Int /\ ub(g) \in Int /\ lb(h) \in Int /\ ub(h) \in Int
      /\ g < h => lb(g) < lb(h)
      /\ h < g => ub(h) < ub(g)
      /\ lb(g) <= ub(g)
  BY <1>1, RecordFacts, GroupFacts
<1>3. o \in Nat \ {0} /\ o <= RSize /\ o <= s
  BY TrueSimFacts
<1>4. ASSUME o <= RSize - e.pR, lb(g) <= s \/ lb(g) <= RSize - e.pR
      PROVE  e.ub \in Fraction /\ AtMost(TrueSim(id), e.ub)
  <2>1. e.ub \in Fraction /\ AtMost(Sim(RSize, s, o), e.ub)
    <3> HIDE DEF o, s
    <3>1. s \in Nat
      BY <1>1
    <3> QED
      BY <1>3, <1>4, <3>1, EventBound
  <2> QED
    BY <2>1 DEF TrueSim
<1>5. PICK f \in Matches(id) : /\ o <= RSize - f.row /\ o <= s - f.col
                               /\ f.row \in Nat /\ f.col \in Nat
  BY MatchFacts
<1>6. CASE g = h
  <2>1. CASE mode # "TOPK_BASELINE" /\ Beyond(id)
    BY <2>1, BeyondIsSettled
  <2>2. CASE ProbeVertical(e)
    <3>1. e.pS = 0 /\ g < Own
      BY <2>2 DEF ProbeVertical, Own
    <3>2. e.pR = RSize - ub(g)
      BY <1>1, <3>1
    <3> HIDE DEF o, s, g, h, lb, ub
    <3>3. o <= RSize - e.pR /\ lb(g) <= s
      BY <1>1, <1>2, <1>3, <1>6, <3>2
    <3> QED
      BY <1>4, <3>3
  <2>3. CASE \A m \in Matches(id) : e.pR <= m.row
    <3>1. e.pR <= f.row
      BY <2>3
    <3> HIDE DEF o, s, g, h, lb, ub
    <3>2. o <= RSize - e.pR /\ lb(g) <= s
      BY <1>1, <1>2, <1>3, <1>5, <1>6, <3>1
    <3> QED
      BY <1>4, <3>2
  <2>4. CASE mode = "FULL" /\ \A m \in Matches(id) : e.pS <= m.col
    <3>1. e.pS <= f.col
      BY <2>4
    <3>2. e.pS - e.pR >= s - RSize
      <4>1. CASE LastGroup = 0
        <5>1. e.pS - e.pR >= ub(g) - RSize /\ s <= ub(g)
          BY <1>1, <1>6, <4>1
        <5> HIDE DEF o, s, g, h, lb, ub
        <5> QED
          BY <1>1, <1>2, <5>1
      <4>2. CASE s \in groups
        <5>1. lb(g) = s
          BY <1>6, <4>2, SizeIsLowerBound
        <5> HIDE DEF o, s, g, h, lb, ub
        <5> QED
          BY <1>1, <1>2, <5>1
      <4> QED
        BY <2>4, <4>1, <4>2 DEF Sound, SuitsFull
    <3> HIDE DEF o, s, g, h, lb, ub
    <3>3. o <= RSize - e.pR /\ lb(g) <= s
      BY <1>1, <1>2, <1>3, <1>5, <1>6, <3>1, <3>2
    <3> QED
      BY <1>4, <3>3
  <2> QED
    BY <1>6, <2>1, <2>2, <2>3, <2>4 DEF NotPassed, Ahead
<1>7. CASE Own < g /\ g < h /\ e.pR = 0
  <2> HIDE DEF o, s, g, h, lb, ub
  <2>1. o <= RSize - e.pR /\ lb(g) <= s
    BY <1>1, <1>2, <1>3, <1>7
  <2> QED
    BY <1>4, <2>1
<1>8. CASE h < g /\ g < Own /\ e.pS = 0
  <2> HIDE DEF o, s, g, h, lb, ub
  <2>1. RSize - e.pR = ub(g)
    BY <1>1, <1>2, <1>8
  <2>2. o <= RSize - e.pR /\ lb(g) <= RSize - e.pR
    BY <1>1, <1>2, <1>3, <1>8, <2>1
  <2> QED
    BY <1>4, <2>2
<1> QED
  BY <1>6, <1>7, <1>8 DEF Reaches

-------------------------------------------------------------------------------
(* The size of the heap. *)
Sharing(q) == {id \in Ids : data[q] \cap data[id] # {}}

\* actual_k counts the entries of the lists of the query, of which every record that
\* shares a token with it has one.
LEMMA ActualKFacts ==
  ASSUME SetupInv, NEW q \in Ids
  PROVE  /\ ActualK(q) \in 1 .. k
         /\ ActualK(q) < k => Cardinality(Sharing(q)) <= ActualK(q)
<1> DEFINE r == data[q]
           f(t) == TokenFrequency(data, t)
           v == [t \in r |-> f(t)]
           pick(s) == CHOOSE x \in s : TRUE
           SumOn(sum) == sum = [s \in SUBSET r |->
                                 IF s = {} THEN 0
                                 ELSE f(CHOOSE x \in s : TRUE) + sum[s \ {CHOOSE x \in s : TRUE}]]
           sum == CHOOSE sum : SumOn(sum)
           met(s) == {id \in Ids : s \cap data[id] # {}}
<1>1. IsFiniteSet(r) /\ r # {} /\ IsFiniteSet(Ids) /\ k \in Nat \ {0}
  BY RecordFacts DEF SetupInv, IsDataset, Ids
<1>2. SumOn(sum)
  <2>1. PICK g : IsSum(g, v, r)
    BY <1>1, SumExists
  <2>2. ASSUME NEW s \in SUBSET r
        PROVE  SumFrom(g, v, s) = IF s = {} THEN 0 ELSE f(pick(s)) + g[s \ {pick(s)}]
    <3>1. CASE s = {}
      BY <3>1 DEF SumFrom
    <3>2. CASE s # {}
      <4>1. pick(s) \in r
        BY <3>2
      <4>2. v[pick(s)] = f(pick(s))
        <5> HIDE DEF pick, f
        <5> QED
          BY <4>1
      <4> QED
        BY <3>2, <4>2 DEF SumFrom
    <3> QED
      BY <3>1, <3>2
  <2>3. SumOn(g)
    <3>1. g = [s \in SUBSET r |-> SumFrom(g, v, s)]
      BY <2>1 DEF IsSum
    <3>2. [s \in SUBSET r |-> SumFrom(g, v, s)]
            = [s \in SUBSET r |-> IF s = {} THEN 0 ELSE f(pick(s)) + g[s \ {pick(s)}]]
      <4> HIDE DEF f, v, pick, r
      <4> QED
        BY <2>2
    <3> HIDE DEF f, v, r
    <3> QED
      BY <3>1, <3>2
  <2> HIDE DEF SumOn
  <2> QED
    BY <2>3
<1>3. MapThenSumSet(LAMBDA t : TokenFrequency(data, t), data[q]) = sum[r]
  BY DEF MapThenSumSet, MapThenFoldSet
<1>4. ASSUME NEW s \in SUBSET r, s # {}
      PROVE  /\ pick(s) \in s
             /\ sum[s] = f(pick(s)) + sum[s \ {pick(s)}]
  <2>1. sum[s] = f(pick(s)) + sum[s \ {pick(s)}]
    <3> HIDE DEF sum
    <3> QED
      BY <1>2, <1>4
  <2> QED
    BY <1>4, <2>1
<1>5. sum[{}] = 0
  <2> HIDE DEF sum
  <2> QED
    BY <1>2
<1> HIDE DEF sum, SumOn
<1> DEFINE F == {s \in SUBSET r : sum[s] \in Nat /\ Cardinality(met(s)) <= sum[s]}
<1>6. \A s : IsFiniteSet(met(s)) /\ Cardinality(met(s)) \in Nat
  <2> TAKE s
  <2>1. met(s) \subseteq Ids
    OBVIOUS
  <2> QED
    BY <1>1, <2>1, FS_Subset, FS_CardinalityType
<1>7. {} \in F
  <2>1. met({}) = {}
    OBVIOUS
  <2>2. Cardinality(met({})) = 0
    <3> HIDE DEF met
    <3> QED
      BY <2>1, FS_EmptySet
  <2> HIDE DEF met
  <2> QED
    BY <1>5, <2>2
<1>8. ASSUME NEW s \in SUBSET r, s # {}
      PROVE  \E x \in s : s \ {x} \in F => s \in F
  <2> DEFINE x == pick(s)
             with == {id \in RecordIds(data) : x \in data[id]}
  <2>1. x \in s /\ sum[s] = f(x) + sum[s \ {x}]
    BY <1>4, <1>8
  <2> HIDE DEF x, pick
  <2>2. f(x) = Cardinality(with) /\ IsFiniteSet(with) /\ f(x) \in Nat
    <3>1. with \subseteq Ids
      BY DEF Ids
    <3>2. IsFiniteSet(with) /\ Cardinality(with) \in Nat
      <4> HIDE DEF with
      <4> QED
        BY <1>1, <3>1, FS_Subset, FS_CardinalityType
    <3> QED
      BY <3>2 DEF TokenFrequency
  <2>3. met(s) \subseteq met(s \ {x}) \cup with
    BY DEF Ids
  <2>4. Cardinality(met(s)) <= Cardinality(met(s \ {x})) + f(x)
    <3> HIDE DEF met, with, f
    <3>1. /\ IsFiniteSet(met(s \ {x}) \cup with)
          /\ Cardinality(met(s \ {x}) \cup with)
               = Cardinality(met(s \ {x})) + Cardinality(with) - Cardinality(met(s \ {x}) \cap with)
      BY <1>6, <2>2, FS_Union
    <3>2. Cardinality(met(s)) <= Cardinality(met(s \ {x}) \cup with)
      BY <2>3, <3>1, FS_Subset
    <3>3. IsFiniteSet(met(s \ {x}) \cap with) /\ Cardinality(met(s \ {x}) \cap with) \in Nat
      BY <1>6, <2>2, FS_Intersection, FS_CardinalityType
    <3> QED
      BY <1>6, <2>2, <3>1, <3>2, <3>3
  <2>5. ASSUME s \ {x} \in F
        PROVE  s \in F
    <3>1. sum[s \ {x}] \in Nat /\ Cardinality(met(s \ {x})) <= sum[s \ {x}]
      BY <2>5
    <3> HIDE DEF met, f
    <3>2. sum[s] \in Nat /\ Cardinality(met(s)) <= sum[s]
      BY <1>6, <2>1, <2>2, <2>4, <3>1
    <3> QED
      BY <3>2
  <2> QED
    BY <2>1, <2>5
<1>9. r \in F
  <2> HIDE DEF F
  <2> QED
    BY <1>1, <1>7, <1>8, SubsetDescent
<1>10. sum[r] \in Nat /\ Cardinality(met(r)) <= sum[r] /\ met(r) = Sharing(q)
  BY <1>9 DEF Sharing
<1>11. Cardinality(met(r)) >= 1
  <2>1. q \in met(r)
    BY <1>1
  <2> HIDE DEF met, r
  <2> QED
    BY <1>6, <2>1, FS_EmptySet
<1>12. ActualK(q) = IF sum[r] >= k THEN k ELSE sum[r]
  BY <1>3 DEF ActualK
<1> HIDE DEF met, r, F
<1> QED
  BY <1>1, <1>6, <1>10, <1>11, <1>12

\* A push does not make the heap larger than it is meant to be.
LEMMA PushKeepsSize ==
  ASSUME NEW h, NEW n \in Nat, IsFiniteSet(h), Cardinality(h) <= n,
         NEW entry, NEW after \in Pushed(h, n, entry)
  PROVE  IsFiniteSet(after) /\ Cardinality(after) <= n
<1>1. Cardinality(h) \in Nat
  BY FS_CardinalityType
<1>2. ASSUME NEW S, IsFiniteSet(S)
      PROVE  /\ IsFiniteSet(S \cup {entry})
             /\ Cardinality(S \cup {entry}) <= Cardinality(S) + 1
             /\ Cardinality(S) \in Nat /\ Cardinality(S \cup {entry}) \in Nat
  <2>1. IsFiniteSet(S \cup {entry})
    BY <1>2, FS_AddElement
  <2>2. Cardinality(S) \in Nat /\ Cardinality(S \cup {entry}) \in Nat
    BY <1>2, <2>1, FS_CardinalityType
  <2>3. CASE entry \in S
    <3>1. S \cup {entry} = S
      BY <2>3
    <3>2. Cardinality(S) <= Cardinality(S) + 1
      BY <2>2
    <3> QED
      BY <2>1, <2>2, <3>1, <3>2, Zenon
  <2>4. CASE entry \notin S
    <3>1. Cardinality(S \cup {entry}) = Cardinality(S) + 1
      BY <1>2, <2>4, FS_AddElement
    <3> QED
      BY <2>1, <2>2, <3>1
  <2> QED
    BY <2>3, <2>4
<1>3. CASE Cardinality(h) < n /\ after = h \cup {entry}
  BY <1>1, <1>2, <1>3
<1>4. CASE \E e \in LeastEntries(h, n) : after = (h \ {e}) \cup {entry}
  <2>1. PICK e \in h : after = (h \ {e}) \cup {entry}
    BY <1>4 DEF LeastEntries
  <2>2. IsFiniteSet(h \ {e}) /\ Cardinality(h \ {e}) = Cardinality(h) - 1
    BY FS_RemoveElement
  <2> QED
    BY <1>1, <1>2, <2>1, <2>2
<1> QED
  BY <1>3, <1>4 DEF Pushed

-------------------------------------------------------------------------------
(* The filters before the verification. *)
Difference(r, s) == Cardinality(r \ s) + Cardinality(s \ r)

LEMMA DifferenceFacts ==
  ASSUME NEW r, NEW s, IsFiniteSet(r), IsFiniteSet(s)
  PROVE  /\ Cardinality(r) \in Nat /\ Cardinality(s) \in Nat
         /\ Cardinality(r \ s) \in Nat /\ Cardinality(s \ r) \in Nat
         /\ Cardinality(r \cap s) \in Nat
         /\ Cardinality(r \ s) = Cardinality(r) - Cardinality(r \cap s)
         /\ Cardinality(s \ r) = Cardinality(s) - Cardinality(r \cap s)
         /\ Apart(r, s) \in Nat /\ Apart(r, s) <= Difference(r, s)
<1>1. /\ Cardinality(r) \in Nat /\ Cardinality(s) \in Nat
      /\ Cardinality(r \ s) \in Nat /\ Cardinality(s \ r) \in Nat
      /\ Cardinality(r \cap s) \in Nat
  BY FS_CardinalityType, FS_Difference, FS_Intersection
<1>2. Cardinality(r \ s) = Cardinality(r) - Cardinality(r \cap s)
  BY FS_Difference
<1>3. Cardinality(s \ r) = Cardinality(s) - Cardinality(r \cap s)
  <2>1. Cardinality(s \ r) = Cardinality(s) - Cardinality(s \cap r) /\ s \cap r = r \cap s
    BY FS_Difference
  <2> QED
    BY <2>1
<1> DEFINE a == Cardinality(r) - Cardinality(s)
           b == Cardinality(s) - Cardinality(r)
<1>4. Apart(r, s) \in {a, b} /\ Apart(r, s) >= a /\ Apart(r, s) >= b
  <2>1. a \in Int /\ b \in Int
    BY <1>1
  <2>2. Apart(r, s) = CHOOSE x \in {a, b} : \A y \in {a, b} : x >= y
    BY DEF Apart, Max
  <2> HIDE DEF a, b
  <2>3. \E x \in {a, b} : \A y \in {a, b} : x >= y
    BY <2>1
  <2> QED
    BY <2>2, <2>3
<1> QED
  BY <1>1, <1>2, <1>3, <1>4 DEF Difference

\* The middle token cuts two records, and their difference, in two.
LEMMA MiddleSplits ==
  ASSUME NEW r, NEW s, IsFiniteSet(r), IsFiniteSet(s), r \subseteq Int, s \subseteq Int,
         s # {}, NEW m, m = Middle(s)
  PROVE  /\ m \in s
         /\ Difference(r, s) = Difference(Below(r, m), Below(s, m))
                                 + Difference(Above(r, m), Above(s, m))
                                 + (IF m \in r THEN 0 ELSE 1)
<1>1. m \in s
  <2>1. Cardinality(s) \in Nat \ {0}
    BY FS_CardinalityType, FS_EmptySet
  <2>2. Cardinality(s) \div 2 \in 0 .. (Cardinality(s) - 1)
    BY <2>1
  <2>3. \E b \in s : Cardinality({x \in s : x < b}) = Cardinality(s) \div 2
    BY <2>2, RanksExist
  <2> QED
    BY <2>3 DEF Middle, Position
<1>2. ASSUME NEW S, IsFiniteSet(S), S \subseteq Int
      PROVE  /\ IsFiniteSet(S)
             /\ Cardinality(S) = Cardinality(Below(S, m)) + Cardinality(Above(S, m))
                                   + Cardinality(S \cap {m})
             /\ Cardinality(Below(S, m)) \in Nat /\ Cardinality(Above(S, m)) \in Nat
             /\ Cardinality(S \cap {m}) \in Nat
  <2> DEFINE A == Below(S, m)
             B == Above(S, m)
             C == S \cap {m}
  <2>1. \A t \in S : t \in Int /\ m \in Int
    BY <1>1, <1>2
  <2>2. \A t \in S : /\ t < m \/ t > m \/ t = m
                     /\ ~(t < m /\ t > m) /\ ~(t < m /\ t = m) /\ ~(t > m /\ t = m)
    BY <2>1
  <2>3. S = (A \cup B) \cup C /\ A \cap B = {} /\ (A \cup B) \cap C = {}
    BY <2>2 DEF Below, Above
  <2>4. A \subseteq S /\ B \subseteq S /\ C \subseteq S
    BY DEF Below, Above
  <2> HIDE DEF A, B, C
  <2>5. /\ IsFiniteSet(A) /\ IsFiniteSet(B) /\ IsFiniteSet(C)
        /\ Cardinality(A) \in Nat /\ Cardinality(B) \in Nat /\ Cardinality(C) \in Nat
    BY <1>2, <2>4, FS_Subset, FS_CardinalityType
  <2>6. IsFiniteSet(A \cup B) /\ Cardinality(A \cup B) = Cardinality(A) + Cardinality(B) - Cardinality({})
    BY <2>3, <2>5, FS_Union
  <2>7. Cardinality((A \cup B) \cup C) = Cardinality(A \cup B) + Cardinality(C) - Cardinality({})
    BY <2>3, <2>5, <2>6, FS_Union
  <2>8. Cardinality({}) = 0
    BY FS_EmptySet
  <2>9. Cardinality(S) = Cardinality(A) + Cardinality(B) + Cardinality(C)
    BY <2>3, <2>5, <2>6, <2>7, <2>8
  <2> QED
    BY <1>2, <2>5, <2>9 DEF A, B, C
<1>3. /\ Below(r \ s, m) = Below(r, m) \ Below(s, m)
      /\ Above(r \ s, m) = Above(r, m) \ Above(s, m)
      /\ Below(s \ r, m) = Below(s, m) \ Below(r, m)
      /\ Above(s \ r, m) = Above(s, m) \ Above(r, m)
  BY DEF Below, Above
<1>4. Cardinality((r \ s) \cap {m}) = 0
  <2>1. (r \ s) \cap {m} = {}
    BY <1>1
  <2> QED
    BY <2>1, FS_EmptySet
<1>5. Cardinality((s \ r) \cap {m}) = IF m \in r THEN 0 ELSE 1
  <2>1. CASE m \in r
    <3>1. (s \ r) \cap {m} = {}
      BY <2>1
    <3> QED
      BY <2>1, <3>1, FS_EmptySet
  <2>2. CASE m \notin r
    <3>1. (s \ r) \cap {m} = {m} /\ Cardinality({m}) = 1
      BY <1>1, <2>2, FS_Singleton
    <3> QED
      BY <2>2, <3>1
  <2> QED
    BY <2>1, <2>2
<1>6. IsFiniteSet(r \ s) /\ IsFiniteSet(s \ r) /\ r \ s \subseteq Int /\ s \ r \subseteq Int
  BY FS_Difference
<1>7. /\ Cardinality(r \ s) = Cardinality(Below(r, m) \ Below(s, m))
                                + Cardinality(Above(r, m) \ Above(s, m)) + 0
      /\ Cardinality(Below(r, m) \ Below(s, m)) \in Nat
      /\ Cardinality(Above(r, m) \ Above(s, m)) \in Nat
  BY <1>2, <1>3, <1>4, <1>6
<1>8. /\ Cardinality(s \ r) = Cardinality(Below(s, m) \ Below(r, m))
                                + Cardinality(Above(s, m) \ Above(r, m))
                                + (IF m \in r THEN 0 ELSE 1)
      /\ Cardinality(Below(s, m) \ Below(r, m)) \in Nat
      /\ Cardinality(Above(s, m) \ Above(r, m)) \in Nat
  BY <1>2, <1>3, <1>5, <1>6
<1> QED
  BY <1>1, <1>7, <1>8 DEF Difference

\* The calls of suffix_filter, and what one call makes of its two halves.
Calls == LET tokens == SUBSET UsedTokens(data)
         IN [depth : 0 .. depth, r : tokens, s : tokens, most : Int]

Missing(c) == IF Middle(c.s) \in c.r THEN 0 ELSE 1
LowerApart(c) == Apart(Below(c.r, Middle(c.s)), Below(c.s, Middle(c.s)))
UpperApart(c) == Apart(Above(c.r, Middle(c.s)), Above(c.s, Middle(c.s)))

LowerHalf(c) ==
  [depth |-> c.depth - 1, most |-> c.most - UpperApart(c) - Missing(c),
   r |-> Below(c.r, Middle(c.s)), s |-> Below(c.s, Middle(c.s))]

UpperHalf(c) ==
  [depth |-> c.depth - 1, most |-> c.most - LowerApart(c) - Missing(c),
   r |-> Above(c.r, Middle(c.s)), s |-> Above(c.s, Middle(c.s))]

IsLeaf(c) == c.depth = 0 \/ c.r = {} \/ c.s = {}

DistanceFrom(end, c) ==
  IF IsLeaf(c) THEN Apart(c.r, c.s)
  ELSE IF LowerApart(c) + UpperApart(c) + Missing(c) > c.most
       THEN LowerApart(c) + UpperApart(c) + Missing(c)
       ELSE end[LowerHalf(c)] + end[UpperHalf(c)] + Missing(c)

IsDistance(end) == end = [c \in Calls |-> DistanceFrom(end, c)]

LEMMA CallFacts ==
  ASSUME SetupInv, Ids # {}, NEW c \in Calls
  PROVE  /\ c.depth \in 0 .. depth /\ c.depth \in Nat
         /\ IsFiniteSet(c.r) /\ c.r \subseteq Int
         /\ IsFiniteSet(c.s) /\ c.s \subseteq Int
         /\ ~IsLeaf(c) => /\ c.depth > 0
                          /\ LowerHalf(c) \in Calls /\ LowerHalf(c).depth = c.depth - 1
                          /\ UpperHalf(c) \in Calls /\ UpperHalf(c).depth = c.depth - 1
                          /\ LowerApart(c) \in Nat /\ UpperApart(c) \in Nat
<1> DEFINE tokens == SUBSET UsedTokens(data)
           m == Middle(c.s)
<1>1. /\ c.depth \in 0 .. depth /\ c.r \in tokens /\ c.s \in tokens /\ c.most \in Int
      /\ depth \in Nat
  BY DEF Calls, SetupInv
<1>2. IsFiniteSet(UsedTokens(data)) /\ UsedTokens(data) \subseteq Nat
  <2>1. PICK id \in Ids : TRUE
    OBVIOUS
  <2>2. PICK t \in data[id] : TRUE
    BY RecordFacts
  <2> QED
    BY <2>2, LargestToken DEF SetupInv, Ids
<1>3. \A x \in tokens : IsFiniteSet(x) /\ x \subseteq Int
  <2> TAKE x \in tokens
  <2>1. IsFiniteSet(x)
    BY <1>2, FS_Subset
  <2>2. \A t \in x : t \in Int
    BY <1>2
  <2> QED
    BY <2>1, <2>2
<1>4. \A x \in tokens : Below(x, m) \in tokens /\ Above(x, m) \in tokens
  BY DEF Below, Above
<1>5. LowerApart(c) \in Nat /\ UpperApart(c) \in Nat /\ Missing(c) \in Int
  <2>1. \A x, y \in tokens : Apart(x, y) \in Nat
    BY <1>3, DifferenceFacts
  <2> HIDE DEF tokens
  <2> QED
    BY <1>1, <1>4, <2>1 DEF LowerApart, UpperApart, Missing
<1>6. ASSUME ~IsLeaf(c)
      PROVE  /\ c.depth > 0
             /\ LowerHalf(c) \in Calls /\ LowerHalf(c).depth = c.depth - 1
             /\ UpperHalf(c) \in Calls /\ UpperHalf(c).depth = c.depth - 1
  <2>1. c.depth # 0 /\ c.depth - 1 \in 0 .. depth /\ c.depth > 0
    BY <1>1, <1>6 DEF IsLeaf
  <2>2. /\ c.most - UpperApart(c) - Missing(c) \in Int
        /\ c.most - LowerApart(c) - Missing(c) \in Int
    BY <1>1, <1>5
  <2>3. LowerHalf(c) \in Calls
    BY <1>1, <1>4, <2>1, <2>2 DEF LowerHalf, Calls
  <2>4. UpperHalf(c) \in Calls
    BY <1>1, <1>4, <2>1, <2>2 DEF UpperHalf, Calls
  <2> QED
    BY <2>1, <2>3, <2>4 DEF LowerHalf, UpperHalf
<1> QED
  BY <1>1, <1>3, <1>5, <1>6

LEMMA DistanceExists ==
  ASSUME SetupInv, Ids # {}
  PROVE  \E end : IsDistance(end)
<1> DEFINE N == {n \in Nat : \E f : \A c \in Calls : c.depth < n => f[c] = DistanceFrom(f, c)}
<1>1. 0 \in N
  <2>1. \A c \in Calls : ~(c.depth < 0)
    BY CallFacts
  <2> QED
    BY <2>1
<1>2. ASSUME NEW n \in Nat, n \in N
      PROVE  n + 1 \in N
  <2>1. PICK f : \A c \in Calls : c.depth < n => f[c] = DistanceFrom(f, c)
    BY <1>2
  <2> DEFINE g == [c \in Calls |-> IF c.depth < n THEN f[c] ELSE DistanceFrom(f, c)]
  <2>2. ASSUME NEW c \in Calls, c.depth < n + 1
        PROVE  g[c] = DistanceFrom(g, c)
    <3>1. g[c] = DistanceFrom(f, c)
      BY <2>1
    <3>2. CASE IsLeaf(c)
      BY <3>1, <3>2 DEF DistanceFrom
    <3>3. CASE ~IsLeaf(c)
      <4>1. /\ LowerHalf(c) \in Calls /\ LowerHalf(c).depth < n
            /\ UpperHalf(c) \in Calls /\ UpperHalf(c).depth < n
        BY <2>2, <3>3, CallFacts
      <4>2. g[LowerHalf(c)] = f[LowerHalf(c)] /\ g[UpperHalf(c)] = f[UpperHalf(c)]
        BY <4>1
      <4> HIDE DEF g
      <4> QED
        BY <3>1, <4>2 DEF DistanceFrom
    <3> QED
      BY <3>2, <3>3
  <2> HIDE DEF g
  <2> QED
    BY <2>2
<1>3. Nat \subseteq N
  <2> HIDE DEF N
  <2> QED
    BY <1>1, <1>2, NatClosure
<1>4. depth + 1 \in N /\ \A c \in Calls : c.depth < depth + 1
  <2>1. depth \in Nat /\ depth + 1 \in Nat
    BY DEF SetupInv
  <2> HIDE DEF N
  <2> QED
    BY <1>3, <2>1, CallFacts
<1>5. PICK f : \A c \in Calls : f[c] = DistanceFrom(f, c)
  BY <1>4
<1> DEFINE end == [c \in Calls |-> f[c]]
<1>6. ASSUME NEW c \in Calls
      PROVE  DistanceFrom(end, c) = DistanceFrom(f, c)
  <2>1. CASE IsLeaf(c)
    BY <2>1 DEF DistanceFrom
  <2>2. CASE ~IsLeaf(c)
    <3>1. LowerHalf(c) \in Calls /\ UpperHalf(c) \in Calls
      BY <2>2, CallFacts
    <3>2. end[LowerHalf(c)] = f[LowerHalf(c)] /\ end[UpperHalf(c)] = f[UpperHalf(c)]
      BY <3>1
    <3> HIDE DEF end
    <3> QED
      BY <3>2 DEF DistanceFrom
  <2> QED
    BY <2>1, <2>2
<1>7. end = [c \in Calls |-> DistanceFrom(end, c)]
  <2>1. \A c \in Calls : f[c] = DistanceFrom(end, c)
    BY <1>5, <1>6
  <2>2. [c \in Calls |-> f[c]] = [c \in Calls |-> DistanceFrom(end, c)]
    <3> HIDE DEF end
    <3> QED
      BY <2>1
  <2> QED
    BY <2>2
<1> QED
  <2> HIDE DEF end
  <2> QED
    BY <1>7 DEF IsDistance

\* What the filter computes is never more than the difference.
LEMMA DistanceIsBelow ==
  ASSUME SetupInv, Ids # {}, NEW end, IsDistance(end), NEW c \in Calls
  PROVE  end[c] \in Int /\ end[c] <= Difference(c.r, c.s)
<1> DEFINE Good(x) == end[x] \in Int /\ end[x] <= Difference(x.r, x.s)
           N == {n \in Nat : \A x \in Calls : x.depth < n => Good(x)}
<1>1. 0 \in N
  <2>1. \A x \in Calls : ~(x.depth < 0)
    BY CallFacts
  <2> QED
    BY <2>1
<1>2. ASSUME NEW n \in Nat, n \in N
      PROVE  n + 1 \in N
  <2>1. ASSUME NEW x \in Calls, x.depth < n + 1
        PROVE  Good(x)
    <3>1. end[x] = DistanceFrom(end, x)
      BY DEF IsDistance
    <3>2. /\ IsFiniteSet(x.r) /\ IsFiniteSet(x.s) /\ x.r \subseteq Int /\ x.s \subseteq Int
          /\ x.depth \in Nat
      BY CallFacts
    <3>3. CASE IsLeaf(x)
      <4>1. Apart(x.r, x.s) \in Nat /\ Apart(x.r, x.s) <= Difference(x.r, x.s)
        BY <3>2, DifferenceFacts
      <4> QED
        BY <3>1, <3>3, <4>1 DEF DistanceFrom
    <3>4. CASE ~IsLeaf(x)
      <4> DEFINE l == LowerHalf(x)
                 u == UpperHalf(x)
                 dl == Difference(l.r, l.s)
                 du == Difference(u.r, u.s)
                 missing == Missing(x)
      <4>1. /\ l \in Calls /\ l.depth < n /\ u \in Calls /\ u.depth < n
        BY <2>1, <3>2, <3>4, CallFacts
      <4>2. Good(l) /\ Good(u)
        BY <1>2, <4>1
      <4>3. Difference(x.r, x.s) = dl + du + missing
        <5>1. x.s # {}
          BY <3>4 DEF IsLeaf
        <5> QED
          BY <3>2, <5>1, MiddleSplits DEF LowerHalf, UpperHalf, Missing
      <4>4. /\ LowerApart(x) \in Nat /\ LowerApart(x) <= dl /\ dl \in Nat
            /\ UpperApart(x) \in Nat /\ UpperApart(x) <= du /\ du \in Nat
        <5>1. /\ IsFiniteSet(l.r) /\ IsFiniteSet(l.s) /\ IsFiniteSet(u.r) /\ IsFiniteSet(u.s)
          BY <4>1, CallFacts
        <5>2. LowerApart(x) = Apart(l.r, l.s) /\ UpperApart(x) = Apart(u.r, u.s)
          BY DEF LowerApart, UpperApart, LowerHalf, UpperHalf
        <5>3. ASSUME NEW a, NEW b, IsFiniteSet(a), IsFiniteSet(b)
              PROVE  Apart(a, b) \in Nat /\ Apart(a, b) <= Difference(a, b)
                     /\ Difference(a, b) \in Nat
          <6>1. Apart(a, b) \in Nat /\ Apart(a, b) <= Difference(a, b)
            BY <5>3, DifferenceFacts
          <6>2. Cardinality(a \ b) \in Nat /\ Cardinality(b \ a) \in Nat
            BY <5>3, DifferenceFacts
          <6> QED
            BY <6>1, <6>2 DEF Difference
        <5> HIDE DEF l, u
        <5> QED
          BY <5>1, <5>2, <5>3
      <4>5. missing \in Int
        BY DEF Missing
      <4>6. end[x] = IF LowerApart(x) + UpperApart(x) + missing > x.most
                     THEN LowerApart(x) + UpperApart(x) + missing
                     ELSE end[l] + end[u] + missing
        BY <3>1, <3>4 DEF DistanceFrom
      <4> HIDE DEF l, u, dl, du, missing
      <4>7. CASE LowerApart(x) + UpperApart(x) + missing > x.most
        BY <4>3, <4>4, <4>5, <4>6, <4>7
      <4>8. CASE ~(LowerApart(x) + UpperApart(x) + missing > x.most)
        <5>1. end[x] = end[l] + end[u] + missing
          BY <4>6, <4>8
        <5>2. end[l] \in Int /\ end[l] <= dl /\ end[u] \in Int /\ end[u] <= du
          BY <4>2 DEF dl, du
        <5> QED
          BY <4>3, <4>4, <4>5, <5>1, <5>2
      <4> QED
        BY <4>7, <4>8
    <3> QED
      BY <3>3, <3>4
  <2> HIDE DEF Good
  <2> QED
    BY <2>1
<1>3. Nat \subseteq N
  <2> HIDE DEF N
  <2> QED
    BY <1>1, <1>2, NatClosure
<1>4. c.depth + 1 \in N /\ c.depth < c.depth + 1
  <2>1. c.depth \in Nat /\ c.depth + 1 \in Nat
    BY CallFacts
  <2> HIDE DEF N
  <2> QED
    BY <1>3, <2>1
<1> QED
  BY <1>4

\* What lies behind a token of a record.
LEMMA RestFacts ==
  ASSUME NEW r, IsFiniteSet(r), r \subseteq Int, NEW t \in r
  PROVE  /\ Rest(r, Position(r, t)) = {x \in r : t < x}
         /\ IsFiniteSet(Rest(r, Position(r, t)))
         /\ Cardinality(Rest(r, Position(r, t))) = Cardinality(r) - Position(r, t) - 1
<1> DEFINE from == {x \in r : t <= x}
           behind == {x \in r : t < x}
<1>1. \A x \in r : x \in Int
  OBVIOUS
<1>2. ASSUME NEW x \in r
      PROVE  Position(r, t) < Position(r, x) <=> t < x
  <2>1. t \in Int /\ x \in Int
    BY <1>1
  <2>2. /\ Position(r, t) \in Nat /\ Position(r, x) \in Nat
        /\ t < x => Position(r, t) < Position(r, x)
    BY <2>1, PositionsAscend
  <2>3. x < t => Position(r, x) < Position(r, t)
    BY <2>1, PositionsAscend
  <2> QED
    BY <2>1, <2>2, <2>3
<1>3. Rest(r, Position(r, t)) = behind
  <2>1. \A x \in r : Position(r, x) \in Nat /\ Position(r, t) \in Nat
    BY <1>1, PositionsAscend
  <2>2. \A x \in r : Position(r, x) > Position(r, t) <=> t < x
    BY <1>2, <2>1
  <2> QED
    BY <2>2 DEF Rest
<1>4. from \subseteq r /\ behind = from \ {t} /\ t \in from
  <2>1. \A x \in r : t < x <=> t <= x /\ x # t
    BY <1>1
  <2>2. t <= t
    BY <1>1
  <2> QED
    BY <2>1, <2>2
<1>5. Cardinality(from) = Cardinality(r) - Position(r, t)
  BY TokensFrom
<1> HIDE DEF from, behind
<1>6. IsFiniteSet(from)
  BY <1>4, FS_Subset
<1>7. IsFiniteSet(behind) /\ Cardinality(behind) = Cardinality(from) - 1
  BY <1>4, <1>6, FS_RemoveElement
<1> QED
  BY <1>3, <1>5, <1>7 DEF behind

\* Behind a match there are as many matches as there are common tokens.
LEMMA BehindMatch ==
  ASSUME SetupInv, query \in Ids, NEW id \in Ids, NEW m \in Matches(id)
  PROVE  LET r1 == Rest(data[query], m.row)
             r2 == Rest(data[id], m.col)
             behind == Cardinality({n \in Matches(id) : n.row > m.row /\ n.col > m.col})
         IN /\ r1 \subseteq UsedTokens(data) /\ r2 \subseteq UsedTokens(data)
            /\ IsFiniteSet(r1) /\ Cardinality(r1) = RSize - m.row - 1
            /\ IsFiniteSet(r2) /\ Cardinality(r2) = Size(data, id) - m.col - 1
            /\ behind \in Nat /\ Cardinality(r1 \cap r2) = behind
            /\ Cardinality(Prefix(id, m)) \in Nat
            /\ behind = Cardinality(data[query] \cap data[id]) - Cardinality(Prefix(id, m))
<1> DEFINE r == data[query]
           s == data[id]
           r1 == Rest(data[query], m.row)
           r2 == Rest(data[id], m.col)
           after == {n \in Matches(id) : n.row > m.row /\ n.col > m.col}
<1>1. /\ IsFiniteSet(r) /\ r \subseteq Int /\ IsFiniteSet(s) /\ s \subseteq Int
      /\ RSize = Cardinality(r) /\ Size(data, id) = Cardinality(s)
      /\ r \subseteq UsedTokens(data) /\ s \subseteq UsedTokens(data)
  BY RecordFacts DEF RSize, UsedTokens, Ids
<1>2. PICK t \in r \cap s : m.row = Position(r, t) /\ m.col = Position(s, t)
  BY DEF Matches
<1>3. /\ r1 = {x \in r : t < x} /\ IsFiniteSet(r1) /\ Cardinality(r1) = RSize - m.row - 1
      /\ r2 = {x \in s : t < x} /\ IsFiniteSet(r2)
      /\ Cardinality(r2) = Size(data, id) - m.col - 1
  <2> HIDE DEF r, s
  <2>1. /\ Rest(r, Position(r, t)) = {x \in r : t < x}
        /\ IsFiniteSet(Rest(r, Position(r, t)))
        /\ Cardinality(Rest(r, Position(r, t))) = Cardinality(r) - Position(r, t) - 1
    BY <1>1, RestFacts
  <2>2. /\ Rest(s, Position(s, t)) = {x \in s : t < x}
        /\ IsFiniteSet(Rest(s, Position(s, t)))
        /\ Cardinality(Rest(s, Position(s, t))) = Cardinality(s) - Position(s, t) - 1
    BY <1>1, RestFacts
  <2> QED
    BY <1>1, <1>2, <2>1, <2>2 DEF r, s
<1>4. /\ IsFiniteSet(Matches(id))
      /\ Cardinality(Matches(id)) = Cardinality(r \cap s)
      /\ \A n \in Matches(id) : n.row \in Nat /\ n.col \in Nat
      /\ \A n \in Matches(id) : /\ m.row < n.row <=> m.col < n.col
                                /\ m.row = n.row <=> m.col = n.col
  BY MatchFacts
<1>5. Prefix(id, m) = Matches(id) \ after /\ after \subseteq Matches(id)
  <2>1. \A n \in Matches(id) : (n.row <= m.row /\ n.col <= m.col)
                                 <=> ~(n.row > m.row /\ n.col > m.col)
    BY <1>4
  <2> QED
    BY <2>1 DEF Prefix
<1>6. /\ IsFiniteSet(after) /\ Cardinality(after) \in Nat
      /\ IsFiniteSet(Prefix(id, m)) /\ Cardinality(Prefix(id, m)) \in Nat
      /\ Cardinality(Prefix(id, m)) = Cardinality(r \cap s) - Cardinality(after)
  <2> HIDE DEF after, r, s
  <2>1. IsFiniteSet(after) /\ Cardinality(after) \in Nat /\ Matches(id) \cap after = after
    BY <1>4, <1>5, FS_Subset, FS_CardinalityType
  <2>2. /\ IsFiniteSet(Matches(id) \ after)
        /\ Cardinality(Matches(id) \ after)
             = Cardinality(Matches(id)) - Cardinality(Matches(id) \cap after)
    BY <1>4, FS_Difference
  <2>3. Cardinality(Prefix(id, m)) \in Nat
    BY <1>5, <2>2, FS_CardinalityType
  <2> QED
    BY <1>4, <1>5, <2>1, <2>2, <2>3
<1>7. Cardinality(r1 \cap r2) = Cardinality(after)
  <2> DEFINE common == {x \in r \cap s : t < x}
             match == [x \in common |-> [row |-> Position(r, x), col |-> Position(s, x)]]
  <2>1. r1 \cap r2 = common
    BY <1>3
  <2>2. ASSUME NEW x \in r \cap s, NEW y \in r \cap s
        PROVE  /\ Position(r, x) \in Nat /\ Position(s, x) \in Nat
               /\ x < y <=> Position(r, x) < Position(r, y)
               /\ x < y <=> Position(s, x) < Position(s, y)
    <3>1. x \in Int /\ y \in Int /\ x \in r /\ y \in r /\ x \in s /\ y \in s
      BY <1>1
    <3> HIDE DEF r, s
    <3>2. /\ Position(r, x) \in Nat /\ Position(r, y) \in Nat
          /\ x < y => Position(r, x) < Position(r, y)
          /\ y < x => Position(r, y) < Position(r, x)
      BY <1>1, <3>1, PositionsAscend
    <3>3. /\ Position(s, x) \in Nat /\ Position(s, y) \in Nat
          /\ x < y => Position(s, x) < Position(s, y)
          /\ y < x => Position(s, y) < Position(s, x)
      BY <1>1, <3>1, PositionsAscend
    <3> QED
      BY <3>1, <3>2, <3>3
  <2>3. \A x \in common : match[x] \in after
    <3> TAKE x \in common
    <3>1. /\ Position(r, x) > Position(r, t) /\ Position(s, x) > Position(s, t)
      <4>1. /\ Position(r, t) < Position(r, x) /\ Position(s, t) < Position(s, x)
            /\ Position(r, t) \in Nat /\ Position(r, x) \in Nat
            /\ Position(s, t) \in Nat /\ Position(s, x) \in Nat
        BY <2>2
      <4> QED
        BY <4>1
    <3>2. match[x] \in Matches(id)
      BY DEF Matches
    <3> QED
      BY <1>2, <3>1, <3>2
  <2>4. \A n \in after : \E x \in common : match[x] = n
    <3> TAKE n \in after
    <3>1. PICK x \in r \cap s : n = [row |-> Position(r, x), col |-> Position(s, x)]
      BY DEF Matches
    <3>2. Position(r, t) < Position(r, x)
      <4>1. n.row > m.row /\ n.row = Position(r, x) /\ m.row \in Nat /\ n.row \in Nat
        BY <1>4, <3>1
      <4> QED
        BY <1>2, <4>1
    <3>3. x \in common
      BY <2>2, <3>2
    <3> QED
      BY <3>1, <3>3
  <2>5. \A x, y \in common : match[x] = match[y] => x = y
    <3> TAKE x, y \in common
    <3> HAVE match[x] = match[y]
    <3>1. match[x].row = match[y].row
      OBVIOUS
    <3>2. Position(r, x) = Position(r, y)
      BY <3>1
    <3>3. x \in Int /\ y \in Int
      BY <1>1
    <3>4. ~(x < y) /\ ~(y < x)
      <4>1. Position(r, x) \in Nat
        BY <2>2
      <4>2. x < y <=> Position(r, x) < Position(r, y)
        BY <2>2
      <4>3. y < x <=> Position(r, y) < Position(r, x)
        BY <2>2
      <4> QED
        BY <3>2, <4>1, <4>2, <4>3
    <3> QED
      BY <3>3, <3>4
  <2>6. match \in [common -> after]
    BY <2>3
  <2> HIDE DEF match, after, common
  <2>7. match \in Injection(common, after)
    BY <2>5, <2>6 DEF Injection, IsInjective
  <2>8. match \in Surjection(common, after)
    BY <2>4, <2>6 DEF Surjection
  <2>9. ExistsBijection(common, after)
    BY <2>7, <2>8 DEF ExistsBijection, Bijection
  <2>10. IsFiniteSet(common)
    BY <1>3, <2>1, FS_Intersection
  <2> QED
    BY <2>1, <2>9, <2>10, FS_Bijection
<1>8. r1 \subseteq UsedTokens(data) /\ r2 \subseteq UsedTokens(data)
  BY <1>1, <1>3
<1>9. Cardinality(after) = Cardinality(r \cap s) - Cardinality(Prefix(id, m))
  <2>1. Cardinality(r \cap s) \in Nat
    <3> HIDE DEF r, s
    <3> QED
      BY <1>1, FS_Intersection, FS_CardinalityType
  <2> HIDE DEF after, r, s
  <2> QED
    BY <1>6, <2>1
<1> QED
  BY <1>3, <1>6, <1>7, <1>8, <1>9

\* The bounds of the filters are sound: a candidate with as many tokens in common with
\* the query as needed passes the suffix filter and the sketch filter.
LEMMA FiltersAreSound ==
  ASSUME SetupInv, query \in Ids, NEW id \in Ids, Resumes(overlaps[id], id),
         NEW needed \in Int, needed <= Cardinality(data[query] \cap data[id])
  PROVE  Passes(id, needed)
<1> DEFINE o == Cardinality(data[query] \cap data[id])
           s == Size(data, id)
           found == overlaps[id].overlap
           row == overlaps[id].pR
           col == overlaps[id].pS
           r1 == Rest(data[query], row)
           r2 == Rest(data[id], col)
<1>1. PICK m \in Matches(id) : found = Cardinality(Prefix(id, m)) /\ row = m.row /\ col = m.col
  BY DEF Resumes
<1>2. /\ r1 \subseteq UsedTokens(data) /\ r2 \subseteq UsedTokens(data)
      /\ IsFiniteSet(r1) /\ Cardinality(r1) = RSize - row - 1
      /\ IsFiniteSet(r2) /\ Cardinality(r2) = s - col - 1
      /\ Cardinality(r1 \cap r2) = o - found
      /\ found \in Nat
  BY <1>1, BehindMatch
<1>3. RSize \in Nat /\ s \in Nat /\ o \in Nat /\ row \in Nat /\ col \in Nat /\ Ids # {}
  <2> HIDE DEF o, s, row, col, found, r1, r2
  <2>1. row \in Nat /\ col \in Nat
    BY <1>1, MatchFacts
  <2>2. RSize \in Nat
    BY OwnFacts
  <2>3. s \in Nat /\ Ids # {}
    BY RecordFacts DEF s
  <2>4. o \in Nat
    BY TrueSimFacts DEF o
  <2> QED
    BY <2>1, <2>2, <2>3, <2>4
<1>4. ASSUME depth > 0
      PROVE  PassesSuffixFilter(id, needed)
  <2> DEFINE most == MaxDistance(id, needed)
             call == [depth |-> depth, most |-> most, r |-> r1, s |-> r2]
             end == CHOOSE end : IsDistance(end)
  <2>1. most = RSize + s - 2 * (needed - found) - (row + col + 2)
    BY DEF MaxDistance
  <2> HIDE DEF most
  <2>2. most \in Int
    BY <1>2, <1>3, <2>1
  <2>3. call \in Calls
    <3>1. depth \in 0 .. depth
      BY DEF SetupInv
    <3> HIDE DEF r1, r2
    <3> QED
      BY <1>2, <2>2, <3>1 DEF Calls
  <2>4. IsDistance(end)
    BY <1>3, DistanceExists
  <2>5. SuffixDistance = end
    BY DEF SuffixDistance, IsDistance, DistanceFrom, Calls, IsLeaf, LowerHalf, UpperHalf,
           LowerApart, UpperApart, Missing
  <2> HIDE DEF end
  <2>6. end[call] \in Int /\ end[call] <= Difference(r1, r2)
    <3>1. call.r = r1 /\ call.s = r2
      OBVIOUS
    <3> HIDE DEF call, r1, r2
    <3> QED
      BY <1>3, <2>3, <2>4, <3>1, DistanceIsBelow
  <2>7. Difference(r1, r2) = RSize - row - 1 + (s - col - 1) - 2 * (o - found)
    <3> HIDE DEF r1, r2
    <3>1. /\ Cardinality(r1 \ r2) = Cardinality(r1) - Cardinality(r1 \cap r2)
          /\ Cardinality(r2 \ r1) = Cardinality(r2) - Cardinality(r1 \cap r2)
      BY <1>2, DifferenceFacts
    <3> HIDE DEF o, s, found, row, col
    <3> QED
      BY <1>2, <1>3, <3>1 DEF Difference
  <2>8. SuffixDistance[call] <= most
    <3> HIDE DEF o, s, found, row, col, call, r1, r2
    <3>1. needed <= o
      BY DEF o
    <3> QED
      BY <1>2, <1>3, <2>1, <2>5, <2>6, <2>7, <3>1
  <2> QED
    BY <2>8 DEF PassesSuffixFilter, most
<1>5. ASSUME dual # <<>>
      PROVE  PassesSketchFilter(id, needed)
  <2>1. IsFiniteSet(data[query]) /\ IsFiniteSet(data[id])
    BY RecordFacts
  <2>2. \A n \in {1, 2} : \A t \in data[query] \cup data[id] : dual[n][t] \in GroupIds
    BY <1>5 DEF SetupInv, UsedTokens, Ids
  <2>3. /\ MaxOverlap(Fingerprint(data[query], dual), Fingerprint(data[id], dual)) \in Nat
        /\ o <= MaxOverlap(Fingerprint(data[query], dual), Fingerprint(data[id], dual))
    BY <2>1, <2>2, MaxOverlapIsBound
  <2> HIDE DEF o
  <2>4. needed <= o
    BY DEF o
  <2> QED
    BY <1>3, <2>3, <2>4 DEF PassesSketchFilter
<1> QED
  BY <1>4, <1>5 DEF Passes

\* Verification resumes from the partial overlap and ends with the whole one.
LEMMA RestIsCounted ==
  ASSUME SetupInv, query \in Ids, NEW id \in Ids, Resumes(overlaps[id], id),
         NEW needed \in Int, NEW o, o = Cardinality(data[query] \cap data[id])
  PROVE  /\ o >= 1
         /\ FalsifyOrComputeRest(id, needed) = IF o >= needed THEN o ELSE -1
<1>1. PICK m \in Matches(id) : /\ overlaps[id].overlap = Cardinality(Prefix(id, m))
                               /\ overlaps[id].pR = m.row /\ overlaps[id].pS = m.col
  BY DEF Resumes
<1> DEFINE behind == Cardinality({n \in Matches(id) : n.row > m.row /\ n.col > m.col})
<1>2. /\ behind \in Nat /\ Cardinality(Prefix(id, m)) \in Nat
      /\ behind = o - Cardinality(Prefix(id, m))
  BY BehindMatch
<1>3. o \in Nat /\ o >= 1
  <2>1. data[query] \cap data[id] # {}
    BY DEF Matches
  <2>2. o \in Nat /\ o # 0
    BY <2>1, TrueSimFacts
  <2> QED
    BY <2>2
<1>4. Cardinality(Prefix(id, m)) + behind = o
  <2> HIDE DEF behind
  <2> QED
    BY <1>2, <1>3
<1> QED
  BY <1>1, <1>3, <1>4 DEF FalsifyOrComputeRest

\* What Verify does with a candidate is a comparison: filters and bound leave it out
\* only when it is settled.
LEMMA VerifyIsComparison ==
  ASSUME SetupInv, query \in Ids, NEW id \in Ids, Resumes(overlaps[id], id),
         slots \in Nat \ {0}, IsHeap(heap, slots),
         NEW needed \in Eqo(RSize, Size(data, id), Threshold), NEW after,
         IF Passes(id, needed) /\ FalsifyOrComputeRest(id, needed) > 0
         THEN after \in Pushed(heap, slots,
                               [id |-> id, sim |-> Sim(RSize, Size(data, id),
                                                       FalsifyOrComputeRest(id, needed))])
         ELSE after = heap
  PROVE  IsComparison(heap, slots, [id |-> id, sim |-> TrueSim(id)], after)
<1> DEFINE o == Cardinality(data[query] \cap data[id])
           s == Size(data, id)
           entry == [id |-> id, sim |-> TrueSim(id)]
<1>1. /\ RSize \in Nat /\ s \in Nat \ {0} /\ o \in Nat /\ o <= RSize
      /\ TrueSim(id) = Sim(RSize, s, o)
  BY OwnFacts, RecordFacts, TrueSimFacts DEF TrueSim
<1>2. /\ Threshold \in Fraction /\ 0 <= Threshold.num
      /\ Cardinality(heap) < slots => Threshold = Zero
  BY ThresholdIsLeast DEF Threshold
<1>3. /\ needed \in Int
      /\ o >= needed => AtMost(Threshold, TrueSim(id))
      /\ o < needed => AtMost(TrueSim(id), Threshold)
      /\ Threshold.num = 0 => needed = 0
  <2> HIDE DEF o, s
  <2>1. Threshold.num >= 0 /\ needed \in Eqo(RSize, s, Threshold)
    BY <1>2 DEF s, Fraction
  <2> QED
    BY <1>1, <1>2, <2>1, EqoIsSound
<1>4. o >= 1 /\ FalsifyOrComputeRest(id, needed) = IF o >= needed THEN o ELSE -1
  BY <1>3, RestIsCounted
<1>5. CASE o >= needed
  <2>1. needed <= o
    BY <1>1, <1>3, <1>5
  <2>2. Passes(id, needed)
    BY <1>3, <2>1, FiltersAreSound
  <2>3. FalsifyOrComputeRest(id, needed) = o /\ o > 0
    BY <1>1, <1>4, <1>5
  <2>4. after \in Pushed(heap, slots, entry)
    BY <1>1, <2>2, <2>3
  <2> QED
    BY <1>3, <1>5, <2>4 DEF IsComparison, Threshold
<1>6. CASE ~(o >= needed)
  <2>1. after = heap
    BY <1>4, <1>6
  <2>2. o < needed
    BY <1>1, <1>3, <1>6
  <2>3. ~(Cardinality(heap) < slots)
    <3>1. ASSUME Threshold = Zero
          PROVE  FALSE
      <4>1. Threshold.num = 0
        BY <3>1 DEF Zero
      <4> QED
        BY <1>1, <1>3, <2>2, <4>1
    <3> QED
      BY <1>2, <3>1
  <2> QED
    BY <1>3, <2>1, <2>2, <2>3 DEF IsComparison, Settled, Threshold
<1> QED
  BY <1>5, <1>6

-------------------------------------------------------------------------------
(* The events of a lookup. *)
LEMMA InitialEventFacts ==
  ASSUME SetupInv, NEW q \in Ids
  PROVE  /\ \A e \in InitialEvents(Size(data, q)) :
              /\ e.grp \in 0 .. LastGroup /\ e.pR \in Nat /\ e.pS \in Int
              /\ e.ub = GroupedSimUb(groups, Size(data, q), e.grp, e.pR)
              /\ e.grp < Home(q) => /\ e.pS = 0
                                    /\ e.pR = Size(data, q) - UpperBound(groups, e.grp)
              /\ Home(q) <= e.grp => e.pR = 0
              /\ e.pS - e.pR >= LowerBound(groups, e.grp) - Size(data, q)
              /\ LastGroup = 0 => e.pS - e.pR >= UpperBound(groups, e.grp) - Size(data, q)
         /\ \A g \in 0 .. LastGroup : \E e \in InitialEvents(Size(data, q)) :
              \/ e.grp = g
              \/ Home(q) < e.grp /\ e.grp < g /\ e.pR = 0
              \/ g < e.grp /\ e.grp < Home(q) /\ e.pS = 0
<1> DEFINE size == Size(data, q)
           own == Home(q)
           lb(g) == LowerBound(groups, g)
           ub(g) == UpperBound(groups, g)
           same == Event(size, 0, own, ub(own) - size)
           longer == Event(size, 0, own + 1, ub(own + 1) - size)
           shorter == FirstShorter(own, size)
           events == InitialEvents(size)
<1>1. /\ size \in Nat \ {0} /\ LastGroup \in Nat /\ own \in 0 .. LastGroup
      /\ lb(own) <= size /\ size <= ub(own)
      /\ \A g \in 0 .. LastGroup : lb(g) \in Int /\ ub(g) \in Int /\ lb(g) <= ub(g)
      /\ \A g \in 0 .. LastGroup : g < own => ub(g) < lb(own)
  BY RecordFacts, GroupFacts
<1>2. events = {same} \cup (IF own < LastGroup THEN {longer} ELSE {})
                      \cup (IF own > 0 THEN {shorter} ELSE {})
  BY DEF InitialEvents, Home
<1>3. /\ same.pR = 0 /\ same.grp = own /\ same.pS = ub(own) - size
      /\ same.ub = GroupedSimUb(groups, size, own, 0)
  BY DEF Event
<1>4. /\ longer.pR = 0 /\ longer.grp = own + 1 /\ longer.pS = ub(own + 1) - size
      /\ longer.ub = GroupedSimUb(groups, size, own + 1, 0)
  BY DEF Event
<1>5. /\ shorter.pR = size - ub(own - 1) /\ shorter.grp = own - 1 /\ shorter.pS = 0
      /\ shorter.ub = GroupedSimUb(groups, size, own - 1, size - ub(own - 1))
  BY DEF Event, FirstShorter
<1> HIDE DEF size, own, lb, ub, same, longer, shorter, events
<1>6. ASSUME NEW e \in events
      PROVE  /\ e.grp \in 0 .. LastGroup /\ e.pR \in Nat /\ e.pS \in Int
             /\ e.ub = GroupedSimUb(groups, size, e.grp, e.pR)
             /\ e.grp < own => e.pS = 0 /\ e.pR = size - ub(e.grp)
             /\ own <= e.grp => e.pR = 0
             /\ e.pS - e.pR >= lb(e.grp) - size
             /\ LastGroup = 0 => e.pS - e.pR >= ub(e.grp) - size
  <2>1. CASE e = same
    <3>1. lb(own) \in Int /\ ub(own) \in Int /\ lb(own) <= ub(own)
      BY <1>1
    <3> QED
      BY <1>1, <1>3, <2>1, <3>1
  <2>2. CASE e = longer /\ own < LastGroup
    <3>1. own + 1 \in 0 .. LastGroup
      BY <1>1, <2>2
    <3>2. lb(own + 1) \in Int /\ ub(own + 1) \in Int /\ lb(own + 1) <= ub(own + 1)
      BY <1>1, <3>1
    <3> QED
      BY <1>1, <1>4, <2>2, <3>1, <3>2
  <2>3. CASE e = shorter /\ own > 0
    <3>1. own - 1 \in 0 .. LastGroup /\ own - 1 < own /\ own \in 0 .. LastGroup
      BY <1>1, <2>3
    <3>2. /\ lb(own - 1) \in Int /\ ub(own - 1) \in Int /\ lb(own - 1) <= ub(own - 1)
          /\ lb(own) \in Int /\ ub(own - 1) < lb(own)
      BY <1>1, <3>1
    <3>3. e.pR \in Nat /\ LastGroup # 0
      BY <1>1, <1>5, <2>3, <3>2
    <3> QED
      BY <1>1, <1>5, <2>3, <3>1, <3>2, <3>3
  <2> QED
    BY <1>2, <2>1, <2>2, <2>3
<1>7. ASSUME NEW g \in 0 .. LastGroup
      PROVE  \E e \in events : \/ e.grp = g
                               \/ own < e.grp /\ e.grp < g /\ e.pR = 0
                               \/ g < e.grp /\ e.grp < own /\ e.pS = 0
  <2>1. CASE g = own
    BY <1>2, <1>3, <2>1
  <2>2. CASE own < g
    <3>1. longer \in events /\ own < own + 1 /\ (own + 1 = g \/ own + 1 < g)
      BY <1>1, <1>2, <2>2
    <3> QED
      BY <1>4, <3>1
  <2>3. CASE g < own
    <3>1. shorter \in events /\ own - 1 < own /\ (own - 1 = g \/ g < own - 1)
      BY <1>1, <1>2, <2>3
    <3> QED
      BY <1>5, <3>1
  <2> QED
    BY <1>1, <2>1, <2>2, <2>3
<1> QED
  BY <1>6, <1>7 DEF size, own, lb, ub, events

\* What an event reaches, it or one of its next events does.
LEMMA NextReaches ==
  ASSUME SetupInv, query \in Ids, NEW e, IsEvent(e), NEW g \in 0 .. LastGroup, Reaches(e, g)
  PROVE  \E n \in NextEvents(e) : Reaches(n, g)
<1> DEFINE h == e.grp
           lb(x) == LowerBound(groups, x)
           ub(x) == UpperBound(groups, x)
<1>1. /\ h \in 0 .. LastGroup /\ LastGroup \in Nat /\ Own \in 0 .. LastGroup
      /\ Own < h => RSize < lb(h)
      /\ h < Own => ub(h) < RSize
      /\ RSize \in Nat /\ lb(h) \in Int /\ ub(h) \in Int /\ lb(h) <= ub(h)
  BY OwnFacts, GroupFacts DEF IsEvent
<1>2. CASE h = g
  <2> DEFINE n == Event(RSize, e.pR + 1, h, e.pS + 1)
  <2>1. n \in NextEvents(e) /\ n.grp = h
    BY DEF NextEvents, Event
  <2> HIDE DEF n
  <2> QED
    BY <1>2, <2>1 DEF Reaches
<1>3. CASE Own < h /\ h < g /\ e.pR = 0
  <2> DEFINE n == Event(RSize, e.pR, h + 1, IncPos(e.pS, h))
  <2>1. lb(h) > RSize /\ h < LastGroup
    BY <1>1, <1>3
  <2>2. n \in NextEvents(e) /\ n.grp = h + 1 /\ n.pR = 0
    BY <1>3, <2>1 DEF NextEvents, Event
  <2> HIDE DEF n, h
  <2>3. Own < h + 1 /\ (h + 1 = g \/ h + 1 < g)
    BY <1>1, <1>3
  <2> QED
    BY <2>2, <2>3 DEF Reaches
<1>4. CASE g < h /\ h < Own /\ e.pS = 0
  <2> DEFINE n == Event(RSize, DecPos(e.pR, h), h - 1, e.pS)
  <2>1. lb(h) <= RSize /\ ub(h) < RSize /\ h > 0
    BY <1>1, <1>4
  <2>2. n \in NextEvents(e) /\ n.grp = h - 1 /\ n.pS = 0
    BY <1>4, <2>1 DEF NextEvents, HasShorterGroup, Event
  <2> HIDE DEF n, h
  <2>3. h - 1 < Own /\ (h - 1 = g \/ g < h - 1)
    BY <1>1, <1>4
  <2> QED
    BY <2>2, <2>3 DEF Reaches
<1> QED
  BY <1>2, <1>3, <1>4 DEF Reaches

-------------------------------------------------------------------------------
(* The inductive invariant: control and types first. *)
StateInv ==
  /\ SetupInv
  /\ pc \in {"idle", "pop", "verify", "done"}
  /\ pc = "idle" => query = -1 /\ slots = 0 /\ heap = {} /\ queue = {}
  /\ pc # "idle" => /\ query \in Ids /\ slots \in 1 .. k
                    /\ slots < k => Cardinality(Sharing(query)) <= slots
  /\ candidates \subseteq Ids /\ fresh \subseteq candidates
  /\ pc # "verify" => fresh = {}
  /\ \A id \in candidates : overlaps[id].overlap > 0
  /\ IsFiniteSet(heap) /\ Cardinality(heap) <= slots
  /\ \A e \in Open : IsEvent(e)

LEMMA InitState == Init => StateInv
<1> SUFFICES ASSUME Init
             PROVE  StateInv
  OBVIOUS
<1>1. PICK s \in Setups :
        LET name == GroupingFor(s.mode, s.grouping) IN
        /\ data = s.data /\ k = s.k /\ mode = s.mode /\ depth = s.depth
        /\ HasGroups(name, s.data)
        /\ groups = Grouping(name, s.data)
        /\ dual \in IF s.sketch THEN DualTransformations(CountFrequency(s.data)) ELSE {<<>>}
  BY DEF Init
<1>2. /\ IsDataset(data) /\ k \in Nat \ {0} /\ mode \in {"TOPK_BASELINE", "FILTER", "FULL"}
      /\ depth \in Nat /\ s.grouping \in {"identity", "aio", "fixed", "usqrt", "wsqrt"}
  BY <1>1, LookupAssumption DEF LookupAssumption
<1>3. Ids # {} => IsGrouping(groups, data)
  <2>1. GroupingFor(s.mode, s.grouping) \in {"identity", "aio", "fixed", "usqrt", "wsqrt"}
    BY <1>2 DEF GroupingFor
  <2> QED
    BY <1>1, <1>2, <2>1, GroupingIsGrouping DEF Ids
<1>4. ASSUME dual # <<>>, NEW n \in {1, 2}, NEW t \in UsedTokens(data)
      PROVE  dual[n][t] \in GroupIds
  <2>1. dual \in DualTransformations(CountFrequency(data))
    BY <1>1, <1>4
  <2>2. PICK id \in Ids : t \in data[id]
    BY <1>4 DEF UsedTokens, Ids
  <2>3. t \in 0 .. UniverseSize(data)
    BY <1>2, <2>2, LargestToken DEF Ids
  <2>4. t \in DOMAIN CountFrequency(data)
    BY <2>3 DEF CountFrequency
  <2> QED
    BY <2>1, <2>4, TransformationsAreTotal
<1>5. SetupInv
  BY <1>2, <1>3, <1>4 DEF SetupInv
<1>6. IsFiniteSet(heap) /\ Cardinality(heap) <= slots
  BY FS_EmptySet DEF Init
<1> QED
  BY <1>5, <1>6 DEF Init, StateInv, Open

\* The join does not change, nor does what it says of a record and a query.
LEMMA SetupStays ==
  ASSUME UNCHANGED setup
  PROVE  /\ SetupInv' <=> SetupInv
         /\ Ids' = Ids /\ LastGroup' = LastGroup /\ k' = k
         /\ \A q : Sharing(q)' = Sharing(q)
         /\ \A id : Home(id)' = Home(id)
BY DEF setup, SetupInv, Ids, LastGroup, Sharing, Home, Size

LEMMA QueryStays ==
  ASSUME UNCHANGED setup, UNCHANGED query
  PROVE  /\ Own' = Own /\ RSize' = RSize
         /\ \A e : IsEvent(e)' <=> IsEvent(e)
         /\ \A e : NextEvents(e)' = NextEvents(e)
         /\ \A e : ProbeVertical(e)' <=> ProbeVertical(e)
         /\ \A e, g : Reaches(e, g)' <=> Reaches(e, g)
         /\ \A id : Matches(id)' = Matches(id)
         /\ \A id : TrueSim(id)' = TrueSim(id)
<1>1. data' = data /\ groups' = groups /\ mode' = mode /\ query' = query
  BY DEF setup
<1>2. RSize' = RSize
  BY <1>1 DEF RSize, Size
<1>3. Own' = Own /\ LastGroup' = LastGroup
  BY <1>1, <1>2 DEF Own, LastGroup
<1>4. /\ \A e : IsEvent(e)' <=> IsEvent(e)
      /\ \A e : ProbeVertical(e)' <=> ProbeVertical(e)
      /\ \A e, g : Reaches(e, g)' <=> Reaches(e, g)
  BY <1>1, <1>2, <1>3 DEF IsEvent, ProbeVertical, Reaches
<1>5. \A e : NextEvents(e)' = NextEvents(e)
  BY <1>1, <1>2, <1>3 DEF NextEvents, Event, IncPos, DecPos
<1>6. \A id : Matches(id)' = Matches(id) /\ TrueSim(id)' = TrueSim(id)
  BY <1>1, <1>2 DEF Matches, TrueSim, Size
<1> QED
  BY <1>2, <1>3, <1>4, <1>5, <1>6

LEMMA NextState == IInv /\ StateInv /\ [Next]_vars => StateInv'
<1> SUFFICES ASSUME IInv, StateInv, [Next]_vars
             PROVE  StateInv'
  OBVIOUS
<1> USE DEF StateInv
<1>1. ASSUME UNCHANGED setup
      PROVE  /\ SetupInv' /\ Ids' = Ids /\ k' = k
             /\ \A q : Sharing(q)' = Sharing(q)
  BY <1>1, SetupStays
<1>2. ASSUME NEW id \in Ids, StartLookup(id)
      PROVE  StateInv'
  <2>1. /\ UNCHANGED setup /\ pc = "idle" /\ pc' = "pop" /\ query' = id /\ slots' = ActualK(id)
        /\ queue' = InitialEvents(Size(data, id))
        /\ UNCHANGED <<heap, candidates, fresh, overlaps>>
    BY <1>2 DEF StartLookup
  <2>2. /\ slots' \in 1 .. k
        /\ slots' < k => Cardinality(Sharing(id)) <= slots'
    BY <2>1, ActualKFacts
  <2>3. Open' = queue'
    BY <2>1 DEF Open
  <2>4. ASSUME NEW e \in queue'
        PROVE  IsEvent(e)'
    <3>1. data' = data /\ groups' = groups
      BY <2>1 DEF setup
    <3>2. RSize' = Size(data, id) /\ Own' = Home(id) /\ LastGroup' = LastGroup
      BY <2>1, <3>1 DEF RSize, Own, Home, Size, LastGroup
    <3>3. /\ e.grp \in 0 .. LastGroup /\ e.pR \in Nat /\ e.pS \in Int
          /\ e.ub = GroupedSimUb(groups, Size(data, id), e.grp, e.pR)
          /\ e.grp < Home(id) => /\ e.pS = 0
                                 /\ e.pR = Size(data, id) - UpperBound(groups, e.grp)
          /\ e.pS - e.pR >= LowerBound(groups, e.grp) - Size(data, id)
          /\ LastGroup = 0 => e.pS - e.pR >= UpperBound(groups, e.grp) - Size(data, id)
      BY <2>1, <2>4, InitialEventFacts
    <3> QED
      BY <3>1, <3>2, <3>3 DEF IsEvent
  <2>5. fresh' = {} /\ heap' = {} /\ IsFiniteSet(heap') /\ Cardinality(heap') <= slots'
    <3>1. heap' = {} /\ fresh' = {} /\ Cardinality({}) = 0 /\ IsFiniteSet({})
      BY <2>1, FS_EmptySet
    <3>2. slots' >= 0
      BY <2>2
    <3> QED
      BY <3>1, <3>2
  <2> QED
    BY <1>1, <2>1, <2>2, <2>3, <2>4, <2>5
<1>3. ASSUME NEW id \in Ids, Verify(id)
      PROVE  StateInv'
  <2>1. /\ UNCHANGED setup /\ pc = "verify" /\ pc' = "verify" /\ UNCHANGED <<query, slots>>
        /\ queue' = queue /\ event' = event /\ fresh' = fresh \ {id}
        /\ UNCHANGED <<candidates, overlaps>>
    BY <1>3 DEF Verify
  <2>2. heap' = heap \/ \E entry : heap' \in Pushed(heap, slots, entry)
    BY <1>3 DEF Verify, Push
  <2>3. IsFiniteSet(heap') /\ Cardinality(heap') <= slots
    <3>1. slots \in Nat
      BY <2>1
    <3> QED
      BY <2>2, <3>1, PushKeepsSize
  <2>4. Open' = Open /\ \A e : IsEvent(e)' <=> IsEvent(e)
    BY <2>1, QueryStays DEF Open
  <2> QED
    BY <1>1, <2>1, <2>3, <2>4
<1>4. ASSUME NEW e \in queue, PopAndRead(e)
      PROVE  StateInv'
  <2>1. /\ UNCHANGED setup /\ pc = "pop" /\ pc' = "verify" /\ UNCHANGED <<query, slots, heap>>
        /\ queue' = queue \ {e} /\ event' = e
        /\ fresh' = {id \in Ids : overlaps[id].overlap = 0 /\ overlaps'[id].overlap > 0}
        /\ candidates' = candidates \cup fresh'
    BY <1>4 DEF PopAndRead
  <2>2. IInv'
    BY <1>4, PopAndReadInv
  <2>3. ASSUME NEW id \in candidates
        PROVE  overlaps'[id].overlap > 0
    <3>1. PICK reads, pUb :
            overlaps' = [x \in Ids |-> IF x \in DOMAIN reads THEN AfterRead(overlaps[x], reads[x])
                                                             ELSE overlaps[x]]
            /\ reads = [x \in GroupRecords(e.grp) |-> Read(x, e, pUb)]
      BY <1>4 DEF PopAndRead
    <3>2. id \in Ids /\ overlaps[id].overlap > 0 /\ overlaps[id].overlap \in Nat
      BY CountIsNatural DEF IInv
    <3>3. CASE id \in GroupRecords(e.grp)
      <4>1. overlaps'[id] = AfterRead(overlaps[id], Read(id, e, pUb))
        BY <3>1, <3>2, <3>3
      <4>2. IsFiniteSet(Read(id, e, pUb))
        BY <3>2, ReadsAreFinite DEF IInv
      <4>3. Cardinality(Read(id, e, pUb)) \in Nat
        BY <4>2, FS_CardinalityType
      <4>4. overlaps[id].overlap + Cardinality(Read(id, e, pUb)) > 0
        BY <3>2, <4>3
      <4> QED
        BY <3>2, <4>1, <4>4 DEF AfterRead
    <3>4. CASE id \notin GroupRecords(e.grp)
      BY <3>1, <3>2, <3>4
    <3> QED
      BY <3>3, <3>4
  <2>4. Open' = queue' \cup NextEvents(e) /\ \A x : IsEvent(x)' <=> IsEvent(x)
    BY <2>1, QueryStays DEF Open
  <2>5. \A x \in queue : IsEvent(x)
    BY <2>1 DEF Open
  <2>6. \A n \in NextEvents(e) : IsEvent(n)
    BY <2>1, <2>5, NextEventCases
  <2> QED
    BY <1>1, <2>1, <2>3, <2>4, <2>5, <2>6
<1>5. CASE EnqueueNext
  <2>1. /\ UNCHANGED setup /\ pc = "verify" /\ pc' = "pop" /\ UNCHANGED <<query, slots, heap>>
        /\ queue' = queue \cup NextEvents(event) /\ fresh = {}
        /\ UNCHANGED <<candidates, fresh, overlaps>>
    BY <1>5 DEF EnqueueNext
  <2>2. Open' = Open /\ \A e : IsEvent(e)' <=> IsEvent(e)
    BY <2>1, QueryStays DEF Open
  <2> QED
    BY <1>1, <2>1, <2>2
<1>6. CASE EndLookup
  <2>1. /\ UNCHANGED setup /\ pc = "pop" /\ pc' = "done" /\ UNCHANGED <<query, slots, heap>>
        /\ queue' = queue /\ UNCHANGED <<candidates, fresh, overlaps>>
    BY <1>6 DEF EndLookup
  <2>2. Open' = Open /\ \A e : IsEvent(e)' <=> IsEvent(e)
    BY <2>1, QueryStays DEF Open
  <2> QED
    BY <1>1, <2>1, <2>2
<1>7. CASE Cleanup
  <2>1. /\ UNCHANGED setup /\ pc = "done" /\ pc' = "idle" /\ query' = -1 /\ slots' = 0
        /\ heap' = {} /\ queue' = {} /\ candidates' = {} /\ fresh' = fresh
    BY <1>7 DEF Cleanup
  <2>2. Open' = {}
    BY <2>1 DEF Open
  <2>3. IsFiniteSet(heap') /\ Cardinality(heap') <= slots'
    BY <2>1, FS_EmptySet
  <2> QED
    BY <1>1, <2>1, <2>2, <2>3
<1>8. CASE UNCHANGED vars
  <2>1. /\ UNCHANGED setup /\ UNCHANGED <<pc, query, slots, heap, queue, event>>
        /\ UNCHANGED <<candidates, fresh, overlaps>>
    BY <1>8 DEF vars, lookup
  <2>2. Open' = Open /\ \A e : IsEvent(e)' <=> IsEvent(e)
    BY <2>1, QueryStays DEF Open
  <2> QED
    BY <1>1, <2>1, <2>2
<1> QED
  BY <1>2, <1>3, <1>4, <1>5, <1>6, <1>7, <1>8 DEF Next

LEMMA StateInvariance == Spec => [](IInv /\ StateInv)
<1>1. Init => IInv /\ StateInv
  BY InitInv, InitState
<1>2. IInv /\ StateInv /\ [Next]_vars => IInv' /\ StateInv'
  BY NextInv, NextState
<1> QED
  BY <1>1, <1>2, PTL DEF Spec

\* The types of a lookup: events stay in the groups, the heap in its slots.
THEOREM Types == Spec => []TypeOK
<1>1. IInv /\ StateInv => TypeOK
  <2> SUFFICES ASSUME IInv, StateInv
               PROVE  TypeOK
    OBVIOUS
  <2>1. \A e \in queue : e.grp \in 0 .. LastGroup /\ e.pR \in Nat /\ e.pS \in Int
    BY DEF StateInv, Open, IsEvent
  <2>2. \A id \in Ids : overlaps[id].overlap \in Nat
    BY CountIsNatural DEF IInv
  <2>3. slots \in 0 .. k
    <3>1. k \in Nat
      BY DEF StateInv, SetupInv
    <3> QED
      BY <3>1 DEF StateInv
  <2> QED
    BY <2>1, <2>2, <2>3 DEF StateInv, TypeOK
<1> QED
  BY <1>1, StateInvariance, PTL

-------------------------------------------------------------------------------
(* The search: no group is forgotten, no record is passed, no match is lost. *)
Entry(id) == [id |-> id, sim |-> TrueSim(id)]

\* The records verified so far are in the heap or cannot enter it any more.
HeapInv ==
  /\ IsHeap(heap, slots)
  /\ \A e \in heap : \E id \in candidates \ fresh : e = Entry(id)
  /\ \A id \in candidates \ fresh : Entry(id) \in heap \/ Settled(heap, slots, TrueSim(id))

SearchInv ==
  pc # "idle" =>
    /\ \A g \in 0 .. LastGroup : \E e \in Open : Reaches(e, g)
    /\ RecordsInv
    /\ candidates \subseteq Sharing(query)
    /\ \A id \in fresh : Resumes(overlaps[id], id)
    /\ HeapInv
    /\ pc = "done" => IsOver

LEMMA ThresholdFacts ==
  ASSUME StateInv, SearchInv, pc # "idle"
  PROVE  /\ slots \in Nat \ {0}
         /\ Threshold \in Fraction /\ 0 <= Threshold.num
<1>1. slots \in Nat \ {0}
  BY DEF StateInv, SetupInv
<1>2. IsHeap(heap, slots)
  BY DEF SearchInv, HeapInv
<1> QED
  BY <1>1, <1>2, ThresholdIsLeast DEF Threshold

LEMMA ReadStays ==
  ASSUME UNCHANGED setup, UNCHANGED query
  PROVE  /\ \A o, id : Resumes(o, id)' <=> Resumes(o, id)
         /\ \A id : Entry(id)' = Entry(id)
         /\ Sharing(query)' = Sharing(query)
         /\ \A e, id : Ahead(e, id)' <=> Ahead(e, id)
         /\ \A g, c : ColumnSim(g, c)' = ColumnSim(g, c)
<1>1. data' = data /\ groups' = groups /\ mode' = mode /\ query' = query
  BY DEF setup
<1>2. /\ \A id : Matches(id)' = Matches(id) /\ TrueSim(id)' = TrueSim(id)
      /\ \A e : ProbeVertical(e)' <=> ProbeVertical(e)
      /\ RSize' = RSize
  BY QueryStays
<1>3. \A id, m : Prefix(id, m)' = Prefix(id, m)
  BY <1>2 DEF Prefix
<1>4. \A o, id : Resumes(o, id)' <=> Resumes(o, id)
  BY <1>2, <1>3 DEF Resumes
<1>5. \A id : Entry(id)' = Entry(id)
  BY <1>2 DEF Entry
<1>6. Sharing(query)' = Sharing(query)
  BY <1>1 DEF Sharing, Ids
<1>7. \A e, id : Ahead(e, id)' <=> Ahead(e, id)
  BY <1>1, <1>2 DEF Ahead
<1>8. \A g, c : ColumnSim(g, c)' = ColumnSim(g, c)
  BY <1>1, <1>2 DEF ColumnSim
<1> QED
  BY <1>4, <1>5, <1>6, <1>7, <1>8

\* What is beyond the threshold stays beyond a higher one.
LEMMA NotPassedStays ==
  ASSUME SetupInv, UNCHANGED setup, query \in Ids, UNCHANGED query,
         Threshold \in Fraction, Threshold' \in Fraction, AtMost(Threshold, Threshold'),
         NEW id \in Ids, NEW e, NotPassed(e, id)
  PROVE  NotPassed(e, id)'
<1>1. Ahead(e, id)' <=> Ahead(e, id)
  BY ReadStays
<1>2. mode' = mode /\ data' = data /\ groups' = groups
  BY DEF setup
<1>3. Matches(id)' = Matches(id) /\ Home(id)' = Home(id)
  BY QueryStays, SetupStays
<1>4. ASSUME Beyond(id)
      PROVE  Beyond(id)'
  <2>1. ASSUME NEW m \in Matches(id)
        PROVE  AtMost(ColumnSim(Home(id), m.col), Threshold')
    <3>1. AtMost(ColumnSim(Home(id), m.col), Threshold)
      BY <1>4 DEF Beyond
    <3>2. ColumnSim(Home(id), m.col) \in Fraction
      <4>1. RSize \in Nat \ {0} /\ m.col \in Nat
        BY OwnFacts, MatchFacts
      <4>2. UpperBound(groups, Home(id)) \in Int
        BY RecordFacts, GroupFacts
      <4> QED
        BY <4>1, <4>2 DEF ColumnSim, Sim, Fraction
    <3> QED
      BY <3>1, <3>2, AtMostTransitive
  <2>2. ASSUME NEW m \in Matches(id)
        PROVE  AtMost(ColumnSim(Home(id), m.col)', Threshold')
    <3>1. ColumnSim(Home(id), m.col)' = ColumnSim(Home(id), m.col)
      BY <1>2, <1>3, QueryStays DEF ColumnSim
    <3> QED
      BY <2>1, <3>1
  <2> QED
    BY <1>3, <2>2 DEF Beyond, AtMost
<1> QED
  BY <1>1, <1>2, <1>4 DEF NotPassed

LEMMA InitSearch == Init => SearchInv
BY DEF Init, SearchInv

LEMMA StartSearch ==
  ASSUME IInv, StateInv, StateInv', NEW q \in Ids, StartLookup(q)
  PROVE  SearchInv'
<1>1. /\ UNCHANGED setup /\ pc = "idle" /\ pc' = "pop" /\ query' = q
      /\ queue' = InitialEvents(Size(data, q))
      /\ UNCHANGED <<heap, candidates, fresh, overlaps>>
  BY DEF StartLookup
<1>2. candidates' = {} /\ fresh' = {} /\ heap' = {} /\ SetupInv
  BY <1>1 DEF IInv, StateInv
<1>3. data' = data /\ groups' = groups /\ mode' = mode
  BY <1>1 DEF setup
<1>4. /\ RSize' = Size(data, q) /\ Own' = Home(q) /\ LastGroup' = LastGroup
      /\ Open' = queue' /\ Ids' = Ids /\ \A id : Home(id)' = Home(id)
  BY <1>1, <1>3, SetupStays DEF RSize, Own, Home, Size, Open
<1>5. \A g \in 0 .. LastGroup' : \E e \in Open' : Reaches(e, g)'
  <2> SUFFICES ASSUME NEW g \in 0 .. LastGroup
               PROVE  \E e \in InitialEvents(Size(data, q)) : Reaches(e, g)'
    BY <1>1, <1>4
  <2>1. PICK e \in InitialEvents(Size(data, q)) :
           \/ e.grp = g
           \/ Home(q) < e.grp /\ e.grp < g /\ e.pR = 0
           \/ g < e.grp /\ e.grp < Home(q) /\ e.pS = 0
    BY <1>2, InitialEventFacts
  <2> QED
    BY <1>4, <2>1 DEF Reaches
<1>6. RecordsInv'
  <2> SUFFICES ASSUME NEW id \in Ids, NEW e \in InitialEvents(Size(data, q))
               PROVE  Ahead(e, id)'
    BY <1>1, <1>4 DEF RecordsInv, NotPassed
  <2>1. /\ e.grp < Home(q) => e.pS = 0
        /\ Home(q) <= e.grp => e.pR = 0
        /\ e.grp \in 0 .. LastGroup
    BY <1>2, InitialEventFacts
  <2>2. CASE e.grp < Home(q)
    BY <1>4, <2>1, <2>2 DEF Ahead, ProbeVertical, Own
  <2>3. CASE ~(e.grp < Home(q))
    <3>1. Home(q) \in Int /\ e.grp \in Int /\ LastGroup \in Nat
      BY <1>2, <2>1, RecordFacts, GroupFacts
    <3>2. e.pR = 0
      BY <2>1, <2>3, <3>1
    <3>3. ASSUME NEW m \in Matches(id)'
          PROVE  e.pR <= m.row
      <4>1. PICK t \in data[q] \cap data[id] :
               m = [row |-> Position(data[q], t), col |-> Position(data[id], t)]
        BY <1>1, <1>3 DEF Matches
      <4>2. IsFiniteSet(data[q]) /\ data[q] \subseteq Int
        BY <1>2, RecordFacts
      <4>3. Position(data[q], t) \in Nat
        BY <4>2, PositionsAscend
      <4> QED
        BY <3>2, <4>1, <4>3
    <3> QED
      BY <3>3 DEF Ahead
  <2> QED
    BY <2>2, <2>3
<1>7. HeapInv'
  <2>1. Cardinality({}) = 0 /\ IsFiniteSet({})
    BY FS_EmptySet
  <2>2. slots' \in 1 .. k'
    BY <1>1 DEF StateInv
  <2>3. IsHeap(heap', slots')
    BY <1>2, <2>1, <2>2 DEF IsHeap
  <2> QED
    BY <1>2, <2>3 DEF HeapInv
<1> QED
  BY <1>1, <1>2, <1>5, <1>6, <1>7 DEF SearchInv

\* What the popped event did not find is not passed by the events that follow it; what
\* it found first can be verified from the last match read on.
LEMMA PopSearch ==
  ASSUME IInv, StateInv, SearchInv, NEW e \in queue, PopAndRead(e)
  PROVE  SearchInv'
<1>1. /\ UNCHANGED setup /\ pc = "pop" /\ pc' = "verify" /\ UNCHANGED <<query, slots, heap>>
      /\ queue' = queue \ {e} /\ event' = e
      /\ fresh' = {id \in Ids : overlaps[id].overlap = 0 /\ overlaps'[id].overlap > 0}
      /\ candidates' = candidates \cup fresh'
  BY DEF PopAndRead
<1>2. /\ SetupInv /\ query \in Ids /\ fresh = {} /\ candidates \subseteq Ids
      /\ \A id \in candidates : overlaps[id].overlap > 0
  BY <1>1 DEF StateInv
<1>3. PICK pUb \in ColumnBounds(e) :
        \E reads \in {[id \in GroupRecords(e.grp) |-> Read(id, e, pUb)]} :
          overlaps' = [id \in Ids |-> IF id \in DOMAIN reads
                                      THEN AfterRead(overlaps[id], reads[id])
                                      ELSE overlaps[id]]
  BY DEF PopAndRead
<1>4. \A id \in Ids : overlaps'[id] = IF Home(id) = e.grp
                                     THEN AfterRead(overlaps[id], Read(id, e, pUb))
                                     ELSE overlaps[id]
  BY <1>3 DEF GroupRecords, Home
<1>5. /\ Open = queue /\ Open' = queue' \cup NextEvents(e)
      /\ \A x : IsEvent(x)' <=> IsEvent(x)
      /\ \A x, g : Reaches(x, g)' <=> Reaches(x, g)
      /\ Own' = Own
  BY <1>1, QueryStays DEF Open
<1>6. /\ Ids' = Ids /\ LastGroup' = LastGroup /\ \A id : Home(id)' = Home(id)
  BY <1>1, SetupStays
<1>7. /\ Threshold \in Fraction /\ 0 <= Threshold.num /\ Threshold' = Threshold
  BY <1>1, ThresholdFacts DEF Threshold
<1>8. IsEvent(e)
  BY <1>5 DEF StateInv
<1>9. \A id \in Ids : overlaps[id].overlap \in Nat /\ IsOverlap(overlaps[id])
  BY CountIsNatural DEF IInv
<1>10. \A id \in Ids \ candidates : Home(id) = e.grp => NotPassed(e, id)
  BY <1>1, <1>5 DEF SearchInv, RecordsInv
<1>11. \A g \in 0 .. LastGroup' : \E x \in Open' : Reaches(x, g)'
  <2> SUFFICES ASSUME NEW g \in 0 .. LastGroup
               PROVE  \E x \in Open' : Reaches(x, g)
    BY <1>5, <1>6
  <2>1. PICK x \in queue : Reaches(x, g)
    BY <1>1, <1>5 DEF SearchInv
  <2>2. CASE x = e
    <3>1. \E n \in NextEvents(e) : Reaches(n, g)
      BY <1>2, <1>8, <2>1, <2>2, NextReaches
    <3> QED
      BY <1>5, <3>1
  <2>3. CASE x # e
    BY <1>1, <1>5, <2>1, <2>3
  <2> QED
    BY <2>2, <2>3
<1>12. ASSUME NEW id \in Ids \ candidates', NEW x \in Open', x.grp = Home(id)
       PROVE  NotPassed(x, id)
  <2>1. id \in Ids \ candidates /\ id \notin fresh'
    BY <1>1, <1>12
  <2>2. CASE x \in queue
    BY <1>1, <1>5, <1>12, <2>1, <2>2 DEF SearchInv, RecordsInv
  <2>3. CASE x \in NextEvents(e)
    <3>1. \/ x.grp = e.grp /\ x.pR = e.pR + 1 /\ x.pS = e.pS + 1
          \/ x.grp = e.grp + 1 /\ Own < e.grp /\ e.pR = 0 /\ x.pR = 0
          \/ x.grp = e.grp - 1 /\ e.grp < Own /\ e.pS = 0 /\ x.pS = 0
      BY <1>2, <1>8, <2>3, NextEventCases
    <3>2. CASE x.grp = e.grp /\ x.pR = e.pR + 1 /\ x.pS = e.pS + 1
      <4>1. Home(id) = e.grp /\ NotPassed(e, id)
        BY <1>10, <1>12, <2>1, <3>2
      <4>2. Read(id, e, pUb) = {}
        <5>1. overlaps[id].overlap = 0 /\ ~(overlaps'[id].overlap > 0)
          BY <1>1, <2>1 DEF IInv
        <5>2. overlaps'[id] = AfterRead(overlaps[id], Read(id, e, pUb))
          BY <1>4, <2>1, <4>1
        <5>3. IsFiniteSet(Read(id, e, pUb))
          BY <2>1, ReadsAreFinite DEF IInv
        <5>4. ASSUME Read(id, e, pUb) # {}
              PROVE  FALSE
          <6>1. overlaps'[id].overlap = overlaps[id].overlap + Cardinality(Read(id, e, pUb))
            BY <5>2, <5>4 DEF AfterRead
          <6>2. Cardinality(Read(id, e, pUb)) \in Nat /\ Cardinality(Read(id, e, pUb)) # 0
            BY <5>3, <5>4, FS_CardinalityType, FS_EmptySet
          <6> QED
            BY <5>1, <6>1, <6>2
        <5> QED
          BY <5>4
      <4> QED
        BY <1>2, <1>7, <1>8, <2>1, <3>2, <4>1, <4>2, EmptyRead
    <3>3. CASE x.pR = 0
      <4>1. \A m \in Matches(id) : m.row \in Nat
        BY <1>2, <2>1, MatchFacts
      <4>2. \A m \in Matches(id) : x.pR <= m.row
        BY <3>3, <4>1
      <4> QED
        BY <4>2 DEF NotPassed, Ahead
    <3>4. CASE x.grp = e.grp - 1 /\ e.grp < Own /\ x.pS = 0
      <4>1. Own \in Int /\ e.grp \in Int
        BY <1>2, <1>8, OwnFacts, GroupFacts DEF IsEvent
      <4>2. Own > x.grp /\ x.pS = 0
        BY <3>4, <4>1
      <4> QED
        BY <4>2 DEF NotPassed, Ahead, ProbeVertical, Own
    <3> QED
      BY <3>1, <3>2, <3>3, <3>4
  <2> QED
    BY <1>1, <1>5, <2>2, <2>3
<1>13. RecordsInv'
  <2> SUFFICES ASSUME NEW id \in Ids \ candidates', NEW x \in Open', x.grp = Home(id)
               PROVE  NotPassed(x, id)'
    BY <1>6 DEF RecordsInv
  <2>1. NotPassed(x, id)
    BY <1>12
  <2>2. AtMost(Threshold, Threshold')
    BY <1>7, AtMostTotal
  <2> QED
    BY <1>1, <1>2, <1>7, <2>1, <2>2, NotPassedStays
<1>14. ASSUME NEW id \in fresh'
       PROVE  Resumes(overlaps'[id], id)
  <2>1. id \in Ids /\ overlaps[id].overlap = 0 /\ overlaps'[id].overlap > 0
    BY <1>1
  <2>2. id \notin candidates
    <3>1. ~(0 > 0)
      OBVIOUS
    <3> QED
      BY <1>2, <2>1, <3>1
  <2>3. Home(id) = e.grp /\ overlaps'[id] = AfterRead(overlaps[id], Read(id, e, pUb))
    <3>1. ~(0 > 0)
      OBVIOUS
    <3> QED
      BY <1>4, <2>1, <3>1
  <2>4. Read(id, e, pUb) # {}
    <3>1. ~(0 > 0)
      OBVIOUS
    <3> QED
      BY <2>1, <2>3, <3>1 DEF AfterRead
  <2>5. NotPassed(e, id)
    BY <1>10, <2>1, <2>2, <2>3
  <2>6. Resumes(AfterRead(overlaps[id], Read(id, e, pUb)), id)
    BY <1>2, <1>7, <1>8, <2>1, <2>3, <2>4, <2>5, SomeRead
  <2> QED
    BY <2>3, <2>6
<1>15. candidates' \subseteq Sharing(query)'
  <2>1. Sharing(query)' = Sharing(query)
    BY <1>1, ReadStays
  <2>2. candidates \subseteq Sharing(query)
    BY <1>1 DEF SearchInv
  <2>3. ASSUME NEW id \in fresh'
        PROVE  id \in Sharing(query)
    <3>1. PICK m \in Matches(id) : TRUE
      BY <1>14 DEF Resumes
    <3>2. id \in Ids
      BY <1>1
    <3> QED
      BY <3>1, <3>2 DEF Matches, Sharing
  <2> QED
    BY <1>1, <2>1, <2>2, <2>3
<1>16. candidates' \ fresh' = candidates \ fresh
  <2>1. ASSUME NEW id \in candidates
        PROVE  id \notin fresh'
    <3>1. ~(0 > 0)
      OBVIOUS
    <3> QED
      BY <1>1, <1>2, <3>1
  <2> QED
    BY <1>1, <1>2, <2>1
<1>17. HeapInv'
  <2>1. /\ \A id : Entry(id)' = Entry(id)
        /\ \A id : TrueSim(id)' = TrueSim(id)
    BY <1>1, ReadStays, QueryStays
  <2>2. HeapInv
    BY <1>1 DEF SearchInv
  <2> QED
    BY <1>1, <1>16, <2>1, <2>2 DEF HeapInv
<1>18. \A id \in fresh' : Resumes(overlaps[id], id)'
  BY <1>1, <1>14, ReadStays
<1> QED
  BY <1>1, <1>11, <1>13, <1>15, <1>17, <1>18 DEF SearchInv

\* A verified candidate is in the heap or cannot enter it any more.
LEMMA VerifySearch ==
  ASSUME IInv, StateInv, SearchInv, StateInv', NEW id \in Ids, Verify(id)
  PROVE  SearchInv'
<1>1. /\ UNCHANGED setup /\ pc = "verify" /\ pc' = "verify" /\ UNCHANGED <<query, slots>>
      /\ queue' = queue /\ event' = event /\ fresh' = fresh \ {id} /\ id \in fresh
      /\ UNCHANGED <<candidates, overlaps>>
  BY DEF Verify
<1>2. SetupInv /\ query \in Ids /\ candidates \subseteq Ids /\ fresh \subseteq candidates
  BY <1>1 DEF StateInv
<1>3. /\ \A g \in 0 .. LastGroup : \E e \in Open : Reaches(e, g)
      /\ RecordsInv
      /\ candidates \subseteq Sharing(query)
      /\ \A x \in fresh : Resumes(overlaps[x], x)
      /\ HeapInv
  BY <1>1 DEF SearchInv
<1>4. slots \in Nat \ {0} /\ Threshold \in Fraction /\ 0 <= Threshold.num
  BY <1>1, ThresholdFacts
<1>5. IsHeap(heap, slots)
  BY <1>3 DEF HeapInv
<1>6. PICK needed \in Eqo(RSize, Size(data, id), Threshold) :
         IF Passes(id, needed) /\ FalsifyOrComputeRest(id, needed) > 0
         THEN heap' \in Pushed(heap, slots,
                               [id |-> id, sim |-> Sim(RSize, Size(data, id),
                                                       FalsifyOrComputeRest(id, needed))])
         ELSE heap' = heap
  BY DEF Verify, Push
<1>7. Resumes(overlaps[id], id)
  BY <1>1, <1>3
<1>8. IsComparison(heap, slots, Entry(id), heap')
  BY <1>2, <1>4, <1>5, <1>6, <1>7, VerifyIsComparison DEF Entry
<1>9. Entry(id).sim \in Fraction /\ 0 <= Entry(id).sim.num /\ Entry(id).sim = TrueSim(id)
  <2>1. TrueSim(id) \in Fraction /\ TrueSim(id).num \in Nat
    BY <1>2, TrueSimFacts
  <2>2. Entry(id).sim = TrueSim(id)
    BY DEF Entry
  <2> QED
    BY <2>1, <2>2
<1>10. Entry(id) \notin heap
  <2>1. \A x : Entry(x).id = x
    BY DEF Entry
  <2> QED
    BY <1>1, <1>3, <2>1 DEF HeapInv
<1>11. /\ IsHeap(heap', slots)
       /\ heap' \subseteq heap \cup {Entry(id)}
       /\ \A e \in heap \cup {Entry(id)} : e \in heap' \/ Settled(heap', slots, e.sim)
       /\ \A sim \in Fraction : Settled(heap, slots, sim) => Settled(heap', slots, sim)
  BY <1>4, <1>5, <1>8, <1>9, <1>10, ComparisonKeepsHeap
<1>12. /\ \A x : Entry(x)' = Entry(x)
       /\ \A x : TrueSim(x)' = TrueSim(x)
       /\ \A o, x : Resumes(o, x)' <=> Resumes(o, x)
       /\ Sharing(query)' = Sharing(query)
  BY <1>1, ReadStays, QueryStays
<1>13. candidates' \ fresh' = (candidates \ fresh) \cup {id}
  BY <1>1, <1>2
<1>14. HeapInv'
  <2>1. \A e \in heap' : \E x \in candidates' \ fresh' : e = Entry(x)
    BY <1>3, <1>11, <1>13 DEF HeapInv
  <2>2. ASSUME NEW x \in candidates' \ fresh'
        PROVE  Entry(x) \in heap' \/ Settled(heap', slots, TrueSim(x))
    <3>1. x \in Ids
      BY <1>1, <1>2, <2>2
    <3>2. TrueSim(x) \in Fraction /\ Entry(x).sim = TrueSim(x)
      BY <1>2, <3>1, TrueSimFacts DEF Entry
    <3>3. \/ Entry(x) \in heap \cup {Entry(id)}
          \/ Settled(heap, slots, TrueSim(x))
      BY <1>3, <1>13 DEF HeapInv
    <3> QED
      BY <1>11, <3>2, <3>3
  <2> QED
    BY <1>1, <1>11, <1>12, <2>1, <2>2 DEF HeapInv
<1>15. Threshold' \in Fraction /\ AtMost(Threshold, Threshold')
  <2>1. /\ HeapThreshold(heap', slots) \in Fraction
        /\ 0 <= HeapThreshold(heap', slots).num
    BY <1>4, <1>11, ThresholdIsLeast
  <2>2. Threshold' = HeapThreshold(heap', slots) /\ Threshold = HeapThreshold(heap, slots)
    BY <1>1 DEF Threshold
  <2>3. CASE heap' = heap
    BY <1>4, <2>2, <2>3, AtMostTotal
  <2>4. CASE heap' # heap
    <3>1. AtMost(HeapThreshold(heap, slots), Entry(id).sim)
          /\ heap' \in Pushed(heap, slots, Entry(id))
      BY <1>8, <2>4 DEF IsComparison
    <3>2. AtMost(HeapThreshold(heap, slots), HeapThreshold(heap', slots))
      BY <1>4, <1>5, <1>9, <1>10, <3>1, PushKeepsHeap
    <3> QED
      BY <2>1, <2>2, <3>2
  <2> QED
    BY <2>3, <2>4
<1>16. RecordsInv'
  <2>1. /\ Open' = Open /\ Ids' = Ids /\ candidates' = candidates
        /\ \A x : Home(x)' = Home(x)
    BY <1>1, QueryStays, SetupStays DEF Open
  <2> SUFFICES ASSUME NEW x \in Ids \ candidates, NEW e \in Open, e.grp = Home(x)
               PROVE  NotPassed(e, x)'
    BY <2>1 DEF RecordsInv
  <2>2. NotPassed(e, x)
    BY <1>3 DEF RecordsInv
  <2> QED
    BY <1>1, <1>2, <1>4, <1>15, <2>2, NotPassedStays
<1>17. \A g \in 0 .. LastGroup' : \E e \in Open' : Reaches(e, g)'
  <2>1. /\ Open' = Open /\ LastGroup' = LastGroup
        /\ \A e, g : Reaches(e, g)' <=> Reaches(e, g)
    BY <1>1, QueryStays, SetupStays DEF Open
  <2> QED
    BY <1>3, <2>1
<1>18. \A x \in fresh' : Resumes(overlaps[x], x)'
  BY <1>1, <1>3, <1>12
<1> QED
  BY <1>1, <1>3, <1>12, <1>14, <1>16, <1>17, <1>18 DEF SearchInv

LEMMA SearchStays ==
  ASSUME SearchInv, pc # "idle", UNCHANGED setup,
         UNCHANGED <<query, heap, slots, candidates, fresh, overlaps>>, Open' = Open,
         pc' = "done" => IsOver'
  PROVE  SearchInv'
<1>1. /\ \A g \in 0 .. LastGroup : \E e \in Open : Reaches(e, g)
      /\ RecordsInv
      /\ candidates \subseteq Sharing(query)
      /\ \A id \in fresh : Resumes(overlaps[id], id)
      /\ HeapInv
  BY DEF SearchInv
<1>2. /\ LastGroup' = LastGroup /\ Ids' = Ids
      /\ \A id : Home(id)' = Home(id)
      /\ \A e, g : Reaches(e, g)' <=> Reaches(e, g)
      /\ \A id : Matches(id)' = Matches(id)
      /\ \A id : TrueSim(id)' = TrueSim(id)
  BY SetupStays, QueryStays
<1>3. /\ \A o, id : Resumes(o, id)' <=> Resumes(o, id)
      /\ \A id : Entry(id)' = Entry(id)
      /\ Sharing(query)' = Sharing(query)
      /\ \A e, id : Ahead(e, id)' <=> Ahead(e, id)
      /\ \A g, c : ColumnSim(g, c)' = ColumnSim(g, c)
  BY ReadStays
<1>4. Threshold' = Threshold
  BY DEF Threshold
<1>5. \A id : Beyond(id)' <=> Beyond(id)
  BY <1>2, <1>3, <1>4 DEF Beyond
<1>6. mode' = mode
  BY DEF setup
<1>7. \A e, id : NotPassed(e, id)' <=> NotPassed(e, id)
  BY <1>3, <1>5, <1>6 DEF NotPassed
<1>8. RecordsInv'
  BY <1>1, <1>2, <1>7 DEF RecordsInv
<1>9. HeapInv'
  BY <1>1, <1>2, <1>3 DEF HeapInv
<1> QED
  BY <1>1, <1>2, <1>3, <1>8, <1>9 DEF SearchInv

LEMMA NextSearch == IInv /\ StateInv /\ SearchInv /\ [Next]_vars => SearchInv'
<1> SUFFICES ASSUME IInv, StateInv, SearchInv, [Next]_vars
             PROVE  SearchInv'
  OBVIOUS
<1>1. StateInv'
  BY NextState
<1>2. ASSUME NEW id \in Ids, StartLookup(id)
      PROVE  SearchInv'
  BY <1>1, <1>2, StartSearch
<1>3. ASSUME NEW id \in Ids, Verify(id)
      PROVE  SearchInv'
  BY <1>1, <1>3, VerifySearch
<1>4. ASSUME NEW e \in queue, PopAndRead(e)
      PROVE  SearchInv'
  BY <1>4, PopSearch
<1>5. CASE EnqueueNext
  <2>1. /\ UNCHANGED setup /\ pc = "verify" /\ pc' = "pop"
        /\ UNCHANGED <<query, heap, slots, candidates, fresh, overlaps>>
        /\ queue' = queue \cup NextEvents(event)
    BY <1>5 DEF EnqueueNext
  <2>2. Open' = Open
    BY <2>1 DEF Open
  <2> QED
    BY <2>1, <2>2, SearchStays
<1>6. CASE EndLookup
  <2>1. /\ UNCHANGED setup /\ pc = "pop" /\ pc' = "done" /\ IsOver
        /\ UNCHANGED <<query, heap, slots, candidates, fresh, overlaps>>
        /\ queue' = queue
    BY <1>6 DEF EndLookup
  <2>2. Open' = Open
    BY <2>1 DEF Open
  <2>3. IsOver'
    BY <2>1 DEF IsOver, Threshold
  <2> QED
    BY <2>1, <2>2, <2>3, SearchStays
<1>7. CASE Cleanup
  BY <1>7 DEF Cleanup, SearchInv
<1>8. CASE UNCHANGED vars
  <2>1. /\ UNCHANGED setup /\ UNCHANGED <<pc, queue, event>>
        /\ UNCHANGED <<query, heap, slots, candidates, fresh, overlaps>>
    BY <1>8 DEF vars, lookup
  <2>2. CASE pc = "idle"
    BY <2>1, <2>2 DEF SearchInv
  <2>3. CASE pc # "idle"
    <3>1. Open' = Open
      BY <2>1, QueryStays DEF Open
    <3>2. IsOver' <=> IsOver
      BY <2>1 DEF IsOver, Threshold
    <3>3. pc' = "done" => IsOver'
      BY <2>1, <2>3, <3>2 DEF SearchInv
    <3> QED
      BY <2>1, <2>3, <3>1, <3>3, SearchStays
  <2> QED
    BY <2>2, <2>3
<1> QED
  BY <1>2, <1>3, <1>4, <1>5, <1>6, <1>7, <1>8 DEF Next

THEOREM SearchInvariance == Spec => [](IInv /\ StateInv /\ SearchInv)
<1>1. Init => IInv /\ StateInv /\ SearchInv
  BY InitInv, InitState, InitSearch
<1>2. IInv /\ StateInv /\ SearchInv /\ [Next]_vars => IInv' /\ StateInv' /\ SearchInv'
  BY NextInv, NextState, NextSearch
<1> QED
  BY <1>1, <1>2, PTL DEF Spec

-------------------------------------------------------------------------------
(* What follows from it. *)

\* What a filter or an early end of the columns keeps back is never a match before the
\* last one read: in every mode and grouping, with every sketch and every depth, the
\* overlap that verification resumes from is that of the tokens up to there.
THEOREM PartialOverlaps == Spec => []PartialOverlapIsExact
<1>1. IInv /\ StateInv /\ SearchInv => PartialOverlapIsExact
  <2> SUFFICES ASSUME SearchInv, pc = "verify", NEW id \in fresh
               PROVE  overlaps[id].overlap =
                        Cardinality({m \in Matches(id) :
                           m.row <= overlaps[id].pR /\ m.col <= overlaps[id].pS})
    BY DEF PartialOverlapIsExact
  <2>1. PICK m \in Matches(id) : /\ overlaps[id].overlap = Cardinality(Prefix(id, m))
                                 /\ overlaps[id].pR = m.row /\ overlaps[id].pS = m.col
    BY DEF SearchInv, Resumes
  <2> QED
    BY <2>1 DEF Prefix
<1> QED
  BY <1>1, SearchInvariance, PTL

\* A record that no read has found yet is covered by an event, unless the threshold
\* already bars it.
LEMMA Uncovered ==
  ASSUME StateInv, SearchInv, Sound, pc \in {"pop", "done"}, NEW id \in Ids \ candidates,
         data[query] \cap data[id] # {}
  PROVE  \/ AtMost(TrueSim(id), Threshold)
         \/ \E e \in queue : e.ub \in Fraction /\ AtMost(TrueSim(id), e.ub)
<1>1. SetupInv /\ query \in Ids /\ Open = queue /\ \A e \in queue : IsEvent(e)
  BY DEF StateInv, Open
<1>2. Threshold \in Fraction
  BY ThresholdFacts
<1>3. Home(id) \in 0 .. LastGroup
  BY <1>1, GroupFacts
<1>4. PICK e \in queue : Reaches(e, Home(id))
  BY <1>1, <1>3 DEF SearchInv
<1>5. e.grp = Home(id) => NotPassed(e, id)
  BY <1>1 DEF SearchInv, RecordsInv
<1>6. AtMost(TrueSim(id), Threshold) \/ (e.ub \in Fraction /\ AtMost(TrueSim(id), e.ub))
  BY <1>1, <1>2, <1>4, <1>5, EventCovers
<1> QED
  BY <1>6

LEMMA SearchCovers ==
  ASSUME IInv, StateInv, SearchInv, Sound
  PROVE  UnseenIsCovered
<1> SUFFICES ASSUME pc = "pop", NEW id \in Ids \ candidates, Less(Threshold, TrueSim(id))
             PROVE  \E e \in queue : AtMost(TrueSim(id), e.ub)
  BY DEF UnseenIsCovered
<1>1. SetupInv /\ query \in Ids
  BY DEF StateInv
<1>2. Threshold \in Fraction /\ 0 <= Threshold.num
  BY ThresholdFacts
<1>3. /\ TrueSim(id) \in Fraction /\ TrueSim(id).num \in Nat
      /\ TrueSim(id).num = 0 <=> data[query] \cap data[id] = {}
  BY <1>1, TrueSimFacts
<1>4. ~AtMost(TrueSim(id), Threshold)
  BY <1>2, <1>3, AtMostTotal
<1>5. data[query] \cap data[id] # {}
  <2>1. ASSUME TrueSim(id).num = 0
        PROVE  FALSE
    <3>1. AtMost(TrueSim(id), Zero) /\ AtMost(Zero, Threshold)
      BY <1>2, <1>3, <2>1, AtMostZero
    <3>2. AtMost(TrueSim(id), Threshold)
      BY <1>2, <1>3, <3>1, ZeroIsFraction, AtMostTransitive
    <3> QED
      BY <1>4, <3>2
  <2> QED
    BY <1>3, <2>1
<1> QED
  BY <1>4, <1>5, Uncovered

\* Where the mode FULL reads enough columns, the early end overlooks no record.
THEOREM EarlyEndIsRight == Spec => [](Sound => UnseenIsCovered)
<1>1. IInv /\ StateInv /\ SearchInv => (Sound => UnseenIsCovered)
  BY SearchCovers
<1> QED
  BY <1>1, SearchInvariance, PTL

LEMMA SearchIsExact ==
  ASSUME IInv, StateInv, SearchInv, Sound
  PROVE  ResultIsExact
<1> SUFFICES ASSUME pc = "done"
             PROVE  /\ \A e \in heap : e.sim = TrueSim(e.id)
                    /\ \A id \in Ids :
                         (\A e \in heap : e.id # id)
                           => /\ AtMost(TrueSim(id), Threshold)
                              /\ Cardinality(heap) < k => TrueSim(id).num = 0
  BY DEF ResultIsExact
<1>1. /\ SetupInv /\ query \in Ids /\ candidates \subseteq Ids /\ fresh = {}
      /\ slots < k => Cardinality(Sharing(query)) <= slots
  BY DEF StateInv
<1>2. /\ IsOver /\ IsHeap(heap, slots) /\ candidates \subseteq Sharing(query)
      /\ \A e \in heap : \E id \in candidates : e = Entry(id)
      /\ \A id \in candidates : Entry(id) \in heap \/ Settled(heap, slots, TrueSim(id))
  BY <1>1 DEF SearchInv, HeapInv
<1>3. /\ slots \in Nat \ {0} /\ k \in Nat
      /\ Threshold \in Fraction /\ 0 <= Threshold.num
      /\ Cardinality(heap) < slots => Threshold = Zero
  <2>1. /\ slots \in Nat \ {0} /\ Threshold \in Fraction /\ 0 <= Threshold.num
    BY ThresholdFacts
  <2>2. Cardinality(heap) < slots => Threshold = Zero
    BY <1>2, <2>1, ThresholdIsLeast DEF Threshold
  <2> QED
    BY <1>1, <2>1, <2>2 DEF SetupInv
<1>4. \A e \in heap : e.id \in candidates /\ e = Entry(e.id) /\ e.sim = TrueSim(e.id)
  BY <1>2 DEF Entry
<1>5. ASSUME NEW id \in Ids, \A e \in heap : e.id # id
      PROVE  AtMost(TrueSim(id), Threshold)
  <2>1. /\ TrueSim(id) \in Fraction /\ TrueSim(id).num \in Nat
        /\ TrueSim(id).num = 0 <=> data[query] \cap data[id] = {}
    BY <1>1, TrueSimFacts
  <2>2. CASE id \in candidates
    <3>1. Entry(id) \notin heap
      BY <1>5 DEF Entry
    <3> QED
      BY <1>2, <2>2, <3>1 DEF Settled, Threshold
  <2>3. CASE data[query] \cap data[id] = {}
    <3>1. AtMost(TrueSim(id), Zero) /\ AtMost(Zero, Threshold)
      BY <1>3, <2>1, <2>3, AtMostZero
    <3> QED
      BY <1>3, <2>1, <3>1, ZeroIsFraction, AtMostTransitive
  <2>4. CASE id \notin candidates /\ data[query] \cap data[id] # {}
    <3>1. \/ AtMost(TrueSim(id), Threshold)
          \/ \E e \in queue : e.ub \in Fraction /\ AtMost(TrueSim(id), e.ub)
      BY <2>4, Uncovered
    <3>2. ASSUME NEW e \in queue, e.ub \in Fraction, AtMost(TrueSim(id), e.ub)
          PROVE  AtMost(TrueSim(id), Threshold)
      <4>1. AtMost(e.ub, Threshold)
        BY <1>2 DEF IsOver
      <4> QED
        BY <1>3, <2>1, <3>2, <4>1, AtMostTransitive
    <3> QED
      BY <3>1, <3>2
  <2> QED
    BY <2>2, <2>3, <2>4
<1>6. ASSUME NEW id \in Ids, \A e \in heap : e.id # id, Cardinality(heap) < k
      PROVE  TrueSim(id).num = 0
  <2>1. /\ TrueSim(id) \in Fraction /\ TrueSim(id).num \in Nat
        /\ TrueSim(id).num = 0 <=> data[query] \cap data[id] = {}
    BY <1>1, TrueSimFacts
  <2>2. Cardinality(heap) \in Nat /\ Cardinality(heap) <= slots /\ IsFiniteSet(heap)
    BY <1>2, FS_CardinalityType DEF IsHeap
  <2>3. CASE Cardinality(heap) < slots
    <3>1. AtMost(TrueSim(id), Zero)
      BY <1>3, <1>5, <1>6, <2>3
    <3>2. TrueSim(id).num <= 0
      BY <2>1, <3>1, AtMostZero
    <3> QED
      BY <2>1, <3>2
  <2>4. CASE ~(Cardinality(heap) < slots)
    <3>1. slots < k /\ Cardinality(Sharing(query)) <= slots /\ Cardinality(heap) = slots
      BY <1>1, <1>3, <1>6, <2>2, <2>4
    <3>2. IsFiniteSet(Sharing(query))
      <4>1. IsFiniteSet(Ids)
        BY <1>1 DEF SetupInv, IsDataset, Ids
      <4> QED
        BY <4>1, FS_Subset DEF Sharing
    <3> DEFINE found == {e.id : e \in heap}
               idOf == [e \in heap |-> e.id]
    <3>3. idOf \in Bijection(heap, found)
      <4>1. idOf \in Surjection(heap, found)
        BY DEF Surjection
      <4>2. idOf \in Injection(heap, found)
        BY <1>4 DEF Injection, IsInjective
      <4> QED
        BY <4>1, <4>2 DEF Bijection
    <3>4. IsFiniteSet(found) /\ Cardinality(found) = slots
      <4>1. ExistsBijection(heap, found)
        BY <3>3 DEF ExistsBijection
      <4> HIDE DEF found, idOf
      <4> QED
        BY <2>2, <3>1, <4>1, FS_Bijection
    <3>5. found \subseteq Sharing(query) /\ id \notin found
      BY <1>2, <1>4, <1>6
    <3> HIDE DEF found
    <3>6. ASSUME id \in Sharing(query)
          PROVE  FALSE
      <4>1. Cardinality(found \cup {id}) = Cardinality(found) + 1
        BY <3>4, <3>5, FS_AddElement
      <4>2. found \cup {id} \subseteq Sharing(query)
        BY <3>5, <3>6
      <4>3. Cardinality(found \cup {id}) <= Cardinality(Sharing(query))
        BY <3>2, <4>2, FS_Subset
      <4>4. Cardinality(Sharing(query)) \in Nat
        BY <3>2, FS_CardinalityType
      <4> QED
        BY <1>3, <3>1, <3>4, <4>1, <4>3, <4>4
    <3> QED
      BY <2>1, <3>6 DEF Sharing
  <2> QED
    BY <2>3, <2>4
<1> QED
  BY <1>4, <1>5, <1>6

\* The join is exact: for every data set, number of neighbours, grouping, depth of the
\* suffix filter and sketch, a lookup of the modes FILTER and TOPK_BASELINE, and of the
\* mode FULL on groupings that suit it, ends with the nearest neighbours.
THEOREM ResultsAreExact == Spec => [](Sound => ResultIsExact)
<1>1. IInv /\ StateInv /\ SearchInv => (Sound => ResultIsExact)
  BY SearchIsExact
<1> QED
  BY <1>1, SearchInvariance, PTL
===============================================================================
