-------------------------- MODULE GroupPrecomputeProofs --------------------------
(***************************************************************************)
(* Proofs about GroupPrecompute: after any kills, and after a single loss  *)
(* of power, the files that a run left are what the next run takes them    *)
(* for.                                                                    *)
(*                                                                         *)
(* The properties are not inductive.  IInv adds how the files relate to    *)
(* what the run holds in memory (RunInv), what may be loaded of a level in  *)
(* progress (ProgressInv), and what is durable while nothing has gone wrong *)
(* yet (DurableInv): a loss of power that is the only fault meets the disk  *)
(* DurableInv describes.  Of behaviours with a loss of power and another    *)
(* fault only the types are kept (Sane), as the run precompute_power_loss   *)
(* shows.                                                                   *)
(***************************************************************************)
EXTENDS GroupPrecompute, FiniteSetTheorems, SequenceTheorems, TLAPS

-------------------------------------------------------------------------------
(* Numbers. *)
LEMMA Division ==
  ASSUME NEW n \in Int, NEW d \in Nat \ {0}
  PROVE  /\ n \div d \in Int
         /\ d * (n \div d) <= n
         /\ n < d * (n \div d) + d
OBVIOUS

\* The quotient is the one number with that remainder.
LEMMA QuotientIsUnique ==
  ASSUME NEW n \in Int, NEW d \in Nat \ {0}, NEW q \in Int, d * q <= n, n < d * q + d
  PROVE  n \div d = q
<1> DEFINE p == n \div d
<1>1. p \in Int /\ d * p <= n /\ n < d * p + d
  BY Division
<1> HIDE DEF p
<1>2. ASSUME p < q
      PROVE  FALSE
  <2>1. p + 1 <= q
    BY <1>1, <1>2
  <2>2. d * (p + 1) <= d * q
    BY <1>1, <2>1
  <2>3. d * (p + 1) = d * p + d
    BY <1>1
  <2> DEFINE a == d * p
             b == d * q
  <2>4. a \in Int /\ b \in Int
    BY <1>1
  <2> HIDE DEF a, b
  <2>5. a + d <= b /\ b <= n /\ n < a + d
    BY <1>1, <2>2, <2>3 DEF a, b
  <2> QED
    BY <2>4, <2>5
<1>3. ASSUME q < p
      PROVE  FALSE
  <2>1. q + 1 <= p
    BY <1>1, <1>3
  <2>2. d * (q + 1) <= d * p
    BY <1>1, <2>1
  <2>3. d * (q + 1) = d * q + d
    BY <1>1
  <2> DEFINE a == d * p
             b == d * q
  <2>4. a \in Int /\ b \in Int
    BY <1>1
  <2> HIDE DEF a, b
  <2>5. b + d <= a /\ a <= n /\ n < b + d
    BY <1>1, <2>2, <2>3 DEF a, b
  <2> QED
    BY <2>4, <2>5
<1> QED
  BY <1>1, <1>2, <1>3 DEF p

\* A set of naturals has a least element.
LEMMA LeastNatural ==
  ASSUME NEW T, T \subseteq Nat, T # {}
  PROVE  \E x \in T : \A y \in T : x <= y
<1>1. PICK n \in T : TRUE
  OBVIOUS
<1> DEFINE R == StrictSubsetOrdering(0 .. n)
           F == {0 .. x : x \in {y \in T : y <= n}}
<1>2. IsWellFoundedOn(R, FiniteSubsetsOf(0 .. n))
  BY FS_StrictSubsetOrderingWellFounded
<1>3. F \subseteq FiniteSubsetsOf(0 .. n)
  <2>1. IsFiniteSet(0 .. n)
    BY <1>1, FS_Interval
  <2>2. F \subseteq SUBSET (0 .. n)
    BY <1>1
  <2> QED
    BY <2>1, <2>2, FS_FiniteSubsetsOfFinite
<1>4. 0 .. n \in F
  BY <1>1
<1>5. PICK S \in F : \A U \in F : <<U, S>> \notin R
  <2> HIDE DEF F, R
  <2> QED
    BY <1>2, <1>3, <1>4, WFMin
<1>6. PICK x \in T : x <= n /\ S = 0 .. x
  BY <1>5
<1>7. ASSUME NEW y \in T, y < x
      PROVE  FALSE
  <2>1. x \in Nat /\ y \in Nat /\ n \in Nat
    BY <1>1, <1>6
  <2>2. 0 .. y \in F
    BY <1>6, <1>7, <2>1
  <2>3. 0 .. y \subseteq S /\ 0 .. y # S /\ 0 .. y \in SUBSET (0 .. n) /\ S \in SUBSET (0 .. n)
    <3>1. x \in 0 .. x /\ x \notin 0 .. y
      BY <1>7, <2>1
    <3> QED
      BY <1>6, <1>7, <2>1, <3>1
  <2>4. <<0 .. y, S>> \in R
    BY <2>3 DEF StrictSubsetOrdering
  <2> QED
    BY <1>5, <2>2, <2>4
<1> QED
  BY <1>6, <1>7

-------------------------------------------------------------------------------
(* The plan of a data set. *)
LEMMA PartitionIsComplete ==
  ASSUME NEW n \in Nat
  PROVE  /\ InitialPartition(n) \in Seq((SUBSET (0 .. (n - 1))) \ {{}})
         /\ Distinct(InitialPartition(n))
         /\ n \notin 1 .. (InitialGroups - 1) => Members(InitialPartition(n)) = 0 .. (n - 1)
<1> DEFINE size == n \div InitialGroups
           last == CeilDiv(n, size)
           chunk(i) == {id \in 0 .. (n - 1) : id \div size = i - 1}
<1>1. /\ InitialGroups \in Nat \ {0}
      /\ size \in Int /\ InitialGroups * size <= n /\ n < InitialGroups * size + InitialGroups
  <2>1. InitialGroups \in Nat \ {0}
    BY PrecomputeAssumption
  <2> QED
    BY <2>1, Division
<1>2. size \in Nat
  <2>1. ASSUME size < 0
        PROVE  FALSE
    <3>1. size + 1 <= 0
      BY <1>1, <2>1
    <3>2. InitialGroups * (size + 1) <= 0
      BY <1>1, <3>1
    <3>3. InitialGroups * (size + 1) = InitialGroups * size + InitialGroups
      BY <1>1
    <3> HIDE DEF size
    <3> QED
      BY <1>1, <3>2, <3>3
  <2> QED
    BY <1>1, <2>1
<1>3. CASE size = 0
  <2>1. InitialPartition(n) = <<>>
    BY <1>3 DEF InitialPartition
  <2>2. n < InitialGroups
    <3>1. InitialGroups * size = 0
      BY <1>1, <1>3
    <3> QED
      BY <1>1, <3>1
  <2>3. n \notin 1 .. (InitialGroups - 1) => n = 0
    BY <1>1, <2>2
  <2>4. Members(<<>>) = {} /\ Distinct(<<>>)
    BY DEF Members, Distinct
  <2>5. <<>> \in Seq((SUBSET (0 .. (n - 1))) \ {{}})
    OBVIOUS
  <2>6. n = 0 => 0 .. (n - 1) = {}
    OBVIOUS
  <2> QED
    BY <2>1, <2>3, <2>4, <2>5, <2>6
<1>4. CASE size # 0
  <2>1. size \in Nat \ {0}
    BY <1>2, <1>4
  <2>2. InitialPartition(n) = [i \in 1 .. last |-> chunk(i)]
    BY <1>4 DEF InitialPartition
  <2>3. last \in Int /\ size * last <= n + size - 1 /\ n + size - 1 < size * last + size
    <3>1. n + size - 1 \in Int
      BY <2>1
    <3> HIDE DEF size
    <3> QED
      BY <2>1, <3>1, Division DEF CeilDiv
  <2>4. last \in Nat
    <3> HIDE DEF size, last
    <3>1. ASSUME last < 0
          PROVE  FALSE
      <4>1. last + 1 <= 0
        BY <2>3, <3>1
      <4>2. size * (last + 1) <= 0
        BY <2>1, <2>3, <4>1
      <4>3. size * (last + 1) = size * last + size
        BY <2>1, <2>3
      <4> QED
        BY <2>1, <2>3, <4>2, <4>3
    <3> QED
      BY <2>3, <3>1
  <2>5. ASSUME NEW i \in 1 .. last
        PROVE  chunk(i) # {} /\ chunk(i) \subseteq 0 .. (n - 1)
    <3> DEFINE id == (i - 1) * size
    <3>1. i \in Int /\ i >= 1 /\ i <= last
      BY <2>4
    <3>2. id \in Int /\ 0 <= id /\ size * (i - 1) = id /\ size * i = id + size
      BY <2>1, <3>1
    <3>3. size * i <= size * last
      BY <2>1, <2>4, <3>1
    <3>4. id \in 0 .. (n - 1)
      <4> DEFINE a == size * i
                 b == size * last
      <4>1. a \in Int /\ b \in Int
        BY <2>1, <2>4, <3>1
      <4> HIDE DEF id, size, last, a, b
      <4>2. a = id + size /\ a <= b /\ b <= n + size - 1
        BY <2>3, <3>2, <3>3 DEF a, b
      <4> QED
        BY <2>1, <3>2, <4>1, <4>2
    <3>5. id \div size = i - 1
      <4>1. size * (i - 1) <= id /\ id < size * (i - 1) + size /\ i - 1 \in Int
        BY <2>1, <3>1, <3>2
      <4> HIDE DEF size, id
      <4> QED
        BY <2>1, <3>2, <4>1, QuotientIsUnique
    <3> QED
      BY <3>4, <3>5
  <2>6. ASSUME NEW id \in 0 .. (n - 1)
        PROVE  \E i \in 1 .. last : id \in chunk(i)
    <3> DEFINE q == id \div size
    <3>1. q \in Int /\ size * q <= id /\ id < size * q + size
      <4> HIDE DEF size
      <4> QED
        BY <2>1, Division
    <3>2. 0 <= q
      <4> HIDE DEF q, size
      <4>1. ASSUME q < 0
            PROVE  FALSE
        <5>1. q + 1 <= 0
          BY <3>1, <4>1
        <5>2. size * (q + 1) <= 0
          BY <2>1, <3>1, <5>1
        <5>3. size * (q + 1) = size * q + size
          BY <2>1, <3>1
        <5> QED
          BY <2>1, <3>1, <5>2, <5>3
      <4> QED
        BY <3>1, <4>1
    <3>3. q < last
      <4> HIDE DEF q, size, last
      <4>1. ASSUME last <= q
            PROVE  FALSE
        <5> DEFINE a == size * q
                   b == size * last
        <5>1. b <= a /\ a \in Int /\ b \in Int
          BY <2>1, <2>4, <3>1, <4>1
        <5> HIDE DEF a, b
        <5>2. a <= id /\ n + size - 1 < b + size
          BY <2>3, <3>1 DEF a, b
        <5> QED
          BY <2>1, <5>1, <5>2
      <4> QED
        BY <2>4, <3>1, <4>1
    <3>4. q + 1 \in 1 .. last /\ (q + 1) - 1 = q
      <4> HIDE DEF q, last
      <4> QED
        BY <2>4, <3>1, <3>2, <3>3
    <3>5. id \in chunk(q + 1)
      BY <3>4
    <3> QED
      BY <3>4, <3>5
  <2> DEFINE p == [i \in 1 .. last |-> chunk(i)]
  <2>7. p \in Seq((SUBSET (0 .. (n - 1))) \ {{}})
    <3> HIDE DEF last, chunk
    <3> QED
      BY <2>4, <2>5
  <2>8. Distinct(p)
    <3> SUFFICES ASSUME NEW i \in 1 .. last, NEW j \in 1 .. last, i # j
                 PROVE  chunk(i) \cap chunk(j) = {}
      BY DEF Distinct
    <3>1. i \in Int /\ j \in Int
      BY <2>4
    <3> QED
      BY <3>1
  <2>9. Members(p) = 0 .. (n - 1)
    <3>1. DOMAIN p = 1 .. last /\ \A i \in 1 .. last : p[i] = chunk(i)
      OBVIOUS
    <3> HIDE DEF last, chunk, p
    <3> QED
      BY <2>5, <2>6, <3>1 DEF Members
  <2> HIDE DEF p
  <2>10. InitialPartition(n) = p
    BY <2>2 DEF p
  <2> QED
    BY <2>7, <2>8, <2>9, <2>10
<1> QED
  BY <1>3, <1>4

LEMMA LevelsAreCounted ==
  ASSUME NEW n \in Nat
  PROVE  LevelCount(n) \in Nat
<1> DEFINE short == {l \in 0 .. TargetGroups(n) :
                       Len(InitialPartition(n)) * 2 ^ l < TargetGroups(n)}
<1>1. TargetGroups(n) \in Int
  <2>1. RecordsPerGroup \in Nat \ {0} /\ n + RecordsPerGroup - 1 \in Int
    BY PrecomputeAssumption
  <2> QED
    BY <2>1, Division DEF TargetGroups, CeilDiv
<1>2. IsFiniteSet(0 .. TargetGroups(n))
  BY <1>1, FS_Interval
<1>3. IsFiniteSet(short)
  BY <1>2, FS_Subset
<1>4. Cardinality(short) \in Nat
  BY <1>3, FS_CardinalityType
<1> QED
  BY <1>4 DEF LevelCount

-------------------------------------------------------------------------------
(* Sequences of groups. *)
LEMMA ConcatFacts ==
  ASSUME NEW g \in Groups, NEW h \in Groups
  PROVE  /\ g \o h \in Groups
         /\ Len(g \o h) = Len(g) + Len(h)
         /\ \A i \in 1 .. Len(g) : (g \o h)[i] = g[i]
         /\ \A i \in DOMAIN (g \o h) :
              \/ i \in DOMAIN g /\ (g \o h)[i] = g[i]
              \/ i - Len(g) \in DOMAIN h /\ (g \o h)[i] = h[i - Len(g)]
         /\ Members(g \o h) = Members(g) \cup Members(h)
         /\ Distinct(g) /\ Distinct(h) /\ Members(g) \cap Members(h) = {} => Distinct(g \o h)
<1> DEFINE S == (SUBSET Records) \ {{}}
           c == g \o h
<1>1. g \in Seq(S) /\ h \in Seq(S)
  BY DEF Groups
<1>2. /\ c \in Seq(S)
      /\ Len(c) = Len(g) + Len(h)
      /\ \A i \in 1 .. Len(g) + Len(h) : c[i] = IF i <= Len(g) THEN g[i] ELSE h[i - Len(g)]
  <2> HIDE DEF S
  <2> QED
    BY <1>1, ConcatProperties
<1>3. /\ Len(g) \in Nat /\ Len(h) \in Nat
      /\ DOMAIN g = 1 .. Len(g) /\ DOMAIN h = 1 .. Len(h) /\ DOMAIN c = 1 .. Len(c)
  BY <1>1, <1>2
<1>4. \A i \in 1 .. Len(g) : c[i] = g[i]
  BY <1>2, <1>3
<1>5. ASSUME NEW i \in DOMAIN c
      PROVE  \/ i \in DOMAIN g /\ c[i] = g[i]
             \/ i - Len(g) \in DOMAIN h /\ c[i] = h[i - Len(g)]
  BY <1>2, <1>3
<1>6. ASSUME NEW i \in DOMAIN h
      PROVE  i + Len(g) \in DOMAIN c /\ c[i + Len(g)] = h[i]
  <2>1. i + Len(g) \in 1 .. Len(g) + Len(h) /\ ~(i + Len(g) <= Len(g)) /\ (i + Len(g)) - Len(g) = i
    BY <1>3
  <2> QED
    BY <1>2, <1>3, <2>1
<1>7. \A i \in DOMAIN g : i \in DOMAIN c /\ c[i] = g[i]
  BY <1>2, <1>3, <1>4
<1> HIDE DEF c
<1>8. Members(c) = Members(g) \cup Members(h)
  BY <1>5, <1>6, <1>7 DEF Members
<1>9. ASSUME Distinct(g), Distinct(h), Members(g) \cap Members(h) = {},
             NEW i \in DOMAIN c, NEW j \in DOMAIN c, i # j
      PROVE  c[i] \cap c[j] = {}
  <2>1. \A x \in DOMAIN g, y \in DOMAIN h : g[x] \cap h[y] = {}
    BY <1>9 DEF Members
  <2>2. CASE i \in DOMAIN g /\ c[i] = g[i] /\ j \in DOMAIN g /\ c[j] = g[j]
    BY <1>9, <2>2 DEF Distinct
  <2>3. CASE i \in DOMAIN g /\ c[i] = g[i] /\ j - Len(g) \in DOMAIN h /\ c[j] = h[j - Len(g)]
    BY <2>1, <2>3
  <2>4. CASE i - Len(g) \in DOMAIN h /\ c[i] = h[i - Len(g)] /\ j \in DOMAIN g /\ c[j] = g[j]
    BY <2>1, <2>4
  <2>5. CASE /\ i - Len(g) \in DOMAIN h /\ c[i] = h[i - Len(g)]
             /\ j - Len(g) \in DOMAIN h /\ c[j] = h[j - Len(g)]
    <3>1. i \in Int /\ j \in Int
      BY <1>2, <1>3
    <3>2. i - Len(g) # j - Len(g)
      BY <1>3, <1>9, <3>1
    <3> QED
      BY <1>9, <2>5, <3>2 DEF Distinct
  <2> QED
    BY <1>5, <2>2, <2>3, <2>4, <2>5
<1>10. c \in Groups
  BY <1>2 DEF Groups
<1> QED
  BY <1>2, <1>4, <1>5, <1>8, <1>9, <1>10 DEF Distinct, c

LEMMA PrefixFacts ==
  ASSUME NEW g \in Groups, NEW n \in 0 .. Len(g)
  PROVE  /\ SubSeq(g, 1, n) \in Groups
         /\ Len(SubSeq(g, 1, n)) = n
         /\ DOMAIN SubSeq(g, 1, n) = 1 .. n
         /\ \A i \in 1 .. n : i \in DOMAIN g /\ SubSeq(g, 1, n)[i] = g[i]
         /\ Distinct(g) => Distinct(SubSeq(g, 1, n))
         /\ Members(SubSeq(g, 1, n)) = UNION {g[i] : i \in 1 .. n}
         /\ Members(SubSeq(g, 1, n)) \subseteq Members(g)
         /\ n = Len(g) => SubSeq(g, 1, n) = g
<1> DEFINE S == (SUBSET Records) \ {{}}
           p == SubSeq(g, 1, n)
<1>1. g \in Seq(S) /\ Len(g) \in Nat /\ DOMAIN g = 1 .. Len(g) /\ \A i \in 1 .. Len(g) : g[i] \in S
  BY DEF Groups
<1>2. n \in Nat /\ n <= Len(g) /\ \A i \in 1 .. n : i \in 1 .. Len(g) /\ g[i] \in S
  BY <1>1
<1>3. /\ p \in Seq(S)
      /\ Len(p) = IF 1 <= n THEN n - 1 + 1 ELSE 0
      /\ \A i \in 1 .. n - 1 + 1 : p[i] = g[1 + i - 1]
  <2> HIDE DEF S
  <2>1. 1 \in Int /\ n \in Int
    BY <1>2
  <2> QED
    BY <1>2, <2>1, SubSeqProperties
<1>4. Len(p) = n /\ DOMAIN p = 1 .. n
  BY <1>2, <1>3
<1>5. \A i \in 1 .. n : i \in DOMAIN g /\ p[i] = g[i]
  BY <1>1, <1>2, <1>3
<1>6. Distinct(g) => Distinct(p)
  BY <1>4, <1>5 DEF Distinct
<1>7. Members(p) = UNION {g[i] : i \in 1 .. n} /\ Members(p) \subseteq Members(g)
  BY <1>4, <1>5 DEF Members
<1>8. n = Len(g) => p = g
  BY <1>1, SubSeqFull
<1>9. p \in Groups
  BY <1>3 DEF Groups
<1> QED
  BY <1>4, <1>5, <1>6, <1>7, <1>8, <1>9

\* Groups that are appended leave a prefix as it is.
LEMMA PrefixStays ==
  ASSUME NEW g \in Groups, NEW h \in Groups, NEW n \in 0 .. Len(g)
  PROVE  SubSeq(g \o h, 1, n) = SubSeq(g, 1, n)
<1>1. /\ g \o h \in Groups /\ Len(g \o h) = Len(g) + Len(h)
      /\ \A i \in 1 .. Len(g) : (g \o h)[i] = g[i]
  BY ConcatFacts
<1>2. Len(g) \in Nat /\ Len(h) \in Nat
  BY DEF Groups
<1>3. n \in 0 .. Len(g \o h)
  BY <1>1, <1>2
<1>4. /\ SubSeq(g, 1, n) \in Groups
      /\ Len(SubSeq(g, 1, n)) = n
      /\ \A i \in 1 .. n : SubSeq(g, 1, n)[i] = g[i]
  BY PrefixFacts
<1>5. /\ SubSeq(g \o h, 1, n) \in Groups
      /\ Len(SubSeq(g \o h, 1, n)) = n
      /\ \A i \in 1 .. n : SubSeq(g \o h, 1, n)[i] = (g \o h)[i]
  BY <1>1, <1>3, PrefixFacts
<1>6. \A i \in 1 .. n : SubSeq(g \o h, 1, n)[i] = SubSeq(g, 1, n)[i]
  BY <1>1, <1>2, <1>4, <1>5
<1> DEFINE S == (SUBSET Records) \ {{}}
<1>7. SubSeq(g, 1, n) \in Seq(S) /\ SubSeq(g \o h, 1, n) \in Seq(S)
  BY <1>4, <1>5 DEF Groups
<1> HIDE DEF S
<1> QED
  BY <1>4, <1>5, <1>6, <1>7, SeqEqual

LEMMA PrefixOfPrefix ==
  ASSUME NEW g \in Groups, NEW m \in 0 .. Len(g), NEW n \in 0 .. m
  PROVE  SubSeq(SubSeq(g, 1, m), 1, n) = SubSeq(g, 1, n)
<1>1. /\ SubSeq(g, 1, m) \in Groups /\ Len(SubSeq(g, 1, m)) = m
      /\ \A i \in 1 .. m : SubSeq(g, 1, m)[i] = g[i]
  BY PrefixFacts
<1>2. Len(g) \in Nat
  BY DEF Groups
<1>3. n \in 0 .. Len(g) /\ n \in 0 .. Len(SubSeq(g, 1, m)) /\ m \in Nat
  BY <1>1, <1>2
<1>4. /\ SubSeq(g, 1, n) \in Groups
      /\ Len(SubSeq(g, 1, n)) = n
      /\ \A i \in 1 .. n : SubSeq(g, 1, n)[i] = g[i]
  BY <1>3, PrefixFacts
<1> DEFINE p == SubSeq(g, 1, m)
<1>5. /\ SubSeq(p, 1, n) \in Groups
      /\ Len(SubSeq(p, 1, n)) = n
      /\ \A i \in 1 .. n : SubSeq(p, 1, n)[i] = p[i]
  BY <1>1, <1>3, PrefixFacts
<1>6. \A i \in 1 .. n : SubSeq(p, 1, n)[i] = SubSeq(g, 1, n)[i]
  BY <1>1, <1>3, <1>4, <1>5
<1> DEFINE S == (SUBSET Records) \ {{}}
<1>7. SubSeq(g, 1, n) \in Seq(S) /\ SubSeq(p, 1, n) \in Seq(S)
  BY <1>4, <1>5 DEF Groups
<1> HIDE DEF S, p
<1>8. SubSeq(p, 1, n) = SubSeq(g, 1, n)
  BY <1>4, <1>5, <1>6, <1>7, SeqEqual
<1> QED
  BY <1>8 DEF p

LEMMA SplitFacts ==
  ASSUME NEW group \in (SUBSET Records) \ {{}}, NEW split \in Splits(group)
  PROVE  /\ split \in Groups
         /\ Distinct(split)
         /\ Members(split) = group
<1>1. CASE split = <<group>>
  <2>1. Len(split) = 1 /\ DOMAIN split = {1} /\ split[1] = group
    BY <1>1
  <2>2. split \in Groups
    BY <1>1 DEF Groups
  <2> QED
    BY <2>1, <2>2 DEF Distinct, Members
<1>2. ASSUME NEW first \in (SUBSET group) \ {{}, group}, split = <<first, group \ first>>
      PROVE  /\ split \in Groups
             /\ Distinct(split)
             /\ Members(split) = group
  <2>1. DOMAIN split = {1, 2} /\ split[1] = first /\ split[2] = group \ first
    BY <1>2
  <2>2. first \in (SUBSET Records) \ {{}} /\ group \ first \in (SUBSET Records) \ {{}}
    OBVIOUS
  <2>3. split \in Groups
    BY <1>2, <2>2 DEF Groups
  <2>4. Members(split) = first \cup (group \ first)
    BY <2>1 DEF Members
  <2> QED
    BY <2>1, <2>3, <2>4 DEF Distinct
<1> QED
  BY <1>1, <1>2 DEF Splits

LEMMA CutOffFacts ==
  ASSUME NEW split \in Groups, NEW lines \in CutOff(split)
  PROVE  lines \in Groups
<1>1. Len(split) \in Nat
  BY DEF Groups
<1>2. ASSUME NEW n \in 0 .. Len(split)
      PROVE  SubSeq(split, 1, n) \in Groups
  BY PrefixFacts
<1>3. ASSUME NEW n \in 0 .. (Len(split) - 1), NEW rest \in (SUBSET split[n + 1]) \ {{}}
      PROVE  Append(SubSeq(split, 1, n), rest) \in Groups
  <2>1. n \in 0 .. Len(split) /\ n + 1 \in 1 .. Len(split)
    BY <1>1
  <2>2. SubSeq(split, 1, n) \in Groups
    BY <1>2, <2>1
  <2>3. split[n + 1] \in (SUBSET Records) \ {{}}
    BY <2>1 DEF Groups
  <2>4. rest \in (SUBSET Records) \ {{}}
    BY <2>3
  <2> QED
    BY <2>2, <2>4, AppendProperties DEF Groups
<1>4. CASE lines \in {SubSeq(split, 1, n) : n \in 0 .. Len(split)}
  BY <1>2, <1>4
<1> DEFINE torn(n) == {Append(SubSeq(split, 1, n), rest) : rest \in (SUBSET split[n + 1]) \ {{}}}
<1>5. CASE lines \in UNION {torn(n) : n \in 0 .. (Len(split) - 1)}
  <2>1. PICK n \in 0 .. (Len(split) - 1) : lines \in torn(n)
    BY <1>5
  <2>2. PICK rest \in (SUBSET split[n + 1]) \ {{}} : lines = Append(SubSeq(split, 1, n), rest)
    BY <2>1
  <2> QED
    BY <1>3, <2>2
<1>6. lines \in {SubSeq(split, 1, n) : n \in 0 .. Len(split)}
               \cup UNION {torn(n) : n \in 0 .. (Len(split) - 1)}
  BY DEF CutOff
<1> QED
  BY <1>4, <1>5, <1>6

\* The groups are a cut of the first n of the coarser ones.
Cut(groups, coarse, n) ==
  /\ groups \in Groups
  /\ Distinct(groups)
  /\ Members(groups) = Members(SubSeq(coarse, 1, n))
  /\ Refines(groups, coarse)

LEMMA NothingIsCut ==
  ASSUME NEW coarse \in Groups
  PROVE  Cut(<<>>, coarse, 0)
<1>1. Members(SubSeq(coarse, 1, 0)) = UNION {coarse[i] : i \in 1 .. 0}
  <2>1. 0 \in 0 .. Len(coarse)
    BY DEF Groups
  <2> QED
    BY <2>1, PrefixFacts
<1>2. 1 .. 0 = {} /\ DOMAIN <<>> = {}
  OBVIOUS
<1>3. <<>> \in Groups
  BY DEF Groups
<1> QED
  BY <1>1, <1>2, <1>3 DEF Cut, Members, Distinct, Refines

LEMMA CutGrows ==
  ASSUME NEW coarse \in Groups, Distinct(coarse), NEW n \in Nat, n < Len(coarse),
         NEW groups, Cut(groups, coarse, n), NEW split \in Splits(coarse[n + 1])
  PROVE  Cut(groups \o split, coarse, n + 1)
<1>1. Len(coarse) \in Nat /\ DOMAIN coarse = 1 .. Len(coarse)
  BY DEF Groups
<1>2. n \in 0 .. Len(coarse) /\ n + 1 \in 0 .. Len(coarse) /\ n + 1 \in DOMAIN coarse
  BY <1>1
<1>3. coarse[n + 1] \in (SUBSET Records) \ {{}}
  BY <1>2 DEF Groups
<1>4. split \in Groups /\ Distinct(split) /\ Members(split) = coarse[n + 1]
  BY <1>3, SplitFacts
<1>5. /\ Members(SubSeq(coarse, 1, n)) = UNION {coarse[i] : i \in 1 .. n}
      /\ Members(SubSeq(coarse, 1, n + 1)) = UNION {coarse[i] : i \in 1 .. (n + 1)}
  BY <1>2, PrefixFacts
<1>6. 1 .. (n + 1) = (1 .. n) \cup {n + 1} /\ \A i \in 1 .. n : i # n + 1 /\ i \in DOMAIN coarse
  BY <1>1
<1>7. groups \in Groups /\ Distinct(groups) /\ Members(groups) = UNION {coarse[i] : i \in 1 .. n}
      /\ Refines(groups, coarse)
  BY <1>5 DEF Cut
<1>8. Members(groups) \cap Members(split) = {}
  BY <1>2, <1>4, <1>6, <1>7 DEF Distinct
<1>9. /\ groups \o split \in Groups /\ Distinct(groups \o split)
      /\ Members(groups \o split) = Members(groups) \cup Members(split)
      /\ \A i \in DOMAIN (groups \o split) :
           \/ i \in DOMAIN groups /\ (groups \o split)[i] = groups[i]
           \/ i - Len(groups) \in DOMAIN split /\ (groups \o split)[i] = split[i - Len(groups)]
  BY <1>4, <1>7, <1>8, ConcatFacts
<1>10. Members(groups \o split) = Members(SubSeq(coarse, 1, n + 1))
  BY <1>4, <1>5, <1>6, <1>7, <1>9
<1>11. Refines(groups \o split, coarse)
  <2>1. \A i \in DOMAIN split : split[i] \subseteq coarse[n + 1]
    BY <1>4 DEF Members
  <2> QED
    BY <1>2, <1>7, <1>9, <2>1 DEF Refines
<1> QED
  BY <1>9, <1>10, <1>11 DEF Cut

LEMMA WholeCut ==
  ASSUME NEW coarse \in Groups, NEW groups, Cut(groups, coarse, Len(coarse))
  PROVE  Members(groups) = Members(coarse)
<1>1. Len(coarse) \in 0 .. Len(coarse)
  BY DEF Groups
<1> QED
  BY <1>1, PrefixFacts DEF Cut

-------------------------------------------------------------------------------
(* The invariant. *)
Running == {"resume", "open", "split", "sync", "record", "finish", "forget"}

FileType == [groups : Groups, durable : Nat]

ProgressType == [parents : Nat, lines : Nat, readable : BOOLEAN]

\* Of any behaviour.
TypeInv ==
  /\ cardinality \in Nat
  /\ \A name \in DOMAIN disk :
       disk[name] \in FileType /\ disk[name].durable <= Len(disk[name].groups)
  /\ DOMAIN progress \subseteq 1 .. Levels
  /\ \A l \in DOMAIN progress : progress[l] \in ProgressType
  /\ current \in 0 .. Levels
  /\ parents \in Groups
  /\ next \in Groups
  /\ done \in Nat
  /\ faults \in Nat
  /\ powerLost \in BOOLEAN
  /\ powerLost => faults > 0
  /\ pc \in {"off", "zero", "load", "copy", "done", "failed"} \cup Running
  /\ pc \in Running => current < Levels
  /\ pc \in {"off", "zero", "load", "resume", "done", "failed"} => done = 0 /\ next = <<>>
  /\ pc = "load" => LevelFile(0) \in DOMAIN disk
  /\ pc = "open" /\ done # 0 => Part \in DOMAIN disk
  /\ pc \in {"split", "sync", "record", "finish"} => Part \in DOMAIN disk
  /\ pc \in {"split", "sync", "record"} => done < Len(parents)
  /\ pc = "forget" => LevelFile(current + 1) \in DOMAIN disk
  /\ pc = "copy" => current = Levels /\ LevelFile(Levels) \in DOMAIN disk

\* A loss of power with other faults may lose anything.
Sane == powerLost => faults = 1

\* What may be left of a file that was never synced is the file of level 0.
FileInv ==
  /\ FinalFile \in DOMAIN disk => Readable(FinalFile) \/ (powerLost /\ pc # "done")
  /\ pc = "done" => FinalFile \in DOMAIN disk
  /\ \A l \in 0 .. Levels :
       LevelFile(l) \in DOMAIN disk => Readable(LevelFile(l)) \/ (powerLost /\ l = 0)
  /\ \A l \in 1 .. Levels :
       LevelFile(l) \in DOMAIN disk =>
         /\ PartFile(l) \notin DOMAIN disk
         /\ LevelFile(l - 1) \in DOMAIN disk
         /\ \/ Refines(disk[LevelFile(l)].groups, disk[LevelFile(l - 1)].groups)
            \/ powerLost /\ l = 1
  /\ \A l \in 1 .. Levels : PartFile(l) \in DOMAIN disk => LevelFile(l - 1) \in DOMAIN disk

\* The recorded lines are the splits of the recorded parents.
Backed(l) ==
  /\ progress[l].parents \in 1 .. Len(disk[LevelFile(l - 1)].groups)
  /\ progress[l].lines <= Len(disk[PartFile(l)].groups)
  /\ Cut(FirstGroups(PartFile(l), progress[l].lines), disk[LevelFile(l - 1)].groups,
         progress[l].parents)

Loadable(l) ==
  PartFile(l) \in DOMAIN disk /\ progress[l].readable /\ Readable(LevelFile(l - 1))

ProgressInv ==
  \A l \in DOMAIN progress :
    /\ PartFile(l) \in DOMAIN disk \/ LevelFile(l) \in DOMAIN disk
    /\ progress[l].readable \/ powerLost
    /\ Loadable(l) => Backed(l)

\* What is in memory is what is in the files.
RunInv ==
  /\ pc = "zero" => cardinality \notin 1 .. (InitialGroups - 1)
  /\ pc \in Running \cup {"copy"} =>
       /\ LevelFile(current) \in DOMAIN disk
       /\ Readable(LevelFile(current))
       /\ parents = disk[LevelFile(current)].groups
  /\ pc \in Running \ {"forget"} => LevelFile(current + 1) \notin DOMAIN disk
  /\ pc = "open" =>
       \/ done = 0 /\ (HasProgress => ~Recorded.readable)
       \/ done \in 1 .. Len(parents)
  /\ pc \in {"split", "finish"} \/ (pc = "open" /\ done # 0) =>
       disk[Part].groups = next /\ Cut(next, parents, done)
  /\ pc \in {"sync", "record"} => disk[Part].groups = next /\ Cut(next, parents, done + 1)
  /\ pc = "finish" => done = Len(parents)
  /\ pc = "forget" =>
       /\ disk[LevelFile(current + 1)].groups = next
       /\ current + 1 < Levels => LevelFile(current + 2) \notin DOMAIN disk

\* Before the first fault the files of the levels and all that is recorded are durable.
DurableInv ==
  faults = 0 =>
    /\ \A l \in 1 .. Levels :
         LevelFile(l) \in DOMAIN disk =>
           disk[LevelFile(l)].durable = Len(disk[LevelFile(l)].groups)
    /\ \A l \in 1 .. Levels :
         PartFile(l) \in DOMAIN disk =>
           l = current + 1 /\ pc \in {"split", "sync", "record", "finish"}
    /\ pc \in {"split", "record", "finish"} => disk[Part].durable = Len(disk[Part].groups)
    /\ \A l \in DOMAIN progress :
         PartFile(l) \in DOMAIN disk => progress[l].lines <= disk[PartFile(l)].durable

SaneInv == FileInv /\ ProgressInv /\ RunInv /\ DurableInv

IInv == TypeInv /\ (Sane => SaneInv)

-------------------------------------------------------------------------------
(* Files and levels. *)
LEMMA Names ==
  /\ \A l, m : LevelFile(l) # PartFile(m) /\ LevelFile(l) # FinalFile /\ PartFile(l) # FinalFile
  /\ \A l, m : LevelFile(l) = LevelFile(m) => l = m
  /\ \A l, m : PartFile(l) = PartFile(m) => l = m
BY DEF LevelFile, PartFile, FinalFile

LEMMA PutFacts ==
  ASSUME NEW f, NEW name, NEW value
  PROVE  /\ DOMAIN Put(f, name, value) = DOMAIN f \cup {name}
         /\ Put(f, name, value)[name] = value
         /\ \A x \in DOMAIN f : x # name => Put(f, name, value)[x] = f[x]
BY DEF Put

LEMMA WithoutFacts ==
  ASSUME NEW f, NEW name
  PROVE  /\ DOMAIN Without(f, name) = DOMAIN f \ {name}
         /\ \A x \in DOMAIN f : x # name => Without(f, name)[x] = f[x]
BY DEF Without

\* Nothing but the cardinality says what a group and what a level is.
LEMMA SameData ==
  ASSUME UNCHANGED cardinality
  PROVE  /\ Records' = Records /\ Groups' = Groups /\ FileType' = FileType /\ Levels' = Levels
         /\ \A g, c, n : Cut(g, c, n)' <=> Cut(g, c, n)
<1>1. Records' = Records /\ Levels' = Levels
  BY DEF Records, Levels
<1>2. Groups' = Groups
  BY <1>1 DEF Groups
<1> QED
  BY <1>1, <1>2 DEF FileType, Cut

\* A file whose first groups name every record has no others.
LEMMA ReadablePrefix ==
  ASSUME NEW g \in Groups, Distinct(g), NEW n \in 0 .. Len(g),
         Members(SubSeq(g, 1, n)) = Records
  PROVE  SubSeq(g, 1, n) = g
<1>1. Len(g) \in Nat /\ DOMAIN g = 1 .. Len(g)
  BY DEF Groups
<1>2. ASSUME n < Len(g)
      PROVE  FALSE
  <2>1. n + 1 \in DOMAIN g /\ \A i \in 1 .. n : i \in DOMAIN g /\ i # n + 1
    BY <1>1, <1>2
  <2>2. g[n + 1] \subseteq Records /\ g[n + 1] # {}
    BY <1>1, <2>1 DEF Groups
  <2>3. Members(SubSeq(g, 1, n)) = UNION {g[i] : i \in 1 .. n}
    BY PrefixFacts
  <2>4. \A i \in 1 .. n : g[i] \cap g[n + 1] = {}
    BY <2>1 DEF Distinct
  <2> QED
    BY <2>2, <2>3, <2>4
<1>3. n = Len(g)
  <2> DEFINE k == Len(g)
  <2>1. n \in Int /\ k \in Int /\ n <= k /\ ~(n < k)
    BY <1>1, <1>2
  <2> HIDE DEF k
  <2>2. n = k
    BY <2>1
  <2> QED
    BY <2>2 DEF k
<1>4. n = Len(g) => SubSeq(g, 1, n) = g
  BY PrefixFacts
<1> QED
  BY <1>3, <1>4

LEMMA CompletedFacts ==
  ASSUME Levels \in Nat
  PROVE  /\ CompletedLevels \in 0 .. Levels
         /\ \A x \in 1 .. CompletedLevels : IsCompleted(x)
         /\ CompletedLevels < Levels => ~IsCompleted(CompletedLevels + 1)
<1> DEFINE T == {l \in 0 .. Levels : l < Levels => ~IsCompleted(l + 1)}
<1>1. T \subseteq Nat /\ Levels \in T
  OBVIOUS
<1>2. PICK c \in T : \A y \in T : c <= y
  <2> HIDE DEF T
  <2> QED
    BY <1>1, LeastNatural
<1>3. ASSUME NEW x \in 1 .. c
      PROVE  IsCompleted(x)
  <2>1. x - 1 \in 0 .. Levels /\ x - 1 < Levels /\ ~(c <= x - 1) /\ (x - 1) + 1 = x
    BY <1>1, <1>2
  <2>2. x - 1 \notin T
    BY <1>2, <2>1
  <2> QED
    BY <2>1, <2>2
<1>4. \E l \in 0 .. Levels :
        /\ \A x \in 1 .. l : IsCompleted(x)
        /\ l < Levels => ~IsCompleted(l + 1)
  BY <1>2, <1>3
<1> QED
  BY <1>4 DEF CompletedLevels

-------------------------------------------------------------------------------
(* Types. *)
LEMMA LevelsNat ==
  ASSUME TypeInv
  PROVE  Levels \in Nat /\ Len(parents) \in Nat /\ Len(next) \in Nat /\ <<>> \in Groups
<1>1. cardinality \in Nat /\ parents \in Groups /\ next \in Groups
  BY DEF TypeInv
<1>2. Levels \in Nat
  BY <1>1, LevelsAreCounted DEF Levels
<1> DEFINE S == (SUBSET Records) \ {{}}
<1>3. parents \in Seq(S) /\ next \in Seq(S) /\ Groups = Seq(S)
  BY <1>1 DEF Groups
<1> HIDE DEF S
<1>4. Len(parents) \in Nat /\ Len(next) \in Nat /\ <<>> \in Groups
  BY <1>3
<1> QED
  BY <1>2, <1>4

LEMMA WrittenFacts ==
  ASSUME NEW g \in Groups
  PROVE  /\ Written(g) \in FileType /\ Written(g).durable <= Len(Written(g).groups)
         /\ Written(g).groups = g /\ Written(g).durable = 0
<1>1. Len(g) \in Nat
  BY DEF Groups
<1> QED
  BY <1>1 DEF Written, FileType

LEMMA PutWritten ==
  ASSUME TypeInv, NEW name, NEW g \in Groups, NEW d, d = Put(disk, name, Written(g))
  PROVE  name \in DOMAIN d
         /\ \A x \in DOMAIN d : d[x] \in FileType /\ d[x].durable <= Len(d[x].groups)
<1>1. /\ DOMAIN d = DOMAIN disk \cup {name} /\ d[name] = Written(g)
      /\ \A x \in DOMAIN disk : x # name => d[x] = disk[x]
  BY DEF Put
<1>2. Written(g) \in FileType /\ Written(g).durable <= Len(Written(g).groups)
  BY WrittenFacts
<1> QED
  BY <1>1, <1>2 DEF TypeInv

LEMMA TypeStart ==
  ASSUME TypeInv, Start
  PROVE  TypeInv'
<1>1. UNCHANGED <<disk, progress, current, parents, next, done, cardinality, faults, powerLost>>
  BY DEF Start, env
<1>2. /\ Records' = Records /\ Groups' = Groups /\ FileType' = FileType /\ Levels' = Levels
  BY <1>1, SameData
<1>3. pc \in {"off", "failed", "done"} /\ pc' \in {"failed", "zero"}
  BY DEF Start
<1> QED
  BY <1>1, <1>2, <1>3 DEF TypeInv, Running

LEMMA TypeWriteLevelZero ==
  ASSUME TypeInv, WriteLevelZero
  PROVE  TypeInv'
<1>1. /\ UNCHANGED <<progress, current, parents, next, done, cardinality, faults, powerLost>>
      /\ pc = "zero" /\ pc' = "load"
  BY DEF WriteLevelZero, env
<1>2. /\ Records' = Records /\ Groups' = Groups /\ FileType' = FileType /\ Levels' = Levels
  BY <1>1, SameData
<1>3. InitialPartition(cardinality) \in Groups
  BY PartitionIsComplete DEF TypeInv, Groups, Records
<1>4. /\ LevelFile(0) \in DOMAIN disk'
      /\ \A name \in DOMAIN disk' :
           disk'[name] \in FileType /\ disk'[name].durable <= Len(disk'[name].groups)
  <2>1. CASE LevelFile(0) \in DOMAIN disk
    BY <2>1 DEF WriteLevelZero, TypeInv
  <2>2. CASE LevelFile(0) \notin DOMAIN disk
    <3>1. disk' = Put(disk, LevelFile(0), Written(InitialPartition(cardinality)))
      BY <2>2 DEF WriteLevelZero
    <3> QED
      BY <1>3, <3>1, PutWritten
  <2> QED
    BY <2>1, <2>2
<1> QED
  BY <1>1, <1>2, <1>4 DEF TypeInv, Running

LEMMA TypeLoadState ==
  ASSUME TypeInv, LoadState
  PROVE  TypeInv'
<1>1. /\ UNCHANGED <<disk, progress, next, done, cardinality, faults, powerLost>>
      /\ pc = "load"
  BY DEF LoadState, env
<1>2. /\ Records' = Records /\ Groups' = Groups /\ FileType' = FileType /\ Levels' = Levels
  BY <1>1, SameData
<1>3. CASE ~Readable(LevelFile(0))
  <2>1. pc' = "failed" /\ UNCHANGED <<current, parents>>
    BY <1>3 DEF LoadState
  <2> QED
    BY <1>1, <1>2, <2>1 DEF TypeInv, Running
<1>4. CASE Readable(LevelFile(0))
  <2>1. /\ current' = CompletedLevels
        /\ parents' = disk[LevelFile(CompletedLevels)].groups
        /\ pc' = IF CompletedLevels = Levels THEN "copy" ELSE "resume"
    BY <1>4 DEF LoadState
  <2>2. Levels \in Nat /\ CompletedLevels \in 0 .. Levels
        /\ \A x \in 1 .. CompletedLevels : IsCompleted(x)
    BY LevelsNat, CompletedFacts
  <2>3. LevelFile(CompletedLevels) \in DOMAIN disk
    <3>1. CASE CompletedLevels = 0
      BY <1>1, <3>1 DEF TypeInv
    <3>2. CASE CompletedLevels # 0
      BY <2>2, <3>2 DEF IsCompleted
    <3> QED
      BY <3>1, <3>2
  <2>4. parents' \in Groups
    BY <2>1, <2>3 DEF TypeInv, FileType
  <2> DEFINE c == CompletedLevels
  <2>5. current' = c /\ c \in 0 .. Levels /\ LevelFile(c) \in DOMAIN disk
        /\ pc' = IF c = Levels THEN "copy" ELSE "resume"
    BY <2>1, <2>2, <2>3
  <2> HIDE DEF c
  <2>6. CASE c = Levels
    BY <1>1, <1>2, <2>2, <2>4, <2>5, <2>6 DEF TypeInv, Running
  <2>7. CASE c # Levels
    <3>1. c < Levels /\ pc' = "resume"
      BY <2>2, <2>5, <2>7
    <3> QED
      BY <1>1, <1>2, <2>2, <2>4, <2>5, <3>1 DEF TypeInv, Running
  <2> QED
    BY <2>6, <2>7
<1> QED
  BY <1>3, <1>4

\* What LoadProgress reads, if it reads anything.
LEMMA RecordedFacts ==
  ASSUME TypeInv, current < Levels
  PROVE  /\ current + 1 \in 1 .. Levels
         /\ Recorded \in ProgressType
         /\ HasProgress => Recorded = progress[current + 1]
<1>1. current + 1 \in 1 .. Levels
  BY LevelsNat DEF TypeInv
<1> QED
  BY <1>1 DEF TypeInv, Recorded, HasProgress, ProgressType

LEMMA TypeLoadProgress ==
  ASSUME TypeInv, LoadProgress
  PROVE  TypeInv'
<1>1. /\ UNCHANGED <<progress, current, parents, cardinality, faults, powerLost>>
      /\ pc = "resume" /\ pc' = "open" /\ current < Levels
  BY DEF LoadProgress, env, TypeInv, Running
<1>2. /\ Records' = Records /\ Groups' = Groups /\ FileType' = FileType /\ Levels' = Levels
      /\ Part' = Part
  BY <1>1, SameData DEF Part
<1>3. CASE Part \in DOMAIN disk /\ Recorded.readable /\ PartReadable(Part, Recorded.lines)
  <2> DEFINE groups == FirstGroups(Part, Recorded.lines)
  <2>1. next' = groups /\ done' = Recorded.parents /\ disk' = Put(disk, Part, Written(groups))
    BY <1>3 DEF LoadProgress
  <2>2. Recorded.parents \in Nat /\ Recorded.lines \in Nat
    BY <1>1, RecordedFacts DEF ProgressType
  <2>3. disk[Part].groups \in Groups
    BY <1>3 DEF TypeInv, FileType
  <2>4. Recorded.lines \in 0 .. Len(disk[Part].groups)
    BY <1>3, <2>2, <2>3 DEF PartReadable, Groups
  <2>5. groups \in Groups
    BY <2>3, <2>4, PrefixFacts DEF FirstGroups
  <2> HIDE DEF groups
  <2>6. /\ Part \in DOMAIN disk'
        /\ \A name \in DOMAIN disk' :
             disk'[name] \in FileType /\ disk'[name].durable <= Len(disk'[name].groups)
    BY <2>1, <2>5, PutWritten
  <2> QED
    BY <1>1, <1>2, <2>1, <2>2, <2>5, <2>6 DEF TypeInv, Running
<1>4. CASE ~(Part \in DOMAIN disk /\ Recorded.readable /\ PartReadable(Part, Recorded.lines))
  <2>1. UNCHANGED <<next, done, disk>>
    BY <1>4 DEF LoadProgress
  <2> QED
    BY <1>1, <1>2, <2>1 DEF TypeInv, Running
<1> QED
  BY <1>3, <1>4

LEMMA TypeOpenPart ==
  ASSUME TypeInv, OpenPart
  PROVE  TypeInv'
<1>1. /\ UNCHANGED <<progress, current, parents, cardinality, faults, powerLost>>
      /\ pc = "open" /\ current < Levels
  BY DEF OpenPart, env, TypeInv, Running
<1>2. /\ Records' = Records /\ Groups' = Groups /\ FileType' = FileType /\ Levels' = Levels
      /\ Part' = Part
  BY <1>1, SameData DEF Part
<1>3. Len(parents) \in Nat /\ <<>> \in Groups
  BY LevelsNat
<1>4. CASE done \in 1 .. Len(parents)
  <2>1. pc' = AfterParent(done) /\ UNCHANGED <<disk, next, done>>
    BY <1>4 DEF OpenPart
  <2>2. pc' = "finish" \/ (pc' = "split" /\ done < Len(parents))
    BY <1>3, <1>4, <2>1 DEF AfterParent
  <2>3. done # 0 /\ Part \in DOMAIN disk
    BY <1>1, <1>3, <1>4 DEF TypeInv
  <2> QED
    BY <1>1, <1>2, <2>1, <2>2, <2>3 DEF TypeInv, Running
<1>5. CASE done \notin 1 .. Len(parents)
  <2>1. pc' = AfterParent(0) /\ disk' = Put(disk, Part, Written(<<>>)) /\ next' = <<>> /\ done' = 0
    BY <1>5 DEF OpenPart
  <2>2. pc' = "finish" \/ (pc' = "split" /\ 0 < Len(parents))
    BY <1>3, <2>1 DEF AfterParent
  <2>3. /\ Part \in DOMAIN disk'
        /\ \A name \in DOMAIN disk' :
             disk'[name] \in FileType /\ disk'[name].durable <= Len(disk'[name].groups)
    BY <1>3, <2>1, PutWritten
  <2> QED
    BY <1>1, <1>2, <1>3, <2>1, <2>2, <2>3 DEF TypeInv, Running
<1> QED
  BY <1>4, <1>5

\* A split parent is one of the groups.
LEMMA ParentFacts ==
  ASSUME TypeInv, done < Len(parents)
  PROVE  /\ parents[done + 1] \in (SUBSET Records) \ {{}}
         /\ \A split \in Splits(parents[done + 1]) : split \in Groups
<1>1. done + 1 \in 1 .. Len(parents) /\ parents \in Groups
  BY LevelsNat DEF TypeInv
<1>2. parents[done + 1] \in (SUBSET Records) \ {{}}
  BY <1>1 DEF Groups
<1> QED
  BY <1>2, SplitFacts

LEMMA TypeGrown ==
  ASSUME TypeInv, NEW name \in DOMAIN disk, NEW h \in Groups
  PROVE  LET d == [disk EXCEPT ![name].groups = @ \o h]
         IN  /\ DOMAIN d = DOMAIN disk
             /\ \A x \in DOMAIN d : d[x] \in FileType /\ d[x].durable <= Len(d[x].groups)
<1> DEFINE file == disk[name]
           grown == [file EXCEPT !.groups = @ \o h]
           d == [disk EXCEPT ![name].groups = @ \o h]
<1>1. file \in FileType /\ file.groups \in Groups /\ file.durable \in Nat
      /\ file.durable <= Len(file.groups) /\ Len(file.groups) \in Nat /\ Len(h) \in Nat
  <2>1. file \in FileType /\ file.durable <= Len(file.groups)
    BY DEF TypeInv
  <2> HIDE DEF file
  <2>2. file.groups \in Groups /\ file.durable \in Nat
    BY <2>1 DEF FileType
  <2> QED
    BY <2>1, <2>2 DEF Groups
<1>2. file.groups \o h \in Groups /\ Len(file.groups \o h) = Len(file.groups) + Len(h)
  <2> HIDE DEF file
  <2> QED
    BY <1>1, ConcatFacts
<1>3. grown.groups = file.groups \o h /\ grown.durable = file.durable /\ grown \in FileType
  <2> HIDE DEF file
  <2> QED
    BY <1>1, <1>2 DEF FileType
<1>4. grown \in FileType /\ grown.durable <= Len(grown.groups)
  BY <1>1, <1>2, <1>3
<1>5. DOMAIN d = DOMAIN disk /\ d[name] = grown /\ \A x \in DOMAIN disk : x # name => d[x] = disk[x]
  OBVIOUS
<1> HIDE DEF d, grown
<1>6. \A x \in DOMAIN d : d[x] \in FileType /\ d[x].durable <= Len(d[x].groups)
  BY <1>4, <1>5 DEF TypeInv
<1> QED
  BY <1>5, <1>6 DEF d

LEMMA TypeSplitParent ==
  ASSUME TypeInv, SplitParent
  PROVE  TypeInv'
<1>1. /\ UNCHANGED <<progress, current, parents, done, cardinality, faults, powerLost>>
      /\ pc = "split" /\ pc' = "sync" /\ current < Levels /\ done < Len(parents)
      /\ Part \in DOMAIN disk
  BY DEF SplitParent, env, TypeInv, Running
<1>2. /\ Records' = Records /\ Groups' = Groups /\ FileType' = FileType /\ Levels' = Levels
      /\ Part' = Part
  BY <1>1, SameData DEF Part
<1>3. PICK split \in Splits(parents[done + 1]) :
        /\ disk' = [disk EXCEPT ![Part].groups = @ \o split]
        /\ next' = next \o split
  BY DEF SplitParent
<1>4. split \in Groups /\ next \in Groups
  BY <1>1, ParentFacts DEF TypeInv
<1>5. next' \in Groups
  BY <1>3, <1>4, ConcatFacts
<1>6. /\ DOMAIN disk' = DOMAIN disk
      /\ \A x \in DOMAIN disk' : disk'[x] \in FileType /\ disk'[x].durable <= Len(disk'[x].groups)
  BY <1>1, <1>3, <1>4, TypeGrown
<1> QED
  BY <1>1, <1>2, <1>5, <1>6 DEF TypeInv, Running

LEMMA TypeSyncPart ==
  ASSUME TypeInv, SyncPart
  PROVE  TypeInv'
<1>1. /\ UNCHANGED <<progress, current, parents, next, done, cardinality, faults, powerLost>>
      /\ pc = "sync" /\ pc' = "record" /\ current < Levels /\ Part \in DOMAIN disk
      /\ disk' = [disk EXCEPT ![Part].durable = Len(disk[Part].groups)]
  BY DEF SyncPart, env, TypeInv, Running
<1>2. /\ Records' = Records /\ Groups' = Groups /\ FileType' = FileType /\ Levels' = Levels
      /\ Part' = Part
  BY <1>1, SameData DEF Part
<1> DEFINE file == disk[Part]
           synced == [file EXCEPT !.durable = Len(file.groups)]
<1>3. file \in FileType /\ Len(file.groups) \in Nat
  <2>1. file \in FileType
    BY <1>1 DEF TypeInv
  <2> HIDE DEF file
  <2>2. file.groups \in Groups
    BY <2>1 DEF FileType
  <2> QED
    BY <2>1, <2>2 DEF Groups
<1>4. synced \in FileType /\ synced.durable <= Len(synced.groups)
  <2> HIDE DEF file
  <2> QED
    BY <1>3 DEF FileType
<1>5. DOMAIN disk' = DOMAIN disk /\ disk'[Part] = synced
      /\ \A x \in DOMAIN disk : x # Part => disk'[x] = disk[x]
  BY <1>1
<1> HIDE DEF synced
<1>6. \A x \in DOMAIN disk' : disk'[x] \in FileType /\ disk'[x].durable <= Len(disk'[x].groups)
  BY <1>4, <1>5 DEF TypeInv
<1> QED
  BY <1>1, <1>2, <1>5, <1>6 DEF TypeInv, Running

LEMMA TypeRecordProgress ==
  ASSUME TypeInv, RecordProgress
  PROVE  TypeInv'
<1>1. /\ UNCHANGED <<disk, current, parents, next, cardinality, faults, powerLost>>
      /\ pc = "record" /\ current < Levels /\ Part \in DOMAIN disk
      /\ done < Len(parents) /\ done \in Nat /\ next \in Groups
      /\ done' = done + 1 /\ pc' = AfterParent(done + 1)
      /\ progress' = Put(progress, current + 1,
                         [parents |-> done + 1, lines |-> Len(next), readable |-> TRUE])
  BY DEF RecordProgress, env, TypeInv, Running
<1>2. /\ Records' = Records /\ Groups' = Groups /\ FileType' = FileType /\ Levels' = Levels
      /\ Part' = Part
  BY <1>1, SameData DEF Part
<1>3. pc' = "finish" \/ (pc' = "split" /\ done + 1 < Len(parents))
  BY <1>1, LevelsNat DEF AfterParent
<1>4. current + 1 \in 1 .. Levels
  BY <1>1, RecordedFacts
<1> DEFINE r == [parents |-> done + 1, lines |-> Len(next), readable |-> TRUE]
<1>5. r \in ProgressType
  BY <1>1, LevelsNat DEF ProgressType
<1> HIDE DEF r
<1>6. DOMAIN progress' = DOMAIN progress \cup {current + 1} /\ progress'[current + 1] = r
      /\ \A x \in DOMAIN progress : x # current + 1 => progress'[x] = progress[x]
  <2>1. progress' = Put(progress, current + 1, r)
    BY <1>1 DEF r
  <2> QED
    BY <2>1 DEF Put
<1>7. DOMAIN progress' \subseteq 1 .. Levels /\ \A l \in DOMAIN progress' : progress'[l] \in ProgressType
  BY <1>4, <1>5, <1>6 DEF TypeInv
<1>8. done' \in Nat /\ done' = done + 1
  BY <1>1
<1>9. CASE pc' = "finish"
  BY <1>1, <1>2, <1>7, <1>8, <1>9 DEF TypeInv, Running
<1>10. CASE pc' = "split" /\ done + 1 < Len(parents)
  BY <1>1, <1>2, <1>7, <1>8, <1>10 DEF TypeInv, Running
<1> QED
  BY <1>3, <1>9, <1>10

LEMMA TypeFinishLevel ==
  ASSUME TypeInv, FinishLevel
  PROVE  TypeInv'
<1>1. /\ UNCHANGED <<progress, current, parents, next, done, cardinality, faults, powerLost>>
      /\ pc = "finish" /\ pc' = "forget" /\ current < Levels /\ Part \in DOMAIN disk
      /\ disk' = Without(Put(disk, LevelFile(current + 1), disk[Part]), Part)
  BY DEF FinishLevel, env, TypeInv, Running
<1>2. /\ Records' = Records /\ Groups' = Groups /\ FileType' = FileType /\ Levels' = Levels
  BY <1>1, SameData
<1> DEFINE name == LevelFile(current + 1)
           put == Put(disk, name, disk[Part])
<1>3. DOMAIN put = DOMAIN disk \cup {name} /\ put[name] = disk[Part]
      /\ \A x \in DOMAIN disk : x # name => put[x] = disk[x]
  <2> HIDE DEF name
  <2> QED
    BY DEF Put
<1>4. DOMAIN disk' = DOMAIN put \ {Part} /\ \A x \in DOMAIN put : x # Part => disk'[x] = put[x]
  BY <1>1, WithoutFacts
<1>5. name # Part
  BY Names DEF Part
<1> HIDE DEF name, put
<1>6. \A x \in DOMAIN disk' : \E y \in DOMAIN disk : disk'[x] = disk[y]
  BY <1>1, <1>3, <1>4, <1>5
<1>7. \A x \in DOMAIN disk' : disk'[x] \in FileType /\ disk'[x].durable <= Len(disk'[x].groups)
  BY <1>6 DEF TypeInv
<1>8. name' = name /\ name \in DOMAIN disk'
  BY <1>1, <1>3, <1>4, <1>5 DEF name
<1> QED
  BY <1>1, <1>2, <1>7, <1>8 DEF TypeInv, Running, name

LEMMA TypeForgetProgress ==
  ASSUME TypeInv, ForgetProgress
  PROVE  TypeInv'
<1>1. /\ UNCHANGED <<disk, cardinality, faults, powerLost>>
      /\ pc = "forget" /\ current < Levels /\ current' = current + 1 /\ parents' = next
      /\ next' = <<>> /\ done' = 0 /\ progress' = Without(progress, current + 1)
      /\ pc' = IF current + 1 = Levels THEN "copy" ELSE "resume"
      /\ LevelFile(current + 1) \in DOMAIN disk
  BY DEF ForgetProgress, env, TypeInv, Running
<1>2. /\ Records' = Records /\ Groups' = Groups /\ FileType' = FileType /\ Levels' = Levels
  BY <1>1, SameData
<1>3. /\ DOMAIN progress' \subseteq DOMAIN progress
      /\ \A x \in DOMAIN progress' : progress'[x] = progress[x]
  <2> DEFINE name == current + 1
             f == progress
  <2>1. progress' = Without(f, name)
    BY <1>1
  <2> HIDE DEF name
  <2>2. /\ DOMAIN Without(f, name) = DOMAIN f \ {name}
        /\ \A x \in DOMAIN f : x # name => Without(f, name)[x] = f[x]
    BY WithoutFacts
  <2> QED
    BY <2>1, <2>2
<1>4. current + 1 \in 1 .. Levels /\ <<>> \in Groups /\ Levels \in Nat
  BY <1>1, RecordedFacts, LevelsNat
<1>a. /\ DOMAIN progress' \subseteq 1 .. Levels
      /\ \A l \in DOMAIN progress' : progress'[l] \in ProgressType
  BY <1>3 DEF TypeInv
<1>b. /\ cardinality' \in Nat /\ done' \in Nat /\ faults' \in Nat
      /\ powerLost' \in BOOLEAN /\ (powerLost' => faults' > 0)
      /\ parents' \in Groups /\ next' \in Groups
  BY <1>1, <1>4 DEF TypeInv
<1>c. current' \in 0 .. Levels
  BY <1>1, <1>4
<1>d. \A name \in DOMAIN disk' :
        disk'[name] \in FileType /\ disk'[name].durable <= Len(disk'[name].groups)
  BY <1>1 DEF TypeInv
<1>5. CASE current + 1 = Levels
  BY <1>1, <1>2, <1>a, <1>b, <1>c, <1>d, <1>5 DEF TypeInv, Running
<1>6. CASE current + 1 # Levels
  <2>1. current + 1 < Levels /\ pc' = "resume"
    BY <1>1, <1>4, <1>6
  <2> QED
    BY <1>1, <1>2, <1>a, <1>b, <1>c, <1>d, <2>1 DEF TypeInv, Running
<1> QED
  BY <1>5, <1>6

LEMMA TypeCopyFinal ==
  ASSUME TypeInv, CopyFinal
  PROVE  TypeInv'
<1>1. /\ UNCHANGED <<progress, cardinality, faults, powerLost>>
      /\ pc = "copy" /\ pc' = "done"
      /\ current' = 0 /\ parents' = <<>> /\ next' = <<>> /\ done' = 0
      /\ disk' = Put(disk, FinalFile, Written(disk[LevelFile(Levels)].groups))
      /\ LevelFile(Levels) \in DOMAIN disk
  BY DEF CopyFinal, NoRun, env, TypeInv
<1>2. /\ Records' = Records /\ Groups' = Groups /\ FileType' = FileType /\ Levels' = Levels
  BY <1>1, SameData
<1>3. <<>> \in Groups /\ Levels \in Nat
  BY LevelsNat
<1>4. disk[LevelFile(Levels)].groups \in Groups
  BY <1>1 DEF TypeInv, FileType
<1>5. \A x \in DOMAIN disk' : disk'[x] \in FileType /\ disk'[x].durable <= Len(disk'[x].groups)
  BY <1>1, <1>4, PutWritten
<1> QED
  BY <1>1, <1>2, <1>3, <1>5 DEF TypeInv, Running

LEMMA TypeKill ==
  ASSUME TypeInv, Kill
  PROVE  TypeInv'
<1>1. /\ UNCHANGED <<progress, cardinality>> /\ pc' = "off"
      /\ current' = 0 /\ parents' = <<>> /\ next' = <<>> /\ done' = 0
      /\ faults' = faults + 1 /\ powerLost' = (powerLost \/ "kill" = "power_loss")
  BY DEF Kill, Fault, NoRun
<1>2. /\ Records' = Records /\ Groups' = Groups /\ FileType' = FileType /\ Levels' = Levels
  BY <1>1, SameData
<1>3. <<>> \in Groups /\ Levels \in Nat
  BY LevelsNat
<1>4. \A x \in DOMAIN disk' : disk'[x] \in FileType /\ disk'[x].durable <= Len(disk'[x].groups)
  <2>1. CASE pc = "split"
    <3>1. PICK split \in Splits(parents[done + 1]) :
            \E lines \in CutOff(split) : disk' = [disk EXCEPT ![Part].groups = @ \o lines]
      BY <2>1 DEF Kill
    <3>2. PICK lines \in CutOff(split) : disk' = [disk EXCEPT ![Part].groups = @ \o lines]
      BY <3>1
    <3>3. Part \in DOMAIN disk /\ done < Len(parents)
      BY <2>1 DEF TypeInv
    <3>4. lines \in Groups
      BY <3>3, ParentFacts, CutOffFacts
    <3> QED
      BY <3>2, <3>3, <3>4, TypeGrown
  <2>2. CASE pc # "split"
    BY <2>2 DEF Kill, TypeInv
  <2> QED
    BY <2>1, <2>2
<1> QED
  BY <1>1, <1>2, <1>3, <1>4 DEF TypeInv, Running

\* What a loss of power leaves of a file and of a record.
LEMMA LossFacts ==
  ASSUME TypeInv, PowerLoss
  PROVE  /\ DOMAIN disk' = DOMAIN disk /\ DOMAIN progress' = DOMAIN progress
         /\ \A name \in DOMAIN disk :
              /\ disk'[name] \in FileType
              /\ disk'[name].durable <= Len(disk'[name].groups)
              /\ \/ disk'[name] = disk[name]
                 \/ disk'[name].groups = SubSeq(disk[name].groups, 1, disk[name].durable)
         /\ \A l \in DOMAIN progress :
              /\ progress'[l] \in ProgressType
              /\ progress'[l].parents = progress[l].parents
              /\ progress'[l].lines = progress[l].lines
              /\ progress'[l].readable => progress[l].readable
<1>1. PICK lost \in SUBSET DOMAIN disk :
        disk' = [name \in DOMAIN disk |->
                   IF name \in lost
                   THEN [disk[name] EXCEPT !.groups = SubSeq(@, 1, disk[name].durable)]
                   ELSE disk[name]]
  BY DEF PowerLoss
<1>2. ASSUME NEW name \in DOMAIN disk
      PROVE  /\ disk'[name] \in FileType
             /\ disk'[name].durable <= Len(disk'[name].groups)
             /\ \/ disk'[name] = disk[name]
                \/ disk'[name].groups = SubSeq(disk[name].groups, 1, disk[name].durable)
  <2> DEFINE file == disk[name]
             left == [file EXCEPT !.groups = SubSeq(@, 1, file.durable)]
  <2>1. file \in FileType /\ file.durable <= Len(file.groups)
    BY DEF TypeInv
  <2>2. CASE name \in lost
    <3>1. disk'[name] = left
      BY <1>1, <2>2
    <3> HIDE DEF file
    <3>2. file.groups \in Groups /\ file.durable \in 0 .. Len(file.groups)
      BY <2>1 DEF FileType, Groups
    <3>3. SubSeq(file.groups, 1, file.durable) \in Groups
          /\ Len(SubSeq(file.groups, 1, file.durable)) = file.durable
      BY <3>2, PrefixFacts
    <3>4. left.groups = SubSeq(file.groups, 1, file.durable) /\ left.durable = file.durable
          /\ left \in FileType
      BY <2>1, <3>3 DEF FileType
    <3>5. left.durable <= Len(left.groups)
      BY <3>2, <3>3, <3>4
    <3> QED
      BY <3>1, <3>4, <3>5 DEF file
  <2>3. CASE name \notin lost
    BY <1>1, <2>1, <2>3
  <2> QED
    BY <2>2, <2>3
<1>3. PICK gone \in SUBSET DOMAIN progress :
        progress' = [l \in DOMAIN progress |->
                       IF l \in gone THEN [progress[l] EXCEPT !.readable = FALSE]
                       ELSE progress[l]]
  BY DEF PowerLoss
<1>4. ASSUME NEW l \in DOMAIN progress
      PROVE  /\ progress'[l] \in ProgressType
             /\ progress'[l].parents = progress[l].parents
             /\ progress'[l].lines = progress[l].lines
             /\ progress'[l].readable => progress[l].readable
  <2>1. progress[l] \in ProgressType
    BY DEF TypeInv
  <2> QED
    BY <1>3, <2>1 DEF ProgressType
<1> QED
  BY <1>1, <1>2, <1>3, <1>4

LEMMA TypePowerLoss ==
  ASSUME TypeInv, PowerLoss
  PROVE  TypeInv'
<1>1. /\ UNCHANGED cardinality /\ pc' = "off"
      /\ current' = 0 /\ parents' = <<>> /\ next' = <<>> /\ done' = 0
      /\ faults' = faults + 1 /\ powerLost' = TRUE
  BY DEF PowerLoss, Fault, NoRun
<1>2. /\ Records' = Records /\ Groups' = Groups /\ FileType' = FileType /\ Levels' = Levels
  BY <1>1, SameData
<1>3. <<>> \in Groups /\ Levels \in Nat
  BY LevelsNat
<1>4. /\ \A x \in DOMAIN disk' : disk'[x] \in FileType /\ disk'[x].durable <= Len(disk'[x].groups)
      /\ DOMAIN progress' = DOMAIN progress
      /\ \A l \in DOMAIN progress' : progress'[l] \in ProgressType
  BY LossFacts
<1> QED
  BY <1>1, <1>2, <1>3, <1>4 DEF TypeInv, Running

LEMMA TypeStep ==
  ASSUME TypeInv, [Next]_vars
  PROVE  TypeInv'
<1>1. ASSUME UNCHANGED vars
      PROVE  TypeInv'
  <2>1. UNCHANGED <<disk, progress, pc, current, parents, next, done, cardinality, faults, powerLost>>
    BY <1>1 DEF vars, run, env
  <2>2. /\ Records' = Records /\ Groups' = Groups /\ FileType' = FileType /\ Levels' = Levels
        /\ Part' = Part
    BY <2>1, SameData DEF Part
  <2> QED
    BY <2>1, <2>2 DEF TypeInv
<1> QED
  BY <1>1, TypeStart, TypeWriteLevelZero, TypeLoadState, TypeLoadProgress, TypeOpenPart,
     TypeSplitParent, TypeSyncPart, TypeRecordProgress, TypeFinishLevel, TypeForgetProgress,
     TypeCopyFinal, TypeKill, TypePowerLoss DEF Next, Run

LEMMA TypeInit ==
  ASSUME Init
  PROVE  TypeInv
<1>1. cardinality \in Nat
  BY PrecomputeAssumption DEF Init
<1>2. Levels \in Nat /\ <<>> \in Groups
  BY <1>1, LevelsAreCounted DEF Levels, Groups
<1>3. DOMAIN disk = {} /\ DOMAIN progress = {}
  BY DEF Init
<1>4. /\ pc = "off" /\ current = 0 /\ parents = <<>> /\ next = <<>> /\ done = 0 /\ faults = 0
      /\ powerLost = FALSE
  BY DEF Init
<1>5. current \in 0 .. Levels /\ done \in Nat /\ faults \in Nat
  <2>1. 0 \in 0 .. Levels
    BY <1>2
  <2> QED
    BY <1>4, <2>1
<1>8. powerLost \in BOOLEAN
  BY <1>4
<1>6. parents \in Groups /\ next \in Groups
  BY <1>2, <1>4
<1>7. /\ \A name \in DOMAIN disk :
           disk[name] \in FileType /\ disk[name].durable <= Len(disk[name].groups)
      /\ DOMAIN progress \subseteq 1 .. Levels
      /\ \A l \in DOMAIN progress : progress[l] \in ProgressType
  BY <1>3
<1> QED
  BY <1>1, <1>4, <1>5, <1>6, <1>7, <1>8 DEF TypeInv, Running

\* Whatever the faults, a file holds groups of records of the data set, no more of
\* them durable than there are, and the run stays within its levels and parents.
THEOREM Types == Spec => []TypeOK
<1>1. Init => TypeInv
  BY TypeInit
<1>2. TypeInv /\ [Next]_vars => TypeInv'
  BY TypeStep
<1>3. TypeInv => TypeOK
  <2> SUFFICES ASSUME TypeInv
               PROVE  TypeOK
    OBVIOUS
  <2>1. ASSUME NEW name \in DOMAIN disk
        PROVE  disk[name].groups \in Groups /\ disk[name].durable \in 0 .. Len(disk[name].groups)
    <3> DEFINE file == disk[name]
    <3>1. file \in FileType /\ file.durable <= Len(file.groups)
      BY DEF TypeInv
    <3> HIDE DEF file
    <3>2. file.groups \in Groups /\ file.durable \in Nat
      BY <3>1 DEF FileType
    <3>3. Len(file.groups) \in Nat
      BY <3>2 DEF Groups
    <3>4. file.durable \in 0 .. Len(file.groups)
      BY <3>1, <3>2, <3>3
    <3> QED
      BY <3>2, <3>4 DEF file
  <2> QED
    BY <2>1 DEF TypeInv, TypeOK
<1> QED
  BY <1>1, <1>2, <1>3, PTL DEF Spec

-------------------------------------------------------------------------------
(* Steps without a fault keep what is in the files. *)
LEMMA SameFile ==
  ASSUME UNCHANGED cardinality
  PROVE  /\ \A name : disk'[name] = disk[name] => (Readable(name)' <=> Readable(name))
         /\ \A l : /\ progress'[l] = progress[l]
                   /\ disk'[PartFile(l)] = disk[PartFile(l)]
                   /\ disk'[LevelFile(l - 1)] = disk[LevelFile(l - 1)]
                   => (Backed(l)' <=> Backed(l))
<1>1. Records' = Records /\ Groups' = Groups
  BY SameData
<1>2. \A name : disk'[name] = disk[name] => (Readable(name)' <=> Readable(name))
  BY <1>1 DEF Readable
<1>3. \A l : /\ progress'[l] = progress[l]
             /\ disk'[PartFile(l)] = disk[PartFile(l)]
             /\ disk'[LevelFile(l - 1)] = disk[LevelFile(l - 1)]
             => (Backed(l)' <=> Backed(l))
  BY <1>1 DEF Backed, FirstGroups, Cut
<1> QED
  BY <1>2, <1>3

LEMMA SameFiles ==
  ASSUME FileInv, ProgressInv, UNCHANGED <<disk, progress, cardinality, powerLost>>,
         pc' # "done" \/ pc = "done"
  PROVE  FileInv' /\ ProgressInv'
<1>1. Levels' = Levels /\ Records' = Records
  BY SameData
<1>2. \A name : Readable(name)' <=> Readable(name)
  BY SameFile
<1>3. \A l : Backed(l)' <=> Backed(l)
  BY SameFile
<1>4. FileInv'
  BY <1>1, <1>2 DEF FileInv
<1>5. ProgressInv'
  BY <1>2, <1>3 DEF ProgressInv, Loadable
<1> QED
  BY <1>4, <1>5

\* Only the file in progress of one level and its record change.
LEMMA OtherFilesStay ==
  ASSUME TypeInv, FileInv, ProgressInv, UNCHANGED <<cardinality, powerLost>>, pc' # "done",
         NEW m \in 1 .. Levels,
         LevelFile(m) \notin DOMAIN disk, LevelFile(m - 1) \in DOMAIN disk,
         DOMAIN disk' = DOMAIN disk \cup {PartFile(m)},
         \A name \in DOMAIN disk : name # PartFile(m) => disk'[name] = disk[name],
         \A l \in DOMAIN progress' : l # m => l \in DOMAIN progress /\ progress'[l] = progress[l],
         m \in DOMAIN progress' =>
           (progress'[m].readable \/ powerLost) /\ (Loadable(m)' => Backed(m)')
  PROVE  FileInv' /\ ProgressInv'
<1>1. Levels' = Levels /\ Records' = Records
  BY SameData
<1>2. \A name \in DOMAIN disk : name # PartFile(m) => (Readable(name)' <=> Readable(name))
  BY SameFile
<1>3. /\ FinalFile \in DOMAIN disk' => FinalFile \in DOMAIN disk
      /\ FinalFile # PartFile(m)
      /\ \A l : LevelFile(l) # PartFile(m)
      /\ \A l : LevelFile(l) \in DOMAIN disk' <=> LevelFile(l) \in DOMAIN disk
      /\ \A l : PartFile(l) \in DOMAIN disk' <=> PartFile(l) \in DOMAIN disk \/ l = m
  BY Names
<1>4. FileInv'
  <2>1. (FinalFile \in DOMAIN disk => Readable(FinalFile) \/ (powerLost /\ pc # "done"))'
    BY <1>2, <1>3 DEF FileInv
  <2>2. ASSUME NEW l \in 0 .. Levels, LevelFile(l) \in DOMAIN disk'
        PROVE  Readable(LevelFile(l))' \/ (powerLost' /\ l = 0)
    BY <1>2, <1>3, <2>2 DEF FileInv
  <2>3. ASSUME NEW l \in 1 .. Levels, LevelFile(l) \in DOMAIN disk'
        PROVE  /\ PartFile(l) \notin DOMAIN disk'
               /\ LevelFile(l - 1) \in DOMAIN disk'
               /\ \/ Refines(disk'[LevelFile(l)].groups, disk'[LevelFile(l - 1)].groups)
                  \/ powerLost' /\ l = 1
    <3>1. LevelFile(l) \in DOMAIN disk /\ l # m
      BY <1>3, <2>3
    <3>2. /\ PartFile(l) \notin DOMAIN disk
          /\ LevelFile(l - 1) \in DOMAIN disk
          /\ \/ Refines(disk[LevelFile(l)].groups, disk[LevelFile(l - 1)].groups)
             \/ powerLost /\ l = 1
      BY <3>1 DEF FileInv
    <3>3. disk'[LevelFile(l)] = disk[LevelFile(l)] /\ disk'[LevelFile(l - 1)] = disk[LevelFile(l - 1)]
      BY <1>3, <3>1, <3>2
    <3> QED
      BY <1>3, <3>1, <3>2, <3>3
  <2>4. ASSUME NEW l \in 1 .. Levels, PartFile(l) \in DOMAIN disk'
        PROVE  LevelFile(l - 1) \in DOMAIN disk'
    BY <1>3, <2>4 DEF FileInv
  <2> QED
    BY <1>1, <2>1, <2>2, <2>3, <2>4 DEF FileInv
<1>5. ASSUME NEW l \in DOMAIN progress'
      PROVE  /\ PartFile(l) \in DOMAIN disk' \/ LevelFile(l) \in DOMAIN disk'
             /\ progress'[l].readable \/ powerLost'
             /\ Loadable(l)' => Backed(l)'
  <2>1. CASE l = m
    BY <1>3, <2>1
  <2>2. CASE l # m
    <3>1. l \in DOMAIN progress /\ progress'[l] = progress[l] /\ l \in 1 .. Levels
      BY <2>2 DEF TypeInv
    <3>2. ASSUME Loadable(l)'
          PROVE  Backed(l)'
      <4>1. PartFile(l) \in DOMAIN disk /\ PartFile(l) # PartFile(m)
        BY <1>3, <2>2, <3>2, Names DEF Loadable
      <4>2. LevelFile(l - 1) \in DOMAIN disk
        BY <3>1, <4>1 DEF FileInv
      <4>3. disk'[PartFile(l)] = disk[PartFile(l)] /\ disk'[LevelFile(l - 1)] = disk[LevelFile(l - 1)]
        BY <1>3, <4>1, <4>2
      <4>4. Loadable(l)
        BY <1>2, <1>3, <3>1, <3>2, <4>1, <4>2 DEF Loadable
      <4>5. Backed(l)
        BY <3>1, <4>4 DEF ProgressInv
      <4> QED
        BY <3>1, <4>3, <4>5, SameFile
    <3>3. PartFile(l) \in DOMAIN disk \/ LevelFile(l) \in DOMAIN disk
      BY <3>1 DEF ProgressInv
    <3>4. progress[l].readable \/ powerLost
      BY <3>1 DEF ProgressInv
    <3> QED
      BY <1>3, <3>1, <3>2, <3>3, <3>4
  <2> QED
    BY <2>1, <2>2
<1> QED
  BY <1>4, <1>5 DEF ProgressInv

LEMMA SaneStart ==
  ASSUME TypeInv, SaneInv, Start
  PROVE  SaneInv'
<1>1. /\ UNCHANGED <<disk, progress, current, parents, next, done, cardinality, faults, powerLost>>
      /\ pc \in {"off", "failed", "done"} /\ pc' \in {"failed", "zero"}
      /\ pc' = "zero" => cardinality \notin 1 .. (InitialGroups - 1)
  BY DEF Start, env
<1>2. Levels' = Levels
  BY <1>1, SameData
<1>3. FileInv' /\ ProgressInv'
  BY <1>1, SameFiles DEF SaneInv
<1>4. RunInv'
  BY <1>1 DEF RunInv, Running
<1>5. DurableInv'
  BY <1>1, <1>2 DEF SaneInv, DurableInv
<1> QED
  BY <1>3, <1>4, <1>5 DEF SaneInv

LEMMA SaneWriteLevelZero ==
  ASSUME TypeInv, SaneInv, WriteLevelZero
  PROVE  SaneInv'
<1>1. /\ UNCHANGED <<progress, current, parents, next, done, cardinality, faults, powerLost>>
      /\ pc = "zero" /\ pc' = "load"
  BY DEF WriteLevelZero, env
<1>2. Levels' = Levels /\ Records' = Records /\ Levels \in Nat
  BY <1>1, SameData, LevelsNat
<1>3. RunInv'
  BY <1>1 DEF RunInv, Running
<1>4. CASE LevelFile(0) \in DOMAIN disk
  <2>1. disk' = disk
    BY <1>4 DEF WriteLevelZero
  <2>2. FileInv' /\ ProgressInv'
    BY <1>1, <2>1, SameFiles DEF SaneInv
  <2>3. DurableInv'
    BY <1>1, <1>2, <2>1 DEF SaneInv, DurableInv
  <2> QED
    BY <1>3, <2>2, <2>3 DEF SaneInv
<1>5. CASE LevelFile(0) \notin DOMAIN disk
  <2> DEFINE zero == InitialPartition(cardinality)
  <2>1. disk' = Put(disk, LevelFile(0), Written(zero))
    BY <1>5 DEF WriteLevelZero
  <2>2. zero \in Groups /\ Distinct(zero) /\ Members(zero) = Records
    <3>1. cardinality \in Nat /\ cardinality \notin 1 .. (InitialGroups - 1)
      BY <1>1 DEF TypeInv, SaneInv, RunInv
    <3> QED
      BY <3>1, PartitionIsComplete DEF Groups, Records
  <2> HIDE DEF zero
  <2>3. /\ DOMAIN disk' = DOMAIN disk \cup {LevelFile(0)}
        /\ disk'[LevelFile(0)].groups = zero
        /\ \A name \in DOMAIN disk : disk'[name] = disk[name]
    BY <1>5, <2>1 DEF Put, Written
  <2>4. Readable(LevelFile(0))'
    BY <1>2, <2>2, <2>3 DEF Readable
  <2>5. \A name \in DOMAIN disk : Readable(name)' <=> Readable(name)
    BY <1>1, <2>3, SameFile
  <2>6. /\ FinalFile \in DOMAIN disk' => FinalFile \in DOMAIN disk
        /\ \A l : LevelFile(l) \in DOMAIN disk' <=> LevelFile(l) \in DOMAIN disk \/ l = 0
        /\ \A l : PartFile(l) \in DOMAIN disk' <=> PartFile(l) \in DOMAIN disk
    BY <2>3, Names
  <2>7. FileInv'
    <3>1. (FinalFile \in DOMAIN disk => Readable(FinalFile) \/ (powerLost /\ pc # "done"))'
      BY <1>1, <2>5, <2>6 DEF SaneInv, FileInv
    <3>2. ASSUME NEW l \in 0 .. Levels, LevelFile(l) \in DOMAIN disk'
          PROVE  Readable(LevelFile(l))' \/ (powerLost' /\ l = 0)
      <4>1. CASE l = 0
        BY <2>4, <4>1
      <4>2. CASE l # 0
        BY <1>1, <2>5, <2>6, <3>2, <4>2 DEF SaneInv, FileInv
      <4> QED
        BY <4>1, <4>2
    <3>3. ASSUME NEW l \in 1 .. Levels, LevelFile(l) \in DOMAIN disk'
          PROVE  /\ PartFile(l) \notin DOMAIN disk'
                 /\ LevelFile(l - 1) \in DOMAIN disk'
                 /\ \/ Refines(disk'[LevelFile(l)].groups, disk'[LevelFile(l - 1)].groups)
                    \/ powerLost' /\ l = 1
      <4>1. LevelFile(l) \in DOMAIN disk
        BY <2>6, <3>3
      <4>2. /\ PartFile(l) \notin DOMAIN disk
            /\ LevelFile(l - 1) \in DOMAIN disk
            /\ \/ Refines(disk[LevelFile(l)].groups, disk[LevelFile(l - 1)].groups)
               \/ powerLost /\ l = 1
        BY <4>1 DEF SaneInv, FileInv
      <4> QED
        BY <1>1, <2>3, <2>6, <4>1, <4>2
    <3>4. ASSUME NEW l \in 1 .. Levels, PartFile(l) \in DOMAIN disk'
          PROVE  LevelFile(l - 1) \in DOMAIN disk'
      BY <2>6, <3>4 DEF SaneInv, FileInv
    <3>5. pc' # "done"
      BY <1>1
    <3> QED
      BY <1>2, <3>1, <3>2, <3>3, <3>4, <3>5 DEF FileInv
  <2>8. ASSUME NEW l \in DOMAIN progress'
        PROVE  /\ PartFile(l) \in DOMAIN disk' \/ LevelFile(l) \in DOMAIN disk'
               /\ progress'[l].readable \/ powerLost'
               /\ Loadable(l)' => Backed(l)'
    <3>1. l \in DOMAIN progress /\ progress'[l] = progress[l] /\ l \in 1 .. Levels
      BY <1>1 DEF TypeInv
    <3>2. ASSUME Loadable(l)'
          PROVE  Backed(l)'
      <4>1. PartFile(l) \in DOMAIN disk
        BY <2>6, <3>2 DEF Loadable
      <4>2. LevelFile(l - 1) \in DOMAIN disk
        BY <3>1, <4>1 DEF SaneInv, FileInv
      <4>3. Loadable(l)
        BY <2>5, <3>1, <3>2, <4>1, <4>2 DEF Loadable
      <4>4. Backed(l)
        BY <3>1, <4>3 DEF SaneInv, ProgressInv
      <4> QED
        BY <1>1, <2>3, <3>1, <4>1, <4>2, <4>4, SameFile
    <3>3. PartFile(l) \in DOMAIN disk \/ LevelFile(l) \in DOMAIN disk
      BY <3>1 DEF SaneInv, ProgressInv
    <3>4. progress[l].readable \/ powerLost
      BY <3>1 DEF SaneInv, ProgressInv
    <3> QED
      BY <1>1, <2>6, <3>1, <3>2, <3>3, <3>4
  <2>9. DurableInv'
    <3> SUFFICES ASSUME faults' = 0
                 PROVE  DurableInv'
      BY DEF DurableInv
    <3>1. \A l \in 1 .. Levels : PartFile(l) \notin DOMAIN disk'
      BY <1>1, <2>6 DEF SaneInv, DurableInv
    <3>2. \A l \in 1 .. Levels :
            LevelFile(l) \in DOMAIN disk' =>
              disk'[LevelFile(l)].durable = Len(disk'[LevelFile(l)].groups)
      BY <1>1, <2>3, <2>6 DEF SaneInv, DurableInv
    <3>3. DOMAIN progress' \subseteq 1 .. Levels
      BY <1>1 DEF TypeInv
    <3> QED
      BY <1>1, <1>2, <3>1, <3>2, <3>3 DEF DurableInv
  <2>10. ProgressInv'
    BY <2>8 DEF ProgressInv
  <2> QED
    BY <1>3, <2>7, <2>9, <2>10 DEF SaneInv
<1> QED
  BY <1>4, <1>5

LEMMA SaneLoadState ==
  ASSUME TypeInv, SaneInv, LoadState
  PROVE  SaneInv'
<1>1. /\ UNCHANGED <<disk, progress, next, done, cardinality, faults, powerLost>>
      /\ pc = "load" /\ pc' \in {"copy", "resume", "failed"}
      /\ done = 0
  BY DEF LoadState, env, TypeInv
<1>2. Levels' = Levels /\ Records' = Records /\ Levels \in Nat
  BY <1>1, SameData, LevelsNat
<1>3. FileInv' /\ ProgressInv'
  BY <1>1, SameFiles DEF SaneInv
<1>4. DurableInv'
  <2> SUFFICES ASSUME faults' = 0
               PROVE  DurableInv'
    BY DEF DurableInv
  <2>1. \A l \in 1 .. Levels : PartFile(l) \notin DOMAIN disk'
    BY <1>1 DEF SaneInv, DurableInv
  <2>2. \A l \in 1 .. Levels :
          LevelFile(l) \in DOMAIN disk' =>
            disk'[LevelFile(l)].durable = Len(disk'[LevelFile(l)].groups)
    BY <1>1 DEF SaneInv, DurableInv
  <2>3. DOMAIN progress' \subseteq 1 .. Levels
    BY <1>1 DEF TypeInv
  <2> QED
    BY <1>1, <1>2, <2>1, <2>2, <2>3 DEF DurableInv
<1>5. RunInv'
  <2>1. CASE ~Readable(LevelFile(0))
    <3>1. pc' = "failed"
      BY <2>1 DEF LoadState
    <3> QED
      BY <3>1 DEF RunInv, Running
  <2>2. CASE Readable(LevelFile(0))
    <3>0. PICK c : c = CompletedLevels
      OBVIOUS
    <3>1. /\ current' = c /\ parents' = disk[LevelFile(c)].groups
          /\ pc' = IF c = Levels THEN "copy" ELSE "resume"
      BY <2>2, <3>0 DEF LoadState
    <3>2. /\ c \in 0 .. Levels
          /\ \A x \in 1 .. c : IsCompleted(x)
          /\ c < Levels => ~IsCompleted(c + 1)
      BY <1>2, <3>0, CompletedFacts
    <3>3. LevelFile(c) \in DOMAIN disk /\ Readable(LevelFile(c))
      <4>1. CASE c = 0
        BY <1>1, <2>2, <4>1 DEF TypeInv
      <4>2. CASE c # 0
        <5>1. c \in 1 .. c
          BY <1>2, <3>2, <4>2
        <5> QED
          BY <3>2, <5>1 DEF IsCompleted
      <4> QED
        BY <4>1, <4>2
    <3>4. ASSUME pc' = "resume"
          PROVE  LevelFile(c + 1) \notin DOMAIN disk
      <4>1. c < Levels /\ c + 1 \in 0 .. Levels /\ c + 1 # 0
        BY <1>2, <3>1, <3>2, <3>4
      <4>2. LevelFile(c + 1) \in DOMAIN disk => Readable(LevelFile(c + 1))
        BY <4>1 DEF SaneInv, FileInv
      <4> QED
        BY <3>2, <4>1, <4>2 DEF IsCompleted
    <3>5. Readable(LevelFile(c))'
      BY <1>1, <3>3, SameFile
    <3>6. /\ LevelFile(current') \in DOMAIN disk'
          /\ parents' = disk'[LevelFile(current')].groups
          /\ pc' = "resume" => LevelFile(current' + 1) \notin DOMAIN disk'
      BY <1>1, <3>1, <3>3, <3>4
    <3>7. Readable(LevelFile(current))'
      BY <3>1, <3>5 DEF Readable
    <3>8. pc' \in {"copy", "resume"}
      BY <3>1
    <3> QED
      BY <3>6, <3>7, <3>8 DEF RunInv, Running
  <2> QED
    BY <2>1, <2>2
<1> QED
  BY <1>3, <1>4, <1>5 DEF SaneInv

\* What is known of a level in progress.
LEMMA PartFacts ==
  ASSUME TypeInv, SaneInv, pc \in Running \ {"forget"}
  PROVE  /\ current + 1 \in 1 .. Levels /\ (current + 1) - 1 = current
         /\ current \in Nat /\ Levels \in Nat
         /\ LevelFile(current + 1) \notin DOMAIN disk
         /\ LevelFile(current) \in DOMAIN disk
         /\ Readable(LevelFile(current))
         /\ parents = disk[LevelFile(current)].groups
         /\ Part = PartFile(current + 1)
         /\ \A l : LevelFile(l) # Part
         /\ HasProgress => /\ Part \in DOMAIN disk
                           /\ Recorded = progress[current + 1]
                           /\ Recorded.readable \/ powerLost
                           /\ Recorded.readable /\ Part \in DOMAIN disk => Backed(current + 1)
<1>1. current < Levels /\ Levels \in Nat /\ current \in 0 .. Levels
  BY LevelsNat DEF TypeInv
<1>2. current + 1 \in 1 .. Levels /\ (current + 1) - 1 = current /\ current \in Nat
  BY <1>1
<1>3. /\ LevelFile(current + 1) \notin DOMAIN disk
      /\ LevelFile(current) \in DOMAIN disk
      /\ Readable(LevelFile(current))
      /\ parents = disk[LevelFile(current)].groups
  BY DEF SaneInv, RunInv
<1>4. ASSUME HasProgress
      PROVE  /\ Part \in DOMAIN disk
             /\ Recorded = progress[current + 1]
             /\ Recorded.readable \/ powerLost
             /\ Recorded.readable /\ Part \in DOMAIN disk => Backed(current + 1)
  <2>1. Recorded = progress[current + 1] /\ current + 1 \in DOMAIN progress
    BY <1>4 DEF Recorded, HasProgress
  <2>2. Readable(LevelFile((current + 1) - 1))
    BY <1>2, <1>3
  <2> QED
    BY <1>3, <2>1, <2>2 DEF SaneInv, ProgressInv, Loadable, Part
<1> QED
  BY <1>1, <1>2, <1>3, <1>4, Names DEF Part

LEMMA SaneLoadProgress ==
  ASSUME TypeInv, SaneInv, LoadProgress
  PROVE  SaneInv'
<1>1. /\ UNCHANGED <<progress, current, parents, cardinality, faults, powerLost>>
      /\ pc = "resume" /\ pc' = "open" /\ done = 0 /\ next = <<>>
  BY DEF LoadProgress, env, TypeInv
<1>2. /\ Records' = Records /\ Groups' = Groups /\ Levels' = Levels
      /\ Part' = Part /\ HasProgress' = HasProgress /\ Recorded' = Recorded
  BY <1>1, SameData DEF Part, HasProgress, Recorded
<1>3. PICK m : m = current + 1
  OBVIOUS
<1>4. /\ m \in 1 .. Levels /\ m - 1 = current
      /\ current \in Nat /\ Levels \in Nat
      /\ LevelFile(m) \notin DOMAIN disk
      /\ LevelFile(current) \in DOMAIN disk
      /\ Readable(LevelFile(current))
      /\ parents = disk[LevelFile(current)].groups
      /\ Part = PartFile(m)
      /\ \A l : LevelFile(l) # Part
      /\ HasProgress => /\ Part \in DOMAIN disk
                        /\ Recorded = progress[m]
                        /\ Recorded.readable \/ powerLost
                        /\ Recorded.readable /\ Part \in DOMAIN disk => Backed(m)
  BY <1>1, <1>3, PartFacts DEF Running
<1>5. current < Levels /\ Recorded \in ProgressType
  BY <1>1, RecordedFacts DEF TypeInv, Running
<1>6. CASE Part \in DOMAIN disk /\ Recorded.readable /\ PartReadable(Part, Recorded.lines)
  <2>1. PICK groups : groups = FirstGroups(Part, Recorded.lines)
    OBVIOUS
  <2>2. next' = groups /\ done' = Recorded.parents /\ disk' = Put(disk, Part, Written(groups))
    BY <1>6, <2>1 DEF LoadProgress
  <2>3. PICK file : file = disk[Part].groups
    OBVIOUS
  <2>4. file \in Groups
    BY <1>6, <2>3 DEF TypeInv, FileType
  <2>5. Recorded.lines \in 0 .. Len(file)
    BY <1>5, <1>6, <2>3, <2>4 DEF PartReadable, Groups, ProgressType
  <2>6. /\ groups = SubSeq(file, 1, Recorded.lines) /\ groups \in Groups
        /\ Len(groups) = Recorded.lines
        /\ SubSeq(groups, 1, Recorded.lines) = groups
    <3>1. groups = SubSeq(file, 1, Recorded.lines)
      BY <2>1, <2>3 DEF FirstGroups
    <3>2. groups \in Groups /\ Len(groups) = Recorded.lines
      BY <2>4, <2>5, <3>1, PrefixFacts
    <3>3. Recorded.lines \in 0 .. Len(groups)
      BY <2>5, <3>2
    <3>4. SubSeq(groups, 1, Recorded.lines) = groups
      BY <3>2, <3>3, PrefixFacts
    <3> QED
      BY <3>1, <3>2, <3>4
  <2>7. /\ DOMAIN disk' = DOMAIN disk \cup {PartFile(m)}
        /\ disk'[PartFile(m)].groups = groups
        /\ \A name \in DOMAIN disk : name # PartFile(m) => disk'[name] = disk[name]
    BY <1>4, <2>2 DEF Put, Written
  <2>8. ASSUME HasProgress
        PROVE  /\ Recorded.parents \in 1 .. Len(parents)
               /\ Cut(groups, parents, Recorded.parents)
    <3>1. Backed(m) /\ Recorded = progress[m]
      BY <1>4, <1>6, <2>8
    <3> QED
      BY <1>4, <2>1, <3>1 DEF Backed
  <2>9. ASSUME m \in DOMAIN progress'
        PROVE  (progress'[m].readable \/ powerLost) /\ (Loadable(m)' => Backed(m)')
    <3>1. HasProgress /\ Recorded = progress[m] /\ progress'[m] = progress[m]
      BY <1>1, <1>3, <1>4, <2>9 DEF HasProgress
    <3>2. disk'[LevelFile(m - 1)].groups = parents /\ disk'[PartFile(m)].groups = groups
      BY <1>4, <2>7
    <3>3. /\ progress'[m].parents \in 1 .. Len(parents) /\ progress'[m].lines <= Len(groups)
          /\ SubSeq(groups, 1, progress'[m].lines) = groups
          /\ Cut(groups, parents, progress'[m].parents)
      BY <2>5, <2>6, <2>8, <3>1
    <3>4. Backed(m)'
      BY <1>2, <3>2, <3>3 DEF Backed, FirstGroups, Cut
    <3> QED
      BY <1>6, <3>1, <3>4
  <2>10. FileInv' /\ ProgressInv'
    BY <1>1, <1>4, <2>7, <2>9, OtherFilesStay DEF SaneInv
  <2>11. faults # 0
    BY <1>1, <1>4, <1>6 DEF SaneInv, DurableInv
  <2>12. DurableInv'
    BY <1>1, <2>11 DEF DurableInv
  <2>13. RunInv'
    <3>1. Readable(LevelFile(current))'
      BY <1>1, <1>2, <1>4, <2>7 DEF Readable
    <3>2. /\ LevelFile(current') \in DOMAIN disk'
          /\ parents' = disk'[LevelFile(current')].groups
          /\ LevelFile(current' + 1) \notin DOMAIN disk'
          /\ disk'[Part'].groups = next'
      BY <1>1, <1>2, <1>3, <1>4, <2>2, <2>7
    <3>3. CASE HasProgress
      <4>1. done' \in 1 .. Len(parents') /\ Cut(next', parents', done')
        BY <1>1, <2>2, <2>8, <3>3
      <4>2. Cut(next, parents, done)'
        BY <1>2, <4>1 DEF Cut
      <4> QED
        BY <1>1, <3>1, <3>2, <4>1, <4>2 DEF RunInv, Running
    <3>4. CASE ~HasProgress
      <4>1. done' = 0
        BY <2>2, <3>4 DEF Recorded
      <4> QED
        BY <1>1, <1>2, <3>1, <3>2, <3>4, <4>1 DEF RunInv, Running
    <3> QED
      BY <3>3, <3>4
  <2> QED
    BY <2>10, <2>12, <2>13 DEF SaneInv
<1>7. CASE ~(Part \in DOMAIN disk /\ Recorded.readable /\ PartReadable(Part, Recorded.lines))
  <2>1. UNCHANGED <<next, done, disk>>
    BY <1>7 DEF LoadProgress
  <2>2. FileInv' /\ ProgressInv'
    BY <1>1, <2>1, SameFiles DEF SaneInv
  <2>3. DurableInv'
    <3> SUFFICES ASSUME faults' = 0
                 PROVE  DurableInv'
      BY DEF DurableInv
    <3>1. \A l \in 1 .. Levels : PartFile(l) \notin DOMAIN disk'
      BY <1>1, <2>1 DEF SaneInv, DurableInv
    <3>2. \A l \in 1 .. Levels :
            LevelFile(l) \in DOMAIN disk' =>
              disk'[LevelFile(l)].durable = Len(disk'[LevelFile(l)].groups)
      BY <1>1, <2>1 DEF SaneInv, DurableInv
    <3>3. DOMAIN progress' \subseteq 1 .. Levels
      BY <1>1 DEF TypeInv
    <3> QED
      BY <1>1, <1>2, <3>1, <3>2, <3>3 DEF DurableInv
  <2>4. HasProgress => ~Recorded.readable
    <3> SUFFICES ASSUME HasProgress, Recorded.readable
                 PROVE  FALSE
      OBVIOUS
    <3>1. Part \in DOMAIN disk /\ Backed(m) /\ Recorded = progress[m]
      BY <1>4
    <3>2. PartReadable(Part, Recorded.lines)
      BY <1>4, <3>1 DEF Backed, PartReadable, Cut
    <3> QED
      BY <1>7, <3>1, <3>2
  <2>5. RunInv'
    <3>1. Readable(LevelFile(current))'
      BY <1>1, <1>2, <1>4, <2>1 DEF Readable
    <3>2. /\ LevelFile(current') \in DOMAIN disk'
          /\ parents' = disk'[LevelFile(current')].groups
          /\ LevelFile(current' + 1) \notin DOMAIN disk'
          /\ done' = 0
      BY <1>1, <1>3, <1>4, <2>1
    <3> QED
      BY <1>1, <1>2, <2>4, <3>1, <3>2 DEF RunInv, Running
  <2> QED
    BY <2>2, <2>3, <2>5 DEF SaneInv
<1> QED
  BY <1>6, <1>7

LEMMA SaneOpenPart ==
  ASSUME TypeInv, SaneInv, OpenPart
  PROVE  SaneInv'
<1>1. /\ UNCHANGED <<progress, current, parents, cardinality, faults, powerLost>>
      /\ pc = "open"
  BY DEF OpenPart, env
<1>2. /\ Records' = Records /\ Groups' = Groups /\ Levels' = Levels
      /\ Part' = Part /\ HasProgress' = HasProgress /\ Recorded' = Recorded
  BY <1>1, SameData DEF Part, HasProgress, Recorded
<1>3. PICK m : m = current + 1
  OBVIOUS
<1>4. /\ m \in 1 .. Levels /\ m - 1 = current
      /\ current \in Nat /\ Levels \in Nat
      /\ LevelFile(m) \notin DOMAIN disk
      /\ LevelFile(current) \in DOMAIN disk
      /\ Readable(LevelFile(current))
      /\ parents = disk[LevelFile(current)].groups
      /\ Part = PartFile(m)
      /\ \A l : LevelFile(l) # Part
      /\ HasProgress => /\ Part \in DOMAIN disk
                        /\ Recorded = progress[m]
                        /\ Recorded.readable \/ powerLost
  BY <1>1, <1>3, PartFacts DEF Running
<1>5. /\ Len(parents) \in Nat /\ parents \in Groups
      /\ \/ done = 0 /\ (HasProgress => ~Recorded.readable)
         \/ done \in 1 .. Len(parents)
  BY <1>1, LevelsNat DEF SaneInv, RunInv, TypeInv
<1>6. CASE done \in 1 .. Len(parents)
  <2>1. pc' = AfterParent(done) /\ UNCHANGED <<disk, next, done>>
    BY <1>6 DEF OpenPart
  <2>2. pc' \in {"finish", "split"} /\ (pc' = "finish" => done' = Len(parents'))
    BY <1>1, <2>1 DEF AfterParent
  <2>3. done # 0 /\ Part \in DOMAIN disk
    BY <1>1, <1>5, <1>6 DEF TypeInv
  <2>4. FileInv' /\ ProgressInv'
    BY <1>1, <2>1, <2>2, SameFiles DEF SaneInv
  <2>5. faults # 0
    BY <1>1, <1>4, <2>3 DEF SaneInv, DurableInv
  <2>6. DurableInv'
    BY <1>1, <2>5 DEF DurableInv
  <2>7. RunInv'
    <3>1. Readable(LevelFile(current))'
      BY <1>1, <1>2, <1>4, <2>1 DEF Readable
    <3>2. /\ LevelFile(current') \in DOMAIN disk'
          /\ parents' = disk'[LevelFile(current')].groups
          /\ LevelFile(current' + 1) \notin DOMAIN disk'
      BY <1>1, <1>3, <1>4, <2>1
    <3>3. disk[Part].groups = next /\ Cut(next, parents, done)
      BY <1>1, <2>3 DEF SaneInv, RunInv
    <3>4. (disk[Part].groups = next /\ Cut(next, parents, done))'
      BY <1>1, <1>2, <2>1, <3>3 DEF Cut
    <3> QED
      BY <2>2, <3>1, <3>2, <3>4 DEF RunInv, Running
  <2> QED
    BY <2>4, <2>6, <2>7 DEF SaneInv
<1>7. CASE done \notin 1 .. Len(parents)
  <2>1. pc' = AfterParent(0) /\ disk' = Put(disk, Part, Written(<<>>)) /\ next' = <<>> /\ done' = 0
    BY <1>7 DEF OpenPart
  <2>2. pc' \in {"finish", "split"} /\ (pc' = "finish" => done' = Len(parents'))
    BY <1>1, <2>1 DEF AfterParent
  <2>3. HasProgress => ~Recorded.readable
    BY <1>5, <1>7
  <2>4. /\ DOMAIN disk' = DOMAIN disk \cup {PartFile(m)}
        /\ disk'[PartFile(m)].groups = <<>> /\ disk'[PartFile(m)].durable = 0
        /\ \A name \in DOMAIN disk : name # PartFile(m) => disk'[name] = disk[name]
    BY <1>4, <2>1 DEF Put, Written
  <2>5. ASSUME m \in DOMAIN progress'
        PROVE  (progress'[m].readable \/ powerLost) /\ (Loadable(m)' => Backed(m)')
    <3>1. HasProgress /\ Recorded = progress[m] /\ progress'[m] = progress[m]
      BY <1>1, <1>3, <1>4, <2>5 DEF HasProgress
    <3>2. ~progress'[m].readable
      BY <2>3, <3>1
    <3>3. powerLost
      BY <1>4, <2>3, <3>1
    <3> QED
      BY <3>2, <3>3 DEF Loadable
  <2>6. FileInv' /\ ProgressInv'
    BY <1>1, <1>4, <2>2, <2>4, <2>5, OtherFilesStay DEF SaneInv
  <2>7. DurableInv'
    <3> SUFFICES ASSUME faults' = 0
                 PROVE  DurableInv'
      BY DEF DurableInv
    <3>1. faults = 0 /\ ~powerLost /\ m \notin DOMAIN progress
      <4>1. faults = 0 /\ ~powerLost
        BY <1>1 DEF TypeInv
      <4> QED
        BY <1>3, <1>4, <2>3, <4>1 DEF HasProgress
    <3>2. \A l \in 1 .. Levels : PartFile(l) \notin DOMAIN disk
      BY <1>1, <3>1 DEF SaneInv, DurableInv
    <3>3. \A l \in 1 .. Levels : PartFile(l) \in DOMAIN disk' => l = m
      BY <2>4, <3>2, Names
    <3>4. \A l \in 1 .. Levels :
            LevelFile(l) \in DOMAIN disk' =>
              disk'[LevelFile(l)].durable = Len(disk'[LevelFile(l)].groups)
      <4>1. \A l \in 1 .. Levels :
              LevelFile(l) \in DOMAIN disk =>
                disk[LevelFile(l)].durable = Len(disk[LevelFile(l)].groups)
        BY <3>1 DEF SaneInv, DurableInv
      <4> QED
        BY <1>4, <2>4, <4>1
    <3>5. disk'[Part'].durable = Len(disk'[Part'].groups)
      BY <1>2, <1>4, <2>4
    <3>6. DOMAIN progress' \subseteq 1 .. Levels
      BY <1>1 DEF TypeInv
    <3> QED
      BY <1>1, <1>2, <1>3, <2>2, <3>1, <3>3, <3>4, <3>5, <3>6 DEF DurableInv
  <2>8. RunInv'
    <3>1. Readable(LevelFile(current))'
      BY <1>1, <1>2, <1>4, <2>4 DEF Readable
    <3>2. /\ LevelFile(current') \in DOMAIN disk'
          /\ parents' = disk'[LevelFile(current')].groups
          /\ LevelFile(current' + 1) \notin DOMAIN disk'
          /\ disk'[Part'].groups = next'
      BY <1>1, <1>2, <1>3, <1>4, <2>1, <2>4
    <3>3. Cut(<<>>, parents, 0)
      BY <1>5, NothingIsCut
    <3>4. Cut(next, parents, done)'
      BY <1>1, <1>2, <2>1, <3>3 DEF Cut
    <3> QED
      BY <2>2, <3>1, <3>2, <3>4 DEF RunInv, Running
  <2> QED
    BY <2>6, <2>7, <2>8 DEF SaneInv
<1> QED
  BY <1>6, <1>7

\* Lines that are added to the file in progress leave what was recorded of it.
LEMMA GrowthKeepsBacked ==
  ASSUME UNCHANGED cardinality, NEW m, Backed(m), progress'[m] = progress[m],
         progress[m].lines \in Nat, disk[PartFile(m)].groups \in Groups,
         disk'[LevelFile(m - 1)] = disk[LevelFile(m - 1)],
         NEW h \in Groups, disk'[PartFile(m)].groups = disk[PartFile(m)].groups \o h
  PROVE  Backed(m)'
<1>1. Groups' = Groups
  BY SameData
<1>2. PICK g : g = disk[PartFile(m)].groups
  OBVIOUS
<1>3. PICK n : n = progress[m].lines
  OBVIOUS
<1>4. g \in Groups /\ n \in 0 .. Len(g) /\ Len(g) \in Nat /\ Len(h) \in Nat
  BY <1>2, <1>3 DEF Backed, Groups
<1>5. SubSeq(g \o h, 1, n) = SubSeq(g, 1, n) /\ Len(g \o h) = Len(g) + Len(h)
  BY <1>4, PrefixStays, ConcatFacts
<1>6. n <= Len(g \o h)
  BY <1>4, <1>5
<1> QED
  BY <1>1, <1>2, <1>3, <1>5, <1>6 DEF Backed, FirstGroups, Cut

LEMMA SaneSplitParent ==
  ASSUME TypeInv, SaneInv, SplitParent
  PROVE  SaneInv'
<1>1. /\ UNCHANGED <<progress, current, parents, done, cardinality, faults, powerLost>>
      /\ pc = "split" /\ pc' = "sync" /\ done < Len(parents) /\ done \in Nat
      /\ Part \in DOMAIN disk /\ parents \in Groups /\ next \in Groups
  BY DEF SplitParent, env, TypeInv, Running
<1>2. /\ Records' = Records /\ Groups' = Groups /\ Levels' = Levels /\ Part' = Part
  BY <1>1, SameData DEF Part
<1>3. PICK m : m = current + 1
  OBVIOUS
<1>4. /\ m \in 1 .. Levels /\ m - 1 = current
      /\ current \in Nat /\ Levels \in Nat
      /\ LevelFile(m) \notin DOMAIN disk
      /\ LevelFile(current) \in DOMAIN disk
      /\ Readable(LevelFile(current))
      /\ parents = disk[LevelFile(current)].groups
      /\ Part = PartFile(m)
      /\ \A l : LevelFile(l) # Part
      /\ m \in DOMAIN progress => /\ progress[m].readable \/ powerLost
                                  /\ progress[m].readable => Backed(m)
  BY <1>1, <1>3, PartFacts DEF Running, HasProgress
<1>5. PICK split \in Splits(parents[done + 1]) :
        /\ disk' = [disk EXCEPT ![Part].groups = @ \o split]
        /\ next' = next \o split
  BY DEF SplitParent
<1>6. split \in Groups
  BY <1>1, ParentFacts
<1>7. disk[Part].groups = next /\ Cut(next, parents, done)
  BY <1>1 DEF SaneInv, RunInv
<1>8. /\ DOMAIN disk' = DOMAIN disk \cup {PartFile(m)}
      /\ disk'[PartFile(m)].groups = next'
      /\ \A name \in DOMAIN disk : name # PartFile(m) => disk'[name] = disk[name]
  <2>1. disk[Part] \in FileType
    BY <1>1 DEF TypeInv
  <2> QED
    BY <1>1, <1>4, <1>5, <1>7, <2>1 DEF FileType
<1>9. disk'[PartFile(m)].durable = disk[PartFile(m)].durable
  <2>1. disk[Part] \in FileType
    BY <1>1 DEF TypeInv
  <2> QED
    BY <1>1, <1>4, <1>5, <2>1 DEF FileType
<1>10. ASSUME m \in DOMAIN progress'
       PROVE  (progress'[m].readable \/ powerLost) /\ (Loadable(m)' => Backed(m)')
  <2>1. m \in DOMAIN progress /\ progress'[m] = progress[m]
    BY <1>1, <1>10
  <2>2. ASSUME Loadable(m)'
        PROVE  Backed(m)'
    <3>1. Backed(m)
      BY <1>4, <2>1, <2>2 DEF Loadable
    <3>2. disk'[LevelFile(m - 1)] = disk[LevelFile(m - 1)]
      BY <1>4, <1>8
    <3>3. disk[PartFile(m)].groups \in Groups /\ disk'[PartFile(m)].groups = disk[PartFile(m)].groups \o split
      BY <1>1, <1>4, <1>5, <1>7, <1>8
    <3>4. progress[m].lines \in Nat
      BY <2>1 DEF TypeInv, ProgressType
    <3> QED
      BY <1>1, <1>6, <2>1, <3>1, <3>2, <3>3, <3>4, GrowthKeepsBacked
  <2> QED
    BY <1>4, <2>1, <2>2
<1>11. FileInv' /\ ProgressInv'
  BY <1>1, <1>4, <1>8, <1>10, OtherFilesStay DEF SaneInv
<1>12. DurableInv'
  <2> SUFFICES ASSUME faults' = 0
               PROVE  DurableInv'
    BY DEF DurableInv
  <2>1. \A l \in 1 .. Levels :
          LevelFile(l) \in DOMAIN disk' =>
            disk'[LevelFile(l)].durable = Len(disk'[LevelFile(l)].groups)
    BY <1>1, <1>4, <1>8 DEF SaneInv, DurableInv
  <2>2. \A l \in 1 .. Levels : PartFile(l) \in DOMAIN disk' => l = m
    BY <1>1, <1>3, <1>4, <1>8 DEF SaneInv, DurableInv
  <2>3. \A l \in DOMAIN progress : PartFile(l) \in DOMAIN disk => progress[l].lines <= disk[PartFile(l)].durable
    BY <1>1 DEF SaneInv, DurableInv
  <2>4. \A l \in DOMAIN progress' : PartFile(l) \in DOMAIN disk' => progress'[l].lines <= disk'[PartFile(l)].durable
    <3>1. \A l : PartFile(l) \in DOMAIN disk' =>
                   PartFile(l) \in DOMAIN disk /\ disk'[PartFile(l)].durable = disk[PartFile(l)].durable
      BY <1>1, <1>4, <1>8, <1>9
    <3> QED
      BY <1>1, <2>3, <3>1
  <2> QED
    BY <1>1, <1>2, <1>3, <2>1, <2>2, <2>4 DEF DurableInv
<1>13. RunInv'
  <2>1. Readable(LevelFile(current))'
    BY <1>1, <1>2, <1>4, <1>8 DEF Readable
  <2>2. /\ LevelFile(current') \in DOMAIN disk'
        /\ parents' = disk'[LevelFile(current')].groups
        /\ LevelFile(current' + 1) \notin DOMAIN disk'
        /\ disk'[Part'].groups = next'
    BY <1>1, <1>2, <1>3, <1>4, <1>8
  <2>3. Distinct(parents)
    BY <1>4 DEF Readable
  <2>4. Cut(next \o split, parents, done + 1)
    BY <1>1, <1>7, <2>3, CutGrows
  <2>5. Cut(next, parents, done + 1)'
    BY <1>1, <1>2, <1>5, <2>4 DEF Cut
  <2> QED
    BY <1>1, <2>1, <2>2, <2>5 DEF RunInv, Running
<1> QED
  BY <1>11, <1>12, <1>13 DEF SaneInv

LEMMA SaneSyncPart ==
  ASSUME TypeInv, SaneInv, SyncPart
  PROVE  SaneInv'
<1>1. /\ UNCHANGED <<progress, current, parents, next, done, cardinality, faults, powerLost>>
      /\ pc = "sync" /\ pc' = "record" /\ Part \in DOMAIN disk
      /\ disk' = [disk EXCEPT ![Part].durable = Len(disk[Part].groups)]
  BY DEF SyncPart, env, TypeInv, Running
<1>2. /\ Records' = Records /\ Groups' = Groups /\ Levels' = Levels /\ Part' = Part
  BY <1>1, SameData DEF Part
<1>3. PICK m : m = current + 1
  OBVIOUS
<1>4. /\ m \in 1 .. Levels /\ m - 1 = current
      /\ current \in Nat /\ Levels \in Nat
      /\ LevelFile(m) \notin DOMAIN disk
      /\ LevelFile(current) \in DOMAIN disk
      /\ Readable(LevelFile(current))
      /\ parents = disk[LevelFile(current)].groups
      /\ Part = PartFile(m)
      /\ \A l : LevelFile(l) # Part
      /\ m \in DOMAIN progress => /\ progress[m].readable \/ powerLost
                                  /\ progress[m].readable => Backed(m)
  BY <1>1, <1>3, PartFacts DEF Running, HasProgress
<1>5. /\ DOMAIN disk' = DOMAIN disk \cup {PartFile(m)}
      /\ disk'[PartFile(m)].groups = disk[PartFile(m)].groups
      /\ disk'[PartFile(m)].durable = Len(disk[PartFile(m)].groups)
      /\ \A name \in DOMAIN disk : name # PartFile(m) => disk'[name] = disk[name]
  <2>1. disk[Part] \in FileType
    BY <1>1 DEF TypeInv
  <2> QED
    BY <1>1, <1>4, <2>1 DEF FileType
<1>6. ASSUME m \in DOMAIN progress'
      PROVE  (progress'[m].readable \/ powerLost) /\ (Loadable(m)' => Backed(m)')
  <2>1. m \in DOMAIN progress /\ progress'[m] = progress[m]
    BY <1>1, <1>6
  <2>2. ASSUME Loadable(m)'
        PROVE  Backed(m)'
    <3>1. Backed(m)
      BY <1>4, <2>1, <2>2 DEF Loadable
    <3>2. disk'[LevelFile(m - 1)] = disk[LevelFile(m - 1)]
      BY <1>4, <1>5
    <3> QED
      BY <1>2, <1>5, <2>1, <3>1, <3>2 DEF Backed, FirstGroups, Cut
  <2> QED
    BY <1>4, <2>1, <2>2
<1>7. FileInv' /\ ProgressInv'
  BY <1>1, <1>4, <1>5, <1>6, OtherFilesStay DEF SaneInv
<1>8. disk'[Part'].groups = next' /\ Cut(next, parents, done + 1)'
  <2>1. disk[Part].groups = next /\ Cut(next, parents, done + 1)
    BY <1>1 DEF SaneInv, RunInv
  <2> QED
    BY <1>1, <1>2, <1>4, <1>5, <2>1 DEF Cut
<1>9. DurableInv'
  <2> SUFFICES ASSUME faults' = 0
               PROVE  DurableInv'
    BY DEF DurableInv
  <2>1. \A l \in 1 .. Levels :
          LevelFile(l) \in DOMAIN disk' =>
            disk'[LevelFile(l)].durable = Len(disk'[LevelFile(l)].groups)
    BY <1>1, <1>4, <1>5 DEF SaneInv, DurableInv
  <2>2. \A l \in 1 .. Levels : PartFile(l) \in DOMAIN disk' => l = m
    BY <1>1, <1>3, <1>4, <1>5 DEF SaneInv, DurableInv
  <2>3. ASSUME NEW l \in DOMAIN progress', PartFile(l) \in DOMAIN disk'
        PROVE  progress'[l].lines <= disk'[PartFile(l)].durable
    <3>1. l \in DOMAIN progress /\ progress'[l] = progress[l] /\ PartFile(l) \in DOMAIN disk
          /\ l \in 1 .. Levels
      BY <1>1, <1>4, <1>5, <2>3 DEF TypeInv
    <3>2. l = m
      BY <2>2, <2>3, <3>1
    <3>3. faults = 0 /\ ~powerLost
      BY <1>1 DEF TypeInv
    <3>4. Backed(m)
      BY <1>4, <3>1, <3>2, <3>3
    <3> QED
      BY <1>5, <3>1, <3>2, <3>4 DEF Backed
  <2>4. disk'[Part'].durable = Len(disk'[Part'].groups)
    BY <1>2, <1>4, <1>5
  <2> QED
    BY <1>1, <1>2, <1>3, <2>1, <2>2, <2>3, <2>4 DEF DurableInv
<1>10. RunInv'
  <2>1. Readable(LevelFile(current))'
    BY <1>1, <1>2, <1>4, <1>5 DEF Readable
  <2>2. /\ LevelFile(current') \in DOMAIN disk'
        /\ parents' = disk'[LevelFile(current')].groups
        /\ LevelFile(current' + 1) \notin DOMAIN disk'
    BY <1>1, <1>2, <1>3, <1>4, <1>5
  <2> QED
    BY <1>1, <1>8, <2>1, <2>2 DEF RunInv, Running
<1> QED
  BY <1>7, <1>9, <1>10 DEF SaneInv

LEMMA SaneRecordProgress ==
  ASSUME TypeInv, SaneInv, RecordProgress
  PROVE  SaneInv'
<1>1. /\ UNCHANGED <<disk, current, parents, next, cardinality, faults, powerLost>>
      /\ pc = "record" /\ Part \in DOMAIN disk
      /\ done < Len(parents) /\ done \in Nat /\ next \in Groups
      /\ done' = done + 1 /\ pc' = AfterParent(done + 1)
      /\ progress' = Put(progress, current + 1,
                         [parents |-> done + 1, lines |-> Len(next), readable |-> TRUE])
  BY DEF RecordProgress, env, TypeInv
<1>2. /\ Records' = Records /\ Groups' = Groups /\ Levels' = Levels /\ Part' = Part
  BY <1>1, SameData DEF Part
<1>3. PICK m : m = current + 1
  OBVIOUS
<1>4. /\ m \in 1 .. Levels /\ m - 1 = current
      /\ current \in Nat /\ Levels \in Nat
      /\ LevelFile(m) \notin DOMAIN disk
      /\ LevelFile(current) \in DOMAIN disk
      /\ Readable(LevelFile(current))
      /\ parents = disk[LevelFile(current)].groups
      /\ Part = PartFile(m)
  BY <1>1, <1>3, PartFacts DEF Running
<1>5. pc' \in {"finish", "split"} /\ (pc' = "finish" => done' = Len(parents'))
  BY <1>1 DEF AfterParent
<1>6. disk[Part].groups = next /\ Cut(next, parents, done + 1)
  BY <1>1 DEF SaneInv, RunInv
<1>7. /\ DOMAIN progress' = DOMAIN progress \cup {m}
      /\ \A l \in DOMAIN progress' : l # m => l \in DOMAIN progress /\ progress'[l] = progress[l]
      /\ progress'[m].parents = done + 1 /\ progress'[m].lines = Len(next) /\ progress'[m].readable
  BY <1>1, <1>3 DEF Put
<1>8. Backed(m)'
  <2>1. Len(next) \in Nat /\ Len(parents) \in Nat
    BY LevelsNat
  <2>2. Len(next) \in 0 .. Len(next) /\ done + 1 \in 1 .. Len(parents)
    BY <1>1, <2>1
  <2>3. SubSeq(next, 1, Len(next)) = next
    BY <1>1, <2>2, PrefixFacts
  <2>4. disk'[PartFile(m)].groups = next /\ disk'[LevelFile(m - 1)].groups = parents
    BY <1>1, <1>4, <1>6
  <2>5. Len(next) <= Len(next)
    BY <2>1
  <2> QED
    BY <1>2, <1>6, <1>7, <2>2, <2>3, <2>4, <2>5 DEF Backed, FirstGroups, Cut
<1>9. FileInv' /\ ProgressInv'
  <2>1. DOMAIN disk' = DOMAIN disk \cup {PartFile(m)} /\ \A name \in DOMAIN disk : disk'[name] = disk[name]
    BY <1>1, <1>4
  <2>2. pc' # "done"
    BY <1>5
  <2> QED
    BY <1>1, <1>4, <1>7, <1>8, <2>1, <2>2, OtherFilesStay DEF SaneInv
<1>10. DurableInv'
  <2> SUFFICES ASSUME faults' = 0
               PROVE  DurableInv'
    BY DEF DurableInv
  <2>1. /\ \A l \in 1 .. Levels :
             LevelFile(l) \in DOMAIN disk =>
               disk[LevelFile(l)].durable = Len(disk[LevelFile(l)].groups)
        /\ \A l \in 1 .. Levels : PartFile(l) \in DOMAIN disk => l = m
        /\ \A l \in DOMAIN progress : PartFile(l) \in DOMAIN disk => progress[l].lines <= disk[PartFile(l)].durable
        /\ disk[Part].durable = Len(disk[Part].groups)
    BY <1>1, <1>3 DEF SaneInv, DurableInv
  <2>2. ASSUME NEW l \in DOMAIN progress', PartFile(l) \in DOMAIN disk'
        PROVE  progress'[l].lines <= disk'[PartFile(l)].durable
    <3>1. CASE l = m
      <4>1. Len(next) <= Len(next)
        BY LevelsNat
      <4> QED
        BY <1>1, <1>4, <1>6, <1>7, <2>1, <3>1, <4>1
    <3>2. CASE l # m
      BY <1>1, <1>7, <2>1, <2>2, <3>2
    <3> QED
      BY <3>1, <3>2
  <2> QED
    BY <1>1, <1>2, <1>3, <1>5, <2>1, <2>2 DEF DurableInv
<1>11. RunInv'
  <2>1. Readable(LevelFile(current))'
    BY <1>1, <1>2, <1>4 DEF Readable
  <2>2. /\ LevelFile(current') \in DOMAIN disk'
        /\ parents' = disk'[LevelFile(current')].groups
        /\ LevelFile(current' + 1) \notin DOMAIN disk'
        /\ disk'[Part'].groups = next'
    BY <1>1, <1>2, <1>3, <1>4, <1>6
  <2>3. Cut(next, parents, done)'
    BY <1>1, <1>2, <1>6 DEF Cut
  <2> QED
    BY <1>5, <2>1, <2>2, <2>3 DEF RunInv, Running
<1> QED
  BY <1>9, <1>10, <1>11 DEF SaneInv

LEMMA SaneFinishLevel ==
  ASSUME TypeInv, SaneInv, FinishLevel
  PROVE  SaneInv'
<1>1. /\ UNCHANGED <<progress, current, parents, next, done, cardinality, faults, powerLost>>
      /\ pc = "finish" /\ pc' = "forget" /\ Part \in DOMAIN disk
      /\ disk' = Without(Put(disk, LevelFile(current + 1), disk[Part]), Part)
      /\ parents \in Groups
  BY DEF FinishLevel, env, TypeInv
<1>2. /\ Records' = Records /\ Groups' = Groups /\ Levels' = Levels
  BY <1>1, SameData
<1>3. PICK m : m = current + 1
  OBVIOUS
<1>4. /\ m \in 1 .. Levels /\ m - 1 = current
      /\ current \in Nat /\ Levels \in Nat
      /\ LevelFile(m) \notin DOMAIN disk
      /\ LevelFile(current) \in DOMAIN disk
      /\ Readable(LevelFile(current))
      /\ parents = disk[LevelFile(current)].groups
      /\ Part = PartFile(m)
  BY <1>1, <1>3, PartFacts DEF Running
<1>5. /\ disk[Part].groups = next /\ Cut(next, parents, Len(parents))
  BY <1>1 DEF SaneInv, RunInv
<1>6. /\ DOMAIN disk' = (DOMAIN disk \cup {LevelFile(m)}) \ {PartFile(m)}
      /\ disk'[LevelFile(m)] = disk[PartFile(m)]
      /\ \A name \in DOMAIN disk : name # PartFile(m) => disk'[name] = disk[name]
  <2> DEFINE put == Put(disk, LevelFile(m), disk[PartFile(m)])
  <2>1. /\ DOMAIN put = DOMAIN disk \cup {LevelFile(m)} /\ put[LevelFile(m)] = disk[PartFile(m)]
        /\ \A name \in DOMAIN disk : name # LevelFile(m) => put[name] = disk[name]
    BY DEF Put
  <2>2. disk' = Without(put, PartFile(m))
    BY <1>1, <1>3, <1>4
  <2> HIDE DEF put
  <2>3. DOMAIN disk' = DOMAIN put \ {PartFile(m)}
        /\ \A name \in DOMAIN put : name # PartFile(m) => disk'[name] = put[name]
    BY <2>2 DEF Without
  <2> QED
    BY <1>4, <2>1, <2>3, Names
<1>7. /\ FinalFile \in DOMAIN disk' => FinalFile \in DOMAIN disk
      /\ FinalFile # PartFile(m)
      /\ \A l : LevelFile(l) # PartFile(m)
      /\ \A l : LevelFile(l) \in DOMAIN disk' <=> LevelFile(l) \in DOMAIN disk \/ l = m
      /\ \A l : PartFile(l) \in DOMAIN disk' <=> PartFile(l) \in DOMAIN disk /\ l # m
  BY <1>6, Names
<1>8. \A name \in DOMAIN disk : name # PartFile(m) => (Readable(name)' <=> Readable(name))
  BY <1>1, <1>6, SameFile
<1>9. disk'[LevelFile(m)].groups = next /\ Distinct(next) /\ Members(next) = Records
      /\ Refines(next, parents)
  <2>1. Members(next) = Members(parents)
    BY <1>1, <1>5, WholeCut
  <2> QED
    BY <1>4, <1>5, <1>6, <2>1 DEF Readable, Cut
<1>10. Readable(LevelFile(m))'
  BY <1>2, <1>9 DEF Readable
<1>11. \A l \in 1 .. Levels : l # m /\ LevelFile(l) \in DOMAIN disk => l - 1 # m
  BY <1>4 DEF SaneInv, FileInv
<1>12. \A l \in 1 .. Levels : PartFile(l) \in DOMAIN disk /\ l # m => l - 1 # m
  BY <1>4 DEF SaneInv, FileInv
<1>13. FileInv'
  <2>1. (FinalFile \in DOMAIN disk => Readable(FinalFile) \/ (powerLost /\ pc # "done"))'
    BY <1>1, <1>7, <1>8 DEF SaneInv, FileInv
  <2>2. ASSUME NEW l \in 0 .. Levels, LevelFile(l) \in DOMAIN disk'
        PROVE  Readable(LevelFile(l))' \/ (powerLost' /\ l = 0)
    <3>1. CASE l = m
      BY <1>10, <3>1
    <3>2. CASE l # m
      BY <1>1, <1>7, <1>8, <2>2, <3>2 DEF SaneInv, FileInv
    <3> QED
      BY <3>1, <3>2
  <2>3. ASSUME NEW l \in 1 .. Levels, LevelFile(l) \in DOMAIN disk'
        PROVE  /\ PartFile(l) \notin DOMAIN disk'
               /\ LevelFile(l - 1) \in DOMAIN disk'
               /\ \/ Refines(disk'[LevelFile(l)].groups, disk'[LevelFile(l - 1)].groups)
                  \/ powerLost' /\ l = 1
    <3>1. CASE l = m
      <4>1. LevelFile(m - 1) \in DOMAIN disk' /\ disk'[LevelFile(m - 1)].groups = parents
        BY <1>4, <1>6, <1>7
      <4> QED
        BY <1>7, <1>9, <3>1, <4>1
    <3>2. CASE l # m
      <4>1. LevelFile(l) \in DOMAIN disk
        BY <1>7, <2>3, <3>2
      <4>2. /\ PartFile(l) \notin DOMAIN disk
            /\ LevelFile(l - 1) \in DOMAIN disk
            /\ \/ Refines(disk[LevelFile(l)].groups, disk[LevelFile(l - 1)].groups)
               \/ powerLost /\ l = 1
        BY <4>1 DEF SaneInv, FileInv
      <4>3. disk'[LevelFile(l)] = disk[LevelFile(l)] /\ disk'[LevelFile(l - 1)] = disk[LevelFile(l - 1)]
        BY <1>6, <1>7, <4>1, <4>2
      <4> QED
        BY <1>1, <1>7, <4>2, <4>3
    <3> QED
      BY <3>1, <3>2
  <2>4. ASSUME NEW l \in 1 .. Levels, PartFile(l) \in DOMAIN disk'
        PROVE  LevelFile(l - 1) \in DOMAIN disk'
    BY <1>7, <2>4 DEF SaneInv, FileInv
  <2>5. pc' # "done"
    BY <1>1
  <2> QED
    BY <1>2, <2>1, <2>2, <2>3, <2>4, <2>5 DEF FileInv
<1>14. ASSUME NEW l \in DOMAIN progress'
       PROVE  /\ PartFile(l) \in DOMAIN disk' \/ LevelFile(l) \in DOMAIN disk'
              /\ progress'[l].readable \/ powerLost'
              /\ Loadable(l)' => Backed(l)'
  <2>1. l \in DOMAIN progress /\ progress'[l] = progress[l] /\ l \in 1 .. Levels
    BY <1>1 DEF TypeInv
  <2>2. /\ PartFile(l) \in DOMAIN disk \/ LevelFile(l) \in DOMAIN disk
        /\ progress[l].readable \/ powerLost
        /\ Loadable(l) => Backed(l)
    BY <2>1 DEF SaneInv, ProgressInv
  <2>3. ASSUME Loadable(l)'
        PROVE  Backed(l)'
    <3>1. PartFile(l) \in DOMAIN disk /\ l # m
      BY <1>7, <2>3 DEF Loadable
    <3>2. LevelFile(l - 1) \in DOMAIN disk /\ l - 1 # m
      BY <1>12, <2>1, <3>1 DEF SaneInv, FileInv
    <3>3. disk'[PartFile(l)] = disk[PartFile(l)] /\ disk'[LevelFile(l - 1)] = disk[LevelFile(l - 1)]
      BY <1>6, <1>7, <3>1, <3>2, Names
    <3>4. Loadable(l)
      BY <1>7, <1>8, <2>1, <2>3, <3>1, <3>2 DEF Loadable
    <3> QED
      BY <1>1, <2>1, <2>2, <3>3, <3>4, SameFile
  <2> QED
    BY <1>1, <1>7, <2>1, <2>2, <2>3
<1>15. ProgressInv'
  BY <1>14 DEF ProgressInv
<1>16. DurableInv'
  <2> SUFFICES ASSUME faults' = 0
               PROVE  DurableInv'
    BY DEF DurableInv
  <2>1. /\ \A l \in 1 .. Levels :
             LevelFile(l) \in DOMAIN disk =>
               disk[LevelFile(l)].durable = Len(disk[LevelFile(l)].groups)
        /\ \A l \in 1 .. Levels : PartFile(l) \in DOMAIN disk => l = m
        /\ disk[Part].durable = Len(disk[Part].groups)
    BY <1>1, <1>3 DEF SaneInv, DurableInv
  <2>2. \A l \in 1 .. Levels : PartFile(l) \notin DOMAIN disk'
    BY <1>7, <2>1
  <2>3. ASSUME NEW l \in 1 .. Levels, LevelFile(l) \in DOMAIN disk'
        PROVE  disk'[LevelFile(l)].durable = Len(disk'[LevelFile(l)].groups)
    <3>1. CASE l = m
      BY <1>4, <1>6, <2>1, <3>1
    <3>2. CASE l # m
      BY <1>6, <1>7, <2>1, <2>3, <3>2
    <3> QED
      BY <3>1, <3>2
  <2>4. DOMAIN progress' \subseteq 1 .. Levels
    BY <1>1 DEF TypeInv
  <2> QED
    BY <1>1, <1>2, <2>2, <2>3, <2>4 DEF DurableInv
<1>17. RunInv'
  <2>1. Readable(LevelFile(current))'
    BY <1>1, <1>2, <1>4, <1>6, <1>7 DEF Readable
  <2>2. /\ LevelFile(current') \in DOMAIN disk'
        /\ parents' = disk'[LevelFile(current')].groups
        /\ disk'[LevelFile(current' + 1)].groups = next'
    BY <1>1, <1>3, <1>4, <1>6, <1>7, <1>9
  <2>3. ASSUME current' + 1 < Levels'
        PROVE  LevelFile(current' + 2) \notin DOMAIN disk'
    <3>1. current + 2 \in 1 .. Levels /\ (current + 2) - 1 = m /\ current + 2 # m
      BY <1>1, <1>2, <1>3, <1>4, <2>3
    <3>2. LevelFile(current + 2) \notin DOMAIN disk
      BY <1>11, <3>1
    <3> QED
      BY <1>1, <1>7, <3>1, <3>2
  <2> QED
    BY <1>1, <2>1, <2>2, <2>3 DEF RunInv, Running
<1> QED
  BY <1>13, <1>15, <1>16, <1>17 DEF SaneInv

LEMMA SaneForgetProgress ==
  ASSUME TypeInv, SaneInv, ForgetProgress
  PROVE  SaneInv'
<1>1. /\ UNCHANGED <<disk, cardinality, faults, powerLost>>
      /\ pc = "forget" /\ current < Levels /\ current' = current + 1 /\ parents' = next
      /\ done' = 0 /\ progress' = Without(progress, current + 1)
      /\ pc' = IF current + 1 = Levels THEN "copy" ELSE "resume"
      /\ LevelFile(current + 1) \in DOMAIN disk
  BY DEF ForgetProgress, env, TypeInv, Running
<1>2. /\ Records' = Records /\ Levels' = Levels /\ Levels \in Nat /\ current \in Nat
      /\ current + 1 \in 1 .. Levels /\ pc' \in {"copy", "resume"}
      /\ pc' = "resume" => current + 1 < Levels
  BY <1>1, SameData, LevelsNat DEF TypeInv
<1>3. /\ \A name : Readable(name)' <=> Readable(name)
      /\ DOMAIN progress' \subseteq DOMAIN progress
      /\ \A l \in DOMAIN progress' : progress'[l] = progress[l]
  BY <1>1, SameFile DEF Without
<1>4. FileInv'
  BY <1>1, <1>2, <1>3 DEF SaneInv, FileInv
<1>5. ASSUME NEW l \in DOMAIN progress'
      PROVE  /\ PartFile(l) \in DOMAIN disk' \/ LevelFile(l) \in DOMAIN disk'
             /\ progress'[l].readable \/ powerLost'
             /\ Loadable(l)' => Backed(l)'
  <2>1. l \in DOMAIN progress /\ progress'[l] = progress[l]
    BY <1>3
  <2>2. Backed(l)' <=> Backed(l)
    BY <1>1, <2>1, SameFile
  <2>3. Loadable(l)' => Loadable(l)
    BY <1>1, <1>3, <2>1 DEF Loadable
  <2> QED
    BY <1>1, <2>1, <2>2, <2>3 DEF SaneInv, ProgressInv
<1>6. ProgressInv'
  BY <1>5 DEF ProgressInv
<1>7. DurableInv'
  <2> SUFFICES ASSUME faults' = 0
               PROVE  DurableInv'
    BY DEF DurableInv
  <2>1. \A l \in 1 .. Levels : PartFile(l) \notin DOMAIN disk'
    BY <1>1 DEF SaneInv, DurableInv
  <2>2. \A l \in 1 .. Levels :
          LevelFile(l) \in DOMAIN disk' =>
            disk'[LevelFile(l)].durable = Len(disk'[LevelFile(l)].groups)
    BY <1>1 DEF SaneInv, DurableInv
  <2>3. DOMAIN progress' \subseteq 1 .. Levels
    BY <1>3 DEF TypeInv
  <2> QED
    BY <1>2, <2>1, <2>2, <2>3 DEF DurableInv
<1>8. RunInv'
  <2>1. disk[LevelFile(current + 1)].groups = next
        /\ (current + 1 < Levels => LevelFile(current + 2) \notin DOMAIN disk)
    BY <1>1 DEF SaneInv, RunInv
  <2>2. Readable(LevelFile(current + 1))
    BY <1>1, <1>2 DEF SaneInv, FileInv
  <2>3. Readable(LevelFile(current))'
    BY <1>1, <1>2, <2>2 DEF Readable
  <2>4. current' + 1 = current + 2
    BY <1>1, <1>2
  <2>5. /\ LevelFile(current') \in DOMAIN disk'
        /\ parents' = disk'[LevelFile(current')].groups
        /\ pc' = "resume" => LevelFile(current' + 1) \notin DOMAIN disk'
    BY <1>1, <1>2, <2>1, <2>4
  <2> QED
    BY <1>2, <2>3, <2>5 DEF RunInv, Running
<1> QED
  BY <1>4, <1>6, <1>7, <1>8 DEF SaneInv

LEMMA SaneCopyFinal ==
  ASSUME TypeInv, SaneInv, CopyFinal
  PROVE  SaneInv'
<1>1. /\ UNCHANGED <<progress, cardinality, faults, powerLost>>
      /\ pc = "copy" /\ pc' = "done"
      /\ disk' = Put(disk, FinalFile, Written(disk[LevelFile(Levels)].groups))
      /\ LevelFile(Levels) \in DOMAIN disk /\ current = Levels
  BY DEF CopyFinal, env, TypeInv
<1>2. /\ Records' = Records /\ Levels' = Levels
  BY <1>1, SameData
<1>3. Readable(LevelFile(Levels))
  BY <1>1 DEF SaneInv, RunInv
<1>4. /\ DOMAIN disk' = DOMAIN disk \cup {FinalFile}
      /\ disk'[FinalFile].groups = disk[LevelFile(Levels)].groups
      /\ \A name \in DOMAIN disk : name # FinalFile => disk'[name] = disk[name]
  BY <1>1 DEF Put, Written
<1>5. Readable(FinalFile)'
  BY <1>2, <1>3, <1>4 DEF Readable
<1>6. /\ \A l : LevelFile(l) \in DOMAIN disk' <=> LevelFile(l) \in DOMAIN disk
      /\ \A l : PartFile(l) \in DOMAIN disk' <=> PartFile(l) \in DOMAIN disk
      /\ \A l : LevelFile(l) \in DOMAIN disk =>
                  disk'[LevelFile(l)] = disk[LevelFile(l)]
                  /\ (Readable(LevelFile(l))' <=> Readable(LevelFile(l)))
      /\ \A l : PartFile(l) \in DOMAIN disk => disk'[PartFile(l)] = disk[PartFile(l)]
  <2>1. \A l : LevelFile(l) # FinalFile /\ PartFile(l) # FinalFile
    BY Names
  <2> QED
    BY <1>1, <1>4, <2>1, SameFile
<1>7. FileInv'
  <2>1. \A l \in 1 .. Levels :
          LevelFile(l) \in DOMAIN disk' =>
            /\ PartFile(l) \notin DOMAIN disk'
            /\ LevelFile(l - 1) \in DOMAIN disk'
            /\ \/ Refines(disk'[LevelFile(l)].groups, disk'[LevelFile(l - 1)].groups)
               \/ powerLost' /\ l = 1
    BY <1>1, <1>6 DEF SaneInv, FileInv
  <2>2. \A l \in 0 .. Levels :
          LevelFile(l) \in DOMAIN disk' => Readable(LevelFile(l))' \/ (powerLost' /\ l = 0)
    BY <1>1, <1>6 DEF SaneInv, FileInv
  <2>3. \A l \in 1 .. Levels : PartFile(l) \in DOMAIN disk' => LevelFile(l - 1) \in DOMAIN disk'
    BY <1>6 DEF SaneInv, FileInv
  <2>4. FinalFile \in DOMAIN disk'
    BY <1>4
  <2> QED
    BY <1>2, <1>5, <2>1, <2>2, <2>3, <2>4 DEF FileInv
<1>8. ASSUME NEW l \in DOMAIN progress'
      PROVE  /\ PartFile(l) \in DOMAIN disk' \/ LevelFile(l) \in DOMAIN disk'
             /\ progress'[l].readable \/ powerLost'
             /\ Loadable(l)' => Backed(l)'
  <2>1. l \in DOMAIN progress /\ progress'[l] = progress[l] /\ l \in 1 .. Levels
    BY <1>1 DEF TypeInv
  <2>2. ASSUME Loadable(l)'
        PROVE  Backed(l)'
    <3>1. PartFile(l) \in DOMAIN disk
      BY <1>6, <2>2 DEF Loadable
    <3>2. LevelFile(l - 1) \in DOMAIN disk
      BY <2>1, <3>1 DEF SaneInv, FileInv
    <3>3. Loadable(l)
      BY <1>6, <2>1, <2>2, <3>1, <3>2 DEF Loadable
    <3>4. Backed(l)
      BY <2>1, <3>3 DEF SaneInv, ProgressInv
    <3> QED
      BY <1>1, <1>6, <2>1, <3>1, <3>2, <3>4, SameFile
  <2> QED
    BY <1>1, <1>6, <2>1, <2>2 DEF SaneInv, ProgressInv
<1>9. ProgressInv'
  BY <1>8 DEF ProgressInv
<1>10. DurableInv'
  <2> SUFFICES ASSUME faults' = 0
               PROVE  DurableInv'
    BY DEF DurableInv
  <2>1. \A l \in 1 .. Levels : PartFile(l) \notin DOMAIN disk'
    BY <1>1, <1>6 DEF SaneInv, DurableInv
  <2>2. \A l \in 1 .. Levels :
          LevelFile(l) \in DOMAIN disk' =>
            disk'[LevelFile(l)].durable = Len(disk'[LevelFile(l)].groups)
    BY <1>1, <1>6 DEF SaneInv, DurableInv
  <2>3. DOMAIN progress' \subseteq 1 .. Levels
    BY <1>1 DEF TypeInv
  <2> QED
    BY <1>1, <1>2, <2>1, <2>2, <2>3 DEF DurableInv
<1>11. RunInv'
  BY <1>1 DEF RunInv, Running
<1> QED
  BY <1>7, <1>9, <1>10, <1>11 DEF SaneInv

-------------------------------------------------------------------------------
(* Faults. *)
LEMMA SaneKill ==
  ASSUME TypeInv, SaneInv, ~powerLost, Kill
  PROVE  SaneInv'
<1>1. /\ UNCHANGED <<progress, cardinality>> /\ pc' = "off"
      /\ faults' = faults + 1 /\ faults \in Nat
  BY DEF Kill, Fault, TypeInv
<1>2. powerLost' = powerLost
  <2>1. powerLost = FALSE /\ powerLost' = (powerLost \/ "kill" = "power_loss")
    BY DEF Kill, Fault, TypeInv
  <2> QED
    BY <2>1
<1>3. RunInv' /\ DurableInv'
  <2>1. faults' # 0
    BY <1>1
  <2> QED
    BY <1>1, <2>1 DEF RunInv, DurableInv, Running
<1>4. FileInv' /\ ProgressInv'
  <2>1. CASE pc # "split"
    <3>1. disk' = disk
      BY <2>1 DEF Kill
    <3> QED
      BY <1>1, <1>2, <3>1, SameFiles DEF SaneInv
  <2>2. CASE pc = "split"
    <3>1. PICK split \in Splits(parents[done + 1]) :
            \E lines \in CutOff(split) : disk' = [disk EXCEPT ![Part].groups = @ \o lines]
      BY <2>2 DEF Kill
    <3>2. PICK lines \in CutOff(split) : disk' = [disk EXCEPT ![Part].groups = @ \o lines]
      BY <3>1
    <3>3. Part \in DOMAIN disk /\ done < Len(parents) /\ next \in Groups
      BY <2>2 DEF TypeInv
    <3>4. lines \in Groups
      BY <3>3, ParentFacts, CutOffFacts
    <3>5. PICK m : m = current + 1
      OBVIOUS
    <3>6. /\ m \in 1 .. Levels /\ m - 1 = current
          /\ LevelFile(m) \notin DOMAIN disk
          /\ LevelFile(current) \in DOMAIN disk
          /\ Readable(LevelFile(current))
          /\ Part = PartFile(m)
          /\ \A l : LevelFile(l) # Part
          /\ m \in DOMAIN progress => /\ progress[m].readable \/ powerLost
                                      /\ progress[m].readable => Backed(m)
      BY <2>2, <3>5, PartFacts DEF Running, HasProgress
    <3>7. disk[Part].groups = next
      BY <2>2 DEF SaneInv, RunInv
    <3>8. /\ DOMAIN disk' = DOMAIN disk \cup {PartFile(m)}
          /\ disk'[PartFile(m)].groups = disk[PartFile(m)].groups \o lines
          /\ \A name \in DOMAIN disk : name # PartFile(m) => disk'[name] = disk[name]
      <4>1. disk[Part] \in FileType
        BY <3>3 DEF TypeInv
      <4> QED
        BY <3>2, <3>3, <3>6, <4>1 DEF FileType
    <3>9. ASSUME m \in DOMAIN progress'
          PROVE  (progress'[m].readable \/ powerLost) /\ (Loadable(m)' => Backed(m)')
      <4>1. m \in DOMAIN progress /\ progress'[m] = progress[m]
        BY <1>1, <3>9
      <4>2. ASSUME Loadable(m)'
            PROVE  Backed(m)'
        <5>1. Backed(m)
          BY <3>6, <4>1, <4>2 DEF Loadable
        <5>2. disk'[LevelFile(m - 1)] = disk[LevelFile(m - 1)]
          BY <3>6, <3>8
        <5>3. progress[m].lines \in Nat
          BY <4>1 DEF TypeInv, ProgressType
        <5>4. disk[PartFile(m)].groups \in Groups
          BY <3>3, <3>6, <3>7
        <5> QED
          BY <1>1, <3>4, <3>8, <4>1, <5>1, <5>2, <5>3, <5>4, GrowthKeepsBacked
      <4> QED
        BY <3>6, <4>1, <4>2
    <3> QED
      BY <1>1, <1>2, <3>6, <3>8, <3>9, OtherFilesStay DEF SaneInv
  <2> QED
    BY <2>1, <2>2
<1> QED
  BY <1>3, <1>4 DEF SaneInv

\* The first fault of all.
LEMMA SanePowerLoss ==
  ASSUME TypeInv, SaneInv, faults = 0, PowerLoss
  PROVE  SaneInv'
<1>1. /\ UNCHANGED cardinality /\ pc' = "off" /\ faults' = faults + 1
      /\ powerLost' /\ ~powerLost
  <2>1. /\ UNCHANGED cardinality /\ pc' = "off" /\ faults' = faults + 1
        /\ powerLost' = (powerLost \/ "power_loss" = "power_loss")
    BY DEF PowerLoss, Fault
  <2>2. powerLost'
    BY <2>1
  <2>3. powerLost => faults > 0
    BY DEF TypeInv
  <2>4. ~(0 > 0)
    OBVIOUS
  <2> QED
    BY <2>1, <2>2, <2>3, <2>4
<1>2. Records' = Records /\ Groups' = Groups /\ Levels' = Levels
  BY <1>1, SameData
<1>3. RunInv' /\ DurableInv'
  <2>1. faults' # 0
    BY <1>1
  <2> QED
    BY <1>1, <2>1 DEF RunInv, DurableInv, Running
<1>4. /\ DOMAIN disk' = DOMAIN disk /\ DOMAIN progress' = DOMAIN progress
      /\ \A name \in DOMAIN disk :
           \/ disk'[name] = disk[name]
           \/ disk'[name].groups = SubSeq(disk[name].groups, 1, disk[name].durable)
      /\ \A l \in DOMAIN progress :
           /\ progress'[l].parents = progress[l].parents
           /\ progress'[l].lines = progress[l].lines
           /\ progress'[l].readable => progress[l].readable
  BY LossFacts
<1>5. \A name \in DOMAIN disk :
        /\ disk[name].groups \in Groups
        /\ disk[name].durable \in 0 .. Len(disk[name].groups)
  <2> SUFFICES ASSUME NEW name \in DOMAIN disk
               PROVE  /\ disk[name].groups \in Groups
                      /\ disk[name].durable \in 0 .. Len(disk[name].groups)
    OBVIOUS
  <2>1. PICK file : file = disk[name]
    OBVIOUS
  <2>2. file \in FileType /\ file.durable <= Len(file.groups)
    BY <2>1 DEF TypeInv
  <2>3. file.groups \in Groups /\ file.durable \in Nat
    BY <2>2 DEF FileType
  <2>4. Len(file.groups) \in Nat
    BY <2>3 DEF Groups
  <2>5. file.durable \in 0 .. Len(file.groups)
    BY <2>2, <2>3, <2>4
  <2> QED
    BY <2>1, <2>3, <2>5
\* The file of a level that was split from another is whole.
<1>6. ASSUME NEW l \in 1 .. Levels, LevelFile(l) \in DOMAIN disk
      PROVE  disk'[LevelFile(l)].groups = disk[LevelFile(l)].groups
  <2>1. disk[LevelFile(l)].durable = Len(disk[LevelFile(l)].groups)
    BY <1>6 DEF SaneInv, DurableInv
  <2>2. SubSeq(disk[LevelFile(l)].groups, 1, disk[LevelFile(l)].durable) = disk[LevelFile(l)].groups
    BY <1>5, <1>6, <2>1, PrefixFacts
  <2> QED
    BY <1>4, <1>6, <2>2
\* What is readable of the file of level 0 is the whole file.
<1>7. ASSUME LevelFile(0) \in DOMAIN disk, Readable(LevelFile(0))'
      PROVE  disk'[LevelFile(0)].groups = disk[LevelFile(0)].groups
  <2>1. PICK g : g = disk[LevelFile(0)].groups
    OBVIOUS
  <2>2. PICK n : n = disk[LevelFile(0)].durable
    OBVIOUS
  <2>3. g \in Groups /\ n \in 0 .. Len(g)
    BY <1>5, <1>7, <2>1, <2>2
  <2>4. 0 \in 0 .. Levels
    BY LevelsNat
  <2>5. Distinct(g)
    BY <1>1, <1>7, <2>1, <2>4 DEF SaneInv, FileInv, Readable
  <2>6. CASE disk'[LevelFile(0)].groups = SubSeq(g, 1, n)
    <3>1. Members(SubSeq(g, 1, n)) = Records
      BY <1>2, <1>7, <2>6 DEF Readable
    <3>2. SubSeq(g, 1, n) = g
      BY <2>3, <2>5, <3>1, ReadablePrefix
    <3> QED
      BY <2>1, <2>6, <3>2
  <2> QED
    BY <1>4, <1>7, <2>1, <2>2, <2>6
<1>8. FileInv'
  <2>1. (FinalFile \in DOMAIN disk => Readable(FinalFile) \/ (powerLost /\ pc # "done"))'
    BY <1>1
  <2>2. ASSUME NEW l \in 0 .. Levels, LevelFile(l) \in DOMAIN disk'
        PROVE  Readable(LevelFile(l))' \/ (powerLost' /\ l = 0)
    <3>1. CASE l = 0
      BY <1>1, <3>1
    <3>2. CASE l # 0
      <4>1. l \in 1 .. Levels /\ LevelFile(l) \in DOMAIN disk
        BY <1>4, <2>2, <3>2
      <4>2. Readable(LevelFile(l))
        BY <3>2, <4>1 DEF SaneInv, FileInv
      <4>3. disk'[LevelFile(l)].groups = disk[LevelFile(l)].groups
        BY <1>6, <4>1
      <4> QED
        BY <1>2, <4>2, <4>3 DEF Readable
    <3> QED
      BY <3>1, <3>2
  <2>3. ASSUME NEW l \in 1 .. Levels, LevelFile(l) \in DOMAIN disk'
        PROVE  /\ PartFile(l) \notin DOMAIN disk'
               /\ LevelFile(l - 1) \in DOMAIN disk'
               /\ \/ Refines(disk'[LevelFile(l)].groups, disk'[LevelFile(l - 1)].groups)
                  \/ powerLost' /\ l = 1
    <3>1. /\ PartFile(l) \notin DOMAIN disk /\ LevelFile(l - 1) \in DOMAIN disk
          /\ Refines(disk[LevelFile(l)].groups, disk[LevelFile(l - 1)].groups)
          /\ LevelFile(l) \in DOMAIN disk
      BY <1>1, <1>4, <2>3 DEF SaneInv, FileInv
    <3>2. CASE l = 1
      BY <1>1, <1>4, <3>1, <3>2
    <3>3. CASE l # 1
      <4>1. l - 1 \in 1 .. Levels
        BY <3>3, LevelsNat
      <4>2. disk'[LevelFile(l)].groups = disk[LevelFile(l)].groups
        BY <1>6, <3>1
      <4>3. disk'[LevelFile(l - 1)].groups = disk[LevelFile(l - 1)].groups
        BY <1>6, <3>1, <4>1
      <4> QED
        BY <1>4, <3>1, <4>2, <4>3
    <3> QED
      BY <3>2, <3>3
  <2>4. \A l \in 1 .. Levels : PartFile(l) \in DOMAIN disk' => LevelFile(l - 1) \in DOMAIN disk'
    BY <1>4 DEF SaneInv, FileInv
  <2>5. pc' # "done"
    BY <1>1
  <2> QED
    BY <1>2, <2>1, <2>2, <2>3, <2>4, <2>5 DEF FileInv
<1>9. ASSUME NEW l \in DOMAIN progress'
      PROVE  /\ PartFile(l) \in DOMAIN disk' \/ LevelFile(l) \in DOMAIN disk'
             /\ progress'[l].readable \/ powerLost'
             /\ Loadable(l)' => Backed(l)'
  <2>1. l \in DOMAIN progress /\ l \in 1 .. Levels
    BY <1>4 DEF TypeInv
  <2>2. ASSUME Loadable(l)'
        PROVE  Backed(l)'
    <3>1. PartFile(l) \in DOMAIN disk /\ progress[l].readable
      BY <1>4, <2>1, <2>2 DEF Loadable
    <3>2. LevelFile(l - 1) \in DOMAIN disk
      BY <2>1, <3>1 DEF SaneInv, FileInv
    <3>3. disk'[LevelFile(l - 1)].groups = disk[LevelFile(l - 1)].groups
      <4>1. CASE l - 1 = 0
        <5>1. LevelFile(l - 1) = LevelFile(0)
          BY <4>1
        <5>2. Readable(LevelFile(0))'
          BY <2>2, <5>1 DEF Loadable, Readable
        <5> QED
          BY <1>7, <3>2, <5>1, <5>2
      <4>2. CASE l - 1 # 0
        <5>1. l - 1 \in 1 .. Levels
          BY <2>1, <4>2, LevelsNat
        <5> QED
          BY <1>6, <3>2, <5>1
      <4> QED
        BY <4>1, <4>2
    <3>4. Readable(LevelFile(l - 1))
      BY <1>2, <2>2, <3>3 DEF Loadable, Readable
    <3>5. Backed(l)
      BY <2>1, <3>1, <3>4 DEF SaneInv, ProgressInv, Loadable
    <3>6. PICK g : g = disk[PartFile(l)].groups
      OBVIOUS
    <3>7. PICK d : d = disk[PartFile(l)].durable
      OBVIOUS
    <3>8. PICK n : n = progress[l].lines
      OBVIOUS
    <3>9. g \in Groups /\ d \in 0 .. Len(g)
      BY <1>5, <3>1, <3>6, <3>7
    <3>10. n \in Nat /\ n <= d
      <4>1. n \in Nat
        BY <2>1, <3>8 DEF TypeInv, ProgressType
      <4>2. n <= d
        BY <2>1, <3>1, <3>7, <3>8 DEF SaneInv, DurableInv
      <4> QED
        BY <4>1, <4>2
    <3>11. n <= Len(disk'[PartFile(l)].groups)
           /\ SubSeq(disk'[PartFile(l)].groups, 1, n) = SubSeq(g, 1, n)
      <4>1. CASE disk'[PartFile(l)].groups = g
        BY <3>5, <3>6, <3>8, <4>1 DEF Backed
      <4>2. CASE disk'[PartFile(l)].groups = SubSeq(g, 1, d)
        <5>1. n \in 0 .. d
          BY <3>9, <3>10
        <5>2. Len(SubSeq(g, 1, d)) = d
          BY <3>9, PrefixFacts
        <5>3. SubSeq(SubSeq(g, 1, d), 1, n) = SubSeq(g, 1, n)
          BY <3>9, <5>1, PrefixOfPrefix
        <5> QED
          BY <3>10, <4>2, <5>2, <5>3
      <4> QED
        BY <1>4, <3>1, <3>6, <3>7, <4>1, <4>2
    <3>12. progress'[l].lines = n /\ progress'[l].parents = progress[l].parents
      BY <1>4, <2>1, <3>8
    <3> QED
      BY <1>2, <3>3, <3>5, <3>6, <3>8, <3>11, <3>12 DEF Backed, FirstGroups, Cut
  <2>3. PartFile(l) \in DOMAIN disk' \/ LevelFile(l) \in DOMAIN disk'
    BY <1>4, <2>1 DEF SaneInv, ProgressInv
  <2> QED
    BY <1>1, <2>2, <2>3
<1>10. ProgressInv'
  BY <1>9 DEF ProgressInv
<1> QED
  BY <1>3, <1>8, <1>10 DEF SaneInv

LEMMA SaneInit ==
  ASSUME Init
  PROVE  SaneInv
<1>1. DOMAIN disk = {} /\ DOMAIN progress = {} /\ pc = "off"
  BY DEF Init
<1> QED
  BY <1>1 DEF SaneInv, FileInv, ProgressInv, RunInv, DurableInv, Running

LEMMA Step ==
  ASSUME IInv, [Next]_vars
  PROVE  IInv'
<1>1. TypeInv /\ TypeInv'
  BY TypeStep DEF IInv
<1>2. ASSUME Sane'
      PROVE  SaneInv'
  <2>1. CASE Run
    <3>1. UNCHANGED <<faults, powerLost>>
      BY <2>1 DEF Run, Start, WriteLevelZero, LoadState, LoadProgress, OpenPart, SplitParent,
         SyncPart, RecordProgress, FinishLevel, ForgetProgress, CopyFinal, env
    <3>2. SaneInv
      BY <1>2, <3>1 DEF Sane, IInv
    <3> QED
      BY <1>1, <2>1, <3>2, SaneStart, SaneWriteLevelZero, SaneLoadState, SaneLoadProgress,
         SaneOpenPart, SaneSplitParent, SaneSyncPart, SaneRecordProgress, SaneFinishLevel,
         SaneForgetProgress, SaneCopyFinal DEF Run
  <2>2. CASE Kill
    <3>1. faults' = faults + 1 /\ faults \in Nat /\ (powerLost => faults > 0)
      BY <1>1, <2>2 DEF Kill, Fault, TypeInv
    <3>2. powerLost => powerLost'
      BY <2>2 DEF Kill, Fault
    <3>3. ~powerLost
      BY <1>2, <3>1, <3>2 DEF Sane
    <3>4. SaneInv
      BY <3>3 DEF Sane, IInv
    <3> QED
      BY <1>1, <2>2, <3>3, <3>4, SaneKill
  <2>3. CASE PowerLoss
    <3>1. faults' = faults + 1 /\ faults \in Nat /\ (powerLost => faults > 0) /\ powerLost'
      BY <1>1, <2>3 DEF PowerLoss, Fault, TypeInv
    <3>2. faults = 0
      BY <1>2, <3>1 DEF Sane
    <3>3. ~powerLost
      BY <3>1, <3>2
    <3>4. SaneInv
      BY <3>3 DEF Sane, IInv
    <3> QED
      BY <1>1, <2>3, <3>2, <3>4, SanePowerLoss
  <2>4. CASE UNCHANGED vars
    <3>1. UNCHANGED <<disk, progress, pc, current, parents, next, done, cardinality, faults, powerLost>>
      BY <2>4 DEF vars, run, env
    <3>2. SaneInv
      BY <1>2, <3>1 DEF Sane, IInv
    <3>3. FileInv' /\ ProgressInv'
      BY <3>1, <3>2, SameFiles DEF SaneInv
    <3>4. /\ Records' = Records /\ Groups' = Groups /\ Levels' = Levels
          /\ Part' = Part /\ HasProgress' = HasProgress /\ Recorded' = Recorded
      BY <3>1, SameData DEF Part, HasProgress, Recorded
    <3>5. RunInv'
      BY <3>1, <3>2, <3>4 DEF SaneInv, RunInv, Readable, Cut
    <3>6. DurableInv'
      BY <3>1, <3>2, <3>4 DEF SaneInv, DurableInv
    <3> QED
      BY <3>3, <3>5, <3>6 DEF SaneInv
  <2> QED
    BY <2>1, <2>2, <2>3, <2>4 DEF Next
<1> QED
  BY <1>1, <1>2 DEF IInv

THEOREM Invariance == Spec => []IInv
<1>1. Init => IInv
  BY TypeInit, SaneInit DEF IInv
<1>2. IInv /\ [Next]_vars => IInv'
  BY Step
<1> QED
  BY <1>1, <1>2, PTL DEF Spec

-------------------------------------------------------------------------------
(* What follows. *)

\* However many kills: no file that looks complete is not, and every level only
\* splits the groups of the level before (FinishLevel of what SplitParent made).
THEOREM Nested == Spec => []LevelsAreNested
<1>1. IInv => LevelsAreNested
  <2> SUFFICES ASSUME IInv, ~powerLost
               PROVE  /\ FinalFile \in DOMAIN disk => Readable(FinalFile)
                      /\ \A l \in 0 .. Levels :
                           LevelFile(l) \in DOMAIN disk =>
                             /\ Readable(LevelFile(l))
                             /\ l > 0 => /\ LevelFile(l - 1) \in DOMAIN disk
                                         /\ Refines(disk[LevelFile(l)].groups,
                                                    disk[LevelFile(l - 1)].groups)
    BY DEF LevelsAreNested
  <2>1. FileInv /\ Levels \in Nat
    BY LevelsNat DEF IInv, Sane, SaneInv
  <2>2. \A l \in 0 .. Levels : l > 0 => l \in 1 .. Levels
    BY <2>1
  <2> QED
    BY <2>1, <2>2 DEF FileInv
<1> QED
  BY <1>1, Invariance, PTL

\* However many kills, in a write or between two: what write_level_progress recorded
\* of a file in progress can be read, and stands for as many parents as it says.
THEOREM Honest == Spec => []ProgressIsBacked
<1>1. IInv => ProgressIsBacked
  <2> SUFFICES ASSUME IInv, ~powerLost, NEW l \in DOMAIN progress, PartFile(l) \in DOMAIN disk
               PROVE  /\ PartReadable(PartFile(l), progress[l].lines)
                      /\ Members(FirstGroups(PartFile(l), progress[l].lines))
                           = Members(FirstGroups(LevelFile(l - 1), progress[l].parents))
    BY DEF ProgressIsBacked
  <2>1. TypeInv /\ FileInv /\ ProgressInv /\ Levels \in Nat /\ l \in 1 .. Levels
    BY LevelsNat DEF IInv, Sane, SaneInv, TypeInv
  <2>2. LevelFile(l - 1) \in DOMAIN disk /\ l - 1 \in 0 .. Levels
    BY <2>1 DEF FileInv
  <2>3. Readable(LevelFile(l - 1))
    BY <2>1, <2>2 DEF FileInv
  <2>4. Backed(l)
    BY <2>1, <2>3 DEF ProgressInv, Loadable
  <2> QED
    BY <2>4 DEF Backed, PartReadable, FirstGroups, Cut
<1> QED
  BY <1>1, Invariance, PTL

\* A run that ends after a loss of power that was the only fault has rewritten the
\* file it copied from a level that fsync had made durable.
THEOREM SingleLoss == Spec => []SingleLossIsSurvived
<1>1. IInv => SingleLossIsSurvived
  BY DEF IInv, Sane, SaneInv, FileInv, SingleLossIsSurvived, RunLeavesCompleteFile
<1> QED
  BY <1>1, Invariance, PTL

\* What is recorded of a level that is not complete is in its file in progress.
LEMMA RecordedLines ==
  ASSUME IInv, ~powerLost, NEW l \in DOMAIN progress, LevelFile(l) \notin DOMAIN disk
  PROVE  /\ PartFile(l) \in DOMAIN disk
         /\ l \in 1 .. Levels
         /\ progress[l].readable
         /\ progress[l].lines \in Nat
         /\ disk[PartFile(l)].groups \in Groups
         /\ progress[l].lines \in 0 .. Len(disk[PartFile(l)].groups)
         /\ Backed(l)
<1>1. TypeInv /\ FileInv /\ ProgressInv /\ Levels \in Nat /\ l \in 1 .. Levels
  BY LevelsNat DEF IInv, Sane, SaneInv, TypeInv
<1>2. PartFile(l) \in DOMAIN disk /\ progress[l].readable
  BY <1>1 DEF ProgressInv
<1>3. LevelFile(l - 1) \in DOMAIN disk /\ l - 1 \in 0 .. Levels
  BY <1>1, <1>2 DEF FileInv
<1>4. Readable(LevelFile(l - 1))
  BY <1>1, <1>3 DEF FileInv
<1>5. Backed(l)
  BY <1>1, <1>2, <1>4 DEF ProgressInv, Loadable
<1>6. progress[l].lines \in Nat /\ disk[PartFile(l)].groups \in Groups
  BY <1>1, <1>2 DEF TypeInv, ProgressType, FileType
<1>7. Len(disk[PartFile(l)].groups) \in Nat
  BY <1>6 DEF Groups
<1>8. progress[l].lines <= Len(disk[PartFile(l)].groups)
  BY <1>5 DEF Backed
<1> QED
  BY <1>1, <1>2, <1>5, <1>6, <1>7, <1>8

\* A level is kept when its file is, or when its file in progress is, grows, or is cut
\* down to the recorded lines.
LEMMA KeptByFiles ==
  ASSUME IInv, ~powerLost, NEW l \in 0 .. Levels,
         LevelFile(l) \in DOMAIN disk =>
           LevelFile(l) \in DOMAIN disk' /\ disk'[LevelFile(l)] = disk[LevelFile(l)],
         l \in DOMAIN progress /\ LevelFile(l) \notin DOMAIN disk /\ PartFile(l) \in DOMAIN disk =>
           /\ PartFile(l) \in DOMAIN disk'
           /\ \/ disk'[PartFile(l)].groups = disk[PartFile(l)].groups
              \/ \E h \in Groups : disk'[PartFile(l)].groups = disk[PartFile(l)].groups \o h
              \/ disk'[PartFile(l)].groups = SubSeq(disk[PartFile(l)].groups, 1, progress[l].lines)
  PROVE  IsKept(l)
<1>1. CASE LevelFile(l) \in DOMAIN disk
  BY <1>1 DEF IsKept
<1>2. CASE LevelFile(l) \notin DOMAIN disk /\ l \notin DOMAIN progress
  BY <1>2 DEF IsKept
<1>3. CASE LevelFile(l) \notin DOMAIN disk /\ l \in DOMAIN progress
  <2>1. PICK g : g = disk[PartFile(l)].groups
    OBVIOUS
  <2>2. PICK n : n = progress[l].lines
    OBVIOUS
  <2>3. PartFile(l) \in DOMAIN disk /\ g \in Groups /\ n \in 0 .. Len(g)
    BY <1>3, <2>1, <2>2, RecordedLines
  <2>4. PICK k : k = disk'[PartFile(l)].groups
    OBVIOUS
  <2>5. Len(g) \in Nat
    BY <2>3 DEF Groups
  <2>6. n <= Len(k) /\ \A i \in 1 .. n : k[i] = g[i]
    <3>1. CASE k = g
      BY <2>3, <2>5, <3>1
    <3>2. ASSUME NEW h \in Groups, k = g \o h
          PROVE  n <= Len(k) /\ \A i \in 1 .. n : k[i] = g[i]
      <4>1. Len(k) = Len(g) + Len(h) /\ \A i \in 1 .. Len(g) : k[i] = g[i]
        BY <2>3, <3>2, ConcatFacts
      <4>2. Len(h) \in Nat
        BY DEF Groups
      <4> QED
        BY <2>3, <2>5, <4>1, <4>2
    <3>3. CASE k = SubSeq(g, 1, n)
      <4>1. Len(k) = n /\ \A i \in 1 .. n : k[i] = g[i]
        BY <2>3, <3>3, PrefixFacts
      <4> QED
        BY <2>3, <2>5, <4>1
    <3> QED
      BY <1>3, <2>1, <2>2, <2>3, <2>4, <3>1, <3>2, <3>3
  <2>7. \A i \in 1 .. n : i <= Len(k)
    <3>1. Len(k) \in Nat
      <4>1. CASE k = g
        BY <2>5, <4>1
      <4>2. ASSUME NEW h \in Groups, k = g \o h
            PROVE  Len(k) \in Nat
        <5>1. k \in Groups
          BY <2>3, <4>2, ConcatFacts
        <5> QED
          BY <5>1 DEF Groups
      <4>3. CASE k = SubSeq(g, 1, n)
        <5>1. k \in Groups
          BY <2>3, <4>3, PrefixFacts
        <5> QED
          BY <5>1 DEF Groups
      <4> QED
        BY <1>3, <2>1, <2>2, <2>3, <2>4, <4>1, <4>2, <4>3
    <3> QED
      BY <2>3, <2>5, <2>6, <3>1
  <2>8. PartFile(l) \in {PartFile(l), LevelFile(l)} \cap DOMAIN disk'
    BY <1>3, <2>3
  <2>9. \A i \in 1 .. progress[l].lines :
          /\ i <= Len(disk'[PartFile(l)].groups)
          /\ disk'[PartFile(l)].groups[i] = disk[PartFile(l)].groups[i]
    BY <2>1, <2>2, <2>4, <2>6, <2>7
  <2> QED
    BY <1>3, <2>8, <2>9 DEF IsKept
<1> QED
  BY <1>1, <1>2, <1>3

LEMMA WorkIsKept ==
  ASSUME IInv, [Next]_vars, ~powerLost', NEW l \in 0 .. Levels
  PROVE  IsKept(l)
<1>1. ~powerLost
  <2>1. powerLost => powerLost'
    BY DEF Next, Run, Start, WriteLevelZero, LoadState, LoadProgress, OpenPart, SplitParent,
       SyncPart, RecordProgress, FinishLevel, ForgetProgress, CopyFinal, Kill, PowerLoss, Fault,
       env, vars
  <2> QED
    BY <2>1
<1>2. TypeInv /\ SaneInv /\ Levels \in Nat
  BY <1>1, LevelsNat DEF IInv, Sane
<1>3. ASSUME disk' = disk
      PROVE  IsKept(l)
  BY <1>1, <1>3, KeptByFiles
<1>4. CASE WriteLevelZero
  <2>1. \A name \in DOMAIN disk : name \in DOMAIN disk' /\ disk'[name] = disk[name]
    BY <1>4 DEF WriteLevelZero, Put
  <2> QED
    BY <1>1, <2>1, KeptByFiles
<1>5. CASE CopyFinal
  <2>1. \A name \in DOMAIN disk : name # FinalFile => name \in DOMAIN disk' /\ disk'[name] = disk[name]
    BY <1>5 DEF CopyFinal, Put
  <2>2. LevelFile(l) # FinalFile /\ PartFile(l) # FinalFile
    BY Names
  <2> QED
    BY <1>1, <2>1, <2>2, KeptByFiles
\* Files other than the one in progress stay.
<1>6. ASSUME \A name \in DOMAIN disk : name # Part => name \in DOMAIN disk' /\ disk'[name] = disk[name],
             Part \in DOMAIN disk /\ HasProgress =>
               /\ Part \in DOMAIN disk'
               /\ \/ disk'[Part].groups = disk[Part].groups
                  \/ \E h \in Groups : disk'[Part].groups = disk[Part].groups \o h
                  \/ disk'[Part].groups = SubSeq(disk[Part].groups, 1, progress[current + 1].lines)
      PROVE  IsKept(l)
  <2>1. LevelFile(l) # Part
    BY Names DEF Part
  <2>2. CASE l = current + 1
    <3>1. PartFile(l) = Part /\ (l \in DOMAIN progress => HasProgress)
      BY <2>2 DEF Part, HasProgress
    <3> QED
      BY <1>1, <1>6, <2>1, <2>2, <3>1, KeptByFiles
  <2>3. CASE l # current + 1
    <3>1. PartFile(l) # Part
      BY <2>3, Names DEF Part
    <3> QED
      BY <1>1, <1>6, <2>1, <3>1, KeptByFiles
  <2> QED
    BY <2>2, <2>3
<1>7. CASE LoadProgress
  <2>1. CASE Part \in DOMAIN disk /\ Recorded.readable /\ PartReadable(Part, Recorded.lines)
    <3>1. disk' = Put(disk, Part, Written(FirstGroups(Part, Recorded.lines)))
      BY <1>7, <2>1 DEF LoadProgress
    <3>2. /\ Part \in DOMAIN disk' /\ disk'[Part].groups = SubSeq(disk[Part].groups, 1, Recorded.lines)
          /\ \A name \in DOMAIN disk : name # Part => name \in DOMAIN disk' /\ disk'[name] = disk[name]
      BY <3>1 DEF Put, Written, FirstGroups
    <3>3. HasProgress => Recorded.lines = progress[current + 1].lines
      BY DEF Recorded
    <3> QED
      BY <1>6, <3>2, <3>3
  <2>2. CASE ~(Part \in DOMAIN disk /\ Recorded.readable /\ PartReadable(Part, Recorded.lines))
    <3>1. disk' = disk
      BY <1>7, <2>2 DEF LoadProgress
    <3> QED
      BY <1>3, <3>1
  <2> QED
    BY <2>1, <2>2
<1>8. CASE OpenPart
  <2>1. CASE done \in 1 .. Len(parents)
    <3>1. disk' = disk
      BY <1>8, <2>1 DEF OpenPart
    <3> QED
      BY <1>3, <3>1
  <2>2. CASE done \notin 1 .. Len(parents)
    <3>1. disk' = Put(disk, Part, Written(<<>>)) /\ pc = "open"
      BY <1>8, <2>2 DEF OpenPart
    <3>2. \A name \in DOMAIN disk : name # Part => name \in DOMAIN disk' /\ disk'[name] = disk[name]
      BY <3>1 DEF Put
    <3>3. HasProgress => ~Recorded.readable
      BY <1>2, <2>2, <3>1 DEF SaneInv, RunInv
    <3>4. HasProgress => Recorded.readable
      BY <1>1, <1>2, <3>1, PartFacts DEF Running
    <3> QED
      BY <1>6, <3>2, <3>3, <3>4
  <2> QED
    BY <2>1, <2>2
<1>9. ASSUME NEW h \in Groups, Part \in DOMAIN disk, disk' = [disk EXCEPT ![Part].groups = @ \o h]
      PROVE  IsKept(l)
  <2>1. disk[Part] \in FileType
    BY <1>2, <1>9 DEF TypeInv
  <2>2. /\ DOMAIN disk' = DOMAIN disk /\ disk'[Part].groups = disk[Part].groups \o h
        /\ \A name \in DOMAIN disk : name # Part => disk'[name] = disk[name]
    BY <1>9, <2>1 DEF FileType
  <2> QED
    BY <1>6, <1>9, <2>2
<1>10. CASE SplitParent
  <2>1. PICK split \in Splits(parents[done + 1]) : disk' = [disk EXCEPT ![Part].groups = @ \o split]
    BY <1>10 DEF SplitParent
  <2>2. Part \in DOMAIN disk /\ done < Len(parents)
    BY <1>2, <1>10 DEF TypeInv, SplitParent
  <2>3. split \in Groups
    BY <1>2, <2>2, ParentFacts
  <2> QED
    BY <1>9, <2>1, <2>2, <2>3
<1>11. CASE Kill
  <2>1. CASE pc # "split"
    BY <1>3, <1>11, <2>1 DEF Kill
  <2>2. CASE pc = "split"
    <3>1. PICK split \in Splits(parents[done + 1]) :
            \E lines \in CutOff(split) : disk' = [disk EXCEPT ![Part].groups = @ \o lines]
      BY <1>11, <2>2 DEF Kill
    <3>2. PICK lines \in CutOff(split) : disk' = [disk EXCEPT ![Part].groups = @ \o lines]
      BY <3>1
    <3>3. Part \in DOMAIN disk /\ done < Len(parents)
      BY <1>2, <2>2 DEF TypeInv
    <3>4. lines \in Groups
      BY <1>2, <3>3, ParentFacts, CutOffFacts
    <3> QED
      BY <1>9, <3>2, <3>3, <3>4
  <2> QED
    BY <2>1, <2>2
<1>12. CASE SyncPart
  <2>1. Part \in DOMAIN disk /\ disk' = [disk EXCEPT ![Part].durable = Len(disk[Part].groups)]
    BY <1>2, <1>12 DEF SyncPart, TypeInv
  <2>2. disk[Part] \in FileType
    BY <1>2, <2>1 DEF TypeInv
  <2>3. /\ DOMAIN disk' = DOMAIN disk /\ disk'[Part].groups = disk[Part].groups
        /\ \A name \in DOMAIN disk : name # Part => disk'[name] = disk[name]
    BY <2>1, <2>2 DEF FileType
  <2> QED
    BY <1>6, <2>1, <2>3
\* The file in progress goes on as the file of the level.
<1>13. CASE FinishLevel
  <2>1. /\ pc = "finish" /\ Part \in DOMAIN disk
        /\ disk' = Without(Put(disk, LevelFile(current + 1), disk[Part]), Part)
    BY <1>2, <1>13 DEF FinishLevel, TypeInv
  <2>2. LevelFile(current + 1) \notin DOMAIN disk /\ Part = PartFile(current + 1)
    BY <1>2, <2>1, PartFacts DEF Running
  <2>3. PICK m : m = current + 1
    OBVIOUS
  <2> DEFINE put == Put(disk, LevelFile(m), disk[PartFile(m)])
  <2>4. /\ DOMAIN put = DOMAIN disk \cup {LevelFile(m)} /\ put[LevelFile(m)] = disk[PartFile(m)]
        /\ \A name \in DOMAIN disk : name # LevelFile(m) => put[name] = disk[name]
    BY DEF Put
  <2>5. disk' = Without(put, PartFile(m))
    BY <2>1, <2>2, <2>3
  <2> HIDE DEF put
  <2>6. DOMAIN disk' = DOMAIN put \ {PartFile(m)}
        /\ \A name \in DOMAIN put : name # PartFile(m) => disk'[name] = put[name]
    BY <2>5 DEF Without
  <2>7. /\ \A name \in DOMAIN disk : name # PartFile(m) => name \in DOMAIN disk' /\ disk'[name] = disk[name]
        /\ LevelFile(m) \in DOMAIN disk' /\ disk'[LevelFile(m)] = disk[PartFile(m)]
    BY <2>2, <2>3, <2>4, <2>6, Names
  <2>8. LevelFile(l) # PartFile(m)
    BY Names
  <2>9. CASE l # m
    <3>1. PartFile(l) # PartFile(m)
      BY <2>9, Names
    <3> QED
      BY <1>1, <2>7, <2>8, <3>1, KeptByFiles
  <2>10. CASE l = m
    <3>1. LevelFile(l) \notin DOMAIN disk
      BY <2>2, <2>3, <2>10
    <3>2. CASE l \notin DOMAIN progress
      BY <3>1, <3>2 DEF IsKept
    <3>3. CASE l \in DOMAIN progress
      <4>1. progress[l].lines \in 0 .. Len(disk[PartFile(l)].groups)
            /\ disk[PartFile(l)].groups \in Groups
        BY <1>1, <3>1, <3>3, RecordedLines
      <4>2. Len(disk[PartFile(l)].groups) \in Nat
        BY <4>1 DEF Groups
      <4>3. \A i \in 1 .. progress[l].lines : i <= Len(disk[PartFile(l)].groups)
        BY <4>1, <4>2
      <4>4. LevelFile(l) \in {PartFile(l), LevelFile(l)} \cap DOMAIN disk'
        BY <2>7, <2>10
      <4>5. \A i \in 1 .. progress[l].lines :
              /\ i <= Len(disk'[LevelFile(l)].groups)
              /\ disk'[LevelFile(l)].groups[i] = disk[PartFile(l)].groups[i]
        BY <2>7, <2>10, <4>3
      <4> QED
        BY <3>1, <3>3, <4>4, <4>5 DEF IsKept
    <3> QED
      BY <3>2, <3>3
  <2> QED
    BY <2>9, <2>10
<1>14. CASE Start \/ LoadState \/ RecordProgress \/ ForgetProgress \/ UNCHANGED vars
  <2>1. disk' = disk
    BY <1>14 DEF Start, LoadState, RecordProgress, ForgetProgress, vars
  <2> QED
    BY <1>3, <2>1
<1>15. ~PowerLoss
  BY DEF PowerLoss, Fault
<1> QED
  BY <1>4, <1>5, <1>7, <1>8, <1>10, <1>11, <1>12, <1>13, <1>14, <1>15 DEF Next, Run

\* No step, a kill in a write or the first steps of the next run included, undoes
\* what was recorded: load_in_progress_level cuts off only what was not.
THEOREM Kept == Spec => RecordedWorkIsKept
<1>1. IInv /\ [Next]_vars => [powerLost' \/ \A l \in 0 .. Levels : IsKept(l)]_vars
  BY WorkIsKept
<1> QED
  BY <1>1, Invariance, PTL DEF Spec, RecordedWorkIsKept
===============================================================================
