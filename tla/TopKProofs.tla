------------------------------ MODULE TopKProofs ------------------------------
(***************************************************************************)
(* Lemmas about what the exact lookups share: similarities as fractions, the *)
(* heap of the results, the overlap a threshold asks for, and the merge that *)
(* computes an overlap or gives up.                                        *)
(***************************************************************************)
EXTENDS TopKHeap, SetOps, Fingerprints, Preprocess, FiniteSetTheorems, TLAPS

-------------------------------------------------------------------------------
(* Induction, for sets that are given. *)

\* A set of naturals has a least element.
LEMMA LeastNatural ==
  ASSUME NEW T, T \subseteq Nat, T # {}
  PROVE  \E x \in T : \A y \in T : x <= y
<1>1. PICK n \in T : TRUE
  OBVIOUS
<1> DEFINE R == StrictSubsetOrdering(0 .. n)
           F == {0 .. x : x \in {y \in T : y <= n}}
<1>2. IsWellFoundedOn(R, FiniteSubsetsOf(0 .. n))
  BY FS_StrictSubsetOrderingWellFounded
<1>3. F \subseteq FiniteSubsetsOf(0 .. n)
  <2>1. IsFiniteSet(0 .. n)
    BY <1>1, FS_Interval
  <2>2. F \subseteq SUBSET (0 .. n)
    BY <1>1
  <2> QED
    BY <2>1, <2>2, FS_FiniteSubsetsOfFinite
<1>4. 0 .. n \in F
  BY <1>1
<1>5. PICK S \in F : \A U \in F : <<U, S>> \notin R
  <2> HIDE DEF F, R
  <2> QED
    BY <1>2, <1>3, <1>4, WFMin
<1>6. PICK x \in T : x <= n /\ S = 0 .. x
  BY <1>5
<1>7. ASSUME NEW y \in T, y < x
      PROVE  FALSE
  <2>1. x \in Nat /\ y \in Nat /\ n \in Nat
    BY <1>1, <1>6
  <2>2. 0 .. y \in F
    BY <1>6, <1>7, <2>1
  <2>3. 0 .. y \subseteq S /\ 0 .. y # S /\ 0 .. y \in SUBSET (0 .. n) /\ S \in SUBSET (0 .. n)
    <3>1. x \in 0 .. x /\ x \notin 0 .. y
      BY <1>7, <2>1
    <3> QED
      BY <1>6, <1>7, <2>1, <3>1
  <2>4. <<0 .. y, S>> \in R
    BY <2>3 DEF StrictSubsetOrdering
  <2> QED
    BY <1>5, <2>2, <2>4
<1> QED
  BY <1>6, <1>7

\* A set that contains 0 and all successors of its naturals contains all naturals.
LEMMA NatClosure ==
  ASSUME NEW S, 0 \in S, \A n \in Nat : n \in S => n + 1 \in S
  PROVE  Nat \subseteq S
<1> SUFFICES ASSUME Nat \ S # {}
             PROVE  FALSE
  OBVIOUS
<1>1. PICK x \in Nat \ S : \A y \in Nat \ S : x <= y
  BY LeastNatural
<1>2. x - 1 \in Nat /\ x - 1 \in S
  BY <1>1
<1>3. (x - 1) + 1 \in S
  BY <1>2
<1> QED
  BY <1>1, <1>3

\* A family of subsets of a finite set that contains the empty set, and with a set
\* those with one element more, contains the whole set.
LEMMA SubsetClosure ==
  ASSUME NEW S, IsFiniteSet(S), NEW F, {} \in F,
         \A T \in SUBSET S : \A x \in S \ T : T \in F => T \cup {x} \in F
  PROVE  S \in F
<1> DEFINE R == StrictSubsetOrdering(S)
           Rest == (SUBSET S) \ F
<1> SUFFICES ASSUME Rest # {}
             PROVE  FALSE
  OBVIOUS
<1>1. IsWellFoundedOn(R, FiniteSubsetsOf(S)) /\ Rest \subseteq FiniteSubsetsOf(S)
  BY FS_StrictSubsetOrderingWellFounded, FS_FiniteSubsetsOfFinite
<1>2. PICK T \in Rest : \A U \in Rest : <<U, T>> \notin R
  <2> HIDE DEF Rest, R
  <2> QED
    BY <1>1, WFMin
<1>3. PICK x \in T : TRUE
  BY <1>2
<1>4. <<T \ {x}, T>> \in R
  BY <1>2, <1>3 DEF StrictSubsetOrdering
<1>5. T \ {x} \in F
  BY <1>2, <1>4
<1>6. T = (T \ {x}) \cup {x}
  BY <1>3
<1> QED
  BY <1>2, <1>3, <1>5, <1>6

\* The same from the other end: the family contains every set that it has with one
\* element less, whichever.
LEMMA SubsetDescent ==
  ASSUME NEW S, IsFiniteSet(S), NEW F, {} \in F,
         \A T \in SUBSET S : T # {} => \E x \in T : T \ {x} \in F => T \in F
  PROVE  S \in F
<1> DEFINE R == StrictSubsetOrdering(S)
           Rest == (SUBSET S) \ F
<1> SUFFICES ASSUME Rest # {}
             PROVE  FALSE
  OBVIOUS
<1>1. IsWellFoundedOn(R, FiniteSubsetsOf(S)) /\ Rest \subseteq FiniteSubsetsOf(S)
  BY FS_StrictSubsetOrderingWellFounded, FS_FiniteSubsetsOfFinite
<1>2. PICK T \in Rest : \A U \in Rest : <<U, T>> \notin R
  <2> HIDE DEF Rest, R
  <2> QED
    BY <1>1, WFMin
<1>3. PICK x \in T : T \ {x} \in F => T \in F
  BY <1>2
<1>4. <<T \ {x}, T>> \in R
  BY <1>2, <1>3 DEF StrictSubsetOrdering
<1>5. T \ {x} \in F
  BY <1>2, <1>4
<1> QED
  BY <1>2, <1>3, <1>5

\* A finite set of integers has a least and a greatest element.
LEMMA LeastInteger ==
  ASSUME NEW S, IsFiniteSet(S), S \subseteq Int, S # {}
  PROVE  /\ \E x \in S : \A y \in S : x <= y
         /\ \E x \in S : \A y \in S : y <= x
<1> DEFINE F == {T \in SUBSET S : T # {} => /\ \E x \in T : \A y \in T : x <= y
                                           /\ \E x \in T : \A y \in T : y <= x}
<1>1. {} \in F
  OBVIOUS
<1>2. ASSUME NEW T \in SUBSET S, NEW z \in S \ T, T \in F
      PROVE  T \cup {z} \in F
  <2>1. CASE T = {}
    BY <2>1
  <2>2. CASE T # {}
    <3>1. PICK x \in T : \A y \in T : x <= y
      BY <1>2, <2>2
    <3>2. PICK u \in T : \A y \in T : y <= u
      BY <1>2, <2>2
    <3>3. \E a \in T \cup {z} : \A y \in T \cup {z} : a <= y
      BY <3>1
    <3>4. \E a \in T \cup {z} : \A y \in T \cup {z} : y <= a
      BY <3>2
    <3> QED
      BY <3>3, <3>4
  <2> QED
    BY <2>1, <2>2
<1>3. S \in F
  <2> HIDE DEF F
  <2> QED
    BY <1>1, <1>2, SubsetClosure
<1> QED
  BY <1>3

-------------------------------------------------------------------------------
(* Similarities: fractions with a positive denominator. *)
Fraction == [num : Int, den : Nat \ {0}]

LEMMA Cancel ==
  ASSUME NEW x \in Int, NEW y \in Int, NEW d \in Nat \ {0}, x * d <= y * d
  PROVE  x <= y
OBVIOUS

LEMMA AtMostTransitive ==
  ASSUME NEW x \in Fraction, NEW y \in Fraction, NEW z \in Fraction,
         AtMost(x, y), AtMost(y, z)
  PROVE  AtMost(x, z)
<1> DEFINE a == x.num  b == x.den  c == y.num  d == y.den  e == z.num  f == z.den
<1>1. /\ a \in Int /\ c \in Int /\ e \in Int
      /\ b \in Nat \ {0} /\ d \in Nat \ {0} /\ f \in Nat \ {0}
  BY DEF Fraction
<1>2. a * d <= c * b /\ c * f <= e * d
  BY DEF AtMost
<1> HIDE DEF a, b, c, d, e, f
<1>3. (a * d) * f <= (c * b) * f /\ (c * f) * b <= (e * d) * b
  BY <1>1, <1>2
<1>4. (a * f) * d <= (e * b) * d
  <2>1. (a * d) * f = (a * f) * d /\ (c * b) * f = (c * f) * b /\ (e * d) * b = (e * b) * d
    BY <1>1
  <2> QED
    BY <1>1, <1>3, <2>1
<1>5. a * f \in Int /\ e * b \in Int
  BY <1>1
<1>6. a * f <= e * b
  BY <1>1, <1>4, <1>5, Cancel
<1> QED
  BY <1>6 DEF a, b, e, f, AtMost

LEMMA AtMostTotal ==
  ASSUME NEW x \in Fraction, NEW y \in Fraction
  PROVE  /\ AtMost(x, x)
         /\ AtMost(x, y) \/ AtMost(y, x)
         /\ Less(x, y) <=> ~AtMost(y, x)
<1>1. /\ x.num \in Int /\ y.num \in Int /\ x.den \in Int /\ y.den \in Int
  BY DEF Fraction
<1>2. x.num * y.den \in Int /\ y.num * x.den \in Int /\ x.num * x.den \in Int
  BY <1>1
<1> QED
  BY <1>2 DEF AtMost, Less

LEMMA ZeroIsFraction == Zero \in Fraction
BY DEF Zero, Fraction

LEMMA AtMostZero ==
  ASSUME NEW x \in Fraction
  PROVE  /\ AtMost(x, Zero) <=> x.num <= 0
         /\ AtMost(Zero, x) <=> 0 <= x.num
         /\ Less(Zero, x) <=> 0 < x.num
BY DEF Fraction, Zero, AtMost, Less

\* The similarity of two records that are not empty.
LEMMA SimIsFraction ==
  ASSUME NEW r \in Nat, NEW s \in Nat \ {0}, NEW o \in Nat, o <= r
  PROVE  Sim(r, s, o) \in Fraction
BY DEF Sim, Fraction

-------------------------------------------------------------------------------
(* eqo: the overlap a threshold asks for. *)
LEMMA Division ==
  ASSUME NEW n \in Int, NEW d \in Nat \ {0}
  PROVE  /\ n \div d \in Int
         /\ d * (n \div d) <= n
         /\ n < d * (n \div d) + d
         /\ n = d * (n \div d) + (n % d)
OBVIOUS

\* The ceiling in eqo.
LEMMA CeilingIsLeast ==
  ASSUME NEW n \in Int, NEW d \in Nat \ {0}, NEW o \in Int, NEW c, c = -((-n) \div d)
  PROVE  /\ c \in Int
         /\ o >= c => n <= d * o
         /\ o < c => d * o < n
         /\ n % d = 0 => d * c = n
<1> DEFINE m == (-n) \div d
<1>1. m \in Int /\ d * m <= -n /\ -n < d * m + d
  BY Division
<1>2. c \in Int /\ d * c = -(d * m)
  <2>1. c = -m
    OBVIOUS
  <2> HIDE DEF m
  <2> QED
    BY <1>1, <2>1
<1> HIDE DEF m
<1>3. ASSUME o >= c
      PROVE  n <= d * o
  <2>1. d * o >= d * c
    BY <1>2, <1>3
  <2> QED
    BY <1>1, <1>2, <2>1
<1>4. ASSUME o < c
      PROVE  d * o < n
  <2>1. d * o <= d * c - d
    <3>1. o <= c - 1
      BY <1>2, <1>4
    <3>2. d * o <= d * (c - 1)
      BY <1>2, <3>1
    <3> QED
      BY <1>2, <3>2
  <2> QED
    BY <1>1, <1>2, <2>1
<1>5. ASSUME n % d = 0
      PROVE  d * c = n
  <2> DEFINE k == n \div d
  <2>1. k \in Int /\ n = d * k
    BY <1>5, Division
  <2> HIDE DEF k
  <2>2. d * c < d * (k + 1)
    BY <1>1, <1>2, <2>1
  <2>3. c <= k
    BY <1>2, <2>1, <2>2
  <2>4. d * c <= d * k
    BY <1>2, <2>1, <2>3
  <2> QED
    BY <1>1, <1>2, <2>1, <2>4
<1> QED
  BY <1>2, <1>3, <1>4, <1>5

\* An overlap that reaches eqo is worth the threshold, and one that does not is worth
\* no more, whichever way a product that is an integer is rounded.
LEMMA EqoIsSound ==
  ASSUME NEW r \in Nat, NEW s \in Nat \ {0}, NEW t \in Fraction, t.num >= 0,
         NEW needed \in Eqo(r, s, t), NEW o \in Nat, o <= r
  PROVE  /\ needed \in Int
         /\ o >= needed => AtMost(t, Sim(r, s, o))
         /\ o < needed => AtMost(Sim(r, s, o), t)
         /\ t.num = 0 => needed = 0
<1> DEFINE n == (r + s) * t.num
           d == t.num + t.den
           c == -((-n) \div d)
<1>1. n \in Nat /\ d \in Nat \ {0} /\ t.num \in Nat /\ t.den \in Nat
  BY DEF Fraction
<1>2. /\ c \in Int
      /\ o >= c => n <= d * o
      /\ o < c => d * o < n
      /\ n % d = 0 => d * c = n
  <2>1. c = -((-n) \div d) /\ n \in Int /\ d \in Nat \ {0} /\ o \in Int
    BY <1>1
  <2> HIDE DEF n, d, c
  <2> QED
    BY ONLY <2>1, CeilingIsLeast
<1>3. IF n % d = 0 /\ n # 0 THEN needed \in {c, c + 1} ELSE needed = c
  BY DEF Eqo, NeededNum, NeededDen
<1>4. /\ n <= d * o <=> AtMost(t, Sim(r, s, o))
      /\ d * o <= n <=> AtMost(Sim(r, s, o), t)
  <2>1. n = (r + s - o) * t.num + o * t.num
    BY <1>1
  <2>2. d * o = o * t.num + o * t.den
    BY <1>1
  <2>3. (r + s - o) * t.num \in Int /\ o * t.num \in Int /\ o * t.den \in Int
    BY <1>1
  <2>4. t.num * (r + s - o) = (r + s - o) * t.num
    BY <1>1
  <2> HIDE DEF n, d
  <2> QED
    BY <2>1, <2>2, <2>3, <2>4 DEF AtMost, Sim
<1>5. t.num = 0 => needed = 0
  <2> SUFFICES ASSUME t.num = 0
               PROVE  needed = 0
    OBVIOUS
  <2>1. n = 0 /\ n % d = 0
    BY <1>1
  <2>2. d * c = 0
    BY <1>2, <2>1
  <2>3. c = 0
    <3> HIDE DEF c, d
    <3> QED
      BY <1>1, <1>2, <2>2
  <2> QED
    BY <1>3, <2>1, <2>3
<1> HIDE DEF n, d, c
<1>6. CASE needed = c
  BY <1>1, <1>2, <1>4, <1>5, <1>6
<1>7. CASE needed = c + 1 /\ n % d = 0
  <2>1. o >= c + 1 => o >= c
    BY <1>2
  <2>2. o < c + 1 => o <= c
    BY <1>2
  <2>3. o <= c => d * o <= d * c
    BY <1>1, <1>2
  <2> QED
    BY <1>1, <1>2, <1>4, <1>5, <1>7, <2>1, <2>2, <2>3
<1> QED
  BY <1>3, <1>6, <1>7

-------------------------------------------------------------------------------
(* The heap. *)
IsHeap(heap, slots) ==
  /\ IsFiniteSet(heap)
  /\ Cardinality(heap) <= slots
  /\ \A e \in heap : e.sim \in Fraction /\ 0 <= e.sim.num

\* There is a least entry.
LEMMA LeastEntry ==
  ASSUME NEW heap, IsFiniteSet(heap), heap # {}, \A e \in heap : e.sim \in Fraction
  PROVE  \E e \in heap : \A f \in heap : AtMost(e.sim, f.sim)
<1> DEFINE F == {T \in SUBSET heap :
                  T # {} => \E e \in T : \A f \in T : AtMost(e.sim, f.sim)}
<1>1. {} \in F
  OBVIOUS
<1>2. ASSUME NEW T \in SUBSET heap, NEW x \in heap \ T, T \in F
      PROVE  T \cup {x} \in F
  <2>1. CASE T = {}
    BY <2>1, AtMostTotal
  <2>2. CASE T # {}
    <3>1. PICK e \in T : \A f \in T : AtMost(e.sim, f.sim)
      BY <1>2, <2>2
    <3>2. CASE AtMost(e.sim, x.sim)
      BY <3>1, <3>2
    <3>3. CASE AtMost(x.sim, e.sim)
      <4>1. \A f \in T : AtMost(x.sim, f.sim)
        BY <3>1, <3>3, AtMostTransitive
      <4>2. AtMost(x.sim, x.sim)
        BY AtMostTotal
      <4> QED
        BY <4>1, <4>2
    <3> QED
      BY <3>2, <3>3, AtMostTotal
  <2> QED
    BY <2>1, <2>2
<1>3. heap \in F
  <2> HIDE DEF F
  <2> QED
    BY <1>1, <1>2, SubsetClosure
<1> QED
  BY <1>3

\* get_threshold: the least similarity of the slots entries, initial ones included.
LEMMA ThresholdIsLeast ==
  ASSUME NEW heap, NEW slots \in Nat \ {0}, IsHeap(heap, slots)
  PROVE  /\ HeapThreshold(heap, slots) \in Fraction
         /\ 0 <= HeapThreshold(heap, slots).num
         /\ \A e \in heap : AtMost(HeapThreshold(heap, slots), e.sim)
         /\ Cardinality(heap) < slots => HeapThreshold(heap, slots) = Zero
         /\ Cardinality(heap) = slots =>
              \E e \in heap : e.sim = HeapThreshold(heap, slots)
<1>1. Cardinality(heap) \in Nat
  BY FS_CardinalityType DEF IsHeap
<1>2. CASE Cardinality(heap) < slots
  <2>1. HeapThreshold(heap, slots) = Zero
    BY <1>2 DEF HeapThreshold
  <2>2. \A e \in heap : AtMost(Zero, e.sim)
    BY AtMostZero DEF IsHeap
  <2>3. Zero.num = 0
    BY DEF Zero
  <2> QED
    BY <1>1, <1>2, <2>1, <2>2, <2>3, ZeroIsFraction
<1>3. CASE Cardinality(heap) = slots
  <2>1. heap # {}
    BY <1>3, FS_EmptySet
  <2>2. \E e \in heap : \A f \in heap : AtMost(e.sim, f.sim)
    BY <2>1, LeastEntry DEF IsHeap
  <2> DEFINE least == CHOOSE e \in heap : \A f \in heap : AtMost(e.sim, f.sim)
  <2>3. least \in heap /\ \A f \in heap : AtMost(least.sim, f.sim)
    BY <2>2
  <2>4. HeapThreshold(heap, slots) = least.sim
    BY <1>1, <1>3 DEF HeapThreshold
  <2> HIDE DEF least
  <2>5. least.sim \in Fraction /\ 0 <= least.sim.num
    BY <2>3 DEF IsHeap
  <2> QED
    BY <1>1, <1>3, <2>3, <2>4, <2>5
<1> QED
  BY <1>1, <1>2, <1>3 DEF IsHeap

\* What push does to a heap: the threshold does not fall, what is worth no more than the
\* threshold stays so, and what leaves the heap becomes so.
Settled(heap, slots, sim) ==
  /\ AtMost(sim, HeapThreshold(heap, slots))
  /\ Cardinality(heap) < slots => sim.num <= 0

LEMMA PushKeepsHeap ==
  ASSUME NEW heap, NEW slots \in Nat \ {0}, IsHeap(heap, slots),
         NEW entry, entry \notin heap, entry.sim \in Fraction, 0 <= entry.sim.num,
         AtMost(HeapThreshold(heap, slots), entry.sim),
         NEW after \in Pushed(heap, slots, entry)
  PROVE  /\ IsHeap(after, slots)
         /\ entry \in after
         /\ after \subseteq heap \cup {entry}
         /\ Cardinality(heap) <= Cardinality(after)
         /\ AtMost(HeapThreshold(heap, slots), HeapThreshold(after, slots))
         /\ \A e \in heap : e \in after \/ Settled(after, slots, e.sim)
<1> DEFINE old == HeapThreshold(heap, slots)
           new == HeapThreshold(after, slots)
<1>1. /\ IsFiniteSet(heap) /\ Cardinality(heap) \in Nat /\ Cardinality(heap) <= slots
      /\ \A e \in heap : e.sim \in Fraction /\ 0 <= e.sim.num
  BY FS_CardinalityType DEF IsHeap
<1>2. /\ old \in Fraction
      /\ \A e \in heap : AtMost(old, e.sim)
      /\ Cardinality(heap) < slots => old = Zero
  BY ThresholdIsLeast
<1>3. \/ \E e \in heap : AtMost(e.sim, old) /\ after = (heap \ {e}) \cup {entry}
      \/ Cardinality(heap) < slots /\ after = heap \cup {entry}
  BY DEF Pushed, LeastEntries
<1>4. /\ IsFiniteSet(after)
      /\ Cardinality(after) \in Nat
      /\ Cardinality(heap) <= Cardinality(after)
      /\ Cardinality(after) <= slots
      /\ entry \in after
      /\ after \subseteq heap \cup {entry}
      /\ \A e \in heap \ after : Cardinality(after) = Cardinality(heap)
                                 /\ AtMost(e.sim, old)
  <2>1. ASSUME NEW e \in heap, AtMost(e.sim, old), after = (heap \ {e}) \cup {entry}
        PROVE  IsFiniteSet(after) /\ Cardinality(after) = Cardinality(heap)
    <3>1. IsFiniteSet(heap \ {e}) /\ Cardinality(heap \ {e}) = Cardinality(heap) - 1
      BY <1>1, FS_RemoveElement
    <3>2. IsFiniteSet(after) /\ Cardinality(after) = Cardinality(heap \ {e}) + 1
      BY <2>1, <3>1, FS_AddElement
    <3> QED
      BY <1>1, <3>1, <3>2
  <2>2. ASSUME Cardinality(heap) < slots, after = heap \cup {entry}
        PROVE  IsFiniteSet(after) /\ Cardinality(after) = Cardinality(heap) + 1
    BY <1>1, <2>2, FS_AddElement
  <2>3. CASE \E e \in heap : AtMost(e.sim, old) /\ after = (heap \ {e}) \cup {entry}
    <3>1. PICK e \in heap : AtMost(e.sim, old) /\ after = (heap \ {e}) \cup {entry}
      BY <2>3
    <3>2. IsFiniteSet(after) /\ Cardinality(after) = Cardinality(heap)
      BY <2>1, <3>1
    <3>3. \A x \in heap \ after : x = e
      BY <3>1
    <3>4. entry \in after /\ after \subseteq heap \cup {entry}
      BY <3>1
    <3>5. \A x \in heap \ after : AtMost(x.sim, old)
      <4> HIDE DEF old
      <4> QED
        BY <3>1, <3>3
    <3>6. Cardinality(after) \in Nat /\ Cardinality(heap) <= Cardinality(after)
          /\ Cardinality(after) <= slots
      BY <1>1, <3>2
    <3> HIDE DEF old
    <3> QED
      BY <3>2, <3>4, <3>5, <3>6
  <2>4. CASE Cardinality(heap) < slots /\ after = heap \cup {entry}
    BY <1>1, <2>2, <2>4
  <2> QED
    BY <1>3, <2>3, <2>4
<1>5. IsHeap(after, slots)
  BY <1>1, <1>4 DEF IsHeap
<1>6. AtMost(old, new)
  <2>1. CASE Cardinality(after) < slots
    BY <1>1, <1>2, <1>4, <1>5, <2>1, ThresholdIsLeast, AtMostTotal
  <2>2. CASE Cardinality(after) = slots
    <3>1. PICK e \in after : e.sim = new
      BY <1>5, <2>2, ThresholdIsLeast
    <3> QED
      BY <1>2, <1>4, <3>1
  <2> QED
    BY <1>1, <1>4, <2>1, <2>2
<1>7. ASSUME NEW e \in heap, e \notin after
      PROVE  Settled(after, slots, e.sim)
  <2>1. AtMost(e.sim, old) /\ Cardinality(after) = Cardinality(heap)
    BY <1>4, <1>7
  <2>2. AtMost(e.sim, new)
    <3>1. new \in Fraction
      BY <1>5, ThresholdIsLeast
    <3> HIDE DEF old, new
    <3> QED
      BY <1>1, <1>2, <1>6, <2>1, <3>1, AtMostTransitive
  <2>3. Cardinality(after) < slots => e.sim.num <= 0
    BY <1>1, <1>2, <2>1, AtMostZero
  <2> QED
    BY <2>2, <2>3 DEF Settled
<1> QED
  BY <1>4, <1>5, <1>6, <1>7

LEMMA SettledStays ==
  ASSUME NEW heap, NEW after, NEW slots \in Nat \ {0},
         IsHeap(heap, slots), IsHeap(after, slots),
         Cardinality(heap) <= Cardinality(after),
         AtMost(HeapThreshold(heap, slots), HeapThreshold(after, slots)),
         NEW sim \in Fraction, Settled(heap, slots, sim)
  PROVE  Settled(after, slots, sim)
<1>1. Cardinality(heap) \in Nat /\ Cardinality(after) \in Nat
  BY FS_CardinalityType DEF IsHeap
<1>2. /\ HeapThreshold(heap, slots) \in Fraction
      /\ HeapThreshold(after, slots) \in Fraction
  BY ThresholdIsLeast
<1>3. AtMost(sim, HeapThreshold(after, slots))
  BY <1>2, AtMostTransitive DEF Settled
<1> QED
  BY <1>1, <1>3 DEF Settled

-------------------------------------------------------------------------------
(* falsify_or_compute. *)

\* The token at a cursor is the least one ahead.
LEMMA AtIsLeast ==
  ASSUME NEW ahead, IsFiniteSet(ahead), ahead \subseteq Int, ahead # {}
  PROVE  At(ahead) \in ahead /\ \A u \in ahead : At(ahead) <= u
<1>1. \E t \in ahead : \A u \in ahead : t <= u
  BY LeastInteger
<1> QED
  BY <1>1 DEF At

\* The body of the function in Merge.
IsEnd(c, needed) ==
  \/ c.ahead1 = {} \/ Cardinality(c.ahead1) + c.found < needed
  \/ c.ahead2 = {} \/ Cardinality(c.ahead2) + c.found < needed

After(c) ==
  LET t1 == At(c.ahead1)
      t2 == At(c.ahead2)
  IN IF t1 = t2 THEN [ahead1 |-> c.ahead1 \ {t1}, ahead2 |-> c.ahead2 \ {t2},
                      found |-> c.found + 1]
     ELSE IF t1 < t2 THEN [c EXCEPT !.ahead1 = @ \ {t1}]
     ELSE [c EXCEPT !.ahead2 = @ \ {t2}]

MergeFrom(end, c, needed) == IF IsEnd(c, needed) THEN c.found ELSE end[After(c)]

IsMerge(end, r1, r2, needed) ==
  end = [c \in Cursors(r1, r2) |-> MergeFrom(end, c, needed)]

Length(c) == Cardinality(c.ahead1) + Cardinality(c.ahead2)

\* The overlap the cursors can still lead to.
Total(c) == c.found + Cardinality(c.ahead1 \cap c.ahead2)

LEMMA CursorType ==
  ASSUME NEW r1, NEW r2, IsFiniteSet(r1), IsFiniteSet(r2), NEW c \in Cursors(r1, r2)
  PROVE  /\ c.ahead1 \subseteq r1 /\ IsFiniteSet(c.ahead1) /\ Cardinality(c.ahead1) \in Nat
         /\ c.ahead2 \subseteq r2 /\ IsFiniteSet(c.ahead2) /\ Cardinality(c.ahead2) \in Nat
         /\ Cardinality(c.ahead1 \cap c.ahead2) \in Nat
         /\ Cardinality(c.ahead1 \cap c.ahead2) <= Cardinality(c.ahead1)
         /\ Cardinality(c.ahead1 \cap c.ahead2) <= Cardinality(c.ahead2)
         /\ c.found \in Nat
         /\ Length(c) \in Nat /\ Total(c) \in Nat
<1>1. c.ahead1 \subseteq r1 /\ c.ahead2 \subseteq r2 /\ c.found \in Nat
  BY DEF Cursors
<1>2. IsFiniteSet(c.ahead1) /\ IsFiniteSet(c.ahead2)
  BY <1>1, FS_Subset
<1>3. /\ Cardinality(c.ahead1) \in Nat /\ Cardinality(c.ahead2) \in Nat
      /\ Cardinality(c.ahead1 \cap c.ahead2) \in Nat
  BY <1>2, FS_CardinalityType, FS_Intersection
<1>4. /\ Cardinality(c.ahead1 \cap c.ahead2) <= Cardinality(c.ahead1)
      /\ Cardinality(c.ahead1 \cap c.ahead2) <= Cardinality(c.ahead2)
  BY <1>2, FS_Intersection
<1> QED
  BY <1>1, <1>2, <1>3, <1>4 DEF Length, Total

LEMMA LengthIsNatural ==
  ASSUME NEW r1, NEW r2, IsFiniteSet(r1), IsFiniteSet(r2), NEW c \in Cursors(r1, r2)
  PROVE  Length(c) \in Nat /\ ~(Length(c) < 0) /\ Length(c) < Length(c) + 1
<1>1. Length(c) \in Nat
  BY CursorType
<1> QED
  BY <1>1

\* A turn of the loop shortens what is ahead, and loses no common token.
LEMMA TurnKeepsTotal ==
  ASSUME NEW r1, NEW r2, IsFiniteSet(r1), IsFiniteSet(r2), r1 \subseteq Int, r2 \subseteq Int,
         NEW c \in Cursors(r1, r2), c.ahead1 # {}, c.ahead2 # {}
  PROVE  /\ After(c) \in Cursors(r1, r2)
         /\ Length(After(c)) < Length(c)
         /\ Total(After(c)) = Total(c)
<1> DEFINE a == c.ahead1
           b == c.ahead2
           t1 == At(a)
           t2 == At(b)
<1>1. /\ a \subseteq r1 /\ IsFiniteSet(a) /\ Cardinality(a) \in Nat
      /\ b \subseteq r2 /\ IsFiniteSet(b) /\ Cardinality(b) \in Nat
      /\ IsFiniteSet(a \cap b) /\ Cardinality(a \cap b) \in Nat
      /\ c.found \in Nat
  BY CursorType, FS_Intersection
<1>2. /\ t1 \in a /\ \A u \in a : t1 <= u
      /\ t2 \in b /\ \A u \in b : t2 <= u
  BY <1>1, AtIsLeast
<1>3. t1 \in Int /\ t2 \in Int
  BY <1>1, <1>2
<1>4. c = [ahead1 |-> a, ahead2 |-> b, found |-> c.found]
  BY DEF Cursors
<1>5. /\ Cardinality(a \ {t1}) = Cardinality(a) - 1
      /\ Cardinality(b \ {t2}) = Cardinality(b) - 1
  BY <1>1, <1>2, FS_RemoveElement
<1>6. CASE t1 = t2
  <2> DEFINE n == [ahead1 |-> a \ {t1}, ahead2 |-> b \ {t2}, found |-> c.found + 1]
  <2>1. After(c) = n
    BY <1>6 DEF After
  <2>2. (a \ {t1}) \cap (b \ {t2}) = (a \cap b) \ {t1}
    BY <1>6
  <2>3. Cardinality((a \cap b) \ {t1}) = Cardinality(a \cap b) - 1
    BY <1>1, <1>2, <1>6, FS_RemoveElement
  <2>4. n \in Cursors(r1, r2)
    BY <1>1 DEF Cursors
  <2>5. Length(n) < Length(c)
    BY <1>1, <1>5 DEF Length
  <2>6. Total(n) = (c.found + 1) + Cardinality((a \cap b) \ {t1})
    BY <2>2 DEF Total
  <2>7. Total(c) = c.found + Cardinality(a \cap b)
    BY DEF Total
  <2>8. Total(n) = Total(c)
    BY <1>1, <2>3, <2>6, <2>7
  <2> QED
    BY <2>1, <2>4, <2>5, <2>8
<1>7. CASE t1 < t2
  <2> DEFINE n == [ahead1 |-> a \ {t1}, ahead2 |-> b, found |-> c.found]
  <2>1. After(c) = n
    BY <1>3, <1>4, <1>7 DEF After
  <2>2. t1 \notin b
    BY <1>2, <1>3, <1>7
  <2>3. (a \ {t1}) \cap b = a \cap b
    BY <2>2
  <2>4. n \in Cursors(r1, r2)
    BY <1>1 DEF Cursors
  <2>5. Length(n) < Length(c)
    BY <1>1, <1>5 DEF Length
  <2>6. Total(n) = Total(c)
    BY <1>1, <2>3 DEF Total
  <2> QED
    BY <2>1, <2>4, <2>5, <2>6
<1>8. CASE t2 < t1
  <2> DEFINE n == [ahead1 |-> a, ahead2 |-> b \ {t2}, found |-> c.found]
  <2>1. After(c) = n
    BY <1>3, <1>4, <1>8 DEF After
  <2>2. t2 \notin a
    BY <1>2, <1>3, <1>8
  <2>3. a \cap (b \ {t2}) = a \cap b
    BY <2>2
  <2>4. n \in Cursors(r1, r2)
    BY <1>1 DEF Cursors
  <2>5. Length(n) < Length(c)
    BY <1>1, <1>5 DEF Length
  <2>6. Total(n) = Total(c)
    BY <1>1, <2>3 DEF Total
  <2> QED
    BY <2>1, <2>4, <2>5, <2>6
<1> QED
  BY <1>3, <1>6, <1>7, <1>8

\* The recursive function of Merge exists: it is defined on the cursors with less
\* than n tokens ahead, for every n.
LEMMA MergeExists ==
  ASSUME NEW r1, NEW r2, IsFiniteSet(r1), IsFiniteSet(r2), r1 \subseteq Int, r2 \subseteq Int,
         NEW needed
  PROVE  \E end : IsMerge(end, r1, r2, needed)
<1> DEFINE C == Cursors(r1, r2)
           N == {n \in Nat : \E f : \A c \in C : Length(c) < n => f[c] = MergeFrom(f, c, needed)}
<1>1. 0 \in N
  <2>1. \A c \in C : ~(Length(c) < 0)
    BY LengthIsNatural
  <2> QED
    BY <2>1
<1>2. ASSUME NEW n \in Nat, n \in N
      PROVE  n + 1 \in N
  <2>1. PICK f : \A c \in C : Length(c) < n => f[c] = MergeFrom(f, c, needed)
    BY <1>2
  <2> DEFINE g == [c \in C |-> IF Length(c) < n THEN f[c] ELSE MergeFrom(f, c, needed)]
  <2>2. ASSUME NEW c \in C, Length(c) < n + 1
        PROVE  g[c] = MergeFrom(g, c, needed)
    <3>1. g[c] = MergeFrom(f, c, needed)
      BY <2>1
    <3>2. CASE IsEnd(c, needed)
      BY <3>1, <3>2 DEF MergeFrom
    <3>3. CASE ~IsEnd(c, needed)
      <4>1. c.ahead1 # {} /\ c.ahead2 # {}
        BY <3>3 DEF IsEnd
      <4>2. After(c) \in C /\ Length(After(c)) < Length(c)
        BY <4>1, TurnKeepsTotal
      <4>3. Length(c) \in Nat /\ Length(After(c)) \in Nat
        BY <4>2, CursorType
      <4>4. Length(After(c)) < n
        BY <2>2, <4>2, <4>3
      <4>5. g[After(c)] = f[After(c)]
        BY <4>2, <4>4
      <4> QED
        BY <3>1, <4>5 DEF MergeFrom
    <3> QED
      BY <3>2, <3>3
  <2> QED
    <3> HIDE DEF g
    <3> QED
      BY <2>2
<1>3. Nat \subseteq N
  <2> HIDE DEF N
  <2> QED
    BY <1>1, <1>2, NatClosure
<1> DEFINE n == Cardinality(r1) + Cardinality(r2) + 1
<1>4. n \in Nat
  BY FS_CardinalityType
<1>5. PICK f : \A c \in C : Length(c) < n => f[c] = MergeFrom(f, c, needed)
  <2>1. n \in N
    BY <1>3, <1>4
  <2> QED
    BY <2>1
<1>6. ASSUME NEW c \in C
      PROVE  f[c] = MergeFrom(f, c, needed)
  <2>1. /\ Cardinality(c.ahead1) <= Cardinality(r1)
        /\ Cardinality(c.ahead2) <= Cardinality(r2)
    BY CursorType, FS_Subset
  <2>2. /\ Cardinality(c.ahead1) \in Nat /\ Cardinality(c.ahead2) \in Nat
        /\ Cardinality(r1) \in Nat /\ Cardinality(r2) \in Nat
    BY CursorType, FS_CardinalityType
  <2>3. Length(c) < n
    BY <2>1, <2>2 DEF Length
  <2> QED
    BY <1>5, <2>3
<1> DEFINE end == [c \in C |-> f[c]]
<1>7. ASSUME NEW c \in C
      PROVE  MergeFrom(end, c, needed) = MergeFrom(f, c, needed)
  <2>1. CASE IsEnd(c, needed)
    BY <2>1 DEF MergeFrom
  <2>2. CASE ~IsEnd(c, needed)
    <3>1. After(c) \in C
      BY <2>2, TurnKeepsTotal DEF IsEnd
    <3> QED
      BY <3>1 DEF MergeFrom
  <2> QED
    BY <2>1, <2>2
<1>8. end = [c \in C |-> MergeFrom(end, c, needed)]
  <2>1. \A c \in C : end[c] = MergeFrom(end, c, needed)
    <3>1. \A c \in C : end[c] = f[c]
      OBVIOUS
    <3> HIDE DEF end
    <3> QED
      BY <3>1, <1>6, <1>7
  <2>2. end = [c \in C |-> end[c]]
    OBVIOUS
  <2> HIDE DEF end
  <2> QED
    BY <2>1, <2>2
<1> QED
  <2> HIDE DEF end
  <2> QED
    BY <1>8 DEF IsMerge

\* It returns the overlap, or gives up where the overlap misses what is needed.
LEMMA MergeCounts ==
  ASSUME NEW r1, NEW r2, IsFiniteSet(r1), IsFiniteSet(r2), r1 \subseteq Int, r2 \subseteq Int,
         NEW needed \in Int, NEW end, IsMerge(end, r1, r2, needed), NEW c \in Cursors(r1, r2)
  PROVE  /\ end[c] \in Nat
         /\ end[c] <= Total(c)
         /\ end[c] = Total(c) \/ Total(c) < needed
<1> DEFINE C == Cursors(r1, r2)
           Right(b) == /\ end[b] \in Nat
                       /\ end[b] <= Total(b)
                       /\ end[b] = Total(b) \/ Total(b) < needed
           N == {n \in Nat : \A b \in C : Length(b) < n => Right(b)}
<1>1. 0 \in N
  <2>1. \A b \in C : ~(Length(b) < 0)
    BY LengthIsNatural
  <2> QED
    BY <2>1
<1>2. ASSUME NEW n \in Nat, n \in N
      PROVE  n + 1 \in N
  <2>1. ASSUME NEW b \in C, Length(b) < n + 1
        PROVE  Right(b)
    <3>1. end[b] = MergeFrom(end, b, needed)
      BY DEF IsMerge
    <3>2. CASE IsEnd(b, needed)
      <4>1. end[b] = b.found
        BY <3>1, <3>2 DEF MergeFrom
      <4>2. /\ b.found \in Nat /\ Cardinality(b.ahead1) \in Nat /\ Cardinality(b.ahead2) \in Nat
            /\ Cardinality(b.ahead1 \cap b.ahead2) \in Nat
            /\ Cardinality(b.ahead1 \cap b.ahead2) <= Cardinality(b.ahead1)
            /\ Cardinality(b.ahead1 \cap b.ahead2) <= Cardinality(b.ahead2)
        BY CursorType
      <4>3. b.ahead1 = {} \/ b.ahead2 = {} => Cardinality(b.ahead1 \cap b.ahead2) = 0
        <5>1. b.ahead1 = {} \/ b.ahead2 = {} => b.ahead1 \cap b.ahead2 = {}
          OBVIOUS
        <5> QED
          BY <5>1, FS_EmptySet
      <4> QED
        BY <3>2, <4>1, <4>2, <4>3 DEF IsEnd, Total
    <3>3. CASE ~IsEnd(b, needed)
      <4>1. /\ After(b) \in C /\ Length(After(b)) < Length(b)
            /\ Total(After(b)) = Total(b)
        BY <3>3, TurnKeepsTotal DEF IsEnd
      <4>2. Length(b) \in Nat /\ Length(After(b)) \in Nat
        BY <4>1, CursorType
      <4>3. Length(After(b)) < n
        BY <2>1, <4>1, <4>2
      <4>4. Right(After(b))
        BY <1>2, <4>1, <4>3
      <4>5. end[b] = end[After(b)]
        BY <3>1, <3>3 DEF MergeFrom
      <4> QED
        BY <4>1, <4>4, <4>5
    <3> QED
      BY <3>2, <3>3
  <2> QED
    BY <2>1
<1>3. Nat \subseteq N
  <2> HIDE DEF N
  <2> QED
    BY <1>1, <1>2, NatClosure
<1>4. Length(c) + 1 \in Nat /\ Length(c) < Length(c) + 1
  <2>1. Length(c) \in Nat /\ Length(c) < Length(c) + 1
    BY LengthIsNatural
  <2> QED
    BY <2>1
<1>5. Length(c) + 1 \in N
  <2> HIDE DEF N
  <2> QED
    BY <1>3, <1>4
<1>6. Right(c)
  BY <1>4, <1>5
<1> QED
  BY <1>6

\* falsify_or_compute returns the overlap of two records when it reaches what is
\* needed, and -1 otherwise, although the merge may stop early.
THEOREM OverlapIsExact ==
  ASSUME NEW r1, NEW r2, IsFiniteSet(r1), IsFiniteSet(r2), r1 \subseteq Int, r2 \subseteq Int,
         NEW needed \in Int
  PROVE  /\ Cardinality(r1 \cap r2) >= needed
              => FalsifyOrCompute(r1, r2, needed) = Cardinality(r1 \cap r2)
         /\ Cardinality(r1 \cap r2) < needed => FalsifyOrCompute(r1, r2, needed) = -1
<1> DEFINE end == CHOOSE end : IsMerge(end, r1, r2, needed)
           start == [ahead1 |-> r1, ahead2 |-> r2, found |-> 0]
<1>1. IsMerge(end, r1, r2, needed)
  BY MergeExists
<1>2. start \in Cursors(r1, r2)
  BY DEF Cursors
<1>3. Merge(r1, r2, needed) = end[start]
  BY DEF Merge, IsMerge, MergeFrom, IsEnd, After
<1>4. /\ end[start] \in Nat
      /\ end[start] <= Total(start)
      /\ end[start] = Total(start) \/ Total(start) < needed
  <2> HIDE DEF end, start
  <2> QED
    BY <1>1, <1>2, MergeCounts
<1>5. Total(start) = Cardinality(r1 \cap r2)
  <2>1. Cardinality(r1 \cap r2) \in Nat
    BY FS_Intersection, FS_CardinalityType
  <2> QED
    BY <2>1 DEF Total
<1>6. Cardinality(r1 \cap r2) \in Nat
  BY FS_Intersection, FS_CardinalityType
<1> QED
  <2> HIDE DEF end, start
  <2> QED
    BY <1>3, <1>4, <1>5, <1>6 DEF FalsifyOrCompute

-------------------------------------------------------------------------------
(* Sums over the groups of a fingerprint. *)
SumFrom(end, v, s) ==
  IF s = {} THEN 0
  ELSE v[CHOOSE x \in s : TRUE] + end[s \ {CHOOSE x \in s : TRUE}]

IsSum(end, v, S) == end = [s \in SUBSET S |-> SumFrom(end, v, s)]

LEMMA SumExists ==
  ASSUME NEW S, IsFiniteSet(S), NEW v
  PROVE  \E end : IsSum(end, v, S)
<1> DEFINE C == SUBSET S
           N == {n \in Nat : \E f : \A s \in C : Cardinality(s) < n => f[s] = SumFrom(f, v, s)}
<1>1. ASSUME NEW s \in C
      PROVE  /\ Cardinality(s) \in Nat
             /\ \A x \in s : /\ s \ {x} \in C
                             /\ Cardinality(s \ {x}) = Cardinality(s) - 1
  <2>1. IsFiniteSet(s)
    BY FS_Subset
  <2> QED
    BY <2>1, FS_CardinalityType, FS_RemoveElement
<1>2. 0 \in N
  BY <1>1
<1>3. ASSUME NEW n \in Nat, n \in N
      PROVE  n + 1 \in N
  <2>1. PICK f : \A s \in C : Cardinality(s) < n => f[s] = SumFrom(f, v, s)
    BY <1>3
  <2> DEFINE g == [s \in C |-> IF Cardinality(s) < n THEN f[s] ELSE SumFrom(f, v, s)]
  <2>2. ASSUME NEW s \in C, Cardinality(s) < n + 1
        PROVE  g[s] = SumFrom(g, v, s)
    <3>1. g[s] = SumFrom(f, v, s)
      BY <2>1
    <3>2. CASE s = {}
      BY <3>1, <3>2 DEF SumFrom
    <3>3. CASE s # {}
      <4> DEFINE x == CHOOSE x \in s : TRUE
      <4>1. x \in s
        BY <3>3
      <4>2. s \ {x} \in C /\ Cardinality(s \ {x}) < n
        <5> HIDE DEF x
        <5> QED
          BY <1>1, <2>2, <4>1
      <4>3. g[s \ {x}] = f[s \ {x}]
        <5> HIDE DEF x
        <5> QED
          BY <4>2
      <4> QED
        BY <3>1, <4>3 DEF SumFrom
    <3> QED
      BY <3>2, <3>3
  <2> QED
    <3> HIDE DEF g
    <3> QED
      BY <2>2
<1>4. Nat \subseteq N
  <2> HIDE DEF N
  <2> QED
    BY <1>2, <1>3, NatClosure
<1>5. PICK f : \A s \in C : f[s] = SumFrom(f, v, s)
  <2> DEFINE n == Cardinality(S) + 1
  <2>1. n \in N
    BY <1>4, FS_CardinalityType
  <2>2. PICK f : \A s \in C : Cardinality(s) < n => f[s] = SumFrom(f, v, s)
    BY <2>1
  <2>3. \A s \in C : Cardinality(s) < n
    BY <1>1, FS_Subset, FS_CardinalityType
  <2> QED
    BY <2>2, <2>3
<1> DEFINE end == [s \in C |-> f[s]]
<1>6. \A s \in C : SumFrom(end, v, s) = SumFrom(f, v, s)
  BY DEF SumFrom
<1>7. end = [s \in C |-> SumFrom(end, v, s)]
  <2>1. \A s \in C : end[s] = SumFrom(end, v, s)
    <3>1. \A s \in C : end[s] = f[s]
      OBVIOUS
    <3> HIDE DEF end
    <3> QED
      BY <1>5, <1>6, <3>1
  <2>2. end = [s \in C |-> end[s]]
    OBVIOUS
  <2> HIDE DEF end
  <2> QED
    BY <2>1, <2>2
<1> QED
  <2> HIDE DEF end
  <2> QED
    BY <1>7 DEF IsSum

LEMMA SumIsSum ==
  ASSUME NEW v
  PROVE  \E end : IsSum(end, v, GroupIds) /\ SumOf(v) = end[GroupIds]
<1>1. IsFiniteSet(GroupIds)
  BY DimensionsAssumption, FS_Interval DEF DimensionsAssumption, GroupIds
<1> DEFINE end == CHOOSE end : IsSum(end, v, GroupIds)
<1>2. IsSum(end, v, GroupIds)
  BY <1>1, SumExists
<1>3. SumOf(v) = end[GroupIds]
  BY DEF SumOf, MapThenSumSet, MapThenFoldSet, IsSum, SumFrom
<1> QED
  BY <1>2, <1>3

\* Summing smaller counts gives no more.
LEMMA SumIsMonotone ==
  ASSUME NEW v \in [GroupIds -> Nat], NEW w \in [GroupIds -> Nat],
         \A g \in GroupIds : v[g] <= w[g]
  PROVE  SumOf(v) \in Nat /\ SumOf(w) \in Nat /\ SumOf(v) <= SumOf(w)
<1>1. IsFiniteSet(GroupIds)
  BY DimensionsAssumption, FS_Interval DEF DimensionsAssumption, GroupIds
<1>2. PICK a : IsSum(a, v, GroupIds) /\ SumOf(v) = a[GroupIds]
  BY SumIsSum
<1>3. PICK b : IsSum(b, w, GroupIds) /\ SumOf(w) = b[GroupIds]
  BY SumIsSum
<1> DEFINE F == {s \in SUBSET GroupIds : a[s] \in Nat /\ b[s] \in Nat /\ a[s] <= b[s]}
<1>4. {} \in F
  BY <1>2, <1>3 DEF IsSum, SumFrom
<1>5. ASSUME NEW s \in SUBSET GroupIds, s # {}
      PROVE  \E x \in s : s \ {x} \in F => s \in F
  <2> DEFINE x == CHOOSE x \in s : TRUE
  <2>1. x \in s
    BY <1>5
  <2>2. a[s] = v[x] + a[s \ {x}] /\ b[s] = w[x] + b[s \ {x}]
    BY <1>2, <1>3, <1>5 DEF IsSum, SumFrom
  <2> HIDE DEF x
  <2>3. v[x] \in Nat /\ w[x] \in Nat /\ v[x] <= w[x]
    BY <2>1
  <2>4. ASSUME s \ {x} \in F
        PROVE  s \in F
    <3>1. a[s \ {x}] \in Nat /\ b[s \ {x}] \in Nat /\ a[s \ {x}] <= b[s \ {x}]
      BY <2>4
    <3>2. a[s] \in Nat /\ b[s] \in Nat /\ a[s] <= b[s]
      BY <2>2, <2>3, <3>1
    <3> QED
      BY <3>2
  <2> QED
    BY <2>1, <2>4
<1>6. GroupIds \in F
  <2> HIDE DEF F
  <2> QED
    BY <1>1, <1>4, <1>5, SubsetDescent
<1> QED
  BY <1>2, <1>3, <1>6

\* The counts of a fingerprint add up to the size of the record.
Counts(r, d) == [g \in GroupIds |-> Cardinality({t \in r : d[t] = g})]

LEMMA CountsAreNatural ==
  ASSUME NEW r, IsFiniteSet(r), NEW d
  PROVE  Counts(r, d) \in [GroupIds -> Nat]
<1>1. ASSUME NEW g \in GroupIds
      PROVE  Cardinality({t \in r : d[t] = g}) \in Nat
  <2>1. IsFiniteSet({t \in r : d[t] = g})
    BY FS_Subset
  <2> QED
    BY <2>1, FS_CardinalityType
<1> QED
  BY <1>1 DEF Counts

LEMMA SumOfCounts ==
  ASSUME NEW r, IsFiniteSet(r), NEW d, \A t \in r : d[t] \in GroupIds
  PROVE  SumOf(Counts(r, d)) = Cardinality(r)
<1>1. IsFiniteSet(GroupIds)
  BY DimensionsAssumption, FS_Interval DEF DimensionsAssumption, GroupIds
<1> DEFINE v == Counts(r, d)
           In(s) == {t \in r : d[t] \in s}
<1>2. PICK a : IsSum(a, v, GroupIds) /\ SumOf(v) = a[GroupIds]
  BY SumIsSum
<1> DEFINE E == {s \in SUBSET GroupIds : a[s] = Cardinality(In(s))}
<1>3. {} \in E
  <2>1. In({}) = {} /\ a[{}] = 0
    BY <1>2 DEF IsSum, SumFrom
  <2> QED
    BY <2>1, FS_EmptySet
<1>4. ASSUME NEW s \in SUBSET GroupIds, s # {}
      PROVE  \E x \in s : s \ {x} \in E => s \in E
  <2> DEFINE x == CHOOSE x \in s : TRUE
             A == In(s \ {x})
             B == {t \in r : d[t] = x}
  <2>1. x \in s
    BY <1>4
  <2>2. a[s] = v[x] + a[s \ {x}]
    BY <1>2, <1>4 DEF IsSum, SumFrom
  <2> HIDE DEF x
  <2>3. v[x] = Cardinality(B)
    BY <2>1 DEF Counts
  <2>4. In(s) = A \cup B /\ A \cap B = {}
    BY <2>1
  <2>5. IsFiniteSet(A) /\ IsFiniteSet(B)
    <3>1. A \subseteq r /\ B \subseteq r
      OBVIOUS
    <3> HIDE DEF A, B
    <3> QED
      BY <3>1, FS_Subset
  <2>6. Cardinality(A \cup B) = Cardinality(B) + Cardinality(A)
    <3> HIDE DEF A, B
    <3>1. /\ Cardinality(A \cup B) = Cardinality(A) + Cardinality(B) - Cardinality(A \cap B)
          /\ Cardinality(A) \in Nat /\ Cardinality(B) \in Nat
      BY <2>5, FS_Union, FS_CardinalityType
    <3>2. Cardinality(A \cap B) = 0
      BY <2>4, FS_EmptySet
    <3> QED
      BY <3>1, <3>2
  <2>7. s \ {x} \in E => a[s \ {x}] = Cardinality(A)
    OBVIOUS
  <2>8. a[s \ {x}] = Cardinality(A) => a[s] = Cardinality(In(s))
    <3> HIDE DEF A, B, In, v
    <3> QED
      BY <2>2, <2>3, <2>4, <2>6
  <2> QED
    BY <2>1, <2>7, <2>8
<1>5. GroupIds \in E
  <2> HIDE DEF E
  <2> QED
    BY <1>1, <1>3, <1>4, SubsetDescent
<1>6. In(GroupIds) = r
  OBVIOUS
<1> QED
  BY <1>2, <1>5, <1>6

\* What the fingerprints of two records have in common is no less than the overlap, and
\* together they are no more than the union.
LEMMA FingerprintBounds ==
  ASSUME NEW r, IsFiniteSet(r), NEW s, IsFiniteSet(s),
         NEW d, \A t \in r \cup s : d[t] \in GroupIds
  PROVE  /\ SumOfLess(Counts(r, d), Counts(s, d)) \in Nat
         /\ SumOfMore(Counts(r, d), Counts(s, d)) \in Nat
         /\ Cardinality(r \cap s) <= SumOfLess(Counts(r, d), Counts(s, d))
         /\ SumOfMore(Counts(r, d), Counts(s, d)) <= Cardinality(r \cup s)
<1> DEFINE v == Counts(r, d)
           w == Counts(s, d)
           less == [g \in GroupIds |-> Smaller(v[g], w[g])]
           more == [g \in GroupIds |-> Greater(v[g], w[g])]
<1>1. /\ IsFiniteSet(r \cap s) /\ IsFiniteSet(r \cup s)
      /\ \A t \in r \cap s : d[t] \in GroupIds
      /\ \A t \in r \cup s : d[t] \in GroupIds
  BY FS_Intersection, FS_Union
<1>2. /\ v \in [GroupIds -> Nat] /\ w \in [GroupIds -> Nat]
      /\ Counts(r \cap s, d) \in [GroupIds -> Nat]
      /\ Counts(r \cup s, d) \in [GroupIds -> Nat]
  BY <1>1, CountsAreNatural
<1>3. less \in [GroupIds -> Nat] /\ more \in [GroupIds -> Nat]
  <2> HIDE DEF v, w
  <2> QED
    BY <1>2 DEF Smaller, Greater
<1>4. ASSUME NEW g \in GroupIds
      PROVE  /\ Counts(r \cap s, d)[g] <= less[g]
             /\ more[g] <= Counts(r \cup s, d)[g]
  <2> DEFINE At1 == {t \in r : d[t] = g}
             At2 == {t \in s : d[t] = g}
             Both == {t \in r \cap s : d[t] = g}
             Either == {t \in r \cup s : d[t] = g}
  <2>1. /\ Both \subseteq At1 /\ Both \subseteq At2
        /\ At1 \subseteq Either /\ At2 \subseteq Either
        /\ At1 \subseteq r /\ At2 \subseteq s /\ Either \subseteq r \cup s
    OBVIOUS
  <2>2. /\ v[g] = Cardinality(At1) /\ w[g] = Cardinality(At2)
        /\ Counts(r \cap s, d)[g] = Cardinality(Both)
        /\ Counts(r \cup s, d)[g] = Cardinality(Either)
    BY DEF Counts
  <2> HIDE DEF At1, At2, Both, Either, v, w
  <2>3. IsFiniteSet(At1) /\ IsFiniteSet(At2) /\ IsFiniteSet(Either)
    BY <1>1, <2>1, FS_Subset
  <2>4. /\ Cardinality(Both) <= Cardinality(At1) /\ Cardinality(Both) <= Cardinality(At2)
        /\ Cardinality(At1) <= Cardinality(Either)
        /\ Cardinality(At2) <= Cardinality(Either)
    BY <2>1, <2>3, FS_Subset
  <2> QED
    BY <2>2, <2>4 DEF Smaller, Greater
<1>5. /\ SumOf(Counts(r \cap s, d)) = Cardinality(r \cap s)
      /\ SumOf(Counts(r \cup s, d)) = Cardinality(r \cup s)
  BY <1>1, SumOfCounts
<1>6. SumOfLess(v, w) = SumOf(less) /\ SumOfMore(v, w) = SumOf(more)
  BY DEF SumOfLess, SumOfMore
<1> HIDE DEF v, w, less, more
<1>7. /\ SumOf(less) \in Nat /\ SumOf(Counts(r \cap s, d)) <= SumOf(less)
      /\ SumOf(more) \in Nat /\ SumOf(more) <= SumOf(Counts(r \cup s, d))
  BY <1>2, <1>3, <1>4, SumIsMonotone
<1> QED
  BY <1>5, <1>6, <1>7 DEF v, w

\* max_overlap is a bound for the overlap.
LEMMA MaxOverlapIsBound ==
  ASSUME NEW r, IsFiniteSet(r), NEW s, IsFiniteSet(s),
         NEW dual, \A n \in {1, 2} : \A t \in r \cup s : dual[n][t] \in GroupIds
  PROVE  /\ MaxOverlap(Fingerprint(r, dual), Fingerprint(s, dual)) \in Nat
         /\ Cardinality(r \cap s) <= MaxOverlap(Fingerprint(r, dual), Fingerprint(s, dual))
<1>1. \A n \in {1, 2} : /\ Fingerprint(r, dual)[n] = Counts(r, dual[n])
                        /\ Fingerprint(s, dual)[n] = Counts(s, dual[n])
  BY DEF Fingerprint, Counts
<1>2. \A n \in {1, 2} :
        /\ SumOfLess(Counts(r, dual[n]), Counts(s, dual[n])) \in Nat
        /\ Cardinality(r \cap s) <= SumOfLess(Counts(r, dual[n]), Counts(s, dual[n]))
  BY FingerprintBounds
<1> QED
  BY <1>1, <1>2 DEF MaxOverlap, Smaller

\* box_distance is a bound for the similarity to every record in the box.
LEMMA BoxIsBound ==
  ASSUME NEW records, IsFiniteSet(records), \A s \in records : IsFiniteSet(s),
         NEW r, IsFiniteSet(r), r # {},
         NEW dual, \A n \in {1, 2} : \A t \in r \cup UNION records : dual[n][t] \in GroupIds,
         NEW s \in records,
         NEW box, box = BoxAround({Fingerprint(x, dual) : x \in records})
  PROVE  /\ BoxUb(Fingerprint(r, dual), box) \in Fraction
         /\ AtMost(Sim(Cardinality(r), Cardinality(s), Cardinality(r \cap s)),
                   BoxUb(Fingerprint(r, dual), box))
<1> DEFINE f == Fingerprint(r, dual)
           p == Fingerprint(s, dual)
           o == Cardinality(r \cap s)
           u == Cardinality(r) + Cardinality(s) - o
           ub(n) == [num |-> SumOfLess(f[n], box.max[n]), den |-> SumOfMore(f[n], box.min[n])]
<1>1. \A x \in records : /\ IsFiniteSet(x)
                         /\ \A n \in {1, 2} : Fingerprint(x, dual)[n] = Counts(x, dual[n])
                         /\ \A n \in {1, 2} : Counts(x, dual[n]) \in [GroupIds -> Nat]
  BY CountsAreNatural DEF Fingerprint, Counts
<1>2. \A n \in {1, 2} : f[n] = Counts(r, dual[n]) /\ Counts(r, dual[n]) \in [GroupIds -> Nat]
  BY CountsAreNatural DEF Fingerprint, Counts
<1>3. ASSUME NEW n \in {1, 2}, NEW g \in GroupIds
      PROVE  /\ box.min[n][g] \in Nat /\ box.min[n][g] <= p[n][g]
             /\ box.max[n][g] \in Nat /\ p[n][g] <= box.max[n][g]
  <2> DEFINE M == {Fingerprint(x, dual)[n][g] : x \in records}
             count == [x \in records |-> Fingerprint(x, dual)[n][g]]
  <2>1. M \subseteq Nat /\ p[n][g] \in M
    BY <1>1
  <2>2. count \in Surjection(records, M)
    BY DEF Surjection
  <2>3. IsFiniteSet(M)
    <3> HIDE DEF M, count
    <3> QED
      BY <2>2, FS_Surjection
  <2>4. /\ \E x \in M : \A y \in M : x <= y
        /\ \E x \in M : \A y \in M : y <= x
    <3> HIDE DEF M
    <3> QED
      BY <2>1, <2>3, LeastInteger
  <2>5. {q[n][g] : q \in {Fingerprint(x, dual) : x \in records}} = M
    OBVIOUS
  <2>6. box.min[n][g] = Min(M) /\ box.max[n][g] = Max(M)
    BY <2>5 DEF BoxAround
  <2>7. /\ Min(M) \in M /\ \A y \in M : Min(M) <= y
        /\ Max(M) \in M /\ \A y \in M : y <= Max(M)
    <3> HIDE DEF M
    <3> QED
      BY <2>1, <2>4 DEF Min, Max
  <2> HIDE DEF M
  <2> QED
    BY <2>1, <2>6, <2>7
<1>4. /\ o \in Nat /\ Cardinality(r) \in Nat \ {0} /\ Cardinality(s) \in Nat
      /\ o <= Cardinality(r) /\ u \in Nat
      /\ Cardinality(r \cup s) = u
  <2>1. /\ o \in Nat /\ Cardinality(r) \in Nat /\ Cardinality(s) \in Nat
        /\ o <= Cardinality(s) /\ o <= Cardinality(r)
    BY <1>1, FS_Intersection, FS_CardinalityType
  <2>2. Cardinality(r) # 0
    BY FS_EmptySet
  <2>3. Cardinality(r \cup s) = Cardinality(r) + Cardinality(s) - o
    BY <1>1, FS_Union
  <2> QED
    BY <2>1, <2>2, <2>3
<1>5. ASSUME NEW n \in {1, 2}
      PROVE  /\ ub(n) \in Fraction
             /\ o <= ub(n).num
             /\ ub(n).den <= u
  <2> DEFINE v == Counts(r, dual[n])
             w == Counts(s, dual[n])
             less == [g \in GroupIds |-> Smaller(v[g], w[g])]
             lessBox == [g \in GroupIds |-> Smaller(v[g], box.max[n][g])]
             more == [g \in GroupIds |-> Greater(v[g], w[g])]
             moreBox == [g \in GroupIds |-> Greater(v[g], box.min[n][g])]
  <2>1. /\ \A g \in GroupIds : v[g] \in Nat /\ w[g] \in Nat
        /\ \A g \in GroupIds : w[g] = p[n][g]
        /\ v \in [GroupIds -> Nat]
    BY <1>1, <1>2
  <2>2. ub(n) = [num |-> SumOf(lessBox), den |-> SumOf(moreBox)]
    BY <1>2 DEF SumOfLess, SumOfMore
  <2>3. /\ SumOf(less) \in Nat /\ SumOf(more) \in Nat
        /\ o <= SumOf(less) /\ SumOf(more) <= Cardinality(r \cup s)
    <3>1. IsFiniteSet(s) /\ \A t \in r \cup s : dual[n][t] \in GroupIds
      OBVIOUS
    <3>2. /\ SumOfLess(v, w) \in Nat /\ SumOfMore(v, w) \in Nat
          /\ o <= SumOfLess(v, w) /\ SumOfMore(v, w) <= Cardinality(r \cup s)
      BY <3>1, FingerprintBounds
    <3>3. SumOfLess(v, w) = SumOf(less) /\ SumOfMore(v, w) = SumOf(more)
      BY DEF SumOfLess, SumOfMore
    <3> QED
      BY <3>2, <3>3
  <2>4. SumOf(v) = Cardinality(r)
    BY SumOfCounts
  <2> HIDE DEF v, w, ub, p, f, o
  <2>5. /\ less \in [GroupIds -> Nat] /\ lessBox \in [GroupIds -> Nat]
        /\ more \in [GroupIds -> Nat] /\ moreBox \in [GroupIds -> Nat]
        /\ \A g \in GroupIds : /\ less[g] <= lessBox[g]
                               /\ moreBox[g] <= more[g]
                               /\ v[g] <= moreBox[g]
    <3>1. \A g \in GroupIds :
            /\ v[g] \in Nat /\ w[g] \in Nat
            /\ box.min[n][g] \in Nat /\ box.min[n][g] <= w[g]
            /\ box.max[n][g] \in Nat /\ w[g] <= box.max[n][g]
      BY <1>3, <2>1
    <3> QED
      BY <3>1 DEF Smaller, Greater
  <2> HIDE DEF less, lessBox, more, moreBox
  <2>6. /\ SumOf(less) <= SumOf(lessBox) /\ SumOf(lessBox) \in Nat
        /\ SumOf(moreBox) <= SumOf(more) /\ SumOf(moreBox) \in Nat
        /\ SumOf(v) <= SumOf(moreBox)
    BY <2>1, <2>5, SumIsMonotone
  <2>7. SumOf(moreBox) # 0
    BY <1>4, <2>4, <2>6
  <2> QED
    BY <1>4, <2>2, <2>3, <2>6, <2>7 DEF Fraction
<1>6. BoxUb(f, box) \in {ub(1), ub(2)}
  BY DEF BoxUb
<1> HIDE DEF ub, f, o
<1>7. PICK n \in {1, 2} : BoxUb(f, box) = ub(n)
  BY <1>6
<1>8. ub(n) \in Fraction /\ o <= ub(n).num /\ ub(n).den <= u
  BY <1>5
<1>9. o * ub(n).den <= ub(n).num * u
  <2>1. /\ ub(n).den \in Nat /\ ub(n).num \in Nat
    BY <1>4, <1>8 DEF Fraction
  <2>2. o * ub(n).den <= o * u
    BY <1>4, <1>8, <2>1
  <2>3. o * u <= ub(n).num * u
    BY <1>4, <1>8, <2>1
  <2>4. o * ub(n).den \in Int /\ o * u \in Int /\ ub(n).num * u \in Int
    BY <1>4, <2>1
  <2> QED
    BY <2>2, <2>3, <2>4
<1> QED
  BY <1>7, <1>8, <1>9 DEF AtMost, Sim, f, o

-------------------------------------------------------------------------------
(* A comparison of the query with a record, whose entry would be entry: the record is
   settled, or its entry is pushed. *)
IsComparison(heap, slots, entry, after) ==
  \/ after = heap /\ Settled(heap, slots, entry.sim)
  \/ /\ AtMost(HeapThreshold(heap, slots), entry.sim)
     /\ after \in Pushed(heap, slots, entry)

\* A comparison overlooks nothing: the record and what was in the heap are in the heap
\* or settled afterwards, and what was settled is.
LEMMA ComparisonKeepsHeap ==
  ASSUME NEW heap, NEW slots \in Nat \ {0}, IsHeap(heap, slots),
         NEW entry, entry \notin heap, entry.sim \in Fraction, 0 <= entry.sim.num,
         NEW after, IsComparison(heap, slots, entry, after)
  PROVE  /\ IsHeap(after, slots)
         /\ after \subseteq heap \cup {entry}
         /\ \A e \in heap \cup {entry} : e \in after \/ Settled(after, slots, e.sim)
         /\ \A sim \in Fraction : Settled(heap, slots, sim) => Settled(after, slots, sim)
<1>1. CASE after = heap /\ Settled(heap, slots, entry.sim)
  BY <1>1
<1>2. CASE /\ AtMost(HeapThreshold(heap, slots), entry.sim)
           /\ after \in Pushed(heap, slots, entry)
  BY <1>2, PushKeepsHeap, SettledStays
<1> QED
  BY <1>1, <1>2 DEF IsComparison

\* What falsify_or_compute leads to: an overlap that misses what eqo asks for settles
\* the record, and one that is reached is worth a push.
LEMMA ComparisonIsSound ==
  ASSUME NEW r, NEW s, IsFiniteSet(r), IsFiniteSet(s), r \subseteq Int, s \subseteq Int,
         s # {}, NEW heap, NEW slots \in Nat \ {0}, IsHeap(heap, slots),
         NEW t, t = HeapThreshold(heap, slots),
         NEW needed \in Eqo(Cardinality(r), Cardinality(s), t),
         NEW o, o = Cardinality(r \cap s),
         NEW sim, sim = Sim(Cardinality(r), Cardinality(s), o)
  PROVE  /\ o \in Nat /\ needed \in Int
         /\ sim \in Fraction /\ sim.num = o
         /\ FalsifyOrCompute(r, s, needed) \in {o, -1}
         /\ FalsifyOrCompute(r, s, needed) = o => AtMost(t, sim)
         /\ FalsifyOrCompute(r, s, needed) = -1 => Settled(heap, slots, sim)
         /\ o < needed => Settled(heap, slots, sim)
         /\ o = 0 => Settled(heap, slots, sim)
<1>1. /\ Cardinality(r) \in Nat /\ Cardinality(s) \in Nat \ {0}
      /\ o \in Nat /\ o <= Cardinality(r)
  BY FS_CardinalityType, FS_EmptySet, FS_Intersection
<1>2. /\ t \in Fraction /\ t.num >= 0
      /\ Cardinality(heap) < slots => t = Zero
  BY ThresholdIsLeast, AtMostZero DEF Zero, IsHeap
<1>3. /\ needed \in Int
      /\ o >= needed => AtMost(t, sim)
      /\ o < needed => AtMost(sim, t)
      /\ t.num = 0 => needed = 0
  BY <1>1, <1>2, EqoIsSound
<1>4. sim \in Fraction /\ sim.num = o
  BY <1>1, SimIsFraction DEF Sim
<1>5. /\ o >= needed => FalsifyOrCompute(r, s, needed) = o
      /\ o < needed => FalsifyOrCompute(r, s, needed) = -1
  BY <1>3, OverlapIsExact
<1>6. ASSUME o < needed
      PROVE  Settled(heap, slots, sim)
  BY <1>1, <1>2, <1>3, <1>6 DEF Settled, Zero
<1>7. ASSUME o = 0
      PROVE  Settled(heap, slots, sim)
  BY <1>2, <1>4, <1>7 DEF Settled, AtMost, Fraction
<1> QED
  BY <1>1, <1>3, <1>4, <1>5, <1>6, <1>7

-------------------------------------------------------------------------------
(* Tokens and their transformations. *)

\* The tokens of a data set, and the largest of them, after which it is named.
LEMMA LargestToken ==
  ASSUME NEW records, IsDataset(records), NEW id \in RecordIds(records), NEW t \in records[id]
  PROVE  /\ IsFiniteSet(UsedTokens(records)) /\ UsedTokens(records) \subseteq Nat
         /\ UniverseSize(records) \in UsedTokens(records)
         /\ \A u \in UsedTokens(records) : u <= UniverseSize(records)
         /\ t \in UsedTokens(records) /\ t \in 0 .. UniverseSize(records)
<1> DEFINE R == RecordIds(records)
           tokens == [r \in R |-> records[r]]
           All == {records[r] : r \in R}
<1>1. tokens \in Surjection(R, All)
  BY DEF Surjection
<1>2. IsFiniteSet(All)
  <2>1. IsFiniteSet(R)
    BY DEF IsDataset
  <2> HIDE DEF tokens, All
  <2> QED
    BY <1>1, <2>1, FS_Surjection
<1>3. UsedTokens(records) = UNION All
  BY DEF UsedTokens
<1>4. IsFiniteSet(UNION All)
  <2>1. \A r \in All : IsFiniteSet(r)
    BY DEF IsDataset
  <2> HIDE DEF All
  <2> QED
    BY <1>2, <2>1, FS_UNION
<1>5. t \in UsedTokens(records) /\ UsedTokens(records) \subseteq Nat
  BY DEF UsedTokens, IsDataset
<1>6. \E u \in UsedTokens(records) : \A v \in UsedTokens(records) : v <= u
  <2>1. UsedTokens(records) \subseteq Int /\ UsedTokens(records) # {}
    BY <1>5
  <2> QED
    BY <1>3, <1>4, <2>1, LeastInteger
<1>7. /\ UniverseSize(records) \in UsedTokens(records)
      /\ \A u \in UsedTokens(records) : u <= UniverseSize(records)
  BY <1>6 DEF UniverseSize
<1>8. UniverseSize(records) \in Nat /\ t \in 0 .. UniverseSize(records)
  BY <1>5, <1>7
<1> QED
  BY <1>3, <1>4, <1>5, <1>7, <1>8

\* A token that occurs is dealt to a group.
LEMMA TransformationsAreTotal ==
  ASSUME NEW frequency, NEW dual \in DualTransformations(frequency), NEW n \in {1, 2},
         NEW t \in DOMAIN frequency
  PROVE  dual[n][t] \in GroupIds
<1>1. \A groups : AccessTransformation(groups, frequency)[t] \in GroupIds
  BY DimensionsAssumption DEF DimensionsAssumption, AccessTransformation, GroupIds
<1>2. PICK g, h : dual = <<AccessTransformation(g, frequency), AccessTransformation(h, frequency)>>
  BY DEF DualTransformations
<1> QED
  BY <1>1, <1>2
===============================================================================
