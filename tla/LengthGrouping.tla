---------------------------- MODULE LengthGrouping ----------------------------
(***************************************************************************)
(* length_group.hh: how the record sizes of a data set are cut into groups. *)
(*                                                                         *)
(* A histogram is a function from the sizes that occur to their weight (the *)
(* tokens of the records of that size).  A grouping is the set of the       *)
(* groups' lower bounds, tombstone included; groups are numbered from 0 as *)
(* in the code, and the tombstone, one above the largest size, ends the    *)
(* last group.                                                             *)
(***************************************************************************)
EXTENDS Integers, FiniteSets, FiniteSetsExt

Sizes(hist) == DOMAIN hist

LargestSize(hist) == CHOOSE s \in Sizes(hist) : \A x \in Sizes(hist) : x <= s

SmallestSize(hist) == CHOOSE s \in Sizes(hist) : \A x \in Sizes(hist) : s <= x

TotalWeight(hist) == MapThenSumSet(LAMBDA s : hist[s], Sizes(hist))

Tombstone(hist) == LargestSize(hist) + 1

-------------------------------------------------------------------------------
(* The groupings. *)

\* identity: a group for every size.
ExactGrouping(hist) == Sizes(hist) \cup {Tombstone(hist)}

\* aio: one group.
AioGrouping(hist) == {1, Tombstone(hist)}

\* fixed: equal steps from the smallest size on, none at or above the largest.
FixedWidthGrouping(hist, width) ==
  {s \in SmallestSize(hist) .. (LargestSize(hist) - 1) :
     (s - SmallestSize(hist)) % width = 0} \cup {Tombstone(hist)}

\* Packing consecutive sizes into groups of at most cap: load[s] is what the
\* group of s weighs when s has been added.
Load(hist, cap) ==
  LET load[s \in Sizes(hist)] ==
        LET smaller == {x \in Sizes(hist) : x < s}
            previous == CHOOSE x \in smaller : \A y \in smaller : y <= x
        IN IF smaller # {} /\ load[previous] + hist[s] <= cap
           THEN load[previous] + hist[s]
           ELSE hist[s]
  IN load

\* A size that had no room starts a group: its load is its own weight.
PackingStarts(hist, cap) ==
  {s \in Sizes(hist) : Load(hist, cap)[s] = hist[s]}

\* Integer square roots: truncated, and rounded to nearest for a / b.
TruncatedRoot(a) == CHOOSE n \in 0 .. a : n * n <= a /\ a < (n + 1) * (n + 1)

RoundedRoot(a, b) ==
  CHOOSE n \in 0 .. (a + 1) : /\ n = 0 \/ (2 * n - 1) * (2 * n - 1) * b <= 4 * a
                              /\ 4 * a < (2 * n + 1) * (2 * n + 1) * b

\* The binary search ends at the least bound, from the root of the heaviest
\* size up, that the packing meets with groupCount groups.
OptimalMaxSum(hist, groupCount) ==
  LET heaviest == CHOOSE w \in {hist[s] : s \in Sizes(hist)} :
                    \A s \in Sizes(hist) : hist[s] <= w
      total == TotalWeight(hist)
      possible == {cap \in TruncatedRoot(heaviest) .. total :
                     Cardinality(PackingStarts(hist, cap)) <= groupCount}
  IN IF possible = {} THEN total ELSE Min(possible)

\* wsqrt and usqrt, with the number of groups the command line asks for.
BalancedGrouping(hist, groupCount) ==
  PackingStarts(hist, OptimalMaxSum(hist, groupCount)) \cup {Tombstone(hist)}

-------------------------------------------------------------------------------
(* Access by group number. *)

GroupCount(groups) == Cardinality(groups) - 1

LowerBound(groups, g) ==
  CHOOSE b \in groups : Cardinality({x \in groups : x < b}) = g

UpperBound(groups, g) == LowerBound(groups, g + 1) - 1

\* The group of a size: as many groups start above the first as start at or
\* below it.
GroupOf(groups, size) == Cardinality({b \in groups : b <= size}) - 1
===============================================================================
