------------------------------ MODULE Similarity ------------------------------
(***************************************************************************)
(* Similarity.hh: Jaccard similarity and the bounds derived from it.  The  *)
(* code computes with doubles; a similarity here is the exact fraction.     *)
(* Two equal fractions of small integers are equal doubles, so comparisons *)
(* agree.  Where the code rounds a product of doubles to an integer, a      *)
(* value that is an integer in exact arithmetic may come out on either side *)
(* of it: those operators give the set of the possible results.            *)
(***************************************************************************)
EXTENDS Integers, FiniteSets, LengthGrouping

Zero == [num |-> 0, den |-> 1]

Less(x, y) == x.num * y.den < y.num * x.den

AtMost(x, y) == x.num * y.den <= y.num * x.den

Smaller(a, b) == IF a < b THEN a ELSE b
Greater(a, b) == IF a > b THEN a ELSE b

Sim(rSize, sSize, overlap) ==
  [num |-> overlap, den |-> rSize + sSize - overlap]

SimUb(rSize, sSize, pR, pS) ==
  LET common == Smaller(rSize - pR, sSize - pS) IN Sim(rSize, sSize, common)

GroupedSimUb(groups, rSize, g, pR) ==
  LET minSize == Greater(LowerBound(groups, g), rSize - pR)
  IN SimUb(rSize, minSize, pR, minSize - rSize + pR)

\* (rSize + sSize) * t / (1 + t) is this fraction.
NeededNum(rSize, sSize, t) == (rSize + sSize) * t.num
NeededDen(t) == t.num + t.den

\* eqo: the ceiling of it, the least overlap that reaches the threshold.
Eqo(rSize, sSize, t) ==
  LET n == NeededNum(rSize, sSize, t)
      d == NeededDen(t)
      ceiling == -((-n) \div d)
  IN IF n % d = 0 /\ n # 0 THEN {ceiling, ceiling + 1} ELSE {ceiling}

\* max_ps: the floor of sSize less it, the last position of a first match.
MaxPs(rSize, sSize, t) ==
  LET n == NeededNum(rSize, sSize, t)
      d == NeededDen(t)
      floor == (sSize * d - n) \div d
  IN IF n % d = 0 /\ n # 0 THEN {floor - 1, floor} ELSE {floor}

MaxGroupedPs(groups, rSize, g, t) == MaxPs(rSize, UpperBound(groups, g), t)
===============================================================================
