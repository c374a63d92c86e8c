----------------------------- MODULE Fingerprints -----------------------------
(***************************************************************************)
(* The dual transformation (transformation.hh) and the bounds it gives      *)
(* (Similarity.hh).  Tokens are dealt to a few groups in two ways, g and h; *)
(* a record becomes two vectors that count its tokens per group, and what   *)
(* two records, or a record and a box of records, can have in common is     *)
(* bounded by their vectors.  Counts have 16 bits, of which the SIMD sums   *)
(* use 15: records are taken to be smaller than 2^15.                       *)
(***************************************************************************)
EXTENDS Integers, FiniteSets, FiniteSetsExt, Functions, Sequences, SequencesExt, Similarity

CONSTANT Dimensions   \* DIMENSIONALITY

ASSUME DimensionsAssumption == Dimensions \in Nat \ {0}

GroupIds == 0 .. (Dimensions - 1)

LOCAL NoTokens == [g \in GroupIds |-> <<>>]
LOCAL NoWeight == [g \in GroupIds |-> 0]

\* greedy_grouping: a token goes to a group of least total frequency, whichever of
\* them the heap has on top.  The set of the groupings that may result.
GreedyGroupings(tokens, frequency) ==
  LET least(total) == {g \in GroupIds : \A h \in GroupIds : total[g] <= total[h]}
      dealt(state, token) ==
        {[groups |-> [state.groups EXCEPT ![g] = Append(@, token)],
          total  |-> [state.total EXCEPT ![g] = @ + frequency[token]]] :
           g \in least(state.total)}
      deal(states, token) == UNION {dealt(s, token) : s \in states}
  IN {s.groups : s \in FoldLeft(deal, {[groups |-> NoTokens, total |-> NoWeight]}, tokens)}

\* The second part of dual_greedy_grouping: the groups of g are taken in turn, each
\* already dealt out to parts (tau), and the lightest group of h gets the first part,
\* whatever its weight.
SpreadGroupings(tau, frequency) ==
  LET ascending(total) ==
        {o \in Bijection(GroupIds, GroupIds) :
           \A i, j \in GroupIds : i < j => total[o[i]] <= total[o[j]]}
      weight(tokens) == MapThenSumSet(LAMBDA t : frequency[t], ToSet(tokens))
      spread(state, parts) ==
        {LET at == Inverse(o, GroupIds, GroupIds) IN
         [groups |-> [g \in GroupIds |-> state.groups[g] \o parts[at[g]]],
          total  |-> [g \in GroupIds |-> state.total[g] + weight(parts[at[g]])]] :
           o \in ascending(state.total)}
      spreadAll(states, parts) == UNION {spread(s, parts) : s \in states}
  IN {s.groups : s \in FoldLeft(spreadAll, {[groups |-> NoTokens, total |-> NoWeight]},
                                [n \in 1 .. Dimensions |-> tau[n - 1]])}

\* to_access_transformation: a token in no group is mapped to group 0.
AccessTransformation(groups, frequency) ==
  [t \in DOMAIN frequency |->
     IF \E g \in GroupIds : Contains(groups[g], t)
     THEN CHOOSE g \in GroupIds : Contains(groups[g], t)
     ELSE 0]

\* DualTransformer: the pairs t1, t2.  Tokens are dealt from the largest to 1, the
\* end of the range; token 0 is left out.
DualTransformations(frequency) ==
  LET largest == Max(DOMAIN frequency)
      all == [n \in 1 .. largest |-> largest + 1 - n]
      dealt(g) == [GroupIds -> UNION {GreedyGroupings(g[i], frequency) : i \in GroupIds}]
      taus(g) == {tau \in dealt(g) :
                    \A i \in GroupIds : tau[i] \in GreedyGroupings(g[i], frequency)}
  IN UNION {{<<AccessTransformation(g, frequency), AccessTransformation(h, frequency)>> :
               h \in UNION {SpreadGroupings(tau, frequency) : tau \in taus(g)}} :
             g \in GreedyGroupings(all, frequency)}

\* DualTransformer::transform
Fingerprint(record, dual) ==
  [n \in {1, 2} |->
     [g \in GroupIds |-> Cardinality({t \in record : dual[n][t] = g})]]

-------------------------------------------------------------------------------
SumOf(v) == MapThenSumSet(LAMBDA g : v[g], GroupIds)
SumOfLess(v, w) == SumOf([g \in GroupIds |-> Smaller(v[g], w[g])])
SumOfMore(v, w) == SumOf([g \in GroupIds |-> Greater(v[g], w[g])])

\* max_overlap
MaxOverlap(f1, f2) == Smaller(SumOfLess(f1[1], f2[1]), SumOfLess(f1[2], f2[2]))

\* The least box around some fingerprints, which the R-tree keeps for a node.
BoxAround(fingerprints) ==
  [min |-> [n \in {1, 2} |-> [g \in GroupIds |-> Min({f[n][g] : f \in fingerprints})]],
   max |-> [n \in {1, 2} |-> [g \in GroupIds |-> Max({f[n][g] : f \in fingerprints})]]]

\* box_distance as a similarity: the tighter one of the bounds of g and h.  (Builds
\* for other processors than x86-64 take the looser one.)
BoxUb(f, box) ==
  LET ub(n) == [num |-> SumOfLess(f[n], box.max[n]), den |-> SumOfMore(f[n], box.min[n])]
  IN IF Less(ub(2), ub(1)) THEN ub(2) ELSE ub(1)
===============================================================================
