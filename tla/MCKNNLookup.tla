----------------------------- MODULE MCKNNLookup -----------------------------
(* Small joins for KNNLookup. *)
EXTENDS KNNLookup, TLC

\* Records of one size are listed in the order of this code, so that a data set
\* that differs only in the names of its records is tried once.
Code(record) == MapThenSumSet(LAMBDA t : 2 ^ t, record)

Ordered(a, b) == \/ Cardinality(a) < Cardinality(b)
                 \/ Cardinality(a) = Cardinality(b) /\ Code(a) <= Code(b)

\* Every data set of n records over the tokens 0 .. m for an m up to maxToken: the
\* lookup compares tokens only with each other, gaps between them do not matter.
AllDatasets(n, maxToken) ==
  {f \in [0 .. (n - 1) -> (SUBSET (0 .. maxToken)) \ {{}}] :
     /\ \A i \in 1 .. (n - 1) : Ordered(f[i - 1], f[i])
     /\ UsedTokens(f) = 0 .. UniverseSize(f)}

\* Data sets that the length groupings cut in more ways than one: many short
\* records, and three records of which one is short and one is long.
LongAndShort ==
  {f \in AllDatasets(3, 4) : Cardinality(f[0]) = 1 /\ Cardinality(f[2]) = 5}

Plain(datasets, k0, modes, groupings) ==
  {[data |-> d, k |-> k0, mode |-> m, grouping |-> g, depth |-> 0, sketch |-> FALSE] :
     d \in datasets, m \in modes, g \in groupings}

Exact ==
  Plain(AllDatasets(3, 4), 2, {"TOPK_BASELINE", "FILTER", "FULL"}, {"identity", "aio"})

Grouped == Plain(AllDatasets(5, 2) \cup LongAndShort, 3, {"FILTER"}, {"fixed", "usqrt", "wsqrt"})

\* The suffix filter alone and behind it the sketch filter.
Filtered ==
  {[s EXCEPT !.depth = 2] : s \in Plain(AllDatasets(3, 4), 2, {"FILTER"}, {"identity"})}
    \cup {[s EXCEPT !.depth = 4, !.sketch = TRUE] :
            s \in Plain(AllDatasets(3, 3), 2, {"FILTER"}, {"identity"})}

MCSetups == Exact \cup Grouped \cup Filtered

\* 25 records that usqrt cuts into the groups of size 1, of size 2, and of sizes
\* 3 and 4.  Tokens are numbered by increasing frequency, records by size.
WideningGroups ==
  [id \in 0 .. 24 |->
     CASE id < 7  -> {3}
       [] id < 14 -> {2}
       [] id < 21 -> {2, 3}
       [] id < 23 -> {1, 2, 3}
       [] OTHER   -> {0, 1, 2, 3}]

Widening == Plain({WideningGroups}, 17, {"FULL"}, {"usqrt"})
===============================================================================
