-------------------------- MODULE MCPartitionLookup --------------------------
(* Small data sets for PartitionLookup. *)
EXTENDS PartitionLookup

\* The order of the records plays no role: one of each.
Code(record) == MapThenSumSet(LAMBDA t : 2 ^ t, record)

DatasetsOver(n, largest) ==
  {f \in [0 .. (n - 1) -> (SUBSET (0 .. largest)) \ {{}}] :
     /\ \A i \in 1 .. (n - 1) : Code(f[i - 1]) <= Code(f[i])
     /\ UniverseSize(f) = largest}

\* Two parts that share tokens and one that is always empty; two records with
\* parts of three, one and one tokens.
MixedDatasets == DatasetsOver(4, 3) \cup DatasetsOver(2, 5)

\* The largest token has a part of its own.
PowerOfTwoDatasets == DatasetsOver(2, 4)
===============================================================================
