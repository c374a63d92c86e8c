----------------------------- MODULE MCScanLookup -----------------------------
(* Small data sets and group files for ScanLookup. *)
EXTENDS ScanLookup

CONSTANTS NumRecords, MaxToken

\* A data set in any order of sizes; those that differ only in the order of the
\* records are tried once, in the order of this code, which does not sort by size.
Code(record) == MapThenSumSet(LAMBDA t : 2 ^ t, record)

MCDatasets ==
  {f \in [0 .. (NumRecords - 1) -> (SUBSET (0 .. MaxToken)) \ {{}}] :
     \A i \in 1 .. (NumRecords - 1) : Code(f[i - 1]) >= Code(f[i])}

\* Three lines, record 1 on the middle one.  Record 0 may be missing or occur
\* twice, and one file names a record that does not exist.
MCGroupFiles(n) ==
  LET Places == {{}, {0}, {1}, {2}, {0, 1}}
      On == {f \in [0 .. (n - 1) -> Places] :
               f[1] = {1} /\ \A id \in 2 .. (n - 1) : Cardinality(f[id]) = 1}
  IN {[g \in 0 .. 2 |-> {id \in 0 .. (n - 1) : g \in on[id]}] : on \in On}
       \cup {[g \in 0 .. 2 |-> IF g = 0 THEN 0 .. n ELSE {}]}
\* Trees over four records: two leaves, and leaves of one record under two nodes.
MCTrees(n) ==
  LET all == {0 .. (n - 1)}
      halves == {0 .. 1, 2 .. (n - 1)}
      singles == {{id} : id \in 0 .. (n - 1)}
  IN {<<halves, all>>, <<singles, halves, all>>}
===============================================================================
