------------------------------ MODULE Preprocess ------------------------------
(***************************************************************************)
(* preprocess.cc: with --preprocess, tokens are renumbered by ascending     *)
(* frequency and records sorted by size before a join sees them.            *)
(***************************************************************************)
EXTENDS Integers, FiniteSets, Functions

RecordIds(records) == DOMAIN records

\* Data sets have the ids 0 .. n-1 and no empty record.
IsDataset(records) ==
  /\ IsFiniteSet(RecordIds(records))
  /\ RecordIds(records) = 0 .. (Cardinality(RecordIds(records)) - 1)
  /\ \A id \in RecordIds(records) :
       records[id] # {} /\ IsFiniteSet(records[id]) /\ records[id] \subseteq Nat

UsedTokens(records) == UNION {records[id] : id \in RecordIds(records)}

TokenFrequency(records, token) ==
  Cardinality({id \in RecordIds(records) : token \in records[id]})

\* The dense and the hash variant compute the same: tokens 0 .. n-1 in the order
\* of their frequencies.  The sort decides between equals.
Relabelings(records) ==
  LET tokens == UsedTokens(records) IN
  {relabel \in Bijection(tokens, 0 .. (Cardinality(tokens) - 1)) :
     \A a, b \in tokens :
       TokenFrequency(records, a) < TokenFrequency(records, b)
         => relabel[a] < relabel[b]}

\* Orders of the records by size; order[id] is the place in the input of what
\* becomes record id.
SizeOrders(records) ==
  {order \in Bijection(RecordIds(records), RecordIds(records)) :
     \A a, b \in RecordIds(records) :
       a < b => Cardinality(records[order[a]]) <= Cardinality(records[order[b]])}

Relabeled(records, relabel, order) ==
  [id \in RecordIds(records) |-> {relabel[t] : t \in records[order[id]]}]

\* The largest token id, which the code calls the size of the universe.
UniverseSize(records) ==
  CHOOSE t \in UsedTokens(records) : \A u \in UsedTokens(records) : u <= t

SortedBySize(records) ==
  \A a, b \in RecordIds(records) :
    a < b => Cardinality(records[a]) <= Cardinality(records[b])
===============================================================================
