------------------------- MODULE MCMultithreadedJoin -------------------------
(* Small instances of MultithreadedJoin. *)
EXTENDS MultithreadedJoin

CONSTANTS t1, t2

MCThreads == {t1, t2}

\* Records are sorted by size, so the sizes along the query range ascend.
MCRecordSize == [q \in Queries |-> IF q < 3 THEN 1 ELSE 2]
===============================================================================
