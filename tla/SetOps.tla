-------------------------------- MODULE SetOps --------------------------------
(***************************************************************************)
(* set_ops.hh: the overlap of two records by a merge of their sorted       *)
(* tokens.  A cursor into a vector is given by the tokens from it on.       *)
(***************************************************************************)
EXTENDS Integers, FiniteSets

Cursors(r1, r2) == [ahead1 : SUBSET r1, ahead2 : SUBSET r2, found : Nat]

\* The token at a cursor.
At(ahead) == CHOOSE t \in ahead : \A u \in ahead : t <= u

\* The loop from the cursors c on, with c.found common tokens so far.  max_r1, the
\* overlap r1 can still reach, is at any time what is ahead in r1 and was found: it is
\* lowered exactly when a token of r1 is passed without a partner.
Merge(r1, r2, needed) ==
  LET end[c \in Cursors(r1, r2)] ==
        LET t1 == At(c.ahead1)
            t2 == At(c.ahead2)
        IN IF \/ c.ahead1 = {} \/ Cardinality(c.ahead1) + c.found < needed
              \/ c.ahead2 = {} \/ Cardinality(c.ahead2) + c.found < needed
           THEN c.found
           ELSE IF t1 = t2 THEN end[[ahead1 |-> c.ahead1 \ {t1},
                                     ahead2 |-> c.ahead2 \ {t2}, found |-> c.found + 1]]
           ELSE IF t1 < t2 THEN end[[c EXCEPT !.ahead1 = @ \ {t1}]]
           ELSE end[[c EXCEPT !.ahead2 = @ \ {t2}]]
  IN end[[ahead1 |-> r1, ahead2 |-> r2, found |-> 0]]

\* The overlap when it reaches what is needed, otherwise -1.
FalsifyOrCompute(r1, r2, needed) ==
  LET o == Merge(r1, r2, needed) IN IF o >= needed THEN o ELSE -1
===============================================================================
