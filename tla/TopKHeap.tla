------------------------------- MODULE TopKHeap -------------------------------
(***************************************************************************)
(* topk_heap.hh: the heap every join collects its neighbours in.  The code *)
(* fills it with slots entries of similarity zero; a heap here is the set   *)
(* of the entries [id, sim] pushed since that are still in it.             *)
(***************************************************************************)
EXTENDS Integers, FiniteSets, Similarity

\* get_threshold: slots that hold an initial entry have similarity zero.
HeapThreshold(heap, slots) ==
  IF Cardinality(heap) < slots
  THEN Zero
  ELSE (CHOOSE e \in heap : \A f \in heap : AtMost(e.sim, f.sim)).sim

LeastEntries(heap, slots) ==
  {e \in heap : AtMost(e.sim, HeapThreshold(heap, slots))}

\* Mutant of Pushed: nothing makes room.
Pushed_NoPop(heap, slots, entry) == {heap \cup {entry}}

\* push: a least entry makes room, whatever the new one is; among equals it is
\* the order in the heap that decides.
Pushed(heap, slots, entry) ==
  {(heap \ {e}) \cup {entry} : e \in LeastEntries(heap, slots)}
    \cup (IF Cardinality(heap) < slots THEN {heap \cup {entry}} ELSE {})
===============================================================================
