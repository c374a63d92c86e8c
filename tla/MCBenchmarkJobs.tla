--------------------------- MODULE MCBenchmarkJobs ---------------------------
(* Requests for TLC: up to two selectors, among them an unknown name, and every *)
(* algorithm at once.                                                          *)
EXTENDS BenchmarkJobs

Selectors == {"suite", "les3", Precompute, "puffinn", "topkbaseline", "unknown"}

Chosen == {"standard", "scalability", "all", "unknown"}

SmallRequests ==
  [selectors   : {{}} \cup {{a, b} : a \in Selectors, b \in Selectors},
   experiments : {e \in SUBSET Chosen : Cardinality(e) \in {1, 2}},
   datasets    : {{1}, {1, 2}}]
  \cup [selectors : {{"all"}}, experiments : {{"all"}}, datasets : {{1}}]
===============================================================================
