----------------------------- MODULE MCScheduler -----------------------------
(* Instances of Scheduler for TLC. *)
EXTENDS Scheduler, TLC

\* A precompute job and the les3 job that waits for it.
ChainJobs == {"pre", "les"}
ChainAlgorithm == "pre" :> "les3-precompute" @@ "les" :> "les3"
ChainDataset == [j \in ChainJobs |-> "d"]
ChainOnes == [j \in ChainJobs |-> 1]
ChainRank == "pre" :> 0 @@ "les" :> 1

\* The same with workers of different size: only the larger one has the memory for
\* the les3 job, and neither has it for a third job.
MixedJobs == {"pre", "les", "big"}
MixedAlgorithm == ChainAlgorithm @@ "big" :> "other"
MixedDataset == [j \in MixedJobs |-> "d"]
MixedOnes == [j \in MixedJobs |-> 1]
MixedMemory == "pre" :> 2 @@ "les" :> 3 @@ "big" :> 4
MixedRank == ChainRank @@ "big" :> 2

UniformMemory == [w \in Workers |-> 2]

UnevenMemory == LET large == CHOOSE w \in Workers : TRUE
                IN [w \in Workers |-> IF w = large THEN 3 ELSE 2]
=============================================================================
