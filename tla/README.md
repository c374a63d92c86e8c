# pail-knn: TLA+ models

A verification project for pail-knn, a C++ program for exact k-nearest-neighbour
joins on sets under Jaccard similarity, and for the Python scheduler that runs its
benchmarks on several hosts. The modules here are translated from the source; TLC
checks them on small instances and TLAPS proves what matters most for all instances.

Paths below are relative to the repository: C++ code is in `src/`, the scheduler in
`ansible/roles/knn/files/benchmark-runs/`.

## 1. The system

### 1.1 The join program

`src/knn/cmdline.cc` parses the options, reads a data set (one record of integer
tokens per line, `data/set_file_parser.cc`), preprocesses it on demand
(`data/preprocess.cc`: tokens renumbered by ascending frequency, records sorted by
size), builds the join that was asked for, and runs the queries (all records or a
sample of them) in parallel. All joins inherit the parallel loop; they differ in the
lookup of one query.

| component | state | operations | correct when |
|---|---|---|---|
| parallel query loop (`knn/multithreaded_join.hh`, loop bodies in `baseline.hh`, `baselinepp.hh`) | range of queries handed out by TBB, per-thread chunk and batch, atomic `stop_queries`, `timed_out`, `performed_queries`, completion counter, deadline | claim a chunk, look up a query or batch, count it, check the deadline at every crossing of an interval, report | no query is lost, doubled or hidden; the report says "timed out" exactly when queries were left out; the deadline is noticed; the run ends |
| prefix index lookup (`knn/join.hh`, `equeue.hh`, `topk_heap.hh`, `indexing/inv_index.hh`) | inverted index by token, length group and position; event queue; heap; per-thread overlap counters | pop the most promising event, read rows and columns of the index, verify candidates, enqueue follow-up events, clean up | result is exact although the lookup ends early; counters do not leak into the next query |
| length grouping (`indexing/length_group.hh`) | groups of record sizes | identity, aio, fixed, usqrt, wsqrt | bounds computed from a group hold for its records |
| similarity and bounds (`similarity/Similarity.hh`) | - | Jaccard, upper bounds, needed overlap, prefix positions, box and fingerprint bounds, all in doubles | a bound never excludes a neighbour, rounding included |
| linear scans (`baseline.hh`, `baselinepp.hh`) | batch of queries, heaps, two cursors over the records sorted by size | scan all; scan sizes outwards until settled | exact |
| LES3 (`knn/les3/les3.hh`, `tgm_c.hh`) | group file, token-group matrix, queue of groups | validate the file, bound groups, scan in order of the bounds | exact for every valid group file, invalid ones refused |
| partition join (`knn/partition/partition.hh`) | signatures and deletion neighbourhoods of token parts, two indexes, queue of costs, candidate bitmap | one step of the cheapest list at a time, each raising the distance bound | exact; bitmap clean after each query |
| transformation join (`knn/transformation/`, `indexing/tree_point.hh`) | two token groupings, fingerprints, R-tree (boost, external) | best-first search by box bounds | exact |
| puffinn join (`knn/puffinn.hh`) | external approximate index | build, search | external; only its loop, budget and options, see 5 |
| preprocessing (`data/`) | records, universe | renumber, sort | results are those of the input |
| statistics, timing, containers | per-thread counters | add up | no decision depends on them |

The components interact by calls within one thread; what threads share is the loop's
atomics. The hard parts are: relaxed atomics read in different orders, a deadline seen
late, batches not full at a stop; and, sequentially, early termination justified by
bounds that several places must agree on, rounded doubles, integer boundaries
(size groups, universe size, heap size), and thread state reused by the next query.

### 1.2 The benchmark scheduler

| component | state | operations | correct when |
|---|---|---|---|
| job generation (`benchmark.py`, `memory.py`) | jobs, resource estimates, order, readiness | parse selectors, generate jobs, build documents and commands | what the scheduler takes for granted holds; every command is accepted by the program |
| coordinator (`run_coordinator`, `SchedulerStore` in `benchmark_scheduler.py`) | run document, documents read and not handled yet | expire leases, skip, fail unfit jobs, refresh readiness, complete the run | outcomes are final, attempts limited, dependencies kept, the run ends |
| worker (`WorkerAgent`, `ResourcePool`) | snapshot of free resources, reservations, threads | heartbeat, claim, launch, renew, report, release | one process per job as long as leases are kept; nothing promised twice |
| child process (`run.py`, `result_records.py`, `db.py`) | result document | run the command, write the result, exit | job and result documents agree |

Coordinator and workers meet only in a MongoDB collection; each call is atomic,
nothing spans two calls. Hosts, processes and calls fail independently: leases lapse,
reports arrive late or twice, documents read before are stale when they are updated.

### 1.3 The LES3 precompute

| component | state | operations | correct when |
|---|---|---|---|
| precompute (`knn/les3/precompute/l2p_core.py`, started by the scheduler as a job of its own) | one group file per completed level, file and progress record of the level in progress, final group file | resume from the files, split the groups of a level one by one, finish the level, copy the last one | every level is a cut of the one before; a run killed anywhere is resumed without losing or repeating recorded work; what it leaves as the final file is accepted by `les3.hh` |

The process may run for hours, and is killed by a timeout of the scheduler, by a worker
that ends, or with its host. Files are replaced by renaming; only the file in
progress is synced to disk.

### 1.4 Not part of either

`evaluation/` (plots) and the Ansible and CMake files.

## 2. Modules

| module | models | role |
|---|---|---|
| `QueryRun` | - | abstract: what one run of a join promises |
| `MultithreadedJoin` | parallel query loop | implements `QueryRun`; one action per atomic access; two drivers, "batched" (`baseline.hh`) and "grouped" (`baselinepp.hh`). The loop of the other joins, one query at a time, is "batched" with batches of one |
| `MultithreadedJoinProofs` | - | theorems about it |
| `LengthGrouping`, `Similarity`, `TopKHeap`, `SetOps` | groupings, similarity and bounds, heap, merge loop | operators shared by the lookups |
| `TopKProofs` | - | lemmas about them and about `Fingerprints` and `Preprocess`, used by the proofs of all lookups |
| `Preprocess` | `preprocess.cc` | operators; ties of the sorts are left open |
| `KNNLookup` | prefix index lookup with suffix and sketch filter | state of one thread: queue, heap, candidates, overlap counters, across queries |
| `KNNLookupProofs` | - | theorems about it |
| `Fingerprints` | dual transformation and its bounds | operators, used by `ScanLookup` and `KNNLookup` |
| `ScanLookup` | baseline, baselinepp, LES3, transformation | lookups that compare record by record; composes Preprocess, SetOps, TopKHeap, Similarity, Fingerprints |
| `ScanLookupProofs` | - | theorems about it |
| `PartitionLookup` | partition, palloc | signatures, indexes, step queue, verification, cleanup |
| `PartitionLookupProofs` | - | theorems about it |
| `BenchmarkJobs` | job generation, option checks and dispatch of `cmdline.cc` | from the command line to job documents, commands and joins |
| `BenchmarkJobsProofs` | - | theorems about it |
| `GroupPrecompute` | LES3 precompute | its files under kills and losses of power |
| `GroupPrecomputeProofs` | - | theorems about it |
| `JobBoard` | - | abstract: what the scheduler promises of jobs |
| `Scheduler` | coordinator, workers, children, faults | implements `JobBoard` |
| `SchedulerProofs` | - | theorems about it |
| `MC...` | - | small data sets, requests and job graphs for TLC |

How state and actions correspond to the code:

* *MultithreadedJoin*: `pc[t]` is the place of a thread between two accesses of shared
  data. Relaxed atomics on separate variables are interleaved one access per action; a
  thread may also sit between any two of them. TBB's splitting is `Claim`: a thread takes
  any non-empty part of what is left. `DeadlinePasses` is the clock; `counterAtDeadline`
  is a history variable.
* *KNNLookup*: one action per event (`PopAndRead`), per verified candidate
  (`Verify`), for the follow-up events (`EnqueueNext`), and for the end and cleanup. The
  index is the function from records to matches it was built from. A similarity is an
  exact fraction; where the code rounds a product of doubles to an integer, an exact
  integer may come out on either side, so `Eqo` and `MaxPs` are sets of results. A setup
  fixes what the options of a join do: data, k, mode, grouping, filters. The code compares
  a token of the suffix filter with one behind the vector when all tokens of the query are
  smaller; either answer gives the same distance, so there is one outcome.
* *ScanLookup*: `rest` holds the records of the current group, which is the whole data
  set, a size, a line of the group file or a leaf; what the four algorithms do between
  groups are actions of their own (`NextSize`, `NextGroup`, `EnterNode`). The data set as
  it was read (`raw`, `origin`) is kept, so that results are judged by the input and not
  by what preprocessing made of it.
* *PartitionLookup*: a step of the `while` loop of `lookup` is `TakeStep`, one `Handle`
  per index entry of its list, and `EndStep`. Hashes are the token sets they stand for; a
  collision would only add candidates that are verified anyway.
* *Scheduler*: one action per database operation with the local work around it. A
  read-then-update is two actions: `FindExpired` puts copies on the `agenda`,
  `ExpireLease` updates by the stale copy under the filter of the code. `Faults` names
  what may go wrong and every fault is an action or a disjunct of its own.
* *GroupPrecompute*: one action per change of a file, so that a kill can fall between any
  two of them; a kill within the write of a split leaves any beginning of it (`CutOff`). A
  file is its groups and how many of them are `durable`; a loss of power cuts any set of
  files to that, and may take a progress record as well. The outcome of the trained
  model is any cut of a group in two or none. Members of a group are a set: their order
  decides nothing.
* *BenchmarkJobs*: a request goes through `Parse`, one `GenerateAlgorithm` per
  algorithm, `BuildSchedulerJobs`. The code keeps lists of algorithms and jobs and sorts the
  jobs before they are stored; the model has sets and goes through the algorithms in any
  order. Ratios (0.1, 1.1) are exact fractions rounded as `int` does; the code's doubles
  may be a byte off.

## 3. Runs

Twelve runs. The properties are stated with comments in the modules.

| run | instance | question |
|---|---|---|
| `mt_join` | 2 threads, 5 queries, batched (batches of 2) and grouped (queries of 2 sizes), interval 3, deadline | exact counting, one place per query, honest report, refinement of `QueryRun` by both loops; every run ends; a passed deadline stops it |
| `knn_exact` | all data sets of 3 records over 5 tokens, k = 2, 3 modes, identity and aio; 5 records over 3 tokens and 3 records of sizes 1 to 5, k = 3, fixed, usqrt, wsqrt; suffix filter of depth 2 and 4, the latter with the sketch filter | exact results, justified early end, partial overlaps, clean thread state |
| `knn_live` | the wide groupings of `knn_exact` | every lookup ends |
| `knn_full_grouped` | one data set of 25 records | finding 1 |
| `scan_exact` | all data sets of 4 records over 3 tokens, k = 2, 4 algorithms, batches of up to 2, valid and invalid group files, 2 trees | exact results with respect to the input, nothing overlooked |
| `part_exact` | 4 records with largest token 3, 2 with largest token 5, k = 2, both variants | every step earned, exact results, clean bitmap |
| `part_power_of_two` | 2 records with largest token 4 | finding 2 |
| `sched_all_faults` | 1 worker, a precompute job and the job that waits for it, memory pressure, all eight faults | types, final outcomes, refinement of `JobBoard` |
| `sched_live` | 2 workers of 3 and 2 memory units, jobs of 2, 3 and 4, launched by the coordinator, hosts die | exclusive leases, agreeing documents, no skip of what was started, reservations that fit; the run ends |
| `plan_jobs` | up to 2 selectors, up to 2 data sets of 3 sizes, 2 hosts, 2 thread counts; and everything at once | job documents, readiness, commands and the joins they run, memory of puffinn, warnings |
| `precompute_faults` | data sets of 0, 1, 5 and 6 records, 2 initial groups, one or two more levels, 2 kills or a loss of power | levels nested, honest progress records, no recorded work lost, a complete file in the end |
| `precompute_power_loss` | 4 records, one initial group, 2 levels, a kill and a loss of power | finding 3 |

The checks of a module's types are kept where the state is not plainly typed by its
initial value and one assignment: `mt_join`, `knn_exact`, `sched_all_faults`,
`precompute_faults`.

### 3.1 Bounds and why they suffice

* *mt*: with interval 3, 5 queries and batches of 2 the counter steps over a multiple, hits
  one, and ends between two; two threads suffice for every race on a flag or counter,
  because all accesses are to single variables; chunks of every size are claimed.
  The theorems of section 4 remove the bounds.
* *knn*: 3 records suffice to have a neighbour in the heap, one to be cut off and one not met;
  5 tokens give overlaps up to 5 and sizes up to 5, so all columns of the index occur.
  The lookup compares tokens only with each other, so data sets without gaps in their
  tokens suffice. Further setups have groups of several sizes on both sides of the query.
  k = 2 and 3 cover heaps that fill up and heaps that do not. After a lookup any query may follow.
* *scan*: 4 records of sizes 1 to 3 put sizes on both sides of a query and let queries of a
  batch be settled at different times; group files have three lines, with an id missing,
  repeated, or out of range; a tree has two or three levels. Fingerprints have two
  counters instead of sixteen. `Preprocessing` limits the algorithms that run on
  preprocessed data as well to the two linear scans.
* *part*: the universes give parts that share tokens, an always empty one, and parts of
  different size. Largest tokens that are powers of two are left to the second run.
* *sched*: a precompute job and the job that waits for it are the whole dependency
  structure the generator makes for one data set. One worker suffices for all faults
  since copies of the coordinator, orphans and late threads of the same worker are already
  several actors; two workers are checked with host crashes and by proof. `MaxAttempts`
  is 2 as in the code.
* *precompute*: 5 records make initial groups of 2, 2 and 1, the last of which is not full, all
  below the threshold of 3, and one level; 6 make groups of 3, which are split or not, and
  two levels, so that there is a level before and one after the level in progress; 1 cannot
  be cut into 2 groups, and 0 make no group. Two kills let a run die while it resumes. `FewFaults` follows a loss of power only
  as the first fault; what a second fault makes of it is finding 3.
* *plan*: sizes and memories are units of a small host, chosen so that the index budget
  of puffinn is limited by the tokens, by the memory, and negative.

### 3.2 Fairness

Only the liveness properties depend on it. `MultithreadedJoin`: weak fairness of each thread (TBB keeps its
workers running, a lookup ends) and of the return of `parallel_for`; none of the clock.
`KNNLookup`: weak fairness of the steps of a lookup once begun, which is sequential code.
`Scheduler`: weak fairness of the coordinator's and the workers' loops (both poll on a
timer), of threads and of children per job and worker (a child ends: commands run with
a timeout), and of the passing of a lease nobody renews (time). No fault has to happen.
`GroupPrecompute`: weak fairness of a run, which is sequential code, and of its being
started again after it died, by the retry of the scheduler or by hand.
Deadlock is not checked where a run may stop for good: joins return, runs end.

### 3.3 Findings

1. `knn_full_grouped`, `src/knn/equeue.hh:100`: `inc_pos` moves to the next group of
   longer records by the difference of the *lower* bounds of the groups, while `initialize`
   starts each group at its *upper* bound (line 47). If a group spans more sizes than the one
   before it, the next event starts at too small a column and cross reads of the full mode
   skip columns of its longest records. The assertion of `KNNJoin::compare`
   (`src/knn/join.hh:230`) then fails. The other modes do not read by column only, and
   `knn_exact` shows them exact with such groups.
2. `part_power_of_two`, `src/knn/partition/partition.hh:52`: the number of parts is computed
   from the largest token id, taken for the number of tokens. If it is a power of two, no
   part is empty for all records, all steps of a lookup can be used up while its threshold is
   below the bound, and neighbours that share tokens but no part with the query are
   missed: records {0} and {0,2,3,4}, k = 2, query {0}. `compare` (line 214) would report
   an error in the result.
3. `precompute_power_loss`, `src/knn/les3/precompute/l2p_core.py:824`: a level that cannot be
   resumed is begun anew, but files of later levels are left as they are and a progress
   record names nothing but its level. Files are renamed unsynced (line 682); only the file
   in progress is (line 873), and not when a resumed level has no parent left to split. If
   the host then loses power during the next level, the level may be there and empty, while
   groups and record of the next one are intact. The level is split anew at random, the
   next one goes on from groups of other parents, and the run succeeds with a file
   that repeats or misses records, which `read_groups` (line 721) and `les3.hh:123` refuse. The
   assumption is a file system that keeps of a file what was synced and nothing else; one
   loss of power alone is survived (`SingleLossIsSurvived`), and so are kills.

## 4. Proofs

All theorems hold for every value of the constants that satisfies the named assumption of
the module:

* `JoinAssumption`: finitely many threads, positive batch size and interval;
* `LookupAssumption`, `ScanAssumption`, `PartitionAssumption`: data sets are finite, records
  have ids 0 to n - 1 and are finite non-empty sets of naturals (`IsDataset`), k is positive;
  for the prefix index also that records are sorted by size, as the program demands of its
  input, for the scans that trees are trees over the data set, and for the partition join
  a token above 1 (see 5);
* `PrecomputeAssumption`: the constants of `l2p_core.py` are positive;
* `JobsAssumption`: data sets, values of k and thread counts are finite sets of naturals, the
  last two not empty;
* `SchedulerAssumption`: what `SchedulerIsSuited` shows of the documents of a run.

Every invariant that a passing run checks is also the statement of a theorem, and so are
both refinements. Where a theorem has a hypothesis (`Sound`, the power of two, fewer
faults), the runs of section 3.3 show that it is needed.

### 4.1 The join program

*MultithreadedJoinProofs.* `TypeCorrect`; `QueriesArePlaced`, `CountIsExact`,
`ReportIsHonest`, `StopIsSound` and `TimeoutIsSound` from the inductive invariant `IInv`: types, one place per query,
the exact counter, the order of the flags, and what holds once `parallel_for` has
returned (`AllJoined`). `HonestReport` alone is not inductive: that the counter is exact
needs to know that a batch on its way to the counter is disjoint from all others.
`LoopImplementsRun` maps each action to `Begin`, `Answer`, `Cut`, `Return` or a
stutter; `IInv` supplies that begun queries are new and that a return without a cut is
complete.

*TopKProofs* has what the lookups share. Similarities are fractions with a positive
denominator, and `Less` and `AtMost` are a total order on them although they compare
products. `IsHeap` is kept by an insertion; a record is `Settled` once the heap is full of
results that are at least as good, and stays so; `IsComparison` says that comparing a record
leaves it in the heap or settled. `EqoIsSound`: a record with less overlap than `eqo` asks for
is not above the threshold, on whichever side a rounded product falls. `OverlapIsExact`: the
merge loop returns the overlap or rightly gives up, for all records. The bounds of
fingerprints are sums over token groups, compared term by term.

*KNNLookupProofs.* `CountersAreCleared`: a record that is not in the list the cleanup goes
through has no overlap, whichever part of the index was read (`IInv`). `Types`,
`PartialOverlaps`, `EarlyEndIsRight` and `ResultsAreExact` need two more parts. `StateInv`: events
lie on the diagonals of their groups and carry the bound of their row. `SearchInv`: each group
has an event in the queue that is in it or will lead to it; no event has passed the first match
of a record not read, unless the bound of that match is beyond the threshold; overlaps of
records about to be verified resume where reading ended; the rest is in the heap or settled.
The lookup ends early because the best event left bounds all that is unread, and the proof
goes through the groupings (`group_min`, `group_max` of the groups a grouping makes), the
symmetric and the asymmetric reads of a row and a column, and both filters: suffix filter
and sketch reject a record only if its overlap stays below what is needed, for any depth
and any dual transformation. The mode FULL reads columns only, and is exact if there is
a single group or no group spans more than one size (`Sound`); `knn_full_grouped` is the
counterexample otherwise.

*ScanLookupProofs.* `ResultsAreExact` and `NothingIsOverlooked`. `IInv` says of each query of
a batch that every record not ahead of it (the rest of the current group and `Unread`) was
compared, and is in the heap or settled, and how each algorithm's cursors describe what is
unread: baselinepp stands next to whole runs of one size (`SizesInv`), LES3 and the transformation
have disjoint groups or nodes left (`NodesInv`). Results are compared with the
data as they were read, so the proof includes that preprocessing, a renaming of tokens and
a permutation of records, preserves similarities.

*PartitionLookupProofs.* `MarksAreCleared` and `DistancesAreEarned`, for every data set
and both variants. `DistanceIsEarned` compares the distance with the number of tokens
two records do not share, and that number alone is not inductive. The invariant names the
tokens: for each record not met there is a set of unshared tokens (`IsWitness`), one for
each completed step, and a part with a step to come holds no token of the set before its
normal step and a single one after it. A completed step therefore always adds a
new one: a record in the wrong list of a part differs in that part (`NormalStep`), and one
outside both lists of a deletion step differs there twice (`DeletionStep`); parts do not
overlap (`PartsAreDisjoint`). `ResultsAreExact` adds what the heap holds (`ExactInv`) and is proved for
all data sets whose largest token is not a power of two: then the last part is empty in every
record, so that a search that runs out of steps has met everything. With a power of two
the proof has no such part, and `part_power_of_two` no exact result.

### 4.2 The scheduler

*SchedulerProofs.* `TypeCorrect`, `SkippedJobsWereNeverRun`, `OutcomesStay`,
`SchedulerImplementsBoard` and `ReservationsFit` hold under *any* set of faults. `BoardInv` says that a pending job
has an attempt left, that a job is ready only after its precompute succeeded, that skips
were due and copies about to be skipped still are, that a copy read by `expire_leases`
has the attempts of its document, and that a working coordinator finds the run open.
Copies are the point: the filter of `expire_leases` compares owners and not attempts.
That is enough because a job in the copies is running or has ended, and only the
coordinator itself, handling the copy, can make it pending (`CopiesAreCurrent`): it cannot
have been claimed again in between.

`ReservationsFit` is about `CapacityKept`, a sum over a set of threads. `CapacityInv` numbers the
claims of a job, so that no two threads of a worker are equal and a thread that starts or ends
adds or takes away just its own share (`ClaimsAreOld`, `ClaimsDiffer`), and says that the snapshot a
claim was made by is still good when the thread is started, because in between threads only
give back (`SnapshotsAreGood`). A sum is the number of its units (`TotalIsCount`), which
gives it the laws of cardinality.

`ExecutionIsLeased`: without stalls, orphans and loop errors
(`Calm`) a child runs under the lease and attempt the document names, and is the only
one. `LeaseInv` follows a claim through its stages - held, thread, child - each leased
(`HeldIsLeased`, `ThreadsAreLeased`, `ChildrenAreLeased`), each alone (`OneThread`,
`OneChild`, `HeldIsAlone`), and says that a lapsed lease is an abandoned one
(`LapsedIsAbandoned`) and that the coordinator only holds copies of such
(`CopiesAreLapsed`). With one of the three faults the property is false, as leases
go. On top of it `DocumentsAgree`, for crashes of hosts: what a child wrote stands until its
thread has reported it, and the only results missing are those the coordinator is about to
write (`RecordsInv`).

*BenchmarkJobsProofs.* `IInv`: the jobs are those of the algorithms that were gone through, a
finite set, in whatever order. `SchedulerIsSuited` counts predecessors in a total order of
keys (`OrderIsTotal`, `PlacesFollowKeys`); `BlockedJobsWillStart` has a precompute before every job
that waits for it; `CommandsAreTaken` and `JoinsDiffer` go through the algorithms;
`EverythingIsPlanned` needs no more than the invariant. `PuffinnIsScheduled` is arithmetic: the budget
is rounded towards zero, so up if it is negative, and a tenth of the data set has to be strictly
less than the reserve. With equality it fails by one byte (memory 18, reserve 8, data set of
80 bytes: the budget is -78 / 1.1, rounded to -70, and 11 bytes are reserved where 10 are usable);
the model-checked instances had missed this, and `PuffinnFits` says "less" since.

### 4.3 The LES3 precompute

*GroupPrecomputeProofs.* `Types` under any faults; `Nested`, `Honest`, `Kept` and `SingleLoss` from `IInv`:
types, and, unless a loss of power came with another fault, what files there are and
how they refine each other (`FileInv`), that a record that can be loaded is backed by its file
(`ProgressInv`), that memory agrees with the files (`RunInv`), and what is durable before the first
fault (`DurableInv`), which is what a loss of power leaves. Any number of kills is survived, or one
loss of power; with more, finding 3 applies and only the types are left.

### 4.4 Out of the prover's reach

Liveness under fairness and anything with `ENABLED`: `RunEnds`, `LateCrossingStops`,
`LookupEnds`, `GroupsGetReady` are checked by TLC only. Induction over data is done with the
well-foundedness of the naturals and of finite subsets, for sets that are given, since the
library's induction theorems take an operator as a parameter; that was enough for the merge
loop, sums and groupings. Powers have no axioms, so all that is known of the number of levels of a
precompute (`LevelCount`) is that it is a natural number; nothing proved depends on more.

## 5. Limits

* `RecordsAgree` is claimed for host crashes only. With lost acknowledgements, orphans,
  stalls or a coordinator that dies between updating a job and writing its failure, job and
  result documents do disagree; nothing in the code promises otherwise.
* `WorkIsLeased` excludes stalls, orphans and loop errors, where a lease runs out under a
  living process. Final outcomes and `JobBoard` are kept even then.
* Runs without launched workers may stay open for ever (`expected_workers` is 0 and unfit jobs
  are not failed); `RunEnds` is stated for launched workers.
* Data sets of one
  size under the fixed grouping are excluded from `KNNLookup` (`HasGroups`): the code makes no group then and
  reads past a vector.
* Left out of `Scheduler`: times, failure texts, attempt logs, and the second update of a claim
  (`job_spec.attempt`), which a slow worker may write after a later claim.
* Records are smaller than 2^15 tokens (`Fingerprints`), tokens are distinct and
  ascending within a record and empty records do not occur, as the README of the program demands
  of its input; the parser does not check it.
* `fast_ceil_log2` of the partition join is undefined for data sets without a token above 1, which
  `PartitionLookup` therefore excludes by its instances. Its hash table grows when a token is first
  seen; all tokens are hashed before the lookup threads start.
* `DocumentsSuitScheduler` is for data sets named once; `--datasets d,d` makes two precompute
  jobs for one group file.
* `GroupPrecompute` has one process at a time. A stalled worker that claims its job again, with
  the old child still running, would have two on one file; nothing in the code locks it.
  An emptied file of level zero makes every later run fail. The last number of a cut-off line
  may itself be cut short, which is not modelled; lines beyond the recorded ones are never read.
* Group files lie on the host that made them; `Scheduler` does not model which host has which
  files.
* Not modelled: the index of puffinn (an external, approximate library; its loop is the
  "batched" driver with one thread, its budget and options are in `BenchmarkJobs`), the neural network behind a split, statistics, plots, deployment. On processors
  other than x86-64 the box bound of the transformation is the looser of the two; the model
  has the tighter one.

## 6. Plan

Done, in this order: the query loop and its abstract run; the scheduler and its board, with
lease proofs; the prefix index lookup with groupings; scans with preprocessing, LES3 and the
transformation; the partition join; job generation; the filters of the prefix index
lookup; the LES3 precompute with its faults; the dispatch of the command line. Then the
proofs: exact results of all lookups, the files of the precompute, reservations and
documents of the scheduler, job generation. Every invariant a passing run checks is now
a theorem as well.

Next:

1. An abstract `TopKSearch` (a result set improves until it is exact) implemented by
   `ScanLookup`, `PartitionLookup` and `KNNLookup`, replacing their separate statements of
   exactness. The invariants of section 4 have all a proof of it needs.
2. A composition of `BenchmarkJobs` and `Scheduler`: the documents of the one as the constants
   of the other, so that `SchedulerAssumption` is a theorem and not read off
   `SchedulerIsSuited`.
3. Leases under stalls: what is still exclusive when a lease runs out under a living process.
