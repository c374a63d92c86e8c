---------------------------- MODULE BenchmarkJobs ----------------------------
(***************************************************************************)
(* benchmark.py run: the jobs of a benchmark run, from the algorithms,      *)
(* experiments and data sets asked for to the documents create_run stores   *)
(* for the scheduler (module Scheduler), and the commands the jobs execute, *)
(* as the command line of the C++ program (cmdline.cc) takes them.          *)
(*                                                                         *)
(* A job is told by algorithm, experiment, data set, k and concurrency.  The *)
(* lists of algorithms and of jobs are sets here: build_scheduler_jobs sorts *)
(* the jobs, by keys that tell them apart but for the concurrency, so that   *)
(* the order they are made in decides nothing (dict.fromkeys drops doubles). *)
(* Data sets are numbered in the order of their names.                       *)
(***************************************************************************)
EXTENDS Integers, FiniteSets, FiniteSetsExt

CONSTANTS
  Requests,           \* [selectors, experiments, datasets] a user asks for
  Sizes,              \* sizes a data set file may have, 0 if it is missing
  TokenCounts,        \* numbers of tokens in such a file
  HostMemories,       \* MemTotal of the coordinator's host
  KValues,            \* DEFAULT_K_VALUES
  ScalK,              \* SCAL_K
  ScalConcurrencies,  \* DEFAULT_SCAL_CONCURRENCIES
  CpuCores,           \* CPU_CORES
  PhysicalCores,      \* PHYSICAL_CORES
  ReserveBytes,       \* MEMORY_RESERVE_BYTES
  BytesPerToken       \* PUFFINN_BYTES_PER_TOKEN

ASSUME JobsAssumption ==
  /\ \A r \in Requests :
       r.datasets # {} /\ r.datasets \subseteq Nat /\ IsFiniteSet(r.datasets)
  /\ KValues # {} /\ KValues \subseteq Nat /\ IsFiniteSet(KValues)
  /\ ScalK \in Nat
  /\ ScalConcurrencies # {} /\ IsFiniteSet(ScalConcurrencies)
  /\ Sizes \cup TokenCounts \cup HostMemories \subseteq Nat
  /\ CpuCores \in Nat \ {0} /\ PhysicalCores \in Nat \ {0}
  /\ ScalConcurrencies \subseteq Nat \ {0}
  /\ ReserveBytes \in Nat /\ BytesPerToken \in Nat

VARIABLES
  request,   \* what the user asked for
  host,      \* total memory of the coordinator's host
  files,     \* files[d]: size and tokens of data set d
  pc,        \* "parse", "generate", "created", "rejected" or "empty"
  selected,  \* algorithms generate_jobs has still to go through
  jobs,      \* jobs generated so far
  warnings,  \* warnings[...]: [algorithm, experiment] that are skipped
  documents  \* documents[j]: what the scheduler is told of job j

inputs == <<request, host, files>>
vars == <<inputs, pc, selected, jobs, warnings, documents>>

-------------------------------------------------------------------------------
(* ALGORITHMS and PRESETS. *)
PrefixAlgorithms ==
  {"baseline", "baselinepp", "full", "slim", "witheager", "withgrouping",
   "topkbaseline", "puffinn"}

QueryAlgorithms ==
  PrefixAlgorithms \cup {"partition", "palloc", "transformation", "les3"}

Precompute == "les3-precompute"

AllAlgorithms == QueryAlgorithms \cup {Precompute}

Presets == [all    |-> AllAlgorithms,
            query  |-> QueryAlgorithms,
            prefix |-> PrefixAlgorithms,
            suite  |-> {Precompute, "les3"}]   \* les3-suite

\* supports_scalability
SupportsScalability(a) ==
  a \notin {"full", "witheager", "withgrouping", "puffinn", Precompute}

Executable(a) == CASE a = "witheager"    -> "slim"
                   [] a = "withgrouping" -> "full"
                   [] OTHER              -> a

GroupingOption(a) == CASE a \in {"slim", "withgrouping"} -> "wsqrt"
                       [] a = "topkbaseline"             -> "aio"
                       [] OTHER                          -> "identity"

\* The place of a name in the order of strings.
NameRank(a) ==
  LET byName == <<"baseline", "baselinepp", "full", "les3", Precompute, "palloc",
                  "partition", "puffinn", "slim", "topkbaseline",
                  "transformation", "witheager", "withgrouping">>
  IN CHOOSE n \in DOMAIN byName : byName[n] = a

-------------------------------------------------------------------------------
(* parse_selectors, parse_experiments. *)
Resolved(selectors) ==
  UNION {IF a \in DOMAIN Presets THEN Presets[a] ELSE {a} : a \in selectors}

IsKnown(selectors) ==
  selectors # {} /\ selectors \subseteq DOMAIN Presets \cup AllAlgorithms

Experiments ==
  IF "all" \in request.experiments THEN {"standard", "scalability"}
                                   ELSE request.experiments

Init ==
  /\ request \in Requests
  /\ host \in HostMemories
  /\ files \in [request.datasets -> [size : Sizes, tokens : TokenCounts]]
  /\ pc = "parse"
  /\ selected = {}
  /\ jobs = {}
  /\ warnings = {}
  /\ documents = <<>>

Parse ==
  /\ pc = "parse"
  /\ IF IsKnown(request.selectors) /\ Experiments \subseteq {"standard", "scalability"}
     THEN /\ selected' = Resolved(request.selectors)
          /\ pc' = "generate"
     ELSE /\ pc' = "rejected"
          /\ UNCHANGED selected
  /\ UNCHANGED <<inputs, jobs, warnings, documents>>

-------------------------------------------------------------------------------
(* generate_algorithm_jobs. *)
JobsFor(a, experiment, ks, concurrencies) ==
  [algorithm : {a}, experiment : {experiment}, dataset : request.datasets,
   k : ks, concurrency : concurrencies]

\* k is None, which sorts as -1.
NoK == -1

\* CONCURRENCY is 1, and so is force_concurrency where it is given.
StandardJobs(a) ==
  IF a = Precompute THEN JobsFor(a, "standard", {NoK}, {PhysicalCores})
                    ELSE JobsFor(a, "standard", KValues, {1})

\* Mutant of ScalabilityJobs: supports_scalability is not looked at.
ScalabilityJobs_All(a) ==
  IF a # Precompute
  THEN JobsFor(a, "scalability", {ScalK}, ScalConcurrencies)
  ELSE {}

ScalabilityJobs(a) ==
  IF SupportsScalability(a)
  THEN JobsFor(a, "scalability", {ScalK}, ScalConcurrencies)
  ELSE {}

\* Mutant of Warned: only the precompute warns.
Warned_PrecomputeOnly(a) ==
  IF a # Precompute THEN {} ELSE {[algorithm |-> a, experiment |-> "scalability"]}

\* Every algorithm supports the standard experiments.
Warned(a) ==
  IF SupportsScalability(a) THEN {} ELSE {[algorithm |-> a, experiment |-> "scalability"]}

GenerateAlgorithm ==
  /\ pc = "generate"
  /\ \E a \in selected :
       /\ jobs' = jobs
            \cup (IF "standard" \in Experiments THEN StandardJobs(a) ELSE {})
            \cup (IF "scalability" \in Experiments THEN ScalabilityJobs(a) ELSE {})
       /\ warnings' = warnings
            \cup (IF "scalability" \in Experiments THEN Warned(a) ELSE {})
       /\ selected' = selected \ {a}
  /\ UNCHANGED <<inputs, pc, documents>>

-------------------------------------------------------------------------------
(* memory.py and resource_estimate.  Ratios are exact here: the code's doubles *)
(* may be a byte off.                                                         *)
AtLeastZero(n) == Max({0, n})

MemoryReserve(total) == Max({ReserveBytes, total \div 10})

UsableMemory(total) == AtLeastZero(total - MemoryReserve(total))

\* Mutant of MaximumMemoryReservation: the reserve is taken off once.
MaximumMemoryReservation_Usable == UsableMemory(host)

MaximumMemoryReservation == UsableMemory(host) - MemoryReserve(host)

\* int(n / 1.1) and int(n * 1.1): int rounds to zero.
Quotient(n, m) == IF n < 0 THEN -((-n) \div m) ELSE n \div m

PuffinnIndexMemory(d) ==
  Min({files[d].tokens * BytesPerToken,
       Quotient(10 * (MaximumMemoryReservation - files[d].size), 11)})

EstimatedMemory(a, d) ==
  CASE a = "puffinn" -> Quotient(11 * (PuffinnIndexMemory(d) + files[d].size), 10)
    [] a \in {"baseline", "baselinepp"} -> files[d].size
    [] OTHER -> 3 * files[d].size

\* Mutant of TokensFor: tokens are not capped.
TokensFor_Uncapped(concurrency) == concurrency

\* tokens_for
TokensFor(concurrency) == Min({concurrency, CpuCores})

-------------------------------------------------------------------------------
(* build_scheduler_jobs. *)
Stage(j) == IF j.algorithm = Precompute THEN "precompute" ELSE j.experiment

StagePriority(stage) == CASE stage = "precompute"  -> 0
                          [] stage = "standard"    -> 1
                          [] stage = "scalability" -> 2

\* The sort key; jobs that agree in the rest keep the order they were made in.
SortKey(j) ==
  <<StagePriority(Stage(j)), EstimatedMemory(j.algorithm, j.dataset),
    NameRank(j.algorithm), j.dataset, j.k, j.concurrency>>

SortsBefore(i, j) ==
  \E n \in DOMAIN SortKey(i) :
    /\ SortKey(i)[n] < SortKey(j)[n]
    /\ \A m \in 1 .. (n - 1) : SortKey(i)[m] = SortKey(j)[m]

PrecomputeDatasets == {j.dataset : j \in {i \in jobs : Stage(i) = "precompute"}}

\* Mutant of StartsReady: only the jobs of the standard stage are held back.
StartsReady_Scalability(j) ==
  \/ Stage(j) \in {"precompute", "scalability"}
  \/ ~(j.algorithm = "les3" /\ j.dataset \in PrecomputeDatasets)

StartsReady(j) ==
  \/ Stage(j) = "precompute"
  \/ ~(j.algorithm = "les3" /\ j.dataset \in PrecomputeDatasets)

Document(j) ==
  [sequence |-> 1 + Cardinality({i \in jobs : SortsBefore(i, j)}),
   ready    |-> StartsReady(j),
   tokens   |-> TokensFor(j.concurrency),
   memory   |-> EstimatedMemory(j.algorithm, j.dataset)]

BuildSchedulerJobs ==
  /\ pc = "generate"
  /\ selected = {}
  /\ IF jobs = {}
     THEN /\ pc' = "empty"
          /\ UNCHANGED documents
     ELSE /\ documents' = [j \in jobs |-> Document(j)]
          /\ pc' = "created"
  /\ UNCHANGED <<inputs, selected, jobs, warnings>>

Next == Parse \/ GenerateAlgorithm \/ BuildSchedulerJobs

Spec == Init /\ [][Next]_vars

-------------------------------------------------------------------------------
(* query_command: what the C++ program is called with. *)

\* Options that are not given have the defaults of cmdline.cc.
Command(j) ==
  LET a == j.algorithm
      batched == a = "baselinepp"
  IN [algorithm   |-> Executable(a),
      concurrency |-> j.concurrency,
      grouping    |-> GroupingOption(a),
      minBatch    |-> IF batched THEN 4 ELSE 1,
      maxBatch    |-> IF batched THEN 32 ELSE 1,
      budgeted    |-> a = "puffinn",     \* --puffinn-memory-bytes, --puffinn-recall
      groupFile   |-> a = "les3"]        \* --les3-groups

\* process_program_options goes on ...
IsAccepted(c) ==
  /\ c.algorithm = "les3" => c.groupFile
  /\ c.algorithm = "puffinn" => c.budgeted /\ c.concurrency = 1

\* ... and neither ignores an option nor changes one.
IsTakenAsGiven(c) ==
  /\ c.algorithm = "topkbaseline" => c.grouping = "aio"
  /\ c.groupFile => c.algorithm = "les3"
  /\ c.budgeted => c.algorithm = "puffinn"
  /\ c.minBatch # 1 \/ c.maxBatch # 1 => c.algorithm \in {"baseline", "baselinepp"}
  /\ c.minBatch <= c.maxBatch

\* Mutant of Deletion: only the switch -d counts, which no job gives.
Deletion_SwitchOnly(c) == FALSE

\* execute_partition
Deletion(c) == c.algorithm = "palloc"

PositionalMode == [full |-> "FULL", slim |-> "FILTER", topkbaseline |-> "TOPK_BASELINE"]

\* main: the join a command runs; a name it does not know is the baseline.
JoinOf(c) ==
  CASE c.algorithm \in DOMAIN PositionalMode ->
         [join |-> "KNNJoin", mode |-> PositionalMode[c.algorithm], grouping |-> c.grouping]
    [] c.algorithm \in {"partition", "palloc"} -> [join |-> "PartJoin", deletion |-> Deletion(c)]
    [] c.algorithm \in {"transformation", "les3", "puffinn", "baselinepp"} ->
         [join |-> c.algorithm]
    [] OTHER -> [join |-> "baseline"]

-------------------------------------------------------------------------------
\* The documents are what the scheduler takes for granted of a run (module
\* Scheduler, SchedulerAssumption): tokens a worker can have, one precompute job
\* for the jobs that wait for it, and no two jobs at one place in the order.
DocumentsSuitScheduler ==
  pc = "created" =>
    /\ \A j \in jobs : documents[j].tokens \in 1 .. CpuCores
    /\ \A i, j \in jobs : documents[i].sequence = documents[j].sequence => i = j
    /\ \A i, j \in jobs : /\ i.algorithm = Precompute /\ j.algorithm = Precompute
                          /\ i.dataset = j.dataset
                          => i = j

\* A job is held back exactly when the scheduler itself would not make it ready
\* (_job_is_ready), and then what it waits for is in the run, ready, and claimed
\* first.
BlockedJobsCanStart ==
  pc = "created" =>
    \A j \in jobs :
      LET awaited == {i \in jobs : i.algorithm = Precompute /\ i.dataset = j.dataset}
      IN /\ documents[j].ready <=> ~(j.algorithm = "les3" /\ awaited # {})
         /\ ~documents[j].ready =>
              \E i \in awaited : /\ documents[i].ready
                                 /\ documents[i].sequence < documents[j].sequence

\* The command line takes every query job as it is meant: it neither stops with an
\* error nor ignores or changes an option.
CommandsAreAccepted ==
  pc = "created" =>
    \A j \in jobs : j.algorithm # Precompute =>
      IsAccepted(Command(j)) /\ IsTakenAsGiven(Command(j))

\* The algorithms a benchmark compares are different joins: no two of its names come
\* down to one join with one length grouping in the C++ program.
AlgorithmsDiffer ==
  pc = "created" =>
    \A i, j \in {x \in jobs : x.algorithm # Precompute} :
      JoinOf(Command(i)) = JoinOf(Command(j)) => i.algorithm = j.algorithm

\* However large the index of puffinn would like to be, its job fits an idle
\* worker on a host like the coordinator's, as long as a tenth of the data set is
\* less than the reserve (with as much as that, a negative budget that is rounded
\* up may be one byte too many).
PuffinnFits ==
  pc = "created" =>
    \A j \in jobs :
      j.algorithm = "puffinn" /\ files[j.dataset].size < 10 * MemoryReserve(host)
        => documents[j].memory <= UsableMemory(host)

\* Nothing asked for is dropped in silence: an algorithm and an experiment that
\* were selected have jobs for every data set, or there is a warning.
NothingIsDropped ==
  pc = "created" =>
    \A a \in Resolved(request.selectors), e \in Experiments, d \in request.datasets :
      \/ \E j \in jobs : j.algorithm = a /\ j.experiment = e /\ j.dataset = d
      \/ [algorithm |-> a, experiment |-> e] \in warnings
===============================================================================
