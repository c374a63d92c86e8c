-------------------------- MODULE BenchmarkJobsProofs --------------------------
(***************************************************************************)
(* Proofs about BenchmarkJobs: what every run asked for comes down to.      *)
(***************************************************************************)
EXTENDS BenchmarkJobs, FiniteSetTheorems, TLAPS

-------------------------------------------------------------------------------
(* The inductive invariant: once a request is taken, the jobs are those of the  *)
(* algorithms that have been gone through, whatever the order.                 *)
Kinds == {"standard", "scalability"}

JobsOf(a) ==
  (IF "standard" \in Experiments THEN StandardJobs(a) ELSE {})
    \cup (IF "scalability" \in Experiments THEN ScalabilityJobs(a) ELSE {})

Asked == Resolved(request.selectors)

InputsInv ==
  /\ request \in Requests
  /\ host \in HostMemories
  /\ files \in [request.datasets -> [size : Sizes, tokens : TokenCounts]]

PlanInv ==
  /\ Experiments \subseteq Kinds
  /\ Asked \subseteq AllAlgorithms
  /\ selected \subseteq Asked
  /\ IsFiniteSet(jobs)
  /\ jobs = UNION {JobsOf(a) : a \in Asked \ selected}
  /\ "scalability" \in Experiments =>
       \A a \in Asked \ selected : Warned(a) \subseteq warnings

CreatedInv ==
  /\ selected = {}
  /\ documents = [j \in jobs |-> Document(j)]

IInv ==
  /\ InputsInv
  /\ pc \in {"parse", "generate", "created", "rejected", "empty"}
  /\ pc = "parse" => jobs = {} /\ selected = {}
  /\ pc \in {"generate", "created"} => PlanInv
  /\ pc = "created" => CreatedInv

-------------------------------------------------------------------------------
(* Jobs are finitely many. *)
LEMMA JobsForIsFinite ==
  ASSUME JobsAssumption, InputsInv, NEW a, NEW e,
         NEW ks, IsFiniteSet(ks), NEW cs, IsFiniteSet(cs)
  PROVE  IsFiniteSet(JobsFor(a, e, ks, cs))
<1> DEFINE D == request.datasets
           S == D \X (ks \X cs)
           T == JobsFor(a, e, ks, cs)
           f == [x \in S |-> [algorithm |-> a, experiment |-> e, dataset |-> x[1],
                              k |-> x[2][1], concurrency |-> x[2][2]]]
<1>1. IsFiniteSet(S)
  <2>1. IsFiniteSet(D)
    BY DEF JobsAssumption, InputsInv
  <2> HIDE DEF D
  <2>2. IsFiniteSet(ks \X cs)
    BY FS_Product
  <2> QED
    BY <2>1, <2>2, FS_Product
<1>2. f \in [S -> T]
  BY DEF JobsFor
<1>3. \A t \in T : \E s \in S : f[s] = t
  <2> TAKE t \in T
  <2>1. t = [algorithm |-> a, experiment |-> e, dataset |-> t.dataset,
             k |-> t.k, concurrency |-> t.concurrency]
    BY DEF JobsFor
  <2>2. <<t.dataset, <<t.k, t.concurrency>>>> \in S
    BY DEF JobsFor
  <2> QED
    BY <2>1, <2>2
<1>4. f \in Surjection(S, T)
  BY <1>2, <1>3 DEF Surjection
<1> HIDE DEF f, S, T
<1>5. IsFiniteSet(T)
  BY <1>1, <1>4, FS_Surjection
<1> QED
  BY <1>5 DEF T

LEMMA JobsOfIsFinite ==
  ASSUME JobsAssumption, InputsInv, NEW a
  PROVE  IsFiniteSet(JobsOf(a))
<1>1. IsFiniteSet({NoK}) /\ IsFiniteSet({PhysicalCores}) /\ IsFiniteSet({1})
      /\ IsFiniteSet({ScalK}) /\ IsFiniteSet({})
  BY FS_Singleton, FS_EmptySet
<1>2. IsFiniteSet(KValues) /\ IsFiniteSet(ScalConcurrencies)
  BY DEF JobsAssumption
<1>3. IsFiniteSet(StandardJobs(a))
  <2>1. IsFiniteSet(JobsFor(a, "standard", {NoK}, {PhysicalCores}))
    BY <1>1, JobsForIsFinite
  <2>2. IsFiniteSet(JobsFor(a, "standard", KValues, {1}))
    BY <1>1, <1>2, JobsForIsFinite
  <2> QED
    BY <2>1, <2>2 DEF StandardJobs
<1>4. IsFiniteSet(ScalabilityJobs(a))
  <2>1. IsFiniteSet(JobsFor(a, "scalability", {ScalK}, ScalConcurrencies))
    BY <1>1, <1>2, JobsForIsFinite
  <2> QED
    BY <1>1, <2>1 DEF ScalabilityJobs
<1> QED
  BY <1>1, <1>3, <1>4, FS_Union DEF JobsOf

-------------------------------------------------------------------------------
(* Invariance. *)
LEMMA AllAreAlgorithms ==
  ASSUME NEW selectors, IsKnown(selectors)
  PROVE  Resolved(selectors) \subseteq AllAlgorithms
<1>1. \A a \in DOMAIN Presets : Presets[a] \subseteq AllAlgorithms
  BY DEF Presets, AllAlgorithms, QueryAlgorithms, PrefixAlgorithms
<1> QED
  BY <1>1 DEF IsKnown, Resolved

\* What the documents are made of does not change while they are stored.
LEMMA DocumentStays ==
  ASSUME UNCHANGED <<inputs, jobs>>, NEW j
  PROVE  Document(j)' = Document(j)
<1>1. \A d : PuffinnIndexMemory(d)' = PuffinnIndexMemory(d)
  BY DEF inputs, PuffinnIndexMemory, MaximumMemoryReservation
<1>2. \A a, d : EstimatedMemory(a, d)' = EstimatedMemory(a, d)
  BY <1>1 DEF inputs, EstimatedMemory
<1>3. \A i : SortKey(i)' = SortKey(i)
  BY <1>2 DEF SortKey
<1>4. \A i : SortsBefore(i, j)' = SortsBefore(i, j)
  BY <1>3 DEF SortsBefore
<1>5. StartsReady(j)' = StartsReady(j)
  BY DEF StartsReady, PrecomputeDatasets
<1>6. {i \in jobs : SortsBefore(i, j)}' = {i \in jobs : SortsBefore(i, j)}
  BY <1>4
<1> QED
  BY <1>2, <1>5, <1>6 DEF Document

LEMMA InitIInv == Init => IInv
BY DEF Init, IInv, InputsInv

LEMMA ParseIInv ==
  ASSUME JobsAssumption, IInv, Parse
  PROVE  IInv'
<1>1. InputsInv' /\ pc' \in {"generate", "rejected"} /\ jobs' = {}
  BY DEF IInv, Parse, InputsInv, inputs
<1>2. ASSUME pc' = "generate"
      PROVE  PlanInv'
  <2>1. /\ Experiments \subseteq Kinds
        /\ IsKnown(request.selectors)
        /\ selected' = Asked
    BY <1>2 DEF Parse, Kinds, Asked
  <2>2. Experiments' = Experiments /\ Asked' = Asked
    BY DEF Parse, inputs, Experiments, Asked
  <2>3. IsFiniteSet(jobs')
    BY <1>1, FS_EmptySet
  <2>4. Asked \subseteq AllAlgorithms
    BY <2>1, AllAreAlgorithms DEF Asked
  <2>5. jobs' = UNION {JobsOf(a)' : a \in Asked' \ selected'}
    BY <1>1, <2>1, <2>2
  <2> QED
    BY <2>1, <2>2, <2>3, <2>4, <2>5 DEF PlanInv
<1> QED
  BY <1>1, <1>2 DEF IInv

LEMMA GenerateIInv ==
  ASSUME JobsAssumption, IInv, GenerateAlgorithm
  PROVE  IInv'
<1>1. PlanInv /\ InputsInv
  BY DEF IInv, GenerateAlgorithm
<1>2. InputsInv' /\ pc' = "generate"
  BY DEF IInv, GenerateAlgorithm, InputsInv, inputs
<1>3. Experiments' = Experiments /\ Asked' = Asked
  BY DEF GenerateAlgorithm, inputs, Experiments, Asked
<1>4. \A b : JobsOf(b)' = JobsOf(b)
  BY <1>3 DEF GenerateAlgorithm, inputs, JobsOf, StandardJobs, ScalabilityJobs, JobsFor
<1>5. PICK a \in selected :
        /\ jobs' = jobs \cup JobsOf(a)
        /\ warnings' = warnings
             \cup (IF "scalability" \in Experiments THEN Warned(a) ELSE {})
        /\ selected' = selected \ {a}
  BY DEF GenerateAlgorithm, JobsOf
<1>6. IsFiniteSet(jobs')
  BY <1>1, <1>5, JobsOfIsFinite, FS_Union DEF PlanInv
<1>7. Asked \ selected' = (Asked \ selected) \cup {a}
  BY <1>1, <1>5 DEF PlanInv
<1>8. jobs' = UNION {JobsOf(b) : b \in Asked \ selected'}
  BY <1>1, <1>5, <1>7 DEF PlanInv
<1>9. jobs' = UNION {JobsOf(b)' : b \in Asked' \ selected'}
  BY <1>3, <1>4, <1>8
<1>10. "scalability" \in Experiments =>
         \A b \in Asked \ selected' : Warned(b) \subseteq warnings'
  BY <1>1, <1>5, <1>7 DEF PlanInv
<1>11. PlanInv'
  BY <1>1, <1>3, <1>5, <1>6, <1>9, <1>10 DEF PlanInv
<1> QED
  BY <1>2, <1>11 DEF IInv

LEMMA StoredIInv ==
  ASSUME JobsAssumption, IInv,
         UNCHANGED <<inputs, selected, jobs, warnings>>,
         \/ pc' = pc /\ documents' = documents
         \/ pc = "generate" /\ pc' = "empty"
         \/ /\ pc = "generate" /\ pc' = "created" /\ selected = {}
            /\ documents' = [j \in jobs |-> Document(j)]
  PROVE  IInv'
<1>1. InputsInv'
  BY DEF IInv, InputsInv, inputs
<1>2. Experiments' = Experiments /\ Asked' = Asked
  BY DEF inputs, Experiments, Asked
<1>3. \A b : JobsOf(b)' = JobsOf(b)
  BY <1>2 DEF inputs, JobsOf, StandardJobs, ScalabilityJobs, JobsFor
<1>4. PlanInv => PlanInv'
  BY <1>2, <1>3 DEF PlanInv
<1>5. \A j : Document(j)' = Document(j)
  BY DocumentStays
<1>6. [j \in jobs |-> Document(j)]' = [j \in jobs |-> Document(j)]
  BY <1>5
<1>7. pc' = "created" => CreatedInv'
  BY <1>6 DEF IInv, CreatedInv
<1> QED
  BY <1>1, <1>4, <1>7 DEF IInv

LEMMA NextIInv == JobsAssumption /\ IInv /\ [Next]_vars => IInv'
<1> SUFFICES ASSUME JobsAssumption, IInv, [Next]_vars PROVE IInv'
  OBVIOUS
<1>1. CASE Parse
  BY <1>1, ParseIInv
<1>2. CASE GenerateAlgorithm
  BY <1>2, GenerateIInv
<1>3. CASE BuildSchedulerJobs
  BY <1>3, StoredIInv DEF BuildSchedulerJobs
<1>4. CASE UNCHANGED vars
  BY <1>4, StoredIInv DEF vars
<1> QED
  BY <1>1, <1>2, <1>3, <1>4 DEF Next

LEMMA Invariance == Spec => []IInv
<1>1. Init => IInv
  BY InitIInv
<1>2. IInv /\ [Next]_vars => IInv'
  BY NextIInv, JobsAssumption
<1> QED
  BY <1>1, <1>2, PTL DEF Spec
-------------------------------------------------------------------------------
(* What a job is.                                                            *)
LEMMA MinOfTwo ==
  ASSUME NEW m \in Int, NEW n \in Int
  PROVE  /\ Min({m, n}) \in {m, n}
         /\ Min({m, n}) <= m /\ Min({m, n}) <= n
<1>1. \E x \in {m, n} : \A y \in {m, n} : x =< y
  OBVIOUS
<1>2. Min({m, n}) \in {m, n} /\ \A y \in {m, n} : Min({m, n}) =< y
  BY <1>1 DEF Min
<1> QED
  BY <1>2

LEMMA MaxOfTwo ==
  ASSUME NEW m \in Int, NEW n \in Int
  PROVE  /\ Max({m, n}) \in {m, n}
         /\ m <= Max({m, n}) /\ n <= Max({m, n})
<1>1. \E x \in {m, n} : \A y \in {m, n} : x >= y
  OBVIOUS
<1>2. Max({m, n}) \in {m, n} /\ \A y \in {m, n} : Max({m, n}) >= y
  BY <1>1 DEF Max
<1> QED
  BY <1>2

LEMMA JobFacts ==
  ASSUME JobsAssumption, InputsInv, PlanInv, NEW j \in jobs
  PROVE  /\ j = [algorithm |-> j.algorithm, experiment |-> j.experiment,
                 dataset |-> j.dataset, k |-> j.k, concurrency |-> j.concurrency]
         /\ j.algorithm \in AllAlgorithms
         /\ j.experiment \in Kinds
         /\ j.dataset \in request.datasets
         /\ j.k \in Int
         /\ j.concurrency \in Nat \ {0}
         /\ j.algorithm = Precompute => /\ j.experiment = "standard"
                                        /\ j.k = NoK
                                        /\ j.concurrency = PhysicalCores
         /\ j.algorithm # Precompute /\ j.experiment = "standard" => j.concurrency = 1
         /\ j.experiment = "scalability" => SupportsScalability(j.algorithm)
<1>1. PICK a \in Asked : j \in JobsOf(a)
  BY DEF PlanInv
<1>2. a \in AllAlgorithms
  BY DEF PlanInv
<1>3. ASSUME NEW e, NEW ks, NEW cs, j \in JobsFor(a, e, ks, cs)
      PROVE  /\ j = [algorithm |-> j.algorithm, experiment |-> j.experiment,
                     dataset |-> j.dataset, k |-> j.k, concurrency |-> j.concurrency]
             /\ j.algorithm = a /\ j.experiment = e /\ j.dataset \in request.datasets
             /\ j.k \in ks /\ j.concurrency \in cs
  BY <1>3 DEF JobsFor
<1>4. NoK \in Int
  BY DEF NoK
<1>5. CASE j \in StandardJobs(a)
  <2>1. CASE a = Precompute
    <3>1. j \in JobsFor(a, "standard", {NoK}, {PhysicalCores})
      BY <1>5, <2>1 DEF StandardJobs
    <3> QED
      BY <1>2, <1>3, <1>4, <2>1, <3>1 DEF JobsAssumption, Kinds
  <2>2. CASE a # Precompute
    <3>1. j \in JobsFor(a, "standard", KValues, {1})
      BY <1>5, <2>2 DEF StandardJobs
    <3> QED
      BY <1>2, <1>3, <2>2, <3>1 DEF JobsAssumption, Kinds
  <2> QED
    BY <2>1, <2>2
<1>6. CASE j \in ScalabilityJobs(a)
  <2>1. SupportsScalability(a) /\ j \in JobsFor(a, "scalability", {ScalK}, ScalConcurrencies)
    BY <1>6 DEF ScalabilityJobs
  <2>2. a # Precompute
    BY <2>1 DEF SupportsScalability
  <2> QED
    BY <1>2, <1>3, <2>1, <2>2 DEF JobsAssumption, Kinds
<1> QED
  BY <1>1, <1>5, <1>6 DEF JobsOf

LEMMA InputFacts ==
  ASSUME JobsAssumption, InputsInv, NEW d \in request.datasets
  PROVE  /\ d \in Nat
         /\ files[d].size \in Nat /\ files[d].tokens \in Nat
         /\ host \in Nat
BY DEF JobsAssumption, InputsInv

-------------------------------------------------------------------------------
(* Memory.                                                                   *)
LEMMA QuotientFacts ==
  ASSUME NEW n \in Int, NEW m \in {10, 11}
  PROVE  /\ Quotient(n, m) \in Int
         /\ n >= 0 => m * Quotient(n, m) <= n /\ n < m * Quotient(n, m) + m
         /\ n < 0 => m * Quotient(n, m) < n + m /\ n <= m * Quotient(n, m) /\ Quotient(n, m) <= 0
<1>1. CASE m = 10
  BY <1>1 DEF Quotient
<1>2. CASE m = 11
  BY <1>2 DEF Quotient
<1> QED
  BY <1>1, <1>2

LEMMA MemoryFacts ==
  ASSUME JobsAssumption, InputsInv
  PROVE  /\ MemoryReserve(host) \in Nat
         /\ UsableMemory(host) \in Nat
         /\ MaximumMemoryReservation = UsableMemory(host) - MemoryReserve(host)
         /\ MaximumMemoryReservation \in Int
<1>1. host \in Nat /\ ReserveBytes \in Nat /\ host \div 10 \in Nat
  BY DEF JobsAssumption, InputsInv
<1>2. MemoryReserve(host) \in Nat
  <2> DEFINE tenth == host \div 10
  <2>1. MemoryReserve(host) = Max({ReserveBytes, tenth}) /\ tenth \in Nat
    BY <1>1 DEF MemoryReserve
  <2> HIDE DEF tenth
  <2> QED
    BY <1>1, <2>1, MaxOfTwo
<1>3. UsableMemory(host) \in Nat
  <2> DEFINE left == host - MemoryReserve(host)
             none == 0
  <2>1. left \in Int /\ none \in Int
    BY <1>1, <1>2
  <2>2. UsableMemory(host) = Max({none, left})
    BY DEF UsableMemory, AtLeastZero
  <2> HIDE DEF left, none
  <2>3. Max({none, left}) \in {none, left} /\ none <= Max({none, left})
    BY <2>1, MaxOfTwo
  <2> QED
    BY <2>1, <2>2, <2>3 DEF none
<1> QED
  BY <1>2, <1>3 DEF MaximumMemoryReservation

LEMMA PuffinnIndex ==
  ASSUME JobsAssumption, InputsInv, NEW d \in request.datasets
  PROVE  LET budget == 10 * (MaximumMemoryReservation - files[d].size)
         IN  /\ budget \in Int
             /\ PuffinnIndexMemory(d) \in Int
             /\ PuffinnIndexMemory(d) <= Quotient(budget, 11)
<1> DEFINE budget == 10 * (MaximumMemoryReservation - files[d].size)
           wanted == files[d].tokens * BytesPerToken
<1>1. files[d].tokens \in Nat /\ BytesPerToken \in Nat /\ files[d].size \in Nat
  BY InputFacts DEF JobsAssumption
<1>2. wanted \in Int
  BY <1>1
<1>3. budget \in Int
  BY <1>1, MemoryFacts
<1>4. PuffinnIndexMemory(d) = Min({wanted, Quotient(budget, 11)})
  BY DEF PuffinnIndexMemory
<1> HIDE DEF wanted, budget
<1>5. Quotient(budget, 11) \in Int
  BY <1>3, QuotientFacts
<1>6. PuffinnIndexMemory(d) \in Int /\ PuffinnIndexMemory(d) <= Quotient(budget, 11)
  <2> DEFINE most == Quotient(budget, 11)
  <2>1. most \in Int /\ PuffinnIndexMemory(d) = Min({wanted, most})
    BY <1>4, <1>5
  <2> HIDE DEF most
  <2>2. Min({wanted, most}) \in {wanted, most} /\ Min({wanted, most}) <= most
    BY <1>2, <2>1, MinOfTwo
  <2>3. PuffinnIndexMemory(d) \in Int /\ PuffinnIndexMemory(d) <= most
    BY <1>2, <2>1, <2>2
  <2> QED
    BY <2>3 DEF most
<1> QED
  BY <1>3, <1>6 DEF budget

LEMMA EstimateIsInt ==
  ASSUME JobsAssumption, InputsInv, NEW d \in request.datasets, NEW a
  PROVE  EstimatedMemory(a, d) \in Int
<1>1. files[d].size \in Nat /\ PuffinnIndexMemory(d) \in Int
  BY InputFacts, PuffinnIndex
<1>2. 11 * (PuffinnIndexMemory(d) + files[d].size) \in Int
  BY <1>1
<1>3. Quotient(11 * (PuffinnIndexMemory(d) + files[d].size), 10) \in Int
  BY <1>2, QuotientFacts
<1> QED
  BY <1>1, <1>3 DEF EstimatedMemory

\* Whatever the index asks for, 1.1 times it and the data set is in bounds: the
\* budget is rounded to zero, and as a tenth of the data set is less than the
\* reserve, what the rounding gains never makes a byte.
LEMMA ReservationFits ==
  ASSUME NEW usable \in Nat, NEW reserve \in Nat, NEW size \in Nat, NEW index \in Int,
         size < 10 * reserve,
         index <= Quotient(10 * (usable - reserve - size), 11)
  PROVE  Quotient(11 * (index + size), 10) <= usable
<1> DEFINE budget == 10 * (usable - reserve - size)
           b == Quotient(budget, 11)
           n == 11 * (index + size)
<1>1. budget \in Int /\ n \in Int
  OBVIOUS
<1>2. /\ b \in Int
      /\ budget >= 0 => 11 * b <= budget
      /\ budget < 0 => 11 * b < budget + 11
  <2> HIDE DEF budget
  <2> QED
    BY <1>1, QuotientFacts
<1>3. index <= b
  OBVIOUS
<1>4. n < 10 * usable + 10
  <2> HIDE DEF b
  <2> QED
    BY <1>2, <1>3
<1>5. /\ Quotient(n, 10) \in Int
      /\ n >= 0 => 10 * Quotient(n, 10) <= n
      /\ n < 0 => Quotient(n, 10) <= 0
  <2> HIDE DEF n
  <2> QED
    BY <1>1, QuotientFacts
<1>6. Quotient(n, 10) <= usable
  <2> HIDE DEF n
  <2> QED
    BY <1>1, <1>4, <1>5
<1> QED
  BY <1>6

-------------------------------------------------------------------------------
(* The order of the jobs.                                                    *)
LEMMA NamesDiffer ==
  /\ \A a \in AllAlgorithms : NameRank(a) \in Int
  /\ \A a, b \in AllAlgorithms : NameRank(a) = NameRank(b) => a = b
<1> DEFINE names == <<"baseline", "baselinepp", "full", "les3", Precompute, "palloc",
                      "partition", "puffinn", "slim", "topkbaseline",
                      "transformation", "witheager", "withgrouping">>
<1>1. /\ DOMAIN names = 1 .. 13
      /\ names[1] = "baseline" /\ names[2] = "baselinepp" /\ names[3] = "full"
      /\ names[4] = "les3" /\ names[5] = Precompute /\ names[6] = "palloc"
      /\ names[7] = "partition" /\ names[8] = "puffinn" /\ names[9] = "slim"
      /\ names[10] = "topkbaseline" /\ names[11] = "transformation"
      /\ names[12] = "witheager" /\ names[13] = "withgrouping"
  OBVIOUS
<1>2. \A a : NameRank(a) = CHOOSE n \in DOMAIN names : names[n] = a
  BY DEF NameRank
<1> HIDE DEF names
<1>3. \A n \in 1 .. 13 : n \in DOMAIN names
  BY <1>1
<1>4. ASSUME NEW a \in AllAlgorithms
      PROVE  \E n \in DOMAIN names : names[n] = a
  BY <1>1, <1>3 DEF AllAlgorithms, QueryAlgorithms, PrefixAlgorithms
<1>5. \A a \in AllAlgorithms : NameRank(a) \in DOMAIN names /\ names[NameRank(a)] = a
  BY <1>2, <1>4
<1>6. DOMAIN names \subseteq Int
  BY <1>1
<1> QED
  BY <1>5, <1>6

LEMMA PrioritiesDiffer ==
  ASSUME JobsAssumption, InputsInv, PlanInv, NEW j \in jobs
  PROVE  /\ Stage(j) \in {"precompute", "standard", "scalability"}
         /\ Stage(j) = "precompute" <=> j.algorithm = Precompute
         /\ StagePriority(Stage(j)) \in Int
         /\ StagePriority(Stage(j)) = 0 <=> j.algorithm = Precompute
         /\ StagePriority(Stage(j)) = 1 <=> j.algorithm # Precompute /\ j.experiment = "standard"
         /\ StagePriority(Stage(j)) = 2 <=> j.experiment = "scalability"
<1>1. /\ j.experiment \in {"standard", "scalability"}
      /\ j.algorithm = Precompute => j.experiment = "standard"
  BY JobFacts DEF Kinds
<1>2. /\ j.algorithm = Precompute => Stage(j) = "precompute"
      /\ j.algorithm # Precompute => Stage(j) = j.experiment
  BY DEF Stage
<1>3. /\ StagePriority("precompute") = 0
      /\ StagePriority("standard") = 1
      /\ StagePriority("scalability") = 2
  BY DEF StagePriority
<1> QED
  BY <1>1, <1>2, <1>3

\* The parts of the key are numbers that tell jobs apart.
LEMMA KeyFacts ==
  ASSUME JobsAssumption, InputsInv, PlanInv
  PROVE  /\ \A j \in jobs : /\ DOMAIN SortKey(j) = 1 .. 6
                            /\ \A n \in 1 .. 6 : SortKey(j)[n] \in Int
                            /\ SortKey(j)[1] = StagePriority(Stage(j))
         /\ \A i, j \in jobs : (\A n \in 1 .. 6 : SortKey(i)[n] = SortKey(j)[n]) => i = j
<1>1. \A j \in jobs :
        /\ DOMAIN SortKey(j) = 1 .. 6
        /\ SortKey(j)[1] = StagePriority(Stage(j))
        /\ SortKey(j)[2] = EstimatedMemory(j.algorithm, j.dataset)
        /\ SortKey(j)[3] = NameRank(j.algorithm)
        /\ SortKey(j)[4] = j.dataset
        /\ SortKey(j)[5] = j.k
        /\ SortKey(j)[6] = j.concurrency
  BY DEF SortKey
<1>2. ASSUME NEW j \in jobs
      PROVE  \A n \in 1 .. 6 : SortKey(j)[n] \in Int
  <2>1. /\ j.algorithm \in AllAlgorithms /\ j.dataset \in request.datasets
        /\ j.k \in Int /\ j.concurrency \in Int
    BY JobFacts
  <2>2. /\ SortKey(j)[1] \in Int /\ SortKey(j)[2] \in Int /\ SortKey(j)[3] \in Int
        /\ SortKey(j)[4] \in Int /\ SortKey(j)[5] \in Int /\ SortKey(j)[6] \in Int
    BY <1>1, <2>1, PrioritiesDiffer, EstimateIsInt, NamesDiffer, InputFacts
  <2> QED
    BY <2>2
<1>3. ASSUME NEW i \in jobs, NEW j \in jobs,
             \A n \in 1 .. 6 : SortKey(i)[n] = SortKey(j)[n]
      PROVE  i = j
  <2>1. /\ SortKey(i)[1] = SortKey(j)[1] /\ SortKey(i)[3] = SortKey(j)[3]
        /\ SortKey(i)[4] = SortKey(j)[4] /\ SortKey(i)[5] = SortKey(j)[5]
        /\ SortKey(i)[6] = SortKey(j)[6]
    BY <1>3
  <2>2. /\ StagePriority(Stage(i)) = StagePriority(Stage(j))
        /\ NameRank(i.algorithm) = NameRank(j.algorithm)
        /\ i.dataset = j.dataset /\ i.k = j.k /\ i.concurrency = j.concurrency
    BY <1>1, <2>1
  <2>3. i.algorithm = j.algorithm
    BY <2>2, NamesDiffer, JobFacts
  <2>4. i.experiment = j.experiment
    <3>1. /\ i.experiment \in Kinds /\ j.experiment \in Kinds
          /\ i.algorithm = Precompute => i.experiment = "standard"
          /\ j.algorithm = Precompute => j.experiment = "standard"
      BY JobFacts
    <3>2. i.experiment = "scalability" <=> j.experiment = "scalability"
      BY <2>2, PrioritiesDiffer
    <3> QED
      BY <3>1, <3>2 DEF Kinds
  <2>5. /\ i = [algorithm |-> i.algorithm, experiment |-> i.experiment,
                dataset |-> i.dataset, k |-> i.k, concurrency |-> i.concurrency]
        /\ j = [algorithm |-> j.algorithm, experiment |-> j.experiment,
                dataset |-> j.dataset, k |-> j.k, concurrency |-> j.concurrency]
    BY JobFacts
  <2> QED
    BY <2>2, <2>3, <2>4, <2>5
<1> QED
  BY <1>1, <1>2, <1>3

\* Keys are compared part by part.
LEMMA KeyOrder ==
  ASSUME JobsAssumption, InputsInv, PlanInv, NEW i \in jobs, NEW j \in jobs,
         NEW s, s = SortKey(i), NEW t, t = SortKey(j)
  PROVE  SortsBefore(i, j) <=>
           \/ s[1] < t[1]
           \/ s[1] = t[1] /\ s[2] < t[2]
           \/ s[1] = t[1] /\ s[2] = t[2] /\ s[3] < t[3]
           \/ s[1] = t[1] /\ s[2] = t[2] /\ s[3] = t[3] /\ s[4] < t[4]
           \/ s[1] = t[1] /\ s[2] = t[2] /\ s[3] = t[3] /\ s[4] = t[4] /\ s[5] < t[5]
           \/ /\ s[1] = t[1] /\ s[2] = t[2] /\ s[3] = t[3] /\ s[4] = t[4] /\ s[5] = t[5]
              /\ s[6] < t[6]
<1>1. DOMAIN s = 1 .. 6
  BY KeyFacts
<1>2. SortsBefore(i, j) <=>
        \E n \in 1 .. 6 : s[n] < t[n] /\ \A m \in 1 .. (n - 1) : s[m] = t[m]
  BY <1>1 DEF SortsBefore
<1>3. ASSUME NEW n \in 1 .. 6, s[n] < t[n], \A m \in 1 .. (n - 1) : s[m] = t[m]
      PROVE  \/ s[1] < t[1]
             \/ s[1] = t[1] /\ s[2] < t[2]
             \/ s[1] = t[1] /\ s[2] = t[2] /\ s[3] < t[3]
             \/ s[1] = t[1] /\ s[2] = t[2] /\ s[3] = t[3] /\ s[4] < t[4]
             \/ s[1] = t[1] /\ s[2] = t[2] /\ s[3] = t[3] /\ s[4] = t[4] /\ s[5] < t[5]
             \/ /\ s[1] = t[1] /\ s[2] = t[2] /\ s[3] = t[3] /\ s[4] = t[4] /\ s[5] = t[5]
                /\ s[6] < t[6]
  <2>1. \A m \in 1 .. 5 : m < n => s[m] = t[m]
    BY <1>3
  <2>2. /\ 1 < n => s[1] = t[1]
        /\ 2 < n => s[2] = t[2]
        /\ 3 < n => s[3] = t[3]
        /\ 4 < n => s[4] = t[4]
        /\ 5 < n => s[5] = t[5]
    BY <2>1
  <2>3. n = 1 \/ n = 2 \/ n = 3 \/ n = 4 \/ n = 5 \/ n = 6
    OBVIOUS
  <2> QED
    BY <1>3, <2>2, <2>3
<1>4. ASSUME NEW n \in 1 .. 6, s[n] < t[n],
             /\ 1 < n => s[1] = t[1]
             /\ 2 < n => s[2] = t[2]
             /\ 3 < n => s[3] = t[3]
             /\ 4 < n => s[4] = t[4]
             /\ 5 < n => s[5] = t[5]
      PROVE  SortsBefore(i, j)
  <2>1. \A m \in 1 .. (n - 1) : m = 1 \/ m = 2 \/ m = 3 \/ m = 4 \/ m = 5
    OBVIOUS
  <2>2. \A m \in 1 .. (n - 1) : s[m] = t[m]
    BY <1>4, <2>1
  <2> QED
    BY <1>2, <1>4, <2>2
<1> QED
  BY <1>2, <1>3, <1>4

LEMMA OrderIsTotal ==
  ASSUME JobsAssumption, InputsInv, PlanInv
  PROVE  /\ \A j \in jobs : ~SortsBefore(j, j)
         /\ \A i, j \in jobs : i # j => SortsBefore(i, j) \/ SortsBefore(j, i)
         /\ \A h, i, j \in jobs : SortsBefore(h, i) /\ SortsBefore(i, j) => SortsBefore(h, j)
<1>1. ASSUME NEW j \in jobs
      PROVE  ~SortsBefore(j, j)
  <2>1. PICK s : s = SortKey(j)
    OBVIOUS
  <2>2. \A n \in 1 .. 6 : s[n] \in Int
    BY <2>1, KeyFacts
  <2> QED
    BY <2>1, <2>2, KeyOrder
<1>2. ASSUME NEW i \in jobs, NEW j \in jobs, i # j
      PROVE  SortsBefore(i, j) \/ SortsBefore(j, i)
  <2>1. PICK s : s = SortKey(i)
    OBVIOUS
  <2>2. PICK t : t = SortKey(j)
    OBVIOUS
  <2>3. /\ s[1] \in Int /\ s[2] \in Int /\ s[3] \in Int
        /\ s[4] \in Int /\ s[5] \in Int /\ s[6] \in Int
        /\ t[1] \in Int /\ t[2] \in Int /\ t[3] \in Int
        /\ t[4] \in Int /\ t[5] \in Int /\ t[6] \in Int
    BY <2>1, <2>2, KeyFacts
  <2>4. ~ (/\ s[1] = t[1] /\ s[2] = t[2] /\ s[3] = t[3]
           /\ s[4] = t[4] /\ s[5] = t[5] /\ s[6] = t[6])
    <3>1. SUFFICES ASSUME /\ s[1] = t[1] /\ s[2] = t[2] /\ s[3] = t[3]
                          /\ s[4] = t[4] /\ s[5] = t[5] /\ s[6] = t[6]
                   PROVE  FALSE
      OBVIOUS
    <3>2. \A n \in 1 .. 6 : n = 1 \/ n = 2 \/ n = 3 \/ n = 4 \/ n = 5 \/ n = 6
      OBVIOUS
    <3>3. \A n \in 1 .. 6 : SortKey(i)[n] = SortKey(j)[n]
      BY <2>1, <2>2, <3>1, <3>2
    <3> QED
      BY <1>2, <3>3, KeyFacts
  <2> QED
    BY <2>1, <2>2, <2>3, <2>4, KeyOrder
<1>3. ASSUME NEW h \in jobs, NEW i \in jobs, NEW j \in jobs,
             SortsBefore(h, i), SortsBefore(i, j)
      PROVE  SortsBefore(h, j)
  <2>1. PICK r : r = SortKey(h)
    OBVIOUS
  <2>2. PICK s : s = SortKey(i)
    OBVIOUS
  <2>3. PICK t : t = SortKey(j)
    OBVIOUS
  <2>4. /\ r[1] \in Int /\ r[2] \in Int /\ r[3] \in Int
        /\ r[4] \in Int /\ r[5] \in Int /\ r[6] \in Int
        /\ s[1] \in Int /\ s[2] \in Int /\ s[3] \in Int
        /\ s[4] \in Int /\ s[5] \in Int /\ s[6] \in Int
        /\ t[1] \in Int /\ t[2] \in Int /\ t[3] \in Int
        /\ t[4] \in Int /\ t[5] \in Int /\ t[6] \in Int
    BY <2>1, <2>2, <2>3, KeyFacts
  <2> QED
    BY <1>3, <2>1, <2>2, <2>3, <2>4, KeyOrder
<1> QED
  BY <1>1, <1>2, <1>3

\* A job's place in the order grows with its key.
LEMMA PlacesFollowKeys ==
  ASSUME JobsAssumption, InputsInv, PlanInv,
         NEW i \in jobs, NEW j \in jobs, SortsBefore(i, j)
  PROVE  /\ Document(i).sequence \in Nat /\ Document(j).sequence \in Nat
         /\ Document(i).sequence < Document(j).sequence
<1> DEFINE I == {h \in jobs : SortsBefore(h, i)}
           J == {h \in jobs : SortsBefore(h, j)}
<1>1. I \subseteq J /\ i \in J /\ i \notin I
  BY OrderIsTotal
<1>2. IsFiniteSet(J)
  <2>1. IsFiniteSet(jobs) /\ J \in SUBSET jobs
    BY DEF PlanInv
  <2> HIDE DEF J
  <2> QED
    BY <2>1, FS_Subset
<1>3. Document(i).sequence = 1 + Cardinality(I) /\ Document(j).sequence = 1 + Cardinality(J)
  BY DEF Document
<1> HIDE DEF I, J
<1>4. IsFiniteSet(I) /\ Cardinality(I) <= Cardinality(J) /\ Cardinality(I) # Cardinality(J)
  BY <1>1, <1>2, FS_Subset
<1>5. Cardinality(I) \in Nat /\ Cardinality(J) \in Nat
  BY <1>2, <1>4, FS_CardinalityType
<1> QED
  BY <1>3, <1>4, <1>5

-------------------------------------------------------------------------------
(* What is stored.                                                           *)
LEMMA CreatedFacts ==
  ASSUME IInv, pc = "created"
  PROVE  /\ InputsInv /\ PlanInv
         /\ selected = {}
         /\ \A j \in jobs : documents[j] = Document(j)
         /\ Asked \ selected = Asked
BY DEF IInv, CreatedInv

LEMMA DocumentFields ==
  ASSUME NEW j
  PROVE  /\ Document(j).tokens = TokensFor(j.concurrency)
         /\ Document(j).ready = StartsReady(j)
<1>1. PICK ready : ready = StartsReady(j)
  OBVIOUS
<1>2. Document(j) = [sequence |-> 1 + Cardinality({i \in jobs : SortsBefore(i, j)}),
                     ready    |-> ready,
                     tokens   |-> TokensFor(j.concurrency),
                     memory   |-> EstimatedMemory(j.algorithm, j.dataset)]
  BY <1>1 DEF Document
<1> QED
  BY <1>1, <1>2

\* The documents of a run are what the scheduler takes for granted
\* (build_scheduler_jobs, create_run): every place in the order is given once.
THEOREM SchedulerIsSuited == Spec => []DocumentsSuitScheduler
<1>1. ASSUME JobsAssumption, IInv, pc = "created"
      PROVE  /\ \A j \in jobs : documents[j].tokens \in 1 .. CpuCores
             /\ \A i, j \in jobs : documents[i].sequence = documents[j].sequence => i = j
             /\ \A i, j \in jobs : /\ i.algorithm = Precompute /\ j.algorithm = Precompute
                                   /\ i.dataset = j.dataset
                                   => i = j
  <2> USE <1>1
  <2>1. InputsInv /\ PlanInv /\ \A j \in jobs : documents[j] = Document(j)
    BY CreatedFacts
  <2>2. ASSUME NEW j \in jobs
        PROVE  documents[j].tokens \in 1 .. CpuCores
    <3>1. PICK c : c = j.concurrency
      OBVIOUS
    <3>2. PICK m : m = CpuCores
      OBVIOUS
    <3>3. c \in Nat \ {0} /\ m \in Nat \ {0}
      BY <2>1, <3>1, <3>2, JobFacts DEF JobsAssumption
    <3>4. Min({c, m}) \in {c, m} /\ Min({c, m}) <= m
      <4>1. c \in Int /\ m \in Int
        BY <3>3
      <4> QED
        BY <4>1, MinOfTwo
    <3>5. documents[j].tokens = TokensFor(j.concurrency)
      BY <2>1, DocumentFields
    <3>6. documents[j].tokens = Min({c, m})
      BY <3>1, <3>2, <3>5 DEF TokensFor
    <3> QED
      BY <3>2, <3>3, <3>4, <3>6
  <2>3. ASSUME NEW i \in jobs, NEW j \in jobs,
               documents[i].sequence = documents[j].sequence
        PROVE  i = j
    <3>1. Document(i).sequence = Document(j).sequence
      BY <2>1, <2>3
    <3>2. SUFFICES ASSUME i # j PROVE FALSE
      OBVIOUS
    <3>3. SortsBefore(i, j) \/ SortsBefore(j, i)
      BY <2>1, <3>2, OrderIsTotal
    <3>4. \/ Document(i).sequence \in Nat /\ Document(i).sequence < Document(j).sequence
          \/ Document(i).sequence \in Nat /\ Document(j).sequence < Document(i).sequence
      BY <2>1, <3>3, PlacesFollowKeys
    <3> QED
      BY <3>1, <3>4
  <2>4. ASSUME NEW i \in jobs, NEW j \in jobs,
               i.algorithm = Precompute, j.algorithm = Precompute, i.dataset = j.dataset
        PROVE  i = j
    <3>1. /\ i = [algorithm |-> i.algorithm, experiment |-> i.experiment,
                  dataset |-> i.dataset, k |-> i.k, concurrency |-> i.concurrency]
          /\ j = [algorithm |-> j.algorithm, experiment |-> j.experiment,
                  dataset |-> j.dataset, k |-> j.k, concurrency |-> j.concurrency]
          /\ i.experiment = j.experiment /\ i.k = j.k /\ i.concurrency = j.concurrency
      BY <2>1, <2>4, JobFacts
    <3> QED
      BY <2>4, <3>1
  <2> QED
    BY <2>2, <2>3, <2>4
<1>2. IInv => DocumentsSuitScheduler
  BY <1>1, JobsAssumption DEF DocumentsSuitScheduler
<1> QED
  BY <1>2, Invariance, PTL

\* A job starts blocked exactly when the scheduler would not make it ready, and its
\* precompute is ready and comes first, so that no order of claims can deadlock on it.
THEOREM BlockedJobsWillStart == Spec => []BlockedJobsCanStart
<1>1. ASSUME JobsAssumption, IInv, pc = "created", NEW j \in jobs,
             NEW awaited, awaited = {i \in jobs : /\ i.algorithm = Precompute
                                                  /\ i.dataset = j.dataset}
      PROVE  /\ documents[j].ready <=> ~(j.algorithm = "les3" /\ awaited # {})
             /\ ~documents[j].ready =>
                  \E i \in awaited : /\ documents[i].ready
                                     /\ documents[i].sequence < documents[j].sequence
  <2> USE <1>1
  <2>1. InputsInv /\ PlanInv /\ \A i \in jobs : documents[i] = Document(i)
    BY CreatedFacts
  <2>2. \A i \in jobs : Stage(i) = "precompute" <=> i.algorithm = Precompute
    BY <2>1, PrioritiesDiffer
  <2>3. j.dataset \in PrecomputeDatasets <=> awaited # {}
    BY <2>2 DEF PrecomputeDatasets
  <2>4. Precompute # "les3"
    BY DEF Precompute
  <2>5. ASSUME NEW i \in jobs
        PROVE  documents[i].ready <=> StartsReady(i)
    <3>1. documents[i].ready = StartsReady(i)
      BY <2>1, DocumentFields
    <3> QED
      BY <3>1
  <2>6. StartsReady(j) <=> ~(j.algorithm = "les3" /\ awaited # {})
    BY <2>2, <2>3, <2>4 DEF StartsReady
  <2>7. ASSUME NEW i \in awaited, j.algorithm = "les3"
        PROVE  StartsReady(i) /\ documents[i].sequence < documents[j].sequence
    <3>1. i \in jobs /\ i.algorithm = Precompute
      OBVIOUS
    <3>2. StartsReady(i)
      BY <2>2, <3>1 DEF StartsReady
    <3>3. PICK p : p = StagePriority(Stage(i))
      OBVIOUS
    <3>4. PICK q : q = StagePriority(Stage(j))
      OBVIOUS
    <3>5. p = 0 /\ q \in {1, 2}
      BY <2>1, <2>4, <2>7, <3>1, <3>3, <3>4, PrioritiesDiffer, JobFacts DEF Kinds
    <3>6. SortKey(i)[1] = p /\ SortKey(j)[1] = q
      BY <2>1, <3>1, <3>3, <3>4, KeyFacts
    <3>7. SortsBefore(i, j)
      BY <2>1, <3>1, <3>5, <3>6, KeyOrder
    <3> QED
      BY <2>1, <3>1, <3>2, <3>7, PlacesFollowKeys
  <2> QED
    BY <2>5, <2>6, <2>7
<1>2. IInv => BlockedJobsCanStart
  BY <1>1, JobsAssumption DEF BlockedJobsCanStart
<1> QED
  BY <1>2, Invariance, PTL

\* Nothing asked for is dropped in silence (generate_jobs).
THEOREM EverythingIsPlanned == Spec => []NothingIsDropped
<1>1. ASSUME JobsAssumption, IInv, pc = "created",
             NEW a \in Asked, NEW e \in Experiments, NEW d \in request.datasets
      PROVE  \/ \E j \in jobs : j.algorithm = a /\ j.experiment = e /\ j.dataset = d
             \/ [algorithm |-> a, experiment |-> e] \in warnings
  <2> USE <1>1
  <2>1. InputsInv /\ PlanInv /\ Asked \ selected = Asked
    BY CreatedFacts
  <2>2. JobsOf(a) \subseteq jobs
    BY <2>1 DEF PlanInv
  <2>3. e = "standard" \/ e = "scalability"
    BY <2>1 DEF PlanInv, Kinds
  <2>4. ASSUME NEW ks, ks # {}, NEW cs, cs # {}, JobsFor(a, e, ks, cs) \subseteq jobs
        PROVE  \E j \in jobs : j.algorithm = a /\ j.experiment = e /\ j.dataset = d
    <3>1. PICK k \in ks : TRUE
      BY <2>4
    <3>2. PICK c \in cs : TRUE
      BY <2>4
    <3>3. [algorithm |-> a, experiment |-> e, dataset |-> d, k |-> k, concurrency |-> c]
            \in JobsFor(a, e, ks, cs)
      BY DEF JobsFor
    <3> QED
      BY <2>4, <3>3
  <2>5. KValues # {} /\ ScalConcurrencies # {}
    BY DEF JobsAssumption
  <2>6. CASE e = "standard"
    <3>1. StandardJobs(a) \subseteq jobs
      BY <2>2, <2>6 DEF JobsOf
    <3>2. \/ JobsFor(a, e, {NoK}, {PhysicalCores}) \subseteq jobs
          \/ JobsFor(a, e, KValues, {1}) \subseteq jobs
      BY <2>6, <3>1 DEF StandardJobs
    <3> QED
      BY <2>4, <2>5, <3>2
  <2>7. CASE e = "scalability" /\ SupportsScalability(a)
    <3>1. JobsFor(a, e, {ScalK}, ScalConcurrencies) \subseteq jobs
      BY <2>2, <2>7 DEF JobsOf, ScalabilityJobs
    <3> QED
      BY <2>4, <2>5, <3>1
  <2>8. CASE e = "scalability" /\ ~SupportsScalability(a)
    BY <2>1, <2>8 DEF PlanInv, Warned
  <2> QED
    BY <2>3, <2>6, <2>7, <2>8
<1>2. IInv => NothingIsDropped
  BY <1>1, JobsAssumption DEF NothingIsDropped, Asked
<1> QED
  BY <1>2, Invariance, PTL

\* The job of puffinn fits an idle worker, whatever the data set's tokens ask for
\* (puffinn_index_memory_bytes, puffinn_scheduler_memory_bytes).
THEOREM PuffinnIsScheduled == Spec => []PuffinnFits
<1>1. ASSUME JobsAssumption, IInv, pc = "created", NEW j \in jobs,
             j.algorithm = "puffinn", files[j.dataset].size < 10 * MemoryReserve(host)
      PROVE  documents[j].memory <= UsableMemory(host)
  <2> USE <1>1
  <2>1. InputsInv /\ PlanInv /\ documents[j] = Document(j)
    BY CreatedFacts
  <2>2. PICK d \in request.datasets : d = j.dataset
    BY <2>1, JobFacts
  <2>3. PICK size : size = files[d].size
    OBVIOUS
  <2>4. PICK index : index = PuffinnIndexMemory(d)
    OBVIOUS
  <2>5. PICK usable : usable = UsableMemory(host)
    OBVIOUS
  <2>6. PICK reserve : reserve = MemoryReserve(host)
    OBVIOUS
  <2>7. /\ usable \in Nat /\ reserve \in Nat /\ size \in Nat /\ index \in Int
        /\ MaximumMemoryReservation = usable - reserve
        /\ size < 10 * reserve
    BY <2>1, <2>2, <2>3, <2>4, <2>5, <2>6, MemoryFacts, InputFacts, PuffinnIndex
  <2>8. index <= Quotient(10 * (usable - reserve - size), 11)
    BY <2>1, <2>3, <2>4, <2>7, PuffinnIndex
  <2>9. Quotient(11 * (index + size), 10) <= usable
    BY <2>7, <2>8, ReservationFits
  <2>10. documents[j].memory = Quotient(11 * (index + size), 10)
    BY <2>1, <2>2, <2>3, <2>4 DEF Document, EstimatedMemory
  <2> QED
    BY <2>5, <2>9, <2>10
<1>2. IInv => PuffinnFits
  BY <1>1, JobsAssumption DEF PuffinnFits
<1> QED
  BY <1>2, Invariance, PTL

-------------------------------------------------------------------------------
(* What the jobs execute.                                                    *)

\* No command is refused, and no option it gives is ignored or changed (query_command,
\* process_program_options).
THEOREM CommandsAreTaken == Spec => []CommandsAreAccepted
<1>1. ASSUME JobsAssumption, IInv, pc = "created", NEW j \in jobs, j.algorithm # Precompute
      PROVE  IsAccepted(Command(j)) /\ IsTakenAsGiven(Command(j))
  <2> USE <1>1
  <2>1. InputsInv /\ PlanInv
    BY CreatedFacts
  <2>2. PICK c : c = Command(j)
    OBVIOUS
  <2>3. PICK a \in QueryAlgorithms : a = j.algorithm
    BY <2>1, JobFacts DEF AllAlgorithms
  <2>4. a = "puffinn" => j.concurrency = 1
    BY <2>1, <2>3, JobFacts DEF SupportsScalability, Kinds
  <2>5. /\ c.algorithm = Executable(a)
        /\ c.concurrency = j.concurrency
        /\ c.grouping = GroupingOption(a)
        /\ c.minBatch = IF a = "baselinepp" THEN 4 ELSE 1
        /\ c.maxBatch = IF a = "baselinepp" THEN 32 ELSE 1
        /\ c.budgeted <=> a = "puffinn"
        /\ c.groupFile <=> a = "les3"
    BY <2>2, <2>3 DEF Command
  <2>6. /\ Executable(a) = "les3" <=> a = "les3"
        /\ Executable(a) = "puffinn" <=> a = "puffinn"
        /\ Executable(a) = "topkbaseline" <=> a = "topkbaseline"
        /\ Executable(a) = "baselinepp" <=> a = "baselinepp"
    BY DEF Executable, QueryAlgorithms, PrefixAlgorithms
  <2>7. IsAccepted(c)
    BY <2>4, <2>5, <2>6 DEF IsAccepted
  <2>8. IsTakenAsGiven(c)
    BY <2>5, <2>6 DEF IsTakenAsGiven, GroupingOption
  <2> QED
    BY <2>2, <2>7, <2>8
<1>2. IInv => CommandsAreAccepted
  BY <1>1, JobsAssumption DEF CommandsAreAccepted
<1> QED
  BY <1>2, Invariance, PTL

LEMMA JoinOfAlgorithm ==
  ASSUME NEW j, NEW a \in QueryAlgorithms, a = j.algorithm,
         NEW r, r = JoinOf(Command(j))
  PROVE  /\ a \in {"full", "slim", "topkbaseline", "witheager", "withgrouping"} =>
              /\ r.join = "KNNJoin"
              /\ r.mode = PositionalMode[Executable(a)]
              /\ r.grouping = GroupingOption(a)
         /\ a \in {"partition", "palloc"} =>
              /\ r.join = "PartJoin"
              /\ r.deletion <=> a = "palloc"
         /\ a \in {"baseline", "baselinepp", "transformation", "les3", "puffinn"} => r.join = a
<1>1. PICK c : c = Command(j)
  OBVIOUS
<1>2. c.algorithm = Executable(a) /\ c.grouping = GroupingOption(a)
  BY <1>1 DEF Command
<1>3. r = JoinOf(c)
  BY <1>1
<1>4. DOMAIN PositionalMode = {"full", "slim", "topkbaseline"}
  BY DEF PositionalMode
<1>5. CASE a \in {"full", "slim", "topkbaseline", "witheager", "withgrouping"}
  <2>1. c.algorithm \in {"full", "slim", "topkbaseline"}
    BY <1>2, <1>5 DEF Executable
  <2>2. r = [join |-> "KNNJoin", mode |-> PositionalMode[c.algorithm], grouping |-> c.grouping]
    BY <1>3, <1>4, <2>1 DEF JoinOf
  <2> QED
    BY <1>2, <1>5, <2>2
<1>6. CASE a \in {"partition", "palloc"}
  <2>1. c.algorithm = a
    BY <1>2, <1>6 DEF Executable
  <2>2. r = [join |-> "PartJoin", deletion |-> Deletion(c)]
    BY <1>3, <1>4, <1>6, <2>1 DEF JoinOf
  <2>3. r.join = "PartJoin" /\ r.deletion = Deletion(c)
    BY <2>2
  <2>4. Deletion(c) <=> a = "palloc"
    BY <2>1 DEF Deletion
  <2> QED
    BY <1>6, <2>3, <2>4
<1>7. CASE a \in {"baseline", "baselinepp", "transformation", "les3", "puffinn"}
  <2>1. c.algorithm = a
    BY <1>2, <1>7 DEF Executable
  <2>2. r = [join |-> a]
    BY <1>3, <1>4, <1>7, <2>1 DEF JoinOf
  <2> QED
    BY <1>7, <2>2
<1> QED
  BY <1>5, <1>6, <1>7 DEF QueryAlgorithms, PrefixAlgorithms

\* No two names of a benchmark come down to one join with one grouping (main,
\* execute_partition).
THEOREM JoinsDiffer == Spec => []AlgorithmsDiffer
<1>1. ASSUME JobsAssumption, IInv, pc = "created",
             NEW i \in jobs, NEW j \in jobs,
             i.algorithm # Precompute, j.algorithm # Precompute,
             JoinOf(Command(i)) = JoinOf(Command(j))
      PROVE  i.algorithm = j.algorithm
  <2> USE <1>1
  <2>1. InputsInv /\ PlanInv
    BY CreatedFacts
  <2>2. PICK a \in QueryAlgorithms : a = i.algorithm
    BY <2>1, JobFacts DEF AllAlgorithms
  <2>3. PICK b \in QueryAlgorithms : b = j.algorithm
    BY <2>1, JobFacts DEF AllAlgorithms
  <2>4. PICK r : r = JoinOf(Command(i)) /\ r = JoinOf(Command(j))
    OBVIOUS
  <2> DEFINE Positional == {"full", "slim", "topkbaseline", "witheager", "withgrouping"}
             Partitions == {"partition", "palloc"}
             Others == {"baseline", "baselinepp", "transformation", "les3", "puffinn"}
  <2>5. /\ a \in Positional => /\ r.join = "KNNJoin"
                               /\ r.mode = PositionalMode[Executable(a)]
                               /\ r.grouping = GroupingOption(a)
        /\ a \in Partitions => r.join = "PartJoin" /\ (r.deletion <=> a = "palloc")
        /\ a \in Others => r.join = a
    BY <2>2, <2>4, JoinOfAlgorithm
  <2>6. /\ b \in Positional => /\ r.join = "KNNJoin"
                               /\ r.mode = PositionalMode[Executable(b)]
                               /\ r.grouping = GroupingOption(b)
        /\ b \in Partitions => r.join = "PartJoin" /\ (r.deletion <=> b = "palloc")
        /\ b \in Others => r.join = b
    BY <2>3, <2>4, JoinOfAlgorithm
  <2>7. /\ a \in Positional \cup Partitions \cup Others
        /\ b \in Positional \cup Partitions \cup Others
    BY <2>2, <2>3 DEF QueryAlgorithms, PrefixAlgorithms
  <2>8. CASE r.join = "KNNJoin"
    <3>1. a \in Positional /\ b \in Positional
      BY <2>5, <2>6, <2>7, <2>8
    <3>2. /\ PositionalMode["full"] = "FULL"
          /\ PositionalMode["slim"] = "FILTER"
          /\ PositionalMode["topkbaseline"] = "TOPK_BASELINE"
      BY DEF PositionalMode
    <3>3. \A x \in Positional :
            /\ PositionalMode[Executable(x)] = "FULL" <=> x \in {"full", "withgrouping"}
            /\ PositionalMode[Executable(x)] = "FILTER" <=> x \in {"slim", "witheager"}
            /\ GroupingOption(x) = "wsqrt" <=> x \in {"slim", "withgrouping"}
      BY <3>2 DEF Executable, GroupingOption
    <3>4. /\ a \in {"full", "withgrouping"} <=> b \in {"full", "withgrouping"}
          /\ a \in {"slim", "witheager"} <=> b \in {"slim", "witheager"}
          /\ a \in {"slim", "withgrouping"} <=> b \in {"slim", "withgrouping"}
      BY <2>5, <2>6, <3>1, <3>3
    <3> QED
      BY <2>2, <2>3, <3>1, <3>4
  <2>9. CASE r.join = "PartJoin"
    <3>1. a \in Partitions /\ b \in Partitions
      BY <2>5, <2>6, <2>7, <2>9
    <3> QED
      BY <2>2, <2>3, <2>5, <2>6, <3>1
  <2>10. CASE r.join \notin {"KNNJoin", "PartJoin"}
    <3>1. a \in Others /\ b \in Others
      BY <2>5, <2>6, <2>7, <2>10
    <3> QED
      BY <2>2, <2>3, <2>5, <2>6, <3>1
  <2> QED
    BY <2>8, <2>9, <2>10
<1>2. IInv => AlgorithmsDiffer
  BY <1>1, JobsAssumption DEF AlgorithmsDiffer
<1> QED
  BY <1>2, Invariance, PTL
===============================================================================
