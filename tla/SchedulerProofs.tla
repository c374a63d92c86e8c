---------------------------- MODULE SchedulerProofs ----------------------------
(***************************************************************************)
(* Proofs about Scheduler, for every set of jobs, workers and faults.       *)
(***************************************************************************)
EXTENDS Scheduler, FiniteSetTheorems, WellFoundedInduction, TLAPS

-------------------------------------------------------------------------------
(* Types. *)

LEMMA InitType == SchedulerAssumption /\ Init => TypeOK
BY DEF SchedulerAssumption, Init, TypeOK, Resources, NoResource, Terminal,
       JobDocuments, DependsOn

LEMMA TakenType ==
  ASSUME TypeOK, NEW j \in Jobs, NEW w \in Workers
  PROVE  [jobs EXCEPT ![j].state = "running", ![j].owner = w,
                      ![j].lapsed = FALSE, ![j].attempts = @ + 1]
           \in [Jobs -> JobDocuments]
<1> DEFINE leased == [jobs[j] EXCEPT !.state = "running", !.owner = w, !.lapsed = FALSE]
           n == jobs[j].attempts + 1
           taken == [leased EXCEPT !.attempts = n]
<1>1. jobs \in [Jobs -> JobDocuments]
  BY DEF TypeOK
<1>2. leased \in JobDocuments
  BY <1>1 DEF JobDocuments
<1>n. n \in Nat
  BY <1>1 DEF JobDocuments
<1>3. taken \in JobDocuments
  <2> HIDE DEF leased, n
  <2> QED
    BY <1>2, <1>n DEF JobDocuments
<1>4. [jobs EXCEPT ![j].state = "running", ![j].owner = w,
                   ![j].lapsed = FALSE, ![j].attempts = @ + 1]
        = [jobs EXCEPT ![j] = taken]
  BY <1>1 DEF JobDocuments
<1> HIDE DEF taken
<1> QED
  BY <1>1, <1>3, <1>4

LEMMA WorkType ==
  ASSUME SchedulerAssumption, TypeOK, NEW w \in Workers, Work(w)
  PROVE  TypeOK'
<1> USE DEF SchedulerAssumption, TypeOK, Resources, Terminal, coordinator,
            database, JobDocuments, Claims, Threads, Children, Copies
<1>1. CASE Poll(w)
  BY <1>1 DEF Poll, Snapshot, NextPlace, Rest
<1>2. CASE AskRun(w)
  BY <1>2 DEF AskRun
<1>3. CASE Take(w)
  <2>1. PICK j \in Jobs :
          /\ jobs' = [jobs EXCEPT ![j].state = "running", ![j].owner = w,
                                  ![j].lapsed = FALSE, ![j].attempts = @ + 1]
          /\ held' = [held EXCEPT ![w] = {[job |-> j,
                                           attempt |-> jobs[j].attempts + 1]}]
    BY <1>3 DEF Take
  <2>2. jobs' \in [Jobs -> JobDocuments]
    BY <2>1, TakenType
  <2>3. held' \in [Workers -> SUBSET Claims]
    BY <2>1
  <2>4. /\ wpc' = [wpc EXCEPT ![w] = "launch"]
        /\ UNCHANGED <<run, records, seen, free, used, threads, children, coordinator>>
    BY <1>3 DEF Take
  <2> QED
    BY <2>2, <2>3, <2>4
<1>4. CASE TakeNothing(w)
  BY <1>4 DEF TakeNothing
<1>5. CASE Launch(w)
  BY <1>5 DEF Launch, Snapshot, NextPlace, Rest
<1>6. CASE Check(w)
  BY <1>6 DEF Check
<1>7. CASE Leave(w)
  BY <1>7 DEF Leave
<1>8. QED
  BY <1>1, <1>2, <1>3, <1>4, <1>5, <1>6, <1>7 DEF Work

LEMMA MovedType ==
  ASSUME TypeOK, NEW j \in Jobs, NEW s \in Terminal \cup {"pending"}
  PROVE  Moved(j, s) \in [Jobs -> JobDocuments]
<1> DEFINE moved == [jobs[j] EXCEPT !.state = s, !.owner = NoWorker,
                                    !.lapsed = FALSE]
<1>1. jobs \in [Jobs -> JobDocuments]
  BY DEF TypeOK
<1>2. moved \in JobDocuments
  BY <1>1 DEF JobDocuments
<1>3. Moved(j, s) = [jobs EXCEPT ![j] = moved]
  BY <1>1 DEF Moved, JobDocuments
<1>4. QED
  BY <1>1, <1>2, <1>3

LEMMA FieldTypes ==
  ASSUME TypeOK, NEW j \in Jobs
  PROVE  /\ \A b \in BOOLEAN :
              [jobs EXCEPT ![j].lapsed = b] \in [Jobs -> JobDocuments]
         /\ \A s \in Terminal :
              [jobs EXCEPT ![j].state = s] \in [Jobs -> JobDocuments]
         /\ [jobs[j] EXCEPT !.ready = TRUE] \in JobDocuments
<1>1. jobs \in [Jobs -> JobDocuments]
  BY DEF TypeOK
<1>2. QED
  BY <1>1 DEF JobDocuments

LEMMA ReportedType ==
  ASSUME TypeOK, NEW j \in Jobs, NEW w, NEW s \in {"success", "failed"}
  PROVE  Reported(j, w, s) \in [Jobs -> JobDocuments]
<1>1. Moved(j, s) \in [Jobs -> JobDocuments]
  BY MovedType DEF Terminal
<1>2. QED
  BY <1>1 DEF Reported, TypeOK

LEMMA ThreadMoves ==
  ASSUME TypeOK, NEW th \in threads,
         NEW place \in {"recover", "rewrite", "release"}, GoesTo(th, place)
  PROVE  threads' \subseteq Threads
BY DEF TypeOK, GoesTo, Threads

LEMMA ThreadType ==
  ASSUME SchedulerAssumption, TypeOK, NEW th \in threads, ThreadStep(th)
  PROVE  TypeOK'
<1> USE DEF TypeOK, coordinator, database
<1>0. th.job \in Jobs /\ th.worker \in Workers
  BY DEF Threads
<1>1. CASE Report(th)
  BY <1>0, <1>1, ReportedType, ThreadMoves DEF Report
<1>2. CASE ReportRaises(th)
  BY <1>0, <1>2, ReportedType, ThreadMoves DEF ReportRaises
<1>3. CASE Recover(th)
  BY <1>0, <1>3, ReportedType, ThreadMoves DEF Recover
<1>4. CASE Rewrite(th)
  BY <1>0, <1>4, ThreadMoves DEF Rewrite, Terminal
<1>5. CASE Release(th)
  BY <1>0, <1>5 DEF Release, Rest, Resources, SchedulerAssumption
<1>6. CASE RecoverRaises(th)
  BY <1>0, <1>6, ReportedType, ThreadMoves DEF RecoverRaises
<1>7. QED
  BY <1>1, <1>2, <1>3, <1>4, <1>5, <1>6 DEF ThreadStep

LEMMA LeaseType ==
  ASSUME SchedulerAssumption, TypeOK,
         \/ \E th \in threads : RenewLease(th)
         \/ \E j \in Jobs : LeaseLapses(j)
  PROVE  TypeOK'
<1> USE DEF TypeOK, coordinator, workerVars
<1>1. ASSUME NEW th \in threads, RenewLease(th)
      PROVE  TypeOK'
  <2>1. th.job \in Jobs
    BY DEF Threads
  <2>2. QED
    BY <1>1, <2>1, FieldTypes DEF RenewLease
<1>2. ASSUME NEW j \in Jobs, LeaseLapses(j)
      PROVE  TypeOK'
  BY <1>2, FieldTypes DEF LeaseLapses
<1>3. QED
  BY <1>1, <1>2

LEMMA ChildType ==
  ASSUME SchedulerAssumption, TypeOK, NEW c \in children, ChildStep(c)
  PROVE  TypeOK'
<1> USE DEF TypeOK, Terminal, coordinator, database, workerVars
<1>1. CASE ChildRecords(c)
  BY <1>1 DEF ChildRecords, Children
<1>2. ASSUME NEW outcome \in {"success", "failed", "recover"}, Exits(c, outcome)
      PROVE  TypeOK'
  <2>1. \A th \in Waiting(c) : [th EXCEPT !.at = outcome] \in Threads
    BY DEF Waiting, Threads
  <2>2. threads' \subseteq Threads
    BY <1>2, <2>1 DEF Exits
  <2>3. QED
    BY <1>2, <2>2 DEF Exits
<1>3. ChildExits(c) \/ ChildDies(c) \/ StartFails(c)
        => \E outcome \in {"success", "failed", "recover"} : Exits(c, outcome)
  BY DEF ChildExits, ChildDies, StartFails, Children
<1>4. QED
  BY <1>1, <1>2, <1>3 DEF ChildStep

LEMMA CoordinateType ==
  ASSUME SchedulerAssumption, TypeOK, Coordinate
  PROVE  TypeOK'
<1> USE DEF TypeOK, workerVars, database
<1>0. \A j \in Jobs : Doc(j) \in Copies
  BY DEF Doc, Copies, JobDocuments
<1>1. CASE FindExpired
  BY <1>0, <1>1 DEF FindExpired, JobsIn
<1>2. ASSUME NEW d \in agenda, ExpireLease(d)
      PROVE  TypeOK'
  <2>1. d.job \in Jobs
    BY DEF Copies
  <2>2. /\ Moved(d.job, "failed") \in [Jobs -> JobDocuments]
        /\ Moved(d.job, "pending") \in [Jobs -> JobDocuments]
    BY <2>1, MovedType DEF Terminal
  <2>3. Debt(d, "failed") \in Debts
    BY <2>1 DEF Debt, Debts
  <2>4. jobs' \in [Jobs -> JobDocuments] /\ owed' \subseteq Debts
    BY <1>2, <2>2, <2>3 DEF ExpireLease
  <2>5. QED
    BY <1>2, <2>4 DEF ExpireLease, Handled
<1>3. ASSUME NEW d \in agenda, MarkSkipped(d) \/ MarkMemoryUnfit(d)
      PROVE  TypeOK'
  <2>1. d.job \in Jobs
    BY DEF Copies
  <2>2. ASSUME NEW passes, NEW s \in {"failed", "skipped"}, GivesUp(d, passes, s)
        PROVE  TypeOK'
    <3>1. [jobs EXCEPT ![d.job].state = s] \in [Jobs -> JobDocuments]
      BY <2>1, FieldTypes DEF Terminal
    <3>2. Debt(d, s) \in Debts
      BY <2>1 DEF Debt, Debts
    <3>3. jobs' \in [Jobs -> JobDocuments] /\ owed' \subseteq Debts
      BY <2>2, <3>1, <3>2 DEF GivesUp
    <3>4. QED
      BY <2>2, <3>3 DEF GivesUp, Handled
  <2>3. QED
    BY <1>3, <2>2 DEF MarkSkipped, MarkMemoryUnfit
<1>4. ASSUME NEW o \in owed, WriteFailure(o)
      PROVE  TypeOK'
  BY <1>4 DEF WriteFailure, Debts, Terminal
<1>5. CASE FindSkips("expire", "skip1") \/ FindSkips("unfit", "skip2")
  BY <1>0, <1>5 DEF FindSkips, JobsIn
<1>6. CASE CheckWorkers
  BY <1>6 DEF CheckWorkers
<1>7. CASE FindUnfit
  BY <1>0, <1>7 DEF FindUnfit, JobsIn
<1>8. CASE RefreshReady
  BY <1>8, FieldTypes DEF RefreshReady
<1>9. CASE CompleteRun
  BY <1>9 DEF CompleteRun
<1>10. QED
  BY <1>1, <1>2, <1>3, <1>4, <1>5, <1>6, <1>7, <1>8, <1>9 DEF Coordinate

LEMMA FaultType ==
  ASSUME SchedulerAssumption, TypeOK,
         \/ \E w \in Workers : LoopRaises(w) \/ Crash(w) \/ HeartbeatAges(w)
         \/ Interrupt
         \/ CoordinatorCrash
  PROVE  TypeOK'
<1> USE DEF TypeOK, coordinator, workerVars, database
<1>1. ASSUME NEW w \in Workers, Crash(w)
      PROVE  TypeOK'
  BY <1>1 DEF Crash, ThreadsOf
<1>2. ASSUME NEW w \in Workers, HeartbeatAges(w)
      PROVE  TypeOK'
  BY <1>2 DEF HeartbeatAges
<1>3. CASE Interrupt \/ CoordinatorCrash
  BY <1>3 DEF Interrupt, CoordinatorCrash
<1>4. ASSUME NEW w \in Workers, LoopRaises(w)
      PROVE  TypeOK'
  BY <1>4 DEF LoopRaises
<1>5. QED
  BY <1>1, <1>2, <1>3, <1>4

LEMMA NextType == SchedulerAssumption /\ TypeOK /\ [Next]_vars => TypeOK'
<1> SUFFICES ASSUME SchedulerAssumption, TypeOK, [Next]_vars
             PROVE  TypeOK'
  OBVIOUS
<1>1. CASE Next
  BY <1>1, WorkType, ThreadType, LeaseType, ChildType, CoordinateType, FaultType
     DEF Next
<1>2. CASE UNCHANGED vars
  BY <1>2 DEF TypeOK, vars, database, workerVars, coordinator
<1>3. QED
  BY <1>1, <1>2

\* Every variable keeps the type the code gives it.
THEOREM TypeCorrect == Spec => []TypeOK
<1>1. Init => TypeOK
  BY InitType, SchedulerAssumption
<1>2. TypeOK /\ [Next]_vars => TypeOK'
  BY NextType, SchedulerAssumption
<1>3. QED
  BY <1>1, <1>2, PTL DEF Spec

-------------------------------------------------------------------------------
(* What a step does to the job documents, lease_owner and lease aside. *)

Keeps(i) == /\ jobs'[i].state = jobs[i].state
            /\ jobs'[i].attempts = jobs[i].attempts
            /\ jobs'[i].ready <=> jobs[i].ready

\* Only job j changes, to state s with n attempts.
Becomes(j, s, n) ==
  /\ jobs'[j].state = s
  /\ jobs'[j].attempts = n
  /\ jobs'[j].ready <=> jobs[j].ready
  /\ \A i \in Jobs \ {j} : Keeps(i)

Claimed(j) == /\ jobs[j].state = "pending"
              /\ jobs[j].ready
              /\ Becomes(j, "running", jobs[j].attempts + 1)

EndedWith(j, s) == /\ jobs[j].state = "running"
                   /\ Becomes(j, s, jobs[j].attempts)

Requeued(j) == /\ jobs[j].state = "running"
               /\ jobs[j].attempts < MaxAttempts
               /\ Becomes(j, "pending", jobs[j].attempts)

GivenUp(j) == /\ jobs[j].state = "pending"
              /\ Becomes(j, "failed", jobs[j].attempts)

Skipped(j) == /\ jobs[j].state = "pending"
              /\ MustSkip(j)
              /\ Becomes(j, "skipped", jobs[j].attempts)

Refreshed ==
  \A i \in Jobs : /\ jobs'[i].state = jobs[i].state
                  /\ jobs'[i].attempts = jobs[i].attempts
                  /\ jobs[i].ready => jobs'[i].ready
                  /\ jobs'[i].ready => jobs[i].ready \/ IsReady(i)

\* All that workers, threads, children and faults do ...
OutsideStep ==
  \/ \A i \in Jobs : Keeps(i)
  \/ \E j \in Jobs : \/ Claimed(j)
                    \/ \E s \in {"success", "failed"} : EndedWith(j, s)

\* ... and what the coordinator does in addition.
JobsStep ==
  \/ OutsideStep
  \/ \E j \in Jobs : Requeued(j) \/ GivenUp(j) \/ Skipped(j)
  \/ Refreshed

\* The strengthening.  A pending job has an attempt left; what a job needed
\* before it became ready stays done; a skip was due; what the coordinator has
\* read about expired leases is still so or was settled by somebody else; and
\* the run is open as long as the coordinator is at work.
AttemptsLeft ==
  \A j \in Jobs : /\ jobs[j].attempts <= MaxAttempts
                  /\ jobs[j].state = "pending" => jobs[j].attempts < MaxAttempts

ReadyIsEarned ==
  \A j \in Jobs :
    /\ jobs[j].ready => \A p \in DependsOn(j) : jobs[p].state = "success"
    /\ jobs[j].attempts > 0 => jobs[j].ready

SkipsWereDue == \A j \in Jobs : jobs[j].state = "skipped" => MustSkip(j)

SkipsAreDue == cpc \in {"skip1", "skip2"} => \A d \in agenda : MustSkip(d.job)

CopiesAreCurrent ==
  cpc = "expire" =>
    /\ \A d \in agenda : /\ jobs[d.job].state # "pending"
                         /\ jobs[d.job].attempts = d.attempts
    /\ \A d, e \in agenda : d.job = e.job => d = e

RunIsOpen == cpc \notin {"done", "crashed"} => run = "running"

BoardInv ==
  /\ TypeOK
  /\ AttemptsLeft
  /\ ReadyIsEarned
  /\ SkipsWereDue
  /\ SkipsAreDue
  /\ CopiesAreCurrent
  /\ RunIsOpen

LEMMA InitBoardInv == SchedulerAssumption /\ Init => BoardInv
<1> SUFFICES ASSUME SchedulerAssumption, Init
             PROVE  BoardInv
  OBVIOUS
<1>1. TypeOK
  BY InitType
<1>2. \A j \in Jobs : /\ jobs[j].state = "pending"
                      /\ jobs[j].attempts = 0
                      /\ jobs[j].ready => DependsOn(j) = {}
  BY DEF Init
<1>3. AttemptsLeft /\ ReadyIsEarned /\ SkipsWereDue
  <2>1. MaxAttempts \in Nat \ {0}
    BY DEF SchedulerAssumption
  <2>2. QED
    BY <1>2, <2>1 DEF AttemptsLeft, ReadyIsEarned, SkipsWereDue
<1>4. SkipsAreDue /\ CopiesAreCurrent /\ RunIsOpen
  BY DEF Init, SkipsAreDue, CopiesAreCurrent, RunIsOpen
<1>5. QED
  BY <1>1, <1>3, <1>4 DEF BoardInv

LEMMA MovedBecomes ==
  ASSUME TypeOK, NEW j \in Jobs, NEW s, jobs' = Moved(j, s)
  PROVE  Becomes(j, s, jobs[j].attempts)
<1>1. jobs \in [Jobs -> JobDocuments]
  BY DEF TypeOK
<1>2. QED
  BY <1>1 DEF Moved, Becomes, Keeps, JobDocuments

LEMMA SetStateBecomes ==
  ASSUME TypeOK, NEW j \in Jobs, NEW s, jobs' = [jobs EXCEPT ![j].state = s]
  PROVE  Becomes(j, s, jobs[j].attempts)
<1>1. jobs \in [Jobs -> JobDocuments]
  BY DEF TypeOK
<1>2. QED
  BY <1>1 DEF Becomes, Keeps, JobDocuments

LEMMA ReportedStep ==
  ASSUME TypeOK, NEW j \in Jobs, NEW w, NEW s \in {"success", "failed"},
         jobs' = jobs \/ jobs' = Reported(j, w, s)
  PROVE  OutsideStep
<1>1. CASE jobs' = jobs
  BY <1>1 DEF OutsideStep, Keeps
<1>2. CASE jobs' = Moved(j, s) /\ jobs[j].state = "running"
  BY <1>2, MovedBecomes DEF OutsideStep, EndedWith
<1>3. QED
  BY <1>1, <1>2 DEF Reported

LEMMA WorkJobs ==
  ASSUME TypeOK, NEW w \in Workers, Work(w)
  PROVE  OutsideStep
<1>1. CASE Take(w)
  <2>1. jobs \in [Jobs -> JobDocuments]
    BY DEF TypeOK
  <2>2. PICK j \in Jobs :
          /\ Fits(j, free[w])
          /\ jobs' = [jobs EXCEPT ![j].state = "running", ![j].owner = w,
                                  ![j].lapsed = FALSE, ![j].attempts = @ + 1]
    BY <1>1 DEF Take
  <2>3. Claimed(j)
    BY <2>1, <2>2 DEF Fits, Claimed, Becomes, Keeps, JobDocuments
  <2>4. QED
    BY <2>3 DEF OutsideStep
<1>2. CASE jobs' = jobs
  BY <1>2 DEF OutsideStep, Keeps
<1>3. QED
  BY <1>1, <1>2
     DEF Work, Poll, AskRun, TakeNothing, Launch, Check, Leave, database

LEMMA ThreadJobs ==
  ASSUME TypeOK, NEW th \in threads, ThreadStep(th)
  PROVE  OutsideStep
<1>1. th.job \in Jobs
  BY DEF TypeOK, Threads
<1>2. CASE Report(th)
  BY <1>1, <1>2, ReportedStep DEF Report
<1>3. CASE ReportRaises(th)
  BY <1>1, <1>3, ReportedStep DEF ReportRaises
<1>4. CASE Recover(th)
  BY <1>1, <1>4, ReportedStep DEF Recover
<1>5. CASE Rewrite(th) \/ Release(th)
  BY <1>5 DEF Rewrite, Release, database, OutsideStep, Keeps
<1>6. CASE RecoverRaises(th)
  BY <1>1, <1>6, ReportedStep DEF RecoverRaises
<1>7. QED
  BY <1>2, <1>3, <1>4, <1>5, <1>6 DEF ThreadStep

LEMMA LeaseJobs ==
  ASSUME TypeOK,
         \/ \E th \in threads : RenewLease(th)
         \/ \E j \in Jobs : LeaseLapses(j)
  PROVE  \A i \in Jobs : Keeps(i)
<1>1. jobs \in [Jobs -> JobDocuments]
  BY DEF TypeOK
<1>2. \E j, b : jobs' = [jobs EXCEPT ![j].lapsed = b]
  BY DEF RenewLease, LeaseLapses
<1>3. QED
  BY <1>1, <1>2 DEF Keeps, JobDocuments

LEMMA CoordinateJobs ==
  ASSUME SchedulerAssumption, BoardInv, Coordinate
  PROVE  JobsStep
<1>0. jobs \in [Jobs -> JobDocuments] /\ \A d \in agenda : d.job \in Jobs
  BY DEF BoardInv, TypeOK, Copies
<1>1. ASSUME NEW d \in agenda, ExpireLease(d)
      PROVE  JobsStep
  <2>1. CASE jobs' = jobs
    BY <2>1 DEF JobsStep, OutsideStep, Keeps
  <2>2. CASE jobs' = Moved(d.job, "failed") /\ jobs[d.job].state = "running"
    <3>1. EndedWith(d.job, "failed")
      BY <1>0, <2>2, MovedBecomes DEF EndedWith, BoardInv
    <3>2. QED
      BY <1>0, <3>1 DEF JobsStep, OutsideStep
  <2>3. CASE /\ jobs' = Moved(d.job, "pending") /\ jobs[d.job].state = "running"
             /\ ~(d.attempts >= MaxAttempts)
    <3>1. Becomes(d.job, "pending", jobs[d.job].attempts)
      BY <1>0, <2>3, MovedBecomes DEF BoardInv
    <3>2. jobs[d.job].attempts = d.attempts /\ d.attempts \in Nat
      BY <1>0, <1>1 DEF ExpireLease, BoardInv, CopiesAreCurrent, JobDocuments
    <3>3. Requeued(d.job)
      BY <2>3, <3>1, <3>2 DEF Requeued, SchedulerAssumption
    <3>4. QED
      BY <1>0, <3>3 DEF JobsStep
  <2>4. QED
    BY <1>1, <2>1, <2>2, <2>3 DEF ExpireLease
<1>2. ASSUME NEW d \in agenda, MarkSkipped(d)
      PROVE  JobsStep
  <2>1. CASE jobs' = jobs
    BY <2>1 DEF JobsStep, OutsideStep, Keeps
  <2>2. CASE /\ jobs[d.job].state = "pending"
             /\ jobs' = [jobs EXCEPT ![d.job].state = "skipped"]
    <3>1. MustSkip(d.job)
      BY <1>2 DEF MarkSkipped, GivesUp, BoardInv, SkipsAreDue
    <3>2. Skipped(d.job)
      BY <1>0, <2>2, <3>1, SetStateBecomes DEF Skipped, BoardInv
    <3>3. QED
      BY <1>0, <3>2 DEF JobsStep
  <2>3. QED
    BY <1>2, <2>1, <2>2 DEF MarkSkipped, GivesUp
<1>3. ASSUME NEW d \in agenda, MarkMemoryUnfit(d)
      PROVE  JobsStep
  <2>1. CASE jobs' = jobs
    BY <2>1 DEF JobsStep, OutsideStep, Keeps
  <2>2. CASE /\ jobs[d.job].state = "pending"
             /\ jobs' = [jobs EXCEPT ![d.job].state = "failed"]
    <3>1. GivenUp(d.job)
      BY <1>0, <2>2, SetStateBecomes DEF GivenUp, BoardInv
    <3>2. QED
      BY <1>0, <3>1 DEF JobsStep
  <2>3. QED
    BY <1>3, <2>1, <2>2 DEF MarkMemoryUnfit, GivesUp
<1>4. CASE RefreshReady
  <2>1. Refreshed
    BY <1>0, <1>4 DEF RefreshReady, Refreshed, JobDocuments
  <2>2. QED
    BY <2>1 DEF JobsStep
<1>5. CASE jobs' = jobs
  BY <1>5 DEF JobsStep, OutsideStep, Keeps
<1>6. QED
  BY <1>1, <1>2, <1>3, <1>4, <1>5
     DEF Coordinate, FindExpired, WriteFailure, FindSkips, CheckWorkers, FindUnfit,
         CompleteRun, database

Outside ==
  \/ \E w \in Workers : Work(w) \/ LoopRaises(w) \/ Crash(w) \/ HeartbeatAges(w)
  \/ \E th \in threads : ThreadStep(th) \/ RenewLease(th)
  \/ \E c \in children : ChildStep(c)
  \/ \E j \in Jobs : LeaseLapses(j)

LEMMA OutsideJobs ==
  ASSUME TypeOK, Outside
  PROVE  OutsideStep
<1>1. CASE jobs' = jobs
  BY <1>1 DEF OutsideStep, Keeps
<1>2. ASSUME NEW c \in children, ChildStep(c)
      PROVE  jobs' = jobs
  BY <1>2 DEF ChildStep, ChildRecords, ChildExits, ChildDies, StartFails, Exits,
              database
<1>3. ASSUME NEW w \in Workers, LoopRaises(w) \/ Crash(w) \/ HeartbeatAges(w)
      PROVE  jobs' = jobs
  BY <1>3 DEF LoopRaises, Crash, HeartbeatAges, database
<1>4. QED
  BY <1>1, <1>2, <1>3, WorkJobs, ThreadJobs, LeaseJobs DEF Outside, OutsideStep

LEMMA OutsideLeaves ==
  ASSUME Outside
  PROVE  UNCHANGED <<run, coordinator>>
<1>1. ASSUME NEW w \in Workers,
             Work(w) \/ LoopRaises(w) \/ Crash(w) \/ HeartbeatAges(w)
      PROVE  UNCHANGED <<run, coordinator>>
  BY <1>1 DEF Work, Poll, AskRun, Take, TakeNothing, Launch, Check, Leave,
              LoopRaises, Crash, HeartbeatAges, database, coordinator
<1>2. ASSUME NEW th \in threads, ThreadStep(th) \/ RenewLease(th)
      PROVE  UNCHANGED <<run, coordinator>>
  BY <1>2 DEF ThreadStep, Report, ReportRaises, Recover, RecoverRaises, Rewrite,
              Release, RenewLease, database, coordinator
<1>3. ASSUME NEW c \in children, ChildStep(c)
      PROVE  UNCHANGED <<run, coordinator>>
  BY <1>3 DEF ChildStep, ChildRecords, ChildExits, ChildDies, StartFails, Exits,
              database, coordinator
<1>4. ASSUME NEW j \in Jobs, LeaseLapses(j)
      PROVE  UNCHANGED <<run, coordinator>>
  BY <1>4 DEF LeaseLapses, coordinator
<1>5. QED
  BY <1>1, <1>2, <1>3, <1>4 DEF Outside

LEMMA NextCases ==
  ASSUME [Next]_vars
  PROVE  \/ Outside
         \/ Coordinate
         \/ Interrupt \/ CoordinatorCrash
         \/ UNCHANGED vars
BY DEF Next, Outside

LEMMA NextJobs ==
  ASSUME SchedulerAssumption, BoardInv, [Next]_vars
  PROVE  JobsStep
<1>1. TypeOK
  BY DEF BoardInv
<1>2. CASE jobs' = jobs
  BY <1>2 DEF JobsStep, OutsideStep, Keeps
<1>3. Interrupt \/ CoordinatorCrash => jobs' = jobs
  BY DEF Interrupt, CoordinatorCrash, database
<1>4. UNCHANGED vars => jobs' = jobs
  BY DEF vars, database
<1>5. QED
  BY <1>1, <1>2, <1>3, <1>4, NextCases, OutsideJobs, CoordinateJobs DEF JobsStep

-------------------------------------------------------------------------------
(* The strengthening is inductive. *)

LEMMA JobsInv ==
  ASSUME SchedulerAssumption, BoardInv, JobsStep
  PROVE  AttemptsLeft' /\ ReadyIsEarned' /\ SkipsWereDue'
<1>0. jobs \in [Jobs -> JobDocuments] /\ MaxAttempts \in Nat
  BY DEF BoardInv, TypeOK, SchedulerAssumption
<1>1. \A j \in Jobs : /\ jobs[j].attempts \in Nat
                      /\ DependsOn(j) \subseteq Jobs
                      /\ \A p, q \in DependsOn(j) : p = q
  BY <1>0 DEF JobDocuments, DependsOn, SchedulerAssumption
<1> USE DEF BoardInv, AttemptsLeft, ReadyIsEarned, SkipsWereDue, MustSkip
<1>2. CASE \A i \in Jobs : Keeps(i)
  BY <1>1, <1>2 DEF Keeps
<1>3. ASSUME NEW j \in Jobs, Claimed(j)
      PROVE  AttemptsLeft' /\ ReadyIsEarned' /\ SkipsWereDue'
  <2>1. AttemptsLeft'
    <3>1. jobs[j].attempts + 1 <= MaxAttempts
      BY <1>0, <1>1, <1>3 DEF Claimed
    <3>2. /\ jobs'[j].attempts = jobs[j].attempts + 1
          /\ jobs'[j].state = "running"
          /\ \A i \in Jobs \ {j} : Keeps(i)
      BY <1>3 DEF Claimed, Becomes
    <3>3. QED
      BY <3>1, <3>2 DEF Keeps
  <2>2. ReadyIsEarned'
    BY <1>0, <1>1, <1>3 DEF Claimed, Becomes, Keeps
  <2>3. SkipsWereDue'
    BY <1>0, <1>1, <1>3 DEF Claimed, Becomes, Keeps
  <2>4. QED
    BY <2>1, <2>2, <2>3
<1>4. ASSUME NEW j \in Jobs, NEW s \in {"success", "failed"}, EndedWith(j, s)
      PROVE  AttemptsLeft' /\ ReadyIsEarned' /\ SkipsWereDue'
  BY <1>0, <1>1, <1>4 DEF EndedWith, Becomes, Keeps
<1>5. ASSUME NEW j \in Jobs, Requeued(j)
      PROVE  AttemptsLeft' /\ ReadyIsEarned' /\ SkipsWereDue'
  BY <1>0, <1>1, <1>5 DEF Requeued, Becomes, Keeps
<1>6. ASSUME NEW j \in Jobs, GivenUp(j)
      PROVE  AttemptsLeft' /\ ReadyIsEarned' /\ SkipsWereDue'
  BY <1>0, <1>1, <1>6 DEF GivenUp, Becomes, Keeps
<1>7. ASSUME NEW j \in Jobs, Skipped(j)
      PROVE  AttemptsLeft' /\ ReadyIsEarned' /\ SkipsWereDue'
  BY <1>0, <1>1, <1>7 DEF Skipped, Becomes, Keeps
<1>8. CASE Refreshed
  BY <1>0, <1>1, <1>8 DEF Refreshed, IsReady
<1>9. QED
  BY <1>2, <1>3, <1>4, <1>5, <1>6, <1>7, <1>8 DEF JobsStep, OutsideStep

LEMMA EndsStay ==
  ASSUME JobsStep, NEW j \in Jobs, jobs[j].state \in Terminal
  PROVE  jobs'[j].state = jobs[j].state
BY DEF JobsStep, OutsideStep, Keeps, Becomes, Claimed, EndedWith, Requeued, GivenUp,
       Skipped, Refreshed, Terminal

LEMMA SkipsInv ==
  ASSUME SchedulerAssumption, BoardInv, [Next]_vars
  PROVE  SkipsAreDue'
<1>1. ASSUME NEW j \in Jobs, MustSkip(j)
      PROVE  MustSkip(j)'
  BY <1>1, NextJobs, EndsStay DEF MustSkip, DependsOn, Terminal
<1>2. \A d \in agenda : d.job \in Jobs
  BY DEF BoardInv, TypeOK, Copies
<1>3. CASE cpc' = cpc /\ agenda' \subseteq agenda
  BY <1>1, <1>2, <1>3 DEF BoardInv, SkipsAreDue
<1>4. CASE cpc' \notin {"skip1", "skip2"}
  BY <1>4 DEF SkipsAreDue
<1>5. ASSUME NEW from, NEW to, FindSkips(from, to)
      PROVE  SkipsAreDue'
  BY <1>1, <1>5 DEF FindSkips, SkipsAreDue, Doc, JobsIn
<1>6. CASE Outside
  BY <1>3, <1>6, OutsideLeaves DEF coordinator
<1>7. CASE Coordinate
  BY <1>3, <1>4, <1>5, <1>7
     DEF Coordinate, FindExpired, ExpireLease, MarkSkipped, MarkMemoryUnfit,
         GivesUp, Handled, WriteFailure, CheckWorkers, FindUnfit, RefreshReady,
         CompleteRun
<1>8. CASE Interrupt \/ CoordinatorCrash
  BY <1>4, <1>8 DEF Interrupt, CoordinatorCrash
<1>9. CASE UNCHANGED vars
  BY <1>3, <1>9 DEF vars, coordinator
<1>10. QED
  BY <1>6, <1>7, <1>8, <1>9, NextCases

LEMMA CopiesInv ==
  ASSUME SchedulerAssumption, BoardInv, [Next]_vars
  PROVE  CopiesAreCurrent'
<1>0. jobs \in [Jobs -> JobDocuments] /\ \A d \in agenda : d.job \in Jobs
  BY DEF BoardInv, TypeOK, Copies
<1>1. CASE cpc' # "expire"
  BY <1>1 DEF CopiesAreCurrent
<1>2. CASE UNCHANGED <<jobs, cpc, agenda>>
  BY <1>2 DEF BoardInv, CopiesAreCurrent
<1>3. CASE Outside
  <2>1. OutsideStep
    BY <1>3, OutsideJobs DEF BoardInv
  <2>2. UNCHANGED <<cpc, agenda>>
    BY <1>3, OutsideLeaves DEF coordinator
  <2>3. QED
    BY <1>0, <2>1, <2>2
       DEF OutsideStep, Keeps, Claimed, EndedWith, Becomes, BoardInv,
           CopiesAreCurrent
<1>4. CASE FindExpired
  BY <1>0, <1>4 DEF FindExpired, CopiesAreCurrent, Doc, JobsIn, database
<1>5. ASSUME NEW d \in agenda, ExpireLease(d)
      PROVE  CopiesAreCurrent'
  <2>1. \A e \in agenda' : e \in agenda /\ e.job # d.job
    BY <1>5 DEF ExpireLease, Handled, BoardInv, CopiesAreCurrent
  <2>2. \A i \in Jobs \ {d.job} : Keeps(i)
    BY <1>0, <1>5, MovedBecomes
       DEF ExpireLease, Becomes, Keeps, BoardInv
  <2>3. QED
    BY <1>0, <1>5, <2>1, <2>2 DEF ExpireLease, Keeps, BoardInv, CopiesAreCurrent
<1>6. ASSUME NEW o \in owed, WriteFailure(o)
      PROVE  CopiesAreCurrent'
  BY <1>2, <1>6 DEF WriteFailure
<1>7. CASE Coordinate
  BY <1>1, <1>4, <1>5, <1>6, <1>7
     DEF Coordinate, MarkSkipped, MarkMemoryUnfit, GivesUp, FindSkips, CheckWorkers,
         FindUnfit, RefreshReady, CompleteRun
<1>8. CASE Interrupt \/ CoordinatorCrash
  BY <1>1, <1>8 DEF Interrupt, CoordinatorCrash
<1>9. CASE UNCHANGED vars
  BY <1>2, <1>9 DEF vars, coordinator, database
<1>10. QED
  BY <1>3, <1>7, <1>8, <1>9, NextCases

LEMMA RunInv ==
  ASSUME BoardInv, [Next]_vars
  PROVE  RunIsOpen'
<1> USE DEF BoardInv, RunIsOpen
<1>1. CASE Outside
  BY <1>1, OutsideLeaves DEF coordinator
<1>2. CASE Coordinate
  BY <1>2
     DEF Coordinate, FindExpired, ExpireLease, MarkSkipped, MarkMemoryUnfit,
         GivesUp, WriteFailure, FindSkips, CheckWorkers, FindUnfit, RefreshReady,
         CompleteRun, database
<1>3. CASE Interrupt \/ CoordinatorCrash
  BY <1>3 DEF Interrupt, CoordinatorCrash
<1>4. CASE UNCHANGED vars
  BY <1>4 DEF vars, coordinator, database
<1>5. QED
  BY <1>1, <1>2, <1>3, <1>4, NextCases

LEMMA NextBoardInv ==
  ASSUME SchedulerAssumption, BoardInv, [Next]_vars
  PROVE  BoardInv'
<1>1. TypeOK'
  BY NextType DEF BoardInv
<1>2. QED
  BY <1>1, NextJobs, JobsInv, SkipsInv, CopiesInv, RunInv DEF BoardInv

LEMMA BoardInvariance == Spec => []BoardInv
<1>1. Init => BoardInv
  BY InitBoardInv, SchedulerAssumption
<1>2. BoardInv /\ [Next]_vars => BoardInv'
  BY NextBoardInv, SchedulerAssumption
<1>3. QED
  BY <1>1, <1>2, PTL DEF Spec

\* SkippedNeverStarted holds: a started job was ready, so what it needs has
\* succeeded, and a job is skipped only when that has failed.
THEOREM SkippedJobsWereNeverRun == Spec => []SkippedNeverStarted
<1>1. BoardInv => SkippedNeverStarted
  <2> SUFFICES ASSUME BoardInv, NEW j \in Jobs, jobs[j].state = "skipped"
               PROVE  jobs[j].attempts = 0
    BY DEF SkippedNeverStarted
  <2>1. PICK p \in DependsOn(j) : jobs[p].state = "failed"
    BY DEF BoardInv, SkipsWereDue, MustSkip
  <2>2. ~jobs[j].ready
    BY <2>1 DEF BoardInv, ReadyIsEarned
  <2>3. jobs[j].attempts \in Nat
    BY DEF BoardInv, TypeOK, JobDocuments
  <2>4. QED
    BY <2>2, <2>3 DEF BoardInv, ReadyIsEarned
<1>2. QED
  BY <1>1, BoardInvariance, PTL

\* OutcomesAreFinal holds: no report, however late, no lease check and no skip
\* changes the state of a job that has ended.
THEOREM OutcomesStay == Spec => OutcomesAreFinal
<1>1. BoardInv /\ [Next]_vars
        => [\A j \in Jobs : jobs[j].state \in Terminal
                           => jobs'[j].state = jobs[j].state]_vars
  BY NextJobs, EndsStay, SchedulerAssumption
<1>2. QED
  BY <1>1, BoardInvariance, PTL DEF Spec, OutcomesAreFinal

-------------------------------------------------------------------------------
(* The refinement of JobBoard. *)

BoardState == [j \in Jobs |-> jobs[j].state]
BoardAttempts == [j \in Jobs |-> jobs[j].attempts]

LEMMA BoardBecomes ==
  ASSUME NEW j \in Jobs, NEW s, NEW n, Becomes(j, s, n)
  PROVE  /\ BoardState' = [BoardState EXCEPT ![j] = s]
         /\ BoardAttempts' = [BoardAttempts EXCEPT ![j] = n]
BY DEF Becomes, Keeps, BoardState, BoardAttempts

LEMMA BoardStays ==
  ASSUME \A i \in Jobs : /\ jobs'[i].state = jobs[i].state
                         /\ jobs'[i].attempts = jobs[i].attempts
  PROVE  UNCHANGED <<BoardState, BoardAttempts>>
BY DEF BoardState, BoardAttempts

\* The run document changes only while the jobs do not, and only from "running".
LEMMA RunStep ==
  ASSUME BoardInv, [Next]_vars
  PROVE  \/ UNCHANGED run
         \/ /\ UNCHANGED jobs
            /\ run = "running"
            /\ \/ RunIsDone /\ run' = "completed"
               \/ run' \in {"failed", "stopping"}
<1> USE DEF BoardInv, RunIsOpen
<1>1. CASE Outside
  BY <1>1, OutsideLeaves
<1>2. CASE Coordinate
  BY <1>2
     DEF Coordinate, FindExpired, ExpireLease, MarkSkipped, MarkMemoryUnfit,
         GivesUp, WriteFailure, FindSkips, CheckWorkers, FindUnfit, RefreshReady,
         CompleteRun, database
<1>3. CASE Interrupt \/ CoordinatorCrash
  BY <1>3 DEF Interrupt, CoordinatorCrash, CoordinatorIsGone, database
<1>4. CASE UNCHANGED vars
  BY <1>4 DEF vars, database
<1>5. QED
  BY <1>1, <1>2, <1>3, <1>4, NextCases

LEMMA JobsStepOnBoard ==
  ASSUME SchedulerAssumption, BoardInv, JobsStep, UNCHANGED run
  PROVE  [Board!BoardNext]_(Board!boardVars)
<1> USE DEF BoardInv
<1>0. /\ jobs \in [Jobs -> JobDocuments]
      /\ \A j \in Jobs : DependsOn(j) \subseteq Jobs
  BY DEF TypeOK, DependsOn
<1>1. CASE UNCHANGED <<BoardState, BoardAttempts>>
  BY <1>1 DEF Board!boardVars, BoardState, BoardAttempts
<1>2. ASSUME NEW j \in Jobs, Claimed(j)
      PROVE  Board!Start(j)
  <2>1. /\ BoardState' = [BoardState EXCEPT ![j] = "running"]
        /\ BoardAttempts' = [BoardAttempts EXCEPT ![j] = jobs[j].attempts + 1]
    BY <1>2, BoardBecomes DEF Claimed
  <2>2. jobs[j].state = "pending" /\ jobs[j].attempts < MaxAttempts
    BY <1>2 DEF Claimed, AttemptsLeft
  <2>3. \A p \in DependsOn(j) : jobs[p].state = "success"
    BY <1>2 DEF Claimed, ReadyIsEarned
  <2>4. QED
    BY <1>0, <2>1, <2>2, <2>3 DEF Board!Start, BoardState, BoardAttempts
<1>3. ASSUME NEW j \in Jobs, NEW s \in {"success", "failed"}, EndedWith(j, s)
      PROVE  Board!Finish(j)
  <2>1. /\ BoardState' = [BoardState EXCEPT ![j] = s]
        /\ BoardAttempts' = [BoardAttempts EXCEPT ![j] = jobs[j].attempts]
    BY <1>3, BoardBecomes DEF EndedWith
  <2>2. QED
    BY <1>0, <1>3, <2>1 DEF EndedWith, Board!Finish, BoardState, BoardAttempts
<1>4. ASSUME NEW j \in Jobs, Requeued(j)
      PROVE  Board!Finish(j)
  <2>1. /\ BoardState' = [BoardState EXCEPT ![j] = "pending"]
        /\ BoardAttempts' = [BoardAttempts EXCEPT ![j] = jobs[j].attempts]
    BY <1>4, BoardBecomes DEF Requeued
  <2>2. QED
    BY <1>0, <1>4, <2>1 DEF Requeued, Board!Finish, BoardState, BoardAttempts
<1>5. ASSUME NEW j \in Jobs, GivenUp(j)
      PROVE  Board!GiveUp(j)
  <2>1. /\ BoardState' = [BoardState EXCEPT ![j] = "failed"]
        /\ BoardAttempts' = [BoardAttempts EXCEPT ![j] = jobs[j].attempts]
    BY <1>5, BoardBecomes DEF GivenUp
  <2>2. QED
    BY <1>0, <1>5, <2>1 DEF GivenUp, Board!GiveUp, BoardState, BoardAttempts
<1>6. ASSUME NEW j \in Jobs, Skipped(j)
      PROVE  Board!Skip(j)
  <2>1. /\ BoardState' = [BoardState EXCEPT ![j] = "skipped"]
        /\ BoardAttempts' = [BoardAttempts EXCEPT ![j] = jobs[j].attempts]
    BY <1>6, BoardBecomes DEF Skipped
  <2>2. QED
    BY <1>0, <1>6, <2>1
       DEF Skipped, MustSkip, Board!Skip, BoardState, BoardAttempts
<1>7. CASE \/ \A i \in Jobs : Keeps(i)
           \/ Refreshed
  BY <1>1, <1>7, BoardStays DEF Keeps, Refreshed
<1>8. QED
  BY <1>2, <1>3, <1>4, <1>5, <1>6, <1>7
     DEF JobsStep, OutsideStep, Board!BoardNext

LEMMA RunStepOnBoard ==
  ASSUME BoardInv, UNCHANGED jobs, run = "running",
         \/ RunIsDone /\ run' = "completed"
         \/ run' \in {"failed", "stopping"}
  PROVE  Board!BoardNext
<1>1. UNCHANGED <<BoardState, BoardAttempts>>
  BY BoardStays
<1>2. QED
  BY <1>1 DEF RunIsDone, Terminal, Board!BoardNext, Board!Complete, Board!Abandon,
              Board!Ended, BoardState, BoardAttempts

\* ImplementsBoard holds: with the states and attempts of the job documents for
\* its variables, every step of the scheduler is one of JobBoard or a stutter.
THEOREM SchedulerImplementsBoard == Spec => ImplementsBoard
<1>1. Init => Board!BoardInit
  BY DEF Init, Board!BoardInit
<1>2. BoardInv /\ [Next]_vars => [Board!BoardNext]_(Board!boardVars)
  BY SchedulerAssumption, NextJobs, RunStep, JobsStepOnBoard, RunStepOnBoard
<1>3. QED
  BY <1>1, <1>2, BoardInvariance, PTL DEF Spec, ImplementsBoard, Board!BoardSpec

-------------------------------------------------------------------------------
(* Sums over sets of threads. *)

Total(need, T) == MapThenSumSet(LAMBDA th : need[th.job], T)

\* The units of a resource that the threads of T take: as many as their sum.
UnitsOf(need, th) == {th} \X (1 .. need[th.job])
Units(need, T) == UNION {UnitsOf(need, th) : th \in T}

\* A family of subsets of a finite set that contains the empty set, and every set
\* it has with one element less, contains the whole set.
LEMMA SubsetDescent ==
  ASSUME NEW S, IsFiniteSet(S), NEW F, {} \in F,
         \A T \in SUBSET S : T # {} => \E x \in T : T \ {x} \in F => T \in F
  PROVE  S \in F
<1> DEFINE R == StrictSubsetOrdering(S)
           Others == (SUBSET S) \ F
<1> SUFFICES ASSUME Others # {}
             PROVE  FALSE
  OBVIOUS
<1>1. IsWellFoundedOn(R, FiniteSubsetsOf(S)) /\ Others \subseteq FiniteSubsetsOf(S)
  BY FS_StrictSubsetOrderingWellFounded, FS_FiniteSubsetsOfFinite
<1>2. PICK T \in Others : \A U \in Others : <<U, T>> \notin R
  <2> HIDE DEF Others, R
  <2>1. QED
    BY <1>1, WFMin
<1>3. PICK x \in T : T \ {x} \in F => T \in F
  BY <1>2
<1>4. <<T \ {x}, T>> \in R
  BY <1>2, <1>3 DEF StrictSubsetOrdering
<1>5. T \ {x} \in F
  BY <1>2, <1>4
<1>6. QED
  BY <1>2, <1>3, <1>5

LEMMA UnitsOfThread ==
  ASSUME NEW need \in [Jobs -> Nat], NEW th, th.job \in Jobs
  PROVE  /\ IsFiniteSet(UnitsOf(need, th))
         /\ Cardinality(UnitsOf(need, th)) = need[th.job]
<1> DEFINE n == need[th.job]
<1>1. n \in Nat
  OBVIOUS
<1> HIDE DEF n
<1>2. IsFiniteSet(1 .. n) /\ Cardinality(1 .. n) = n
  BY <1>1, FS_Interval
<1>3. IsFiniteSet({th}) /\ Cardinality({th}) = 1
  BY FS_Singleton
<1>4. /\ IsFiniteSet({th} \X (1 .. n))
      /\ Cardinality({th} \X (1 .. n)) = n
  <2> DEFINE one == {th}
             units == 1 .. n
  <2>1. /\ IsFiniteSet(one) /\ Cardinality(one) = 1
        /\ IsFiniteSet(units) /\ Cardinality(units) = n
    BY <1>2, <1>3
  <2> HIDE DEF one, units
  <2>2. /\ IsFiniteSet(one \X units)
        /\ Cardinality(one \X units) = Cardinality(one) * Cardinality(units)
    BY <2>1, FS_Product
  <2>3. Cardinality(one \X units) = n
    BY <1>1, <2>1, <2>2
  <2>4. QED
    BY <2>2, <2>3 DEF one, units
<1>5. QED
  BY <1>1, <1>4 DEF UnitsOf, n

LEMMA UnitsAreFinite ==
  ASSUME NEW need \in [Jobs -> Nat],
         NEW T, IsFiniteSet(T), \A th \in T : th.job \in Jobs
  PROVE  IsFiniteSet(Units(need, T)) /\ Cardinality(Units(need, T)) \in Nat
<1> DEFINE U == {UnitsOf(need, th) : th \in T}
           f == [th \in T |-> UnitsOf(need, th)]
<1>1. f \in Surjection(T, U)
  BY DEF Surjection
<1>2. IsFiniteSet(U)
  BY <1>1, FS_Surjection
<1>3. \A u \in U : IsFiniteSet(u)
  BY UnitsOfThread
<1>4. IsFiniteSet(UNION U)
  <2> HIDE DEF U
  <2>1. QED
    BY <1>2, <1>3, FS_UNION
<1>5. QED
  BY <1>4, FS_CardinalityType DEF Units

LEMMA UnitsAdd ==
  ASSUME NEW need \in [Jobs -> Nat],
         NEW T, IsFiniteSet(T), \A th \in T : th.job \in Jobs,
         NEW x, x \notin T, x.job \in Jobs
  PROVE  Cardinality(Units(need, T \cup {x})) = Cardinality(Units(need, T)) + need[x.job]
<1> DEFINE A == Units(need, T)
           B == UnitsOf(need, x)
<1>1. IsFiniteSet(A) /\ Cardinality(A) \in Nat
  BY UnitsAreFinite
<1>2. IsFiniteSet(B) /\ Cardinality(B) = need[x.job]
  BY UnitsOfThread
<1>3. Units(need, T \cup {x}) = A \cup B
  BY DEF Units
<1>4. A \cap B = {}
  BY DEF Units, UnitsOf
<1> HIDE DEF A, B
<1>5. Cardinality(A \cup B) = Cardinality(A) + Cardinality(B) - Cardinality(A \cap B)
  BY <1>1, <1>2, FS_Union
<1>6. Cardinality(A \cap B) = 0
  BY <1>4, FS_EmptySet
<1>7. QED
  <2>1. need[x.job] \in Nat
    OBVIOUS
  <2>2. Cardinality(A \cup B) = Cardinality(A) + need[x.job]
    BY <1>1, <1>2, <1>5, <1>6, <2>1
  <2>3. QED
    BY <1>3, <2>2 DEF A

\* The sum, a recursive function over the subsets of T, counts units.
LEMMA TotalIsCount ==
  ASSUME NEW need \in [Jobs -> Nat],
         NEW T, IsFiniteSet(T), \A th \in T : th.job \in Jobs
  PROVE  Total(need, T) = Cardinality(Units(need, T))
<1> DEFINE pick(s) == CHOOSE x \in s : TRUE
           SumOn(f) == f = [s \in SUBSET T |->
                              IF s = {} THEN 0
                              ELSE need[(CHOOSE x \in s : TRUE).job]
                                     + f[s \ {CHOOSE x \in s : TRUE}]]
           sum == CHOOSE f : SumOn(f)
           count == [s \in SUBSET T |-> Cardinality(Units(need, s))]
           F == {s \in SUBSET T : sum[s] = count[s]}
<1>1. ASSUME NEW s \in SUBSET T
      PROVE  Cardinality(Units(need, s)) =
               IF s = {} THEN 0 ELSE need[pick(s).job] + count[s \ {pick(s)}]
  <2>1. CASE s = {}
    BY <2>1, FS_EmptySet DEF Units
  <2>2. CASE s # {}
    <3> DEFINE x == pick(s)
               r == s \ {x}
    <3>1. x \in s /\ r \in SUBSET T /\ x \notin r /\ s = r \cup {x}
      BY <2>2
    <3> HIDE DEF x, r
    <3>2. IsFiniteSet(r) /\ Cardinality(Units(need, r)) \in Nat
      BY <3>1, FS_Subset, UnitsAreFinite
    <3>3. Cardinality(Units(need, r \cup {x})) = Cardinality(Units(need, r)) + need[x.job]
      BY <3>1, <3>2, UnitsAdd
    <3>4. count[r] = Cardinality(Units(need, r)) /\ need[x.job] \in Nat
      BY <3>1
    <3>5. Cardinality(Units(need, s)) = need[x.job] + count[r]
      BY <3>1, <3>2, <3>3, <3>4
    <3>6. QED
      BY <2>2, <3>5 DEF x, r
  <2>3. QED
    BY <2>1, <2>2
<1>2. SumOn(count)
  <2>1. [s \in SUBSET T |-> Cardinality(Units(need, s))]
          = [s \in SUBSET T |-> IF s = {} THEN 0
                                ELSE need[pick(s).job] + count[s \ {pick(s)}]]
    <3> HIDE DEF count, pick
    <3>1. QED
      BY <1>1
  <2>2. QED
    BY <2>1
<1>3. SumOn(sum)
  <2> HIDE DEF SumOn
  <2>1. QED
    BY <1>2
<1>4. Total(need, T) = sum[T]
  BY DEF Total, MapThenSumSet, MapThenFoldSet
<1>5. \A s \in SUBSET T :
        sum[s] = IF s = {} THEN 0 ELSE need[pick(s).job] + sum[s \ {pick(s)}]
  <2> HIDE DEF sum
  <2>1. QED
    BY <1>3
<1>6. \A s \in SUBSET T :
        count[s] = IF s = {} THEN 0 ELSE need[pick(s).job] + count[s \ {pick(s)}]
  BY <1>1
<1>7. \A s \in SUBSET T : s # {} => pick(s) \in s
  OBVIOUS
<1> HIDE DEF sum, count, pick, SumOn
<1>8. {} \in F
  BY <1>5, <1>6
<1>9. \A s \in SUBSET T : s # {} => \E x \in s : s \ {x} \in F => s \in F
  <2> SUFFICES ASSUME NEW s \in SUBSET T, s # {}
               PROVE  s \ {pick(s)} \in F => s \in F
    BY <1>7
  <2>1. QED
    BY <1>5, <1>6
<1>10. T \in F
  <2> HIDE DEF F
  <2>1. QED
    BY <1>8, <1>9, SubsetDescent
<1>11. QED
  BY <1>4, <1>10 DEF count

LEMMA TotalAdd ==
  ASSUME NEW need \in [Jobs -> Nat],
         NEW T, IsFiniteSet(T), \A th \in T : th.job \in Jobs,
         NEW x, x \notin T, x.job \in Jobs
  PROVE  /\ Total(need, T) \in Nat
         /\ Total(need, T \cup {x}) = Total(need, T) + need[x.job]
<1>1. IsFiniteSet(T \cup {x}) /\ \A th \in T \cup {x} : th.job \in Jobs
  BY FS_AddElement
<1>2. /\ Total(need, T) = Cardinality(Units(need, T))
      /\ Total(need, T \cup {x}) = Cardinality(Units(need, T \cup {x}))
  BY <1>1, TotalIsCount
<1>3. QED
  BY <1>2, UnitsAdd, UnitsAreFinite

LEMMA TotalRemove ==
  ASSUME NEW need \in [Jobs -> Nat],
         NEW T, IsFiniteSet(T), \A th \in T : th.job \in Jobs, NEW x \in T
  PROVE  /\ Total(need, T \ {x}) \in Nat
         /\ Total(need, T) = Total(need, T \ {x}) + need[x.job]
<1> DEFINE r == T \ {x}
<1>1. /\ IsFiniteSet(r) /\ (\A th \in r : th.job \in Jobs)
      /\ x \notin r /\ x.job \in Jobs /\ T = r \cup {x}
  BY FS_RemoveElement
<1> HIDE DEF r
<1>2. Total(need, r) \in Nat /\ Total(need, r \cup {x}) = Total(need, r) + need[x.job]
  BY <1>1, TotalAdd
<1>3. QED
  BY <1>1, <1>2 DEF r

-------------------------------------------------------------------------------
(* Reservations. *)

\* A claim has a number of its own among those of its job, so that threads and
\* claims not launched yet can be counted ...
ClaimsAreOld ==
  /\ \A th \in threads : th.attempt <= jobs[th.job].attempts
  /\ \A w \in Workers : \A h \in held[w] : h.attempt <= jobs[h.job].attempts

ClaimsDiffer ==
  /\ \A t, u \in threads : t.job = u.job /\ t.attempt = u.attempt => t = u
  /\ \A w \in Workers : \A h \in held[w] : \A th \in threads :
       th.job = h.job => th.attempt # h.attempt
  /\ \A v, w \in Workers : \A g \in held[v] : \A h \in held[w] :
       g.job = h.job /\ g.attempt = h.attempt => v = w

\* ... and what is claimed fits a snapshot that is still good when it is reserved:
\* between the two, threads only give back.
SnapshotsAreGood ==
  \A w \in Workers :
    /\ used[w].cpu <= CpuCores /\ used[w].memory <= UsableMemory[w]
    /\ wpc[w] \in {"ask", "take", "launch"} =>
         /\ used[w].cpu + free[w].cpu <= CpuCores
         /\ used[w].memory + free[w].memory <= UsableMemory[w]

HeldFits ==
  \A w \in Workers : \A h \in held[w] :
    wpc[w] = "launch" /\ Tokens[h.job] <= free[w].cpu /\ Memory[h.job] <= free[w].memory

ReservationsAdd ==
  \A w \in Workers : Alive(w) =>
    /\ used[w].cpu = Total(Tokens, ThreadsOf(w))
    /\ used[w].memory = Total(Memory, ThreadsOf(w))

CapacityInv ==
  /\ IsFiniteSet(threads)
  /\ ClaimsAreOld
  /\ ClaimsDiffer
  /\ SnapshotsAreGood
  /\ HeldFits
  /\ ReservationsAdd

LEMMA CapacityTypes ==
  ASSUME SchedulerAssumption, TypeOK
  PROVE  /\ Tokens \in [Jobs -> Nat] /\ Memory \in [Jobs -> Nat] /\ CpuCores \in Nat
         /\ \A w \in Workers :
              /\ UsableMemory[w] \in Nat
              /\ used[w].cpu \in Nat /\ used[w].memory \in Nat
              /\ free[w].cpu \in Nat /\ free[w].memory \in Nat
              /\ \A h \in held[w] : h.job \in Jobs /\ h.attempt \in Nat
         /\ \A th \in threads : /\ th.job \in Jobs /\ th.worker \in Workers
                                /\ th.attempt \in Nat
         /\ \A j \in Jobs : jobs[j].attempts \in Nat
<1>1. Tokens \in [Jobs -> Nat] /\ Memory \in [Jobs -> Nat] /\ CpuCores \in Nat
  BY DEF SchedulerAssumption
<1>2. \A w \in Workers : /\ UsableMemory[w] \in Nat
                         /\ used[w].cpu \in Nat /\ used[w].memory \in Nat
                         /\ free[w].cpu \in Nat /\ free[w].memory \in Nat
  BY DEF SchedulerAssumption, TypeOK, Resources
<1>3. \A w \in Workers : \A h \in held[w] : h.job \in Jobs /\ h.attempt \in Nat
  BY DEF TypeOK, Claims
<1>4. \A th \in threads : /\ th.job \in Jobs /\ th.worker \in Workers
                          /\ th.attempt \in Nat
  BY DEF TypeOK, Threads
<1>5. \A j \in Jobs : jobs[j].attempts \in Nat
  BY DEF TypeOK, JobDocuments
<1>6. QED
  BY <1>1, <1>2, <1>3, <1>4, <1>5

LEMMA InitCapacityInv == SchedulerAssumption /\ Init => CapacityInv
<1> SUFFICES ASSUME SchedulerAssumption, Init
             PROVE  CapacityInv
  OBVIOUS
<1>1. /\ Total(Tokens, {}) = 0
      /\ Total(Memory, {}) = 0
  <2>1. Tokens \in [Jobs -> Nat] /\ Memory \in [Jobs -> Nat]
    BY DEF SchedulerAssumption
  <2>2. ASSUME NEW need \in [Jobs -> Nat]
        PROVE  Total(need, {}) = 0
    <3>1. IsFiniteSet({}) /\ Units(need, {}) = {}
      BY FS_EmptySet DEF Units
    <3>2. QED
      BY <3>1, TotalIsCount, FS_EmptySet
  <2>3. QED
    BY <2>1, <2>2
<1>2. /\ threads = {} /\ \A w \in Workers : ThreadsOf(w) = {}
      /\ \A w \in Workers : /\ held[w] = {} /\ wpc[w] = "poll"
                            /\ used[w].cpu = 0 /\ used[w].memory = 0
  BY DEF Init, ThreadsOf, NoResource
<1>3. IsFiniteSet(threads)
  BY <1>2, FS_EmptySet
<1>4. CpuCores \in Nat /\ \A w \in Workers : UsableMemory[w] \in Nat
  BY DEF SchedulerAssumption
<1>5. SnapshotsAreGood
  BY <1>2, <1>4 DEF SnapshotsAreGood
<1>6. ClaimsAreOld /\ ClaimsDiffer /\ HeldFits
  BY <1>2 DEF ClaimsAreOld, ClaimsDiffer, HeldFits
<1>7. ReservationsAdd
  BY <1>1, <1>2 DEF ReservationsAdd
<1>8. QED
  BY <1>3, <1>5, <1>6, <1>7 DEF CapacityInv

AttemptsGrow ==
  \A j \in Jobs : jobs'[j].attempts \in Nat /\ jobs[j].attempts <= jobs'[j].attempts

LEMMA NextAttempts ==
  ASSUME SchedulerAssumption, BoardInv, [Next]_vars
  PROVE  AttemptsGrow
<1>1. \A j \in Jobs : jobs[j].attempts \in Nat
  BY CapacityTypes DEF BoardInv
<1>2. JobsStep
  BY NextJobs
<1>3. \A j \in Jobs : \/ jobs'[j].attempts = jobs[j].attempts
                      \/ jobs'[j].attempts = jobs[j].attempts + 1
  BY <1>2 DEF JobsStep, OutsideStep, Keeps, Claimed, EndedWith, Requeued, GivenUp,
              Skipped, Refreshed, Becomes
<1>4. QED
  BY <1>1, <1>3 DEF AttemptsGrow

\* Places in the loop, and claims that are dropped.
LEMMA PlacesMove ==
  ASSUME SchedulerAssumption, TypeOK, CapacityInv, AttemptsGrow,
         UNCHANGED <<threads, used, free>>,
         \A w \in Workers :
           /\ Alive(w)' => Alive(w)
           /\ wpc'[w] \in {"ask", "take", "launch"} => wpc[w] \in {"ask", "take", "launch"}
           /\ held'[w] = {} \/ (held'[w] = held[w] /\ wpc'[w] = wpc[w])
  PROVE  CapacityInv'
<1> USE DEF CapacityInv
<1>1. ClaimsAreOld'
  <2>1. \A th \in threads : th.attempt <= jobs'[th.job].attempts
    BY CapacityTypes DEF ClaimsAreOld, AttemptsGrow
  <2>2. \A w \in Workers : \A h \in held'[w] : h.attempt <= jobs'[h.job].attempts
    BY CapacityTypes DEF ClaimsAreOld, AttemptsGrow
  <2>3. QED
    BY <2>1, <2>2 DEF ClaimsAreOld
<1>2. ClaimsDiffer'
  <2>1. \A w \in Workers : held'[w] \subseteq held[w]
    OBVIOUS
  <2>2. QED
    BY <2>1 DEF ClaimsDiffer
<1>3. SnapshotsAreGood' /\ HeldFits'
  BY DEF SnapshotsAreGood, HeldFits
<1>4. ReservationsAdd'
  BY DEF ReservationsAdd, ThreadsOf
<1>5. QED
  BY <1>1, <1>2, <1>3, <1>4

\* A thread goes on without giving back.
LEMMA ThreadMovesCapacity ==
  ASSUME SchedulerAssumption, TypeOK, CapacityInv, AttemptsGrow,
         NEW th \in threads, NEW place, GoesTo(th, place),
         UNCHANGED <<used, free, wpc, held>>
  PROVE  CapacityInv'
<1> USE DEF CapacityInv
<1> DEFINE moved == [th EXCEPT !.at = place]
<1>1. /\ moved.job = th.job /\ moved.attempt = th.attempt
      /\ moved.worker = th.worker
  BY DEF TypeOK, Threads
<1>2. threads' = (threads \ {th}) \cup {moved}
  BY DEF GoesTo
<1> HIDE DEF moved
<1>3. moved \notin threads \ {th}
  BY <1>1 DEF ClaimsDiffer
<1>4. IsFiniteSet(threads')
  BY <1>2, FS_RemoveElement, FS_AddElement
<1>5. ClaimsAreOld'
  BY <1>1, <1>2, CapacityTypes DEF ClaimsAreOld, AttemptsGrow
<1>6. ClaimsDiffer'
  BY <1>1, <1>2 DEF ClaimsDiffer
<1>7. SnapshotsAreGood' /\ HeldFits'
  BY DEF SnapshotsAreGood, HeldFits
<1>8. ASSUME NEW need \in [Jobs -> Nat], NEW w \in Workers
      PROVE  Total(need, ThreadsOf(w)') = Total(need, ThreadsOf(w))
  <2>1. CASE w # th.worker
    <3>1. ThreadsOf(w)' = ThreadsOf(w)
      BY <1>1, <1>2, <2>1 DEF ThreadsOf
    <3>2. QED
      BY <3>1
  <2>2. CASE w = th.worker
    <3> DEFINE T == ThreadsOf(w)
               r == T \ {th}
    <3>1. /\ th \in T /\ ThreadsOf(w)' = r \cup {moved} /\ moved \notin r
          /\ \A t \in T : t.job \in Jobs
      BY <1>1, <1>2, <1>3, <2>2, CapacityTypes DEF ThreadsOf
    <3>2. IsFiniteSet(T)
      BY FS_Subset DEF ThreadsOf
    <3>3. moved.job \in Jobs
      BY <1>1, CapacityTypes
    <3> HIDE DEF T
    <3>4. Total(need, T) = Total(need, r) + need[th.job]
      BY <3>1, <3>2, TotalRemove
    <3>5. IsFiniteSet(r) /\ \A t \in r : t.job \in Jobs
      BY <3>1, <3>2, FS_RemoveElement
    <3> HIDE DEF r
    <3>6. Total(need, r \cup {moved}) = Total(need, r) + need[moved.job]
      BY <3>1, <3>3, <3>5, TotalAdd
    <3>7. QED
      BY <1>1, <3>1, <3>4, <3>6 DEF T
  <2>3. QED
    BY <2>1, <2>2
<1>9. ReservationsAdd'
  <2> SUFFICES ASSUME NEW w \in Workers, Alive(w)'
               PROVE  /\ used'[w].cpu = Total(Tokens, ThreadsOf(w)')
                      /\ used'[w].memory = Total(Memory, ThreadsOf(w)')
    BY DEF ReservationsAdd
  <2>1. Alive(w)
    BY DEF Alive
  <2>2. /\ Total(Tokens, ThreadsOf(w)') = Total(Tokens, ThreadsOf(w))
        /\ Total(Memory, ThreadsOf(w)') = Total(Memory, ThreadsOf(w))
    BY <1>8, CapacityTypes
  <2>3. QED
    BY <2>1, <2>2 DEF ReservationsAdd
<1>10. QED
  BY <1>4, <1>5, <1>6, <1>7, <1>9

LEMMA SnapshotFits ==
  ASSUME SchedulerAssumption, NEW w \in Workers, NEW use \in Resources,
         use.cpu <= CpuCores, use.memory <= UsableMemory[w], NEW s \in Snapshot(w, use)
  PROVE  use.cpu + s.cpu <= CpuCores /\ use.memory + s.memory <= UsableMemory[w]
<1>1. /\ CpuCores \in Nat /\ UsableMemory[w] \in Nat
      /\ use.cpu \in Nat /\ use.memory \in Nat
  BY DEF SchedulerAssumption, Resources
<1>2. /\ use.cpu + Rest(CpuCores, use.cpu) <= CpuCores
      /\ use.memory + Rest(UsableMemory[w], use.memory) <= UsableMemory[w]
      /\ Rest(UsableMemory[w], use.memory) \in Nat
  BY <1>1 DEF Rest
<1>3. /\ s.cpu = Rest(CpuCores, use.cpu)
      /\ s.memory \in 0 .. Rest(UsableMemory[w], use.memory)
  BY <1>2 DEF Snapshot
<1>4. QED
  BY <1>1, <1>2, <1>3

LEMMA PollCapacity ==
  ASSUME SchedulerAssumption, TypeOK, CapacityInv, AttemptsGrow,
         NEW w \in Workers, Poll(w)
  PROVE  CapacityInv'
<1> USE DEF CapacityInv
<1>1. /\ wpc[w] = "poll" /\ UNCHANGED <<jobs, threads, held, used>>
      /\ \A v \in Workers \ {w} : wpc'[v] = wpc[v] /\ free'[v] = free[v]
  BY DEF Poll, TypeOK
<1>2. PICK s \in Snapshot(w, used[w]) : free' = [free EXCEPT ![w] = s]
  BY DEF Poll
<1>3. free'[w] = s /\ used[w] \in Resources
  BY <1>2 DEF TypeOK
<1>4. /\ used[w].cpu + free'[w].cpu <= CpuCores
      /\ used[w].memory + free'[w].memory <= UsableMemory[w]
  BY <1>3, SnapshotFits DEF SnapshotsAreGood
<1>5. SnapshotsAreGood'
  BY <1>1, <1>4 DEF SnapshotsAreGood
<1>6. held[w] = {}
  BY <1>1 DEF HeldFits
<1>7. HeldFits'
  BY <1>1, <1>6 DEF HeldFits
<1>8. ClaimsAreOld' /\ ClaimsDiffer'
  BY <1>1 DEF ClaimsAreOld, ClaimsDiffer
<1>9. ReservationsAdd'
  BY <1>1 DEF ReservationsAdd, ThreadsOf, Alive
<1>10. QED
  BY <1>1, <1>5, <1>7, <1>8, <1>9

LEMMA TakeCapacity ==
  ASSUME SchedulerAssumption, TypeOK, CapacityInv, AttemptsGrow,
         NEW w \in Workers, Take(w)
  PROVE  CapacityInv'
<1> USE DEF CapacityInv
<1>1. PICK j \in Jobs :
        /\ Fits(j, free[w])
        /\ jobs' = [jobs EXCEPT ![j].state = "running", ![j].owner = w,
                                ![j].lapsed = FALSE, ![j].attempts = @ + 1]
        /\ held' = [held EXCEPT ![w] = {[job |-> j,
                                         attempt |-> jobs[j].attempts + 1]}]
  BY DEF Take
<1> DEFINE claim == [job |-> j, attempt |-> jobs[j].attempts + 1]
<1>2. /\ held'[w] = {claim} /\ claim.job = j /\ claim.attempt = jobs[j].attempts + 1
      /\ \A v \in Workers \ {w} : held'[v] = held[v] /\ wpc'[v] = wpc[v]
      /\ wpc[w] = "take" /\ wpc'[w] = "launch"
      /\ UNCHANGED <<threads, used, free>>
  BY <1>1 DEF Take, TypeOK
<1>3. jobs'[j].attempts = jobs[j].attempts + 1
  BY <1>1 DEF TypeOK, JobDocuments
<1> HIDE DEF claim
<1>4. ClaimsAreOld'
  <2>1. \A th \in threads : th.attempt <= jobs'[th.job].attempts
    BY CapacityTypes DEF ClaimsAreOld, AttemptsGrow
  <2>2. \A v \in Workers \ {w} : \A h \in held[v] : h.attempt <= jobs'[h.job].attempts
    BY CapacityTypes DEF ClaimsAreOld, AttemptsGrow
  <2>3. claim.attempt <= jobs'[claim.job].attempts
    BY <1>2, <1>3, CapacityTypes
  <2>4. QED
    BY <1>2, <2>1, <2>2, <2>3 DEF ClaimsAreOld
<1>5. ClaimsDiffer'
  <2>1. \A th \in threads : th.job = j => th.attempt # claim.attempt
    BY <1>2, CapacityTypes DEF ClaimsAreOld
  <2>2. \A v \in Workers : \A h \in held[v] : h.job = j => h.attempt # claim.attempt
    BY <1>2, CapacityTypes DEF ClaimsAreOld
  <2>3. QED
    BY <1>2, <2>1, <2>2 DEF ClaimsDiffer
<1>6. SnapshotsAreGood'
  BY <1>2 DEF SnapshotsAreGood
<1>7. HeldFits'
  BY <1>1, <1>2 DEF HeldFits, Fits
<1>8. ReservationsAdd'
  BY <1>2 DEF ReservationsAdd, ThreadsOf, Alive
<1>9. QED
  BY <1>2, <1>4, <1>5, <1>6, <1>7, <1>8

LEMMA LaunchCapacity ==
  ASSUME SchedulerAssumption, TypeOK, CapacityInv, AttemptsGrow,
         NEW w \in Workers, Launch(w)
  PROVE  CapacityInv'
<1> USE DEF CapacityInv
<1> DEFINE use(h) == [cpu |-> used[w].cpu + Tokens[h.job],
                      memory |-> used[w].memory + Memory[h.job]]
           new(h) == [job |-> h.job, attempt |-> h.attempt, worker |-> w, at |-> "run"]
<1>1. PICK h \in held[w] :
        /\ used' = [used EXCEPT ![w] = use(h)]
        /\ threads' = threads \cup {new(h)}
        /\ \E s \in Snapshot(w, use(h)) : free' = [free EXCEPT ![w] = s]
  BY DEF Launch
<1>2. PICK s \in Snapshot(w, use(h)) : free' = [free EXCEPT ![w] = s]
  BY <1>1
<1>3. PICK u : u = use(h)
  OBVIOUS
<1>4. PICK x : x = new(h)
  OBVIOUS
<1>5. /\ u.cpu = used[w].cpu + Tokens[h.job]
      /\ u.memory = used[w].memory + Memory[h.job]
      /\ x.job = h.job /\ x.attempt = h.attempt /\ x.worker = w
  BY <1>3, <1>4
<1>6. /\ used'[w] = u /\ free'[w] = s /\ threads' = threads \cup {x}
      /\ \A v \in Workers \ {w} : used'[v] = used[v] /\ free'[v] = free[v]
  BY <1>1, <1>2, <1>3, <1>4 DEF TypeOK
<1>7. /\ wpc[w] = "launch" /\ held'[w] = {} /\ UNCHANGED jobs
      /\ \A v \in Workers \ {w} : held'[v] = held[v] /\ wpc'[v] = wpc[v]
  BY DEF Launch, TypeOK, database
<1>8. u \in Resources
  <2>1. u.cpu \in Nat /\ u.memory \in Nat /\ u = [cpu |-> u.cpu, memory |-> u.memory]
    BY <1>3, <1>5, CapacityTypes
  <2>2. QED
    BY <2>1 DEF Resources
<1>9. u.cpu <= CpuCores /\ u.memory <= UsableMemory[w]
  <2>1. /\ used[w].cpu + free[w].cpu <= CpuCores
        /\ used[w].memory + free[w].memory <= UsableMemory[w]
        /\ Tokens[h.job] <= free[w].cpu /\ Memory[h.job] <= free[w].memory
    BY <1>7 DEF SnapshotsAreGood, HeldFits
  <2>2. /\ used[w].cpu \in Nat /\ used[w].memory \in Nat /\ free[w].cpu \in Nat
        /\ free[w].memory \in Nat /\ Tokens[h.job] \in Nat /\ Memory[h.job] \in Nat
        /\ CpuCores \in Nat /\ UsableMemory[w] \in Nat
    BY CapacityTypes
  <2>3. QED
    BY <1>5, <2>1, <2>2
<1>10. s \in Snapshot(w, u)
  BY <1>2, <1>3
<1> HIDE DEF use, new
<1>11. /\ u.cpu + s.cpu <= CpuCores
       /\ u.memory + s.memory <= UsableMemory[w]
  BY <1>8, <1>9, <1>10, SnapshotFits
<1>12. SnapshotsAreGood'
  BY <1>6, <1>7, <1>9, <1>11 DEF SnapshotsAreGood
<1>13. HeldFits'
  BY <1>6, <1>7 DEF HeldFits
<1>14. ClaimsAreOld'
  BY <1>5, <1>6, <1>7 DEF ClaimsAreOld
<1>15. ClaimsDiffer'
  <2>1. \A th \in threads : th.job = x.job => th.attempt # x.attempt
    BY <1>5 DEF ClaimsDiffer
  <2>2. \A v \in Workers \ {w} : \A g \in held[v] : g.job = x.job => g.attempt # x.attempt
    BY <1>5 DEF ClaimsDiffer
  <2>3. QED
    BY <1>6, <1>7, <2>1, <2>2 DEF ClaimsDiffer
<1>16. IsFiniteSet(threads')
  BY <1>6, FS_AddElement
<1>17. ASSUME NEW need \in [Jobs -> Nat]
       PROVE  Total(need, ThreadsOf(w)') = Total(need, ThreadsOf(w)) + need[h.job]
  <2> DEFINE T == ThreadsOf(w)
  <2>1. ThreadsOf(w)' = T \cup {x} /\ x \notin T /\ \A t \in T : t.job \in Jobs
    BY <1>5, <1>6, CapacityTypes DEF ThreadsOf, ClaimsDiffer
  <2>2. IsFiniteSet(T) /\ x.job \in Jobs
    BY <1>5, FS_Subset, CapacityTypes DEF ThreadsOf
  <2> HIDE DEF T
  <2>3. Total(need, T \cup {x}) = Total(need, T) + need[x.job]
    BY <2>1, <2>2, TotalAdd
  <2>4. QED
    BY <1>5, <2>1, <2>3 DEF T
<1>18. ReservationsAdd'
  <2>1. Alive(w)
    BY <1>7 DEF Alive
  <2>2. /\ used'[w].cpu = Total(Tokens, ThreadsOf(w)')
        /\ used'[w].memory = Total(Memory, ThreadsOf(w)')
    BY <1>5, <1>6, <1>17, <2>1, CapacityTypes DEF ReservationsAdd
  <2>3. ASSUME NEW v \in Workers \ {w}, Alive(v)'
        PROVE  /\ used'[v].cpu = Total(Tokens, ThreadsOf(v)')
               /\ used'[v].memory = Total(Memory, ThreadsOf(v)')
    <3>1. Alive(v) /\ ThreadsOf(v)' = ThreadsOf(v)
      BY <1>5, <1>6, <1>7, <2>3 DEF Alive, ThreadsOf
    <3>2. QED
      BY <1>6, <3>1 DEF ReservationsAdd
  <2>4. QED
    BY <2>2, <2>3 DEF ReservationsAdd
<1>19. QED
  BY <1>12, <1>13, <1>14, <1>15, <1>16, <1>18

LEMMA WorkCapacity ==
  ASSUME SchedulerAssumption, TypeOK, CapacityInv, AttemptsGrow,
         NEW w \in Workers, Work(w) \/ LoopRaises(w)
  PROVE  CapacityInv'
<1>1. CASE AskRun(w) \/ TakeNothing(w) \/ Check(w) \/ Leave(w) \/ LoopRaises(w)
  <2>1. UNCHANGED <<threads, used, free>>
    BY <1>1 DEF AskRun, TakeNothing, Check, Leave, LoopRaises
  <2>2. \A v \in Workers \ {w} : held'[v] = held[v] /\ wpc'[v] = wpc[v]
    BY <1>1 DEF AskRun, TakeNothing, Check, Leave, LoopRaises, TypeOK
  <2>3. wpc[w] # "launch" => held[w] = {}
    BY DEF CapacityInv, HeldFits
  <2>4. /\ Alive(w)
        /\ wpc'[w] \in {"ask", "take", "launch"}
             => wpc[w] \in {"ask", "take", "launch"}
        /\ held'[w] = {}
    BY <1>1, <2>3
       DEF AskRun, TakeNothing, Check, Leave, LoopRaises, TypeOK, Alive
  <2>5. \A v \in Workers :
          /\ Alive(v)' => Alive(v)
          /\ wpc'[v] \in {"ask", "take", "launch"}
               => wpc[v] \in {"ask", "take", "launch"}
          /\ held'[v] = {} \/ (held'[v] = held[v] /\ wpc'[v] = wpc[v])
    BY <2>2, <2>4 DEF Alive
  <2>6. QED
    BY <2>1, <2>5, PlacesMove
<1>2. QED
  BY <1>1, PollCapacity, TakeCapacity, LaunchCapacity DEF Work

\* The snapshot is not taken again, and may only be too low.
LEMMA ReleaseCapacity ==
  ASSUME SchedulerAssumption, TypeOK, CapacityInv, AttemptsGrow,
         NEW th \in threads, Release(th)
  PROVE  CapacityInv'
<1> USE DEF CapacityInv
<1>1. PICK w \in Workers : w = th.worker
  BY CapacityTypes
<1>2. /\ threads' = threads \ {th} /\ UNCHANGED <<jobs, wpc, free, held>>
      /\ used' = [used EXCEPT
                    ![w] = [cpu |-> Rest(@.cpu, Tokens[th.job]),
                            memory |-> Rest(@.memory, Memory[th.job])]]
  BY <1>1 DEF Release, database
<1>3. /\ used'[w].cpu = Rest(used[w].cpu, Tokens[th.job])
      /\ used'[w].memory = Rest(used[w].memory, Memory[th.job])
      /\ \A v \in Workers \ {w} : used'[v] = used[v]
  BY <1>2 DEF TypeOK
<1>4. /\ used[w].cpu \in Nat /\ used[w].memory \in Nat
      /\ Tokens[th.job] \in Nat /\ Memory[th.job] \in Nat
      /\ free[w].cpu \in Nat /\ free[w].memory \in Nat
      /\ CpuCores \in Nat /\ UsableMemory[w] \in Nat
  BY CapacityTypes
<1>5. /\ used'[w].cpu \in Nat /\ used'[w].cpu <= used[w].cpu
      /\ used'[w].memory \in Nat /\ used'[w].memory <= used[w].memory
  BY <1>3, <1>4 DEF Rest
<1>6. SnapshotsAreGood'
  BY <1>2, <1>3, <1>4, <1>5 DEF SnapshotsAreGood
<1>7. HeldFits'
  BY <1>2 DEF HeldFits
<1>8. ClaimsAreOld' /\ ClaimsDiffer'
  BY <1>2 DEF ClaimsAreOld, ClaimsDiffer
<1>9. IsFiniteSet(threads')
  BY <1>2, FS_RemoveElement
<1>10. ASSUME NEW need \in [Jobs -> Nat], NEW total \in Nat,
              total = Total(need, ThreadsOf(w))
       PROVE  Total(need, ThreadsOf(w)') = Rest(total, need[th.job])
  <2> DEFINE T == ThreadsOf(w)
  <2>1. th \in T /\ ThreadsOf(w)' = T \ {th} /\ \A t \in T : t.job \in Jobs
    BY <1>1, <1>2, CapacityTypes DEF ThreadsOf
  <2>2. IsFiniteSet(T)
    BY FS_Subset DEF ThreadsOf
  <2> HIDE DEF T
  <2>3. Total(need, T \ {th}) \in Nat /\ Total(need, T) = Total(need, T \ {th}) + need[th.job]
    BY <2>1, <2>2, TotalRemove
  <2>4. need[th.job] \in Nat
    BY <2>1
  <2>5. total = Total(need, T)
    BY <1>10 DEF T
  <2>6. Total(need, T \ {th}) = Rest(total, need[th.job])
    BY <2>3, <2>4, <2>5 DEF Rest
  <2>7. QED
    BY <2>1, <2>6
<1>11. ReservationsAdd'
  <2> SUFFICES ASSUME NEW v \in Workers, Alive(v)'
               PROVE  /\ used'[v].cpu = Total(Tokens, ThreadsOf(v)')
                      /\ used'[v].memory = Total(Memory, ThreadsOf(v)')
    BY DEF ReservationsAdd
  <2>1. /\ used[v].cpu = Total(Tokens, ThreadsOf(v))
        /\ used[v].memory = Total(Memory, ThreadsOf(v))
    BY <1>2 DEF ReservationsAdd, Alive
  <2>2. CASE v = w
    BY <1>3, <1>4, <1>10, <2>1, <2>2, CapacityTypes
  <2>3. CASE v # w
    <3>1. ThreadsOf(v)' = ThreadsOf(v)
      BY <1>1, <1>2, <2>3 DEF ThreadsOf
    <3>2. QED
      BY <1>3, <2>1, <2>3, <3>1
  <2>4. QED
    BY <2>2, <2>3
<1>12. QED
  BY <1>6, <1>7, <1>8, <1>9, <1>11

LEMMA ThreadCapacity ==
  ASSUME SchedulerAssumption, TypeOK, CapacityInv, AttemptsGrow,
         NEW th \in threads, ThreadStep(th)
  PROVE  CapacityInv'
<1>1. CASE Release(th)
  BY <1>1, ReleaseCapacity
<1>2. CASE ~Release(th)
  <2>1. \E place : GoesTo(th, place)
    BY <1>2 DEF ThreadStep, Report, ReportRaises, Recover, RecoverRaises, Rewrite
  <2>2. UNCHANGED <<used, free, wpc, held>>
    BY <1>2 DEF ThreadStep, Report, ReportRaises, Recover, RecoverRaises, Rewrite
  <2>3. QED
    BY <2>1, <2>2, ThreadMovesCapacity
<1>3. QED
  BY <1>1, <1>2

\* Steps that leave the workers alone.
LEMMA QuietCapacity ==
  ASSUME SchedulerAssumption, TypeOK, CapacityInv, AttemptsGrow,
         UNCHANGED <<threads, used, free, wpc, held>>
  PROVE  CapacityInv'
<1>1. \A w \in Workers :
        /\ Alive(w)' => Alive(w)
        /\ wpc'[w] \in {"ask", "take", "launch"} => wpc[w] \in {"ask", "take", "launch"}
        /\ held'[w] = {} \/ (held'[w] = held[w] /\ wpc'[w] = wpc[w])
  BY DEF Alive
<1>2. QED
  BY <1>1, PlacesMove

\* At most one thread waits for a child.
LEMMA ChildCapacity ==
  ASSUME SchedulerAssumption, TypeOK, CapacityInv, AttemptsGrow,
         NEW c \in children, ChildStep(c)
  PROVE  CapacityInv'
<1>1. UNCHANGED <<used, free, wpc, held>>
  BY DEF ChildStep, ChildRecords, ChildExits, ChildDies, StartFails, Exits, workerVars
<1>2. CASE ChildRecords(c)
  BY <1>1, <1>2, QuietCapacity DEF ChildRecords, workerVars
<1>3. ASSUME NEW outcome, Exits(c, outcome)
      PROVE  CapacityInv'
  <2>1. \A t, u \in Waiting(c) : t = u
    BY DEF Waiting, CapacityInv, ClaimsDiffer
  <2>2. CASE Waiting(c) = {}
    <3>1. threads' = threads
      BY <1>3, <2>2 DEF Exits
    <3>2. QED
      BY <1>1, <3>1, QuietCapacity
  <2>3. ASSUME NEW th \in Waiting(c)
        PROVE  CapacityInv'
    <3>1. Waiting(c) = {th} /\ th \in threads
      BY <2>1 DEF Waiting
    <3>2. GoesTo(th, outcome)
      BY <1>3, <3>1 DEF Exits, GoesTo
    <3>3. QED
      BY <1>1, <3>1, <3>2, ThreadMovesCapacity
  <2>4. QED
    BY <2>2, <2>3
<1>4. QED
  BY <1>2, <1>3 DEF ChildStep, ChildExits, ChildDies, StartFails

\* A worker that dies takes its threads along; nobody counts on it any more.
LEMMA CrashCapacity ==
  ASSUME SchedulerAssumption, TypeOK, CapacityInv, AttemptsGrow,
         NEW w \in Workers, Crash(w)
  PROVE  CapacityInv'
<1> USE DEF CapacityInv
<1>1. /\ UNCHANGED <<jobs, used, free>> /\ threads' = threads \ ThreadsOf(w)
      /\ held'[w] = {} /\ wpc'[w] = "crashed"
      /\ \A v \in Workers \ {w} : held'[v] = held[v] /\ wpc'[v] = wpc[v]
  BY DEF Crash, TypeOK, database
<1>2. IsFiniteSet(threads')
  BY <1>1, FS_Subset
<1>3. ClaimsAreOld' /\ ClaimsDiffer'
  BY <1>1 DEF ClaimsAreOld, ClaimsDiffer
<1>4. SnapshotsAreGood' /\ HeldFits'
  BY <1>1 DEF SnapshotsAreGood, HeldFits
<1>5. ReservationsAdd'
  <2> SUFFICES ASSUME NEW v \in Workers, Alive(v)'
               PROVE  /\ used'[v].cpu = Total(Tokens, ThreadsOf(v)')
                      /\ used'[v].memory = Total(Memory, ThreadsOf(v)')
    BY DEF ReservationsAdd
  <2>1. v # w /\ Alive(v)
    BY <1>1 DEF Alive
  <2>2. ThreadsOf(v)' = ThreadsOf(v)
    BY <1>1, <2>1 DEF ThreadsOf
  <2>3. QED
    BY <1>1, <2>1, <2>2 DEF ReservationsAdd
<1>6. QED
  BY <1>2, <1>3, <1>4, <1>5

LEMMA NextCapacityInv ==
  ASSUME SchedulerAssumption, BoardInv, CapacityInv, [Next]_vars
  PROVE  CapacityInv'
<1>1. TypeOK /\ AttemptsGrow
  BY NextAttempts DEF BoardInv
<1>2. CASE Outside
  <2>1. ASSUME \/ \E w \in Workers : HeartbeatAges(w)
               \/ \E th \in threads : RenewLease(th)
               \/ \E j \in Jobs : LeaseLapses(j)
        PROVE  UNCHANGED <<threads, used, free, wpc, held>>
    BY <2>1 DEF HeartbeatAges, RenewLease, LeaseLapses, workerVars
  <2>2. QED
    BY <1>1, <1>2, <2>1, WorkCapacity, CrashCapacity, ThreadCapacity, ChildCapacity,
       QuietCapacity DEF Outside
<1>3. ASSUME Coordinate \/ Interrupt \/ CoordinatorCrash \/ UNCHANGED vars
      PROVE  UNCHANGED <<threads, used, free, wpc, held>>
  BY <1>3 DEF Coordinate, FindExpired, ExpireLease, MarkSkipped, MarkMemoryUnfit,
              GivesUp, WriteFailure, FindSkips, CheckWorkers, FindUnfit,
              RefreshReady, CompleteRun, Interrupt, CoordinatorCrash, workerVars,
              vars
<1>4. QED
  BY <1>1, <1>2, <1>3, NextCases, QuietCapacity

\* CapacityKept holds under any faults: what a living worker has reserved is the
\* sum over its threads, and fits its processors and its memory.
THEOREM ReservationsFit == Spec => []CapacityKept
<1>1. Init => CapacityInv
  BY InitCapacityInv, SchedulerAssumption
<1>2. BoardInv /\ CapacityInv /\ [Next]_vars => CapacityInv'
  BY NextCapacityInv, SchedulerAssumption
<1>3. CapacityInv => CapacityKept
  BY DEF CapacityInv, CapacityKept, ReservationsAdd, SnapshotsAreGood, Total
<1>4. QED
  BY <1>1, <1>2, <1>3, BoardInvariance, PTL DEF Spec
-------------------------------------------------------------------------------
(* Leases: work is done under the lease it was claimed with (WorkIsLeased), as long *)
(* as processes only die with their hosts.                                         *)

Calm == {"stall", "orphan", "loop_error"} \cap Faults = {}

\* Process w executes attempt n of job j under its own lease.
Leased(j, n, w) == /\ jobs[j].state = "running"
                   /\ jobs[j].owner = w
                   /\ jobs[j].attempts = n

\* A thread that may still report.
Open(th) == th.at \notin {"rewrite", "release"}

HeldIsLeased ==
  \A w \in Workers : \A h \in held[w] : Leased(h.job, h.attempt, w)

ThreadsAreLeased ==
  \A th \in threads :
    /\ Open(th) => \/ Leased(th.job, th.attempt, th.worker)
                   \/ th.at = "recover" /\ jobs[th.job].state \in Terminal
    /\ th.at = "rewrite" => jobs[th.job].state \in Terminal

\* Some thread waits for child c.
Awaited(c) == \E th \in threads : /\ th.job = c.job
                                  /\ th.attempt = c.attempt
                                  /\ th.worker = c.worker
                                  /\ th.at = "run"

ChildrenAreLeased ==
  \A c \in children : /\ Leased(c.job, c.attempt, c.worker)
                      /\ CoordinatorIsGone \/ Awaited(c)

\* One place per job: claimed, or one thread with at most one child.
OneThread == \A t, u \in threads : Open(t) /\ Open(u) /\ t.job = u.job => t = u

OneChild ==
  /\ \A c, d \in children : c.job = d.job => c = d
  /\ \A c \in children, th \in threads :
       Open(th) /\ th.job = c.job => th.at = "run"

HeldIsAlone ==
  \A w \in Workers : \A h \in held[w] :
    /\ \A th \in threads : Open(th) => th.job # h.job
    /\ \A c \in children : c.job # h.job

\* A lease runs out only when nobody is left who renews it.
Abandoned(j) ==
  /\ \A w \in Workers : \A h \in held[w] : h.job # j
  /\ \A th \in threads : Open(th) => th.job # j
  /\ \A c \in children : c.job = j => CoordinatorIsGone

LapsedIsAbandoned ==
  \A j \in Jobs : jobs[j].state = "running" /\ jobs[j].lapsed => Abandoned(j)

CopiesAreLapsed ==
  cpc = "expire" =>
    \A d \in agenda :
      jobs[d.job].state = "running" /\ jobs[d.job].owner = d.owner
        => jobs[d.job].lapsed

\* No main loop has been cut short, so every living thread renews its lease.
NobodyRaised == \A w \in Workers : wpc[w] # "raised"

LeaseInv ==
  /\ HeldIsLeased
  /\ ThreadsAreLeased
  /\ ChildrenAreLeased
  /\ OneThread
  /\ OneChild
  /\ HeldIsAlone
  /\ LapsedIsAbandoned
  /\ CopiesAreLapsed

LEMMA InitLeaseInv == Init => LeaseInv
BY DEF Init, LeaseInv, HeldIsLeased, ThreadsAreLeased, ChildrenAreLeased, OneThread,
       OneChild, HeldIsAlone, LapsedIsAbandoned, CopiesAreLapsed

LEMMA Typed ==
  ASSUME TypeOK
  PROVE  /\ jobs \in [Jobs -> JobDocuments]
         /\ held \in [Workers -> SUBSET Claims]
         /\ threads \subseteq Threads
         /\ children \subseteq Children
         /\ \A w \in Workers : \A h \in held[w] : h.job \in Jobs
         /\ \A th \in threads : th.job \in Jobs /\ th.worker \in Workers
         /\ \A c \in children : c.job \in Jobs /\ c.worker \in Workers
         /\ \A d \in agenda : d.job \in Jobs
BY DEF TypeOK, Claims, Threads, Children, Copies

-------------------------------------------------------------------------------
(* Steps that leave claims, threads and children alone. *)

\* A step of the coordinator's place only.
LEMMA QuietStep ==
  ASSUME LeaseInv,
         UNCHANGED <<jobs, held, threads, children>>,
         CoordinatorIsGone => CoordinatorIsGone',
         cpc' = "expire" => cpc = "expire" /\ agenda' \subseteq agenda
  PROVE  LeaseInv'
<1> USE DEF LeaseInv, Leased
<1>1. HeldIsLeased' /\ ThreadsAreLeased'
  BY DEF HeldIsLeased, ThreadsAreLeased, Open
<1>2. ChildrenAreLeased'
  BY DEF CoordinatorIsGone, ChildrenAreLeased, Awaited
<1>3. OneThread' /\ OneChild' /\ HeldIsAlone'
  BY DEF OneThread, OneChild, HeldIsAlone, Open
<1>4. LapsedIsAbandoned'
  BY DEF CoordinatorIsGone, LapsedIsAbandoned, Abandoned, Open
<1>5. CopiesAreLapsed'
  BY DEF CopiesAreLapsed
<1>6. QED
  BY <1>1, <1>2, <1>3, <1>4, <1>5

\* A job nobody executes leaves "running" or "pending".
LEMMA IdleJobMoves ==
  ASSUME TypeOK, LeaseInv, NEW j \in Jobs,
         UNCHANGED <<held, threads, children, cpc>>, agenda' \subseteq agenda,
         \A i \in Jobs \ {j} : jobs'[i] = jobs[i],
         jobs[j].state \notin Terminal, jobs'[j].state # "running",
         \A w \in Workers : \A h \in held[w] : h.job # j,
         \A th \in threads : Open(th) => th.job # j,
         \A c \in children : c.job # j
  PROVE  LeaseInv'
<1> USE Typed DEF LeaseInv, Leased
<1>1. HeldIsLeased'
  BY DEF HeldIsLeased
<1>2. ThreadsAreLeased'
  BY DEF ThreadsAreLeased, Open
<1>3. ChildrenAreLeased'
  BY DEF CoordinatorIsGone, ChildrenAreLeased, Awaited
<1>4. OneThread' /\ OneChild' /\ HeldIsAlone'
  BY DEF OneThread, OneChild, HeldIsAlone, Open
<1>5. LapsedIsAbandoned'
  BY DEF CoordinatorIsGone, LapsedIsAbandoned, Abandoned, Open
<1>6. CopiesAreLapsed'
  BY DEF CopiesAreLapsed
<1>7. QED
  BY <1>1, <1>2, <1>3, <1>4, <1>5, <1>6

\* ready and the lapsed flag of an abandoned job may change.
LEMMA FlagsChange ==
  ASSUME TypeOK, LeaseInv,
         UNCHANGED <<held, threads, children, agenda>>,
         cpc' # "expire" \/ cpc' = cpc,
         CoordinatorIsGone => CoordinatorIsGone',
         \A i \in Jobs : /\ jobs'[i].state = jobs[i].state
                         /\ jobs'[i].owner = jobs[i].owner
                         /\ jobs'[i].attempts = jobs[i].attempts
                         /\ \/ jobs'[i].lapsed <=> jobs[i].lapsed
                            \/ jobs'[i].lapsed /\ Abandoned(i)
  PROVE  LeaseInv'
<1> USE Typed DEF LeaseInv, Leased
<1>1. HeldIsLeased'
  BY DEF HeldIsLeased
<1>2. ThreadsAreLeased'
  BY DEF ThreadsAreLeased, Open
<1>3. ChildrenAreLeased'
  BY DEF CoordinatorIsGone, ChildrenAreLeased, Awaited
<1>4. OneThread' /\ OneChild' /\ HeldIsAlone'
  BY DEF OneThread, OneChild, HeldIsAlone, Open
<1>5. LapsedIsAbandoned'
  BY DEF CoordinatorIsGone, LapsedIsAbandoned, Abandoned, Open
<1>6. CopiesAreLapsed'
  BY DEF CopiesAreLapsed
<1>7. QED
  BY <1>1, <1>2, <1>3, <1>4, <1>5, <1>6

-------------------------------------------------------------------------------
(* Workers. *)

\* A pending job is in nobody's hands.
LEMMA PendingIsIdle ==
  ASSUME TypeOK, LeaseInv, NEW j \in Jobs, jobs[j].state = "pending"
  PROVE  /\ \A w \in Workers : \A h \in held[w] : h.job # j
         /\ \A th \in threads : Open(th) => th.job # j
         /\ \A c \in children : c.job # j
BY DEF LeaseInv, HeldIsLeased, ThreadsAreLeased, ChildrenAreLeased, Leased, Terminal

LEMMA TakeLease ==
  ASSUME BoardInv, LeaseInv, NEW w \in Workers, Take(w)
  PROVE  LeaseInv'
<1> USE DEF LeaseInv, Leased
<1>0. TypeOK
  BY DEF BoardInv
<1>1. PICK j \in Jobs :
        /\ Fits(j, free[w])
        /\ jobs' = [jobs EXCEPT ![j].state = "running", ![j].owner = w,
                                ![j].lapsed = FALSE, ![j].attempts = @ + 1]
        /\ held' = [held EXCEPT ![w] = {[job |-> j,
                                         attempt |-> jobs[j].attempts + 1]}]
  BY DEF Take
<1>2. /\ jobs[j].state = "pending"
      /\ jobs'[j].state = "running"
      /\ jobs'[j].owner = w
      /\ jobs'[j].attempts = jobs[j].attempts + 1
      /\ ~jobs'[j].lapsed
      /\ \A i \in Jobs \ {j} : jobs'[i] = jobs[i]
  BY <1>0, <1>1, Typed DEF Fits, JobDocuments
<1>3. /\ held'[w] = {[job |-> j, attempt |-> jobs[j].attempts + 1]}
      /\ \A v \in Workers \ {w} : held'[v] = held[v]
  BY <1>0, <1>1, Typed
<1>4. /\ \A v \in Workers : \A h \in held[v] : h.job # j
      /\ \A th \in threads : Open(th) => th.job # j
      /\ \A c \in children : c.job # j
  BY <1>0, <1>2, PendingIsIdle
<1>5. UNCHANGED <<threads, children, cpc, agenda>>
  BY DEF Take, coordinator
<1>6. HeldIsLeased'
  BY <1>0, <1>2, <1>3, <1>4, Typed DEF HeldIsLeased
<1>7. ThreadsAreLeased'
  BY <1>0, <1>2, <1>4, <1>5, Typed DEF ThreadsAreLeased, Open, Terminal
<1>8. ChildrenAreLeased'
  BY <1>0, <1>2, <1>4, <1>5, Typed DEF CoordinatorIsGone, ChildrenAreLeased, Awaited
<1>9. OneThread' /\ OneChild'
  BY <1>5 DEF OneThread, OneChild, Open
<1>10. HeldIsAlone'
  BY <1>3, <1>4, <1>5 DEF HeldIsAlone, Open
<1>11. LapsedIsAbandoned'
  <2> SUFFICES ASSUME NEW i \in Jobs, jobs'[i].state = "running", jobs'[i].lapsed
               PROVE  Abandoned(i)'
    BY DEF LapsedIsAbandoned
  <2>1. i # j /\ Abandoned(i)
    BY <1>2 DEF LapsedIsAbandoned
  <2>2. QED
    BY <1>3, <1>5, <2>1 DEF CoordinatorIsGone, Abandoned, Open
<1>12. CopiesAreLapsed'
  <2>1. cpc = "expire" => \A d \in agenda : d.job # j
    BY <1>2 DEF BoardInv, CopiesAreCurrent
  <2>2. QED
    BY <1>0, <1>2, <1>5, <2>1, Typed DEF CopiesAreLapsed
<1>13. QED
  BY <1>6, <1>7, <1>8, <1>9, <1>10, <1>11, <1>12

LEMMA LaunchLease ==
  ASSUME TypeOK, LeaseInv, NEW w \in Workers, Launch(w)
  PROVE  LeaseInv'
<1> USE DEF LeaseInv, Leased
<1>1. PICK h \in held[w] :
        /\ threads' = threads \cup {[job |-> h.job, attempt |-> h.attempt,
                                     worker |-> w, at |-> "run"]}
        /\ children' = children \cup {[job |-> h.job, attempt |-> h.attempt,
                                       worker |-> w, at |-> "busy"]}
  BY DEF Launch
<1> DEFINE new == [job |-> h.job, attempt |-> h.attempt, worker |-> w, at |-> "run"]
           child == [job |-> h.job, attempt |-> h.attempt, worker |-> w,
                     at |-> "busy"]
<1>2. /\ threads' = threads \cup {new}
      /\ new.job = h.job /\ new.attempt = h.attempt /\ new.worker = w
      /\ new.at = "run"
  BY <1>1
<1>3. /\ children' = children \cup {child}
      /\ child.job = h.job /\ child.attempt = h.attempt /\ child.worker = w
  BY <1>1
<1> HIDE DEF new, child
<1>4. /\ held'[w] = {}
      /\ \A v \in Workers \ {w} : held'[v] = held[v]
      /\ UNCHANGED <<jobs, cpc, agenda>>
  BY Typed DEF Launch, database, coordinator
<1>5. /\ Leased(h.job, h.attempt, w)
      /\ \A th \in threads : Open(th) => th.job # h.job
      /\ \A c \in children : c.job # h.job
      /\ \A v \in Workers \ {w} : \A g \in held[v] : g.job # h.job
  BY DEF HeldIsLeased, HeldIsAlone
<1>6. HeldIsLeased'
  BY <1>4 DEF HeldIsLeased
<1>7. ThreadsAreLeased'
  BY <1>2, <1>4, <1>5 DEF ThreadsAreLeased, Open
<1>8. ChildrenAreLeased'
  <2>1. \A c \in children : Awaited(c) => Awaited(c)'
    BY <1>2 DEF CoordinatorIsGone, Awaited
  <2>2. Awaited(child)'
    BY <1>2, <1>3 DEF CoordinatorIsGone, Awaited
  <2>3. QED
    BY <1>3, <1>4, <1>5, <2>1, <2>2 DEF ChildrenAreLeased, CoordinatorIsGone
<1>9. OneThread'
  BY <1>2, <1>5 DEF OneThread, Open
<1>10. OneChild'
  BY <1>2, <1>3, <1>5 DEF OneChild, Open
<1>11. HeldIsAlone'
  BY <1>2, <1>3, <1>4, <1>5 DEF HeldIsAlone, Open
<1>12. LapsedIsAbandoned'
  <2> SUFFICES ASSUME NEW i \in Jobs, jobs'[i].state = "running", jobs'[i].lapsed
               PROVE  Abandoned(i)'
    BY DEF LapsedIsAbandoned
  <2>1. Abandoned(i)
    BY <1>4 DEF LapsedIsAbandoned
  <2>2. i # h.job
    BY <2>1 DEF CoordinatorIsGone, Abandoned
  <2>3. QED
    BY <1>2, <1>3, <1>4, <2>1, <2>2 DEF CoordinatorIsGone, Abandoned, Open
<1>13. CopiesAreLapsed'
  BY <1>4 DEF CopiesAreLapsed
<1>14. QED
  BY <1>6, <1>7, <1>8, <1>9, <1>10, <1>11, <1>12, <1>13

LEMMA WorkLease ==
  ASSUME BoardInv, LeaseInv, NEW w \in Workers, Work(w)
  PROVE  LeaseInv'
<1>1. CASE Poll(w) \/ AskRun(w) \/ TakeNothing(w) \/ Check(w) \/ Leave(w)
  <2>1. UNCHANGED <<jobs, held, threads, children, cpc, agenda>>
    BY <1>1 DEF Poll, AskRun, TakeNothing, Check, Leave, database, coordinator
  <2>2. QED
    BY <2>1, QuietStep DEF CoordinatorIsGone
<1>2. QED
  BY <1>1, TakeLease, LaunchLease DEF Work, BoardInv

\* Without "orphan" a worker that dies leaves children only once the coordinator
\* is done.
LEMMA CrashLease ==
  ASSUME Calm, TypeOK, LeaseInv, NEW w \in Workers, Crash(w)
  PROVE  LeaseInv'
<1> USE DEF LeaseInv, Leased
<1>1. /\ \A th : th \in threads' <=> th \in threads /\ th.worker # w
      /\ held'[w] = {} /\ \A v \in Workers \ {w} : held'[v] = held[v]
      /\ UNCHANGED <<jobs, cpc, agenda>>
  BY Typed DEF Crash, ThreadsOf, database, coordinator
<1>2. /\ \A c \in children' : c \in children
      /\ \/ CoordinatorIsGone
         \/ \A c \in children' : c.worker # w
  BY DEF Crash, Calm
<1>3. HeldIsLeased' /\ ThreadsAreLeased' /\ HeldIsAlone'
  BY <1>1, <1>2 DEF HeldIsLeased, ThreadsAreLeased, HeldIsAlone, Open
<1>4. ChildrenAreLeased'
  BY <1>1, <1>2 DEF CoordinatorIsGone, ChildrenAreLeased, Awaited
<1>5. OneThread' /\ OneChild'
  BY <1>1, <1>2 DEF OneThread, OneChild, Open
<1>6. LapsedIsAbandoned' /\ CopiesAreLapsed'
  BY <1>1, <1>2
     DEF CoordinatorIsGone, LapsedIsAbandoned, CopiesAreLapsed, Abandoned, Open
<1>7. QED
  BY <1>3, <1>4, <1>5, <1>6

-------------------------------------------------------------------------------
(* Threads and leases. *)

\* What a report does: nothing, or the job of the reporting worker ends.
LEMMA ReportedJob ==
  ASSUME TypeOK, NEW j \in Jobs, NEW w, NEW s \in {"success", "failed"},
         jobs' = Reported(j, w, s)
  PROVE  /\ \A i \in Jobs \ {j} : jobs'[i] = jobs[i]
         /\ \/ jobs' = jobs /\ (jobs[j].state = "running" => jobs[j].owner # w)
            \/ jobs[j].state = "running" /\ jobs'[j].state = s
<1>1. jobs \in [Jobs -> JobDocuments]
  BY DEF TypeOK
<1>2. CASE jobs[j].state = "running" /\ jobs[j].owner = w
  BY <1>1, <1>2 DEF Reported, Moved, JobDocuments
<1>3. QED
  BY <1>2 DEF Reported

\* The only thread at a job moves on; the job may have ended with it.
LEMMA ThreadMovesOn ==
  ASSUME TypeOK, LeaseInv, NEW th \in threads,
         th.at \in {"success", "failed", "recover", "rewrite"},
         NEW place \in {"recover", "rewrite", "release"}, GoesTo(th, place),
         UNCHANGED <<held, children, cpc, agenda>>,
         \A i \in Jobs \ {th.job} : jobs'[i] = jobs[i],
         \/ jobs' = jobs
         \/ Open(th) /\ jobs[th.job].state = "running" /\ jobs'[th.job].state \in Terminal,
         place = "recover" => Open(th),
         place = "rewrite" => jobs'[th.job].state \in Terminal
  PROVE  LeaseInv'
<1> USE Typed DEF LeaseInv, Leased
<1> DEFINE moved == [th EXCEPT !.at = place]
<1>1. /\ \A t \in threads' : (t \in threads /\ t # th) \/ t = moved
      /\ \A t \in threads : t # th => t \in threads'
  BY DEF GoesTo
<1>2. /\ moved.job = th.job /\ moved.attempt = th.attempt
      /\ moved.worker = th.worker /\ moved.at = place
  BY DEF Threads
<1> HIDE DEF moved
<1>3. CASE jobs' = jobs
  <2>1. HeldIsLeased'
    BY <1>3 DEF HeldIsLeased
  <2>2. ThreadsAreLeased'
    BY <1>1, <1>2, <1>3 DEF ThreadsAreLeased, Open
  <2>3. ChildrenAreLeased'
    BY <1>1, <1>3 DEF CoordinatorIsGone, ChildrenAreLeased, Awaited
  <2>4. OneThread'
    BY <1>1, <1>2 DEF OneThread, Open
  <2>5. OneChild' /\ HeldIsAlone'
    BY <1>1, <1>2 DEF OneChild, HeldIsAlone, Open
  <2>6. LapsedIsAbandoned'
    BY <1>1, <1>2, <1>3 DEF CoordinatorIsGone, LapsedIsAbandoned, Abandoned, Open
  <2>7. CopiesAreLapsed'
    BY <1>3 DEF CopiesAreLapsed
  <2>8. QED
    BY <2>1, <2>2, <2>3, <2>4, <2>5, <2>6, <2>7
<1>4. CASE /\ Open(th) /\ jobs[th.job].state = "running"
           /\ jobs'[th.job].state \in Terminal
  <2>0. /\ jobs'[th.job].state # "running"
        /\ \A t \in threads' : Open(t) /\ t.job = th.job => t = moved
        /\ \A c \in children : c.job # th.job
        /\ \A w \in Workers : \A h \in held[w] : h.job # th.job
    BY <1>1, <1>4 DEF Open, OneThread, OneChild, HeldIsAlone, Terminal
  <2>1. HeldIsLeased'
    BY <2>0 DEF HeldIsLeased
  <2>2. ThreadsAreLeased'
    BY <1>1, <1>2, <1>4, <2>0 DEF ThreadsAreLeased, Open
  <2>3. ChildrenAreLeased'
    BY <1>1, <2>0 DEF CoordinatorIsGone, ChildrenAreLeased, Awaited
  <2>4. OneThread'
    BY <1>1, <1>2, <2>0 DEF OneThread, Open
  <2>5. OneChild' /\ HeldIsAlone'
    BY <1>1, <1>2, <2>0 DEF OneChild, HeldIsAlone, Open
  <2>6. LapsedIsAbandoned'
    BY <1>1, <1>2, <2>0 DEF CoordinatorIsGone, LapsedIsAbandoned, Abandoned, Open
  <2>7. CopiesAreLapsed'
    BY <2>0 DEF CopiesAreLapsed
  <2>8. QED
    BY <2>1, <2>2, <2>3, <2>4, <2>5, <2>6, <2>7
<1>5. QED
  BY <1>3, <1>4

LEMMA ThreadLease ==
  ASSUME TypeOK, LeaseInv, NEW th \in threads, ThreadStep(th)
  PROVE  LeaseInv'
<1>0. th.job \in Jobs
  BY Typed
<1>1. Open(th) /\ th.at # "recover"
        => jobs[th.job].state = "running" /\ jobs[th.job].owner = th.worker
  BY DEF LeaseInv, ThreadsAreLeased, Leased
<1>2. CASE Report(th)
  <2>1. /\ jobs' = Reported(th.job, th.worker, th.at)
        /\ th.at \in {"success", "failed"}
        /\ GoesTo(th, "release")
        /\ UNCHANGED <<held, children, cpc, agenda>>
    BY <1>2 DEF Report, coordinator
  <2>2. QED
    BY <1>0, <1>1, <2>1, ReportedJob, ThreadMovesOn DEF Open, Terminal
<1>3. CASE ReportRaises(th)
  <2>1. /\ jobs' = jobs \/ jobs' = Reported(th.job, th.worker, th.at)
        /\ th.at \in {"success", "failed"}
        /\ GoesTo(th, "recover")
        /\ UNCHANGED <<held, children, cpc, agenda>>
    BY <1>3 DEF ReportRaises, coordinator
  <2>2. QED
    BY <1>0, <1>1, <2>1, ReportedJob, ThreadMovesOn DEF Open, Terminal
<1>4. CASE Recover(th)
  <2>1. /\ jobs' = Reported(th.job, th.worker, "failed")
        /\ th.at = "recover"
        /\ GoesTo(th, "rewrite")
        /\ UNCHANGED <<held, children, cpc, agenda>>
    BY <1>4 DEF Recover, coordinator
  <2>2. \/ jobs[th.job].state = "running" /\ jobs[th.job].owner = th.worker
        \/ jobs[th.job].state \in Terminal
    BY <2>1 DEF LeaseInv, ThreadsAreLeased, Leased, Open
  <2>3. QED
    BY <1>0, <2>1, <2>2, ReportedJob, ThreadMovesOn DEF Open, Terminal
<1>8. CASE RecoverRaises(th)
  <2>1. /\ jobs' = jobs \/ jobs' = Reported(th.job, th.worker, "failed")
        /\ th.at = "recover"
        /\ GoesTo(th, "release")
        /\ UNCHANGED <<held, children, cpc, agenda>>
    BY <1>8 DEF RecoverRaises, coordinator
  <2>2. \/ jobs[th.job].state = "running" /\ jobs[th.job].owner = th.worker
        \/ jobs[th.job].state \in Terminal
    BY <2>1 DEF LeaseInv, ThreadsAreLeased, Leased, Open
  <2>3. QED
    BY <1>0, <2>1, <2>2, ReportedJob, ThreadMovesOn DEF Open, Terminal
<1>5. CASE Rewrite(th)
  <2>1. /\ th.at = "rewrite"
        /\ GoesTo(th, "release")
        /\ UNCHANGED <<jobs, held, children, cpc, agenda>>
    BY <1>5 DEF Rewrite, coordinator
  <2>2. QED
    BY <2>1, ThreadMovesOn
<1>6. CASE Release(th)
  <2>1. /\ \A t \in threads' : t \in threads
        /\ \A t \in threads : Open(t) => t \in threads'
        /\ UNCHANGED <<jobs, held, children, cpc, agenda>>
    BY <1>6 DEF Release, Open, database, coordinator
  <2> USE DEF LeaseInv, Leased, Open
  <2>2. HeldIsLeased' /\ ThreadsAreLeased' /\ HeldIsAlone'
    BY <2>1 DEF HeldIsLeased, ThreadsAreLeased, HeldIsAlone
  <2>3. ChildrenAreLeased'
    BY <2>1 DEF CoordinatorIsGone, ChildrenAreLeased, Awaited
  <2>4. OneThread' /\ OneChild'
    BY <2>1 DEF OneThread, OneChild
  <2>5. LapsedIsAbandoned' /\ CopiesAreLapsed'
    BY <2>1 DEF CoordinatorIsGone, LapsedIsAbandoned, CopiesAreLapsed, Abandoned
  <2>6. QED
    BY <2>2, <2>3, <2>4, <2>5
<1>7. QED
  BY <1>2, <1>3, <1>4, <1>5, <1>6, <1>8 DEF ThreadStep

\* A lapsed lease has nobody left to renew it ...
LEMMA RenewLeaseLease ==
  ASSUME TypeOK, LeaseInv, NEW th \in threads, RenewLease(th)
  PROVE  LeaseInv'
<1>1. /\ jobs[th.job].state = "running" /\ jobs[th.job].lapsed
      /\ th.at # "release"
  BY DEF RenewLease, Renews
<1>2. Open(th)
  BY <1>1 DEF LeaseInv, ThreadsAreLeased, Open, Terminal
<1>3. QED
  BY <1>1, <1>2, Typed DEF CoordinatorIsGone, LeaseInv, LapsedIsAbandoned, Abandoned

\* ... because without "stall" it lapses only when that is so.
LEMMA LapseLease ==
  ASSUME Calm, TypeOK, NobodyRaised, LeaseInv, NEW j \in Jobs, LeaseLapses(j)
  PROVE  LeaseInv'
<1>1. /\ jobs[j].state = "running"
      /\ ~KeepsLease(jobs[j].owner, j)
      /\ jobs' = [jobs EXCEPT ![j].lapsed = TRUE]
  BY DEF LeaseLapses, Calm
<1>2. UNCHANGED <<held, threads, children, cpc, agenda>>
  BY DEF LeaseLapses, workerVars, coordinator
<1>3. Abandoned(j)
  <2>1. \A w \in Workers : \A h \in held[w] : h.job # j
    BY <1>1 DEF KeepsLease, NobodyRaised, LeaseInv, HeldIsLeased, Leased
  <2>2. \A th \in threads : Open(th) => th.job # j
    <3>1. \A th \in threads : Open(th) /\ th.job = j => th.worker = jobs[j].owner
      BY <1>1 DEF LeaseInv, ThreadsAreLeased, Leased, Terminal
    <3>2. QED
      BY <1>1, <3>1, Typed DEF KeepsLease, NobodyRaised, Renews, Open
  <2>3. \A c \in children : c.job = j => CoordinatorIsGone
    BY <2>2 DEF CoordinatorIsGone, LeaseInv, ChildrenAreLeased, Awaited, Open
  <2>4. QED
    BY <2>1, <2>2, <2>3 DEF CoordinatorIsGone, Abandoned
<1>4. \A i \in Jobs : /\ jobs'[i].state = jobs[i].state
                      /\ jobs'[i].owner = jobs[i].owner
                      /\ jobs'[i].attempts = jobs[i].attempts
                      /\ \/ jobs'[i].lapsed <=> jobs[i].lapsed
                         \/ jobs'[i].lapsed /\ Abandoned(i)
  BY <1>1, <1>3, Typed DEF JobDocuments
<1>5. QED
  BY <1>2, <1>4, FlagsChange DEF CoordinatorIsGone

-------------------------------------------------------------------------------
(* Children. *)

LEMMA RecordsLease ==
  ASSUME TypeOK, LeaseInv, NEW c \in children, ChildRecords(c)
  PROVE  LeaseInv'
<1> USE DEF LeaseInv, Leased
<1>1. PICK outcome \in {"success", "failed"} :
        children' = (children \ {c}) \cup {[c EXCEPT !.at = outcome]}
  BY DEF ChildRecords
<1> DEFINE ended == [c EXCEPT !.at = outcome]
<1>2. /\ ended.job = c.job /\ ended.attempt = c.attempt
      /\ ended.worker = c.worker
      /\ \A d \in children' : (d \in children /\ d # c) \/ d = ended
  BY <1>1, Typed DEF Children
<1> HIDE DEF ended
<1>3. UNCHANGED <<jobs, held, threads, cpc, agenda>>
  BY DEF ChildRecords, workerVars, coordinator
<1>4. HeldIsLeased' /\ ThreadsAreLeased' /\ OneThread' /\ CopiesAreLapsed'
  BY <1>3 DEF HeldIsLeased, ThreadsAreLeased, OneThread, CopiesAreLapsed, Open
<1>5. ChildrenAreLeased'
  BY <1>2, <1>3 DEF CoordinatorIsGone, ChildrenAreLeased, Awaited
<1>6. OneChild'
  BY <1>2, <1>3 DEF OneChild, Open
<1>7. HeldIsAlone' /\ LapsedIsAbandoned'
  BY <1>2, <1>3
     DEF CoordinatorIsGone, HeldIsAlone, LapsedIsAbandoned, Abandoned, Open
<1>8. QED
  BY <1>4, <1>5, <1>6, <1>7

LEMMA ExitLease ==
  ASSUME TypeOK, LeaseInv, NEW c \in children,
         NEW outcome \in {"success", "failed", "recover"}, Exits(c, outcome)
  PROVE  LeaseInv'
<1> USE DEF LeaseInv, Leased
<1>1. /\ \A d : d \in children' <=> d \in children /\ d # c
      /\ \A d \in children' : d.job # c.job
  BY DEF Exits, OneChild
<1>2. UNCHANGED <<jobs, held, cpc, agenda>>
  BY DEF Exits, database, coordinator
\* Every thread after the step was there before, perhaps at "run" for c.
<1>3. \A t \in threads' :
        \/ t \in threads /\ ~(t.at = "run" /\ t.job = c.job)
        \/ /\ t.at = outcome
           /\ \E u \in threads : /\ u.at = "run"
                                 /\ u.job = c.job /\ u.job = t.job
                                 /\ u.attempt = t.attempt /\ u.worker = t.worker
                                 /\ t = [u EXCEPT !.at = outcome]
  <2>1. \A u \in threads : u.at = "run" /\ u.job = c.job => u \in Waiting(c)
    BY DEF Waiting, ThreadsAreLeased, ChildrenAreLeased, Open
  <2>2. \A u \in Waiting(c) :
          /\ u \in threads /\ u.at = "run" /\ u.job = c.job
          /\ [u EXCEPT !.at = outcome].at = outcome
          /\ [u EXCEPT !.at = outcome].job = u.job
          /\ [u EXCEPT !.at = outcome].attempt = u.attempt
          /\ [u EXCEPT !.at = outcome].worker = u.worker
    BY DEF Waiting, TypeOK, Threads
  <2>3. \A t \in threads' :
          \/ t \in threads /\ t \notin Waiting(c)
          \/ \E u \in Waiting(c) : t = [u EXCEPT !.at = outcome]
    BY DEF Exits
  <2>4. ASSUME NEW u \in Waiting(c), NEW t, t = [u EXCEPT !.at = outcome]
        PROVE  /\ u \in threads /\ u.at = "run" /\ u.job = c.job
               /\ t.at = outcome /\ t.job = u.job
               /\ t.attempt = u.attempt /\ t.worker = u.worker
    BY <2>2, <2>4
  <2>5. QED
    BY <2>1, <2>3, <2>4
<1>4. \A t \in threads : t.job # c.job => t \in threads'
  BY DEF Exits, Waiting
<1>5. HeldIsLeased' /\ CopiesAreLapsed'
  BY <1>2 DEF HeldIsLeased, CopiesAreLapsed
<1>6. ThreadsAreLeased'
  BY <1>2, <1>3 DEF ThreadsAreLeased, Open
<1>7. ChildrenAreLeased'
  BY <1>1, <1>2, <1>4 DEF CoordinatorIsGone, ChildrenAreLeased, Awaited
<1>8. OneThread'
  <2> SUFFICES ASSUME NEW t \in threads', NEW u \in threads',
                      Open(t), Open(u), t.job = u.job
               PROVE  t = u
    BY DEF OneThread, Open
  <2>1. CASE t \in threads /\ u \in threads
    BY <2>1 DEF OneThread
  <2>2. ASSUME NEW v \in threads, NEW x \in threads,
               v.at = "run", v.job = c.job, x.job = c.job, Open(x)
        PROVE  x = v
    BY <2>2 DEF OneThread, Open
  <2>3. CASE t \in threads /\ u \notin threads
    BY <1>3, <2>2, <2>3
  <2>4. CASE t \notin threads /\ u \in threads
    BY <1>3, <2>2, <2>4
  <2>5. CASE t \notin threads /\ u \notin threads
    BY <1>3, <2>2, <2>5 DEF Open
  <2>6. QED
    BY <2>1, <2>3, <2>4, <2>5
<1>9. OneChild'
  BY <1>1, <1>3 DEF OneChild, Open
<1>10. HeldIsAlone' /\ LapsedIsAbandoned'
  BY <1>1, <1>2, <1>3
     DEF CoordinatorIsGone, HeldIsAlone, LapsedIsAbandoned, Abandoned, Open
<1>11. QED
  BY <1>5, <1>6, <1>7, <1>8, <1>9, <1>10

LEMMA ChildLease ==
  ASSUME TypeOK, LeaseInv, NEW c \in children, ChildStep(c)
  PROVE  LeaseInv'
<1>1. c.at \in {"busy", "success", "failed"}
  BY DEF TypeOK, Children
<1>2. QED
  BY <1>1, RecordsLease, ExitLease DEF ChildStep, ChildExits, ChildDies, StartFails

-------------------------------------------------------------------------------
(* The coordinator. *)

LEMMA CoordinateLease ==
  ASSUME BoardInv, LeaseInv, Coordinate
  PROVE  LeaseInv'
<1>0. TypeOK
  BY DEF BoardInv
<1>1. CASE FindExpired
  <2>1. UNCHANGED <<jobs, held, threads, children>>
    BY <1>1 DEF FindExpired, database, workerVars
  <2>2. CopiesAreLapsed'
    BY <1>0, <1>1, <2>1, Typed DEF FindExpired, CopiesAreLapsed, Doc, JobsIn
  <2>3. ~CoordinatorIsGone /\ ~CoordinatorIsGone'
    BY <1>1 DEF FindExpired, CoordinatorIsGone
  <2> USE DEF LeaseInv, Leased
  <2>4. /\ HeldIsLeased' /\ ThreadsAreLeased' /\ OneThread' /\ OneChild'
        /\ HeldIsAlone'
    BY <2>1 DEF HeldIsLeased, ThreadsAreLeased, OneThread, OneChild, HeldIsAlone, Open
  <2>5. ChildrenAreLeased' /\ LapsedIsAbandoned'
    BY <2>1, <2>3
       DEF CoordinatorIsGone, ChildrenAreLeased, LapsedIsAbandoned, Awaited, Abandoned, Open
  <2>6. QED
    BY <2>2, <2>4, <2>5
<1>2. ASSUME NEW d \in agenda, ExpireLease(d)
      PROVE  LeaseInv'
  <2>1. /\ UNCHANGED <<held, threads, children, cpc>>
        /\ agenda' \subseteq agenda /\ cpc = "expire"
        /\ \/ jobs' = jobs
           \/ /\ jobs[d.job].state = "running" /\ jobs[d.job].owner = d.owner
              /\ jobs' = Moved(d.job, "failed") \/ jobs' = Moved(d.job, "pending")
    BY <1>2 DEF ExpireLease, Handled, workerVars
  <2>2. CASE jobs' = jobs
    BY <2>1, <2>2, QuietStep DEF CoordinatorIsGone
  <2>3. CASE jobs' # jobs
    <3>1. Abandoned(d.job) /\ d.job \in Jobs
      BY <1>0, <2>1, <2>3, Typed
         DEF LeaseInv, CopiesAreLapsed, LapsedIsAbandoned
    <3>2. /\ jobs'[d.job].state # "running"
          /\ \A i \in Jobs \ {d.job} : jobs'[i] = jobs[i]
      BY <1>0, <2>1, <2>3, <3>1, Typed DEF Moved, JobDocuments
    <3>3. QED
      BY <1>0, <2>1, <2>3, <3>1, <3>2, IdleJobMoves
         DEF CoordinatorIsGone, Abandoned, Terminal
  <2>4. QED
    BY <2>2, <2>3
<1>3. ASSUME NEW d \in agenda, MarkSkipped(d) \/ MarkMemoryUnfit(d)
      PROVE  LeaseInv'
  <2>1. /\ UNCHANGED <<held, threads, children, cpc>>
        /\ agenda' \subseteq agenda
        /\ \/ jobs' = jobs
           \/ /\ jobs[d.job].state = "pending"
              /\ \E s \in {"skipped", "failed"} :
                   jobs' = [jobs EXCEPT ![d.job].state = s]
    BY <1>3 DEF MarkSkipped, MarkMemoryUnfit, GivesUp, Handled, workerVars
  <2>2. CASE jobs' = jobs
    BY <2>1, <2>2, QuietStep DEF CoordinatorIsGone
  <2>3. CASE jobs' # jobs
    <3>1. d.job \in Jobs
      BY <1>0, Typed
    <3>2. /\ jobs'[d.job].state # "running"
          /\ \A i \in Jobs \ {d.job} : jobs'[i] = jobs[i]
      BY <1>0, <2>1, <2>3, <3>1, Typed DEF JobDocuments
    <3>3. QED
      BY <1>0, <2>1, <2>3, <3>1, <3>2, PendingIsIdle, IdleJobMoves DEF Terminal
  <2>4. QED
    BY <2>2, <2>3
<1>4. CASE RefreshReady
  <2>1. /\ UNCHANGED <<held, threads, children, agenda>>
        /\ ~CoordinatorIsGone /\ cpc' # "expire"
    BY <1>4 DEF RefreshReady, CoordinatorIsGone, workerVars
  <2>2. \A i \in Jobs : /\ jobs'[i].state = jobs[i].state
                        /\ jobs'[i].owner = jobs[i].owner
                        /\ jobs'[i].attempts = jobs[i].attempts
                        /\ jobs'[i].lapsed <=> jobs[i].lapsed
    BY <1>0, <1>4, Typed DEF RefreshReady, JobDocuments
  <2>3. QED
    BY <1>0, <2>1, <2>2, FlagsChange
<1>5. CASE \/ \E o \in owed : WriteFailure(o)
           \/ FindSkips("expire", "skip1") \/ FindSkips("unfit", "skip2")
           \/ CheckWorkers \/ FindUnfit \/ CompleteRun
  <2>1. /\ UNCHANGED <<jobs, held, threads, children>>
        /\ CoordinatorIsGone => CoordinatorIsGone'
        /\ cpc' = "expire" => cpc = "expire" /\ agenda' \subseteq agenda
    BY <1>5 DEF WriteFailure, FindSkips, CheckWorkers, FindUnfit, CompleteRun,
                CoordinatorIsGone, database, workerVars
  <2>2. QED
    BY <2>1, QuietStep
<1>6. QED
  BY <1>1, <1>2, <1>3, <1>4, <1>5 DEF Coordinate

-------------------------------------------------------------------------------
LEMMA OutsideLease ==
  ASSUME Calm, BoardInv, NobodyRaised, LeaseInv, Outside
  PROVE  LeaseInv'
<1>0. TypeOK
  BY DEF BoardInv
<1>1. ASSUME NEW w \in Workers, HeartbeatAges(w)
      PROVE  LeaseInv'
  <2>1. UNCHANGED <<jobs, held, threads, children, cpc, agenda>>
    BY <1>1 DEF HeartbeatAges, workerVars, coordinator
  <2>2. QED
    BY <2>1, QuietStep DEF CoordinatorIsGone
<1>2. ~\E w \in Workers : LoopRaises(w)
  BY DEF LoopRaises, Calm
<1>3. QED
  BY <1>0, <1>1, <1>2, WorkLease, CrashLease, ThreadLease, RenewLeaseLease,
     ChildLease, LapseLease DEF Outside

\* Only a call that raises in the main loop leads to "raised".
LEMMA NextNobodyRaised ==
  ASSUME Calm, TypeOK, NobodyRaised, [Next]_vars
  PROVE  NobodyRaised'
<1>1. ASSUME wpc' = wpc
      PROVE  NobodyRaised'
  BY <1>1 DEF NobodyRaised
<1>2. ASSUME NEW w \in Workers, Work(w)
      PROVE  NobodyRaised'
  BY <1>2 DEF Work, Poll, AskRun, Take, TakeNothing, Launch, Check, Leave,
              NextPlace, NobodyRaised, TypeOK
<1>3. ASSUME NEW w \in Workers, Crash(w)
      PROVE  NobodyRaised'
  BY <1>3 DEF Crash, NobodyRaised, TypeOK
<1>4. ASSUME NEW w \in Workers, HeartbeatAges(w)
      PROVE  wpc' = wpc
  BY <1>4 DEF HeartbeatAges, workerVars
<1>5. ASSUME NEW th \in threads, ThreadStep(th) \/ RenewLease(th)
      PROVE  wpc' = wpc
  BY <1>5 DEF ThreadStep, Report, ReportRaises, Recover, RecoverRaises, Rewrite,
              Release, RenewLease, workerVars
<1>6. ASSUME NEW c \in children, ChildStep(c)
      PROVE  wpc' = wpc
  BY <1>6 DEF ChildStep, ChildRecords, ChildExits, ChildDies, StartFails, Exits,
              workerVars
<1>7. ASSUME NEW j \in Jobs, LeaseLapses(j)
      PROVE  wpc' = wpc
  BY <1>7 DEF LeaseLapses, workerVars
<1>8. ASSUME Coordinate \/ Interrupt \/ CoordinatorCrash \/ UNCHANGED vars
      PROVE  wpc' = wpc
  BY <1>8 DEF Coordinate, FindExpired, ExpireLease, MarkSkipped, MarkMemoryUnfit,
              GivesUp, WriteFailure, FindSkips, CheckWorkers, FindUnfit,
              RefreshReady, CompleteRun, Interrupt, CoordinatorCrash, workerVars,
              vars
<1>9. ~\E w \in Workers : LoopRaises(w)
  BY DEF LoopRaises, Calm
<1>10. QED
  BY <1>1, <1>2, <1>3, <1>4, <1>5, <1>6, <1>7, <1>8, <1>9 DEF Next

LEMMA NextLeaseInv ==
  ASSUME Calm, BoardInv, NobodyRaised, LeaseInv, [Next]_vars
  PROVE  LeaseInv'
<1>1. CASE Interrupt \/ CoordinatorCrash
  <2>1. /\ UNCHANGED <<jobs, held, threads, children>>
        /\ ~CoordinatorIsGone /\ cpc' # "expire"
    BY <1>1 DEF Interrupt, CoordinatorCrash, CoordinatorIsGone, database, workerVars
  <2>2. QED
    BY <2>1, QuietStep
<1>2. CASE UNCHANGED vars
  <2>1. UNCHANGED <<jobs, held, threads, children, cpc, agenda>>
    BY <1>2 DEF vars, database, workerVars, coordinator
  <2>2. QED
    BY <2>1, QuietStep DEF CoordinatorIsGone
<1>3. QED
  BY <1>1, <1>2, NextCases, OutsideLease, CoordinateLease

\* WorkIsLeased holds: without stalls and orphans a job is executed by at most one
\* process, for the attempt and under the lease its document names.
THEOREM ExecutionIsLeased == Spec => []WorkIsLeased
<1>1. Init => LeaseInv /\ NobodyRaised
  BY InitLeaseInv DEF Init, NobodyRaised
<1>2. /\ Calm /\ BoardInv /\ LeaseInv /\ NobodyRaised /\ [Next]_vars
      => LeaseInv' /\ NobodyRaised'
  BY NextLeaseInv, NextNobodyRaised DEF BoardInv
<1>3. Calm /\ LeaseInv => WorkIsLeased
  BY DEF WorkIsLeased, LeaseInv, ChildrenAreLeased, OneChild, Leased
<1>4. ~Calm => WorkIsLeased
  BY DEF WorkIsLeased, Calm
<1>5. CASE Calm
  <2>1. Spec => []LeaseInv
    BY <1>1, <1>2, <1>5, BoardInvariance, PTL DEF Spec
  <2>2. QED
    BY <1>3, <1>5, <2>1, PTL
<1>6. CASE ~Calm
  <2>1. WorkIsLeased
    BY <1>4, <1>6
  <2>2. QED
    BY <1>4, <1>6, PTL
<1>7. QED
  BY <1>5, <1>6

-------------------------------------------------------------------------------
(* Job and result documents agree. *)

OnlyHostsDie == Faults \subseteq {"host_crash"}

\* What a child has written stands until its job has ended: the thread reports
\* just that, and no failure handler writes over it.
ChildrenRecorded == \A c \in children : c.at # "busy" => records[c.job] = c.at

ThreadsRecorded ==
  \A th \in threads : /\ th.at \notin {"recover", "rewrite"}
                      /\ th.at \in {"success", "failed"} => records[th.job] = th.at

DebtsAreDue == \A o \in owed : jobs[o.job].state = o.state

EndsAreRecorded ==
  \A j \in Jobs : jobs[j].state \in Terminal /\ (\A o \in owed : o.job # j)
                  => records[j] = jobs[j].state

RecordsInv ==
  /\ ChildrenRecorded
  /\ ThreadsRecorded
  /\ DebtsAreDue
  /\ EndsAreRecorded

LEMMA InitRecordsInv == Init => RecordsInv
BY DEF Init, RecordsInv, ChildrenRecorded, ThreadsRecorded, DebtsAreDue,
       EndsAreRecorded, Terminal

LEMMA DebtTypes ==
  ASSUME TypeOK
  PROVE  \A o \in owed : o.job \in Jobs /\ o.state \in Terminal
BY DEF TypeOK, Debts, Terminal

\* No document of either kind is written, and no job ends.
LEMMA NothingEnds ==
  ASSUME TypeOK, RecordsInv, UNCHANGED <<records, owed>>,
         threads' \subseteq threads, children' \subseteq children,
         \A i \in Jobs : \/ jobs'[i].state = jobs[i].state
                         \/ /\ jobs[i].state \notin Terminal
                            /\ jobs'[i].state \notin Terminal
  PROVE  RecordsInv'
<1> USE DEF RecordsInv
<1>1. ChildrenRecorded' /\ ThreadsRecorded'
  BY DEF ChildrenRecorded, ThreadsRecorded
<1>2. DebtsAreDue'
  BY DebtTypes DEF DebtsAreDue
<1>3. EndsAreRecorded'
  BY DEF EndsAreRecorded
<1>4. QED
  BY <1>1, <1>2, <1>3

LEMMA TakeEndsNothing ==
  ASSUME TypeOK, NEW w \in Workers, Take(w)
  PROVE  \A i \in Jobs : \/ jobs'[i].state = jobs[i].state
                         \/ /\ jobs[i].state \notin Terminal
                            /\ jobs'[i].state \notin Terminal
<1>1. PICK j \in Jobs :
        /\ Fits(j, free[w])
        /\ jobs' = [jobs EXCEPT ![j].state = "running", ![j].owner = w,
                                ![j].lapsed = FALSE, ![j].attempts = @ + 1]
  BY DEF Take
<1>2. /\ jobs[j].state = "pending" /\ jobs'[j].state = "running"
      /\ \A i \in Jobs \ {j} : jobs'[i] = jobs[i]
  BY <1>1, Typed DEF Fits, JobDocuments
<1>3. QED
  BY <1>2 DEF Terminal

LEMMA WorkRecords ==
  ASSUME TypeOK, RecordsInv, NEW w \in Workers, Work(w)
  PROVE  RecordsInv'
<1>1. CASE Take(w)
  <2>1. UNCHANGED <<records, owed, threads, children>>
    BY <1>1 DEF Take, coordinator
  <2>2. \A i \in Jobs : \/ jobs'[i].state = jobs[i].state
                        \/ /\ jobs[i].state \notin Terminal
                           /\ jobs'[i].state \notin Terminal
    BY <1>1, TakeEndsNothing
  <2>3. QED
    BY <2>1, <2>2, NothingEnds
<1>2. CASE Launch(w)
  <2> USE DEF RecordsInv
  <2>1. UNCHANGED <<jobs, records, owed>>
    BY <1>2 DEF Launch, database, coordinator
  <2>2. /\ \A c \in children' : c \in children \/ c.at = "busy"
        /\ \A th \in threads' : th \in threads \/ th.at = "run"
    BY <1>2 DEF Launch
  <2>3. ChildrenRecorded' /\ ThreadsRecorded'
    BY <2>1, <2>2 DEF ChildrenRecorded, ThreadsRecorded
  <2>4. DebtsAreDue' /\ EndsAreRecorded'
    BY <2>1 DEF DebtsAreDue, EndsAreRecorded
  <2>5. QED
    BY <2>3, <2>4
<1>3. CASE Poll(w) \/ AskRun(w) \/ TakeNothing(w) \/ Check(w) \/ Leave(w)
  <2>1. UNCHANGED <<jobs, records, owed, threads, children>>
    BY <1>3 DEF Poll, AskRun, TakeNothing, Check, Leave, database, coordinator
  <2>2. QED
    BY <2>1, NothingEnds
<1>4. QED
  BY <1>1, <1>2, <1>3 DEF Work

LEMMA ThreadRecords ==
  ASSUME OnlyHostsDie, TypeOK, LeaseInv, RecordsInv,
         NEW th \in threads, ThreadStep(th)
  PROVE  RecordsInv'
<1>1. th.at \notin {"recover", "rewrite"}
  BY DEF RecordsInv, ThreadsRecorded
<1>2. CASE Release(th)
  <2>1. UNCHANGED <<jobs, records, owed, children>> /\ threads' \subseteq threads
    BY <1>2 DEF Release, database, coordinator
  <2>2. QED
    BY <2>1, NothingEnds
<1>3. CASE Report(th)
  <2> USE DEF RecordsInv
  <2>1. /\ UNCHANGED <<records, owed, children>>
        /\ th.at \in {"success", "failed"} /\ th.job \in Jobs
        /\ jobs' = Reported(th.job, th.worker, th.at)
    BY <1>3, Typed DEF Report, coordinator
  <2>2. /\ \A i \in Jobs \ {th.job} : jobs'[i] = jobs[i]
        /\ \/ jobs' = jobs
           \/ jobs[th.job].state = "running" /\ jobs'[th.job].state = th.at
    BY <2>1, ReportedJob
  <2>3. records[th.job] = th.at
    BY <2>1 DEF ThreadsRecorded
  <2>4. \A t \in threads' : t \in threads \/ t.at = "release"
    BY <1>3 DEF Report, GoesTo, TypeOK, Threads
  <2>5. ChildrenRecorded' /\ ThreadsRecorded'
    BY <2>1, <2>4 DEF ChildrenRecorded, ThreadsRecorded
  <2>6. DebtsAreDue'
    BY <2>1, <2>2, DebtTypes DEF DebtsAreDue, Terminal
  <2>7. EndsAreRecorded'
    BY <2>1, <2>2, <2>3 DEF EndsAreRecorded
  <2>8. QED
    BY <2>5, <2>6, <2>7
<1>4. QED
  BY <1>1, <1>2, <1>3
     DEF ThreadStep, ReportRaises, Recover, RecoverRaises, Rewrite, OnlyHostsDie

\* The only process at a job writes its result document ...
LEMMA ChildRecordsRecords ==
  ASSUME TypeOK, LeaseInv, RecordsInv, NEW c \in children, ChildRecords(c)
  PROVE  RecordsInv'
<1> USE DEF RecordsInv
<1>1. PICK outcome \in {"success", "failed"} :
        /\ records' = [records EXCEPT ![c.job] = outcome]
        /\ children' = (children \ {c}) \cup {[c EXCEPT !.at = outcome]}
  BY DEF ChildRecords
<1> DEFINE ended == [c EXCEPT !.at = outcome]
<1>2. /\ ended.job = c.job /\ ended.at = outcome
      /\ \A d \in children' : (d \in children /\ d # c) \/ d = ended
  BY <1>1, Typed DEF Children
<1> HIDE DEF ended
<1>3. /\ records'[c.job] = outcome
      /\ \A i \in Jobs \ {c.job} : records'[i] = records[i]
  BY <1>1, Typed DEF TypeOK
<1>4. UNCHANGED <<jobs, threads, owed>>
  BY DEF ChildRecords, workerVars, coordinator
<1>5. /\ \A d \in children : d.job = c.job => d = c
      /\ \A th \in threads : Open(th) /\ th.job = c.job => th.at = "run"
      /\ jobs[c.job].state = "running"
  BY DEF LeaseInv, OneChild, ChildrenAreLeased, Leased
<1>6. ChildrenRecorded'
  BY <1>2, <1>3, <1>5, Typed DEF ChildrenRecorded
<1>7. ThreadsRecorded'
  BY <1>3, <1>4, <1>5, Typed DEF ThreadsRecorded, Open
<1>8. DebtsAreDue'
  BY <1>4 DEF DebtsAreDue
<1>9. EndsAreRecorded'
  BY <1>3, <1>4, <1>5 DEF EndsAreRecorded, Terminal
<1>10. QED
  BY <1>6, <1>7, <1>8, <1>9

\* ... and hands its outcome to the thread that waits for it.
LEMMA ExitRecords ==
  ASSUME TypeOK, LeaseInv, RecordsInv, NEW c \in children, ChildExits(c)
  PROVE  RecordsInv'
<1> USE DEF RecordsInv
<1>1. /\ UNCHANGED <<jobs, records, owed>> /\ children' \subseteq children
      /\ c.at # "busy"
  BY DEF ChildExits, Exits, database, coordinator
<1>2. \A u \in Waiting(c) : /\ [u EXCEPT !.at = c.at].at = c.at
                            /\ [u EXCEPT !.at = c.at].job = c.job
  BY DEF Waiting, TypeOK, Threads
<1>3. \A t \in threads' : t \in threads \/ (t.at = c.at /\ t.job = c.job)
  BY <1>2 DEF ChildExits, Exits
<1>4. c.at \in {"success", "failed"} /\ records[c.job] = c.at
  BY <1>1, Typed DEF ChildrenRecorded, Children
<1>5. ChildrenRecorded' /\ ThreadsRecorded'
  BY <1>1, <1>3, <1>4 DEF ChildrenRecorded, ThreadsRecorded
<1>6. DebtsAreDue' /\ EndsAreRecorded'
  BY <1>1 DEF DebtsAreDue, EndsAreRecorded
<1>7. QED
  BY <1>5, <1>6

\* The coordinator ends a job and owes its result document.
LEMMA DebtIsMade ==
  ASSUME TypeOK, RecordsInv, NEW d, d.job \in Jobs, NEW s \in {"failed", "skipped"},
         jobs[d.job].state \notin Terminal, jobs'[d.job].state = s,
         \A i \in Jobs \ {d.job} : jobs'[i] = jobs[i],
         owed' \subseteq owed \cup {Debt(d, s)}, Debt(d, s) \in owed',
         owed \subseteq owed',
         UNCHANGED <<records, threads, children>>
  PROVE  RecordsInv'
<1> USE DEF RecordsInv
<1>1. ChildrenRecorded' /\ ThreadsRecorded'
  BY DEF ChildrenRecorded, ThreadsRecorded
<1>2. Debt(d, s).job = d.job /\ Debt(d, s).state = s
  BY DEF Debt
<1>3. DebtsAreDue'
  BY <1>2, DebtTypes DEF DebtsAreDue
<1>4. EndsAreRecorded'
  BY <1>2 DEF EndsAreRecorded
<1>5. QED
  BY <1>1, <1>3, <1>4

LEMMA CoordinateRecords ==
  ASSUME TypeOK, LeaseInv, RecordsInv, Coordinate
  PROVE  RecordsInv'
<1>1. ASSUME NEW d \in agenda, ExpireLease(d)
      PROVE  RecordsInv'
  <2>1. UNCHANGED <<records, threads, children>> /\ d.job \in Jobs
    BY <1>1, Typed DEF ExpireLease, workerVars
  <2>2. CASE UNCHANGED <<jobs, owed>>
    BY <2>1, <2>2, NothingEnds
  <2>3. ASSUME NEW s \in {"failed", "pending"}, jobs[d.job].state = "running",
               jobs' = Moved(d.job, s)
        PROVE  /\ jobs'[d.job].state = s
               /\ \A i \in Jobs \ {d.job} : jobs'[i] = jobs[i]
    BY <2>1, <2>3, Typed DEF Moved, JobDocuments
  <2>4. CASE /\ jobs[d.job].state = "running" /\ jobs' = Moved(d.job, "pending")
             /\ UNCHANGED owed
    <3>1. \A i \in Jobs : \/ jobs'[i].state = jobs[i].state
                          \/ /\ jobs[i].state \notin Terminal
                             /\ jobs'[i].state \notin Terminal
      BY <2>3, <2>4 DEF Terminal
    <3>2. QED
      BY <2>1, <2>4, <3>1, NothingEnds
  <2>5. CASE /\ jobs[d.job].state = "running" /\ jobs' = Moved(d.job, "failed")
             /\ owed' = owed \cup {Debt(d, "failed")}
    BY <2>1, <2>3, <2>5, DebtIsMade DEF Terminal
  <2>6. QED
    BY <1>1, <2>2, <2>4, <2>5 DEF ExpireLease
<1>2. ASSUME NEW d \in agenda, MarkSkipped(d) \/ MarkMemoryUnfit(d)
      PROVE  RecordsInv'
  <2>1. /\ UNCHANGED <<records, threads, children>> /\ d.job \in Jobs
        /\ \/ UNCHANGED <<jobs, owed>>
           \/ /\ jobs[d.job].state = "pending" /\ owed = {}
              /\ \E s \in {"failed", "skipped"} :
                   /\ jobs' = [jobs EXCEPT ![d.job].state = s]
                   /\ owed' = {Debt(d, s)}
    BY <1>2, Typed DEF MarkSkipped, MarkMemoryUnfit, GivesUp, workerVars
  <2>2. CASE UNCHANGED <<jobs, owed>>
    BY <2>1, <2>2, NothingEnds
  <2>3. ASSUME NEW s \in {"failed", "skipped"}, jobs[d.job].state = "pending",
               jobs' = [jobs EXCEPT ![d.job].state = s],
               owed = {}, owed' = {Debt(d, s)}
        PROVE  RecordsInv'
    <3>1. /\ jobs'[d.job].state = s
          /\ \A i \in Jobs \ {d.job} : jobs'[i] = jobs[i]
      BY <2>1, <2>3, Typed DEF JobDocuments
    <3>2. QED
      BY <2>1, <2>3, <3>1, DebtIsMade DEF Terminal
  <2>4. QED
    BY <2>1, <2>2, <2>3
<1>3. ASSUME NEW o \in owed, WriteFailure(o)
      PROVE  RecordsInv'
  <2> USE DEF RecordsInv
  <2>1. /\ UNCHANGED <<jobs, threads, children>>
        /\ owed' = owed \ {o}
        /\ o.job \in Jobs /\ o.state \in Terminal /\ jobs[o.job].state = o.state
    BY <1>3, DebtTypes DEF WriteFailure, workerVars, DebtsAreDue
  <2>2. /\ records'[o.job] = o.state
        /\ \A i \in Jobs \ {o.job} : records'[i] = records[i]
    BY <1>3, <2>1 DEF WriteFailure, TypeOK
  <2>3. ChildrenRecorded'
    <3>1. \A c \in children : c.job # o.job
      BY <2>1 DEF LeaseInv, ChildrenAreLeased, Leased, Terminal
    <3>2. QED
      BY <2>1, <2>2, <3>1, Typed DEF ChildrenRecorded
  <2>4. ThreadsRecorded'
    <3>1. \A th \in threads : th.at \in {"success", "failed"} => th.job # o.job
      BY <2>1 DEF LeaseInv, ThreadsAreLeased, Open, Leased, Terminal
    <3>2. QED
      BY <2>1, <2>2, <3>1, Typed DEF ThreadsRecorded
  <2>5. DebtsAreDue'
    BY <2>1 DEF DebtsAreDue
  <2>6. EndsAreRecorded'
    BY <2>1, <2>2 DEF EndsAreRecorded
  <2>7. QED
    BY <2>3, <2>4, <2>5, <2>6
<1>4. CASE RefreshReady
  <2>1. UNCHANGED <<records, owed, threads, children>>
    BY <1>4 DEF RefreshReady, workerVars
  <2>2. \A i \in Jobs : jobs'[i].state = jobs[i].state
    BY <1>4, Typed DEF RefreshReady, JobDocuments
  <2>3. QED
    BY <2>1, <2>2, NothingEnds
<1>5. CASE \/ FindExpired \/ FindSkips("expire", "skip1")
           \/ FindSkips("unfit", "skip2") \/ CheckWorkers \/ FindUnfit
           \/ CompleteRun
  <2>1. UNCHANGED <<jobs, records, owed, threads, children>>
    BY <1>5 DEF FindExpired, FindSkips, CheckWorkers, FindUnfit, CompleteRun,
                database, workerVars
  <2>2. QED
    BY <2>1, NothingEnds
<1>6. QED
  BY <1>1, <1>2, <1>3, <1>4, <1>5 DEF Coordinate

LEMMA NextRecordsInv ==
  ASSUME OnlyHostsDie, BoardInv, LeaseInv, RecordsInv, [Next]_vars
  PROVE  RecordsInv'
<1>0. TypeOK
  BY DEF BoardInv
<1>1. ASSUME NEW w \in Workers, LoopRaises(w) \/ Crash(w) \/ HeartbeatAges(w)
      PROVE  RecordsInv'
  <2>1. /\ UNCHANGED <<jobs, records, owed>>
        /\ threads' \subseteq threads /\ children' \subseteq children
    BY <1>1 DEF LoopRaises, Crash, HeartbeatAges, database, workerVars, coordinator
  <2>2. QED
    BY <1>0, <2>1, NothingEnds
<1>2. ASSUME \/ \E th \in threads : RenewLease(th)
             \/ \E j \in Jobs : LeaseLapses(j)
      PROVE  RecordsInv'
  <2>1. UNCHANGED <<records, owed, threads, children>>
    BY <1>2 DEF RenewLease, LeaseLapses, workerVars, coordinator
  <2>2. \A i \in Jobs : jobs'[i].state = jobs[i].state
    BY <1>0, <1>2, LeaseJobs DEF Keeps
  <2>3. QED
    BY <1>0, <2>1, <2>2, NothingEnds
<1>3. ASSUME NEW c \in children, ChildStep(c)
      PROVE  RecordsInv'
  BY <1>0, <1>3, ChildRecordsRecords, ExitRecords
     DEF ChildStep, ChildDies, StartFails, OnlyHostsDie
<1>4. CASE Outside
  BY <1>0, <1>1, <1>2, <1>3, <1>4, WorkRecords, ThreadRecords DEF Outside
<1>5. ~Interrupt /\ ~CoordinatorCrash
  BY DEF Interrupt, CoordinatorCrash, OnlyHostsDie
<1>6. CASE UNCHANGED vars
  <2>1. UNCHANGED <<jobs, records, owed, threads, children>>
    BY <1>6 DEF vars, database, workerVars, coordinator
  <2>2. QED
    BY <1>0, <2>1, NothingEnds
<1>7. QED
  BY <1>0, <1>4, <1>5, <1>6, NextCases, CoordinateRecords

\* RecordsAgree holds: if hosts die and nothing worse happens, the result document
\* of a job that has ended says what the job document says, whoever wrote it.
THEOREM DocumentsAgree == Spec => []RecordsAgree
<1>1. CASE OnlyHostsDie
  <2>1. Calm
    BY <1>1 DEF Calm, OnlyHostsDie
  <2>2. Init => LeaseInv /\ NobodyRaised /\ RecordsInv
    BY InitLeaseInv, InitRecordsInv DEF Init, NobodyRaised
  <2>3. /\ BoardInv /\ LeaseInv /\ NobodyRaised /\ RecordsInv /\ [Next]_vars
        => LeaseInv' /\ NobodyRaised' /\ RecordsInv'
    BY <1>1, <2>1, NextLeaseInv, NextNobodyRaised, NextRecordsInv DEF BoardInv
  <2>4. RecordsInv => RecordsAgree
    BY DEF RecordsInv, EndsAreRecorded, RecordsAgree
  <2>5. QED
    BY <2>2, <2>3, <2>4, BoardInvariance, PTL DEF Spec
<1>2. CASE ~OnlyHostsDie
  <2>1. RecordsAgree
    BY <1>2 DEF RecordsAgree, OnlyHostsDie
  <2>2. QED
    BY <1>2, <2>1, PTL
<1>3. QED
  BY <1>1, <1>2
===============================================================================
