------------------------------- MODULE Scheduler -------------------------------
(***************************************************************************)
(* The benchmark scheduler (benchmark_scheduler.py): a coordinator and      *)
(* several workers that meet only in a MongoDB collection of jobs.          *)
(*                                                                         *)
(* A worker process polls: it claims jobs that fit its free resources and  *)
(* starts a thread for each; the thread runs run.py as a child process,     *)
(* keeps the lease of the job alive meanwhile and reports the exit code.    *)
(* The child writes the result document itself (run.py, result_records.py,  *)
(* db.py).  The coordinator takes back jobs whose lease ran out, skips jobs *)
(* whose precompute failed, fails jobs no worker can hold, makes blocked    *)
(* jobs ready and closes the run.                                          *)
(*                                                                         *)
(* One action is one database operation with the local work around it, and *)
(* Faults names what may go wrong.  Left out is what a document says apart  *)
(* from its state: job_spec.attempt and host (the second update of a claim),*)
(* times, attempt_log, failure texts.                                      *)
(***************************************************************************)
EXTENDS Integers, FiniteSets, FiniteSetsExt

CONSTANTS
  Jobs,            \* the jobs create_run inserts
  Algorithm,       \* Algorithm[j]: "les3-precompute", "les3" or "other"
  Dataset,         \* Dataset[j]
  Tokens,          \* Tokens[j]: CPU tokens the job takes
  Memory,          \* Memory[j]: estimated_memory_bytes
  Rank,            \* Rank[j]: place in the order claim_next_job sorts by
  Workers,         \* worker processes
  NoWorker,        \* no lease_owner
  CpuCores,        \* metadata.cpu_cores, the cpu_capacity of every worker
  UsableMemory,    \* UsableMemory[w]: usable_memory of the host of w
  MemoryPressure,  \* other processes may take memory away
  Launched,        \* the coordinator started the workers itself
  MaxAttempts,     \* MAX_LEASE_ATTEMPTS
  Faults           \* what may go wrong, see below

PossibleFaults == {
  "host_crash",         \* a host dies with its worker and the children on it
  "orphan",             \* a worker process is killed, its children live on
  "silent_exit",        \* a child does not start, dies or cannot write its result
  "stall",              \* a lease is not renewed in time by a living thread
  "lost_ack",           \* a database call of a job thread raises, done or not
  "loop_error",         \* a database call of a worker's main loop raises
  "interrupt",          \* KeyboardInterrupt in the coordinator
  "coordinator_crash" } \* the coordinator is killed, or a call of its raises

Terminal == {"success", "failed", "skipped"}   \* TERMINAL_STATES

\* The precompute jobs job j waits for.
DependsOn(j) ==
  {p \in Jobs : /\ Algorithm[j] = "les3"
                /\ Algorithm[p] = "les3-precompute"
                /\ Dataset[p] = Dataset[j]}

\* A run without jobs is not made; generate_jobs makes one precompute job per
\* dataset (a run names each once); tokens_for caps the tokens at cpu_cores.
ASSUME SchedulerAssumption ==
  /\ Jobs # {} /\ IsFiniteSet(Jobs)
  /\ IsFiniteSet(Workers)
  /\ NoWorker \notin Workers
  /\ Algorithm \in [Jobs -> {"les3-precompute", "les3", "other"}]
  /\ \A j \in Jobs : \A p, q \in DependsOn(j) : p = q
  /\ CpuCores \in Nat \ {0}
  /\ Tokens \in [Jobs -> 1 .. CpuCores]
  /\ Memory \in [Jobs -> Nat]
  /\ Rank \in [Jobs -> Nat]
  /\ \A i, j \in Jobs : Rank[i] = Rank[j] => i = j
  /\ UsableMemory \in [Workers -> Nat]
  /\ MemoryPressure \in BOOLEAN
  /\ Launched \in BOOLEAN
  /\ MaxAttempts \in Nat \ {0}
  /\ Faults \subseteq PossibleFaults

VARIABLES
  run,       \* state of the run document
  jobs,      \* jobs[j]: the job document
  records,   \* records[j]: state of the result document of job j, "none" if none
  seen,      \* workers with a heartbeat young enough for active_worker_capacities
  wpc,       \* wpc[w]: where the main loop of worker w is
  free,      \* free[w]: resources at its last snapshot
  used,      \* used[w]: what its ResourcePool has reserved
  held,      \* held[w]: the job claimed and not launched yet, as a set
  threads,   \* job threads of living workers
  children,  \* run.py processes
  cpc,       \* where the coordinator is
  agenda,    \* job documents it has read and not handled yet
  owed       \* result documents it still has to write

database    == <<run, jobs, records, seen>>
workerVars  == <<wpc, free, used, held, threads>>
coordinator == <<cpc, agenda, owed>>
vars        == <<database, workerVars, children, coordinator>>

Resources  == [cpu : Nat, memory : Nat]
NoResource == [cpu |-> 0, memory |-> 0]

JobDocuments == [state : {"pending", "running"} \cup Terminal,
                 ready : BOOLEAN,
                 owner : Workers \cup {NoWorker},   \* lease_owner
                 lapsed : BOOLEAN,                  \* lease_expires_at has passed
                 attempts : Nat]

Claims   == [job : Jobs, attempt : Nat]
Threads  == [job : Jobs, attempt : Nat, worker : Workers,
             at : {"run", "success", "failed", "recover", "rewrite", "release"}]
Children == [job : Jobs, attempt : Nat, worker : Workers,
             at : {"busy", "success", "failed"}]
Copies   == [job : Jobs, attempts : Nat, owner : Workers \cup {NoWorker}]
Debts    == [job : Jobs, state : {"failed", "skipped"}]

TypeOK ==
  /\ run \in {"running", "completed", "failed", "stopping"}
  /\ jobs \in [Jobs -> JobDocuments]
  /\ records \in [Jobs -> {"none"} \cup Terminal]
  /\ seen \subseteq Workers
  /\ wpc \in [Workers -> {"poll", "ask", "take", "launch", "check", "raised",
                          "exited", "crashed"}]
  /\ free \in [Workers -> Resources]
  /\ used \in [Workers -> Resources]
  /\ held \in [Workers -> SUBSET Claims]
  /\ threads \subseteq Threads
  /\ children \subseteq Children
  /\ cpc \in {"find", "expire", "skip1", "capacity", "unfit", "skip2", "refresh",
              "complete", "done", "crashed"}
  /\ agenda \subseteq Copies
  /\ owed \subseteq Debts

\* build_scheduler_jobs, create_run, WorkerLauncher.start.
Init ==
  /\ run = "running"
  /\ jobs = [j \in Jobs |-> [state |-> "pending", ready |-> DependsOn(j) = {},
                             owner |-> NoWorker, lapsed |-> FALSE,
                             attempts |-> 0]]
  /\ records = [j \in Jobs |-> "none"]
  /\ seen = {}
  /\ wpc = [w \in Workers |-> "poll"]
  /\ free = [w \in Workers |-> NoResource]
  /\ used = [w \in Workers |-> NoResource]
  /\ held = [w \in Workers |-> {}]
  /\ threads = {}
  /\ children = {}
  /\ cpc = "find"
  /\ agenda = {}
  /\ owed = {}

-------------------------------------------------------------------------------
(* The job document. *)
JobsIn(state) == {j \in Jobs : jobs[j].state = state}

\* Takes job j out of "running" or "pending"; the lease goes with it.
Moved(j, state) ==
  [jobs EXCEPT ![j].state = state, ![j].owner = NoWorker, ![j].lapsed = FALSE]

\* Mutant of Reported: the filter on state and lease_owner is missing.
Reported_Unguarded(j, w, state) == Moved(j, state)

\* complete_job: a filtered update, without effect when the lease is gone.
Reported(j, w, state) ==
  IF jobs[j].state = "running" /\ jobs[j].owner = w THEN Moved(j, state) ELSE jobs

-------------------------------------------------------------------------------
(* The main loop of a worker, WorkerAgent.run. *)
Alive(w) == wpc[w] \notin {"exited", "crashed"}

ThreadsOf(w) == {th \in threads : th.worker = w}

Rest(total, taken) == IF taken < total THEN total - taken ELSE 0

\* ResourcePool.snapshot; what the system has free may be less than what is left
\* of the estimates.
Snapshot(w, use) ==
  {[cpu |-> Rest(CpuCores, use.cpu), memory |-> m] :
     m \in IF MemoryPressure
           THEN 0 .. Rest(UsableMemory[w], use.memory)
           ELSE {Rest(UsableMemory[w], use.memory)}}

NextPlace(snapshot) ==
  IF snapshot.cpu > 0 /\ snapshot.memory > 0 THEN "ask" ELSE "check"

Poll(w) ==
  /\ wpc[w] = "poll"
  /\ seen' = seen \cup {w}
  /\ \E s \in Snapshot(w, used[w]) :
       /\ free' = [free EXCEPT ![w] = s]
       /\ wpc' = [wpc EXCEPT ![w] = NextPlace(s)]
  /\ UNCHANGED <<run, jobs, records, used, held, threads, children, coordinator>>

\* claim_next_job reads the run first ...
AskRun(w) ==
  /\ wpc[w] = "ask"
  /\ wpc' = [wpc EXCEPT ![w] = IF run = "running" THEN "take" ELSE "check"]
  /\ UNCHANGED <<database, free, used, held, threads, children, coordinator>>

\* Mutant of Fits: a job that is running already is taken as well.
Fits_Running(j, s) ==
  /\ jobs[j].state \in {"pending", "running"}
  /\ jobs[j].ready
  /\ Tokens[j] <= s.cpu
  /\ Memory[j] <= s.memory

\* ... and then takes the first job that fits, if there is one.
Fits(j, s) ==
  /\ jobs[j].state = "pending"
  /\ jobs[j].ready
  /\ Tokens[j] <= s.cpu
  /\ Memory[j] <= s.memory

Take(w) ==
  /\ wpc[w] = "take"
  /\ \E j \in Jobs :
       /\ Fits(j, free[w])
       /\ \A i \in Jobs : Fits(i, free[w]) => Rank[j] <= Rank[i]
       /\ jobs' = [jobs EXCEPT ![j].state = "running", ![j].owner = w,
                               ![j].lapsed = FALSE, ![j].attempts = @ + 1]
       /\ held' = [held EXCEPT ![w] = {[job |-> j,
                                        attempt |-> jobs[j].attempts + 1]}]
  /\ wpc' = [wpc EXCEPT ![w] = "launch"]
  /\ UNCHANGED <<run, records, seen, free, used, threads, children, coordinator>>

TakeNothing(w) ==
  /\ wpc[w] = "take"
  /\ \A j \in Jobs : ~Fits(j, free[w])
  /\ wpc' = [wpc EXCEPT ![w] = "check"]
  /\ UNCHANGED <<database, free, used, held, threads, children, coordinator>>

\* Mutant of Launch: the snapshot taken before the claim is used again.
Launch_StaleSnapshot(w) ==
  /\ wpc[w] = "launch"
  /\ \E h \in held[w] :
       LET use == [cpu |-> used[w].cpu + Tokens[h.job],
                   memory |-> used[w].memory + Memory[h.job]]
       IN /\ used' = [used EXCEPT ![w] = use]
          /\ threads' = threads \cup {[job |-> h.job, attempt |-> h.attempt,
                                       worker |-> w, at |-> "run"]}
          /\ children' = children \cup {[job |-> h.job, attempt |-> h.attempt,
                                         worker |-> w, at |-> "busy"]}
  /\ wpc' = [wpc EXCEPT ![w] = NextPlace(free[w])]
  /\ held' = [held EXCEPT ![w] = {}]
  /\ UNCHANGED <<database, free, coordinator>>

\* The job is reserved, its thread starts run.py, and a snapshot is taken again.
Launch(w) ==
  /\ wpc[w] = "launch"
  /\ \E h \in held[w] :
       LET use == [cpu |-> used[w].cpu + Tokens[h.job],
                   memory |-> used[w].memory + Memory[h.job]]
       IN /\ used' = [used EXCEPT ![w] = use]
          /\ threads' = threads \cup {[job |-> h.job, attempt |-> h.attempt,
                                       worker |-> w, at |-> "run"]}
          /\ children' = children \cup {[job |-> h.job, attempt |-> h.attempt,
                                         worker |-> w, at |-> "busy"]}
          /\ \E s \in Snapshot(w, use) :
               /\ free' = [free EXCEPT ![w] = s]
               /\ wpc' = [wpc EXCEPT ![w] = NextPlace(s)]
  /\ held' = [held EXCEPT ![w] = {}]
  /\ UNCHANGED <<database, coordinator>>

\* The worker leaves when the run is over and its threads have ended (the code
\* counts them at the head of the loop, which may take one round more).
Check(w) ==
  /\ wpc[w] = "check"
  /\ wpc' = [wpc EXCEPT ![w] =
               IF run # "running" /\ ThreadsOf(w) = {} THEN "exited" ELSE "poll"]
  /\ UNCHANGED <<database, free, used, held, threads, children, coordinator>>

\* A call in the loop raises: the client is closed, a job just claimed is lost,
\* and the process ends with an error after its threads.
LoopRaises(w) ==
  /\ "loop_error" \in Faults
  /\ wpc[w] \in {"poll", "ask", "take", "launch", "check"}
  /\ wpc' = [wpc EXCEPT ![w] = "raised"]
  /\ held' = [held EXCEPT ![w] = {}]
  /\ UNCHANGED <<database, free, used, threads, children, coordinator>>

Leave(w) ==
  /\ wpc[w] = "raised"
  /\ ThreadsOf(w) = {}
  /\ wpc' = [wpc EXCEPT ![w] = "crashed"]
  /\ UNCHANGED <<database, free, used, held, threads, children, coordinator>>

-------------------------------------------------------------------------------
(* A job thread, _execute_claimed_job, and its lease. *)
GoesTo(th, place) == threads' = (threads \ {th}) \cup {[th EXCEPT !.at = place]}

\* The child has exited and its exit code is reported.
Report(th) ==
  /\ th.at \in {"success", "failed"}
  /\ jobs' = Reported(th.job, th.worker, th.at)
  /\ GoesTo(th, "release")
  /\ UNCHANGED <<run, records, seen, wpc, free, used, held, children, coordinator>>

\* The report raises: the exception handler reports a failure instead ...
ReportRaises(th) ==
  /\ "lost_ack" \in Faults
  /\ th.at \in {"success", "failed"}
  /\ jobs' \in {jobs, Reported(th.job, th.worker, th.at)}
  /\ GoesTo(th, "recover")
  /\ UNCHANGED <<run, records, seen, wpc, free, used, held, children, coordinator>>

Recover(th) ==
  /\ th.at = "recover"
  /\ jobs' = Reported(th.job, th.worker, "failed")
  /\ GoesTo(th, "rewrite")
  /\ UNCHANGED <<run, records, seen, wpc, free, used, held, children, coordinator>>

RecoverRaises(th) ==
  /\ "lost_ack" \in Faults
  /\ th.at = "recover"
  /\ jobs' \in {jobs, Reported(th.job, th.worker, "failed")}
  /\ GoesTo(th, "release")
  /\ UNCHANGED <<run, records, seen, wpc, free, used, held, children, coordinator>>

\* ... and replaces the result document, whatever the job document says.
Rewrite(th) ==
  /\ th.at = "rewrite"
  /\ \/ records' = [records EXCEPT ![th.job] = "failed"]
     \/ "lost_ack" \in Faults /\ UNCHANGED records
  /\ GoesTo(th, "release")
  /\ UNCHANGED <<run, jobs, seen, wpc, free, used, held, children, coordinator>>

Release(th) ==
  /\ th.at = "release"
  /\ used' = [used EXCEPT
                ![th.worker] = [cpu |-> Rest(@.cpu, Tokens[th.job]),
                                memory |-> Rest(@.memory, Memory[th.job])]]
  /\ threads' = threads \ {th}
  /\ UNCHANGED <<database, wpc, free, held, children, coordinator>>

\* The renewer lives until the thread is done with its reports.
Renews(th, j) ==
  th.job = j /\ th.worker = jobs[j].owner /\ th.at # "release"

RenewLease(th) ==
  /\ jobs[th.job].state = "running"
  /\ jobs[th.job].lapsed
  /\ Renews(th, th.job)
  /\ jobs' = [jobs EXCEPT ![th.job].lapsed = FALSE]
  /\ UNCHANGED <<run, records, seen, workerVars, children, coordinator>>

\* lease_expires_at passes.  A living worker renews every 30 s of the 120, and
\* launches what it has claimed at once; later than that is a "stall".  With the
\* client closed its threads do not get to renew.
KeepsLease(w, j) ==
  /\ wpc[w] # "raised"
  /\ \/ \E th \in threads : Renews(th, j)
     \/ \E h \in held[w] : h.job = j

LeaseLapses(j) ==
  /\ jobs[j].state = "running"
  /\ ~jobs[j].lapsed
  /\ "stall" \in Faults \/ ~KeepsLease(jobs[j].owner, j)
  /\ jobs' = [jobs EXCEPT ![j].lapsed = TRUE]
  /\ UNCHANGED <<run, records, seen, workerVars, children, coordinator>>

-------------------------------------------------------------------------------
(* A child process, run.py. *)

\* The command has ended, well or badly: the result document is replaced.
ChildRecords(c) ==
  /\ c.at = "busy"
  /\ \E outcome \in {"success", "failed"} :
       /\ records' = [records EXCEPT ![c.job] = outcome]
       /\ children' = (children \ {c}) \cup {[c EXCEPT !.at = outcome]}
  /\ UNCHANGED <<run, jobs, seen, workerVars, coordinator>>

\* The thread waiting for child c, if its worker still lives, gets an exit code.
Waiting(c) ==
  {th \in threads : /\ th.job = c.job
                    /\ th.attempt = c.attempt
                    /\ th.worker = c.worker
                    /\ th.at = "run"}

Exits(c, outcome) ==
  /\ children' = children \ {c}
  /\ threads' = (threads \ Waiting(c))
                  \cup {[th EXCEPT !.at = outcome] : th \in Waiting(c)}
  /\ UNCHANGED <<database, wpc, free, used, held, coordinator>>

ChildExits(c) == c.at # "busy" /\ Exits(c, c.at)

\* Mutant of ChildDies: a killed child has no exit code of its own.
ChildDies_NoCode(c) == "silent_exit" \in Faults /\ Exits(c, c.at)

\* Killed at any moment, or write_record raised: a non-zero exit code.
ChildDies(c) == "silent_exit" \in Faults /\ Exits(c, "failed")

\* subprocess.run itself raised: nothing ran, and the exception handler reports.
StartFails(c) ==
  "silent_exit" \in Faults /\ c.at = "busy" /\ Exits(c, "recover")

-------------------------------------------------------------------------------
(* The loop of run_coordinator. *)
Doc(j) == [job |-> j, attempts |-> jobs[j].attempts, owner |-> jobs[j].owner]

Debt(d, state) == [job |-> d.job, state |-> state]

Handled(d) == agenda' = agenda \ {d}

PassOver == agenda = {} /\ owed = {}

\* expire_leases: the expired jobs are read once ...
FindExpired ==
  /\ cpc = "find"
  /\ agenda' = {Doc(j) : j \in {i \in JobsIn("running") : jobs[i].lapsed}}
  /\ cpc' = "expire"
  /\ UNCHANGED <<database, workerVars, children, owed>>

\* Mutant of ExpireLease: one attempt too many.
ExpireLease_OneMore(d) ==
  /\ cpc = "expire"
  /\ IF jobs[d.job].state = "running" /\ jobs[d.job].owner = d.owner
     THEN IF d.attempts > MaxAttempts
          THEN jobs' = Moved(d.job, "failed") /\ owed' = owed \cup {Debt(d, "failed")}
          ELSE jobs' = Moved(d.job, "pending") /\ UNCHANGED owed
     ELSE UNCHANGED <<jobs, owed>>
  /\ Handled(d)
  /\ UNCHANGED <<run, records, seen, workerVars, children, cpc>>

\* ... and each is failed or requeued if it still has the owner it had then.
ExpireLease(d) ==
  /\ cpc = "expire"
  /\ IF jobs[d.job].state = "running" /\ jobs[d.job].owner = d.owner
     THEN IF d.attempts >= MaxAttempts
          THEN jobs' = Moved(d.job, "failed") /\ owed' = owed \cup {Debt(d, "failed")}
          ELSE jobs' = Moved(d.job, "pending") /\ UNCHANGED owed
     ELSE UNCHANGED <<jobs, owed>>
  /\ Handled(d)
  /\ UNCHANGED <<run, records, seen, workerVars, children, cpc>>

\* Mutant of WriteFailure: the call in mark_skipped leaves state="skipped" out.
WriteFailure_DefaultState(o) ==
  /\ cpc = "expire" => agenda = {}
  /\ records' = [records EXCEPT ![o.job] = "failed"]
  /\ owed' = owed \ {o}
  /\ UNCHANGED <<run, jobs, seen, workerVars, children, cpc, agenda>>

\* write_failure, after the whole pass of expire_leases, or right after the
\* update that skipped or failed the job.
WriteFailure(o) ==
  /\ cpc = "expire" => agenda = {}
  /\ records' = [records EXCEPT ![o.job] = o.state]
  /\ owed' = owed \ {o}
  /\ UNCHANGED <<run, jobs, seen, workerVars, children, cpc, agenda>>

\* skip_reason_for_job, with failed_precompute_datasets.
MustSkip(j) == \E p \in DependsOn(j) : jobs[p].state = "failed"

\* apply_skips, called twice in an iteration.  The failed precomputes are read
\* before the pending jobs; as no job leaves "failed", one step stands for both.
FindSkips(from, to) ==
  /\ cpc = from
  /\ PassOver
  /\ agenda' = {Doc(j) : j \in {i \in JobsIn("pending") : MustSkip(i)}}
  /\ cpc' = to
  /\ UNCHANGED <<database, workerVars, children, owed>>

\* mark_skipped, mark_memory_unfit_jobs: the update is filtered by "pending".
GivesUp(d, passes, state) ==
  /\ cpc \in passes
  /\ owed = {}
  /\ IF jobs[d.job].state = "pending"
     THEN jobs' = [jobs EXCEPT ![d.job].state = state] /\ owed' = {Debt(d, state)}
     ELSE UNCHANGED <<jobs, owed>>
  /\ Handled(d)
  /\ UNCHANGED <<run, records, seen, workerVars, children, cpc>>

MarkSkipped(d) == GivesUp(d, {"skip1", "skip2"}, "skipped")

MarkMemoryUnfit(d) == GivesUp(d, {"unfit"}, "failed")

\* A worker the launcher started has exited with an error: the run has failed.
CheckWorkers ==
  /\ cpc = "skip1"
  /\ PassOver
  /\ IF Launched /\ \E w \in Workers : wpc[w] = "crashed"
     THEN run' = "failed" /\ cpc' = "done"
     ELSE UNCHANGED run /\ cpc' = IF Launched THEN "capacity" ELSE "refresh"
  /\ UNCHANGED <<jobs, records, seen, workerVars, children, agenda, owed>>

\* Mutant of NoWorkerCanHold: only the tokens are compared.
NoWorkerCanHold_TokensOnly(j) ==
  /\ seen = Workers
  /\ seen # {}
  /\ Tokens[j] > CpuCores

\* mark_memory_unfit_jobs compares with the maxima over the workers seen, once
\* as many were seen as are expected.
NoWorkerCanHold(j) ==
  /\ seen = Workers
  /\ seen # {}
  /\ \/ Tokens[j] > CpuCores
     \/ \A w \in seen : Memory[j] > UsableMemory[w]

FindUnfit ==
  /\ cpc = "capacity"
  /\ agenda' = {Doc(j) : j \in {i \in JobsIn("pending") : NoWorkerCanHold(i)}}
  /\ cpc' = "unfit"
  /\ UNCHANGED <<database, workerVars, children, owed>>

\* Mutant of IsReady: a precompute that has ended is enough.
IsReady_AfterEnd(j) == \A p \in DependsOn(j) : jobs[p].state \in Terminal

\* _job_is_ready
IsReady(j) == DependsOn(j) # {} => \E p \in DependsOn(j) : jobs[p].state = "success"

RefreshReady ==
  /\ cpc = "refresh" \/ (cpc = "skip2" /\ PassOver)
  /\ jobs' = [j \in Jobs |-> IF jobs[j].state = "pending" /\ IsReady(j)
                             THEN [jobs[j] EXCEPT !.ready = TRUE]
                             ELSE jobs[j]]
  /\ cpc' = "complete"
  /\ UNCHANGED <<run, records, seen, workerVars, children, agenda, owed>>

\* complete_run_if_done, and the test at the end of the iteration.
RunIsDone == \A j \in Jobs : jobs[j].state \in Terminal

CompleteRun ==
  /\ cpc = "complete"
  /\ IF RunIsDone
     THEN run' = "completed" /\ cpc' = "done"
     ELSE UNCHANGED run /\ cpc' = "find"
  /\ UNCHANGED <<jobs, records, seen, workerVars, children, agenda, owed>>

Coordinate ==
  \/ FindExpired
  \/ \E d \in agenda : ExpireLease(d) \/ MarkSkipped(d) \/ MarkMemoryUnfit(d)
  \/ \E o \in owed : WriteFailure(o)
  \/ FindSkips("expire", "skip1")
  \/ CheckWorkers
  \/ FindUnfit
  \/ FindSkips("unfit", "skip2")
  \/ RefreshReady
  \/ CompleteRun

-------------------------------------------------------------------------------
(* Faults. *)
CoordinatorIsGone == cpc \in {"done", "crashed"}

\* A worker process ends without cleaning up.  After the end of the coordinator
\* that is WorkerLauncher.terminate, which reaches local workers only.
Crash(w) ==
  /\ Alive(w)
  /\ \/ "host_crash" \in Faults /\ children' = {c \in children : c.worker # w}
     \/ /\ "orphan" \in Faults \/ (Launched /\ CoordinatorIsGone)
        /\ UNCHANGED children
  /\ wpc' = [wpc EXCEPT ![w] = "crashed"]
  /\ threads' = threads \ ThreadsOf(w)
  /\ held' = [held EXCEPT ![w] = {}]
  /\ UNCHANGED <<database, free, used, coordinator>>

\* The last heartbeat of w gets older than 180 s.
HeartbeatAges(w) ==
  /\ w \in seen
  /\ wpc[w] \in {"raised", "exited", "crashed"} \/ "stall" \in Faults
  /\ seen' = seen \ {w}
  /\ UNCHANGED <<run, jobs, records, workerVars, children, coordinator>>

Interrupt ==
  /\ "interrupt" \in Faults
  /\ ~CoordinatorIsGone
  /\ run' = "stopping"
  /\ cpc' = "done"
  /\ agenda' = {}
  /\ owed' = {}
  /\ UNCHANGED <<jobs, records, seen, workerVars, children>>

CoordinatorCrash ==
  /\ "coordinator_crash" \in Faults
  /\ ~CoordinatorIsGone
  /\ cpc' = "crashed"
  /\ agenda' = {}
  /\ owed' = {}
  /\ UNCHANGED <<database, workerVars, children>>

-------------------------------------------------------------------------------
Work(w) ==
  \/ Poll(w) \/ AskRun(w) \/ Take(w) \/ TakeNothing(w) \/ Launch(w) \/ Check(w)
  \/ Leave(w)

ThreadStep(th) ==
  \/ Report(th) \/ ReportRaises(th)
  \/ Recover(th) \/ RecoverRaises(th)
  \/ Rewrite(th)
  \/ Release(th)

ChildStep(c) == ChildRecords(c) \/ ChildExits(c) \/ ChildDies(c) \/ StartFails(c)

Next ==
  \/ Coordinate
  \/ \E w \in Workers : Work(w) \/ LoopRaises(w) \/ Crash(w) \/ HeartbeatAges(w)
  \/ \E th \in threads : ThreadStep(th) \/ RenewLease(th)
  \/ \E c \in children : ChildStep(c)
  \/ \E j \in Jobs : LeaseLapses(j)
  \/ Interrupt
  \/ CoordinatorCrash

Spec == Init /\ [][Next]_vars

\* The coordinator and the workers loop, threads and children get on with their
\* work, and time passes.  No fault has to happen.
Fairness ==
  /\ WF_vars(Coordinate)
  /\ \A w \in Workers : WF_vars(Work(w))
  /\ \A j \in Jobs, w \in Workers :
       /\ WF_vars(\E th \in ThreadsOf(w) : th.job = j /\ ThreadStep(th))
       /\ WF_vars(\E c \in children :
                    c.job = j /\ c.worker = w /\ (ChildRecords(c) \/ ChildExits(c)))
  /\ \A j \in Jobs : WF_vars(LeaseLapses(j))

FairSpec == Spec /\ Fairness

-------------------------------------------------------------------------------
\* As long as workers only end with their hosts and renew in time, the lease is
\* exclusive: a process that executes a job does so for the attempt the job
\* document names, under the lease of its own worker, and is the only one.
WorkIsLeased ==
  {"stall", "orphan", "loop_error"} \cap Faults = {} =>
    /\ \A c \in children : /\ jobs[c.job].state = "running"
                           /\ jobs[c.job].owner = c.worker
                           /\ jobs[c.job].attempts = c.attempt
    /\ \A c, d \in children : c.job = d.job => c = d

\* A worker never promises more than it has: its reservations are those of its
\* threads, neither leaked nor given back twice, and they fit its resources.
CapacityKept ==
  \A w \in Workers : Alive(w) =>
    /\ used[w].cpu = MapThenSumSet(LAMBDA th : Tokens[th.job], ThreadsOf(w))
    /\ used[w].memory = MapThenSumSet(LAMBDA th : Memory[th.job], ThreadsOf(w))
    /\ used[w].cpu <= CpuCores
    /\ used[w].memory <= UsableMemory[w]

\* The two collections agree: if nothing worse happens than hosts dying, a job
\* that has ended has a result document of that very state, although children,
\* coordinator and retries write it in an order of their own.
RecordsAgree ==
  Faults \subseteq {"host_crash"} =>
    \A j \in Jobs : jobs[j].state \in Terminal /\ (\A o \in owed : o.job # j)
                    => records[j] = jobs[j].state

\* A job is skipped instead of being run, never after having been run.
SkippedNeverStarted ==
  \A j \in Jobs : jobs[j].state = "skipped" => jobs[j].attempts = 0

\* No late report, late lease check or late skip changes how a job has ended.
OutcomesAreFinal ==
  [][\A j \in Jobs : jobs[j].state \in Terminal
                     => jobs'[j].state = jobs[j].state]_vars

\* A run whose workers the coordinator has started comes to an end, whatever
\* jobs fail, do not fit or lose their worker.
RunEnds == Launched => <>(cpc = "done")

Board == INSTANCE JobBoard WITH
  Needs    <- [j \in Jobs |-> DependsOn(j)],
  state    <- [j \in Jobs |-> jobs[j].state],
  attempts <- [j \in Jobs |-> jobs[j].attempts]

\* The scheduler keeps the promises of JobBoard.
ImplementsBoard == Board!BoardSpec
===============================================================================
