------------------------------- MODULE JobBoard -------------------------------
(***************************************************************************)
(* What the benchmark scheduler promises of the jobs of one run, whoever   *)
(* claims, executes, loses or reports them: a job is started at most       *)
(* MaxAttempts times and only after the job it needs has succeeded, it is   *)
(* skipped only when that job has failed, it ends once, and the run is     *)
(* called completed only when every job has ended.                         *)
(***************************************************************************)
EXTENDS Naturals

CONSTANTS
  Jobs,        \* the jobs of the run
  Needs,       \* Needs[j]: the jobs whose success job j waits for
  MaxAttempts

VARIABLES
  state,       \* state[j]
  attempts,    \* attempts[j]: times job j was started
  run          \* state of the run

boardVars == <<state, attempts, run>>

Ended == {"success", "failed", "skipped"}

BoardInit ==
  /\ state = [j \in Jobs |-> "pending"]
  /\ attempts = [j \in Jobs |-> 0]
  /\ run = "running"

Start(j) ==
  /\ state[j] = "pending"
  /\ attempts[j] < MaxAttempts
  /\ \A n \in Needs[j] : state[n] = "success"
  /\ state' = [state EXCEPT ![j] = "running"]
  /\ attempts' = [attempts EXCEPT ![j] = @ + 1]
  /\ UNCHANGED run

\* A started job ends, or goes back while an attempt is left.
Finish(j) ==
  /\ state[j] = "running"
  /\ \/ \E outcome \in {"success", "failed"} :
          state' = [state EXCEPT ![j] = outcome]
     \/ /\ attempts[j] < MaxAttempts
        /\ state' = [state EXCEPT ![j] = "pending"]
  /\ UNCHANGED <<attempts, run>>

\* A job no worker can run fails without having been started.
GiveUp(j) ==
  /\ state[j] = "pending"
  /\ state' = [state EXCEPT ![j] = "failed"]
  /\ UNCHANGED <<attempts, run>>

Skip(j) ==
  /\ state[j] = "pending"
  /\ \E n \in Needs[j] : state[n] = "failed"
  /\ state' = [state EXCEPT ![j] = "skipped"]
  /\ UNCHANGED <<attempts, run>>

Complete ==
  /\ run = "running"
  /\ \A j \in Jobs : state[j] \in Ended
  /\ run' = "completed"
  /\ UNCHANGED <<state, attempts>>

Abandon ==
  /\ run = "running"
  /\ run' \in {"failed", "stopping"}
  /\ UNCHANGED <<state, attempts>>

BoardNext ==
  \/ \E j \in Jobs : Start(j) \/ Finish(j) \/ GiveUp(j) \/ Skip(j)
  \/ Complete
  \/ Abandon

BoardSpec == BoardInit /\ [][BoardNext]_boardVars
===============================================================================
