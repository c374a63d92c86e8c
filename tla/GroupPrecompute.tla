---------------------------- MODULE GroupPrecompute ----------------------------
(***************************************************************************)
(* train_l2p (les3/precompute/l2p_core.py): the grouping of a data set that *)
(* the LES3 join reads.  The records are cut into initial groups, and level *)
(* by level every group is split in two.  A run may take hours and may die  *)
(* at any point; the next run goes on from the files it left: one file per  *)
(* completed level, and for the level in progress a file of groups and a    *)
(* record of how many parent groups they stand for.                         *)
(*                                                                         *)
(* A group is the set of its record ids; records are numbered in the order *)
(* of their smallest tokens.  How a group is split is the outcome of a      *)
(* trained model: any cut in two, or none.  A write to a temporary file     *)
(* that is then renamed is one step; the embedding, rewritten by every run  *)
(* before the training starts, is part of Start.                            *)
(***************************************************************************)
EXTENDS Integers, FiniteSets, Sequences

CONSTANTS
  Cardinalities,     \* sizes of the data sets tried
  InitialGroups,     \* INITIAL_GROUPS
  PartitionThreshold,\* PARTITION_THRESHOLD
  RecordsPerGroup,   \* 1 / TARGET_GROUP_FRACTION
  Faults,            \* "kill": the process dies; "power_loss": the host does
  MaxFaults          \* bound: faults of one behaviour

ASSUME PrecomputeAssumption ==
  /\ Cardinalities \subseteq Nat
  /\ InitialGroups \in Nat \ {0}
  /\ PartitionThreshold \in Nat \ {0, 1}
  /\ RecordsPerGroup \in Nat \ {0}
  /\ Faults \subseteq {"kill", "power_loss"}
  /\ MaxFaults \in Nat

VARIABLES
  cardinality,  \* number of records
  disk,         \* disk[name]: the group files there are
  progress,     \* progress[l]: the record of the level l in progress, if any
  pc,           \* where the run is
  current,      \* the level whose groups are parents
  parents,      \* groups to split
  next,         \* groups of the next level so far
  done,         \* parents split
  faults,       \* faults so far
  powerLost     \* whether one of them was a loss of power

run == <<pc, current, parents, next, done>>
env == <<cardinality, faults, powerLost>>
vars == <<disk, progress, run, env>>

Records == 0 .. (cardinality - 1)

-------------------------------------------------------------------------------
(* Files.  The first durable groups of a file survive a loss of power.      *)
LevelFile(l) == [kind |-> "level", level |-> l]
PartFile(l) == [kind |-> "in-progress", level |-> l]
FinalFile == [kind |-> "final", level |-> 0]

Put(f, name, value) ==
  [x \in DOMAIN f \cup {name} |-> IF x = name THEN value ELSE f[x]]

Without(f, name) == [x \in DOMAIN f \ {name} |-> f[x]]

Written(groups) == [groups |-> groups, durable |-> 0]

Members(groups) == UNION {groups[i] : i \in DOMAIN groups}

Distinct(groups) ==
  \A i, j \in DOMAIN groups : i # j => groups[i] \cap groups[j] = {}

\* read_groups: no record twice, none missing.  The reader in C++ asks the same.
Readable(name) ==
  LET groups == disk[name].groups
  IN Distinct(groups) /\ Members(groups) = Records

FirstGroups(name, n) == SubSeq(disk[name].groups, 1, n)

\* read_partial_groups: the first n groups, none of them cut off.
PartReadable(name, n) ==
  n <= Len(disk[name].groups) /\ Distinct(FirstGroups(name, n))

-------------------------------------------------------------------------------
(* The plan of a data set. *)
CeilDiv(a, b) == (a + b - 1) \div b

\* Mutant of InitialPartition: the last group, which is not full, is left out.
InitialPartition_FullOnly(n) ==
  LET size == n \div InitialGroups
  IN IF size = 0 THEN <<>>
     ELSE [i \in 1 .. (n \div size) |-> ((i - 1) * size) .. (i * size - 1)]

\* initialize_groups: chunks of equal size and a last one with the rest.
InitialPartition(n) ==
  LET size == n \div InitialGroups
  IN IF size = 0 THEN <<>>
     ELSE [i \in 1 .. CeilDiv(n, size) |->
             {id \in 0 .. (n - 1) : id \div size = i - 1}]

TargetGroups(n) == CeilDiv(n, RecordsPerGroup)

\* deduce_level_count: as many doublings as fall short of the target.
LevelCount(n) ==
  LET initial == Len(InitialPartition(n)) IN
  IF initial = 0 THEN 0
  ELSE Cardinality({l \in 0 .. TargetGroups(n) : initial * 2 ^ l < TargetGroups(n)})

Levels == LevelCount(cardinality)

\* split_group.  A model that puts all records on one side leaves the cut to
\* split_randomly, which may do so again; records that are all alike stay.
Splits(group) ==
  {<<group>>} \cup
    IF Cardinality(group) < PartitionThreshold THEN {}
    ELSE {<<first, group \ first>> : first \in (SUBSET group) \ {{}, group}}

Init ==
  /\ cardinality \in Cardinalities
  /\ disk = <<>>
  /\ progress = <<>>
  /\ pc = "off"
  /\ current = 0
  /\ parents = <<>>
  /\ next = <<>>
  /\ done = 0
  /\ faults = 0
  /\ powerLost = FALSE

-------------------------------------------------------------------------------
(* A run. *)
Start ==
  /\ pc \in {"off", "failed", "done"}
  /\ pc' = IF cardinality \in 1 .. (InitialGroups - 1) THEN "failed" ELSE "zero"
  /\ UNCHANGED <<disk, progress, current, parents, next, done, env>>

WriteLevelZero ==
  /\ pc = "zero"
  /\ disk' = IF LevelFile(0) \in DOMAIN disk THEN disk
             ELSE Put(disk, LevelFile(0), Written(InitialPartition(cardinality)))
  /\ pc' = "load"
  /\ UNCHANGED <<progress, current, parents, next, done, env>>

IsCompleted(l) == LevelFile(l) \in DOMAIN disk /\ Readable(LevelFile(l))

\* The levels before the first that is missing or not readable.
CompletedLevels ==
  CHOOSE l \in 0 .. Levels :
    /\ \A x \in 1 .. l : IsCompleted(x)
    /\ l < Levels => ~IsCompleted(l + 1)

\* load_resume_state.  Only the file of level 0 must be readable.
LoadState ==
  /\ pc = "load"
  /\ IF Readable(LevelFile(0))
     THEN /\ current' = CompletedLevels
          /\ parents' = disk[LevelFile(CompletedLevels)].groups
          /\ pc' = IF CompletedLevels = Levels THEN "copy" ELSE "resume"
     ELSE /\ pc' = "failed"
          /\ UNCHANGED <<current, parents>>
  /\ UNCHANGED <<disk, progress, next, done, env>>

\* The level being made, its file and what was recorded of it.
Part == PartFile(current + 1)

HasProgress == current + 1 \in DOMAIN progress

Recorded ==
  IF HasProgress THEN progress[current + 1]
  ELSE [parents |-> 0, lines |-> 0, readable |-> TRUE]

\* Mutant of LoadProgress: groups beyond the recorded ones stay in the file.
LoadProgress_KeepsTail ==
  /\ pc = "resume"
  /\ IF /\ Part \in DOMAIN disk
        /\ Recorded.readable
        /\ PartReadable(Part, Recorded.lines)
     THEN /\ next' = FirstGroups(Part, Recorded.lines)
          /\ done' = Recorded.parents
     ELSE UNCHANGED <<next, done>>
  /\ pc' = "open"
  /\ UNCHANGED <<disk, progress, current, parents, env>>

\* load_in_progress_level: the recorded groups alone are written back.  When
\* they cannot be read the level begins anew, and the record stays.
LoadProgress ==
  /\ pc = "resume"
  /\ IF /\ Part \in DOMAIN disk
        /\ Recorded.readable
        /\ PartReadable(Part, Recorded.lines)
     THEN LET groups == FirstGroups(Part, Recorded.lines) IN
          /\ next' = groups
          /\ done' = Recorded.parents
          /\ disk' = Put(disk, Part, Written(groups))
     ELSE UNCHANGED <<next, done, disk>>
  /\ pc' = "open"
  /\ UNCHANGED <<progress, current, parents, env>>

\* Mutant of AfterParent: one parent too many.
AfterParent_OneMore(n) == IF n > Len(parents) THEN "finish" ELSE "split"

AfterParent(n) == IF n = Len(parents) THEN "finish" ELSE "split"

\* Mutant of OpenPart: the file is emptied even when parents were done.
OpenPart_Truncates ==
  /\ pc = "open"
  /\ pc' = AfterParent(done)
  /\ disk' = Put(disk, Part, Written(<<>>))
  /\ UNCHANGED <<progress, current, parents, next, done, env>>

\* The file is opened to append, or emptied when no parent was done; more parents
\* than there are are not believed.
OpenPart ==
  /\ pc = "open"
  /\ IF done \in 1 .. Len(parents)
     THEN /\ pc' = AfterParent(done)
          /\ UNCHANGED <<disk, next, done>>
     ELSE /\ pc' = AfterParent(0)
          /\ disk' = Put(disk, Part, Written(<<>>))
          /\ next' = <<>>
          /\ done' = 0
  /\ UNCHANGED <<progress, current, parents, env>>

SplitParent ==
  /\ pc = "split"
  /\ \E split \in Splits(parents[done + 1]) :
       /\ disk' = [disk EXCEPT ![Part].groups = @ \o split]
       /\ next' = next \o split
  /\ pc' = "sync"
  /\ UNCHANGED <<progress, current, parents, done, env>>

\* Mutant of SyncPart: flushed to the system only.
SyncPart_FlushOnly ==
  /\ pc = "sync"
  /\ pc' = "record"
  /\ UNCHANGED <<disk, progress, current, parents, next, done, env>>

\* os.fsync of the file in progress, the only one.
SyncPart ==
  /\ pc = "sync"
  /\ disk' = [disk EXCEPT ![Part].durable = Len(disk[Part].groups)]
  /\ pc' = "record"
  /\ UNCHANGED <<progress, current, parents, next, done, env>>

\* Mutant of RecordProgress: one line is recorded for every parent.
RecordProgress_LineEach ==
  /\ pc = "record"
  /\ progress' = Put(progress, current + 1,
                     [parents |-> done + 1, lines |-> done + 1, readable |-> TRUE])
  /\ done' = done + 1
  /\ pc' = AfterParent(done + 1)
  /\ UNCHANGED <<disk, current, parents, next, env>>

\* write_level_progress.
RecordProgress ==
  /\ pc = "record"
  /\ progress' = Put(progress, current + 1,
                     [parents |-> done + 1, lines |-> Len(next), readable |-> TRUE])
  /\ done' = done + 1
  /\ pc' = AfterParent(done + 1)
  /\ UNCHANGED <<disk, current, parents, next, env>>

\* The file in progress becomes the file of the level,
FinishLevel ==
  /\ pc = "finish"
  /\ disk' = Without(Put(disk, LevelFile(current + 1), disk[Part]), Part)
  /\ pc' = "forget"
  /\ UNCHANGED <<progress, current, parents, next, done, env>>

\* and only then is its record removed; its groups are the next parents.
ForgetProgress ==
  /\ pc = "forget"
  /\ progress' = Without(progress, current + 1)
  /\ current' = current + 1
  /\ parents' = next
  /\ next' = <<>>
  /\ done' = 0
  /\ pc' = IF current + 1 = Levels THEN "copy" ELSE "resume"
  /\ UNCHANGED <<disk, env>>

NoRun == current' = 0 /\ parents' = <<>> /\ next' = <<>> /\ done' = 0

\* copy_final_level.
CopyFinal ==
  /\ pc = "copy"
  /\ disk' = Put(disk, FinalFile, Written(disk[LevelFile(Levels)].groups))
  /\ NoRun
  /\ pc' = "done"
  /\ UNCHANGED <<progress, env>>

Run ==
  \/ Start \/ WriteLevelZero \/ LoadState \/ LoadProgress \/ OpenPart
  \/ SplitParent \/ SyncPart \/ RecordProgress \/ FinishLevel \/ ForgetProgress
  \/ CopyFinal

-------------------------------------------------------------------------------
(* Faults. *)
Fault(kind) ==
  /\ kind \in Faults
  /\ faults < MaxFaults
  /\ faults' = faults + 1
  /\ powerLost' = (powerLost \/ kind = "power_loss")
  /\ NoRun
  /\ pc' = "off"
  /\ UNCHANGED cardinality

\* What may be in the file of a run killed in a write: some of the lines, and some
\* numbers of the next.  (That the last number may be cut short is left out.)
CutOff(split) ==
  {SubSeq(split, 1, n) : n \in 0 .. Len(split)}
    \cup UNION {{Append(SubSeq(split, 1, n), rest) :
                  rest \in (SUBSET split[n + 1]) \ {{}}} : n \in 0 .. (Len(split) - 1)}

Kill ==
  /\ pc \notin {"off", "failed", "done"}
  /\ Fault("kill")
  /\ IF pc = "split"
     THEN \E split \in Splits(parents[done + 1]) : \E lines \in CutOff(split) :
            disk' = [disk EXCEPT ![Part].groups = @ \o lines]
     ELSE UNCHANGED disk
  /\ UNCHANGED progress

\* Without fsync a renamed file may be there and yet be empty.
PowerLoss ==
  /\ Fault("power_loss")
  /\ \E lost \in SUBSET DOMAIN disk :
       disk' = [name \in DOMAIN disk |->
                  IF name \in lost
                  THEN [disk[name] EXCEPT !.groups = SubSeq(@, 1, disk[name].durable)]
                  ELSE disk[name]]
  /\ \E lost \in SUBSET DOMAIN progress :
       progress' = [l \in DOMAIN progress |->
                      IF l \in lost THEN [progress[l] EXCEPT !.readable = FALSE]
                      ELSE progress[l]]

Next == Run \/ Kill \/ PowerLoss

Spec == Init /\ [][Next]_vars

\* A run is sequential code, and a run that died is started again, by the retry
\* of the scheduler or by hand.
FairSpec == Spec /\ WF_vars(Run)

-------------------------------------------------------------------------------
Groups == Seq((SUBSET Records) \ {{}})

TypeOK ==
  /\ \A name \in DOMAIN disk :
       /\ disk[name].groups \in Groups
       /\ disk[name].durable \in 0 .. Len(disk[name].groups)
  /\ DOMAIN progress \subseteq 1 .. Levels
  /\ current \in 0 .. Levels
  /\ parents \in Groups
  /\ next \in Groups
  /\ pc \in {"split", "sync", "record"} => done < Len(parents)

\* A run that ends with success leaves a file for the LES3 join that names every
\* record once: les3.hh refuses one that repeats or misses a record.
RunLeavesCompleteFile == pc = "done" => Readable(FinalFile)

\* It does after any number of kills, and after a loss of power that is the only
\* fault.
SingleLossIsSurvived == (powerLost => faults = 1) => RunLeavesCompleteFile

Refines(fine, coarse) ==
  \A i \in DOMAIN fine : \E j \in DOMAIN coarse : fine[i] \subseteq coarse[j]

\* Whatever was killed in between, every file that looks complete is a cut of the
\* records, and a level only splits groups of the level before it.
LevelsAreNested ==
  ~powerLost =>
    /\ FinalFile \in DOMAIN disk => Readable(FinalFile)
    /\ \A l \in 0 .. Levels :
         LevelFile(l) \in DOMAIN disk =>
           /\ Readable(LevelFile(l))
           /\ l > 0 => /\ LevelFile(l - 1) \in DOMAIN disk
                       /\ Refines(disk[LevelFile(l)].groups,
                                  disk[LevelFile(l - 1)].groups)

\* The record of a level in progress is honest: as many lines of its file as it
\* says are the splits of as many parents as it says.
ProgressIsBacked ==
  ~powerLost =>
    \A l \in DOMAIN progress :
      PartFile(l) \in DOMAIN disk =>
        /\ PartReadable(PartFile(l), progress[l].lines)
        /\ Members(FirstGroups(PartFile(l), progress[l].lines))
             = Members(FirstGroups(LevelFile(l - 1), progress[l].parents))

\* Work that was recorded is never done again: a complete level is left alone, and
\* recorded groups stay as they are until their level is complete.
IsKept(l) ==
  IF LevelFile(l) \in DOMAIN disk
  THEN LevelFile(l) \in DOMAIN disk' /\ disk'[LevelFile(l)] = disk[LevelFile(l)]
  ELSE l \in DOMAIN progress =>
         \E name \in {PartFile(l), LevelFile(l)} \cap DOMAIN disk' :
           \A i \in 1 .. progress[l].lines :
             /\ i <= Len(disk'[name].groups)
             /\ disk'[name].groups[i] = disk[PartFile(l)].groups[i]

RecordedWorkIsKept == [][powerLost' \/ \A l \in 0 .. Levels : IsKept(l)]_vars

\* However often it is killed, the precompute of a data set that can be cut into
\* the initial groups ends with a group file that LES3 accepts.
GroupsGetReady ==
  <>[](\/ cardinality \in 1 .. (InitialGroups - 1)
       \/ powerLost
       \/ FinalFile \in DOMAIN disk /\ Readable(FinalFile))
===============================================================================
