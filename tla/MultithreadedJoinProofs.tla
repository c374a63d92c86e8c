----------------------- MODULE MultithreadedJoinProofs -----------------------
(***************************************************************************)
(* Theorems about MultithreadedJoin, for any number of threads and queries, *)
(* any batch size, either driver and any check interval.                   *)
(***************************************************************************)
EXTENDS MultithreadedJoin, FiniteSetTheorems, TLAPS

(* What the location of a thread says about its local state and the flags. *)
ThreadState ==
  \A t \in Threads :
    /\ pc[t] \in {"idle", "collect", "drain"} => batch[t] = {}
    /\ pc[t] \in {"idle", "drain"} => chunk[t] = {}
    /\ pc[t] = "idle" => pending[t] = {}
    /\ pc[t] \in {"flag", "stop"} => expired
    /\ pc[t] = "stop" => timedOut

AllJoined == returned => unclaimed = {} /\ \A t \in Threads : pc[t] = "idle"

(* The inductive invariant: HonestReport follows from its parts. *)
IInv ==
  /\ TypeOK
  /\ ThreadState
  /\ AllJoined
  /\ EachQueryHasOnePlace
  /\ StopIsJustified
  /\ LateCrossingIsNoticed
  /\ PerformedIsExact

-------------------------------------------------------------------------------
(* Finite sets of queries. *)

\* A set of queries is finite, so what is counted is a natural number.
LEMMA QuerySets ==
  ASSUME NEW S \in SUBSET Queries
  PROVE  /\ IsFiniteSet(S)
         /\ Cardinality(S) \in Nat
<1>1. IsFiniteSet(Queries)
  BY JoinAssumption, FS_Interval DEF Queries
<1>2. IsFiniteSet(S)
  BY <1>1, FS_Subset
<1> QED
  BY <1>2, FS_CardinalityType

\* The queries of a run number Requested.
LEMMA QueryCount == Cardinality(Queries) = Requested
<1>1. 0 \in Int /\ Requested - 1 \in Int
  BY JoinAssumption
<1>2. Cardinality(Queries) = IF 0 > Requested - 1 THEN 0 ELSE (Requested - 1) - 0 + 1
  BY <1>1, FS_Interval DEF Queries
<1> QED
  BY <1>2, JoinAssumption

\* Counting two disjoint sets of queries together.
LEMMA DisjointCount ==
  ASSUME NEW S \in SUBSET Queries, NEW T \in SUBSET Queries, Disjoint(S, T)
  PROVE  Cardinality(S \cup T) = Cardinality(S) + Cardinality(T)
<1>1. IsFiniteSet(S) /\ IsFiniteSet(T) /\ Cardinality(S) \in Nat /\ Cardinality(T) \in Nat
  BY QuerySets
<1>2. S \cap T = {}
  BY DEF Disjoint
<1>3. Cardinality(S \cup T) = Cardinality(S) + Cardinality(T) - Cardinality(S \cap T)
  BY <1>1, FS_Union
<1>4. Cardinality(S \cap T) = 0
  BY <1>2, FS_EmptySet
<1> QED
  BY <1>1, <1>3, <1>4

-------------------------------------------------------------------------------
(* Type correctness. *)

\* The initial state is well typed.
LEMMA InitType == Init => TypeOK
<1> SUFFICES ASSUME Init PROVE TypeOK
  OBVIOUS
<1>1. pc \in [Threads -> Locations]
  BY DEF Init, Locations
<1>2. chunk = [t \in Threads |-> {}] /\ pending = chunk /\ batch = chunk
  BY DEF Init
<1>3. chunk \in [Threads -> SUBSET Queries]
  BY <1>2
<1> QED
  BY <1>1, <1>2, <1>3 DEF Init, TypeOK

\* A step of a loop body keeps the types.
LEMMA BodyType ==
  ASSUME TypeOK, NEW t \in Threads, Body(t)
  PROVE  TypeOK'
<1> USE DEF TypeOK, Locations, Goto, Resume, shared, clock, local
<1>1. CASE Claim(t)
  BY <1>1 DEF Claim
<1>2. CASE StartQuery(t)
  BY <1>2 DEF StartQuery
<1>3. CASE LeaveLoop(t)
  BY <1>3 DEF LeaveLoop
<1>4. CASE ScanRest(t)
  BY <1>4 DEF ScanRest
<1>5. CASE LeaveBody(t)
  BY <1>5 DEF LeaveBody
<1>6. CASE Lookup(t)
  BY <1>6 DEF Lookup
<1>7. CASE AddPerformed(t)
  <2>1. Count(t) \in Nat
    BY QuerySets DEF Count
  <2> QED
    BY <1>7, <2>1 DEF AddPerformed
<1>8. CASE LoadTimedOut(t)
  BY <1>8 DEF LoadTimedOut
<1>9. CASE AdvanceCounter(t)
  <2>1. Count(t) \in Nat
    BY QuerySets DEF Count
  <2> QED
    BY <1>9, <2>1 DEF AdvanceCounter
<1>10. CASE ReadClock(t)
  BY <1>10 DEF ReadClock
<1>11. CASE StoreTimedOut(t)
  BY <1>11 DEF StoreTimedOut
<1>12. CASE StoreStop(t)
  BY <1>12 DEF StoreStop
<1> QED
  BY <1>1, <1>2, <1>3, <1>4, <1>5, <1>6, <1>7, <1>8, <1>9, <1>10, <1>11, <1>12
     DEF Body

\* Any step keeps the types.
LEMMA NextType == TypeOK /\ [Next]_vars => TypeOK'
<1> SUFFICES ASSUME TypeOK, [Next]_vars PROVE TypeOK'
  OBVIOUS
<1>1. CASE \E t \in Threads : Body(t)
  BY <1>1, BodyType
<1>2. CASE DeadlinePasses
  BY <1>2 DEF DeadlinePasses, TypeOK, shared, local
<1>3. CASE ParallelForReturns
  BY <1>3 DEF ParallelForReturns, TypeOK, shared, local, clock
<1>4. CASE UNCHANGED vars
  BY <1>4 DEF vars, TypeOK, shared, local, clock
<1> QED
  BY <1>1, <1>2, <1>3, <1>4 DEF Next

\* Every reachable state is well typed, whatever the constants are.
THEOREM TypeCorrect == Spec => []TypeOK
BY InitType, NextType, PTL DEF Spec

-------------------------------------------------------------------------------
(* The local state of the threads and the two flags. *)

\* Every step keeps what a thread's location says, and the order of the flags.
LEMMA NextFlags ==
  ASSUME TypeOK, ThreadState, StopIsJustified, [Next]_vars
  PROVE  ThreadState' /\ StopIsJustified'
<1> USE DEF TypeOK, Locations, ThreadState, StopIsJustified, Goto, Resume,
            shared, clock, local
<1>1. ASSUME NEW t \in Threads, Body(t)
      PROVE  ThreadState' /\ StopIsJustified'
  <2>1. CASE Claim(t)
    BY <2>1 DEF Claim
  <2>2. CASE StartQuery(t)
    BY <2>2 DEF StartQuery
  <2>3. CASE LeaveLoop(t)
    BY <2>3 DEF LeaveLoop
  <2>4. CASE ScanRest(t)
    BY <2>4 DEF ScanRest
  <2>5. CASE LeaveBody(t)
    BY <2>5 DEF LeaveBody
  <2>6. CASE Lookup(t)
    BY <2>6 DEF Lookup
  <2>7. CASE AddPerformed(t)
    BY <2>7 DEF AddPerformed
  <2>8. CASE LoadTimedOut(t)
    BY <2>8 DEF LoadTimedOut
  <2>9. CASE AdvanceCounter(t)
    BY <2>9 DEF AdvanceCounter
  <2>10. CASE ReadClock(t)
    BY <2>10 DEF ReadClock
  <2>11. CASE StoreTimedOut(t)
    BY <2>11 DEF StoreTimedOut
  <2>12. CASE StoreStop(t)
    BY <2>12 DEF StoreStop
  <2> QED
    BY <1>1, <2>1, <2>2, <2>3, <2>4, <2>5, <2>6, <2>7, <2>8, <2>9, <2>10, <2>11,
       <2>12 DEF Body
<1>2. CASE DeadlinePasses
  BY <1>2 DEF DeadlinePasses
<1>3. CASE ParallelForReturns
  BY <1>3 DEF ParallelForReturns
<1>4. CASE UNCHANGED vars
  BY <1>4 DEF vars
<1> QED
  BY <1>1, <1>2, <1>3, <1>4 DEF Next

\* Nothing moves any more once parallel_for has returned.
LEMMA NextJoined ==
  ASSUME TypeOK, AllJoined, [Next]_vars
  PROVE  AllJoined'
<1> USE DEF TypeOK, AllJoined
<1>1. ASSUME NEW t \in Threads, Body(t)
      PROVE  AllJoined'
  <2>1. ~returned
    <3>1. CASE pc[t] # "idle"
      BY <3>1
    <3>2. CASE pc[t] = "idle"
      <4>1. Claim(t)
        BY <1>1, <3>2
           DEF Body, Claim, StartQuery, LeaveLoop, ScanRest, LeaveBody, Lookup, AddPerformed,
               LoadTimedOut, AdvanceCounter, ReadClock, StoreTimedOut, StoreStop
      <4>2. PICK lo, hi \in Queries : lo <= hi /\ lo .. hi \subseteq unclaimed
        BY <4>1 DEF Claim
      <4>3. lo \in lo .. hi
        BY <4>2, JoinAssumption DEF Queries
      <4> QED
        BY <4>2, <4>3
    <3> QED
      BY <3>1, <3>2
  <2>2. UNCHANGED returned
    BY <1>1 DEF Body, Claim, StartQuery, LeaveLoop, ScanRest, LeaveBody, Lookup, AddPerformed,
                LoadTimedOut, AdvanceCounter, ReadClock, StoreTimedOut, StoreStop
  <2> QED
    BY <2>1, <2>2
<1>2. CASE DeadlinePasses
  BY <1>2 DEF DeadlinePasses
<1>3. CASE ParallelForReturns
  BY <1>3 DEF ParallelForReturns
<1>4. CASE UNCHANGED vars
  BY <1>4 DEF vars
<1> QED
  BY <1>1, <1>2, <1>3, <1>4 DEF Next

\* A crossing after the deadline has a thread that will act on it: the thread
\* that makes it, and no other thread's step takes that one's place away.
LEMMA NextCrossing ==
  ASSUME TypeOK, ThreadState, LateCrossingIsNoticed, [Next]_vars
  PROVE  LateCrossingIsNoticed'
<1> USE DEF TypeOK, LateCrossingIsNoticed, Goto, Resume, shared, clock, local
<1>1. ASSUME NEW t \in Threads, Body(t)
      PROVE  LateCrossingIsNoticed'
  <2>1. CASE Claim(t)
    BY <2>1 DEF Claim
  <2>2. CASE StartQuery(t)
    BY <2>2 DEF StartQuery
  <2>3. CASE LeaveLoop(t)
    BY <2>3 DEF LeaveLoop
  <2>4. CASE ScanRest(t)
    BY <2>4 DEF ScanRest
  <2>5. CASE LeaveBody(t)
    BY <2>5 DEF LeaveBody
  <2>6. CASE Lookup(t)
    BY <2>6 DEF Lookup
  <2>7. CASE AddPerformed(t)
    BY <2>7 DEF AddPerformed
  <2>8. CASE LoadTimedOut(t)
    BY <2>8 DEF LoadTimedOut
  <2>9. CASE AdvanceCounter(t)
    <3>1. CASE Crosses(counter, counter')
      BY <2>9, <3>1 DEF AdvanceCounter
    <3>2. CASE ~Crosses(counter, counter')
      <4>1. Crosses(counterAtDeadline, counter) <=> Crosses(counterAtDeadline, counter')
        BY <3>2 DEF Crosses
      <4> QED
        BY <2>9, <3>2, <4>1 DEF AdvanceCounter
    <3> QED
      BY <3>1, <3>2
  <2>10. CASE ReadClock(t)
    BY <2>10 DEF ReadClock
  <2>11. CASE StoreTimedOut(t)
    BY <2>11 DEF StoreTimedOut
  <2>12. CASE StoreStop(t)
    BY <2>12 DEF StoreStop, ThreadState
  <2> QED
    BY <1>1, <2>1, <2>2, <2>3, <2>4, <2>5, <2>6, <2>7, <2>8, <2>9, <2>10, <2>11,
       <2>12 DEF Body
<1>2. CASE DeadlinePasses
  <2>1. ~Crosses(counterAtDeadline', counter')
    BY <1>2 DEF DeadlinePasses, Crosses
  <2> QED
    BY <2>1
<1>3. CASE ParallelForReturns
  BY <1>3 DEF ParallelForReturns
<1>4. CASE UNCHANGED vars
  BY <1>4 DEF vars
<1> QED
  BY <1>1, <1>2, <1>3, <1>4 DEF Next

-------------------------------------------------------------------------------
(* Where the queries are. *)

\* Every step moves queries from one place to the next one and drops them only
\* after the stop.
LEMMA NextPlaces ==
  ASSUME TypeOK, ThreadState, EachQueryHasOnePlace, [Next]_vars
  PROVE  EachQueryHasOnePlace'
<1> USE DEF TypeOK, Locations, ThreadState, EachQueryHasOnePlace, Held, Answering, Disjoint,
            Goto, Resume, shared, clock, local
<1>1. ASSUME NEW t \in Threads, Body(t)
      PROVE  EachQueryHasOnePlace'
  <2>1. CASE Claim(t)
    BY <2>1 DEF Claim
  <2>2. CASE StartQuery(t)
    BY <2>2 DEF StartQuery
  <2>3. CASE LeaveLoop(t)
    BY <2>3 DEF LeaveLoop
  <2>4. CASE ScanRest(t)
    BY <2>4 DEF ScanRest
  <2>5. CASE LeaveBody(t)
    BY <2>5 DEF LeaveBody
  <2>6. CASE Lookup(t)
    BY <2>6 DEF Lookup
  <2>7. CASE AddPerformed(t)
    BY <2>7 DEF AddPerformed
  <2>8. CASE LoadTimedOut(t)
    BY <2>8 DEF LoadTimedOut
  <2>9. CASE AdvanceCounter(t)
    BY <2>9 DEF AdvanceCounter
  <2>10. CASE ReadClock(t)
    BY <2>10 DEF ReadClock
  <2>11. CASE StoreTimedOut(t)
    BY <2>11 DEF StoreTimedOut
  <2>12. CASE StoreStop(t)
    BY <2>12 DEF StoreStop
  <2> QED
    BY <1>1, <2>1, <2>2, <2>3, <2>4, <2>5, <2>6, <2>7, <2>8, <2>9, <2>10, <2>11,
       <2>12 DEF Body
<1>2. CASE DeadlinePasses
  BY <1>2 DEF DeadlinePasses
<1>3. CASE ParallelForReturns
  BY <1>3 DEF ParallelForReturns
<1>4. CASE UNCHANGED vars
  BY <1>4 DEF vars
<1> QED
  BY <1>1, <1>2, <1>3, <1>4 DEF Next

-------------------------------------------------------------------------------
(* The count of performed queries. *)

\* A batch is added to performed_queries once, after its lookup.
LEMMA NextPerformed ==
  ASSUME TypeOK, ThreadState, EachQueryHasOnePlace, PerformedIsExact, [Next]_vars
  PROVE  PerformedIsExact'
<1> USE DEF TypeOK, Locations, PerformedIsExact, Goto, Resume, shared, clock, local
<1>0. SUFFICES ASSUME \/ performed' # performed
                      \/ (answered \ Uncounted)' # answered \ Uncounted
               PROVE  PerformedIsExact'
  BY <1>0
<1>1. ASSUME NEW t \in Threads, Body(t)
      PROVE  PerformedIsExact'
  <2>1. CASE Lookup(t)
    <3>1. Disjoint(answered, batch[t])
      BY <2>1 DEF Lookup, EachQueryHasOnePlace, Answering
    <3>2. Uncounted' = Uncounted \cup batch[t]
      BY <2>1 DEF Lookup, Uncounted, QueriesAt
    <3>3. (answered \ Uncounted)' = answered \ Uncounted
      BY <2>1, <3>1, <3>2 DEF Lookup, Disjoint
    <3> QED
      BY <2>1, <3>3 DEF Lookup
  <2>2. CASE AddPerformed(t)
    <3>1. batch[t] \subseteq answered
      BY <2>2 DEF AddPerformed, EachQueryHasOnePlace, Answering
    <3>2. \A u \in Threads : u # t => Disjoint(batch[t], batch[u])
      BY DEF EachQueryHasOnePlace, Disjoint, Held
    <3>3. batch[t] \subseteq Uncounted
      BY <2>2 DEF AddPerformed, Uncounted, QueriesAt
    <3>4. Uncounted' = Uncounted \ batch[t]
      BY <2>2, <3>2 DEF AddPerformed, Uncounted, QueriesAt, Disjoint
    <3>5. (answered \ Uncounted)' = (answered \ Uncounted) \cup batch[t]
      BY <2>2, <3>1, <3>3, <3>4 DEF AddPerformed
    <3>6. Disjoint(answered \ Uncounted, batch[t])
      BY <3>3 DEF Disjoint
    <3>7. Cardinality((answered \ Uncounted)') = Cardinality(answered \ Uncounted) + Count(t)
      BY <3>5, <3>6, DisjointCount, batch[t] \in SUBSET Queries,
         answered \ Uncounted \in SUBSET Queries DEF Count
    <3> QED
      BY <2>2, <3>7 DEF AddPerformed
  <2>3. CASE ~Lookup(t) /\ ~AddPerformed(t)
    <3>1. UNCHANGED <<performed, answered>>
      BY <1>1, <2>3 DEF Body, Claim, StartQuery, LeaveLoop, ScanRest, LeaveBody,
                        LoadTimedOut, AdvanceCounter, ReadClock, StoreTimedOut, StoreStop
    <3>2. \A u \in Threads :
            /\ pc'[u] = "count" <=> pc[u] = "count"
            /\ pc[u] = "count" => batch'[u] = batch[u]
      <4>1. CASE Claim(t)
        BY <4>1 DEF Claim
      <4>2. CASE StartQuery(t)
        BY <4>2 DEF StartQuery
      <4>3. CASE ~Claim(t) /\ ~StartQuery(t)
        BY <1>1, <2>3, <4>3
           DEF Body, LeaveLoop, ScanRest, LeaveBody, LoadTimedOut, AdvanceCounter, ReadClock,
               StoreTimedOut, StoreStop
      <4> QED
        BY <4>1, <4>2, <4>3
    <3>3. Uncounted' = Uncounted
      BY <3>2 DEF Uncounted, QueriesAt
    <3> QED
      BY <1>0, <3>1, <3>3
  <2> QED
    BY <2>1, <2>2, <2>3
<1>2. CASE DeadlinePasses
  BY <1>0, <1>2 DEF DeadlinePasses, Uncounted, QueriesAt
<1>3. CASE ParallelForReturns
  BY <1>0, <1>3 DEF ParallelForReturns, Uncounted, QueriesAt
<1>4. CASE UNCHANGED vars
  BY <1>0, <1>4 DEF vars, Uncounted, QueriesAt
<1> QED
  BY <1>1, <1>2, <1>3, <1>4 DEF Next

-------------------------------------------------------------------------------
(* The theorems. *)

\* The inductive invariant holds at the start of a run.
LEMMA InitIInv == Init => IInv
<1> SUFFICES ASSUME Init PROVE IInv
  OBVIOUS
<1>1. TypeOK
  BY InitType
<1>2. ThreadState /\ AllJoined /\ StopIsJustified
  BY DEF Init, ThreadState, AllJoined, StopIsJustified
<1>3. EachQueryHasOnePlace
  BY DEF Init, EachQueryHasOnePlace, Disjoint, Held, Answering
<1>4. LateCrossingIsNoticed
  BY DEF Init, LateCrossingIsNoticed
<1>5. PerformedIsExact
  <2>1. answered \ Uncounted = {}
    BY DEF Init
  <2> QED
    BY <2>1, FS_EmptySet DEF Init, PerformedIsExact
<1> QED
  BY <1>1, <1>2, <1>3, <1>4, <1>5 DEF IInv

\* ... and every step keeps it.
LEMMA NextIInv == IInv /\ [Next]_vars => IInv'
BY NextType, NextFlags, NextJoined, NextCrossing, NextPlaces, NextPerformed DEF IInv

\* What the calling thread reads after the join follows from it: without a
\* stop every query is answered and counted, and after one the timed_out flag
\* is up, so the comparison with the requested number decides.
LEMMA IInvReport == IInv => HonestReport
<1> SUFFICES ASSUME IInv, returned PROVE HonestReport
  BY DEF HonestReport
<1> USE DEF IInv, TypeOK
<1>1. Uncounted = {}
  BY DEF AllJoined, Uncounted, QueriesAt
<1>2. performed = Cardinality(answered)
  <2>1. answered \ Uncounted = answered
    BY <1>1
  <2> QED
    BY <2>1 DEF PerformedIsExact
<1>3. ~stop => answered = Queries
  BY DEF AllJoined, ThreadState, EachQueryHasOnePlace, Held
<1>4. answered = Queries <=> performed = Requested
  <2>1. IsFiniteSet(Queries)
    BY QuerySets
  <2>2. answered \in SUBSET Queries
    OBVIOUS
  <2> QED
    BY <1>2, <2>1, <2>2, FS_Subset, QueryCount
<1>5. performed <= Requested
  <2>1. IsFiniteSet(Queries)
    BY QuerySets
  <2> QED
    BY <1>2, <2>1, answered \in SUBSET Queries, FS_Subset, QueryCount
<1>6. performed < Requested <=> answered # Queries
  BY <1>4, <1>5, JoinAssumption
<1> QED
  BY <1>2, <1>3, <1>6 DEF HonestReport, ReportedTimeout, StopIsJustified

\* The inductive invariant holds in every reachable state.
THEOREM Invariance == Spec => []IInv
BY InitIInv, NextIInv, PTL DEF Spec

\* The statistics of every run are honest: what they count was answered, and
\* they say "timed out" exactly when a query was left out.
THEOREM ReportIsHonest == Spec => []HonestReport
BY Invariance, IInvReport, PTL

\* No completion is lost or counted twice.
THEOREM CountIsExact == Spec => []PerformedIsExact
<1>1. IInv => PerformedIsExact
  BY DEF IInv
<1> QED
  BY <1>1, Invariance, PTL

\* Every query waits, is with one thread, is answered or was dropped by a stop.
THEOREM QueriesArePlaced == Spec => []EachQueryHasOnePlace
<1>1. IInv => EachQueryHasOnePlace
  BY DEF IInv
<1> QED
  BY <1>1, Invariance, PTL

\* A run is stopped only after its deadline, and never without the flag the report
\* needs.
THEOREM StopIsSound == Spec => []StopIsJustified
<1>1. IInv => StopIsJustified
  BY DEF IInv
<1> QED
  BY <1>1, Invariance, PTL

\* No completion that crosses a multiple of the check interval after the deadline
\* goes unnoticed.
THEOREM TimeoutIsSound == Spec => []LateCrossingIsNoticed
<1>1. IInv => LateCrossingIsNoticed
  BY DEF IInv
<1> QED
  BY <1>1, Invariance, PTL

-------------------------------------------------------------------------------
(* The loop implements the abstract run. *)

\* A loop that has not started is a run that has not started.
LEMMA InitRun == Init => Run!RunInit
BY DEF Init, Run!RunInit, Run!NoReport, QueriesAt

\* A step of a thread begins a batch, answers it, cuts the run, or is not seen.
LEMMA BodyRun ==
  ASSUME IInv, NEW t \in Threads, Body(t)
  PROVE  Run!RunNext \/ UNCHANGED Run!runVars
<1> USE DEF IInv, TypeOK, Locations, Goto, Resume, shared, clock, local
<1> DEFINE scanning == QueriesAt("scan")
<1>1. pc[t] # "idle" => ~returned
  BY DEF AllJoined
<1>2. ASSUME UNCHANGED <<answered, timedOut, performed, stop, returned>>,
             \A u \in Threads : pc[u] = "scan" <=> pc'[u] = "scan",
             \A u \in Threads : pc[u] = "scan" => batch'[u] = batch[u]
      PROVE  UNCHANGED Run!runVars
  BY <1>2 DEF Run!runVars, QueriesAt, ReportedTimeout
<1>3. ASSUME NEW S \in SUBSET Queries, ~stop, scanning' = scanning \cup S,
             Disjoint(S, scanning), Disjoint(S, answered),
             UNCHANGED <<answered, timedOut, performed, stop, returned>>
      PROVE  Run!RunNext
  <2>1. Run!Begin(S)
    BY <1>3 DEF Run!Begin, ReportedTimeout, Disjoint
  <2> QED
    BY <2>1 DEF Run!RunNext, Run!Queries, Queries
<1>4. CASE Claim(t)
  BY <1>2, <1>4 DEF Claim
<1>5. CASE StartQuery(t)
  <2>1. CASE batch' = batch
    BY <1>2, <1>5, <2>1 DEF StartQuery, ThreadState
  <2>2. CASE batch' # batch
    <3>1. /\ pc' = [pc EXCEPT ![t] = "scan"]
          /\ batch'[t] \subseteq chunk[t] \cup pending[t]
          /\ \A u \in Threads : u # t => batch'[u] = batch[u]
      BY <1>5, <2>2 DEF StartQuery
    <3>2. scanning' = scanning \cup batch'[t]
      BY <1>5, <3>1 DEF StartQuery, QueriesAt
    <3>3. Disjoint(batch'[t], scanning) /\ Disjoint(batch'[t], answered)
      BY <1>5, <3>1 DEF StartQuery, QueriesAt, EachQueryHasOnePlace, Held, Disjoint
    <3>4. batch'[t] \in SUBSET Queries
      BY <3>1
    <3> QED
      BY <1>3, <1>5, <3>2, <3>3, <3>4 DEF StartQuery
  <2> QED
    BY <2>1, <2>2
<1>6. CASE LeaveLoop(t)
  BY <1>2, <1>6 DEF LeaveLoop
<1>7. CASE ScanRest(t)
  <2>1. /\ pc' = [pc EXCEPT ![t] = "scan"]
        /\ batch'[t] \subseteq pending[t]
        /\ \A u \in Threads : u # t => batch'[u] = batch[u]
    BY <1>7 DEF ScanRest
  <2>2. scanning' = scanning \cup batch'[t]
    BY <1>7, <2>1 DEF ScanRest, QueriesAt
  <2>3. Disjoint(batch'[t], scanning) /\ Disjoint(batch'[t], answered)
    BY <1>7, <2>1 DEF ScanRest, QueriesAt, EachQueryHasOnePlace, Held, Disjoint
  <2>4. batch'[t] \in SUBSET Queries
    BY <2>1
  <2> QED
    BY <1>3, <1>7, <2>2, <2>3, <2>4 DEF ScanRest
<1>8. CASE LeaveBody(t)
  BY <1>2, <1>8 DEF LeaveBody
<1>9. CASE Lookup(t)
  <2>1. \A u \in Threads : u # t => Disjoint(batch[t], batch[u])
    BY DEF EachQueryHasOnePlace, Disjoint, Held
  <2>2. batch[t] \subseteq scanning /\ scanning' = scanning \ batch[t]
    BY <1>9, <2>1 DEF Lookup, QueriesAt, Disjoint
  <2>3. Run!Answer(batch[t])
    BY <1>9, <2>2 DEF Lookup, Run!Answer, ReportedTimeout
  <2> QED
    BY <2>2, <2>3 DEF Run!RunNext
<1>10. CASE AddPerformed(t)
  <2>1. ~returned /\ ~returned'
    BY <1>1, <1>10 DEF AddPerformed
  <2>2. QueriesAt("scan")' = QueriesAt("scan")
    BY <1>10 DEF AddPerformed, QueriesAt
  <2> QED
    BY <1>10, <2>1, <2>2 DEF AddPerformed, Run!runVars
<1>11. CASE LoadTimedOut(t)
  BY <1>2, <1>11 DEF LoadTimedOut
<1>12. CASE AdvanceCounter(t)
  BY <1>2, <1>12 DEF AdvanceCounter
<1>13. CASE ReadClock(t)
  BY <1>2, <1>13 DEF ReadClock
<1>14. CASE StoreTimedOut(t)
  <2>1. ~returned /\ ~returned'
    BY <1>1, <1>14 DEF StoreTimedOut
  <2>2. QueriesAt("scan")' = QueriesAt("scan")
    BY <1>14 DEF StoreTimedOut, QueriesAt
  <2> QED
    BY <1>14, <2>1, <2>2 DEF StoreTimedOut, Run!runVars
<1>15. CASE StoreStop(t)
  <2>1. ~returned /\ ~returned'
    BY <1>1, <1>15 DEF StoreStop
  <2>2. QueriesAt("scan")' = QueriesAt("scan")
    BY <1>15 DEF StoreStop, QueriesAt
  <2>3. Run!Cut
    BY <1>15, <2>1, <2>2 DEF StoreStop, Run!Cut
  <2> QED
    BY <2>3 DEF Run!RunNext
<1> QED
  BY <1>4, <1>5, <1>6, <1>7, <1>8, <1>9, <1>10, <1>11, <1>12, <1>13, <1>14, <1>15
     DEF Body

\* Every step of the loop is a step of the abstract run, or a stutter.
LEMMA NextRun == IInv /\ HonestReport' /\ [Next]_vars => [Run!RunNext]_(Run!runVars)
<1> SUFFICES ASSUME IInv, HonestReport', [Next]_vars
             PROVE  Run!RunNext \/ UNCHANGED Run!runVars
  OBVIOUS
<1>1. CASE \E t \in Threads : Body(t)
  BY <1>1, BodyRun
<1>2. CASE DeadlinePasses
  BY <1>2 DEF DeadlinePasses, Run!runVars, QueriesAt, ReportedTimeout, shared, local
<1>3. CASE ParallelForReturns
  <2>1. QueriesAt("scan") = {} /\ QueriesAt("scan")' = {}
    BY <1>3 DEF ParallelForReturns, QueriesAt
  <2>2. UNCHANGED <<answered, stop, performed, timedOut>> /\ ~returned /\ returned'
    BY <1>3 DEF ParallelForReturns, shared
  <2>3. stop \/ answered = Queries
    BY <1>3 DEF ParallelForReturns, IInv, TypeOK, ThreadState, EachQueryHasOnePlace, Held
  <2>4. performed' = Cardinality(answered) /\ (ReportedTimeout' <=> answered # Queries)
    BY <2>2 DEF HonestReport
  <2>5. ReportedTimeout' = (answered # Queries)
    <3>1. CASE answered = Queries
      BY <2>4, <3>1, Zenon DEF ReportedTimeout
    <3>2. CASE answered # Queries
      BY <2>4, <3>2, Zenon DEF ReportedTimeout
    <3> QED
      BY <3>1, <3>2
  <2>6. [performed |-> performed', timedOut |-> ReportedTimeout']
          = [performed |-> Cardinality(answered), timedOut |-> answered # Queries]
    BY <2>4, <2>5, Zenon
  <2>7. Run!Cardinality(answered) = Cardinality(answered)
    BY Zenon DEF Run!Cardinality, Cardinality, Run!IsFiniteSet, IsFiniteSet
  <2>8. Run!Return
    BY <2>1, <2>2, <2>3, <2>6, <2>7, Zenon DEF Run!Return, Run!NoReport, Run!Queries, Queries
  <2> QED
    BY <2>8 DEF Run!RunNext
<1>4. CASE UNCHANGED vars
  BY <1>4 DEF vars, Run!runVars, QueriesAt, ReportedTimeout, shared, local
<1> QED
  BY <1>1, <1>2, <1>3, <1>4 DEF Next

\* The parallel loop with its counters, flags and clock implements QueryRun: no
\* query is looked up twice, none is begun after the stop, and the run ends with
\* the abstract report.
THEOREM LoopImplementsRun == Spec => ImplementsRun
BY InitRun, NextRun, Invariance, ReportIsHonest, PTL DEF ImplementsRun, Run!RunSpec, Spec
===============================================================================
