-------------------------- MODULE MultithreadedJoin --------------------------
(***************************************************************************)
(* The parallel query loop every kNN algorithm runs in: TBB hands chunks   *)
(* of the query range to worker threads, the threads look queries up, count *)
(* them and share a timeout protocol made of two counters and two flags.   *)
(*                                                                         *)
(* Three loop bodies use the protocol.  All fit one shape, "collect queries, *)
(* scan a batch, record its size":                                         *)
(*   - run_parallel_lookups (join.hh, les3.hh, partition.hh) and the same  *)
(*     loop in transformation.hh: driver = "batched" with BatchSize = 1;    *)
(*   - baseline.hh: driver = "batched"; a full batch is scanned at once,   *)
(*     the rest of the chunk after its last query;                         *)
(*   - baselinepp.hh: driver = "grouped"; the whole chunk is collected      *)
(*     first, then scanned in batches of queries of equal record size.     *)
(*                                                                         *)
(* Each load, store and fetch_add of a shared atomic is one action; a        *)
(* lookup is one action (KNNLookup models what it does).                   *)
(***************************************************************************)
EXTENDS Integers, FiniteSets

CONSTANTS
  Threads,          \* worker threads of the task arena
  Requested,        \* number of queries: records.size(), or sample_size
  BatchSize,        \* 1 for run_parallel_lookups
  Drivers,          \* the drivers tried: "batched", "grouped"
  RecordSize,       \* RecordSize[q]: number of tokens of the record q looks up
  TimeoutEnabled,   \* timeout_seconds > 0
  Interval          \* TIMEOUT_CHECK_INTERVAL

Queries == 0 .. (Requested - 1)

ASSUME JoinAssumption ==
  /\ IsFiniteSet(Threads)
  /\ Requested \in Nat
  /\ BatchSize \in Nat \ {0}
  /\ Drivers \subseteq {"batched", "grouped"}
  /\ RecordSize \in [Queries -> Nat]
  /\ TimeoutEnabled \in BOOLEAN
  /\ Interval \in Nat \ {0}

VARIABLES
  driver,             \* how the join collects and scans its queries
  unclaimed,          \* queries TBB has not handed to a thread yet
  pc,                 \* pc[t]: where thread t is in the loop
  chunk,              \* chunk[t]: part of its blocked_range not iterated yet
  pending,            \* pending[t]: collected queries that wait for a scan
  batch,              \* batch[t]: the queries being scanned and recorded
  answered,           \* queries whose lookup is in the thread statistics
  performed,          \* performed_queries
  counter,            \* timeout_check_counter
  timedOut,           \* timed_out
  stop,               \* stop_queries
  expired,            \* the clock has reached query_deadline
  counterAtDeadline,  \* history: counter when the deadline passed
  returned            \* parallel_for has returned to the calling thread

shared == <<performed, counter, timedOut, stop>>
clock  == <<expired, counterAtDeadline>>
local  == <<chunk, pending, batch>>
vars   == <<driver, unclaimed, pc, local, answered, shared, clock, returned>>

Locations == {"idle", "collect", "drain", "scan", "count", "gate", "tick",
              "clock", "flag", "stop"}

TypeOK ==
  /\ driver \in Drivers
  /\ unclaimed \subseteq Queries
  /\ pc \in [Threads -> Locations]
  /\ chunk \in [Threads -> SUBSET Queries]
  /\ pending \in [Threads -> SUBSET Queries]
  /\ batch \in [Threads -> SUBSET Queries]
  /\ answered \subseteq Queries
  /\ performed \in Nat
  /\ counter \in Nat
  /\ timedOut \in BOOLEAN
  /\ stop \in BOOLEAN
  /\ expired \in BOOLEAN
  /\ counterAtDeadline \in Nat
  /\ returned \in BOOLEAN

-------------------------------------------------------------------------------
(* start_query_run, then the call of do_multiple_lookups. *)
Init ==
  /\ driver \in Drivers
  /\ unclaimed = Queries
  /\ pc = [t \in Threads |-> "idle"]
  /\ chunk = [t \in Threads |-> {}]
  /\ pending = [t \in Threads |-> {}]
  /\ batch = [t \in Threads |-> {}]
  /\ answered = {}
  /\ performed = 0
  /\ counter = 0
  /\ timedOut = FALSE
  /\ stop = FALSE
  /\ expired = FALSE
  /\ counterAtDeadline = 0
  /\ returned = FALSE

Goto(t, location) == pc' = [pc EXCEPT ![t] = location]

\* Mutant of Claim: the half-open blocked_range is taken for a closed one.
Claim_PastEnd(t) ==
  /\ pc[t] = "idle"
  /\ \E lo, hi \in Queries :
       /\ lo <= hi
       /\ lo .. hi \subseteq unclaimed
       /\ unclaimed' = unclaimed \ (lo .. hi)
       /\ chunk' = [chunk EXCEPT ![t] = lo .. (hi + 1)]
  /\ Goto(t, "collect")
  /\ UNCHANGED <<driver, pending, batch, answered, shared, clock, returned>>

\* TBB splits the range as it likes: a thread gets any contiguous piece of it.
Claim(t) ==
  /\ pc[t] = "idle"
  /\ \E lo, hi \in Queries :
       /\ lo <= hi
       /\ lo .. hi \subseteq unclaimed
       /\ unclaimed' = unclaimed \ (lo .. hi)
       /\ chunk' = [chunk EXCEPT ![t] = lo .. hi]
  /\ Goto(t, "collect")
  /\ UNCHANGED <<driver, pending, batch, answered, shared, clock, returned>>

BatchFull(queries) == driver = "batched" /\ Cardinality(queries) = BatchSize

\* should_start_query() holds: the next query of the chunk is collected, and
\* the batch is scanned at once when that fills it.
StartQuery(t) ==
  /\ pc[t] = "collect"
  /\ ~stop
  /\ \E q \in chunk[t] :
       /\ \A p \in chunk[t] : q <= p
       /\ chunk' = [chunk EXCEPT ![t] = @ \ {q}]
       /\ LET collected == pending[t] \cup {q}
          IN IF BatchFull(collected)
             THEN /\ batch' = [batch EXCEPT ![t] = collected]
                  /\ pending' = [pending EXCEPT ![t] = {}]
                  /\ Goto(t, "scan")
             ELSE /\ pending' = [pending EXCEPT ![t] = collected]
                  /\ UNCHANGED <<batch, pc>>
  /\ UNCHANGED <<driver, unclaimed, answered, shared, clock, returned>>

\* The loop over the chunk is left, at its end or because of a stop.
LeaveLoop(t) ==
  /\ pc[t] = "collect"
  /\ chunk[t] = {} \/ stop
  /\ chunk' = [chunk EXCEPT ![t] = {}]
  /\ Goto(t, "drain")
  /\ UNCHANGED <<driver, unclaimed, pending, batch, answered, shared, clock, returned>>

\* What baseline.hh scans after the loop is all that is left.  baselinepp.hh
\* takes up to BatchSize queries of one record size; which of the size groups
\* comes next is the order of a hash table.
SameSize(queries, q) == {p \in queries : RecordSize[p] = RecordSize[q]}

NextBatch(queries, b) ==
  IF driver = "batched"
  THEN b = queries
  ELSE \E q \in queries :
         /\ b \subseteq SameSize(queries, q)
         /\ \/ Cardinality(b) = BatchSize
            \/ /\ Cardinality(b) < BatchSize
               /\ b = SameSize(queries, q)

\* Mutant of ScanRest: the rest is scanned without a look at the stop flag.
ScanRest_NoCheck(t) ==
  /\ pc[t] = "drain"
  /\ \E b \in SUBSET pending[t] \ {{}} :
       /\ NextBatch(pending[t], b)
       /\ batch' = [batch EXCEPT ![t] = b]
       /\ pending' = [pending EXCEPT ![t] = @ \ b]
  /\ Goto(t, "scan")
  /\ UNCHANGED <<driver, unclaimed, chunk, answered, shared, clock, returned>>

ScanRest(t) ==
  /\ pc[t] = "drain"
  /\ pending[t] # {}
  /\ ~stop
  /\ \E b \in SUBSET pending[t] :
       /\ NextBatch(pending[t], b)
       /\ batch' = [batch EXCEPT ![t] = b]
       /\ pending' = [pending EXCEPT ![t] = @ \ b]
  /\ Goto(t, "scan")
  /\ UNCHANGED <<driver, unclaimed, chunk, answered, shared, clock, returned>>

\* Mutants of LeaveBody: the leftover queries are forgotten; a stop does not end
\* the loop over the size groups.
LeaveBody_ForgetsRest(t) ==
  /\ pc[t] = "drain"
  /\ pending' = [pending EXCEPT ![t] = {}]
  /\ Goto(t, "idle")
  /\ UNCHANGED <<driver, unclaimed, chunk, batch, answered, shared, clock, returned>>

LeaveBody_NoBreak(t) ==
  /\ pc[t] = "drain"
  /\ pending[t] = {}
  /\ Goto(t, "idle")
  /\ UNCHANGED <<driver, unclaimed, local, answered, shared, clock, returned>>

\* The body is over; a stop drops the queries collected and not scanned.
LeaveBody(t) ==
  /\ pc[t] = "drain"
  /\ pending[t] = {} \/ stop
  /\ pending' = [pending EXCEPT ![t] = {}]
  /\ Goto(t, "idle")
  /\ UNCHANGED <<driver, unclaimed, chunk, batch, answered, shared, clock, returned>>

-------------------------------------------------------------------------------
(* lookup, cleanup, and record_completed_queries(count) step by step. *)
Count(t) == Cardinality(batch[t])

\* Back to the loop head.
Resume(t) ==
  /\ batch' = [batch EXCEPT ![t] = {}]
  /\ Goto(t, "collect")

Lookup(t) ==
  /\ pc[t] = "scan"
  /\ answered' = answered \cup batch[t]
  /\ Goto(t, "count")
  /\ UNCHANGED <<driver, unclaimed, local, shared, clock, returned>>

\* Mutant of AddPerformed: the batch is taken to be full.
AddPerformed_FullBatch(t) ==
  /\ pc[t] = "count"
  /\ performed' = performed + BatchSize
  /\ IF TimeoutEnabled
     THEN Goto(t, "gate") /\ UNCHANGED batch
     ELSE Resume(t)
  /\ UNCHANGED <<driver, unclaimed, chunk, pending, answered, counter, timedOut, stop,
                 clock, returned>>

AddPerformed(t) ==
  /\ pc[t] = "count"
  /\ performed' = performed + Count(t)
  /\ IF TimeoutEnabled
     THEN Goto(t, "gate") /\ UNCHANGED batch
     ELSE Resume(t)
  /\ UNCHANGED <<driver, unclaimed, chunk, pending, answered, counter, timedOut, stop,
                 clock, returned>>

LoadTimedOut(t) ==
  /\ pc[t] = "gate"
  /\ IF timedOut
     THEN Resume(t)
     ELSE Goto(t, "tick") /\ UNCHANGED batch
  /\ UNCHANGED <<driver, unclaimed, chunk, pending, answered, shared, clock, returned>>

Crosses(previous, current) == previous \div Interval # current \div Interval

\* Mutant of AdvanceCounter: only an exact multiple of the interval counts.
AdvanceCounter_ExactMultiple(t) ==
  /\ pc[t] = "tick"
  /\ counter' = counter + Count(t)
  /\ IF counter' % Interval = 0
     THEN Goto(t, "clock") /\ UNCHANGED batch
     ELSE Resume(t)
  /\ UNCHANGED <<driver, unclaimed, chunk, pending, answered, performed, timedOut, stop,
                 clock, returned>>

AdvanceCounter(t) ==
  /\ pc[t] = "tick"
  /\ counter' = counter + Count(t)
  /\ IF Crosses(counter, counter')
     THEN Goto(t, "clock") /\ UNCHANGED batch
     ELSE Resume(t)
  /\ UNCHANGED <<driver, unclaimed, chunk, pending, answered, performed, timedOut, stop,
                 clock, returned>>

\* check_timeout: the clock is read, then both flags are set in this order.
ReadClock(t) ==
  /\ pc[t] = "clock"
  /\ IF expired
     THEN Goto(t, "flag") /\ UNCHANGED batch
     ELSE Resume(t)
  /\ UNCHANGED <<driver, unclaimed, chunk, pending, answered, shared, clock, returned>>

\* Mutants of StoreTimedOut: the flags are stored in the other order; the stop
\* flag is not stored at all.
StoreTimedOut_StopFirst(t) ==
  /\ pc[t] = "flag"
  /\ stop' = TRUE
  /\ Goto(t, "stop")
  /\ UNCHANGED <<driver, unclaimed, local, answered, performed, counter, timedOut, clock,
                 returned>>

StoreTimedOut_NoStop(t) ==
  /\ pc[t] = "flag"
  /\ timedOut' = TRUE
  /\ Resume(t)
  /\ UNCHANGED <<driver, unclaimed, chunk, pending, answered, performed, counter, stop,
                 clock, returned>>

StoreTimedOut(t) ==
  /\ pc[t] = "flag"
  /\ timedOut' = TRUE
  /\ Goto(t, "stop")
  /\ UNCHANGED <<driver, unclaimed, local, answered, performed, counter, stop, clock,
                 returned>>

StoreStop(t) ==
  /\ pc[t] = "stop"
  /\ stop' = TRUE
  /\ Resume(t)
  /\ UNCHANGED <<driver, unclaimed, chunk, pending, answered, performed, counter,
                 timedOut, clock, returned>>

-------------------------------------------------------------------------------
(* The environment: the deadline passes; parallel_for returns.             *)
DeadlinePasses ==
  /\ TimeoutEnabled
  /\ ~expired
  /\ expired' = TRUE
  /\ counterAtDeadline' = counter
  /\ UNCHANGED <<driver, unclaimed, pc, local, answered, shared, returned>>

ParallelForReturns ==
  /\ ~returned
  /\ unclaimed = {}
  /\ \A t \in Threads : pc[t] = "idle"
  /\ returned' = TRUE
  /\ UNCHANGED <<driver, unclaimed, pc, local, answered, shared, clock>>

Body(t) ==
  \/ Claim(t)
  \/ StartQuery(t)
  \/ LeaveLoop(t)
  \/ ScanRest(t)
  \/ LeaveBody(t)
  \/ Lookup(t)
  \/ AddPerformed(t)
  \/ LoadTimedOut(t)
  \/ AdvanceCounter(t)
  \/ ReadClock(t)
  \/ StoreTimedOut(t)
  \/ StoreStop(t)

Next ==
  \/ \E t \in Threads : Body(t)
  \/ DeadlinePasses
  \/ ParallelForReturns

Spec == Init /\ [][Next]_vars

\* TBB keeps every worker running and a lookup ends; the clock owes nothing.
Fairness ==
  /\ \A t \in Threads : WF_vars(Body(t))
  /\ WF_vars(ParallelForReturns)

FairSpec == Spec /\ Fairness

-------------------------------------------------------------------------------
\* Mutant of ReportedTimeout: the flag alone decides.
ReportedTimeout_FlagOnly == timedOut

(* get_query_statistics, read by the calling thread at the end. *)
ReportedTimeout == timedOut /\ performed < Requested

QueriesAt(location) ==
  {q \in Queries : \E t \in Threads : pc[t] = location /\ q \in batch[t]}

Uncounted == QueriesAt("count")

\* A query is in one place only: not handed out, with one thread (still to be
\* iterated, collected, or in the batch), or answered; and unless the run was
\* stopped none has got lost on the way.
Held(t) == chunk[t] \cup pending[t] \cup batch[t]

Answering(t) == pc[t] \in {"count", "gate", "tick", "clock", "flag", "stop"}

Disjoint(A, B) == \A q \in A : q \notin B

EachQueryHasOnePlace ==
  /\ Disjoint(unclaimed, answered)
  /\ \A t \in Threads :
       /\ Disjoint(unclaimed, Held(t))
       /\ Disjoint(chunk[t], pending[t])
       /\ Disjoint(chunk[t], batch[t])
       /\ Disjoint(pending[t], batch[t])
       /\ Disjoint(answered, chunk[t] \cup pending[t])
       /\ IF Answering(t) THEN batch[t] \subseteq answered
                          ELSE Disjoint(answered, batch[t])
  /\ \A t, u \in Threads : t # u => Disjoint(Held(t), Held(u))
  /\ \A q \in Queries : \/ stop
                        \/ q \in unclaimed \cup answered
                        \/ \E t \in Threads : q \in Held(t)

\* The relaxed counter of performed queries is the number of queries whose
\* lookup was carried out, less the batches between a lookup and its fetch_add:
\* no interleaving loses or doubles a completion.
PerformedIsExact == performed = Cardinality(answered \ Uncounted)

\* The statistics never hide a query: when the run is over and does not claim a
\* timeout, every requested query was answered; and what it counts is what was
\* answered.  (Both flags are relaxed and the claim also depends on performed.)
HonestReport ==
  returned => /\ performed = Cardinality(answered)
              /\ ReportedTimeout <=> answered # Queries

\* The run is stopped, and called timed out, only after the deadline; the stop
\* flag is never visible without the timed_out flag the report needs.
StopIsJustified ==
  /\ timedOut => expired
  /\ stop => timedOut

\* Once the deadline has passed, the first completion that crosses a multiple
\* of the interval is not missed, whatever the other threads do: either the
\* timeout is recorded or a thread is about to read the clock or set the flag.
LateCrossingIsNoticed ==
  expired /\ ~timedOut /\ Crosses(counterAtDeadline, counter)
    => \E t \in Threads : pc[t] \in {"clock", "flag"}

\* ... and under fair scheduling it does stop the run.
LateCrossingStops ==
  (expired /\ Crosses(counterAtDeadline, counter)) ~> stop

\* Whatever is claimed, stopped or dropped on the way, the run ends.
RunEnds == <>returned

\* The abstract run this loop implements.
Run == INSTANCE QueryRun WITH
  inFlight <- QueriesAt("scan"),
  answered <- answered,
  cut      <- stop,
  report   <- IF returned
              THEN [performed |-> performed, timedOut |-> ReportedTimeout]
              ELSE [performed |-> -1, timedOut |-> FALSE]

\* The loop implements QueryRun: nothing is looked up twice or begun after the
\* stop, and the report is the abstract one.
ImplementsRun == Run!RunSpec
===============================================================================
