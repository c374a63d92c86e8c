------------------------------- MODULE QueryRun -------------------------------
(***************************************************************************)
(* What one run of a kNN join promises to the command line that started   *)
(* it, with nothing said about threads, chunks, counters or clocks: every  *)
(* requested query is looked up at most once; a run may be cut short, and *)
(* then nothing new is started; the run reports how many queries it really *)
(* answered and says "timed out" exactly when it left some of them out.    *)
(*                                                                         *)
(* MultithreadedJoin implements this specification.                        *)
(***************************************************************************)
EXTENDS Integers, FiniteSets

CONSTANT Requested      \* number of queries of the run, a natural number

VARIABLES
  inFlight,   \* queries being looked up now
  answered,   \* queries whose lookup has been carried out
  cut,        \* the run has been told to stop
  report      \* what get_query_statistics says; NoReport before the end

runVars == <<inFlight, answered, cut, report>>

Queries == 0 .. (Requested - 1)

NoReport == [performed |-> -1, timedOut |-> FALSE]

RunInit ==
  /\ inFlight = {}
  /\ answered = {}
  /\ cut = FALSE
  /\ report = NoReport

\* Some queries that nobody has looked at are taken up, unless the run is cut.
Begin(S) ==
  /\ ~cut
  /\ S \cap (inFlight \cup answered) = {}
  /\ inFlight' = inFlight \cup S
  /\ UNCHANGED <<answered, cut, report>>

\* A lookup that was begun is carried out, even after the cut.
Answer(S) ==
  /\ inFlight' = inFlight \ S
  /\ answered' = answered \cup S
  /\ UNCHANGED <<cut, report>>

Cut ==
  /\ cut' = TRUE
  /\ UNCHANGED <<inFlight, answered, report>>

\* The run ends with nothing in flight, complete unless it was cut, and with
\* an exact report.
Return ==
  /\ report = NoReport
  /\ inFlight = {}
  /\ cut \/ answered = Queries
  /\ report' = [performed |-> Cardinality(answered),
                timedOut  |-> answered # Queries]
  /\ UNCHANGED <<inFlight, answered, cut>>

RunNext ==
  \/ \E S \in SUBSET Queries : Begin(S)
  \/ \E S \in SUBSET inFlight : Answer(S)
  \/ Cut
  \/ Return

RunSpec == RunInit /\ [][RunNext]_runVars
===============================================================================
