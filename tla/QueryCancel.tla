---------------------------- MODULE QueryCancel ----------------------------
(***************************************************************************)
(* Cancellation of a query that runs on the thread pool: ray_execute_inner *)
(* clears pool->cancelled, the operator runs its stages one after the      *)
(* other, each on the pool or, when its input is small, in the caller;     *)
(* ray_cancel may set the flag at any moment; tasks claimed after that are *)
(* skipped; after some of the stages the operator tests the flag and gives *)
(* up with a "cancel" error.  Which stages are followed by a test differs  *)
(* between operators.                                                      *)
(***************************************************************************)
EXTENDS ThreadPool, Sequences

CONSTANT Ops     \* the operators a query may run

VARIABLES
  op,            \* operator of the running query
  step,          \* stages the query has run
  awaiting,      \* the operator has not looked at its last stage yet
  how,           \* where the stage runs: "pool", "caller", or "none" for nowhere
  result,        \* what the query returned
  lostIn         \* history: the stages in which a task of this query was skipped

qvars == <<op, step, awaiting, how, result, lostIn>>
queryVars == <<vars, qvars>>

\* For each stage of the operator: is it followed by CHECK_CANCEL?
\* exec_reduction: fold into the accumulators.
ReducePlan == <<FALSE>>

\* exec_group, partitioned path: partition, aggregate the partitions, emit.
GroupPlan == <<TRUE, TRUE, FALSE>>

\* exec_join, chained path: build, count, fill, gather the left and the right
\* columns.
JoinPlan == <<TRUE, FALSE, TRUE, FALSE, FALSE>>

Plan(o) == CASE o = "reduce" -> ReducePlan
             [] o = "group"  -> GroupPlan
             [] o = "join"   -> JoinPlan

QueryInit ==
  /\ Init
  /\ op = "none"
  /\ step = 0
  /\ awaiting = FALSE
  /\ how = "none"
  /\ result = "none"
  /\ lostIn = {}

BeginQuery ==
  /\ result # "running"
  /\ ResetCancel
  /\ op' \in Ops
  /\ step' = 0
  /\ awaiting' = FALSE
  /\ how' = "none"
  /\ result' = "running"
  /\ lostIn' = {}

\* Faulty variant: the fill decides by the number of pairs, like the gathers.
PlacesByPairs == IF op = "group" THEN {"pool"} ELSE {"pool", "caller"}

\* The partitioned group runs every stage on the pool; the others compare a
\* number of rows with a threshold first.  The count and the fill of a join make
\* the same comparison, and nothing is filled when no pair was counted.
Places ==
  CASE op = "group"            -> {"pool"}
    [] op = "join" /\ step = 2 -> {how, "none"}
    [] OTHER                   -> {"pool", "caller"}

RunStage ==
  /\ result = "running"
  /\ ~awaiting
  /\ how' \in Places
  /\ IF how' = "pool"
       THEN \E n \in 1 .. MaxTotal : Dispatch(n) \/ DispatchN(n)
       ELSE pc[Main] = "idle" /\ UNCHANGED vars
  /\ step' = step + 1
  /\ awaiting' = TRUE
  /\ UNCHANGED <<op, result, lostIn>>

\* pool_cancelled tests the flag, and an interrupt at the terminal, which makes
\* no worker skip a task and may come at any moment.
AfterStage ==
  /\ result = "running"
  /\ awaiting
  /\ pc[Main] = "idle"
  /\ awaiting' = FALSE
  /\ \/ Plan(op)[step] /\ result' = "cancel"
     \/ /\ ~(Plan(op)[step] /\ cancelled)
        /\ result' = IF step = Len(Plan(op)) THEN "ok" ELSE "running"
  /\ UNCHANGED <<vars, op, step, how, lostIn>>

FreeAfterQuery == result # "running" /\ StartFree /\ UNCHANGED qvars

QueryPoolStep ==
  \/ Cancel
  \/ SerialMain
  \/ \E w \in Worker : SerialWorker(w)
  \/ Terminated

QueryNext ==
  \/ BeginQuery
  \/ RunStage
  \/ AfterStage
  \/ FreeAfterQuery
  \/ /\ QueryPoolStep
     /\ lostIn' = lostIn \cup {step : i \in {j \in Task : skips'[j] > skips[j]}}
     /\ UNCHANGED <<op, step, awaiting, how, result>>

QuerySpec == QueryInit /\ [][QueryNext]_queryVars /\ SerialFairness

-----------------------------------------------------------------------------
\* The operator has gone past the test that follows stage n, or has ended well.
Beyond(n) == step > n \/ result = "ok"

\* A join counts its matches in a complete hash table.
BuildComplete == op = "join" /\ Beyond(1) => 1 \notin lostIn

\* The count is followed by no test, and where one of its tasks was skipped the
\* offsets of the others are too low: a task of the fill would write its pairs
\* over those of another one.  None does.  The flag that stopped the count is up
\* until the query is over, and the fill runs on the pool where the count did.
OffsetsSound ==
  op = "join" /\ step = 3 /\ 2 \in lostIn =>
    how # "caller" /\ \A i \in Task : runs[i] = 0

\* A join gathers its columns by a complete list of pairs: behind the test that
\* follows the fill, no task of the build, the count or the fill was skipped.
JoinPairsComplete == op = "join" /\ Beyond(3) => lostIn \cap 1 .. 3 = {}

\* The partitioned group aggregates complete partitions, and counts and emits its
\* groups from complete hash tables.
GroupTablesComplete ==
  op = "group" => /\ Beyond(1) => 1 \notin lostIn
                  /\ Beyond(2) => lostIn \cap 1 .. 2 = {}

\* What a query builds on is whole, whenever ray_cancel comes: stages behind a
\* test read nothing that misses a skipped task, and the fill of a join, the one
\* stage that reads the work of a stage without a test, then writes nothing.
\* It says nothing of the columns of the result: the gathers of a join and the
\* last phase of a group are followed by no test, and a query that is cancelled
\* in them returns a result with cells that no task wrote.
StagesComplete ==
  BuildComplete /\ OffsetsSound /\ JoinPairsComplete /\ GroupTablesComplete

=============================================================================
