-------------------------- MODULE Parallel_proofs --------------------------
(***************************************************************************)
(* The thread pool and what runs on it, for every number of workers, ring  *)
(* size and grain.                                                         *)
(*                                                                         *)
(* The pool: PoolInv is an inductive invariant of SerialSpec, and each     *)
(* safety property of ThreadPool follows from it.  Then what a caller may  *)
(* rely on: the tasks cover the loop, and the pool's steps are steps of    *)
(* the abstract loop.                                                      *)
(*                                                                         *)
(* Cancellation of a query: behind a test a join or a partitioned group    *)
(* reads nothing in which a cancellation left holes, and the stage that    *)
(* follows no test writes nothing.  A query's steps are steps of the pool  *)
(* or leave it alone, so the pool's invariant holds of it too.             *)
(*                                                                         *)
(* A parallel group-by, whichever thread claims which rows: the result of  *)
(* each path has the counts, sums, minima and maxima of a sequential pass, *)
(* and a FIRST or LAST that is a value of the group.  An accumulator is    *)
(* exact for a set of rows, whatever the order they came in; the threads   *)
(* split the rows of the settled tasks, and merging is taking unions.      *)
(***************************************************************************)
EXTENDS QueryCancel, GroupAggregate, FoldTheorems

-----------------------------------------------------------------------------
(* The pool. *)

\* Dividing a positive number of elements into tasks gives at least one task.
LEMMA CeilDivNat ==
  ASSUME NEW a \in Nat \ {0}, NEW b \in Nat \ {0}
  PROVE  CeilDiv(a, b) \in Nat \ {0}
  BY DEF CeilDiv

\* A claimed index below the capacity is its own slot: no wrap-around.
LEMMA ModSmall ==
  ASSUME NEW c \in Nat \ {0}, NEW i \in 0 .. c - 1
  PROVE  i % c = i
  OBVIOUS

\* A slot number is within the ring.
LEMMA ModRange ==
  ASSUME NEW c \in Nat \ {0}, NEW i \in Nat
  PROVE  i % c \in 0 .. c - 1
  OBVIOUS

\* An index below the number of tasks is below the capacity.
LEMMA IndexBelow ==
  ASSUME NEW a \in Nat, NEW b \in Nat, a <= b, NEW s \in 0 .. a - 1
  PROVE  s \in 0 .. b - 1
  OBVIOUS

\* Growing leaves a capacity the ring can have.
LEMMA GrowRange ==
  ASSUME TypeOK, NEW n, GrowRing(n)
  PROVE  cap' \in 1 .. MaxRingCap
  BY PoolAssumption DEF TypeOK, GrowRing, RingCaps

\* The conjuncts of TypeOK about pc, and how Goto keeps them.
PointsOK ==
  /\ pc \in [Thread -> MainPoints \cup WorkerPoints]
  /\ pc[Main] \in MainPoints
  /\ \A w \in Worker : pc[w] \in WorkerPoints

\* Moving a thread to one of its own points keeps the control points typed.
LEMMA GotoType ==
  ASSUME TypeOK, NEW t \in Thread, NEW p, Goto(t, p),
         IF t = Main THEN p \in MainPoints ELSE p \in WorkerPoints
  PROVE  PointsOK'
  <1>1. pc' = [pc EXCEPT ![t] = p]
    BY DEF Goto
  <1>2. pc \in [Thread -> MainPoints \cup WorkerPoints]
    BY DEF TypeOK
  <1>3. pc' \in [Thread -> MainPoints \cup WorkerPoints]
    BY <1>1, <1>2
  <1>4. pc'[Main] \in MainPoints
    BY <1>1, <1>2 DEF TypeOK, Thread
  <1>5. ASSUME NEW w \in Worker
        PROVE  pc'[w] \in WorkerPoints
    BY <1>1, <1>2, PoolAssumption DEF TypeOK, Thread
  <1>6. QED
    BY <1>3, <1>4, <1>5 DEF PointsOK

\* Sizing and filling the ring keeps every variable typed.
LEMMA PrepareType ==
  ASSUME TypeOK, NEW n \in Nat \ {0}, GrowRing(n), PrepareRing(n),
         total' \in Nat, grain' \in Nat \ {0}
  PROVE  TypeOK'
  <1>1. cap' \in 1 .. MaxRingCap
    BY GrowRange
  <1>2. nTasks' \in 0 .. cap'
    BY <1>1 DEF PrepareRing, Least
  <1>3. ring' \in [0 .. cap' - 1 -> Task]
    <2>1. \A s \in 0 .. cap' - 1 :
            (IF s < nTasks' THEN s ELSE IF s < cap THEN ring[s] ELSE 0) \in Task
      <3>1. ASSUME NEW s \in 0 .. cap' - 1
            PROVE  (IF s < nTasks' THEN s ELSE IF s < cap THEN ring[s] ELSE 0) \in Task
        <4>1. s \in Task
          <5>1. cap' \in Nat /\ MaxRingCap \in Nat /\ cap' <= MaxRingCap
            BY <1>1, PoolAssumption
          <5>2. QED
            BY <5>1, IndexBelow DEF Task
        <4>2. s < cap => ring[s] \in Task
          BY <1>1 DEF TypeOK
        <4>3. 0 \in Task
          BY PoolAssumption DEF Task
        <4>4. QED
          BY <4>1, <4>2, <4>3
      <3>2. QED
        BY <3>1
    <2>2. QED
      BY <2>1 DEF PrepareRing
  <1>4. PointsOK'
    BY GotoType DEF PrepareRing, MainPoints, Thread
  <1>5. UNCHANGED <<taskCount, taskTail, pending, sem, shutdown, cancelled, parFlag,
                    rcSync, posted, idx, runs, skips>>
    BY DEF PrepareRing
  <1>6. dispatches' \in Nat
    BY DEF PrepareRing, TypeOK
  <1>7. QED
    BY <1>1, <1>2, <1>3, <1>4, <1>5, <1>6 DEF TypeOK, PointsOK

\* A wake-up loop keeps every variable typed.
LEMMA SignalType ==
  ASSUME TypeOK, NEW from, NEW to \in MainPoints, Signal(from, to)
  PROVE  TypeOK'
  <1>1. CASE posted < NWorkers
    BY <1>1 DEF TypeOK, Signal, history
  <1>2. CASE ~(posted < NWorkers)
    <2>1. PointsOK'
      BY <1>2, GotoType DEF Signal, Thread
    <2>2. QED
      BY <1>2, <2>1 DEF TypeOK, Signal, history, PointsOK
  <1>3. QED
    BY <1>1, <1>2

\* TypeOK is inductive by itself.
LEMMA TypePreserved ==
  ASSUME TypeOK, [SerialNext]_vars
  PROVE  TypeOK'
  <1>. USE PoolAssumption DEF Goto, Thread, shared, locals, history
  <1>1. ASSUME NEW n \in 1 .. MaxTotal, Dispatch(n)
        PROVE  TypeOK'
    <2>1. CeilDiv(n, Grain) \in Nat \ {0}
      BY CeilDivNat
    <2>2. GrowRing(CeilDiv(n, Grain)) /\ PrepareRing(CeilDiv(n, Grain))
      BY <1>1 DEF Dispatch
    <2>3. cap' \in 1 .. MaxRingCap
      BY <2>2, GrowRange
    <2>4. CeilDiv(n, cap') \in Nat \ {0}
      BY <2>3, CeilDivNat
    <2>5. total' \in Nat /\ grain' \in Nat \ {0}
      BY <1>1, <2>4 DEF Dispatch
    <2>6. QED
      BY <2>1, <2>2, <2>5, PrepareType
  <1>2. ASSUME NEW n \in 1 .. MaxTotal, DispatchN(n)
        PROVE  TypeOK'
    BY <1>2, PrepareType DEF DispatchN
  <1>3. CASE ResetCancel
    BY <1>3 DEF TypeOK, ResetCancel
  <1>4. CASE StartFree
    BY <1>4 DEF TypeOK, StartFree, MainPoints
  <1>5. CASE Cancel
    BY <1>5 DEF TypeOK, Cancel
  <1>6. CASE StoreCount
    BY <1>6 DEF TypeOK, StoreCount, MainPoints
  <1>7. CASE StoreTail
    BY <1>7 DEF TypeOK, StoreTail, MainPoints
  <1>8. CASE StorePending
    BY <1>8 DEF TypeOK, StorePending, MainPoints
  <1>9. CASE RaiseFlags
    BY <1>9 DEF TypeOK, RaiseFlags, MainPoints
  <1>10. CASE WakeWorkers
    BY <1>10, SignalType DEF WakeWorkers, MainPoints
  <1>11. CASE SpinExit
    BY <1>11 DEF TypeOK, SpinExit, MainPoints
  <1>12. CASE LowerFlags
    <2>1. runs' \in [Task -> Nat] /\ skips' \in [Task -> Nat]
      BY <1>12 DEF LowerFlags, NewHistory
    <2>2. PointsOK'
      BY <1>12, GotoType DEF LowerFlags, MainPoints
    <2>3. 0 \in 0 .. cap /\ cap' = cap
      BY <1>12 DEF TypeOK, LowerFlags
    <2>4. QED
      BY <1>12, <2>1, <2>2, <2>3 DEF TypeOK, LowerFlags, PointsOK
  <1>13. CASE SignalShutdown
    BY <1>13, SignalType DEF SignalShutdown, MainPoints
  <1>14. CASE JoinAll
    BY <1>14 DEF TypeOK, JoinAll, MainPoints
  <1>15. ASSUME NEW t \in Thread, Claim(t)
         PROVE  TypeOK'
    BY <1>15 DEF TypeOK, Claim, MainPoints, WorkerPoints
  <1>16. ASSUME NEW t \in Thread, CheckBounds(t)
         PROVE  TypeOK'
    <2>1. CASE idx[t] >= Limit(t)
      <3>1. PointsOK'
        BY <1>16, <2>1, GotoType DEF CheckBounds, Drained, MainPoints, WorkerPoints
      <3>2. idx' \in [Thread -> Nat]
        BY <1>16, <2>1 DEF TypeOK, CheckBounds
      <3>3. UNCHANGED <<shared, locals, history>>
        BY <1>16 DEF CheckBounds
      <3>4. QED
        BY <3>1, <3>2, <3>3 DEF TypeOK, PointsOK
    <2>2. CASE ~(idx[t] >= Limit(t))
      BY <1>16, <2>2 DEF TypeOK, CheckBounds, MainPoints, WorkerPoints
    <2>3. QED
      BY <2>1, <2>2
  <1>17. ASSUME NEW t \in Thread, CheckCancelled(t)
         PROVE  TypeOK'
    <2>. DEFINE task == ring[idx[t] % cap]
    <2>1. task \in Task
      <3>1. idx[t] % cap \in 0 .. cap - 1
        <4>1. cap \in Nat \ {0} /\ idx[t] \in Nat
          BY DEF TypeOK
        <4>2. QED
          BY <4>1, ModRange
      <3>2. QED
        BY <3>1 DEF TypeOK
    <2>2. CASE cancelled
      <3>1. PointsOK'
        BY <1>17, <2>2, GotoType DEF CheckCancelled, MainPoints, WorkerPoints
      <3>2. skips' \in [Task -> Nat]
        <4>1. skips' = [skips EXCEPT ![task] = skips[task] + 1]
          BY <1>17, <2>2 DEF CheckCancelled
        <4>2. skips \in [Task -> Nat]
          BY DEF TypeOK
        <4>3. QED
          BY <2>1, <4>1, <4>2
      <3>3. QED
        BY <1>17, <2>2, <3>1, <3>2 DEF TypeOK, CheckCancelled, PointsOK
    <2>3. CASE ~cancelled
      <3>1. PointsOK'
        BY <1>17, <2>3, GotoType DEF CheckCancelled, MainPoints, WorkerPoints
      <3>2. runs' \in [Task -> Nat]
        <4>1. runs' = [runs EXCEPT ![task] = runs[task] + 1]
          BY <1>17, <2>3 DEF CheckCancelled
        <4>2. runs \in [Task -> Nat]
          BY DEF TypeOK
        <4>3. QED
          BY <2>1, <4>1, <4>2
      <3>3. QED
        BY <1>17, <2>3, <3>1, <3>2 DEF TypeOK, CheckCancelled, PointsOK
    <2>4. QED
      BY <2>2, <2>3
  <1>18. ASSUME NEW t \in Thread, Settle(t)
         PROVE  TypeOK'
    BY <1>18 DEF TypeOK, Settle, MainPoints, WorkerPoints
  <1>19. ASSUME NEW w \in Worker, SemWait(w)
         PROVE  TypeOK'
    BY <1>19 DEF TypeOK, SemWait, WorkerPoints
  <1>20. ASSUME NEW w \in Worker, CheckShutdown(w)
         PROVE  TypeOK'
    BY <1>20 DEF TypeOK, CheckShutdown, WorkerPoints
  <1>21. CASE UNCHANGED vars
    BY <1>21 DEF TypeOK, vars
  <1>22. QED
    BY <1>1, <1>2, <1>3, <1>4, <1>5, <1>6, <1>7, <1>8, <1>9, <1>10, <1>11, <1>12,
       <1>13, <1>14, <1>15, <1>16, <1>17, <1>18, <1>19, <1>20, <1>21
       DEF SerialNext, Caller, SerialMain, MainStep, SerialWorker, WorkerStep,
           ClaimLoop, Terminated

\* Task numbers below nTasks are numbers of slots.
LEMMA InTask ==
  ASSUME TypeOK
  PROVE  \A i \in Nat : i < nTasks => i \in Task
  <1>1. /\ nTasks \in Nat /\ cap \in Nat /\ nTasks <= cap
        /\ cap <= MaxRingCap /\ MaxRingCap \in Nat
    BY PoolAssumption DEF TypeOK
  <1>2. QED
    BY <1>1 DEF Task

\* How often a task was run or skipped is a number.
LEMMA TouchedNat ==
  ASSUME TypeOK
  PROVE  \A i \in Task : Touched(i) \in Nat
  BY DEF TypeOK, Touched

\* The main thread is in one of the phases the invariant speaks of.
LEMMA MainPhases ==
  MainPoints \subseteq Live \cup Outside \cup Publishing \cup {"count", "unflag"}
  BY DEF MainPoints, Live, Outside, Publishing

\* The tasks that are not finished are finitely many.
LEMMA OpenTasksFinite ==
  ASSUME TypeOK
  PROVE  IsFiniteSet(OpenTasks)
  <1>1. nTasks \in Nat
    BY DEF TypeOK
  <1>2. IsFiniteSet(0 .. nTasks - 1)
    BY <1>1, FS_Interval
  <1>3. OpenTasks \in SUBSET (0 .. nTasks - 1)
    BY DEF OpenTasks, Touched
  <1>4. QED
    BY <1>2, <1>3, FS_Subset

\* The set of unfinished tasks depends on the history and the owners only.
LEMMA OpenTasksFrame ==
  ASSUME UNCHANGED <<nTasks, runs, skips>>,
         \A t \in Thread : pc[t] \in {"run", "skip"} <=> pc'[t] \in {"run", "skip"},
         \A t \in Thread : pc[t] \in {"run", "skip"} => idx'[t] = idx[t]
  PROVE  OpenTasks' = OpenTasks
  BY DEF OpenTasks, Touched

\* Clearing the cancel flag, ray_execute_inner, keeps the invariant.
LEMMA StepResetCancel ==
  ASSUME PoolInv, TypeOK', ResetCancel
  PROVE  RingInv' /\ PublishInv' /\ ClaimInv' /\ CountInv'
  <1>. USE PoolAssumption DEF Thread, Task, Holding, Claimed, Publishing, Outside, Live,
              PoolInv, TypeOK, ClaimInv, Goto, shared, locals, history, ResetCancel
  <1>1. RingInv'
    BY DEF RingInv
  <1>2. PublishInv'
    BY DEF PublishInv, OwnerInv, CountInv, LateInv, Touched
  <1>3. OwnerInv'
    BY DEF OwnerInv, PublishInv, LateInv, Touched
  <1>4. UniqueInv'
    BY DEF UniqueInv, OwnerInv
  <1>5. LateInv'
    BY DEF LateInv, PublishInv, OwnerInv, Touched
  <1>6. TouchInv'
    BY DEF TouchInv, OwnerInv, UniqueInv, PublishInv, LateInv, Touched
  <1>7. CountInv'
    BY DEF CountInv, PublishInv, OpenTasks, TouchInv, OwnerInv, Touched
  <1>8. QED
    BY <1>1, <1>2, <1>3, <1>4, <1>5, <1>6, <1>7 DEF ClaimInv

\* Raising the shutdown flag, ray_pool_free, keeps the invariant.
LEMMA StepStartFree ==
  ASSUME PoolInv, TypeOK', StartFree
  PROVE  RingInv' /\ PublishInv' /\ ClaimInv' /\ CountInv'
  <1>. USE PoolAssumption DEF Thread, Task, Holding, Claimed, Publishing, Outside, Live,
              PoolInv, TypeOK, ClaimInv, Goto, shared, locals, history, StartFree
  <1>1. RingInv'
    BY DEF RingInv
  <1>2. PublishInv'
    BY DEF PublishInv, OwnerInv, CountInv, LateInv, Touched
  <1>3. OwnerInv'
    BY DEF OwnerInv, PublishInv, LateInv, Touched
  <1>4. UniqueInv'
    BY DEF UniqueInv, OwnerInv
  <1>5. LateInv'
    BY DEF LateInv, PublishInv, OwnerInv, Touched
  <1>6. TouchInv'
    BY DEF TouchInv, OwnerInv, UniqueInv, PublishInv, LateInv, Touched
  <1>7. CountInv'
    BY DEF CountInv, PublishInv, OpenTasks, TouchInv, OwnerInv, Touched
  <1>8. QED
    BY <1>1, <1>2, <1>3, <1>4, <1>5, <1>6, <1>7 DEF ClaimInv

\* ray_cancel at any moment keeps the invariant.
LEMMA StepCancel ==
  ASSUME PoolInv, TypeOK', Cancel
  PROVE  RingInv' /\ PublishInv' /\ ClaimInv' /\ CountInv'
  <1>. USE PoolAssumption DEF Thread, Task, Holding, Claimed, Publishing, Outside, Live,
              PoolInv, TypeOK, ClaimInv, Goto, shared, locals, history, Cancel
  <1>1. RingInv'
    BY DEF RingInv
  <1>2. PublishInv'
    BY DEF PublishInv, OwnerInv, CountInv, LateInv, Touched
  <1>3. OwnerInv'
    BY DEF OwnerInv, PublishInv, LateInv, Touched
  <1>4. UniqueInv'
    BY DEF UniqueInv, OwnerInv
  <1>5. LateInv'
    BY DEF LateInv, PublishInv, OwnerInv, Touched
  <1>6. TouchInv'
    BY DEF TouchInv, OwnerInv, UniqueInv, PublishInv, LateInv, Touched
  <1>7. CountInv'
    BY DEF CountInv, PublishInv, OpenTasks, TouchInv, OwnerInv, Touched
  <1>8. QED
    BY <1>1, <1>2, <1>3, <1>4, <1>5, <1>6, <1>7 DEF ClaimInv

\* Filling the ring before the publication keeps the invariant.
LEMMA StepPrepare ==
  ASSUME PoolInv, TypeOK', NEW n \in Nat \ {0}, PrepareRing(n), pc[Main] = "idle"
  PROVE  RingInv' /\ PublishInv' /\ ClaimInv' /\ CountInv'
  <1>. USE PoolAssumption DEF Thread, Task, Holding, Claimed, Publishing, Outside, Live,
              PoolInv, TypeOK, ClaimInv, Goto, PrepareRing
  <1>1. RingInv'
    BY DEF RingInv
  <1>2. PublishInv'
    BY DEF PublishInv, Touched
  <1>3. OwnerInv'
    BY DEF OwnerInv, PublishInv
  <1>4. UniqueInv'
    BY DEF UniqueInv
  <1>5. LateInv'
    BY DEF LateInv
  <1>6. TouchInv'
    <2>1. \A i \in Task : Touched(i)' = 0
      BY DEF PublishInv, Touched
    <2>2. \A t \in Thread : pc'[t] \notin Holding
      BY DEF OwnerInv
    <2>3. ASSUME NEW t \in Thread, idx'[t] < nTasks'
          PROVE  idx'[t] \in Task
      <3>1. MaxRingCap \in Nat
        BY PoolAssumption
      <3>2. cap' \in 1 .. MaxRingCap /\ nTasks' \in 0 .. cap'
        BY ONLY TypeOK' DEF TypeOK
      <3>3. nTasks' \in Nat /\ nTasks' <= MaxRingCap
        BY ONLY <3>1, <3>2
      <3>4. idx'[t] \in Nat
        BY ONLY TypeOK', t \in Thread DEF TypeOK
      <3>5. QED
        BY ONLY <2>3, <3>1, <3>3, <3>4 DEF Task
    <2>4. QED
      BY ONLY <2>1, <2>2, <2>3 DEF TouchInv, Holding
  <1>7. CountInv'
    BY DEF CountInv
  <1>8. QED
    BY <1>1, <1>2, <1>3, <1>4, <1>5, <1>6, <1>7

\* The store of task_count keeps the invariant, with no straggler inside.
LEMMA StepStoreCount ==
  ASSUME PoolInv, TypeOK', StoreCount, NoStragglerInside
  PROVE  RingInv' /\ PublishInv' /\ ClaimInv' /\ CountInv'
  <1>. USE PoolAssumption DEF Thread, Task, Holding, Claimed, Publishing, Outside, Live,
              PoolInv, TypeOK, ClaimInv, Goto, shared, locals, history, StoreCount, NoStragglerInside
  <1>1. RingInv'
    BY DEF RingInv
  <1>2. PublishInv'
    BY DEF PublishInv, OwnerInv, CountInv, LateInv, Touched
  <1>3. OwnerInv'
    BY DEF OwnerInv, PublishInv, LateInv, Touched
  <1>4. UniqueInv'
    BY DEF UniqueInv, OwnerInv
  <1>5. LateInv'
    BY DEF LateInv, PublishInv, OwnerInv, Touched
  <1>6. TouchInv'
    BY DEF TouchInv, OwnerInv, UniqueInv, PublishInv, LateInv, Touched
  <1>7. CountInv'
    BY DEF CountInv, PublishInv, OpenTasks, TouchInv, OwnerInv, Touched
  <1>8. QED
    BY <1>1, <1>2, <1>3, <1>4, <1>5, <1>6, <1>7 DEF ClaimInv

\* The store of task_tail keeps the invariant.
LEMMA StepStoreTail ==
  ASSUME PoolInv, TypeOK', StoreTail
  PROVE  RingInv' /\ PublishInv' /\ ClaimInv' /\ CountInv'
  <1>. USE PoolAssumption DEF Thread, Task, Holding, Claimed, Publishing, Outside, Live,
              PoolInv, TypeOK, ClaimInv, Goto, shared, locals, history, StoreTail
  <1>1. RingInv'
    BY DEF RingInv
  <1>2. PublishInv'
    BY DEF PublishInv, OwnerInv, CountInv, LateInv, Touched
  <1>3. OwnerInv'
    BY DEF OwnerInv, PublishInv, LateInv, Touched
  <1>4. UniqueInv'
    BY DEF UniqueInv, OwnerInv
  <1>5. LateInv'
    BY DEF LateInv, PublishInv, OwnerInv, Touched
  <1>6. TouchInv'
    BY DEF TouchInv, OwnerInv, UniqueInv, PublishInv, LateInv, Touched
  <1>7. CountInv'
    BY DEF CountInv, PublishInv, OpenTasks, TouchInv, OwnerInv, Touched
  <1>8. QED
    BY <1>1, <1>2, <1>3, <1>4, <1>5, <1>6, <1>7 DEF ClaimInv

\* The store of pending makes it the number of unfinished tasks.
LEMMA StepStorePending ==
  ASSUME PoolInv, TypeOK', StorePending
  PROVE  RingInv' /\ PublishInv' /\ ClaimInv' /\ CountInv'
  <1>. USE PoolAssumption DEF Thread, Task, Holding, Claimed, Publishing, Outside, Live,
              PoolInv, TypeOK, ClaimInv, Goto, shared, locals, history, StorePending
  <1>full. OpenTasks' = 0 .. nTasks - 1 /\ Cardinality(OpenTasks') = nTasks
    <2>1. OpenTasks' = 0 .. nTasks - 1
      <3>1. \A i \in 0 .. nTasks - 1 : i \in Task
        BY InTask
      <3>2. \A i \in Task : Touched(i)' = 0
        BY DEF PublishInv, Touched
      <3>3. nTasks' = nTasks
        OBVIOUS
      <3>4. QED
        BY <3>1, <3>2, <3>3 DEF OpenTasks
    <2>2. nTasks \in Nat
      OBVIOUS
    <2>3. QED
      BY <2>1, <2>2, FS_Interval
  <1>1. RingInv'
    BY DEF RingInv
  <1>2. PublishInv'
    BY DEF PublishInv, OwnerInv, CountInv, LateInv, Touched
  <1>3. OwnerInv'
    BY DEF OwnerInv, PublishInv, LateInv, Touched
  <1>4. UniqueInv'
    BY DEF UniqueInv, OwnerInv
  <1>5. LateInv'
    BY DEF LateInv, PublishInv, OwnerInv, Touched
  <1>6. TouchInv'
    <2>1. \A i \in Task : Touched(i)' = 0
      BY DEF PublishInv, Touched
    <2>2. \A t \in Thread : pc'[t] \notin Claimed
      BY DEF LateInv, OwnerInv
    <2>3. QED
      BY <2>1, <2>2 DEF TouchInv
  <1>7. CountInv'
    BY <1>full DEF CountInv
  <1>8. QED
    BY <1>1, <1>2, <1>3, <1>4, <1>5, <1>6, <1>7 DEF ClaimInv

\* Raising the parallel flags keeps the invariant.
LEMMA StepRaiseFlags ==
  ASSUME PoolInv, TypeOK', RaiseFlags
  PROVE  RingInv' /\ PublishInv' /\ ClaimInv' /\ CountInv'
  <1>. USE PoolAssumption DEF Thread, Task, Holding, Claimed, Publishing, Outside, Live,
              PoolInv, TypeOK, ClaimInv, Goto, shared, locals, history, RaiseFlags
  <1>1. RingInv'
    BY DEF RingInv
  <1>2. PublishInv'
    BY DEF PublishInv, OwnerInv, CountInv, LateInv, Touched
  <1>3. OwnerInv'
    BY DEF OwnerInv, PublishInv, LateInv, Touched
  <1>4. UniqueInv'
    BY DEF UniqueInv, OwnerInv
  <1>5. LateInv'
    BY DEF LateInv, PublishInv, OwnerInv, Touched
  <1>6. TouchInv'
    BY DEF TouchInv, OwnerInv, UniqueInv, PublishInv, LateInv, Touched
  <1>7. CountInv'
    <2>1. OpenTasks' = OpenTasks
      BY OpenTasksFrame
    <2>2. QED
      BY <2>1 DEF CountInv, PublishInv
  <1>8. QED
    BY <1>1, <1>2, <1>3, <1>4, <1>5, <1>6, <1>7 DEF ClaimInv

\* Posting the wake-up tokens keeps the invariant.
LEMMA StepWakeWorkers ==
  ASSUME PoolInv, TypeOK', WakeWorkers
  PROVE  RingInv' /\ PublishInv' /\ ClaimInv' /\ CountInv'
  <1>. USE PoolAssumption DEF Thread, Task, Holding, Claimed, Publishing, Outside, Live,
              PoolInv, TypeOK, ClaimInv, Goto, shared, locals, history, WakeWorkers, Signal
  <1>1. RingInv'
    BY DEF RingInv
  <1>2. PublishInv'
    BY DEF PublishInv, OwnerInv, CountInv, LateInv, Touched
  <1>3. OwnerInv'
    BY DEF OwnerInv, PublishInv, LateInv, Touched
  <1>4. UniqueInv'
    BY ZenonT(60) DEF UniqueInv, OwnerInv
  <1>5. LateInv'
    BY DEF LateInv, PublishInv, OwnerInv, Touched
  <1>6. TouchInv'
    BY ZenonT(60) DEF TouchInv, OwnerInv, UniqueInv, PublishInv, LateInv, Touched
  <1>7. CountInv'
    <2>1. OpenTasks' = OpenTasks
      BY OpenTasksFrame
    <2>2. QED
      BY <2>1 DEF CountInv, PublishInv
  <1>8. QED
    BY <1>1, <1>2, <1>3, <1>4, <1>5, <1>6, <1>7 DEF ClaimInv

\* When the spin reads zero, every task is finished and unowned.
LEMMA StepSpinExit ==
  ASSUME PoolInv, TypeOK', SpinExit
  PROVE  RingInv' /\ PublishInv' /\ ClaimInv' /\ CountInv'
  <1>. USE PoolAssumption DEF Thread, Task, Holding, Claimed, Publishing, Outside, Live,
              PoolInv, TypeOK, ClaimInv, Goto, shared, locals, history, SpinExit
  <1>empty. OpenTasks = {} /\ OpenTasks' = {}
    <2>1. IsFiniteSet(OpenTasks)
      BY OpenTasksFinite
    <2>2. OpenTasks = {}
      BY <2>1, FS_EmptySet DEF CountInv
    <2>3. OpenTasks' = OpenTasks
      BY OpenTasksFrame
    <2>4. QED
      BY <2>2, <2>3
  <1>nobody. \A t \in Thread : pc[t] \notin Holding
    <2>1. ASSUME NEW t \in Thread, pc[t] \in Holding
          PROVE  idx[t] \in OpenTasks
      BY SMTT(30), <2>1 DEF OpenTasks, OwnerInv, TouchInv
    <2>2. QED
      BY <1>empty, <2>1
  <1>1. RingInv'
    BY DEF RingInv
  <1>2. PublishInv'
    BY DEF PublishInv, OwnerInv, CountInv, LateInv, Touched
  <1>3. OwnerInv'
    BY <1>nobody DEF OwnerInv
  <1>4. UniqueInv'
    BY DEF UniqueInv, OwnerInv
  <1>5. LateInv'
    <2>1. ASSUME NEW w \in Worker, pc[w] = "bounds"
          PROVE  idx[w] >= taskCount
      <3>1. taskCount = nTasks /\ idx[w] \in Nat
        BY DEF PublishInv
      <3>2. idx[w] < nTasks => idx[w] \in OpenTasks
        BY <2>1, <3>1 DEF TouchInv, OpenTasks
      <3>3. QED
        BY <1>empty, <3>1, <3>2
    <2>2. \A w \in Worker : pc'[w] = pc[w]
      OBVIOUS
    <2>3. QED
      BY <2>1, <2>2 DEF LateInv
  <1>6. TouchInv'
    BY DEF TouchInv, OwnerInv, UniqueInv, PublishInv, LateInv, Touched
  <1>7. CountInv'
    BY <1>empty DEF CountInv
  <1>8. QED
    BY <1>1, <1>2, <1>3, <1>4, <1>5, <1>6, <1>7 DEF ClaimInv

\* The return from a dispatch keeps the invariant.
LEMMA StepLowerFlags ==
  ASSUME PoolInv, TypeOK', LowerFlags
  PROVE  RingInv' /\ PublishInv' /\ ClaimInv' /\ CountInv'
  <1>. USE PoolAssumption DEF Thread, Task, Holding, Claimed, Publishing, Outside, Live,
              PoolInv, TypeOK, ClaimInv, Goto, shared, locals, history, LowerFlags, NewHistory
  <1>1. RingInv'
    BY DEF RingInv
  <1>2. PublishInv'
    BY DEF PublishInv, OwnerInv, CountInv, LateInv, Touched
  <1>3. OwnerInv'
    BY DEF OwnerInv, PublishInv, LateInv, Touched
  <1>4. UniqueInv'
    BY DEF UniqueInv, OwnerInv
  <1>5. LateInv'
    BY DEF LateInv, PublishInv, OwnerInv, Touched
  <1>6. TouchInv'
    <2>1. \A i \in Task : Touched(i)' = 0
      BY DEF Touched
    <2>2. \A t \in Thread : pc'[t] \notin Holding
      BY DEF OwnerInv
    <2>3. nTasks' = 0 /\ \A t \in Thread : idx'[t] \in Nat
      OBVIOUS
    <2>4. QED
      BY <2>1, <2>2, <2>3 DEF TouchInv
  <1>7. CountInv'
    BY DEF CountInv, PublishInv, OpenTasks, TouchInv, OwnerInv, Touched
  <1>8. QED
    BY <1>1, <1>2, <1>3, <1>4, <1>5, <1>6, <1>7 DEF ClaimInv

\* Posting the shutdown tokens keeps the invariant.
LEMMA StepSignalShutdown ==
  ASSUME PoolInv, TypeOK', SignalShutdown
  PROVE  RingInv' /\ PublishInv' /\ ClaimInv' /\ CountInv'
  <1>. USE PoolAssumption DEF Thread, Task, Holding, Claimed, Publishing, Outside, Live,
              PoolInv, TypeOK, ClaimInv, Goto, shared, locals, history, SignalShutdown, Signal
  <1>1. RingInv'
    BY DEF RingInv
  <1>2. PublishInv'
    BY ZenonT(60) DEF PublishInv, OwnerInv, CountInv, LateInv, Touched
  <1>3. OwnerInv'
    BY ZenonT(60) DEF OwnerInv, PublishInv, LateInv, Touched
  <1>4. UniqueInv'
    BY SMTT(30) DEF UniqueInv, OwnerInv
  <1>5. LateInv'
    BY DEF LateInv, PublishInv, OwnerInv, Touched
  <1>6. TouchInv'
    <2>1. \A i : Touched(i)' = Touched(i)
      BY DEF Touched
    <2>2. QED
      BY <2>1 DEF TouchInv
  <1>7. CountInv'
    BY ZenonT(60) DEF CountInv, PublishInv, OpenTasks, TouchInv, OwnerInv, Touched
  <1>8. QED
    BY <1>1, <1>2, <1>3, <1>4, <1>5, <1>6, <1>7 DEF ClaimInv

\* The join of the workers keeps the invariant.
LEMMA StepJoinAll ==
  ASSUME PoolInv, TypeOK', JoinAll
  PROVE  RingInv' /\ PublishInv' /\ ClaimInv' /\ CountInv'
  <1>. USE PoolAssumption DEF Thread, Task, Holding, Claimed, Publishing, Outside, Live,
              PoolInv, TypeOK, ClaimInv, Goto, shared, locals, history, JoinAll
  <1>1. RingInv'
    BY DEF RingInv
  <1>2. PublishInv'
    BY DEF PublishInv, OwnerInv, CountInv, LateInv, Touched
  <1>3. OwnerInv'
    BY DEF OwnerInv, PublishInv, LateInv, Touched
  <1>4. UniqueInv'
    BY DEF UniqueInv, OwnerInv
  <1>5. LateInv'
    BY DEF LateInv, PublishInv, OwnerInv, Touched
  <1>6. TouchInv'
    BY DEF TouchInv, OwnerInv, UniqueInv, PublishInv, LateInv, Touched
  <1>7. CountInv'
    BY DEF CountInv, PublishInv, OpenTasks, TouchInv, OwnerInv, Touched
  <1>8. QED
    BY <1>1, <1>2, <1>3, <1>4, <1>5, <1>6, <1>7 DEF ClaimInv

\* The fetch-and-add gives a thread an index no other thread holds.
LEMMA StepClaim ==
  ASSUME PoolInv, TypeOK', NEW t \in Thread, Claim(t), t # Main => pc[Main] \notin Publishing
  PROVE  RingInv' /\ PublishInv' /\ ClaimInv' /\ CountInv'
  <1>. USE PoolAssumption DEF Thread, Task, Holding, Claimed, Publishing, Outside, Live,
              PoolInv, TypeOK, ClaimInv, Goto, shared, locals, history, Claim
  <1>1. RingInv'
    BY DEF RingInv
  <1>2. PublishInv'
    <2>1. /\ taskTail \in Nat /\ taskTail' = taskTail + 1 /\ nTasks \in Nat /\ taskCount \in Nat
          /\ UNCHANGED <<taskCount, nTasks, parFlag, rcSync>>
          /\ \A i : Touched(i)' = Touched(i)
      BY DEF Touched
    <2>2. pc'[Main] = IF t = Main THEN "bounds" ELSE pc[Main]
      OBVIOUS
    <2>3. t = Main => pc[Main] = "claim"
      OBVIOUS
    <2>4. PublishInv /\ (t # Main => pc[Main] \notin Publishing)
      BY DEF PublishInv
    <2>5. QED
      BY ONLY <2>1, <2>2, <2>3, <2>4 DEF PublishInv, Live, Outside, Publishing, Task
  <1>3. OwnerInv'
    <2>1. idx' = [idx EXCEPT ![t] = taskTail] /\ nTasks' = nTasks /\ taskTail' = taskTail + 1 /\ taskTail \in Nat
      OBVIOUS
    <2>2. pc' = [pc EXCEPT ![t] = "bounds"] /\ pc[t] = "claim" /\ pc \in [Thread -> MainPoints \cup WorkerPoints]
      OBVIOUS
    <2>3. idx \in [Thread -> Nat]
      OBVIOUS
    <2>4. \A u \in Thread : u # t => pc'[u] = pc[u] /\ idx'[u] = idx[u]
      BY ONLY <2>1, <2>2, <2>3
    <2>5. pc'[t] = "bounds" /\ idx'[t] = taskTail
      BY ONLY <2>1, <2>2, <2>3, t \in Thread
    <2>6. pc[Main] \in Live => pc'[Main] \in Live
      BY ONLY <2>4, <2>5, Main \in Thread DEF Live
    <2>7. OwnerInv
      OBVIOUS
    <2>8. ASSUME NEW u \in Thread, pc'[u] \in Holding
          PROVE  pc'[Main] \in Live /\ idx'[u] < nTasks'
      BY ONLY <2>1, <2>4, <2>5, <2>6, <2>7, <2>8 DEF OwnerInv, Holding
    <2>9. ASSUME NEW u \in Thread, pc'[u] \in Claimed
          PROVE  idx'[u] < taskTail'
      <3>1. idx[u] \in Nat
        BY ONLY <2>3, u \in Thread
      <3>2. CASE u = t
        BY ONLY <2>1, <2>5, <3>2
      <3>3. CASE u # t
        <4>1. idx[u] < taskTail
          BY ONLY <2>4, <2>7, <2>9, <3>3 DEF OwnerInv
        <4> QED  BY ONLY <2>1, <2>4, <3>1, <3>3, <4>1
      <3> QED  BY <3>2, <3>3
    <2>10. QED
      BY ONLY <2>8, <2>9 DEF OwnerInv
  <1>4. UniqueInv'
    BY SMTT(30) DEF UniqueInv, OwnerInv
  <1>5. LateInv'
    BY DEF LateInv, PublishInv, OwnerInv, Touched
  <1>6. TouchInv'
    <2>1. \A i : Touched(i)' = Touched(i)
      BY DEF Touched
    <2>2. ASSUME taskTail < nTasks
          PROVE  Touched(taskTail) = 0
      <3>1. taskTail \in Task
        BY <2>2, InTask
      <3>2. pc[Main] \notin Publishing
        BY MainPhases
      <3>3. CASE pc[Main] \in Live
        <4>1. Touched(taskTail) \in Nat
          BY <3>1, TouchedNat
        <4>2. ~(Touched(taskTail) > 0)
          BY ONLY TouchInv, <3>1, <3>3, taskTail \in Nat DEF TouchInv
        <4>3. QED
          BY ONLY <4>1, <4>2
      <3>4. CASE pc[Main] \in Outside \cup {"count"}
        BY <3>1, <3>4 DEF PublishInv
      <3>5. CASE pc[Main] = "unflag"
        BY <2>2, <3>5 DEF PublishInv
      <3>6. QED
        BY <3>2, <3>3, <3>4, <3>5, MainPhases
    <2>3. idx' = [idx EXCEPT ![t] = taskTail] /\ nTasks' = nTasks /\ taskTail' = taskTail + 1
      OBVIOUS
    <2>4. \A u \in Thread : pc'[u] \in {"bounds", "check"} /\ idx'[u] < nTasks
                              => Touched(idx'[u]) = 0
      BY <2>2, <2>3 DEF TouchInv
    <2>5. \A u \in Thread : pc'[u] \in {"run", "skip"} => Touched(idx'[u]) = 1
      BY <2>3 DEF TouchInv
    <2>6. \A i \in Task : Touched(i) > 0 /\ pc'[Main] \in Live => i < taskTail'
      BY <2>3 DEF TouchInv
    <2>7. QED
      BY SMTT(30), <2>1, <2>3, <2>4, <2>5, <2>6 DEF TouchInv
  <1>7. CountInv'
    <2>1. OpenTasks' = OpenTasks
      BY OpenTasksFrame
    <2>2. QED
      BY <2>1 DEF CountInv, PublishInv
  <1>8. QED
    BY <1>1, <1>2, <1>3, <1>4, <1>5, <1>6, <1>7 DEF ClaimInv

\* The comparison with the number of tasks makes the thread an owner or sends it back.
LEMMA StepCheckBounds ==
  ASSUME PoolInv, TypeOK', NEW t \in Thread, CheckBounds(t)
  PROVE  RingInv' /\ PublishInv' /\ ClaimInv' /\ CountInv'
  <1>. USE PoolAssumption DEF Thread, Task, Holding, Claimed, Publishing, Outside, Live,
              PoolInv, TypeOK, ClaimInv, Goto, shared, locals, history, CheckBounds, Drained, Limit
  <1>inside. ASSUME idx[t] < Limit(t)
         PROVE  idx[t] < nTasks /\ pc[Main] \in Live
    <2>1. CASE t = Main
      BY <1>inside, <2>1
    <2>2. CASE t \in Worker
      <3>1. idx[t] < taskCount /\ pc[t] = "bounds" /\ t # Main
        BY <1>inside, <2>2
      <3>2. pc[Main] \in Live
        <4>1. pc[Main] \notin Publishing
          BY <2>2, <3>1 DEF LateInv
        <4>2. pc[Main] \notin Outside \cup {"count", "unflag"}
          BY ONLY <2>2, <3>1, LateInv, idx[t] \in Nat, taskCount \in Nat DEF LateInv
        <4>3. pc[Main] \in MainPoints
          OBVIOUS
        <4>4. QED
          BY <4>1, <4>2, <4>3, MainPhases
      <3>3. QED
        BY <3>1, <3>2 DEF PublishInv
    <2>3. QED
      BY <2>1, <2>2
  <1>0. CASE idx[t] < Limit(t)
    <2>. USE <1>inside, <1>0
    <2>step. UNCHANGED <<shared, locals, idx, history>> /\ pc' = [pc EXCEPT ![t] = "check"]
      BY SMTT(30)
    <2>1. RingInv'
      BY <2>step DEF RingInv
    <2>2. PublishInv'
      BY <2>step DEF PublishInv, Touched
    <2>3. OwnerInv'
      <3>1. nTasks' = nTasks /\ taskTail' = taskTail
        BY <2>step
      <3>2. pc[Main] \in Live => pc'[Main] \in Live
        BY <2>step
      <3>3. ASSUME NEW u \in Thread, pc'[u] \in Claimed
            PROVE  pc[u] \in Claimed /\ idx'[u] = idx[u]
        BY <2>step, <3>3
      <3>4. ASSUME NEW u \in Thread, pc'[u] \in Holding
            PROVE  pc[Main] \in Live /\ idx[u] < nTasks
        BY <2>step, <3>4 DEF OwnerInv
      <3>5. QED
        BY ONLY <3>1, <3>2, <3>3, <3>4, OwnerInv DEF OwnerInv, Claimed
    <2>4. UniqueInv'
      BY <2>step DEF UniqueInv
    <2>5. LateInv'
      BY <2>step DEF LateInv
    <2>6. TouchInv'
      BY SMTT(30), <2>step DEF TouchInv, Touched
    <2>7. CountInv'
      <3>1. OpenTasks' = OpenTasks
        BY <2>step, OpenTasksFrame
      <3>2. QED
        BY <2>step, <3>1 DEF CountInv
    <2>8. QED
      BY <2>1, <2>2, <2>3, <2>4, <2>5, <2>6, <2>7 DEF ClaimInv
  <1>1. CASE ~(idx[t] < Limit(t))
    <2>. USE <1>1
    <2>step. /\ UNCHANGED <<shared, locals, history>>
          /\ pc' = [pc EXCEPT ![t] = IF t = Main THEN "spin" ELSE "wait"]
          /\ \A u \in Thread : u # t => idx'[u] = idx[u]
      BY SMTT(30)
    <2>tail. t = Main => taskTail >= nTasks
      BY DEF OwnerInv
    <2>1. RingInv'
      BY <2>step DEF RingInv
    <2>2. PublishInv'
      BY SMTT(30), <2>step, <2>tail DEF PublishInv, Touched
    <2>3. OwnerInv'
      <3>1. nTasks' = nTasks /\ taskTail' = taskTail
        BY <2>step
      <3>2. pc[Main] \in Live => pc'[Main] \in Live
        BY <2>step
      <3>3. ASSUME NEW u \in Thread, pc'[u] \in Claimed
            PROVE  pc[u] \in Claimed /\ idx'[u] = idx[u]
        BY <2>step, <3>3
      <3>4. ASSUME NEW u \in Thread, pc'[u] \in Holding
            PROVE  pc[Main] \in Live /\ idx[u] < nTasks
        BY <2>step, <3>4 DEF OwnerInv
      <3>5. QED
        BY ONLY <3>1, <3>2, <3>3, <3>4, OwnerInv DEF OwnerInv, Claimed
    <2>4. UniqueInv'
      BY <2>step DEF UniqueInv
    <2>5. LateInv'
      BY <2>step DEF LateInv
    <2>6. TouchInv'
      <3>1. nTasks' = nTasks /\ taskTail' = taskTail /\ \A i : Touched(i)' = Touched(i)
        BY <2>step DEF Touched
      <3>2. \A u \in Thread : pc'[u] \in Claimed => pc'[u] = pc[u] /\ idx'[u] = idx[u]
        BY <2>step
      <3>3. pc'[Main] \in Live => pc[Main] \in Live
        BY <2>step
      <3>4. QED
        BY ONLY <3>1, <3>2, <3>3, TouchInv DEF TouchInv, Claimed, Holding
    <2>7. CountInv'
      <3>1. OpenTasks' = OpenTasks
        BY <2>step, OpenTasksFrame
      <3>2. QED
        BY <2>step, <3>1 DEF CountInv
    <2>8. QED
      BY <2>1, <2>2, <2>3, <2>4, <2>5, <2>6, <2>7 DEF ClaimInv
  <1>2. QED
    BY <1>0, <1>1

\* Running or skipping a task touches it for the first time.
LEMMA StepCheckCancelled ==
  ASSUME PoolInv, TypeOK', NEW t \in Thread, CheckCancelled(t)
  PROVE  RingInv' /\ PublishInv' /\ ClaimInv' /\ CountInv'
  <1>. USE PoolAssumption DEF Thread, Task, Holding, Claimed, Publishing, Outside, Live,
              PoolInv, TypeOK, ClaimInv, Goto, shared, locals, history, CheckCancelled
  <1>own. /\ idx[t] \in Task /\ idx[t] < nTasks /\ pc[Main] \in Live
        /\ ring[idx[t] % cap] = idx[t] /\ Touched(idx[t]) = 0
    <2>1. idx[t] \in Nat /\ idx[t] < nTasks /\ pc[Main] \in Live
      BY DEF OwnerInv
    <2>2. idx[t] \in Task
      BY <2>1, InTask
    <2>3. idx[t] \in 0 .. cap - 1 /\ cap \in Nat \ {0}
      <3>1. cap \in Nat \ {0} /\ nTasks \in 0 .. cap
        OBVIOUS
      <3>2. QED
        BY ONLY <2>1, <3>1
    <2>4. idx[t] % cap = idx[t]
      BY <2>3, ModSmall
    <2>5. QED
      BY <2>1, <2>2, <2>3, <2>4 DEF RingInv, TouchInv
  <1>touch. /\ idx' = idx
         /\ Touched(idx[t])' = 1
         /\ \A i \in Task : i # idx[t] => Touched(i)' = Touched(i)
    <2>1. CASE cancelled
      <3>1. /\ skips' = [skips EXCEPT ![idx[t]] = skips[idx[t]] + 1] /\ runs' = runs
            /\ skips \in [Task -> Nat] /\ runs \in [Task -> Nat] /\ idx' = idx
        BY <1>own, <2>1
      <3>2. QED
        BY ONLY <1>own, <3>1 DEF Touched
    <2>2. CASE ~cancelled
      <3>1. /\ runs' = [runs EXCEPT ![idx[t]] = runs[idx[t]] + 1] /\ skips' = skips
            /\ runs \in [Task -> Nat] /\ skips \in [Task -> Nat] /\ idx' = idx
        BY <1>own, <2>2
      <3>2. QED
        BY ONLY <1>own, <3>1 DEF Touched
    <2>3. QED
      BY <2>1, <2>2
  <1>goto. \E p \in {"run", "skip"} : pc' = [pc EXCEPT ![t] = p]
    OBVIOUS
  <1>others. \A u \in Thread : pc[u] \in Claimed /\ u # t => idx[u] # idx[t]
    BY DEF UniqueInv
  <1>1. RingInv'
    BY DEF RingInv
  <1>2. PublishInv'
    BY ZenonT(60) DEF PublishInv, OwnerInv, CountInv, LateInv, Touched
  <1>3. OwnerInv'
    BY ZenonT(60) DEF OwnerInv, PublishInv, LateInv, Touched
  <1>4. UniqueInv'
    BY ZenonT(60) DEF UniqueInv, OwnerInv
  <1>5. LateInv'
    BY ZenonT(60) DEF LateInv, PublishInv, OwnerInv, Touched
  <1>6. TouchInv'
    <2>1. idx' = idx /\ nTasks' = nTasks /\ taskTail' = taskTail
      OBVIOUS
    <2>2. \A u \in Thread : pc'[u] \in {"bounds", "check"} /\ idx[u] < nTasks
                              => Touched(idx[u])' = 0
      BY <1>touch, <1>goto, <1>others, InTask DEF TouchInv
    <2>3. \A u \in Thread : pc'[u] \in {"run", "skip"} => Touched(idx[u])' = 1
      BY ZenonT(60), <1>touch, <1>goto, <1>others, InTask DEF TouchInv, OwnerInv
    <2>4. \A i \in Task : Touched(i)' > 0 /\ pc'[Main] \in Live => i < taskTail
      <3>1. idx[t] < taskTail
        BY DEF OwnerInv
      <3>2. pc'[Main] \in Live => pc[Main] \in Live
        BY <1>own
      <3>3. QED
        BY ONLY <1>touch, <3>1, <3>2, TouchInv DEF TouchInv
    <2>5. \A i \in Task : Touched(i)' <= 1
      BY ONLY <1>touch, TouchInv DEF TouchInv
    <2>6. QED
      BY ONLY <2>1, <2>2, <2>3, <2>4, <2>5 DEF TouchInv
  <1>7. CountInv'
    <2>1. idx' = idx /\ nTasks' = nTasks /\ pending' = pending
      OBVIOUS
    <2>2. \A i \in 0 .. nTasks - 1 : i \in Task
      BY InTask
    <2>3. \A i \in 0 .. nTasks - 1 : i \in OpenTasks' <=> i \in OpenTasks
      BY ZenonT(60), <1>own, <1>touch, <1>goto, <2>1, <2>2 DEF OpenTasks
    <2>4. OpenTasks' = OpenTasks
      BY <2>1, <2>3 DEF OpenTasks
    <2>5. QED
      BY <1>own, <1>goto, <2>1, <2>4 DEF CountInv
  <1>8. QED
    BY <1>1, <1>2, <1>3, <1>4, <1>5, <1>6, <1>7 DEF ClaimInv

\* Settling a task makes one unfinished task less and pending one less.
LEMMA StepSettle ==
  ASSUME PoolInv, TypeOK', NEW t \in Thread, Settle(t)
  PROVE  RingInv' /\ PublishInv' /\ ClaimInv' /\ CountInv'
  <1>. USE PoolAssumption DEF Thread, Task, Holding, Claimed, Publishing, Outside, Live,
              PoolInv, TypeOK, ClaimInv, Goto, shared, locals, history, Settle
  <1>1. RingInv'
    BY DEF RingInv
  <1>2. PublishInv'
    BY DEF PublishInv, OwnerInv, CountInv, LateInv, Touched
  <1>3. OwnerInv'
    BY DEF OwnerInv, PublishInv, LateInv, Touched
  <1>4. UniqueInv'
    BY DEF UniqueInv, OwnerInv
  <1>5. LateInv'
    BY DEF LateInv, PublishInv, OwnerInv, Touched
  <1>6. TouchInv'
    BY DEF TouchInv, OwnerInv, UniqueInv, PublishInv, LateInv, Touched
  <1>7. CountInv'
    <2>1. /\ idx[t] \in 0 .. nTasks - 1 /\ pc[Main] \in Live
          /\ Touched(idx[t]) = 1
      BY SMTT(30) DEF OwnerInv, TouchInv
    <2>2. /\ nTasks' = nTasks /\ pending' = pending - 1
          /\ pc' = [pc EXCEPT ![t] = "claim"] /\ idx' = [idx EXCEPT ![t] = 0]
          /\ \A i : Touched(i)' = Touched(i)
      BY DEF Touched
    <2>3. OpenTasks' = OpenTasks \ {idx[t]}
      <3>1. \A u \in Thread : u # t => pc'[u] = pc[u] /\ idx'[u] = idx[u]
        BY <2>2
      <3>2. pc'[t] = "claim" /\ pc[t] \in {"run", "skip"}
        BY <2>2
      <3>3. \A u \in Thread : u # t /\ pc[u] \in {"run", "skip"} => idx[u] # idx[t]
        BY ONLY <3>2, UniqueInv, t \in Thread DEF UniqueInv, Claimed, Holding
      <3>4. QED
        BY ONLY <2>1, <2>2, <3>1, <3>2, <3>3, t \in Thread DEF OpenTasks
    <2>4. idx[t] \in OpenTasks
      BY <2>1 DEF OpenTasks
    <2>5. IsFiniteSet(OpenTasks)
      BY OpenTasksFinite
    <2>6. Cardinality(OpenTasks') = Cardinality(OpenTasks) - 1
      BY <2>3, <2>4, <2>5, FS_RemoveElement
    <2>7. pending = Cardinality(OpenTasks)
      BY <2>1 DEF CountInv
    <2>8. pc'[Main] # "unflag"
      BY <2>1, <2>2
    <2>9. QED
      BY <2>2, <2>6, <2>7, <2>8 DEF CountInv
  <1>8. QED
    BY <1>1, <1>2, <1>3, <1>4, <1>5, <1>6, <1>7 DEF ClaimInv

\* Taking a token of the semaphore keeps the invariant.
LEMMA StepSemWait ==
  ASSUME PoolInv, TypeOK', NEW w \in Worker, SemWait(w)
  PROVE  RingInv' /\ PublishInv' /\ ClaimInv' /\ CountInv'
  <1>. USE PoolAssumption DEF Thread, Task, Holding, Claimed, Publishing, Outside, Live,
              PoolInv, TypeOK, ClaimInv, Goto, shared, locals, history, SemWait
  <1>1. RingInv'
    BY DEF RingInv
  <1>2. PublishInv'
    BY DEF PublishInv, OwnerInv, CountInv, LateInv, Touched
  <1>3. OwnerInv'
    BY DEF OwnerInv, PublishInv, LateInv, Touched
  <1>4. UniqueInv'
    BY DEF UniqueInv, OwnerInv
  <1>5. LateInv'
    BY DEF LateInv, PublishInv, OwnerInv, Touched
  <1>6. TouchInv'
    BY DEF TouchInv, OwnerInv, UniqueInv, PublishInv, LateInv, Touched
  <1>7. CountInv'
    <2>1. OpenTasks' = OpenTasks
      BY OpenTasksFrame
    <2>2. QED
      BY <2>1 DEF CountInv, PublishInv
  <1>8. QED
    BY <1>1, <1>2, <1>3, <1>4, <1>5, <1>6, <1>7 DEF ClaimInv

\* A woken worker that looks at the shutdown flag keeps the invariant.
LEMMA StepCheckShutdown ==
  ASSUME PoolInv, TypeOK', NEW w \in Worker, CheckShutdown(w)
  PROVE  RingInv' /\ PublishInv' /\ ClaimInv' /\ CountInv'
  <1>. USE PoolAssumption DEF Thread, Task, Holding, Claimed, Publishing, Outside, Live,
              PoolInv, TypeOK, ClaimInv, Goto, shared, locals, history, CheckShutdown
  <1>1. RingInv'
    BY DEF RingInv
  <1>2. PublishInv'
    BY DEF PublishInv, OwnerInv, CountInv, LateInv, Touched
  <1>3. OwnerInv'
    BY DEF OwnerInv, PublishInv, LateInv, Touched
  <1>4. UniqueInv'
    BY DEF UniqueInv, OwnerInv
  <1>5. LateInv'
    BY DEF LateInv, PublishInv, OwnerInv, Touched
  <1>6. TouchInv'
    BY DEF TouchInv, OwnerInv, UniqueInv, PublishInv, LateInv, Touched
  <1>7. CountInv'
    <2>1. OpenTasks' = OpenTasks
      BY OpenTasksFrame
    <2>2. QED
      BY <2>1 DEF CountInv, PublishInv
  <1>8. QED
    BY <1>1, <1>2, <1>3, <1>4, <1>5, <1>6, <1>7 DEF ClaimInv


\* PoolInv is inductive under SerialNext.
LEMMA InvPreserved ==
  ASSUME PoolInv, [SerialNext]_vars
  PROVE  PoolInv'
  <1>1. TypeOK'
    BY TypePreserved DEF PoolInv
  <1>. DEFINE Parts == RingInv /\ PublishInv /\ ClaimInv /\ CountInv
  <1>2. ASSUME NEW n \in 1 .. MaxTotal, Dispatch(n)
        PROVE  Parts'
    <2>1. \E k \in Nat \ {0} : PrepareRing(k)
      BY <1>2, CeilDivNat, PoolAssumption DEF Dispatch
    <2>2. QED
      BY <1>1, <1>2, <2>1, StepPrepare DEF Dispatch
  <1>3. ASSUME NEW n \in 1 .. MaxTotal, DispatchN(n)
        PROVE  Parts'
    BY <1>1, <1>3, StepPrepare DEF DispatchN
  <1>4. ASSUME SerialMain
        PROVE  Parts'
    <2>1. CASE StoreCount
      <3>1. NoStragglerInside
        BY <1>4, <2>1 DEF SerialMain, StoreCount
      <3>2. QED
        BY <1>1, <2>1, <3>1, StepStoreCount
    <2>2. CASE StoreTail \/ StorePending \/ RaiseFlags \/ WakeWorkers
      BY <1>1, <2>2, StepStoreTail, StepStorePending, StepRaiseFlags, StepWakeWorkers
    <2>3. CASE SpinExit \/ LowerFlags \/ SignalShutdown \/ JoinAll
      BY <1>1, <2>3, StepSpinExit, StepLowerFlags, StepSignalShutdown, StepJoinAll
    <2>4. CASE ClaimLoop(Main)
      BY <1>1, <2>4, StepClaim, StepCheckBounds, StepCheckCancelled, StepSettle DEF ClaimLoop, Thread
    <2>5. QED
      BY <1>4, <2>1, <2>2, <2>3, <2>4 DEF SerialMain, MainStep
  <1>5. ASSUME NEW w \in Worker, SerialWorker(w)
        PROVE  Parts'
    <2>1. w \in Thread
      BY DEF Thread
    <2>2. Claim(w) => pc[Main] \notin Publishing
      BY <1>5 DEF SerialWorker, Claim
    <2>3. QED
      BY <1>1, <1>5, <2>1, <2>2, StepClaim, StepCheckBounds, StepCheckCancelled, StepSettle,
         StepSemWait, StepCheckShutdown
         DEF SerialWorker, WorkerStep, ClaimLoop
  <1>6. ASSUME UNCHANGED vars
        PROVE  Parts'
    <2>. USE <1>6 DEF vars, shared, locals, history, PoolInv, Touched
    <2>1. RingInv' /\ PublishInv'
      BY DEF RingInv, PublishInv
    <2>2. ClaimInv'
      BY DEF ClaimInv, OwnerInv, UniqueInv, LateInv, TouchInv
    <2>3. CountInv'
      BY DEF CountInv, OpenTasks
    <2>4. QED
      BY <2>1, <2>2, <2>3
  <1>7. Parts'
    <2>1. CASE ResetCancel \/ StartFree \/ Cancel
      BY <1>1, <2>1, StepResetCancel, StepStartFree, StepCancel
    <2>2. CASE Terminated
      BY <1>6, <2>2 DEF Terminated
    <2>3. QED
      BY <1>2, <1>3, <1>4, <1>5, <1>6, <2>1, <2>2 DEF SerialNext, Caller
  <1>8. QED
    BY <1>1, <1>7 DEF PoolInv

\* PoolInv holds of the pool as it is created.
LEMMA InitInv ==
  ASSUME Init
  PROVE  PoolInv
  <1>. USE PoolAssumption DEF Init, Thread
  <1>1. TypeOK
    <2>1. cap \in 1 .. MaxRingCap
      OBVIOUS
    <2>2. ring \in [0 .. cap - 1 -> Task]
      BY DEF Task
    <2>3. PointsOK
      BY DEF PointsOK, MainPoints, WorkerPoints
    <2>4. grain \in Nat \ {0} /\ nTasks \in 0 .. cap
      BY <2>1
    <2>5. /\ taskCount \in Nat /\ taskTail \in Nat /\ pending \in Int /\ sem \in Nat
          /\ total \in Nat /\ posted \in Nat /\ dispatches \in Nat
      OBVIOUS
    <2>bool. /\ shutdown \in BOOLEAN /\ cancelled \in BOOLEAN /\ parFlag \in BOOLEAN
           /\ rcSync \in BOOLEAN
      OBVIOUS
    <2>6. idx \in [Thread -> Nat] /\ runs \in [Task -> Nat] /\ skips \in [Task -> Nat]
      OBVIOUS
    <2>7. QED
      BY ONLY <2>1, <2>2, <2>3, <2>4, <2>5, <2>bool, <2>6 DEF TypeOK, PointsOK
  <1>2. RingInv
    BY DEF RingInv
  <1>3. PublishInv
    BY DEF PublishInv, Live, Outside, Publishing, Touched
  <1>4. ClaimInv
    BY DEF ClaimInv, OwnerInv, UniqueInv, LateInv, TouchInv, Touched, Claimed, Holding, Live,
           Publishing
  <1>5. CountInv
    BY DEF CountInv, Live
  <1>6. QED
    BY <1>1, <1>2, <1>3, <1>4, <1>5 DEF PoolInv

\* PoolInv holds in every state of the pool under the publication assumption.
THEOREM PoolInvariant == SerialSpec => []PoolInv
  <1>1. Init => PoolInv
    BY InitInv
  <1>2. PoolInv /\ [SerialNext]_vars => PoolInv'
    BY InvPreserved
  <1>3. QED
    BY <1>1, <1>2, PTL DEF SerialSpec

\* The types of the pool's state.
THEOREM TypeCorrect == SerialSpec => []TypeOK
  <1>1. PoolInv => TypeOK
    BY DEF PoolInv
  <1>2. QED
    BY <1>1, PoolInvariant, PTL

\* No task of a dispatch is run twice or given to two threads, for every number
\* of workers, ring size, grain and sequence of dispatches.
THEOREM TasksRunAtMostOnce == SerialSpec => []AtMostOnce
  <1>1. PoolInv => AtMostOnce
    BY DEF PoolInv, ClaimInv, TouchInv, AtMostOnce, Touched
  <1>2. QED
    BY <1>1, PoolInvariant, PTL

\* ray_pool_dispatch is a barrier: it returns when each of its tasks was run or
\* skipped once and no thread is inside one.
THEOREM DispatchIsBarrier == SerialSpec => []Barrier
  <1>1. ASSUME PoolInv, pc[Main] \in Outside \cup {"unflag"}
        PROVE  /\ \A i \in Task : i < nTasks => Touched(i) = 1
               /\ \A t \in Thread : pc[t] \notin Holding
    <2>1. \A t \in Thread : pc[t] \notin Holding
      BY <1>1 DEF PoolInv, ClaimInv, OwnerInv, Live, Outside
    <2>2. ASSUME NEW i \in Task, i < nTasks
          PROVE  Touched(i) = 1
      <3>1. nTasks \in Nat /\ i \in Nat
        BY <1>1, PoolAssumption DEF PoolInv, TypeOK, Task
      <3>2. pc[Main] \notin Outside
        BY ONLY <1>1, <2>2, <3>1 DEF PoolInv, PublishInv
      <3>3. OpenTasks = {}
        BY <1>1, <3>2 DEF PoolInv, CountInv
      <3>4. Touched(i) # 0
        BY <2>2, <3>1, <3>3 DEF OpenTasks
      <3>5. Touched(i) \in Nat /\ Touched(i) <= 1
        BY <1>1, TouchedNat DEF PoolInv, ClaimInv, TouchInv
      <3>6. QED
        BY ONLY <3>4, <3>5
    <2>3. QED
      BY <2>1, <2>2
  <1>2. PoolInv => Barrier
    BY <1>1 DEF Barrier, Touched
  <1>3. QED
    BY <1>2, PoolInvariant, PTL

\* The parallel flag and the atomic reference counts, once raised, are not
\* lowered while a thread is inside a task, however late its worker came.
THEOREM FlagsOutlast == SerialSpec => []FlagsOutlastTasks
  <1>1. PoolInv => FlagsOutlastTasks
    BY DEF PoolInv, ClaimInv, OwnerInv, PublishInv, FlagsOutlastTasks, Holding
  <1>2. QED
    BY <1>1, PoolInvariant, PTL

-----------------------------------------------------------------------------
(* What the return of the calls rests on: the producer waits only for      *)
(* threads that can go on.                                                *)

\* Somebody claimed task i and has not looked at the cancel flag yet.
InHand(i) == \E t \in Thread : pc[t] \in {"bounds", "check"} /\ idx[t] = i

\* A claimed task that nobody has started is in somebody's hand: none gets lost
\* between the fetch-and-add and the call of fn.
NoneLost ==
  pc[Main] \in Live =>
    \A i \in Task : i < nTasks /\ i < taskTail /\ Touched(i) = 0 => InHand(i)

\* The producer spins only as long as a worker is at work on one of its tasks.
SpinServed ==
  pc[Main] = "spin" /\ pending # 0 => \E w \in Worker : pc[w] \in Claimed /\ idx[w] < nTasks

\* Workers that have taken a token and not yet gone back to their loop, or ended.
Awake == {w \in Worker : pc[w] \in {"woken", "gone"}}

\* The wake-up loops count from 0, and the shutdown loop makes a token for each
\* worker that will need one, whatever tokens were left.
TokensInv ==
  /\ pc[Main] \notin {"wake", "post"} => posted = 0
  /\ pc[Main] \in {"post", "join"} => shutdown
  /\ pc[Main] = "post" => sem + Cardinality(Awake) >= posted
  /\ pc[Main] = "join" => sem + Cardinality(Awake) >= NWorkers

\* ray_thread_join waits for no worker that has no token.
JoinServed == pc[Main] = "join" => sem >= Cardinality(Worker \ Awake)

\* A step of one thread leaves the others' control points and indices alone.
LEMMA ThreadMoves ==
  ASSUME TypeOK, NEW t \in Thread, ClaimLoop(t)
  PROVE  \A u \in Thread : u # t => pc'[u] = pc[u] /\ idx'[u] = idx[u]
<1>1. /\ pc' = pc \/ \E p : Goto(t, p)
      /\ idx' = idx \/ \E n : idx' = [idx EXCEPT ![t] = n]
  BY DEF ClaimLoop, Claim, CheckBounds, CheckCancelled, Settle
<1> QED  BY <1>1 DEF TypeOK, Goto

\* What is in hand stays there, as long as no thread starts it.
LEMMA HandsKeep ==
  ASSUME \A t \in Thread : pc[t] \in {"bounds", "check"} => pc'[t] = pc[t] /\ idx'[t] = idx[t],
         UNCHANGED <<nTasks, taskTail, runs, skips>>,
         pc'[Main] \in Live => pc[Main] \in Live,
         NoneLost
  PROVE  NoneLost'
  BY DEF NoneLost, InHand, Touched

\* The claim loop loses no task.
LEMMA LoopLosesNone ==
  ASSUME PoolInv, NoneLost, NEW t \in Thread, ClaimLoop(t)
  PROVE  NoneLost'
<1> SUFFICES ASSUME pc'[Main] \in Live, NEW i \in Task,
                    i < nTasks', i < taskTail', Touched(i)' = 0
             PROVE  InHand(i)'
  BY DEF NoneLost
<1>1. TypeOK /\ RingInv /\ PublishInv /\ ClaimInv
  BY DEF PoolInv
<1>2. nTasks' = nTasks /\ i \in Nat /\ taskTail \in Nat
  BY <1>1, PoolAssumption DEF ClaimLoop, Claim, CheckBounds, CheckCancelled, Settle, locals, TypeOK, Task
<1>3. pc[Main] \in Live
  <2>1. CASE t = Main
    BY <2>1 DEF ClaimLoop, Claim, CheckBounds, CheckCancelled, Settle, Live
  <2>2. CASE t # Main
    BY <1>1, <2>2, ThreadMoves DEF Thread
  <2> QED  BY <2>1, <2>2
<1>4. CASE Claim(t)
  <2>1. /\ pc'[t] = "bounds" /\ idx'[t] = taskTail /\ taskTail' = taskTail + 1
        /\ Touched(i)' = Touched(i)
    BY <1>1, <1>4 DEF Claim, Goto, TypeOK, history, Touched
  <2>2. CASE i = taskTail
    BY <2>1, <2>2 DEF InHand
  <2>3. CASE i < taskTail
    <3>1. PICK u \in Thread : pc[u] \in {"bounds", "check"} /\ idx[u] = i
      BY <1>2, <1>3, <2>1, <2>3 DEF NoneLost, InHand
    <3>2. u # t
      BY <1>4, <3>1 DEF Claim
    <3>3. pc'[u] = pc[u] /\ idx'[u] = idx[u]
      BY <1>1, <3>2, ThreadMoves
    <3> QED  BY <3>1, <3>3 DEF InHand
  <2>4. i = taskTail \/ i < taskTail
    BY <1>2, <2>1
  <2> QED  BY <2>2, <2>3, <2>4
<1>5. CASE CheckBounds(t)
  <2>1. taskTail' = taskTail /\ Touched(i)' = Touched(i)
    BY <1>5 DEF CheckBounds, shared, history, Touched
  <2>2. PICK u \in Thread : pc[u] \in {"bounds", "check"} /\ idx[u] = i
    BY <1>2, <1>3, <2>1 DEF NoneLost, InHand
  <2>3. CASE u = t
    <3>1. taskCount = nTasks
      BY <1>1, <1>3 DEF PublishInv
    <3>2. idx[t] < Limit(t) /\ nTasks \in Nat
      BY <1>1, <1>2, <2>2, <2>3, <3>1 DEF Limit, TypeOK
    <3>3. ~(idx[t] >= Limit(t))
      BY <1>1, <1>2, <2>2, <2>3, <3>1, <3>2 DEF Limit
    <3>4. pc'[t] = "check" /\ idx' = idx
      BY <1>1, <1>5, <3>3 DEF CheckBounds, Goto, TypeOK
    <3> QED  BY <2>2, <2>3, <3>4 DEF InHand
  <2>4. CASE u # t
    <3>1. pc'[u] = pc[u] /\ idx'[u] = idx[u]
      BY <1>1, <2>4, ThreadMoves
    <3> QED  BY <2>2, <3>1 DEF InHand
  <2> QED  BY <2>3, <2>4
<1>6. CASE CheckCancelled(t)
  <2>1. idx[t] \in Nat /\ idx[t] < nTasks /\ Touched(idx[t]) = 0
    BY <1>1, <1>6 DEF CheckCancelled, ClaimInv, OwnerInv, TouchInv, Holding, TypeOK
  <2>2. idx[t] \in Task /\ cap \in Nat \ {0} /\ idx[t] \in 0 .. cap - 1
    <3>1. idx[t] \in Task
      BY <1>1, <2>1, InTask
    <3>2. cap \in Nat \ {0} /\ nTasks \in 0 .. cap
      BY <1>1 DEF TypeOK
    <3> QED  BY ONLY <2>1, <3>1, <3>2
  <2>3. ring[idx[t] % cap] = idx[t]
    BY <1>1, <2>1, <2>2, ModSmall DEF RingInv
  <2>4. runs \in [Task -> Nat] /\ skips \in [Task -> Nat] /\ taskTail' = taskTail
    BY <1>1, <1>6 DEF TypeOK, CheckCancelled, shared
  <2>5. \/ runs' = [runs EXCEPT ![idx[t]] = runs[idx[t]] + 1] /\ skips' = skips
        \/ skips' = [skips EXCEPT ![idx[t]] = skips[idx[t]] + 1] /\ runs' = runs
    BY <1>6, <2>3 DEF CheckCancelled
  <2>6. i # idx[t]
    BY ONLY <2>2, <2>4, <2>5, Touched(i)' = 0 DEF Touched
  <2>7. Touched(i) = 0
    BY ONLY <2>4, <2>5, <2>6, Touched(i)' = 0, i \in Task DEF Touched
  <2>8. PICK u \in Thread : pc[u] \in {"bounds", "check"} /\ idx[u] = i
    BY <1>2, <1>3, <2>4, <2>7 DEF NoneLost, InHand
  <2>9. pc'[u] = pc[u] /\ idx'[u] = idx[u]
    BY <1>1, <2>6, <2>8, ThreadMoves
  <2> QED  BY <2>8, <2>9 DEF InHand
<1>7. CASE Settle(t)
  <2>1. taskTail' = taskTail /\ Touched(i)' = Touched(i)
    BY <1>7 DEF Settle, history, Touched
  <2>2. PICK u \in Thread : pc[u] \in {"bounds", "check"} /\ idx[u] = i
    BY <1>2, <1>3, <2>1 DEF NoneLost, InHand
  <2>3. u # t
    BY <1>7, <2>2 DEF Settle
  <2>4. pc'[u] = pc[u] /\ idx'[u] = idx[u]
    BY <1>1, <2>3, ThreadMoves
  <2> QED  BY <2>2, <2>4 DEF InHand
<1> QED  BY <1>4, <1>5, <1>6, <1>7 DEF ClaimLoop

\* The producer's steps lose no task.
LEMMA MainLosesNone ==
  ASSUME PoolInv, NoneLost, MainStep
  PROVE  NoneLost'
<1>1. TypeOK /\ PublishInv
  BY DEF PoolInv
<1>2. CASE StoreCount \/ StoreTail \/ SpinExit \/ LowerFlags \/ SignalShutdown \/ JoinAll
  <2>1. pc'[Main] \notin Live
    BY <1>1, <1>2
    DEF StoreCount, StoreTail, SpinExit, LowerFlags, SignalShutdown, Signal, JoinAll, Goto, TypeOK, Thread, Live
  <2> QED  BY <2>1 DEF NoneLost
<1>3. CASE StorePending
  <2>1. taskTail' = 0
    BY <1>1, <1>3 DEF StorePending, PublishInv
  <2> QED  BY <2>1, PoolAssumption DEF NoneLost, Task
<1>4. CASE RaiseFlags \/ WakeWorkers
  <2>1. /\ \A t \in Thread : pc[t] \in {"bounds", "check"} => pc'[t] = pc[t] /\ idx'[t] = idx[t]
        /\ UNCHANGED <<nTasks, taskTail, runs, skips>> /\ pc[Main] \in Live
    BY <1>1, <1>4 DEF RaiseFlags, WakeWorkers, Signal, Goto, TypeOK, locals, history, Live
  <2> QED  BY <2>1, HandsKeep
<1>5. CASE ClaimLoop(Main)
  BY <1>5, LoopLosesNone DEF Thread
<1> QED  BY <1>2, <1>3, <1>4, <1>5 DEF MainStep

LEMMA StepLosesNone ==
  ASSUME PoolInv, NoneLost, [SerialNext]_vars
  PROVE  NoneLost'
<1>1. TypeOK
  BY DEF PoolInv
<1>2. ASSUME NEW n \in 1 .. MaxTotal, Dispatch(n) \/ DispatchN(n)
      PROVE  NoneLost'
  <2>1. pc'[Main] = "count"
    BY <1>1, <1>2 DEF Dispatch, DispatchN, PrepareRing, Goto, TypeOK, Thread
  <2> QED  BY <2>1 DEF NoneLost, Live
<1>3. CASE ResetCancel \/ StartFree
  <2>1. pc'[Main] \notin Live
    BY <1>1, <1>3 DEF ResetCancel, StartFree, Goto, TypeOK, Thread, Live
  <2> QED  BY <2>1 DEF NoneLost
<1>4. CASE Cancel
  BY <1>4, HandsKeep DEF Cancel, locals, history
<1>5. CASE UNCHANGED vars
  BY <1>5, HandsKeep DEF vars, shared, locals, history
<1>6. ASSUME NEW w \in Worker, SerialWorker(w)
      PROVE  NoneLost'
  <2>1. w \in Thread /\ w # Main
    BY PoolAssumption DEF Thread
  <2>2. CASE ClaimLoop(w)
    BY <2>1, <2>2, LoopLosesNone
  <2>3. CASE SemWait(w) \/ CheckShutdown(w)
    <3>1. pc[w] \in {"wait", "woken"} /\ \E p : Goto(w, p)
      BY <2>3 DEF SemWait, CheckShutdown
    <3>2. \A t \in Thread : t # w => pc'[t] = pc[t]
      BY <1>1, <3>1 DEF Goto, TypeOK
    <3>3. idx' = idx /\ UNCHANGED <<nTasks, taskTail, runs, skips>>
      BY <2>3 DEF SemWait, CheckShutdown, shared, locals, history
    <3>4. Main \in Thread
      BY DEF Thread
    <3> QED  BY <2>1, <3>1, <3>2, <3>3, <3>4, HandsKeep
  <2> QED  BY <1>6, <2>2, <2>3 DEF SerialWorker, WorkerStep
<1> QED  BY <1>2, <1>3, <1>4, <1>5, <1>6, MainLosesNone
         DEF SerialNext, Caller, Terminated, SerialMain

\* At every moment of a dispatch each task is unclaimed, in a thread's hand, or
\* started.
THEOREM NoTaskIsLost == SerialSpec => []NoneLost
<1>1. Init => NoneLost
  BY DEF Init, NoneLost, Live, Thread
<1> QED  BY <1>1, StepLosesNone, PoolInvariant, PTL DEF SerialSpec

\* The spin loop of ray_pool_dispatch never waits for a task that nobody holds.
THEOREM SpinsAreServed == SerialSpec => []SpinServed
<1>1. PoolInv /\ NoneLost => SpinServed
  <2> SUFFICES ASSUME PoolInv, NoneLost, pc[Main] = "spin", pending # 0
               PROVE  \E w \in Worker : pc[w] \in Claimed /\ idx[w] < nTasks
    BY DEF SpinServed
  <2>1. TypeOK /\ pc[Main] \in Live
    BY DEF PoolInv, Live
  <2>2. pending = Cardinality(OpenTasks)
    BY <2>1 DEF PoolInv, CountInv
  <2>3. OpenTasks # {}
    BY <2>2, FS_EmptySet, Zenon
  <2>4. PICK i \in 0 .. nTasks - 1 :
          Touched(i) = 0 \/ \E t \in Thread : pc[t] \in {"run", "skip"} /\ idx[t] = i
    BY <2>3 DEF OpenTasks
  <2>5. i \in Task /\ i < nTasks /\ i < taskTail
    <3>1. nTasks \in Nat /\ taskTail \in Nat /\ taskTail >= nTasks
      BY <2>1 DEF TypeOK, PoolInv, PublishInv
    <3>2. i \in Nat /\ i < nTasks /\ i < taskTail
      BY ONLY <3>1, i \in 0 .. nTasks - 1
    <3> QED  BY <2>1, <3>2, InTask
  <2>6. PICK t \in Thread : pc[t] \in {"bounds", "check", "run", "skip"} /\ idx[t] = i
    BY <2>1, <2>4, <2>5 DEF NoneLost, InHand
  <2>7. t \in Worker
    BY <2>6 DEF Thread
  <2> QED  BY <2>5, <2>6, <2>7 DEF Claimed, Holding
<1> QED  BY <1>1, NoTaskIsLost, PoolInvariant, PTL

LEMMA AwakeFinite == IsFiniteSet(Awake) /\ Cardinality(Awake) \in Nat /\ NWorkers \in Nat
<1>1. IsFiniteSet(Worker) /\ Awake \in SUBSET Worker
  BY PoolAssumption DEF Awake
<1> QED  BY <1>1, FS_Subset, FS_CardinalityType DEF NWorkers

\* Steps that move nobody to or from its token, and signal nobody.
LEMMA TokensKeep ==
  ASSUME TypeOK, TokensInv, Awake' = Awake, sem' = sem, posted' = posted, shutdown' = shutdown,
         \/ pc'[Main] = pc[Main]
         \/ pc[Main] \notin {"wake", "post"} /\ pc'[Main] \notin {"post", "join"}
  PROVE  TokensInv'
  BY DEF TokensInv, NWorkers

LEMMA StepKeepsTokens ==
  ASSUME PoolInv, TokensInv, [SerialNext]_vars
  PROVE  TokensInv'
<1>1. TypeOK /\ Main \in Thread /\ Main \notin Worker /\ Worker \subseteq Thread
  BY PoolAssumption DEF PoolInv, Thread
<1>2. ASSUME pc' = pc \/ \E p : Goto(Main, p) PROVE Awake' = Awake
  BY <1>1, <1>2 DEF Awake, Goto, TypeOK
<1>3. ASSUME NEW t \in Thread, ClaimLoop(t) PROVE TokensInv'
  <2>1. /\ pc[t] \notin {"woken", "gone", "idle", "wake", "post", "join"}
        /\ \E p \in {"bounds", "check", "run", "skip", "claim", "spin", "wait"} : Goto(t, p)
    BY <1>3 DEF ClaimLoop, Claim, CheckBounds, CheckCancelled, Settle, Drained
  <2>2. Awake' = Awake
    BY <1>1, <2>1 DEF Awake, Goto, TypeOK
  <2>3. sem' = sem /\ posted' = posted /\ shutdown' = shutdown
    BY <1>3 DEF ClaimLoop, Claim, CheckBounds, CheckCancelled, Settle, shared, locals
  <2>4. \/ pc'[Main] = pc[Main]
        \/ pc[Main] \notin {"wake", "post"} /\ pc'[Main] \notin {"post", "join"}
    BY <1>1, <2>1 DEF Goto, TypeOK
  <2> QED  BY <1>1, <2>2, <2>3, <2>4, TokensKeep
<1>4. ASSUME NEW from \in {"wake", "post"}, NEW to \in {"claim", "join"},
             from = "post" <=> to = "join", Signal(from, to)
      PROVE  TokensInv'
  <2>1. Awake' = Awake /\ shutdown' = shutdown
    BY <1>2, <1>4 DEF Signal
  <2>2. sem \in Nat /\ posted \in Nat /\ pc[Main] = from
    BY <1>1, <1>4 DEF TypeOK, Signal
  <2>3. CASE posted < NWorkers
    <3>1. sem' = sem + 1 /\ posted' = posted + 1 /\ pc' = pc
      BY <1>4, <2>3 DEF Signal
    <3> QED  BY <1>4, <2>1, <2>2, <3>1, AwakeFinite DEF TokensInv
  <2>4. CASE ~(posted < NWorkers)
    <3>1. sem' = sem /\ posted' = 0 /\ pc'[Main] = to
      BY <1>1, <1>4, <2>4 DEF Signal, Goto, TypeOK
    <3>2. NWorkers' = NWorkers
      BY DEF NWorkers
    <3> QED  BY <1>4, <2>1, <2>2, <2>4, <3>1, <3>2, AwakeFinite DEF TokensInv
  <2> QED  BY <2>3, <2>4
<1>5. ASSUME NEW w \in Worker, SemWait(w) PROVE TokensInv'
  <2>1. Awake' = Awake \cup {w} /\ w \notin Awake
    BY <1>1, <1>5 DEF SemWait, Awake, Goto, TypeOK
  <2>2. Cardinality(Awake') = Cardinality(Awake) + 1
    BY <2>1, AwakeFinite, FS_AddElement
  <2>3. /\ sem' = sem - 1 /\ posted' = posted /\ shutdown' = shutdown /\ pc'[Main] = pc[Main]
        /\ NWorkers' = NWorkers
    BY <1>1, <1>5 DEF SemWait, Goto, TypeOK, locals, NWorkers
  <2>4. sem \in Nat /\ posted \in Nat
    BY <1>1 DEF TypeOK
  <2> QED  BY <2>2, <2>3, <2>4, AwakeFinite DEF TokensInv
<1>6. ASSUME NEW w \in Worker, CheckShutdown(w) PROVE TokensInv'
  <2>1. /\ sem' = sem /\ posted' = posted /\ shutdown' = shutdown /\ pc'[Main] = pc[Main]
        /\ NWorkers' = NWorkers
    BY <1>1, <1>6 DEF CheckShutdown, Goto, TypeOK, shared, locals, NWorkers
  <2>2. CASE shutdown
    <3>1. Awake' = Awake
      BY <1>1, <1>6, <2>2 DEF CheckShutdown, Awake, Goto, TypeOK
    <3> QED  BY <1>1, <2>1, <3>1, TokensKeep
  <2>3. CASE ~shutdown
    BY <2>1, <2>3 DEF TokensInv
  <2> QED  BY <2>2, <2>3
<1>7. CASE StartFree
  <2>1. /\ pc[Main] = "idle" /\ pc'[Main] = "post" /\ shutdown' /\ sem' = sem /\ posted' = posted
        /\ Awake' = Awake
    BY <1>1, <1>2, <1>7 DEF StartFree, Goto, TypeOK, locals
  <2>2. posted = 0 /\ sem \in Nat
    BY <1>1, <2>1 DEF TokensInv, TypeOK
  <2> QED  BY <2>1, <2>2, AwakeFinite DEF TokensInv
<1>8. CASE JoinAll
  <2>1. pc[Main] = "join" /\ pc'[Main] = "freed" /\ posted' = posted
    BY <1>1, <1>8 DEF JoinAll, Goto, TypeOK, locals
  <2> QED  BY <2>1 DEF TokensInv
<1>9. CASE \/ \E n \in 1 .. MaxTotal : Dispatch(n) \/ DispatchN(n)
           \/ StoreCount \/ StoreTail \/ StorePending \/ RaiseFlags \/ SpinExit \/ LowerFlags
  <2>1. /\ sem' = sem /\ posted' = posted /\ shutdown' = shutdown
        /\ pc[Main] \in {"idle", "count", "tail", "pend", "flag", "spin", "unflag"}
        /\ \E p \in {"count", "tail", "pend", "flag", "wake", "unflag", "idle"} : Goto(Main, p)
    BY <1>9
    DEF Dispatch, DispatchN, PrepareRing, StoreCount, StoreTail, StorePending, RaiseFlags, SpinExit,
        LowerFlags, shared, locals
  <2>2. Awake' = Awake
    BY <1>2, <2>1
  <2>3. pc'[Main] \in {"count", "tail", "pend", "flag", "wake", "unflag", "idle"}
    BY <1>1, <2>1 DEF Goto, TypeOK
  <2> QED  BY <1>1, <2>1, <2>2, <2>3, TokensKeep
<1>10. CASE ResetCancel \/ Cancel \/ UNCHANGED vars
  <2>1. sem' = sem /\ posted' = posted /\ shutdown' = shutdown /\ pc' = pc
    BY <1>10 DEF ResetCancel, Cancel, vars, shared, locals
  <2> QED  BY <1>1, <1>2, <2>1, TokensKeep
<1>11. CASE SerialMain
  BY <1>1, <1>3, <1>4, <1>8, <1>9, <1>11 DEF SerialMain, MainStep, WakeWorkers, SignalShutdown
<1>12. ASSUME NEW w \in Worker, SerialWorker(w) PROVE TokensInv'
  BY <1>1, <1>3, <1>5, <1>6, <1>12 DEF SerialWorker, WorkerStep
<1> QED  BY <1>7, <1>9, <1>10, <1>11, <1>12 DEF SerialNext, Caller, Terminated

LEMMA TokensInvariant == SerialSpec => []TokensInv
<1>1. Init => TokensInv
  BY DEF Init, TokensInv, Thread
<1> QED  BY <1>1, StepKeepsTokens, PoolInvariant, PTL DEF SerialSpec

\* ray_pool_free never joins a worker that sleeps without a token, whatever
\* tokens of earlier dispatches are left.
THEOREM JoinsAreServed == SerialSpec => []JoinServed
<1>1. PoolInv /\ TokensInv => JoinServed
  <2> SUFFICES ASSUME PoolInv, TokensInv, pc[Main] = "join"
               PROVE  sem >= Cardinality(Worker \ Awake)
    BY DEF JoinServed
  <2>1. sem \in Nat /\ sem + Cardinality(Awake) >= NWorkers
    BY DEF TokensInv, PoolInv, TypeOK
  <2>2. IsFiniteSet(Worker) /\ Awake \subseteq Worker /\ Worker \cap Awake = Awake
    BY PoolAssumption DEF Awake
  <2>3. Cardinality(Worker \ Awake) = NWorkers - Cardinality(Awake)
    BY <2>2, FS_Difference DEF NWorkers
  <2> QED  BY <2>1, <2>3, AwakeFinite
<1> QED  BY <1>1, TokensInvariant, PoolInvariant, PTL

\* The producer's next step waits for no other thread.
MainUnblocked ==
  \/ pc[Main] \notin {"idle", "count", "spin", "join", "freed"}
  \/ pc[Main] = "count" /\ NoStragglerInside
  \/ pc[Main] = "spin" /\ pending = 0
  \/ pc[Main] = "join" /\ \A w \in Worker : pc[w] = "gone"

\* The worker's next step waits for no other thread.
WorkerUnblocked(w) ==
  \/ pc[w] \notin {"wait", "gone", "claim"}
  \/ pc[w] = "wait" /\ sem > 0
  \/ pc[w] = "claim" /\ pc[Main] \notin Publishing

\* While a call of the pool is under way, a thread can take a step.
NoStandstill ==
  pc[Main] \notin {"idle", "freed"} => MainUnblocked \/ \E w \in Worker : WorkerUnblocked(w)

\* The pool never deadlocks, during a dispatch or while it is freed.
THEOREM PoolNeverStandsStill == SerialSpec => []NoStandstill
<1>1. PoolInv /\ SpinServed /\ JoinServed => NoStandstill
  <2> SUFFICES ASSUME PoolInv, SpinServed, JoinServed, pc[Main] \notin {"idle", "freed"}, ~MainUnblocked
               PROVE  \E w \in Worker : WorkerUnblocked(w)
    BY DEF NoStandstill
  <2>1. CASE pc[Main] = "count"
    <3>1. PICK w \in Worker : pc[w] = "bounds"
      BY <2>1 DEF MainUnblocked, NoStragglerInside
    <3> QED  BY <3>1 DEF WorkerUnblocked
  <2>2. CASE pc[Main] = "spin"
    <3>1. PICK w \in Worker : pc[w] \in Claimed
      BY <2>2 DEF MainUnblocked, SpinServed
    <3> QED  BY <3>1 DEF WorkerUnblocked, Claimed, Holding
  <2>3. CASE pc[Main] = "join"
    <3>1. PICK w \in Worker : pc[w] # "gone"
      BY <2>3 DEF MainUnblocked
    <3>2. CASE pc[w] # "wait"
      BY <2>3, <3>1, <3>2 DEF WorkerUnblocked, Publishing
    <3>3. CASE pc[w] = "wait"
      <4>1. w \in Worker \ Awake /\ IsFiniteSet(Worker \ Awake)
        BY <3>3, PoolAssumption, FS_Subset DEF Awake
      <4>2. Cardinality(Worker \ Awake) \in Nat /\ Cardinality(Worker \ Awake) # 0
        BY <4>1, FS_EmptySet, FS_CardinalityType
      <4>3. sem \in Nat /\ sem >= Cardinality(Worker \ Awake)
        BY <2>3 DEF JoinServed, PoolInv, TypeOK
      <4> QED  BY <3>3, <4>2, <4>3 DEF WorkerUnblocked
    <3> QED  BY <3>2, <3>3
  <2> QED  BY <2>1, <2>2, <2>3 DEF MainUnblocked
<1> QED  BY <1>1, PoolInvariant, SpinsAreServed, JoinsAreServed, PTL

-----------------------------------------------------------------------------
(* The ranges of the tasks. *)

\* Rounding up leaves nothing out.
LEMMA CeilDivCovers ==
  ASSUME NEW a \in Nat \ {0}, NEW b \in Nat \ {0}
  PROVE  a <= CeilDiv(a, b) * b
<1>1. a + b - 1 = ((a + b - 1) \div b) * b + ((a + b - 1) % b) /\ (a + b - 1) % b < b
  OBVIOUS
<1> QED
  BY <1>1 DEF CeilDiv

\* An element is in the range of one task, that of its quotient.
LEMMA OneRange ==
  ASSUME NEW g \in Nat \ {0}, NEW e \in Nat, NEW i \in Nat
  PROVE  i * g <= e /\ e < i * g + g <=> i = e \div g
  OBVIOUS

\* Unless ray_pool_dispatch_n was given more tasks than the ring holds, the
\* tasks reach the end of the loop.
CoverInv == ClampedExact \/ total <= nTasks * grain

\* A dispatch whose ring holds all of its tasks covers the loop, and one whose
\* ring does not has larger tasks.
LEMMA DispatchCovers ==
  ASSUME TypeOK, NEW n \in 1 .. MaxTotal, Dispatch(n)
  PROVE  total' = n /\ total' <= nTasks' * grain'
<1> DEFINE need == CeilDiv(n, Grain)
<1>1. n \in Nat \ {0} /\ Grain \in Nat \ {0} /\ need \in Nat \ {0}
  BY PoolAssumption, CeilDivNat
<1>2. GrowRing(need) /\ PrepareRing(need) /\ total' = n
  BY DEF Dispatch
<1>3. cap' \in Nat \ {0}
  BY <1>2, GrowRange, PoolAssumption
<1>4. nTasks' = Least(need, cap')
  BY <1>2 DEF PrepareRing
<1>5. CASE need > cap'
  <2>1. grain' = CeilDiv(n, cap') /\ nTasks' = cap'
    BY <1>1, <1>3, <1>4, <1>5 DEF Dispatch, Least
  <2>2. n <= CeilDiv(n, cap') * cap' /\ CeilDiv(n, cap') \in Nat
    BY <1>1, <1>3, CeilDivCovers, CeilDivNat
  <2> QED
    BY <1>2, <1>3, <2>1, <2>2
<1>6. CASE ~(need > cap')
  <2>1. grain' = Grain /\ nTasks' = need
    BY <1>1, <1>3, <1>4, <1>6 DEF Dispatch, Least
  <2>2. n <= need * Grain
    BY <1>1, CeilDivCovers
  <2> QED
    BY <1>2, <2>1, <2>2
<1> QED
  BY <1>5, <1>6

\* A task of its own for each element, or the clamp.
LEMMA DispatchNCovers ==
  ASSUME TypeOK, NEW n \in 1 .. MaxTotal, DispatchN(n)
  PROVE  CoverInv'
<1>1. n \in Nat \ {0} /\ total' = n /\ grain' = 1
  BY PoolAssumption DEF DispatchN
<1>2. cap' \in Nat \ {0}
  BY GrowRange, PoolAssumption DEF DispatchN
<1>3. nTasks' = Least(n, cap')
  BY DEF DispatchN, PrepareRing
<1>4. nTasks' \in Nat /\ (nTasks' = n \/ nTasks' < n)
  BY <1>1, <1>2, <1>3 DEF Least
<1>5. CASE nTasks' = n
  <2>1. total' <= nTasks' * grain'
    BY <1>1, <1>5
  <2> QED
    BY <2>1 DEF CoverInv
<1>6. CASE nTasks' < n
  BY <1>1, <1>6 DEF CoverInv, ClampedExact
<1> QED
  BY <1>4, <1>5, <1>6

\* Only a new dispatch and the end of one change the loop.
LEMMA CoverPreserved ==
  ASSUME TypeOK, CoverInv, [SerialNext]_vars
  PROVE  CoverInv'
<1>1. ASSUME NEW n \in 1 .. MaxTotal, Dispatch(n) \/ DispatchN(n)
      PROVE  CoverInv'
  BY <1>1, DispatchCovers, DispatchNCovers DEF CoverInv
<1>2. CASE LowerFlags
  BY <1>2, PoolAssumption DEF LowerFlags, CoverInv
<1>3. CASE UNCHANGED <<total, grain, nTasks>>
  BY <1>3 DEF CoverInv, ClampedExact
<1>4. UNCHANGED vars => UNCHANGED <<total, grain, nTasks>>
  BY DEF vars, locals
<1>5. ResetCancel \/ StartFree \/ Cancel \/ Terminated => UNCHANGED <<total, grain, nTasks>>
  BY <1>4 DEF ResetCancel, StartFree, Cancel, Terminated, locals
<1>6. MainStep => LowerFlags \/ UNCHANGED <<total, grain, nTasks>>
  BY DEF MainStep, StoreCount, StoreTail, StorePending, RaiseFlags, WakeWorkers, Signal,
         ClaimLoop, Claim, CheckBounds, CheckCancelled, Settle, SpinExit,
         SignalShutdown, JoinAll, locals
<1>7. ASSUME NEW w \in Worker, WorkerStep(w)
      PROVE  UNCHANGED <<total, grain, nTasks>>
  BY <1>7 DEF WorkerStep, SemWait, CheckShutdown, ClaimLoop, Claim, CheckBounds,
              CheckCancelled, Settle, locals
<1> QED
  BY <1>1, <1>2, <1>3, <1>4, <1>5, <1>6, <1>7
  DEF SerialNext, Caller, SerialMain, SerialWorker

\* The ranges of the tasks partition the loop: no element is left out or
\* visited twice, whatever the ring's size and whether it could grow.
THEOREM LoopIsTiled == SerialSpec => []RangesTile
<1>1. Init => CoverInv
  BY PoolAssumption DEF Init, CoverInv
<1>2. TypeOK /\ CoverInv /\ [SerialNext]_vars => CoverInv'
  BY CoverPreserved
<1>3. TypeOK /\ CoverInv => RangesTile
  <2> SUFFICES ASSUME TypeOK, total <= nTasks * grain, NEW e \in 0 .. total - 1
               PROVE  Cardinality(TasksOf(e)) = 1
    BY DEF RangesTile, CoverInv
  <2>1. total \in Nat /\ nTasks \in Nat /\ grain \in Nat \ {0} /\ e \in Nat /\ e < total
    BY DEF TypeOK
  <2>2. e \div grain \in 0 .. nTasks - 1
    <3>1. e \div grain \in Nat /\ (e \div grain) * grain <= e
      BY <2>1
    <3>2. (e \div grain) * grain < nTasks * grain
      BY <2>1, <3>1
    <3>3. e \div grain < nTasks
      BY <2>1, <3>1, <3>2
    <3> QED
      BY <2>1, <3>1, <3>3
  <2>3. \A i \in 0 .. nTasks - 1 : i \in TasksOf(e) <=> i = e \div grain
    <3> SUFFICES ASSUME NEW i \in 0 .. nTasks - 1
                 PROVE  TaskStart(i) <= e /\ e < TaskEnd(i) <=> i = e \div grain
      BY DEF TasksOf
    <3>1. i \in Nat /\ i * grain \in Nat
      BY <2>1
    <3>2. e < TaskEnd(i) <=> e < i * grain + grain
      BY <2>1, <3>1 DEF TaskEnd, TaskStart, Least
    <3> QED
      BY <2>1, <3>1, <3>2, OneRange DEF TaskStart
  <2>4. TasksOf(e) = {e \div grain}
    BY <2>2, <2>3 DEF TasksOf
  <2> QED
    BY <2>4, FS_Singleton, Zenon
<1> QED
  BY <1>1, <1>2, <1>3, TypeCorrect, PTL DEF SerialSpec

-----------------------------------------------------------------------------
(* The steps of the pool are steps of the abstract loop. *)

\* A thread inside a task is at the slot of the index it claimed.
LEMMA OwnSlot ==
  ASSUME PoolInv, NEW t \in Thread, pc[t] \in Holding
  PROVE  idx[t] \in 0 .. nTasks - 1 /\ ring[idx[t] % cap] = idx[t]
<1>1. /\ idx[t] \in Nat /\ idx[t] < nTasks /\ nTasks \in Nat
      /\ cap \in Nat \ {0} /\ nTasks <= cap
  BY DEF PoolInv, TypeOK, ClaimInv, OwnerInv
<1>2. idx[t] \in 0 .. cap - 1
  BY <1>1
<1>3. idx[t] % cap = idx[t]
  BY <1>1, <1>2, ModSmall
<1> QED
  BY <1>1, <1>2, <1>3 DEF PoolInv, RingInv

\* The tasks the caller waits for are those that pending counts.
LEMMA UnfinishedIsOpen == PoolInv => Unfinished = OpenTasks
<1> HAVE PoolInv
<1>1. \A t \in Thread : pc[t] \in {"run", "skip"} => ring[idx[t] % cap] = idx[t]
  BY OwnSlot DEF Holding
<1> QED
  BY <1>1 DEF Unfinished, OpenTasks, Touched

\* The invariant, with what it says of the refinement mapping.
MapInv == PoolInv /\ Unfinished = OpenTasks

\* ... of which there are none outside a dispatch.
LEMMA NothingOutside ==
  ASSUME PoolInv, pc[Main] \in Outside
  PROVE  OpenTasks = {}
  BY DEF MapInv, PoolInv, PublishInv, OpenTasks

\* The first task.
LEMMA FirstIndex == ASSUME NEW k \in Nat \ {0} PROVE 0 \in 0 .. k - 1
  OBVIOUS

\* A new dispatch has something to do, and all of it is open.
LEMMA TasksOpen ==
  ASSUME MapInv, MapInv', NEW n \in Nat \ {0}, PrepareRing(n), pc[Main] = "idle"
  PROVE  /\ ~Active /\ Active' /\ OpenTasks' = 0 .. nTasks' - 1
         /\ nTasks' \in Nat \ {0} /\ \A i \in 0 .. nTasks' - 1 : i \in Task
<1>1. pc'[Main] = "count"
  BY PoolAssumption DEF PrepareRing, Goto, MapInv, PoolInv, TypeOK, Thread
<1>2. ~Active /\ Active'
  BY <1>1 DEF Active, Outside
<1>3. \A i \in Task : Touched(i)' = 0
  BY <1>1 DEF MapInv, PoolInv, PublishInv, Publishing
<1>4. nTasks' \in Nat \ {0} /\ cap' \in 1 .. MaxRingCap /\ nTasks' <= cap'
  <2>1. cap' \in 1 .. MaxRingCap /\ nTasks' \in 0 .. cap'
    BY DEF MapInv, PoolInv, TypeOK
  <2>2. nTasks' # 0
    BY <2>1 DEF PrepareRing, Least
  <2> QED
    BY <2>1, <2>2
<1>5. \A i \in 0 .. nTasks' - 1 : i \in Task
  <2>1. MaxRingCap \in Nat /\ nTasks' \in Nat /\ nTasks' <= MaxRingCap
    BY <1>4, PoolAssumption
  <2> QED
    BY <2>1, IndexBelow DEF Task
<1>6. OpenTasks' = 0 .. nTasks' - 1
  BY <1>3, <1>5 DEF OpenTasks
<1> QED
  BY <1>2, <1>4, <1>5, <1>6

\* So it is a call of the loop.
LEMMA NewTasks ==
  ASSUME MapInv, MapInv', NEW n \in Nat \ {0}, PrepareRing(n), pc[Main] = "idle"
  PROVE  Abstract!Call
<1>1. /\ ~Active /\ Active' /\ OpenTasks' = 0 .. nTasks' - 1
      /\ nTasks' \in Nat \ {0} /\ \A i \in 0 .. nTasks' - 1 : i \in Task
  BY TasksOpen
<1>2. Unfinished' = 0 .. nTasks' - 1
  BY <1>1 DEF MapInv
<1>3. Unfinished' \in (SUBSET Task) \ {{}}
  <2>1. 0 \in 0 .. nTasks' - 1
    BY <1>1, FirstIndex, Zenon
  <2> QED
    BY <1>1, <1>2, <2>1
<1> QED
  BY <1>1, <1>3 DEF Abstract!Call

\* A settled task is closed, and no other.
LEMMA SettleCloses ==
  ASSUME PoolInv, NEW t \in Thread, Settle(t)
  PROVE  /\ idx[t] \in OpenTasks /\ OpenTasks' = OpenTasks \ {idx[t]}
         /\ Active /\ Active'
         /\ pc'[t] = "claim" /\ \A u \in Thread : u # t => pc'[u] = pc[u]
<1>1. /\ idx[t] \in 0 .. nTasks - 1 /\ pc[Main] \in Live
      /\ Touched(idx[t]) = 1
  BY OwnSlot DEF PoolInv, ClaimInv, OwnerInv, TouchInv, Holding, Settle
<1>2. /\ nTasks' = nTasks /\ pc' = [pc EXCEPT ![t] = "claim"] /\ idx' = [idx EXCEPT ![t] = 0]
      /\ \A i : Touched(i)' = Touched(i)
      /\ pc[t] \in {"run", "skip"}
  BY DEF Settle, Goto, Touched, locals, history
<1>3. pc'[t] = "claim" /\ \A u \in Thread : u # t => pc'[u] = pc[u] /\ idx'[u] = idx[u]
  BY <1>2 DEF PoolInv, TypeOK
<1>4. \A u \in Thread : u # t /\ pc[u] \in {"run", "skip"} => idx[u] # idx[t]
  BY <1>2 DEF PoolInv, ClaimInv, UniqueInv, Claimed, Holding
<1>5. OpenTasks' = OpenTasks \ {idx[t]}
  BY ONLY <1>1, <1>2, <1>3, <1>4, t \in Thread DEF OpenTasks
<1>6. idx[t] \in OpenTasks
  BY <1>1, <1>2 DEF OpenTasks
<1>7. Active /\ Active'
  BY <1>1, <1>3 DEF Active, Outside, Live, Thread
<1> QED
  BY <1>3, <1>5, <1>6, <1>7

\* So it is finished.
LEMMA SettleFinishes ==
  ASSUME MapInv, MapInv', NEW t \in Thread, Settle(t)
  PROVE  Abstract!Finish
<1>1. /\ idx[t] \in OpenTasks /\ OpenTasks' = OpenTasks \ {idx[t]}
      /\ Active /\ Active'
  BY SettleCloses DEF MapInv
<1> QED
  BY <1>1 DEF MapInv, Abstract!Finish

\* Starting or skipping a task does not finish it.
LEMMA CheckStutters ==
  ASSUME MapInv, MapInv', NEW t \in Thread, CheckCancelled(t)
  PROVE  OpenTasks' = OpenTasks /\ Active' = Active
<1>1. /\ idx[t] \in 0 .. nTasks - 1 /\ ring[idx[t] % cap] = idx[t]
      /\ pc[t] = "check" /\ pc[Main] \in Live
  BY OwnSlot DEF CheckCancelled, Holding, MapInv, PoolInv, ClaimInv, OwnerInv
<1>0. nTasks \in Nat /\ \A i \in Nat : i < nTasks => i \in Task
  <2>1. TypeOK
    BY DEF MapInv, PoolInv
  <2> QED
    BY <2>1, InTask DEF TypeOK
<1>2. idx[t] \in Task /\ Touched(idx[t]) = 0
  BY <1>0, <1>1 DEF MapInv, PoolInv, ClaimInv, TouchInv
<1>3. idx' = idx /\ nTasks' = nTasks /\ \E p \in {"run", "skip"} : pc' = [pc EXCEPT ![t] = p]
  BY DEF CheckCancelled, Goto, locals
<1>4. Touched(idx[t])' = 1 /\ \A i \in Task : i # idx[t] => Touched(i)' = Touched(i)
  <2>1. \/ runs' = [runs EXCEPT ![idx[t]] = @ + 1] /\ skips' = skips
        \/ skips' = [skips EXCEPT ![idx[t]] = @ + 1] /\ runs' = runs
    BY <1>1 DEF CheckCancelled
  <2>2. runs \in [Task -> Nat] /\ skips \in [Task -> Nat]
    BY DEF MapInv, PoolInv, TypeOK
  <2> QED
    BY <1>2, <1>3, <2>1, <2>2 DEF Touched
<1>5. \A u \in Thread : u # t => pc'[u] = pc[u]
  BY <1>3 DEF MapInv, PoolInv, TypeOK
<1>6. pc'[t] \in {"run", "skip"}
  BY <1>3 DEF MapInv, PoolInv, TypeOK
<1>7. \A i \in 0 .. nTasks - 1 : i \in Task
  BY <1>0
<1>8. \A i \in 0 .. nTasks - 1 : i \in OpenTasks' <=> i \in OpenTasks
  BY <1>1, <1>2, <1>3, <1>4, <1>5, <1>6, <1>7 DEF OpenTasks
<1>9. OpenTasks' = OpenTasks
  BY <1>3, <1>8 DEF OpenTasks
<1>10. Active' = Active
  BY <1>1, <1>5, <1>6 DEF Active, Outside, Live, Thread
<1> QED
  BY <1>9, <1>10

\* The return of a dispatch is that of the loop: nothing was left to do.
LEMMA LowerFlagsReturns ==
  ASSUME MapInv, MapInv', LowerFlags
  PROVE  Abstract!Return
<1>1. pc[Main] = "unflag" /\ pc'[Main] = "idle"
  BY DEF LowerFlags, Goto, MapInv, PoolInv, TypeOK, Thread
<1>2. Active /\ ~Active'
  BY <1>1 DEF Active, Outside
<1>3. Unfinished = {}
  BY <1>1 DEF MapInv, PoolInv, CountInv
<1>4. Unfinished' = {}
  <2>1. nTasks' = 0
    BY DEF LowerFlags
  <2> QED
    BY <2>1 DEF Unfinished
<1> QED
  BY <1>2, <1>3, <1>4 DEF Abstract!Return

\* A step is no step of the loop when its thread neither starts nor settles a
\* task nor enters or leaves a dispatch.
LEMMA Stutter ==
  ASSUME MapInv, MapInv', NEW t \in Thread, NEW p, Goto(t, p),
         UNCHANGED <<nTasks, runs, skips>>,
         \A u \in Thread : u # t => idx'[u] = idx[u],
         pc[t] \notin {"run", "skip"}, p \notin {"run", "skip"},
         t = Main => (pc[t] \in Outside <=> p \in Outside)
  PROVE  UNCHANGED <<Active, Unfinished>>
<1>1. pc'[t] = p /\ \A u \in Thread : u # t => pc'[u] = pc[u]
  BY DEF Goto, MapInv, PoolInv, TypeOK
<1>2. OpenTasks' = OpenTasks
  BY <1>1, OpenTasksFrame
<1>3. Active' = Active
  BY <1>1 DEF Active, Thread
<1> QED
  BY <1>2, <1>3 DEF MapInv

\* The steps that move no thread.
LEMMA StayStutter ==
  ASSUME MapInv, MapInv', UNCHANGED <<nTasks, runs, skips, idx, pc>>
  PROVE  UNCHANGED <<Active, Unfinished>>
<1>1. OpenTasks' = OpenTasks
  BY OpenTasksFrame
<1> QED
  BY <1>1 DEF MapInv, Active

\* The caller's steps other than a dispatch, and ray_cancel.
LEMMA CallerStutters ==
  ASSUME MapInv, MapInv', ResetCancel \/ StartFree \/ Cancel
  PROVE  UNCHANGED <<Active, Unfinished>>
<1>1. CASE ResetCancel \/ Cancel
  BY <1>1, StayStutter DEF ResetCancel, Cancel, locals, history
<1>2. CASE StartFree
  BY <1>2, Stutter DEF StartFree, locals, history, Thread, Outside
<1> QED
  BY <1>1, <1>2

\* The publication of a dispatch, its wake-up loop and spin, and the shutdown.
LEMMA ProducerStutters ==
  ASSUME MapInv, MapInv',
         \/ StoreCount \/ StoreTail \/ StorePending \/ RaiseFlags
         \/ WakeWorkers \/ SpinExit \/ SignalShutdown \/ JoinAll
  PROVE  UNCHANGED <<Active, Unfinished>>
<1> USE DEF locals, history, Thread, Outside
<1>1. CASE StoreCount
  BY <1>1, Stutter DEF StoreCount
<1>2. CASE StoreTail
  BY <1>2, Stutter DEF StoreTail
<1>3. CASE StorePending
  BY <1>3, Stutter DEF StorePending
<1>4. CASE RaiseFlags
  BY <1>4, Stutter DEF RaiseFlags
<1>5. CASE WakeWorkers
  <2>1. CASE posted < NWorkers
    BY <1>5, <2>1, StayStutter DEF WakeWorkers, Signal
  <2>2. CASE ~(posted < NWorkers)
    BY <1>5, <2>2, Stutter DEF WakeWorkers, Signal
  <2> QED
    BY <2>1, <2>2
<1>6. CASE SpinExit
  BY <1>6, Stutter DEF SpinExit
<1>7. CASE SignalShutdown
  <2>1. CASE posted < NWorkers
    BY <1>7, <2>1, StayStutter DEF SignalShutdown, Signal
  <2>2. CASE ~(posted < NWorkers)
    BY <1>7, <2>2, Stutter DEF SignalShutdown, Signal
  <2> QED
    BY <2>1, <2>2
<1>8. CASE JoinAll
  BY <1>8, Stutter DEF JoinAll
<1> QED
  BY <1>1, <1>2, <1>3, <1>4, <1>5, <1>6, <1>7, <1>8

\* Claiming an index and comparing it with the limit.
LEMMA ClaimStutters ==
  ASSUME MapInv, MapInv', NEW t \in Thread, Claim(t) \/ CheckBounds(t)
  PROVE  UNCHANGED <<Active, Unfinished>>
<1> USE DEF locals, history, Outside
<1>1. idx \in [Thread -> Nat]
  BY DEF MapInv, PoolInv, TypeOK
<1>2. CASE Claim(t)
  <2>1. \A u \in Thread : u # t => idx'[u] = idx[u]
    BY <1>1, <1>2 DEF Claim
  <2> QED
    BY <1>2, <2>1, Stutter DEF Claim
<1>3. CASE CheckBounds(t)
  <2>1. \A u \in Thread : u # t => idx'[u] = idx[u]
    BY <1>1, <1>3 DEF CheckBounds
  <2>2. PICK p \in {"spin", "wait", "check"} : Goto(t, p) /\ (t = Main => p # "wait")
    BY <1>3 DEF CheckBounds, Drained
  <2> QED
    BY <1>3, <2>1, <2>2, Stutter DEF CheckBounds
<1> QED
  BY <1>2, <1>3

\* The outer loop of a worker.
LEMMA WorkerStutters ==
  ASSUME MapInv, MapInv', NEW w \in Worker, SemWait(w) \/ CheckShutdown(w)
  PROVE  UNCHANGED <<Active, Unfinished>>
<1>1. w \in Thread /\ w # Main
  BY PoolAssumption DEF Thread
<1>2. CASE SemWait(w)
  BY <1>1, <1>2, Stutter DEF SemWait, locals, history
<1>3. CASE CheckShutdown(w)
  <2>1. PICK p \in {"gone", "claim"} : Goto(w, p)
    BY <1>3 DEF CheckShutdown
  <2> QED
    BY <1>1, <1>3, <2>1, Stutter DEF CheckShutdown, locals, history
<1> QED
  BY <1>2, <1>3

\* Every step of the pool is a step of the loop or none.
LEMMA StepRefines ==
  ASSUME MapInv, MapInv', [SerialNext]_vars
  PROVE  [Abstract!Next]_(Abstract!vars)
<1> DEFINE Still == UNCHANGED <<Active, Unfinished>>
<1>1. ASSUME NEW n \in 1 .. MaxTotal, Dispatch(n) \/ DispatchN(n)
      PROVE  Abstract!Call
  <2>1. \E k \in Nat \ {0} : PrepareRing(k) /\ pc[Main] = "idle"
    BY <1>1, CeilDivNat, PoolAssumption DEF Dispatch, DispatchN
  <2> QED
    BY <2>1, NewTasks
<1>2. ASSUME NEW t \in Thread, ClaimLoop(t)
      PROVE  Still \/ Abstract!Finish
  BY <1>2, ClaimStutters, CheckStutters, SettleFinishes DEF ClaimLoop, MapInv
<1>3. MainStep => Still \/ Abstract!Finish \/ Abstract!Return
  BY <1>2, ProducerStutters, LowerFlagsReturns DEF MainStep, Thread
<1>4. ASSUME NEW w \in Worker, WorkerStep(w)
      PROVE  Still \/ Abstract!Finish
  BY <1>2, <1>4, WorkerStutters DEF WorkerStep, Thread
<1>5. ResetCancel \/ StartFree \/ Cancel => Still
  BY CallerStutters
<1>6. UNCHANGED vars \/ Terminated => Still
  BY StayStutter DEF Terminated, vars, locals, history
<1> QED
  BY <1>1, <1>3, <1>4, <1>5, <1>6
  DEF SerialNext, Caller, SerialMain, SerialWorker, Abstract!Next, Abstract!vars

\* The abstract loop without its fairness.
LoopSafety == Abstract!Init /\ [][Abstract!Next]_(Abstract!vars)

\* ray_pool_dispatch implements the loop its callers rely on: a call begins with
\* tasks to do, each step finishes one at most, and it returns with none left.
THEOREM PoolIsParallelFor == SerialSpec => LoopSafety
<1>1. Init => Abstract!Init
  <2> SUFFICES ASSUME Init PROVE Active = FALSE /\ Unfinished = {}
    BY DEF Abstract!Init
  <2>1. pc[Main] = "idle" /\ nTasks = 0
    BY DEF Init, Thread
  <2> QED
    BY <2>1 DEF Active, Outside, Unfinished
<1>2. PoolInv => MapInv
  BY UnfinishedIsOpen DEF MapInv
<1>3. MapInv /\ MapInv' /\ [SerialNext]_vars => [Abstract!Next]_(Abstract!vars)
  BY StepRefines
<1> QED
  BY <1>1, <1>2, <1>3, PoolInvariant, PTL DEF SerialSpec, LoopSafety


-----------------------------------------------------------------------------
(* Cancellation. *)

\* The query has gone past the test that follows stage n.
Passed(n) == step > n \/ (step = n /\ ~awaiting /\ result = "running")

\* What the tests that were passed say of the stages before them.
TestedWhole ==
  /\ op = "join" => /\ Passed(1) => 1 \notin lostIn
                    /\ Passed(3) => lostIn \cap 1 .. 3 = {}
                    /\ result = "ok" => step = 5
  /\ op = "group" => /\ Passed(1) => 1 \notin lostIn
                     /\ Passed(2) => lostIn \cap 1 .. 2 = {}
                     /\ result = "ok" => step = 3

\* A skipped task belongs to the stage that runs, and that one to the pool; the
\* flag that made a thread skip it stays up until the query is over, and so no
\* test that was passed has left a hole behind, and no fill follows a lost count.
CancelInv ==
  /\ step \in Nat
  /\ awaiting \in BOOLEAN
  /\ lostIn \subseteq 0 .. step
  /\ step \in lostIn => how = "pool"
  /\ pc[Main] \notin Outside => result = "running" /\ awaiting /\ how = "pool"
  /\ lostIn # {} /\ result = "running" => cancelled
  /\ OffsetsSound
  /\ TestedWhole

QueryInv == PoolInv /\ CancelInv

\* What a query does to the pool is a step of the pool or nothing.
LEMMA QueryStepsPool ==
  ASSUME QueryNext
  PROVE  [SerialNext]_vars
  BY DEF QueryNext, BeginQuery, RunStage, AfterStage, FreeAfterQuery, QueryPoolStep,
         SerialNext, Caller

\* Outside a dispatch the main thread starts nothing by itself.
LEMMA OutsideStays ==
  ASSUME TypeOK, QueryPoolStep, pc[Main] \in Outside
  PROVE  pc'[Main] \in Outside
  <1>1. pc \in [Thread -> MainPoints \cup WorkerPoints] /\ Main \in Thread
    BY DEF TypeOK, Thread
  <1>2. CASE SerialMain
    BY <1>1, <1>2 DEF Outside, SerialMain, MainStep, StoreCount, StoreTail,
       StorePending, RaiseFlags, WakeWorkers, SignalShutdown, Signal, SpinExit,
       LowerFlags, JoinAll, ClaimLoop, Claim, CheckBounds, CheckCancelled, Settle, Goto
  <1>3. ASSUME NEW w \in Worker, SerialWorker(w)
        PROVE  pc'[Main] = pc[Main]
    BY <1>1, <1>3, PoolAssumption DEF SerialWorker, WorkerStep, SemWait,
       CheckShutdown, ClaimLoop, Claim, CheckBounds, CheckCancelled, Settle, Goto, Thread
  <1>4. CASE Cancel \/ Terminated
    BY <1>4 DEF Cancel, Terminated, vars
  <1>5. QED
    BY <1>2, <1>3, <1>4 DEF QueryPoolStep

\* A thread skips a task only during a dispatch and while the flag is up.
LEMMA SkipsNeedCancel ==
  ASSUME PoolInv, QueryPoolStep, NEW i \in Task, skips'[i] > skips[i]
  PROVE  cancelled /\ pc[Main] \notin Outside
  <1>1. skips[i] \in Nat /\ ~(0 > skips[i]) /\ ~(skips[i] > skips[i])
    <2>1. skips[i] \in Nat
      BY DEF PoolInv, TypeOK
    <2>2. QED
      BY <2>1
  <1>2. skips' # skips /\ ~(skips' = [j \in Task |-> 0])
    BY <1>1
  <1>3. PICK t \in Thread : CheckCancelled(t)
    BY <1>2 DEF QueryPoolStep, Cancel, Terminated, SerialMain, MainStep, StoreCount,
       StoreTail, StorePending, RaiseFlags, WakeWorkers, SignalShutdown, Signal,
       SpinExit, LowerFlags, NewHistory, JoinAll, SerialWorker, WorkerStep, SemWait,
       CheckShutdown, ClaimLoop, Claim, CheckBounds, Settle, Thread, history, vars
  <1>4. cancelled
    BY <1>2, <1>3 DEF CheckCancelled
  <1>5. pc[t] \in Holding
    BY <1>3 DEF CheckCancelled, Holding
  <1>6. pc[Main] \in Live
    BY <1>5 DEF PoolInv, ClaimInv, OwnerInv
  <1>7. QED
    BY <1>4, <1>6 DEF Live, Outside

\* While the pool works, nobody takes the cancel flag down.
LEMMA CancelStays ==
  ASSUME QueryPoolStep, cancelled
  PROVE  cancelled'
  BY DEF QueryPoolStep, Cancel, Terminated, SerialMain, MainStep, StoreCount,
     StoreTail, StorePending, RaiseFlags, WakeWorkers, SignalShutdown, Signal,
     SpinExit, LowerFlags, JoinAll, SerialWorker, WorkerStep, SemWait,
     CheckShutdown, ClaimLoop, Claim, CheckBounds, CheckCancelled, Settle, shared,
     history, vars

\* While the flag is up no thread starts a task.
LEMMA NothingRuns ==
  ASSUME PoolInv, QueryPoolStep, pc[Main] \notin Outside => cancelled,
         \A i \in Task : runs[i] = 0
  PROVE  \A i \in Task : runs'[i] = 0
  <1>1. ASSUME NEW t \in Thread, CheckCancelled(t)
        PROVE  runs' = runs
    <2>1. pc[t] \in Holding
      BY <1>1 DEF CheckCancelled, Holding
    <2>2. pc[Main] \in Live
      BY <2>1 DEF PoolInv, ClaimInv, OwnerInv
    <2>3. cancelled
      BY <2>2 DEF Live, Outside
    <2>4. QED
      BY <1>1, <2>3 DEF CheckCancelled
  <1>2. runs' = runs \/ runs' = [j \in Task |-> 0]
    BY <1>1 DEF QueryPoolStep, Cancel, Terminated, SerialMain, MainStep, StoreCount,
       StoreTail, StorePending, RaiseFlags, WakeWorkers, SignalShutdown, Signal,
       SpinExit, LowerFlags, NewHistory, JoinAll, SerialWorker, WorkerStep, SemWait,
       CheckShutdown, ClaimLoop, Claim, CheckBounds, Settle, Thread, history, vars
  <1>3. QED
    BY <1>2

\* A new query starts with the flag down and no task skipped.
LEMMA StepBeginQuery ==
  ASSUME QueryInv, BeginQuery
  PROVE  CancelInv'
  BY DEF QueryInv, CancelInv, TestedWhole, OffsetsSound, BeginQuery, ResetCancel, Passed,
     Outside

\* The next stage starts only behind the test of the one before it, and the fill
\* of a join on the pool if its count lost a task there.
LEMMA StepRunStage ==
  ASSUME QueryInv, RunStage
  PROVE  CancelInv'
  <1>. USE DEF QueryInv, CancelInv, RunStage
  <1>1. step' = step + 1 /\ awaiting' = TRUE /\ UNCHANGED <<op, result, lostIn>>
    OBVIOUS
  <1>2. cancelled' = cancelled
    BY DEF Dispatch, DispatchN, PrepareRing, vars, shared
  <1>3. ASSUME NEW n \in Nat, Passed(n)'
        PROVE  Passed(n)
    BY <1>1, <1>3 DEF Passed
  <1>4. TestedWhole'
    BY <1>1, <1>3 DEF TestedWhole
  <1>5. pc[Main] = "idle"
    BY DEF Dispatch, DispatchN
  <1>6. pc'[Main] \notin Outside => how' = "pool"
    BY <1>5 DEF Outside, vars
  <1>7. OffsetsSound'
    <2> SUFFICES ASSUME op = "join", step = 2, 2 \in lostIn
                 PROVE  how' # "caller" /\ \A i \in Task : runs'[i] = 0
      BY <1>1 DEF OffsetsSound
    <2>1. how' \in {"pool", "none"}
      BY DEF Places
    <2>2. \A i \in Task : runs[i] = 0
      <3> SUFFICES ASSUME NEW i \in Task PROVE runs[i] = 0
        OBVIOUS
      <3>1. runs[i] + skips[i] = 0
        BY <1>5 DEF PoolInv, PublishInv, Touched, Outside
      <3>2. runs[i] \in Nat /\ skips[i] \in Nat
        BY DEF PoolInv, TypeOK
      <3>3. QED
        BY <3>1, <3>2
    <2>3. runs' = runs
      BY DEF Dispatch, DispatchN, PrepareRing, vars, history
    <2>4. QED
      BY <2>1, <2>2, <2>3
  <1>8. QED
    BY <1>1, <1>2, <1>4, <1>6, <1>7

\* A test that finds the flag down has nothing skipped behind it.
LEMMA StepAfterStage ==
  ASSUME QueryInv, AfterStage
  PROVE  CancelInv'
  <1>. USE DEF QueryInv, CancelInv, AfterStage
  <1>1. UNCHANGED <<pc, cancelled, runs, op, step, how, lostIn>> /\ awaiting' = FALSE
    BY DEF vars, shared, history
  <1>2. pc'[Main] \in Outside
    BY <1>1 DEF Outside
  <1>3. ASSUME op = "join"
        PROVE  (Passed(1) => 1 \notin lostIn)' /\ (Passed(3) => lostIn \cap 1 .. 3 = {})'
                 /\ (result = "ok" => step = 5)'
    <2>1. Plan(op)[1] = TRUE /\ Plan(op)[3] = TRUE /\ Len(Plan(op)) = 5
      BY <1>3 DEF Plan, JoinPlan
    <2>2. (Passed(1) => 1 \notin lostIn)'
      BY <1>1, <1>3, <2>1 DEF Passed, TestedWhole
    <2>3. (Passed(3) => lostIn \cap 1 .. 3 = {})'
      BY <1>1, <1>3, <2>1 DEF Passed, TestedWhole
    <2>4. QED
      BY <1>1, <1>3, <2>1, <2>2, <2>3
  <1>4. ASSUME op = "group"
        PROVE  (Passed(1) => 1 \notin lostIn)' /\ (Passed(2) => lostIn \cap 1 .. 2 = {})'
                 /\ (result = "ok" => step = 3)'
    <2>1. Plan(op)[1] = TRUE /\ Plan(op)[2] = TRUE /\ Len(Plan(op)) = 3
      BY <1>4 DEF Plan, GroupPlan
    <2>2. (Passed(1) => 1 \notin lostIn)'
      BY <1>1, <1>4, <2>1 DEF Passed, TestedWhole
    <2>3. (Passed(2) => lostIn \cap 1 .. 2 = {})'
      BY <1>1, <1>4, <2>1 DEF Passed, TestedWhole
    <2>4. QED
      BY <1>1, <1>4, <2>1, <2>2, <2>3
  <1>5. TestedWhole'
    BY <1>1, <1>3, <1>4 DEF TestedWhole
  <1>6. OffsetsSound'
    BY <1>1 DEF OffsetsSound
  <1>7. lostIn' # {} /\ result' = "running" => cancelled'
    BY <1>1
  <1>8. QED
    BY <1>1, <1>2, <1>5, <1>6, <1>7

\* Freeing the pool happens between queries.
LEMMA StepFreePool ==
  ASSUME QueryInv, FreeAfterQuery
  PROVE  CancelInv'
  BY DEF QueryInv, PoolInv, TypeOK, CancelInv, TestedWhole, OffsetsSound, FreeAfterQuery,
     StartFree, Goto, Passed, Outside, Thread, qvars, history

\* A step of the pool: what is skipped, is skipped in the stage that runs.
LEMMA StepPool ==
  ASSUME QueryInv, QueryPoolStep,
         lostIn' = lostIn \cup {step : i \in {j \in Task : skips'[j] > skips[j]}},
         UNCHANGED <<op, step, awaiting, how, result>>
  PROVE  CancelInv'
  <1>. USE DEF QueryInv, CancelInv
  <1>1. pc'[Main] \notin Outside => pc[Main] \notin Outside
    BY OutsideStays DEF PoolInv
  <1>2. ASSUME 2 \in lostIn, OffsetsSound
        PROVE  OffsetsSound'
    <2>1. pc[Main] \notin Outside => cancelled
      BY <1>2
    <2>2. (\A i \in Task : runs[i] = 0) => \A i \in Task : runs'[i] = 0
      BY <2>1, NothingRuns
    <2>3. QED
      BY <1>2, <2>2 DEF OffsetsSound
  <1>3. CASE \E i \in Task : skips'[i] > skips[i]
    <2>1. cancelled /\ pc[Main] \notin Outside
      BY <1>3, SkipsNeedCancel
    <2>2. lostIn' = lostIn \cup {step}
      BY <1>3
    <2>3. cancelled' /\ awaiting
      BY <2>1, CancelStays
    <2>4. ASSUME NEW n \in Nat, Passed(n)'
          PROVE  Passed(n) /\ lostIn' \cap 1 .. n = lostIn \cap 1 .. n
      BY <2>2, <2>3, <2>4 DEF Passed
    <2>5. Passed(1)' => Passed(1) /\ (1 \in lostIn' => 1 \in lostIn)
      BY <2>2, <2>3 DEF Passed
    <2>6. TestedWhole'
      BY <2>4, <2>5 DEF TestedWhole
    <2>7. step' = 3 /\ 2 \in lostIn' => 2 \in lostIn
      BY <2>2
    <2>8. OffsetsSound'
      BY <1>2, <2>7 DEF OffsetsSound
    <2>9. lostIn' \subseteq 0 .. step'
      <3>1. step' = step /\ step \in Nat /\ lostIn \subseteq 0 .. step
        OBVIOUS
      <3>2. step \in 0 .. step
        BY <3>1
      <3>3. QED
        BY <2>2, <3>1, <3>2
    <2>10. how' = "pool"
      BY <2>1
    <2>11. QED
      BY <1>1, <2>3, <2>6, <2>8, <2>9, <2>10
  <1>4. CASE ~\E i \in Task : skips'[i] > skips[i]
    <2>1. lostIn' = lostIn
      BY <1>4
    <2>2. TestedWhole'
      BY <2>1 DEF TestedWhole, Passed
    <2>3. OffsetsSound'
      BY <1>2, <2>1 DEF OffsetsSound
    <2>4. QED
      BY <1>1, <2>1, <2>2, <2>3, CancelStays
  <1>5. QED
    BY <1>3, <1>4

\* QueryInv is an inductive invariant of a query on the pool.
THEOREM QueryInvariant == QuerySpec => []QueryInv
  <1>1. ASSUME QueryInit
        PROVE  QueryInv
    <2>1. PoolInv
      BY <1>1, InitInv DEF QueryInit
    <2>2. pc[Main] \in Outside
      BY <1>1 DEF QueryInit, Init, Outside, Thread
    <2>3. CancelInv
      BY <1>1, <2>2 DEF QueryInit, CancelInv, TestedWhole, OffsetsSound
    <2>4. QED
      BY <2>1, <2>3 DEF QueryInv
  <1>2. ASSUME QueryInv, [QueryNext]_queryVars
        PROVE  QueryInv'
    <2>1. [SerialNext]_vars
      BY <1>2, QueryStepsPool DEF queryVars
    <2>2. PoolInv'
      BY <1>2, <2>1, InvPreserved DEF QueryInv
    <2>3. CancelInv'
      <3>1. CASE BeginQuery
        BY <1>2, <3>1, StepBeginQuery
      <3>2. CASE RunStage
        BY <1>2, <3>2, StepRunStage
      <3>3. CASE AfterStage
        BY <1>2, <3>3, StepAfterStage
      <3>4. CASE FreeAfterQuery
        BY <1>2, <3>4, StepFreePool
      <3>5. CASE /\ QueryPoolStep
                 /\ lostIn' = lostIn \cup {step : i \in {j \in Task : skips'[j] > skips[j]}}
                 /\ UNCHANGED <<op, step, awaiting, how, result>>
        BY <1>2, <3>5, StepPool
      <3>6. CASE UNCHANGED queryVars
        <4>1. UNCHANGED <<op, step, awaiting, how, result, lostIn, cancelled, pc, runs>>
          BY <3>6 DEF queryVars, qvars, vars, shared, history
        <4>2. QED
          BY <1>2, <4>1 DEF QueryInv, CancelInv, TestedWhole, OffsetsSound, Passed
      <3>7. QED
        BY ONLY <1>2, <3>1, <3>2, <3>3, <3>4, <3>5, <3>6 DEF QueryNext
    <2>4. QED
      BY <2>2, <2>3 DEF QueryInv
  <1>3. QED
    BY <1>1, <1>2, PTL DEF QuerySpec

\* Behind a test a join or a partitioned group reads nothing that misses a task
\* which a cancellation made a thread skip, and a join whose count missed one
\* writes no pair, at whatever moment ray_cancel is called and however the tasks
\* are spread over the threads.
THEOREM NoHolesPassedOn == QuerySpec => []StagesComplete
  <1>1. ASSUME QueryInv
        PROVE  StagesComplete
    <2>1. ASSUME NEW n \in 1 .. 3, Beyond(n), op = "join" \/ (op = "group" /\ n # 3)
          PROVE  Passed(n)
      <3>1. step \in Nat /\ (result = "ok" => step > n)
        BY <1>1, <2>1 DEF QueryInv, CancelInv, TestedWhole
      <3>2. QED
        BY <2>1, <3>1 DEF Beyond, Passed
    <2>2. BuildComplete /\ JoinPairsComplete
      BY <1>1, <2>1 DEF QueryInv, CancelInv, TestedWhole, BuildComplete, JoinPairsComplete
    <2>3. GroupTablesComplete
      BY <1>1, <2>1 DEF QueryInv, CancelInv, TestedWhole, GroupTablesComplete
    <2>4. QED
      BY <1>1, <2>2, <2>3 DEF QueryInv, CancelInv, StagesComplete
  <1>2. QED
    BY <1>1, QueryInvariant, PTL

-----------------------------------------------------------------------------
(* Sums over sets of rows. *)

\* As many units as the values of the rows in S add up to.
Units(f, S) == UNION {{x} \X (1 .. f[x]) : x \in S}
Weight(f, S) == Cardinality(Units(f, S))

\* What a sum counts.
LEMMA UnitsMember ==
  ASSUME NEW f, NEW S, NEW z
  PROVE  z \in Units(f, S) <=> \E x \in S : \E i \in 1 .. f[x] : z = <<x, i>>
<1>1. z \in Units(f, S) <=> \E x \in S : z \in {x} \X (1 .. f[x])
  BY DEF Units
<1>2. \A x : z \in {x} \X (1 .. f[x]) <=> \E i \in 1 .. f[x] : z = <<x, i>>
  OBVIOUS
<1> QED  BY <1>1, <1>2

\* Finitely many rows have a sum.
LEMMA UnitsFinite ==
  ASSUME NEW f, NEW S, IsFiniteSet(S), \A x \in S : f[x] \in Nat
  PROVE  IsFiniteSet(Units(f, S)) /\ Weight(f, S) \in Nat
<1>1. PICK T : T = {{x} \X (1 .. f[x]) : x \in S}
  OBVIOUS
<1>2. IsFiniteSet(T)
  <2>1. PICK h : h = [x \in S |-> {x} \X (1 .. f[x])]
    OBVIOUS
  <2>2. h \in Surjection(S, T)
    BY <1>1, <2>1 DEF Surjection
  <2> QED  BY <2>2, FS_Surjection
<1>3. ASSUME NEW U \in T PROVE IsFiniteSet(U)
  <2>1. PICK x \in S : U = {x} \X (1 .. f[x])
    BY <1>1
  <2>2. PICK n \in Nat : n = f[x]
    OBVIOUS
  <2>3. IsFiniteSet({x}) /\ IsFiniteSet(1 .. n)
    <3>1. 1 \in Int /\ n \in Int
      BY <2>2
    <3> QED  BY <3>1, FS_Singleton, FS_Interval
  <2> QED  BY <2>1, <2>2, <2>3, FS_Product
<1>4. IsFiniteSet(UNION T)
  BY <1>2, <1>3, FS_UNION
<1>5. Units(f, S) = UNION T
  BY <1>1 DEF Units
<1> QED  BY <1>4, <1>5, FS_CardinalityType DEF Weight

\* Nothing adds up to 0, and one row to its value.
LEMMA WeightOne ==
  ASSUME NEW f, NEW x, f[x] \in Nat
  PROVE  Weight(f, {}) = 0 /\ Weight(f, {x}) = f[x]
<1>1. Units(f, {}) = {}
  BY DEF Units
<1>2. Units(f, {x}) = {x} \X (1 .. f[x])
  BY DEF Units
<1>3. IsFiniteSet({x}) /\ Cardinality({x}) = 1
  BY FS_Singleton
<1>4. PICK n \in Nat : n = f[x]
  OBVIOUS
<1>5. IsFiniteSet(1 .. n) /\ Cardinality(1 .. n) = n
  BY FS_Interval
<1>6. Cardinality({x} \X (1 .. n)) = 1 * n
  BY <1>3, <1>5, FS_Product
<1>7. Weight(f, {x}) = n
  <2>1. Units(f, {x}) = {x} \X (1 .. n)
    BY <1>2, <1>4
  <2>2. Cardinality(Units(f, {x})) = n
    <3>1. 1 * n = n
      BY <1>4
    <3> QED  BY <1>6, <2>1, <3>1
  <2> QED  BY <2>2 DEF Weight
<1>8. Weight(f, {}) = 0
  BY <1>1, FS_EmptySet DEF Weight
<1> QED  BY <1>4, <1>7, <1>8

\* The rows of two disjoint sets.
LEMMA WeightUnion ==
  ASSUME NEW f, NEW S, NEW T, IsFiniteSet(S), IsFiniteSet(T), S \cap T = {},
         \A x \in S \cup T : f[x] \in Nat
  PROVE  Weight(f, S \cup T) = Weight(f, S) + Weight(f, T)
<1>1. Units(f, S \cup T) = Units(f, S) \cup Units(f, T)
  <2>1. \A z : z \in Units(f, S \cup T) <=> z \in Units(f, S) \/ z \in Units(f, T)
    BY UnitsMember
  <2> QED  BY <2>1
<1>2. Units(f, S) \cap Units(f, T) = {}
  <2> SUFFICES ASSUME NEW z, z \in Units(f, S), z \in Units(f, T) PROVE FALSE
    OBVIOUS
  <2>1. PICK x \in S : \E i \in 1 .. f[x] : z = <<x, i>>
    BY UnitsMember
  <2> PICK i \in 1 .. f[x] : z = <<x, i>>
    BY <2>1
  <2>2. PICK y \in T : \E j \in 1 .. f[y] : z = <<y, j>>
    BY UnitsMember
  <2> PICK j \in 1 .. f[y] : z = <<y, j>>
    BY <2>2
  <2>3. x = y
    BY <2>1, <2>2
  <2> QED  BY <2>3
<1>3. IsFiniteSet(Units(f, S)) /\ IsFiniteSet(Units(f, T))
      /\ Weight(f, S) \in Nat /\ Weight(f, T) \in Nat
  BY UnitsFinite
<1>4. PICK U, V : U = Units(f, S) /\ V = Units(f, T)
  OBVIOUS
<1>5. Cardinality(U \cup V) = Cardinality(U) + Cardinality(V) - Cardinality(U \cap V)
  BY <1>3, <1>4, FS_Union
<1>6. Cardinality(U \cap V) = 0
  BY <1>2, <1>4, FS_EmptySet
<1>7. Weight(f, S \cup T) = Weight(f, S) + Weight(f, T) - 0
  BY <1>1, <1>4, <1>5, <1>6 DEF Weight
<1> QED  BY <1>3, <1>7

-----------------------------------------------------------------------------
(* Accumulators. *)

Acc == [count : Nat, sum : Nat, min : Int, max : Int, first : Nat, last : Nat]

IsLeast(m, S) == m \in S /\ \A x \in S : m <= x
IsGreatest(m, S) == m \in S /\ \A x \in S : m >= x

Image(v, R) == {v[r] : r \in R}

\* The accumulator acc has seen the rows R of the column v, each once.
Exact(v, acc, R) ==
  /\ acc \in Acc
  /\ acc.count = Cardinality(R)
  /\ acc.sum = Weight(v, R)
  /\ IsLeast(acc.min, Image(v, R) \cup {Top})
  /\ IsGreatest(acc.max, Image(v, R) \cup {-1})
  /\ R # {} => acc.first \in Image(v, R) /\ acc.last \in Image(v, R)

\* Finitely many rows with values.
Column(v, R) == IsFiniteSet(R) /\ \A r \in R : v[r] \in Value

\* A column of values adds up.
LEMMA ColumnNat ==
  ASSUME NEW v, NEW R, Column(v, R)
  PROVE  /\ Cardinality(R) \in Nat /\ Weight(v, R) \in Nat
         /\ \A r \in R : v[r] \in Nat
         /\ Image(v, R) \subseteq Value /\ Value \subseteq Nat
<1>1. Value \subseteq Nat
  BY GroupAssumption
<1>2. \A r \in R : v[r] \in Nat
  BY <1>1 DEF Column
<1> QED  BY <1>1, <1>2, FS_CardinalityType, UnitsFinite DEF Column, Image

\* Minima and maxima of unions.
LEMMA LeastUnion ==
  ASSUME NEW S, NEW T, S \subseteq Int, T \subseteq Int,
         NEW a, IsLeast(a, S), NEW b, IsLeast(b, T)
  PROVE  IsLeast(Least(a, b), S \cup T)
  BY DEF IsLeast, Least

\* ... likewise.
LEMMA GreatestUnion ==
  ASSUME NEW S, NEW T, S \subseteq Int, T \subseteq Int,
         NEW a, IsGreatest(a, S), NEW b, IsGreatest(b, T)
  PROVE  IsGreatest(Most(a, b), S \cup T)
  BY DEF IsGreatest, Most

\* There is only one.
LEMMA LeastUnique ==
  ASSUME NEW S, S \subseteq Int, NEW a, NEW b, IsLeast(a, S), IsLeast(b, S)
  PROVE  a = b
  BY DEF IsLeast

\* ... likewise.
LEMMA GreatestUnique ==
  ASSUME NEW S, S \subseteq Int, NEW a, NEW b, IsGreatest(a, S), IsGreatest(b, S)
  PROVE  a = b
  BY DEF IsGreatest

\* The value no minimum exceeds is a number.
LEMMA TopNat == Top \in Nat
<1>1. IsFiniteSet(Value) /\ Value \subseteq Nat
  BY GroupAssumption
<1>2. PICK J : J = [ss \in SUBSET Value |-> Nat]
  OBVIOUS
<1>3. PICK c : c = First(Value)
  OBVIOUS
<1>4. Chooses(Value, c) /\ \A ss \in SUBSET Value : c[ss] = CHOOSE x \in ss : TRUE
  BY <1>3, FirstMember
<1>5. PICK F : F = [z \in Nat \X Nat |-> Most(z[1], z[2])]
  OBVIOUS
<1>6. ASSUME NEW a \in Nat, NEW b \in Nat PROVE F[<<a, b>>] = Most(a, b) /\ Most(a, b) \in Nat
  <2>1. <<a, b>> \in Nat \X Nat /\ <<a, b>>[1] = a /\ <<a, b>>[2] = b
    OBVIOUS
  <2> QED  BY <1>5, <2>1 DEF Most
<1>7. ASSUME NEW ss \in SUBSET Value, ss # {} PROVE c[ss] \in Nat
  BY <1>1, <1>4, <1>7 DEF Chooses
<1>8. Keeps(F, Value, J, c)
  <2> SUFFICES ASSUME NEW ss \in SUBSET Value, ss # {}, NEW x \in J[ss \ {c[ss]}]
               PROVE  F[<<c[ss], x>>] \in J[ss]
    BY DEF Keeps
  <2>1. c[ss] \in Nat /\ x \in Nat
    BY <1>2, <1>7
  <2> QED  BY <1>2, <1>6, <2>1
<1>9. PICK g : Recursive(g, Value, 0, F, c) /\ \A ss \in SUBSET Value : g[ss] \in J[ss]
  <2>1. 0 \in J[{}]
    BY <1>2
  <2>2. IsFiniteSet(Value) /\ Chooses(Value, c)
    BY <1>1, <1>4
  <2> QED  BY ONLY <1>8, <2>1, <2>2, FoldReaches
<1> DEFINE Folds(iter) ==
      iter = [ss \in SUBSET Value |->
                IF ss = {} THEN 0
                ELSE Most(CHOOSE x \in ss : TRUE, iter[ss \ {CHOOSE x \in ss : TRUE}])]
<1>10. Folds(g)
  <2>1. ASSUME NEW ss \in SUBSET Value, ss # {}
        PROVE  F[<<c[ss], g[ss \ {c[ss]}]>>]
                 = Most(CHOOSE x \in ss : TRUE, g[ss \ {CHOOSE x \in ss : TRUE}])
    <3>1. c[ss] \in Nat /\ g[ss \ {c[ss]}] \in Nat
      BY <1>2, <1>7, <1>9, <2>1
    <3> QED  BY <1>4, <1>6, <3>1
  <2> QED  BY <1>9, <2>1 DEF Recursive
<1>11. PICK it : it = CHOOSE iter : Folds(iter)
  OBVIOUS
<1> HIDE DEF Folds
<1>12. Folds(it)
  BY <1>10, <1>11
<1> USE DEF Folds
<1>13. FoldSet(Most, 0, Value) = it[Value]
  BY <1>11 DEF FoldSet, MapThenFoldSet
<1>14. \A ss \in SUBSET Value : it[ss] \in J[ss]
  <2>1. it[{}] \in J[{}]
    BY <1>2, <1>12
  <2>2. ASSUME NEW ss \in SUBSET Value, ss # {}, it[ss \ {c[ss]}] \in J[ss \ {c[ss]}]
        PROVE  it[ss] \in J[ss]
    <3>0. it[ss] = Most(CHOOSE x \in ss : TRUE, it[ss \ {CHOOSE x \in ss : TRUE}])
      BY <1>12, <2>2
    <3>1. it[ss] = Most(c[ss], it[ss \ {c[ss]}])
      BY <1>4, <3>0
    <3>2. c[ss] \in Nat /\ it[ss \ {c[ss]}] \in Nat
      BY <1>2, <1>7, <2>2
    <3> QED  BY <1>2, <1>6, <3>1, <3>2
  <2>3. Inductive(it, Value, J, c)
    BY <2>1, <2>2 DEF Inductive
  <2> QED  BY ONLY <1>1, <1>4, <2>3, FoldInduction
<1>15. it[Value] \in Nat
  BY <1>2, <1>14
<1>16. PICK n \in Nat : n = FoldSet(Most, 0, Value)
  BY <1>13, <1>15
<1> QED  BY <1>16 DEF Top

\* An accumulator that was set up has seen nothing.
LEMMA EmptyExact == ASSUME NEW v PROVE Exact(v, Empty, {})
<1>1. Empty \in Acc
  BY TopNat DEF Acc, Empty
<1>2. Image(v, {}) = {}
  BY DEF Image
<1>3. Cardinality({}) = 0 /\ Weight(v, {}) = 0
  <2>1. Units(v, {}) = {}
    BY DEF Units
  <2> QED  BY <2>1, FS_EmptySet DEF Weight
<1>4. IsLeast(Top, {Top}) /\ IsGreatest(-1, {-1})
  BY TopNat DEF IsLeast, IsGreatest
<1>5. /\ Empty.count = 0 /\ Empty.sum = 0 /\ Empty.min = Top /\ Empty.max = -1
  BY DEF Empty
<1> QED  BY <1>1, <1>2, <1>3, <1>4, <1>5 DEF Exact

\* One more row.
LEMMA AccumulateExact ==
  ASSUME NEW v, NEW R, NEW r, r \notin R, Column(v, R \cup {r}), NEW acc, Exact(v, acc, R)
  PROVE  Exact(v, Accumulate(acc, v[r]), R \cup {r})
<1>1. Column(v, R) /\ v[r] \in Value /\ v[r] \in Nat
  <2>1. R = (R \cup {r}) \cap R
    OBVIOUS
  <2>2. IsFiniteSet(R)
    BY <2>1, FS_Intersection DEF Column
  <2>3. v[r] \in Nat
    BY ColumnNat
  <2> QED  BY <2>2, <2>3 DEF Column
<1>2. /\ Image(v, R) \subseteq Nat /\ Top \in Nat
  BY <1>1, ColumnNat, TopNat
<1>3. PICK x \in Nat : x = v[r]
  BY <1>1
<1>4. PICK b : b = Accumulate(acc, x)
  OBVIOUS
<1>5. acc \in Acc /\ acc.count \in Nat /\ acc.sum \in Nat /\ acc.min \in Int /\ acc.max \in Int
      /\ acc.first \in Nat /\ acc.last \in Nat
  BY DEF Exact, Acc
<1>6. /\ b.count = acc.count + 1 /\ b.sum = acc.sum + x
      /\ b.min = Least(acc.min, x) /\ b.max = Most(acc.max, x)
      /\ b.first = (IF acc.count = 0 THEN x ELSE acc.first) /\ b.last = x
  BY <1>4 DEF Accumulate
<1>7. b \in Acc
  <2>1. Least(acc.min, x) \in Int /\ Most(acc.max, x) \in Int
    BY <1>5 DEF Least, Most
  <2> QED  BY <1>4, <1>5, <2>1 DEF Acc, Accumulate
<1>8. PICK N : N = R \cup {r}
  OBVIOUS
<1>9. Image(v, N) = Image(v, R) \cup {x}
  BY <1>3, <1>8 DEF Image
<1>10. Cardinality(N) = Cardinality(R) + 1
  BY <1>1, <1>8, FS_AddElement DEF Column
<1>11. Weight(v, N) = Weight(v, R) + x
  <2>1. IsFiniteSet(R) /\ IsFiniteSet({r}) /\ R \cap {r} = {}
    BY <1>1, FS_Singleton DEF Column
  <2>2. \A y \in R \cup {r} : v[y] \in Nat
    BY ColumnNat
  <2>3. Weight(v, R \cup {r}) = Weight(v, R) + Weight(v, {r})
    BY ONLY <2>1, <2>2, WeightUnion
  <2>4. Weight(v, {r}) = x
    BY <1>3, WeightOne
  <2> QED  BY <1>8, <2>3, <2>4
<1>12. IsLeast(b.min, Image(v, N) \cup {Top})
  <2>1. IsLeast(x, {x}) /\ IsLeast(acc.min, Image(v, R) \cup {Top})
    BY DEF IsLeast, Exact
  <2>2. {x} \subseteq Int /\ Image(v, R) \cup {Top} \subseteq Int
    <3>1. x \in Int /\ {x} \subseteq Int
      BY <1>3
    <3> QED  BY <1>2, <3>1
  <2>3. IsLeast(Least(acc.min, x), (Image(v, R) \cup {Top}) \cup {x})
    BY ONLY <2>1, <2>2, LeastUnion
  <2>4. (Image(v, R) \cup {Top}) \cup {x} = Image(v, N) \cup {Top}
    BY <1>9
  <2> QED  BY <1>6, <2>3, <2>4
<1>13. IsGreatest(b.max, Image(v, N) \cup {-1})
  <2>1. IsGreatest(x, {x}) /\ IsGreatest(acc.max, Image(v, R) \cup {-1})
    BY DEF IsGreatest, Exact
  <2>2. {x} \subseteq Int /\ Image(v, R) \cup {-1} \subseteq Int
    <3>1. x \in Int /\ {x} \subseteq Int
      BY <1>3
    <3> QED  BY <1>2, <3>1
  <2>3. IsGreatest(Most(acc.max, x), (Image(v, R) \cup {-1}) \cup {x})
    BY ONLY <2>1, <2>2, GreatestUnion
  <2>4. (Image(v, R) \cup {-1}) \cup {x} = Image(v, N) \cup {-1}
    BY <1>9
  <2> QED  BY <1>6, <2>3, <2>4
<1>14. b.first \in Image(v, N) /\ b.last \in Image(v, N)
  <2>1. R # {} => acc.first \in Image(v, R)
    BY DEF Exact
  <2>2. R = {} => acc.count = 0
    BY FS_EmptySet DEF Exact
  <2> QED  BY <1>6, <1>9, <2>1, <2>2
<1>15. Exact(v, b, N)
  <2>1. acc.count = Cardinality(R) /\ acc.sum = Weight(v, R)
    BY DEF Exact
  <2> QED  BY <1>6, <1>7, <1>10, <1>11, <1>12, <1>13, <1>14, <2>1 DEF Exact
<1> QED  BY <1>3, <1>4, <1>8, <1>15

\* The rows of two accumulators.
LEMMA MergeExact ==
  ASSUME NEW v, NEW R, NEW S, R \cap S = {}, Column(v, R \cup S),
         NEW m, Exact(v, m, R), NEW w, Exact(v, w, S)
  PROVE  Exact(v, Merge(m, w), R \cup S)
<1>1. Column(v, R) /\ Column(v, S)
  <2>1. R = (R \cup S) \cap R /\ S = (R \cup S) \cap S
    OBVIOUS
  <2>2. IsFiniteSet(R) /\ IsFiniteSet(S)
    BY <2>1, FS_Intersection DEF Column
  <2> QED  BY <2>2 DEF Column
<1>2. /\ Image(v, R) \subseteq Nat /\ Image(v, S) \subseteq Nat /\ Top \in Nat
      /\ Cardinality(R) \in Nat /\ Cardinality(S) \in Nat
  BY <1>1, ColumnNat, TopNat
<1>3. PICK b : b = Merge(m, w)
  OBVIOUS
<1>4. m \in Acc /\ m.count \in Nat /\ m.sum \in Nat /\ m.min \in Int /\ m.max \in Int
      /\ m.first \in Nat /\ m.last \in Nat
  BY DEF Exact, Acc
<1>5. w \in Acc /\ w.count \in Nat /\ w.sum \in Nat /\ w.min \in Int /\ w.max \in Int
      /\ w.first \in Nat /\ w.last \in Nat
  BY DEF Exact, Acc
<1>6. /\ b.count = m.count + w.count /\ b.sum = m.sum + w.sum
      /\ b.min = Least(m.min, w.min) /\ b.max = Most(m.max, w.max)
      /\ b.first = (IF m.count = 0 /\ w.count > 0 THEN w.first ELSE m.first)
      /\ b.last = (IF w.count > 0 THEN w.last ELSE m.last)
  BY <1>3 DEF Merge
<1>7. b \in Acc
  <2>1. Least(m.min, w.min) \in Int /\ Most(m.max, w.max) \in Int
    BY <1>4, <1>5 DEF Least, Most
  <2> QED  BY <1>3, <1>4, <1>5, <2>1 DEF Acc, Merge
<1>8. PICK N : N = R \cup S
  OBVIOUS
<1>9. Image(v, N) = Image(v, R) \cup Image(v, S)
  BY <1>8 DEF Image
<1>10. Cardinality(N) = Cardinality(R) + Cardinality(S)
  <2>1. IsFiniteSet(R) /\ IsFiniteSet(S) /\ Cardinality(R \cap S) = 0
    BY <1>1, FS_EmptySet DEF Column
  <2>2. Cardinality(N) = Cardinality(R) + Cardinality(S) - Cardinality(R \cap S)
    BY <1>8, <2>1, FS_Union
  <2> QED  BY <1>2, <2>1, <2>2
<1>11. Weight(v, N) = Weight(v, R) + Weight(v, S)
  <2>1. IsFiniteSet(R) /\ IsFiniteSet(S)
    BY <1>1 DEF Column
  <2>2. \A y \in R \cup S : v[y] \in Nat
    BY ColumnNat
  <2>3. Weight(v, R \cup S) = Weight(v, R) + Weight(v, S)
    BY ONLY <2>1, <2>2, R \cap S = {}, WeightUnion
  <2> QED  BY <1>8, <2>3
<1>12. IsLeast(b.min, Image(v, N) \cup {Top})
  <2>1. IsLeast(m.min, Image(v, R) \cup {Top}) /\ IsLeast(w.min, Image(v, S) \cup {Top})
    BY DEF Exact
  <2>2. Image(v, S) \cup {Top} \subseteq Int /\ Image(v, R) \cup {Top} \subseteq Int
    BY <1>2
  <2>3. IsLeast(Least(m.min, w.min), (Image(v, R) \cup {Top}) \cup (Image(v, S) \cup {Top}))
    BY ONLY <2>1, <2>2, LeastUnion
  <2>4. (Image(v, R) \cup {Top}) \cup (Image(v, S) \cup {Top}) = Image(v, N) \cup {Top}
    BY <1>9
  <2> QED  BY <1>6, <2>3, <2>4
<1>13. IsGreatest(b.max, Image(v, N) \cup {-1})
  <2>1. IsGreatest(m.max, Image(v, R) \cup {-1}) /\ IsGreatest(w.max, Image(v, S) \cup {-1})
    BY DEF Exact
  <2>2. Image(v, S) \cup {-1} \subseteq Int /\ Image(v, R) \cup {-1} \subseteq Int
    BY <1>2
  <2>3. IsGreatest(Most(m.max, w.max), (Image(v, R) \cup {-1}) \cup (Image(v, S) \cup {-1}))
    BY ONLY <2>1, <2>2, GreatestUnion
  <2>4. (Image(v, R) \cup {-1}) \cup (Image(v, S) \cup {-1}) = Image(v, N) \cup {-1}
    BY <1>9
  <2> QED  BY <1>6, <2>3, <2>4
<1>14. N # {} => b.first \in Image(v, N) /\ b.last \in Image(v, N)
  <2>1. /\ R # {} => m.first \in Image(v, R) /\ m.last \in Image(v, R)
        /\ S # {} => w.first \in Image(v, S) /\ w.last \in Image(v, S)
    BY DEF Exact
  <2>2. (R = {} <=> m.count = 0) /\ (S = {} <=> w.count = 0)
    BY <1>1, FS_EmptySet DEF Exact, Column
  <2>3. S # {} <=> w.count > 0
    BY <1>5, <2>2
  <2>4. N # {} => R # {} \/ S # {}
    BY <1>8
  <2> QED  BY <1>6, <1>9, <2>1, <2>2, <2>3, <2>4
<1>15. Exact(v, b, N)
  <2>1. /\ m.count = Cardinality(R) /\ m.sum = Weight(v, R)
        /\ w.count = Cardinality(S) /\ w.sum = Weight(v, S)
    BY DEF Exact
  <2> QED  BY <1>6, <1>7, <1>10, <1>11, <1>12, <1>13, <1>14, <2>1 DEF Exact
<1> QED  BY <1>3, <1>8, <1>15

\* What two accumulators of the same rows agree on.
LEMMA ExactUnique ==
  ASSUME NEW v, NEW R, Column(v, R), NEW a, Exact(v, a, R), NEW b, Exact(v, b, R)
  PROVE  a.count = b.count /\ a.sum = b.sum /\ a.min = b.min /\ a.max = b.max
<1>1. Image(v, R) \cup {Top} \subseteq Int /\ Image(v, R) \cup {-1} \subseteq Int
  BY ColumnNat, TopNat
<1>2. a.min = b.min
  BY <1>1, LeastUnique DEF Exact
<1>3. a.max = b.max
  BY <1>1, GreatestUnique DEF Exact
<1> QED  BY <1>2, <1>3 DEF Exact

-----------------------------------------------------------------------------
(* The folds. *)

\* The sequence q names each element of S once.
Lists(q, S) ==
  /\ q \in Seq(S)
  /\ \A i, j \in 1 .. Len(q) : q[i] = q[j] => i = j
  /\ \A x \in S : \E i \in 1 .. Len(q) : q[i] = x

\* The table has n rows.
Loaded(n) ==
  n \in Nat /\ keys \in [0 .. n - 1 -> Group] /\ vals \in [0 .. n - 1 -> Value]

RowsOf(R, g) == {r \in R : keys[r] = g}

\* The groups have seen the rows R.
Covers(groups, R) ==
  groups \in [Group -> Acc] /\ \A g \in Group : Exact(vals, groups[g], RowsOf(R, g))

\* Rows of the table are a column.
LEMMA RowsColumn ==
  ASSUME NEW n, Loaded(n), NEW R \in SUBSET (0 .. n - 1), NEW g
  PROVE  Column(vals, R) /\ Column(vals, RowsOf(R, g)) /\ RowsOf(R, g) \subseteq R
<1>1. n \in Nat /\ 0 \in Int /\ n - 1 \in Int
  BY DEF Loaded
<1>2. IsFiniteSet(0 .. n - 1)
  BY <1>1, FS_Interval
<1>3. RowsOf(R, g) \subseteq R /\ R \subseteq 0 .. n - 1
  BY DEF RowsOf
<1>4. IsFiniteSet(R) /\ IsFiniteSet(RowsOf(R, g))
  BY <1>2, <1>3, FS_Subset
<1> QED  BY <1>3, <1>4 DEF Column, Loaded

\* A table that was set up covers nothing.
LEMMA NoGroupsCovers == Covers(NoGroups, {})
<1>1. \A g \in Group : NoGroups[g] = Empty /\ RowsOf({}, g) = {}
  BY DEF NoGroups, RowsOf
<1>2. Exact(vals, Empty, {})
  BY EmptyExact
<1>3. NoGroups \in [Group -> Acc]
  BY <1>2 DEF NoGroups, Exact
<1> QED  BY <1>1, <1>2, <1>3 DEF Covers

\* One row goes to its group.
LEMMA AddRowCovers ==
  ASSUME NEW n, Loaded(n), NEW X \in SUBSET (0 .. n - 1), NEW r \in 0 .. n - 1, r \notin X,
         NEW G, Covers(G, X)
  PROVE  Covers(AddRow(G, r), X \cup {r})
<1>1. PICK k \in Group : k = keys[r]
  BY DEF Loaded
<1>2. PICK H : H = AddRow(G, r)
  OBVIOUS
<1>3. H = [G EXCEPT ![k] = Accumulate(G[k], vals[r])] /\ G \in [Group -> Acc]
  BY <1>1, <1>2 DEF AddRow, Covers
<1>4. Exact(vals, Accumulate(G[k], vals[r]), RowsOf(X \cup {r}, k))
  <2>1. PICK R : R = RowsOf(X, k)
    OBVIOUS
  <2>2. RowsOf(X \cup {r}, k) = R \cup {r} /\ r \notin R
    BY <1>1, <2>1 DEF RowsOf
  <2>3. Column(vals, R \cup {r})
    <3>1. X \cup {r} \in SUBSET (0 .. n - 1)
      OBVIOUS
    <3>2. Column(vals, RowsOf(X \cup {r}, k))
      BY <3>1, RowsColumn
    <3> QED  BY <2>2, <3>2
  <2>4. Exact(vals, G[k], R)
    BY <1>1, <2>1 DEF Covers
  <2>5. Exact(vals, Accumulate(G[k], vals[r]), R \cup {r})
    BY <2>2, <2>3, <2>4, AccumulateExact
  <2> QED  BY <2>2, <2>5
<1>5. ASSUME NEW g \in Group, g # k PROVE Exact(vals, G[g], RowsOf(X \cup {r}, g))
  <2>1. RowsOf(X \cup {r}, g) = RowsOf(X, g)
    BY <1>1, <1>5 DEF RowsOf
  <2> QED  BY <2>1 DEF Covers
<1>6. Accumulate(G[k], vals[r]) \in Acc
  BY <1>4 DEF Exact
<1>7. H \in [Group -> Acc] /\ H[k] = Accumulate(G[k], vals[r]) /\ \A g \in Group : g # k => H[g] = G[g]
  BY <1>3, <1>6
<1>8. \A g \in Group : Exact(vals, H[g], RowsOf(X \cup {r}, g))
  BY <1>4, <1>5, <1>7
<1> QED  BY <1>2, <1>7, <1>8 DEF Covers

\* A list of rows, each to its group, but those that are dropped.
LEMMA AddRowsCovers ==
  ASSUME NEW n, Loaded(n), NEW R \in SUBSET (0 .. n - 1), NEW S \in SUBSET (0 .. n - 1),
         R \cap S = {}, NEW q, Lists(q, S), NEW B, Covers(B, R), NEW drop
  PROVE  Covers(AddRowsBut(B, q, drop), R \cup (S \ drop))
<1>1. PICK m \in Nat : m = Len(q)
  BY DEF Lists
<1>2. PICK D : D = 1 .. m
  OBVIOUS
<1>3. D = DOMAIN q /\ \A i \in D : q[i] \in S
  BY <1>1, <1>2 DEF Lists
<1>4. \A i, j \in D : q[i] = q[j] => i = j
  BY <1>1, <1>2 DEF Lists
<1>5. S = {q[i] : i \in D}
  <2>1. \A x \in S : \E i \in D : q[i] = x
    BY <1>1, <1>2 DEF Lists
  <2> QED  BY <1>3, <2>1
<1>6. IsFiniteSet(D)
  BY <1>1, <1>2, FS_Interval
<1>7. PICK T : T = [Group -> Acc]
  OBVIOUS
<1> DEFINE Seen(ss) == R \cup ({q[i] : i \in ss} \ drop)
<1> DEFINE Put(G, i) == IF q[i] \in drop THEN G ELSE AddRow(G, q[i])
<1>8. PICK J : J = [ss \in SUBSET D |-> {G \in T : Covers(G, Seen(ss))}]
  OBVIOUS
<1>9. PICK c : c = Latest(D)
  OBVIOUS
<1>10. Chooses(D, c) /\ \A ss \in SUBSET D : c[ss] = Max(ss)
  BY <1>1, <1>2, <1>9, LatestMember
<1>11. PICK F : F = [z \in D \X T |-> Put(z[2], z[1])]
  OBVIOUS
<1>12. ASSUME NEW i \in D, NEW G \in T PROVE F[<<i, G>>] = Put(G, i)
  <2>1. <<i, G>> \in D \X T /\ <<i, G>>[1] = i /\ <<i, G>>[2] = G
    OBVIOUS
  <2> QED  BY <1>11, <2>1
<1>13. ASSUME NEW ss \in SUBSET D, ss # {} PROVE c[ss] \in ss /\ c[ss] \in D
  BY <1>10, <1>13 DEF Chooses
<1>14. ASSUME NEW ss \in SUBSET D, NEW i \in ss, NEW G \in J[ss \ {i}]
       PROVE  G \in T /\ Put(G, i) \in J[ss]
  <2>1. PICK X : X = Seen(ss \ {i})
    OBVIOUS
  <2>2. G \in T /\ Covers(G, X)
    <3>1. ss \ {i} \in SUBSET D
      OBVIOUS
    <3>2. J[ss \ {i}] = {H \in T : Covers(H, Seen(ss \ {i}))}
      BY <1>8, <3>1
    <3> QED  BY <2>1, <3>2
  <2>3. i \in D /\ q[i] \in S
    BY <1>3
  <2>4. CASE q[i] \in drop
    <3>1. Seen(ss) = X
      BY <2>1, <2>4
    <3> QED  BY <1>8, <2>2, <2>4, <3>1
  <2>5. CASE q[i] \notin drop
    <3>1. \A j \in ss \ {i} : q[j] \in S /\ q[j] # q[i]
      BY <1>3, <1>4, <2>3
    <3>2. X \in SUBSET (0 .. n - 1) /\ q[i] \in 0 .. n - 1 /\ q[i] \notin X
      BY <2>1, <2>3, <3>1
    <3>3. Covers(AddRow(G, q[i]), X \cup {q[i]})
      BY <2>2, <3>2, AddRowCovers
    <3>4. X \cup {q[i]} = Seen(ss)
      BY <2>1, <2>5
    <3>5. AddRow(G, q[i]) \in T
      BY <1>7, <3>3 DEF Covers
    <3> QED  BY <1>8, <2>2, <2>5, <3>3, <3>4, <3>5
  <2> QED  BY <2>4, <2>5
<1>15. Keeps(F, D, J, c)
  <2> SUFFICES ASSUME NEW ss \in SUBSET D, ss # {}, NEW x \in J[ss \ {c[ss]}]
               PROVE  F[<<c[ss], x>>] \in J[ss]
    BY DEF Keeps
  <2>1. PICK i \in ss : i = c[ss]
    BY <1>13
  <2>2. x \in T /\ Put(x, i) \in J[ss]
    BY <1>14, <2>1
  <2> QED  BY <1>12, <2>1, <2>2
<1>16. B \in J[{}]
  <2>1. Seen({}) = R /\ B \in T /\ {} \in SUBSET D
    BY <1>7 DEF Covers
  <2>2. J[{}] = {G \in T : Covers(G, Seen({}))}
    BY <1>8
  <2> QED  BY <2>1, <2>2
<1>17. PICK g : Recursive(g, D, B, F, c) /\ \A ss \in SUBSET D : g[ss] \in J[ss]
  <2>1. IsFiniteSet(D) /\ Chooses(D, c)
    BY <1>6, <1>10
  <2> QED  BY ONLY <1>15, <1>16, <2>1, FoldReaches
<1> DEFINE Folds(iter) ==
      iter = [ss \in SUBSET D |->
                IF ss = {} THEN B ELSE Put(iter[ss \ {Max(ss)}], Max(ss))]
<1>18. Folds(g)
  <2>1. ASSUME NEW ss \in SUBSET D, ss # {}
        PROVE  F[<<c[ss], g[ss \ {c[ss]}]>>] = Put(g[ss \ {Max(ss)}], Max(ss))
    <3>1. PICK i \in ss : i = c[ss] /\ i = Max(ss)
      BY <1>10, <1>13, <2>1
    <3>2. g[ss \ {i}] \in T
      BY <1>14, <1>17
    <3> QED  BY <1>12, <3>1, <3>2
  <2> QED  BY <1>17, <2>1 DEF Recursive
<1>19. PICK it : it = CHOOSE iter : Folds(iter)
  OBVIOUS
<1> HIDE DEF Folds
<1>20. Folds(it)
  BY <1>18, <1>19
<1> USE DEF Folds
<1>21. AddRowsBut(B, q, drop) = it[D]
  BY <1>3, <1>19, Zenon DEF AddRowsBut, FoldLeft, MapThenFoldSet
<1>22. Inductive(it, D, J, c)
  <2>1. it[{}] \in J[{}]
    BY <1>16, <1>20
  <2>2. ASSUME NEW ss \in SUBSET D, ss # {}, it[ss \ {c[ss]}] \in J[ss \ {c[ss]}]
        PROVE  it[ss] \in J[ss]
    <3>1. it[ss] = Put(it[ss \ {Max(ss)}], Max(ss))
      BY <1>20, <2>2
    <3>2. PICK i \in ss : i = c[ss] /\ i = Max(ss)
      BY <1>10, <1>13, <2>2
    <3> QED  BY <1>14, <2>2, <3>1, <3>2
  <2> QED  BY <2>1, <2>2 DEF Inductive
<1>23. \A ss \in SUBSET D : it[ss] \in J[ss]
  BY ONLY <1>6, <1>10, <1>22, FoldInduction
<1>24. it[D] \in J[D]
  BY <1>23
<1>25. Seen(D) = R \cup (S \ drop)
  BY <1>5
<1> QED  BY <1>8, <1>21, <1>24, <1>25

\* The threads by number are all threads, the main thread first.
LEMMA NumberedThreads ==
  /\ Lists(ByNumber, Thread) /\ Len(ByNumber) \in Nat \ {0} /\ ByNumber[1] = Main
  /\ Lists(Tail(ByNumber), Worker)
<1>1. IsFiniteSet(Worker) /\ Main \notin Worker
  BY PoolAssumption
<1>2. NWorkers \in Nat
  BY <1>1, FS_CardinalityType DEF NWorkers
<1>3. PICK n \in Nat \ {0} : n = NWorkers + 1
  BY <1>2
<1>4. \E s \in Bijection(1 .. n, Thread) : s[1] = Main
  <2>1. PICK k \in Nat : k = NWorkers
    BY <1>2
  <2>2. PICK f : f \in Bijection(1 .. k, Worker)
    BY <1>1, <2>1, FS_CardinalityType DEF NWorkers, ExistsBijection
  <2>3. /\ f \in [1 .. k -> Worker] /\ \A w \in Worker : \E i \in 1 .. k : f[i] = w
        /\ \A i, j \in 1 .. k : f[i] = f[j] => i = j
    BY <2>2 DEF Bijection, Injection, Surjection, IsInjective
  <2>4. PICK s : s = [i \in 1 .. n |-> IF i = 1 THEN Main ELSE f[i - 1]]
    OBVIOUS
  <2>5. n = k + 1
    BY <1>3, <2>1
  <2>6. ASSUME NEW i \in 1 .. n
        PROVE  s[i] \in Thread /\ (i = 1 => s[i] = Main)
               /\ (i # 1 => i - 1 \in 1 .. k /\ s[i] = f[i - 1] /\ s[i] \in Worker)
    <3>1. i # 1 => i - 1 \in 1 .. k
      BY <2>5
    <3> QED  BY <2>3, <2>4, <3>1 DEF Thread
  <2>7. s \in [1 .. n -> Thread]
    BY <2>4, <2>6
  <2>8. ASSUME NEW i \in 1 .. n, NEW j \in 1 .. n, s[i] = s[j] PROVE i = j
    <3>1. i = 1 <=> j = 1
      BY <1>1, <2>6, <2>8
    <3>2. i # 1 => i - 1 = j - 1
      BY <2>3, <2>6, <2>8, <3>1
    <3> QED  BY <3>1, <3>2
  <2>9. ASSUME NEW t \in Thread PROVE \E i \in 1 .. n : s[i] = t
    <3>1. CASE t = Main
      <4>1. 1 \in 1 .. n
        OBVIOUS
      <4> QED  BY <2>6, <3>1, <4>1
    <3>2. CASE t \in Worker
      <4>1. PICK i \in 1 .. k : f[i] = t
        BY <2>3, <3>2
      <4>2. PICK j \in 1 .. n : j = i + 1
        BY <2>5
      <4>3. j # 1 /\ j - 1 = i
        BY <4>2
      <4> QED  BY <2>6, <4>1, <4>3
    <3> QED  BY <3>1, <3>2 DEF Thread
  <2>10. s \in Bijection(1 .. n, Thread)
    BY <2>7, <2>8, <2>9 DEF Bijection, Injection, Surjection, IsInjective
  <2>11. 1 \in 1 .. n
    OBVIOUS
  <2> QED  BY <2>6, <2>10, <2>11
<1>5. PICK s : s = ByNumber
  OBVIOUS
<1>6. s \in Bijection(1 .. n, Thread) /\ s[1] = Main
  BY <1>3, <1>4, <1>5 DEF ByNumber
<1>7. /\ s \in [1 .. n -> Thread] /\ \A t \in Thread : \E i \in 1 .. n : s[i] = t
      /\ \A i, j \in 1 .. n : s[i] = s[j] => i = j
  BY <1>6 DEF Bijection, Injection, Surjection, IsInjective
<1>8. s \in Seq(Thread) /\ Len(s) = n
  BY <1>7
<1>9. PICK q : q = Tail(s)
  OBVIOUS
<1>10. Len(q) = n - 1 /\ \A i \in 1 .. n - 1 : q[i] = s[i + 1]
  BY <1>8, <1>9
<1>11. q \in Seq(Thread)
  BY <1>8, <1>9
<1>12. ASSUME NEW i \in 1 .. n - 1 PROVE q[i] \in Worker /\ i + 1 \in 1 .. n /\ q[i] = s[i + 1]
  <2>1. i + 1 \in 1 .. n /\ i + 1 # 1 /\ 1 \in 1 .. n
    OBVIOUS
  <2>2. s[i + 1] # Main /\ s[i + 1] \in Thread
    BY <1>6, <1>7, <2>1
  <2> QED  BY <1>10, <2>1, <2>2 DEF Thread
<1>13. q \in Seq(Worker)
  BY <1>10, <1>11, <1>12
<1>14. ASSUME NEW i \in 1 .. n - 1, NEW j \in 1 .. n - 1, q[i] = q[j] PROVE i = j
  <2>1. i + 1 = j + 1
    BY <1>7, <1>12, <1>14
  <2> QED  BY <2>1
<1>15. ASSUME NEW w \in Worker PROVE \E i \in 1 .. n - 1 : q[i] = w
  <2>1. PICK i \in 1 .. n : s[i] = w
    BY <1>7 DEF Thread
  <2>2. i # 1
    BY <1>1, <1>6, <2>1
  <2>3. PICK j \in 1 .. n - 1 : i = j + 1
    <3>1. i - 1 \in 1 .. n - 1 /\ i = (i - 1) + 1
      BY <2>2
    <3> QED  BY <3>1
  <2> QED  BY <1>12, <2>1, <2>3
<1>16. Lists(q, Worker)
  BY <1>10, <1>13, <1>14, <1>15 DEF Lists
<1>17. Lists(s, Thread)
  BY <1>7, <1>8 DEF Lists
<1> QED  BY <1>5, <1>6, <1>8, <1>9, <1>16, <1>17

\* What the fold lemmas need of a list.
LEMMA ListIndices ==
  ASSUME NEW q, NEW S, Lists(q, S)
  PROVE  \E m \in Nat :
           /\ DOMAIN q = 1 .. m /\ IsFiniteSet(1 .. m)
           /\ \A i \in 1 .. m : q[i] \in S
           /\ \A i, j \in 1 .. m : q[i] = q[j] => i = j
           /\ S = {q[i] : i \in 1 .. m}
<1>1. PICK m \in Nat : m = Len(q)
  BY DEF Lists
<1>2. DOMAIN q = 1 .. m /\ \A i \in 1 .. m : q[i] \in S
  BY <1>1 DEF Lists
<1>3. /\ \A i, j \in 1 .. m : q[i] = q[j] => i = j
      /\ \A x \in S : \E i \in 1 .. m : q[i] = x
  BY <1>1 DEF Lists
<1>4. S = {q[i] : i \in 1 .. m}
  BY <1>2, <1>3
<1>5. IsFiniteSet(1 .. m)
  BY <1>1, FS_Interval
<1> QED  BY <1>2, <1>3, <1>4, <1>5

\* The rows of part, one set for each thread, do not meet.
Apart(part) == \A t, u \in Thread : t # u => part[t] \cap part[u] = {}
Together(part, S) == UNION {part[t] : t \in S}

\* The accumulators of the threads, merged in the order of their numbers.
LEMMA MergedExact ==
  ASSUME NEW g, NEW C, Column(vals, C), NEW part \in [Thread -> SUBSET C], Apart(part),
         \A t \in Thread : Exact(vals, accs[t][g], part[t])
  PROVE  Exact(vals, Merged(g), Together(part, Thread))
<1>0. Main \in Thread /\ Worker \subseteq Thread /\ Main \notin Worker
  BY PoolAssumption DEF Thread
<1>1. PICK q : q = Tail(ByNumber)
  OBVIOUS
<1>2. Lists(q, Worker)
  BY <1>1, NumberedThreads
<1>3. PICK m \in Nat :
        /\ DOMAIN q = 1 .. m /\ IsFiniteSet(1 .. m)
        /\ \A i \in 1 .. m : q[i] \in Worker
        /\ \A i, j \in 1 .. m : q[i] = q[j] => i = j
        /\ Worker = {q[i] : i \in 1 .. m}
  BY <1>2, ListIndices
<1>4. PICK D : D = 1 .. m
  OBVIOUS
<1>5. PICK B : B = accs[Main][g]
  OBVIOUS
<1> DEFINE Seen(ss) == part[Main] \cup UNION {part[q[i]] : i \in ss}
<1>8. PICK J : J = [ss \in SUBSET D |-> {a \in Acc : Exact(vals, a, Seen(ss))}]
  OBVIOUS
<1>9. PICK c : c = Latest(D)
  OBVIOUS
<1>10. Chooses(D, c) /\ \A ss \in SUBSET D : c[ss] = Max(ss)
  BY <1>4, <1>9, LatestMember
<1>11. PICK F : F = [z \in D \X Acc |-> Merge(z[2], accs[q[z[1]]][g])]
  OBVIOUS
<1>12. ASSUME NEW i \in D, NEW a \in Acc PROVE F[<<i, a>>] = Merge(a, accs[q[i]][g])
  <2>1. <<i, a>> \in D \X Acc /\ <<i, a>>[1] = i /\ <<i, a>>[2] = a
    OBVIOUS
  <2> QED  BY <1>11, <2>1
<1>13. ASSUME NEW ss \in SUBSET D, ss # {} PROVE c[ss] \in ss /\ c[ss] \in D
  BY <1>10, <1>13 DEF Chooses
<1>14. ASSUME NEW ss \in SUBSET D, NEW i \in ss, NEW a \in J[ss \ {i}]
       PROVE  a \in Acc /\ Merge(a, accs[q[i]][g]) \in J[ss]
  <2>1. PICK X : X = Seen(ss \ {i})
    OBVIOUS
  <2>2. a \in Acc /\ Exact(vals, a, X)
    BY <1>8, <2>1
  <2>3. PICK w \in Worker : w = q[i]
    BY <1>3, <1>4
  <2>4. \A j \in ss \ {i} : q[j] # w /\ q[j] \in Thread
    BY <1>0, <1>3, <1>4, <2>3
  <2>5. X \cap part[w] = {}
    <3>1. part[Main] \cap part[w] = {}
      BY <1>0 DEF Apart
    <3>2. \A j \in ss \ {i} : part[q[j]] \cap part[w] = {}
      BY <1>0, <2>4 DEF Apart
    <3> QED  BY <2>1, <3>1, <3>2
  <2>6. X \cup part[w] = Seen(ss)
    BY <2>1, <2>3
  <2>7. Seen(ss) \subseteq C
    <3>1. \A j \in ss : q[j] \in Thread
      BY <1>0, <1>3, <1>4
    <3> QED  BY <1>0, <3>1
  <2>8. Column(vals, X \cup part[w])
    <3>1. IsFiniteSet(Seen(ss))
      BY <2>7, FS_Subset DEF Column
    <3> QED  BY <2>6, <2>7, <3>1 DEF Column
  <2>9. Exact(vals, accs[w][g], part[w])
    BY <1>0
  <2>10. Exact(vals, Merge(a, accs[w][g]), X \cup part[w])
    BY <2>2, <2>5, <2>8, <2>9, MergeExact
  <2>11. Exact(vals, Merge(a, accs[q[i]][g]), Seen(ss))
    BY <2>3, <2>6, <2>10
  <2>12. Merge(a, accs[q[i]][g]) \in Acc
    BY <2>11 DEF Exact
  <2> QED  BY <1>8, <2>2, <2>11, <2>12
<1>15. Keeps(F, D, J, c)
  <2> SUFFICES ASSUME NEW ss \in SUBSET D, ss # {}, NEW x \in J[ss \ {c[ss]}]
               PROVE  F[<<c[ss], x>>] \in J[ss]
    BY DEF Keeps
  <2>1. PICK i \in ss : i = c[ss]
    BY <1>13
  <2>2. x \in Acc /\ Merge(x, accs[q[i]][g]) \in J[ss]
    BY <1>14, <2>1
  <2> QED  BY <1>12, <2>1, <2>2
<1>16. B \in J[{}]
  <2>1. Seen({}) = part[Main]
    OBVIOUS
  <2>2. Exact(vals, B, Seen({}))
    BY <1>0, <1>5, <2>1
  <2>3. B \in Acc
    BY <2>2 DEF Exact
  <2> QED  BY <1>8, <2>2, <2>3
<1>17. PICK h : Recursive(h, D, B, F, c) /\ \A ss \in SUBSET D : h[ss] \in J[ss]
  <2>1. IsFiniteSet(D) /\ Chooses(D, c)
    BY <1>3, <1>4, <1>10
  <2> QED  BY ONLY <1>15, <1>16, <2>1, FoldReaches
<1> DEFINE Folds(iter) ==
      iter = [ss \in SUBSET D |->
                IF ss = {} THEN B ELSE Merge(iter[ss \ {Max(ss)}], accs[q[Max(ss)]][g])]
<1>18. Folds(h)
  <2>1. ASSUME NEW ss \in SUBSET D, ss # {}
        PROVE  F[<<c[ss], h[ss \ {c[ss]}]>>] = Merge(h[ss \ {Max(ss)}], accs[q[Max(ss)]][g])
    <3>1. PICK i \in ss : i = c[ss] /\ i = Max(ss)
      BY <1>10, <1>13, <2>1
    <3>2. h[ss \ {i}] \in Acc
      BY <1>14, <1>17
    <3> QED  BY <1>12, <3>1, <3>2
  <2> QED  BY <1>17, <2>1 DEF Recursive
<1>19. PICK it : it = CHOOSE iter : Folds(iter)
  OBVIOUS
<1> HIDE DEF Folds
<1>20. Folds(it)
  BY <1>18, <1>19
<1> USE DEF Folds
<1>21. Merged(g) = it[D]
  <2>1. FoldLeft(LAMBDA a, t : Merge(a, accs[t][g]), B, q) = it[D]
    BY <1>3, <1>4, <1>19, Zenon DEF FoldLeft, MapThenFoldSet
  <2>2. Merged(g) = FoldLeft(LAMBDA a, t : Merge(a, accs[t][g]), B, q)
    BY <1>1, <1>5, Zenon DEF Merged
  <2> QED  BY <2>1, <2>2, Zenon
<1>22. Inductive(it, D, J, c)
  <2>1. it[{}] \in J[{}]
    BY <1>16, <1>20
  <2>2. ASSUME NEW ss \in SUBSET D, ss # {}, it[ss \ {c[ss]}] \in J[ss \ {c[ss]}]
        PROVE  it[ss] \in J[ss]
    <3>1. it[ss] = Merge(it[ss \ {Max(ss)}], accs[q[Max(ss)]][g])
      BY <1>20, <2>2
    <3>2. PICK i \in ss : i = c[ss] /\ i = Max(ss)
      BY <1>10, <1>13, <2>2
    <3> QED  BY <1>14, <2>2, <3>1, <3>2
  <2> QED  BY <2>1, <2>2 DEF Inductive
<1>23. \A ss \in SUBSET D : it[ss] \in J[ss]
  <2>1. IsFiniteSet(D)
    BY <1>3, <1>4
  <2> QED  BY ONLY <1>10, <1>22, <2>1, FoldInduction
<1>24. it[D] \in J[D]
  BY <1>23
<1>25. Seen(D) = Together(part, Thread)
  BY <1>0, <1>3, <1>4 DEF Together, Thread
<1> QED  BY <1>8, <1>21, <1>24, <1>25

\* The tables of the threads, one after the other, into the groups of a partition.
LEMMA AggregatedCovers ==
  ASSUME NEW p, NEW drop, NEW n, Loaded(n), NEW part \in [Thread -> SUBSET (0 .. n - 1)], Apart(part),
         \A t \in Thread : Lists(bufs[t][p], part[t])
  PROVE  Covers(Aggregated(p, drop), Together(part, Thread) \ drop)
<1>1. PICK q : q = ByNumber
  OBVIOUS
<1>2. Lists(q, Thread)
  BY <1>1, NumberedThreads
<1>3. PICK m \in Nat :
        /\ DOMAIN q = 1 .. m /\ IsFiniteSet(1 .. m)
        /\ \A i \in 1 .. m : q[i] \in Thread
        /\ \A i, j \in 1 .. m : q[i] = q[j] => i = j
        /\ Thread = {q[i] : i \in 1 .. m}
  BY <1>2, ListIndices
<1>4. PICK D : D = 1 .. m
  OBVIOUS
<1>5. PICK B : B = NoGroups
  OBVIOUS
<1>7. PICK T : T = [Group -> Acc]
  OBVIOUS
<1> DEFINE Seen(ss) == UNION {part[q[i]] \ drop : i \in ss}
<1>8. PICK J : J = [ss \in SUBSET D |-> {G \in T : Covers(G, Seen(ss))}]
  OBVIOUS
<1>9. PICK c : c = Latest(D)
  OBVIOUS
<1>10. Chooses(D, c) /\ \A ss \in SUBSET D : c[ss] = Max(ss)
  BY <1>4, <1>9, LatestMember
<1>11. PICK F : F = [z \in D \X T |-> AddRowsBut(z[2], bufs[q[z[1]]][p], drop)]
  OBVIOUS
<1>12. ASSUME NEW i \in D, NEW G \in T PROVE F[<<i, G>>] = AddRowsBut(G, bufs[q[i]][p], drop)
  <2>1. <<i, G>> \in D \X T /\ <<i, G>>[1] = i /\ <<i, G>>[2] = G
    OBVIOUS
  <2> QED  BY <1>11, <2>1
<1>13. ASSUME NEW ss \in SUBSET D, ss # {} PROVE c[ss] \in ss /\ c[ss] \in D
  BY <1>10, <1>13 DEF Chooses
<1>14. ASSUME NEW ss \in SUBSET D, NEW i \in ss, NEW G \in J[ss \ {i}]
       PROVE  G \in T /\ AddRowsBut(G, bufs[q[i]][p], drop) \in J[ss]
  <2>1. PICK X : X = Seen(ss \ {i})
    OBVIOUS
  <2>2. G \in T /\ Covers(G, X)
    BY <1>8, <2>1
  <2>3. PICK t \in Thread : t = q[i]
    BY <1>3, <1>4
  <2>4. \A j \in ss \ {i} : q[j] # t /\ q[j] \in Thread
    BY <1>3, <1>4, <2>3
  <2>5. X \cap part[t] = {}
    <3>1. \A j \in ss \ {i} : part[q[j]] \cap part[t] = {}
      BY <2>4 DEF Apart
    <3> QED  BY <2>1, <3>1
  <2>6. X \cup (part[t] \ drop) = Seen(ss)
    BY <2>1, <2>3
  <2>7. X \in SUBSET (0 .. n - 1) /\ part[t] \in SUBSET (0 .. n - 1)
    <3>1. \A j \in ss \ {i} : part[q[j]] \in SUBSET (0 .. n - 1)
      BY <2>4
    <3> QED  BY <2>1, <3>1
  <2>8. Lists(bufs[t][p], part[t])
    OBVIOUS
  <2>9. Covers(AddRowsBut(G, bufs[t][p], drop), X \cup (part[t] \ drop))
    BY ONLY <2>2, <2>5, <2>7, <2>8, Loaded(n), AddRowsCovers
  <2>10. Covers(AddRowsBut(G, bufs[q[i]][p], drop), Seen(ss))
    BY <2>3, <2>6, <2>9
  <2>11. AddRowsBut(G, bufs[q[i]][p], drop) \in T
    BY <1>7, <2>10 DEF Covers
  <2> QED  BY <1>8, <2>2, <2>10, <2>11
<1>15. Keeps(F, D, J, c)
  <2> SUFFICES ASSUME NEW ss \in SUBSET D, ss # {}, NEW x \in J[ss \ {c[ss]}]
               PROVE  F[<<c[ss], x>>] \in J[ss]
    BY DEF Keeps
  <2>1. PICK i \in ss : i = c[ss]
    BY <1>13
  <2>2. x \in T /\ AddRowsBut(x, bufs[q[i]][p], drop) \in J[ss]
    BY <1>14, <2>1
  <2> QED  BY <1>12, <2>1, <2>2
<1>16. B \in J[{}]
  <2>1. Seen({}) = {}
    OBVIOUS
  <2>2. Covers(B, Seen({}))
    BY <1>5, <2>1, NoGroupsCovers
  <2>3. B \in T
    BY <1>7, <2>2 DEF Covers
  <2> QED  BY <1>8, <2>2, <2>3
<1>17. PICK h : Recursive(h, D, B, F, c) /\ \A ss \in SUBSET D : h[ss] \in J[ss]
  <2>1. IsFiniteSet(D) /\ Chooses(D, c)
    BY <1>3, <1>4, <1>10
  <2> QED  BY ONLY <1>15, <1>16, <2>1, FoldReaches
<1> DEFINE Folds(iter) ==
      iter = [ss \in SUBSET D |->
                IF ss = {} THEN B ELSE AddRowsBut(iter[ss \ {Max(ss)}], bufs[q[Max(ss)]][p], drop)]
<1>18. Folds(h)
  <2>1. ASSUME NEW ss \in SUBSET D, ss # {}
        PROVE  F[<<c[ss], h[ss \ {c[ss]}]>>] = AddRowsBut(h[ss \ {Max(ss)}], bufs[q[Max(ss)]][p], drop)
    <3>1. PICK i \in ss : i = c[ss] /\ i = Max(ss)
      BY <1>10, <1>13, <2>1
    <3>2. h[ss \ {i}] \in T
      BY <1>14, <1>17
    <3> QED  BY <1>12, <3>1, <3>2
  <2> QED  BY <1>17, <2>1 DEF Recursive
<1>19. PICK it : it = CHOOSE iter : Folds(iter)
  OBVIOUS
<1> HIDE DEF Folds
<1>20. Folds(it)
  BY <1>18, <1>19
<1> USE DEF Folds
<1>21. Aggregated(p, drop) = it[D]
  <2>1. FoldLeft(LAMBDA a, t : AddRowsBut(a, bufs[t][p], drop), B, q) = it[D]
    BY <1>3, <1>4, <1>19, Zenon DEF FoldLeft, MapThenFoldSet
  <2>2. Aggregated(p, drop) = FoldLeft(LAMBDA a, t : AddRowsBut(a, bufs[t][p], drop), B, q)
    BY <1>1, <1>5, Zenon DEF Aggregated
  <2> QED  BY <2>1, <2>2, Zenon
<1>22. Inductive(it, D, J, c)
  <2>1. it[{}] \in J[{}]
    BY <1>16, <1>20
  <2>2. ASSUME NEW ss \in SUBSET D, ss # {}, it[ss \ {c[ss]}] \in J[ss \ {c[ss]}]
        PROVE  it[ss] \in J[ss]
    <3>1. it[ss] = AddRowsBut(it[ss \ {Max(ss)}], bufs[q[Max(ss)]][p], drop)
      BY <1>20, <2>2
    <3>2. PICK i \in ss : i = c[ss] /\ i = Max(ss)
      BY <1>10, <1>13, <2>2
    <3> QED  BY <1>14, <2>2, <3>1, <3>2
  <2> QED  BY <2>1, <2>2 DEF Inductive
<1>23. \A ss \in SUBSET D : it[ss] \in J[ss]
  <2>1. IsFiniteSet(D)
    BY <1>3, <1>4
  <2> QED  BY ONLY <1>10, <1>22, <2>1, FoldInduction
<1>24. it[D] \in J[D]
  BY <1>23
<1>25. Seen(D) = Together(part, Thread) \ drop
  BY <1>3, <1>4 DEF Together
<1> QED  BY <1>8, <1>21, <1>24, <1>25

-----------------------------------------------------------------------------
(* The buffers. *)

PartOf(R, p) == {r \in R : PartitionOf(keys[r]) = p}

\* The buffers b hold the rows R, each in its partition.
Scattered(b, R) ==
  b \in [Partition -> Seq(Nat)] /\ \A p \in Partition : Lists(b[p], PartOf(R, p))

\* Every group is in a partition.
LEMMA PartitionRange == ASSUME NEW g \in Group PROVE PartitionOf(g) \in Partition
<1>1. g \in Nat /\ RadixP \in Nat \ {0}
  BY GroupAssumption, PoolAssumption DEF Group
<1> QED  BY <1>1, ModRange DEF PartitionOf, Partition

\* One more entry.
LEMMA AppendLists ==
  ASSUME NEW q, NEW S, Lists(q, S), NEW x, x \notin S
  PROVE  Lists(Append(q, x), S \cup {x})
<1>1. PICK m \in Nat : m = Len(q)
  BY DEF Lists
<1>2. PICK a : a = Append(q, x)
  OBVIOUS
<1>3. q \in Seq(S \cup {x}) /\ \A i \in 1 .. m : q[i] \in S
  BY <1>1 DEF Lists
<1>4. a \in Seq(S \cup {x}) /\ Len(a) = m + 1 /\ a[m + 1] = x /\ \A i \in 1 .. m : a[i] = q[i]
  BY <1>1, <1>2, <1>3
<1>5. \A i \in 1 .. m + 1 : i = m + 1 \/ i \in 1 .. m
  OBVIOUS
<1>6. ASSUME NEW i \in 1 .. m + 1, NEW j \in 1 .. m + 1, a[i] = a[j] PROVE i = j
  <2>1. i \in 1 .. m /\ j \in 1 .. m => i = j
    BY <1>1, <1>4, <1>6 DEF Lists
  <2>2. i \in 1 .. m => a[i] # x
    BY <1>3, <1>4
  <2>3. j \in 1 .. m => a[j] # x
    BY <1>3, <1>4
  <2> QED  BY <1>4, <1>5, <1>6, <2>1, <2>2, <2>3
<1>7. ASSUME NEW y \in S \cup {x} PROVE \E i \in 1 .. m + 1 : a[i] = y
  <2>1. y = x => m + 1 \in 1 .. m + 1 /\ a[m + 1] = y
    BY <1>4
  <2>2. CASE y \in S
    <3>1. PICK i \in 1 .. m : q[i] = y
      BY <1>1, <2>2 DEF Lists
    <3>2. i \in 1 .. m + 1
      OBVIOUS
    <3> QED  BY <1>4, <3>1, <3>2
  <2> QED  BY <2>1, <2>2
<1>8. Lists(a, S \cup {x})
  BY <1>4, <1>6, <1>7 DEF Lists
<1> QED  BY <1>2, <1>8

\* Buffers that were set up hold nothing.
LEMMA NoRowsScattered == Scattered(NoRows, {})
<1>1. \A p \in Partition : NoRows[p] = <<>> /\ PartOf({}, p) = {}
  BY DEF NoRows, PartOf
<1>2. Lists(<<>>, {})
  BY DEF Lists
<1>3. NoRows \in [Partition -> Seq(Nat)]
  BY DEF NoRows
<1> QED  BY <1>1, <1>2, <1>3 DEF Scattered

\* One row goes to its partition.
LEMMA ScatterRow ==
  ASSUME NEW n, Loaded(n), NEW X \in SUBSET (0 .. n - 1), NEW r \in 0 .. n - 1, r \notin X,
         NEW b, Scattered(b, X)
  PROVE  Scattered(Scatter(b, r), X \cup {r})
<1>1. PICK k \in Partition : k = PartitionOf(keys[r])
  BY PartitionRange DEF Loaded
<1>2. PICK d : d = Scatter(b, r)
  OBVIOUS
<1>3. d = [b EXCEPT ![k] = Append(b[k], r)] /\ b \in [Partition -> Seq(Nat)]
  BY <1>1, <1>2 DEF Scatter, Scattered
<1>4. r \in Nat
  BY DEF Loaded
<1>5. Append(b[k], r) \in Seq(Nat)
  BY <1>3, <1>4
<1>6. d \in [Partition -> Seq(Nat)] /\ d[k] = Append(b[k], r)
      /\ \A p \in Partition : p # k => d[p] = b[p]
  BY <1>3, <1>5
<1>7. Lists(d[k], PartOf(X \cup {r}, k))
  <2>1. PICK S : S = PartOf(X, k)
    OBVIOUS
  <2>2. PartOf(X \cup {r}, k) = S \cup {r} /\ r \notin S
    BY <1>1, <2>1 DEF PartOf
  <2>3. Lists(b[k], S)
    BY <2>1 DEF Scattered
  <2>4. Lists(Append(b[k], r), S \cup {r})
    BY <2>2, <2>3, AppendLists
  <2> QED  BY <1>6, <2>2, <2>4
<1>8. ASSUME NEW p \in Partition, p # k PROVE Lists(d[p], PartOf(X \cup {r}, p))
  <2>1. PartOf(X \cup {r}, p) = PartOf(X, p)
    BY <1>1, <1>8 DEF PartOf
  <2> QED  BY <1>6, <1>8, <2>1 DEF Scattered
<1>9. \A p \in Partition : Lists(d[p], PartOf(X \cup {r}, p))
  BY <1>7, <1>8
<1> QED  BY <1>2, <1>6, <1>9 DEF Scattered

\* A list of rows, each to its partition.
LEMMA ScatterRows ==
  ASSUME NEW n, Loaded(n), NEW R \in SUBSET (0 .. n - 1), NEW S \in SUBSET (0 .. n - 1),
         R \cap S = {}, NEW q, Lists(q, S), NEW B, Scattered(B, R)
  PROVE  Scattered(ScatterRowsBut(B, q, {}), R \cup S)
<1>3. PICK m \in Nat :
        /\ DOMAIN q = 1 .. m /\ IsFiniteSet(1 .. m)
        /\ \A i \in 1 .. m : q[i] \in S
        /\ \A i, j \in 1 .. m : q[i] = q[j] => i = j
        /\ S = {q[i] : i \in 1 .. m}
  BY ListIndices
<1>4. PICK D : D = 1 .. m
  OBVIOUS
<1>7. PICK T : T = [Partition -> Seq(Nat)]
  OBVIOUS
<1> DEFINE Seen(ss) == R \cup {q[i] : i \in ss}
<1>8. PICK J : J = [ss \in SUBSET D |-> {b \in T : Scattered(b, Seen(ss))}]
  OBVIOUS
<1>9. PICK c : c = Latest(D)
  OBVIOUS
<1>10. Chooses(D, c) /\ \A ss \in SUBSET D : c[ss] = Max(ss)
  BY <1>4, <1>9, LatestMember
<1>11. PICK F : F = [z \in D \X T |-> Scatter(z[2], q[z[1]])]
  OBVIOUS
<1>12. ASSUME NEW i \in D, NEW b \in T PROVE F[<<i, b>>] = Scatter(b, q[i])
  <2>1. <<i, b>> \in D \X T /\ <<i, b>>[1] = i /\ <<i, b>>[2] = b
    OBVIOUS
  <2> QED  BY <1>11, <2>1
<1>13. ASSUME NEW ss \in SUBSET D, ss # {} PROVE c[ss] \in ss /\ c[ss] \in D
  BY <1>10, <1>13 DEF Chooses
<1>14. ASSUME NEW ss \in SUBSET D, NEW i \in ss, NEW b \in J[ss \ {i}]
       PROVE  b \in T /\ Scatter(b, q[i]) \in J[ss]
  <2>1. PICK X : X = Seen(ss \ {i})
    OBVIOUS
  <2>2. b \in T /\ Scattered(b, X)
    <3>1. ss \ {i} \in SUBSET D
      OBVIOUS
    <3>2. J[ss \ {i}] = {d \in T : Scattered(d, Seen(ss \ {i}))}
      BY <1>8, <3>1
    <3> QED  BY <2>1, <3>2
  <2>3. X \in SUBSET (0 .. n - 1) /\ q[i] \in 0 .. n - 1 /\ q[i] \notin X
    <3>1. i \in D /\ q[i] \in S
      BY <1>3, <1>4
    <3>2. \A j \in ss \ {i} : q[j] \in S /\ q[j] # q[i]
      BY <1>3, <1>4
    <3>3. q[i] \notin R
      BY <3>1
    <3> QED  BY <2>1, <3>1, <3>2, <3>3
  <2>4. Scattered(Scatter(b, q[i]), X \cup {q[i]})
    BY <2>2, <2>3, ScatterRow
  <2>5. X \cup {q[i]} = Seen(ss)
    BY <2>1
  <2>6. Scatter(b, q[i]) \in T
    BY <1>7, <2>4 DEF Scattered
  <2> QED  BY <1>8, <2>2, <2>4, <2>5, <2>6
<1>15. Keeps(F, D, J, c)
  <2> SUFFICES ASSUME NEW ss \in SUBSET D, ss # {}, NEW x \in J[ss \ {c[ss]}]
               PROVE  F[<<c[ss], x>>] \in J[ss]
    BY DEF Keeps
  <2>1. PICK i \in ss : i = c[ss]
    BY <1>13
  <2>2. x \in T /\ Scatter(x, q[i]) \in J[ss]
    BY <1>14, <2>1
  <2> QED  BY <1>12, <2>1, <2>2
<1>16. B \in J[{}]
  <2>1. Seen({}) = R
    OBVIOUS
  <2>2. B \in T
    BY <1>7 DEF Scattered
  <2> QED  BY <1>8, <2>1, <2>2
<1>17. PICK h : Recursive(h, D, B, F, c) /\ \A ss \in SUBSET D : h[ss] \in J[ss]
  <2>1. IsFiniteSet(D) /\ Chooses(D, c)
    BY <1>3, <1>4, <1>10
  <2> QED  BY ONLY <1>15, <1>16, <2>1, FoldReaches
<1> DEFINE Folds(iter) ==
      iter = [ss \in SUBSET D |->
                IF ss = {} THEN B ELSE Scatter(iter[ss \ {Max(ss)}], q[Max(ss)])]
<1>18. Folds(h)
  <2>1. ASSUME NEW ss \in SUBSET D, ss # {}
        PROVE  F[<<c[ss], h[ss \ {c[ss]}]>>] = Scatter(h[ss \ {Max(ss)}], q[Max(ss)])
    <3>1. PICK i \in ss : i = c[ss] /\ i = Max(ss)
      BY <1>10, <1>13, <2>1
    <3>2. h[ss \ {i}] \in T
      BY <1>14, <1>17
    <3> QED  BY <1>12, <3>1, <3>2
  <2> QED  BY <1>17, <2>1 DEF Recursive
<1>19. PICK it : it = CHOOSE iter : Folds(iter)
  OBVIOUS
<1> HIDE DEF Folds
<1>20. Folds(it)
  BY <1>18, <1>19
<1> USE DEF Folds
<1>21. ScatterRowsBut(B, q, {}) = it[D]
  <2>1. \A b, i : (IF q[i] \in {} THEN b ELSE Scatter(b, q[i])) = Scatter(b, q[i])
    OBVIOUS
  <2>2. ScatterRowsBut(B, q, {}) =
          LET iter[ss \in SUBSET D] ==
                IF ss = {} THEN B
                ELSE IF q[Max(ss)] \in {} THEN iter[ss \ {Max(ss)}]
                ELSE Scatter(iter[ss \ {Max(ss)}], q[Max(ss)])
          IN  iter[D]
    BY <1>3, <1>4, Zenon DEF ScatterRowsBut, FoldLeft, MapThenFoldSet
  <2> QED  BY <1>19, <2>1, <2>2
<1>22. Inductive(it, D, J, c)
  <2>1. it[{}] \in J[{}]
    BY <1>16, <1>20
  <2>2. ASSUME NEW ss \in SUBSET D, ss # {}, it[ss \ {c[ss]}] \in J[ss \ {c[ss]}]
        PROVE  it[ss] \in J[ss]
    <3>1. it[ss] = Scatter(it[ss \ {Max(ss)}], q[Max(ss)])
      BY <1>20, <2>2
    <3>2. PICK i \in ss : i = c[ss] /\ i = Max(ss)
      BY <1>10, <1>13, <2>2
    <3> QED  BY <1>14, <2>2, <3>1, <3>2
  <2> QED  BY <2>1, <2>2 DEF Inductive
<1>23. \A ss \in SUBSET D : it[ss] \in J[ss]
  <2>1. IsFiniteSet(D)
    BY <1>3, <1>4
  <2> QED  BY ONLY <1>10, <1>22, <2>1, FoldInduction
<1>24. it[D] \in J[D]
  BY <1>23
<1>25. Seen(D) = R \cup S
  BY <1>3, <1>4
<1> QED  BY <1>8, <1>21, <1>24, <1>25

-----------------------------------------------------------------------------
(* What the tasks of a loop have done. *)

\* The elements of task i.
RangeOf(i) == {e \in 0 .. total - 1 : e \div grain = i}

\* The elements of a loop over n whose task has ended; all, when no loop runs.
Done(n) == {e \in 0 .. n - 1 : Active => e \div grain \notin OpenTasks}

\* A task is called with the elements of its range, in their order.
LEMMA TaskRangeLists ==
  ASSUME total \in Nat, grain \in Nat \ {0}, NEW i \in Nat
  PROVE  Lists(TaskRange(i), RangeOf(i))
<1>1. PICK s \in Nat : s = i * grain
  OBVIOUS
<1>2. PICK z \in Nat : z = Least(s + grain, total)
  BY DEF Least
<1>3. TaskRange(i) = [j \in 1 .. z - s |-> s + j - 1]
  BY <1>1, <1>2 DEF TaskRange, TaskEnd, TaskStart
<1>4. \A e \in 0 .. total - 1 : e \div grain = i <=> s <= e /\ e < s + grain
  BY <1>1, OneRange
<1>5. \A e : e \in RangeOf(i) <=> e \in s .. z - 1
  BY <1>2, <1>4 DEF RangeOf, Least
<1>6. PICK m \in Nat : 1 .. z - s = 1 .. m /\ (m = z - s \/ (m = 0 /\ z - s < 0))
  <2>1. CASE z - s >= 0
    BY <2>1
  <2>2. CASE z - s < 0
    <3>1. 1 .. z - s = 1 .. 0
      BY <2>2
    <3> QED  BY <2>2, <3>1
  <2> QED  BY <2>1, <2>2
<1>7. PICK q : q = [j \in 1 .. m |-> s + j - 1]
  OBVIOUS
<1>8. ASSUME NEW j \in 1 .. m PROVE q[j] = s + j - 1 /\ q[j] \in RangeOf(i)
  <2>1. s + j - 1 \in s .. z - 1
    BY <1>6
  <2> QED  BY <1>5, <1>7, <2>1
<1>9. q \in Seq(RangeOf(i)) /\ Len(q) = m
  BY <1>7, <1>8
<1>10. ASSUME NEW e \in RangeOf(i) PROVE \E j \in 1 .. m : q[j] = e
  <2>1. e \in s .. z - 1
    BY <1>5
  <2>2. PICK j \in 1 .. m : e = s + j - 1
    <3>1. e - s + 1 \in 1 .. m /\ e = s + (e - s + 1) - 1
      BY <1>6, <2>1
    <3> QED  BY <3>1
  <2> QED  BY <1>8, <2>2
<1>11. \A j, k \in 1 .. m : q[j] = q[k] => j = k
  BY <1>8
<1>12. Lists(q, RangeOf(i))
  BY <1>9, <1>10, <1>11 DEF Lists
<1> QED  BY <1>3, <1>6, <1>7, <1>12

\* A call of the task function gets the elements its sequence lists.
LEMMA ListedSet ==
  ASSUME NEW q, NEW S, Lists(q, S)
  PROVE  ToSet(q) = S
<1>1. PICK m \in Nat : /\ DOMAIN q = 1 .. m /\ S = {q[i] : i \in 1 .. m}
  BY ListIndices
<1> QED  BY <1>1 DEF ToSet

\* Outside a loop nothing is left.
LEMMA AllDone == ASSUME ~Active, NEW n PROVE Done(n) = 0 .. n - 1
  BY DEF Done

\* A loop that begins has done nothing.
LEMMA NothingDone ==
  ASSUME MapInv, MapInv', NEW k \in Nat \ {0}, PrepareRing(k), pc[Main] = "idle",
         NEW n \in Nat \ {0}, n <= nTasks' * grain'
  PROVE  ~Active /\ Done(n)' = {}
<1>1. ~Active /\ Active' /\ OpenTasks' = 0 .. nTasks' - 1 /\ nTasks' \in Nat \ {0}
  BY TasksOpen
<1>2. grain' \in Nat \ {0}
  BY DEF MapInv, PoolInv, TypeOK
<1>3. PICK g \in Nat \ {0}, m \in Nat \ {0} : g = grain' /\ m = nTasks'
  BY <1>1, <1>2
<1>4. ASSUME NEW e \in 0 .. n - 1 PROVE e \div g \in 0 .. m - 1
  <2>1. PICK d \in Nat : d = e \div g
    BY <1>4
  <2>2. d * g <= e
    BY <2>1, OneRange
  <2>3. n <= m * g
    BY <1>3
  <2>4. d < m
    <3> SUFFICES ASSUME d >= m PROVE FALSE
      OBVIOUS
    <3>1. PICK c \in Nat : d = m + c
      <4>1. d - m \in Nat /\ d = m + (d - m)
        OBVIOUS
      <4> QED  BY <4>1
    <3>2. PICK x \in Nat, y \in Nat : x = m * g /\ y = c * g
      OBVIOUS
    <3>3. d * g = x + y
      BY <3>1, <3>2
    <3> QED  BY <2>2, <2>3, <3>2, <3>3
  <2> QED  BY <2>1, <2>4
<1>5. \A e \in 0 .. n - 1 : e \div grain' \in OpenTasks'
  BY <1>1, <1>3, <1>4
<1> QED  BY <1>1, <1>5 DEF Done

\* A parallel loop over n elements begins.
LEMMA DispatchBegins ==
  ASSUME MapInv, MapInv', NEW n \in 1 .. MaxTotal, Dispatch(n)
  PROVE  ~Active /\ total' = n /\ Done(n)' = {}
<1>1. total' = n /\ total' <= nTasks' * grain'
  BY DispatchCovers DEF MapInv, PoolInv
<1>2. \E k \in Nat \ {0} : PrepareRing(k) /\ pc[Main] = "idle"
  BY CeilDivNat, PoolAssumption DEF Dispatch
<1>3. n \in Nat \ {0}
  BY PoolAssumption
<1> QED  BY <1>1, <1>2, <1>3, NothingDone

\* A loop of as many tasks as there are partitions begins; the ring holds them.
LEMMA DispatchNBegins ==
  ASSUME MapInv, MapInv', cap >= InitCap, DispatchN(RadixP)
  PROVE  ~Active /\ total' = RadixP /\ Done(RadixP)' = {}
<1>1. RadixP \in Nat \ {0} /\ RadixP <= InitCap /\ InitCap \in Nat
  BY GroupAssumption, PoolAssumption
<1>2. total' = RadixP /\ grain' = 1 /\ PrepareRing(RadixP) /\ pc[Main] = "idle"
      /\ GrowRing(RadixP)
  BY DEF DispatchN
<1>3. cap \in Nat /\ cap' \in Nat /\ cap' >= cap
  <2>1. cap \in Nat /\ cap' \in Nat
    BY PoolAssumption DEF MapInv, PoolInv, TypeOK
  <2> QED  BY <1>2, <2>1 DEF GrowRing
<1>4. nTasks' = RadixP
  BY <1>1, <1>2, <1>3 DEF PrepareRing, Least
<1>5. RadixP <= nTasks' * grain'
  BY <1>1, <1>2, <1>4
<1> QED  BY <1>1, <1>2, <1>5, NothingDone

\* The threads that end a task in this step.
Ended == {t \in Thread : pc[t] = "run" /\ pc'[t] # "run"}

\* Thread t ends a task of a loop.
EndsTask(t) ==
  /\ Ended = {t} /\ ring[idx[t] % cap] = idx[t] /\ idx[t] \in Nat
  /\ Active /\ Active' /\ total' = total /\ grain' = grain
  /\ idx[t] \in OpenTasks /\ OpenTasks' = OpenTasks \ {idx[t]}

\* Nothing of a loop is done.
Quiet ==
  /\ Ended = {} /\ (Active' => Active)
  /\ \A n : (Active => total = n) => Done(n)' = Done(n) /\ (Active' => total' = n)

\* The elements of the task are done, and were not before.
LEMMA TaskDone ==
  ASSUME NEW t, EndsTask(t), NEW n, total = n
  PROVE  /\ Done(n)' = Done(n) \cup RangeOf(idx[t]) /\ Done(n) \cap RangeOf(idx[t]) = {}
         /\ total' = n
  BY DEF EndsTask, Done, RangeOf

\* The steps that neither start nor end a task or a loop.
LEMMA StillQuiet ==
  ASSUME MapInv, MapInv', UNCHANGED <<Active, Unfinished, total, grain>>,
         NEW t \in Thread, pc[t] # "run", \A u \in Thread : u # t => pc'[u] = pc[u]
  PROVE  Quiet
<1>1. OpenTasks' = OpenTasks
  BY DEF MapInv
<1>2. Ended = {}
  BY DEF Ended
<1> QED  BY <1>1, <1>2 DEF Quiet, Done

\* A step of the claim loop.
LEMMA ClaimLoopEnds ==
  ASSUME MapInv, MapInv', NEW t \in Thread, pc[t] # "skip", ClaimLoop(t)
  PROVE  Quiet \/ EndsTask(t)
<1>1. UNCHANGED <<total, grain>> /\ \A u \in Thread : u # t => pc'[u] = pc[u]
  BY DEF ClaimLoop, Claim, CheckBounds, CheckCancelled, Settle, Goto, locals, MapInv,
         PoolInv, TypeOK
<1>2. CASE Claim(t) \/ CheckBounds(t)
  <2>1. pc[t] # "run"
    BY <1>2 DEF Claim, CheckBounds
  <2>2. UNCHANGED <<Active, Unfinished>>
    BY <1>2, ClaimStutters
  <2> QED  BY <1>1, <2>1, <2>2, StillQuiet
<1>3. CASE CheckCancelled(t)
  <2>1. pc[t] # "run"
    BY <1>3 DEF CheckCancelled
  <2>2. UNCHANGED <<Active, Unfinished>>
    BY <1>3, CheckStutters DEF MapInv
  <2> QED  BY <1>1, <2>1, <2>2, StillQuiet
<1>4. CASE Settle(t)
  <2>1. pc[t] = "run"
    BY <1>4 DEF Settle
  <2>2. ring[idx[t] % cap] = idx[t] /\ idx[t] \in Nat
    <3>1. ring[idx[t] % cap] = idx[t]
      BY <2>1, OwnSlot DEF MapInv, Holding
    <3> QED  BY <3>1 DEF MapInv, PoolInv, TypeOK
  <2>3. /\ idx[t] \in OpenTasks /\ OpenTasks' = OpenTasks \ {idx[t]}
        /\ Active /\ Active' /\ pc'[t] = "claim"
    BY <1>4, SettleCloses DEF MapInv
  <2>4. Ended = {t}
    BY <1>1, <2>1, <2>3 DEF Ended
  <2> QED  BY <1>1, <2>2, <2>3, <2>4 DEF EndsTask
<1> QED  BY <1>2, <1>3, <1>4 DEF ClaimLoop

\* A step of the main thread inside the pool.
LEMMA MainEnds ==
  ASSUME MapInv, MapInv', pc[Main] # "skip", MainStep
  PROVE  Quiet \/ EndsTask(Main)
<1>0. Main \in Thread
  BY DEF Thread
<1>1. CASE \/ StoreCount \/ StoreTail \/ StorePending \/ RaiseFlags
           \/ WakeWorkers \/ SpinExit \/ SignalShutdown \/ JoinAll
  <2>1. UNCHANGED <<total, grain>> /\ pc[Main] # "run"
    BY <1>1 DEF StoreCount, StoreTail, StorePending, RaiseFlags, WakeWorkers, SpinExit,
           SignalShutdown, JoinAll, Signal, locals
  <2>2. \A u \in Thread : u # Main => pc'[u] = pc[u]
    BY <1>1 DEF StoreCount, StoreTail, StorePending, RaiseFlags, WakeWorkers, SpinExit,
           SignalShutdown, JoinAll, Signal, Goto, MapInv, PoolInv, TypeOK
  <2>3. UNCHANGED <<Active, Unfinished>>
    BY <1>1, ProducerStutters
  <2> QED  BY <1>0, <2>1, <2>2, <2>3, StillQuiet
<1>2. CASE ClaimLoop(Main)
  BY <1>0, <1>2, ClaimLoopEnds
<1>3. CASE LowerFlags
  <2>1. pc[Main] = "unflag" /\ pc' = [pc EXCEPT ![Main] = "idle"]
    BY <1>3 DEF LowerFlags, Goto
  <2>2. pc'[Main] = "idle" /\ \A u \in Thread : u # Main => pc'[u] = pc[u]
    BY <2>1 DEF MapInv, PoolInv, TypeOK, Thread
  <2>3. Active /\ ~Active' /\ OpenTasks = {}
    BY <2>1, <2>2 DEF Active, Outside, MapInv, PoolInv, CountInv
  <2>4. Ended = {}
    BY <2>1, <2>2 DEF Ended
  <2> QED  BY <2>3, <2>4 DEF Quiet, Done
<1> QED  BY <1>1, <1>2, <1>3 DEF MainStep

\* A step of a worker.
LEMMA WorkerEnds ==
  ASSUME MapInv, MapInv', NEW w \in Worker, pc[w] # "skip", WorkerStep(w)
  PROVE  Quiet \/ EndsTask(w)
<1>0. w \in Thread /\ w # Main
  BY PoolAssumption DEF Thread
<1>1. CASE SemWait(w) \/ CheckShutdown(w)
  <2>1. UNCHANGED <<total, grain>> /\ pc[w] # "run"
    BY <1>1 DEF SemWait, CheckShutdown, locals
  <2>2. \A u \in Thread : u # w => pc'[u] = pc[u]
    BY <1>1 DEF SemWait, CheckShutdown, Goto, MapInv, PoolInv, TypeOK
  <2>3. UNCHANGED <<Active, Unfinished>>
    BY <1>1, WorkerStutters
  <2> QED  BY <1>0, <2>1, <2>2, <2>3, StillQuiet
<1>2. CASE ClaimLoop(w)
  BY <1>0, <1>2, ClaimLoopEnds
<1> QED  BY <1>1, <1>2 DEF WorkerStep

-----------------------------------------------------------------------------
(* The state of the operator. *)

\* The sets of part, one for each thread, split S.
Split(part, S) ==
  part \in [Thread -> SUBSET S] /\ Apart(part) /\ Together(part, Thread) = S

\* One thread gets more.
LEMMA SplitGrows ==
  ASSUME NEW part, NEW S, Split(part, S), NEW t \in Thread, NEW X, S \cap X = {}
  PROVE  Split([part EXCEPT ![t] = part[t] \cup X], S \cup X)
<1>1. PICK q : q = [part EXCEPT ![t] = part[t] \cup X]
  OBVIOUS
<1>2. part \in [Thread -> SUBSET S] /\ Apart(part) /\ UNION {part[u] : u \in Thread} = S
  BY DEF Split, Together
<1>3. q[t] = part[t] \cup X /\ \A u \in Thread : u # t => q[u] = part[u]
  BY <1>1, <1>2
<1>4. q \in [Thread -> SUBSET (S \cup X)]
  BY <1>1, <1>2
<1>5. Apart(q)
  <2> SUFFICES ASSUME NEW u \in Thread, NEW v \in Thread, u # v PROVE q[u] \cap q[v] = {}
    BY DEF Apart
  <2>1. part[u] \cap part[v] = {} /\ part[u] \cap X = {} /\ part[v] \cap X = {}
    BY <1>2 DEF Apart
  <2> QED  BY <1>3, <2>1
<1>6. UNION {q[u] : u \in Thread} = S \cup X
  BY <1>2, <1>3
<1> QED  BY <1>1, <1>4, <1>5, <1>6 DEF Split, Together

\* Nothing is split into nothing.
LEMMA SplitNothing == Split([t \in Thread |-> {}], {})
<1>1. PICK q : q = [t \in Thread |-> {}]
  OBVIOUS
<1>2. q \in [Thread -> SUBSET {}] /\ \A t \in Thread : q[t] = {}
  BY <1>1
<1> QED  BY <1>1, <1>2 DEF Split, Apart, Together

\* The rows of a group are split as all rows are.
LEMMA SplitGroup ==
  ASSUME NEW n, NEW R, Split(R, 0 .. n - 1), NEW g
  PROVE  Split([t \in Thread |-> RowsOf(R[t], g)], RowsOf(0 .. n - 1, g))
<1>1. PICK q : q = [t \in Thread |-> RowsOf(R[t], g)]
  OBVIOUS
<1>2. /\ R \in [Thread -> SUBSET (0 .. n - 1)] /\ Apart(R)
      /\ UNION {R[u] : u \in Thread} = 0 .. n - 1
  BY DEF Split, Together
<1>3. \A t \in Thread : q[t] = {r \in R[t] : keys[r] = g}
  BY <1>1 DEF RowsOf
<1>4. q \in [Thread -> SUBSET RowsOf(0 .. n - 1, g)]
  BY <1>1, <1>2, <1>3 DEF RowsOf
<1>5. Apart(q)
  BY <1>2, <1>3 DEF Apart
<1>6. UNION {q[u] : u \in Thread} = RowsOf(0 .. n - 1, g)
  BY <1>2, <1>3 DEF RowsOf
<1> QED  BY <1>1, <1>4, <1>5, <1>6 DEF Split, Together

\* ... and those of a partition.
LEMMA SplitPartition ==
  ASSUME NEW n, NEW R, Split(R, 0 .. n - 1), NEW p
  PROVE  Split([t \in Thread |-> PartOf(R[t], p)], PartOf(0 .. n - 1, p))
<1>1. PICK q : q = [t \in Thread |-> PartOf(R[t], p)]
  OBVIOUS
<1>2. /\ R \in [Thread -> SUBSET (0 .. n - 1)] /\ Apart(R)
      /\ UNION {R[u] : u \in Thread} = 0 .. n - 1
  BY DEF Split, Together
<1>3. \A t \in Thread : q[t] = {r \in R[t] : PartitionOf(keys[r]) = p}
  BY <1>1 DEF PartOf
<1>4. q \in [Thread -> SUBSET PartOf(0 .. n - 1, p)]
  BY <1>1, <1>2, <1>3 DEF PartOf
<1>5. Apart(q)
  BY <1>2, <1>3 DEF Apart
<1>6. UNION {q[u] : u \in Thread} = PartOf(0 .. n - 1, p)
  BY <1>2, <1>3 DEF PartOf
<1> QED  BY <1>1, <1>4, <1>5, <1>6 DEF Split, Together

\* The query is not cancelled, and the ring never shrinks.
Calm == cancelled = FALSE /\ (\A t \in Thread : pc[t] # "skip") /\ cap >= InitCap

GroupType ==
  /\ phase \in {"none", "scan", "merge", "partitions", "done", "failed"}
  /\ path \in {"direct", "radix"}
  /\ accs \in [Thread -> [Group -> Acc]]
  /\ short \in BOOLEAN
  /\ ~short => bufs \in [Thread -> [Partition -> Seq(Nat)]]
  /\ out \in [Group -> Acc]

\* Each thread has seen its rows, or a buffer is short.
HaveSeen(A, b, R) ==
  \A t \in Thread :
    IF path = "direct" THEN Covers(A[t], R[t]) ELSE ~short => Scattered(b[t], R[t])

\* The rows of the tasks that ended are split between the threads.
ScanState(n, R) ==
  /\ Loaded(n) /\ (Active => total = n) /\ Split(R, Done(n))
  /\ HaveSeen(accs, bufs, R) /\ lost = {}

\* What accumulator g of thread t holds once the groups in D are merged.
MergedRows(n, R, D, t, g) ==
  IF t = Main /\ g \in D THEN RowsOf(0 .. n - 1, g) ELSE RowsOf(R[t], g)

HaveMerged(A, n, R, D) ==
  \A t \in Thread, g \in Group : Exact(vals, A[t][g], MergedRows(n, R, D, t, g))

\* The groups of the tasks that ended are merged.
MergeState(n, R) ==
  /\ Loaded(n) /\ (Active => total = NGroups) /\ Split(R, 0 .. n - 1)
  /\ HaveMerged(accs, n, R, Done(NGroups)) /\ lost = {}

\* The rows L are dropped.
HaveAggregated(o, n, D, L) ==
  \A g \in Group : PartitionOf(g) \in D => Exact(vals, o[g], RowsOf(0 .. n - 1, g) \ L)

\* The rows of the partitions D.
Reached(n, D) == {r \in 0 .. n - 1 : PartitionOf(keys[r]) \in D}

\* The partitions of the tasks that ended are aggregated, but for rows they lost.
PartitionState(n, R) ==
  /\ Loaded(n) /\ (Active => total = RadixP) /\ Split(R, 0 .. n - 1)
  /\ path = "radix" /\ ~short
  /\ \A t \in Thread : Scattered(bufs[t], R[t])
  /\ lost \subseteq Reached(n, Done(RadixP))
  /\ HaveAggregated(out, n, Done(RadixP), lost)

\* The result is that of all rows, but those that tables of partitions lost.
DoneState(n) ==
  /\ Loaded(n) /\ lost \subseteq 0 .. n - 1 /\ Covers(out, (0 .. n - 1) \ lost)
  /\ lost # {} => path = "radix" /\ ~short

PhaseInv ==
  /\ phase \in {"none", "done", "failed"} => ~Active
  /\ phase = "scan" => \E n, R : ScanState(n, R)
  /\ phase = "merge" => \E n, R : MergeState(n, R)
  /\ phase = "partitions" => \E n, R : PartitionState(n, R)
  /\ phase = "done" => \E n : DoneState(n)

\* What the accumulators and buffers hold, while the pool works and in between.
GroupInv == PoolInv /\ Calm /\ GroupType /\ PhaseInv

\* The table is not written while the operator works.
LEMMA TableKept ==
  ASSUME UNCHANGED <<keys, vals>>, NEW G, NEW R, NEW n, NEW D, NEW L
  PROVE  /\ Loaded(n) => Loaded(n)'
         /\ Covers(G, R) => Covers(G, R)'
         /\ Scattered(G, R) => Scattered(G, R)'
         /\ HaveMerged(G, n, R, D) => HaveMerged(G, n, R, D)'
         /\ HaveAggregated(G, n, D, L) => HaveAggregated(G, n, D, L)'
         /\ Reached(n, D) = Reached(n, D)'
<1>1. \A S, g : RowsOf(S, g)' = RowsOf(S, g) /\ PartOf(S, g)' = PartOf(S, g)
  BY DEF RowsOf, PartOf
<1>2. Loaded(n) => Loaded(n)'
  BY DEF Loaded
<1>3. Covers(G, R) => Covers(G, R)'
  BY <1>1 DEF Covers
<1>4. Scattered(G, R) => Scattered(G, R)'
  BY <1>1 DEF Scattered
<1>5. HaveMerged(G, n, R, D) => HaveMerged(G, n, R, D)'
  BY <1>1 DEF HaveMerged, MergedRows
<1>6. HaveAggregated(G, n, D, L) => HaveAggregated(G, n, D, L)'
  BY <1>1 DEF HaveAggregated
<1>7. Reached(n, D) = Reached(n, D)'
  BY DEF Reached
<1> QED  BY <1>2, <1>3, <1>4, <1>5, <1>6, <1>7

-----------------------------------------------------------------------------
(* The tasks. *)

\* What the operator's state says of a task that ends.
LEMMA TaskOf ==
  ASSUME MapInv, NEW t, EndsTask(t), NEW n, total = n
  PROVE  \E q, X :
           /\ q = TaskRange(ring[idx[t] % cap]) /\ Lists(q, X) /\ ToSet(q) = X
           /\ X \subseteq 0 .. n - 1 /\ Done(n) \cap X = {}
           /\ Done(n)' = Done(n) \cup X /\ (Active' => total' = n)
<1>1. total \in Nat /\ grain \in Nat \ {0} /\ idx[t] \in Nat
  BY DEF MapInv, PoolInv, TypeOK, EndsTask
<1>2. PICK i \in Nat : i = idx[t] /\ ring[idx[t] % cap] = i
  BY <1>1 DEF EndsTask
<1>3. Lists(TaskRange(i), RangeOf(i))
  BY <1>1, TaskRangeLists
<1>4. ToSet(TaskRange(i)) = RangeOf(i)
  BY <1>3, ListedSet
<1>5. RangeOf(i) \subseteq 0 .. n - 1
  BY DEF RangeOf
<1>6. Done(n)' = Done(n) \cup RangeOf(i) /\ Done(n) \cap RangeOf(i) = {} /\ total' = n
  BY <1>2, TaskDone
<1> QED  BY <1>2, <1>3, <1>4, <1>5, <1>6

\* A task of the first loop: the thread has seen the rows of its range too.
LEMMA ScanStep ==
  ASSUME MapInv, GroupType, NEW n, NEW R, ScanState(n, R), NEW t \in Thread, EndsTask(t),
         ScanTask(t, TaskRange(ring[idx[t] % cap])), UNCHANGED <<path, keys, vals>>
  PROVE  \E S : ScanState(n, S)'
<1>1. Active /\ total = n
  BY DEF EndsTask, ScanState
<1>2. PICK q, X :
           /\ q = TaskRange(ring[idx[t] % cap]) /\ Lists(q, X) /\ ToSet(q) = X
           /\ X \subseteq 0 .. n - 1 /\ Done(n) \cap X = {}
           /\ Done(n)' = Done(n) \cup X /\ (Active' => total' = n)
  BY <1>1, TaskOf
<1>3. PICK D : D = Done(n)
  OBVIOUS
<1>4. Split(R, D) /\ D \subseteq 0 .. n - 1
  BY <1>3 DEF ScanState, Done
<1>5. PICK S : S = [R EXCEPT ![t] = R[t] \cup X]
  OBVIOUS
<1>6. Split(S, D \cup X)
  BY <1>2, <1>3, <1>4, <1>5, SplitGrows
<1>7. R \in [Thread -> SUBSET D]
  BY <1>4 DEF Split
<1>8. S[t] = R[t] \cup X /\ \A u \in Thread : u # t => S[u] = R[u]
  BY <1>5, <1>7
<1>9. R[t] \in SUBSET (0 .. n - 1) /\ X \in SUBSET (0 .. n - 1) /\ R[t] \cap X = {}
  BY <1>2, <1>3, <1>4, <1>7
<1>10. Loaded(n) /\ HaveSeen(accs, bufs, R) /\ lost = {} /\ lost' = {}
  BY DEF ScanState, ScanTask
<1>11. PICK A, b : A = accs' /\ b = bufs'
  OBVIOUS
<1>12. ASSUME path = "direct" PROVE HaveSeen(A, b, S)'
  <2>1. PICK B : B = accs[t]
    OBVIOUS
  <2>2. Covers(B, R[t])
    BY <1>10, <1>12, <2>1 DEF HaveSeen
  <2>3. Covers(AddRows(B, q), S[t])
    <3>1. Covers(AddRowsBut(B, q, {}), R[t] \cup (X \ {}))
      BY ONLY <1>2, <1>9, <1>10, <2>2, AddRowsCovers
    <3>2. R[t] \cup (X \ {}) = S[t]
      BY <1>8
    <3> QED  BY <3>1, <3>2 DEF AddRows
  <2>4. A = [accs EXCEPT ![t] = AddRows(B, q)] /\ accs \in [Thread -> [Group -> Acc]]
    BY <1>2, <1>11, <1>12, <2>1 DEF ScanTask, GroupType
  <2>5. A[t] = AddRows(B, q) /\ \A u \in Thread : u # t => A[u] = accs[u]
    BY <2>4
  <2>6. \A u \in Thread : Covers(A[u], S[u])
    BY <1>8, <1>10, <1>12, <2>3, <2>5 DEF HaveSeen
  <2>7. \A u \in Thread : Covers(A[u], S[u])'
    BY <2>6, TableKept
  <2> QED  BY <1>12, <2>7 DEF HaveSeen
<1>13. ASSUME path # "direct" PROVE HaveSeen(A, b, S)'
  <2> SUFFICES ASSUME ~short' PROVE HaveSeen(A, b, S)'
    BY <1>13 DEF HaveSeen
  <2>1. PICK B : B = bufs[t]
    OBVIOUS
  <2>2. ~short /\ b = [bufs EXCEPT ![t] = ScatterRowsBut(B, q, {})]
    BY <1>2, <1>11, <1>13, <2>1 DEF ScanTask
  <2>3. Scattered(B, R[t])
    BY <1>10, <1>13, <2>1, <2>2 DEF HaveSeen
  <2>4. Scattered(ScatterRowsBut(B, q, {}), S[t])
    <3>1. Scattered(ScatterRowsBut(B, q, {}), R[t] \cup X)
      BY ONLY <1>2, <1>9, <1>10, <2>3, ScatterRows
    <3> QED  BY <1>8, <3>1
  <2>5. bufs \in [Thread -> [Partition -> Seq(Nat)]]
    BY <2>2 DEF GroupType
  <2>6. b[t] = ScatterRowsBut(B, q, {}) /\ \A u \in Thread : u # t => b[u] = bufs[u]
    BY <2>2, <2>5
  <2>7. \A u \in Thread : Scattered(b[u], S[u])
    BY <1>8, <1>10, <1>13, <2>2, <2>4, <2>6 DEF HaveSeen
  <2>8. \A u \in Thread : Scattered(b[u], S[u])'
    BY <2>7, TableKept
  <2> QED  BY <1>13, <2>8 DEF HaveSeen
<1>14. HaveSeen(A, b, S)'
  BY <1>12, <1>13
<1>15. Split(S, Done(n)')
  BY <1>2, <1>3, <1>6
<1>16. Loaded(n)'
  BY <1>10, TableKept
<1> QED  BY <1>2, <1>10, <1>11, <1>14, <1>15, <1>16 DEF ScanState

\* Accumulators of a group, merged.
LEMMA MergedGroup ==
  ASSUME NEW n, Loaded(n), NEW R, Split(R, 0 .. n - 1), NEW g,
         \A t \in Thread : Exact(vals, accs[t][g], RowsOf(R[t], g))
  PROVE  Exact(vals, Merged(g), RowsOf(0 .. n - 1, g))
<1>1. PICK C : C = RowsOf(0 .. n - 1, g)
  OBVIOUS
<1>2. Column(vals, C)
  BY <1>1, RowsColumn
<1>3. PICK part : part = [t \in Thread |-> RowsOf(R[t], g)]
  OBVIOUS
<1>4. Split(part, C)
  BY <1>1, <1>3, SplitGroup
<1>5. part \in [Thread -> SUBSET C] /\ Apart(part) /\ Together(part, Thread) = C
  BY <1>4 DEF Split
<1>6. \A t \in Thread : Exact(vals, accs[t][g], part[t])
  BY <1>3
<1>7. Exact(vals, Merged(g), Together(part, Thread))
  BY ONLY <1>2, <1>5, <1>6, MergedExact
<1> QED  BY <1>1, <1>5, <1>7

\* A task of the merge: the groups of its range are merged, and stay so.
LEMMA MergeStep ==
  ASSUME MapInv, GroupType, NEW n, NEW R, MergeState(n, R), NEW t \in Thread, EndsTask(t),
         MergeTask(TaskRange(ring[idx[t] % cap])), UNCHANGED <<keys, vals>>
  PROVE  MergeState(n, R)'
<1>0. Main \in Thread
  BY DEF Thread
<1>1. Active /\ total = NGroups
  BY DEF EndsTask, MergeState
<1>2. PICK q, X :
           /\ q = TaskRange(ring[idx[t] % cap]) /\ Lists(q, X) /\ ToSet(q) = X
           /\ X \subseteq 0 .. NGroups - 1 /\ Done(NGroups) \cap X = {}
           /\ Done(NGroups)' = Done(NGroups) \cup X /\ (Active' => total' = NGroups)
  BY <1>1, TaskOf
<1>3. PICK D : D = Done(NGroups)
  OBVIOUS
<1>4. Loaded(n) /\ Split(R, 0 .. n - 1) /\ HaveMerged(accs, n, R, D) /\ lost' = {}
  BY <1>3 DEF MergeState, MergeTask
<1>5. PICK A : A = accs'
  OBVIOUS
<1>6. /\ A = [accs EXCEPT ![Main] = [g \in Group |-> IF g \in X THEN Merged(g) ELSE accs[Main][g]]]
      /\ accs \in [Thread -> [Group -> Acc]]
  BY <1>2, <1>5 DEF MergeTask, GroupType
<1>7. /\ \A g \in Group : A[Main][g] = IF g \in X THEN Merged(g) ELSE accs[Main][g]
      /\ \A u \in Thread : u # Main => A[u] = accs[u]
  BY <1>0, <1>6
<1>8. ASSUME NEW u \in Thread, NEW g \in Group
      PROVE  Exact(vals, A[u][g], MergedRows(n, R, D \cup X, u, g))
  <2>1. Exact(vals, accs[u][g], MergedRows(n, R, D, u, g))
    BY <1>4 DEF HaveMerged
  <2>2. CASE u = Main /\ g \in X
    <3>1. \A v \in Thread : Exact(vals, accs[v][g], RowsOf(R[v], g))
      BY <1>2, <1>3, <1>4, <2>2 DEF HaveMerged, MergedRows
    <3>2. Exact(vals, Merged(g), RowsOf(0 .. n - 1, g))
      BY <1>4, <3>1, MergedGroup
    <3> QED  BY <1>7, <2>2, <3>2 DEF MergedRows
  <2>3. CASE ~(u = Main /\ g \in X)
    <3>1. A[u][g] = accs[u][g]
      BY <1>7, <2>3
    <3>2. MergedRows(n, R, D \cup X, u, g) = MergedRows(n, R, D, u, g)
      BY <2>3 DEF MergedRows
    <3> QED  BY <2>1, <3>1, <3>2
  <2> QED  BY <2>2, <2>3
<1>9. HaveMerged(A, n, R, D \cup X)
  BY <1>8 DEF HaveMerged
<1>10. HaveMerged(A, n, R, D \cup X)' /\ Loaded(n)'
  BY <1>4, <1>9, TableKept
<1> QED  BY <1>2, <1>3, <1>4, <1>5, <1>10 DEF MergeState

\* A task of the second loop of the partitioned path.
LEMMA PartitionStep ==
  ASSUME MapInv, GroupType, NEW n, NEW R, PartitionState(n, R), NEW t \in Thread, EndsTask(t),
         PartitionTask(TaskRange(ring[idx[t] % cap])), UNCHANGED <<path, keys, vals>>
  PROVE  PartitionState(n, R)'
<1>1. Active /\ total = RadixP
  BY DEF EndsTask, PartitionState
<1>2. PICK q, X :
           /\ q = TaskRange(ring[idx[t] % cap]) /\ Lists(q, X) /\ ToSet(q) = X
           /\ X \subseteq 0 .. RadixP - 1 /\ Done(RadixP) \cap X = {}
           /\ Done(RadixP)' = Done(RadixP) \cup X /\ (Active' => total' = RadixP)
  BY <1>1, TaskOf
<1>3. PICK D : D = Done(RadixP)
  OBVIOUS
<1>4. /\ Loaded(n) /\ Split(R, 0 .. n - 1) /\ HaveAggregated(out, n, D, lost)
      /\ path = "radix" /\ ~short /\ lost \subseteq Reached(n, D)
      /\ \A u \in Thread : Scattered(bufs[u], R[u])
  BY <1>3 DEF PartitionState
<1>5. PICK o, L : o = out' /\ L = lost'
  OBVIOUS
<1>6. PICK drop \in SUBSET Reached(n, X) :
        /\ L = lost \cup drop
        /\ \A g \in Group :
             o[g] = IF PartitionOf(g) \in X THEN Aggregated(PartitionOf(g), drop)[g] ELSE out[g]
  <2>1. PICK drop \in SUBSET UNION {RowsIn(p) : p \in X} :
          /\ L = lost \cup drop
          /\ out' = LET table == [p \in X |-> Aggregated(p, drop)]
                    IN  [g \in Group |-> IF PartitionOf(g) \in X
                                            THEN table[PartitionOf(g)][g] ELSE out[g]]
    BY <1>2, <1>5 DEF PartitionTask
  <2>2. PICK table : table = [p \in X |-> Aggregated(p, drop)]
    OBVIOUS
  <2>3. o = [g \in Group |-> IF PartitionOf(g) \in X THEN table[PartitionOf(g)][g] ELSE out[g]]
    BY <1>5, <2>1, <2>2
  <2>4. \A g \in Group :
          o[g] = IF PartitionOf(g) \in X THEN Aggregated(PartitionOf(g), drop)[g] ELSE out[g]
    BY <2>2, <2>3
  <2>5. DOMAIN keys = 0 .. n - 1
    BY <1>4 DEF Loaded
  <2>6. drop \in SUBSET Reached(n, X)
    BY <2>1, <2>5 DEF RowsIn, Reached, AllRows
  <2> QED  BY <2>1, <2>4, <2>6
<1>7. ASSUME NEW g \in Group, PartitionOf(g) \in X
      PROVE  Exact(vals, o[g], RowsOf(0 .. n - 1, g) \ L)
  <2>1. PICK p \in Partition : p = PartitionOf(g)
    BY PartitionRange
  <2>2. PICK part : part = [u \in Thread |-> PartOf(R[u], p)]
    OBVIOUS
  <2>3. PICK C : C = PartOf(0 .. n - 1, p)
    OBVIOUS
  <2>4. Split(part, C) /\ C \subseteq 0 .. n - 1
    <3>1. Split(R, 0 .. n - 1)
      BY <1>4
    <3>2. Split([u \in Thread |-> PartOf(R[u], p)], PartOf(0 .. n - 1, p))
      BY ONLY <3>1, SplitPartition
    <3>3. PartOf(0 .. n - 1, p) \subseteq 0 .. n - 1
      BY DEF PartOf
    <3> QED  BY <2>2, <2>3, <3>2, <3>3
  <2>5. part \in [Thread -> SUBSET (0 .. n - 1)] /\ Apart(part) /\ Together(part, Thread) = C
    BY <2>4 DEF Split
  <2>6. \A u \in Thread : Lists(bufs[u][p], part[u])
    BY <1>4, <2>2 DEF Scattered
  <2>7. Covers(Aggregated(p, drop), Together(part, Thread) \ drop)
    BY ONLY <1>4, <2>5, <2>6, AggregatedCovers
  <2>8. Exact(vals, Aggregated(p, drop)[g], RowsOf(C \ drop, g))
    BY <2>5, <2>7 DEF Covers
  <2>9. RowsOf(C \ drop, g) = RowsOf(0 .. n - 1, g) \ L
    <3>1. \A r \in RowsOf(0 .. n - 1, g) : r \notin lost
      BY <1>2, <1>3, <1>4, <1>7 DEF RowsOf, Reached
    <3> QED  BY <1>6, <2>1, <2>3, <3>1 DEF RowsOf, PartOf
  <2> QED  BY <1>6, <1>7, <2>1, <2>8, <2>9
<1>8. HaveAggregated(o, n, D \cup X, L)
  <2> SUFFICES ASSUME NEW g \in Group, PartitionOf(g) \in D \cup X
               PROVE  Exact(vals, o[g], RowsOf(0 .. n - 1, g) \ L)
    BY DEF HaveAggregated
  <2>1. CASE PartitionOf(g) \in X
    BY <1>7, <2>1
  <2>2. CASE PartitionOf(g) \notin X
    <3>1. Exact(vals, o[g], RowsOf(0 .. n - 1, g) \ lost)
      BY <1>4, <1>6, <2>2 DEF HaveAggregated
    <3>2. RowsOf(0 .. n - 1, g) \ lost = RowsOf(0 .. n - 1, g) \ L
      BY <1>6, <2>2 DEF RowsOf, Reached
    <3> QED  BY <3>1, <3>2
  <2> QED  BY <2>1, <2>2
<1>9. HaveAggregated(o, n, D \cup X, L)' /\ Loaded(n)' /\ L \subseteq Reached(n, D \cup X)'
  <2>1. L \subseteq Reached(n, D \cup X)
    BY <1>4, <1>6 DEF Reached
  <2> QED  BY <1>4, <1>8, <2>1, TableKept
<1>10. \A u \in Thread : Scattered(bufs[u], R[u])'
  <2>1. PICK b : b = bufs
    OBVIOUS
  <2>2. b = bufs'
    BY <2>1 DEF PartitionTask
  <2>3. \A u \in Thread : Scattered(b[u], R[u])'
    BY <1>4, <2>1, TableKept
  <2> QED  BY <2>2, <2>3
<1>11. UNCHANGED <<path, short>>
  BY DEF PartitionTask
<1> QED  BY <1>2, <1>3, <1>4, <1>5, <1>9, <1>10, <1>11 DEF PartitionState

-----------------------------------------------------------------------------
(* The steps of the operator. *)

\* A query's steps are steps of the pool or leave it alone.
LEMMA GroupStepsPool ==
  ASSUME [GroupNext]_allvars
  PROVE  [SerialNext]_vars
<1>1. NGroups \in 1 .. MaxTotal /\ RadixP \in 1 .. MaxTotal
  BY GroupAssumption, PoolAssumption
<1>2. BeginGroup \/ MergeThere => SerialNext
  BY <1>1 DEF BeginGroup, MergeThere, SerialNext, Caller
<1>3. AggregatePartitions => SerialNext
  BY <1>1 DEF AggregatePartitions, SerialNext, Caller
<1>4. FreePool \/ PoolStep \/ Terminated => SerialNext
  BY DEF FreePool, PoolStep, SerialNext, Caller
<1>5. MergeHere \/ MergeDone \/ PartitionsDone \/ SequentialPass => UNCHANGED vars
  BY DEF MergeHere, MergeDone, PartitionsDone, SequentialPass
<1>6. UNCHANGED allvars => UNCHANGED vars
  BY DEF allvars
<1> QED  BY <1>2, <1>3, <1>4, <1>5, <1>6 DEF GroupNext

\* Nothing of the query cancels it, so no task is skipped.
LEMMA StaysCalm ==
  ASSUME TypeOK, Calm, [GroupNext]_allvars
  PROVE  Calm'
<1>1. pc \in [Thread -> MainPoints \cup WorkerPoints] /\ Main \in Thread /\ Worker \subseteq Thread
  BY DEF TypeOK, Thread
<1>2. ASSUME NEW n, Dispatch(n) \/ DispatchN(n) PROVE Calm'
  <2>1. cap \in Nat /\ cap' \in Nat /\ InitCap \in Nat /\ cap' >= cap
    <3>1. \E k : GrowRing(k)
      BY <1>2 DEF Dispatch, DispatchN
    <3>2. cap \in Nat /\ cap' \in Nat /\ InitCap \in Nat
      BY SMTT(30), <3>1, GrowRange, PoolAssumption DEF TypeOK
    <3> QED  BY <3>1, <3>2 DEF GrowRing
  <2>2. cancelled' = cancelled /\ pc' = [pc EXCEPT ![Main] = "count"]
    BY <1>2 DEF Dispatch, DispatchN, PrepareRing, Goto
  <2>3. \A t \in Thread : pc'[t] # "skip"
    BY <1>1, <2>2 DEF Calm
  <2>4. cap' >= InitCap
    BY <2>1 DEF Calm
  <2> QED  BY <2>2, <2>3, <2>4 DEF Calm
<1>3. ASSUME UNCHANGED <<cancelled, cap>>,
             NEW t \in Thread, NEW p, p # "skip", pc' = [pc EXCEPT ![t] = p]
      PROVE  Calm'
  BY <1>1, <1>3 DEF Calm
<1>4. ASSUME UNCHANGED <<cancelled, cap, pc>> PROVE Calm'
  BY <1>4 DEF Calm
<1>5. ASSUME NEW t \in Thread, ClaimLoop(t) PROVE Calm'
  <2>1. UNCHANGED <<cancelled, cap>>
    BY <1>5 DEF ClaimLoop, Claim, CheckBounds, CheckCancelled, Settle, shared
  <2>2. PICK p \in {"bounds", "spin", "wait", "check", "run", "claim"} : pc' = [pc EXCEPT ![t] = p]
    BY <1>5 DEF ClaimLoop, Claim, CheckBounds, Drained, CheckCancelled, Settle, Goto, Calm
  <2> QED  BY <1>3, <2>1, <2>2
<1>6. CASE SerialMain
  <2>1. CASE ClaimLoop(Main)
    BY <1>1, <1>5, <2>1
  <2>2. CASE ~ClaimLoop(Main)
    <3>1. UNCHANGED <<cancelled, cap>>
      BY <1>6, <2>2 DEF SerialMain, MainStep, StoreCount, StoreTail, StorePending, RaiseFlags,
             WakeWorkers, SpinExit, LowerFlags, SignalShutdown, JoinAll, Signal, shared
    <3>2. \/ pc' = pc
          \/ \E p \in MainPoints \ {"skip"} : pc' = [pc EXCEPT ![Main] = p]
      BY <1>6, <2>2 DEF SerialMain, MainStep, StoreCount, StoreTail, StorePending, RaiseFlags,
             WakeWorkers, SpinExit, LowerFlags, SignalShutdown, JoinAll, Signal, Goto, MainPoints
    <3> QED  BY <1>1, <1>3, <1>4, <3>1, <3>2
  <2> QED  BY <2>1, <2>2
<1>7. ASSUME NEW w \in Worker, SerialWorker(w) PROVE Calm'
  <2>1. CASE ClaimLoop(w)
    BY <1>1, <1>5, <2>1
  <2>2. CASE SemWait(w) \/ CheckShutdown(w)
    <3>1. UNCHANGED <<cancelled, cap>>
      BY <2>2 DEF SemWait, CheckShutdown, shared
    <3>2. \E p \in {"woken", "gone", "claim"} : pc' = [pc EXCEPT ![w] = p]
      BY <2>2 DEF SemWait, CheckShutdown, Goto
    <3> QED  BY <1>1, <1>3, <3>1, <3>2
  <2> QED  BY <1>7, <2>1, <2>2 DEF SerialWorker, WorkerStep
<1>8. CASE FreePool
  BY <1>1, <1>3, <1>8 DEF FreePool, StartFree, Goto
<1>9. CASE \/ Terminated \/ UNCHANGED allvars
           \/ MergeHere \/ MergeDone \/ PartitionsDone \/ SequentialPass
  BY <1>4, <1>9 DEF Terminated, MergeHere, MergeDone, PartitionsDone, SequentialPass,
         allvars, vars, shared
<1>10. CASE BeginGroup \/ MergeThere \/ AggregatePartitions
  BY <1>2, <1>10 DEF BeginGroup, MergeThere, AggregatePartitions
<1> QED
  BY <1>6, <1>7, <1>8, <1>9, <1>10 DEF GroupNext, PoolStep

\* A step that leaves the operator alone and ends no task.
LEMMA QuietStep ==
  ASSUME GroupType, PhaseInv, Quiet, UNCHANGED gvars
  PROVE  GroupType' /\ PhaseInv'
<1>1. UNCHANGED <<phase, path, keys, vals, accs, bufs, short, lost, out>>
  BY DEF gvars
<1>2. Active' => Active
  BY DEF Quiet
<1>3. ASSUME NEW n, Active => total = n PROVE Done(n)' = Done(n) /\ (Active' => total' = n)
  BY <1>3 DEF Quiet
<1>4. GroupType'
  BY <1>1 DEF GroupType
<1>5. PICK A, b, o, L : A = accs /\ b = bufs /\ o = out /\ L = lost
  OBVIOUS
<1>6. A = accs' /\ b = bufs' /\ o = out' /\ L = lost'
  BY <1>1, <1>5
<1>7. ASSUME NEW n, NEW R, ScanState(n, R) PROVE ScanState(n, R)'
  <2>1. HaveSeen(A, b, R)'
    <3>1. HaveSeen(A, b, R)
      BY <1>5, <1>7 DEF ScanState
    <3>2. ASSUME NEW t \in Thread, path = "direct" PROVE Covers(A[t], R[t])'
      BY <1>1, <3>1, <3>2, TableKept DEF HaveSeen
    <3>3. ASSUME NEW t \in Thread, path # "direct", ~short PROVE Scattered(b[t], R[t])'
      BY <1>1, <3>1, <3>3, TableKept DEF HaveSeen
    <3> QED  BY <1>1, <3>2, <3>3 DEF HaveSeen
  <2>2. Loaded(n) /\ (Active => total = n) /\ Split(R, Done(n)) /\ lost = {}
    BY <1>7 DEF ScanState
  <2>3. Loaded(n)' /\ Done(n)' = Done(n) /\ (Active' => total' = n)
    BY <1>1, <1>3, <2>2, TableKept
  <2>4. Split(R, Done(n)')
    BY <2>2, <2>3
  <2> QED  BY <1>1, <1>6, <2>1, <2>2, <2>3, <2>4 DEF ScanState
<1>8. ASSUME NEW n, NEW R, MergeState(n, R) PROVE MergeState(n, R)'
  <2>1. PICK D : D = Done(NGroups)
    OBVIOUS
  <2>2. /\ Loaded(n) /\ (Active => total = NGroups) /\ Split(R, 0 .. n - 1)
        /\ HaveMerged(A, n, R, D) /\ lost = {}
    BY <1>5, <1>8, <2>1 DEF MergeState
  <2>3. D = Done(NGroups)' /\ (Active' => total' = NGroups)
    BY <1>3, <2>1, <2>2
  <2>4. Loaded(n)' /\ HaveMerged(A, n, R, D)'
    BY <1>1, <2>2, TableKept
  <2> QED  BY <1>1, <1>6, <2>2, <2>3, <2>4 DEF MergeState
<1>9. ASSUME NEW n, NEW R, PartitionState(n, R) PROVE PartitionState(n, R)'
  <2>1. PICK D : D = Done(RadixP)
    OBVIOUS
  <2>2. /\ Loaded(n) /\ (Active => total = RadixP) /\ Split(R, 0 .. n - 1)
        /\ HaveAggregated(o, n, D, L) /\ \A t \in Thread : Scattered(b[t], R[t])
        /\ path = "radix" /\ ~short /\ L \subseteq Reached(n, D)
    BY <1>5, <1>9, <2>1 DEF PartitionState
  <2>3. D = Done(RadixP)' /\ (Active' => total' = RadixP)
    BY <1>3, <2>1, <2>2
  <2>4. /\ Loaded(n)' /\ HaveAggregated(o, n, D, L)' /\ L \subseteq Reached(n, D)'
        /\ \A t \in Thread : Scattered(b[t], R[t])'
    BY <1>1, <2>2, TableKept
  <2> QED  BY <1>1, <1>6, <2>2, <2>3, <2>4 DEF PartitionState
<1>10. ASSUME NEW n, DoneState(n) PROVE DoneState(n)'
  <2>1. /\ Loaded(n) /\ L \subseteq 0 .. n - 1 /\ Covers(o, (0 .. n - 1) \ L)
        /\ L # {} => path = "radix" /\ ~short
    BY <1>5, <1>10 DEF DoneState
  <2>2. Loaded(n)' /\ Covers(o, (0 .. n - 1) \ L)'
    BY <1>1, <2>1, TableKept
  <2> QED  BY <1>1, <1>6, <2>1, <2>2 DEF DoneState
<1>11. PhaseInv'
  BY <1>1, <1>2, <1>7, <1>8, <1>9, <1>10 DEF PhaseInv
<1> QED  BY <1>4, <1>11

\* The types of what a task writes.
LEMMA TaskTypes ==
  ASSUME GroupType, NEW t \in Thread, NEW q,
         \/ ScanTask(t, q) /\ \E S : HaveSeen(accs, bufs, S)'
         \/ MergeTask(q) /\ \E n, R, D : HaveMerged(accs, n, R, D)'
         \/ PartitionTask(q) /\ \E n, D, L : HaveAggregated(out, n, D, L)' /\ ToSet(q) \subseteq D,
         UNCHANGED <<phase, path>>
  PROVE  GroupType'
<1>0. Main \in Thread
  BY DEF Thread
<1>1. PICK A, b, o : A = accs' /\ b = bufs' /\ o = out'
  OBVIOUS
<1>2. CASE ScanTask(t, q) /\ \E S : HaveSeen(accs, bufs, S)'
  <2>1. PICK S : HaveSeen(accs, bufs, S)'
    BY <1>2
  <2>2. \A u \in Thread : path = "direct" => A[u] \in [Group -> Acc]
    BY <1>1, <2>1 DEF HaveSeen, Covers
  <2>3. \A u \in Thread : path # "direct" /\ ~short' => b[u] \in [Partition -> Seq(Nat)]
    BY <1>1, <2>1 DEF HaveSeen, Scattered
  <2>4. path = "direct" => \E x : A = [accs EXCEPT ![t] = x]
    BY <1>1, <1>2 DEF ScanTask
  <2>5. path # "direct" => (~short' => ~short) /\ \E x : b = [bufs EXCEPT ![t] = x]
    BY <1>1, <1>2 DEF ScanTask
  <2>6. path = "direct" => A \in [Thread -> [Group -> Acc]]
    BY <2>2, <2>4 DEF GroupType
  <2>7. path # "direct" /\ ~short' => b \in [Thread -> [Partition -> Seq(Nat)]]
    BY <2>3, <2>5 DEF GroupType
  <2>8. /\ path = "direct" => UNCHANGED <<bufs, short>>
        /\ path # "direct" => accs' = accs
        /\ out' = out /\ short' \in BOOLEAN
    BY <1>2 DEF ScanTask, GroupType
  <2> QED  BY <1>1, <2>6, <2>7, <2>8 DEF GroupType
<1>3. CASE MergeTask(q) /\ \E n, R, D : HaveMerged(accs, n, R, D)'
  <2>1. PICK n, R, D : HaveMerged(accs, n, R, D)'
    BY <1>3
  <2>2. \A u \in Thread, g \in Group : A[u][g] \in Acc
    BY <1>1, <2>1 DEF HaveMerged, Exact
  <2>3. PICK x : /\ x = [g \in Group |-> IF g \in ToSet(q) THEN Merged(g) ELSE accs[Main][g]]
                 /\ A = [accs EXCEPT ![Main] = x]
    BY <1>1, <1>3 DEF MergeTask
  <2>4. accs \in [Thread -> [Group -> Acc]]
    BY DEF GroupType
  <2>5. A[Main] = x
    BY <1>0, <2>3, <2>4
  <2>6. x \in [Group -> Acc]
    BY <1>0, <2>2, <2>3, <2>5
  <2>7. A \in [Thread -> [Group -> Acc]]
    BY <2>3, <2>4, <2>6
  <2> QED  BY <1>1, <1>3, <2>7 DEF GroupType, MergeTask
<1>4. CASE PartitionTask(q) /\ \E n, D, L : HaveAggregated(out, n, D, L)' /\ ToSet(q) \subseteq D
  <2>1. PICK n, D, L : HaveAggregated(out, n, D, L)' /\ ToSet(q) \subseteq D
    BY <1>4
  <2>2. \A g \in Group : PartitionOf(g) \in ToSet(q) => o[g] \in Acc
    BY <1>1, <2>1 DEF HaveAggregated, Exact
  <2>3. PICK x : o = [g \in Group |-> IF PartitionOf(g) \in ToSet(q) THEN x[g] ELSE out[g]]
    <3>1. PICK drop :
            out' = LET table == [p \in ToSet(q) |-> Aggregated(p, drop)]
                   IN  [g \in Group |-> IF PartitionOf(g) \in ToSet(q)
                                           THEN table[PartitionOf(g)][g] ELSE out[g]]
      BY <1>4 DEF PartitionTask
    <3>2. PICK table : table = [p \in ToSet(q) |-> Aggregated(p, drop)]
      OBVIOUS
    <3>3. PICK x : x = [g \in Group |-> table[PartitionOf(g)][g]]
      OBVIOUS
    <3>4. o = [g \in Group |-> IF PartitionOf(g) \in ToSet(q) THEN x[g] ELSE out[g]]
      BY <1>1, <3>1, <3>2, <3>3
    <3> QED  BY <3>4
  <2>4. o \in [Group -> Acc]
    BY <2>2, <2>3 DEF GroupType
  <2> QED  BY <1>1, <1>4, <2>4 DEF GroupType, PartitionTask
<1> QED  BY <1>2, <1>3, <1>4

\* Tables and buffers that were set up hold nothing of any table.
LEMMA NoGroupsPrimed == Covers(NoGroups, {})'
<1>1. Exact(vals, Empty, {}) /\ NoGroups \in [Group -> Acc]
  BY EmptyExact, NoGroupsCovers DEF Covers
<1>2. PICK v : v = vals'
  OBVIOUS
<1>3. Exact(v, Empty, {})
  BY EmptyExact
<1>4. \A g \in Group : NoGroups[g] = Empty /\ RowsOf({}, g)' = {}
  BY DEF NoGroups, RowsOf
<1> QED  BY <1>1, <1>2, <1>3, <1>4 DEF Covers

\* ... likewise.
LEMMA NoRowsPrimed == Scattered(NoRows, {})'
<1>1. \A p \in Partition : NoRows[p] = <<>> /\ PartOf({}, p)' = {}
  BY DEF NoRows, PartOf
<1>2. Lists(<<>>, {})
  BY DEF Lists
<1>3. NoRows \in [Partition -> Seq(Nat)]
  BY DEF NoRows
<1> QED  BY <1>1, <1>2, <1>3 DEF Scattered

\* A task of one of the loops ends.
LEMMA TaskStep ==
  ASSUME MapInv, GroupType, PhaseInv, NEW t \in Thread, EndsTask(t),
         RunTask(t, TaskRange(ring[idx[t] % cap])), UNCHANGED <<phase, path, keys, vals>>
  PROVE  GroupType' /\ PhaseInv'
<1>1. PICK q : q = TaskRange(ring[idx[t] % cap])
  OBVIOUS
<1>2. CASE phase = "scan" /\ ScanTask(t, q)
  <2>1. PICK n, R : ScanState(n, R)
    BY <1>2 DEF PhaseInv
  <2>2. PICK S : ScanState(n, S)'
    BY <1>1, <1>2, <2>1, ScanStep
  <2>3. HaveSeen(accs, bufs, S)'
    BY <2>2 DEF ScanState
  <2>4. GroupType'
    BY <1>2, <2>3, TaskTypes
  <2> QED  BY <1>2, <2>2, <2>4 DEF PhaseInv
<1>3. CASE phase = "merge" /\ MergeTask(q)
  <2>1. PICK n, R : MergeState(n, R)
    BY <1>3 DEF PhaseInv
  <2>2. MergeState(n, R)'
    BY <1>1, <1>3, <2>1, MergeStep
  <2>3. PICK D : D = Done(NGroups)'
    OBVIOUS
  <2>4. HaveMerged(accs, n, R, D)'
    BY <2>2, <2>3 DEF MergeState
  <2>5. GroupType'
    BY <1>3, <2>4, TaskTypes
  <2> QED  BY <1>3, <2>2, <2>5 DEF PhaseInv
<1>4. CASE phase = "partitions" /\ PartitionTask(q)
  <2>1. PICK n, R : PartitionState(n, R)
    BY <1>4 DEF PhaseInv
  <2>2. PartitionState(n, R)'
    BY <1>1, <1>4, <2>1, PartitionStep
  <2>3. PICK D, L : D = Done(RadixP)' /\ L = lost'
    OBVIOUS
  <2>4. HaveAggregated(out, n, D, L)'
    BY <2>2, <2>3 DEF PartitionState
  <2>5. ToSet(q) \subseteq D
    <3>1. total = RadixP
      BY <2>1 DEF PartitionState, EndsTask
    <3>2. PICK p, X :
           /\ p = TaskRange(ring[idx[t] % cap]) /\ Lists(p, X) /\ ToSet(p) = X
           /\ X \subseteq 0 .. RadixP - 1 /\ Done(RadixP) \cap X = {}
           /\ Done(RadixP)' = Done(RadixP) \cup X /\ (Active' => total' = RadixP)
      BY <3>1, TaskOf
    <3> QED  BY <1>1, <2>3, <3>2
  <2>6. GroupType'
    BY <1>4, <2>4, <2>5, TaskTypes
  <2> QED  BY <1>4, <2>2, <2>6 DEF PhaseInv
<1> QED  BY <1>1, <1>2, <1>3, <1>4 DEF RunTask

\* A step of the pool, with what the task does that ends in it.
LEMMA StepPoolStep ==
  ASSUME MapInv, MapInv', Calm, GroupType, PhaseInv, PoolStep
  PROVE  GroupType' /\ PhaseInv'
<1>1. PICK t \in Thread : Quiet \/ EndsTask(t)
  <2>1. CASE SerialMain
    <3>1. Main \in Thread /\ pc[Main] # "skip" /\ MainStep
      BY <2>1 DEF Thread, Calm, SerialMain
    <3> QED  BY <3>1, MainEnds
  <2>2. ASSUME NEW w \in Worker, SerialWorker(w) PROVE \E t \in Thread : Quiet \/ EndsTask(t)
    <3>1. w \in Thread /\ pc[w] # "skip" /\ WorkerStep(w)
      BY <2>2 DEF Thread, Calm, SerialWorker
    <3> QED  BY <3>1, WorkerEnds
  <2> QED  BY <2>1, <2>2 DEF PoolStep
<1>2. /\ UNCHANGED <<phase, path, ordered, keys, vals>>
      /\ IF Ended = {} THEN UNCHANGED <<accs, bufs, short, lost, out>>
         ELSE \E u \in Ended : RunTask(u, TaskRange(ring[idx[u] % cap]))
  BY DEF PoolStep, Ended
<1>3. CASE Quiet
  <2>1. UNCHANGED gvars
    BY <1>2, <1>3 DEF Quiet, gvars
  <2> QED  BY <1>3, <2>1, QuietStep
<1>4. CASE EndsTask(t)
  <2>1. Ended = {t}
    BY <1>4 DEF EndsTask
  <2>2. RunTask(t, TaskRange(ring[idx[t] % cap]))
    BY <1>2, <2>1
  <2> QED  BY <1>2, <1>4, <2>2, TaskStep
<1> QED  BY <1>1, <1>3, <1>4

\* The first loop begins: nothing seen, nothing done.
LEMMA StepBeginGroup ==
  ASSUME MapInv, MapInv', GroupType, BeginGroup
  PROVE  GroupType' /\ PhaseInv'
<1>1. PICK n \in 1 .. MaxTotal :
        Dispatch(n) /\ keys' \in [0 .. n - 1 -> Group] /\ vals' \in [0 .. n - 1 -> Value]
  BY DEF BeginGroup
<1>2. /\ phase' = "scan" /\ path' \in {"direct", "radix"} /\ out' = NoGroups
      /\ accs' = [t \in Thread |-> NoGroups] /\ bufs' = [t \in Thread |-> NoRows]
      /\ short' = FALSE /\ lost' = {}
  BY DEF BeginGroup
<1>3. total' = n /\ Done(n)' = {}
  BY <1>1, DispatchBegins
<1>4. Loaded(n)'
  <2>1. n \in Nat
    BY PoolAssumption
  <2> QED  BY <1>1, <2>1 DEF Loaded
<1>5. Covers(NoGroups, {})'
  BY NoGroupsPrimed
<1>6. Scattered(NoRows, {})'
  BY NoRowsPrimed
<1>7. PICK R : R = [t \in Thread |-> {}]
  OBVIOUS
<1>8. Split(R, {}) /\ \A t \in Thread : R[t] = {}
  BY <1>7, SplitNothing
<1>9. HaveSeen(accs, bufs, R)'
  BY <1>2, <1>5, <1>6, <1>8 DEF HaveSeen
<1>10. ScanState(n, R)'
  BY <1>2, <1>3, <1>4, <1>8, <1>9 DEF ScanState
<1>11. NoGroups \in [Group -> Acc] /\ NoRows \in [Partition -> Seq(Nat)]
  BY NoGroupsCovers, NoRowsScattered DEF Covers, Scattered
<1>12. GroupType'
  BY <1>2, <1>11 DEF GroupType
<1> QED  BY <1>2, <1>10, <1>12 DEF PhaseInv

\* The merge in the caller: the result of all rows.
LEMMA StepMergeHere ==
  ASSUME GroupType, PhaseInv, MergeHere
  PROVE  GroupType' /\ PhaseInv'
<1>1. PICK n, R : ScanState(n, R)
  BY DEF MergeHere, PhaseInv
<1>2. ~Active /\ ~Active'
  BY DEF MergeHere, Active, Outside, vars
<1>3. Done(n) = 0 .. n - 1
  BY <1>2, AllDone
<1>4. Loaded(n) /\ Split(R, 0 .. n - 1) /\ HaveSeen(accs, bufs, R) /\ lost = {}
  BY <1>1, <1>3 DEF ScanState
<1>5. PICK o : o = [g \in Group |-> Merged(g)]
  OBVIOUS
<1>6. ASSUME NEW g \in Group PROVE Exact(vals, o[g], RowsOf(0 .. n - 1, g))
  <2>1. \A t \in Thread : Exact(vals, accs[t][g], RowsOf(R[t], g))
    BY <1>4 DEF HaveSeen, Covers, MergeHere
  <2>2. Exact(vals, Merged(g), RowsOf(0 .. n - 1, g))
    BY <1>4, <2>1, MergedGroup
  <2> QED  BY <1>5, <2>2
<1>7. o \in [Group -> Acc]
  BY <1>5, <1>6 DEF Exact
<1>8. Covers(o, 0 .. n - 1)
  BY <1>6, <1>7 DEF Covers
<1>9. Covers(o, 0 .. n - 1)' /\ Loaded(n)'
  BY <1>4, <1>8, TableKept DEF MergeHere
<1>10. out' = o /\ phase' = "done" /\ UNCHANGED <<path, accs, bufs, short, lost>>
  BY <1>5 DEF MergeHere
<1>11. DoneState(n)'
  <2>1. lost' = {} /\ (0 .. n - 1) \ {} = 0 .. n - 1
    BY <1>4, <1>10
  <2> QED  BY <1>9, <1>10, <2>1 DEF DoneState
<1>12. GroupType'
  BY <1>7, <1>10 DEF GroupType
<1> QED  BY <1>2, <1>10, <1>11, <1>12 DEF PhaseInv

\* The merge as a parallel loop begins.
LEMMA StepMergeThere ==
  ASSUME MapInv, MapInv', GroupType, PhaseInv, MergeThere
  PROVE  GroupType' /\ PhaseInv'
<1>1. PICK n, R : ScanState(n, R)
  BY DEF MergeThere, PhaseInv
<1>2. NGroups \in 1 .. MaxTotal /\ Dispatch(NGroups)
  BY GroupAssumption DEF MergeThere
<1>3. ~Active /\ total' = NGroups /\ Done(NGroups)' = {}
  BY <1>2, DispatchBegins
<1>4. Done(n) = 0 .. n - 1
  BY <1>3, AllDone
<1>5. Loaded(n) /\ Split(R, 0 .. n - 1) /\ HaveSeen(accs, bufs, R) /\ lost = {}
  BY <1>1, <1>4 DEF ScanState
<1>6. PICK A : A = accs
  OBVIOUS
<1>7. UNCHANGED <<path, keys, vals, accs, bufs, short, lost, out>> /\ phase' = "merge"
  BY DEF MergeThere
<1>8. HaveMerged(A, n, R, {})
  BY <1>5, <1>6 DEF HaveSeen, Covers, HaveMerged, MergedRows, MergeThere
<1>9. HaveMerged(A, n, R, {})' /\ Loaded(n)'
  BY <1>5, <1>7, <1>8, TableKept
<1>10. MergeState(n, R)'
  BY <1>3, <1>5, <1>6, <1>7, <1>9 DEF MergeState
<1>11. GroupType'
  BY <1>7 DEF GroupType
<1> QED  BY <1>7, <1>10, <1>11 DEF PhaseInv

\* ... and is over.
LEMMA StepMergeDone ==
  ASSUME GroupType, PhaseInv, MergeDone
  PROVE  GroupType' /\ PhaseInv'
<1>1. PICK n, R : MergeState(n, R)
  BY DEF MergeDone, PhaseInv
<1>2. ~Active /\ ~Active'
  BY DEF MergeDone, Active, Outside, vars
<1>3. Done(NGroups) = Group
  BY <1>2, AllDone DEF Group
<1>4. Loaded(n) /\ HaveMerged(accs, n, R, Group) /\ Main \in Thread /\ lost = {}
  BY <1>1, <1>3 DEF MergeState, Thread
<1>5. PICK o : o = accs[Main]
  OBVIOUS
<1>6. o \in [Group -> Acc]
  BY <1>4, <1>5 DEF GroupType
<1>7. Covers(o, 0 .. n - 1)
  BY <1>4, <1>5, <1>6 DEF HaveMerged, MergedRows, Covers
<1>8. out' = o /\ phase' = "done" /\ UNCHANGED <<path, keys, vals, accs, bufs, short, lost>>
  BY <1>5 DEF MergeDone
<1>9. Covers(o, 0 .. n - 1)' /\ Loaded(n)'
  BY <1>4, <1>7, <1>8, TableKept
<1>10. DoneState(n)'
  <2>1. lost' = {} /\ (0 .. n - 1) \ {} = 0 .. n - 1
    BY <1>4, <1>8
  <2> QED  BY <1>8, <1>9, <2>1 DEF DoneState
<1>11. GroupType'
  BY <1>6, <1>8 DEF GroupType
<1> QED  BY <1>2, <1>8, <1>10, <1>11 DEF PhaseInv

\* The loop over the partitions begins.
LEMMA StepAggregatePartitions ==
  ASSUME MapInv, MapInv', Calm, GroupType, PhaseInv, AggregatePartitions
  PROVE  GroupType' /\ PhaseInv'
<1>1. PICK n, R : ScanState(n, R)
  BY DEF AggregatePartitions, PhaseInv
<1>2. ~Active /\ total' = RadixP /\ Done(RadixP)' = {}
  BY DispatchNBegins DEF AggregatePartitions, Calm
<1>3. Done(n) = 0 .. n - 1
  BY <1>2, AllDone
<1>4. Loaded(n) /\ Split(R, 0 .. n - 1) /\ HaveSeen(accs, bufs, R) /\ lost = {}
  BY <1>1, <1>3 DEF ScanState
<1>5. PICK b, o : b = bufs /\ o = out
  OBVIOUS
<1>6. /\ UNCHANGED <<path, keys, vals, accs, bufs, short, lost, out>>
      /\ phase' = "partitions" /\ path = "radix" /\ ~short
  BY DEF AggregatePartitions
<1>7. \A t \in Thread : Scattered(b[t], R[t])
  BY <1>4, <1>5 DEF HaveSeen, AggregatePartitions
<1>8. HaveAggregated(o, n, {}, {})
  BY DEF HaveAggregated
<1>9. HaveAggregated(o, n, {}, {})' /\ Loaded(n)' /\ \A t \in Thread : Scattered(b[t], R[t])'
  BY <1>4, <1>6, <1>7, <1>8, TableKept
<1>10. PartitionState(n, R)'
  BY <1>2, <1>4, <1>5, <1>6, <1>9 DEF PartitionState
<1>11. GroupType'
  BY <1>6 DEF GroupType
<1> QED  BY <1>6, <1>10, <1>11 DEF PhaseInv

\* ... and is over: every group is in a partition.
LEMMA StepPartitionsDone ==
  ASSUME GroupType, PhaseInv, PartitionsDone
  PROVE  GroupType' /\ PhaseInv'
<1>1. PICK n, R : PartitionState(n, R)
  BY DEF PartitionsDone, PhaseInv
<1>2. ~Active /\ ~Active'
  BY DEF PartitionsDone, Active, Outside, vars
<1>3. Done(RadixP) = Partition
  BY <1>2, AllDone DEF Partition
<1>4. PICK o, L : o = out /\ L = lost
  OBVIOUS
<1>5. /\ Loaded(n) /\ HaveAggregated(o, n, Partition, L)
      /\ L \subseteq 0 .. n - 1 /\ path = "radix" /\ ~short
  BY <1>1, <1>3, <1>4 DEF PartitionState, Reached
<1>6. o \in [Group -> Acc]
  BY <1>4 DEF GroupType
<1>7. Covers(o, (0 .. n - 1) \ L)
  <2>1. \A g : RowsOf(0 .. n - 1, g) \ L = RowsOf((0 .. n - 1) \ L, g)
    BY DEF RowsOf
  <2>2. \A g \in Group : Exact(vals, o[g], RowsOf(0 .. n - 1, g) \ L)
    BY <1>5, PartitionRange DEF HaveAggregated
  <2> QED  BY <1>6, <2>1, <2>2 DEF Covers
<1>8. phase' = "done" /\ UNCHANGED <<path, keys, vals, accs, bufs, short, lost, out>>
  BY DEF PartitionsDone
<1>9. Covers(o, (0 .. n - 1) \ L)' /\ Loaded(n)'
  BY <1>5, <1>7, <1>8, TableKept
<1>10. DoneState(n)'
  BY <1>4, <1>5, <1>8, <1>9 DEF DoneState
<1>11. GroupType'
  BY <1>8 DEF GroupType
<1> QED  BY <1>2, <1>8, <1>10, <1>11 DEF PhaseInv

\* A sequential pass over the table sees every row that it does not drop.
LEMMA SequentialCovers ==
  ASSUME NEW n, Loaded(n), NEW drop
  PROVE  /\ Covers(AddRowsBut(NoGroups, [r \in 1 .. Cardinality(AllRows) |-> r - 1], drop),
                   (0 .. n - 1) \ drop)
         /\ Covers(Sequential, 0 .. n - 1)
<1>1. n \in Nat /\ DOMAIN keys = 0 .. n - 1
  BY DEF Loaded
<1>2. Cardinality(0 .. n - 1) = n
  <2>1. CASE n = 0
    <3>1. 0 .. n - 1 = {}
      BY <2>1
    <3> QED  BY <2>1, <3>1, FS_EmptySet
  <2>2. CASE n # 0
    <3>1. 0 \in Int /\ n - 1 \in Int /\ ~(0 > n - 1)
      BY <1>1, <2>2
    <3>2. Cardinality(0 .. n - 1) = (n - 1) - 0 + 1
      BY <3>1, FS_Interval
    <3> QED  BY <1>1, <3>2
  <2> QED  BY <2>1, <2>2
<1>3. PICK q : q = [r \in 1 .. n |-> r - 1]
  OBVIOUS
<1>4. q = [r \in 1 .. Cardinality(AllRows) |-> r - 1]
  BY <1>1, <1>2, <1>3 DEF AllRows
<1>5. Lists(q, 0 .. n - 1)
  <2>1. q \in Seq(0 .. n - 1) /\ Len(q) = n
    BY <1>1, <1>3
  <2>2. \A i, j \in 1 .. n : q[i] = q[j] => i = j
    BY <1>1, <1>3
  <2>3. ASSUME NEW r \in 0 .. n - 1 PROVE \E i \in 1 .. n : q[i] = r
    <3>1. r + 1 \in 1 .. n /\ (r + 1) - 1 = r
      BY <1>1
    <3>2. q[r + 1] = r
      BY <1>3, <3>1
    <3> QED  BY <3>1, <3>2
  <2> QED  BY <2>1, <2>2, <2>3 DEF Lists
<1>6. PICK B : B = NoGroups
  OBVIOUS
<1>7. Covers(B, {})
  BY <1>6, NoGroupsCovers
<1>8. PICK R, S : R = {} /\ S = 0 .. n - 1
  OBVIOUS
<1>9. R \in SUBSET (0 .. n - 1) /\ S \in SUBSET (0 .. n - 1) /\ R \cap S = {}
      /\ Lists(q, S) /\ Covers(B, R)
  BY <1>5, <1>7, <1>8
<1>10. ASSUME NEW X PROVE Covers(AddRowsBut(B, q, X), (0 .. n - 1) \ X)
  <2>1. Covers(AddRowsBut(B, q, X), R \cup (S \ X))
    BY ONLY <1>9, Loaded(n), AddRowsCovers
  <2>2. R \cup (S \ X) = (0 .. n - 1) \ X
    BY <1>8
  <2> QED  BY <2>1, <2>2
<1>11. Covers(AddRowsBut(B, q, {}), 0 .. n - 1)
  <2>1. Covers(AddRowsBut(B, q, {}), (0 .. n - 1) \ {})
    BY <1>10
  <2>2. (0 .. n - 1) \ {} = 0 .. n - 1
    OBVIOUS
  <2> QED  BY <2>1, <2>2
<1>12. Sequential = AddRowsBut(B, q, {})
  BY <1>4, <1>6 DEF Sequential, AddRows
<1> QED  BY <1>4, <1>6, <1>10, <1>11, <1>12

\* The sequential pass instead of the partitions: all rows, or an error.
LEMMA StepSequentialPass ==
  ASSUME GroupType, PhaseInv, SequentialPass
  PROVE  GroupType' /\ PhaseInv'
<1>1. PICK n, R : ScanState(n, R)
  BY DEF SequentialPass, PhaseInv
<1>2. ~Active /\ ~Active'
  BY DEF SequentialPass, Active, Outside, vars
<1>3. Loaded(n) /\ lost = {}
  BY <1>1 DEF ScanState
<1>4. UNCHANGED <<path, keys, vals, accs, bufs, short, lost>>
  BY DEF SequentialPass
<1>5. CASE out' = Sequential /\ phase' = "done"
  <2>1. PICK o : o = Sequential
    OBVIOUS
  <2>2. Covers(o, 0 .. n - 1)
    BY <1>3, <2>1, SequentialCovers
  <2>3. Covers(o, 0 .. n - 1)' /\ Loaded(n)'
    BY <1>3, <1>4, <2>2, TableKept
  <2>4. lost' = {} /\ (0 .. n - 1) \ {} = 0 .. n - 1
    BY <1>3, <1>4
  <2>5. DoneState(n)'
    BY <1>5, <2>1, <2>3, <2>4 DEF DoneState
  <2>6. GroupType'
    BY <1>4, <1>5, <2>1, <2>2 DEF GroupType, Covers
  <2> QED  BY <1>2, <1>5, <2>5, <2>6 DEF PhaseInv
<1>6. CASE phase' = "failed" /\ UNCHANGED out
  <2>1. GroupType'
    BY <1>4, <1>6 DEF GroupType
  <2> QED  BY <1>2, <1>6, <2>1 DEF PhaseInv
<1> QED  BY <1>5, <1>6 DEF SequentialPass

\* Freeing the pool, or nothing at all.
LEMMA StepOther ==
  ASSUME TypeOK, GroupType, PhaseInv,
         FreePool \/ (Terminated /\ UNCHANGED gvars) \/ UNCHANGED allvars
  PROVE  GroupType' /\ PhaseInv'
<1>1. CASE FreePool
  <2>1. pc[Main] = "idle" /\ pc'[Main] = "post" /\ pc' = [pc EXCEPT ![Main] = "post"]
    BY <1>1 DEF FreePool, StartFree, Goto, TypeOK, Thread
  <2>2. ~Active /\ ~Active'
    BY <2>1 DEF Active, Outside
  <2>3. Ended = {}
    BY <2>1 DEF Ended, TypeOK
  <2>4. Quiet
    BY <2>2, <2>3 DEF Quiet, Done
  <2> QED  BY <1>1, <2>4, QuietStep DEF FreePool
<1>2. CASE (Terminated /\ UNCHANGED gvars) \/ UNCHANGED allvars
  <2>1. UNCHANGED vars /\ UNCHANGED gvars
    BY <1>2 DEF Terminated, allvars
  <2>2. UNCHANGED <<nTasks, runs, skips, idx, pc, total, grain>>
    BY <2>1 DEF vars, locals, history
  <2>3. Active' = Active /\ OpenTasks' = OpenTasks /\ Ended = {}
    BY <2>2 DEF Active, OpenTasks, Touched, Ended
  <2>4. Quiet
    BY <2>2, <2>3 DEF Quiet, Done
  <2> QED  BY <2>1, <2>4, QuietStep
<1> QED  BY <1>1, <1>2

\* Every step.
LEMMA GroupInvPreserved ==
  ASSUME GroupInv, MapInv', [GroupNext]_allvars
  PROVE  GroupInv'
<1>1. PoolInv'
  BY DEF MapInv
<1>2. MapInv /\ MapInv' /\ TypeOK
  BY UnfinishedIsOpen DEF MapInv, GroupInv, PoolInv
<1>3. Calm'
  BY <1>2, StaysCalm DEF GroupInv
<1>4. GroupType /\ PhaseInv /\ Calm
  BY DEF GroupInv
<1>5. GroupType' /\ PhaseInv'
  <2>1. CASE BeginGroup
    BY <1>2, <1>4, <2>1, StepBeginGroup
  <2>2. CASE MergeHere
    BY <1>4, <2>2, StepMergeHere
  <2>3. CASE MergeThere
    BY <1>2, <1>4, <2>3, StepMergeThere
  <2>4. CASE MergeDone
    BY <1>4, <2>4, StepMergeDone
  <2>5. CASE AggregatePartitions
    BY <1>2, <1>4, <2>5, StepAggregatePartitions
  <2>6. CASE PartitionsDone
    BY <1>4, <2>6, StepPartitionsDone
  <2>7. CASE PoolStep
    BY <1>2, <1>4, <2>7, StepPoolStep
  <2>8. CASE FreePool \/ (Terminated /\ UNCHANGED gvars) \/ UNCHANGED allvars
    BY <1>2, <1>4, <2>8, StepOther
  <2>9. CASE SequentialPass
    BY <1>4, <2>9, StepSequentialPass
  <2> QED
    BY ONLY [GroupNext]_allvars, <2>1, <2>2, <2>3, <2>4, <2>5, <2>6, <2>7, <2>8, <2>9
       DEF GroupNext
<1> QED  BY <1>1, <1>3, <1>5 DEF GroupInv

\* Before the first query.
LEMMA GroupInitInv == ASSUME GroupInit PROVE GroupInv
<1>1. Init /\ phase = "none" /\ path = "direct" /\ out = NoGroups
      /\ accs = [t \in Thread |-> NoGroups] /\ bufs = [t \in Thread |-> NoRows]
      /\ short = FALSE
  BY DEF GroupInit
<1>2. PoolInv
  BY <1>1, InitInv
<1>3. pc = [t \in Thread |-> IF t = Main THEN "idle" ELSE "wait"] /\ Main \in Thread
      /\ cancelled = FALSE /\ cap = InitCap
  BY <1>1 DEF Init, Thread
<1>4. ~Active
  BY <1>3 DEF Active, Outside
<1>5. InitCap >= InitCap
  BY PoolAssumption
<1>6. Calm
  BY <1>3, <1>5 DEF Calm
<1>7. NoGroups \in [Group -> Acc] /\ NoRows \in [Partition -> Seq(Nat)]
  BY NoGroupsCovers, NoRowsScattered DEF Covers, Scattered
<1>8. GroupType
  BY <1>1, <1>7 DEF GroupType
<1>9. PhaseInv
  BY <1>1, <1>4 DEF PhaseInv
<1> QED  BY <1>2, <1>6, <1>8, <1>9 DEF GroupInv

-----------------------------------------------------------------------------
(* The theorems. *)

\* Whatever the threads have claimed, the accumulators and buffers hold the rows
\* of the tasks that ended, each row once and in one thread, but for rows that a
\* buffer dropped with its flag raised; and the groups of a partition are those of
\* the rows its table did not drop.
THEOREM GroupInvariant == GroupSpec => []GroupInv
<1>1. GroupInit => GroupInv
  BY GroupInitInv
<1>2. GroupInv /\ [GroupNext]_allvars => PoolInv'
  BY GroupStepsPool, InvPreserved DEF GroupInv
<1>3. PoolInv => MapInv
  BY UnfinishedIsOpen DEF MapInv
<1>4. GroupInv /\ MapInv' /\ [GroupNext]_allvars => GroupInv'
  BY GroupInvPreserved
<1> QED  BY <1>1, <1>2, <1>3, <1>4, PTL DEF GroupSpec

\* Counts, sums, minima and maxima are those of a sequential pass over the rows
\* that no table of a partition dropped, which only the partitioned path does, and
\* a FIRST or LAST is a value of these rows of the group, for every number of
\* workers, groups, partitions, values and rows, on each path, whichever thread
\* claims which task and whichever buffer or table runs out of memory.
THEOREM AggregatesAlwaysExact == GroupSpec => []AggregatesExact
<1>1. ASSUME GroupInv, phase = "done", NEW g \in Group
      PROVE  LET o == out[g]
                 s == Told[g]
                 own == {vals[r] : r \in {q \in AllRows \ lost : keys[q] = g}}
             IN  /\ o.count = s.count /\ o.sum = s.sum /\ o.min = s.min /\ o.max = s.max
                 /\ ordered /\ own # {} => o.first \in own /\ o.last \in own
  <2>1. PICK n : DoneState(n)
    BY <1>1 DEF GroupInv, PhaseInv
  <2>2. PICK X : X = (0 .. n - 1) \ lost
    OBVIOUS
  <2>3. Loaded(n) /\ Covers(out, X) /\ Covers(Told, X) /\ X \in SUBSET (0 .. n - 1)
    BY <2>1, <2>2, SequentialCovers DEF DoneState, Told
  <2>4. PICK R : R = RowsOf(X, g)
    OBVIOUS
  <2>5. PICK o, s : o = out[g] /\ s = Told[g]
    OBVIOUS
  <2>6. Exact(vals, o, R) /\ Exact(vals, s, R)
    BY <2>3, <2>4, <2>5 DEF Covers
  <2>7. Column(vals, R)
    BY <2>3, <2>4, RowsColumn
  <2>8. o.count = s.count /\ o.sum = s.sum /\ o.min = s.min /\ o.max = s.max
    BY ONLY <2>6, <2>7, ExactUnique
  <2>9. R = {q \in AllRows \ lost : keys[q] = g}
    BY <2>2, <2>3, <2>4 DEF RowsOf, Loaded, AllRows
  <2>10. Image(vals, R) # {} => o.first \in Image(vals, R) /\ o.last \in Image(vals, R)
    <3>1. Image(vals, R) # {} => R # {}
      BY DEF Image
    <3> QED  BY <2>6, <3>1 DEF Exact
  <2> QED  BY <2>5, <2>8, <2>9, <2>10 DEF Image
<1>2. GroupInv /\ phase = "done" => (lost # {} => path = "radix" /\ ~short)
  BY DEF GroupInv, PhaseInv, DoneState
<1>3. GroupInv => AggregatesExact
  BY <1>1, <1>2 DEF AggregatesExact
<1> QED  BY <1>3, GroupInvariant, PTL

==============================================================================
