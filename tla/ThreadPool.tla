----------------------------- MODULE ThreadPool -----------------------------
(***************************************************************************)
(* The persistent thread pool of src/core/pool.c: one producer (the main   *)
(* thread, which is also worker 0) publishes the tasks of one parallel     *)
(* loop in a ring, background workers are woken by a semaphore, every      *)
(* thread claims tasks with a fetch-and-add on task_tail, and the producer *)
(* spins on the counter of pending tasks.                                  *)
(*                                                                         *)
(* Every atomic access of the code is a step of its own, so the steps of   *)
(* a worker that is late (it still holds a semaphore token of an earlier   *)
(* dispatch, or is between its last task and sem_wait) interleave with the *)
(* three stores that publish the next dispatch.  Spec is that code.        *)
(* SerialSpec is the same code under the assumption its protocol needs and *)
(* does not enforce: no worker claims a task while the producer is        *)
(* between those three stores.  A worker may still claim between the last  *)
(* of them and the store that raises ray_parallel_flag.  The memory orders *)
(* of the code (acquire/release on each access) make the interleaving of   *)
(* these accesses sequentially consistent for the orders that matter here. *)
(***************************************************************************)
EXTENDS Integers, FiniteSets

CONSTANTS
  Worker,       \* the background threads
  Main,         \* the thread that calls the pool, worker 0
  InitCap,      \* initial capacity of the task ring (1024 in the code)
  MaxRingCap,   \* MAX_RING_CAP
  Grain,        \* TASK_GRAIN, elements per task
  MaxTotal,     \* bound: largest total_elems or n_tasks a caller passes
  MaxDispatch   \* bound: number of dispatches of a behaviour

ASSUME PoolAssumption ==
  /\ IsFiniteSet(Worker)
  /\ Main \notin Worker
  /\ InitCap \in Nat \ {0}
  /\ MaxRingCap \in Nat \ {0}
  /\ \E k \in 0 .. 16 : MaxRingCap = InitCap * 2^k
  /\ Grain \in Nat \ {0}
  /\ MaxTotal \in Nat
  /\ MaxDispatch \in Nat

Thread == Worker \cup {Main}
Task   == 0 .. (MaxRingCap - 1)

\* The capacities the doubling loop can reach from InitCap.
RingCaps ==
  {c \in InitCap .. MaxRingCap : \E k \in 0 .. 16 : c = InitCap * 2^k}

VARIABLES
  cap,        \* pool->task_cap
  ring,       \* pool->tasks: the task number each slot holds
  taskCount,  \* pool->task_count
  taskTail,   \* pool->task_tail
  pending,    \* pool->pending (unsigned in the code: below 0 stands for a wrap)
  sem,        \* tokens of pool->work_ready
  shutdown,   \* pool->shutdown
  cancelled,  \* pool->cancelled
  parFlag,    \* ray_parallel_flag
  rcSync,     \* the main thread's ray_rc_sync
  total,      \* total_elems of the current dispatch
  grain,      \* elements per task of the current dispatch
  nTasks,     \* n_tasks of the current dispatch
  posted,     \* sem_signal calls made in the current wake-up loop
  pc,         \* control point of each thread
  idx,        \* index each thread claimed last
  runs,       \* history: how often fn was called for a task of this dispatch
  skips,      \* history: how often a task of this dispatch was skipped
  dispatches  \* history: dispatches started

shared == <<cap, ring, taskCount, taskTail, pending, sem, shutdown, cancelled,
            parFlag, rcSync>>
locals == <<total, grain, nTasks, posted>>
history == <<runs, skips, dispatches>>
vars == <<shared, locals, pc, idx, history>>

NWorkers == Cardinality(Worker)

\* A thread at one of these points owns the task whose index it claimed.
Holding == {"check", "run", "skip"}
\* The producer is between two of the three stores that publish a dispatch.
Publishing == {"tail", "pend"}
\* The producer is not inside ray_pool_dispatch.
Outside == {"idle", "post", "join", "freed"}

MainPoints == {"idle", "count", "tail", "pend", "flag", "wake", "claim", "bounds",
               "check", "run", "skip", "spin", "unflag", "post", "join", "freed"}
WorkerPoints == {"wait", "woken", "claim", "bounds", "check", "run", "skip", "gone"}

Goto(t, p) == pc' = [pc EXCEPT ![t] = p]

-----------------------------------------------------------------------------
(* The pool as ray_pool_create leaves it. *)
Init ==
  /\ cap = InitCap
  /\ ring = [s \in 0 .. InitCap - 1 |-> 0]
  /\ taskCount = 0
  /\ taskTail = 0
  /\ pending = 0
  /\ sem = 0
  /\ shutdown = FALSE
  /\ cancelled = FALSE
  /\ parFlag = FALSE
  /\ rcSync = FALSE
  /\ total = 0
  /\ grain = Grain
  /\ nTasks = 0
  /\ posted = 0
  /\ pc = [t \in Thread |-> IF t = Main THEN "idle" ELSE "wait"]
  /\ idx = [t \in Thread |-> 0]
  /\ runs = [i \in Task |-> 0]
  /\ skips = [i \in Task |-> 0]
  /\ dispatches = 0

-----------------------------------------------------------------------------
(* The producer. *)

CeilDiv(a, b) == (a + b - 1) \div b
Least(a, b) == IF a < b THEN a ELSE b

NewHistory ==
  /\ runs' = [i \in Task |-> 0]
  /\ skips' = [i \in Task |-> 0]

\* The ring after "grow if needed": unchanged when it is large enough or when
\* ray_sys_realloc fails, else the first doubling that reaches the need or the cap.
GrowRing(need) ==
  \/ cap' = cap
  \/ /\ need > cap
     /\ \E c \in RingCaps :
          /\ c >= need \/ c = MaxRingCap
          /\ \A d \in RingCaps : d < c => d < need
          /\ c > cap
          /\ cap' = c

\* Everything ray_pool_dispatch and ray_pool_dispatch_n do before they publish:
\* size the ring, clamp the number of tasks to it, fill it.
PrepareRing(n) ==
  /\ nTasks' = Least(n, cap')
  /\ ring' = [s \in 0 .. cap' - 1 |->
                IF s < nTasks' THEN s ELSE IF s < cap THEN ring[s] ELSE 0]
  /\ dispatches' = dispatches + 1
  /\ Goto(Main, "count")
  /\ UNCHANGED <<taskCount, taskTail, pending, sem, shutdown, cancelled,
                 parFlag, rcSync, posted, idx, runs, skips>>

\* Faulty variant: the grain stays TASK_GRAIN when the ring is too small.
DispatchFixedGrain(elems) ==
  /\ pc[Main] = "idle"
  /\ dispatches < MaxDispatch
  /\ elems > 0
  /\ GrowRing(CeilDiv(elems, Grain))
  /\ PrepareRing(CeilDiv(elems, Grain))
  /\ total' = elems
  /\ grain' = Grain

Dispatch(elems) ==
  /\ pc[Main] = "idle"
  /\ dispatches < MaxDispatch
  /\ elems > 0
  /\ LET n == CeilDiv(elems, Grain) IN
       /\ GrowRing(n)
       /\ PrepareRing(n)
       /\ total' = elems
       /\ grain' = IF n > cap' THEN CeilDiv(elems, cap') ELSE Grain

DispatchN(n) ==
  /\ pc[Main] = "idle"
  /\ dispatches < MaxDispatch
  /\ n > 0
  /\ GrowRing(n)
  /\ PrepareRing(n)
  /\ total' = n
  /\ grain' = 1

StoreCount ==
  /\ pc[Main] = "count"
  /\ taskCount' = nTasks
  /\ Goto(Main, "tail")
  /\ UNCHANGED <<cap, ring, taskTail, pending, sem, shutdown, cancelled, parFlag,
                 rcSync, locals, idx, history>>

StoreTail ==
  /\ pc[Main] = "tail"
  /\ taskTail' = 0
  /\ Goto(Main, "pend")
  /\ UNCHANGED <<cap, ring, taskCount, pending, sem, shutdown, cancelled, parFlag,
                 rcSync, locals, idx, history>>

\* Faulty variant: the producer leaves its own share out of pending.
StorePendingShort ==
  /\ pc[Main] = "pend"
  /\ pending' = nTasks - 1
  /\ Goto(Main, "flag")
  /\ UNCHANGED <<cap, ring, taskCount, taskTail, sem, shutdown, cancelled, parFlag,
                 rcSync, locals, idx, history>>

StorePending ==
  /\ pc[Main] = "pend"
  /\ pending' = nTasks
  /\ Goto(Main, "flag")
  /\ UNCHANGED <<cap, ring, taskCount, taskTail, sem, shutdown, cancelled, parFlag,
                 rcSync, locals, idx, history>>

\* ray_parallel_flag = 1; ray_rc_sync is the main thread's own variable.
RaiseFlags ==
  /\ pc[Main] = "flag"
  /\ parFlag' = TRUE
  /\ rcSync' = TRUE
  /\ Goto(Main, "wake")
  /\ UNCHANGED <<cap, ring, taskCount, taskTail, pending, sem, shutdown, cancelled,
                 locals, idx, history>>

\* Faulty variant: one token too few.
SignalShort(from, to) ==
  /\ pc[Main] = from
  /\ IF posted + 1 < NWorkers
       THEN /\ sem' = sem + 1
            /\ posted' = posted + 1
            /\ UNCHANGED pc
       ELSE /\ Goto(Main, to)
            /\ posted' = 0
            /\ UNCHANGED sem
  /\ UNCHANGED <<cap, ring, taskCount, taskTail, pending, shutdown, cancelled,
                 parFlag, rcSync, total, grain, nTasks, idx, history>>

\* One ray_sem_signal for each background worker, in the wake-up loop of a
\* dispatch and in that of ray_pool_free.
Signal(from, to) ==
  /\ pc[Main] = from
  /\ IF posted < NWorkers
       THEN /\ sem' = sem + 1
            /\ posted' = posted + 1
            /\ UNCHANGED pc
       ELSE /\ Goto(Main, to)
            /\ posted' = 0
            /\ UNCHANGED sem
  /\ UNCHANGED <<cap, ring, taskCount, taskTail, pending, shutdown, cancelled,
                 parFlag, rcSync, total, grain, nTasks, idx, history>>

WakeWorkers == Signal("wake", "claim")

\* Faulty variants: wait until every task is claimed, or until one is left.
SpinUntilClaimed ==
  /\ pc[Main] = "spin"
  /\ taskTail >= taskCount
  /\ Goto(Main, "unflag")
  /\ UNCHANGED <<shared, locals, idx, history>>

SpinUntilLast ==
  /\ pc[Main] = "spin"
  /\ pending <= 1
  /\ Goto(Main, "unflag")
  /\ UNCHANGED <<shared, locals, idx, history>>

\* The loop of acquire loads ends when it reads 0.
SpinExit ==
  /\ pc[Main] = "spin"
  /\ pending = 0
  /\ Goto(Main, "unflag")
  /\ UNCHANGED <<shared, locals, idx, history>>

LowerFlags ==
  /\ pc[Main] = "unflag"
  /\ parFlag' = FALSE
  /\ rcSync' = FALSE
  /\ total' = 0
  /\ grain' = Grain
  /\ nTasks' = 0
  /\ NewHistory
  /\ Goto(Main, "idle")
  /\ UNCHANGED <<cap, ring, taskCount, taskTail, pending, sem, shutdown, cancelled,
                 posted, idx, dispatches>>

-----------------------------------------------------------------------------
(* The claim loop, the same code in worker_loop and in the producer. *)

Claim(t) ==
  /\ pc[t] = "claim"
  /\ idx' = [idx EXCEPT ![t] = taskTail]
  /\ taskTail' = taskTail + 1
  /\ Goto(t, "bounds")
  /\ UNCHANGED <<cap, ring, taskCount, pending, sem, shutdown, cancelled, parFlag,
                 rcSync, locals, history>>

\* The producer compares with its local n_tasks, a worker loads task_count.
Limit(t) == IF t = Main THEN nTasks ELSE taskCount
Drained(t) == IF t = Main THEN "spin" ELSE "wait"

\* Faulty variant: the index one past the last task is accepted.
CheckBoundsOffByOne(t) ==
  /\ pc[t] = "bounds"
  /\ IF idx[t] > Limit(t)
       THEN /\ Goto(t, Drained(t))
            /\ idx' = [idx EXCEPT ![t] = 0]
       ELSE /\ Goto(t, "check")
            /\ UNCHANGED idx
  /\ UNCHANGED <<shared, locals, history>>

CheckBounds(t) ==
  /\ pc[t] = "bounds"
  /\ IF idx[t] >= Limit(t)
       THEN /\ Goto(t, Drained(t))
            /\ idx' = [idx EXCEPT ![t] = 0]
       ELSE /\ Goto(t, "check")
            /\ UNCHANGED idx
  /\ UNCHANGED <<shared, locals, history>>

\* Read the cancel flag: skip the task, or load its slot and call fn.
CheckCancelled(t) ==
  /\ pc[t] = "check"
  /\ LET task == ring[idx[t] % cap] IN
       IF cancelled
         THEN /\ skips' = [skips EXCEPT ![task] = @ + 1]
              /\ Goto(t, "skip")
              /\ UNCHANGED runs
         ELSE /\ runs' = [runs EXCEPT ![task] = @ + 1]
              /\ Goto(t, "run")
              /\ UNCHANGED skips
  /\ UNCHANGED <<shared, locals, idx, dispatches>>

\* Faulty variant: a skipped task is not counted.
SettleRunOnly(t) ==
  /\ pc[t] \in {"run", "skip"}
  /\ pending' = IF pc[t] = "run" THEN pending - 1 ELSE pending
  /\ idx' = [idx EXCEPT ![t] = 0]
  /\ Goto(t, "claim")
  /\ UNCHANGED <<cap, ring, taskCount, taskTail, sem, shutdown, cancelled, parFlag,
                 rcSync, locals, history>>

\* fn returns, or the task is skipped: one pending task less.
Settle(t) ==
  /\ pc[t] \in {"run", "skip"}
  /\ pending' = pending - 1
  /\ idx' = [idx EXCEPT ![t] = 0]
  /\ Goto(t, "claim")
  /\ UNCHANGED <<cap, ring, taskCount, taskTail, sem, shutdown, cancelled, parFlag,
                 rcSync, locals, history>>

-----------------------------------------------------------------------------
(* The outer loop of worker_loop. *)

SemWait(w) ==
  /\ pc[w] = "wait"
  /\ sem > 0
  /\ sem' = sem - 1
  /\ Goto(w, "woken")
  /\ UNCHANGED <<cap, ring, taskCount, taskTail, pending, shutdown, cancelled,
                 parFlag, rcSync, locals, idx, history>>

CheckShutdown(w) ==
  /\ pc[w] = "woken"
  /\ Goto(w, IF shutdown THEN "gone" ELSE "claim")
  /\ UNCHANGED <<shared, locals, idx, history>>

-----------------------------------------------------------------------------
(* Cancellation, and ray_pool_free. *)

\* ray_cancel, from any other thread (or a signal handler) while the pool lives.
Cancel ==
  /\ pc[Main] \notin {"post", "join", "freed"}
  /\ cancelled' = TRUE
  /\ UNCHANGED <<cap, ring, taskCount, taskTail, pending, sem, shutdown, parFlag,
                 rcSync, locals, pc, idx, history>>

\* ray_execute_inner clears the flag at the start of each query.
ResetCancel ==
  /\ pc[Main] = "idle"
  /\ cancelled' = FALSE
  /\ UNCHANGED <<cap, ring, taskCount, taskTail, pending, sem, shutdown, parFlag,
                 rcSync, locals, pc, idx, history>>

StartFree ==
  /\ pc[Main] = "idle"
  /\ shutdown' = TRUE
  /\ Goto(Main, "post")
  /\ UNCHANGED <<cap, ring, taskCount, taskTail, pending, sem, cancelled, parFlag,
                 rcSync, locals, idx, history>>

SignalShutdown == Signal("post", "join")

\* The join loop ends when the last worker has returned from worker_loop.
JoinAll ==
  /\ pc[Main] = "join"
  /\ \A w \in Worker : pc[w] = "gone"
  /\ Goto(Main, "freed")
  /\ UNCHANGED <<shared, locals, idx, history>>

-----------------------------------------------------------------------------
ClaimLoop(t) ==
  \/ Claim(t)
  \/ CheckBounds(t)
  \/ CheckCancelled(t)
  \/ Settle(t)

WorkerStep(w) == SemWait(w) \/ CheckShutdown(w) \/ ClaimLoop(w)

\* What the main thread does once it has entered a call of the pool.
MainStep ==
  \/ StoreCount
  \/ StoreTail
  \/ StorePending
  \/ RaiseFlags
  \/ WakeWorkers
  \/ ClaimLoop(Main)
  \/ SpinExit
  \/ LowerFlags
  \/ SignalShutdown
  \/ JoinAll

\* What the callers of the pool choose to do.
Caller ==
  \/ \E n \in 1 .. MaxTotal : Dispatch(n) \/ DispatchN(n)
  \/ ResetCancel
  \/ StartFree

\* After ray_pool_free there is nothing left to do.
Terminated == pc[Main] = "freed" /\ UNCHANGED vars

Next ==
  \/ Caller
  \/ Cancel
  \/ MainStep
  \/ Terminated
  \/ \E w \in Worker : WorkerStep(w)

\* Every thread is scheduled: no step that stays enabled waits for ever.
Fairness == WF_vars(MainStep) /\ \A w \in Worker : WF_vars(WorkerStep(w))

Spec == Init /\ [][Next]_vars /\ Fairness

-----------------------------------------------------------------------------
(* The assumption under which the protocol is correct: while the producer  *)
(* is between two stores of a publication (pool.c:265-267), no worker is   *)
(* between its fetch-and-add and the comparison with task_count, and none  *)
(* takes either step.                                                      *)

NoStragglerInside == \A w \in Worker : pc[w] # "bounds"

SerialMain == MainStep /\ (pc[Main] = "count" => NoStragglerInside)

SerialWorker(w) ==
  /\ WorkerStep(w)
  /\ pc[Main] \in Publishing => pc[w] # "claim"

SerialNext ==
  \/ Caller
  \/ Cancel
  \/ Terminated
  \/ SerialMain
  \/ \E w \in Worker : SerialWorker(w)

SerialFairness ==
  WF_vars(SerialMain) /\ \A w \in Worker : WF_vars(SerialWorker(w))

SerialSpec == Init /\ [][SerialNext]_vars /\ SerialFairness
-----------------------------------------------------------------------------
(* Properties. *)

TypeOK ==
  /\ cap \in 1 .. MaxRingCap
  /\ ring \in [0 .. cap - 1 -> Task]
  /\ taskCount \in Nat
  /\ taskTail \in Nat
  /\ pending \in Int
  /\ sem \in Nat
  /\ shutdown \in BOOLEAN
  /\ cancelled \in BOOLEAN
  /\ parFlag \in BOOLEAN
  /\ rcSync \in BOOLEAN
  /\ total \in Nat
  /\ grain \in Nat \ {0}
  /\ nTasks \in 0 .. cap
  /\ posted \in Nat
  /\ pc \in [Thread -> MainPoints \cup WorkerPoints]
  /\ pc[Main] \in MainPoints
  /\ \A w \in Worker : pc[w] \in WorkerPoints
  /\ idx \in [Thread -> Nat]
  /\ runs \in [Task -> Nat]
  /\ skips \in [Task -> Nat]
  /\ dispatches \in Nat

\* No task of a dispatch is given to two threads, or twice to one: fn is called
\* at most once for each slot of the ring between two publications.
AtMostOnce == \A i \in Task : runs[i] + skips[i] <= 1

\* ray_pool_dispatch "Blocks until all tasks complete": once the spin-wait is
\* over, every task of the dispatch was run or skipped exactly once, and from
\* then on no thread is inside fn or about to decrement pending.
Barrier ==
  pc[Main] \in Outside \cup {"unflag"} =>
    /\ \A i \in Task : i < nTasks => runs[i] + skips[i] = 1
    /\ \A t \in Thread : pc[t] \notin Holding

\* "Mark parallel region: workers are about to run, cross-heap freelist
\* modification is unsafe until spin-wait completes" (pool.c:269): no thread runs
\* a task while ray_parallel_flag is down.  A late worker does: it may claim once
\* pending is stored, before the flag is.
ParallelGuard == \A t \in Thread : pc[t] = "run" => parFlag

\* What the flags do promise: once raised they stay up, for the heaps and for
\* the main thread's reference counts, until no thread is inside a task.
FlagsOutlastTasks ==
  \A t \in Thread : pc[t] = "run" => pc[Main] = "flag" \/ (parFlag /\ rcSync)

\* The elements [start, end) of task i.
TaskStart(i) == i * grain
TaskEnd(i) == Least(TaskStart(i) + grain, total)
TasksOf(e) == {i \in 0 .. nTasks - 1 : TaskStart(i) <= e /\ e < TaskEnd(i)}

\* ray_pool_dispatch_n with more tasks than the ring can hold.
ClampedExact == grain = 1 /\ nTasks < total

\* The ranges of the published tasks partition [0, total_elems), also when the
\* ring could not grow and the grain was enlarged instead.
RangesTile ==
  ~ClampedExact => \A e \in 0 .. total - 1 : Cardinality(TasksOf(e)) = 1

\* A dispatch returns, whatever the workers' speed and whenever it is cancelled.
DispatchReturns == pc[Main] = "count" ~> pc[Main] = "idle"

\* ray_pool_free returns: every worker receives a token after the shutdown flag,
\* even if earlier tokens are still unclaimed.
FreeReturns == pc[Main] = "post" ~> pc[Main] = "freed"

-----------------------------------------------------------------------------
(* The inductive invariant behind AtMostOnce, Barrier and FlagsOutlastTasks. *)

\* pending has been published and the dispatch has not returned.
Live == {"flag", "wake", "claim", "bounds", "check", "run", "skip", "spin"}

Touched(i) == runs[i] + skips[i]

\* Slot s of the ring holds task s.
RingInv == \A s \in 0 .. cap - 1 : s < nTasks => ring[s] = s

\* What main's control point says of the shared words.
PublishInv ==
  /\ pc[Main] \in {"tail", "pend"} \cup Live \cup {"unflag"} => taskCount = nTasks
  /\ pc[Main] = "pend" => taskTail = 0
  /\ pc[Main] \in Outside \cup {"count"} => taskTail >= taskCount
  /\ pc[Main] \in {"spin", "unflag"} => taskTail >= nTasks
  /\ pc[Main] \in (Live \ {"flag"}) \cup {"unflag"} => parFlag /\ rcSync
  /\ pc[Main] \in Outside => nTasks = 0
  /\ pc[Main] \in Outside \cup {"count"} \cup Publishing =>
       \A i \in Task : Touched(i) = 0

\* Points at which the index a thread claimed still matters.
Claimed == Holding \cup {"bounds"}

\* A thread owns a task only while the dispatch is live.
OwnerInv ==
  /\ \A t \in Thread : pc[t] \in Holding =>
       pc[Main] \in Live /\ idx[t] < nTasks
  /\ \A t \in Thread : pc[t] \in Claimed => idx[t] < taskTail

\* No two threads own the same index.
UniqueInv ==
  \A t, u \in Thread :
    pc[t] \in Claimed /\ pc[u] \in Claimed /\ t # u => idx[t] # idx[u]

\* A worker past its fetch-and-add is never caught by a publication, and finds
\* nothing to do when no dispatch is live.
LateInv ==
  \A w \in Worker : pc[w] = "bounds" =>
    /\ pc[Main] \notin Publishing
    /\ pc[Main] \in Outside \cup {"count", "unflag"} => idx[w] >= taskCount

\* A task is touched when its owner starts it, once, and not before it is claimed.
TouchInv ==
  /\ \A t \in Thread :
       pc[t] \in {"bounds", "check"} /\ idx[t] < nTasks => Touched(idx[t]) = 0
  /\ \A t \in Thread : pc[t] \in {"run", "skip"} => Touched(idx[t]) = 1
  /\ \A i \in Task : Touched(i) > 0 /\ pc[Main] \in Live => i < taskTail
  /\ \A i \in Task : Touched(i) <= 1

ClaimInv == OwnerInv /\ UniqueInv /\ LateInv /\ TouchInv

\* Tasks nobody has started, or somebody has started and not settled.
OpenTasks ==
  {i \in 0 .. nTasks - 1 :
     \/ Touched(i) = 0
     \/ \E t \in Thread : pc[t] \in {"run", "skip"} /\ idx[t] = i}

CountInv ==
  /\ pc[Main] \in Live \cup {"unflag"} => pending = Cardinality(OpenTasks)
  /\ pc[Main] = "unflag" => OpenTasks = {}

\* pending counts exactly the tasks not settled yet, and a claimed index below
\* task_count belongs to one thread.
PoolInv == TypeOK /\ RingInv /\ PublishInv /\ ClaimInv /\ CountInv

-----------------------------------------------------------------------------
(* The abstract parallel loop this protocol implements. *)

\* Tasks of the current dispatch that are not finished: not started, or started
\* by a thread that has not decremented pending yet.
Unfinished ==
  {i \in 0 .. nTasks - 1 :
     \/ runs[i] + skips[i] = 0
     \/ \E t \in Thread : pc[t] \in {"run", "skip"} /\ ring[idx[t] % cap] = i}

Active == pc[Main] \notin Outside

Abstract == INSTANCE ParallelFor WITH
  active <- Active,
  todo   <- Unfinished

\* The pool implements the abstract loop: it returns only with nothing to do.
ImplementsParallelFor == Abstract!Spec

=============================================================================
