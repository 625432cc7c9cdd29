--------------------------- MODULE PoolLifecycle ---------------------------
(***************************************************************************)
(* The global pool singleton of src/core/pool.c.  Any thread may call      *)
(* ray_pool_get (which creates the pool lazily), ray_pool_init,            *)
(* ray_pool_destroy or ray_cancel at any moment; they agree through the    *)
(* atomic g_pool_init_state.  Creation allocates the ring, initialises the *)
(* semaphore and starts the workers, and undoes what it did when one step  *)
(* fails.  What the workers do between a wake-up and the shutdown is       *)
(* ThreadPool's subject.                                                   *)
(***************************************************************************)
EXTENDS Naturals, FiniteSets

CONSTANTS
  Caller,      \* threads that call the pool's API
  NWorkers,    \* background threads a pool has
  MaxCalls     \* bound: API calls of a behaviour

ASSUME LifecycleAssumption == NWorkers \in Nat /\ MaxCalls \in Nat

VARIABLES
  poolState,   \* g_pool_init_state
  ring,        \* g_pool.tasks is allocated
  sem,         \* g_pool.work_ready: initialised, and its tokens
  shutdown,    \* g_pool.shutdown
  cancelled,   \* g_pool.cancelled
  worker,      \* each background thread
  pc,          \* control point of each caller
  apiCall,     \* the API call each caller is in
  i,           \* loop index of the caller that creates or frees the pool
  ret,         \* what the last call of each caller returned
  calls        \* API calls started

poolVars == <<poolState, ring, sem, shutdown, cancelled, worker, pc, apiCall, i, ret, calls>>

Id == 1 .. NWorkers
Uninit == 0
Initializing == 1
Ready == 2
Destroying == 3

\* Points inside ray_pool_create, and inside its cleanup paths or ray_pool_free.
CreatePoints == {"alloc", "seminit", "spawn", "publish"}
FreePoints == {"post", "join", "release"}
Points == {"idle", "load", "cas", "spin", "initspin", "destroycas", "store"}
            \cup CreatePoints \cup FreePoints

NoSem == [live |-> FALSE, tokens |-> 0]

LifecycleInit ==
  /\ poolState = Uninit
  /\ ring = FALSE
  /\ sem = NoSem
  /\ shutdown = FALSE
  /\ cancelled = FALSE
  /\ worker = [w \in Id |-> "none"]
  /\ pc = [t \in Caller |-> "idle"]
  /\ apiCall = [t \in Caller |-> "none"]
  /\ i = 0
  /\ ret = [t \in Caller |-> "none"]
  /\ calls = 0

GoTo(t, p) == pc' = [pc EXCEPT ![t] = p]

\* A call that ends returns r; ray_cancel goes on with the pool it got.
Answer(t, r) ==
  /\ GoTo(t, IF apiCall[t] = "cancel" /\ r = "pool" THEN "store" ELSE "idle")
  /\ ret' = [ret EXCEPT ![t] = r]

-----------------------------------------------------------------------------
(* The calls. *)

FirstPoint(c) == CASE c = "init" -> "cas"
                   [] c = "destroy" -> "destroycas"
                   [] OTHER -> "load"

Start(t, c) ==
  /\ pc[t] = "idle"
  /\ calls < MaxCalls
  /\ calls' = calls + 1
  /\ apiCall' = [apiCall EXCEPT ![t] = c]
  /\ ret' = [ret EXCEPT ![t] = "none"]
  /\ GoTo(t, FirstPoint(c))
  /\ UNCHANGED <<poolState, ring, sem, shutdown, cancelled, worker, i>>

\* ray_pool_get: the first load of the state.
GetLoad(t) ==
  /\ pc[t] = "load"
  /\ \/ poolState = Ready /\ Answer(t, "pool")
     \/ poolState = Uninit /\ GoTo(t, "cas") /\ UNCHANGED ret
     \/ poolState \notin {Ready, Uninit} /\ GoTo(t, "spin") /\ UNCHANGED ret
  /\ UNCHANGED <<poolState, ring, sem, shutdown, cancelled, worker, apiCall, i, calls>>

\* The compare-and-exchange 0 -> 1 of ray_pool_get and ray_pool_init.  The
\* winner enters ray_pool_create, whose memset clears the flags.
CasInit(t) ==
  /\ pc[t] = "cas"
  /\ IF poolState = Uninit
       THEN /\ poolState' = Initializing
            /\ shutdown' = FALSE
            /\ cancelled' = FALSE
            /\ worker' = [w \in Id |-> "none"]
            /\ GoTo(t, "alloc")
            /\ UNCHANGED ret
       ELSE /\ IF apiCall[t] = "init"
                 THEN IF poolState = Initializing
                        THEN GoTo(t, "initspin") /\ UNCHANGED ret
                        ELSE Answer(t, "ok")
                 ELSE GoTo(t, "spin") /\ UNCHANGED ret
            /\ UNCHANGED <<poolState, shutdown, cancelled, worker>>
  /\ UNCHANGED <<ring, sem, apiCall, i, calls>>

GetSpin(t) ==
  /\ pc[t] = "spin"
  /\ \/ poolState = Ready /\ Answer(t, "pool")
     \/ poolState = Uninit /\ Answer(t, "null")
  /\ UNCHANGED <<poolState, ring, sem, shutdown, cancelled, worker, apiCall, i, calls>>

InitSpin(t) ==
  /\ pc[t] = "initspin"
  /\ poolState # Initializing
  /\ Answer(t, "ok")
  /\ UNCHANGED <<poolState, ring, sem, shutdown, cancelled, worker, apiCall, i, calls>>

\* ray_cancel's store, to whatever pool the static variable holds by then.
CancelStore(t) ==
  /\ pc[t] = "store"
  /\ cancelled' = TRUE
  /\ GoTo(t, "idle")
  /\ UNCHANGED <<poolState, ring, sem, shutdown, worker, apiCall, i, ret, calls>>

-----------------------------------------------------------------------------
(* ray_pool_create. *)

Failure(t) == Answer(t, IF apiCall[t] = "init" THEN "error" ELSE "null")

\* The ring of tasks; on failure the state goes back to 0.
AllocRing(t) ==
  /\ pc[t] = "alloc"
  /\ \/ ring' = TRUE /\ GoTo(t, "seminit") /\ UNCHANGED <<poolState, ret>>
     \/ poolState' = Uninit /\ Failure(t) /\ UNCHANGED ring
  /\ UNCHANGED <<sem, shutdown, cancelled, worker, apiCall, i, calls>>

\* The semaphore and the array of thread handles.
SemInit(t) ==
  /\ pc[t] = "seminit"
  /\ \/ /\ sem' = [live |-> TRUE, tokens |-> 0]
        /\ GoTo(t, "spawn")
        /\ i' = 0
        /\ UNCHANGED <<poolState, ring, ret>>
     \/ /\ ring' = FALSE
        /\ sem' = NoSem
        /\ poolState' = Uninit
        /\ Failure(t)
        /\ UNCHANGED i
  /\ UNCHANGED <<shutdown, cancelled, worker, apiCall, calls>>

\* Faulty variant: a thread that cannot be started is skipped.
SpawnAndGoOn(t) ==
  /\ pc[t] = "spawn"
  /\ IF i < NWorkers
       THEN /\ \/ worker' = [worker EXCEPT ![i + 1] = "wait"]
               \/ UNCHANGED worker
            /\ i' = i + 1
            /\ UNCHANGED <<shutdown, pc>>
       ELSE GoTo(t, "publish") /\ UNCHANGED <<worker, shutdown, i>>
  /\ UNCHANGED <<poolState, ring, sem, cancelled, apiCall, ret, calls>>

\* Start worker i + 1, or give up: set shutdown and undo what was done.
Spawn(t) ==
  /\ pc[t] = "spawn"
  /\ \/ /\ i < NWorkers
        /\ worker' = [worker EXCEPT ![i + 1] = "wait"]
        /\ i' = i + 1
        /\ UNCHANGED <<shutdown, pc>>
     \/ /\ i < NWorkers
        /\ shutdown' = TRUE
        /\ GoTo(t, "post")
        /\ UNCHANGED <<worker, i>>
     \/ /\ i = NWorkers
        /\ GoTo(t, "publish")
        /\ UNCHANGED <<worker, shutdown, i>>
  /\ UNCHANGED <<poolState, ring, sem, cancelled, apiCall, ret, calls>>

Publish(t) ==
  /\ pc[t] = "publish"
  /\ poolState' = Ready
  /\ Answer(t, IF apiCall[t] = "init" THEN "ok" ELSE "pool")
  /\ UNCHANGED <<ring, sem, shutdown, cancelled, worker, apiCall, i, calls>>

-----------------------------------------------------------------------------
(* ray_pool_destroy, and the cleanup shared with a failed ray_pool_create. *)

\* Faulty variant: the state is read and then stored, not exchanged.
LoadDestroy(t) ==
  /\ pc[t] = "destroycas"
  /\ IF poolState \in {Ready, Destroying}
       THEN /\ poolState' = Destroying
            /\ shutdown' = TRUE
            /\ i' = NWorkers
            /\ GoTo(t, "post")
            /\ UNCHANGED ret
       ELSE Answer(t, "done") /\ UNCHANGED <<poolState, shutdown, i>>
  /\ UNCHANGED <<ring, sem, cancelled, worker, apiCall, calls>>

\* The compare-and-exchange 2 -> 3; the winner sets shutdown.
CasDestroy(t) ==
  /\ pc[t] = "destroycas"
  /\ IF poolState = Ready
       THEN /\ poolState' = Destroying
            /\ shutdown' = TRUE
            /\ i' = NWorkers
            /\ GoTo(t, "post")
            /\ UNCHANGED ret
       ELSE Answer(t, "done") /\ UNCHANGED <<poolState, shutdown, i>>
  /\ UNCHANGED <<ring, sem, cancelled, worker, apiCall, calls>>

\* Faulty variant: one token too few when creation failed half-way.
PostOneShort(t) ==
  /\ pc[t] = "post"
  /\ sem' = [sem EXCEPT !.tokens = @ + (IF i > 0 THEN i - 1 ELSE 0)]
  /\ GoTo(t, "join")
  /\ UNCHANGED <<poolState, ring, shutdown, cancelled, worker, apiCall, i, ret, calls>>

\* One token for each of the i workers that were started.
PostTokens(t) ==
  /\ pc[t] = "post"
  /\ sem' = [sem EXCEPT !.tokens = @ + i]
  /\ GoTo(t, "join")
  /\ UNCHANGED <<poolState, ring, shutdown, cancelled, worker, apiCall, i, ret, calls>>

\* ray_thread_join on each worker that was started.
JoinWorkers(t) ==
  /\ pc[t] = "join"
  /\ \A w \in 1 .. i : worker[w] = "gone"
  /\ GoTo(t, "release")
  /\ UNCHANGED <<poolState, ring, sem, shutdown, cancelled, worker, apiCall, i, ret, calls>>

\* Free the ring and the semaphore, and only then let the next call in.
\* ray_pool_free clears the whole structure, a failed creation leaves it.
Release(t) ==
  /\ pc[t] = "release"
  /\ ring' = FALSE
  /\ sem' = NoSem
  /\ poolState' = Uninit
  /\ IF apiCall[t] = "destroy"
       THEN /\ shutdown' = FALSE
            /\ cancelled' = FALSE
            /\ Answer(t, "done")
       ELSE Failure(t) /\ UNCHANGED <<shutdown, cancelled>>
  /\ UNCHANGED <<worker, apiCall, i, calls>>

\* worker_loop, as far as the pool's life goes: a token wakes a worker, which
\* ends if it reads shutdown.
WorkerWake(w) ==
  /\ worker[w] = "wait"
  /\ sem.tokens > 0
  /\ sem' = [sem EXCEPT !.tokens = @ - 1]
  /\ worker' = [worker EXCEPT ![w] = IF shutdown THEN "gone" ELSE "wait"]
  /\ UNCHANGED <<poolState, ring, shutdown, cancelled, pc, apiCall, i, ret, calls>>

-----------------------------------------------------------------------------
Create(t) == AllocRing(t) \/ SemInit(t) \/ Spawn(t) \/ Publish(t)
Free(t) == PostTokens(t) \/ JoinWorkers(t) \/ Release(t)

Step(t) ==
  \/ GetLoad(t)
  \/ CasInit(t)
  \/ GetSpin(t)
  \/ InitSpin(t)
  \/ CancelStore(t)
  \/ CasDestroy(t)
  \/ Create(t)
  \/ Free(t)

LifecycleNext ==
  \/ \E t \in Caller :
       Step(t) \/ \E c \in {"get", "init", "destroy", "cancel"} : Start(t, c)
  \/ \E w \in Id : WorkerWake(w)

LifecycleFairness ==
  /\ \A t \in Caller : WF_poolVars(Step(t))
  /\ \A w \in Id : WF_poolVars(WorkerWake(w))

LifecycleSpec == LifecycleInit /\ [][LifecycleNext]_poolVars /\ LifecycleFairness

-----------------------------------------------------------------------------
LifecycleTypeOK ==
  /\ poolState \in {Uninit, Initializing, Ready, Destroying}
  /\ ring \in BOOLEAN
  /\ sem \in [live : BOOLEAN, tokens : 0 .. NWorkers]
  /\ shutdown \in BOOLEAN
  /\ cancelled \in BOOLEAN
  /\ worker \in [Id -> {"none", "wait", "gone"}]
  /\ pc \in [Caller -> Points]
  /\ i \in 0 .. NWorkers
  /\ calls \in 0 .. MaxCalls

\* At most one thread is inside ray_pool_create or ray_pool_free, however many
\* race to initialise or destroy the pool.
Owners == {t \in Caller : pc[t] \in CreatePoints \cup FreePoints}
OneOwner == Cardinality(Owners) <= 1

\* A worker thread never outlives the ring and the semaphore it sleeps on, also
\* when the creation fails after some workers were started.
WorkersInsidePool == \A w \in Id : worker[w] = "wait" => ring /\ sem.live

\* A pool that ray_pool_get may return is complete: all workers started, none
\* told to stop, everything allocated.
ReadyIsComplete ==
  poolState = Ready =>
    ring /\ sem.live /\ ~shutdown /\ \A w \in Id : worker[w] = "wait"

\* When the state is 0 nothing of an earlier pool is left.
UninitIsClean ==
  poolState = Uninit => ~ring /\ ~sem.live /\ \A w \in Id : worker[w] # "wait"

\* Every call returns: no caller spins for ever on a state nobody will change,
\* and no join waits for a worker without a token.
CallsReturn == \A t \in Caller : pc[t] # "idle" ~> pc[t] = "idle"

-----------------------------------------------------------------------------
(* The inductive invariant behind the four properties above. *)

OwnerPoints == CreatePoints \cup FreePoints

\* The workers up to the loop index sleep, the others were not started.
Started(n) == \A w \in Id : worker[w] = IF w <= n THEN "wait" ELSE "none"

Whole == ring /\ sem.live

\* What the thread that creates or frees the pool may rely on at its point.
AtPoint(p) ==
  CASE p = "alloc"   -> poolState = Initializing /\ ~ring /\ sem = NoSem /\ ~shutdown /\ Started(0)
    [] p = "seminit" -> poolState = Initializing /\ ring /\ sem = NoSem /\ ~shutdown /\ Started(0)
    [] p = "spawn"   -> poolState = Initializing /\ Whole /\ sem.tokens = 0 /\ ~shutdown /\ Started(i)
    [] p = "publish" -> poolState = Initializing /\ Whole /\ sem.tokens = 0 /\ ~shutdown /\ Started(NWorkers)
    [] p = "post"    -> Whole /\ sem.tokens = 0 /\ shutdown /\ Started(i)
    [] p = "join"    -> Whole /\ shutdown /\ \A w \in Id : w > i => worker[w] = "none"
    [] p = "release" -> Whole /\ shutdown /\ \A w \in Id : worker[w] # "wait"
    [] OTHER         -> TRUE

\* There is no second owner, and none when the state says there is none.
OwnerInv ==
  /\ \A t, u \in Caller : pc[t] \in OwnerPoints /\ pc[u] \in OwnerPoints => t = u
  /\ \A t \in Caller : pc[t] \in OwnerPoints => poolState \in {Initializing, Destroying}

PointInv == \A t \in Caller : AtPoint(pc[t])

\* A pool in use: no token that a worker could take for its shutdown is left.
ReadyInv == poolState = Ready => Whole /\ sem.tokens = 0 /\ ~shutdown /\ Started(NWorkers)

CleanInv == poolState = Uninit => ~ring /\ sem = NoSem /\ \A w \in Id : worker[w] # "wait"

\* Whoever creates or frees the pool finds it as its point promises; a pool in
\* use is whole, and nothing is left when there is none.
LifecycleInv ==
  LifecycleTypeOK /\ OwnerInv /\ PointInv /\ ReadyInv /\ CleanInv /\ WorkersInsidePool

=============================================================================
