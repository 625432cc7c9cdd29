------------------------ MODULE PoolLifecycle_proofs ------------------------
(***************************************************************************)
(* The safety of the pool singleton, for every set of callers and every    *)
(* number of workers.  None of its properties is inductive: that nobody    *)
(* sleeps on a semaphore that is gone depends on where the thread that     *)
(* creates or frees the pool is.  LifecycleInv says what is allocated,     *)
(* started and told to stop at each of its points; it is inductive.        *)
(***************************************************************************)
EXTENDS PoolLifecycle, FiniteSetTheorems, TLAPS

-----------------------------------------------------------------------------
\* In the initial state there is no pool and nobody is in a call.
LEMMA InitEstablishes == ASSUME LifecycleInit PROVE LifecycleInv
<1> USE LifecycleAssumption
<1>1. LifecycleTypeOK
  <2>1. sem \in [live : BOOLEAN, tokens : 0 .. NWorkers] /\ i \in 0 .. NWorkers
    BY DEF LifecycleInit, NoSem
  <2>2. calls \in 0 .. MaxCalls
    BY DEF LifecycleInit
  <2>3. worker \in [Id -> {"none", "wait", "gone"}] /\ pc \in [Caller -> Points]
    BY DEF LifecycleInit, Points
  <2> QED
    BY <2>1, <2>2, <2>3 DEF LifecycleInit, LifecycleTypeOK, Uninit
<1>2. OwnerInv
  BY DEF LifecycleInit, OwnerInv, OwnerPoints, CreatePoints, FreePoints
<1>3. PointInv
  BY DEF LifecycleInit, PointInv, AtPoint
<1>4. ReadyInv /\ CleanInv /\ WorkersInsidePool
  BY DEF WorkersInsidePool, LifecycleInit, ReadyInv, CleanInv, Uninit, Ready
<1> QED
  BY <1>1, <1>2, <1>3, <1>4 DEF LifecycleInv

\* A point outside creation and release promises nothing.
LEMMA NoPromise == ASSUME NEW p, p \notin OwnerPoints PROVE AtPoint(p)
  BY DEF AtPoint, OwnerPoints, CreatePoints, FreePoints

\* When t is the owner, or nobody is, a step of t is judged by the point it
\* leads t to: no other thread relies on anything.
LEMMA OthersIdle ==
  ASSUME OwnerInv, NEW t \in Caller,
         pc[t] \in OwnerPoints \/ poolState \in {Uninit, Ready},
         NEW u \in Caller, u # t
  PROVE  pc[u] \notin OwnerPoints
  BY DEF OwnerInv, Uninit, Initializing, Ready, Destroying

\* ... so that both invariants about the owner follow from what t does.
LEMMA OwnerMoves ==
  ASSUME LifecycleTypeOK, OwnerInv, NEW t \in Caller,
         pc[t] \in OwnerPoints \/ poolState \in {Uninit, Ready},
         NEW p \in Points, GoTo(t, p),
         p \in OwnerPoints => poolState' \in {Initializing, Destroying},
         AtPoint(p)'
  PROVE  OwnerInv' /\ PointInv'
<1>1. pc'[t] = p /\ \A u \in Caller \ {t} : pc'[u] = pc[u]
  BY DEF LifecycleTypeOK, GoTo
<1>2. \A u \in Caller \ {t} : pc'[u] \notin OwnerPoints
  BY <1>1, OthersIdle
<1>3. OwnerInv'
  BY <1>1, <1>2 DEF OwnerInv
<1>4. PointInv'
  <2> SUFFICES ASSUME NEW u \in Caller PROVE AtPoint(pc[u])'
    BY DEF PointInv
  <2>1. CASE u = t
    BY <1>1, <2>1
  <2>2. CASE u # t
    <3>1. pc'[u] \notin OwnerPoints
      BY <1>2, <2>2
    <3> QED
      BY <3>1 DEF AtPoint, OwnerPoints, CreatePoints, FreePoints
  <2> QED
    BY <2>1, <2>2
<1> QED
  BY <1>3, <1>4

\* A step of a thread that is not the owner and touches no part of the pool but
\* the cancel flag keeps the invariant.
LEMMA Bystander ==
  ASSUME LifecycleInv, NEW t \in Caller,
         pc[t] \notin OwnerPoints,
         NEW p \in Points \ OwnerPoints, GoTo(t, p),
         UNCHANGED <<poolState, ring, sem, shutdown, worker, i>>,
         cancelled' \in BOOLEAN, calls' \in 0 .. MaxCalls
  PROVE  LifecycleInv'
<1> USE DEF LifecycleInv
<1>1. pc'[t] = p /\ \A u \in Caller \ {t} : pc'[u] = pc[u]
  BY DEF LifecycleTypeOK, GoTo
<1>2. LifecycleTypeOK'
  BY DEF LifecycleTypeOK, GoTo
<1>3. OwnerInv'
  BY <1>1 DEF OwnerInv
<1>4. PointInv'
  <2> SUFFICES ASSUME NEW u \in Caller PROVE AtPoint(pc[u])'
    BY DEF PointInv
  <2>1. CASE u = t
    BY <1>1, <2>1 DEF AtPoint, OwnerPoints, CreatePoints, FreePoints
  <2>2. CASE u # t
    <3>1. AtPoint(pc[u]) /\ pc'[u] = pc[u]
      BY <1>1, <2>2 DEF PointInv
    <3> QED
      BY <3>1 DEF AtPoint, Whole, Started
  <2> QED
    BY <2>1, <2>2
<1>5. ReadyInv' /\ CleanInv' /\ WorkersInsidePool'
  BY DEF WorkersInsidePool, ReadyInv, CleanInv, Whole, Started
<1> QED
  BY <1>2, <1>3, <1>4, <1>5

-----------------------------------------------------------------------------
(* One lemma for each action. *)

\* A call starts; its first point promises nothing.
LEMMA StartPreserves ==
  ASSUME LifecycleInv, NEW t \in Caller,
         NEW c \in {"get", "init", "destroy", "cancel"}, Start(t, c)
  PROVE  LifecycleInv'
<1> USE LifecycleAssumption
<1>1. PICK p \in {"cas", "destroycas", "load"} : p = FirstPoint(c)
  BY DEF FirstPoint
<1>2. p \in Points \ OwnerPoints /\ pc[t] \notin OwnerPoints
  BY <1>1 DEF Start, Points, OwnerPoints, CreatePoints, FreePoints
<1>3. calls' \in 0 .. MaxCalls /\ cancelled' \in BOOLEAN
  BY DEF Start, LifecycleInv, LifecycleTypeOK
<1> QED
  BY <1>1, <1>2, <1>3, Bystander DEF Start

\* A call returns from a point outside creation and release.
LEMMA ReturnPreserves ==
  ASSUME LifecycleInv, NEW t \in Caller, pc[t] \notin OwnerPoints,
         NEW r, Answer(t, r),
         UNCHANGED <<poolState, ring, sem, shutdown, cancelled, worker, i, calls>>
  PROVE  LifecycleInv'
<1>1. PICK p \in {"store", "idle"} : GoTo(t, p)
  BY DEF Answer
<1>2. p \in Points \ OwnerPoints
  BY <1>1 DEF Points, OwnerPoints, CreatePoints, FreePoints
<1>3. calls' \in 0 .. MaxCalls /\ cancelled' \in BOOLEAN
  BY DEF LifecycleInv, LifecycleTypeOK
<1> QED
  BY <1>1, <1>2, <1>3, Bystander

\* The points at which a call reads the state and waits or returns.
LEMMA ReadersPreserve ==
  ASSUME LifecycleInv, NEW t \in Caller,
         GetLoad(t) \/ GetSpin(t) \/ InitSpin(t) \/ CancelStore(t)
  PROVE  LifecycleInv'
<1>1. pc[t] \notin OwnerPoints
  BY DEF GetLoad, GetSpin, InitSpin, CancelStore, OwnerPoints, CreatePoints, FreePoints
<1>2. \A p \in {"cas", "spin", "idle"} : p \in Points \ OwnerPoints
  BY DEF Points, OwnerPoints, CreatePoints, FreePoints
<1>3. calls' \in 0 .. MaxCalls /\ cancelled' \in BOOLEAN
  BY DEF GetLoad, GetSpin, InitSpin, CancelStore, LifecycleInv, LifecycleTypeOK
<1>4. CASE \E r : Answer(t, r) /\ UNCHANGED <<poolState, ring, sem, shutdown, cancelled, worker, i, calls>>
  BY <1>1, <1>4, ReturnPreserves
<1>5. CASE \E p \in {"cas", "spin", "idle"} :
             GoTo(t, p) /\ UNCHANGED <<poolState, ring, sem, shutdown, worker, i>>
  BY <1>1, <1>2, <1>3, <1>5, Bystander
<1>6. CASE GetLoad(t)
  BY <1>4, <1>5, <1>6 DEF GetLoad
<1>7. CASE GetSpin(t)
  BY <1>4, <1>7 DEF GetSpin
<1>8. CASE InitSpin(t)
  BY <1>4, <1>8 DEF InitSpin
<1>9. CASE CancelStore(t)
  BY <1>5, <1>9 DEF CancelStore
<1> QED
  BY <1>6, <1>7, <1>8, <1>9

\* The winner of the exchange finds nothing of an earlier pool.
LEMMA CasInitPreserves ==
  ASSUME LifecycleInv, NEW t \in Caller, CasInit(t)
  PROVE  LifecycleInv'
<1>1. pc[t] \notin OwnerPoints
  BY DEF CasInit, OwnerPoints, CreatePoints, FreePoints
<1>2. CASE poolState = Uninit
  <2>1. /\ poolState' = Initializing /\ ~shutdown' /\ cancelled' = FALSE
        /\ worker' = [w \in Id |-> "none"]
        /\ GoTo(t, "alloc")
        /\ UNCHANGED <<ring, sem, i, calls>>
    BY <1>2 DEF CasInit
  <2>2. ~ring /\ sem = NoSem
    BY <1>2 DEF LifecycleInv, CleanInv
  <2>3. "alloc" \in Points
    BY DEF Points, CreatePoints
  <2>4. LifecycleTypeOK'
    BY <2>1, <2>3 DEF LifecycleInv, LifecycleTypeOK, CasInit, GoTo
  <2>5. AtPoint("alloc")'
    BY <2>1, <2>2 DEF AtPoint, Started, Id
  <2>6. OwnerInv' /\ PointInv'
    BY <1>2, <2>1, <2>3, <2>5, OwnerMoves DEF LifecycleInv
  <2>7. ReadyInv' /\ CleanInv' /\ WorkersInsidePool'
    BY <2>1 DEF WorkersInsidePool, ReadyInv, CleanInv, Uninit, Initializing, Ready
  <2> QED
    BY <2>4, <2>6, <2>7 DEF LifecycleInv
<1>3. CASE poolState # Uninit
  <2>1. /\ UNCHANGED <<poolState, ring, sem, shutdown, cancelled, worker, i, calls>>
        /\ \/ Answer(t, "ok")
           \/ \E p \in {"initspin", "spin"} : GoTo(t, p)
    BY <1>3 DEF CasInit
  <2>2. \A p \in {"initspin", "spin"} : p \in Points \ OwnerPoints
    BY DEF Points, OwnerPoints, CreatePoints, FreePoints
  <2>3. calls' \in 0 .. MaxCalls /\ cancelled' \in BOOLEAN
    BY <2>1 DEF LifecycleInv, LifecycleTypeOK
  <2>4. CASE Answer(t, "ok")
    BY <1>1, <2>1, <2>4, ReturnPreserves
  <2>5. CASE \E p \in {"initspin", "spin"} : GoTo(t, p)
    BY <1>1, <2>1, <2>2, <2>3, <2>5, Bystander
  <2> QED
    BY <2>1, <2>4, <2>5
<1> QED
  BY <1>2, <1>3

\* A call of the owner that ends leads to a point that promises nothing.
LEMMA OwnerReturns ==
  ASSUME LifecycleTypeOK, OwnerInv, NEW t \in Caller, pc[t] \in OwnerPoints,
         \E p \in {"store", "idle"} : GoTo(t, p)
  PROVE  OwnerInv' /\ PointInv' /\ pc' \in [Caller -> Points]
<1>1. PICK p \in {"store", "idle"} : GoTo(t, p)
  OBVIOUS
<1>2. p \in Points /\ p \notin OwnerPoints
  BY DEF Points, OwnerPoints, CreatePoints, FreePoints
<1>3. AtPoint(p)'
  BY DEF AtPoint
<1> QED
  BY <1>1, <1>2, <1>3, OwnerMoves DEF LifecycleTypeOK, GoTo

\* The ring is there, or the state is 0 again and nothing is left.
LEMMA AllocRingPreserves ==
  ASSUME LifecycleInv, NEW t \in Caller, AllocRing(t)
  PROVE  LifecycleInv'
<1>1. pc[t] = "alloc" /\ pc[t] \in OwnerPoints
  BY DEF AllocRing, OwnerPoints, CreatePoints
<1>2. poolState = Initializing /\ ~ring /\ sem = NoSem /\ ~shutdown /\ Started(0)
  BY <1>1 DEF LifecycleInv, PointInv, AtPoint
<1>3. CASE ring' = TRUE /\ GoTo(t, "seminit") /\ UNCHANGED poolState
  <2>1. AtPoint("seminit")' /\ poolState' = Initializing
    BY <1>2, <1>3 DEF AllocRing, AtPoint, Started
  <2>2. "seminit" \in Points
    BY DEF Points, CreatePoints
  <2>3. OwnerInv' /\ PointInv'
    BY <1>1, <1>3, <2>1, <2>2, OwnerMoves DEF LifecycleInv
  <2>4. LifecycleTypeOK'
    BY <1>3, <2>2 DEF AllocRing, LifecycleInv, LifecycleTypeOK, GoTo
  <2>5. ReadyInv' /\ CleanInv' /\ WorkersInsidePool'
    BY <1>2, <2>1, LifecycleAssumption
    DEF WorkersInsidePool, AllocRing, Started, Id, ReadyInv, CleanInv, Initializing, Ready, Uninit
  <2> QED
    BY <2>3, <2>4, <2>5 DEF LifecycleInv
<1>4. CASE poolState' = Uninit /\ Failure(t) /\ UNCHANGED ring
  <2>1. OwnerInv' /\ PointInv' /\ pc' \in [Caller -> Points]
    BY <1>1, <1>4, OwnerReturns DEF Failure, Answer, LifecycleInv
  <2>2. LifecycleTypeOK'
    BY <1>4, <2>1 DEF AllocRing, LifecycleInv, LifecycleTypeOK
  <2>3. ReadyInv'
    BY <1>4 DEF ReadyInv, Ready, Uninit
  <2>4. CleanInv' /\ WorkersInsidePool'
    BY <1>2, <1>4, LifecycleAssumption DEF WorkersInsidePool, AllocRing, CleanInv, Started, Id
  <2> QED
    BY <2>1, <2>2, <2>3, <2>4 DEF LifecycleInv
<1> QED
  BY <1>3, <1>4 DEF AllocRing

\* The semaphore starts without tokens.
LEMMA SemInitPreserves ==
  ASSUME LifecycleInv, NEW t \in Caller, SemInit(t)
  PROVE  LifecycleInv'
<1> USE LifecycleAssumption
<1>1. pc[t] = "seminit" /\ pc[t] \in OwnerPoints
  BY DEF SemInit, OwnerPoints, CreatePoints
<1>2. poolState = Initializing /\ ring /\ sem = NoSem /\ ~shutdown /\ Started(0)
  BY <1>1 DEF LifecycleInv, PointInv, AtPoint
<1>3. CASE /\ sem' = [live |-> TRUE, tokens |-> 0] /\ GoTo(t, "spawn") /\ i' = 0
           /\ UNCHANGED <<poolState, ring>>
  <2>1. AtPoint("spawn")' /\ poolState' = Initializing
    BY <1>2, <1>3 DEF SemInit, AtPoint, Started, Whole
  <2>2. "spawn" \in Points
    BY DEF Points, CreatePoints
  <2>3. OwnerInv' /\ PointInv'
    BY <1>1, <1>3, <2>1, <2>2, OwnerMoves DEF LifecycleInv
  <2>4. i' \in 0 .. NWorkers /\ sem' \in [live : BOOLEAN, tokens : 0 .. NWorkers]
    BY <1>3
  <2>5. LifecycleTypeOK'
    BY <1>3, <2>2, <2>4 DEF SemInit, LifecycleInv, LifecycleTypeOK, GoTo
  <2>6. ReadyInv' /\ CleanInv' /\ WorkersInsidePool'
    BY <1>2, <2>1
    DEF WorkersInsidePool, SemInit, Started, Id, ReadyInv, CleanInv, Initializing, Ready, Uninit
  <2> QED
    BY <2>3, <2>5, <2>6 DEF LifecycleInv
<1>4. CASE ring' = FALSE /\ sem' = NoSem /\ poolState' = Uninit /\ Failure(t) /\ UNCHANGED i
  <2>1. OwnerInv' /\ PointInv' /\ pc' \in [Caller -> Points]
    BY <1>1, <1>4, OwnerReturns DEF Failure, Answer, LifecycleInv
  <2>2. sem' \in [live : BOOLEAN, tokens : 0 .. NWorkers]
    BY <1>4 DEF NoSem
  <2>3. LifecycleTypeOK'
    BY <1>4, <2>1, <2>2 DEF SemInit, LifecycleInv, LifecycleTypeOK
  <2>4. ReadyInv'
    BY <1>4 DEF ReadyInv, Ready, Uninit
  <2>5. CleanInv' /\ WorkersInsidePool'
    BY <1>2, <1>4 DEF WorkersInsidePool, SemInit, CleanInv, Started, Id
  <2> QED
    BY <2>1, <2>3, <2>4, <2>5 DEF LifecycleInv
<1> QED
  BY <1>3, <1>4 DEF SemInit

\* Worker i + 1 sleeps, or the i workers there are will be told to stop, or all
\* of them are there.
LEMMA SpawnPreserves ==
  ASSUME LifecycleInv, NEW t \in Caller, Spawn(t)
  PROVE  LifecycleInv'
<1> USE LifecycleAssumption
<1>1. pc[t] = "spawn" /\ pc[t] \in OwnerPoints
  BY DEF Spawn, OwnerPoints, CreatePoints
<1>2. poolState = Initializing /\ Whole /\ sem.tokens = 0 /\ ~shutdown /\ Started(i)
  BY <1>1 DEF LifecycleInv, PointInv, AtPoint
<1>3. LifecycleTypeOK /\ OwnerInv
  BY DEF LifecycleInv
<1>4. poolState' = Initializing /\ ring' = ring /\ sem' = sem
  BY <1>2 DEF Spawn
<1>5. ReadyInv' /\ CleanInv' /\ WorkersInsidePool'
  BY <1>2, <1>4 DEF WorkersInsidePool, Whole, ReadyInv, CleanInv, Initializing, Ready, Uninit
<1>6. CASE /\ i < NWorkers /\ worker' = [worker EXCEPT ![i + 1] = "wait"] /\ i' = i + 1
           /\ UNCHANGED <<shutdown, pc>>
  <2>1. i' \in 0 .. NWorkers /\ worker' \in [Id -> {"none", "wait", "gone"}]
    BY <1>3, <1>6 DEF LifecycleTypeOK, Id
  <2>2. Started(i)'
    BY <1>2, <1>3, <1>6 DEF LifecycleTypeOK, Started, Id
  <2>3. AtPoint("spawn")' /\ "spawn" \in Points
    BY <1>2, <1>4, <1>6, <2>2 DEF AtPoint, Whole, Points, CreatePoints
  <2>4. GoTo(t, "spawn")
    BY <1>1, <1>3, <1>6 DEF LifecycleTypeOK, GoTo
  <2>5. OwnerInv' /\ PointInv'
    BY <1>1, <1>3, <1>4, <2>3, <2>4, OwnerMoves
  <2>6. LifecycleTypeOK'
    BY <1>3, <1>4, <1>6, <2>1 DEF Spawn, LifecycleTypeOK
  <2> QED
    BY <1>5, <2>5, <2>6 DEF LifecycleInv
<1>7. CASE i < NWorkers /\ shutdown' = TRUE /\ GoTo(t, "post") /\ UNCHANGED <<worker, i>>
  <2>1. AtPoint("post")' /\ "post" \in Points
    BY <1>2, <1>4, <1>7 DEF AtPoint, Whole, Started, Points, FreePoints
  <2>2. OwnerInv' /\ PointInv'
    BY <1>1, <1>3, <1>4, <1>7, <2>1, OwnerMoves
  <2>3. LifecycleTypeOK'
    BY <1>3, <1>4, <1>7, <2>1 DEF Spawn, LifecycleTypeOK, GoTo
  <2> QED
    BY <1>5, <2>2, <2>3 DEF LifecycleInv
<1>8. CASE i = NWorkers /\ GoTo(t, "publish") /\ UNCHANGED <<worker, shutdown, i>>
  <2>1. AtPoint("publish")' /\ "publish" \in Points
    BY <1>2, <1>4, <1>8 DEF AtPoint, Whole, Started, Points, CreatePoints
  <2>2. OwnerInv' /\ PointInv'
    BY <1>1, <1>3, <1>4, <1>8, <2>1, OwnerMoves
  <2>3. LifecycleTypeOK'
    BY <1>3, <1>4, <1>8, <2>1 DEF Spawn, LifecycleTypeOK, GoTo
  <2> QED
    BY <1>5, <2>2, <2>3 DEF LifecycleInv
<1> QED
  BY <1>6, <1>7, <1>8 DEF Spawn

\* What is published is a whole pool.
LEMMA PublishPreserves ==
  ASSUME LifecycleInv, NEW t \in Caller, Publish(t)
  PROVE  LifecycleInv'
<1>1. pc[t] = "publish" /\ pc[t] \in OwnerPoints
  BY DEF Publish, OwnerPoints, CreatePoints
<1>2. Whole /\ sem.tokens = 0 /\ ~shutdown /\ Started(NWorkers)
  BY <1>1 DEF LifecycleInv, PointInv, AtPoint
<1>3. OwnerInv' /\ PointInv' /\ pc' \in [Caller -> Points]
  BY <1>1, OwnerReturns DEF Publish, Answer, LifecycleInv
<1>4. LifecycleTypeOK'
  BY <1>3 DEF Publish, LifecycleInv, LifecycleTypeOK
<1>5. ReadyInv' /\ CleanInv' /\ WorkersInsidePool'
  BY <1>2 DEF WorkersInsidePool, Publish, ReadyInv, CleanInv, Whole, Started, Ready, Uninit
<1> QED
  BY <1>3, <1>4, <1>5 DEF LifecycleInv

\* The winner of the second exchange finds a whole pool without tokens.
LEMMA CasDestroyPreserves ==
  ASSUME LifecycleInv, NEW t \in Caller, CasDestroy(t)
  PROVE  LifecycleInv'
<1> USE LifecycleAssumption
<1>1. CASE poolState = Ready
  <2>1. /\ poolState' = Destroying /\ shutdown' = TRUE /\ i' = NWorkers /\ GoTo(t, "post")
        /\ UNCHANGED <<ring, sem, cancelled, worker, calls>>
    BY <1>1 DEF CasDestroy
  <2>2. Whole /\ sem.tokens = 0 /\ Started(NWorkers)
    BY <1>1 DEF LifecycleInv, ReadyInv
  <2>3. AtPoint("post")' /\ "post" \in Points
    BY <2>1, <2>2 DEF AtPoint, Whole, Started, Points, FreePoints
  <2>4. OwnerInv' /\ PointInv'
    BY <1>1, <2>1, <2>3, OwnerMoves DEF LifecycleInv
  <2>5. LifecycleTypeOK'
    BY <2>1, <2>3 DEF LifecycleInv, LifecycleTypeOK, GoTo
  <2>6. ReadyInv' /\ CleanInv' /\ WorkersInsidePool'
    BY <2>1, <2>2 DEF WorkersInsidePool, Whole, ReadyInv, CleanInv, Destroying, Ready, Uninit
  <2> QED
    BY <2>4, <2>5, <2>6 DEF LifecycleInv
<1>2. CASE poolState # Ready
  <2>1. pc[t] \notin OwnerPoints
    BY DEF CasDestroy, OwnerPoints, CreatePoints, FreePoints
  <2> QED
    BY <1>2, <2>1, ReturnPreserves DEF CasDestroy
<1> QED
  BY <1>1, <1>2

\* The owner makes the tokens; before that there were none.
LEMMA PostTokensPreserves ==
  ASSUME LifecycleInv, NEW t \in Caller, PostTokens(t)
  PROVE  LifecycleInv'
<1> USE LifecycleAssumption
<1>1. pc[t] = "post" /\ pc[t] \in OwnerPoints
  BY DEF PostTokens, OwnerPoints, FreePoints
<1>2. Whole /\ sem.tokens = 0 /\ shutdown /\ Started(i)
  BY <1>1 DEF LifecycleInv, PointInv, AtPoint
<1>3. LifecycleTypeOK /\ OwnerInv
  BY DEF LifecycleInv
<1>4. poolState \in {Initializing, Destroying}
  BY <1>1, <1>3 DEF OwnerInv
<1>5. sem' = [live |-> TRUE, tokens |-> i]
  <2>1. sem = [live |-> TRUE, tokens |-> 0] /\ i \in Nat
    BY <1>2, <1>3 DEF LifecycleTypeOK, Whole
  <2>2. sem' = [live |-> TRUE, tokens |-> 0 + i]
    BY <2>1, Zenon DEF PostTokens
  <2> QED
    BY <2>1, <2>2
<1>6. AtPoint("join")' /\ "join" \in Points
  BY <1>2, <1>3, <1>5
  DEF PostTokens, AtPoint, Whole, Started, Id, LifecycleTypeOK, Points, FreePoints
<1>7. OwnerInv' /\ PointInv'
  BY <1>1, <1>3, <1>4, <1>6, OwnerMoves DEF PostTokens
<1>8. LifecycleTypeOK'
  BY <1>3, <1>5, <1>6 DEF PostTokens, LifecycleTypeOK, GoTo
<1>9. ReadyInv' /\ CleanInv' /\ WorkersInsidePool'
  BY <1>2, <1>4, <1>5
  DEF WorkersInsidePool, Whole, PostTokens, ReadyInv, CleanInv, Initializing, Destroying, Ready, Uninit
<1> QED
  BY <1>7, <1>8, <1>9 DEF LifecycleInv

\* After the join no worker sleeps: the others were never started.
LEMMA JoinWorkersPreserves ==
  ASSUME LifecycleInv, NEW t \in Caller, JoinWorkers(t)
  PROVE  LifecycleInv'
<1> USE LifecycleAssumption
<1>1. pc[t] = "join" /\ pc[t] \in OwnerPoints
  BY DEF JoinWorkers, OwnerPoints, FreePoints
<1>2. Whole /\ shutdown /\ \A w \in Id : w > i => worker[w] = "none"
  BY <1>1 DEF LifecycleInv, PointInv, AtPoint
<1>3. LifecycleTypeOK /\ OwnerInv
  BY DEF LifecycleInv
<1>4. poolState \in {Initializing, Destroying}
  BY <1>1, <1>3 DEF OwnerInv
<1>5. \A w \in Id : worker[w] # "wait"
  BY <1>2, <1>3 DEF JoinWorkers, LifecycleTypeOK, Id
<1>6. AtPoint("release")' /\ "release" \in Points
  BY <1>2, <1>5 DEF JoinWorkers, AtPoint, Whole, Points, FreePoints
<1>7. OwnerInv' /\ PointInv'
  BY <1>1, <1>3, <1>4, <1>6, OwnerMoves DEF JoinWorkers
<1>8. LifecycleTypeOK'
  BY <1>3, <1>6 DEF JoinWorkers, LifecycleTypeOK, GoTo
<1>9. ReadyInv' /\ CleanInv' /\ WorkersInsidePool'
  BY <1>2, <1>4
  DEF WorkersInsidePool, Whole, JoinWorkers, ReadyInv, CleanInv, Initializing, Destroying, Ready, Uninit
<1> QED
  BY <1>7, <1>8, <1>9 DEF LifecycleInv

\* The ring and the semaphore go when nobody sleeps any more.
LEMMA ReleasePreserves ==
  ASSUME LifecycleInv, NEW t \in Caller, Release(t)
  PROVE  LifecycleInv'
<1> USE LifecycleAssumption
<1>1. pc[t] = "release" /\ pc[t] \in OwnerPoints
  BY DEF Release, OwnerPoints, FreePoints
<1>2. \A w \in Id : worker[w] # "wait"
  BY <1>1 DEF LifecycleInv, PointInv, AtPoint
<1>3. LifecycleTypeOK /\ OwnerInv
  BY DEF LifecycleInv
<1>4. \E p \in {"store", "idle"} : GoTo(t, p)
  BY DEF Release, Failure, Answer
<1>5. OwnerInv' /\ PointInv' /\ pc' \in [Caller -> Points]
  BY <1>1, <1>3, <1>4, OwnerReturns
<1>6. /\ ring' = FALSE /\ sem' = NoSem /\ poolState' = Uninit
      /\ UNCHANGED <<worker, i, calls>>
      /\ shutdown' \in BOOLEAN /\ cancelled' \in BOOLEAN
  BY <1>3 DEF Release, LifecycleTypeOK
<1>7. sem' \in [live : BOOLEAN, tokens : 0 .. NWorkers]
  BY <1>6 DEF NoSem
<1>8. LifecycleTypeOK'
  BY <1>3, <1>5, <1>6, <1>7 DEF LifecycleTypeOK
<1>9. ReadyInv' /\ CleanInv' /\ WorkersInsidePool'
  BY <1>2, <1>6 DEF WorkersInsidePool, ReadyInv, CleanInv, Ready, Uninit
<1> QED
  BY <1>5, <1>8, <1>9 DEF LifecycleInv

\* There is a token only after shutdown was set, so a worker that wakes ends.
LEMMA WorkerWakePreserves ==
  ASSUME LifecycleInv, NEW w \in Id, WorkerWake(w)
  PROVE  LifecycleInv'
<1> USE LifecycleAssumption
<1>1. LifecycleTypeOK /\ OwnerInv /\ PointInv /\ ReadyInv /\ CleanInv /\ WorkersInsidePool
  BY DEF WorkersInsidePool, LifecycleInv
<1>2. worker[w] = "wait" /\ sem.tokens > 0
  BY DEF WorkerWake
<1>3. poolState # Ready /\ poolState # Uninit
  BY <1>1, <1>2 DEF ReadyInv, CleanInv
<1>4. sem' = [live |-> sem.live, tokens |-> sem.tokens - 1]
  BY <1>1 DEF WorkerWake, LifecycleTypeOK
<1>5. LifecycleTypeOK'
  <2>1. sem' \in [live : BOOLEAN, tokens : 0 .. NWorkers]
    BY <1>1, <1>2, <1>4 DEF LifecycleTypeOK
  <2> QED
    BY <1>1, <2>1 DEF WorkerWake, LifecycleTypeOK
<1>6. OwnerInv'
  BY <1>1 DEF WorkerWake, OwnerInv
<1>7. PointInv'
  <2> SUFFICES ASSUME NEW t \in Caller PROVE AtPoint(pc[t])'
    BY DEF PointInv
  <2>1. AtPoint(pc[t]) /\ pc'[t] = pc[t]
    BY <1>1 DEF PointInv, WorkerWake
  <2>2. pc[t] \notin {"alloc", "seminit", "spawn", "publish", "post"}
    BY <1>2, <2>1 DEF AtPoint, NoSem
  <2>3. CASE pc[t] = "join"
    <3>1. Whole' /\ shutdown'
      BY <1>4, <2>1, <2>3 DEF AtPoint, Whole, WorkerWake
    <3>2. \A v \in Id : v > i' => worker'[v] = "none"
      BY <1>1, <1>2, <2>1, <2>3 DEF AtPoint, WorkerWake, LifecycleTypeOK
    <3> QED
      BY <2>1, <2>3, <3>1, <3>2 DEF AtPoint
  <2>4. CASE pc[t] = "release"
    BY <1>2, <2>1, <2>4 DEF AtPoint
  <2>5. CASE pc[t] \notin OwnerPoints
    BY <2>1, <2>5 DEF AtPoint, OwnerPoints, CreatePoints, FreePoints
  <2> QED
    BY <2>2, <2>3, <2>4, <2>5 DEF OwnerPoints, CreatePoints, FreePoints
<1>8. ReadyInv' /\ CleanInv' /\ WorkersInsidePool'
  BY <1>1, <1>3, <1>4 DEF WorkersInsidePool, WorkerWake, ReadyInv, CleanInv
<1> QED
  BY <1>5, <1>6, <1>7, <1>8 DEF LifecycleInv

\* Every step keeps the invariant.
LEMMA StepPreserves ==
  ASSUME LifecycleInv, [LifecycleNext]_poolVars
  PROVE  LifecycleInv'
<1>1. CASE UNCHANGED poolVars
  BY <1>1 DEF poolVars, LifecycleInv, LifecycleTypeOK, OwnerInv, PointInv, AtPoint, ReadyInv,
              CleanInv, WorkersInsidePool, Whole, Started
<1>2. ASSUME NEW t \in Caller, Step(t) PROVE LifecycleInv'
  BY <1>2, ReadersPreserve, CasInitPreserves, CasDestroyPreserves,
     AllocRingPreserves, SemInitPreserves, SpawnPreserves, PublishPreserves,
     PostTokensPreserves, JoinWorkersPreserves, ReleasePreserves
  DEF Step, Create, Free
<1>3. ASSUME NEW t \in Caller, NEW c \in {"get", "init", "destroy", "cancel"}, Start(t, c)
      PROVE  LifecycleInv'
  BY <1>3, StartPreserves
<1>4. ASSUME NEW w \in Id, WorkerWake(w) PROVE LifecycleInv'
  BY <1>4, WorkerWakePreserves
<1> QED
  BY <1>1, <1>2, <1>3, <1>4 DEF LifecycleNext

-----------------------------------------------------------------------------
(* What the runs check, for every set of callers and number of workers. *)

\* The pool is in order at every point of every caller.
THEOREM LifecycleInvariant == LifecycleSpec => []LifecycleInv
<1>1. LifecycleInit => LifecycleInv
  BY InitEstablishes
<1>2. LifecycleInv /\ [LifecycleNext]_poolVars => LifecycleInv'
  BY StepPreserves
<1> QED
  BY <1>1, <1>2, PTL DEF LifecycleSpec

\* The types of the singleton's state; no more tokens than workers.
THEOREM LifecycleTypes == LifecycleSpec => []LifecycleTypeOK
<1>1. LifecycleInv => LifecycleTypeOK
  BY DEF LifecycleInv
<1> QED
  BY <1>1, LifecycleInvariant, PTL

\* Creation and release are the business of one thread at a time.
THEOREM SingleOwner == LifecycleSpec => []OneOwner
<1>1. LifecycleInv => OneOwner
  <2> SUFFICES ASSUME LifecycleInv PROVE Cardinality(Owners) <= 1
    BY DEF OneOwner
  <2>1. CASE Owners = {}
    <3>1. Cardinality(Owners) = 0
      BY <2>1, FS_EmptySet, Zenon
    <3> QED
      BY <3>1
  <2>2. CASE Owners # {}
    <3>1. PICK t : t \in Owners
      BY <2>2
    <3>2. Owners = {t}
      BY <3>1 DEF Owners, LifecycleInv, OwnerInv, OwnerPoints
    <3> QED
      <4>1. Cardinality(Owners) = 1
        BY <3>2, FS_Singleton, Zenon
      <4> QED
        BY <4>1
  <2> QED
    BY <2>1, <2>2
<1> QED
  BY <1>1, LifecycleInvariant, PTL

\* No thread of the pool sleeps on a semaphore that is gone.
THEOREM NoSleeperOutside == LifecycleSpec => []WorkersInsidePool
<1>1. LifecycleInv => WorkersInsidePool
  BY DEF LifecycleInv
<1> QED
  BY <1>1, LifecycleInvariant, PTL

\* ray_pool_get never returns a pool that is half built or half gone.
THEOREM ReadyPoolIsWhole == LifecycleSpec => []ReadyIsComplete
<1>1. LifecycleInv => ReadyIsComplete
  BY LifecycleAssumption DEF LifecycleInv, ReadyInv, ReadyIsComplete, Whole, Started, Id
<1> QED
  BY <1>1, LifecycleInvariant, PTL

\* Nothing of a pool is left when the next one may be created.
THEOREM NothingIsLeft == LifecycleSpec => []UninitIsClean
<1>1. LifecycleInv => UninitIsClean
  BY DEF LifecycleInv, CleanInv, UninitIsClean, NoSem
<1> QED
  BY <1>1, LifecycleInvariant, PTL

-----------------------------------------------------------------------------
(* What every call's return rests on: whoever waits in ray_pool_get,       *)
(* ray_pool_init or ray_thread_join waits for a thread that can go on.     *)

\* The workers that sleep on the semaphore.
Asleep == {w \in Id : worker[w] = "wait"}

\* During the joins each worker that is joined was started, and there is a token
\* for each one that sleeps.
Joinable == (\A w \in 1 .. i : worker[w] # "none") /\ sem.tokens = Cardinality(Asleep)

JoinServed == \A t \in Caller : pc[t] = "join" => Joinable

\* A state that callers spin on has a thread that will change it.
StateOwned == poolState \in {Initializing, Destroying} => \E t \in Caller : pc[t] \in OwnerPoints

\* The caller's next step does not wait for another thread.
Unblocked(t) ==
  \/ pc[t] \notin {"idle", "spin", "initspin", "join"}
  \/ pc[t] = "spin" /\ poolState \in {Ready, Uninit}
  \/ pc[t] = "initspin" /\ poolState # Initializing
  \/ pc[t] = "join" /\ \A w \in 1 .. i : worker[w] = "gone"

\* While any call is under way a caller can take its next step or a worker can
\* take a token: the callers and the workers never all wait for each other.
NoStandstill ==
  (\E t \in Caller : pc[t] # "idle") =>
    \/ \E t \in Caller : Unblocked(t)
    \/ \E w \in Id : worker[w] = "wait" /\ sem.tokens > 0

LEMMA AsleepFinite == IsFiniteSet(Asleep) /\ Cardinality(Asleep) \in Nat
<1>1. IsFiniteSet(Id)
  BY LifecycleAssumption, FS_Interval DEF Id
<1>2. Asleep \in SUBSET Id
  BY DEF Asleep
<1> QED  BY <1>1, <1>2, FS_Subset, FS_CardinalityType

\* A step of one caller leaves the others where they are.
LEMMA OneMoves ==
  ASSUME LifecycleTypeOK, NEW t \in Caller, Step(t) \/ \E c \in {"get", "init", "destroy", "cancel"} : Start(t, c)
  PROVE  \A u \in Caller : u # t => pc'[u] = pc[u]
<1>1. pc' = pc \/ \E p : GoTo(t, p)
  BY DEF Step, Create, Free, Start, GetLoad, CasInit, GetSpin, InitSpin, CancelStore, CasDestroy,
         AllocRing, SemInit, Spawn, Publish, PostTokens, JoinWorkers, Release, Failure, Answer
<1> QED  BY <1>1 DEF LifecycleTypeOK, GoTo

\* The owner goes on, or leaves a state that nobody spins on.
LEMMA OwnerGoesOn ==
  ASSUME LifecycleInv, NEW t \in Caller, pc[t] \in OwnerPoints, Step(t)
  PROVE  pc'[t] \in OwnerPoints \/ poolState' \in {Uninit, Ready}
<1> USE DEF OwnerPoints, CreatePoints, FreePoints
<1>1. pc \in [Caller -> Points]
  BY DEF LifecycleInv, LifecycleTypeOK
<1>2. Create(t) \/ Free(t)
  BY DEF Step, GetLoad, CasInit, GetSpin, InitSpin, CancelStore, CasDestroy
<1>3. CASE AllocRing(t)
  BY <1>1, <1>3 DEF AllocRing, GoTo
<1>4. CASE SemInit(t)
  BY <1>1, <1>4 DEF SemInit, GoTo
<1>5. CASE Spawn(t)
  BY <1>1, <1>5 DEF Spawn, GoTo
<1>6. CASE Publish(t) \/ Release(t)
  BY <1>6 DEF Publish, Release
<1>7. CASE PostTokens(t) \/ JoinWorkers(t)
  BY <1>1, <1>7 DEF PostTokens, JoinWorkers, GoTo
<1> QED  BY <1>2, <1>3, <1>4, <1>5, <1>6, <1>7 DEF Create, Free

\* Who is not the owner leaves the state alone or becomes the owner.
LEMMA OthersLeaveState ==
  ASSUME LifecycleInv, NEW t \in Caller, pc[t] \notin OwnerPoints,
         Step(t) \/ \E c \in {"get", "init", "destroy", "cancel"} : Start(t, c)
  PROVE  poolState' = poolState \/ pc'[t] \in OwnerPoints
<1> USE DEF OwnerPoints, CreatePoints, FreePoints
<1>1. pc \in [Caller -> Points]
  BY DEF LifecycleInv, LifecycleTypeOK
<1>2. CASE CasInit(t)
  BY <1>1, <1>2 DEF CasInit, GoTo
<1>3. CASE CasDestroy(t)
  BY <1>1, <1>3 DEF CasDestroy, GoTo
<1>4. CASE \/ GetLoad(t) \/ GetSpin(t) \/ InitSpin(t) \/ CancelStore(t)
           \/ \E c \in {"get", "init", "destroy", "cancel"} : Start(t, c)
  BY <1>4 DEF GetLoad, GetSpin, InitSpin, CancelStore, Start
<1>5. ~Create(t) /\ ~Free(t)
  BY DEF Create, Free, AllocRing, SemInit, Spawn, Publish, PostTokens, JoinWorkers, Release
<1> QED  BY <1>2, <1>3, <1>4, <1>5 DEF Step

LEMMA StateStaysOwned ==
  ASSUME LifecycleInv, StateOwned, [LifecycleNext]_poolVars
  PROVE  StateOwned'
<1>1. CASE UNCHANGED poolVars
  BY <1>1 DEF poolVars, StateOwned
<1>2. ASSUME NEW t \in Caller,
             Step(t) \/ \E c \in {"get", "init", "destroy", "cancel"} : Start(t, c),
             poolState' \in {Initializing, Destroying}
      PROVE  \E u \in Caller : pc'[u] \in OwnerPoints
  <2>1. CASE pc[t] \in OwnerPoints
    <3>1. Step(t)
      BY <1>2, <2>1 DEF Start, OwnerPoints, CreatePoints, FreePoints
    <3> QED  BY <1>2, <2>1, <3>1, OwnerGoesOn DEF Uninit, Initializing, Ready, Destroying
  <2>2. CASE pc[t] \notin OwnerPoints /\ poolState' = poolState
    <3>1. PICK u \in Caller : pc[u] \in OwnerPoints
      BY <1>2, <2>2 DEF StateOwned
    <3>2. pc'[u] = pc[u]
      BY <1>2, <2>2, <3>1, OneMoves DEF LifecycleInv
    <3> QED  BY <3>1, <3>2
  <2> QED  BY <1>2, <2>1, <2>2, OthersLeaveState
<1>3. ASSUME NEW w \in Id, WorkerWake(w) PROVE StateOwned'
  BY <1>3 DEF WorkerWake, StateOwned
<1> QED  BY <1>1, <1>2, <1>3 DEF LifecycleNext, StateOwned

\* The tokens the owner makes are as many as the workers it started.
LEMMA TokensMade ==
  ASSUME LifecycleInv, NEW t \in Caller, PostTokens(t)
  PROVE  Joinable'
<1>1. sem.tokens = 0 /\ Started(i)
  BY DEF PostTokens, LifecycleInv, PointInv, AtPoint
<1>2. i \in Nat /\ i <= NWorkers /\ NWorkers \in Nat /\ sem \in [live : BOOLEAN, tokens : 0 .. NWorkers]
  BY LifecycleAssumption DEF LifecycleInv, LifecycleTypeOK
<1>3. sem'.tokens = i
  <2>1. sem'.tokens = 0 + i
    BY <1>1, <1>2, Zenon DEF PostTokens
  <2> QED  BY <1>2, <2>1
<1>4. Asleep' = 1 .. i
  BY <1>1, <1>2 DEF PostTokens, Asleep, Started, Id
<1>5. Cardinality(1 .. i) = i
  BY <1>2, FS_Interval
<1>6. \A w \in 1 .. i' : worker'[w] # "none"
  BY <1>1, <1>2 DEF PostTokens, Started, Id
<1> QED  BY <1>3, <1>4, <1>5, <1>6 DEF Joinable

LEMMA JoinStaysServed ==
  ASSUME LifecycleInv, JoinServed, [LifecycleNext]_poolVars
  PROVE  JoinServed'
<1>1. CASE UNCHANGED poolVars
  BY <1>1 DEF poolVars, JoinServed, Joinable, Asleep
<1>2. ASSUME NEW t \in Caller,
             Step(t) \/ \E c \in {"get", "init", "destroy", "cancel"} : Start(t, c),
             NEW u \in Caller, pc'[u] = "join"
      PROVE  Joinable'
  <2>1. pc \in [Caller -> Points] /\ OwnerInv
    BY DEF LifecycleInv, LifecycleTypeOK
  <2>2. CASE u = t
    <3>1. PostTokens(t)
      BY <1>2, <2>1, <2>2
      DEF Step, Create, Free, Start, GetLoad, CasInit, GetSpin, InitSpin, CancelStore, CasDestroy,
          AllocRing, SemInit, Spawn, Publish, JoinWorkers, Release, Failure, Answer, GoTo, FirstPoint
    <3> QED  BY <3>1, TokensMade
  <2>3. CASE u # t
    <3>1. pc[u] = "join"
      BY <1>2, <2>3, OneMoves DEF LifecycleInv
    <3>2. pc[u] \in OwnerPoints
      BY <3>1 DEF OwnerPoints, FreePoints
    <3>3. pc[t] \notin OwnerPoints /\ poolState # Uninit
      BY <2>1, <2>3, <3>2 DEF OwnerInv, Uninit, Initializing, Destroying
    <3>4. ~Create(t) /\ ~Free(t)
      BY <3>3 DEF Create, Free, AllocRing, SemInit, Spawn, Publish, PostTokens, JoinWorkers, Release,
                  OwnerPoints, CreatePoints, FreePoints
    <3>5. ~(CasDestroy(t) /\ poolState = Ready)
      BY <2>1, <3>2 DEF OwnerInv, Ready, Initializing, Destroying
    <3>6. sem' = sem /\ worker' = worker /\ i' = i
      <4>1. CASE CasInit(t)
        BY <3>3, <4>1 DEF CasInit
      <4>2. CASE CasDestroy(t)
        BY <3>5, <4>2 DEF CasDestroy
      <4>3. CASE \/ GetLoad(t) \/ GetSpin(t) \/ InitSpin(t) \/ CancelStore(t)
                 \/ \E c \in {"get", "init", "destroy", "cancel"} : Start(t, c)
        BY <4>3 DEF GetLoad, GetSpin, InitSpin, CancelStore, Start
      <4> QED  BY <1>2, <3>4, <4>1, <4>2, <4>3 DEF Step
    <3> QED  BY <3>1, <3>6 DEF JoinServed, Joinable, Asleep
  <2> QED  BY <2>2, <2>3
<1>3. ASSUME NEW w \in Id, WorkerWake(w), NEW u \in Caller, pc'[u] = "join"
      PROVE  Joinable'
  <2>1. pc[u] = "join" /\ worker[w] = "wait"
    BY <1>3 DEF WorkerWake
  <2>2. shutdown /\ Joinable
    BY <2>1 DEF LifecycleInv, PointInv, AtPoint, JoinServed
  <2>3. worker \in [Id -> {"none", "wait", "gone"}] /\ sem \in [live : BOOLEAN, tokens : 0 .. NWorkers]
    BY DEF LifecycleInv, LifecycleTypeOK
  <2>4. Asleep' = Asleep \ {w} /\ w \in Asleep
    BY <1>3, <2>1, <2>2, <2>3 DEF WorkerWake, Asleep
  <2>5. sem'.tokens = sem.tokens - 1
    BY <1>3, <2>3 DEF WorkerWake
  <2>6. Cardinality(Asleep \ {w}) = Cardinality(Asleep) - 1
    BY <2>4, AsleepFinite, FS_RemoveElement
  <2>7. \A v \in 1 .. i' : worker'[v] # "none"
    BY <1>3, <2>2, <2>3 DEF WorkerWake, Joinable
  <2> QED  BY <2>2, <2>4, <2>5, <2>6, <2>7 DEF Joinable
<1> QED  BY <1>1, <1>2, <1>3 DEF LifecycleNext, JoinServed

\* ray_thread_join never waits for a worker without a token, also when the
\* creation failed after some of the workers were started.
THEOREM JoinsAreServed == LifecycleSpec => []JoinServed
<1>1. LifecycleInit => JoinServed
  BY DEF LifecycleInit, JoinServed
<1> QED  BY <1>1, JoinStaysServed, LifecycleInvariant, PTL DEF LifecycleSpec

\* Nobody spins on a creation or a release that no thread is carrying out.
THEOREM SpinsAreServed == LifecycleSpec => []StateOwned
<1>1. LifecycleInit => StateOwned
  BY DEF LifecycleInit, StateOwned, Uninit, Initializing, Destroying
<1> QED  BY <1>1, StateStaysOwned, LifecycleInvariant, PTL DEF LifecycleSpec

\* The calls of the pool never deadlock, among themselves or with the workers.
THEOREM CallsNeverStandStill == LifecycleSpec => []NoStandstill
<1>1. LifecycleInv /\ JoinServed /\ StateOwned => NoStandstill
  <2> SUFFICES ASSUME LifecycleInv, JoinServed, StateOwned, NEW t \in Caller, pc[t] # "idle",
                      \A u \in Caller : ~Unblocked(u)
               PROVE  \E w \in Id : worker[w] = "wait" /\ sem.tokens > 0
    BY DEF NoStandstill
  <2>1. poolState \in {Uninit, Initializing, Ready, Destroying} /\ worker \in [Id -> {"none", "wait", "gone"}]
        /\ i \in 0 .. NWorkers
    BY DEF LifecycleInv, LifecycleTypeOK
  <2>2. PICK u \in Caller : pc[u] = "join"
    <3>1. CASE pc[t] = "join"
      BY <3>1
    <3>2. CASE pc[t] # "join"
      <4>1. poolState \in {Initializing, Destroying}
        BY <2>1, <3>2 DEF Unblocked, Initializing
      <4>2. PICK u \in Caller : pc[u] \in OwnerPoints
        BY <4>1 DEF StateOwned
      <4>3. pc[u] = "join"
        BY <4>2 DEF Unblocked, OwnerPoints, CreatePoints, FreePoints
      <4> QED  BY <4>3
    <3> QED  BY <3>1, <3>2
  <2>3. PICK w \in 1 .. i : worker[w] # "gone"
    BY <2>2 DEF Unblocked
  <2>4. w \in Id /\ worker[w] # "none"
    <3>1. w \in Id
      BY <2>1, LifecycleAssumption DEF Id
    <3> QED  BY <2>2, <3>1 DEF JoinServed, Joinable
  <2>5. w \in Asleep
    BY <2>1, <2>3, <2>4 DEF Asleep
  <2>6. sem.tokens = Cardinality(Asleep)
    BY <2>2 DEF JoinServed, Joinable
  <2>7. Cardinality(Asleep) > 0
    BY <2>5, AsleepFinite, FS_EmptySet
  <2> QED  BY <2>5, <2>6, <2>7 DEF Asleep
<1> QED  BY <1>1, LifecycleInvariant, JoinsAreServed, SpinsAreServed, PTL

=============================================================================
