-------------------------------- MODULE Heap --------------------------------
(***************************************************************************)
(* The per-thread buddy heaps of src/mem/heap.c.  Memory comes in          *)
(* self-aligned pools whose first minimal block holds the pool header; a   *)
(* block is in a free list or the slab cache of the heap that owns its     *)
(* pool, in the foreign list of another heap that freed it, or live.       *)
(* Whether a buddy may be merged is read from the header of the block next *)
(* door (rc = 0 and the same order), so the header words are modelled and  *)
(* the lists are kept apart from them: a wrong header shows as two lists   *)
(* that hold the same memory.                                              *)
(*                                                                         *)
(* Each call of the allocator touches the caller's heap only, except the   *)
(* collection of the main thread, which runs when no worker runs a task    *)
(* (ThreadPool's Barrier); so one call is one step.  That a task may start *)
(* before the parallel flag is up (ThreadPool's ParallelGuard) is not      *)
(* modelled here.  The unit of memory is the minimal block (order 0 stands *)
(* for RAY_ORDER_MIN).                                                     *)
(***************************************************************************)
EXTENDS Integers, FiniteSets, FiniteSetsExt, Folds

CONSTANTS
  Worker,      \* worker threads; each has a heap of its own
  Main,        \* the main thread
  PoolOrder,   \* RAY_HEAP_POOL_ORDER, the order of a standard pool
  MaxOrder,    \* RAY_HEAP_MAX_ORDER, the order of the largest pool
  SlabMax,     \* blocks of order 0 .. SlabMax are cached
  SlabSize,    \* RAY_SLAB_CACHE_SIZE, blocks a slab holds
  MaxPools,    \* bound: pools the address space has room for
  MaxHeld      \* bound: blocks handed out and not yet back with their owner

ASSUME HeapAssumption ==
  /\ Main \notin Worker
  /\ PoolOrder \in Nat \ {0}
  /\ MaxOrder \in Nat /\ MaxOrder > PoolOrder
  /\ SlabMax \in 0 .. PoolOrder
  /\ SlabSize \in Nat
  /\ MaxPools \in Nat
  /\ MaxHeld \in Nat

HeapId == Worker \cup {Main}
Pool   == 1 .. MaxPools
Order  == 0 .. MaxOrder
Size[o \in Nat] == IF o = 0 THEN 1 ELSE 2 * Size[o - 1]      \* BSIZEOF
Offset == 0 .. Size[MaxOrder] - 1

VARIABLES
  pool,      \* the mapped pools: owner (hdr->heap_id) and order, or Unmapped
  hdr,       \* rc and order of the header word at each address
  free,      \* the free lists of each heap
  avail,     \* h->avail: orders whose free list may be non-empty
  slab,      \* the slab caches of each heap
  foreign,   \* the blocks of other heaps' pools each heap has freed
  bytes,     \* h->stats.bytes_allocated
  live,      \* blocks the program holds
  par,       \* ray_parallel_flag
  busy       \* workers that have entered the current dispatch

vars == <<pool, hdr, free, avail, slab, foreign, bytes, live, par, busy>>

\* What a word reads as that is no block's header: inside a block it holds the
\* program's data, and no call may depend on it.
Interior == [rc |-> 1, o |-> 0]

Unmapped == [owner |-> Main, order |-> 0]     \* no real pool has order 0
Mapped(p) == pool[p] # Unmapped

Block(p, off, o) == [p |-> p, off |-> off, o |-> o]
Addr(b) == <<b.p, b.off>>
Owner(b) == pool[b.p].owner
Covers(b, p, off) == b.p = p /\ b.off <= off /\ off < b.off + Size[b.o]

\* What the operators below compute on: everything but the program's state.
Now == [pool |-> pool, hdr |-> hdr, free |-> free, avail |-> avail, slab |-> slab,
        foreign |-> foreign, bytes |-> bytes]

Become(s) ==
  /\ pool' = s.pool
  /\ hdr' = s.hdr
  /\ free' = s.free
  /\ avail' = s.avail
  /\ slab' = s.slab
  /\ foreign' = s.foreign
  /\ bytes' = s.bytes

Init ==
  /\ pool = [p \in Pool |-> Unmapped]
  /\ hdr = [a \in Pool \X Offset |-> Interior]
  /\ free = [h \in HeapId |-> {}]
  /\ avail = [h \in HeapId |-> {}]
  /\ slab = [h \in HeapId |-> {}]
  /\ foreign = [h \in HeapId |-> {}]
  /\ bytes = [h \in HeapId |-> 0]
  /\ live = {}
  /\ par = FALSE
  /\ busy = {}

-----------------------------------------------------------------------------
(* Free lists and buddies. *)

\* heap_insert_block, of one block or of several.
Insert(s, h, B) ==
  [s EXCEPT !.free[h] = @ \cup B,
            !.hdr = [a \in Pool \X Offset |->
                       IF \E b \in B : Addr(b) = a
                       THEN [rc |-> 0, o |-> (CHOOSE b \in B : Addr(b) = a).o]
                       ELSE @[a]],
            !.avail[h] = @ \cup {b.o : b \in B}]

\* fl_remove unlinks blocks from whichever lists they are on; only the caller's
\* own bit of an order is cleared, when its list has become empty.
Remove(s, h, B) ==
  LET f == [g \in HeapId |-> s.free[g] \ B]
      emptied == {o \in {b.o : b \in B} : \A c \in f[h] : c.o # o}
  IN [s EXCEPT !.free = f, !.avail[h] = @ \ emptied]

Align(off, o) == off - (off % Size[o])

\* ray_buddy_of the block of order o that contains off.
Buddy(off, o) ==
  LET base == Align(off, o) IN
    IF (base \div Size[o]) % 2 = 0 THEN base + Size[o] ELSE base - Size[o]

\* The buddy at order o reads as a free block of that order.
BuddyFree(s, b, o) == s.hdr[<<b.p, Buddy(b.off, o)>>] = [rc |-> 0, o |-> o]

\* The order at which heap_coalesce stops merging b.
MergeLimit(s, b) ==
  CHOOSE k \in b.o .. s.pool[b.p].order :
    /\ k = s.pool[b.p].order \/ ~BuddyFree(s, b, k)
    /\ \A o \in b.o .. k - 1 : BuddyFree(s, b, o)

\* The words of a block that is one piece again are nobody's headers.
Inside(s, b) ==
  [s EXCEPT !.hdr = [a \in Pool \X Offset |-> IF Covers(b, a[1], a[2]) THEN Interior ELSE @[a]]]

\* heap_coalesce: merge b with its free buddies, unless a dispatch is running,
\* and put the result on h's free list.
Buddies(b, top) == {Block(b.p, Buddy(b.off, o), o) : o \in b.o .. top - 1}

Coalesce(s, h, b) ==
  IF par THEN Insert(s, h, {b})
  ELSE LET top == MergeLimit(s, b)
           whole == Block(b.p, Align(b.off, top), top)
       IN Insert(Inside(Remove(s, h, Buddies(b, top)), whole), h, {whole})

\* heap_split_block: the right halves of a block cut down to order o.
RightHalves(b, o) == {Block(b.p, b.off + Size[k], k) : k \in o .. b.o - 1}
Split(s, h, b, o) == Insert(s, h, RightHalves(b, o))

\* heap_add_pool: map a pool large enough for one block of order o, and put all
\* of it but the header on the free lists.
PoolOrderFor(o) == IF o >= PoolOrder THEN o + 1 ELSE PoolOrder

AddPool(s, h, p, o) ==
  LET po == PoolOrderFor(o)
      mapped == [s EXCEPT !.pool[p] = [owner |-> h, order |-> po],
                          !.hdr[<<p, 0>>] = [rc |-> 1, o |-> 0]]
  IN Split(mapped, h, Block(p, 0, po), 0)

-----------------------------------------------------------------------------
(* ray_alloc, on the heap of the calling thread t. *)

Running(t) == t = Main \/ t \in busy
Held == live \cup UNION {foreign[h] : h \in HeapId}
MayAlloc(t) == Running(t) /\ Cardinality(Held) < MaxHeld

\* The header of the block that is handed out, and the accounting.
HandOut(s, h, b) ==
  [s EXCEPT !.hdr[Addr(b)] = [rc |-> 1, o |-> b.o],
            !.bytes[h] = @ + Size[b.o]]

SlabHit(t, o) == {b \in slab[t] : b.o = o}

AllocSlab(t, o) ==
  /\ MayAlloc(t)
  /\ o <= SlabMax
  /\ \E b \in SlabHit(t, o) :
       /\ Become(HandOut([Now EXCEPT !.slab[t] = @ \ {b}], t, b))
       /\ live' = live \cup {b}
  /\ UNCHANGED <<par, busy>>

\* Orders the avail bits offer for a request of order o, with a list to match.
Offered(s, h, o) == {k \in s.avail[h] : k >= o /\ \E b \in s.free[h] : b.o = k}

\* Stale bits below the order found are cleared on the way.
ClearStale(s, h, o) ==
  LET found == Min(Offered(s, h, o)) IN
    [s EXCEPT !.avail[h] = {k \in @ : ~(o <= k /\ k < found)}]

TakeFrom(s, h, o, b) ==
  HandOut(Split(Remove(ClearStale(s, h, o), h, {b}), h, b, o), h, Block(b.p, b.off, o))

AllocFree(t, o) ==
  /\ MayAlloc(t)
  /\ o <= SlabMax => SlabHit(t, o) = {}
  /\ Offered(Now, t, o) # {}
  /\ \E b \in free[t] :
       /\ b.o = Min(Offered(Now, t, o))
       /\ Become(TakeFrom(Now, t, o, b))
       /\ live' = live \cup {Block(b.p, b.off, o)}
  /\ UNCHANGED <<par, busy>>

AllocNewPool(t, o) ==
  /\ MayAlloc(t)
  /\ o <= SlabMax => SlabHit(t, o) = {}
  /\ Offered(Now, t, o) = {}
  /\ PoolOrderFor(o) <= MaxOrder
  /\ \E p \in Pool :
       /\ ~Mapped(p)
       /\ \A q \in Pool : q < p => Mapped(q)
       /\ LET s == AddPool([Now EXCEPT !.avail[t] = {k \in @ : k < o}], t, p, o)
              b == CHOOSE c \in s.free[t] : c.o = Min(Offered(s, t, o))
          IN /\ Become(TakeFrom(s, t, o, b))
             /\ live' = live \cup {Block(b.p, b.off, o)}
  /\ UNCHANGED <<par, busy>>

-----------------------------------------------------------------------------
(* ray_free by thread t, whose reference was the last one. *)

SlabFull(t, o) == Cardinality(SlabHit(t, o)) >= SlabSize

\* Faulty variant: the cached block keeps the rc of a released block.
FreeToSlabUnmarked(t, b) ==
  /\ Running(t)
  /\ b \in live
  /\ Owner(b) = t /\ b.o <= SlabMax /\ ~SlabFull(t, b.o)
  /\ Become([Now EXCEPT !.slab[t] = @ \cup {b},
                        !.hdr[Addr(b)].rc = 0,
                        !.bytes[t] = @ - Size[b.o]])
  /\ live' = live \ {b}
  /\ UNCHANGED <<par, busy>>

FreeToSlab(t, b) ==
  /\ Running(t)
  /\ b \in live
  /\ Owner(b) = t /\ b.o <= SlabMax /\ ~SlabFull(t, b.o)
  /\ Become([Now EXCEPT !.slab[t] = @ \cup {b},
                        !.hdr[Addr(b)].rc = 1,
                        !.bytes[t] = @ - Size[b.o]])
  /\ live' = live \ {b}
  /\ UNCHANGED <<par, busy>>

\* Faulty variant: the thread that frees takes the block for its own.
FreeForeignKeep(t, b) ==
  /\ Running(t)
  /\ b \in live
  /\ Owner(b) # t
  /\ Become(Coalesce(Now, t, b))
  /\ live' = live \ {b}
  /\ UNCHANGED <<par, busy>>

\* Another heap's block: queued, still counted by its owner, header rc = 1.
FreeForeign(t, b) ==
  /\ Running(t)
  /\ b \in live
  /\ Owner(b) # t
  /\ Become([Now EXCEPT !.foreign[t] = @ \cup {b}, !.hdr[Addr(b)].rc = 1])
  /\ live' = live \ {b}
  /\ UNCHANGED <<par, busy>>

FreeLocal(t, b) ==
  /\ Running(t)
  /\ b \in live
  /\ Owner(b) = t
  /\ b.o <= SlabMax => SlabFull(t, b.o)
  /\ Become([Coalesce(Now, t, b) EXCEPT !.bytes[t] = @ - Size[b.o]])
  /\ live' = live \ {b}
  /\ UNCHANGED <<par, busy>>

-----------------------------------------------------------------------------
(* ray_heap_gc, on the main thread. *)

\* Faulty variant: the owner's account is not settled.
FlushForeignUncounted(s) ==
  LET Return(b, t) == Coalesce(t, t.pool[b.p].owner, b)
  IN FoldSet(Return, [s EXCEPT !.foreign[Main] = {}], s.foreign[Main])

\* A block goes back to the free lists of its pool's owner, whose account is settled.
ReturnHome(b, t) ==
  LET owner == t.pool[b.p].owner
  IN Coalesce([t EXCEPT !.bytes[owner] = @ - Size[b.o]], owner, b)

\* Phase 1: queued blocks go back to the heap that owns their pool ...
FlushForeign(s) == FoldSet(ReturnHome, [s EXCEPT !.foreign[Main] = {}], s.foreign[Main])

\* ... and the main thread's cached blocks to its free lists.
FlushSlabs(s) ==
  LET Flush(b, t) == Coalesce(t, Main, b)
  IN FoldSet(Flush, [s EXCEPT !.slab[Main] = {}], s.slab[Main])

\* Phase 2: blocks of other heaps' pools that sit on the main free lists.
ReturnStrays(s) ==
  LET Return(b, t) == Coalesce(Remove(t, Main, {b}), t.pool[b.p].owner, b)
  IN FoldSet(Return, s, {b \in s.free[Main] : s.pool[b.p].owner # Main})

OwnedPools(s, h) == {p \in Pool : s.pool[p] # Unmapped /\ s.pool[p].owner = h}
In(p, B) == {b \in B : b.p = p}

\* The sum of the sizes of the blocks in B.
Total(B) == Cardinality(UNION {{b} \X (1 .. Size[b.o]) : b \in B})

\* An oversized pool that is not its heap's last one, whose memory is all in the
\* lists of its heap, and none of it in the foreign list of another.
Reclaimable(s, p) ==
  LET h == s.pool[p].owner IN
    /\ s.pool[p].order > PoolOrder
    /\ Cardinality(OwnedPools(s, h)) > 1
    /\ Total(In(p, s.free[h])) + Total(In(p, s.slab[h])) >= Size[s.pool[p].order] - 1
    /\ \A g \in HeapId \ {h} : In(p, s.foreign[g]) = {}

Unmap(s, p) ==
  LET h == s.pool[p].owner IN
    [Remove(Inside(s, Block(p, 0, s.pool[p].order)), h, In(p, s.free[h]))
       EXCEPT !.pool[p] = Unmapped, !.slab[h] = @ \ In(p, @)]

\* Phase 4.
ReclaimPools(s) ==
  LET Reclaim(p, t) == IF Reclaimable(t, p) THEN Unmap(t, p) ELSE t
  IN FoldSet(Reclaim, s, {p \in Pool : s.pool[p] # Unmapped})

GC ==
  /\ ~par
  /\ Become(ReclaimPools(ReturnStrays(FlushSlabs(FlushForeign(Now)))))
  /\ UNCHANGED <<live, par, busy>>

\* A collection while a dispatch runs only empties the caller's slabs.
GCParallel ==
  /\ par
  /\ Become(FlushSlabs(Now))
  /\ UNCHANGED <<live, par, busy>>

-----------------------------------------------------------------------------
(* The dispatches of the pool, and the heap of each worker. *)

BeginDispatch ==
  /\ ~par
  /\ par' = TRUE
  /\ UNCHANGED <<pool, hdr, free, avail, slab, foreign, bytes, live, busy>>

\* A worker is woken and starts to claim tasks; worker_loop does no flush.
EnterDispatch(w) ==
  /\ par
  /\ w \notin busy
  /\ busy' = busy \cup {w}
  /\ UNCHANGED <<pool, hdr, free, avail, slab, foreign, bytes, live, par>>

EndDispatch ==
  /\ par
  /\ par' = FALSE
  /\ busy' = {}
  /\ UNCHANGED <<pool, hdr, free, avail, slab, foreign, bytes, live>>

Alloc(t, o) == AllocSlab(t, o) \/ AllocFree(t, o) \/ AllocNewPool(t, o)
Free(t, b) == FreeToSlab(t, b) \/ FreeForeign(t, b) \/ FreeLocal(t, b)

Next ==
  \/ \E t \in HeapId : \/ \E o \in Order : Alloc(t, o)
                       \/ \E b \in live : Free(t, b)
  \/ GC
  \/ GCParallel
  \/ BeginDispatch
  \/ \E w \in Worker : EnterDispatch(w)
  \/ EndDispatch

Spec == Init /\ [][Next]_vars

-----------------------------------------------------------------------------
Blocks == [p : Pool, off : Offset, o : Order]

TypeOK ==
  /\ pool \in [Pool -> [owner : HeapId, order : {0} \cup (PoolOrder .. MaxOrder)]]
  /\ hdr \in [Pool \X Offset -> [rc : {0, 1}, o : Order]]
  /\ free \in [HeapId -> SUBSET Blocks]
  /\ avail \in [HeapId -> SUBSET Order]
  /\ slab \in [HeapId -> SUBSET Blocks]
  /\ foreign \in [HeapId -> SUBSET Blocks]
  /\ bytes \in [HeapId -> Nat]
  /\ live \subseteq Blocks
  /\ par \in BOOLEAN
  /\ busy \subseteq Worker

\* The places a block can be in, tagged so that a block in two of them counts twice.
Place(i, h, B) == [in : {i}, of : {h}, b : B]
Places ==
  Place("live", Main, live)
    \cup UNION {Place("free", h, free[h]) \cup Place("slab", h, slab[h])
                  \cup Place("foreign", h, foreign[h]) : h \in HeapId}

\* Every unit of every mapped pool, the header apart, is in exactly one block and
\* every block is in exactly one place: no allocation overlaps another, no memory
\* is lost, and nothing refers to an unmapped pool.
Tiling ==
  /\ TypeOK
  /\ \A p \in Pool : Mapped(p) =>
       \A off \in 1 .. Size[pool[p].order] - 1 :
         Cardinality({x \in Places : Covers(x.b, p, off)}) = 1
  /\ \A x \in Places : Mapped(x.b.p) /\ x.b.off > 0

\* Free and cached blocks are on the lists of the heap that owns their pool, and a
\* heap queues only blocks of others: the lists of a worker's heap are touched by
\* the worker, and by the main thread only while no dispatch runs.  None of them is
\* invisible to the allocator: the avail bits are stale only in the safe direction.
FreeAtHome ==
  \A h \in HeapId : /\ \A b \in free[h] \cup slab[h] : Owner(b) = h
                    /\ \A b \in foreign[h] : Owner(b) # h
                    /\ \A b \in free[h] : b.o \in avail[h]

\* bytes_allocated of a heap is the memory of its pools that is live or queued in
\* other heaps, through splits, frees by other threads, and collections.
BytesAccounted ==
  \A h \in HeapId :
    bytes[h] = Total({b \in live \cup UNION {foreign[g] : g \in HeapId} : Owner(b) = h})

=============================================================================
