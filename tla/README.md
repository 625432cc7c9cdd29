# rayforce2: specifications in TLA+

rayforce2 is a columnar analytics and graph engine in C with a Lisp-like query
language (Rayfall).  One process holds tables and graphs in memory, runs queries
over a pool of threads, keeps tables on disk as directories of column files, and
serves other processes over TCP.  This directory holds two kinds of models: of
the parts in which control is hard (threads, files shared by processes,
connections), and of the engine itself (graph algorithms, sorts, joins, windows,
plans, selects, changes of tables, Datalog, the language and its machine), held
against what its operations mean.

Line numbers below are those of `src/` at the modelled commit.

## 1. Inventory

| component | state it keeps | operations | talks to | what is hard |
|---|---|---|---|---|
| thread pool (`core/pool.c`) | task ring, `task_count`, `task_tail`, `pending`, semaphore, `shutdown`, `cancelled` | dispatch, dispatch_n, worker loop, free | every parallel operator; `ray_parallel_flag` of the heap; `ray_rc_sync` of the reference counts | late workers, surplus tokens, a ring that cannot grow, cancellation |
| pool singleton (`core/pool.c`) | `g_pool_init_state`, the static pool | get, init, destroy, cancel | runtime, signal handlers | creation races, failure half-way through creation |
| query cancellation (`ops/exec.c`, `ops/internal.h`) | `cancelled`, the interrupt flag | reset per query, test between stages | pool, operators | which stage is followed by a test |
| grouped aggregation (`ops/group.c`) | accumulators and radix buffers of each thread | scan, merge, aggregate partitions | pool | results must not depend on the schedule |
| heap (`mem/heap.c`) | pools, free lists and avail bits of each thread, slab caches, foreign lists | alloc, free, gc, flush | pool (parallel flag), everything | blocks freed by other threads, coalescing, unmapping |
| symbol table (`table/sym.c`) | strings by position, hash index, `persisted_count` | intern, save, load | splay, IPC, evaluator | several processes on one file, crashes |
| splayed and partitioned tables (`store/splay.c`, `col.c`, `part.c`, `meta.c`) | directories of column files | save, load, open partitions | symbol table | not atomic as a whole |
| IPC (`core/ipc.c`, `poll.c`, `epoll.c`, `sock.c`) | connections with phase and buffer | accept, handshake, credentials, message, reply; connect, send, close | evaluator | byte streams cut anywhere, failures in the middle |
| graph store and algorithms (`store/csr.c`, `ops/traverse.c`) | two adjacency arrays with row maps, their files | build, save, load, neighbours; searches, paths, components, centralities, communities | query graph, leapfrog join | the two directions agree; parallel edges, loops, stray nodes |
| leapfrog join (`ops/lftj.c`) | one iterator per relation and variable | seek, leap, enumerate | graph store | everything rests on sorted lists |
| join, sort, window (`ops/`) | keys, permutations, hash chains, partitions | multi-stage parallel algorithms | pool, cancellation | offsets of an earlier stage, nulls, ties, many kernels for one answer |
| row selections (`ops/rowsel.c`, `filter.c`) | flags of segments, places of rows | build, refine, compact | executor | the all/none/mixed cases |
| expressions, reductions (`ops/expr.c`, `group.c`) | registers of a program; accumulators | compile, evaluate by morsels, walk | executor, pool | three ways to one value |
| query graph, optimizer, executor (`ops/graph.c`, `opt.c`, `exec.c`) | graph of nodes, pending selection | rewrite passes, execution | all operators | rewrites that must keep the meaning, laziness |
| select, update, insert, upsert (`ops/query.c`, `builtins.c`, `tblop.c`) | the graph under construction, the new columns | compile, plan, group, change in place | executor, evaluator | many paths for one form, scopes of inlined functions |
| Datalog (`ops/datalog.c`) | facts, rules, strata, tables and differences | assert, retract, query | tables | negation, differences, provenance |
| evaluator, compiler, machine (`lang/`) | environments, scopes, bytecode, stack, frames, traps | eval, compile, call, raise, try | all operators | two evaluators for one language, errors through frames, interrupts |
| arena, sys (`mem/arena.c`, `mem/sys.c`) | bump pointer; counters | alloc, reset | symbol table, CSV | lifetime of what is in an arena |
| copy on write (`mem/cow.c`) | reference counts | retain, release, cow | everything | plain counts become atomic in a dispatch |
| serialization, compression (`store/serde.c`, `core/ipc.c`) | none | encode, decode | IPC | sizes, lengths at the limits |
| pivot, text and time kernels, vectors, HNSW, CSV, terminal | | | | data, little control |

What makes each of the modelled components correct is stated by the properties
of its module (section 3).  `PROJECT.json` lists the hazards of the code at their
lines, with the properties that would catch them.

## 2. Modules

Threads, files, connections:

| module | models | state and actions in the code |
|---|---|---|
| `ThreadPool` | `ray_pool_dispatch`, `ray_pool_dispatch_n`, `worker_loop`, `ray_cancel`, `ray_pool_free` | a variable for each field of `struct ray_pool` and each local of the producer; one action for each atomic access |
| `Execution`, `Runtime` | nothing of their own: two modules side by side for one run | a behaviour is one of `QueryCancel` and `GroupAggregate`, or of `PoolLifecycle` and `SymPersist` |
| `ParallelFor` | what `pool.h` promises a caller | a loop over a set of tasks that is over when the call returns |
| `Parallel_proofs` | theorems about `ThreadPool`, `QueryCancel` and `GroupAggregate` | |
| `QueryCancel` | `ray_execute_inner` and the stages of three operators, on top of `ThreadPool` | `step` and `awaiting` are the place in the operator, `how` where its stage runs; a plan says after which stages `CHECK_CANCEL` stands |
| `GroupAggregate` | the parallel paths of `exec_group`, on top of `ThreadPool` | `accs` are `da_accum_t` per worker, `bufs` the radix buffers, `short` their `oom` flags, `lost` the rows that tables of partitions dropped; the effect of a task is added to the step in which `fn` returns |
| `PoolLifecycle`, `PoolLifecycle_proofs` | the singleton: get, init, destroy, cancel, creation and its failures | `poolState` is `g_pool_init_state`, `pc` the place of each caller |
| `Heap`, `Heap_proofs` | `ray_alloc`, `ray_free`, `ray_heap_gc` and their helpers | `free`, `avail`, `slab`, `foreign`, `bytes` per heap; `hdr` is what the header of each block says (`rc`, `order`), which is what the code decides on |
| `FoldTheorems` | folds of the community modules, by their existence and their induction; used by the proofs of `Heap`, `GroupAggregate`, `GraphStore` and `Datalog` | |
| `SymPersist`, `SymPersist_proofs` | `ray_sym_intern`, `ray_sym_save`, `ray_sym_load`, and the order of `ray_splay_save` | `mem` is `g_sym.strings`; `disk` is what an open reads, `synced` what a power failure leaves |
| `Ipc`, `Ipc_proofs` | the poll server, the older `ray_ipc_server_t`, the client library | `phase`, `need`, `buf` are those of a selector or `ray_ipc_conn_t`; `at` is where a client blocks |

Graphs:

| module | models | state and actions in the code |
|---|---|---|
| `Csr` | `store/csr.c`: build, row maps, neighbours, validation of what was loaded | a relation is the pair of indexes of `ray_rel_t`; `qsort` may leave equal edges in any order; a row map that cannot be read is `NoRowMap` |
| `GraphStore`, `GraphStore_proofs` | the life of a relation: build, save file by file, failure and crash of a save, load | `files` are the files of the directory, `saving` the one `ray_rel_save` writes next |
| `Traverse` | expansions, searches, components, topological order, centralities, PageRank, communities | one operator per `exec_*` of `traverse.c`; reals are integers over a common denominator |
| `WeightedPaths` | Dijkstra, A*, Yen, the spanning forest, with their binary heap | the masks Yen sets and restores are arguments; its list of candidates has the room of `traverse.c:2394-2395`, which four nodes never fill |
| `Lftj` | iterators, seek, leap, enumeration, `ray_lftj_build_default_plan` | an iterator is the sorted rest of its list |
| `GraphSession` | a program that uses the store (`UseStore`) and asks | the bounded shortest path is one level a step |

Columns:

| module | models | state and actions in the code |
|---|---|---|
| `Sort` | key encodings, introsort, parallel LSD radix, MSD radix, packed keys, composite keys, comparator; strings by windows | a key is an unsigned integer of `Width` digits |
| `Join` | chained and partitioned hash join with bit filters, anti join, as-of join | tasks push rows in every order |
| `Window` | partitions and the functions on them | a task per partition, as `exec_window` dispatches |
| `Relational` | one question per behaviour, with its answer | the variables are the input and the answer |

Queries; every module extends the one above it unless noted:

| module | models |
|---|---|
| `RowSel` | selections and filters (`rowsel.c`, `filter.c`) over flat, partitioned and common columns |
| `Expr` | typing, compiled programs over registers, linear forms (`expr.c`) |
| `Vectors` | the walk of an expression by whole vectors, with nulls (`expr.c`) |
| `Reduction` | reductions, in parallel too (`group.c`) |
| `Optimizer` | the passes of `opt.c` that change what is executed, in their order |
| `Executor` | `ray_execute_inner` and `exec_node_inner`: pending selections, heads, groups, joins, partitions streamed one by one |
| `Select` (extends `Executor`) | `ray_select_fn`: terms to nodes, clauses to a plan, groups outside of the plan |
| `SelectMeaning` | what expressions, reductions, groups and joins mean, row by row; what a select means, with lexical scope |
| `QueryPlan` | the jobs that are asked and the properties of their answers |
| `Changes`, `ChangesMeaning` (extend `Select`, `SelectMeaning`) | update, insert, upsert, union and concat, in place or not; what they mean |
| `DatalogRules`, `Datalog`, `DatalogMeaning` (extend no other), `Datalog_proofs` | rules read from clauses, strata, rounds by differences, provenance; the least model; theorems about `Datalog` |
| `Language`, `Machine`, `LanguageMeaning` | scopes and compiler; the walk over trees and `vm_exec`, one instruction a step; the meaning by blocks |
| `Queries` | one session: it composes the four above, and a select reads the table that changes have left |

`QueryCancel` and `GroupAggregate` extend `ThreadPool` and use its actions; their
own actions are conjunctions with the pool's.  `ThreadPool` has a refinement
mapping to `ParallelFor`: the unfinished tasks of the current dispatch.  The
algorithms are operators, and the specifications around them choose an input and
keep the answer, or go step by step where the code can be stopped between steps
(a save of a graph, an assertion of facts, a change, an instruction).

What the models abstract, besides data and wording: an element of a stream in
`Ipc` stands for several bytes; a block of the heap is a triple of pool, offset
and order, and memory contents other than headers are not there; a symbol file is
the sequence of its strings; the poll server of `Ipc` always gets memory for a
receive buffer (without one a connection would stay open and never be read
again, `poll.c:78`); a task body is atomic in `GroupAggregate`, where a
thread writes only to its own accumulators or to its own range of groups.  In the
modules of queries one integer width of each kind stands for all, a double is a
number of `1/Scale` units that loses its last bit beyond `Exact`, and `Garbage`
is what the code leaves unwritten.

## 3. Runs

All runs end within about three minutes on two threads.  The runs with `violation`
record a disagreement between the code and what it says of itself.

| run | bounds | shows |
|---|---|---|
| `pool` | 2 workers, ring 1 to 2, grain 2, up to 3 elements or tasks, 2 dispatches | each task is run or skipped once (`AtMostOnce`), a dispatch is a barrier (`Barrier`), flags that are up stay up while tasks run (`FlagsOutlastTasks`), ranges cover the loop (`RangesTile`), dispatch and free return, the pool implements `ParallelFor` |
| `pool_race` (violation) | 1 worker, without the serial assumption | `Barrier` fails |
| `pool_flags` (violation) | 1 worker, with it | a task runs before the flags are raised (`ParallelGuard`) |
| `execution` | 1 worker; a group or join of up to 5 dispatches; or a group-by of all tables of 3 rows, 2 groups, 2 values, 2 partitions, with memory that may run out | what stands behind a test is whole when a query is cancelled, and no pair is written by incomplete counts (`StagesComplete`); counts, sums, minima, maxima do not depend on the schedule or the path, but for rows dropped without an error (`AggregatesExact`) |
| `runtime` | 2 callers, 2 workers, 5 calls; or 2 processes, 2 symbols, 1 file, 4 calls | one owner of the pool, complete when ready; positions keep their meaning through errors, crashes, power failures; every call returns |
| `heap` | 1 worker, 2 pools, orders 0 to 3, 2 held blocks | tiling, free blocks at home with their avail bits, accounting |
| `ipc` | 2 connections over both servers, 2 messages | replies match, order, authorisation, no mutual wait, calls return |
| `graph` | every labelled graph of 4 nodes with up to 5 edges; every table of up to 3 rows over 2 nodes and the strays -1 and 2, saved up to 2 rows (`MaxSaved`); hops to 3 | the index agrees with the edges, also after a save that failed or was interrupted and a load that may lose a row map; algorithms and pattern joins give what their definitions say |
| `search_depth` (violation) | graphs of 3 nodes; a depth counter of 2 bits and bounds up to its largest value | a search without a path does not end (`SearchEnds`) |
| `relational` | columns of up to 4 rows with nulls, ties and extremes; 1 or 2 workers; digits of 1 bit | all kernels of sorts, joins and windows give the defined answer |
| `queries` | tables of 5 rows in morsels of 2, flat and in partitions; 3 facts; 2 changes; scripts of recursive functions | see below |
| `select_clauses` (violation) | every combination of the clauses of a select | where, projection and take do not combine |

`queries` asks eight things.  `SelectExact`: a select means what its clauses say,
whichever of its ways it takes.  `PlanExact`: a plan that is optimized and
executed lazily gives what its operators mean, and so do selections that are
refined; among the plans are filters of partitioned columns, by comparisons with
their keys in either direction, which prune partitions and stream the others one by
one.  `ExpressionsExact`: an expression walked, compiled or taken apart has
one value.  `AnswersExact`: a Datalog query gives the least model, over facts that
are asserted and retracted in between.  `OldTuplesClosed`: before a round, the
rules applied to the old tuples give nothing that is not in the tables, which is
why rounds by differences suffice.  `ProvenanceExplains`: the sources of a tuple
prove it.  `ChangesExact`: two changes of a table, one after the other, do what
their rows mean, bind nothing but the columns of an interpreted term, and leave
the old table as it was unless it was quoted.  `FunctionsExact`: functions that
call themselves and each other, raise and catch give what their blocks mean, and
every stop of the machine leaves its stack, frames and traps in order.

Why the bounds are enough to be of interest.  `pool`: a ring of two slots with
three tasks reaches the clamp and the enlarged grain, two dispatches the surplus
tokens and late workers of the first one.  `heap`: three orders give two levels
of splitting and merging; two held blocks are enough for one thread to free the
other's block while that one is used.  `runtime`: two processes and four calls
interleave two saves, or a save, a crash and a load.  `ipc`: streams are cut at
every unit, so every prefix of every message is a state.  `graph`: four nodes hold
every shape of two disjoint or crossing paths, and Yen's third path; the small
tables hold what is irregular (parallel edges, loops, nodes out of range), and a saved
one of two equal rows has two row maps for its two saves.
`relational`: the thresholds of the kernels (`InsertMax`, `BucketMax`, `SmallMax`,
`IntroMax`, `RadixMin`) are 1 to 3, so that four rows reach every kernel and the
depth limit of introsort; two tasks of two rows each write to the digits of the
other.  `queries`: five rows make two full morsels and a part of one, `Threshold`
is reached by a reduction of a whole table and not by one of a filtered table or
of a group, integers have 12 bits and wrap;
`MaxRounds` is 20 where the code has 1000, as no program of the run needs more
than its facts allow.  The machine has 24 slots, 4 traps and 6 scopes, so that
recursion of some levels meets each limit; `limited` in the state says when.

`GroupAggregate` runs one group-by, of up to two parallel loops (`GroupLoops`): the
loop that finds the least and greatest key before the direct path (`group.c:2663`)
and the one that writes the result of the partitioned path (`group.c:3321`) are left
out, as they touch neither accumulators nor tables.  `QueryCancel` runs operators
until the pool's `MaxDispatch` dispatches are made.

### The assumption of the pool

`Spec` of `ThreadPool` is the code.  Under it the barrier fails (`pool_race`): a
worker that is still in its claim loop when the next dispatch is published can
take an index of the old `task_tail` and compare it with the new `task_count`
(`pool.c:64-66` against `pool.c:265-267`).  `SerialSpec` adds the assumption that
no worker claims between those three stores, and everything else about the pool is
shown under it.  In practice the window is a few instructions long.

It does not forbid what may happen after them.  From the store of `pending` on
(`pool.c:267`) a late worker claims tasks of the new dispatch, before
`ray_parallel_flag` and `ray_rc_sync` are raised (`pool.c:271-274`; 361-364 in
`ray_pool_dispatch_n`).  The tasks are run once and waited for, but the first of
them may run with the flags down: `ParallelGuard`, which says what `pool.c:269`
says, fails (`pool_flags`), and `FlagsOutlastTasks` is what remains of it.

### Fairness

* `ThreadPool`, and what extends it: every thread that can take a step takes one
  eventually (weak fairness of the main thread and of each worker), because they
  are threads of the operating system and no step waits for a lock.  The spin of
  the producer is enabled once `pending` is 0.
* `PoolLifecycle`: the same for callers inside a call and for woken workers.
  Nobody is obliged to call.
* `SymPersist`: a process inside a save or load goes on; `flock` wakes a waiter.
* `Ipc`: the event loop serves each connection that has something to read; a
  client goes on when its bytes are there.  Clients need not send or close.
* `GraphSession`: a search that has begun goes on, as it is a loop of one thread.
* `Runtime` takes the fairness of its two parts.  `Heap`, `Execution`, `Relational`
  and `Queries` have none; only safety is stated.

### What the inputs leave out

The modules translate the code as it is, and the properties of the queries are
stated for inputs on which the code does what its forms say.  The inputs that are
left out, most of them because the code gives another answer there (section 6
lists those of them that are defects):

* Plans: tables are not streamed, since their plans hold a constant that
  `subtree_has_default_scan` takes for a vector (`exec.c:1990`), so that the merge
  of tables (`exec.c:2129-2200`) is not reached; `in` over partition keys prunes but
  does not stream, for the same reason; filters of a column over filters of it
  (section 6); arithmetic on boolean columns; `and`, `or`, `not` over anything but
  comparisons; `isnull`; zero divisors; `neg` and `abs` but of the widest types;
  partitioned columns with nulls; HEAD straight over a filter with nulls or over
  SELECT(FILTER), TAIL over a filter; a filter over a sort, join or head; a
  constant predicate beside others; filters on the right side of a join.
* Selects: `take: 0` with a sort; group keys with both a null and 0; a sort by
  what is not projected under its own name; aggregates in a projection with a
  `where:`; a constant-false `where:` with `by:`; several keys without outputs;
  functions that use a name of their caller.
* Changes: nulls in rows that an update with `where:` or an upsert keeps, of
  columns they rewrite; inserts of a null into a string column; upserts of the
  key 0 beside a null key; `update ... by:` of an existing column.
* Datalog: a rule with two atoms of one predicate of its own stratum (`Linear`); a
  rule that concludes triples (`FactsGiven`); a variable twice in a literal;
  constants in heads; a negated literal without a bound variable.
* Language: functions that use names of their callers' blocks (scope is dynamic),
  a name bound twice in a function, `let` used outside its block, handlers inside
  functions that look at their argument, null literals, `self` with another number
  of arguments, built-in names bound again after their use, built-in functions
  passed as values over vectors.
* Sorts: digits that differ only between tasks (`DigitsCover`); extreme values
  that share the key of a null; long strings that the run detection takes for
  sorted (`Fooled`).  Windows: more partitions than `TaskCap`.

## 4. Proofs

The `_proofs` modules hold the theorems; each follows from the ASSUME of its
component's module, for every value of the constants.  Three theorems have a
hypothesis besides; it stands in the theorem and its reason below.

`Parallel_proofs`, the pool, for every number of workers, ring size, grain and sequence
of dispatches:

* `PoolInvariant`: `SerialSpec => []PoolInv`
* `TypeCorrect`, `TasksRunAtMostOnce`, `DispatchIsBarrier`, `FlagsOutlast`:
  `TypeOK`, and `AtMostOnce`, `Barrier` and `FlagsOutlastTasks` of the run `pool`.

`AtMostOnce` and `Barrier` are not inductive: they say nothing about `pending` and
about who holds an index.  `PoolInv` adds what the protocol rests on: slots hold
their own number (`RingInv`); the three published counters agree outside the
window (`PublishInv`); an owned index is below `task_tail`, belongs to this
dispatch and to one thread (`OwnerInv`, `UniqueInv`); a thread that has claimed
too much is sent back (`LateInv`); a task is touched if and only if it was
claimed and is past the check of its owner (`TouchInv`); and `pending` is the
number of tasks that are not finished (`CountInv`, with cardinalities of finite
sets).  There is one lemma for each action and under it one step for each part.

... and what a caller of the pool may rely on, in the same module:

* `LoopIsTiled`: `SerialSpec => []RangesTile`.  The argument is `CoverInv`: unless
  `ray_pool_dispatch_n` was clamped, `n_tasks * grain` reaches `total_elems`,
  because both divisions of `ray_pool_dispatch` round up (`CeilDivCovers`); an
  element then belongs to the task of its quotient and no other (`OneRange`).
* `PoolIsParallelFor`: `SerialSpec => LoopSafety`, the initial states and steps of
  `ParallelFor` under the refinement mapping.  Under `PoolInv` the tasks that are
  not finished are those `pending` counts (`UnfinishedIsOpen`); a dispatch maps to
  `Call`, a settled task to `Finish`, lowering the flags to `Return`, and every
  other step to a stutter.
* `NoTaskIsLost`, `SpinsAreServed`, `JoinsAreServed`, `PoolNeverStandsStill`: the
  safety that `DispatchReturns` and `FreeReturns` rest on.  A claimed task that was
  not started is in one thread's hand (`NoneLost`, inductive with `PoolInv`), so while
  the producer spins a worker holds one of its tasks; `TokensInv` counts the tokens of
  the shutdown loop against the workers that are still to take one.  Some thread can
  therefore always take a step.

`PoolLifecycle_proofs`, for every set of callers and number of workers:

* `LifecycleInvariant`: `Spec => []LifecycleInv`
* `LifecycleTypes`, `SingleOwner`, `NoSleeperOutside`, `ReadyPoolIsWhole`,
  `NothingIsLeft`: the parts of the invariant; `OneOwner` and `ReadyIsComplete`
  are those of the run `runtime`.

Whether a worker may still sleep on the semaphore depends on where the thread is
that creates or frees the pool.  `LifecycleInv` says for each of its points what
is allocated, how many workers were started and whether they were told to stop
(`AtPoint`), that there is one such thread (`OwnerInv`), and that a pool in use has
no token left over (`ReadyInv`): a worker therefore wakes only to end.

* `JoinsAreServed`, `SpinsAreServed`, `CallsNeverStandStill`: the safety that
  `CallsReturn` rests on.  During the joins there is one token for each worker that
  sleeps, also after a creation that failed half-way, and a state that callers spin
  on has a thread that will change it.

`Parallel_proofs`, a query that is cancelled:

* `QueryInvariant`: `QuerySpec => []QueryInv`
* `NoHolesPassedOn`: `QuerySpec => []StagesComplete`, the property of the run
  `execution`.

A query's steps are steps of the pool or leave it alone (`QueryStepsPool`), so
`PoolInv` holds of it too.  `StagesComplete` rests on what the flag does between two
tests: a task is skipped only during a dispatch and while the flag is up
(`SkipsNeedCancel`), and only a new query lowers it.  While a query runs that has
lost a task the flag is therefore up (`CancelStays`): the next `CHECK_CANCEL` ends it,
and no test that was passed has left a hole behind (`TestedWhole`).  The fill of a
join starts behind a count that no test follows.  Its offsets may be too low, and a
task that ran would write its pairs over those of another.  None runs
(`OffsetsSound`): the fill goes to the pool where the count did (`join.c:1157` and
`1184` make one comparison), and there every task meets the flag.  The theorem is
silent about stages after the last test: the gathers of a join and the last phase of
a group may leave cells unwritten in a result that is returned (section 6).

`SymPersist_proofs`, for every number of processes, symbol files, symbols and calls:

* `SymInvariant`: `Spec => []SymInv`
* `DiskHoldsPersisted`, `SavedTablesSurvive`: `PersistedAgrees` and
  `SavedColumnsSurvive` of the run `runtime`
* `SavesKeepTheFile`: `Spec => [][~PowerLoss => DiskGrows]_vars`; only a power
  failure takes an entry from a symbol file, every other step at most adds at its end
* `ColumnsReadable`: `OneFile => (Spec => []ColumnsResolve)`
* `LocksAreReleased`, `CallsNeverStandStill`: the safety that `CallsEnd` rests on.
  Who holds a lock is in a call that has not released it yet, whoever failed or
  died; a call that cannot go on therefore waits for one that can.

None of these is inductive: what a rename puts in the place of a file was read
earlier and merged since, while other processes saved and died.  `SymInv` says
for each point of a call what it has read and still relies on (`CallInv`): the
list it merges agrees with memory as far as the merge has come, the snapshot
contains the whole file, and the lock it holds keeps the file as it was read
(`LockInv`); and that what a power failure leaves of a file is a beginning of it
(`FileInv`).  `ColumnsResolve` is a theorem only with one symbol file (`OneFile`):
`persisted_count` does not say which file it counts (`sym.c:491`, a hazard in the
list of `PROJECT.json`), and after a save to one file the save next to another
writes columns only.  The run has one file for the same reason.

`Ipc_proofs`, for every number of connections, messages and servers, and every
size of a payload and of the credentials:

* `IpcInvariant`: `Spec => []IpcInv`
* `CallsGetTheirOwnResult`, `StreamsAreReassembled`, `OnlyTheAuthorizedAreServed`:
  `ReplyMatches`, `EvaluatedInOrder` and `EvaluatedAuthorized` of the run `ipc`
* `NobodyWaitsForEver`: `Poll \notin Secured => (Spec => []NoMutualWait)`

`IpcInv` follows a connection unit by unit.  `Stages` says which points of client
and server go together; `Upstream`, that the header the server keeps, its buffer
and the stream, one after the other, are exactly the messages sent and not yet
evaluated, whole and in order, wherever the last read has cut them (`Carries`), and
that a buffer never holds more than was asked for; `Types`, that a client that
waits for an answer has sent nothing after its question; `Downstream`, that what
comes back is the answer to that question, or what is left of an answer whose
reader ran out of memory, which the next call refuses as a header.  A client that
waits therefore either has its answer on the stream or the server has what it needs
for its next step.  That
fails for the poll server with a password, which forgets the length byte of the
credentials when it asks for the rest (`ipc.c:379`, section 6): the theorem
excludes it, and so does the run.

`Heap_proofs`, for every set of workers, number of pools, order of pools, slab and
sequence of calls:

* `HeapSound`: `Spec => []Inv`
* `TilingAlways`, `FreeAtHomeAlways`, `BytesAccountedAlways`: `Tiling`, `FreeAtHome`
  and `BytesAccounted` of the run `heap`

`heap_coalesce` reads the word at an address it has computed and takes it for a
header.  That this is sound is what the invariant has to carry, and `Tiling` does not
say it.  `Sound` does: every block in a list or in use lies in a mapped pool, aligned to
its size and behind the pool's header; two that meet are one block in one place;
together they fill the pools (`Tiled`); and the header of each has `rc` 0 exactly if it
is on a free list, and its order (`Headers`).  Nothing is said of other words, so no
call depends on what they hold.  `Good` adds the accounts.  The arithmetic is that of
aligned blocks: two of them are apart or nested (`Nested`), so the buddy's address is
in a block of at most the buddy's order, and if its header says that order it is the buddy
(`BuddyBlock`); a run of such buddies and the block fill exactly the block one piece
larger each time (`MergeCovers`), as the right halves of a split fill theirs
(`HalvesCover`).  A call then exchanges blocks for blocks that cover the same memory
(`Replace`, `Exchange`, `Moved`), maps a pool with its blocks (`Growth`) or unmaps one
of which nothing is in use (`UnmapSound`: the free and cached blocks add up to the
pool, so that any other would be one too many, by cardinality).  A collection is a
sequence of such exchanges: a fold over the free blocks (`FoldTheorems`, below).

`Parallel_proofs`, the parallel group-by, for every number of workers, groups, partitions and rows,
every finite set of values and every ring that holds a task for each partition:

* `GroupInvariant`: `GroupSpec => []GroupInv`
* `AggregatesAlwaysExact`: `GroupSpec => []AggregatesExact`, the property of the run
  `execution`

The hazard is that the result depends on which thread claimed which rows, and the
argument is that what an accumulator holds can be said without an order.  `Exact`
says it of an accumulator and a set of rows: their number, the sum of their values
(the cardinality of as many units, so that sums over sets need no recursion), a least
and a greatest value, a first and a last that are values of the set.  A row adds to
the set (`AccumulateExact`), a merge of accumulators of disjoint sets is exact for
their union (`MergeExact`), and two accumulators that are exact for one set agree in
all but first and last (`ExactUnique`).  `GroupInv` says where the rows are: those of
the tasks that ended (`Done`) are split between the threads (`Split`), each row in one
of them and once; while the merge runs, the groups of its ended tasks are those of
all rows and the others as the scan left them (`MergeState`); while partitions are
aggregated, the groups of the ended ones are final (`PartitionState`).  Rows that a
buffer dropped for lack of memory are missing there only while its flag is up, and the
sequential pass that follows reads the columns again.  Rows that the table of a
partition dropped are gone: nothing looks at that (`group.c:678-679`, `1139-1140`), so
`lost` collects them, and the theorem is about the other rows (section 6).  `PoolInv` says
which step ends a task and that each ends once (`ClaimLoopEnds`), `CoverInv` that the
tasks cover the rows; since `Done` is empty when a loop begins and everything when it
returns, no other row is missing or counted twice.  FIRST and LAST of a sequential
pass are not claimed, as they depend on the claims (section 6).

`GraphStore_proofs`, for every edge table, number of nodes and bound:

* `StoreInvariant`: `StoreSpec => []StoreInv`
* `RelationAlwaysIndexed`: `StoreSpec => []RelationIndexed`, the property of the run
  `graph`, in which every step of `GraphSession` is one of `StoreNext` or leaves the
  variables of the store alone

`Whole` says what an index is: the offset of a node counts the edges with a smaller key
(`OffsetsCount`), and its rows are all edges with a valid key, in the order of key and
far end.  The filling pass gives that (`FilledIsWhole`): the place of an edge is its
offset and its rank in its list (`SlotCounts`), a bijection as counting is one
(`CountingRanks`).  The insertion sort after it moves nothing, because `qsort` has
sorted by the far end too (`AdjacencyInOrder`), so `RelationIndexed` holds of the
result, sorted or not (`WholeIndexes`).  For the files the hazard is a directory that
holds parts of two saves.  Two whole indexes of one table differ in the rows of
equal edges only (`OnlyRowsDiffer`, by the first position at which they would): offsets
and targets of one save and the row map of another make a whole index.  `OnDisk` says
that the files of a side are of some whole index, and the order of the seven files does
the rest: where the reverse offsets are, the forward row map is.  A load may still
fail to read it and goes on without (`csr.c:413-417`); the property then asks for
some row map that would fit the targets, and that the file is there.  `SaveStart` asks
that the offsets on disk are those of the relation, as a directory keeps one relation:
over another version of it two halves can pass the validation of a load (section 6).

`Datalog_proofs`, for every set of requests, every order of assertions and
retractions, and every bound on facts and rounds:

* `EvaluationInvariant`: `DatalogSpec => []Inv`
* `OldTuplesAreClosed`: `DatalogSpec => []OldTuplesClosed`, the property of the run
  `queries`, in which every step of a session about rules is one of `DatalogNext`
* `ProgramIsLayered`: a predicate is above those it negates, not below those it uses
* `OtherStrataKept`: `DatalogSpec => StrataKept`, an action property: what a negation
  has read does not change any more
* `StratumIsLeast`: a stratum that has converged is closed under its rules and least
* `ModelIsReached`: `DatalogSpec /\ []~CutOff => []ModelReached`: the tables at the
  end contain the facts and are closed under every rule of the program
* `ModelIsLeast`: `DatalogSpec => []TablesLeast`: at the end the tables of a stratum
  are within all tables that its rules do not enlarge.  With `ModelReached` this is the
  model of the program, stratum by stratum.

The hazard is the round by differences (`datalog.c:1648-1735`): each rule sees only
the new tuples of one of its atoms at a time, so what the old tuples give must be there
already, and what two new tuples give together must not get lost.  The passes of
`dl_compile_rule` over a body are chains (`BodyPass`), and a row that a literal makes
comes from one row before it and at most one tuple (`LiteralRow`).  Hence more tuples
give more rows as long as negated tables are the same (`PassGrows`, `DerivedGrows`),
and what a rule derives from old and new tuples together it derives from the old ones
alone or with some atom over the new ones only (`DerivedSplit`): a row that needs a new
tuple at one atom is one of the table in which that atom's predicate holds nothing else.
This is where `Linear` is needed, because the code exchanges the table of a predicate
and not of one atom: with two atoms of one predicate both see the difference, and pairs
of an old and a new tuple are lost (section 6).  `RoundInv` says what holds between
two turns of a round: the old tuples are closed, and what the differences give to the
rules that had their turn is in `fresh`.  `MergeRound` then makes the next `Old` out of
the tables, and `DerivedSplit` closes it.  The first pass gives the start: the rules that
had their turn are closed over what lower strata give (`InitialInv`).

Negation needs the levels.  `LevelsAfterIs` follows the passes of `dl_stratify`: one that
changes nothing leaves levels in which each pair of predicates respects its dependency
(`StratifiedLayered`), because a pass never lowers a level (`PassRaises`).  That every
predicate of a rule's head has a relation is `RegisteredComplete`.  So the rules of a
stratum negate tables of lower strata only, which the steps keep (`OthersStay`), and
a finished stratum stays closed and least while others grow (`LowerRuleStays`,
`LeastStays`).  The theorems assume of the requests that rules and bodies are lists
(`RequestsAreLists`).  Beside `Linear` they leave out rules that conclude triples
(`FactsGiven`): the rounds pass over a relation that was given (`datalog.c:1664`).
`ModelIsReached` excludes a stratum whose rounds are cut off with tuples that no rule
has seen (`CutOff`, `MaxRounds`; 1000 in `datalog.c:1633`): such an answer is
incomplete without a notice.  That it still holds nothing too much is `ModelIsLeast`,
which needs neither this nor `Linear`.

`FoldTheorems`: a fold of the community modules chooses a recursive function on the
subsets of an index set.  That there is one (`FoldExists`), and that what every step
keeps holds of the result (`FoldInduction`, `FoldReaches`), is shown by the existence of
a subset of least cardinality that fails; no theorem with an operator for a parameter
is needed.  Each use names the function in place of the operator of the fold.

`PoolInv`, `LifecycleInv` and the type invariants of those modules are proved and
no longer among the invariants of the runs; TLC agreed with each of them before, as it
did with `QueryInv`, `SymInv`, `IpcInv`, the `Inv` of `Heap`, `GroupInv` and the `Inv`
of `Datalog` but for what it says of all models (`SoundInv`) and of lists.  `StoreInv`
quantifies over row maps and was not put to TLC; what it implies is.

Only model-checked:

* liveness, ENABLED and the fairness of `ParallelFor`, which the prover cannot state
  or use; for the pool, its singleton and the symbol file the theorems say that
  somebody can always go on, and TLC that with fairness everybody does;
* the questions of `GraphSession` and the modules of columns, queries and the
  language: they are recursive throughout, and what a recursive operator returns for
  every input takes an induction over data, which the prover does not have;
* of Datalog `AnswersExact` and `ProvenanceExplains`, as both compare the rules that
  were read with what their clauses mean (`DatalogMeaning`, recursive); the theorems
  speak of the rules as they were read.

## 5. What the violation runs say

* `pool_race`: `ray_pool_dispatch` can return early (`pool.c:265-267`).
* `pool_flags`: a late worker can run a task before the flags are raised, while
  `pool.c:269` marks the parallel region because "cross-heap freelist modification is
  unsafe" in it; a free in that task may merge buddies of other heaps (`heap.c:186`).
* `search_depth`: the depth counter of a shortest path is as wide as its bound, and an
  empty frontier does not end the loop (`traverse.c:535`): with 255 hops allowed and no
  path it never ends.  In the run the counter has 2 bits in place of 8.
* `select_clauses`: a take of a filtered projection is an error; the head cuts the
  table under the pending selection (`exec.c:1334-1406`, `filter.c:508`), while
  `queries-select.html:229` says that all clauses can be combined.

## 6. Other defects of the code met while modelling

Each is at the lines named; the models translate them where an input reaches them.

Threads, files and connections:

* The last stages of a reduction, group or join are followed by no test, so that a
  result can miss skipped tasks (`group.c:279`, `group.c:3321`, `join.c:1296-1337`);
  a cancellation before `ray_execute_inner` clears the flag is lost (`exec.c:2085`).
  `test_pool.c:271` says that `ray_cancel` causes `ray_execute` to return an error: it
  does not in either case.
* FIRST and LAST of a parallel group-by depend on which worker claimed which rows
  (`group.c:2881-2887`): the code relies on workers that process sequential ranges
  (`group.c:140-142`), which claims do not give.  `queries-pivot.html:226` says "First
  value in group".
* A partitioned group-by drops rows without an error when the table of a partition
  cannot be allocated or grow (`group.c:1139-1140`, `678-679`).  Pivot tests for both
  (`group.c:4346-4353`: "so callers never see a silently-truncated result").  Not
  modelled beside it: a radix buffer whose first allocation fails, a rehash that fails,
  an interrupt in the sequential pass.
* The skip in `ray_sym_save` does not look at the path: a second symbol file is
  not written (`sym.c:491`; `SymPersist` with two paths).
* The poll server never accepts a password (`ipc.c:379`; `Ipc` with `Poll` in
  `Secured`).
* `ray_heap_gc` leaves foreign lists to a flush that workers do not do
  (`heap.c:1007`); a save over a splayed table or a relation can leave files of two
  versions (`splay.c:112`, `csr.c:365`).
* `ray_pool_dispatch_n` drops tasks beyond the ring (`pool.c:347`), which the window
  operator reaches with many partitions (`window.c:1144`).

Graphs and columns:

* A relation whose forward row map could not be read is loaded without it, and the
  weighted searches read through the null pointer (`csr.c:413-417`, `traverse.c:984`,
  `1928`, `2266`, `2372`).
* Dijkstra with a target reports tentative distances; Yen drops parallel edges.
* Digits of radix keys are counted inside tasks (`sort.c:278-318`); composite keys
  ignore nulls (`sort.c:1039-1069`); runs of strings are told by length
  (`sort.c:1291-1316`); a join drops columns beyond 16.
* A filter in parallel loses nulls (`filter.c:376`), a compaction drops common
  columns; `and`/`or` read booleans of a scan as 8-byte values; `not`, `isnull`, `ceil`
  and casts of some types write nothing; a zero divisor is null in one evaluation
  and 0 in the other.

Queries and changes:

* `where:` constant false with `by:` runs over all rows (`opt.c:500-533`,
  `query.c:1611-1640`); `take: 0` with a sort gives the whole table (`sort.c:3182`);
  aggregates of a projection ignore `where:` (`exec.c:985-1005`); a sort after a
  projection uses the names before it (`query.c:2019-2057`); groups of null and 0
  can change places (`query.c:1899-1909`); the optimizer does not split a
  conjunction where its plan says so (`opt.c:1411-1450`); of a column it splits one
  into two filters, which fail with "length" unless the first passes every row
  (`filter.c:82`), where `test_opt.c:108-113` expects the same result and does not
  call the optimizer.
* An update with `where:` drops the nulls of the rows it keeps; `update ... by:` of an
  existing column gives it twice and reads nulls as 0; a term that has to be
  interpreted overwrites global variables named like columns (`query.c:2788-2795`,
  `2855-2862`, `3059-3066`); a null cannot be inserted into a string column
  (`query.c:2570`); a row without the key column makes an upsert read through a null
  pointer (`query.c:3562`); `alter` of a quoted name releases one reference too many
  (`tblop.c:609-647`).

Datalog and the language:

* `dl_filter_eq` and `dl_builtin_before` return an empty input unretained
  (`datalog.c:554`, `745`), and the caller releases it (`835`, `980`); reference counts
  are not modelled.
* A rule with two literals of its own stratum loses tuples (`datalog.c:1660-1684`);
  more than 1000 rounds are cut off silently (`datalog.c:1633`).
* In a compiled function a handler gets the error and not the value raised
  (`eval.c:1773`; `control-flow.html:154-164` says otherwise); the constants 0 and null
  share a place (`compile.c:129-143`); a `let` leaks out of its block; `set` and inner
  functions do not see the locals; a parameter named like a built-in function is
  ignored in head position; the seventeenth nested `try` is answered by the
  sixteenth; an interrupt can be swallowed by a handler.

## 7. Not modelled yet, and the plan

In this order:

1. Splayed and partitioned tables: a save over an existing table, crash in the
   middle, partition discovery.
2. Reference counts and copy on write under `ray_rc_sync`, with the pool.
3. The radix join, pivot, sort and window stages under cancellation, with the
   terminal interrupt as an actor.
4. Pivot, serialization and compression against their reference definitions.
5. Huge blocks, heap merge and pending lists in `Heap`; bounded socket buffers
   and servers that call each other in `Ipc`.
6. `alter` and `modify`, columns of lists, symbols of other widths in `Changes`; the
   window joins of the language.

Left out for good: text handling (parser, formatter, terminal), text and time
kernels and the HNSW index (data without control), the random walk (random by
design), system wrappers and the pollers of other systems.
