--------------------------- MODULE GroupAggregate ---------------------------
(***************************************************************************)
(* A parallel group-by of ops/group.c on the thread pool.  The direct path *)
(* accumulates every row into an array of the thread that runs the task,   *)
(* and merges the arrays in the order of the worker numbers, in the caller *)
(* or, for many groups and no FIRST or LAST, in a second parallel loop     *)
(* over disjoint ranges of groups.  The partitioned path sorts rows into   *)
(* buffers of the thread, one for each partition of the keys, and a second *)
(* parallel loop aggregates each partition from the buffers of all         *)
(* threads.  Which thread runs which rows is decided by the claims.        *)
(*                                                                         *)
(* Memory may run out.  A buffer that cannot grow makes the operator start *)
(* again with one sequential pass; a table of a partition that cannot be   *)
(* allocated or grow drops rows, and nothing looks at that afterwards.     *)
(*                                                                         *)
(* The query is not cancelled (see QueryCancel); keys are numbers of       *)
(* groups, the partition of a key stands for the high bits of its hash.    *)
(* The min/max scan of the keys before the direct path and the parallel    *)
(* loop that writes the result of the partitioned one are left out.        *)
(***************************************************************************)
EXTENDS ThreadPool, SequencesExt

CONSTANTS
  NGroups,       \* bound: groups of the data
  Value,         \* values of the aggregated column
  RadixP,        \* RADIX_P, partitions; at most the initial ring in the code
  GroupLoops     \* bound: parallel loops the group-bys of a behaviour may start

ASSUME GroupAssumption ==
  /\ NGroups \in 1 .. MaxTotal
  /\ Value \subseteq Nat
  /\ IsFiniteSet(Value)
  /\ RadixP \in 1 .. InitCap
  /\ RadixP <= MaxTotal

Group == 0 .. NGroups - 1
Partition == 0 .. RadixP - 1
PartitionOf(g) == g % RadixP

VARIABLES
  phase,         \* what the operator is doing
  path,          \* "direct" or "radix"
  ordered,       \* the query has a FIRST or LAST aggregate
  keys, vals,    \* the columns, row by row
  accs,          \* accumulators of each thread
  bufs,          \* radix buffers of each thread
  short,         \* the oom flag of a radix buffer is set
  lost,          \* history: rows that tables of partitions dropped
  out            \* aggregates of each group, in the result

gvars == <<phase, path, ordered, keys, vals, accs, bufs, short, lost, out>>
allvars == <<vars, gvars>>

\* The threads by worker number: the main thread is worker 0.
ByNumber == CHOOSE s \in Bijection(1 .. NWorkers + 1, Thread) : s[1] = Main

Most(a, b) == IF a > b THEN a ELSE b
Top == 1 + FoldSet(Most, 0, Value)       \* INT64_MAX

Empty == [count |-> 0, sum |-> 0, min |-> Top, max |-> -1, first |-> 0, last |-> 0]
NoGroups == [g \in Group |-> Empty]
NoRows == [p \in Partition |-> <<>>]

\* One row into the accumulator of its group.
Accumulate(acc, v) ==
  [count |-> acc.count + 1,
   sum   |-> acc.sum + v,
   min   |-> Least(acc.min, v),
   max   |-> Most(acc.max, v),
   first |-> IF acc.count = 0 THEN v ELSE acc.first,
   last  |-> v]

\* The accumulator of a later worker into the merged one.
Merge(m, w) ==
  [count |-> m.count + w.count,
   sum   |-> m.sum + w.sum,
   min   |-> Least(m.min, w.min),
   max   |-> Most(m.max, w.max),
   first |-> IF m.count = 0 /\ w.count > 0 THEN w.first ELSE m.first,
   last  |-> IF w.count > 0 THEN w.last ELSE m.last]

AddRow(groups, r) == [groups EXCEPT ![keys[r]] = Accumulate(@, vals[r])]
AddRowsBut(groups, rows, drop) ==
  FoldLeft(LAMBDA m, r : IF r \in drop THEN m ELSE AddRow(m, r), groups, rows)
AddRows(groups, rows) == AddRowsBut(groups, rows, {})

\* The result of one thread that goes over the rows in their order.
AllRows == DOMAIN keys
Sequential == AddRows(NoGroups, [r \in 1 .. Cardinality(AllRows) |-> r - 1])

\* Worker 0 is the base; the others are merged into it by number.
Merged(g) == FoldLeft(LAMBDA m, t : Merge(m, accs[t][g]), accs[Main][g], Tail(ByNumber))

RowsIn(p) == {r \in AllRows : PartitionOf(keys[r]) = p}

\* One row into the buffer of its partition.
Scatter(b, r) == [b EXCEPT ![PartitionOf(keys[r])] = Append(@, r)]
ScatterRowsBut(b, rows, drop) ==
  FoldLeft(LAMBDA m, r : IF r \in drop THEN m ELSE Scatter(m, r), b, rows)

\* The rows of a partition, from the buffers of all workers in their order.
Stream(p) == FoldLeft(LAMBDA s, t : s \o bufs[t][p], <<>>, ByNumber)

\* Its groups, from those of the rows that are not dropped.
Aggregated(p, drop) ==
  FoldLeft(LAMBDA m, t : AddRowsBut(m, bufs[t][p], drop), NoGroups, ByNumber)

\* The rows a table may drop for lack of memory: all of them, when it cannot be
\* allocated, or rows that would open a group for which it cannot grow.  It has
\* room for the first one.
Drops(p) ==
  LET rows == Stream(p)
      Opens(i, drop) == \A j \in 1 .. i - 1 : keys[rows[j]] = keys[rows[i]] => rows[j] \in drop
  IN  {ToSet(rows)} \cup
      {drop \in SUBSET ToSet(rows) :
         \A i \in DOMAIN rows : rows[i] \in drop => i # 1 /\ Opens(i, drop)}

GroupInit ==
  /\ Init
  /\ phase = "none"
  /\ path = "direct"
  /\ ordered = FALSE
  /\ keys = <<>>
  /\ vals = <<>>
  /\ accs = [t \in Thread |-> NoGroups]
  /\ bufs = [t \in Thread |-> NoRows]
  /\ short = FALSE
  /\ lost = {}
  /\ out = NoGroups

-----------------------------------------------------------------------------
(* The tasks: what fn(ctx, worker, start, end) does. *)

TaskRange(i) == [j \in 1 .. TaskEnd(i) - TaskStart(i) |-> TaskStart(i) + j - 1]

\* da_accum_fn and radix_phase1_fn: rows into the thread's own state.  A buffer
\* that cannot grow drops rows and says so in its flag.
ScanTask(t, range) ==
  /\ \/ /\ path = "direct"
        /\ accs' = [accs EXCEPT ![t] = AddRows(@, range)]
        /\ UNCHANGED <<bufs, short>>
     \/ /\ path = "radix"
        /\ \E drop \in SUBSET ToSet(range) :
             /\ bufs' = [bufs EXCEPT ![t] = ScatterRowsBut(@, range, drop)]
             /\ short' = (short \/ drop # {})
        /\ UNCHANGED accs
  /\ UNCHANGED <<lost, out>>

\* da_merge_fn: the groups of the range, over all workers.
MergeTask(range) ==
  /\ accs' = [accs EXCEPT ![Main] =
                [g \in Group |-> IF g \in ToSet(range) THEN Merged(g) ELSE @[g]]]
  /\ UNCHANGED <<bufs, short, lost, out>>

\* radix_phase2_fn: the partitions of the range.
PartitionTask(range) ==
  /\ \E drop \in SUBSET UNION {RowsIn(p) : p \in ToSet(range)} :
       /\ \A p \in ToSet(range) : drop \cap RowsIn(p) \in Drops(p)
       /\ lost' = lost \cup drop
       /\ LET table == [p \in ToSet(range) |-> Aggregated(p, drop)]
          IN out' = [g \in Group |-> IF PartitionOf(g) \in ToSet(range)
                                       THEN table[PartitionOf(g)][g] ELSE out[g]]
  /\ UNCHANGED <<accs, bufs, short>>

RunTask(t, range) ==
  \/ phase = "scan" /\ ScanTask(t, range)
  \/ phase = "merge" /\ MergeTask(range)
  \/ phase = "partitions" /\ PartitionTask(range)

-----------------------------------------------------------------------------
(* The operator. *)

BeginGroup ==
  /\ phase \in {"none", "done", "failed"}
  /\ dispatches + 2 <= GroupLoops      \* bound: none stops for want of a loop
  /\ \E n \in 1 .. MaxTotal :
       /\ Dispatch(n)
       /\ keys' \in [0 .. n - 1 -> Group]
       /\ vals' \in [0 .. n - 1 -> Value]
  /\ phase' = "scan"
  /\ path' \in {"direct", "radix"}
  /\ ordered' \in BOOLEAN
  /\ accs' = [t \in Thread |-> NoGroups]
  /\ bufs' = [t \in Thread |-> NoRows]
  /\ short' = FALSE
  /\ lost' = {}
  /\ out' = NoGroups

\* The merge in the caller.
MergeHere ==
  /\ phase = "scan" /\ path = "direct" /\ pc[Main] = "idle"
  /\ out' = [g \in Group |-> Merged(g)]
  /\ phase' = "done"
  /\ UNCHANGED <<vars, path, ordered, keys, vals, accs, bufs, short, lost>>

\* The merge as a parallel loop.
MergeThere ==
  /\ phase = "scan" /\ path = "direct" /\ ~ordered
  /\ Dispatch(NGroups)
  /\ phase' = "merge"
  /\ UNCHANGED <<path, ordered, keys, vals, accs, bufs, short, lost, out>>

MergeDone ==
  /\ phase = "merge" /\ pc[Main] = "idle"
  /\ out' = accs[Main]
  /\ phase' = "done"
  /\ UNCHANGED <<vars, path, ordered, keys, vals, accs, bufs, short, lost>>

\* Faulty variant: the flags of the buffers are not looked at.
AggregateAnyPartitions ==
  /\ phase = "scan" /\ path = "radix"
  /\ DispatchN(RadixP)
  /\ phase' = "partitions"
  /\ UNCHANGED <<path, ordered, keys, vals, accs, bufs, short, lost, out>>

\* Every buffer is whole, and the array of tables could be allocated.
AggregatePartitions ==
  /\ phase = "scan" /\ path = "radix" /\ ~short
  /\ DispatchN(RadixP)
  /\ phase' = "partitions"
  /\ UNCHANGED <<path, ordered, keys, vals, accs, bufs, short, lost, out>>

PartitionsDone ==
  /\ phase = "partitions" /\ pc[Main] = "idle"
  /\ phase' = "done"
  /\ UNCHANGED <<vars, path, ordered, keys, vals, accs, bufs, short, lost, out>>

\* sequential_fallback: a buffer is short, or there is no memory for the tables.
\* The pass goes over the columns again, and its own table is looked at.
SequentialPass ==
  /\ phase = "scan" /\ path = "radix" /\ pc[Main] = "idle"
  /\ \/ out' = Sequential /\ phase' = "done"
     \/ phase' = "failed" /\ UNCHANGED out
  /\ UNCHANGED <<vars, path, ordered, keys, vals, accs, bufs, short, lost>>

FreePool == phase \in {"none", "done", "failed"} /\ StartFree /\ UNCHANGED gvars

\* A step of a thread; when it ends a task, the effect of the task.
PoolStep ==
  /\ SerialMain \/ \E w \in Worker : SerialWorker(w)
  /\ LET ended == {t \in Thread : pc[t] = "run" /\ pc'[t] # "run"} IN
       IF ended = {} THEN UNCHANGED <<accs, bufs, short, lost, out>>
       ELSE \E t \in ended : RunTask(t, TaskRange(ring[idx[t] % cap]))
  /\ UNCHANGED <<phase, path, ordered, keys, vals>>

GroupNext ==
  \/ BeginGroup
  \/ MergeHere
  \/ MergeThere
  \/ MergeDone
  \/ AggregatePartitions
  \/ PartitionsDone
  \/ SequentialPass
  \/ FreePool
  \/ PoolStep
  \/ Terminated /\ UNCHANGED gvars

GroupSpec == GroupInit /\ [][GroupNext]_allvars

-----------------------------------------------------------------------------
\* The rows a result tells of, as one thread would aggregate them.
Told == AddRowsBut(NoGroups, [r \in 1 .. Cardinality(AllRows) |-> r - 1], lost)

\* Counts, sums, minima and maxima do not depend on the schedule, the path or
\* the buffers that ran short: they are those of a sequential pass over all rows
\* but the ones that tables of partitions dropped without an error, which only
\* the partitioned path does.  What FIRST and LAST return for a group is a value
\* of one of these rows, whichever worker saw the group.
AggregatesExact ==
  phase = "done" =>
    /\ lost # {} => path = "radix" /\ ~short
    /\ \A g \in Group :
         LET o == out[g]
             s == Told[g]
             own == {vals[r] : r \in {q \in AllRows \ lost : keys[q] = g}}
         IN  /\ o.count = s.count /\ o.sum = s.sum /\ o.min = s.min /\ o.max = s.max
             /\ ordered /\ own # {} => o.first \in own /\ o.last \in own

=============================================================================
