------------------------------- MODULE Window -------------------------------
(***************************************************************************)
(* The window functions of ops/window.c: rows are sorted by the partition  *)
(* and the order columns, cut into partitions where the values of the      *)
(* former change, and every partition is a task that fills the results of  *)
(* its rows.                                                               *)
(***************************************************************************)
EXTENDS Sort

CONSTANT TaskCap     \* tasks the ring of the pool can hold, 65536

ASSUME WindowAssumption == TaskCap \in Nat \ {0}

NullCell == [v |-> 0, null |-> TRUE]

(* The sort of the window: nulls come first in a descending column.  No    *)
(* digits are left out.                                                    *)
WindowOrder(cols, descs, T) ==
  LET n == Len(cols[1])
      After(a, b) == CompareRows(cols, descs, descs, a, b) > 0
      composite == CompositeKeys(cols, descs)
      keys == IF Len(cols) = 1 THEN [i \in 1 .. n |-> Encode(cols[1][i], descs[1], descs[1])]
              ELSE composite.keys
      digits == IF Len(cols) = 1 THEN Width ELSE CeilOf(composite.bits, DigitBits)
  IN  IF n <= SmallMax THEN InsertionSort([i \in 1 .. n |-> i], After)
      ELSE IF Len(cols) > 1 /\ composite.bits > DigitBits * Width THEN MergeSort(n, T, After)
      ELSE Rows(IF n <= IntroMax THEN IntroSort(Pairs(keys)) ELSE RadixSort(Pairs(keys), T, digits))

(* Values below nulls count, as in the key columns of a partition. *)
KeysDiffer(cols, a, b) == \E k \in DOMAIN cols : cols[k][a].v # cols[k][b].v

(* Faulty variant: only the first partition column is looked at. *)
StartsFirstOnly(part, order) ==
  {p \in DOMAIN order : p = 1 \/ KeysDiffer(SubSeq(part, 1, 1), order[p - 1], order[p])}

Starts(part, order) ==
  {p \in DOMAIN order : p = 1 \/ KeysDiffer(part, order[p - 1], order[p])}

(* A partition is the sequence of its rows; i is a place in it.            *)
PartitionAt(part, order, s) ==
  LET ends == {e \in Starts(part, order) : e > s}
  IN  SubSeq(order, s, IF ends = {} THEN Len(order) ELSE Min(ends) - 1)

Frame(rows, i, whole) == IF whole THEN 1 .. Len(rows) ELSE 1 .. i
Live(col, rows, places) == {j \in places : ~ col[rows[j]].null}
Of(v) == [v |-> v, null |-> FALSE]
At(col, rows, j) == IF j \in DOMAIN rows /\ ~ col[rows[j]].null THEN col[rows[j]] ELSE NullCell
Total(col, rows, places) == FoldSet(LAMBDA j, a : a + col[rows[j]].v, 0, places)
Positive(x) == IF x <= 0 THEN 1 ELSE x

(* Places where the order columns change. *)
Steps(order, rows, i) == {j \in 2 .. i : KeysDiffer(order, rows[j - 1], rows[j])}

WindowValue(f, order, rows, i) ==
  LET frame == Frame(rows, i, f.whole)
      live == Live(f.col, rows, frame)
      values == {f.col[rows[j]].v : j \in live}
  IN  CASE f.kind = "row_number" -> Of(i)
        [] f.kind = "rank" -> Of(Max({1} \cup Steps(order, rows, i)))
        [] f.kind = "dense_rank" -> Of(1 + Cardinality(Steps(order, rows, i)))
        [] f.kind = "ntile" -> Of(((i - 1) * Positive(f.n)) \div Len(rows) + 1)
        [] f.kind = "count" -> Of(Cardinality(frame))
        [] f.kind = "sum" -> Of(Total(f.col, rows, live))
        [] f.kind = "avg" -> IF live = {} THEN NullCell
                             ELSE [v |-> <<Total(f.col, rows, live), Cardinality(live)>>, null |-> FALSE]
        [] f.kind = "min" -> IF live = {} THEN NullCell ELSE Of(Min(values))
        [] f.kind = "max" -> IF live = {} THEN NullCell ELSE Of(Max(values))
        [] f.kind = "lag" -> At(f.col, rows, i - Positive(f.n))
        [] f.kind = "lead" -> At(f.col, rows, i + Positive(f.n))
        [] f.kind = "first" -> At(f.col, rows, 1)
        [] f.kind = "last" -> At(f.col, rows, IF f.whole THEN Len(rows) ELSE i)
        [] OTHER -> At(f.col, rows, Positive(f.n))

(* Results are zero until the task of their partition fills them in; a     *)
(* pool takes TaskCap tasks at most and drops the others.                  *)
WindowColumns(part, orderCols, descs, functions, T) ==
  LET n == Len((part \o orderCols)[1])
      Results(starts, rowsAt, place) ==
        LET Start(i) == Max({s \in starts : s <= place[i]})
            Done(s) == T = 1 \/ Cardinality(starts) = 1
                         \/ Cardinality({e \in starts : e <= s}) <= TaskCap
            Value(f, i, start) == IF ~ Done(start) THEN Of(0)
                                  ELSE WindowValue(f, orderCols, rowsAt[start], place[i] - start + 1)
        IN  [f \in DOMAIN functions |-> [i \in 1 .. n |-> Value(functions[f], i, Start(i))]]
      Cut(order, starts) ==
        Results(starts,
                [s \in starts |-> IF part = <<>> THEN order ELSE PartitionAt(part, order, s)],
                [i \in 1 .. n |-> CHOOSE p \in 1 .. n : order[p] = i])
      Ordered(order) == Cut(order, IF part = <<>> THEN {1} ELSE Starts(part, order))
  IN  Ordered(WindowOrder(part \o orderCols, descs, T))
=============================================================================
