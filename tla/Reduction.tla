----------------------------- MODULE Reduction -----------------------------
(***************************************************************************)
(* Reductions of a vector to an atom (group.c).  A large vector is cut     *)
(* into tasks; every worker accumulates the tasks it happens to take, in   *)
(* the order of their rows, and the accumulators of the workers are        *)
(* merged.                                                                 *)
(***************************************************************************)
EXTENDS Vectors

CONSTANT TaskRows     \* rows of a task of the pool

NoValue == [sum |-> 0, prod |-> 1, low |-> NoPlan, high |-> NoPlan, first |-> NoPlan, last |-> NoPlan, cnt |-> 0]

LowerOf(a, b) == IF a = NoPlan \/ (b # NoPlan /\ b < a) THEN b ELSE a
HigherOf(a, b) == IF a = NoPlan \/ (b # NoPlan /\ b > a) THEN b ELSE a
Product(type, a, b) ==
  IF type # "f64" THEN Wrap("i64", a * b) ELSE IF NaN \in {a, b} THEN NaN ELSE Truncate(a * b, Scale)
Total(type, a, b) == IF type = "f64" THEN a + b ELSE Wrap("i64", a + b)
One(type) == IF type = "f64" THEN Scale ELSE 1

(* The rows that are null are passed over. *)
ReduceRange(acc, type, cells, rows) ==
  FoldLeft(LAMBDA a, r :
             IF cells[r].null THEN a
             ELSE LET v == cells[r].v
                  IN  [sum |-> Total(type, a.sum, v),
                       prod |-> Product(type, IF a.cnt = 0 THEN One(type) ELSE a.prod, v),
                       low |-> LowerOf(a.low, v), high |-> HigherOf(a.high, v),
                       first |-> IF a.first = NoPlan THEN v ELSE a.first, last |-> v,
                       cnt |-> a.cnt + 1],
           acc, rows)

ReduceMerge(type, a, b) ==
  [a EXCEPT !.sum = Total(type, @, b.sum), !.prod = Product(type, @, b.prod),
            !.low = LowerOf(@, b.low), !.high = HigherOf(@, b.high), !.cnt = @ + b.cnt]

(* owner[t] is the worker that took task t.  A worker without values is    *)
(* left out, unless it is the first.                                       *)
ReduceParallel(type, cells, owner) ==
  LET tasks == Upto((Len(cells) + TaskRows - 1) \div TaskRows)
      Rows(t) == Keep(Upto(Len(cells)), LAMBDA r : (r - 1) \div TaskRows = t - 1)
      workers == Upto(Cardinality(ToSet(owner)))
      Merged(acc) == FoldLeft(LAMBDA a, w : IF w = 1 \/ acc[w].cnt = 0 THEN a ELSE ReduceMerge(type, a, acc[w]),
                              acc[1], workers)
  IN  Merged([w \in DOMAIN workers |->
                FoldLeft(LAMBDA a, t : IF owner[t] = w THEN ReduceRange(a, type, cells, Rows(t)) ELSE a,
                         [NoValue EXCEPT !.prod = One(type)], tasks)])

(* The first and the last value are looked for, not accumulated.           *)
FirstValue(cells) == LET rows == Keep(Upto(Len(cells)), LAMBDA r : ~cells[r].null)
                     IN  IF rows = <<>> THEN NoPlan ELSE cells[rows[1]].v
LastValue(cells) == LET rows == Keep(Upto(Len(cells)), LAMBDA r : ~cells[r].null)
                    IN  IF rows = <<>> THEN NoPlan ELSE cells[rows[Len(rows)]].v

ReducedValue(op, x, acc) ==
  LET wide == IF x.type = "f64" THEN "f64" ELSE "i64"
      Value(type, v) == Atom(type, IF v = NoPlan THEN [v |-> 0, null |-> TRUE] ELSE [v |-> v, null |-> FALSE])
  IN  CASE op = "sum" -> Value(wide, acc.sum)
        [] op = "prod" -> Value(wide, acc.prod)
        [] op = "count" -> Value("i64", acc.cnt)
        [] op = "min" -> Value(IF acc.cnt = 0 THEN x.type ELSE wide, acc.low)
        [] op = "max" -> Value(IF acc.cnt = 0 THEN x.type ELSE wide, acc.high)
        [] op = "first" -> Value(wide, FirstValue(x.cells))
        [] op = "last" -> Value(wide, LastValue(x.cells))
        [] op = "avg" -> Value("f64", IF acc.cnt = 0 THEN NoPlan
                                      ELSE Truncate(IF x.type = "f64" THEN acc.sum ELSE ToDouble(acc.sum), acc.cnt))

Reduce(op, x, owner) ==
  ReducedValue(op, x, IF Len(x.cells) >= Threshold THEN ReduceParallel(x.type, x.cells, owner)
                      ELSE ReduceRange([NoValue EXCEPT !.prod = One(x.type)], x.type, x.cells, Upto(Len(x.cells))))

(* The number of distinct values, nulls and what is below them included:   *)
(* an open-addressed set of a power of two of slots.                       *)
SetSlots(n) == CHOOSE c \in {2 ^ k : k \in 0 .. 8} : c >= 2 * n /\ (c = 1 \/ c \div 2 < 2 * n)
CountDistinct(x) ==
  LET n == Len(x.cells)
      slots == SetSlots(n)
      RECURSIVE Probe(_, _, _)
      Probe(set, slot, v) ==
        IF slot \notin DOMAIN set THEN set @@ (slot :> v)
        ELSE IF set[slot] = v THEN set ELSE Probe(set, (slot + 1) % slots, v)
      Insert(set, cell) == Probe(set, (cell.v * 5) % slots, cell.v)
  IN  Atom("i64", [v |-> Cardinality(DOMAIN FoldLeft(Insert, [s \in {} |-> 0], x.cells)), null |-> FALSE])
=============================================================================
