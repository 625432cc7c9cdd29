------------------------------- MODULE RowSel -------------------------------
(***************************************************************************)
(* Row selections and filters (rowsel.c, filter.c).  A selection is the    *)
(* lazy answer of a filter: per segment of Morsel rows a flag and, for a   *)
(* mixed segment, the places of the surviving rows in it.  NoSelection     *)
(* says that every row passes.                                             *)
(*                                                                         *)
(* A column is a type and segments [ok, cells]: a "flat" has one, a       *)
(* "parted" one has a segment for each partition, and a "common" column    *)
(* (RAY_MAPCOMMON) repeats the key of the partition.  A segment that is    *)
(* not ok has another element width and reads as zeros.  A table is a      *)
(* function from names to columns.                                         *)
(***************************************************************************)
EXTENDS Integers, FiniteSets, Sequences, SequencesExt

CONSTANTS
  Morsel,        \* RAY_MORSEL_ELEMS, 1024
  Threshold,     \* RAY_PARALLEL_THRESHOLD, 65536
  NoSelection,   \* a null pointer for a selection
  Error          \* an error object

Zero == [v |-> 0, null |-> FALSE]
Bare(cell) == [cell EXCEPT !.null = FALSE]
Flat(type, cells) == [type |-> type, kind |-> "flat", segs |-> <<[ok |-> TRUE, cells |-> cells]>>]

SegmentCells(seg) == IF seg.ok THEN seg.cells ELSE [i \in DOMAIN seg.cells |-> Zero]
Cells(col) == FoldLeft(LAMBDA acc, seg : acc \o SegmentCells(seg), <<>>, col.segs)

RowsOf(tbl) == IF DOMAIN tbl = {} THEN 0 ELSE Len(Cells(tbl[CHOOSE c \in DOMAIN tbl : TRUE]))

Keep(s, Test(_)) == FoldLeft(LAMBDA acc, i : IF Test(i) THEN Append(acc, i) ELSE acc, <<>>, s)
Upto(n) == [i \in 1 .. n |-> i]
Sum(s) == FoldLeft(LAMBDA acc, x : acc + x, 0, s)

-----------------------------------------------------------------------------
SegmentCount(n) == (n + Morsel - 1) \div Morsel
SegmentLen(n, s) == IF s * Morsel > n THEN n - (s - 1) * Morsel ELSE Morsel

(* A selection of n rows from the surviving rows of each segment; only the *)
(* rows of mixed segments are listed.                                      *)
RowSelNew(n, survivors) ==
  LET S == SegmentCount(n)
      flag(s) == IF survivors[s] = <<>> THEN "none"
                 ELSE IF Len(survivors[s]) = SegmentLen(n, s) THEN "all" ELSE "mix"
      Listed(s) == IF flag(s) = "mix" THEN survivors[s] ELSE <<>>
  IN  [n |-> n,
       total |-> Sum([s \in 1 .. S |-> Len(survivors[s])]),
       flags |-> [s \in 1 .. S |-> flag(s)],
       offsets |-> [s \in 1 .. S + 1 |-> Sum([q \in 1 .. s - 1 |-> Len(Listed(q))])],
       idx |-> FoldLeft(LAMBDA acc, s : acc \o Listed(s), <<>>, Upto(S))]

Unless(total, n, sel) == IF total = n THEN NoSelection ELSE sel

FromPred(pred) ==
  LET n == Len(pred)
      Passing(s) == Keep(Upto(SegmentLen(n, s)), LAMBDA r : pred[(s - 1) * Morsel + r])
      Made(sel) == IF n = 0 THEN sel ELSE Unless(sel.total, n, sel)
  IN  Made(RowSelNew(n, [s \in 1 .. SegmentCount(n) |-> Passing(s)]))

(* The rows of a segment, told by its flag. *)
SegmentRows(sel, s) ==
  CASE sel.flags[s] = "none" -> <<>>
    [] sel.flags[s] = "all" -> Upto(SegmentLen(sel.n, s))
    [] OTHER -> SubSeq(sel.idx, sel.offsets[s] + 1, sel.offsets[s + 1])

ToIndices(sel) ==
  FoldLeft(LAMBDA acc, s : acc \o [i \in DOMAIN SegmentRows(sel, s) |->
                                     (s - 1) * Morsel + SegmentRows(sel, s)[i]],
           <<>>, Upto(SegmentCount(sel.n)))

(* A further predicate over the rows of a selection.  A predicate of       *)
(* another length gives a null pointer, which reads as "every row".        *)
Refine(sel, pred) ==
  IF sel = NoSelection THEN FromPred(pred)
  ELSE IF Len(pred) # sel.n THEN NoSelection
  ELSE LET Passing(s) == Keep(SegmentRows(sel, s), LAMBDA r : pred[(s - 1) * Morsel + r])
           Made(new) == Unless(new.total, sel.n, new)
       IN  Made(RowSelNew(sel.n, [s \in 1 .. SegmentCount(sel.n) |-> Passing(s)]))

-----------------------------------------------------------------------------
(* Gathers: of a flat column with or without its nulls, of a parted one    *)
(* with them.                                                              *)
GatherFlat(col, rows, nulls) ==
  Flat(col.type, [i \in DOMAIN rows |-> IF nulls THEN Cells(col)[rows[i]] ELSE Bare(Cells(col)[rows[i]])])
GatherParted(col, rows) == Flat(col.type, [i \in DOMAIN rows |-> Cells(col)[rows[i]]])

PassingRows(pred) == Keep(Upto(Len(pred)), LAMBDA r : pred[r])

(* exec_filter_vec: the lengths are compared. *)
FilterVec(col, pred) ==
  IF Len(Cells(col)) # Len(pred) THEN Error ELSE GatherFlat(col, PassingRows(pred), TRUE)

FilterParted(col, pred) == GatherParted(col, PassingRows(pred))
FilterCommon(col, pred) == GatherParted(col, PassingRows(pred))

FilterSeq(tbl, pred) ==
  IF \E c \in DOMAIN tbl : tbl[c].kind = "flat" /\ Len(Cells(tbl[c])) # Len(pred) THEN Error
  ELSE [c \in DOMAIN tbl |->
          CASE tbl[c].kind = "flat" -> FilterVec(tbl[c], pred)
            [] tbl[c].kind = "common" -> FilterCommon(tbl[c], pred)
            [] OTHER -> FilterParted(tbl[c], pred)]

(* The parallel gathers of a large table do not copy the nulls of flat     *)
(* columns.                                                                *)
Filter(tbl, pred) ==
  IF RowsOf(tbl) <= Threshold \/ DOMAIN tbl = {} THEN FilterSeq(tbl, pred)
  ELSE [c \in DOMAIN tbl |->
          IF tbl[c].kind = "flat" THEN GatherFlat(tbl[c], PassingRows(pred), FALSE)
          ELSE GatherParted(tbl[c], PassingRows(pred))]

(* The first rows that pass: columns of keys are left out, nulls too.      *)
FilterHead(tbl, pred, limit) ==
  IF limit <= 0 THEN <<>>
  ELSE LET found == PassingRows(pred)
           rows == SubSeq(found, 1, IF limit < Len(found) THEN limit ELSE Len(found))
       IN  [c \in {d \in DOMAIN tbl : tbl[d].kind # "common"} |-> GatherFlat(tbl[c], rows, FALSE)]

(* sel_compact: the table as a filter would give it.  An empty selection   *)
(* gives every column without rows; columns of keys are lost otherwise.    *)
Compact(tbl, sel) ==
  IF sel = NoSelection THEN tbl
  ELSE IF sel.n # RowsOf(tbl) THEN Error
  ELSE IF sel.total = sel.n THEN tbl
  ELSE IF sel.total = 0 THEN [c \in DOMAIN tbl |-> Flat(tbl[c].type, <<>>)]
  ELSE [c \in {d \in DOMAIN tbl : tbl[d].kind # "common"} |->
          IF tbl[c].kind = "flat" THEN GatherFlat(tbl[c], ToIndices(sel), TRUE)
          ELSE GatherParted(tbl[c], ToIndices(sel))]
=============================================================================
