------------------------------ MODULE Executor ------------------------------
(***************************************************************************)
(* The executor of query graphs (exec.c).  Exec(q, T, sel, id) executes    *)
(* node id while the table is T and sel the selection that filters have    *)
(* left pending, and gives the value and the selection then pending.  A    *)
(* value is a vector, or a table [tbl |-> columns]; a table keeps all its  *)
(* rows until somebody applies the selection.                              *)
(***************************************************************************)
EXTENDS Optimizer

Table(cols) == [tbl |-> cols]
IsTable(x) == x # Error /\ "tbl" \in DOMAIN x
Got(x, sel) == [v |-> x, sel |-> sel]
Truth(x) == [i \in DOMAIN x.cells |-> x.cells[i].v # 0]

(* The answer without a pending selection. *)
Tabled(cols) == IF cols = Error THEN Error ELSE Table(cols)
Compacted(cols, sel) == Tabled(Compact(cols, sel))
Settled(got) == IF IsTable(got.v) THEN Compacted(got.v.tbl, got.sel) ELSE got.v

RECURSIVE Exec(_, _, _, _)

-----------------------------------------------------------------------------
(* Parted columns are put together without their nulls. *)
ExecScan(q, T, node) ==
  LET cols == IF node.tid = 1 THEN T ELSE q.tables[node.tid]
  IN  IF node.col \notin DOMAIN cols THEN Error
      ELSE Vector(cols[node.col].type,
                  [i \in DOMAIN Cells(cols[node.col]) |->
                     IF cols[node.col].kind = "parted" THEN Bare(Cells(cols[node.col])[i])
                     ELSE Cells(cols[node.col])[i]])

(* Compiled over the table if that works, or one operator after the other. *)
ExecTwo(node, x, second) ==
  IF second.v = Error THEN second ELSE Got(ElementwiseBinary(node.op, node.type, x, second.v), second.sel)
ExecOperand(q, T, node, first) ==
  IF first.v = Error THEN first
  ELSE IF Len(node.args) = 1 THEN Got(ElementwiseUnary(node.op, node.type, first.v), first.sel)
  ELSE ExecTwo(node, first.v, Exec(q, T, first.sel, node.args[2]))
ExecCompiled(q, T, sel, node, prog) ==
  IF prog = NoPlan THEN ExecOperand(q, T, node, Exec(q, T, sel, node.args[1]))
  ELSE Got(Vector(prog.regs[Len(prog.regs)].type, EvalFull(prog, T, RowsOf(T))), sel)
ExecElementwise(q, T, sel, id) ==
  ExecCompiled(q, T, sel, q.nodes[id], IF RowsOf(T) = 0 THEN NoPlan ELSE Compile(q.nodes, T, id))

(* Membership: a null is neither in a set nor out of it, and the nulls of  *)
(* the set match nothing.                                                  *)
ExecIn(q, T, sel, id) ==
  LET node == q.nodes[id]
      Number(double, x, v) == IF double /\ x.type # "f64" THEN ToDouble(v) ELSE v
      Tested(col, set, double, probe) ==
        LET In(cell) == ~cell.null /\ ((Number(double, col, cell.v) \in probe) <=> (node.op = "in"))
        IN  Vector("bool", [i \in DOMAIN col.cells |-> [v |-> Bit(In(col.cells[i])), null |-> FALSE]])
      Members(col, set, double) ==
        Tested(col, set, double,
               {Number(double, set, set.cells[i].v) : i \in {j \in DOMAIN set.cells : ~set.cells[j].null}})
      Both(col, set) == IF set.v = Error THEN set
                        ELSE Got(Members(col, set.v, "f64" \in {col.type, set.v.type}), set.sel)
      Column(col) == IF col.v = Error THEN col ELSE Both(col.v, Exec(q, T, col.sel, node.args[2]))
  IN  Column(Exec(q, T, sel, node.args[1]))

(* A choice by rows; a branch of another type is misread, nulls are lost.  *)
ExecIf(q, T, sel, id) ==
  LET node == q.nodes[id]
      Places(cond, then, else) == IF ~Scalar(then) THEN DOMAIN then.cells
                                  ELSE IF ~Scalar(else) THEN DOMAIN else.cells ELSE DOMAIN cond.cells
      Pick(x, i) == IF x.type # node.type THEN Garbage ELSE x.cells[IF Scalar(x) THEN 1 ELSE i].v
      Chosen(cond, then, else) ==
        Vector(node.type, [i \in Places(cond, then, else) |->
          [v |-> Pick(IF cond.cells[i].v # 0 THEN then ELSE else, i), null |-> FALSE]])
      Else(cond, then, else) ==
        IF else.v = Error THEN else ELSE Got(Chosen(cond, then, else.v), else.sel)
      Then(cond, then) ==
        IF then.v = Error THEN then ELSE Else(cond, then.v, Exec(q, T, then.sel, node.hidden[1]))
      Cond(cond) == IF cond.v = Error THEN cond ELSE Then(cond.v, Exec(q, T, cond.sel, node.args[2]))
  IN  Cond(Exec(q, T, sel, node.args[1]))

(* A table is counted, after the selection is applied.                     *)
ReducedTo(op, x, owner) ==
  IF x = Error THEN Error
  ELSE IF ~IsTable(x) THEN IF op = "distinct" THEN CountDistinct(x) ELSE Reduce(op, x, owner)
  ELSE IF op = "count" THEN Atom("i64", [v |-> RowsOf(x.tbl), null |-> FALSE]) ELSE Error
ReducedGot(q, op, got) == Got(ReducedTo(op, Settled(got), q.owner), IF IsTable(got.v) THEN NoSelection ELSE got.sel)
ExecReduction(q, T, sel, id) == ReducedGot(q, q.nodes[id].op, Exec(q, T, sel, q.nodes[id].args[1]))

-----------------------------------------------------------------------------
(* Faulty variant: a further filter replaces the selection. *)
SelectionReplaced(sel, truth) == FromPred(truth)
Selection(sel, truth) == Refine(sel, truth)

(* A filter over a table only selects; over a vector it copies.  A filter  *)
(* over a group looks at the groups.                                       *)
Vectored(col) == IF col = Error THEN Error ELSE VectorOf(col)
FilteredEagerly(x, truth) ==
  IF IsTable(x) THEN Tabled(Filter(x.tbl, truth)) ELSE Vectored(FilterVec(ColumnOf(x), truth))
FilteredBy(got, pred, having) ==
  LET left == IF having THEN got.sel ELSE pred.sel
  IN  IF pred.v = Error THEN Got(Error, left)
      ELSE IF ~having /\ IsTable(got.v) /\ pred.v.type = "bool" /\ ~pred.v.atom
      THEN Got(got.v, Selection(pred.sel, Truth(pred.v)))
      ELSE Got(FilteredEagerly(got.v, Truth(pred.v)), left)
ExecPredicate(q, T, id, got, having) ==
  IF got.v = Error THEN got
  ELSE FilteredBy(got, Exec(q, IF having THEN got.v.tbl ELSE T, IF having THEN NoSelection ELSE got.sel, id), having)
ExecFilter(q, T, sel, id) ==
  LET args == q.nodes[id].args
  IN  ExecPredicate(q, T, args[2], Exec(q, T, sel, args[1]), q.nodes[args[1]].op = "group")

(* The rows in the order of the keys, nulls first and equal rows as they   *)
(* were (module Sort has how); "limit" 0 takes them all.                   *)
SortedRows(key, desc, n) ==
  LET Less(a, b) == IF a.null THEN ~b.null ELSE ~b.null /\ a.v < b.v
      Lower(k, i, j) == IF desc[k] THEN Less(key[k][j], key[k][i]) ELSE Less(key[k][i], key[k][j])
      Before(i, j) == LET apart == {k \in DOMAIN key : Lower(k, i, j) \/ Lower(k, j, i)}
                      IN  IF apart = {} THEN i < j ELSE Lower(CHOOSE k \in apart : \A m \in apart : k <= m, i, j)
  IN  SortSeq(Upto(n), Before)
SortTable(q, node, cols, limit) ==
  LET names == [k \in DOMAIN node.hidden |-> q.nodes[node.hidden[k]].col]
      First(order) == IF limit > 0 /\ limit < Len(order) THEN SubSeq(order, 1, limit) ELSE order
      Gathered(rows) == [c \in DOMAIN cols |-> GatherParted(cols[c], rows)]
  IN  IF ~(ToSet(names) \subseteq DOMAIN cols) THEN Error
      ELSE Gathered(First(SortedRows([k \in DOMAIN names |-> Cells(cols[names[k]])], node.set, RowsOf(cols))))

Sorted(q, node, x, limit) == IF x = Error THEN Error ELSE Tabled(SortTable(q, node, x.tbl, limit))
SortedGot(q, node, T, got, limit) ==
  IF got.v = Error THEN got
  ELSE Got(Sorted(q, node, IF IsTable(got.v) THEN Settled(got) ELSE Table(T), limit), NoSelection)
ExecSort(q, T, sel, id, limit) == SortedGot(q, q.nodes[id], T, Exec(q, T, sel, q.nodes[id].args[1]), limit)

(* The groups of the selected rows of the table, in the order of the keys  *)
(* (module GroupAggregate has how): the keys, and an aggregate for each    *)
(* further operand.  The columns are named by their places.                *)
KeyNames == <<"_k1", "_k2", "_k3">>
AggNames == <<"_a1", "_a2", "_a3">>
KeyBefore(s, t) == \E k \in DOMAIN s : /\ s[k].v < t[k].v \/ (s[k].v = t[k].v /\ s[k].null /\ ~t[k].null)
                                       /\ \A m \in 1 .. k - 1 : s[m] = t[m]
(* A further group, of a zero, tells the type of the column. *)
AggregateColumn(op, x, groups, owner) ==
  LET Typed(results) == Flat(results[Len(results)].type, [g \in 1 .. Len(results) - 1 |-> results[g].cells[1]])
      Of(g) == IF g > Len(groups) THEN <<Zero>> ELSE [m \in DOMAIN groups[g] |-> x.cells[groups[g][m]]]
  IN  Typed([g \in 1 .. Len(groups) + 1 |-> Reduce(op, Vector(x.type, Of(g)), owner)])
GroupColumns(q, node, columns, keys, groups) ==
  LET Name(k) == IF q.nodes[node.hidden[k]].op = "scan" THEN q.nodes[node.hidden[k]].col ELSE KeyNames[k]
      KeyAt(c) == CHOOSE k \in 1 .. node.n : Name(k) = c
      AggAt(c) == CHOOSE i \in DOMAIN node.set : AggNames[i] = c
  IN  [c \in {Name(k) : k \in 1 .. node.n} |->
         Flat(columns[KeyAt(c)].type, [g \in DOMAIN keys |-> keys[g][KeyAt(c)]])]
      @@ [c \in {AggNames[i] : i \in DOMAIN node.set} |->
            AggregateColumn(node.set[AggAt(c)], columns[node.n + AggAt(c)], groups, q.owner)]
RowsGrouped(q, node, columns, rows) ==
  LET key == [r \in ToSet(rows) |-> [k \in 1 .. node.n |-> columns[k].cells[r]]]
      keys == SetToSortSeq({key[r] : r \in ToSet(rows)}, KeyBefore)
  IN  IF \E i \in DOMAIN columns : columns[i] = Error THEN Error
      ELSE GroupColumns(q, node, columns, keys, [g \in DOMAIN keys |-> Keep(rows, LAMBDA r : key[r] = keys[g])])
GroupTable(q, cols, sel, node) ==
  RowsGrouped(q, node, [i \in DOMAIN node.hidden |-> Exec(q, cols, NoSelection, node.hidden[i]).v],
            IF sel = NoSelection THEN Upto(RowsOf(cols)) ELSE ToIndices(sel))

ExecGroup(q, T, sel, id) == Got(Tabled(GroupTable(q, T, sel, q.nodes[id])), NoSelection)

(* An inner join on the first key; only the left side is compacted.        *)
JoinTables(x, rights, key) ==
  LET Pairs(L, R) ==
        Keep([k \in 1 .. Len(L) * Len(R) |-> <<1 + ((k - 1) \div Len(R)), 1 + ((k - 1) % Len(R))>>],
             LAMBDA p : L[p[1]] = R[p[2]])
      Gathered(lefts, pairs) ==
        Table([c \in DOMAIN lefts |-> GatherParted(lefts[c], [i \in DOMAIN pairs |-> pairs[i][1]])]
              @@ [c \in DOMAIN rights \ {key} |-> GatherParted(rights[c], [i \in DOMAIN pairs |-> pairs[i][2]])])
  IN  IF x = Error THEN Error ELSE Gathered(x.tbl, Pairs(Cells(x.tbl[key]), Cells(rights[key])))
JoinRight(left, right, key) ==
  IF right.v = Error THEN right ELSE Got(JoinTables(Compacted(left.tbl, right.sel), right.v.tbl, key), NoSelection)
JoinLeft(q, T, node, left) ==
  IF left.v = Error THEN left
  ELSE JoinRight(left.v, Exec(q, T, left.sel, node.args[2]), q.nodes[node.hidden[1]].col)
ExecJoin(q, T, sel, id) == JoinLeft(q, T, q.nodes[id], Exec(q, T, sel, q.nodes[id].args[1]))

-----------------------------------------------------------------------------
(* The rows from .. to of a table or a vector, whatever is selected. *)
Rows(x, from, to) ==
  LET Cut(cells) == SubSeq(cells, from, to)
      Column(col) == Flat(col.type, IF col.kind = "parted" THEN [i \in 1 .. to - from + 1 |-> Bare(Cells(col)[from + i - 1])]
                                    ELSE Cut(Cells(col)))
  IN  IF IsTable(x) THEN Table([c \in DOMAIN x.tbl |-> Column(x.tbl[c])]) ELSE [x EXCEPT !.cells = Cut(@)]
Size(x) == IF IsTable(x) THEN RowsOf(x.tbl) ELSE Len(x.cells)
Least(a, b) == IF a < b THEN a ELSE b

FilteredHead(tbl, pred, limit) ==
  IF pred.v = Error THEN pred ELSE Got(Table(FilterHead(tbl, Truth(pred.v), limit)), NoSelection)
ExecFilterHead(q, x, pred, limit) ==
  IF x = Error THEN Got(Error, NoSelection) ELSE FilteredHead(x.tbl, Exec(q, x.tbl, NoSelection, pred), limit)
FilterThenHead(q, T, got, pred, limit) ==
  IF got.v = Error THEN got
  ELSE ExecFilterHead(q, IF IsTable(got.v) THEN Compacted(got.v.tbl, got.sel) ELSE Table(T), pred, limit)
FirstOf(got, limit) == IF got.v = Error THEN got ELSE Got(Rows(got.v, 1, Least(limit, Size(got.v))), got.sel)
GroupThenHead(q, base, left, id, limit) ==
  IF base = Error THEN Got(Error, left) ELSE FirstOf(Got(Exec(q, base.tbl, left, id).v, left), limit)
ExecHead(q, T, sel, id) ==
  LET node == q.nodes[id]
      child == q.nodes[node.args[1]]
      flat == \E c \in DOMAIN T : T[c].kind = "flat"
  IN  CASE child.op = "sort" -> ExecSort(q, T, sel, node.args[1], node.n)
        [] child.op = "group" -> GroupThenHead(q, IF flat THEN Compacted(T, sel) ELSE Table(T), IF flat THEN NoSelection ELSE sel,
                                               node.args[1], node.n)
        [] child.op = "filter" -> FilterThenHead(q, T, Exec(q, T, sel, child.args[1]), child.args[2], node.n)
        [] OTHER -> FirstOf(Exec(q, T, sel, node.args[1]), node.n)

ExecTail(q, T, sel, id) ==
  LET limit == q.nodes[id].n
      Final(got, n) == Got(Rows(got.v, n - Least(limit, n) + 1, n), got.sel)
      Input(got) == IF got.v = Error THEN got ELSE Final(got, Size(got.v))
  IN  Input(Exec(q, T, sel, q.nodes[id].args[1]))

(* A projection computes its columns over all rows and keeps the selection. *)
Computed == <<"_e0", "_e1", "_e2">>
ExecSelect(q, T, sel, id) ==
  LET node == q.nodes[id]
      Spread(x, n) == IF x.atom THEN Flat(x.type, [i \in 1 .. n |-> x.cells[1]]) ELSE ColumnOf(x)
      With(cols, i, got, n) == IF got.v = Error THEN got
                               ELSE Got(Table((Computed[i] :> Spread(got.v, n)) @@ cols), got.sel)
      Project(tbl, left) ==
        LET Add(acc, i) ==
              LET column == q.nodes[node.hidden[i]]
              IN  IF acc.v = Error THEN acc
                  ELSE IF column.op # "scan"
                  THEN With(acc.v.tbl, i, Exec(q, tbl, acc.sel, node.hidden[i]), RowsOf(tbl))
                  ELSE IF column.col \notin DOMAIN tbl THEN acc
                  ELSE [acc EXCEPT !.v.tbl = (column.col :> tbl[column.col]) @@ @]
        IN  FoldLeft(Add, Got(Table([c \in {} |-> {}]), left), Upto(Len(node.hidden)))
      Input(got) == IF got.v = Error THEN got
                    ELSE IF ~IsTable(got.v) THEN Got(Error, got.sel)
                    ELSE Project(got.v.tbl, got.sel)
  IN  Input(Exec(q, T, sel, node.args[1]))

Exec(q, T, sel, id) ==
  LET node == q.nodes[id]
  IN  CASE node.op = "scan" -> Got(ExecScan(q, T, node), sel)
        [] node.op = "const" -> Got(Atom(node.type, [v |-> node.v, null |-> node.null]), sel)
        [] node.op = "set" -> Got(Vector(node.type, node.set), sel)
        [] node.op = "table" -> Got(Table(q.tables[node.tid]), sel)
        [] node.op = "til" -> Got(Vector("i64", [i \in 1 .. node.n |-> [v |-> i - 1, null |-> FALSE]]), sel)
        [] node.op \in Elementwise -> ExecElementwise(q, T, sel, id)
        [] node.op \in {"in", "notin"} -> ExecIn(q, T, sel, id)
        [] node.op = "if" -> ExecIf(q, T, sel, id)
        [] node.op = "filter" -> ExecFilter(q, T, sel, id)
        [] node.op = "sort" -> ExecSort(q, T, sel, id, 0)
        [] node.op = "group" -> ExecGroup(q, T, sel, id)
        [] node.op = "join" -> ExecJoin(q, T, sel, id)
        [] node.op = "head" -> ExecHead(q, T, sel, id)
        [] node.op = "tail" -> ExecTail(q, T, sel, id)
        [] node.op = "select" -> ExecSelect(q, T, sel, id)
        [] node.op \in {"alias", "materialize"} -> Exec(q, T, sel, node.args[1])
        [] OTHER -> ExecReduction(q, T, sel, id)

-----------------------------------------------------------------------------
(* Streaming: a query of row-wise operators over a table whose columns are *)
(* all parted runs on one partition after the other.                       *)
SegmentTable(T, s) ==
  [c \in DOMAIN T |-> Flat(T[c].type, T[c].segs[s].cells)]

Streamable == Elementwise \cup {"in", "notin", "if", "filter", "select", "alias", "materialize", "scan", "const"}
CanStream(q) ==
  LET live == ReachableFrom(q.nodes, q.root)
  IN  /\ \A id \in live : q.nodes[id].op \in Streamable /\ (q.nodes[id].op = "scan" => q.nodes[id].tid = 1)
      /\ \E id \in live : q.nodes[id].op = "scan"

Merge(acc, part) ==
  IF acc = NoPlan THEN part
  ELSE IF IsTable(acc) # IsTable(part) THEN Error
  ELSE IF IsTable(acc)
  THEN Table([c \in DOMAIN acc.tbl |-> Flat(acc.tbl[c].type, Cells(acc.tbl[c]) \o Cells(part.tbl[c]))])
  ELSE Vector(acc.type, acc.cells \o part.cells)

Stream(q, parts, pending) ==
  LET Joined(acc, part) == IF Error \in {acc, part} THEN Error ELSE Merge(acc, part)
  IN  FoldLeft(Joined, NoPlan, [p \in DOMAIN parts |-> Settled(Exec(q, parts[p], pending, q.root))])

(* "pending" is the selection that the caller has left.  A stream without  *)
(* partitions runs over no rows once.                                      *)
Execute(q, pending) ==
  LET T == q.tables[1]
      parted == {c \in DOMAIN T : T[c].kind = "parted"}
      counts == {Len(T[c].segs) : c \in parted}
      n == CHOOSE k \in {Len(T[c].segs) : c \in parted} : TRUE
      streams == parted # {} /\ (\A c \in DOMAIN T : T[c].kind # "flat") /\ CanStream(q)
      masks == {q.mask[s] : s \in DOMAIN q.mask}
      mask == CHOOSE m \in masks : TRUE
      Empty == [c \in DOMAIN T |-> Flat(T[c].type, <<>>)]
      live == Keep(Upto(n), LAMBDA s : masks = {} \/ s \in mask.keep)
      Parts == IF ~streams THEN <<T>>
               ELSE IF live = <<>> THEN <<Empty>> ELSE [i \in DOMAIN live |-> SegmentTable(T, live[i])]
  IN  IF Cardinality(counts) > 1 THEN Error
      ELSE IF streams /\ masks # {} /\ mask.of # 1 .. n THEN Error
      ELSE Stream(q, Parts, IF streams THEN NoSelection ELSE pending)

(* A grouping does not execute its input: the filter before it is executed *)
(* by itself, for the selection it leaves (query.c).                       *)
RunFilter(q, first) ==
  [rest |-> [first EXCEPT !.root = q.root, !.dead = @ \ ReachableFrom(first.nodes, q.root)],
   got |-> Exec(first, q.tables[1], NoSelection, first.root)]
RunRest(run) == IF run.got.v = Error THEN Error ELSE Execute(Optimize(run.rest), run.got.sel)
RunQuery(q) ==
  RunRest(IF q.where = 0 THEN [rest |-> q, got |-> Got(NoPlan, NoSelection)]
          ELSE RunFilter(q, Optimize([q EXCEPT !.root = q.where])))
=============================================================================
