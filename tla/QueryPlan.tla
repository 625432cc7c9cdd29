----------------------------- MODULE QueryPlan -----------------------------
(***************************************************************************)
(* Queries from the graph to the answer, against what they mean row by     *)
(* row: selections that are refined, expressions that are compiled or      *)
(* walked, and whole plans that are optimized and executed.                *)
(***************************************************************************)
EXTENDS SelectMeaning

CONSTANTS NoAnswer

VARIABLES job, answer
vars == <<job, answer>>

-----------------------------------------------------------------------------
(* The meaning of a plan: the rows of the base table behind the answer, in *)
(* order, and the columns.                                                 *)
At(rel, places) ==
  [rows |-> [i \in DOMAIN places |-> rel.rows[places[i]]],
   cols |-> [c \in DOMAIN rel.cols |-> [i \in DOMAIN places |-> rel.cols[c][places[i]]]]]

RECURSIVE Relation(_, _)
Relation(q, id) ==
  LET node == q.nodes[id]
      T == q.tables[1]
      R == q.tables[2]
      base == [rows |-> Upto(RowsOf(T)), cols |-> [c \in DOMAIN T |-> Cells(T[c])]]
      below == IF node.op # "group" THEN node.args[1] ELSE q.where
      Titled(i) == IF q.nodes[node.hidden[i]].op = "scan" THEN q.nodes[node.hidden[i]].col ELSE Computed[i]
      Less(a, b) == IF a.null THEN ~b.null ELSE ~b.null /\ a.v < b.v
      Reduced(in, keys, cells) ==
        [rows |-> Upto(Len(keys)),
         cols |-> (Titled(1) :> keys)
                  @@ (AggNames[1] :> [i \in DOMAIN keys |->
                        MeantReduce(node.set[1], LET of == Keep(Upto(Len(cells[1])), LAMBDA r : cells[1][r] = keys[i])
                                                 IN  [m \in DOMAIN of |-> cells[2][of[m]]])])]
      ByKey(in, cells) ==
        Reduced(in, SetToSortSeq(ToSet(cells[1]), LAMBDA a, b : a.v < b.v \/ (a.v = b.v /\ b.null)), cells)
      Ordered(in, key) ==
        LET Before(i, j) == IF node.set[1] THEN Less(key[j], key[i]) \/ (~Less(key[i], key[j]) /\ i < j)
                            ELSE Less(key[i], key[j]) \/ (~Less(key[j], key[i]) /\ i < j)
        IN  At(in, SortSeq(Upto(Len(key)), Before))
      Pairs(key, title) ==
        Keep([k \in 1 .. Len(key) * RowsOf(R) |-> <<1 + ((k - 1) \div RowsOf(R)), 1 + ((k - 1) % RowsOf(R))>>],
             LAMBDA p : key[p[1]] = Cells(R[title])[p[2]])
      Joined(in, title, pairs) ==
        [At(in, [i \in DOMAIN pairs |-> pairs[i][1]]) EXCEPT
           !.cols = @ @@ [c \in DOMAIN R \ {title} |-> [i \in DOMAIN pairs |-> Cells(R[c])[pairs[i][2]]]]]
      Filtered(in, holds) == At(in, Keep(Upto(Len(holds)), LAMBDA i : holds[i].v # 0))
      Over(in, n) ==
        LET least == Least(node.n, n)
            Of(nodes, tbl, column) == [i \in 1 .. n |-> Meant(nodes, tbl, column, in.rows[i])]
            Hidden(i) == Of(q.nodes, T, node.hidden[i])
        IN  CASE node.op = "filter" ->
                   IF q.nodes[node.args[1]].op = "group"
                   THEN Filtered(in, Of(q.nodes, [c \in DOMAIN in.cols |-> Flat("i64", in.cols[c])], node.args[2]))
                   ELSE Filtered(in, Of(q.nodes, T, node.args[2]))
              [] node.op = "sort" -> Ordered(in, Hidden(1))
              [] node.op \in {"head", "tail"} ->
                   At(in, [i \in 1 .. least |-> IF node.op = "head" THEN i ELSE n - least + i])
              [] node.op = "select" ->
                   [in EXCEPT !.cols = [c \in {Titled(i) : i \in DOMAIN node.hidden} |->
                      Hidden(CHOOSE j \in DOMAIN node.hidden : Titled(j) = c)]]
              [] node.op = "group" -> ByKey(in, <<Hidden(1), Hidden(2)>>)
              [] node.op = "join" ->
                   LET title == q.nodes[node.hidden[1]].col IN Joined(in, title, Pairs(Hidden(1), title))
              [] OTHER -> in
      Above(in) == Over(in, Len(in.rows))
  IN  IF node.op = "table" THEN base ELSE Above(IF below = 0 THEN base ELSE Relation(q, below))

(* The meaning of a root that is a vector: the rows its filters and cuts   *)
(* leave of the base table, and the node whose values these rows give.     *)
RECURSIVE Column(_, _)
Column(q, id) ==
  LET node == q.nodes[id]
      T == q.tables[1]
      in == Column(q, node.args[1])
      n == Len(in.rows)
      k == Least(node.n, n)
  IN  CASE node.op = "filter" -> [in EXCEPT !.rows = Keep(@, LAMBDA r : Meant(q.nodes, T, node.args[2], r).v # 0)]
        [] node.op = "head" -> [in EXCEPT !.rows = SubSeq(@, 1, k)]
        [] node.op = "tail" -> [in EXCEPT !.rows = SubSeq(@, n - k + 1, n)]
        [] node.op = "alias" -> in
        [] OTHER -> [rows |-> Upto(RowsOf(T)), of |-> id]
ColumnCells(q, id) ==
  LET c == Column(q, id) IN [i \in DOMAIN c.rows |-> Meant(q.nodes, q.tables[1], c.of, c.rows[i])]

Relational == {"table", "filter", "sort", "head", "tail", "select", "group", "join", "alias", "materialize"}
RECURSIVE OfTable(_, _)
OfTable(nodes, id) ==
  nodes[id].op = "table" \/ (nodes[id].op \in Relational \ {"table"}
                               /\ (nodes[id].args = <<>> \/ OfTable(nodes, nodes[id].args[1])))
Reducing == {"sum", "count", "min", "max", "first", "last", "distinct"}

MeaningOk(q, x) ==
  LET node == q.nodes[q.root]
      ofTable == OfTable(q.nodes, q.root)
      counted == node.op \in Reducing /\ OfTable(q.nodes, node.args[1])
      Kept(cols) == {c \in DOMAIN cols : c \notin DOMAIN q.tables[1] \/ q.tables[1][c].kind # "common"}
      Shows(cols) == /\ IsTable(x) /\ Kept(cols) \subseteq DOMAIN x.tbl /\ DOMAIN x.tbl \subseteq DOMAIN cols
                     /\ \A c \in Kept(cols) : SameCells(Cells(x.tbl[c]), cols[c])
      Means(rel) == IF ofTable THEN Shows(rel.cols) ELSE SameCell(x.cells[1], Number(Len(rel.rows)))
      Gives(cells) == IF node.op \in Reducing THEN SameCell(x.cells[1], MeantReduce(node.op, cells)) ELSE SameCells(x.cells, cells)
      of == IF node.op \in Reducing THEN node.args[1] ELSE q.root
  IN  /\ x # Error
      /\ IF ofTable \/ counted THEN Means(Relation(q, of)) ELSE Gives(ColumnCells(q, of))

-----------------------------------------------------------------------------
(* Building a graph, a node or a predicate at a time. *)
Scan(c) == [Blank EXCEPT !.col = c, !.type = IF c = "x" THEN "f64" ELSE IF c = "d" THEN "common" ELSE "i64"]
ScanRight == [Scan("a") EXCEPT !.tid = 2]
Const(type, v) == [Blank EXCEPT !.op = "const", !.type = type, !.v = v]
Op(op, nodes, args) ==
  [Blank EXCEPT !.op = op, !.args = args, !.type = TypeOf(op, [i \in DOMAIN args |-> nodes[args[i]].type])]

WithPred(nodes, p) ==
  LET n == Len(nodes)
      leaves == IF p.op \in {"in", "notin"}
                THEN nodes \o <<Scan(p.col), [Blank EXCEPT !.op = "set", !.set = Column1(<<p.v, 4>>)]>>
                ELSE IF p.swap THEN nodes \o <<Const(p.type, p.v), Scan(p.col)>>
                ELSE nodes \o <<Scan(p.col), Const(p.type, p.v)>>
  IN  IF p.op = "const" THEN Append(nodes, Const("bool", p.v))
      ELSE IF p.op = "folded" THEN Append(leaves, Const("i64", 1)) \o <<[Blank EXCEPT !.op = "lt", !.args = <<n + 2, n + 3>>, !.type = "bool"]>>
      ELSE Append(leaves, [Blank EXCEPT !.op = p.op, !.args = <<n + 1, n + 2>>, !.type = "bool"])
Pred(op, c, v) == [op |-> op, col |-> c, v |-> v, type |-> IF c = "x" THEN "f64" ELSE "i64", swap |-> FALSE]

Top(nodes) == Len(nodes)
(* One more operator over the last node. *)
Step(nodes, step) ==
  LET n == Top(nodes)
      one == WithPred(nodes, step.p)
      two == WithPred(one, step.p2)
      more == nodes \o <<Scan("a"), Scan("b"), Scan("a"), Const("i64", 2), Blank, Blank>>
      Make(op, ns, args, hidden, k) == Append(ns, [Blank EXCEPT !.op = op, !.args = args, !.hidden = hidden, !.n = k])
  IN  CASE step.k = "filter" -> Make("filter", one, <<n, Len(one)>>, <<>>, 0)
        [] step.k = "both" -> LET three == Append(two, [Blank EXCEPT !.op = "and", !.type = "bool", !.args = <<Len(one), Len(two)>>])
                              IN  Make("filter", three, <<n, Len(three)>>, <<>>, 0)
        [] step.k = "select" ->
             Make("select", [more EXCEPT ![n + 5] = Op("mul", more, <<n + 2, n + 4>>),
                                         ![n + 6] = [Op("add", more, <<n + 1, n + 5>>) EXCEPT !.type = "i64"]],
                  <<n>>, <<n + 3, n + 6>>, 0)
        [] step.k = "alias" -> Make("alias", nodes, <<n>>, <<>>, 0)
        [] step.k = "sort" -> [Make("sort", Append(nodes, Scan(step.c)), <<n>>, <<n + 1>>, 0) EXCEPT ![n + 2].set = <<step.n = 1>>]
        [] step.k \in {"head", "tail"} -> Make(step.k, nodes, <<n>>, <<>>, step.n)
        [] step.k = "group" -> [Make("group", nodes \o <<Scan(step.c), Scan("b")>>, <<>>, <<n + 1, n + 2>>, 1)
                               EXCEPT ![n + 3].set = <<IF step.n = 0 THEN "sum" ELSE "count">>]
        [] step.k = "having" -> LET p == nodes \o <<Scan("a"), Const("i64", 1), [Blank EXCEPT !.op = "ge", !.type = "bool", !.args = <<n + 1, n + 2>>]>>
                                IN  Make("filter", p, <<n, n + 3>>, <<>>, 0)
        [] step.k = "join" -> Make("join", nodes \o <<[Blank EXCEPT !.op = "table", !.tid = 2], Scan("a")>>, <<n, n + 1>>, <<n + 2>>, 0)
        [] step.k = "column" -> Append(nodes, Scan(step.c))
        [] step.k = "plus" -> Append(Append(nodes, Scan(step.c)), Op("add", Append(nodes, Scan(step.c)), <<n, n + 1>>))
        [] OTHER -> Make(step.k, nodes, <<n>>, <<>>, 0)

RECURSIVE Built(_, _)
Built(nodes, steps) == IF steps = <<>> THEN nodes ELSE Built(Step(nodes, Head(steps)), Tail(steps))
Base(column) == IF column THEN <<Scan("a")>> ELSE <<[Blank EXCEPT !.op = "table"]>>
Plan(j) ==
  LET nodes == Built(Base(j.column), j.steps)
      groups == {id \in DOMAIN nodes : nodes[id].op = "group"}
      before == {i \in 1 .. Len(j.steps) - 1 : j.steps[i + 1].k = "group"}
      under == Built(Base(j.column), SubSeq(j.steps, 1, CHOOSE i \in before : TRUE))
  IN  [Query(nodes, Tables(j.t), j.owner) EXCEPT !.where = IF before = {} THEN 0 ELSE Len(under)]

Do(k) == [k |-> k, p |-> Pred("gt", "a", 1), p2 |-> Pred("gt", "a", 1), c |-> "a", n |-> 0]
Where(p) == [Do("filter") EXCEPT !.p = p]
Both(p, p2) == [Do("both") EXCEPT !.p = p, !.p2 = p2]
First(k, n) == [Do(k) EXCEPT !.n = n]
By(k, c, n) == [Do(k) EXCEPT !.c = c, !.n = n]

Preds(t) == {Pred("gt", "a", 1), Pred("le", "b", 2), [Pred("gt", "a", 2) EXCEPT !.swap = TRUE], Pred("in", "a", 3)}
            \cup IF t = "plain" THEN {Pred("lt", "x", 4), Pred("notin", "b", 2)}
                 ELSE {[Pred("ge", "d", 2) EXCEPT !.swap = TRUE], Pred("gt", "d", 1), Pred("in", "d", 3), Pred("eq", "d", 9)}
Constants == {Pred("const", "a", 0), Pred("const", "a", 1), Pred("folded", "a", 0), Pred("folded", "a", 2)}

Filters(t) == {<<Where(p)>> : p \in Preds(t)}
              \cup {<<Where(p), Where(q)>> : p, q \in Preds(t)}
              \cup {<<Both(p, q)>> : p, q \in Preds(t)}
AfterFilter == {<<>>, <<Do("select")>>, <<Do("alias")>>, <<By("sort", "a", 0)>>, <<By("sort", "b", 1), First("head", 2)>>,
                <<Do("count")>>, <<By("group", "a", 0)>>, <<By("group", "a", 1), Do("having")>>, <<Do("join")>>,
                <<Do("select"), By("sort", "a", 1), First("tail", 2)>>}
BeforeFilter == {<<Do("select")>>, <<Do("alias")>>}
Unfiltered == {<<First("head", 2)>>, <<First("tail", 2)>>, <<Do("select"), First("head", 3)>>, <<Do("count")>>,
               <<By("group", "a", 0), First("head", 1)>>, <<By("group", "a", 1), Do("having")>>,
               <<By("sort", "b", 0), First("tail", 3)>>, <<Do("join")>>}
OfColumn(t) == {<<Do(op)>> : op \in Reducing} \cup {<<Where(p), Do(op)>> : p \in Preds(t), op \in Reducing}
               \cup {<<First("head", 1)>>, <<First("tail", 3)>>}

(* Plans that stream over the partitions: filters of a column, of a sum of *)
(* columns and of the column of keys.  Filters of a vector do not chain,   *)
(* since the lengths are compared (FilterVec), unless the first one passes *)
(* every row it sees: one that compares keys does, in the partitions that  *)
(* pruning leaves to the columns that are cut into partitions.             *)
KeyCompares == {p \in Preds("parted") : p.col = "d" /\ p.op # "in"}
Compares == {p \in Preds("parted") : p.op # "in"}
Streamed ==
  LET cut == {<<>>, <<By("plus", "b", 0)>>, <<Do("alias")>>}
      one == {<<>>} \cup {<<Where(p)>> : p \in Preds("parted") \cup Constants}
      two == UNION {{<<Where(k), Where(p)>>, <<Both(k, p)>>} : k \in KeyCompares, p \in Compares}
  IN  {b \o f : b \in cut, f \in one \cup two} \cup {<<By("column", "d", 0)>> \o f : f \in one}

Job(t, column, steps) == [kind |-> "plan", t |-> t, column |-> column, steps |-> steps, owner |-> <<1, 2, 1>>]
PlanJobs ==
  {Job(t, FALSE, f) : t \in {"plain", "parted"}, f \in Unfiltered}
  \cup {Job(t, FALSE, <<Where(p)>> \o g) : t \in {"plain", "parted"}, p \in Constants,
                                           g \in {h \in AfterFilter : h = <<>> \/ h[1].k # "group"}}
  \cup UNION {{Job(t, TRUE, f) : f \in OfColumn(t)} : t \in {"plain", "parted"}}
  \cup {Job("parted", TRUE, f) : f \in Streamed}
  \cup UNION {{Job(t, FALSE, f \o g) : f \in Filters(t), g \in AfterFilter} : t \in {"plain", "parted"}}
  \cup UNION {{Job(t, FALSE, g \o f) : f \in Filters(t), g \in BeforeFilter} : t \in {"plain", "parted"}}

(* Expressions: one operator over two leaves and another one over it. *)
Leaves == <<Scan("a"), Scan("b"), Scan("x"), Const("i64", 2), Const("f64", 6),
            [Blank EXCEPT !.op = "lt", !.type = "bool", !.args = <<1, 4>>]>>
ExprNodes(j) ==
  LET one == Append(Leaves, Op(j.op, Leaves, <<j.left, j.right>>))
  IN  IF j.over = "none" THEN one
      ELSE Append(one, Op(j.over, one, IF j.over \in Unary THEN <<7>> ELSE IF j.flip THEN <<j.other, 7>> ELSE <<7, j.other>>))

Divisors == {1, 4, 5}
Suits(op, l, r) == IF op \in Logic THEN l = "bool" /\ r = "bool" ELSE "bool" \notin {l, r}
ExprJobs ==
  {j \in [kind : {"expr"}, t : {"plain", "parted"}, op : {"add", "sub", "mul", "div", "mod", "max2", "eq", "lt"},
          left : 1 .. 5, right : 1 .. 5, other : {1, 2, 3, 4, 6}, flip : BOOLEAN,
          over : {"none", "add", "sub", "mul", "min2", "le", "ne", "and", "or", "neg", "abs", "not"}] :
     LET one == TypeOf(j.op, <<Leaves[j.left].type, Leaves[j.right].type>>)
     IN  /\ \E i \in {j.left, j.right} : i < 4
         /\ j.op \in {"div", "mod"} => j.right \in Divisors
         /\ j.over \in {"none"} \cup Unary => j.other = 1 /\ ~j.flip
         /\ j.over = "not" => one = "bool"
         /\ j.over \in {"neg", "abs"} => one # "bool"
         /\ j.over \in Arith \cup Compare \cup Logic => Suits(j.over, one, Leaves[j.other].type)
         /\ (j.flip => j.over \in {"sub", "le"})}

(* A select is asked of the tables above or of one that a session holds. *)
SelectAsked(j) == IF j.t = "held" THEN j.s ELSE SelectOf(j)
TableOf(j) == IF j.t = "held" THEN j.table ELSE Tables(j.t)[1]

(* Selections: two predicates, one after the other. *)
SelectionJobs == UNION {[kind : {"rows"}, p : [1 .. n -> BOOLEAN], p2 : [1 .. n -> BOOLEAN]] : n \in 0 .. 5}

Init == /\ answer = NoAnswer
        /\ \/ job \in PlanJobs
           \/ job \in SelectionJobs
           \/ job \in ExprJobs
           \/ job \in TermJobs
           \/ job \in SelectJobs

Execution == answer = NoAnswer /\ job.kind = "plan" /\ answer' = [x |-> RunQuery(Plan(job))] /\ UNCHANGED job
Selecting == answer = NoAnswer /\ job.kind = "rows" /\ answer' = [x |-> Refine(FromPred(job.p), job.p2)] /\ UNCHANGED job
Evaluation ==
  LET nodes == ExprNodes(job)
      T == Tables(job.t)[1]
      prog == Compile(nodes, T, Len(nodes))
  IN  /\ answer = NoAnswer /\ job.kind = "expr"
      /\ answer' = [walked |-> Walk(nodes, T, Len(nodes)).cells,
                    fused |-> IF prog = NoPlan THEN NoPlan ELSE EvalFull(prog, T, RowsOf(T)),
                    linear |-> LinearPlan(nodes, T, Len(nodes)),
                    affine |-> AffinePlan(nodes, T, Len(nodes))]
      /\ UNCHANGED job
Compilation ==
  /\ answer = NoAnswer /\ job.kind = "term"
  /\ answer' = [x |-> CompileTerm(<<>>, Tables(job.t)[1], <<>>, Terms[job.term])]
  /\ UNCHANGED job
Selects ==
  /\ answer = NoAnswer /\ job.kind = "select"
  /\ answer' = [x |-> Selected(SelectAsked(job), TableOf(job), <<1, 2, 1, 2, 1>>)]
  /\ UNCHANGED job
Done == answer # NoAnswer /\ UNCHANGED vars
Next == Execution \/ Selecting \/ Evaluation \/ Compilation \/ Selects \/ Done
Spec == Init /\ [][Next]_vars

(* Every combination of clauses that the documentation allows. *)
AllClausesInit == answer = NoAnswer /\ job \in AllSelectJobs
AllClausesSpec == AllClausesInit /\ [][Next]_vars

-----------------------------------------------------------------------------
(* A selection that was refined lists the rows that pass both predicates,  *)
(* whichever segments are empty, full or mixed, and compaction gives them  *)
(* with their nulls (rowsel.c, sel_compact).                               *)
Refined(p, p2, sel) ==
  LET n == Len(p)
      both == Keep(Upto(n), LAMBDA r : p[r] /\ p2[r])
      T == [a |-> Flat("i64", [r \in 1 .. n |-> [v |-> r, null |-> r = 2]])]
  IN  /\ IF sel = NoSelection THEN both = Upto(n) ELSE ToIndices(sel) = both /\ sel.total = Len(both)
      /\ Cells(Compact(T, sel).a) = [i \in DOMAIN both |-> Cells(T.a)[both[i]]]

(* A plan that was folded, pushed down, split, reordered and pruned, then  *)
(* executed with lazy selections, streamed over partitions or reduced in   *)
(* parallel, gives what its operators mean row by row (opt.c, exec.c), and *)
(* so do the selections it is built on.                                    *)
PlanExact ==
  answer # NoAnswer =>
    /\ job.kind = "plan" => MeaningOk(Plan(job), answer.x)
    /\ job.kind = "rows" => Refined(job.p, job.p2, answer.x)

(* An expression has one value whichever way it is evaluated: walked with  *)
(* whole vectors, compiled into registers and run by morsels, or taken     *)
(* apart into a sum of columns (expr.c).                                   *)
ExpressionsExact ==
  answer # NoAnswer /\ job.kind = "expr" =>
    LET nodes == ExprNodes(job)
        T == Tables(job.t)[1]
        meant == [r \in 1 .. RowsOf(T) |-> Meant(nodes, T, Len(nodes), r)]
        present == {r \in DOMAIN meant : ~meant[r].null}
        Linear(r) == FoldLeft(LAMBDA acc, t : acc + t[2] * Cells(T[t[1]])[r].v, answer.linear.bias, answer.linear.terms)
    IN  /\ SameCells(answer.walked, meant)
        /\ answer.fused # NoPlan => SameCells(answer.fused, meant)
        /\ answer.linear # NoPlan /\ nodes[Len(nodes)].type # "f64" => \A r \in present : Linear(r) = meant[r].v
        /\ answer.affine # NoPlan => \A r \in present : Cells(T[answer.affine.col])[r].v + answer.affine.bias = meant[r].v

(* A term is compiled into nodes that mean what the term means with        *)
(* lexical scope: a formal or a "let" hides the names outside it, and only *)
(* inside its body (query.c, compile_expr_dag).                            *)
Compiled(term, T, x) ==
  x # NoPlan /\ \A r \in 1 .. RowsOf(T) : SameCell(Meant(x.nodes, T, x.id, r), Lexical(T, <<>>, term, r))

(* A select gives what its clauses mean, whichever of its ways it takes: a *)
(* fused plan, a filter executed for its selection, groups with scattered  *)
(* rows, or the interpreter (query.c, ray_select_fn).                      *)
SelectExact ==
  answer # NoAnswer =>
    /\ job.kind = "term" => Compiled(Terms[job.term], Tables(job.t)[1], answer.x)
    /\ job.kind = "select" => SelectMeans(SelectAsked(job), TableOf(job), answer.x)

(* queries-select.html:229: all clauses can be combined, they apply in the *)
(* order where, by or projection, sort, take.  They do not: a take of a    *)
(* filtered projection fails, since HEAD cuts the table under the pending  *)
(* selection (exec.c:1336, filter.c:508).                                  *)
ClausesCombine ==
  answer # NoAnswer /\ job.kind = "select" => SelectMeans(SelectOf(job), Tables(job.t)[1], answer.x)
=============================================================================
