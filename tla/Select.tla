------------------------------- MODULE Select -------------------------------
(***************************************************************************)
(* The query form "select" (query.c): its expressions are compiled into    *)
(* nodes of a graph, its clauses into a plan, and what the plan cannot do  *)
(* is done on the answer afterwards.                                       *)
(*                                                                         *)
(* An expression is a term [k, name, v, type, args, formals]: a "name", a  *)
(* literal "lit", a "call" of a builtin, of a function that is bound to a  *)
(* name or of a lambda ("apply": formals, the arguments and last the       *)
(* body), or a special form.  A select is                                  *)
(*   where     an expression or NoTerm                                     *)
(*   by        what is grouped by: "none", "names", "term" or "dict"       *)
(*   keys      the names, <<the term>> or the pairs <<name, term>>         *)
(*   outputs   pairs <<name, term>> in the order written                   *)
(*   sort      pairs <<name, descending>> in the order written             *)
(*   take      <<>>, <<n>> or <<start, amount>>                            *)
(***************************************************************************)
EXTENDS Executor

CONSTANTS
  EnvSlots,      \* bindings that nest while an expression is compiled, 32
  MaxFormals,    \* formals of a function that is inlined, 16
  MaxColumns,    \* outputs, keys and sort columns of a select, 16
  NoTerm

Term == [k |-> "name", name |-> "", v |-> 0, type |-> "i64", args |-> <<>>, formals |-> <<>>]

DagBinary == (Arith \ {"min2", "max2"}) \cup Compare \cup Logic \cup {"in", "notin"}
DagUnary == Unary \ {"isnull", "cast"}
Aggregates == {"sum", "avg", "min", "max", "prod", "last", "count", "first"}

(* What is bound to names outside the query: a constant and functions with *)
(* a body of one expression.                                               *)
Name(n) == [Term EXCEPT !.name = n]
Lit(v) == [Term EXCEPT !.k = "lit", !.v = v]
Call(f, args) == [Term EXCEPT !.k = "call", !.name = f, !.args = args]
Globals(name) ==
  CASE name = "lim" -> Lit(2)
    [] name = "over" -> [Term EXCEPT !.k = "fn", !.formals = <<"u">>, !.args = <<Call("gt", <<Name("u"), Name("lim")>>)>>]
    [] name = "near" -> [Term EXCEPT !.k = "fn", !.formals = <<"u", "a">>,
                                     !.args = <<Call("sub", <<Name("a"), Name("u")>>)>>]
    [] OTHER -> [Term EXCEPT !.k = "unbound"]

-----------------------------------------------------------------------------
(* Compilation.  A state is [nodes, id]: the graph so far and the node of  *)
(* the last expression; NoPlan says that it cannot be compiled.  "env" is  *)
(* the stack of bindings <<name, node>>.                                   *)
Bound(env, name) ==
  LET at == {i \in DOMAIN env : env[i][1] = name}
  IN  IF at = {} THEN NoPlan ELSE env[CHOOSE i \in at : \A j \in at : j <= i][2]

New(nodes, node) == [nodes |-> Append(nodes, node), id |-> Len(nodes) + 1]
OpNode(nodes, op, args, hidden) ==
  New(nodes, [Blank EXCEPT !.op = op, !.args = args, !.hidden = hidden,
                           !.type = TypeOf(op, [i \in DOMAIN (args \o hidden) |-> nodes[(args \o hidden)[i]].type])])

ScanNode(T, name) ==
  [Blank EXCEPT !.col = name, !.type = IF name \notin DOMAIN T THEN "i64"
                                       ELSE IF T[name].kind = "common" THEN "common" ELSE T[name].type]

IsAgg(term) == term.k = "call" /\ term.name \in Aggregates /\ Len(term.args) >= 1

RECURSIVE CompileTerm(_, _, _, _)

(* The arguments in order: [nodes, ids] or NoPlan. *)
CompileArgs(nodes, T, env, args) ==
  LET Also(acc, one) == IF one = NoPlan THEN NoPlan ELSE [nodes |-> one.nodes, ids |-> Append(acc.ids, one.id)]
  IN  FoldLeft(LAMBDA acc, a : IF acc = NoPlan THEN NoPlan ELSE Also(acc, CompileTerm(acc.nodes, T, env, a)),
               [nodes |-> nodes, ids |-> <<>>], args)

(* A name: a binding, a column, a constant from outside, or a column that  *)
(* will not be found.                                                      *)
CompileName(nodes, T, env, name) ==
  IF Bound(env, name) # NoPlan THEN [nodes |-> nodes, id |-> Bound(env, name)]
  ELSE IF name \in DOMAIN T THEN New(nodes, ScanNode(T, name))
  ELSE IF Globals(name).k = "lit"
  THEN New(nodes, [Blank EXCEPT !.op = "const", !.type = Globals(name).type, !.v = Globals(name).v])
  ELSE New(nodes, ScanNode(T, name))

(* A function is inlined: the arguments are compiled once, where it is     *)
(* called, and the body is compiled with the formals on top of the stack.  *)
Inline(nodes, T, env, formals, actuals, body) ==
  LET Frame(ids) == [i \in DOMAIN formals |-> <<formals[i], ids[i]>>]
      Body(args) == IF args = NoPlan THEN NoPlan ELSE CompileTerm(args.nodes, T, env \o Frame(args.ids), body)
  IN  IF Len(actuals) # Len(formals) \/ Len(formals) > MaxFormals \/ Len(env) + Len(formals) > EnvSlots THEN NoPlan
      ELSE Body(CompileArgs(nodes, T, env, actuals))

(* x - x mod b *)
CompileBucket(nodes, T, env, args) ==
  LET Minus(rest, id) == OpNode(rest.nodes, "sub", <<id, rest.id>>, <<>>)
      Bucket(both) == IF both = NoPlan THEN NoPlan ELSE Minus(OpNode(both.nodes, "mod", both.ids, <<>>), both.ids[1])
  IN  IF Len(args) # 2 THEN NoPlan ELSE Bucket(CompileArgs(nodes, T, env, args))

CompileIf(nodes, T, env, args) ==
  LET Choice(all) == IF all = NoPlan THEN NoPlan ELSE OpNode(all.nodes, "if", SubSeq(all.ids, 1, 2), <<all.ids[3]>>)
  IN  IF Len(args) # 3 THEN NoPlan ELSE Choice(CompileArgs(nodes, T, env, args))

(* The clauses from the last, which is the "else", to the first: each a    *)
(* pair of terms.                                                          *)
CompileCond(nodes, T, env, args) ==
  LET n == Len(args)
      Clause(acc, i) ==
        LET pred == CompileTerm(acc.nodes, T, env, args[2 * i - 1])
            body == CompileTerm(pred.nodes, T, env, args[2 * i])
        IN  IF acc = NoPlan THEN NoPlan
            ELSE IF pred = NoPlan THEN NoPlan
            ELSE IF body = NoPlan THEN NoPlan
            ELSE OpNode(body.nodes, "if", <<pred.id, body.id>>, <<acc.id>>)
  IN  IF n % 2 = 0 THEN NoPlan
      ELSE FoldRight(LAMBDA i, acc : Clause(acc, i), Upto(n \div 2), CompileTerm(nodes, T, env, args[n]))

CompileLet(nodes, T, env, name, args) ==
  LET value == CompileTerm(nodes, T, env, args[1])
  IN  IF value = NoPlan \/ Len(env) >= EnvSlots THEN NoPlan
      ELSE CompileTerm(value.nodes, T, Append(env, <<name, value.id>>), args[2])

(* A builtin operator, an aggregate, or nothing known. *)
CompileCall(nodes, T, env, term) ==
  LET n == Len(term.args)
      Made(args) == IF args = NoPlan THEN NoPlan ELSE OpNode(args.nodes, term.name, args.ids, <<>>)
  IN  IF ~(\/ n = 2 /\ term.name \in DagBinary
           \/ n = 1 /\ term.name \in DagUnary \cup Aggregates) THEN NoPlan
      ELSE Made(CompileArgs(nodes, T, env, term.args))

CompileTerm(nodes, T, env, term) ==
  LET function == Globals(term.name)
      n == Len(term.args)
      calls == term.k = "call" /\ Bound(env, term.name) = NoPlan /\ term.name \notin DOMAIN T /\ function.k = "fn"
               /\ n = Len(function.formals) /\ n <= MaxFormals /\ Len(env) + n <= EnvSlots
  IN  CASE term.k = "name" -> CompileName(nodes, T, env, term.name)
        [] term.k = "lit" -> New(nodes, [Blank EXCEPT !.op = "const", !.type = term.type, !.v = term.v])
        [] term.k = "null" -> New(nodes, [Blank EXCEPT !.op = "const", !.type = term.type, !.null = TRUE])
        [] term.k = "vector" -> New(nodes, [Blank EXCEPT !.op = "set", !.type = term.type,
                                              !.set = [i \in DOMAIN term.args |-> [v |-> term.args[i].v, null |-> FALSE]]])
        [] term.k = "apply" -> Inline(nodes, T, env, term.formals, SubSeq(term.args, 1, n - 1), term.args[n])
        [] calls -> Inline(nodes, T, env, function.formals, term.args, function.args[1])
        [] term.name = "xbar" -> CompileBucket(nodes, T, env, term.args)
        [] term.name = "if" -> CompileIf(nodes, T, env, term.args)
        [] term.name = "cond" -> CompileCond(nodes, T, env, term.args)
        [] term.name = "do" -> IF n = 0 THEN NoPlan ELSE CompileTerm(nodes, T, env, term.args[n])
        [] term.name = "let" -> CompileLet(nodes, T, env, term.formals[1], term.args)
        [] OTHER -> CompileCall(nodes, T, env, term)

(* A column in a place where its rows go through. *)
RECURSIVE RefsRowColumn(_, _)
RefsRowColumn(term, T) ==
  CASE term.k = "name" -> term.name \in DOMAIN T
    [] IsAgg(term) \/ term.k = "apply" -> FALSE
    [] OTHER -> \E i \in DOMAIN term.args : RefsRowColumn(term.args[i], T)

(* The interpreter over whole columns (ray_eval with the columns bound to  *)
(* their names): operator after operator.                                  *)
EvaluatedPlan(plan, T, owner) ==
  IF plan = NoPlan THEN Error
  ELSE Exec([Query(plan.nodes, <<T>>, owner) EXCEPT !.root = plan.id], T, NoSelection, plan.id).v
Evaluated(T, term, owner) ==
  EvaluatedPlan(CompileTerm(<<>>, T, <<>>, term), T, owner)

-----------------------------------------------------------------------------
(* The parts of a plan. *)
Query0(nodes, T, owner, root) == [Query(nodes, <<T>>, owner) EXCEPT !.root = root]
PlanAnswer(plan, T, owner) ==
  IF plan = NoPlan THEN Error ELSE Execute(Optimize(Query0(plan.nodes, T, owner, plan.id)), NoSelection)
TableNode == [Blank EXCEPT !.op = "table"]

(* The base table, filtered: [nodes, id], or NoPlan.                       *)
FilteredPlan(T, where) ==
  LET By(pred) == IF pred = NoPlan THEN NoPlan
                  ELSE New(pred.nodes, [Blank EXCEPT !.op = "filter", !.args = <<1, pred.id>>])
  IN  IF where = NoTerm THEN [nodes |-> <<TableNode>>, id |-> 1] ELSE By(CompileTerm(<<TableNode>>, T, <<>>, where))

(* The filtered table by itself. *)
FilteredTable(T, where, owner) ==
  IF where = NoTerm THEN Table(T) ELSE PlanAnswer(FilteredPlan(T, where), T, owner)

SortPlan(plan, T, sort) ==
  LET keys == [i \in 1 .. Least(Len(sort), MaxColumns) |-> sort[i]]
      n == Len(plan.nodes)
  IN  IF sort = <<>> THEN plan
      ELSE New(plan.nodes \o [i \in DOMAIN keys |-> ScanNode(T, keys[i][1])],
               [Blank EXCEPT !.op = "sort", !.args = <<plan.id>>,
                             !.hidden = [i \in DOMAIN keys |-> n + i],
                             !.set = [i \in DOMAIN keys |-> keys[i][2]]])

TakePlan(plan, take) ==
  IF Len(take) # 1 THEN plan
  ELSE New(plan.nodes, [Blank EXCEPT !.op = IF take[1] >= 0 THEN "head" ELSE "tail",
                                     !.args = <<plan.id>>, !.n = Abs(take[1])])

(* "take" with a start and an amount: both are cut to what there is.       *)
RangeTaken(x, start, amount) ==
  LET n == RowsOf(x.tbl)
      from == IF start >= 0 THEN start ELSE IF n + start < 0 THEN 0 ELSE n + start
  IN  IF amount < 0 THEN Error
      ELSE Table([c \in DOMAIN x.tbl |->
                    Flat(x.tbl[c].type, SubSeq(Cells(x.tbl[c]), from + 1, Least(from + amount, n)))])

(* Sort and take on a finished answer: the take is always a range, cut to  *)
(* the rows there are.                                                     *)
SortTaken(sorted, take) ==
  LET amount == Least(Abs(take[1]), RowsOf(sorted.tbl))
      range == IF Len(take) = 2 THEN take ELSE <<IF take[1] >= 0 THEN 0 ELSE RowsOf(sorted.tbl) - amount, amount>>
  IN  IF sorted = Error \/ take = <<>> THEN sorted ELSE RangeTaken(sorted, range[1], range[2])
ApplySortTake(x, sort, take, owner) ==
  IF x = Error \/ (sort = <<>> /\ take = <<>>) THEN x
  ELSE SortTaken(PlanAnswer(SortPlan([nodes |-> <<TableNode>>, id |-> 1], x.tbl, sort), x.tbl, owner), take)

-----------------------------------------------------------------------------
(* Without "by": filter, projection, sort and take are one plan.  Columns  *)
(* are renamed by their place, a column that was not found has none.       *)
Projection(plan, T, outputs) ==
  LET Over(all) == IF all = NoPlan THEN NoPlan
                   ELSE New(all.nodes, [Blank EXCEPT !.op = "select", !.args = <<plan.id>>, !.hidden = all.ids])
  IN  IF outputs = <<>> THEN plan
      ELSE Over(CompileArgs(plan.nodes, T, <<>>, [i \in 1 .. Least(Len(outputs), MaxColumns) |-> outputs[i][2]]))

ProjectionNames(plan, T) ==
  LET node == plan.nodes[plan.id]
      Of(i) == IF plan.nodes[node.hidden[i]].op = "scan" THEN plan.nodes[node.hidden[i]].col ELSE Computed[i]
      present == Keep(Upto(Len(node.hidden)),
                      LAMBDA i : plan.nodes[node.hidden[i]].op # "scan" \/ Of(i) \in DOMAIN T)
  IN  [i \in DOMAIN present |-> Of(present[i])]

Renamed(x, names, outputs) ==
  Table([c \in {outputs[i][1] : i \in DOMAIN names} |->
           x.tbl[names[CHOOSE i \in DOMAIN names : outputs[i][1] = c]]])

ProjectedRows(s, T, owner, plan) ==
  LET Titled(x) == IF x = Error \/ s.outputs = <<>> THEN x ELSE Renamed(x, ProjectionNames(plan, T), s.outputs)
      Ranged(x) == IF x # Error /\ Len(s.take) = 2 THEN RangeTaken(x, s.take[1], s.take[2]) ELSE x
  IN  IF plan = NoPlan THEN Error
      ELSE Titled(Ranged(PlanAnswer(TakePlan(SortPlan(plan, T, s.sort), s.take), T, owner)))
SelectRows(s, T, owner) ==
  LET Filtered(plan) == IF plan = NoPlan THEN NoPlan ELSE Projection(plan, T, s.outputs)
  IN  ProjectedRows(s, T, owner, Filtered(FilteredPlan(T, s.where)))

-----------------------------------------------------------------------------
(* Groups.  The keys that are expressions with names become columns first. *)
KeyColumnAdded(cols, name, x) ==
  IF x = Error THEN Error
  ELSE IF x.atom \/ Len(x.cells) # RowsOf(cols) THEN Error
  ELSE (name :> ColumnOf(x)) @@ cols
WithKeyColumns(T, pairs, owner) ==
  LET Self(pair) == pair[2].k = "name" /\ pair[2].name = pair[1]
  IN  IF pairs = <<>> \/ Len(pairs) > MaxColumns \/ Cardinality({pairs[i][1] : i \in DOMAIN pairs}) # Len(pairs)
      THEN Error
      ELSE FoldLeft(LAMBDA acc, pair :
                      IF acc = Error THEN Error
                      ELSE IF pair[1] \in DOMAIN acc THEN IF Self(pair) THEN acc ELSE Error
                      ELSE KeyColumnAdded(acc, pair[1], Evaluated(acc, pair[2], owner)),
                    T, pairs)

AggOutputs(s) == SelectSeq(s.outputs, LAMBDA o : IsAgg(o[2]))
RowOutputs(s) == SelectSeq(s.outputs, LAMBDA o : ~IsAgg(o[2]))

(* The grouping node over [nodes, id], for names or for a term; without an *)
(* aggregate the rows are counted.                                         *)
GroupPlan(plan, T, s) ==
  LET named == s.by # "term"
      aggs == AggOutputs(s)
      scans == [i \in DOMAIN s.keys |-> IF named THEN Name(s.keys[i]) ELSE s.keys[i]]
      Node(ids) == [Blank EXCEPT !.op = "group", !.n = Len(s.keys), !.hidden = ids,
                      !.set = IF aggs = <<>> THEN <<"count">> ELSE [i \in DOMAIN aggs |-> aggs[i][2].name]]
      Whole(all) == IF all = NoPlan THEN NoPlan
                       ELSE New(all.nodes, Node(IF aggs = <<>> THEN Append(all.ids, all.ids[1]) ELSE all.ids))
  IN  Whole(CompileArgs(plan.nodes, T, <<>>, scans \o [i \in DOMAIN aggs |-> aggs[i][2].args[1]]))

(* Faulty variant: the grouping does not get the selection. *)
FusedGroupsForgets(first, got, plan) ==
  IF got.v = Error \/ plan = NoPlan THEN Error
  ELSE Execute(Optimize([first EXCEPT !.nodes = plan.nodes, !.root = plan.id]), NoSelection)
(* The grouping over the selection that the filter has left.               *)
FusedGroups(first, got, plan) ==
  IF got.v = Error \/ plan = NoPlan THEN Error
  ELSE Execute(Optimize([first EXCEPT !.nodes = plan.nodes, !.root = plan.id]), got.sel)
FusedFilter(first, T, s) ==
  FusedGroups(first, Exec(first, T, NoSelection, first.root),
              GroupPlan([nodes |-> first.nodes, id |-> first.root], T, s))
(* The filter is executed for its selection, unless rows will be gathered: *)
(* then it is executed for its table.  The answer is the groups.           *)
FusedPlan(plan, T, s, owner) ==
  IF plan = NoPlan THEN Error ELSE FusedFilter(Optimize(Query0(plan.nodes, T, owner, plan.id)), T, s)
Fused(T, s, owner) == FusedPlan(FilteredPlan(T, s.where), T, s, owner)

Grouped(T, s, owner) == PlanAnswer(GroupPlan([nodes |-> <<TableNode>>, id |-> 1], T, s), T, owner)

(* The keys keep their names; a term has that of the grouping.             *)
KeyNameOf(s, i) == IF s.by # "term" THEN s.keys[i]
                   ELSE IF s.keys[i].k = "name" THEN s.keys[i].name ELSE KeyNames[i]

NamedGroups(x, s) ==
  LET aggs == AggOutputs(s)
  IN  Table([c \in {KeyNameOf(s, i) : i \in DOMAIN s.keys} |-> x.tbl[c]]
            @@ [c \in {aggs[i][1] : i \in DOMAIN aggs} |->
                  x.tbl[AggNames[CHOOSE i \in DOMAIN aggs : aggs[i][1] = c]]])

(* Groups by a column of booleans come in the order of the first row of    *)
(* the table.                                                              *)
FirstTrue(x, T, s) ==
  LET key == Cells(x.tbl[KeyNameOf(s, 1)])
      orig == Cells(T[s.keys[1]])
      swap == /\ s.by # "term" /\ Len(s.keys) = 1 /\ T[s.keys[1]].type = "bool"
              /\ Len(key) >= 2 /\ orig # <<>> /\ orig[1].v # key[1].v
  IN  IF ~swap THEN x
      ELSE Table([c \in DOMAIN x.tbl |-> Flat(x.tbl[c].type, Reverse(Cells(x.tbl[c])))])

(* The group of a row: the first with the same raw value. *)
GroupOf(groups, cell) ==
  LET same == {g \in DOMAIN groups : groups[g].v = cell.v}
  IN  IF same = {} THEN 0 ELSE CHOOSE g \in same : \A h \in same : g <= h
MembersOf(groups, cells) == [g \in DOMAIN groups |-> Keep(Upto(Len(cells)), LAMBDA r : GroupOf(groups, cells[r]) = g)]

(* The rows of every group, for an output that is no aggregate: one list   *)
(* for each group.  What does not have the length of the table goes into   *)
(* every group, but not if it should have.                                 *)
RowLists(full, members, n, refers) ==
  LET aligned == ~full.atom /\ Len(full.cells) = n
  IN  IF full = Error \/ (refers /\ ~aligned) THEN Error
      ELSE Flat("list", [g \in DOMAIN members |->
                  IF aligned THEN [i \in DOMAIN members[g] |-> full.cells[members[g][i]]] ELSE full.cells])

(* The outputs as further columns, unless one is an error. *)
WithOutputs(cols, outputs, made) ==
  IF \E i \in DOMAIN made : made[i] = Error THEN Error
  ELSE [c \in {outputs[i][1] : i \in DOMAIN outputs} |-> made[CHOOSE i \in DOMAIN outputs : outputs[i][1] = c]] @@ cols

Scatter(x, T, s, owner) ==
  LET key == KeyNameOf(s, 1)
      outputs == RowOutputs(s)
      Lists(members) ==
        [i \in DOMAIN outputs |->
           IF members = <<>> THEN Flat("list", <<>>)
           ELSE RowLists(Evaluated(T, outputs[i][2], owner), members, RowsOf(T), RefsRowColumn(outputs[i][2], T))]
  IN  Tabled(WithOutputs(x.tbl, outputs, Lists(MembersOf(Cells(x.tbl[key]), Cells(T[key])))))

(* The first row of every group: a row is claimed by the first group that  *)
(* has its value and still lacks one.                                      *)
FirstOfGroups(found, cells) ==
  LET Claim(first, r) ==
        LET open == {g \in DOMAIN found : first[g] = 0 /\ found[g].v = cells[r].v}
        IN  IF open = {} THEN first ELSE [first EXCEPT ![CHOOSE g \in open : \A h \in open : g <= h] = r]
  IN  FoldLeft(Claim, [g \in DOMAIN found |-> 0], Upto(Len(cells)))

(* Without outputs every column gives its value in the first rows. *)
FirstRows(T, s, groups) ==
  LET found == Cells(groups.tbl[s.keys[1]])
  IN  IF found = <<>> THEN Table([c \in DOMAIN T |-> Flat(T[c].type, <<>>)])
      ELSE Table([c \in DOMAIN T |-> GatherParted(T[c], FirstOfGroups(found, Cells(T[s.keys[1]])))])

-----------------------------------------------------------------------------
(* Keys that are strings are grouped by the interpreter, in the order in   *)
(* which they are first met: [firsts, members].                            *)
EvalIndex(cells) ==
  LET firsts == Keep(Upto(Len(cells)), LAMBDA r : \A p \in 1 .. r - 1 : cells[p] # cells[r])
  IN  [firsts |-> firsts,
       members |-> [g \in DOMAIN firsts |-> Keep(Upto(Len(cells)), LAMBDA r : cells[r] = cells[firsts[g]])]]

(* An aggregate: the operand is evaluated once and reduced group by group. *)
EvalAggregate(arg, name, members, owner) ==
  LET Agg(g) == Reduce(name, Vector(arg.type, [i \in DOMAIN members[g] |-> arg.cells[members[g][i]]]), owner)
      Column(aggs) == Flat(aggs[1].type, [g \in DOMAIN members |-> aggs[g].cells[1]])
  IN  IF arg = Error THEN Error ELSE Column([g \in DOMAIN members |-> Agg(g)])

EvalOutput(term, x, T, members, owner) ==
  IF IsAgg(term) THEN EvalAggregate(x, term.name, members, owner)
  ELSE RowLists(x, members, RowsOf(T), RefsRowColumn(term, T))
EvalGroups(T, s, owner) ==
  LET key == s.keys[1]
      index == EvalIndex(Cells(T[key]))
      Firsts(c) == GatherParted(T[c], index.firsts)
      Of(term) == IF IsAgg(term) THEN term.args[1] ELSE term
  IN  IF s.outputs = <<>> THEN Table([c \in DOMAIN T |-> Firsts(c)])
      ELSE Tabled(WithOutputs(key :> Firsts(key), s.outputs,
                    [i \in DOMAIN s.outputs |->
                       EvalOutput(s.outputs[i][2], Evaluated(T, Of(s.outputs[i][2]), owner), T, index.members, owner)]))

(* The names of the groups, and the outputs that are no aggregates. *)
ListedGroups(x, tbl, s, owner) == IF RowOutputs(s) # <<>> THEN Scatter(x, tbl, s, owner) ELSE x
FinishedGroups(groups, tbl, s, owner) ==
  IF groups = Error THEN Error
  ELSE IF s.outputs = <<>> THEN FirstRows(tbl, s, groups)
  ELSE ListedGroups(FirstTrue(NamedGroups(groups, s), tbl, s), tbl, s, owner)

(* "early" tells that x is the filtered table; otherwise it is all of T.   *)
GroupsOver(x, T, s, eval, early, owner) ==
  IF x = Error THEN Error
  ELSE IF eval THEN EvalGroups(x.tbl, s, owner)
  ELSE FinishedGroups(IF early \/ s.where = NoTerm THEN Grouped(x.tbl, s, owner) ELSE Fused(T, s, owner), x.tbl, s, owner)

SelectGroups(s, T, owner) ==
  LET single == s.by # "term" /\ Len(s.keys) = 1 /\ s.keys[1] \in DOMAIN T
      rows == RowOutputs(s) # <<>>
      parted == \E c \in DOMAIN T : T[c].kind = "parted"
      eval == single /\ T[s.keys[1]].type = "str"
      early == rows \/ eval \/ s.outputs = <<>>
  IN  IF rows /\ ~(Len(s.keys) = 1 /\ s.by # "term") THEN Error
      ELSE IF rows /\ parted /\ ~eval /\ s.where = NoTerm THEN Error
      ELSE ApplySortTake(GroupsOver(IF early THEN FilteredTable(T, s.where, owner) ELSE Table(T), T, s, eval, early, owner),
                         s.sort, s.take, owner)

(* The whole form. *)
SelectKeyed(s, tbl, owner) == IF tbl = Error THEN Error ELSE SelectGroups(s, tbl, owner)
Selected(s, T, owner) ==
  LET names == [s EXCEPT !.by = "names", !.keys = [i \in DOMAIN s.keys |-> s.keys[i][1]]]
  IN  IF s.by = "none" THEN SelectRows(s, T, owner)
      ELSE SelectKeyed(IF s.by = "dict" THEN names ELSE s,
                       IF s.by = "dict" THEN WithKeyColumns(T, s.keys, owner) ELSE T, owner)
=============================================================================
