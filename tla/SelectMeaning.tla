--------------------------- MODULE SelectMeaning ---------------------------
(***************************************************************************)
(* What queries mean, without any of the program's machinery, the          *)
(* reference the compiled forms are held against.  Expressions and         *)
(* reductions are evaluated row by row; the terms of a select with lexical *)
(* scope, and its clauses apply in the order where, by or projection,      *)
(* sort, take.                                                             *)
(***************************************************************************)
EXTENDS Select

-----------------------------------------------------------------------------
(* The meaning of an expression in one row.                                *)
NumberIn(type, from, v) == IF type = "f64" /\ from # "f64" THEN ToDouble(v) ELSE v

MeantBinary(op, type, ltype, rtype, a, b) ==
  LET wide == IF "f64" \in {ltype, rtype, type} THEN "f64" ELSE "i64"
      l == NumberIn(wide, ltype, a.v)
      r == NumberIn(wide, rtype, b.v)
      null == a.null \/ b.null
  IN  CASE op \in Compare -> [v |-> IF null THEN HoldsMissing(op, a.null, b.null) ELSE Bit(Holds(op, l, r)), null |-> FALSE]
        [] op = "and" -> [v |-> Bit(a.v # 0 /\ b.v # 0), null |-> FALSE]
        [] op = "or" -> [v |-> Bit(a.v # 0 \/ b.v # 0), null |-> FALSE]
        [] OTHER -> [null |-> null,
                     v |-> IF null THEN 0 ELSE IF wide = "f64" THEN DoubleArith(op, l, r) ELSE IntArith(op, "i64", l, r)]

MeantUnary(op, type, from, a) ==
  [null |-> a.null,
   v |-> CASE a.null -> 0
           [] op = "not" -> 1 - a.v
           [] op = "cast" -> NumberIn(type, from, a.v)
           [] OTHER -> Negated(op, a.v)]

RECURSIVE Meant(_, _, _, _)
Meant(nodes, T, id, r) ==
  LET node == nodes[id]
      Arg(i) == Meant(nodes, T, node.args[i], r)
      Type(i) == nodes[node.args[i]].type
      set == nodes[node.args[2]].set
      member == \E i \in DOMAIN set : ~set[i].null /\ set[i].v = Arg(1).v
  IN  CASE node.op = "scan" -> Cells(T[node.col])[r]
        [] node.op = "const" -> [v |-> node.v, null |-> node.null]
        [] node.op \in {"in", "notin"} ->
             [v |-> Bit(~Arg(1).null /\ (member <=> node.op = "in")), null |-> FALSE]
        [] node.op = "if" -> IF Arg(1).v # 0 THEN Arg(2) ELSE Meant(nodes, T, node.hidden[1], r)
        [] Len(node.args) = 1 -> MeantUnary(node.op, node.type, Type(1), Arg(1))
        [] OTHER -> MeantBinary(node.op, node.type, Type(1), Type(2), Arg(1), Arg(2))

(* Equal cells: what is below a null does not count. *)
SameCell(a, b) == a.null = b.null /\ (a.null \/ a.v = b.v)
SameCells(s, t) == Len(s) = Len(t) /\ \A i \in DOMAIN s : SameCell(s[i], t[i])

(* Missing numbers come first. *)
SortsBefore(a, b) == IF a.null THEN ~b.null ELSE ~b.null /\ a.v < b.v

(* Reductions leave nulls out. *)
Present(cells) == Keep(Upto(Len(cells)), LAMBDA i : ~cells[i].null)
Number(v) == [v |-> v, null |-> FALSE]
MeantReduce(op, cells) ==
  LET of == [i \in DOMAIN Present(cells) |-> cells[Present(cells)[i]].v]
      values == ToSet(of)
  IN  CASE op = "sum" -> Number(Sum(of))
        [] op = "count" -> Number(Len(of))
        [] op = "distinct" -> Number(Cardinality({cells[i].v : i \in DOMAIN cells}))
        [] of = <<>> -> [v |-> 0, null |-> TRUE]
        [] op = "min" -> Number(CHOOSE v \in values : \A w \in values : v <= w)
        [] op = "max" -> Number(CHOOSE v \in values : \A w \in values : v >= w)
        [] op = "first" -> Number(of[1])
        [] op = "last" -> Number(of[Len(of)])

-----------------------------------------------------------------------------
(* Tables: small numbers, a null, a double; the same cut into partitions   *)
(* with a key each; one with a column of strings.                          *)
C(v) == [v |-> v, null |-> FALSE]
Missing == [v |-> 0, null |-> TRUE]
Column1(s) == [i \in DOMAIN s |-> C(s[i])]
Plain == [a |-> Flat("i64", Column1(<<3, 1, 3, -2, 1>>)),
          b |-> Flat("i64", <<C(4), Missing, C(1), C(4), C(2)>>),
          x |-> Flat("f64", Column1(<<6, -2, 8, 2, 0>>))]
Parts(type, segs) == [type |-> type, kind |-> "parted", segs |-> [s \in DOMAIN segs |-> [ok |-> TRUE, cells |-> Column1(segs[s])]]]
KeyColumn(keys, counts) ==
  [type |-> "i64", kind |-> "common",
   segs |-> [s \in DOMAIN keys |-> [ok |-> TRUE, key |-> keys[s], cells |-> [i \in 1 .. counts[s] |-> C(keys[s])]]]]
Parted == [a |-> Parts("i64", << <<3, 1>>, <<3>>, <<-2, 1>> >>),
           b |-> Parts("i64", << <<4, 0>>, <<1>>, <<4, 2>> >>),
           x |-> Parts("f64", << <<6, -2>>, <<8>>, <<2, 0>> >>),
          d |-> KeyColumn(<<1, 2, 3>>, <<2, 1, 2>>)]
Right == [a |-> Flat("i64", Column1(<<1, 3, 1>>)), y |-> Flat("i64", Column1(<<7, 8, 9>>))]
Texts == [a |-> Plain.a, b |-> Plain.b, w |-> Flat("str", Column1(<<7, 2, 7, 5, 2>>))]
Tables(t) == <<CASE t = "plain" -> Plain [] t = "parted" -> Parted [] t = "texts" -> Texts, Right>>

-----------------------------------------------------------------------------
(* Selects.                                                                *)
Typed(type, cell) == [v |-> cell.v, null |-> cell.null, type |-> type]

(* The value of a term in row r. *)
RECURSIVE Lexical(_, _, _, _)
Lexical(T, env, term, r) ==
  LET n == Len(term.args)
      at == {i \in DOMAIN env : env[i][1] = term.name}
      last == CHOOSE i \in at : \A j \in at : j <= i
      global == Globals(term.name)
      local == IF at # {} THEN env[last][2]
               ELSE IF term.name \in DOMAIN T THEN Typed(T[term.name].type, Cells(T[term.name])[r])
               ELSE Typed(global.type, [v |-> global.v, null |-> FALSE])
      Unary2(op, a) == LET type == TypeOf(op, <<a.type>>) IN Typed(type, MeantUnary(op, type, a.type, a))
      Binary2(op, a, b) == LET type == TypeOf(op, <<a.type, b.type>>)
                           IN  Typed(type, MeantBinary(op, type, a.type, b.type, a, b))
      Within(tail, body) == Lexical(T, tail, body, r)
      In(a) == Typed("bool", [v |-> Bit(~a.null /\ ((term.name = "in") <=>
                                        \E i \in DOMAIN term.args[2].args : term.args[2].args[i].v = a.v)),
                              null |-> FALSE])
      Bar(a, b) == Binary2("sub", a, Binary2("mod", a, b))
      Applied(Arg(_)) ==
        LET Clause(true) == IF true = {} THEN n ELSE 2 * (CHOOSE i \in true : \A j \in true : i <= j)
            taken == CASE term.name = "if" -> IF Arg(1).v # 0 THEN 2 ELSE 3
                       [] term.name = "cond" -> Clause({i \in 1 .. n \div 2 : Arg(2 * i - 1).v # 0})
                       [] OTHER -> n
            Frame(formals) == [i \in DOMAIN formals |-> <<formals[i], Arg(i)>>]
        IN  CASE term.name \in {"if", "cond", "do"} -> Arg(taken)
              [] term.k = "apply" -> Within(env \o Frame(term.formals), term.args[n])
              [] term.name = "let" -> Within(Append(env, <<term.formals[1], Arg(1)>>), term.args[2])
              [] global.k = "fn" -> Within(Frame(global.formals), global.args[1])
              [] term.name = "xbar" -> Bar(Arg(1), Arg(2))
              [] term.name \in {"in", "notin"} -> In(Arg(1))
              [] n = 1 -> Unary2(term.name, Arg(1))
              [] OTHER -> Binary2(term.name, Arg(1), Arg(2))
  IN  CASE term.k = "name" -> local
        [] term.k = "lit" -> Typed(term.type, [v |-> term.v, null |-> FALSE])
        [] term.k = "null" -> Typed(term.type, [v |-> 0, null |-> TRUE])
        [] OTHER -> Applied(LAMBDA i : Lexical(T, env, term.args[i], r))

-----------------------------------------------------------------------------
(* A row of an answer is a record of its columns; what is below a null     *)
(* does not count.                                                         *)
Shown(cell) == IF cell.null THEN [v |-> 0, null |-> TRUE] ELSE [v |-> cell.v, null |-> FALSE]
ShownIn(col, i) == IF col.type = "list" THEN [k \in DOMAIN Cells(col)[i] |-> Shown(Cells(col)[i][k])]
                   ELSE Shown(Cells(col)[i])
RowList(tbl, columns) == [i \in 1 .. RowsOf(tbl) |-> [c \in columns |-> ShownIn(tbl[c], i)]]
(* A copy of the whole table may lack the column of the partitions' keys.  *)
Full(T) == {c \in DOMAIN T : T[c].kind # "common"}

KeyTerms(s) ==
  CASE s.by = "dict" -> [i \in DOMAIN s.keys |-> s.keys[i][2]]
    [] s.by = "names" -> [i \in DOMAIN s.keys |-> Name(s.keys[i])]
    [] OTHER -> s.keys
KeyTitles(s) == [i \in DOMAIN s.keys |-> IF s.by = "dict" THEN s.keys[i][1] ELSE KeyNameOf(s, i)]

Pass(s, T) ==
  IF s.where = NoTerm THEN Upto(RowsOf(T))
  ELSE Keep(Upto(RowsOf(T)), LAMBDA r : Lexical(T, <<>>, s.where, r).v # 0)

MeantRows(s, T) ==
  LET Row(r) == IF s.outputs = <<>> THEN [c \in Full(T) |-> Shown(Cells(T[c])[r])]
                ELSE [c \in {s.outputs[i][1] : i \in DOMAIN s.outputs} |->
                        Shown(Lexical(T, <<>>, s.outputs[CHOOSE i \in DOMAIN s.outputs : s.outputs[i][1] = c][2], r))]
      Each(rows) == [i \in DOMAIN rows |-> Row(rows[i])]
  IN  Each(Pass(s, T))

(* The groups in the order in which they are met: each with its rows. *)
MeantOutput(T, term, members) ==
  LET Over(values) == IF IsAgg(term) THEN Shown(MeantReduce(term.name, values))
                      ELSE [m \in DOMAIN values |-> Shown(values[m])]
  IN  Over([m \in DOMAIN members |-> Lexical(T, <<>>, IF IsAgg(term) THEN term.args[1] ELSE term, members[m])])

MeantGroup(s, T, key, members) ==
  LET titles == KeyTitles(s)
      At(c) == CHOOSE o \in DOMAIN s.outputs : s.outputs[o][1] = c
  IN  (IF s.outputs = <<>> THEN [c \in Full(T) |-> Shown(Cells(T[c])[members[1]])]
       ELSE [c \in {s.outputs[i][1] : i \in DOMAIN s.outputs} |-> MeantOutput(T, s.outputs[At(c)][2], members)])
      @@ [c \in ToSet(titles) |-> key[CHOOSE k \in DOMAIN titles : titles[k] = c]]

MeantGroupsOf(s, T, rows, keys) ==
  LET firsts == Keep(Upto(Len(rows)), LAMBDA i : \A j \in 1 .. i - 1 : keys[j] # keys[i])
      Members(i) == LET same == Keep(Upto(Len(rows)), LAMBDA j : keys[j] = keys[i])
                    IN  [m \in DOMAIN same |-> rows[same[m]]]
  IN  [g \in DOMAIN firsts |-> MeantGroup(s, T, keys[firsts[g]], Members(firsts[g]))]

MeantKeys(s, T, rows) ==
  [i \in DOMAIN rows |-> [k \in DOMAIN s.keys |-> Shown(Lexical(T, <<>>, KeyTerms(s)[k], rows[i]))]]
MeantGroups(s, T) ==
  LET Over(rows) == MeantGroupsOf(s, T, rows, MeantKeys(s, T, rows))
  IN  Over(Pass(s, T))

MeantSorted(rows, sort) ==
  LET Lower(a, b, desc) == IF desc THEN SortsBefore(b, a) ELSE SortsBefore(a, b)
      Under(k, i, j) == Lower(rows[i][sort[k][1]], rows[j][sort[k][1]], sort[k][2])
      Before(i, j) == LET apart == {k \in DOMAIN sort : Under(k, i, j) \/ Under(k, j, i)}
                      IN  IF apart = {} THEN i < j
                          ELSE Under(CHOOSE k \in apart : \A m \in apart : k <= m, i, j)
      order == SortSeq(Upto(Len(rows)), Before)
  IN  [i \in DOMAIN order |-> rows[order[i]]]

MeantTaken(rows, take) ==
  LET n == Len(rows)
      from == IF Len(take) = 2 THEN (IF take[1] >= 0 THEN take[1] ELSE IF n + take[1] < 0 THEN 0 ELSE n + take[1])
              ELSE IF take[1] >= 0 THEN 0 ELSE IF n + take[1] < 0 THEN 0 ELSE n + take[1]
      to == IF Len(take) = 2 THEN Least(from + take[2], n) ELSE IF take[1] >= 0 THEN Least(take[1], n) ELSE n
  IN  IF take = <<>> THEN rows ELSE SubSeq(rows, from + 1, to)

MeantSelect(s, T) ==
  MeantTaken(MeantSorted(IF s.by = "none" THEN MeantRows(s, T) ELSE MeantGroups(s, T), s.sort), s.take)

(* Groups have no order of their own. *)
SelectMeans(s, T, x) ==
  LET Match(got, meant) == IF s.by # "none" /\ s.sort = <<>> THEN Len(got) = Len(meant) /\ ToSet(got) = ToSet(meant)
                           ELSE got = meant
      Columns(tbl) == IF s.outputs = <<>> THEN Full(T) \cup ToSet(KeyTitles(s)) ELSE DOMAIN tbl
  IN  x # Error /\ Match(RowList(x.tbl, Columns(x.tbl)), MeantSelect(s, T))

-----------------------------------------------------------------------------
(* Terms and selects to try.  A select is given by the places of its       *)
(* clauses in these lists.                                                 *)
Col == [a |-> Name("a"), b |-> Name("b"), x |-> Name("x"), u |-> Name("u")]
Lambda(formals, actuals, body) == [Term EXCEPT !.k = "apply", !.formals = formals, !.args = Append(actuals, body)]
Let(name, value, body) == [Call("let", <<value, body>>) EXCEPT !.formals = <<name>>]
Sum2 == Call("add", <<Col.a, Col.b>>)
Big == Call("gt", <<Col.a, Lit(1)>>)

Terms ==
  << Big, Call("over", <<Col.a>>), Call("near", <<Col.b, Col.a>>), Call("near", <<Call("near", <<Col.a, Lit(1)>>), Col.b>>),
     Call("xbar", <<Col.a, Lit(2)>>), Call("if", <<Big, Col.a, Lit(7)>>),
     Call("cond", <<Big, Lit(1), Call("lt", <<Col.a, Lit(0)>>), Lit(2), Lit(3)>>),
     Let("a", Sum2, Call("mul", <<Col.a, Lit(2)>>)), Let("u", Lit(1), Let("u", Lit(2), Call("sub", <<Col.a, Col.u>>))),
     Lambda(<<"a">>, <<Col.b>>, Call("sub", <<Col.a, Lit(1)>>)),
     Lambda(<<"u", "a">>, <<Col.a, Col.b>>, Call("sub", <<Col.u, Col.a>>)),
     Lambda(<<"u">>, <<Col.a>>, Lambda(<<"u">>, <<Call("add", <<Col.u, Lit(1)>>)>>, Call("mul", <<Col.u, Col.u>>))),
     Lambda(<<"a">>, <<Lit(5)>>, Call("near", <<Col.a, Col.b>>)),
     Call("do", <<Col.b, Call("add", <<Col.a, Lit(1)>>)>>), Call("add", <<Name("lim"), Col.x>>),
     Call("in", <<Col.a, [Term EXCEPT !.k = "vector", !.args = <<Lit(1), Lit(3)>>]>>),
     Call("neg", <<Call("sub", <<Col.a, Col.x>>)>>), Call("and", <<Big, Call("le", <<Col.b, Lit(2)>>)>>) >>

Wheres == <<NoTerm, Big, Call("over", <<Col.b>>), Call("lt", <<Col.b, Call("near", <<Col.a, Col.x>>)>>)>>
Bys == <<[by |-> "none", keys |-> <<>>], [by |-> "names", keys |-> <<"a">>], [by |-> "names", keys |-> <<"a", "x">>],
         [by |-> "term", keys |-> <<Call("xbar", <<Col.a, Lit(2)>>)>>], [by |-> "dict", keys |-> << <<"k", Big>> >>],
         [by |-> "dict", keys |-> << <<"k", Call("mul", <<Col.a, Lit(2)>>)>>, <<"x", Col.x>> >>],
         [by |-> "names", keys |-> <<"w">>]>>
Projections == << <<>>, << <<"a", Col.a>>, <<"b", Col.b>>, <<"s", Sum2>> >>, << <<"n", Call("near", <<Col.b, Col.a>>)>>, <<"a", Col.a>> >> >>
Aggs == << <<>>, << <<"s", Call("sum", <<Sum2>>)>> >>, << <<"m", Call("max", <<Col.b>>)>>, <<"c", Call("count", <<Col.x>>)>> >>,
           << <<"l", Col.b>> >>, << <<"l", Sum2>>, <<"f", Call("first", <<Col.a>>)>> >> >>
Sorts == << <<>>, << <<"a", FALSE>> >>, << <<"a", TRUE>>, <<"b", FALSE>> >>, << <<"k", TRUE>> >>, << <<"a", TRUE>> >>,
            << <<"a", TRUE>>, <<"x", FALSE>> >>, << <<"k", FALSE>>, <<"x", TRUE>> >> >>
Takes == << <<>>, <<2>>, <<-2>>, <<1, 2>>, <<-3, 2>> >>

SelectOf(j) ==
  [where |-> Wheres[j.where], by |-> Bys[j.by].by, keys |-> Bys[j.by].keys,
   outputs |-> IF j.by = 1 THEN Projections[j.out] ELSE Aggs[j.out], sort |-> Sorts[j.sort], take |-> Takes[j.take]]

TermJobs == [kind : {"term"}, t : {"plain", "parted"}, term : DOMAIN Terms]
AllSelectJobs ==
  {j \in [kind : {"select"}, t : {"plain", "parted", "texts"}, where : DOMAIN Wheres, by : DOMAIN Bys,
          out : 1 .. 5, sort : DOMAIN Sorts, take : DOMAIN Takes] :
     /\ j.by = 1 => j.out \in DOMAIN Projections /\ j.sort \in {1, 2, 3} /\ (j.sort = 3 => j.out # 3)
     /\ j.by = 2 => j.sort \in {1, 2, 5}
     /\ j.by = 3 => j.sort \in {1, 6}
     /\ j.by = 4 => j.sort = 1 /\ j.out \in {2, 3}
     /\ j.by = 5 => j.sort \in {1, 4}
     /\ j.by = 6 => j.sort \in {1, 7}
     /\ j.by \in {3, 6} => j.out \in {2, 3}
     /\ j.by = 7 => j.sort = 1
     /\ (j.by = 7) = (j.t = "texts")
     /\ (j.t = "texts" => j.where # 4 /\ j.out # 3)
     /\ j.by # 1 /\ j.sort = 1 => j.take = 1
     /\ j.t = "parted" /\ j.where = 1 => j.out \notin {4, 5}}
(* A take of a filter alone, with no sort between them, is left out: of a  *)
(* projection it fails, from the end it fails, of nulls it loses them.     *)
SelectJobs ==
  {j \in AllSelectJobs :
     j.by = 1 /\ j.where # 1 /\ j.sort = 1 /\ j.take \in {2, 3} =>
       j.out = 1 /\ j.take = 2 /\ (j.t = "parted" \/ j.where # 4)}
=============================================================================
