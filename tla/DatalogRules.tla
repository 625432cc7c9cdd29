---------------------------- MODULE DatalogRules ----------------------------
(***************************************************************************)
(* Rules of the Datalog engine (ops/datalog.c): how a rule is read from    *)
(* its clauses, how predicates are put into strata, and what one rule      *)
(* derives from given tables.                                              *)
(*                                                                         *)
(* A clause names its variables; a literal of a rule has their numbers,    *)
(* the order in which they are first met.  A table is a set of tuples (the *)
(* code removes duplicates before anything depends on them).  An           *)
(* expression is in postfix order.                                         *)
(***************************************************************************)
EXTENDS Integers, Sequences, FiniteSets, SequencesExt

-----------------------------------------------------------------------------
(* Terms and clauses as they are written. *)
Named(x) == [var |-> x, n |-> 0]
Constant(c) == [var |-> "", n |-> c]
Anything == Named("_")
Clause(kind, pred, args, exprs) == [kind |-> kind, pred |-> pred, args |-> args, exprs |-> exprs]
AtomOf(pred, args) == Clause("atom", pred, args, <<>>)
NotOf(pred, args) == Clause("not", pred, args, <<>>)
SetTo(x, e) == Clause("set", "", <<x>>, <<e>>)
Test(op, l, r) == Clause("test", op, <<>>, <<l, r>>)
Builtin(name, args) == Clause("builtin", name, args, <<>>)
Operand(t) == <<[op |-> "", term |-> t]>>
Binary(op, l, r) == l \o r \o <<[op |-> op, term |-> Constant(0)]>>
RuleOf(pred, args, body) == [pred |-> pred, args |-> args, body |-> body]

(* The number of a variable is its place in "names"; each wildcard is a    *)
(* variable of its own (dl_var_get_or_create, dl_set_body_pos).            *)
Learnt(names, t) ==
  IF t.var = "" \/ (t.var # "_" /\ t.var \in ToSet(names)) THEN names ELSE Append(names, t.var)
Numbered(names, t) ==
  [v |-> IF t.var = "" THEN 0 ELSE IF t.var = "_" THEN Len(names) ELSE SelectInSeq(names, LAMBDA x : x = t.var),
   n |-> t.n]
Read(names, terms) ==
  FoldLeft(LAMBDA acc, t : LET learnt == Learnt(acc.names, t)
                           IN  [names |-> learnt, args |-> Append(acc.args, Numbered(learnt, t))],
           [names |-> names, args |-> <<>>], terms)
ReadExpr(names, e) ==
  LET read == Read(names, [i \in DOMAIN e |-> e[i].term])
  IN  [names |-> read.names,
       expr |-> [i \in DOMAIN e |-> [op |-> e[i].op, v |-> read.args[i].v, n |-> read.args[i].n]]]

(* A constant before a variable changes sides with it. *)
IsConstant(e) == Len(e) = 1 /\ e[1].term.var = ""
IsVariable(e) == Len(e) = 1 /\ e[1].term.var # ""
Flipped(op) ==
  CASE op = "<" -> ">" [] op = "<=" -> ">=" [] op = ">" -> "<" [] op = ">=" -> "<=" [] OTHER -> op
Sides(c) ==
  IF IsConstant(c.exprs[1]) /\ IsVariable(c.exprs[2])
  THEN [op |-> Flipped(c.pred), l |-> c.exprs[2], r |-> c.exprs[1]]
  ELSE [op |-> c.pred, l |-> c.exprs[1], r |-> c.exprs[2]]

(* The arguments are read first, then the left and the right expression.   *)
ReadRight(kind, sides, args, left, right) ==
  [names |-> right.names,
   lit |-> [kind |-> kind, pred |-> sides.op, args |-> args, l |-> left, r |-> right.expr]]
ReadLeft(kind, sides, args, left) == ReadRight(kind, sides, args, left.expr, ReadExpr(left.names, sides.r))
ReadArgs(kind, sides, read) == ReadLeft(kind, sides, read.args, ReadExpr(read.names, sides.l))
ReadClause(names, c) ==
  LET sides == IF c.kind = "test" THEN Sides(c)
               ELSE [op |-> c.pred, l |-> IF c.kind = "set" THEN c.exprs[1] ELSE <<>>, r |-> <<>>]
  IN  ReadArgs(c.kind, sides, Read(names, c.args))

(* dl_parse_rule_from_head_and_body: the variables of the head come first. *)
NamesRead(names, clauses) ==
  FoldLeft(LAMBDA known, c : ReadClause(known, c).names, names, clauses)
ReadBody(names, clauses) ==
  [names |-> NamesRead(names, clauses),
   lits |-> [k \in DOMAIN clauses |-> ReadClause(NamesRead(names, SubSeq(clauses, 1, k - 1)), clauses[k]).lit]]
WithBody(rule, head, body) ==
  [pred |-> rule.pred, args |-> head.args, body |-> body.lits, vars |-> Len(body.names)]
WithHead(rule, head) == WithBody(rule, head, ReadBody(head.names, rule.body))
ReadRule(rule) == WithHead(rule, Read(<<>>, rule.args))

-----------------------------------------------------------------------------
(* Strata (dl_stratify): predicates are lifted pair by pair until nothing  *)
(* changes; if something still does after as many passes as there are      *)
(* predicates, a predicate depends on its own negation.                    *)
Depends(rules, p, q) ==
  LET On(kind) == \E r \in ToSet(rules) :
                    r.pred = p /\ \E b \in ToSet(r.body) : b.kind = kind /\ b.pred = q
  IN  IF On("not") THEN 2 ELSE IF On("atom") THEN 1 ELSE 0

LiftByDependency(rules, levels, p, q) ==
  IF Depends(rules, p, q) # 0 /\ levels[p] < levels[q] THEN [levels EXCEPT ![p] = levels[q]] ELSE levels
Lift(rules, levels, p, q) ==
  CASE Depends(rules, p, q) = 2 /\ levels[p] <= levels[q] -> [levels EXCEPT ![p] = levels[q] + 1]
    [] Depends(rules, p, q) = 1 /\ levels[p] < levels[q] -> [levels EXCEPT ![p] = levels[q]]
    [] OTHER -> levels
HeadAt(rels, i) == rels[((i - 1) \div Len(rels)) + 1]
BodyAt(rels, i) == rels[((i - 1) % Len(rels)) + 1]
Lifts(rules, rels, levels) ==
  LET after[i \in 0 .. Len(rels) * Len(rels)] ==
        IF i = 0 THEN levels ELSE Lift(rules, after[i - 1], HeadAt(rels, i), BodyAt(rels, i))
  IN  after
PassOver(rules, rels, levels) == Lifts(rules, rels, levels)[Len(rels) * Len(rels)]
Unstratified == [p \in {} |-> 0]
LevelsAfter(rules, rels) ==
  LET levels[k \in 0 .. Len(rels) + 1] ==
        IF k = 0 THEN [p \in ToSet(rels) |-> 0] ELSE PassOver(rules, rels, levels[k - 1])
  IN  levels
Stable(levels, n) == IF levels[n + 1] # levels[n] THEN Unstratified ELSE levels[n]
Stratified(rules, rels) == Stable(LevelsAfter(rules, rels), Len(rels))

-----------------------------------------------------------------------------
(* A rule over tables (dl_compile_rule).  The accumulator has rows, their  *)
(* width, and for each variable its column, 0 while it is not bound.       *)
Compared(op, a, b) ==
  CASE op = "==" -> a = b [] op = "!=" -> a # b [] op = "<" -> a < b
    [] op = "<=" -> a <= b [] op = ">" -> a > b [] OTHER -> a >= b
Quotient(a, b) ==
  IF b = 0 THEN 0
  ELSE LET q == (IF a < 0 THEN -a ELSE a) \div (IF b < 0 THEN -b ELSE b)
       IN  IF (a < 0) # (b < 0) THEN -q ELSE q
Applied(op, a, b) ==
  CASE op = "+" -> a + b [] op = "-" -> a - b [] op = "*" -> a * b [] OTHER -> Quotient(a, b)
ValueIn(col, e, row) ==
  LET Step(stack, t) ==
        LET n == Len(stack)
        IN  IF t.op # "" THEN Append(SubSeq(stack, 1, n - 2), Applied(t.op, stack[n - 1], stack[n]))
            ELSE Append(stack, IF t.v = 0 THEN t.n ELSE row[col[t.v]])
  IN  FoldLeft(Step, <<>>, e)[1]
HasValue(col, e) == \A i \in DOMAIN e : e[i].v = 0 \/ col[e[i].v] # 0

(* The rows of a relation with the constants of a literal. *)
Matching(tables, lit) == {t \in tables[lit.pred] : \A c \in DOMAIN lit.args : lit.args[c].v = 0 => t[c] = lit.args[c].n}
(* The positions whose variable is bound already are the keys of the join. *)
KeyPositions(col, args) == {c \in DOMAIN args : args[c].v # 0 /\ col[args[c].v] # 0}
Agrees(col, args, row, t) == \A c \in KeyPositions(col, args) : row[col[args[c].v]] = t[c]

(* The join keeps the columns of the left side and those of the right side *)
(* that are not keys.                                                      *)
KeptPositions(col, args) ==
  SelectSeq([c \in DOMAIN args |-> c], LAMBDA c : c \notin KeyPositions(col, args))
Paired(row, t, kept) == row \o [i \in DOMAIN kept |-> t[kept[i]]]
ColumnsAfter(acc, args, kept) ==
  LET First(v) == SelectInSeq(kept, LAMBDA c : args[c].v = v)
  IN  [v \in DOMAIN acc.col |-> IF acc.col[v] = 0 /\ First(v) # 0 THEN acc.width + First(v) ELSE acc.col[v]]
JoinAtom(tables, acc, lit) ==
  LET kept == KeptPositions(acc.col, lit.args)
      matched == {p \in acc.rows \X Matching(tables, lit) : Agrees(acc.col, lit.args, p[1], p[2])}
  IN  [rows |-> {Paired(p[1], p[2], kept) : p \in matched},
       width |-> acc.width + Len(kept),
       col |-> ColumnsAfter(acc, lit.args, kept)]

(* A negated literal without a bound variable removes nothing. *)
AntiJoinAtom(tables, acc, lit) ==
  IF KeyPositions(acc.col, lit.args) = {} THEN acc
  ELSE [acc EXCEPT !.rows = {r \in @ : ~\E t \in Matching(tables, lit) : Agrees(acc.col, lit.args, r, t)}]

WithColumn(acc, v, value) ==
  [rows |-> {Append(r, value[r]) : r \in acc.rows}, width |-> acc.width + 1,
   col |-> [acc.col EXCEPT ![v] = acc.width + 1]]
Assigned(acc, lit) ==
  IF HasValue(acc.col, lit.l) THEN WithColumn(acc, lit.args[1].v, [r \in acc.rows |-> ValueIn(acc.col, lit.l, r)])
  ELSE acc
Tested(acc, lit) ==
  IF ~HasValue(acc.col, lit.l) \/ ~HasValue(acc.col, lit.r) THEN acc
  ELSE [acc EXCEPT !.rows = {r \in @ : Compared(lit.pred, ValueIn(acc.col, lit.l, r), ValueIn(acc.col, lit.r, r))}]
(* An interval is the column of its fact and the one after it. *)
BuiltIn(acc, lit) ==
  LET Col(i) == acc.col[lit.args[i].v]
  IN  CASE lit.pred = "before" -> [acc EXCEPT !.rows = {r \in @ : r[Col(3)] < r[Col(1)]}]
        [] lit.pred = "duration_since" -> WithColumn(acc, lit.args[3].v, [r \in acc.rows |-> r[Col(2)] - r[Col(1)]])
        [] lit.pred = "abs" -> WithColumn(acc, lit.args[2].v, [r \in acc.rows |-> IF r[Col(1)] < 0 THEN -r[Col(1)] ELSE r[Col(1)]])
        [] OTHER -> [acc EXCEPT !.col[lit.args[2].v] = Col(1), !.col[lit.args[3].v] = Col(1) + 1]

Filtered(tables, acc, lit) ==
  CASE lit.kind = "not" -> AntiJoinAtom(tables, acc, lit)
    [] lit.kind = "set" -> Assigned(acc, lit)
    [] lit.kind = "test" -> Tested(acc, lit)
    [] OTHER -> BuiltIn(acc, lit)

(* Two passes over the body: all atoms are joined first, then the other    *)
(* literals follow in the order of the rule.  A rule without an atom, or   *)
(* with a predicate that nothing defines, derives nothing; constants of    *)
(* the head have no column.                                                *)
AtomKinds == {"atom"}
OtherKinds == {"not", "set", "test", "builtin"}
IsAtom(lit) == lit.kind \in AtomKinds
Literal(tables, acc, lit) == IF IsAtom(lit) THEN JoinAtom(tables, acc, lit) ELSE Filtered(tables, acc, lit)
BodyPass(tables, body, kinds, start) ==
  LET after[k \in 0 .. Len(body)] ==
        IF k = 0 THEN start
        ELSE IF body[k].kind \in kinds THEN Literal(tables, after[k - 1], body[k])
        ELSE after[k - 1]
  IN  after
NoRow(vars) == [rows |-> {<<>>}, width |-> 0, col |-> [v \in 1 .. vars |-> 0]]
AtomRows(tables, rule) == BodyPass(tables, rule.body, AtomKinds, NoRow(rule.vars))[Len(rule.body)]
Narrowed(tables, rule) == BodyPass(tables, rule.body, OtherKinds, AtomRows(tables, rule))[Len(rule.body)]
HeadTuple(args, col, row) ==
  LET shown == SelectSeq(args, LAMBDA a : a.v # 0 /\ col[a.v] # 0)
  IN  [i \in DOMAIN shown |-> row[col[shown[i].v]]]
HeadTuples(args, acc) == {HeadTuple(args, acc.col, r) : r \in acc.rows}
Derived(tables, rule) ==
  LET unknown == \E b \in ToSet(rule.body) : b.kind \in {"atom", "not"} /\ b.pred \notin DOMAIN tables
  IN  IF unknown \/ ~\E b \in ToSet(rule.body) : IsAtom(b) THEN {}
      ELSE HeadTuples(rule.args, Narrowed(tables, rule))

-----------------------------------------------------------------------------
(* Provenance (dl_build_provenance): the first rule that derives a tuple   *)
(* from the final tables, and the rows of its atoms that fit the variables *)
(* of the head; variables of the body alone fit everything.                *)
FirstOfHead(tables, rules, pred, t) == SelectInSeq(rules, LAMBDA r : r.pred = pred)
AttributedTo(tables, rules, pred, t) ==
  SelectInSeq(rules, LAMBDA r : r.pred = pred /\ t \in Derived(tables, r))
HeadValue(rule, t, v) == t[SelectInSeq(rule.args, LAMBDA a : a.v = v)]
InHead(rule, v) == \E a \in ToSet(rule.args) : a.v = v
SourcesOf(tables, rule, t) ==
  LET Fits(lit, row) ==
        \A c \in DOMAIN lit.args :
           LET a == lit.args[c]
           IN  IF a.v = 0 THEN row[c] = a.n
               ELSE InHead(rule, a.v) => row[c] = HeadValue(rule, t, a.v)
  IN  UNION {{<<lit.pred, row>> : row \in {r \in tables[lit.pred] : Fits(lit, r)}}
             : lit \in {b \in ToSet(rule.body) : b.kind = "atom"}}
=============================================================================
