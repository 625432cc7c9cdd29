--------------------------- MODULE DatalogMeaning ---------------------------
(***************************************************************************)
(* What a Datalog program means, the programs the runs ask, and what the   *)
(* evaluation of Datalog must keep.                                        *)
(***************************************************************************)
EXTENDS Datalog

-----------------------------------------------------------------------------
(* The meaning.  A solution of a body takes a tuple for each of its atoms, *)
(* gives every variable one value, and passes the other literals.          *)
Atoms(rule) == SelectSeq(rule.body, LAMBDA b : b.kind = "atom")
FitsTerm(s, t, value) ==
  \/ t.var = "_"
  \/ t.var = "" /\ t.n = value
  \/ t.var \notin {"", "_"} /\ s[t.var] = value
FitsTuple(s, b, tuple) == \A c \in DOMAIN b.args : FitsTerm(s, b.args[c], tuple[c])

Bind(s, x, value) == [y \in DOMAIN s \cup {x} |-> IF y = x THEN value ELSE s[y]]
TermValue(s, t) == IF t.var = "" THEN t.n ELSE s[t.var]
RECURSIVE ExprValue(_, _)
ExprValue(s, e) ==
  LET n == Len(e)
      \* the right operand is the shortest suffix that is a whole expression
      Weight(i) == Len(SelectSeq(SubSeq(e, i, n - 1), LAMBDA t : t.op = ""))
                     - Len(SelectSeq(SubSeq(e, i, n - 1), LAMBDA t : t.op # ""))
      split == CHOOSE i \in 2 .. n - 1 : Weight(i) = 1 /\ \A j \in i + 1 .. n - 1 : Weight(j) # 1
  IN  IF e[n].op = "" THEN TermValue(s, e[n].term)
      ELSE Applied(e[n].op, ExprValue(s, SubSeq(e, 1, split - 1)), ExprValue(s, SubSeq(e, split, n - 1)))

(* The variables that literals beside the atoms give a value. *)
Extended(s, b) ==
  LET Value(i) == s[b.args[i].var]
  IN  CASE b.kind = "set" -> Bind(s, b.args[1].var, ExprValue(s, b.exprs[1]))
        [] b.kind = "builtin" /\ b.pred = "duration_since" -> Bind(s, b.args[3].var, Value(2) - Value(1))
        [] b.kind = "builtin" /\ b.pred = "abs" -> Bind(s, b.args[2].var, IF Value(1) < 0 THEN -Value(1) ELSE Value(1))
        [] OTHER -> s
Passes(T, s, b) ==
  CASE b.kind = "not" -> ~\E t \in T[b.pred] : FitsTuple(s, b, t)
    [] b.kind = "test" -> Compared(b.pred, ExprValue(s, b.exprs[1]), ExprValue(s, b.exprs[2]))
    [] b.kind = "builtin" /\ b.pred = "before" -> s[b.args[3].var] < s[b.args[1].var]
    [] OTHER -> TRUE

(* An interval names the value of its fact and the one beside it. *)
Beside(rule, chosen, fact) ==
  LET atoms == Atoms(rule)
      i == SelectInSeq(atoms, LAMBDA b : \E c \in DOMAIN b.args : b.args[c].var = fact)
      c == SelectInSeq(atoms[i].args, LAMBDA t : t.var = fact)
  IN  <<chosen[i][c], chosen[i][c + 1]>>
WithInterval(rule, chosen, s) ==
  FoldLeft(LAMBDA acc, b : IF b.kind # "builtin" \/ b.pred # "interval" THEN acc
                           ELSE Bind(Bind(acc, b.args[2].var, Beside(rule, chosen, b.args[1].var)[1]),
                                     b.args[3].var, Beside(rule, chosen, b.args[1].var)[2]),
           s, rule.body)

Selections(T, atoms) ==
  FoldLeft(LAMBDA acc, b : {Append(c, t) : c \in acc, t \in T[b.pred]}, {<<>>}, atoms)
Assignment(atoms, chosen) ==
  LET Places(x) == {p \in {<<i, c>> : i \in DOMAIN atoms, c \in 1 .. 4} :
                      p[2] \in DOMAIN atoms[p[1]].args /\ atoms[p[1]].args[p[2]].var = x}
      names == {t.var : t \in UNION {ToSet(atoms[i].args) : i \in DOMAIN atoms}} \ {"", "_"}
  IN  [x \in names |-> LET p == CHOOSE q \in Places(x) : TRUE IN chosen[p[1]][p[2]]]
Solutions(T, rule) ==
  LET atoms == Atoms(rule)
      consistent == {c \in Selections(T, atoms) : \A i \in DOMAIN atoms : FitsTuple(Assignment(atoms, c), atoms[i], c[i])}
      Whole(c) == FoldLeft(LAMBDA s, b : Extended(s, b), WithInterval(rule, c, Assignment(atoms, c)), rule.body)
  IN  {x \in {[s |-> Whole(c), chosen |-> c] : c \in consistent} : \A b \in ToSet(rule.body) : Passes(T, x.s, b)}
Concluded(rule, s) == [i \in DOMAIN rule.args |-> TermValue(s, rule.args[i])]
Consequences(T, rule) == {Concluded(rule, x.s) : x \in Solutions(T, rule)}

(* The predicates a predicate rests on, and those it rests on the negation *)
(* of: the second set grows along every dependency, and strictly so along  *)
(* a negation unless there is a cycle through one.                         *)
Program(request) == request.rules \o <<QueryRule(request)>>
RECURSIVE RestsOn(_, _)
RestsOn(rs, ps) ==
  LET more == ps \cup {b.pred : b \in {x \in UNION {ToSet(r.body) : r \in {y \in ToSet(rs) : y.pred \in ps}}
                                         : x.kind \in {"atom", "not"}}}
  IN  IF more = ps THEN ps ELSE RestsOn(rs, more)
Denied(rs, p) ==
  {b.pred : b \in {x \in UNION {ToSet(r.body) : r \in {y \in ToSet(rs) : y.pred \in RestsOn(rs, {p})}} : x.kind = "not"}}
Denies(rs, p, q) == \E r \in ToSet(rs) : r.pred = p /\ \E b \in ToSet(r.body) : b.kind = "not" /\ b.pred = q
NegativeCycle(rs) == \E r \in ToSet(rs) : \E q \in Denied(rs, r.pred) : Denies(rs, r.pred, q) /\ r.pred \in RestsOn(rs, {q})

RECURSIVE Closed(_, _)
Closed(rs, T) ==
  LET more == [p \in DOMAIN T |-> T[p] \cup UNION {Consequences(T, r) : r \in {x \in ToSet(rs) : x.pred = p}}]
  IN  IF more = T THEN T ELSE Closed(rs, more)
LeastModel(rs, facts) ==
  LET preds == {"eav"} \cup {r.pred : r \in ToSet(rs)} \cup {b.pred : b \in {x \in UNION {ToSet(r.body) : r \in ToSet(rs)} : x.kind = "atom"}}
      Height(p) == Cardinality(Denied(rs, p))
      Layer(h) == SelectSeq(rs, LAMBDA r : Height(r.pred) = h)
  IN  FoldLeft(LAMBDA T, h : Closed(Layer(h - 1), T),
               [p \in preds |-> IF p = "eav" THEN facts ELSE {}], [h \in 1 .. Cardinality(preds) + 1 |-> h])

-----------------------------------------------------------------------------
(* The programs.  Attribute 7 is "edge", 8 is "color". *)
X == Named("x")
Y == Named("y")
Z == Named("z")
W == Named("w")
Edge(a, b) == AtomOf("eav", <<a, Constant(7), b>>)
P(a, b) == AtomOf("p", <<a, b>>)
Path == <<RuleOf("p", <<X, Y>>, <<Edge(X, Y)>>), RuleOf("p", <<X, Z>>, <<Edge(X, Y), P(Y, Z)>>)>>
Asks(rs, where) == [rules |-> rs, find |-> <<"x", "y">>, where |-> where, facts |-> <<>>, changing |-> {}]
Plus(l, r) == Binary("+", Operand(l), Operand(r))

NamedRequests == <<
  Asks(Path, <<P(X, Y)>>),
  \* the recursive rule first, the recursive atom first
  Asks(<<RuleOf("p", <<X, Z>>, <<P(X, Y), Edge(Y, Z)>>), RuleOf("p", <<X, Y>>, <<Edge(X, Y)>>)>>, <<P(X, Y)>>),
  \* pairs that are not connected; nodes that nothing leads to
  Asks(Path, <<Edge(X, Anything), Edge(Anything, Y), NotOf("p", <<X, Y>>)>>),
  Asks(Path, <<P(X, Y), NotOf("eav", <<Anything, Constant(7), X>>)>>),
  \* two strata of negation
  Asks(Path \o <<RuleOf("q", <<X, Y>>, <<Edge(X, Anything), Edge(Anything, Y), NotOf("p", <<X, Y>>)>>)>>,
        <<P(X, Y), NotOf("q", <<Y, X>>)>>),
  \* mutual recursion: odd and even lengths
  Asks(<<RuleOf("p", <<X, Y>>, <<Edge(X, Y)>>),
          RuleOf("p", <<X, Z>>, <<AtomOf("q", <<X, Y>>), Edge(Y, Z)>>),
          RuleOf("q", <<X, Z>>, <<P(X, Y), Edge(Y, Z)>>)>>, <<P(X, Y), NotOf("q", <<X, Y>>)>>),
  \* the same generation
  Asks(<<RuleOf("p", <<X, Y>>, <<Edge(Z, X), Edge(Z, Y)>>),
          RuleOf("p", <<X, Y>>, <<Edge(Z, X), P(Z, W), Edge(W, Y)>>)>>, <<P(X, Y), Test("!=", Operand(X), Operand(Y))>>),
  \* lengths of paths, up to 3
  Asks(<<RuleOf("p", <<X, Y>>, <<Edge(Constant(1), X), SetTo(Y, Operand(Constant(1)))>>),
          RuleOf("p", <<X, Y>>, <<P(Z, W), Edge(Z, X), Test("<", Operand(W), Operand(Constant(3))), SetTo(Y, Plus(W, Constant(1)))>>)>>,
        <<P(X, Y)>>),
  \* tests: of an expression, of a constant before a variable, of colors
  Asks(<<>>, <<Edge(X, Y), Test(">=", Plus(X, Y), Binary("*", Operand(Constant(2)), Operand(X)))>>),
  Asks(<<>>, <<Edge(X, Y), Test("<", Operand(Constant(1)), Operand(Y)), NotOf("eav", <<X, Constant(8), Anything>>)>>),
  Asks(<<>>, <<AtomOf("eav", <<X, Constant(8), Z>>), AtomOf("eav", <<Y, Constant(8), Z>>), Edge(X, Y)>>),
  \* intervals, durations and order in time
  Asks(<<>>, <<AtomOf("eav", <<X, Z, Y>>), Builtin("interval", <<X, Named("s"), Named("e")>>),
                Builtin("duration_since", <<Named("e"), Y, Named("d")>>), Test("==", Operand(Named("s")), Operand(X))>>),
  Asks(<<RuleOf("p", <<X, Named("a")>>, <<Edge(X, Y), Builtin("duration_since", <<X, Y, Named("d")>>), Builtin("abs", <<Named("d"), Named("a")>>)>>)>>,
        <<P(X, Y), Edge(X, Z), Builtin("before", <<Z, Z, X>>)>>),
  \* no rule for q; a cross product
  Asks(<<>>, <<Edge(X, Y), AtomOf("q", <<X>>)>>),
  Asks(<<>>, <<AtomOf("eav", <<X, Constant(8), Anything>>), AtomOf("eav", <<Anything, Constant(7), Y>>)>>),
  \* cycles through a negation
  Asks(<<RuleOf("p", <<X, Y>>, <<Edge(X, Y), NotOf("q", <<X, Y>>)>>),
          RuleOf("q", <<X, Y>>, <<Edge(X, Y), P(Y, X)>>)>>, <<P(X, Y)>>),
  Asks(<<RuleOf("p", <<X, Y>>, <<Edge(X, Y), NotOf("p", <<Y, X>>)>>)>>, <<P(X, Y)>>) >>

(* Every program of two predicates whose rules join two of the edges and   *)
(* the predicates, over a path, a circle with a tail and circles that meet.*)
Either(i, a, b) == IF i = 1 THEN Edge(a, b) ELSE AtomOf(IF i = 2 THEN "p" ELSE "q", <<a, b>>)
Joined(i, j, k, l) ==
  Asks(<<RuleOf("p", <<X, Z>>, <<Either(i, X, Y), Either(j, Y, Z)>>),
          RuleOf("p", <<X, Y>>, <<Edge(X, Y)>>),
          RuleOf("q", <<X, Z>>, <<Either(k, X, Y), Either(l, Y, Z)>>)>>,
        <<AtomOf("q", <<X, Y>>)>>)
GraphOf(pairs) == SetToSeq({<<e[1], 7, e[2]>> : e \in pairs})
Graphs3 == <<GraphOf({<<1, 2>>, <<2, 3>>, <<3, 4>>}), GraphOf({<<1, 2>>, <<2, 3>>, <<3, 1>>, <<3, 4>>}),
             GraphOf({<<1, 2>>, <<2, 1>>, <<2, 3>>, <<3, 2>>})>>
EdgeTriples == {<<1, 7, 2>>, <<2, 7, 3>>, <<3, 7, 1>>}
ColorTriples == {<<1, 8, 2>>, <<3, 8, 2>>}
Colored(request) == \E b \in ToSet(request.where) : b.kind \in {"atom", "not"} /\ b.pred = "eav" /\ b.args[2] # Constant(7)

NamedCount == Len(NamedRequests)
JoinedRequest(m) ==
  [Joined((m % 3) + 1, ((m \div 3) % 3) + 1, ((m \div 9) % 3) + 1, ((m \div 27) % 3) + 1)
     EXCEPT !.facts = Graphs3[(m \div 81) + 1]]
AllRequests ==
  [n \in 1 .. NamedCount + 243 |-> 
     IF n <= NamedCount
     THEN [NamedRequests[n] EXCEPT !.changing = EdgeTriples \cup IF Colored(NamedRequests[n]) THEN ColorTriples ELSE {}]
     ELSE JoinedRequest(n - NamedCount - 1)]

-----------------------------------------------------------------------------
Model == LeastModel(Program(Requests[asked]), ToSet(db))
(* The evaluation, stratum by stratum and by differences, ends with the    *)
(* least model of the program over the facts that were asserted and not    *)
(* retracted; a program is refused exactly when it has a cycle through a   *)
(* negation (dl_stratify, dl_eval).                                        *)
AnswersExact ==
  /\ phase = "rejected" => NegativeCycle(Program(Requests[asked]))
  /\ phase = "done" => /\ ~NegativeCycle(Program(Requests[asked]))
                       /\ Linear => \A p \in Predicates : table[p] = Model[p]

(* The provenance of a derived tuple is a rule that has a solution which   *)
(* concludes the tuple, and its sources hold the rows of that solution.    *)
ProvenanceExplains ==
  phase = "done" =>
    \A w \in proof : w.rule # 0 /\ \E x \in Solutions(table, Program(Requests[asked])[w.rule]) :
      /\ Concluded(Program(Requests[asked])[w.rule], x.s) = w.tuple
      /\ \A i \in DOMAIN x.chosen : <<Atoms(Program(Requests[asked])[w.rule])[i].pred, x.chosen[i]>> \in w.sources

=============================================================================
