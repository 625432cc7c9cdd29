----------------------------- MODULE Optimizer -----------------------------
(***************************************************************************)
(* The query graph and its optimizer (graph.c, opt.c).  A query is a graph *)
(* of nodes in the order they were made:                                   *)
(*   op, type    what the node does and gives                              *)
(*   args        its inputs, at most two                                   *)
(*   hidden      the operands kept beside the node: the columns of a       *)
(*               select, the keys of a sort or a group, a third operand    *)
(*   col, tid    the column a scan reads, of which table (1 is the base)   *)
(*   v, null     the value of a constant; "set" those of a vector        *)
(*   n           the count of a head or a tail                             *)
(* A query record holds the nodes, the root, the tables, the workers that  *)
(* take the tasks of its reductions ("owner"), the filter that is          *)
(* executed before a grouping ("where", 0 for none), the nodes found dead  *)
(* and the partitions that each scan may skip.                             *)
(***************************************************************************)
EXTENDS Reduction

CONSTANTS
  PushRounds,    \* rounds of the predicate pushdown, 4
  SplitRounds    \* rounds of the split of conjunctions, 16

Blank == [op |-> "scan", type |-> "i64", args |-> <<>>, hidden |-> <<>>, col |-> "a", tid |-> 1,
          v |-> 0, null |-> FALSE, set |-> <<>>, n |-> 0]

(* Types of new nodes. *)
Promote(a, b) ==
  LET order == <<"f64", "i64", "i32", "i16", "u8", "bool">>
      i == CHOOSE j \in DOMAIN order : order[j] \in {a, b} /\ \A k \in 1 .. j - 1 : order[k] \notin {a, b}
  IN  order[i]
TypeOf(op, types) ==
  CASE op \in Compare \cup Logic \cup {"not", "isnull", "in", "notin"} -> "bool"
    [] op \in {"div", "sqrt", "avg"} -> "f64"
    [] op = "count" -> "i64"
    [] op \in {"sum", "prod"} -> IF types[1] = "f64" THEN "f64" ELSE "i64"
    [] Len(types) = 2 /\ op \in Arith -> Promote(types[1], types[2])
    [] op = "if" -> Promote(types[2], types[3])
    [] OTHER -> types[1]

Query(nodes, tables, owner) ==
  [nodes |-> nodes, root |-> Len(nodes), where |-> 0, tables |-> tables, owner |-> owner,
   dead |-> {}, mask |-> [id \in {} |-> {}]]

-----------------------------------------------------------------------------
(* Reachability. *)
Operands(node) == node.args \o node.hidden

RECURSIVE Reached(_, _, _)
Reached(nodes, todo, seen) ==
  IF todo = {} THEN seen
  ELSE LET id == CHOOSE i \in todo : TRUE
           next == ToSet(Operands(nodes[id])) \ (seen \cup {id})
       IN  Reached(nodes, (todo \ {id}) \cup next, seen \cup {id})
ReachableFrom(nodes, id) == Reached(nodes, {id}, {})

(* Children before parents, each node once. *)
RECURSIVE PostOrder(_, _, _)
PostOrder(nodes, id, done) ==
  IF \E i \in DOMAIN done : done[i] = id THEN done
  ELSE Append(FoldLeft(LAMBDA acc, a : PostOrder(nodes, a, acc), done, Operands(nodes[id])), id)

-----------------------------------------------------------------------------
(* Constant folding: atoms that are not null, an operator at a time.  The  *)
(* quotient and the remainder are those of C, a zero divisor gives 0 or,   *)
(* for doubles, NaN.                                                       *)
IsConst(nodes, id) == nodes[id].op = "const" /\ ~nodes[id].null

AsDouble(c) == IF c.type = "f64" THEN c.v ELSE ToDouble(c.v)
AsInt(type, c) == IF c.type = "f64" THEN ToInt(type, c.v) ELSE c.v

FoldedInt(op, type, a, b) ==
  IF op \in {"div", "mod"} /\ (b = 0 \/ (a = Low(type) /\ b = -1)) THEN 0
  ELSE IF op = "div" THEN Truncate(a, b)
  ELSE IF op = "mod" THEN a - b * Truncate(a, b)
  ELSE IntArith(op, type, a, b)

(* The value of the folded node, or NoPlan. *)
FoldUnary(node, c) ==
  CASE node.op \in {"neg", "abs"} /\ c.type = "f64" -> [type |-> "f64", v |-> Negated(node.op, c.v)]
    [] node.op \in {"neg", "abs"} /\ c.v # Low("i64") -> [type |-> "i64", v |-> Negated(node.op, c.v)]
    [] node.op = "not" -> [type |-> "bool", v |-> Bit(c.v = 0)]
    [] node.op = "sqrt" -> [type |-> "f64", v |-> Rounded("sqrt", AsDouble(c))]
    [] node.op \in {"ceil", "floor"} ->
         IF c.type = "f64" THEN [type |-> "f64", v |-> Rounded(node.op, c.v)] ELSE [type |-> "i64", v |-> c.v]
    [] OTHER -> NoPlan

FoldedDouble(op, a, b) ==
  IF op = "mod" /\ b # 0 /\ NaN \notin {a, b} THEN a - b * Truncate(a, b) ELSE DoubleArith(op, a, b)
FoldBinary(node, l, r) ==
  CASE node.type = "f64" /\ node.op \in Arith ->
         [type |-> "f64", v |-> FoldedDouble(node.op, AsDouble(l), AsDouble(r))]
    [] node.type \in {"i64", "i32"} /\ node.op \in Arith ->
         [type |-> node.type, v |-> FoldedInt(node.op, node.type, AsInt(node.type, l), AsInt(node.type, r))]
    [] node.type = "bool" /\ node.op \in Compare ->
         [type |-> "bool", v |-> IF NaN \in {l.v, r.v} THEN Bit(node.op = "ne")
                                 ELSE Bit(Holds(node.op, AsDouble(l), AsDouble(r)))]
    [] node.type = "bool" /\ node.op = "and" -> [type |-> "bool", v |-> Bit(l.v # 0 /\ r.v # 0)]
    [] node.type = "bool" /\ node.op = "or" -> [type |-> "bool", v |-> Bit(l.v # 0 \/ r.v # 0)]
    [] OTHER -> NoPlan

(* A reduction over "til n", in closed form. *)
FoldTil(op, n) ==
  CASE n <= 0 -> NoPlan
    [] op = "sum" -> [type |-> "i64", v |-> Wrap("i64", n * (n - 1)) \div 2]
    [] op \in {"min", "first"} -> [type |-> "i64", v |-> 0]
    [] op \in {"max", "last"} -> [type |-> "i64", v |-> n - 1]
    [] op = "count" -> [type |-> "i64", v |-> n]
    [] op = "avg" -> [type |-> "f64", v |-> ToDouble(n - 1) \div 2]
    [] OTHER -> NoPlan

(* A filter by a constant passes everything on, or becomes "head 0". *)
FoldFilter(node, pred) ==
  IF pred.v # 0 THEN [node EXCEPT !.op = "materialize", !.args = <<node.args[1]>>]
  ELSE [node EXCEPT !.op = "head", !.args = <<node.args[1]>>, !.n = 0]

ConstValue(nodes, node) ==
  LET Arg(i) == nodes[node.args[i]]
      const == \A i \in DOMAIN node.args : IsConst(nodes, node.args[i])
  IN  CASE Len(node.args) = 1 /\ node.op \in Unary \ {"isnull", "cast"} /\ const -> FoldUnary(node, Arg(1))
        [] Len(node.args) = 2 /\ node.op \in Arith \cup Compare \cup Logic /\ const -> FoldBinary(node, Arg(1), Arg(2))
        [] Len(node.args) = 1 /\ Arg(1).op = "til" -> FoldTil(node.op, Arg(1).n)
        [] OTHER -> NoPlan
FoldNode(nodes, id) ==
  LET node == nodes[id]
      With(k) ==
        IF k # NoPlan
        THEN [nodes EXCEPT ![id] = [node EXCEPT !.op = "const", !.args = <<>>, !.type = k.type,
                                                !.v = k.v, !.null = FALSE]]
        ELSE IF node.op = "filter" /\ IsConst(nodes, node.args[2])
        THEN [nodes EXCEPT ![id] = FoldFilter(node, nodes[node.args[2]])] ELSE nodes
  IN  With(ConstValue(nodes, node))

ConstantFold(q) ==
  [q EXCEPT !.nodes = FoldLeft(FoldNode, @, PostOrder(q.nodes, q.root, <<>>))]

-----------------------------------------------------------------------------
(* Consumers through the inputs proper; hidden operands are not counted.   *)
Consumers(q, id) ==
  {c \in DOMAIN q.nodes \ q.dead : \E i \in DOMAIN q.nodes[c].args : q.nodes[c].args[i] = id}

Redirect(q, old, new, skip) ==
  [q EXCEPT !.nodes = [c \in DOMAIN q.nodes |->
     IF c \in q.dead \cup skip THEN q.nodes[c]
     ELSE [q.nodes[c] EXCEPT !.args = [i \in DOMAIN @ |-> IF @[i] = old THEN new ELSE @[i]]]]]

PredScans(nodes, pred) == {id \in ReachableFrom(nodes, pred) : nodes[id].op = "scan"}

(* A filter moves below a projection that nobody else reads, and below an  *)
(* expansion when its columns come from the source of the expansion.       *)
MaySink(q, id) ==
  LET node == q.nodes[id]
      child == q.nodes[node.args[1]]
      scans == PredScans(q.nodes, node.args[2])
  IN  /\ node.op = "filter" /\ id \notin q.dead
      /\ child.op \in {"select", "alias", "expand"}
      /\ Cardinality(Consumers(q, node.args[1])) <= 1
      /\ child.op = "expand" => scans # {} /\ scans \subseteq ReachableFrom(q.nodes, child.args[1])

Sink(q, id) ==
  LET child == q.nodes[id].args[1]
      swapped == [q EXCEPT !.nodes[id].args[1] = q.nodes[child].args[1], !.nodes[child].args[1] = id]
      redirected == Redirect(swapped, id, child, {child, id})
  IN  IF q.root = id THEN [redirected EXCEPT !.root = child] ELSE redirected

RECURSIVE Pushdown(_, _)
Pushdown(q, rounds) ==
  LET Again(next) == IF next = q THEN q ELSE Pushdown(next, rounds - 1)
  IN  IF rounds = 0 THEN q
      ELSE Again(FoldLeft(LAMBDA acc, id : IF acc.nodes[id].op = "filter" /\ MaySink(acc, id) THEN Sink(acc, id)
                                           ELSE acc,
                          q, Upto(Len(q.nodes))))

-----------------------------------------------------------------------------
(* A conjunction becomes two filters: the old node keeps the left side,    *)
(* a new one above it gets the right side and the consumers.               *)
Splittable(q, id) ==
  q.nodes[id].op = "filter" /\ id \notin q.dead /\ q.nodes[q.nodes[id].args[2]].op = "and"

SplitAnd(q, id) ==
  LET pred == q.nodes[q.nodes[id].args[2]]
      outer == Len(q.nodes) + 1
      made == [q EXCEPT !.nodes = Append([@ EXCEPT ![id].args[2] = pred.args[1]],
                                         [Blank EXCEPT !.op = "filter", !.type = q.nodes[id].type,
                                                       !.args = <<id, pred.args[2]>>])]
      redirected == Redirect(made, id, outer, {outer, id})
  IN  IF q.root = id THEN [redirected EXCEPT !.root = outer] ELSE redirected

RECURSIVE SplitAll(_, _)
SplitAll(q, rounds) ==
  LET Again(next) == IF next = q THEN q ELSE SplitAll(next, rounds - 1)
  IN  IF rounds = 0 THEN q
      ELSE Again(FoldLeft(LAMBDA acc, id : IF Splittable(acc, id) THEN SplitAnd(acc, id) ELSE acc,
                          q, Upto(Len(q.nodes))))

FilterCost(nodes, id) ==
  LET pred == nodes[id]
      type == IF pred.args = <<>> THEN pred.type ELSE nodes[pred.args[1]].type
      const == \E i \in DOMAIN pred.args : nodes[pred.args[i]].op \in {"const", "set"}
  IN  (IF const THEN 0 ELSE 4)
      + (CASE type \in {"bool", "u8"} -> 0 [] type = "i16" -> 1 [] type = "i32" -> 2 [] OTHER -> 3)
      + (IF pred.op \in {"eq", "ne"} THEN 0 ELSE IF pred.op \in Compare THEN 2 ELSE 1)

RECURSIVE FilterChain(_, _)
FilterChain(nodes, id) ==
  IF nodes[id].op # "filter" THEN <<>> ELSE <<id>> \o FilterChain(nodes, nodes[id].args[1])

(* The dearest predicate goes to the top of the chain, equal ones keep     *)
(* their order; the predicates move, not the filters.                      *)
PlaceByCost(s, pred, costs) ==
  LET k == Cardinality({i \in DOMAIN s : costs[s[i]] >= costs[pred]})
  IN  InsertAt(s, k + 1, pred)
ReorderChain(q, id) ==
  LET chain == FilterChain(q.nodes, id)
      costs == [p \in {q.nodes[f].args[2] : f \in ToSet(chain)} |-> FilterCost(q.nodes, p)]
      Moved(order) == [q EXCEPT !.nodes = [f \in DOMAIN @ |->
                         IF f \in ToSet(chain) THEN [@[f] EXCEPT !.args[2] = order[CHOOSE i \in DOMAIN chain : chain[i] = f]]
                         ELSE @[f]]]
  IN  IF Len(chain) < 2 \/ \E i \in DOMAIN chain : Cardinality(Consumers(q, chain[i])) > 1 THEN q
      ELSE Moved(FoldLeft(LAMBDA s, f : PlaceByCost(s, q.nodes[f].args[2], costs), <<>>, chain))

(* A chain is reordered from its first filter that was not seen in an      *)
(* earlier chain.                                                          *)
ReorderAll(q) ==
  FoldLeft(LAMBDA acc, id :
             IF id \in q.dead \cup acc.seen \/ q.nodes[id].op # "filter" THEN acc
             ELSE [q |-> ReorderChain(acc.q, id), seen |-> acc.seen \cup ToSet(FilterChain(q.nodes, id))],
           [q |-> q, seen |-> {}], Upto(Len(q.nodes))).q
ReorderFilters(q) == ReorderAll(SplitAll(q, SplitRounds))

-----------------------------------------------------------------------------
(* Projection: what the root does not reach is dead. *)
MarkDead(q) == [q EXCEPT !.dead = @ \cup (DOMAIN q.nodes \ ReachableFrom(q.nodes, q.root))]

(* Partition pruning: a filter that compares the column of keys with a     *)
(* constant decides which partitions the scans of the same table read.     *)
Unmirrored(op) == op     \* faulty variant: "2 < key" is read as "key < 2"
Mirror(op) == CASE op = "lt" -> "gt" [] op = "gt" -> "lt" [] op = "le" -> "ge" [] op = "ge" -> "le" [] OTHER -> op

KeysOf(col) == [s \in DOMAIN col.segs |-> col.segs[s].key]

(* The partitions whose key passes. *)
Partitions(q, pred) ==
  LET node == q.nodes[pred]
      left == q.nodes[node.args[1]]
      right == q.nodes[node.args[2]]
      scan == IF left.op = "scan" THEN left ELSE right
      const == IF left.op = "scan" THEN right ELSE left
      op == IF left.op = "scan" THEN node.op ELSE Mirror(node.op)
      keys == KeysOf(q.tables[scan.tid][scan.col])
  IN  [tid |-> scan.tid, of |-> DOMAIN keys,
       keep |-> IF op \in {"in", "notin"}
                THEN {p \in DOMAIN keys : (keys[p] \in {const.set[i].v : i \in {j \in DOMAIN const.set : ~const.set[j].null}})
                                            <=> op = "in"}
                ELSE {p \in DOMAIN keys : Holds(op, keys[p], const.v)}]

Prunable(q, id) ==
  LET node == q.nodes[id]
      pred == q.nodes[node.args[2]]
      Side(i, j) ==
        LET scan == q.nodes[pred.args[i]]
            const == q.nodes[pred.args[j]]
        IN  /\ scan.op = "scan" /\ scan.type = "common"
            /\ const.op = (IF pred.op \in {"in", "notin"} THEN "set" ELSE "const")
            /\ const.type \in {"i64", "i32"}
  IN  /\ id \notin q.dead /\ node.op = "filter" /\ Len(pred.args) = 2
      /\ \/ pred.op \in Compare \cup {"in", "notin"} /\ Side(1, 2)
         \/ pred.op \in Compare /\ Side(2, 1)

(* Every scan of a parted column of that table gets the mask, together     *)
(* with the one it has.                                                    *)
Prune(q, id) ==
  LET Scans(tid) == {s \in DOMAIN q.nodes \ q.dead :
                       /\ q.nodes[s].op = "scan" /\ q.nodes[s].tid = tid
                       /\ q.nodes[s].col \in DOMAIN q.tables[tid]
                       /\ q.tables[tid][q.nodes[s].col].kind = "parted"}
      Mask(found, s) ==
        [of |-> found.of, keep |-> found.keep \cap (IF s \in DOMAIN q.mask THEN q.mask[s].keep ELSE found.of)]
      Masked(found) == [q EXCEPT !.mask = [s \in Scans(found.tid) |-> Mask(found, s)] @@ @]
  IN  Masked(Partitions(q, q.nodes[id].args[2]))

PrunePartitions(q) ==
  FoldLeft(LAMBDA acc, id : IF acc.nodes[id].op = "filter" /\ Prunable(acc, id) THEN Prune(acc, id) ELSE acc,
           q, Upto(Len(q.nodes)))

-----------------------------------------------------------------------------
(* The passes that change what is executed, in their order, and the        *)
(* elimination of dead nodes.  Four others are left out.  Type inference   *)
(* gives a type to nodes that have none; nodes are made with their type    *)
(* here.  SIP and the detection of factorized groups only mark expansions  *)
(* of a graph.  Fusion only sets a flag, which nothing but the dump reads. *)
Optimize(q) == MarkDead(PrunePartitions(MarkDead(ReorderFilters(Pushdown(ConstantFold(q), PushRounds)))))
=============================================================================
