------------------------------ MODULE Vectors ------------------------------
(***************************************************************************)
(* The operators of expr.c on whole vectors, used where an expression is   *)
(* not compiled: one operator at a time, with the nulls of the operands.   *)
(* A vector is [type, cells, atom]; an atom or a vector of length one is a *)
(* scalar and spreads over the other side.                                 *)
(***************************************************************************)
EXTENDS Expr

Vector(type, cells) == [type |-> type, cells |-> cells, atom |-> FALSE]
Atom(type, cell) == [type |-> type, cells |-> <<cell>>, atom |-> TRUE]

(* What one element becomes; the types that no branch handles are left     *)
(* unwritten, whatever the operator.                                       *)
UnaryCell(op, out, type, v) ==
  CASE v = Garbage -> Garbage
    [] type = "f64" ->
         LET r == CASE op \in {"neg", "abs"} -> Negated(op, v)
                    [] op \in {"sqrt", "ceil", "floor"} -> Rounded(op, v)
                    [] OTHER -> v
         IN  IF out = "f64" THEN r ELSE IF out = "i64" THEN ToInt("i64", r) ELSE Garbage
    [] type = "i64" ->
         CASE out = "i64" -> IF op \in {"neg", "abs"} THEN Wrap("i64", Negated(op, v)) ELSE v
           [] out = "f64" -> CASE op = "neg" -> -ToDouble(v)
                               [] op = "sqrt" -> Rounded(op, ToDouble(v))
                               [] OTHER -> ToDouble(v)
           [] out = "bool" -> 0
           [] OTHER -> Garbage
    [] type = "bool" /\ op = "not" -> Bit(v = 0)
    [] op = "cast" /\ out = "i64" -> v
    [] op = "cast" /\ out = "f64" -> ToDouble(v)
    [] OTHER -> Garbage

ElementwiseUnary(op, out, x) ==
  Vector(out, [i \in DOMAIN x.cells |->
     LET cell == x.cells[i]
     IN  IF op = "isnull" /\ cell.null THEN [v |-> 1, null |-> FALSE]
         ELSE [v |-> UnaryCell(op, out, x.type, cell.v), null |-> cell.null]])

(* Both sides go through a double first, whatever their type.              *)
DoubledCell(op, out, l, r) ==
  CASE out = "f64" -> IF op \in Arith THEN DoubleArith(op, l, r) ELSE 0
    [] out = "bool" ->
         CASE op \in Compare -> DoubleCompare(op, l, r)
           [] op = "and" -> Bit(Truncate(l, Scale) # 0 /\ Truncate(r, Scale) # 0)
           [] op = "or" -> Bit(Truncate(l, Scale) # 0 \/ Truncate(r, Scale) # 0)
           [] OTHER -> 0
    [] NaN \in {l, r} -> Garbage
    [] OTHER -> IF op \in Arith THEN IntArith(op, out, ToInt(out, l), ToInt(out, r)) ELSE 0
BinaryCell(op, out, ltype, rtype, a, b) ==
  IF Garbage \in {a, b} THEN Garbage
  ELSE DoubledCell(op, out, IF ltype = "f64" THEN a ELSE ToDouble(a), IF rtype = "f64" THEN b ELSE ToDouble(b))

(* Nulls: arithmetic gives null, and so does a division by zero the code   *)
(* looks for; a comparison takes a null for the least value; "and" and     *)
(* "or" are false.                                                         *)
ZeroDivisor(op, r, v) ==
  op \in {"div", "mod"} /\ v = 0 /\ (Len(r.cells) = 1 \/ r.atom \/ r.type \in {"i64", "i32"})

BinaryResult(op, out, l, r, a, b) ==
  LET missing == a.null \/ b.null
      arith == op \in Arith
  IN  [null |-> arith /\ (missing \/ ZeroDivisor(op, r, b.v)),
       v |-> IF arith \/ ~missing THEN BinaryCell(op, out, l.type, r.type, a.v, b.v)
             ELSE IF op \in Logic THEN 0 ELSE HoldsMissing(op, a.null, b.null)]

Scalar(x) == x.atom \/ Len(x.cells) = 1
ElementwiseBinary(op, out, l, r) ==
  LET n == IF ~Scalar(l) THEN Len(l.cells) ELSE IF ~Scalar(r) THEN Len(r.cells) ELSE 1
      At(x, i) == x.cells[IF Scalar(x) THEN 1 ELSE i]
  IN  IF ~Scalar(l) /\ ~Scalar(r) /\ Len(l.cells) # Len(r.cells) THEN Error
      ELSE Vector(out, [i \in 1 .. n |-> BinaryResult(op, out, l, r, At(l, i), At(r, i))])

(* A vector into the segments of a table, and back.                        *)
ColumnOf(x) == Flat(x.type, x.cells)
VectorOf(col) == Vector(col.type, Cells(col))

RECURSIVE Walk(_, _, _)
Walk(nodes, tbl, id) ==
  LET node == nodes[id]
      One(x) == IF x = Error THEN Error ELSE ElementwiseUnary(node.op, node.type, x)
      Two(x, y) == IF Error \in {x, y} THEN Error ELSE ElementwiseBinary(node.op, node.type, x, y)
      Arg(i) == Walk(nodes, tbl, node.args[i])
  IN  CASE node.op = "scan" -> VectorOf(tbl[node.col])
        [] node.op = "const" -> Atom(node.type, [v |-> node.v, null |-> node.null])
        [] Len(node.args) = 1 -> One(Arg(1))
        [] OTHER -> Two(Arg(1), Arg(2))
=============================================================================
