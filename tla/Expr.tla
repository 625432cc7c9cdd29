-------------------------------- MODULE Expr --------------------------------
(***************************************************************************)
(* Elementwise expressions (expr.c).  An expression is a graph of nodes,   *)
(* nodes[id] = [op, args, type, ...] with arguments of smaller ids.  The   *)
(* same expression can be compiled into a program over registers, which is *)
(* run morsel by morsel ("fused"), or walked operator by operator with     *)
(* whole vectors in between; sums of linear expressions are taken apart    *)
(* into sums of columns.                                                   *)
(*                                                                         *)
(* Integers have the width of their type.  A double is a number of         *)
(* 1/Scale units; integers beyond Exact lose their last bit in it.         *)
(* Garbage is what the code leaves unwritten, or C leaves undefined.       *)
(***************************************************************************)
EXTENDS RowSel

CONSTANTS
  LongBits, IntBits, ShortBits, ByteBits,   \* bits of the integer types: 64, 32, 16 and 8
  Scale,         \* units of a double
  Exact,         \* 2^53: integers up to here are exact in a double
  MaxRegs,       \* EXPR_MAX_REGS, 16
  MaxTerms,      \* AGG_LINEAR_MAX_TERMS, 8
  NaN, Garbage,
  NoPlan         \* what is not compiled, or not linear

Arith == {"add", "sub", "mul", "div", "mod", "min2", "max2"}
Compare == {"eq", "ne", "lt", "le", "gt", "ge"}
Logic == {"and", "or"}
Unary == {"neg", "abs", "not", "sqrt", "ceil", "floor", "isnull", "cast"}
Elementwise == Arith \cup Compare \cup Logic \cup Unary

-----------------------------------------------------------------------------
(* Numbers.                                                                *)
Width == [i64 |-> LongBits, i32 |-> IntBits, i16 |-> ShortBits, u8 |-> ByteBits]
Low(type) == IF type = "u8" THEN 0 ELSE -(2 ^ (Width[type] - 1))
High(type) == Low(type) + 2 ^ Width[type] - 1
Wrap(type, v) == Low(type) + ((v - Low(type)) % 2 ^ Width[type])

Abs(v) == IF v < 0 THEN -v ELSE v
Truncate(a, b) == IF (a < 0) # (b < 0) THEN -(Abs(a) \div Abs(b)) ELSE Abs(a) \div Abs(b)
FloorDiv(a, b) == IF b > 0 THEN a \div b ELSE (-a) \div (-b)
FloorMod(a, b) == a - b * FloorDiv(a, b)
Root(v) == CHOOSE r \in 0 .. v : r * r <= v /\ (r + 1) * (r + 1) > v

ToDouble(v) == Scale * (IF Abs(v) <= Exact THEN v ELSE v - (v % 2))
ToInt(type, d) ==
  LET Saturated(v) == IF v < Low("i64") THEN Low("i64") ELSE IF v > High("i64") THEN High("i64") ELSE v
  IN  IF d = NaN THEN Garbage ELSE Wrap(type, Saturated(Truncate(d, Scale)))

(* i64 and i32 divide towards minus infinity, i16 and u8 towards zero; a   *)
(* zero divisor gives 0, and so does the quotient that does not fit.       *)
IntArith(op, type, a, b) ==
  LET floor == type \in {"i64", "i32"}
      none == b = 0 \/ (floor /\ b = -1 /\ a = Low(type))
  IN  Wrap(type, CASE op = "add" -> a + b
                   [] op = "sub" -> a - b
                   [] op = "mul" -> a * b
                   [] op \in {"div", "mod"} /\ none -> 0
                   [] op = "div" -> IF floor THEN FloorDiv(a, b) ELSE Truncate(a, b)
                   [] op = "mod" -> IF floor THEN FloorMod(a, b) ELSE a - b * Truncate(a, b)
                   [] op = "min2" -> IF a < b THEN a ELSE b
                   [] op = "max2" -> IF a > b THEN a ELSE b)

DoubleArith(op, a, b) ==
  CASE op \in {"div", "mod"} /\ b = 0 -> NaN
    [] op \in {"min2", "max2"} /\ NaN \in {a, b} -> b
    [] op \notin {"min2", "max2"} /\ NaN \in {a, b} -> NaN
    [] op = "add" -> a + b
    [] op = "sub" -> a - b
    [] op = "mul" -> Truncate(a * b, Scale)
    [] op = "div" -> Truncate(a * Scale, b)
    [] op = "mod" -> FloorMod(a, b)
    [] op = "min2" -> IF a < b THEN a ELSE b
    [] op = "max2" -> IF a > b THEN a ELSE b

Bit(b) == IF b THEN 1 ELSE 0
Holds(op, a, b) ==
  CASE op = "eq" -> a = b  [] op = "ne" -> a # b
    [] op = "lt" -> a < b  [] op = "le" -> a <= b
    [] op = "gt" -> a > b  [] op = "ge" -> a >= b

(* A missing number is equal to itself and less than any other.            *)
HoldsMissing(op, noA, noB) ==
  Bit(op \in (IF noA /\ noB THEN {"eq", "le", "ge"}
              ELSE IF noA THEN {"lt", "le", "ne"} ELSE {"gt", "ge", "ne"}))
DoubleCompare(op, a, b) ==
  IF NaN \in {a, b} THEN HoldsMissing(op, a = NaN, b = NaN) ELSE Bit(Holds(op, a, b))

-----------------------------------------------------------------------------
(* Constants are folded as the code's own interpreter does it: a number    *)
(* [v, double] or NoPlan.                                                  *)
FoldedConst(node, sub, double) ==
  LET AsDouble(c) == IF c.double THEN c.v ELSE ToDouble(c.v)
      Signed(v) == IF node.op = "neg" \/ v < 0 THEN -v ELSE v
  IN  IF node.op \in {"neg", "abs"}
      THEN IF double THEN [v |-> Signed(AsDouble(sub[1])), double |-> TRUE]
           ELSE [v |-> Wrap("i64", Signed(sub[1].v)), double |-> FALSE]
      ELSE IF node.op \notin Arith THEN NoPlan
      ELSE IF double \/ node.op = "div"
      THEN [v |-> DoubleArith(node.op, AsDouble(sub[1]), AsDouble(sub[2])), double |-> TRUE]
      ELSE IF node.op = "mod" /\ sub[2].v = 0 THEN NoPlan
      ELSE [v |-> IntArith(node.op, "i64", sub[1].v, sub[2].v), double |-> FALSE]
FoldedOver(node, sub) ==
  IF \E i \in DOMAIN sub : sub[i] = NoPlan THEN NoPlan
  ELSE FoldedConst(node, sub, node.type = "f64" \/ \E i \in DOMAIN sub : sub[i].double)

RECURSIVE ConstOf(_, _)
ConstOf(nodes, id) ==
  LET node == nodes[id]
  IN  IF node.op = "const" THEN (IF node.null THEN NoPlan ELSE [v |-> node.v, double |-> node.type = "f64"])
      ELSE IF node.op \notin Arith \cup Compare \cup Logic \cup {"neg", "abs"} THEN NoPlan
      ELSE FoldedOver(node, [i \in DOMAIN node.args |-> ConstOf(nodes, node.args[i])])

ConstInt(nodes, id) ==
  LET Whole(c) == IF c = NoPlan THEN NoPlan
                  ELSE IF ~c.double THEN c.v
                  ELSE IF c.v = NaN THEN NoPlan
                  ELSE IF c.v % Scale = 0 THEN c.v \div Scale ELSE NoPlan
  IN  Whole(ConstOf(nodes, id))

(* A linear form: the terms <<column, coefficient>> in the order they came *)
(* and the bias.                                                           *)
AddTerm(form, term) ==
  LET same == {i \in DOMAIN form.terms : form.terms[i][1] = term[1]}
      i == CHOOSE j \in same : TRUE
      next == Wrap("i64", form.terms[i][2] + term[2])
  IN  IF form = NoPlan \/ term[2] = 0 THEN form
      ELSE IF same = {}
      THEN IF Len(form.terms) >= MaxTerms THEN NoPlan ELSE [form EXCEPT !.terms = Append(@, term)]
      ELSE IF next # 0 THEN [form EXCEPT !.terms[i][2] = next]
      ELSE [form EXCEPT !.terms = RemoveAt(@, i)]

Scaled(form, k) ==
  [terms |-> [i \in DOMAIN form.terms |-> <<form.terms[i][1], Wrap("i64", form.terms[i][2] * k)>>],
   bias |-> Wrap("i64", form.bias * k)]
AddForms(a, b) == FoldLeft(AddTerm, [a EXCEPT !.bias = Wrap("i64", @ + b.bias)], b.terms)

SumForm(nodes, id, sub) ==
  IF nodes[id].op = "sub" THEN AddForms(sub[1], Scaled(sub[2], -1)) ELSE AddForms(sub[1], sub[2])

Combined(nodes, id, sub, const) ==
  LET op == nodes[id].op
      Times(k, form) == IF k = NoPlan \/ form = NoPlan THEN NoPlan ELSE Scaled(form, k)
  IN  CASE op = "neg" -> Times(-1, sub[1])
        [] op \in {"add", "sub"} -> IF NoPlan \in {sub[1], sub[2]} THEN NoPlan ELSE SumForm(nodes, id, sub)
        [] OTHER -> IF const[1] # NoPlan /\ sub[2] # NoPlan THEN Times(const[1], sub[2]) ELSE Times(const[2], sub[1])

RECURSIVE LinearForm(_, _)
LinearForm(nodes, id) ==
  LET args == nodes[id].args
      FormOf(k, const) ==
        IF k # NoPlan THEN [terms |-> <<>>, bias |-> k]
        ELSE IF nodes[id].op = "scan" THEN [terms |-> << <<nodes[id].col, 1>> >>, bias |-> 0]
        ELSE IF nodes[id].op \notin {"neg", "add", "sub", "mul"} THEN NoPlan
        ELSE Combined(nodes, id, [i \in DOMAIN args |-> LinearForm(nodes, args[i])], const)
  IN  FormOf(ConstInt(nodes, id), [i \in DOMAIN args |-> ConstInt(nodes, args[i])])

(* Only over flat columns of integers.                                     *)
LinearPlan(nodes, tbl, id) ==
  LET Bound(col) == col \in DOMAIN tbl /\ tbl[col].kind = "flat" /\ tbl[col].type # "f64"
      Checked(form) == IF form = NoPlan THEN NoPlan
                       ELSE IF \A i \in DOMAIN form.terms : Bound(form.terms[i][1]) THEN form ELSE NoPlan
  IN  Checked(LinearForm(nodes, id))

(* A column plus or minus a constant: [col, bias] or NoPlan.               *)
AffinePlan(nodes, tbl, id) ==
  LET node == nodes[id]
      Plus(base, k, whole, sign) ==
        IF k = NoPlan \/ base.op # "scan" THEN NoPlan
        ELSE IF tbl[base.col].type = "f64"
        THEN [col |-> base.col, bias |-> sign * (IF k.double THEN k.v ELSE ToDouble(k.v))]
        ELSE IF whole = NoPlan THEN NoPlan
        ELSE [col |-> base.col, bias |-> sign * whole]
      Side(i, j, sign) == Plus(nodes[node.args[j]], ConstOf(nodes, node.args[i]), ConstInt(nodes, node.args[i]), sign)
  IN  IF node.op = "add"
      THEN IF ConstOf(nodes, node.args[1]) # NoPlan THEN Side(1, 2, 1) ELSE Side(2, 1, 1)
      ELSE IF node.op = "sub" THEN Side(2, 1, -1) ELSE NoPlan

-----------------------------------------------------------------------------
(* The compiler.  A program has registers [kind, type, ...], instructions  *)
(* and the register of every node it has visited; NoPlan when it gave up.  *)
RegType(type) == IF type = "f64" THEN "f64" ELSE "i64"

(* A register of the wanted type, cast if need be and if there is room.    *)
EnsureType(prog, reg, type) ==
  IF prog.regs[reg].type = type \/ Len(prog.regs) >= MaxRegs THEN [prog |-> prog, reg |-> reg]
  ELSE [prog |-> [prog EXCEPT !.regs = Append(@, [kind |-> "scratch", type |-> type]),
                              !.ins = Append(@, [op |-> "cast", dst |-> Len(prog.regs) + 1, src |-> <<reg>>])],
        reg |-> Len(prog.regs) + 1]

OutType(node, types) ==
  CASE node.op = "cast" -> node.type
    [] node.op \in Compare \cup Logic \cup {"not"} -> "bool"
    [] node.op \in {"div", "sqrt"} \/ \E i \in DOMAIN types : types[i] = "f64" -> "f64"
    [] OTHER -> "i64"

(* Faulty variant: no cast where a comparison mixes types. *)
PromotedTypeOfResult(node, types, out) == IF out = "f64" /\ node.op # "cast" THEN {"f64"} ELSE {}
PromotedType(node, types, out) ==
  IF node.op = "cast" THEN {}
  ELSE IF out = "f64" THEN {"f64"}
  ELSE IF out = "bool" /\ Len(types) = 2 /\ types[1] # types[Len(types)]
  THEN {IF "f64" \in {types[1], types[2]} THEN "f64" ELSE "i64"}
  ELSE {}

Leaf(nodes, tbl, node) ==
  IF node.op = "const" THEN (IF node.null THEN NoPlan ELSE [kind |-> "const", type |-> RegType(node.type), v |-> node.v])
  ELSE IF node.col \notin DOMAIN tbl THEN NoPlan
  ELSE LET col == tbl[node.col]
       IN  IF col.kind = "common" \/ (col.kind = "flat" /\ \E s \in DOMAIN col.segs :
                                        \E i \in DOMAIN col.segs[s].cells : col.segs[s].cells[i].null)
           THEN NoPlan ELSE [kind |-> "scan", type |-> RegType(col.type), col |-> node.col]

(* The source registers of an instruction, each of the wanted type. *)
Ready(prog, src, to) ==
  LET Put(acc, next) == [prog |-> next.prog, src |-> Append(acc.src, next.reg)]
  IN  FoldLeft(LAMBDA acc, reg : IF to = {} THEN [acc EXCEPT !.src = Append(@, reg)]
                                 ELSE Put(acc, EnsureType(acc.prog, reg, CHOOSE t \in to : TRUE)),
               [prog |-> prog, src |-> <<>>], src)
CompileOp(prog, nodes, id) ==
  LET node == nodes[id]
      src == [i \in DOMAIN node.args |-> prog.reg[node.args[i]]]
      types == [i \in DOMAIN src |-> prog.regs[src[i]].type]
      out == OutType(node, types)
      Emit(ready, dst) ==
        IF dst > MaxRegs THEN NoPlan
        ELSE [regs |-> Append(ready.prog.regs, [kind |-> "scratch", type |-> out]),
              ins |-> Append(ready.prog.ins, [op |-> node.op, dst |-> dst, src |-> ready.src]),
              reg |-> ready.prog.reg @@ (id :> dst)]
      Promoted(ready) == Emit(ready, Len(ready.prog.regs) + 1)
  IN  Promoted(Ready(prog, src, PromotedType(node, types, out)))

RECURSIVE Visit(_, _, _, _)
Visit(nodes, tbl, prog, id) ==
  IF prog = NoPlan THEN NoPlan
  ELSE IF id \in DOMAIN prog.reg THEN prog
  ELSE LET node == nodes[id]
           After(before) == IF before = NoPlan THEN NoPlan
                            ELSE IF Len(before.regs) >= MaxRegs THEN NoPlan
                            ELSE CompileOp(before, nodes, id)
           leaf == Leaf(nodes, tbl, node)
       IN  IF node.op \in {"scan", "const"}
           THEN IF leaf = NoPlan \/ Len(prog.regs) >= MaxRegs THEN NoPlan
                ELSE [prog EXCEPT !.regs = Append(@, leaf), !.reg = @ @@ (id :> Len(prog.regs) + 1)]
           ELSE IF node.op \notin Elementwise THEN NoPlan
           ELSE After(FoldLeft(LAMBDA p, a : Visit(nodes, tbl, p, a), prog, node.args))

Compile(nodes, tbl, id) ==
  IF nodes[id].op \notin Elementwise THEN NoPlan
  ELSE Visit(nodes, tbl, [regs |-> <<>>, ins |-> <<>>, reg |-> <<>>], id)

-----------------------------------------------------------------------------
(* Running a program on one element of each register.  What no case of the *)
(* interpreter writes is Garbage.                                          *)
ExecBinary(op, dst, type, a, b) ==
  IF Garbage \in {a, b} THEN Garbage
  ELSE CASE dst = "f64" -> IF op \in Arith THEN DoubleArith(op, a, b) ELSE Garbage
         [] dst = "i64" -> IF op \in Arith THEN IntArith(op, "i64", a, b) ELSE Garbage
         [] OTHER -> CASE type = "f64" /\ op \in Compare -> DoubleCompare(op, a, b)
                       [] type = "i64" /\ op \in Compare -> Bit(Holds(op, a, b))
                       [] type = "bool" /\ op = "and" -> Bit(a # 0 /\ b # 0)
                       [] type = "bool" /\ op = "or" -> Bit(a # 0 \/ b # 0)
                       [] OTHER -> Garbage

Negated(op, a) == IF a # NaN /\ (op = "neg" \/ a < 0) THEN -a ELSE a
Rounded(op, a) ==
  CASE a = NaN -> NaN
    [] op = "sqrt" -> IF a < 0 THEN NaN ELSE Root(a * Scale)
    [] op = "ceil" -> -(Scale * ((-a) \div Scale))
    [] op = "floor" -> Scale * (a \div Scale)

ExecUnary(op, dst, type, a) ==
  CASE a = Garbage \/ type \notin {"i64", "f64", "bool"} -> Garbage
    [] dst = "f64" /\ type = "f64" -> IF op \in {"neg", "abs"} THEN Negated(op, a)
                                      ELSE IF op \in {"sqrt", "ceil", "floor"} THEN Rounded(op, a) ELSE Garbage
    [] dst = "f64" /\ type = "i64" -> ToDouble(a)
    [] dst = "i64" /\ type = "i64" -> IF op \in {"neg", "abs"} THEN Wrap("i64", Negated(op, a)) ELSE Garbage
    [] dst = "i64" /\ type = "f64" -> ToInt("i64", a)
    [] dst = "bool" /\ type = "bool" /\ op = "not" -> Bit(a = 0)
    [] OTHER -> Garbage

(* The rows lo .. hi of one segment: the columns are loaded and converted, *)
(* constants spread, and the instructions run over the whole morsel.       *)
RunInstruction(prog, n, file, ins) ==
  LET dst == prog.regs[ins.dst].type
      type == prog.regs[ins.src[1]].type
  IN  [file EXCEPT ![ins.dst] =
         [i \in 1 .. n |->
            IF Len(ins.src) = 2
            THEN ExecBinary(ins.op, dst, type, file[ins.src[1]][i], file[ins.src[2]][i])
            ELSE ExecUnary(ins.op, dst, type, file[ins.src[1]][i])]]
EvalMorsel(prog, load, lo, hi) ==
  LET n == hi - lo + 1
      Start(r) == CASE prog.regs[r].kind = "scan" -> [i \in 1 .. n |-> load[r][lo + i - 1]]
                    [] prog.regs[r].kind = "const" -> [i \in 1 .. n |-> prog.regs[r].v]
                    [] OTHER -> [i \in 1 .. n |-> Garbage]
      file == FoldLeft(LAMBDA acc, r : Append(acc, Start(r)), <<>>, Upto(Len(prog.regs)))
  IN  FoldLeft(LAMBDA acc, ins : RunInstruction(prog, n, acc, ins), file, prog.ins)[Len(prog.regs)]

EvalRows(prog, load, n) ==
  FlattenSeq([m \in 1 .. SegmentCount(n) |->
                EvalMorsel(prog, load, (m - 1) * Morsel + 1, IF m * Morsel < n THEN m * Morsel ELSE n)])

(* What the scans of a program read when its parted columns are at s. *)
Loads(prog, tbl, s) ==
  [r \in {q \in DOMAIN prog.regs : prog.regs[q].kind = "scan"} |->
     LET col == tbl[prog.regs[r].col]
         cells == col.segs[IF col.kind = "parted" THEN s ELSE 1].cells
     IN  [i \in DOMAIN cells |-> cells[i].v]]

(* A parted program binds the columns to one partition after the other.    *)
EvalFull(prog, tbl, n) ==
  LET used == {prog.regs[r].col : r \in {q \in DOMAIN prog.regs : prog.regs[q].kind = "scan"}}
      parted == {c \in used : tbl[c].kind = "parted"}
      first == tbl[CHOOSE c \in parted : TRUE]
      parts == IF parted = {} THEN 1 ELSE Len(first.segs)
      Rows(s) == IF parted = {} THEN n ELSE Len(first.segs[s].cells)
      Present(out) == [i \in DOMAIN out |-> [v |-> out[i], null |-> FALSE]]
  IN  Present(FlattenSeq([s \in 1 .. parts |-> EvalRows(prog, Loads(prog, tbl, s), Rows(s))]))
=============================================================================
