------------------------------ MODULE Language ------------------------------
(***************************************************************************)
(* The language: the evaluator of expressions (eval.c), its scopes         *)
(* (env.c), the compiler of functions to bytecode (compile.c) and the      *)
(* machine that runs it.  Top-level expressions are walked as trees; a     *)
(* function is compiled when it is called first, and walked if it cannot.  *)
(*                                                                         *)
(* A value is [t, v, null, name, items]; v is a number or the place of a   *)
(* function in "lambdas".  An expression is [k, val, name, names, parts].  *)
(* The state of the language, s, is                                        *)
(*   globals  names and values         scopes      local names, inner last *)
(*   lambdas  functions that exist     depth       of nested evaluation    *)
(*   raised   value of the last raise  interrupted by the user             *)
(*   limited  history: a limit was met                                     *)
(* Integers and vectors stand for all data; arithmetic does not overflow.  *)
(***************************************************************************)
EXTENDS Integers, Sequences, FiniteSets, SequencesExt

CONSTANTS
  VMStack,     \* slots and frames of a machine, 1024
  VMTraps,     \* traps of a machine, 16
  MaxLocals,   \* local names of a function, 256
  MaxArgs,     \* arguments of a call, 64
  MaxDepth,    \* nested evaluations, 512
  MaxScopes    \* scopes, 64

Val(t, v) == [t |-> t, v |-> v, null |-> FALSE, name |-> "", items |-> <<>>]
Whole(n) == Val("i64", n)
Flag(b) == Val("bool", IF b THEN 1 ELSE 0)
Items(s) == [Val("vec", 0) EXCEPT !.items = s]
Void == Val("void", 0)
Fail(code) == [Val("error", 0) EXCEPT !.name = code]
Failed(x) == x.t = "error"
Truthy(x) == ~x.null /\ x.t # "void" /\ (x.t \in {"bool", "i64"} => x.v # 0)
(* Functions of one, two or any number of arguments, and special forms.   *)
Builtins == [n \in {"neg", "raise", "count", "+", ">", "list", "set", "let", "try", "if", "do", "fn"} |->
  [Val(CASE n \in {"neg", "raise", "count"} -> "unary" [] n \in {"+", ">"} -> "binary" [] n = "list" -> "vary" [] OTHER -> "special", 0)
     EXCEPT !.name = n]]
Atomic == {"neg", "+", ">"}

Outcome(s, v) == [s |-> [s EXCEPT !.limited = @ \/ (Failed(v) /\ v.name \in {"limit", "oom"})], v |-> v]

-----------------------------------------------------------------------------
(* Scopes (env.c). *)
EnvGet(s, name) ==
  LET holding == {d \in DOMAIN s.scopes : name \in DOMAIN s.scopes[d]}
  IN  IF holding # {} THEN s.scopes[Max(holding)][name]
      ELSE IF name \in DOMAIN s.globals THEN s.globals[name] ELSE Void
SetGlobal(s, name, x) == [s EXCEPT !.globals = [n \in {name} |-> x] @@ @]
SetLocal(s, name, x) ==
  IF s.scopes = <<>> THEN SetGlobal(s, name, x) ELSE [s EXCEPT !.scopes[Len(s.scopes)] = [n \in {name} |-> x] @@ @]
PushScope(s) == [s EXCEPT !.scopes = Append(@, <<>>)]
PopScope(s) == [s EXCEPT !.scopes = Front(@)]

-----------------------------------------------------------------------------
(* Functions of the program.  An atomic one is mapped over the items of a  *)
(* vector by its caller; not every caller does.                            *)
NegAtom(x) == IF x.t # "i64" THEN Fail("type") ELSE IF x.null THEN x ELSE Whole(-x.v)
AddAtoms(x, y) ==
  IF {x.t, y.t} # {"i64"} THEN Fail("type") ELSE IF x.null THEN x ELSE IF y.null THEN y ELSE Whole(x.v + y.v)
GreaterAtom(x, y) ==
  IF {x.t, y.t} # {"i64"} THEN Fail("type") ELSE Flag(~x.null /\ (y.null \/ x.v > y.v))
OnAtoms(name, args) ==
  CASE name = "neg" -> NegAtom(args[1])
    [] name = "count" -> IF args[1].t = "vec" THEN Whole(Len(args[1].items)) ELSE IF args[1].t = "i64" THEN Whole(1) ELSE Fail("type")
    [] name = "+" -> AddAtoms(args[1], args[2])
    [] name = ">" -> GreaterAtom(args[1], args[2])
    [] name = "list" -> Items(args)
OnItems(name, args) ==
  LET vectors == {i \in DOMAIN args : args[i].t = "vec"}
      n == Len(args[CHOOSE i \in vectors : TRUE].items)
      item == [r \in 1 .. n |-> OnAtoms(name, [i \in DOMAIN args |-> IF i \in vectors THEN args[i].items[r] ELSE args[i]])]
  IN  IF \E i \in vectors : Len(args[i].items) # n THEN Fail("length")
      ELSE IF \E r \in DOMAIN item : Failed(item[r]) THEN Fail("type") ELSE Items(item)

Apply(s, f, args, maps) ==
  IF f.name = "raise" THEN Outcome([s EXCEPT !.raised = args[1]], Fail("domain"))
  ELSE IF maps /\ f.name \in Atomic /\ \E i \in DOMAIN args : args[i].t = "vec" THEN Outcome(s, OnItems(f.name, args))
  ELSE Outcome(s, OnAtoms(f.name, args))

-----------------------------------------------------------------------------
(* The compiler.  Its state is [ins, pool, locals, bad]; an instruction is *)
(* [op, a].  Equal atoms share a place in the pool of constants.           *)
Emit(c, op, a) == [c EXCEPT !.ins = Append(@, [op |-> op, a |-> a])]
AtomNode(x) == [k |-> "atom", val |-> x, name |-> "", names |-> <<>>, parts |-> <<>>]
Alike(u, w) ==
  u = w \/ (u.k = "atom" /\ w.k = "atom" /\ u.val.t = w.val.t /\ u.val.t \in {"i64", "bool"} /\ u.val.v = w.val.v)
PoolAt(c, node) ==
  LET same == {i \in DOMAIN c.pool : Alike(c.pool[i], node)} IN IF same = {} THEN Len(c.pool) + 1 ELSE Min(same)
WithConst(c, node) == IF PoolAt(c, node) > Len(c.pool) THEN [c EXCEPT !.pool = Append(@, node)] ELSE c
EmitConst(c, op, node) == Emit(WithConst(c, node), op, PoolAt(c, node))
Dynamic(c, node) == Emit(EmitConst(c, "LOADCONST", node), "CALLD", 0)

FindLocal(c, name) ==
  LET at == {i \in DOMAIN c.locals : c.locals[i] = name} IN IF at = {} THEN 0 ELSE Max(at)
AddLocal(c, name) == IF Len(c.locals) >= MaxLocals THEN [c EXCEPT !.bad = TRUE] ELSE [c EXCEPT !.locals = Append(@, name)]
SlotFor(c, name) == IF FindLocal(c, name) # 0 THEN c ELSE AddLocal(c, name)
(* The jump at pos leads to what is emitted next. *)
PatchJump(c, pos) == [c EXCEPT !.ins[pos].a = Len(c.ins) + 1]
Here(c) == Len(c.ins)

RECURSIVE CompileExpr(_, _, _)

CompileEach(s, c, asts) == FoldLeft(LAMBDA acc, ast : CompileExpr(s, acc, ast), c, asts)
CompileSequence(s, c, asts) ==
  FoldLeft(LAMBDA acc, ast : CompileExpr(s, Emit(acc, "POP", 0), ast), CompileExpr(s, c, asts[1]), Tail(asts))

EmitLet(s, c, ast) ==
  LET d == SlotFor(Emit(CompileExpr(s, c, ast.parts[3]), "DUP", 0), ast.parts[2].name)
  IN  Emit(d, "STOREENV", FindLocal(d, ast.parts[2].name))

EmitIf(s, c, ast) ==
  LET test == Emit(CompileExpr(s, c, ast.parts[2]), "JMPF", 0)
      then == Emit(CompileExpr(s, test, ast.parts[3]), "JMP", 0)
      other == PatchJump(then, Here(test))
      both == IF Len(ast.parts) >= 4 THEN CompileExpr(s, other, ast.parts[4]) ELSE EmitConst(other, "LOADCONST", AtomNode(Whole(0)))
  IN  PatchJump(both, Here(then))

(* The error waits in a slot without a name while the handler is found.    *)
EmitTry(s, c, ast) ==
  LET slotted == AddLocal(c, "")
      slot == Len(slotted.locals)
      trap == Emit(slotted, "TRAP", 0)
      body == Emit(Emit(CompileExpr(s, trap, ast.parts[2]), "TRAPEND", 0), "JMP", 0)
      caught == Emit(PatchJump(body, Here(trap)), "STOREENV", slot)
      handler == CompileExpr(s, caught, ast.parts[3])
  IN  PatchJump(Emit(Emit(handler, "LOADENV", slot), "CALLF", 1), Here(body))

(* What the head is bound to when the function is compiled decides how it  *)
(* is called; a function of the system is a constant of the code.          *)
EmitCall(s, c, ast) ==
  LET head == Head(ast.parts)
      args == Tail(ast.parts)
      f == IF head.k = "name" THEN EnvGet(s, head.name) ELSE Void
      called == IF f.t \in {"unary", "binary", "vary"} THEN EmitConst(c, "LOADCONST", AtomNode(f)) ELSE CompileExpr(s, c, head)
      ready == CompileEach(s, called, args)
  IN  IF f.t = "special" THEN Dynamic(c, ast)
      ELSE IF Len(args) > MaxArgs THEN [called EXCEPT !.bad = TRUE]
      ELSE CASE f.t = "unary" /\ Len(args) = 1 -> Emit(ready, "CALL1", 0)
             [] f.t = "binary" /\ Len(args) = 2 -> Emit(ready, "CALL2", 0)
             [] f.t = "vary" -> Emit(ready, "CALLN", Len(args))
             [] OTHER -> Emit(ready, "CALLF", Len(args))

CompileList(s, c, ast) ==
  LET n == Len(ast.parts)
      form == Head(ast.parts).name
  IN  CASE form \in {"set", "fn"} /\ n >= 3 /\ (form = "set" => n = 3) -> Dynamic(c, ast)
        [] form = "let" /\ n = 3 -> EmitLet(s, c, ast)
        [] form = "if" /\ n >= 3 -> EmitIf(s, c, ast)
        [] form = "do" /\ n >= 2 -> CompileSequence(s, c, Tail(ast.parts))
        [] form = "try" /\ n = 3 -> EmitTry(s, c, ast)
        [] form = "self" -> IF n - 1 > MaxArgs THEN [c EXCEPT !.bad = TRUE]
                            ELSE Emit(CompileEach(s, c, Tail(ast.parts)), "CALLS", n - 1)
        [] OTHER -> EmitCall(s, c, ast)

CompileExpr(s, c, ast) ==
  LET slot == FindLocal(c, ast.name)
  IN  IF c.bad THEN c
      ELSE CASE ast.k = "list" /\ ast.parts # <<>> -> CompileList(s, c, ast)
             [] ast.k = "name" -> IF slot # 0 THEN Emit(c, "LOADENV", slot) ELSE EmitConst(c, "RESOLVE", ast)
             [] OTHER -> EmitConst(c, "LOADCONST", ast)

NoCode == [ins |-> <<>>, pool |-> <<>>, slots |-> 0]
NewLambda(params, body) == [params |-> params, body |-> body, code |-> NoCode]
IsCompiled(lambda) == lambda.code # NoCode
(* The first call compiles, with the names that are bound then. *)
StoreCode(s, id, c) ==
  IF c.bad THEN s ELSE [s EXCEPT !.lambdas[id].code = [ins |-> c.ins, pool |-> c.pool, slots |-> Len(c.locals)]]
WithCode(s, id) ==
  LET lambda == s.lambdas[id]
      params == FoldLeft(AddLocal, [ins |-> <<>>, pool |-> <<>>, locals |-> <<>>, bad |-> FALSE], lambda.params)
  IN  IF IsCompiled(lambda) THEN s ELSE StoreCode(s, id, Emit(CompileSequence(s, params, lambda.body), "RET", 0))
=============================================================================
