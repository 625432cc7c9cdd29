------------------------------ MODULE Machine ------------------------------
(***************************************************************************)
(* Evaluation: the walk over a tree (ray_eval and the special forms of     *)
(* eval.c) and the machine that runs bytecode (vm_exec).  Each calls the   *)
(* other: a tree calls functions, and some forms inside of a function are  *)
(* evaluated as trees, which do not see the slots of the machine.          *)
(*                                                                         *)
(* A machine m is [fn, ip, fp, slots, stack, rs, ts, done, result]: its    *)
(* function, where it is, where its slots begin and how many they are, the *)
(* frames to return to (fn 0 for a call of itself) and the traps.          *)
(***************************************************************************)
EXTENDS Language

RECURSIVE Eval(_, _), EvalRest(_, _), Run(_, _), Throw(_, _, _, _)

NewMachine(s, id, args) ==
  LET slots == s.lambdas[id].code.slots
  IN  [fn |-> id, ip |-> 1, fp |-> 0, slots |-> slots, stack |-> args \o [i \in 1 .. slots - Len(args) |-> Void],
       rs |-> <<>>, ts |-> <<>>, done |-> FALSE, result |-> Void]

(* Expressions in their order, up to the first that fails: [s, xs, error]. *)
WithValue(acc, got) ==
  IF Failed(got.v) THEN [acc EXCEPT !.s = got.s, !.error = got.v] ELSE [acc EXCEPT !.s = got.s, !.xs = Append(@, got.v)]
EvalRest(acc, asts) ==
  IF asts = <<>> \/ Failed(acc.error) THEN acc ELSE EvalRest(WithValue(acc, Eval(acc.s, Head(asts))), Tail(asts))
EvalEach(s, asts) == EvalRest([s |-> s, xs |-> <<>>, error |-> Void], asts)

LeaveScope(got) == Outcome(PopScope(got.s), IF Failed(got.error) THEN got.error ELSE Last(got.xs))
InScope(s, asts) ==
  IF Len(s.scopes) >= MaxScopes THEN Outcome(s, Fail("oom")) ELSE LeaveScope(EvalEach(PushScope(s), asts))

(* A function that cannot be compiled is walked; its names are in a scope, *)
(* with the function itself as "self".                                     *)
WalkLambda(s, id, args) ==
  LET f == s.lambdas[id]
      self == SetLocal(PushScope(s), "self", Val("lambda", id))
      bound == FoldLeft(LAMBDA acc, i : SetLocal(acc, f.params[i], args[i]), self, [i \in DOMAIN args |-> i])
  IN  IF Len(args) # Len(f.params) THEN Outcome(s, Fail("arity"))
      ELSE IF Len(s.scopes) >= MaxScopes THEN Outcome(s, Fail("oom"))
      ELSE LeaveScope(EvalEach(bound, f.body))

CallReady(s, id, args) ==
  IF ~IsCompiled(s.lambdas[id]) THEN WalkLambda(s, id, args)
  ELSE IF Len(args) # Len(s.lambdas[id].params) THEN Outcome(s, Fail("arity"))
  ELSE Run(s, NewMachine(s, id, args))
CallLambda(s, id, args) == CallReady(WithCode(s, id), id, args)

-----------------------------------------------------------------------------
(* Special forms. *)
Handle(handler, payload) ==
  CASE Failed(handler.v) -> handler
    [] handler.v.t = "lambda" -> CallLambda(handler.s, handler.v.v, <<payload>>)
    [] handler.v.t = "unary" -> Apply(handler.s, handler.v, <<payload>>, FALSE)
    [] OTHER -> Outcome(handler.s, Fail("type"))
Caught(body, handler) ==
  IF ~Failed(body.v) THEN body
  ELSE Handle(Eval([body.s EXCEPT !.raised = Void], handler), IF body.s.raised = Void THEN Whole(0) ELSE body.s.raised)

Branch(test, parts) ==
  IF Failed(test.v) THEN test
  ELSE IF ~Truthy(test.v) /\ Len(parts) < 4 THEN Outcome(test.s, Whole(0))
  ELSE Eval(test.s, parts[IF Truthy(test.v) THEN 3 ELSE 4])

BindTo(form, name, got) ==
  IF Failed(got.v) THEN got
  ELSE Outcome(IF form = "set" THEN SetGlobal(got.s, name, got.v) ELSE SetLocal(got.s, name, got.v), got.v)

EvalForm(s, form, parts) ==
  CASE form \in {"set", "let", "try", "if", "fn"} /\ Len(parts) < 3 -> Outcome(s, Fail("domain"))
    [] form \in {"set", "let"} -> BindTo(form, parts[2].name, Eval(s, parts[3]))
    [] form = "try" -> Caught(Eval(s, parts[2]), parts[3])
    [] form = "if" -> Branch(Eval(s, parts[2]), parts)
    [] form = "do" -> IF Len(parts) = 1 THEN Outcome(s, Whole(0)) ELSE InScope(s, Tail(parts))
    [] form = "fn" -> Outcome([s EXCEPT !.lambdas = Append(@, NewLambda(parts[2].names, SubSeq(parts, 3, Len(parts))))],
                          Val("lambda", Len(s.lambdas) + 1))

(* A function of the system takes the arguments it needs and leaves the    *)
(* others alone; a function of the program wants as many as it has names.  *)
CallWith(f, got) ==
  IF Failed(got.error) THEN Outcome(got.s, got.error)
  ELSE IF f.t = "lambda" THEN CallLambda(got.s, f.v, got.xs) ELSE Apply(got.s, f, got.xs, TRUE)
EvalCall(s, f, parts) ==
  LET needed == CASE f.t = "unary" -> 1 [] f.t = "binary" -> 2 [] OTHER -> Len(parts) - 1
  IN  CASE f.t = "special" -> EvalForm(s, f.name, parts)
        [] f.t \notin {"unary", "binary", "vary", "lambda"} -> Outcome(s, Fail("type"))
        [] needed > Len(parts) - 1 \/ (f.t \in {"vary", "lambda"} /\ needed > MaxArgs) -> Outcome(s, Fail("domain"))
        [] OTHER -> CallWith(f, EvalEach(s, SubSeq(parts, 2, needed + 1)))

EvalHead(head, parts) == IF Failed(head.v) THEN head ELSE EvalCall(head.s, head.v, parts)
EvalNode(s, ast) ==
  CASE ast.k = "name" -> Outcome(s, IF EnvGet(s, ast.name) = Void THEN Fail("name") ELSE EnvGet(s, ast.name))
    [] ast.k = "list" /\ ast.parts # <<>> -> EvalHead(Eval(s, Head(ast.parts)), ast.parts)
    [] OTHER -> Outcome(s, ast.val)

Eval(s, ast) ==
  IF s.interrupted \/ s.depth >= MaxDepth THEN Outcome(s, Fail("limit"))
  ELSE [EvalNode([s EXCEPT !.depth = @ + 1], ast) EXCEPT !.s.depth = s.depth]

-----------------------------------------------------------------------------
(* The machine.  Each instruction gives [s, m]. *)
Stepped(s, m) == [s |-> s, m |-> m]
Ended(s, m, x) == Stepped(Outcome(s, x).s, [m EXCEPT !.done = TRUE, !.result = x, !.stack = <<>>, !.rs = <<>>, !.ts = <<>>])
Code(s, m) == s.lambdas[m.fn].code
Instruction(s, m) == Code(s, m).ins[m.ip]
TopOf(m, n) == SubSeq(m.stack, Len(m.stack) - n + 1, Len(m.stack))
Drop(m, n) == [m EXCEPT !.stack = SubSeq(@, 1, Len(@) - n)]
Onward(m) == [m EXCEPT !.ip = @ + 1]

(* An error leaves all frames above the last trap; its handler finds the   *)
(* error itself, or if the machine has none the value of the last raise.   *)
(* Where no place is left for it on the stack, the next trap is taken.     *)
Throw(s, m, error, known) ==
  LET trap == Last(m.ts)
      payload == IF known THEN error ELSE IF s.raised # Void THEN s.raised ELSE Whole(0)
      t == Outcome([s EXCEPT !.raised = Void], error).s
  IN  IF m.ts = <<>> THEN Ended(s, m, error)
      ELSE IF trap.sp >= VMStack THEN Throw(t, [m EXCEPT !.ts = Front(@)], Fail("limit"), FALSE)
      ELSE Stepped(t, [m EXCEPT !.fn = trap.fn, !.fp = trap.fp, !.slots = trap.slots, !.ip = trap.ip, !.ts = Front(@),
                                !.rs = SubSeq(@, 1, trap.rp), !.stack = Append(SubSeq(@, 1, trap.sp), payload)])

(* What an instruction does: it moves on, pushes a value or throws; an     *)
(* error is "known" if the machine has it as an object.                    *)
Does(k, s, m, x, known) == [k |-> k, s |-> s, m |-> m, x |-> x, known |-> known]
Moves(s, m) == Does("move", s, m, Void, FALSE)
Pushes(s, m, x) == Does("push", s, m, x, FALSE)
Throws(s, m, code, known) == Does("throw", s, m, Fail(code), known)
Given(got, m) == IF Failed(got.v) THEN Does("throw", got.s, m, got.v, TRUE) ELSE Pushes(got.s, m, got.v)

Node(s, m, a) == Code(s, m).pool[a]
LoadConst(s, m, a) == Pushes(s, Onward(m), IF Node(s, m, a).k = "atom" THEN Node(s, m, a).val ELSE Val("ast", a))
LoadEnv(s, m, a) == Pushes(s, Onward(m), IF m.stack[m.fp + a] = Void THEN Whole(0) ELSE m.stack[m.fp + a])
StoreEnv(s, m, a) == Moves(s, Drop([Onward(m) EXCEPT !.stack[m.fp + a] = Last(m.stack)], 1))
PopOne(s, m) == Moves(s, IF Len(m.stack) > m.fp + m.slots THEN Drop(Onward(m), 1) ELSE Onward(m))
Dup(s, m) == Pushes(s, Onward(m), Last(m.stack))
Resolve(s, m, x) == IF x = Void THEN Throws(s, m, "name", FALSE) ELSE Pushes(s, Onward(m), x)
Jump(s, m, a) == Moves(s, [m EXCEPT !.ip = a])
JumpFalse(s, m, a) == Moves(s, [Drop(m, 1) EXCEPT !.ip = IF Truthy(Last(m.stack)) THEN m.ip + 1 ELSE a])

(* Calls of functions of the system that were known to the compiler. *)
CallKnown(s, m, n, maps) == Given(Apply(s, TopOf(m, n + 1)[1], TopOf(m, n), maps), Drop(Onward(m), n + 1))

(* A frame for a compiled function; limits come before the count of its    *)
(* arguments, and an interruption is seen when the frame is there.         *)
Enter(s, m, id, args) ==
  LET f == s.lambdas[id]
      inside == [m EXCEPT !.rs = Append(@, [fn |-> m.fn, fp |-> m.fp, ip |-> m.ip]), !.fn = id, !.ip = 1, !.fp = Len(m.stack),
                          !.slots = f.code.slots, !.stack = @ \o args \o [i \in 1 .. f.code.slots - Len(args) |-> Void]]
  IN  IF Len(m.rs) >= VMStack \/ Len(m.stack) + f.code.slots >= VMStack THEN Throws(s, m, "limit", FALSE)
      ELSE IF Len(args) # Len(f.params) THEN Throws(s, m, "arity", TRUE)
      ELSE IF s.interrupted THEN Throws(s, inside, "limit", FALSE) ELSE Moves(s, inside)

CallOf(s, m, f, args) ==
  CASE f.t = "lambda" -> IF IsCompiled(s.lambdas[f.v]) THEN Enter(s, m, f.v, args) ELSE Given(WalkLambda(s, f.v, args), m)
    [] f.t \in {"unary", "binary", "vary"} ->
         IF Len(args) < (CASE f.t = "unary" -> 1 [] f.t = "binary" -> 2 [] OTHER -> 0) THEN Throws(s, m, "arity", TRUE)
         ELSE Given(Apply(s, f, args, FALSE), m)
    [] OTHER -> Throws(s, m, "type", TRUE)
CallFunction(s, m, n) ==
  LET f == TopOf(m, n + 1)[1]
  IN  CallOf(IF f.t = "lambda" THEN WithCode(s, f.v) ELSE s, Drop(Onward(m), n + 1), f, TopOf(m, n))

(* A call of itself: the arguments on the stack become the first slots. *)
CallSelf(s, m, n) ==
  IF Len(m.rs) >= VMStack \/ Len(m.stack) + m.slots >= VMStack THEN Throws(s, m, "limit", FALSE)
  ELSE Moves(s, [m EXCEPT !.rs = Append(@, [fn |-> 0, fp |-> m.fp, ip |-> m.ip + 1]), !.fp = Len(m.stack) - n, !.ip = 1,
                          !.stack = @ \o [i \in 1 .. m.slots - n |-> Void]])

CallDynamic(s, m) == Given(Eval(s, Node(s, m, Last(m.stack).v)), Drop(Onward(m), 1))

Return(s, m) ==
  LET result == IF Len(m.stack) > m.fp + m.slots THEN Last(m.stack) ELSE Void
      frame == Last(m.rs)
      fn == IF frame.fn = 0 THEN m.fn ELSE frame.fn
  IN  IF m.rs = <<>> THEN Moves(s, Ended(s, m, result).m)
      ELSE Pushes(s, [m EXCEPT !.stack = SubSeq(@, 1, m.fp), !.rs = Front(@), !.fp = frame.fp, !.ip = frame.ip, !.fn = fn,
                               !.slots = s.lambdas[fn].code.slots], result)

SetTrap(s, m, a) ==
  LET trap == [rp |-> Len(m.rs), sp |-> Len(m.stack), ip |-> a, fn |-> m.fn, fp |-> m.fp, slots |-> m.slots]
  IN  IF Len(m.ts) >= VMTraps THEN Throws(s, m, "limit", FALSE) ELSE Moves(s, [Onward(m) EXCEPT !.ts = Append(@, trap)])
(* Faulty variant: the trap stays when its body is done. *)
EndTrapKeeping(s, m) == Moves(s, Onward(m))
EndTrap(s, m) == Moves(s, [Onward(m) EXCEPT !.ts = Front(@)])

Perform(s, m, i) ==
  CASE i.op = "LOADCONST" -> LoadConst(s, m, i.a)
    [] i.op = "LOADENV" -> LoadEnv(s, m, i.a)
    [] i.op = "STOREENV" -> StoreEnv(s, m, i.a)
    [] i.op = "POP" -> PopOne(s, m)
    [] i.op = "DUP" -> Dup(s, m)
    [] i.op = "RESOLVE" -> Resolve(s, m, EnvGet(s, Node(s, m, i.a).name))
    [] i.op = "JMP" -> Jump(s, m, i.a)
    [] i.op = "JMPF" -> JumpFalse(s, m, i.a)
    [] i.op \in {"CALL1", "CALL2"} -> CallKnown(s, m, IF i.op = "CALL1" THEN 1 ELSE 2, TRUE)
    [] i.op = "CALLN" -> CallKnown(s, m, i.a, FALSE)
    [] i.op = "CALLF" -> CallFunction(s, m, i.a)
    [] i.op = "CALLS" -> CallSelf(s, m, i.a)
    [] i.op = "CALLD" -> CallDynamic(s, m)
    [] i.op = "TRAP" -> SetTrap(s, m, i.a)
    [] i.op = "TRAPEND" -> EndTrap(s, m)
    [] i.op = "RET" -> Return(s, m)

Resulting(did) ==
  LET full == did.k = "push" /\ Len(did.m.stack) >= VMStack
  IN  IF full \/ did.k = "throw" THEN Throw(did.s, did.m, IF full THEN Fail("limit") ELSE did.x, ~full /\ did.known)
      ELSE Stepped(did.s, IF did.k = "push" THEN [did.m EXCEPT !.stack = Append(@, did.x)] ELSE did.m)
VmStep(s, m) == Resulting(Perform(s, m, Instruction(s, m)))

RunOn(next) == Run(next.s, next.m)
Run(s, m) == IF m.done THEN Outcome(s, m.result) ELSE RunOn(VmStep(s, m))
=============================================================================
