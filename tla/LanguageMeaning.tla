-------------------------- MODULE LanguageMeaning --------------------------
(***************************************************************************)
(* A session of the terminal (eval_and_print of repl.c): forms are entered *)
(* one after the other; one that calls a function runs on the machine, one *)
(* instruction a step, and the user may interrupt it.  What a form means   *)
(* is said without code, slots or scopes: names belong to their block.     *)
(***************************************************************************)
EXTENDS Machine

CONSTANTS
  NoMachine,   \* no form is running
  Scripts      \* bound: the forms of each session

VARIABLES
  script,      \* forms that are still to be entered
  lang,        \* the language
  vm,          \* the machine of the form that is running, or NoMachine
  line         \* history: the last form, what it began with, its result

lvars == <<script, lang, vm, line>>

Fresh == [globals |-> Builtins, scopes |-> <<>>, lambdas |-> <<>>, depth |-> 0, raised |-> Void,
          interrupted |-> FALSE, limited |-> FALSE]
NoLine == [form |-> AtomNode(Void), before |-> Fresh, result |-> Void]

LanguageInit == script \in Scripts /\ lang = Fresh /\ vm = NoMachine /\ line = NoLine

(* Each form begins with no interruption. *)
Cleared == [lang EXCEPT !.interrupted = FALSE, !.limited = FALSE]

(* A call of a compiled function starts a machine when its arguments have  *)
(* their values, args is [s, xs, error]; other forms are walked.           *)
Calls(s, form) == form.k = "list" /\ Head(form.parts).k = "name" /\ EnvGet(s, Head(form.parts).name).t = "lambda"
Runs(s, id, args) == id # 0 /\ ~Failed(args.error) /\ IsCompiled(s.lambdas[id]) /\ Len(s.lambdas[id].params) = Len(args.xs)
Begun(s, m, x) == lang' = s /\ vm' = m /\ line' = [form |-> Head(script), before |-> Cleared, result |-> x]
Walked(got) == Begun(got.s, NoMachine, got.v)
Started(s, id, args, form) ==
  IF Runs(s, id, args) THEN Begun(s, NewMachine(s, id, args.xs), Void) ELSE Walked(Eval(Cleared, form))
Prepared(id, args, form) == Started(IF id = 0 THEN args.s ELSE WithCode(args.s, id), id, args, form)

EnterForm ==
  /\ vm = NoMachine /\ script # <<>>
  /\ LET form == Head(script)
     IN  Prepared(IF Calls(Cleared, form) THEN EnvGet(Cleared, Head(form.parts).name).v ELSE 0,
                  EvalEach([Cleared EXCEPT !.depth = 1], IF Calls(Cleared, form) THEN Tail(form.parts) ELSE <<>>), form)
  /\ script' = Tail(script)

Goes(next) == lang' = next.s /\ vm' = next.m
Continue ==
  /\ vm # NoMachine /\ ~vm.done
  /\ Goes(VmStep(lang, vm))
  /\ UNCHANGED <<script, line>>

FormDone ==
  /\ vm # NoMachine /\ vm.done
  /\ lang' = [lang EXCEPT !.depth = 0]
  /\ line' = [line EXCEPT !.result = vm.result]
  /\ vm' = NoMachine
  /\ UNCHANGED script

Three == AtomNode(Whole(3))
Interrupt ==
  /\ vm # NoMachine /\ ~lang.interrupted
  /\ Last(line.form.parts) = Three     \* bound: calls that may be interrupted
  /\ lang' = [lang EXCEPT !.interrupted = TRUE]
  /\ UNCHANGED <<script, vm, line>>

SessionEnd == vm = NoMachine /\ script = <<>> /\ UNCHANGED lvars

LanguageNext == EnterForm \/ Continue \/ FormDone \/ Interrupt \/ SessionEnd

-----------------------------------------------------------------------------
(* The meaning.  A world is [globals, fns, locals, inside, self, raised]:  *)
(* "locals" are the names of the blocks around, "inside" is whether there  *)
(* is one.  Each form gives [w, v].                                        *)
Gives(w, v) == [w |-> w, v |-> v]

RECURSIVE Means(_, _)

(* Forms in their order, up to the first that fails. *)
MeansEach(w, forms) ==
  FoldLeft(LAMBDA acc, form : IF Failed(acc.error) THEN acc
                              ELSE LET got == Means(acc.w, form)
                                   IN  IF Failed(got.v) THEN [acc EXCEPT !.w = got.w, !.error = got.v]
                                       ELSE [acc EXCEPT !.w = got.w, !.xs = Append(@, got.v)],
           [w |-> w, xs |-> <<>>, error |-> Void], forms)

Block(w, locals, self, forms) ==
  LET got == MeansEach([w EXCEPT !.locals = locals, !.inside = TRUE, !.self = self], forms)
  IN  Gives([got.w EXCEPT !.locals = w.locals, !.inside = w.inside, !.self = w.self],
            IF Failed(got.error) THEN got.error ELSE Last(got.xs))

CallMeans(w, f, args) ==
  LET fn == w.fns[f.v]
  IN  CASE f.t = "lambda" -> IF Len(args) # Len(fn.params) THEN Gives(w, Fail("arity"))
                             ELSE Block(w, [p \in ToSet(fn.params) |-> args[CHOOSE i \in DOMAIN args : fn.params[i] = p]], f.v, fn.body)
        [] f.name = "raise" -> Gives([w EXCEPT !.raised = args[1]], Fail("domain"))
        [] f.t \in {"unary", "binary", "vary"} ->
             Gives(w, IF f.name \in Atomic /\ \E i \in DOMAIN args : args[i].t = "vec" THEN OnItems(f.name, args) ELSE OnAtoms(f.name, args))
        [] OTHER -> Gives(w, Fail("type"))

(* The handler of an error that no raise has made is given 0. *)
TryMeans(w, parts) ==
  LET body == Means(w, parts[2])
      handler == Means([body.w EXCEPT !.raised = Void], parts[3])
  IN  IF ~Failed(body.v) THEN body
      ELSE IF Failed(handler.v) THEN handler
      ELSE CallMeans(handler.w, handler.v, <<IF body.w.raised = Void THEN Whole(0) ELSE body.w.raised>>)

IfMeans(w, parts) ==
  LET test == Means(w, parts[2])
  IN  CASE Failed(test.v) -> test
        [] ~Failed(test.v) /\ Truthy(test.v) -> Means(test.w, parts[3])
        [] OTHER -> IF Len(parts) = 4 THEN Means(test.w, parts[4]) ELSE Gives(test.w, Whole(0))

NameMeans(w, name, x) ==
  LET bound == [n \in {name} |-> x] IN [w EXCEPT !.locals = bound @@ @]

Means(w, form) ==
  LET parts == form.parts
      name == IF form.k = "list" THEN Head(parts).name ELSE form.name
      got == Means(w, parts[3])
      head == Means(w, Head(parts))
      args == MeansEach(head.w, Tail(parts))
  IN  CASE form.k = "atom" -> Gives(w, form.val)
        [] form.k = "name" -> Gives(w, IF name \in DOMAIN w.locals THEN w.locals[name]
                                       ELSE IF name \in DOMAIN w.globals THEN w.globals[name] ELSE Fail("name"))
        [] form.k = "list" /\ name = "do" -> Block(w, w.locals, w.self, Tail(parts))
        [] form.k = "list" /\ name = "if" -> IfMeans(w, parts)
        [] form.k = "list" /\ name = "try" -> TryMeans(w, parts)
        [] form.k = "list" /\ name = "fn" ->
             Gives([w EXCEPT !.fns = Append(@, [params |-> parts[2].names, body |-> SubSeq(parts, 3, Len(parts))])],
                   Val("lambda", Len(w.fns) + 1))
        [] form.k = "list" /\ name = "let" /\ w.inside -> IF Failed(got.v) THEN got ELSE Gives(NameMeans(got.w, parts[2].name, got.v), got.v)
        [] form.k = "list" /\ name \in {"set", "let"} /\ (name = "set" \/ ~w.inside) ->
             IF Failed(got.v) THEN got ELSE Gives([got.w EXCEPT !.globals = [n \in {parts[2].name} |-> got.v] @@ @], got.v)
        [] form.k = "list" /\ name = "self" ->
             LET each == MeansEach(w, Tail(parts))
             IN  IF Failed(each.error) THEN Gives(each.w, each.error) ELSE CallMeans(each.w, Val("lambda", w.self), each.xs)
        [] OTHER -> IF Failed(head.v) THEN head
                    ELSE IF Failed(args.error) THEN Gives(args.w, args.error) ELSE CallMeans(args.w, head.v, args.xs)

World(s) ==
  [globals |-> s.globals, fns |-> [i \in DOMAIN s.lambdas |-> [params |-> s.lambdas[i].params, body |-> s.lambdas[i].body]],
   locals |-> <<>>, inside |-> FALSE, self |-> 0, raised |-> s.raised]

(* What an expression pushes is one value, frames and traps are nested,    *)
(* and the slots of the running function are on the stack.                 *)
MachineSound ==
  vm # NoMachine /\ ~vm.done =>
    /\ vm.fp + vm.slots <= Len(vm.stack) /\ Len(vm.stack) <= VMStack /\ Len(vm.rs) <= VMStack
    /\ Instruction(lang, vm).op = "RET" => Len(vm.stack) = vm.fp + vm.slots + 1
    /\ \A i \in DOMAIN vm.rs : vm.rs[i].fp < (IF i < Len(vm.rs) THEN vm.rs[i + 1].fp ELSE vm.fp)
    /\ \A i \in DOMAIN vm.ts : LET t == vm.ts[i] IN
         /\ t.fp + t.slots <= t.sp /\ t.sp <= Len(vm.stack) /\ t.rp <= Len(vm.rs)
         /\ i > 1 => vm.ts[i - 1].rp <= t.rp /\ vm.ts[i - 1].sp <= t.sp

(* A form gives the value that it means and binds the names that it means, *)
(* whether it is walked or compiled and whatever forms came before; after  *)
(* one that met a limit or was interrupted the next forms still do.  One   *)
(* that is interrupted gives its value or an error.                        *)
LineExact ==
  LET meant == Means(World(line.before), line.form)
  IN  line.result = meant.v /\ lang.globals = meant.w.globals
FormsExact ==
  vm = NoMachine /\ line # NoLine =>
    /\ lang.scopes = <<>> /\ lang.depth = 0
    /\ ~lang.limited => LineExact
    /\ lang.interrupted => Failed(line.result) \/ LineExact

FunctionsExact == MachineSound /\ FormsExact

-----------------------------------------------------------------------------
(* Scripts. *)
A(n) == AtomNode(Whole(n))
N(name) == [AtomNode(Void) EXCEPT !.k = "name", !.name = name]
L(parts) == [AtomNode(Void) EXCEPT !.k = "list", !.parts = parts]
DoAll(forms) == L(<<N("do")>> \o forms)
If(test, then, other) == L(<<N("if"), test, then, other>>)
Use(name, args) == L(<<N(name)>> \o args)
LetTo(name, x) == L(<<N("let"), N(name), x>>)
SetName(name, x) == L(<<N("set"), N(name), x>>)
Fn(params, body) == L(<<N("fn"), [AtomNode(Void) EXCEPT !.k = "params", !.names = params]>> \o body)
Arg == N("x")
Less1(x) == Use("+", <<x, A(-1)>>)
Handler == Fn(<<"e">>, <<A(5)>>)
Again == Fn(<<"e">>, <<Use("raise", <<A(4)>>)>>)
Told == Fn(<<"e">>, <<Use("+", <<N("e"), A(1)>>)>>)

Simple == {A(1), Use("neg", <<Arg>>), Use("+", <<Arg, A(1)>>), Use("g", <<Arg>>)}
Bodies ==
  UNION {{<<If(Use(">", <<Arg, A(1)>>), a, b)>>,
          <<LetTo("y", a), Use("+", <<N("y"), b>>)>>,
          <<Use("+", <<DoAll(<<LetTo("y", a), Use("list", <<N("y"), Arg>>)>>), b>>)>>,
          <<Use("+", <<Use("try", <<a, Handler>>), b>>)>>,
          <<Use("try", <<Use("+", <<a, Use("try", <<b, Again>>)>>), Handler>>)>>}
         : a \in Simple, b \in {Arg, Use("g", <<Arg>>)}}
  \cup {<<L(<<Fn(<<"q", "u">>, <<L(<<N("q"), N("u")>>)>>), N("g"), a>>)>> : a \in Simple}
  \cup {<<Use("count", <<Use("list", <<a, L(<<N("if"), Use(">", <<Arg, A(1)>>), a>>)>>)>>)>> : a \in Simple}
Recursive ==
  {<<If(Use(">", <<Arg, A(0)>>), Use("+", <<a, Use(self, <<Less1(Arg)>>)>>), A(0))>> : a \in Simple, self \in {"self", "f"}}
  \cup {<<Use("try", <<If(Use(">", <<Arg, A(0)>>), Use("self", <<Less1(Arg)>>), Use("raise", <<Arg>>)), Handler>>)>>,
        <<Use("try", <<If(Use(">", <<Arg, A(0)>>), Use("f", <<Less1(Arg)>>), Use("g", <<Arg>>)), Handler>>)>>,
        <<SetName("k", Use("g", <<A(1)>>)), If(Use(">", <<Arg, A(0)>>), Use("self", <<Less1(Arg)>>), N("k"))>>}
ManyNames(last) == <<LetTo("p", Arg), LetTo("q", Arg), LetTo("r", Arg), LetTo("t", Arg), last>>
Helpers ==
  {Fn(<<"z">>, <<Use("+", <<N("z"), A(1)>>)>>), Fn(<<"z">>, <<Use("raise", <<N("z")>>)>>), Fn(<<"z", "w">>, <<N("z")>>),
   Fn(<<"z">>, <<If(Use(">", <<N("z"), A(1)>>), Use("f", <<Less1(N("z"))>>), N("z"))>>),
   Fn(<<"x">>, ManyNames(If(Use(">", <<Arg, A(0)>>), Use("self", <<Less1(Arg)>>), N("t")))),
   A(7)}
SetF(body) == SetName("f", Fn(<<"x">>, body))
CallF(n) == Use("f", <<A(n)>>)
SetG(g) == SetName("g", g)
AllScripts ==
  {<<SetG(g), SetF(b), CallF(2), CallF(1)>> : g \in Helpers \cup {N("neg")}, b \in Bodies \cup Recursive}
  \cup {<<SetF(b), CallF(2), SetG(g), CallF(1)>> : g \in Helpers, b \in Recursive}
  \cup {<<SetG(g), SetF(b), CallF(3), CallF(1)>> : g \in Helpers, b \in Recursive}
  \cup {<<SetG(g), SetF(b), CallF(6), CallF(1)>> : g \in Helpers, b \in Recursive}
  \cup {<<SetG(g), DoAll(<<LetTo("x", A(2))>> \o b)>> : g \in Helpers, b \in Bodies}
  \cup {<<SetG(g), Use("try", <<Use("g", <<A(2)>>), Told>>)>> : g \in Helpers}
=============================================================================
