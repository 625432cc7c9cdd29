------------------------------ MODULE Queries ------------------------------
(***************************************************************************)
(* One session: it asks a select, asks a query over triples with rules,    *)
(* changes a table and looks at what has become of it, or defines and      *)
(* calls functions.  Queries read what the tables hold when they are asked.*)
(***************************************************************************)
EXTENDS QueryPlan, DatalogMeaning, ChangesMeaning, LanguageMeaning

RulesJob == [kind |-> "rules"]
ChangesJob == [kind |-> "changes"]
FunctionsJob == [kind |-> "functions"]
LanguageIdle == script = <<>> /\ lang = Fresh /\ vm = NoMachine /\ line = NoLine
NoSelect == answer = NoAnswer
NoRules == asked = 1 /\ db = <<>> /\ DatalogIdle
SessionInit ==
  \/ Init /\ NoRules /\ ChangesIdle /\ LanguageIdle
  \/ job = RulesJob /\ NoSelect /\ DatalogInit /\ ChangesIdle /\ LanguageIdle
  \/ job = ChangesJob /\ NoSelect /\ NoRules /\ ChangesInit /\ LanguageIdle
  \/ job = FunctionsJob /\ NoSelect /\ NoRules /\ ChangesIdle /\ LanguageInit
Planned == job \notin {RulesJob, ChangesJob, FunctionsJob} /\ Next /\ UNCHANGED <<dvars, cvars, lvars>>
Reasoned == job = RulesJob /\ DatalogNext /\ UNCHANGED <<vars, cvars, lvars>>
Altered == job = ChangesJob /\ ChangesNext /\ UNCHANGED <<vars, dvars, lvars>>
FormsEntered == job = FunctionsJob /\ LanguageNext /\ UNCHANGED <<vars, dvars, cvars>>
(* What a session holds is asked for. *)
Look(s) ==
  /\ job = ChangesJob /\ Lookable
  /\ job' = [kind |-> "select", t |-> "held", s |-> s, table |-> Columns(held)]
  /\ UNCHANGED <<answer, dvars, cvars, lvars>>
SessionNext == Planned \/ Reasoned \/ Altered \/ FormsEntered \/ \E s \in Looks : Look(s)
SessionSpec == SessionInit /\ [][SessionNext]_<<vars, dvars, cvars, lvars>>
=============================================================================
