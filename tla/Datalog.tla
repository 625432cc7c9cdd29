------------------------------ MODULE Datalog ------------------------------
(***************************************************************************)
(* Queries over triples with rules (ops/datalog.c): facts are asserted and *)
(* retracted, a query reads its rules, puts them into strata and evaluates *)
(* each stratum: first every rule once on the full tables, then rounds in  *)
(* which a rule sees only the new tuples of one of its atoms at a time,    *)
(* until a round brings nothing new or there were MaxRounds.               *)
(***************************************************************************)
EXTENDS DatalogRules

CONSTANTS
  MaxFacts,      \* bound: facts in the table at the same time
  MaxRounds,     \* rounds of a stratum
  Requests       \* the queries: rules, what to find and where, the facts at
                 \* first and those that may be asserted and retracted

(* Rules and bodies are lists. *)
IsList(s) == s \in Seq(ToSet(s))
ASSUME RequestsAreLists ==
  \A a \in DOMAIN Requests :
    /\ IsList(Requests[a].rules) /\ IsList(Requests[a].where)
    /\ \A r \in ToSet(Requests[a].rules) : IsList(r.body)

VARIABLES
  db,            \* the triples, in the order of their assertion
  asked,         \* the query
  phase,         \* where the evaluation is
  rules,         \* the rules of the program, that of the query last
  levels,        \* stratum of each predicate
  stratum,       \* the stratum that is evaluated
  turn,          \* next of its rules
  round,         \* rounds done
  table,         \* the tuples of each predicate
  delta,         \* those that the last round brought
  fresh,         \* what the rules of this round derived
  proof          \* provenance of each derived tuple

dvars == <<db, asked, phase, rules, levels, stratum, turn, round, table, delta, fresh, proof>>

Answer == "__query"
Predicates == DOMAIN table
Derives(p) == p # "eav"
StratumRules == {r \in DOMAIN rules : levels[rules[r].pred] = stratum}
Left == {r \in StratumRules : turn <= r}
Turn(r) == r \in Left /\ (\A q \in Left : r <= q) /\ turn' = r + 1
Members == {p \in Predicates : levels[p] = stratum /\ Derives(p)}
Nothing == [p \in Predicates |-> {}]

DatalogIdle ==
  /\ phase = "idle" /\ rules = <<>> /\ levels = Unstratified
  /\ stratum = 0 /\ turn = 1 /\ round = 0
  /\ table = Unstratified /\ delta = Unstratified /\ fresh = Unstratified /\ proof = {}
DatalogInit == asked \in DOMAIN Requests /\ db = Requests[asked].facts /\ DatalogIdle

(* A fact may be there twice; a retraction removes every copy of it. *)
AssertFact(t) ==
  /\ phase = "idle" /\ Len(db) < MaxFacts
  /\ db' = Append(db, t)
  /\ UNCHANGED <<asked, phase, rules, levels, stratum, turn, round, table, delta, fresh, proof>>
RetractFact(t) ==
  /\ phase = "idle" /\ t \in ToSet(db)
  /\ db' = SelectSeq(db, LAMBDA u : u # t)
  /\ UNCHANGED <<asked, phase, rules, levels, stratum, turn, round, table, delta, fresh, proof>>

(* The relations in the order of their registration: the triples, then the *)
(* heads of the rules (ray_query_fn, dl_add_rule).                         *)
Registers(rs) ==
  LET rels[k \in 0 .. Len(rs)] ==
        IF k = 0 THEN <<"eav">>
        ELSE IF rs[k].pred \in ToSet(rels[k - 1]) THEN rels[k - 1] ELSE Append(rels[k - 1], rs[k].pred)
  IN  rels
Registered(rs) == Registers(rs)[Len(rs)]
QueryRule(request) == RuleOf(Answer, [i \in DOMAIN request.find |-> Named(request.find[i])], request.where)
ReadRules(request) == [i \in DOMAIN request.rules |-> ReadRule(request.rules[i])] \o <<ReadRule(QueryRule(request))>>

BeginQueryRules ==
  /\ phase = "idle"
  /\ rules' = ReadRules(Requests[asked])
  /\ table' = [p \in ToSet(Registered(rules')) |-> IF p = "eav" THEN ToSet(db) ELSE {}]
  /\ phase' = "stratify"
  /\ UNCHANGED <<db, asked, levels, stratum, turn, round, delta, fresh, proof>>

Stratify ==
  /\ phase = "stratify"
  /\ levels' = Stratified(rules, Registered(rules))
  /\ phase' = IF levels' = Unstratified THEN "rejected" ELSE "initial"
  /\ UNCHANGED <<db, asked, rules, stratum, turn, round, table, delta, fresh, proof>>

(* Every rule of the stratum once, each on what the ones before it gave. *)
InitialRule(r) ==
  /\ phase = "initial" /\ Turn(r)
  /\ table' = [table EXCEPT ![rules[r].pred] = @ \cup Derived(table, rules[r])]
  /\ UNCHANGED <<db, asked, phase, rules, levels, stratum, round, delta, fresh, proof>>

(* At first every tuple is new. *)
BeginRounds ==
  /\ phase = "initial" /\ Left = {} /\ StratumRules # {}
  /\ phase' = "round" /\ turn' = 1 /\ round' = 0
  /\ delta' = [p \in Predicates |-> IF p \in Members THEN table[p] ELSE {}]
  /\ fresh' = Nothing
  /\ UNCHANGED <<db, asked, rules, levels, stratum, table, proof>>

Converged == \A p \in Members : delta[p] = {}

(* One rule of a round: for each of its atoms in turn the table of the     *)
(* atom is exchanged for the new tuples.                                   *)
Swapped(p) == [table EXCEPT ![p] = delta[p]]
FirstDeltaAtom(rule) ==
  LET i == SelectInSeq(rule.body, LAMBDA b : b.kind = "atom" /\ b.pred \in Members)
  IN  IF i = 0 \/ delta[rule.body[i].pred] = {} THEN {} ELSE {rule.body[i]}
DeltaAtoms(rule) == {b \in ToSet(rule.body) : b.kind = "atom" /\ b.pred \in Members /\ delta[b.pred] # {}}
Differences(rule) == UNION {Derived(Swapped(b.pred), rule) : b \in DeltaAtoms(rule)}
DeltaRule(r) ==
  /\ phase = "round" /\ round < MaxRounds /\ ~Converged /\ Turn(r)
  /\ fresh' = [fresh EXCEPT ![rules[r].pred] = @ \cup Differences(rules[r])]
  /\ UNCHANGED <<db, asked, phase, rules, levels, stratum, round, table, delta, proof>>

(* What is really new joins the tables and is the delta of the next round. *)
NewTuples == [p \in Predicates |-> IF p \in Members THEN fresh[p] \ table[p] ELSE {}]
MergeRound ==
  /\ phase = "round" /\ Left = {} /\ round < MaxRounds /\ ~Converged
  /\ delta' = NewTuples
  /\ table' = [p \in Predicates |-> table[p] \cup NewTuples[p]]
  /\ fresh' = Nothing
  /\ turn' = 1 /\ round' = round + 1
  /\ UNCHANGED <<db, asked, phase, rules, levels, stratum, proof>>

LastStratum == \A p \in Predicates : levels[p] <= stratum
EndStratum ==
  /\ \/ phase = "round" /\ turn = 1 /\ (Converged \/ round = MaxRounds)
     \/ phase = "initial" /\ StratumRules = {}
  /\ IF LastStratum THEN phase' = "proof" /\ UNCHANGED stratum
     ELSE phase' = "initial" /\ stratum' = stratum + 1
  /\ turn' = 1
  /\ UNCHANGED <<db, asked, rules, levels, round, table, delta, fresh, proof>>

ProvedBy(p, t, r) ==
  [pred |-> p, tuple |-> t, rule |-> r, sources |-> IF r = 0 THEN {} ELSE SourcesOf(table, rules[r], t)]
Proved(p, t) == ProvedBy(p, t, AttributedTo(table, rules, p, t))
Attribute ==
  /\ phase = "proof"
  /\ proof' = UNION {{Proved(p, t) : t \in table[p]} : p \in {q \in Predicates : Derives(q)}}
  /\ phase' = "done"
  /\ UNCHANGED <<db, asked, rules, levels, stratum, turn, round, table, delta, fresh>>

Evaluate ==
  \/ BeginQueryRules \/ Stratify \/ BeginRounds \/ MergeRound \/ EndStratum \/ Attribute
  \/ \E r \in DOMAIN rules : InitialRule(r) \/ DeltaRule(r)
Answered == phase \in {"done", "rejected"} /\ UNCHANGED dvars
DatalogNext == (\E t \in Requests[asked].changing : AssertFact(t) \/ RetractFact(t)) \/ Evaluate \/ Answered
DatalogSpec == DatalogInit /\ [][DatalogNext]_dvars

-----------------------------------------------------------------------------
(* A rule with two atoms of one predicate of its own stratum: a round sees *)
(* only the new tuples in both, so pairs of an old and a new one are lost. *)
Twice(r) == \E i, j \in DOMAIN rules[r].body :
              /\ i # j /\ IsAtom(rules[r].body[i]) /\ IsAtom(rules[r].body[j])
              /\ rules[r].body[i].pred = rules[r].body[j].pred
              /\ Derives(rules[r].body[i].pred) /\ levels[rules[r].body[i].pred] = levels[rules[r].pred]
Linear == \A r \in DOMAIN rules : ~Twice(r)
(* A rule that concludes triples: the rounds pass over its predicate. *)
FactsGiven == \A r \in DOMAIN rules : Derives(rules[r].pred)

(* The tuples before the last round. *)
Old == [p \in Predicates |-> IF p \in Members THEN table[p] \ delta[p] ELSE table[p]]

(* What a rule can derive from the tuples before the last round is there   *)
(* already: the rounds may look at the difference only.                    *)
OldTuplesClosed ==
  phase = "round" /\ turn = 1 /\ Linear /\ FactsGiven =>
    \A r \in StratumRules : Derived(Old, rules[r]) \subseteq table[rules[r].pred]
=============================================================================
