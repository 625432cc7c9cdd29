--------------------------- MODULE ChangesMeaning ---------------------------
(***************************************************************************)
(* A session that changes a table and looks at it, and what its changes    *)
(* mean, row by row.                                                       *)
(***************************************************************************)
EXTENDS SelectMeaning, Changes

CONSTANT MaxChanges   \* changes of a session

VARIABLES
  held,     \* what is bound to 't
  globals,   \* what changes have bound to other names
  last,      \* the last change: what it was, the table before, the result
  changes    \* how many there were
cvars == <<held, globals, last, changes>>

-----------------------------------------------------------------------------
(* The changes: of a table of a, b, x and w with a null in b, or of one    *)
(* without rows.                                                           *)
Start == <<Entry("a", Flat("i64", Column1(<<1, 2, 1>>))), Entry("b", Flat("i64", <<C(5), Missing, C(7)>>)),
           Entry("x", Flat("f64", Column1(<<4, -2, 8>>))), Entry("w", Flat("str", Column1(<<7, 2, 7>>)))>>
Empty == [c \in DOMAIN Start |-> Entry(Start[c].name, Flat(Start[c].col.type, <<>>))]

I(v) == Atom("i64", C(v))
D(v) == Atom("f64", C(v))
S(v) == Atom("str", C(v))
Is(cells) == Vector("i64", cells)
Ds(s) == Vector("f64", Column1(s))
Ss(s) == Vector("str", Column1(s))
Row(k, names, values) == [k |-> k, names |-> names, values |-> values]
List(values) == Row("values", <<>>, values)
Key(name) == [k |-> "name", name |-> name, n |-> 0]
Firsts(n) == [k |-> "first", name |-> "", n |-> n]
NoKey == Firsts(0)
Two == <<Is(Column1(<<4, 1>>)), Is(<<Missing, C(2)>>), Ds(<<2, 6>>), Ss(<<5, 2>>)>>
TwoOf(names) == [i \in DOMAIN names |-> Two[CHOOSE k \in 1 .. 4 : Titles(Start)[k] = names[i]]]

Blank1 == [form |-> "insert", row |-> List(<<>>), key |-> NoKey, where |-> NoTerm, by |-> "", sets |-> <<>>]
Inserts == {[Blank1 EXCEPT !.row = row] : row \in
  { List(<<I(3), I(9), I(2), S(5)>>), List(<<I(3), Atom("i64", Missing), D(6), S(2)>>), List(<<D(4), I(9), D(2), S(5)>>),
    List(<<I(3), I(9), D(2)>>), List(Two), Row("dict", <<"b", "a">>, <<I(6), I(2)>>), Row("dict", <<"w", "b", "a">>, <<S(3), I(6), I(2)>>),
    List(<<I(3), I(9), D(2), Atom("i64", Missing)>>), Row("dict", <<"a", "z">>, <<I(2), I(6)>>),
    Row("table", <<"x", "w", "a", "b">>, TwoOf(<<"x", "w", "a", "b">>)), Row("table", <<"p", "q", "r", "s">>, Two),
    Row("table", <<"a", "b">>, SubSeq(Two, 1, 2)) }}
Upserts == {[Blank1 EXCEPT !.form = "upsert", !.key = k[1], !.row = k[2]] : k \in
  { <<Key("a"), List(<<I(1), I(8), I(3), S(4)>>)>>, <<Key("a"), List(<<I(5), Atom("i64", Missing), D(2), S(4)>>)>>,
    <<Key("z"), List(<<I(1), I(8), I(3), S(4)>>)>>, <<Firsts(2), List(<<I(1), I(7), D(3), S(4)>>)>>,
    <<Key("w"), List(<<I(1), I(8), D(3), I(4)>>)>>, <<Key("x"), List(<<I(6), I(6), I(2), S(1)>>)>>,
    <<Key("a"), List(<<I(1), D(8), D(3), S(4)>>)>>,
    <<Firsts(0), List(<<I(1), I(8), D(3), S(4)>>)>>, <<Firsts(5), List(<<I(1), I(8), D(3), S(4)>>)>>,
    <<Key("a"), List(Two)>>, <<Firsts(2), List(Two)>>, <<Key("a"), Row("dict", <<"w", "a", "x", "b">>, <<S(3), I(2), D(4), I(4)>>)>>,
    <<Key("a"), Row("dict", <<"a", "b">>, <<I(2), I(4)>>)>>, <<Key("a"), Row("table", <<"b", "a">>, TwoOf(<<"b", "a">>))>>,
    <<Key("a"), Row("table", <<"b", "w", "a">>, TwoOf(<<"b", "w", "a">>))>>,
    <<Key("w"), Row("table", <<"w", "a">>, TwoOf(<<"w", "a">>))>> }}
Unions == {[Blank1 EXCEPT !.form = f, !.row = row] : f \in {"union-all", "concat"}, row \in
  { Row("table", <<"a", "b", "x", "w">>, Two), Row("table", <<"x", "w", "a", "b">>, TwoOf(<<"x", "w", "a", "b">>)),
    Row("table", <<"a", "b", "x">>, SubSeq(Two, 1, 3)) }}

Twice2 == Call("mul", <<Col.x, Lit(2)>>)
Word == [Lit(3) EXCEPT !.type = "str"]
Half == [Lit(2) EXCEPT !.type = "f64"]
Turned == Call("reverse", <<Col.a>>)
Sets == { << <<"b", Sum2>> >>, << <<"x", Col.a>>, <<"a", Call("add", <<Col.a, Lit(1)>>)>> >>, << <<"a", Twice2>> >>,
          << <<"w", Word>>, <<"x", Lit(3)>> >>, << <<"b", Half>> >>, << <<"x", Col.b>> >>, << <<"z", Sum2>> >>, << <<"b", Turned>> >>,
          << <<"w", Col.a>> >>, << <<"b", Name("nowhere")>> >>, << <<"a", Lit(6)>>, <<"b", Col.a>> >> }
Masks == {Call("eq", <<Col.a, Lit(1)>>), Call("lt", <<Twice2, Col.a>>)}
Updates == {[Blank1 EXCEPT !.form = "update", !.where = p, !.sets = s] : p \in Masks, s \in Sets}
           \cup {[Blank1 EXCEPT !.form = "update", !.where = p, !.sets = << <<"b", Sum2>> >>] : p \in {Col.a, Turned}}
           \cup {[Blank1 EXCEPT !.form = "update", !.sets = s] :
                   s \in Sets \cup {<< <<"a", Call("sum", <<Col.a>>)>> >>, << <<"z", Turned>> >>,
                                    << <<"z", Lit(4)>>, <<"y", Call("max", <<Col.a>>)>> >>}}
           \cup {[Blank1 EXCEPT !.form = "update", !.by = k, !.sets = s] : k \in {"a", "w", "z"}, s \in
                   {<< <<"z", Call("sum", <<Col.b>>)>>, <<"y", Call("max", <<Col.x>>)>> >>, << <<"z", Call("count", <<Sum2>>)>> >>}}
AllChanges == Inserts \cup Upserts \cup Unions \cup Updates

-----------------------------------------------------------------------------
(* Columns of lists are not changed any further, and a change that fails or *)
(* gives a new table ends the session.                                      *)
Boxed(t) == \E c \in DOMAIN t : t[c].col.type = "list"

NoChange == [of |-> Blank1, before |-> <<>>, result |-> <<>>, bound |-> <<>>, quoted |-> FALSE]
ChangesIdle == held = <<>> /\ globals = <<>> /\ last = NoChange /\ changes = 0
ChangesInit == held \in {Start, Empty} /\ globals = <<>> /\ last = NoChange /\ changes = 0

Put(c, quoted, got) ==
  /\ held' = IF quoted /\ got.t # Error THEN got.t ELSE held
  /\ globals' = got.bound @@ globals
  /\ last' = [of |-> c, before |-> held, result |-> got.t, bound |-> got.bound, quoted |-> quoted]
  /\ changes' = changes + 1
Change(c, quoted) ==
  /\ changes < MaxChanges /\ ~Boxed(held)
  /\ changes > 0 => quoted /\ last.quoted /\ last.result # Error
  /\ Put(c, quoted, Changed(held, c))

Looks == {[where |-> Big, by |-> "none", keys |-> <<>>, outputs |-> << <<"s", Sum2>>, <<"w", Name("w")>> >>, sort |-> <<>>, take |-> <<>>],
          [where |-> NoTerm, by |-> "names", keys |-> <<"w">>, outputs |-> << <<"s", Call("sum", <<Col.x>>)>> >>, sort |-> <<>>, take |-> <<>>]}
Lookable == changes = MaxChanges /\ last.quoted /\ last.result # Error /\ ~Boxed(held) /\ Height(held) > 0

ChangesDone == (changes = MaxChanges \/ ~last.quoted \/ last.result = Error \/ Boxed(held)) /\ UNCHANGED cvars
ChangesNext == (\E c \in AllChanges, quoted \in BOOLEAN : Change(c, quoted)) \/ ChangesDone

-----------------------------------------------------------------------------
(* A table as names, types and rows of cells. *)
Sheet(t) == [names |-> Titles(t), types |-> [c \in DOMAIN t |-> t[c].col.type],
             rows |-> [r \in 1 .. Height(t) |-> [c \in DOMAIN t |-> Cells(t[c].col)[r]]]]

(* A vector that is inserted has the type of its column. *)
Fits(t, c, i, x) ==
  LET type == t[i].col.type
  IN  \/ x.type = type
      \/ (x.atom \/ c.form = "upsert") /\ ((type = "f64" /\ x.type = "i64") \/ \A r \in DOMAIN x.cells : x.cells[r].null)
As(type, from, cell) == IF cell.null THEN Missing ELSE C(NumberAs(type, from, cell.v))

(* The rows that are given, one cell or "none" for each column. *)
GivenRows(t, c) ==
  LET row == c.row
      At(i) == IF row.k = "values" THEN row.values[i] ELSE row.values[Place(row.names, t[i].name)]
      Has(i) == row.k = "values" \/ t[i].name \in ToSet(row.names)
      ByPlace == row.k = "table" /\ c.form = "insert"
      Of(i) == IF Has(i) THEN At(i) ELSE IF ByPlace THEN row.values[i] ELSE NoTerm
      n == Len(row.values[1].cells)
  IN  [r \in 1 .. n |-> [i \in DOMAIN t |-> IF Of(i) = NoTerm THEN NoTerm ELSE As(t[i].col.type, Of(i).type, Of(i).cells[r])]]

(* What is asked for makes sense for the table. *)
Sensible(t, c) ==
  LET row == c.row
      known == ToSet(Titles(t))
      arranged == [i \in DOMAIN t |-> IF row.k # "values" /\ t[i].name \in ToSet(row.names)
                                      THEN row.values[Place(row.names, t[i].name)] ELSE row.values[i]]
      given == {i \in DOMAIN t : row.k = "values" \/ t[i].name \in ToSet(row.names) \/ (c.form = "insert" /\ row.k = "table")}
      whole == Len(row.values) = Len(t)
      typed == \A i \in given : Fits(t, c, i, arranged[i])
  IN  CASE c.form = "insert" -> /\ row.k = "dict" \/ whole
                                /\ row.k = "dict" => ToSet(row.names) \subseteq known
                                /\ typed
        [] c.form = "upsert" -> /\ row.k = "table" \/ whole
                                /\ IF c.key.k = "name" THEN c.key.name \in known ELSE c.key.n \in 1 .. Len(t)
                                /\ row.k = "dict" => given = DOMAIN t
                                /\ typed
        [] OTHER -> /\ IF c.form = "union-all" THEN row.names = Titles(t) ELSE known \subseteq ToSet(row.names)
                    /\ typed

Replace(old, new) == [i \in DOMAIN old |-> IF new[i] = NoTerm THEN old[i] ELSE new[i]]
Filled(new) == [i \in DOMAIN new |-> IF new[i] = NoTerm THEN Missing ELSE new[i]]
MeantUpsert(t, c) ==
  LET keys == IF c.key.k = "name" THEN {Place(Titles(t), c.key.name)} ELSE 1 .. c.key.n
      OneRow(rows, new) ==
        LET same == {r \in DOMAIN rows : \A k \in keys : rows[r][k].v = new[k].v}
        IN  IF same = {} THEN Append(rows, Filled(new))
            ELSE LET r == CHOOSE q \in same : \A s \in same : q <= s IN [rows EXCEPT ![r] = Replace(@, new)]
  IN  FoldLeft(OneRow, Sheet(t).rows, GivenRows(t, c))

(* What a term gives for row r among the rows it is evaluated with.        *)
MeantTerm(T, term, rows, r) ==
  CASE IsAgg(term) -> MeantReduce(term.name, [m \in DOMAIN rows |-> Lexical(T, <<>>, term.args[1], rows[m])])
    [] term.name = "reverse" -> Cells(T[term.args[1].name])[Len(rows) + 1 - r]
    [] OTHER -> Shown(Lexical(T, <<>>, term, r))
(* Its type, told by a table of one row. *)
TermType(T, term) ==
  LET one == [n \in DOMAIN T |-> Flat(T[n].type, <<Zero>>)]
  IN  CASE term.k = "name" /\ term.name \notin DOMAIN T -> "none"
        [] term.name = "count" -> "i64"
        [] term.name = "reverse" -> T[term.args[1].name].type
        [] OTHER -> Lexical(one, <<>>, IF IsAgg(term) THEN term.args[1] ELSE term, 1).type
Single(term) == term.k = "lit" \/ IsAgg(term)

SetOf(c, name) == {i \in DOMAIN c.sets : c.sets[i][1] = name}
TermFor(c, name) == c.sets[CHOOSE i \in SetOf(c, name) : \A j \in SetOf(c, name) : i <= j][2]
(* Vectors of another type make a list of their column. *)
Mixes(t, c) == c.form = "insert" /\ last.result # Error /\ Boxed(last.result)

SensibleUpdate(t, c) ==
  LET T == Columns(t)
      FitsAs(name, type) == \/ type = T[name].type \/ (T[name].type = "f64" /\ type = "i64")
                            \/ ~Single(TermFor(c, name)) /\ {type, T[name].type} \subseteq Numeric
  IN  /\ c.where # NoTerm => TermType(T, c.where) = "bool"
      /\ IF c.by # "" THEN c.by \in DOMAIN T
         ELSE \A name \in DOMAIN T : SetOf(c, name) # {} => FitsAs(name, TermType(T, TermFor(c, name)))
      /\ c.where = NoTerm => \A i \in DOMAIN c.sets : c.sets[i][1] \notin DOMAIN T => c.sets[i][2].name # "reverse"

(* The columns after an update: the old ones, and without "where" the new  *)
(* ones in the order in which they are written.                            *)
NamesAfter(t, c) ==
  LET new == IF c.where # NoTerm THEN <<>> ELSE SelectSeq(c.sets, LAMBDA s : s[1] \notin ToSet(Titles(t)))
  IN  Titles(t) \o [i \in DOMAIN new |-> new[i][1]]
(* The type of a column, from that of the term that sets it. *)
TypeAfter(T, c, name, type) ==
  IF name \notin DOMAIN T THEN type
  ELSE IF type = "none" \/ c.where # NoTerm \/ Single(TermFor(c, name)) \/ T[name].type = "f64" THEN T[name].type ELSE type
CellsAfter(t, c, name, type, from) ==
  LET T == Columns(t)
      Among(r) == IF c.by = "" THEN Upto(Height(t))
                  ELSE Keep(Upto(Height(t)), LAMBDA q : Cells(T[c.by])[q] = Cells(T[c.by])[r])
      Hit(r) == c.where = NoTerm \/ MeantTerm(T, c.where, Upto(Height(t)), r).v # 0
  IN  [r \in 1 .. Height(t) |-> IF SetOf(c, name) = {} \/ ~Hit(r) THEN Cells(T[name])[r]
                                ELSE As(type, from, MeantTerm(T, TermFor(c, name), Among(r), r))]
SheetAfter(t, c, names, from) ==
  LET Type(i) == TypeAfter(Columns(t), c, names[i], from[i])
      columns == [i \in DOMAIN names |-> CellsAfter(t, c, names[i], Type(i), from[i])]
  IN  [names |-> names, types |-> [i \in DOMAIN names |-> Type(i)],
       rows |-> [r \in 1 .. Height(t) |-> [i \in DOMAIN names |-> columns[i][r]]]]
MeantUpdate(t, c) ==
  LET names == NamesAfter(t, c)
  IN  SheetAfter(t, c, names, [i \in DOMAIN names |->
        IF SetOf(c, names[i]) = {} THEN "none" ELSE TermType(Columns(t), TermFor(c, names[i]))])

(* A column of strings can hold no null. *)
Writable(sheet) == \A r \in DOMAIN sheet.rows, k \in DOMAIN sheet.types : sheet.types[k] = "str" => ~sheet.rows[r][k].null

MeantChange(t, c) ==
  CASE c.form = "update" -> MeantUpdate(t, c)
    [] c.form = "upsert" -> [Sheet(t) EXCEPT !.rows = MeantUpsert(t, c)]
    [] OTHER -> LET given == GivenRows(t, c) IN [Sheet(t) EXCEPT !.rows = @ \o [r \in DOMAIN given |-> Filled(given[r])]]

(* Columns that an upsert or an update with "where" writes anew, and those *)
(* of doubles that are given integers.                                     *)
Widened(T, name, term) == name \in DOMAIN T /\ T[name].type = "f64" /\ TermType(T, term) = "i64"
Rewritten(t, c, name) ==
  \/ c.form = "upsert"
  \/ c.form = "update" /\ SetOf(c, name) # {} /\ (c.where # NoTerm \/ Widened(Columns(t), name, TermFor(c, name)))
NullFree(t) == \A k \in DOMAIN t : \A r \in 1 .. Height(t) : ~Cells(t[k].col)[r].null

DoesAsMeant(t, c, meant) ==
  LET sensible == IF c.form = "update" THEN SensibleUpdate(t, c) ELSE Sensible(t, c) /\ Writable(meant)
      got == Sheet(last.result)
  IN  /\ last.result # Error /\ sensible /\ (c.by # "" => NullFree(t) /\ Height(t) > 0) =>
           /\ got.names = meant.names /\ got.types = meant.types
           /\ Len(got.rows) = Len(meant.rows)
           /\ \A r \in DOMAIN meant.rows, k \in DOMAIN meant.names :
                \/ SameCell(got.rows[r][k], meant.rows[r][k])
                \/ meant.rows[r][k].null /\ Rewritten(t, c, meant.names[k])
      /\ (last.result = Error) = (~sensible /\ ~Mixes(t, c))

(* An update hands a term that cannot be compiled, or that fails, to the   *)
(* interpreter, with all columns bound to their names.                     *)
Interpreted(T, c) ==
  /\ c.form = "update" /\ c.by = ""
  /\ \E term \in {c.where} \cup {c.sets[i][2] : i \in {j \in DOMAIN c.sets : c.sets[j][1] \in DOMAIN T}} :
       term # NoTerm /\ (term.name = "reverse" \/ TermType(T, term) = "none")

(* A change does what its rows mean or it fails and changes nothing; rows  *)
(* that it does not name keep all their cells, through inserts, upserts by *)
(* keys and updates in any order (query.c).  It binds no other variable,   *)
(* unless a term is interpreted, when all columns stay bound.  Not covered: *)
(* the nulls of columns that an upsert or an update writes anew, which are *)
(* lost (Rewritten), and groups of an update with nulls, which count as    *)
(* zeros, or of no rows, whose new columns are integers.                   *)
ChangesExact ==
  /\ last.result # Error /\ last.quoted => held = last.result
  /\ last.result = Error \/ ~last.quoted => held = last.before \/ changes = 0
  /\ changes > 0 => DoesAsMeant(last.before, last.of, MeantChange(last.before, last.of))
  /\ last.bound # <<>> => Interpreted(Columns(last.before), last.of) /\ last.bound = Columns(last.before)
=============================================================================
