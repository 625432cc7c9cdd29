------------------------------ MODULE Changes ------------------------------
(***************************************************************************)
(* Changes of a table (query.c): update, insert and upsert, and tables     *)
(* that are put together (builtins.c, tblop.c).  A change gives a new      *)
(* table; one whose table is quoted ('t) puts it in the place of the old   *)
(* one.                                                                    *)
(*                                                                         *)
(* Here a table is the sequence of its columns [name, col], which may hold *)
(* a name twice: the first one is found.  A row to insert or upsert is     *)
(* [k, names, values]: k is "values", "dict" or "table", a value is an     *)
(* atom or a vector, and NoTerm says that there is none.                   *)
(***************************************************************************)
EXTENDS Select

CONSTANT MaxKeys   \* key columns of an upsert, 16

Absent == [v |-> 0, null |-> TRUE]
Titles(t) == [c \in DOMAIN t |-> t[c].name]
Place(names, name) == CHOOSE c \in DOMAIN names : names[c] = name /\ \A d \in 1 .. c - 1 : names[d] # name
Columns(t) == [n \in ToSet(Titles(t)) |-> t[Place(Titles(t), n)].col]
Height(t) == IF t = <<>> THEN 0 ELSE Len(Cells(t[1].col))
Entry(name, col) == [name |-> name, col |-> col]
BareCells(col) == [i \in DOMAIN Cells(col) |-> Bare(Cells(col)[i])]

(* The table with other columns under its names, if all of them are there. *)
Rebuilt(t, cols) ==
  IF \E c \in DOMAIN t : cols[c] = Error THEN Error ELSE [c \in DOMAIN t |-> Entry(t[c].name, cols[c])]

-----------------------------------------------------------------------------
(* Vectors that are put together keep their type and their nulls; vectors  *)
(* of two types become a list.                                             *)
Concat(col, x) == Flat(IF x.type = col.type THEN col.type ELSE "list", Cells(col) \o x.cells)

(* union-all compares the names in order, concat looks for them; both want *)
(* columns of one type.                                                    *)
UnionAll(t, u) ==
  IF Titles(t) # Titles(u) THEN Error
  ELSE Rebuilt(t, [c \in DOMAIN t |-> IF t[c].col.type # u[c].col.type THEN Error ELSE Concat(t[c].col, VectorOf(u[c].col))])
ConcatTables(t, u) ==
  LET Other(c) == Columns(u)[t[c].name]
  IN  Rebuilt(t, [c \in DOMAIN t |-> IF t[c].name \notin DOMAIN Columns(u) THEN Error
                                     ELSE IF t[c].col.type # Other(c).type THEN Error
                                     ELSE Concat(t[c].col, VectorOf(Other(c)))])

-----------------------------------------------------------------------------
(* What an atom becomes in a column: a null of any type is a null, but none *)
(* can be appended to strings; only integers widen, and only into doubles.  *)
CellFor(type, x) ==
  CASE x.cells[1].null -> IF type = "str" THEN Error ELSE Absent
    [] x.type = type /\ type \in {"i64", "sym", "f64", "bool", "str"} -> x.cells[1]
    [] type = "f64" /\ x.type = "i64" -> [v |-> ToDouble(x.cells[1].v), null |-> FALSE]
    [] OTHER -> Error

Longer(col, x) ==
  LET cell == CellFor(col.type, IF x = NoTerm THEN Atom(col.type, Absent) ELSE x)
  IN  IF x # NoTerm /\ ~x.atom THEN Concat(col, x)
      ELSE IF cell = Error THEN Error ELSE Flat(col.type, Append(Cells(col), cell))

(* The values of a row in the order of the columns: a dictionary is looked *)
(* up by name and may leave columns out, a table by name or else by place. *)
Arranged(t, row) ==
  LET Given(c) == t[c].name \in ToSet(row.names)
      Value(c) == row.values[Place(row.names, t[c].name)]
  IN  CASE row.k = "values" -> row.values
        [] row.k = "dict" -> IF ToSet(row.names) \subseteq ToSet(Titles(t))
                             THEN [c \in DOMAIN t |-> IF Given(c) THEN Value(c) ELSE NoTerm] ELSE Error
        [] row.k = "table" -> IF Len(row.names) # Len(t) THEN Error
                              ELSE [c \in DOMAIN t |-> IF Given(c) THEN Value(c) ELSE row.values[c]]

Insert(t, row) ==
  LET values == Arranged(t, row)
  IN  IF values = Error THEN Error
      ELSE IF Len(values) # Len(t) THEN Error
      ELSE Rebuilt(t, [c \in DOMAIN t |-> Longer(t[c].col, values[c])])

-----------------------------------------------------------------------------
(* The key of an upsert is the name of a column, or how many of the first  *)
(* columns it takes.                                                       *)
KeyPlaces(t, key) ==
  CASE key.k = "name" -> IF key.name \in ToSet(Titles(t)) THEN <<Place(Titles(t), key.name)>> ELSE Error
    [] key.k = "first" -> IF key.n \in 1 .. Least(Len(t), MaxKeys) THEN Upto(key.n) ELSE Error

(* Cells are compared by what they hold, nulls too. *)
KeyMatches(t, places, values, r) ==
  \A k \in DOMAIN places :
    LET col == t[places[k]].col
        x == values[places[k]]
        v == x.cells[1].v
    IN  Cells(col)[r].v = IF col.type = "f64" /\ x.type # "f64" THEN ToDouble(v)
                          ELSE IF col.type # "f64" /\ x.type = "f64" THEN ToInt("i64", v) ELSE v

(* The columns of the row that is found are written anew, without nulls.   *)
Replaced(col, x, row) ==
  LET cell == CellFor(col.type, x)
  IN  IF x = NoTerm THEN Flat(col.type, BareCells(col))
      ELSE IF cell = Error THEN Error ELSE Flat(col.type, [BareCells(col) EXCEPT ![row] = cell])

UpsertOne(t, key, values) ==
  LET places == KeyPlaces(t, key)
      found == {r \in 1 .. Height(t) : KeyMatches(t, places, values, r)}
      row == CHOOSE r \in found : \A s \in found : r <= s
      typed == \A k \in DOMAIN places : t[places[k]].col.type \in {"str", "sym"} =>
                                          values[places[k]].type = t[places[k]].col.type
  IN  IF Len(values) # Len(t) \/ places = Error THEN Error
      ELSE IF ~typed THEN Error
      ELSE IF found = {} THEN Insert(t, [k |-> "values", names |-> <<>>, values |-> values])
      ELSE Rebuilt(t, [c \in DOMAIN t |-> Replaced(t[c].col, values[c], row)])

(* Several rows one after the other; the first that fails ends it all.     *)
Element(x, r) == IF x = NoTerm THEN NoTerm ELSE Atom(x.type, x.cells[r])
(* Faulty variant: each row is looked for in the table that was given.     *)
UpsertFirstRow(t, key, values, n) ==
  FoldLeft(LAMBDA acc, r : IF acc = Error THEN Error
                           ELSE UpsertOne(t, key, [c \in DOMAIN values |-> Element(values[c], r)]),
           t, Upto(n))
UpsertRows(t, key, values, n) ==
  FoldLeft(LAMBDA acc, r : IF acc = Error THEN Error
                           ELSE UpsertOne(acc, key, [c \in DOMAIN values |-> Element(values[c], r)]),
           t, Upto(n))

Upsert(t, key, row) ==
  LET Given(c) == t[c].name \in ToSet(row.names)
      named == [c \in DOMAIN t |-> IF Given(c) THEN row.values[Place(row.names, t[c].name)] ELSE NoTerm]
      values == IF row.k = "values" THEN row.values ELSE named
      places == KeyPlaces(t, key)
  IN  CASE row.k = "table" -> UpsertRows(t, key, named, Len(row.values[1].cells))
        [] row.k = "dict" /\ NoTerm \in ToSet(named) -> Error
        [] Len(values) # Len(t) \/ places = Error -> Error
        [] OTHER -> IF values[places[1]].atom THEN UpsertOne(t, key, values)
                    ELSE UpsertRows(t, key, values, Len(values[places[1]].cells))

-----------------------------------------------------------------------------
(* The terms of an update are compiled and executed over the table.  One   *)
(* that is not, or fails, is interpreted with the columns bound to their   *)
(* names, and they stay bound: they are set as global variables.           *)
Workers == <<1, 2, 1, 2, 1>>   \* who reduces which task
Compute(T, term) ==
  LET c == CompileTerm(<<>>, T, <<>>, term)
  IN  IF c = NoPlan THEN Error ELSE Execute(Optimize(Query0(c.nodes, T, Workers, c.id)), NoSelection)

(* Of the functions that only the interpreter knows, "reverse" of a column *)
(* stands for all.                                                         *)
Interpret(T, term) ==
  IF term.k = "call" /\ term.name = "reverse" /\ term.args[1].k = "name" /\ term.args[1].name \in DOMAIN T
  THEN Vector(T[term.args[1].name].type, Reverse(Cells(T[term.args[1].name]))) ELSE Error

(* [x, binds]: what a term gives, Error if nothing, and what it leaves     *)
(* bound; "compiled" is what it gives when it is compiled.                 *)
Valued(T, term, compiled) ==
  IF compiled # Error THEN [x |-> compiled, binds |-> <<>>] ELSE [x |-> Interpret(T, term), binds |-> T]

Numeric == {"i64", "i32", "f64"}
Spreads(type, x) == x.type = type \/ (type = "f64" /\ x.type = "i64")
NumberAs(type, from, v) ==
  IF type = from THEN v ELSE IF type = "f64" THEN ToDouble(v) ELSE ToInt(type, v)

(* With "where": the rows of the mask take the new value in the type of    *)
(* the column; all are written anew, without nulls.  Integers of another   *)
(* width are not written at all.                                           *)
Overlaid(col, x, mask) ==
  LET Cell(i) == x.cells[IF x.atom THEN 1 ELSE i].v
      written == x.type \in {col.type, "f64"} \/ (col.type = "f64" /\ x.type = "i64")
  IN  IF ~(Spreads(col.type, x) \/ (~x.atom /\ {col.type, x.type} \subseteq Numeric)) THEN Error
      ELSE Flat(col.type, [i \in DOMAIN mask |->
             [v |-> IF mask[i] /\ written THEN NumberAs(col.type, x.type, Cell(i)) ELSE Cells(col)[i].v, null |-> FALSE]])

(* Without: a vector becomes the column, of its own type if both are       *)
(* numbers, and integers become doubles in a column of doubles.            *)
Spread(type, x, n) == Flat(type, [i \in 1 .. n |-> [v |-> NumberAs(type, x.type, x.cells[1].v), null |-> FALSE]])
Taken(col, x) ==
  IF x.atom THEN IF Spreads(col.type, x) THEN Spread(col.type, x, Len(Cells(col))) ELSE Error
  ELSE IF col.type = "f64" /\ x.type = "i64"
  THEN Flat("f64", [i \in DOMAIN x.cells |-> [v |-> ToDouble(x.cells[i].v), null |-> FALSE]])
  ELSE IF x.type = col.type \/ {col.type, x.type} \subseteq Numeric THEN ColumnOf(x) ELSE Error

(* Column after column: [t, bound], the columns so far and what was bound  *)
(* on the way; got[i] is what set i gives when it is compiled.  The mask   *)
(* is NoTerm without "where".                                              *)
ValueFor(t, sets, got, c) ==
  LET Given == {i \in DOMAIN sets : sets[i][1] = t[c].name}
      i == CHOOSE j \in Given : \A k \in Given : j <= k
  IN  IF Given = {} THEN NoTerm ELSE Valued(Columns(t), sets[i][2], got[i])
NewCol(col, x, mask) == IF x = Error THEN Error ELSE IF mask = NoTerm THEN Taken(col, x) ELSE Overlaid(col, x, mask)
NextColumn(acc, entry, value, mask) ==
  LET col == IF value = NoTerm THEN entry.col ELSE NewCol(entry.col, value.x, mask)
  IN  IF acc.t = Error THEN acc
      ELSE [t |-> IF col = Error THEN Error ELSE Append(acc.t, Entry(entry.name, col)),
            bound |-> (IF value = NoTerm THEN <<>> ELSE value.binds) @@ acc.bound]
Columnwise(t, sets, got, mask) ==
  FoldLeft(LAMBDA acc, c : NextColumn(acc, t[c], ValueFor(t, sets, got, c), mask), [t |-> <<>>, bound |-> <<>>], Upto(Len(t)))

(* New columns come last and are not interpreted. *)
WithNew(acc, name, x, n) ==
  IF acc = Error \/ x = Error THEN Error
  ELSE Append(acc, Entry(name, IF x.atom THEN Spread(x.type, x, n) ELSE ColumnOf(x)))
WithNews(acc, t, sets, got) ==
  FoldLeft(LAMBDA a, i : WithNew(a, sets[i][1], got[i], Height(t)), acc,
           Keep(Upto(Len(sets)), LAMBDA i : sets[i][1] \notin ToSet(Titles(t))))

(* All rows, or those of a mask [x, binds]. *)
UpdateAll(t, sets, got) == LET old == Columnwise(t, sets, got, NoTerm) IN [old EXCEPT !.t = WithNews(@, t, sets, got)]
UpdateWhere(t, sets, got, mask) ==
  LET is == mask.x # Error /\ mask.x.type = "bool" /\ ~mask.x.atom /\ Len(mask.x.cells) = Height(t)
      new == Columnwise(t, sets, got, Truth(mask.x))
  IN  IF is THEN [new EXCEPT !.bound = @ @@ mask.binds] ELSE [t |-> Error, bound |-> mask.binds]

-----------------------------------------------------------------------------
(* With "by": the rows of each group, in the order in which they are met,  *)
(* are a table of their own, without nulls.  What the term gives for it is *)
(* written to all of its rows; a vector is not written.  The column is     *)
(* added, also when there is one of that name.                             *)
RowsOfGroups(col) ==
  LET v == [r \in DOMAIN Cells(col) |-> IF col.type = "f64" THEN r ELSE Cells(col)[r].v]
      firsts == Keep(Upto(Len(v)), LAMBDA r : \A q \in 1 .. r - 1 : v[q] # v[r])
  IN  [g \in DOMAIN firsts |-> Keep(Upto(Len(v)), LAMBDA r : v[r] = v[firsts[g]])]

Stored(type, x) ==
  IF ~x.atom THEN [v |-> Garbage, null |-> FALSE]
  ELSE IF x.cells[1].null THEN Absent ELSE [v |-> NumberAs(type, x.type, x.cells[1].v), null |-> FALSE]

(* A column from what each group gives. *)
GroupColumn(n, groups, x) ==
  LET Of(r) == CHOOSE g \in DOMAIN groups : r \in ToSet(groups[g])
  IN  IF \E g \in DOMAIN groups : x[g] = Error THEN Error
      ELSE IF groups = <<>> THEN Flat("i64", <<>>)
      ELSE Flat(x[1].type, [r \in 1 .. n |-> Stored(x[1].type, x[Of(r)])])

UpdateBy(t, groups, sets, got) ==
  LET Column(i) == GroupColumn(Height(t), groups, got[i])
  IN  IF \E i \in DOMAIN sets : Column(i) = Error THEN Error
      ELSE t \o [i \in DOMAIN sets |-> Entry(sets[i][1], Column(i))]

(* got[i][g] is what term i gives for the rows of group g; the last term   *)
(* is that of "where".  "by" is for a table without "where".               *)
Grouping(u) == u.where = NoTerm /\ u.by # ""
Updated(t, u, groups, got) ==
  LET whole == [i \in DOMAIN got |-> got[i][1]]
  IN  IF Grouping(u) THEN [t |-> UpdateBy(t, groups, u.sets, got), bound |-> <<>>]
      ELSE IF u.where = NoTerm THEN UpdateAll(t, u.sets, whole)
      ELSE UpdateWhere(t, u.sets, whole, Valued(Columns(t), u.where, Last(whole)))
UpdateGroups(t, u, groups, terms) ==
  LET T == Columns(t)
      Part(g) == IF Grouping(u) THEN [n \in DOMAIN T |-> GatherFlat(T[n], groups[g], FALSE)] ELSE T
  IN  Updated(t, u, groups, [i \in DOMAIN terms |-> [g \in DOMAIN groups |-> Compute(Part(g), terms[i])]])
Update(t, u) ==
  IF Grouping(u) /\ u.by \notin DOMAIN Columns(t) THEN [t |-> Error, bound |-> <<>>]
  ELSE UpdateGroups(t, u, IF Grouping(u) THEN RowsOfGroups(Columns(t)[u.by]) ELSE <<Upto(Height(t))>>,
                    [i \in DOMAIN u.sets |-> u.sets[i][2]] \o IF u.where = NoTerm THEN <<>> ELSE <<u.where>>)

-----------------------------------------------------------------------------
(* One change of the table t: its result and the variables it binds.       *)
Changed(t, c) ==
  LET Plain1(x) == [t |-> x, bound |-> <<>>]
  IN  CASE c.form = "insert" -> Plain1(Insert(t, c.row))
        [] c.form = "upsert" -> Plain1(Upsert(t, c.key, c.row))
        [] c.form = "update" -> Update(t, c)
        [] c.form = "union-all" -> Plain1(UnionAll(t, [i \in DOMAIN c.row.names |-> Entry(c.row.names[i], ColumnOf(c.row.values[i]))]))
        [] c.form = "concat" -> Plain1(ConcatTables(t, [i \in DOMAIN c.row.names |-> Entry(c.row.names[i], ColumnOf(c.row.values[i]))]))
=============================================================================
