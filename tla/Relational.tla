----------------------------- MODULE Relational -----------------------------
(***************************************************************************)
(* Queries on columns: one step asks for a sort, a join, a window or       *)
(* another operation of a small input and keeps input and answer, and the  *)
(* properties compare the answer with what the operation means.            *)
(***************************************************************************)
EXTENDS Join, Window

CONSTANTS
  NoAnswer,      \* not answered yet
  MaxRows,       \* bound: rows of a column
  Workers        \* sizes of the pool

VARIABLES
  query,         \* what is asked
  answer         \* NoAnswer until it is answered

rvars == <<query, answer>>

Cell(v) == [v |-> v, null |-> FALSE]
Null == [v |-> 0, null |-> TRUE]
Columns(cells, lengths) == UNION {[1 .. k -> cells] : k \in lengths}

-----------------------------------------------------------------------------
(* Sorting. *)
(* The least and the greatest value share their key with a null, and are   *)
(* left out beside nulls.                                                  *)
SortCells == {Cell(1 - Half), Cell(0), Cell(1), Cell(Half - 2), Null}
(* Pairs of columns that are composed by value, by rank, or not at all.    *)
TwoColumns ==
  UNION {[1 .. 2 -> [1 .. MaxRows -> {Cell(0), Cell(1)}]],
         [1 .. 2 -> [1 .. MaxRows -> {Cell(-Half), Cell(Half - 1)}]],
         [1 .. 2 -> [1 .. 2 -> {Cell(1 - Half), Cell(1), Null}]]}
MixedColumns == [1 .. 2 -> [1 .. MaxRows - 1 -> {Cell(-Half), Cell(0), Cell(1)}]]
Strings == UNION {[1 .. l -> ByteValues] : l \in 0 .. 3}

SortQuery ==
  \/ query \in [op : {"kernel"}, keys : Columns(0 .. Top, 1 .. MaxRows)]
  \/ query \in [op : {"sort"}, cols : [1 .. 1 -> Columns(SortCells, 1 .. MaxRows - 1)], T : Workers,
                 descs : [1 .. 1 -> BOOLEAN], nf : [1 .. 1 -> BOOLEAN]]
  \/ query \in [op : {"sort"}, cols : [1 .. 1 -> Columns(SortCells, MaxRows .. MaxRows)], T : {2},
                 descs : [1 .. 1 -> BOOLEAN], nf : [1 .. 1 -> BOOLEAN]]
  \/ query \in [op : {"sort"}, cols : TwoColumns, T : Workers,
                 descs : {<<FALSE, FALSE>>, <<TRUE, FALSE>>}, nf : {<<TRUE, TRUE>>}]
  \/ query \in [op : {"sort"}, cols : MixedColumns, T : {2},
                 descs : {<<FALSE, FALSE>>, <<TRUE, FALSE>>}, nf : {<<TRUE, TRUE>>}]
  \/ query \in [op : {"rank"}, col : Columns(SortCells, 1 .. 3), groups : 1 .. 3]
  \/ query \in [op : {"strings"}, strs : Columns(Strings, 3 .. 3), nulls : {{}}, desc : BOOLEAN, nf : {TRUE}]
  \/ query \in [op : {"strings"}, strs : Columns(Strings, 1 .. 2), nulls : {{}, {1}}, desc : BOOLEAN, nf : {TRUE}]

Kernel ==
  /\ query.op = "kernel" /\ answer = NoAnswer
  /\ LET pairs == Pairs(query.keys)
     IN answer' = <<HeapSort(pairs), IntroSort(pairs), RadixSort(pairs, 2, Width), MsdSort(pairs, 2, Width)>>
  /\ UNCHANGED query

(* A sort of one column also gives the sorted column. *)
SortRows ==
  /\ query.op = "sort" /\ answer = NoAnswer
  /\ answer' = [order |-> SortIndices(query.cols, query.descs, query.nf, query.T),
                column |-> IF Len(query.cols) > 1 THEN <<>>
                           ELSE SortedColumn(query.cols[1], query.descs[1], query.nf[1], query.T)]
  /\ UNCHANGED query

Rank ==
  /\ query.op = "rank" /\ answer = NoAnswer
  /\ answer' = [rank |-> RankOf(query.col, 2), xrank |-> CrossRank(query.groups, query.col)]
  /\ UNCHANGED query

SortText ==
  /\ query.op = "strings" /\ answer = NoAnswer
  /\ answer' = SortStrings(query.strs, query.nulls, query.desc, query.nf)
  /\ UNCHANGED query

-----------------------------------------------------------------------------
(* Joins: sides of one or two key columns; an as-of join has a key and a   *)
(* time.  "factorized" marks a left side out of an expansion, "oom" that   *)
(* the memory does not suffice for the partitions.                         *)
Side(keys, lengths) == UNION {[1 .. keys -> [1 .. k -> {Cell(0), Cell(1), Null}]] : k \in lengths}
TwoKeys == [1 .. 2 -> [1 .. 2 -> {Cell(1), Null}]]
TimedSide(lengths) == UNION {[1 .. 2 -> [1 .. k -> {Cell(0), Cell(1)}]] : k \in lengths}
JoinTypes == {"inner", "left", "full"}

JoinQuery ==
  \/ query \in [op : {"join"}, L : Side(1, 0 .. 3), R : Side(1, 0 .. 3), type : JoinTypes, oom : BOOLEAN]
  \/ query \in [op : {"join"}, L : TwoKeys, R : TwoKeys, type : JoinTypes, oom : {FALSE}]
  \/ query \in [op : {"anti"}, L : Side(1, 1 .. 3), R : Side(1, 1 .. 2)]
  \/ query \in [op : {"asof"}, L : TimedSide(1 .. 2), R : TimedSide(0 .. 3), type : {"inner", "left"}]

(* The orders in which the tasks of the build may insert the rows. *)
Builds(n) == {b \in [1 .. n -> 1 .. n] : IsInjective(b)}

JoinSides ==
  /\ query.op = "join" /\ answer = NoAnswer
  /\ \E built \in (IF query.oom \/ RowCount(query.R) <= RadixMin THEN Builds(RowCount(query.R)) ELSE {<<>>}) :
       LET pairs == JoinPairs(query.L, query.R, query.type, 2, built, query.oom, query.oom)
       IN  answer' = [pairs |-> pairs,
                      table |-> JoinedTable(query.L, query.R \o query.R, Len(query.R), pairs)]
  /\ UNCHANGED query

AntiJoin ==
  /\ query.op = "anti" /\ answer = NoAnswer
  /\ \E built \in Builds(RowCount(query.R)) : answer' = AntiRows(query.L, query.R, built)
  /\ UNCHANGED query

AsofJoin ==
  /\ query.op = "asof" /\ answer = NoAnswer
  /\ answer' = AsofPairs(query.L, query.R, query.type)
  /\ UNCHANGED query

-----------------------------------------------------------------------------
(* Windows: every function over one column. *)
Framed == <<"count", "sum", "avg", "min", "max", "last">>
Placed == <<"row_number", "rank", "dense_rank", "first", "ntile", "lag", "lead", "nth">>
Functions(col) ==
  LET Function(kind, whole) == [kind |-> kind, n |-> 2, whole |-> whole, col |-> col]
  IN  [i \in DOMAIN Framed |-> Function(Framed[i], TRUE)]
        \o [i \in DOMAIN Framed |-> Function(Framed[i], FALSE)]
        \o [i \in DOMAIN Placed |-> Function(Placed[i], TRUE)]

WindowQuery ==
  \/ query \in [op : {"window"}, part : [1 .. 2 -> [1 .. 3 -> {Cell(0), Cell(1)}]], T : Workers,
                 order : [1 .. 1 -> [1 .. 3 -> {Cell(0), Cell(1), Cell(3)}]],
                 col : {<<Cell(2), Null, Cell(1)>>}, desc : {FALSE}]
  \/ query \in [op : {"window"}, part : [1 .. 1 -> [1 .. 4 -> {Cell(0), Cell(1)}]], T : {2},
                 order : [1 .. 1 -> [1 .. 4 -> {Cell(0), Cell(1)}]],
                 col : {<<Null, Cell(2), Cell(1), Null>>, <<Cell(1), Null, Null, Cell(1)>>}, desc : BOOLEAN]

Descs(q) == [k \in 1 .. Len(q.part) + 1 |-> k > Len(q.part) /\ q.desc]

WindowFunctions ==
  /\ query.op = "window" /\ answer = NoAnswer
  /\ answer' = WindowColumns(query.part, query.order, Descs(query), Functions(query.col), query.T)
  /\ UNCHANGED query

Init == (WindowQuery \/ JoinQuery \/ SortQuery) /\ answer = NoAnswer
Next == \/ Kernel \/ SortRows \/ Rank \/ SortText
        \/ JoinSides \/ AntiJoin \/ AsofJoin \/ WindowFunctions
Spec == Init /\ [][Next]_rvars

-----------------------------------------------------------------------------
IsOrder(order, n) == Len(order) = n /\ ToSet(order) = 1 .. n

(* The first rows of the tasks show every digit in which keys differ.      *)
DigitsCover(keys, T) ==
  \A i, j \in DOMAIN keys : DifferingDigits(keys, i, j) \subseteq 0 .. KeyDigits(keys, T) - 1

KernelExact ==
  \A i \in DOMAIN answer :
     LET s == answer[i]
     IN  /\ IsOrder(Rows(s), Len(query.keys))
         /\ \A p \in DOMAIN s : s[p][1] = query.keys[s[p][2]]
         /\ \A p \in 2 .. Len(s) : s[p - 1][1] <= s[p][1]

OrderExact ==
  LET n == Len(query.cols[1])
      keys == [i \in 1 .. n |-> Encode(query.cols[1][i], query.descs[1], query.nf[1])]
      composed == Len(query.cols) > 1 /\ n > SmallMax
      nulls == \E k \in DOMAIN query.cols : \E i \in 1 .. n : query.cols[k][i].null
      told == IF composed THEN ~ nulls ELSE n <= IntroMax \/ DigitsCover(keys, query.T)
  IN  /\ IsOrder(answer.order, n)
      /\ told => \A p \in 2 .. n :
            CompareRows(query.cols, query.descs, query.nf, answer.order[p - 1], answer.order[p]) <= 0

ColumnExact ==
  \A p \in DOMAIN answer.order :
     LET cell == query.cols[1][answer.order[p]]
     IN  /\ answer.column[p].null = cell.null
         /\ cell.null \/ answer.column[p].v = cell.v

RankExact ==
  LET n == Len(query.col)
      Less(i, j) == CompareCells(query.col[i], query.col[j], FALSE, TRUE) < 0
      Group(g) == {i \in 1 .. n : answer.xrank[i] = g}
  IN  /\ {answer.rank[i] : i \in 1 .. n} = 0 .. n - 1
      /\ \A i, j \in 1 .. n : Less(i, j) => answer.rank[i] < answer.rank[j]
      /\ \A i \in 1 .. n : answer.xrank[i] \in 0 .. query.groups - 1
      /\ \A g, h \in 0 .. query.groups - 1 : Cardinality(Group(g)) - Cardinality(Group(h)) \in -1 .. 1

(* The string sort puts the rows in the order of their bytes, the shorter  *)
(* one first, unless neighbours share a full window and were taken for a   *)
(* run because of their lengths.                                           *)
TextExact ==
  LET n == Len(query.strs)
      live == SelectSeq(answer, LAMBDA i : i \notin query.nulls)
      bytes == PartBytes * MaxParts
      Fooled(a, b) == a # b /\ Len(a) > bytes /\ Len(b) > bytes /\ Window(a, 0, bytes) = Window(b, 0, bytes)
  IN  /\ IsOrder(answer, n)
      /\ \A p \in DOMAIN answer : answer[p] \in query.nulls =>
            p \in (IF query.nf THEN 1 .. n - Len(live) ELSE Len(live) + 1 .. n)
      /\ (\E i \in 2 .. n : Fooled(query.strs[i - 1], query.strs[i]))
           \/ \A p \in 2 .. Len(live) :
                LET a == query.strs[live[p - 1]]
                    b == query.strs[live[p]]
                IN  ~ (IF query.desc THEN SeqLess(a, b) ELSE SeqLess(b, a))

(* A sort is a permutation of the rows in the order of its comparator,     *)
(* whichever of the kernels and encodings it takes, and a column that is   *)
(* decoded from its keys is the one the order gathers.  Two cases are left *)
(* out, where the code does not keep it: digits that differ only between   *)
(* tasks, and nulls of several columns composed into one key.              *)
SortExact ==
  answer # NoAnswer =>
    CASE query.op = "kernel" -> KernelExact
      [] query.op = "sort" -> OrderExact /\ (Len(query.cols) = 1 => ColumnExact)
      [] query.op = "rank" -> RankExact
      [] query.op = "strings" -> TextExact
      [] OTHER -> TRUE

Tally(s, x) == Cardinality({i \in DOMAIN s : s[i] = x})

JoinExact ==
  LET lefts == 1 .. RowCount(query.L)
      rights == 1 .. RowCount(query.R)
      Matches(l, r) == \A k \in DOMAIN query.L : /\ query.L[k][l] = query.R[k][r]
                                                /\ ~ query.L[k][l].null
      Expected(l, r) ==
        IF l = 0 THEN query.type = "full" /\ \A x \in lefts : ~ Matches(x, r)
        ELSE IF r = 0 THEN query.type # "inner" /\ \A x \in rights : ~ Matches(l, x)
        ELSE Matches(l, r)
  IN  /\ \A l \in lefts \cup {0}, r \in rights \cup {0} :
            (l # 0 \/ r # 0) => Tally(answer.pairs, <<l, r>>) = (IF Expected(l, r) THEN 1 ELSE 0)
      /\ \A p \in DOMAIN answer.pairs, k \in DOMAIN query.L :
            answer.pairs[p][1] # 0 => answer.table[k][p] = query.L[k][answer.pairs[p][1]]

AntiExact ==
  LET Met(l) == \E r \in 1 .. RowCount(query.R) : ~ query.L[1][l].null /\ query.L[1][l] = query.R[1][r]
  IN  answer = SelectSeq([l \in 1 .. RowCount(query.L) |-> l], LAMBDA l : ~ Met(l))

(* The partner is the last right row of the key that is not later. *)
AsofExact ==
  LET time(r) == query.R[2][r].v
      Allowed(l) == {r \in 1 .. RowCount(query.R) : query.R[1][r] = query.L[1][l] /\ time(r) <= query.L[2][l].v}
      Latest(l) == IF Allowed(l) = {} THEN 0
                   ELSE CHOOSE r \in Allowed(l) : \A x \in Allowed(l) :
                           time(x) < time(r) \/ (time(x) = time(r) /\ x <= r)
      all == [l \in 1 .. RowCount(query.L) |-> <<l, Latest(l)>>]
  IN  answer = SelectSeq(all, LAMBDA p : query.type = "left" \/ p[2] # 0)

(* Whatever the tasks, the partitions, the chains and the filters: every   *)
(* pair of rows with equal keys that are not null is in the join once,     *)
(* outer joins have each lonely row once, an anti join the lonely left     *)
(* ones, and an as-of join the latest partner that is not in the future.   *)
JoinsExact ==
  answer # NoAnswer =>
    CASE query.op = "join" -> JoinExact
      [] query.op = "anti" -> AntiExact
      [] query.op = "asof" -> AsofExact
      [] OTHER -> TRUE

(* The results of a window, told by the row numbers of the answer itself:  *)
(* each partition is numbered through in the order of its columns, and the *)
(* functions are those of the rows before, in the partition.  Rows of more *)
(* partitions than the pool takes tasks are left out.                      *)
WindowExact ==
  answer # NoAnswer /\ query.op = "window" =>
    LET n == Len(query.order[1])
        functions == Functions(query.col)
        Result(kind, whole, i) ==
          answer[CHOOSE f \in DOMAIN functions : functions[f].kind = kind /\ functions[f].whole = whole][i]
        Mates(i) == {j \in 1 .. n : \A k \in DOMAIN query.part : query.part[k][j] = query.part[k][i]}
        number == [i \in 1 .. n |-> Result("row_number", TRUE, i).v]
        key(i) == IF query.desc THEN - query.order[1][i].v ELSE query.order[1][i].v
        Upto(i) == {j \in Mates(i) : number[j] <= number[i]}
        Known(S) == {j \in S : ~ query.col[j].null}
        Sum(S) == MapThenSumSet(LAMBDA j : query.col[j].v, Known(S))
        Extreme(S, r, better(_, _)) ==
          IF Known(S) = {} THEN r = NullCell
          ELSE /\ \E j \in Known(S) : query.col[j] = r
               /\ \A j \in Known(S) : better(r.v, query.col[j].v)
        NthIs(i, k, r) == IF \E j \in Mates(i) : number[j] = k
                          THEN \E j \in Mates(i) : number[j] = k /\ r = query.col[j]
                          ELSE r = NullCell
    IN  Cardinality({[k \in DOMAIN query.part |-> query.part[k][i]] : i \in 1 .. n}) <= TaskCap =>
        \A i \in 1 .. n :
          /\ {number[j] : j \in Mates(i)} = 1 .. Cardinality(Mates(i))
          /\ \A j \in Mates(i) : key(j) < key(i) => number[j] < number[i]
          /\ Result("rank", TRUE, i).v = 1 + Cardinality({j \in Mates(i) : key(j) < key(i)})
          /\ Result("dense_rank", TRUE, i).v = 1 + Cardinality({key(j) : j \in {x \in Mates(i) : key(x) < key(i)}})
          /\ Result("ntile", TRUE, i).v = IF 2 * (number[i] - 1) < Cardinality(Mates(i)) THEN 1 ELSE 2
          /\ \A whole \in BOOLEAN :
               LET S == IF whole THEN Mates(i) ELSE Upto(i)
               IN  /\ Result("count", whole, i).v = Cardinality(S)
                   /\ Result("sum", whole, i).v = Sum(S)
                   /\ Result("avg", whole, i) = IF Known(S) = {} THEN NullCell
                                                ELSE Of(<<Sum(S), Cardinality(Known(S))>>)
                   /\ Extreme(S, Result("min", whole, i), LAMBDA a, b : a <= b)
                   /\ Extreme(S, Result("max", whole, i), LAMBDA a, b : a >= b)
                   /\ NthIs(i, Cardinality(S), Result("last", whole, i))
          /\ NthIs(i, number[i] - 2, Result("lag", TRUE, i))
          /\ NthIs(i, number[i] + 2, Result("lead", TRUE, i))
          /\ NthIs(i, 1, Result("first", TRUE, i))
          /\ NthIs(i, 2, Result("nth", TRUE, i))
=============================================================================
