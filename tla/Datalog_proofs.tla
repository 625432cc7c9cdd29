--------------------------- MODULE Datalog_proofs ---------------------------
(***************************************************************************)
(* Proofs about Datalog: the evaluation by differences loses nothing.      *)
(*                                                                         *)
(* What a rule derives is computed by two passes over its body.  A row of  *)
(* a pass comes from one row before it and at most one tuple, so a pass    *)
(* over more tuples gives more rows, and a row of a pass over the old and  *)
(* the new tuples is one of a pass over the old ones, or of one in which a *)
(* single atom sees the new ones only.  Negated predicates are those of    *)
(* lower strata, which do not change any more.                             *)
(***************************************************************************)
EXTENDS Datalog, FoldTheorems, SequenceTheorems

-----------------------------------------------------------------------------
(* Literals. *)

\* An accumulator; two of the same columns.
Shaped(a) == a = [rows |-> a.rows, width |-> a.width, col |-> a.col]
Alike(a, c) == Shaped(a) /\ Shaped(c) /\ a.width = c.width /\ a.col = c.col

\* A literal makes the same columns whatever the tables and rows are.
LEMMA LiteralAlike ==
  ASSUME NEW T, NEW U, NEW a, NEW c, NEW b, Alike(a, c)
  PROVE  Alike(Literal(T, a, b), Literal(U, c, b))
<1>1. Shaped(a) /\ Shaped(c) /\ a.width = c.width /\ a.col = c.col
  BY DEF Alike
<1>2. CASE IsAtom(b)
  <2>1. PICK kept, x, y : /\ kept = KeptPositions(a.col, b.args)
                          /\ x = Literal(T, a, b) /\ y = Literal(U, c, b)
    OBVIOUS
  <2>2. x = [rows |-> x.rows, width |-> a.width + Len(kept), col |-> ColumnsAfter(a, b.args, kept)]
    BY <1>2, <2>1 DEF Literal, JoinAtom
  <2>3. y = [rows |-> y.rows, width |-> a.width + Len(kept), col |-> ColumnsAfter(c, b.args, kept)]
    BY <1>1, <1>2, <2>1 DEF Literal, JoinAtom
  <2>4. ColumnsAfter(a, b.args, kept) = ColumnsAfter(c, b.args, kept)
    BY <1>1 DEF ColumnsAfter
  <2> QED  BY <2>1, <2>2, <2>3, <2>4 DEF Alike, Shaped
<1>3. CASE ~IsAtom(b)
  <2>1. Literal(T, a, b) = Filtered(T, a, b) /\ Literal(U, c, b) = Filtered(U, c, b)
    BY <1>3 DEF Literal
  <2>2. Alike(AntiJoinAtom(T, a, b), AntiJoinAtom(U, c, b))
    BY <1>1 DEF AntiJoinAtom, Alike, Shaped
  <2>3. ASSUME NEW v, NEW f, NEW g PROVE Alike(WithColumn(a, v, f), WithColumn(c, v, g))
    BY <1>1 DEF WithColumn, Alike, Shaped
  <2>4. Alike(Assigned(a, b), Assigned(c, b))
    BY <1>1, <2>3 DEF Assigned, Alike
  <2>5. Alike(Tested(a, b), Tested(c, b))
    BY <1>1 DEF Tested, Alike, Shaped
  <2>6. Alike(BuiltIn(a, b), BuiltIn(c, b))
    <3>1. CASE b.pred = "before"
      <4>1. ASSUME NEW d, Shaped(d)
            PROVE  \E rows : BuiltIn(d, b) = [rows |-> rows, width |-> d.width, col |-> d.col]
        <5>1. PICK rows : rows = {r \in d.rows : r[d.col[b.args[3].v]] < r[d.col[b.args[1].v]]}
          OBVIOUS
        <5>2. BuiltIn(d, b) = [d EXCEPT !.rows = rows]
          BY <3>1, <5>1 DEF BuiltIn
        <5> QED  BY <4>1, <5>2 DEF Shaped
      <4> QED  BY <1>1, <4>1 DEF Alike, Shaped
    <3>2. CASE b.pred \in {"duration_since", "abs"}
      BY <2>3, <3>2 DEF BuiltIn
    <3>3. CASE b.pred \notin {"before", "duration_since", "abs"}
      <4>1. PICK i, j, k : i = b.args[1].v /\ j = b.args[2].v /\ k = b.args[3].v
        OBVIOUS
      <4> DEFINE Spanned(col) == [[col EXCEPT ![j] = col[i]] EXCEPT ![k] = col[i] + 1]
      <4>2. ASSUME NEW d, Shaped(d)
            PROVE  BuiltIn(d, b) = [rows |-> d.rows, width |-> d.width, col |-> Spanned(d.col)]
        <5>1. PICK e : e = [d.col EXCEPT ![j] = d.col[i]]
          OBVIOUS
        <5>2. PICK f : f = [d EXCEPT !.col = e]
          OBVIOUS
        <5>3. f = [rows |-> d.rows, width |-> d.width, col |-> e]
          BY <4>2, <5>2 DEF Shaped
        <5>4. BuiltIn(d, b) = [f EXCEPT !.col = [f.col EXCEPT ![k] = d.col[i] + 1]]
          BY <3>3, <4>1, <5>1, <5>2 DEF BuiltIn
        <5> QED  BY <5>1, <5>3, <5>4
      <4> HIDE DEF Spanned
      <4> QED  BY <1>1, <4>2 DEF Alike, Shaped
    <3> QED  BY <3>1, <3>2, <3>3
  <2> QED  BY <2>1, <2>2, <2>4, <2>5, <2>6 DEF Filtered
<1> QED  BY <1>2, <1>3

\* A row of x that a literal makes of row r and, if it is an atom, of tuple t, is made
\* of them over every other tables that have t and do not differ in what it negates.
From(T, a, b, x, r, t) ==
  /\ r \in a.rows
  /\ IsAtom(b) => t \in T[b.pred]
  /\ \A U, c : /\ Alike(a, c) /\ r \in c.rows
               /\ IsAtom(b) => t \in U[b.pred]
               /\ b.kind = "not" => U[b.pred] = T[b.pred]
               => x \in Literal(U, c, b).rows

\* Every row that a literal makes comes from one row and at most one tuple.
LEMMA LiteralRow ==
  ASSUME NEW T, NEW a, NEW b, Shaped(a), NEW x \in Literal(T, a, b).rows
  PROVE  \E r, t : From(T, a, b, x, r, t)
<1>1. CASE IsAtom(b)
  <2>1. PICK kept : kept = KeptPositions(a.col, b.args)
    OBVIOUS
  <2>2. ASSUME NEW U, NEW c, Alike(a, c)
        PROVE  Literal(U, c, b).rows
                 = {Paired(p[1], p[2], kept) :
                      p \in {q \in c.rows \X Matching(U, b) : Agrees(a.col, b.args, q[1], q[2])}}
    BY <1>1, <2>1, <2>2 DEF Literal, JoinAtom, Alike
  <2>3. Alike(a, a)
    BY DEF Alike
  <2>4. PICK p \in a.rows \X Matching(T, b) :
               Agrees(a.col, b.args, p[1], p[2]) /\ x = Paired(p[1], p[2], kept)
    BY <2>2, <2>3
  <2>5. PICK r, t : p = <<r, t>> /\ r \in a.rows /\ t \in Matching(T, b)
    OBVIOUS
  <2>6. t \in T[b.pred]
    BY <2>5 DEF Matching
  <2>7. ASSUME NEW U, NEW c, Alike(a, c), r \in c.rows, t \in U[b.pred]
        PROVE  x \in Literal(U, c, b).rows
    <3>1. t \in Matching(U, b)
      BY <2>5, <2>7 DEF Matching
    <3>2. p \in c.rows \X Matching(U, b)
      BY <2>5, <2>7, <3>1
    <3> QED  BY <2>2, <2>4, <2>7, <3>2
  <2>8. From(T, a, b, x, r, t)
    BY <1>1, <2>5, <2>6, <2>7 DEF From
  <2> QED  BY <2>8
<1>2. CASE ~IsAtom(b)
  <2>1. \A U, c : Literal(U, c, b) = Filtered(U, c, b)
    BY <1>2 DEF Literal
  <2> SUFFICES \E r \in a.rows : \A U, c :
                 Alike(a, c) /\ r \in c.rows /\ (b.kind = "not" => U[b.pred] = T[b.pred])
                 => x \in Filtered(U, c, b).rows
    BY <1>2, <2>1 DEF From
  <2>2. x \in Filtered(T, a, b).rows
    BY <2>1
  <2>3. CASE b.kind = "not"
    <3>1. ASSUME NEW U, NEW c, Alike(a, c)
          PROVE  Filtered(U, c, b).rows =
                   IF KeyPositions(a.col, b.args) = {} THEN c.rows
                   ELSE {r \in c.rows : ~\E t \in Matching(U, b) : Agrees(a.col, b.args, r, t)}
      BY <2>3, <3>1 DEF Filtered, AntiJoinAtom, Alike, Shaped
    <3>2. Alike(a, a)
      BY DEF Alike
    <3>3. \A U : U[b.pred] = T[b.pred] => Matching(U, b) = Matching(T, b)
      BY DEF Matching
    <3>4. x \in a.rows /\ (KeyPositions(a.col, b.args) # {} =>
                            ~\E t \in Matching(T, b) : Agrees(a.col, b.args, x, t))
      BY <2>2, <3>1, <3>2
    <3>5. ASSUME NEW U, NEW c, Alike(a, c), x \in c.rows, U[b.pred] = T[b.pred]
          PROVE  x \in Filtered(U, c, b).rows
      <4>1. Matching(U, b) = Matching(T, b)
        BY <3>3, <3>5
      <4> QED  BY <3>1, <3>4, <3>5, <4>1
    <3> QED  BY <2>3, <3>4, <3>5
  <2>5. CASE b.kind = "set"
    <3>1. ASSUME NEW U, NEW c, Alike(a, c)
          PROVE  Filtered(U, c, b).rows =
                   IF HasValue(a.col, b.l) THEN {Append(r, ValueIn(a.col, b.l, r)) : r \in c.rows} ELSE c.rows
      BY <2>5, <3>1 DEF Filtered, Assigned, WithColumn, Alike
    <3>2. Alike(a, a)
      BY DEF Alike
    <3>3. \E r \in a.rows : x = IF HasValue(a.col, b.l) THEN Append(r, ValueIn(a.col, b.l, r)) ELSE r
      <4>1. x \in IF HasValue(a.col, b.l) THEN {Append(r, ValueIn(a.col, b.l, r)) : r \in a.rows} ELSE a.rows
        BY <2>2, <3>1, <3>2
      <4> QED  BY <4>1
    <3>4. PICK r \in a.rows : x = IF HasValue(a.col, b.l) THEN Append(r, ValueIn(a.col, b.l, r)) ELSE r
      BY <3>3
    <3>5. \A U, c : Alike(a, c) /\ r \in c.rows => x \in Filtered(U, c, b).rows
      BY <3>1, <3>4
    <3> QED  BY <3>5
  <2>6. CASE b.kind = "test"
    <3>1. ASSUME NEW U, NEW c, Alike(a, c)
          PROVE  Filtered(U, c, b).rows =
                   IF ~HasValue(a.col, b.l) \/ ~HasValue(a.col, b.r) THEN c.rows
                   ELSE {r \in c.rows : Compared(b.pred, ValueIn(a.col, b.l, r), ValueIn(a.col, b.r, r))}
      BY <2>6, <3>1 DEF Filtered, Tested, Alike, Shaped
    <3>2. Alike(a, a)
      BY DEF Alike
    <3>3. x \in a.rows /\ \A U, c : Alike(a, c) /\ x \in c.rows => x \in Filtered(U, c, b).rows
      BY <2>2, <3>1, <3>2
    <3> QED  BY <3>3
  <2>7. CASE b.kind \notin {"not", "set", "test"}
    <3>1. \A U, c : Filtered(U, c, b) = BuiltIn(c, b)
      BY <2>7 DEF Filtered
    <3> SUFFICES \E r \in a.rows : \A c : Alike(a, c) /\ r \in c.rows => x \in BuiltIn(c, b).rows
      BY <3>1
    <3>2. x \in BuiltIn(a, b).rows
      BY <2>2, <3>1
    <3> DEFINE Col(i) == a.col[b.args[i].v]
               Change(r) == IF b.pred = "duration_since" THEN r[Col(2)] - r[Col(1)]
                            ELSE IF r[Col(1)] < 0 THEN -r[Col(1)] ELSE r[Col(1)]
    <3>3. ASSUME NEW c, Alike(a, c)
          PROVE  BuiltIn(c, b).rows =
                   IF b.pred = "before" THEN {r \in c.rows : r[Col(3)] < r[Col(1)]}
                   ELSE IF b.pred \in {"duration_since", "abs"} THEN {Append(r, Change(r)) : r \in c.rows}
                   ELSE c.rows
      BY <3>3 DEF BuiltIn, WithColumn, Alike, Shaped
    <3> HIDE DEF Change, Col
    <3>4. Alike(a, a)
      BY DEF Alike
    <3>5. x \in IF b.pred = "before" THEN {r \in a.rows : r[Col(3)] < r[Col(1)]}
               ELSE IF b.pred \in {"duration_since", "abs"} THEN {Append(r, Change(r)) : r \in a.rows}
               ELSE a.rows
      BY <3>2, <3>3, <3>4
    <3>6. PICK r \in a.rows : /\ x = IF b.pred \in {"duration_since", "abs"} THEN Append(r, Change(r)) ELSE r
                              /\ b.pred = "before" => r[Col(3)] < r[Col(1)]
      BY <3>5
    <3>7. \A c : Alike(a, c) /\ r \in c.rows => x \in BuiltIn(c, b).rows
      BY <3>3, <3>6
    <3> QED  BY <3>7
  <2> QED  BY <2>3, <2>5, <2>6, <2>7
<1> QED  BY <1>1, <1>2

-----------------------------------------------------------------------------
(* Passes over a body. *)

\* A pass is the recursion that its definition says.
PassOf(f, T, body, kinds, start) ==
  /\ f[0] = start
  /\ \A k \in 1 .. Len(body) :
       f[k] = IF body[k].kind \in kinds THEN Literal(T, f[k - 1], body[k]) ELSE f[k - 1]

\* The number before the least one of a set is not in it.
LEMMA BeforeLeast ==
  ASSUME NEW B, B \subseteq Nat, NEW m \in B, \A y \in B : m <= y, m # 0
  PROVE  m - 1 \in Nat /\ m - 1 \notin B
  OBVIOUS

LEMMA PassIs ==
  ASSUME NEW T, NEW body, Len(body) \in Nat, NEW kinds, NEW start
  PROVE  PassOf(BodyPass(T, body, kinds, start), T, body, kinds, start)
<1> DEFINE Step(k, x) == IF body[k].kind \in kinds THEN Literal(T, x, body[k]) ELSE x
           Done(m, f) == f = [k \in 0 .. m |-> IF k = 0 THEN start ELSE Step(k, f[k - 1])]
           Bad == {m \in Nat : ~\E f : Done(m, f)}
<1> HIDE DEF Step
<1>1. Bad = {}
  <2> SUFFICES ASSUME Bad # {} PROVE FALSE
    OBVIOUS
  <2>1. PICK m \in Bad : \A y \in Bad : m <= y
    BY LeastExists
  <2>2. Done(0, [k \in 0 .. 0 |-> start])
    OBVIOUS
  <2>3. m # 0 /\ m \in Nat
    BY <2>1, <2>2
  <2>4. m - 1 \in Nat /\ m - 1 \notin Bad
    <3>1. Bad \subseteq Nat
      OBVIOUS
    <3> HIDE DEF Bad
    <3> QED  BY ONLY <2>1, <2>3, <3>1, BeforeLeast
  <2>5. PICK f : Done(m - 1, f)
    BY <2>4
  <2>6. PICK g : g = [k \in 0 .. m |-> IF k = 0 THEN start ELSE Step(k, f[k - 1])]
    OBVIOUS
  <2>7. \A k \in 0 .. m - 1 : g[k] = f[k]
    BY <2>3, <2>5, <2>6
  <2>8. \A k \in 0 .. m : k # 0 => k - 1 \in 0 .. m - 1
    BY <2>3
  <2>9. Done(m, g)
    BY <2>6, <2>7, <2>8
  <2> QED  BY <2>1, <2>9
<1>2. PICK f : f = BodyPass(T, body, kinds, start)
  OBVIOUS
<1>3. f = CHOOSE g : Done(Len(body), g)
  BY <1>2 DEF BodyPass, Step
<1>4. Done(Len(body), f)
  BY <1>1, <1>3
<1>5. f[0] = start
  BY <1>4
<1>6. \A k \in 1 .. Len(body) : f[k] = Step(k, f[k - 1])
  BY <1>4
<1> QED  BY <1>2, <1>5, <1>6 DEF PassOf, Step

\* Tables U have, for a literal, the tuples of T if it is an atom, and no others if it is
\* negated.
Serves(U, T, lit) ==
  /\ IsAtom(lit) => T[lit.pred] \subseteq U[lit.pred]
  /\ lit.kind = "not" => U[lit.pred] = T[lit.pred]

\* Two passes make the same columns.
LEMMA PassesAlike ==
  ASSUME NEW T, NEW U, NEW body, Len(body) \in Nat, NEW kinds, NEW a, NEW c, Alike(a, c),
         NEW f, PassOf(f, T, body, kinds, a), NEW g, PassOf(g, U, body, kinds, c)
  PROVE  \A k \in 0 .. Len(body) : Alike(f[k], g[k])
<1> DEFINE Bad == {k \in 0 .. Len(body) : ~Alike(f[k], g[k])}
<1> SUFFICES ASSUME Bad # {} PROVE FALSE
  OBVIOUS
<1>1. Bad \subseteq Nat
  OBVIOUS
<1>2. PICK k \in Bad : \A y \in Bad : k <= y
  BY <1>1, LeastExists
<1>3. k # 0
  BY <1>2 DEF PassOf
<1>4. k \in 1 .. Len(body) /\ k - 1 \in 0 .. Len(body) /\ k - 1 \notin Bad
  BY <1>2, <1>3
<1>5. Alike(f[k - 1], g[k - 1])
  BY <1>4
<1>6. Alike(Literal(T, f[k - 1], body[k]), Literal(U, g[k - 1], body[k]))
  BY <1>5, LiteralAlike
<1> QED  BY <1>2, <1>4, <1>5, <1>6 DEF PassOf

\* A pass g over more tuples, for the first n literals, than the pass f.
Wider(f, g, T, U, body, kinds, a, c, n) ==
  /\ Len(body) \in Nat /\ n \in 0 .. Len(body)
  /\ Alike(a, c) /\ a.rows \subseteq c.rows
  /\ PassOf(f, T, body, kinds, a) /\ PassOf(g, U, body, kinds, c)
  /\ \A i \in 1 .. n : body[i].kind \in kinds => Serves(U, T, body[i])

\* It gives more rows.
LEMMA PassGrows ==
  ASSUME NEW f, NEW g, NEW T, NEW U, NEW body, NEW kinds, NEW a, NEW c, NEW n,
         Wider(f, g, T, U, body, kinds, a, c, n)
  PROVE  f[n].rows \subseteq g[n].rows
<1> USE DEF Wider
<1> DEFINE Bad == {k \in 0 .. n : ~(f[k].rows \subseteq g[k].rows)}
<1> SUFFICES ASSUME Bad # {} PROVE FALSE
  OBVIOUS
<1>1. Bad \subseteq Nat
  OBVIOUS
<1>2. PICK k \in Bad : \A y \in Bad : k <= y
  BY <1>1, LeastExists
<1>3. k # 0
  BY <1>2 DEF PassOf
<1>4. /\ k \in 1 .. n /\ k \in 1 .. Len(body)
      /\ k - 1 \in 0 .. Len(body) /\ k - 1 \in 0 .. n /\ k - 1 \notin Bad
  BY <1>2, <1>3
<1>5. f[k - 1].rows \subseteq g[k - 1].rows
  BY <1>4
<1>6. Alike(f[k - 1], g[k - 1])
  BY <1>4, PassesAlike
<1>7. CASE body[k].kind \notin kinds
  BY <1>2, <1>4, <1>5, <1>7 DEF PassOf
<1>8. CASE body[k].kind \in kinds
  <2>1. PICK x : x \in f[k].rows /\ x \notin g[k].rows
    BY <1>2
  <2>2. x \in Literal(T, f[k - 1], body[k]).rows /\ g[k] = Literal(U, g[k - 1], body[k])
    BY <1>4, <1>8, <2>1 DEF PassOf
  <2>3. PICK r, t : From(T, f[k - 1], body[k], x, r, t)
    BY <1>6, <2>2, LiteralRow DEF Alike
  <2>4. Serves(U, T, body[k])
    BY <1>4, <1>8
  <2>5. x \in Literal(U, g[k - 1], body[k]).rows
    BY <1>5, <1>6, <2>3, <2>4 DEF From, Serves
  <2> QED  BY <2>1, <2>2, <2>5
<1> QED  BY <1>7, <1>8

-----------------------------------------------------------------------------
(* Old and new tuples. *)

\* The tuples of T for a literal are those of O and, for a predicate p of P, those that
\* Sw[p] has instead; Sw[p] differs from T in nothing else, and nothing of it is negated.
Splits(T, O, Sw, P, lit) ==
  /\ IsAtom(lit) => /\ T[lit.pred] \subseteq O[lit.pred] \cup IF lit.pred \in P THEN Sw[lit.pred][lit.pred] ELSE {}
                    /\ \A p \in P : p # lit.pred => Sw[p][lit.pred] = T[lit.pred]
  /\ lit.kind = "not" => O[lit.pred] = T[lit.pred] /\ \A p \in P : Sw[p][lit.pred] = T[lit.pred]

Split(T, O, Sw, P, body) == Len(body) \in Nat /\ \A i \in 1 .. Len(body) : Splits(T, O, Sw, P, body[i])

\* No two atoms have the same predicate of P.
OnceIn(P, body) ==
  \A i, j \in 1 .. Len(body) :
    i # j /\ IsAtom(body[i]) /\ IsAtom(body[j]) /\ body[i].pred = body[j].pred => body[i].pred \notin P

\* The atoms of a body, among the first n of its literals, that have a predicate of P.
Chosen(P, body, n) == {i \in 1 .. n : IsAtom(body[i]) /\ body[i].pred \in P}

\* The passes over T, over O and over each Sw[p].
Triple(f, o, h, T, O, Sw, P, body, kinds, a, b, c) ==
  /\ PassOf(f, T, body, kinds, a) /\ PassOf(o, O, body, kinds, b)
  /\ \A p \in P : PassOf(h[p], Sw[p], body, kinds, c[p]) /\ Alike(a, c[p])
  /\ Alike(a, b)

\* The pass that joins the atoms: a row over T has old tuples only, or is a row of the
\* pass in which the last atom with a new tuple sees the new ones only.
LEMMA AtomsSplit ==
  ASSUME NEW T, NEW O, NEW P, NEW Sw, NEW body, NEW a, NEW c, NEW f, NEW o, NEW h,
         Split(T, O, Sw, P, body), OnceIn(P, body), \A p \in P : c[p] = a,
         Triple(f, o, h, T, O, Sw, P, body, AtomKinds, a, a, c)
  PROVE  \A n \in 0 .. Len(body) : \A x \in f[n].rows :
           x \in o[n].rows \/ \E i \in Chosen(P, body, n) : x \in h[body[i].pred][n].rows
<1> USE DEF Split
<1> DEFINE Good(k) == \A y \in f[k].rows :
                        y \in o[k].rows \/ \E i \in Chosen(P, body, k) : y \in h[body[i].pred][k].rows
           Bad == {k \in 0 .. Len(body) : ~Good(k)}
<1> SUFFICES ASSUME Bad # {} PROVE FALSE
  OBVIOUS
<1>1. Bad \subseteq Nat
  OBVIOUS
<1>2. PICK k \in Bad : \A y \in Bad : k <= y
  BY <1>1, LeastExists
<1>3. k # 0
  <2>1. f[0] = a /\ o[0] = a
    BY DEF Triple, PassOf
  <2> QED  BY <1>2, <2>1
<1>4. k \in 1 .. Len(body) /\ k - 1 \in 0 .. Len(body) /\ k - 1 \in Nat /\ k - 1 \notin Bad
  <2>1. k \in 1 .. Len(body) /\ k - 1 \in 0 .. Len(body) /\ k - 1 \in Nat
    BY ONLY <1>2, <1>3, Len(body) \in Nat, k \in 0 .. Len(body)
  <2> QED  BY <1>1, <1>2, <2>1
<1>5. Good(k - 1)
  BY <1>4
<1>6. PICK y \in f[k].rows : y \notin o[k].rows /\ \A i \in Chosen(P, body, k) : y \notin h[body[i].pred][k].rows
  BY <1>2
<1>7. Chosen(P, body, k - 1) \subseteq Chosen(P, body, k)
  BY <1>4 DEF Chosen
<1>8. Alike(f[k - 1], o[k - 1]) /\ \A p \in P : Alike(f[k - 1], h[p][k - 1])
  BY <1>4, PassesAlike DEF Triple
<1>9. CASE ~IsAtom(body[k])
  <2>1. f[k] = f[k - 1] /\ o[k] = o[k - 1] /\ \A p \in P : h[p][k] = h[p][k - 1]
    BY <1>4, <1>9 DEF Triple, PassOf, IsAtom, AtomKinds
  <2>2. \A i \in Chosen(P, body, k - 1) : body[i].pred \in P
    BY DEF Chosen
  <2> QED  BY <1>5, <1>6, <1>7, <2>1, <2>2
<1>10. CASE IsAtom(body[k])
  <2>1. PICK lit, q : lit = body[k] /\ q = lit.pred
    OBVIOUS
  <2>2. /\ f[k] = Literal(T, f[k - 1], lit) /\ o[k] = Literal(O, o[k - 1], lit)
        /\ \A p \in P : h[p][k] = Literal(Sw[p], h[p][k - 1], lit)
    BY <1>4, <1>10, <2>1 DEF Triple, PassOf, IsAtom, AtomKinds
  <2>3. PICK r, t : From(T, f[k - 1], lit, y, r, t)
    BY <1>6, <1>8, <2>2, LiteralRow DEF Alike
  <2>4. IsAtom(lit) /\ lit.kind # "not" /\ Splits(T, O, Sw, P, lit)
    BY <1>4, <1>10, <2>1 DEF IsAtom, AtomKinds
  <2>5. r \in f[k - 1].rows /\ t \in T[q]
    BY <2>1, <2>3, <2>4 DEF From
  <2>6. \A U, e : Alike(f[k - 1], e) /\ r \in e.rows /\ t \in U[q] => y \in Literal(U, e, lit).rows
    BY <2>1, <2>3, <2>4 DEF From
  <2>7. CASE r \in o[k - 1].rows /\ t \in O[q]
    BY <1>6, <1>8, <2>2, <2>6, <2>7
  <2>8. CASE r \in o[k - 1].rows /\ t \notin O[q]
    <3>1. q \in P /\ t \in Sw[q][q]
      BY <2>1, <2>4, <2>5, <2>8 DEF Splits
    <3>2. \A i \in 1 .. k - 1 : body[i].kind \in AtomKinds => Serves(Sw[q], T, body[i])
      <4> SUFFICES ASSUME NEW i \in 1 .. k - 1, IsAtom(body[i]) PROVE Serves(Sw[q], T, body[i])
        BY DEF IsAtom
      <4>1. i \in 1 .. Len(body) /\ i # k
        BY <1>4
      <4>2. body[i].pred # q
        BY <1>4, <1>10, <2>1, <3>1, <4>1 DEF OnceIn
      <4>3. Splits(T, O, Sw, P, body[i]) /\ body[i].kind # "not"
        BY <4>1 DEF IsAtom, AtomKinds
      <4> QED  BY <3>1, <4>2, <4>3 DEF Serves, Splits
    <3>3. f[k - 1].rows \subseteq h[q][k - 1].rows
      <4>1. Alike(a, a) /\ a.rows \subseteq a.rows
        BY DEF Triple, Alike
      <4>2. PassOf(f, T, body, AtomKinds, a) /\ PassOf(h[q], Sw[q], body, AtomKinds, a)
        BY <3>1 DEF Triple
      <4>3. Wider(f, h[q], T, Sw[q], body, AtomKinds, a, a, k - 1)
        BY <1>4, <3>2, <4>1, <4>2 DEF Wider
      <4> QED  BY ONLY <4>3, PassGrows
    <3>4. y \in h[q][k].rows
      BY <1>8, <2>2, <2>5, <2>6, <3>1, <3>3
    <3>5. k \in Chosen(P, body, k)
      BY <1>4, <1>10, <2>1, <3>1 DEF Chosen
    <3> QED  BY <1>6, <2>1, <3>4, <3>5
  <2>9. CASE r \notin o[k - 1].rows
    <3>1. PICK i \in Chosen(P, body, k - 1) : r \in h[body[i].pred][k - 1].rows
      BY <1>5, <2>5, <2>9
    <3>2. PICK p : p = body[i].pred
      OBVIOUS
    <3>3. i \in 1 .. Len(body) /\ i # k /\ IsAtom(body[i]) /\ p \in P
      BY <1>4, <3>2 DEF Chosen
    <3>4. p # q
      BY <1>4, <1>10, <2>1, <3>2, <3>3 DEF OnceIn
    <3>5. t \in Sw[p][q]
      BY <2>1, <2>4, <2>5, <3>3, <3>4 DEF Splits
    <3>6. y \in h[p][k].rows
      BY <1>8, <2>2, <2>6, <3>1, <3>2, <3>3, <3>5
    <3> QED  BY <1>6, <1>7, <3>2, <3>6
  <2> QED  BY <2>7, <2>8, <2>9
<1> QED  BY <1>9, <1>10

\* The passes of the other literals, over rows a that are those of b and of c[p] for p in S.
Covered(f, o, h, T, O, Sw, P, body, a, b, c, S) ==
  /\ Split(T, O, Sw, P, body) /\ S \subseteq P
  /\ Triple(f, o, h, T, O, Sw, P, body, OtherKinds, a, b, c)
  /\ \A y \in a.rows : y \in b.rows \/ \E p \in S : y \in c[p].rows

\* They pass the same rows whichever tuples the atoms saw.
LEMMA OthersSplit ==
  ASSUME NEW T, NEW O, NEW P, NEW Sw, NEW body, NEW a, NEW b, NEW c, NEW f, NEW o, NEW h, NEW S,
         Covered(f, o, h, T, O, Sw, P, body, a, b, c, S)
  PROVE  \A n \in 0 .. Len(body) : \A x \in f[n].rows : x \in o[n].rows \/ \E p \in S : x \in h[p][n].rows
<1> USE DEF Split, Covered
<1> DEFINE Good(k) == \A y \in f[k].rows : y \in o[k].rows \/ \E p \in S : y \in h[p][k].rows
           Bad == {k \in 0 .. Len(body) : ~Good(k)}
<1> SUFFICES ASSUME Bad # {} PROVE FALSE
  OBVIOUS
<1>1. Bad \subseteq Nat
  OBVIOUS
<1>2. PICK k \in Bad : \A y \in Bad : k <= y
  BY <1>1, LeastExists
<1>3. k # 0
  <2>1. f[0] = a /\ o[0] = b /\ \A p \in P : h[p][0] = c[p]
    BY DEF Triple, PassOf
  <2> QED  BY <1>2, <2>1
<1>4. k \in 1 .. Len(body) /\ k - 1 \in 0 .. Len(body) /\ k - 1 \notin Bad
  BY <1>2, <1>3
<1>5. Good(k - 1)
  BY <1>4
<1>6. PICK y \in f[k].rows : y \notin o[k].rows /\ \A p \in S : y \notin h[p][k].rows
  BY <1>2
<1>7. Alike(f[k - 1], o[k - 1]) /\ \A p \in P : Alike(f[k - 1], h[p][k - 1])
  BY <1>4, PassesAlike DEF Triple
<1>8. CASE IsAtom(body[k])
  <2>1. f[k] = f[k - 1] /\ o[k] = o[k - 1] /\ \A p \in P : h[p][k] = h[p][k - 1]
    BY <1>4, <1>8 DEF Triple, PassOf, IsAtom, AtomKinds, OtherKinds
  <2> QED  BY <1>5, <1>6, <2>1
<1>9. CASE ~IsAtom(body[k])
  <2>1. PICK lit : lit = body[k]
    OBVIOUS
  <2>2. /\ f[k] = Literal(T, f[k - 1], lit) /\ o[k] = Literal(O, o[k - 1], lit)
        /\ \A p \in P : h[p][k] = Literal(Sw[p], h[p][k - 1], lit)
    BY <1>4, <1>9, <2>1 DEF Triple, PassOf, IsAtom
  <2>3. PICK r, t : From(T, f[k - 1], lit, y, r, t)
    BY <1>6, <1>7, <2>2, LiteralRow DEF Alike
  <2>4. Splits(T, O, Sw, P, lit) /\ ~IsAtom(lit)
    BY <1>4, <1>9, <2>1
  <2>5. \A U, d : Alike(f[k - 1], d) /\ r \in d.rows /\ (lit.kind = "not" => U[lit.pred] = T[lit.pred])
                    => y \in Literal(U, d, lit).rows
    BY <2>3, <2>4 DEF From
  <2>6. CASE r \in o[k - 1].rows
    BY <1>6, <1>7, <2>2, <2>4, <2>5, <2>6 DEF Splits
  <2>7. CASE r \notin o[k - 1].rows
    <3>1. PICK p \in S : r \in h[p][k - 1].rows
      BY <1>5, <2>3, <2>7 DEF From
    <3>2. lit.kind = "not" => Sw[p][lit.pred] = T[lit.pred]
      BY <2>4 DEF Splits
    <3> QED  BY <1>6, <1>7, <2>2, <2>5, <3>1, <3>2
  <2> QED  BY <2>6, <2>7
<1> QED  BY <1>8, <1>9

-----------------------------------------------------------------------------
(* What a rule derives. *)

\* Predicates that the tables do not have.
Unknown(T, rule) == \E b \in ToSet(rule.body) : b.kind \in {"atom", "not"} /\ b.pred \notin DOMAIN T

\* The passes f and g over a rule, and what it derives.
Underived(T, rule) == Unknown(T, rule) \/ ~\E b \in ToSet(rule.body) : IsAtom(b)
Evaluates(T, rule, f, g, n) ==
  /\ n = Len(rule.body) /\ n \in Nat /\ DOMAIN rule.body = 1 .. n
  /\ PassOf(f, T, rule.body, AtomKinds, NoRow(rule.vars))
  /\ PassOf(g, T, rule.body, OtherKinds, f[n])
  /\ Derived(T, rule) = IF Underived(T, rule) THEN {} ELSE {HeadTuple(rule.args, g[n].col, r) : r \in g[n].rows}

\* A rule derives the heads of the rows of its passes.
LEMMA DerivedRows ==
  ASSUME NEW T, NEW rule, IsList(rule.body)
  PROVE  \E f, g, n : Evaluates(T, rule, f, g, n)
<1>1. PICK n : n = Len(rule.body)
  OBVIOUS
<1>2. n \in Nat /\ DOMAIN rule.body = 1 .. n
  BY <1>1 DEF IsList
<1>3. PICK f : f = BodyPass(T, rule.body, AtomKinds, NoRow(rule.vars))
  OBVIOUS
<1>4. PICK g : g = BodyPass(T, rule.body, OtherKinds, f[n])
  OBVIOUS
<1>5. PassOf(f, T, rule.body, AtomKinds, NoRow(rule.vars)) /\ PassOf(g, T, rule.body, OtherKinds, f[n])
  BY <1>1, <1>2, <1>3, <1>4, PassIs
<1>6. Narrowed(T, rule) = g[n]
  BY <1>1, <1>3, <1>4 DEF Narrowed, AtomRows
<1>7. Derived(T, rule) = IF Underived(T, rule) THEN {} ELSE {HeadTuple(rule.args, g[n].col, r) : r \in g[n].rows}
  <2>1. HeadTuples(rule.args, g[n]) = {HeadTuple(rule.args, g[n].col, r) : r \in g[n].rows}
    BY DEF HeadTuples
  <2>2. Derived(T, rule) = IF Underived(T, rule) THEN {} ELSE HeadTuples(rule.args, Narrowed(T, rule))
    BY DEF Derived, Underived, Unknown
  <2> QED  BY <1>6, <2>1, <2>2
<1>8. Evaluates(T, rule, f, g, n)
  BY <1>1, <1>2, <1>5, <1>7 DEF Evaluates
<1> QED  BY <1>8

\* The start of a rule.
LEMMA NoRowShaped == ASSUME NEW vars PROVE Alike(NoRow(vars), NoRow(vars))
  BY DEF NoRow, Alike, Shaped

\* A rule derives more from more tuples, as long as nothing that it negates is among them.
LEMMA DerivedGrows ==
  ASSUME NEW T, NEW U, NEW rule, IsList(rule.body), DOMAIN T = DOMAIN U,
         \A b \in ToSet(rule.body) : b.pred \in DOMAIN T => Serves(U, T, b)
  PROVE  Derived(T, rule) \subseteq Derived(U, rule)
<1>1. PICK f, g, n : Evaluates(T, rule, f, g, n)
  BY DerivedRows
<1>2. PICK h, k, m : Evaluates(U, rule, h, k, m)
  BY DerivedRows
<1> USE DEF Evaluates
<1>3. CASE Underived(T, rule)
  BY <1>1, <1>3
<1>4. CASE ~Underived(T, rule)
  <2>1. ~Underived(U, rule)
    BY <1>4 DEF Underived, Unknown
  <2>2. \A i \in 1 .. n : Serves(U, T, rule.body[i])
    <3> SUFFICES ASSUME NEW i \in 1 .. n PROVE Serves(U, T, rule.body[i])
      OBVIOUS
    <3>1. rule.body[i] \in ToSet(rule.body)
      BY <1>1 DEF ToSet
    <3>2. rule.body[i].kind \in {"atom", "not"} => rule.body[i].pred \in DOMAIN T
      BY <1>4, <3>1 DEF Underived, Unknown
    <3> QED  BY <3>1, <3>2 DEF Serves, IsAtom, AtomKinds
  <2>3. f[n].rows \subseteq h[n].rows /\ Alike(f[n], h[n])
    <3>1. PICK start : start = NoRow(rule.vars)
      OBVIOUS
    <3>2. Wider(f, h, T, U, rule.body, AtomKinds, start, start, n)
      BY <1>1, <1>2, <2>2, <3>1, NoRowShaped DEF Wider
    <3>3. f[n].rows \subseteq h[n].rows
      BY ONLY <3>2, PassGrows
    <3> QED  BY <3>2, <3>3, PassesAlike DEF Wider
  <2>4. g[n].rows \subseteq k[n].rows /\ Alike(g[n], k[n])
    <3>1. Wider(g, k, T, U, rule.body, OtherKinds, f[n], h[n], n)
      BY <1>1, <1>2, <2>2, <2>3 DEF Wider
    <3>2. g[n].rows \subseteq k[n].rows
      BY ONLY <3>1, PassGrows
    <3> QED  BY <3>1, <3>2, PassesAlike DEF Wider
  <2>5. Derived(T, rule) = {HeadTuple(rule.args, g[n].col, r) : r \in g[n].rows}
    BY <1>1, <1>4
  <2>6. Derived(U, rule) = {HeadTuple(rule.args, g[n].col, r) : r \in k[n].rows}
    BY <1>1, <1>2, <1>4, <2>1, <2>4 DEF Alike
  <2> QED  BY <2>4, <2>5, <2>6
<1> QED  BY <1>3, <1>4

\* What a rule derives from old and new tuples it derives from the old ones, or when one
\* of its atoms sees the new ones only.
LEMMA DerivedSplit ==
  ASSUME NEW T, NEW O, NEW P, NEW Sw, NEW rule, IsList(rule.body),
         DOMAIN O = DOMAIN T, \A p \in P : DOMAIN Sw[p] = DOMAIN T,
         \A b \in ToSet(rule.body) : b.pred \in DOMAIN T => Splits(T, O, Sw, P, b),
         OnceIn(P, rule.body), NEW x \in Derived(T, rule)
  PROVE  x \in Derived(O, rule)
         \/ \E b \in ToSet(rule.body) : IsAtom(b) /\ b.pred \in P /\ x \in Derived(Sw[b.pred], rule)
<1>1. PICK f, g, n : Evaluates(T, rule, f, g, n)
  BY DerivedRows
<1> USE DEF Evaluates
<1>2. PICK start, body : start = NoRow(rule.vars) /\ body = rule.body
  OBVIOUS
<1>3. ~Unknown(T, rule) /\ \E b \in ToSet(rule.body) : IsAtom(b)
  BY <1>1 DEF Underived
<1>4. \A U : DOMAIN U = DOMAIN T => ~Unknown(U, rule)
  BY <1>3 DEF Unknown
<1>5. \A i \in 1 .. n : Splits(T, O, Sw, P, body[i]) /\ body[i] \in ToSet(body)
  <2> SUFFICES ASSUME NEW i \in 1 .. n PROVE Splits(T, O, Sw, P, body[i]) /\ body[i] \in ToSet(body)
    OBVIOUS
  <2>1. body[i] \in ToSet(body)
    BY <1>1, <1>2 DEF ToSet
  <2>2. body[i].kind \in {"atom", "not"} => body[i].pred \in DOMAIN T
    BY <1>2, <1>3, <2>1 DEF Unknown
  <2> QED  BY <1>2, <2>1, <2>2 DEF Splits, IsAtom, AtomKinds
<1>6. PICK F : F = [p \in P |-> BodyPass(Sw[p], body, AtomKinds, start)]
  OBVIOUS
<1>7. PICK G : G = [p \in P |-> BodyPass(Sw[p], body, OtherKinds, F[p][n])]
  OBVIOUS
<1>8. PICK o, oo : o = BodyPass(O, body, AtomKinds, start) /\ oo = BodyPass(O, body, OtherKinds, o[n])
  OBVIOUS
<1>9. PICK starts : /\ \A p \in P : starts[p] = start
                    /\ Triple(f, o, F, T, O, Sw, P, body, AtomKinds, start, start, starts)
  <2>1. PassOf(o, O, body, AtomKinds, start) /\ \A p \in P : PassOf(F[p], Sw[p], body, AtomKinds, start)
    BY <1>1, <1>2, <1>6, <1>8, PassIs
  <2>2. PICK starts : starts = [p \in P |-> start]
    OBVIOUS
  <2>3. Triple(f, o, F, T, O, Sw, P, body, AtomKinds, start, start, starts)
    BY <1>1, <1>2, <2>1, <2>2, NoRowShaped DEF Triple
  <2> QED  BY <2>2, <2>3
<1>10. Alike(f[n], o[n]) /\ \A p \in P : Alike(f[n], F[p][n])
  <2>1. n \in 0 .. Len(body)
    BY <1>1, <1>2
  <2> QED  BY <1>1, <1>2, <1>9, <2>1, PassesAlike DEF Triple
<1>11. PICK c : c = [p \in P |-> F[p][n]]
  OBVIOUS
<1>12. Triple(g, oo, G, T, O, Sw, P, body, OtherKinds, f[n], o[n], c)
  <2>1. PassOf(oo, O, body, OtherKinds, o[n]) /\ \A p \in P : PassOf(G[p], Sw[p], body, OtherKinds, F[p][n])
    BY <1>1, <1>2, <1>7, <1>8, PassIs
  <2> QED  BY <1>1, <1>2, <1>10, <1>11, <2>1 DEF Triple
<1>13. Alike(g[n], oo[n]) /\ \A p \in P : Alike(g[n], G[p][n])
  <2>1. n \in 0 .. Len(body)
    BY <1>1, <1>2
  <2> QED  BY <1>1, <1>2, <1>12, <2>1, PassesAlike DEF Triple
<1>14. PICK S : S = {body[i].pred : i \in Chosen(P, body, n)}
  OBVIOUS
<1>15. S \in SUBSET P
  BY <1>14 DEF Chosen
<1>16. \A y \in f[n].rows : y \in o[n].rows \/ \E p \in S : y \in c[p].rows
  <2>1. n \in 0 .. Len(body) /\ Split(T, O, Sw, P, body) /\ OnceIn(P, body)
    BY <1>1, <1>2, <1>5 DEF Split
  <2>2. \A y \in f[n].rows : y \in o[n].rows \/ \E i \in Chosen(P, body, n) : y \in F[body[i].pred][n].rows
    BY ONLY <1>9, <2>1, AtomsSplit
  <2> QED  BY <1>11, <1>14, <1>15, <2>2
<1>17. \A y \in g[n].rows : y \in oo[n].rows \/ \E p \in S : y \in G[p][n].rows
  <2>1. n \in 0 .. Len(body) /\ Split(T, O, Sw, P, body)
    BY <1>1, <1>2, <1>5 DEF Split
  <2>2. S \subseteq P
    BY <1>15
  <2>3. \A m \in 0 .. Len(body) : \A y \in g[m].rows : y \in oo[m].rows \/ \E p \in S : y \in G[p][m].rows
    <3>1. Covered(g, oo, G, T, O, Sw, P, body, f[n], o[n], c, S)
      BY <1>12, <1>16, <2>1, <2>2 DEF Covered
    <3> QED  BY ONLY <3>1, OthersSplit
  <2> QED  BY <2>1, <2>3
<1>18. PICK r \in g[n].rows : x = HeadTuple(rule.args, g[n].col, r)
  BY <1>1, <1>3 DEF Underived
<1>19. Derived(O, rule) = {HeadTuple(rule.args, g[n].col, y) : y \in oo[n].rows}
  <2>1. Narrowed(O, rule) = oo[n]
    BY <1>1, <1>2, <1>8 DEF Narrowed, AtomRows
  <2> QED  BY <1>3, <1>4, <1>13, <2>1 DEF Derived, Unknown, HeadTuples, Alike
<1>20. ASSUME NEW p \in P PROVE Derived(Sw[p], rule) = {HeadTuple(rule.args, g[n].col, y) : y \in G[p][n].rows}
  <2>1. Narrowed(Sw[p], rule) = G[p][n]
    BY <1>1, <1>2, <1>6, <1>7 DEF Narrowed, AtomRows
  <2>2. ~Unknown(Sw[p], rule)
    BY <1>4
  <2> QED  BY <1>3, <1>13, <2>1, <2>2 DEF Derived, Unknown, HeadTuples, Alike
<1>21. \A p \in S : \E b \in ToSet(rule.body) : IsAtom(b) /\ b.pred = p
  BY <1>2, <1>5, <1>14 DEF Chosen
<1> QED  BY <1>15, <1>17, <1>18, <1>19, <1>20, <1>21

-----------------------------------------------------------------------------
(* Strata. *)

LEMMA LiftsIs ==
  ASSUME NEW rs, NEW rels, Len(rels) \in Nat, NEW start
  PROVE  /\ Lifts(rs, rels, start)[0] = start
         /\ \A i \in 1 .. Len(rels) * Len(rels) :
              Lifts(rs, rels, start)[i]
                = Lift(rs, Lifts(rs, rels, start)[i - 1], HeadAt(rels, i), BodyAt(rels, i))
<1> DEFINE Step(k, x) == Lift(rs, x, HeadAt(rels, k), BodyAt(rels, k))
           Done(m, f) == f = [k \in 0 .. m |-> IF k = 0 THEN start ELSE Step(k, f[k - 1])]
           Bad == {m \in Nat : ~\E f : Done(m, f)}
<1> HIDE DEF Step
<1>1. Bad = {}
  <2> SUFFICES ASSUME Bad # {} PROVE FALSE
    OBVIOUS
  <2>1. PICK m \in Bad : \A y \in Bad : m <= y
    BY LeastExists
  <2>2. Done(0, [k \in 0 .. 0 |-> start])
    OBVIOUS
  <2>3. m # 0 /\ m \in Nat
    BY <2>1, <2>2
  <2>4. m - 1 \in Nat /\ m - 1 \notin Bad
    <3>1. Bad \subseteq Nat
      OBVIOUS
    <3> HIDE DEF Bad
    <3> QED  BY ONLY <2>1, <2>3, <3>1, BeforeLeast
  <2>5. PICK f : Done(m - 1, f)
    BY <2>4
  <2>6. PICK g : g = [k \in 0 .. m |-> IF k = 0 THEN start ELSE Step(k, f[k - 1])]
    OBVIOUS
  <2>7. \A k \in 0 .. m - 1 : g[k] = f[k]
    BY <2>3, <2>5, <2>6
  <2>8. \A k \in 0 .. m : k # 0 => k - 1 \in 0 .. m - 1
    BY <2>3
  <2>9. Done(m, g)
    BY <2>6, <2>7, <2>8
  <2> QED  BY <2>1, <2>9
<1>2. PICK n \in Nat : n = Len(rels) * Len(rels)
  OBVIOUS
<1>3. PICK f : f = Lifts(rs, rels, start)
  OBVIOUS
<1>4. f = CHOOSE g : Done(n, g)
  BY <1>2, <1>3 DEF Lifts, Step
<1>5. Done(n, f)
  BY <1>1, <1>4
<1>6. f[0] = start
  BY <1>5
<1>7. \A k \in 1 .. n : f[k] = Step(k, f[k - 1])
  BY <1>5
<1> QED  BY <1>2, <1>3, <1>6, <1>7 DEF Step

LEMMA LevelsAfterIs ==
  ASSUME NEW rs, NEW rels, Len(rels) \in Nat
  PROVE  /\ LevelsAfter(rs, rels)[0] = [p \in ToSet(rels) |-> 0]
         /\ \A i \in 1 .. Len(rels) + 1 :
              LevelsAfter(rs, rels)[i] = PassOver(rs, rels, LevelsAfter(rs, rels)[i - 1])
<1> DEFINE Step(x) == PassOver(rs, rels, x)
           Done(m, f) == f = [k \in 0 .. m |-> IF k = 0 THEN [p \in ToSet(rels) |-> 0] ELSE Step(f[k - 1])]
           Bad == {m \in Nat : ~\E f : Done(m, f)}
<1> HIDE DEF Step
<1>1. Bad = {}
  <2> SUFFICES ASSUME Bad # {} PROVE FALSE
    OBVIOUS
  <2>1. PICK m \in Bad : \A y \in Bad : m <= y
    BY LeastExists
  <2>2. Done(0, [k \in 0 .. 0 |-> [p \in ToSet(rels) |-> 0]])
    OBVIOUS
  <2>3. m # 0 /\ m \in Nat
    BY <2>1, <2>2
  <2>4. m - 1 \in Nat /\ m - 1 \notin Bad
    <3>1. Bad \subseteq Nat
      OBVIOUS
    <3> HIDE DEF Bad
    <3> QED  BY ONLY <2>1, <2>3, <3>1, BeforeLeast
  <2>5. PICK f : Done(m - 1, f)
    BY <2>4
  <2>6. PICK g : g = [k \in 0 .. m |-> IF k = 0 THEN [p \in ToSet(rels) |-> 0] ELSE Step(f[k - 1])]
    OBVIOUS
  <2>7. \A k \in 0 .. m - 1 : g[k] = f[k]
    BY <2>3, <2>5, <2>6
  <2>8. \A k \in 0 .. m : k # 0 => k - 1 \in 0 .. m - 1
    BY <2>3
  <2>9. Done(m, g)
    BY <2>6, <2>7, <2>8
  <2> QED  BY <2>1, <2>9
<1>2. PICK n \in Nat : n = Len(rels) + 1
  OBVIOUS
<1>3. PICK f : f = LevelsAfter(rs, rels)
  OBVIOUS
<1>4. f = CHOOSE g : Done(n, g)
  BY <1>2, <1>3 DEF LevelsAfter, Step
<1>5. Done(n, f)
  BY <1>1, <1>4
<1>6. f[0] = [p \in ToSet(rels) |-> 0]
  BY <1>5
<1>7. \A k \in 1 .. n : f[k] = Step(f[k - 1])
  BY <1>5
<1> QED  BY <1>2, <1>3, <1>6, <1>7 DEF Step

\* Levels that are nowhere lower.
Raised(S, l, m) == l \in [S -> Nat] /\ m \in [S -> Nat] /\ \A p \in S : l[p] <= m[p]

LEMMA LiftRaises ==
  ASSUME NEW rs, NEW S, NEW l \in [S -> Nat], NEW p \in S, NEW q \in S
  PROVE  Raised(S, l, Lift(rs, l, p, q))
<1>1. l[p] \in Nat /\ l[q] \in Nat
  OBVIOUS
<1>2. ASSUME NEW n \in Nat, l[p] <= n PROVE Raised(S, l, [l EXCEPT ![p] = n])
  BY <1>1, <1>2 DEF Raised
<1>3. Raised(S, l, l)
  <2>1. \A x \in S : l[x] \in Nat
    OBVIOUS
  <2> QED  BY <2>1 DEF Raised
<1>5. CASE Depends(rs, p, q) = 2 /\ l[p] <= l[q]
  <2>1. Lift(rs, l, p, q) = [l EXCEPT ![p] = l[q] + 1]
    BY <1>5 DEF Lift
  <2>2. PICK n \in Nat : n = l[q] + 1 /\ l[p] <= n
    BY <1>1, <1>5
  <2> QED  BY <1>2, <2>1, <2>2
<1>6. CASE Depends(rs, p, q) = 1 /\ l[p] < l[q]
  <2>1. Lift(rs, l, p, q) = [l EXCEPT ![p] = l[q]]
    BY <1>6 DEF Lift
  <2>2. PICK n \in Nat : n = l[q] /\ l[p] <= n
    BY <1>1, <1>6
  <2> QED  BY <1>2, <2>1, <2>2
<1>7. CASE ~(Depends(rs, p, q) = 2 /\ l[p] <= l[q]) /\ ~(Depends(rs, p, q) = 1 /\ l[p] < l[q])
  <2>1. Lift(rs, l, p, q) = l
    BY <1>7 DEF Lift
  <2> QED  BY <1>3, <2>1
<1> QED  BY <1>5, <1>6, <1>7

\* A lift that changes nothing respects the dependency.
Respects(l, d, p, q) == (d = 2 => l[q] < l[p]) /\ (d = 1 => l[q] <= l[p])

LEMMA LiftStays ==
  ASSUME NEW rs, NEW S, NEW l \in [S -> Nat], NEW p \in S, NEW q \in S, Lift(rs, l, p, q) = l
  PROVE  Respects(l, Depends(rs, p, q), p, q)
<1>1. l[p] \in Nat /\ l[q] \in Nat
  OBVIOUS
<1>2. \A n : [l EXCEPT ![p] = n] = l => n = l[p]
  OBVIOUS
<1>3. PICK d : d = Depends(rs, p, q)
  OBVIOUS
<1>4. CASE d = 2 /\ l[p] <= l[q]
  BY <1>1, <1>2, <1>3, <1>4 DEF Lift
<1>5. CASE d = 1 /\ l[p] < l[q]
  BY <1>1, <1>2, <1>3, <1>5 DEF Lift
<1> QED  BY <1>1, <1>3, <1>4, <1>5 DEF Respects

\* A number as a pair of a row and a column.
LEMMA RowAndColumn ==
  ASSUME NEW n \in Nat, NEW a \in 1 .. n, NEW b \in 1 .. n
  PROVE  \E i \in 1 .. n * n : (i - 1) \div n = a - 1 /\ (i - 1) % n = b - 1
<1>1. PICK k \in Nat : k = (a - 1) * n
  OBVIOUS
<1>2. k + b \in 1 .. n * n
  <2>1. PICK c \in Nat : c = n - a
    OBVIOUS
  <2>2. n * n = (a - 1) * n + n + c * n /\ c * n \in Nat
    BY <2>1
  <2> QED  BY <1>1, <2>2
<1>3. PICK x \in Nat : x = (k + b) - 1 /\ x = k + (b - 1)
  BY <1>1
<1>4. PICK d, m : d = x \div n /\ m = x % n
  OBVIOUS
<1>5. d \in Nat /\ m \in 0 .. n - 1 /\ x = d * n + m
  BY <1>3, <1>4
<1>6. d = a - 1
  <2>1. CASE d < a - 1
    <3>1. PICK c \in Nat : a - 1 = d + 1 + c
      <4>1. (a - 1) - (d + 1) \in Nat
        BY <1>5, <2>1
      <4> QED  BY <1>5, <4>1
    <3>2. (a - 1) * n = d * n + n + c * n /\ c * n \in Nat
      BY <1>5, <3>1
    <3> QED  BY <1>1, <1>3, <1>5, <3>2
  <2>2. CASE d > a - 1
    <3>1. PICK c \in Nat : d = (a - 1) + 1 + c
      <4>1. d - ((a - 1) + 1) \in Nat
        BY <1>5, <2>2
      <4> QED  BY <1>5, <4>1
    <3>2. d * n = (a - 1) * n + n + c * n /\ c * n \in Nat
      BY <1>5, <3>1
    <3> QED  BY <1>1, <1>3, <1>5, <3>2
  <2> QED  BY <1>5, <2>1, <2>2
<1>7. m = b - 1
  BY <1>1, <1>3, <1>5, <1>6
<1> QED  BY <1>2, <1>3, <1>4, <1>6, <1>7

\* A pass over the pairs of relations raises; if it changes nothing, every lift of it does not.
LEMMA PassRaises ==
  ASSUME NEW rs, NEW rels, IsList(rels), NEW l \in [ToSet(rels) -> Nat]
  PROVE  /\ Raised(ToSet(rels), l, PassOver(rs, rels, l))
         /\ PassOver(rs, rels, l) = l =>
              \A p, q \in ToSet(rels) : Respects(l, Depends(rs, p, q), p, q)
<1>1. PICK n \in Nat : n = Len(rels) /\ DOMAIN rels = 1 .. n
  BY DEF IsList
<1>2. PICK nn \in Nat : nn = n * n
  OBVIOUS
<1>3. PICK S : S = ToSet(rels)
  OBVIOUS
<1>4. PICK f : f = Lifts(rs, rels, l)
  OBVIOUS
<1>5. f[0] = l /\ f[nn] = PassOver(rs, rels, l)
  BY <1>1, <1>2, <1>4, LiftsIs DEF PassOver
<1>6. \A i \in 1 .. nn : f[i] = Lift(rs, f[i - 1], HeadAt(rels, i), BodyAt(rels, i))
  BY <1>1, <1>2, <1>4, LiftsIs
<1>7. ASSUME NEW i \in 1 .. nn PROVE HeadAt(rels, i) \in S /\ BodyAt(rels, i) \in S
  <2>1. PICK x \in Nat : x = i - 1 /\ x < nn
    OBVIOUS
  <2>2. n # 0
    BY <1>2, <2>1
  <2>3. PICK d, m : d = x \div n /\ m = x % n
    OBVIOUS
  <2>4. d \in Nat /\ m \in 0 .. n - 1 /\ x = d * n + m
    BY <2>1, <2>2, <2>3
  <2>5. d < n
    <3> SUFFICES ASSUME n <= d PROVE FALSE
      BY <2>4
    <3>1. PICK c \in Nat : d = n + c
      <4>1. d - n \in Nat
        BY <2>4
      <4> QED  BY <2>4, <4>1
    <3>2. d * n = n * n + c * n /\ c * n \in Nat
      BY <3>1
    <3> QED  BY <1>2, <2>1, <2>4, <3>2
  <2>6. d + 1 \in 1 .. n /\ m + 1 \in 1 .. n
    BY <2>4, <2>5
  <2>7. rels[d + 1] \in S /\ rels[m + 1] \in S
    BY <1>1, <1>3, <2>6 DEF ToSet
  <2>8. HeadAt(rels, i) = rels[d + 1] /\ BodyAt(rels, i) = rels[m + 1]
    BY <1>1, <2>1, <2>3 DEF HeadAt, BodyAt
  <2> QED  BY <2>7, <2>8
\* Each level lies between the first and the last.
<1>8. ASSUME NEW i \in 1 .. nn, f[i - 1] \in [S -> Nat] PROVE Raised(S, f[i - 1], f[i])
  BY <1>6, <1>7, <1>8, LiftRaises
<1>9. \A i \in 0 .. nn : Raised(S, l, f[i])
  <2> DEFINE Bad == {i \in 0 .. nn : ~Raised(S, l, f[i])}
  <2> SUFFICES ASSUME Bad # {} PROVE FALSE
    OBVIOUS
  <2>1. Bad \subseteq Nat
    OBVIOUS
  <2>2. PICK i \in Bad : \A y \in Bad : i <= y
    BY <2>1, LeastExists
  <2>3. i # 0
    <3>1. \A x \in S : l[x] \in Nat
      BY <1>3
    <3>2. Raised(S, l, l)
      BY <1>3, <3>1 DEF Raised
    <3> QED  BY <1>5, <2>2, <3>2
  <2>4. i \in 1 .. nn /\ i - 1 \in 0 .. nn
    BY <2>2, <2>3
  <2>5. i - 1 \notin Bad
    <3> HIDE DEF Bad
    <3> QED  BY ONLY <2>1, <2>2, <2>3, BeforeLeast
  <2>6. Raised(S, l, f[i - 1])
    BY <2>4, <2>5
  <2>7. Raised(S, f[i - 1], f[i])
    BY <1>8, <2>4, <2>6 DEF Raised
  <2>8. Raised(S, l, f[i])
    BY <2>6, <2>7 DEF Raised
  <2> QED  BY <2>2, <2>8
<1>10. \A i \in 0 .. nn : Raised(S, f[i], f[nn])
  <2> DEFINE Bad == {k \in Nat : k <= nn /\ ~Raised(S, f[nn - k], f[nn])}
  <2> SUFFICES ASSUME Bad # {} PROVE FALSE
    <3> SUFFICES ASSUME Bad = {}, NEW i \in 0 .. nn PROVE Raised(S, f[i], f[nn])
      OBVIOUS
    <3>1. nn - i \in Nat /\ nn - i <= nn /\ nn - (nn - i) = i
      OBVIOUS
    <3> QED  BY <3>1
  <2>1. Bad \subseteq Nat
    OBVIOUS
  <2>2. PICK k \in Bad : \A y \in Bad : k <= y
    BY <2>1, LeastExists
  <2>3. k # 0
    <3>1. Raised(S, l, f[nn])
      BY <1>9
    <3>2. Raised(S, f[nn], f[nn])
      BY <3>1 DEF Raised
    <3> QED  BY <2>2, <3>2
  <2>4. k - 1 \in Nat /\ k - 1 \notin Bad
    <3> HIDE DEF Bad
    <3> QED  BY ONLY <2>1, <2>2, <2>3, BeforeLeast
  <2>5. PICK i \in 1 .. nn : i = nn - (k - 1) /\ i - 1 = nn - k
    <3>1. nn - (k - 1) \in 1 .. nn /\ (nn - (k - 1)) - 1 = nn - k
      BY <2>2, <2>3
    <3> QED  BY <3>1
  <2>6. Raised(S, f[i], f[nn])
    BY <2>2, <2>4, <2>5
  <2>7. Raised(S, f[i - 1], f[i])
    <3>1. Raised(S, l, f[i - 1])
      BY <1>9
    <3> QED  BY <1>8, <3>1 DEF Raised
  <2>8. Raised(S, f[i - 1], f[nn])
    BY <2>6, <2>7 DEF Raised
  <2> QED  BY <2>2, <2>5, <2>8
<1>11. ASSUME PassOver(rs, rels, l) = l, NEW i \in 0 .. nn PROVE f[i] = l
  <2>1. Raised(S, l, f[i]) /\ Raised(S, f[i], l)
    BY <1>5, <1>9, <1>10, <1>11
  <2>2. PICK g : g = f[i]
    OBVIOUS
  <2>3. l \in [S -> Nat] /\ g \in [S -> Nat] /\ \A x \in S : l[x] <= g[x] /\ g[x] <= l[x]
    BY <2>1, <2>2 DEF Raised
  <2>4. \A x \in S : l[x] = g[x]
    <3> SUFFICES ASSUME NEW x \in S PROVE l[x] = g[x]
      OBVIOUS
    <3>1. l[x] \in Nat /\ g[x] \in Nat /\ l[x] <= g[x] /\ g[x] <= l[x]
      BY <2>3
    <3> QED  BY <3>1
  <2> QED  BY <2>2, <2>3, <2>4
<1>12. ASSUME PassOver(rs, rels, l) = l, NEW p \in S, NEW q \in S
       PROVE  Respects(l, Depends(rs, p, q), p, q)
  <2>1. PICK a, b \in 1 .. n : p = rels[a] /\ q = rels[b]
    BY <1>1, <1>3 DEF ToSet
  <2>2. PICK i \in 1 .. nn : (i - 1) \div n = a - 1 /\ (i - 1) % n = b - 1
    BY <1>2, RowAndColumn
  <2>3. HeadAt(rels, i) = p /\ BodyAt(rels, i) = q
    <3>1. (a - 1) + 1 = a /\ (b - 1) + 1 = b
      OBVIOUS
    <3> QED  BY <1>1, <2>1, <2>2, <3>1 DEF HeadAt, BodyAt
  <2>4. f[i] = l /\ f[i - 1] = l
    BY <1>11, <1>12
  <2>5. Lift(rs, l, p, q) = l
    BY <1>6, <2>3, <2>4
  <2> QED  BY <1>3, <2>5, LiftStays
<1>13. Raised(S, l, f[nn])
  BY <1>9
<1> QED  BY <1>3, <1>5, <1>12, <1>13

\* Levels that the dependencies of the rules rs do not contradict.
Layered(rs, S, l) ==
  /\ l \in [S -> Nat]
  /\ \A p, q \in S : Respects(l, Depends(rs, p, q), p, q)

\* What stratification returns is layered.
LEMMA StratifiedLayered ==
  ASSUME NEW rs, NEW rels, IsList(rels), NEW l, l = Stratified(rs, rels), l # Unstratified
  PROVE  Layered(rs, ToSet(rels), l)
<1>1. PICK n \in Nat : n = Len(rels)
  BY DEF IsList
<1>2. PICK f : f = LevelsAfter(rs, rels)
  OBVIOUS
<1>3. /\ f[0] = [p \in ToSet(rels) |-> 0]
      /\ \A i \in 1 .. n + 1 : f[i] = PassOver(rs, rels, f[i - 1])
  BY <1>1, <1>2, LevelsAfterIs
<1>4. f[n + 1] = f[n] /\ l = f[n]
  BY <1>1, <1>2 DEF Stratified, Stable
<1>5. \A i \in 0 .. n : f[i] \in [ToSet(rels) -> Nat]
  <2> DEFINE Bad == {i \in 0 .. n : f[i] \notin [ToSet(rels) -> Nat]}
  <2> SUFFICES ASSUME Bad # {} PROVE FALSE
    OBVIOUS
  <2>1. Bad \subseteq Nat
    OBVIOUS
  <2>2. PICK i \in Bad : \A y \in Bad : i <= y
    BY <2>1, LeastExists
  <2>3. i # 0
    BY <1>3, <2>2
  <2>4. i \in 1 .. n + 1 /\ i - 1 \in 0 .. n
    BY <2>2, <2>3
  <2>5. i - 1 \notin Bad
    <3> HIDE DEF Bad
    <3> QED  BY ONLY <2>1, <2>2, <2>3, BeforeLeast
  <2>6. f[i - 1] \in [ToSet(rels) -> Nat]
    BY <2>4, <2>5
  <2>7. Raised(ToSet(rels), f[i - 1], f[i])
    BY <1>3, <2>4, <2>6, PassRaises
  <2> QED  BY <2>2, <2>7 DEF Raised
<1>6. l \in [ToSet(rels) -> Nat] /\ PassOver(rs, rels, l) = l
  <2>1. n + 1 \in 1 .. n + 1 /\ (n + 1) - 1 = n /\ n \in 0 .. n
    OBVIOUS
  <2>2. f[n + 1] = PassOver(rs, rels, f[n])
    BY <1>3, <2>1
  <2> QED  BY <1>4, <1>5, <2>1, <2>2
<1> QED  BY <1>6, PassRaises DEF Layered

-----------------------------------------------------------------------------
(* Programs. *)

LEMMA Lists ==
  /\ \A U, s : s \in Seq(U) => IsList(s)
  /\ \A n \in Nat : \A s : DOMAIN s = 1 .. n /\ (\E S : s \in [1 .. n -> S]) => IsList(s) /\ Len(s) = n
<1>1. ASSUME NEW U, NEW s, s \in Seq(U) PROVE IsList(s)
  <2>1. PICK n \in Nat : n = Len(s) /\ DOMAIN s = 1 .. n /\ s = [i \in 1 .. n |-> s[i]]
    BY <1>1
  <2>2. s \in [1 .. n -> ToSet(s)]
    BY <2>1 DEF ToSet
  <2> QED  BY <2>1, <2>2 DEF IsList
<1>2. ASSUME NEW n \in Nat, NEW s, NEW S, DOMAIN s = 1 .. n, s \in [1 .. n -> S] PROVE IsList(s) /\ Len(s) = n
  <2>1. s \in Seq(S) /\ Len(s) = n
    BY <1>2
  <2> QED  BY <1>1, <2>1
<1> QED  BY <1>1, <1>2

LEMMA RegistersIs ==
  ASSUME NEW rs, Len(rs) \in Nat
  PROVE  /\ Registers(rs)[0] = <<"eav">>
         /\ \A i \in 1 .. Len(rs) :
              Registers(rs)[i] = IF rs[i].pred \in ToSet(Registers(rs)[i - 1]) THEN Registers(rs)[i - 1]
                                 ELSE Append(Registers(rs)[i - 1], rs[i].pred)
<1> DEFINE Step(k, x) == IF rs[k].pred \in ToSet(x) THEN x ELSE Append(x, rs[k].pred)
           Done(m, f) == f = [k \in 0 .. m |-> IF k = 0 THEN <<"eav">> ELSE Step(k, f[k - 1])]
           Bad == {m \in Nat : ~\E f : Done(m, f)}
<1> HIDE DEF Step
<1>1. Bad = {}
  <2> SUFFICES ASSUME Bad # {} PROVE FALSE
    OBVIOUS
  <2>1. PICK m \in Bad : \A y \in Bad : m <= y
    BY LeastExists
  <2>2. Done(0, [k \in 0 .. 0 |-> <<"eav">>])
    OBVIOUS
  <2>3. m # 0 /\ m \in Nat
    BY <2>1, <2>2
  <2>4. m - 1 \in Nat /\ m - 1 \notin Bad
    <3>1. Bad \subseteq Nat
      OBVIOUS
    <3> HIDE DEF Bad
    <3> QED  BY ONLY <2>1, <2>3, <3>1, BeforeLeast
  <2>5. PICK f : Done(m - 1, f)
    BY <2>4
  <2>6. PICK g : g = [k \in 0 .. m |-> IF k = 0 THEN <<"eav">> ELSE Step(k, f[k - 1])]
    OBVIOUS
  <2>7. \A k \in 0 .. m - 1 : g[k] = f[k]
    BY <2>3, <2>5, <2>6
  <2>8. \A k \in 0 .. m : k # 0 => k - 1 \in 0 .. m - 1
    BY <2>3
  <2>9. Done(m, g)
    BY <2>6, <2>7, <2>8
  <2> QED  BY <2>1, <2>9
<1>2. PICK n \in Nat : n = Len(rs)
  OBVIOUS
<1>3. PICK f : f = Registers(rs)
  OBVIOUS
<1>4. f = CHOOSE g : Done(n, g)
  BY <1>2, <1>3 DEF Registers, Step
<1>5. Done(n, f)
  BY <1>1, <1>4
<1>6. f[0] = <<"eav">>
  BY <1>5
<1>7. \A k \in 1 .. n : f[k] = Step(k, f[k - 1])
  BY <1>5
<1> QED  BY <1>2, <1>3, <1>6, <1>7 DEF Step

\* Relations that have the triples and the first k heads of the rules rs.
Complete(rels, rs, k) ==
  /\ IsList(rels) /\ "eav" \in ToSet(rels)
  /\ \A i \in 1 .. k : rs[i].pred \in ToSet(rels)

LEMMA RegisteredComplete ==
  ASSUME NEW rs, IsList(rs)
  PROVE  Complete(Registered(rs), rs, Len(rs))
<1>1. PICK n \in Nat : n = Len(rs)
  BY DEF IsList
<1>2. PICK f : f = Registers(rs)
  OBVIOUS
<1>3. f[0] = <<"eav">>
  BY <1>1, <1>2, RegistersIs
<1>4. \A i \in 1 .. n : f[i] = IF rs[i].pred \in ToSet(f[i - 1]) THEN f[i - 1] ELSE Append(f[i - 1], rs[i].pred)
  BY <1>1, <1>2, RegistersIs
<1>5. \A k \in 0 .. n : Complete(f[k], rs, k)
  <2> DEFINE Bad == {k \in 0 .. n : ~Complete(f[k], rs, k)}
  <2> SUFFICES ASSUME Bad # {} PROVE FALSE
    OBVIOUS
  <2>1. Bad \subseteq Nat
    OBVIOUS
  <2>2. PICK k \in Bad : \A y \in Bad : k <= y
    BY <2>1, LeastExists
  <2>3. k # 0
    <3>1. IsList(<<"eav">>)
      <4>1. <<"eav">> \in Seq({"eav"})
        OBVIOUS
      <4> QED  BY <4>1, Lists
    <3>2. ToSet(<<"eav">>) = {"eav"}
      BY DEF ToSet
    <3>3. Complete(f[0], rs, 0)
      BY <1>3, <3>1, <3>2 DEF Complete
    <3> QED  BY <2>2, <3>3
  <2>4. k \in 1 .. n /\ k - 1 \in 0 .. n
    BY <2>2, <2>3
  <2>5. k - 1 \notin Bad
    <3> HIDE DEF Bad
    <3> QED  BY ONLY <2>1, <2>2, <2>3, BeforeLeast
  <2>6. PICK rels : rels = f[k - 1] /\ Complete(rels, rs, k - 1)
    BY <2>4, <2>5
  <2>7. \A i \in 1 .. k : i = k \/ i \in 1 .. k - 1
    BY <2>4
  <2>8. CASE rs[k].pred \in ToSet(rels)
    <3>1. f[k] = rels
      BY <1>4, <2>4, <2>6, <2>8
    <3>2. Complete(f[k], rs, k)
      BY <2>6, <2>7, <2>8, <3>1 DEF Complete
    <3> QED  BY <2>2, <3>2
  <2>9. CASE rs[k].pred \notin ToSet(rels)
    <3>1. PICK p, more : p = rs[k].pred /\ more = Append(rels, p) /\ f[k] = more
      BY <1>4, <2>4, <2>6, <2>9
    <3>2. PICK m \in Nat : m = Len(rels) /\ DOMAIN rels = 1 .. m
      BY <2>6 DEF Complete, IsList
    <3>3. rels \in Seq(ToSet(rels) \cup {p}) /\ more \in Seq(ToSet(rels) \cup {p})
      <4>1. ToSet(rels) \subseteq ToSet(rels) \cup {p} /\ rels \in Seq(ToSet(rels))
        BY <2>6 DEF Complete, IsList
      <4>2. rels \in Seq(ToSet(rels) \cup {p})
        BY <4>1
      <4> QED  BY <3>1, <4>2
    <3>4. ToSet(rels) \subseteq ToSet(more) /\ p \in ToSet(more)
      <4>1. DOMAIN more = 1 .. m + 1 /\ more[m + 1] = p /\ \A i \in 1 .. m : more[i] = rels[i] /\ i \in 1 .. m + 1
        BY <3>1, <3>2, <3>3
      <4>2. m + 1 \in 1 .. m + 1
        OBVIOUS
      <4> QED  BY <3>2, <4>1, <4>2 DEF ToSet
    <3>5. Complete(more, rs, k)
      BY <2>6, <2>7, <3>1, <3>3, <3>4, Lists DEF Complete
    <3> QED  BY <2>2, <3>1, <3>5
  <2> QED  BY <2>8, <2>9
<1>6. Complete(f[n], rs, n)
  BY <1>5
<1> QED  BY <1>1, <1>2, <1>6 DEF Registered

\* Rules as lists: the rules of a program, and the body of each.
ReadAsLists(rs) == IsList(rs) /\ \A r \in DOMAIN rs : IsList(rs[r].body)

LEMMA ReadBodyIsList ==
  ASSUME NEW rule, IsList(rule.body)
  PROVE  IsList(ReadRule(rule).body)
<1>1. PICK clauses, head : clauses = rule.body /\ head = Read(<<>>, rule.args)
  OBVIOUS
<1>2. PICK n \in Nat : n = Len(clauses) /\ DOMAIN clauses = 1 .. n
  BY <1>1 DEF IsList
<1>3. ReadRule(rule).body = ReadBody(head.names, clauses).lits
  BY <1>1 DEF ReadRule, WithHead, WithBody
<1>4. PICK s : s = ReadBody(head.names, clauses).lits
  OBVIOUS
<1> DEFINE Lit(k) == ReadClause(NamesRead(head.names, SubSeq(clauses, 1, k - 1)), clauses[k]).lit
<1>5. s = [k \in 1 .. n |-> Lit(k)]
  BY <1>2, <1>4 DEF ReadBody
<1> HIDE DEF Lit
<1>6. s \in [1 .. n -> {Lit(k) : k \in 1 .. n}] /\ DOMAIN s = 1 .. n
  BY <1>5
<1> QED  BY <1>3, <1>4, <1>6, Lists

LEMMA ReadRulesAreLists ==
  ASSUME NEW a \in DOMAIN Requests
  PROVE  ReadAsLists(ReadRules(Requests[a]))
<1>1. PICK request : request = Requests[a]
  OBVIOUS
<1>2. /\ IsList(request.rules) /\ IsList(request.where)
      /\ \A r \in ToSet(request.rules) : IsList(r.body)
  BY <1>1, RequestsAreLists
<1>3. PICK n \in Nat : n = Len(request.rules) /\ DOMAIN request.rules = 1 .. n
  BY <1>2 DEF IsList
<1>4. PICK own : own = [i \in 1 .. n |-> ReadRule(request.rules[i])]
  OBVIOUS
<1>5. PICK last : last = ReadRule(QueryRule(request))
  OBVIOUS
<1>6. PICK rs : rs = ReadRules(Requests[a])
  OBVIOUS
<1>7. rs = own \o <<last>>
  BY <1>1, <1>3, <1>4, <1>5, <1>6 DEF ReadRules
<1>8. \A i \in 1 .. n : IsList(own[i].body)
  <2> SUFFICES ASSUME NEW i \in 1 .. n PROVE IsList(own[i].body)
    OBVIOUS
  <2>1. request.rules[i] \in ToSet(request.rules)
    BY <1>3 DEF ToSet
  <2> QED  BY <1>2, <1>4, <2>1, ReadBodyIsList
<1>9. IsList(last.body)
  <2>1. QueryRule(request).body = request.where
    BY DEF QueryRule, RuleOf
  <2> QED  BY <1>2, <1>5, <2>1, ReadBodyIsList
<1>10. own \in Seq({own[i] : i \in 1 .. n}) /\ Len(own) = n /\ DOMAIN own = 1 .. n
  <2>1. own \in [1 .. n -> {own[i] : i \in 1 .. n}]
    BY <1>4
  <2> QED  BY <2>1
<1>11. PICK U : U = {own[i] : i \in 1 .. n} \cup {last}
  OBVIOUS
<1>12. own \in Seq(U) /\ <<last>> \in Seq(U)
  <2>1. {own[i] : i \in 1 .. n} \subseteq U /\ last \in U
    BY <1>11
  <2> QED  BY <1>10, <2>1
<1>13. rs \in Seq(U) /\ DOMAIN rs = 1 .. n + 1
  BY <1>7, <1>10, <1>12
<1>14. ASSUME NEW r \in DOMAIN rs PROVE IsList(rs[r].body)
  <2>1. rs[r] \in U
    BY <1>13
  <2> QED  BY <1>8, <1>9, <1>11, <2>1
<1> QED  BY <1>6, <1>13, <1>14, Lists DEF ReadAsLists

-----------------------------------------------------------------------------
(* The invariant. *)

\* The program is known and its predicates have levels.
Leveled == {"initial", "round", "proof", "done"}
Ready ==
  /\ ReadAsLists(rules) /\ \A r \in DOMAIN rules : rules[r].pred \in Predicates
  /\ Layered(rules, Predicates, levels) /\ stratum \in Nat

\* The tables without what the stratum has derived.
Emptied == [p \in Predicates |-> IF p \in Members THEN {} ELSE table[p]]

\* Tables that the rules of the stratum do not enlarge, the other strata being as they are.
StratumModel(M) ==
  /\ DOMAIN M = Predicates
  /\ \A p \in Predicates \ Members : M[p] = table[p]
  /\ \A r \in StratumRules : Derived(M, rules[r]) \subseteq M[rules[r].pred]

ProgramInv ==
  phase # "idle" =>
    /\ ReadAsLists(rules) /\ Predicates = ToSet(Registered(rules)) /\ "eav" \in Predicates
    /\ \A r \in DOMAIN rules : rules[r].pred \in Predicates
StartInv ==
  /\ table = [p \in Predicates |-> table[p]]
  /\ asked \in DOMAIN Requests /\ turn \in Nat \ {0}
  /\ phase \in {"idle", "stratify"} =>
       stratum = 0 /\ turn = 1 /\ \A p \in Predicates : Derives(p) => table[p] = {}
LevelsInv == phase \in Leveled => Ready
FactsInv == phase # "idle" /\ FactsGiven => table["eav"] = ToSet(db)
\* Strata that are not reached yet have derived nothing.
HigherInv ==
  phase \in {"initial", "round"} /\ FactsGiven =>
    \A p \in Predicates : Derives(p) /\ levels[p] > stratum => table[p] = {}
\* The rules that had their turn: what the lower strata alone give is there.
InitialInv ==
  phase = "initial" /\ FactsGiven =>
    \A r \in StratumRules \ Left : Derived(Emptied, rules[r]) \subseteq table[rules[r].pred]
DeltaInv ==
  phase = "round" =>
    /\ DOMAIN delta = Predicates /\ DOMAIN fresh = Predicates
    /\ \A p \in Predicates : delta[p] \subseteq table[p]
\* The rules that had their turn in this round: what the differences give is there.
RoundInv ==
  phase = "round" /\ FactsGiven =>
    /\ Linear => \A r \in StratumRules : Derived(Old, rules[r]) \subseteq table[rules[r].pred]
    /\ \A r \in StratumRules \ Left : Differences(rules[r]) \subseteq fresh[rules[r].pred]
\* Nothing is derived that is not in every model of the stratum.
Sound(M) ==
  StratumModel(M) =>
    \A p \in Members : table[p] \subseteq M[p] /\ (phase = "round" => fresh[p] \subseteq M[p])
SoundInv == phase \in {"initial", "round"} /\ FactsGiven => \A M : Sound(M)
Inv == /\ ProgramInv /\ StartInv /\ LevelsInv /\ FactsInv /\ HigherInv
       /\ InitialInv /\ DeltaInv /\ RoundInv /\ SoundInv

-----------------------------------------------------------------------------
(* Rules of a stratum. *)

\* A rule depends on what its body names.
LEMMA DependsOn ==
  ASSUME NEW rs, NEW r \in DOMAIN rs, NEW b \in ToSet(rs[r].body)
  PROVE  /\ b.kind = "not" => Depends(rs, rs[r].pred, b.pred) = 2
         /\ b.kind = "atom" => Depends(rs, rs[r].pred, b.pred) \in {1, 2}
<1>1. rs[r] \in ToSet(rs)
  BY DEF ToSet
<1> QED  BY <1>1 DEF Depends

\* Tables T and U: below the level l they are the same, and at l there is more in U.
Below(T, U, l) ==
  /\ DOMAIN T = Predicates /\ DOMAIN U = Predicates
  /\ \A p \in Predicates : (levels[p] < l => T[p] = U[p]) /\ (levels[p] <= l => T[p] \subseteq U[p])

\* A rule derives more from more tuples of its level.
LEMMA RuleGrows ==
  ASSUME Ready, NEW r \in DOMAIN rules, NEW T, NEW U, Below(T, U, levels[rules[r].pred])
  PROVE  Derived(T, rules[r]) \subseteq Derived(U, rules[r])
<1>1. PICK rule, h : rule = rules[r] /\ h = rule.pred
  OBVIOUS
<1>2. IsList(rule.body) /\ h \in Predicates /\ DOMAIN T = DOMAIN U /\ DOMAIN T = Predicates
  BY <1>1 DEF Ready, ReadAsLists, Below
<1>3. ASSUME NEW b \in ToSet(rule.body), b.pred \in DOMAIN T PROVE Serves(U, T, b)
  <2>1. PICK q : q = b.pred /\ q \in Predicates
    BY <1>2, <1>3
  <2>2. Respects(levels, Depends(rules, h, q), h, q) /\ levels[h] \in Nat /\ levels[q] \in Nat
    BY <1>2, <2>1 DEF Ready, Layered
  <2>3. (b.kind = "not" => Depends(rules, h, q) = 2) /\ (b.kind = "atom" => Depends(rules, h, q) \in {1, 2})
    BY <1>1, <2>1, DependsOn
  <2>4. (b.kind = "not" => levels[q] < levels[h]) /\ (b.kind = "atom" => levels[q] <= levels[h])
    BY <2>2, <2>3 DEF Respects
  <2>5. (b.kind = "not" => T[q] = U[q]) /\ (b.kind = "atom" => T[q] \subseteq U[q])
    BY <1>1, <2>1, <2>4 DEF Below
  <2> QED  BY <2>1, <2>5 DEF Serves, IsAtom, AtomKinds
<1> QED  BY <1>1, <1>2, <1>3, DerivedGrows

\* The rules of a stratum conclude predicates that the rounds look at, all of one level.
LEMMA HeadsAreMembers ==
  ASSUME Ready, FactsGiven, NEW r \in StratumRules
  PROVE  /\ r \in DOMAIN rules /\ r \in Nat \ {0}
         /\ rules[r].pred \in Members /\ rules[r].pred \in Predicates /\ levels[rules[r].pred] = stratum
<1>1. r \in DOMAIN rules /\ levels[rules[r].pred] = stratum
  BY DEF StratumRules
<1>2. r \in Nat \ {0}
  BY <1>1 DEF Ready, ReadAsLists, IsList
<1> QED  BY <1>1, <1>2 DEF Ready, FactsGiven, Members

\* Tables T and U of the stratum: what is not of it is the same.
Within(T, U) ==
  /\ DOMAIN T = Predicates /\ DOMAIN U = Predicates
  /\ \A p \in Predicates : T[p] \subseteq U[p] /\ (p \notin Members => T[p] = U[p])

LEMMA StratumRuleGrows ==
  ASSUME Ready, FactsGiven, NEW r \in StratumRules, NEW T, NEW U, Within(T, U)
  PROVE  Derived(T, rules[r]) \subseteq Derived(U, rules[r])
<1>1. r \in DOMAIN rules /\ levels[rules[r].pred] = stratum
  BY HeadsAreMembers
<1>2. \A p \in Predicates : levels[p] \in Nat /\ stratum \in Nat
  BY DEF Ready, Layered
<1>3. \A p \in Predicates : levels[p] < stratum => p \notin Members
  BY <1>2 DEF Members
<1>4. Below(T, U, levels[rules[r].pred])
  BY <1>1, <1>3 DEF Within, Below
<1> QED  BY <1>1, <1>4, RuleGrows

\* What a rule of the stratum derives from tables within a model is in the model.
LEMMA ModelHolds ==
  ASSUME Ready, FactsGiven, NEW r \in StratumRules, NEW M, StratumModel(M), NEW T, Within(T, M)
  PROVE  Derived(T, rules[r]) \subseteq M[rules[r].pred]
<1>1. Derived(T, rules[r]) \subseteq Derived(M, rules[r])
  BY StratumRuleGrows
<1> QED  BY <1>1 DEF StratumModel

\* The tables with the differences of a predicate.
LEMMA SwappedWithin ==
  ASSUME \A p \in Predicates : delta[p] \subseteq table[p], NEW q \in Members
  PROVE  Within(Swapped(q), table)
<1>1. q \in Predicates
  BY DEF Members
<1>2. \A p \in Predicates : Swapped(q)[p] = IF p = q THEN delta[q] ELSE table[p]
  BY <1>1 DEF Swapped, Predicates
<1>3. DOMAIN Swapped(q) = Predicates /\ DOMAIN table = Predicates
  BY DEF Swapped, Predicates
<1> QED  BY <1>1, <1>2, <1>3 DEF Within

LEMMA OldWithin == Within(Old, table)
<1>1. DOMAIN Old = Predicates /\ DOMAIN table = Predicates
  BY DEF Old, Predicates
<1>2. \A p \in Predicates : Old[p] = IF p \in Members THEN table[p] \ delta[p] ELSE table[p]
  BY DEF Old
<1> QED  BY <1>1, <1>2 DEF Within

LEMMA EmptiedWithin == Within(Emptied, table)
<1>1. DOMAIN Emptied = Predicates /\ DOMAIN table = Predicates
  BY DEF Emptied, Predicates
<1>2. \A p \in Predicates : Emptied[p] = IF p \in Members THEN {} ELSE table[p]
  BY DEF Emptied
<1> QED  BY <1>1, <1>2 DEF Within

\* The tables of a stratum are within every model of it.
LEMMA SoundSo ==
  ASSUME SoundInv, phase \in {"initial", "round"}, FactsGiven, NEW M, StratumModel(M), NEW p \in Members
  PROVE  table[p] \subseteq M[p] /\ (phase = "round" => fresh[p] \subseteq M[p]) /\ p \in Predicates
<1>1. p \in Predicates
  BY DEF Members
<1>2. Sound(M)
  BY DEF SoundInv
<1> QED  BY <1>1, <1>2 DEF Sound

\* The predicates with new tuples.
Changed == {p \in Members : delta[p] # {}}

\* A round sees everything: what a rule derives now it derived before the last round, or
\* it derives it from the differences.
LEMMA RoundSees ==
  ASSUME Ready, FactsGiven, Linear, DeltaInv, phase = "round", NEW r \in StratumRules
  PROVE  Derived(table, rules[r]) \subseteq Derived(Old, rules[r]) \cup Differences(rules[r])
<1>1. PICK rule, h : rule = rules[r] /\ h = rule.pred
  OBVIOUS
<1>2. r \in DOMAIN rules /\ levels[h] = stratum /\ h \in Predicates
  BY <1>1, HeadsAreMembers
<1>3. PICK Sw : Sw = [p \in Changed |-> Swapped(p)]
  OBVIOUS
<1>4. Changed \subseteq Members /\ Members \subseteq Predicates
  BY DEF Changed, Members
<1>5. /\ DOMAIN Old = Predicates /\ DOMAIN table = Predicates
      /\ \A p \in Changed : DOMAIN Sw[p] = Predicates
  BY <1>3 DEF Old, Predicates, Swapped
<1>6. \A p \in Predicates : Old[p] = IF p \in Members THEN table[p] \ delta[p] ELSE table[p]
  BY DEF Old
<1>7. \A p \in Changed : \A q \in Predicates : Sw[p][q] = IF p = q THEN delta[p] ELSE table[q]
  BY <1>3, <1>4 DEF Swapped, Predicates
<1>8. ASSUME NEW b \in ToSet(rule.body), b.pred \in Predicates PROVE Splits(table, Old, Sw, Changed, b)
  <2>1. PICK q : q = b.pred /\ q \in Predicates
    BY <1>8
  <2>2. b.kind = "not" => q \notin Members
    <3>1. b.kind = "not" => Depends(rules, h, q) = 2
      BY <1>1, <1>2, <2>1, DependsOn
    <3>2. Respects(levels, Depends(rules, h, q), h, q) /\ levels[h] \in Nat /\ levels[q] \in Nat
      BY <1>2, <2>1 DEF Ready, Layered
    <3> QED  BY <1>2, <3>1, <3>2 DEF Respects, Members
  <2>3. table[q] \subseteq Old[q] \cup IF q \in Changed THEN Sw[q][q] ELSE {}
    <3>1. CASE q \in Changed
      <4>1. Sw[q][q] = delta[q]
        BY <1>7, <2>1, <3>1
      <4>2. Old[q] = table[q] \ delta[q]
        BY <1>4, <1>6, <2>1, <3>1
      <4> QED  BY <3>1, <4>1, <4>2
    <3>2. CASE q \notin Changed
      <4>1. q \in Members => delta[q] = {}
        BY <3>2 DEF Changed
      <4>2. Old[q] = table[q]
        BY <1>6, <2>1, <4>1
      <4> QED  BY <4>2
    <3> QED  BY <3>1, <3>2
  <2>4. \A p \in Changed : p # q => Sw[p][q] = table[q]
    BY <1>7, <2>1
  <2>5. b.kind = "not" => Old[q] = table[q] /\ \A p \in Changed : Sw[p][q] = table[q]
    BY <1>4, <1>6, <2>1, <2>2, <2>4
  <2> QED  BY <2>1, <2>3, <2>4, <2>5 DEF Splits
<1>9. IsList(rule.body)
  BY <1>1, <1>2 DEF Ready, ReadAsLists
<1>10. OnceIn(Changed, rule.body)
  <2> SUFFICES ASSUME NEW i \in 1 .. Len(rule.body), NEW j \in 1 .. Len(rule.body), i # j,
                      IsAtom(rule.body[i]), IsAtom(rule.body[j]), rule.body[i].pred = rule.body[j].pred,
                      rule.body[i].pred \in Changed
               PROVE  FALSE
    BY DEF OnceIn
  <2>1. i \in DOMAIN rule.body /\ j \in DOMAIN rule.body
    BY <1>9 DEF IsList
  <2>2. Derives(rule.body[i].pred) /\ levels[rule.body[i].pred] = levels[h]
    BY <1>2, <1>4 DEF Members
  <2>3. Twice(r)
    BY <1>1, <2>1, <2>2 DEF Twice
  <2> QED  BY <1>2, <2>3 DEF Linear
<1>11. ASSUME NEW x \in Derived(table, rule) PROVE x \in Derived(Old, rule) \cup Differences(rule)
  <2>1. \/ x \in Derived(Old, rule)
        \/ \E b \in ToSet(rule.body) : IsAtom(b) /\ b.pred \in Changed /\ x \in Derived(Sw[b.pred], rule)
    BY <1>5, <1>8, <1>9, <1>10, <1>11, DerivedSplit
  <2>2. ASSUME NEW b \in ToSet(rule.body), IsAtom(b), b.pred \in Changed, x \in Derived(Sw[b.pred], rule)
        PROVE  x \in Differences(rule)
    <3>1. b \in DeltaAtoms(rule)
      BY <2>2 DEF DeltaAtoms, Changed, IsAtom, AtomKinds
    <3>2. x \in Derived(Swapped(b.pred), rule)
      BY <1>3, <2>2
    <3> QED  BY <3>1, <3>2 DEF Differences
  <2> QED  BY <2>1, <2>2
<1> QED  BY <1>1, <1>11

-----------------------------------------------------------------------------
(* Steps. *)

\* What follows from the program, its levels and the stratum.
LEMMA SameProgram ==
  ASSUME rules' = rules, levels' = levels, stratum' = stratum, Predicates' = Predicates
  PROVE  /\ StratumRules' = StratumRules /\ Members' = Members
         /\ FactsGiven' = FactsGiven /\ (Ready => Ready')
<1>1. StratumRules' = StratumRules
  BY DEF StratumRules
<1>2. Members' = Members
  BY DEF Members
<1>3. FactsGiven' = FactsGiven
  BY DEF FactsGiven
<1>4. Ready => Ready'
  BY DEF Ready
<1> QED  BY <1>1, <1>2, <1>3, <1>4

LEMMA SameLinear == ASSUME rules' = rules, levels' = levels PROVE Linear' = Linear
  BY DEF Linear, Twice

\* A rule takes its turn.
LEMMA TurnTaken ==
  ASSUME ReadAsLists(rules), rules' = rules, levels' = levels, stratum' = stratum, turn \in Nat \ {0},
         NEW r, Turn(r)
  PROVE  /\ turn' \in Nat \ {0} /\ r \in StratumRules
         /\ StratumRules' \ Left' = (StratumRules \ Left) \cup {r}
<1>1. \A q \in StratumRules : q \in Nat
  BY DEF StratumRules, ReadAsLists, IsList
<1>2. StratumRules' = StratumRules
  BY DEF StratumRules
<1>3. r \in StratumRules /\ turn <= r /\ turn' = r + 1 /\ \A q \in StratumRules : turn <= q => r <= q
  BY DEF Turn, Left
<1>4. Left' = {q \in StratumRules : r + 1 <= q}
  BY <1>2, <1>3 DEF Left
<1>5. ASSUME NEW q \in StratumRules PROVE q \in Left' <=> q \in Left /\ q # r
  BY <1>1, <1>3, <1>4, <1>5 DEF Left
<1> QED  BY <1>1, <1>2, <1>3, <1>5

LEMMA StutterKeeps == ASSUME Inv, UNCHANGED dvars PROVE Inv'
<1> USE DEF dvars
<1>1. Predicates' = Predicates
  BY DEF Predicates
<1>2. StratumRules' = StratumRules /\ Members' = Members /\ FactsGiven' = FactsGiven /\ (Ready => Ready')
  BY <1>1, SameProgram
<1>3. Left' = Left /\ Linear' = Linear /\ Emptied' = Emptied /\ Old' = Old
  BY <1>1, <1>2, SameLinear DEF Left, Emptied, Old
<1>4. \A rule : Differences(rule)' = Differences(rule)
  BY <1>2 DEF Differences, DeltaAtoms, Swapped
<1>5. \A M : StratumModel(M)' <=> StratumModel(M)
  BY <1>1, <1>2 DEF StratumModel
<1>6. ProgramInv' /\ StartInv' /\ LevelsInv'
  BY <1>1, <1>2 DEF Inv, ProgramInv, StartInv, LevelsInv
<1>7. FactsInv' /\ HigherInv' /\ DeltaInv'
  BY <1>1, <1>2 DEF Inv, FactsInv, HigherInv, DeltaInv
<1>8. InitialInv' /\ RoundInv'
  BY <1>2, <1>3, <1>4 DEF Inv, InitialInv, RoundInv
<1>9. SoundInv'
  <2>1. ASSUME NEW M, Sound(M) PROVE Sound(M)'
    BY <1>2, <1>5, <2>1 DEF Sound
  <2> QED  BY <1>2, <2>1 DEF Inv, SoundInv
<1> QED  BY <1>6, <1>7, <1>8, <1>9 DEF Inv

\* Facts come and go while no query is evaluated.
LEMMA ChangeKeeps ==
  ASSUME Inv, NEW t, AssertFact(t) \/ RetractFact(t)
  PROVE  Inv'
<1>1. /\ phase = "idle" /\ phase' = phase /\ turn' = turn /\ stratum' = stratum /\ table' = table
      /\ asked' = asked
  BY DEF AssertFact, RetractFact
<1>2. Predicates' = Predicates
  BY <1>1 DEF Predicates
<1>3. StartInv'
  BY <1>1, <1>2 DEF Inv, StartInv
<1> QED  BY <1>1, <1>3 DEF Inv, ProgramInv, LevelsInv, Leveled, FactsInv, HigherInv, InitialInv, DeltaInv,
              RoundInv, SoundInv

LEMMA BeginQueryRulesKeeps == ASSUME Inv, BeginQueryRules PROVE Inv'
<1>1. /\ phase = "idle" /\ phase' = "stratify" /\ turn' = turn /\ stratum' = stratum /\ db' = db
      /\ asked' = asked
      /\ rules' = ReadRules(Requests[asked])
      /\ table' = [p \in ToSet(Registered(rules')) |-> IF p = "eav" THEN ToSet(db) ELSE {}]
  BY DEF BeginQueryRules
<1>2. ReadAsLists(rules')
  BY <1>1, ReadRulesAreLists DEF Inv, StartInv
<1>3. Complete(Registered(rules'), rules', Len(rules'))
  BY <1>2, RegisteredComplete DEF ReadAsLists
<1>4. Predicates' = ToSet(Registered(rules')) /\ "eav" \in Predicates'
  BY <1>1, <1>3 DEF Predicates, Complete
<1>5. \A r \in DOMAIN rules' : rules'[r].pred \in Predicates'
  <2>1. DOMAIN rules' = 1 .. Len(rules')
    BY <1>2 DEF ReadAsLists, IsList
  <2> QED  BY <1>3, <1>4, <2>1 DEF Complete
<1>6. \A p \in Predicates' : Derives(p) => table'[p] = {}
  BY <1>1, <1>4 DEF Derives
<1>7. table'["eav"] = ToSet(db')
  BY <1>1, <1>4
<1>8. ProgramInv'
  BY <1>2, <1>4, <1>5 DEF ProgramInv
<1>9. StartInv'
  <2>1. table' = [p \in Predicates' |-> table'[p]]
    BY <1>1, <1>4
  <2> QED  BY <1>1, <1>6, <2>1 DEF Inv, StartInv
<1> QED  BY <1>1, <1>7, <1>8, <1>9 DEF Inv, LevelsInv, Leveled, FactsInv, HigherInv, InitialInv, DeltaInv,
              RoundInv, SoundInv

LEMMA StratifyKeeps == ASSUME Inv, Stratify PROVE Inv'
<1>1. /\ phase = "stratify" /\ levels' = Stratified(rules, Registered(rules))
      /\ phase' = IF levels' = Unstratified THEN "rejected" ELSE "initial"
      /\ db' = db /\ asked' = asked /\ rules' = rules /\ stratum' = stratum /\ turn' = turn /\ table' = table
  BY DEF Stratify
<1>2. Predicates' = Predicates
  BY <1>1 DEF Predicates
<1>3. ProgramInv' /\ ReadAsLists(rules')
  BY <1>1, <1>2 DEF Inv, ProgramInv
<1>4. StartInv'
  BY <1>1, <1>2 DEF Inv, StartInv
<1>5. FactsInv'
  BY <1>1 DEF Inv, FactsInv, FactsGiven
<1>6. CASE phase' = "rejected"
  BY <1>3, <1>4, <1>5, <1>6 DEF Inv, LevelsInv, Leveled, HigherInv, InitialInv, DeltaInv, RoundInv, SoundInv
<1>7. CASE phase' = "initial"
  <2>1. levels' # Unstratified
    BY <1>1, <1>7
  <2>2. IsList(Registered(rules)) /\ Predicates = ToSet(Registered(rules))
    BY <1>1, RegisteredComplete DEF Inv, ProgramInv, ReadAsLists, Complete
  <2>3. Layered(rules', Predicates', levels')
    BY <1>1, <1>2, <2>1, <2>2, StratifiedLayered
  <2>4. LevelsInv'
    BY <1>1, <1>3, <1>7, <2>3 DEF Inv, LevelsInv, Ready, ProgramInv, StartInv
  <2>5. \A p \in Predicates' : Derives(p) => table'[p] = {}
    BY <1>1, <1>2 DEF Inv, StartInv
  <2>6. HigherInv'
    BY <2>5 DEF HigherInv
  <2>7. Left' = StratumRules'
    <3>1. turn' = 1
      BY <1>1 DEF Inv, StartInv
    <3>2. \A q \in StratumRules' : q \in Nat \ {0}
      BY <1>3 DEF StratumRules, ReadAsLists, IsList
    <3> QED  BY <3>1, <3>2 DEF Left
  <2>8. InitialInv'
    BY <2>7 DEF InitialInv
  <2>9. SoundInv'
    <3>1. \A p \in Members' : table'[p] = {}
      BY <2>5 DEF Members
    <3> QED  BY <1>7, <3>1 DEF SoundInv, Sound
  <2> QED  BY <1>3, <1>4, <1>5, <1>7, <2>4, <2>6, <2>8, <2>9 DEF Inv, DeltaInv, RoundInv
<1> QED  BY <1>1, <1>6, <1>7

LEMMA InitialRuleKeeps == ASSUME Inv, NEW r \in DOMAIN rules, InitialRule(r) PROVE Inv'
<1>1. /\ phase = "initial" /\ phase' = phase /\ Turn(r)
      /\ table' = [table EXCEPT ![rules[r].pred] = @ \cup Derived(table, rules[r])]
      /\ db' = db /\ asked' = asked /\ rules' = rules /\ levels' = levels /\ stratum' = stratum
  BY DEF InitialRule
<1>2. Ready /\ ReadAsLists(rules)
  BY <1>1 DEF Inv, LevelsInv, Leveled, Ready
<1>3. PICK h, new : h = rules[r].pred /\ new = Derived(table, rules[r])
  OBVIOUS
<1>4. Predicates' = Predicates /\ \A p \in Predicates : table'[p] = IF p = h THEN table[p] \cup new ELSE table[p]
  BY <1>1, <1>3 DEF Predicates
<1>5. StratumRules' = StratumRules /\ Members' = Members /\ FactsGiven' = FactsGiven /\ Ready'
  BY <1>1, <1>2, <1>4, SameProgram
<1>6. turn' \in Nat \ {0} /\ r \in StratumRules /\ StratumRules' \ Left' = (StratumRules \ Left) \cup {r}
  BY <1>1, <1>2, TurnTaken DEF Inv, StartInv
<1>7. ProgramInv' /\ StartInv' /\ LevelsInv'
  BY <1>1, <1>4, <1>5, <1>6 DEF Inv, ProgramInv, StartInv, LevelsInv
<1>8. DeltaInv' /\ RoundInv'
  BY <1>1 DEF DeltaInv, RoundInv
<1>9. ASSUME FactsGiven PROVE FactsInv' /\ HigherInv' /\ InitialInv' /\ SoundInv'
  <2>1. h \in Members /\ h \in Predicates /\ levels[h] = stratum /\ Derives(h) /\ stratum \in Nat
    BY <1>2, <1>3, <1>6, <1>9, HeadsAreMembers DEF Members, Ready
  <2>2. "eav" \in Predicates /\ table["eav"] = ToSet(db) /\ h # "eav"
    BY <1>1, <1>9, <2>1 DEF Inv, ProgramInv, FactsInv, Derives
  <2>3. FactsInv'
    BY <1>1, <1>4, <2>2 DEF FactsInv
  <2>4. HigherInv'
    <3> SUFFICES ASSUME NEW p \in Predicates, Derives(p), levels[p] > stratum PROVE table'[p] = {}
      BY <1>1, <1>4 DEF HigherInv
    <3>1. p # h
      BY <2>1
    <3> QED  BY <1>1, <1>4, <1>9, <3>1 DEF Inv, HigherInv
  <2>5. Emptied' = Emptied
    <3>1. \A p \in Predicates : p \notin Members => table'[p] = table[p]
      BY <1>4, <2>1
    <3> QED  BY <1>4, <1>5, <3>1 DEF Emptied
  <2>6. InitialInv'
    <3> SUFFICES ASSUME NEW q \in (StratumRules \ Left) \cup {r}
                 PROVE  Derived(Emptied, rules[q]) \subseteq table'[rules[q].pred]
      BY <1>1, <1>6, <2>5 DEF InitialInv
    <3>1. rules[q].pred \in Predicates
      BY <1>2, <1>6, <1>9, HeadsAreMembers
    <3>2. CASE q = r
      <4>1. Derived(Emptied, rules[r]) \subseteq new
        BY <1>2, <1>3, <1>6, <1>9, EmptiedWithin, StratumRuleGrows
      <4> QED  BY <1>3, <1>4, <3>1, <3>2, <4>1
    <3>3. CASE q \in StratumRules \ Left
      <4>1. Derived(Emptied, rules[q]) \subseteq table[rules[q].pred]
        BY <1>1, <1>9, <3>3 DEF Inv, InitialInv
      <4> QED  BY <1>4, <3>1, <4>1
    <3> QED  BY <3>2, <3>3
  <2>7. SoundInv'
    <3> SUFFICES ASSUME NEW M, StratumModel(M)', NEW p \in Members
                 PROVE  table'[p] \subseteq M[p]
      BY <1>1, <1>5 DEF SoundInv, Sound
    <3>1. StratumModel(M)
      <4>1. \A q \in Predicates \ Members : table'[q] = table[q]
        BY <1>4, <2>1
      <4> QED  BY <1>1, <1>4, <1>5, <4>1 DEF StratumModel
    <3>2. \A q \in Members : table[q] \subseteq M[q]
      <4>1. SoundInv
        BY DEF Inv
      <4> QED  BY <1>1, <1>9, <3>1, <4>1, SoundSo
    <3>3. Within(table, M)
      <4>1. \A q \in Predicates \ Members : table[q] = M[q]
        BY <3>1 DEF StratumModel
      <4> QED  BY <3>1, <3>2, <4>1 DEF Within, StratumModel, Predicates
    <3>4. new \subseteq M[h]
      BY <1>2, <1>3, <1>6, <1>9, <3>1, <3>3, ModelHolds
    <3>5. p \in Predicates
      BY DEF Members
    <3> QED  BY <1>4, <3>2, <3>4, <3>5
  <2> QED  BY <2>3, <2>4, <2>6, <2>7
<1>10. CASE ~FactsGiven
  BY <1>1, <1>5, <1>7, <1>8, <1>10 DEF Inv, FactsInv, HigherInv, InitialInv, SoundInv
<1> QED  BY <1>7, <1>8, <1>9, <1>10 DEF Inv

LEMMA BeginRoundsKeeps == ASSUME Inv, BeginRounds PROVE Inv'
<1>1. /\ phase = "initial" /\ phase' = "round" /\ turn' = 1 /\ Left = {}
      /\ delta' = [p \in Predicates |-> IF p \in Members THEN table[p] ELSE {}] /\ fresh' = Nothing
      /\ db' = db /\ asked' = asked /\ rules' = rules /\ levels' = levels /\ stratum' = stratum
      /\ table' = table
  BY DEF BeginRounds
<1>2. Ready /\ ReadAsLists(rules)
  BY <1>1 DEF Inv, LevelsInv, Leveled, Ready
<1>3. Predicates' = Predicates
  BY <1>1 DEF Predicates
<1>4. StratumRules' = StratumRules /\ Members' = Members /\ FactsGiven' = FactsGiven /\ Ready'
  BY <1>1, <1>2, <1>3, SameProgram
<1>5. Left' = StratumRules'
  <2>1. \A q \in StratumRules : q \in Nat \ {0}
    BY <1>2 DEF StratumRules, ReadAsLists, IsList
  <2> QED  BY <1>1, <1>4, <2>1 DEF Left
<1>6. ProgramInv' /\ StartInv' /\ LevelsInv'
  BY <1>1, <1>3, <1>4 DEF Inv, ProgramInv, StartInv, LevelsInv, Leveled
<1>7. FactsInv' /\ HigherInv' /\ InitialInv'
  BY <1>1, <1>3, <1>4 DEF Inv, FactsInv, HigherInv, InitialInv
<1>8. /\ DOMAIN delta' = Predicates /\ DOMAIN fresh' = Predicates
      /\ \A p \in Predicates : fresh'[p] = {} /\ delta'[p] = IF p \in Members THEN table[p] ELSE {}
  BY <1>1 DEF Nothing
<1>9. DeltaInv'
  BY <1>1, <1>3, <1>8 DEF DeltaInv
<1>10. Old' = Emptied
  <2>1. \A p \in Members : table'[p] \ delta'[p] = {} /\ p \in Predicates
    BY <1>1, <1>8 DEF Members
  <2> QED  BY <1>1, <1>3, <1>4, <2>1 DEF Old, Emptied
<1>11. RoundInv'
  BY <1>1, <1>4, <1>5, <1>10 DEF Inv, InitialInv, RoundInv
<1>12. SoundInv'
  <2> SUFFICES ASSUME FactsGiven, NEW M, StratumModel(M)', NEW p \in Members
               PROVE  table[p] \subseteq M[p] /\ fresh'[p] \subseteq M[p]
    BY <1>1, <1>4 DEF SoundInv, Sound
  <2>1. StratumModel(M)
    BY <1>1, <1>3, <1>4 DEF StratumModel
  <2>2. table[p] \subseteq M[p] /\ p \in Predicates
    <3>1. SoundInv
      BY DEF Inv
    <3> QED  BY <1>1, <2>1, <3>1, SoundSo
  <2> QED  BY <1>8, <2>2
<1> QED  BY <1>6, <1>7, <1>9, <1>11, <1>12 DEF Inv

LEMMA DeltaRuleKeeps == ASSUME Inv, NEW r \in DOMAIN rules, DeltaRule(r) PROVE Inv'
<1>1. /\ phase = "round" /\ phase' = phase /\ Turn(r)
      /\ fresh' = [fresh EXCEPT ![rules[r].pred] = @ \cup Differences(rules[r])]
      /\ db' = db /\ asked' = asked /\ rules' = rules /\ levels' = levels /\ stratum' = stratum
      /\ table' = table /\ delta' = delta
  BY DEF DeltaRule
<1>2. Ready /\ ReadAsLists(rules)
  BY <1>1 DEF Inv, LevelsInv, Leveled, Ready
<1>3. Predicates' = Predicates
  BY <1>1 DEF Predicates
<1>4. StratumRules' = StratumRules /\ Members' = Members /\ FactsGiven' = FactsGiven /\ Ready' /\ Linear' = Linear
  BY <1>1, <1>2, <1>3, SameProgram, SameLinear
<1>5. turn' \in Nat \ {0} /\ r \in StratumRules /\ StratumRules' \ Left' = (StratumRules \ Left) \cup {r}
  BY <1>1, <1>2, TurnTaken DEF Inv, StartInv
<1>6. ProgramInv' /\ StartInv' /\ LevelsInv'
  BY <1>1, <1>3, <1>4, <1>5 DEF Inv, ProgramInv, StartInv, LevelsInv
<1>7. FactsInv' /\ HigherInv' /\ InitialInv'
  BY <1>1, <1>3, <1>4 DEF Inv, FactsInv, HigherInv, InitialInv
<1>8. /\ DOMAIN delta = Predicates /\ DOMAIN fresh = Predicates
      /\ \A p \in Predicates : delta[p] \subseteq table[p]
  BY <1>1 DEF Inv, DeltaInv
<1>9. PICK h, new : h = rules[r].pred /\ new = Differences(rules[r])
  OBVIOUS
<1>10. DOMAIN fresh' = Predicates /\ \A p \in Predicates : fresh'[p] = IF p = h THEN fresh[p] \cup new ELSE fresh[p]
  BY <1>1, <1>8, <1>9
<1>11. DeltaInv'
  BY <1>1, <1>3, <1>8, <1>10 DEF DeltaInv
<1>12. Old' = Old /\ \A rule : Differences(rule)' = Differences(rule)
  BY <1>1, <1>3, <1>4 DEF Old, Differences, DeltaAtoms, Swapped
<1>13. RoundInv'
  <2> SUFFICES ASSUME FactsGiven, NEW q \in (StratumRules \ Left) \cup {r}
               PROVE  Differences(rules[q]) \subseteq fresh'[rules[q].pred]
    BY <1>1, <1>4, <1>5, <1>12 DEF Inv, RoundInv
  <2>1. rules[q].pred \in Predicates
    BY <1>2, <1>5, HeadsAreMembers
  <2>2. q # r => Differences(rules[q]) \subseteq fresh[rules[q].pred]
    BY <1>1 DEF Inv, RoundInv
  <2> QED  BY <1>9, <1>10, <2>1, <2>2
<1>14. SoundInv'
  <2> SUFFICES ASSUME FactsGiven, NEW M, StratumModel(M)', NEW p \in Members
               PROVE  table[p] \subseteq M[p] /\ fresh'[p] \subseteq M[p]
    BY <1>1, <1>4 DEF SoundInv, Sound
  <2>1. StratumModel(M)
    BY <1>1, <1>3, <1>4 DEF StratumModel
  <2>2. \A q \in Members : table[q] \subseteq M[q] /\ fresh[q] \subseteq M[q] /\ q \in Predicates
    <3>1. SoundInv
      BY DEF Inv
    <3> QED  BY <1>1, <2>1, <3>1, SoundSo
  <2>3. \A q \in Predicates \ Members : table[q] = M[q]
    BY <2>1 DEF StratumModel
  <2>4. new \subseteq M[h]
    <3> SUFFICES ASSUME NEW b \in DeltaAtoms(rules[r]) PROVE Derived(Swapped(b.pred), rules[r]) \subseteq M[h]
      BY <1>9 DEF Differences
    <3>1. b.pred \in Members
      BY DEF DeltaAtoms
    <3>2. Within(Swapped(b.pred), table)
      BY <1>8, <3>1, SwappedWithin
    <3>3. Within(Swapped(b.pred), M)
      BY <2>1, <2>2, <2>3, <3>2 DEF Within, StratumModel
    <3> QED  BY <1>2, <1>5, <1>9, <2>1, <3>3, ModelHolds
  <2> QED  BY <1>10, <2>2, <2>4
<1> QED  BY <1>6, <1>7, <1>11, <1>13, <1>14 DEF Inv

LEMMA MergeRoundKeeps == ASSUME Inv, MergeRound PROVE Inv'
<1>1. /\ phase = "round" /\ phase' = phase /\ Left = {} /\ turn' = 1
      /\ delta' = NewTuples /\ fresh' = Nothing
      /\ table' = [p \in Predicates |-> table[p] \cup NewTuples[p]]
      /\ db' = db /\ asked' = asked /\ rules' = rules /\ levels' = levels /\ stratum' = stratum
  BY DEF MergeRound
<1>2. Ready /\ ReadAsLists(rules) /\ stratum \in Nat /\ \A p \in Predicates : levels[p] \in Nat
  BY <1>1 DEF Inv, LevelsInv, Leveled, Ready, Layered
<1>3. Predicates' = Predicates
  BY <1>1 DEF Predicates
<1>4. StratumRules' = StratumRules /\ Members' = Members /\ FactsGiven' = FactsGiven /\ Ready' /\ Linear' = Linear
  BY <1>1, <1>2, <1>3, SameProgram, SameLinear
<1>5. Left' = StratumRules'
  <2>1. \A q \in StratumRules : q \in Nat \ {0}
    BY <1>2 DEF StratumRules, ReadAsLists, IsList
  <2> QED  BY <1>1, <1>4, <2>1 DEF Left
<1>6. /\ DOMAIN delta' = Predicates /\ DOMAIN fresh' = Predicates
      /\ \A p \in Predicates : /\ fresh'[p] = {}
                               /\ delta'[p] = IF p \in Members THEN fresh[p] \ table[p] ELSE {}
                               /\ table'[p] = IF p \in Members THEN table[p] \cup fresh[p] ELSE table[p]
  BY <1>1 DEF Nothing, NewTuples
<1>7. ProgramInv' /\ StartInv' /\ LevelsInv'
  BY <1>1, <1>3, <1>4 DEF Inv, ProgramInv, StartInv, LevelsInv
<1>8. FactsInv'
  <2> SUFFICES ASSUME FactsGiven PROVE table'["eav"] = ToSet(db)
    BY <1>1, <1>4 DEF FactsInv
  <2>1. "eav" \in Predicates /\ "eav" \notin Members /\ table["eav"] = ToSet(db)
    BY <1>1 DEF Inv, ProgramInv, FactsInv, Members, Derives
  <2> QED  BY <1>6, <2>1
<1>9. HigherInv'
  <2> SUFFICES ASSUME FactsGiven, NEW p \in Predicates, Derives(p), levels[p] > stratum PROVE table'[p] = {}
    BY <1>1, <1>3, <1>4 DEF HigherInv
  <2>1. p \notin Members
    BY <1>2 DEF Members
  <2>2. table[p] = {}
    BY <1>1 DEF Inv, HigherInv
  <2> QED  BY <1>6, <2>1, <2>2
<1>10. InitialInv' /\ DeltaInv'
  BY <1>1, <1>3, <1>6 DEF InitialInv, DeltaInv
<1>11. Old' = table
  <2>1. Old' = [p \in Predicates |-> table[p]]
    BY <1>3, <1>4, <1>6 DEF Old
  <2>2. table = [p \in Predicates |-> table[p]]
    BY DEF Inv, StartInv
  <2> QED  BY <2>1, <2>2
<1>12. RoundInv'
  <2> SUFFICES ASSUME FactsGiven, Linear, NEW r \in StratumRules
               PROVE  Derived(table, rules[r]) \subseteq table'[rules[r].pred]
    BY <1>1, <1>4, <1>5, <1>11 DEF RoundInv
  <2>1. PICK h : h = rules[r].pred /\ h \in Members /\ h \in Predicates
    BY <1>2, HeadsAreMembers
  <2>2. Derived(table, rules[r]) \subseteq Derived(Old, rules[r]) \cup Differences(rules[r])
    BY <1>1, <1>2, RoundSees DEF Inv
  <2>3. Derived(Old, rules[r]) \subseteq table[h] /\ Differences(rules[r]) \subseteq fresh[h]
    BY <1>1, <2>1 DEF Inv, RoundInv
  <2>4. table'[h] = table[h] \cup fresh[h]
    BY <1>6, <2>1
  <2> QED  BY <2>1, <2>2, <2>3, <2>4
<1>13. SoundInv'
  <2> SUFFICES ASSUME FactsGiven, NEW M, StratumModel(M)', NEW p \in Members
               PROVE  table'[p] \subseteq M[p] /\ fresh'[p] \subseteq M[p]
    BY <1>1, <1>4 DEF SoundInv, Sound
  <2>1. StratumModel(M)
    <3>1. \A q \in Predicates \ Members : table'[q] = table[q]
      BY <1>6
    <3> QED  BY <1>1, <1>3, <1>4, <3>1 DEF StratumModel
  <2>2. table[p] \subseteq M[p] /\ fresh[p] \subseteq M[p] /\ p \in Predicates
    <3>1. SoundInv
      BY DEF Inv
    <3> QED  BY <1>1, <2>1, <3>1, SoundSo
  <2> QED  BY <1>6, <2>2
<1> QED  BY <1>7, <1>8, <1>9, <1>10, <1>12, <1>13 DEF Inv

LEMMA EndStratumKeeps == ASSUME Inv, EndStratum PROVE Inv'
<1>1. /\ phase \in {"initial", "round"} /\ turn' = 1 /\ table' = table
      /\ IF LastStratum THEN phase' = "proof" /\ stratum' = stratum
         ELSE phase' = "initial" /\ stratum' = stratum + 1
      /\ db' = db /\ asked' = asked /\ rules' = rules /\ levels' = levels
  BY DEF EndStratum
<1>2. Ready /\ ReadAsLists(rules) /\ stratum \in Nat /\ \A p \in Predicates : levels[p] \in Nat
  BY <1>1 DEF Inv, LevelsInv, Leveled, Ready, Layered
<1>3. Predicates' = Predicates
  BY <1>1 DEF Predicates
<1>4. phase' \in {"initial", "proof"} /\ stratum' \in Nat
  BY <1>1, <1>2
<1>5. ProgramInv' /\ StartInv'
  BY <1>1, <1>3, <1>4 DEF Inv, ProgramInv, StartInv
<1>6. LevelsInv'
  BY <1>1, <1>2, <1>3, <1>4 DEF LevelsInv, Ready
<1>7. FactsGiven' = FactsGiven
  BY <1>1 DEF FactsGiven
<1>8. FactsInv'
  BY <1>1, <1>7 DEF Inv, FactsInv, ProgramInv
<1>9. Left' = StratumRules'
  <2>1. \A q \in StratumRules' : q \in Nat \ {0}
    BY <1>1, <1>2 DEF StratumRules, ReadAsLists, IsList
  <2> QED  BY <1>1, <2>1 DEF Left
<1>10. InitialInv' /\ DeltaInv' /\ RoundInv'
  BY <1>4, <1>9 DEF InitialInv, DeltaInv, RoundInv
<1>11. CASE phase' = "proof"
  BY <1>5, <1>6, <1>8, <1>10, <1>11 DEF Inv, HigherInv, SoundInv
<1>12. CASE phase' = "initial"
  <2>1. stratum' = stratum + 1
    BY <1>1, <1>12
  <2>2. ASSUME FactsGiven, NEW p \in Predicates, Derives(p), levels[p] > stratum PROVE table[p] = {}
    BY <1>1, <2>2 DEF Inv, HigherInv
  <2>3. HigherInv'
    <3> SUFFICES ASSUME FactsGiven, NEW p \in Predicates, Derives(p), levels[p] > stratum + 1 PROVE table[p] = {}
      BY <1>1, <1>3, <1>7, <2>1 DEF HigherInv
    <3>1. levels[p] > stratum
      BY <1>2
    <3> QED  BY <2>2, <3>1
  <2>4. SoundInv'
    <3> SUFFICES ASSUME FactsGiven, NEW M PROVE Sound(M)'
      BY <1>7 DEF SoundInv
    <3>1. ASSUME NEW p \in Members' PROVE table'[p] = {}
      <4>1. p \in Predicates /\ levels[p] = stratum + 1 /\ Derives(p)
        BY <1>1, <1>3, <2>1 DEF Members
      <4>2. levels[p] > stratum
        BY <1>2, <4>1
      <4> QED  BY <1>1, <2>2, <4>1, <4>2
    <3> QED  BY <1>12, <3>1 DEF Sound
  <2> QED  BY <1>5, <1>6, <1>8, <1>10, <2>3, <2>4 DEF Inv
<1> QED  BY <1>4, <1>11, <1>12

LEMMA AttributeKeeps == ASSUME Inv, Attribute PROVE Inv'
<1>1. /\ phase = "proof" /\ phase' = "done" /\ turn' = turn /\ table' = table /\ stratum' = stratum
      /\ db' = db /\ asked' = asked /\ rules' = rules /\ levels' = levels
  BY DEF Attribute
<1>2. Predicates' = Predicates
  BY <1>1 DEF Predicates
<1>3. ProgramInv' /\ StartInv'
  BY <1>1, <1>2 DEF Inv, ProgramInv, StartInv
<1>4. LevelsInv'
  BY <1>1, <1>2, SameProgram DEF Inv, LevelsInv, Leveled
<1>5. FactsInv'
  BY <1>1 DEF Inv, FactsInv, FactsGiven
<1> QED  BY <1>1, <1>3, <1>4, <1>5 DEF Inv, HigherInv, InitialInv, DeltaInv, RoundInv, SoundInv

LEMMA InvInit == ASSUME DatalogInit PROVE Inv
<1>1. /\ asked \in DOMAIN Requests /\ phase = "idle" /\ stratum = 0 /\ turn = 1 /\ table = Unstratified
  BY DEF DatalogInit, DatalogIdle
<1>2. Predicates = {} /\ table = [p \in Predicates |-> table[p]]
  BY <1>1 DEF Predicates, Unstratified
<1>3. StartInv
  BY <1>1, <1>2 DEF StartInv
<1> QED  BY <1>1, <1>3 DEF Inv, ProgramInv, LevelsInv, Leveled, FactsInv, HigherInv, InitialInv, DeltaInv,
              RoundInv, SoundInv

LEMMA InvNext == ASSUME Inv, [DatalogNext]_dvars PROVE Inv'
<1>1. CASE UNCHANGED dvars
  BY <1>1, StutterKeeps
<1>2. ASSUME NEW t, AssertFact(t) \/ RetractFact(t) PROVE Inv'
  BY <1>2, ChangeKeeps
<1>3. CASE BeginQueryRules
  BY <1>3, BeginQueryRulesKeeps
<1>4. CASE Stratify
  BY <1>4, StratifyKeeps
<1>5. ASSUME NEW r \in DOMAIN rules, InitialRule(r) PROVE Inv'
  BY <1>5, InitialRuleKeeps
<1>6. CASE BeginRounds
  BY <1>6, BeginRoundsKeeps
<1>7. ASSUME NEW r \in DOMAIN rules, DeltaRule(r) PROVE Inv'
  BY <1>7, DeltaRuleKeeps
<1>8. CASE MergeRound
  BY <1>8, MergeRoundKeeps
<1>9. CASE EndStratum
  BY <1>9, EndStratumKeeps
<1>10. CASE Attribute
  BY <1>10, AttributeKeeps
<1>11. CASE Answered
  BY <1>1, <1>11 DEF Answered
<1> QED  BY <1>1, <1>2, <1>3, <1>4, <1>5, <1>6, <1>7, <1>8, <1>9, <1>10, <1>11 DEF DatalogNext, Evaluate

\* The invariant holds of every evaluation.
THEOREM EvaluationInvariant == DatalogSpec => []Inv
<1>1. DatalogInit => Inv
  BY InvInit
<1>2. Inv /\ [DatalogNext]_dvars => Inv'
  BY InvNext
<1> QED  BY <1>1, <1>2, PTL DEF DatalogSpec

-----------------------------------------------------------------------------
(* Results. *)

\* Between two rounds of a stratum, what a rule can derive from the tuples before the last
\* round is in the tables already: the next round may look at the differences only
\* (dl_eval's semi-naive loop, for rules that it can take apart).
THEOREM OldTuplesAreClosed == DatalogSpec => []OldTuplesClosed
<1>1. Inv => OldTuplesClosed
  BY DEF Inv, RoundInv, OldTuplesClosed
<1> QED  BY <1>1, EvaluationInvariant, PTL

\* A stratum in which nothing is new is closed.
LEMMA ConvergedIsModel ==
  ASSUME Inv, phase = "round", turn = 1, Converged, FactsGiven, Linear
  PROVE  StratumModel(table)
<1>1. table = [p \in Predicates |-> table[p]]
  BY DEF Inv, StartInv
<1>2. Old = table
  <2>1. \A p \in Predicates : p \in Members => table[p] \ delta[p] = table[p]
    BY DEF Converged
  <2>2. Old = [p \in Predicates |-> table[p]]
    BY <2>1 DEF Old
  <2> QED  BY <1>1, <2>2
<1> QED  BY <1>2 DEF Inv, RoundInv, StratumModel, Predicates

\* When the rounds of a stratum end because nothing is new, its tables are the least that
\* its rules do not enlarge, given the tables of the other strata.
StratumLeast ==
  phase = "round" /\ turn = 1 /\ Converged /\ FactsGiven =>
    /\ Linear => StratumModel(table)
    /\ \A M : StratumModel(M) => \A p \in Predicates : table[p] \subseteq M[p]

THEOREM StratumIsLeast == DatalogSpec => []StratumLeast
<1>1. ASSUME Inv PROVE StratumLeast
  <2> SUFFICES ASSUME phase = "round", turn = 1, Converged, FactsGiven
               PROVE  /\ Linear => StratumModel(table)
                      /\ \A M : StratumModel(M) => \A p \in Predicates : table[p] \subseteq M[p]
    BY DEF StratumLeast
  <2>3. ASSUME Linear PROVE StratumModel(table)
    BY <1>1, <2>3, ConvergedIsModel
  <2>4. ASSUME NEW M, StratumModel(M), NEW p \in Predicates PROVE table[p] \subseteq M[p]
    <3>1. SoundInv
      BY <1>1 DEF Inv
    <3>2. CASE p \in Members
      BY <2>4, <3>1, <3>2, SoundSo
    <3>3. CASE p \notin Members
      BY <2>4, <3>3 DEF StratumModel
    <3> QED  BY <3>2, <3>3
  <2> QED  BY <2>3, <2>4
<1> QED  BY <1>1, EvaluationInvariant, PTL

\* A program that is evaluated has levels that no dependency contradicts: a predicate is
\* above those it negates and not below those it uses (dl_stratify).
StrataLayered ==
  phase \in {"initial", "round", "proof", "done"} =>
    \A r \in DOMAIN rules : \A b \in ToSet(rules[r].body) :
      b.pred \in Predicates =>
        /\ b.kind = "not" => levels[b.pred] < levels[rules[r].pred]
        /\ b.kind = "atom" => levels[b.pred] <= levels[rules[r].pred]

THEOREM ProgramIsLayered == DatalogSpec => []StrataLayered
<1>1. ASSUME Inv PROVE StrataLayered
  <2> SUFFICES ASSUME phase \in Leveled, NEW r \in DOMAIN rules, NEW b \in ToSet(rules[r].body),
                      b.pred \in Predicates
               PROVE  /\ b.kind = "not" => levels[b.pred] < levels[rules[r].pred]
                      /\ b.kind = "atom" => levels[b.pred] <= levels[rules[r].pred]
    BY DEF StrataLayered, Leveled
  <2>1. Ready
    BY <1>1 DEF Inv, LevelsInv
  <2>2. PICK h, q : h = rules[r].pred /\ q = b.pred
    OBVIOUS
  <2>3. Respects(levels, Depends(rules, h, q), h, q)
    BY <2>1, <2>2 DEF Ready, Layered
  <2>4. (b.kind = "not" => Depends(rules, h, q) = 2) /\ (b.kind = "atom" => Depends(rules, h, q) \in {1, 2})
    BY <2>2, DependsOn
  <2>5. levels[h] \in Nat /\ levels[q] \in Nat
    BY <2>1, <2>2 DEF Ready, Layered
  <2> QED  BY <2>2, <2>3, <2>4, <2>5 DEF Respects
<1> QED  BY <1>1, EvaluationInvariant, PTL

\* Within the evaluation of a stratum, only its own tables change.
LEMMA OthersStay ==
  ASSUME Inv, [DatalogNext]_dvars, phase \in Leveled, FactsGiven, NEW p \in Predicates \ Members
  PROVE  table'[p] = table[p]
<1>1. Ready
  BY DEF Inv, LevelsInv
<1>2. ASSUME NEW r \in DOMAIN rules, InitialRule(r) PROVE table'[p] = table[p]
  <2>1. r \in StratumRules
    BY <1>2 DEF InitialRule, Turn, Left
  <2>2. p # rules[r].pred
    BY <1>1, <2>1, HeadsAreMembers
  <2> QED  BY <1>2, <2>2 DEF InitialRule
<1>3. ASSUME NEW r \in DOMAIN rules, DeltaRule(r) PROVE table'[p] = table[p]
  BY <1>3 DEF DeltaRule
<1>4. CASE MergeRound
  BY <1>4 DEF MergeRound, NewTuples
<1>5. CASE BeginRounds \/ EndStratum \/ Attribute \/ Answered \/ UNCHANGED dvars
  BY <1>5 DEF BeginRounds, EndStratum, Attribute, Answered, dvars
<1>6. ~BeginQueryRules /\ ~Stratify /\ \A t : ~AssertFact(t) /\ ~RetractFact(t)
  BY DEF Leveled, BeginQueryRules, Stratify, AssertFact, RetractFact
<1> QED  BY <1>2, <1>3, <1>4, <1>5, <1>6 DEF DatalogNext, Evaluate

\* An evaluation never changes the tables of a stratum that it has finished or not yet
\* reached: a negation is decided once (dl_eval).
StrataKept ==
  [][FactsGiven /\ phase \in {"initial", "round", "proof", "done"} =>
       \A p \in Predicates : levels[p] # stratum => table'[p] = table[p]]_dvars

THEOREM OtherStrataKept == DatalogSpec => StrataKept
<1>1. ASSUME Inv, [DatalogNext]_dvars
      PROVE  [FactsGiven /\ phase \in {"initial", "round", "proof", "done"} =>
                \A p \in Predicates : levels[p] # stratum => table'[p] = table[p]]_dvars
  <2> SUFFICES ASSUME phase \in Leveled, FactsGiven, NEW p \in Predicates, levels[p] # stratum
               PROVE  table'[p] = table[p]
    BY DEF Leveled
  <2>1. p \in Predicates \ Members
    BY DEF Members
  <2> QED  BY <1>1, <2>1, OthersStay
<1> QED  BY <1>1, EvaluationInvariant, PTL DEF DatalogSpec, StrataKept

\* The rounds of a stratum end with tuples that no rule has seen.
CutOff == phase = "round" /\ round = MaxRounds /\ ~Converged

\* The finished strata are closed.
LowerClosed ==
  phase \in {"initial", "round"} /\ Linear /\ FactsGiven =>
    \A r \in DOMAIN rules :
      levels[rules[r].pred] < stratum => Derived(table, rules[r]) \subseteq table[rules[r].pred]

\* The tables at the end: the facts as they were given, and all that the rules conclude.
ModelReached ==
  phase \in {"proof", "done"} /\ Linear /\ FactsGiven =>
    /\ table["eav"] = ToSet(db)
    /\ \A r \in DOMAIN rules : Derived(table, rules[r]) \subseteq table[rules[r].pred]

LEMMA LowerRuleStays ==
  ASSUME Ready, NEW r \in DOMAIN rules, levels[rules[r].pred] < stratum,
         Derived(table, rules[r]) \subseteq table[rules[r].pred],
         NEW T, DOMAIN T = Predicates, \A p \in Predicates \ Members : T[p] = table[p]
  PROVE  Derived(T, rules[r]) \subseteq T[rules[r].pred]
<1>1. PICK h : h = rules[r].pred /\ h \in Predicates
  BY DEF Ready
<1>2. stratum \in Nat /\ \A p \in Predicates : levels[p] \in Nat
  BY DEF Ready, Layered
<1>3. \A p \in Predicates : levels[p] <= levels[h] => p \notin Members
  BY <1>1, <1>2 DEF Members
<1>4. \A p \in Predicates : levels[p] < levels[h] => levels[p] <= levels[h]
  BY <1>1, <1>2
<1>5. Below(T, table, levels[h])
  <2>1. DOMAIN table = Predicates
    BY DEF Predicates
  <2> QED  BY <1>3, <1>4, <2>1 DEF Below
<1>6. Derived(T, rules[r]) \subseteq Derived(table, rules[r])
  BY <1>1, <1>5, RuleGrows
<1>7. T[h] = table[h]
  BY <1>1, <1>2, <1>3
<1> QED  BY <1>1, <1>6, <1>7

\* What a program is does not change once it has levels.
LEMMA SameTables ==
  ASSUME phase \in Leveled, [DatalogNext]_dvars
  PROVE  rules' = rules /\ levels' = levels /\ db' = db /\ Predicates' = Predicates
<1>1. rules' = rules /\ levels' = levels /\ db' = db
  BY DEF Leveled, DatalogNext, Evaluate, AssertFact, RetractFact, BeginQueryRules, Stratify, InitialRule,
         BeginRounds, DeltaRule, MergeRound, EndStratum, Attribute, Answered, dvars
<1>2. ASSUME NEW r \in DOMAIN rules, InitialRule(r) PROVE Predicates' = Predicates
  BY <1>2 DEF InitialRule, Predicates
<1>3. CASE MergeRound
  BY <1>1, <1>3 DEF MergeRound, Predicates
<1>4. CASE table' = table
  BY <1>1, <1>4 DEF Predicates
<1> QED  BY <1>1, <1>2, <1>3, <1>4 DEF Leveled, DatalogNext, Evaluate, AssertFact, RetractFact, BeginQueryRules,
            Stratify, BeginRounds, DeltaRule, EndStratum, Attribute, Answered, dvars

LEMMA ClosedNext ==
  ASSUME Inv, Inv', LowerClosed, ModelReached, ~CutOff, [DatalogNext]_dvars
  PROVE  LowerClosed' /\ ModelReached'
<1>1. CASE phase' \notin Leveled
  BY <1>1 DEF LowerClosed, ModelReached, Leveled
<1>2. CASE Stratify /\ phase' = "initial"
  <2>1. \A r \in DOMAIN rules' : levels'[rules'[r].pred] \in Nat
    BY <1>2 DEF Inv, LevelsInv, Leveled, Ready, Layered
  <2>2. stratum' = 0
    BY <1>2 DEF Stratify, Inv, StartInv
  <2> QED  BY <1>2, <2>1, <2>2 DEF LowerClosed, ModelReached
<1>3. CASE phase \in Leveled
  <2>1. rules' = rules /\ levels' = levels /\ db' = db /\ Predicates' = Predicates
    BY <1>3, SameTables
  <2>2. FactsGiven' = FactsGiven /\ Linear' = Linear
    BY <2>1, SameLinear DEF FactsGiven
  <2>3. CASE ~(FactsGiven /\ Linear)
    BY <2>2, <2>3 DEF LowerClosed, ModelReached
  <2>4. CASE FactsGiven /\ Linear
    <3>1. Ready /\ stratum \in Nat /\ \A p \in Predicates : levels[p] \in Nat
      BY <1>3 DEF Inv, LevelsInv, Ready, Layered
    <3>2. \A p \in Predicates \ Members : table'[p] = table[p]
      BY <1>3, <2>4, OthersStay
    <3>3. CASE phase' \in {"initial", "round"} /\ stratum' = stratum /\ phase \in {"initial", "round"}
      <4> SUFFICES ASSUME NEW r \in DOMAIN rules, levels[rules[r].pred] < stratum
                   PROVE  Derived(table', rules[r]) \subseteq table'[rules[r].pred]
        BY <2>1, <3>3 DEF LowerClosed, ModelReached
      <4>1. Derived(table, rules[r]) \subseteq table[rules[r].pred]
        BY <2>4, <3>3 DEF LowerClosed
      <4>2. DOMAIN table' = Predicates
        BY <2>1 DEF Predicates
      <4> QED  BY <3>1, <3>2, <4>1, <4>2, LowerRuleStays
    <3>4. CASE EndStratum
      <4>1. table' = table /\ phase \in {"initial", "round"}
        BY <3>4 DEF EndStratum
      <4>2. ASSUME NEW r \in StratumRules PROVE Derived(table, rules[r]) \subseteq table[rules[r].pred]
        <5>1. phase = "round" /\ turn = 1 /\ Converged
          BY <3>4, <4>2 DEF EndStratum, CutOff
        <5>2. StratumModel(table)
          BY <2>4, <5>1, ConvergedIsModel
        <5> QED  BY <5>2 DEF StratumModel
      <4>3. ASSUME NEW r \in DOMAIN rules, levels[rules[r].pred] <= stratum
            PROVE  Derived(table, rules[r]) \subseteq table[rules[r].pred]
        <5>1. CASE levels[rules[r].pred] = stratum
          BY <4>2, <5>1 DEF StratumRules
        <5>2. CASE levels[rules[r].pred] < stratum
          BY <2>4, <4>1, <5>2 DEF LowerClosed
        <5>3. levels[rules[r].pred] \in Nat
          BY <3>1 DEF Ready
        <5> QED  BY <3>1, <4>3, <5>1, <5>2, <5>3
      <4>4. CASE LastStratum
        <5>1. phase' = "proof"
          BY <3>4, <4>4 DEF EndStratum
        <5>2. \A r \in DOMAIN rules : levels[rules[r].pred] <= stratum
          BY <3>1, <4>4 DEF LastStratum, Ready
        <5>3. table["eav"] = ToSet(db)
          BY <2>4, <4>1 DEF Inv, FactsInv
        <5> QED  BY <2>1, <4>1, <4>3, <5>1, <5>2, <5>3 DEF LowerClosed, ModelReached
      <4>5. CASE ~LastStratum
        <5>1. phase' = "initial" /\ stratum' = stratum + 1
          BY <3>4, <4>5 DEF EndStratum
        <5>2. \A r \in DOMAIN rules : levels[rules[r].pred] < stratum + 1 => levels[rules[r].pred] <= stratum
          BY <3>1 DEF Ready
        <5> QED  BY <2>1, <4>1, <4>3, <5>1, <5>2 DEF LowerClosed, ModelReached
      <4> QED  BY <4>4, <4>5
    <3>5. CASE phase \in {"proof", "done"} /\ phase' \in {"proof", "done"} /\ table' = table
      BY <2>1, <2>4, <3>5 DEF LowerClosed, ModelReached
    <3>6. ASSUME NEW r \in DOMAIN rules, InitialRule(r) \/ DeltaRule(r) PROVE stratum' = stratum /\ phase' = phase /\ phase \in {"initial", "round"}
      BY <3>6 DEF InitialRule, DeltaRule
    <3>7. CASE BeginRounds \/ MergeRound
      BY <3>3, <3>7 DEF BeginRounds, MergeRound
    <3>8. CASE Attribute \/ Answered \/ UNCHANGED dvars
      BY <1>3, <3>3, <3>5, <3>8 DEF Attribute, Answered, dvars, Leveled
    <3>9. ~BeginQueryRules /\ ~Stratify /\ \A t : ~AssertFact(t) /\ ~RetractFact(t)
      BY <1>3 DEF Leveled, BeginQueryRules, Stratify, AssertFact, RetractFact
    <3> QED  BY <3>3, <3>4, <3>6, <3>7, <3>8, <3>9 DEF DatalogNext, Evaluate
  <2> QED  BY <2>3, <2>4
<1>4. ASSUME phase \notin Leveled, phase' \in Leveled PROVE Stratify /\ phase' = "initial"
  BY <1>4 DEF Leveled, DatalogNext, Evaluate, AssertFact, RetractFact, BeginQueryRules, Stratify, InitialRule,
              BeginRounds, DeltaRule, MergeRound, EndStratum, Attribute, Answered, dvars
<1> QED  BY <1>1, <1>2, <1>3, <1>4

\* An evaluation whose rounds are not cut off ends with tables that contain the facts and
\* that no rule of the program enlarges: the strata together miss nothing (dl_eval).
THEOREM ModelIsReached == DatalogSpec /\ []~CutOff => []ModelReached
<1>1. DatalogInit => LowerClosed /\ ModelReached
  BY DEF DatalogInit, DatalogIdle, LowerClosed, ModelReached
<1>2. Inv /\ Inv' /\ (LowerClosed /\ ModelReached) /\ ~CutOff /\ [DatalogNext]_dvars
        => (LowerClosed /\ ModelReached)'
  BY ClosedNext
<1> QED  BY <1>1, <1>2, EvaluationInvariant, PTL DEF DatalogSpec

\* Tables that the rules of level s do not enlarge, and that differ from those of the
\* evaluation in what is derived at that level only.
AtLevel(M, s) ==
  /\ DOMAIN M = Predicates
  /\ \A p \in Predicates : levels[p] # s \/ ~Derives(p) => M[p] = table[p]
  /\ \A r \in DOMAIN rules : levels[rules[r].pred] = s => Derived(M, rules[r]) \subseteq M[rules[r].pred]
LeastAt(s) == \A M : AtLevel(M, s) => \A p \in Predicates : table[p] \subseteq M[p]

\* The finished strata hold nothing that is not in every such model.
LowerLeast ==
  phase \in Leveled /\ FactsGiven =>
    \A s \in Nat : s < stratum \/ phase \in {"proof", "done"} => LeastAt(s)

\* What is least stays so while other strata grow.
LEMMA LeastStays ==
  ASSUME Ready, FactsGiven, NEW s \in Nat, LeastAt(s),
         rules' = rules, levels' = levels, Predicates' = Predicates,
         \A p \in Predicates : levels[p] <= s => table'[p] = table[p]
  PROVE  LeastAt(s)'
<1> SUFFICES ASSUME NEW M, AtLevel(M, s)', NEW p \in Predicates PROVE table'[p] \subseteq M[p]
  BY DEF LeastAt
<1>1. /\ DOMAIN M = Predicates
      /\ \A q \in Predicates : levels[q] # s \/ ~Derives(q) => M[q] = table'[q]
      /\ \A r \in DOMAIN rules : levels[rules[r].pred] = s => Derived(M, rules[r]) \subseteq M[rules[r].pred]
  BY DEF AtLevel, Derives
<1>2. PICK N : N = [q \in Predicates |-> IF levels[q] = s /\ Derives(q) THEN M[q] ELSE table[q]]
  OBVIOUS
<1>3. \A q \in Predicates : levels[q] \in Nat
  BY DEF Ready, Layered
<1>4. \A q \in Predicates : levels[q] <= s => N[q] = M[q]
  BY <1>1, <1>2
<1>5. Below(N, M, s)
  BY <1>1, <1>2, <1>3, <1>4 DEF Below
<1>6. ASSUME NEW r \in DOMAIN rules, levels[rules[r].pred] = s
      PROVE  Derived(N, rules[r]) \subseteq N[rules[r].pred]
  <2>1. Derived(N, rules[r]) \subseteq Derived(M, rules[r])
    BY <1>5, <1>6, RuleGrows
  <2>2. rules[r].pred \in Predicates
    BY DEF Ready
  <2> QED  BY <1>1, <1>4, <1>6, <2>1, <2>2
<1>7. AtLevel(N, s)
  BY <1>2, <1>6 DEF AtLevel
<1>8. table[p] \subseteq N[p]
  BY <1>7 DEF LeastAt
<1>9. CASE levels[p] = s
  BY <1>3, <1>4, <1>8, <1>9
<1>10. CASE levels[p] # s
  BY <1>1, <1>10
<1> QED  BY <1>9, <1>10

\* The stratum that is evaluated has derived nothing it need not.
LEMMA StratumLeastNow ==
  ASSUME Inv, phase \in {"initial", "round"}, FactsGiven
  PROVE  LeastAt(stratum)
<1> SUFFICES ASSUME NEW M, AtLevel(M, stratum), NEW p \in Predicates PROVE table[p] \subseteq M[p]
  BY DEF LeastAt
<1>1. StratumModel(M)
  BY DEF AtLevel, StratumModel, StratumRules, Members
<1>2. SoundInv
  BY DEF Inv
<1>3. CASE p \in Members
  BY <1>1, <1>2, <1>3, SoundSo
<1>4. CASE p \notin Members
  BY <1>1, <1>4 DEF StratumModel
<1> QED  BY <1>3, <1>4

LEMMA LeastNext ==
  ASSUME Inv, LowerLeast, [DatalogNext]_dvars
  PROVE  LowerLeast'
<1>1. CASE phase' \notin Leveled
  BY <1>1 DEF LowerLeast, Leveled
<1>2. CASE Stratify /\ phase' = "initial"
  <2>1. stratum' = 0
    BY <1>2 DEF Stratify, Inv, StartInv
  <2> QED  BY <1>2, <2>1 DEF LowerLeast
<1>3. CASE phase \in Leveled
  <2>1. rules' = rules /\ levels' = levels /\ Predicates' = Predicates
    BY <1>3, SameTables
  <2>2. FactsGiven' = FactsGiven
    BY <2>1 DEF FactsGiven, Derives
  <2>3. CASE ~FactsGiven
    BY <2>2, <2>3 DEF LowerLeast
  <2>4. CASE FactsGiven
    <3>1. Ready /\ stratum \in Nat /\ \A p \in Predicates : levels[p] \in Nat
      BY <1>3 DEF Inv, LevelsInv, Ready, Layered
    <3>2. \A p \in Predicates \ Members : table'[p] = table[p]
      BY <1>3, <2>4, OthersStay
    <3>3. CASE phase' \in {"initial", "round"} /\ stratum' = stratum /\ phase \in {"initial", "round"}
      <4> SUFFICES ASSUME NEW s \in Nat, s < stratum PROVE LeastAt(s)'
        BY <3>3 DEF LowerLeast
      <4>1. LeastAt(s)
        BY <1>3, <2>4 DEF LowerLeast
      <4>2. \A p \in Predicates : levels[p] <= s => p \notin Members
        BY <3>1 DEF Members
      <4> QED  BY <2>1, <2>4, <3>1, <3>2, <4>1, <4>2, LeastStays
    <3>4. CASE EndStratum
      <4>1. table' = table /\ phase \in {"initial", "round"}
        BY <3>4 DEF EndStratum
      <4>2. ASSUME NEW s \in Nat, s <= stratum PROVE LeastAt(s)
        <5>1. CASE s = stratum
          BY <2>4, <4>1, <5>1, StratumLeastNow
        <5>2. CASE s # stratum
          BY <1>3, <2>4, <3>1, <4>2, <5>2 DEF LowerLeast
        <5> QED  BY <5>1, <5>2
      <4>3. CASE LastStratum
        <5>1. ASSUME NEW s \in Nat, ~(s <= stratum) PROVE LeastAt(s)
          <6>1. \A p \in Predicates : levels[p] # s
            BY <3>1, <4>3, <5>1 DEF LastStratum
          <6> QED  BY <6>1 DEF LeastAt, AtLevel
        <5>2. ASSUME NEW s \in Nat PROVE LeastAt(s)'
          BY <2>1, <2>4, <3>1, <4>1, <4>2, <5>1, LeastStays
        <5> QED  BY <5>2 DEF LowerLeast
      <4>4. CASE ~LastStratum
        <5>1. phase' = "initial" /\ stratum' = stratum + 1
          BY <3>4, <4>4 DEF EndStratum
        <5>2. ASSUME NEW s \in Nat, s < stratum + 1 PROVE LeastAt(s)'
          BY <2>1, <2>4, <3>1, <4>1, <4>2, <5>2, LeastStays
        <5> QED  BY <5>1, <5>2 DEF LowerLeast
      <4> QED  BY <4>3, <4>4
    <3>5. CASE phase \in {"proof", "done"} /\ phase' \in {"proof", "done"} /\ table' = table
      <4>1. ASSUME NEW s \in Nat PROVE LeastAt(s)'
        BY <1>3, <2>1, <2>4, <3>1, <3>5, LeastStays DEF LowerLeast
      <4> QED  BY <4>1 DEF LowerLeast
    <3>6. ASSUME NEW r \in DOMAIN rules, InitialRule(r) \/ DeltaRule(r)
          PROVE  stratum' = stratum /\ phase' = phase /\ phase \in {"initial", "round"}
      BY <3>6 DEF InitialRule, DeltaRule
    <3>7. CASE BeginRounds \/ MergeRound
      BY <3>3, <3>7 DEF BeginRounds, MergeRound
    <3>8. CASE Attribute \/ Answered \/ UNCHANGED dvars
      BY <1>3, <3>3, <3>5, <3>8 DEF Attribute, Answered, dvars, Leveled
    <3>9. ~BeginQueryRules /\ ~Stratify /\ \A t : ~AssertFact(t) /\ ~RetractFact(t)
      BY <1>3 DEF Leveled, BeginQueryRules, Stratify, AssertFact, RetractFact
    <3> QED  BY <3>3, <3>4, <3>5, <3>6, <3>7, <3>8, <3>9 DEF DatalogNext, Evaluate
  <2> QED  BY <2>3, <2>4
<1>4. ASSUME phase \notin Leveled, phase' \in Leveled PROVE Stratify /\ phase' = "initial"
  BY <1>4 DEF Leveled, DatalogNext, Evaluate, AssertFact, RetractFact, BeginQueryRules, Stratify, InitialRule,
              BeginRounds, DeltaRule, MergeRound, EndStratum, Attribute, Answered, dvars
<1> QED  BY <1>1, <1>2, <1>3, <1>4

\* At the end the tables of each stratum are within every set of tables that its rules do
\* not enlarge, given the other strata: nothing is concluded that the rules do not force
\* (dl_eval), also if rules are not linear or the rounds were cut off.
TablesLeast == phase \in {"proof", "done"} /\ FactsGiven => \A s \in Nat : LeastAt(s)

THEOREM ModelIsLeast == DatalogSpec => []TablesLeast
<1>1. DatalogInit => LowerLeast
  BY DEF DatalogInit, DatalogIdle, LowerLeast, Leveled
<1>2. Inv /\ LowerLeast /\ [DatalogNext]_dvars => LowerLeast'
  BY LeastNext
<1>3. LowerLeast => TablesLeast
  BY DEF LowerLeast, TablesLeast, Leveled
<1> QED  BY <1>1, <1>2, <1>3, EvaluationInvariant, PTL DEF DatalogSpec
=============================================================================
