-------------------------- MODULE GraphStore_proofs --------------------------
(***************************************************************************)
(* The index of a relation, for every edge table, number of nodes and      *)
(* order in which qsort leaves equal edges: what is built indexes the      *)
(* table, and so does what is loaded again, whatever saves were cut short. *)
(***************************************************************************)
EXTENDS GraphStore, FoldTheorems

-----------------------------------------------------------------------------
(* Counting. *)

\* The part of a finite set of numbers up to i is counted by a number.
LEMMA CountNat ==
  ASSUME NEW k \in Nat, NEW S \in SUBSET (1 .. k)
  PROVE  /\ IsFiniteSet(S) /\ Cardinality(S) \in Nat /\ Cardinality(S) <= k
<1>1. IsFiniteSet(1 .. k) /\ Cardinality(1 .. k) = k
  BY FS_Interval
<1>2. IsFiniteSet(S) /\ Cardinality(S) <= k
  BY <1>1, FS_Subset
<1> QED  BY <1>2, FS_CardinalityType

\* Counting from below numbers the elements of a set from 1 to its size.
LEMMA CountingRanks ==
  ASSUME NEW k \in Nat, NEW S \in SUBSET (1 .. k),
         NEW c, c = [i \in S |-> Cardinality({j \in S : j <= i})]
  PROVE  /\ c \in Bijection(S, 1 .. Cardinality(S))
         /\ \A i, j \in S : i < j => c[i] < c[j]
<1>1. IsFiniteSet(S) /\ Cardinality(S) \in Nat
  BY CountNat
<1>2. ASSUME NEW i \in S
      PROVE  /\ IsFiniteSet({j \in S : j <= i})
             /\ c[i] = Cardinality({j \in S : j <= i})
             /\ c[i] \in 1 .. Cardinality(S)
  <2>1. {j \in S : j <= i} \in SUBSET S /\ i \in {j \in S : j <= i}
    OBVIOUS
  <2>2. IsFiniteSet({j \in S : j <= i}) /\ Cardinality({j \in S : j <= i}) <= Cardinality(S)
    BY <1>1, <2>1, FS_Subset
  <2>3. Cardinality({j \in S : j <= i}) \in Nat /\ Cardinality({j \in S : j <= i}) # 0
    BY <2>1, <2>2, FS_CardinalityType, FS_EmptySet
  <2> QED  BY <1>1, <2>2, <2>3
<1>3. ASSUME NEW i \in S, NEW j \in S, i < j PROVE c[i] < c[j]
  <2>1. {x \in S : x <= i} \in SUBSET {x \in S : x <= j}
    <3>1. ASSUME NEW x \in S, x <= i PROVE x <= j
      <4>1. x \in Nat /\ i \in Nat /\ j \in Nat
        OBVIOUS
      <4> QED  BY <1>3, <3>1, <4>1
    <3> QED  BY <3>1
  <2>2. j \in {x \in S : x <= j} /\ j \notin {x \in S : x <= i}
    BY <1>3
  <2>3. c[i] <= c[j] /\ c[i] # c[j]
    BY <1>2, <2>1, <2>2, FS_Subset
  <2> QED  BY <1>1, <1>2, <2>3
<1>4. c \in [S -> 1 .. Cardinality(S)]
  BY <1>2
<1>5. IsInjective(c)
  <2>1. \A i, j \in S : i # j => c[i] # c[j]
    <3>1. ASSUME NEW i \in S, NEW j \in S, i # j PROVE c[i] # c[j]
      <4>1. i < j \/ j < i
        BY <3>1
      <4>2. c[i] < c[j] \/ c[j] < c[i]
        BY <1>3, <4>1
      <4> QED  BY <1>2, <4>2
    <3> QED  BY <3>1
  <2> QED  BY <1>4, <2>1 DEF IsInjective
<1>6. c \in Injection(S, 1 .. Cardinality(S))
  BY <1>4, <1>5 DEF Injection
<1>7. IsFiniteSet(1 .. Cardinality(S)) /\ Cardinality(1 .. Cardinality(S)) = Cardinality(S)
  BY <1>1, FS_Interval
<1>8. c \in Surjection(S, 1 .. Cardinality(S))
  BY <1>6, <1>7, FS_Injection
<1> QED  BY <1>3, <1>6, <1>8 DEF Bijection

\* A set that has, with a number, all smaller ones is an interval from 1.
LEMMA InitialSegment ==
  ASSUME NEW k \in Nat, NEW S \in SUBSET (1 .. k),
         \A i \in S : \A j \in 1 .. k : j < i => j \in S
  PROVE  S = 1 .. Cardinality(S)
<1> DEFINE T == {x \in 1 .. k + 1 : x \notin S}
<1>1. T \subseteq Nat /\ k + 1 \in T
  OBVIOUS
<1>2. PICK x \in T : \A y \in T : x <= y
  BY <1>1, LeastExists
<1>3. x \in Nat \ {0}
  OBVIOUS
<1>4. S = 1 .. x - 1
  <2>1. ASSUME NEW i \in 1 .. x - 1 PROVE i \in S
    BY <1>2, <1>3
  <2>2. ASSUME NEW i \in S PROVE i \in 1 .. x - 1
    BY <1>2, <1>3
  <2> QED  BY <2>1, <2>2
<1>5. Cardinality(1 .. x - 1) = x - 1
  BY <1>3, FS_Interval
<1> QED  BY <1>4, <1>5

\* A bijection of what satisfies a condition keeps its number.
LEMMA SameCount ==
  ASSUME NEW S, NEW T, NEW f \in [S -> T], IsFiniteSet(S), IsInjective(f),
         \A t \in T : \E s \in S : f[s] = t
  PROVE  IsFiniteSet(T) /\ Cardinality(T) = Cardinality(S)
<1>1. f \in Bijection(S, T)
  BY DEF Bijection, Injection, Surjection
<1>2. ExistsBijection(S, T)
  BY <1>1 DEF ExistsBijection
<1> QED  BY <1>2, FS_Bijection

-----------------------------------------------------------------------------
(* Building an index. *)

\* The comparison of qsort is a total order of the edges.
LEMMA BeforeOrder ==
  ASSUME NEW key \in {1, 2}, NEW e \in Int \X Int, NEW f \in Int \X Int
  PROVE  /\ e[key] \in Int /\ e[3 - key] \in Int
         /\ ~ Before(f, e, key) => e[key] <= f[key]
         /\ ~ Before(f, e, key) /\ e[key] = f[key] => e[3 - key] <= f[3 - key]
         /\ e[3 - key] # f[3 - key] => Before(e, f, key) \/ Before(f, e, key)
<1>1. e[1] \in Int /\ e[2] \in Int /\ f[1] \in Int /\ f[2] \in Int
  OBVIOUS
<1>2. CASE key = 1
  <2>1. 3 - key = 2
    BY <1>2
  <2> QED  BY <1>1, <1>2, <2>1 DEF Before
<1>3. CASE key = 2
  <2>1. 3 - key = 1
    BY <1>3
  <2> QED  BY <1>1, <1>3, <2>1 DEF Before
<1> QED  BY <1>2, <1>3

\* It is transitive, also through edges that are equal for it.
LEMMA BeforeTransitive ==
  ASSUME NEW key \in {1, 2}, NEW e \in Int \X Int, NEW f \in Int \X Int, NEW g \in Int \X Int
  PROVE  /\ ~ Before(f, e, key) /\ ~ Before(g, f, key) => ~ Before(g, e, key)
         /\ Before(e, f, key) /\ ~ Before(g, f, key) => Before(e, g, key)
<1>1. /\ e[1] \in Int /\ e[2] \in Int /\ f[1] \in Int /\ f[2] \in Int
      /\ g[1] \in Int /\ g[2] \in Int
  OBVIOUS
<1>2. CASE key = 1
  <2>1. 3 - key = 2
    BY <1>2
  <2> QED  BY <1>1, <1>2, <2>1 DEF Before
<1>3. CASE key = 2
  <2>1. 3 - key = 1
    BY <1>3
  <2> QED  BY <1>1, <1>3, <2>1 DEF Before
<1> QED  BY <1>2, <1>3

\* The rows are all there, once, and no later one comes before an earlier one.
Sorts(k, edges, key, rows) ==
  /\ rows \in [1 .. k -> 1 .. k] /\ IsInjective(rows)
  /\ \A r \in 1 .. k : \E i \in 1 .. k : rows[i] = r
  /\ \A i, j \in 1 .. k : i < j => ~ Before(edges[rows[j]], edges[rows[i]], key)
  /\ \A i, j \in 1 .. k : i < j => edges[rows[i]][key] <= edges[rows[j]][key]

\* qsort keeps every row, and the keys ascend.
LEMMA SortedRowsOrdered ==
  ASSUME NEW k \in Nat, NEW edges \in [1 .. k -> Int \X Int], NEW key \in {1, 2},
         NEW rows \in SortedRows(edges, key)
  PROVE  Sorts(k, edges, key, rows)
<1>1. DOMAIN edges = 1 .. k
  OBVIOUS
<1>2. /\ rows \in [1 .. k -> 1 .. k]
      /\ \A i, j \in 1 .. k :
            i < j => rows[i] # rows[j] /\ ~ Before(edges[rows[j]], edges[rows[i]], key)
  BY <1>1 DEF SortedRows
<1>3. IsInjective(rows)
  <2>1. ASSUME NEW i \in 1 .. k, NEW j \in 1 .. k, i # j PROVE rows[i] # rows[j]
    BY <1>2, <2>1
  <2> QED  BY <1>2, <2>1 DEF IsInjective
<1>4. rows \in Injection(1 .. k, 1 .. k)
  BY <1>2, <1>3 DEF Injection
<1>5. rows \in Surjection(1 .. k, 1 .. k)
  BY <1>4, FS_Interval, FS_Injection
<1>6. \A r \in 1 .. k : \E i \in 1 .. k : rows[i] = r
  BY <1>5 DEF Surjection
<1>7. ASSUME NEW i \in 1 .. k, NEW j \in 1 .. k, i < j
      PROVE  edges[rows[i]][key] <= edges[rows[j]][key]
  <2>1. edges[rows[i]] \in Int \X Int /\ edges[rows[j]] \in Int \X Int
    BY <1>2
  <2>2. ~ Before(edges[rows[j]], edges[rows[i]], key)
    BY <1>2, <1>7
  <2> QED  BY <2>1, <2>2, BeforeOrder
<1> QED  BY <1>2, <1>3, <1>6, <1>7 DEF Sorts

\* Places of the sorted rows whose key is a node below v.
Below(edges, rows, key, v) == {i \in DOMAIN rows : edges[rows[i]][key] \in 0 .. v - 1}

\* The prefix sums count the edges with smaller keys.
LEMMA OffsetsCount ==
  ASSUME NEW k \in Nat, NEW edges \in [1 .. k -> Int \X Int], NEW key \in {1, 2},
         NEW rows \in [1 .. k -> 1 .. k], NEW n \in Nat
  PROVE  /\ Offsets(edges, rows, n, key) \in [0 .. n -> Nat]
         /\ \A v \in 0 .. n :
               Offsets(edges, rows, n, key)[v] = Cardinality(Below(edges, rows, key, v))
<1> DEFINE off == Offsets(edges, rows, n, key)
           At(v) == WithKey(edges, rows, key, v)
           B(v) == Below(edges, rows, key, v)
           g == [v \in 0 .. n |-> Cardinality(B(v))]
           IsOff(f) == f = [v \in 0 .. n |-> IF v = 0 THEN 0 ELSE f[v - 1] + Cardinality(At(v - 1))]
<1>1. \A i \in 1 .. k : edges[rows[i]][key] \in Int
  <2>1. ASSUME NEW i \in 1 .. k PROVE edges[rows[i]][key] \in Int
    <3>1. edges[rows[i]] \in Int \X Int
      OBVIOUS
    <3> QED  BY <3>1
  <2> QED  BY <2>1
<1>2. ASSUME NEW v \in Int
      PROVE  /\ IsFiniteSet(At(v)) /\ Cardinality(At(v)) \in Nat
             /\ IsFiniteSet(B(v)) /\ Cardinality(B(v)) \in Nat
  <2>1. At(v) \in SUBSET (1 .. k) /\ B(v) \in SUBSET (1 .. k)
    BY DEF WithKey, Below
  <2> QED  BY <2>1, CountNat
<1>3. ASSUME NEW v \in 1 .. n
      PROVE  Cardinality(B(v)) = Cardinality(B(v - 1)) + Cardinality(At(v - 1))
  <2>1. B(v) = B(v - 1) \cup At(v - 1)
    <3>1. DOMAIN rows = 1 .. k /\ v \in Int /\ v >= 1
      OBVIOUS
    <3>2. ASSUME NEW x \in Int PROVE x \in 0 .. v - 1 <=> x \in 0 .. (v - 1) - 1 \/ x = v - 1
      BY <3>1
    <3> QED  BY <1>1, <3>1, <3>2 DEF WithKey, Below
  <2>2. B(v - 1) \cap At(v - 1) = {}
    BY <1>1 DEF WithKey, Below
  <2>3. v - 1 \in Int
    OBVIOUS
  <2> HIDE DEF At, B
  <2>4. Cardinality(B(v - 1) \cup At(v - 1))
          = Cardinality(B(v - 1)) + Cardinality(At(v - 1)) - Cardinality(B(v - 1) \cap At(v - 1))
    BY <1>2, <2>3, FS_Union
  <2>5. Cardinality(B(v - 1) \cap At(v - 1)) = 0
    BY <2>2, FS_EmptySet
  <2>6. Cardinality(B(v - 1)) \in Nat /\ Cardinality(At(v - 1)) \in Nat
    BY <1>2, <2>3
  <2> QED  BY <2>1, <2>4, <2>5, <2>6
<1>4. Cardinality(B(0)) = 0
  <2>1. B(0) = {}
    BY DEF Below
  <2> QED  BY <2>1, FS_EmptySet
<1>5. IsOff(g)
  <2> HIDE DEF At, B
  <2> QED  BY <1>3, <1>4
<1>6. IsOff(off)
  BY <1>5 DEF Offsets
<1>7. ASSUME NEW v \in 0 .. n PROVE off[v] = g[v]
  <2> DEFINE Bad == {x \in 0 .. n : off[x] # g[x]}
  <2> HIDE DEF off, g, B, At
  <2>1. SUFFICES ASSUME Bad # {} PROVE FALSE
    OBVIOUS
  <2>7. Bad \subseteq Nat
    OBVIOUS
  <2>2. PICK x \in Bad : \A y \in Bad : x <= y
    BY <2>1, <2>7, LeastExists
  <2>3. x # 0 /\ x \in 0 .. n /\ x \in Nat
    BY <1>5, <1>6
  <2>4. x - 1 \in 0 .. n /\ x - 1 \notin Bad
    BY <2>2, <2>3
  <2>5. off[x - 1] = g[x - 1]
    BY <2>4
  <2>6. off[x] = off[x - 1] + Cardinality(At(x - 1)) /\ g[x] = g[x - 1] + Cardinality(At(x - 1))
    BY <1>5, <1>6, <2>3
  <2> QED  BY <2>5, <2>6
<1>8. off = [v \in 0 .. n |-> off[v]]
  <2> HIDE DEF off, g, B, At
  <2> QED  BY <1>6
<1>9. \A v \in 0 .. n : off[v] = Cardinality(B(v)) /\ Cardinality(B(v)) \in Nat
  <2>1. ASSUME NEW v \in 0 .. n PROVE off[v] = Cardinality(B(v)) /\ Cardinality(B(v)) \in Nat
    <3>1. g[v] = Cardinality(B(v)) /\ v \in Int
      OBVIOUS
    <3> HIDE DEF off, g, B, At
    <3> QED  BY <1>2, <1>7, <3>1
  <2> QED  BY <2>1
<1>10. off \in [0 .. n -> Nat]
  <2> HIDE DEF off, g, B, At
  <2> QED  BY <1>8, <1>9
<1> QED  BY <1>9, <1>10

\* What an index of an edge table holds, whole and in the order of its keys.
WithKeyBelow(edges, key, v) == {r \in DOMAIN edges : edges[r][key] \in 0 .. v - 1}
Whole(n, m, off, tgt, row, edges, key) ==
  /\ n \in Nat /\ m \in Nat
  /\ row \in [1 .. m -> DOMAIN edges] /\ IsInjective(row)
  /\ \A r \in DOMAIN edges : edges[r][key] \in Nodes(n) <=> \E p \in 1 .. m : row[p] = r
  /\ off = [v \in 0 .. n |-> Cardinality(WithKeyBelow(edges, key, v))]
  /\ tgt = [p \in 1 .. m |-> edges[row[p]][3 - key]]
  /\ \A p, q \in 1 .. m : p < q => ~ Before(edges[row[q]], edges[row[p]], key)

\* The filling pass puts the sorted edges one after the other.
LEMMA SlotCounts ==
  ASSUME NEW k \in Nat, NEW edges \in [1 .. k -> Int \X Int], NEW key \in {1, 2},
         NEW rows \in SortedRows(edges, key), NEW n \in Nat,
         NEW off, off = Offsets(edges, rows, n, key),
         NEW valid, valid = Valid(edges, rows, n, key), NEW i \in valid
  PROVE  Slot(edges, rows, key, off, i) = Cardinality({j \in valid : j <= i})
<1> DEFINE K(j) == edges[rows[j]][key]
           same == {j \in WithKey(edges, rows, key, K(i)) : j <= i}
           less == Below(edges, rows, key, K(i))
<1>1. /\ rows \in [1 .. k -> 1 .. k] /\ DOMAIN rows = 1 .. k
      /\ \A x, y \in 1 .. k : x < y => K(x) <= K(y)
  <2>1. Sorts(k, edges, key, rows)
    BY SortedRowsOrdered
  <2> QED  BY <2>1 DEF Sorts
<1>2. \A x \in 1 .. k : K(x) \in Int
  <2>1. ASSUME NEW x \in 1 .. k PROVE K(x) \in Int
    BY <1>1, BeforeOrder
  <2> QED  BY <2>1
<1>3. i \in 1 .. k /\ K(i) \in 0 .. n /\ K(i) <= n - 1 /\ valid \subseteq 1 .. k
  <2>1. valid \subseteq 1 .. k /\ i \in 1 .. k /\ K(i) \in Nodes(n)
    BY <1>1 DEF Valid
  <2> HIDE DEF K
  <2> QED  BY <2>1 DEF Nodes
<1>4. off[K(i)] = Cardinality(less)
  <2> HIDE DEF K, less, same
  <2>1. rows \in [1 .. k -> 1 .. k]
    BY <1>1
  <2>2. \A v \in 0 .. n : off[v] = Cardinality(Below(edges, rows, key, v))
    <3> HIDE DEF less, same, K
    <3> QED  BY ZenonT(60), <2>1, OffsetsCount
  <2>3. K(i) \in 0 .. n
    BY <1>3
  <2> QED  BY <2>2, <2>3 DEF less
<1>5. less \cup same = {j \in valid : j <= i}
  <2>1. ASSUME NEW j \in less PROVE j \in valid /\ j <= i
    <3>1. j \in 1 .. k /\ K(j) \in 0 .. K(i) - 1
      BY <1>1 DEF Below
    <3>2. ~ (i < j)
      <4>1. i < j => K(i) <= K(j)
        BY <1>1, <1>3, <3>1
      <4>2. K(i) \in Int /\ K(j) \in Int
        BY <1>2, <1>3, <3>1
      <4> HIDE DEF K
      <4> QED  BY <3>1, <4>1, <4>2
    <3>3. j \in valid
      <4>1. K(j) \in Nodes(n)
        <5> HIDE DEF K
        <5> QED  BY <1>3, <3>1 DEF Nodes
      <4> QED  BY <1>1, <3>1, <4>1 DEF Valid
    <3> QED  BY <1>3, <3>1, <3>2, <3>3
  <2>2. ASSUME NEW j \in same PROVE j \in valid /\ j <= i
    BY <1>1, <1>3 DEF Valid, WithKey, Nodes
  <2>3. ASSUME NEW j \in valid, j <= i PROVE j \in less \/ j \in same
    <3>1. j \in 1 .. k /\ K(j) \in 0 .. n - 1
      BY <1>1 DEF Valid, Nodes
    <3>2. K(j) <= K(i)
      <4>1. CASE j = i
        BY <1>2, <1>3, <4>1
      <4>2. CASE j # i
        BY <1>1, <1>3, <2>3, <3>1, <4>2
      <4> QED  BY <4>1, <4>2
    <3>3. K(j) \in Int /\ K(i) \in Int
      BY <1>2, <1>3, <3>1
    <3>4. K(j) = K(i) \/ K(j) \in 0 .. K(i) - 1
      <4> HIDE DEF K
      <4> QED  BY <3>1, <3>2, <3>3
    <3> QED  BY <1>1, <2>3, <3>1, <3>4 DEF Below, WithKey
  <2> HIDE DEF less, same
  <2> QED  BY <2>1, <2>2, <2>3
<1>6. less \cap same = {}
  <2>1. ASSUME NEW j \in less PROVE K(j) # K(i)
    <3>1. j \in 1 .. k /\ K(j) \in 0 .. K(i) - 1
      BY <1>1 DEF Below
    <3>2. K(i) \in Int
      BY <1>2, <1>3
    <3> QED  BY <3>1, <3>2
  <2>2. ASSUME NEW j \in same PROVE K(j) = K(i)
    BY DEF WithKey
  <2> HIDE DEF less, same, K
  <2> QED  BY <2>1, <2>2
<1>7. less \in SUBSET (1 .. k) /\ same \in SUBSET (1 .. k)
  BY <1>1 DEF Below, WithKey
<1>8. /\ IsFiniteSet(less) /\ Cardinality(less) \in Nat
      /\ IsFiniteSet(same) /\ Cardinality(same) \in Nat
  <2> HIDE DEF less, same
  <2> QED  BY <1>7, CountNat
<1>9. Cardinality(less \cup same) = Cardinality(less) + Cardinality(same)
  <2> HIDE DEF less, same
  <2>1. Cardinality(less \cup same)
          = Cardinality(less) + Cardinality(same) - Cardinality(less \cap same)
    BY <1>8, FS_Union
  <2>2. Cardinality(less \cap same) = 0
    BY <1>6, FS_EmptySet
  <2> QED  BY <1>8, <2>1, <2>2
<1>10. Slot(edges, rows, key, off, i) = off[K(i)] + Cardinality(same)
  BY DEF Slot
<1> HIDE DEF less, same, K
<1> QED  BY <1>4, <1>5, <1>9, <1>10

\* The row at each position of the index.
FilledRow(edges, rows, n, key) ==
  [p \in 1 .. Cardinality(Valid(edges, rows, n, key)) |->
     rows[CHOOSE i \in Valid(edges, rows, n, key) :
            Slot(edges, rows, key, Offsets(edges, rows, n, key), i) = p]]

\* The targets beside the rows.
FilledTargets(edges, rows, n, key) ==
  [p \in 1 .. Cardinality(Valid(edges, rows, n, key)) |->
     edges[FilledRow(edges, rows, n, key)[p]][3 - key]]

\* Counting, prefix sums and filling give a whole index.
LEMMA FilledIsWhole ==
  ASSUME NEW k \in Nat, NEW edges \in [1 .. k -> Int \X Int], NEW key \in {1, 2},
         NEW rows \in SortedRows(edges, key), NEW n \in Nat
  PROVE  Whole(n, Cardinality(Valid(edges, rows, n, key)), Offsets(edges, rows, n, key),
               FilledTargets(edges, rows, n, key), FilledRow(edges, rows, n, key), edges, key)
<1> DEFINE K(j) == edges[rows[j]][key]
           valid == Valid(edges, rows, n, key)
           m == Cardinality(valid)
           off == Offsets(edges, rows, n, key)
           c == [i \in valid |-> Cardinality({j \in valid : j <= i})]
           place == [p \in 1 .. m |-> CHOOSE i \in valid : Slot(edges, rows, key, off, i) = p]
           row == FilledRow(edges, rows, n, key)
<1>1. /\ rows \in [1 .. k -> 1 .. k] /\ DOMAIN rows = 1 .. k /\ IsInjective(rows)
      /\ \A r \in 1 .. k : \E i \in 1 .. k : rows[i] = r
      /\ \A i, j \in 1 .. k : i < j => ~ Before(edges[rows[j]], edges[rows[i]], key)
      /\ \A i, j \in 1 .. k : rows[i] = rows[j] => i = j
  <2>1. /\ rows \in [1 .. k -> 1 .. k] /\ IsInjective(rows)
        /\ \A r \in 1 .. k : \E i \in 1 .. k : rows[i] = r
        /\ \A i, j \in 1 .. k : i < j => ~ Before(edges[rows[j]], edges[rows[i]], key)
        /\ \A i, j \in 1 .. k : i < j => edges[rows[i]][key] <= edges[rows[j]][key]
    <3>1. Sorts(k, edges, key, rows)
      BY SortedRowsOrdered
    <3> QED  BY <3>1 DEF Sorts
  <2>2. DOMAIN rows = 1 .. k
    BY <2>1
  <2>3. \A i, j \in 1 .. k : rows[i] = rows[j] => i = j
    BY <2>1, <2>2 DEF IsInjective
  <2> QED  BY <2>1, <2>2, <2>3
<1>2. valid \in SUBSET (1 .. k)
  BY <1>1 DEF Valid
<1>3. m \in Nat
  <2> HIDE DEF valid
  <2> QED  BY <1>2, CountNat
<1>4. c \in Bijection(valid, 1 .. m) /\ \A i, j \in valid : i < j => c[i] < c[j]
  <2> HIDE DEF valid
  <2> QED  BY <1>2, CountingRanks
<1>5. /\ c \in [valid -> 1 .. m]
      /\ \A p \in 1 .. m : \E i \in valid : c[i] = p
      /\ \A i, j \in valid : c[i] = c[j] => i = j
  <2> HIDE DEF c, m, valid
  <2> QED  BY <1>4 DEF Bijection, Injection, Surjection, IsInjective
<1>6. ASSUME NEW i \in valid PROVE Slot(edges, rows, key, off, i) = c[i]
  <2>1. Slot(edges, rows, key, off, i) = Cardinality({j \in valid : j <= i})
    <3> HIDE DEF valid, off
    <3> QED  BY SlotCounts DEF valid, off
  <2> QED  BY <2>1
<1>7. ASSUME NEW p \in 1 .. m PROVE place[p] \in valid /\ c[place[p]] = p
  <2>1. PICK i \in valid : c[i] = p
    BY <1>5
  <2>2. Slot(edges, rows, key, off, i) = p
    BY <1>6, <2>1
  <2>3. place[p] = CHOOSE x \in valid : Slot(edges, rows, key, off, x) = p
    OBVIOUS
  <2>4. place[p] \in valid /\ Slot(edges, rows, key, off, place[p]) = p
    <3> HIDE DEF place, valid, off
    <3> QED  BY <2>2, <2>3
  <2> HIDE DEF place, c
  <2> QED  BY <1>6, <2>4
<1>8. row = [p \in 1 .. m |-> rows[place[p]]]
  BY DEF FilledRow
<1>9. ASSUME NEW p \in 1 .. m, NEW q \in 1 .. m, p < q PROVE place[p] < place[q]
  <2> HIDE DEF place, c, valid, m
  <2>1. place[p] \in valid /\ place[q] \in valid /\ c[place[p]] = p /\ c[place[q]] = q
    BY <1>7
  <2>2. place[p] \in 1 .. k /\ place[q] \in 1 .. k
    BY <1>2, <2>1
  <2>3. p \in Int /\ q \in Int
    OBVIOUS
  <2>4. ~ (place[q] < place[p])
    <3>1. place[q] < place[p] => q < p
      BY <1>4, <2>1
    <3> QED  BY <1>9, <2>3, <3>1
  <2>5. place[p] # place[q]
    BY <1>9, <2>1, <2>3
  <2> QED  BY <2>2, <2>4, <2>5
<1>10. row \in [1 .. m -> 1 .. k]
  <2> HIDE DEF place, c, valid, m, row
  <2> QED  BY <1>1, <1>2, <1>7, <1>8
<1>11. IsInjective(row)
  <2> HIDE DEF place, c, valid, m, row
  <2>1. ASSUME NEW p \in 1 .. m, NEW q \in 1 .. m, row[p] = row[q] PROVE p = q
    <3>1. rows[place[p]] = rows[place[q]]
      BY <1>8, <2>1
    <3>2. place[p] \in 1 .. k /\ place[q] \in 1 .. k
      BY <1>2, <1>7
    <3>3. place[p] = place[q]
      BY ZenonT(60), <1>1, <3>1, <3>2
    <3> QED  BY <1>7, <3>3
  <2> QED  BY <1>10, <2>1 DEF IsInjective
<1>12. ASSUME NEW r \in 1 .. k
       PROVE  edges[r][key] \in Nodes(n) <=> \E p \in 1 .. m : row[p] = r
  <2>1. ASSUME edges[r][key] \in Nodes(n) PROVE \E p \in 1 .. m : row[p] = r
    <3>1. PICK i \in 1 .. k : rows[i] = r
      BY <1>1
    <3>2. i \in valid
      BY <1>1, <2>1, <3>1 DEF Valid
    <3> HIDE DEF place, c, valid, m, row
    <3>3. c[i] \in 1 .. m
      BY <1>5, <3>2
    <3>4. place[c[i]] = i
      BY <1>5, <1>7, <3>2, <3>3
    <3>5. row[c[i]] = r
      BY <1>8, <3>1, <3>3, <3>4
    <3> QED  BY <3>3, <3>5
  <2>2. ASSUME NEW p \in 1 .. m, row[p] = r PROVE edges[r][key] \in Nodes(n)
    <3>1. place[p] \in valid /\ row[p] = rows[place[p]]
      <4> HIDE DEF place, c, valid, m, row
      <4> QED  BY <1>7, <1>8
    <3> HIDE DEF place, m, row
    <3> QED  BY <2>2, <3>1 DEF Valid
  <2> QED  BY <2>1, <2>2
<1>13. off = [v \in 0 .. n |-> Cardinality(WithKeyBelow(edges, key, v))]
  <2>1. ASSUME NEW v \in 0 .. n
        PROVE  Cardinality(Below(edges, rows, key, v)) = Cardinality(WithKeyBelow(edges, key, v))
    <3> DEFINE S == Below(edges, rows, key, v)
               T == WithKeyBelow(edges, key, v)
               f == [i \in S |-> rows[i]]
    <3>1. S \in SUBSET (1 .. k)
      BY <1>1 DEF Below
    <3>2. f \in [S -> T]
      BY <1>1 DEF Below, WithKeyBelow
    <3>3. IsInjective(f)
      BY <1>1, <3>1 DEF IsInjective
    <3>4. ASSUME NEW r \in T PROVE \E i \in S : f[i] = r
      <4>1. r \in 1 .. k /\ edges[r][key] \in 0 .. v - 1
        BY DEF WithKeyBelow
      <4>2. PICK i \in 1 .. k : rows[i] = r
        BY <1>1, <4>1
      <4>3. i \in S
        BY <1>1, <4>1, <4>2 DEF Below
      <4> QED  BY <4>2, <4>3
    <3>5. IsFiniteSet(S)
      <4> HIDE DEF S
      <4> QED  BY <3>1, CountNat
    <3> HIDE DEF S, T, f
    <3>6. Cardinality(T) = Cardinality(S)
      BY <3>2, <3>3, <3>4, <3>5, SameCount
    <3> QED  BY <3>6 DEF S, T
  <2>2. off \in [0 .. n -> Nat] /\ \A v \in 0 .. n : off[v] = Cardinality(Below(edges, rows, key, v))
    <3>1. rows \in [1 .. k -> 1 .. k]
      BY <1>1
    <3> HIDE DEF valid
    <3> QED  BY ZenonT(60), <3>1, OffsetsCount
  <2> QED  BY <2>1, <2>2
<1>14. FilledTargets(edges, rows, n, key) = [p \in 1 .. m |-> edges[row[p]][3 - key]]
  BY DEF FilledTargets
<1>15. ASSUME NEW p \in 1 .. m, NEW q \in 1 .. m, p < q
       PROVE  ~ Before(edges[row[q]], edges[row[p]], key)
  <2> HIDE DEF place, c, valid, m, row
  <2>1. place[p] < place[q] /\ place[p] \in 1 .. k /\ place[q] \in 1 .. k
    BY <1>2, <1>7, <1>9, <1>15
  <2> QED  BY <1>1, <1>8, <2>1
<1>16. DOMAIN edges = 1 .. k
  OBVIOUS
<1> HIDE DEF row, place, c
<1> QED  BY <1>3, <1>10, <1>11, <1>12, <1>13, <1>14, <1>15, <1>16 DEF Whole, row

-----------------------------------------------------------------------------
(* What a whole index says of its positions. *)

\* The key of the edge at a position is a node, and the keys ascend.
Keyed(k, n, m, tgt, row, edges, key) ==
  /\ n \in Nat /\ m \in Nat /\ row \in [1 .. m -> 1 .. k]
  /\ \A p \in 1 .. m : /\ edges[row[p]] \in Int \X Int
                       /\ edges[row[p]][key] \in Nat /\ edges[row[p]][key] < n
                       /\ tgt[p] = edges[row[p]][3 - key] /\ tgt[p] \in Int
  /\ \A p, q \in 1 .. m : p < q => edges[row[p]][key] <= edges[row[q]][key]
  /\ \A p, q \in 1 .. m : p < q /\ edges[row[p]][key] = edges[row[q]][key] => tgt[p] <= tgt[q]

\* A whole index is so.
LEMMA WholeKeys ==
  ASSUME NEW k \in Nat, NEW edges \in [1 .. k -> Int \X Int], NEW key \in {1, 2},
         NEW n, NEW m, NEW off, NEW tgt, NEW row, Whole(n, m, off, tgt, row, edges, key)
  PROVE  Keyed(k, n, m, tgt, row, edges, key)
<1>1. n \in Nat /\ m \in Nat /\ DOMAIN edges = 1 .. k /\ row \in [1 .. m -> 1 .. k]
  BY DEF Whole
<1>2. ASSUME NEW p \in 1 .. m
      PROVE  /\ edges[row[p]] \in Int \X Int
             /\ edges[row[p]][key] \in Nat /\ edges[row[p]][key] < n
             /\ tgt[p] = edges[row[p]][3 - key] /\ tgt[p] \in Int
  <2>1. row[p] \in 1 .. k /\ edges[row[p]] \in Int \X Int
    BY <1>1
  <2>2. edges[row[p]][key] \in Int /\ edges[row[p]][3 - key] \in Int
    BY <2>1, BeforeOrder
  <2>3. edges[row[p]][key] \in Nodes(n)
    BY <1>1, <2>1 DEF Whole
  <2>4. tgt[p] = edges[row[p]][3 - key]
    BY DEF Whole
  <2>5. edges[row[p]][key] \in Nat /\ edges[row[p]][key] < n
    BY SMTT(30), <1>1, <2>2, <2>3 DEF Nodes
  <2> QED  BY <2>1, <2>2, <2>4, <2>5
<1>3. ASSUME NEW p \in 1 .. m, NEW q \in 1 .. m, p < q
      PROVE  /\ edges[row[p]][key] <= edges[row[q]][key]
             /\ edges[row[p]][key] = edges[row[q]][key] => tgt[p] <= tgt[q]
  <2>1. ~ Before(edges[row[q]], edges[row[p]], key)
    BY <1>3 DEF Whole
  <2>2. edges[row[p]] \in Int \X Int /\ edges[row[q]] \in Int \X Int
    BY <1>2
  <2>3. /\ edges[row[p]][key] <= edges[row[q]][key]
        /\ edges[row[p]][key] = edges[row[q]][key]
             => edges[row[p]][3 - key] <= edges[row[q]][3 - key]
    BY <2>1, <2>2, BeforeOrder
  <2> QED  BY <1>2, <2>3
<1> QED  BY <1>1, <1>2, <1>3 DEF Keyed

\* The edges with keys below v are at the positions up to the offset of v.
LEMMA WholeBelow ==
  ASSUME NEW k \in Nat, NEW edges \in [1 .. k -> Int \X Int], NEW key \in {1, 2},
         NEW n, NEW m, NEW off, NEW tgt, NEW row, Whole(n, m, off, tgt, row, edges, key),
         NEW v \in 0 .. n
  PROVE  /\ off[v] \in 0 .. m
         /\ \A p \in 1 .. m : p <= off[v] <=> edges[row[p]][key] < v
<1> DEFINE K(p) == edges[row[p]][key]
           P == {p \in 1 .. m : K(p) < v}
           T == WithKeyBelow(edges, key, v)
           f == [p \in P |-> row[p]]
<1>1. /\ n \in Nat /\ m \in Nat /\ row \in [1 .. m -> 1 .. k]
      /\ \A p \in 1 .. m : K(p) \in Nat /\ K(p) < n
      /\ \A p, q \in 1 .. m : p < q => K(p) <= K(q)
  <2>1. Keyed(k, n, m, tgt, row, edges, key)
    BY WholeKeys
  <2> QED  BY <2>1 DEF Keyed
<1>2. P = 1 .. Cardinality(P)
  <2>1. P \in SUBSET (1 .. m)
    OBVIOUS
  <2>2. ASSUME NEW i \in P, NEW j \in 1 .. m, j < i PROVE j \in P
    <3>1. i \in 1 .. m /\ K(i) < v /\ v \in Int
      BY <1>1
    <3>2. (K(j) \in Nat /\ K(i) \in Nat /\ K(j) <= K(i) /\ K(j) < v) => j \in P
      OBVIOUS
    <3> HIDE DEF K, P
    <3>3. K(j) <= K(i) /\ K(j) \in Nat /\ K(i) \in Nat
      BY <1>1, <2>2, <3>1
    <3> QED  BY <3>1, <3>2, <3>3
  <2> HIDE DEF P
  <2> QED  BY <1>1, <2>1, <2>2, InitialSegment
<1>3. f \in [P -> T]
  <2>1. ASSUME NEW p \in P PROVE row[p] \in T
    <3>1. row[p] \in 1 .. k /\ K(p) \in Nat /\ K(p) < v
      BY <1>1
    <3>2. K(p) \in 0 .. v - 1
      <4> HIDE DEF K
      <4> QED  BY <3>1
    <3> QED  BY <3>1, <3>2 DEF WithKeyBelow
  <2> HIDE DEF P, T
  <2> QED  BY <2>1
<1>4. IsInjective(f)
  <2>1. \A p, q \in 1 .. m : row[p] = row[q] => p = q
    BY <1>1 DEF Whole, IsInjective
  <2>2. \A p, q \in P : f[p] = f[q] => p = q
    BY <2>1
  <2> HIDE DEF P
  <2> QED  BY <2>2 DEF IsInjective
<1>5. ASSUME NEW r \in T PROVE \E p \in P : f[p] = r
  <2>1. r \in 1 .. k /\ edges[r][key] \in 0 .. v - 1
    BY DEF WithKeyBelow
  <2>2. edges[r][key] \in Nodes(n) /\ edges[r][key] < v
    BY SMTT(30), <1>1, <2>1 DEF Nodes
  <2>3. PICK p \in 1 .. m : row[p] = r
    BY <2>1, <2>2 DEF Whole
  <2>4. p \in P
    BY <2>2, <2>3
  <2> QED  BY <2>3, <2>4
<1>6. IsFiniteSet(P) /\ Cardinality(P) \in 0 .. m
  <2>1. P \in SUBSET (1 .. m)
    OBVIOUS
  <2> HIDE DEF P
  <2> QED  BY <1>1, <2>1, CountNat
<1>7. off[v] = Cardinality(T)
  BY DEF Whole
<1>8. Cardinality(T) = Cardinality(P)
  <2> HIDE DEF f, P, T
  <2> QED  BY <1>3, <1>4, <1>5, <1>6, SameCount
<1>9. off[v] \in 0 .. m /\ P = 1 .. off[v]
  <2> HIDE DEF P, T
  <2> QED  BY <1>2, <1>6, <1>7, <1>8
<1>10. ASSUME NEW p \in 1 .. m PROVE p <= off[v] <=> K(p) < v
  <2>1. p \in P <=> K(p) < v
    OBVIOUS
  <2> HIDE DEF P, K
  <2> QED  BY <1>1, <1>9, <2>1
<1> QED  BY <1>9, <1>10

\* The offsets do not decrease, and the list of a node has exactly the edges with its key.
Listed(n, m, off, row, edges, key, v) ==
  /\ v \in 0 .. n /\ v + 1 \in 0 .. n
  /\ off[v] \in 0 .. m /\ off[v + 1] \in 0 .. m /\ off[v] <= off[v + 1]
  /\ \A p \in 1 .. m : p \in off[v] + 1 .. off[v + 1] <=> edges[row[p]][key] = v
  /\ off[v] + 1 .. off[v + 1] \subseteq 1 .. m

\* So it is in a whole index.
LEMMA WholeLists ==
  ASSUME NEW k \in Nat, NEW edges \in [1 .. k -> Int \X Int], NEW key \in {1, 2},
         NEW n, NEW m, NEW off, NEW tgt, NEW row, Whole(n, m, off, tgt, row, edges, key),
         NEW v \in Nodes(n)
  PROVE  Listed(n, m, off, row, edges, key, v)
<1> DEFINE K(p) == edges[row[p]][key]
<1>1. n \in Nat /\ m \in Nat /\ \A p \in 1 .. m : K(p) \in Nat
  <2>1. Keyed(k, n, m, tgt, row, edges, key)
    BY WholeKeys
  <2> QED  BY <2>1 DEF Keyed
<1>2. v \in 0 .. n /\ v + 1 \in 0 .. n
  BY <1>1 DEF Nodes
<1>3. /\ off[v] \in 0 .. m /\ off[v + 1] \in 0 .. m
      /\ \A p \in 1 .. m : p <= off[v] <=> K(p) < v
      /\ \A p \in 1 .. m : p <= off[v + 1] <=> K(p) < v + 1
  BY ZenonT(60), <1>2, WholeBelow
<1>4. off[v] <= off[v + 1]
  <2>1. SUFFICES ASSUME ~ (off[v] <= off[v + 1]) PROVE FALSE
    OBVIOUS
  <2>2. off[v] \in 1 .. m
    BY <1>1, <1>3, <2>1
  <2>3. K(off[v]) < v /\ ~ (K(off[v]) < v + 1) /\ K(off[v]) \in Nat
    BY SMTT(30), <1>1, <1>3, <2>1, <2>2
  <2> HIDE DEF K
  <2> QED  BY <1>2, <2>3
<1>5. ASSUME NEW p \in 1 .. m PROVE p \in off[v] + 1 .. off[v + 1] <=> K(p) = v
  <2>1. K(p) \in Nat /\ (p <= off[v] <=> K(p) < v) /\ (p <= off[v + 1] <=> K(p) < v + 1)
    BY <1>1, <1>3
  <2> HIDE DEF K
  <2> QED  BY <1>1, <1>2, <1>3, <2>1
<1> QED  BY <1>1, <1>2, <1>3, <1>4, <1>5 DEF Listed

\* A whole index is one of the table.
LEMMA WholeIndexes ==
  ASSUME NEW k \in Nat, NEW edges \in [1 .. k -> Int \X Int], NEW isReverse \in BOOLEAN,
         NEW csr, NEW row, Whole(csr.n, csr.m, csr.off, csr.tgt, row, edges, Key(isReverse))
  PROVE  IndexesTable(csr, row, edges, isReverse)
<1> DEFINE key == Key(isReverse)
           rows == {r \in DOMAIN edges : edges[r][key] \in Nodes(csr.n)}
           f == [p \in 1 .. csr.m |-> row[p]]
<1>1. key \in {1, 2} /\ Whole(csr.n, csr.m, csr.off, csr.tgt, row, edges, key)
  BY DEF Key
<1>2. /\ csr.n \in Nat /\ csr.m \in Nat /\ row \in [1 .. csr.m -> 1 .. k]
      /\ \A p \in 1 .. csr.m : /\ edges[row[p]] \in Int \X Int
                               /\ edges[row[p]][key] \in Nat /\ edges[row[p]][key] < csr.n
                               /\ csr.tgt[p] = edges[row[p]][3 - key]
      /\ \A p, q \in 1 .. csr.m :
            p < q /\ edges[row[p]][key] = edges[row[q]][key] => csr.tgt[p] <= csr.tgt[q]
  <2> HIDE DEF key
  <2>1. Keyed(k, csr.n, csr.m, csr.tgt, row, edges, key)
    BY <1>1, WholeKeys
  <2> QED  BY <2>1 DEF Keyed
<1>3. {row[p] : p \in 1 .. csr.m} = rows
  <2> HIDE DEF key
  <2>1. \A r \in 1 .. k : edges[r][key] \in Nodes(csr.n) <=> \E p \in 1 .. csr.m : row[p] = r
    BY <1>1 DEF Whole
  <2>2. ASSUME NEW p \in 1 .. csr.m PROVE row[p] \in rows
    BY <1>2, <2>1
  <2>3. ASSUME NEW r \in rows PROVE \E p \in 1 .. csr.m : row[p] = r
    BY <2>1
  <2> HIDE DEF rows
  <2> QED  BY <2>2, <2>3
<1>4. csr.m = Cardinality(rows)
  <2>1. f \in [1 .. csr.m -> rows]
    BY <1>3
  <2>2. IsInjective(f)
    BY <1>2 DEF Whole, IsInjective
  <2>3. \A r \in rows : \E p \in 1 .. csr.m : f[p] = r
    BY <1>3
  <2>4. IsFiniteSet(1 .. csr.m) /\ Cardinality(1 .. csr.m) = csr.m
    BY <1>2, FS_Interval
  <2> HIDE DEF f, rows
  <2> QED  BY ZenonT(60), <2>1, <2>2, <2>3, <2>4, SameCount
<1>5. csr.off[0] = 0
  <2>1. csr.off[0] = Cardinality(WithKeyBelow(edges, key, 0))
    BY <1>2 DEF Whole
  <2>2. WithKeyBelow(edges, key, 0) = {}
    BY DEF WithKeyBelow
  <2> QED  BY <2>1, <2>2, FS_EmptySet
<1>6. csr.off[csr.n] = csr.m
  <2>1. csr.off[csr.n] = Cardinality(WithKeyBelow(edges, key, csr.n))
    BY <1>2 DEF Whole
  <2>2. WithKeyBelow(edges, key, csr.n) = rows
    BY DEF WithKeyBelow, Nodes
  <2> QED  BY <1>4, <2>1, <2>2
<1>7. ASSUME NEW v \in Nodes(csr.n)
      PROVE  /\ \A p \in Positions(csr, v) : p \in 1 .. csr.m /\ edges[row[p]][key] = v
  <2>1. /\ \A p \in 1 .. csr.m :
              p \in csr.off[v] + 1 .. csr.off[v + 1] <=> edges[row[p]][key] = v
        /\ csr.off[v] + 1 .. csr.off[v + 1] \subseteq 1 .. csr.m
    <3> HIDE DEF key
    <3>1. Listed(csr.n, csr.m, csr.off, row, edges, key, v)
      BY <1>1, WholeLists
    <3> QED  BY <3>1 DEF Listed
  <2> QED  BY <2>1 DEF Positions
<1>8. ASSUME NEW v \in Nodes(csr.n), NEW p \in Positions(csr, v)
      PROVE  edges[row[p]] = IF isReverse THEN <<csr.tgt[p], v>> ELSE <<v, csr.tgt[p]>>
  <2>1. /\ edges[row[p]] \in Int \X Int /\ edges[row[p]][key] = v
        /\ csr.tgt[p] = edges[row[p]][3 - key]
    BY <1>2, <1>7
  <2>2. CASE isReverse
    <3>1. key = 2 /\ 3 - key = 1
      BY <2>2 DEF Key
    <3> HIDE DEF key
    <3>2. edges[row[p]][2] = v /\ csr.tgt[p] = edges[row[p]][1]
      BY <2>1, <3>1
    <3> QED  BY <2>1, <2>2, <3>2
  <2>3. CASE ~ isReverse
    <3>1. key = 1 /\ 3 - key = 2
      BY <2>3 DEF Key
    <3> HIDE DEF key
    <3>2. edges[row[p]][1] = v /\ csr.tgt[p] = edges[row[p]][2]
      BY <2>1, <3>1
    <3> QED  BY <2>1, <2>3, <3>2
  <2> QED  BY <2>2, <2>3
<1>9. ASSUME NEW v \in Nodes(csr.n), NEW p \in Positions(csr, v), NEW q \in Positions(csr, v), p < q
      PROVE  csr.tgt[p] <= csr.tgt[q]
  BY ZenonT(60), <1>2, <1>7, <1>9
<1> HIDE DEF rows
<1> QED  BY <1>3, <1>4, <1>5, <1>6, <1>8, <1>9 DEF IndexesTable, rows

-----------------------------------------------------------------------------
(* What the builders return. *)

\* An index by the components of Whole.
IsCsr(csr, n, m, off, tgt, row, sort) ==
  csr = [n |-> n, m |-> m, off |-> off, row |-> row, sorted |-> sort, tgt |-> tgt]

\* qsort has put the lists in order already: their insertion sort moves nothing.
LEMMA AdjacencyInOrder ==
  ASSUME NEW k \in Nat, NEW edges \in [1 .. k -> Int \X Int], NEW key \in {1, 2},
         NEW n, NEW m, NEW off, NEW tgt, NEW row, Whole(n, m, off, tgt, row, edges, key),
         NEW csr, IsCsr(csr, n, m, off, tgt, row, FALSE)
  PROVE  IsCsr(SortAdjacency(csr), n, m, off, tgt, row, TRUE)
<1> DEFINE K(p) == edges[row[p]][key]
           List(p) == CHOOSE v \in Nodes(csr.n) : p \in Positions(csr, v)
           Ahead(p) == {q \in Positions(csr, List(p)) :
                          \/ csr.tgt[q] < csr.tgt[p]
                          \/ csr.tgt[q] = csr.tgt[p] /\ q <= p}
           Rank(p) == csr.off[List(p)] + Cardinality(Ahead(p))
           From(p) == CHOOSE q \in 1 .. csr.m : Rank(q) = p
<1>1. /\ n \in Nat /\ m \in Nat /\ row \in [1 .. m -> 1 .. k]
      /\ \A p \in 1 .. m : K(p) \in Nat /\ K(p) < n /\ tgt[p] \in Int
      /\ \A p, q \in 1 .. m : p < q /\ K(p) = K(q) => tgt[p] <= tgt[q]
  <2>1. Keyed(k, n, m, tgt, row, edges, key)
    BY WholeKeys
  <2> QED  BY <2>1 DEF Keyed
<1>2. csr.n = n /\ csr.m = m /\ csr.off = off /\ csr.tgt = tgt /\ csr.row = row
  BY DEF IsCsr
<1>3. ASSUME NEW v \in Nodes(n)
      PROVE  /\ off[v] \in 0 .. m /\ off[v + 1] \in 0 .. m
             /\ Positions(csr, v) = off[v] + 1 .. off[v + 1]
             /\ Positions(csr, v) \subseteq 1 .. m
             /\ \A p \in 1 .. m : p \in Positions(csr, v) <=> K(p) = v
  <2>1. Listed(n, m, off, row, edges, key, v)
    BY WholeLists
  <2>2. Positions(csr, v) = off[v] + 1 .. off[v + 1]
    BY <1>2 DEF Positions
  <2> QED  BY <2>1, <2>2 DEF Listed
<1>4. ASSUME NEW p \in 1 .. m
      PROVE  K(p) \in Nodes(n) /\ List(p) = K(p)
  <2>1. K(p) \in Nodes(n)
    <3>1. K(p) \in Nat /\ K(p) < n
      BY <1>1
    <3> HIDE DEF K
    <3> QED  BY <1>1, <3>1 DEF Nodes
  <2>2. \A v \in Nodes(n) : p \in Positions(csr, v) <=> K(p) = v
    BY <1>3
  <2> HIDE DEF K
  <2>3. List(p) = CHOOSE v \in Nodes(n) : p \in Positions(csr, v)
    BY <1>2
  <2>4. List(p) \in Nodes(n) /\ p \in Positions(csr, List(p))
    <3> HIDE DEF List
    <3> QED  BY <2>1, <2>2, <2>3
  <2> HIDE DEF List
  <2> QED  BY <2>1, <2>2, <2>4
<1>5. ASSUME NEW p \in 1 .. m PROVE Rank(p) = p
  <2>1. K(p) \in Nodes(n) /\ List(p) = K(p)
    BY <1>4
  <2>2. /\ off[K(p)] \in 0 .. m /\ off[K(p) + 1] \in 0 .. m
        /\ Positions(csr, K(p)) = off[K(p)] + 1 .. off[K(p) + 1]
        /\ Positions(csr, K(p)) \subseteq 1 .. m
        /\ \A q \in 1 .. m : q \in Positions(csr, K(p)) <=> K(q) = K(p)
    BY <1>3, <2>1
  <2>3. p \in off[K(p)] + 1 .. off[K(p) + 1]
    BY <2>2
  <2>4. ASSUME NEW q \in Positions(csr, K(p))
        PROVE  (tgt[q] < tgt[p] \/ (tgt[q] = tgt[p] /\ q <= p)) <=> q <= p
    <3>1. /\ q \in 1 .. m /\ K(q) = K(p) /\ tgt[q] \in Int /\ tgt[p] \in Int
          /\ (q < p => tgt[q] <= tgt[p]) /\ (p < q => tgt[p] <= tgt[q])
      BY <1>1, <2>2
    <3> HIDE DEF K
    <3> QED  BY <3>1
  <2>5. Ahead(p) = {q \in Positions(csr, K(p)) :
                      tgt[q] < tgt[p] \/ (tgt[q] = tgt[p] /\ q <= p)}
    <3> HIDE DEF K, List
    <3> QED  BY <1>2, <2>1
  <2>6. Ahead(p) = {q \in Positions(csr, K(p)) : q <= p}
    <3> HIDE DEF K, Ahead
    <3> QED  BY <2>4, <2>5
  <2>9. off[K(p)] \in Int /\ off[K(p) + 1] \in Int /\ p \in Int
    <3> HIDE DEF K
    <3> QED  BY <2>2
  <2>7. Ahead(p) = off[K(p)] + 1 .. p
    <3> HIDE DEF K, Ahead
    <3>1. \A q \in Int : q \in Ahead(p) <=> q \in off[K(p)] + 1 .. off[K(p) + 1] /\ q <= p
      BY <2>2, <2>6
    <3>2. Ahead(p) \subseteq Int
      BY <2>2, <2>6, <2>9
    <3>3. ASSUME NEW q \in Int PROVE q \in Ahead(p) <=> q \in off[K(p)] + 1 .. p
      <4>1. off[K(p)] + 1 <= p /\ p <= off[K(p) + 1]
        BY <2>3, <2>9
      <4> QED  BY <2>9, <3>1, <4>1
    <3>4. off[K(p)] + 1 .. p \subseteq Int
      OBVIOUS
    <3> QED  BY <3>2, <3>3, <3>4
  <2>8. Cardinality(off[K(p)] + 1 .. p) = p - off[K(p)]
    <3> HIDE DEF K
    <3>1. off[K(p)] + 1 \in Int /\ ~ (off[K(p)] + 1 > p)
      BY <2>3, <2>9
    <3>2. Cardinality(off[K(p)] + 1 .. p) = p - (off[K(p)] + 1) + 1
      BY <2>9, <3>1, FS_Interval
    <3> QED  BY <2>9, <3>2
  <2>10. Rank(p) = off[K(p)] + Cardinality(Ahead(p))
    <3> HIDE DEF K, Ahead, List
    <3> QED  BY <1>2, <2>1
  <2> HIDE DEF K, Ahead, List, Rank
  <2> QED  BY <2>7, <2>8, <2>9, <2>10
<1>6. ASSUME NEW p \in 1 .. m PROVE From(p) = p
  <2>1. From(p) = CHOOSE q \in 1 .. m : Rank(q) = p
    BY <1>2
  <2> HIDE DEF From, Rank
  <2>2. From(p) \in 1 .. m /\ Rank(From(p)) = p
    BY <1>5, <2>1
  <2> QED  BY <1>5, <2>2
<1>7. SortAdjacency(csr) = [csr EXCEPT !.tgt = [p \in 1 .. csr.m |-> csr.tgt[From(p)]],
                                       !.row = [p \in 1 .. csr.m |-> csr.row[From(p)]],
                                       !.sorted = TRUE]
  BY DEF SortAdjacency
<1>8. [p \in 1 .. csr.m |-> csr.tgt[From(p)]] = tgt
  <2> HIDE DEF From
  <2>1. tgt = [p \in 1 .. m |-> tgt[p]]
    BY DEF Whole
  <2> QED  BY <1>2, <1>6, <2>1
<1>9. [p \in 1 .. csr.m |-> csr.row[From(p)]] = row
  <2> HIDE DEF From
  <2>1. row = [p \in 1 .. m |-> row[p]]
    BY <1>1
  <2> QED  BY <1>2, <1>6, <2>1
<1>10. SortAdjacency(csr) = [csr EXCEPT !.tgt = tgt, !.row = row, !.sorted = TRUE]
  <2> HIDE DEF From
  <2> QED  BY <1>7, <1>8, <1>9
<1> QED  BY <1>10 DEF IsCsr

\* An index that is built is whole, sorted or not.
LEMMA BuiltIsWhole ==
  ASSUME NEW k \in Nat, NEW edges \in [1 .. k -> Int \X Int], NEW isReverse \in BOOLEAN,
         NEW rows \in SortedRows(edges, Key(isReverse)), NEW n \in Nat, NEW sort \in BOOLEAN
  PROVE  LET csr == BuildFromPairs(edges, rows, n, isReverse, sort)
         IN  Whole(csr.n, csr.m, csr.off, csr.tgt, csr.row, edges, Key(isReverse))
<1> DEFINE key == Key(isReverse)
           m == Cardinality(Valid(edges, rows, n, key))
           off == Offsets(edges, rows, n, key)
           row == FilledRow(edges, rows, n, key)
           tgt == FilledTargets(edges, rows, n, key)
           plain == [n |-> n, m |-> m, off |-> off, row |-> row, sorted |-> FALSE, tgt |-> tgt]
           csr == BuildFromPairs(edges, rows, n, isReverse, sort)
<1>1. key \in {1, 2}
  BY DEF Key
<1>2. Whole(n, m, off, tgt, row, edges, key)
  <2> HIDE DEF key
  <2>1. rows \in SortedRows(edges, key)
    BY DEF key
  <2> QED  BY <1>1, <2>1, FilledIsWhole
<1>3. csr = IF sort THEN SortAdjacency(plain) ELSE plain
  BY DEF BuildFromPairs, FilledRow, FilledTargets
<1>4. IsCsr(plain, n, m, off, tgt, row, FALSE)
  BY DEF IsCsr
<1>5. IsCsr(SortAdjacency(plain), n, m, off, tgt, row, TRUE)
  <2> HIDE DEF key, m, off, row, tgt, plain
  <2> QED  BY <1>1, <1>2, <1>4, AdjacencyInOrder
<1>6. csr.n = n /\ csr.m = m /\ csr.off = off /\ csr.tgt = tgt /\ csr.row = row
  <2> HIDE DEF key, m, off, row, tgt, plain, csr
  <2> QED  BY <1>3, <1>4, <1>5 DEF IsCsr
<1> HIDE DEF key, m, off, row, tgt, plain, csr
<1>7. Whole(csr.n, csr.m, csr.off, csr.tgt, csr.row, edges, key)
  BY <1>2, <1>6
<1> QED  BY <1>7 DEF csr, key

\* Two whole indexes of one table for the same nodes may differ in their row maps only: at the
\* first position with different targets one of them would have too many small edges.
LEMMA NoEarlierEdge ==
  ASSUME NEW k \in Nat, NEW edges \in [1 .. k -> Int \X Int], NEW key \in {1, 2},
         NEW n, NEW off,
         NEW m, NEW tgt, NEW row, Whole(n, m, off, tgt, row, edges, key),
         NEW tgt2, NEW row2, Whole(n, m, off, tgt2, row2, edges, key),
         NEW p \in 1 .. m, Before(edges[row[p]], edges[row2[p]], key)
  PROVE  FALSE
<1> DEFINE a == edges[row[p]]
           R == {r \in 1 .. k : edges[r][key] \in Nodes(n) /\ ~ Before(a, edges[r], key)}
           P == {q \in 1 .. m : row[q] \in R}
           Q == {q \in 1 .. m : row2[q] \in R}
<1>1. /\ n \in Nat /\ m \in Nat /\ row \in [1 .. m -> 1 .. k]
      /\ \A q \in 1 .. m : edges[row[q]] \in Int \X Int /\ edges[row[q]][key] \in Nodes(n)
      /\ \A x, y \in 1 .. m : x < y => ~ Before(edges[row[y]], edges[row[x]], key)
      /\ \A x, y \in 1 .. m : row[x] = row[y] => x = y
      /\ \A r \in 1 .. k : edges[r][key] \in Nodes(n) => \E q \in 1 .. m : row[q] = r
  <2>1. n \in Nat /\ m \in Nat /\ row \in [1 .. m -> 1 .. k]
    BY DEF Whole
  <2>2. \A q \in 1 .. m : edges[row[q]] \in Int \X Int /\ edges[row[q]][key] \in Nodes(n)
    BY <2>1 DEF Whole
  <2>3. \A x, y \in 1 .. m : x < y => ~ Before(edges[row[y]], edges[row[x]], key)
    BY DEF Whole
  <2>4. \A x, y \in 1 .. m : row[x] = row[y] => x = y
    BY <2>1 DEF Whole, IsInjective
  <2>5. \A r \in 1 .. k : edges[r][key] \in Nodes(n) => \E q \in 1 .. m : row[q] = r
    BY DEF Whole
  <2> QED  BY <2>1, <2>2, <2>3, <2>4, <2>5
<1>2. /\ row2 \in [1 .. m -> 1 .. k]
      /\ \A q \in 1 .. m : edges[row2[q]] \in Int \X Int /\ edges[row2[q]][key] \in Nodes(n)
      /\ \A x, y \in 1 .. m : x < y => ~ Before(edges[row2[y]], edges[row2[x]], key)
      /\ \A x, y \in 1 .. m : row2[x] = row2[y] => x = y
      /\ \A r \in 1 .. k : edges[r][key] \in Nodes(n) => \E q \in 1 .. m : row2[q] = r
  BY ZenonT(60) DEF Whole, IsInjective
<1>3. a \in Int \X Int
  BY <1>1
<1>4. IsFiniteSet(R) /\ Cardinality(R) \in Nat
  <2>1. R \in SUBSET (1 .. k)
    OBVIOUS
  <2> HIDE DEF R
  <2> QED  BY <2>1, CountNat
<1>5. ASSUME NEW g \in [1 .. m -> 1 .. k],
             \A x, y \in 1 .. m : g[x] = g[y] => x = y,
             \A r \in 1 .. k : edges[r][key] \in Nodes(n) => \E q \in 1 .. m : g[q] = r
      PROVE  /\ IsFiniteSet({q \in 1 .. m : g[q] \in R})
             /\ Cardinality({q \in 1 .. m : g[q] \in R}) = Cardinality(R)
  <2> DEFINE S == {q \in 1 .. m : g[q] \in R}
             f == [q \in S |-> g[q]]
  <2>1. S \in SUBSET (1 .. m) /\ m \in Nat
    BY <1>1
  <2>2. IsFiniteSet(S)
    <3> HIDE DEF S
    <3> QED  BY <2>1, CountNat
  <2>3. f \in [S -> R] /\ IsInjective(f)
    BY <1>5 DEF IsInjective
  <2>4. \A r \in R : \E q \in S : f[q] = r
    BY <1>5
  <2>5. Cardinality(R) = Cardinality(S)
    <3> HIDE DEF S, R, f
    <3> QED  BY <2>2, <2>3, <2>4, SameCount
  <2> QED  BY <2>2, <2>5
<1>6. IsFiniteSet(P) /\ Cardinality(P) = Cardinality(R)
  <2> HIDE DEF R
  <2> QED  BY <1>1, <1>5
<1>7. IsFiniteSet(Q) /\ Cardinality(Q) = Cardinality(R)
  <2> HIDE DEF R
  <2> QED  BY <1>2, <1>5
<1>8. ASSUME NEW q \in 1 .. p PROVE q \in P
  <2>1. q \in 1 .. m /\ row[q] \in 1 .. k /\ edges[row[q]] \in Int \X Int
        /\ edges[row[q]][key] \in Nodes(n)
    <3>1. q \in 1 .. m
      <4>1. m \in Nat
        BY <1>1
      <4> HIDE DEF a
      <4> QED  BY <4>1
    <3> QED  BY <1>1, <3>1
  <2>2. ~ Before(a, edges[row[q]], key)
    <3>1. CASE q < p
      BY <1>1, <2>1, <3>1
    <3>2. CASE q = p
      <4>1. ~ Before(a, a, key)
        <5>1. a[key] \in Int /\ a[3 - key] \in Int
          <6> HIDE DEF a
          <6> QED  BY <1>3, BeforeOrder
        <5> HIDE DEF a
        <5> QED  BY SMTT(30), <5>1 DEF Before
      <4> QED  BY <3>2, <4>1
    <3> QED  BY <3>1, <3>2
  <2> QED  BY <2>1, <2>2
<1>9. ASSUME NEW q \in Q PROVE q \in 1 .. p - 1
  <2>1. /\ q \in 1 .. m /\ row2[q] \in 1 .. k /\ ~ Before(a, edges[row2[q]], key)
        /\ edges[row2[q]] \in Int \X Int /\ edges[row2[p]] \in Int \X Int
    BY <1>2
  <2>2. Before(a, edges[row2[p]], key)
    OBVIOUS
  <2>3. q # p
    BY <2>1, <2>2
  <2>4. ~ (p < q)
    <3>1. SUFFICES ASSUME p < q PROVE FALSE
      OBVIOUS
    <3>2. ~ Before(edges[row2[q]], edges[row2[p]], key)
      BY <1>2, <2>1, <3>1
    <3> HIDE DEF a
    <3> QED  BY <1>3, <2>1, <2>2, <3>2, BeforeTransitive
  <2> QED  BY <1>1, <2>1, <2>3, <2>4
<1>10. Cardinality(1 .. p) = p /\ Cardinality(1 .. p - 1) = p - 1 /\ p \in Nat
       /\ IsFiniteSet(1 .. p - 1)
  <2>1. m \in Nat
    BY <1>1
  <2>2. p \in Nat /\ p - 1 \in Int /\ p >= 1
    BY <2>1
  <2>3. Cardinality(1 .. p) = p
    BY <2>2, FS_Interval
  <2>4. Cardinality(1 .. p - 1) = IF 1 > p - 1 THEN 0 ELSE (p - 1) - 1 + 1
    BY <2>2, FS_Interval
  <2>5. IsFiniteSet(1 .. p - 1)
    BY <2>2, FS_Interval
  <2> QED  BY <2>2, <2>3, <2>4, <2>5
<1>11. p <= Cardinality(P)
  <2>1. 1 .. p \in SUBSET P
    BY <1>8
  <2> HIDE DEF P
  <2> QED  BY <1>6, <1>10, <2>1, FS_Subset
<1>12. Cardinality(Q) <= p - 1
  <2>1. Q \in SUBSET (1 .. p - 1)
    BY <1>9
  <2> HIDE DEF Q
  <2>2. Cardinality(Q) <= Cardinality(1 .. p - 1)
    BY <1>10, <2>1, FS_Subset
  <2> QED  BY <1>10, <2>2
<1> HIDE DEF P, Q, R
<1> QED  BY <1>4, <1>6, <1>7, <1>10, <1>11, <1>12

LEMMA OnlyRowsDiffer ==
  ASSUME NEW k \in Nat, NEW edges \in [1 .. k -> Int \X Int], NEW key \in {1, 2}, NEW n,
         NEW m, NEW off, NEW tgt, NEW row, Whole(n, m, off, tgt, row, edges, key),
         NEW m2, NEW off2, NEW tgt2, NEW row2, Whole(n, m2, off2, tgt2, row2, edges, key)
  PROVE  m2 = m /\ off2 = off /\ tgt2 = tgt
<1>1. off2 = off
  BY DEF Whole
<1>2. m2 = m
  <2> DEFINE rows == {r \in DOMAIN edges : edges[r][key] \in Nodes(n)}
  <2>1. ASSUME NEW a, NEW f, NEW t, NEW g, Whole(n, a, f, t, g, edges, key)
        PROVE  a = Cardinality(rows)
    <3>1. g \in [1 .. a -> rows] /\ \A r \in rows : \E p \in 1 .. a : g[p] = r
      BY <2>1 DEF Whole
    <3>2. a \in Nat /\ IsInjective(g)
      BY <2>1 DEF Whole
    <3>3. IsFiniteSet(1 .. a) /\ Cardinality(1 .. a) = a
      BY <3>2, FS_Interval
    <3> HIDE DEF rows
    <3> QED  BY <3>1, <3>2, <3>3, SameCount
  <2> HIDE DEF rows
  <2> QED  BY <2>1
<1>3. ASSUME NEW p \in 1 .. m PROVE tgt2[p] = tgt[p]
  <2> DEFINE a == edges[row[p]]
             b == edges[row2[p]]
  <2>1. Whole(n, m, off, tgt2, row2, edges, key)
    BY <1>1, <1>2
  <2>2. a \in Int \X Int /\ b \in Int \X Int /\ tgt[p] = a[3 - key] /\ tgt2[p] = b[3 - key]
    BY ZenonT(60), <2>1 DEF Whole
  <2>3. ~ Before(a, b, key)
    BY <2>1, NoEarlierEdge
  <2>4. ~ Before(b, a, key)
    BY <2>1, NoEarlierEdge
  <2> HIDE DEF a, b
  <2> QED  BY <2>2, <2>3, <2>4, BeforeOrder
<1> QED  BY <1>1, <1>2, <1>3 DEF Whole

-----------------------------------------------------------------------------
(* The relation and its directory. *)

\* The relation in memory is whole; a row map that was not loaded is all it may lack.
InMemory(edges, csr, key) ==
  \E row : Whole(csr.n, csr.m, csr.off, csr.tgt, row, edges, key) /\ csr.row \in {row, NoRowMap}

\* The files of a side come from whole indexes, and the offsets are there first.
Names == {"offsets", "targets", "rowmap"}
OnDisk(edges, dir, side, key) ==
  \/ \A name \in Names : <<side, name>> \notin DOMAIN dir
  \/ /\ <<side, "offsets">> \in DOMAIN dir
     /\ \E n, m, tgt, row :
          /\ Whole(n, m, dir[<<side, "offsets">>], tgt, row, edges, key)
          /\ <<side, "targets">> \in DOMAIN dir => dir[<<side, "targets">>] = tgt
          /\ <<side, "rowmap">> \in DOMAIN dir => dir[<<side, "rowmap">>] = row

\* The directory is of this index.
Ours(dir, side, csr) == <<side, "offsets">> \in DOMAIN dir => dir[<<side, "offsets">>] = csr.off

\* What every step of the store keeps.  A save in progress has written its files in their
\* order, so a load that finds a reverse index finds the forward row map, though it may
\* fail to read it.
StoreInv ==
  /\ \E k \in Nat : table \in [1 .. k -> Int \X Int]
  /\ size \in Nat /\ saving \in 0 .. 7
  /\ rel # NoRel => /\ InMemory(table, rel.fwd, 1) /\ InMemory(table, rel.rev, 2)
                    /\ rel.fwd.row = NoRowMap => <<"fwd", "rowmap">> \in DOMAIN files
  /\ OnDisk(table, files, "fwd", 1) /\ OnDisk(table, files, "rev", 2)
  /\ <<"rev", "offsets">> \in DOMAIN files => <<"fwd", "rowmap">> \in DOMAIN files
  /\ saving # 0 => rel # NoRel /\ Ours(files, "fwd", rel.fwd) /\ Ours(files, "rev", rel.rev)
  /\ saving > 1 => <<"fwd", "offsets">> \in DOMAIN files
  /\ saving > 3 => <<"fwd", "rowmap">> \in DOMAIN files
  /\ saving > 4 => <<"rev", "offsets">> \in DOMAIN files

(* The directory with one file written, and an index with its flag set.    *)
Written(dir, f, content) == [g \in DOMAIN dir \cup {f} |-> IF g = f THEN content ELSE dir[g]]
Flagged(csr, flag) == [csr EXCEPT !.sorted = flag]

\* A row map is a sequence of numbers, so not the sign of its absence.
LEMMA WholeHasRows ==
  ASSUME NEW k \in Nat, NEW edges \in [1 .. k -> Int \X Int], NEW key,
         NEW n, NEW m, NEW off, NEW tgt, NEW row, Whole(n, m, off, tgt, row, edges, key)
  PROVE  row # NoRowMap
<1>1. m \in Nat /\ row \in [1 .. m -> 1 .. k]
  BY DEF Whole
<1>2. row \in [1 .. m -> Int]
  BY <1>1
<1>3. row \in Seq(Int)
  BY <1>1, <1>2
<1> QED  BY <1>3, StoreAssumption

\* What a builder returns is whole.
LEMMA BuildersReturnWhole ==
  ASSUME NEW k \in Nat, NEW edges \in [1 .. k -> Int \X Int],
         NEW nSrc \in Nat, NEW nDst \in Nat, NEW sort \in BOOLEAN,
         NEW r \in RelFromEdges(edges, nSrc, nDst, sort)
  PROVE  InMemory(edges, r.fwd, 1) /\ InMemory(edges, r.rev, 2) /\ r.fwd.row # NoRowMap
<1>1. PICK f \in SortedRows(edges, 1), g \in SortedRows(edges, 2) :
        r = [fwd |-> BuildFromPairs(edges, f, nSrc, FALSE, sort),
             rev |-> BuildFromPairs(edges, g, nDst, TRUE, sort)]
  <2>1. PICK order \in SortedRows(edges, 1) \X SortedRows(edges, 2) :
          r = [fwd |-> BuildFromPairs(edges, order[1], nSrc, FALSE, sort),
               rev |-> BuildFromPairs(edges, order[2], nDst, TRUE, sort)]
    BY DEF RelFromEdges
  <2>2. order[1] \in SortedRows(edges, 1) /\ order[2] \in SortedRows(edges, 2)
    OBVIOUS
  <2> QED  BY <2>1, <2>2
<1>2. Key(FALSE) = 1 /\ Key(TRUE) = 2
  BY DEF Key
<1>3. r.fwd = BuildFromPairs(edges, f, nSrc, FALSE, sort) /\ r.rev = BuildFromPairs(edges, g, nDst, TRUE, sort)
  BY <1>1
<1>4. f \in SortedRows(edges, Key(FALSE)) /\ g \in SortedRows(edges, Key(TRUE))
  BY <1>2
<1>5. Whole(r.fwd.n, r.fwd.m, r.fwd.off, r.fwd.tgt, r.fwd.row, edges, Key(FALSE))
  BY <1>3, <1>4, BuiltIsWhole
<1>6. Whole(r.rev.n, r.rev.m, r.rev.off, r.rev.tgt, r.rev.row, edges, Key(TRUE))
  BY <1>3, <1>4, BuiltIsWhole
<1>7. r.fwd.row # NoRowMap
  BY <1>5, WholeHasRows
<1> QED  BY <1>2, <1>5, <1>6, <1>7 DEF InMemory

\* A file written by a save of the same relation leaves its side in order.
LEMMA WritingKeepsSide ==
  ASSUME NEW k \in Nat, NEW edges \in [1 .. k -> Int \X Int], NEW key \in {1, 2},
         NEW dir, NEW side, OnDisk(edges, dir, side, key),
         NEW csr, InMemory(edges, csr, key), Ours(dir, side, csr),
         NEW name \in Names, name # "offsets" => <<side, "offsets">> \in DOMAIN dir,
         name = "rowmap" => csr.row # NoRowMap,
         NEW dir2, dir2 = Written(dir, <<side, name>>, FileOf(csr, name))
  PROVE  OnDisk(edges, dir2, side, key) /\ Ours(dir2, side, csr)
<1>1. PICK row : Whole(csr.n, csr.m, csr.off, csr.tgt, row, edges, key) /\ csr.row \in {row, NoRowMap}
  BY DEF InMemory
<1>2. /\ DOMAIN dir2 = DOMAIN dir \cup {<<side, name>>}
      /\ dir2[<<side, name>>] = FileOf(csr, name)
      /\ \A g \in DOMAIN dir : g # <<side, name>> => dir2[g] = dir[g]
  BY DEF Written
<1>3. \A x, y : x # y => <<side, x>> # <<side, y>>
  OBVIOUS
<1>4. Ours(dir2, side, csr)
  BY <1>2, <1>3 DEF Ours, FileOf
<1>5. <<side, "offsets">> \in DOMAIN dir2 /\ dir2[<<side, "offsets">>] = csr.off
  <2>1. <<side, "offsets">> \in DOMAIN dir2
    BY <1>2
  <2> QED  BY <1>4, <2>1 DEF Ours
<1>6. \E old : /\ Whole(csr.n, csr.m, csr.off, csr.tgt, old, edges, key)
               /\ <<side, "targets">> \in DOMAIN dir => dir[<<side, "targets">>] = csr.tgt
               /\ <<side, "rowmap">> \in DOMAIN dir => dir[<<side, "rowmap">>] = old
  <2>1. CASE <<side, "offsets">> \notin DOMAIN dir
    <3>1. \A x \in Names : <<side, x>> \notin DOMAIN dir
      BY <2>1 DEF OnDisk
    <3> QED  BY <1>1, <3>1 DEF Names
  <2>2. CASE <<side, "offsets">> \in DOMAIN dir
    <3>1. PICK n, m, tgt, old :
            /\ Whole(n, m, dir[<<side, "offsets">>], tgt, old, edges, key)
            /\ <<side, "targets">> \in DOMAIN dir => dir[<<side, "targets">>] = tgt
            /\ <<side, "rowmap">> \in DOMAIN dir => dir[<<side, "rowmap">>] = old
      BY <2>2 DEF OnDisk, Names
    <3>2. Whole(n, m, csr.off, tgt, old, edges, key)
      BY <2>2, <3>1 DEF Ours
    <3>3. n = csr.n
      <4>1. DOMAIN csr.off = 0 .. n /\ DOMAIN csr.off = 0 .. csr.n /\ n \in Nat /\ csr.n \in Nat
        BY <1>1, <3>2 DEF Whole
      <4>2. n \in 0 .. csr.n /\ csr.n \in 0 .. n
        BY <4>1
      <4> QED  BY <4>1, <4>2
    <3>4. m = csr.m /\ tgt = csr.tgt
      BY <1>1, <3>2, <3>3, OnlyRowsDiffer
    <3> QED  BY <3>1, <3>2, <3>3, <3>4
  <2> QED  BY <2>1, <2>2
<1>7. PICK old : /\ Whole(csr.n, csr.m, csr.off, csr.tgt, old, edges, key)
                 /\ <<side, "targets">> \in DOMAIN dir => dir[<<side, "targets">>] = csr.tgt
                 /\ <<side, "rowmap">> \in DOMAIN dir => dir[<<side, "rowmap">>] = old
  BY <1>6
<1>8. <<side, "targets">> \in DOMAIN dir2 => dir2[<<side, "targets">>] = csr.tgt
  BY <1>2, <1>3, <1>7 DEF FileOf
<1>9. \E new : /\ Whole(csr.n, csr.m, csr.off, csr.tgt, new, edges, key)
               /\ <<side, "rowmap">> \in DOMAIN dir2 => dir2[<<side, "rowmap">>] = new
  <2>1. CASE name = "rowmap"
    <3>1. csr.row = row /\ dir2[<<side, "rowmap">>] = row
      BY <1>1, <1>2, <2>1 DEF FileOf
    <3> QED  BY <1>1, <3>1
  <2>2. CASE name # "rowmap"
    <3>1. <<side, "rowmap">> \in DOMAIN dir2 => dir2[<<side, "rowmap">>] = old
      BY <1>2, <1>3, <1>7, <2>2
    <3> QED  BY <1>7, <3>1
  <2> QED  BY <2>1, <2>2
<1>10. OnDisk(edges, dir2, side, key)
  BY <1>5, <1>8, <1>9 DEF OnDisk
<1> QED  BY <1>4, <1>10

\* The other side does not notice.
LEMMA WritingKeepsOther ==
  ASSUME NEW edges, NEW dir, NEW side, NEW key, OnDisk(edges, dir, side, key),
         NEW csr, Ours(dir, side, csr),
         NEW f, \A x : f # <<side, x>>, NEW content,
         NEW dir2, dir2 = Written(dir, f, content)
  PROVE  OnDisk(edges, dir2, side, key) /\ Ours(dir2, side, csr)
<1>1. \A x : /\ <<side, x>> \in DOMAIN dir2 <=> <<side, x>> \in DOMAIN dir
             /\ <<side, x>> \in DOMAIN dir => dir2[<<side, x>>] = dir[<<side, x>>]
  BY DEF Written
<1>2. Ours(dir2, side, csr)
  BY <1>1 DEF Ours
<1>3. OnDisk(edges, dir2, side, key)
  <2>1. CASE \A name \in Names : <<side, name>> \notin DOMAIN dir
    BY <1>1, <2>1 DEF OnDisk
  <2>2. CASE <<side, "offsets">> \in DOMAIN dir
    <3>1. PICK n, m, tgt, row :
            /\ Whole(n, m, dir[<<side, "offsets">>], tgt, row, edges, key)
            /\ <<side, "targets">> \in DOMAIN dir => dir[<<side, "targets">>] = tgt
            /\ <<side, "rowmap">> \in DOMAIN dir => dir[<<side, "rowmap">>] = row
      BY <2>2 DEF OnDisk, Names
    <3>2. /\ Whole(n, m, dir2[<<side, "offsets">>], tgt, row, edges, key)
          /\ <<side, "targets">> \in DOMAIN dir2 => dir2[<<side, "targets">>] = tgt
          /\ <<side, "rowmap">> \in DOMAIN dir2 => dir2[<<side, "rowmap">>] = row
      BY <1>1, <2>2, <3>1
    <3> QED  BY <1>1, <2>2, <3>2 DEF OnDisk
  <2> QED  BY <2>1, <2>2 DEF OnDisk
<1> QED  BY <1>2, <1>3

\* What a load accepts of a side is whole but for its row map.
LEMMA LoadedIsWhole ==
  ASSUME NEW k \in Nat, NEW edges \in [1 .. k -> Int \X Int], NEW key \in {1, 2},
         NEW dir, NEW side, NEW mapped,
         OnDisk(edges, dir, side, key), LoadIndex(dir, side, mapped).ok,
         NEW flag, NEW csr, csr = Flagged(LoadIndex(dir, side, mapped).csr, flag)
  PROVE  <<side, "offsets">> \in DOMAIN dir /\ InMemory(edges, csr, key)
<1> DEFINE off == dir[<<side, "offsets">>]
           tgt == dir[<<side, "targets">>]
           n == Cardinality(DOMAIN off) - 1
           read == mapped /\ <<side, "rowmap">> \in DOMAIN dir
<1>1. <<side, "offsets">> \in DOMAIN dir /\ <<side, "targets">> \in DOMAIN dir
  BY DEF LoadIndex
<1>2. LoadIndex(dir, side, mapped).csr
        = [n |-> n, m |-> Len(tgt), off |-> off, tgt |-> tgt, sorted |-> FALSE,
           row |-> IF read THEN dir[<<side, "rowmap">>] ELSE NoRowMap]
  BY DEF LoadIndex
<1>3. /\ csr.n = n /\ csr.m = Len(tgt) /\ csr.off = off /\ csr.tgt = tgt
      /\ csr.row = IF read THEN dir[<<side, "rowmap">>] ELSE NoRowMap
  <2> HIDE DEF n, off, tgt, read
  <2> QED  BY <1>2 DEF Flagged
<1>4. PICK nn, m, row :
        /\ Whole(nn, m, off, tgt, row, edges, key)
        /\ <<side, "rowmap">> \in DOMAIN dir => dir[<<side, "rowmap">>] = row
  BY <1>1 DEF OnDisk, Names
<1>5. nn = n
  <2>1. nn \in Nat /\ DOMAIN off = 0 .. nn
    BY <1>4 DEF Whole
  <2>2. Cardinality(0 .. nn) = nn + 1
    <3>1. 0 \in Int /\ nn \in Int /\ ~ (0 > nn)
      BY <2>1
    <3>2. Cardinality(0 .. nn) = nn - 0 + 1
      BY <3>1, FS_Interval
    <3> QED  BY <2>1, <3>2
  <2> HIDE DEF off
  <2> QED  BY <2>1, <2>2
<1>6. m = Len(tgt)
  <2>1. m \in Nat /\ tgt \in [1 .. m -> Int]
    <3>1. Keyed(k, nn, m, tgt, row, edges, key)
      BY <1>4, WholeKeys
    <3>2. tgt = [p \in 1 .. m |-> edges[row[p]][3 - key]]
      BY <1>4 DEF Whole
    <3>3. DOMAIN tgt = 1 .. m /\ tgt = [p \in 1 .. m |-> tgt[p]]
      BY <3>2
    <3> HIDE DEF tgt
    <3> QED  BY <3>1, <3>3 DEF Keyed
  <2> HIDE DEF tgt
  <2>2. tgt \in Seq(Int)
    BY <2>1
  <2> QED  BY <2>1, <2>2
<1>7. read => dir[<<side, "rowmap">>] = row
  BY <1>4
<1> HIDE DEF off, tgt, n, read
<1>8. Whole(csr.n, csr.m, csr.off, csr.tgt, row, edges, key) /\ csr.row \in {row, NoRowMap}
  BY <1>3, <1>4, <1>5, <1>6, <1>7
<1> QED  BY <1>1, <1>8 DEF InMemory

-----------------------------------------------------------------------------
(* The invariant. *)

\* Initially the directory is empty.
LEMMA StoreInvStart ==
  ASSUME StoreInit
  PROVE  StoreInv
<1>1. NSimple \in Nat /\ NMulti \in Nat /\ MaxRows \in Nat /\ MaxMulti \in Nat
  BY StoreAssumption
<1>2. \E k \in Nat : table \in [1 .. k -> Int \X Int]
  <2>1. CASE table \in SimpleTables
    <3>1. PICK k \in 0 .. MaxRows : table \in [1 .. k -> Arcs(NSimple)]
      BY <2>1 DEF SimpleTables
    <3>2. Arcs(NSimple) \subseteq Int \X Int
      BY DEF Arcs, Nodes
    <3>3. table \in [1 .. k -> Int \X Int] /\ k \in Nat
      BY <1>1, <3>1, <3>2
    <3> QED  BY <3>3
  <2>2. CASE table \in MultiTables
    <3>1. PICK k \in 0 .. MaxMulti : table \in [1 .. k -> (-1 .. NMulti) \X (-1 .. NMulti)]
      BY <2>2 DEF MultiTables
    <3>2. (-1 .. NMulti) \X (-1 .. NMulti) \subseteq Int \X Int
      OBVIOUS
    <3>3. table \in [1 .. k -> Int \X Int] /\ k \in Nat
      BY <1>1, <3>1, <3>2
    <3> QED  BY <3>3
  <2> QED  BY <2>1, <2>2 DEF StoreInit
<1>3. rel = NoRel /\ saving = 0 /\ files = <<>> /\ size \in Nat
  BY <1>1 DEF StoreInit
<1>4. DOMAIN files = {}
  BY <1>3
<1>5. OnDisk(table, files, "fwd", 1) /\ OnDisk(table, files, "rev", 2)
  BY <1>4 DEF OnDisk
<1> QED  BY <1>2, <1>3, <1>4, <1>5 DEF StoreInv

\* A relation that is built over no other leaves the directory alone.
LEMMA BuildingKeeps ==
  ASSUME StoreInv, rel = NoRel,
         InMemory(table, rel'.fwd, 1), InMemory(table, rel'.rev, 2),
         rel'.fwd.row = NoRowMap => <<"fwd", "rowmap">> \in DOMAIN files,
         UNCHANGED <<table, size, files, saving>>
  PROVE  StoreInv'
<1>1. saving = 0
  BY DEF StoreInv
<1> QED  BY <1>1 DEF StoreInv

\* A relation built from the edge table is whole.
LEMMA BuildKeeps ==
  ASSUME StoreInv, NEW sort \in BOOLEAN, Build(sort)
  PROVE  StoreInv'
<1>1. PICK k \in Nat : table \in [1 .. k -> Int \X Int]
  BY DEF StoreInv
<1>2. size \in Nat /\ rel' \in RelFromEdges(table, size, size, sort)
  BY DEF StoreInv, Build
<1>3. InMemory(table, rel'.fwd, 1) /\ InMemory(table, rel'.rev, 2) /\ rel'.fwd.row # NoRowMap
  BY <1>1, <1>2, BuildersReturnWhole
<1> QED  BY <1>3, BuildingKeeps DEF Build

\* So is one built from a foreign key, whose edge table is the table itself.
LEMMA BuildForeignKeyKeeps ==
  ASSUME StoreInv, NEW sort \in BOOLEAN, BuildForeignKey(sort)
  PROVE  StoreInv'
<1> DEFINE fk == [i \in DOMAIN table |-> table[i][2]]
           edges == [i \in DOMAIN fk |-> <<i - 1, fk[i]>>]
<1>1. PICK k \in Nat : table \in [1 .. k -> Int \X Int]
  BY DEF StoreInv
<1>2. DOMAIN fk = 1 .. k /\ DOMAIN table = 1 .. k
  BY <1>1
<1>3. edges = table
  <2>1. ASSUME NEW i \in 1 .. k PROVE edges[i] = table[i]
    <3>1. table[i] \in Int \X Int /\ table[i][1] = i - 1
      BY <1>1, <1>2 DEF BuildForeignKey
    <3>2. table[i] = <<table[i][1], table[i][2]>>
      BY <3>1
    <3>3. edges[i] = <<i - 1, table[i][2]>>
      BY <1>2
    <3> QED  BY <3>1, <3>2, <3>3
  <2>2. edges = [i \in 1 .. k |-> edges[i]] /\ table = [i \in 1 .. k |-> table[i]]
    BY <1>1, <1>2
  <2> HIDE DEF edges
  <2> QED  BY <2>1, <2>2
<1>4. Len(fk) \in Nat
  <2>1. \A i \in 1 .. k : table[i][2] \in Int
    BY <1>1
  <2>2. fk \in [1 .. k -> Int]
    BY <1>2, <2>1
  <2>3. fk \in Seq(Int)
    <3> HIDE DEF fk
    <3> QED  BY <2>2
  <2> QED  BY <2>3
<1>5. size \in Nat /\ rel' \in RelFromEdges(table, Len(fk), size, sort)
  BY <1>3 DEF StoreInv, BuildForeignKey, RelBuild
<1>6. InMemory(table, rel'.fwd, 1) /\ InMemory(table, rel'.rev, 2) /\ rel'.fwd.row # NoRowMap
  <2> HIDE DEF fk, edges
  <2> QED  BY <1>1, <1>4, <1>5, BuildersReturnWhole
<1> QED  BY <1>6, BuildingKeeps DEF BuildForeignKey

\* A save starts on a directory whose offsets are its own.
LEMMA SaveStartKeeps ==
  ASSUME StoreInv, SaveStart
  PROVE  StoreInv'
<1>1. Ours(files, "fwd", rel.fwd) /\ Ours(files, "rev", rel.rev)
  BY DEF SaveStart, Ours
<1>2. saving' = 1 /\ rel # NoRel /\ UNCHANGED <<table, size, rel, files>>
  BY DEF SaveStart
<1>3. saving' \in 0 .. 7 /\ ~ saving' > 1 /\ ~ saving' > 3 /\ ~ saving' > 4
  BY <1>2
<1>4. /\ \E k \in Nat : table \in [1 .. k -> Int \X Int]
      /\ size \in Nat
      /\ InMemory(table, rel.fwd, 1) /\ InMemory(table, rel.rev, 2)
      /\ rel.fwd.row = NoRowMap => <<"fwd", "rowmap">> \in DOMAIN files
      /\ OnDisk(table, files, "fwd", 1) /\ OnDisk(table, files, "rev", 2)
      /\ <<"rev", "offsets">> \in DOMAIN files => <<"fwd", "rowmap">> \in DOMAIN files
  BY <1>2 DEF StoreInv
<1> QED  BY <1>1, <1>2, <1>3, <1>4 DEF StoreInv

\* The seven files.
LEMMA TheFiles ==
  /\ Len(AllFiles) = 7
  /\ AllFiles[1] = <<"fwd", "offsets">> /\ AllFiles[2] = <<"fwd", "targets">>
  /\ AllFiles[3] = <<"fwd", "rowmap">> /\ AllFiles[4] = <<"rev", "offsets">>
  /\ AllFiles[5] = <<"rev", "targets">> /\ AllFiles[6] = <<"rev", "rowmap">>
  /\ AllFiles[7] = <<"meta", "meta">>
  BY DEF AllFiles

\* A save writes the files of a side in their order, each for the relation in memory.
LEMMA SaveFileKeeps ==
  ASSUME StoreInv, SaveFile
  PROVE  StoreInv'
<1> DEFINE f == AllFiles[saving]
           kept == f[2] = "rowmap" /\ Content(f) = NoRowMap
           written == Written(files, f, Content(f))
<1>1. PICK k \in Nat : table \in [1 .. k -> Int \X Int]
  BY DEF StoreInv
<1>2. /\ saving \in 1 .. 7 /\ rel # NoRel
      /\ InMemory(table, rel.fwd, 1) /\ InMemory(table, rel.rev, 2)
      /\ rel.fwd.row = NoRowMap => <<"fwd", "rowmap">> \in DOMAIN files
      /\ OnDisk(table, files, "fwd", 1) /\ OnDisk(table, files, "rev", 2)
      /\ Ours(files, "fwd", rel.fwd) /\ Ours(files, "rev", rel.rev)
      /\ <<"rev", "offsets">> \in DOMAIN files => <<"fwd", "rowmap">> \in DOMAIN files
      /\ saving > 1 => <<"fwd", "offsets">> \in DOMAIN files
      /\ saving > 3 => <<"fwd", "rowmap">> \in DOMAIN files
      /\ saving > 4 => <<"rev", "offsets">> \in DOMAIN files
  BY DEF SaveFile, StoreInv
<1>3. /\ files' = IF kept THEN files ELSE written
      /\ saving' = IF saving = 7 THEN 0 ELSE saving + 1
      /\ UNCHANGED <<table, size, rel>>
  BY TheFiles DEF SaveFile, Written
<1>4. kept => saving = 6 \/ (saving = 3 /\ f \in DOMAIN files)
  <2>1. ASSUME f = <<"fwd", "rowmap">>, kept PROVE f \in DOMAIN files
    <3>1. f[1] = "fwd" /\ f[2] = "rowmap"
      BY <2>1
    <3>2. Content(f) = rel.fwd.row
      BY <3>1 DEF Content, FileOf
    <3> QED  BY <1>2, <2>1, <3>2
  <2>2. saving = 1 \/ saving = 2 \/ saving = 3 \/ saving = 4 \/ saving = 5 \/ saving = 6 \/ saving = 7
    BY <1>2
  <2> QED  BY <2>1, <2>2, TheFiles
<1>5. DOMAIN files' = DOMAIN files \/ DOMAIN files' = DOMAIN files \cup {f}
  BY <1>3 DEF Written
<1>6. ~ kept => DOMAIN files' = DOMAIN files \cup {f} /\ files' = written
  BY <1>3 DEF Written
<1>7. /\ OnDisk(table, files', "fwd", 1) /\ OnDisk(table, files', "rev", 2)
      /\ Ours(files', "fwd", rel.fwd) /\ Ours(files', "rev", rel.rev)
  <2>1. CASE kept
    BY <1>2, <1>3, <2>1
  <2>2. CASE ~ kept /\ saving \in 1 .. 3
    <3>1. PICK name \in Names : /\ f = <<"fwd", name>>
                                /\ name # "offsets" => <<"fwd", "offsets">> \in DOMAIN files
      <4>1. saving = 1 \/ saving = 2 \/ saving = 3
        BY <2>2
      <4> QED  BY <1>2, <4>1, TheFiles DEF Names
    <3>2. f[1] = "fwd" /\ f[2] = name
      BY <3>1
    <3>3. Content(f) = FileOf(rel.fwd, name)
      BY <3>2 DEF Content
    <3>4. files' = Written(files, <<"fwd", name>>, FileOf(rel.fwd, name))
      <4>1. files' = written
        BY <1>6, <2>2
      <4> QED  BY <3>1, <3>3, <4>1
    <3>9. name = "rowmap" => rel.fwd.row # NoRowMap
      <4>1. name = "rowmap" => FileOf(rel.fwd, name) = rel.fwd.row
        BY DEF FileOf
      <4> QED  BY <2>2, <3>2, <3>3, <4>1
    <3> HIDE DEF f, kept
    <3>5. OnDisk(table, files', "fwd", 1) /\ Ours(files', "fwd", rel.fwd)
      BY <1>1, <1>2, <3>1, <3>4, <3>9, WritingKeepsSide
    <3>6. \A x : <<"fwd", name>> # <<"rev", x>>
      OBVIOUS
    <3>7. OnDisk(table, files', "rev", 2) /\ Ours(files', "rev", rel.rev)
      BY <1>2, <3>4, <3>6, WritingKeepsOther
    <3> QED  BY <3>5, <3>7
  <2>3. CASE ~ kept /\ saving \in 4 .. 6
    <3>1. PICK name \in Names : /\ f = <<"rev", name>>
                                /\ name # "offsets" => <<"rev", "offsets">> \in DOMAIN files
      <4>1. saving = 4 \/ saving = 5 \/ saving = 6
        BY <2>3
      <4> QED  BY <1>2, <4>1, TheFiles DEF Names
    <3>2. f[1] = "rev" /\ f[2] = name
      BY <3>1
    <3>3. Content(f) = FileOf(rel.rev, name)
      BY <3>2 DEF Content
    <3>4. files' = Written(files, <<"rev", name>>, FileOf(rel.rev, name))
      <4>1. files' = written
        BY <1>6, <2>3
      <4> QED  BY <3>1, <3>3, <4>1
    <3>5. name = "rowmap" => rel.rev.row # NoRowMap
      <4>1. name = "rowmap" => FileOf(rel.rev, name) = rel.rev.row
        BY DEF FileOf
      <4> QED  BY <2>3, <3>2, <3>3, <4>1
    <3> HIDE DEF f, kept
    <3>6. OnDisk(table, files', "rev", 2) /\ Ours(files', "rev", rel.rev)
      BY <1>1, <1>2, <3>1, <3>4, <3>5, WritingKeepsSide
    <3>7. \A x : <<"rev", name>> # <<"fwd", x>>
      OBVIOUS
    <3>8. OnDisk(table, files', "fwd", 1) /\ Ours(files', "fwd", rel.fwd)
      BY <1>2, <3>4, <3>7, WritingKeepsOther
    <3> QED  BY <3>6, <3>8
  <2>4. CASE ~ kept /\ saving = 7
    <3>1. f = <<"meta", "meta">>
      BY <2>4, TheFiles
    <3>2. \A x : f # <<"fwd", x>> /\ f # <<"rev", x>>
      BY <3>1
    <3>3. files' = written
      BY <1>6, <2>4
    <3> HIDE DEF f
    <3>4. OnDisk(table, files', "fwd", 1) /\ Ours(files', "fwd", rel.fwd)
      BY <1>2, <3>2, <3>3, WritingKeepsOther
    <3>5. OnDisk(table, files', "rev", 2) /\ Ours(files', "rev", rel.rev)
      BY <1>2, <3>2, <3>3, WritingKeepsOther
    <3> QED  BY <3>4, <3>5
  <2>5. saving \in 1 .. 3 \/ saving \in 4 .. 6 \/ saving = 7
    BY <1>2
  <2> QED  BY <2>1, <2>2, <2>3, <2>4, <2>5
<1>8. /\ <<"rev", "offsets">> \in DOMAIN files' => <<"fwd", "rowmap">> \in DOMAIN files'
      /\ saving' > 1 => <<"fwd", "offsets">> \in DOMAIN files'
      /\ saving' > 3 => <<"fwd", "rowmap">> \in DOMAIN files'
      /\ saving' > 4 => <<"rev", "offsets">> \in DOMAIN files'
  <2>1. ASSUME saving # 6 PROVE f \in DOMAIN files'
    BY <1>3, <1>4, <1>6, <2>1
  <2>2. \A g \in DOMAIN files : g \in DOMAIN files'
    BY <1>5
  <2>3. ASSUME <<"rev", "offsets">> \in DOMAIN files', <<"rev", "offsets">> \notin DOMAIN files
        PROVE  saving = 4
    <3>1. f = <<"rev", "offsets">>
      BY <1>5, <2>3
    <3>2. saving = 1 \/ saving = 2 \/ saving = 3 \/ saving = 4 \/ saving = 5 \/ saving = 6 \/ saving = 7
      BY <1>2
    <3> QED  BY <3>1, <3>2, TheFiles
  <2>4. saving = 1 => <<"fwd", "offsets">> \in DOMAIN files'
    BY <2>1, TheFiles
  <2>5. saving = 3 => <<"fwd", "rowmap">> \in DOMAIN files'
    BY <2>1, TheFiles
  <2>6. saving = 4 => <<"rev", "offsets">> \in DOMAIN files'
    BY <2>1, TheFiles
  <2>7. saving \in Int /\ saving \in 1 .. 7
    BY <1>2
  <2> HIDE DEF f, kept, written
  <2>8. saving' > 3 => <<"fwd", "rowmap">> \in DOMAIN files'
    BY <1>2, <1>3, <2>2, <2>5, <2>7
  <2>9. saving' > 1 => <<"fwd", "offsets">> \in DOMAIN files'
    BY <1>2, <1>3, <2>2, <2>4, <2>7
  <2>10. saving' > 4 => <<"rev", "offsets">> \in DOMAIN files'
    BY <1>2, <1>3, <2>2, <2>6, <2>7
  <2>11. <<"rev", "offsets">> \in DOMAIN files' => <<"fwd", "rowmap">> \in DOMAIN files'
    BY <1>2, <2>2, <2>3, <2>7
  <2> QED  BY <2>8, <2>9, <2>10, <2>11
<1>9. saving' \in 0 .. 7
  BY <1>2, <1>3
<1>10. rel.fwd.row = NoRowMap => <<"fwd", "rowmap">> \in DOMAIN files'
  BY <1>2, <1>5
<1> HIDE DEF f, kept, written
<1> QED  BY <1>2, <1>3, <1>7, <1>8, <1>9, <1>10 DEF StoreInv

\* A save that gives up leaves what an interrupted one leaves.
LEMMA SaveFailedKeeps ==
  ASSUME StoreInv, SaveFailed
  PROVE  StoreInv'
  BY DEF SaveFailed, StoreInv

\* The end of the process leaves the files.
LEMMA DieKeeps ==
  ASSUME StoreInv, Die
  PROVE  StoreInv'
  BY DEF Die, StoreInv

\* A load takes two sides that are whole, or nothing.
LEMMA LoadKeeps ==
  ASSUME StoreInv, Load
  PROVE  StoreInv'
<1>1. PICK k \in Nat : table \in [1 .. k -> Int \X Int]
  BY DEF StoreInv
<1>2. /\ OnDisk(table, files, "fwd", 1) /\ OnDisk(table, files, "rev", 2)
      /\ <<"rev", "offsets">> \in DOMAIN files => <<"fwd", "rowmap">> \in DOMAIN files
      /\ saving = 0 /\ UNCHANGED <<table, size, files, saving>>
  BY DEF StoreInv, Load
<1>3. CASE rel' = NoRel
  BY <1>2, <1>3 DEF StoreInv
<1>4. CASE rel' # NoRel
  <2>0. PICK mapped \in [{"fwd", "rev"} -> BOOLEAN] : rel' = LoadRel(files, mapped)
    BY <1>4 DEF Load
  <2> DEFINE fwd == LoadIndex(files, "fwd", mapped["fwd"])
             rev == LoadIndex(files, "rev", mapped["rev"])
  <2>1. PICK flagF, flagR :
          /\ fwd.ok /\ rev.ok
          /\ rel' = [fwd |-> Flagged(fwd.csr, flagF), rev |-> Flagged(rev.csr, flagR)]
    <3> HIDE DEF fwd, rev
    <3> QED  BY <1>4, <2>0 DEF LoadRel, fwd, rev, Flagged
  <2>2. /\ rel'.fwd = Flagged(fwd.csr, flagF)
        /\ rel'.rev = Flagged(rev.csr, flagR)
    <3> HIDE DEF fwd, rev
    <3> QED  BY <2>1
  <2>3. InMemory(table, rel'.fwd, 1)
    <3>1. OnDisk(table, files, "fwd", 1) /\ LoadIndex(files, "fwd", mapped["fwd"]).ok /\ 1 \in {1, 2}
      BY <1>2, <2>1
    <3>2. rel'.fwd = Flagged(LoadIndex(files, "fwd", mapped["fwd"]).csr, flagF)
      BY <2>2
    <3> HIDE DEF fwd, rev
    <3> QED  BY ZenonT(60), <1>1, <3>1, <3>2, LoadedIsWhole
  <2>4. <<"rev", "offsets">> \in DOMAIN files /\ InMemory(table, rel'.rev, 2)
    <3>1. OnDisk(table, files, "rev", 2) /\ LoadIndex(files, "rev", mapped["rev"]).ok /\ 2 \in {1, 2}
      BY <1>2, <2>1
    <3>2. rel'.rev = Flagged(LoadIndex(files, "rev", mapped["rev"]).csr, flagR)
      BY <2>2
    <3> HIDE DEF fwd, rev
    <3> QED  BY ZenonT(60), <1>1, <3>1, <3>2, LoadedIsWhole
  <2>5. rel'.fwd.row = NoRowMap => <<"fwd", "rowmap">> \in DOMAIN files
    BY <1>2, <2>4
  <2>6. rel = NoRel
    BY DEF Load
  <2> QED  BY <1>2, <2>3, <2>4, <2>5, <2>6, BuildingKeeps
<1> QED  BY <1>3, <1>4

\* The invariant of the store, for every table, number of nodes and bound.
THEOREM StoreInvariant == StoreSpec => []StoreInv
<1>1. StoreInit => StoreInv
  BY StoreInvStart
<1>2. StoreInv /\ [StoreNext]_storeVars => StoreInv'
  <2> SUFFICES ASSUME StoreInv, [StoreNext]_storeVars PROVE StoreInv'
    OBVIOUS
  <2>1. ASSUME NEW sort \in BOOLEAN, Build(sort) PROVE StoreInv'
    BY <2>1, BuildKeeps
  <2>2. ASSUME NEW sort \in BOOLEAN, BuildForeignKey(sort) PROVE StoreInv'
    BY <2>2, BuildForeignKeyKeeps
  <2>3. CASE SaveStart
    BY <2>3, SaveStartKeeps
  <2>4. CASE SaveFile
    BY <2>4, SaveFileKeeps
  <2>5. CASE Die
    BY <2>5, DieKeeps
  <2>6. CASE Load
    BY <2>6, LoadKeeps
  <2>7. CASE SaveFailed
    BY <2>7, SaveFailedKeeps
  <2>8. CASE UNCHANGED storeVars
    BY <2>8 DEF storeVars, StoreInv
  <2> QED  BY <2>1, <2>2, <2>3, <2>4, <2>5, <2>6, <2>7, <2>8 DEF StoreNext
<1> QED  BY <1>1, <1>2, PTL DEF StoreSpec

\* The row map an index has, or one it could have, makes it an index of the table.
LEMMA InMemoryIsIndexed ==
  ASSUME NEW k \in Nat, table \in [1 .. k -> Int \X Int],
         NEW isReverse \in BOOLEAN, NEW csr, InMemory(table, csr, Key(isReverse))
  PROVE  Indexed(csr, isReverse)
<1>1. PICK row :
        /\ Whole(csr.n, csr.m, csr.off, csr.tgt, row, table, Key(isReverse))
        /\ csr.row \in {row, NoRowMap}
  BY DEF InMemory
<1>2. row \in IF csr.row = NoRowMap THEN [1 .. csr.m -> DOMAIN table] ELSE {csr.row}
  <2>1. row \in [1 .. csr.m -> 1 .. k] /\ DOMAIN table = 1 .. k
    BY <1>1 DEF Whole
  <2> QED  BY <1>1, <2>1
<1>3. IndexesTable(csr, row, table, isReverse)
  BY <1>1, WholeIndexes
<1> QED  BY <1>2, <1>3 DEF Indexed

\* The relation in memory, built or loaded, is an index of its edge table.
THEOREM RelationAlwaysIndexed == StoreSpec => []RelationIndexed
<1>1. StoreInv => RelationIndexed
  <2> SUFFICES ASSUME StoreInv, rel # NoRel
               PROVE  /\ Indexed(rel.fwd, FALSE)
                      /\ Indexed(rel.rev, TRUE)
                      /\ rel.fwd.row = NoRowMap => <<"fwd", "rowmap">> \in DOMAIN files
    BY DEF RelationIndexed
  <2>1. PICK k \in Nat : table \in [1 .. k -> Int \X Int]
    BY DEF StoreInv
  <2>2. /\ InMemory(table, rel.fwd, 1) /\ InMemory(table, rel.rev, 2)
        /\ rel.fwd.row = NoRowMap => <<"fwd", "rowmap">> \in DOMAIN files
    BY DEF StoreInv
  <2>3. Key(FALSE) = 1 /\ Key(TRUE) = 2
    BY DEF Key
  <2>4. Indexed(rel.fwd, FALSE)
    BY <2>1, <2>2, <2>3, InMemoryIsIndexed
  <2>5. Indexed(rel.rev, TRUE)
    BY <2>1, <2>2, <2>3, InMemoryIsIndexed
  <2> QED  BY <2>2, <2>4, <2>5
<1> QED  BY <1>1, StoreInvariant, PTL

=============================================================================
