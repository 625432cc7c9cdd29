----------------------------- MODULE Heap_proofs -----------------------------
(***************************************************************************)
(* The buddy heaps, for every number of workers and pools and all orders:  *)
(* the blocks tile their pools, whoever frees them and in whatever state   *)
(* of a dispatch; free blocks are at home; and no byte is lost from the    *)
(* accounts.  Everything rests on two facts about offsets: a merge joins   *)
(* the two halves of one aligned block, and a header that is read for a    *)
(* merge is the header of a block.                                         *)
(***************************************************************************)
EXTENDS Heap, FoldTheorems, TLAPS

-----------------------------------------------------------------------------
(* Sizes. *)

\* The table of sizes up to order n.
Table(g, n) ==
  /\ g \in [0 .. n -> Nat \ {0}]
  /\ g[0] = 1
  /\ \A i \in 0 .. n - 1 : g[i + 1] = 2 * g[i]

\* There is such a table.
LEMMA TableExists == ASSUME NEW n \in Nat PROVE \E g : Table(g, n)
<1> DEFINE T == {m \in Nat : ~\E g : Table(g, m)}
<1>1. SUFFICES ASSUME T # {} PROVE FALSE
  OBVIOUS
<1>2. PICK m \in T : \A y \in T : m <= y
  BY <1>1, LeastExists
<1>3. CASE m = 0
  <2>1. Table([i \in 0 .. 0 |-> 1], 0)
    BY DEF Table
  <2> QED  BY <1>3, <2>1
<1>4. CASE m # 0
  <2>1. m - 1 \in Nat /\ m - 1 \notin T
    BY <1>2, <1>4
  <2>2. PICK g : Table(g, m - 1)
    BY <2>1
  <2> DEFINE f == [i \in 0 .. m |-> IF i = m THEN 2 * g[m - 1] ELSE g[i]]
  <2>3. f \in [0 .. m -> Nat \ {0}]
    BY <2>1, <2>2 DEF Table
  <2>4. f[0] = 1
    BY <1>4, <2>1, <2>2 DEF Table
  <2>5. ASSUME NEW i \in 0 .. m - 1 PROVE f[i + 1] = 2 * f[i]
    <3>1. CASE i = m - 1
      BY <2>1, <3>1
    <3>2. CASE i # m - 1
      <4>1. i \in 0 .. (m - 1) - 1 /\ i + 1 # m /\ i # m /\ i + 1 \in 0 .. m /\ i \in 0 .. m
        BY <2>1, <3>2
      <4> QED  BY <2>2, <4>1 DEF Table
    <3> QED  BY <3>1, <3>2
  <2>6. Table(f, m)
    BY <2>3, <2>4, <2>5 DEF Table
  <2> QED  BY <1>2, <2>6
<1> QED  BY <1>2, <1>3, <1>4

\* Two tables say the same.
LEMMA TablesAgree ==
  ASSUME NEW n \in Nat, NEW m \in Nat, NEW g, NEW h, Table(g, n), Table(h, m),
         NEW i \in Nat, i <= n, i <= m
  PROVE  g[i] = h[i]
<1> DEFINE T == {j \in Nat : j <= n /\ j <= m /\ g[j] # h[j]}
<1>1. SUFFICES ASSUME T # {} PROVE FALSE
  OBVIOUS
<1>2. PICK j \in T : \A y \in T : j <= y
  BY <1>1, LeastExists
<1>3. CASE j = 0
  BY <1>2, <1>3 DEF Table
<1>4. CASE j # 0
  <2>1. j - 1 \in Nat /\ j - 1 \in 0 .. n - 1 /\ j - 1 \in 0 .. m - 1 /\ (j - 1) + 1 = j
    BY <1>2, <1>4
  <2>2. g[j - 1] = h[j - 1]
    BY <1>2, <2>1
  <2> QED  BY <1>2, <2>1, <2>2 DEF Table
<1> QED  BY <1>2, <1>3, <1>4

\* Sizes are powers of two.
LEMMA SizeSteps ==
  /\ Size \in [Nat -> Nat \ {0}]
  /\ Size[0] = 1
  /\ \A k \in Nat : Size[k + 1] = 2 * Size[k]
<1> DEFINE T(n) == CHOOSE g : Table(g, n)
           f == [n \in Nat |-> T(n)[n]]
<1>1. \A n \in Nat : Table(T(n), n)
  BY TableExists
<1> HIDE DEF T
<1>2. f \in [Nat -> Nat \ {0}]
  BY <1>1 DEF Table
<1>3. f[0] = 1
  BY <1>1 DEF Table
<1>4. ASSUME NEW k \in Nat PROVE f[k + 1] = 2 * f[k]
  <2>1. Table(T(k + 1), k + 1) /\ Table(T(k), k) /\ k \in 0 .. (k + 1) - 1 /\ k + 1 \in Nat
    BY <1>1
  <2>2. T(k + 1)[k + 1] = 2 * T(k + 1)[k]
    BY <2>1 DEF Table
  <2>3. T(k + 1)[k] = T(k)[k]
    BY <2>1, TablesAgree
  <2> QED  BY <2>1, <2>2, <2>3
<1> HIDE DEF f
<1>5. f = [n \in Nat |-> IF n = 0 THEN 1 ELSE 2 * f[n - 1]]
  <2>1. ASSUME NEW n \in Nat PROVE f[n] = IF n = 0 THEN 1 ELSE 2 * f[n - 1]
    <3>1. CASE n # 0
      <4>1. n - 1 \in Nat /\ (n - 1) + 1 = n
        BY <3>1
      <4>2. f[(n - 1) + 1] = 2 * f[n - 1]
        BY <1>4, <4>1
      <4> QED  BY <3>1, <4>1, <4>2
    <3> QED  BY <1>3, <3>1
  <2> QED  BY <1>2, <2>1
<1>6. Size = [n \in Nat |-> IF n = 0 THEN 1 ELSE 2 * Size[n - 1]]
  BY <1>5 DEF Size
<1>7. \A n \in Nat : Size[n] = IF n = 0 THEN 1 ELSE 2 * Size[n - 1]
  BY <1>6
<1>8. Size[0] = 1
  BY <1>7
<1>9. ASSUME NEW k \in Nat PROVE Size[k + 1] = 2 * Size[k]
  <2>1. k + 1 \in Nat /\ k + 1 # 0 /\ (k + 1) - 1 = k
    OBVIOUS
  <2> QED  BY <1>7, <2>1
<1>10. \A n \in Nat : Size[n] \in Nat \ {0}
  <2> DEFINE B == {n \in Nat : Size[n] \notin Nat \ {0}}
  <2>1. SUFFICES ASSUME B # {} PROVE FALSE
    OBVIOUS
  <2>2. PICK n \in B : \A y \in B : n <= y
    BY <2>1, LeastExists
  <2>3. n # 0
    BY <1>8, <2>2
  <2>4. n - 1 \in Nat /\ n - 1 \notin B
    BY <2>2, <2>3
  <2>5. Size[n - 1] \in Nat \ {0} /\ Size[n] = 2 * Size[n - 1]
    BY <1>7, <2>2, <2>3, <2>4
  <2> QED  BY <2>2, <2>5
<1>11. Size \in [Nat -> Nat \ {0}]
  BY <1>6, <1>10
<1> QED  BY <1>8, <1>9, <1>11

\* A larger order is at least twice the size.
LEMMA SizeGrows ==
  ASSUME NEW i \in Nat, NEW j \in Nat, i < j
  PROVE  2 * Size[i] <= Size[j]
<1> DEFINE B == {k \in Nat : i < k /\ ~(2 * Size[i] <= Size[k])}
<1>1. SUFFICES ASSUME B # {} PROVE FALSE
  OBVIOUS
<1>2. PICK k \in B : \A y \in B : k <= y
  BY <1>1, LeastExists
<1>3. k - 1 \in Nat /\ (k - 1) + 1 = k /\ k - 1 \notin B /\ (k - 1 = i \/ i < k - 1)
  BY <1>2
<1>4. Size[k] = 2 * Size[k - 1] /\ Size[k - 1] \in Nat /\ Size[i] \in Nat
  BY <1>3, SizeSteps
<1>5. CASE k - 1 = i
  BY <1>2, <1>4, <1>5
<1>6. CASE i < k - 1
  <2>1. 2 * Size[i] <= Size[k - 1]
    BY <1>3, <1>6
  <2> QED  BY <1>2, <1>4, <2>1
<1> QED  BY <1>3, <1>5, <1>6

\* Sizes do not shrink with the order.
LEMMA SizeOrdered ==
  ASSUME NEW i \in Nat, NEW j \in Nat, i <= j
  PROVE  Size[i] <= Size[j] /\ Size[i] \in Nat \ {0} /\ Size[j] \in Nat \ {0}
<1>1. Size[i] \in Nat \ {0} /\ Size[j] \in Nat \ {0}
  BY SizeSteps
<1>2. CASE i = j
  BY <1>1, <1>2
<1>3. CASE i < j
  BY <1>1, <1>3, SizeGrows
<1> QED  BY <1>1, <1>2, <1>3

-----------------------------------------------------------------------------
(* Aligned offsets. *)

Multiple(a, k) == \E q \in Nat : a = q * Size[k]

\* Products of sums.
LEMMA Distribute ==
  ASSUME NEW a \in Nat, NEW b \in Nat, NEW c \in Nat
  PROVE  (a + b) * c = a * c + b * c /\ a * c \in Nat /\ b * c \in Nat /\ 1 * c = c
  OBVIOUS

\* Multiples of a size are at least that size apart.
LEMMA Apart ==
  ASSUME NEW k \in Nat, NEW a, NEW b, Multiple(a, k), Multiple(b, k)
  PROVE  a \in Nat /\ b \in Nat /\ (a < b => a + Size[k] <= b)
<1> PICK S \in Nat \ {0} : S = Size[k]
  BY SizeSteps
<1>1. PICK q \in Nat, r \in Nat : a = q * S /\ b = r * S
  BY DEF Multiple
<1>2. a \in Nat /\ b \in Nat
  BY <1>1
<1>3. ASSUME a < b PROVE a + S <= b
  <2>1. q < r
    <3>1. SUFFICES ASSUME r <= q PROVE FALSE
      OBVIOUS
    <3>2. (q - r) \in Nat /\ (q - r) * S \in Nat /\ q * S = r * S + (q - r) * S
      BY <3>1
    <3> QED  BY <1>1, <1>2, <1>3, <3>2
  <2>2. PICK d \in Nat : r = (q + 1) + d
    <3>1. r - (q + 1) \in Nat /\ r = (q + 1) + (r - (q + 1))
      BY <2>1
    <3> QED  BY <3>1
  <2>3. r * S = (q + 1) * S + d * S /\ (q + 1) * S = q * S + S /\ d * S \in Nat
    BY <2>2, Distribute
  <2> QED  BY <1>1, <1>2, <2>3
<1> QED  BY <1>2, <1>3

\* A multiple of a size is one of every smaller size.
LEMMA MultipleDown ==
  ASSUME NEW i \in Nat, NEW j \in Nat, i <= j, NEW a, Multiple(a, j)
  PROVE  Multiple(a, i)
<1> DEFINE B == {k \in Nat : i + k <= j /\ ~Multiple(a, j - k)}
<1>1. SUFFICES ASSUME B # {} PROVE FALSE
  <2>1. j - i \in Nat /\ i + (j - i) <= j /\ j - (j - i) = i
    OBVIOUS
  <2> QED  BY <2>1
<1>2. PICK k \in B : \A y \in B : k <= y
  BY <1>1, LeastExists
<1>3. k # 0
  <2>1. j - 0 = j
    OBVIOUS
  <2> QED  BY <1>2, <2>1
<1>4. PICK n \in Nat : n = j - k
  BY <1>2
<1>5. j - (k - 1) = n + 1 /\ k - 1 \in Nat /\ i + (k - 1) <= j /\ k - 1 \notin B
  BY <1>2, <1>3, <1>4
<1>6. Multiple(a, n + 1)
  BY <1>5
<1>7. PICK q \in Nat : a = q * Size[n + 1]
  BY <1>6 DEF Multiple
<1>8. Size[n + 1] = 2 * Size[n] /\ Size[n] \in Nat
  BY SizeSteps
<1>9. PICK S \in Nat : S = Size[n]
  BY <1>8
<1>10. a = (2 * q) * S /\ 2 * q \in Nat
  BY <1>7, <1>8, <1>9
<1>11. Multiple(a, n)
  BY <1>9, <1>10 DEF Multiple
<1> QED  BY <1>2, <1>4, <1>11

\* Two aligned blocks that meet are one inside the other.
LEMMA Nested ==
  ASSUME NEW i \in Nat, NEW j \in Nat, i <= j, NEW a, NEW b, Multiple(a, i), Multiple(b, j),
         a < b + Size[j], b < a + Size[i]
  PROVE  b <= a /\ a + Size[i] <= b + Size[j]
<1>1. Multiple(b, i) /\ Multiple(b + Size[j], i)
  <2>1. Multiple(b + Size[j], j)
    <3>1. PICK q \in Nat : b = q * Size[j]
      BY DEF Multiple
    <3>2. Size[j] \in Nat
      BY SizeSteps
    <3>3. PICK S \in Nat : S = Size[j]
      BY <3>2
    <3>4. (q + 1) * S = q * S + 1 * S /\ 1 * S = S
      BY Distribute
    <3>5. b + S = (q + 1) * S /\ q + 1 \in Nat
      BY <3>1, <3>3, <3>4
    <3> QED  BY <3>3, <3>5 DEF Multiple
  <2> QED  BY <2>1, MultipleDown
<1>2. a \in Nat /\ b \in Nat /\ Size[i] \in Nat /\ Size[j] \in Nat
  BY <1>1, Apart, SizeSteps
<1>3. ~(a < b)
  <2>1. a < b => a + Size[i] <= b
    BY <1>1, Apart
  <2> QED  BY <1>2, <2>1
<1>4. a + Size[i] <= b + Size[j]
  BY <1>1, Apart
<1> QED  BY <1>2, <1>3, <1>4

\* Division by a positive number.
LEMMA Division ==
  ASSUME NEW a \in Nat, NEW b \in Nat \ {0}
  PROVE  /\ a \div b \in Nat /\ a % b \in 0 .. b - 1
         /\ a = (a \div b) * b + (a % b)
  OBVIOUS

\* A quotient that leaves nothing is exact.
LEMMA Quotient ==
  ASSUME NEW q \in Nat, NEW b \in Nat \ {0}
  PROVE  (q * b) \div b = q
<1> PICK a \in Nat : a = q * b
  OBVIOUS
<1>1. PICK d \in Nat, m \in 0 .. b - 1 : d = a \div b /\ q * b = d * b + m
  BY Division
<1>2. ASSUME q < d PROVE FALSE
  <2>1. PICK e \in Nat : d = (q + 1) + e
    <3>1. d - (q + 1) \in Nat /\ d = (q + 1) + (d - (q + 1))
      BY <1>2
    <3> QED  BY <3>1
  <2>2. d * b = (q + 1) * b + e * b /\ (q + 1) * b = q * b + 1 * b /\ 1 * b = b
        /\ e * b \in Nat /\ q * b \in Nat
    BY <2>1, Distribute
  <2> QED  BY <1>1, <2>2
<1>3. ASSUME d < q PROVE FALSE
  <2>1. PICK e \in Nat : q = (d + 1) + e
    <3>1. q - (d + 1) \in Nat /\ q = (d + 1) + (q - (d + 1))
      BY <1>3
    <3> QED  BY <3>1
  <2>2. q * b = (d + 1) * b + e * b /\ (d + 1) * b = d * b + 1 * b /\ 1 * b = b
        /\ e * b \in Nat /\ d * b \in Nat
    BY <2>1, Distribute
  <2> QED  BY <1>1, <2>2
<1> QED  BY <1>1, <1>2, <1>3

\* Unit u is in the block of order k at a.
On(a, k, u) == a <= u /\ u < a + Size[k]

\* The aligned block that contains an offset.
LEMMA AlignFacts ==
  ASSUME NEW k \in Nat, NEW off \in Nat
  PROVE  Multiple(Align(off, k), k) /\ Align(off, k) \in Nat /\ On(Align(off, k), k, off)
<1> PICK S \in Nat \ {0} : S = Size[k]
  BY SizeSteps
<1>1. PICK q \in Nat, m \in 0 .. S - 1 : m = off % S /\ off = q * S + m
  <2>1. off \div S \in Nat /\ off % S \in 0 .. S - 1 /\ off = (off \div S) * S + (off % S)
    BY Division
  <2> QED  BY <2>1
<1>2. q * S \in Nat
  OBVIOUS
<1>3. Align(off, k) = q * S
  BY <1>1, <1>2 DEF Align
<1> QED  BY SMTT(30), <1>1, <1>2, <1>3 DEF Multiple, On

\* There is one.
LEMMA AlignUnique ==
  ASSUME NEW k \in Nat, NEW off \in Nat, NEW a, Multiple(a, k), On(a, k, off)
  PROVE  Align(off, k) = a
<1>1. Multiple(Align(off, k), k) /\ On(Align(off, k), k, off) /\ Size[k] \in Nat
  BY AlignFacts, SizeSteps
<1> PICK b : b = Align(off, k)
  OBVIOUS
<1>2. a \in Nat /\ b \in Nat /\ (a < b => a + Size[k] <= b) /\ (b < a => b + Size[k] <= a)
  BY <1>1, Apart
<1> QED  BY <1>1, <1>2 DEF On

\* A block and its buddy are the two halves of the aligned block of the next order.
LEMMA Halving ==
  ASSUME NEW k \in Nat, NEW off \in Nat
  PROVE  LET b == Align(off, k + 1) IN
           /\ b \in Nat
           /\ \/ Align(off, k) = b /\ Buddy(off, k) = b + Size[k]
              \/ Align(off, k) = b + Size[k] /\ Buddy(off, k) = b
<1> PICK S \in Nat \ {0} : S = Size[k]
  BY SizeSteps
<1> PICK b : b = Align(off, k + 1)
  OBVIOUS
<1>1. Multiple(b, k + 1) /\ b \in Nat /\ On(b, k + 1, off) /\ Size[k + 1] = 2 * S
  BY AlignFacts, SizeSteps
<1>2. PICK q \in Nat : b = q * (2 * S)
  BY <1>1 DEF Multiple
<1>3. PICK n \in Nat : n = 2 * q
  OBVIOUS
<1>4. b = n * S /\ b + S = (n + 1) * S
  <2>1. (n + 1) * S = n * S + 1 * S /\ 1 * S = S
    BY Distribute
  <2>2. q * (2 * S) = (2 * q) * S
    OBVIOUS
  <2> QED  BY <1>2, <1>3, <2>1, <2>2
<1>5. Multiple(b, k) /\ Multiple(b + S, k)
  BY <1>4 DEF Multiple
<1>6. n % 2 = 0 /\ (n + 1) % 2 = 1
  BY <1>3
<1>7. b \div S = n /\ (b + S) \div S = n + 1
  <2>1. (n * S) \div S = n
    BY Quotient
  <2>2. n + 1 \in Nat
    OBVIOUS
  <2>3. ((n + 1) * S) \div S = n + 1
    BY <2>2, Quotient
  <2> QED  BY <1>4, <2>1, <2>3
<1>8. CASE off < b + S
  <2>1. Align(off, k) = b
    BY <1>1, <1>5, <1>8, AlignUnique DEF On
  <2> QED  BY <1>1, <1>6, <1>7, <2>1 DEF Buddy
<1>9. CASE ~(off < b + S)
  <2>1. Align(off, k) = b + S
    BY <1>1, <1>5, <1>9, AlignUnique DEF On
  <2> QED  BY <1>1, <1>6, <1>7, <2>1 DEF Buddy
<1> QED  BY <1>1, <1>8, <1>9

\* What a merge up to order k joins is the aligned block of that order.
LEMMA MergeCovers ==
  ASSUME NEW i \in Nat, NEW off \in Nat, Multiple(off, i), NEW k \in Nat, i <= k, NEW u \in Nat
  PROVE  On(Align(off, k), k, u) <=>
           On(off, i, u) \/ \E o \in i .. k - 1 : On(Buddy(off, o), o, u)
<1> DEFINE Joined(n) == On(off, i, u) \/ \E o \in i .. n - 1 : On(Buddy(off, o), o, u)
           T == {n \in Nat : i <= n /\ ~(On(Align(off, n), n, u) <=> Joined(n))}
<1>1. SUFFICES ASSUME T # {} PROVE FALSE
  OBVIOUS
<1>2. PICK n \in T : \A y \in T : n <= y
  BY <1>1, LeastExists
<1>3. n # i
  <2>1. Align(off, i) = off
    <3>1. Size[i] \in Nat \ {0}
      BY SizeSteps
    <3> QED  BY <3>1, AlignUnique DEF On
  <2>2. i .. i - 1 = {}
    OBVIOUS
  <2>3. Joined(i) <=> On(off, i, u)
    BY <2>2
  <2> QED  BY <1>2, <2>1, <2>3
<1>4. PICK m \in Nat : n = m + 1 /\ i <= m
  <2>1. n - 1 \in Nat /\ n = (n - 1) + 1 /\ i <= n - 1
    BY <1>2, <1>3
  <2> QED  BY <2>1
<1>5. On(Align(off, m), m, u) <=> Joined(m)
  <2>1. m \notin T
    BY <1>2, <1>4
  <2> QED  BY <1>4, <2>1
<1>6. Joined(n) <=> Joined(m) \/ On(Buddy(off, m), m, u)
  <2>1. \A o : o \in i .. n - 1 <=> o \in i .. m - 1 \/ o = m
    BY <1>4
  <2> QED  BY <2>1
<1> HIDE DEF Joined
<1>7. On(Align(off, n), n, u) <=> On(Align(off, m), m, u) \/ On(Buddy(off, m), m, u)
  <2> PICK S \in Nat \ {0} : S = Size[m]
    BY SizeSteps
  <2> PICK b : b = Align(off, n)
    OBVIOUS
  <2>1. Size[n] = 2 * S
    BY <1>4, SizeSteps
  <2>2. b \in Nat /\ (\/ Align(off, m) = b /\ Buddy(off, m) = b + S
                      \/ Align(off, m) = b + S /\ Buddy(off, m) = b)
    BY <1>4, Halving
  <2> QED  BY <2>1, <2>2 DEF On
<1> QED  BY <1>2, <1>5, <1>6, <1>7

\* A split block is its left part and the right halves that were cut off.
LEMMA HalvesCover ==
  ASSUME NEW i \in Nat, NEW off \in Nat, NEW k \in Nat, i <= k, NEW u \in Nat
  PROVE  On(off, k, u) <=> On(off, i, u) \/ \E o \in i .. k - 1 : On(off + Size[o], o, u)
<1> DEFINE Joined(n) == On(off, i, u) \/ \E o \in i .. n - 1 : On(off + Size[o], o, u)
           T == {n \in Nat : i <= n /\ ~(On(off, n, u) <=> Joined(n))}
<1>1. SUFFICES ASSUME T # {} PROVE FALSE
  OBVIOUS
<1>2. PICK n \in T : \A y \in T : n <= y
  BY <1>1, LeastExists
<1>3. n # i
  <2>1. i .. i - 1 = {}
    OBVIOUS
  <2>2. Joined(i) <=> On(off, i, u)
    BY <2>1
  <2> QED  BY <1>2, <2>2
<1>4. PICK m \in Nat : n = m + 1 /\ i <= m
  <2>1. n - 1 \in Nat /\ n = (n - 1) + 1 /\ i <= n - 1
    BY <1>2, <1>3
  <2> QED  BY <2>1
<1>5. On(off, m, u) <=> Joined(m)
  <2>1. m \notin T
    BY <1>2, <1>4
  <2> QED  BY <1>4, <2>1
<1>6. Joined(n) <=> Joined(m) \/ On(off + Size[m], m, u)
  <2>1. \A o : o \in i .. n - 1 <=> o \in i .. m - 1 \/ o = m
    BY <1>4
  <2> QED  BY <2>1
<1> HIDE DEF Joined
<1>7. On(off, n, u) <=> On(off, m, u) \/ On(off + Size[m], m, u)
  <2> PICK S \in Nat \ {0} : S = Size[m]
    BY SizeSteps
  <2>1. Size[n] = 2 * S
    BY <1>4, SizeSteps
  <2> QED  BY <2>1 DEF On
<1> QED  BY <1>2, <1>5, <1>6, <1>7

-----------------------------------------------------------------------------
(* Tilings: sets of places whose blocks fill their pools. *)

\* The parts of a block.
LEMMA BlockTypes ==
  ASSUME NEW b \in Blocks
  PROVE  /\ b.p \in Pool /\ b.off \in Nat /\ b.off \in Offset /\ b.o \in Nat /\ b.o <= MaxOrder
         /\ b.o \in Order /\ Size[b.o] \in Nat \ {0} /\ b = Block(b.p, b.off, b.o)
         /\ Addr(b) = <<b.p, b.off>>
<1>1. b.p \in Pool /\ b.off \in Offset /\ b.o \in Order /\ b = [p |-> b.p, off |-> b.off, o |-> b.o]
  BY DEF Blocks
<1>2. MaxOrder \in Nat
  BY HeapAssumption
<1>3. Size[MaxOrder] \in Nat
  BY <1>2, SizeSteps
<1>4. b.off \in Nat /\ b.o \in Nat /\ b.o <= MaxOrder
  BY <1>1, <1>2, <1>3 DEF Offset, Order
<1> QED  BY <1>1, <1>4, SizeSteps DEF Block, Addr

Meet(b, c) == b.p = c.p /\ b.off < c.off + Size[c.o] /\ c.off < b.off + Size[b.o]

\* A block lies in a mapped pool, aligned and behind the header.
Fits(pl, b) ==
  /\ b \in Blocks /\ pl[b.p] # Unmapped
  /\ Multiple(b.off, b.o) /\ b.off > 0 /\ b.off + Size[b.o] <= Size[pl[b.p].order]

Tiled(P, pl) ==
  /\ \A x \in P : Fits(pl, x.b)
  /\ \A x, y \in P : Meet(x.b, y.b) => x = y
  /\ \A p \in Pool : pl[p] # Unmapped =>
       \A u \in 1 .. Size[pl[p].order] - 1 : \E x \in P : Covers(x.b, p, u)

\* Blocks that meet have a unit in common.
LEMMA MeetUnit ==
  ASSUME NEW b \in Blocks, NEW c \in Blocks, Meet(b, c)
  PROVE  \E u \in Nat : Covers(b, b.p, u) /\ Covers(c, b.p, u)
<1>1. /\ b.off \in Nat /\ c.off \in Nat /\ Size[b.o] \in Nat \ {0} /\ Size[c.o] \in Nat \ {0}
  BY BlockTypes
<1>2. CASE b.off <= c.off
  <2>1. Covers(b, b.p, c.off) /\ Covers(c, b.p, c.off)
    BY <1>1, <1>2 DEF Meet, Covers
  <2> QED  BY <1>1, <2>1
<1>3. CASE c.off <= b.off
  <2>1. Covers(b, b.p, b.off) /\ Covers(c, b.p, b.off)
    BY <1>1, <1>3 DEF Meet, Covers
  <2> QED  BY <1>1, <2>1
<1> QED  BY <1>1, <1>2, <1>3

\* Blocks with a unit in common meet.
LEMMA UnitMeet ==
  ASSUME NEW b \in Blocks, NEW c \in Blocks, NEW p, NEW u \in Nat, Covers(b, p, u), Covers(c, p, u)
  PROVE  Meet(b, c)
<1>1. /\ b.off \in Nat /\ c.off \in Nat /\ Size[b.o] \in Nat \ {0} /\ Size[c.o] \in Nat \ {0}
  BY BlockTypes
<1> QED  BY <1>1 DEF Meet, Covers

\* X covers the same units as Y.
SameUnits(X, Y) ==
  \A p \in Pool, u \in Nat : (\E x \in X : Covers(x.b, p, u)) <=> (\E y \in Y : Covers(y.b, p, u))

\* What stays when X is taken out does not meet what Y puts in its place.
LEMMA ReplaceApart ==
  ASSUME NEW pl, NEW P, NEW X, NEW Y, Tiled(P, pl), X \subseteq P,
         \A y \in Y : y.b \in Blocks, SameUnits(X, Y),
         NEW x \in P, x \notin X, NEW y \in Y
  PROVE  ~Meet(x.b, y.b)
<1>1. SUFFICES ASSUME Meet(x.b, y.b) PROVE FALSE
  OBVIOUS
<1>2. x.b \in Blocks /\ y.b \in Blocks
  BY DEF Tiled, Fits
<1>3. PICK u \in Nat : Covers(x.b, x.b.p, u) /\ Covers(y.b, x.b.p, u)
  BY <1>1, <1>2, MeetUnit
<1>4. x.b.p \in Pool
  BY <1>2, BlockTypes
<1>5. PICK z \in X : Covers(z.b, x.b.p, u)
  BY <1>3, <1>4 DEF SameUnits
<1>6. z \in P /\ z.b \in Blocks
  BY DEF Tiled, Fits
<1>7. Meet(x.b, z.b)
  BY <1>2, <1>3, <1>5, <1>6, UnitMeet
<1> QED  BY <1>5, <1>6, <1>7 DEF Tiled

\* Blocks are exchanged for others that cover the same.
LEMMA Replace ==
  ASSUME NEW pl, NEW P, NEW X, NEW Y, NEW Q, Tiled(P, pl), X \subseteq P,
         \A y \in Y : Fits(pl, y.b), \A y, z \in Y : Meet(y.b, z.b) => y = z, SameUnits(X, Y),
         \A x : x \in Q <=> (x \in P /\ x \notin X) \/ x \in Y
  PROVE  Tiled(Q, pl)
<1>1. \A x \in Q : Fits(pl, x.b)
  BY DEF Tiled
<1>2. ASSUME NEW x \in Q, NEW y \in Q, Meet(x.b, y.b) PROVE x = y
  <2>1. Meet(y.b, x.b)
    BY <1>2 DEF Meet
  <2>2. \A z \in Y : z.b \in Blocks
    BY DEF Fits
  <2>3. x \in Y /\ y \notin Y => FALSE
    BY <2>1, <2>2, ReplaceApart
  <2>4. x \notin Y /\ y \in Y => FALSE
    BY <1>2, <2>2, ReplaceApart
  <2>5. x \notin Y /\ y \notin Y => x = y
    BY <1>2 DEF Tiled
  <2> QED  BY <1>2, <2>3, <2>4, <2>5
<1>3. ASSUME NEW p \in Pool, pl[p] # Unmapped, NEW u \in 1 .. Size[pl[p].order] - 1
      PROVE  \E x \in Q : Covers(x.b, p, u)
  <2>1. PICK x \in P : Covers(x.b, p, u)
    BY <1>3 DEF Tiled
  <2>2. CASE x \in X
    <3>1. u \in Nat
      OBVIOUS
    <3>2. \E y \in Y : Covers(y.b, p, u)
      BY <2>1, <2>2, <3>1 DEF SameUnits
    <3> QED  BY <3>2
  <2> QED  BY <2>1, <2>2
<1> QED  BY <1>1, <1>2, <1>3 DEF Tiled

\* A pool is unmapped, with its blocks.
LEMMA UnmapPool ==
  ASSUME NEW pl, NEW P, NEW Q, Tiled(P, pl), NEW p \in Pool, DOMAIN pl = Pool,
         NEW pl2, pl2 = [pl EXCEPT ![p] = Unmapped],
         \A x : x \in Q <=> x \in P /\ x.b.p # p
  PROVE  Tiled(Q, pl2)
<1>1. ASSUME NEW x \in Q PROVE Fits(pl2, x.b)
  <2>1. Fits(pl, x.b) /\ x.b.p # p
    BY DEF Tiled
  <2>2. x.b.p \in Pool
    BY <2>1, BlockTypes DEF Fits
  <2> QED  BY <2>1, <2>2 DEF Fits
<1>2. \A x, y \in Q : Meet(x.b, y.b) => x = y
  BY DEF Tiled
<1>3. ASSUME NEW q \in Pool, pl2[q] # Unmapped, NEW u \in 1 .. Size[pl2[q].order] - 1
      PROVE  \E x \in Q : Covers(x.b, q, u)
  <2>1. q # p /\ pl2[q] = pl[q]
    BY <1>3
  <2>2. PICK x \in P : Covers(x.b, q, u)
    BY <1>3, <2>1 DEF Tiled
  <2>3. x.b.p = q
    BY <2>2 DEF Covers
  <2> QED  BY <2>1, <2>2, <2>3
<1> QED  BY <1>1, <1>2, <1>3 DEF Tiled

-----------------------------------------------------------------------------
(* What the operators of the allocator compute on. *)

States ==
  [pool : [Pool -> [owner : HeapId, order : {0} \cup (PoolOrder .. MaxOrder)]],
   hdr : [Pool \X Offset -> [rc : {0, 1}, o : Order]],
   free : [HeapId -> SUBSET Blocks],
   avail : [HeapId -> SUBSET Order],
   slab : [HeapId -> SUBSET Blocks],
   foreign : [HeapId -> SUBSET Blocks],
   bytes : [HeapId -> Int]]

\* The places of the blocks in the lists of s and in L, the blocks that are in use.
AllPlaces == [in : {"live", "free", "slab", "foreign"}, of : HeapId, b : Blocks]
PlacesOf(s, L) ==
  {x \in AllPlaces : \/ x.in = "live" /\ x.of = Main /\ x.b \in L
                     \/ x.in = "free" /\ x.b \in s.free[x.of]
                     \/ x.in = "slab" /\ x.b \in s.slab[x.of]
                     \/ x.in = "foreign" /\ x.b \in s.foreign[x.of]}

\* The header of a block says whether it is free and of which order it is.
Header(i, b) == [rc |-> IF i = "free" THEN 0 ELSE 1, o |-> b.o]
Headers(s, P) ==
  /\ \A x \in P : s.hdr[Addr(x.b)] = Header(x.in, x.b)
  /\ \A p \in Pool : s.pool[p] # Unmapped => s.hdr[<<p, 0>>].rc = 1

AtHome(s) ==
  \A h \in HeapId : /\ \A b \in s.free[h] \cup s.slab[h] : s.pool[b.p].owner = h
                    /\ \A b \in s.foreign[h] : s.pool[b.p].owner # h
                    /\ \A b \in s.free[h] : b.o \in s.avail[h]

Sound(s, L) ==
  /\ s \in States /\ L \subseteq Blocks
  /\ Tiled(PlacesOf(s, L), s.pool)
  /\ Headers(s, PlacesOf(s, L))
  /\ AtHome(s)

\* The blocks of a state.
LEMMA SoundBlocks ==
  ASSUME NEW s, NEW L, Sound(s, L)
  PROVE  /\ \A b \in L : Fits(s.pool, b) /\ [in |-> "live", of |-> Main, b |-> b] \in PlacesOf(s, L)
         /\ \A h \in HeapId : \A b \in s.free[h] :
              Fits(s.pool, b) /\ [in |-> "free", of |-> h, b |-> b] \in PlacesOf(s, L)
         /\ \A h \in HeapId : \A b \in s.slab[h] :
              Fits(s.pool, b) /\ [in |-> "slab", of |-> h, b |-> b] \in PlacesOf(s, L)
         /\ \A h \in HeapId : \A b \in s.foreign[h] :
              Fits(s.pool, b) /\ [in |-> "foreign", of |-> h, b |-> b] \in PlacesOf(s, L)
<1>1. Main \in HeapId
  BY DEF HeapId
<1>2. ASSUME NEW b \in L
      PROVE  Fits(s.pool, b) /\ [in |-> "live", of |-> Main, b |-> b] \in PlacesOf(s, L)
  <2>1. [in |-> "live", of |-> Main, b |-> b] \in PlacesOf(s, L)
    BY <1>1 DEF Sound, PlacesOf, AllPlaces
  <2> QED  BY <2>1 DEF Sound, Tiled
<1>3. ASSUME NEW h \in HeapId, NEW b \in s.free[h]
      PROVE  Fits(s.pool, b) /\ [in |-> "free", of |-> h, b |-> b] \in PlacesOf(s, L)
  <2>1. b \in Blocks
    BY DEF Sound, States
  <2>2. [in |-> "free", of |-> h, b |-> b] \in PlacesOf(s, L)
    BY <2>1 DEF PlacesOf, AllPlaces
  <2> QED  BY <2>2 DEF Sound, Tiled
<1>4. ASSUME NEW h \in HeapId, NEW b \in s.slab[h]
      PROVE  Fits(s.pool, b) /\ [in |-> "slab", of |-> h, b |-> b] \in PlacesOf(s, L)
  <2>1. b \in Blocks
    BY DEF Sound, States
  <2>2. [in |-> "slab", of |-> h, b |-> b] \in PlacesOf(s, L)
    BY <2>1 DEF PlacesOf, AllPlaces
  <2> QED  BY <2>2 DEF Sound, Tiled
<1>5. ASSUME NEW h \in HeapId, NEW b \in s.foreign[h]
      PROVE  Fits(s.pool, b) /\ [in |-> "foreign", of |-> h, b |-> b] \in PlacesOf(s, L)
  <2>1. b \in Blocks
    BY DEF Sound, States
  <2>2. [in |-> "foreign", of |-> h, b |-> b] \in PlacesOf(s, L)
    BY <2>1 DEF PlacesOf, AllPlaces
  <2> QED  BY <2>2 DEF Sound, Tiled
<1> QED  BY <1>2, <1>3, <1>4, <1>5

\* A block meets itself, so it is in one place only.
LEMMA OnePlace ==
  ASSUME NEW s, NEW L, Sound(s, L), NEW x \in PlacesOf(s, L), NEW y \in PlacesOf(s, L), x.b = y.b
  PROVE  x = y
<1>1. x.b \in Blocks
  BY DEF PlacesOf, AllPlaces
<1>2. x.b.off \in Nat /\ Size[x.b.o] \in Nat \ {0}
  BY <1>1, BlockTypes
<1>3. Meet(x.b, y.b)
  BY <1>2 DEF Meet
<1> QED  BY <1>3 DEF Sound, Tiled

\* Where a block that fits lies, and that all of its words have addresses.
LEMMA FitsFacts ==
  ASSUME NEW s \in States, NEW b, Fits(s.pool, b)
  PROVE  /\ b \in Blocks /\ Addr(b) \in Pool \X Offset /\ b.off \in Nat \ {0}
         /\ Size[b.o] \in Nat \ {0} /\ Covers(b, b.p, b.off)
         /\ s.pool[b.p].order \in Nat /\ s.pool[b.p].order <= MaxOrder
         /\ \A u \in Nat : Covers(b, b.p, u) => u \in Offset
<1>1. b \in Blocks
  BY DEF Fits
<1>2. /\ b.p \in Pool /\ b.off \in Nat /\ b.off \in Offset /\ b.o \in Nat /\ Size[b.o] \in Nat \ {0}
      /\ Addr(b) = <<b.p, b.off>>
  BY <1>1, BlockTypes
<1>3. MaxOrder \in Nat /\ PoolOrder \in Nat
  BY HeapAssumption
<1>4. s.pool[b.p].order \in Nat /\ s.pool[b.p].order <= MaxOrder
  <2>1. s.pool[b.p] \in [owner : HeapId, order : {0} \cup (PoolOrder .. MaxOrder)]
    BY <1>2 DEF States
  <2> QED  BY <1>3, <2>1
<1>5. Size[s.pool[b.p].order] <= Size[MaxOrder] /\ Size[s.pool[b.p].order] \in Nat /\ Size[MaxOrder] \in Nat
  BY <1>3, <1>4, SizeOrdered
<1>6. \A u \in Nat : Covers(b, b.p, u) => u \in Offset
  BY <1>2, <1>5 DEF Covers, Fits, Offset
<1> QED  BY <1>1, <1>2, <1>4, <1>6 DEF Fits, Covers

\* From s to t, the blocks B of h's free lists and D in use are exchanged for C, free,
\* and E, in use, which cover the same.
Exchanged(s, L, t, M, h, B, C, D, E) ==
  /\ t \in States
  /\ t.pool = s.pool /\ t.slab = s.slab /\ t.foreign = s.foreign
  /\ B \subseteq s.free[h] /\ D \subseteq L
  /\ \A g \in HeapId : t.free[g] = (s.free[g] \ B) \cup (IF g = h THEN C ELSE {})
  /\ M = (L \ D) \cup E
  /\ \A c \in C \cup E : Fits(s.pool, c)
  /\ \A c, d \in C \cup E : Meet(c, d) => c = d
  /\ C \cap E = {}
  /\ \A p \in Pool, u \in Nat :
       (\E b \in B \cup D : Covers(b, p, u)) <=> (\E c \in C \cup E : Covers(c, p, u))
  /\ \A c \in C : t.hdr[Addr(c)] = Header("free", c) /\ s.pool[c.p].owner = h
  /\ \A e \in E : t.hdr[Addr(e)] = Header("live", e)
  /\ \A a \in Pool \X Offset :
       (\A c \in C \cup E : ~Covers(c, a[1], a[2])) => t.hdr[a] = s.hdr[a]
  /\ \A g \in HeapId : \A b \in t.free[g] : b.o \in t.avail[g]

\* Such an exchange keeps the lists sound.
LEMMA Exchange ==
  ASSUME NEW s, NEW L, Sound(s, L), NEW t, NEW M, NEW h \in HeapId,
         NEW B, NEW C, NEW D, NEW E, Exchanged(s, L, t, M, h, B, C, D, E)
  PROVE  Sound(t, M)
<1> USE DEF Exchanged
<1> DEFINE P == PlacesOf(s, L)
           Q == PlacesOf(t, M)
           X == {x \in P : (x.in = "free" /\ x.b \in B) \/ (x.in = "live" /\ x.b \in D)}
           Y == {y \in AllPlaces : \/ y.in = "free" /\ y.of = h /\ y.b \in C
                                   \/ y.in = "live" /\ y.of = Main /\ y.b \in E}
<1>1. C \cup E \subseteq Blocks /\ s \in States /\ L \subseteq Blocks
  BY DEF Fits, Sound
<1>2. M \subseteq Blocks
  BY <1>1
<1>3. ASSUME NEW x PROVE x \in Q <=> (x \in P /\ x \notin X) \/ x \in Y
  <2>1. x \in Q => x \in AllPlaces
    BY DEF PlacesOf
  <2>2. x \in P => x \in AllPlaces
    BY DEF PlacesOf
  <2>3. x \in Y => x \in AllPlaces
    OBVIOUS
  <2>4. SUFFICES ASSUME x \in AllPlaces
                 PROVE  x \in Q <=> (x \in P /\ x \notin X) \/ x \in Y
    BY <2>1, <2>2, <2>3
  <2>5. x.in \in {"live", "free", "slab", "foreign"} /\ x.of \in HeapId
    BY <2>4 DEF AllPlaces
  <2>6. CASE x.in = "live"
    BY <2>4, <2>6 DEF PlacesOf
  <2>7. CASE x.in = "free"
    <3>1. x.b \in t.free[x.of] <=> (x.b \in s.free[x.of] /\ x.b \notin B) \/ (x.of = h /\ x.b \in C)
      BY <2>5
    <3> QED  BY <2>4, <2>7, <3>1 DEF PlacesOf
  <2>8. CASE x.in = "slab" \/ x.in = "foreign"
    BY <2>4, <2>8 DEF PlacesOf
  <2> QED  BY <2>5, <2>6, <2>7, <2>8
<1>4. \A y \in Y : Fits(s.pool, y.b) /\ y.b \in C \cup E
  OBVIOUS
<1>5. \A y, z \in Y : Meet(y.b, z.b) => y = z
  <2> SUFFICES ASSUME NEW y \in Y, NEW z \in Y, Meet(y.b, z.b) PROVE y = z
    OBVIOUS
  <2>1. y.b = z.b
    BY <1>4
  <2>2. y.in = z.in /\ y.of = z.of
    BY <2>1
  <2> QED  BY <2>1, <2>2 DEF AllPlaces
<1>6. ASSUME NEW b \in B \cup D PROVE \E x \in X : x.b = b
  <2>1. CASE b \in B
    <3>1. [in |-> "free", of |-> h, b |-> b] \in X
      BY <2>1, SoundBlocks
    <3> QED  BY <3>1
  <2>2. CASE b \in D
    <3>1. [in |-> "live", of |-> Main, b |-> b] \in X
      BY <2>2, SoundBlocks
    <3> QED  BY <3>1
  <2> QED  BY <2>1, <2>2
<1>7. ASSUME NEW c \in C \cup E PROVE \E y \in Y : y.b = c
  <2>1. CASE c \in C
    <3>1. [in |-> "free", of |-> h, b |-> c] \in Y
      BY <1>1, <2>1 DEF AllPlaces
    <3> QED  BY <3>1
  <2>2. CASE c \in E
    <3>1. [in |-> "live", of |-> Main, b |-> c] \in Y
      BY <1>1, <2>2 DEF AllPlaces, HeapId
    <3> QED  BY <3>1
  <2> QED  BY <2>1, <2>2
<1>10. SameUnits(X, Y)
  <2> SUFFICES ASSUME NEW p \in Pool, NEW u \in Nat
               PROVE  (\E x \in X : Covers(x.b, p, u)) <=> (\E y \in Y : Covers(y.b, p, u))
    BY DEF SameUnits
  <2>1. (\E x \in X : Covers(x.b, p, u)) <=> (\E b \in B \cup D : Covers(b, p, u))
    <3>1. ASSUME NEW b \in B \cup D, Covers(b, p, u) PROVE \E x \in X : Covers(x.b, p, u)
      <4>1. PICK x \in X : x.b = b
        BY <1>6
      <4> QED  BY <3>1, <4>1
    <3> QED  BY <3>1
  <2>2. (\E y \in Y : Covers(y.b, p, u)) <=> (\E c \in C \cup E : Covers(c, p, u))
    <3>1. ASSUME NEW c \in C \cup E, Covers(c, p, u) PROVE \E y \in Y : Covers(y.b, p, u)
      <4>1. PICK y \in Y : y.b = c
        BY <1>7
      <4> QED  BY <3>1, <4>1
    <3> QED  BY <1>4, <3>1
  <2> QED  BY <2>1, <2>2
<1>11. Tiled(P, s.pool) /\ Headers(s, P)
  BY DEF Sound
<1>12. X \subseteq P
  OBVIOUS
<1>13. \A x \in P : x \in X \/ \A y \in Y : ~Meet(x.b, y.b)
  <2>1. \A y \in Y : y.b \in Blocks
    BY <1>1, <1>4
  <2> HIDE DEF P, X, Y
  <2> QED  BY <1>10, <1>11, <1>12, <2>1, ReplaceApart
<1>14. Tiled(Q, s.pool)
  <2> HIDE DEF P, Q, X, Y
  <2> QED  BY <1>3, <1>4, <1>5, <1>10, <1>11, <1>12, Replace
<1>15. Headers(t, Q)
  <2>1. ASSUME NEW x \in Q PROVE t.hdr[Addr(x.b)] = Header(x.in, x.b)
    <3>1. CASE x \in Y
      BY <3>1
    <3>2. CASE x \in P /\ x \notin X
      <4>1. x.b \in Blocks /\ Fits(s.pool, x.b)
        BY <3>2, <1>11 DEF Tiled, Fits
      <4>2. Addr(x.b) \in Pool \X Offset /\ Addr(x.b)[1] = x.b.p /\ Addr(x.b)[2] = x.b.off
            /\ x.b.off \in Nat /\ Covers(x.b, x.b.p, x.b.off)
        BY <1>1, <4>1, FitsFacts DEF Addr
      <4>3. \A c \in C \cup E : ~Covers(c, x.b.p, x.b.off)
        <5> SUFFICES ASSUME NEW c \in C \cup E, Covers(c, x.b.p, x.b.off) PROVE FALSE
          OBVIOUS
        <5>1. Meet(x.b, c)
          BY <1>1, <4>1, <4>2, UnitMeet
        <5>2. PICK y \in Y : y.b = c
          BY <1>7
        <5> QED  BY <1>13, <3>2, <5>1, <5>2
      <4>4. t.hdr[Addr(x.b)] = s.hdr[Addr(x.b)]
        BY <4>2, <4>3
      <4> QED  BY <1>11, <3>2, <4>4 DEF Headers
    <3> QED  BY <1>3, <3>1, <3>2
  <2>2. ASSUME NEW p \in Pool, t.pool[p] # Unmapped PROVE t.hdr[<<p, 0>>].rc = 1
    <3>1. <<p, 0>> \in Pool \X Offset
      <4>1. Size[MaxOrder] \in Nat \ {0}
        BY HeapAssumption, SizeSteps
      <4> QED  BY <4>1 DEF Offset
    <3>2. \A c \in C \cup E : ~Covers(c, p, 0)
      <4> SUFFICES ASSUME NEW c \in C \cup E, Covers(c, p, 0) PROVE FALSE
        OBVIOUS
      <4>1. c.off \in Nat \ {0}
        BY <1>1, FitsFacts
      <4> QED  BY <4>1 DEF Covers
    <3>3. t.hdr[<<p, 0>>] = s.hdr[<<p, 0>>]
      BY <3>1, <3>2
    <3> QED  BY <1>11, <2>2, <3>3 DEF Headers
  <2> QED  BY <2>1, <2>2 DEF Headers
<1>16. AtHome(t)
  BY DEF AtHome, Sound
<1> QED  BY <1>2, <1>14, <1>15, <1>16 DEF Sound

\* From s to t, the blocks of the places X are in the places Y, with the same words.
Shifted(s, L, t, M, X, Y) ==
  /\ t \in States /\ M \subseteq Blocks /\ t.pool = s.pool /\ t.hdr = s.hdr
  /\ X \subseteq PlacesOf(s, L)
  /\ \A x \in X : x.in # "free" /\ \E y \in Y : y.b = x.b
  /\ \A y \in Y : y.in # "free" /\ \E x \in X : x.b = y.b
  /\ \A y, z \in Y : y.b = z.b => y = z
  /\ PlacesOf(t, M) = (PlacesOf(s, L) \ X) \cup Y
  /\ AtHome(t)

\* Such a shift keeps the lists sound.
LEMMA Moved ==
  ASSUME NEW s, NEW L, Sound(s, L), NEW t, NEW M, NEW X, NEW Y, Shifted(s, L, t, M, X, Y)
  PROVE  Sound(t, M)
<1> USE DEF Shifted
<1> PICK P, Q : P = PlacesOf(s, L) /\ Q = PlacesOf(t, M)
  OBVIOUS
<1>1. Tiled(P, s.pool) /\ Headers(s, P)
  BY DEF Sound
<1>2. Tiled(Q, s.pool)
  <2>1. X \subseteq P /\ \A y \in Y : Fits(s.pool, y.b)
    BY <1>1 DEF Tiled
  <2>2. SameUnits(X, Y)
    BY DEF SameUnits
  <2>3. \A z : z \in Q <=> (z \in P /\ z \notin X) \/ z \in Y
    OBVIOUS
  <2>4. ASSUME NEW y \in Y, NEW z \in Y, Meet(y.b, z.b) PROVE y = z
    <3>1. PICK v \in X : v.b = y.b
      OBVIOUS
    <3>2. PICK w \in X : w.b = z.b
      OBVIOUS
    <3>3. v = w
      BY <1>1, <2>1, <2>4, <3>1, <3>2 DEF Tiled
    <3> QED  BY <3>1, <3>2, <3>3
  <2> QED  BY <1>1, <2>1, <2>2, <2>3, <2>4, Replace
<1>3. Headers(t, Q)
  <2>1. ASSUME NEW z \in Q PROVE t.hdr[Addr(z.b)] = Header(z.in, z.b)
    <3>1. CASE z \in P
      BY <1>1, <3>1 DEF Headers
    <3>2. CASE z \in Y
      <4>1. PICK x \in X : x.b = z.b
        BY <3>2
      <4>2. z.in # "free" /\ x.in # "free" /\ x \in P
        BY <3>2
      <4>3. Header(z.in, z.b) = Header(x.in, x.b)
        BY <4>1, <4>2 DEF Header
      <4> QED  BY <1>1, <4>1, <4>2, <4>3 DEF Headers
    <3> QED  BY <3>1, <3>2
  <2> QED  BY <1>1, <2>1 DEF Headers
<1> QED  BY <1>2, <1>3 DEF Sound

\* From s to t only the slab cache, or the foreign list, of h becomes B.
SlabIs(s, t, h, B) ==
  /\ t \in States
  /\ t.pool = s.pool /\ t.hdr = s.hdr /\ t.free = s.free /\ t.avail = s.avail /\ t.foreign = s.foreign
  /\ \A g \in HeapId : t.slab[g] = IF g = h THEN B ELSE s.slab[g]
ForeignIs(s, t, h, B) ==
  /\ t \in States
  /\ t.pool = s.pool /\ t.hdr = s.hdr /\ t.free = s.free /\ t.avail = s.avail /\ t.slab = s.slab
  /\ \A g \in HeapId : t.foreign[g] = IF g = h THEN B ELSE s.foreign[g]

\* Blocks leave a slab cache and are in hand.
LEMMA SlabOut ==
  ASSUME NEW s, NEW L, Sound(s, L), NEW h \in HeapId, NEW B, B \subseteq s.slab[h], NEW t,
         SlabIs(s, t, h, s.slab[h] \ B)
  PROVE  Sound(t, L \cup B) /\ L \cap B = {}
<1> USE DEF SlabIs
<1>1. PICK M, P : M = L \cup B /\ P = PlacesOf(s, L)
  OBVIOUS
<1>2. PICK X : X = {x \in AllPlaces : x.in = "slab" /\ x.of = h /\ x.b \in B}
  OBVIOUS
<1>3. PICK Y : Y = {y \in AllPlaces : y.in = "live" /\ y.of = Main /\ y.b \in B}
  OBVIOUS
<1>4. B \subseteq Blocks /\ L \subseteq Blocks /\ M \subseteq Blocks /\ Main \in HeapId
  BY <1>1 DEF Sound, States, HeapId
<1>5. ASSUME NEW b \in B
      PROVE  [in |-> "slab", of |-> h, b |-> b] \in X /\ [in |-> "live", of |-> Main, b |-> b] \in Y
  BY <1>2, <1>3, <1>4 DEF AllPlaces
<1>6. X \subseteq P
  BY <1>1, <1>2 DEF PlacesOf
<1>7. ASSUME NEW b \in B PROVE b \notin L
  <2>1. b \in L => [in |-> "live", of |-> Main, b |-> b] \in P
    BY <1>1, SoundBlocks
  <2>2. [in |-> "slab", of |-> h, b |-> b] \in P
    BY <1>5, <1>6
  <2> QED  BY <1>1, <2>1, <2>2, OnePlace
<1>8. \A x \in X : x.in # "free" /\ \E y \in Y : y.b = x.b
  BY <1>2, <1>5
<1>9. \A y \in Y : y.in # "free" /\ \E x \in X : x.b = y.b
  BY <1>3, <1>5
<1>10. \A y, z \in Y : y.b = z.b => y = z
  BY <1>3 DEF AllPlaces
<1>11. ASSUME NEW z PROVE z \in PlacesOf(t, M) <=> z \in (P \ X) \cup Y
  <2>1. CASE z \notin AllPlaces
    BY <1>1, <1>3, <2>1 DEF PlacesOf
  <2>2. CASE z \in AllPlaces
    <3>1. z.in \in {"live", "free", "slab", "foreign"} /\ z.of \in HeapId
      BY <2>2 DEF AllPlaces
    <3>2. CASE z.in = "slab"
      <4>1. z.b \in t.slab[z.of] <=> z.b \in s.slab[z.of] /\ ~(z.of = h /\ z.b \in B)
        BY <3>1
      <4>2. z \in PlacesOf(t, M) <=> z.b \in t.slab[z.of]
        BY <2>2, <3>2 DEF PlacesOf
      <4>3. z \in P <=> z.b \in s.slab[z.of]
        BY <1>1, <2>2, <3>2 DEF PlacesOf
      <4> QED  BY <1>2, <1>3, <2>2, <3>2, <4>1, <4>2, <4>3
    <3>3. CASE z.in = "live"
      <4>1. z \in PlacesOf(t, M) <=> z.of = Main /\ z.b \in M
        BY <2>2, <3>3 DEF PlacesOf
      <4>2. z \in P <=> z.of = Main /\ z.b \in L
        BY <1>1, <2>2, <3>3 DEF PlacesOf
      <4> QED  BY <1>1, <1>2, <1>3, <2>2, <3>3, <4>1, <4>2
    <3>4. CASE z.in \notin {"live", "slab"}
      BY <1>1, <1>2, <1>3, <2>2, <3>1, <3>4 DEF PlacesOf
    <3> QED  BY <3>2, <3>3, <3>4
  <2> QED  BY <2>1, <2>2
<1>12. PlacesOf(t, M) = (PlacesOf(s, L) \ X) \cup Y
  BY <1>1, <1>11
<1>13. AtHome(t)
  <2> SUFFICES ASSUME NEW g \in HeapId
               PROVE  /\ \A c \in t.free[g] \cup t.slab[g] : t.pool[c.p].owner = g
                      /\ \A c \in t.foreign[g] : t.pool[c.p].owner # g
                      /\ \A c \in t.free[g] : c.o \in t.avail[g]
    BY DEF AtHome
  <2>1. /\ \A c \in s.free[g] \cup s.slab[g] : s.pool[c.p].owner = g
        /\ \A c \in s.foreign[g] : s.pool[c.p].owner # g
        /\ \A c \in s.free[g] : c.o \in s.avail[g]
    BY DEF Sound, AtHome
  <2>2. \A c \in t.slab[g] : c \in s.slab[g]
    OBVIOUS
  <2> QED  BY <2>1, <2>2
<1>14. /\ t \in States /\ M \subseteq Blocks /\ t.pool = s.pool /\ t.hdr = s.hdr
       /\ X \subseteq PlacesOf(s, L)
  BY <1>1, <1>4, <1>6
<1>15. Shifted(s, L, t, M, X, Y)
  BY ONLY <1>8, <1>9, <1>10, <1>12, <1>13, <1>14 DEF Shifted
<1>16. Sound(t, M)
  BY <1>15, Moved
<1> QED  BY <1>1, <1>7, <1>16

\* A block in hand goes to the slab cache of its owner.
LEMMA SlabIn ==
  ASSUME NEW s, NEW L, Sound(s, L), NEW h \in HeapId, NEW b \in L, NEW t,
         s.pool[b.p].owner = h, SlabIs(s, t, h, s.slab[h] \cup {b})
  PROVE  Sound(t, L \ {b})
<1> USE DEF SlabIs
<1> DEFINE x == [in |-> "live", of |-> Main, b |-> b]
           y == [in |-> "slab", of |-> h, b |-> b]
<1>1. x \in PlacesOf(s, L) /\ Fits(s.pool, b) /\ b \in Blocks
  BY SoundBlocks DEF Fits
<1>2. L \ {b} \subseteq Blocks /\ Main \in HeapId /\ y \in AllPlaces
  BY <1>1 DEF Sound, HeapId, AllPlaces
<1>6. b \notin s.slab[h]
  <2>1. b \in s.slab[h] => y \in PlacesOf(s, L)
    BY SoundBlocks
  <2> QED  BY <1>1, <2>1, OnePlace
<1>3. ASSUME NEW z PROVE z \in PlacesOf(t, L \ {b}) <=> (z \in PlacesOf(s, L) /\ z # x) \/ z = y
  <2>1. CASE z \notin AllPlaces
    BY <1>2, <2>1 DEF PlacesOf
  <2>2. CASE z \in AllPlaces
    <3>1. z.in \in {"live", "free", "slab", "foreign"} /\ z.of \in HeapId
          /\ z = [in |-> z.in, of |-> z.of, b |-> z.b]
      BY <2>2 DEF AllPlaces
    <3>2. CASE z.in = "slab"
      <4>1. (z = y <=> z.of = h /\ z.b = b) /\ z # x
        BY <3>1, <3>2
      <4>2. z.b \in t.slab[z.of] <=> z.b \in s.slab[z.of] \/ (z.of = h /\ z.b = b)
        BY <3>1
      <4>3. z \in PlacesOf(t, L \ {b}) <=> z.b \in t.slab[z.of]
        BY <2>2, <3>2 DEF PlacesOf
      <4>4. z \in PlacesOf(s, L) <=> z.b \in s.slab[z.of]
        BY <2>2, <3>2 DEF PlacesOf
      <4> QED  BY <1>6, <4>1, <4>2, <4>3, <4>4
    <3>3. CASE z.in = "live"
      <4>1. (z = x <=> z.of = Main /\ z.b = b) /\ z # y
        BY <3>1, <3>3
      <4>2. z \in PlacesOf(t, L \ {b}) <=> z.of = Main /\ z.b \in (L \ {b})
        BY <2>2, <3>3 DEF PlacesOf
      <4>3. z \in PlacesOf(s, L) <=> z.of = Main /\ z.b \in L
        BY <2>2, <3>3 DEF PlacesOf
      <4> QED  BY <1>6, <4>1, <4>2, <4>3
    <3>4. CASE z.in \notin {"live", "slab"}
      BY <2>2, <3>1, <3>4 DEF PlacesOf
    <3> QED  BY <3>2, <3>3, <3>4
  <2> QED  BY <2>1, <2>2
<1>4. AtHome(t)
  <2> SUFFICES ASSUME NEW g \in HeapId
               PROVE  /\ \A c \in t.free[g] \cup t.slab[g] : t.pool[c.p].owner = g
                      /\ \A c \in t.foreign[g] : t.pool[c.p].owner # g
                      /\ \A c \in t.free[g] : c.o \in t.avail[g]
    BY DEF AtHome
  <2>1. /\ \A c \in s.free[g] \cup s.slab[g] : s.pool[c.p].owner = g
        /\ \A c \in s.foreign[g] : s.pool[c.p].owner # g
        /\ \A c \in s.free[g] : c.o \in s.avail[g]
    BY DEF Sound, AtHome
  <2>2. \A c \in t.slab[g] : c \in s.slab[g] \/ (g = h /\ c = b)
    OBVIOUS
  <2> QED  BY <2>1, <2>2
<1>5. y.b = x.b /\ x.in # "free" /\ y.in # "free"
  OBVIOUS
<1> HIDE DEF x, y
<1> PICK M : M = L \ {b}
  OBVIOUS
<1>7. PlacesOf(t, M) = (PlacesOf(s, L) \ {x}) \cup {y}
  BY <1>3
<1>8. M \subseteq Blocks
  BY <1>2
<1>9. /\ t \in States /\ M \subseteq Blocks /\ t.pool = s.pool /\ t.hdr = s.hdr
      /\ {x} \subseteq PlacesOf(s, L) /\ AtHome(t)
      /\ \A v \in {x} : v.in # "free" /\ \E w \in {y} : w.b = v.b
      /\ \A w \in {y} : w.in # "free" /\ \E v \in {x} : v.b = w.b
      /\ \A v, w \in {y} : v.b = w.b => v = w
      /\ PlacesOf(t, M) = (PlacesOf(s, L) \ {x}) \cup {y}
  BY <1>1, <1>4, <1>5, <1>7, <1>8
<1>10. Shifted(s, L, t, M, {x}, {y})
  BY ONLY <1>9 DEF Shifted
<1>11. Sound(t, M)
  BY <1>10, Moved
<1> QED  BY <1>11

\* Blocks leave a foreign list and are in hand.
LEMMA ForeignOut ==
  ASSUME NEW s, NEW L, Sound(s, L), NEW h \in HeapId, NEW B, B \subseteq s.foreign[h], NEW t,
         ForeignIs(s, t, h, s.foreign[h] \ B)
  PROVE  Sound(t, L \cup B) /\ L \cap B = {}
<1> USE DEF ForeignIs
<1>1. PICK M, P : M = L \cup B /\ P = PlacesOf(s, L)
  OBVIOUS
<1>2. PICK X : X = {x \in AllPlaces : x.in = "foreign" /\ x.of = h /\ x.b \in B}
  OBVIOUS
<1>3. PICK Y : Y = {y \in AllPlaces : y.in = "live" /\ y.of = Main /\ y.b \in B}
  OBVIOUS
<1>4. B \subseteq Blocks /\ L \subseteq Blocks /\ M \subseteq Blocks /\ Main \in HeapId
  BY <1>1 DEF Sound, States, HeapId
<1>5. ASSUME NEW b \in B
      PROVE  [in |-> "foreign", of |-> h, b |-> b] \in X /\ [in |-> "live", of |-> Main, b |-> b] \in Y
  BY <1>2, <1>3, <1>4 DEF AllPlaces
<1>6. X \subseteq P
  BY <1>1, <1>2 DEF PlacesOf
<1>7. ASSUME NEW b \in B PROVE b \notin L
  <2>1. b \in L => [in |-> "live", of |-> Main, b |-> b] \in P
    BY <1>1, SoundBlocks
  <2>2. [in |-> "foreign", of |-> h, b |-> b] \in P
    BY <1>5, <1>6
  <2> QED  BY <1>1, <2>1, <2>2, OnePlace
<1>8. \A x \in X : x.in # "free" /\ \E y \in Y : y.b = x.b
  BY <1>2, <1>5
<1>9. \A y \in Y : y.in # "free" /\ \E x \in X : x.b = y.b
  BY <1>3, <1>5
<1>10. \A y, z \in Y : y.b = z.b => y = z
  BY <1>3 DEF AllPlaces
<1>11. ASSUME NEW z PROVE z \in PlacesOf(t, M) <=> z \in (P \ X) \cup Y
  <2>1. CASE z \notin AllPlaces
    BY <1>1, <1>3, <2>1 DEF PlacesOf
  <2>2. CASE z \in AllPlaces
    <3>1. z.in \in {"live", "free", "slab", "foreign"} /\ z.of \in HeapId
      BY <2>2 DEF AllPlaces
    <3>2. CASE z.in = "foreign"
      <4>1. z.b \in t.foreign[z.of] <=> z.b \in s.foreign[z.of] /\ ~(z.of = h /\ z.b \in B)
        BY <3>1
      <4>2. z \in PlacesOf(t, M) <=> z.b \in t.foreign[z.of]
        BY <2>2, <3>2 DEF PlacesOf
      <4>3. z \in P <=> z.b \in s.foreign[z.of]
        BY <1>1, <2>2, <3>2 DEF PlacesOf
      <4> QED  BY <1>2, <1>3, <2>2, <3>2, <4>1, <4>2, <4>3
    <3>3. CASE z.in = "live"
      <4>1. z \in PlacesOf(t, M) <=> z.of = Main /\ z.b \in M
        BY <2>2, <3>3 DEF PlacesOf
      <4>2. z \in P <=> z.of = Main /\ z.b \in L
        BY <1>1, <2>2, <3>3 DEF PlacesOf
      <4> QED  BY <1>1, <1>2, <1>3, <2>2, <3>3, <4>1, <4>2
    <3>4. CASE z.in \notin {"live", "foreign"}
      BY <1>1, <1>2, <1>3, <2>2, <3>1, <3>4 DEF PlacesOf
    <3> QED  BY <3>2, <3>3, <3>4
  <2> QED  BY <2>1, <2>2
<1>12. PlacesOf(t, M) = (PlacesOf(s, L) \ X) \cup Y
  BY <1>1, <1>11
<1>13. AtHome(t)
  <2> SUFFICES ASSUME NEW g \in HeapId
               PROVE  /\ \A c \in t.free[g] \cup t.slab[g] : t.pool[c.p].owner = g
                      /\ \A c \in t.foreign[g] : t.pool[c.p].owner # g
                      /\ \A c \in t.free[g] : c.o \in t.avail[g]
    BY DEF AtHome
  <2>1. /\ \A c \in s.free[g] \cup s.slab[g] : s.pool[c.p].owner = g
        /\ \A c \in s.foreign[g] : s.pool[c.p].owner # g
        /\ \A c \in s.free[g] : c.o \in s.avail[g]
    BY DEF Sound, AtHome
  <2>2. \A c \in t.foreign[g] : c \in s.foreign[g]
    OBVIOUS
  <2> QED  BY <2>1, <2>2
<1>14. /\ t \in States /\ M \subseteq Blocks /\ t.pool = s.pool /\ t.hdr = s.hdr
       /\ X \subseteq PlacesOf(s, L)
  BY <1>1, <1>4, <1>6
<1>15. Shifted(s, L, t, M, X, Y)
  BY ONLY <1>8, <1>9, <1>10, <1>12, <1>13, <1>14 DEF Shifted
<1>16. Sound(t, M)
  BY <1>15, Moved
<1> QED  BY <1>1, <1>7, <1>16

\* A block in hand of another heap goes to the foreign list of h.
LEMMA ForeignIn ==
  ASSUME NEW s, NEW L, Sound(s, L), NEW h \in HeapId, NEW b \in L, NEW t,
         s.pool[b.p].owner # h, ForeignIs(s, t, h, s.foreign[h] \cup {b})
  PROVE  Sound(t, L \ {b})
<1> USE DEF ForeignIs
<1> DEFINE x == [in |-> "live", of |-> Main, b |-> b]
           y == [in |-> "foreign", of |-> h, b |-> b]
<1>1. x \in PlacesOf(s, L) /\ Fits(s.pool, b) /\ b \in Blocks
  BY SoundBlocks DEF Fits
<1>2. L \ {b} \subseteq Blocks /\ Main \in HeapId /\ y \in AllPlaces
  BY <1>1 DEF Sound, HeapId, AllPlaces
<1>6. b \notin s.foreign[h]
  <2>1. b \in s.foreign[h] => y \in PlacesOf(s, L)
    BY SoundBlocks
  <2> QED  BY <1>1, <2>1, OnePlace
<1>3. ASSUME NEW z PROVE z \in PlacesOf(t, L \ {b}) <=> (z \in PlacesOf(s, L) /\ z # x) \/ z = y
  <2>1. CASE z \notin AllPlaces
    BY <1>2, <2>1 DEF PlacesOf
  <2>2. CASE z \in AllPlaces
    <3>1. z.in \in {"live", "free", "slab", "foreign"} /\ z.of \in HeapId
          /\ z = [in |-> z.in, of |-> z.of, b |-> z.b]
      BY <2>2 DEF AllPlaces
    <3>2. CASE z.in = "foreign"
      <4>1. (z = y <=> z.of = h /\ z.b = b) /\ z # x
        BY <3>1, <3>2
      <4>2. z.b \in t.foreign[z.of] <=> z.b \in s.foreign[z.of] \/ (z.of = h /\ z.b = b)
        BY <3>1
      <4>3. z \in PlacesOf(t, L \ {b}) <=> z.b \in t.foreign[z.of]
        BY <2>2, <3>2 DEF PlacesOf
      <4>4. z \in PlacesOf(s, L) <=> z.b \in s.foreign[z.of]
        BY <2>2, <3>2 DEF PlacesOf
      <4> QED  BY <1>6, <4>1, <4>2, <4>3, <4>4
    <3>3. CASE z.in = "live"
      <4>1. (z = x <=> z.of = Main /\ z.b = b) /\ z # y
        BY <3>1, <3>3
      <4>2. z \in PlacesOf(t, L \ {b}) <=> z.of = Main /\ z.b \in (L \ {b})
        BY <2>2, <3>3 DEF PlacesOf
      <4>3. z \in PlacesOf(s, L) <=> z.of = Main /\ z.b \in L
        BY <2>2, <3>3 DEF PlacesOf
      <4> QED  BY <1>6, <4>1, <4>2, <4>3
    <3>4. CASE z.in \notin {"live", "foreign"}
      BY <2>2, <3>1, <3>4 DEF PlacesOf
    <3> QED  BY <3>2, <3>3, <3>4
  <2> QED  BY <2>1, <2>2
<1>4. AtHome(t)
  <2> SUFFICES ASSUME NEW g \in HeapId
               PROVE  /\ \A c \in t.free[g] \cup t.slab[g] : t.pool[c.p].owner = g
                      /\ \A c \in t.foreign[g] : t.pool[c.p].owner # g
                      /\ \A c \in t.free[g] : c.o \in t.avail[g]
    BY DEF AtHome
  <2>1. /\ \A c \in s.free[g] \cup s.slab[g] : s.pool[c.p].owner = g
        /\ \A c \in s.foreign[g] : s.pool[c.p].owner # g
        /\ \A c \in s.free[g] : c.o \in s.avail[g]
    BY DEF Sound, AtHome
  <2>2. \A c \in t.foreign[g] : c \in s.foreign[g] \/ (g = h /\ c = b)
    OBVIOUS
  <2> QED  BY <2>1, <2>2
<1>5. y.b = x.b /\ x.in # "free" /\ y.in # "free"
  OBVIOUS
<1> HIDE DEF x, y
<1> PICK M : M = L \ {b}
  OBVIOUS
<1>7. PlacesOf(t, M) = (PlacesOf(s, L) \ {x}) \cup {y}
  BY <1>3
<1>8. M \subseteq Blocks
  BY <1>2
<1>9. /\ t \in States /\ M \subseteq Blocks /\ t.pool = s.pool /\ t.hdr = s.hdr
      /\ {x} \subseteq PlacesOf(s, L) /\ AtHome(t)
      /\ \A v \in {x} : v.in # "free" /\ \E w \in {y} : w.b = v.b
      /\ \A w \in {y} : w.in # "free" /\ \E v \in {x} : v.b = w.b
      /\ \A v, w \in {y} : v.b = w.b => v = w
      /\ PlacesOf(t, M) = (PlacesOf(s, L) \ {x}) \cup {y}
  BY <1>1, <1>4, <1>5, <1>7, <1>8
<1>10. Shifted(s, L, t, M, {x}, {y})
  BY ONLY <1>9 DEF Shifted
<1>11. Sound(t, M)
  BY <1>10, Moved
<1> QED  BY <1>11

\* What does not look at the accounts does not change with them.
LEMMA Unaccounted ==
  ASSUME NEW s, NEW L, Sound(s, L), NEW t \in States,
         t.pool = s.pool, t.hdr = s.hdr, t.free = s.free, t.avail = s.avail,
         t.slab = s.slab, t.foreign = s.foreign
  PROVE  Sound(t, L)
<1>1. PlacesOf(t, L) = PlacesOf(s, L)
  BY DEF PlacesOf
<1>2. Headers(t, PlacesOf(t, L)) /\ AtHome(t)
  BY <1>1 DEF Sound, Headers, AtHome
<1> QED  BY <1>1, <1>2 DEF Sound

-----------------------------------------------------------------------------
(* The operators on the lists. *)

\* heap_insert_block changes one free list, and the headers of what it inserts.
LEMMA InsertFields ==
  ASSUME NEW s \in States, NEW h \in HeapId, NEW B, B \subseteq Blocks,
         \A b, c \in B : Addr(b) = Addr(c) => b = c
  PROVE  LET t == Insert(s, h, B) IN
           /\ t \in States
           /\ t.pool = s.pool /\ t.slab = s.slab /\ t.foreign = s.foreign /\ t.bytes = s.bytes
           /\ \A g \in HeapId : t.free[g] = s.free[g] \cup (IF g = h THEN B ELSE {})
           /\ \A g \in HeapId : t.avail[g] = s.avail[g] \cup (IF g = h THEN {b.o : b \in B} ELSE {})
           /\ \A b \in B : t.hdr[Addr(b)] = Header("free", b)
           /\ \A a \in Pool \X Offset : (\A b \in B : Addr(b) # a) => t.hdr[a] = s.hdr[a]
<1> DEFINE f == [s.free EXCEPT ![h] = @ \cup B]
           w == [a \in Pool \X Offset |->
                   IF \E b \in B : Addr(b) = a
                   THEN [rc |-> 0, o |-> (CHOOSE b \in B : Addr(b) = a).o]
                   ELSE s.hdr[a]]
           v == [s.avail EXCEPT ![h] = @ \cup {b.o : b \in B}]
           t == Insert(s, h, B)
<1>1. \A b \in B : b.o \in Order /\ Addr(b) \in Pool \X Offset
  BY BlockTypes
<1>2. f \in [HeapId -> SUBSET Blocks]
  BY DEF States
<1>3. v \in [HeapId -> SUBSET Order]
  <2>1. {b.o : b \in B} \subseteq Order
    BY <1>1
  <2> QED  BY <2>1 DEF States
<1>4. \A b \in B : (CHOOSE c \in B : Addr(c) = Addr(b)) = b
  OBVIOUS
<1>5. w \in [Pool \X Offset -> [rc : {0, 1}, o : Order]]
  <2>1. s.hdr \in [Pool \X Offset -> [rc : {0, 1}, o : Order]]
    BY DEF States
  <2>2. ASSUME NEW a \in Pool \X Offset PROVE w[a] \in [rc : {0, 1}, o : Order]
    <3>1. CASE \E b \in B : Addr(b) = a
      BY <1>1, <3>1
    <3>2. CASE ~\E b \in B : Addr(b) = a
      BY <2>1, <3>2
    <3> QED  BY <3>1, <3>2
  <2> QED  BY <2>2
<1>6. \A b \in B : w[Addr(b)] = Header("free", b)
  BY <1>1, <1>4 DEF Header
<1>7. \A a \in Pool \X Offset : (\A b \in B : Addr(b) # a) => w[a] = s.hdr[a]
  OBVIOUS
<1>8. \A g \in HeapId : f[g] = s.free[g] \cup (IF g = h THEN B ELSE {})
  BY DEF States
<1>9. \A g \in HeapId : v[g] = s.avail[g] \cup (IF g = h THEN {b.o : b \in B} ELSE {})
  BY DEF States
<1>10. t = [s EXCEPT !.free = f, !.hdr = w, !.avail = v]
  BY DEF Insert
<1> HIDE DEF f, w, v, t
<1>11. /\ t \in States /\ t.pool = s.pool /\ t.slab = s.slab /\ t.foreign = s.foreign
       /\ t.bytes = s.bytes /\ t.free = f /\ t.hdr = w /\ t.avail = v
  BY <1>2, <1>3, <1>5, <1>10 DEF States
<1> QED  BY <1>6, <1>7, <1>8, <1>9, <1>11 DEF t

\* fl_remove changes free lists, and bits of the caller's heap.
LEMMA RemoveFields ==
  ASSUME NEW s \in States, NEW h \in HeapId, NEW B
  PROVE  LET t == Remove(s, h, B) IN
           /\ t \in States
           /\ t.pool = s.pool /\ t.slab = s.slab /\ t.foreign = s.foreign /\ t.bytes = s.bytes
           /\ t.hdr = s.hdr
           /\ \A g \in HeapId : t.free[g] = s.free[g] \ B
           /\ \A g \in HeapId : t.avail[g] \subseteq s.avail[g]
           /\ \A g \in HeapId : \A b \in t.free[g] : b.o \in s.avail[g] => b.o \in t.avail[g]
<1> DEFINE f == [g \in HeapId |-> s.free[g] \ B]
           emptied == {o \in {b.o : b \in B} : \A c \in f[h] : c.o # o}
           v == [s.avail EXCEPT ![h] = @ \ emptied]
           t == Remove(s, h, B)
<1>1. f \in [HeapId -> SUBSET Blocks]
  BY DEF States
<1>2. v \in [HeapId -> SUBSET Order] /\ \A g \in HeapId : v[g] \subseteq s.avail[g]
  BY DEF States
<1>3. \A g \in HeapId : \A b \in f[g] : b.o \in s.avail[g] => b.o \in v[g]
  BY DEF States
<1>4. t = [s EXCEPT !.free = f, !.avail = v]
  BY DEF Remove
<1>5. \A g \in HeapId : f[g] = s.free[g] \ B
  OBVIOUS
<1> HIDE DEF f, v, t
<1>6. /\ t \in States /\ t.pool = s.pool /\ t.slab = s.slab /\ t.foreign = s.foreign
      /\ t.bytes = s.bytes /\ t.free = f /\ t.hdr = s.hdr /\ t.avail = v
  BY <1>1, <1>2, <1>4 DEF States
<1> QED  BY <1>2, <1>3, <1>5, <1>6 DEF t

\* Only the words of the block are forgotten.
LEMMA InsideFields ==
  ASSUME NEW s \in States, NEW b
  PROVE  LET t == Inside(s, b) IN
           /\ t \in States
           /\ t.pool = s.pool /\ t.slab = s.slab /\ t.foreign = s.foreign /\ t.bytes = s.bytes
           /\ t.free = s.free /\ t.avail = s.avail
           /\ \A a \in Pool \X Offset : ~Covers(b, a[1], a[2]) => t.hdr[a] = s.hdr[a]
<1> DEFINE w == [a \in Pool \X Offset |-> IF Covers(b, a[1], a[2]) THEN Interior ELSE s.hdr[a]]
           t == Inside(s, b)
<1>1. w \in [Pool \X Offset -> [rc : {0, 1}, o : Order]]
  <2>1. Interior \in [rc : {0, 1}, o : Order]
    BY HeapAssumption DEF Interior, Order
  <2> QED  BY <2>1 DEF States
<1>2. \A a \in Pool \X Offset : ~Covers(b, a[1], a[2]) => w[a] = s.hdr[a]
  OBVIOUS
<1>3. t = [s EXCEPT !.hdr = w]
  BY DEF Inside
<1> HIDE DEF w, t
<1>4. /\ t \in States /\ t.pool = s.pool /\ t.slab = s.slab /\ t.foreign = s.foreign
      /\ t.bytes = s.bytes /\ t.free = s.free /\ t.hdr = w /\ t.avail = s.avail
  BY <1>1, <1>3 DEF States
<1> QED  BY <1>2, <1>4 DEF t

-----------------------------------------------------------------------------
(* Merging. *)

\* A block is smaller than its pool, whose memory all has addresses.
LEMMA Smaller ==
  ASSUME NEW s \in States, NEW b, Fits(s.pool, b)
  PROVE  /\ b.p \in Pool /\ b.off \in Nat \ {0} /\ b.o \in Nat /\ Size[b.o] \in Nat \ {0}
         /\ s.pool[b.p].order \in Nat /\ b.o < s.pool[b.p].order /\ s.pool[b.p].order <= MaxOrder
         /\ MaxOrder \in Nat /\ b.off + Size[b.o] <= Size[s.pool[b.p].order]
         /\ Size[s.pool[b.p].order] \in Nat
         /\ \A u \in Nat : u < Size[s.pool[b.p].order] => u \in Offset
<1>1. b \in Blocks /\ b.off \in Nat \ {0} /\ Size[b.o] \in Nat \ {0}
      /\ s.pool[b.p].order \in Nat /\ s.pool[b.p].order <= MaxOrder
  BY FitsFacts
<1>2. b.p \in Pool /\ b.o \in Nat /\ MaxOrder \in Nat
  BY <1>1, BlockTypes, HeapAssumption
<1> PICK n \in Nat : n = s.pool[b.p].order
  BY <1>1
<1>3. Size[n] \in Nat /\ Size[n] <= Size[MaxOrder] /\ Size[MaxOrder] \in Nat
  BY <1>1, <1>2, SizeOrdered
<1>4. b.off + Size[b.o] <= Size[n]
  BY DEF Fits
<1>5. b.o < n
  <2>1. n <= b.o => Size[n] <= Size[b.o]
    BY <1>2, SizeOrdered
  <2> QED  BY <1>1, <1>2, <1>3, <1>4, <2>1
<1> QED  BY <1>1, <1>2, <1>3, <1>4, <1>5 DEF Offset

\* The header that is read for a merge is the header of a block: a buddy that reads as
\* free at order o is a block of that order on the free list of the pool's owner.
LEMMA BuddyBlock ==
  ASSUME NEW s, NEW L, Sound(s, L), NEW b \in L, NEW o \in Nat,
         b.o <= o, o < s.pool[b.p].order, BuddyFree(s, b, o)
  PROVE  /\ s.pool[b.p].owner \in HeapId
         /\ Block(b.p, Buddy(b.off, o), o) \in s.free[s.pool[b.p].owner]
<1> DEFINE P == PlacesOf(s, L)
<1> PICK p : p = b.p
  OBVIOUS
<1> PICK u : u = Buddy(b.off, o)
  OBVIOUS
<1> PICK n : n = s.pool[p].order
  OBVIOUS
<1> PICK a : a = Align(b.off, o + 1)
  OBVIOUS
<1>1. s \in States /\ Fits(s.pool, b) /\ [in |-> "live", of |-> Main, b |-> b] \in P
  BY SoundBlocks DEF Sound
<1>2. /\ p \in Pool /\ b.off \in Nat \ {0} /\ b.o \in Nat /\ Size[b.o] \in Nat \ {0} /\ n \in Nat
      /\ b.o < n /\ b.off + Size[b.o] <= Size[n] /\ Size[n] \in Nat
  BY <1>1, Smaller
<1>3. Size[o] \in Nat \ {0} /\ Size[o + 1] = 2 * Size[o] /\ o + 1 \in Nat
  BY SizeSteps
<1>4. Multiple(a, o + 1) /\ a \in Nat /\ On(a, o + 1, b.off)
  BY <1>2, <1>3, AlignFacts
<1>5. /\ \/ Align(b.off, o) = a /\ u = a + Size[o]
         \/ Align(b.off, o) = a + Size[o] /\ u = a
  BY <1>2, Halving
<1>6. u \in Nat /\ a <= u /\ u + Size[o] <= a + Size[o + 1]
  BY <1>3, <1>4, <1>5
<1>7. a + Size[o + 1] <= Size[n]
  <2>1. Multiple(0, n)
    <3>1. 0 = 0 * Size[n]
      BY <1>2
    <3> QED  BY <3>1 DEF Multiple
  <2>2. o + 1 <= n
    BY <1>2
  <2>3. a < 0 + Size[n] /\ 0 < a + Size[o + 1]
    BY <1>2, <1>3, <1>4 DEF On
  <2>4. a + Size[o + 1] <= 0 + Size[n]
    BY <1>2, <1>3, <1>4, <2>1, <2>2, <2>3, Nested
  <2> QED  BY <1>2, <2>4
<1>8. s.hdr[<<p, u>>] = [rc |-> 0, o |-> o]
  BY DEF BuddyFree
<1>9. s.pool[p] # Unmapped
  BY <1>1 DEF Fits
<1>10. u # 0
  <2>1. s.hdr[<<p, 0>>].rc = 1
    BY <1>2, <1>9 DEF Sound, Headers
  <2>2. [rc |-> 0, o |-> o].rc = 0
    OBVIOUS
  <2> QED  BY <1>8, <2>1, <2>2
<1>11. u \in 1 .. Size[n] - 1
  <2>1. PICK S \in Nat \ {0}, N \in Nat : S = Size[o] /\ N = Size[n]
    BY <1>2, <1>3
  <2>2. u + S <= a + 2 * S /\ a + 2 * S <= N
    BY <1>3, <1>6, <1>7, <2>1
  <2>3. u < N
    BY <1>4, <1>6, <2>2
  <2> QED  BY <1>6, <1>10, <2>1, <2>3
<1>12. PICK x \in P : Covers(x.b, p, u)
  BY <1>2, <1>9, <1>11 DEF Sound, Tiled
<1>13. Fits(s.pool, x.b) /\ x.b.p = p
  BY <1>12 DEF Sound, Tiled, Covers
<1>14. /\ x.b.off \in Nat \ {0} /\ x.b.o \in Nat /\ Size[x.b.o] \in Nat \ {0}
       /\ x.b.off <= u /\ u < x.b.off + Size[x.b.o] /\ Multiple(x.b.off, x.b.o)
  BY <1>1, <1>12, <1>13, Smaller DEF Fits, Covers
<1>15. Multiple(u, o)
  <2>1. Multiple(a, o)
    BY <1>3, <1>4, MultipleDown
  <2>2. PICK q \in Nat : a = q * Size[o]
    BY <2>1 DEF Multiple
  <2>3. (q + 1) * Size[o] = q * Size[o] + 1 * Size[o] /\ 1 * Size[o] = Size[o]
    BY <1>3, Distribute
  <2>4. q + 1 \in Nat /\ a + Size[o] = (q + 1) * Size[o]
    BY <2>2, <2>3
  <2> QED  BY <1>5, <2>1, <2>4 DEF Multiple
<1>16. ASSUME o < x.b.o PROVE FALSE
  <2>1. o + 1 <= x.b.o
    BY <1>14, <1>16
  <2>2. a < x.b.off + Size[x.b.o] /\ x.b.off < a + Size[o + 1]
    BY <1>3, <1>4, <1>6, <1>14
  <2>3. x.b.off <= a /\ a + Size[o + 1] <= x.b.off + Size[x.b.o]
    BY <1>3, <1>4, <1>14, <2>1, <2>2, Nested
  <2>4. Meet(b, x.b)
    BY <1>2, <1>3, <1>4, <1>13, <1>14, <2>3 DEF Meet, On
  <2>5. [in |-> "live", of |-> Main, b |-> b] = x
    BY <1>1, <2>4 DEF Sound, Tiled
  <2>6. x.b = b
    BY <2>5
  <2> QED  BY <1>2, <1>16, <2>6
<1>17. x.b.off = u
  <2>1. x.b.o <= o
    BY <1>14, <1>16
  <2>2. x.b.off < u + Size[o] /\ u < x.b.off + Size[x.b.o]
    BY <1>3, <1>6, <1>14
  <2>3. u <= x.b.off
    BY <1>14, <1>15, <2>1, <2>2, Nested
  <2> QED  BY <1>6, <1>14, <2>3
<1>18. Header(x.in, x.b) = [rc |-> 0, o |-> o]
  <2>1. s.hdr[Addr(x.b)] = Header(x.in, x.b)
    BY DEF Sound, Headers
  <2>2. Addr(x.b) = <<p, u>>
    BY <1>13, <1>17 DEF Addr
  <2> QED  BY <1>8, <2>1, <2>2
<1>19. x.in = "free" /\ x.b.o = o
  <2>1. Header(x.in, x.b).rc = 0 /\ Header(x.in, x.b).o = o
    BY <1>18
  <2> QED  BY <2>1 DEF Header
<1>20. x.of \in HeapId /\ x.b \in s.free[x.of] /\ x.b \in Blocks
  BY <1>19 DEF PlacesOf, AllPlaces
<1>21. s.pool[p].owner = x.of
  BY <1>13, <1>20 DEF Sound, AtHome
<1>22. x.b = Block(p, u, o)
  BY <1>13, <1>17, <1>19, <1>20, BlockTypes
<1> QED  BY <1>20, <1>21, <1>22

\* The order a merge stops at, and the blocks it joins.
LEMMA MergeLimitFacts ==
  ASSUME NEW s, NEW L, Sound(s, L), NEW b \in L
  PROVE  /\ MergeLimit(s, b) \in Nat /\ b.o <= MergeLimit(s, b)
         /\ MergeLimit(s, b) <= s.pool[b.p].order
         /\ \A o \in b.o .. MergeLimit(s, b) - 1 : BuddyFree(s, b, o)
<1> PICK n : n = s.pool[b.p].order
  OBVIOUS
<1>1. s \in States /\ Fits(s.pool, b)
  BY SoundBlocks DEF Sound
<1>2. b.o \in Nat /\ n \in Nat /\ b.o < n
  BY <1>1, Smaller
<1> DEFINE T == {k \in Nat : b.o <= k /\ k <= n /\ (k = n \/ ~BuddyFree(s, b, k))}
<1>3. n \in T
  BY <1>2
<1>4. PICK k \in T : \A y \in T : k <= y
  BY <1>3, LeastExists
<1>5. \A o \in b.o .. k - 1 : BuddyFree(s, b, o)
  <2> SUFFICES ASSUME NEW o \in b.o .. k - 1 PROVE BuddyFree(s, b, o)
    OBVIOUS
  <2>1. o \in Nat /\ b.o <= o /\ o <= n /\ ~(k <= o)
    BY <1>2, <1>4
  <2> QED  BY <1>4, <2>1
<1>6. k \in b.o .. n
  BY <1>2, <1>4
<1>7. \E l \in b.o .. n : /\ l = n \/ ~BuddyFree(s, b, l)
                          /\ \A o \in b.o .. l - 1 : BuddyFree(s, b, o)
  BY <1>4, <1>5, <1>6
<1>8. /\ MergeLimit(s, b) \in b.o .. n
      /\ \A o \in b.o .. MergeLimit(s, b) - 1 : BuddyFree(s, b, o)
  BY <1>7 DEF MergeLimit
<1> QED  BY <1>2, <1>8

\* A block in hand goes to the free list of its pool's owner, merged with its free
\* buddies when no dispatch runs.
LEMMA CoalesceSound ==
  ASSUME NEW s, NEW L, Sound(s, L), NEW b \in L, NEW h \in HeapId, s.pool[b.p].owner = h
  PROVE  LET t == Coalesce(s, h, b) IN
           /\ Sound(t, L \ {b})
           /\ t.pool = s.pool /\ t.slab = s.slab /\ t.foreign = s.foreign /\ t.bytes = s.bytes
<1> PICK t : t = Coalesce(s, h, b)
  OBVIOUS
<1> PICK M : M = L \ {b}
  OBVIOUS
<1>1. s \in States /\ Fits(s.pool, b) /\ b \in Blocks
  BY SoundBlocks DEF Sound, Fits
<1>2. CASE par
  <2>1. \A c, d \in {b} : Addr(c) = Addr(d) => c = d
    OBVIOUS
  <2>2. t = Insert(s, h, {b})
    BY <1>2 DEF Coalesce
  <2>3. /\ t \in States
        /\ t.pool = s.pool /\ t.slab = s.slab /\ t.foreign = s.foreign /\ t.bytes = s.bytes
        /\ \A g \in HeapId : t.free[g] = s.free[g] \cup (IF g = h THEN {b} ELSE {})
        /\ \A g \in HeapId : t.avail[g] = s.avail[g] \cup (IF g = h THEN {c.o : c \in {b}} ELSE {})
        /\ \A c \in {b} : t.hdr[Addr(c)] = Header("free", c)
        /\ \A a \in Pool \X Offset : (\A c \in {b} : Addr(c) # a) => t.hdr[a] = s.hdr[a]
    BY <1>1, <2>1, <2>2, InsertFields
  <2>4. \A g \in HeapId : \A c \in t.free[g] : c.o \in t.avail[g]
    BY <2>3 DEF Sound, AtHome
  <2>5. \A a \in Pool \X Offset : ~Covers(b, a[1], a[2]) => t.hdr[a] = s.hdr[a]
    <3>1. Covers(b, b.p, b.off) /\ Addr(b) = <<b.p, b.off>>
      BY <1>1, FitsFacts, BlockTypes
    <3> QED  BY <2>3, <3>1
  <2> PICK B, C, D, E : B = {} /\ C = {b} /\ D = {b} /\ E = {}
    OBVIOUS
  <2>6. /\ B \subseteq s.free[h] /\ D \subseteq L
        /\ \A g \in HeapId : t.free[g] = (s.free[g] \ B) \cup (IF g = h THEN C ELSE {})
        /\ M = (L \ D) \cup E
        /\ \A c \in C \cup E : Fits(s.pool, c)
        /\ \A c, d \in C \cup E : Meet(c, d) => c = d
        /\ C \cap E = {}
        /\ \A p \in Pool, u \in Nat :
             (\E c \in B \cup D : Covers(c, p, u)) <=> (\E c \in C \cup E : Covers(c, p, u))
        /\ \A c \in C : t.hdr[Addr(c)] = Header("free", c) /\ s.pool[c.p].owner = h
        /\ \A e \in E : t.hdr[Addr(e)] = Header("live", e)
        /\ \A a \in Pool \X Offset :
             (\A c \in C \cup E : ~Covers(c, a[1], a[2])) => t.hdr[a] = s.hdr[a]
    BY <1>1, <2>3, <2>5
  <2>7. t \in States /\ t.pool = s.pool /\ t.slab = s.slab /\ t.foreign = s.foreign
    BY <2>3
  <2>8. Exchanged(s, L, t, M, h, B, C, D, E)
    BY ONLY <2>4, <2>6, <2>7 DEF Exchanged
  <2>9. Sound(t, M)
    BY <2>8, Exchange
  <2> QED  BY <2>3, <2>9
<1>3. CASE ~par
  <2> PICK top : top = MergeLimit(s, b)
    OBVIOUS
  <2> PICK whole : whole = Block(b.p, Align(b.off, top), top)
    OBVIOUS
  <2> PICK B : B = Buddies(b, top)
    OBVIOUS
  <2> PICK r : r = Remove(s, h, B)
    OBVIOUS
  <2> PICK w : w = Inside(r, whole)
    OBVIOUS
  <2>1. t = Insert(w, h, {whole})
    BY <1>3 DEF Coalesce
  <2>2. /\ top \in Nat /\ b.o <= top /\ top <= s.pool[b.p].order
        /\ \A o \in b.o .. top - 1 : BuddyFree(s, b, o)
    BY MergeLimitFacts
  <2>3. /\ b.p \in Pool /\ b.off \in Nat \ {0} /\ b.o \in Nat /\ Size[b.o] \in Nat \ {0}
        /\ s.pool[b.p].order \in Nat /\ b.o < s.pool[b.p].order /\ s.pool[b.p].order <= MaxOrder
        /\ MaxOrder \in Nat /\ b.off + Size[b.o] <= Size[s.pool[b.p].order]
        /\ Size[s.pool[b.p].order] \in Nat
        /\ \A u \in Nat : u < Size[s.pool[b.p].order] => u \in Offset
    BY <1>1, Smaller
  <2>4. B \subseteq s.free[h]
    <3> SUFFICES ASSUME NEW o \in b.o .. top - 1
                 PROVE  Block(b.p, Buddy(b.off, o), o) \in s.free[h]
      BY DEF Buddies
    <3>1. o \in Nat /\ b.o <= o /\ o < s.pool[b.p].order /\ BuddyFree(s, b, o)
      BY <2>2, <2>3
    <3> QED  BY <3>1, BuddyBlock
  <2>5. whole.p = b.p /\ whole.off = Align(b.off, top) /\ whole.o = top
    BY DEF Block
  <2>6. Multiple(whole.off, whole.o) /\ whole.off \in Nat /\ Size[top] \in Nat \ {0}
    BY <2>2, <2>3, <2>5, AlignFacts, SizeSteps
  <2>7. ASSUME NEW p \in Pool, NEW u \in Nat
        PROVE  Covers(whole, p, u) <=> \E c \in B \cup {b} : Covers(c, p, u)
    <3>1. Multiple(b.off, b.o)
      BY <1>1 DEF Fits
    <3>2. On(whole.off, top, u) <=>
            On(b.off, b.o, u) \/ \E o \in b.o .. top - 1 : On(Buddy(b.off, o), o, u)
      BY <2>2, <2>3, <2>5, <3>1, MergeCovers
    <3>3. Covers(b, p, u) <=> b.p = p /\ On(b.off, b.o, u)
      BY DEF Covers, On
    <3>4. Covers(whole, p, u) <=> b.p = p /\ On(whole.off, top, u)
      BY <2>5 DEF Covers, On
    <3>5. (\E c \in B : Covers(c, p, u)) <=>
            b.p = p /\ \E o \in b.o .. top - 1 : On(Buddy(b.off, o), o, u)
      <4>1. \A o \in b.o .. top - 1 : Covers(Block(b.p, Buddy(b.off, o), o), p, u) <=>
                                        b.p = p /\ On(Buddy(b.off, o), o, u)
        BY DEF Covers, On, Block
      <4>2. B = {Block(b.p, Buddy(b.off, o), o) : o \in b.o .. top - 1}
        BY DEF Buddies
      <4> QED  BY <4>1, <4>2
    <3> QED  BY <3>2, <3>3, <3>4, <3>5
  <2>8. ASSUME NEW u \in Nat, Covers(whole, b.p, u)
        PROVE  u > 0 /\ u < Size[s.pool[b.p].order]
    <3>1. PICK c \in B \cup {b} : Covers(c, b.p, u)
      BY <2>3, <2>7, <2>8
    <3>2. Fits(s.pool, c)
      BY <1>1, <2>4, SoundBlocks
    <3>3. c.p = b.p /\ c.off \in Nat \ {0} /\ Size[c.o] \in Nat
          /\ c.off + Size[c.o] <= Size[s.pool[c.p].order]
      BY <1>1, <3>1, <3>2, Smaller DEF Covers
    <3>4. c.off <= u /\ u < c.off + Size[c.o]
      BY <3>1 DEF Covers
    <3> QED  BY <2>3, <3>3, <3>4
  <2>9. Covers(whole, b.p, whole.off)
    BY <2>5, <2>6 DEF Covers
  <2>10. whole.off > 0 /\ whole.off < Size[s.pool[b.p].order]
    BY <2>6, <2>8, <2>9
  <2>11. whole.off + Size[whole.o] <= Size[s.pool[b.p].order]
    <3>1. PICK u : u = whole.off + Size[top] - 1
      OBVIOUS
    <3>2. u \in Nat /\ Covers(whole, b.p, u)
      BY <2>5, <2>6, <3>1 DEF Covers
    <3>3. u < Size[s.pool[b.p].order]
      BY <2>8, <3>2
    <3> QED  BY <2>3, <2>5, <2>6, <3>1, <3>3
  <2>12. whole \in Blocks /\ Addr(whole) = <<whole.p, whole.off>>
    <3>1. top \in Order /\ Align(b.off, top) \in Offset
      BY <2>2, <2>3, <2>5, <2>6, <2>10 DEF Order
    <3> QED  BY <2>3, <3>1 DEF Blocks, Block, Addr
  <2>13. Fits(s.pool, whole)
    BY <1>1, <2>5, <2>6, <2>10, <2>11, <2>12 DEF Fits
  <2>14. /\ r \in States
         /\ r.pool = s.pool /\ r.slab = s.slab /\ r.foreign = s.foreign /\ r.bytes = s.bytes
         /\ r.hdr = s.hdr
         /\ \A g \in HeapId : r.free[g] = s.free[g] \ B
         /\ \A g \in HeapId : \A c \in r.free[g] : c.o \in s.avail[g] => c.o \in r.avail[g]
    BY <1>1, RemoveFields
  <2>15. /\ w \in States
         /\ w.pool = r.pool /\ w.slab = r.slab /\ w.foreign = r.foreign /\ w.bytes = r.bytes
         /\ w.free = r.free /\ w.avail = r.avail
         /\ \A a \in Pool \X Offset : ~Covers(whole, a[1], a[2]) => w.hdr[a] = r.hdr[a]
    BY <2>14, InsideFields
  <2>16. /\ t \in States
         /\ t.pool = w.pool /\ t.slab = w.slab /\ t.foreign = w.foreign /\ t.bytes = w.bytes
         /\ \A g \in HeapId : t.free[g] = w.free[g] \cup (IF g = h THEN {whole} ELSE {})
         /\ \A g \in HeapId : t.avail[g] = w.avail[g] \cup (IF g = h THEN {c.o : c \in {whole}} ELSE {})
         /\ \A c \in {whole} : t.hdr[Addr(c)] = Header("free", c)
         /\ \A a \in Pool \X Offset : (\A c \in {whole} : Addr(c) # a) => t.hdr[a] = w.hdr[a]
    <3>1. \A c, d \in {whole} : Addr(c) = Addr(d) => c = d
      OBVIOUS
    <3>2. {whole} \subseteq Blocks
      BY <2>12
    <3> QED  BY <2>1, <2>15, <3>1, <3>2, InsertFields
  <2>17. \A g \in HeapId : \A c \in t.free[g] : c.o \in t.avail[g]
    BY <2>14, <2>15, <2>16 DEF Sound, AtHome
  <2>18. \A a \in Pool \X Offset : ~Covers(whole, a[1], a[2]) => t.hdr[a] = s.hdr[a]
    BY <2>5, <2>9, <2>12, <2>14, <2>15, <2>16
  <2> PICK C, D, E : C = {whole} /\ D = {b} /\ E = {}
    OBVIOUS
  <2>19. /\ B \subseteq s.free[h] /\ D \subseteq L
         /\ \A g \in HeapId : t.free[g] = (s.free[g] \ B) \cup (IF g = h THEN C ELSE {})
         /\ M = (L \ D) \cup E
         /\ \A c \in C \cup E : Fits(s.pool, c)
         /\ \A c, d \in C \cup E : Meet(c, d) => c = d
         /\ C \cap E = {}
         /\ \A p \in Pool, u \in Nat :
              (\E c \in B \cup D : Covers(c, p, u)) <=> (\E c \in C \cup E : Covers(c, p, u))
         /\ \A c \in C : t.hdr[Addr(c)] = Header("free", c) /\ s.pool[c.p].owner = h
         /\ \A e \in E : t.hdr[Addr(e)] = Header("live", e)
         /\ \A a \in Pool \X Offset :
              (\A c \in C \cup E : ~Covers(c, a[1], a[2])) => t.hdr[a] = s.hdr[a]
    BY <1>1, <2>4, <2>5, <2>7, <2>13, <2>14, <2>15, <2>16, <2>18
  <2>20. t.pool = s.pool /\ t.slab = s.slab /\ t.foreign = s.foreign /\ t.bytes = s.bytes
    BY <2>14, <2>15, <2>16
  <2>21. t \in States
    BY <2>16
  <2>22. Exchanged(s, L, t, M, h, B, C, D, E)
    BY ONLY <2>17, <2>19, <2>20, <2>21 DEF Exchanged
  <2>23. Sound(t, M)
    BY <2>22, Exchange
  <2> QED  BY <2>20, <2>23
<1> QED  BY <1>2, <1>3

\* What does not look at the avail bits does not change with them.
LEMMA Rebooked ==
  ASSUME NEW s, NEW L, Sound(s, L), NEW t \in States,
         t.pool = s.pool, t.hdr = s.hdr, t.free = s.free, t.slab = s.slab, t.foreign = s.foreign,
         \A g \in HeapId : \A b \in t.free[g] : b.o \in t.avail[g]
  PROVE  Sound(t, L)
<1>1. PlacesOf(t, L) = PlacesOf(s, L)
  BY DEF PlacesOf
<1>2. Headers(t, PlacesOf(t, L)) /\ AtHome(t)
  BY <1>1 DEF Sound, Headers, AtHome
<1> QED  BY <1>1, <1>2 DEF Sound

-----------------------------------------------------------------------------
(* Splitting. *)

\* The pieces of a split block: where they lie, and what they cover.
LEMMA Halves ==
  ASSUME NEW pl, NEW p \in Pool, NEW off \in Nat, NEW k \in Nat, NEW i \in Nat, i <= k,
         Multiple(off, k), pl[p] # Unmapped, pl[p].order \in Nat, pl[p].order <= MaxOrder,
         off + Size[k] <= Size[pl[p].order],
         NEW C, C = RightHalves(Block(p, off, k), i), NEW left, left = Block(p, off, i)
  PROVE  /\ \A c \in C : Fits(pl, c) /\ c.p = p
         /\ off > 0 => Fits(pl, left)
         /\ \A c, d \in C \cup {left} : Meet(c, d) => c = d
         /\ left \notin C
         /\ \A q \in Pool, u \in Nat :
              Covers(Block(p, off, k), q, u) <=> \E c \in C \cup {left} : Covers(c, q, u)
<1> PICK n \in Nat : n = pl[p].order
  OBVIOUS
<1>1. C = {Block(p, off + Size[j], j) : j \in i .. k - 1}
  BY DEF RightHalves, Block
<1>2. MaxOrder \in Nat /\ Size[n] \in Nat /\ Size[n] <= Size[MaxOrder] /\ Size[MaxOrder] \in Nat
      /\ Size[k] \in Nat /\ Size[i] \in Nat \ {0} /\ Size[i] <= Size[k]
  BY HeapAssumption, SizeOrdered
<1>3. \A u \in Nat : u < Size[n] => u \in Offset
  BY <1>2 DEF Offset
<1>4. k <= MaxOrder
  <2>1. n < k => 2 * Size[n] <= Size[k]
    BY SizeGrows
  <2>2. n < k => FALSE
    <3>1. Size[n] \in Nat \ {0}
      BY SizeSteps
    <3> QED  BY <1>2, <2>1, <3>1
  <2> QED  BY <1>2, <2>2
<1>5. ASSUME NEW j \in i .. k - 1
      PROVE  /\ j \in Nat /\ i <= j /\ Size[j] \in Nat \ {0} /\ Size[j] + Size[j] <= Size[k]
             /\ Size[i] <= Size[j] /\ Fits(pl, Block(p, off + Size[j], j))
  <2>1. j \in Nat /\ i <= j /\ j < k
    OBVIOUS
  <2>2. Size[j] \in Nat \ {0} /\ 2 * Size[j] <= Size[k] /\ Size[i] <= Size[j]
    BY <2>1, SizeOrdered, SizeGrows
  <2>3. Size[j] + Size[j] <= Size[k]
    BY <1>2, <2>2
  <2>4. Multiple(off + Size[j], j)
    <3>1. Multiple(off, j)
      BY <2>1, MultipleDown
    <3>2. PICK q \in Nat : off = q * Size[j]
      BY <3>1 DEF Multiple
    <3>3. (q + 1) * Size[j] = q * Size[j] + 1 * Size[j] /\ 1 * Size[j] = Size[j]
      BY <2>2, Distribute
    <3>4. q + 1 \in Nat /\ off + Size[j] = (q + 1) * Size[j]
      BY <3>2, <3>3
    <3> QED  BY <3>4 DEF Multiple
  <2>5. off + Size[j] + Size[j] <= Size[n] /\ off + Size[j] > 0 /\ off + Size[j] \in Nat
        /\ off + Size[j] < Size[n]
    BY <1>2, <2>2, <2>3
  <2>6. Block(p, off + Size[j], j) \in Blocks
    <3>1. off + Size[j] \in Offset /\ j \in Order
      BY <1>2, <1>3, <1>4, <2>1, <2>5 DEF Order
    <3> QED  BY <3>1 DEF Blocks, Block
  <2> QED  BY <2>1, <2>2, <2>3, <2>4, <2>5, <2>6 DEF Fits, Block
<1>6. \A c \in C : Fits(pl, c) /\ c.p = p
  BY <1>1, <1>5 DEF Block
<1>7. ASSUME off > 0 PROVE Fits(pl, left)
  <2>1. Multiple(off, i)
    BY MultipleDown
  <2>2. off + Size[i] <= Size[n] /\ off < Size[n]
    BY <1>2
  <2>3. left \in Blocks
    <3>1. off \in Offset /\ i \in Order
      BY <1>2, <1>3, <1>4, <2>2 DEF Order
    <3> QED  BY <3>1 DEF Blocks, Block
  <2> QED  BY <1>7, <2>1, <2>2, <2>3 DEF Fits, Block
<1>8. ASSUME NEW c \in C PROVE ~Meet(c, left) /\ ~Meet(left, c) /\ c # left
  <2>1. PICK j \in i .. k - 1 : c = Block(p, off + Size[j], j)
    BY <1>1
  <2>2. Size[j] \in Nat \ {0} /\ Size[i] <= Size[j]
    BY <1>5
  <2>3. c.off = off + Size[j] /\ left.off = off /\ left.o = i
    BY <2>1 DEF Block
  <2> QED  BY <1>2, <2>2, <2>3 DEF Meet
<1>9. ASSUME NEW c \in C, NEW d \in C, Meet(c, d) PROVE c = d
  <2>1. PICK j \in i .. k - 1 : c = Block(p, off + Size[j], j)
    BY <1>1
  <2>2. PICK m \in i .. k - 1 : d = Block(p, off + Size[m], m)
    BY <1>1
  <2>3. j \in Nat /\ m \in Nat /\ Size[j] \in Nat /\ Size[m] \in Nat
    BY <1>5
  <2>4. off + Size[j] < off + Size[m] + Size[m] /\ off + Size[m] < off + Size[j] + Size[j]
    BY <1>9, <2>1, <2>2 DEF Meet, Block
  <2>5. (j < m => 2 * Size[j] <= Size[m]) /\ (m < j => 2 * Size[m] <= Size[j])
    BY <2>3, SizeGrows
  <2>6. ~(j < m) /\ ~(m < j)
    BY <2>3, <2>4, <2>5
  <2> QED  BY <2>1, <2>2, <2>3, <2>6
<1>10. ASSUME NEW q \in Pool, NEW u \in Nat
       PROVE  Covers(Block(p, off, k), q, u) <=> \E c \in C \cup {left} : Covers(c, q, u)
  <2>1. On(off, k, u) <=> On(off, i, u) \/ \E j \in i .. k - 1 : On(off + Size[j], j, u)
    BY HalvesCover
  <2>2. Covers(Block(p, off, k), q, u) <=> p = q /\ On(off, k, u)
    BY DEF Covers, On, Block
  <2>3. Covers(left, q, u) <=> p = q /\ On(off, i, u)
    BY DEF Covers, On, Block
  <2>4. \A j \in i .. k - 1 : Covers(Block(p, off + Size[j], j), q, u) <=>
                                p = q /\ On(off + Size[j], j, u)
    BY DEF Covers, On, Block
  <2>5. (\E c \in C : Covers(c, q, u)) <=> p = q /\ \E j \in i .. k - 1 : On(off + Size[j], j, u)
    BY <1>1, <2>4
  <2> QED  BY <2>1, <2>2, <2>3, <2>5
<1>11. \A c, d \in C \cup {left} : Meet(c, d) => c = d
  BY <1>8, <1>9
<1>12. left \notin C
  BY <1>8
<1> QED  BY <1>6, <1>7, <1>10, <1>11, <1>12

-----------------------------------------------------------------------------
(* Taking a block from the free lists. *)

\* The smallest order that is offered.
LEMMA OfferedMin ==
  ASSUME NEW s \in States, NEW h \in HeapId, NEW o \in Nat, Offered(s, h, o) # {}
  PROVE  /\ Min(Offered(s, h, o)) \in Offered(s, h, o) /\ Min(Offered(s, h, o)) \in Order
         /\ \A k \in Offered(s, h, o) : Min(Offered(s, h, o)) <= k
<1> PICK T : T = Offered(s, h, o)
  OBVIOUS
<1>1. T \subseteq Order
  BY DEF Offered, States
<1>2. T \subseteq Nat
  BY <1>1, HeapAssumption DEF Order
<1>3. \E x \in T : \A y \in T : x <= y
  BY <1>2, LeastExists
<1>4. Min(T) \in T /\ \A y \in T : Min(T) <= y
  BY <1>3 DEF Min
<1> QED  BY <1>1, <1>4

\* Only bits of orders without a free block are cleared.
LEMMA ClearStaleSound ==
  ASSUME NEW s, NEW L, Sound(s, L), NEW h \in HeapId, NEW o \in Nat, Offered(s, h, o) # {}
  PROVE  LET t == ClearStale(s, h, o) IN
           /\ Sound(t, L) /\ t.pool = s.pool /\ t.slab = s.slab /\ t.foreign = s.foreign
           /\ t.bytes = s.bytes /\ t.free = s.free /\ t.hdr = s.hdr
<1> PICK found : found = Min(Offered(s, h, o))
  OBVIOUS
<1>1. s \in States
  BY DEF Sound
<1>2. \A k \in Offered(s, h, o) : found <= k
  BY <1>1, OfferedMin
<1>3. found \in Nat
  BY <1>1, OfferedMin, HeapAssumption DEF Order
<1> DEFINE v == [s.avail EXCEPT ![h] = {k \in @ : ~(o <= k /\ k < found)}]
           t == ClearStale(s, h, o)
<1>4. t = [s EXCEPT !.avail = v]
  BY DEF ClearStale
<1>5. v \in [HeapId -> SUBSET Order]
  BY <1>1 DEF States
<1>6. ASSUME NEW g \in HeapId, NEW b \in s.free[g] PROVE b.o \in v[g]
  <2>1. b.o \in s.avail[g]
    BY DEF Sound, AtHome
  <2>2. CASE g = h
    <3>1. b.o \in Nat
      BY <1>1, BlockTypes DEF States
    <3>2. o <= b.o => b.o \in Offered(s, h, o)
      BY <2>1, <2>2, <3>1 DEF Offered
    <3>3. ~(o <= b.o /\ b.o < found)
      BY <1>2, <1>3, <3>1, <3>2
    <3> QED  BY <1>1, <2>1, <2>2, <3>3 DEF States
  <2>3. CASE g # h
    BY <1>1, <2>1, <2>3 DEF States
  <2> QED  BY <2>2, <2>3
<1> HIDE DEF v, t
<1>7. /\ t \in States /\ t.pool = s.pool /\ t.slab = s.slab /\ t.foreign = s.foreign
      /\ t.bytes = s.bytes /\ t.free = s.free /\ t.hdr = s.hdr /\ t.avail = v
  BY <1>1, <1>4, <1>5 DEF States
<1>8. Sound(t, L)
  BY <1>6, <1>7, Rebooked
<1> QED  BY <1>7, <1>8 DEF t

\* The header of a block that is handed out, and its owner's account.
LEMMA HandOutFields ==
  ASSUME NEW s \in States, NEW h \in HeapId, NEW b \in Blocks
  PROVE  LET t == HandOut(s, h, b) IN
           /\ t \in States
           /\ t.pool = s.pool /\ t.slab = s.slab /\ t.foreign = s.foreign
           /\ t.free = s.free /\ t.avail = s.avail
           /\ \A g \in HeapId : t.bytes[g] = s.bytes[g] + (IF g = h THEN Size[b.o] ELSE 0)
           /\ t.hdr[Addr(b)] = Header("live", b)
           /\ \A a \in Pool \X Offset : a # Addr(b) => t.hdr[a] = s.hdr[a]
<1> DEFINE w == [s.hdr EXCEPT ![Addr(b)] = [rc |-> 1, o |-> b.o]]
           y == [s.bytes EXCEPT ![h] = @ + Size[b.o]]
           t == HandOut(s, h, b)
<1>1. b.o \in Order /\ Addr(b) \in Pool \X Offset /\ Size[b.o] \in Nat
  BY BlockTypes
<1>2. w \in [Pool \X Offset -> [rc : {0, 1}, o : Order]]
  BY <1>1 DEF States
<1>3. w[Addr(b)] = Header("live", b) /\ \A a \in Pool \X Offset : a # Addr(b) => w[a] = s.hdr[a]
  BY <1>1 DEF States, Header
<1>4. s.bytes \in [HeapId -> Int]
  BY DEF States
<1>5. y \in [HeapId -> Int]
      /\ \A g \in HeapId : y[g] = s.bytes[g] + (IF g = h THEN Size[b.o] ELSE 0)
  BY <1>1, <1>4
<1>6. t = [s EXCEPT !.hdr = w, !.bytes = y]
  BY DEF HandOut
<1> HIDE DEF w, y, t
<1>7. /\ t \in States /\ t.pool = s.pool /\ t.slab = s.slab /\ t.foreign = s.foreign
      /\ t.bytes = y /\ t.free = s.free /\ t.hdr = w /\ t.avail = s.avail
  BY <1>2, <1>5, <1>6 DEF States
<1> QED  BY <1>3, <1>5, <1>7 DEF t

\* What taking a block from the free lists changes.
LEMMA TakeFromFields ==
  ASSUME NEW s, NEW L, Sound(s, L), NEW h \in HeapId, NEW o \in Nat, Offered(s, h, o) # {},
         NEW b, NEW left \in Blocks, left = Block(b.p, b.off, o), left.o = o,
         NEW C, C \subseteq Blocks, C = RightHalves(b, o),
         \A c, d \in C : Addr(c) = Addr(d) => c = d, \A c \in C : Addr(c) # Addr(left)
  PROVE  LET t == TakeFrom(s, h, o, b) IN
           /\ t \in States
           /\ t.pool = s.pool /\ t.slab = s.slab /\ t.foreign = s.foreign
           /\ \A g \in HeapId : t.free[g] = (s.free[g] \ {b}) \cup (IF g = h THEN C ELSE {})
           /\ \A g \in HeapId : \A c \in t.free[g] : c.o \in t.avail[g]
           /\ \A g \in HeapId : t.bytes[g] = s.bytes[g] + (IF g = h THEN Size[o] ELSE 0)
           /\ \A c \in C : t.hdr[Addr(c)] = Header("free", c)
           /\ t.hdr[Addr(left)] = Header("live", left)
           /\ \A a \in Pool \X Offset : (\A c \in C \cup {left} : Addr(c) # a) => t.hdr[a] = s.hdr[a]
<1>1. PICK t : t = TakeFrom(s, h, o, b)
  OBVIOUS
<1>2. PICK v : v = ClearStale(s, h, o)
  OBVIOUS
<1>3. PICK r : r = Remove(v, h, {b})
  OBVIOUS
<1>4. PICK w : w = Insert(r, h, C)
  OBVIOUS
<1>5. t = HandOut(w, h, left)
  BY <1>1, <1>2, <1>3, <1>4 DEF TakeFrom, Split
<1>6. /\ v \in States /\ v.pool = s.pool /\ v.slab = s.slab /\ v.foreign = s.foreign
      /\ v.bytes = s.bytes /\ v.free = s.free /\ v.hdr = s.hdr
      /\ \A g \in HeapId : \A c \in v.free[g] : c.o \in v.avail[g]
  BY <1>2, ClearStaleSound DEF Sound, AtHome
<1>7. /\ r \in States
      /\ r.pool = v.pool /\ r.slab = v.slab /\ r.foreign = v.foreign /\ r.bytes = v.bytes
      /\ r.hdr = v.hdr
      /\ \A g \in HeapId : r.free[g] = v.free[g] \ {b}
      /\ \A g \in HeapId : \A c \in r.free[g] : c.o \in v.avail[g] => c.o \in r.avail[g]
  BY <1>3, <1>6, RemoveFields
<1>8. /\ w \in States
      /\ w.pool = r.pool /\ w.slab = r.slab /\ w.foreign = r.foreign /\ w.bytes = r.bytes
      /\ \A g \in HeapId : w.free[g] = r.free[g] \cup (IF g = h THEN C ELSE {})
      /\ \A g \in HeapId : w.avail[g] = r.avail[g] \cup (IF g = h THEN {c.o : c \in C} ELSE {})
      /\ \A c \in C : w.hdr[Addr(c)] = Header("free", c)
      /\ \A a \in Pool \X Offset : (\A c \in C : Addr(c) # a) => w.hdr[a] = r.hdr[a]
  BY <1>4, <1>7, InsertFields
<1>9. /\ t \in States
      /\ t.pool = w.pool /\ t.slab = w.slab /\ t.foreign = w.foreign
      /\ t.free = w.free /\ t.avail = w.avail
      /\ \A g \in HeapId : t.bytes[g] = w.bytes[g] + (IF g = h THEN Size[left.o] ELSE 0)
      /\ t.hdr[Addr(left)] = Header("live", left)
      /\ \A a \in Pool \X Offset : a # Addr(left) => t.hdr[a] = w.hdr[a]
  BY <1>5, <1>8, HandOutFields
<1>10. t.pool = s.pool /\ t.slab = s.slab /\ t.foreign = s.foreign
  BY ONLY <1>6, <1>7, <1>8, <1>9
<1>11. \A g \in HeapId : t.free[g] = (s.free[g] \ {b}) \cup (IF g = h THEN C ELSE {})
  BY ONLY <1>6, <1>7, <1>8, <1>9
<1>12. \A g \in HeapId : \A c \in t.free[g] : c.o \in t.avail[g]
  BY ONLY <1>6, <1>7, <1>8, <1>9
<1>13. \A g \in HeapId : t.bytes[g] = s.bytes[g] + (IF g = h THEN Size[o] ELSE 0)
  BY <1>6, <1>7, <1>8, <1>9
<1>14. \A c \in C : t.hdr[Addr(c)] = Header("free", c)
  <2>1. \A c \in C : Addr(c) \in Pool \X Offset
    BY BlockTypes
  <2> QED  BY <1>8, <1>9, <2>1
<1>15. \A a \in Pool \X Offset : (\A c \in C \cup {left} : Addr(c) # a) => t.hdr[a] = s.hdr[a]
  BY <1>6, <1>7, <1>8, <1>9
<1> QED  BY <1>1, <1>9, <1>10, <1>11, <1>12, <1>13, <1>14, <1>15

\* A block is taken from h's free lists and cut down to the order that is asked for.
LEMMA TakeFromSound ==
  ASSUME NEW s, NEW L, Sound(s, L), NEW h \in HeapId, NEW o \in Nat,
         Offered(s, h, o) # {}, NEW b \in s.free[h], o <= b.o
  PROVE  LET t == TakeFrom(s, h, o, b)
             left == Block(b.p, b.off, o)
         IN /\ Sound(t, L \cup {left})
            /\ left \in Blocks /\ left.o = o /\ s.pool[left.p].owner = h
            /\ t.pool = s.pool /\ t.slab = s.slab /\ t.foreign = s.foreign
            /\ \A g \in HeapId : t.bytes[g] = s.bytes[g] + (IF g = h THEN Size[o] ELSE 0)
            /\ left \notin L /\ \A g \in HeapId : left \notin s.foreign[g]
<1> PICK t : t = TakeFrom(s, h, o, b)
  OBVIOUS
<1> PICK left : left = Block(b.p, b.off, o)
  OBVIOUS
<1> PICK M : M = L \cup {left}
  OBVIOUS
<1> PICK B, C, D, E : B = {b} /\ C = RightHalves(b, o) /\ D = {} /\ E = {left}
  OBVIOUS
<1>2. s \in States /\ Fits(s.pool, b) /\ b \in Blocks
      /\ [in |-> "free", of |-> h, b |-> b] \in PlacesOf(s, L)
  BY SoundBlocks DEF Sound, Fits
<1>3. /\ b.p \in Pool /\ b.off \in Nat \ {0} /\ b.o \in Nat /\ Size[b.o] \in Nat \ {0}
      /\ s.pool[b.p].order \in Nat /\ s.pool[b.p].order <= MaxOrder
      /\ b.off + Size[b.o] <= Size[s.pool[b.p].order]
  BY <1>2, Smaller
<1>4. Multiple(b.off, b.o) /\ s.pool[b.p] # Unmapped /\ b = Block(b.p, b.off, b.o)
  BY <1>2, BlockTypes DEF Fits
<1>5. /\ \A c \in C : Fits(s.pool, c) /\ c.p = b.p
      /\ b.off > 0 => Fits(s.pool, left)
      /\ \A c, d \in C \cup {left} : Meet(c, d) => c = d
      /\ left \notin C
      /\ \A q \in Pool, u \in Nat :
           Covers(Block(b.p, b.off, b.o), q, u) <=> \E c \in C \cup {left} : Covers(c, q, u)
  <2>1. PICK pl, p, off, k : pl = s.pool /\ p = b.p /\ off = b.off /\ k = b.o
    OBVIOUS
  <2>2. /\ p \in Pool /\ off \in Nat /\ k \in Nat /\ o \in Nat /\ o <= k
        /\ Multiple(off, k) /\ pl[p] # Unmapped /\ pl[p].order \in Nat /\ pl[p].order <= MaxOrder
        /\ off + Size[k] <= Size[pl[p].order]
        /\ C = RightHalves(Block(p, off, k), o) /\ left = Block(p, off, o)
    BY <1>3, <1>4, <2>1
  <2>3. /\ \A c \in C : Fits(pl, c) /\ c.p = p
        /\ off > 0 => Fits(pl, left)
        /\ \A c, d \in C \cup {left} : Meet(c, d) => c = d
        /\ left \notin C
        /\ \A q \in Pool, u \in Nat :
             Covers(Block(p, off, k), q, u) <=> \E c \in C \cup {left} : Covers(c, q, u)
    BY ONLY <2>2, Halves
  <2> QED  BY <2>1, <2>3
<1>6. left \in Blocks /\ Fits(s.pool, left) /\ left.p = b.p /\ left.off = b.off /\ left.o = o
  BY <1>3, <1>5 DEF Fits, Block
<1>7. s.pool[b.p].owner = h
  BY DEF Sound, AtHome
<1>8. C \subseteq Blocks /\ \A c, d \in C \cup {left} : Addr(c) = Addr(d) => c = d
  <2>1. C \cup {left} \subseteq Blocks
    BY <1>5, <1>6 DEF Fits
  <2>2. ASSUME NEW c \in C \cup {left}, NEW d \in C \cup {left}, Addr(c) = Addr(d) PROVE c = d
    <3>1. /\ c.off \in Nat /\ d.off \in Nat /\ Size[c.o] \in Nat \ {0} /\ Size[d.o] \in Nat \ {0}
          /\ c.p = d.p /\ c.off = d.off
      BY <2>1, <2>2, BlockTypes
    <3>2. Meet(c, d)
      BY <3>1 DEF Meet
    <3> QED  BY <1>5, <3>2
  <2> QED  BY <2>1, <2>2
<1>9. \A c \in C : Addr(c) # Addr(left)
  BY <1>5, <1>8
<1>10. /\ t \in States
       /\ t.pool = s.pool /\ t.slab = s.slab /\ t.foreign = s.foreign
       /\ \A g \in HeapId : t.free[g] = (s.free[g] \ {b}) \cup (IF g = h THEN C ELSE {})
       /\ \A g \in HeapId : \A c \in t.free[g] : c.o \in t.avail[g]
       /\ \A g \in HeapId : t.bytes[g] = s.bytes[g] + (IF g = h THEN Size[o] ELSE 0)
       /\ \A c \in C : t.hdr[Addr(c)] = Header("free", c)
       /\ t.hdr[Addr(left)] = Header("live", left)
       /\ \A a \in Pool \X Offset : (\A c \in C \cup {left} : Addr(c) # a) => t.hdr[a] = s.hdr[a]
  BY <1>6, <1>8, <1>9, TakeFromFields
<1>11. ASSUME NEW c \in C \cup E
       PROVE  Addr(c) = <<c.p, c.off>> /\ Covers(c, c.p, c.off)
  <2>1. Fits(s.pool, c) /\ c \in Blocks
    BY <1>5, <1>6 DEF Fits
  <2> QED  BY <1>2, <2>1, FitsFacts DEF Addr
<1>12. ASSUME NEW a \in Pool \X Offset, \A c \in C \cup E : ~Covers(c, a[1], a[2])
       PROVE  t.hdr[a] = s.hdr[a]
  <2>1. \A c \in C \cup {left} : Addr(c) # a
    BY <1>11, <1>12
  <2> QED  BY <1>10, <2>1
<1>13. \A p \in Pool, u \in Nat :
         (\E c \in B \cup D : Covers(c, p, u)) <=> (\E c \in C \cup E : Covers(c, p, u))
  BY <1>4, <1>5
<1>14. /\ B \subseteq s.free[h] /\ D \subseteq L /\ M = (L \ D) \cup E
       /\ \A c \in C \cup E : Fits(s.pool, c)
       /\ \A c, d \in C \cup E : Meet(c, d) => c = d
       /\ C \cap E = {}
       /\ \A c \in C : s.pool[c.p].owner = h
       /\ \A e \in E : t.hdr[Addr(e)] = Header("live", e)
       /\ \A g \in HeapId : t.free[g] = (s.free[g] \ B) \cup (IF g = h THEN C ELSE {})
  BY <1>5, <1>6, <1>7, <1>10
<1>15. Exchanged(s, L, t, M, h, B, C, D, E)
  BY ONLY <1>10, <1>12, <1>13, <1>14 DEF Exchanged
<1>16. Sound(t, M)
  BY <1>15, Exchange
<1>17. ASSUME NEW x \in PlacesOf(s, L), x.in # "free" PROVE x.b # left
  <2> SUFFICES ASSUME x.b = left PROVE FALSE
    OBVIOUS
  <2>1. Covers(left, b.p, b.off) /\ Covers(b, b.p, b.off) /\ b.off \in Nat
    BY <1>2, <1>6, FitsFacts
  <2>2. Meet(b, x.b)
    BY <1>2, <1>6, <2>1, UnitMeet
  <2>3. [in |-> "free", of |-> h, b |-> b] = x
    BY <1>2, <2>2 DEF Sound, Tiled
  <2> QED  BY <1>17, <2>3
<1>18. left \notin L
  <2>1. left \in L => [in |-> "live", of |-> Main, b |-> left] \in PlacesOf(s, L)
    BY SoundBlocks
  <2> QED  BY <1>17, <2>1
<1>19. ASSUME NEW g \in HeapId PROVE left \notin s.foreign[g]
  <2>1. left \in s.foreign[g] => [in |-> "foreign", of |-> g, b |-> left] \in PlacesOf(s, L)
    BY SoundBlocks
  <2> QED  BY <1>17, <2>1
<1> QED  BY <1>6, <1>7, <1>10, <1>16, <1>18, <1>19

-----------------------------------------------------------------------------
(* Pools come and go. *)

\* From s to t, pool p is mapped for h with the free blocks C.
Grown(s, t, h, p, C) ==
  /\ t \in States /\ s.pool[p] = Unmapped /\ t.pool[p] # Unmapped /\ t.pool[p].owner = h
  /\ \A q \in Pool : q # p => t.pool[q] = s.pool[q]
  /\ t.slab = s.slab /\ t.foreign = s.foreign
  /\ \A g \in HeapId : t.free[g] = s.free[g] \cup (IF g = h THEN C ELSE {})
  /\ \A g \in HeapId : \A c \in t.free[g] : c.o \in t.avail[g]
  /\ \A c \in C : Fits(t.pool, c) /\ c.p = p
  /\ \A c, d \in C : Meet(c, d) => c = d
  /\ \A u \in 1 .. Size[t.pool[p].order] - 1 : \E c \in C : Covers(c, p, u)
  /\ \A c \in C : t.hdr[Addr(c)] = Header("free", c)
  /\ t.hdr[<<p, 0>>].rc = 1
  /\ \A a \in Pool \X Offset : a[1] # p => t.hdr[a] = s.hdr[a]

\* The blocks of a new pool fill it.
LEMMA Growth ==
  ASSUME NEW s, NEW L, Sound(s, L), NEW t, NEW h \in HeapId, NEW p \in Pool, NEW C,
         Grown(s, t, h, p, C)
  PROVE  Sound(t, L)
<1> USE DEF Grown
<1>1. PICK P, Q : P = PlacesOf(s, L) /\ Q = PlacesOf(t, L)
  OBVIOUS
<1>2. PICK Y : Y = {y \in AllPlaces : y.in = "free" /\ y.of = h /\ y.b \in C}
  OBVIOUS
<1>3. s \in States /\ L \subseteq Blocks /\ Tiled(P, s.pool) /\ Headers(s, P) /\ AtHome(s)
  BY <1>1 DEF Sound
<1>4. ASSUME NEW x \in P PROVE Fits(t.pool, x.b) /\ x.b.p # p /\ x.b.p \in Pool /\ x.b \in Blocks
  <2>1. Fits(s.pool, x.b)
    BY <1>3 DEF Tiled
  <2>2. x.b.p # p /\ x.b.p \in Pool
    BY <2>1, BlockTypes DEF Fits
  <2> QED  BY <2>1, <2>2 DEF Fits
<1>5. ASSUME NEW x PROVE x \in Q <=> x \in P \/ x \in Y
  <2>1. CASE x \notin AllPlaces
    BY <1>1, <1>2, <2>1 DEF PlacesOf
  <2>2. CASE x \in AllPlaces
    <3>1. x.in \in {"live", "free", "slab", "foreign"} /\ x.of \in HeapId
      BY <2>2 DEF AllPlaces
    <3>2. CASE x.in = "free"
      <4>1. x.b \in t.free[x.of] <=> x.b \in s.free[x.of] \/ (x.of = h /\ x.b \in C)
        BY <3>1
      <4> QED  BY <1>1, <1>2, <2>2, <3>2, <4>1 DEF PlacesOf
    <3>3. CASE x.in # "free"
      BY <1>1, <1>2, <2>2, <3>1, <3>3 DEF PlacesOf
    <3> QED  BY <3>2, <3>3
  <2> QED  BY <2>1, <2>2
<1>6. ASSUME NEW c \in C PROVE \E y \in Y : y.b = c
  <2>1. c \in Blocks
    BY DEF Fits
  <2>2. [in |-> "free", of |-> h, b |-> c] \in Y
    BY <1>2, <2>1 DEF AllPlaces
  <2> QED  BY <2>2
<1>7. \A y \in Y : y.b \in C /\ y.in = "free"
  BY <1>2
<1>8. Tiled(Q, t.pool)
  <2>1. \A x \in Q : Fits(t.pool, x.b)
    BY <1>4, <1>5, <1>7
  <2>2. ASSUME NEW x \in Q, NEW y \in Q, Meet(x.b, y.b) PROVE x = y
    <3>1. x.b.p = y.b.p
      BY <2>2 DEF Meet
    <3>2. CASE x \in P /\ y \in P
      BY <1>3, <2>2, <3>2 DEF Tiled
    <3>3. CASE x \in Y /\ y \in Y
      <4>1. x.b = y.b
        BY <1>7, <2>2, <3>3
      <4> QED  BY <1>2, <3>3, <4>1 DEF AllPlaces
    <3> QED  BY <1>4, <1>5, <1>7, <3>1, <3>2, <3>3
  <2>3. ASSUME NEW q \in Pool, t.pool[q] # Unmapped, NEW u \in 1 .. Size[t.pool[q].order] - 1
        PROVE  \E x \in Q : Covers(x.b, q, u)
    <3>1. CASE q = p
      <4>1. PICK c \in C : Covers(c, p, u)
        BY <3>1
      <4>2. PICK y \in Y : y.b = c
        BY <1>6
      <4> QED  BY <1>5, <3>1, <4>1, <4>2
    <3>2. CASE q # p
      <4>1. t.pool[q] = s.pool[q]
        BY <3>2
      <4>2. PICK x \in P : Covers(x.b, q, u)
        BY <1>3, <2>3, <4>1 DEF Tiled
      <4> QED  BY <1>5, <4>2
    <3> QED  BY <3>1, <3>2
  <2> QED  BY <2>1, <2>2, <2>3 DEF Tiled
<1>9. Headers(t, Q)
  <2>1. ASSUME NEW x \in Q PROVE t.hdr[Addr(x.b)] = Header(x.in, x.b)
    <3>1. CASE x \in P
      <4>1. Addr(x.b) \in Pool \X Offset /\ Addr(x.b)[1] = x.b.p
        BY <1>4, <3>1, BlockTypes
      <4>2. t.hdr[Addr(x.b)] = s.hdr[Addr(x.b)]
        BY <1>4, <3>1, <4>1
      <4> QED  BY <1>3, <3>1, <4>2 DEF Headers
    <3>2. CASE x \in Y
      BY <1>7, <3>2
    <3> QED  BY <1>5, <3>1, <3>2
  <2>2. ASSUME NEW q \in Pool, t.pool[q] # Unmapped PROVE t.hdr[<<q, 0>>].rc = 1
    <3>1. CASE q # p
      <4>1. <<q, 0>> \in Pool \X Offset
        <5>1. Size[MaxOrder] \in Nat \ {0}
          BY HeapAssumption, SizeSteps
        <5> QED  BY <5>1 DEF Offset
      <4>2. t.hdr[<<q, 0>>] = s.hdr[<<q, 0>>] /\ s.pool[q] # Unmapped
        BY <2>2, <3>1, <4>1
      <4> QED  BY <1>3, <4>2 DEF Headers
    <3> QED  BY <3>1
  <2> QED  BY <2>1, <2>2 DEF Headers
<1>10. ASSUME NEW g \in HeapId
       PROVE  /\ \A b \in t.free[g] \cup t.slab[g] : t.pool[b.p].owner = g
              /\ \A b \in t.foreign[g] : t.pool[b.p].owner # g
  <2>1. ASSUME NEW b \in s.free[g] \cup s.slab[g] \cup s.foreign[g] PROVE t.pool[b.p] = s.pool[b.p]
    <3>1. \E x \in P : x.b = b
      <4>1. \E i \in {"free", "slab", "foreign"} : [in |-> i, of |-> g, b |-> b] \in P
        BY <1>1, SoundBlocks
      <4> QED  BY <4>1
    <3>2. b.p \in Pool /\ b.p # p
      BY <1>4, <3>1
    <3> QED  BY <3>2
  <2>2. /\ \A b \in s.free[g] \cup s.slab[g] : s.pool[b.p].owner = g
        /\ \A b \in s.foreign[g] : s.pool[b.p].owner # g
    BY <1>3 DEF AtHome
  <2>3. \A b \in t.free[g] : b \in s.free[g] \/ (g = h /\ b \in C)
    OBVIOUS
  <2> QED  BY <2>1, <2>2, <2>3
<1>11. AtHome(t)
  BY <1>10 DEF AtHome
<1> QED  BY <1>1, <1>3, <1>8, <1>9, <1>11 DEF Sound

\* The order of a new pool: room for the block that is asked for, and for the header.
LEMMA PoolOrders ==
  ASSUME NEW o \in Nat, PoolOrderFor(o) <= MaxOrder
  PROVE  /\ PoolOrderFor(o) \in Nat \ {0} /\ PoolOrderFor(o) \in PoolOrder .. MaxOrder
         /\ o < PoolOrderFor(o)
  BY HeapAssumption DEF PoolOrderFor

\* A new pool brings free blocks, one of which is large enough.
LEMMA AddPoolSound ==
  ASSUME NEW s, NEW L, Sound(s, L), NEW h \in HeapId, NEW p \in Pool, s.pool[p] = Unmapped,
         NEW o \in Nat, PoolOrderFor(o) <= MaxOrder
  PROVE  LET t == AddPool(s, h, p, o) IN
           /\ Sound(t, L) /\ t.slab = s.slab /\ t.foreign = s.foreign /\ t.bytes = s.bytes
           /\ \A q \in Pool : q # p => t.pool[q] = s.pool[q]
           /\ Offered(t, h, o) # {}
<1>1. PICK t : t = AddPool(s, h, p, o)
  OBVIOUS
<1>2. PICK po : po = PoolOrderFor(o)
  OBVIOUS
<1>3. po \in Nat \ {0} /\ po \in PoolOrder .. MaxOrder /\ o < po /\ po <= MaxOrder
  BY <1>2, PoolOrders
<1>4. PICK m : m = [s EXCEPT !.pool[p] = [owner |-> h, order |-> po],
                             !.hdr[<<p, 0>>] = [rc |-> 1, o |-> 0]]
  OBVIOUS
<1>5. PICK C : C = RightHalves(Block(p, 0, po), 0)
  OBVIOUS
<1>6. t = Insert(m, h, C)
  BY <1>1, <1>2, <1>4, <1>5 DEF AddPool, Split
<1>7. s \in States
  BY DEF Sound
<1>8. <<p, 0>> \in Pool \X Offset
  <2>1. Size[MaxOrder] \in Nat \ {0}
    BY HeapAssumption, SizeSteps
  <2> QED  BY <2>1 DEF Offset
<1>9. /\ m \in States /\ m.free = s.free /\ m.avail = s.avail /\ m.slab = s.slab
      /\ m.foreign = s.foreign /\ m.bytes = s.bytes
      /\ m.pool[p] = [owner |-> h, order |-> po] /\ \A q \in Pool : q # p => m.pool[q] = s.pool[q]
      /\ m.hdr[<<p, 0>>] = [rc |-> 1, o |-> 0]
      /\ \A a \in Pool \X Offset : a # <<p, 0>> => m.hdr[a] = s.hdr[a]
  <2>1. PICK np : np = [s.pool EXCEPT ![p] = [owner |-> h, order |-> po]]
    OBVIOUS
  <2>2. PICK w : w = [s.hdr EXCEPT ![<<p, 0>>] = [rc |-> 1, o |-> 0]]
    OBVIOUS
  <2>3. np \in [Pool -> [owner : HeapId, order : {0} \cup (PoolOrder .. MaxOrder)]]
    BY <1>3, <1>7, <2>1 DEF States
  <2>4. w \in [Pool \X Offset -> [rc : {0, 1}, o : Order]]
    <3>1. 0 \in Order
      BY HeapAssumption DEF Order
    <3> QED  BY <1>7, <2>2, <3>1 DEF States
  <2>5. np[p] = [owner |-> h, order |-> po] /\ \A q \in Pool : q # p => np[q] = s.pool[q]
    BY <1>7, <2>1 DEF States
  <2>6. w[<<p, 0>>] = [rc |-> 1, o |-> 0] /\ \A a \in Pool \X Offset : a # <<p, 0>> => w[a] = s.hdr[a]
    BY <1>7, <1>8, <2>2 DEF States
  <2>7. m = [s EXCEPT !.pool = np, !.hdr = w]
    BY <1>4, <2>1, <2>2
  <2>8. /\ m \in States /\ m.free = s.free /\ m.avail = s.avail /\ m.slab = s.slab
        /\ m.foreign = s.foreign /\ m.bytes = s.bytes /\ m.pool = np /\ m.hdr = w
    BY ONLY <1>7, <2>3, <2>4, <2>7 DEF States
  <2> QED  BY <2>5, <2>6, <2>8
<1>10. m.pool[p].owner = h /\ m.pool[p].order = po /\ m.pool[p] # Unmapped
  <2>1. m.pool[p].order # Unmapped.order
    BY <1>3, <1>9 DEF Unmapped
  <2> QED  BY <1>9, <2>1
<1>11. PICK left : left = Block(p, 0, 0)
  OBVIOUS
<1>12. /\ \A c \in C : Fits(m.pool, c) /\ c.p = p
       /\ \A c, d \in C \cup {left} : Meet(c, d) => c = d
       /\ left \notin C
       /\ \A q \in Pool, u \in Nat :
            Covers(Block(p, 0, po), q, u) <=> \E c \in C \cup {left} : Covers(c, q, u)
  <2>1. PICK pl, off, k, i : pl = m.pool /\ off = 0 /\ k = po /\ i = 0
    OBVIOUS
  <2>2. Multiple(off, k)
    <3>1. 0 = 0 * Size[k]
      BY <1>3, <2>1, SizeSteps
    <3> QED  BY <2>1, <3>1 DEF Multiple
  <2>3. off + Size[k] <= Size[pl[p].order]
    BY <1>3, <1>10, <2>1, SizeSteps
  <2>4. /\ p \in Pool /\ off \in Nat /\ k \in Nat /\ i \in Nat /\ i <= k
        /\ pl[p] # Unmapped /\ pl[p].order \in Nat /\ pl[p].order <= MaxOrder
        /\ C = RightHalves(Block(p, off, k), i) /\ left = Block(p, off, i)
    BY <1>3, <1>5, <1>10, <1>11, <2>1
  <2>5. /\ \A c \in C : Fits(pl, c) /\ c.p = p
        /\ \A c, d \in C \cup {left} : Meet(c, d) => c = d
        /\ left \notin C
        /\ \A q \in Pool, u \in Nat :
             Covers(Block(p, off, k), q, u) <=> \E c \in C \cup {left} : Covers(c, q, u)
    BY ONLY <2>2, <2>3, <2>4, Halves
  <2> QED  BY <2>1, <2>5
<1>13. C \subseteq Blocks /\ \A c, d \in C : Addr(c) = Addr(d) => c = d
  <2>1. C \subseteq Blocks
    BY <1>12 DEF Fits
  <2>2. ASSUME NEW c \in C, NEW d \in C, Addr(c) = Addr(d) PROVE c = d
    <3>1. /\ c.off \in Nat /\ d.off \in Nat /\ Size[c.o] \in Nat \ {0} /\ Size[d.o] \in Nat \ {0}
          /\ c.p = d.p /\ c.off = d.off
      BY <2>1, <2>2, BlockTypes
    <3>2. Meet(c, d)
      BY <3>1 DEF Meet
    <3> QED  BY <1>12, <3>2
  <2> QED  BY <2>1, <2>2
<1>14. /\ t \in States
       /\ t.pool = m.pool /\ t.slab = m.slab /\ t.foreign = m.foreign /\ t.bytes = m.bytes
       /\ \A g \in HeapId : t.free[g] = m.free[g] \cup (IF g = h THEN C ELSE {})
       /\ \A g \in HeapId : t.avail[g] = m.avail[g] \cup (IF g = h THEN {c.o : c \in C} ELSE {})
       /\ \A c \in C : t.hdr[Addr(c)] = Header("free", c)
       /\ \A a \in Pool \X Offset : (\A c \in C : Addr(c) # a) => t.hdr[a] = m.hdr[a]
  BY <1>6, <1>9, <1>13, InsertFields
<1>15. ASSUME NEW c \in C PROVE Addr(c)[1] = p /\ Addr(c) # <<p, 0>>
  <2>1. c.off > 0 /\ c.p = p
    BY <1>12 DEF Fits
  <2> QED  BY <2>1 DEF Addr
<1>16. \A a \in Pool \X Offset : a[1] # p => t.hdr[a] = s.hdr[a]
  BY <1>9, <1>14, <1>15
<1>17. t.hdr[<<p, 0>>].rc = 1
  <2>1. t.hdr[<<p, 0>>] = [rc |-> 1, o |-> 0]
    BY <1>8, <1>9, <1>14, <1>15
  <2> QED  BY <2>1
<1>18. ASSUME NEW u \in 1 .. Size[po] - 1 PROVE \E c \in C : Covers(c, p, u)
  <2>1. u \in Nat /\ Covers(Block(p, 0, po), p, u)
    <3>1. Size[po] \in Nat
      BY <1>3, SizeSteps
    <3> QED  BY <3>1 DEF Covers, Block
  <2>2. ~Covers(left, p, u)
    <3>1. Size[0] = 1
      BY SizeSteps
    <3> QED  BY <1>11, <2>1, <3>1 DEF Covers, Block
  <2> QED  BY <1>12, <2>1, <2>2
<1>19. \A g \in HeapId : \A c \in t.free[g] : c.o \in t.avail[g]
  BY <1>9, <1>14 DEF Sound, AtHome
<1>20. Grown(s, t, h, p, C)
  <2>1. /\ t.pool[p] # Unmapped /\ t.pool[p].owner = h /\ t.pool[p].order = po
        /\ \A q \in Pool : q # p => t.pool[q] = s.pool[q]
        /\ t.slab = s.slab /\ t.foreign = s.foreign /\ t \in States
        /\ \A g \in HeapId : t.free[g] = s.free[g] \cup (IF g = h THEN C ELSE {})
        /\ \A c \in C : t.hdr[Addr(c)] = Header("free", c)
        /\ \A c \in C : Fits(t.pool, c) /\ c.p = p
        /\ \A c, d \in C : Meet(c, d) => c = d
    BY <1>9, <1>10, <1>12, <1>14
  <2> QED  BY <1>16, <1>17, <1>18, <1>19, <2>1 DEF Grown
<1>21. Sound(t, L)
  BY <1>20, Growth
<1>22. Offered(t, h, o) # {}
  <2>1. PICK k : k = po - 1
    OBVIOUS
  <2>2. k \in Nat /\ k \in 0 .. po - 1 /\ o <= k
    BY <1>3, <2>1
  <2>3. PICK c : c = Block(p, 0 + Size[k], k)
    OBVIOUS
  <2>4. c \in C /\ c.o = k
    BY <1>5, <2>2, <2>3 DEF RightHalves, Block
  <2>5. c \in t.free[h] /\ k \in t.avail[h]
    BY <1>14, <1>19, <2>4
  <2>6. k \in Offered(t, h, o)
    BY <2>2, <2>4, <2>5 DEF Offered
  <2> QED  BY <2>6
<1>23. \A q \in Pool : q # p => t.pool[q] = s.pool[q]
  BY <1>9, <1>14
<1> QED  BY <1>1, <1>9, <1>14, <1>21, <1>22, <1>23

-----------------------------------------------------------------------------
(* Sums of sizes. *)

Units(B) == UNION {{b} \X (1 .. Size[b.o]) : b \in B}

\* What a sum counts.
LEMMA UnitsMember ==
  ASSUME NEW B, NEW z
  PROVE  z \in Units(B) <=> \E b \in B : \E i \in 1 .. Size[b.o] : z = <<b, i>>
<1>1. z \in Units(B) <=> \E b \in B : z \in {b} \X (1 .. Size[b.o])
  BY DEF Units
<1>2. \A b : z \in {b} \X (1 .. Size[b.o]) <=> \E i \in 1 .. Size[b.o] : z = <<b, i>>
  OBVIOUS
<1> QED  BY <1>1, <1>2

\* Blocks have finitely many units in all.
LEMMA UnitsFinite ==
  ASSUME NEW B, B \subseteq Blocks
  PROVE  IsFiniteSet(Units(B)) /\ Total(B) \in Nat /\ Total(B) = Cardinality(Units(B))
<1>1. MaxOrder \in Nat /\ MaxPools \in Nat
  BY HeapAssumption
<1>2. PICK N \in Nat : N = Size[MaxOrder]
  BY <1>1, SizeSteps
<1>3. PICK T1 : T1 = Pool \X Offset
  OBVIOUS
<1>4. PICK T2 : T2 = Order \X (1 .. N)
  OBVIOUS
<1>5. IsFiniteSet(Pool) /\ IsFiniteSet(Offset) /\ IsFiniteSet(Order) /\ IsFiniteSet(1 .. N)
  <2>1. \A a, b \in Int : IsFiniteSet(a .. b)
    BY FS_Interval
  <2>2. Pool = 1 .. MaxPools /\ Offset = 0 .. N - 1 /\ Order = 0 .. MaxOrder
    BY <1>2 DEF Pool, Offset, Order
  <2>3. MaxOrder \in Int /\ MaxPools \in Int /\ N \in Int /\ N - 1 \in Int /\ 0 \in Int /\ 1 \in Int
    BY <1>1
  <2>4. IsFiniteSet(1 .. MaxPools) /\ IsFiniteSet(0 .. N - 1) /\ IsFiniteSet(0 .. MaxOrder)
        /\ IsFiniteSet(1 .. N)
    BY ONLY <2>1, <2>3
  <2> QED  BY <2>2, <2>4
<1>6. IsFiniteSet(T1) /\ IsFiniteSet(T2)
  BY <1>3, <1>4, <1>5, FS_Product
<1>7. PICK T : T = T1 \X T2
  OBVIOUS
<1>8. IsFiniteSet(T)
  BY <1>6, <1>7, FS_Product
<1>9. PICK S : S = Units(B)
  OBVIOUS
<1>10. PICK f : f = [z \in S |-> <<<<z[1].p, z[1].off>>, <<z[1].o, z[2]>>>>]
  OBVIOUS
<1>11. ASSUME NEW z \in S
       PROVE  /\ z = <<z[1], z[2]>> /\ z[1] \in Blocks
              /\ z[1] = Block(z[1].p, z[1].off, z[1].o)
              /\ f[z] = <<<<z[1].p, z[1].off>>, <<z[1].o, z[2]>>>> /\ f[z] \in T
  <2>1. PICK b \in B : \E i \in 1 .. Size[b.o] : z = <<b, i>>
    BY <1>9, UnitsMember
  <2> PICK i \in 1 .. Size[b.o] : z = <<b, i>>
    BY <2>1
  <2>2. b \in Blocks /\ b.p \in Pool /\ b.off \in Offset /\ b.o \in Order /\ b = Block(b.p, b.off, b.o)
        /\ b.o \in Nat /\ b.o <= MaxOrder
    BY BlockTypes
  <2>3. Size[b.o] <= N /\ Size[b.o] \in Nat
    BY <1>1, <1>2, <2>2, SizeOrdered
  <2>4. i \in 1 .. N
    BY <2>3
  <2>5. <<b.p, b.off>> \in T1 /\ <<b.o, i>> \in T2
    BY <1>3, <1>4, <2>2, <2>4
  <2>6. f[z] = <<<<z[1].p, z[1].off>>, <<z[1].o, z[2]>>>>
    BY <1>10
  <2>7. f[z] = <<<<b.p, b.off>>, <<b.o, i>>>>
    BY <2>1, <2>6
  <2>8. f[z] \in T
    BY <1>7, <2>5, <2>7
  <2> QED  BY <2>1, <2>2, <2>6, <2>8
<1>12. f \in [S -> T]
  BY <1>10, <1>11
<1>13. ASSUME NEW y \in S, NEW z \in S, f[y] = f[z] PROVE y = z
  <2>1. /\ y[1].p = z[1].p /\ y[1].off = z[1].off /\ y[1].o = z[1].o /\ y[2] = z[2]
    BY <1>11, <1>13
  <2>2. y[1] = z[1]
    BY <1>11, <2>1
  <2> QED  BY <1>11, <2>1, <2>2
<1>14. f \in Injection(S, T)
  BY <1>12, <1>13 DEF Injection, IsInjective
<1>15. IsFiniteSet(S)
  BY <1>8, <1>14, FS_Injection
<1> QED  BY <1>9, <1>15, FS_CardinalityType DEF Total, Units

\* The sum of two disjoint sets of blocks.
LEMMA TotalUnion ==
  ASSUME NEW B, B \subseteq Blocks, NEW C, C \subseteq Blocks, B \cap C = {}
  PROVE  Total(B \cup C) = Total(B) + Total(C) /\ Total(B) \in Nat /\ Total(C) \in Nat
<1>1. Units(B \cup C) = Units(B) \cup Units(C)
  <2>1. \A z : z \in Units(B \cup C) <=> z \in Units(B) \/ z \in Units(C)
    BY UnitsMember
  <2> QED  BY <2>1
<1>2. Units(B) \cap Units(C) = {}
  <2> SUFFICES ASSUME NEW z, z \in Units(B), z \in Units(C) PROVE FALSE
    OBVIOUS
  <2>1. PICK b \in B : \E i \in 1 .. Size[b.o] : z = <<b, i>>
    BY UnitsMember
  <2> PICK i \in 1 .. Size[b.o] : z = <<b, i>>
    BY <2>1
  <2>2. PICK c \in C : \E j \in 1 .. Size[c.o] : z = <<c, j>>
    BY UnitsMember
  <2> PICK j \in 1 .. Size[c.o] : z = <<c, j>>
    BY <2>2
  <2>3. b = c
    BY <2>1, <2>2
  <2> QED  BY <2>3
<1>3. B \cup C \subseteq Blocks
  OBVIOUS
<1>4. IsFiniteSet(Units(B)) /\ IsFiniteSet(Units(C)) /\ Total(B) \in Nat /\ Total(C) \in Nat
      /\ Total(B) = Cardinality(Units(B)) /\ Total(C) = Cardinality(Units(C))
  BY UnitsFinite
<1>5. Total(B \cup C) = Cardinality(Units(B \cup C))
  BY <1>3, UnitsFinite
<1>6. Cardinality(Units(B) \cup Units(C)) =
        Cardinality(Units(B)) + Cardinality(Units(C)) - Cardinality(Units(B) \cap Units(C))
  BY <1>4, FS_Union
<1>7. Cardinality(Units(B) \cap Units(C)) = 0
  BY <1>2, FS_EmptySet
<1>8. PICK m \in Nat, n \in Nat : m = Total(B) /\ n = Total(C)
  BY <1>4
<1>9. Total(B \cup C) = m + n - 0
  BY ONLY <1>1, <1>4, <1>5, <1>6, <1>7, <1>8
<1> QED  BY <1>4, <1>8, <1>9

\* The sum of nothing, and of one block.
LEMMA TotalOne ==
  /\ Total({}) = 0
  /\ \A b \in Blocks : Total({b}) = Size[b.o]
<1>1. Total({}) = 0
  <2>1. Units({}) = {}
    BY DEF Units
  <2> QED  BY <2>1, FS_EmptySet DEF Total, Units
<1>2. ASSUME NEW b \in Blocks PROVE Total({b}) = Size[b.o]
  <2>1. PICK n \in Nat \ {0} : n = Size[b.o]
    BY BlockTypes
  <2>2. Units({b}) = {b} \X (1 .. n)
    BY <2>1 DEF Units
  <2>3. IsFiniteSet({b}) /\ Cardinality({b}) = 1
    BY FS_Singleton
  <2>4. IsFiniteSet(1 .. n) /\ Cardinality(1 .. n) = n
    BY FS_Interval
  <2>5. Cardinality({b} \X (1 .. n)) = Cardinality({b}) * Cardinality(1 .. n)
    BY <2>3, <2>4, FS_Product
  <2>6. Total({b}) = Cardinality(Units({b}))
    BY UnitsFinite
  <2>7. Total({b}) = 1 * n
    BY ONLY <2>2, <2>3, <2>4, <2>5, <2>6
  <2> QED  BY <2>1, <2>7
<1> QED  BY <1>1, <1>2

\* One block more.
LEMMA TotalAdd ==
  ASSUME NEW B, B \subseteq Blocks, NEW b \in Blocks, b \notin B
  PROVE  Total(B \cup {b}) = Total(B) + Size[b.o] /\ Total(B) \in Nat
<1>1. B \cap {b} = {} /\ {b} \subseteq Blocks
  OBVIOUS
<1> QED  BY <1>1, TotalUnion, TotalOne

\* Blocks that do not meet, in one pool, have no more units than the pool has behind
\* its header.
LEMMA TotalBounded ==
  ASSUME NEW B, B \subseteq Blocks, NEW p, NEW n \in Nat,
         \A b \in B : b.p = p /\ b.off > 0 /\ b.off + Size[b.o] <= n,
         \A b, c \in B : Meet(b, c) => b = c
  PROVE  Total(B) <= (IF n = 0 THEN 0 ELSE n - 1)
<1>1. PICK S : S = Units(B)
  OBVIOUS
<1>2. PICK T : T = 1 .. n - 1
  OBVIOUS
<1>3. PICK f : f = [z \in S |-> z[1].off + z[2] - 1]
  OBVIOUS
<1>4. ASSUME NEW z \in S
      PROVE  /\ z = <<z[1], z[2]>> /\ z[1] \in B /\ z[1] \in Blocks /\ z[2] \in 1 .. Size[z[1].o]
             /\ f[z] = z[1].off + z[2] - 1 /\ f[z] \in T /\ Covers(z[1], p, f[z])
  <2>1. PICK b \in B : \E i \in 1 .. Size[b.o] : z = <<b, i>>
    BY <1>1, UnitsMember
  <2> PICK i \in 1 .. Size[b.o] : z = <<b, i>>
    BY <2>1
  <2>2. b \in Blocks /\ b.off \in Nat /\ Size[b.o] \in Nat /\ i \in Nat
    BY BlockTypes
  <2>3. f[z] = b.off + i - 1
    BY <1>3, <2>1
  <2>4. b.off + i - 1 \in 1 .. n - 1
    BY <2>2
  <2>5. Covers(b, p, b.off + i - 1)
    BY <2>2 DEF Covers
  <2> QED  BY <1>2, <2>1, <2>3, <2>4, <2>5
<1>5. f \in [S -> T]
  BY <1>3, <1>4
<1>6. ASSUME NEW y \in S, NEW z \in S, f[y] = f[z] PROVE y = z
  <2>1. f[y] \in Nat
    BY <1>2, <1>4
  <2>2. Meet(y[1], z[1])
    BY <1>4, <1>6, <2>1, UnitMeet
  <2>3. y[1] = z[1]
    BY <1>4, <2>2
  <2>4. y[1].off \in Nat /\ y[2] \in Int /\ z[2] \in Int
    BY <1>4, BlockTypes
  <2>5. y[2] = z[2]
    BY <1>4, <1>6, <2>3, <2>4
  <2> QED  BY <1>4, <2>3, <2>5
<1>7. f \in Injection(S, T)
  BY <1>5, <1>6 DEF Injection, IsInjective
<1>8. IsFiniteSet(T) /\ Cardinality(T) = IF 1 > n - 1 THEN 0 ELSE n - 1
  <2>1. 1 \in Int /\ n - 1 \in Int
    OBVIOUS
  <2>2. Cardinality(1 .. n - 1) = IF 1 > n - 1 THEN 0 ELSE (n - 1) - 1 + 1
    BY <2>1, FS_Interval
  <2> QED  BY <1>2, <2>1, <2>2, FS_Interval
<1>9. Cardinality(S) <= Cardinality(T)
  BY <1>7, <1>8, FS_Injection
<1>10. Total(B) = Cardinality(S) /\ Total(B) \in Nat
  BY <1>1, UnitsFinite
<1> QED  BY <1>8, <1>9, <1>10

-----------------------------------------------------------------------------
(* Reclaiming pools. *)

\* A pool that is given back has all of its memory in the lists of its owner.
LEMMA ReclaimableEmpty ==
  ASSUME NEW s, NEW L, Sound(s, L), NEW p \in Pool, Reclaimable(s, p),
         NEW x \in PlacesOf(s, L), x.b.p = p
  PROVE  x.of = s.pool[p].owner /\ x.in \in {"free", "slab"}
<1>1. PICK h : h = s.pool[p].owner
  OBVIOUS
<1>2. PICK n : n = Size[s.pool[p].order]
  OBVIOUS
<1>3. s \in States /\ Tiled(PlacesOf(s, L), s.pool)
  BY DEF Sound
<1>4. h \in HeapId
  BY <1>1, <1>3 DEF States
<1>5. PICK F, G : F = In(p, s.free[h]) /\ G = In(p, s.slab[h])
  OBVIOUS
<1>6. F \subseteq s.free[h] /\ G \subseteq s.slab[h] /\ F \subseteq Blocks /\ G \subseteq Blocks
      /\ \A b \in F \cup G : b.p = p
  BY <1>3, <1>4, <1>5 DEF In, States
<1>7. SUFFICES ASSUME ~(x.of = h /\ x.in \in {"free", "slab"}) PROVE FALSE
  BY <1>1
<1>8. ASSUME NEW b \in F
      PROVE  Fits(s.pool, b) /\ [in |-> "free", of |-> h, b |-> b] \in PlacesOf(s, L)
  BY <1>4, <1>6, SoundBlocks
<1>9. ASSUME NEW b \in G
      PROVE  Fits(s.pool, b) /\ [in |-> "slab", of |-> h, b |-> b] \in PlacesOf(s, L)
  BY <1>4, <1>6, SoundBlocks
<1>10. ASSUME NEW b \in F, NEW c \in G PROVE b # c
  BY <1>8, <1>9, OnePlace
<1>11. ASSUME NEW b \in F \cup G PROVE b # x.b
  <2>1. PICK i \in {"free", "slab"} : [in |-> i, of |-> h, b |-> b] \in PlacesOf(s, L)
    BY <1>8, <1>9
  <2>2. PICK y : y = [in |-> i, of |-> h, b |-> b]
    OBVIOUS
  <2>3. y \in PlacesOf(s, L) /\ y.b = b /\ y # x
    BY <1>7, <2>1, <2>2
  <2> QED  BY <2>3, OnePlace
<1>12. x.b \in Blocks /\ Fits(s.pool, x.b)
  BY <1>3 DEF Tiled, Fits
<1>13. PICK B : B = (F \cup G) \cup {x.b}
  OBVIOUS
<1>14. \A b \in B : Fits(s.pool, b) /\ b.p = p /\ \E y \in PlacesOf(s, L) : y.b = b
  <2>1. \A b \in F \cup G : \E y \in PlacesOf(s, L) : y.b = b
    <3>1. \A b \in F : [in |-> "free", of |-> h, b |-> b].b = b
      OBVIOUS
    <3>2. \A b \in G : [in |-> "slab", of |-> h, b |-> b].b = b
      OBVIOUS
    <3> QED  BY <1>8, <1>9, <3>1, <3>2
  <2> QED  BY <1>6, <1>8, <1>9, <1>12, <1>13, <2>1
<1>15. ASSUME NEW b \in B, NEW c \in B, Meet(b, c) PROVE b = c
  BY <1>3, <1>14, <1>15 DEF Tiled
<1>16. n \in Nat /\ n # 0 /\ \A b \in B : b.off > 0 /\ b.off + Size[b.o] <= n
  <2>1. Size[s.pool[p].order] \in Nat \ {0}
    <3>1. s.pool[p].order \in Nat
      BY <1>3, <1>12, Smaller
    <3> QED  BY <3>1, SizeSteps
  <2> QED  BY <1>2, <1>14, <2>1 DEF Fits
<1>17. B \subseteq Blocks
  BY <1>6, <1>12, <1>13
<1>18. Total(B) <= n - 1
  <2>1. Total(B) <= IF n = 0 THEN 0 ELSE n - 1
    BY <1>14, <1>15, <1>16, <1>17, TotalBounded
  <2> QED  BY <1>16, <2>1
<1>19. Total(F \cup G) = Total(F) + Total(G) /\ Total(F) \in Nat /\ Total(G) \in Nat
  <2>1. F \cap G = {}
    BY <1>10
  <2> QED  BY <1>6, <2>1, TotalUnion
<1>20. Total(B) = Total(F \cup G) + Size[x.b.o] /\ Size[x.b.o] \in Nat \ {0}
  <2>1. F \cup G \subseteq Blocks /\ x.b \notin F \cup G
    BY <1>6, <1>11
  <2> QED  BY <1>12, <1>13, <2>1, TotalAdd, BlockTypes
<1>21. Total(F) + Total(G) >= n - 1
  BY <1>1, <1>2, <1>5 DEF Reclaimable
<1> QED  BY <1>16, <1>18, <1>19, <1>20, <1>21

\* Such a pool goes with its blocks.
LEMMA UnmapSound ==
  ASSUME NEW s, NEW L, Sound(s, L), NEW p \in Pool, s.pool[p] # Unmapped, Reclaimable(s, p)
  PROVE  LET t == Unmap(s, p) IN
           /\ Sound(t, L) /\ t.foreign = s.foreign /\ t.bytes = s.bytes
           /\ \A q \in Pool : q # p => t.pool[q] = s.pool[q]
           /\ \A x \in PlacesOf(s, L) : x.in \in {"live", "foreign"} => x.b.p # p
<1>1. PICK t : t = Unmap(s, p)
  OBVIOUS
<1>2. PICK h : h = s.pool[p].owner
  OBVIOUS
<1>3. PICK P, Q : P = PlacesOf(s, L) /\ Q = PlacesOf(t, L)
  OBVIOUS
<1>4. s \in States /\ L \subseteq Blocks /\ Tiled(P, s.pool) /\ Headers(s, P) /\ AtHome(s)
  BY <1>3 DEF Sound
<1>5. h \in HeapId
  BY <1>2, <1>4 DEF States
<1>6. \A x \in P : x.b.p = p => x.of = h /\ x.in \in {"free", "slab"}
  BY <1>2, <1>3, ReclaimableEmpty
<1>7. PICK whole : whole = Block(p, 0, s.pool[p].order)
  OBVIOUS
<1>8. PICK w : w = Inside(s, whole)
  OBVIOUS
<1>9. PICK B : B = In(p, s.free[h])
  OBVIOUS
<1>10. PICK r : r = Remove(w, h, B)
  OBVIOUS
<1>11. t = [r EXCEPT !.pool[p] = Unmapped, !.slab[h] = @ \ In(p, @)]
  <2>1. w.free = s.free
    BY <1>4, <1>8, InsideFields
  <2> QED  BY <1>1, <1>2, <1>7, <1>8, <1>9, <1>10 DEF Unmap
<1>12. /\ w \in States
       /\ w.pool = s.pool /\ w.slab = s.slab /\ w.foreign = s.foreign /\ w.bytes = s.bytes
       /\ w.free = s.free /\ w.avail = s.avail
       /\ \A a \in Pool \X Offset : ~Covers(whole, a[1], a[2]) => w.hdr[a] = s.hdr[a]
  BY <1>4, <1>8, InsideFields
<1>13. /\ r \in States
       /\ r.pool = w.pool /\ r.slab = w.slab /\ r.foreign = w.foreign /\ r.bytes = w.bytes
       /\ r.hdr = w.hdr
       /\ \A g \in HeapId : r.free[g] = w.free[g] \ B
       /\ \A g \in HeapId : \A b \in r.free[g] : b.o \in w.avail[g] => b.o \in r.avail[g]
  BY <1>5, <1>10, <1>12, RemoveFields
<1>14. /\ t \in States
       /\ t.foreign = r.foreign /\ t.bytes = r.bytes /\ t.free = r.free /\ t.avail = r.avail
       /\ t.hdr = r.hdr /\ t.pool[p] = Unmapped
       /\ \A q \in Pool : q # p => t.pool[q] = r.pool[q]
       /\ \A g \in HeapId : t.slab[g] = IF g = h THEN r.slab[g] \ In(p, r.slab[g]) ELSE r.slab[g]
  <2>1. PICK np : np = [r.pool EXCEPT ![p] = Unmapped]
    OBVIOUS
  <2>2. PICK v : v = [r.slab EXCEPT ![h] = @ \ In(p, @)]
    OBVIOUS
  <2>3. np \in [Pool -> [owner : HeapId, order : {0} \cup (PoolOrder .. MaxOrder)]]
    <3>1. Unmapped \in [owner : HeapId, order : {0} \cup (PoolOrder .. MaxOrder)]
      BY DEF Unmapped, HeapId
    <3> QED  BY <1>13, <2>1, <3>1 DEF States
  <2>4. v \in [HeapId -> SUBSET Blocks]
    BY <1>13, <2>2 DEF States
  <2>5. np[p] = Unmapped /\ \A q \in Pool : q # p => np[q] = r.pool[q]
    BY <1>13, <2>1 DEF States
  <2>6. \A g \in HeapId : v[g] = IF g = h THEN r.slab[g] \ In(p, r.slab[g]) ELSE r.slab[g]
    BY <1>13, <2>2 DEF States
  <2>7. t = [r EXCEPT !.pool = np, !.slab = v]
    BY <1>11, <2>1, <2>2
  <2>8. /\ t \in States /\ t.free = r.free /\ t.avail = r.avail /\ t.slab = v
        /\ t.foreign = r.foreign /\ t.bytes = r.bytes /\ t.pool = np /\ t.hdr = r.hdr
    BY ONLY <1>13, <2>3, <2>4, <2>7 DEF States
  <2> QED  BY <2>5, <2>6, <2>8
<1>15. ASSUME NEW x PROVE x \in Q <=> x \in P /\ x.b.p # p
  <2>1. CASE x \notin AllPlaces
    BY <1>3, <2>1 DEF PlacesOf
  <2>2. CASE x \in AllPlaces
    <3>1. x.in \in {"live", "free", "slab", "foreign"} /\ x.of \in HeapId
      BY <2>2 DEF AllPlaces
    <3>2. CASE x.in = "free"
      <4>1. x.b \in t.free[x.of] <=> x.b \in s.free[x.of] /\ ~(x.b \in s.free[h] /\ x.b.p = p)
        BY <1>9, <1>12, <1>13, <1>14, <3>1 DEF In
      <4>2. x \in Q <=> x.b \in t.free[x.of]
        BY <1>3, <2>2, <3>2 DEF PlacesOf
      <4>3. x \in P <=> x.b \in s.free[x.of]
        BY <1>3, <2>2, <3>2 DEF PlacesOf
      <4>4. x \in P /\ x.b.p = p => x.of = h
        BY <1>6
      <4> QED  BY <4>1, <4>2, <4>3, <4>4
    <3>3. CASE x.in = "slab"
      <4>1. x.b \in t.slab[x.of] <=> x.b \in s.slab[x.of] /\ ~(x.of = h /\ x.b.p = p)
        <5>1. t.slab[x.of] = IF x.of = h THEN s.slab[x.of] \ In(p, s.slab[x.of]) ELSE s.slab[x.of]
          BY <1>12, <1>13, <1>14, <3>1
        <5> QED  BY <5>1 DEF In
      <4>2. x \in Q <=> x.b \in t.slab[x.of]
        BY <1>3, <2>2, <3>3 DEF PlacesOf
      <4>3. x \in P <=> x.b \in s.slab[x.of]
        BY <1>3, <2>2, <3>3 DEF PlacesOf
      <4>4. x \in P /\ x.b.p = p => x.of = h
        BY <1>6
      <4> QED  BY <4>1, <4>2, <4>3, <4>4
    <3>4. CASE x.in \in {"live", "foreign"}
      <4>1. x \in Q <=> x \in P
        BY <1>3, <1>12, <1>13, <1>14, <2>2, <3>4 DEF PlacesOf
      <4>2. x \in P => x.b.p # p
        BY <1>6, <3>4
      <4> QED  BY <4>1, <4>2
    <3> QED  BY <3>1, <3>2, <3>3, <3>4
  <2> QED  BY <2>1, <2>2
<1>16. t.pool = [s.pool EXCEPT ![p] = Unmapped] /\ DOMAIN s.pool = Pool
  <2>1. t.pool \in [Pool -> [owner : HeapId, order : {0} \cup (PoolOrder .. MaxOrder)]]
        /\ s.pool \in [Pool -> [owner : HeapId, order : {0} \cup (PoolOrder .. MaxOrder)]]
    BY <1>4, <1>14 DEF States
  <2>2. \A q \in Pool : t.pool[q] = IF q = p THEN Unmapped ELSE s.pool[q]
    BY <1>12, <1>13, <1>14
  <2> QED  BY <2>1, <2>2
<1>17. Tiled(Q, t.pool)
  BY <1>4, <1>15, <1>16, UnmapPool
<1>18. ASSUME NEW x \in Q
       PROVE  x \in P /\ x.b.p # p /\ x.b \in Blocks /\ x.b.p \in Pool /\ Addr(x.b) \in Pool \X Offset
              /\ Addr(x.b)[1] = x.b.p
  <2>1. x \in P /\ x.b.p # p
    BY <1>15
  <2>2. x.b \in Blocks
    BY <1>3, <2>1 DEF PlacesOf, AllPlaces
  <2> QED  BY <2>1, <2>2, BlockTypes
<1>19. \A a \in Pool \X Offset : a[1] # p => t.hdr[a] = s.hdr[a]
  BY <1>7, <1>12, <1>13, <1>14 DEF Covers, Block
<1>20. Headers(t, Q)
  <2>1. ASSUME NEW x \in Q PROVE t.hdr[Addr(x.b)] = Header(x.in, x.b)
    <3>1. t.hdr[Addr(x.b)] = s.hdr[Addr(x.b)]
      BY <1>18, <1>19
    <3> QED  BY <1>4, <1>18, <3>1 DEF Headers
  <2>2. ASSUME NEW q \in Pool, t.pool[q] # Unmapped PROVE t.hdr[<<q, 0>>].rc = 1
    <3>1. <<q, 0>> \in Pool \X Offset
      <4>1. Size[MaxOrder] \in Nat \ {0}
        BY HeapAssumption, SizeSteps
      <4> QED  BY <4>1 DEF Offset
    <3>2. q # p
      BY <1>14, <2>2
    <3>3. t.hdr[<<q, 0>>] = s.hdr[<<q, 0>>] /\ s.pool[q] # Unmapped
      BY <1>12, <1>13, <1>14, <1>19, <2>2, <3>1, <3>2
    <3> QED  BY <1>4, <3>3 DEF Headers
  <2> QED  BY <2>1, <2>2 DEF Headers
<1>21. ASSUME NEW g \in HeapId
       PROVE  /\ \A b \in t.free[g] \cup t.slab[g] : t.pool[b.p].owner = g
              /\ \A b \in t.foreign[g] : t.pool[b.p].owner # g
              /\ \A b \in t.free[g] : b.o \in t.avail[g]
  <2>1. ASSUME NEW b \in t.free[g] \cup t.slab[g] \cup t.foreign[g]
        PROVE  b.p \in Pool /\ b.p # p
    <3>1. b \in Blocks
      BY <1>14 DEF States
    <3>2. \E i \in {"free", "slab", "foreign"} : [in |-> i, of |-> g, b |-> b] \in Q
      BY <1>3, <3>1 DEF PlacesOf, AllPlaces
    <3>3. PICK x \in Q : x.b = b
      BY <3>2
    <3> QED  BY <1>18, <3>3
  <2>2. \A b \in t.free[g] \cup t.slab[g] \cup t.foreign[g] : t.pool[b.p] = s.pool[b.p]
    BY <1>12, <1>13, <1>14, <2>1
  <2>3. \A b \in t.free[g] \cup t.slab[g] : b \in s.free[g] \cup s.slab[g]
    <3>1. t.slab[g] = IF g = h THEN s.slab[g] \ In(p, s.slab[g]) ELSE s.slab[g]
      BY <1>12, <1>13, <1>14
    <3>2. t.free[g] = s.free[g] \ B
      BY <1>12, <1>13, <1>14
    <3> QED  BY <3>1, <3>2
  <2>4. t.foreign[g] = s.foreign[g]
    BY <1>12, <1>13, <1>14
  <2>5. \A b \in t.free[g] : b.o \in t.avail[g]
    BY <1>4, <1>12, <1>13, <1>14 DEF AtHome
  <2>6. /\ \A b \in s.free[g] \cup s.slab[g] : s.pool[b.p].owner = g
        /\ \A b \in s.foreign[g] : s.pool[b.p].owner # g
    BY <1>4 DEF AtHome
  <2> QED  BY <2>2, <2>3, <2>4, <2>5, <2>6
<1>22. AtHome(t)
  BY <1>21 DEF AtHome
<1>23. Sound(t, L)
  BY <1>3, <1>4, <1>14, <1>17, <1>20, <1>22 DEF Sound
<1>24. \A x \in PlacesOf(s, L) : x.in \in {"live", "foreign"} => x.b.p # p
  BY <1>3, <1>6
<1> QED  BY <1>1, <1>12, <1>13, <1>14, <1>23, <1>24

-----------------------------------------------------------------------------
(* The accounts. *)

\* There are finitely many blocks.
LEMMA BlocksFinite == IsFiniteSet(Blocks)
<1>1. PICK T : T = (Pool \X Offset) \X Order
  OBVIOUS
<1>2. IsFiniteSet(T)
  <2>1. \A a, b \in Int : IsFiniteSet(a .. b)
    BY FS_Interval
  <2>2. PICK N \in Nat : N = Size[MaxOrder]
    BY SizeSteps, HeapAssumption
  <2>3. Pool = 1 .. MaxPools /\ Offset = 0 .. N - 1 /\ Order = 0 .. MaxOrder
    BY <2>2 DEF Pool, Offset, Order
  <2>4. MaxOrder \in Int /\ MaxPools \in Int /\ N - 1 \in Int /\ 0 \in Int /\ 1 \in Int
    BY HeapAssumption
  <2>5. IsFiniteSet(1 .. MaxPools) /\ IsFiniteSet(0 .. N - 1) /\ IsFiniteSet(0 .. MaxOrder)
    BY ONLY <2>1, <2>4
  <2>6. IsFiniteSet(Pool) /\ IsFiniteSet(Offset) /\ IsFiniteSet(Order)
    BY <2>3, <2>5
  <2>7. IsFiniteSet(Pool \X Offset)
    BY <2>6, FS_Product
  <2> QED  BY <1>1, <2>6, <2>7, FS_Product
<1>3. PICK f : f = [b \in Blocks |-> <<<<b.p, b.off>>, b.o>>]
  OBVIOUS
<1>4. ASSUME NEW b \in Blocks
      PROVE  f[b] = <<<<b.p, b.off>>, b.o>> /\ f[b] \in T /\ b = Block(b.p, b.off, b.o)
  BY <1>1, <1>3, BlockTypes
<1>5. f \in Injection(Blocks, T)
  <2>1. f \in [Blocks -> T]
    BY <1>3, <1>4
  <2>2. ASSUME NEW b \in Blocks, NEW d \in Blocks, f[b] = f[d] PROVE b = d
    <3>1. b.p = d.p /\ b.off = d.off /\ b.o = d.o
      BY <1>4, <2>2
    <3> QED  BY <1>4, <3>1
  <2> QED  BY <2>1, <2>2 DEF Injection, IsInjective
<1> QED  BY <1>2, <1>5, FS_Injection

HeldOf(s, L) == L \cup UNION {s.foreign[h] : h \in HeapId}

Account(s, C) ==
  \A h \in HeapId : s.bytes[h] = Total({b \in C : s.pool[b.p].owner = h})

\* One block less.
LEMMA AccountLess ==
  ASSUME NEW s, NEW C, C \subseteq Blocks, Account(s, C), NEW b \in C, NEW t, t.pool = s.pool,
         \A h \in HeapId : t.bytes[h] =
           s.bytes[h] - (IF h = s.pool[b.p].owner THEN Size[b.o] ELSE 0)
  PROVE  Account(t, C \ {b})
<1> SUFFICES ASSUME NEW h \in HeapId
             PROVE  t.bytes[h] = Total({c \in C \ {b} : t.pool[c.p].owner = h})
  BY DEF Account
<1>1. PICK R : R = {c \in C \ {b} : t.pool[c.p].owner = h}
  OBVIOUS
<1>2. PICK A : A = {c \in C : s.pool[c.p].owner = h}
  OBVIOUS
<1>3. s.bytes[h] = Total(A)
  BY <1>2 DEF Account
<1>4. R \subseteq Blocks /\ b \in Blocks /\ b \notin R
  BY <1>1
<1>5. CASE h = s.pool[b.p].owner
  <2>1. A = R \cup {b}
    BY <1>1, <1>2, <1>5
  <2>2. Total(A) = Total(R) + Size[b.o] /\ Total(R) \in Nat /\ Size[b.o] \in Nat
    BY <1>4, <2>1, TotalAdd, BlockTypes
  <2>3. t.bytes[h] = s.bytes[h] - Size[b.o]
    BY <1>5
  <2> QED  BY <1>1, <1>3, <2>2, <2>3
<1>6. CASE h # s.pool[b.p].owner
  <2>1. A = R
    BY <1>1, <1>2, <1>6
  <2>2. Total(R) \in Nat
    BY <1>4, UnitsFinite
  <2>3. PICK n \in Nat : n = Total(R)
    BY <2>2
  <2>4. t.bytes[h] = n - 0
    BY <1>3, <1>6, <2>1, <2>3
  <2> QED  BY <1>1, <2>3, <2>4
<1> QED  BY <1>5, <1>6

\* One block more.
LEMMA AccountMore ==
  ASSUME NEW s, NEW C, C \subseteq Blocks, Account(s, C), NEW b \in Blocks, b \notin C,
         NEW t, t.pool = s.pool,
         \A h \in HeapId : t.bytes[h] =
           s.bytes[h] + (IF h = s.pool[b.p].owner THEN Size[b.o] ELSE 0)
  PROVE  Account(t, C \cup {b})
<1> SUFFICES ASSUME NEW h \in HeapId
             PROVE  t.bytes[h] = Total({c \in C \cup {b} : t.pool[c.p].owner = h})
  BY DEF Account
<1>1. PICK R : R = {c \in C \cup {b} : t.pool[c.p].owner = h}
  OBVIOUS
<1>2. PICK A : A = {c \in C : s.pool[c.p].owner = h}
  OBVIOUS
<1>3. s.bytes[h] = Total(A)
  BY <1>2 DEF Account
<1>4. A \subseteq Blocks /\ b \notin A
  BY <1>2
<1>5. CASE h = s.pool[b.p].owner
  <2>1. R = A \cup {b}
    BY <1>1, <1>2, <1>5
  <2>2. Total(R) = Total(A) + Size[b.o]
    BY <1>4, <2>1, TotalAdd
  <2>3. t.bytes[h] = s.bytes[h] + Size[b.o]
    BY <1>5
  <2> QED  BY <1>1, <1>3, <2>2, <2>3
<1>6. CASE h # s.pool[b.p].owner
  <2>1. R = A
    BY <1>1, <1>2, <1>6
  <2>2. Total(R) \in Nat
    BY <1>4, <2>1, UnitsFinite
  <2>3. PICK n \in Nat : n = Total(R)
    BY <2>2
  <2>4. t.bytes[h] = n + 0
    BY <1>3, <1>6, <2>1, <2>3
  <2> QED  BY <1>1, <2>3, <2>4
<1> QED  BY <1>5, <1>6

\* The accounts do not move when neither the blocks in use, nor the owners of their
\* pools, nor the counters do.
LEMMA AccountSame ==
  ASSUME NEW s, NEW C, Account(s, C), NEW t, t.bytes = s.bytes,
         \A b \in C : t.pool[b.p].owner = s.pool[b.p].owner
  PROVE  Account(t, C)
<1> SUFFICES ASSUME NEW h \in HeapId
             PROVE  t.bytes[h] = Total({c \in C : t.pool[c.p].owner = h})
  BY DEF Account
<1>1. {c \in C : t.pool[c.p].owner = h} = {c \in C : s.pool[c.p].owner = h}
  OBVIOUS
<1> QED  BY <1>1 DEF Account

\* The lists are sound and the accounts right.
Good(s, L) == Sound(s, L) /\ Account(s, HeldOf(s, L))

\* Blocks in use are not queued.
LEMMA HeldFacts ==
  ASSUME NEW s, NEW L, Sound(s, L)
  PROVE  /\ HeldOf(s, L) \subseteq Blocks
         /\ \A b \in HeldOf(s, L) : s.pool[b.p] # Unmapped
         /\ \A b \in L : \A h \in HeapId : b \notin s.foreign[h]
         /\ \A g, h \in HeapId : g # h => s.foreign[g] \cap s.foreign[h] = {}
<1>1. \A b \in L : Fits(s.pool, b) /\ [in |-> "live", of |-> Main, b |-> b] \in PlacesOf(s, L)
  BY SoundBlocks
<1>2. \A h \in HeapId : \A b \in s.foreign[h] :
        Fits(s.pool, b) /\ [in |-> "foreign", of |-> h, b |-> b] \in PlacesOf(s, L)
  BY SoundBlocks
<1>3. \A b \in HeldOf(s, L) : Fits(s.pool, b)
  BY <1>1, <1>2 DEF HeldOf
<1>4. ASSUME NEW b \in L, NEW h \in HeapId, b \in s.foreign[h] PROVE FALSE
  <2>1. PICK x, y : /\ x = [in |-> "live", of |-> Main, b |-> b]
                    /\ y = [in |-> "foreign", of |-> h, b |-> b]
    OBVIOUS
  <2>2. x \in PlacesOf(s, L) /\ y \in PlacesOf(s, L) /\ x.b = y.b /\ x.in # y.in
    BY <1>1, <1>2, <1>4, <2>1
  <2>3. x = y
    BY <2>2, OnePlace
  <2> QED  BY <2>2, <2>3
<1>5. ASSUME NEW g \in HeapId, NEW h \in HeapId, g # h, NEW b \in s.foreign[g] \cap s.foreign[h]
      PROVE  FALSE
  <2>1. PICK x, y : /\ x = [in |-> "foreign", of |-> g, b |-> b]
                    /\ y = [in |-> "foreign", of |-> h, b |-> b]
    OBVIOUS
  <2>2. x \in PlacesOf(s, L) /\ y \in PlacesOf(s, L) /\ x.b = y.b /\ x.of # y.of
    BY <1>2, <1>5, <2>1
  <2>3. x = y
    BY <2>2, OnePlace
  <2> QED  BY <2>2, <2>3
<1> QED  BY <1>3, <1>4, <1>5 DEF Fits

-----------------------------------------------------------------------------
(* The collection. *)

\* The account of heap h without block b.
Settled(t, h, b) == [t EXCEPT !.bytes[h] = @ - Size[b.o]]

\* State u is t, but block b of M is in the free lists of heap h and off its account.
Returned(t, u, M, h, b) ==
  /\ Sound(u, M \ {b})
  /\ u.pool = t.pool /\ u.slab = t.slab /\ u.foreign = t.foreign
  /\ \A g \in HeapId : u.bytes[g] = t.bytes[g] - (IF g = h THEN Size[b.o] ELSE 0)

\* A block in hand goes back to its owner, whose account is settled.
LEMMA ReturnSound ==
  ASSUME NEW t, NEW M, Sound(t, M), NEW b \in M, NEW h, h = t.pool[b.p].owner,
         NEW u, u = Coalesce(Settled(t, h, b), h, b)
  PROVE  Returned(t, u, M, h, b)
<1>1. PICK v : v = Settled(t, h, b)
  OBVIOUS
<1>2. t \in States /\ Fits(t.pool, b) /\ b \in Blocks
  BY SoundBlocks DEF Sound, Fits
<1>3. b.p \in Pool /\ Size[b.o] \in Nat
  BY <1>2, BlockTypes
<1>4. h \in HeapId
  BY <1>2, <1>3 DEF States
<1>5. PICK y : y = [t.bytes EXCEPT ![h] = @ - Size[b.o]]
  OBVIOUS
<1>6. t.bytes \in [HeapId -> Int]
  BY <1>2 DEF States
<1>7. y \in [HeapId -> Int]
      /\ \A g \in HeapId : y[g] = t.bytes[g] - (IF g = h THEN Size[b.o] ELSE 0)
  BY <1>3, <1>4, <1>5, <1>6
<1>8. v = [t EXCEPT !.bytes = y]
  BY <1>1, <1>5 DEF Settled
<1>9. /\ v \in States /\ v.pool = t.pool /\ v.hdr = t.hdr /\ v.free = t.free /\ v.avail = t.avail
      /\ v.slab = t.slab /\ v.foreign = t.foreign /\ v.bytes = y
  BY ONLY <1>2, <1>7, <1>8 DEF States
<1>10. Sound(v, M)
  BY <1>9, Unaccounted
<1>11. LET w == Coalesce(v, h, b) IN
         /\ Sound(w, M \ {b})
         /\ w.pool = v.pool /\ w.slab = v.slab /\ w.foreign = v.foreign /\ w.bytes = v.bytes
  BY <1>4, <1>9, <1>10, CoalesceSound
<1> QED  BY ZenonT(60), <1>1, <1>7, <1>9, <1>11 DEF Returned

\* Phase 1, the foreign blocks.
LEMMA FlushForeignGood ==
  ASSUME NEW s, NEW L, Good(s, L)
  PROVE  Good(FlushForeign(s), L)
<1>1. PICK S : S = s.foreign[Main]
  OBVIOUS
<1>2. PICK base : base = [s EXCEPT !.foreign[Main] = {}]
  OBVIOUS
<1>3. Sound(s, L) /\ Account(s, HeldOf(s, L)) /\ s \in States /\ L \subseteq Blocks /\ Main \in HeapId
  BY DEF Good, Sound, HeapId
<1>4. S \subseteq Blocks /\ IsFiniteSet(S)
  <2>1. S \subseteq Blocks
    BY <1>1, <1>3 DEF States
  <2> QED  BY <2>1, BlocksFinite, FS_Subset
<1>5. /\ base \in States /\ base.pool = s.pool /\ base.hdr = s.hdr /\ base.free = s.free
      /\ base.avail = s.avail /\ base.slab = s.slab /\ base.bytes = s.bytes
      /\ \A g \in HeapId : base.foreign[g] = IF g = Main THEN s.foreign[g] \ S ELSE s.foreign[g]
  <2>1. PICK f : f = [s.foreign EXCEPT ![Main] = {}]
    OBVIOUS
  <2>2. f \in [HeapId -> SUBSET Blocks]
        /\ \A g \in HeapId : f[g] = IF g = Main THEN s.foreign[g] \ S ELSE s.foreign[g]
    BY <1>1, <1>3, <2>1 DEF States
  <2>3. base = [s EXCEPT !.foreign = f]
    BY <1>2, <2>1
  <2>4. /\ base \in States /\ base.pool = s.pool /\ base.hdr = s.hdr /\ base.free = s.free
        /\ base.avail = s.avail /\ base.slab = s.slab /\ base.bytes = s.bytes /\ base.foreign = f
    BY ONLY <1>3, <2>2, <2>3 DEF States
  <2> QED  BY <2>2, <2>4
<1>6. Sound(base, L \cup S) /\ L \cap S = {}
  <2>1. ForeignIs(s, base, Main, s.foreign[Main] \ S)
    BY ONLY <1>1, <1>3, <1>5 DEF ForeignIs
  <2>2. Sound(s, L) /\ Main \in HeapId /\ S \subseteq s.foreign[Main]
    BY <1>1, <1>3
  <2> QED  BY ONLY <2>1, <2>2, ForeignOut
<1>7. PICK H : H = HeldOf(base, L)
  OBVIOUS
<1>8. HeldOf(s, L) = H \cup S /\ H \cap S = {} /\ H \subseteq Blocks
  <2>1. H = L \cup UNION {base.foreign[g] : g \in HeapId}
    BY <1>7 DEF HeldOf
  <2>2. HeldOf(s, L) = L \cup UNION {s.foreign[g] : g \in HeapId}
    BY DEF HeldOf
  <2>3. \A g \in HeapId : g # Main => s.foreign[g] \cap S = {} /\ base.foreign[g] = s.foreign[g]
    BY <1>1, <1>3, <1>5, HeldFacts
  <2>4. base.foreign[Main] = {} /\ s.foreign[Main] = S
    BY <1>1, <1>3, <1>5
  <2>5. ASSUME NEW b PROVE b \in HeldOf(s, L) <=> b \in H \cup S
    BY <1>3, <2>1, <2>2, <2>3, <2>4
  <2>6. H \cap S = {}
    BY <1>6, <2>1, <2>3, <2>4
  <2>7. H \subseteq Blocks
    <3>1. HeldOf(s, L) \subseteq Blocks
      BY <1>3, HeldFacts
    <3> QED  BY <2>5, <3>1
  <2> QED  BY <2>5, <2>6, <2>7
<1>9. Account(base, H \cup S)
  BY <1>3, <1>5, <1>8, AccountSame
<1>10. PICK J : J = [ss \in SUBSET S |->
                      {t \in States : /\ Sound(t, L \cup (S \ ss)) /\ Account(t, H \cup (S \ ss))
                                      /\ t.pool = s.pool /\ t.foreign = base.foreign}]
  OBVIOUS
<1>11. ASSUME NEW ss \in SUBSET S, NEW b \in ss, NEW t, t \in J[ss \ {b}]
       PROVE  ReturnHome(b, t) \in J[ss]
  <2>1. PICK rest, M, N : /\ rest = S \ (ss \ {b}) /\ M = L \cup rest /\ N = H \cup rest
    OBVIOUS
  <2>2. Sound(t, M) /\ Account(t, N) /\ t.pool = s.pool /\ t.foreign = base.foreign /\ t \in States
    BY <1>10, <1>11, <2>1
  <2>3. b \in M /\ b \in N /\ M \ {b} = L \cup (S \ ss) /\ N \ {b} = H \cup (S \ ss)
        /\ N \subseteq Blocks
    BY <1>4, <1>6, <1>8, <2>1
  <2>4. PICK h : h = t.pool[b.p].owner
    OBVIOUS
  <2>5. PICK u : u = ReturnHome(b, t)
    OBVIOUS
  <2>6. u = Coalesce(Settled(t, h, b), h, b)
    BY <2>4, <2>5 DEF Settled, ReturnHome
  <2>7. Returned(t, u, M, h, b)
    <3>1. Sound(t, M) /\ b \in M /\ h = t.pool[b.p].owner
      BY <2>2, <2>3, <2>4
    <3> QED  BY ONLY <2>6, <3>1, ReturnSound
  <2>8. Account(u, N \ {b})
    BY <2>2, <2>3, <2>4, <2>7, AccountLess DEF Returned
  <2>9. u \in States
    BY <2>7 DEF Returned, Sound
  <2>10. u \in J[ss]
    BY <1>10, <2>2, <2>3, <2>7, <2>8, <2>9 DEF Returned
  <2> QED  BY <2>5, <2>10
<1>12. base \in J[{}]
  <2>1. S \ {} = S /\ {} \in SUBSET S
    OBVIOUS
  <2> QED  BY <1>5, <1>6, <1>9, <1>10, <2>1
<1>13. \A ss \in SUBSET S : J[ss] \subseteq States
  BY <1>10
<1>14. PICK c : c = First(S)
  OBVIOUS
<1>15. /\ Chooses(S, c)
       /\ \A ss \in SUBSET S : c[ss] = (CHOOSE x \in ss : TRUE) /\ (ss # {} => c[ss] \in ss)
  <2>1. Chooses(S, c) /\ \A ss \in SUBSET S : c[ss] = CHOOSE x \in ss : TRUE
    BY <1>14, FirstMember
  <2> QED  BY <2>1 DEF Chooses
<1>16. PICK F : F = [z \in S \X States |-> ReturnHome(z[1], z[2])]
  OBVIOUS
<1>17. ASSUME NEW b \in S, NEW t \in States PROVE F[<<b, t>>] = ReturnHome(b, t)
  <2>1. <<b, t>> \in S \X States
    OBVIOUS
  <2>2. F[<<b, t>>] = ReturnHome(<<b, t>>[1], <<b, t>>[2])
    BY <1>16, <2>1
  <2> QED  BY <2>2
<1>18. PICK g : Recursive(g, S, base, F, c)
  <2>1. IsFiniteSet(S) /\ Chooses(S, c)
    BY <1>4, <1>15
  <2> QED  BY ONLY <2>1, FoldExists
<1> USE DEF Recursive
<1>19. \A ss \in SUBSET S : g[ss] \in J[ss]
  <2>1. g[{}] \in J[{}]
    BY <1>12, <1>18
  <2>2. ASSUME NEW ss \in SUBSET S, ss # {}, g[ss \ {c[ss]}] \in J[ss \ {c[ss]}] PROVE g[ss] \in J[ss]
    <3>1. c[ss] \in ss /\ c[ss] \in S /\ g[ss] = F[<<c[ss], g[ss \ {c[ss]}]>>]
      BY <1>15, <1>18, <2>2
    <3>2. g[ss \ {c[ss]}] \in States
      BY <1>13, <2>2
    <3>3. g[ss] = ReturnHome(c[ss], g[ss \ {c[ss]}])
      BY <1>17, <3>1, <3>2
    <3> QED  BY <1>11, <2>2, <3>1, <3>3
  <2>3. IsFiniteSet(S) /\ Chooses(S, c) /\ Inductive(g, S, J, c)
    BY <1>4, <1>15, <2>1, <2>2 DEF Inductive
  <2> QED  BY ONLY <2>3, FoldInduction
<1> DEFINE Folds(iter) ==
      iter = [ss \in SUBSET S |->
                IF ss = {} THEN base
                ELSE ReturnHome(CHOOSE x \in ss : TRUE, iter[ss \ {CHOOSE x \in ss : TRUE}])]
<1>20. Folds(g)
  <2>1. ASSUME NEW ss \in SUBSET S, ss # {}
        PROVE  F[<<c[ss], g[ss \ {c[ss]}]>>]
                 = ReturnHome(CHOOSE x \in ss : TRUE, g[ss \ {CHOOSE x \in ss : TRUE}])
    <3>1. c[ss] \in S /\ g[ss \ {c[ss]}] \in States
      BY <1>13, <1>15, <1>19, <2>1
    <3>2. F[<<c[ss], g[ss \ {c[ss]}]>>] = ReturnHome(c[ss], g[ss \ {c[ss]}])
      BY <1>17, <3>1
    <3> QED  BY <1>15, <3>2
  <2> QED  BY <1>18, <2>1
<1>21. PICK it : it = CHOOSE iter : Folds(iter)
  OBVIOUS
<1> HIDE DEF Folds
<1>22. Folds(it)
  BY <1>20, <1>21
<1> USE DEF Folds
<1>23. FlushForeign(s) = it[S]
  BY <1>1, <1>2, <1>21 DEF FlushForeign, FoldSet, MapThenFoldSet
<1>24. \A ss \in SUBSET S : it[ss] \in J[ss]
  <2>1. it[{}] \in J[{}]
    BY <1>12, <1>22
  <2>2. ASSUME NEW ss \in SUBSET S, ss # {}, it[ss \ {c[ss]}] \in J[ss \ {c[ss]}] PROVE it[ss] \in J[ss]
    <3>1. it[ss] = ReturnHome(CHOOSE x \in ss : TRUE, it[ss \ {CHOOSE x \in ss : TRUE}])
      BY <1>22, <2>2
    <3>2. it[ss] = ReturnHome(c[ss], it[ss \ {c[ss]}])
      BY <1>15, <3>1
    <3>3. c[ss] \in ss
      BY <1>15, <2>2
    <3> QED  BY <1>11, <2>2, <3>2, <3>3
  <2>3. IsFiniteSet(S) /\ Chooses(S, c) /\ Inductive(it, S, J, c)
    BY <1>4, <1>15, <2>1, <2>2 DEF Inductive
  <2> QED  BY ONLY <2>3, FoldInduction
<1>25. PICK t : t = it[S]
  OBVIOUS
<1>26. Sound(t, L) /\ Account(t, H) /\ t.foreign = base.foreign
  <2>1. S \in SUBSET S /\ L \cup (S \ S) = L /\ H \cup (S \ S) = H
    OBVIOUS
  <2>2. t \in J[S]
    BY <1>24, <1>25, <2>1
  <2> QED  BY <1>10, <2>1, <2>2
<1>27. HeldOf(t, L) = H
  BY <1>7, <1>26 DEF HeldOf
<1> QED  BY <1>23, <1>25, <1>26, <1>27 DEF Good

\* Phase 1, the cached blocks of the main thread.
LEMMA FlushSlabsGood ==
  ASSUME NEW s, NEW L, Good(s, L)
  PROVE  Good(FlushSlabs(s), L)
<1>1. PICK S : S = s.slab[Main]
  OBVIOUS
<1>2. PICK base : base = [s EXCEPT !.slab[Main] = {}]
  OBVIOUS
<1>3. Sound(s, L) /\ Account(s, HeldOf(s, L)) /\ s \in States /\ L \subseteq Blocks /\ Main \in HeapId
  BY DEF Good, Sound, HeapId
<1>4. S \subseteq Blocks /\ IsFiniteSet(S) /\ \A b \in S : s.pool[b.p].owner = Main
  <2>1. S \subseteq Blocks /\ \A b \in S : s.pool[b.p].owner = Main
    BY <1>1, <1>3 DEF States, Sound, AtHome
  <2> QED  BY <2>1, BlocksFinite, FS_Subset
<1>5. /\ base \in States /\ base.pool = s.pool /\ base.hdr = s.hdr /\ base.free = s.free
      /\ base.avail = s.avail /\ base.foreign = s.foreign /\ base.bytes = s.bytes
      /\ \A g \in HeapId : base.slab[g] = IF g = Main THEN s.slab[g] \ S ELSE s.slab[g]
  <2>1. PICK f : f = [s.slab EXCEPT ![Main] = {}]
    OBVIOUS
  <2>2. f \in [HeapId -> SUBSET Blocks]
        /\ \A g \in HeapId : f[g] = IF g = Main THEN s.slab[g] \ S ELSE s.slab[g]
    BY <1>1, <1>3, <2>1 DEF States
  <2>3. base = [s EXCEPT !.slab = f]
    BY <1>2, <2>1
  <2>4. /\ base \in States /\ base.pool = s.pool /\ base.hdr = s.hdr /\ base.free = s.free
        /\ base.avail = s.avail /\ base.foreign = s.foreign /\ base.bytes = s.bytes /\ base.slab = f
    BY ONLY <1>3, <2>2, <2>3 DEF States
  <2> QED  BY <2>2, <2>4
<1>6. Sound(base, L \cup S) /\ L \cap S = {}
  <2>1. SlabIs(s, base, Main, s.slab[Main] \ S)
    BY ONLY <1>1, <1>3, <1>5 DEF SlabIs
  <2>2. Sound(s, L) /\ Main \in HeapId /\ S \subseteq s.slab[Main]
    BY <1>1, <1>3
  <2> QED  BY ONLY <2>1, <2>2, SlabOut
<1>10. PICK J : J = [ss \in SUBSET S |->
                      {t \in States : /\ Sound(t, L \cup (S \ ss)) /\ t.pool = s.pool
                                      /\ t.foreign = s.foreign /\ t.bytes = s.bytes}]
  OBVIOUS
<1> DEFINE Flush(b, t) == Coalesce(t, Main, b)
<1>11. ASSUME NEW ss \in SUBSET S, NEW b \in ss, NEW t, t \in J[ss \ {b}]
       PROVE  Flush(b, t) \in J[ss]
  <2>1. PICK M : M = L \cup (S \ (ss \ {b}))
    OBVIOUS
  <2>2. Sound(t, M) /\ t.pool = s.pool /\ t.foreign = s.foreign /\ t.bytes = s.bytes
    BY <1>10, <1>11, <2>1
  <2>3. b \in M /\ M \ {b} = L \cup (S \ ss) /\ t.pool[b.p].owner = Main
    BY <1>4, <1>6, <2>1, <2>2
  <2>4. LET u == Coalesce(t, Main, b) IN
          /\ Sound(u, M \ {b})
          /\ u.pool = t.pool /\ u.slab = t.slab /\ u.foreign = t.foreign /\ u.bytes = t.bytes
    <3>1. Sound(t, M) /\ b \in M /\ Main \in HeapId /\ t.pool[b.p].owner = Main
      BY <1>3, <2>2, <2>3
    <3> QED  BY ONLY <3>1, CoalesceSound
  <2>5. PICK u : u = Flush(b, t)
    OBVIOUS
  <2>6. /\ Sound(u, M \ {b}) /\ u.pool = s.pool /\ u.foreign = s.foreign /\ u.bytes = s.bytes
        /\ u \in States
    BY <2>2, <2>4, <2>5 DEF Sound
  <2>7. u \in J[ss]
    BY <1>10, <2>3, <2>6
  <2> QED  BY <2>5, <2>7
<1>12. base \in J[{}]
  <2>1. S \ {} = S /\ {} \in SUBSET S
    OBVIOUS
  <2> QED  BY <1>5, <1>6, <1>10, <2>1
<1>13. \A ss \in SUBSET S : J[ss] \subseteq States
  BY <1>10
<1>14. PICK c : c = First(S)
  OBVIOUS
<1>15. /\ Chooses(S, c)
       /\ \A ss \in SUBSET S : c[ss] = (CHOOSE x \in ss : TRUE) /\ (ss # {} => c[ss] \in ss)
  <2>1. Chooses(S, c) /\ \A ss \in SUBSET S : c[ss] = CHOOSE x \in ss : TRUE
    BY <1>14, FirstMember
  <2> QED  BY <2>1 DEF Chooses
<1> HIDE DEF Flush
<1>16. PICK F : F = [z \in S \X States |-> Flush(z[1], z[2])]
  OBVIOUS
<1>17. ASSUME NEW b \in S, NEW t \in States PROVE F[<<b, t>>] = Flush(b, t)
  <2>1. <<b, t>> \in S \X States
    OBVIOUS
  <2>2. F[<<b, t>>] = Flush(<<b, t>>[1], <<b, t>>[2])
    BY <1>16, <2>1
  <2> QED  BY <2>2
<1>18. PICK g : Recursive(g, S, base, F, c)
  <2>1. IsFiniteSet(S) /\ Chooses(S, c)
    BY <1>4, <1>15
  <2> QED  BY ONLY <2>1, FoldExists
<1> USE DEF Recursive
<1>19. \A ss \in SUBSET S : g[ss] \in J[ss]
  <2>1. g[{}] \in J[{}]
    BY <1>12, <1>18
  <2>2. ASSUME NEW ss \in SUBSET S, ss # {}, g[ss \ {c[ss]}] \in J[ss \ {c[ss]}] PROVE g[ss] \in J[ss]
    <3>1. c[ss] \in ss /\ c[ss] \in S /\ g[ss] = F[<<c[ss], g[ss \ {c[ss]}]>>]
      BY <1>15, <1>18, <2>2
    <3>2. g[ss \ {c[ss]}] \in States
      BY <1>13, <2>2
    <3>3. g[ss] = Flush(c[ss], g[ss \ {c[ss]}])
      BY <1>17, <3>1, <3>2
    <3> QED  BY <1>11, <2>2, <3>1, <3>3
  <2>3. IsFiniteSet(S) /\ Chooses(S, c) /\ Inductive(g, S, J, c)
    BY <1>4, <1>15, <2>1, <2>2 DEF Inductive
  <2> QED  BY ONLY <2>3, FoldInduction
<1> DEFINE Folds(iter) ==
      iter = [ss \in SUBSET S |->
                IF ss = {} THEN base
                ELSE Flush(CHOOSE x \in ss : TRUE, iter[ss \ {CHOOSE x \in ss : TRUE}])]
<1>20. Folds(g)
  <2>1. ASSUME NEW ss \in SUBSET S, ss # {}
        PROVE  F[<<c[ss], g[ss \ {c[ss]}]>>]
                 = Flush(CHOOSE x \in ss : TRUE, g[ss \ {CHOOSE x \in ss : TRUE}])
    <3>1. c[ss] \in S /\ g[ss \ {c[ss]}] \in States
      BY <1>13, <1>15, <1>19, <2>1
    <3>2. F[<<c[ss], g[ss \ {c[ss]}]>>] = Flush(c[ss], g[ss \ {c[ss]}])
      BY <1>17, <3>1
    <3> QED  BY <1>15, <3>2
  <2> QED  BY <1>18, <2>1
<1>21. PICK it : it = CHOOSE iter : Folds(iter)
  OBVIOUS
<1> HIDE DEF Folds
<1>22. Folds(it)
  BY <1>20, <1>21
<1> USE DEF Folds
<1>23. FlushSlabs(s) = it[S]
  BY <1>1, <1>2, <1>21 DEF FlushSlabs, FoldSet, MapThenFoldSet, Flush
<1>24. \A ss \in SUBSET S : it[ss] \in J[ss]
  <2>1. it[{}] \in J[{}]
    BY <1>12, <1>22
  <2>2. ASSUME NEW ss \in SUBSET S, ss # {}, it[ss \ {c[ss]}] \in J[ss \ {c[ss]}] PROVE it[ss] \in J[ss]
    <3>1. it[ss] = Flush(CHOOSE x \in ss : TRUE, it[ss \ {CHOOSE x \in ss : TRUE}])
      BY <1>22, <2>2
    <3>2. it[ss] = Flush(c[ss], it[ss \ {c[ss]}])
      BY <1>15, <3>1
    <3>3. c[ss] \in ss
      BY <1>15, <2>2
    <3> QED  BY <1>11, <2>2, <3>2, <3>3
  <2>3. IsFiniteSet(S) /\ Chooses(S, c) /\ Inductive(it, S, J, c)
    BY <1>4, <1>15, <2>1, <2>2 DEF Inductive
  <2> QED  BY ONLY <2>3, FoldInduction
<1>25. PICK t : t = it[S]
  OBVIOUS
<1>26. Sound(t, L) /\ t.pool = s.pool /\ t.foreign = s.foreign /\ t.bytes = s.bytes
  <2>1. S \in SUBSET S /\ L \cup (S \ S) = L
    OBVIOUS
  <2>2. t \in J[S]
    BY <1>24, <1>25, <2>1
  <2> QED  BY <1>10, <2>1, <2>2
<1>27. HeldOf(t, L) = HeldOf(s, L)
  BY <1>26 DEF HeldOf
<1>28. Account(t, HeldOf(t, L))
  <2>1. \A b \in HeldOf(s, L) : t.pool[b.p].owner = s.pool[b.p].owner
    BY <1>26
  <2> QED  BY <1>3, <1>26, <1>27, <2>1, AccountSame
<1> QED  BY <1>23, <1>25, <1>26, <1>28 DEF Good

\* Phase 2 finds nothing to do: free blocks are with their owner.
LEMMA ReturnStraysSame ==
  ASSUME NEW s, AtHome(s)
  PROVE  ReturnStrays(s) = s
<1> DEFINE Return(b, t) == Coalesce(Remove(t, Main, {b}), t.pool[b.p].owner, b)
<1>1. {b \in s.free[Main] : s.pool[b.p].owner # Main} = {}
  BY DEF AtHome, HeapId
<1> HIDE DEF Return
<1> DEFINE Folds(iter) ==
      iter = [ss \in SUBSET {} |->
                IF ss = {} THEN s
                ELSE Return(CHOOSE x \in ss : TRUE, iter[ss \ {CHOOSE x \in ss : TRUE}])]
<1>2. Folds([ss \in SUBSET {} |-> s])
  OBVIOUS
<1>3. PICK it : it = CHOOSE iter : Folds(iter)
  OBVIOUS
<1> HIDE DEF Folds
<1>4. Folds(it)
  BY <1>2, <1>3
<1> USE DEF Folds
<1>5. it[{}] = s
  BY <1>4
<1>6. ReturnStrays(s) = it[{}]
  BY <1>1, <1>3 DEF ReturnStrays, FoldSet, MapThenFoldSet, Return
<1> QED  BY <1>5, <1>6

\* Phase 4 unmaps pools none of whose memory is in use.
LEMMA ReclaimPoolsGood ==
  ASSUME NEW s, NEW L, Good(s, L)
  PROVE  Good(ReclaimPools(s), L)
<1>1. PICK S : S = {p \in Pool : s.pool[p] # Unmapped}
  OBVIOUS
<1>2. PICK base : base = s
  OBVIOUS
<1>3. Sound(s, L) /\ Account(s, HeldOf(s, L)) /\ s \in States
  BY DEF Good, Sound
<1>4. S \subseteq Pool /\ IsFiniteSet(S)
  <2>1. IsFiniteSet(1 .. MaxPools)
    BY HeapAssumption, FS_Interval
  <2> QED  BY <1>1, <2>1, FS_Subset DEF Pool
<1>5. PICK H : H = HeldOf(s, L)
  OBVIOUS
<1>10. PICK J : J = [ss \in SUBSET S |->
                      {t \in States : /\ Sound(t, L) /\ t.foreign = s.foreign /\ t.bytes = s.bytes
                                      /\ \A b \in H : t.pool[b.p] = s.pool[b.p]}]
  OBVIOUS
<1> DEFINE Reclaim(p, t) == IF Reclaimable(t, p) THEN Unmap(t, p) ELSE t
<1>11. ASSUME NEW ss \in SUBSET S, NEW p \in ss, NEW t, t \in J[ss \ {p}]
       PROVE  Reclaim(p, t) \in J[ss]
  <2>1. /\ Sound(t, L) /\ t.foreign = s.foreign /\ t.bytes = s.bytes /\ t \in States
        /\ \A b \in H : t.pool[b.p] = s.pool[b.p]
    BY <1>10, <1>11
  <2>2. CASE ~Reclaimable(t, p)
    BY <1>10, <2>1, <2>2
  <2>3. CASE Reclaimable(t, p)
    <3>1. p \in Pool
      BY <1>4
    <3>2. t.pool[p] # Unmapped
      <4>1. t.pool[p].order > PoolOrder
        BY <2>3 DEF Reclaimable
      <4>2. Unmapped.order = 0
        BY DEF Unmapped
      <4> QED  BY <4>1, <4>2, HeapAssumption
    <3>3. LET u == Unmap(t, p) IN
            /\ Sound(u, L) /\ u.foreign = t.foreign /\ u.bytes = t.bytes
            /\ \A q \in Pool : q # p => u.pool[q] = t.pool[q]
            /\ \A x \in PlacesOf(t, L) : x.in \in {"live", "foreign"} => x.b.p # p
      BY ONLY <2>1, <2>3, <3>1, <3>2, UnmapSound
    <3>4. PICK u : u = Unmap(t, p)
      OBVIOUS
    <3>5. /\ Sound(u, L) /\ u.foreign = s.foreign /\ u.bytes = s.bytes /\ u \in States
          /\ \A q \in Pool : q # p => u.pool[q] = t.pool[q]
          /\ \A x \in PlacesOf(t, L) : x.in \in {"live", "foreign"} => x.b.p # p
      BY <2>1, <3>3, <3>4 DEF Sound
    <3>6. ASSUME NEW b \in H PROVE u.pool[b.p] = s.pool[b.p]
      <4>1. b.p \in Pool /\ b.p # p
        <5>1. CASE b \in L
          <6>1. PICK x : x = [in |-> "live", of |-> Main, b |-> b]
            OBVIOUS
          <6>2. x \in PlacesOf(t, L) /\ Fits(t.pool, b)
            BY <2>1, <5>1, <6>1, SoundBlocks
          <6>3. x.in = "live" /\ x.b = b /\ b \in Blocks
            BY <6>1, <6>2 DEF Fits
          <6> QED  BY <3>5, <6>2, <6>3, BlockTypes
        <5>2. CASE \E g \in HeapId : b \in t.foreign[g]
          <6>1. PICK g \in HeapId : b \in t.foreign[g]
            BY <5>2
          <6>2. PICK x : x = [in |-> "foreign", of |-> g, b |-> b]
            OBVIOUS
          <6>3. x \in PlacesOf(t, L) /\ Fits(t.pool, b)
            BY <2>1, <6>1, <6>2, SoundBlocks
          <6>4. x.in = "foreign" /\ x.b = b /\ b \in Blocks
            BY <6>2, <6>3 DEF Fits
          <6> QED  BY <3>5, <6>3, <6>4, BlockTypes
        <5> QED  BY <1>5, <2>1, <5>1, <5>2 DEF HeldOf
      <4> QED  BY <2>1, <3>5, <4>1
    <3>7. u \in J[ss]
      BY <1>10, <3>5, <3>6
    <3> QED  BY <2>3, <3>4, <3>7
  <2> QED  BY <2>2, <2>3
<1>12. base \in J[{}]
  <2>1. {} \in SUBSET S
    OBVIOUS
  <2> QED  BY <1>2, <1>3, <1>10, <2>1
<1>13. \A ss \in SUBSET S : J[ss] \subseteq States
  BY <1>10
<1>14. PICK c : c = First(S)
  OBVIOUS
<1>15. /\ Chooses(S, c)
       /\ \A ss \in SUBSET S : c[ss] = (CHOOSE x \in ss : TRUE) /\ (ss # {} => c[ss] \in ss)
  <2>1. Chooses(S, c) /\ \A ss \in SUBSET S : c[ss] = CHOOSE x \in ss : TRUE
    BY <1>14, FirstMember
  <2> QED  BY <2>1 DEF Chooses
<1> HIDE DEF Reclaim
<1>16. PICK F : F = [z \in S \X States |-> Reclaim(z[1], z[2])]
  OBVIOUS
<1>17. ASSUME NEW b \in S, NEW t \in States PROVE F[<<b, t>>] = Reclaim(b, t)
  <2>1. <<b, t>> \in S \X States
    OBVIOUS
  <2>2. F[<<b, t>>] = Reclaim(<<b, t>>[1], <<b, t>>[2])
    BY <1>16, <2>1
  <2> QED  BY <2>2
<1>18. PICK g : Recursive(g, S, base, F, c)
  <2>1. IsFiniteSet(S) /\ Chooses(S, c)
    BY <1>4, <1>15
  <2> QED  BY ONLY <2>1, FoldExists
<1> USE DEF Recursive
<1>19. \A ss \in SUBSET S : g[ss] \in J[ss]
  <2>1. g[{}] \in J[{}]
    BY <1>12, <1>18
  <2>2. ASSUME NEW ss \in SUBSET S, ss # {}, g[ss \ {c[ss]}] \in J[ss \ {c[ss]}] PROVE g[ss] \in J[ss]
    <3>1. c[ss] \in ss /\ c[ss] \in S /\ g[ss] = F[<<c[ss], g[ss \ {c[ss]}]>>]
      BY <1>15, <1>18, <2>2
    <3>2. g[ss \ {c[ss]}] \in States
      BY <1>13, <2>2
    <3>3. g[ss] = Reclaim(c[ss], g[ss \ {c[ss]}])
      BY <1>17, <3>1, <3>2
    <3> QED  BY <1>11, <2>2, <3>1, <3>3
  <2>3. IsFiniteSet(S) /\ Chooses(S, c) /\ Inductive(g, S, J, c)
    BY <1>4, <1>15, <2>1, <2>2 DEF Inductive
  <2> QED  BY ONLY <2>3, FoldInduction
<1> DEFINE Folds(iter) ==
      iter = [ss \in SUBSET S |->
                IF ss = {} THEN base
                ELSE Reclaim(CHOOSE x \in ss : TRUE, iter[ss \ {CHOOSE x \in ss : TRUE}])]
<1>20. Folds(g)
  <2>1. ASSUME NEW ss \in SUBSET S, ss # {}
        PROVE  F[<<c[ss], g[ss \ {c[ss]}]>>]
                 = Reclaim(CHOOSE x \in ss : TRUE, g[ss \ {CHOOSE x \in ss : TRUE}])
    <3>1. c[ss] \in S /\ g[ss \ {c[ss]}] \in States
      BY <1>13, <1>15, <1>19, <2>1
    <3>2. F[<<c[ss], g[ss \ {c[ss]}]>>] = Reclaim(c[ss], g[ss \ {c[ss]}])
      BY <1>17, <3>1
    <3> QED  BY <1>15, <3>2
  <2> QED  BY <1>18, <2>1
<1>21. PICK it : it = CHOOSE iter : Folds(iter)
  OBVIOUS
<1> HIDE DEF Folds
<1>22. Folds(it)
  BY <1>20, <1>21
<1> USE DEF Folds
<1>23. ReclaimPools(s) = it[S]
  BY <1>1, <1>2, <1>21 DEF ReclaimPools, FoldSet, MapThenFoldSet, Reclaim
<1>24. \A ss \in SUBSET S : it[ss] \in J[ss]
  <2>1. it[{}] \in J[{}]
    BY <1>12, <1>22
  <2>2. ASSUME NEW ss \in SUBSET S, ss # {}, it[ss \ {c[ss]}] \in J[ss \ {c[ss]}] PROVE it[ss] \in J[ss]
    <3>1. it[ss] = Reclaim(CHOOSE x \in ss : TRUE, it[ss \ {CHOOSE x \in ss : TRUE}])
      BY <1>22, <2>2
    <3>2. it[ss] = Reclaim(c[ss], it[ss \ {c[ss]}])
      BY <1>15, <3>1
    <3>3. c[ss] \in ss
      BY <1>15, <2>2
    <3> QED  BY <1>11, <2>2, <3>2, <3>3
  <2>3. IsFiniteSet(S) /\ Chooses(S, c) /\ Inductive(it, S, J, c)
    BY <1>4, <1>15, <2>1, <2>2 DEF Inductive
  <2> QED  BY ONLY <2>3, FoldInduction
<1>25. PICK t : t = it[S]
  OBVIOUS
<1>26. Sound(t, L) /\ t.foreign = s.foreign /\ t.bytes = s.bytes
       /\ \A b \in H : t.pool[b.p] = s.pool[b.p]
  <2>1. S \in SUBSET S
    OBVIOUS
  <2>2. t \in J[S]
    BY <1>24, <1>25, <2>1
  <2> QED  BY <1>10, <2>1, <2>2
<1>27. HeldOf(t, L) = H
  BY <1>5, <1>26 DEF HeldOf
<1>28. Account(t, HeldOf(t, L))
  <2>1. \A b \in H : t.pool[b.p].owner = s.pool[b.p].owner
    BY <1>26
  <2> QED  BY <1>3, <1>5, <1>26, <1>27, <2>1, AccountSame
<1> QED  BY <1>23, <1>25, <1>26, <1>28 DEF Good

-----------------------------------------------------------------------------
(* The inductive invariant. *)

\* The lists and the blocks that the program holds tile the pools, every header says
\* what its block is, and the accounts are right.
Inv ==
  /\ Good(Now, live)
  /\ par \in BOOLEAN
  /\ busy \subseteq Worker

\* What an operator computes is the next state.
LEMMA Becomes ==
  ASSUME NEW s \in States, Become(s)
  PROVE  Now' = s
<1>1. s = [pool |-> s.pool, hdr |-> s.hdr, free |-> s.free, avail |-> s.avail, slab |-> s.slab,
           foreign |-> s.foreign, bytes |-> s.bytes]
  BY DEF States
<1>2. Now' = [pool |-> s.pool, hdr |-> s.hdr, free |-> s.free, avail |-> s.avail, slab |-> s.slab,
              foreign |-> s.foreign, bytes |-> s.bytes]
  BY DEF Become, Now
<1> QED  BY <1>1, <1>2

\* The heaps start without memory.
LEMMA InitGood == Init => Inv
<1> SUFFICES ASSUME Init PROVE Inv
  OBVIOUS
<1>1. PICK s : s = Now
  OBVIOUS
<1>2. /\ s.pool = [p \in Pool |-> Unmapped] /\ s.hdr = [a \in Pool \X Offset |-> Interior]
      /\ s.free = [h \in HeapId |-> {}] /\ s.avail = [h \in HeapId |-> {}]
      /\ s.slab = [h \in HeapId |-> {}] /\ s.foreign = [h \in HeapId |-> {}]
      /\ s.bytes = [h \in HeapId |-> 0]
  BY <1>1 DEF Init, Now
<1>3. s \in States
  <2>1. Unmapped \in [owner : HeapId, order : {0} \cup (PoolOrder .. MaxOrder)]
    BY DEF Unmapped, HeapId
  <2>2. Interior \in [rc : {0, 1}, o : Order]
    BY HeapAssumption DEF Interior, Order
  <2> QED  BY <1>1, <1>2, <2>1, <2>2 DEF Now, States
<1>4. PlacesOf(s, {}) = {}
  BY <1>2 DEF PlacesOf, AllPlaces
<1>5. Sound(s, {})
  <2>1. \A p \in Pool : s.pool[p] = Unmapped
    BY <1>2
  <2>2. Tiled({}, s.pool) /\ Headers(s, {})
    BY <2>1 DEF Tiled, Headers
  <2>3. AtHome(s)
    BY <1>2 DEF AtHome
  <2> QED  BY <1>3, <1>4, <2>2, <2>3 DEF Sound
<1>6. HeldOf(s, {}) = {}
  BY <1>2 DEF HeldOf
<1>7. Account(s, {})
  <2>1. UNION {{b} \X (1 .. Size[b.o]) : b \in {}} = {}
    OBVIOUS
  <2>2. Total({}) = 0
    BY <2>1, FS_EmptySet DEF Total
  <2>3. \A h \in HeapId : {b \in {} : s.pool[b.p].owner = h} = {}
    OBVIOUS
  <2> QED  BY <1>2, <2>2, <2>3 DEF Account
<1>8. live = {} /\ par \in BOOLEAN /\ busy \subseteq Worker
  BY DEF Init
<1> QED  BY <1>1, <1>5, <1>6, <1>7, <1>8 DEF Inv, Good

\* ray_alloc from the slab cache.
LEMMA AllocSlabGood ==
  ASSUME NEW s, s = Now, Good(s, live), NEW t \in HeapId, NEW o \in Order, AllocSlab(t, o)
  PROVE  Good(Now', live')
<1>1. PICK b \in SlabHit(t, o) :
        /\ Become(HandOut([Now EXCEPT !.slab[t] = @ \ {b}], t, b))
        /\ live' = live \cup {b}
  BY DEF AllocSlab
<1>2. Sound(s, live) /\ Account(s, HeldOf(s, live)) /\ s \in States
  BY DEF Good, Sound
<1>3. b \in s.slab[t]
  BY <1>1 DEF SlabHit, Now
<1>4. Fits(s.pool, b) /\ [in |-> "slab", of |-> t, b |-> b] \in PlacesOf(s, live)
      /\ b \in Blocks /\ s.pool[b.p].owner = t
  BY <1>2, <1>3, SoundBlocks DEF Fits, Sound, AtHome
<1>5. PICK v : v = [s EXCEPT !.slab[t] = @ \ {b}]
  OBVIOUS
<1>6. SlabIs(s, v, t, s.slab[t] \ {b}) /\ v \in States /\ v.bytes = s.bytes
  <2>1. PICK f : f = [s.slab EXCEPT ![t] = @ \ {b}]
    OBVIOUS
  <2>2. f \in [HeapId -> SUBSET Blocks]
        /\ \A g \in HeapId : f[g] = IF g = t THEN s.slab[t] \ {b} ELSE s.slab[g]
    BY <1>2, <2>1 DEF States
  <2>3. v = [s EXCEPT !.slab = f]
    BY <1>5, <2>1
  <2>4. /\ v \in States /\ v.pool = s.pool /\ v.hdr = s.hdr /\ v.free = s.free
        /\ v.avail = s.avail /\ v.foreign = s.foreign /\ v.bytes = s.bytes /\ v.slab = f
    BY ONLY <1>2, <2>2, <2>3 DEF States
  <2> QED  BY <2>2, <2>4 DEF SlabIs
<1>7. Sound(v, live \cup {b}) /\ live \cap {b} = {}
  <2>1. PICK B : B = {b}
    OBVIOUS
  <2>2. B \subseteq s.slab[t] /\ SlabIs(s, v, t, s.slab[t] \ B)
    BY <1>3, <1>6, <2>1
  <2>3. Sound(v, live \cup B) /\ live \cap B = {}
    BY ONLY <1>2, <2>2, SlabOut, t \in HeapId
  <2> QED  BY <2>1, <2>3
<1>8. PICK u : u = HandOut(v, t, b)
  OBVIOUS
<1>9. /\ u \in States
      /\ u.pool = v.pool /\ u.slab = v.slab /\ u.foreign = v.foreign
      /\ u.free = v.free /\ u.avail = v.avail
      /\ \A g \in HeapId : u.bytes[g] = v.bytes[g] + (IF g = t THEN Size[b.o] ELSE 0)
      /\ u.hdr[Addr(b)] = Header("live", b)
      /\ \A a \in Pool \X Offset : a # Addr(b) => u.hdr[a] = v.hdr[a]
  BY <1>4, <1>6, <1>8, HandOutFields
<1>10. v.hdr[Addr(b)] = Header("live", b)
  <2>1. PICK x : x = [in |-> "live", of |-> Main, b |-> b]
    OBVIOUS
  <2>2. x \in PlacesOf(v, live \cup {b})
    BY <1>7, <2>1, SoundBlocks
  <2> QED  BY <1>7, <2>1, <2>2 DEF Sound, Headers
<1>11. u.hdr = v.hdr
  <2>1. \A a \in Pool \X Offset : u.hdr[a] = v.hdr[a]
    BY <1>9, <1>10
  <2> QED  BY <1>6, <1>9, <2>1 DEF States
<1>12. Sound(u, live \cup {b})
  BY <1>7, <1>9, <1>11, Unaccounted
<1>13. b \notin HeldOf(s, live)
  <2>1. ASSUME NEW g \in HeapId, b \in s.foreign[g] PROVE FALSE
    <3>1. PICK x, y : /\ x = [in |-> "slab", of |-> t, b |-> b]
                      /\ y = [in |-> "foreign", of |-> g, b |-> b]
      OBVIOUS
    <3>2. x \in PlacesOf(s, live) /\ y \in PlacesOf(s, live) /\ x.b = y.b /\ x.in # y.in
      BY <1>2, <1>4, <2>1, <3>1, SoundBlocks
    <3>3. x = y
      BY <1>2, <3>2, OnePlace
    <3> QED  BY <3>2, <3>3
  <2> QED  BY <1>7, <2>1 DEF HeldOf
<1>14. HeldOf(u, live \cup {b}) = HeldOf(s, live) \cup {b}
  BY <1>6, <1>9 DEF HeldOf, SlabIs
<1>15. Account(u, HeldOf(u, live \cup {b}))
  <2>1. PICK C : C = HeldOf(s, live)
    OBVIOUS
  <2>2. /\ C \subseteq Blocks /\ Account(s, C) /\ b \in Blocks /\ b \notin C /\ u.pool = s.pool
        /\ \A h \in HeapId : u.bytes[h] =
             s.bytes[h] + (IF h = s.pool[b.p].owner THEN Size[b.o] ELSE 0)
    BY <1>2, <1>4, <1>6, <1>9, <1>13, <2>1, HeldFacts DEF SlabIs
  <2>3. Account(u, C \cup {b})
    BY ONLY <2>2, AccountMore
  <2> QED  BY <1>14, <2>1, <2>3
<1>16. Now' = u
  BY <1>1, <1>5, <1>8, <1>9, Becomes
<1> QED  BY <1>1, <1>12, <1>15, <1>16 DEF Good

\* ray_alloc from the free lists: what TakeFrom keeps.
LEMMA TakeFromGood ==
  ASSUME NEW s, NEW L, Good(s, L), NEW h \in HeapId, NEW o \in Nat,
         Offered(s, h, o) # {}, NEW b \in s.free[h], b.o = Min(Offered(s, h, o)),
         NEW t, t = TakeFrom(s, h, o, b)
  PROVE  Good(t, L \cup {Block(b.p, b.off, o)})
<1>1. Sound(s, L) /\ Account(s, HeldOf(s, L)) /\ s \in States
  BY DEF Good, Sound
<1>2. o <= b.o
  <2>1. b.o \in Offered(s, h, o)
    BY <1>1, OfferedMin
  <2> QED  BY <2>1 DEF Offered
<1>3. PICK left : left = Block(b.p, b.off, o)
  OBVIOUS
<1>4. /\ Sound(t, L \cup {left})
      /\ left \in Blocks /\ left.o = o /\ s.pool[left.p].owner = h
      /\ t.pool = s.pool /\ t.slab = s.slab /\ t.foreign = s.foreign
      /\ \A g \in HeapId : t.bytes[g] = s.bytes[g] + (IF g = h THEN Size[o] ELSE 0)
      /\ left \notin L /\ \A g \in HeapId : left \notin s.foreign[g]
  <2>1. LET w == TakeFrom(s, h, o, b)
            c == Block(b.p, b.off, o)
        IN /\ Sound(w, L \cup {c})
           /\ c \in Blocks /\ c.o = o /\ s.pool[c.p].owner = h
           /\ w.pool = s.pool /\ w.slab = s.slab /\ w.foreign = s.foreign
           /\ \A g \in HeapId : w.bytes[g] = s.bytes[g] + (IF g = h THEN Size[o] ELSE 0)
           /\ c \notin L /\ \A g \in HeapId : c \notin s.foreign[g]
    BY <1>1, <1>2, TakeFromSound
  <2> QED  BY <1>3, <2>1
<1>5. PICK C : C = HeldOf(s, L)
  OBVIOUS
<1>6. HeldOf(t, L \cup {left}) = C \cup {left}
  BY <1>4, <1>5 DEF HeldOf
<1>7. /\ C \subseteq Blocks /\ Account(s, C) /\ left \in Blocks /\ left \notin C /\ t.pool = s.pool
      /\ \A g \in HeapId : t.bytes[g] =
           s.bytes[g] + (IF g = s.pool[left.p].owner THEN Size[left.o] ELSE 0)
  BY <1>1, <1>4, <1>5, HeldFacts DEF HeldOf
<1>8. Account(t, C \cup {left})
  BY ONLY <1>7, AccountMore
<1> QED  BY <1>3, <1>4, <1>6, <1>8 DEF Good

\* ray_alloc from a free list that is not empty.
LEMMA AllocFreeGood ==
  ASSUME NEW s, s = Now, Good(s, live), NEW t \in HeapId, NEW o \in Order, AllocFree(t, o)
  PROVE  Good(Now', live')
<1>1. Offered(s, t, o) # {} /\ o \in Nat
  BY DEF AllocFree, Order
<1>2. PICK b \in free[t] :
        /\ b.o = Min(Offered(Now, t, o))
        /\ Become(TakeFrom(Now, t, o, b))
        /\ live' = live \cup {Block(b.p, b.off, o)}
  BY DEF AllocFree
<1>3. PICK u : u = TakeFrom(s, t, o, b)
  OBVIOUS
<1>4. b \in s.free[t] /\ b.o = Min(Offered(s, t, o))
  BY <1>2 DEF Now
<1>5. Good(u, live \cup {Block(b.p, b.off, o)})
  BY <1>1, <1>3, <1>4, TakeFromGood
<1>6. u \in States
  BY <1>5 DEF Good, Sound
<1>7. Now' = u
  BY <1>2, <1>3, <1>6, Becomes
<1> QED  BY <1>2, <1>5, <1>7

\* ray_alloc from a new pool.
LEMMA AllocNewPoolGood ==
  ASSUME NEW s, s = Now, Good(s, live), NEW t \in HeapId, NEW o \in Order, AllocNewPool(t, o)
  PROVE  Good(Now', live')
<1>1. Offered(s, t, o) = {} /\ PoolOrderFor(o) <= MaxOrder /\ o \in Nat
  BY DEF AllocNewPool, Order
<1> DEFINE New(p) == AddPool([Now EXCEPT !.avail[t] = {k \in @ : k < o}], t, p, o)
           Taken(p) == CHOOSE c \in New(p).free[t] : c.o = Min(Offered(New(p), t, o))
<1>2. PICK p \in Pool : /\ ~Mapped(p)
                        /\ Become(TakeFrom(New(p), t, o, Taken(p)))
                        /\ live' = live \cup {Block(Taken(p).p, Taken(p).off, o)}
  BY DEF AllocNewPool
<1>3. Sound(s, live) /\ Account(s, HeldOf(s, live)) /\ s \in States /\ s.pool[p] = Unmapped
  BY <1>2 DEF Good, Sound, Mapped, Now
<1>4. PICK v : v = [s EXCEPT !.avail[t] = {k \in @ : k < o}]
  OBVIOUS
<1>5. /\ v \in States /\ v.pool = s.pool /\ v.hdr = s.hdr /\ v.free = s.free /\ v.slab = s.slab
      /\ v.foreign = s.foreign /\ v.bytes = s.bytes
      /\ \A g \in HeapId : v.avail[g] = IF g = t THEN {k \in s.avail[t] : k < o} ELSE s.avail[g]
  <2>1. PICK f : f = [s.avail EXCEPT ![t] = {k \in @ : k < o}]
    OBVIOUS
  <2>2. f \in [HeapId -> SUBSET Order]
        /\ \A g \in HeapId : f[g] = IF g = t THEN {k \in s.avail[t] : k < o} ELSE s.avail[g]
    BY <1>3, <2>1 DEF States
  <2>3. v = [s EXCEPT !.avail = f]
    BY <1>4, <2>1
  <2>4. /\ v \in States /\ v.pool = s.pool /\ v.hdr = s.hdr /\ v.free = s.free /\ v.slab = s.slab
        /\ v.foreign = s.foreign /\ v.bytes = s.bytes /\ v.avail = f
    BY ONLY <1>3, <2>2, <2>3 DEF States
  <2> QED  BY <2>2, <2>4
<1>6. \A g \in HeapId : \A b \in v.free[g] : b.o \in v.avail[g]
  <2> SUFFICES ASSUME NEW g \in HeapId, NEW b \in s.free[g] PROVE b.o \in v.avail[g]
    BY <1>5
  <2>1. b.o \in s.avail[g] /\ b \in Blocks
    BY <1>3 DEF Sound, AtHome, States
  <2>2. g = t => ~(b.o >= o)
    BY <1>1, <2>1 DEF Offered
  <2>3. b.o \in Nat
    BY <2>1, BlockTypes
  <2>4. PICK n \in Nat : n = b.o
    BY <2>3
  <2>5. n \in s.avail[g] /\ (g = t => n < o)
    BY <1>1, <2>1, <2>2, <2>4
  <2>6. n \in v.avail[g]
    BY <1>5, <2>5
  <2> QED  BY <2>4, <2>6
<1>7. Sound(v, live)
  BY <1>3, <1>5, <1>6, Rebooked
<1>8. PICK u : u = AddPool(v, t, p, o)
  OBVIOUS
<1>9. /\ Sound(u, live) /\ u.slab = v.slab /\ u.foreign = v.foreign /\ u.bytes = v.bytes
      /\ \A q \in Pool : q # p => u.pool[q] = v.pool[q]
      /\ Offered(u, t, o) # {}
  <2>1. v.pool[p] = Unmapped
    BY <1>3, <1>5
  <2> QED  BY <1>1, <1>7, <1>8, <2>1, AddPoolSound
<1>10. HeldOf(u, live) = HeldOf(s, live)
  BY <1>5, <1>9 DEF HeldOf
<1>11. Account(u, HeldOf(u, live))
  <2>1. ASSUME NEW b \in HeldOf(s, live) PROVE u.pool[b.p].owner = s.pool[b.p].owner
    <3>1. b \in Blocks /\ s.pool[b.p] # Unmapped
      BY <1>3, HeldFacts
    <3> QED  BY <1>3, <1>5, <1>9, <3>1, BlockTypes
  <2>2. u.bytes = s.bytes
    BY <1>5, <1>9
  <2> QED  BY <1>3, <1>10, <2>1, <2>2, AccountSame
<1>12. Good(u, live)
  BY <1>9, <1>11 DEF Good
<1>13. PICK b : b = CHOOSE c \in u.free[t] : c.o = Min(Offered(u, t, o))
  OBVIOUS
<1>14. b \in u.free[t] /\ b.o = Min(Offered(u, t, o))
  <2>1. Min(Offered(u, t, o)) \in Offered(u, t, o)
    BY <1>1, <1>9, OfferedMin DEF Sound
  <2>2. \E c \in u.free[t] : c.o = Min(Offered(u, t, o))
    BY <2>1 DEF Offered
  <2> QED  BY <1>13, <2>2
<1>15. PICK w : w = TakeFrom(u, t, o, b)
  OBVIOUS
<1>16. Good(w, live \cup {Block(b.p, b.off, o)})
  BY <1>1, <1>9, <1>12, <1>14, <1>15, TakeFromGood
<1>17. w \in States
  BY <1>16 DEF Good, Sound
<1>18. New(p) = u /\ Taken(p) = b
  BY <1>4, <1>8, <1>13
<1> HIDE DEF New, Taken
<1>19. Now' = w
  BY <1>2, <1>15, <1>17, <1>18, Becomes
<1> QED  BY <1>2, <1>16, <1>18, <1>19

\* ray_free into the slab cache.
LEMMA FreeToSlabGood ==
  ASSUME NEW s, s = Now, Good(s, live), NEW t \in HeapId, NEW b \in live, FreeToSlab(t, b)
  PROVE  Good(Now', live')
<1>1. Sound(s, live) /\ Account(s, HeldOf(s, live)) /\ s \in States
  BY DEF Good, Sound
<1>2. s.pool[b.p].owner = t /\ live' = live \ {b}
  BY DEF FreeToSlab, Owner, Now
<1>3. Fits(s.pool, b) /\ b \in Blocks /\ s.hdr[Addr(b)] = [rc |-> 1, o |-> b.o]
  <2>1. PICK x : x = [in |-> "live", of |-> Main, b |-> b]
    OBVIOUS
  <2>2. x \in PlacesOf(s, live) /\ Fits(s.pool, b)
    BY <1>1, <2>1, SoundBlocks
  <2>3. s.hdr[Addr(b)] = Header("live", b)
    BY <1>1, <2>1, <2>2 DEF Sound, Headers
  <2> QED  BY <2>2, <2>3 DEF Header, Fits
<1>4. b.o \in Order /\ Addr(b) \in Pool \X Offset /\ Size[b.o] \in Nat
  BY <1>3, BlockTypes
<1>5. PICK u : u = [s EXCEPT !.slab[t] = @ \cup {b},
                            !.hdr[Addr(b)].rc = 1,
                            !.bytes[t] = @ - Size[b.o]]
  OBVIOUS
<1>6. PICK f, w, y : /\ f = [s.slab EXCEPT ![t] = @ \cup {b}]
                     /\ w = [s.hdr EXCEPT ![Addr(b)].rc = 1]
                     /\ y = [s.bytes EXCEPT ![t] = @ - Size[b.o]]
  OBVIOUS
<1>7. f \in [HeapId -> SUBSET Blocks]
      /\ \A g \in HeapId : f[g] = IF g = t THEN s.slab[t] \cup {b} ELSE s.slab[g]
  BY <1>1, <1>3, <1>6 DEF States
<1>8. w = s.hdr
  <2>1. PICK hd, a : hd = s.hdr /\ a = Addr(b)
    OBVIOUS
  <2>2. hd \in [Pool \X Offset -> [rc : {0, 1}, o : Order]] /\ a \in Pool \X Offset
        /\ hd[a] = [rc |-> 1, o |-> b.o]
    BY <1>1, <1>3, <1>4, <2>1 DEF States
  <2>3. [hd[a] EXCEPT !.rc = 1] = hd[a]
    BY <2>2
  <2>4. w = [hd EXCEPT ![a] = hd[a]]
    BY <1>6, <2>1, <2>3
  <2>5. w = hd
    BY <2>2, <2>4
  <2> QED  BY <2>1, <2>5
<1>9. y \in [HeapId -> Int]
      /\ \A g \in HeapId : y[g] = s.bytes[g] - (IF g = t THEN Size[b.o] ELSE 0)
  <2>1. s.bytes \in [HeapId -> Int]
    BY <1>1 DEF States
  <2> QED  BY <1>4, <1>6, <2>1
<1>10. u = [s EXCEPT !.slab = f, !.bytes = y]
  <2>1. u = [s EXCEPT !.slab = f, !.hdr = w, !.bytes = y]
    BY <1>5, <1>6
  <2> QED  BY <1>1, <1>8, <2>1 DEF States
<1>11. PICK v : v = [s EXCEPT !.slab = f]
  OBVIOUS
<1>12. /\ v \in States /\ v.pool = s.pool /\ v.hdr = s.hdr /\ v.free = s.free
       /\ v.avail = s.avail /\ v.foreign = s.foreign /\ v.bytes = s.bytes /\ v.slab = f
       /\ u \in States /\ u.pool = s.pool /\ u.hdr = s.hdr /\ u.free = s.free
       /\ u.avail = s.avail /\ u.foreign = s.foreign /\ u.bytes = y /\ u.slab = f
  BY ONLY <1>1, <1>7, <1>9, <1>10, <1>11 DEF States
<1>13. SlabIs(s, v, t, s.slab[t] \cup {b})
  BY <1>7, <1>12 DEF SlabIs
<1>14. Sound(v, live \ {b})
  BY <1>1, <1>2, <1>13, SlabIn
<1>15. Sound(u, live \ {b})
  BY <1>12, <1>14, Unaccounted
<1>16. HeldOf(u, live \ {b}) = HeldOf(s, live) \ {b}
  BY <1>1, <1>12, HeldFacts DEF HeldOf
<1>17. Account(u, HeldOf(u, live \ {b}))
  <2>1. PICK C : C = HeldOf(s, live)
    OBVIOUS
  <2>2. /\ C \subseteq Blocks /\ Account(s, C) /\ b \in C /\ u.pool = s.pool
        /\ \A h \in HeapId : u.bytes[h] =
             s.bytes[h] - (IF h = s.pool[b.p].owner THEN Size[b.o] ELSE 0)
    BY <1>1, <1>2, <1>9, <1>12, <2>1, HeldFacts DEF HeldOf
  <2>3. Account(u, C \ {b})
    BY ONLY <2>2, AccountLess
  <2> QED  BY <1>16, <2>1, <2>3
<1>18. Now' = u
  <2>1. u = [Now EXCEPT !.slab[t] = @ \cup {b},
                        !.hdr[Addr(b)].rc = 1,
                        !.bytes[t] = @ - Size[b.o]]
    BY <1>5
  <2>2. Become(u)
    BY <2>1 DEF FreeToSlab
  <2> QED  BY <1>12, <2>2, Becomes
<1> QED  BY <1>2, <1>15, <1>17, <1>18 DEF Good

\* ray_free of a block of another heap.
LEMMA FreeForeignGood ==
  ASSUME NEW s, s = Now, Good(s, live), NEW t \in HeapId, NEW b \in live, FreeForeign(t, b)
  PROVE  Good(Now', live')
<1>1. Sound(s, live) /\ Account(s, HeldOf(s, live)) /\ s \in States
  BY DEF Good, Sound
<1>2. s.pool[b.p].owner # t /\ live' = live \ {b}
  BY DEF FreeForeign, Owner, Now
<1>3. Fits(s.pool, b) /\ b \in Blocks /\ s.hdr[Addr(b)] = [rc |-> 1, o |-> b.o]
  <2>1. PICK x : x = [in |-> "live", of |-> Main, b |-> b]
    OBVIOUS
  <2>2. x \in PlacesOf(s, live) /\ Fits(s.pool, b)
    BY <1>1, <2>1, SoundBlocks
  <2>3. s.hdr[Addr(b)] = Header("live", b)
    BY <1>1, <2>1, <2>2 DEF Sound, Headers
  <2> QED  BY <2>2, <2>3 DEF Header, Fits
<1>4. b.o \in Order /\ Addr(b) \in Pool \X Offset
  BY <1>3, BlockTypes
<1>5. PICK u : u = [s EXCEPT !.foreign[t] = @ \cup {b}, !.hdr[Addr(b)].rc = 1]
  OBVIOUS
<1>6. PICK f, w : /\ f = [s.foreign EXCEPT ![t] = @ \cup {b}]
                  /\ w = [s.hdr EXCEPT ![Addr(b)].rc = 1]
  OBVIOUS
<1>7. f \in [HeapId -> SUBSET Blocks]
      /\ \A g \in HeapId : f[g] = IF g = t THEN s.foreign[t] \cup {b} ELSE s.foreign[g]
  BY <1>1, <1>3, <1>6 DEF States
<1>8. w = s.hdr
  <2>1. PICK hd, a : hd = s.hdr /\ a = Addr(b)
    OBVIOUS
  <2>2. hd \in [Pool \X Offset -> [rc : {0, 1}, o : Order]] /\ a \in Pool \X Offset
        /\ hd[a] = [rc |-> 1, o |-> b.o]
    BY <1>1, <1>3, <1>4, <2>1 DEF States
  <2>3. [hd[a] EXCEPT !.rc = 1] = hd[a]
    BY <2>2
  <2>4. w = [hd EXCEPT ![a] = hd[a]]
    BY <1>6, <2>1, <2>3
  <2>5. w = hd
    BY <2>2, <2>4
  <2> QED  BY <2>1, <2>5
<1>9. u = [s EXCEPT !.foreign = f]
  <2>1. u = [s EXCEPT !.foreign = f, !.hdr = w]
    BY <1>5, <1>6
  <2> QED  BY <1>1, <1>8, <2>1 DEF States
<1>10. /\ u \in States /\ u.pool = s.pool /\ u.hdr = s.hdr /\ u.free = s.free
       /\ u.avail = s.avail /\ u.slab = s.slab /\ u.bytes = s.bytes /\ u.foreign = f
  BY ONLY <1>1, <1>7, <1>9 DEF States
<1>11. ForeignIs(s, u, t, s.foreign[t] \cup {b})
  BY <1>7, <1>10 DEF ForeignIs
<1>12. Sound(u, live \ {b})
  BY <1>1, <1>2, <1>11, ForeignIn
<1>13. HeldOf(u, live \ {b}) = HeldOf(s, live)
  <2>1. HeldOf(u, live \ {b}) = (live \ {b}) \cup UNION {f[h] : h \in HeapId}
    BY <1>10 DEF HeldOf
  <2>2. UNION {f[h] : h \in HeapId} = {b} \cup UNION {s.foreign[h] : h \in HeapId}
    BY <1>7
  <2> QED  BY <2>1, <2>2 DEF HeldOf
<1>14. Account(u, HeldOf(u, live \ {b}))
  BY <1>1, <1>10, <1>13, AccountSame
<1>15. Now' = u
  <2>1. u = [Now EXCEPT !.foreign[t] = @ \cup {b}, !.hdr[Addr(b)].rc = 1]
    BY <1>5
  <2>2. Become(u)
    BY <2>1 DEF FreeForeign
  <2> QED  BY <1>10, <2>2, Becomes
<1> QED  BY <1>2, <1>12, <1>14, <1>15 DEF Good

\* ray_free of a block that goes back to the free lists.
LEMMA FreeLocalGood ==
  ASSUME NEW s, s = Now, Good(s, live), NEW t \in HeapId, NEW b \in live, FreeLocal(t, b)
  PROVE  Good(Now', live')
<1>1. Sound(s, live) /\ Account(s, HeldOf(s, live)) /\ s \in States
  BY DEF Good, Sound
<1>2. s.pool[b.p].owner = t /\ live' = live \ {b}
  BY DEF FreeLocal, Owner, Now
<1>3. b \in Blocks /\ Size[b.o] \in Nat
  BY <1>1, BlockTypes DEF Sound
<1>4. PICK v : v = Coalesce(s, t, b)
  OBVIOUS
<1>5. /\ Sound(v, live \ {b}) /\ v \in States
      /\ v.pool = s.pool /\ v.slab = s.slab /\ v.foreign = s.foreign /\ v.bytes = s.bytes
  <2>1. LET w == Coalesce(s, t, b) IN
          /\ Sound(w, live \ {b})
          /\ w.pool = s.pool /\ w.slab = s.slab /\ w.foreign = s.foreign /\ w.bytes = s.bytes
    BY <1>1, <1>2, CoalesceSound
  <2> QED  BY <1>4, <2>1 DEF Sound
<1>6. PICK u : u = [v EXCEPT !.bytes[t] = @ - Size[b.o]]
  OBVIOUS
<1>7. PICK y : y = [v.bytes EXCEPT ![t] = @ - Size[b.o]]
  OBVIOUS
<1>8. y \in [HeapId -> Int]
      /\ \A g \in HeapId : y[g] = s.bytes[g] - (IF g = t THEN Size[b.o] ELSE 0)
  <2>1. v.bytes \in [HeapId -> Int] /\ v.bytes = s.bytes
    BY <1>5 DEF States
  <2> QED  BY <1>3, <1>7, <2>1
<1>9. u = [v EXCEPT !.bytes = y]
  BY <1>6, <1>7
<1>10. /\ u \in States /\ u.pool = v.pool /\ u.hdr = v.hdr /\ u.free = v.free
       /\ u.avail = v.avail /\ u.slab = v.slab /\ u.foreign = v.foreign /\ u.bytes = y
  BY ONLY <1>5, <1>8, <1>9 DEF States
<1>11. Sound(u, live \ {b})
  BY <1>5, <1>10, Unaccounted
<1>12. HeldOf(u, live \ {b}) = HeldOf(s, live) \ {b}
  BY <1>1, <1>5, <1>10, HeldFacts DEF HeldOf
<1>13. Account(u, HeldOf(u, live \ {b}))
  <2>1. PICK C : C = HeldOf(s, live)
    OBVIOUS
  <2>2. /\ C \subseteq Blocks /\ Account(s, C) /\ b \in C /\ u.pool = s.pool
        /\ \A h \in HeapId : u.bytes[h] =
             s.bytes[h] - (IF h = s.pool[b.p].owner THEN Size[b.o] ELSE 0)
    BY <1>1, <1>2, <1>5, <1>8, <1>10, <2>1, HeldFacts DEF HeldOf
  <2>3. Account(u, C \ {b})
    BY ONLY <2>2, AccountLess
  <2> QED  BY <1>12, <2>1, <2>3
<1>14. Now' = u
  <2>1. u = [Coalesce(Now, t, b) EXCEPT !.bytes[t] = @ - Size[b.o]]
    BY <1>4, <1>6
  <2>2. Become(u)
    BY <2>1 DEF FreeLocal
  <2> QED  BY <1>10, <2>2, Becomes
<1> QED  BY <1>2, <1>11, <1>13, <1>14 DEF Good

\* ray_heap_gc, outside a dispatch and in one.
LEMMA CollectGood ==
  ASSUME NEW s, s = Now, Good(s, live), GC \/ GCParallel
  PROVE  Good(Now', live')
<1>1. live' = live
  BY DEF GC, GCParallel
<1>2. CASE GC
  <2>1. PICK v, w, u : v = FlushForeign(s) /\ w = FlushSlabs(v) /\ u = ReclaimPools(w)
    OBVIOUS
  <2>2. Good(w, live)
    BY <2>1, FlushForeignGood, FlushSlabsGood
  <2>3. ReturnStrays(w) = w
    BY <2>2, ReturnStraysSame DEF Good, Sound
  <2>4. Good(u, live)
    BY <2>1, <2>2, ReclaimPoolsGood
  <2>5. u \in States
    BY <2>4 DEF Good, Sound
  <2>6. Become(u)
    BY <1>2, <2>1, <2>3 DEF GC
  <2> QED  BY <1>1, <2>4, <2>5, <2>6, Becomes
<1>3. CASE GCParallel
  <2>1. PICK u : u = FlushSlabs(s)
    OBVIOUS
  <2>2. Good(u, live)
    BY <2>1, FlushSlabsGood
  <2>3. u \in States
    BY <2>2 DEF Good, Sound
  <2>4. Become(u)
    BY <1>3, <2>1 DEF GCParallel
  <2> QED  BY <1>1, <2>2, <2>3, <2>4, Becomes
<1> QED  BY <1>2, <1>3

\* Every step keeps the invariant.
LEMMA NextGood == Inv /\ [Next]_vars => Inv'
<1> SUFFICES ASSUME Inv, [Next]_vars PROVE Inv'
  OBVIOUS
<1>1. PICK s : s = Now
  OBVIOUS
<1>2. Good(s, live) /\ par \in BOOLEAN /\ busy \subseteq Worker
  BY <1>1 DEF Inv
<1>3. SUFFICES Good(Now', live') /\ par' \in BOOLEAN /\ busy' \subseteq Worker
  BY DEF Inv
<1>4. ASSUME NEW t \in HeapId, NEW o \in Order, Alloc(t, o)
      PROVE  Good(Now', live') /\ par' = par /\ busy' = busy
  <2>1. Good(Now', live')
    BY <1>1, <1>2, <1>4, AllocSlabGood, AllocFreeGood, AllocNewPoolGood DEF Alloc
  <2>2. par' = par /\ busy' = busy
    BY <1>4 DEF Alloc, AllocSlab, AllocFree, AllocNewPool
  <2> QED  BY <2>1, <2>2
<1>5. ASSUME NEW t \in HeapId, NEW b \in live, Free(t, b)
      PROVE  Good(Now', live') /\ par' = par /\ busy' = busy
  <2>1. Good(Now', live')
    BY <1>1, <1>2, <1>5, FreeToSlabGood, FreeForeignGood, FreeLocalGood DEF Free
  <2>2. par' = par /\ busy' = busy
    BY <1>5 DEF Free, FreeToSlab, FreeForeign, FreeLocal
  <2> QED  BY <2>1, <2>2
<1>6. CASE GC \/ GCParallel
  <2>1. Good(Now', live')
    BY <1>1, <1>2, <1>6, CollectGood
  <2>2. par' = par /\ busy' = busy
    BY <1>6 DEF GC, GCParallel
  <2> QED  BY <1>2, <2>1, <2>2
<1>7. CASE BeginDispatch \/ (\E w \in Worker : EnterDispatch(w)) \/ EndDispatch \/ UNCHANGED vars
  <2>1. Now' = Now /\ live' = live
    BY <1>7 DEF BeginDispatch, EnterDispatch, EndDispatch, vars, Now
  <2>2. par' \in BOOLEAN /\ busy' \subseteq Worker
    BY <1>2, <1>7 DEF BeginDispatch, EnterDispatch, EndDispatch, vars
  <2> QED  BY <1>1, <1>2, <2>1, <2>2
<1> QED  BY <1>2, <1>4, <1>5, <1>6, <1>7 DEF Next

\* The lists are sound and the accounts right in every reachable state.
THEOREM HeapSound == Spec => []Inv
<1> QED  BY InitGood, NextGood, PTL DEF Spec

-----------------------------------------------------------------------------
(* What the invariant says of the properties of the run. *)

\* The places of the model are the places the invariant speaks of.
LEMMA SamePlaces == Inv => Places = PlacesOf(Now, live)
<1> SUFFICES ASSUME Inv PROVE Places = PlacesOf(Now, live)
  OBVIOUS
<1>1. PICK s : s = Now
  OBVIOUS
<1>2. /\ s \in States /\ live \subseteq Blocks /\ Main \in HeapId
      /\ free = s.free /\ slab = s.slab /\ foreign = s.foreign
  BY <1>1 DEF Inv, Good, Sound, HeapId, Now
<1>3. \A h \in HeapId : s.free[h] \subseteq Blocks /\ s.slab[h] \subseteq Blocks /\ s.foreign[h] \subseteq Blocks
  BY <1>2 DEF States
<1>4. ASSUME NEW x \in Places PROVE x \in PlacesOf(s, live)
  <2>1. CASE x \in Place("live", Main, live)
    BY <1>2, <2>1 DEF Place, PlacesOf, AllPlaces
  <2>2. ASSUME NEW h \in HeapId, x \in Place("free", h, free[h]) PROVE x \in PlacesOf(s, live)
    BY <1>2, <1>3, <2>2 DEF Place, PlacesOf, AllPlaces
  <2>3. ASSUME NEW h \in HeapId, x \in Place("slab", h, slab[h]) PROVE x \in PlacesOf(s, live)
    BY <1>2, <1>3, <2>3 DEF Place, PlacesOf, AllPlaces
  <2>4. ASSUME NEW h \in HeapId, x \in Place("foreign", h, foreign[h]) PROVE x \in PlacesOf(s, live)
    BY <1>2, <1>3, <2>4 DEF Place, PlacesOf, AllPlaces
  <2> QED  BY <2>1, <2>2, <2>3, <2>4 DEF Places
<1>5. ASSUME NEW x \in PlacesOf(s, live) PROVE x \in Places
  <2>1. /\ x \in [in : {"live", "free", "slab", "foreign"}, of : HeapId, b : Blocks]
        /\ \/ x.in = "live" /\ x.of = Main /\ x.b \in live
           \/ x.in = "free" /\ x.b \in free[x.of]
           \/ x.in = "slab" /\ x.b \in slab[x.of]
           \/ x.in = "foreign" /\ x.b \in foreign[x.of]
    BY <1>2 DEF PlacesOf, AllPlaces
  <2>2. CASE x.in = "live" /\ x.of = Main /\ x.b \in live
    BY <2>1, <2>2 DEF Places, Place
  <2>3. CASE x.in = "free" /\ x.b \in free[x.of]
    <3>1. x \in Place("free", x.of, free[x.of]) /\ x.of \in HeapId
      BY <2>1, <2>3 DEF Place
    <3> QED  BY <3>1 DEF Places
  <2>4. CASE x.in = "slab" /\ x.b \in slab[x.of]
    <3>1. x \in Place("slab", x.of, slab[x.of]) /\ x.of \in HeapId
      BY <2>1, <2>4 DEF Place
    <3> QED  BY <3>1 DEF Places
  <2>5. CASE x.in = "foreign" /\ x.b \in foreign[x.of]
    <3>1. x \in Place("foreign", x.of, foreign[x.of]) /\ x.of \in HeapId
      BY <2>1, <2>5 DEF Place
    <3> QED  BY <3>1 DEF Places
  <2> QED  BY <2>1, <2>2, <2>3, <2>4, <2>5
<1> QED  BY <1>1, <1>4, <1>5

\* The counters are the sums, and so not negative.
LEMMA InvBytes == Inv => BytesAccounted /\ bytes \in [HeapId -> Nat]
<1> SUFFICES ASSUME Inv PROVE BytesAccounted /\ bytes \in [HeapId -> Nat]
  OBVIOUS
<1>1. PICK s : s = Now
  OBVIOUS
<1>2. Sound(s, live) /\ Account(s, HeldOf(s, live)) /\ s.bytes \in [HeapId -> Int]
      /\ s.bytes = bytes /\ s.pool = pool /\ s.foreign = foreign
  BY <1>1 DEF Inv, Good, Sound, States, Now
<1>3. \A h \in HeapId : bytes[h] = Total({b \in HeldOf(s, live) : s.pool[b.p].owner = h})
  BY <1>2 DEF Account
<1>4. \A h \in HeapId : Total({b \in HeldOf(s, live) : s.pool[b.p].owner = h}) \in Nat
  BY <1>2, HeldFacts, UnitsFinite
<1>5. \A h \in HeapId : {b \in HeldOf(s, live) : s.pool[b.p].owner = h} =
        {b \in live \cup UNION {foreign[g] : g \in HeapId} : Owner(b) = h}
  BY <1>2 DEF HeldOf, Owner
<1> QED  BY <1>2, <1>3, <1>4, <1>5 DEF BytesAccounted

\* Sound lists tile the pools.
LEMMA InvTiling == Inv => Tiling
<1> SUFFICES ASSUME Inv PROVE Tiling
  OBVIOUS
<1>1. PICK s, P : s = Now /\ P = PlacesOf(s, live)
  OBVIOUS
<1>2. /\ Sound(s, live) /\ s \in States /\ live \subseteq Blocks /\ Tiled(P, s.pool)
      /\ Places = P /\ s.pool = pool
  BY <1>1, SamePlaces DEF Inv, Good, Sound, Now
<1>3. TypeOK
  <2>1. s.pool = pool /\ s.hdr = hdr /\ s.free = free /\ s.avail = avail /\ s.slab = slab
        /\ s.foreign = foreign
    BY <1>1 DEF Now
  <2> QED  BY <1>2, <2>1, InvBytes DEF TypeOK, States, Inv
<1>4. \A x \in P : Fits(pool, x.b)
  BY <1>2 DEF Tiled
<1>5. ASSUME NEW p \in Pool, Mapped(p), NEW off \in 1 .. Size[pool[p].order] - 1
      PROVE  Cardinality({x \in Places : Covers(x.b, p, off)}) = 1
  <2>1. off \in Nat
    <3>1. pool[p].order \in Nat
      BY <1>2, HeapAssumption DEF States
    <3>2. Size[pool[p].order] \in Nat
      BY <3>1, SizeSteps
    <3> QED  BY <3>2
  <2>2. PICK x \in P : Covers(x.b, p, off)
    BY <1>2, <1>5 DEF Tiled, Mapped
  <2>3. ASSUME NEW y \in P, Covers(y.b, p, off) PROVE y = x
    <3>1. Meet(y.b, x.b)
      BY <1>4, <2>1, <2>2, <2>3, UnitMeet DEF Fits
    <3> QED  BY <1>2, <3>1 DEF Tiled
  <2>4. {y \in Places : Covers(y.b, p, off)} = {x}
    BY <1>2, <2>2, <2>3
  <2> QED  BY <2>4, FS_Singleton
<1>6. \A x \in Places : Mapped(x.b.p) /\ x.b.off > 0
  BY <1>2, <1>4 DEF Mapped, Fits
<1> QED  BY <1>3, <1>5, <1>6 DEF Tiling

\* No allocation overlaps another, no memory is lost, and nothing refers to an
\* unmapped pool, whatever the pools, the orders and the sequence of calls.
THEOREM TilingAlways == Spec => []Tiling
<1> QED  BY HeapSound, InvTiling, PTL

\* The lists of a heap hold the blocks of its own pools, its queue only those of others,
\* and the allocator finds every free block.
THEOREM FreeAtHomeAlways == Spec => []FreeAtHome
<1>1. Inv => FreeAtHome
  <2> SUFFICES ASSUME Inv PROVE FreeAtHome
    OBVIOUS
  <2>1. AtHome(Now)
    BY DEF Inv, Good, Sound
  <2> QED  BY <2>1 DEF AtHome, FreeAtHome, Now, Owner
<1> QED  BY <1>1, HeapSound, PTL

\* bytes_allocated is the memory in use, through splits, frees by other threads and
\* collections.
THEOREM BytesAccountedAlways == Spec => []BytesAccounted
<1> QED  BY HeapSound, InvBytes, PTL

=============================================================================
