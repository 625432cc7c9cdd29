----------------------------- MODULE FoldTheorems ------------------------------
(***************************************************************************)
(* Folds over finite sets and sequences, for the proofs of the modules     *)
(* that use them.  A fold of the community modules is a recursive function *)
(* on the subsets of what it folds over.  There is such a function, and    *)
(* what holds at the start and is kept by a step holds of the result: both *)
(* by the least size at which it would fail.                               *)
(***************************************************************************)
EXTENDS FiniteSetTheorems, WellFoundedInduction, NaturalsInduction, FiniteSetsExt, TLAPS

-----------------------------------------------------------------------------
(* Induction, as the existence of a least number. *)

\* The order on the natural numbers, as a relation.
Less == {ss \in Nat \X Nat : ss[1] < ss[2]}

\* A set of natural numbers that is not empty has a least one.
LEMMA LeastExists ==
  ASSUME NEW T, T \subseteq Nat, T # {}
  PROVE  \E x \in T : \A y \in T : x <= y
<1>1. IsWellFoundedOn(Less, Nat)
  BY NatLessThanWellFounded DEF OpToRel, Less
<1>2. PICK x \in T : \A y \in T : ~(<<y, x>> \in Less)
  BY <1>1, WFMin
<1>3. ASSUME NEW y \in T, y < x PROVE FALSE
  <2>1. <<y, x>> \in Nat \X Nat /\ <<y, x>>[1] = y /\ <<y, x>>[2] = x
    OBVIOUS
  <2>2. <<y, x>> \in Less
    BY <1>3, <2>1 DEF Less
  <2> QED  BY <1>2, <2>2
<1> QED  BY <1>3

-----------------------------------------------------------------------------
(* Folds. *)

\* What a fold computes for the subsets of S that have at most n elements.
UpTo(S, n) == {ss \in SUBSET S : Cardinality(ss) <= n}
Computed(g, S, n, base, F, c) ==
  g = [ss \in UpTo(S, n) |-> IF ss = {} THEN base ELSE F[<<c[ss], g[ss \ {c[ss]}]>>]]

\* c names an element of every subset of S that has one; g is the fold of F that takes
\* the elements in that order; J is kept by the steps of the fold it.
Chooses(S, c) == \A ss \in SUBSET S : ss # {} => c[ss] \in ss
Recursive(g, S, base, F, c) ==
  g = [ss \in SUBSET S |-> IF ss = {} THEN base ELSE F[<<c[ss], g[ss \ {c[ss]}]>>]]
Inductive(it, S, J, c) ==
  /\ it[{}] \in J[{}]
  /\ \A ss \in SUBSET S : ss # {} /\ it[ss \ {c[ss]}] \in J[ss \ {c[ss]}] => it[ss] \in J[ss]

\* There is such a function for every n ...
LEMMA ComputedExists ==
  ASSUME NEW S, IsFiniteSet(S), NEW base, NEW F, NEW c,
         \A ss \in SUBSET S : ss # {} => c[ss] \in ss, NEW n \in Nat
  PROVE  \E g : Computed(g, S, n, base, F, c)
<1> DEFINE T == {m \in Nat : ~\E g : Computed(g, S, m, base, F, c)}
<1>1. SUFFICES ASSUME T # {} PROVE FALSE
  OBVIOUS
<1>2. PICK m \in T : \A y \in T : m <= y
  BY <1>1, LeastExists
<1>3. ASSUME NEW ss \in SUBSET S PROVE IsFiniteSet(ss) /\ Cardinality(ss) \in Nat
  BY FS_Subset, FS_CardinalityType
<1>4. CASE m = 0
  <2>1. ASSUME NEW ss \in UpTo(S, 0) PROVE ss = {}
    <3>1. Cardinality(ss) = 0
      BY <1>3 DEF UpTo
    <3> QED  BY <1>3, <3>1, FS_EmptySet DEF UpTo
  <2>2. PICK g : g = [ss \in UpTo(S, 0) |-> base]
    OBVIOUS
  <2>3. g = [ss \in UpTo(S, 0) |-> IF ss = {} THEN base ELSE F[<<c[ss], g[ss \ {c[ss]}]>>]]
    BY <2>1, <2>2
  <2>4. Computed(g, S, 0, base, F, c)
    BY <2>3 DEF Computed
  <2> QED  BY <1>2, <1>4, <2>4
<1>5. CASE m # 0
  <2>1. m - 1 \in Nat /\ m - 1 \notin T
    BY <1>2, <1>5
  <2>2. PICK f : Computed(f, S, m - 1, base, F, c)
    BY <2>1
  <2>3. PICK g : g = [ss \in UpTo(S, m) |-> IF ss = {} THEN base ELSE F[<<c[ss], f[ss \ {c[ss]}]>>]]
    OBVIOUS
  <2>4. \A ss \in UpTo(S, m - 1) : f[ss] = IF ss = {} THEN base ELSE F[<<c[ss], f[ss \ {c[ss]}]>>]
    BY <2>2 DEF Computed
  <2>5. ASSUME NEW ss \in UpTo(S, m - 1) PROVE g[ss] = f[ss]
    <3>1. ss \in UpTo(S, m)
      BY <1>3, <2>1 DEF UpTo
    <3> QED  BY <2>3, <2>4, <3>1
  <2>6. ASSUME NEW ss \in UpTo(S, m), ss # {} PROVE ss \ {c[ss]} \in UpTo(S, m - 1)
    <3>1. ss \in SUBSET S /\ c[ss] \in ss /\ IsFiniteSet(ss) /\ Cardinality(ss) <= m
          /\ Cardinality(ss) \in Nat
      BY <1>3, <2>6 DEF UpTo
    <3>2. Cardinality(ss \ {c[ss]}) = Cardinality(ss) - 1
      BY <3>1, FS_RemoveElement
    <3>3. Cardinality(ss \ {c[ss]}) <= m - 1
      BY <1>2, <3>1, <3>2
    <3> QED  BY <3>1, <3>3 DEF UpTo
  <2>7. ASSUME NEW ss \in UpTo(S, m)
        PROVE  (IF ss = {} THEN base ELSE F[<<c[ss], f[ss \ {c[ss]}]>>])
                 = (IF ss = {} THEN base ELSE F[<<c[ss], g[ss \ {c[ss]}]>>])
    BY <2>5, <2>6
  <2>8. g = [ss \in UpTo(S, m) |-> IF ss = {} THEN base ELSE F[<<c[ss], g[ss \ {c[ss]}]>>]]
    BY <2>3, <2>7
  <2>9. Computed(g, S, m, base, F, c)
    BY <2>8 DEF Computed
  <2> QED  BY <1>2, <2>9
<1> QED  BY <1>2, <1>4, <1>5

\* ... and so for all subsets.
LEMMA FoldExists ==
  ASSUME NEW S, IsFiniteSet(S), NEW base, NEW F, NEW c, Chooses(S, c)
  PROVE  \E g : Recursive(g, S, base, F, c)
<1>1. PICK n \in Nat : n = Cardinality(S)
  BY FS_CardinalityType
<1>2. UpTo(S, n) = SUBSET S
  BY <1>1, FS_Subset DEF UpTo
<1>3. PICK g : Computed(g, S, n, base, F, c)
  BY ComputedExists DEF Chooses
<1>4. Recursive(g, S, base, F, c)
  BY <1>2, <1>3 DEF Computed, Recursive
<1> QED  BY <1>4

\* What holds at the start of a fold and after every step holds of what it computes.
LEMMA FoldInduction ==
  ASSUME NEW S, IsFiniteSet(S), NEW it, NEW J, NEW c, Chooses(S, c), Inductive(it, S, J, c)
  PROVE  \A ss \in SUBSET S : it[ss] \in J[ss]
<1> DEFINE Bad == {ss \in SUBSET S : it[ss] \notin J[ss]}
           T == {Cardinality(ss) : ss \in Bad}
<1>1. SUFFICES ASSUME Bad # {} PROVE FALSE
  OBVIOUS
<1>2. ASSUME NEW ss \in SUBSET S PROVE IsFiniteSet(ss) /\ Cardinality(ss) \in Nat
  BY FS_Subset, FS_CardinalityType
<1>3. T \subseteq Nat /\ T # {}
  BY <1>1, <1>2
<1>4. PICK n \in T : \A y \in T : n <= y
  BY <1>3, LeastExists
<1>5. PICK ss \in Bad : n = Cardinality(ss)
  BY <1>4
<1>6. ss # {}
  BY <1>5 DEF Inductive
<1>7. PICK rest : rest = ss \ {c[ss]}
  OBVIOUS
<1>8. c[ss] \in ss /\ rest \in SUBSET S /\ Cardinality(rest) = Cardinality(ss) - 1
  BY <1>2, <1>5, <1>6, <1>7, FS_RemoveElement DEF Chooses
<1>9. rest \notin Bad
  <2>1. rest \in Bad => Cardinality(rest) \in T
    OBVIOUS
  <2>2. Cardinality(ss) \in Nat /\ Cardinality(rest) \in Nat
    BY <1>2, <1>5, <1>8
  <2>3. PICK k \in Nat, m \in Nat : k = Cardinality(rest) /\ m = Cardinality(ss)
    BY <2>2
  <2>4. k \in T => m <= k
    BY <1>4, <1>5, <2>3
  <2>5. k = m - 1
    BY <1>8, <2>3
  <2> QED  BY <2>1, <2>3, <2>4, <2>5
<1>10. it[rest] \in J[rest]
  BY <1>8, <1>9
<1> QED  BY <1>5, <1>6, <1>7, <1>10 DEF Inductive

\* The element a fold of the community modules takes next.
First(S) == [ss \in SUBSET S |-> CHOOSE x \in ss : TRUE]

\* It is one of those that are left.
LEMMA FirstMember ==
  ASSUME NEW S, NEW c, c = First(S)
  PROVE  Chooses(S, c) /\ \A ss \in SUBSET S : c[ss] = CHOOSE x \in ss : TRUE
<1>1. ASSUME NEW ss \in SUBSET S, ss # {} PROVE (CHOOSE x \in ss : TRUE) \in ss
  BY <1>1
<1> QED  BY <1>1 DEF First, Chooses

\* A fold over a sequence takes the last element first.
Latest(S) == [ss \in SUBSET S |-> Max(ss)]

\* A set of indices has a greatest.
LEMMA MaxMember ==
  ASSUME NEW n \in Nat, NEW ss \in SUBSET (1 .. n), ss # {}
  PROVE  Max(ss) \in ss
<1> DEFINE T == {m \in Nat : \A x \in ss : x <= m}
<1>1. n \in T
  OBVIOUS
<1>2. PICK m \in T : \A y \in T : m <= y
  BY <1>1, LeastExists
<1>3. m \in ss
  <2> SUFFICES ASSUME m \notin ss PROVE FALSE
    OBVIOUS
  <2>1. \A x \in ss : x \in Nat /\ x >= 1 /\ x <= m /\ x # m
    BY <1>2
  <2>2. m - 1 \in Nat
    <3>1. PICK x \in ss : TRUE
      OBVIOUS
    <3>2. x >= 1 /\ x <= m /\ x \in Nat /\ m \in Nat
      BY <1>2, <2>1
    <3> QED  BY <3>2
  <2>3. m - 1 \in T
    BY <1>2, <2>1, <2>2
  <2> QED  BY <1>2, <2>3
<1>4. \A y \in ss : m >= y
  BY <1>2
<1>5. \E x \in ss : \A y \in ss : x >= y
  BY <1>3, <1>4
<1> QED  BY <1>5 DEF Max

\* So every step of such a fold has an element to take.
LEMMA LatestMember ==
  ASSUME NEW n \in Nat, NEW c, c = Latest(1 .. n)
  PROVE  Chooses(1 .. n, c) /\ \A ss \in SUBSET (1 .. n) : c[ss] = Max(ss)
<1>1. ASSUME NEW ss \in SUBSET (1 .. n), ss # {} PROVE Max(ss) \in ss
  BY <1>1, MaxMember
<1> QED  BY <1>1 DEF Latest, Chooses

\* A step of a fold, as a function, keeps J.
Keeps(F, S, J, c) ==
  \A ss \in SUBSET S : ss # {} => \A x \in J[ss \ {c[ss]}] : F[<<c[ss], x>>] \in J[ss]

\* There is a fold, and it stays in J.
LEMMA FoldReaches ==
  ASSUME NEW S, IsFiniteSet(S), NEW base, NEW F, NEW c, Chooses(S, c),
         NEW J, base \in J[{}], Keeps(F, S, J, c)
  PROVE  \E g : Recursive(g, S, base, F, c) /\ \A ss \in SUBSET S : g[ss] \in J[ss]
<1>1. PICK g : Recursive(g, S, base, F, c)
  BY FoldExists
<1>2. \A ss \in SUBSET S : g[ss] = IF ss = {} THEN base ELSE F[<<c[ss], g[ss \ {c[ss]}]>>]
  BY <1>1 DEF Recursive
<1>3. g[{}] = base
  BY <1>2
<1>4. \A ss \in SUBSET S : ss # {} /\ g[ss \ {c[ss]}] \in J[ss \ {c[ss]}] => g[ss] \in J[ss]
  BY <1>2 DEF Keeps
<1>5. Inductive(g, S, J, c)
  BY <1>3, <1>4 DEF Inductive
<1> QED  BY <1>1, <1>5, FoldInduction

=============================================================================
