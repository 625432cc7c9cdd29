-------------------------------- MODULE Join --------------------------------
(***************************************************************************)
(* The joins of ops/join.c.  A side of a join is a sequence of key columns *)
(* of cells.  Large right sides are split by the upper bits of the hash    *)
(* into partitions with an open-addressing table each, the others go into  *)
(* one table of chains, built and probed by the tasks of the pool.  An     *)
(* as-of join merges two sorted sides.  Rows count from 1, and the row 0   *)
(* of a pair stands for the missing partner (-1 in the code).              *)
(***************************************************************************)
EXTENDS Sort

CONSTANTS
  HashBits,      \* bits of a hash, 32 in the code
  RadixBits,     \* upper bits that choose a partition
  RadixMin,      \* right sides with more rows are partitioned
  ProbeGrain,    \* left rows of a probing task, 8192
  MaxColumns     \* columns gathered of each side, 16

ASSUME JoinAssumption ==
  /\ {HashBits, RadixMin, ProbeGrain, MaxColumns} \subseteq Nat \ {0}
  /\ RadixBits \in 0 .. HashBits

RowCount(side) == Len(side[1])
AnyNull(side, i) == \E k \in DOMAIN side : side[k][i].null

(* A row with a null key gets a hash of its own. *)
RowHash(side, i) ==
  LET Mix(h, k) == IF side[k][i].null THEN h + i ELSE h * 3 + side[k][i].v
  IN  FoldLeft(Mix, 0, [k \in DOMAIN side |-> k]) % 2 ^ HashBits

(* Faulty variant: two nulls are equal when the values below them are. *)
KeysEqualBelow(L, R, l, r) == \A k \in DOMAIN L : L[k][l].v = R[k][r].v

KeysEqual(L, R, l, r) ==
  \A k \in DOMAIN L : ~ L[k][l].null /\ ~ R[k][r].null /\ L[k][l].v = R[k][r].v

(* The rows of a partition, in the order in which T tasks scatter them.    *)
JoinPartition(side, T, p) ==
  LET n == RowCount(side)
      Of(t) == SelectSeq([i \in 1 .. n |-> i],
                         LAMBDA i : /\ TaskOf(n, T, i) = t
                                    /\ RowHash(side, i) \div 2 ^ (HashBits - RadixBits) = p)
  IN  FlattenSeq([t \in 1 .. T |-> Of(t)])

(* Open addressing: a table of slots holds rows, 0 is empty. *)
SlotCount(rows) == Min({2 ^ k : k \in {j \in 0 .. Len(rows) + 1 : 2 ^ j >= 2 * Len(rows)}})

RECURSIVE FreeSlot(_, _)
FreeSlot(slots, s) == IF slots[s] = 0 THEN s ELSE FreeSlot(slots, (s + 1) % Cardinality(DOMAIN slots))

BuildSlots(side, rows) ==
  LET n == SlotCount(rows)
      Put(slots, r) == [slots EXCEPT ![FreeSlot(slots, RowHash(side, r) % n)] = r]
  IN  FoldLeft(Put, [s \in 0 .. n - 1 |-> 0], rows)

RECURSIVE ProbeSlots(_, _)
ProbeSlots(slots, s) ==
  IF slots[s] = 0 THEN <<>> ELSE <<slots[s]>> \o ProbeSlots(slots, (s + 1) % Cardinality(DOMAIN slots))

(* Pairs of left row l with its matches, or with none for outer joins. *)
PairsOf(l, matches, type) ==
  IF matches = <<>> THEN (IF type = "inner" THEN <<>> ELSE << <<l, 0>> >>)
  ELSE [i \in DOMAIN matches |-> <<l, matches[i]>>]

BuildProbe(L, R, lrows, rrows, type) ==
  LET slots == BuildSlots(R, rrows)
      Matches(l) == SelectSeq(ProbeSlots(slots, RowHash(L, l) % SlotCount(rrows)),
                              LAMBDA r : RowHash(R, r) = RowHash(L, l) /\ KeysEqual(L, R, l, r))
  IN  FlattenSeq([i \in DOMAIN lrows |->
                    PairsOf(lrows[i], IF rrows = <<>> THEN <<>> ELSE Matches(lrows[i]), type)])

RadixJoin(L, R, type, T) ==
  FlattenSeq([p \in 1 .. 2 ^ RadixBits |->
    BuildProbe(L, R, JoinPartition(L, T, p - 1), JoinPartition(R, T, p - 1), type)])

(* The keys below max of one side of an inner join, to skip rows of the    *)
(* other: a key outside the bitmap is never skipped.                       *)
Bitmap(side) == {side[1][i].v : i \in 1 .. RowCount(side)} \cap Nat
SkippedBy(bits, v) == v >= 0 /\ bits # {} /\ v <= Max(bits) /\ v \notin bits

(* Chains: rows in the order in which the tasks won the heads of the slots *)
(* stand reversed.  The filters apply to an inner join of one key, when    *)
(* one side is more than twice as long; that of the left side only when it *)
(* comes from a factorized expansion.                                      *)
ChainedJoin(L, R, type, built, factorized) ==
  LET one == Len(L) = 1 /\ type = "inner"
      asp == IF one /\ factorized /\ RowCount(R) > 2 * RowCount(L) THEN Bitmap(L) ELSE {}
      sjoin == IF one /\ RowCount(L) > 2 * RowCount(R) THEN Bitmap(R) ELSE {}
      slots == SlotCount(built)
      inserted == SelectSeq(built, LAMBDA r : ~ SkippedBy(asp, R[1][r].v))
      Chain(s) == Reverse(SelectSeq(inserted, LAMBDA r : RowHash(R, r) % slots = s))
      Matches(l) == IF SkippedBy(sjoin, L[1][l].v) THEN <<>>
                    ELSE SelectSeq(Chain(RowHash(L, l) % slots), LAMBDA r : KeysEqual(L, R, l, r))
      Task(t) == {l \in 1 .. RowCount(L) : (l - 1) \div ProbeGrain = t - 1}
      Fill(t) == FlattenSeq([i \in 1 .. Cardinality(Task(t)) |->
                               PairsOf((t - 1) * ProbeGrain + i, Matches((t - 1) * ProbeGrain + i), type)])
  IN  FlattenSeq([t \in 1 .. CeilOf(RowCount(L), ProbeGrain) |-> Fill(t)])

(* A full join appends the right rows nobody met. *)
JoinPairs(L, R, type, T, built, factorized, oom) ==
  LET pairs == IF RowCount(R) > RadixMin /\ ~ oom THEN RadixJoin(L, R, type, T)
               ELSE ChainedJoin(L, R, type, built, factorized)
      met == {pairs[i][2] : i \in DOMAIN pairs}
      rest == SelectSeq([r \in 1 .. RowCount(R) |-> r], LAMBDA r : r \notin met)
  IN  IF type = "full" THEN pairs \o [i \in DOMAIN rest |-> <<0, rest[i]>>] ELSE pairs

AntiRows(L, R, built) ==
  LET pairs == ChainedJoin(L, R, "left", built, FALSE)
      alone == SelectSeq(pairs, LAMBDA p : p[2] = 0)
  IN  [i \in DOMAIN alone |-> alone[i][1]]

(* The joined table: the columns of the left side, and those of the right  *)
(* that are no keys; a column is gathered by its side of the pairs.        *)
Gathered(cols, rows) ==
  [c \in DOMAIN cols |-> [p \in DOMAIN rows |->
     IF rows[p] = 0 THEN [v |-> 0, null |-> TRUE] ELSE cols[c][rows[p]]]]
JoinedTable(L, R, keys, pairs) ==
  LET Side(i) == [p \in DOMAIN pairs |-> pairs[p][i]]
      Cut(cols) == SubSeq(cols, 1, Min({MaxColumns, Len(cols)}))
  IN  Gathered(Cut(L), Side(1)) \o Gathered(Cut(SubSeq(R, keys + 1, Len(R))), Side(2))

-----------------------------------------------------------------------------
(* As-of: sides sorted by keys and time, the time is the last column.      *)
Before(S, a, b) == CompareRows(S, [k \in DOMAIN S |-> FALSE], [k \in DOMAIN S |-> FALSE], a, b)
ByKeysAndTime(S) ==
  LET plain == [k \in DOMAIN S |-> [i \in DOMAIN S[k] |-> [v |-> S[k][i].v, null |-> FALSE]]]
  IN  InsertionSort([i \in 1 .. RowCount(S) |-> i], LAMBDA a, b : Before(plain, a, b) > 0)

(* Sign of the keys of right row r against those of left row l. *)
CompareKeys(L, R, l, r) ==
  LET told == {k \in 1 .. Len(L) - 1 : L[k][l].v # R[k][r].v}
  IN  IF told = {} THEN 0 ELSE IF R[Min(told)][r].v < L[Min(told)][l].v THEN -1 ELSE 1

RECURSIVE Rewind(_, _, _, _, _)
Rewind(L, R, order, l, rp) ==
  IF rp > 1 /\ \A k \in 1 .. Len(L) - 1 : R[k][order[rp - 1]].v >= L[k][l].v
  THEN Rewind(L, R, order, l, rp - 1) ELSE rp

(* The right pointer goes on while the row is of a smaller partition, or   *)
(* of this one and not later; the last of the latter is the best so far.   *)
RECURSIVE Advance(_, _, _, _, _)
Advance(L, R, order, l, at) ==
  LET r == order[at.rp]
      keys == CompareKeys(L, R, l, r)
      late == R[Len(R)][r].v > L[Len(L)][l].v
  IN  IF at.rp > Len(order) \/ keys > 0 \/ (keys = 0 /\ late) THEN at
      ELSE Advance(L, R, order, l, [rp |-> at.rp + 1, best |-> IF keys = 0 THEN r ELSE at.best])

(* Best right row of every left one, 0 for none. *)
AsofMatches(L, R) ==
  LET left == ByKeysAndTime(L)
      right == ByKeysAndTime(R)
      New(p) == p > 1 /\ \E k \in 1 .. Len(L) - 1 : L[k][left[p]].v # L[k][left[p - 1]].v
      Step(a, p) ==
        LET from == IF New(p) THEN [rp |-> Rewind(L, R, right, left[p], a.rp), best |-> 0]
                    ELSE [rp |-> a.rp, best |-> a.best]
            at == Advance(L, R, right, left[p], from)
        IN  [rp |-> at.rp, best |-> at.best, match |-> [a.match EXCEPT ![left[p]] = at.best]]
  IN  FoldLeft(Step, [rp |-> 1, best |-> 0, match |-> [l \in 1 .. RowCount(L) |-> 0]],
               [p \in DOMAIN left |-> p]).match

AsofPairs(L, R, type) ==
  LET match == AsofMatches(L, R)
  IN  SelectSeq([l \in DOMAIN match |-> <<l, match[l]>>], LAMBDA p : type # "inner" \/ p[2] # 0)
=============================================================================
