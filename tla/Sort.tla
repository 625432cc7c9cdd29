-------------------------------- MODULE Sort --------------------------------
(***************************************************************************)
(* The sort of ops/sort.c: columns are encoded into unsigned keys that     *)
(* order like the values, and pairs <<key, row>> are sorted by introsort,  *)
(* by a least-significant-digit radix sort over tasks of the pool, by a    *)
(* most-significant-digit one, or packed into one word; several columns    *)
(* are composed into one key by their ranges, or by dense ranks, and what  *)
(* fits neither is merge-sorted with a comparator.  Rows count from 1.     *)
(***************************************************************************)
EXTENDS Integers, Sequences, FiniteSets, SequencesExt

CONSTANTS
  DigitBits,     \* bits of a radix digit, 8 in the code
  Width,         \* digits of a key, 8 in the code
  PackDigits,    \* keys of at most so many digits are packed, 3 in the code
  MsdDigits,     \* keys of more digits are split by the top one first, 5
  InsertMax,     \* introsort ends with insertion at this length, 32
  BucketMax,     \* a bucket of this length is introsorted, 64
  SmallMax,      \* no keys are encoded for so few rows, 64
  IntroMax,      \* no radix sort for so few rows, 4096
  Grain          \* rows of a task of the pool, 8192

ASSUME SortAssumption ==
  {DigitBits, Width, PackDigits, MsdDigits, InsertMax, BucketMax, SmallMax, IntroMax, Grain}
    \subseteq Nat \ {0}

Base == 2 ^ DigitBits
Top == Base ^ Width - 1
Half == (Top + 1) \div 2
Digit(key, d) == (key \div Base ^ d) % Base

(* A cell has a value of -Half .. Half - 1, also below a null.             *)
Encode(cell, desc, nullsFirst) ==
  LET e == IF cell.null THEN (IF nullsFirst # desc THEN 0 ELSE Top) ELSE cell.v + Half
  IN  IF desc THEN Top - e ELSE e

DecodeKey(key, desc) == (IF desc THEN Top - key ELSE key) - Half

Pairs(keys) == FoldLeft(LAMBDA done, key : Append(done, <<key, Len(done) + 1>>), <<>>, keys)
Rows(pairs) == [i \in DOMAIN pairs |-> pairs[i][2]]

-----------------------------------------------------------------------------
(* Sorts by comparison.  Greater(a, b) says that a belongs after b.        *)
Exchange(s, i, j) == [s EXCEPT ![i] = s[j], ![j] = s[i]]

InsertInto(s, x, Greater(_, _)) ==
  LET after == {i \in DOMAIN s : \A j \in i .. Len(s) : Greater(s[j], x)}
      at == IF after = {} THEN Len(s) + 1 ELSE Min(after)
  IN  InsertAt(s, at, x)
InsertionSort(s, Greater(_, _)) ==
  FoldLeft(LAMBDA done, x : InsertInto(done, x, Greater), <<>>, s)

RECURSIVE SiftDownMax(_, _, _)
SiftDownMax(h, n, i) ==
  LET Larger(b, c) == IF c <= n /\ h[c][1] > h[b][1] THEN c ELSE b
      largest == Larger(Larger(i, 2 * i), 2 * i + 1)
  IN  IF largest = i THEN h ELSE SiftDownMax(Exchange(h, i, largest), n, largest)

Heapify(h) ==
  FoldLeft(LAMBDA a, i : SiftDownMax(a, Len(h), i), h, Reverse([i \in 1 .. Len(h) \div 2 |-> i]))
HeapSort(s) ==
  FoldLeft(LAMBDA a, last : SiftDownMax(Exchange(a, 1, last), last - 1, 1),
           Heapify(s), Reverse([i \in 1 .. Len(s) - 1 |-> i + 1]))

(* Median of three as the pivot, moved to the end; smaller keys to the     *)
(* front; the pivot in between.                                            *)
PivotIndex(s) ==
  LET mid == Len(s) \div 2 + 1
      a == s[1][1]
      b == s[mid][1]
      c == s[Len(s)][1]
  IN  IF a < b THEN (IF b < c THEN mid ELSE IF a < c THEN Len(s) ELSE 1)
      ELSE (IF a < c THEN 1 ELSE IF b < c THEN Len(s) ELSE mid)

Partition(s) ==
  LET n == Len(s)
      start == Exchange(s, PivotIndex(s), n)
      Step(a, i) == IF a.s[i][1] < start[n][1]
                    THEN [s |-> Exchange(a.s, i, a.lo), lo |-> a.lo + 1] ELSE a
      Placed(end) == [s |-> Exchange(end.s, end.lo, n), at |-> end.lo]
  IN  Placed(FoldLeft(Step, [s |-> start, lo |-> 1], [i \in 1 .. n - 1 |-> i]))

RECURSIVE IntroSortTo(_, _)
IntroSortTo(s, depth) ==
  IF Len(s) <= InsertMax THEN InsertionSort(s, LAMBDA a, b : a[1] > b[1])
  ELSE IF depth = 0 THEN HeapSort(s)
  ELSE LET Halves(p) == IntroSortTo(SubSeq(p.s, 1, p.at - 1), depth - 1) \o <<p.s[p.at]>>
                          \o IntroSortTo(SubSeq(p.s, p.at + 1, Len(s)), depth - 1)
       IN  Halves(Partition(s))

IntroSort(s) == IntroSortTo(s, 2 * Max({k \in 0 .. Len(s) : 2 ^ k <= Len(s) \/ k = 0}))

-----------------------------------------------------------------------------
(* Parallel passes: task t of T has the t-th part of the rows.             *)
CeilOf(a, b) == (a + b - 1) \div b
TaskOf(n, T, i) == (i - 1) \div CeilOf(n, T) + 1

(* Faulty variant: all digits of a task before the next task. *)
TargetByTask(s, T, d, i) ==
  LET mine == <<TaskOf(Len(s), T, i), Digit(s[i][1], d)>>
      Earlier(j) == LET other == <<TaskOf(Len(s), T, j), Digit(s[j][1], d)>>
                    IN  \/ other[1] < mine[1]
                        \/ other[1] = mine[1] /\ other[2] < mine[2]
                        \/ other = mine /\ j <= i
  IN  Cardinality({j \in DOMAIN s : Earlier(j)})

(* Where a pass puts the element i: behind smaller digits, behind the same *)
(* digit of earlier tasks, behind the same digit earlier in its task.      *)
Target(s, T, d, i) ==
  LET mine == Digit(s[i][1], d)
      Earlier(j) == LET dj == Digit(s[j][1], d)
                    IN  \/ dj < mine
                        \/ dj = mine /\ TaskOf(Len(s), T, j) < TaskOf(Len(s), T, i)
                        \/ dj = mine /\ TaskOf(Len(s), T, j) = TaskOf(Len(s), T, i) /\ j <= i
  IN  Cardinality({j \in DOMAIN s : Earlier(j)})

RadixPass(s, T, d) ==
  IF \A i, j \in DOMAIN s : Digit(s[i][1], d) = Digit(s[j][1], d) THEN s
  ELSE LET to == [i \in DOMAIN s |-> Target(s, T, d, i)]
       IN  [p \in DOMAIN s |-> s[CHOOSE i \in DOMAIN s : to[i] = p]]

RadixSort(s, T, digits) ==
  FoldLeft(LAMBDA a, d : RadixPass(a, T, d), s, [i \in 1 .. digits |-> i - 1])

(* One pass by the top digit that is not uniform, then each bucket by the  *)
(* digits below it.                                                        *)
RECURSIVE MsdSort(_, _, _)
MsdSort(s, T, digits) ==
  LET d == digits - 1
      Bucket(b) == SelectSeq(RadixPass(s, T, d), LAMBDA e : Digit(e[1], d) = b)
      SortBucket(x) == IF Len(x) <= BucketMax THEN IntroSort(x) ELSE RadixSort(x, 1, d)
  IN  IF digits <= MsdDigits THEN RadixSort(s, T, digits)
      ELSE IF \A i, j \in DOMAIN s : Digit(s[i][1], d) = Digit(s[j][1], d)
      THEN MsdSort(s, T, digits - 1)
      ELSE FlattenSeq([b \in 1 .. Base |-> SortBucket(Bucket(b - 1))])

(* Rows in tasks of Grain, as ray_pool_dispatch deals them. *)
GrainStarts(n) == {i \in 1 .. n : (i - 1) % Grain = 0}
GrainOf(n, start) == start .. (IF start + Grain - 1 < n THEN start + Grain - 1 ELSE n)

(* Digits in which keys differ: within each task from its first row, and   *)
(* the first rows of the T equal parts.  Digits that are equal everywhere  *)
(* on top are left out of the sort.                                        *)
DifferingDigits(keys, i, j) == {d \in 0 .. Width - 1 : Digit(keys[i], d) # Digit(keys[j], d)}
KeyDigits(keys, T) ==
  LET n == Len(keys)
      parts == {i \in 1 .. n : (i - 1) % CeilOf(n, T) = 0}
      seen == IF T = 1 THEN UNION {DifferingDigits(keys, 1, i) : i \in 1 .. n}
              ELSE UNION {UNION {DifferingDigits(keys, s, i) : i \in GrainOf(n, s)} : s \in GrainStarts(n)}
                     \cup UNION {DifferingDigits(keys, 1, i) : i \in parts}
  IN  IF n <= 1 \/ seen = {} THEN 1 ELSE Max(seen) + 1

(* Neighbours out of order: inside the tasks, and across their borders.    *)
Inversions(keys, reversed) ==
  LET n == Len(keys)
      Bad(a, b) == IF reversed THEN b > a ELSE b < a
      inside == {i \in 2 .. n : i \notin GrainStarts(n) /\ Bad(keys[i - 1], keys[i])}
      across == {i \in GrainStarts(n) \ {1} : Bad(keys[i - 1], keys[i])}
  IN  Cardinality(inside) + Cardinality(across)

(* Keys cut to their low digits: sorted already, the reverse of it, or     *)
(* radix-sorted.                                                           *)
PackedSort(keys, T, digits) ==
  LET low == [i \in DOMAIN keys |-> keys[i] % Base ^ digits]
  IN  IF Inversions(low, FALSE) = 0 THEN Pairs(low)
      ELSE IF Inversions(low, TRUE) = 0 THEN Reverse(Pairs(low))
      ELSE RadixSort(Pairs(low), T, digits)

SortKeys(keys, T, digits) ==
  IF Inversions(keys, FALSE) = 0 THEN Pairs(keys)
  ELSE MsdSort(Pairs(keys), T, digits)

-----------------------------------------------------------------------------
(* The comparator of rows, over columns of cells.                          *)
CompareCells(a, b, desc, nullsFirst) ==
  IF a.null /\ b.null THEN 0
  ELSE IF a.null THEN (IF nullsFirst THEN -1 ELSE 1)
  ELSE IF b.null THEN (IF nullsFirst THEN 1 ELSE -1)
  ELSE IF a.v = b.v THEN 0
  ELSE IF (a.v < b.v) # desc THEN -1 ELSE 1

CompareRows(cols, descs, nullsFirst, a, b) ==
  LET cmp == [k \in DOMAIN cols |-> CompareCells(cols[k][a], cols[k][b], descs[k], nullsFirst[k])]
      told == {k \in DOMAIN cols : cmp[k] # 0}
  IN  IF told = {} THEN 0 ELSE cmp[Min(told)]

(* Runs of the T workers, merged two by two; the left one wins a tie.      *)
(* "after" holds the pairs of rows <<a, b>> where a belongs after b.       *)
RECURSIVE MergeRuns(_, _, _)
MergeRuns(x, y, after) ==
  IF x = <<>> THEN y
  ELSE IF y = <<>> THEN x
  ELSE IF <<x[1], y[1]>> \in after THEN <<y[1]>> \o MergeRuns(x, Tail(y), after)
  ELSE <<x[1]>> \o MergeRuns(Tail(x), y, after)

RECURSIVE MergePairs(_, _)
MergePairs(runs, after) ==
  IF Len(runs) <= 1 THEN FlattenSeq(runs)
  ELSE MergePairs([p \in 1 .. CeilOf(Len(runs), 2) |->
                     IF 2 * p > Len(runs) THEN runs[2 * p - 1]
                     ELSE MergeRuns(runs[2 * p - 1], runs[2 * p], after)], after)

MergeSort(n, T, After(_, _)) ==
  LET chunk == CeilOf(n, T)
      Run(t) == InsertionSort(SelectSeq([i \in 1 .. n |-> i], LAMBDA i : TaskOf(n, T, i) = t), After)
      after == {p \in (1 .. n) \X (1 .. n) : After(p[1], p[2])}
  IN  MergePairs([t \in 1 .. CeilOf(n, chunk) |-> Run(t)], after)

-----------------------------------------------------------------------------
(* Several columns in one key: each value as its distance from the least,  *)
(* in as many bits as the range takes, the first column on top.            *)
BitsFor(range) == Min({b \in 1 .. DigitBits * Width + 1 : 2 ^ b > range \/ b > DigitBits * Width})

LeastOf(col) == Min({col[i].v : i \in DOMAIN col})
RangeOf(col) == Max({col[i].v : i \in DOMAIN col}) - LeastOf(col)

SumSeq(s) == FoldLeft(LAMBDA a, x : a + x, 0, s)
Compose(parts, bits) ==
  FoldLeft(LAMBDA a, k : a * 2 ^ bits[k] + parts[k], 0, [k \in DOMAIN parts |-> k])

CompositeKeys(cols, descs) ==
  LET bits == [k \in DOMAIN cols |-> BitsFor(RangeOf(cols[k]))]
      Part(k, i) == LET p == cols[k][i].v - LeastOf(cols[k])
                    IN  IF descs[k] THEN RangeOf(cols[k]) - p ELSE p
  IN  [bits |-> SumSeq(bits),
       keys |-> [i \in DOMAIN cols[1] |-> Compose([k \in DOMAIN cols |-> Part(k, i)], bits)]]

SortEncoded(keys, T) ==
  LET By(digits) == IF digits <= PackDigits THEN PackedSort(keys, T, digits)
                    ELSE SortKeys(keys, T, digits)
  IN  IF Len(keys) <= IntroMax THEN IntroSort(Pairs(keys)) ELSE By(KeyDigits(keys, T))

(* Dense ranks of a column's own sort. *)
DenseRanks(col, desc, nullsFirst, order) ==
  LET Step(a, i) ==
        LET rank == IF i = 1 THEN 0
                    ELSE a[order[i - 1]] + (IF CompareCells(col[order[i - 1]], col[order[i]],
                                                            desc, nullsFirst) # 0 THEN 1 ELSE 0)
        IN  [a EXCEPT ![order[i]] = rank]
  IN  FoldLeft(Step, [i \in DOMAIN col |-> 0], [i \in DOMAIN col |-> i])

RankKeys(cols, descs, nullsFirst, T) ==
  LET Order(k) == Rows(SortEncoded([i \in DOMAIN cols[k] |->
                         Encode(cols[k][i], descs[k], nullsFirst[k])], T))
      Keys(ranks, bits) ==
        [bits |-> SumSeq(bits),
         keys |-> [i \in DOMAIN cols[1] |-> Compose([k \in DOMAIN cols |-> ranks[k][i]], bits)]]
      Ranked(ranks) ==
        Keys(ranks, [k \in DOMAIN cols |-> BitsFor(Max({ranks[k][i] : i \in DOMAIN cols[k]}))])
  IN  Ranked([k \in DOMAIN cols |-> DenseRanks(cols[k], descs[k], nullsFirst[k], Order(k))])

(* The index sort: rows in order, for T workers (1 without a pool). *)
SortIndices(cols, descs, nullsFirst, T) ==
  LET n == Len(cols[1])
      After(a, b) == CompareRows(cols, descs, nullsFirst, a, b) > 0
      Wide(k) == CeilOf(k.bits, DigitBits)
      ByRank(ranked) ==
        IF ranked.bits > DigitBits * Width THEN MergeSort(n, T, After)
        ELSE Rows(IF n <= IntroMax THEN IntroSort(Pairs(ranked.keys))
                  ELSE MsdSort(Pairs(ranked.keys), T, Wide(ranked)))
      ByValue(composite) ==
        IF composite.bits > DigitBits * Width THEN ByRank(RankKeys(cols, descs, nullsFirst, T))
        ELSE Rows(IF n <= IntroMax /\ Inversions(composite.keys, FALSE) # 0
                  THEN IntroSort(Pairs(composite.keys)) ELSE SortKeys(composite.keys, T, Wide(composite)))
  IN  IF n <= SmallMax THEN InsertionSort([i \in 1 .. n |-> i], After)
      ELSE IF Len(cols) = 1
      THEN Rows(SortEncoded([i \in 1 .. n |-> Encode(cols[1][i], descs[1], nullsFirst[1])], T))
      ELSE ByValue(CompositeKeys(cols, descs))

-----------------------------------------------------------------------------
(* What is made of the order: positions of the rows, groups of equal size, *)
(* the first rows only, and the key column decoded instead of gathered.    *)
RankOf(col, T) ==
  LET Places(order) == [i \in DOMAIN col |-> (CHOOSE p \in DOMAIN col : order[p] = i) - 1]
  IN  Places(SortIndices(<<col>>, <<FALSE>>, <<TRUE>>, T))

CrossRank(groups, col) ==
  LET value(i) == IF col[i].null THEN 0 ELSE col[i].v
      order == InsertionSort([i \in DOMAIN col |-> i], LAMBDA a, b : value(a) > value(b))
  IN  IF groups <= 0 THEN <<>>
      ELSE [i \in DOMAIN col |-> (((CHOOSE p \in DOMAIN col : order[p] = i) - 1) * groups) \div Len(col)]

(* The sorted column: decoded from the keys when they are whole, gathered  *)
(* by row when the keys were cut or none were kept; null bits come along.  *)
SortedColumn(col, desc, nullsFirst, T) ==
  LET keys == [i \in DOMAIN col |-> Encode(col[i], desc, nullsFirst)]
      decoded == /\ Len(col) > SmallMax /\ Len(col) > IntroMax
                 /\ KeyDigits(keys, T) > PackDigits
                 /\ Inversions(keys, FALSE) # 0
      Ordered(order, whole) ==
        [p \in DOMAIN col |-> [v |-> IF whole THEN DecodeKey(keys[order[p]], desc) ELSE col[order[p]].v,
                               null |-> col[order[p]].null]]
  IN  Ordered(SortIndices(<<col>>, <<desc>>, <<nullsFirst>>, T), decoded)

FirstRows(order, limit) == IF limit > 0 /\ limit < Len(order) THEN SubSeq(order, 1, limit) ELSE order

-----------------------------------------------------------------------------
(* Strings.  A string is a sequence of bytes; its record holds a window of *)
(* bytes filled up with zeroes, the length and the row.  Records are split *)
(* by the bytes of the window; when a window is used up the next one is    *)
(* packed; small buckets are finished by a comparison that looks at the    *)
(* rest of the strings.                                                    *)
CONSTANTS
  PartBytes,     \* bytes of a part of the window, 8 in the code
  MaxParts,      \* parts of a window, at most 4
  BaseCase,      \* a bucket of this length is insertion-sorted, 24
  ByteValues     \* the values of a byte

ASSUME StringSortAssumption ==
  /\ {PartBytes, MaxParts, BaseCase} \subseteq Nat \ {0}
  /\ ByteValues \subseteq Nat /\ 0 \in ByteValues

ByteAt(s, i) == IF i <= Len(s) THEN s[i] ELSE 0
Window(s, offset, bytes) == [i \in 1 .. bytes |-> ByteAt(s, offset + i)]

(* Parts packed for the longest string. *)
ProbeParts(strs) ==
  LET need == (Max({0} \cup {Len(strs[i]) : i \in DOMAIN strs}) + PartBytes - 1) \div PartBytes
  IN  IF need < 1 THEN 1 ELSE IF need > MaxParts THEN MaxParts ELSE need

Record(strs, row, offset, bytes) ==
  [win |-> Window(strs[row], offset, bytes), len |-> Len(strs[row]), row |-> row]

(* Order of byte sequences, the shorter one first. *)
SeqLess(a, b) ==
  \/ \E i \in DOMAIN a \cap DOMAIN b : a[i] < b[i] /\ \A j \in 1 .. i - 1 : a[j] = b[j]
  \/ Len(a) < Len(b) /\ SubSeq(b, 1, Len(a)) = a

(* Windows, then the lengths when both fit, or the bytes behind the first  *)
(* window.                                                                 *)
RecordLess(strs, a, b) ==
  LET bytes == Len(a.win)
      Rest(r) == SubSeq(strs[r.row], bytes + 1, r.len)
  IN  IF a.win # b.win THEN SeqLess(a.win, b.win)
      ELSE IF a.len <= bytes /\ b.len <= bytes THEN a.len < b.len
      ELSE SeqLess(Rest(a), Rest(b))

InsertRecord(strs, done, r) ==
  LET before == SelectSeq(done, LAMBDA d : ~ RecordLess(strs, r, d))
  IN  before \o <<r>> \o SelectSeq(done, LAMBDA d : RecordLess(strs, r, d))
InsertRecords(strs, recs) == FoldLeft(LAMBDA done, r : InsertRecord(strs, done, r), <<>>, recs)

ByLength(recs) == SortSeq(recs, LAMBDA a, b : a.len < b.len)

(* The next window of every record; when no string reaches into it they    *)
(* differ in length at most.                                               *)
Repack(strs, recs, offset) ==
  [i \in DOMAIN recs |-> Record(strs, recs[i].row, offset, Len(recs[i].win))]

RECURSIVE FlagSort(_, _, _, _)
FlagSort(strs, recs, bp, offset) ==
  LET bytes == Len(recs[1].win)
      next == Repack(strs, recs, offset + bytes)
      Bucket(b) == SelectSeq(recs, LAMBDA r : r.win[bp] = b)
  IN  IF Len(recs) <= 1 THEN recs
      ELSE IF Len(recs) <= BaseCase THEN InsertRecords(strs, recs)
      ELSE IF bp > bytes
      THEN IF \E i \in DOMAIN recs : recs[i].len > offset + bytes
           THEN FlagSort(strs, next, 1, offset + bytes) ELSE ByLength(next)
      ELSE FlattenSeq([b \in 1 .. Cardinality(ByteValues) |->
             IF Bucket(b - 1) = <<>> THEN <<>>
             ELSE FlagSort(strs, Bucket(b - 1), bp + 1, offset)])

(* Neighbours by window and length; a tie of strings longer than the       *)
(* window says nothing, and the sort goes on.                              *)
RunDirection(recs) ==
  LET Less(a, b) == IF a.win = b.win THEN a.len < b.len ELSE SeqLess(a.win, b.win)
      Same(a, b) == a.win = b.win /\ a.len = b.len
      pairs == {<<recs[i - 1], recs[i]>> : i \in 2 .. Len(recs)}
      unknown == \E p \in pairs : Same(p[1], p[2]) /\ p[1].len > Len(p[1].win)
  IN  IF Len(recs) < 2 \/ unknown THEN 0
      ELSE IF \A p \in pairs : ~ Less(p[2], p[1]) THEN 1
      ELSE IF \A p \in pairs : ~ Less(p[1], p[2]) THEN -1
      ELSE 0

(* Rows in order: live rows sorted ascending and reversed for desc, the    *)
(* null rows behind or in front of them.                                   *)
SortStrings(strs, nulls, desc, nullsFirst) ==
  LET n == Len(strs)
      live == SelectSeq([i \in 1 .. n |-> i], LAMBDA i : i \notin nulls)
      dead == SelectSeq([i \in 1 .. n |-> i], LAMBDA i : i \in nulls)
      bytes == PartBytes * ProbeParts([i \in DOMAIN live |-> strs[live[i]]])
      recs == [i \in DOMAIN live |-> Record(strs, live[i], 0, bytes)]
      dir == RunDirection(recs)
      rowsOf(rs) == [i \in DOMAIN rs |-> rs[i].row]
      sorted == IF Len(live) <= 1 THEN live
                ELSE IF dir = (IF desc THEN -1 ELSE 1) THEN live
                ELSE IF dir # 0 THEN Reverse(live)
                ELSE IF desc THEN Reverse(rowsOf(FlagSort(strs, recs, 1, 0)))
                ELSE rowsOf(FlagSort(strs, recs, 1, 0))
  IN  IF nullsFirst THEN dead \o sorted ELSE sorted \o dead

=============================================================================
