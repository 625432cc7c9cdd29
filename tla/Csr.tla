-------------------------------- MODULE Csr --------------------------------
(***************************************************************************)
(* The edge index of store/csr.c: a relation is kept twice, by source and  *)
(* by destination, each time as offsets, targets and a row map from the    *)
(* position of an edge to its row of the edge table.  Nodes are numbered   *)
(* from 0; positions of targets and rows from 1, as sequences are.         *)
(***************************************************************************)
EXTENDS Integers, Sequences, FiniteSets, SequencesExt

CONSTANTS
  NoRowMap,        \* in place of a row map that is not there
  Error          \* an error value in place of a result

Nodes(n) == 0 .. n - 1

(* The field of an edge an index is for. *)
Key(isReverse) == IF isReverse THEN 2 ELSE 1

(* The comparison of the two calls of qsort: the key, then the other end.  *)
Before(e, f, key) ==
  \/ e[key] < f[key]
  \/ e[key] = f[key] /\ e[3 - key] < f[3 - key]

(* The orders in which qsort may leave the rows of an edge table; it may   *)
(* leave rows with the same edge in any order.                             *)
SortedRows(edges, key) ==
  {rows \in [DOMAIN edges -> DOMAIN edges] :
     \A i, j \in DOMAIN edges :
        i < j => rows[i] # rows[j] /\ ~ Before(edges[rows[j]], edges[rows[i]], key)}

(* Places of the sorted rows whose key is a node, and of those with key v. *)
Valid(edges, rows, n, key) == {i \in DOMAIN rows : edges[rows[i]][key] \in Nodes(n)}
WithKey(edges, rows, key, v) == {i \in DOMAIN rows : edges[rows[i]][key] = v}

(* Counting pass and prefix sums. *)
Offsets(edges, rows, n, key) ==
  LET off[v \in 0 .. n] ==
        IF v = 0 THEN 0 ELSE off[v - 1] + Cardinality(WithKey(edges, rows, key, v - 1))
  IN  off

(* Filling pass: an edge goes to the next free place of its key. *)
Slot(edges, rows, key, off, i) ==
  LET v == edges[rows[i]][key]
  IN  off[v] + Cardinality({j \in WithKey(edges, rows, key, v) : j <= i})

Positions(csr, v) == csr.off[v] + 1 .. csr.off[v + 1]

(* Each adjacency list reordered by an insertion sort, stable on targets.  *)
SortAdjacency(csr) ==
  LET List(p) == CHOOSE v \in Nodes(csr.n) : p \in Positions(csr, v)
      Rank(p) == csr.off[List(p)]
                   + Cardinality({q \in Positions(csr, List(p)) :
                                    \/ csr.tgt[q] < csr.tgt[p]
                                    \/ csr.tgt[q] = csr.tgt[p] /\ q <= p})
      From(p) == CHOOSE q \in 1 .. csr.m : Rank(q) = p
  IN  [csr EXCEPT !.tgt = [p \in 1 .. csr.m |-> csr.tgt[From(p)]],
                  !.row = [p \in 1 .. csr.m |-> csr.row[From(p)]],
                  !.sorted = TRUE]

(* The index of the sorted rows; an edge whose key is not a node is left   *)
(* out of this index only.                                                 *)
BuildFromPairs(edges, rows, n, isReverse, sort) ==
  LET key == Key(isReverse)
      off == Offsets(edges, rows, n, key)
      valid == Valid(edges, rows, n, key)
      row == [p \in 1 .. Cardinality(valid) |->
                rows[CHOOSE i \in valid : Slot(edges, rows, key, off, i) = p]]
      csr == [n |-> n, m |-> Cardinality(valid), off |-> off, row |-> row, sorted |-> FALSE,
              tgt |-> [p \in 1 .. Cardinality(valid) |-> edges[row[p]][3 - key]]]
  IN  IF sort THEN SortAdjacency(csr) ELSE csr

(* The forward and the reverse index of an edge table, one for every order *)
(* of its equal rows.                                                      *)
RelFromEdges(edges, nSrc, nDst, sort) ==
  {[fwd |-> BuildFromPairs(edges, order[1], nSrc, FALSE, sort),
    rev |-> BuildFromPairs(edges, order[2], nDst, TRUE, sort)] :
       order \in SortedRows(edges, 1) \X SortedRows(edges, 2)}

(* The relation of a foreign key column: row i points to fk[i].  Rows are  *)
(* nodes here, so they are numbered from 0 on that side.                   *)
RelBuild(fk, nTarget, sort) ==
  RelFromEdges([i \in DOMAIN fk |-> <<i - 1, fk[i]>>], Len(fk), nTarget, sort)

Degree(csr, v) == IF v \in Nodes(csr.n) THEN csr.off[v + 1] - csr.off[v] ELSE 0
Neighbors(csr, v) ==
  IF v \in Nodes(csr.n) THEN SubSeq(csr.tgt, csr.off[v] + 1, csr.off[v + 1]) ELSE <<>>

-----------------------------------------------------------------------------
(* Saved files of an index, and what a load accepts: the counts must agree *)
(* and the offsets must not decrease.  The row map is optional, its length *)
(* is not looked at, and one that cannot be read (~ mapped) is gone        *)
(* without an error.                                                       *)
FileOf(csr, name) == CASE name = "offsets" -> csr.off
                       [] name = "targets" -> csr.tgt
                       [] name = "rowmap" -> csr.row

LoadIndex(dir, side, mapped) ==
  LET off == dir[<<side, "offsets">>]
      tgt == dir[<<side, "targets">>]
      row == <<side, "rowmap">>
      n == Cardinality(DOMAIN off) - 1
  IN  IF \/ <<side, "offsets">> \notin DOMAIN dir
         \/ <<side, "targets">> \notin DOMAIN dir
         \/ off[n] # Len(tgt)
         \/ \E v \in Nodes(n) : off[v] < 0 \/ off[v] > off[v + 1]
      THEN [ok |-> FALSE]
      ELSE [ok |-> TRUE,
            csr |-> [n |-> n, m |-> Len(tgt), off |-> off, tgt |-> tgt, sorted |-> FALSE,
                     row |-> IF mapped /\ row \in DOMAIN dir THEN dir[row] ELSE NoRowMap]]

-----------------------------------------------------------------------------
(* What an index promises: every row of the table whose key is a node is   *)
(* at exactly one position, in the list of its key, beside its other end,  *)
(* and the lists of a sorted index ascend.                                 *)
IndexesTable(csr, row, edges, isReverse) ==
  LET key == Key(isReverse)
      rows == {r \in DOMAIN edges : edges[r][key] \in Nodes(csr.n)}
  IN  /\ csr.off[0] = 0 /\ csr.off[csr.n] = csr.m
      /\ csr.m = Cardinality(rows)
      /\ {row[p] : p \in 1 .. csr.m} = rows
      /\ \A v \in Nodes(csr.n) : \A p \in Positions(csr, v) :
            edges[row[p]] = IF isReverse THEN <<csr.tgt[p], v>> ELSE <<v, csr.tgt[p]>>
      /\ csr.sorted => \A v \in Nodes(csr.n) : \A p, q \in Positions(csr, v) :
            p < q => csr.tgt[p] <= csr.tgt[q]
=============================================================================
