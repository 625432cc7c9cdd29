--------------------------- MODULE WeightedPaths ---------------------------
(***************************************************************************)
(* The weighted operators of ops/traverse.c: Dijkstra, A*, Yen's k         *)
(* shortest paths over a masked Dijkstra, and Kruskal's spanning forest.   *)
(* "w" gives the weight of an edge row.  The priority queue is the code's  *)
(* binary heap, an entry is <<priority, node>>, and a node may be in it    *)
(* several times: entries are skipped once their node is settled.          *)
(***************************************************************************)
EXTENDS Traverse

Inf == 1000        \* 1e308, more than any sum of weights

Swap(h, i, j) == [h EXCEPT ![i] = h[j], ![j] = h[i]]

RECURSIVE SiftUp(_, _)
SiftUp(h, i) ==
  IF i = 1 \/ h[i \div 2][1] <= h[i][1] THEN h ELSE SiftUp(Swap(h, i, i \div 2), i \div 2)

RECURSIVE SiftDown(_, _)
SiftDown(h, i) ==
  LET Lower(b, c) == IF c <= Len(h) /\ h[c][1] < h[b][1] THEN c ELSE b
      smallest == Lower(Lower(i, 2 * i), 2 * i + 1)
  IN  IF smallest = i THEN h ELSE SiftDown(Swap(h, i, smallest), smallest)

HeapPush(h, e) == SiftUp(Append(h, e), Len(h) + 1)
HeapPop(h) ==
  IF Len(h) = 1 THEN <<>>
  ELSE SiftDown([Front(h) EXCEPT ![1] = Last(h)], 1)

(* The loop the three searches share: settle the nearest node, stop at     *)
(* dst, relax the edges that are not masked.  ahead is the heuristic.      *)
Relax(rel, w, deadNodes, deadPos, ahead, s, u) ==
  LET Edge(a, p) ==
        LET v == rel.fwd.tgt[p]
            d == a.dist[u] + w[rel.fwd.row[p]]
        IN  IF p \in deadPos \/ v \in deadNodes \/ d >= a.dist[v] THEN a
            ELSE [dist |-> [a.dist EXCEPT ![v] = d],
                  depth |-> [a.depth EXCEPT ![v] = a.depth[u] + 1],
                  parent |-> [a.parent EXCEPT ![v] = u],
                  heap |-> HeapPush(a.heap, <<d + ahead[v], v>>),
                  settled |-> a.settled]
  IN  FoldLeft(Edge, s, [i \in 1 .. Degree(rel.fwd, u) |-> rel.fwd.off[u] + i])

RECURSIVE Settle(_, _, _, _, _, _, _)
Settle(rel, w, dst, deadNodes, deadPos, ahead, s) ==
  IF s.heap = <<>> THEN s
  ELSE LET u == s.heap[1][2]
           popped == [s EXCEPT !.heap = HeapPop(s.heap)]
           taken == [popped EXCEPT !.settled = @ \cup {u}]
       IN  IF u \in s.settled
           THEN Settle(rel, w, dst, deadNodes, deadPos, ahead, popped)
           ELSE IF u = dst THEN taken
           ELSE Settle(rel, w, dst, deadNodes, deadPos, ahead,
                       Relax(rel, w, deadNodes, deadPos, ahead, taken, u))

Masked(rel, w, src, dst, deadNodes, deadPos, ahead) ==
  LET n == rel.fwd.n
  IN  Settle(rel, w, dst, deadNodes, deadPos, ahead,
        [dist |-> [v \in Nodes(n) |-> IF v = src THEN 0 ELSE Inf],
         depth |-> [v \in Nodes(n) |-> 0],
         parent |-> [v \in Nodes(n) |-> NoParent],
         heap |-> << <<ahead[src], src>> >>, settled |-> {}])

NoAhead(rel) == [v \in Nodes(rel.fwd.n) |-> 0]
NoDst == -1

(* Rows <<node, distance, depth>> of the nodes that got a distance.  With  *)
(* a destination the search stops early, and nodes that were only relaxed  *)
(* are reported with the distance they had.                                *)
Reached(s) == {<<v, s.dist[v], s.depth[v]>> : v \in {u \in DOMAIN s.dist : s.dist[u] < Inf}}

Dijkstra(rel, w, src, dst) ==
  IF \/ src \notin Nodes(rel.fwd.n)
     \/ dst # NoDst /\ dst \notin Nodes(rel.fwd.n)
     \/ \E i \in 1 .. rel.fwd.m : w[i] < 0
  THEN Error
  ELSE Reached(Masked(rel, w, src, dst, {}, {}, NoAhead(rel)))

(* The heuristic is the distance of the coordinates, here on a line.       *)
AStar(rel, w, coord, src, dst) ==
  LET ahead == [v \in Nodes(rel.fwd.n) |->
                 IF coord[v] > coord[dst] THEN coord[v] - coord[dst]
                                          ELSE coord[dst] - coord[v]]
  IN  IF src \notin Nodes(rel.fwd.n) \/ dst \notin Nodes(rel.fwd.n) THEN Error
      ELSE Reached(Masked(rel, w, src, dst, {}, {}, ahead))

-----------------------------------------------------------------------------
(* Yen: each further path leaves an earlier one at a spur node, by an edge *)
(* no found path with the same beginning takes.  A path is its nodes; an   *)
(* edge between two nodes is the first position that has them.             *)
EdgeAt(rel, u, v) ==
  LET ps == {p \in Positions(rel.fwd, u) : rel.fwd.tgt[p] = v}
  IN  IF ps = {} THEN {} ELSE {Min(ps)}

PathCost(rel, w, path) ==
  FoldLeft(LAMBDA a, i :
      a + MapThenSumSet(LAMBDA p : w[rel.fwd.row[p]], EdgeAt(rel, path[i], path[i + 1])),
    0, [i \in 1 .. Len(path) - 1 |-> i])

(* Faulty variant: nodes of the root path may be used again. *)
SpurPathLoops(rel, w, found, prev, i, dst) ==
  LET same == {k \in DOMAIN found : Len(found[k].path) >= i
                                      /\ SubSeq(found[k].path, 1, i) = SubSeq(prev, 1, i)}
      deadPos == UNION {EdgeAt(rel, prev[i], found[k].path[i + 1]) : k \in same}
      s == Masked(rel, w, prev[i], dst, {}, deadPos, NoAhead(rel))
  IN  IF s.dist[dst] >= Inf THEN {}
      ELSE {[path |-> SubSeq(prev, 1, i - 1) \o PathBack(s.parent, dst, prev[i]),
             cost |-> PathCost(rel, w, SubSeq(prev, 1, i)) + s.dist[dst]]}

SpurPath(rel, w, found, prev, i, dst) ==
  LET same == {k \in DOMAIN found : Len(found[k].path) >= i
                                      /\ SubSeq(found[k].path, 1, i) = SubSeq(prev, 1, i)}
      deadPos == UNION {EdgeAt(rel, prev[i], found[k].path[i + 1]) : k \in same}
      deadNodes == {prev[r] : r \in 1 .. i - 1}
      s == Masked(rel, w, prev[i], dst, deadNodes, deadPos, NoAhead(rel))
  IN  IF s.dist[dst] >= Inf THEN {}
      ELSE {[path |-> SubSeq(prev, 1, i - 1) \o PathBack(s.parent, dst, prev[i]),
             cost |-> PathCost(rel, w, SubSeq(prev, 1, i)) + s.dist[dst]]}

(* Room for candidates.  A full list takes no more; with fewer than        *)
(* CandCap, K rounds over n nodes never fill it.                           *)
CandCap == 4096
MaxCand(rel, K) == Min({K * rel.fwd.n, CandCap})

(* Candidates are kept in a list; the first cheapest leaves it and the     *)
(* last takes its place.                                                   *)
RECURSIVE Deviate(_, _, _, _, _, _)
Deviate(rel, w, dst, K, found, cands) ==
  LET prev == Last(found).path
      Add(cs, i) ==
        LET new == {c \in SpurPath(rel, w, found, prev, i, dst) :
                      \A d \in ToSet(cs) \cup ToSet(found) : d.path # c.path}
        IN  IF Len(cs) >= MaxCand(rel, K) THEN cs ELSE cs \o SetToSeq(new)
      all == FoldLeft(Add, cands, [i \in 1 .. Len(prev) - 1 |-> i])
      best == CHOOSE i \in DOMAIN all :
                \A j \in DOMAIN all : \/ all[i].cost < all[j].cost
                                      \/ all[i].cost = all[j].cost /\ i <= j
      rest == Front([all EXCEPT ![best] = Last(all)])
  IN  IF Len(found) >= K \/ all = <<>> THEN found
      ELSE Deviate(rel, w, dst, K, Append(found, all[best]), rest)

KShortest(rel, w, src, dst, K) ==
  IF src \notin Nodes(rel.fwd.n) \/ dst \notin Nodes(rel.fwd.n) THEN Error
  ELSE LET s == Masked(rel, w, src, dst, {}, {}, NoAhead(rel))
       IN  IF s.dist[dst] >= Inf THEN <<>>
           ELSE Deviate(rel, w, dst, K,
                  << [path |-> PathBack(s.parent, dst, src), cost |-> s.dist[dst]] >>, <<>>)

-----------------------------------------------------------------------------
(* Kruskal with union by rank and path halving: a forest is parent and     *)
(* rank.                                                                   *)
RECURSIVE Find(_, _)
Find(parent, x) ==
  IF parent[x] = x THEN [root |-> x, parent |-> parent]
  ELSE LET up == parent[parent[x]] IN Find([parent EXCEPT ![x] = up], up)

Union(uf, x, y) ==
  LET fx == Find(uf.parent, x)
      fy == Find(fx.parent, y)
      a == IF uf.rank[fx.root] < uf.rank[fy.root] THEN fy.root ELSE fx.root
      b == IF a = fx.root THEN fy.root ELSE fx.root
  IN  IF a = b THEN [uf EXCEPT !.parent = fy.parent]
      ELSE [parent |-> [fy.parent EXCEPT ![b] = a],
            rank |-> IF uf.rank[a] = uf.rank[b] THEN [uf.rank EXCEPT ![a] = @ + 1] ELSE uf.rank]

(* Edges taken, as positions, lightest first.                              *)
SpanningForest(rel, w) ==
  LET n == rel.fwd.n
      csr == rel.fwd
      SrcOf(p) == CHOOSE v \in Nodes(n) : p \in Positions(csr, v)
      order == SortSeq([p \in 1 .. csr.m |-> p],
                       LAMBDA p, q : w[csr.row[p]] < w[csr.row[q]])
      Take(a, p) ==
        LET uf == Union(a.uf, SrcOf(p), csr.tgt[p])
            joins == Find(a.uf.parent, SrcOf(p)).root # Find(a.uf.parent, csr.tgt[p]).root
        IN  IF Len(a.taken) >= n - 1 THEN a
            ELSE [uf |-> uf, taken |-> IF joins THEN Append(a.taken, p) ELSE a.taken]
  IN  FoldLeft(Take, [uf |-> [parent |-> [v \in Nodes(n) |-> v], rank |-> [v \in Nodes(n) |-> 0]],
                      taken |-> <<>>], order).taken
=============================================================================
