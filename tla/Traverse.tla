------------------------------ MODULE Traverse ------------------------------
(***************************************************************************)
(* The graph operators of ops/traverse.c over a relation of Csr: bounded   *)
(* breadth-first expansion, components, topological order, depth-first     *)
(* search, centralities, PageRank and communities.  Every loop of the code *)
(* is a fold or a recursive operator over the same state.  A result is a   *)
(* sequence of rows, a function of the nodes, or Error.                    *)
(*                                                                         *)
(* Real numbers are kept as integers over a common denominator, which each *)
(* operator names.  Direction is 0 (forward), 1 (reverse) or 2 (both).     *)
(***************************************************************************)
EXTENDS Csr

Index(rel, direction) == IF direction = 1 THEN rel.rev ELSE rel.fwd
(* The neighbours a search looks at, in the order it looks at them. *)
Around(rel, direction, v) ==
  Neighbors(Index(rel, direction), v)
    \o (IF direction = 2 THEN Neighbors(rel.rev, v) ELSE <<>>)
SearchNodes(rel, direction) ==
  Nodes(IF direction = 2 /\ rel.rev.n > rel.fwd.n
        THEN rel.rev.n ELSE Index(rel, direction).n)

-----------------------------------------------------------------------------
(* One hop.  The selection of sources is built from the degrees when the   *)
(* optimizer left a hint; it may only skip sources with nothing to emit.   *)
SourceSelection(rel, direction) ==
  {v \in Nodes(rel.fwd.n) : direction # 1 /\ Degree(rel.fwd, v) > 0}
    \cup {v \in Nodes(rel.rev.n) : direction # 0 /\ Degree(rel.rev, v) > 0}

ExpandDir(csr, srcs, skipped) ==
  FlattenSeq([i \in DOMAIN srcs |->
     IF srcs[i] \in skipped THEN <<>>
     ELSE LET nbrs == Neighbors(csr, srcs[i])
          IN  [j \in DOMAIN nbrs |-> <<srcs[i], nbrs[j]>>]])

Expand(rel, direction, srcs, hint) ==
  LET sel == SourceSelection(rel, direction)
      len == IF rel.rev.n > rel.fwd.n THEN rel.rev.n ELSE rel.fwd.n
      skipped == {v \in Nodes(len) : hint /\ v \notin sel}
      Dir(d) == IF direction \in {d, 2}
                THEN ExpandDir(Index(rel, d), srcs, skipped) ELSE <<>>
  IN  Dir(0) \o Dir(1)

(* Degrees in place of the pairs, for a count grouped by the source. *)
ExpandFactorized(rel, direction, srcs) ==
  LET Count(v) == (IF direction # 1 THEN Degree(rel.fwd, v) ELSE 0)
                    + (IF direction # 0 THEN Degree(rel.rev, v) ELSE 0)
      rows == [i \in DOMAIN srcs |-> <<srcs[i], Count(srcs[i])>>]
  IN  SelectSeq(rows, LAMBDA r : r[2] > 0)

-----------------------------------------------------------------------------
(* Breadth-first search, level by level.  A search is the set of nodes     *)
(* seen, the frontier in the order of discovery and the parents.           *)
StartSearch(v) == [seen |-> {v}, front |-> <<v>>, parent |-> (v :> v)]

Discover(rel, direction, s) ==
  LET Visit(acc, step) ==
        IF step[2] \in acc.seen \/ step[2] \notin SearchNodes(rel, direction) THEN acc
        ELSE [seen |-> acc.seen \cup {step[2]}, front |-> Append(acc.front, step[2]),
              parent |-> acc.parent @@ (step[2] :> step[1])]
      steps == FlattenSeq([i \in DOMAIN s.front |->
                 LET nbrs == Around(rel, direction, s.front[i])
                 IN  [j \in DOMAIN nbrs |-> <<s.front[i], nbrs[j]>>]])
  IN  FoldLeft(Visit, [s EXCEPT !.front = <<>>], steps)

RECURSIVE LevelsFrom(_, _, _, _, _)
LevelsFrom(rel, direction, s, depth, maxDepth) ==
  IF depth > maxDepth \/ s.front = <<>> THEN <<>>
  ELSE LET next == Discover(rel, direction, s)
       IN  <<next.front>> \o LevelsFrom(rel, direction, next, depth + 1, maxDepth)

(* Rows <<start, end, depth>> of every node first met at a depth of the    *)
(* range, for each start.                                                  *)
VarExpand(rel, direction, starts, minDepth, maxDepth) ==
  LET Rows(v) ==
        LET levels == IF v \notin SearchNodes(rel, direction) THEN <<>>
                      ELSE LevelsFrom(rel, direction, StartSearch(v), 1, maxDepth)
        IN  FlattenSeq([d \in DOMAIN levels |->
               IF d < minDepth THEN <<>>
               ELSE [j \in DOMAIN levels[d] |-> <<v, levels[d][j], d>>]])
  IN  FlattenSeq([i \in DOMAIN starts |-> Rows(starts[i])])

(* The path to dst read back from the parents; the buffer takes 256 nodes. *)
PathCap == 256
RECURSIVE PathBack(_, _, _)
PathBack(parent, v, src) ==
  IF v = src THEN <<src>> ELSE Append(PathBack(parent, parent[v], src), v)

-----------------------------------------------------------------------------
(* Label propagation: passes over the nodes until one changes nothing.     *)
RECURSIVE Propagate(_, _)
Propagate(rel, label) ==
  LET Lower(l, v) == [l EXCEPT ![v] = Min({l[v]} \cup {l[u] : u \in
                        ToSet(Neighbors(rel.fwd, v)) \cup ToSet(Neighbors(rel.rev, v))})]
      pass == FoldLeft(Lower, label, [i \in 1 .. rel.fwd.n |-> i - 1])
  IN  IF pass = label THEN label ELSE Propagate(rel, pass)

(* Faulty variant: one pass instead of passes until nothing changes. *)
ConnectedCompOnePass(rel) ==
  IF rel.fwd.n <= 0 THEN Error
  ELSE [v \in Nodes(rel.fwd.n) |-> Min({v} \cup
          ToSet(Neighbors(rel.fwd, v)) \cup ToSet(Neighbors(rel.rev, v)))]

ConnectedComp(rel) ==
  IF rel.fwd.n <= 0 THEN Error ELSE Propagate(rel, [v \in Nodes(rel.fwd.n) |-> v])

(* Degrees of each node, out, in and both. *)
DegreeCent(rel) ==
  [v \in Nodes(rel.fwd.n) |->
     <<Degree(rel.rev, v), Degree(rel.fwd, v), Degree(rel.rev, v) + Degree(rel.fwd, v)>>]

(* Kahn's algorithm: the order of each node, or an error on a cycle.       *)
RECURSIVE Kahn(_, _, _, _)
Kahn(rel, queue, inDeg, order) ==
  IF Len(order) = Len(queue) THEN order
  ELSE LET v == queue[Len(order) + 1]
           Drop(acc, u) ==
             [inDeg |-> [acc.inDeg EXCEPT ![u] = @ - 1],
              queue |-> IF acc.inDeg[u] = 1 THEN Append(acc.queue, u) ELSE acc.queue]
           next == FoldLeft(Drop, [inDeg |-> inDeg, queue |-> queue], Neighbors(rel.fwd, v))
       IN  Kahn(rel, next.queue, next.inDeg, Append(order, v))

TopSort(rel) ==
  LET n == rel.fwd.n
      inDeg == [v \in Nodes(n) |-> Degree(rel.rev, v)]
      roots == SelectSeq([i \in 1 .. n |-> i - 1], LAMBDA v : inDeg[v] = 0)
      order == Kahn(rel, roots, inDeg, <<>>)
  IN  IF n <= 0 \/ Len(order) < n THEN Error ELSE order

(* Depth-first search with a stack; a node is marked when it is popped, so *)
(* the stack may hold it several times.  Rows <<node, depth, parent>>.     *)
RECURSIVE DfsFrom(_, _, _, _)
DfsFrom(rel, maxDepth, stack, rows) ==
  IF stack = <<>> THEN rows
  ELSE LET top == Last(stack)
           rest == Front(stack)
           visited == {rows[i][1] : i \in DOMAIN rows} \cup {top[1]}
           nbrs == IF top[2] < maxDepth THEN Neighbors(rel.fwd, top[1]) ELSE <<>>
           pushed == SelectSeq(Reverse(nbrs), LAMBDA u : u \notin visited)
       IN  IF \E i \in DOMAIN rows : rows[i][1] = top[1]
           THEN DfsFrom(rel, maxDepth, rest, rows)
           ELSE DfsFrom(rel, maxDepth,
                  rest \o [i \in DOMAIN pushed |-> <<pushed[i], top[2] + 1, top[1]>>],
                  Append(rows, top))

NoParent == -1
Dfs(rel, src, maxDepth) ==
  IF src \notin Nodes(rel.fwd.n) THEN Error
  ELSE DfsFrom(rel, maxDepth, << <<src, 0, NoParent>> >>, <<>>)

-----------------------------------------------------------------------------
(* Distances of an undirected breadth-first search, -1 where it never came. *)
Distances(rel, s) ==
  LET levels == LevelsFrom(rel, 2, StartSearch(s), 1, rel.fwd.n)
  IN  [v \in Nodes(rel.fwd.n) |->
         IF v = s THEN 0
         ELSE IF \E d \in DOMAIN levels : v \in ToSet(levels[d])
              THEN CHOOSE d \in DOMAIN levels : v \in ToSet(levels[d]) ELSE -1]

(* Sources when "sample" of them are asked for: every stride-th node.      *)
SampleSources(n, sample) ==
  IF sample > 0 /\ sample < n
  THEN [i \in 1 .. sample |-> ((i - 1) * (n \div sample)) % n]
  ELSE [i \in 1 .. n |-> i - 1]

(* Closeness as <<reachable, sum of distances>>, <<0, 0>> for 0.0.         *)
Closeness(rel, sample) ==
  LET Of(s) == LET far == {<<v, Distances(rel, s)[v]>> : v \in Nodes(rel.fwd.n)}
                   reach == {p \in far : p[2] > 0}
               IN  <<Cardinality(reach), MapThenSumSet(LAMBDA p : p[2], reach)>>
      srcs == SampleSources(rel.fwd.n, sample)
  IN  [i \in DOMAIN srcs |-> <<srcs[i], Of(srcs[i])>>]

(* Brandes: the shortest-path counts of the search and the dependencies    *)
(* propagated back.  A neighbour over the reverse index is skipped when it *)
(* was met over the forward one.  Dependencies are over PathScale.         *)
PathScale == 12
Preds(rel, dist, w) ==
  FlattenSeq([i \in 1 .. rel.fwd.n |->
     LET v == i - 1
         Ways(x) == Cardinality({p \in Positions(x, v) : x.tgt[p] = w})
     IN  IF dist[v] < 0 \/ dist[w] # dist[v] + 1 THEN <<>>
         ELSE [k \in 1 .. (IF Ways(rel.fwd) > 0 THEN Ways(rel.fwd) ELSE Ways(rel.rev)) |-> v]])

Dependencies(rel, s) ==
  LET n == rel.fwd.n
      dist == Distances(rel, s)
      P == [w \in Nodes(n) |-> Preds(rel, dist, w)]
      sigma[w \in Nodes(n)] ==
        IF w = s THEN 1 ELSE FoldLeft(LAMBDA a, v : a + sigma[v], 0, P[w])
      delta[v \in Nodes(n)] ==
        MapThenSumSet(LAMBDA w : Cardinality({k \in DOMAIN P[w] : P[w][k] = v})
                                   * ((sigma[v] * (PathScale + delta[w])) \div sigma[w]),
                      {w \in Nodes(n) : v \in ToSet(P[w])})
  IN  [v \in Nodes(n) |-> IF v = s THEN 0 ELSE delta[v]]

(* Twice the centrality over PathScale, all sources.                       *)
Betweenness(rel) ==
  LET D == [s \in Nodes(rel.fwd.n) |-> Dependencies(rel, s)]
  IN  [v \in Nodes(rel.fwd.n) |-> MapThenSumSet(LAMBDA s : D[s][v], Nodes(rel.fwd.n))]

(* Clustering coefficient as <<edges among neighbours, possible>>.         *)
ClusterCoeff(rel) ==
  [v \in Nodes(rel.fwd.n) |->
     LET nbrs == ToSet(Neighbors(rel.fwd, v)) \cup ToSet(Neighbors(rel.rev, v))
         deg == Cardinality(nbrs)
         Inside(u) == Cardinality({p \in Positions(rel.fwd, u) : rel.fwd.tgt[p] \in nbrs})
     IN  IF deg < 2 THEN <<0, 1>>
         ELSE <<MapThenSumSet(Inside, nbrs), deg * (deg - 1)>>]

-----------------------------------------------------------------------------
(* PageRank with damping 1/2 over the denominator 1, 2n*D, (2n*D)^2, ...   *)
(* with D a common multiple of the degrees; rank of dangling nodes is      *)
(* spread over all nodes.                                                  *)
RankStep(rel, D, one, rank) ==
  LET n == rel.fwd.n
      dangling == MapThenSumSet(LAMBDA u : rank[u],
                    {u \in Nodes(n) : Degree(rel.fwd, u) = 0})
      In(v) == FoldLeft(LAMBDA a, u : a + rank[u] * (D \div Degree(rel.fwd, u)), 0,
                        Neighbors(rel.rev, v))
  IN  [v \in Nodes(n) |-> D * one + D * dangling + n * In(v)]

(* Ranks after iters steps and the number that stands for 1.               *)
RECURSIVE PageRank(_, _)
PageRank(rel, iters) ==
  LET n == rel.fwd.n
      D == 12
  IN  IF iters = 0 THEN [rank |-> [v \in Nodes(n) |-> 1], one |-> n]
      ELSE LET p == PageRank(rel, iters - 1)
           IN  [rank |-> RankStep(rel, D, p.one, p.rank), one |-> 2 * n * D * p.one]

(* Louvain, phase 1: each node in turn joins the neighbouring community of *)
(* the largest positive gain, compared over (2m)^2; the first met wins.    *)
JoinBest(rel, s, v) ==
  LET twoM == IF rel.fwd.m = 0 THEN 1 ELSE 2 * rel.fwd.m
      deg(u) == Degree(rel.fwd, u) + Degree(rel.rev, u)
      own == s.comm[v]
      met == SelectSeq([i \in DOMAIN Around(rel, 2, v) |-> s.comm[Around(rel, 2, v)[i]]],
                       LAMBDA c : c # own)
      Links(c) == Cardinality({i \in DOMAIN met : met[i] = c})
      Gain(c) == Links(c) * twoM - s.total[c] * deg(v)
      best == FoldLeft(LAMBDA b, c : IF Gain(c) > (IF b = own THEN 0 ELSE Gain(b))
                                     THEN c ELSE b, own, met)
  IN  IF best = own THEN s
      ELSE [comm |-> [s.comm EXCEPT ![v] = best],
            total |-> [s.total EXCEPT ![own] = @ - deg(v), ![best] = @ + deg(v)]]

RECURSIVE LouvainPasses(_, _, _)
LouvainPasses(rel, s, iters) ==
  LET pass == FoldLeft(LAMBDA a, v : JoinBest(rel, a, v), s, [i \in 1 .. rel.fwd.n |-> i - 1])
  IN  IF iters = 0 \/ pass.comm = s.comm THEN s ELSE LouvainPasses(rel, pass, iters - 1)

(* Communities renumbered in the order of their first node.                *)
Louvain(rel, iters) ==
  LET n == rel.fwd.n
      s == LouvainPasses(rel, [comm |-> [v \in Nodes(n) |-> v],
             total |-> [v \in Nodes(n) |-> Degree(rel.fwd, v) + Degree(rel.rev, v)]], iters)
      FirstNode(v) == Min({u \in Nodes(n) : s.comm[u] = s.comm[v]})
      firsts == {FirstNode(v) : v \in Nodes(n)}
  IN  [id |-> [v \in Nodes(n) |-> Cardinality({f \in firsts : f < FirstNode(v)})],
       comm |-> s.comm, total |-> s.total,
       deg |-> [v \in Nodes(n) |-> Degree(rel.fwd, v) + Degree(rel.rev, v)]]
=============================================================================
