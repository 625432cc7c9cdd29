---------------------------- MODULE GraphSession ----------------------------
(***************************************************************************)
(* A program that uses the graph store: it builds, saves and loads a       *)
(* relation as GraphStore says, and asks queries of it.  The operators are *)
(* those of WeightedPaths, Traverse and Lftj; the bounded shortest path is *)
(* here, one level of its search a step, because its depth is a counter of *)
(* eight bits.                                                             *)
(***************************************************************************)
EXTENDS GraphStore, WeightedPaths, Lftj

CONSTANTS
  MaxHops,       \* bound on the max_depth asked for
  DepthMod       \* values of the depth counter, 256 in the code

ASSUME GraphAssumption == MaxHops \in Nat /\ DepthMod \in Nat /\ DepthMod > MaxHops

VARIABLES
  search,        \* the running shortest-path search
  result         \* the last query and its answer

gvars == <<table, size, rel, files, saving, saved, search, result>>

Idle == [op |-> "none"]

Init == StoreInit /\ search = Idle /\ result = Idle

InRange == \A i \in DOMAIN table : {table[i][1], table[i][2]} \subseteq Nodes(size)

(* The store is used between queries; a load that fails ends the session.  *)
UseStore ==
  /\ search = Idle /\ result = Idle
  /\ StoreNext
  /\ result' = IF Load /\ rel' = NoRel THEN [op |-> "load failed"] ELSE Idle
  /\ UNCHANGED search

(* Queries are asked of graphs whose edges are in range. *)
CanAsk == /\ rel # NoRel /\ saving = 0 /\ search = Idle /\ result = Idle
          /\ InRange /\ ~saved /\ rel.fwd.n = size /\ rel.rev.n = size

-----------------------------------------------------------------------------
(* Shortest path: the search starts, discovers level after level while the *)
(* counter is at most max_depth and dst was not met, and ends.             *)
StartPath(src, dst, maxDepth) ==
  /\ CanAsk
  /\ IF src = dst
     THEN /\ result' = [op |-> "path", src |-> src, dst |-> dst, max |-> maxDepth, path |-> <<src>>]
          /\ UNCHANGED search
     ELSE /\ search' = [op |-> "path", src |-> src, dst |-> dst, max |-> maxDepth,
                        depth |-> 1, s |-> StartSearch(src)]
          /\ UNCHANGED result
  /\ UNCHANGED <<table, size, rel, files, saving, saved>>

NextDepth(d) == (d + 1) % DepthMod

PathLevel ==
  /\ search # Idle
  /\ search.depth <= search.max /\ search.dst \notin search.s.seen
  /\ search' = [search EXCEPT !.s = Discover(rel, 0, search.s),
                              !.depth = NextDepth(search.depth)]
  /\ UNCHANGED <<table, size, rel, files, saving, saved, result>>

PathEnd ==
  /\ search # Idle
  /\ search.depth > search.max \/ search.dst \in search.s.seen
  /\ LET back == PathBack(search.s.parent, search.dst, search.src)
     IN result' = [op |-> "path", src |-> search.src, dst |-> search.dst, max |-> search.max,
                   path |-> IF search.dst \in search.s.seen /\ Len(back) <= PathCap
                            THEN back ELSE Error]
  /\ search' = Idle
  /\ UNCHANGED <<table, size, rel, files, saving, saved>>

-----------------------------------------------------------------------------
(* Queries answered in one step, from node 0: every labelling of a simple  *)
(* graph is a table.  The weighted ones read the forward row map without a *)
(* test that it was loaded, and are asked only when it was.                *)
Answer(r) == /\ result' = r
             /\ UNCHANGED <<table, size, rel, files, saving, saved, search>>

From == 0
To == size - 1

(* Weights of the rows: all equal, or one of two arrangements. *)
Weights == {[i \in DOMAIN table |-> 1 + ((i * k) % 3)] : k \in 0 .. 2}

AskExpand ==
  LET srcs == <<From, To, From>> IN
  /\ CanAsk
  /\ \E d \in 0 .. 2, hint \in BOOLEAN :
       Answer([op |-> "expand", dir |-> d, srcs |-> srcs, rows |-> Expand(rel, d, srcs, hint),
               counts |-> ExpandFactorized(rel, d, srcs)])

AskVarExpand ==
  /\ CanAsk
  /\ \E d \in 0 .. 2, min, max \in 1 .. MaxHops :
       Answer([op |-> "var", dir |-> d, min |-> min, max |-> max,
               rows |-> VarExpand(rel, d, <<From>>, min, max)])

AskWhole ==
  /\ CanAsk
  /\ Answer([op |-> "whole", comp |-> ConnectedComp(rel), order |-> TopSort(rel),
              degree |-> DegreeCent(rel), louvain |-> Louvain(rel, 2), rank |-> PageRank(rel, 2)])

AskCentral ==
  /\ CanAsk
  /\ Answer([op |-> "central", close |-> Closeness(rel, 0), sample |-> Closeness(rel, 2),
              between |-> Betweenness(rel), cluster |-> ClusterCoeff(rel)])

AskDfs ==
  /\ CanAsk
  /\ \E max \in 1 .. MaxHops :
       Answer([op |-> "dfs", max |-> max, rows |-> Dfs(rel, From, max)])

AskDijkstra ==
  /\ CanAsk /\ rel.fwd.row # NoRowMap
  /\ \E w \in Weights, dst \in {To, NoDst} :
       Answer([op |-> "dijkstra", w |-> w, dst |-> dst, rows |-> Dijkstra(rel, w, From, dst)])

AskAStar ==
  LET coord == [v \in Nodes(size) |-> v % 2] IN
  /\ CanAsk /\ rel.fwd.row # NoRowMap
  /\ \E w \in Weights :
       Answer([op |-> "astar", w |-> w, dst |-> To, rows |-> AStar(rel, w, coord, From, To)])

AskKShortest ==
  /\ CanAsk /\ rel.fwd.row # NoRowMap
  /\ \E w \in Weights :
       Answer([op |-> "yen", w |-> w, k |-> 3, paths |-> KShortest(rel, w, From, To, 3)])

AskForest ==
  /\ CanAsk /\ rel.fwd.row # NoRowMap
  /\ \E w \in Weights : Answer([op |-> "forest", w |-> w, taken |-> SpanningForest(rel, w)])

AskJoin ==
  /\ CanAsk
  /\ \E p \in {<<3, 3>>, <<2, 2>>, <<2, 3>>, <<6, 4>>} :
       Answer([op |-> "join", nRels |-> p[1], nVars |-> p[2],
               rows |-> WcoJoin([i \in 1 .. p[1] |-> rel], p[2])])

Query == \/ AskExpand \/ AskVarExpand \/ AskWhole \/ AskCentral \/ AskDfs
         \/ AskDijkstra \/ AskAStar \/ AskKShortest \/ AskForest \/ AskJoin

Next ==
  \/ UseStore
  \/ \E max \in 0 .. MaxHops, dst \in {From, To} : StartPath(From, dst, max)
  \/ PathLevel \/ PathEnd
  \/ Query

Spec == Init /\ [][Next]_gvars /\ WF_gvars(PathLevel \/ PathEnd)

-----------------------------------------------------------------------------
(* Reference definitions, over the edge table. *)
Arrows(direction) ==
  {table[i] : i \in IF direction = 1 THEN {} ELSE DOMAIN table}
    \cup {<<table[i][2], table[i][1]>> : i \in IF direction = 0 THEN {} ELSE DOMAIN table}
RowsOf(u, v) == {i \in DOMAIN table : table[i] = <<u, v>>}
Plain == \A i \in DOMAIN table : table[i][1] # table[i][2] /\ RowsOf(table[i][1], table[i][2]) = {i}

(* Nodes at most k steps from v; the least number of steps. *)
RECURSIVE Within(_, _, _)
Within(E, v, k) ==
  IF k = 0 THEN {v}
  ELSE LET near == Within(E, v, k - 1) IN near \cup {e[2] : e \in {x \in E : x[1] \in near}}
Hops(E, u, v) == IF v \notin Within(E, u, size) THEN Inf
                 ELSE Min({k \in 0 .. size : v \in Within(E, u, k)})

(* Simple paths over E that start with p, and those from u to v. *)
RECURSIVE PathsFrom(_, _)
PathsFrom(E, p) ==
  {p} \cup UNION {PathsFrom(E, Append(p, e[2])) :
                      e \in {x \in E : x[1] = Last(p) /\ x[2] \notin ToSet(p)}}
PathsTo(E, u, v) == {p \in PathsFrom(E, <<u>>) : Last(p) = v}

(* Cheapest cost of a path of nodes, and the distance of two nodes. *)
Cost(w, p) == FoldLeft(LAMBDA a, i : a + Min({w[r] : r \in RowsOf(p[i], p[i + 1])}),
                       0, [i \in 1 .. Len(p) - 1 |-> i])
Dist(w, u, v) == Min({Inf} \cup {Cost(w, p) : p \in PathsTo(Arrows(0), u, v)})
SameNodes(E, F) == \A u \in Nodes(size) : Within(E, u, size) = Within(F, u, size)
Both(E) == E \cup {<<e[2], e[1]>> : e \in E}

-----------------------------------------------------------------------------
ExpandExact(r) ==
  LET Out(u, v) == (IF r.dir # 1 THEN Cardinality(RowsOf(u, v)) ELSE 0)
                     + (IF r.dir # 0 THEN Cardinality(RowsOf(v, u)) ELSE 0)
      Times(s, x) == Cardinality({i \in DOMAIN s : s[i] = x})
      Total(u) == MapThenSumSet(LAMBDA v : Out(u, v), Nodes(size))
  IN  /\ \A u, v \in Nodes(size) : Times(r.rows, <<u, v>>) = Times(r.srcs, u) * Out(u, v)
      /\ r.counts = SelectSeq([i \in DOMAIN r.srcs |-> <<r.srcs[i], Total(r.srcs[i])>>],
                              LAMBDA c : c[2] > 0)

VarExpandExact(r) ==
  LET hops == [v \in Nodes(size) |-> Hops(Arrows(r.dir), From, v)]
  IN  /\ IsInjective(r.rows)
      /\ ToSet(r.rows) = {<<From, v, hops[v]>> : v \in {u \in Nodes(size) : hops[u] \in r.min .. r.max}}

WholeExact(r) ==
  LET E == Arrows(0)
      cyclic == \E e \in E : e[1] \in Within(E, e[2], size)
      Linked(u, v) == v \in Within(Arrows(2), u, size)
      Members(c) == {v \in Nodes(size) : r.louvain.comm[v] = c}
      At(v) == CHOOSE i \in DOMAIN r.order : r.order[i] = v
  IN  /\ \A u, v \in Nodes(size) : r.comp[u] = r.comp[v] <=> Linked(u, v)
      /\ IF cyclic THEN r.order = Error
         ELSE /\ Len(r.order) = size /\ ToSet(r.order) = Nodes(size)
              /\ \A e \in E : At(e[1]) < At(e[2])
      /\ MapThenSumSet(LAMBDA v : r.rank.rank[v], Nodes(size)) = r.rank.one
      /\ \A v \in Nodes(size) :
            /\ r.degree[v][3] = r.louvain.deg[v]
            /\ r.louvain.total[v] = MapThenSumSet(LAMBDA u : r.louvain.deg[u], Members(v))
            /\ \A u \in Nodes(size) :
                  /\ r.louvain.id[u] = r.louvain.id[v] <=> r.louvain.comm[u] = r.louvain.comm[v]
                  /\ r.louvain.id[u] = r.louvain.id[v] => Linked(u, v)

CentralExact(r) ==
  LET E == Arrows(2)
      far == [u \in Nodes(size) |-> {v \in Nodes(size) \ {u} : v \in Within(E, u, size)}]
      hops == [u \in Nodes(size) |-> [v \in Nodes(size) |-> Hops(E, u, v)]]
      Close(u) == <<Cardinality(far[u]), MapThenSumSet(LAMBDA v : hops[u][v], far[u])>>
      short == [p \in Nodes(size) \X Nodes(size) |->
                  {q \in PathsTo(E, p[1], p[2]) : Len(q) = hops[p[1]][p[2]] + 1}]
      Via(v, p) == {q \in short[p] : v \in ToSet(q)}
      Between(v) == MapThenSumSet(
                      LAMBDA p : (PathScale * Cardinality(Via(v, p))) \div Cardinality(short[p]),
                      {p \in Nodes(size) \X Nodes(size) : v \notin {p[1], p[2]} /\ short[p] # {}})
  IN  /\ \A i \in DOMAIN r.close : r.close[i] = <<i - 1, Close(i - 1)>>
      /\ IsInjective([i \in DOMAIN r.sample |-> r.sample[i][1]])
      /\ ToSet(r.sample) \subseteq ToSet(r.close)
      /\ Plain => \A v \in Nodes(size) :
           /\ r.between[v] = Between(v)
           /\ LET N == {u \in Nodes(size) : hops[v][u] = 1}
              IN  IF Cardinality(N) < 2 THEN r.cluster[v] = <<0, 1>>
                  ELSE r.cluster[v] = <<Cardinality(Arrows(0) \cap (N \X N)),
                                        Cardinality({p \in N \X N : p[1] # p[2]})>>

(* Every node within reach once, each below an earlier parent one step up; *)
(* a node above the depth limit has all its neighbours in the result.      *)
DfsExact(r) ==
  LET met == {r.rows[i][1] : i \in DOMAIN r.rows}
      E == Arrows(0)
  IN  /\ r.rows[1] = <<From, 0, NoParent>>
      /\ Cardinality(met) = Len(r.rows)
      /\ \A i \in DOMAIN r.rows : i > 1 =>
            /\ <<r.rows[i][3], r.rows[i][1]>> \in E
            /\ \E j \in 1 .. i - 1 : r.rows[j][1] = r.rows[i][3] /\ r.rows[i][2] = r.rows[j][2] + 1
      /\ \A i \in DOMAIN r.rows :
            /\ r.rows[i][2] <= r.max
            /\ r.rows[i][2] < r.max => {e[2] : e \in {x \in E : x[1] = r.rows[i][1]}} \subseteq met

(* Each traversal answers what its definition over the edge table says:    *)
(* hops with their multiplicity, nodes at their breadth-first depth,       *)
(* components, an order exactly for the acyclic graphs, centralities from  *)
(* the shortest paths, and ranks and communities that lose nothing.        *)
TraversalsExact ==
  CASE result.op = "expand" -> ExpandExact(result)
    [] result.op = "var" -> VarExpandExact(result)
    [] result.op = "whole" -> WholeExact(result)
    [] result.op = "central" -> CentralExact(result)
    [] result.op = "dfs" -> DfsExact(result)
    [] OTHER -> TRUE

BoundedExact(r) ==
  IF Hops(Arrows(0), r.src, r.dst) > r.max THEN r.path = Error
  ELSE /\ r.path \in PathsTo(Arrows(0), r.src, r.dst)
       /\ Len(r.path) = Hops(Arrows(0), r.src, r.dst) + 1

WeightedExact(r) ==
  LET exact == {<<v, Dist(r.w, From, v)>> : v \in {u \in Nodes(size) : Dist(r.w, From, u) < Inf}}
      got == {<<x[1], x[2]>> : x \in r.rows}
  IN  IF r.dst = NoDst
      THEN /\ got = exact
           /\ \A x \in r.rows : \E p \in PathsTo(Arrows(0), From, x[1]) :
                 Len(p) = x[3] + 1 /\ Cost(r.w, p) = x[2]
      ELSE {x \in got : x[1] = r.dst} = {x \in exact : x[1] = r.dst}

(* With parallel edges only the first is left out of the next search.      *)
KShortestExact(r) ==
  LET all == PathsTo(Arrows(0), From, To)
      got == {r.paths[i].path : i \in DOMAIN r.paths}
      cost == [p \in all |-> Cost(r.w, p)]
  IN  /\ got \subseteq all /\ Cardinality(got) = Len(r.paths)
      /\ Plain =>
           /\ Len(r.paths) = Min({r.k, Cardinality(all)})
           /\ \A i \in DOMAIN r.paths :
                /\ r.paths[i].cost = cost[r.paths[i].path]
                /\ i > 1 => r.paths[i - 1].cost <= r.paths[i].cost
                /\ \A p \in all \ got : r.paths[i].cost <= cost[p]

ForestExact(r) ==
  LET rows == {rel.fwd.row[r.taken[i]] : i \in DOMAIN r.taken}
      Edges(S) == Both({table[i] : i \in S})
      Sum(S) == MapThenSumSet(LAMBDA i : r.w[i], S)
      classes == {Within(Arrows(2), u, size) : u \in Nodes(size)}
  IN  /\ Cardinality(rows) = Len(r.taken)
      /\ Len(r.taken) = size - Cardinality(classes)
      /\ SameNodes(Edges(rows), Arrows(2))
      /\ \A S \in kSubset(Len(r.taken), DOMAIN table) :
            SameNodes(Edges(S), Arrows(2)) => Sum(rows) <= Sum(S)

(* Paths are the best there are: the bounded search finds a shortest path  *)
(* exactly when one has at most max_depth hops; Dijkstra and A* (under a   *)
(* consistent heuristic) give the distance of the destination, and without *)
(* one of every node; Yen's paths are the k cheapest simple ones of a      *)
(* graph without parallel edges, as long as the candidates have room       *)
(* (CandCap, never reached here); the forest spans at the least weight.    *)
PathsExact ==
  CASE result.op = "path" -> BoundedExact(result)
    [] result.op \in {"dijkstra", "astar"} -> WeightedExact(result)
    [] result.op = "yen" -> KShortestExact(result)
    [] result.op = "forest" -> ForestExact(result)
    [] OTHER -> TRUE

(* The leapfrog join binds the variables exactly to the matches of its     *)
(* pattern, each once when the table has no parallel edges, and refuses a  *)
(* relation whose lists are not marked sorted.                             *)
LeapfrogExact ==
  result.op = "join" =>
    IF ~ rel.fwd.sorted \/ ~ rel.rev.sorted THEN result.rows = Error
    ELSE LET pattern == Pattern(result.nRels, result.nVars)
             matches == {t \in [1 .. result.nVars -> Nodes(size)] :
                           \A i \in DOMAIN pattern : <<t[pattern[i][1]], t[pattern[i][2]]>> \in Arrows(0)}
         IN  ToSet(result.rows) = matches /\ (Plain => IsInjective(result.rows))

(* A shortest-path search ends, with the path or, when dst is not within   *)
(* reach, without one: "BFS shortest path between source and destination   *)
(* nodes, up to max_depth hops" (website/docs/c-api-dag.html).             *)
SearchEnds == (search # Idle) ~> (search = Idle)
=============================================================================
