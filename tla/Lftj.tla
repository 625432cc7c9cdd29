-------------------------------- MODULE Lftj --------------------------------
(***************************************************************************)
(* The leapfrog triejoin of ops/lftj.c: relations joined on shared         *)
(* variables, bound one after the other.  Each relation gives a sorted     *)
(* list to the later of its two variables, and the lists of a variable are *)
(* intersected by iterators that leap over each other.  An iterator is the *)
(* sorted rest of a list.                                                  *)
(***************************************************************************)
EXTENDS Csr

(* The rest of a sorted list from the first key that is not below v. *)
Seek(it, v) == SelectSeq(it, LAMBDA k : k >= v)

(* Faulty variant: two neighbours that agree are taken for all. *)
RECURSIVE LeapTwo(_, _)
LeapTwo(iters, maxIdx) ==
  LET max == iters[maxIdx][1]
      next == (maxIdx % Len(iters)) + 1
      moved == [iters EXCEPT ![next] = Seek(@, max)]
  IN  IF moved[next] = <<>> THEN [found |-> FALSE]
      ELSE IF moved[next][1] = max
      THEN [found |-> TRUE, val |-> max, iters |-> moved]
      ELSE LeapTwo(moved, next)

RECURSIVE Leap(_, _)
Leap(iters, maxIdx) ==
  LET max == iters[maxIdx][1]
      next == (maxIdx % Len(iters)) + 1
      moved == [iters EXCEPT ![next] = Seek(@, max)]
  IN  IF moved[next] = <<>> THEN [found |-> FALSE]
      ELSE IF \A i \in DOMAIN moved : moved[i][1] = max
      THEN [found |-> TRUE, val |-> max, iters |-> moved]
      ELSE Leap(moved, next)

LeapfrogSearch(iters) ==
  IF \E i \in DOMAIN iters : iters[i] = <<>> THEN [found |-> FALSE]
  ELSE Leap(iters, CHOOSE i \in DOMAIN iters : \A j \in DOMAIN iters :
                     \/ iters[j][1] < iters[i][1]
                     \/ iters[j][1] = iters[i][1] /\ i <= j)

(* Pairs of variables of the patterns the default plan knows, relation by  *)
(* relation; variables are numbered from 1.                                *)
Pattern(nRels, nVars) ==
  IF nVars = 3 /\ nRels = 3 THEN << <<1, 2>>, <<2, 3>>, <<1, 3>> >>
  ELSE IF nVars = 2 THEN [r \in 1 .. nRels |-> <<1, 2>>]
  ELSE IF nVars = 4 /\ nRels = 6
  THEN << <<1, 2>>, <<1, 3>>, <<1, 4>>, <<2, 3>>, <<2, 4>>, <<3, 4>> >>
  ELSE IF nRels = nVars - 1 THEN [r \in 1 .. nRels |-> <<r, r + 1>>]
  ELSE <<>>

(* Bindings <<index, variable bound before>> of each variable.             *)
BuildPlan(rels, nVars, pattern) ==
  [v \in 1 .. nVars |->
     FlattenSeq([r \in DOMAIN pattern |->
        LET s == pattern[r][1]
            d == pattern[r][2]
        IN  IF s < d /\ v = d THEN << <<rels[r].fwd, s>> >>
            ELSE IF d < s /\ v = s THEN << <<rels[r].rev, d>> >>
            ELSE <<>>])]

RECURSIVE Enumerate(_, _), Matches(_, _, _)
(* Backtracking: bind the next variable to each match, in order.           *)
Enumerate(plan, bound) ==
  LET bindings == plan[Len(bound) + 1]
      indexes == UNION {{plan[v][b][1].n : b \in DOMAIN plan[v]} : v \in DOMAIN plan}
      lists == [b \in DOMAIN bindings |->
                  Neighbors(bindings[b][1], bound[bindings[b][2]])]
  IN  IF Len(bound) = Len(plan) THEN <<bound>>
      ELSE IF bindings # <<>> THEN Matches(plan, bound, lists)
      ELSE IF bound # <<>> THEN <<>>
      ELSE FlattenSeq([i \in 1 .. Max(indexes \cup {0}) |-> Enumerate(plan, <<i - 1>>)])

Matches(plan, bound, iters) ==
  LET m == LeapfrogSearch(iters)
  IN  IF ~ m.found THEN <<>>
      ELSE Enumerate(plan, Append(bound, m.val))
             \o Matches(plan, bound, [i \in DOMAIN m.iters |-> Tail(m.iters[i])])

WcoJoin(rels, nVars) ==
  LET pattern == Pattern(Len(rels), nVars)
  IN  IF \/ rels = <<>>
         \/ \E r \in DOMAIN rels : ~ (rels[r].fwd.sorted /\ rels[r].rev.sorted)
         \/ pattern = <<>>
      THEN Error
      ELSE Enumerate(BuildPlan(rels, nVars, pattern), <<>>)
=============================================================================
