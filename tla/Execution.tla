----------------------------- MODULE Execution -----------------------------
(***************************************************************************)
(* Two operators on the thread pool, for one run of TLC: a query that may  *)
(* be cancelled between and in its stages (QueryCancel), and a group-by    *)
(* that is not cancelled but may run out of memory (GroupAggregate).  A    *)
(* behaviour is one of the two; the variables of the other keep their      *)
(* initial values.                                                         *)
(***************************************************************************)
EXTENDS QueryCancel, GroupAggregate

VARIABLE about     \* which of the two the behaviour is

executionVars == <<vars, qvars, gvars, about>>

ExecutionInit ==
  /\ QueryInit
  /\ GroupInit
  /\ about \in {"cancel", "group"}

ExecutionNext ==
  /\ \/ about = "cancel" /\ QueryNext /\ UNCHANGED gvars
     \/ about = "group" /\ GroupNext /\ UNCHANGED qvars
  /\ UNCHANGED about

ExecutionSpec == ExecutionInit /\ [][ExecutionNext]_executionVars

=============================================================================
