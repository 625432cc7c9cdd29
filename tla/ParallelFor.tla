---------------------------- MODULE ParallelFor ----------------------------
(***************************************************************************)
(* What a caller of ray_pool_dispatch relies on (src/core/pool.h): a loop  *)
(* over the tasks of one call that is over when the call returns.  Only    *)
(* the call is visible, and which of its tasks are not finished yet.       *)
(***************************************************************************)
EXTENDS Integers

CONSTANT Task     \* the task numbers a call can have

VARIABLES
  active,         \* a call is in progress
  todo            \* tasks of the call that are not finished

vars == <<active, todo>>

Init == active = FALSE /\ todo = {}

Call ==
  /\ ~active
  /\ active' = TRUE
  /\ todo' \in (SUBSET Task) \ {{}}

\* Some thread finishes one task.
Finish ==
  /\ active
  /\ \E i \in todo : todo' = todo \ {i}
  /\ UNCHANGED active

\* The call returns, and only when all of its tasks are finished.
Return ==
  /\ active
  /\ todo = {}
  /\ active' = FALSE
  /\ UNCHANGED todo

Next == Call \/ Finish \/ Return

Spec == Init /\ [][Next]_vars /\ WF_vars(Finish \/ Return)

=============================================================================
