------------------------------ MODULE Runtime ------------------------------
(***************************************************************************)
(* Two parts of the runtime that share no state, for one run of TLC: the   *)
(* global pool that callers create and destroy (PoolLifecycle), and the    *)
(* symbol file that processes share (SymPersist).  A behaviour is one of   *)
(* the two; the variables of the other keep their initial values.          *)
(***************************************************************************)
EXTENDS SymPersist, PoolLifecycle

VARIABLE about     \* which of the two the behaviour is

runtimeVars == <<vars, poolVars, about>>

RuntimeInit ==
  /\ Init
  /\ LifecycleInit
  /\ about \in {"pool", "symbols"}

\* No caller is in a call of the pool, and none makes another one.
CallersStop == calls = MaxCalls /\ (\A t \in Caller : pc[t] = "idle") /\ UNCHANGED poolVars

RuntimeNext ==
  /\ \/ about = "pool" /\ (LifecycleNext \/ CallersStop) /\ UNCHANGED vars
     \/ about = "symbols" /\ Next /\ UNCHANGED poolVars
  /\ UNCHANGED about

\* Under PoolLifecycle's and SymPersist's own fairness: in the initial state of
\* the other part no action that is fair is enabled.
RuntimeSpec ==
  RuntimeInit /\ [][RuntimeNext]_runtimeVars /\ LifecycleFairness /\ Fairness

=============================================================================
