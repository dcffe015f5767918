----------------------------- MODULE MCStateSync -----------------------------
(***************************************************************************)
(* Instances of StateSync for TLC: two threads of the core, two parts of   *)
(* the state, a channel that overflows after one event.                    *)
(***************************************************************************)
EXTENDS StateSync, TLC

CONSTANTS t1, t2, p1, p2

Names == Permutations({t1, t2}) \cup Permutations({p1, p2})
=============================================================================
