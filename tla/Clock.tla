------------------------------- MODULE Clock --------------------------------
(***************************************************************************)
(* Time as the Redis-backed components see it.  Stored timestamps are kept   *)
(* as ages and a captured now_ms as its lag, both advanced by a Tick of the  *)
(* module that owns them, so no module needs a bound on the clock itself.    *)
(***************************************************************************)
EXTENDS Integers

CONSTANT
    MaxLag         \* bound: the longest a captured now_ms is still in use

ASSUME MaxLagAssumption == MaxLag \in Nat

\* The age of a timestamp that is not there.
NoTime == -1
=============================================================================
