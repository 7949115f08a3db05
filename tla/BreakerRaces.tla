---------------------------- MODULE BreakerRaces ----------------------------
(***************************************************************************)
(* What the tests of the breaker say of the writes to the hash.  It holds of  *)
(* the promised Circuit, and of a lone caller; the read-modify-write without  *)
(* WATCH (breaker.py:243) breaks it as soon as two callers overlap.           *)
(***************************************************************************)
EXTENDS Breaker

\* "a flapping provider must not creep to closed" (tests/test_breaker.py:211): a
\* circuit that a failed probe has reopened closes only after a new trial.
OpenNeverCloses == [][~ (circuit.state = "open" /\ circuit'.state = "closed")]_vars
=============================================================================
