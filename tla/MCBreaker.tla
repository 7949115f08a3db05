----------------------------- MODULE MCBreaker ------------------------------
(***************************************************************************)
(* Instances of Breaker for TLC.  Two samples are evidence enough, so a trip *)
(* is two calls away.  For a lone caller the cooldown 1 doubles to 2 and is   *)
(* capped at 3 rather than 4, and a window of 2 lets samples expire while a   *)
(* circuit is open; two callers under fairness have 2 and 1.                  *)
(***************************************************************************)
EXTENDS BreakerRaces

ok    == [outcome |-> "ok", latency |-> 1]
slow  == [outcome |-> "ok", latency |-> 9]
fault == [outcome |-> "server_error", latency |-> 1]
input == [outcome |-> "bad_request", latency |-> 1]
slowInput == [outcome |-> "content_filter", latency |-> 9]

AllResults == {ok, slow, fault, input, slowInput}
FaultResults == {ok, fault, input}
OkFault == {ok, fault}
=============================================================================
