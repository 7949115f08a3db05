------------------------------ MODULE MCHealth ------------------------------
(***************************************************************************)
(* Instance of Health for TLC: two writers, a good and a bad answer, a       *)
(* window of two units and clocks up to one unit old, so that two writers'   *)
(* clocks differ, members reach the window's edge, and the key expires.      *)
(***************************************************************************)
EXTENDS Health

ok  == [outcome |-> "ok", latency |-> 1]
bad == [outcome |-> "server_error", latency |-> 1]
MCResults == {ok, bad}
=============================================================================
