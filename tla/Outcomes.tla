------------------------------ MODULE Outcomes ------------------------------
(***************************************************************************)
(* The taxonomy every provider call is normalised to (providers.py), and    *)
(* the one distinction the rest of the gateway is built on: whether an      *)
(* outcome says something about the provider or about the caller.           *)
(***************************************************************************)
EXTENDS Integers

Outcome == {"ok", "rate_limit", "timeout", "server_error", "content_filter",
            "auth", "model_not_found", "bad_request"}

Ok(outcome) == outcome = "ok"

\* The provider (or the gateway's own configuration of it) is at fault.
AllFailures == Outcome \ {"ok"}
TrippableSet == {"rate_limit", "timeout", "server_error", "auth", "model_not_found"}
Trippable(outcome) == outcome \in TrippableSet

\* What the window and the breaker keep of one call.
Result == [outcome : Outcome, latency : Nat]
=============================================================================
