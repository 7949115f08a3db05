------------------------------ MODULE MCRouter ------------------------------
(***************************************************************************)
(* Instance of Router for TLC: the four rungs of interactive.chat, so that a  *)
(* race may be preceded by a refused rung and followed by one to walk on to;  *)
(* a provider's fault, a caller's and one that nobody knows; and an operator  *)
(* who breaks the second rung in every way there is.                         *)
(***************************************************************************)
EXTENDS Router

OneOfEachKind == {"Timeout", "ContextWindowExceededError", "KeyError"}
SecondRung == {2}
=============================================================================
