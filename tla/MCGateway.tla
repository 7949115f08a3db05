----------------------------- MODULE MCGateway -----------------------------
(***************************************************************************)
(* Instances of Gateway for TLC: two tenants with three keys and two names    *)
(* between them.  Neither headers nor _key object to a colon, so the tenant   *)
(* acme with key eu:7 and the tenant acme:eu with key 7 meet under one name,   *)
(* and acme:eu with key eu:7 keeps the other to itself.  Two requests at a     *)
(* time, and an expiry long enough for a claim to be protected, used up and    *)
(* taken again.                                                               *)
(***************************************************************************)
EXTENDS Gateway, TLC

TwoTenants == {<<"acme">>, <<"acme", "eu">>}
TenantKeys == <<"acme">> :> {<<"eu", "7">>} @@ <<"acme", "eu">> :> {<<"7">>, <<"eu", "7">>}
=============================================================================
