---------------------------- MODULE Idempotency ----------------------------
(***************************************************************************)
(* The replay guard (idempotency.py): the Redis keys idem:<tenant>:<key> and  *)
(* the commands sent to them.  A claim and an answer are both kept for        *)
(* IdemTTL; who may claim, store and release is left to the caller.           *)
(***************************************************************************)
EXTENDS Integers, Sequences

CONSTANTS
    Tenants,       \* header values, as the sequences of their parts between colons
    Keys,          \* Keys[tenant]: the keys a tenant sends, likewise
    Answers,       \* what a response can be told by: a completion or a job id
    IdemTTL        \* queue.idempotency_ttl_s

ASSUME IdemTTLAssumption == IdemTTL \in Nat \ {0}

VARIABLE
    stored         \* stored[n]: the value of the Redis key n and the time left to it

NameWithoutTenant(tenant, key) == key
\* _key: the parts of idem:<tenant>:<key>.
Name(tenant, key) == tenant \o key
Names == UNION {{Name(tenant, key) : key \in Keys[tenant]} : tenant \in Tenants}

\* The envelope of a response; its body says whose request it answers.
Envelope == [tenant : Tenants, answer : Answers]

Nothing == [kind |-> "nothing"]
Entry ==
    {Nothing}
    \cup [kind : {"in_flight"}, ttl : 1 .. IdemTTL]
    \cup [kind : {"response"}, ttl : 1 .. IdemTTL, envelope : Envelope]

Put(n, entry) == stored' = [stored EXCEPT ![n] = entry]

\* claim: SET NX with an expiry takes the key.
InFlight(n) == stored[n].kind = "in_flight"
Held(n) == stored[n].kind = "response"
Free(n) == stored[n] = Nothing
ClaimBriefly(n) == Free(n) /\ Put(n, [kind |-> "in_flight", ttl |-> 1])
Claim(n) == Free(n) /\ Put(n, [kind |-> "in_flight", ttl |-> IdemTTL])

StoreLonger(n, envelope) == Put(n, [kind |-> "response", ttl |-> 2 * IdemTTL, envelope |-> envelope])
Store(n, envelope) == Put(n, [kind |-> "response", ttl |-> IdemTTL, envelope |-> envelope])

Release(n) == Put(n, Nothing)

ExpireResponses ==
    stored' = [n \in Names |->
                 IF ~ Held(n) THEN stored[n]
                 ELSE IF stored[n].ttl = 1 THEN Nothing ELSE [stored[n] EXCEPT !.ttl = @ - 1]]
\* Redis counts the expiries down.
Aged(entry) ==
    IF entry = Nothing \/ entry.ttl = 1 THEN Nothing ELSE [entry EXCEPT !.ttl = @ - 1]
Expire == stored' = [n \in Names |-> Aged(stored[n])]
=============================================================================
