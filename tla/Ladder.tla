------------------------------- MODULE Ladder -------------------------------
(***************************************************************************)
(* What the router promises of one request: it calls each rung at most once,  *)
(* at most two at a time, and none once a call has settled the request; it    *)
(* serves only a settling answer, leaving no call behind, and gives up only   *)
(* when every call it made has failed by the provider's fault.                *)
(***************************************************************************)
EXTENDS Outcomes

CONSTANT LadderLength

Rungs == 1 .. LadderLength

\* A success settles a request, and so does a fault of the caller's, which every
\* other rung would reject too.
Settles(outcome) == Ok(outcome) \/ ~ Trippable(outcome)

VARIABLES
    answer,        \* answer[i]: what became of the call of rung i
    verdict

Answer == {"uncalled", "waiting", "lost", "broken"} \cup Outcome
Verdict == {"pending", "served", "exhausted", "raised"}

Settled == \E i \in Rungs : answer[i] \in Outcome /\ Settles(answer[i])
Waiting == {i \in Rungs : answer[i] = "waiting"}

Init ==
    /\ answer = [i \in Rungs |-> "uncalled"]
    /\ verdict = "pending"

Call(i) ==
    /\ verdict = "pending" /\ answer[i] = "uncalled"
    /\ ~ Settled /\ \A j, k \in Waiting : j = k
    /\ answer' = [answer EXCEPT ![i] = "waiting"]
    /\ UNCHANGED verdict

\* The provider answers, or the call breaks before it is made.
Return(i) ==
    /\ answer[i] = "waiting"
    /\ \E outcome \in Outcome \cup {"broken"} : answer' = [answer EXCEPT ![i] = outcome]
    /\ UNCHANGED verdict

Serve ==
    /\ verdict = "pending" /\ Settled
    /\ verdict' = "served"
    /\ answer' = [i \in Rungs |-> IF i \in Waiting THEN "lost" ELSE answer[i]]

Exhaust ==
    /\ verdict = "pending"
    /\ \A i \in Rungs : answer[i] \in {"uncalled"} \cup TrippableSet
    /\ verdict' = "exhausted"
    /\ UNCHANGED answer

\* Redis, asked about a breaker or an injected fault, cannot be reached.
Raise ==
    /\ verdict = "pending"
    /\ verdict' = "raised"
    /\ UNCHANGED answer

Next == (\E i \in Rungs : Call(i) \/ Return(i)) \/ Serve \/ Exhaust \/ Raise

Spec == Init /\ [][Next]_<<answer, verdict>>
=============================================================================
