---------------------------- MODULE HealthWindow ----------------------------
(***************************************************************************)
(* The per-provider sliding window of health.py as a value: the members of  *)
(* the sorted set health:<provider>, and the operations on them.            *)
(*                                                                          *)
(* A member is kept by its age (time since its score) instead of its score, *)
(* so that the state space is finite without a bound on the clock.  `lag`   *)
(* is the age of a caller's `now_ms`: the code captures the clock, awaits   *)
(* Redis, and computes with the captured value.  No lag exceeds MaxLag.     *)
(***************************************************************************)
EXTENDS Outcomes, Clock, FiniteSets

CONSTANTS
    Results,       \* the outcome and latency pairs a provider may answer with
    Window         \* health.window_s

ASSUME ResultsAssumption == Results \subseteq Result
ASSUME WindowAssumption == Window \in Nat \ {0}

\* The token stands for the uuid that keeps equal members apart.
Sample == [result : Results, age : Nat, token : Nat]

\* Members scored after now - window, `now` being lag units old.
NoReadFilter(w, lag) == w
Visible(w, lag) == {s \in w : s.age < Window + lag}

\* What ZREMRANGEBYSCORE -inf..now - window leaves.
EvictWithoutLag(w, lag) == {s \in w : s.age < Window - lag}
Evict(w, lag) == {s \in w : s.age < Window + lag}

NewSampleAhead(w, result, lag) == [result |-> result, age |-> 0 - lag, token |-> 0]
NewSample(w, result, lag) ==
    [result |-> result, age |-> lag,
     token |-> Cardinality({s \in w : s.result = result /\ s.age = lag})]

\* health.record: ZADD, ZREMRANGEBYSCORE and EXPIRE in one MULTI.
Add(w, result, lag) == Evict(w \cup {NewSample(w, result, lag)}, lag)

\* One unit of time passes; samples no lag can reach any more are forgotten.
Older(w) == {[s EXCEPT !.age = @ + 1] : s \in w}
Advance(w) == {s \in Older(w) : s.age < Window + MaxLag}

-----------------------------------------------------------------------------
(* _summarise: caller faults are in neither the rates nor the percentiles. *)

AllSamples(w) == w
HealthSamples(w) == {s \in w : Ok(s.result.outcome) \/ Trippable(s.result.outcome)}
ErrorsAnyFailure(w) == {s \in w : ~ Ok(s.result.outcome)}
Errors(w) == {s \in w : Trippable(s.result.outcome)}

\* s is the k-th smallest of w by latency, counting from 0.
IsRank(w, s, k) ==
    /\ Cardinality({t \in w : t.result.latency < s.result.latency}) <= k
    /\ k < Cardinality({t \in w : t.result.latency <= s.result.latency})

\* statistics.quantiles(n=100, method="inclusive")[94] > budget: interpolation
\* between two neighbouring ranks, in hundredths.  One sample is its own p95.
P95Exceeds(w, budget) ==
    LET n     == Cardinality(w)
        j     == (95 * (n - 1)) \div 100
        delta == (95 * (n - 1)) % 100
        next  == IF j + 1 < n THEN j + 1 ELSE j
    IN  \E lo, hi \in w :
            /\ IsRank(w, lo, j)
            /\ IsRank(w, hi, next)
            /\ lo.result.latency * (100 - delta) + hi.result.latency * delta > 100 * budget
=============================================================================
