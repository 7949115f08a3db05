------------------------------ MODULE Breaker -------------------------------
(***************************************************************************)
(* One provider's circuit breaker (breaker.py) at the granularity of Redis   *)
(* commands.  Every request of the gateway, every job of the worker and      *)
(* every poll of /admin/circuits is a caller; they share the hash            *)
(* breaker:<provider> and the sorted set health:<provider>, and nothing      *)
(* makes one caller's read and later write atomic.                           *)
(*                                                                          *)
(* A caller asks allows(), and if admitted calls the provider and records    *)
(* the outcome; both functions begin with state_of().  Each await is the     *)
(* end of an action.                                                         *)
(***************************************************************************)
EXTENDS HealthWindow, CircuitState

CONSTANTS
    Callers,
    MinSamples,        \* breaker.min_samples
    ErrorPercent,      \* breaker.error_threshold, in percent
    LatencyBudget,     \* the provider's latency_budget_ms
    MaxSamples         \* bound: samples in the window plus calls in flight

ASSUME CallersAssumption == IsFiniteSet(Callers)
ASSUME MinSamplesAssumption == MinSamples \in Nat \ {0}
ASSUME ErrorPercentAssumption == ErrorPercent \in 0 .. 100
ASSUME LatencyBudgetAssumption == LatencyBudget \in Nat
ASSUME BreakerMaxSamplesAssumption == MaxSamples \in Nat

VARIABLES
    circuit,           \* the hash breaker:<provider>
    window,            \* the members of health:<provider>
    caller,            \* caller[c]: where c is, and its local variables
    blamed             \* ghost: some recorded call was the provider's fault

vars == <<circuit, window, caller, blamed>>

-----------------------------------------------------------------------------
\* The fields of CircuitState a caller keeps across an await.
View == [state : State, cooldown : Cooldown .. CooldownMax, probe_successes : Nat]
ViewOf(hash) == [state |-> hash.state, cooldown |-> hash.cooldown,
                 probe_successes |-> hash.probe_successes]

NoView == ViewOf(Closed)
NoResult == [outcome |-> "none", latency |-> 0]

\* What a caller is doing: nothing, allows(), the call, record(), or a poll.
Role == {"none", "allows", "calling", "record", "poll"}
\* The Redis command it is about to send, or the decision it is about to take.
Step == {"idle", "answer", "read", "enter", "clear", "decide", "trip"}

Idle == [role |-> "none", step |-> "idle", seen |-> NoView, result |-> NoResult,
         lag |-> 0]

CallerState == [role : Role, step : Step, seen : View, result : Results \cup {NoResult},
                lag : 0 .. MaxLag]

At(c, role, step) == caller[c].role = role /\ caller[c].step = step
Return(c) == caller' = [caller EXCEPT ![c] = Idle]

InFlight == {c \in Callers : caller[c].role = "calling"}

\* The trip condition of _maybe_trip over what a snapshot returned.
BadOverAllSamples(w) ==
    /\ Cardinality(w) >= MinSamples
    /\ \/ 100 * Cardinality(Errors(w)) > ErrorPercent * Cardinality(HealthSamples(w))
       \/ P95Exceeds(HealthSamples(w), LatencyBudget)
Bad(w) ==
    /\ Cardinality(HealthSamples(w)) >= MinSamples
    /\ \/ 100 * Cardinality(Errors(w)) > ErrorPercent * Cardinality(HealthSamples(w))
       \/ P95Exceeds(HealthSamples(w), LatencyBudget)

\* Ghost: the two ways a call speaks against the provider.  A caller's fault is neither,
\* however slow it was found out.
CallerFault(result) == result.outcome \in {"content_filter", "bad_request"}
ProviderFault(result) ==
    ~ CallerFault(result) /\ (result.outcome # "ok" \/ result.latency > LatencyBudget)

-----------------------------------------------------------------------------
Init ==
    /\ circuit = Closed
    /\ window = {}
    /\ caller = [c \in Callers |-> Idle]
    /\ blamed = FALSE

(***************************************************************************)
(* state_of(): the HGETALL, then, if the cooldown is over by the caller's    *)
(* clock, the HSET to half-open and the DEL of the window - each decided on   *)
(* what the HGETALL returned.                                                *)
(***************************************************************************)
ReadCircuit(c, role, lag) ==
    caller' = [caller EXCEPT ![c] =
                 [@ EXCEPT !.role = role,
                           !.step = IF Due(circuit, lag) THEN "enter" ELSE "decide",
                           !.seen = ViewOf(circuit),
                           !.lag = lag]]

EnterHalfOpen(c) ==
    /\ caller[c].step = "enter"
    /\ circuit' = HalfOpened(caller[c].seen.cooldown)
    /\ caller' = [caller EXCEPT ![c].step = "clear"]
    /\ UNCHANGED <<window, blamed>>

ClearWindow(c) ==
    /\ caller[c].step = "clear"
    /\ window' = {}
    /\ caller' = [caller EXCEPT ![c] =
                    IF @.role = "poll" THEN Idle
                    ELSE [@ EXCEPT !.step = "decide",
                                   !.seen = ViewOf(HalfOpened(caller[c].seen.cooldown))]]
    /\ UNCHANGED <<circuit, blamed>>

\* /admin/circuits and seed_gauge only call state_of, which matters when due.
Poll(c) ==
    /\ At(c, "none", "idle")
    /\ Due(circuit, 0)
    /\ ReadCircuit(c, "poll", 0)
    /\ UNCHANGED <<circuit, window, blamed>>

(***************************************************************************)
(* allows(): admitted when the state read is closed, refused when it is      *)
(* open, and by a draw against probe_ratio when it is half-open.             *)
(***************************************************************************)
Ask(c) ==
    /\ At(c, "none", "idle")
    /\ ReadCircuit(c, "allows", 0)
    /\ UNCHANGED <<circuit, window, blamed>>

Admit(c) ==
    /\ At(c, "allows", "decide")
    /\ caller[c].seen.state \in {"closed", "half_open"}
    /\ Cardinality(window) + Cardinality(InFlight) < MaxSamples
    /\ caller' = [caller EXCEPT ![c] =
                    [Idle EXCEPT !.role = "calling", !.step = "answer"]]
    /\ UNCHANGED <<circuit, window, blamed>>

Refuse(c) ==
    /\ At(c, "allows", "decide")
    /\ caller[c].seen.state \in {"open", "half_open"}
    /\ Return(c)
    /\ UNCHANGED <<circuit, window, blamed>>

\* The provider answers, and health.record writes the sample, stamped with the clock
\* it captured before.
Observe(c) ==
    \E result \in Results, stamp \in 0 .. MaxLag :
        /\ At(c, "calling", "answer")
        /\ window' = Add(window, result, stamp)
        /\ blamed' = (blamed \/ ProviderFault(result))
        /\ caller' = [caller EXCEPT ![c] = [@ EXCEPT !.role = "record", !.step = "read",
                                                     !.result = result]]
        /\ UNCHANGED circuit

(***************************************************************************)
(* record(): what one outcome does depends on the state read at its start,   *)
(* and on a clock captured at some time since the sample was written.        *)
(***************************************************************************)
Consult(c) ==
    /\ At(c, "record", "read")
    /\ \E lag \in 0 .. caller[c].lag : ReadCircuit(c, "record", lag)
    /\ UNCHANGED <<circuit, window, blamed>>

Deciding(c, state) == At(c, "record", "decide") /\ caller[c].seen.state = state

\* OPEN: a call that raced the breaker shut.  A caller fault as a probe: no news.
Ignore(c) ==
    /\ \/ Deciding(c, "open")
       \/ /\ Deciding(c, "half_open")
          /\ ~ Ok(caller[c].result.outcome)
          /\ ~ Trippable(caller[c].result.outcome)
    /\ Return(c)
    /\ UNCHANGED <<circuit, window, blamed>>

ProbeOKNotCounted(c) ==
    LET successes == caller[c].seen.probe_successes IN
    /\ Deciding(c, "half_open")
    /\ Ok(caller[c].result.outcome)
    /\ circuit' = IF successes < ProbesRequired
                  THEN [circuit EXCEPT !.probe_successes = successes]
                  ELSE Closed
    /\ Return(c)
    /\ UNCHANGED <<window, blamed>>
ProbeOK(c) ==
    LET successes == caller[c].seen.probe_successes + 1 IN
    /\ Deciding(c, "half_open")
    /\ Ok(caller[c].result.outcome)
    /\ circuit' = IF successes < ProbesRequired
                  THEN [circuit EXCEPT !.probe_successes = successes]
                  ELSE Closed
    /\ Return(c)
    /\ UNCHANGED <<window, blamed>>

ProbeFailFromBase(c) ==
    /\ Deciding(c, "half_open")
    /\ Trippable(caller[c].result.outcome)
    /\ circuit' = Opened(Doubled(Cooldown), caller[c].lag)
    /\ Return(c)
    /\ UNCHANGED <<window, blamed>>
ProbeFail(c) ==
    /\ Deciding(c, "half_open")
    /\ Trippable(caller[c].result.outcome)
    /\ circuit' = Opened(Doubled(caller[c].seen.cooldown), caller[c].lag)
    /\ Return(c)
    /\ UNCHANGED <<window, blamed>>

\* _maybe_trip: the snapshot, then the decision on it.
Snapshot(c) ==
    /\ Deciding(c, "closed")
    /\ IF Bad(Visible(window, caller[c].lag))
       THEN caller' = [caller EXCEPT ![c].step = "trip"]
       ELSE Return(c)
    /\ UNCHANGED <<circuit, window, blamed>>

Trip(c) ==
    /\ caller[c].step = "trip"
    /\ circuit' = Opened(Cooldown, caller[c].lag)
    /\ Return(c)
    /\ UNCHANGED <<window, blamed>>

-----------------------------------------------------------------------------
\* The caller goes away between two commands: its process dies, its task is
\* cancelled (a hedge that lost), or Redis fails it and _observe swallows it.
Abandon(c) ==
    /\ caller[c] # Idle
    /\ Return(c)
    /\ UNCHANGED <<circuit, window, blamed>>

Tick ==
    /\ \A c \in Callers : caller[c].role = "record" => caller[c].lag < MaxLag
    /\ circuit' = Aged(circuit)
    /\ window' = Advance(window)
    /\ caller' = [c \in Callers |->
                    IF caller[c].role = "record" THEN [caller[c] EXCEPT !.lag = @ + 1]
                    ELSE caller[c]]
    /\ UNCHANGED blamed

StateOf(c) == EnterHalfOpen(c) \/ ClearWindow(c)
Allows(c) == Ask(c) \/ Admit(c) \/ Refuse(c)
Record(c) ==
    Observe(c) \/ Consult(c) \/ Ignore(c) \/ ProbeOK(c) \/ ProbeFail(c) \/ Snapshot(c) \/ Trip(c)

Next ==
    \/ \E c \in Callers : StateOf(c) \/ Poll(c) \/ Allows(c) \/ Record(c) \/ Abandon(c)
    \/ Tick

Spec == Init /\ [][Next]_vars

\* A started caller gets on, requests keep coming, time passes, and a draw that
\* may admit a probe again and again at some time does (probe_ratio > 0).
Fairness ==
    /\ \A c \in Callers : /\ WF_vars(StateOf(c) \/ Refuse(c) \/ Record(c))
                          /\ WF_vars(Ask(c))
                          /\ SF_vars(Admit(c))
    /\ WF_vars(Tick)

FairSpec == Spec /\ Fairness

-----------------------------------------------------------------------------
TypeOK ==
    /\ circuit \in CircuitState
    /\ window \subseteq Sample
    /\ caller \in [Callers -> CallerState]
    /\ blamed \in BOOLEAN

\* An OPEN circuit always has the opened_at_ms its cooldown is counted from, and
\* no interleaving of probes pushes the cooldown past cooldown_max_s or below
\* cooldown_s: state_of (line 105) can always let it out again.
Recoverable ==
    /\ circuit.state = "open" <=> circuit.age # NoTime
    /\ circuit.cooldown \in Cooldown .. CooldownMax

\* Callers' bad input alone, fast or slow, never takes a provider out: a circuit that
\* is not closed means that some recorded call failed by the provider's fault, or was
\* answered but slower than the budget (health.py keeps caller faults out of the rate
\* and of the percentiles, lines 138-146).
OnlyProviderFaultsOpen == circuit.state # "closed" => blamed

\* Samples enough to trip on.
IsEvidence(samples) ==
    /\ Cardinality(samples) = MinSamples
    /\ \A s \in samples : ~ CallerFault(s.result)
Evidence(c) ==
    \E samples \in SUBSET {s \in window : s.age < Window + caller[c].lag} : IsEvidence(samples)
OpensOnEvidence ==
    circuit.state = "closed" /\ circuit'.state = "open" => \E c \in Callers : Evidence(c)
\* A trip rests on MinSamples calls inside the window by the tripping caller's
\* clock, none of them the caller's own fault: thin evidence and a flood of bad
\* input open nothing (_maybe_trip, line 168).  Stated for a lone caller: others
\* may clear or refill the window between the snapshot and the write.
TripNeedsEvidence == [][OpensOnEvidence]_vars

\* A lone caller, whatever it abandons half-way, carries out the promised circuit:
\* every write to the hash is one of the transitions breaker.py's comments name.
\* (Two callers do not: see BreakerRaces.)
PromisedCircuit == INSTANCE Circuit
ImplementsCircuit == PromisedCircuit!Spec

\* Every caller sees its calls through: what looks like giving up is the last
\* command of a poll, a refusal, or a result that changes nothing.
NoneAbandons == \A c \in Callers : Abandon(c) => ClearWindow(c) \/ Refuse(c) \/ Record(c)

\* An OPEN circuit is not left open for good while somebody asks for the provider
\* and completes the two commands of state_of: "reading is what advances the
\* clock here" (line 91), and some read always finds the cooldown over.
OpenIsLeft ==
    <>[][NoneAbandons]_vars => (circuit.state = "open" ~> circuit.state # "open")

\* Once the provider answers well within its budget, the circuit closes and stays
\* closed: no livelock of stale writes, lost probe counts and old samples keeps a
\* well provider out.
GoodAnswer(result) == Ok(result.outcome) /\ result.latency <= LatencyBudget
ProviderWell == \A c \in Callers : Observe(c) => GoodAnswer(caller'[c].result)
Recovery == <>[][NoneAbandons /\ ProviderWell]_vars => <>[](circuit.state = "closed")
=============================================================================
