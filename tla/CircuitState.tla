---------------------------- MODULE CircuitState ----------------------------
(***************************************************************************)
(* The hash breaker:<provider> as a value, its four possible contents, and   *)
(* the breaker's settings (BreakerConfig).  An absent hash reads as Closed.  *)
(* age is the time since opened_at_ms; it saturates at MaxAge, where every   *)
(* clock already finds the cooldown over.                                    *)
(***************************************************************************)
EXTENDS Clock

CONSTANTS
    Cooldown,          \* breaker.cooldown_s
    CooldownMax,       \* breaker.cooldown_max_s
    ProbesRequired     \* breaker.probe_successes_required

ASSUME CooldownAssumption ==
    Cooldown \in Nat \ {0} /\ CooldownMax \in Nat /\ Cooldown <= CooldownMax
ASSUME ProbesRequiredAssumption == ProbesRequired \in Nat \ {0}

State == {"closed", "open", "half_open"}
MaxAge == CooldownMax + MaxLag

CircuitState == [state : State, age : {NoTime} \cup 0 .. MaxAge,
                 cooldown : Cooldown .. CooldownMax, probe_successes : Nat]

Closed == [state |-> "closed", age |-> NoTime, cooldown |-> Cooldown, probe_successes |-> 0]

OpenedUndated(cooldown, age) ==
    [state |-> "open", age |-> NoTime, cooldown |-> cooldown, probe_successes |-> 0]
Opened(cooldown, age) ==
    [state |-> "open", age |-> age, cooldown |-> cooldown, probe_successes |-> 0]

HalfOpened(cooldown) ==
    [state |-> "half_open", age |-> NoTime, cooldown |-> cooldown, probe_successes |-> 0]

\* The circuit is OPEN and its cooldown is over by a clock lag units old.
Due(circuit, lag) ==
    /\ circuit.state = "open"
    /\ circuit.age # NoTime
    /\ circuit.age - lag >= circuit.cooldown

DoubledUncapped(cooldown) == 2 * cooldown
Doubled(cooldown) == IF 2 * cooldown < CooldownMax THEN 2 * cooldown ELSE CooldownMax

Aged(circuit) ==
    IF circuit.age \in 0 .. MaxAge - 1 THEN [circuit EXCEPT !.age = @ + 1] ELSE circuit
=============================================================================
