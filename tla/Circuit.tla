------------------------------ MODULE Circuit -------------------------------
(***************************************************************************)
(* What a circuit breaker promises, as one atomic step per transition: it    *)
(* opens on a bad window, probes only after the whole cooldown, closes only  *)
(* after ProbesRequired successful probes in a row, and doubles the cooldown  *)
(* of an outage each time a probe fails.  This is the state machine the      *)
(* comments of breaker.py describe; Breaker models how it is carried out.    *)
(***************************************************************************)
EXTENDS CircuitState

VARIABLE circuit

Init == circuit = Closed

Trip ==
    /\ circuit.state = "closed"
    /\ \E age \in 0 .. MaxLag : circuit' = Opened(Cooldown, age)

CoolDown ==
    /\ Due(circuit, 0)
    /\ circuit' = HalfOpened(circuit.cooldown)

ProbeOK ==
    /\ circuit.state = "half_open"
    /\ circuit' = IF circuit.probe_successes + 1 < ProbesRequired
                  THEN [circuit EXCEPT !.probe_successes = @ + 1]
                  ELSE Closed

ProbeFail ==
    /\ circuit.state = "half_open"
    /\ \E age \in 0 .. MaxLag : circuit' = Opened(Doubled(circuit.cooldown), age)

Tick == circuit' = Aged(circuit)

Next == Trip \/ CoolDown \/ ProbeOK \/ ProbeFail \/ Tick

Spec == Init /\ [][Next]_circuit
=============================================================================
