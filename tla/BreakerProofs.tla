--------------------------- MODULE BreakerProofs ----------------------------
(***************************************************************************)
(* Theorems about Breaker for any set of callers, any settings and any       *)
(* answers of the provider: what always holds of it, and, at the end, that a  *)
(* lone caller carries out the promised Circuit and trips on evidence only.  *)
(***************************************************************************)
EXTENDS Breaker, HealthWindowProofs

USE DEF NoTime

LEMMA ConstantTypes ==
    /\ MaxLag \in Nat /\ Cooldown \in Nat /\ CooldownMax \in Nat /\ ProbesRequired \in Nat
    /\ 0 < Cooldown /\ Cooldown <= CooldownMax /\ 0 < ProbesRequired
    /\ MinSamples \in Nat /\ 0 < MinSamples /\ ErrorPercent \in Nat /\ LatencyBudget \in Nat
  BY MaxLagAssumption, CooldownAssumption, ProbesRequiredAssumption, MinSamplesAssumption,
     ErrorPercentAssumption, LatencyBudgetAssumption

\* The contents the code ever writes to the hash have its type.
LEMMA WrittenCircuits ==
    /\ Closed \in CircuitState
    /\ \A cooldown \in Cooldown .. CooldownMax :
         /\ HalfOpened(cooldown) \in CircuitState
         /\ \A lag \in 0 .. MaxLag : Opened(cooldown, lag) \in CircuitState
         /\ Doubled(cooldown) \in Cooldown .. CooldownMax
    /\ \A hash \in CircuitState : Aged(hash) \in CircuitState
<1>1. Closed \in CircuitState
  BY ConstantTypes DEF Closed, CircuitState, State
<1>2. ASSUME NEW cooldown \in Cooldown .. CooldownMax
      PROVE  /\ HalfOpened(cooldown) \in CircuitState
             /\ \A lag \in 0 .. MaxLag : Opened(cooldown, lag) \in CircuitState
             /\ Doubled(cooldown) \in Cooldown .. CooldownMax
  BY ConstantTypes DEF HalfOpened, Opened, Doubled, CircuitState, State, MaxAge
<1>3. ASSUME NEW hash \in CircuitState
      PROVE  Aged(hash) \in CircuitState
  BY ConstantTypes DEF Aged, CircuitState, State, MaxAge
<1> QED
  BY <1>1, <1>2, <1>3

LEMMA IdleType == Idle \in CallerState
  BY ConstantTypes DEF Idle, CallerState, Role, Step, View, NoView, ViewOf, Closed, State

LEMMA ViewType == ASSUME NEW hash \in CircuitState PROVE ViewOf(hash) \in View
  BY DEF CircuitState, ViewOf, View

-----------------------------------------------------------------------------
(* Type correctness. *)

TypeInv == TypeOK /\ IsFiniteSet(window)

LEMMA TypeInit == Init => TypeInv
<1> SUFFICES ASSUME Init PROVE TypeInv
  OBVIOUS
<1>1. caller \in [Callers -> CallerState]
  BY IdleType DEF Init
<1> QED
  BY <1>1, WrittenCircuits, FS_EmptySet DEF Init, TypeInv, TypeOK

LEMMA ReadCircuitType ==
    ASSUME TypeOK, NEW c \in Callers, NEW role \in Role, NEW lag \in 0 .. MaxLag,
           ReadCircuit(c, role, lag)
    PROVE  caller' \in [Callers -> CallerState]
<1> DEFINE step == IF Due(circuit, lag) THEN "enter" ELSE "decide"
<1>1. ViewOf(circuit) \in View
  BY ViewType DEF TypeOK
<1>2. step \in Step
  BY DEF Step
<1>3. caller' = [caller EXCEPT ![c] = [@ EXCEPT !.role = role, !.step = step,
                                                !.seen = ViewOf(circuit), !.lag = lag]]
  BY DEF ReadCircuit
<1> HIDE DEF step
<1> QED
  BY <1>1, <1>2, <1>3 DEF TypeOK, CallerState

\* The clock of a record() is no older than its caller's.
LEMMA ConsultReads ==
    ASSUME TypeOK, NEW c \in Callers, Consult(c)
    PROVE  \E lag \in 0 .. MaxLag : ReadCircuit(c, "record", lag)
<1>1. PICK lag \in 0 .. caller[c].lag : ReadCircuit(c, "record", lag)
  BY DEF Consult
<1>2. caller[c].lag \in 0 .. MaxLag
  BY DEF TypeOK, CallerState
<1>3. lag \in 0 .. MaxLag
  BY <1>2, ConstantTypes
<1> QED
  BY <1>1, <1>3

LEMMA ReturnType ==
    ASSUME TypeOK, NEW c \in Callers, Return(c)
    PROVE  caller' \in [Callers -> CallerState]
  BY IdleType DEF TypeOK, Return

LEMMA TypeNext == TypeInv /\ [Next]_vars => TypeInv'
<1> SUFFICES ASSUME TypeInv, [Next]_vars PROVE TypeInv'
  OBVIOUS
<1> USE DEF TypeInv
<1>1. ASSUME NEW c \in Callers, EnterHalfOpen(c) PROVE TypeInv'
  <2>1. caller[c].seen.cooldown \in Cooldown .. CooldownMax
    BY DEF TypeOK, CallerState, View
  <2>2. caller' \in [Callers -> CallerState]
    BY <1>1 DEF EnterHalfOpen, TypeOK, CallerState, Step
  <2> QED
    BY <1>1, <2>1, <2>2, WrittenCircuits DEF EnterHalfOpen, TypeOK
<1>2. ASSUME NEW c \in Callers, ClearWindow(c) PROVE TypeInv'
  <2>1. ViewOf(HalfOpened(caller[c].seen.cooldown)) \in View
    BY DEF TypeOK, CallerState, View, ViewOf, HalfOpened, State
  <2>2. caller' \in [Callers -> CallerState]
    BY <1>2, <2>1, IdleType DEF ClearWindow, TypeOK, CallerState, Step
  <2> QED
    BY <1>2, <2>2, FS_EmptySet DEF ClearWindow, TypeOK
<1>3. ASSUME NEW c \in Callers, Poll(c) PROVE TypeInv'
  BY <1>3, ReadCircuitType, ConstantTypes DEF Poll, TypeOK, Role
<1>4. ASSUME NEW c \in Callers, Ask(c) PROVE TypeInv'
  BY <1>4, ReadCircuitType, ConstantTypes DEF Ask, TypeOK, Role
<1>5. ASSUME NEW c \in Callers, Admit(c) PROVE TypeInv'
  <2>1. caller' \in [Callers -> CallerState]
    BY <1>5, IdleType DEF Admit, TypeOK, CallerState, Role, Step
  <2> QED
    BY <1>5, <2>1 DEF Admit, TypeOK
<1>6. ASSUME NEW c \in Callers, Refuse(c) PROVE TypeInv'
  BY <1>6, ReturnType DEF Refuse, TypeOK
<1>7. ASSUME NEW c \in Callers, Observe(c) PROVE TypeInv'
  <2>1. PICK result \in Results, stamp \in 0 .. MaxLag :
          /\ window' = Add(window, result, stamp)
          /\ blamed' = (blamed \/ ProviderFault(result))
          /\ caller' = [caller EXCEPT ![c] = [@ EXCEPT !.role = "record", !.step = "read",
                                                       !.result = result]]
          /\ UNCHANGED circuit
    BY <1>7 DEF Observe
  <2>2. window' \subseteq Sample /\ IsFiniteSet(window')
    BY <2>1, AddWindow, ConstantTypes DEF IsWindow, TypeOK
  <2>3. caller' \in [Callers -> CallerState]
    BY <2>1 DEF TypeOK, CallerState, Role, Step
  <2>4. blamed' \in BOOLEAN
    BY <2>1 DEF ProviderFault, CallerFault, TypeOK
  <2> QED
    BY <2>1, <2>2, <2>3, <2>4 DEF TypeOK
<1>8. ASSUME NEW c \in Callers, Consult(c) PROVE TypeInv'
  <2>1. PICK lag \in 0 .. MaxLag : ReadCircuit(c, "record", lag)
    BY <1>8, ConsultReads
  <2> QED
    BY <1>8, <2>1, ReadCircuitType DEF Consult, TypeOK, Role
<1>9. ASSUME NEW c \in Callers, Ignore(c) PROVE TypeInv'
  BY <1>9, ReturnType DEF Ignore, TypeOK
<1>10. ASSUME NEW c \in Callers, ProbeOK(c) PROVE TypeInv'
  <2>1. caller[c].seen.probe_successes \in Nat
    BY DEF TypeOK, CallerState, View
  <2>2. circuit' \in CircuitState
    BY <1>10, <2>1, WrittenCircuits DEF ProbeOK, TypeOK, CircuitState
  <2> QED
    BY <1>10, <2>2, ReturnType DEF ProbeOK, TypeOK
<1>11. ASSUME NEW c \in Callers, ProbeFail(c) PROVE TypeInv'
  <2>1. /\ caller[c].seen.cooldown \in Cooldown .. CooldownMax
        /\ caller[c].lag \in 0 .. MaxLag
    BY DEF TypeOK, CallerState, View
  <2> QED
    BY <1>11, <2>1, WrittenCircuits, ReturnType DEF ProbeFail, TypeOK
<1>12. ASSUME NEW c \in Callers, Snapshot(c) PROVE TypeInv'
  <2>1. caller' \in [Callers -> CallerState]
    <3>1. CASE Return(c)
      BY <3>1, ReturnType
    <3>2. CASE caller' = [caller EXCEPT ![c].step = "trip"]
      BY <3>2 DEF TypeOK, CallerState, Step
    <3> QED
      BY <1>12, <3>1, <3>2 DEF Snapshot
  <2> QED
    BY <1>12, <2>1 DEF Snapshot, TypeOK
<1>13. ASSUME NEW c \in Callers, Trip(c) PROVE TypeInv'
  <2>1. caller[c].lag \in 0 .. MaxLag /\ Cooldown \in Cooldown .. CooldownMax
    BY ConstantTypes DEF TypeOK, CallerState
  <2> QED
    BY <1>13, <2>1, WrittenCircuits, ReturnType DEF Trip, TypeOK
<1>14. ASSUME NEW c \in Callers, Abandon(c) PROVE TypeInv'
  BY <1>14, ReturnType DEF Abandon, TypeOK
<1>15. CASE Tick
  <2>1. window' \subseteq Sample /\ IsFiniteSet(window')
    BY <1>15, AdvanceWindow DEF IsWindow, TypeOK, Tick
  <2>2. caller' \in [Callers -> CallerState]
    BY <1>15, ConstantTypes DEF Tick, TypeOK, CallerState
  <2> QED
    BY <1>15, <2>1, <2>2, WrittenCircuits DEF Tick, TypeOK
<1>16. CASE UNCHANGED vars
  BY <1>16 DEF vars, TypeOK
<1> QED
  BY <1>1, <1>2, <1>3, <1>4, <1>5, <1>6, <1>7, <1>8, <1>9, <1>10, <1>11, <1>12, <1>13,
     <1>14, <1>15, <1>16 DEF Next, StateOf, Allows, Record

LEMMA TypeInvariant == Spec => []TypeInv
  BY TypeInit, TypeNext, PTL DEF Spec

\* Every reachable hash, window and local variable has the values the code can
\* parse back: the cooldown stays between cooldown_s and cooldown_max_s.
THEOREM TypeCorrect == Spec => []TypeOK
<1>1. TypeInv => TypeOK
  BY DEF TypeInv
<1> QED
  BY <1>1, TypeInvariant, PTL

-----------------------------------------------------------------------------
(* The hash. *)

\* Only four commands write the hash, and time ages it.
LEMMA HashWrites ==
    ASSUME [Next]_vars
    PROVE  \/ circuit' = circuit
           \/ circuit' = Aged(circuit)
           \/ \E c \in Callers : EnterHalfOpen(c) \/ ProbeOK(c) \/ ProbeFail(c) \/ Trip(c)
  BY DEF Next, vars, StateOf, Allows, Record, ClearWindow, Poll, Ask, Admit, Refuse, Observe,
         Consult, Ignore, Snapshot, Abandon, Tick

LEMMA RecoverableNext == TypeInv /\ Recoverable /\ [Next]_vars => Recoverable'
<1> SUFFICES ASSUME TypeInv, Recoverable, [Next]_vars PROVE Recoverable'
  OBVIOUS
<1>0. circuit' \in CircuitState
  BY TypeNext DEF TypeInv, TypeOK
<1>1. circuit' = Aged(circuit) => (circuit'.state = "open" <=> circuit'.age # NoTime)
  BY ConstantTypes DEF Recoverable, Aged, TypeInv, TypeOK, CircuitState
<1>2. ASSUME NEW c \in Callers, EnterHalfOpen(c)
      PROVE  circuit'.state = "open" <=> circuit'.age # NoTime
  BY <1>2 DEF EnterHalfOpen, HalfOpened
<1>3. ASSUME NEW c \in Callers, ProbeOK(c)
      PROVE  circuit'.state = "open" <=> circuit'.age # NoTime
  BY <1>3 DEF ProbeOK, Closed, Recoverable, TypeInv, TypeOK, CircuitState
<1>4. ASSUME NEW c \in Callers, ProbeFail(c) \/ Trip(c)
      PROVE  circuit'.state = "open" <=> circuit'.age # NoTime
  <2>1. caller[c].lag \in Nat
    BY ConstantTypes DEF TypeInv, TypeOK, CallerState
  <2> QED
    BY <1>4, <2>1 DEF ProbeFail, Trip, Opened
<1>5. circuit'.state = "open" <=> circuit'.age # NoTime
  BY <1>1, <1>2, <1>3, <1>4, HashWrites DEF Recoverable
<1> QED
  BY <1>0, <1>5 DEF Recoverable, CircuitState

\* No interleaving of any number of callers leaves the circuit open without an
\* opened_at_ms, or with a cooldown outside cooldown_s .. cooldown_max_s.
THEOREM AlwaysRecoverable == Spec => []Recoverable
<1>1. Init => Recoverable
  BY ConstantTypes DEF Init, Recoverable, Closed
<1> QED
  BY <1>1, RecoverableNext, TypeInvariant, PTL DEF Spec

-----------------------------------------------------------------------------
(* Caller faults open nothing. *)

\* The trip condition holds of no window that has only good calls and caller
\* faults: errors are provider faults, and a p95 over budget has a slow call that
\* is no caller's fault.
LEMMA BadNeedsFault ==
    ASSUME NEW w, IsWindow(w), Bad(w)
    PROVE  \E s \in w : ProviderFault(s.result)
<1>1. IsWindow(HealthSamples(w)) /\ HealthSamples(w) \subseteq w
  <2>1. HealthSamples(w) \in SUBSET w
    BY DEF HealthSamples
  <2> QED
    BY <2>1, FS_Subset DEF IsWindow
<1>2. Errors(w) \in SUBSET w /\ IsFiniteSet(Errors(w))
  <2>1. Errors(w) \in SUBSET w
    BY DEF Errors
  <2> QED
    BY <2>1, FS_Subset DEF IsWindow
<1>3. CASE 100 * Cardinality(Errors(w)) > ErrorPercent * Cardinality(HealthSamples(w))
  <2>1. Cardinality(HealthSamples(w)) \in Nat /\ Cardinality(Errors(w)) \in Nat
    BY <1>1, <1>2, FS_CardinalityType DEF IsWindow
  <2>2. ErrorPercent * Cardinality(HealthSamples(w)) >= 0
    BY <2>1, ConstantTypes
  <2>3. Cardinality(Errors(w)) # 0
    BY <1>3, <2>1, <2>2, ConstantTypes
  <2>4. PICK s \in Errors(w) : TRUE
    BY <1>2, <2>3, FS_EmptySet
  <2>5. s \in w /\ Trippable(s.result.outcome)
    BY <2>4 DEF Errors
  <2> QED
    BY <2>5 DEF ProviderFault, CallerFault, Trippable, TrippableSet
<1>4. CASE P95Exceeds(HealthSamples(w), LatencyBudget)
  <2>1. PICK s \in HealthSamples(w) : s.result.latency > LatencyBudget
    BY <1>1, <1>4, P95NeedsSlow, ConstantTypes
  <2>2. ~ CallerFault(s.result)
    BY DEF HealthSamples, CallerFault, Ok, Trippable, TrippableSet
  <2> QED
    BY <1>1, <2>1, <2>2 DEF ProviderFault
<1> QED
  BY <1>3, <1>4 DEF Bad

\* OnlyProviderFaultsOpen is not inductive by itself: a write to the hash is
\* decided on what the caller read and on the window, so both must carry the
\* blame as well.
Blame ==
    /\ OnlyProviderFaultsOpen
    /\ \A s \in window : ProviderFault(s.result) => blamed
    /\ \A c \in Callers :
         /\ caller[c].seen.state # "closed" => blamed
         /\ caller[c].step \in {"enter", "clear", "trip"} => blamed

LEMMA BlameInit == Init => Blame
  BY DEF Init, Blame, OnlyProviderFaultsOpen, Closed, Idle, NoView, ViewOf

\* A caller that goes back to idle carries no blame.
LEMMA ReturnBlame ==
    ASSUME TypeInv, Blame, NEW c \in Callers, Return(c), blamed' = blamed
    PROVE  \A d \in Callers :
             /\ caller'[d].seen.state # "closed" => blamed'
             /\ caller'[d].step \in {"enter", "clear", "trip"} => blamed'
  BY DEF TypeInv, TypeOK, Blame, Return, Idle, NoView, ViewOf, Closed

\* Reading the hash hands its blame to the reader.
LEMMA ReadBlame ==
    ASSUME TypeInv, Blame, NEW c \in Callers, NEW role \in Role, NEW lag \in 0 .. MaxLag,
           ReadCircuit(c, role, lag), blamed' = blamed
    PROVE  \A d \in Callers :
             /\ caller'[d].seen.state # "closed" => blamed'
             /\ caller'[d].step \in {"enter", "clear", "trip"} => blamed'
<1> DEFINE step == IF Due(circuit, lag) THEN "enter" ELSE "decide"
<1>1. step = "decide" \/ (step = "enter" /\ blamed)
  BY DEF Due, Blame, OnlyProviderFaultsOpen
<1>2. caller' = [caller EXCEPT ![c] = [@ EXCEPT !.role = role, !.step = step,
                                                !.seen = ViewOf(circuit), !.lag = lag]]
  BY DEF ReadCircuit
<1> HIDE DEF step
<1>3. ViewOf(circuit).state # "closed" => blamed
  BY DEF ViewOf, Blame, OnlyProviderFaultsOpen
<1>4. /\ caller'[c].step = step
      /\ caller'[c].seen = ViewOf(circuit)
      /\ \A d \in Callers \ {c} : caller'[d] = caller[d]
  BY <1>2 DEF TypeInv, TypeOK, CallerState
<1> QED
  BY <1>1, <1>3, <1>4 DEF Blame

LEMMA BlameNext == TypeInv /\ Blame /\ [Next]_vars => Blame'
<1> SUFFICES ASSUME TypeInv, Blame, [Next]_vars PROVE Blame'
  OBVIOUS
<1> USE DEF TypeInv, Blame, OnlyProviderFaultsOpen
<1>1. ASSUME NEW c \in Callers, EnterHalfOpen(c) PROVE Blame'
  BY <1>1 DEF EnterHalfOpen, TypeOK, CallerState
<1>2. ASSUME NEW c \in Callers, ClearWindow(c) PROVE Blame'
  <2>1. blamed /\ blamed' = blamed /\ circuit' = circuit /\ window' = {}
    BY <1>2 DEF ClearWindow
  <2> QED
    BY <2>1
<1>3. ASSUME NEW c \in Callers, Poll(c) PROVE Blame'
  BY <1>3, ReadBlame, ConstantTypes DEF Poll, Role
<1>4. ASSUME NEW c \in Callers, Ask(c) PROVE Blame'
  BY <1>4, ReadBlame, ConstantTypes DEF Ask, Role
<1>5. ASSUME NEW c \in Callers, Admit(c) PROVE Blame'
  <2>1. /\ caller'[c].step = "answer"
        /\ caller'[c].seen.state = "closed"
        /\ \A d \in Callers \ {c} : caller'[d] = caller[d]
    BY <1>5 DEF Admit, TypeOK, CallerState, Idle, NoView, ViewOf, Closed
  <2> QED
    BY <1>5, <2>1 DEF Admit
<1>6. ASSUME NEW c \in Callers, Refuse(c) PROVE Blame'
  BY <1>6, ReturnBlame DEF Refuse
<1>7. ASSUME NEW c \in Callers, Observe(c) PROVE Blame'
  <2>1. PICK result \in Results, stamp \in 0 .. MaxLag :
          /\ window' = Add(window, result, stamp)
          /\ blamed' = (blamed \/ ProviderFault(result))
          /\ caller' = [caller EXCEPT ![c] = [@ EXCEPT !.role = "record", !.step = "read",
                                                       !.result = result]]
          /\ UNCHANGED circuit
    BY <1>7 DEF Observe
  <2>2. \A s \in window' : s \in window \/ s.result = result
    BY <2>1, AddWindow, ConstantTypes DEF IsWindow, TypeOK
  <2>3. \A s \in window' : ProviderFault(s.result) => blamed'
    BY <2>1, <2>2
  <2>4. /\ caller'[c].step = "read"
        /\ caller'[c].seen = caller[c].seen
        /\ \A d \in Callers \ {c} : caller'[d] = caller[d]
    BY <2>1 DEF TypeOK, CallerState
  <2> QED
    BY <2>1, <2>3, <2>4
<1>8. ASSUME NEW c \in Callers, Consult(c) PROVE Blame'
  <2>1. PICK lag \in 0 .. MaxLag : ReadCircuit(c, "record", lag)
    BY <1>8, ConsultReads
  <2> QED
    BY <1>8, <2>1, ReadBlame DEF Consult, Role
<1>9. ASSUME NEW c \in Callers, Ignore(c) PROVE Blame'
  BY <1>9, ReturnBlame DEF Ignore
<1>10. ASSUME NEW c \in Callers, ProbeOK(c) PROVE Blame'
  <2>1. blamed
    BY <1>10 DEF ProbeOK, Deciding
  <2> QED
    BY <1>10, <2>1, ReturnBlame DEF ProbeOK
<1>11. ASSUME NEW c \in Callers, ProbeFail(c) PROVE Blame'
  <2>1. blamed
    BY <1>11 DEF ProbeFail, Deciding
  <2> QED
    BY <1>11, <2>1, ReturnBlame DEF ProbeFail
<1>12. ASSUME NEW c \in Callers, Snapshot(c) PROVE Blame'
  <2>1. CASE Return(c)
    BY <1>12, <2>1, ReturnBlame DEF Snapshot
  <2>2. CASE ~ Return(c)
    <3> DEFINE read == Visible(window, caller[c].lag)
    <3>1. Bad(read) /\ caller' = [caller EXCEPT ![c].step = "trip"]
      BY <1>12, <2>2 DEF Snapshot
    <3>2. caller[c].lag \in Nat
      BY ConstantTypes DEF TypeOK, CallerState
    <3>3. IsWindow(read) /\ read \subseteq window
      BY <3>2, VisibleWindow DEF IsWindow, TypeOK
    <3>4. blamed
      BY <3>1, <3>3, BadNeedsFault
    <3>5. blamed' /\ UNCHANGED <<circuit, window>>
      BY <1>12, <3>4 DEF Snapshot
    <3> QED
      BY <3>5
  <2> QED
    BY <2>1, <2>2
<1>13. ASSUME NEW c \in Callers, Trip(c) PROVE Blame'
  <2>1. blamed
    BY <1>13 DEF Trip
  <2> QED
    BY <1>13, <2>1, ReturnBlame DEF Trip
<1>14. ASSUME NEW c \in Callers, Abandon(c) PROVE Blame'
  BY <1>14, ReturnBlame DEF Abandon
<1>15. CASE Tick
  <2>1. circuit'.state = circuit.state
    BY <1>15 DEF Tick, Aged, TypeOK, CircuitState
  <2>2. \A s \in window' : \E t \in window : s.result = t.result
    BY <1>15, AdvanceWindow DEF IsWindow, TypeOK, Tick
  <2>3. \A c \in Callers : /\ caller'[c].seen = caller[c].seen
                            /\ caller'[c].step = caller[c].step
    BY <1>15 DEF Tick, TypeOK, CallerState
  <2> QED
    BY <1>15, <2>1, <2>2, <2>3 DEF Tick
<1>16. CASE UNCHANGED vars
  BY <1>16 DEF vars
<1> QED
  BY <1>1, <1>2, <1>3, <1>4, <1>5, <1>6, <1>7, <1>8, <1>9, <1>10, <1>11, <1>12, <1>13,
     <1>14, <1>15, <1>16 DEF Next, StateOf, Allows, Record

\* However many callers race, and whatever they abandon, a circuit that is not
\* closed has seen a failure or a slow answer of the provider's own: no amount of
\* bad input opens it, however long the provider takes to refuse it.
THEOREM AlwaysOnlyProviderFaultsOpen == Spec => []OnlyProviderFaultsOpen
<1>1. Blame => OnlyProviderFaultsOpen
  BY DEF Blame
<1> QED
  BY <1>1, BlameInit, BlameNext, TypeInvariant, PTL DEF Spec

-----------------------------------------------------------------------------
(* The refinement.  What a lone caller read at the last HGETALL is still so   *)
(* when it writes, since only it writes; that is the invariant, and the one  *)
(* thing a second caller breaks.                                             *)

\* What the caller read still holds of the hash when it comes to write it.
ReadsHold ==
    \A c \in Callers :
        /\ caller[c].step = "enter" =>
             Due(circuit, 0) /\ caller[c].seen.cooldown = circuit.cooldown
        /\ caller[c].step = "clear" =>
             ViewOf(circuit) = ViewOf(HalfOpened(caller[c].seen.cooldown))
        /\ caller[c].role = "record" /\ caller[c].step = "decide" =>
             caller[c].seen = ViewOf(circuit)
        /\ caller[c].step = "trip" => circuit.state = "closed"

LEMMA ReadsHoldInit == Init => ReadsHold
  BY DEF Init, ReadsHold, Idle

\* A caller back at idle has nothing to write.
LEMMA ReturnReadsHold ==
    ASSUME NEW c, Callers = {c}, TypeInv, Return(c)
    PROVE  ReadsHold'
<1>1. caller'[c] = Idle
  BY DEF Return, TypeInv, TypeOK
<1> QED
  BY <1>1 DEF ReadsHold, Idle

\* What was just read is so; an old clock that finds the cooldown over is right.
LEMMA ReadCircuitReadsHold ==
    ASSUME NEW c, Callers = {c}, TypeInv, NEW role \in Role, NEW lag \in 0 .. MaxLag,
           ReadCircuit(c, role, lag), UNCHANGED circuit
    PROVE  ReadsHold'
<1> DEFINE step == IF Due(circuit, lag) THEN "enter" ELSE "decide"
<1>1. caller' = [caller EXCEPT ![c] = [@ EXCEPT !.role = role, !.step = step,
                                                !.seen = ViewOf(circuit), !.lag = lag]]
  BY DEF ReadCircuit
<1>2. step = "decide" \/ (step = "enter" /\ Due(circuit, 0))
  <2>1. circuit.age \in Int /\ circuit.cooldown \in Int /\ lag \in Nat
    BY ConstantTypes DEF TypeInv, TypeOK, CircuitState, MaxAge
  <2> QED
    BY <2>1 DEF Due
<1> HIDE DEF step
<1>3. caller'[c].step = step /\ caller'[c].seen = ViewOf(circuit)
  BY <1>1 DEF TypeInv, TypeOK, CallerState
<1>4. ViewOf(circuit).cooldown = circuit.cooldown
  BY DEF ViewOf
<1>5. ViewOf(circuit)' = ViewOf(circuit) /\ Due(circuit, 0)' = Due(circuit, 0)
  OBVIOUS
<1> QED
  BY <1>2, <1>3, <1>4, <1>5 DEF ReadsHold

LEMMA ReadsHoldNext ==
    ASSUME NEW c, Callers = {c}, TypeInv, ReadsHold, [Next]_vars
    PROVE  ReadsHold'
<1> USE DEF TypeInv
<1>1. CASE EnterHalfOpen(c)
  <2>1. /\ circuit' = HalfOpened(caller[c].seen.cooldown)
        /\ caller'[c].step = "clear"
        /\ caller'[c].seen = caller[c].seen
    BY <1>1 DEF EnterHalfOpen, TypeOK, CallerState
  <2> QED
    BY <2>1 DEF ReadsHold
<1>2. CASE ClearWindow(c)
  <2>1. CASE caller[c].role = "poll"
    BY <1>2, <2>1, ReturnReadsHold DEF ClearWindow, Return
  <2>2. CASE caller[c].role # "poll"
    <3>1. /\ caller'[c].step = "decide"
          /\ caller'[c].seen = ViewOf(HalfOpened(caller[c].seen.cooldown))
          /\ circuit' = circuit
      BY <1>2, <2>2 DEF ClearWindow, TypeOK, CallerState
    <3>2. caller'[c].seen = ViewOf(circuit)
      BY <1>2, <3>1 DEF ClearWindow, ReadsHold
    <3> QED
      BY <3>1, <3>2 DEF ReadsHold
  <2> QED
    BY <2>1, <2>2
<1>3. CASE Poll(c) \/ Ask(c) \/ Consult(c)
  <2>1. PICK role \in Role, lag \in 0 .. MaxLag : ReadCircuit(c, role, lag)
    BY <1>3, ConsultReads, ConstantTypes DEF Poll, Ask, Role
  <2> QED
    BY <1>3, <2>1, ReadCircuitReadsHold DEF Poll, Ask, Consult
<1>4. CASE Admit(c)
  <2>1. caller'[c].role = "calling" /\ caller'[c].step = "answer"
    BY <1>4 DEF Admit, TypeOK, CallerState, Idle
  <2> QED
    BY <2>1 DEF ReadsHold
<1>5. CASE Observe(c)
  <2>1. caller'[c].step = "read"
    BY <1>5 DEF Observe, TypeOK, CallerState
  <2> QED
    BY <2>1 DEF ReadsHold
<1>6. CASE Refuse(c) \/ Ignore(c) \/ ProbeOK(c) \/ ProbeFail(c) \/ Trip(c) \/ Abandon(c)
  BY <1>6, ReturnReadsHold DEF Refuse, Ignore, ProbeOK, ProbeFail, Trip, Abandon
<1>7. CASE Snapshot(c)
  <2>1. CASE Return(c)
    BY <2>1, ReturnReadsHold
  <2>2. CASE ~ Return(c)
    <3>1. caller'[c].step = "trip" /\ circuit' = circuit
      BY <1>7, <2>2 DEF Snapshot, TypeOK, CallerState
    <3>2. circuit.state = "closed"
      BY <1>7 DEF Snapshot, Deciding, At, ReadsHold, ViewOf
    <3> QED
      BY <3>1, <3>2 DEF ReadsHold
  <2> QED
    BY <2>1, <2>2
<1>8. CASE Tick
  <2>1. /\ caller'[c].step = caller[c].step
        /\ caller'[c].role = caller[c].role
        /\ caller'[c].seen = caller[c].seen
    BY <1>8 DEF Tick, TypeOK, CallerState
  <2>2. /\ circuit' = Aged(circuit)
        /\ circuit'.cooldown = circuit.cooldown
        /\ circuit'.state = circuit.state
        /\ ViewOf(circuit') = ViewOf(circuit)
    BY <1>8 DEF Tick, Aged, ViewOf, TypeOK, CircuitState
  <2>3. Due(circuit, 0) => Due(circuit', 0)
    <3>1. circuit.age \in Int /\ circuit.cooldown \in Int
      BY ConstantTypes DEF TypeOK, CircuitState, MaxAge
    <3> QED
      BY <2>2, <3>1 DEF Due, Aged, TypeOK, CircuitState
  <2> QED
    BY <2>1, <2>2, <2>3 DEF ReadsHold
<1>9. CASE UNCHANGED vars
  BY <1>9 DEF vars, ReadsHold, Due, ViewOf
<1> QED
  BY <1>1, <1>2, <1>3, <1>4, <1>5, <1>6, <1>7, <1>8, <1>9 DEF Next, StateOf, Allows, Record

LEMMA LoneCallerStep ==
    ASSUME NEW c, Callers = {c}, TypeInv, ReadsHold, [Next]_vars
    PROVE  [PromisedCircuit!Next]_circuit
<1> USE DEF PromisedCircuit!Next
<1>1. CASE circuit' = circuit
  BY <1>1
<1>2. CASE circuit' = Aged(circuit)
  BY <1>2 DEF PromisedCircuit!Tick, PromisedCircuit!Aged, Aged, PromisedCircuit!MaxAge, MaxAge
<1>3. CASE EnterHalfOpen(c)
  <2>1. Due(circuit, 0) /\ circuit' = HalfOpened(circuit.cooldown)
    BY <1>3 DEF EnterHalfOpen, ReadsHold
  <2>2. PromisedCircuit!CoolDown
    BY <2>1 DEF PromisedCircuit!CoolDown, PromisedCircuit!Due, Due,
       PromisedCircuit!HalfOpened, HalfOpened, PromisedCircuit!NoTime
  <2> QED
    BY <2>2
<1>4. CASE ProbeOK(c)
  <2>1. caller[c].seen = ViewOf(circuit)
    BY <1>4 DEF ProbeOK, Deciding, At, ReadsHold
  <2>2. /\ circuit.state = "half_open"
        /\ circuit.probe_successes = caller[c].seen.probe_successes
    BY <1>4, <2>1 DEF ProbeOK, Deciding, ViewOf
  <2>3. PromisedCircuit!ProbeOK
    BY <1>4, <2>2, ConstantTypes DEF ProbeOK, PromisedCircuit!ProbeOK, PromisedCircuit!Closed,
       Closed, TypeInv, TypeOK, CircuitState, PromisedCircuit!NoTime
  <2> QED
    BY <2>3
<1>5. CASE ProbeFail(c)
  <2>1. caller[c].seen = ViewOf(circuit) /\ caller[c].lag \in 0 .. MaxLag
    BY <1>5 DEF ProbeFail, Deciding, At, ReadsHold, TypeInv, TypeOK, CallerState
  <2>2. circuit.state = "half_open" /\ caller[c].seen.cooldown = circuit.cooldown
    BY <1>5, <2>1 DEF ProbeFail, Deciding, ViewOf
  <2>3. PromisedCircuit!ProbeFail
    BY <1>5, <2>1, <2>2 DEF ProbeFail, PromisedCircuit!ProbeFail, PromisedCircuit!Opened,
       Opened, PromisedCircuit!Doubled, Doubled
  <2> QED
    BY <2>3
<1>6. CASE Trip(c)
  <2>1. circuit.state = "closed" /\ caller[c].lag \in 0 .. MaxLag
    BY <1>6 DEF Trip, ReadsHold, TypeInv, TypeOK, CallerState
  <2>2. PromisedCircuit!Trip
    BY <1>6, <2>1 DEF Trip, PromisedCircuit!Trip, PromisedCircuit!Opened, Opened
  <2> QED
    BY <2>2
<1> QED
  BY <1>1, <1>2, <1>3, <1>4, <1>5, <1>6, HashWrites

\* With one caller at a time, abandoning whatever it likes, every write to the
\* hash is a transition of the promised circuit: no early probing, no closing
\* without the full trial, a doubled cooldown after each failed probe.
THEOREM LoneCallerImplementsCircuit ==
    ASSUME NEW c, Callers = {c}
    PROVE  Spec => ImplementsCircuit
<1>1. Init => PromisedCircuit!Init
  BY DEF Init, PromisedCircuit!Init, PromisedCircuit!Closed, Closed, PromisedCircuit!NoTime
<1>2. TypeInv /\ ReadsHold /\ [Next]_vars => ReadsHold'
  BY ReadsHoldNext
<1>3. TypeInv /\ ReadsHold /\ [Next]_vars => [PromisedCircuit!Next]_circuit
  BY LoneCallerStep
<1> QED
  BY <1>1, <1>2, <1>3, ReadsHoldInit, TypeInvariant, PTL
     DEF Spec, ImplementsCircuit, PromisedCircuit!Spec

-----------------------------------------------------------------------------
(* The evidence of a trip. *)

\* A finite set has subsets of every size up to its own.
LEMMA SubsetOfSize ==
    ASSUME NEW S, IsFiniteSet(S), NEW n \in Nat, n <= Cardinality(S)
    PROVE  \E T \in SUBSET S : Cardinality(T) = n
<1>1. Cardinality(S) \in Nat
  BY FS_CardinalityType
<1>2. PICK f \in Bijection(1 .. Cardinality(S), S) : TRUE
  BY FS_CardinalityType DEF ExistsBijection
<1> DEFINE T == {f[i] : i \in 1 .. n}
           g == [i \in 1 .. n |-> f[i]]
<1>3. /\ f \in [1 .. Cardinality(S) -> S]
      /\ \A i, k \in 1 .. Cardinality(S) : f[i] = f[k] => i = k
  BY <1>2 DEF Bijection, Injection, IsInjective
<1>4. 1 .. n \subseteq 1 .. Cardinality(S)
  BY <1>1
<1>5. T \in SUBSET S
  BY <1>3, <1>4
<1>6. g \in Bijection(1 .. n, T)
  BY <1>3, <1>4 DEF Bijection, Injection, IsInjective, Surjection
<1>7. IsFiniteSet(1 .. n) /\ Cardinality(1 .. n) = n
  <2>1. n \in Int /\ (1 > n <=> n = 0) /\ n - 1 + 1 = n
    OBVIOUS
  <2> QED
    BY <2>1, FS_Interval
<1>8. Cardinality(T) = n
  BY <1>6, <1>7, FS_Bijection DEF ExistsBijection
<1> QED
  BY <1>5, <1>8

\* A snapshot that is bad holds the evidence.
LEMMA BadIsEvidence ==
    ASSUME NEW w, IsWindow(w), Bad(w)
    PROVE  \E samples \in SUBSET w : IsEvidence(samples)
<1>1. HealthSamples(w) \in SUBSET w
  BY DEF HealthSamples
<1>2. IsFiniteSet(HealthSamples(w)) /\ MinSamples <= Cardinality(HealthSamples(w))
  <2>1. IsFiniteSet(HealthSamples(w))
    BY <1>1, FS_Subset DEF IsWindow
  <2>2. Cardinality(HealthSamples(w)) \in Nat
    BY <2>1, FS_CardinalityType
  <2> QED
    BY <2>1, <2>2, ConstantTypes DEF Bad
<1>3. PICK samples \in SUBSET HealthSamples(w) : Cardinality(samples) = MinSamples
  BY <1>2, SubsetOfSize, ConstantTypes
<1>4. \A s \in HealthSamples(w) : ~ CallerFault(s.result)
  BY DEF HealthSamples, CallerFault, Ok, Trippable, TrippableSet
<1> QED
  BY <1>1, <1>3, <1>4 DEF IsEvidence

\* Evidence stays evidence while its caller's clock and its samples age alike.
LEMMA EvidenceAges ==
    ASSUME NEW w, IsWindow(w), NEW lag \in Nat, lag < MaxLag,
           NEW samples \in SUBSET Visible(w, lag), IsEvidence(samples)
    PROVE  \E later \in SUBSET Visible(Advance(w), lag + 1) : IsEvidence(later)
<1> DEFINE older == [s \in samples |-> [s EXCEPT !.age = @ + 1]]
           later == {older[s] : s \in samples}
<1>1. samples \subseteq w /\ w \subseteq Sample /\ \A s \in samples : s.age < Window + lag
  BY DEF Visible, IsWindow
<1>2. \A s \in samples : /\ older[s].age = s.age + 1 /\ older[s].result = s.result
                         /\ older[s].token = s.token /\ s.age \in Nat
  BY <1>1 DEF Sample
<1>3. later \in SUBSET Visible(Advance(w), lag + 1)
  <2>1. \A s \in samples : older[s] \in Older(w)
    BY <1>1 DEF Older
  <2>2. \A s \in samples : older[s].age < Window + MaxLag /\ older[s].age < Window + (lag + 1)
    <3> HIDE DEF older
    <3> QED
      BY <1>1, <1>2, WindowAssumption, ConstantTypes
  <2> QED
    BY <2>1, <2>2 DEF Advance, Visible
<1>4. IsFiniteSet(samples)
  BY <1>1, FS_Subset DEF IsWindow
<1>5. older \in Bijection(samples, later)
  <2>1. ASSUME NEW s \in samples, NEW t \in samples, older[s] = older[t] PROVE s = t
    <3>1. s.age = t.age /\ s.result = t.result /\ s.token = t.token
      <4> HIDE DEF older
      <4>1. older[s].age = older[t].age /\ s.age \in Nat /\ t.age \in Nat
        BY <1>2, <2>1
      <4> QED
        BY <1>2, <2>1, <4>1
    <3>2. s \in Sample /\ t \in Sample
      BY <1>1
    <3> QED
      BY <3>1, <3>2 DEF Sample
  <2>2. older \in [samples -> later] /\ \A l \in later : \E s \in samples : older[s] = l
    OBVIOUS
  <2> HIDE DEF older, later
  <2> QED
    BY <2>1, <2>2 DEF Bijection, Injection, IsInjective, Surjection
<1>6. Cardinality(later) = MinSamples
  BY <1>4, <1>5, FS_Bijection DEF ExistsBijection, IsEvidence
<1>7. \A l \in later : ~ CallerFault(l.result)
  BY <1>2 DEF IsEvidence
<1> QED
  BY <1>3, <1>6, <1>7 DEF IsEvidence

\* A caller about to trip still has its evidence before it.
Evident ==
    \A c \in Callers :
        caller[c].step = "trip" =>
            /\ caller[c].role = "record"
            /\ Evidence(c)

LEMMA EvidentInit == Init => Evident
  BY DEF Init, Evident, Idle

LEMMA EvidentNext ==
    ASSUME NEW c, Callers = {c}, TypeInv, Evident, [Next]_vars
    PROVE  Evident'
<1>1. IsWindow(window) /\ caller[c] \in CallerState /\ caller \in [Callers -> CallerState]
  BY DEF TypeInv, TypeOK, IsWindow
<1>2. CASE caller'[c].step # "trip"
  BY <1>2 DEF Evident
<1>3. CASE Snapshot(c) /\ caller' = [caller EXCEPT ![c].step = "trip"]
  <2>1. /\ caller'[c].role = "record" /\ caller'[c].lag = caller[c].lag
        /\ window' = window /\ caller[c].lag \in Nat
    BY <1>1, <1>3 DEF Snapshot, Deciding, At, CallerState
  <2>2. CASE Bad(Visible(window, caller[c].lag))
    <3>1. IsWindow(Visible(window, caller[c].lag))
      BY <1>1, <2>1, VisibleWindow
    <3>2. \E samples \in SUBSET Visible(window, caller[c].lag) : IsEvidence(samples)
      BY <2>2, <3>1, BadIsEvidence
    <3> QED
      BY <2>1, <3>2 DEF Evident, Evidence, Visible
  <2>3. CASE ~ Bad(Visible(window, caller[c].lag))
    BY <1>1, <1>3, <2>3, <1>2 DEF Snapshot, Return, Idle
  <2> QED
    BY <2>2, <2>3
<1>4. CASE Tick /\ caller'[c].step = "trip"
  <2>1. caller'[c] = IF caller[c].role = "record" THEN [caller[c] EXCEPT !.lag = @ + 1] ELSE caller[c]
    BY <1>4 DEF Tick
  <2>2. caller[c].step = "trip"
    BY <1>1, <1>4, <2>1 DEF CallerState
  <2>3. PICK samples \in SUBSET Visible(window, caller[c].lag) : IsEvidence(samples)
    BY <2>2 DEF Evident, Evidence, Visible
  <2>4. /\ caller[c].role = "record" /\ caller[c].lag \in Nat /\ caller[c].lag < MaxLag
        /\ caller'[c].role = "record" /\ caller'[c].lag = caller[c].lag + 1
        /\ window' = Advance(window)
    BY <1>1, <1>4, <2>1, <2>2 DEF Tick, Evident, CallerState
  <2>5. \E later \in SUBSET Visible(window', caller'[c].lag) : IsEvidence(later)
    BY <1>1, <2>3, <2>4, EvidenceAges
  <2> QED
    BY <2>4, <2>5 DEF Evident, Evidence, Visible
<1>5. CASE UNCHANGED vars
  BY <1>5 DEF vars, Evident, Evidence
<1>6. CASE Return(c) \/ StateOf(c) \/ Poll(c) \/ Allows(c) \/ Observe(c) \/ Consult(c)
  <2>1. CASE Return(c) \/ ClearWindow(c) \/ Refuse(c)
    <3>1. \/ caller' = [caller EXCEPT ![c] = Idle]
          \/ \E view : caller' = [caller EXCEPT ![c] = [@ EXCEPT !.step = "decide", !.seen = view]]
      BY <2>1 DEF Return, ClearWindow, Refuse
    <3>2. caller'[c].step # "trip"
      <4>1. CASE caller' = [caller EXCEPT ![c] = Idle]
        BY <1>1, <4>1 DEF Idle
      <4>2. ASSUME NEW view,
                   caller' = [caller EXCEPT ![c] = [@ EXCEPT !.step = "decide", !.seen = view]]
            PROVE  caller'[c].step # "trip"
        BY <1>1, <4>2 DEF CallerState
      <4> QED
        BY <3>1, <4>1, <4>2
    <3> QED
      BY <1>2, <3>2
  <2>2. CASE EnterHalfOpen(c) \/ Admit(c) \/ Observe(c)
    BY <1>1, <1>2, <2>2 DEF EnterHalfOpen, Admit, Observe, Idle, CallerState
  <2>3. ASSUME NEW role, NEW lag, ReadCircuit(c, role, lag) PROVE Evident'
    <3>1. PICK step \in {"enter", "decide"} :
            caller' = [caller EXCEPT ![c] = [@ EXCEPT !.role = role, !.step = step,
                                                      !.seen = ViewOf(circuit),
                                                      !.lag = lag]]
      BY <2>3 DEF ReadCircuit
    <3>2. caller'[c].step = step
      BY <1>1, <3>1 DEF CallerState
    <3> QED
      BY <1>2, <3>2
  <2> QED
    BY <1>6, <2>1, <2>2, <2>3 DEF StateOf, Allows, Poll, Ask, Consult
<1>7. CASE Record(c) \/ Abandon(c)
  BY <1>3, <1>6, <1>7 DEF Record, Ignore, ProbeOK, ProbeFail, Snapshot, Trip, Abandon
<1> QED
  BY <1>2, <1>4, <1>5, <1>6, <1>7 DEF Next

\* Only a trip opens a closed circuit: a lone caller's failed probe finds it half-open.
LEMMA TripHasEvidence ==
    ASSUME NEW c, Callers = {c}, TypeInv, ReadsHold, Evident, [Next]_vars,
           circuit.state = "closed", circuit'.state = "open"
    PROVE  Evidence(c)
<1>1. caller[c] \in CallerState /\ circuit \in CircuitState
  BY DEF TypeInv, TypeOK
<1>2. CASE Trip(c)
  BY <1>2 DEF Trip, Evident
<1>3. CASE ProbeFail(c)
  <2>1. caller[c].seen = ViewOf(circuit) /\ caller[c].seen.state = "half_open"
    BY <1>3 DEF ProbeFail, Deciding, At, ReadsHold
  <2> QED
    BY <2>1 DEF ViewOf
<1>4. CASE circuit' = circuit \/ circuit' = Aged(circuit) \/ EnterHalfOpen(c) \/ ProbeOK(c)
  <2>1. circuit'.state # "open"
    BY <1>1, <1>4 DEF Aged, EnterHalfOpen, HalfOpened, ProbeOK, Closed, CircuitState
  <2> QED
    BY <2>1
<1> QED
  BY <1>2, <1>3, <1>4, HashWrites

\* With one caller at a time, abandoning whatever it likes, no circuit opens on thin
\* evidence or on callers' own faults: at the trip (_maybe_trip, breaker.py) the
\* MinSamples calls that count are still inside its window, however long ago they were
\* looked at.
THEOREM LoneTripNeedsEvidence ==
    ASSUME NEW lone, Callers = {lone}
    PROVE  Spec => TripNeedsEvidence
<1>1. TypeInv /\ ReadsHold /\ [Next]_vars => ReadsHold'
  BY ReadsHoldNext
<1>2. TypeInv /\ Evident /\ [Next]_vars => Evident'
  BY EvidentNext
<1>3. TypeInv /\ ReadsHold /\ Evident /\ [Next]_vars =>
        [OpensOnEvidence]_vars
  BY TripHasEvidence DEF OpensOnEvidence
<1> QED
  BY <1>1, <1>2, <1>3, ReadsHoldInit, EvidentInit, TypeInvariant, PTL DEF Spec, TripNeedsEvidence
=============================================================================
