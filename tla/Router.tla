------------------------------- MODULE Router -------------------------------
(***************************************************************************)
(* One request's way down the ladder (router.py): the plain walk, and for a   *)
(* class with hedge_after_ms the race of its first two admissible rungs.      *)
(* attempt(), one coroutine per rung, runs by itself once it is started, and  *)
(* operators inject faults meanwhile; what the breakers say, what providers   *)
(* answer, how long everything takes and whether Redis can be reached are      *)
(* choices.                                                                  *)
(***************************************************************************)
EXTENDS Taxonomy, FiniteSets

CONSTANTS
    LadderLength,      \* the class's available providers, in its order
    Failures,          \* the exceptions a provider call may end with
    Experiments        \* the rungs whose providers an operator breaks on purpose

ASSUME RouterLadderAssumption == LadderLength \in Nat \ {0}
ASSUME FailuresAssumption == Failures \subseteq Exceptions

Rungs == 1 .. LadderLength

VARIABLES
    route,         \* where route() is, and its local variables
    attempt,       \* attempt[i]: where the call of rung i is, and its result
    trail,         \* RouteOutcome.attempts
    asked,         \* ghost: asked[i]: what the breaker of rung i said last
    chaos          \* chaos[i]: the error_type injected into the provider of rung i

vars == <<route, attempt, trail, asked, chaos>>

-----------------------------------------------------------------------------
\* Where route() waits: for a breaker's answer in _admissible or in the walk, for
\* the primary with a timeout, for either of two, for the other one, for a rung.
Place == {"screen", "primary", "race", "other", "walk", "rung"}
Over == {"served", "exhausted", "raised"}
RouteState == [at : Place \cup Over, rung : Rungs, admitted : Seq(Rungs)]

\* fault: the injected error_type, once it is read and unless the draw spared the call.
AttemptStep ==
    {"none", "chaos", "apply", "call", "health", "breaker", "done", "raised", "cancelled"}
None == "none"
NotStarted == [step |-> "none", fault |-> None, outcome |-> None]
Attempt == [step : AttemptStep, fault : Injectable \cup {None}, outcome : Outcome \cup {None}]

Skipped == "skipped"
TrailEntry == [rung : Rungs, outcome : Outcome \cup {Skipped}]
Answer == {"unasked", "admitted", "refused"}

FinalOnlyOk(i) == Ok(attempt[i].outcome)
\* _is_final of a result: every other rung would reject a caller's fault too.
Final(i) == Ok(attempt[i].outcome) \/ ~ Trippable(attempt[i].outcome)

Done(i) == attempt[i].step = "done"
Raised(i) == attempt[i].step = "raised"
Ended(i) == Done(i) \/ Raised(i)
Running(i) == attempt[i].step \in {"chaos", "apply", "call", "health", "breaker"}

Primary == route.admitted[1]
Hedge == route.admitted[2]

At(place) == route.at = place
Finish(over) == route' = [route EXCEPT !.at = over]
Serve(i) == route' = [route EXCEPT !.at = "served", !.rung = i]
Start(i) == attempt' = [attempt EXCEPT ![i] = [NotStarted EXCEPT !.step = "chaos"]]
Says(answer) == asked' = [asked EXCEPT ![route.rung] = answer]
Entry(i) == [rung |-> i, outcome |-> attempt[i].outcome]

ResumeUnbounded(i) == route' = [route EXCEPT !.at = "walk", !.rung = i + 1]
\* The walk goes on after rung i.
Resume(i) ==
    IF i < LadderLength THEN route' = [route EXCEPT !.at = "walk", !.rung = i + 1]
    ELSE Finish("exhausted")
\* A result of rung i ends the request or is walked on from.
Conclude(i, last) == IF Final(i) THEN Serve(i) ELSE Resume(last)

Init ==
    /\ \E hedged \in BOOLEAN :
         route = [at |-> IF hedged THEN "screen" ELSE "walk", rung |-> 1, admitted |-> <<>>]
    /\ attempt = [i \in Rungs |-> NotStarted]
    /\ trail = <<>>
    /\ asked = [i \in Rungs |-> "unasked"]
    /\ chaos \in [Rungs -> {None}]

-----------------------------------------------------------------------------
(* Fault injection. *)

\* POST /admin/chaos, which takes no error_type that has no exception.
SetChaos(i, fault) ==
    /\ i \in Experiments
    /\ chaos' = [chaos EXCEPT ![i] = fault]
    /\ UNCHANGED <<route, attempt, trail, asked>>

\* DELETE /admin/chaos/{provider}, or the key's expiry.
ClearChaos(i) ==
    /\ chaos[i] # None
    /\ chaos' = [chaos EXCEPT ![i] = None]
    /\ UNCHANGED <<route, attempt, trail, asked>>

Operate == \E i \in Rungs : (\E fault \in Injectable : SetChaos(i, fault)) \/ ClearChaos(i)

-----------------------------------------------------------------------------
(* attempt(): the injected fault is read, slept through and drawn for, the
   provider called, and the result recorded; a failure to record is swallowed, a
   failure to read is not. *)

Step(i, from, to) ==
    /\ attempt[i].step = from
    /\ attempt' = [attempt EXCEPT ![i].step = to]
    /\ UNCHANGED <<route, trail, asked, chaos>>

GetChaosRaises(i) == Step(i, "chaos", "raised")
GetChaos(i) ==
    /\ attempt[i].step = "chaos"
    /\ attempt' = [attempt EXCEPT ![i].step = IF chaos[i] = None THEN "call" ELSE "apply",
                                  ![i].fault = chaos[i]]
    /\ UNCHANGED <<route, trail, asked, chaos>>

Comes(i, outcome) ==
    /\ attempt' = [attempt EXCEPT ![i].step = "health", ![i].outcome = outcome]
    /\ UNCHANGED <<route, trail, asked, chaos>>

\* The draw against error_rate: the injected exception, or the real call.
ApplyReread(i) ==
    /\ attempt[i].step = "apply" /\ chaos[i] # None
    /\ Comes(i, Classify(ExceptionFor[chaos[i]]))
ApplyHits(i) == attempt[i].step = "apply" /\ Comes(i, Classify(ExceptionFor[attempt[i].fault]))
ApplyMisses(i) ==
    /\ attempt[i].step = "apply"
    /\ attempt' = [attempt EXCEPT ![i].step = "call", ![i].fault = None]
    /\ UNCHANGED <<route, trail, asked, chaos>>

CallProvider(i) ==
    /\ attempt[i].step = "call"
    /\ Comes(i, "ok") \/ \E exception \in Failures : Comes(i, Classify(exception))

RecordHealth(i) == \E to \in {"breaker", "done"} : Step(i, "health", to)

RecordBreaker(i) == Step(i, "breaker", "done")

Attempting(i) ==
    \/ GetChaos(i) \/ GetChaosRaises(i) \/ ApplyHits(i) \/ ApplyMisses(i)
    \/ CallProvider(i) \/ RecordHealth(i) \/ RecordBreaker(i)

-----------------------------------------------------------------------------
(* The plain walk. *)

\* An unreachable Redis fails allows(), and with it the request.
AllowsRaises ==
    /\ At("screen") \/ At("walk")
    /\ Finish("raised")
    /\ UNCHANGED <<attempt, trail, asked, chaos>>

WalkAdmitted ==
    /\ At("walk")
    /\ Says("admitted")
    /\ Start(route.rung)
    /\ route' = [route EXCEPT !.at = "rung"]
    /\ UNCHANGED <<trail, chaos>>

WalkRefused ==
    /\ At("walk")
    /\ trail' = Append(trail, [rung |-> route.rung, outcome |-> Skipped])
    /\ Says("refused")
    /\ Resume(route.rung)
    /\ UNCHANGED <<attempt, chaos>>

RungDone ==
    /\ At("rung") /\ Done(route.rung)
    /\ trail' = Append(trail, Entry(route.rung))
    /\ Conclude(route.rung, route.rung)
    /\ UNCHANGED <<attempt, asked, chaos>>

Walk == AllowsRaises \/ WalkAdmitted \/ WalkRefused \/ RungDone

-----------------------------------------------------------------------------
(* The hedged start. *)

ScreenedNoRestart(admitted) ==
    \/ /\ Len(admitted) = 2
       /\ Start(admitted[1])
       /\ route' = [route EXCEPT !.at = "primary", !.admitted = admitted]
    \/ /\ Len(admitted) < 2 /\ route.rung < LadderLength
       /\ route' = [route EXCEPT !.rung = @ + 1, !.admitted = admitted]
       /\ UNCHANGED attempt
    \/ /\ Len(admitted) < 2 /\ route.rung = LadderLength
       /\ route' = [route EXCEPT !.at = "exhausted"]
       /\ UNCHANGED attempt
\* _admissible has asked the breaker of one more rung: it goes on until it has
\* two, and with fewer the plain walk starts at the top.
Screened(admitted) ==
    \/ /\ Len(admitted) = 2
       /\ Start(admitted[1])
       /\ route' = [route EXCEPT !.at = "primary", !.admitted = admitted]
    \/ /\ Len(admitted) < 2 /\ route.rung < LadderLength
       /\ route' = [route EXCEPT !.rung = @ + 1, !.admitted = admitted]
       /\ UNCHANGED attempt
    \/ /\ Len(admitted) < 2 /\ route.rung = LadderLength
       /\ route' = [at |-> "walk", rung |-> 1, admitted |-> <<>>]
       /\ UNCHANGED attempt

ScreenAdmitted ==
    /\ At("screen")
    /\ Says("admitted")
    /\ Screened(Append(route.admitted, route.rung))
    /\ UNCHANGED <<trail, chaos>>

ScreenRefusedTruthy ==
    /\ At("screen")
    /\ Says("refused")
    /\ Screened(Append(route.admitted, route.rung))
    /\ UNCHANGED <<trail, chaos>>
ScreenRefused ==
    /\ At("screen")
    /\ Says("refused")
    /\ Screened(route.admitted)
    /\ UNCHANGED <<trail, chaos>>

\* The primary is back within its budget.
PrimaryDone ==
    /\ At("primary") /\ Done(Primary)
    /\ trail' = Append(trail, Entry(Primary))
    /\ Conclude(Primary, Primary)
    /\ UNCHANGED <<attempt, asked, chaos>>

FireHedge ==
    /\ At("primary") /\ ~ Ended(Primary)
    /\ Start(Hedge)
    /\ route' = [route EXCEPT !.at = "race"]
    /\ UNCHANGED <<trail, asked, chaos>>

\* The race is over: the winner is logged, then a loser that came back too.
SettleWinnerOnly(winner, loser) ==
    /\ trail' = Append(trail, Entry(winner))
    /\ Conclude(winner, Hedge)
SettleResumeAtHedge(winner, loser) ==
    /\ trail' = trail \o <<Entry(winner), Entry(loser)>>
    /\ Conclude(winner, Hedge - 1)
Settle(winner, loser) ==
    /\ trail' = trail \o <<Entry(winner), Entry(loser)>>
    /\ Conclude(winner, Hedge)

BothDoneNoneUsable ==
    /\ At("race") /\ Done(Primary) /\ Done(Hedge)
    /\ Final(Primary) /\ Settle(Primary, Hedge)
    /\ UNCHANGED <<attempt, asked, chaos>>
\* Both landed before route() woke up.
BothDone ==
    /\ At("race") /\ Done(Primary) /\ Done(Hedge)
    /\ IF Final(Primary) THEN Settle(Primary, Hedge) ELSE Settle(Hedge, Primary)
    /\ UNCHANGED <<attempt, asked, chaos>>

\* The first is usable: the other is cancelled, wherever it is, and awaited.
FirstUsable(first, other) ==
    /\ At("race") /\ Done(first) /\ Running(other) /\ Final(first)
    /\ attempt' = [attempt EXCEPT ![other].step = "cancelled"]
    /\ trail' = Append(trail, Entry(first))
    /\ Serve(first)
    /\ UNCHANGED <<asked, chaos>>

FirstFailed(first, other) ==
    /\ At("race") /\ Done(first) /\ Running(other) /\ ~ Final(first)
    /\ route' = [route EXCEPT !.at = "other", !.rung = other]
    /\ UNCHANGED <<attempt, trail, asked, chaos>>

OtherDone(first, other) ==
    /\ At("other") /\ route.rung = other /\ Done(other)
    /\ IF Final(other) THEN Settle(other, first) ELSE Settle(first, other)
    /\ UNCHANGED <<attempt, asked, chaos>>

Race(first, other) ==
    FirstUsable(first, other) \/ FirstFailed(first, other) \/ OtherDone(first, other)

Hedged ==
    \/ ScreenAdmitted \/ ScreenRefused \/ PrimaryDone \/ FireHedge \/ BothDone
    \/ Len(route.admitted) = 2 /\ (Race(Primary, Hedge) \/ Race(Hedge, Primary))

-----------------------------------------------------------------------------
\* result() of a call that could not read its injected fault raises here, whatever
\* became of the other one.
Awaited ==
    CASE At("primary") -> {Primary}
      [] At("race") -> {Primary, Hedge}
      [] At("rung") \/ At("other") -> {route.rung}
      [] OTHER -> {}
AttemptRaised ==
    /\ \E i \in Awaited : Raised(i)
    /\ Finish("raised")
    /\ UNCHANGED <<attempt, trail, asked, chaos>>

Routing == Walk \/ Hedged \/ AttemptRaised
-----------------------------------------------------------------------------
(* What the caller is told (main.py), and the worker's verdict rests on. *)

LastFailureOrSkip == IF trail = <<>> THEN Skipped ELSE trail[Len(trail)].outcome
LastFailure ==
    LET ran == {n \in DOMAIN trail : trail[n].outcome # Skipped}
        last == CHOOSE n \in ran : \A k \in ran : n >= k
    IN  IF ran = {} THEN Skipped ELSE trail[last].outcome

Status ==
    CASE At("served") /\ Ok(attempt[route.rung].outcome) -> 200
      [] At("served") /\ ~ Ok(attempt[route.rung].outcome) -> StatusOf(attempt[route.rung].outcome)
      [] At("exhausted") /\ LastFailure = Skipped -> 503
      [] At("exhausted") /\ LastFailure # Skipped -> StatusOf(LastFailure)
      [] OTHER -> 500

Next == (\E i \in Rungs : Attempting(i)) \/ Routing \/ Operate

Spec == Init /\ [][Next]_vars

\* Providers answer or time out (timeout_s), and the event loop resumes every coroutine
\* that is ready, whatever operators do.
FairSpec == Spec /\ WF_vars(Routing) /\ \A i \in Rungs : WF_vars(Attempting(i))

-----------------------------------------------------------------------------
TypeOK ==
    /\ route \in RouteState
    /\ attempt \in [Rungs -> Attempt]
    /\ trail \in Seq(TrailEntry)
    /\ asked \in [Rungs -> Answer]
    /\ chaos \in [Rungs -> Injectable \cup {None}]

\* The promise of Ladder: whatever order the two calls of a race end in, no rung is
\* billed twice, no call is made once another has settled the request, only a
\* settling answer is served and the loser is cancelled by then.
AnswerOf(i) ==
    CASE attempt[i].step = "none" -> "uncalled"
      [] Done(i) -> attempt[i].outcome
      [] Raised(i) -> "broken"
      [] attempt[i].step = "cancelled" -> "lost"
      [] Running(i) -> "waiting"
PromisedLadder == INSTANCE Ladder WITH
    answer <- [i \in Rungs |-> AnswerOf(i)],
    verdict <- IF route.at \in Over THEN route.at ELSE "pending"
ImplementsLadder == PromisedLadder!Spec

\* When a request is over, its trail lists every call that came back, once, with its
\* outcome, in whichever order the two calls of a race ended.
TrailTellsCalls ==
    route.at \in {"served", "exhausted"} =>
        \A i \in Rungs :
            Cardinality({n \in DOMAIN trail : trail[n] = Entry(i)}) = IF Done(i) THEN 1 ELSE 0

\* An exhausted ladder has asked every rung: the walk resumes after a race, or after
\* a screening that found too little to race, without leaving a rung out.
NoRungForgotten ==
    At("exhausted") => \A i \in Rungs : Done(i) \/ asked[i] = "refused"

\* No provider is called, in a race or in the walk, that its breaker did not let through
\* when it was last asked (router.py:207): a hedge never spends its second call on a
\* provider that is out, and a rung refused while screening is asked again.
CallsAdmitted ==
    \A i \in Rungs : attempt[i] # NotStarted => asked[i] = "admitted"

\* "injected faults travel the real classification path" (tests/test_providers.py:119):
\* a call an operator broke counts, in the trail and for the breaker, as the
\* error_type that was asked for when the call began, whatever is injected or cleared
\* before it answers.
InjectionExact ==
    \A i \in Rungs :
        attempt[i].fault # None /\ attempt[i].outcome # None =>
            attempt[i].outcome = attempt[i].fault

\* The status tells the caller what happened: 503 only where nothing was called
\* (main.py:430; the worker's free deferral, worker.py:107, is the same test), a
\* 4xx other than 429 only where a provider found fault with the request, and a
\* verdict is never an internal error.
StatusTellsTruth ==
    /\ route.at \in {"served", "exhausted"} => Status # 500
    /\ Status = 503 => \A i \in Rungs : attempt[i] = NotStarted
    /\ At("exhausted") /\ (\A i \in Rungs : attempt[i] = NotStarted) => Status = 503
    /\ Status = 400 =>
         \E i \in Rungs : Done(i) /\ ~ Ok(attempt[i].outcome) /\ ~ Trippable(attempt[i].outcome)

\* Every request gets a verdict: no order of ends, cancellations and failures leaves
\* route() waiting for a call that will not come back.
RequestEnds == <>(route.at \in Over)

-----------------------------------------------------------------------------
(* What the comments say, and some order of events breaks. *)

\* "An un-awaited cancelled task keeps running, and a provider mid-generation goes
\* on billing" (router.py:179): no call outlives its request.
NoCallOutlivesRequest ==
    route.at \in Over => \A i \in Rungs : ~ Running(i)

\* "Naming every provider and what it did - failed with what, or skipped"
\* (main.py:447): an exhausted ladder's trail names every rung.
TrailNamesEveryRung ==
    At("exhausted") => \A i \in Rungs : \E n \in DOMAIN trail : trail[n].rung = i
=============================================================================
