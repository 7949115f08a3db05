-------------------------- MODULE RouterRefinement --------------------------
(***************************************************************************)
(* Router implements Ladder, for a ladder of any length: what route() and the *)
(* calls it starts do between them is what Ladder promises of one request.    *)
(***************************************************************************)
EXTENDS RouterProofs

\* What Ladder sees of a request.
Answers == [i \in Rungs |-> AnswerOf(i)]
RouteVerdict == IF route.at \in Over THEN route.at ELSE "pending"
LadderStep == [PromisedLadder!Next]_<<Answers, RouteVerdict>>

\* What the answer of a rung says of its call.
LEMMA AnswerSays ==
    ASSUME TypeOK, Calls, NEW i \in Rungs
    PROVE  /\ Unstarted(i) => AnswerOf(i) = "uncalled"
           /\ Running(i) <=> AnswerOf(i) = "waiting"
           /\ Done(i) => AnswerOf(i) = attempt[i].outcome
           /\ Done(i) <=> AnswerOf(i) \in Outcome
           /\ Raised(i) => AnswerOf(i) = "broken"
           /\ attempt[i].step = "cancelled" => AnswerOf(i) = "lost"
<1>1. attempt[i].step \in AttemptStep /\ CallShape(i)
  BY DEF TypeOK, Attempt, Calls
<1>2. attempt[i].outcome \in Outcome \cup {None}
  BY DEF TypeOK, Attempt
<1> QED
  BY <1>1, <1>2
  DEF AnswerOf, Unstarted, NotStarted, Running, Done, Raised, AttemptStep, CallShape, Outcome, None

LEMMA AnswerSaysNext ==
    ASSUME TypeOK', Calls', NEW i \in Rungs
    PROVE  /\ Unstarted(i)' => AnswerOf(i)' = "uncalled"
           /\ Running(i)' <=> AnswerOf(i)' = "waiting"
           /\ Done(i)' => AnswerOf(i)' = (attempt[i].outcome)' /\ AnswerOf(i)' \in Outcome
           /\ Raised(i)' => AnswerOf(i)' = "broken"
           /\ (attempt[i].step = "cancelled")' => AnswerOf(i)' = "lost"
<1>1. attempt'[i].step \in AttemptStep /\ CallShape(i)'
  BY DEF TypeOK, Attempt, Calls
<1>2. attempt'[i].outcome \in Outcome \cup {None}
  BY DEF TypeOK, Attempt
<1> QED
  BY <1>1, <1>2
  DEF AnswerOf, Unstarted, NotStarted, Running, Done, Raised, AttemptStep, CallShape, Outcome, None

\* Ladder speaks of the same rungs and outcomes.
LEMMA SameTerms ==
    /\ PromisedLadder!Rungs = Rungs /\ PromisedLadder!Outcome = Outcome
    /\ PromisedLadder!TrippableSet = TrippableSet
    /\ \A outcome : PromisedLadder!Settles(outcome) <=> Ok(outcome) \/ ~ Trippable(outcome)
  BY DEF PromisedLadder!Rungs, Rungs, PromisedLadder!Outcome, Outcome,
         PromisedLadder!TrippableSet, TrippableSet, PromisedLadder!Settles, PromisedLadder!Ok, Ok,
         PromisedLadder!Trippable, Trippable

\* The answers are those of the calls, whatever moves around them.
LEMMA SameAnswers ==
    ASSUME attempt' = attempt
    PROVE  Answers' = Answers
  BY DEF Answers, AnswerOf, Done, Raised, Running

\* Answers and a verdict that stay what they are.
LEMMA Stutters ==
    ASSUME Answers' = Answers, RouteVerdict' = RouteVerdict
    PROVE  LadderStep
  BY DEF LadderStep

\* A step of a call is an answer, or nothing Ladder sees.
LEMMA CallRefines ==
    ASSUME RouteInv, RouteInv', NEW i \in Rungs, Attempting(i)
    PROVE  LadderStep
<1>1. /\ route' = route /\ Running(i) /\ Underway(i)' /\ CallShape(i)'
      /\ \A k \in Rungs \ {i} : attempt'[k] = attempt[k]
  BY CallStep
<1>2. RouteVerdict' = RouteVerdict
  BY <1>1 DEF RouteVerdict
<1>3. \A k \in Rungs \ {i} : AnswerOf(k)' = AnswerOf(k)
  BY <1>1 DEF AnswerOf, Done, Raised, Running
<1>4. AnswerOf(i) = "waiting"
  BY <1>1, AnswerSays DEF RouteInv
<1>5. AnswerOf(i)' \in Outcome \cup {"broken", "waiting"}
  <2>1. Done(i)' \/ Raised(i)' \/ Running(i)'
    BY <1>1 DEF RouteInv, TypeOK, Attempt, AttemptStep, Underway, Unstarted, CallShape,
                Done, Raised, Running
  <2> QED
    BY <2>1, AnswerSaysNext DEF RouteInv
<1>6. Answers' = [Answers EXCEPT ![i] = AnswerOf(i)']
  BY <1>3 DEF Answers
<1>7. CASE AnswerOf(i)' = "waiting"
  <2>1. Answers' = Answers
    BY <1>3, <1>4, <1>7 DEF Answers
  <2> QED
    BY <1>2, <2>1, Stutters
<1>8. CASE AnswerOf(i)' \in Outcome \cup {"broken"}
  <2>1. Answers[i] = "waiting"
    BY <1>4 DEF Answers
  <2>2. PromisedLadder!Return(i)
    BY <1>2, <1>6, <1>8, <2>1, SameTerms DEF PromisedLadder!Return, Answers, RouteVerdict
  <2> QED
    BY <2>2, SameTerms DEF LadderStep, PromisedLadder!Next
<1> QED
  BY <1>5, <1>7, <1>8

\* What the places of route() and its ends say of a settled request.
LEMMA SettledSays ==
    ASSUME TypeOK, Calls
    PROVE  /\ PromisedLadder!Settled <=> \E i \in Rungs : Done(i) /\ Final(i)
           /\ PromisedLadder!Waiting = {i \in Rungs : Running(i)}
<1>1. \A i \in Rungs : /\ Done(i) => AnswerOf(i) = attempt[i].outcome
                       /\ Done(i) <=> AnswerOf(i) \in Outcome
                       /\ Running(i) <=> AnswerOf(i) = "waiting"
  BY AnswerSays
<1>2. PromisedLadder!Settled
        <=> \E i \in Rungs : AnswerOf(i) \in Outcome
                             /\ (Ok(AnswerOf(i)) \/ ~ Trippable(AnswerOf(i)))
  BY SameTerms DEF PromisedLadder!Settled
<1>3. PromisedLadder!Waiting = {i \in Rungs : AnswerOf(i) = "waiting"}
  BY SameTerms DEF PromisedLadder!Waiting
<1> QED
  BY <1>1, <1>2, <1>3 DEF Final

\* A step of route() that starts and cancels no call goes on, or gives the verdict
\* that the calls call for.
LEMMA VerdictRefines ==
    ASSUME RouteInv, RouteInv', route.at \in Place, attempt' = attempt
    PROVE  LadderStep
<1>1. Answers' = Answers /\ RouteVerdict = "pending"
  BY SameAnswers DEF RouteVerdict, Place, Over
<1>2. TypeOK /\ Calls /\ route'.at \in Place \cup Over /\ Position'
  BY DEF RouteInv, TypeOK, RouteState
<1>3. CASE route'.at \in Place
  BY <1>1, <1>3, Stutters DEF RouteVerdict, Place, Over
<1>4. CASE route'.at = "served"
  <2>1. RouteVerdict' = "served"
    BY <1>4 DEF RouteVerdict, Over
  <2>2. PICK i \in Rungs : Done(i)' /\ Final(i)'
    BY <1>4 DEF RouteInv, TypeOK, RouteState, Position, At
  <2>3. PromisedLadder!Settled
    BY <1>2, <2>2, SettledSays DEF Done, Final
  <2>4. PromisedLadder!Waiting = {}
    <3>1. \A k \in Rungs : ~ Running(k)
      BY <1>2, <1>4 DEF Position, At, Running
    <3> QED
      BY <1>2, <3>1, SettledSays
  <2>5. PromisedLadder!Serve
    BY <1>1, <2>1, <2>3, <2>4, SameTerms DEF PromisedLadder!Serve, Answers, RouteVerdict
  <2> QED
    BY <2>5 DEF LadderStep, PromisedLadder!Next
<1>5. CASE route'.at = "exhausted"
  <2>1. RouteVerdict' = "exhausted"
    BY <1>5 DEF RouteVerdict, Over
  <2>2. ASSUME NEW i \in Rungs PROVE AnswerOf(i) \in {"uncalled"} \cup TrippableSet
    <3>1. PassedOver(i)'
      BY <1>2, <1>5 DEF Position, At
    <3>2. (Done(i) /\ ~ Final(i)) \/ Unstarted(i)
      BY <3>1 DEF PassedOver, Done, Final, Unstarted
    <3> QED
      BY <1>2, <3>2, AnswerSays DEF Final, Trippable
  <2>3. PromisedLadder!Exhaust
    BY <1>1, <2>1, <2>2, SameTerms DEF PromisedLadder!Exhaust, Answers, RouteVerdict
  <2> QED
    BY <2>3 DEF LadderStep, PromisedLadder!Next
<1>6. CASE route'.at = "raised"
  <2>1. RouteVerdict' = "raised"
    BY <1>6 DEF RouteVerdict, Over
  <2>2. PromisedLadder!Raise
    BY <1>1, <2>1 DEF PromisedLadder!Raise, Answers, RouteVerdict
  <2> QED
    BY <2>2 DEF LadderStep, PromisedLadder!Next
<1> QED
  BY <1>2, <1>3, <1>4, <1>5, <1>6 DEF Over

\* A call is made while at most one other is underway and none has settled the request.
LEMMA StartRefines ==
    ASSUME RouteInv, RouteInv', route.at \in Place, route'.at \in Place,
           NEW i \in Rungs, Unstarted(i), Running(i)',
           \A k \in Rungs \ {i} : attempt'[k] = attempt[k],
           \A k \in Rungs : Done(k) => ~ Final(k),
           NEW q \in Rungs, \A k \in Rungs : Running(k) => k = q
    PROVE  LadderStep
<1>1. TypeOK /\ Calls /\ TypeOK' /\ Calls'
  BY DEF RouteInv
<1>2. RouteVerdict = "pending" /\ RouteVerdict' = "pending"
  BY DEF RouteVerdict, Place, Over
<1>3. AnswerOf(i) = "uncalled" /\ AnswerOf(i)' = "waiting"
  BY <1>1, AnswerSays, AnswerSaysNext
<1>4. \A k \in Rungs \ {i} : AnswerOf(k)' = AnswerOf(k)
  BY DEF AnswerOf, Done, Raised, Running
<1>5. Answers[i] = "uncalled" /\ Answers' = [Answers EXCEPT ![i] = "waiting"]
  BY <1>3, <1>4 DEF Answers
<1>6. ~ PromisedLadder!Settled
  BY <1>1, SettledSays
<1>7. \A j, k \in PromisedLadder!Waiting : j = k
  BY <1>1, SettledSays
<1>8. PromisedLadder!Call(i)
  BY <1>2, <1>5, <1>6, <1>7 DEF PromisedLadder!Call, Answers, RouteVerdict
<1> QED
  BY <1>8, SameTerms DEF LadderStep, PromisedLadder!Next

\* The walk calls a rung when every call before it has failed.
LEMMA WalkAdmittedRefines ==
    ASSUME RouteInv, RouteInv', WalkAdmitted
    PROVE  LadderStep
<1>1. PICK r \in Rungs : r = route.rung
  BY DEF RouteInv, TypeOK, RouteState
<1>2. /\ At("walk") /\ Start(r) /\ route' = [route EXCEPT !.at = "rung"]
      /\ asked' = [asked EXCEPT ![r] = "admitted"]
      /\ TypeOK /\ Calls /\ Unstarted(r)
  BY <1>1 DEF WalkAdmitted, Says, RouteInv, Position
<1>3. asked'[r] = "admitted" /\ \A k \in Rungs \ {r} : asked'[k] = asked[k]
  BY <1>2 DEF TypeOK
<1>4. Running(r)' /\ \A k \in Rungs \ {r} : attempt'[k] = attempt[k]
  BY <1>2, <1>3, Started
<1>5. route.at \in Place /\ route'.at \in Place
  BY <1>2 DEF At, Place, TypeOK, RouteState
<1>6. \A k \in Rungs : ~ Running(k) /\ (Done(k) => ~ Final(k))
  <2> TAKE k \in Rungs
  <2>1. PassedOver(k) \/ Unstarted(k)
    BY <1>1, <1>2, WalkPosition
  <2> QED
    BY <2>1 DEF PassedOver, Unstarted, NotStarted, Running, Done
<1> QED
  BY <1>2, <1>4, <1>5, <1>6, StartRefines

\* The screening calls the first of the two rungs it admitted, or nothing.
LEMMA ScreenedRefines ==
    ASSUME RouteInv, RouteInv', At("screen"), NEW chosen, Screened(chosen),
           \/ chosen = Append(route.admitted, route.rung)
           \/ chosen = route.admitted
    PROVE  LadderStep
<1>1. TypeOK /\ Screening /\ route.at \in Place /\ route.rung \in Rungs
  BY DEF RouteInv, Position, At, Place, TypeOK, RouteState
<1>2. \A k \in Rungs : Unstarted(k) /\ ~ Running(k) /\ ~ Done(k)
  BY <1>1 DEF Screening, Unstarted, NotStarted, Running, Done
<1>3. CASE attempt' = attempt
  BY <1>1, <1>3, VerdictRefines
<1>4. CASE attempt' # attempt
  <2>1. Start(chosen[1]) /\ route' = [route EXCEPT !.at = "primary", !.admitted = chosen]
        /\ Len(chosen) = 2
    BY <1>4 DEF Screened
  <2>2. route'.at = "primary" /\ route'.admitted = chosen
    BY <1>1, <2>1 DEF TypeOK, RouteState
  <2>3. PICK i \in Rungs : i = chosen[1]
    <3>1. chosen \in Seq(Rungs)
      BY <2>2 DEF RouteInv, TypeOK, RouteState
    <3> QED
      <4>1. 1 \in 1 .. Len(chosen)
        BY <2>1
      <4>2. chosen[1] \in Rungs
        BY <3>1, <4>1, ElementOfSeq
      <4> QED
        BY <4>2
  <2>4. Running(i)' /\ \A k \in Rungs \ {i} : attempt'[k] = attempt[k]
    BY <1>1, <2>1, <2>3 DEF Start, TypeOK, NotStarted, Running
  <2>5. route'.at \in Place
    BY <2>2 DEF Place
  <2> QED
    BY <1>1, <1>2, <2>3, <2>4, <2>5, StartRefines
<1> QED
  BY <1>3, <1>4

\* The hedge is called beside a primary that has not answered.
LEMMA FireHedgeRefines ==
    ASSUME RouteInv, RouteInv', FireHedge
    PROVE  LadderStep
<1>0. At("primary") /\ ~ Ended(Primary)
  BY DEF FireHedge
<1>1. PICK p \in Rungs, h \in Rungs : p = Primary /\ h = Hedge
  BY <1>0, RaceFacts
<1>2. /\ TypeOK /\ p # h /\ Unstarted(h) /\ ~ Done(p)
      /\ \A k \in Rungs \ {p, h} : Unstarted(k)
  BY <1>0, <1>1, RaceFacts DEF RouteInv, Position, Ended
<1>3. Start(h) /\ route' = [route EXCEPT !.at = "race"]
  BY <1>1 DEF FireHedge
<1>4. Running(h)' /\ \A k \in Rungs \ {h} : attempt'[k] = attempt[k]
  BY <1>2, <1>3 DEF Start, TypeOK, NotStarted, Running
<1>5. route.at \in Place /\ route'.at \in Place
  BY <1>0, <1>2, <1>3 DEF At, Place, TypeOK, RouteState
<1>6. \A k \in Rungs : (Running(k) => k = p) /\ ~ Done(k)
  BY <1>2 DEF Unstarted, NotStarted, Running, Done
<1> QED
  BY <1>2, <1>4, <1>5, <1>6, StartRefines

\* The loser of a race is lost when the winner is served.
LEMMA FirstUsableRefines ==
    ASSUME RouteInv, RouteInv', NEW first, NEW other, Rivals(first, other),
           FirstUsable(first, other)
    PROVE  LadderStep
<1>0. At("race") /\ Done(first) /\ Running(other) /\ Final(first) /\ Serve(first)
      /\ attempt' = [attempt EXCEPT ![other].step = "cancelled"]
  BY DEF FirstUsable
<1>1. /\ first \in Rungs /\ other \in Rungs /\ first # other
      /\ \A k \in Rungs \ {first, other} : Unstarted(k)
  BY <1>0, RaceRungs
<1>2. TypeOK /\ Calls /\ TypeOK' /\ Calls'
  BY DEF RouteInv
<1>3. RouteVerdict = "pending" /\ RouteVerdict' = "served"
  BY <1>0, <1>2 DEF RouteVerdict, At, Over, Serve, TypeOK, RouteState
<1>4. (attempt[other].step = "cancelled")' /\ \A k \in Rungs \ {other} : attempt'[k] = attempt[k]
  BY <1>0, <1>1, <1>2 DEF TypeOK, Attempt
<1>5. AnswerOf(other)' = "lost" /\ \A k \in Rungs \ {other} : AnswerOf(k)' = AnswerOf(k)
  <2>1. AnswerOf(other)' = "lost"
    BY <1>1, <1>2, <1>4, AnswerSaysNext
  <2>2. \A k \in Rungs \ {other} : AnswerOf(k)' = AnswerOf(k)
    BY <1>4 DEF AnswerOf, Done, Raised, Running
  <2> QED
    BY <2>1, <2>2
<1>6. PromisedLadder!Waiting = {other} /\ PromisedLadder!Settled
  <2>1. \A k \in Rungs : Running(k) <=> k = other
    BY <1>0, <1>1 DEF Running, Done, Unstarted, NotStarted
  <2> QED
    BY <1>0, <1>1, <1>2, <2>1, SettledSays
<1>7. Answers' = [i \in Rungs |-> IF i \in {other} THEN "lost" ELSE Answers[i]]
  BY <1>5 DEF Answers
<1>8. PromisedLadder!Serve
  BY <1>3, <1>6, <1>7, SameTerms DEF PromisedLadder!Serve, Answers, RouteVerdict
<1> QED
  BY <1>8 DEF LadderStep, PromisedLadder!Next

-----------------------------------------------------------------------------
\* Every step of Router is a step of Ladder, or one it does not see.
LEMMA NextRefines == RouteInv /\ RouteInv' /\ [Next]_vars => LadderStep
<1> SUFFICES ASSUME RouteInv, RouteInv', [Next]_vars PROVE LadderStep
  OBVIOUS
<1>1. CASE \E i \in Rungs : Attempting(i)
  BY <1>1, CallRefines
<1>2. CASE Walk
  <2>1. CASE AllowsRaises \/ WalkRefused \/ RungDone
    <3>1. route.at \in Place /\ attempt' = attempt
      BY <2>1 DEF AllowsRaises, WalkRefused, RungDone, At, Place
    <3> QED
      BY <3>1, VerdictRefines
  <2> QED
    BY <1>2, <2>1, WalkAdmittedRefines DEF Walk
<1>3. CASE Hedged
  <2>1. CASE ScreenAdmitted
    BY <2>1, ScreenedRefines DEF ScreenAdmitted
  <2>2. CASE ScreenRefused
    BY <2>2, ScreenedRefines DEF ScreenRefused
  <2>3. ASSUME NEW first, NEW other, Race(first, other), Rivals(first, other)
        PROVE  LadderStep
    <3>1. CASE FirstFailed(first, other) \/ OtherDone(first, other)
      <4>1. route.at \in Place /\ attempt' = attempt
        BY <3>1 DEF FirstFailed, OtherDone, At, Place
      <4> QED
        BY <4>1, VerdictRefines
    <3> QED
      BY <2>3, <3>1, FirstUsableRefines DEF Race
  <2>4. CASE PrimaryDone \/ BothDone
    <3>1. route.at \in Place /\ attempt' = attempt
      BY <2>4 DEF PrimaryDone, BothDone, At, Place
    <3> QED
      BY <3>1, VerdictRefines
  <2>5. CASE Race(Primary, Hedge) \/ Race(Hedge, Primary)
    <3>1. PICK p, h : p = Primary /\ h = Hedge
      OBVIOUS
    <3>2. (Race(p, h) \/ Race(h, p)) /\ Rivals(p, h) /\ Rivals(h, p)
      BY <2>5, <3>1 DEF Rivals
    <3> QED
      BY <2>3, <3>2
  <2> QED
    BY <1>3, <2>1, <2>2, <2>4, <2>5, FireHedgeRefines DEF Hedged
<1>4. CASE AttemptRaised
  <2>1. route.at \in Place /\ attempt' = attempt
    BY <1>4 DEF AttemptRaised, Awaited, At, Place
  <2> QED
    BY <2>1, VerdictRefines
<1>5. CASE Operate \/ UNCHANGED vars
  <2>1. route' = route /\ attempt' = attempt
    BY <1>5 DEF Operate, SetChaos, ClearChaos, vars
  <2> QED
    BY <2>1, SameAnswers, Stutters DEF RouteVerdict
<1> QED
  BY <1>1, <1>2, <1>3, <1>4, <1>5 DEF Next, Routing

LEMMA InitRefines == Init => PromisedLadder!Init
  BY SameTerms DEF Init, PromisedLadder!Init, AnswerOf, NotStarted, Over, Done, Raised, Running

\* The walk and the race of router.py (66-205) keep the promise of Ladder for a ladder
\* of any length: each rung is called at most once, two at a time at most and none after
\* a settling answer, only such an answer is served, and a request is given up
\* only when every call it made has failed.
THEOREM RouterImplementsLadder == Spec => ImplementsLadder
  BY InitRefines, NextRefines, RouteInvariant, PTL
  DEF Spec, ImplementsLadder, PromisedLadder!Spec, LadderStep, Answers, RouteVerdict
=============================================================================
