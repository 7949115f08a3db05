---------------------------- MODULE RouterProofs ----------------------------
(***************************************************************************)
(* What holds of every request on its way down the ladder, for a ladder of   *)
(* any length, any failures and any faults an operator may inject: its trail, *)
(* its calls and its status tell what happened.  RouterRefinement builds on it. *)
(***************************************************************************)
EXTENDS Router, FiniteSetTheorems, SequenceTheorems, WellFoundedInduction, TLAPS

-----------------------------------------------------------------------------
(* The tables. *)

LEMMA TableRows ==
    /\ DOMAIN ExceptionTaxonomy = 1 .. 14
    /\ \A k \in 1 .. 14 : ExceptionTaxonomy[k][2] \in Outcome \ {"ok"}
  BY DEF ExceptionTaxonomy, Outcome

\* The row an exception is classified by is the first one that matches.
LEMMA FirstRow ==
    ASSUME NEW exception, exception # "TimeoutError", NEW k \in 1 .. 14,
           IsA(exception, ExceptionTaxonomy[k][1]),
           \A m \in 1 .. 14 : m < k => ~ IsA(exception, ExceptionTaxonomy[m][1])
    PROVE  Classify(exception) = ExceptionTaxonomy[k][2]
<1> DEFINE rows == {m \in DOMAIN ExceptionTaxonomy : IsA(exception, ExceptionTaxonomy[m][1])}
           first == CHOOSE m \in rows : \A n \in rows : m <= n
<1>1. k \in rows /\ rows \subseteq 1 .. 14
  BY TableRows
<1>2. \A n \in rows : k <= n
  BY <1>1
<1>3. first \in rows /\ \A n \in rows : first <= n
  BY <1>1, <1>2
<1>4. first = k
  BY <1>1, <1>2, <1>3
<1> QED
  BY <1>1, <1>4 DEF Classify

\* Every exception a call ends with is one of the failures of the taxonomy.
LEMMA ClassifyFails ==
    ASSUME NEW exception
    PROVE  Classify(exception) \in Outcome \ {"ok"}
<1> DEFINE rows == {m \in DOMAIN ExceptionTaxonomy : IsA(exception, ExceptionTaxonomy[m][1])}
           first == CHOOSE m \in rows : \A n \in rows : m <= n
<1>1. CASE rows = {}
  BY <1>1 DEF Classify, Outcome
<1>2. CASE rows # {}
  <2>1. PICK k \in rows : \A n \in rows : k <= n
    <3>1. rows \subseteq Nat
      BY TableRows
    <3>2. PICK k \in rows : \A n \in rows : ~ <<n, k>> \in OpToRel(<, Nat)
      BY <1>2, <3>1, NatLessThanWellFounded, WFMin
    <3>3. ASSUME NEW n \in rows PROVE k <= n
      <4>1. ~ (n < k)
        BY <3>1, <3>2 DEF OpToRel
      <4> QED
        BY <3>1, <4>1
    <3> QED
      BY <3>3
  <2>2. first \in rows
    BY <2>1
  <2>3. Classify(exception) \in {"timeout", ExceptionTaxonomy[first][2]}
    BY <1>2 DEF Classify
  <2> QED
    BY <2>2, <2>3, TableRows DEF Outcome
<1> QED
  BY <1>1, <1>2

\* An injected fault is classified as what the operator asked for.
LEMMA InjectedIsClassified ==
    ASSUME NEW fault \in Injectable
    PROVE  Classify(ExceptionFor[fault]) = fault /\ fault \in Outcome
<1>1. fault \in Outcome
  BY DEF Injectable, ExceptionFor, Outcome
<1> DEFINE row == [rate_limit |-> 1, timeout |-> 2, server_error |-> 12, auth |-> 4,
                   content_filter |-> 6, bad_request |-> 10]
<1>2. fault \in {"rate_limit", "timeout", "server_error", "auth", "content_filter", "bad_request"}
  BY DEF Injectable, ExceptionFor
<1>3. ExceptionTaxonomy[row[fault]] = <<ExceptionFor[fault], fault>> /\ row[fault] \in 1 .. 14
  BY <1>2 DEF ExceptionFor, ExceptionTaxonomy
<1>4. ASSUME NEW m \in 1 .. 14, m < row[fault]
      PROVE  ~ IsA(ExceptionFor[fault], ExceptionTaxonomy[m][1])
  BY <1>2, <1>4 DEF ExceptionFor, ExceptionTaxonomy, IsA, Base
<1>5. ExceptionFor[fault] # "TimeoutError"
  BY <1>2 DEF ExceptionFor
<1>6. IsA(ExceptionFor[fault], ExceptionTaxonomy[row[fault]][1])
  BY <1>3 DEF IsA
<1> HIDE DEF row
<1>7. Classify(ExceptionFor[fault]) = ExceptionTaxonomy[row[fault]][2]
  BY <1>3, <1>4, <1>5, <1>6, FirstRow
<1> QED
  BY <1>1, <1>3, <1>7

\* A failure has a status of its own, and 400 is for the caller's faults alone.
LEMMA StatusOfFailure ==
    ASSUME NEW outcome \in Outcome \ {"ok"}
    PROVE  /\ StatusOf(outcome) \notin {500, 503}
           /\ StatusOf(outcome) = 400 <=> ~ Trippable(outcome)
  BY DEF StatusOf, StatusByOutcome, Outcome, Trippable, TrippableSet

-----------------------------------------------------------------------------
Unstarted(i) == attempt[i] = NotStarted
Logged(i) == \E n \in DOMAIN trail : trail[n] = Entry(i)

\* What a call knows at each of its steps.
CallShape(i) ==
    LET call == attempt[i] IN
    /\ call.step = "none" => call = NotStarted
    /\ call.step \in {"chaos", "call"} => call.fault = None
    /\ call.step \in {"chaos", "apply", "call", "raised"} => call.outcome = None
    /\ call.step = "apply" => call.fault # None
    /\ call.step \in {"health", "breaker", "done"} => call.outcome # None
    /\ call.fault # None /\ call.outcome # None => call.outcome = call.fault
    /\ call # NotStarted => asked[i] = "admitted"

Calls == \A i \in Rungs : CallShape(i)

\* The trail says nothing untrue of a call, and speaks of no rung twice.
TrailSound ==
    /\ \A n \in DOMAIN trail :
         trail[n].outcome # Skipped => Done(trail[n].rung) /\ trail[n] = Entry(trail[n].rung)
    /\ \A m, n \in DOMAIN trail : trail[m].rung = trail[n].rung => m = n

\* What the walk may leave behind: a rung that failed and is in the trail, or one
\* that its breaker refused.
PassedOver(i) == \/ Done(i) /\ ~ Final(i) /\ Logged(i)
                 \/ Unstarted(i) /\ asked[i] = "refused"

TrailBefore(r) == \A n \in DOMAIN trail : trail[n].rung < r

\* The screening has asked the rungs before this one, and admitted at most one.
Screening ==
    /\ trail = <<>> /\ \A i \in Rungs : Unstarted(i)
    /\ Len(route.admitted) < 2
    /\ \A n \in DOMAIN route.admitted :
         route.admitted[n] < route.rung /\ asked[route.admitted[n]] = "admitted"
    /\ \A i \in Rungs : i < route.rung =>
         asked[i] = "refused" \/ \E n \in DOMAIN route.admitted : route.admitted[n] = i

\* The rungs of a race, and those it leaves out.
Racing ==
    /\ trail = <<>>
    /\ Len(route.admitted) = 2 /\ Primary < Hedge
    /\ asked[Primary] = "admitted" /\ asked[Hedge] = "admitted"
    /\ \A i \in Rungs \ {Primary, Hedge} :
         Unstarted(i) /\ (i < Hedge => asked[i] = "refused")

Underway(i) == ~ Unstarted(i) /\ attempt[i].step # "cancelled"

\* What the request has behind it, wherever route() is.
Position ==
    /\ At("screen") => Screening
    /\ At("primary") => Racing /\ Underway(Primary) /\ Unstarted(Hedge)
    /\ At("race") => Racing /\ Underway(Primary) /\ Underway(Hedge)
    /\ At("other") =>
         /\ Racing /\ Underway(Primary) /\ Underway(Hedge)
         /\ route.rung \in {Primary, Hedge}
         /\ \A i \in {Primary, Hedge} : i # route.rung => Done(i) /\ ~ Final(i)
    /\ At("walk") \/ At("rung") =>
         /\ TrailBefore(route.rung)
         /\ \A i \in Rungs : /\ i < route.rung => PassedOver(i)
                             /\ i > route.rung => Unstarted(i)
    /\ At("walk") => Unstarted(route.rung)
    /\ At("rung") => Underway(route.rung)
    /\ At("served") =>
         /\ Done(route.rung) /\ Final(route.rung)
         /\ \A i \in Rungs : ~ Running(i) /\ (Done(i) => Logged(i))
    /\ At("exhausted") => \A i \in Rungs : PassedOver(i)

RouteInv == TypeOK /\ Calls /\ TrailSound /\ Position

LEMMA RouteInit == Init => RouteInv
<1> SUFFICES ASSUME Init PROVE RouteInv
  OBVIOUS
<1>1. TypeOK
  BY RouterLadderAssumption
  DEF Init, TypeOK, RouteState, Place, Rungs, Attempt, AttemptStep, NotStarted, Answer
<1>2. Calls /\ TrailSound
  BY DEF Init, Calls, CallShape, TrailSound, NotStarted
<1>3. Position
  BY RouterLadderAssumption
  DEF Init, Position, At, Screening, Unstarted, TrailBefore, Rungs
<1> QED
  BY <1>1, <1>2, <1>3 DEF RouteInv

\* The two calls of a race, in either order.
Rivals(i, k) == <<i, k>> \in {<<Primary, Hedge>>, <<Hedge, Primary>>}

LEMMA RacingRungs ==
    ASSUME TypeOK, Racing
    PROVE  Primary \in Rungs /\ Hedge \in Rungs /\ Primary # Hedge
<1>1. route.admitted \in Seq(Rungs) /\ Len(route.admitted) = 2 /\ Primary < Hedge
  BY DEF TypeOK, RouteState, Racing
<1>2. Primary \in Rungs /\ Hedge \in Rungs
  BY <1>1 DEF Primary, Hedge
<1> QED
  BY <1>1, <1>2, RouterLadderAssumption DEF Rungs

-----------------------------------------------------------------------------
(* A step of a call. *)

\* A step of the call of rung i moves it, and nothing else.
LEMMA CallStep ==
    ASSUME RouteInv, NEW i \in Rungs, Attempting(i)
    PROVE  /\ UNCHANGED <<route, trail, asked>>
           /\ chaos' = chaos
           /\ \A k \in Rungs \ {i} : attempt'[k] = attempt[k]
           /\ attempt' \in [Rungs -> Attempt]
           /\ Running(i) /\ Underway(i)'
           /\ CallShape(i)'
<1> DEFINE call == attempt[i]
           moved == attempt'[i]
<1>1. call \in Attempt /\ attempt \in [Rungs -> Attempt] /\ chaos[i] \in Injectable \cup {None}
  BY DEF RouteInv, TypeOK
<1>2. CallShape(i)
  BY DEF RouteInv, Calls
<1> USE DEF Underway, Unstarted, CallShape, Attempt, AttemptStep, NotStarted, Running
<1>3. None \notin Injectable /\ None \notin Outcome
  BY DEF None, Injectable, ExceptionFor, Outcome
<1>4. CASE GetChaos(i) \/ GetChaosRaises(i)
  BY <1>1, <1>2, <1>3, <1>4 DEF GetChaos, GetChaosRaises, Step
<1>5. CASE ApplyHits(i)
  <2>1. call.step = "apply" /\ call.fault \in Injectable
    BY <1>1, <1>2, <1>5 DEF ApplyHits
  <2>2. Classify(ExceptionFor[call.fault]) = call.fault /\ call.fault \in Outcome
    BY <2>1, InjectedIsClassified
  <2>3. attempt' = [attempt EXCEPT ![i].step = "health", ![i].outcome = call.fault]
    BY <1>5, <2>2 DEF ApplyHits, Comes
  <2> QED
    BY <1>1, <1>2, <1>3, <1>5, <2>1, <2>2, <2>3 DEF ApplyHits, Comes
<1>6. CASE ApplyMisses(i)
  BY <1>1, <1>2, <1>3, <1>6 DEF ApplyMisses
<1>7. CASE CallProvider(i)
  <2>1. PICK outcome \in Outcome : Comes(i, outcome)
    <3>1. "ok" \in Outcome
      BY DEF Outcome
    <3> QED
      BY <1>7, <3>1, ClassifyFails DEF CallProvider
  <2>2. attempt' = [attempt EXCEPT ![i].step = "health", ![i].outcome = outcome]
    BY <2>1 DEF Comes
  <2>3. call.step = "call"
    BY <1>7 DEF CallProvider
  <2> QED
    BY <1>1, <1>2, <1>3, <2>1, <2>2, <2>3 DEF Comes
<1>8. CASE RecordHealth(i) \/ RecordBreaker(i)
  BY <1>1, <1>2, <1>3, <1>8 DEF RecordHealth, RecordBreaker, Step
<1> QED
  BY <1>4, <1>5, <1>6, <1>7, <1>8 DEF Attempting

LEMMA CallStepInv ==
    ASSUME RouteInv, NEW i \in Rungs, Attempting(i)
    PROVE  RouteInv'
<1>1. /\ route' = route /\ trail' = trail /\ asked' = asked /\ chaos' = chaos
      /\ \A k \in Rungs \ {i} : attempt'[k] = attempt[k]
      /\ attempt' \in [Rungs -> Attempt]
      /\ Running(i) /\ Underway(i)' /\ CallShape(i)'
  BY CallStep
<1>2. TypeOK'
  BY <1>1 DEF RouteInv, TypeOK
<1>3. Calls'
  BY <1>1 DEF RouteInv, Calls, CallShape
<1>4. \A k \in Rungs : Done(k) => Done(k)' /\ (Final(k)' <=> Final(k)) /\ (Logged(k)' <=> Logged(k))
  BY <1>1 DEF Done, Final, Logged, Entry, Running
<1>5. \A k \in Rungs : Unstarted(k) => Unstarted(k)'
  BY <1>1 DEF Unstarted, Running, NotStarted
<1>6. TrailSound'
  BY <1>1, <1>4 DEF RouteInv, TypeOK, TrailSound, TrailEntry, Entry, Done, Running
<1>7. \A k \in Rungs : PassedOver(k) => PassedOver(k)'
  BY <1>1, <1>4, <1>5 DEF PassedOver
<1>8. Position'
  <2>1. TypeOK /\ Position
    BY DEF RouteInv
  <2>2. \A k \in Rungs : Underway(k) => Underway(k)'
    BY <1>1 DEF Underway, Unstarted
  <2>3. Racing => Racing' /\ Primary \in Rungs /\ Hedge \in Rungs
    BY <1>1, <1>5, <2>1, RacingRungs DEF Racing, Primary, Hedge
  <2>4. Primary' = Primary /\ Hedge' = Hedge
    BY <1>1 DEF Primary, Hedge
  <2>5. CASE At("screen")
    BY <1>1, <2>1, <2>5 DEF Position, At, Screening, Running, Unstarted, NotStarted
  <2>6. CASE At("primary") \/ At("race") \/ At("other")
    BY <1>1, <1>4, <1>5, <2>1, <2>2, <2>3, <2>4, <2>6 DEF Position, At
  <2>7. CASE At("walk") \/ At("rung")
    <3>1. route.rung \in Rungs
      BY <2>1 DEF TypeOK, RouteState
    <3> QED
      BY <1>1, <1>5, <1>7, <2>1, <2>2, <2>7, <3>1 DEF Position, At, TrailBefore
  <2>8. CASE At("served")
    BY <1>1, <2>1, <2>8 DEF Position, At
  <2>9. CASE At("exhausted")
    BY <1>1, <1>7, <2>1, <2>9 DEF Position, At
  <2>10. CASE route.at = "raised"
    BY <1>1, <2>10 DEF Position, At
  <2> QED
    BY <2>1, <2>5, <2>6, <2>7, <2>8, <2>9, <2>10 DEF TypeOK, RouteState, Place, Over, At
<1> QED
  BY <1>2, <1>3, <1>6, <1>8 DEF RouteInv

-----------------------------------------------------------------------------
(* What a step of route() leaves. *)

LEMMA TrailRungs ==
    ASSUME NEW t \in Seq(TrailEntry), NEW n \in DOMAIN t
    PROVE  t[n] \in TrailEntry /\ t[n].rung \in Rungs
<1>1. t[n] \in TrailEntry
  BY LenProperties, ElementOfSeq
<1> QED
  BY <1>1 DEF TrailEntry

\* An entry for a rung that the trail does not name yet.
LEMMA TrailGrows ==
    ASSUME TypeOK, TrailSound, NEW i \in Rungs, NEW outcome \in Outcome \cup {Skipped},
           trail' = Append(trail, [rung |-> i, outcome |-> outcome]),
           \A n \in DOMAIN trail : trail[n].rung # i,
           \A k \in Rungs : Done(k) => attempt'[k] = attempt[k],
           outcome # Skipped => attempt' = attempt /\ Done(i) /\ outcome = attempt[i].outcome
    PROVE  /\ trail' \in Seq(TrailEntry) /\ TrailSound'
           /\ \A k \in Rungs : Done(k) /\ Logged(k) => Logged(k)'
           /\ outcome # Skipped => Logged(i)'
           /\ \A n \in DOMAIN trail' : \/ n \in DOMAIN trail /\ trail'[n] = trail[n]
                                       \/ trail'[n].rung = i
<1> DEFINE entry == [rung |-> i, outcome |-> outcome]
           last == Len(trail) + 1
<1>1. trail \in Seq(TrailEntry) /\ entry \in TrailEntry
  BY DEF TypeOK, TrailEntry
<1>2. trail' \in Seq(TrailEntry) /\ Len(trail') = last
  BY <1>1
<1>3. DOMAIN trail' = DOMAIN trail \cup {last} /\ last \notin DOMAIN trail
  BY <1>1, <1>2
<1>4. trail'[last] = entry /\ \A n \in DOMAIN trail : trail'[n] = trail[n]
  BY <1>1
<1> HIDE DEF last
<1>5. \A k \in Rungs : Done(k) /\ Logged(k) => Logged(k)'
  BY <1>3, <1>4 DEF Logged, Entry
<1>6. outcome # Skipped => Logged(i)'
  BY <1>3, <1>4 DEF Logged, Entry
<1>7. \A n \in DOMAIN trail : trail[n].rung \in Rungs
  BY <1>1, TrailRungs
<1>8. \A n \in DOMAIN trail : trail[n].outcome # Skipped =>
        (Done(trail[n].rung) /\ trail[n] = Entry(trail[n].rung))'
  BY <1>4, <1>7 DEF TrailSound, Done, Entry
<1>9. outcome # Skipped => (Done(i) /\ entry = Entry(i))'
  BY DEF Done, Entry
<1>10. TrailSound'
  BY <1>3, <1>4, <1>8, <1>9 DEF TrailSound
<1> QED
  BY <1>2, <1>3, <1>4, <1>5, <1>6, <1>10

\* The two calls of a race, when the trail was empty.
LEMMA TrailOfRace ==
    ASSUME TypeOK, trail = <<>>, attempt' = attempt,
           NEW winner \in Rungs, NEW loser \in Rungs, winner # loser,
           Done(winner), Done(loser), CallShape(winner), CallShape(loser),
           trail' = trail \o <<Entry(winner), Entry(loser)>>
    PROVE  /\ trail' \in Seq(TrailEntry) /\ TrailSound'
           /\ Logged(winner)' /\ Logged(loser)'
           /\ \A n \in DOMAIN trail' : trail'[n].rung \in {winner, loser}
<1>1. Entry(winner) \in TrailEntry /\ Entry(loser) \in TrailEntry
  BY DEF TypeOK, Attempt, CallShape, Done, Entry, TrailEntry
<1>2. trail' = <<Entry(winner), Entry(loser)>>
  BY <1>1
<1>3. trail' \in Seq(TrailEntry) /\ DOMAIN trail' = {1, 2}
  BY <1>1, <1>2
<1>4. trail'[1] = Entry(winner)' /\ trail'[2] = Entry(loser)'
  BY <1>2 DEF Entry
<1>5. Entry(winner)'.rung = winner /\ Entry(loser)'.rung = loser
  BY DEF Entry
<1> QED
  BY <1>3, <1>4, <1>5 DEF TrailSound, Logged, Done

\* The walk goes on after rung i, or has none left.
LEMMA Resumed ==
    ASSUME TypeOK, NEW i \in Rungs, Resume(i),
           (\A k \in Rungs : k <= i => PassedOver(k))', (\A k \in Rungs : k > i => Unstarted(k))',
           (\A n \in DOMAIN trail : trail[n].rung <= i)', (trail \in Seq(TrailEntry))'
    PROVE  route' \in RouteState /\ Position'
<1>1. i \in Nat /\ LadderLength \in Nat /\ i <= LadderLength
  BY RouterLadderAssumption DEF Rungs
<1>2. CASE i < LadderLength
  <2>1. i + 1 \in Rungs
    BY <1>1, <1>2 DEF Rungs
  <2>2. route' = [route EXCEPT !.at = "walk", !.rung = i + 1]
    BY <1>2 DEF Resume
  <2>3. route' \in RouteState /\ route'.at = "walk" /\ route'.rung = i + 1
    BY <2>1, <2>2 DEF TypeOK, RouteState, Place
  <2>4. TrailBefore(route.rung)'
    <3>1. \A n \in DOMAIN trail' : trail'[n].rung \in Rungs
      BY TrailRungs
    <3> QED
      BY <1>1, <2>3, <3>1 DEF TrailBefore, Rungs
  <2>5. \A k \in Rungs : (k < i + 1 => k <= i) /\ (k >= i + 1 => k > i)
    BY <1>1 DEF Rungs
  <2>6. \A k \in Rungs : (k < route.rung => PassedOver(k))' /\ (k >= route.rung => Unstarted(k))'
    BY <2>3, <2>5
  <2>7. i + 1 >= i + 1 /\ \A k \in Rungs : k > i + 1 => k >= i + 1
    BY <1>1 DEF Rungs
  <2> QED
    BY <2>1, <2>3, <2>4, <2>6, <2>7 DEF Position, At
<1>3. CASE ~ (i < LadderLength)
  <2>1. route' \in RouteState /\ route'.at = "exhausted"
    BY <1>3 DEF Resume, Finish, TypeOK, RouteState, Over
  <2>2. \A k \in Rungs : k <= i
    BY <1>1, <1>3 DEF Rungs
  <2> QED
    BY <2>1, <2>2 DEF Position, At
<1> QED
  BY <1>2, <1>3

\* Rung i settles the request.
LEMMA Served ==
    ASSUME TypeOK, NEW i \in Rungs, Serve(i), (Done(i) /\ Final(i))',
           (\A k \in Rungs : ~ Running(k) /\ (Done(k) => Logged(k)))'
    PROVE  route' \in RouteState /\ Position'
<1>1. route' \in RouteState /\ route'.at = "served" /\ route'.rung = i
  BY DEF Serve, TypeOK, RouteState, Over
<1> QED
  BY <1>1 DEF Position, At

\* Calls that nothing touches.
LEMMA CallsKept ==
    ASSUME Calls, attempt' = attempt, \A k \in Rungs : Unstarted(k) \/ asked'[k] = asked[k]
    PROVE  Calls'
  BY DEF Calls, CallShape, Unstarted, NotStarted

LEMMA TrailKept ==
    ASSUME TypeOK, TrailSound, trail' = trail,
           \A k \in Rungs : Done(k) => attempt'[k] = attempt[k]
    PROVE  /\ TrailSound'
           /\ \A k \in Rungs : Done(k) /\ Logged(k) => Logged(k)'
<1>1. \A n \in DOMAIN trail : trail[n].rung \in Rungs
  BY TrailRungs DEF TypeOK
<1> QED
  BY <1>1 DEF TrailSound, Logged, Done, Entry

\* The call of rung i is made.
LEMMA Started ==
    ASSUME TypeOK, Calls, NEW i \in Rungs, Unstarted(i), Start(i), asked'[i] = "admitted",
           \A k \in Rungs \ {i} : asked'[k] = asked[k]
    PROVE  /\ attempt' \in [Rungs -> Attempt] /\ Calls'
           /\ Running(i)' /\ Underway(i)'
           /\ \A k \in Rungs \ {i} : attempt'[k] = attempt[k]
           /\ \A k \in Rungs : Done(k) => attempt'[k] = attempt[k]
<1>1. /\ attempt'[i] = [step |-> "chaos", fault |-> None, outcome |-> None]
      /\ \A k \in Rungs \ {i} : attempt'[k] = attempt[k]
      /\ attempt' \in [Rungs -> Attempt]
  BY DEF Start, TypeOK, Attempt, AttemptStep, NotStarted
<1>2. \A k \in Rungs : Done(k) => attempt'[k] = attempt[k]
  BY <1>1 DEF Unstarted, NotStarted, Done
<1>3. CallShape(i)' /\ Running(i)' /\ Underway(i)'
  BY <1>1 DEF CallShape, Running, Underway, Unstarted, NotStarted
<1>4. \A k \in Rungs \ {i} : CallShape(k)'
  BY <1>1 DEF Calls, CallShape
<1> QED
  BY <1>1, <1>2, <1>3, <1>4 DEF Calls

\* What is kept when only the one passed over or done last is new.
LEMMA PassedKept ==
    ASSUME NEW k \in Rungs, PassedOver(k), attempt'[k] = attempt[k], asked'[k] = asked[k],
           Done(k) /\ Logged(k) => Logged(k)'
    PROVE  PassedOver(k)'
  BY DEF PassedOver, Done, Final, Unstarted

-----------------------------------------------------------------------------
(* The steps of the plain walk. *)

LEMMA RaisedInv ==
    ASSUME RouteInv, Finish("raised"), UNCHANGED <<attempt, trail, asked, chaos>>
    PROVE  RouteInv'
<1>1. route' \in RouteState /\ route'.at = "raised"
  BY DEF RouteInv, TypeOK, RouteState, Finish, Over
<1>2. TypeOK' /\ Position'
  BY <1>1 DEF RouteInv, TypeOK, Position, At
<1> QED
  BY <1>2, CallsKept, TrailKept DEF RouteInv

\* Where the walk stands: what is before it, and that the trail does not name its rung.
LEMMA WalkPosition ==
    ASSUME RouteInv, At("walk") \/ At("rung")
    PROVE  /\ route.rung \in Rungs
           /\ \A n \in DOMAIN trail : trail[n].rung < route.rung /\ trail[n].rung # route.rung
           /\ \A k \in Rungs : /\ k < route.rung => PassedOver(k)
                               /\ k > route.rung => Unstarted(k)
                               /\ k < route.rung \/ k = route.rung \/ k > route.rung
                               /\ k <= route.rung <=> k < route.rung \/ k = route.rung
<1>1. route.rung \in Rungs /\ trail \in Seq(TrailEntry)
  BY DEF RouteInv, TypeOK, RouteState
<1>2. Position
  BY DEF RouteInv
<1>3. TrailBefore(route.rung)
      /\ \A k \in Rungs : /\ k < route.rung => PassedOver(k)
                          /\ k > route.rung => Unstarted(k)
  BY <1>2 DEF Position
<1>4. \A n \in DOMAIN trail : trail[n].rung \in Rungs
  BY <1>1, TrailRungs
<1> QED
  BY <1>1, <1>3, <1>4 DEF Rungs, TrailBefore

LEMMA WalkAdmittedInv ==
    ASSUME RouteInv, WalkAdmitted
    PROVE  RouteInv'
<1> DEFINE r == route.rung
<1>1. /\ At("walk") /\ r \in Rungs /\ TypeOK /\ Calls /\ TrailSound /\ Unstarted(r)
      /\ trail' = trail /\ chaos' = chaos /\ Start(r)
      /\ route' = [route EXCEPT !.at = "rung"]
      /\ asked' = [asked EXCEPT ![r] = "admitted"]
  BY DEF RouteInv, TypeOK, RouteState, WalkAdmitted, Says, Position
<1>2. route' \in RouteState /\ route'.at = "rung" /\ route'.rung = r
  BY <1>1 DEF TypeOK, RouteState, Place
<1>3. asked' \in [Rungs -> Answer] /\ asked'[r] = "admitted"
      /\ \A k \in Rungs \ {r} : asked'[k] = asked[k]
  BY <1>1 DEF TypeOK, Answer
<1>4. /\ attempt' \in [Rungs -> Attempt] /\ Calls'
      /\ Underway(r)' /\ \A k \in Rungs \ {r} : attempt'[k] = attempt[k]
      /\ \A k \in Rungs : Done(k) => attempt'[k] = attempt[k]
  BY <1>1, <1>3, Started
<1>5. TrailSound' /\ \A k \in Rungs : Done(k) /\ Logged(k) => Logged(k)'
  BY <1>1, <1>4, TrailKept
<1>6. \A k \in Rungs : (k < r => PassedOver(k)') /\ (k > r => Unstarted(k)')
  <2> TAKE k \in Rungs
  <2>1. CASE k < r
    <3>1. k # r /\ ~ (k > r) /\ PassedOver(k)
      BY <1>1, <2>1, WalkPosition DEF Rungs
    <3> QED
      BY <1>3, <1>4, <1>5, <3>1, PassedKept
  <2>2. CASE k > r
    <3>1. k # r /\ ~ (k < r) /\ Unstarted(k)
      BY <1>1, <2>2, WalkPosition DEF Rungs
    <3> QED
      BY <1>4, <3>1 DEF Unstarted
  <2> QED
    BY <2>1, <2>2
<1>7. TrailBefore(route.rung)'
  BY <1>1, <1>2, WalkPosition DEF TrailBefore
<1>8. Position'
  BY <1>2, <1>4, <1>6, <1>7 DEF Position, At
<1>9. TypeOK'
  BY <1>1, <1>2, <1>3, <1>4 DEF TypeOK
<1> QED
  BY <1>4, <1>5, <1>8, <1>9 DEF RouteInv

LEMMA WalkRefusedInv ==
    ASSUME RouteInv, WalkRefused
    PROVE  RouteInv'
<1> DEFINE r == route.rung
<1>1. /\ At("walk") /\ r \in Rungs /\ TypeOK /\ Calls /\ TrailSound /\ Unstarted(r)
      /\ trail' = Append(trail, [rung |-> r, outcome |-> Skipped])
      /\ attempt' = attempt /\ chaos' = chaos /\ Resume(r)
      /\ asked' = [asked EXCEPT ![r] = "refused"]
  BY DEF RouteInv, TypeOK, RouteState, WalkRefused, Says, Position
<1>2. asked' \in [Rungs -> Answer] /\ asked'[r] = "refused"
      /\ \A k \in Rungs \ {r} : asked'[k] = asked[k]
  BY <1>1 DEF TypeOK, Answer
<1>3. /\ trail' \in Seq(TrailEntry) /\ TrailSound'
      /\ \A k \in Rungs : Done(k) /\ Logged(k) => Logged(k)'
      /\ \A n \in DOMAIN trail' : \/ n \in DOMAIN trail /\ trail'[n] = trail[n]
                                  \/ trail'[n].rung = r
  BY <1>1, WalkPosition, TrailGrows
<1>4. Calls'
  BY <1>1, <1>2, CallsKept
<1>5. \A k \in Rungs : (k <= r => PassedOver(k)') /\ (k > r => Unstarted(k)')
  <2> TAKE k \in Rungs
  <2>1. CASE k < r
    <3>1. k # r /\ ~ (k > r) /\ PassedOver(k)
      BY <1>1, <2>1, WalkPosition DEF Rungs
    <3> QED
      BY <1>1, <1>2, <1>3, <3>1, PassedKept
  <2>2. CASE k = r
    <3>1. PassedOver(k)' /\ ~ (k > r)
      BY <1>1, <1>2, <2>2 DEF PassedOver, Unstarted, Rungs
    <3> QED
      BY <3>1
  <2>3. CASE k > r
    <3>1. ~ (k <= r) /\ Unstarted(k)
      BY <1>1, <2>3, WalkPosition DEF Rungs
    <3> QED
      BY <1>1, <3>1 DEF Unstarted
  <2> QED
    BY <1>1, <2>1, <2>2, <2>3 DEF Rungs
<1>6. \A n \in DOMAIN trail' : trail'[n].rung <= r
  BY <1>1, <1>3, WalkPosition, TrailRungs DEF Rungs
<1>7. route' \in RouteState /\ Position'
  BY <1>1, <1>3, <1>5, <1>6, Resumed
<1> QED
  BY <1>1, <1>2, <1>3, <1>4, <1>7 DEF RouteInv, TypeOK

LEMMA RungDoneInv ==
    ASSUME RouteInv, RungDone
    PROVE  RouteInv'
<1>0. PICK r \in Rungs : r = route.rung
  BY DEF RouteInv, TypeOK, RouteState
<1>1. /\ At("rung") /\ TypeOK /\ Calls /\ TrailSound /\ Done(r)
      /\ trail' = Append(trail, Entry(r)) /\ Conclude(r, r)
      /\ attempt' = attempt /\ asked' = asked /\ chaos' = chaos
  BY <1>0 DEF RouteInv, RungDone
<1>2. attempt[r].outcome \in Outcome
  BY <1>1 DEF TypeOK, Attempt, Calls, CallShape, Done
<1>3. /\ trail' \in Seq(TrailEntry) /\ TrailSound' /\ Logged(r)'
      /\ \A k \in Rungs : Done(k) /\ Logged(k) => Logged(k)'
      /\ \A n \in DOMAIN trail' : \/ n \in DOMAIN trail /\ trail'[n] = trail[n]
                                  \/ trail'[n].rung = r
  <2>1. attempt[r].outcome # Skipped
    BY <1>2 DEF Outcome, Skipped
  <2>2. trail' = Append(trail, [rung |-> r, outcome |-> attempt[r].outcome])
    BY <1>1 DEF Entry
  <2>3. \A n \in DOMAIN trail : trail[n].rung # r
    BY <1>0, <1>1, WalkPosition
  <2> QED
    BY <1>1, <1>2, <2>1, <2>2, <2>3, TrailGrows
<1>4. Calls'
  BY <1>1, CallsKept
<1>5. \A k \in Rungs : (k < r => PassedOver(k)') /\ (k > r => Unstarted(k)')
  BY <1>1, <1>3, <1>0, WalkPosition, PassedKept DEF Unstarted
<1>6. route' \in RouteState /\ Position'
  <2>1. CASE Final(r)
    <3>1. Serve(r) /\ (Done(r) /\ Final(r))'
      BY <1>1, <2>1 DEF Conclude, Done, Final
    <3>2. ASSUME NEW k \in Rungs PROVE ~ Running(k)' /\ (Done(k)' => Logged(k)')
      <4>1. k = r \/ PassedOver(k)' \/ Unstarted(k)'
        BY <1>1, <1>5, <1>0, WalkPosition
      <4> QED
        BY <1>1, <1>3, <4>1 DEF PassedOver, Unstarted, Running, Done, NotStarted
    <3> QED
      BY <1>1, <3>1, <3>2, Served
  <2>2. CASE ~ Final(r)
    <3>1. Resume(r) /\ PassedOver(r)'
      BY <1>1, <1>3, <2>2 DEF Conclude, PassedOver, Done, Final
    <3>2. \A k \in Rungs : (k <= r => PassedOver(k)') /\ (k > r => Unstarted(k)')
      BY <1>1, <1>5, <3>1, <1>0, WalkPosition
    <3>3. \A n \in DOMAIN trail' : trail'[n].rung <= r
      BY <1>1, <1>3, <1>0, WalkPosition, TrailRungs DEF Rungs
    <3> QED
      BY <1>1, <1>3, <3>1, <3>2, <3>3, Resumed
  <2> QED
    BY <2>1, <2>2
<1> QED
  BY <1>1, <1>3, <1>4, <1>6 DEF RouteInv, TypeOK

-----------------------------------------------------------------------------
(* The steps of the screening. *)

\* One more breaker has answered, and `admitted` is what the screening then has.
LEMMA ScreenedInv ==
    ASSUME RouteInv, At("screen"), NEW answer \in {"admitted", "refused"}, Says(answer),
           NEW chosen, Screened(chosen), UNCHANGED <<trail, chaos>>,
           answer = "admitted" => chosen = Append(route.admitted, route.rung),
           answer = "refused" => chosen = route.admitted
    PROVE  RouteInv'
<1> DEFINE r == route.rung
           old == route.admitted
<1>1. /\ r \in Rungs /\ TypeOK /\ Calls /\ TrailSound /\ Screening
      /\ old \in Seq(Rungs) /\ trail = <<>> /\ trail' = trail /\ chaos' = chaos
      /\ asked' = [asked EXCEPT ![r] = answer]
  BY DEF RouteInv, TypeOK, RouteState, Says, Position, Screening
<1>2. asked' \in [Rungs -> Answer] /\ asked'[r] = answer
      /\ \A k \in Rungs \ {r} : asked'[k] = asked[k]
  BY <1>1 DEF TypeOK, Answer
<1>3. chosen \in Seq(Rungs)
  BY <1>1
<1>4. /\ \A n \in DOMAIN chosen : chosen[n] \in Rungs /\ chosen[n] <= r
                                    /\ asked'[chosen[n]] = "admitted"
      /\ Len(chosen) = 2 => chosen[1] < chosen[2] /\ chosen[2] = r
      /\ \A k \in Rungs : k <= r =>
           asked'[k] = "refused" \/ \E n \in DOMAIN chosen : chosen[n] = k
  <2>0. r \in Nat /\ Rungs \subseteq Nat
    BY <1>1 DEF Rungs
  <2>1. \A n \in DOMAIN old : old[n] \in Rungs /\ old[n] < r /\ asked[old[n]] = "admitted"
    BY <1>1, ElementOfSeq, LenProperties DEF Screening
  <2>2. \A k \in Rungs : k < r =>
          asked[k] = "refused" \/ \E n \in DOMAIN old : old[n] = k
    BY <1>1 DEF Screening
  <2>3. ASSUME NEW n \in DOMAIN old
        PROVE  old[n] # r /\ asked'[old[n]] = "admitted" /\ old[n] <= r
    <3>1. PICK i \in Nat : i = old[n]
      BY <2>0, <2>1
    <3>2. i \in Rungs /\ i < r /\ asked[i] = "admitted"
      BY <2>1, <3>1
    <3> QED
      BY <1>2, <2>0, <3>1, <3>2
  <2>4. CASE answer = "refused"
    <3>1. chosen = old /\ Len(old) < 2
      BY <1>1, <2>4 DEF Screening
    <3>2. \A k \in Rungs : k <= r => k < r \/ k = r
      BY <2>0
    <3>3. \A k \in Rungs : k < r => k # r
      BY <2>0
    <3> QED
      BY <1>2, <2>1, <2>2, <2>3, <2>4, <3>1, <3>2, <3>3
  <2>5. CASE answer = "admitted"
    <3>1. chosen = Append(old, r) /\ Len(chosen) = Len(old) + 1 /\ Len(old) < 2
      BY <1>1, <2>5 DEF Screening
    <3>2. DOMAIN chosen = DOMAIN old \cup {Len(old) + 1}
          /\ chosen[Len(old) + 1] = r /\ \A n \in DOMAIN old : chosen[n] = old[n]
      BY <1>1, <3>1
    <3>3. \A k \in Rungs : (k <= r => k < r \/ k = r) /\ (k < r => k # r) /\ r <= r
      BY <2>0
    <3>4. \A n \in DOMAIN chosen : chosen[n] \in Rungs /\ chosen[n] <= r
                                     /\ asked'[chosen[n]] = "admitted"
      BY <1>1, <1>2, <2>1, <2>3, <2>5, <3>2, <3>3
    <3>5. Len(chosen) = 2 => chosen[1] < chosen[2] /\ chosen[2] = r
      <4>0. PICK size \in Nat : size = Len(old)
        BY <1>1, LenProperties
      <4>1. PICK total \in Nat : total = Len(chosen) /\ total = size + 1
        BY <3>1, <4>0
      <4>2. total = 2 => size = 1
        BY <4>1
      <4>3. DOMAIN old = 1 .. size
        BY <1>1, <4>0, LenProperties
      <4>4. chosen[size + 1] = r /\ \A n \in 1 .. size : chosen[n] < r
        BY <2>1, <3>2, <4>0, <4>3
      <4>5. CASE size = 1
        BY <4>4, <4>5
      <4> QED
        BY <4>1, <4>2, <4>5
    <3>6. \A k \in Rungs : k <= r =>
            asked'[k] = "refused" \/ \E n \in DOMAIN chosen : chosen[n] = k
      BY <1>2, <2>2, <3>2, <3>3
    <3> QED
      BY <3>4, <3>5, <3>6
  <2> QED
    BY <2>4, <2>5
<1>5. \A k \in Rungs : Unstarted(k)
  BY <1>1 DEF Screening
<1>6. CASE Len(chosen) = 2
  <2>1. Start(chosen[1]) /\ route' = [route EXCEPT !.at = "primary", !.admitted = chosen]
    BY <1>3, <1>6 DEF Screened
  <2>2. route' \in RouteState /\ route'.at = "primary" /\ route'.admitted = chosen
    BY <1>1, <1>3, <2>1 DEF TypeOK, RouteState, Place
  <2>3. 1 \in DOMAIN chosen /\ 2 \in DOMAIN chosen /\ DOMAIN chosen = {1, 2}
    BY <1>3, <1>6
  <2>4. chosen[1] \in Rungs /\ chosen[2] \in Rungs /\ chosen[1] # chosen[2]
        /\ asked'[chosen[1]] = "admitted" /\ asked'[chosen[2]] = "admitted"
    BY <1>4, <1>6, <2>3 DEF Rungs
  <2>5. /\ attempt' \in [Rungs -> Attempt]
        /\ Underway(chosen[1])' /\ \A k \in Rungs \ {chosen[1]} : attempt'[k] = attempt[k]
        /\ \A k \in Rungs : Done(k) => attempt'[k] = attempt[k]
        /\ Calls'
    <3>1. attempt' = [attempt EXCEPT ![chosen[1]] = [NotStarted EXCEPT !.step = "chaos"]]
      BY <2>1 DEF Start
    <3>2. attempt' \in [Rungs -> Attempt]
          /\ attempt'[chosen[1]] = [step |-> "chaos", fault |-> None, outcome |-> None]
          /\ \A k \in Rungs \ {chosen[1]} : attempt'[k] = attempt[k]
      BY <1>1, <2>4, <3>1 DEF TypeOK, Attempt, AttemptStep, NotStarted
    <3>3. Underway(chosen[1])'
      BY <3>2 DEF Underway, Unstarted, NotStarted
    <3>4. \A k \in Rungs : Done(k) => attempt'[k] = attempt[k]
      BY <1>5 DEF Unstarted, NotStarted, Done
    <3>5. \A k \in Rungs : CallShape(k)'
      BY <1>5, <2>4, <3>2 DEF CallShape, Unstarted, NotStarted
    <3> QED
      BY <3>2, <3>3, <3>4, <3>5 DEF Calls
  <2>6. TrailSound'
    BY <1>1, <2>5, TrailKept
  <2>7. Position'
    <3>1. Unstarted(chosen[2])'
      BY <1>5, <2>4, <2>5 DEF Unstarted
    <3>2. \A k \in Rungs \ {chosen[1], chosen[2]} :
            Unstarted(k)' /\ (k < chosen[2] => asked'[k] = "refused")
      <4>1. \A k \in Rungs : k < r => k <= r
        BY <1>1 DEF Rungs
      <4> QED
        BY <1>4, <1>5, <1>6, <2>3, <2>5, <4>1 DEF Unstarted
    <3>3. Racing'
      BY <1>1, <1>4, <1>6, <2>2, <2>4, <3>2 DEF Racing, Primary, Hedge
    <3> QED
      BY <2>2, <2>5, <3>1, <3>3 DEF Position, At, Primary, Hedge
  <2> QED
    BY <1>1, <1>2, <2>2, <2>5, <2>6, <2>7 DEF RouteInv, TypeOK
<1>7. CASE Len(chosen) < 2
  <2>0. Len(chosen) # 2
    BY <1>7
  <2>1. attempt' = attempt
    BY <1>7, <2>0 DEF Screened
  <2>2. Calls' /\ TrailSound'
    BY <1>1, <1>5, <2>1, CallsKept, TrailKept
  <2>3. \A k \in Rungs : Unstarted(k)'
    BY <1>5, <2>1 DEF Unstarted
  <2>4. CASE r < LadderLength
    <3>1. route' = [route EXCEPT !.rung = r + 1, !.admitted = chosen]
      BY <1>1, <1>7, <2>0, <2>4, RouterLadderAssumption DEF Screened, Rungs
    <3>2. r + 1 \in Rungs /\ \A k \in Rungs : (k < r + 1 => k <= r) /\ (k <= r => k < r + 1)
      BY <1>1, <2>4, RouterLadderAssumption DEF Rungs
    <3>3. route' \in RouteState /\ route'.at = "screen" /\ route'.rung = r + 1
          /\ route'.admitted = chosen
      BY <1>1, <1>3, <3>1, <3>2 DEF TypeOK, RouteState, At
    <3>4. Screening'
      BY <1>1, <1>4, <1>7, <2>3, <3>2, <3>3 DEF Screening
    <3> QED
      BY <1>1, <1>2, <2>1, <2>2, <3>3, <3>4 DEF RouteInv, TypeOK, Position, At
  <2>5. CASE ~ (r < LadderLength)
    <3>1. r = LadderLength
      BY <1>1, <2>5, RouterLadderAssumption DEF Rungs
    <3>2. route' = [at |-> "walk", rung |-> 1, admitted |-> <<>>]
      BY <1>7, <2>0, <2>5, <3>1 DEF Screened
    <3>3. route' \in RouteState /\ route'.at = "walk" /\ route'.rung = 1
      BY <3>2, RouterLadderAssumption DEF RouteState, Place, Rungs
    <3>4. 1 \in Rungs /\ \A k \in Rungs : ~ (k < 1)
      BY RouterLadderAssumption DEF Rungs
    <3>5. Position'
      BY <1>1, <2>3, <3>3, <3>4 DEF Position, At, TrailBefore
    <3> QED
      BY <1>1, <1>2, <2>1, <2>2, <3>3, <3>5 DEF RouteInv, TypeOK
  <2> QED
    BY <2>4, <2>5
<1>8. Len(chosen) = 2 \/ Len(chosen) < 2
  BY DEF Screened
<1> QED
  BY <1>6, <1>7, <1>8

-----------------------------------------------------------------------------
(* The steps of the race. *)

\* Whatever place of a race route() waits at, this is what it has.
LEMMA RaceFacts ==
    ASSUME RouteInv, At("primary") \/ At("race") \/ At("other")
    PROVE  /\ TypeOK /\ Calls /\ TrailSound /\ Racing /\ trail = <<>>
           /\ Primary \in Rungs /\ Hedge \in Rungs /\ Primary # Hedge /\ Primary < Hedge
           /\ \A k \in Rungs \ {Primary, Hedge} :
                Unstarted(k) /\ (k < Hedge => asked[k] = "refused")
           /\ \A k \in Rungs : Done(k) => attempt[k].outcome \in Outcome
<1>1. TypeOK /\ Calls /\ TrailSound /\ Racing
  BY DEF RouteInv, Position
<1>2. \A k \in Rungs : Done(k) => attempt[k].outcome \in Outcome
  BY <1>1 DEF TypeOK, Attempt, Calls, CallShape, Done
<1> QED
  BY <1>1, <1>2, RacingRungs DEF Racing

\* Once the primary is over, whatever it leaves before it was refused.
LEMMA PrimaryDoneInv ==
    ASSUME RouteInv, PrimaryDone
    PROVE  RouteInv'
<1>0. At("primary")
  BY DEF PrimaryDone
<1>1. PICK p \in Rungs, h \in Rungs : p = Primary /\ h = Hedge
  BY <1>0, RaceFacts
<1>2. /\ TypeOK /\ Calls /\ TrailSound /\ trail = <<>> /\ p # h /\ p < h
      /\ \A k \in Rungs \ {p} : Unstarted(k)
      /\ \A k \in Rungs : k < p => asked[k] = "refused"
  <2>1. Unstarted(h)
    BY <1>0, <1>1 DEF RouteInv, Position
  <2>2. \A k \in Rungs : k < p => k < h /\ k # p /\ k # h
    BY <1>0, <1>1, RaceFacts DEF Rungs
  <2> QED
    BY <1>0, <1>1, <2>1, <2>2, RaceFacts
<1>3. /\ Done(p) /\ attempt[p].outcome \in Outcome /\ Conclude(p, p)
      /\ trail' = Append(trail, [rung |-> p, outcome |-> attempt[p].outcome])
      /\ attempt' = attempt /\ asked' = asked /\ chaos' = chaos
  BY <1>0, <1>1, RaceFacts DEF PrimaryDone, Entry
<1>4. /\ trail' \in Seq(TrailEntry) /\ TrailSound' /\ Logged(p)'
      /\ \A n \in DOMAIN trail' : trail'[n].rung = p
  <2>1. attempt[p].outcome # Skipped
    BY <1>3 DEF Outcome, Skipped
  <2>2. DOMAIN trail = {}
    BY <1>2
  <2> QED
    BY <1>2, <1>3, <2>1, <2>2, TrailGrows
<1>5. Calls'
  BY <1>2, <1>3, CallsKept
<1>6. CASE Final(p)
  <2>1. Serve(p) /\ (Done(p) /\ Final(p))'
    BY <1>3, <1>6 DEF Conclude, Done, Final
  <2>2. \A k \in Rungs : ~ Running(k)' /\ (Done(k)' => Logged(k)')
    BY <1>2, <1>3, <1>4 DEF Unstarted, NotStarted, Running, Done
  <2> QED
    BY <1>2, <1>3, <1>4, <1>5, <2>1, <2>2, Served DEF RouteInv, TypeOK
<1>7. CASE ~ Final(p)
  <2>1. Resume(p) /\ PassedOver(p)'
    BY <1>3, <1>4, <1>7 DEF Conclude, PassedOver, Done, Final
  <2>2. \A k \in Rungs : k < p => PassedOver(k)'
    <3>1. \A k \in Rungs : k < p => k # p
      BY DEF Rungs
    <3> QED
      BY <1>2, <1>3, <3>1 DEF PassedOver, Unstarted
  <2>3. \A k \in Rungs : k <= p => PassedOver(k)'
    <3>1. \A k \in Rungs : k <= p => k < p \/ k = p
      BY DEF Rungs
    <3> QED
      BY <2>1, <2>2, <3>1
  <2>4. \A k \in Rungs : k > p => Unstarted(k)'
    <3>1. \A k \in Rungs : k > p => k # p
      BY DEF Rungs
    <3> QED
      BY <1>2, <1>3, <3>1 DEF Unstarted
  <2>5. \A n \in DOMAIN trail' : trail'[n].rung <= p
    BY <1>4 DEF Rungs
  <2> QED
    BY <1>2, <1>3, <1>4, <1>5, <2>1, <2>3, <2>4, <2>5, Resumed DEF RouteInv, TypeOK
<1> QED
  BY <1>6, <1>7

LEMMA FireHedgeInv ==
    ASSUME RouteInv, FireHedge
    PROVE  RouteInv'
<1>0. At("primary")
  BY DEF FireHedge
<1>1. PICK p \in Rungs, h \in Rungs : p = Primary /\ h = Hedge
  BY <1>0, RaceFacts
<1>2. /\ TypeOK /\ Calls /\ TrailSound /\ Racing /\ p # h
      /\ Unstarted(h) /\ Underway(p) /\ asked[h] = "admitted"
  BY <1>0, <1>1, RaceFacts DEF RouteInv, Position, Racing
<1>3. /\ Start(h) /\ route' = [route EXCEPT !.at = "race"]
      /\ trail' = trail /\ asked' = asked /\ chaos' = chaos
  BY <1>1 DEF FireHedge
<1>4. /\ attempt' \in [Rungs -> Attempt] /\ Calls' /\ Underway(h)'
      /\ \A k \in Rungs \ {h} : attempt'[k] = attempt[k]
      /\ \A k \in Rungs : Done(k) => attempt'[k] = attempt[k]
  BY <1>2, <1>3, Started
<1>5. TrailSound'
  BY <1>2, <1>3, <1>4, TrailKept
<1>6. /\ route' \in RouteState /\ route'.at = "race" /\ route'.admitted = route.admitted
      /\ Primary' = p /\ Hedge' = h
  BY <1>1, <1>2, <1>3 DEF TypeOK, RouteState, Place, Primary, Hedge
<1>7. Underway(p)'
  BY <1>2, <1>4 DEF Underway, Unstarted
<1>8. Racing'
  BY <1>1, <1>2, <1>3, <1>4, <1>6 DEF Racing, Unstarted
<1>9. Position'
  <2>1. Underway(Primary)' /\ Underway(Hedge)'
    BY <1>4, <1>6, <1>7 DEF Underway, Unstarted
  <2> QED
    BY <1>6, <1>8, <2>1 DEF Position, At
<1> QED
  BY <1>2, <1>3, <1>4, <1>5, <1>6, <1>9 DEF RouteInv, TypeOK

\* Both calls of a race are in: the winner settles the request, or both have failed
\* and the walk goes on behind the hedge.
LEMMA SettleInv ==
    ASSUME RouteInv, At("race") \/ At("other"), NEW winner \in Rungs, NEW loser \in Rungs,
           Rivals(winner, loser),
           Done(winner), Done(loser), Final(winner) \/ ~ Final(loser),
           Settle(winner, loser), UNCHANGED <<attempt, asked, chaos>>
    PROVE  RouteInv'
<1>1. PICK p \in Rungs, h \in Rungs : p = Primary /\ h = Hedge
  BY RaceFacts
<1>2. /\ TypeOK /\ Calls /\ TrailSound /\ trail = <<>> /\ p # h /\ p < h /\ {winner, loser} = {p, h}
      /\ winner # loser
      /\ \A k \in Rungs \ {p, h} : Unstarted(k) /\ (k < h => asked[k] = "refused")
  BY <1>1, RaceFacts DEF Rivals
<1>3. attempt' = attempt /\ asked' = asked /\ chaos' = chaos
  OBVIOUS
<1>4. Conclude(winner, h) /\ trail' = trail \o <<Entry(winner), Entry(loser)>>
  BY <1>1 DEF Settle
<1>5. CallShape(winner) /\ CallShape(loser)
  BY <1>2 DEF Calls
<1>6. /\ trail' \in Seq(TrailEntry) /\ TrailSound'
      /\ Logged(winner)' /\ Logged(loser)'
      /\ \A n \in DOMAIN trail' : trail'[n].rung \in {winner, loser}
  BY <1>2, <1>3, <1>4, <1>5, TrailOfRace
<1>7. Calls'
  BY <1>2, <1>3, CallsKept
<1>8. CASE Final(winner)
  <2>1. Serve(winner) /\ (Done(winner) /\ Final(winner))'
    BY <1>3, <1>4, <1>8 DEF Conclude, Done, Final
  <2>2. ASSUME NEW k \in Rungs PROVE ~ Running(k)' /\ (Done(k)' => Logged(k)')
    <3>1. k = winner \/ k = loser \/ Unstarted(k)
      BY <1>2
    <3> QED
      BY <1>3, <1>6, <3>1 DEF Unstarted, NotStarted, Running, Done
  <2> QED
    BY <1>2, <1>3, <1>6, <1>7, <2>1, <2>2, Served DEF RouteInv, TypeOK
<1>9. CASE ~ Final(winner)
  <2>1. Resume(h)
    BY <1>4, <1>9 DEF Conclude
  <2>2. PassedOver(winner)' /\ PassedOver(loser)'
    BY <1>3, <1>6, <1>9 DEF PassedOver, Done, Final
  <2>3. ASSUME NEW k \in Rungs, k <= h PROVE PassedOver(k)'
    <3>1. CASE k \in {p, h}
      BY <1>2, <2>2, <3>1
    <3>2. CASE k \notin {p, h}
      <4>1. k < h
        BY <2>3, <3>2 DEF Rungs
      <4> QED
        BY <1>2, <1>3, <3>2, <4>1 DEF PassedOver, Unstarted
    <3> QED
      BY <3>1, <3>2
  <2>4. ASSUME NEW k \in Rungs, k > h PROVE Unstarted(k)'
    <3>1. k # h /\ k # p
      BY <1>2, <2>4 DEF Rungs
    <3> QED
      BY <1>2, <1>3, <3>1 DEF Unstarted
  <2>5. \A n \in DOMAIN trail' : trail'[n].rung <= h
    <3>1. winner <= h /\ loser <= h
      BY <1>2 DEF Rungs
    <3> QED
      BY <1>6, <3>1
  <2> QED
    BY <1>2, <1>3, <1>6, <1>7, <2>1, <2>3, <2>4, <2>5, Resumed DEF RouteInv, TypeOK
<1> QED
  BY <1>8, <1>9

LEMMA BothDoneInv ==
    ASSUME RouteInv, BothDone
    PROVE  RouteInv'
<1>0. At("race") /\ Done(Primary) /\ Done(Hedge) /\ UNCHANGED <<attempt, asked, chaos>>
  BY DEF BothDone
<1>1. PICK p \in Rungs, h \in Rungs : p = Primary /\ h = Hedge
  BY <1>0, RaceFacts
<1>2. \/ Final(p) /\ Settle(p, h)
      \/ ~ Final(p) /\ Settle(h, p)
  BY <1>1 DEF BothDone
<1>3. Done(p) /\ Done(h) /\ Rivals(p, h) /\ Rivals(h, p)
  BY <1>0, <1>1 DEF Rivals
<1>4. CASE Final(p) /\ Settle(p, h)
  <2>1. Final(p) \/ ~ Final(h)
    BY <1>4
  <2> QED
    BY <1>0, <1>1, <1>3, <1>4, <2>1, SettleInv
<1>5. CASE ~ Final(p) /\ Settle(h, p)
  BY <1>0, <1>1, <1>3, <1>5, SettleInv
<1> QED
  BY <1>2, <1>4, <1>5

\* Either of the two calls of a race and the other one.
LEMMA RaceRungs ==
    ASSUME RouteInv, At("race") \/ At("other"), NEW first, NEW other,
           Rivals(first, other)
    PROVE  /\ first \in Rungs /\ other \in Rungs /\ first # other
           /\ {first, other} = {Primary, Hedge}
           /\ \A k \in Rungs \ {first, other} : Unstarted(k)
  BY RaceFacts DEF Rivals

LEMMA FirstUsableInv ==
    ASSUME RouteInv, NEW first, NEW other,
           Rivals(first, other),
           FirstUsable(first, other)
    PROVE  RouteInv'
<1>0. At("race")
  BY DEF FirstUsable
<1>1. /\ first \in Rungs /\ other \in Rungs /\ first # other
      /\ \A k \in Rungs \ {first, other} : Unstarted(k)
  BY <1>0, RaceRungs
<1>2. /\ TypeOK /\ Calls /\ TrailSound /\ trail = <<>>
      /\ \A k \in Rungs : Done(k) => attempt[k].outcome \in Outcome
  BY <1>0, RaceFacts
<1>3. /\ Done(first) /\ Running(other) /\ Final(first) /\ Serve(first)
      /\ attempt' = [attempt EXCEPT ![other].step = "cancelled"]
      /\ trail' = Append(trail, Entry(first)) /\ asked' = asked /\ chaos' = chaos
  BY DEF FirstUsable
<1>4. /\ attempt' \in [Rungs -> Attempt]
      /\ attempt'[other] = [attempt[other] EXCEPT !.step = "cancelled"]
      /\ \A k \in Rungs \ {other} : attempt'[k] = attempt[k]
  BY <1>1, <1>2, <1>3 DEF TypeOK, Attempt, AttemptStep
<1>5. Calls'
  <2>1. CallShape(other)'
    BY <1>1, <1>2, <1>3, <1>4 DEF TypeOK, Attempt, Calls, CallShape, NotStarted, Running
  <2>2. \A k \in Rungs \ {other} : CallShape(k)'
    BY <1>2, <1>3, <1>4 DEF Calls, CallShape
  <2> QED
    BY <2>1, <2>2 DEF Calls
<1>6. Entry(first) \in TrailEntry /\ Entry(first)' = Entry(first) /\ Entry(first).rung = first
  BY <1>1, <1>2, <1>3, <1>4 DEF Entry, TrailEntry
<1>7. /\ trail' = <<Entry(first)>> /\ trail' \in Seq(TrailEntry)
      /\ DOMAIN trail' = {1} /\ trail'[1] = Entry(first)
  BY <1>2, <1>3, <1>6
<1>8. (Done(first) /\ Final(first))'
  BY <1>1, <1>3, <1>4 DEF Done, Final
<1>9. TrailSound' /\ Logged(first)'
  BY <1>6, <1>7, <1>8 DEF TrailSound, Logged
<1>10. ASSUME NEW k \in Rungs PROVE ~ Running(k)' /\ (Done(k)' => Logged(k)')
  <2>1. CASE k = first
    BY <1>8, <1>9, <2>1 DEF Running, Done
  <2>2. CASE k = other
    BY <1>2, <1>4, <2>2 DEF Running, Done, TypeOK, Attempt
  <2>3. CASE k \in Rungs \ {first, other}
    BY <1>1, <1>4, <2>3 DEF Running, Done, Unstarted, NotStarted
  <2> QED
    BY <2>1, <2>2, <2>3
<1>11. route' \in RouteState /\ Position'
  BY <1>1, <1>2, <1>3, <1>8, <1>10, Served
<1> QED
  BY <1>2, <1>3, <1>4, <1>5, <1>7, <1>9, <1>11 DEF RouteInv, TypeOK

LEMMA FirstFailedInv ==
    ASSUME RouteInv, NEW first, NEW other,
           Rivals(first, other),
           FirstFailed(first, other)
    PROVE  RouteInv'
<1>0. /\ At("race") /\ Done(first) /\ ~ Final(first)
      /\ route' = [route EXCEPT !.at = "other", !.rung = other]
      /\ attempt' = attempt /\ trail' = trail /\ asked' = asked /\ chaos' = chaos
  BY DEF FirstFailed
<1>1. first \in Rungs /\ other \in Rungs /\ {first, other} = {Primary, Hedge} /\ first # other
  BY <1>0, RaceRungs
<1>2. TypeOK /\ Calls /\ TrailSound /\ Racing /\ Underway(Primary) /\ Underway(Hedge)
  BY <1>0 DEF RouteInv, Position
<1>3. /\ route' \in RouteState /\ route'.at = "other" /\ route'.rung = other
      /\ route'.admitted = route.admitted
  BY <1>0, <1>1, <1>2 DEF TypeOK, RouteState, Place
<1>4. Primary' = Primary /\ Hedge' = Hedge
  BY <1>3 DEF Primary, Hedge
<1>5. Racing'
  BY <1>0, <1>2, <1>3, <1>4 DEF Racing, Unstarted
<1>6. Underway(Primary)' /\ Underway(Hedge)'
  BY <1>0, <1>2, <1>4 DEF Underway, Unstarted
<1>7. \A k \in {Primary, Hedge}' : k # route'.rung => Done(k)' /\ ~ Final(k)'
  BY <1>0, <1>1, <1>3, <1>4 DEF Done, Final
<1>8. Position'
  BY <1>1, <1>3, <1>4, <1>5, <1>6, <1>7 DEF Position, At
<1> QED
  BY <1>0, <1>2, <1>3, <1>8, CallsKept, TrailKept DEF RouteInv, TypeOK

LEMMA OtherDoneInv ==
    ASSUME RouteInv, NEW first, NEW other,
           Rivals(first, other),
           OtherDone(first, other)
    PROVE  RouteInv'
<1>0. /\ At("other") /\ route.rung = other /\ Done(other)
      /\ UNCHANGED <<attempt, asked, chaos>>
  BY DEF OtherDone
<1>1. first \in Rungs /\ other \in Rungs /\ {first, other} = {Primary, Hedge} /\ first # other
  BY <1>0, RaceRungs
<1>2. Done(first) /\ ~ Final(first)
  BY <1>0, <1>1 DEF RouteInv, Position
<1>6. Rivals(other, first)
  BY DEF Rivals
<1>3. \/ Final(other) /\ Settle(other, first)
      \/ ~ Final(other) /\ Settle(first, other)
  BY DEF OtherDone
<1>4. CASE Final(other) /\ Settle(other, first)
  <2>1. Final(other) \/ ~ Final(first)
    BY <1>4
  <2> QED
    BY <1>0, <1>1, <1>2, <1>4, <1>6, <2>1, SettleInv
<1>5. CASE ~ Final(other) /\ Settle(first, other)
  BY <1>0, <1>1, <1>2, <1>5, SettleInv
<1> QED
  BY <1>3, <1>4, <1>5

-----------------------------------------------------------------------------
\* No step of a request, and none of an operator, leaves the invariant.
LEMMA RouteStep == RouteInv /\ [Next]_vars => RouteInv'
<1> SUFFICES ASSUME RouteInv, [Next]_vars PROVE RouteInv'
  OBVIOUS
<1>1. CASE \E i \in Rungs : Attempting(i)
  BY <1>1, CallStepInv
<1>2. CASE Walk
  <2>1. CASE AllowsRaises
    BY <2>1, RaisedInv DEF AllowsRaises
  <2> QED
    BY <1>2, <2>1, WalkAdmittedInv, WalkRefusedInv, RungDoneInv DEF Walk
<1>3. CASE Hedged
  <2>1. CASE ScreenAdmitted
    BY <2>1, ScreenedInv DEF ScreenAdmitted
  <2>2. CASE ScreenRefused
    BY <2>2, ScreenedInv DEF ScreenRefused
  <2>3. ASSUME NEW first, NEW other, Race(first, other),
               Rivals(first, other)
        PROVE  RouteInv'
    BY <2>3, FirstUsableInv, FirstFailedInv, OtherDoneInv DEF Race
  <2>4. CASE PrimaryDone \/ FireHedge \/ BothDone
    BY <2>4, PrimaryDoneInv, FireHedgeInv, BothDoneInv
  <2>5. CASE Race(Primary, Hedge) \/ Race(Hedge, Primary)
    <3>1. PICK p, h : p = Primary /\ h = Hedge
      OBVIOUS
    <3>2. (Race(p, h) \/ Race(h, p)) /\ Rivals(p, h) /\ Rivals(h, p)
      BY <2>5, <3>1 DEF Rivals
    <3> QED
      BY <2>3, <3>1, <3>2
  <2> QED
    BY <1>3, <2>1, <2>2, <2>4, <2>5 DEF Hedged
<1>4. CASE AttemptRaised
  BY <1>4, RaisedInv DEF AttemptRaised
<1>5. CASE Operate
  <2>1. PICK i \in Rungs, fault \in Injectable \cup {None} :
          chaos' = [chaos EXCEPT ![i] = fault]
    BY <1>5 DEF Operate, SetChaos, ClearChaos
  <2>2. route' = route /\ attempt' = attempt /\ trail' = trail /\ asked' = asked
    BY <1>5 DEF Operate, SetChaos, ClearChaos
  <2>3. TypeOK'
    BY <2>1, <2>2 DEF RouteInv, TypeOK
  <2>4. Position'
    BY <2>2 DEF RouteInv, Position, At, Screening, Racing, Primary, Hedge, Underway, Unstarted,
                TrailBefore, PassedOver, Done, Final, Logged, Entry, Running
  <2> QED
    BY <2>2, <2>3, <2>4, CallsKept, TrailKept DEF RouteInv
<1>6. CASE UNCHANGED vars
  <2>1. route' = route /\ attempt' = attempt /\ trail' = trail /\ asked' = asked /\ chaos' = chaos
    BY <1>6 DEF vars
  <2>2. TypeOK'
    BY <2>1 DEF RouteInv, TypeOK
  <2>4. Position'
    BY <2>1 DEF RouteInv, Position, At, Screening, Racing, Primary, Hedge, Underway, Unstarted,
                TrailBefore, PassedOver, Done, Final, Logged, Entry, Running
  <2> QED
    BY <2>1, <2>2, <2>4, CallsKept, TrailKept DEF RouteInv
<1> QED
  BY <1>1, <1>2, <1>3, <1>4, <1>5, <1>6 DEF Next, Routing

LEMMA RouteInvariant == Spec => []RouteInv
  BY RouteInit, RouteStep, PTL DEF Spec

\* Type correctness of route()'s local variables, the calls, the trail and the faults.
THEOREM TypeCorrect == Spec => []TypeOK
<1>1. RouteInv => TypeOK
  BY DEF RouteInv
<1> QED
  BY <1>1, RouteInvariant, PTL

\* A call is in the trail of a finished request exactly once, if it came back
\* (router.py:138, 92), however the two calls of a race ended.
THEOREM AlwaysTrailTellsCalls == Spec => []TrailTellsCalls
<1>1. RouteInv => TrailTellsCalls
  <2> SUFFICES ASSUME RouteInv, route.at \in {"served", "exhausted"}, NEW i \in Rungs
               PROVE  Cardinality({n \in DOMAIN trail : trail[n] = Entry(i)})
                        = IF Done(i) THEN 1 ELSE 0
    BY DEF TrailTellsCalls
  <2> DEFINE named == {n \in DOMAIN trail : trail[n] = Entry(i)}
  <2>1. TypeOK /\ Calls /\ TrailSound /\ Position
    BY DEF RouteInv
  <2>2. CASE Done(i)
    <3>1. Logged(i)
      BY <2>1, <2>2 DEF Position, At, PassedOver, Done, Unstarted, NotStarted
    <3>2. PICK m \in DOMAIN trail : trail[m] = Entry(i)
      BY <3>1 DEF Logged
    <3>3. \A n \in named : n = m
      BY <2>1, <3>2 DEF TrailSound
    <3>4. named = {m}
      BY <3>2, <3>3
    <3> QED
      BY <2>2, <3>4, FS_Singleton
  <2>3. CASE ~ Done(i)
    <3>1. ASSUME NEW n \in named PROVE FALSE
      <4>1. trail[n].rung = i /\ trail[n].outcome = attempt[i].outcome
        BY DEF Entry
      <4>2. attempt[i].outcome # Skipped
        BY <2>1 DEF TypeOK, Attempt, Outcome, Skipped, None
      <4> QED
        BY <2>1, <2>3, <4>1, <4>2 DEF TrailSound
    <3>2. named = {}
      BY <3>1
    <3> QED
      BY <2>3, <3>2, FS_EmptySet
  <2> QED
    BY <2>2, <2>3
<1> QED
  BY <1>1, RouteInvariant, PTL

\* The walk, the screening and the race together leave no rung of the ladder out
\* before it is given up (router.py:82, 128, 156).
THEOREM AlwaysNoRungForgotten == Spec => []NoRungForgotten
<1>1. RouteInv => NoRungForgotten
  BY DEF RouteInv, Position, NoRungForgotten, PassedOver
<1> QED
  BY <1>1, RouteInvariant, PTL

\* A provider is only called when its breaker let it through (router.py:84, 207).
THEOREM AlwaysCallsAdmitted == Spec => []CallsAdmitted
<1>1. RouteInv => CallsAdmitted
  BY DEF RouteInv, Calls, CallShape, CallsAdmitted
<1> QED
  BY <1>1, RouteInvariant, PTL

\* An injected fault is recorded as the outcome that was asked for (chaos.py,
\* providers.py:135), whatever operators do while the call is on its way.
THEOREM AlwaysInjectionExact == Spec => []InjectionExact
<1>1. RouteInv => InjectionExact
  BY DEF RouteInv, Calls, CallShape, InjectionExact
<1> QED
  BY <1>1, RouteInvariant, PTL

LEMMA HasLast ==
    ASSUME NEW size \in Nat, NEW places, places \subseteq 1 .. size, places # {}
    PROVE  \E n \in places : \A k \in places : n >= k
<1> DEFINE behind == {size - n : n \in places}
<1>1. behind \subseteq Nat /\ behind # {}
  <2>1. \A n \in places : size - n \in Nat /\ size - n \in behind
    OBVIOUS
  <2> QED
    BY <2>1
<1>2. PICK least \in behind : \A b \in behind : ~ <<b, least>> \in OpToRel(<, Nat)
  BY <1>1, NatLessThanWellFounded, WFMin
<1>3. PICK n \in places : least = size - n
  BY <1>2
<1>4. ASSUME NEW k \in places PROVE n >= k
  <2>1. ~ (size - k < size - n)
    BY <1>1, <1>2, <1>3 DEF OpToRel
  <2> QED
    BY <2>1
<1> QED
  BY <1>4

\* What last_failure finds in the trail of an exhausted ladder.
LEMMA LastFailureCalled ==
    ASSUME RouteInv, At("exhausted")
    PROVE  \/ LastFailure = Skipped /\ \A i \in Rungs : Unstarted(i)
           \/ /\ LastFailure \in Outcome \ {"ok"} /\ Trippable(LastFailure)
              /\ \E i \in Rungs : ~ Unstarted(i)
<1> DEFINE ran == {n \in DOMAIN trail : trail[n].outcome # Skipped}
           last == CHOOSE n \in ran : \A k \in ran : n >= k
<1>1. TypeOK /\ Calls /\ TrailSound /\ \A i \in Rungs : PassedOver(i)
  BY DEF RouteInv, Position
<1>2. CASE ran = {}
  <2>1. ASSUME NEW i \in Rungs PROVE Unstarted(i)
    <3>1. ~ Logged(i) \/ ~ Done(i)
      BY <1>1, <1>2 DEF Logged, Entry, TypeOK, Attempt, Calls, CallShape, Done, Outcome, None, Skipped
    <3> QED
      BY <1>1, <3>1 DEF PassedOver
  <2> QED
    BY <1>2, <2>1 DEF LastFailure
<1>3. CASE ran # {}
  <2>1. last \in ran
    <3>1. DOMAIN trail = 1 .. Len(trail) /\ Len(trail) \in Nat
      BY <1>1, LenProperties DEF TypeOK
    <3>2. \E n \in ran : \A k \in ran : n >= k
      BY <1>3, <3>1, HasLast
    <3> QED
      BY <3>2
  <2>2. LastFailure = trail[last].outcome
    BY <1>3 DEF LastFailure
  <2>3. PICK i \in Rungs : Done(i) /\ trail[last] = Entry(i)
    BY <1>1, <2>1, TrailRungs DEF TrailSound, TypeOK
  <2>4. LastFailure = attempt[i].outcome /\ ~ Final(i) /\ ~ Unstarted(i)
    BY <1>1, <2>2, <2>3 DEF PassedOver, Entry, Unstarted, NotStarted, Done
  <2>5. attempt[i].outcome \in Outcome
    BY <1>1, <2>3 DEF TypeOK, Attempt, Calls, CallShape, Done
  <2> QED
    BY <2>4, <2>5 DEF Final, Ok
<1> QED
  BY <1>2, <1>3

\* What the caller is told is what happened (main.py:422-456): 503 only when no
\* provider was called, 400 only when one found fault with the request, and no
\* verdict is an internal error.
THEOREM AlwaysStatusTellsTruth == Spec => []StatusTellsTruth
<1>1. RouteInv => StatusTellsTruth
  <2> SUFFICES ASSUME RouteInv PROVE StatusTellsTruth
    OBVIOUS
  <2>1. TypeOK /\ Calls
    BY DEF RouteInv
  <2>2. CASE At("served")
    <3>1. PICK i \in Rungs : i = route.rung /\ Done(i) /\ Final(i)
      BY <2>1, <2>2 DEF RouteInv, Position, TypeOK, RouteState
    <3>2. attempt[i].outcome \in Outcome
      BY <2>1, <3>1 DEF TypeOK, Attempt, Calls, CallShape, Done
    <3>3. CASE Ok(attempt[i].outcome)
      <4>1. Status = 200
        BY <2>2, <3>1, <3>3 DEF Status, At
      <4> QED
        BY <2>2, <4>1 DEF StatusTellsTruth, At
    <3>4. CASE ~ Ok(attempt[i].outcome)
      <4>1. Status = StatusOf(attempt[i].outcome)
        BY <2>2, <3>1, <3>4 DEF Status, At
      <4>2. Status \notin {500, 503} /\ (Status = 400 => ~ Trippable(attempt[i].outcome))
        BY <3>2, <3>4, <4>1, StatusOfFailure DEF Ok
      <4> QED
        BY <2>2, <3>1, <3>4, <4>2 DEF StatusTellsTruth, At
    <3> QED
      BY <3>3, <3>4
  <2>3. CASE At("exhausted")
    <3>1. CASE LastFailure = Skipped /\ \A i \in Rungs : Unstarted(i)
      <4>1. Status = 503
        BY <2>3, <3>1 DEF Status, At
      <4> QED
        BY <2>3, <3>1, <4>1 DEF StatusTellsTruth, At, Unstarted
    <3>2. CASE /\ LastFailure \in Outcome \ {"ok"} /\ Trippable(LastFailure)
               /\ \E i \in Rungs : ~ Unstarted(i)
      <4>1. LastFailure # Skipped
        BY <3>2 DEF Outcome, Skipped
      <4>2. Status = StatusOf(LastFailure)
        BY <2>3, <4>1 DEF Status, At
      <4>3. Status \notin {500, 503} /\ Status # 400
        BY <3>2, <4>2, StatusOfFailure
      <4> QED
        BY <2>3, <3>2, <4>3 DEF StatusTellsTruth, At, Unstarted
    <3> QED
      BY <2>3, <3>1, <3>2, LastFailureCalled
  <2>4. CASE ~ At("served") /\ ~ At("exhausted")
    <3>1. Status = 500
      BY <2>4 DEF Status
    <3> QED
      BY <2>4, <3>1 DEF StatusTellsTruth, At
  <2> QED
    BY <2>2, <2>3, <2>4
<1> QED
  BY <1>1, RouteInvariant, PTL
=============================================================================
