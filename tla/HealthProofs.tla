---------------------------- MODULE HealthProofs ----------------------------
(***************************************************************************)
(* The shared window of Health counts every call exactly once and is given   *)
(* back, for any writers, results, window and clocks.                        *)
(*                                                                          *)
(* A count of members is out of reach of an induction, so the invariant says *)
(* which members there are: those of one result and age are numbered from 0  *)
(* by their tokens, without a gap.  A write adds the next number and an      *)
(* eviction takes whole ages away, so the number of a group is all there is  *)
(* to keep track of.                                                         *)
(***************************************************************************)
EXTENDS Health, FiniteSetTheorems, TLAPS

Member(result, age, token) == [result |-> result, age |-> age, token |-> token]

Group(w, result, age) == {s \in w : s.result = result /\ s.age = age}

\* The members of this result and age bear the tokens 0 .. n-1.
Numbered(w, result, age, n) ==
    \A token \in Nat : Member(result, age, token) \in w <=> token < n

\* Inside the window the numbers are those of the calls recorded; further out
\* a group is as it was recorded, or gone.
Complete ==
    \A result \in Results, age \in Nat :
        \E n \in Nat : /\ Numbered(store, result, age, n)
                       /\ age < Window => n = log[result][age]

\* No call is recorded without renewing the expiry, so none is more recent.
Renewed == \A result \in Results, age \in Ages : log[result][age] > 0 => age >= quiet

\* A member outlives the reach of every eviction only while the key is quiet,
\* and the key of a store that has members has not expired.
Kept ==
    /\ quiet = KeyTTL => store = {}
    /\ \A s \in store : s.age < Window + MaxLag + quiet

HealthInv == TypeOK /\ Complete /\ Renewed /\ Kept
-----------------------------------------------------------------------------
(* Groups and their numbers. *)

\* A group has as many members as its numbers say.
LEMMA GroupCount ==
    ASSUME NEW w, w \subseteq Sample, NEW result \in Results, NEW age \in Nat,
           NEW n \in Nat, Numbered(w, result, age, n)
    PROVE  IsFiniteSet(Group(w, result, age)) /\ Cardinality(Group(w, result, age)) = n
<1> DEFINE tokens == 0 .. (n - 1)
           member == [token \in tokens |-> Member(result, age, token)]
<1>1. IsFiniteSet(tokens) /\ Cardinality(tokens) = n
  <2>1. n - 1 \in Int /\ (0 > n - 1 <=> n = 0) /\ n - 1 - 0 + 1 = n
    OBVIOUS
  <2> QED
    BY <2>1, FS_Interval
<1>2. \A s \in Group(w, result, age) : s.token \in tokens /\ s = Member(result, age, s.token)
  <2> TAKE s \in Group(w, result, age)
  <2>1. s \in w /\ s.token \in Nat /\ s = Member(result, age, s.token)
    BY DEF Group, Sample, Member
  <2> QED
    BY <2>1 DEF Numbered
<1>3. \A token \in tokens : Member(result, age, token) \in Group(w, result, age)
  BY DEF Numbered, Group, Member
<1> HIDE DEF tokens
<1>4. member \in Bijection(tokens, Group(w, result, age))
  <2>1. member \in [tokens -> Group(w, result, age)]
    BY <1>3
  <2>2. \A t, u \in tokens : member[t] = member[u] => t = u
    BY DEF Member
  <2>3. \A s \in Group(w, result, age) : \E t \in tokens : member[t] = s
    BY <1>2
  <2> HIDE DEF member
  <2> QED
    BY <2>1, <2>2, <2>3 DEF Bijection, Injection, IsInjective, Surjection
<1> QED
  BY <1>1, <1>4, FS_Bijection DEF ExistsBijection

\* A call recorded gets the number after the last of its group; an eviction
\* leaves a group whole or takes all of it.
LEMMA AddNumbers ==
    ASSUME NEW w, w \subseteq Sample, NEW result \in Results, NEW lag \in Nat,
           NEW n \in Nat, Numbered(w, result, lag, n)
    PROVE  /\ Add(w, result, lag) \subseteq Sample
           /\ Numbered(Add(w, result, lag), result, lag, n + 1)
           /\ \A r \in Results, age \in Nat, m \in Nat :
                /\ (r # result \/ age # lag)
                /\ Numbered(w, r, age, m)
                => Numbered(Add(w, result, lag), r, age, IF age < Window + lag THEN m ELSE 0)
           /\ \A s \in Add(w, result, lag) : s.age < Window + lag
<1> DEFINE new == Member(result, lag, n)
<1>1. NewSample(w, result, lag) = new
  BY GroupCount DEF NewSample, Group, Member
<1>2. Add(w, result, lag) = {s \in w \cup {new} : s.age < Window + lag}
  BY <1>1 DEF Add, Evict
<1>3. new \in Sample /\ new.age = lag /\ lag < Window + lag
  BY WindowAssumption DEF Sample, Member
<1>4. Add(w, result, lag) \subseteq Sample /\ \A s \in Add(w, result, lag) : s.age < Window + lag
  BY <1>2, <1>3
<1>5. \A r, age, token : Member(r, age, token) \in Add(w, result, lag)
        <=> /\ Member(r, age, token) \in w \/ (r = result /\ age = lag /\ token = n)
            /\ age < Window + lag
  BY <1>2 DEF Member
<1> HIDE DEF new
<1>6. Numbered(Add(w, result, lag), result, lag, n + 1)
  BY <1>3, <1>5 DEF Numbered
<1>7. ASSUME NEW r \in Results, NEW age \in Nat, NEW m \in Nat,
             r # result \/ age # lag, Numbered(w, r, age, m)
      PROVE  Numbered(Add(w, result, lag), r, age, IF age < Window + lag THEN m ELSE 0)
  <2>1. \A token \in Nat : Member(r, age, token) \in Add(w, result, lag)
                             <=> token < m /\ age < Window + lag
    BY <1>5, <1>7 DEF Numbered
  <2> QED
    BY <2>1 DEF Numbered
<1> QED
  BY <1>4, <1>6, <1>7

\* Time moves every group on by one age, and leaves none at age 0.
LEMMA OlderNumbers ==
    ASSUME NEW w, w \subseteq Sample
    PROVE  /\ Older(w) \subseteq Sample
           /\ \A result \in Results : Numbered(Older(w), result, 0, 0)
           /\ \A result \in Results, age \in Nat, n \in Nat :
                Numbered(w, result, age, n) => Numbered(Older(w), result, age + 1, n)
           /\ \A s \in Older(w) : \E t \in w : s.age = t.age + 1
<1>1. \A t \in w : /\ t.result \in Results /\ t.age \in Nat /\ t.token \in Nat
                   /\ t = Member(t.result, t.age, t.token)
  BY DEF Sample, Member
<1>2. \A s : s \in Older(w) <=> \E t \in w : s = Member(t.result, t.age + 1, t.token)
  <2>1. ASSUME NEW t \in w PROVE [t EXCEPT !.age = @ + 1] = Member(t.result, t.age + 1, t.token)
    <3>1. t \in Sample
      OBVIOUS
    <3> QED
      BY <3>1 DEF Sample, Member
  <2>2. \A s : s \in Older(w) <=> \E t \in w : s = [t EXCEPT !.age = @ + 1]
    BY Zenon DEF Older
  <2> TAKE s
  <2>3. ASSUME s \in Older(w) PROVE \E t \in w : s = Member(t.result, t.age + 1, t.token)
    <3>1. PICK t \in w : s = [t EXCEPT !.age = @ + 1]
      BY <2>2, <2>3
    <3> QED
      BY <2>1, <3>1
  <2>4. ASSUME NEW t \in w, s = Member(t.result, t.age + 1, t.token) PROVE s \in Older(w)
    BY <2>1, <2>2, <2>4, Zenon
  <2> QED
    BY <2>3, <2>4
<1>3. Older(w) \subseteq Sample /\ \A s \in Older(w) : \E t \in w : s.age = t.age + 1
  BY <1>1, <1>2 DEF Member, Sample
<1>4. \A result, age, token : Member(result, age, token) \in Older(w)
        <=> \E t \in w : result = t.result /\ age = t.age + 1 /\ token = t.token
  <2>1. \A r1, a1, t1, r2, a2, t2 : Member(r1, a1, t1) = Member(r2, a2, t2)
                                      <=> r1 = r2 /\ a1 = a2 /\ t1 = t2
    BY DEF Member
  <2> QED
    BY <1>2, <2>1
<1>5. \A result \in Results : Numbered(Older(w), result, 0, 0)
  BY <1>1, <1>4 DEF Numbered
<1>6. ASSUME NEW result \in Results, NEW age \in Nat, NEW n \in Nat,
             Numbered(w, result, age, n)
      PROVE  Numbered(Older(w), result, age + 1, n)
  <2>1. \A token \in Nat : Member(result, age + 1, token) \in Older(w)
                             <=> Member(result, age, token) \in w
    <3> TAKE token \in Nat
    <3>1. ASSUME Member(result, age + 1, token) \in Older(w)
          PROVE  Member(result, age, token) \in w
      <4>1. PICK t \in w : result = t.result /\ age + 1 = t.age + 1 /\ token = t.token
        BY ONLY <1>4, <3>1
      <4>2. t.age = age
        BY <1>1, <4>1
      <4> QED
        BY <1>1, <4>1, <4>2
    <3>2. ASSUME Member(result, age, token) \in w
          PROVE  Member(result, age + 1, token) \in Older(w)
      BY <1>4, <3>2 DEF Member
    <3> QED
      BY <3>1, <3>2
  <2> QED
    BY <1>6, <2>1 DEF Numbered
<1> QED
  BY <1>3, <1>5, <1>6

\* A key that is not there has no group.
LEMMA NoNumbers == \A result, age : Numbered({}, result, age, 0)
  BY DEF Numbered

-----------------------------------------------------------------------------
(* The invariant. *)

\* What the bounds and the clocks of the module are.
LEMMA Bounds ==
    /\ Window \in Nat \ {0} /\ MaxLag \in Nat /\ KeyTTL \in Nat /\ Window < KeyTTL
    /\ 0 .. MaxLag \subseteq Ages /\ 0 .. (Window - 1) \subseteq Ages /\ Ages \subseteq Nat
  BY WindowAssumption, MaxLagAssumption DEF KeyTTL, Ages

LEMMA HealthInvInit == Init => HealthInv
<1> SUFFICES ASSUME Init PROVE HealthInv
  OBVIOUS
<1>1. TypeOK
  BY Bounds DEF Init, TypeOK, NoLog
<1>2. Complete
  <2> SUFFICES ASSUME NEW result \in Results, NEW age \in Nat
               PROVE  /\ Numbered(store, result, age, 0)
                      /\ age < Window => 0 = log[result][age]
    BY DEF Complete
  <2>1. age < Window => age \in Ages
    BY Bounds
  <2> QED
    BY <2>1, NoNumbers DEF Init, NoLog
<1>3. Renewed /\ Kept
  BY Bounds DEF Init, Renewed, Kept, NoLog
<1> QED
  BY <1>1, <1>2, <1>3 DEF HealthInv

\* A write.
LEMMA RecordKeeps ==
    ASSUME HealthInv, NEW w \in Writers, Record(w)
    PROVE  HealthInv'
<1>1. PICK result \in Results, lag \in 0 .. MaxLag : pending[w] = [result |-> result, lag |-> lag]
  BY DEF HealthInv, TypeOK, Call, Record
<1>2. /\ TypeOK /\ store \subseteq Sample /\ lag \in Nat /\ lag \in Ages /\ lag < Window + MaxLag + KeyTTL
      /\ store' = Add(store, result, lag)
      /\ log' = [log EXCEPT ![result][lag] = @ + 1]
      /\ pending' = [pending EXCEPT ![w] = NoCall]
      /\ quiet' = 0
  BY <1>1, Bounds DEF HealthInv, TypeOK, Record
<1>3. PICK n \in Nat : /\ Numbered(store, result, lag, n)
                       /\ lag < Window => n = log[result][lag]
  BY <1>2 DEF HealthInv, Complete
<1>4. /\ log' \in [Results -> [Ages -> Nat]]
      /\ log'[result][lag] = log[result][lag] + 1
      /\ \A r \in Results, age \in Ages : (r # result \/ age # lag) => log'[r][age] = log[r][age]
  BY <1>2 DEF TypeOK
<1>5. TypeOK'
  <2>1. store' \subseteq Sample
    BY <1>2, <1>3, AddNumbers
  <2> QED
    BY <1>2, <1>4, <2>1, Bounds DEF TypeOK
<1>6. Complete'
  <2> SUFFICES ASSUME NEW r \in Results, NEW age \in Nat
               PROVE  \E m \in Nat : /\ Numbered(store', r, age, m)
                                     /\ age < Window => m = log'[r][age]
    BY DEF Complete, Numbered
  <2>1. CASE r = result /\ age = lag
    <3>1. Numbered(store', r, age, n + 1)
      BY <1>2, <1>3, <2>1, AddNumbers
    <3>2. age < Window => n + 1 = log'[r][age]
      BY <1>3, <1>4, <2>1
    <3> QED
      BY <3>1, <3>2
  <2>2. CASE r # result \/ age # lag
    <3>1. PICK m \in Nat : /\ Numbered(store, r, age, m)
                           /\ age < Window => m = log[r][age]
      BY DEF HealthInv, Complete
    <3> DEFINE left == IF age < Window + lag THEN m ELSE 0
    <3>2. Numbered(store', r, age, left)
      BY <1>2, <1>3, <2>2, <3>1, AddNumbers
    <3>3. age < Window => left = log'[r][age]
      BY <1>2, <1>4, <2>2, <3>1, Bounds
    <3> QED
      BY <3>2, <3>3
  <2> QED
    BY <2>1, <2>2
<1>7. Renewed'
  BY <1>2, Bounds DEF Renewed
<1>8. Kept'
  <2>1. \A s \in store' : s.age \in Nat /\ s.age < Window + lag
    BY <1>2, <1>3, <1>5, AddNumbers DEF TypeOK, Sample
  <2> QED
    BY <1>2, <2>1, Bounds DEF Kept
<1> QED
  BY <1>5, <1>6, <1>7, <1>8 DEF HealthInv

\* A deleted key.
LEMMA ClearKeeps ==
    ASSUME HealthInv, Clear
    PROVE  HealthInv'
<1>1. /\ TypeOK /\ store' = {} /\ quiet' = quiet /\ pending' = pending
      /\ log' = NoLog
  BY DEF HealthInv, Clear
<1>2. TypeOK'
  BY <1>1, Bounds DEF TypeOK, NoLog
<1>3. Complete'
  <2> SUFFICES ASSUME NEW result \in Results, NEW age \in Nat
               PROVE  /\ Numbered(store', result, age, 0)
                      /\ age < Window => 0 = log'[result][age]
    BY DEF Complete, Numbered
  <2>1. age < Window => age \in Ages
    BY Bounds
  <2> QED
    BY <1>1, <2>1, NoNumbers DEF NoLog
<1>4. Renewed' /\ Kept'
  BY <1>1 DEF HealthInv, Renewed, Kept, NoLog
<1> QED
  BY <1>2, <1>3, <1>4 DEF HealthInv

\* What a tick does to the record of calls.
LEMMA TickLog ==
    ASSUME HealthInv, Tick
    PROVE  /\ log' \in [Results -> [Ages -> Nat]]
           /\ \A result \in Results : log'[result][0] = 0
           /\ \A result \in Results, age \in Ages :
                age # 0 => age - 1 \in Ages /\ log'[result][age] = log[result][age - 1]
<1>1. TypeOK /\ log' = [result \in Results |-> [age \in Ages |-> IF age = 0 THEN 0 ELSE log[result][age - 1]]]
  BY DEF HealthInv, Tick
<1>2. \A age \in Ages : age # 0 => age - 1 \in Ages
  BY Bounds DEF Ages
<1>3. 0 \in Ages
  BY Bounds
<1>4. \A result \in Results, age \in Ages :
        log'[result][age] = IF age = 0 THEN 0 ELSE log[result][age - 1]
  BY <1>1
<1>5. \A result \in Results, age \in Ages : log'[result][age] \in Nat
  BY <1>1, <1>2, <1>4 DEF TypeOK
<1>6. log' \in [Results -> [Ages -> Nat]]
  BY <1>1, <1>5
<1> QED
  BY <1>2, <1>3, <1>4, <1>6

\* Time passes.
LEMMA TickKeeps ==
    ASSUME HealthInv, Tick
    PROVE  HealthInv'
<1>1. /\ TypeOK /\ \A w \in Writers : pending[w].lag < MaxLag
      /\ quiet' = IF quiet < KeyTTL THEN quiet + 1 ELSE quiet
      /\ store' = IF quiet' = KeyTTL THEN {} ELSE Older(store)
      /\ pending' = [w \in Writers |-> IF pending[w] = NoCall THEN NoCall
                                       ELSE [pending[w] EXCEPT !.lag = @ + 1]]
  BY DEF HealthInv, Tick
<1>2. quiet \in 0 .. KeyTTL /\ quiet' \in 0 .. KeyTTL /\ store \subseteq Sample
  BY <1>1, Bounds DEF TypeOK
<1>3. TypeOK'
  <2>1. store' \subseteq Sample
    BY <1>1, <1>2, OlderNumbers
  <2>2. ASSUME NEW w \in Writers PROVE pending'[w] \in Call \cup {NoCall}
    <3>1. CASE pending[w] = NoCall
      BY <1>1, <3>1
    <3>2. CASE pending[w] # NoCall
      <4>1. pending[w] \in Call /\ pending[w].lag \in 0 .. MaxLag /\ pending[w].lag < MaxLag
        BY <1>1, <3>2 DEF TypeOK, Call
      <4>2. pending'[w] = [pending[w] EXCEPT !.lag = pending[w].lag + 1]
        BY <1>1, <3>2
      <4> QED
        BY <4>1, <4>2, Bounds DEF Call
    <3> QED
      BY <3>1, <3>2
  <2> QED
    BY <1>1, <1>2, <2>1, <2>2, TickLog DEF TypeOK
<1>4. Renewed'
  <2> SUFFICES ASSUME NEW result \in Results, NEW age \in Ages, log'[result][age] > 0
               PROVE  age >= quiet'
    BY DEF Renewed
  <2>1. age # 0 /\ age - 1 \in Ages /\ log[result][age - 1] > 0
    BY TickLog
  <2>2. age - 1 >= quiet
    BY <2>1 DEF HealthInv, Renewed
  <2> QED
    BY <1>1, <1>2, <2>1, <2>2, Bounds
<1>5. Complete'
  <2> SUFFICES ASSUME NEW result \in Results, NEW age \in Nat
               PROVE  \E n \in Nat : /\ Numbered(store', result, age, n)
                                     /\ age < Window => n = log'[result][age]
    BY DEF Complete, Numbered
  <2>1. CASE quiet' = KeyTTL
    <3>1. Numbered(store', result, age, 0)
      BY <1>1, <2>1, NoNumbers
    <3>2. ASSUME age < Window PROVE 0 = log'[result][age]
      <4>1. age \in Ages /\ ~ (age >= quiet')
        BY <2>1, <3>2, Bounds
      <4>2. ~ (log'[result][age] > 0) /\ log'[result][age] \in Nat
        BY <1>4, <4>1, TickLog DEF Renewed
      <4> QED
        BY <4>2
    <3> QED
      BY <3>1, <3>2
  <2>2. CASE quiet' # KeyTTL
    <3>1. store' = Older(store)
      BY <1>1, <2>2
    <3>2. CASE age = 0
      <4>1. Numbered(store', result, age, 0) /\ log'[result][age] = 0
        BY <1>2, <3>1, <3>2, OlderNumbers, TickLog
      <4> QED
        BY <4>1
    <3>3. CASE age # 0
      <4>1. PICK before \in Nat : age = before + 1
        BY <3>3
      <4>2. PICK n \in Nat : /\ Numbered(store, result, before, n)
                             /\ before < Window => n = log[result][before]
        BY DEF HealthInv, Complete
      <4>3. Numbered(store', result, age, n)
        BY <1>2, <3>1, <4>1, <4>2, OlderNumbers
      <4>4. age < Window => n = log'[result][age]
        <5>1. age < Window => age \in Ages /\ age # 0 /\ age - 1 = before /\ before < Window
          BY <4>1, Bounds
        <5> QED
          BY <4>2, <5>1, TickLog
      <4> QED
        BY <4>3, <4>4
    <3> QED
      BY <3>2, <3>3
  <2> QED
    BY <2>1, <2>2
<1>6. Kept'
  <2>1. quiet' = KeyTTL => store' = {}
    BY <1>1
  <2>2. ASSUME NEW s \in store' PROVE s.age < Window + MaxLag + quiet'
    <3>1. store' = Older(store) /\ quiet' # KeyTTL
      BY <1>1, <2>2
    <3>2. PICK t \in store : s.age = t.age + 1
      BY <1>2, <2>2, <3>1, OlderNumbers
    <3>3. t.age \in Nat /\ t.age < Window + MaxLag + quiet
      BY <1>2 DEF HealthInv, Kept, Sample
    <3>4. quiet' = quiet + 1
      BY <1>1, <1>2, <3>1, Bounds
    <3> QED
      BY <1>2, <3>2, <3>3, <3>4, Bounds
  <2> QED
    BY <2>1, <2>2 DEF Kept
<1> QED
  BY <1>3, <1>4, <1>5, <1>6 DEF HealthInv

LEMMA HealthInvNext == HealthInv /\ [Next]_vars => HealthInv'
<1> SUFFICES ASSUME HealthInv, [Next]_vars PROVE HealthInv'
  OBVIOUS
<1>1. ASSUME NEW w \in Writers, NEW result \in Results, Stamp(w, result) PROVE HealthInv'
  <2>1. /\ pending' = [pending EXCEPT ![w] = [result |-> result, lag |-> 0]]
        /\ store' = store /\ quiet' = quiet /\ log' = log
    BY <1>1 DEF Stamp
  <2>2. TypeOK'
    BY <2>1, Bounds DEF HealthInv, TypeOK, Call
  <2> QED
    BY <2>1, <2>2 DEF HealthInv, Complete, Numbered, Renewed, Kept
<1>2. CASE UNCHANGED vars
  BY <1>2 DEF vars, HealthInv, TypeOK, Complete, Numbered, Renewed, Kept
<1> QED
  BY <1>1, <1>2, RecordKeeps, ClearKeeps, TickKeeps DEF Next

LEMMA HealthInvariant == Spec => []HealthInv
  BY HealthInvInit, HealthInvNext, PTL DEF Spec

-----------------------------------------------------------------------------
(* What it means for a snapshot. *)

LEMMA CompleteIsExact == HealthInv => SnapshotExact
<1> SUFFICES ASSUME HealthInv, NEW lag \in 0 .. MaxLag, NEW result \in Results, NEW age \in Ages
             PROVE  /\ age < Window => Seen(lag, result, age) = log[result][age]
                    /\ age >= Window /\ lag = 0 => Seen(lag, result, age) = 0
  BY DEF SnapshotExact
<1>1. store \subseteq Sample /\ age \in Nat /\ lag \in Nat
  BY Bounds DEF HealthInv, TypeOK
<1>2. ASSUME age < Window PROVE Seen(lag, result, age) = log[result][age]
  <2>1. {s \in Visible(store, lag) : s.result = result /\ s.age = age} = Group(store, result, age)
    BY <1>1, <1>2, Bounds DEF Visible, Group
  <2>2. PICK n \in Nat : Numbered(store, result, age, n) /\ n = log[result][age]
    BY <1>1, <1>2 DEF HealthInv, Complete
  <2> QED
    BY <1>1, <2>1, <2>2, GroupCount DEF Seen
<1>3. ASSUME age >= Window, lag = 0 PROVE Seen(lag, result, age) = 0
  <2>1. {s \in Visible(store, lag) : s.result = result /\ s.age = age} = {}
    BY <1>1, <1>3, Bounds DEF Visible
  <2> QED
    BY <2>1, FS_EmptySet DEF Seen
<1> QED
  BY <1>2, <1>3

\* Every member, expiry, clock and record has the shape the code gives it.
THEOREM TypeCorrect == Spec => []TypeOK
  BY HealthInvariant, PTL DEF HealthInv

\* Whatever writers with clocks of their own do to a provider's sorted set
\* (health.record, health.py), a snapshot counts each call stamped inside the window
\* exactly once, and a fresh one no call from outside it.
THEOREM AlwaysSnapshotExact == Spec => []SnapshotExact
  BY HealthInvariant, CompleteIsExact, PTL

\* The members of a provider nobody calls are given back by the key's expiry
\* (EXPIRE in health.record), however many there are and whoever wrote them.
THEOREM AlwaysQuietKeyExpires == Spec => []QuietKeyExpires
<1>1. HealthInv => QuietKeyExpires
  BY Bounds DEF HealthInv, TypeOK, Kept, QuietKeyExpires, Sample
<1> QED
  BY <1>1, HealthInvariant, PTL
=============================================================================
