------------------------------- MODULE Health -------------------------------
(***************************************************************************)
(* The sorted set of one provider as a shared store: any number of writers  *)
(* (the gateway's requests and the worker's jobs) capture the clock and then *)
(* write, so members arrive with older scores than others already there,    *)
(* and each write evicts by its own clock.  The key also has an expiry of    *)
(* its own, renewed by every write.  `log` is the truth the store is held   *)
(* to: how many calls were recorded, by result and age.                     *)
(***************************************************************************)
EXTENDS HealthWindow

CONSTANTS
    Writers,
    MaxSamples     \* bound: members in the key plus writes on their way

ASSUME WritersAssumption == IsFiniteSet(Writers)
ASSUME MaxSamplesAssumption == MaxSamples \in Nat

VARIABLES
    store,         \* the members of health:<provider>
    quiet,         \* time since the last EXPIRE
    pending,       \* pending[w]: the call w is about to record, and its clock
    log            \* ghost: log[r][a] calls with result r were stamped a ago

vars == <<store, quiet, pending, log>>

NoCall == [lag |-> -1]
Call == [result : Results, lag : 0 .. MaxLag]
Ages == 0 .. (Window + MaxLag)
KeyTTL == 2 * Window
NoLog == [result \in Results |-> [age \in Ages |-> 0]]

Busy == {w \in Writers : pending[w] # NoCall}

Init ==
    /\ store = {}
    /\ quiet = 0
    /\ pending = [w \in Writers |-> NoCall]
    /\ log = NoLog

\* A call ends; record() captures now_ms.
Stamp(w, result) ==
    /\ pending[w] = NoCall
    /\ Cardinality(store) + Cardinality(Busy) < MaxSamples
    /\ pending' = [pending EXCEPT ![w] = [result |-> result, lag |-> 0]]
    /\ UNCHANGED <<store, quiet, log>>

\* The pipeline runs in Redis.
RecordNoRenewal(w) ==
    LET call == pending[w] IN
    /\ call # NoCall
    /\ store' = Add(store, call.result, call.lag)
    /\ log' = [log EXCEPT ![call.result][call.lag] = @ + 1]
    /\ pending' = [pending EXCEPT ![w] = NoCall]
    /\ UNCHANGED quiet
Record(w) ==
    LET call == pending[w] IN
    /\ call # NoCall
    /\ store' = Add(store, call.result, call.lag)
    /\ log' = [log EXCEPT ![call.result][call.lag] = @ + 1]
    /\ pending' = [pending EXCEPT ![w] = NoCall]
    /\ quiet' = 0

\* The breaker's DEL when it starts probing.
Clear ==
    /\ store # {}
    /\ store' = {}
    /\ log' = NoLog
    /\ UNCHANGED <<quiet, pending>>

\* Time passes for the members, the key's expiry and every captured clock.
TickNoExpiry ==
    /\ \A w \in Writers : pending[w].lag < MaxLag
    /\ quiet' = IF quiet < KeyTTL THEN quiet + 1 ELSE quiet
    /\ store' = Older(store)
    /\ pending' = [w \in Writers |->
                     IF pending[w] = NoCall THEN NoCall
                     ELSE [pending[w] EXCEPT !.lag = @ + 1]]
    /\ log' = [result \in Results |-> [age \in Ages |-> IF age = 0 THEN 0 ELSE log[result][age - 1]]]
Tick ==
    /\ \A w \in Writers : pending[w].lag < MaxLag
    /\ quiet' = IF quiet < KeyTTL THEN quiet + 1 ELSE quiet
    /\ store' = IF quiet' = KeyTTL THEN {} ELSE Older(store)
    /\ pending' = [w \in Writers |->
                     IF pending[w] = NoCall THEN NoCall
                     ELSE [pending[w] EXCEPT !.lag = @ + 1]]
    /\ log' = [result \in Results |-> [age \in Ages |-> IF age = 0 THEN 0 ELSE log[result][age - 1]]]

Next ==
    \/ \E w \in Writers : (\E result \in Results : Stamp(w, result)) \/ Record(w)
    \/ Clear
    \/ Tick

Spec == Init /\ [][Next]_vars

-----------------------------------------------------------------------------
TypeOK ==
    /\ store \subseteq Sample
    /\ quiet \in 0 .. KeyTTL
    /\ pending \in [Writers -> Call \cup {NoCall}]
    /\ log \in [Results -> [Ages -> Nat]]

Seen(lag, result, age) ==
    Cardinality({s \in Visible(store, lag) : s.result = result /\ s.age = age})

\* A snapshot (health.snapshot) counts every call stamped inside the window
\* exactly once, and with a fresh clock counts no older one: neither the eviction
\* of a writer with another clock, nor the key's expiry, nor two calls alike in
\* the same instant lose a call, and a provider that went quiet is not judged on
\* the samples it still holds.  A reader with an older clock may also miss
\* nothing inside the window.
SnapshotExact ==
    \A lag \in 0 .. MaxLag, result \in Results, age \in Ages :
        /\ age < Window => Seen(lag, result, age) = log[result][age]
        /\ age >= Window /\ lag = 0 => Seen(lag, result, age) = 0

\* Nothing outlives the window by more than the key's expiry: the memory of a
\* provider nobody calls any more is given back (EXPIRE in health.record).
QuietKeyExpires == \A s \in store : s.age < Window + MaxLag + KeyTTL
=============================================================================
