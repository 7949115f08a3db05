------------------------- MODULE HealthWindowProofs -------------------------
(***************************************************************************)
(* Facts about the window's operators, for any size of window and any        *)
(* outcomes and latencies.  The components that hold a window cite them.     *)
(***************************************************************************)
EXTENDS HealthWindow, FiniteSetTheorems, TLAPS

\* A window is a finite set of samples.
IsWindow(w) == w \subseteq Sample /\ IsFiniteSet(w)

\* A key that does not exist is a window.
LEMMA EmptyWindow == IsWindow({})
  BY FS_EmptySet DEF IsWindow

\* What a snapshot reads of a window is a window.
LEMMA VisibleWindow ==
    ASSUME NEW w, IsWindow(w), NEW lag \in Nat
    PROVE  Visible(w, lag) \subseteq w /\ IsWindow(Visible(w, lag))
<1>1. Visible(w, lag) \subseteq w
  BY DEF Visible
<1> QED
  BY <1>1, FS_Subset DEF IsWindow

\* Recording a call (health.record) leaves what a snapshot by the same clock would
\* have read, and the call: eviction and the readers' filter agree on the edge of the
\* window, so no member is too old and none that still counts is thrown away.
LEMMA AddWindow ==
    ASSUME NEW w, IsWindow(w), NEW result \in Results, NEW lag \in Nat
    PROVE  /\ IsWindow(Add(w, result, lag))
           /\ Add(w, result, lag) = Visible(w, lag) \cup {NewSample(w, result, lag)}
           /\ \A s \in Add(w, result, lag) : s.age < Window + lag
           /\ \A s \in Add(w, result, lag) : s \in w \/ s.result = result
<1> DEFINE same == {s \in w : s.result = result /\ s.age = lag}
           new == NewSample(w, result, lag)
<1>1. Cardinality(same) \in Nat
  <2>1. same \in SUBSET w
    OBVIOUS
  <2>2. IsFiniteSet(same)
    BY <2>1, FS_Subset DEF IsWindow
  <2> QED
    BY <2>2, FS_CardinalityType
<1>2. new = [result |-> result, age |-> lag, token |-> Cardinality(same)]
  BY DEF NewSample
<1>3. new \in Sample /\ new.result = result
  BY <1>1, <1>2 DEF Sample
<1>4. new.age < Window + lag
  BY <1>2, WindowAssumption
<1> HIDE DEF new
<1>5. Add(w, result, lag) = Visible(w, lag) \cup {new}
  BY <1>4 DEF Add, Evict, Visible, new
<1>6. IsWindow(Visible(w, lag) \cup {new})
  BY <1>3, VisibleWindow, FS_AddElement DEF IsWindow
<1>7. \A s \in Visible(w, lag) \cup {new} :
        s.age < Window + lag /\ (s \in w \/ s.result = result)
  BY <1>3, <1>4 DEF Visible
<1> QED
  BY <1>5, <1>6, <1>7 DEF new

\* Time passing makes a window of the same calls, older.
LEMMA AdvanceWindow ==
    ASSUME NEW w, IsWindow(w)
    PROVE  /\ IsWindow(Advance(w))
           /\ \A s \in Advance(w) : \E t \in w : s.result = t.result
<1> DEFINE older == [s \in w |-> [s EXCEPT !.age = @ + 1]]
<1>1. \A s \in w : /\ older[s] \in Sample
                   /\ older[s].result = s.result
  BY DEF IsWindow, Sample
<1>2. Older(w) = {older[s] : s \in w}
  BY DEF Older
<1>3. older \in Surjection(w, Older(w))
  BY <1>2 DEF Surjection
<1>4. IsFiniteSet(Older(w))
  BY <1>3, FS_Surjection DEF IsWindow
<1>5. Advance(w) \in SUBSET Older(w)
  BY DEF Advance
<1>6. IsFiniteSet(Advance(w))
  BY <1>4, <1>5, FS_Subset
<1> QED
  BY <1>1, <1>2, <1>5, <1>6 DEF IsWindow

\* A 95th percentile over the budget means some call was over it: interpolating
\* between two latencies within the budget never leaves it.
LEMMA P95NeedsSlow ==
    ASSUME NEW w, IsWindow(w), NEW budget \in Nat, P95Exceeds(w, budget)
    PROVE  \E s \in w : s.result.latency > budget
<1>1. Cardinality(w) \in Nat
  BY FS_CardinalityType DEF IsWindow
<1> DEFINE delta == (95 * (Cardinality(w) - 1)) % 100
<1>2. delta \in 0 .. 99
  BY <1>1
<1>3. PICK lo, hi \in w :
        lo.result.latency * (100 - delta) + hi.result.latency * delta > 100 * budget
  BY DEF P95Exceeds
<1>4. lo.result.latency \in Nat /\ hi.result.latency \in Nat
  BY ResultsAssumption DEF IsWindow, Sample, Result
<1> HIDE DEF delta
<1>5. ASSUME lo.result.latency <= budget, hi.result.latency <= budget
      PROVE  FALSE
  <2>1. lo.result.latency * (100 - delta) <= budget * (100 - delta)
    BY <1>2, <1>4, <1>5
  <2>2. hi.result.latency * delta <= budget * delta
    BY <1>2, <1>4, <1>5
  <2>3. budget * (100 - delta) + budget * delta = 100 * budget
    BY <1>2
  <2> QED
    BY <1>2, <1>3, <1>4, <2>1, <2>2, <2>3
<1> QED
  BY <1>4, <1>5
=============================================================================
