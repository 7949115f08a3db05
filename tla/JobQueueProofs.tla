--------------------------- MODULE JobQueueProofs ---------------------------
(***************************************************************************)
(* Theorems about JobQueue for any number of jobs and workers, any retry     *)
(* budget, delays and expiry, with workers that go down at any command.      *)
(***************************************************************************)
EXTENDS JobQueue, SequenceTheorems, TLAPS

USE DEF NoTime

-----------------------------------------------------------------------------
(* Type correctness. *)

LEMMA IdleType == Idle \in WorkerState
  BY DEF Idle, WorkerState, Step

LEMMA ReturnType ==
    ASSUME TypeOK, NEW w \in Workers, Return(w)
    PROVE  worker' \in [Workers -> WorkerState]
  BY IdleType DEF TypeOK, Return

LEMMA UpdatedType ==
    ASSUME TypeOK, NEW j \in Jobs, NEW status \in Status, NEW attempts \in Nat
    PROVE  Updated(j, status, attempts) \in Hash
<1>1. hash[j] \in Hash
  BY DEF TypeOK
<1>2. CASE hash[j] = Absent
  BY <1>2 DEF Updated, Hash
<1>3. CASE hash[j] # Absent
  BY <1>1, <1>3 DEF Updated, Hash
<1> QED
  BY <1>2, <1>3

LEMMA UpdateType ==
    ASSUME TypeOK, NEW j \in Jobs, NEW status \in Status, Update(j, status)
    PROVE  hash' \in [Jobs -> Hash]
<1>1. hash[j].attempts \in Nat
  BY DEF TypeOK, Hash
<1> QED
  BY <1>1, UpdatedType DEF TypeOK, Update

LEMMA WithoutType ==
    ASSUME NEW queue \in Seq(Jobs), NEW j \in Jobs
    PROVE  Without(queue, j) \in Seq(Jobs)
<1>1. CASE \E i \in DOMAIN queue : queue[i] = j
  <2>1. PICK i \in DOMAIN queue :
          Without(queue, j) = SubSeq(queue, 1, i - 1) \o SubSeq(queue, i + 1, Len(queue))
    BY <1>1 DEF Without
  <2>2. i \in 1 .. Len(queue) /\ Len(queue) \in Nat
    BY LenProperties
  <2>3. SubSeq(queue, 1, i - 1) \in Seq(Jobs)
    BY <2>2, SubSeqProperties
  <2>4. SubSeq(queue, i + 1, Len(queue)) \in Seq(Jobs)
    BY <2>2, SubSeqProperties
  <2> QED
    BY <2>1, <2>3, <2>4, ConcatProperties
<1>2. CASE ~ \E i \in DOMAIN queue : queue[i] = j
  BY <1>2 DEF Without
<1> QED
  BY <1>1, <1>2

\* Every worker past its Pop holds a job; needed to know that it writes one's hash.
BusyHolds == \A w \in Workers : worker[w].step # "idle" => worker[w].job \in Jobs

TypeInv == TypeOK /\ BusyHolds

LEMMA TypeInit == Init => TypeInv
<1> SUFFICES ASSUME Init PROVE TypeInv
  OBVIOUS
<1>1. hash \in [Jobs -> Hash]
  BY DEF Init, Absent, Hash
<1>2. worker \in [Workers -> WorkerState]
  BY IdleType DEF Init
<1>3. dlq \in Seq(Jobs)
  BY EmptySeq DEF Init
<1> QED
  BY <1>1, <1>2, <1>3 DEF Init, TypeInv, TypeOK, BusyHolds, Idle

LEMMA WorkerType ==
    ASSUME TypeOK, NEW w \in Workers, NEW v \in WorkerState, worker' = [worker EXCEPT ![w] = v]
    PROVE  worker' \in [Workers -> WorkerState] /\ worker'[w] = v
  BY DEF TypeOK

\* A worker that goes on to another command keeps its type.
LEMMA GoesOnType ==
    ASSUME NEW v \in WorkerState, NEW step \in Step, NEW attempts \in Nat, NEW due \in Nat
    PROVE  /\ [v EXCEPT !.step = step] \in WorkerState
           /\ [v EXCEPT !.step = step, !.attempts = attempts] \in WorkerState
           /\ [v EXCEPT !.step = step, !.due = due] \in WorkerState
  BY DEF WorkerState

LEMMA RequeueType ==
    ASSUME TypeInv, NEW w \in Workers, NEW step, step # "idle", NEW attempts \in Nat,
           NEW delayFor, Requeue(w, step, attempts, delayFor)
    PROVE  TypeInv'
<1> USE DEF TypeInv, BusyHolds
<1>1. worker[w].job \in Jobs
  BY DEF Requeue, At
<1>2. Updated(worker[w].job, "queued", attempts) \in Hash
  BY <1>1, UpdatedType DEF Status
<1>3. hash' \in [Jobs -> Hash]
  BY <1>2 DEF Requeue, TypeOK
<1>4. PICK delay \in 0 .. DelayCeiling(delayFor) :
        worker' = [worker EXCEPT ![w] = [@ EXCEPT !.step = "reschedule", !.due = delay]]
  BY DEF Requeue
<1>5. delay \in Nat /\ "reschedule" \in Step /\ worker[w] \in WorkerState
  BY <1>4 DEF Step, TypeOK
<1>6. worker' \in [Workers -> WorkerState]
  <2>1. [worker[w] EXCEPT !.step = "reschedule", !.due = delay] \in WorkerState
    BY <1>5, GoesOnType, 0 \in Nat
  <2> QED
    BY <1>4, <2>1, WorkerType
<1>7. BusyHolds'
  BY <1>1, <1>4 DEF TypeOK, WorkerState
<1> QED
  BY <1>3, <1>6, <1>7 DEF Requeue, TypeOK

LEMMA TypeNext == TypeInv /\ [Next]_vars => TypeInv'
<1> SUFFICES ASSUME TypeInv, [Next]_vars PROVE TypeInv'
  OBVIOUS
<1> USE DEF TypeInv, BusyHolds
<1>1. ASSUME NEW j \in Jobs, Enqueue(j) PROVE TypeInv'
  <2>1. hash' \in [Jobs -> Hash]
    BY <1>1, JobTTLAssumption DEF Enqueue, TypeOK, Hash, Status
  <2> QED
    BY <1>1, <2>1 DEF Enqueue, TypeOK
<1>2. ASSUME NEW w \in Workers, Pop(w) PROVE TypeInv'
  <2>1. PICK j \in Queued :
          /\ ready' = [ready EXCEPT ![j] = NoTime]
          /\ worker' = [worker EXCEPT ![w] = [Idle EXCEPT
                          !.step = IF ready[j] > 0 THEN "putback" ELSE "get",
                          !.job = j, !.due = ready[j]]]
          /\ UNCHANGED <<hash, dlq, accepted, tries, dropped>>
    BY <1>2 DEF Pop
  <2>2. j \in Jobs /\ ready[j] \in Nat
    BY DEF Queued, TypeOK
  <2>3. worker' \in [Workers -> WorkerState]
    BY <2>1, <2>2 DEF TypeOK, Idle, WorkerState, Step
  <2> QED
    BY <2>1, <2>2, <2>3 DEF TypeOK, WorkerState, Idle
<1>3. ASSUME NEW w \in Workers, PutBack(w) \/ Reschedule(w) PROVE TypeInv'
  <2>1. worker[w].job \in Jobs /\ worker[w].due \in Nat
    BY <1>3 DEF PutBack, Reschedule, At, TypeOK, WorkerState
  <2>2. ready' \in [Jobs -> Nat \cup {NoTime}]
    BY <1>3, <2>1 DEF PutBack, Reschedule, TypeOK
  <2> QED
    BY <1>3, <2>2, ReturnType DEF PutBack, Reschedule, TypeOK, Return, Idle
<1>4. ASSUME NEW w \in Workers, Get(w) PROVE TypeInv'
  <2>1. CASE Return(w)
    BY <1>4, <2>1, ReturnType DEF Get, TypeOK, Return, Idle
  <2>2. CASE ~ Return(w)
    <3>1. hash[worker[w].job].attempts \in Nat
      BY <1>4 DEF Get, At, TypeOK, Hash
    <3>2. worker' = [worker EXCEPT ![w] = [@ EXCEPT
                       !.step = "claim", !.attempts = hash[worker[w].job].attempts]]
      BY <1>4, <2>2 DEF Get
    <3>3. worker' \in [Workers -> WorkerState]
      <4>1. worker[w] \in WorkerState /\ "claim" \in Step /\ 0 \in Nat
        BY DEF TypeOK, Step
      <4>2. [worker[w] EXCEPT !.step = "claim", !.attempts = hash[worker[w].job].attempts]
              \in WorkerState
        BY <3>1, <4>1, GoesOnType
      <4> QED
        BY <3>2, <4>2, WorkerType
    <3> QED
      BY <1>4, <3>2, <3>3 DEF Get, At, TypeOK, WorkerState
  <2> QED
    BY <2>1, <2>2
<1>5. ASSUME NEW w \in Workers, Claim(w) PROVE TypeInv'
  <2>1. hash' \in [Jobs -> Hash]
    BY <1>5, UpdateType DEF Claim, At, Status
  <2>2. worker' \in [Workers -> WorkerState] /\ BusyHolds'
    BY <1>5 DEF Claim, At, TypeOK, WorkerState, Step
  <2> QED
    BY <1>5, <2>1, <2>2 DEF Claim, TypeOK
<1>6. ASSUME NEW w \in Workers, Route(w) PROVE TypeInv'
  <2> DEFINE Next1 == IF worker[w].attempts + 1 >= MaxAttempts THEN "bury" ELSE "retry"
  <2>0. \/ worker' = [worker EXCEPT ![w].step = "complete"]
        \/ worker' = [worker EXCEPT ![w].step = "fail"]
        \/ worker' = [worker EXCEPT ![w].step = "defer"]
        \/ worker' = [worker EXCEPT ![w].step = Next1]
    BY <1>6 DEF Route
  <2>1. PICK step \in {"complete", "fail", "defer", "bury", "retry"} :
          worker' = [worker EXCEPT ![w].step = step]
    BY <2>0
  <2>2. worker' \in [Workers -> WorkerState] /\ BusyHolds'
    <3>1. worker[w].job \in Jobs
      BY <1>6 DEF Route, At
    <3> QED
      BY <2>1, <3>1 DEF TypeOK, WorkerState, Step
  <2>3. tries' \in [Jobs -> Nat]
    BY <1>6 DEF Route, At, TypeOK
  <2> QED
    BY <1>6, <2>2, <2>3 DEF Route, TypeOK
<1>7. ASSUME NEW w \in Workers, Complete(w) \/ Fail(w) PROVE TypeInv'
  <2>0. PICK status \in Terminal : Update(worker[w].job, status) /\ worker[w].job \in Jobs
    BY <1>7 DEF Complete, Fail, At, Terminal
  <2>1. hash' \in [Jobs -> Hash]
    BY <2>0, UpdateType DEF Status
  <2>2. Return(w) /\ UNCHANGED <<ready, dlq, accepted, tries, dropped>>
    BY <1>7 DEF Complete, Fail
  <2>3. worker' \in [Workers -> WorkerState] /\ BusyHolds'
    BY <2>2, ReturnType DEF TypeOK, Return, Idle
  <2> QED
    BY <2>1, <2>2, <2>3 DEF TypeOK
<1>8. ASSUME NEW w \in Workers, Retry(w) \/ Defer(w) PROVE TypeInv'
  <2>1. worker[w].attempts \in Nat /\ worker[w].attempts + 1 \in Nat
    BY DEF TypeOK, WorkerState
  <2> QED
    BY <1>8, <2>1, RequeueType DEF Retry, Defer
<1>9. ASSUME NEW w \in Workers, Bury(w) PROVE TypeInv'
  <2>1. hash' \in [Jobs -> Hash]
    BY <1>9, UpdateType DEF Bury, At, Status, Terminal
  <2>2. worker' \in [Workers -> WorkerState] /\ BusyHolds'
    BY <1>9 DEF Bury, At, TypeOK, WorkerState, Step
  <2> QED
    BY <1>9, <2>1, <2>2 DEF Bury, TypeOK
<1>10. ASSUME NEW w \in Workers, FileDead(w) PROVE TypeInv'
  <2>1. worker[w].job \in Jobs
    BY <1>10 DEF FileDead, At
  <2>2. Without(dlq, worker[w].job) \in Seq(Jobs)
    BY <2>1, WithoutType DEF TypeOK
  <2>3. dlq' \in Seq(Jobs)
    BY <1>10, <2>1, <2>2, AppendProperties DEF FileDead
  <2> QED
    BY <1>10, <2>3, ReturnType DEF FileDead, TypeOK, Return, Idle
<1>11. ASSUME NEW w \in Workers, Drop(w) PROVE TypeInv'
  BY <1>11, ReturnType DEF Drop, TypeOK, Return, Idle, WorkerState
<1>12. CASE Tick
  <2>1. \A n \in Nat \cup {NoTime} : Sooner(n) \in Nat \cup {NoTime}
    BY DEF Sooner
  <2>2. hash' \in [Jobs -> Hash]
    BY <1>12, <2>1 DEF Tick, TypeOK, Hash, Absent
  <2>3. worker' \in [Workers -> WorkerState] /\ BusyHolds'
    <3>1. \A w \in Workers : Sooner(worker[w].due) \in Nat
      BY DEF Sooner, TypeOK, WorkerState
    <3>2. worker' = [w \in Workers |-> [worker[w] EXCEPT !.due = Sooner(worker[w].due)]]
      BY <1>12 DEF Tick
    <3> QED
      BY <3>1, <3>2 DEF TypeOK, WorkerState
  <2> QED
    BY <1>12, <2>1, <2>2, <2>3 DEF Tick, TypeOK
<1>13. CASE UNCHANGED vars
  BY <1>13 DEF vars, TypeOK
<1> QED
  BY <1>1, <1>2, <1>3, <1>4, <1>5, <1>6, <1>7, <1>8, <1>9, <1>10, <1>11, <1>12, <1>13
     DEF Next, PopDue, Run

LEMMA TypeInvariant == Spec => []TypeInv
  BY TypeInit, TypeNext, PTL DEF Spec

\* Every reachable hash, score and local variable of a worker has its type.
THEOREM TypeCorrect == Spec => []TypeOK
<1>1. TypeInv => TypeOK
  BY DEF TypeInv
<1> QED
  BY <1>1, TypeInvariant, PTL

-----------------------------------------------------------------------------
(* Ownership. *)

\* SingleOwner needs that only accepted jobs are queued or held: otherwise an
\* Enqueue could queue a job a worker has.
Owner ==
    /\ SingleOwner
    /\ \A j \in Queued : j \in accepted
    /\ \A w \in Workers : worker[w].job # NoJob => worker[w].job \in accepted

\* Steps that neither queue a job nor hand one to a worker.
LEMMA OwnerKept ==
    ASSUME Owner, accepted' = accepted,
           \A j \in Jobs : ready'[j] = NoTime <=> ready[j] = NoTime,
           \A w \in Workers : worker'[w].job \in {worker[w].job, NoJob},
           TypeInv
    PROVE  Owner'
<1>1. \A w \in Workers : worker'[w].job # NoJob => worker'[w].job = worker[w].job
  OBVIOUS
<1>2. \A w \in Workers : worker[w].job # NoJob => worker[w].job \in Jobs
  BY DEF TypeInv, TypeOK, WorkerState
<1>3. SingleOwner'
  BY <1>1, <1>2 DEF Owner, SingleOwner
<1>4. Queued' = Queued
  BY DEF Queued
<1> QED
  BY <1>1, <1>3, <1>4 DEF Owner

\* What a worker's step from one command to the next does to what it holds.
LEMMA JobKept ==
    ASSUME TypeInv, NEW w \in Workers,
           \/ Get(w) \/ Claim(w) \/ Route(w) \/ Complete(w) \/ Fail(w) \/ Retry(w) \/ Defer(w)
           \/ Bury(w) \/ FileDead(w) \/ Drop(w)
    PROVE  /\ \A v \in Workers : worker'[v].job \in {worker[v].job, NoJob}
           /\ \A v \in Workers \ {w} : worker'[v] = worker[v]
           /\ ready' = ready /\ accepted' = accepted
<1> DEFINE Moved(v) == /\ worker' = [worker EXCEPT ![w] = v]
                       /\ v.job \in {worker[w].job, NoJob}
<1>1. ASSUME NEW v, Moved(v) PROVE /\ \A u \in Workers : worker'[u].job \in {worker[u].job, NoJob}
                                  /\ \A u \in Workers \ {w} : worker'[u] = worker[u]
  BY <1>1 DEF TypeInv, TypeOK
<1>2. worker[w] \in WorkerState
  BY DEF TypeInv, TypeOK
<1>3. ready' = ready /\ accepted' = accepted
  BY DEF Get, Claim, Route, Complete, Fail, Retry, Defer, Requeue, Bury, FileDead, Drop
<1>4. Return(w) => Moved(Idle)
  BY DEF Return, Idle
<1>5. ASSUME NEW step, worker' = [worker EXCEPT ![w].step = step]
      PROVE  Moved([worker[w] EXCEPT !.step = step])
  BY <1>2, <1>5 DEF WorkerState
<1>6. CASE Get(w)
  <2>1. CASE Return(w)
    BY <1>1, <1>3, <1>4, <2>1
  <2>2. CASE \E n : worker' = [worker EXCEPT ![w] = [@ EXCEPT !.step = "claim", !.attempts = n]]
    <3>1. PICK n : worker' = [worker EXCEPT ![w] = [@ EXCEPT !.step = "claim", !.attempts = n]]
      BY <2>2
    <3>2. Moved([worker[w] EXCEPT !.step = "claim", !.attempts = n])
      BY <1>2, <3>1 DEF WorkerState
    <3> QED
      BY <1>1, <1>3, <3>2
  <2> QED
    BY <1>6, <2>1, <2>2 DEF Get
<1>7. CASE Claim(w) \/ Bury(w)
  <2>1. PICK step : worker' = [worker EXCEPT ![w].step = step]
    BY <1>7 DEF Claim, Bury
  <2> QED
    BY <1>1, <1>3, <1>5, <2>1
<1>8. CASE Route(w)
  <2>1. PICK step : worker' = [worker EXCEPT ![w].step = step]
    BY <1>8 DEF Route
  <2> QED
    BY <1>1, <1>3, <1>5, <2>1
<1>9. CASE Complete(w) \/ Fail(w) \/ FileDead(w) \/ Drop(w)
  <2>1. Return(w)
    BY <1>9 DEF Complete, Fail, FileDead, Drop
  <2> QED
    BY <1>1, <1>3, <1>4, <2>1
<1>10. CASE Retry(w) \/ Defer(w)
  <2>1. PICK delay : worker' = [worker EXCEPT ![w] = [@ EXCEPT !.step = "reschedule", !.due = delay]]
    BY <1>10 DEF Retry, Defer, Requeue
  <2>2. Moved([worker[w] EXCEPT !.step = "reschedule", !.due = delay])
    BY <1>2, <2>1 DEF WorkerState
  <2> QED
    BY <1>1, <1>3, <2>2
<1> QED
  BY <1>6, <1>7, <1>8, <1>9, <1>10

LEMMA OwnerNext == TypeInv /\ Owner /\ [Next]_vars => Owner'
<1> SUFFICES ASSUME TypeInv, Owner, [Next]_vars PROVE Owner'
  OBVIOUS
<1>1. ASSUME NEW j \in Jobs, Enqueue(j) PROVE Owner'
  <2>1. j \notin accepted /\ accepted' = accepted \cup {j} /\ worker' = worker
        /\ ready' = [ready EXCEPT ![j] = 0]
    BY <1>1 DEF Enqueue
  <2>2. \A w \in Workers : worker[w].job # j \/ worker[w].job = NoJob
    BY <2>1 DEF Owner
  <2>3. j # NoJob
    BY NoJobAssumption
  <2>4. SingleOwner'
    BY <2>1, <2>2, <2>3 DEF Owner, SingleOwner, TypeInv, TypeOK
  <2> QED
    BY <2>1, <2>4 DEF Owner, Queued, TypeInv, TypeOK
<1>2. ASSUME NEW w \in Workers, Pop(w) PROVE Owner'
  <2>1. PICK j \in Queued :
          /\ ready' = [ready EXCEPT ![j] = NoTime]
          /\ worker' = [worker EXCEPT ![w] = [Idle EXCEPT
                          !.step = IF ready[j] > 0 THEN "putback" ELSE "get",
                          !.job = j, !.due = ready[j]]]
          /\ accepted' = accepted
    BY <1>2 DEF Pop
  <2>2. worker'[w].job = j /\ (\A v \in Workers \ {w} : worker'[v] = worker[v])
    BY <2>1 DEF TypeInv, TypeOK, Idle
  <2>3. j \in Jobs /\ ready[j] # NoTime /\ j \in accepted
    BY DEF Queued, Owner
  <2>4. \A v \in Workers \ {w} : worker[v].job # j
    BY <2>3, NoJobAssumption DEF Owner, SingleOwner
  <2>5. SingleOwner'
    BY <2>1, <2>2, <2>3, <2>4 DEF Owner, SingleOwner, TypeInv, TypeOK, WorkerState
  <2> QED
    BY <2>1, <2>2, <2>3, <2>5 DEF Owner, Queued, TypeInv, TypeOK
<1>3. ASSUME NEW w \in Workers, PutBack(w) \/ Reschedule(w) PROVE Owner'
  <2>1. /\ worker[w].job \in Jobs
        /\ ready' = [ready EXCEPT ![worker[w].job] = worker[w].due]
        /\ worker' = [worker EXCEPT ![w] = Idle]
        /\ accepted' = accepted
    BY <1>3 DEF PutBack, Reschedule, At, Return, TypeInv, BusyHolds
  <2>2. worker'[w].job = NoJob /\ \A v \in Workers \ {w} : worker'[v] = worker[v]
    BY <2>1 DEF TypeInv, TypeOK, Idle
  <2>3. \A v \in Workers \ {w} : worker[v].job # worker[w].job
    BY <2>1, NoJobAssumption DEF Owner, SingleOwner
  <2>4. SingleOwner'
    BY <2>1, <2>2, <2>3 DEF Owner, SingleOwner, TypeInv, TypeOK, WorkerState
  <2>5. worker[w].job \in accepted
    BY <2>1, NoJobAssumption DEF Owner
  <2> QED
    BY <2>1, <2>2, <2>4, <2>5 DEF Owner, Queued, TypeInv, TypeOK
<1>4. ASSUME NEW w \in Workers,
             \/ Get(w) \/ Claim(w) \/ Route(w) \/ Complete(w) \/ Fail(w) \/ Retry(w) \/ Defer(w)
             \/ Bury(w) \/ FileDead(w) \/ Drop(w)
      PROVE  Owner'
  BY <1>4, JobKept, OwnerKept
<1>5. CASE Tick
  <2>1. /\ \A j \in Jobs : ready'[j] = NoTime <=> ready[j] = NoTime
        /\ accepted' = accepted
    BY <1>5 DEF Tick, Sooner, TypeInv, TypeOK
  <2>2. \A w \in Workers : worker'[w].job = worker[w].job
    BY <1>5 DEF Tick, TypeInv, TypeOK, WorkerState
  <2> QED
    BY <2>1, <2>2, OwnerKept
<1>6. CASE UNCHANGED vars
  BY <1>6, OwnerKept DEF vars
<1> QED
  BY <1>1, <1>2, <1>3, <1>4, <1>5, <1>6 DEF Next, PopDue, Run

LEMMA OwnerInvariant == Spec => []Owner
<1>1. Init => Owner
  BY DEF Init, Owner, SingleOwner, Queued, Idle
<1> QED
  BY <1>1, OwnerNext, TypeInvariant, PTL DEF Spec

\* Any number of workers can drain the queue: no job is ever with two of them, nor
\* with one and in the queue.
THEOREM AlwaysSingleOwner == Spec => []SingleOwner
<1>1. Owner => SingleOwner
  BY DEF Owner
<1> QED
  BY <1>1, OwnerInvariant, PTL

-----------------------------------------------------------------------------
(* What every job can count on: its attempts are counted, it is not lost, and *)
(* JobQueue implements Deferred.                                             *)

\* What a job's hash says while the job is live: not finished, and its failures counted.
Live(j) == hash[j].whole => hash[j].status \notin Terminal
Counted(j) == hash[j].whole => hash[j].attempts = tries[j] /\ tries[j] < MaxAttempts

\* What holds of job j when the next command of w is about it.
HeldBy(w, j) ==
    LET step == worker[w].step
        attempts == worker[w].attempts
    IN  /\ step # "file" => Live(j)
        /\ step \in {"putback", "get", "reschedule"} => Counted(j)
        /\ step \in {"claim", "run", "complete", "fail", "defer"} =>
             Counted(j) /\ attempts = tries[j] /\ tries[j] < MaxAttempts
        /\ step = "retry" => attempts + 1 = tries[j] /\ tries[j] < MaxAttempts
        /\ step \in {"bury", "file"} => tries[j] = MaxAttempts
        /\ step = "file" => (hash[j].whole => hash[j].status = "dead")

Filed(j) == \E i \in DOMAIN dlq : dlq[i] = j
SomebodyHolds(j) == \E w \in Workers : Holds(w, j)

\* Only a job that is finished, filed or dropped is with nobody.
Accounted(j) ==
    hash[j].whole /\ j \notin dropped =>
        /\ hash[j].status \notin Terminal => ready[j] # NoTime \/ SomebodyHolds(j)
        /\ hash[j].status = "dead" => Filed(j) \/ SomebodyHolds(j)

Fate(j) ==
    /\ tries[j] <= MaxAttempts
    /\ j \notin accepted => tries[j] = 0 /\ ~ hash[j].whole
    /\ ready[j] # NoTime => Live(j) /\ Counted(j)
    /\ \A w \in Workers : Holds(w, j) => HeldBy(w, j)
    /\ hash[j].whole /\ hash[j].status = "dead" => tries[j] = MaxAttempts
    /\ Accounted(j)

\* A worker that has returned holds nothing.
Resting == \A w \in Workers : At(w, "idle") => worker[w].job = NoJob

JobInv == TypeInv /\ Owner /\ Resting /\ \A j \in Jobs : Fate(j)

LEMMA JobInit == Init => JobInv
<1> SUFFICES ASSUME Init PROVE JobInv
  OBVIOUS
<1>1. TypeInv
  BY TypeInit
<1>2. Owner
  BY DEF Init, Owner, SingleOwner, Queued, Idle
<1>3. Resting
  BY DEF Init, Resting, Idle
<1>4. ASSUME NEW j \in Jobs PROVE Fate(j)
  BY NoJobAssumption, MaxAttemptsAssumption
     DEF Init, Fate, Absent, Idle, Holds, Accounted, Live, Counted
<1> QED
  BY <1>1, <1>2, <1>3, <1>4 DEF JobInv

\* A job that a step does not touch.
LEMMA FateKept ==
    ASSUME NEW j \in Jobs, Fate(j),
           hash'[j] = hash[j], ready'[j] = ready[j], tries'[j] = tries[j],
           accepted' = accepted \/ j \in accepted, accepted \subseteq accepted',
           dropped \subseteq dropped', Filed(j) => Filed(j)',
           \A w \in Workers : /\ Holds(w, j)' <=> Holds(w, j)
                              /\ Holds(w, j) => worker'[w] = worker[w]
    PROVE  Fate(j)'
<1>1. \A w \in Workers : Holds(w, j)' => HeldBy(w, j)'
  BY DEF Fate, HeldBy, Live, Counted
<1>2. Accounted(j)'
  BY DEF Fate, Accounted, SomebodyHolds
<1> QED
  BY <1>1, <1>2 DEF Fate, Live, Counted

\* The job of a worker that is not idle: nobody else has it, and it is not queued.
LEMMA InHand ==
    ASSUME JobInv, NEW w \in Workers, ~ At(w, "idle"), NEW j, j = worker[w].job
    PROVE  /\ j \in Jobs /\ Holds(w, j) /\ ready[j] = NoTime /\ j \in accepted
           /\ \A v \in Workers \ {w} : ~ Holds(v, j)
           /\ Fate(j) /\ HeldBy(w, j)
           /\ hash[j] \in Hash /\ tries[j] \in Nat /\ worker[w].attempts \in Nat
           /\ worker[w].due \in Nat
<1>1. j \in Jobs /\ j # NoJob
  BY NoJobAssumption DEF JobInv, TypeInv, BusyHolds, At
<1>2. ready[j] = NoTime /\ j \in accepted /\ \A v \in Workers \ {w} : ~ Holds(v, j)
  BY <1>1 DEF JobInv, Owner, SingleOwner, Holds
<1>3. Fate(j) /\ HeldBy(w, j) /\ Holds(w, j)
  BY <1>1 DEF JobInv, Fate, Holds
<1> QED
  BY <1>1, <1>2, <1>3 DEF JobInv, TypeInv, TypeOK, WorkerState

\* A step of w about its job j leaves the fate of the other jobs alone.
LEMMA FateElsewhere ==
    ASSUME JobInv, NEW w \in Workers, NEW j \in Jobs, worker[w].job \in {j, NoJob},
           worker'[w].job \in {j, NoJob}, \A v \in Workers \ {w} : worker'[v] = worker[v],
           NEW k \in Jobs \ {j},
           hash'[k] = hash[k], ready'[k] = ready[k], tries'[k] = tries[k],
           accepted' = accepted, dropped \subseteq dropped', Filed(k) => Filed(k)'
    PROVE  Fate(k)'
<1>1. ~ Holds(w, k) /\ ~ Holds(w, k)'
  BY NoJobAssumption DEF Holds
<1>2. \A v \in Workers : /\ Holds(v, k)' <=> Holds(v, k)
                         /\ Holds(v, k) => worker'[v] = worker[v]
  BY <1>1 DEF Holds
<1>3. Fate(k)
  BY DEF JobInv
<1> QED
  BY <1>2, <1>3, FateKept

\* What an update changes of a hash.
Writes(j, status, attempts) == hash' = [hash EXCEPT ![j] = Updated(j, status, attempts)]

LEMMA UpdatedHash ==
    ASSUME TypeOK, NEW j \in Jobs, NEW status, NEW attempts, Writes(j, status, attempts)
    PROVE  /\ hash'[j].whole <=> hash[j].whole
           /\ hash[j].whole => /\ hash'[j].status = status /\ hash'[j].attempts = attempts
                               /\ hash'[j].ttl = hash[j].ttl
           /\ \A k \in Jobs \ {j} : hash'[k] = hash[k]
<1>1. /\ hash[j] \in Hash /\ hash'[j] = Updated(j, status, attempts)
      /\ \A k \in Jobs \ {j} : hash'[k] = hash[k]
  BY DEF TypeOK, Writes
<1>2. CASE hash[j] = Absent
  BY <1>1, <1>2 DEF Updated, Absent
<1>3. CASE hash[j] # Absent
  BY <1>1, <1>3 DEF Updated, Hash
<1> QED
  BY <1>2, <1>3

\* ZADD takes nobody out of the dead-letter queue.
LEMMA FiledStays ==
    ASSUME NEW queue \in Seq(Jobs), NEW j \in Jobs, NEW k \in Jobs \ {j},
           NEW i \in DOMAIN queue, queue[i] = k
    PROVE  \E n \in DOMAIN Append(Without(queue, j), j) : Append(Without(queue, j), j)[n] = k
<1>1. Len(queue) \in Nat /\ DOMAIN queue = 1 .. Len(queue) /\ Without(queue, j) \in Seq(Jobs)
  BY LenProperties, WithoutType
<1>2. \E n \in 1 .. Len(Without(queue, j)) : Without(queue, j)[n] = k
  <2>1. CASE \E m \in DOMAIN queue : queue[m] = j
    <3>1. PICK m \in DOMAIN queue :
            /\ queue[m] = j
            /\ Without(queue, j) = SubSeq(queue, 1, m - 1) \o SubSeq(queue, m + 1, Len(queue))
      BY <2>1 DEF Without
    <3>2. m \in 1 .. Len(queue) /\ i \in 1 .. Len(queue) /\ i # m
      BY <1>1, <3>1
    <3> DEFINE left == SubSeq(queue, 1, m - 1)
               right == SubSeq(queue, m + 1, Len(queue))
    <3>3. left \in Seq(Jobs) /\ Len(left) = m - 1 /\ \A n \in 1 .. m - 1 : left[n] = queue[n]
      BY <1>1, <3>2, SubSeqProperties
    <3>4. /\ right \in Seq(Jobs) /\ Len(right) = Len(queue) - m
          /\ \A n \in 1 .. Len(queue) - m : right[n] = queue[m + n]
      BY <1>1, <3>2, SubSeqProperties
    <3>5. Without(queue, j) = left \o right
      BY <3>1
    <3> HIDE DEF left, right
    <3>6. /\ Len(Without(queue, j)) = Len(queue) - 1
          /\ \A n \in 1 .. Len(queue) - 1 :
               Without(queue, j)[n] = IF n <= m - 1 THEN queue[n] ELSE queue[n + 1]
      <4>1. Len(left) + Len(right) = Len(queue) - 1
        BY <1>1, <3>2, <3>3, <3>4
      <4>2. /\ Len(left \o right) = Len(left) + Len(right)
            /\ \A n \in 1 .. Len(left) + Len(right) :
                 (left \o right)[n] = IF n <= Len(left) THEN left[n] ELSE right[n - Len(left)]
        BY <3>3, <3>4, ConcatProperties
      <4>3. ASSUME NEW n \in 1 .. Len(queue) - 1, n > m - 1
            PROVE  right[n - Len(left)] = queue[n + 1]
        <5>1. n - (m - 1) \in 1 .. Len(queue) - m /\ m + (n - (m - 1)) = n + 1
          BY <1>1, <3>2, <4>3
        <5>2. right[n - (m - 1)] = queue[m + (n - (m - 1))]
          BY <3>4, <5>1
        <5> QED
          BY <3>3, <5>1, <5>2
      <4>4. ASSUME NEW n \in 1 .. Len(queue) - 1
            PROVE  Without(queue, j)[n] = IF n <= m - 1 THEN queue[n] ELSE queue[n + 1]
        <5>1. Without(queue, j)[n] = IF n <= m - 1 THEN left[n] ELSE right[n - Len(left)]
          BY <3>3, <3>5, <4>1, <4>2
        <5> QED
          BY <1>1, <3>2, <3>3, <4>3, <5>1
      <4> QED
        BY <3>5, <4>1, <4>2, <4>4
    <3>7. CASE i < m
      BY <1>1, <3>2, <3>6, <3>7
    <3>8. CASE i > m
      <4>1. i - 1 \in 1 .. Len(queue) - 1 /\ ~ (i - 1 <= m - 1) /\ (i - 1) + 1 = i
        BY <1>1, <3>2, <3>8
      <4> QED
        BY <3>6, <4>1
    <3> QED
      BY <1>1, <3>2, <3>7, <3>8
  <2>2. CASE ~ \E m \in DOMAIN queue : queue[m] = j
    BY <1>1, <2>2 DEF Without
  <2> QED
    BY <2>1, <2>2
<1> QED
  BY <1>1, <1>2, AppendProperties, LenProperties

-----------------------------------------------------------------------------
(* The steps. *)

\* A worker's command about the job it holds: for the job itself it remains to look at
\* the command, since nobody else has it.
Command(w) ==
    \/ PutBack(w) \/ Get(w) \/ Claim(w) \/ Route(w) \/ Complete(w) \/ Fail(w) \/ Retry(w)
    \/ Defer(w) \/ Reschedule(w) \/ Bury(w) \/ FileDead(w) \/ Drop(w)

LEMMA CommandHolds ==
    ASSUME TypeInv, NEW w \in Workers, Command(w)
    PROVE  /\ ~ At(w, "idle") /\ accepted' = accepted
           /\ \A v \in Workers \ {w} : worker'[v] = worker[v]
           /\ worker'[w].job \in {worker[w].job, NoJob}
           /\ At(w, "idle")' => worker'[w].job = NoJob
<1>1. worker[w] \in WorkerState /\ worker \in [Workers -> WorkerState]
  BY DEF TypeInv, TypeOK
<1>2. ~ At(w, "idle") /\ accepted' = accepted
  BY DEF Command, PutBack, Get, Claim, Route, Complete, Fail, Retry, Defer, Requeue,
         Reschedule, Bury, FileDead, Drop, At
<1>3. CASE Return(w)
  BY <1>1, <1>2, <1>3 DEF Return, Idle
<1>4. ASSUME NEW step, step # "idle", worker' = [worker EXCEPT ![w].step = step]
      PROVE  /\ \A v \in Workers \ {w} : worker'[v] = worker[v]
             /\ worker'[w].job = worker[w].job /\ ~ At(w, "idle")'
  BY <1>1, <1>4 DEF WorkerState, At
<1>5. CASE Get(w) /\ ~ Return(w)
  <2>1. worker' = [worker EXCEPT ![w] = [@ EXCEPT
                     !.step = "claim", !.attempts = hash[worker[w].job].attempts]]
    BY <1>5 DEF Get
  <2> QED
    BY <1>1, <1>2, <2>1 DEF WorkerState, At
<1>6. CASE Retry(w) \/ Defer(w)
  <2>1. PICK delay : worker' = [worker EXCEPT ![w] = [@ EXCEPT !.step = "reschedule", !.due = delay]]
    BY <1>6 DEF Retry, Defer, Requeue
  <2> QED
    BY <1>1, <1>2, <2>1 DEF WorkerState, At
<1>7. CASE Claim(w) \/ Bury(w)
  BY <1>2, <1>4, <1>7 DEF Claim, Bury
<1>8. CASE Route(w)
  <2>1. PICK step \in {"complete", "fail", "defer", "bury", "retry"} :
          worker' = [worker EXCEPT ![w].step = step]
    BY <1>8 DEF Route
  <2> QED
    BY <1>2, <1>4, <2>1
<1> QED
  BY <1>3, <1>5, <1>6, <1>7, <1>8
  DEF Command, PutBack, Complete, Fail, Reschedule, FileDead, Drop

LEMMA CommandElsewhere ==
    ASSUME JobInv, NEW w \in Workers, Command(w), NEW k \in Jobs \ {worker[w].job}
    PROVE  Fate(k)'
<1>1. PICK j \in Jobs : j = worker[w].job
  BY CommandHolds, InHand DEF JobInv
<1>2. /\ hash \in [Jobs -> Hash] /\ ready \in [Jobs -> Nat \cup {NoTime}]
      /\ tries \in [Jobs -> Nat] /\ dlq \in Seq(Jobs) /\ TypeOK
  BY DEF JobInv, TypeInv, TypeOK
<1>3. hash'[k] = hash[k]
  BY <1>1, <1>2
  DEF Command, PutBack, Get, Claim, Route, Complete, Fail, Retry, Defer, Requeue, Reschedule,
      Bury, FileDead, Drop, Update
<1>4. ready'[k] = ready[k] /\ dropped \subseteq dropped'
  BY <1>1, <1>2
  DEF Command, PutBack, Get, Claim, Route, Complete, Fail, Retry, Defer, Requeue, Reschedule,
      Bury, FileDead, Drop
<1>5. tries'[k] = tries[k]
  BY <1>1, <1>2
  DEF Command, PutBack, Get, Claim, Route, Complete, Fail, Retry, Defer, Requeue, Reschedule,
      Bury, FileDead, Drop
<1>6. Filed(k) => Filed(k)'
  <2>1. CASE FileDead(w)
    BY <1>1, <1>2, <2>1, FiledStays DEF Filed, FileDead
  <2>2. CASE ~ FileDead(w)
    <3>1. dlq' = dlq
      BY <2>2 DEF Command, PutBack, Get, Claim, Route, Complete, Fail, Retry, Defer, Requeue,
                  Reschedule, Bury, Drop
    <3> QED
      BY <3>1 DEF Filed
  <2> QED
    BY <2>1, <2>2
<1> QED
  BY <1>1, <1>3, <1>4, <1>5, <1>6, CommandHolds, FateElsewhere DEF JobInv

\* What is left to show of the job itself.
LEMMA FateInHand ==
    ASSUME JobInv, NEW w \in Workers, Command(w), NEW j, j = worker[w].job,
           tries'[j] <= MaxAttempts,
           ready'[j] # NoTime => (Live(j) /\ Counted(j))',
           worker'[w].job = j => HeldBy(w, j)',
           hash'[j].whole /\ hash'[j].status = "dead" => tries'[j] = MaxAttempts,
           \/ worker'[w].job = j \/ ~ hash'[j].whole \/ j \in dropped'
           \/ /\ hash'[j].status \notin Terminal => ready'[j] # NoTime
              /\ hash'[j].status = "dead" => Filed(j)'
    PROVE  Fate(j)'
<1>1. j \in Jobs /\ j \in accepted /\ \A v \in Workers \ {w} : ~ Holds(v, j)
  BY CommandHolds, InHand DEF JobInv
<1>2. \A v \in Workers \ {w} : ~ Holds(v, j)'
  BY <1>1, CommandHolds DEF JobInv, Holds
<1>3. j \in accepted'
  BY <1>1, CommandHolds DEF JobInv
<1>4. Accounted(j)'
  BY DEF Accounted, SomebodyHolds, Holds
<1> QED
  BY <1>2, <1>3, <1>4 DEF Fate, Holds

LEMMA CommandFate ==
    ASSUME JobInv, NEW w \in Workers, Command(w), NEW j, j = worker[w].job
    PROVE  Fate(j)'
<1>1. /\ j \in Jobs /\ ready[j] = NoTime /\ Fate(j) /\ HeldBy(w, j)
      /\ hash[j] \in Hash /\ tries[j] \in Nat
      /\ worker[w].attempts \in Nat /\ worker[w].due \in Nat
  BY CommandHolds, InHand DEF JobInv
<1>2. /\ hash \in [Jobs -> Hash] /\ ready \in [Jobs -> Nat \cup {NoTime}]
      /\ tries \in [Jobs -> Nat] /\ dlq \in Seq(Jobs) /\ TypeOK
      /\ worker \in [Workers -> WorkerState] /\ worker[w] \in WorkerState
  BY DEF JobInv, TypeInv, TypeOK
<1>3. MaxAttempts \in Nat \ {0} /\ tries[j] <= MaxAttempts /\ j # NoJob
  BY <1>1, MaxAttemptsAssumption, NoJobAssumption DEF Fate
<1>4. Return(w) => worker'[w].job # j
  BY <1>2, <1>3 DEF Return, Idle
<1>5. CASE PutBack(w) \/ Reschedule(w)
  <2>1. hash' = hash /\ tries' = tries /\ Return(w)
    BY <1>5 DEF PutBack, Reschedule
  <2>2. ready'[j] # NoTime
    <3>1. ready' = [ready EXCEPT ![j] = worker[w].due]
      BY <1>5 DEF PutBack, Reschedule
    <3> QED
      BY <1>1, <1>2, <3>1 DEF NoTime
  <2>3. Live(j) /\ Counted(j)
    BY <1>1, <1>5 DEF PutBack, Reschedule, At, HeldBy
  <2> QED
    BY <1>3, <1>4, <2>1, <2>2, <2>3, FateInHand DEF Live, Counted, Terminal
<1>6. CASE Get(w)
  <2>1. hash' = hash /\ tries' = tries /\ ready' = ready /\ Live(j) /\ Counted(j)
    BY <1>1, <1>6 DEF Get, At, HeldBy
  <2>2. CASE hash[j].whole
    <3>1. worker'[w] = [worker[w] EXCEPT !.step = "claim", !.attempts = hash[j].attempts]
      BY <1>2, <1>6, <2>2 DEF Get
    <3>2. /\ worker'[w].step = "claim" /\ worker'[w].job = j
          /\ worker'[w].attempts = hash[j].attempts
      BY <1>2, <3>1 DEF WorkerState
    <3>3. HeldBy(w, j)'
      BY <2>1, <2>2, <3>2 DEF HeldBy, Live, Counted
    <3> QED
      BY <1>1, <1>3, <2>1, <3>2, <3>3, FateInHand DEF Live, Terminal
  <2>3. CASE ~ hash[j].whole
    BY <1>1, <1>3, <1>4, <1>6, <2>1, <2>3, FateInHand DEF Get
  <2> QED
    BY <2>2, <2>3
<1>7. ASSUME NEW step, worker' = [worker EXCEPT ![w].step = step]
      PROVE  worker'[w].step = step /\ worker'[w].job = j /\ worker'[w].attempts = worker[w].attempts
  BY <1>2, <1>7 DEF WorkerState
<1>8. ASSUME NEW status, NEW attempts, Writes(j, status, attempts)
      PROVE  /\ hash'[j].whole <=> hash[j].whole
             /\ hash[j].whole => hash'[j].status = status /\ hash'[j].attempts = attempts
  BY <1>1, <1>2, <1>8, UpdatedHash
<1>9. ASSUME NEW status, Update(j, status) PROVE Writes(j, status, hash[j].attempts)
  BY <1>9 DEF Update, Writes
<1>10. CASE Claim(w)
  <2>1. /\ worker'[w].step = "run" /\ worker'[w].job = j
        /\ worker'[w].attempts = worker[w].attempts
    BY <1>7, <1>10 DEF Claim
  <2>2. ready' = ready /\ tries' = tries
    BY <1>10 DEF Claim
  <2>3. /\ hash'[j].whole <=> hash[j].whole
        /\ hash[j].whole => /\ hash'[j].status = "running"
                            /\ hash'[j].attempts = hash[j].attempts
    <3>1. Update(j, "running")
      BY <1>10 DEF Claim
    <3> QED
      BY <1>8, <1>9, <3>1
  <2>4. Counted(j) /\ worker[w].attempts = tries[j] /\ tries[j] < MaxAttempts
    BY <1>1, <1>10 DEF Claim, At, HeldBy
  <2>5. HeldBy(w, j)'
    BY <2>1, <2>2, <2>3, <2>4 DEF HeldBy, Live, Counted, Terminal
  <2> QED
    BY <1>1, <1>3, <2>1, <2>2, <2>3, <2>5, FateInHand
<1>11. CASE Route(w)
  <2>1. hash' = hash /\ ready' = ready
    BY <1>11 DEF Route
  <2>2. /\ Live(j) /\ Counted(j) /\ worker[w].attempts = tries[j] /\ tries[j] < MaxAttempts
    BY <1>1, <1>11 DEF Route, At, HeldBy
  <2>3. /\ worker'[w].job = j /\ worker'[w].attempts = worker[w].attempts
        /\ \/ worker'[w].step \in {"complete", "fail", "defer"} /\ tries'[j] = tries[j]
           \/ /\ worker'[w].step = IF tries[j] + 1 >= MaxAttempts THEN "bury" ELSE "retry"
              /\ tries'[j] = tries[j] + 1
    BY <1>1, <1>2, <1>7, <1>11, <2>2 DEF Route
  <2>4. HeldBy(w, j)' /\ tries'[j] <= MaxAttempts
    BY <1>1, <1>3, <2>1, <2>2, <2>3 DEF HeldBy, Live, Counted
  <2> QED
    BY <1>1, <2>1, <2>2, <2>3, <2>4, FateInHand DEF Live, Terminal
<1>12. CASE Complete(w) \/ Fail(w)
  <2>1. PICK status \in {"done", "failed"} : Update(j, status)
    BY <1>12 DEF Complete, Fail
  <2>2. Return(w) /\ ready' = ready /\ tries' = tries
    BY <1>12 DEF Complete, Fail
  <2>3. hash'[j].whole => hash'[j].status = status
    BY <1>8, <1>9, <2>1
  <2> QED
    BY <1>1, <1>3, <1>4, <2>2, <2>3, FateInHand DEF Terminal
<1>13. CASE Retry(w) \/ Defer(w)
  <2>1. PICK attempts : /\ attempts = tries[j] /\ tries[j] < MaxAttempts
                        /\ Writes(j, "queued", attempts)
    BY <1>1, <1>13 DEF Retry, Defer, Requeue, At, HeldBy, Writes
  <2>2. ready' = ready /\ tries' = tries
    BY <1>13 DEF Retry, Defer, Requeue
  <2>3. PICK delay : worker' = [worker EXCEPT ![w] = [@ EXCEPT !.step = "reschedule", !.due = delay]]
    BY <1>13 DEF Retry, Defer, Requeue
  <2>4. worker'[w].step = "reschedule" /\ worker'[w].job = j
    BY <1>2, <2>3 DEF WorkerState
  <2>5. hash'[j].whole => hash'[j].status = "queued" /\ hash'[j].attempts = tries[j]
    BY <1>8, <2>1
  <2>6. HeldBy(w, j)'
    BY <2>1, <2>2, <2>4, <2>5 DEF HeldBy, Live, Counted, Terminal
  <2> QED
    BY <1>1, <1>3, <2>2, <2>4, <2>5, <2>6, FateInHand
<1>14. CASE Bury(w)
  <2>1. worker'[w].step = "file" /\ worker'[w].job = j
    BY <1>7, <1>14 DEF Bury
  <2>2. ready' = ready /\ tries' = tries /\ tries[j] = MaxAttempts
    BY <1>1, <1>14 DEF Bury, At, HeldBy
  <2>3. hash'[j].whole => hash'[j].status = "dead"
    <3>1. Update(j, "dead")
      BY <1>14 DEF Bury
    <3> QED
      BY <1>8, <1>9, <3>1
  <2>4. HeldBy(w, j)'
    BY <2>1, <2>2, <2>3 DEF HeldBy
  <2> QED
    BY <1>1, <1>3, <2>1, <2>2, <2>4, FateInHand
<1>15. CASE FileDead(w)
  <2>1. Return(w) /\ hash' = hash /\ ready' = ready /\ tries' = tries
    BY <1>15 DEF FileDead
  <2>2. tries[j] = MaxAttempts /\ (hash[j].whole => hash[j].status = "dead")
    BY <1>1, <1>15 DEF FileDead, At, HeldBy
  <2>3. Filed(j)'
    <3>1. Without(dlq, j) \in Seq(Jobs) /\ dlq' = Append(Without(dlq, j), j)
      BY <1>1, <1>2, <1>15, WithoutType DEF FileDead
    <3>2. Len(dlq') = Len(Without(dlq, j)) + 1 /\ dlq'[Len(Without(dlq, j)) + 1] = j
          /\ dlq' \in Seq(Jobs)
      BY <1>1, <3>1, AppendProperties
    <3>3. DOMAIN dlq' = 1 .. Len(dlq') /\ Len(Without(dlq, j)) \in Nat
      BY <3>1, <3>2, LenProperties
    <3> QED
      BY <3>2, <3>3 DEF Filed
  <2> QED
    BY <1>1, <1>3, <1>4, <2>1, <2>2, <2>3, FateInHand DEF Terminal
<1>16. CASE Drop(w)
  BY <1>1, <1>3, <1>4, <1>16, FateInHand DEF Drop, Fate
<1> QED
  BY <1>5, <1>6, <1>10, <1>11, <1>12, <1>13, <1>14, <1>15, <1>16 DEF Command

LEMMA PopFate ==
    ASSUME JobInv, NEW w \in Workers, Pop(w)
    PROVE  Resting' /\ \A k \in Jobs : Fate(k)'
<1>1. PICK j \in Queued :
        /\ ready' = [ready EXCEPT ![j] = NoTime]
        /\ worker' = [worker EXCEPT ![w] = [Idle EXCEPT
                        !.step = IF ready[j] > 0 THEN "putback" ELSE "get",
                        !.job = j, !.due = ready[j]]]
        /\ UNCHANGED <<hash, dlq, accepted, tries, dropped>>
  BY DEF Pop
<1>2. /\ j \in Jobs /\ ready[j] # NoTime /\ j \in accepted /\ j # NoJob
      /\ ready \in [Jobs -> Nat \cup {NoTime}] /\ worker \in [Workers -> WorkerState]
  BY NoJobAssumption DEF Queued, JobInv, Owner, TypeInv, TypeOK
<1>3. /\ worker'[w].job = j /\ worker'[w].step \in {"putback", "get"}
      /\ \A v \in Workers \ {w} : worker'[v] = worker[v]
  BY <1>1, <1>2 DEF Idle
<1>4. worker[w].job = NoJob
  BY DEF Pop, JobInv, Resting
<1>5. Resting'
  BY <1>3 DEF JobInv, Resting, At
<1>6. \A v \in Workers : ~ Holds(v, j)
  BY <1>2 DEF JobInv, Owner, SingleOwner, Holds
<1>7. Fate(j)'
  <2>1. Fate(j) /\ Live(j) /\ Counted(j)
    BY <1>2 DEF JobInv, Fate
  <2>2. ready'[j] = NoTime
    BY <1>1, <1>2
  <2>3. \A v \in Workers : Holds(v, j)' <=> v = w
    BY <1>3, <1>6 DEF Holds
  <2>4. HeldBy(w, j)'
    BY <1>1, <1>3, <2>1 DEF HeldBy, Live, Counted
  <2>5. Accounted(j)'
    BY <2>3 DEF Accounted, SomebodyHolds
  <2> QED
    BY <1>1, <1>2, <2>1, <2>2, <2>3, <2>4, <2>5 DEF Fate
<1>8. ASSUME NEW k \in Jobs \ {j} PROVE Fate(k)'
  <2>1. ready'[k] = ready[k] /\ (Filed(k) => Filed(k)')
    BY <1>1, <1>2 DEF Filed
  <2> QED
    BY <1>1, <1>2, <1>3, <1>4, <1>8, <2>1, FateElsewhere
<1> QED
  BY <1>5, <1>7, <1>8

LEMMA EnqueueFate ==
    ASSUME JobInv, NEW j \in Jobs, Enqueue(j)
    PROVE  Resting' /\ \A k \in Jobs : Fate(k)'
<1>1. /\ hash' = [hash EXCEPT ![j] = [status |-> "queued", attempts |-> 0, whole |-> TRUE,
                                      ttl |-> JobTTL]]
      /\ ready' = [ready EXCEPT ![j] = 0]
      /\ accepted' = accepted \cup {j} /\ j \notin accepted
      /\ UNCHANGED <<dlq, worker, tries, dropped>>
  BY DEF Enqueue
<1>2. /\ hash \in [Jobs -> Hash] /\ ready \in [Jobs -> Nat \cup {NoTime}] /\ j # NoJob
  BY NoJobAssumption DEF JobInv, TypeInv, TypeOK
<1>3. Resting'
  BY <1>1 DEF JobInv, Resting, At
<1>4. \A v \in Workers : ~ Holds(v, j)
  BY <1>1, <1>2 DEF JobInv, Owner, Holds
<1>5. Fate(j)'
  <2>1. Fate(j) /\ tries[j] = 0 /\ MaxAttempts \in Nat \ {0}
    BY <1>1, MaxAttemptsAssumption DEF JobInv, Fate
  <2>2. hash'[j].status = "queued" /\ hash'[j].attempts = 0 /\ ready'[j] # NoTime
    BY <1>1, <1>2 DEF NoTime
  <2>3. Live(j)' /\ Counted(j)' /\ Accounted(j)'
    BY <1>1, <2>1, <2>2 DEF Live, Counted, Accounted, Terminal
  <2> QED
    BY <1>1, <1>4, <2>1, <2>2, <2>3 DEF Fate, Holds
<1>6. ASSUME NEW k \in Jobs \ {j} PROVE Fate(k)'
  <2>1. hash'[k] = hash[k] /\ ready'[k] = ready[k] /\ (k \in accepted' <=> k \in accepted)
    BY <1>1, <1>2, <1>6
  <2>2. Fate(k) /\ (Filed(k)' <=> Filed(k))
    BY <1>1 DEF JobInv, Filed
  <2>3. \A v \in Workers : Holds(v, k)' => Holds(v, k) /\ HeldBy(v, k)'
    BY <1>1, <2>1, <2>2 DEF Fate, Holds, HeldBy, Live, Counted
  <2>4. Accounted(k)'
    BY <1>1, <2>1, <2>2 DEF Fate, Accounted, SomebodyHolds, Holds
  <2> QED
    BY <1>1, <2>1, <2>2, <2>3, <2>4 DEF Fate, Live, Counted
<1> QED
  BY <1>3, <1>5, <1>6

LEMMA TickFate ==
    ASSUME JobInv, Tick
    PROVE  Resting' /\ \A k \in Jobs : Fate(k)'
<1>1. /\ hash \in [Jobs -> Hash] /\ ready \in [Jobs -> Nat \cup {NoTime}]
      /\ worker \in [Workers -> WorkerState]
  BY DEF JobInv, TypeInv, TypeOK
<1>2. \A w \in Workers : /\ worker'[w].step = worker[w].step /\ worker'[w].job = worker[w].job
                         /\ worker'[w].attempts = worker[w].attempts
  BY <1>1 DEF Tick, WorkerState
<1>3. ASSUME NEW j \in Jobs
      PROVE  /\ hash'[j].whole =>
                  /\ hash[j].whole /\ hash'[j].status = hash[j].status
                  /\ hash'[j].attempts = hash[j].attempts
             /\ ready'[j] = NoTime <=> ready[j] = NoTime
  <2>1. hash[j] \in Hash /\ hash'[j] = IF hash[j].ttl = 1 THEN Absent
                                      ELSE [hash[j] EXCEPT !.ttl = Sooner(hash[j].ttl)]
    BY <1>1 DEF Tick
  <2>2. ready'[j] = Sooner(ready[j]) /\ ready[j] \in Nat \cup {NoTime}
    BY <1>1 DEF Tick
  <2> QED
    BY <2>1, <2>2 DEF Hash, Absent, Sooner, NoTime
<1>4. Resting'
  BY <1>2 DEF JobInv, Resting, At
<1>5. ASSUME NEW k \in Jobs PROVE Fate(k)'
  <2>1. Fate(k) /\ UNCHANGED <<dlq, accepted, tries, dropped>>
    BY DEF JobInv, Tick
  <2>2. \A v \in Workers : Holds(v, k)' <=> Holds(v, k)
    BY <1>2 DEF Holds
  <2>3. (Live(k) => Live(k)') /\ (Counted(k) => Counted(k)')
    BY <1>3, <2>1 DEF Live, Counted
  <2>4. \A v \in Workers : HeldBy(v, k) => HeldBy(v, k)'
    BY <1>2, <1>3, <2>1, <2>3 DEF HeldBy
  <2>5. Accounted(k)'
    BY <1>3, <2>1, <2>2 DEF Fate, Accounted, SomebodyHolds, Filed
  <2> QED
    BY <1>3, <2>1, <2>2, <2>3, <2>4, <2>5 DEF Fate
<1> QED
  BY <1>4, <1>5

LEMMA JobNext == JobInv /\ [Next]_vars => JobInv'
<1> SUFFICES ASSUME JobInv, [Next]_vars PROVE JobInv'
  OBVIOUS
<1>1. TypeInv' /\ Owner'
  BY TypeNext, OwnerNext DEF JobInv
<1>2. ASSUME NEW w \in Workers, Command(w) PROVE Resting' /\ \A k \in Jobs : Fate(k)'
  <2>1. Resting'
    BY <1>2, CommandHolds DEF JobInv, Resting, At
  <2>2. \A k \in Jobs : Fate(k)'
    BY <1>2, CommandFate, CommandElsewhere
  <2> QED
    BY <2>1, <2>2
<1>3. CASE UNCHANGED vars
  <2>1. Resting'
    BY <1>3 DEF vars, JobInv, Resting, At
  <2>2. ASSUME NEW k \in Jobs PROVE Fate(k)'
    BY <1>3, FateKept DEF vars, JobInv, Filed, Holds
  <2> QED
    BY <1>1, <2>1, <2>2 DEF JobInv
<1> QED
  BY <1>1, <1>2, <1>3, PopFate, EnqueueFate, TickFate DEF Next, PopDue, Run, Command, JobInv

LEMMA JobInvariant == Spec => []JobInv
  BY JobInit, JobNext, PTL DEF Spec

\* However failures, deferrals, deaths of workers and expiries follow each other, a job
\* is tried against failing providers at most max_attempts times, and buried only then
\* (_retry_or_bury, worker.py:138).
THEOREM AlwaysRetryBudget == Spec => []RetryBudget
<1>1. JobInv => RetryBudget
  BY DEF JobInv, Fate, RetryBudget
<1> QED
  BY <1>1, JobInvariant, PTL

\* An accepted job is lost only with the worker that went down with it (queue.py:10):
\* between any two commands it is queued, held, finished or filed.
THEOREM AlwaysNothingLost == Spec => []NothingLost
<1>1. JobInv => NothingLost
  BY DEF JobInv, TypeInv, TypeOK, Fate, Accounted, NothingLost, Filed, SomebodyHolds, Queued
<1> QED
  BY <1>1, JobInvariant, PTL

-----------------------------------------------------------------------------
(* The refinement. *)

\* What Promised is told of the jobs.
LearnedOf(j) ==
    [status |-> IF ~ hash[j].whole THEN "unknown"
                ELSE IF hash[j].status \in Terminal THEN hash[j].status ELSE "pending",
     ttl |-> IF hash[j].whole THEN hash[j].ttl ELSE NoTime]
Learned == [j \in Jobs |-> LearnedOf(j)]

LEMMA SameLearned ==
    ASSUME \A j \in Jobs : LearnedOf(j)' = LearnedOf(j)
    PROVE  Learned' = Learned
  BY DEF Learned

\* A worker's update of a job in its hands tells nothing new, or is the final word.
LEMMA WritesLearned ==
    ASSUME JobInv, NEW j \in Jobs, Live(j), NEW status \in Status, NEW attempts,
           Writes(j, status, attempts)
    PROVE  Learned' = Learned \/ Promised!Finish(j)
<1>1. /\ hash'[j].whole <=> hash[j].whole
      /\ hash[j].whole => hash'[j].status = status /\ hash'[j].ttl = hash[j].ttl
      /\ \A k \in Jobs \ {j} : hash'[k] = hash[k]
  BY UpdatedHash DEF JobInv, TypeInv
<1>2. \A k \in Jobs \ {j} : LearnedOf(k)' = LearnedOf(k)
  BY <1>1 DEF LearnedOf
<1>3. CASE ~ hash[j].whole \/ status \notin Terminal
  <2>1. LearnedOf(j)' = LearnedOf(j)
    BY <1>1, <1>3 DEF LearnedOf, Live
  <2> QED
    BY <1>2, <2>1, SameLearned
<1>4. CASE hash[j].whole /\ status \in Terminal
  <2>1. LearnedOf(j) = [status |-> "pending", ttl |-> hash[j].ttl]
    BY <1>4 DEF LearnedOf, Live
  <2>2. LearnedOf(j)' = [status |-> status, ttl |-> hash[j].ttl]
    BY <1>1, <1>4 DEF LearnedOf
  <2>3. LearnedOf(j)' = [LearnedOf(j) EXCEPT !.status = status]
    BY <2>1, <2>2
  <2>4. Learned' = [Learned EXCEPT ![j].status = status]
    BY <1>2, <2>3 DEF Learned
  <2>5. Learned[j].status = "pending"
    BY <2>1 DEF Learned
  <2> QED
    BY <1>4, <2>4, <2>5 DEF Promised!Finish, Learned, LearnedOf
<1> QED
  BY <1>3, <1>4

LEMMA CommandLearned ==
    ASSUME JobInv, NEW w \in Workers, Command(w)
    PROVE  Learned' = Learned \/ \E j \in Jobs : Promised!Finish(j)
<1>1. PICK j \in Jobs : j = worker[w].job /\ HeldBy(w, j)
  BY CommandHolds, InHand DEF JobInv
<1>2. CASE hash' = hash
  BY <1>2, SameLearned DEF LearnedOf
<1>3. ASSUME NEW status \in Status, NEW attempts, Writes(j, status, attempts), Live(j)
      PROVE  Learned' = Learned \/ Promised!Finish(j)
  BY <1>1, <1>3, WritesLearned
<1>4. CASE Claim(w) \/ Complete(w) \/ Fail(w) \/ Bury(w)
  <2>1. PICK status \in Status : Update(j, status)
    BY <1>1, <1>4 DEF Claim, Complete, Fail, Bury, Status, Terminal
  <2>2. Writes(j, status, hash[j].attempts)
    BY <2>1 DEF Update, Writes
  <2>3. Live(j)
    BY <1>1, <1>4 DEF Claim, Complete, Fail, Bury, At, HeldBy
  <2> QED
    BY <1>3, <2>2, <2>3
<1>5. CASE Retry(w) \/ Defer(w)
  <2>1. PICK attempts : Writes(j, "queued", attempts)
    BY <1>1, <1>5 DEF Retry, Defer, Requeue, Writes
  <2>2. Live(j) /\ "queued" \in Status
    BY <1>1, <1>5 DEF Retry, Defer, Requeue, At, HeldBy, Status
  <2> QED
    BY <1>3, <2>1, <2>2
<1> QED
  BY <1>2, <1>4, <1>5
  DEF Command, PutBack, Get, Route, Reschedule, FileDead, Drop

LEMMA EnqueueLearned ==
    ASSUME JobInv, NEW j \in Jobs, Enqueue(j)
    PROVE  Promised!Accept(j)
<1>1. hash \in [Jobs -> Hash] /\ ~ hash[j].whole
  BY DEF JobInv, TypeInv, TypeOK, Fate, Enqueue
<1>2. hash' = [hash EXCEPT ![j] = [status |-> "queued", attempts |-> 0, whole |-> TRUE,
                                  ttl |-> JobTTL]]
  BY DEF Enqueue
<1>3. LearnedOf(j) = Promised!Unknown
  BY <1>1 DEF LearnedOf, Promised!Unknown, Promised!NoTime, NoTime
<1>4. LearnedOf(j)' = [status |-> "pending", ttl |-> JobTTL]
  BY <1>1, <1>2 DEF LearnedOf, Terminal
<1>5. \A k \in Jobs \ {j} : LearnedOf(k)' = LearnedOf(k)
  BY <1>1, <1>2 DEF LearnedOf
<1>6. Learned[j] = Promised!Unknown
      /\ Learned' = [Learned EXCEPT ![j] = [status |-> "pending", ttl |-> JobTTL]]
  BY <1>3, <1>4, <1>5 DEF Learned
<1> QED
  BY <1>6 DEF Promised!Accept, Learned, LearnedOf

LEMMA TickLearned ==
    ASSUME JobInv, Tick
    PROVE  Promised!Tick
<1>1. ASSUME NEW j \in Jobs PROVE LearnedOf(j)' = Promised!Aged(LearnedOf(j))
  <2>1. hash[j] \in Hash /\ hash'[j] = IF hash[j].ttl = 1 THEN Absent
                                      ELSE [hash[j] EXCEPT !.ttl = Sooner(hash[j].ttl)]
    BY DEF JobInv, TypeInv, TypeOK, Tick
  <2>2. CASE ~ hash[j].whole
    <3>1. ~ hash'[j].whole
      BY <2>1, <2>2 DEF Absent, Hash
    <3> QED
      BY <2>2, <3>1 DEF LearnedOf, Promised!Aged, NoTime
  <2>3. CASE hash[j].whole /\ hash[j].ttl = 1
    <3>1. ~ hash'[j].whole
      BY <2>1, <2>3 DEF Absent
    <3> QED
      BY <2>3, <3>1 DEF LearnedOf, Promised!Aged, Promised!Unknown, Promised!NoTime, NoTime
  <2>4. CASE hash[j].whole /\ hash[j].ttl # 1
    <3>1. /\ hash'[j].whole /\ hash'[j].status = hash[j].status
          /\ hash'[j].ttl = IF hash[j].ttl > 1 THEN hash[j].ttl - 1 ELSE hash[j].ttl
      BY <2>1, <2>4 DEF Hash, Sooner, NoTime
    <3> QED
      BY <2>4, <3>1 DEF LearnedOf, Promised!Aged
  <2> QED
    BY <2>2, <2>3, <2>4
<1> QED
  BY <1>1 DEF Promised!Tick, Learned, LearnedOf

\* What GET /v1/jobs tells of a job (main.py:421) is what Deferred promises, whatever
\* workers do to its hash and wherever they go down: Gateway may be built on Deferred.
THEOREM QueueImplementsDeferred == Spec => ImplementsDeferred
<1>1. Init => Promised!Init
  BY DEF Init, Promised!Init, Absent, Promised!Unknown, Promised!NoTime, NoTime
<1>2. JobInv /\ [Next]_vars => [Promised!Next]_Learned
  <2> SUFFICES ASSUME JobInv, [Next]_vars PROVE [Promised!Next]_Learned
    OBVIOUS
  <2>1. CASE UNCHANGED vars \/ \E w \in Workers : Pop(w)
    <3>1. hash' = hash
      BY <2>1 DEF vars, Pop
    <3> QED
      BY <3>1, SameLearned DEF LearnedOf
  <2> QED
    BY <2>1, CommandLearned, EnqueueLearned, TickLearned
    DEF Next, PopDue, Run, Command, Promised!Next
<1> QED
  BY <1>1, <1>2, JobInvariant, PTL DEF Spec, ImplementsDeferred, Promised!Spec, Learned, LearnedOf
=============================================================================
