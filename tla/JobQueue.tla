------------------------------ MODULE JobQueue ------------------------------
(***************************************************************************)
(* The deferred-work queue (queue.py) and the workers that drain it          *)
(* (worker.py) at the granularity of Redis commands: the hashes job:<id>,     *)
(* the sorted set queue:ready scored by due time, the sorted set queue:dlq.   *)
(* The gateway enqueues; every worker loops over run_once.  What the router   *)
(* makes of a job is a choice of verdicts.  Scores and expiries are kept as   *)
(* the time left.                                                            *)
(***************************************************************************)
EXTENDS Integers, Sequences, FiniteSets

CONSTANTS
    Jobs, Workers,
    NoJob,
    MaxAttempts,       \* queue.max_attempts
    BaseDelay,         \* queue.base_delay_s
    MaxDelay,          \* queue.max_delay_s
    JobTTL,            \* queue.job_ttl_s; NoTime: expiry is beyond the run
    DlqLimit           \* the limit of dead()

NoTime == -1

ASSUME NoJobAssumption == NoJob \notin Jobs
ASSUME MaxAttemptsAssumption == MaxAttempts \in Nat \ {0}
ASSUME DelayAssumption == BaseDelay \in Nat /\ MaxDelay \in Nat
ASSUME JobTTLAssumption == JobTTL \in (Nat \ {0}) \cup {NoTime}
ASSUME DlqLimitAssumption == DlqLimit \in Nat

VARIABLES
    hash,              \* hash[j]: the hash job:<j>
    ready,             \* ready[j]: time until j is due, NoTime if not in queue:ready
    dlq,               \* queue:dlq, oldest first
    worker,            \* worker[w]: where w is in run_once, and what it holds
    accepted,          \* ghost: the jobs enqueued so far
    tries,             \* ghost: how often a provider was tried for j and failed
    dropped            \* ghost: jobs a worker went down or raised with

vars == <<hash, ready, dlq, worker, accepted, tries, dropped>>

-----------------------------------------------------------------------------
Terminal == {"done", "failed", "dead"}
Status == {"queued", "running"} \cup Terminal

\* whole: the hash has the fields enqueue wrote, and not only an update's.
Hash == [status : Status \cup {"absent"}, attempts : Nat, whole : BOOLEAN, ttl : Nat \cup {NoTime}]
Absent == [status |-> "absent", attempts |-> 0, whole |-> FALSE, ttl |-> NoTime]

\* The command w sends next; get and run are await points without a write.
Step == {"idle", "putback", "get", "claim", "run", "complete", "fail",
         "retry", "defer", "reschedule", "bury", "file"}
Idle == [step |-> "idle", job |-> NoJob, attempts |-> 0, due |-> 0]
WorkerState == [step : Step, job : Jobs \cup {NoJob}, attempts : Nat, due : Nat]

Queued == {j \in Jobs : ready[j] # NoTime}
Holds(w, j) == worker[w].job = j
Return(w) == worker' = [worker EXCEPT ![w] = Idle]
At(w, step) == worker[w].step = step

\* retry_delay_s draws from 0 .. this.
DelayCeiling(attempt) ==
    IF BaseDelay * 2^attempt < MaxDelay THEN BaseDelay * 2^attempt ELSE MaxDelay

UpdatedRenewed(j, status, attempts) ==
    IF hash[j] = Absent
    THEN [status |-> status, attempts |-> attempts, whole |-> FALSE, ttl |-> NoTime]
    ELSE [hash[j] EXCEPT !.status = status, !.attempts = attempts, !.ttl = JobTTL]
\* _update is an HSET: it makes a hash that has expired anew, with no expiry and
\* none of the fields get() needs.
Updated(j, status, attempts) ==
    IF hash[j] = Absent
    THEN [status |-> status, attempts |-> attempts, whole |-> FALSE, ttl |-> NoTime]
    ELSE [hash[j] EXCEPT !.status = status, !.attempts = attempts]
Update(j, status) == hash' = [hash EXCEPT ![j] = Updated(j, status, @.attempts)]

Init ==
    /\ hash = [j \in Jobs |-> Absent]
    /\ ready = [j \in Jobs |-> NoTime]
    /\ dlq = <<>>
    /\ worker = [w \in Workers |-> Idle]
    /\ accepted = {}
    /\ tries = [j \in Jobs |-> 0]
    /\ dropped = {}

\* The gateway accepts a request: HSET, EXPIRE and ZADD in one MULTI.
Enqueue(j) ==
    /\ j \notin accepted
    /\ hash' = [hash EXCEPT ![j] = [status |-> "queued", attempts |-> 0, whole |-> TRUE,
                                    ttl |-> JobTTL]]
    /\ ready' = [ready EXCEPT ![j] = 0]
    /\ accepted' = accepted \cup {j}
    /\ UNCHANGED <<dlq, worker, tries, dropped>>

-----------------------------------------------------------------------------
(* pop_due *)

\* ZRANGE in place of ZPOPMIN.
Peek(w) ==
    \E j \in Queued :
        /\ At(w, "idle")
        /\ \A k \in Queued : ready[j] <= ready[k]
        /\ worker' = [worker EXCEPT ![w] = [Idle EXCEPT
                        !.step = IF ready[j] > 0 THEN "putback" ELSE "get",
                        !.job = j, !.due = ready[j]]]
        /\ UNCHANGED <<hash, ready, dlq, accepted, tries, dropped>>
\* ZPOPMIN takes the earliest job; one that is not due yet goes back.
Pop(w) ==
    \E j \in Queued :
        /\ At(w, "idle")
        /\ \A k \in Queued : ready[j] <= ready[k]
        /\ ready' = [ready EXCEPT ![j] = NoTime]
        /\ worker' = [worker EXCEPT ![w] = [Idle EXCEPT
                        !.step = IF ready[j] > 0 THEN "putback" ELSE "get",
                        !.job = j, !.due = ready[j]]]
        /\ UNCHANGED <<hash, dlq, accepted, tries, dropped>>

PutBackForgotten(w) ==
    /\ At(w, "putback")
    /\ Return(w)
    /\ UNCHANGED <<hash, ready, dlq, accepted, tries, dropped>>
PutBack(w) ==
    /\ At(w, "putback")
    /\ ready' = [ready EXCEPT ![worker[w].job] = worker[w].due]
    /\ Return(w)
    /\ UNCHANGED <<hash, dlq, accepted, tries, dropped>>

\* HGETALL: an expired hash is nothing to run; one that lacks the fields makes
\* get() raise KeyError, which the loop of main() swallows.
Get(w) ==
    /\ At(w, "get")
    /\ IF hash[worker[w].job].whole
       THEN worker' = [worker EXCEPT ![w] = [@ EXCEPT
                         !.step = "claim", !.attempts = hash[worker[w].job].attempts]]
       ELSE Return(w)
    /\ UNCHANGED <<hash, ready, dlq, accepted, tries, dropped>>

Claim(w) ==
    /\ At(w, "claim")
    /\ Update(worker[w].job, "running")
    /\ worker' = [worker EXCEPT ![w].step = "run"]
    /\ UNCHANGED <<ready, dlq, accepted, tries, dropped>>

-----------------------------------------------------------------------------
(* _run: the router's verdict decides which command comes next. *)

RouteOneMore(w) ==
    /\ At(w, "run")
    /\ \/ /\ worker' = [worker EXCEPT ![w].step = "complete"]
          /\ UNCHANGED tries
       \/ /\ worker' = [worker EXCEPT ![w].step = "fail"]
          /\ UNCHANGED tries
       \/ /\ worker' = [worker EXCEPT ![w].step = "defer"]
          /\ UNCHANGED tries
       \/ /\ worker' = [worker EXCEPT ![w].step =
                          IF worker[w].attempts + 1 > MaxAttempts THEN "bury" ELSE "retry"]
          /\ tries' = [tries EXCEPT ![worker[w].job] = @ + 1]
    /\ UNCHANGED <<hash, ready, dlq, accepted, dropped>>
Route(w) ==
    LET job == worker[w].job
        Verdict(step) == worker' = [worker EXCEPT ![w].step = step]
    IN  /\ At(w, "run")
        /\ \/ Verdict("complete") /\ UNCHANGED tries   \* a provider answered
           \/ Verdict("fail") /\ UNCHANGED tries       \* no ladder, or a caller fault
           \/ Verdict("defer") /\ UNCHANGED tries      \* every rung was skipped
           \/ /\ Verdict(IF worker[w].attempts + 1 >= MaxAttempts THEN "bury" ELSE "retry")
              /\ tries' = [tries EXCEPT ![job] = @ + 1]
        /\ UNCHANGED <<hash, ready, dlq, accepted, dropped>>

Complete(w) ==
    /\ At(w, "complete")
    /\ Update(worker[w].job, "done")
    /\ Return(w)
    /\ UNCHANGED <<ready, dlq, accepted, tries, dropped>>

Fail(w) ==
    /\ At(w, "fail")
    /\ Update(worker[w].job, "failed")
    /\ Return(w)
    /\ UNCHANGED <<ready, dlq, accepted, tries, dropped>>

\* retry(): the _update; a deferral spends no attempt and draws from the base
\* delay.
Requeue(w, step, attempts, delayFor) ==
    /\ At(w, step)
    /\ hash' = [hash EXCEPT ![worker[w].job] = Updated(worker[w].job, "queued", attempts)]
    /\ \E delay \in 0 .. DelayCeiling(delayFor) :
         worker' = [worker EXCEPT ![w] = [@ EXCEPT !.step = "reschedule", !.due = delay]]
    /\ UNCHANGED <<ready, dlq, accepted, tries, dropped>>
Retry(w) == Requeue(w, "retry", worker[w].attempts + 1, worker[w].attempts)
DeferCounted(w) == Requeue(w, "defer", worker[w].attempts + 1, 0)
DeferRefunded(w) == Requeue(w, "defer", worker[w].attempts - 1, 0)
Defer(w) == Requeue(w, "defer", worker[w].attempts, 0)

\* retry(): the ZADD.
Reschedule(w) ==
    /\ At(w, "reschedule")
    /\ ready' = [ready EXCEPT ![worker[w].job] = worker[w].due]
    /\ Return(w)
    /\ UNCHANGED <<hash, dlq, accepted, tries, dropped>>

\* dead_letter(): the _update, then the ZADD.
BuryOutright(w) ==
    /\ At(w, "bury")
    /\ Update(worker[w].job, "dead")
    /\ Return(w)
    /\ UNCHANGED <<ready, dlq, accepted, tries, dropped>>
Bury(w) ==
    /\ At(w, "bury")
    /\ Update(worker[w].job, "dead")
    /\ worker' = [worker EXCEPT ![w].step = "file"]
    /\ UNCHANGED <<ready, dlq, accepted, tries, dropped>>

\* ZADD of a member that is there moves it to the end.
Without(queue, j) ==
    IF \E i \in DOMAIN queue : queue[i] = j
    THEN LET i == CHOOSE i \in DOMAIN queue : queue[i] = j
         IN  SubSeq(queue, 1, i - 1) \o SubSeq(queue, i + 1, Len(queue))
    ELSE queue
FileDead(w) ==
    /\ At(w, "file")
    /\ dlq' = Append(Without(dlq, worker[w].job), worker[w].job)
    /\ Return(w)
    /\ UNCHANGED <<hash, ready, accepted, tries, dropped>>

-----------------------------------------------------------------------------
\* The worker dies, or Redis or the router raises and main() swallows it.
Drop(w) ==
    /\ ~ At(w, "idle")
    /\ Return(w)
    /\ dropped' = dropped \cup {worker[w].job}
    /\ UNCHANGED <<hash, ready, dlq, accepted, tries>>

Sooner(due) == IF due > 0 THEN due - 1 ELSE due
Tick ==
    /\ hash' = [j \in Jobs |-> IF hash[j].ttl = 1 THEN Absent
                              ELSE [hash[j] EXCEPT !.ttl = Sooner(@)]]
    /\ ready' = [j \in Jobs |-> Sooner(ready[j])]
    /\ worker' = [w \in Workers |-> [worker[w] EXCEPT !.due = Sooner(@)]]
    /\ UNCHANGED <<dlq, accepted, tries, dropped>>

PopDue(w) == Pop(w) \/ PutBack(w) \/ Get(w) \/ Claim(w)
Run(w) ==
    \/ Route(w) \/ Complete(w) \/ Fail(w)
    \/ Retry(w) \/ Defer(w) \/ Reschedule(w)
    \/ Bury(w) \/ FileDead(w)

Next ==
    \/ \E j \in Jobs : Enqueue(j)
    \/ \E w \in Workers : PopDue(w) \/ Run(w) \/ Drop(w)
    \/ Tick

Spec == Init /\ [][Next]_vars

\* Workers that are up keep looping (poll_interval_s), and time passes.
FairSpec == Spec /\ (\A w \in Workers : WF_vars(PopDue(w) \/ Run(w))) /\ WF_vars(Tick)

-----------------------------------------------------------------------------
TypeOK ==
    /\ hash \in [Jobs -> Hash]
    /\ ready \in [Jobs -> Nat \cup {NoTime}]
    /\ dlq \in Seq(Jobs)
    /\ worker \in [Workers -> WorkerState]
    /\ accepted \in SUBSET Jobs
    /\ tries \in [Jobs -> Nat]
    /\ dropped \in SUBSET (Jobs \cup {NoJob})

\* "more than one worker can drain this safely" (queue.py:7): a job is in the hands
\* of at most one worker, and then not in the queue for another to take, through
\* put-backs, retries and workers that go down at any command.
SingleOwner ==
    \A w \in Workers :
        worker[w].job # NoJob =>
            /\ ready[worker[w].job] = NoTime
            /\ \A v \in Workers \ {w} : worker[v].job # worker[w].job

\* A job is dead only when a provider was tried and failed max_attempts times, and
\* is never tried again: waiting for capacity spends no attempt (worker.py:104),
\* however deferrals and failures alternate and whichever worker takes it.
RetryBudget ==
    \A j \in Jobs :
        /\ tries[j] <= MaxAttempts
        /\ hash[j].whole /\ hash[j].status = "dead" => tries[j] = MaxAttempts

\* Between any two commands an accepted job that is not finished is in the queue
\* or with a worker, and a dead one in the dead-letter queue or on its way, unless
\* a worker went down with it - the one loss queue.py:10 accepts.
NothingLost ==
    \A j \in accepted \ dropped :
        hash[j].whole =>
            /\ hash[j].status \notin Terminal => j \in Queued \/ \E w \in Workers : Holds(w, j)
            /\ hash[j].status = "dead" =>
                 (\E i \in DOMAIN dlq : dlq[i] = j) \/ \E w \in Workers : Holds(w, j)

\* The promise of Deferred: what GET /v1/jobs says is final stays so, whichever
\* worker comes late, and no write of theirs lengthens or cuts the time for which an
\* accepted job can be read, or brings back one that has expired.
Promised == INSTANCE Deferred WITH
    Final <- Terminal,
    life <- [j \in Jobs |->
               [status |-> IF ~ hash[j].whole THEN "unknown"
                           ELSE IF hash[j].status \in Terminal THEN hash[j].status ELSE "pending",
                ttl |-> IF hash[j].whole THEN hash[j].ttl ELSE NoTime]]
ImplementsDeferred == Promised!Spec

\* Once no worker goes down and the ladder has capacity again, every accepted job
\* gets its final answer, whatever was deferred and put back on the way - as long
\* as its hash does not expire first.
Settles ==
    \A w \in Workers : ~ Drop(w) /\ ~ (At(w, "run") /\ worker'[w].step = "defer")
QueueDrains ==
    <>[][Settles]_vars =>
        \A j \in Jobs : j \in accepted ~> (hash[j].status \in Terminal \/ j \in dropped)

-----------------------------------------------------------------------------
(* What the docs say of expired jobs and of the dead-letter queue, and a hash
   expiring in a worker's hands breaks. *)

\* "Jobs whose hash has aged out are skipped" (queue.py:230): dead() can list the
\* queue, every entry of which is a whole job or gone.
Listed == {dlq[i] : i \in 1 .. (IF Len(dlq) < DlqLimit THEN Len(dlq) ELSE DlqLimit)}
DeadLettersReadable == \A j \in Listed : hash[j] = Absent \/ hash[j].whole
=============================================================================
