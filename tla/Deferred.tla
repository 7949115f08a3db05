------------------------------ MODULE Deferred ------------------------------
(***************************************************************************)
(* What the queue and its workers promise about a job to those who only read  *)
(* its hash: once accepted it is pending until it gets one final status, and  *)
(* it can be read for JobTTL after it was accepted, however often workers     *)
(* write to it.  JobQueue implements this; Gateway is built on it.            *)
(***************************************************************************)
EXTENDS Integers

CONSTANTS
    Jobs,
    Final,         \* the final statuses told apart
    JobTTL         \* queue.job_ttl_s; NoTime: expiry is beyond the run

NoTime == -1

VARIABLE
    life           \* life[j]: what GET /v1/jobs/<j> can learn, and for how long

Unknown == [status |-> "unknown", ttl |-> NoTime]
Life == [status : {"unknown", "pending"} \cup Final, ttl : Nat \cup {NoTime}]

Init == life = [j \in Jobs |-> Unknown]

Accept(j) ==
    /\ life[j] = Unknown
    /\ life' = [life EXCEPT ![j] = [status |-> "pending", ttl |-> JobTTL]]

Finish(j) ==
    /\ life[j].status = "pending"
    /\ \E status \in Final : life' = [life EXCEPT ![j].status = status]

Aged(entry) ==
    IF entry.ttl = 1 THEN Unknown
    ELSE [entry EXCEPT !.ttl = IF @ > 1 THEN @ - 1 ELSE @]
Tick == life' = [j \in Jobs |-> Aged(life[j])]

Next == (\E j \in Jobs : Accept(j) \/ Finish(j)) \/ Tick

Spec == Init /\ [][Next]_life
=============================================================================
