------------------------------ MODULE Gateway ------------------------------
(***************************************************************************)
(* POST /v1/chat/completions with an Idempotency-Key (main.py): the claim,    *)
(* the serving - a walk down the ladder, or a job for the queue - and the     *)
(* store or release, one action per await on Redis.  Any number of requests   *)
(* overlap, a process may stop, a request may be cancelled, and Redis may      *)
(* fail before or after it has done what it was asked.  The queue is Deferred. *)
(***************************************************************************)
EXTENDS Idempotency, FiniteSets

CONSTANTS
    Requests,      \* handlers; one that has ended may take another request
    Jobs,          \* job ids
    JobTTL,        \* queue.job_ttl_s
    NoAnswer,
    ServeTime      \* bound: the longest from a claim to its store or release

\* Providers time out (timeout_s), and a day is longer than a ladder of them; a job
\* is kept no shorter than an answer that names it (config.py:103).
ASSUME ServeTimeAssumption == ServeTime \in Nat /\ ServeTime < IdemTTL
ASSUME AnswersAssumption == Jobs \subseteq Answers /\ NoAnswer \notin Answers
ASSUME JobTTLAssumption == JobTTL \in Nat /\ JobTTL >= IdemTTL

VARIABLES
    request,       \* request[r]: where chat_completions is, and its local variables
    job,           \* job[j]: the hash of job j, as Deferred keeps it
    orphans,       \* ghost: names claimed by a request that is gone
    work           \* ghost: work[n]: the last work done under n, and how long ago

vars == <<stored, request, job, orphans, work>>

Queue == INSTANCE Deferred WITH Final <- {"over"}, life <- job

-----------------------------------------------------------------------------
\* The command a request sends next; an ended one keeps what it was answered.
Step == {"idle", "get", "serve", "store", "release", "answered"}
Owning == {"serve", "store", "release"}
NoEnvelope == [tenant |-> <<>>, answer |-> NoAnswer]
Idle == [step |-> "idle", tenant |-> <<>>, name |-> <<>>, envelope |-> NoEnvelope, elapsed |-> 0]
Request ==
    {Idle} \cup [step : Step \ {"idle"}, tenant : Tenants, name : Names,
                 envelope : Envelope \cup {NoEnvelope}, elapsed : 0 .. ServeTime]

At(r, step) == request[r].step = step
Owns(r, n) == request[r].step \in Owning /\ request[r].name = n
Proceed(r, step) == request' = [request EXCEPT ![r].step = step]
End(r) == request' = [request EXCEPT ![r] = Idle]

\* Forgotten when no claim or answer made for it can be left.
Horizon == IdemTTL + ServeTime
NoWork == [envelope |-> NoEnvelope, age |-> 0, lost |-> FALSE]
Work == [envelope : Envelope \cup {NoEnvelope}, age : 0 .. Horizon - 1, lost : BOOLEAN]
Done(n, envelope, lost) ==
    work' = [work EXCEPT ![n] = [envelope |-> envelope, age |-> 0, lost |-> lost]]

\* uuid4, and what providers return: nothing that is about has this identity.
Fresh(answer) ==
    /\ \A n \in Names : work[n].envelope.answer # answer
    /\ \A r \in Requests : request[r].envelope.answer # answer
    /\ answer \in Jobs => job[answer] = Queue!Unknown

Init ==
    /\ stored = [n \in Names |-> Nothing]
    /\ request = [r \in Requests |-> Idle]
    /\ job = [j \in Jobs |-> Queue!Unknown]
    /\ orphans = {}
    /\ work = [n \in Names |-> NoWork]

-----------------------------------------------------------------------------
(* claim *)

Arrives(r, step, tenant, key) ==
    /\ request[r].step \in {"idle", "answered"}
    /\ request' = [request EXCEPT ![r] =
                     [step |-> step, tenant |-> tenant, name |-> Name(tenant, key),
                      envelope |-> NoEnvelope, elapsed |-> 0]]

Claims(r, tenant, key) ==
    /\ Claim(Name(tenant, key))
    /\ Arrives(r, "serve", tenant, key)
    /\ UNCHANGED <<job, orphans, work>>

\* SET NX was done, but not answered: claim() raises, outside the guard.
ClaimsInVain(r, tenant, key) ==
    /\ request[r].step \in {"idle", "answered"}
    /\ Claim(Name(tenant, key))
    /\ End(r)
    /\ orphans' = orphans \cup {Name(tenant, key)}
    /\ UNCHANGED <<job, work>>

FindsTaken(r, tenant, key) ==
    /\ ~ Free(Name(tenant, key))
    /\ Arrives(r, "get", tenant, key)
    /\ UNCHANGED <<stored, job, orphans, work>>

ReplayReleasing(r) ==
    LET n == request[r].name
    IN  /\ At(r, "get")
        /\ \/ /\ Held(n)
              /\ request' = [request EXCEPT ![r].step = "answered",
                                            ![r].envelope = stored[n].envelope]
              /\ UNCHANGED stored
           \/ ~ Held(n) /\ End(r) /\ Release(n)
        /\ UNCHANGED <<job, orphans, work>>
ReplayRenewing(r) ==
    LET n == request[r].name
    IN  /\ At(r, "get")
        /\ \/ /\ Held(n)
              /\ request' = [request EXCEPT ![r].step = "answered",
                                            ![r].envelope = stored[n].envelope]
              /\ Store(n, stored[n].envelope)
           \/ ~ Held(n) /\ End(r) /\ UNCHANGED stored
        /\ UNCHANGED <<job, orphans, work>>
\* The GET and _replay: the response, or a 409 for a claim or a key just expired.
Replay(r) ==
    LET n == request[r].name
    IN  /\ At(r, "get")
        /\ \/ /\ Held(n)
              /\ request' = [request EXCEPT ![r].step = "answered",
                                            ![r].envelope = stored[n].envelope]
           \/ ~ Held(n) /\ End(r)
        /\ UNCHANGED <<stored, job, orphans, work>>

-----------------------------------------------------------------------------
(* _serve *)

Returns(r, answer) ==
    LET envelope == [tenant |-> request[r].tenant, answer |-> answer]
    IN  /\ At(r, "serve") /\ Fresh(answer)
        /\ request' = [request EXCEPT ![r].step = "store", ![r].envelope = envelope]
        /\ Done(request[r].name, envelope, FALSE)
        /\ UNCHANGED <<stored, orphans>>

\* A provider answered: 200.
Completes(r, answer) ==
    /\ answer \notin Jobs
    /\ Returns(r, answer)
    /\ UNCHANGED job

\* _accept: the job is queued: 202.
Accepts(r, j) == Returns(r, j) /\ Queue!Accept(j)

\* The job is queued, but the request is cancelled or Redis fails before it knows.
AcceptsInVain(r, j) ==
    /\ At(r, "serve") /\ Fresh(j)
    /\ Queue!Accept(j)
    /\ Proceed(r, "release")
    /\ Done(request[r].name, [tenant |-> request[r].tenant, answer |-> j], TRUE)
    /\ UNCHANGED <<stored, orphans>>

FailsUnreleased(r) ==
    /\ At(r, "serve")
    /\ End(r)
    /\ UNCHANGED <<stored, job, orphans, work>>
\* No ladder, an exhausted one, a caller's fault, a cancellation: an exception or a
\* status from 400 on.
Fails(r) ==
    /\ At(r, "serve")
    /\ Proceed(r, "release")
    /\ UNCHANGED <<stored, job, orphans, work>>

-----------------------------------------------------------------------------
(* store and release *)

StoresAndReleases(r) ==
    /\ At(r, "store")
    /\ Release(request[r].name)
    /\ Proceed(r, "answered")
    /\ UNCHANGED <<job, orphans, work>>
Stores(r) ==
    /\ At(r, "store")
    /\ Store(request[r].name, request[r].envelope)
    /\ Proceed(r, "answered")
    /\ UNCHANGED <<job, orphans, work>>

\* The SET was done, but not answered: store() raises, outside the guard.
StoresInVain(r) ==
    /\ At(r, "store")
    /\ Store(request[r].name, request[r].envelope)
    /\ End(r)
    /\ UNCHANGED <<job, orphans, work>>

Releases(r) ==
    /\ At(r, "release")
    /\ Release(request[r].name)
    /\ End(r)
    /\ UNCHANGED <<job, orphans, work>>

\* The process stops, or a command raises that was not done.
GoesAway(r) ==
    /\ request[r].step \in Owning \cup {"get"}
    /\ orphans' = IF request[r].step \in Owning THEN orphans \cup {request[r].name} ELSE orphans
    /\ End(r)
    /\ UNCHANGED <<stored, job, work>>

-----------------------------------------------------------------------------
\* The queue's side: a worker gives job j its final status.
Finishes(j) ==
    /\ Queue!Finish(j)
    /\ UNCHANGED <<stored, request, orphans, work>>

Older(done) ==
    IF done = NoWork \/ done.age = Horizon - 1 THEN NoWork ELSE [done EXCEPT !.age = @ + 1]
Tick ==
    /\ \A r \in Requests : request[r].step \in Owning => request[r].elapsed < ServeTime
    /\ Expire
    /\ Queue!Tick
    /\ request' = [r \in Requests |->
                     IF request[r].step \in Owning THEN [request[r] EXCEPT !.elapsed = @ + 1]
                     ELSE request[r]]
    /\ orphans' = {n \in orphans : stored'[n] # Nothing}
    /\ work' = [n \in Names |-> Older(work[n])]

Serves(r) ==
    \/ \E answer \in Answers : Completes(r, answer)
    \/ \E j \in Jobs : Accepts(r, j) \/ AcceptsInVain(r, j)
    \/ Fails(r)
Asks(r, tenant, key) ==
    Claims(r, tenant, key) \/ ClaimsInVain(r, tenant, key) \/ FindsTaken(r, tenant, key)
GoesOn(r) == Replay(r) \/ Serves(r) \/ Stores(r) \/ StoresInVain(r) \/ Releases(r)

Next ==
    \/ \E r \in Requests, tenant \in Tenants : \E key \in Keys[tenant] : Asks(r, tenant, key)
    \/ \E r \in Requests : GoesOn(r) \/ GoesAway(r)
    \/ \E j \in Jobs : Finishes(j)
    \/ Tick

Spec == Init /\ [][Next]_vars

\* asyncio resumes a handler that Redis or the router has answered; time passes.
FairSpec == Spec /\ (\A r \in Requests : WF_vars(GoesOn(r))) /\ WF_vars(Tick)

-----------------------------------------------------------------------------
TypeOK ==
    /\ stored \in [Names -> Entry]
    /\ request \in [Requests -> Request]
    /\ job \in [Jobs -> Queue!Life]
    /\ orphans \in SUBSET Names
    /\ work \in [Names -> Work]

\* At most one request at a time does the work of a key, through releases, expiries,
\* and claims left behind (claim(), idempotency.py:28), and it is still the one the
\* claim was for when it stores or releases, neither of which looks.
SingleClaim ==
    \A r \in Requests, n \in Names :
        Owns(r, n) => InFlight(n) /\ n \notin orphans /\ \A s \in Requests \ {r} : ~ Owns(s, n)

\* A 409 means that somebody is at work on the key: on every path of failure the
\* claim goes with the request (release(), idempotency.py:61), unless a process
\* stopped or Redis failed.
ClaimHasOwner ==
    \A n \in Names : InFlight(n) => n \in orphans \/ \E r \in Requests : Owns(r, n)

\* What a key replays is the complete response of the last work done under it,
\* however requests overlap and claims expire.
ReplaysLastWork ==
    \A n \in Names :
        Held(n) => stored[n].envelope = work[n].envelope /\ ~ work[n].lost

\* An answer made for one tenant is handed to another only where _key makes one string
\* of two: their names and keys, joined with colons, are the same.  Requests that
\* overlap, claims left behind and answers that expire never mix tenants otherwise.
CrossesByCollision ==
    \A r \in Requests :
        LET maker == request[r].envelope.tenant
            asker == request[r].tenant
        IN  At(r, "answered") /\ maker # asker =>
                \E k \in Keys[asker], l \in Keys[maker] :
                    request[r].name = Name(asker, k) /\ maker \o l = asker \o k

\* Work done under a key is not done again before its claim or its answer has
\* expired (idempotency.py:1), unless the request was cut off before it had a
\* response to return.
NewWork(n) == work'[n].envelope \notin {work[n].envelope, NoEnvelope}
Protected(n) == work[n].envelope # NoEnvelope /\ work[n].age < IdemTTL - ServeTime
BilledOnce ==
    [][\A n \in Names : NewWork(n) /\ Protected(n) => work[n].lost]_vars

\* A replayed 202 names a job that can still be read, although the job's expiry runs
\* from its acceptance and the answer's from its store: only in the last ServeTime
\* of the answer may the job be gone.
JobCollectable ==
    \A n \in Names :
        Held(n) /\ stored[n].envelope.answer \in Jobs /\ stored[n].ttl > ServeTime =>
            job[stored[n].envelope.answer] # Queue!Unknown

\* "The key is namespaced by tenant" (idempotency.py:8): no replay hands a tenant the
\* other's response.  A colon in a tenant's name breaks it.
RepliesToTenant ==
    \A r \in Requests : At(r, "answered") => request[r].envelope.tenant = request[r].tenant

\* A key that clients keep sending is answered again and again once nothing fails any
\* more: what was left in flight is not in flight for ever.  (A handler that goes away
\* with a 409 in its hands has lost nothing.)
Loses(r) == GoesAway(r) /\ (request[r].step \in Owning \/ Held(request[r].name))
Calm(r) == ~ Fails(r) /\ ~ Loses(r) /\ ~ StoresInVain(r) /\ \A j \in Jobs : ~ AcceptsInVain(r, j)
CalmSteps ==
    \A r \in Requests :
        Calm(r) /\ \A tenant \in Tenants : \A key \in Keys[tenant] : ~ ClaimsInVain(r, tenant, key)
KeyIsAnswered ==
    \A tenant \in Tenants : \A key \in Keys[tenant] :
        /\ <>[][CalmSteps]_vars
        /\ []<><<\E r \in Requests : Asks(r, tenant, key)>>_vars
        => []<>(\E r \in Requests : At(r, "answered") /\ request[r].name = Name(tenant, key))
=============================================================================
