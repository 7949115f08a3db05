------------------------ MODULE GatewayReplayProofs ------------------------
(***************************************************************************)
(* Theorems about what a key replays, for any instance of Gateway: the last   *)
(* work done under it, a job that can still be read, no work done twice, and  *)
(* the work of a tenant whose name it can be.                                *)
(***************************************************************************)
EXTENDS GatewayProofs

Storing(r, n) == At(r, "store") /\ request[r].name = n

\* What is about to be stored is the last work done under the name, no older than the
\* claim of the request that did it.
StoreMatches(n) ==
    \A r \in Requests :
        Storing(r, n) =>
            /\ work[n].envelope = request[r].envelope /\ ~ work[n].lost
            /\ work[n].age <= request[r].elapsed

\* A stored answer is the last work done under the name, which is not forgotten before
\* the answer expires.
HeldMatches(n) ==
    Held(n) =>
        /\ stored[n].envelope = work[n].envelope /\ ~ work[n].lost
        /\ work[n].age + stored[n].ttl <= Horizon

\* Work that was not cut off is guarded by the request that stores it, and then by its
\* answer, or by the claim of a request that is gone, for IdemTTL - ServeTime.
Guarded(n) ==
    work[n].envelope # NoEnvelope /\ ~ work[n].lost =>
        \/ \E r \in Requests : Storing(r, n)
        \/ /\ Held(n) \/ n \in orphans
           /\ stored[n].ttl + work[n].age >= IdemTTL - ServeTime
        \/ work[n].age >= IdemTTL - ServeTime

\* A job that is somebody's last work has been there for as long as that work.
JobKept(n) ==
    work[n].envelope.answer \in Jobs /\ work[n].age < JobTTL =>
        job[work[n].envelope.answer].ttl = JobTTL - work[n].age

Matches(n) == StoreMatches(n) /\ HeldMatches(n) /\ Guarded(n) /\ JobKept(n)

WorkInv == Inv /\ \A n \in Names : Matches(n)

LEMMA WorkTypes ==
    ASSUME TypeOK, NEW n \in Names
    PROVE  /\ work[n] \in Work /\ work[n].age \in 0 .. Horizon - 1
           /\ Horizon \in Nat /\ Horizon = IdemTTL + ServeTime
  BY IdemTTLAssumption, ServeTimeAssumption DEF TypeOK, Work, Horizon

LEMMA NoEnvelopeIsNone == NoEnvelope.answer \notin Jobs /\ NoEnvelope \notin Envelope
  BY AnswersAssumption DEF NoEnvelope, Envelope

LEMMA WorkInit == Init => WorkInv
<1> SUFFICES ASSUME Init PROVE WorkInv
  OBVIOUS
<1>1. Inv
  BY InvInit
<1>2. ASSUME NEW n \in Names PROVE Matches(n)
  BY NoEnvelopeIsNone DEF Init, Matches, StoreMatches, HeldMatches, Guarded, JobKept,
                          Storing, At, Idle, Held, Nothing, NoWork
<1> QED
  BY <1>1, <1>2 DEF WorkInv

\* A name whose key, work and job a step leaves alone, and which nobody who stores
\* comes to or leaves.
LEMMA Untouched ==
    ASSUME NEW n \in Names, Matches(n),
           stored'[n] = stored[n], work'[n] = work[n], n \in orphans => n \in orphans',
           \A j \in Jobs : work[n].envelope.answer = j => job'[j].ttl = job[j].ttl,
           \A r \in Requests :
             /\ Storing(r, n)' <=> Storing(r, n)
             /\ Storing(r, n) => request'[r] = request[r]
    PROVE  Matches(n)'
<1>1. StoreMatches(n)'
  BY DEF Matches, StoreMatches
<1>2. HeldMatches(n)'
  BY DEF Matches, HeldMatches, Held
<1>3. Guarded(n)'
  BY DEF Matches, Guarded, Held
<1>4. JobKept(n)'
  BY DEF Matches, JobKept
<1> QED
  BY <1>1, <1>2, <1>3, <1>4 DEF Matches

\* A free name, or one whose owner does not store, guards no work any more.
LEMMA Unguarded ==
    ASSUME Inv, NEW n \in Names, Matches(n),
           \/ Free(n)
           \/ \E r \in Requests : Owns(r, n) /\ ~ At(r, "store")
    PROVE  /\ \A r \in Requests : ~ Storing(r, n)
           /\ ~ Held(n) /\ n \notin orphans
           /\ work[n].envelope # NoEnvelope /\ ~ work[n].lost =>
                work[n].age >= IdemTTL - ServeTime
<1>1. \A r \in Requests : Storing(r, n) => Owns(r, n)
  BY DEF Storing, At, Owns, Owning
<1>2. /\ \A r \in Requests : ~ Storing(r, n)
      /\ ~ Held(n) /\ n \notin orphans
  <2>1. CASE Free(n)
    BY <1>1, <2>1 DEF Inv, Claimed, ClaimOf, OrphansHeld, Free, Nothing, Held
  <2>2. ASSUME NEW r \in Requests, Owns(r, n), ~ At(r, "store")
        PROVE  (\A s \in Requests : ~ Storing(s, n)) /\ ~ Held(n) /\ n \notin orphans
    BY <1>1, <2>2 DEF Inv, Claimed, ClaimOf, Held, Storing
  <2> QED
    BY <2>1, <2>2
<1> QED
  BY <1>2 DEF Matches, Guarded

-----------------------------------------------------------------------------
(* The steps. *)

\* A step of r at another name.
LEMMA Elsewhere ==
    ASSUME NEW n \in Names, Matches(n), NEW r \in Requests,
           stored'[n] = stored[n], work'[n] = work[n], n \in orphans => n \in orphans',
           \A j \in Jobs : work[n].envelope.answer = j => job'[j].ttl = job[j].ttl,
           \A s \in Requests \ {r} : request'[s] = request[s],
           ~ Storing(r, n), ~ Storing(r, n)'
    PROVE  Matches(n)'
<1>1. \A s \in Requests \ {r} : Storing(s, n)' <=> Storing(s, n)
  BY DEF Storing, At
<1> QED
  BY <1>1, Untouched

\* A name that is left with nothing to store or replay, and whose work needs no guard.
LEMMA LeftUnguarded ==
    ASSUME NEW n \in Names, Matches(n), work'[n] = work[n], UNCHANGED job,
           ~ Held(n)', \A r \in Requests : ~ Storing(r, n)',
           work[n].envelope # NoEnvelope /\ ~ work[n].lost => work[n].age >= IdemTTL - ServeTime
    PROVE  Matches(n)'
  BY DEF Matches, StoreMatches, HeldMatches, Guarded, JobKept

LEMMA AsksWork ==
    ASSUME WorkInv, NEW r \in Requests, NEW tenant \in Tenants, NEW key \in Keys[tenant],
           Asks(r, tenant, key), NEW n \in Names
    PROVE  Matches(n)'
<1>1. PICK m \in Names : m = Name(tenant, key)
  BY DEF Names
<1>2. /\ stored \in [Names -> Entry] /\ request \in [Requests -> Request]
      /\ Inv /\ Matches(n)
  BY DEF WorkInv, Inv, TypeInv, TypeOK
<1>3. ~ At(r, "store")
  BY DEF Asks, Claims, ClaimsInVain, FindsTaken, Arrives, At
<1>4. ~ At(r, "store")' /\ \A s \in Requests \ {r} : request'[s] = request[s]
  BY <1>2 DEF Asks, Claims, ClaimsInVain, FindsTaken, Arrives, End, At, Idle
<1>5. job' = job /\ work' = work /\ orphans \subseteq orphans'
  BY DEF Asks, Claims, ClaimsInVain, FindsTaken
<1>6. CASE stored' = stored \/ (n # m /\ Claim(m))
  <2>1. stored'[n] = stored[n]
    BY <1>2, <1>6 DEF Claim, Put
  <2> QED
    BY <1>2, <1>3, <1>4, <1>5, <2>1, Elsewhere DEF Storing
<1>7. CASE n = m /\ Claim(m)
  <2>1. Free(n) /\ stored'[n] = [kind |-> "in_flight", ttl |-> IdemTTL]
    BY <1>2, <1>7 DEF Claim, Put
  <2>2. ~ Held(n)'
    BY <2>1 DEF Held
  <2>3. /\ \A s \in Requests : ~ Storing(s, n)
        /\ work[n].envelope # NoEnvelope /\ ~ work[n].lost => work[n].age >= IdemTTL - ServeTime
    BY <1>2, <2>1, Unguarded
  <2>4. \A s \in Requests : ~ Storing(s, n)'
    BY <1>4, <2>3 DEF Storing, At
  <2> QED
    BY <1>2, <1>5, <2>2, <2>3, <2>4, LeftUnguarded
<1> QED
  BY <1>1, <1>6, <1>7 DEF Asks, Claims, ClaimsInVain, FindsTaken

\* What a handler's step does to the other handlers, and to the other names.
LEMMA OwnStep ==
    ASSUME Inv, NEW r \in Requests
    PROVE  /\ \A step : Proceed(r, step) =>
                /\ \A s \in Requests \ {r} : request'[s] = request[s]
                /\ request'[r].step = step
           /\ \A step, envelope :
                request' = [request EXCEPT ![r].step = step, ![r].envelope = envelope] =>
                  /\ \A s \in Requests \ {r} : request'[s] = request[s]
                  /\ request'[r].step = step /\ request'[r].envelope = envelope
                  /\ request'[r].name = request[r].name
                  /\ request'[r].elapsed = request[r].elapsed
           /\ End(r) => /\ \A s \in Requests \ {r} : request'[s] = request[s]
                        /\ request'[r].step = "idle"
           /\ \A n, entry : n \in Names /\ Put(n, entry) =>
                stored'[n] = entry /\ \A m \in Names \ {n} : stored'[m] = stored[m]
           /\ \A n, envelope, lost : n \in Names /\ Done(n, envelope, lost) =>
                /\ work'[n] = [envelope |-> envelope, age |-> 0, lost |-> lost]
                /\ \A m \in Names \ {n} : work'[m] = work[m]
           /\ \A j : j \in Jobs /\ Queue!Accept(j) =>
                job'[j].ttl = JobTTL /\ \A k \in Jobs \ {j} : job'[k] = job[k]
<1>1. /\ stored \in [Names -> Entry] /\ request \in [Requests -> Request]
      /\ work \in [Names -> Work] /\ job \in [Jobs -> Queue!Life] /\ request[r] \in Request
  BY DEF Inv, TypeInv, TypeOK
<1>2. ASSUME NEW step, Proceed(r, step)
      PROVE  /\ \A s \in Requests \ {r} : request'[s] = request[s]
             /\ request'[r].step = step
  BY <1>1, <1>2 DEF Proceed, Request, Idle
<1>3. ASSUME NEW step, NEW envelope,
             request' = [request EXCEPT ![r].step = step, ![r].envelope = envelope]
      PROVE  /\ \A s \in Requests \ {r} : request'[s] = request[s]
             /\ request'[r].step = step /\ request'[r].envelope = envelope
             /\ request'[r].name = request[r].name
             /\ request'[r].elapsed = request[r].elapsed
  BY <1>1, <1>3 DEF Request, Idle
<1>4. End(r) => /\ \A s \in Requests \ {r} : request'[s] = request[s]
                /\ request'[r].step = "idle"
  BY <1>1 DEF End, Idle
<1>5. ASSUME NEW n \in Names, NEW entry, Put(n, entry)
      PROVE  stored'[n] = entry /\ \A m \in Names \ {n} : stored'[m] = stored[m]
  BY <1>1, <1>5 DEF Put
<1>6. ASSUME NEW n \in Names, NEW envelope, NEW lost, Done(n, envelope, lost)
      PROVE  /\ work'[n] = [envelope |-> envelope, age |-> 0, lost |-> lost]
             /\ \A m \in Names \ {n} : work'[m] = work[m]
  BY <1>1, <1>6 DEF Done
<1>7. ASSUME NEW j \in Jobs, Queue!Accept(j)
      PROVE  job'[j].ttl = JobTTL /\ \A k \in Jobs \ {j} : job'[k] = job[k]
  BY <1>1, <1>7 DEF Queue!Accept
<1> QED
  BY <1>2, <1>3, <1>4, <1>5, <1>6, <1>7

\* The request that serves a name does the work of it: the name was unguarded, and its
\* new work is either cut off or in the hands of that request.
LEMMA WorkIsDone ==
    ASSUME WorkInv, NEW r \in Requests, NEW n \in Names, NEW answer \in Answers, NEW lost \in BOOLEAN,
           At(r, "serve"), request[r].name = n, Fresh(answer),
           Done(n, [tenant |-> request[r].tenant, answer |-> answer], lost),
           UNCHANGED <<stored, orphans>>,
           \/ answer \notin Jobs /\ UNCHANGED job
           \/ answer \in Jobs /\ Queue!Accept(answer),
           \/ lost /\ Proceed(r, "release")
           \/ /\ ~ lost
              /\ request' = [request EXCEPT ![r].step = "store",
                   ![r].envelope = [tenant |-> request[r].tenant, answer |-> answer]],
           NEW m \in Names
    PROVE  Matches(m)'
<1>1. Inv /\ Matches(m) /\ Matches(n)
  BY DEF WorkInv
<1>2. PICK envelope : envelope = [tenant |-> request[r].tenant, answer |-> answer]
  OBVIOUS
<1>3. /\ \A s \in Requests \ {r} : request'[s] = request[s]
      /\ \/ lost /\ request'[r].step = "release"
         \/ /\ ~ lost /\ request'[r].step = "store" /\ request'[r].name = n
            /\ request'[r].envelope = envelope /\ request'[r].elapsed = request[r].elapsed
  <2>1. CASE lost /\ Proceed(r, "release")
    BY <1>1, <2>1, OwnStep
  <2>2. CASE ~ lost /\ request' = [request EXCEPT ![r].step = "store", ![r].envelope = envelope]
    <3>1. /\ \A s \in Requests \ {r} : request'[s] = request[s]
          /\ request'[r].step = "store" /\ request'[r].envelope = envelope
          /\ request'[r].name = request[r].name /\ request'[r].elapsed = request[r].elapsed
      BY <1>1, <2>2, OwnStep
    <3> QED
      BY <2>2, <3>1
  <2> QED
    BY <1>2, <2>1, <2>2
<1>4. /\ work'[n] = [envelope |-> envelope, age |-> 0, lost |-> lost]
      /\ \A k \in Names \ {n} : work'[k] = work[k]
  BY <1>1, <1>2, OwnStep
<1>5. /\ \A k \in Jobs \ {answer} : job'[k] = job[k]
      /\ answer \in Jobs => job'[answer].ttl = JobTTL
  BY <1>1, OwnStep
<1>6. CASE m # n
  <2>1. work[m].envelope.answer # answer
    BY DEF Fresh
  <2>2. ~ Storing(r, m) /\ ~ Storing(r, m)'
    BY <1>3, <1>6 DEF Storing, At
  <2> QED
    BY <1>1, <1>3, <1>4, <1>5, <1>6, <2>1, <2>2, Elsewhere
<1>7. CASE m = n
  <2>1. Owns(r, n) /\ ~ At(r, "store")
    BY DEF Owns, Owning, At
  <2>2. (\A s \in Requests : ~ Storing(s, n)) /\ ~ Held(n)
    BY <1>1, <2>1, Unguarded
  <2>3. ~ Held(n)' /\ \A s \in Requests \ {r} : ~ Storing(s, n)'
    BY <1>3, <2>2 DEF Storing, At, Held
  <2>4. Storing(r, n)' <=> ~ lost
    BY <1>3 DEF Storing, At
  <2>5. request[r].elapsed \in 0 .. ServeTime
    BY <2>1, RequestKinds DEF WorkInv, Inv, TypeInv, TypeOK, At, Idle
  <2>6. StoreMatches(n)'
    BY <1>3, <1>4, <2>3, <2>4, <2>5 DEF StoreMatches
  <2>7. HeldMatches(n)' /\ Guarded(n)'
    BY <1>4, <2>3, <2>4 DEF HeldMatches, Guarded
  <2>8. JobKept(n)'
    BY <1>2, <1>4, <1>5, JobTTLAssumption DEF JobKept
  <2> QED
    BY <1>7, <2>6, <2>7, <2>8 DEF Matches
<1> QED
  BY <1>6, <1>7

\* The request that stores hands its work over to the answer.
LEMMA AnswerIsStored ==
    ASSUME WorkInv, NEW r \in Requests, NEW n \in Names,
           Storing(r, n), Store(n, request[r].envelope),
           \A s \in Requests \ {r} : request'[s] = request[s], request'[r].step # "store",
           UNCHANGED <<job, work, orphans>>, NEW m \in Names
    PROVE  Matches(m)'
<1>1. Inv /\ Matches(m) /\ Matches(n)
  BY DEF WorkInv
<1>2. /\ stored'[n] = [kind |-> "response", ttl |-> IdemTTL, envelope |-> request[r].envelope]
      /\ \A k \in Names \ {n} : stored'[k] = stored[k]
  BY <1>1, OwnStep DEF Store
<1>3. CASE m # n
  <2>1. ~ Storing(r, m) /\ ~ Storing(r, m)'
    BY <1>3 DEF Storing, At
  <2> QED
    BY <1>1, <1>2, <1>3, <2>1, Elsewhere
<1>4. CASE m = n
  <2>1. \A s \in Requests \ {r} : ~ Storing(s, n)
    BY <1>1 DEF Inv, Claimed, ClaimOf, Storing, At, Owns, Owning
  <2>2. \A s \in Requests : ~ Storing(s, n)'
    BY <2>1 DEF Storing, At
  <2>3. request[r].elapsed \in 0 .. ServeTime
    BY RequestKinds DEF WorkInv, Inv, TypeInv, TypeOK, Storing, At, Idle
  <2>4. /\ work[n].envelope = request[r].envelope /\ ~ work[n].lost
        /\ work[n].age <= request[r].elapsed /\ work[n].age \in Nat
    BY <1>1, WorkTypes DEF Matches, StoreMatches, Inv, TypeInv
  <2>5. HeldMatches(n)'
    BY <1>2, <2>3, <2>4, IdemTTLAssumption, ServeTimeAssumption DEF HeldMatches, Held, Horizon
  <2>6. Guarded(n)'
    BY <1>2, <2>4, IdemTTLAssumption, ServeTimeAssumption DEF Guarded, Held
  <2>7. StoreMatches(n)' /\ JobKept(n)'
    BY <1>1, <2>2 DEF Matches, StoreMatches, JobKept
  <2> QED
    BY <1>4, <2>5, <2>6, <2>7 DEF Matches
<1> QED
  BY <1>3, <1>4

LEMMA GoesOnWork ==
    ASSUME WorkInv, NEW r \in Requests, GoesOn(r) \/ GoesAway(r), NEW m \in Names
    PROVE  Matches(m)'
<1>1. PICK n \in Names : n = request[r].name
  BY Underway DEF WorkInv, Inv, TypeInv
<1>2. Inv /\ Matches(m) /\ request[r].step \in Owning \cup {"get"}
  BY Underway DEF WorkInv, Inv, TypeInv
<1>3. ASSUME \A s \in Requests \ {r} : request'[s] = request[s],
             ~ At(r, "store"), ~ At(r, "store")', UNCHANGED <<stored, job, work>>,
             orphans \subseteq orphans'
      PROVE  Matches(m)'
  BY <1>2, <1>3, Elsewhere DEF Storing
<1>4. CASE Replay(r)
  BY <1>2, <1>3, <1>4, OwnStep DEF Replay, At
<1>5. ASSUME NEW answer \in Answers, Completes(r, answer) PROVE Matches(m)'
  BY <1>1, <1>5, WorkIsDone DEF Completes, Returns
<1>6. ASSUME NEW j \in Jobs, Accepts(r, j) PROVE Matches(m)'
  <2>1. j \in Answers
    BY AnswersAssumption
  <2> QED
    BY <1>1, <1>6, <2>1, WorkIsDone DEF Accepts, Returns
<1>7. ASSUME NEW j \in Jobs, AcceptsInVain(r, j) PROVE Matches(m)'
  <2>1. j \in Answers
    BY AnswersAssumption
  <2> QED
    BY <1>1, <1>7, <2>1, WorkIsDone DEF AcceptsInVain
<1>8. CASE Fails(r)
  BY <1>2, <1>3, <1>8, OwnStep DEF Fails, At
<1>9. CASE Stores(r) \/ StoresInVain(r)
  <2>1. /\ Storing(r, n) /\ Store(n, request[r].envelope)
        /\ UNCHANGED <<job, work, orphans>>
    BY <1>1, <1>9 DEF Stores, StoresInVain, Storing
  <2>2. (\A s \in Requests \ {r} : request'[s] = request[s]) /\ request'[r].step # "store"
    BY <1>2, <1>9, OwnStep DEF Stores, StoresInVain
  <2> QED
    BY <2>1, <2>2, AnswerIsStored
<1>10. CASE Releases(r)
  <2>1. /\ ~ At(r, "store") /\ Owns(r, n) /\ Put(n, Nothing) /\ UNCHANGED <<job, work, orphans>>
    BY <1>1, <1>10 DEF Releases, Release, At, Owns, Owning
  <2>2. (\A s \in Requests \ {r} : request'[s] = request[s]) /\ request'[r].step = "idle"
    BY <1>2, <1>10, OwnStep DEF Releases
  <2>3. stored'[n] = Nothing /\ \A k \in Names \ {n} : stored'[k] = stored[k]
    BY <1>2, <2>1, OwnStep
  <2>4. CASE m # n
    BY <1>2, <2>1, <2>2, <2>3, <2>4, Elsewhere DEF Storing, At
  <2>5. CASE m = n
    <3>1. /\ \A s \in Requests : ~ Storing(s, m)
          /\ work[m].envelope # NoEnvelope /\ ~ work[m].lost =>
               work[m].age >= IdemTTL - ServeTime
      BY <1>2, <2>1, <2>5, Unguarded
    <3>2. ~ Held(m)' /\ \A s \in Requests : ~ Storing(s, m)'
      BY <2>2, <2>3, <2>5, <3>1 DEF Held, Nothing, Storing, At
    <3> QED
      BY <1>2, <2>1, <3>1, <3>2, LeftUnguarded
  <2> QED
    BY <2>4, <2>5
<1>11. CASE GoesAway(r)
  <2>1. /\ UNCHANGED <<stored, job, work>> /\ orphans \subseteq orphans'
        /\ \A s \in Requests \ {r} : request'[s] = request[s]
        /\ request'[r].step = "idle"
    BY <1>2, <1>11, OwnStep DEF GoesAway
  <2>2. CASE ~ Storing(r, m)
    BY <1>2, <2>1, <2>2, Elsewhere DEF Storing, At
  <2>3. CASE Storing(r, m)
    <3>1. Owns(r, m) /\ ClaimOf(r, m)
      BY <1>2, <2>3 DEF Storing, At, Owns, Owning, Inv, Claimed
    <3>2. m \in orphans'
      BY <1>11, <2>3 DEF GoesAway, Storing, At, Owning
    <3>3. \A s \in Requests : ~ Storing(s, m)'
      BY <2>1, <3>1 DEF ClaimOf, Storing, At, Owns, Owning
    <3>4. request[r].elapsed \in 0 .. ServeTime /\ work[m].age \in Nat
      BY <1>2, <2>3, RequestKinds, WorkTypes DEF Inv, TypeInv, TypeOK, Storing, At, Idle
    <3>5. stored'[m].ttl + work'[m].age >= IdemTTL - ServeTime
      BY <2>1, <3>1, <3>4, IdemTTLAssumption, ServeTimeAssumption DEF ClaimOf
    <3>6. Guarded(m)'
      BY <3>2, <3>5 DEF Guarded
    <3>7. HeldMatches(m)' /\ StoreMatches(m)' /\ JobKept(m)'
      BY <1>2, <2>1, <3>3 DEF Matches, HeldMatches, StoreMatches, JobKept, Held
    <3> QED
      BY <3>6, <3>7 DEF Matches
  <2> QED
    BY <2>2, <2>3
<1> QED
  BY <1>4, <1>5, <1>6, <1>7, <1>8, <1>9, <1>10, <1>11 DEF GoesOn, Serves

\* What a tick does to a key and to a piece of work: a unit less, a unit older, or gone.
LEMMA AgedKinds ==
    ASSUME NEW entry \in Entry
    PROVE  \/ Aged(entry) = Nothing /\ (entry = Nothing \/ entry.ttl = 1)
           \/ /\ entry.ttl \in 2 .. IdemTTL /\ entry # Nothing
              /\ Aged(entry).kind = entry.kind /\ Aged(entry).ttl = entry.ttl - 1
              /\ entry.kind = "response" => Aged(entry).envelope = entry.envelope
<1>1. CASE entry = Nothing \/ entry.ttl = 1
  BY <1>1 DEF Aged
<1>2. CASE entry # Nothing /\ entry.ttl # 1 /\ entry.kind = "in_flight"
  <2>1. entry = [kind |-> "in_flight", ttl |-> entry.ttl] /\ entry.ttl \in 2 .. IdemTTL
    BY <1>2, EntryKinds, IdemTTLAssumption
  <2>2. Aged(entry) = [kind |-> "in_flight", ttl |-> entry.ttl - 1]
    BY <1>2, <2>1 DEF Aged
  <2> QED
    BY <1>2, <2>1, <2>2
<1>3. CASE entry # Nothing /\ entry.ttl # 1 /\ entry.kind = "response"
  <2>1. /\ entry = [kind |-> "response", ttl |-> entry.ttl, envelope |-> entry.envelope]
        /\ entry.ttl \in 2 .. IdemTTL
    BY <1>3, EntryKinds, IdemTTLAssumption
  <2>2. Aged(entry) = [kind |-> "response", ttl |-> entry.ttl - 1, envelope |-> entry.envelope]
    BY <1>3, <2>1 DEF Aged
  <2> QED
    BY <1>3, <2>1, <2>2
<1> QED
  BY <1>1, <1>2, <1>3, EntryKinds

LEMMA OlderKinds ==
    ASSUME NEW done \in Work
    PROVE  \/ /\ Older(done) = NoWork
              /\ done = NoWork \/ done.age = Horizon - 1
           \/ /\ Older(done).envelope = done.envelope /\ Older(done).lost = done.lost
              /\ Older(done).age = done.age + 1
  BY DEF Older, Work

LEMMA TickWork ==
    ASSUME WorkInv, Tick, NEW n \in Names
    PROVE  Matches(n)'
<1>1. /\ Inv /\ Matches(n) /\ TypeOK /\ stored[n] \in Entry /\ work[n] \in Work
      /\ work[n].age \in 0 .. Horizon - 1
  BY WorkTypes DEF WorkInv, Inv, TypeInv, TypeOK
<1>2. stored'[n] = Aged(stored[n]) /\ work'[n] = Older(work[n])
  BY DEF Tick, Expire
<1>3. PICK entry : entry = stored'[n]
  OBVIOUS
<1>4. PICK done : done = work'[n]
  OBVIOUS
<1>5. \/ entry = Nothing /\ (stored[n] = Nothing \/ stored[n].ttl = 1)
      \/ /\ stored[n].ttl \in 2 .. IdemTTL /\ stored[n] # Nothing
         /\ entry.kind = stored[n].kind /\ entry.ttl = stored[n].ttl - 1
         /\ stored[n].kind = "response" => entry.envelope = stored[n].envelope
  BY <1>1, <1>2, <1>3, AgedKinds
<1>6. \/ done = NoWork /\ (work[n] = NoWork \/ work[n].age = Horizon - 1)
      \/ /\ done.envelope = work[n].envelope /\ done.lost = work[n].lost
         /\ done.age = work[n].age + 1
  BY <1>1, <1>2, <1>4, OlderKinds
<1>7. \A r \in Requests :
        /\ Storing(r, n)' <=> Storing(r, n)
        /\ request'[r].envelope = request[r].envelope
        /\ Storing(r, n) => /\ request[r].elapsed \in 0 .. ServeTime - 1
                            /\ request'[r].elapsed = request[r].elapsed + 1
                            /\ request[r].envelope \in Envelope
  <2> TAKE r \in Requests
  <2>1. request'[r] = Counted(request[r]) /\ request[r] \in Request
    BY <1>1 DEF Tick, Counted, TypeOK
  <2>2. request[r].step \in Owning => request[r].elapsed < ServeTime
    BY DEF Tick
  <2>3. Storing(r, n) => request[r].step \in Owning
    BY DEF Storing, At, Owning
  <2>4. Storing(r, n) => request[r].envelope \in Envelope
    BY <1>1 DEF Storing, Inv, TypeInv, Answering
  <2> QED
    BY <2>1, <2>2, <2>3, <2>4, CountedType, ServeTimeAssumption DEF Storing, At
<1>8. Horizon = IdemTTL + ServeTime /\ IdemTTL \in Nat \ {0} /\ ServeTime \in Nat
  BY IdemTTLAssumption, ServeTimeAssumption DEF Horizon
<1>9. StoreMatches(n)'
  <2> SUFFICES ASSUME NEW r \in Requests, Storing(r, n)
               PROVE  /\ done.envelope = request[r].envelope /\ ~ done.lost
                      /\ done.age <= request[r].elapsed + 1
    BY <1>4, <1>7 DEF StoreMatches
  <2>1. /\ work[n].envelope = request[r].envelope /\ ~ work[n].lost
        /\ work[n].age <= request[r].elapsed
    BY <1>1 DEF Matches, StoreMatches
  <2>2. work[n] # NoWork
    BY <1>7, <2>1, NoEnvelopeIsNone DEF NoWork
  <2> QED
    BY <1>1, <1>6, <1>7, <1>8, <2>1, <2>2
<1>10. HeldMatches(n)'
  <2> SUFFICES ASSUME entry.kind = "response"
               PROVE  /\ entry.envelope = done.envelope /\ ~ done.lost
                      /\ done.age + entry.ttl <= Horizon
    BY <1>3, <1>4 DEF HeldMatches, Held, Horizon
  <2>1. /\ stored[n].ttl \in 2 .. IdemTTL /\ stored[n].kind = "response"
        /\ entry.ttl = stored[n].ttl - 1 /\ entry.envelope = stored[n].envelope
    BY <1>5 DEF Nothing
  <2>2. /\ stored[n].envelope = work[n].envelope /\ ~ work[n].lost
        /\ work[n].age + stored[n].ttl <= Horizon
    BY <1>1, <2>1 DEF Matches, HeldMatches, Held
  <2>3. work[n] # NoWork
    BY <1>1, <2>1, <2>2, EntryKinds, NoEnvelopeIsNone DEF NoWork
  <2> QED
    BY <1>1, <1>6, <1>8, <2>1, <2>2, <2>3
<1>11. Guarded(n)'
  <2> SUFFICES ASSUME done.envelope # NoEnvelope, ~ done.lost,
                      \A r \in Requests : ~ Storing(r, n)
               PROVE  \/ /\ entry.kind = "response" \/ n \in orphans'
                         /\ entry.ttl + done.age >= IdemTTL - ServeTime
                      \/ done.age >= IdemTTL - ServeTime
    BY <1>3, <1>4, <1>7 DEF Guarded, Held
  <2>1. /\ work[n].envelope # NoEnvelope /\ ~ work[n].lost
        /\ done.age = work[n].age + 1
    BY <1>6 DEF NoWork
  <2>2. CASE work[n].age >= IdemTTL - ServeTime
    BY <1>1, <1>8, <2>1, <2>2
  <2>3. CASE /\ Held(n) \/ n \in orphans
             /\ stored[n].ttl + work[n].age >= IdemTTL - ServeTime
    <3>1. stored[n] # Nothing
      BY <1>1, <2>3 DEF Held, Nothing, Inv, OrphansHeld
    <3>2. CASE entry = Nothing
      <4>1. stored[n].ttl = 1
        BY <1>1, <1>5, <3>1, <3>2, EntryKinds DEF Nothing
      <4> QED
        BY <1>1, <1>8, <2>1, <2>3, <4>1
    <3>3. CASE entry # Nothing
      <4>1. n \in orphans => n \in orphans'
        BY <1>3, <3>3 DEF Tick
      <4> QED
        BY <1>1, <1>5, <1>8, <2>1, <2>3, <3>3, <4>1 DEF Held
    <3> QED
      BY <3>2, <3>3
  <2> QED
    BY <1>1, <2>1, <2>2, <2>3 DEF Matches, Guarded
<1>12. JobKept(n)'
  <2> SUFFICES ASSUME done.envelope.answer \in Jobs, done.age < JobTTL
               PROVE  job'[done.envelope.answer].ttl = JobTTL - done.age
    BY <1>4 DEF JobKept
  <2>1. done.envelope = work[n].envelope /\ done.age = work[n].age + 1
    BY <1>6, NoEnvelopeIsNone DEF NoWork
  <2>2. PICK j \in Jobs : j = work[n].envelope.answer
    BY <2>1
  <2>3. job[j].ttl = JobTTL - work[n].age /\ job[j].ttl > 1
    BY <1>1, <1>8, <2>1, <2>2, JobTTLAssumption DEF Matches, JobKept
  <2>4. job[j] \in Queue!Life /\ job'[j] = Queue!Aged(job[j])
    BY <1>1 DEF TypeOK, Tick, Queue!Tick
  <2>5. job'[j].ttl = job[j].ttl - 1
    BY <2>3, <2>4 DEF Queue!Aged, Queue!Life
  <2> QED
    BY <1>1, <1>8, <2>1, <2>2, <2>3, <2>5, JobTTLAssumption
<1> QED
  BY <1>9, <1>10, <1>11, <1>12 DEF Matches

LEMMA WorkNext == WorkInv /\ [Next]_vars => WorkInv'
<1> SUFFICES ASSUME WorkInv, [Next]_vars PROVE WorkInv'
  OBVIOUS
<1>1. Inv'
  BY InvNext DEF WorkInv
<1>2. ASSUME NEW n \in Names PROVE Matches(n)'
  <2>1. Matches(n) /\ Inv
    BY DEF WorkInv
  <2>2. ASSUME NEW j \in Jobs, Finishes(j) PROVE Matches(n)'
    <3>1. \A k \in Jobs : job'[k].ttl = job[k].ttl
      BY <2>1, <2>2 DEF Finishes, Queue!Finish, Queue!Life, Inv, TypeInv, TypeOK
    <3> QED
      BY <2>1, <2>2, <3>1, Untouched DEF Finishes, Storing, At
  <2>3. CASE UNCHANGED vars
    BY <2>1, <2>3, Untouched DEF vars, Storing, At
  <2> QED
    BY <2>2, <2>3, AsksWork, GoesOnWork, TickWork DEF Next
<1> QED
  BY <1>1, <1>2 DEF WorkInv

-----------------------------------------------------------------------------
\* However requests overlap, are cut off and come again, and whenever claims and answers
\* expire, what a key replays (_replay, main.py:301) is the response of the last work
\* done under it, and of work that was seen to its end.
THEOREM AlwaysReplaysLastWork == Spec => []ReplaysLastWork
<1>1. WorkInv => ReplaysLastWork
  BY DEF WorkInv, Matches, HeldMatches, ReplaysLastWork
<1> QED
  BY <1>1, WorkInit, WorkNext, PTL DEF Spec

\* Because a job is kept no shorter than an answer (config.py:103), the job that a
\* replayed 202 names can be read until the last ServeTime of the answer.
THEOREM AlwaysJobCollectable == Spec => []JobCollectable
<1>1. WorkInv => JobCollectable
  <2> SUFFICES ASSUME WorkInv, NEW n \in Names, Held(n), stored[n].envelope.answer \in Jobs,
                      stored[n].ttl > ServeTime
               PROVE  job[stored[n].envelope.answer] # Queue!Unknown
    BY DEF JobCollectable
  <2>1. Matches(n) /\ TypeOK /\ stored[n] \in Entry
    BY DEF WorkInv, Inv, TypeInv, TypeOK
  <2>2. stored[n].envelope = work[n].envelope /\ work[n].age + stored[n].ttl <= Horizon
    BY <2>1 DEF Matches, HeldMatches
  <2>3. work[n].age \in Nat /\ stored[n].ttl \in 1 .. IdemTTL
    BY <2>1, WorkTypes, EntryKinds DEF Held
  <2>4. work[n].age < JobTTL
    BY <2>2, <2>3, IdemTTLAssumption, ServeTimeAssumption, JobTTLAssumption DEF Horizon
  <2>5. job[work[n].envelope.answer].ttl = JobTTL - work[n].age
    BY <2>1, <2>2, <2>4 DEF Matches, JobKept
  <2>6. Queue!Unknown.ttl = -1
    BY DEF Queue!Unknown, Queue!NoTime
  <2> QED
    BY <2>2, <2>3, <2>4, <2>5, <2>6, JobTTLAssumption
<1> QED
  BY <1>1, WorkInit, WorkNext, PTL DEF Spec

\* New work is done by the request that serves the name, and by nobody else.
LEMMA NewWorkIsServed ==
    ASSUME Inv, Next, NEW n \in Names, NewWork(n)
    PROVE  \E r \in Requests : Owns(r, n) /\ At(r, "serve")
<1> DEFINE Same == \A m \in Names : ~ NewWork(m)
<1>1. UNCHANGED work => Same
  BY DEF NewWork
<1>2. ASSUME Tick PROVE Same
  <2> SUFFICES ASSUME NEW m \in Names PROVE work'[m].envelope \in {work[m].envelope, NoEnvelope}
    BY DEF NewWork
  <2>1. work'[m] = Older(work[m]) /\ work[m] \in Work
    BY <1>2 DEF Tick, Inv, TypeInv, TypeOK
  <2> QED
    BY <2>1, OlderKinds DEF NoWork
<1>3. ASSUME NEW r \in Requests, NEW envelope, NEW lost,
             At(r, "serve"), Done(request[r].name, envelope, lost)
      PROVE  \E s \in Requests : Owns(s, n) /\ At(s, "serve")
  <2>1. request[r].name = n
    BY <1>3 DEF Done, NewWork, Inv, TypeInv, TypeOK
  <2> QED
    BY <1>3, <2>1 DEF Owns, Owning, At
<1>4. ~ Same
  OBVIOUS
<1> HIDE DEF Same
<1>5. ASSUME NEW r \in Requests, Serves(r) PROVE \E s \in Requests : Owns(s, n) /\ At(s, "serve")
  <2>1. \/ Fails(r)
        \/ /\ At(r, "serve")
           /\ \E envelope : \E lost : Done(request[r].name, envelope, lost)
    BY <1>5 DEF Serves, Completes, Accepts, AcceptsInVain, Returns
  <2> QED
    BY <1>1, <1>3, <1>4, <2>1 DEF Fails
<1> QED
  BY <1>1, <1>2, <1>4, <1>5
  DEF Next, Asks, Claims, ClaimsInVain, FindsTaken, GoesOn, Replay, Stores, StoresInVain,
      Releases, GoesAway, Finishes

\* Nobody is billed twice for one key (idempotency.py:1): as long as the claim or the
\* answer of finished work must be there, nobody serves the key again.
THEOREM AlwaysBilledOnce == Spec => BilledOnce
<1>1. WorkInv /\ [Next]_vars => \A n \in Names : NewWork(n) /\ Protected(n) => work[n].lost
  <2> SUFFICES ASSUME WorkInv, [Next]_vars, NEW n \in Names, NewWork(n), Protected(n),
                      ~ work[n].lost
               PROVE  FALSE
    OBVIOUS
  <2>1. Inv /\ Matches(n) /\ Next
    BY DEF WorkInv, NewWork, vars
  <2>2. PICK r \in Requests : Owns(r, n) /\ ~ At(r, "store")
    BY <2>1, NewWorkIsServed DEF At
  <2>3. work[n].age >= IdemTTL - ServeTime
    BY <2>1, <2>2, Unguarded DEF Protected
  <2>4. work[n].age < IdemTTL - ServeTime /\ work[n].age \in Nat
    BY <2>1, WorkTypes DEF Protected, Inv, TypeInv
  <2> QED
    BY <2>3, <2>4, IdemTTLAssumption, ServeTimeAssumption
<1>2. Spec => []WorkInv
  BY WorkInit, WorkNext, PTL DEF Spec
<1>3. WorkInv /\ [Next]_vars => [\A n \in Names : NewWork(n) /\ Protected(n) => work[n].lost]_vars
  BY <1>1
<1> QED
  BY <1>2, <1>3, PTL DEF Spec, BilledOnce

-----------------------------------------------------------------------------
(* Whose answer a key replays. *)

\* n is what _key makes of the tenant and one of its keys.
IsFor(n, tenant) == tenant \in Tenants /\ \E key \in Keys[tenant] : n = Name(tenant, key)

\* A request works under a name of its tenant's, the answer it has in hand was made for a
\* tenant whose name that is as well, and so was the answer a key holds.
RequestIsFor(r) ==
    /\ request[r].step # "idle" => IsFor(request[r].name, request[r].tenant)
    /\ request[r].step \in {"store", "answered"} =>
         IsFor(request[r].name, request[r].envelope.tenant)
HeldIsFor(n) == Held(n) => IsFor(n, stored[n].envelope.tenant)
MadeForTenant == (\A r \in Requests : RequestIsFor(r)) /\ \A n \in Names : HeldIsFor(n)

LEMMA MadeInit == Init => MadeForTenant
  BY DEF Init, MadeForTenant, RequestIsFor, HeldIsFor, Idle, Held, Nothing

LEMMA RequestIdle ==
    ASSUME request \in [Requests -> Request], NEW r \in Requests, End(r)
    PROVE  RequestIsFor(r)' /\ \A s \in Requests \ {r} : request'[s] = request[s]
  BY DEF End, Idle, RequestIsFor

\* A step of one handler, and what it writes under one name.
LEMMA MadeKept ==
    ASSUME MadeForTenant, NEW r \in Requests, RequestIsFor(r)',
           \A s \in Requests \ {r} : request'[s] = request[s],
           \A n \in Names : stored'[n] = stored[n] \/ HeldIsFor(n)'
    PROVE  MadeForTenant'
  BY DEF MadeForTenant, RequestIsFor, HeldIsFor, Held

LEMMA AsksMade ==
    ASSUME Inv, MadeForTenant, NEW r \in Requests, NEW tenant \in Tenants, NEW key \in Keys[tenant],
           Asks(r, tenant, key)
    PROVE  MadeForTenant'
<1>1. request \in [Requests -> Request] /\ stored \in [Names -> Entry]
  BY DEF Inv, TypeInv, TypeOK
<1>2. \A n \in Names : stored'[n] = stored[n] \/ HeldIsFor(n)'
  BY <1>1 DEF Asks, Claims, ClaimsInVain, FindsTaken, Claim, Put, HeldIsFor, Held
<1>3. CASE End(r)
  BY <1>1, <1>2, <1>3, RequestIdle, MadeKept
<1>4. ASSUME NEW step \in {"serve", "get"}, Arrives(r, step, tenant, key) PROVE MadeForTenant'
  <2>1. /\ request'[r] = [step |-> step, tenant |-> tenant, name |-> Name(tenant, key),
                          envelope |-> NoEnvelope, elapsed |-> 0]
        /\ \A s \in Requests \ {r} : request'[s] = request[s]
    BY <1>1, <1>4 DEF Arrives
  <2>2. RequestIsFor(r)'
    BY <2>1 DEF RequestIsFor, IsFor
  <2> QED
    BY <1>2, <2>1, <2>2, MadeKept
<1> QED
  BY <1>3, <1>4 DEF Asks, Claims, ClaimsInVain, FindsTaken

LEMMA GoesOnMade ==
    ASSUME Inv, MadeForTenant, NEW r \in Requests, GoesOn(r) \/ GoesAway(r)
    PROVE  MadeForTenant'
<1>1. PICK n \in Names : n = request[r].name
  BY Underway DEF Inv, TypeInv
<1>2. /\ request \in [Requests -> Request] /\ stored \in [Names -> Entry] /\ request[r] # Idle
      /\ IsFor(n, request[r].tenant)
  BY <1>1, Underway, RequestKinds DEF Inv, TypeInv, TypeOK, MadeForTenant, RequestIsFor
<1>3. ASSUME NEW step, NEW envelope,
             request' = [request EXCEPT ![r].step = step, ![r].envelope = envelope],
             IsFor(n, envelope.tenant), stored' = stored
      PROVE  MadeForTenant'
  <2>1. /\ request'[r].step = step /\ request'[r].envelope = envelope
        /\ request'[r].name = n /\ request'[r].tenant = request[r].tenant
        /\ \A s \in Requests \ {r} : request'[s] = request[s]
    BY <1>1, <1>2, <1>3 DEF Request, Idle
  <2>2. RequestIsFor(r)'
    BY <1>2, <1>3, <2>1 DEF RequestIsFor, IsFor
  <2> QED
    BY <1>3, <2>1, <2>2, MadeKept
<1>4. ASSUME NEW step, Proceed(r, step), step # "store", step = "answered" => At(r, "store")
      PROVE  RequestIsFor(r)' /\ \A s \in Requests \ {r} : request'[s] = request[s]
  <2>1. /\ request'[r].step = step /\ request'[r].envelope = request[r].envelope
        /\ request'[r].name = n /\ request'[r].tenant = request[r].tenant
        /\ \A s \in Requests \ {r} : request'[s] = request[s]
    BY <1>1, <1>2, <1>4 DEF Proceed, Request, Idle
  <2>2. step = "answered" => IsFor(n, request[r].envelope.tenant)
    BY <1>1, <1>4 DEF At, MadeForTenant, RequestIsFor
  <2> QED
    BY <1>2, <1>4, <2>1, <2>2 DEF RequestIsFor, IsFor
<1>5. ASSUME NEW m \in Names, stored'[m] # stored[m],
             Put(n, Nothing) \/ (At(r, "store") /\ Store(n, request[r].envelope))
      PROVE  HeldIsFor(m)'
  <2>1. m = n /\ (stored'[n] = Nothing \/ (At(r, "store") /\ stored'[n].envelope = request[r].envelope))
    BY <1>2, <1>5 DEF Store, Put
  <2>2. At(r, "store") => IsFor(n, request[r].envelope.tenant)
    BY <1>1 DEF At, MadeForTenant, RequestIsFor
  <2> QED
    BY <1>2, <2>1, <2>2 DEF HeldIsFor, Held, Nothing, IsFor
<1>6. CASE Replay(r)
  <2>1. CASE Held(n) /\ request' = [request EXCEPT ![r].step = "answered",
                                                   ![r].envelope = stored[n].envelope]
    <3>1. IsFor(n, stored[n].envelope.tenant)
      BY <2>1 DEF MadeForTenant, HeldIsFor
    <3> QED
      BY <1>3, <1>6, <2>1, <3>1 DEF Replay
  <2>2. CASE End(r)
    BY <1>2, <1>6, <2>2, RequestIdle, MadeKept DEF Replay
  <2> QED
    BY <1>1, <1>6, <2>1, <2>2 DEF Replay
<1>7. ASSUME NEW answer, Returns(r, answer) PROVE MadeForTenant'
  <2>1. PICK envelope : envelope = [tenant |-> request[r].tenant, answer |-> answer]
    OBVIOUS
  <2>2. /\ request' = [request EXCEPT ![r].step = "store", ![r].envelope = envelope]
        /\ stored' = stored /\ IsFor(n, envelope.tenant)
    BY <1>2, <1>7, <2>1 DEF Returns
  <2> QED
    BY <1>3, <2>2
<1>8. CASE Fails(r) \/ \E j \in Jobs : AcceptsInVain(r, j)
  BY <1>4, <1>8, MadeKept DEF Fails, AcceptsInVain
<1>9. CASE Stores(r)
  BY <1>1, <1>4, <1>5, <1>9, MadeKept DEF Stores
<1>10. CASE StoresInVain(r)
  BY <1>1, <1>2, <1>5, <1>10, RequestIdle, MadeKept DEF StoresInVain
<1>11. CASE Releases(r)
  BY <1>1, <1>2, <1>5, <1>11, RequestIdle, MadeKept DEF Releases, Release
<1>12. CASE GoesAway(r)
  BY <1>2, <1>12, RequestIdle, MadeKept DEF GoesAway
<1> QED
  BY <1>6, <1>7, <1>8, <1>9, <1>10, <1>11, <1>12 DEF GoesOn, Serves, Completes, Accepts

LEMMA TickMade ==
    ASSUME Inv, MadeForTenant, Tick
    PROVE  MadeForTenant'
<1>1. ASSUME NEW r \in Requests PROVE RequestIsFor(r)'
  <2>1. request'[r] = Counted(request[r]) /\ request[r] \in Request
        /\ (request[r].step \in Owning => request[r].elapsed < ServeTime)
    BY <1>1 DEF Tick, Counted, Inv, TypeInv, TypeOK
  <2>2. /\ request'[r].step = request[r].step /\ request'[r].name = request[r].name
        /\ request'[r].tenant = request[r].tenant /\ request'[r].envelope = request[r].envelope
    BY <2>1, CountedType
  <2> QED
    BY <2>2 DEF MadeForTenant, RequestIsFor
<1>2. ASSUME NEW n \in Names PROVE HeldIsFor(n)'
  <2>1. stored'[n] = Aged(stored[n]) /\ stored[n] \in Entry
    BY <1>2 DEF Tick, Expire, Inv, TypeInv, TypeOK
  <2>2. Held(n)' => Held(n) /\ stored'[n].envelope = stored[n].envelope
    BY <2>1, AgedKinds, EntryKinds DEF Held, Nothing
  <2> QED
    BY <2>2 DEF MadeForTenant, HeldIsFor
<1> QED
  BY <1>1, <1>2 DEF MadeForTenant

LEMMA MadeNext ==
    ASSUME Inv, MadeForTenant, [Next]_vars
    PROVE  MadeForTenant'
<1>1. CASE request' = request /\ stored' = stored
  BY <1>1 DEF MadeForTenant, RequestIsFor, HeldIsFor, Held
<1> QED
  BY <1>1, AsksMade, GoesOnMade, TickMade DEF Next, Finishes, vars

\* Two tenants share an answer only where _key (idempotency.py:24) makes one string of
\* their names and keys, for any tenants and keys, with and without colons: no order of
\* overlapping requests, stores, releases and expiries brings them together otherwise.
THEOREM AlwaysCrossesByCollision == Spec => []CrossesByCollision
<1>1. Inv /\ MadeForTenant /\ [Next]_vars => MadeForTenant'
  BY MadeNext
<1>2. MadeForTenant => CrossesByCollision
  <2> SUFFICES ASSUME MadeForTenant, NEW r \in Requests, At(r, "answered")
               PROVE  \E k \in Keys[request[r].tenant], l \in Keys[request[r].envelope.tenant] :
                        /\ request[r].name = Name(request[r].tenant, k)
                        /\ request[r].envelope.tenant \o l = request[r].tenant \o k
    BY DEF CrossesByCollision
  <2>1. /\ IsFor(request[r].name, request[r].tenant)
        /\ IsFor(request[r].name, request[r].envelope.tenant)
    BY DEF MadeForTenant, RequestIsFor, At
  <2> QED
    BY <2>1 DEF IsFor, Name
<1> QED
  BY <1>1, <1>2, MadeInit, InvInit, InvNext, PTL DEF Spec
=============================================================================
