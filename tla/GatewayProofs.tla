--------------------------- MODULE GatewayProofs ---------------------------
(***************************************************************************)
(* Theorems about Gateway, for any requests, tenants, keys, answers, jobs and *)
(* expiries: type correctness, and that a key is worked on by one request at  *)
(* a time.                                                                   *)
(***************************************************************************)
EXTENDS Gateway, TLAPS

\* A key's value is one of three kinds, and each kind has its fields.
LEMMA EntryKinds ==
    ASSUME NEW entry \in Entry
    PROVE  /\ entry.kind \in {"nothing", "in_flight", "response"}
           /\ entry.kind = "nothing" => entry = Nothing
           /\ entry.kind = "in_flight" =>
                entry.ttl \in 1 .. IdemTTL /\ entry = [kind |-> "in_flight", ttl |-> entry.ttl]
           /\ entry.kind = "response" =>
                /\ entry.ttl \in 1 .. IdemTTL /\ entry.envelope \in Envelope
                /\ entry = [kind |-> "response", ttl |-> entry.ttl, envelope |-> entry.envelope]
<1>1. CASE entry = Nothing
  BY <1>1 DEF Nothing
<1>2. CASE entry \in [kind : {"in_flight"}, ttl : 1 .. IdemTTL]
  BY <1>2
<1>3. CASE entry \in [kind : {"response"}, ttl : 1 .. IdemTTL, envelope : Envelope]
  BY <1>3
<1> QED
  BY <1>1, <1>2, <1>3 DEF Entry

\* A handler is idle, or has all the local variables of a request.
LEMMA RequestKinds ==
    ASSUME NEW req \in Request
    PROVE  /\ req.step \in Step
           /\ req.step = "idle" <=> req = Idle
           /\ req # Idle =>
                /\ req.tenant \in Tenants /\ req.name \in Names
                /\ req.envelope \in Envelope \cup {NoEnvelope} /\ req.elapsed \in 0 .. ServeTime
  BY DEF Request, Step, Idle

\* Storing, releasing and claiming leave a value of the right type under the name.
LEMMA PutEntry ==
    ASSUME stored \in [Names -> Entry], NEW n \in Names, NEW entry \in Entry, Put(n, entry)
    PROVE  stored' \in [Names -> Entry]
  BY DEF Put

LEMMA StoredWrites ==
    ASSUME stored \in [Names -> Entry], NEW n \in Names
    PROVE  /\ Claim(n) => stored' \in [Names -> Entry]
           /\ Release(n) => stored' \in [Names -> Entry]
           /\ \A envelope \in Envelope : Store(n, envelope) => stored' \in [Names -> Entry]
  <1>1. IdemTTL \in 1 .. IdemTTL
    BY IdemTTLAssumption
  <1>2. /\ [kind |-> "in_flight", ttl |-> IdemTTL] \in Entry
        /\ Nothing \in Entry
        /\ \A envelope \in Envelope :
             [kind |-> "response", ttl |-> IdemTTL, envelope |-> envelope] \in Entry
    BY <1>1 DEF Entry
  <1> QED
    BY <1>2, PutEntry DEF Claim, Release, Store

LEMMA AgedEntry ==
    ASSUME NEW entry \in Entry
    PROVE  Aged(entry) \in Entry
  <1>1. CASE entry = Nothing \/ entry.ttl = 1
    BY <1>1 DEF Aged, Entry
  <1>2. CASE entry # Nothing /\ entry.ttl # 1 /\ entry.kind = "in_flight"
    <2>1. entry = [kind |-> "in_flight", ttl |-> entry.ttl] /\ entry.ttl - 1 \in 1 .. IdemTTL
      BY <1>2, EntryKinds, IdemTTLAssumption
    <2>2. Aged(entry) = [kind |-> "in_flight", ttl |-> entry.ttl - 1]
      BY <1>2, <2>1 DEF Aged
    <2> QED
      BY <2>1, <2>2 DEF Entry
  <1>3. CASE entry # Nothing /\ entry.ttl # 1 /\ entry.kind = "response"
    <2>1. /\ entry = [kind |-> "response", ttl |-> entry.ttl, envelope |-> entry.envelope]
          /\ entry.ttl - 1 \in 1 .. IdemTTL /\ entry.envelope \in Envelope
      BY <1>3, EntryKinds, IdemTTLAssumption
    <2>2. Aged(entry) =
            [kind |-> "response", ttl |-> entry.ttl - 1, envelope |-> entry.envelope]
      BY <1>3, <2>1 DEF Aged
    <2> QED
      BY <2>1, <2>2 DEF Entry
  <1> QED
    BY <1>1, <1>2, <1>3, EntryKinds

LEMMA ExpireType ==
    ASSUME stored \in [Names -> Entry], Expire
    PROVE  stored' \in [Names -> Entry]
  BY AgedEntry DEF Expire

\* What a handler does to its own local variables.
LEMMA RequestWrites ==
    ASSUME request \in [Requests -> Request], NEW r \in Requests
    PROVE  /\ End(r) => request' \in [Requests -> Request]
           /\ \A step \in Step \ {"idle"} :
                request[r] # Idle /\ Proceed(r, step) => request' \in [Requests -> Request]
           /\ \A step \in Step \ {"idle"}, envelope \in Envelope \cup {NoEnvelope} :
                /\ request[r] # Idle
                /\ request' = [request EXCEPT ![r].step = step, ![r].envelope = envelope]
                => request' \in [Requests -> Request]
           /\ \A step \in Step \ {"idle"}, tenant \in Tenants : \A key \in Keys[tenant] :
                Arrives(r, step, tenant, key) => request' \in [Requests -> Request]
<1>1. request[r] \in Request
  OBVIOUS
<1>2. End(r) => request' \in [Requests -> Request]
  BY DEF End, Request
<1>3. ASSUME NEW step \in Step \ {"idle"}, NEW envelope \in Envelope \cup {NoEnvelope},
             request[r] # Idle
      PROVE  /\ [request[r] EXCEPT !.step = step] \in Request
             /\ [request[r] EXCEPT !.step = step, !.envelope = envelope] \in Request
  BY <1>1, <1>3 DEF Request
<1>4. ASSUME NEW step \in Step \ {"idle"}, request[r] # Idle, Proceed(r, step)
      PROVE  request' \in [Requests -> Request]
  BY <1>3, <1>4 DEF Proceed
<1>5. ASSUME NEW step \in Step \ {"idle"}, NEW envelope \in Envelope \cup {NoEnvelope},
             request[r] # Idle,
             request' = [request EXCEPT ![r].step = step, ![r].envelope = envelope]
      PROVE  request' \in [Requests -> Request]
  BY <1>3, <1>5
<1>6. ASSUME NEW step \in Step \ {"idle"}, NEW tenant \in Tenants, NEW key \in Keys[tenant],
             Arrives(r, step, tenant, key)
      PROVE  request' \in [Requests -> Request]
  <2>1. Name(tenant, key) \in Names /\ 0 \in 0 .. ServeTime
    BY ServeTimeAssumption DEF Names
  <2>2. [step |-> step, tenant |-> tenant, name |-> Name(tenant, key),
         envelope |-> NoEnvelope, elapsed |-> 0] \in Request
    BY <2>1 DEF Request
  <2> QED
    BY <1>6, <2>2 DEF Arrives
<1> QED
  BY <1>2, <1>4, <1>5, <1>6

LEMMA DoneType ==
    ASSUME work \in [Names -> Work], NEW n \in Names, NEW envelope \in Envelope,
           NEW lost \in BOOLEAN, Done(n, envelope, lost)
    PROVE  work' \in [Names -> Work]
<1>1. 0 \in 0 .. Horizon - 1
  BY IdemTTLAssumption, ServeTimeAssumption DEF Horizon
<1>2. [envelope |-> envelope, age |-> 0, lost |-> lost] \in Work
  BY <1>1 DEF Work
<1> QED
  BY <1>2 DEF Done

LEMMA OlderType ==
    ASSUME NEW done \in Work
    PROVE  Older(done) \in Work
<1>1. Horizon \in Nat \ {0}
  BY IdemTTLAssumption, ServeTimeAssumption DEF Horizon
<1>2. NoWork \in Work
  BY <1>1 DEF NoWork, Work
<1>3. CASE done # NoWork /\ done.age # Horizon - 1
  BY <1>1, <1>3 DEF Older, Work
<1> QED
  BY <1>2, <1>3 DEF Older

LEMMA QueueTypes ==
    ASSUME job \in [Jobs -> Queue!Life]
    PROVE  /\ \A j \in Jobs : Queue!Accept(j) => job' \in [Jobs -> Queue!Life]
           /\ \A j \in Jobs : Queue!Finish(j) => job' \in [Jobs -> Queue!Life]
           /\ Queue!Tick => job' \in [Jobs -> Queue!Life]
<1>1. ASSUME NEW j \in Jobs, Queue!Accept(j) PROVE job' \in [Jobs -> Queue!Life]
  BY <1>1, JobTTLAssumption DEF Queue!Accept, Queue!Life
<1>2. ASSUME NEW j \in Jobs, Queue!Finish(j) PROVE job' \in [Jobs -> Queue!Life]
  BY <1>2 DEF Queue!Finish, Queue!Life
<1>3. ASSUME NEW entry \in Queue!Life PROVE Queue!Aged(entry) \in Queue!Life
  BY DEF Queue!Aged, Queue!Life, Queue!Unknown, Queue!NoTime
<1> QED
  BY <1>1, <1>2, <1>3 DEF Queue!Tick

-----------------------------------------------------------------------------
(* Type correctness. *)

\* A request about to store has what it stores; needed to type the store.
Answering == \A r \in Requests : At(r, "store") => request[r].envelope \in Envelope

TypeInv == TypeOK /\ Answering

LEMMA AnsweringKept ==
    ASSUME Answering, request \in [Requests -> Request], NEW r \in Requests
    PROVE  /\ End(r) => Answering'
           /\ \A step : step # "store" /\ Proceed(r, step) => Answering'
           /\ \A step, envelope :
                /\ step # "store" \/ envelope \in Envelope
                /\ request' = [request EXCEPT ![r].step = step, ![r].envelope = envelope]
                => Answering'
           /\ \A step, tenant, key :
                step # "store" /\ Arrives(r, step, tenant, key) => Answering'
<1>1. \A s \in Requests \ {r} : At(s, "store") => request[s].envelope \in Envelope
  BY DEF Answering
<1>3. ASSUME End(r) PROVE Answering'
  BY <1>1, <1>3 DEF End, Idle, Answering, At
<1>4. ASSUME NEW step, step # "store", Proceed(r, step) PROVE Answering'
  <2>1. request[r] \in Request
    OBVIOUS
  <2>2. request'[r].step = step
    BY <1>4, <2>1 DEF Proceed, Request, Idle
  <2> QED
    BY <1>1, <1>4, <2>2 DEF Proceed, Answering, At
<1>5. ASSUME NEW step, NEW envelope, step # "store" \/ envelope \in Envelope,
             request' = [request EXCEPT ![r].step = step, ![r].envelope = envelope]
      PROVE  Answering'
  <2>1. request[r] \in Request
    OBVIOUS
  <2>2. request'[r].step = step /\ request'[r].envelope = envelope
    BY <1>5, <2>1 DEF Request, Idle
  <2> QED
    BY <1>1, <1>5, <2>2 DEF Answering, At
<1>6. ASSUME NEW step, NEW tenant, NEW key, step # "store", Arrives(r, step, tenant, key)
      PROVE  Answering'
  BY <1>1, <1>6 DEF Arrives, Answering, At
<1> QED
  BY <1>3, <1>4, <1>5, <1>6

LEMMA TypeInit == Init => TypeInv
<1> SUFFICES ASSUME Init PROVE TypeInv
  OBVIOUS
<1>1. Nothing \in Entry /\ Idle \in Request
  BY DEF Entry, Request
<1>2. Queue!Unknown \in Queue!Life
  BY DEF Queue!Unknown, Queue!Life, Queue!NoTime
<1>3. NoWork \in Work
  BY IdemTTLAssumption, ServeTimeAssumption DEF NoWork, Work, Horizon
<1>4. TypeOK
  BY <1>1, <1>2, <1>3 DEF Init, TypeOK
<1> QED
  BY <1>4 DEF Init, TypeInv, Answering, At, Idle

\* Whoever goes on is somewhere, and has the local variables of a request.
LEMMA Underway ==
    ASSUME TypeOK, NEW r \in Requests, GoesOn(r) \/ GoesAway(r)
    PROVE  /\ request[r].step \in Owning \cup {"get"} /\ request[r] # Idle
           /\ request[r].name \in Names /\ request[r].tenant \in Tenants
<1>1. request[r].step \in Owning \cup {"get"}
  BY DEF GoesOn, GoesAway, Serves, Replay, Completes, Accepts, AcceptsInVain, Returns,
         Fails, Stores, StoresInVain, Releases, At, Owning
<1>2. request[r] # Idle
  BY <1>1 DEF Idle, Owning
<1> QED
  BY <1>1, <1>2, RequestKinds DEF TypeOK

LEMMA ReturnsType ==
    ASSUME TypeInv, NEW r \in Requests, NEW answer \in Answers, Returns(r, answer),
           request[r] # Idle, request[r].name \in Names, request[r].tenant \in Tenants
    PROVE  /\ request' \in [Requests -> Request] /\ Answering'
           /\ work' \in [Names -> Work]
<1> DEFINE envelope == [tenant |-> request[r].tenant, answer |-> answer]
<1>1. envelope \in Envelope
  BY DEF Envelope
<1>2. Done(request[r].name, envelope, FALSE)
  BY DEF Returns
<1>3. request' = [request EXCEPT ![r].step = "store", ![r].envelope = envelope]
  BY DEF Returns
<1>4. work' \in [Names -> Work]
  BY <1>1, <1>2, DoneType DEF TypeInv, TypeOK
<1> HIDE DEF envelope
<1>5. "store" \in Step \ {"idle"}
  BY DEF Step
<1> QED
  BY <1>1, <1>3, <1>4, <1>5, RequestWrites, AnsweringKept DEF TypeInv, TypeOK

LEMMA GoesOnType ==
    ASSUME TypeInv, NEW r \in Requests, GoesOn(r) \/ GoesAway(r)
    PROVE  TypeInv'
<1> USE DEF TypeInv, TypeOK
<1>1. request[r] # Idle /\ request[r].name \in Names /\ request[r].tenant \in Tenants
  BY Underway
<1>2. /\ {"store", "release", "answered"} \subseteq Step \ {"idle"}
      /\ "release" # "store" /\ "answered" # "store"
  BY DEF Step
<1>3. CASE Replay(r)
  <2>1. Held(request[r].name) => stored[request[r].name].envelope \in Envelope
    BY <1>1, EntryKinds DEF Held
  <2> QED
    BY <1>1, <1>2, <1>3, <2>1, RequestWrites, AnsweringKept DEF Replay
<1>4. ASSUME NEW answer \in Answers, Completes(r, answer) PROVE TypeInv'
  BY <1>1, <1>4, ReturnsType DEF Completes, Returns
<1>5. ASSUME NEW j \in Jobs, Accepts(r, j) PROVE TypeInv'
  <2>1. j \in Answers
    BY AnswersAssumption
  <2>2. job' \in [Jobs -> Queue!Life]
    BY <1>5, QueueTypes DEF Accepts
  <2> QED
    BY <1>1, <1>5, <2>1, <2>2, ReturnsType DEF Accepts, Returns
<1>6. ASSUME NEW j \in Jobs, AcceptsInVain(r, j) PROVE TypeInv'
  <2>1. [tenant |-> request[r].tenant, answer |-> j] \in Envelope
    BY <1>1, AnswersAssumption DEF Envelope
  <2>2. work' \in [Names -> Work]
    BY <1>1, <1>6, <2>1, DoneType DEF AcceptsInVain
  <2>3. job' \in [Jobs -> Queue!Life]
    BY <1>6, QueueTypes DEF AcceptsInVain
  <2>4. request' \in [Requests -> Request] /\ Answering'
    BY <1>1, <1>2, <1>6, RequestWrites, AnsweringKept DEF AcceptsInVain
  <2> QED
    BY <1>6, <2>2, <2>3, <2>4 DEF AcceptsInVain
<1>7. CASE Fails(r)
  BY <1>1, <1>2, <1>7, RequestWrites, AnsweringKept DEF Fails
<1>8. CASE Stores(r) \/ StoresInVain(r)
  <2>1. request[r].envelope \in Envelope
    BY <1>8 DEF Stores, StoresInVain, Answering
  <2>2. stored' \in [Names -> Entry]
    BY <1>1, <1>8, <2>1, StoredWrites DEF Stores, StoresInVain
  <2> QED
    BY <1>1, <1>2, <1>8, <2>2, RequestWrites, AnsweringKept DEF Stores, StoresInVain
<1>9. CASE Releases(r)
  BY <1>1, <1>9, StoredWrites, RequestWrites, AnsweringKept DEF Releases
<1>10. CASE GoesAway(r)
  BY <1>1, <1>10, RequestWrites, AnsweringKept DEF GoesAway
<1> QED
  BY <1>3, <1>4, <1>5, <1>6, <1>7, <1>8, <1>9, <1>10 DEF GoesOn, Serves

LEMMA AsksType ==
    ASSUME TypeInv, NEW r \in Requests, NEW tenant \in Tenants, NEW key \in Keys[tenant],
           Asks(r, tenant, key)
    PROVE  TypeInv'
<1> USE DEF TypeInv, TypeOK
<1>1. Name(tenant, key) \in Names /\ {"serve", "get"} \subseteq Step \ {"idle"}
  BY DEF Names, Step
<1>2. CASE Claims(r, tenant, key)
  BY <1>1, <1>2, StoredWrites, RequestWrites, AnsweringKept DEF Claims
<1>3. CASE ClaimsInVain(r, tenant, key)
  BY <1>1, <1>3, StoredWrites, RequestWrites, AnsweringKept DEF ClaimsInVain
<1>4. CASE FindsTaken(r, tenant, key)
  BY <1>1, <1>4, RequestWrites, AnsweringKept DEF FindsTaken
<1> QED
  BY <1>2, <1>3, <1>4 DEF Asks

\* A tick does nothing to a request but to count for how long it has owned its key.
Counted(req) == IF req.step \in Owning THEN [req EXCEPT !.elapsed = @ + 1] ELSE req

LEMMA CountedType ==
    ASSUME NEW req \in Request, req.step \in Owning => req.elapsed < ServeTime
    PROVE  /\ Counted(req) \in Request
           /\ Counted(req).step = req.step /\ Counted(req).name = req.name
           /\ Counted(req).tenant = req.tenant /\ Counted(req).envelope = req.envelope
           /\ req.step \in Owning =>
                /\ req.elapsed \in 0 .. ServeTime
                /\ Counted(req).elapsed = req.elapsed + 1
<1>1. CASE req.step \in Owning
  <2>1. req # Idle
    BY <1>1 DEF Idle, Owning
  <2>2. req.elapsed + 1 \in 0 .. ServeTime /\ req.elapsed \in 0 .. ServeTime
    BY <1>1, <2>1, RequestKinds, ServeTimeAssumption
  <2> QED
    BY <1>1, <2>1, <2>2 DEF Counted, Request
<1>2. CASE req.step \notin Owning
  BY <1>2 DEF Counted
<1> QED
  BY <1>1, <1>2

LEMMA TickType ==
    ASSUME TypeInv, Tick
    PROVE  TypeInv'
<1> USE DEF TypeInv, TypeOK
<1>1. request' = [r \in Requests |-> Counted(request[r])]
  BY DEF Tick, Counted
<1>2. \A r \in Requests : request[r].step \in Owning => request[r].elapsed < ServeTime
  BY DEF Tick
<1>3. request' \in [Requests -> Request] /\ Answering'
  BY <1>1, <1>2, CountedType DEF Answering, At
<1>4. work' \in [Names -> Work]
  BY OlderType DEF Tick
<1>5. stored' \in [Names -> Entry]
  BY ExpireType DEF Tick
<1>6. job' \in [Jobs -> Queue!Life]
  BY QueueTypes DEF Tick
<1> QED
  BY <1>3, <1>4, <1>5, <1>6 DEF Tick

LEMMA TypeNext == TypeInv /\ [Next]_vars => TypeInv'
<1> SUFFICES ASSUME TypeInv, [Next]_vars PROVE TypeInv'
  OBVIOUS
<1>1. ASSUME NEW j \in Jobs, Finishes(j) PROVE TypeInv'
  BY <1>1, QueueTypes DEF Finishes, TypeInv, TypeOK, Answering, At
<1>2. CASE UNCHANGED vars
  BY <1>2 DEF vars, TypeInv, TypeOK, Answering, At
<1> QED
  BY <1>1, <1>2, AsksType, GoesOnType, TickType DEF Next

\* Whatever requests, tenants, keys and jobs there are, and wherever requests are cut
\* off (chat_completions, main.py:255), keys, handlers and jobs have the contents that
\* TypeOK lists.
THEOREM TypeCorrect == Spec => []TypeOK
<1>1. TypeInv => TypeOK
  BY DEF TypeInv
<1> QED
  BY <1>1, TypeInit, TypeNext, PTL DEF Spec

-----------------------------------------------------------------------------
(* One request at a time. *)

\* The claim of an owner is in flight, has as much time left as the owner has not used,
\* is nobody else's and nobody's who is gone.
ClaimOf(r, n) ==
    /\ stored[n].kind = "in_flight" /\ stored[n].ttl = IdemTTL - request[r].elapsed
    /\ n \notin orphans
    /\ \A s \in Requests \ {r} : ~ Owns(s, n)
Claimed == \A r \in Requests, n \in Names : Owns(r, n) => ClaimOf(r, n)

\* A name is an orphan only while its claim lasts: a free one can be claimed afresh.
OrphansHeld == \A n \in orphans : stored[n] # Nothing

Inv == TypeInv /\ Claimed /\ OrphansHeld /\ ClaimHasOwner

LEMMA InvInit == Init => Inv
<1> SUFFICES ASSUME Init PROVE Inv
  OBVIOUS
<1>1. TypeInv
  BY TypeInit
<1> QED
  BY <1>1 DEF Init, Inv, Claimed, Owns, Owning, Idle, OrphansHeld, ClaimHasOwner, InFlight, Nothing

\* A step of r that leaves the keys alone, and after which r owns what it owned before
\* and has not used more of it.
LEMMA QuietStep ==
    ASSUME Inv, NEW r \in Requests, UNCHANGED <<stored, orphans>>,
           \A s \in Requests \ {r} : request'[s] = request[s],
           \A n \in Names : Owns(r, n)' <=> Owns(r, n),
           \A n \in Names : Owns(r, n) => request'[r].elapsed = request[r].elapsed
    PROVE  Claimed' /\ OrphansHeld' /\ ClaimHasOwner'
<1>1. \A s \in Requests, n \in Names : Owns(s, n)' <=> Owns(s, n)
  BY DEF Owns
<1>2. \A s \in Requests, n \in Names : Owns(s, n) => request'[s].elapsed = request[s].elapsed
  OBVIOUS
<1>3. Claimed'
  BY <1>1, <1>2 DEF Inv, Claimed, ClaimOf
<1> QED
  BY <1>1, <1>3 DEF Inv, OrphansHeld, ClaimHasOwner, InFlight

\* A step after which r, who owned n, owns nothing, and n is not in flight or an orphan.
LEMMA LetGo ==
    ASSUME Inv, NEW r \in Requests, NEW n \in Names, Owns(r, n),
           \A s \in Requests \ {r} : request'[s] = request[s],
           request'[r].step \notin Owning,
           \A m \in Names \ {n} : stored'[m] = stored[m],
           \/ ~ InFlight(n)' /\ orphans' = orphans
           \/ orphans' = orphans \cup {n} /\ stored'[n] = stored[n]
    PROVE  Claimed' /\ OrphansHeld' /\ ClaimHasOwner'
<1>1. \A s \in Requests, m \in Names :
        Owns(s, m)' => s # r /\ m # n /\ Owns(s, m) /\ request'[s] = request[s]
  BY DEF Owns, Inv, Claimed, ClaimOf
<1>2. n \notin orphans /\ stored[n] # Nothing /\ orphans \subseteq Names
  BY DEF Inv, Claimed, ClaimOf, Nothing, TypeInv, TypeOK
<1>3. Claimed'
  BY <1>1 DEF Inv, Claimed, ClaimOf
<1>4. OrphansHeld'
  BY <1>2 DEF Inv, OrphansHeld
<1>5. \A s \in Requests \ {r}, m \in Names : Owns(s, m) => Owns(s, m)'
  BY DEF Owns
<1>6. \A m \in Names \ {n} : ~ Owns(r, m)
  BY DEF Owns
<1>7. ClaimHasOwner'
  BY <1>5, <1>6 DEF Inv, ClaimHasOwner, InFlight
<1> QED
  BY <1>3, <1>4, <1>7

LEMMA AsksClaims ==
    ASSUME Inv, NEW r \in Requests, NEW tenant \in Tenants, NEW key \in Keys[tenant],
           Asks(r, tenant, key)
    PROVE  Claimed' /\ OrphansHeld' /\ ClaimHasOwner'
<1>1. PICK n \in Names : n = Name(tenant, key)
  BY DEF Names
<1>2. /\ stored \in [Names -> Entry] /\ request \in [Requests -> Request]
      /\ orphans \subseteq Names
  BY DEF Inv, TypeInv, TypeOK
<1>3. request[r].step \notin Owning
  BY DEF Asks, Claims, ClaimsInVain, FindsTaken, Arrives, Owning
<1>4. \A m \in Names : ~ Owns(r, m)
  BY <1>3 DEF Owns
<1>5. ASSUME Free(n) PROVE n \notin orphans /\ \A s \in Requests : ~ Owns(s, n)
  BY <1>1, <1>5 DEF Free, Inv, OrphansHeld, Claimed, ClaimOf, Nothing
<1>6. ASSUME Claim(n)
      PROVE  /\ Free(n) /\ stored' = [stored EXCEPT ![n] = [kind |-> "in_flight", ttl |-> IdemTTL]]
             /\ stored'[n] = [kind |-> "in_flight", ttl |-> IdemTTL]
             /\ \A m \in Names \ {n} : stored'[m] = stored[m]
  BY <1>1, <1>2, <1>6 DEF Claim, Put
<1>7. CASE Claims(r, tenant, key)
  <2> USE <1>7 DEF Claims
  <2>1. request' = [request EXCEPT ![r] =
                      [step |-> "serve", tenant |-> tenant, name |-> n,
                       envelope |-> NoEnvelope, elapsed |-> 0]]
    BY <1>1 DEF Arrives
  <2>2. request'[r].step = "serve" /\ request'[r].name = n /\ request'[r].elapsed = 0
    BY <1>2, <2>1
  <2>3. \A s \in Requests \ {r} : request'[s] = request[s]
    BY <1>2, <2>1
  <2>4. \A m \in Names : Owns(r, m)' <=> m = n
    BY <1>1, <2>2 DEF Owns, Owning
  <2>5. \A s \in Requests \ {r}, m \in Names : Owns(s, m)' <=> Owns(s, m)
    BY <2>3 DEF Owns
  <2>6. Claim(n) /\ orphans' = orphans
    BY <1>1
  <2>7. ClaimOf(r, n)'
    BY <1>5, <1>6, <2>2, <2>5, <2>6, IdemTTLAssumption DEF ClaimOf
  <2>8. ASSUME NEW s \in Requests \ {r}, NEW m \in Names, Owns(s, m) PROVE ClaimOf(s, m)'
    <3>1. m # n /\ ClaimOf(s, m)
      BY <1>5, <1>6, <2>6, <2>8 DEF Inv, Claimed
    <3> QED
      BY <1>6, <2>3, <2>4, <2>5, <2>6, <3>1 DEF ClaimOf
  <2>9. Claimed'
    BY <2>4, <2>5, <2>7, <2>8 DEF Claimed
  <2>10. OrphansHeld'
    BY <1>2, <1>6, <2>6 DEF Inv, OrphansHeld, Nothing
  <2>11. ClaimHasOwner'
    BY <1>4, <1>6, <2>4, <2>5, <2>6 DEF Inv, ClaimHasOwner, InFlight
  <2> QED
    BY <2>9, <2>10, <2>11
<1>8. CASE ClaimsInVain(r, tenant, key)
  <2>1. request' = [request EXCEPT ![r] = Idle]
    BY <1>8 DEF ClaimsInVain, End
  <2>2. Claim(n) /\ orphans' = orphans \cup {n}
    BY <1>1, <1>8 DEF ClaimsInVain
  <2>3. \A s \in Requests \ {r} : request'[s] = request[s]
    BY <1>2, <2>1
  <2>4. \A m \in Names : ~ Owns(r, m)'
    BY <1>2, <2>1 DEF Owns, Owning, Idle
  <2>5. \A s \in Requests, m \in Names : Owns(s, m)' <=> Owns(s, m)
    BY <1>4, <2>3, <2>4 DEF Owns
  <2>6. ASSUME NEW s \in Requests, NEW m \in Names, Owns(s, m) PROVE ClaimOf(s, m)'
    <3>1. m # n /\ s # r /\ ClaimOf(s, m)
      BY <1>4, <1>5, <1>6, <2>2, <2>6 DEF Inv, Claimed
    <3> QED
      BY <1>6, <2>2, <2>3, <2>5, <3>1 DEF ClaimOf
  <2>7. Claimed'
    BY <2>5, <2>6 DEF Claimed
  <2>8. OrphansHeld'
    BY <1>2, <1>6, <2>2 DEF Inv, OrphansHeld, Nothing
  <2>9. ClaimHasOwner'
    BY <1>6, <2>2, <2>5 DEF Inv, ClaimHasOwner, InFlight
  <2> QED
    BY <2>7, <2>8, <2>9
<1>9. CASE FindsTaken(r, tenant, key)
  <2>1. request' = [request EXCEPT ![r] =
                      [step |-> "get", tenant |-> tenant, name |-> n,
                       envelope |-> NoEnvelope, elapsed |-> 0]]
    BY <1>1, <1>9 DEF FindsTaken, Arrives
  <2>2. request'[r].step = "get" /\ \A s \in Requests \ {r} : request'[s] = request[s]
    BY <1>2, <2>1
  <2>3. \A m \in Names : ~ Owns(r, m)'
    BY <2>2 DEF Owns, Owning
  <2> QED
    BY <1>4, <1>9, <2>2, <2>3, QuietStep DEF FindsTaken
<1> QED
  BY <1>7, <1>8, <1>9 DEF Asks

LEMMA GoesOnClaims ==
    ASSUME Inv, NEW r \in Requests, GoesOn(r) \/ GoesAway(r)
    PROVE  Claimed' /\ OrphansHeld' /\ ClaimHasOwner'
<1>1. PICK n \in Names : n = request[r].name
  BY Underway DEF Inv, TypeInv
<1>2. /\ stored \in [Names -> Entry] /\ request \in [Requests -> Request]
      /\ orphans \subseteq Names /\ request[r] \in Request
  BY DEF Inv, TypeInv, TypeOK
<1>3. ASSUME NEW step, Proceed(r, step)
      PROVE  /\ request'[r].step = step /\ request'[r].name = n
             /\ request'[r].elapsed = request[r].elapsed
             /\ \A s \in Requests \ {r} : request'[s] = request[s]
  BY <1>1, <1>2, <1>3 DEF Proceed, Request, Idle
<1>4. ASSUME NEW step, NEW envelope,
             request' = [request EXCEPT ![r].step = step, ![r].envelope = envelope]
      PROVE  /\ request'[r].step = step /\ request'[r].name = n
             /\ request'[r].elapsed = request[r].elapsed
             /\ \A s \in Requests \ {r} : request'[s] = request[s]
  BY <1>1, <1>2, <1>4 DEF Request, Idle
<1>5. ASSUME End(r)
      PROVE  /\ request'[r].step \notin Owning
             /\ \A s \in Requests \ {r} : request'[s] = request[s]
  BY <1>2, <1>5 DEF End, Idle, Owning
<1>6. {"serve", "store", "release"} = Owning /\ "get" \notin Owning /\ "answered" \notin Owning
  BY DEF Owning
<1>7. \A entry : Put(n, entry) => /\ stored'[n] = entry
                                /\ \A m \in Names \ {n} : stored'[m] = stored[m]
  BY <1>2 DEF Put
<1>8. CASE Replay(r)
  <2>1. request[r].step \notin Owning
    BY <1>6, <1>8 DEF Replay, At
  <2>2. request'[r].step \notin Owning /\ \A s \in Requests \ {r} : request'[s] = request[s]
    BY <1>4, <1>5, <1>6, <1>8 DEF Replay
  <2> QED
    BY <1>8, <2>1, <2>2, QuietStep DEF Replay, Owns
<1>9. ASSUME request[r].step \in Owning, request'[r].step \in Owning, request'[r].name = n,
             request'[r].elapsed = request[r].elapsed,
             \A s \in Requests \ {r} : request'[s] = request[s], UNCHANGED <<stored, orphans>>
      PROVE  Claimed' /\ OrphansHeld' /\ ClaimHasOwner'
  <2>1. \A m \in Names : Owns(r, m)' <=> Owns(r, m)
    BY <1>1, <1>9 DEF Owns
  <2> QED
    BY <1>9, <2>1, QuietStep
<1>10. ASSUME NEW answer, Returns(r, answer) PROVE Claimed' /\ OrphansHeld' /\ ClaimHasOwner'
  <2>1. /\ request[r].step = "serve" /\ UNCHANGED <<stored, orphans>>
        /\ request' = [request EXCEPT ![r].step = "store",
             ![r].envelope = [tenant |-> request[r].tenant, answer |-> answer]]
    BY <1>10 DEF Returns, At
  <2>2. /\ request'[r].step = "store" /\ request'[r].name = n
        /\ request'[r].elapsed = request[r].elapsed
        /\ \A s \in Requests \ {r} : request'[s] = request[s]
    BY <1>4, <2>1
  <2>3. request[r].step \in Owning /\ request'[r].step \in Owning
    BY <1>6, <2>1, <2>2
  <2> QED
    BY <1>9, <2>1, <2>2, <2>3
<1>11. CASE Fails(r) \/ \E j \in Jobs : AcceptsInVain(r, j)
  BY <1>3, <1>6, <1>9, <1>11 DEF Fails, AcceptsInVain, At
<1>12. CASE Stores(r) \/ StoresInVain(r)
  <2>1. Owns(r, n)
    BY <1>1, <1>6, <1>12 DEF Stores, StoresInVain, At, Owns
  <2>2. /\ request'[r].step \notin Owning
        /\ \A s \in Requests \ {r} : request'[s] = request[s]
    BY <1>3, <1>5, <1>6, <1>12 DEF Stores, StoresInVain
  <2>3. ~ InFlight(n)' /\ (\A m \in Names \ {n} : stored'[m] = stored[m]) /\ orphans' = orphans
    BY <1>1, <1>7, <1>12 DEF Stores, StoresInVain, Store, InFlight
  <2> QED
    BY <2>1, <2>2, <2>3, LetGo
<1>13. CASE Releases(r)
  <2>1. Owns(r, n)
    BY <1>1, <1>6, <1>13 DEF Releases, At, Owns
  <2>2. ~ InFlight(n)' /\ (\A m \in Names \ {n} : stored'[m] = stored[m]) /\ orphans' = orphans
    BY <1>1, <1>7, <1>13 DEF Releases, Release, InFlight, Nothing
  <2> QED
    BY <1>5, <1>13, <2>1, <2>2, LetGo DEF Releases
<1>14. CASE GoesAway(r) /\ request[r].step \in Owning
  <2>1. Owns(r, n) /\ orphans' = orphans \cup {n} /\ stored' = stored
    BY <1>1, <1>14 DEF GoesAway, Owns
  <2> QED
    BY <1>5, <1>14, <2>1, LetGo DEF GoesAway
<1>15. CASE GoesAway(r) /\ request[r].step \notin Owning
  BY <1>5, <1>15, QuietStep DEF GoesAway, Owns
<1> QED
  BY <1>8, <1>10, <1>11, <1>12, <1>13, <1>14, <1>15 DEF GoesOn, Serves, Completes, Accepts

\* Time: an owner's claim outlives it, since it has ServeTime and the claim has more.
LEMMA TickClaims ==
    ASSUME Inv, Tick
    PROVE  Claimed' /\ OrphansHeld' /\ ClaimHasOwner'
<1>1. /\ stored \in [Names -> Entry] /\ request \in [Requests -> Request]
      /\ orphans \subseteq Names
  BY DEF Inv, TypeInv, TypeOK
<1>2. request' = [r \in Requests |-> Counted(request[r])]
  BY DEF Tick, Counted
<1>3. \A r \in Requests : request[r].step \in Owning => request[r].elapsed < ServeTime
  BY DEF Tick
<1>4. \A n \in Names : stored'[n] = Aged(stored[n])
  BY DEF Tick, Expire
<1>5. orphans' = {n \in orphans : stored'[n] # Nothing}
  BY DEF Tick
<1>6. \A r \in Requests, n \in Names :
        /\ Owns(r, n)' <=> Owns(r, n)
        /\ Owns(r, n) => /\ request[r].elapsed \in 0 .. ServeTime
                         /\ request[r].elapsed < ServeTime
                         /\ request'[r].elapsed = request[r].elapsed + 1
  BY <1>1, <1>2, <1>3, CountedType DEF Owns
<1>7. ASSUME NEW r \in Requests, NEW n \in Names, Owns(r, n) PROVE ClaimOf(r, n)'
  <2>1. ClaimOf(r, n)
    BY <1>7 DEF Inv, Claimed
  <2>2. /\ stored[n].ttl # 1 /\ stored[n].ttl - 1 = IdemTTL - request'[r].elapsed
        /\ stored[n] = [kind |-> "in_flight", ttl |-> stored[n].ttl]
    BY <1>1, <1>6, <1>7, <2>1, EntryKinds, IdemTTLAssumption, ServeTimeAssumption DEF ClaimOf
  <2>3. stored'[n] = [kind |-> "in_flight", ttl |-> stored[n].ttl - 1]
    BY <1>4, <2>2 DEF Aged, Nothing
  <2> QED
    BY <1>5, <1>6, <2>1, <2>2, <2>3 DEF ClaimOf
<1>8. Claimed'
  BY <1>6, <1>7 DEF Claimed
<1>9. OrphansHeld'
  BY <1>5 DEF OrphansHeld
<1>10. ASSUME NEW n \in Names, InFlight(n)' PROVE n \in orphans' \/ \E r \in Requests : Owns(r, n)'
  <2>1. stored'[n] # Nothing /\ InFlight(n)
    <3>1. stored[n] \in Entry /\ stored'[n] = Aged(stored[n])
      BY <1>1, <1>4
    <3>2. stored[n] # Nothing /\ stored[n].ttl # 1
      BY <1>10, <3>1 DEF Aged, InFlight, Nothing
    <3>3. CASE stored[n].kind = "response"
      <4>1. stored'[n] = [kind |-> "response", ttl |-> stored[n].ttl - 1,
                          envelope |-> stored[n].envelope]
        BY <3>1, <3>2, <3>3, EntryKinds DEF Aged
      <4> QED
        BY <1>10, <4>1 DEF InFlight
    <3> QED
      BY <1>10, <3>1, <3>2, <3>3, EntryKinds DEF InFlight, Nothing
  <2> QED
    BY <1>5, <1>6, <2>1 DEF Inv, ClaimHasOwner
<1>11. ClaimHasOwner'
  BY <1>10 DEF ClaimHasOwner
<1> QED
  BY <1>8, <1>9, <1>11

LEMMA InvNext == Inv /\ [Next]_vars => Inv'
<1> SUFFICES ASSUME Inv, [Next]_vars PROVE Inv'
  OBVIOUS
<1>1. TypeInv'
  BY TypeNext DEF Inv
<1>2. ASSUME NEW j \in Jobs, Finishes(j) PROVE Claimed' /\ OrphansHeld' /\ ClaimHasOwner'
  BY <1>2 DEF Finishes, Inv, Claimed, ClaimOf, OrphansHeld, ClaimHasOwner, Owns, InFlight
<1>3. ASSUME UNCHANGED vars PROVE Claimed' /\ OrphansHeld' /\ ClaimHasOwner'
  BY <1>3 DEF vars, Inv, Claimed, ClaimOf, OrphansHeld, ClaimHasOwner, Owns, InFlight
<1>4. ASSUME NEW r \in Requests, NEW tenant \in Tenants, NEW key \in Keys[tenant],
             Asks(r, tenant, key)
      PROVE  Claimed' /\ OrphansHeld' /\ ClaimHasOwner'
  BY <1>4, AsksClaims
<1>5. ASSUME NEW r \in Requests, GoesOn(r) \/ GoesAway(r)
      PROVE  Claimed' /\ OrphansHeld' /\ ClaimHasOwner'
  BY <1>5, GoesOnClaims
<1>6. ASSUME Tick PROVE Claimed' /\ OrphansHeld' /\ ClaimHasOwner'
  BY <1>6, TickClaims
<1>7. Claimed' /\ OrphansHeld' /\ ClaimHasOwner'
  BY <1>2, <1>3, <1>4, <1>5, <1>6 DEF Next
<1> QED
  BY <1>1, <1>7 DEF Inv

\* Whatever requests arrive, fail, are cut off or find claims expired, a key is worked
\* on by at most one request at a time, and its claim is there, and that request's,
\* when it is stored or released (claim(), idempotency.py:28).
THEOREM AlwaysSingleClaim == Spec => []SingleClaim
<1>1. Inv => SingleClaim
  BY DEF Inv, Claimed, ClaimOf, SingleClaim, InFlight
<1> QED
  BY <1>1, InvInit, InvNext, PTL DEF Spec

\* No path through chat_completions forgets a claim (release(), idempotency.py:61): a
\* key in flight is somebody's, unless a request was cut off.
THEOREM AlwaysClaimHasOwner == Spec => []ClaimHasOwner
<1>1. Inv => ClaimHasOwner
  BY DEF Inv
<1> QED
  BY <1>1, InvInit, InvNext, PTL DEF Spec
=============================================================================
