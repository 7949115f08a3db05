# A formal model of the self-healing LLM gateway

TLA+ specifications of the gateway's stateful core, the TLC configurations that
check them on small instances, and proofs of their most important invariants for
every value of the constants. The models are translated from the code in
`gateway/`; where the code and its own comments disagree, the model follows the
code and a run shows the disagreement.

Conventions used below: "lines" are lines of the file named; a *run* is a module
with a `.cfg`, listed in `PROJECT.json` with the properties it checks; `map` in
`PROJECT.json` names the source lines of every definition that models code.

## 1. The system

Processes: any number of API workers (FastAPI, one asyncio loop each) and any
number of queue workers (`worker.py`). All shared state is in Redis, and every
`await` on Redis or on a provider is a point where any other request, job or
process may act. Nothing uses WATCH, Lua or locks; only the commands of one
`pipeline()` (MULTI) are atomic together.

| Component | State it keeps | Operations | Interacts with |
|---|---|---|---|
| Outcome taxonomy, `providers.py` | none | `classify_exception`, `call_provider` | called by the router; its outcome is what health, breaker, router and worker decide on |
| Health window, `health.py` | sorted set `health:<p>`, scored by time, with an expiry | `record`, `snapshot` | written by `router._observe`, read and deleted by the breaker |
| Circuit breaker, `breaker.py` | hash `breaker:<p>` | `state_of`, `allows`, `record`, `seed_gauge` | asked by the router before a call and told after it; polled by `/admin/circuits` |
| Router, `router.py` | none of its own; two tasks while a hedge is in flight | `route`, `_hedged_start`, `_first_usable`, `attempt` | breaker, chaos, providers, health |
| Job queue, `queue.py` | hashes `job:<id>` with an expiry, sorted sets `queue:ready`, `queue:dlq` | `enqueue`, `pop_due`, `retry`, `complete`, `fail`, `dead_letter`, `dead`, `get` | filled by the API, drained by workers |
| Worker, `worker.py` | the job it has popped | `run_once`, `_run`, `_defer`, `_retry_or_bury` | queue and router |
| Idempotency guard, `idempotency.py` | key `idem:<tenant>:<key>` with an expiry | `claim`, `store`, `release` | wraps `chat_completions` |
| HTTP API, `main.py` | none | `chat_completions`, `get_job`, `/admin/*` | everything above |
| Fault injection, `chaos.py` | key `chaos:<p>` with an expiry | `set_`, `get`, `clear` | read by `router.attempt` |
| Configuration, metrics, schemas, scripts | read-only or in-process | | |

### What is hard about it

* **Read, decide, write.** `breaker.state_of`, `_record_probe` and `_maybe_trip`
  decide on an HGETALL and write later; a second caller can act in between.
* **Two-command transitions.** To half-open: HSET then DEL. A retry: HSET then
  ZADD. A burial: HSET then ZADD. A put-back: ZPOPMIN then ZADD. A process may
  die, be cancelled (a hedge's loser) or lose Redis between any two.
* **Clocks.** `now_ms` is captured before an await, every process has its own,
  and eviction, visibility, cooldown and due times all compare such clocks.
* **Expiry.** A job's hash may expire while a worker holds the job.
* **Late answers.** A call admitted under one state of the circuit is recorded
  under another.
* **Boundaries.** `min_samples`, the error rate, the interpolated p95, the
  attempt budget, the doubling and cap of the cooldown.

### What makes each component correct

* Health: a snapshot counts every call of the last window once and none older;
  an idle provider's memory is given back.
* Breaker: only provider faults take a provider out, never callers' bad input, however
  slow, and only on `min_samples` of
  evidence; an open circuit always can and eventually does get out; a provider
  that is well again ends up closed; one caller at a time, every write is a
  transition of the promised circuit.
* Queue and worker: one owner per job; no unfinished job is lost unless a worker
  goes down with it; attempts are spent exactly on provider failures; a final
  status is final; every job is finished once capacity is back.
* Router: each rung is called at most once; no call is made once another has
  settled the request; only a settling answer is served; an exhausted ladder has
  asked every rung and its trail lists every call that came back.
* Router and API together: an injected fault counts as what it was set to; the
  status tells the caller what happened.
* Idempotency: one request at a time works on a key; a key replays the response of
  the last work done under it, and only to the tenant it was made for; finished work is
  not done again while the key protects it; a failure frees the key, and a key that is
  sent again and again is answered in the end.

## 2. Modules

Each arrow is an EXTENDS unless marked.

```
 Outcomes     Clock                          Deferred <- - JobQueue
   |    \     /    \                            ^           |     \
   |  HealthWindow  CircuitState -> Circuit     :      MCJobQueue  JobQueueProofs
   |    |     \       /                ^        :
   |    |      Breaker - - - - - - - - +     Gateway <- Idempotency
   |    |      |     \                          |    \
   |    |      |   BreakerProofs          MCGateway  GatewayProofs
   |    |   BreakerRaces -> MCBreaker                     |
   |    |                                         GatewayReplayProofs
   |    +-> Health -> MCHealth, HealthProofs
   |
   +-> Ladder <- - - - - Router -> MCRouter
   |                     ^    \
   +-> Taxonomy ---------+     RouterProofs -> RouterRefinement
```

A dashed arrow is an INSTANCE; HealthWindowProofs extends HealthWindow, and
BreakerProofs extends it too.

* `Outcomes` - the outcomes of `providers.py` (27-67): which are ok, which are
  trippable.
* `Taxonomy` - the three tables that must fit together: exceptions to outcomes
  (`_EXCEPTION_TAXONOMY`, `classify_exception`), injectable faults to exceptions
  (`_EXCEPTION_FOR`), outcomes to statuses (`_STATUS_BY_OUTCOME`). Which LiteLLM class
  derives from which is external.
* `Clock`, `CircuitState` - how time is kept, and the four contents of the
  breaker's hash with the settings of `BreakerConfig`.
* `HealthWindow` - the sorted set as a value: what `record` adds and evicts, what
  `snapshot` sees, the error rate and the interpolated p95 of `_summarise`.
* `Health` - the sorted set as a shared store with writers whose clocks differ,
  its expiry, and the breaker's DEL.
* `Circuit` - the abstract circuit breaker: one atomic step per transition.
* `Breaker` - `breaker.py` and `router.attempt`/`_observe` for one provider and
  any number of callers, one action per Redis command.
* `BreakerRaces` - what comments and tests say of the circuit and overlapping callers
  break.
* `Deferred` - what the queue promises to those who read a job: pending until one
  final status, readable for the expiry that began at its acceptance.
* `JobQueue` - `queue.py` and `worker.py`, one action per Redis command. It
  implements `Deferred`.
* `Idempotency` - `idempotency.py`: the keys, their expiry and the commands.
* `Gateway` - `chat_completions` of `main.py` for requests with a key: Idempotency
  and `Deferred` composed, one action per command, requests that overlap and are cut
  off.
* `Ladder` - what the router promises of one request.
* `Router` - `router.py` with `chaos.py`: the walk, the hedged race as coroutines,
  injected faults, the trail, and the status of `main.py`.
* `HealthWindowProofs`, `HealthProofs`, `BreakerProofs`, `JobQueueProofs`,
  `GatewayProofs`, `GatewayReplayProofs`, `RouterProofs`, `RouterRefinement` - the
  theorems.

### How state and actions correspond to the code

**Time.** Absolute timestamps would make every state space infinite, so a stored
timestamp is kept as its age, or the time left until it, and `Tick` moves all of
them. A captured `now_ms` becomes the *lag* of its holder: the age of the clock
value it is still using, at most `MaxLag`. A comparison in the code between two
timestamps is the same comparison between ages, shifted by the lag. Circuit ages
saturate at `CooldownMax + MaxLag`, where every clock finds the cooldown over.

**Breaker.** `circuit` is the hash `breaker:<p>` (absent reads as `Closed`),
`window` the sorted set, `caller[c]` the program counter and locals of a
coroutine: its role (`allows`, the call, `record`, `poll`), the Redis command it
sends next, the state it read (`seen`), its clock's lag. `ReadCircuit` is the
HGETALL of `state_of` (98); `EnterHalfOpen` the HSET (269); `ClearWindow` the DEL
(278); `Admit` and `Refuse` the rest of `allows`, the draw against `probe_ratio`
being a choice; `Observe` the provider's answer with the MULTI of `health.record`, whose
sample bears the clock that `health.record` captured (its age is a choice up to `MaxLag`);
`Consult` the start of `breaker.record`, which captures a clock of its own at some time
since; `ProbeOK`, `ProbeFail`, `Ignore`, `Snapshot`, `Trip` its
branches. `Abandon` is a caller that goes away between two commands: a crash, a
cancelled hedge, or a Redis error that `_observe` swallows (304).

**JobQueue.** `hash[j]` is `job:<j>` reduced to status, attempts, the time to
its expiry and whether it has all the fields `enqueue` wrote (`whole`); `ready[j]`
the time until its score, `NoTime` if it is not in `queue:ready`; `dlq` the
dead-letter queue in order; `worker[w]` the command a worker sends next and the
job it holds. `Updated` is `_update`: an HSET, which makes a missing hash anew
without the other fields and without an expiry. `Route` stands for
`router.route`: any of its four kinds of verdict. `Drop` is a worker that dies at
any command, or whose exception `main` swallows. `accepted`, `tries` and
`dropped` are ghosts: they are written but never read by a guard (but for `accepted`
in `Enqueue`, which says that ids are not used twice).

**Deferred.** `life[j]` is what `GET /v1/jobs/<j>` can learn: unknown, pending or a
final status, and the time for which it can. Under the mapping in JobQueue a job is
unknown unless its hash is whole: `get` cannot read a partial one.

**Idempotency and Gateway.** `stored[n]` is the Redis key n: nothing, the sentinel
`in_flight`, or the envelope of a response, with the time to its expiry. A key's name
is kept as the parts between the colons of `idem:<tenant>:<key>`, so that a tenant or a
key with a colon in it is several parts, and names that are one string are one sequence. `request[r]` is a handler: the command
it sends next (`get` is the GET of `claim`, after its SET NX found the key taken; `serve`
is all of `_serve`; `store` and `release` are the commands of the end), its tenant,
name, response, and the time since its claim (`elapsed`). `Claims` is a SET NX that
took the key; `Replay` the GET and `_replay`, which answers 409 for a key in flight and
for one that has expired in between; `Completes` a provider's answer; `Accepts` a job
queued (the 202); `Fails` an exception or a status from 400 on; `Stores` and `Releases`
the ends. Three actions are commands that Redis did but could not answer
(`ClaimsInVain`, `AcceptsInVain`, `StoresInVain`), and `GoesAway` is a process that stops
or a command that was not done. `work[n]` and `orphans` are ghosts: the last work done
under a name, how long ago, and whether it was cut off; and the names whose claim was
made for a request that is gone. An id is used again only when nothing is left of its
last use (`Fresh`).

**Router.** `route` is where the coroutine of the request waits (`screen` is
`_admissible`, `primary` the wait with a timeout, `race` and `other` the two waits
of `_first_usable`, `walk` and `rung` the loop), `attempt[i]` the coroutine of
rung i with the await it is at, `trail` the attempts of `RouteOutcome`. A wait that
sees several calls ended chooses as the code does from what is done when it wakes;
`FirstUsable` cancels the other coroutine wherever it is. `AllowsRaises` and the
second outcome of `GetChaos` are a Redis that cannot be reached. What the breakers
answer is a choice at each question, so a circuit may change between screening and
walk; `asked` is a ghost that keeps the last answer. A ladder is taken to name a
provider once. `chaos[i]` is the error_type injected into the provider of rung i, set
and cleared by an operator at any time (`Operate`); `GetChaos` is the read of it by
`attempt`, `ApplyHits` and `ApplyMisses` the draw against its error rate, after a sleep
in which the operator may act again. A provider's answer is any of the exceptions in
`Failures`, classified as `call_provider` does. `Status` is what `main.py` makes of the
verdict.

## 3. Runs

| Run | Instance | What it shows |
|---|---|---|
| `health` | 2 writers, 2 results, window 2, lag 1, 3 samples | `SnapshotExact`, `QuietKeyExpires` |
| `breaker` | 2 callers, ok / server error, window 1, lag 1, cooldown 1..2, 2 probes, 2 samples of evidence, 3 samples | `Recoverable` under every interleaving of commands, `OpenIsLeft` and `Recovery` under fairness |
| `breaker_solo` | 1 caller, caller faults and slow answers and slow caller faults too, window 2, cooldown 1..3, 4 samples | `OnlyProviderFaultsOpen` through the error rate and through the p95, `TripNeedsEvidence`, and that Breaker implements `Circuit` |
| `jobqueue` | 2 jobs, 2 workers, 3 attempts, expiry 4 | `SingleOwner`, `RetryBudget`, `NothingLost`, and that JobQueue implements `Deferred` |
| `router` | 4 rungs, walked or raced; ok, a timeout, a caller fault, an unknown exception; any fault injected into the second rung | that Router implements `Ladder`; `TrailTellsCalls`, `NoRungForgotten`, `CallsAdmitted`, `InjectionExact`, `StatusTellsTruth`, `RequestEnds` |
| `gateway` | 2 requests at a time, 2 tenants, 3 keys under 2 names (`acme` with `eu:7` and `acme:eu` with `7` share one), one completion and one job, both expiries 3, at most 1 from claim to store | `SingleClaim`, `ClaimHasOwner`, `ReplaysLastWork`, `CrossesByCollision`, `JobCollectable`, `BilledOnce`, `KeyIsAnswered` |
| `jobqueue_live` | 2 jobs, 2 workers, 2 attempts, no expiry | `QueueDrains` |

Why the bounds are enough. Two callers are what a read-modify-write race needs,
and a caller that finishes may start again, so a behaviour has any number of calls.
Two samples make a trip, three let an old one, a bad one and a diluting one
coexist. A lone caller's cooldown of 1 with a cap of 3 has one doubling that fits and one
that is cut, and lag 1 with window 2 lets clocks disagree by half a window; two callers
under fairness have a cap of 2 and a window of 1, and `AlwaysRecoverable` and
`AlwaysOnlyProviderFaultsOpen` cover any number of callers with any settings. Two jobs let one
be put back while the other waits; three attempts let deferrals fall before,
between and after failures. Two handlers, each of which takes request after request,
are what a shared key needs; with an expiry of 3 and one unit to serve, a key is
protected for two units, used up in the third and then taken again; one id of each
kind, used again when it may be, makes every mix-up of old and new work visible. The two
names are one that two tenants share and one that only one of them can make, so answers
that cross by collision and answers that may not cross are both there. The
ladder of four is the longest of `config/gateway.yaml`: a race may be preceded by a
refused rung and followed by a walk. `MaxSamples`, `MaxLag`, `ServeTime` and the sizes of
the sets are the only bounds; nothing else is cut off. Callers, jobs and workers are
interchangeable in the models; `jobqueue`, which has no temporal property that needs
fairness, uses the symmetry (`ImplementsDeferred`, a property of states and steps, is
symmetric too).

The runs that end in a violation show a disagreement between the code and what is
written about it; each has an entry in `findings`:

| Run | What the text says | What the code does |
|---|---|---|
| `breaker_OpenNeverCloses` | a flapping provider must not creep to closed | a stale success closes a circuit a failure has reopened |
| `jobqueue_DeadLettersReadable` | aged-out jobs are skipped | a partial hash makes `dead()` raise |
| `gateway_RepliesToTenant` | the key is namespaced by tenant, so that no replay hands a tenant the other's response | tenant and key are joined with a colon that either may contain, and two tenants share a key |
| `router_NoCallOutlivesRequest` | the loser is cancelled and awaited | a call that raises abandons the other one |
| `router_TrailNamesEveryRung` | an exhausted ladder's body names every provider | rungs refused before a race are missing |

The comment at `breaker.py:243` accepts that races cost an extra probe and a
repeated doubling; `OpenNeverCloses` shows one more cost, and the model has others
of the kind: a HSET to half-open decided on an old HGETALL overwrites a circuit
that has just opened; a failed probe of a trial that is over opens a closed
circuit with a doubled cooldown; a call admitted before the outage and answered
during a trial decides it. `ImplementsCircuit` excludes the first three, and
`breaker_solo` checks it for one caller at a time: they exist only between
overlapping callers.

Two more costs are in the model without a run of their own. The window that
`breaker.py:203` calls empty by design in a trial may still be the outage's: the HSET to
half-open (269) and the DEL of the window (278) are two commands. And a job that is
queued by a command whose reply is lost, or by a request that is cancelled at that
point, is not known to its request: the claim is released and a retry with the same
key queues a second job (`tests/test_idempotency.py:126`, "One job, not two", holds for
requests that are not cut off). `BilledOnce` excepts exactly this work (`lost`).

### Fairness

*Breaker.* Weak fairness of a started coroutine's next command: asyncio resumes
it when Redis answers, and a caller that goes away is an `Abandon`. Weak fairness
of `Ask`: requests keep coming; `OpenIsLeft` and `Recovery` are about a provider
somebody asks for, since reading is what advances a circuit. Strong fairness of
`Admit`: `probe_ratio > 0`, so a draw repeated for ever succeeds at some time.
Weak fairness of `Tick`. Both properties assume that from some time on no caller is
cut short (`NoneAbandons`), and `Recovery` that the provider is well.

*Router.* Weak fairness of `route` and of each attempt by itself: the event loop resumes
every coroutine that is ready, and providers answer or time out (`timeout_s`).
Operators are under no obligation, and cannot keep a request from ending. Deadlock is
not checked: a request ends.

*Gateway.* Weak fairness of each handler's next command and of `Tick`. Nobody has to send
a request. `KeyIsAnswered` assumes that clients keep sending the key and that from some
time on nothing fails, is lost or is cut off; a handler may still go away with a 409 in
its hands, or be overtaken for ever by another one.

*JobQueue.* Weak fairness of each worker's next command: `main` loops for ever,
sleeping `poll_interval_s` when there was nothing. `QueueDrains` assumes that from
some time on workers stay up and the router finds a rung to try; otherwise
deferral goes on, as `worker.py:109` says it does. The run has no expiry, since a
job whose hash expires first is given up by design.

## 4. Proofs

All proofs are for every set of writers, callers, jobs, workers, tenants, keys and
requests, for ladders of any length, and for every setting the named assumptions allow.
They use no assumption beyond those of the modules, but for the two theorems that name
their hypothesis, a lone caller of the breaker. Every safety invariant, action property and refinement that a passing run
checks is stated by one of them.

**`HealthWindowProofs`** holds what the other proofs need of the window's
operators: the empty set is a window (`EmptyWindow`), and what a clock sees of a
window and what the passing of time makes of it are windows again (`VisibleWindow`,
`AdvanceWindow`). `AddWindow` says what `record` leaves: exactly what a snapshot by the same
clock would have read, and the new call. That eviction (inclusive, on write) and the
readers' filter (exclusive, on read) agree at the edge of the window is what keeps a write
from taking away a call that still counts, and from leaving one that does not. And a p95 above the
limit needs a sample that is as slow as that (`P95NeedsSlow`), the fact about the
interpolation of `_summarise` on which blame for a latency trip rests.

**`HealthProofs`**

* `TypeCorrect`, `AlwaysSnapshotExact`, `AlwaysQuietKeyExpires`. That the set holds as many
  members of a result and an age as there were calls is a statement about a cardinality,
  and says too little of the set to survive an eviction. `Complete` says which members
  there are instead: those of one result and age bear the tokens 0 .. n-1 (`Numbered`), so
  a write adds the token n, which no member has (two calls alike in the same millisecond
  stay two), and an eviction takes a group away whole. `GroupCount` turns the numbers back
  into a count.
* The expiry needs `Renewed` (no call is younger than the last EXPIRE) and `Kept` (a member
  is older than every eviction reaches only while the key is quiet; an expired key is
  empty): together they say that when the key expires nothing of the window goes with it.

**`BreakerProofs`**

* `TypeCorrect`: `TypeOK` always. The invariant is `TypeInv`, which adds that the
  window is finite, without which its cardinality means nothing to the provers.
* `AlwaysRecoverable`: the stored cooldown never leaves base..max, and an open
  circuit has one to wait for. It rests on `WrittenCircuits` and `HashWrites`: whatever
  the interleaving, each write leaves one of four contents.
* `AlwaysOnlyProviderFaultsOpen`: no circuit leaves closed unless a provider fault
  (a trippable outcome, or a good answer over the latency budget) has been observed:
  refusals of bad input, fast or slow, open nothing. The
  property is not inductive: a trip rests on the window, and a caller may write
  half-open on the strength of an old read. `Blame` adds both: a fault among the
  samples, a caller that has read a circuit that is not closed, or one about to
  write such a circuit, means that a fault was observed. `BadNeedsFault` says that
  the thresholds of `_maybe_trip` are crossed only with a fault among the samples; for the
  p95 that is because `_summarise` keeps caller faults out of the percentiles
  (`HealthSamples`, health.py:145).
* `LoneCallerImplementsCircuit`: with one caller, Breaker implements `Circuit`. The
  invariant `ReadsHold` says that what the caller has read is still what the hash
  holds when it writes; every step is then a step of `Circuit` or a stutter. It is
  what a second caller breaks.
* `LoneTripNeedsEvidence`: with one caller, `TripNeedsEvidence`. The snapshot and the HSET
  of a trip are two commands, and time passes between them. `Evident` says that a caller
  about to trip still has its evidence in the window: its lag grows as its samples age, so
  its clock still sees them (`EvidenceAges`). `BadIsEvidence` gets the samples out of
  the thresholds of `_maybe_trip`, which only count what is no fault of the caller's.

**`JobQueueProofs`**

* `TypeCorrect`: `TypeOK` always, with `BusyHolds`: a worker past its pop holds a
  job, without which the writes it makes would have no key.
* `AlwaysSingleOwner`: no job is held by two workers, or held and ready at once.
  `Owner` adds that only accepted jobs are queued or held: otherwise an `Enqueue`
  could queue a job that a worker holds.
* `AlwaysRetryBudget`, `AlwaysNothingLost`, `QueueImplementsDeferred`. They share the
  invariant `JobInv`: `TypeInv` and `Owner`, that a worker that has returned holds
  nothing (`Resting`), and the `Fate` of each job. `Fate` follows a job through the
  commands of `queue.py` and `worker.py`: while it is queued or held its hash is not
  final and counts its failures, which are fewer than `MaxAttempts`; `HeldBy` says how
  the local copy of the count that a worker writes back relates to them at each command;
  `Accounted` says that a job with nobody is finished, filed or dropped. `FateKept` and
  `FateElsewhere` carry a step about one job past all the others.
* The refinement: `Learned` is what `GET /v1/jobs/{id}` can tell of a job. A write of a
  worker about its job is never about a final one, so it is a step of `Deferred` or a
  stutter, and no write touches the expiry. Gateway, which only knows of jobs what
  `Deferred` promises, therefore stands on the queue for any number of workers.

**`GatewayProofs`**

* `TypeCorrect`: `TypeOK` always, with `Answering`: a handler about to store has a
  response to store.
* `AlwaysSingleClaim`, `AlwaysClaimHasOwner`. That one request at a time works on a key
  is not inductive: nothing in the code ties a claim to its request, so it must be known
  that the claim in Redis lasts as long as the request. `Claimed` says so: the claim of an
  owner has exactly the time left that the owner has not used, which is positive since
  `ServeTime < IdemTTL`. `OrphansHeld` says that a claim whose request is gone is only
  remembered while it lasts, so that the next claim of the name is nobody else's.

**`GatewayReplayProofs`**

* `AlwaysReplaysLastWork`, `AlwaysJobCollectable`, `AlwaysBilledOnce`. The invariant
  `WorkInv` follows a piece of work from the handler that did it (`StoreMatches`: it is
  no older than the claim), to the stored answer (`HeldMatches`: its age and the answer's
  remaining time add up to at most `IdemTTL + ServeTime`) and to its job (`JobKept`: the
  job's remaining time is what the work's age leaves of `JobTTL`). `Guarded` says why it is
  not done again: until `IdemTTL - ServeTime` has passed, a handler that stores, an answer or
  the claim of a handler that is gone stands in the way. `Unguarded` draws the conclusion:
  a name that is free or being served has only work whose protection is over.

* `AlwaysCrossesByCollision`. The answer that a handler stores or was given, and the one
  stored under a name, were made for a tenant whose name that is (`MadeForTenant`): a
  tenant that with one of its keys makes the string. So an answer crosses from one tenant to
  another only where both make one string; no order of overlapping requests, stores,
  releases and expiries does it otherwise. It has no hypothesis on tenants or keys. That
  the strings can be equal is what `gateway_RepliesToTenant` shows.

These theorems rest on `ServeTime < IdemTTL` (a request is over before its claim expires)
and, for the job, on `JobTTL >= IdemTTL`, which the defaults of `config.py` (103-104) meet.

**`RouterProofs`**

* `TypeCorrect`, `AlwaysTrailTellsCalls`, `AlwaysNoRungForgotten`, `AlwaysCallsAdmitted`,
  `AlwaysInjectionExact`, `AlwaysStatusTellsTruth`, all from one invariant, `RouteInv`,
  which adds three things to `TypeOK`:
  - `Calls`: what is known of the coroutine of a rung at each of its awaits, among it
    that it was admitted, and that an outcome under an injected fault is that fault. The
    latter rests on the tables: `InjectedIsClassified` goes through the faults one by one
    and shows the row that the exception raised for it is classified by.
  - `TrailSound`: an entry of the trail is a rung that was skipped or the outcome of a call
    that is over, and no two are of one rung.
  - `Position`: what the place at which `route()` waits says of all the rungs. Before the
    place in the walk every rung is done and logged, or was refused; after it none was
    touched. In a race the two rungs raced are the first two that were admitted while
    screening, the second is untouched until the hedge fires, and the trail is still
    empty.
* Each step of `route()` has a lemma of its own (`ScreenedInv` to `OtherDoneInv`). The
  steps that resume the walk share `WalkPosition` and `Resumed`, those of a call
  `CallStep`: a call that goes on by itself moves nothing that `route()` relies on.
  `LastFailureCalled` is what the status rests on: `last_failure` of a trail with an
  entry is a call that failed.

**`RouterRefinement`**

* `RouterImplementsLadder`: every step of the walk, of a race and of a call is a step of
  `Ladder` or a stutter. `Ladder` sees only what each call answered and the verdict;
  `CallRefines`, `StartRefines` and `VerdictRefines` say what a call's end, its start and
  the end of the request are to it. What is not plain is that a second call is only
  started while at most one is out and none has settled the request, neither in the race
  nor in the walk that follows it: that is what `Position` says of the other rungs.

What stays with TLC is liveness (`OpenIsLeft`, `Recovery`, `QueueDrains`, `RequestEnds`,
`KeyIsAnswered`): it needs fairness and ENABLED, which are out of the provers' reach. What
is recorded here for a lone caller (`ImplementsCircuit`, `TripNeedsEvidence`) is not true of
two, see section 3.

## 5. Abstractions and what is not modelled

* One provider's breaker at a time: providers share no state.
* `MaxLag` bounds how long a captured clock is used and by how much clocks differ;
  the code has no such bound, so behaviours with a coroutine suspended for longer
  than `MaxLag` units are not covered.
* Durations are whole units of one discrete clock; the latencies and results are
  a small set.
* Scores that are due are all zero, so workers may take due jobs in any order;
  ZPOPMIN takes the lowest score. Every behaviour of the code is one of the model.
* `pop_due` reads its clock just before ZPOPMIN; the model compares at the pop.
* Pricing, request formats, logging, metrics, authentication of `/admin` and the
  read-only endpoints are left out.
* Requests without an Idempotency-Key are not in Gateway: they do what `_serve` does and
  touch no key. `stream` (400 before the claim) is left out for the same reason.
* Tenants and keys are sequences of parts, at least one, as headers that are not empty and
  may contain colons; what a part is does not matter.
* `ServeTime` bounds the time from a claim to its store or release, below the expiry: one
  day by default, against a ladder of calls that each time out. The code does not enforce
  it; a request slower than its claim would store over, or release, somebody else's.
* `router.route` is a choice of verdicts in JobQueue, and `_serve` one of outcomes in
  Gateway; which of them Router can give is not composed with them.
* An injected error rate is a draw that may go either way at each call, and an injected
  latency a part of the time a call takes, which is any.
* A request cancelled from outside (a client that disconnects) is not modelled in
  Router; in Breaker it is an `Abandon`.

## 6. Plan

1. *(done)* `HealthWindow`, `Health`; `CircuitState`, `Circuit`, `Breaker`,
   `BreakerRaces`; `JobQueue`; `Ladder`, `Router`; type correctness and the main
   safety invariants of Breaker and JobQueue.
2. *(done)* `Taxonomy` and fault injection in Router; `Deferred`; `Idempotency` and
   `Gateway`, with the theorems on claims, replays and billing; `RetryBudget` and
   `NothingLost` proved, and that JobQueue implements `Deferred`.
3. *(done)* Theorems for everything safe that the runs check: Router implements Ladder for
   any ladder, its trail, calls and status; the health window; trips on evidence; what
   brings two tenants together under a key.
4. The verdicts of Router as those of JobQueue's `Route` and Gateway's `Serves`.
