# pace in TLA+

pace is a client-side rate limiter for Go: one token bucket per key, kept in a
sharded map, optionally persisted in a store and optionally subordinate to a
quota that several replicas share through a backend. This directory models the
parts of it where order and interleaving decide whether it is right, checks them
with TLC and proves the safety that is checked with TLAPS.

All source references are relative to the repository root (`limiter/lifecycle.go:52`).

```
tlasany  Gate.tla                                   # parse
tlc -workers 2 -config MCGateFleet.cfg MCGate.tla   # check one run
tlapm LifecycleProofs.tla                           # check the proofs
```

## The system

| Component | Source | State | Operations | Module |
|---|---|---|---|---|
| circuit breaker | `breaker/` | failures, openTill, probing, under one mutex | Allow, Succeeded, Failed, Abandoned | `Breaker` |
| limiter lifecycle | `limiter/lifecycle.go`, `limiter.go` | shuttingDown and activeWg, lifetime context, closeOnce, closeErr | enter, leave, Close, Shutdown, finish, gcLoop | `Lifecycle` |
| key registry | `registry/` | shards of entries with a live count, evictions | GetOrCreate, Sweep, Evict, Reload, SnapshotAll, DropAll | `Registry` |
| token bucket | `bucket/bucket.go` | a `rate.Limiter` and the quota published beside it | AllowAt, ReserveAt, CancelAt, Wait, RestoreBucket, SetQuotaAt | `TokenBucket`, `ShadowBucket`, `Rates` |
| rates and quotas as text | `bucket/rate.go`, `bucket/parse.go` | none | Finite, ParseLimit, ParseQuota | `Rates` |
| configuration | `config/`, `limiter/validate.go` | none once resolved | Resolve, Apply, validate | `Configuration` |
| limiter quotas | `limiter/quota.go` | whatever the caller's hook reads | quotaFor, ReloadQuotas, ReloadQuota | `Quota` |
| shared-quota gate | `gate/`, `limiter/reserve.go` | none of its own but counters; the key's bucket is its shadow | Allow, Acquire, Take, wait, waitFallback; Reserve, Cancel | `Gate`, `Breaker` |
| backend contract | `shared/` | the fleet's bucket, outside the process | Take, Wait | in `Gate`, as an external service |
| limiter requests | `limiter/ratelimit.go`, `reserve.go`, `persist.go`, `api.go` | counters, throttle reports | Allow, Wait, Reserve, Enter, Evict, load, save, flush | `Requests`, `Registry`, `Lifecycle` |
| observation and errors | `limiter/observer.go`, `stats.go`, `errors.go`, `observe/` | four counters | FinishRequest, throttled, Stats | in `Requests` |
| client | `client/` | clients per key, streamed bodies | do, Stream, the releasing body, the pool | `Requests`, `Wire` |
| URLs | `urlx/` | none | Validate, Build | `Wire`, `Configuration` |
| store contract, memory store | `store/` | a map under a mutex | Load, Save, SaveBatch, Close | in `Registry`, as a service that may fail |

How they meet:

* A request enters the lifecycle barrier, finds or creates its key's entry in the
  registry (reading the store on a miss), stamps it and draws a token from its
  bucket. With a shared quota that bucket is only a *shadow*: it may refuse, and
  what it admits the gate asks the backend for, guarded by the breaker.
* The GC goroutine sweeps the registry on a ticker, persisting and then deleting
  keys that have been idle; Evict does it for one key by name; the teardown does
  it for all.
* Close and Shutdown cancel the lifetime context, wait for the GC and for the
  operations inside, flush, drop and close the store.
* A streamed response keeps its operation registered until its body is closed.
* A configuration is resolved once; after that only the answers of the caller's
  QuotaFor hook change, and reach the live buckets when somebody reloads them.

What is hard about it: every lock protects one short piece of surgery, and what
spans two of them races. A request uses its entry after letting go of the map; a
sweep writes what it read before; the breaker's verdicts come back to a breaker
that has moved on; a reservation is undone after others were made on top of it;
and a clock reading is used by whoever took it, however much later. The list of
these hazards, each at its line, is in `PROJECT.json`.

What makes each component correct:

* *breaker*: half-open means one probe and nobody else, and every claimed probe
  is resolved by the call that claimed it;
* *lifecycle*: the store is touched only while open, everything charged reaches
  it unless its save failed or its entry was let go under it, whoever closes
  returns only when it is over and all get the same answer, and waiting can always
  end;
* *registry*: no entry is stored over another and each is counted once, live and
  gone (an eviction whose save fails excepted); no token lost or minted on the way
  through eviction and restore; idle keys leave;
* *quotas*: what a bucket enforces is usable arithmetic and what is reported; a
  reload reaches everybody it found, and neither takes nor makes tokens;
* *requests*: the rate holds in every window however many waits are cut and
  reservations cancelled; what is given up is given back; every registration is
  released once, every attempt and failure counted once;
* *gate*: the shadow never holds less than the shared bucket; Deny never exceeds
  one quota for the fleet and FallbackLocal never one per replica; whoever gives
  up is let go.

## The modules

### `Breaker` and `BreakerProofs`

`failures`, `openTill` and `probing` are the fields of `breaker.Breaker`, with
`Zero` for the zero time. A call goes `idle -> arrived -> calling -> (failing)
-> idle`. It reads the clock when it arrives and the breaker decides later: the
source reads `g.cfg.Now()` before `Allow` takes the mutex, and again before
`Failed` does. A verdict acts on whatever state the breaker is in by then, as in
the code, which has no notion of which call it came from. `isProbe` is history.

With `Parking = FALSE` the calls are those of `Gate.Take`: `Tick` lets none of
them last more than `MaxCall` ticks from its clock reading, because of
`context.WithTimeout(ctx, g.cfg.Timeout)` and the conformance suite's demand that
a backend honours its context. With `Parking = TRUE` they are those of
`Gate.wait`, which has no timeout, and which may also leave without a verdict
once the owner has shut down (`OwnerLeaves`).

### `Lifecycle`, `DrainThenClose` and `LifecycleProofs`

`barrier`, `teardown`, `entries`, `data` and `calls` group the state. `active` is the count
inside `activeWg`. `Enter` registers under the read lock and refuses once
`shuttingDown` is set; `CallClose` and `CallShutdown` set it under the write lock.
The owner of `closeOnce` walks through `cancel`, `gcWait`, `opsWait`, `flush`,
`drop` and `closeStore`, the body of `finish` in its order; the others wait in
`finishing`. An operation that is inside is `entered`, in store I/O (`io`), `holding`
the entry it found, `working` with the token it charged to it, `streaming` (its
registration handed to a response body) or, if it is an Evict, `evicting`: the key is
out of the map and its save under way. Each operation has an entry of its own, since
what matters here is who still holds a charge when the store is closed; the sharing of
keys is `Registry`'s, which also has the touch and the draw apart, one step here.

`live` and `saved` say whose entry is in memory and whose charge is in the store,
`picked` which entries the sweep has flushed and may drop, `taken` what an Evict holds
between map and store. The sweep is `GcFlush` (phases 1 and 2) and `GcDrop` (phase 3),
Evict is `Evict` and `EvictSaved`. Any save may fail, of the sweep's and of the final
flush's keys any of them: those failures are logged and the keys dropped all the same
(`limiter/persist.go:124-137`, `registry/gc.go:162-183`), and Evict returns its own. A
charge whose save failed is in `failed`, an operation whose entry was dropped between
its finding it and its drawing on it in `orphaned`; both are history.

`DrainThenClose` is what all this promises: work is admitted until someone asks
for a stop, finishes, and then the store is closed. `Lifecycle` implements it
under the refinement mapping in `Contract`.

### `TokenBucket`, `ShadowBucket`

The bucket as functions of a bucket and an instant. The last update of a
`rate.Limiter` can move *backwards* when it is used with an older reading of the
clock, and the functions keep that. `RestoreBucket` has the code's detour over
`drainInstant`, clamps included. `ShadowBucket` adds reservations: `CancelAt`
gives back the token less what was reserved after it, nothing once the
reservation is due, and resets the bucket's clock. Units are fine enough (a token
is `Cost` of them) for a fraction of a token to matter. `golang.org/x/time/rate`
is not part of the repository; its arithmetic is marked external.

### `Registry`, `RegistryProofs`, `SweepProofs` and `TokenProofs`

`heap` is every entry ever made and its index is its address, so that a request
can go on using an entry the map no longer holds. Steps:

* a request: `Arrive` (the clock), `Lookup`, `Load`, `Insert` or `InsertLost`,
  `Touch`, `Draw`; only the map operations take a lock;
* the sweep: `StartSweep`, `ReadUsed` and `ReadTokens` per key under the shard's
  read lock (two reads, the entry being in use), `NextShard`, then `FlushOne` per
  entry with no lock, then `DeleteOne` per entry, then one `ReportSweep` per key.
  Without a store it is `DropIdle` per shard, with a bulk count when nobody
  listens;
* Evict: `EvictDelete`, `EvictReadTokens`, `EvictReadUsed`, `EvictSave` or
  `EvictSaveFails`, `EvictReport`;
* `Teardown`: the final flush and DropAll, atomic because by `Lifecycle` nothing
  else runs then.

`fair` is a bucket that never left memory, and `orphaned` counts tokens drawn
from entries the sweep had just let go of: both are history, and what the
conservation properties compare with. So are `letGo`, every entry that was taken out
of the map, and `unsaved`, the number of Evicts whose save failed. The store may fail any
load, save or entry of a batch.

### `Gate` and `GateProofs`

One key, several replicas with a shadow each, one backend: an external, atomic bucket on
its own clock, as `shared.Backend` demands, which may also fail, not answer in time,
answer without a schedule, or lose its answer. A request goes through `arrived`,
`sleeping`, `take`, `calling`, `undo` and `polling` (Allow and the rounds of Acquire),
or `asking`, `parked`, `unavailable` and `local` (wait and waitFallback). Reserve
(`limiter/reserve.go`) takes the same path as Allow up to the backend's answer and then
holds its token in `held`, until its caller acts on it or cancels; a reservation for
later goes to `held` at once. `CancelAt` uses the instant of the reservation, as in
`admit.go:58`. The breaker only decides whether the backend is asked: here it may
short-circuit any call of a backend that fails, which covers what `Breaker` allows.

`admitted`, one counter for the fleet, `unbacked` and `excess` are history. `excess`
adds up what a shadow was given twice: a draw on a reading of the clock older than the
shadow's last update sees that interval refill again, and so does a cancel at the
instant of the reservation, which may besides give back more than its token when an
older draw has moved the shadow's latest event back.

### `Rates`, `Configuration`, `Quota` and `QuotaProofs`

`Rates` has the float64s that matter: whole requests per hour, the three values that are
not numbers, `Inf`, which is the largest finite one, and `Tiny`, the smallest positive
one. A text is the number it contains and the period it names. `ParseLimit` divides as
floats do: `Tiny` over any period but a second underflows to 0 (`Underflows`), and a
limit of `Tiny` accrues nothing a bucket could notice (`Accrual`). Its bucket is that of
`bucket/bucket.go` with a rate, a ceiling and a published pair that may differ:
`SetLimitAt`, `SetBurstAt` and `Publish` are the three steps of `SetQuotaAt`.

`Configuration` is `Config.Resolve`, with `Valid` for `validate` and
`withDefaults`, and what `limiter.New` checks again (`Workable`). A field that
nothing decides on is left out.

`Quota` strings them together and then runs. A behaviour starts from a quota
written as text or from a draft, which is parsed, resolved and handed to `New`;
one that gets that far has buckets, under keys, made by a creation in two steps
(`Ask` the hook, then `Insert` under the lock, if nobody else was first), drawn
from, evicted, and changed by reloads: `Collect` of a shard, and then for each entry
`ReadClock`, `AskAgain`, `SetLimit`, `SetBurst` and `PublishQuota`, the order in
which `SetQuotaAt(Now(), QuotaFor(key))` is evaluated. `Swap` is the caller changing
what its hook answers. `asked`, `contested`, `settled`, and `found` and `since` of a
walk, are history. A request is one step: what interleaves inside one is the
matter of `Registry` and `Requests`.

### `Wire`, `Requests` and `RequestsProofs`

`Wire` has `urlx.Build` on sequences of pieces, of which "/" is one, and the limit of
`readBody`.

`Requests` is one call of each caller, by one of five doors: `allow`, `wait`, `reserve`,
and the HTTP requests `do` and `stream`. A call is `entered` (registered), `looking`
(the clock has been read, and GetOrCreate may block), `drawing` (acquire has looked
at the bucket and reported a wait), `parked` (in `rate.Limiter.Wait`, a token drawn in
advance), `sent`, `open` (a streamed body in the caller's hands), `holding` (a
Reservation), and `returned`. The transport may answer, fail or linger; a caller's
context may end at its deadline or be cancelled; the limiter may begin to shut down
and cancel. When a select has two cases ready, either is taken. `Wait` reads its own
clock, `Allow`, `Reserve` and the look before a wait use the one read before
GetOrCreate. What limiters do with the key before and after is `Registry`, and how
the barrier empties is `Lifecycle`; here the registration is a count.

`at` (the instant a caller's token is due), `charged` (every token drawn and not given
back, with that instant), `short` (the callers who found no token), `rewound` and
`overpaid` are history. `rewound` is how far
draws on an older reading have moved the bucket's clock back, which makes the interval
accrue twice. After such a draw the latest event of the bucket may also be earlier than
tokens still due, and a cancel of one of these gives back more than a token: `overpaid`.

## The runs

| Run | Instance | Shows |
|---|---|---|
| `breaker_take` | 3 calls, threshold 2, cooldown 3, calls of at most 1 tick, 6 ticks | the probe is alone, owned and resolved; the proofs' invariant holds |
| `lifecycle_close` | 3 operations (a stream, a request, an Evict), saves that fail, a Close and a Shutdown, the sweep | the teardown order, no charge lost but by a failed save or a dropped entry, one answer, the refinement, and that closing ends |
| `registry_sweep` | 1 key, 2 requests at a time of 4, burst 3, nothing accrues, 6 ticks | tokens are conserved through sweep and restore; the proofs' invariant holds |
| `registry_evict` | 2 keys on 2 shards, 2 requests, an Evict, the sweep, a failing store or none | entries are counted once, none is stored over another, idle keys leave |
| `registry_restore` | 1 key, a request at a time, refilling, burst 4, idle expiry 1, no stall, 8 ticks | **violation**: time is credited twice at restore |
| `gate_fleet` | 2 replicas with a request at a time, 3 in all, Deny and FallbackLocal, failing backend, parking or not, 3 ticks | the shadow bound, and the fleet's quota under Deny; the proofs' invariant holds |
| `gate_return` | 2 callers of 1 replica, every policy, polling, parking and reserving | who leaves is let go; the fallback is limited, polling, parked and reserved, when requests of a replica overlap |
| `gate_crowd` | 2 callers of 1 replica, 4 requests, a backend that always answers | **violation**: the shadow refuses what the backend would grant |
| `quota_reload` | 1 key on the last of 2 shards, 2 creations, a full reload and one of the key, 87 drafts and texts, 1 change of the hook, 2 ticks | what parses resolves unless it underflows, what resolves is accepted, buckets are usable, reports true, reloads reach and keep tokens; the proofs' invariant holds |
| `quota_stale` | the same with 1 creation and 1 reload | **violation**: a bucket created during a reload keeps the old quota |
| `requests` | 3 callers: one of `do` and `stream`, one of `wait` and `reserve`, one of `allow`; burst 1, empty at first, 2 ticks | the rate in every window, tokens back, registrations and counts, timeouts, errors, and that who is cut off returns; the proofs' invariant holds |
| `gate_reserve` | 1 caller, 2 reservations, a backend that always answers | **violation**: a reservation for later goes ahead without the backend |

Bounds. Each hazard here needs two or three actors: a call admitted before the breaker
opened and two that come later; a request, a sweep and an Evict of one key; two holders
of shadow tokens. The clock's bound lets the longest interesting sequence run: open,
cool down, probe and open again (6 ticks at a cooldown of 3); create, go idle, be swept,
be restored and be swept again; a round of Acquire, its poll delay, and the next.
`MaxRequests` is the number of requests made in all, `MaxTime` ends the clock, `Stall`
and `MaxCall` bound how long a goroutine may sit on a reading of the clock. In
`registry_sweep` nothing refills, so that a count is exact whatever the clock does;
`registry_restore` is the run in which time matters, and `Stall = 0` there: every clock
reading is used at once, so that nothing but the snapshot can be to blame. In
`registry_evict` and `gate_return` requests need not be many, because what they ask is
whether something is counted or ends.

`quota_reload` needs two creations, for one to lose, and two reloads of one bucket,
for `contested` to matter; one entry is enough, since reloads meet at buckets and
not between them, and its shard is the last so that a walk which stops short is
seen. `MaxSwaps` and `MaxEntries` bound the changes of the hook and the buckets ever
made, `HookStall` how long a hook may think. Of the answers one is unusable and one
raises rate and burst. Drafts vary one field of a plain one at a time, over every
value a check looks at. In `requests` there is one caller more than the tokens that
accrue in a deadline, so that somebody always waits, is refused or is cut; the
deadlines are one that is met and one never reached, `Lag` the ticks a call may sit
on its reading of the clock. A fourth caller adds states and no kind of step.

`SYMMETRY` is used where identical callers race (the requests of a key, two creations),
and only in runs without liveness.

`CHECK_DEADLOCK FALSE` is everywhere because every bounded behaviour ends: the
clock at `MaxTime`, the requests at `MaxRequests`, a Limiter once it is closed.

### Fairness

* `Breaker`: weak fairness of each call's own steps and of the clock. A call
  always ends because of its timeout.
* `Lifecycle`: weak fairness of every step of a closer, of what the sweep has begun
  (`GcFlush`, `GcDrop`), and of an operation's return and an Evict's save once the
  lifetime context is cancelled (an operation is never promised to end by itself; a save
  is bounded by the store's timeout); strong fairness of the GC goroutine's exit, since
  its `select` chooses at random between a tick and a done context. No body is ever
  promised to be closed, so `ClosersReturn` assumes that none stays open, and
  `MCLifecycleStream.cfg` shows what happens otherwise.
* `Registry`: weak fairness of the ticker's sweep and of the clock; strong
  fairness of a request, because a waiting `RWMutex.Lock` holds later readers off
  and so cannot be starved by the sweep. Evict gets none.
* `Requests`: weak fairness of what a caller's goroutine does by itself once it is
  inside, noticing that its context has ended included; that `http.Client.Do` returns
  when its request's context is done is net/http's contract. The transport need not
  answer, no reservation has to be used and no body closed.
* `Quota`: none; it has no liveness property.
* `Gate`: weak fairness of what the gate itself does. The backend need not answer,
  no caller has to leave, the clock may stop.

## What the violations say

Each is a sentence of the repository that the code does not keep.

* `registry_restore`: a snapshot pairs the tokens of *now* with the instant of
  *last use*, and restoring credits everything since last use: `README.md:571` says
  exactly. No goroutine is late in the trace: three draws at the first instant leave
  one token of four, two ticks bring it to three, the sweep saves three tokens as of
  the first instant and drops the key, and the next request restores four.
* `gate_crowd`: `gate/admit.go:25-27` says a shadow's refusal is proof. `rate`'s
  `CancelAt` gives nothing back for a reservation others were made on top of, and
  a request the shadow refuses makes one, between its `ReserveAt` and its
  `CancelAt`. A cancel in that window is void and the shadow stays a token short.
* `gate_reserve`: `docs/adr/0004-shared-quota-is-approximate.md:42-46` says that a
  Reserve takes its shared token at reserve time and that the shadow never admits
  what the backend has not. With a positive delay `Reserve` returns an OK
  reservation and never asks (`limiter/reserve.go:84`); its caller then does as
  `reserve.go:36-42` shows, sleeps and calls.
* `quota_stale`: `limiter/limiter.go:192` says that keys not in memory need nothing
  when quotas are reloaded. GetOrCreate asks the hook before it takes the lock
  (`registry/registry.go:266`): with the hook's answer changed and the whole reload
  done in between, from one goroutine as `README.md:201` asks, the bucket it then
  inserts is on the old quota for as long as it lives.

Eight more counterexamples have a configuration of their own and no entry among the
runs of `PROJECT.json`, which names those the project leans on. Each checks one
property, a sentence of the repository as it stands there, against the same
specification as the passing runs; `tlc -config <file>.cfg MC<Module>.tla` prints
the trace.

* `MCBreakerParked.cfg`, `OneProbe`: `breaker/breaker.go:35` promises one probe.
  `Gate.wait` has no timeout, so a call admitted while the breaker was closed can
  return long after it has opened and turned half-open; its verdict clears the probe
  of another call, and a second probe goes out. In `Gate.Take` the timeout (500 ms by
  default) is far below the cooldown (5 s) and this cannot happen, which is what
  `BreakerProofs` proves; but the timeout is configurable, and above half the
  cooldown the proof's assumption `2 * MaxCall < Cooldown` is gone.
* `MCLifecycleStream.cfg`, `ExpiredShutdownReturns`: `README.md:495` says an expired
  Shutdown returns `ctx.Err()` with bodies still open. It waits for them
  (`limiter/lifecycle.go:52`).
* `MCRegistryOverwrite.cfg`, `FlushKeepsNewerState`: `registry/gc.go:166-168` argues
  that a stale write of phase 2 is harmless because the state is still in memory.
  After an Evict it is not.
* `MCRequestsUncounted.cfg`, `WaitersAreCounted`: two callers look at one token, find
  it, and then wait for it (`limiter/ratelimit.go:20-24`). The second parks without
  having been counted as throttled; `observe/observe.go:129-133` names one path on
  which the count is low, and this is another.
* `MCRequestsForfeit.cfg`, `WaitsGiveBack`: `limiter/api.go:67` says without condition
  that a Wait cut short gives its token back. `rate`'s cancel gives back less what was
  reserved behind it: a caller who waits, another who reserves after it, and the first
  cut, leave the bucket a token short for a call that never went ahead.
  `NothingLeaks` is the property with that exception made, and names it.
* `MCRequestsOversized.cfg`, `ErrorsAreUnanswered`: `observe/observe.go:139` counts as
  errors what "produced no response". A response whose body is too large or unreadable
  counts too, with status 0. `StatsAddUp` says what is counted.
* `MCRegistryUncounted.cfg`, `EvictionsCountEveryDrop`: `observe/observe.go:143` counts
  keys evicted for any reason, and `registry/registry.go:308` likewise. An Evict whose
  save fails has dropped its key and never counts it (`registry/gc.go:39`, `50-52`).
  `EveryEntryAccounted` is the balance with `unsaved` as that gap.
* `MCQuotaTiny.cfg`, `ParsedAccrues`: "5e-324/h" parses to the limit 0 without an error
  (`bucket/parse.go:104`), where `parse.go:52` and `parse_test.go:170,188` want a
  limit that accrues, and a configuration that gives it is then refused
  (`config/config.go:230`) with nothing said of the text. `AcceptedOnce` and
  `AcceptedForAll` leave out such texts by name (`Underflows`).

Seen while modelling, without a run of their own: `gate.wait` returns `Closed`
without telling the breaker (`gate/admit.go:180`, against `breaker.go:47-49`; it
matters only to a gate that outlives its context); Evict deletes its key before it
saves it (`registry/gc.go:39` and `50`, against `limiter/api.go:88`), so that a
request in between starts from the state before, or with a full bucket, which is
the order `registry/gc.go:105-107` calls wrong for the sweep; a flush that fails loses
the charges of the keys it was for, with a line in the log (`limiter/persist.go:124-137`;
`failed` in `NoChargeLost`); the same cancel at the instant of
the reservation also moves the shadow's clock back under newer draws, and with
overlapping requests of one replica FallbackLocal then admits more than the
replica's rate, by as much as `excess` says in `FallbackKeepsReplicaRate`.

Of quotas: a hook that answers minus infinity unlocks its key, because `Finite` maps an
infinity of either sign to `Inf` (`bucket/rate.go:107`) before `quotaFor` looks for
negative rates, which `config/options.go:68-70` says are throttled to a standstill;
Reload reads the clock before it asks the hook (`registry/registry.go:375`), so that a
slow hook still has the interval refilled twice that lines 352-356 want to avoid
(`ReloadKeepsTokens` allows for it); two reloads of one bucket can leave the rate of
one, the burst of the other and either's report in force for good
(`bucket/bucket.go:173-178`; `ReportIsEnforced` leaves such buckets out). Of requests: a
draw on an older reading of the clock admits as much more as it has moved the bucket
back (`rewound` in `AnyWindow`), and a cancel after it may give back more than was drawn
(`overpaid`); a call whose context is over while a token is there is neither throttled
nor an error (against `observe/observe.go:139-141`).

## The proofs

`BreakerProofs` (from `BreakerAssumption` and that calls are not parked and
`2 * MaxCall < Cooldown`): `BreakerInv` is inductive, and with it type
correctness, `ProbeIsAlone` and `ProbeIsOwed` hold for any calls, threshold,
cooldown and clock. The safety properties alone are not inductive: that a late
verdict cannot hit a probe has to come from time. `CallsAreYoung` says how long a
call can be out, `OldCallsPredateOpening` that a call which is not the probe was
admitted before the breaker opened and so must be gone when the cooldown is over,
and `ProbesAreHalfOpen` that a probe arrived after that.

`LifecycleProofs` (from `LifecycleAssumption`): `LifecycleInv` is inductive and
gives type correctness, `StoreUsedOnlyWhileOpen`, `ReturnMeansClosed` and
`NoChargeLost`; with it every step satisfies `NoAddDuringWait` and maps to a step
or a stutter of `DrainThenClose`. The strengthening: the wait group counts exactly
the operations inside (`CountIsInside`, by lemmas on the cardinality of a set that
gains or loses an element), a charge stays in somebody's custody until a failed save or
a dropped entry loses it (`Custody`), a closer that has begun has shut the door, `sync.Once`
has one owner, and each stage of the teardown has behind it what the next relies
on (`TeardownOrder`). On top of it `ClosingInv` is inductive and gives
`GracefulUntilForced` and `SameAnswer`: whoever cancelled had a right to
(`CancelledByRight`), a Shutdown that has moved on found nobody inside and nobody
enters again (`ShutdownDrains`), and the teardown records one answer before anyone
returns it (`AnswersAreRecorded`).

`QuotaProofs` (from `RatesAssumption`, `ConfigurationAssumption` and `QuotaAssumption`):
`QuotaInv` is inductive for any number of keys, shards, creations and reloads, any
answer of the hook and any bound, and gives type correctness, `UsableBuckets`,
`ReportIsEnforced` and, as a fact about every step, `ReloadKeepsTokens`, `ReloadReaches`
and `AcceptedOnce`. `UsableBuckets` alone is not inductive: what a creation or a reload
has in hand must be usable too (`UsableInHand`), which is what `quotaFor` is for. That a
report is true needs to know how far the reload that has the bucket in hand has come
(`PartlyChanged`): until it sets the rate, the published pair is the enforced one, and
when it publishes, rate and burst are both already its own; a bucket that two have in
hand is `contested` and promises nothing. The tokens rest on `TokensGrow`: a bucket
holds no less later, whatever its rate, and an instant a reload has read is never ahead
of the clock.

That a reload leaves nobody out (`ReachesForAll`) rests on `WalksReach`, on each key a
walk has found: its shard is still to come, it is in the batch, it is in hand, or it is
done, and then nobody who has the bucket in hand asked the hook before the walk began
(`AskedSince`). The last part is the point, since another reload that did would undo
this one by publishing late; it would have had the bucket in hand together with this
one, and that is `contested`. `AcceptedForAll` rests on `Vetted`, on the arithmetic of
`ParseLimit` (a text whose quotient underflows is excepted, and is what
`MCQuotaTiny.cfg` shows), and on `roundUpPowerOfTwo` finding a least power of two: the
largest count Resolve accepts is one.

`RegistryProofs` (from `RegistryAssumption` and `BucketAssumption`): `RegistryInv` is
inductive for any number of keys, shards, requests and Evicts, with or without a store,
whether it fails or not, and gives type correctness and `OneLiveEntry`: a shard's live
counter says how many of its keys have an entry, and every entry that was made and not
let go is in the map, so that none was stored over another. That rests on no two keys
having one address (`KeysAreApart`). The
types alone are not inductive: phase 1 of the sweep dereferences the keys it has listed,
and an Evict would have deleted them but for the shard's read lock; `SweepHolds` is what
that lock is for. `EntriesBalance` says that an entry is never lost or counted twice
between the map, an Evict, the sweep and `evictions`, as `EveryEntryAccounted` does, over
the keys themselves. `Registry.Keys` adds up the shards' counters instead, in a loop that
`KeyCount` models as a recursive function of the shards done. That it arrives at the
number of keys (`LoopCounts`, hence `EveryEntryForAll`) needs no induction theorem: the
number of keys in the first shards satisfies the loop's equation (`ShardByShard`), so the
equation has a solution and the function is one, and two solutions that differed would
differ first at a least number of shards, which there is none of.

`RequestsProofs` (from `RequestsAssumption` and those of the bucket): `RequestsInv` is
inductive for any number of callers at any doors, any burst, deadlines and bases, and for
lookups that block up to any `Lag`. It gives type correctness, `AnyWindow`, `NothingLeaks`,
`RegisteredOnce`, `StatsAddUp` and `NothingElsewhere`, and with it every step satisfies
`ClosedMeansClosing` and `WholeTimeout`.

* The rate in every window says nothing of what may still be drawn, and so is not
  inductive. Its strengthening measures the bucket by its `Horizon`, the instant at which
  what it holds is nothing: tokens fall due no earlier than the horizon, a draw moves it a
  token on, a cancel at most a token back. `WindowHolds` adds to what falls due in a window
  what is still `Drawable` before its end, given that at its start the bucket can hold no
  more than `Burst`; a draw turns one of these into the other, and what it gains by an
  older reading is `rewound`.
* A cancel gives its token back only if nobody has drawn behind it, by the arithmetic
  of `rate`. That this never gives back one too many rests on `DebtIsDue`, every instant up
  to the horizon of a bucket in debt has a token due, and on `OrderlyUnlessRewound`: as
  long as nobody has drawn on an older reading, tokens fall due in the order they were
  drawn, one at an instant.
* `StatsAddUp` says that throttles are exactly the callers who found no token. It needs
  that these have asked and gone no further than their door lets them
  (`ShortHaveAsked`), that whichever door they came by the bucket was asked the same
  thing (`EachFindsTheSame`, `WhoFindsNoneIsThrottled`), and
  everything that counts callers rests on `CallsAgree`, what a call has come to at each of
  its steps.
* `HostIsKept` is a fact about `urlx.Build` on any text and not an enumeration of paths:
  the host ends at the first separator, and what is joined to a base comes behind its
  own first separator, or behind one that the seam puts there.

`GateProofs` (from `GateAssumption` and those of the bucket): `GateInv` is inductive for any
replicas and callers, any policy, a backend that parks or polls, fails or not, and
goroutines that stop where they like. It has three accounts.

* `FallbackAccounts` gives `FallbackKeepsReplicaRate`, however many requests of a replica
  overlap. For each replica, what was admitted on its word and what may yet be, the tokens
  `Drawn` and in hand, was drawn from the shadow: it is bounded by how far the shadow's
  `Horizon` has come, and those due by an instant by that instant. Every step is, for the
  replica, one of six: it keeps the books, draws a token, gives one back, uses the one it
  holds (`Settles`), draws and uses one at once (`Spends`), or goes ahead on FallbackAllow's
  word (`Frees`); each kind is a lemma, and each action is shown to be of a kind.
* `DenyAccounts` gives `DenyKeepsFleetQuota` (`DenyForAll`): what was admitted, and what the
  backend has granted and nobody has used yet (`Promised`), has left the shared bucket.
* `ShadowCovers` gives `ShadowIsUpperBound` (`ShadowForAll`): a shadow holds what the
  backend holds, but for the token of an undecided request, and that request was the
  last to touch the shadow, so that its cancel gives back the whole of it.

The last two need hypotheses, which the theorems state: nobody reserves (`"reserve"
\notin Modes`), and, for the shadow, a replica makes one request at a time (`OneEach`).
They are not there for the prover's sake: without the first `gate_reserve` is a
counterexample, without the second `gate_crowd` is. Exactly there the sentences those
runs refute are true of the code, and are proved: `OnlyRefusesForAll` for "it never
admits a request the backend has not admitted" (`ShadowOnlyRefuses`), `RefusalIsProof`
for "a shadow that refuses proves the backend would have refused too"
(`ShadowRefusalIsProof`). `FallbackForAll` has no hypothesis.

`SweepProofs` (from the assumptions of `RegistryProofs`): what a request, the sweep and
the store hold of an entry in use, inductive for any keys, shards and requests. It gives
`SweepDeletesWhatItSaved` (`DeletesSavedForAll`) under the hypothesis
`SweepUndisturbed`: the store never fails, nobody evicts by hand, and `2 * Stall <=
IdleExpiry`. Buckets may refill or not.

`TokenProofs` builds on it: `SweepInv` is inductive and gives `TokensConserved`
(`TokensForAll`) under the hypothesis `SweepAlone`, which is `SweepUndisturbed` with a
store and with buckets that accrue nothing. Both theorems state their hypothesis, and its
parts are each needed:

* nothing accrues, a rate of 0, which `limiter/quota.go:29` allows. It is the special
  case: buckets refill as a rule, and then a snapshot pairs the tokens of one instant
  with the last use of another, and what is restored is wrong; `registry_restore` is the
  counterexample. What the theorem excludes is any other way to lose or mint a token;
* the store answers, since a load that fails falls back to a full bucket by design, and
  there is one, since without it an idle key is forgotten by design;
* nobody evicts by hand, since Evict deletes before it saves. A load that an Evict makes
  stale (`registry/registry.go:261`), its key created, used and evicted while it was
  under way, is therefore met by no conservation property here;
* `2 * Stall <= IdleExpiry`: a goroutine may stop between its reading of the clock and its
  use of it, but not for half an idle expiry. `limiter/validate.go:30` asks only that the
  expiry be positive; the defaults are ten minutes, and five seconds for the one call to the
  store on that path. With a longer stop a request may insert a snapshot from before another
  stay of its key in memory, and mint what was drawn then.

`TokensConserved` compares what a key holds with a bucket that never left memory, and says
nothing of what the sweep or a request is about to write. `SweepCollects` says it of the
sweep: what it has collected is still in the map, each key once, and what it has written of
it is what the entry holds unless it was used since, which phase 3 looks at. `HandsAgree`
says it of a request: its snapshot is what the store holds as long as the key is absent;
and once it is present, either its entry was used too recently for the sweep to take it for
idle before the request is over, or nobody has drawn on it (`AsRestored`), and then the
snapshot, the store and the entry agree whoever comes first. The first case is the argument
about time, and is where the last hypothesis is used: a reading is at most `Stall` old, so
what was touched at one is idle no earlier than `IdleExpiry` after it.

Only model-checked: liveness (`ProbeResolves`, `ClosersReturn`, `IdleKeysLeave`,
`LeaversReturn`, `CutCallersReturn`). Fairness and `ENABLED` are beyond the prover. So
are the library's induction theorems, which take an operator as a parameter; where an
induction was needed its least counterexample was enough (`HasALeast`), and no module
here uses a recursive operator. Every invariant and every action property of a passing
run is proved.

## Not modelled, and the plan

Not modelled: the values of throttle reports and log lines; how a rate is spelt in a
text and printed; headers, request bodies, cookies, JSON and Retry-After of the client;
configuration fields that are handed on untouched; a hook that calls back into the
Limiter; the contents of the store, and the test suites and examples. `Registry` and
`Gate` have constant quotas, and `Requests` one key and no shared quota. A load or a
flush that fails falls back to a full bucket by design (`limiter/persist.go:68`): the
accounting is checked under it, and not what it gives away.

What is left, in order of what it would tell:

1. `Limiter`: the composition of `Lifecycle` with `Registry`, discharging the
   assumption behind `Teardown`.
2. `Requests` with a shared quota behind acquire, over `Gate`.
