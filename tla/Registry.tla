------------------------------- MODULE Registry -------------------------------
(***************************************************************************)
(* The key registry (registry/registry.go, registry/gc.go) and the         *)
(* requests that use it (limiter/ratelimit.go allow, limiter/persist.go).  *)
(*                                                                         *)
(* A request looks its key up, creates it from the store when it is not in *)
(* memory, stamps it and draws a token; the idle sweep collects, persists  *)
(* and deletes in three phases; an explicit Evict deletes and then saves.  *)
(* All of them interleave: only the map surgery is under a shard's lock.   *)
(* An entry is a heap object: a request keeps the one it was given even    *)
(* after the map has let go of it.                                         *)
(*                                                                         *)
(* Quotas are constant here, and no shared quota is configured.            *)
(***************************************************************************)
EXTENDS TokenBucket, FiniteSets, Sequences

CONSTANTS
    Keys,           \* the keys requests are made for
    Shards,         \* 1..N, the shards of the map
    ShardOf,        \* the shard each key hashes to
    Requests,       \* goroutines making requests
    Evictors,       \* goroutines calling Evict
    Configs,        \* the configurations a Limiter may have been given
    StoreFails,     \* loads and saves may fail, or lose their context
    Sweeps,         \* the GC goroutine runs
    IdleExpiry,     \* Config.IdleExpiry, in ticks
    Stall,          \* ticks from a request's clock reading to its draw, at most
    MaxRequests,    \* bound on the requests made
    MaxTime,        \* bound on the clock
    NoState         \* "nothing saved"

ASSUME RegistryAssumption ==
    /\ IsFiniteSet(Keys) /\ IsFiniteSet(Evictors) /\ IsFiniteSet(Shards)
    /\ Shards = 1..Cardinality(Shards)
    /\ ShardOf \in [Keys -> Shards]
    /\ Configs \subseteq [persists : BOOLEAN, observes : BOOLEAN]
    /\ {StoreFails, Sweeps} \subseteq BOOLEAN
    /\ {IdleExpiry, Stall, MaxRequests, MaxTime} \subseteq Nat
    /\ NoState \notin [tokens : Int, lastUsed : Int]

VARIABLES
    now,        \* the clock
    keys,       \* shard.keys: the address of each key's entry, 0 when absent
    heap,       \* every Entry ever made; its address is its index
    live,       \* shard.live
    evictions,  \* Registry.evictions
    store,      \* what the store holds for each key
    requests,   \* Stats.Requests
    req,        \* the locals of each request
    sweep,      \* the locals of the sweep
    ev,         \* the locals of each Evict
    config,     \* Spec.Persists and Spec.Observes, for good
    closed,     \* the teardown has run
    letGo,      \* history: the entries a sweep, an Evict or DropAll took out of the map
    fair,       \* history: each key's bucket, had it never left memory
    orphaned,   \* history: tokens drawn from entries the map no longer holds
    unsaved     \* history: evictions that failed to save

map     == <<keys, heap, live, letGo>>
owner   == <<config, closed>>
history == <<fair, orphaned, unsaved>>
vars    == <<now, map, evictions, store, requests, req, sweep, ev, owner, history>>

-----------------------------------------------------------------------------

Persists  == config.persists    \* a store is configured
Observes  == config.observes    \* somebody listens for evictions
Absent    == 0
Addresses == 1..Len(heap)
Present   == {k \in Keys : keys[k] # Absent}
States    == [tokens : Int, lastUsed : Int] \cup {NoState}

NoRequest == [pc |-> "idle", key |-> NoState, at |-> 0, entry |-> Absent, snap |-> NoState]
NoSweep   == [pc |-> "idle", at |-> 0, shard |-> 0, scan |-> {}, key |-> NoState,
              lastUsed |-> 0, expired |-> {}, todo |-> {}, evicted |-> 0]
NoEvict   == [pc |-> "idle", key |-> NoState, at |-> 0, entry |-> Absent,
              tokens |-> 0, lastUsed |-> 0]

\* The sweep holds a shard's read lock while it collects there: nobody adds
\* to that shard's map or removes from it.
Locked(s)   == sweep.pc \in {"scan", "read"} /\ sweep.shard = s
Writable(k) == ~Locked(ShardOf[k])

\* Registry.Keys: a loop over the shards.
KeysUpTo[n \in 0..Cardinality(Shards)] == IF n = 0 THEN 0 ELSE KeysUpTo[n - 1] + live[n]

KeyCount == KeysUpTo[Cardinality(Shards)]

Asking ==
    [pc  : {"idle", "lookup", "load", "insert", "touch", "draw"},
     key : Keys \cup {NoState}, at : Nat, entry : {Absent} \cup Addresses, snap : States]

Found == [key : Keys, entry : Addresses, tokens : Int, lastUsed : Int]

Sweeping ==
    [pc  : {"idle", "scan", "read", "flush", "delete", "drop", "report"},
     at  : Nat, shard : Nat, scan : SUBSET Keys, key : Keys \cup {NoState}, lastUsed : Int,
     expired : SUBSET Found, todo : SUBSET Found, evicted : Nat]

Evicting ==
    [pc  : {"idle", "tokens", "used", "save", "report"},
     key : Keys \cup {NoState}, at : Nat, entry : {Absent} \cup Addresses,
     tokens : Int, lastUsed : Int]

TypeOK ==
    /\ now \in 0..MaxTime
    /\ keys \in [Keys -> {Absent} \cup Addresses]
    /\ heap \in Seq([bucket : Bucket, lastUsed : Int])
    /\ live \in [Shards -> Nat]
    /\ letGo \subseteq Addresses
    /\ evictions \in Nat
    /\ store \in [Keys -> States]
    /\ requests \in 0..MaxRequests
    /\ req \in [Requests -> Asking]
    /\ \A r \in Requests :
          /\ req[r].pc # "idle" => req[r].key \in Keys
          /\ req[r].pc \in {"touch", "draw"} => req[r].entry \in Addresses
    /\ sweep \in Sweeping
    /\ ev \in [Evictors -> Evicting]
    /\ \A v \in Evictors : ev[v].pc # "idle" => ev[v].key \in Keys /\ ev[v].entry \in Addresses
    /\ config \in Configs
    /\ closed \in BOOLEAN
    /\ fair \in [Keys -> Bucket]
    /\ orphaned \in [Keys -> Nat]
    /\ unsaved \in Nat

Init ==
    /\ now = 0
    /\ keys = [k \in Keys |-> Absent]
    /\ heap = <<>>
    /\ live = [s \in Shards |-> 0]
    /\ letGo = {}
    /\ evictions = 0
    /\ store = [k \in Keys |-> NoState]
    /\ requests = 0
    /\ req = [r \in Requests |-> NoRequest]
    /\ sweep = NoSweep
    /\ ev = [v \in Evictors |-> NoEvict]
    /\ config \in Configs
    /\ closed = FALSE
    /\ fair = [k \in Keys |-> NewBucket]
    /\ orphaned = [k \in Keys |-> 0]
    /\ unsaved = 0

-----------------------------------------------------------------------------
(* A request: allow, and GetOrCreate inside it.                            *)

\* The clock is read once, before anything that may block.
Arrive(r, k) ==
    /\ req[r].pc = "idle"
    /\ ~closed
    /\ requests < MaxRequests
    /\ requests' = requests + 1
    /\ req' = [req EXCEPT ![r] = [NoRequest EXCEPT !.pc = "lookup", !.key = k, !.at = now]]
    /\ UNCHANGED <<now, map, evictions, store, sweep, ev, owner, history>>

\* Found in the map: go on with that entry.
Given(r, e) == [req EXCEPT ![r].pc = "touch", ![r].entry = e, ![r].snap = NoState]

Lookup(r) ==
    /\ req[r].pc = "lookup"
    /\ req' = IF req[r].key \in Present THEN Given(r, keys[req[r].key])
              ELSE [req EXCEPT ![r].pc = "load"]
    /\ UNCHANGED <<now, map, evictions, store, requests, sweep, ev, owner, history>>

\* The store is read outside every lock; an error means "no saved state".
Load(r) ==
    /\ req[r].pc = "load"
    /\ \E snap \in (IF Persists THEN {store[req[r].key]} ELSE {NoState})
                   \cup (IF StoreFails THEN {NoState} ELSE {}) :
          req' = [req EXCEPT ![r].pc = "insert", ![r].snap = snap]
    /\ UNCHANGED <<now, map, evictions, store, requests, sweep, ev, owner, history>>

\* newEntry: restored from a snapshot, or full and used just now.
NewEntry(snap) ==
    IF snap = NoState
    THEN [bucket |-> NewBucket, lastUsed |-> now]
    ELSE [bucket |-> RestoreBucket(snap.tokens, snap.lastUsed, now),
          lastUsed |-> snap.lastUsed]

\* Back under the lock somebody else may have inserted: take theirs.
InsertLost(r) ==
    /\ req[r].pc = "insert"
    /\ Writable(req[r].key)
    /\ req[r].key \in Present
    /\ req' = Given(r, keys[req[r].key])
    /\ UNCHANGED <<now, map, evictions, store, requests, sweep, ev, owner, history>>

\* Mutant of Insert: does not look again under the write lock.
InsertUnchecked(r) ==
    LET k == req[r].key IN
    /\ req[r].pc = "insert"
    /\ Writable(k)
    /\ heap' = Append(heap, NewEntry(req[r].snap))
    /\ keys' = [keys EXCEPT ![k] = Len(heap) + 1]
    /\ live' = [live EXCEPT ![ShardOf[k]] = @ + 1]
    /\ req' = Given(r, Len(heap) + 1)
    /\ UNCHANGED <<now, letGo, evictions, store, requests, sweep, ev, owner, history>>

Insert(r) ==
    LET k == req[r].key IN
    /\ req[r].pc = "insert"
    /\ Writable(k)
    /\ k \notin Present
    /\ heap' = Append(heap, NewEntry(req[r].snap))
    /\ keys' = [keys EXCEPT ![k] = Len(heap) + 1]
    /\ live' = [live EXCEPT ![ShardOf[k]] = @ + 1]
    /\ req' = Given(r, Len(heap) + 1)
    /\ UNCHANGED <<now, letGo, evictions, store, requests, sweep, ev, owner, history>>

\* Outside every lock: the sweep may be deleting the entry.
Touch(r) ==
    /\ req[r].pc = "touch"
    /\ heap' = [heap EXCEPT ![req[r].entry].lastUsed = req[r].at]
    /\ req' = [req EXCEPT ![r].pc = "draw"]
    /\ UNCHANGED <<now, keys, live, letGo, evictions, store, requests, sweep, ev, owner, history>>

\* AllowAt, at the instant read on arrival.  The history draws the token from
\* a bucket that never left memory, and notes a draw from an orphan.
Draw(r) ==
    LET k == req[r].key
        e == req[r].entry
        b == heap[e].bucket
    IN
    /\ req[r].pc = "draw"
    /\ heap' = [heap EXCEPT ![e].bucket = AllowAt(b, req[r].at)]
    /\ fair' = IF Allows(b, req[r].at)
               THEN [fair EXCEPT ![k] = [tokens |-> TokensAt(@, now) - 1, last |-> now]]
               ELSE fair
    /\ orphaned' = IF Allows(b, req[r].at) /\ keys[k] # e
                   THEN [orphaned EXCEPT ![k] = @ + 1]
                   ELSE orphaned
    /\ req' = [req EXCEPT ![r] = NoRequest]
    /\ UNCHANGED <<now, keys, live, letGo, evictions, store, requests, sweep, ev, owner, unsaved>>

-----------------------------------------------------------------------------
(* The idle sweep.                                                         *)

\* Mutant of Forget: the live count falls twice.
ForgetTwice(S) ==
    /\ keys' = [k \in Keys |-> IF k \in S THEN Absent ELSE keys[k]]
    /\ live' = [s \in Shards |-> live[s] - 2 * Cardinality({k \in S : ShardOf[k] = s})]
    /\ letGo' = letGo \cup {keys[k] : k \in S}

\* Delete, under the shard's write lock.
Forget(S) ==
    /\ keys' = [k \in Keys |-> IF k \in S THEN Absent ELSE keys[k]]
    /\ live' = [s \in Shards |-> live[s] - Cardinality({k \in S : ShardOf[k] = s})]
    /\ letGo' = letGo \cup {keys[k] : k \in S}

\* Mutant of IsIdle: off by one.
IsIdleLate(lastUsed, at) == lastUsed < at - IdleExpiry - 1

IsIdle(lastUsed, at) == lastUsed < at - IdleExpiry
InShard(s)           == {k \in Present : ShardOf[k] = s}

StartSweep ==
    /\ Sweeps
    /\ sweep.pc = "idle"
    /\ ~closed
    /\ sweep' = [NoSweep EXCEPT !.pc = IF Persists THEN "scan" ELSE "drop",
                                !.at = now, !.shard = 1,
                                !.scan = IF Persists THEN InShard(1) ELSE {}]
    /\ UNCHANGED <<now, map, evictions, store, requests, req, ev, owner, history>>

\* Phase 1 reads when a key was last used ...
ReadUsed(k) ==
    /\ sweep.pc = "scan"
    /\ k \in sweep.scan
    /\ LET lu   == heap[keys[k]].lastUsed
           rest == [sweep EXCEPT !.scan = @ \ {k}]
       IN  sweep' = IF IsIdle(lu, sweep.at)
                    THEN [rest EXCEPT !.pc = "read", !.key = k, !.lastUsed = lu]
                    ELSE rest
    /\ UNCHANGED <<now, map, evictions, store, requests, req, ev, owner, history>>

\* ... and then how many tokens it has; the entry is in use all the while.
ReadTokens ==
    /\ sweep.pc = "read"
    /\ LET e == [key      |-> sweep.key,
                 entry    |-> keys[sweep.key],
                 tokens   |-> TokensAt(heap[keys[sweep.key]].bucket, sweep.at),
                 lastUsed |-> sweep.lastUsed]
       IN  sweep' = [sweep EXCEPT !.pc = "scan", !.key = NoState, !.lastUsed = 0,
                                  !.expired = @ \cup {e}]
    /\ UNCHANGED <<now, map, evictions, store, requests, req, ev, owner, history>>

NextShard ==
    /\ sweep.pc = "scan"
    /\ sweep.scan = {}
    /\ sweep' = CASE sweep.shard + 1 \in Shards ->
                        [sweep EXCEPT !.shard = @ + 1, !.scan = InShard(sweep.shard + 1)]
                  [] sweep.shard + 1 \notin Shards /\ sweep.expired # {} ->
                        [sweep EXCEPT !.pc = "flush", !.todo = sweep.expired]
                  [] OTHER -> NoSweep
    /\ UNCHANGED <<now, map, evictions, store, requests, req, ev, owner, history>>

\* Phase 2 writes the snapshots, holding nothing; failures are logged only.
FlushOne ==
    /\ sweep.pc = "flush"
    /\ \E e \in sweep.todo :
          /\ \/ store' = [store EXCEPT ![e.key] = [tokens |-> e.tokens, lastUsed |-> e.lastUsed]]
             \/ StoreFails /\ UNCHANGED store
          /\ sweep' = IF sweep.todo = {e}
                      THEN [sweep EXCEPT !.pc = "delete", !.todo = sweep.expired]
                      ELSE [sweep EXCEPT !.todo = @ \ {e}]
    /\ UNCHANGED <<now, map, evictions, requests, req, ev, owner, history>>

\* Mutant of StillExpired: any use of that same entry since is missed.
StillThere(e) == keys[e.key] = e.entry

\* Phase 3: the map still holds that very entry, and nobody has touched it.
StillExpired(e) ==
    /\ keys[e.key] = e.entry
    /\ heap[e.entry].lastUsed = e.lastUsed

Reporting(s) == IF s.evicted = 0 THEN NoSweep ELSE [s EXCEPT !.pc = "report", !.expired = {}]

DeleteOne ==
    /\ sweep.pc = "delete"
    /\ \E e \in sweep.todo :
          LET gone == IF StillExpired(e) THEN {e.key} ELSE {}
              s    == [sweep EXCEPT !.todo = @ \ {e}, !.evicted = @ + Cardinality(gone)]
          IN  /\ Forget(gone)
              /\ sweep' = IF s.todo = {} THEN Reporting(s) ELSE s
    /\ UNCHANGED <<now, heap, evictions, store, requests, req, ev, owner, history>>

\* sweepInPlace: nothing to persist, so a shard is cleared under one lock.
DropIdle ==
    LET idle == {k \in InShard(sweep.shard) : IsIdle(heap[keys[k]].lastUsed, sweep.at)}
        s    == [sweep EXCEPT !.evicted = @ + Cardinality(idle), !.shard = @ + 1]
    IN
    /\ sweep.pc = "drop"
    /\ Forget(idle)
    /\ sweep' = IF s.shard \in Shards THEN s ELSE Reporting(s)
    /\ UNCHANGED <<now, heap, evictions, store, requests, req, ev, owner, history>>

\* One report, and one count, per key; in bulk when nobody is listening.
ReportSweep ==
    LET n == IF Persists \/ Observes THEN 1 ELSE sweep.evicted
        s == [sweep EXCEPT !.evicted = @ - n]
    IN
    /\ sweep.pc = "report"
    /\ evictions' = evictions + n
    /\ sweep' = Reporting(s)
    /\ UNCHANGED <<now, map, store, requests, req, ev, owner, history>>

-----------------------------------------------------------------------------
(* Evict: delete, then snapshot, then save, then report.                   *)

EvictDelete(v, k) ==
    /\ ev[v].pc = "idle"
    /\ ~closed
    /\ k \in Present
    /\ Writable(k)
    /\ Forget({k})
    /\ ev' = [ev EXCEPT ![v] = [NoEvict EXCEPT !.pc = "tokens", !.key = k, !.at = now,
                                               !.entry = keys[k]]]
    /\ UNCHANGED <<now, heap, evictions, store, requests, req, sweep, owner, history>>

EvictReadTokens(v) ==
    /\ ev[v].pc = "tokens"
    /\ ev' = [ev EXCEPT ![v].pc = "used",
                        ![v].tokens = TokensAt(heap[ev[v].entry].bucket, ev[v].at)]
    /\ UNCHANGED <<now, map, evictions, store, requests, req, sweep, owner, history>>

EvictReadUsed(v) ==
    /\ ev[v].pc = "used"
    /\ ev' = [ev EXCEPT ![v].pc = IF Persists THEN "save" ELSE "report",
                        ![v].lastUsed = heap[ev[v].entry].lastUsed]
    /\ UNCHANGED <<now, map, evictions, store, requests, req, sweep, owner, history>>

EvictSave(v) ==
    /\ ev[v].pc = "save"
    /\ store' = [store EXCEPT ![ev[v].key] = [tokens   |-> ev[v].tokens,
                                              lastUsed |-> ev[v].lastUsed]]
    /\ ev' = [ev EXCEPT ![v].pc = "report"]
    /\ UNCHANGED <<now, map, evictions, requests, req, sweep, owner, history>>

\* The error goes to the caller; the key is gone, unreported and uncounted.
EvictSaveFails(v) ==
    /\ ev[v].pc = "save"
    /\ StoreFails
    /\ ev' = [ev EXCEPT ![v] = NoEvict]
    /\ unsaved' = unsaved + 1
    /\ UNCHANGED <<now, map, evictions, store, requests, req, sweep, owner, fair, orphaned>>

\* Mutant of EvictReport: notifies without counting.
EvictReportUncounted(v) ==
    /\ ev[v].pc = "report"
    /\ ev' = [ev EXCEPT ![v] = NoEvict]
    /\ UNCHANGED <<now, map, evictions, store, requests, req, sweep, owner, history>>

EvictReport(v) ==
    /\ ev[v].pc = "report"
    /\ evictions' = evictions + 1
    /\ ev' = [ev EXCEPT ![v] = NoEvict]
    /\ UNCHANGED <<now, map, store, requests, req, sweep, owner, history>>

-----------------------------------------------------------------------------
(* Teardown and time.                                                      *)

Quiet ==
    /\ \A r \in Requests : req[r].pc = "idle"
    /\ \A v \in Evictors : ev[v].pc = "idle"
    /\ sweep.pc = "idle"

\* flush(SnapshotAll()) and DropAll.  One step: by Lifecycle.tla nothing else
\* is running when finish gets here, and nothing runs afterwards.
Teardown ==
    /\ ~closed
    /\ Quiet
    /\ closed' = TRUE
    /\ store' = [k \in Keys |->
                    IF Persists /\ k \in Present
                    THEN [tokens   |-> TokensAt(heap[keys[k]].bucket, now),
                          lastUsed |-> heap[keys[k]].lastUsed]
                    ELSE store[k]]
    /\ keys' = [k \in Keys |-> Absent]
    /\ live' = [s \in Shards |-> 0]
    /\ letGo' = letGo \cup {keys[k] : k \in Present}
    /\ evictions' = evictions + Cardinality(Present)
    /\ UNCHANGED <<now, heap, requests, req, sweep, ev, config, history>>

\* A request runs for at most Stall ticks between its clock reading and its
\* draw: the load is bounded by StoreTimeout and the rest does not block.
Tick ==
    /\ now < MaxTime
    /\ \A r \in Requests : req[r].pc # "idle" => now < req[r].at + Stall
    /\ now' = now + 1
    /\ UNCHANGED <<map, evictions, store, requests, req, sweep, ev, owner, history>>

-----------------------------------------------------------------------------

RequestStep(r) == Lookup(r) \/ Load(r) \/ InsertLost(r) \/ Insert(r) \/ Touch(r) \/ Draw(r)

SweepStep ==
    \/ StartSweep
    \/ \E k \in Keys : ReadUsed(k)
    \/ ReadTokens
    \/ NextShard
    \/ FlushOne
    \/ DeleteOne
    \/ DropIdle
    \/ ReportSweep

EvictStep(v) ==
    \/ EvictReadTokens(v)
    \/ EvictReadUsed(v)
    \/ EvictSave(v)
    \/ EvictSaveFails(v)
    \/ EvictReport(v)

Next ==
    \/ \E r \in Requests : RequestStep(r) \/ \E k \in Keys : Arrive(r, k)
    \/ SweepStep
    \/ \E v \in Evictors : EvictStep(v) \/ \E k \in Keys : EvictDelete(v, k)
    \/ Teardown
    \/ Tick

Spec == Init /\ [][Next]_vars

(***************************************************************************)
(* The ticker keeps firing and the scheduler runs every goroutine; a       *)
(* waiting Lock holds new readers off, so the sweep cannot starve a        *)
(* request out of a shard.  Nobody has to make a request or close, and an  *)
(* Evict may stay in its save as long as it likes.                         *)
(***************************************************************************)
FairSpec ==
    /\ Spec
    /\ \A r \in Requests : SF_vars(RequestStep(r))
    /\ WF_vars(SweepStep)
    /\ WF_vars(Tick)

-----------------------------------------------------------------------------
(* Properties.                                                             *)

\* What the next request for a key would find.
Held(k) ==
    IF k \in Present THEN TokensAt(heap[keys[k]].bucket, now)
    ELSE IF store[k] = NoState THEN Burst
    ELSE Credit(store[k].tokens, store[k].lastUsed, now)

\* "so nothing is lost" (gc.go:168): while requests race the sweep, what a key
\* holds, in memory or in the store, is its burst less everything it was
\* granted.  The one leak is a token drawn from an entry the sweep deleted
\* between GetOrCreate and Touch.
TokensConserved ==
    \A k \in Keys : Held(k) = TokensAt(fair[k], now) + orphaned[k]

\* Phase 3 "deletes only what has not been touched since" (README.md:570): at
\* the moment a key leaves memory the store has what its entry holds, as of the
\* instant the sweep began.
SweepDeletesWhatItSaved ==
    [][\A k \in Keys :
         (sweep.pc = "delete" /\ keys[k] # Absent /\ keys'[k] = Absent) =>
             store[k] = [tokens   |-> TokensAt(heap[keys[k]].bucket, sweep.at),
                         lastUsed |-> heap[keys[k]].lastUsed]]_vars

\* "a snapshot that says N keys and +N evictions at the same time ... cannot
\* both be true" (gc.go:62): every entry ever made is a key, has been counted as
\* an eviction, is on its way from the one to the other, or belonged to an Evict
\* whose save failed (gc.go:50), each exactly once.  Those last, `unsaved`, are
\* dropped and never counted: the code departs there from the next property.
EveryEntryAccounted ==
    Len(heap) = KeyCount + evictions + unsaved + sweep.evicted
                + Cardinality({v \in Evictors : ev[v].pc # "idle"})

\* "Evictions counts keys dropped from memory, for any reason"
\* (observe/observe.go:143; registry.go:308 says the same).
EvictionsCountEveryDrop ==
    Len(heap) = KeyCount + evictions + sweep.evicted
                + Cardinality({v \in Evictors : ev[v].pc # "idle"})

\* "the loser's result is discarded" (registry.go:255): an entry leaves the map
\* because a sweep, an Evict or DropAll let go of it and never because another
\* was stored over it, so two first requests for a key cannot draw on two
\* entries in use: the one a request has in hand is its key's, or was let go.
\* Each shard's live counter is the size of its map all the while.
OneLiveEntry ==
    /\ {keys[k] : k \in Present} = Addresses \ letGo
    /\ \A r \in Requests : req[r].pc \in {"touch", "draw"} =>
           req[r].entry \in letGo \cup {keys[req[r].key]}
    /\ \A s \in Shards : live[s] = Cardinality(InShard(s))

\* A key nobody uses leaves memory (README.md:570, step 3).
IdleKeysLeave ==
    \A k \in Keys :
        (k \in Present /\ heap[keys[k]].lastUsed + IdleExpiry < MaxTime)
            ~> (k \in Present => heap[keys[k]].lastUsed + IdleExpiry >= MaxTime)

\* "restored exactly, fractions included, accounting for time elapsed since"
\* (README.md:571): a key evicted and restored never has more than an
\* undisturbed bucket would.
RestoredExactly ==
    \A k \in Present : Held(k) <= TokensAt(fair[k], now) + orphaned[k]

\* "the value written in phase 2 is simply an older snapshot of state that is
\* still in memory" (gc.go:166): where the key is gone from memory, the sweep's
\* write does not replace a newer save.
FlushKeepsNewerState ==
    [][\A k \in Keys \ Present :
         (sweep.pc = "flush" /\ store[k] # NoState /\ store'[k] # NoState) =>
             store[k].lastUsed <= store'[k].lastUsed]_vars

-----------------------------------------------------------------------------
(* The strengthening the proofs need (RegistryProofs.tla).                 *)

\* What the sweep has in hand under a shard's lock stays in the map; it evicts
\* only in its last phase, and has something to report while it reports.
SweepHolds ==
    /\ sweep.pc \in {"scan", "read"} => sweep.scan \subseteq InShard(sweep.shard)
    /\ sweep.pc = "read" => sweep.key \in InShard(sweep.shard)
    /\ sweep.pc \in {"idle", "scan", "read", "flush"} => sweep.evicted = 0
    /\ sweep.pc = "report" => sweep.evicted # 0

\* No entry serves two keys.
KeysAreApart == \A j, k \in Present : keys[j] = keys[k] => j = k

\* EveryEntryAccounted, over the keys themselves and not the live counters.
EntriesBalance ==
    Len(heap) = Cardinality(Present) + evictions + unsaved + sweep.evicted
                + Cardinality({v \in Evictors : ev[v].pc # "idle"})

RegistryInv ==
    /\ TypeOK
    /\ SweepHolds
    /\ OneLiveEntry
    /\ KeysAreApart
    /\ EntriesBalance

-----------------------------------------------------------------------------
(* What keeps the sweep from losing state: the store answers, nobody       *)
(* evicts by hand, and a request is over long before what it has touched    *)
(* can be idle.                                                            *)

SweepUndisturbed ==
    /\ ~StoreFails
    /\ Evictors = {}
    /\ 2 * Stall <= IdleExpiry

\* What the sweep has collected and not yet deleted.
Pending ==
    CASE sweep.pc \in {"scan", "read", "flush"} -> sweep.expired
      [] sweep.pc = "delete"                    -> sweep.todo
      [] OTHER                                  -> {}

ReadingsAreRecent ==
    /\ \A r \in Requests : req[r].pc # "idle" => req[r].at <= now /\ now <= req[r].at + Stall
    /\ sweep.pc # "idle" => sweep.at <= now

\* What was collected is still in the map, and what was written of it is what it
\* holds unless it was used since.
Collected(e) ==
    /\ keys[e.key] = e.entry
    /\ IsIdle(e.lastUsed, sweep.at)
    /\ heap[e.entry].lastUsed = e.lastUsed => TokensAt(heap[e.entry].bucket, sweep.at) = e.tokens
    /\ sweep.pc = "delete" \/ (sweep.pc = "flush" /\ e \notin sweep.todo) =>
           store[e.key] = [tokens |-> e.tokens, lastUsed |-> e.lastUsed]
    /\ sweep.pc \in {"scan", "read"} => ShardOf[e.key] <= sweep.shard /\ e.key \notin sweep.scan

\* Each key is collected once.
SweepCollects ==
    /\ \A e \in Pending : Collected(e)
    /\ \A d, e \in Pending : d.key = e.key => d = e
    /\ sweep.pc = "read" => /\ IsIdle(sweep.lastUsed, sweep.at)
                            /\ sweep.key \notin sweep.scan
                            /\ \A e \in Pending : e.key # sweep.key
    /\ sweep.pc = "flush" => sweep.todo \subseteq sweep.expired

\* The sweep will not take for idle what a request is about to draw on.
DrawnOnIsRecent ==
    \A r \in Requests : req[r].pc = "draw" => heap[req[r].entry].lastUsed >= req[r].at - Stall

SweepSaves ==
    /\ ReadingsAreRecent
    /\ SweepCollects
    /\ DrawnOnIsRecent

-----------------------------------------------------------------------------
(* What conserves the tokens besides: a store is configured, and nothing   *)
(* accrues, as where a quota's rate is 0 (limiter/quota.go:29).            *)

SweepAlone ==
    /\ SweepUndisturbed
    /\ \A c \in Configs : c.persists
    /\ ~Refills

\* What a saved state, or none, restores to.
Content(state) == IF state = NoState THEN Burst ELSE state.tokens

TokensInBounds ==
    /\ \A a \in Addresses : heap[a].bucket.tokens \in 0..Burst
    /\ \A k \in Keys : Content(store[k]) \in 0..Burst /\ fair[k].tokens <= Burst
    /\ \A r \in Requests : Content(req[r].snap) \in 0..Burst
    /\ \A e \in Pending : e.tokens \in 0..Burst

\* Since it was restored nobody has drawn on it, or is about to, and the sweep
\* has read nothing else.
AsRestored(k) ==
    LET held == heap[keys[k]].bucket.tokens IN
    /\ \A r \in Requests : req[r].pc = "draw" => req[r].entry # keys[k]
    /\ Content(store[k]) = held
    /\ \A e \in Pending : e.key = k => e.tokens = held

\* What a request has in hand: a snapshot that is no older than the key's last
\* stay in memory, or an entry that the sweep will not take for idle.
HandAgrees(r) ==
    LET k == req[r].key
        Recent(a) == heap[a].lastUsed >= req[r].at - Stall
    IN
    /\ req[r].pc = "insert" /\ k \notin Present => Content(req[r].snap) = Content(store[k])
    /\ req[r].pc \in {"load", "insert"} /\ k \in Present =>
           \/ Recent(keys[k])
           \/ /\ AsRestored(k)
              /\ req[r].pc = "insert" => Content(req[r].snap) = heap[keys[k]].bucket.tokens
    /\ req[r].pc \in {"touch", "draw"} => \A j \in Keys : keys[j] = req[r].entry => j = k

HandsAgree == \A r \in Requests : HandAgrees(r)

SweepAccounts ==
    /\ TokensInBounds
    /\ sweep.pc # "drop"
    /\ HandsAgree
    /\ TokensConserved

SweepInv ==
    /\ RegistryInv
    /\ SweepUndisturbed => SweepSaves
    /\ SweepAlone => SweepAccounts
=============================================================================
