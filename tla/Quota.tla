--------------------------------- MODULE Quota ---------------------------------
(***************************************************************************)
(* The quota a key is held to, from the text it is written in to the       *)
(* bucket that enforces it, while it changes: config.Resolve and           *)
(* limiter.New, quotaFor over the WithQuotaFor hook (limiter/quota.go),    *)
(* the creation of a key's bucket and Reload, ReloadKey                    *)
(* (registry/registry.go), and SetQuotaAt (bucket/bucket.go).              *)
(*                                                                         *)
(* A reload reads the clock, asks the hook and then changes the bucket in  *)
(* three steps, holding no lock; requests, creations, evictions and other  *)
(* reloads run in between.  An entry is a heap object, as in Registry.tla; *)
(* a request is one step here, and no store is configured.                 *)
(***************************************************************************)
EXTENDS Configuration, FiniteSets, Sequences

CONSTANTS
    Keys,
    Shards,         \* 1..N
    ShardOf,        \* the shard each key hashes to
    Makers,         \* goroutines creating a key's entry
    Wholes,         \* goroutines calling ReloadQuotas
    Singles,        \* goroutines calling ReloadQuota
    Drafts,         \* Configs a program may have written
    Written,        \* quotas it may have written as text: [text, burst]
    Plain,          \* a Draft with nothing wrong, whose quota a text replaces
    Answers,        \* what the hook may come to answer for a key
    HookStall,      \* ticks from a reload's clock reading to its last change, at most
    MaxSwaps, MaxEntries, MaxTime   \* bounds

AnyQuota    == [rate : Rate, burst : Int]
UsableRate  == Nat \cup {Inf, Tiny}
UsableQuota == [rate : UsableRate, burst : Nat \ {0}]

ASSUME QuotaAssumption ==
    /\ IsFiniteSet(Shards) /\ Shards = 1..Cardinality(Shards)
    /\ ShardOf \in [Keys -> Shards]
    /\ Drafts \cup {Plain} \subseteq Config
    /\ Valid(Plain)
    /\ Written \subseteq [text : Texts, burst : Int]
    /\ Answers \subseteq AnyQuota
    /\ {HookStall, MaxSwaps, MaxEntries, MaxTime} \subseteq Nat

VARIABLES
    now,
    phase,      \* how far the configuration has come
    cfg,        \* the configuration; once running, only its quota
    hook,       \* what the hook answers for each key
    keys,       \* the address of each key's entry, 0 when absent
    heap,       \* every bucket ever made; its address is its index
    make,       \* the locals of each creation
    walk,       \* the locals of each reload
    swaps,      \* history: the changes of the hook's answers
    asked,      \* history: how many of them each bucket's quota has seen
    contested,  \* history: buckets two reloads were changing at once
    settled     \* history: the changes made before the last full reload began

config  == <<phase, cfg, hook>>
history == <<swaps, asked, contested, settled>>
vars    == <<now, config, keys, heap, make, walk, history>>

Walkers   == Wholes \cup Singles
Absent    == 0
Addresses == 1..Len(heap)
Present   == {k \in Keys : keys[k] # Absent}
Running   == phase = "running"

Standstill == [rate |-> 0, burst |-> 1]

NoMake == [pc |-> "idle", key |-> Absent, quota |-> Standstill, asked |-> 0]
NoWalk == [pc |-> "idle", whole |-> FALSE, shard |-> 0, batch |-> {},
           key |-> Absent, entry |-> Absent, at |-> 0, quota |-> Standstill, asked |-> 0,
           found |-> [k \in Keys |-> Absent], since |-> 0]

\* The reloads that have a bucket in hand, past its clock reading.
Changing(e) ==
    {x \in Walkers : walk[x].pc \in {"ask", "limit", "burst", "publish"} /\ walk[x].entry = e}

Buckets == [tokens : Nat, last : 0..MaxTime, limit : Rate, burst : Int, published : AnyQuota]

Creations == [pc : {"idle", "insert"}, key : Keys \cup {Absent}, quota : AnyQuota, asked : Nat]

Reloads ==
    [pc    : {"idle", "collect", "clock", "ask", "limit", "burst", "publish"},
     whole : BOOLEAN, shard : Nat, batch : SUBSET (Keys \X Addresses),
     key   : Keys \cup {Absent}, entry : {Absent} \cup Addresses,
     at    : 0..now, quota : AnyQuota, asked : Nat,
     found : [Keys -> {Absent} \cup Addresses], since : 0..swaps]

\* What each phase has for a configuration.
Configured ==
    /\ phase \in {"written", "draft", "parsed", "resolved", "running",
                  "unreadable", "refused", "panicked", "by hand"}
    /\ phase = "written" => cfg \in [text : Texts, burst : Int]
    /\ phase \in {"draft", "parsed"} => cfg \in Config
    /\ phase = "resolved" => cfg.quota \in AnyQuota
    /\ Running => hook \in [Keys -> AnyQuota]

TypeOK ==
    /\ now \in 0..MaxTime
    /\ Configured
    /\ heap \in Seq(Buckets)
    /\ keys \in [Keys -> {Absent} \cup Addresses]
    /\ make \in [Makers -> Creations]
    /\ walk \in [Walkers -> Reloads]
    /\ \A x \in Walkers :
          /\ walk[x].pc # "idle" => Running
          /\ walk[x].pc \notin {"idle", "collect"} =>
                walk[x].key \in Keys /\ walk[x].entry \in Addresses
    /\ asked \in Seq(Nat) /\ Len(asked) = Len(heap)
    /\ contested \subseteq Addresses
    /\ swaps \in Nat /\ settled \in 0..swaps

Init ==
    /\ now = 0
    /\ \/ phase = "draft" /\ cfg \in Drafts
       \/ phase = "written" /\ cfg \in Written
    /\ hook = <<>>
    /\ keys = [k \in Keys |-> Absent]
    /\ heap = <<>>
    /\ make = [m \in Makers |-> NoMake]
    /\ walk = [x \in Walkers |-> NoWalk]
    /\ swaps = 0
    /\ asked = <<>>
    /\ contested = {}
    /\ settled = 0

-----------------------------------------------------------------------------
(* From a text to a running limiter.                                       *)

Configures == UNCHANGED <<now, keys, heap, make, walk, history>>

\* ParseQuota; NewQuota panics where it refuses.
Parse ==
    LET q == ParseQuota(cfg.text, cfg.burst) IN
    /\ phase = "written"
    /\ IF q = Refused THEN phase' = "unreadable" /\ UNCHANGED cfg
                      ELSE phase' = "parsed" /\ cfg' = [Plain EXCEPT !.quota = q]
    /\ UNCHANGED hook
    /\ Configures

Resolve ==
    /\ phase \in {"draft", "parsed"}
    /\ IF Valid(cfg) THEN phase' = "resolved" /\ cfg' = withDefaults(cfg)
                     ELSE phase' = "refused" /\ UNCHANGED cfg
    /\ UNCHANGED hook
    /\ Configures

\* limiter.New, on what Resolve returned or on a struct filled in by hand; that
\* one is not followed further.  The hook starts by handing back its default.
New ==
    /\ phase \in {"resolved", "draft"}
    /\ phase' = CASE ~Workable(cfg) -> "panicked"
                  [] Workable(cfg) /\ phase = "draft" -> "by hand"
                  [] Workable(cfg) /\ phase = "resolved" -> "running"
    /\ IF phase' = "running"
       THEN cfg' = [quota |-> cfg.quota] /\ hook' = [k \in Keys |-> cfg.quota]
       ELSE UNCHANGED <<cfg, hook>>
    /\ Configures

-----------------------------------------------------------------------------
(* quotaFor, and a key's first request.                                    *)

\* Mutants of quotaFor: any burst goes through; a NaN is left to the bucket.
AnyBurst(k) ==
    LET r == Finite(hook[k].rate) IN
    [rate |-> IF AboveZero(r) THEN r ELSE 0, burst |-> hook[k].burst]

AnswerMadeFinite(k) ==
    [rate |-> Finite(hook[k].rate), burst |-> AtLeastOne(hook[k].burst)]

\* What comes back from the hook is normalised: an unusable rate is zero.
quotaFor(k) ==
    LET r == Finite(hook[k].rate) IN
    [rate |-> IF AboveZero(r) THEN r ELSE 0, burst |-> AtLeastOne(hook[k].burst)]

\* What Limiter.Quota answers.
QuotaOf(k) == IF k \in Present THEN heap[keys[k]].published ELSE quotaFor(k)

\* Whatever the hook reads is changed.
Swap(k) ==
    /\ Running
    /\ swaps < MaxSwaps
    /\ \E q \in Answers : hook' = [hook EXCEPT ![k] = q]
    /\ swaps' = swaps + 1
    /\ UNCHANGED <<now, phase, cfg, keys, heap, make, walk, asked, contested, settled>>

\* GetOrCreate misses, and asks before it takes the lock ...
Ask(m, k) ==
    /\ Running
    /\ make[m].pc = "idle"
    /\ k \notin Present
    /\ make' = [make EXCEPT ![m] = [pc |-> "insert", key |-> k, quota |-> quotaFor(k),
                                    asked |-> swaps]]
    /\ UNCHANGED <<now, config, keys, heap, walk, history>>

\* ... to find that somebody else was first, or not.
Insert(m) ==
    /\ make[m].pc = "insert"
    /\ IF make[m].key \in Present THEN UNCHANGED <<keys, heap, asked>>
       ELSE /\ Len(heap) < MaxEntries
            /\ heap' = Append(heap, NewBucket(make[m].quota))
            /\ asked' = Append(asked, make[m].asked)
            /\ keys' = [keys EXCEPT ![make[m].key] = Len(heap) + 1]
    /\ make' = [make EXCEPT ![m] = NoMake]
    /\ UNCHANGED <<now, config, walk, swaps, contested, settled>>

\* A request of a key in memory draws a token.
Draw(k) ==
    /\ k \in Present
    /\ heap' = [heap EXCEPT ![keys[k]] = AllowAt(@, now)]
    /\ UNCHANGED <<now, config, keys, make, walk, history>>

\* Evict, or the sweep; nothing is stored.
Evict(k) ==
    /\ k \in Present
    /\ keys' = [keys EXCEPT ![k] = Absent]
    /\ UNCHANGED <<now, config, heap, make, walk, history>>

-----------------------------------------------------------------------------
(* Reload and ReloadKey.                                                   *)

InShard(s) == {<<k, keys[k]>> : k \in {j \in Present : ShardOf[j] = s}}

\* Mutant of Onward: the last shard is left out.
OnwardShort(w) ==
    CASE w.batch # {} ->
            {[w EXCEPT !.pc = "clock", !.key = e[1], !.entry = e[2], !.batch = @ \ {e}] : e \in w.batch}
      [] w.batch = {} /\ w.whole /\ w.shard + 1 \in Shards -> {[w EXCEPT !.pc = "collect"]}
      [] OTHER -> {NoWalk}

\* On to the next entry of the batch, the next shard, or the end.
Onward(w) ==
    CASE w.batch # {} ->
            {[w EXCEPT !.pc = "clock", !.key = e[1], !.entry = e[2], !.batch = @ \ {e}] : e \in w.batch}
      [] w.batch = {} /\ w.whole /\ w.shard \in Shards -> {[w EXCEPT !.pc = "collect"]}
      [] OTHER -> {NoWalk}

Proceed(x, w) ==
    \E v \in Onward(w) :
        /\ walk' = [walk EXCEPT ![x] = v]
        /\ settled' = IF w.whole /\ v = NoWalk /\ w.since > settled THEN w.since ELSE settled

\* The walk's history: whom it found in memory, and what the hook had been
\* through when it began.
StartReload(x) ==
    /\ Running
    /\ walk[x].pc = "idle"
    /\ walk' = [walk EXCEPT ![x] = [NoWalk EXCEPT !.pc = "collect", !.whole = TRUE, !.shard = 1,
                                                 !.found = keys, !.since = swaps]]
    /\ UNCHANGED <<now, config, keys, heap, make, history>>

\* A shard's entries are copied under its read lock.
Collect(x) ==
    /\ walk[x].pc = "collect"
    /\ Proceed(x, [walk[x] EXCEPT !.batch = InShard(walk[x].shard), !.shard = @ + 1])
    /\ UNCHANGED <<now, config, keys, heap, make, swaps, asked, contested>>

\* ReloadKey of a key that has state; without any there is nothing to do.
StartReloadKey(x, k) ==
    /\ Running
    /\ walk[x].pc = "idle"
    /\ k \in Present
    /\ walk' = [walk EXCEPT ![x] = [NoWalk EXCEPT !.pc = "clock", !.key = k, !.entry = keys[k],
                                                 !.found[k] = keys[k], !.since = swaps]]
    /\ UNCHANGED <<now, config, keys, heap, make, history>>

\* SetQuotaAt(Now(), QuotaFor(key)): the arguments are evaluated in order.
ReadClock(x) ==
    /\ walk[x].pc = "clock"
    /\ walk' = [walk EXCEPT ![x].pc = "ask", ![x].at = now]
    /\ contested' = IF Changing(walk[x].entry) = {} THEN contested
                    ELSE contested \cup {walk[x].entry}
    /\ UNCHANGED <<now, config, keys, heap, make, swaps, asked, settled>>

AskAgain(x) ==
    /\ walk[x].pc = "ask"
    /\ walk' = [walk EXCEPT ![x].pc = "limit", ![x].quota = quotaFor(walk[x].key), ![x].asked = swaps]
    /\ UNCHANGED <<now, config, keys, heap, make, history>>

SetLimit(x) ==
    LET w == [walk[x] EXCEPT !.pc = "burst", !.quota.rate = usableRate(@)] IN
    /\ walk[x].pc = "limit"
    /\ heap' = [heap EXCEPT ![w.entry] = SetLimitAt(@, w.at, w.quota.rate)]
    /\ walk' = [walk EXCEPT ![x] = w]
    /\ UNCHANGED <<now, config, keys, make, history>>

SetBurst(x) ==
    /\ walk[x].pc = "burst"
    /\ heap' = [heap EXCEPT ![walk[x].entry] = SetBurstAt(@, walk[x].at, walk[x].quota.burst)]
    /\ walk' = [walk EXCEPT ![x].pc = "publish"]
    /\ UNCHANGED <<now, config, keys, make, history>>

PublishQuota(x) ==
    LET w == walk[x] IN
    /\ w.pc = "publish"
    /\ heap' = [heap EXCEPT ![w.entry] = Publish(@, w.quota)]
    /\ asked' = [asked EXCEPT ![w.entry] = w.asked]
    /\ Proceed(x, w)
    /\ UNCHANGED <<now, config, keys, make, swaps, contested>>

Tick ==
    /\ now < MaxTime
    /\ \A x \in Walkers : walk[x].pc \in {"ask", "limit", "burst"} => now < walk[x].at + HookStall
    /\ now' = now + 1
    /\ UNCHANGED <<config, keys, heap, make, walk, history>>

-----------------------------------------------------------------------------

WalkStep(x) ==
    \/ Collect(x)
    \/ ReadClock(x)
    \/ AskAgain(x)
    \/ SetLimit(x)
    \/ SetBurst(x)
    \/ PublishQuota(x)

Next ==
    \/ Parse \/ Resolve \/ New
    \/ \E k \in Keys : Swap(k) \/ Draw(k) \/ Evict(k)
    \/ \E m \in Makers : Insert(m) \/ \E k \in Keys : Ask(m, k)
    \/ \E x \in Walkers : WalkStep(x)
    \/ \E x \in Wholes : StartReload(x)
    \/ \E x \in Singles, k \in Keys : StartReloadKey(x, k)
    \/ Tick

Spec == Init /\ [][Next]_vars

-----------------------------------------------------------------------------
(* Properties.                                                             *)

Enforced(b) == [rate |-> b.limit, burst |-> b.burst]

\* Each stage of the configuration accepts what the one before it let through,
\* with one exception.  "A rate at or below zero is refused" (bucket/parse.go:52),
\* but of the number and not of the quotient: one so small that its period
\* divides it to nothing parses to zero without an error, and then, and only
\* then, Resolve refuses what parsed (config/config.go:230).  What Resolve lets
\* through New does not panic on: it "cannot produce a Config this rejects"
\* (limiter/limiter.go:70).
AcceptedOnce ==
    [][/\ phase = "written" /\ phase' = "parsed" =>
             (AboveZero(cfg'.quota.rate) <=> ~Underflows(cfg.text))
       /\ phase = "parsed" => (phase' = "refused" => ~AboveZero(cfg.quota.rate))
       /\ phase = "resolved" => phase' # "panicked"]_vars

\* "nothing it accepts may be a rate the bucket cannot use", `l <= 0` being one
\* "that never refills" (FuzzParseLimit, bucket/parse_test.go:170 and 188).
ParsedAccrues == phase = "parsed" => AboveZero(cfg.quota.rate)

\* No answer of the hook, however it arrives at a bucket, "poisons the
\* arithmetic" (bucket/bucket.go:77): what is enforced and what is reported are
\* a rate that is a number, finite and not negative, and a burst that can hold a
\* token.  A rate of zero is one of them: it is how a key is brought to a halt.
UsableBuckets ==
    \A e \in Addresses : {Enforced(heap[e]), heap[e].published} \subseteq UsableQuota

\* "what its bucket is actually enforcing ... Otherwise it is what the key would
\* be given on its next request" (limiter/api.go:105): a key's reported quota is
\* the one enforced, with or without a bucket, save while a reload is changing
\* it (bucket/bucket.go:168) or where two have done so at once.
ReportIsEnforced ==
    Running => \A k \in Keys :
        LET e == keys[k] IN
        IF k \in Present
        THEN e \in contested \/ Changing(e) # {} \/ QuotaOf(k) = Enforced(heap[e])
        ELSE QuotaOf(k) = Enforced(NewBucket(QuotaOf(k)))

\* "re-resolves every live key's quota" (registry.go:349): when a reload is
\* over, whoever it found in memory and is still there is held to an answer the
\* hook gave after the reload began, unless another reload was at it meanwhile.
ReloadReaches ==
    [][\A x \in Walkers : \A k \in Keys :
         LET e == walk[x].found[k] IN
         (/\ walk[x].pc # "idle" /\ walk'[x].pc = "idle"
          /\ e # Absent /\ keys[k] = e /\ e \notin contested)
             => asked'[e] >= walk[x].since]_vars

\* "keeping the tokens accrued up to that instant" (bucket/bucket.go:161): a
\* reload takes away nothing but what the new ceiling cannot hold, and gives
\* away at most what accrues after its own reading of the clock, which may be
\* older than the bucket's last update (registry.go:352-356).
ReloadKeepsTokens ==
    [][\A x \in Walkers :
         (walk[x].pc \in {"limit", "burst"} /\ walk'[x] # walk[x]) =>
             LET b == heap[walk[x].entry]
                 c == heap'[walk[x].entry]
                 twice == [c EXCEPT !.tokens = TokensAt(b, now), !.last = walk[x].at]
             IN  /\ TokensAt(c, now) >= LesserOf(TokensAt(b, walk[x].at), c.burst)
                 /\ TokensAt(c, now) <= TokensAt(twice, now)]_vars

\* "Keys not in memory need nothing: their bucket is resolved fresh the next
\* time they appear" (limiter/limiter.go:192): after a full reload every key is
\* held to an answer given since it began, those created meanwhile included.
NobodyLeftBehind ==
    \A k \in Present : keys[k] \notin contested => asked[keys[k]] >= settled

-----------------------------------------------------------------------------
(* The strengthening the proofs need (QuotaProofs.tla).                    *)

\* Nothing unusable is on its way to a bucket either.
UsableInHand ==
    /\ \A m \in Makers : make[m].quota \in UsableQuota
    /\ \A x \in Walkers : walk[x].quota \in UsableQuota

\* How far the one reload that has a bucket in hand has come with it.
PartlyChanged ==
    \A e \in Addresses \ contested :
        /\ \A x, y \in Changing(e) : x = y
        /\ (\A x \in Changing(e) : walk[x].pc \in {"ask", "limit"}) =>
              heap[e].published = Enforced(heap[e])
        /\ \A x \in Changing(e) :
              /\ walk[x].pc \in {"burst", "publish"} => heap[e].limit = walk[x].quota.rate
              /\ walk[x].pc = "publish" => heap[e].burst = walk[x].quota.burst

\* What is handed on was looked at before.
Vetted ==
    /\ phase = "parsed" => Valid(cfg) \/ ~AboveZero(cfg.quota.rate)
    /\ phase = "resolved" => Workable(cfg)

\* What a bucket is held to, and what a reload is about to put there, is no older.
AskedSince(e, since) ==
    /\ asked[e] >= since
    /\ \A y \in Changing(e) : walk[y].pc # "ask" => walk[y].asked >= since

\* A reload is yet to come to entry e of k, or has it in hand.
StillToVisit(w, k, e) ==
    \/ w.whole /\ w.shard <= ShardOf[k]
    \/ <<k, e>> \in w.batch
    \/ /\ w.pc # "collect" /\ w.entry = e
       /\ w.pc \in {"clock", "ask"} \/ w.asked >= w.since

\* Whom a reload found is asked about since, or will be.
WalksReach ==
    \A x \in Walkers : LET w == walk[x] IN
        w.pc # "idle" =>
            /\ w.whole => w.shard >= 1
            /\ w.pc = "collect" => w.batch = {}
            /\ \A k \in Keys : LET e == w.found[k] IN
                  e # Absent /\ keys[k] = e /\ e \notin contested =>
                      AskedSince(e, w.since) \/ StillToVisit(w, k, e)

QuotaInv ==
    /\ TypeOK
    /\ UsableBuckets
    /\ UsableInHand
    /\ PartlyChanged
    /\ Vetted
    /\ WalksReach
=============================================================================
