------------------------------ MODULE TokenProofs ------------------------------
(***************************************************************************)
(* The tokens of the registry where nothing accrues: proved for any number *)
(* of keys, shards and requests that race the sweep, any burst and any     *)
(* idle expiry of at least twice the time a request may last, with a store *)
(* that answers and nobody evicting by hand.                               *)
(***************************************************************************)
EXTENDS SweepProofs

-----------------------------------------------------------------------------
(* Where nothing accrues a bucket holds what it held.                      *)

LEMMA Alone ==
    ASSUME TypeOK, SweepAlone
    PROVE  /\ Refills = FALSE /\ StoreFails = FALSE /\ Evictors = {} /\ Persists
           /\ Stall \in Nat /\ now \in Nat
  BY Undisturbed, BucketAssumption DEF TypeOK, SweepAlone, Persists

LEMMA Steady ==
    ASSUME SweepAlone, NEW bucket, bucket.tokens \in Int, bucket.tokens <= Burst, NEW t
    PROVE  /\ TokensAt(bucket, t) = bucket.tokens
           /\ Allows(bucket, t) <=> bucket.tokens >= 1
  BY BucketAssumption DEF SweepAlone, TokensAt, Allows, Accrued, AtMost

LEMMA Restores ==
    ASSUME SweepAlone, NEW saved \in 0..Burst, NEW savedAt, NEW t
    PROVE  /\ Credit(saved, savedAt, t) = saved
           /\ RestoreBucket(saved, savedAt, t).tokens = saved
<1>1. Credit(saved, savedAt, t) = saved
  BY BucketAssumption DEF SweepAlone, Credit, Accrued, AtMost, AtLeast
<1> QED
  BY <1>1, BucketAssumption DEF SweepAlone, RestoreBucket

\* What is in the buckets, in the store and in hand.
LEMMA Amounts ==
    ASSUME TypeOK, TokensInBounds
    PROVE  /\ \A a \in Addresses : heap[a].bucket.tokens \in 0..Burst /\ heap[a].bucket \in Bucket
           /\ \A k \in Keys : /\ fair[k].tokens \in Int /\ fair[k].tokens <= Burst
                              /\ orphaned[k] \in Nat
                              /\ Content(store[k]) \in 0..Burst
           /\ Burst \in Nat
  BY HeapIsTyped, BucketAssumption DEF TypeOK, TokensInBounds, Bucket

LEMMA HeldIs ==
    ASSUME TypeOK, SweepAlone, TokensInBounds, NEW k \in Keys
    PROVE  /\ k \in Present => /\ keys[k] \in Addresses
                               /\ Held(k) = heap[keys[k]].bucket.tokens
           /\ k \notin Present => Held(k) = Content(store[k])
           /\ TokensAt(fair[k], now) = fair[k].tokens
<1>1. TokensAt(fair[k], now) = fair[k].tokens
  BY Amounts, Steady
<1>2. ASSUME k \in Present
      PROVE  keys[k] \in Addresses /\ Held(k) = heap[keys[k]].bucket.tokens
  <2>1. keys[k] \in Addresses
    BY <1>2 DEF Present, TypeOK
  <2>2. TokensAt(heap[keys[k]].bucket, now) = heap[keys[k]].bucket.tokens
    BY <2>1, Amounts, Steady
  <2> QED
    BY <1>2, <2>1, <2>2 DEF Held
<1>3. ASSUME k \notin Present PROVE Held(k) = Content(store[k])
  <2>1. CASE store[k] = NoState
    BY <1>3, <2>1 DEF Held, Content
  <2>2. CASE store[k] # NoState
    <3>1. store[k].tokens \in 0..Burst
      BY <2>2, Amounts DEF Content
    <3>2. Credit(store[k].tokens, store[k].lastUsed, now) = store[k].tokens
      BY <3>1, Restores
    <3> QED
      BY <1>3, <2>2, <3>2 DEF Held, Content
  <2> QED
    BY <2>1, <2>2
<1> QED
  BY <1>1, <1>2, <1>3

\* TokensConserved, in these terms.
Kept(k) ==
    (IF k \in Present THEN heap[keys[k]].bucket.tokens ELSE Content(store[k]))
        = fair[k].tokens + orphaned[k]

LEMMA ConservedIsKept ==
    TypeOK /\ SweepAlone /\ TokensInBounds => (TokensConserved <=> \A k \in Keys : Kept(k))
  BY HeldIs DEF TokensConserved, Kept

LEMMA ConservedNext ==
    ASSUME TypeOK', SweepAlone, TokensInBounds', \A k \in Keys : Kept(k)'
    PROVE  TokensConserved'
<1>1. SweepAlone'
  BY DEF SweepAlone
<1>2. (\A k \in Keys : Kept(k))'
  OBVIOUS
<1> QED
  BY <1>1, <1>2, ConservedIsKept, PTL

-----------------------------------------------------------------------------
(* A step that changes only what a request has in hand.                    *)

Sound == RegistryInv /\ SweepAlone /\ SweepSaves /\ SweepAccounts

LEMMA SoundIs ==
    ASSUME Sound
    PROVE  /\ Safe /\ TypeOK /\ SweepHolds /\ MapCounts /\ SweepAlone /\ SweepCollects
           /\ TokensInBounds /\ sweep.pc # "drop" /\ HandsAgree
           /\ TokensConserved /\ \A k \in Keys : Kept(k)
<1>1. Safe
  BY DEF Sound, Safe, SweepAlone
<1> QED
  BY <1>1, SafeIs, ConservedIsKept DEF Sound, SweepAccounts

LEMMA SameRestored ==
    ASSUME NEW k, AsRestored(k), UNCHANGED <<keys, heap, store, sweep>>,
           \A r \in Requests : req'[r].pc = "draw" => req'[r] = req[r]
    PROVE  AsRestored(k)'
  BY SamePending DEF AsRestored

LEMMA AskingKeeps ==
    ASSUME Sound, TypeOK', NEW r \in Requests, NEW x, req' = [req EXCEPT ![r] = x],
           UNCHANGED <<now, keys, heap, store, sweep, fair, orphaned>>,
           x.pc # "draw", Content(x.snap) \in 0..Burst,
           HandAgrees(r)'
    PROVE  SweepAccounts'
<1>1. \A s \in Requests : req'[s] = IF s = r THEN x ELSE req[s]
  BY SoundIs DEF TypeOK
<1>2. TokensInBounds'
  BY <1>1, SoundIs, SamePending DEF TokensInBounds, Addresses, Content
<1>3. HandsAgree'
  <2> SUFFICES ASSUME NEW s \in Requests, s # r PROVE HandAgrees(s)'
    BY DEF HandsAgree
  <2>1. HandAgrees(s) /\ req'[s] = req[s] /\ Present' = Present
    BY <1>1, SoundIs, SamePresent DEF HandsAgree
  <2>2. AsRestored(req[s].key) => AsRestored(req[s].key)'
    BY <1>1, SameRestored
  <2> QED
    BY <2>1, <2>2 DEF HandAgrees
<1>4. \A k \in Keys : Kept(k)'
  BY SoundIs, SamePresent DEF Kept
<1> QED
  BY <1>2, <1>3, <1>4, SoundIs, ConservedNext DEF SweepAccounts

-----------------------------------------------------------------------------
(* A step that changes only what the sweep has in hand.                    *)

LEMMA SweepingKeeps ==
    ASSUME Sound, TypeOK', UNCHANGED <<now, keys, heap, store, req, fair, orphaned>>,
           sweep'.pc # "drop",
           \A e \in Pending' :
               e \in Pending
               \/ (e.tokens = heap[keys[e.key]].bucket.tokens /\ e.tokens \in 0..Burst)
    PROVE  SweepAccounts'
<1>1. TokensInBounds'
  BY SoundIs DEF TokensInBounds, Addresses, Content
<1>2. \A k \in Keys : AsRestored(k) => AsRestored(k)'
  BY DEF AsRestored
<1>3. HandsAgree'
  <2> SUFFICES ASSUME NEW r \in Requests PROVE HandAgrees(r)'
    BY DEF HandsAgree
  <2>1. HandAgrees(r) /\ Present' = Present
    BY SoundIs, SamePresent DEF HandsAgree
  <2>2. req[r].key \in Present => req[r].key \in Keys
    BY DEF Present
  <2> QED
    BY <1>2, <2>1, <2>2 DEF HandAgrees
<1>4. \A k \in Keys : Kept(k)'
  BY SoundIs, SamePresent DEF Kept
<1> QED
  BY <1>1, <1>3, <1>4, SoundIs, ConservedNext DEF SweepAccounts

-----------------------------------------------------------------------------
(* The steps of a request before it has an entry.                          *)

LEMMA HandIs ==
    ASSUME Sound, NEW r \in Requests
    PROVE  /\ req[r] \in Asking /\ HandAgrees(r) /\ Content(req[r].snap) \in 0..Burst
           /\ req[r].pc # "idle" => /\ req[r].key \in Keys
                                    /\ req[r].at <= now /\ now <= req[r].at + Stall
           /\ req[r].at \in Nat /\ now \in Nat /\ Stall \in Nat
  BY SoundIs, AskedRecently DEF HandsAgree, TokensInBounds

LEMMA ArriveKeeps ==
    ASSUME Sound, TypeOK', NEW r \in Requests, NEW k \in Keys, Arrive(r, k)
    PROVE  SweepAccounts'
<1> DEFINE x == [NoRequest EXCEPT !.pc = "lookup", !.key = k, !.at = now]
<1>1. /\ req' = [req EXCEPT ![r] = x]
      /\ UNCHANGED <<now, keys, heap, store, sweep, fair, orphaned>>
  BY DEF Arrive, map, history
<1>2. x.pc = "lookup" /\ x.snap = NoState /\ x.at = now
  BY DEF NoRequest
<1>3. Content(x.snap) \in 0..Burst
  BY <1>2, SoundIs, Amounts DEF Content
<1>4. HandAgrees(r)'
  <2>1. req'[r].pc = "lookup"
    BY <1>1, <1>2, SoundIs DEF TypeOK
  <2> QED
    BY <2>1 DEF HandAgrees
<1> HIDE DEF x
<1> QED
  BY <1>1, <1>2, <1>3, <1>4, AskingKeeps

\* The map's entry for a key is nobody else's.
LEMMA GivenKeeps ==
    ASSUME Sound, TypeOK', NEW r \in Requests, req[r].pc # "idle", req[r].key \in Present,
           req' = Given(r, keys[req[r].key]),
           UNCHANGED <<now, keys, heap, store, sweep, fair, orphaned>>
    PROVE  SweepAccounts'
<1> DEFINE x == [req[r] EXCEPT !.pc = "touch", !.entry = keys[req[r].key], !.snap = NoState]
<1>1. req' = [req EXCEPT ![r] = x]
  BY DEF Given
<1>2. /\ x.pc = "touch" /\ x.snap = NoState /\ x.at = req[r].at /\ x.key = req[r].key
      /\ x.entry = keys[req[r].key]
  BY HandIs DEF Asking
<1>3. Content(x.snap) \in 0..Burst
  BY <1>2, SoundIs, Amounts DEF Content
<1>4. HandAgrees(r)'
  <2>1. req'[r] = x
    BY <1>1, SoundIs DEF TypeOK
  <2>2. ASSUME NEW j \in Keys, keys[j] = keys[req[r].key] PROVE j = req[r].key
    BY <2>2, SoundIs DEF MapCounts, KeysAreApart, Present
  <2> QED
    BY <1>2, <2>1, <2>2 DEF HandAgrees
<1> HIDE DEF x
<1> QED
  BY <1>1, <1>2, <1>3, <1>4, AskingKeeps

LEMMA LookupKeeps ==
    ASSUME Sound, TypeOK', NEW r \in Requests, Lookup(r)
    PROVE  SweepAccounts'
<1> DEFINE x == [req[r] EXCEPT !.pc = "load"]
<1>1. UNCHANGED <<now, keys, heap, store, sweep, fair, orphaned>> /\ req[r].pc = "lookup"
  BY DEF Lookup, map, history
<1>2. CASE req[r].key \in Present
  BY <1>1, <1>2, GivenKeeps DEF Lookup
<1>3. CASE req[r].key \notin Present
  <2>1. req' = [req EXCEPT ![r] = x]
    BY <1>3 DEF Lookup
  <2>2. x.pc = "load" /\ x.snap = req[r].snap /\ x.at = req[r].at /\ x.key = req[r].key
    BY HandIs DEF Asking
  <2>3. HandAgrees(r)'
    <3>1. req'[r] = x /\ Present' = Present
      BY <1>1, <2>1, SoundIs, SamePresent DEF TypeOK
    <3> QED
      BY <1>3, <2>2, <3>1 DEF HandAgrees
  <2> HIDE DEF x
  <2> QED
    BY <1>1, <2>1, <2>2, <2>3, HandIs, AskingKeeps
<1> QED
  BY <1>2, <1>3

LEMMA InsertLostKeeps ==
    ASSUME Sound, TypeOK', NEW r \in Requests, InsertLost(r)
    PROVE  SweepAccounts'
<1>1. /\ UNCHANGED <<now, keys, heap, store, sweep, fair, orphaned>>
      /\ req[r].pc = "insert" /\ req[r].key \in Present /\ req' = Given(r, keys[req[r].key])
  BY DEF InsertLost, map, history
<1> QED
  BY <1>1, GivenKeeps

LEMMA LoadKeeps ==
    ASSUME Sound, TypeOK', NEW r \in Requests, Load(r)
    PROVE  SweepAccounts'
<1> DEFINE k == req[r].key
           x == [req[r] EXCEPT !.pc = "insert", !.snap = store[k]]
<1>1. /\ UNCHANGED <<now, keys, heap, store, sweep, fair, orphaned>> /\ req[r].pc = "load"
      /\ req' = [req EXCEPT ![r] = x]
  BY SoundIs, Alone DEF Load, map, history
<1>2. x.pc = "insert" /\ x.snap = store[k] /\ x.at = req[r].at /\ x.key = k
  BY HandIs DEF Asking
<1>3. k \in Keys /\ Content(x.snap) \in 0..Burst
  BY <1>1, <1>2, HandIs, SoundIs DEF TokensInBounds
<1>4. HandAgrees(r)'
  <2>1. req'[r] = x /\ Present' = Present
    BY <1>1, SoundIs, SamePresent DEF TypeOK
  <2>2. \A s \in Requests : req'[s].pc = "draw" => req'[s] = req[s]
    BY <1>1, <1>2, SoundIs DEF TypeOK
  <2>3. AsRestored(k) => /\ AsRestored(k)'
                         /\ Content(store[k]) = heap[keys[k]].bucket.tokens
    BY <1>1, <2>2, SameRestored DEF AsRestored
  <2>4. k \in Present => heap[keys[k]].lastUsed >= req[r].at - Stall \/ AsRestored(k)
    BY <1>1, HandIs DEF HandAgrees
  <2> HIDE DEF x
  <2> QED
    BY <1>1, <1>2, <2>1, <2>3, <2>4 DEF HandAgrees
<1> HIDE DEF x
<1> QED
  BY <1>1, <1>2, <1>3, <1>4, HandIs, AskingKeeps

-----------------------------------------------------------------------------
(* The steps of the sweep that only read.                                  *)

\* With nothing new pending there is nothing to agree on.
LEMMA ReadingKeeps ==
    ASSUME Sound, TypeOK',
           \/ StartSweep \/ NextShard \/ ReportSweep
           \/ \E k \in Keys : ReadUsed(k)
    PROVE  SweepAccounts'
<1>1. UNCHANGED <<now, keys, heap, store, req, fair, orphaned>>
  BY DEF StartSweep, NextShard, ReportSweep, ReadUsed, map, history
<1>2. sweep \in Sweeping
  BY SoundIs, SweepIs
<1>3. ASSUME sweep'.pc \in {"scan", "read", "flush"}, sweep.pc = "scan",
             sweep'.expired = sweep.expired
      PROVE  Pending' = Pending
  BY <1>3 DEF Pending
<1>4. CASE StartSweep
  <2>1. sweep'.pc = "scan" /\ sweep'.expired = {}
    BY <1>4, SoundIs, Alone DEF StartSweep, NoSweep
  <2>2. Pending' = {}
    BY <2>1 DEF Pending
  <2> QED
    BY <1>1, <2>1, <2>2, SweepingKeeps
<1>5. CASE ReportSweep
  <2>1. sweep'.pc \in {"idle", "report"}
    BY <1>2, <1>5 DEF ReportSweep, Reporting, NoSweep, Sweeping
  <2>2. Pending' = {}
    BY <2>1 DEF Pending
  <2> QED
    BY <1>1, <2>1, <2>2, SweepingKeeps
<1>6. CASE \E k \in Keys : ReadUsed(k)
  <2>1. PICK k \in Keys : ReadUsed(k)
    BY <1>6
  <2>2. /\ sweep.pc = "scan" /\ sweep'.pc \in {"scan", "read"}
        /\ sweep'.expired = sweep.expired
    BY <1>2, <2>1 DEF ReadUsed, Sweeping
  <2> QED
    BY <1>1, <1>3, <2>2, SweepingKeeps
<1>7. CASE NextShard
  <2>1. sweep.pc = "scan"
    BY <1>7 DEF NextShard
  <2>2. CASE sweep' = [sweep EXCEPT !.shard = @ + 1, !.scan = InShard(sweep.shard + 1)]
    <3>1. sweep'.pc = "scan" /\ sweep'.expired = sweep.expired
      BY <1>2, <2>1, <2>2 DEF Sweeping
    <3> QED
      BY <1>1, <1>3, <2>1, <3>1, SweepingKeeps
  <2>3. CASE sweep' = [sweep EXCEPT !.pc = "flush", !.todo = sweep.expired]
    <3>1. sweep'.pc = "flush" /\ sweep'.expired = sweep.expired
      BY <1>2, <2>3 DEF Sweeping
    <3> QED
      BY <1>1, <1>3, <2>1, <3>1, SweepingKeeps
  <2>4. CASE sweep' = NoSweep
    <3>1. sweep'.pc = "idle" /\ Pending' = {}
      BY <2>4 DEF NoSweep, Pending
    <3> QED
      BY <1>1, <3>1, SweepingKeeps
  <2> QED
    BY <1>7, <2>2, <2>3, <2>4 DEF NextShard
<1> QED
  BY <1>4, <1>5, <1>6, <1>7

LEMMA ReadTokensKeeps ==
    ASSUME Sound, TypeOK', ReadTokens
    PROVE  SweepAccounts'
<1>a. PICK a : a = keys[sweep.key]
  OBVIOUS
<1>e. PICK e : e = [key |-> sweep.key, entry |-> a,
                    tokens |-> TokensAt(heap[a].bucket, sweep.at),
                    lastUsed |-> sweep.lastUsed]
  OBVIOUS
<1>1. /\ UNCHANGED <<now, keys, heap, store, req, fair, orphaned>>
      /\ sweep.pc = "read" /\ sweep.key \in InShard(sweep.shard)
  BY SoundIs DEF ReadTokens, map, history, SweepHolds
<1>2. sweep.key \in Keys /\ a \in Addresses /\ ShardOf[sweep.key] = sweep.shard
  BY <1>1, <1>a, SoundIs DEF InShard, Present, TypeOK
<1>3. /\ heap[a].bucket.tokens \in 0..Burst
      /\ TokensAt(heap[a].bucket, sweep.at) = heap[a].bucket.tokens
  BY <1>2, SoundIs, Amounts, Steady
<1>4. /\ sweep'.pc = "scan" /\ sweep'.expired = sweep.expired \cup {e}
      /\ sweep'.scan = sweep.scan /\ sweep'.at = sweep.at /\ sweep'.shard = sweep.shard
  BY <1>1, <1>a, <1>e, SweepIs DEF ReadTokens, Sweeping
<1>5. /\ e.key = sweep.key /\ e.entry = a /\ e.lastUsed = sweep.lastUsed
      /\ e.tokens = heap[a].bucket.tokens
  BY <1>3, <1>e
<1>6. Pending = sweep.expired /\ Pending' = Pending \cup {e}
  BY <1>1, <1>4 DEF Pending
<1>7. ASSUME NEW d \in Pending'
      PROVE  d \in Pending
             \/ (d.tokens = heap[keys[d.key]].bucket.tokens /\ d.tokens \in 0..Burst)
  BY <1>3, <1>5, <1>6, <1>7, <1>a
<1> QED
  BY <1>1, <1>4, <1>7, SweepingKeeps

-----------------------------------------------------------------------------
(* The steps of a request that has an entry.                               *)

LEMMA TouchKeeps ==
    ASSUME Sound, TypeOK', NEW r \in Requests, Touch(r)
    PROVE  SweepAccounts'
<1>a. PICK a : a = req[r].entry
  OBVIOUS
<1>1. /\ UNCHANGED <<now, keys, store, sweep, fair, orphaned>> /\ req[r].pc = "touch"
      /\ req' = [req EXCEPT ![r].pc = "draw"]
      /\ heap' = [heap EXCEPT ![a].lastUsed = req[r].at]
  BY <1>a DEF Touch, history
<1>2. a \in Addresses /\ Addresses' = Addresses
  <2>1. a \in Addresses
    BY <1>1, <1>a, SoundIs DEF TypeOK
  <2>2. Len(heap') = Len(heap)
    BY <1>1, <2>1, SoundIs, HeapIsTyped DEF Addresses
  <2> QED
    BY <2>1, <2>2 DEF Addresses
<1>3. \A x \in Addresses : /\ heap'[x].bucket = heap[x].bucket
                           /\ heap'[x].lastUsed = IF x = a THEN req[r].at ELSE heap[x].lastUsed
  BY <1>1, <1>2, SoundIs, HeapIsTyped DEF Addresses, Entries
<1>4. \A s \in Requests : /\ s # r => req'[s] = req[s]
                          /\ req'[s].at = req[s].at /\ req'[s].key = req[s].key
                          /\ req'[s].snap = req[s].snap /\ req'[s].entry = req[s].entry
                          /\ req'[s].pc = IF s = r THEN "draw" ELSE req[s].pc
  BY <1>1, SoundIs DEF TypeOK, Asking
<1>5. Pending' = Pending /\ Present' = Present
  BY <1>1, SamePending, SamePresent
<1>6. TokensInBounds'
  BY <1>1, <1>2, <1>3, <1>4, <1>5, SoundIs DEF TokensInBounds, Content
<1>7. HandsAgree'
  <2> SUFFICES ASSUME NEW s \in Requests PROVE HandAgrees(s)'
    BY DEF HandsAgree
  <2>k. PICK k : k = req[s].key
    OBVIOUS
  <2>1. HandAgrees(s) /\ req'[s].key = k
    BY <1>4, <2>k, HandIs
  <2>2. req[s].pc # "idle" => req[r].at >= req[s].at - Stall
    BY <1>1, SoundIs, Recently
  <2>3. ASSUME NEW x \in Addresses, req[s].pc # "idle", heap[x].lastUsed >= req[s].at - Stall
        PROVE  heap'[x].lastUsed >= req'[s].at - Stall
    BY <1>3, <1>4, <2>2, <2>3
  <2>4. ASSUME k \in Present
        PROVE  keys[k] \in Addresses
    BY <2>4, SoundIs DEF Present, TypeOK
  <2>5. ASSUME k \in Present, keys[k] # a, AsRestored(k)
        PROVE  AsRestored(k)' /\ heap'[keys[k]].bucket = heap[keys[k]].bucket
    <3>1. heap'[keys[k]].bucket = heap[keys[k]].bucket
      BY <1>3, <2>4, <2>5
    <3>2. ASSUME NEW t \in Requests, req'[t].pc = "draw" PROVE req'[t].entry # keys[k]
      BY <1>4, <1>a, <2>5, <3>2 DEF AsRestored
    <3> QED
      BY <1>1, <1>5, <2>5, <3>1, <3>2 DEF AsRestored
  <2>6. ASSUME k \in Present, keys[k] = a, req[s].pc # "idle"
        PROVE  heap'[keys[k]].lastUsed >= req'[s].at - Stall
    BY <1>2, <1>3, <1>4, <2>2, <2>6
  <2>7. req'[s].pc = "insert" /\ k \notin Present' => Content(req'[s].snap) = Content(store'[k])
    BY <1>1, <1>4, <1>5, <2>1, <2>k DEF HandAgrees, Content
  <2>8. ASSUME req'[s].pc \in {"load", "insert"}, k \in Present'
        PROVE  \/ heap'[keys'[k]].lastUsed >= req'[s].at - Stall
               \/ /\ AsRestored(k)'
                  /\ req'[s].pc = "insert" => Content(req'[s].snap) = heap'[keys'[k]].bucket.tokens
    <3>1. /\ req[s].pc = req'[s].pc /\ req[s].snap = req'[s].snap
          /\ k \in Present /\ keys'[k] = keys[k]
      BY <1>1, <1>4, <1>5, <2>8
    <3>2. CASE keys[k] = a
      BY <2>6, <2>8, <3>1, <3>2
    <3>3. CASE keys[k] # a /\ heap[keys[k]].lastUsed >= req[s].at - Stall
      BY <2>3, <2>4, <2>8, <3>1, <3>3
    <3>4. CASE /\ keys[k] # a /\ AsRestored(k)
               /\ req[s].pc = "insert" => Content(req[s].snap) = heap[keys[k]].bucket.tokens
      BY <2>5, <3>1, <3>4 DEF Content
    <3> QED
      BY <2>1, <2>k, <2>8, <3>1, <3>2, <3>3, <3>4 DEF HandAgrees
  <2>9. ASSUME req'[s].pc \in {"touch", "draw"}
        PROVE  \A j \in Keys : keys'[j] = req'[s].entry => j = k
    BY <1>1, <1>4, <2>1, <2>9, <2>k DEF HandAgrees
  <2> QED
    BY <2>1, <2>7, <2>8, <2>9 DEF HandAgrees
<1>8. \A k \in Keys : Kept(k)'
  <2> SUFFICES ASSUME NEW k \in Keys PROVE Kept(k)'
    OBVIOUS
  <2>1. Kept(k) /\ (k \in Present => keys[k] \in Addresses)
    BY SoundIs DEF Present, TypeOK
  <2> QED
    BY <1>1, <1>3, <1>5, <2>1 DEF Kept, Content
<1> QED
  BY <1>1, <1>6, <1>7, <1>8, SoundIs, ConservedNext DEF SweepAccounts

\* A draw: of the entry, of the fair bucket, and of nothing else.
LEMMA DrawIs ==
    ASSUME Sound, NEW r \in Requests, Draw(r)
    PROVE  LET a == req[r].entry
               k == req[r].key
           IN
           /\ UNCHANGED <<now, keys, store, sweep>> /\ req[r].pc = "draw"
           /\ req' = [req EXCEPT ![r] = NoRequest]
           /\ a \in Addresses /\ k \in Keys /\ Addresses' = Addresses
           /\ \A x \in Addresses : /\ heap'[x].lastUsed = heap[x].lastUsed
                                   /\ x # a => heap'[x] = heap[x]
           /\ \/ /\ heap[a].bucket.tokens >= 1
                 /\ heap'[a].bucket.tokens = heap[a].bucket.tokens - 1
                 /\ fair'[k].tokens = fair[k].tokens - 1
                 /\ orphaned'[k] = IF keys[k] = a THEN orphaned[k] ELSE orphaned[k] + 1
              \/ /\ heap'[a].bucket.tokens = heap[a].bucket.tokens
                 /\ fair'[k] = fair[k] /\ orphaned'[k] = orphaned[k]
           /\ \A j \in Keys \ {k} : fair'[j] = fair[j] /\ orphaned'[j] = orphaned[j]
<1>a. PICK a : a = req[r].entry
  OBVIOUS
<1>k. PICK k : k = req[r].key
  OBVIOUS
<1>b. PICK b : b = heap[a].bucket
  OBVIOUS
<1>1. /\ UNCHANGED <<now, keys, store, sweep>> /\ req[r].pc = "draw"
      /\ req' = [req EXCEPT ![r] = NoRequest]
      /\ heap' = [heap EXCEPT ![a].bucket = AllowAt(b, req[r].at)]
      /\ fair' = IF Allows(b, req[r].at)
                 THEN [fair EXCEPT ![k] = [tokens |-> TokensAt(fair[k], now) - 1, last |-> now]]
                 ELSE fair
      /\ orphaned' = IF Allows(b, req[r].at) /\ keys[k] # a
                     THEN [orphaned EXCEPT ![k] = @ + 1] ELSE orphaned
  BY <1>a, <1>k, <1>b DEF Draw
<1>2. a \in Addresses /\ k \in Keys
  BY <1>1, <1>a, <1>k, SoundIs DEF TypeOK
<1>3. Addresses' = Addresses
  <2>1. Len(heap') = Len(heap)
    BY <1>1, <1>2, SoundIs, HeapIsTyped DEF Addresses
  <2> QED
    BY <2>1 DEF Addresses
<1>4. \A x \in Addresses :
         /\ heap'[x].lastUsed = heap[x].lastUsed
         /\ x # a => heap'[x] = heap[x]
         /\ x = a => heap'[x].bucket = AllowAt(b, req[r].at)
  BY <1>1, <1>2, SoundIs, HeapIsTyped DEF Addresses, Entries
<1>5. b.tokens \in 0..Burst
  BY <1>2, <1>b, SoundIs, Amounts
<1>6. b.tokens \in Int /\ b.tokens <= Burst
  BY <1>5, SoundIs, Amounts
<1>7. TokensAt(b, req[r].at) = b.tokens /\ (Allows(b, req[r].at) <=> b.tokens >= 1)
  BY <1>6, SoundIs, Steady
<1>8. TokensAt(fair[k], now) = fair[k].tokens
  BY <1>2, SoundIs, Amounts, Steady
<1>9. \A j \in Keys \ {k} : fair'[j] = fair[j] /\ orphaned'[j] = orphaned[j]
  BY <1>1, SoundIs DEF TypeOK
<1>10. CASE b.tokens >= 1
  <2>1. AllowAt(b, req[r].at).tokens = b.tokens - 1
    BY <1>7, <1>10 DEF AllowAt
  <2>2. heap'[a].bucket.tokens = b.tokens - 1
    BY <1>2, <1>4, <2>1
  <2>3. fair'[k].tokens = fair[k].tokens - 1
    BY <1>1, <1>2, <1>7, <1>8, <1>10, SoundIs DEF TypeOK
  <2>4. orphaned'[k] = IF keys[k] = a THEN orphaned[k] ELSE orphaned[k] + 1
    BY <1>1, <1>2, <1>7, <1>10, SoundIs DEF TypeOK
  <2> QED
    BY <1>1, <1>2, <1>3, <1>4, <1>9, <1>10, <1>a, <1>k, <1>b, <2>2, <2>3, <2>4
<1>11. CASE ~(b.tokens >= 1)
  <2>1. heap'[a].bucket = b
    BY <1>2, <1>4, <1>7, <1>11 DEF AllowAt
  <2>2. fair' = fair /\ orphaned' = orphaned
    BY <1>1, <1>7, <1>11
  <2> QED
    BY <1>1, <1>2, <1>3, <1>4, <1>9, <1>11, <1>a, <1>k, <1>b, <2>1, <2>2
<1> QED
  BY <1>10, <1>11

LEMMA DrawKeeps ==
    ASSUME Sound, TypeOK', NEW r \in Requests, Draw(r)
    PROVE  SweepAccounts'
<1>a. PICK a : a = req[r].entry
  OBVIOUS
<1>k. PICK k : k = req[r].key
  OBVIOUS
<1>1. /\ UNCHANGED <<now, keys, store, sweep>> /\ req[r].pc = "draw"
      /\ req' = [req EXCEPT ![r] = NoRequest]
      /\ a \in Addresses /\ k \in Keys /\ Addresses' = Addresses
      /\ \A x \in Addresses : heap'[x].lastUsed = heap[x].lastUsed
      /\ \A x \in Addresses : x # a => heap'[x] = heap[x]
      /\ \A j \in Keys \ {k} : fair'[j] = fair[j] /\ orphaned'[j] = orphaned[j]
  BY <1>a, <1>k, DrawIs
<1>2. \/ /\ heap[a].bucket.tokens >= 1
         /\ heap'[a].bucket.tokens = heap[a].bucket.tokens - 1
         /\ fair'[k].tokens = fair[k].tokens - 1
         /\ orphaned'[k] = IF keys[k] = a THEN orphaned[k] ELSE orphaned[k] + 1
      \/ /\ heap'[a].bucket.tokens = heap[a].bucket.tokens
         /\ fair'[k] = fair[k] /\ orphaned'[k] = orphaned[k]
  BY <1>a, <1>k, DrawIs
<1>3. \A s \in Requests : req'[s] = IF s = r THEN NoRequest ELSE req[s]
  BY <1>1, SoundIs DEF TypeOK
<1>4. NoRequest.pc = "idle" /\ NoRequest.snap = NoState
  BY DEF NoRequest
<1>5. Pending' = Pending /\ Present' = Present
  BY <1>1, SamePending, SamePresent
<1>6. TokensInBounds'
  <2>1. \A x \in Addresses' : heap'[x].bucket.tokens \in 0..Burst
    BY <1>1, <1>2, SoundIs, Amounts
  <2>2. \A j \in Keys : fair'[j].tokens <= Burst
    BY <1>1, <1>2, SoundIs, Amounts
  <2>3. \A s \in Requests : Content(req'[s].snap) \in 0..Burst
    <3>1. Content(NoState) \in 0..Burst
      BY SoundIs, Amounts DEF Content
    <3> QED
      BY <1>3, <1>4, <3>1, HandIs
  <2> QED
    BY <1>1, <1>5, <2>1, <2>2, <2>3, SoundIs DEF TokensInBounds, Content
<1>7. HandsAgree'
  <2> SUFFICES ASSUME NEW s \in Requests, s # r PROVE HandAgrees(s)'
    BY <1>3, <1>4 DEF HandsAgree, HandAgrees
  <2>j. PICK j : j = req[s].key
    OBVIOUS
  <2>1. HandAgrees(s) /\ req'[s] = req[s]
    BY <1>3, HandIs
  <2>2. j \in Present => keys[j] \in Addresses
    BY SoundIs DEF Present, TypeOK
  <2>3. ASSUME j \in Present, AsRestored(j)
        PROVE  AsRestored(j)' /\ heap'[keys[j]] = heap[keys[j]]
    <3>1. keys[j] # a
      BY <1>1, <1>a, <2>3 DEF AsRestored
    <3>2. heap'[keys[j]] = heap[keys[j]]
      BY <1>1, <2>2, <2>3, <3>1
    <3>3. \A t \in Requests : req'[t].pc = "draw" => req'[t] = req[t]
      BY <1>3, <1>4
    <3> QED
      BY <1>1, <1>5, <2>3, <3>2, <3>3 DEF AsRestored
  <2>4. j \in Present => heap'[keys[j]].lastUsed = heap[keys[j]].lastUsed
    BY <1>1, <2>2
  <2> QED
    BY <1>1, <1>5, <2>j, <2>1, <2>3, <2>4 DEF HandAgrees
<1>8. \A j \in Keys : Kept(j)'
  <2> SUFFICES ASSUME NEW j \in Keys PROVE Kept(j)'
    OBVIOUS
  <2>1. Kept(j) /\ (j \in Present => keys[j] \in Addresses)
    BY SoundIs DEF Present, TypeOK
  <2>2. keys[j] = a => j = k
    BY <1>1, <1>a, <1>k, HandIs DEF HandAgrees
  <2>3. CASE j # k
    <3>1. j \in Present => heap'[keys[j]] = heap[keys[j]]
      BY <1>1, <2>1, <2>2, <2>3
    <3> QED
      BY <1>1, <1>5, <2>1, <2>3, <3>1 DEF Kept, Content
  <2>4. CASE j = k
    <3>0. /\ heap[a].bucket.tokens \in Int /\ fair[k].tokens \in Int /\ orphaned[k] \in Int
          /\ Content(store[k]) \in Int
      BY <1>1, SoundIs, Amounts
    <3>1. CASE k \in Present /\ keys[k] = a
      BY <1>1, <1>2, <1>5, <2>1, <2>4, <3>0, <3>1 DEF Kept
    <3>2. CASE k \in Present /\ keys[k] # a
      <4>1. heap'[keys[k]] = heap[keys[k]] /\ heap[keys[k]].bucket.tokens \in Int
        BY <1>1, <2>1, <2>4, <3>2, SoundIs, Amounts
      <4> QED
        BY <1>1, <1>2, <1>5, <2>1, <2>4, <3>0, <3>2, <4>1 DEF Kept
    <3>3. CASE k \notin Present
      <4>1. keys[k] # a
        BY <1>1, <3>3, RegistryAssumption DEF Present, Absent, Addresses
      <4> QED
        BY <1>1, <1>2, <1>5, <2>1, <2>4, <3>0, <3>3, <4>1 DEF Kept, Content
    <3> QED
      BY <3>1, <3>2, <3>3
  <2> QED
    BY <2>3, <2>4
<1> QED
  BY <1>1, <1>6, <1>7, <1>8, SoundIs, ConservedNext DEF SweepAccounts

\* A new entry holds what the key was saved with.
LEMMA InsertIs ==
    ASSUME Sound, NEW r \in Requests, Insert(r)
    PROVE  LET k == req[r].key
               n == Len(heap) + 1
           IN
           /\ UNCHANGED <<now, store, sweep, fair, orphaned>> /\ req[r].pc = "insert"
           /\ k \in Keys /\ k \notin Present /\ Len(heap) \in Nat
           /\ keys' = [keys EXCEPT ![k] = n]
           /\ req' = Given(r, n)
           /\ Addresses' = Addresses \cup {n} /\ n \notin Addresses /\ n # Absent
           /\ \A x \in Addresses : heap'[x] = heap[x]
           /\ heap'[n].bucket.tokens = Content(store[k])
<1>k. PICK k : k = req[r].key
  OBVIOUS
<1>n. PICK n : n = Len(heap) + 1
  OBVIOUS
<1>1. /\ UNCHANGED <<now, store, sweep, fair, orphaned>> /\ req[r].pc = "insert"
      /\ k \notin Present /\ keys' = [keys EXCEPT ![k] = n] /\ req' = Given(r, n)
      /\ heap' = Append(heap, NewEntry(req[r].snap))
  BY <1>k, <1>n DEF Insert, history
<1>2. k \in Keys /\ heap \in Seq(Entries) /\ Len(heap) \in Nat /\ NewEntry(req[r].snap) \in Entries
  BY <1>1, <1>k, SoundIs, HeapIsTyped, HandIs, NewEntryIsTyped DEF Asking
<1>3. /\ Len(heap') = n /\ heap'[n] = NewEntry(req[r].snap)
      /\ \A x \in Addresses : heap'[x] = heap[x]
  BY <1>1, <1>2, <1>n, AppendProperties DEF Addresses
<1>4. Addresses' = Addresses \cup {n} /\ n \notin Addresses /\ n # Absent
  BY <1>2, <1>3, <1>n DEF Addresses, Absent
<1>5. Content(req[r].snap) = Content(store[k])
  BY <1>1, <1>k, HandIs DEF HandAgrees
<1>6. NewEntry(req[r].snap).bucket.tokens = Content(req[r].snap)
  <2>1. CASE req[r].snap = NoState
    BY <2>1 DEF NewEntry, Content, NewBucket
  <2>2. CASE req[r].snap # NoState
    <3>1. req[r].snap.tokens \in 0..Burst
      BY <2>2, HandIs DEF Content
    <3>2. RestoreBucket(req[r].snap.tokens, req[r].snap.lastUsed, now).tokens = req[r].snap.tokens
      BY <3>1, SoundIs, Restores
    <3> QED
      BY <2>2, <3>2 DEF NewEntry, Content
  <2> QED
    BY <2>1, <2>2
<1> QED
  BY <1>1, <1>2, <1>3, <1>4, <1>5, <1>6, <1>k, <1>n

LEMMA InsertKeeps ==
    ASSUME Sound, TypeOK', NEW r \in Requests, Insert(r)
    PROVE  SweepAccounts'
<1>k. PICK k : k = req[r].key
  OBVIOUS
<1>n. PICK n : n = Len(heap) + 1
  OBVIOUS
<1>1. /\ UNCHANGED <<now, store, sweep, fair, orphaned>> /\ req[r].pc = "insert"
      /\ k \in Keys /\ k \notin Present
      /\ keys' = [keys EXCEPT ![k] = n]
      /\ req' = Given(r, n)
      /\ Addresses' = Addresses \cup {n} /\ n \notin Addresses /\ n # Absent
      /\ \A x \in Addresses : heap'[x] = heap[x]
      /\ heap'[n].bucket.tokens = Content(store[k])
  BY <1>k, <1>n, InsertIs
<1>2. /\ \A j \in Keys : keys'[j] = IF j = k THEN n ELSE keys[j]
      /\ \A j \in Present : keys[j] \in Addresses /\ j # k /\ j \in Keys
  BY <1>1, SoundIs DEF TypeOK, Present
<1>3. Present' = Present \cup {k}
  BY <1>1, <1>2 DEF Present
<1>4. /\ \A s \in Requests : s # r => req'[s] = req[s]
      /\ req'[r].pc = "touch" /\ req'[r].entry = n /\ req'[r].snap = NoState
      /\ req'[r].at = req[r].at /\ req'[r].key = k
  BY <1>1, <1>k, SoundIs DEF Given, TypeOK, Asking
<1>5. Pending' = Pending
  BY <1>1, SamePending
<1>6. TokensInBounds'
  <2>1. \A x \in Addresses' : heap'[x].bucket.tokens \in 0..Burst
    BY <1>1, SoundIs, Amounts
  <2>2. \A s \in Requests : Content(req'[s].snap) \in 0..Burst
    <3>1. Content(NoState) \in 0..Burst
      BY SoundIs, Amounts DEF Content
    <3> QED
      BY <1>4, <3>1, HandIs
  <2> QED
    BY <1>1, <1>5, <2>1, <2>2, SoundIs DEF TokensInBounds, Content
<1>7. \A e \in Pending : e.key \in Present /\ e.entry \in Addresses /\ e.key \in Keys
  BY SoundIs, PendingIs
<1>8. AsRestored(k)'
  <2>1. keys'[k] = n /\ heap'[n].bucket.tokens = Content(store'[k])
    BY <1>1, <1>2 DEF Content
  <2>2. ASSUME NEW s \in Requests, req'[s].pc = "draw" PROVE req'[s].entry # n
    <3>1. s # r /\ req[s].pc = "draw" /\ req'[s] = req[s]
      BY <1>4, <2>2
    <3>2. req[s].entry \in Addresses
      BY <3>1, SoundIs, Asked
    <3> QED
      BY <1>1, <3>1, <3>2
  <2>3. \A e \in Pending' : e.key # k
    BY <1>1, <1>5, <1>7
  <2> QED
    BY <2>1, <2>2, <2>3 DEF AsRestored
<1>9. HandsAgree'
  <2> SUFFICES ASSUME NEW s \in Requests PROVE HandAgrees(s)'
    BY DEF HandsAgree
  <2>1. CASE s = r
    <3>1. \A j \in Keys : keys'[j] = n => j = k
      BY <1>1, <1>2, SoundIs DEF TypeOK
    <3> QED
      BY <1>4, <2>1, <3>1 DEF HandAgrees
  <2>2. CASE s # r /\ req[s].key = k
    <3>1. HandAgrees(s) /\ req'[s] = req[s]
      BY <1>4, <2>2, HandIs
    <3>2. req[s].pc = "insert" => Content(req[s].snap) = heap'[keys'[k]].bucket.tokens
      BY <1>1, <1>2, <2>2, <3>1 DEF HandAgrees
    <3>3. ASSUME req[s].pc \in {"touch", "draw"}
          PROVE  \A j \in Keys : keys'[j] = req[s].entry => j = k
      BY <1>1, <1>2, <2>2, <3>1, <3>3 DEF HandAgrees
    <3> QED
      BY <1>3, <1>8, <2>2, <3>1, <3>2, <3>3 DEF HandAgrees, Content
  <2>3. CASE s # r /\ req[s].key # k
    <3>j. PICK j : j = req[s].key
      OBVIOUS
    <3>1. HandAgrees(s) /\ req'[s] = req[s]
      BY <1>4, <2>3, HandIs
    <3>2. ASSUME j \in Present
          PROVE  keys'[j] = keys[j] /\ heap'[keys[j]] = heap[keys[j]]
      BY <1>1, <1>2, <3>2
    <3>3. ASSUME j \in Present, AsRestored(j) PROVE AsRestored(j)'
      <4>1. \A t \in Requests : req'[t].pc = "draw" => req'[t] = req[t]
        BY <1>4
      <4> QED
        BY <1>1, <1>5, <3>2, <3>3, <4>1 DEF AsRestored, Content
    <3>4. ASSUME req[s].pc \in {"touch", "draw"}
          PROVE  \A i \in Keys : keys'[i] = req[s].entry => i = j
      <4>1. req[s].entry \in Addresses
        BY <3>4, SoundIs DEF TypeOK
      <4> QED
        BY <1>1, <1>2, <3>1, <3>4, <3>j, <4>1 DEF HandAgrees
    <3>5. j \in Present' <=> j \in Present
      BY <1>3, <2>3, <3>j
    <3> QED
      BY <1>1, <3>1, <3>2, <3>3, <3>4, <3>5, <3>j DEF HandAgrees, Content
  <2> QED
    BY <2>1, <2>2, <2>3
<1>10. \A j \in Keys : Kept(j)'
  <2> SUFFICES ASSUME NEW j \in Keys PROVE Kept(j)'
    OBVIOUS
  <2>1. Kept(j)
    BY SoundIs
  <2>2. CASE j = k
    BY <1>1, <1>2, <1>3, <2>1, <2>2 DEF Kept
  <2>3. CASE j # k
    <3>1. j \in Present => keys'[j] = keys[j] /\ heap'[keys[j]] = heap[keys[j]]
      BY <1>1, <1>2
    <3> QED
      BY <1>1, <1>3, <2>1, <2>3, <3>1 DEF Kept, Content
  <2> QED
    BY <2>2, <2>3
<1> QED
  BY <1>1, <1>6, <1>9, <1>10, SoundIs, ConservedNext DEF SweepAccounts

-----------------------------------------------------------------------------
(* The steps of the sweep that write and delete.                           *)

LEMMA FlushKeeps ==
    ASSUME Sound, TypeOK', FlushOne
    PROVE  SweepAccounts'
<1>1. /\ UNCHANGED <<now, keys, heap, req, fair, orphaned>> /\ Pending' = Pending
      /\ sweep'.pc \in {"flush", "delete"}
  BY SoundIs, FlushIs DEF FlushOne, history
<1>2. PICK e \in Pending :
         store' = [store EXCEPT ![e.key] = [tokens |-> e.tokens, lastUsed |-> e.lastUsed]]
  BY SoundIs, FlushIs
<1>3. /\ e.key \in Keys /\ e.key \in Present /\ e.tokens \in 0..Burst /\ e.tokens \in Int
      /\ e.lastUsed \in Int
  BY SoundIs, PendingIs DEF TokensInBounds
<1>4. /\ store'[e.key] = [tokens |-> e.tokens, lastUsed |-> e.lastUsed]
      /\ \A k \in Keys : k # e.key => store'[k] = store[k]
  BY <1>2, <1>3, SoundIs DEF TypeOK
<1>5. Content(store'[e.key]) = e.tokens
  BY <1>3, <1>4, RegistryAssumption DEF Content
<1>6. Present' = Present
  BY <1>1, SamePresent
<1>7. TokensInBounds'
  <2>1. \A k \in Keys : Content(store'[k]) \in 0..Burst
    <3> SUFFICES ASSUME NEW k \in Keys PROVE Content(store'[k]) \in 0..Burst
      OBVIOUS
    <3>1. CASE k = e.key
      BY <1>3, <1>5, <3>1
    <3>2. CASE k # e.key
      BY <1>4, <3>2, SoundIs, Amounts
    <3> QED
      BY <3>1, <3>2
  <2> QED
    BY <1>1, <1>6, <2>1, SoundIs DEF TokensInBounds, Addresses, Content
<1>8. HandsAgree'
  <2> SUFFICES ASSUME NEW r \in Requests PROVE HandAgrees(r)'
    BY DEF HandsAgree
  <2>k. PICK k : k = req[r].key
    OBVIOUS
  <2>1. HandAgrees(r)
    BY HandIs
  <2>2. req[r].pc = "insert" /\ k \notin Present => Content(store'[k]) = Content(store[k])
    BY <1>3, <1>4, <2>k, HandIs DEF Content
  <2>3. ASSUME k \in Present, AsRestored(k) PROVE AsRestored(k)'
    <3>1. k \in Keys
      BY <2>3 DEF Present
    <3>2. Content(store'[k]) = heap[keys[k]].bucket.tokens
      <4>1. CASE k = e.key
        BY <1>2, <1>5, <2>3, <4>1 DEF AsRestored
      <4>2. CASE k # e.key
        BY <1>4, <2>3, <3>1, <4>2 DEF AsRestored
      <4> QED
        BY <4>1, <4>2
    <3> QED
      BY <1>1, <1>6, <2>3, <3>2 DEF AsRestored, Content
  <2> QED
    BY <1>1, <1>6, <2>k, <2>1, <2>2, <2>3 DEF HandAgrees, Content
<1>9. \A k \in Keys : Kept(k)'
  <2> SUFFICES ASSUME NEW k \in Keys PROVE Kept(k)'
    OBVIOUS
  <2>1. Kept(k) /\ (k \notin Present => store'[k] = store[k])
    BY <1>3, <1>4, SoundIs
  <2> QED
    BY <1>1, <1>6, <2>1 DEF Kept, Content
<1> QED
  BY <1>1, <1>7, <1>8, <1>9, SoundIs, ConservedNext DEF SweepAccounts

\* What is deleted was saved with what it holds.
LEMMA DeletedIsKept ==
    ASSUME Sound, sweep.pc = "delete", NEW e \in Pending, StillExpired(e)
    PROVE  /\ Content(store[e.key]) = e.tokens /\ keys[e.key] = e.entry
           /\ heap[e.entry].bucket.tokens = e.tokens /\ heap[e.entry].lastUsed = e.lastUsed
<1>1. /\ store[e.key] = [tokens |-> e.tokens, lastUsed |-> e.lastUsed]
      /\ keys[e.key] = e.entry /\ TokensAt(heap[e.entry].bucket, sweep.at) = e.tokens
      /\ heap[e.entry].lastUsed = e.lastUsed
  BY SoundIs, DeletedIsSaved
<1>2. e.entry \in Addresses /\ e.tokens \in Int /\ e.lastUsed \in Int
  BY SoundIs, PendingIs
<1>3. heap[e.entry].bucket.tokens = e.tokens
  BY <1>1, <1>2, SoundIs, Amounts, Steady
<1>4. Content(store[e.key]) = e.tokens
  BY <1>1, <1>2, RegistryAssumption DEF Content
<1> QED
  BY <1>1, <1>3, <1>4

LEMMA DeleteKeeps ==
    ASSUME Sound, TypeOK', DeleteOne
    PROVE  SweepAccounts'
<1>1. /\ UNCHANGED <<now, heap, store, req, fair, orphaned>> /\ sweep.pc = "delete"
      /\ sweep'.pc \in {"delete", "idle", "report"}
  BY SoundIs, DeleteIs DEF DeleteOne, history
<1>2. PICK e \in Pending : /\ \/ ~StillExpired(e) /\ keys' = keys
                              \/ StillExpired(e) /\ keys' = [keys EXCEPT ![e.key] = Absent]
                           /\ Pending' \subseteq Pending \ {e}
  BY SoundIs, DeleteIs
<1>3. /\ \A k \in Keys : k # e.key => keys'[k] = keys[k]
      /\ keys'[e.key] = keys[e.key] \/ (keys'[e.key] = Absent /\ StillExpired(e))
      /\ e.key \in Keys
  BY <1>2, SoundIs, PendingIs DEF TypeOK
<1>4. /\ \A k \in Keys : k # e.key => (k \in Present' <=> k \in Present)
      /\ Present' \subseteq Present
      /\ \A k \in Present' : keys'[k] = keys[k]
      /\ e.key \in Present
      /\ e.key \notin Present' => StillExpired(e)
  BY <1>3, SoundIs, PendingIs DEF Present
<1>5. TokensInBounds'
  BY <1>1, <1>2, SoundIs DEF TokensInBounds, Addresses, Content
<1>6. HandsAgree'
  <2> SUFFICES ASSUME NEW r \in Requests PROVE HandAgrees(r)'
    BY DEF HandsAgree
  <2>k. PICK k : k = req[r].key
    OBVIOUS
  <2>1. HandAgrees(r)
    BY HandIs
  <2>2. ASSUME req[r].pc = "insert", k \notin Present'
        PROVE  Content(req[r].snap) = Content(store[k])
    <3>1. CASE k \notin Present
      BY <2>1, <2>2, <2>k, <3>1 DEF HandAgrees
    <3>2. CASE k \in Present
      <4>1. k = e.key /\ StillExpired(e)
        BY <1>4, <2>2, <3>2 DEF Present
      <4>2. /\ Content(store[k]) = e.tokens /\ keys[k] = e.entry
            /\ heap[keys[k]].bucket.tokens = e.tokens /\ heap[keys[k]].lastUsed = e.lastUsed
        BY <1>1, <4>1, DeletedIsKept
      <4>3. ~(heap[keys[k]].lastUsed >= req[r].at - Stall)
        <5>1. e.lastUsed < req[r].at - Stall /\ e.lastUsed \in Int
          BY <2>2, SoundIs, Recently
        <5> QED
          BY <4>2, <5>1, HandIs
      <4> QED
        BY <2>1, <2>2, <2>k, <3>2, <4>2, <4>3 DEF HandAgrees
    <3> QED
      BY <3>1, <3>2
  <2>3. ASSUME k \in Present', AsRestored(k) PROVE AsRestored(k)'
    BY <1>1, <1>2, <1>4, <2>3 DEF AsRestored
  <2>4. ASSUME req[r].pc \in {"touch", "draw"}
        PROVE  \A j \in Keys : keys'[j] = req[r].entry => j = k
    <3>1. req[r].entry # Absent
      BY <2>4, SoundIs, Asked DEF Addresses, Absent
    <3> QED
      BY <1>3, <2>1, <2>4, <2>k, <3>1 DEF HandAgrees
  <2>5. k \in Present' => k \in Present /\ keys'[k] = keys[k]
    BY <1>4
  <2> QED
    BY <1>1, <2>k, <2>1, <2>2, <2>3, <2>4, <2>5 DEF HandAgrees, Content
<1>7. \A k \in Keys : Kept(k)'
  <2> SUFFICES ASSUME NEW k \in Keys PROVE Kept(k)'
    OBVIOUS
  <2>1. Kept(k)
    BY SoundIs
  <2>2. CASE k \in Present' \/ k \notin Present
    <3>1. (k \in Present' <=> k \in Present) /\ (k \in Present => keys'[k] = keys[k])
      BY <1>4, <2>2
    <3> QED
      BY <1>1, <2>1, <3>1 DEF Kept, Content
  <2>3. CASE k \notin Present' /\ k \in Present
    <3>1. k = e.key /\ StillExpired(e)
      BY <1>4, <2>3
    <3>2. Content(store[k]) = heap[keys[k]].bucket.tokens
      BY <1>1, <3>1, DeletedIsKept
    <3> QED
      BY <1>1, <2>1, <2>3, <3>2 DEF Kept, Content
  <2> QED
    BY <2>2, <2>3
<1> QED
  BY <1>1, <1>5, <1>6, <1>7, SoundIs, ConservedNext DEF SweepAccounts

-----------------------------------------------------------------------------
(* The teardown, the clock, and the rest.                                  *)

LEMMA TeardownKeeps ==
    ASSUME Sound, TypeOK', Teardown
    PROVE  SweepAccounts'
<1>1. /\ UNCHANGED <<now, heap, req, sweep, fair, orphaned>>
      /\ \A r \in Requests : req[r].pc = "idle"
      /\ sweep.pc = "idle"
      /\ keys' = [k \in Keys |-> Absent]
  BY DEF Teardown, Quiet, history
<1>2. Present' = {} /\ Pending' = {}
  BY <1>1 DEF Present, Pending
<1>3. ASSUME NEW k \in Keys
      PROVE  Content(store'[k]) = fair[k].tokens + orphaned[k] /\ Content(store'[k]) \in 0..Burst
  <2>1. Kept(k) /\ (k \in Present => keys[k] \in Addresses)
    BY SoundIs DEF Present, TypeOK
  <2>2. CASE k \notin Present
    <3>1. store'[k] = store[k]
      BY <2>2 DEF Teardown
    <3> QED
      BY <2>1, <2>2, <3>1, SoundIs, Amounts DEF Kept
  <2>3. CASE k \in Present
    <3>a. PICK a \in Addresses : a = keys[k]
      BY <2>1, <2>3
    <3>1. store'[k] = [tokens |-> TokensAt(heap[a].bucket, now), lastUsed |-> heap[a].lastUsed]
      BY <2>3, <3>a, SoundIs, Alone DEF Teardown
    <3>2. heap[a].bucket.tokens \in 0..Burst /\ heap[a].lastUsed \in Int
      BY SoundIs, Amounts, HeapIsTyped
    <3>3. heap[a].bucket.tokens \in Int /\ heap[a].bucket.tokens <= Burst
      BY <3>2, SoundIs, Amounts
    <3>4. TokensAt(heap[a].bucket, now) = heap[a].bucket.tokens
      BY <3>3, SoundIs, Steady
    <3>5. store'[k] # NoState /\ store'[k].tokens = heap[a].bucket.tokens
      BY <3>1, <3>2, <3>3, <3>4, RegistryAssumption
    <3> QED
      BY <2>1, <2>3, <3>a, <3>2, <3>5 DEF Kept, Content
  <2> QED
    BY <2>2, <2>3
<1>4. TokensInBounds'
  BY <1>1, <1>2, <1>3, SoundIs DEF TokensInBounds, Addresses, Content
<1>5. HandsAgree'
  BY <1>1 DEF HandsAgree, HandAgrees
<1>6. \A k \in Keys : Kept(k)'
  BY <1>1, <1>2, <1>3 DEF Kept, Content
<1> QED
  BY <1>1, <1>4, <1>5, <1>6, SoundIs, ConservedNext DEF SweepAccounts

\* Time passes, or nothing does.
LEMMA ClockKeeps ==
    ASSUME Sound, TypeOK', UNCHANGED <<keys, heap, store, req, sweep, fair, orphaned>>
    PROVE  SweepAccounts'
<1>1. Present' = Present /\ Pending' = Pending
  BY SamePresent, SamePending
<1>2. TokensInBounds'
  BY <1>1, SoundIs DEF TokensInBounds, Addresses, Content
<1>3. HandsAgree'
  <2> SUFFICES ASSUME NEW r \in Requests PROVE HandAgrees(r)'
    BY DEF HandsAgree
  <2>1. HandAgrees(r) /\ (AsRestored(req[r].key) => AsRestored(req[r].key)')
    BY HandIs, SameRestored
  <2> QED
    BY <1>1, <2>1 DEF HandAgrees
<1>4. \A k \in Keys : Kept(k)'
  BY <1>1, SoundIs DEF Kept
<1> QED
  BY <1>2, <1>3, <1>4, SoundIs, ConservedNext DEF SweepAccounts

LEMMA SweepStarts == Init /\ SweepAlone => SweepAccounts
<1> SUFFICES ASSUME Init, SweepAlone PROVE SweepAccounts
  OBVIOUS
<1>1. TypeOK
  BY RegistryInit DEF RegistryInv
<1>2. Addresses = {} /\ Present = {} /\ Pending = {}
  BY DEF Init, Addresses, Present, Pending, NoSweep
<1>3. Content(NoState) = Burst /\ Burst \in 0..Burst
  BY BucketAssumption DEF Content
<1>4. TokensInBounds
  BY <1>2, <1>3 DEF TokensInBounds, Init, NoRequest, NewBucket
<1>5. HandsAgree /\ sweep.pc # "drop"
  BY DEF Init, HandsAgree, HandAgrees, NoRequest, NoSweep
<1>6. \A k \in Keys : Kept(k)
  BY <1>2, <1>3, BucketAssumption DEF Kept, Init, NewBucket
<1> QED
  BY <1>1, <1>4, <1>5, <1>6, ConservedIsKept DEF SweepAccounts

LEMMA SweepKeeps ==
    ASSUME Sound, TypeOK', [Next]_vars
    PROVE  SweepAccounts'
<1>1. CASE UNCHANGED vars
  BY <1>1, ClockKeeps DEF vars, map, history
<1>2. CASE Tick
  BY <1>2, ClockKeeps DEF Tick, map, history
<1>3. ASSUME NEW r \in Requests, RequestStep(r) \/ \E k \in Keys : Arrive(r, k)
      PROVE  SweepAccounts'
  BY <1>3, ArriveKeeps, LookupKeeps, LoadKeeps, InsertLostKeeps, InsertKeeps, TouchKeeps,
     DrawKeeps DEF RequestStep
<1>4. CASE SweepStep
  <2>1. ~DropIdle
    BY SoundIs DEF DropIdle
  <2> QED
    BY <1>4, <2>1, ReadingKeeps, ReadTokensKeeps, FlushKeeps, DeleteKeeps DEF SweepStep
<1>5. Evictors = {}
  BY SoundIs, Alone
<1> QED
  BY <1>1, <1>2, <1>3, <1>4, <1>5, TeardownKeeps DEF Next

-----------------------------------------------------------------------------
(* What the sweep keeps.                                                   *)

\* The registry and its sweep (registry/gc.go Sweep, registry/registry.go
\* GetOrCreate).  As long as no save fails, nobody calls Evict, and no request takes
\* longer than half the idle expiry from reading the clock to drawing: what was
\* collected is still in the map, and what was written of it is what it holds unless
\* it was used since, whether buckets refill or not.  Where besides there is a store
\* and nothing accrues (limiter/quota.go:29), a request's snapshot is never out of
\* date and no token is lost.
THEOREM SweepInvariant == Spec => []SweepInv
<1>1. Init => SweepInv
  BY RegistryInit, SavesStart, SweepStarts DEF SweepInv
<1>2. SweepInv /\ [Next]_vars => SweepInv'
  <2> SUFFICES ASSUME SweepInv, [Next]_vars PROVE SweepInv'
    OBVIOUS
  <2>1. RegistryInv' /\ TypeOK'
    BY RegistryStep DEF SweepInv, RegistryInv
  <2>2. ASSUME SweepUndisturbed PROVE SweepSaves'
    BY <2>1, <2>2, SavesStep DEF SweepInv, Safe
  <2>3. ASSUME SweepAlone PROVE SweepAccounts'
    <3>1. Sound
      BY <2>3 DEF SweepInv, Sound, SweepAlone
    <3> QED
      BY <2>1, <3>1, SweepKeeps
  <2>4. (SweepAlone' <=> SweepAlone) /\ (SweepUndisturbed' <=> SweepUndisturbed)
    BY DEF SweepAlone, SweepUndisturbed
  <2> QED
    BY <2>1, <2>2, <2>3, <2>4 DEF SweepInv
<1> QED
  BY <1>1, <1>2, PTL DEF Spec

\* "so nothing is lost" (registry/gc.go:168): what a key holds, in memory or in
\* the store, is its burst less everything it was granted, but for tokens drawn
\* from entries the sweep had just let go of; for any requests and keys that race
\* the sweep.  Under every hypothesis of SweepAlone: a store that never fails,
\* nobody calling Evict, requests that last at most half the idle expiry, and
\* buckets that accrue nothing meanwhile (a rate of 0, limiter/quota.go:29).  Where
\* they do refill it is false of the code: a restored bucket refills from lastUsed
\* (registry/registry.go:322), which is what RestoredExactly shows.
THEOREM TokensForAll ==
    ASSUME SweepAlone
    PROVE  Spec => []TokensConserved
<1>1. SweepInv => TokensConserved
  BY DEF SweepInv, SweepAccounts
<1> QED
  BY <1>1, SweepInvariant, PTL

==============================================================================
