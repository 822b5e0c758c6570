---------------------------- MODULE RegistryProofs ----------------------------
(***************************************************************************)
(* The registry proved for any number of keys, shards, requests and        *)
(* evictions, whatever the store does: the entry a request has in hand is  *)
(* its key's or was let go, each shard's counter is the size of its map,   *)
(* and every entry ever made is in the map, counted as an eviction, on its *)
(* way to being counted, or lost to the count by an Evict that failed.     *)
(***************************************************************************)
EXTENDS Registry, FiniteSetTheorems, SequenceTheorems, WellFoundedInduction, TLAPS

-----------------------------------------------------------------------------
(* The data: buckets and entries.                                          *)

Entries == [bucket : Bucket, lastUsed : Int]

LEMMA Times == MaxTime \in Nat /\ \A t \in 0..MaxTime : t \in Nat
  BY RegistryAssumption

LEMMA TokensAreInt ==
    ASSUME NEW b \in Bucket, NEW t \in Int
    PROVE  TokensAt(b, t) \in Int
  BY BucketAssumption DEF TokensAt, AtMost, Accrued, AtLeast, Bucket

LEMMA FullIsABucket == NewBucket \in Bucket
  BY BucketAssumption DEF NewBucket, Bucket

LEMMA AllowIsABucket ==
    ASSUME NEW b \in Bucket, NEW t \in Int
    PROVE  AllowAt(b, t) \in Bucket
  BY TokensAreInt DEF AllowAt, Bucket

LEMMA RestoredIsABucket ==
    ASSUME NEW saved \in Int, NEW savedAt \in Int, NEW t \in Int
    PROVE  RestoreBucket(saved, savedAt, t) \in Bucket
<1>1. Credit(saved, savedAt, t) \in Int
  BY BucketAssumption DEF Credit, AtLeast, AtMost, Accrued
<1> QED
  BY <1>1 DEF RestoreBucket, Bucket

LEMMA NewEntryIsTyped ==
    ASSUME TypeOK, NEW snap \in States
    PROVE  NewEntry(snap) \in Entries
<1>1. now \in Int
  BY Times DEF TypeOK
<1> QED
  BY <1>1, FullIsABucket, RestoredIsABucket DEF NewEntry, Entries, States

-----------------------------------------------------------------------------
(* The heap.                                                               *)

LEMMA HeapIsTyped ==
    ASSUME TypeOK
    PROVE  /\ heap \in Seq(Entries) /\ Len(heap) \in Nat
           /\ \A e \in Addresses : /\ heap[e] \in Entries
                                   /\ heap[e].bucket \in Bucket /\ heap[e].lastUsed \in Int
<1>1. heap \in Seq(Entries)
  BY DEF TypeOK, Entries
<1>2. \A e \in Addresses : heap[e] \in Entries
  BY <1>1, ElementOfSeq DEF Addresses
<1> QED
  BY <1>1, <1>2, LenProperties DEF Entries

LEMMA EntryChanges ==
    ASSUME TypeOK, NEW e \in Addresses, NEW n \in Entries, heap' = [heap EXCEPT ![e] = n]
    PROVE  heap' \in Seq(Entries) /\ Len(heap') = Len(heap)
  BY HeapIsTyped, ExceptSeq DEF Addresses

LEMMA EntryAdded ==
    ASSUME TypeOK, NEW n \in Entries, heap' = Append(heap, n)
    PROVE  heap' \in Seq(Entries) /\ Len(heap') = Len(heap) + 1
  BY HeapIsTyped, AppendProperties

LEMMA Asked ==
    ASSUME TypeOK, NEW r \in Requests
    PROVE  /\ req[r].at \in Nat /\ req[r].snap \in States
           /\ req[r].pc # "idle" => req[r].key \in Keys
           /\ req[r].pc \in {"touch", "draw"} => req[r].entry \in Addresses
  BY DEF TypeOK, Asking

\* An entry is added by Insert alone, and none ever goes.
LEMMA HeapStep ==
    ASSUME TypeOK, [Next]_vars
    PROVE  /\ heap' \in Seq(Entries)
           /\ \/ Len(heap') = Len(heap)
              \/ Len(heap') = Len(heap) + 1 /\ \E r \in Requests : Insert(r)
<1>1. CASE UNCHANGED heap
  BY <1>1, HeapIsTyped
<1>2. ASSUME NEW r \in Requests, Insert(r)
      PROVE  heap' \in Seq(Entries) /\ Len(heap') = Len(heap) + 1
  BY <1>2, Asked, NewEntryIsTyped, EntryAdded DEF Insert
<1>3. ASSUME NEW r \in Requests, Touch(r)
      PROVE  heap' \in Seq(Entries) /\ Len(heap') = Len(heap)
  <2> DEFINE e == req[r].entry
             n == [heap[e] EXCEPT !.lastUsed = req[r].at]
  <2>1. e \in Addresses /\ heap[e] \in Entries /\ req[r].at \in Int
    BY <1>3, Asked, HeapIsTyped DEF Touch
  <2>2. n \in Entries /\ heap' = [heap EXCEPT ![e] = n]
    BY <1>3, <2>1 DEF Touch, Entries
  <2> QED
    BY <2>1, <2>2, EntryChanges
<1>4. ASSUME NEW r \in Requests, Draw(r)
      PROVE  heap' \in Seq(Entries) /\ Len(heap') = Len(heap)
  <2> DEFINE e == req[r].entry
             n == [heap[e] EXCEPT !.bucket = AllowAt(heap[e].bucket, req[r].at)]
  <2>1. e \in Addresses /\ heap[e] \in Entries /\ heap[e].bucket \in Bucket /\ req[r].at \in Int
    BY <1>4, Asked, HeapIsTyped DEF Draw
  <2>2. AllowAt(heap[e].bucket, req[r].at) \in Bucket
    BY <2>1, AllowIsABucket
  <2>3. n \in Entries /\ heap' = [heap EXCEPT ![e] = n]
    BY <1>4, <2>1, <2>2 DEF Draw, Entries
  <2> QED
    BY <2>1, <2>3, EntryChanges
<1> QED
  BY <1>1, <1>2, <1>3, <1>4
     DEF Next, RequestStep, Arrive, Lookup, Load, InsertLost, SweepStep, StartSweep, ReadUsed,
         ReadTokens, NextShard, FlushOne, DeleteOne, DropIdle, ReportSweep, EvictStep,
         EvictReadTokens, EvictReadUsed, EvictSave, EvictSaveFails, EvictReport, EvictDelete,
         Teardown, Tick, map, vars

LEMMA AddressesGrow ==
    ASSUME TypeOK, [Next]_vars
    PROVE  /\ Len(heap) \in Nat /\ Len(heap') \in Nat /\ Len(heap) <= Len(heap')
           /\ Addresses \subseteq Addresses'
           /\ Asking \subseteq Asking' /\ Found \subseteq Found'
           /\ Sweeping \subseteq Sweeping' /\ Evicting \subseteq Evicting'
<1>1. Len(heap) \in Nat /\ Len(heap') \in Nat /\ Len(heap) <= Len(heap')
  BY HeapStep, HeapIsTyped
<1>2. Addresses \subseteq Addresses'
  BY <1>1 DEF Addresses
<1>3. Found \subseteq Found'
  BY <1>2 DEF Found
<1>4. Asking \subseteq Asking' /\ Evicting \subseteq Evicting'
  BY <1>2 DEF Asking, Evicting
<1>5. Sweeping \subseteq Sweeping'
  BY <1>3 DEF Sweeping
<1> QED
  BY <1>1, <1>2, <1>3, <1>4, <1>5

-----------------------------------------------------------------------------
(* The map: what each change of it does to the shards and their counters.  *)

\* What OneLiveEntry and KeysAreApart say of the map alone ...
MapCounts ==
    /\ KeysAreApart
    /\ \A s \in Shards : live[s] = Cardinality(InShard(s))

\* ... and the rest of OneLiveEntry: of the entries, and of the requests.
NoneOverwritten == {keys[k] : k \in Present} = Addresses \ letGo

HandsHold ==
    \A r \in Requests : req[r].pc \in {"touch", "draw"} =>
        req[r].entry \in letGo \cup {keys[req[r].key]}

LEMMA Counts ==
    OneLiveEntry /\ KeysAreApart <=> MapCounts /\ NoneOverwritten /\ HandsHold
  BY DEF OneLiveEntry, MapCounts, NoneOverwritten, HandsHold

LEMMA KeysAreFinite ==
    /\ IsFiniteSet(Present) /\ Cardinality(Present) \in Nat
    /\ \A s : IsFiniteSet(InShard(s)) /\ Cardinality(InShard(s)) \in Nat
<1>1. Present \subseteq Keys /\ \A s : InShard(s) \subseteq Keys
  BY DEF Present, InShard
<1> QED
  BY <1>1, RegistryAssumption, FS_Subset, FS_CardinalityType

LEMMA ForgetLeaves ==
    ASSUME TypeOK, MapCounts, NEW S \in SUBSET Present, Forget(S)
    PROVE  /\ keys' \in [Keys -> {Absent} \cup Addresses]
           /\ live' \in [Shards -> Nat]
           /\ Present' = Present \ S /\ \A s : InShard(s)' = InShard(s) \ S
           /\ Cardinality(Present) = Cardinality(Present') + Cardinality(S)
           /\ Cardinality(S) \in Nat /\ Cardinality(Present') \in Nat
           /\ MapCounts'
<1>1. /\ keys' \in [Keys -> {Absent} \cup Addresses]
      /\ \A k \in Keys : keys'[k] = IF k \in S THEN Absent ELSE keys[k]
  BY DEF Forget, TypeOK
<1>2. Present' = Present \ S /\ \A s : InShard(s)' = InShard(s) \ S
  BY <1>1 DEF Present, InShard
<1>3. IsFiniteSet(S) /\ Cardinality(S) \in Nat
  BY KeysAreFinite, FS_Subset, FS_CardinalityType
<1>4. Present \cap S = S /\ \A s : InShard(s) \cap S = {k \in S : ShardOf[k] = s}
  BY DEF InShard
<1>5. /\ Cardinality(Present \ S) = Cardinality(Present) - Cardinality(S)
      /\ Cardinality(Present \ S) \in Nat
  BY <1>4, KeysAreFinite, FS_Difference, FS_CardinalityType
<1>6. ASSUME NEW s \in Shards
      PROVE  /\ live'[s] = Cardinality(InShard(s)')
             /\ live'[s] \in Nat
  <2>1. live'[s] = live[s] - Cardinality(InShard(s) \cap S)
    BY <1>4, <1>6 DEF Forget
  <2>2. /\ Cardinality(InShard(s) \ S) = Cardinality(InShard(s)) - Cardinality(InShard(s) \cap S)
        /\ Cardinality(InShard(s) \ S) \in Nat
    BY KeysAreFinite, FS_Difference, FS_CardinalityType
  <2>3. live[s] = Cardinality(InShard(s))
    BY <1>6 DEF MapCounts, KeysAreApart
  <2> QED
    BY <1>2, <2>1, <2>2, <2>3
<1>7. live' \in [Shards -> Nat]
  BY <1>6 DEF Forget
<1>8. MapCounts'
  <2>1. ASSUME NEW j \in Present', NEW k \in Present', keys'[j] = keys'[k] PROVE j = k
    BY <1>1, <1>2, <2>1 DEF MapCounts, KeysAreApart, Present
  <2> QED
    BY <1>6, <2>1 DEF MapCounts, KeysAreApart
<1> QED
  BY <1>1, <1>2, <1>3, <1>5, <1>7, <1>8, KeysAreFinite

LEMMA InsertAdds ==
    ASSUME TypeOK, MapCounts, NEW r \in Requests, Insert(r)
    PROVE  /\ keys' \in [Keys -> {Absent} \cup Addresses']
           /\ live' \in [Shards -> Nat]
           /\ Present' = Present \cup {req[r].key}
           /\ \A s : InShard(s)' =
                 IF ShardOf[req[r].key] = s THEN InShard(s) \cup {req[r].key} ELSE InShard(s)
           /\ Cardinality(Present') = Cardinality(Present) + 1
           /\ MapCounts'
<1> DEFINE k == req[r].key
           e == Len(heap) + 1
<1>1. k \in Keys \ Present /\ e \in Nat \ {0} /\ e \notin Addresses
  BY Asked, HeapIsTyped DEF Insert, Addresses
<1>2. e \in Addresses' /\ Addresses \subseteq Addresses'
  <2>1. heap' = Append(heap, NewEntry(req[r].snap)) /\ NewEntry(req[r].snap) \in Entries
    BY Asked, NewEntryIsTyped DEF Insert
  <2>2. Len(heap') = Len(heap) + 1
    BY <2>1, EntryAdded
  <2> QED
    BY <2>2, HeapIsTyped DEF Addresses
<1>3. keys' = [keys EXCEPT ![k] = e] /\ keys \in [Keys -> {Absent} \cup Addresses]
  BY DEF Insert, TypeOK
<1>4. keys' \in [Keys -> {Absent} \cup Addresses']
  BY <1>2, <1>3
<1>5. /\ Present' = Present \cup {k}
      /\ \A s : InShard(s)' = IF ShardOf[k] = s THEN InShard(s) \cup {k} ELSE InShard(s)
  BY <1>1, <1>3 DEF Present, InShard, Absent
<1>6. /\ Cardinality(Present \cup {k}) = Cardinality(Present) + 1
      /\ \A s : Cardinality(InShard(s) \cup {k}) = Cardinality(InShard(s)) + 1
  <2>1. k \notin Present /\ \A s : k \notin InShard(s)
    BY <1>1 DEF InShard
  <2>2. Cardinality(Present \cup {k}) = Cardinality(Present) + 1
    BY <2>1, KeysAreFinite, FS_AddElement
  <2>3. ASSUME NEW s PROVE Cardinality(InShard(s) \cup {k}) = Cardinality(InShard(s)) + 1
    BY <2>1, KeysAreFinite, FS_AddElement
  <2> QED
    BY <2>2, <2>3
<1>7. ASSUME NEW s \in Shards PROVE live'[s] = Cardinality(InShard(s)') /\ live'[s] \in Nat
  <2>1. live'[s] = IF ShardOf[k] = s THEN live[s] + 1 ELSE live[s]
    BY <1>7 DEF Insert, TypeOK
  <2>2. live[s] = Cardinality(InShard(s))
    BY <1>7 DEF MapCounts, KeysAreApart
  <2> QED
    BY <1>5, <1>6, <2>1, <2>2, KeysAreFinite
<1>8. live' \in [Shards -> Nat]
  BY <1>7 DEF Insert, TypeOK
<1>9. MapCounts'
  <2>1. ASSUME NEW i \in Present', NEW j \in Present', keys'[i] = keys'[j] PROVE i = j
    BY <1>1, <1>3, <1>5, <2>1 DEF MapCounts, KeysAreApart, Present
  <2> QED
    BY <1>7, <2>1 DEF MapCounts, KeysAreApart
<1> QED
  BY <1>4, <1>5, <1>6, <1>8, <1>9

\* What each step forgets: nothing that is not in the map.
LEMMA DeleteForgets ==
    ASSUME TypeOK, DeleteOne
    PROVE  \E S \in SUBSET Present, e \in sweep.todo :
               LET s == [sweep EXCEPT !.todo = @ \ {e}, !.evicted = @ + Cardinality(S)]
               IN  Forget(S) /\ sweep' = IF s.todo = {} THEN Reporting(s) ELSE s
<1>1. PICK e \in sweep.todo :
          LET gone == IF StillExpired(e) THEN {e.key} ELSE {}
              s    == [sweep EXCEPT !.todo = @ \ {e}, !.evicted = @ + Cardinality(gone)]
          IN  Forget(gone) /\ sweep' = IF s.todo = {} THEN Reporting(s) ELSE s
  BY DEF DeleteOne
<1>2. e \in Found
  BY DEF TypeOK, Sweeping
<1>3. StillExpired(e) => e.key \in Present
  BY <1>2, HeapIsTyped DEF StillExpired, Present, Found, Addresses, Absent
<1>4. (IF StillExpired(e) THEN {e.key} ELSE {}) \in SUBSET Present
  BY <1>3
<1> QED
  BY <1>1, <1>4

LEMMA DropForgets ==
    ASSUME DropIdle
    PROVE  \E S \in SUBSET InShard(sweep.shard) :
               LET s == [sweep EXCEPT !.evicted = @ + Cardinality(S), !.shard = @ + 1]
               IN  Forget(S) /\ sweep' = IF s.shard \in Shards THEN s ELSE Reporting(s)
<1>1. {k \in InShard(sweep.shard) : IsIdle(heap[keys[k]].lastUsed, sweep.at)}
         \in SUBSET InShard(sweep.shard)
  OBVIOUS
<1> QED
  BY <1>1 DEF DropIdle

LEMMA TeardownClears ==
    ASSUME TypeOK, Teardown
    PROVE  /\ keys' \in [Keys -> {Absent} \cup Addresses]
           /\ live' \in [Shards -> Nat]
           /\ Present' = {} /\ (\A s : InShard(s)' = {}) /\ Cardinality(Present') = 0
           /\ MapCounts'
<1>1. keys' = [k \in Keys |-> Absent] /\ live' = [s \in Shards |-> 0]
  BY DEF Teardown
<1>2. Present' = {} /\ \A s : InShard(s)' = {}
  BY <1>1 DEF Present, InShard
<1>3. Cardinality({}) = 0
  BY FS_EmptySet
<1>4. \A s \in Shards : live'[s] = Cardinality(InShard(s)')
  BY <1>1, <1>2, <1>3
<1> QED
  BY <1>1, <1>2, <1>3, <1>4 DEF MapCounts, KeysAreApart

LEMMA MapStep ==
    ASSUME TypeOK, MapCounts, [Next]_vars
    PROVE  /\ keys' \in [Keys -> {Absent} \cup Addresses']
           /\ live' \in [Shards -> Nat]
           /\ MapCounts'
<1>1. CASE UNCHANGED <<keys, live>>
  <2>1. Present' = Present /\ \A s : InShard(s)' = InShard(s)
    BY <1>1 DEF Present, InShard
  <2>2. MapCounts'
    BY <1>1, <2>1 DEF MapCounts, KeysAreApart
  <2> QED
    BY <1>1, <2>2, AddressesGrow DEF TypeOK
<1>2. ASSUME NEW r \in Requests, Insert(r)
      PROVE  /\ keys' \in [Keys -> {Absent} \cup Addresses'] /\ live' \in [Shards -> Nat]
             /\ MapCounts'
  BY <1>2, InsertAdds
<1>3. ASSUME NEW S \in SUBSET Present, Forget(S)
      PROVE  /\ keys' \in [Keys -> {Absent} \cup Addresses'] /\ live' \in [Shards -> Nat]
             /\ MapCounts'
  BY <1>3, ForgetLeaves, AddressesGrow
<1>4. DeleteOne => \E S \in SUBSET Present : Forget(S)
  BY DeleteForgets
<1>5. DropIdle => \E S \in SUBSET Present : Forget(S)
  BY DropForgets DEF InShard
<1>6. ASSUME NEW v \in Evictors, NEW k \in Keys, EvictDelete(v, k)
      PROVE  \E S \in SUBSET Present : Forget(S)
  BY <1>6 DEF EvictDelete
<1>7. CASE Teardown
  BY <1>7, TeardownClears, AddressesGrow
<1> QED
  BY <1>1, <1>2, <1>3, <1>4, <1>5, <1>6, <1>7
     DEF Next, RequestStep, Arrive, Lookup, Load, InsertLost, Touch, Draw, SweepStep, StartSweep,
         ReadUsed, ReadTokens, NextShard, FlushOne, ReportSweep, EvictStep, EvictReadTokens,
         EvictReadUsed, EvictSave, EvictSaveFails, EvictReport, Tick, map, vars

-----------------------------------------------------------------------------
(* How entries leave the map, and what the requests then have in hand.     *)

Released(S) ==
    /\ keys' = [k \in Keys |-> IF k \in S THEN Absent ELSE keys[k]]
    /\ letGo' = letGo \cup {keys[k] : k \in S}

\* A step inserts one entry, or releases those of some keys, or of none.
LEMMA InsertsOrReleases ==
    ASSUME TypeOK, [Next]_vars
    PROVE  \/ \E r \in Requests : Insert(r)
           \/ Addresses' = Addresses /\ \E S \in SUBSET Present : Released(S)
<1>1. (\E r \in Requests : Insert(r)) \/ Addresses' = Addresses
  BY HeapStep DEF Addresses
<1>2. ASSUME UNCHANGED <<keys, letGo>> PROVE Released({})
  BY <1>2 DEF Released, TypeOK
<1>3. \A S : Forget(S) => Released(S)
  BY DEF Forget, Released
<1>4. DeleteOne => \E S \in SUBSET Present : Released(S)
  BY <1>3, DeleteForgets
<1>5. DropIdle => \E S \in SUBSET Present : Released(S)
  BY <1>3, DropForgets DEF InShard
<1>6. ASSUME NEW v \in Evictors, NEW k \in Keys, EvictDelete(v, k)
      PROVE  \E S \in SUBSET Present : Released(S)
  BY <1>3, <1>6 DEF EvictDelete
<1>7. Teardown => Released(Present)
  <2> SUFFICES ASSUME Teardown PROVE Released(Present)
    OBVIOUS
  <2>1. \A k \in Keys : k \notin Present => keys[k] = Absent
    BY DEF Present
  <2> QED
    BY <2>1 DEF Teardown, Released
<1>8. (\E r \in Requests : Insert(r)) \/ \E S \in SUBSET Present : Released(S)
  BY <1>2, <1>4, <1>5, <1>6, <1>7
     DEF Next, RequestStep, Arrive, Lookup, Load, InsertLost, Touch, Draw, SweepStep, StartSweep,
         ReadUsed, ReadTokens, NextShard, FlushOne, ReportSweep, EvictStep, EvictReadTokens,
         EvictReadUsed, EvictSave, EvictSaveFails, EvictReport, Tick, map, vars
<1> QED
  BY <1>1, <1>8

\* The entry inserted is a new one, under a key that had none.
LEMMA InsertIsNew ==
    ASSUME TypeOK, NEW r \in Requests, Insert(r)
    PROVE  /\ Len(heap) + 1 \notin Addresses
           /\ Addresses' = Addresses \cup {Len(heap) + 1}
           /\ letGo' = letGo
           /\ req[r].key \in Keys \ Present
           /\ keys' = [keys EXCEPT ![req[r].key] = Len(heap) + 1]
           /\ Present' = Present \cup {req[r].key}
<1>1. Len(heap') = Len(heap) + 1
  BY Asked, NewEntryIsTyped, EntryAdded DEF Insert
<1>2. req[r].key \in Keys \ Present /\ keys' = [keys EXCEPT ![req[r].key] = Len(heap) + 1]
  BY Asked DEF Insert
<1>3. Len(heap) + 1 # Absent
  BY HeapIsTyped DEF Absent
<1> QED
  BY <1>1, <1>2, <1>3, HeapIsTyped DEF Insert, Addresses, Present, TypeOK

LEMMA LetGoStep ==
    ASSUME TypeOK, KeysAreApart, NoneOverwritten, [Next]_vars
    PROVE  letGo' \subseteq Addresses' /\ NoneOverwritten'
<1>1. letGo \subseteq Addresses /\ keys \in [Keys -> {Absent} \cup Addresses]
  BY DEF TypeOK
<1>2. ASSUME NEW r \in Requests, Insert(r)
      PROVE  letGo' \subseteq Addresses' /\ NoneOverwritten'
  <2>1. {keys'[k] : k \in Present'} = {keys[k] : k \in Present} \cup {Len(heap) + 1}
    BY <1>1, <1>2, InsertIsNew DEF Present
  <2> QED
    BY <1>1, <1>2, <2>1, InsertIsNew DEF NoneOverwritten
<1>3. ASSUME Addresses' = Addresses, NEW S \in SUBSET Present, Released(S)
      PROVE  letGo' \subseteq Addresses' /\ NoneOverwritten'
  <2>1. Present' = Present \ S /\ \A k \in Present \ S : keys'[k] = keys[k]
    BY <1>1, <1>3 DEF Released, Present
  <2>2. {keys'[k] : k \in Present'} = {keys[k] : k \in Present} \ {keys[k] : k \in S}
    BY <1>3, <2>1 DEF KeysAreApart
  <2>3. {keys[k] : k \in S} \subseteq Addresses
    BY <1>1 DEF Present
  <2> QED
    BY <1>1, <1>3, <2>2, <2>3 DEF NoneOverwritten, Released
<1> QED
  BY <1>2, <1>3, InsertsOrReleases

\* A request that has an entry had it before, or has just been given its key's.
LEMMA HandIsGiven ==
    ASSUME TypeOK, [Next]_vars, NEW r \in Requests, req'[r].pc \in {"touch", "draw"}
    PROVE  \/ /\ req[r].pc \in {"touch", "draw"}
              /\ req'[r].key = req[r].key /\ req'[r].entry = req[r].entry
           \/ req'[r].entry = keys'[req'[r].key]
<1>1. /\ req \in [Requests -> Asking] /\ keys \in [Keys -> {Absent} \cup Addresses]
      /\ \A q \in Requests : req[q].pc # "idle" => req[q].key \in Keys
  BY DEF TypeOK
<1>2. CASE req'[r] = req[r]
  BY <1>2
<1>3. ASSUME NEW q \in Requests, NEW e, req' = Given(q, e), e = keys'[req[q].key], q = r
      PROVE  req'[r].entry = keys'[req'[r].key]
  BY <1>1, <1>3 DEF Given, Asking
<1>4. ASSUME NEW q \in Requests, RequestStep(q) \/ \E k \in Keys : Arrive(q, k)
      PROVE  \/ req'[r] = req[r]
             \/ /\ req[r].pc \in {"touch", "draw"}
                /\ req'[r].key = req[r].key /\ req'[r].entry = req[r].entry
             \/ req'[r].entry = keys'[req'[r].key]
  <2>1. CASE q # r
    BY <1>1, <1>4, <2>1
       DEF RequestStep, Arrive, Lookup, Load, InsertLost, Insert, Touch, Draw, Given
  <2>2. CASE q = r
    <3>1. ASSUME NEW k \in Keys, Arrive(r, k) PROVE FALSE
      BY <1>1, <3>1 DEF Arrive, NoRequest
    <3>2. CASE Lookup(r) /\ req[r].key \in Present
      BY <1>3, <3>2 DEF Lookup, map
    <3>3. CASE Lookup(r) /\ req[r].key \notin Present
      BY <1>1, <3>3 DEF Lookup, Asking
    <3>4. CASE Load(r)
      BY <1>1, <3>4 DEF Load, Asking
    <3>5. CASE InsertLost(r)
      BY <1>3, <3>5 DEF InsertLost, map
    <3>6. CASE Insert(r)
      <4>1. Len(heap) + 1 = keys'[req[r].key] /\ req' = Given(r, Len(heap) + 1)
        BY <1>1, <3>6, InsertIsNew DEF Insert
      <4> QED
        BY <1>3, <4>1
    <3>7. CASE Touch(r)
      BY <1>1, <3>7 DEF Touch, Asking
    <3>8. CASE Draw(r)
      BY <1>1, <3>8 DEF Draw, NoRequest
    <3> QED
      BY <1>4, <2>2, <3>1, <3>2, <3>3, <3>4, <3>5, <3>6, <3>7, <3>8 DEF RequestStep
  <2> QED
    BY <2>1, <2>2
<1>5. UNCHANGED req \/ \E q \in Requests : RequestStep(q) \/ \E k \in Keys : Arrive(q, k)
  BY DEF Next, SweepStep, StartSweep, ReadUsed, ReadTokens, NextShard, FlushOne, DeleteOne,
         DropIdle, ReportSweep, EvictStep, EvictReadTokens, EvictReadUsed, EvictSave,
         EvictSaveFails, EvictReport, EvictDelete, Teardown, Tick, vars
<1> QED
  BY <1>2, <1>4, <1>5

LEMMA HandsStep ==
    ASSUME TypeOK, HandsHold, [Next]_vars
    PROVE  HandsHold'
<1> SUFFICES ASSUME NEW r \in Requests, req'[r].pc \in {"touch", "draw"}
             PROVE  req'[r].entry \in letGo' \cup {keys'[req'[r].key]}
  BY DEF HandsHold
<1>1. CASE req'[r].entry = keys'[req'[r].key]
  BY <1>1
<1>2. CASE /\ req[r].pc \in {"touch", "draw"}
           /\ req'[r].key = req[r].key /\ req'[r].entry = req[r].entry
  <2>1. PICK k \in Keys, e \in Addresses : k = req[r].key /\ e = req[r].entry
    BY <1>2, Asked
  <2>2. e \in letGo \cup {keys[k]}
    BY <1>2, <2>1 DEF HandsHold
  <2>3. ASSUME NEW q \in Requests, Insert(q) PROVE e \in letGo' \cup {keys'[k]}
    <3>1. keys[req[q].key] = Absent /\ e # Absent
      BY <2>3, InsertIsNew DEF Present, Addresses, Absent
    <3>2. CASE req[q].key = k
      BY <2>2, <2>3, <3>1, <3>2, InsertIsNew
    <3>3. CASE req[q].key # k
      BY <2>2, <2>3, <3>3, InsertIsNew DEF TypeOK
    <3> QED
      BY <3>2, <3>3
  <2>4. ASSUME NEW S \in SUBSET Present, Released(S) PROVE e \in letGo' \cup {keys'[k]}
    BY <2>2, <2>4 DEF Released
  <2> QED
    BY <1>2, <2>1, <2>3, <2>4, InsertsOrReleases
<1> QED
  BY <1>1, <1>2, HandIsGiven

-----------------------------------------------------------------------------
(* The types of what everybody has in hand.                                *)

LEMMA NowIsTyped ==
    ASSUME TypeOK
    PROVE  now \in Nat /\ now \in Int /\ \A k \in Present : keys[k] \in Addresses
  BY Times DEF TypeOK, Present

\* A request's next locals.
Turns(r, q) ==
    /\ req' = [req EXCEPT ![r] = q]
    /\ q \in Asking'
    /\ q.pc # "idle" => q.key \in Keys
    /\ q.pc \in {"touch", "draw"} => q.entry \in Addresses'

LEMMA GivenTurns ==
    ASSUME TypeOK, [Next]_vars, NEW r \in Requests, req[r].pc # "idle", NEW e \in Addresses',
           req' = Given(r, e)
    PROVE  \E q : Turns(r, q)
<1> DEFINE q == [req[r] EXCEPT !.pc = "touch", !.entry = e, !.snap = NoState]
<1>1. req[r] \in Asking' /\ req[r].key \in Keys
  BY AddressesGrow, Asked DEF TypeOK
<1>2. req' = [req EXCEPT ![r] = q]
  BY DEF Given, TypeOK, Asking
<1>3. q \in Asking' /\ q.pc = "touch" /\ q.entry = e /\ q.key = req[r].key
  BY <1>1 DEF Asking, States
<1> QED
  BY <1>1, <1>2, <1>3 DEF Turns

LEMMA RequestTurns ==
    ASSUME TypeOK, [Next]_vars, NEW r \in Requests,
           RequestStep(r) \/ \E k \in Keys : Arrive(r, k)
    PROVE  \E q : Turns(r, q)
<1>1. req[r] \in Asking' /\ req[r] \in Asking /\ Addresses \subseteq Addresses'
  BY AddressesGrow DEF TypeOK
<1>2. NoState \in States
  BY DEF States
<1>3. ASSUME NEW k \in Keys, Arrive(r, k) PROVE \E q : Turns(r, q)
  <2> DEFINE q == [NoRequest EXCEPT !.pc = "lookup", !.key = k, !.at = now]
  <2>1. q \in Asking' /\ q.pc = "lookup" /\ q.key = k
    BY <1>2, NowIsTyped DEF NoRequest, Asking
  <2> QED
    BY <1>3, <2>1 DEF Arrive, Turns
<1>4. CASE Lookup(r)
  <2>1. CASE req[r].key \in Present
    BY <1>1, <1>4, <2>1, GivenTurns, NowIsTyped DEF Lookup
  <2>2. CASE req[r].key \notin Present
    <3> DEFINE q == [req[r] EXCEPT !.pc = "load"]
    <3>1. q \in Asking' /\ q.pc = "load" /\ q.key = req[r].key
      BY <1>1 DEF Asking
    <3>2. req' = [req EXCEPT ![r] = q] /\ req[r].key \in Keys
      BY <1>4, <2>2, Asked DEF Lookup, TypeOK
    <3> QED
      BY <3>1, <3>2 DEF Turns
  <2> QED
    BY <2>1, <2>2
<1>5. CASE Load(r)
  <2>1. req[r].key \in Keys /\ store[req[r].key] \in States
    BY <1>5, Asked DEF Load, TypeOK
  <2>2. PICK snap \in States : req' = [req EXCEPT ![r].pc = "insert", ![r].snap = snap]
    BY <1>2, <1>5, <2>1 DEF Load
  <2> DEFINE q == [req[r] EXCEPT !.pc = "insert", !.snap = snap]
  <2>3. q \in Asking' /\ q.pc = "insert" /\ q.key = req[r].key
    BY <1>1 DEF Asking
  <2>4. req' = [req EXCEPT ![r] = q]
    BY <2>2 DEF TypeOK, Asking
  <2> QED
    BY <2>1, <2>3, <2>4 DEF Turns
<1>6. CASE InsertLost(r)
  BY <1>1, <1>6, GivenTurns, NowIsTyped DEF InsertLost
<1>7. CASE Insert(r)
  <2>1. Len(heap) + 1 \in Addresses'
    <3>1. Len(heap') = Len(heap) + 1
      BY <1>7, Asked, NewEntryIsTyped, EntryAdded DEF Insert
    <3> QED
      BY <3>1, HeapIsTyped DEF Addresses
  <2> QED
    BY <1>7, <2>1, GivenTurns DEF Insert
<1>8. CASE Touch(r)
  <2> DEFINE q == [req[r] EXCEPT !.pc = "draw"]
  <2>1. q \in Asking' /\ q.pc = "draw" /\ q.key = req[r].key /\ q.entry = req[r].entry
    BY <1>1 DEF Asking
  <2>2. req' = [req EXCEPT ![r] = q] /\ req[r].key \in Keys /\ req[r].entry \in Addresses'
    BY <1>1, <1>8, Asked DEF Touch, TypeOK
  <2> QED
    BY <2>1, <2>2 DEF Turns
<1>9. CASE Draw(r)
  <2>1. NoRequest \in Asking' /\ NoRequest.pc = "idle"
    BY <1>2 DEF NoRequest, Asking
  <2> QED
    BY <1>9, <2>1 DEF Draw, Turns
<1> QED
  BY <1>3, <1>4, <1>5, <1>6, <1>7, <1>8, <1>9 DEF RequestStep

LEMMA RequestsStep ==
    ASSUME TypeOK, [Next]_vars
    PROVE  /\ req' \in [Requests -> Asking']
           /\ \A r \in Requests :
                 /\ req'[r].pc # "idle" => req'[r].key \in Keys
                 /\ req'[r].pc \in {"touch", "draw"} => req'[r].entry \in Addresses'
<1>1. /\ req \in [Requests -> Asking'] /\ Addresses \subseteq Addresses'
      /\ \A r \in Requests :
            /\ req[r].pc # "idle" => req[r].key \in Keys
            /\ req[r].pc \in {"touch", "draw"} => req[r].entry \in Addresses
  BY AddressesGrow DEF TypeOK
<1>2. CASE UNCHANGED req
  BY <1>1, <1>2
<1>3. ASSUME NEW r \in Requests, NEW q, Turns(r, q)
      PROVE  /\ req' \in [Requests -> Asking']
             /\ \A p \in Requests :
                   /\ req'[p].pc # "idle" => req'[p].key \in Keys
                   /\ req'[p].pc \in {"touch", "draw"} => req'[p].entry \in Addresses'
  BY <1>1, <1>3 DEF Turns
<1>4. UNCHANGED req \/ \E r \in Requests : RequestStep(r) \/ \E k \in Keys : Arrive(r, k)
  BY DEF Next, SweepStep, StartSweep, ReadUsed, ReadTokens, NextShard, FlushOne, DeleteOne,
         DropIdle, ReportSweep, EvictStep, EvictReadTokens, EvictReadUsed, EvictSave,
         EvictSaveFails, EvictReport, EvictDelete, Teardown, Tick, vars
<1> QED
  BY <1>2, <1>3, <1>4, RequestTurns

LEMMA EvictionsStep ==
    ASSUME TypeOK, [Next]_vars
    PROVE  /\ ev' \in [Evictors -> Evicting']
           /\ \A v \in Evictors :
                 ev'[v].pc # "idle" => ev'[v].key \in Keys /\ ev'[v].entry \in Addresses'
<1>1. /\ ev \in [Evictors -> Evicting'] /\ Addresses \subseteq Addresses'
      /\ \A v \in Evictors : ev[v].pc # "idle" => ev[v].key \in Keys /\ ev[v].entry \in Addresses
  BY AddressesGrow DEF TypeOK
<1> DEFINE Fine(v, q) ==
        /\ ev' = [ev EXCEPT ![v] = q]
        /\ q \in Evicting'
        /\ q.pc # "idle" => q.key \in Keys /\ q.entry \in Addresses'
<1>2. NoEvict \in Evicting' /\ NoEvict.pc = "idle"
  BY DEF NoEvict, Evicting
<1>3. ASSUME NEW v \in Evictors, NEW k \in Keys, EvictDelete(v, k) PROVE \E q : Fine(v, q)
  <2> DEFINE q == [NoEvict EXCEPT !.pc = "tokens", !.key = k, !.at = now, !.entry = keys[k]]
  <2>1. keys[k] \in Addresses' /\ now \in Nat
    BY <1>1, <1>3, NowIsTyped DEF EvictDelete
  <2>2. q \in Evicting' /\ q.key = k /\ q.entry = keys[k]
    BY <1>2, <2>1 DEF Evicting
  <2> QED
    BY <1>3, <2>1, <2>2 DEF EvictDelete
<1>4. ASSUME NEW v \in Evictors, EvictReadTokens(v) PROVE \E q : Fine(v, q)
  <2> DEFINE n == TokensAt(heap[ev[v].entry].bucket, ev[v].at)
             q == [ev[v] EXCEPT !.pc = "used", !.tokens = n]
  <2>1. ev[v].entry \in Addresses /\ ev[v].at \in Int /\ ev[v].key \in Keys
    BY <1>4 DEF EvictReadTokens, TypeOK, Evicting
  <2>2. n \in Int
    BY <2>1, HeapIsTyped, TokensAreInt
  <2>3. q \in Evicting' /\ q.key = ev[v].key /\ q.entry = ev[v].entry
    BY <1>1, <2>2 DEF Evicting
  <2>4. ev' = [ev EXCEPT ![v] = q]
    BY <1>4 DEF EvictReadTokens, TypeOK, Evicting
  <2> QED
    BY <1>1, <2>1, <2>3, <2>4
<1>5. ASSUME NEW v \in Evictors, EvictReadUsed(v) PROVE \E q : Fine(v, q)
  <2> DEFINE n == heap[ev[v].entry].lastUsed
             q == [ev[v] EXCEPT !.pc = IF Persists THEN "save" ELSE "report", !.lastUsed = n]
  <2>1. ev[v].entry \in Addresses /\ ev[v].key \in Keys
    BY <1>5 DEF EvictReadUsed, TypeOK
  <2>2. n \in Int
    BY <2>1, HeapIsTyped
  <2>3. q \in Evicting' /\ q.key = ev[v].key /\ q.entry = ev[v].entry
    BY <1>1, <2>2 DEF Evicting
  <2>4. ev' = [ev EXCEPT ![v] = q]
    BY <1>5 DEF EvictReadUsed, TypeOK, Evicting
  <2> QED
    BY <1>1, <2>1, <2>3, <2>4
<1>6. ASSUME NEW v \in Evictors, EvictSave(v) PROVE \E q : Fine(v, q)
  <2> DEFINE q == [ev[v] EXCEPT !.pc = "report"]
  <2>1. q \in Evicting' /\ q.key = ev[v].key /\ q.entry = ev[v].entry
    BY <1>1 DEF Evicting
  <2>2. ev' = [ev EXCEPT ![v] = q] /\ ev[v].pc # "idle"
    BY <1>6 DEF EvictSave, TypeOK, Evicting
  <2> QED
    BY <1>1, <2>1, <2>2
<1>7. ASSUME NEW v \in Evictors, EvictSaveFails(v) \/ EvictReport(v) PROVE \E q : Fine(v, q)
  BY <1>2, <1>7 DEF EvictSaveFails, EvictReport
<1>8. ASSUME NEW v \in Evictors, NEW q, Fine(v, q)
      PROVE  /\ ev' \in [Evictors -> Evicting']
             /\ \A u \in Evictors :
                   ev'[u].pc # "idle" => ev'[u].key \in Keys /\ ev'[u].entry \in Addresses'
  BY <1>1, <1>8
<1>9. CASE UNCHANGED ev
  BY <1>1, <1>9
<1> HIDE DEF Fine
<1>10. UNCHANGED ev \/ \E v \in Evictors : \E q : Fine(v, q)
  BY <1>3, <1>4, <1>5, <1>6, <1>7
     DEF Next, RequestStep, Arrive, Lookup, Load, InsertLost, Insert, Touch, Draw, SweepStep,
         StartSweep, ReadUsed, ReadTokens, NextShard, FlushOne, DeleteOne, DropIdle, ReportSweep,
         EvictStep, Teardown, Tick, vars
<1> QED
  BY <1>8, <1>9, <1>10

-----------------------------------------------------------------------------
(* The sweep.                                                              *)

\* Where no entry is added the types of the sweep stay.
LEMMA NoSweepIsTyped == NoSweep \in Sweeping
  BY DEF NoSweep, Sweeping

LEMMA ReportingIsTyped ==
    ASSUME NEW s \in Sweeping
    PROVE  /\ Reporting(s) \in Sweeping
           /\ Reporting(s).evicted = s.evicted
           /\ Reporting(s).pc \in {"idle", "report"}
           /\ Reporting(s).pc = "report" <=> s.evicted # 0
<1>1. CASE s.evicted = 0
  BY <1>1, NoSweepIsTyped DEF Reporting, NoSweep
<1>2. CASE s.evicted # 0
  <2>1. Reporting(s) = [s EXCEPT !.pc = "report", !.expired = {}]
    BY <1>2 DEF Reporting
  <2> QED
    BY <1>2, <2>1 DEF Sweeping
<1> QED
  BY <1>1, <1>2

LEMMA SweepIsTyped ==
    ASSUME TypeOK, SweepHolds, MapCounts, SweepStep
    PROVE  sweep' \in Sweeping
<1>1. sweep \in Sweeping /\ now \in Nat /\ Present \subseteq Keys
  BY NowIsTyped DEF TypeOK, Present
<1>2. CASE StartSweep
  <2>1. InShard(1) \in SUBSET Keys
    BY DEF InShard, Present
  <2>2. [NoSweep EXCEPT !.pc = IF Persists THEN "scan" ELSE "drop", !.at = now, !.shard = 1,
                        !.scan = IF Persists THEN InShard(1) ELSE {}] \in Sweeping
    BY <1>1, <2>1, NoSweepIsTyped DEF Sweeping
  <2> QED
    BY <1>2, <2>2 DEF StartSweep
<1>3. ASSUME NEW k \in Keys, ReadUsed(k) PROVE sweep' \in Sweeping
  <2>1. heap[keys[k]].lastUsed \in Int
    <3>1. k \in Present
      BY <1>3 DEF ReadUsed, SweepHolds, InShard
    <3> QED
      BY <3>1, NowIsTyped, HeapIsTyped
  <2> QED
    BY <1>1, <1>3, <2>1 DEF ReadUsed, Sweeping
<1>4. CASE ReadTokens
  <2> DEFINE e == [key      |-> sweep.key,
                   entry    |-> keys[sweep.key],
                   tokens   |-> TokensAt(heap[keys[sweep.key]].bucket, sweep.at),
                   lastUsed |-> sweep.lastUsed]
  <2>1. sweep.key \in Present /\ sweep.at \in Int /\ sweep.lastUsed \in Int
    BY <1>1, <1>4 DEF ReadTokens, SweepHolds, InShard, Sweeping
  <2>2. keys[sweep.key] \in Addresses /\ sweep.key \in Keys
    BY <2>1, NowIsTyped DEF Present
  <2>3. TokensAt(heap[keys[sweep.key]].bucket, sweep.at) \in Int
    BY <2>1, <2>2, HeapIsTyped, TokensAreInt
  <2>4. e \in Found
    BY <2>1, <2>2, <2>3 DEF Found
  <2>5. sweep' = [sweep EXCEPT !.pc = "scan", !.key = NoState, !.lastUsed = 0,
                               !.expired = @ \cup {e}]
    BY <1>4 DEF ReadTokens
  <2> DEFINE found == sweep.expired \cup {e}
  <2>6. found \in SUBSET Found
    BY <1>1, <2>4 DEF Sweeping
  <2>7. sweep' = [sweep EXCEPT !.pc = "scan", !.key = NoState, !.lastUsed = 0,
                               !.expired = found]
    BY <2>5
  <2> HIDE DEF e, found
  <2>8. [sweep EXCEPT !.expired = found] \in Sweeping
    BY <1>1, <2>6 DEF Sweeping
  <2>9. ASSUME NEW s \in Sweeping
        PROVE  [s EXCEPT !.pc = "scan", !.key = NoState, !.lastUsed = 0] \in Sweeping
    <3>1. "scan" \in {"idle", "scan", "read", "flush", "delete", "drop", "report"}
          /\ NoState \in Keys \cup {NoState} /\ 0 \in Int
      OBVIOUS
    <3>2. [s EXCEPT !.pc = "scan"] \in Sweeping
      BY <3>1 DEF Sweeping
    <3>3. ASSUME NEW u \in Sweeping PROVE [u EXCEPT !.key = NoState] \in Sweeping
      BY <3>1 DEF Sweeping
    <3>4. ASSUME NEW u \in Sweeping PROVE [u EXCEPT !.lastUsed = 0] \in Sweeping
      BY <3>1 DEF Sweeping
    <3> QED
      BY <3>2, <3>3, <3>4
  <2>10. sweep' = [[sweep EXCEPT !.expired = found]
                      EXCEPT !.pc = "scan", !.key = NoState, !.lastUsed = 0]
    BY <1>1, <2>7 DEF Sweeping
  <2> QED
    BY <2>8, <2>9, <2>10
<1>5. CASE NextShard
  <2>1. InShard(sweep.shard + 1) \in SUBSET Keys /\ sweep.shard + 1 \in Nat
    BY <1>1 DEF InShard, Present, Sweeping
  <2>2. sweep' \in {[sweep EXCEPT !.shard = @ + 1, !.scan = InShard(sweep.shard + 1)],
                    [sweep EXCEPT !.pc = "flush", !.todo = sweep.expired], NoSweep}
    BY <1>5 DEF NextShard
  <2> QED
    <3>1. [sweep EXCEPT !.shard = @ + 1, !.scan = InShard(sweep.shard + 1)] \in Sweeping
      BY <1>1, <2>1 DEF Sweeping
    <3>2. [sweep EXCEPT !.pc = "flush", !.todo = sweep.expired] \in Sweeping
      BY <1>1 DEF Sweeping
    <3> QED
      BY <2>2, <3>1, <3>2, NoSweepIsTyped
<1>6. CASE FlushOne
  BY <1>1, <1>6 DEF FlushOne, Sweeping
<1>7. CASE DeleteOne
  <2>1. PICK S \in SUBSET Present, e \in sweep.todo :
            LET s == [sweep EXCEPT !.todo = @ \ {e}, !.evicted = @ + Cardinality(S)]
            IN  Forget(S) /\ sweep' = IF s.todo = {} THEN Reporting(s) ELSE s
    BY <1>7, DeleteForgets
  <2> DEFINE s == [sweep EXCEPT !.todo = @ \ {e}, !.evicted = @ + Cardinality(S)]
  <2>2. sweep.evicted + Cardinality(S) \in Nat
    BY <1>1, <2>1, ForgetLeaves DEF Sweeping
  <2>3. s \in Sweeping
    BY <1>1, <2>2 DEF Sweeping
  <2> QED
    BY <2>1, <2>3, ReportingIsTyped
<1>8. CASE DropIdle
  <2>1. PICK S \in SUBSET InShard(sweep.shard) :
            LET s == [sweep EXCEPT !.evicted = @ + Cardinality(S), !.shard = @ + 1]
            IN  Forget(S) /\ sweep' = IF s.shard \in Shards THEN s ELSE Reporting(s)
    BY <1>8, DropForgets
  <2> DEFINE s == [sweep EXCEPT !.evicted = @ + Cardinality(S), !.shard = @ + 1]
  <2>2. sweep.evicted + Cardinality(S) \in Nat /\ sweep.shard + 1 \in Nat
    BY <1>1, <2>1, ForgetLeaves DEF InShard, Sweeping
  <2>3. s \in Sweeping
    BY <1>1, <2>2 DEF Sweeping
  <2> QED
    BY <2>1, <2>3, ReportingIsTyped
<1>9. CASE ReportSweep
  <2> DEFINE n == IF Persists \/ Observes THEN 1 ELSE sweep.evicted
             s == [sweep EXCEPT !.evicted = @ - n]
  <2>1. sweep.evicted \in Nat /\ sweep.evicted # 0
    BY <1>1, <1>9 DEF ReportSweep, SweepHolds, Sweeping
  <2>2. sweep.evicted - n \in Nat
    BY <2>1
  <2>3. s \in Sweeping
    BY <1>1, <2>2 DEF Sweeping
  <2> QED
    BY <1>9, <2>3, ReportingIsTyped DEF ReportSweep
<1> QED
  BY <1>2, <1>3, <1>4, <1>5, <1>6, <1>7, <1>8, <1>9 DEF SweepStep

LEMMA CountersStep ==
    ASSUME TypeOK, SweepHolds, MapCounts, [Next]_vars
    PROVE  /\ now' \in 0..MaxTime /\ evictions' \in Nat /\ requests' \in 0..MaxRequests
           /\ config' \in Configs /\ closed' \in BOOLEAN /\ unsaved' \in Nat
<1>1. /\ now \in 0..MaxTime /\ now \in Nat /\ evictions \in Nat /\ requests \in 0..MaxRequests
      /\ MaxRequests \in Nat /\ MaxTime \in Nat
      /\ config \in Configs /\ closed \in BOOLEAN /\ unsaved \in Nat
  BY NowIsTyped, Times, RegistryAssumption DEF TypeOK
<1>2. now' \in 0..MaxTime
  <2>1. CASE Tick
    BY <1>1, <2>1 DEF Tick
  <2>2. CASE UNCHANGED now
    BY <1>1, <2>2
  <2> QED
    BY <2>1, <2>2
       DEF Next, RequestStep, Arrive, Lookup, Load, InsertLost, Insert, Touch, Draw, SweepStep,
           StartSweep, ReadUsed, ReadTokens, NextShard, FlushOne, DeleteOne, DropIdle,
           ReportSweep, EvictStep, EvictReadTokens, EvictReadUsed, EvictSave, EvictSaveFails,
           EvictReport, EvictDelete, Teardown, vars
<1>3. evictions' \in Nat
  <2>1. CASE ReportSweep
    <3>1. sweep.evicted \in Nat
      BY DEF TypeOK, Sweeping
    <3> QED
      BY <1>1, <2>1, <3>1 DEF ReportSweep
  <2>2. ASSUME NEW v \in Evictors, EvictReport(v) PROVE evictions' \in Nat
    BY <1>1, <2>2 DEF EvictReport
  <2>3. CASE Teardown
    BY <1>1, <2>3, KeysAreFinite DEF Teardown
  <2>4. CASE UNCHANGED evictions
    BY <1>1, <2>4
  <2> QED
    BY <2>1, <2>2, <2>3, <2>4
       DEF Next, RequestStep, Arrive, Lookup, Load, InsertLost, Insert, Touch, Draw, SweepStep,
           StartSweep, ReadUsed, ReadTokens, NextShard, FlushOne, DeleteOne, DropIdle,
           EvictStep, EvictReadTokens, EvictReadUsed, EvictSave, EvictSaveFails,
           EvictDelete, Tick, vars
<1>4. requests' \in 0..MaxRequests
  <2>1. ASSUME NEW r \in Requests, NEW k \in Keys, Arrive(r, k) PROVE requests' \in 0..MaxRequests
    BY <1>1, <2>1 DEF Arrive
  <2>2. CASE UNCHANGED requests
    BY <1>1, <2>2
  <2> QED
    BY <2>1, <2>2
       DEF Next, RequestStep, Lookup, Load, InsertLost, Insert, Touch, Draw, SweepStep,
           StartSweep, ReadUsed, ReadTokens, NextShard, FlushOne, DeleteOne, DropIdle,
           ReportSweep, EvictStep, EvictReadTokens, EvictReadUsed, EvictSave, EvictSaveFails,
           EvictReport, EvictDelete, Teardown, Tick, vars
<1>5. config' \in Configs /\ closed' \in BOOLEAN
  BY <1>1
     DEF Next, RequestStep, Arrive, Lookup, Load, InsertLost, Insert, Touch, Draw, SweepStep,
         StartSweep, ReadUsed, ReadTokens, NextShard, FlushOne, DeleteOne, DropIdle,
         ReportSweep, EvictStep, EvictReadTokens, EvictReadUsed, EvictSave, EvictSaveFails,
         EvictReport, EvictDelete, Teardown, Tick, vars, owner
<1>6. unsaved' \in Nat
  <2>1. unsaved' = unsaved \/ unsaved' = unsaved + 1
    BY DEF Next, RequestStep, Arrive, Lookup, Load, InsertLost, Insert, Touch, Draw, SweepStep,
           StartSweep, ReadUsed, ReadTokens, NextShard, FlushOne, DeleteOne, DropIdle,
           ReportSweep, EvictStep, EvictReadTokens, EvictReadUsed, EvictSave, EvictSaveFails,
           EvictReport, EvictDelete, Teardown, Tick, vars, history
  <2> QED
    BY <1>1, <2>1
<1> QED
  BY <1>2, <1>3, <1>4, <1>5, <1>6

-----------------------------------------------------------------------------
(* The store and the history, and with them the types of everything.       *)

LEMMA StoreStep ==
    ASSUME TypeOK, [Next]_vars
    PROVE  store' \in [Keys -> States]
<1>1. store \in [Keys -> States]
  BY DEF TypeOK
<1>2. CASE FlushOne
  <2>1. ASSUME NEW e \in sweep.todo,
               store' = [store EXCEPT ![e.key] = [tokens |-> e.tokens, lastUsed |-> e.lastUsed]]
        PROVE  store' \in [Keys -> States]
    <3>1. e \in Found
      BY DEF TypeOK, Sweeping
    <3>2. [tokens |-> e.tokens, lastUsed |-> e.lastUsed] \in States
      BY <3>1 DEF Found, States
    <3> QED
      BY <1>1, <2>1, <3>2
  <2> QED
    BY <1>1, <1>2, <2>1 DEF FlushOne
<1>3. ASSUME NEW v \in Evictors, EvictSave(v) PROVE store' \in [Keys -> States]
  <2>1. [tokens |-> ev[v].tokens, lastUsed |-> ev[v].lastUsed] \in States
    BY DEF TypeOK, Evicting, States
  <2> QED
    BY <1>1, <1>3, <2>1 DEF EvictSave
<1>4. CASE Teardown
  <2>1. ASSUME NEW k \in Present
        PROVE  [tokens |-> TokensAt(heap[keys[k]].bucket, now),
                lastUsed |-> heap[keys[k]].lastUsed] \in States
    <3>1. heap[keys[k]].bucket \in Bucket /\ heap[keys[k]].lastUsed \in Int /\ now \in Int
      BY NowIsTyped, HeapIsTyped
    <3>2. TokensAt(heap[keys[k]].bucket, now) \in Int
      BY <3>1, TokensAreInt
    <3> QED
      BY <3>1, <3>2 DEF States
  <2> QED
    BY <1>1, <1>4, <2>1 DEF Teardown
<1>5. CASE UNCHANGED store
  BY <1>1, <1>5
<1> QED
  BY <1>2, <1>3, <1>4, <1>5
     DEF Next, RequestStep, Arrive, Lookup, Load, InsertLost, Insert, Touch, Draw, SweepStep,
         StartSweep, ReadUsed, ReadTokens, NextShard, DeleteOne, DropIdle, ReportSweep,
         EvictStep, EvictReadTokens, EvictReadUsed, EvictSaveFails, EvictReport, EvictDelete,
         Tick, vars

LEMMA FairStep ==
    ASSUME TypeOK, [Next]_vars
    PROVE  fair' \in [Keys -> Bucket] /\ orphaned' \in [Keys -> Nat]
<1>1. fair \in [Keys -> Bucket] /\ orphaned \in [Keys -> Nat] /\ now \in Int
  BY NowIsTyped DEF TypeOK
<1>2. ASSUME NEW r \in Requests, Draw(r)
      PROVE  fair' \in [Keys -> Bucket] /\ orphaned' \in [Keys -> Nat]
  <2> DEFINE k == req[r].key
             b == [tokens |-> TokensAt(fair[k], now) - 1, last |-> now]
  <2>1. k \in Keys
    BY <1>2, Asked DEF Draw
  <2>2. b \in Bucket
    <3>1. TokensAt(fair[k], now) \in Int
      BY <1>1, <2>1, TokensAreInt
    <3> QED
      BY <1>1, <3>1 DEF Bucket
  <2>3. fair' \in {fair, [fair EXCEPT ![k] = b]}
    BY <1>2 DEF Draw
  <2>4. fair' \in [Keys -> Bucket]
    BY <1>1, <2>2, <2>3
  <2>5. orphaned' \in {orphaned, [orphaned EXCEPT ![k] = orphaned[k] + 1]}
    BY <1>2 DEF Draw
  <2> QED
    BY <1>1, <2>1, <2>4, <2>5
<1>3. CASE UNCHANGED <<fair, orphaned>>
  BY <1>1, <1>3
<1> QED
  BY <1>2, <1>3
     DEF Next, RequestStep, Arrive, Lookup, Load, InsertLost, Insert, Touch, SweepStep,
         StartSweep, ReadUsed, ReadTokens, NextShard, FlushOne, DeleteOne, DropIdle, ReportSweep,
         EvictStep, EvictReadTokens, EvictReadUsed, EvictSave, EvictSaveFails, EvictReport,
         EvictDelete, Teardown, Tick, vars, history

LEMMA SweepTyped ==
    ASSUME TypeOK, SweepHolds, MapCounts, [Next]_vars
    PROVE  sweep' \in Sweeping'
<1>1. sweep \in Sweeping
  BY DEF TypeOK
<1>2. CASE SweepStep
  BY <1>2, SweepIsTyped, AddressesGrow
<1>3. CASE UNCHANGED sweep
  BY <1>1, <1>3, AddressesGrow
<1> QED
  BY <1>2, <1>3
     DEF Next, RequestStep, Arrive, Lookup, Load, InsertLost, Insert, Touch, Draw, EvictStep,
         EvictReadTokens, EvictReadUsed, EvictSave, EvictSaveFails, EvictReport, EvictDelete,
         Teardown, Tick, vars

LEMMA TypeStep ==
    ASSUME TypeOK, SweepHolds, MapCounts, NoneOverwritten, [Next]_vars
    PROVE  TypeOK'
<1>1. heap' \in Seq([bucket : Bucket, lastUsed : Int])
  BY HeapStep DEF Entries
<1>2. letGo' \subseteq Addresses'
  BY LetGoStep DEF MapCounts
<1> QED
  BY <1>1, <1>2, MapStep, CountersStep, StoreStep, FairStep, RequestsStep, SweepTyped,
     EvictionsStep DEF TypeOK

-----------------------------------------------------------------------------
(* What the sweep holds, and the balance of the entries.                   *)

LEMMA HoldsStep ==
    ASSUME TypeOK, SweepHolds, MapCounts, [Next]_vars
    PROVE  SweepHolds'
<1>1. sweep \in Sweeping
  BY DEF TypeOK
<1>2. ASSUME NEW s \in Sweeping, \/ sweep' = Reporting(s)
                                 \/ sweep' = s /\ s.pc \in {"delete", "drop"}
      PROVE  SweepHolds'
  <2>1. CASE sweep' = Reporting(s)
    <3>1. /\ sweep'.pc \in {"idle", "report"} /\ sweep'.evicted = s.evicted
          /\ sweep'.pc = "report" <=> s.evicted # 0
      BY <2>1, ReportingIsTyped
    <3> QED
      BY <3>1 DEF SweepHolds
  <2>2. CASE sweep' = s /\ s.pc \in {"delete", "drop"}
    BY <2>2 DEF SweepHolds
  <2> QED
    BY <1>2, <2>1, <2>2
<1>3. ASSUME UNCHANGED keys PROVE \A s : InShard(s)' = InShard(s)
  BY <1>3 DEF InShard, Present
<1>4. CASE StartSweep
  <2>1. \A s : InShard(s)' = InShard(s)
    BY <1>3, <1>4 DEF StartSweep, map
  <2> QED
    BY <1>4, <2>1 DEF StartSweep, SweepHolds, NoSweep
<1>5. ASSUME NEW k \in Keys, ReadUsed(k) PROVE SweepHolds'
  <2>1. \A s : InShard(s)' = InShard(s)
    BY <1>3, <1>5 DEF ReadUsed, map
  <2> QED
    BY <1>1, <1>5, <2>1 DEF ReadUsed, SweepHolds, Sweeping
<1>6. CASE ReadTokens
  <2>1. \A s : InShard(s)' = InShard(s)
    BY <1>3, <1>6 DEF ReadTokens, map
  <2> QED
    BY <1>1, <1>6, <2>1 DEF ReadTokens, SweepHolds, Sweeping
<1>7. CASE NextShard
  <2>1. \A s : InShard(s)' = InShard(s)
    BY <1>3, <1>7 DEF NextShard, map
  <2> QED
    BY <1>1, <1>7, <2>1 DEF NextShard, SweepHolds, Sweeping, NoSweep
<1>8. CASE FlushOne
  BY <1>1, <1>8 DEF FlushOne, SweepHolds, Sweeping
<1>9. CASE DeleteOne
  <2>1. PICK S \in SUBSET Present, e \in sweep.todo :
            LET s == [sweep EXCEPT !.todo = @ \ {e}, !.evicted = @ + Cardinality(S)]
            IN  Forget(S) /\ sweep' = IF s.todo = {} THEN Reporting(s) ELSE s
    BY <1>9, DeleteForgets
  <2> DEFINE s == [sweep EXCEPT !.todo = @ \ {e}, !.evicted = @ + Cardinality(S)]
  <2>2. sweep.evicted + Cardinality(S) \in Nat
    BY <1>1, <2>1, ForgetLeaves DEF Sweeping
  <2>3. s \in Sweeping /\ s.pc = "delete"
    BY <1>1, <1>9, <2>2 DEF DeleteOne, Sweeping
  <2>4. sweep' = Reporting(s) \/ sweep' = s
    BY <2>1
  <2> HIDE DEF s
  <2> QED
    BY <1>2, <2>3, <2>4, ReportingIsTyped
<1>10. CASE DropIdle
  <2>1. PICK S \in SUBSET InShard(sweep.shard) :
            LET s == [sweep EXCEPT !.evicted = @ + Cardinality(S), !.shard = @ + 1]
            IN  Forget(S) /\ sweep' = IF s.shard \in Shards THEN s ELSE Reporting(s)
    BY <1>10, DropForgets
  <2> DEFINE s == [sweep EXCEPT !.evicted = @ + Cardinality(S), !.shard = @ + 1]
  <2>2. sweep.evicted + Cardinality(S) \in Nat /\ sweep.shard + 1 \in Nat
    BY <1>1, <2>1, ForgetLeaves DEF InShard, Sweeping
  <2>3. s \in Sweeping /\ s.pc = "drop"
    BY <1>1, <1>10, <2>2 DEF DropIdle, Sweeping
  <2>4. sweep' = Reporting(s) \/ sweep' = s
    BY <2>1
  <2> HIDE DEF s
  <2> QED
    BY <1>2, <2>3, <2>4, ReportingIsTyped
<1>11. CASE ReportSweep
  <2> DEFINE n == IF Persists \/ Observes THEN 1 ELSE sweep.evicted
             s == [sweep EXCEPT !.evicted = @ - n]
  <2>1. sweep.evicted \in Nat /\ sweep.evicted # 0
    BY <1>1, <1>11 DEF ReportSweep, SweepHolds, Sweeping
  <2>2. sweep.evicted - n \in Nat
    BY <2>1
  <2>3. s \in Sweeping /\ sweep' = Reporting(s)
    BY <1>1, <1>11, <2>2 DEF ReportSweep, Sweeping
  <2> HIDE DEF s
  <2> QED
    BY <1>2, <2>3, ReportingIsTyped
<1>12. CASE UNCHANGED <<sweep, keys>>
  BY <1>3, <1>12 DEF SweepHolds
<1>13. ASSUME NEW r \in Requests, Insert(r) PROVE SweepHolds'
  <2>1. (\A s : InShard(s) \subseteq InShard(s)') /\ UNCHANGED sweep
    BY <1>13, InsertAdds DEF Insert
  <2> QED
    BY <2>1 DEF SweepHolds
\* The deletion waits for the lock of the shard the sweep is reading.
<1>14. ASSUME NEW v \in Evictors, NEW k \in Keys, EvictDelete(v, k) PROVE SweepHolds'
  <2>1. (\A s : InShard(s)' = InShard(s) \ {k}) /\ UNCHANGED sweep
    BY <1>14, ForgetLeaves DEF EvictDelete
  <2>2. ASSUME sweep.pc \in {"scan", "read"} PROVE k \notin InShard(sweep.shard)
    BY <1>14, <2>2 DEF EvictDelete, Writable, Locked, InShard
  <2> QED
    BY <2>1, <2>2 DEF SweepHolds
<1>15. CASE Teardown
  BY <1>15 DEF Teardown, Quiet, SweepHolds
<1> QED
  BY <1>4, <1>5, <1>6, <1>7, <1>8, <1>9, <1>10, <1>11, <1>12, <1>13, <1>14, <1>15
     DEF Next, RequestStep, Arrive, Lookup, Load, InsertLost, Touch, Draw, SweepStep, EvictStep,
         EvictReadTokens, EvictReadUsed, EvictSave, EvictSaveFails, EvictReport, Tick, map, vars

\* The Evicts under way, whose entry is counted by nothing else.
Busy == {v \in Evictors : ev[v].pc # "idle"}

LEMMA Counted ==
    ASSUME TypeOK
    PROVE  /\ Len(heap) \in Nat /\ Cardinality(Present) \in Nat /\ evictions \in Nat
           /\ unsaved \in Nat /\ sweep \in Sweeping /\ sweep.evicted \in Nat
           /\ IsFiniteSet(Busy) /\ Cardinality(Busy) \in Nat
<1>1. IsFiniteSet(Busy) /\ Cardinality(Busy) \in Nat
  BY RegistryAssumption, FS_Subset, FS_CardinalityType DEF Busy
<1> QED
  BY <1>1, HeapIsTyped, KeysAreFinite DEF TypeOK, Sweeping

\* Sums by their terms: what one count loses another gains.
LEMMA Sums ==
    ASSUME TypeOK, EntriesBalance,
           Len(heap') = Len(heap),
           NEW p \in Int, NEW e \in Int, NEW u \in Int, NEW s \in Int, NEW b \in Int,
           p + e + u + s + b = 0,
           Cardinality(Present') = Cardinality(Present) + p, evictions' = evictions + e,
           unsaved' = unsaved + u, sweep'.evicted = sweep.evicted + s,
           Cardinality(Busy') = Cardinality(Busy) + b
    PROVE  EntriesBalance'
<1>1. PICK p1 \in Nat, e1 \in Nat, u1 \in Nat, s1 \in Nat, b1 \in Nat :
          /\ p1 = Cardinality(Present) /\ e1 = evictions /\ u1 = unsaved
          /\ s1 = sweep.evicted /\ b1 = Cardinality(Busy)
  BY Counted
<1>2. Len(heap) = p1 + e1 + u1 + s1 + b1
  BY <1>1 DEF EntriesBalance, Busy
<1>3. (p1 + p) + (e1 + e) + (u1 + u) + (s1 + s) + (b1 + b) = p1 + e1 + u1 + s1 + b1
  OBVIOUS
<1>4. Cardinality(Present') + evictions' + unsaved' + sweep'.evicted + Cardinality(Busy')
         = (p1 + p) + (e1 + e) + (u1 + u) + (s1 + s) + (b1 + b)
  BY <1>1
<1>5. Len(heap') = Cardinality(Present') + evictions' + unsaved' + sweep'.evicted
                   + Cardinality(Busy')
  BY <1>2, <1>3, <1>4
<1> QED
  BY <1>5 DEF EntriesBalance, Busy

LEMMA EvictionBalance ==
    ASSUME TypeOK, MapCounts, EntriesBalance, NEW v \in Evictors,
           EvictStep(v) \/ \E k \in Keys : EvictDelete(v, k)
    PROVE  EntriesBalance'
<1>1. ev \in [Evictors -> Evicting]
  BY DEF TypeOK
<1>2. UNCHANGED <<heap, sweep>> /\ Len(heap') = Len(heap) /\ sweep'.evicted = sweep.evicted + 0
  <2>1. UNCHANGED <<heap, sweep>>
    BY DEF EvictStep, EvictReadTokens, EvictReadUsed, EvictSave, EvictSaveFails, EvictReport,
           EvictDelete, map
  <2> QED
    BY <2>1, Counted
<1>3. CASE EvictReadTokens(v) \/ EvictReadUsed(v) \/ EvictSave(v)
  <2>1. UNCHANGED <<keys, evictions, unsaved>>
    BY <1>3 DEF EvictReadTokens, EvictReadUsed, EvictSave, map, history
  <2>2. Present' = Present /\ Busy' = Busy
    BY <1>1, <1>3, <2>1
       DEF EvictReadTokens, EvictReadUsed, EvictSave, Busy, Present, Evicting
  <2> QED
    BY <1>2, <2>1, <2>2 DEF EntriesBalance, Busy
<1>4. CASE EvictSaveFails(v) \/ EvictReport(v)
  <2>1. Present' = Present /\ Busy' = Busy \ {v} /\ v \in Busy
    BY <1>1, <1>4 DEF EvictSaveFails, EvictReport, Busy, Present, NoEvict, map
  <2>2. Cardinality(Present') = Cardinality(Present) + 0 /\ Cardinality(Busy') = Cardinality(Busy) + (-1)
    <3>1. Cardinality(Busy') = Cardinality(Busy) - 1
      BY <2>1, Counted, FS_RemoveElement
    <3>2. Cardinality(Present') = Cardinality(Present)
      BY <2>1
    <3> QED
      BY <3>1, <3>2, Counted
  <2>3. CASE EvictSaveFails(v)
    <3>1. evictions' = evictions + 0 /\ unsaved' = unsaved + 1
      BY <2>3, Counted DEF EvictSaveFails
    <3> QED
      BY <1>2, <2>2, <3>1, 0 + 0 + 1 + 0 + (-1) = 0, Sums
  <2>4. CASE EvictReport(v)
    <3>1. evictions' = evictions + 1 /\ unsaved' = unsaved + 0
      BY <2>4, Counted DEF EvictReport, history
    <3> QED
      BY <1>2, <2>2, <3>1, 0 + 1 + 0 + 0 + (-1) = 0, Sums
  <2> QED
    BY <1>4, <2>3, <2>4
<1>5. ASSUME NEW k \in Keys, EvictDelete(v, k) PROVE EntriesBalance'
  <2>1. Forget({k}) /\ {k} \in SUBSET Present /\ evictions' = evictions + 0 /\ unsaved' = unsaved + 0
    <3>1. Forget({k}) /\ {k} \in SUBSET Present /\ UNCHANGED <<evictions, unsaved>>
      BY <1>5 DEF EvictDelete, history
    <3> QED
      BY <3>1, Counted
  <2>2. Busy' = Busy \cup {v} /\ v \notin Busy
    BY <1>1, <1>5 DEF EvictDelete, Busy, NoEvict
  <2>3. Cardinality(Busy') = Cardinality(Busy) + 1
    BY <2>2, Counted, FS_AddElement
  <2>4. Cardinality(Present') = Cardinality(Present) + (-1)
    <3>1. Cardinality({k}) = 1
      BY FS_Singleton
    <3>2. /\ Cardinality(Present) = Cardinality(Present') + Cardinality({k})
          /\ Cardinality(Present') \in Nat
      BY <2>1, ForgetLeaves
    <3> QED
      BY <3>1, <3>2
  <2> QED
    BY <1>2, <2>1, <2>3, <2>4, (-1) + 0 + 0 + 0 + 1 = 0, Sums
<1> QED
  BY <1>3, <1>4, <1>5 DEF EvictStep

LEMMA SweepBalance ==
    ASSUME TypeOK, SweepHolds, MapCounts, EntriesBalance, SweepStep
    PROVE  EntriesBalance'
<1>1. UNCHANGED <<heap, unsaved, ev>>
  BY DEF SweepStep, StartSweep, ReadUsed, ReadTokens, NextShard, FlushOne, DeleteOne, DropIdle,
         ReportSweep, map, history
<1>2. /\ Len(heap') = Len(heap) /\ unsaved' = unsaved + 0 /\ Busy' = Busy
      /\ Cardinality(Busy') = Cardinality(Busy) + 0
  <2>1. Busy' = Busy
    BY <1>1 DEF Busy
  <2> QED
    BY <1>1, <2>1, Counted
<1>3. ASSUME UNCHANGED <<keys, evictions>>, sweep'.evicted = sweep.evicted PROVE EntriesBalance'
  BY <1>1, <1>2, <1>3 DEF EntriesBalance, Busy, Present
\* The deleted keys pass to the count the sweep is going to report.
<1>4. ASSUME NEW S \in SUBSET Present, Forget(S), UNCHANGED evictions,
             sweep'.evicted = sweep.evicted + Cardinality(S)
      PROVE  EntriesBalance'
  <2>1. PICK n \in Nat : n = Cardinality(S)
    BY <1>4, ForgetLeaves
  <2>2. Cardinality(Present') = Cardinality(Present) + (-n)
    <3>1. /\ Cardinality(Present) = Cardinality(Present') + Cardinality(S)
          /\ Cardinality(Present') \in Nat
      BY <1>4, ForgetLeaves
    <3> QED
      BY <2>1, <3>1
  <2>3. evictions' = evictions + 0 /\ sweep'.evicted = sweep.evicted + n
    BY <1>4, <2>1, Counted
  <2>4. -n \in Int /\ (-n) + 0 + 0 + n + 0 = 0
    OBVIOUS
  <2> QED
    BY <1>2, <2>2, <2>3, <2>4, Sums
<1>5. CASE StartSweep
  <2>1. UNCHANGED <<keys, evictions>> /\ sweep'.evicted = 0 /\ sweep.evicted = 0
    BY <1>5 DEF StartSweep, SweepHolds, NoSweep, map
  <2> QED
    BY <1>3, <2>1
<1>6. ASSUME NEW k \in Keys, ReadUsed(k) PROVE EntriesBalance'
  <2>1. UNCHANGED <<keys, evictions>> /\ sweep'.evicted = sweep.evicted
    BY <1>6, Counted DEF ReadUsed, Sweeping, map
  <2> QED
    BY <1>3, <2>1
<1>7. CASE ReadTokens
  <2>1. UNCHANGED <<keys, evictions>> /\ sweep'.evicted = sweep.evicted
    BY <1>7, Counted DEF ReadTokens, Sweeping, map
  <2> QED
    BY <1>3, <2>1
<1>8. CASE NextShard
  <2>1. UNCHANGED <<keys, evictions>> /\ sweep'.evicted = sweep.evicted
    BY <1>8, Counted DEF NextShard, SweepHolds, NoSweep, Sweeping, map
  <2> QED
    BY <1>3, <2>1
<1>9. CASE FlushOne
  <2>1. UNCHANGED <<keys, evictions>> /\ sweep'.evicted = sweep.evicted
    BY <1>9, Counted DEF FlushOne, Sweeping, map
  <2> QED
    BY <1>3, <2>1
<1>10. CASE DeleteOne
  <2>1. PICK S \in SUBSET Present, e \in sweep.todo :
            LET s == [sweep EXCEPT !.todo = @ \ {e}, !.evicted = @ + Cardinality(S)]
            IN  Forget(S) /\ sweep' = IF s.todo = {} THEN Reporting(s) ELSE s
    BY <1>10, DeleteForgets
  <2> DEFINE s == [sweep EXCEPT !.todo = @ \ {e}, !.evicted = @ + Cardinality(S)]
  <2>2. sweep.evicted + Cardinality(S) \in Nat
    BY <2>1, Counted, ForgetLeaves
  <2>3. s \in Sweeping /\ s.evicted = sweep.evicted + Cardinality(S)
    BY <2>2, Counted DEF Sweeping
  <2>4. sweep' = Reporting(s) \/ sweep' = s
    BY <2>1
  <2> HIDE DEF s
  <2>5. sweep'.evicted = sweep.evicted + Cardinality(S) /\ UNCHANGED evictions
    BY <1>10, <2>3, <2>4, ReportingIsTyped DEF DeleteOne
  <2> QED
    BY <1>4, <2>1, <2>5
<1>11. CASE DropIdle
  <2>1. PICK S \in SUBSET InShard(sweep.shard) :
            LET s == [sweep EXCEPT !.evicted = @ + Cardinality(S), !.shard = @ + 1]
            IN  Forget(S) /\ sweep' = IF s.shard \in Shards THEN s ELSE Reporting(s)
    BY <1>11, DropForgets
  <2> DEFINE s == [sweep EXCEPT !.evicted = @ + Cardinality(S), !.shard = @ + 1]
  <2>2. S \in SUBSET Present
    BY DEF InShard
  <2>3. sweep.evicted + Cardinality(S) \in Nat /\ sweep.shard + 1 \in Nat
    BY <2>1, <2>2, Counted, ForgetLeaves DEF Sweeping
  <2>4. s \in Sweeping /\ s.evicted = sweep.evicted + Cardinality(S)
    BY <2>3, Counted DEF Sweeping
  <2>5. sweep' = Reporting(s) \/ sweep' = s
    BY <2>1
  <2> HIDE DEF s
  <2>6. sweep'.evicted = sweep.evicted + Cardinality(S) /\ UNCHANGED evictions
    BY <1>11, <2>4, <2>5, ReportingIsTyped DEF DropIdle
  <2> QED
    BY <1>4, <2>1, <2>2, <2>6
<1>12. CASE ReportSweep
  <2>1. sweep.evicted \in Nat /\ sweep.evicted # 0
    BY <1>12, Counted DEF ReportSweep, SweepHolds
  <2>2. PICK n \in Nat : n = IF Persists \/ Observes THEN 1 ELSE sweep.evicted
    BY <2>1
  <2> DEFINE s == [sweep EXCEPT !.evicted = @ - n]
  <2>3. UNCHANGED keys /\ evictions' = evictions + n /\ sweep' = Reporting(s)
    BY <1>12, <2>2 DEF ReportSweep, map
  <2>4. sweep.evicted - n \in Nat /\ sweep.evicted - n = sweep.evicted + (-n)
    BY <2>1, <2>2
  <2>5. s \in Sweeping /\ s.evicted = sweep.evicted + (-n)
    BY <2>4, Counted DEF Sweeping
  <2> HIDE DEF s
  <2>6. sweep'.evicted = sweep.evicted + (-n)
    BY <2>3, <2>5, ReportingIsTyped
  <2>7. Cardinality(Present') = Cardinality(Present) + 0
    BY <2>3, Counted DEF Present
  <2>8. -n \in Int /\ 0 + n + 0 + (-n) + 0 = 0
    OBVIOUS
  <2> QED
    BY <1>2, <2>3, <2>6, <2>7, <2>8, Sums
<1> QED
  BY <1>5, <1>6, <1>7, <1>8, <1>9, <1>10, <1>11, <1>12 DEF SweepStep

LEMMA BalanceStep ==
    ASSUME TypeOK, SweepHolds, MapCounts, EntriesBalance, [Next]_vars
    PROVE  EntriesBalance'
<1>1. Len(heap) = Cardinality(Present) + evictions + unsaved + sweep.evicted + Cardinality(Busy)
  BY DEF EntriesBalance, Busy
<1>2. ASSUME NEW r \in Requests, Insert(r) PROVE EntriesBalance'
  <2>1. /\ Len(heap') = Len(heap) + 1
        /\ UNCHANGED <<evictions, unsaved, sweep, ev>>
    BY <1>2, Asked, NewEntryIsTyped, EntryAdded DEF Insert, history
  <2>2. Cardinality(Present') = Cardinality(Present) + 1 /\ Busy' = Busy
    BY <1>2, <2>1, InsertAdds DEF Busy
  <2>3. Len(heap') = Cardinality(Present') + evictions' + unsaved' + sweep'.evicted
                     + Cardinality(Busy')
    BY <1>1, <2>1, <2>2, Counted
  <2> QED
    BY <2>3 DEF EntriesBalance, Busy
<1>3. CASE Teardown
  <2>1. /\ UNCHANGED <<heap, unsaved, sweep, ev>>
        /\ evictions' = evictions + Cardinality(Present)
    BY <1>3 DEF Teardown, history
  <2>2. Cardinality(Present') = 0 /\ Busy' = Busy
    BY <1>3, <2>1, TeardownClears DEF Busy
  <2>3. Len(heap') = Cardinality(Present') + evictions' + unsaved' + sweep'.evicted
                     + Cardinality(Busy')
    BY <1>1, <2>1, <2>2, Counted
  <2> QED
    BY <2>3 DEF EntriesBalance, Busy
<1>4. CASE Len(heap') = Len(heap) /\ UNCHANGED <<keys, evictions, unsaved, sweep, ev>>
  BY <1>4 DEF EntriesBalance, Present
<1> QED
  BY <1>2, <1>3, <1>4, HeapStep, SweepBalance, EvictionBalance
     DEF Next, RequestStep, Arrive, Lookup, Load, InsertLost, Touch, Draw, Tick, map, history, vars

-----------------------------------------------------------------------------

LEMMA RegistryInit == Init => RegistryInv
<1> SUFFICES ASSUME Init PROVE RegistryInv
  OBVIOUS
<1>1. heap = <<>> /\ Len(heap) = 0 /\ heap \in Seq([bucket : Bucket, lastUsed : Int])
  BY EmptySeq DEF Init
<1>2. Present = {} /\ (\A s : InShard(s) = {}) /\ Busy = {} /\ Cardinality({}) = 0
  BY FS_EmptySet DEF Init, Present, InShard, Busy, NoEvict
<1>3. NoRequest \in Asking /\ NoEvict \in Evicting /\ NoSweep \in Sweeping /\ NoState \in States
  BY NoSweepIsTyped DEF NoRequest, NoEvict, Asking, Evicting, States
<1>4. TypeOK
  <2>1. /\ MaxTime \in Nat /\ MaxRequests \in Nat
        /\ NoRequest.pc = "idle" /\ NoEvict.pc = "idle"
    BY RegistryAssumption DEF NoRequest, NoEvict
  <2>2. /\ now \in 0..MaxTime /\ evictions \in Nat /\ unsaved \in Nat
        /\ requests \in 0..MaxRequests /\ config \in Configs /\ closed \in BOOLEAN
    <3>1. now = 0 /\ evictions = 0 /\ unsaved = 0 /\ requests = 0 /\ config \in Configs /\ closed = FALSE
      BY DEF Init
    <3>2. 0 \in 0..MaxTime /\ 0 \in 0..MaxRequests
      BY <2>1
    <3> QED
      BY <3>1, <3>2
  <2>3. keys \in [Keys -> {Absent} \cup Addresses] /\ live \in [Shards -> Nat]
    BY DEF Init
  <2>4. /\ store \in [Keys -> States] /\ req \in [Requests -> Asking]
        /\ ev \in [Evictors -> Evicting] /\ sweep \in Sweeping
    BY <1>3 DEF Init
  <2>5. fair \in [Keys -> Bucket] /\ orphaned \in [Keys -> Nat] /\ letGo \subseteq Addresses
    BY FullIsABucket DEF Init
  <2>6. (\A r \in Requests : req[r].pc = "idle") /\ (\A v \in Evictors : ev[v].pc = "idle")
    BY <2>1 DEF Init
  <2> QED
    BY <1>1, <2>2, <2>3, <2>4, <2>5, <2>6 DEF TypeOK
<1>5. SweepHolds
  BY DEF Init, SweepHolds, NoSweep
<1>6. MapCounts /\ NoneOverwritten /\ HandsHold
  <2>1. letGo = {} /\ Addresses = {}
    BY <1>1 DEF Init, Addresses
  <2>2. NoneOverwritten
    BY <1>2, <2>1 DEF NoneOverwritten
  <2>3. HandsHold
    BY DEF Init, HandsHold, NoRequest
  <2>4. MapCounts
    BY <1>2 DEF Init, MapCounts, KeysAreApart
  <2> QED
    BY <2>2, <2>3, <2>4
<1>7. EntriesBalance
  <2>1. evictions = 0 /\ unsaved = 0 /\ sweep.evicted = 0
    BY DEF Init, NoSweep
  <2>2. Cardinality(Present) = 0 /\ Cardinality(Busy) = 0
    BY <1>2
  <2>3. Len(heap) = Cardinality(Present) + evictions + unsaved + sweep.evicted + Cardinality(Busy)
    BY <1>1, <2>1, <2>2
  <2> QED
    BY <2>3 DEF EntriesBalance, Busy
<1> QED
  BY <1>4, <1>5, <1>6, <1>7, Counts DEF RegistryInv

LEMMA RegistryStep == RegistryInv /\ [Next]_vars => RegistryInv'
<1> SUFFICES ASSUME RegistryInv, [Next]_vars PROVE RegistryInv'
  OBVIOUS
<1>1. /\ TypeOK /\ SweepHolds /\ EntriesBalance
      /\ MapCounts /\ NoneOverwritten /\ HandsHold /\ KeysAreApart
  BY Counts DEF RegistryInv, MapCounts
<1>2. TypeOK' /\ SweepHolds' /\ EntriesBalance'
  BY <1>1, TypeStep, HoldsStep, BalanceStep
<1>3. MapCounts' /\ NoneOverwritten' /\ HandsHold'
  BY <1>1, MapStep, LetGoStep, HandsStep
<1>4. OneLiveEntry' /\ KeysAreApart'
  BY <1>3 DEF OneLiveEntry, MapCounts, NoneOverwritten, HandsHold
<1> QED
  BY <1>2, <1>4 DEF RegistryInv

\* Whatever requests, the sweep, explicit evictions and failing stores do
\* (registry.go, gc.go), what the sweep read under a shard's lock is in the map
\* while it holds that lock, and no entry is lost or counted twice between the
\* map and Stats.Evictions (gc.go:62).
THEOREM RegistryInvariant == Spec => []RegistryInv
<1> QED
  BY RegistryInit, RegistryStep, PTL DEF Spec

\* "the loser's result is discarded" (registry.go:255): no entry is ever stored
\* over another, so the one a request has in hand is its key's or was let go of by
\* the sweep, an Evict or DropAll; and every shard's live counter is the size of
\* its map through all of it.
THEOREM LiveEntriesForAll == Spec => []OneLiveEntry
<1>1. RegistryInv => OneLiveEntry
  BY DEF RegistryInv
<1> QED
  BY <1>1, RegistryInvariant, PTL

-----------------------------------------------------------------------------
(* The shards' counters add up to the keys.                                *)

\* The keys of the first n shards.
FirstShards(n) == {k \in Present : ShardOf[k] <= n}

LEMMA ShardsAreNumbered ==
    /\ Cardinality(Shards) \in Nat
    /\ \A n : n \in Shards <=> n \in Nat /\ 1 <= n /\ n <= Cardinality(Shards)
    /\ \A k \in Keys : ShardOf[k] \in Nat /\ 1 <= ShardOf[k] /\ ShardOf[k] <= Cardinality(Shards)
<1>1. Cardinality(Shards) \in Nat
  BY RegistryAssumption, FS_CardinalityType
<1>2. \A n : n \in Shards <=> n \in Nat /\ 1 <= n /\ n <= Cardinality(Shards)
  BY <1>1, RegistryAssumption
<1> QED
  BY <1>1, <1>2, RegistryAssumption

\* One shard more.
LEMMA ShardByShard ==
    ASSUME NEW n \in Shards
    PROVE  /\ Cardinality(FirstShards(n)) = Cardinality(FirstShards(n - 1)) + Cardinality(InShard(n))
           /\ Cardinality(FirstShards(n)) \in Nat /\ Cardinality(FirstShards(n - 1)) \in Nat
<1>1. n \in Nat
  BY ShardsAreNumbered
<1>2. \A k \in Present : ShardOf[k] \in Nat
  BY ShardsAreNumbered DEF Present
<1>3. /\ FirstShards(n) = FirstShards(n - 1) \cup InShard(n)
      /\ FirstShards(n - 1) \cap InShard(n) = {}
  BY <1>1, <1>2 DEF FirstShards, InShard
<1>4. /\ IsFiniteSet(FirstShards(n)) /\ IsFiniteSet(FirstShards(n - 1)) /\ IsFiniteSet(InShard(n))
      /\ Cardinality(FirstShards(n)) \in Nat /\ Cardinality(FirstShards(n - 1)) \in Nat
      /\ Cardinality(InShard(n)) \in Nat
  <2>1. FirstShards(n) \subseteq Present /\ FirstShards(n - 1) \subseteq Present
    BY DEF FirstShards
  <2> QED
    BY <2>1, KeysAreFinite, FS_Subset, FS_CardinalityType
<1>5. Cardinality(FirstShards(n)) =
         Cardinality(FirstShards(n - 1)) + Cardinality(InShard(n)) - Cardinality({})
  BY <1>3, <1>4, FS_Union
<1> QED
  BY <1>4, <1>5, FS_EmptySet

\* A set of numbers has a least one.
LEMMA HasALeast ==
    ASSUME NEW T \in SUBSET Nat, T # {}
    PROVE  \E m \in T : \A n \in T : m <= n
<1> DEFINE R == OpToRel(<, Nat)
<1>1. PICK m \in T : \A n \in T : <<n, m>> \notin R
  BY NatLessThanWellFounded, WFMin
<1>2. \A n \in T : ~(n < m)
  BY <1>1 DEF OpToRel
<1> QED
  BY <1>2

\* The loop's equation has one solution: the number of keys it has passed.
LEMMA LoopCounts ==
    ASSUME MapCounts
    PROVE  KeyCount = Cardinality(Present)
<1>N. PICK N : N = Cardinality(Shards)
  OBVIOUS
<1>1. N \in Nat
  BY <1>N, ShardsAreNumbered
<1> DEFINE Loops(f) == f = [n \in 0..N |-> IF n = 0 THEN 0 ELSE f[n - 1] + live[n]]
           count == [n \in 0..N |-> Cardinality(FirstShards(n))]
<1>2. FirstShards(0) = {} /\ Cardinality(FirstShards(0)) = 0
  <2>1. FirstShards(0) = {}
    BY ShardsAreNumbered DEF FirstShards, Present
  <2> QED
    BY <2>1, FS_EmptySet
<1>3. ASSUME NEW n \in 1..N
      PROVE  /\ Cardinality(FirstShards(n)) = Cardinality(FirstShards(n - 1)) + live[n]
             /\ n - 1 \in 0..N
  <2>1. n \in Shards
    BY <1>1, <1>N, <1>3, ShardsAreNumbered
  <2>2. live[n] = Cardinality(InShard(n))
    BY <2>1 DEF MapCounts, KeysAreApart
  <2> QED
    BY <1>1, <1>3, <2>1, <2>2, ShardByShard
<1>4. Loops(count)
  <2>1. ASSUME NEW n \in 0..N
        PROVE  count[n] = IF n = 0 THEN 0 ELSE count[n - 1] + live[n]
    <3>1. CASE n = 0
      BY <1>2, <2>1, <3>1
    <3>2. CASE n # 0
      <4>1. n \in 1..N
        BY <1>1, <2>1, <3>2
      <4> QED
        BY <1>3, <2>1, <3>2, <4>1
    <3> QED
      BY <3>1, <3>2
  <2> QED
    BY <2>1
<1>5. KeysUpTo = CHOOSE f : Loops(f)
  BY <1>N DEF KeysUpTo
<1>6. Loops(KeysUpTo)
  BY <1>4, <1>5
<1>7. ASSUME NEW n \in 0..N PROVE KeysUpTo[n] = count[n]
  <2> DEFINE T == {i \in 0..N : KeysUpTo[i] # count[i]}
  <2> SUFFICES ASSUME T # {} PROVE FALSE
    BY <1>7
  <2>1. T \in SUBSET Nat
    BY <1>1
  <2> HIDE DEF count
  <2>2. PICK m \in T : \A i \in T : m <= i
    BY <2>1, HasALeast
  <2>3. m \in 0..N /\ KeysUpTo[m] # count[m]
    BY <2>2
  <2>4. m # 0
    <3>1. KeysUpTo[0] = 0 /\ count[0] = 0
      BY <1>1, <1>4, <1>6
    <3> QED
      BY <2>3, <3>1
  <2>5. m - 1 \in 0..N /\ m - 1 \notin T
    BY <1>1, <2>2, <2>3, <2>4
  <2>6. KeysUpTo[m - 1] = count[m - 1]
    BY <2>5
  <2>7. KeysUpTo[m] = KeysUpTo[m - 1] + live[m] /\ count[m] = count[m - 1] + live[m]
    BY <1>4, <1>6, <2>3, <2>4
  <2> QED
    BY <2>3, <2>6, <2>7
<1>8. KeyCount = count[N]
  BY <1>1, <1>7, <1>N DEF KeyCount
<1>9. FirstShards(N) = Present
  BY <1>N, ShardsAreNumbered DEF FirstShards, Present
<1> QED
  BY <1>1, <1>8, <1>9

\* "a snapshot that says N keys and +N evictions at the same time ... cannot both
\* be true" (gc.go:62): over the counters that Stats reads, every entry ever made
\* is a key, is counted as an eviction, is on its way there, or belonged to an
\* Evict whose save failed, which nothing counts.
THEOREM EveryEntryForAll == Spec => []EveryEntryAccounted
<1>1. RegistryInv => EveryEntryAccounted
  BY LoopCounts, Counts DEF RegistryInv, EntriesBalance, EveryEntryAccounted
<1> QED
  BY <1>1, RegistryInvariant, PTL

===============================================================================
