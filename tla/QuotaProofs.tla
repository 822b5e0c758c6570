------------------------------ MODULE QuotaProofs ------------------------------
(***************************************************************************)
(* Quotas proved for any number of keys, creations and reloads, and for    *)
(* every answer of the hook: what a bucket enforces and reports is always  *)
(* usable, what is reported is what is enforced, and a reload keeps the    *)
(* tokens a bucket has accrued and leaves out nobody it has found.         *)
(***************************************************************************)
EXTENDS Quota, FiniteSetTheorems, SequenceTheorems, WellFoundedInduction, TLAPS

-----------------------------------------------------------------------------
(* The rates and the bucket.                                               *)

Sound == {b \in Buckets : {Enforced(b), b.published} \subseteq UsableQuota}

LEMMA SoundFields ==
    ASSUME NEW b \in Sound
    PROVE  /\ b \in Buckets
           /\ b.tokens \in Nat /\ b.last \in 0..MaxTime
           /\ b.limit \in UsableRate /\ b.burst \in Nat \ {0}
           /\ b.published \in UsableQuota
  BY DEF Sound, Buckets, Enforced, UsableQuota

\* Inf is no integer and no special value: it alone passes every floor as it is.
LEMMA UsableIsKept ==
    ASSUME NEW r \in UsableRate
    PROVE  usableRate(r) = r /\ r \in Rate /\ r # NaN
  BY RatesAssumption DEF usableRate, UsableRate, Rate, NotNumbers

LEMMA UsableIsAny == UsableQuota \subseteq AnyQuota
<1>1. UsableRate \subseteq Rate /\ Nat \ {0} \subseteq Int
  BY DEF Rate, UsableRate
<1> QED
  BY <1>1 DEF UsableQuota, AnyQuota

LEMMA Instants == MaxTime \in Nat /\ \A t \in 0..MaxTime : t \in Nat
  BY QuotaAssumption

\* Every usable rate but Inf adds a whole number of tokens.
LEMMA AccrualIsWhole ==
    ASSUME NEW r \in UsableRate, r # Inf
    PROVE  Accrual(r) \in Nat
  BY DEF Accrual, UsableRate

\* TokensAt by its three cases.
LEMMA Accrues ==
    ASSUME NEW b \in Sound, NEW t \in Nat
    PROVE  /\ t <= b.last => TokensAt(b, t) = LesserOf(b.burst, b.tokens)
           /\ t > b.last /\ b.limit = Inf => TokensAt(b, t) = LesserOf(b.burst, b.burst)
           /\ t > b.last /\ b.limit # Inf =>
                TokensAt(b, t) = LesserOf(b.burst, b.tokens + Accrual(b.limit) * (t - b.last))
<1>1. b.limit \in UsableRate /\ b.limit # NaN /\ b.last \in Nat /\ b.tokens \in Nat
  BY SoundFields, UsableIsKept, Instants
<1> QED
  BY <1>1 DEF TokensAt

LEMMA Product ==
    ASSUME NEW r \in Nat, NEW d \in Nat
    PROVE  r * d \in Nat
  OBVIOUS

LEMMA TokensAreWhole ==
    ASSUME NEW b \in Sound, NEW t \in Nat
    PROVE  TokensAt(b, t) \in Nat /\ TokensAt(b, t) <= b.burst
<1>1. /\ b.tokens \in Nat /\ b.last \in Nat
      /\ b.limit \in UsableRate /\ b.burst \in Nat
  BY SoundFields
<1>2. ASSUME t > b.last, b.limit # Inf PROVE Accrual(b.limit) * (t - b.last) \in Nat
  BY <1>1, <1>2, AccrualIsWhole, Product
<1> QED
  BY <1>1, <1>2, Accrues DEF LesserOf

LEMMA NewBucketIsSound ==
    ASSUME NEW q \in UsableQuota
    PROVE  /\ NewBucket(q) \in Sound
           /\ Enforced(NewBucket(q)) = q /\ NewBucket(q).published = q
<1>1. [q EXCEPT !.rate = usableRate(@)] = q
  BY UsableIsKept DEF UsableQuota
<1>2. q \in [rate : UsableRate, burst : Nat \ {0}] /\ q.rate \in Rate /\ q \in AnyQuota
  BY UsableIsKept, UsableIsAny DEF UsableQuota
<1>3. MaxTime \in Nat
  BY QuotaAssumption
<1>4. NewBucket(q) = [tokens |-> q.burst, last |-> 0, limit |-> q.rate, burst |-> q.burst, published |-> q]
  BY <1>1 DEF NewBucket
<1>5. Enforced(NewBucket(q)) = q
  BY <1>2, <1>4 DEF Enforced
<1> QED
  BY <1>2, <1>3, <1>4, <1>5 DEF Sound, Buckets

\* What each change of a bucket leaves alone.
LEMMA AllowKeeps ==
    ASSUME NEW b \in Sound, NEW t \in 0..MaxTime
    PROVE  /\ AllowAt(b, t) \in Sound
           /\ Enforced(AllowAt(b, t)) = Enforced(b) /\ AllowAt(b, t).published = b.published
<1>1. CASE AllowAt(b, t) = b
  BY <1>1
<1>2. CASE AllowAt(b, t) # b
  <2>1. b.limit # Inf /\ TokensAt(b, t) >= 1
    BY <1>2 DEF AllowAt, Allows
  <2>2. AllowAt(b, t) = [b EXCEPT !.tokens = TokensAt(b, t) - 1, !.last = t]
    BY <1>2 DEF AllowAt
  <2>3. TokensAt(b, t) - 1 \in Nat
    BY <2>1, TokensAreWhole, Instants
  <2> QED
    BY <2>2, <2>3 DEF Sound, Buckets, Enforced
<1> QED
  BY <1>1, <1>2

LEMMA SetLimitKeeps ==
    ASSUME NEW b \in Sound, NEW t \in 0..MaxTime, NEW r \in UsableRate
    PROVE  /\ SetLimitAt(b, t, r) \in Sound
           /\ Enforced(SetLimitAt(b, t, r)) = [Enforced(b) EXCEPT !.rate = r]
<1>1. TokensAt(b, t) \in Nat /\ r \in Rate
  BY TokensAreWhole, UsableIsKept, Instants
<1>2. SetLimitAt(b, t, r) \in Buckets
  BY <1>1 DEF SetLimitAt, Sound, Buckets
<1>3. /\ Enforced(SetLimitAt(b, t, r)) = [rate |-> r, burst |-> b.burst]
      /\ SetLimitAt(b, t, r).published = b.published
  BY DEF SetLimitAt, Sound, Buckets, Enforced
<1>4. b.burst \in Nat \ {0} /\ b.published \in UsableQuota
  BY SoundFields
<1> QED
  BY <1>2, <1>3, <1>4 DEF Sound, Enforced, UsableQuota

LEMMA SetBurstKeeps ==
    ASSUME NEW b \in Sound, NEW t \in 0..MaxTime, NEW n \in Nat \ {0}
    PROVE  /\ SetBurstAt(b, t, n) \in Sound
           /\ Enforced(SetBurstAt(b, t, n)) = [Enforced(b) EXCEPT !.burst = n]
<1>1. TokensAt(b, t) \in Nat /\ n \in Int
  BY TokensAreWhole, Instants
<1>2. SetBurstAt(b, t, n) \in Buckets
  BY <1>1 DEF SetBurstAt, Sound, Buckets
<1>3. /\ Enforced(SetBurstAt(b, t, n)) = [rate |-> b.limit, burst |-> n]
      /\ SetBurstAt(b, t, n).published = b.published
  BY DEF SetBurstAt, Sound, Buckets, Enforced
<1>4. b.limit \in UsableRate /\ b.published \in UsableQuota
  BY SoundFields
<1> QED
  BY <1>2, <1>3, <1>4 DEF Sound, Enforced, UsableQuota

LEMMA PublishKeeps ==
    ASSUME NEW b \in Sound, NEW q \in UsableQuota
    PROVE  /\ Publish(b, q) \in Sound
           /\ Enforced(Publish(b, q)) = Enforced(b) /\ Publish(b, q).published = q
  BY UsableIsAny DEF Publish, Sound, Buckets, Enforced

\* Whatever the hook answers, quotaFor makes usable.
LEMMA QuotaForIsUsable ==
    ASSUME hook \in [Keys -> AnyQuota], NEW k \in Keys
    PROVE  quotaFor(k) \in UsableQuota
<1>1. hook[k].rate \in Rate /\ hook[k].burst \in Int
  BY DEF AnyQuota
<1>2. Finite(hook[k].rate) \in Int \cup {NaN, Inf, Tiny}
  BY <1>1 DEF Finite, Rate, NotNumbers
<1>3. ASSUME AboveZero(Finite(hook[k].rate))
      PROVE  Finite(hook[k].rate) \in UsableRate
  BY <1>1, <1>2, <1>3, RatesAssumption DEF AboveZero, Finite, NotNumbers, UsableRate
<1>4. AtLeastOne(hook[k].burst) \in Nat \ {0}
  BY <1>1 DEF AtLeastOne
<1> QED
  BY <1>3, <1>4 DEF quotaFor, UsableQuota, UsableRate

-----------------------------------------------------------------------------
(* The heap: buckets are added and changed, never lost.                    *)

LEMMA SoundHeap ==
    ASSUME NEW h \in Seq(Sound)
    PROVE  /\ h \in Seq(Buckets) /\ Len(h) \in Nat
           /\ \A e \in 1..Len(h) : {Enforced(h[e]), h[e].published} \subseteq UsableQuota
<1>1. \A e \in 1..Len(h) : h[e] \in Sound
  BY ElementOfSeq
<1>2. h \in Seq(Buckets)
  BY SeqMonotonic DEF Sound
<1> QED
  BY <1>1, <1>2, LenProperties DEF Sound

LEMMA HeapIsSound ==
    ASSUME TypeOK, UsableBuckets
    PROVE  /\ heap \in Seq(Sound) /\ Len(heap) \in Nat
           /\ \A e \in Addresses : heap[e] \in Sound
<1>1. heap \in Seq(Buckets)
  BY DEF TypeOK
<1>2. Len(heap) \in Nat /\ heap \in [1..Len(heap) -> Buckets]
  BY <1>1, LenProperties
<1>3. \A e \in Addresses : heap[e] \in Sound
  BY <1>2 DEF UsableBuckets, Addresses, Sound
<1>4. heap \in [1..Len(heap) -> Sound]
  BY <1>2, <1>3 DEF Addresses
<1> QED
  BY <1>2, <1>3, <1>4, SeqDef

LEMMA OneChanges ==
    ASSUME TypeOK, UsableBuckets, NEW e \in Addresses, NEW b \in Sound,
           heap' = [heap EXCEPT ![e] = b]
    PROVE  /\ heap' \in Seq(Sound) /\ Len(heap') = Len(heap) /\ Addresses' = Addresses
           /\ heap'[e] = b /\ \A j \in Addresses \ {e} : heap'[j] = heap[j]
  BY HeapIsSound, ExceptSeq DEF Addresses

LEMMA OneMore ==
    ASSUME TypeOK, UsableBuckets, NEW b \in Sound, heap' = Append(heap, b)
    PROVE  /\ heap' \in Seq(Sound) /\ Len(heap') = Len(heap) + 1
           /\ Addresses' = Addresses \cup {Len(heap) + 1}
           /\ heap'[Len(heap) + 1] = b /\ \A j \in Addresses : heap'[j] = heap[j]
<1>1. /\ heap' \in Seq(Sound) /\ Len(heap') = Len(heap) + 1
      /\ heap'[Len(heap) + 1] = b /\ \A j \in 1..Len(heap) : heap'[j] = heap[j]
  BY HeapIsSound, AppendProperties
<1> QED
  BY <1>1, HeapIsSound DEF Addresses

\* The bucket each action changes, and what becomes of it.
LEMMA DrawChanges ==
    ASSUME TypeOK, UsableBuckets, NEW k \in Keys, Draw(k)
    PROVE  /\ keys[k] \in Addresses
           /\ AllowAt(heap[keys[k]], now) \in Sound
           /\ heap' = [heap EXCEPT ![keys[k]] = AllowAt(heap[keys[k]], now)]
<1>1. keys[k] \in Addresses /\ now \in 0..MaxTime
  BY DEF Draw, Present, TypeOK
<1> QED
  BY <1>1, HeapIsSound, AllowKeeps DEF Draw

LEMMA InHand ==
    ASSUME TypeOK, UsableBuckets, UsableInHand, NEW x \in Walkers,
           walk[x].pc \notin {"idle", "collect"}
    PROVE  /\ Running /\ hook \in [Keys -> AnyQuota]
           /\ walk[x].key \in Keys /\ walk[x].entry \in Addresses
           /\ heap[walk[x].entry] \in Sound
           /\ walk[x].at \in 0..MaxTime /\ walk[x].at <= now /\ walk[x].asked \in Nat
           /\ walk[x].quota \in UsableQuota
           /\ walk[x].quota.rate \in UsableRate /\ walk[x].quota.burst \in Nat \ {0}
<1>1. walk[x] \in Reloads /\ now \in 0..MaxTime
  BY DEF TypeOK
<1>2. walk[x].at \in 0..now /\ walk[x].asked \in Nat
  BY <1>1 DEF Reloads
<1>3. walk[x].at \in 0..MaxTime /\ walk[x].at <= now
  BY <1>1, <1>2, Instants
<1>4. walk[x].quota \in UsableQuota
  BY DEF UsableInHand
<1>5. walk[x].quota.rate \in UsableRate /\ walk[x].quota.burst \in Nat \ {0}
  BY <1>4 DEF UsableQuota
<1> QED
  BY <1>2, <1>3, <1>4, <1>5, HeapIsSound DEF TypeOK, Configured

LEMMA SetLimitChanges ==
    ASSUME TypeOK, UsableBuckets, UsableInHand, NEW x \in Walkers, SetLimit(x)
    PROVE  LET w == walk[x]
               b == SetLimitAt(heap[w.entry], w.at, w.quota.rate)
           IN  /\ w.entry \in Addresses /\ b \in Sound
               /\ heap' = [heap EXCEPT ![w.entry] = b]
               /\ walk' = [walk EXCEPT ![x] = [w EXCEPT !.pc = "burst"]]
<1>1. walk[x].pc = "limit"
  BY DEF SetLimit
<1>2. usableRate(walk[x].quota.rate) = walk[x].quota.rate
  BY <1>1, InHand, UsableIsKept
<1>3. walk[x] \in Reloads /\ walk[x].quota \in AnyQuota
  BY DEF TypeOK, Reloads
<1>4. [walk[x] EXCEPT !.pc = "burst", !.quota.rate = usableRate(@)] = [walk[x] EXCEPT !.pc = "burst"]
  BY <1>2, <1>3 DEF Reloads, AnyQuota
<1>5. SetLimitAt(heap[walk[x].entry], walk[x].at, walk[x].quota.rate) \in Sound
  BY <1>1, InHand, SetLimitKeeps
<1> QED
  BY <1>1, <1>3, <1>4, <1>5, InHand DEF SetLimit, Reloads

LEMMA SetBurstChanges ==
    ASSUME TypeOK, UsableBuckets, UsableInHand, NEW x \in Walkers, SetBurst(x)
    PROVE  LET w == walk[x]
               b == SetBurstAt(heap[w.entry], w.at, w.quota.burst)
           IN  /\ w.entry \in Addresses /\ b \in Sound
               /\ heap' = [heap EXCEPT ![w.entry] = b]
  BY InHand, SetBurstKeeps DEF SetBurst

LEMMA PublishChanges ==
    ASSUME TypeOK, UsableBuckets, UsableInHand, NEW x \in Walkers, PublishQuota(x)
    PROVE  LET w == walk[x]
               b == Publish(heap[w.entry], w.quota)
           IN  /\ w.entry \in Addresses /\ b \in Sound
               /\ heap' = [heap EXCEPT ![w.entry] = b]
  BY InHand, PublishKeeps DEF PublishQuota

LEMMA HeapStep ==
    ASSUME TypeOK, UsableBuckets, UsableInHand, [Next]_vars
    PROVE  /\ heap' \in Seq(Sound) /\ Len(heap) <= Len(heap')
           /\ Addresses \subseteq Addresses'
<1> USE HeapIsSound
<1>1. CASE UNCHANGED heap
  BY <1>1 DEF Addresses
<1>2. ASSUME NEW k \in Keys, Draw(k) PROVE heap' \in Seq(Sound) /\ Len(heap') = Len(heap)
  BY <1>2, DrawChanges, OneChanges
<1>3. ASSUME NEW m \in Makers, Insert(m), ~UNCHANGED heap
      PROVE  heap' \in Seq(Sound) /\ Len(heap') = Len(heap) + 1
  <2>1. heap' = Append(heap, NewBucket(make[m].quota))
    BY <1>3 DEF Insert
  <2> QED
    BY <2>1, NewBucketIsSound, OneMore DEF UsableInHand
<1>4. ASSUME NEW x \in Walkers, SetLimit(x) \/ SetBurst(x) \/ PublishQuota(x)
      PROVE  heap' \in Seq(Sound) /\ Len(heap') = Len(heap)
  BY <1>4, SetLimitChanges, SetBurstChanges, PublishChanges, OneChanges
<1>5. ASSUME NEW x \in Walkers, Collect(x) \/ ReadClock(x) \/ AskAgain(x) PROVE UNCHANGED heap
  BY <1>5 DEF Collect, ReadClock, AskAgain
<1>6. UNCHANGED heap \/ (heap' \in Seq(Sound) /\ (Len(heap') = Len(heap) \/ Len(heap') = Len(heap) + 1))
  BY <1>2, <1>3, <1>4, <1>5
     DEF Next, WalkStep, Parse, Resolve, New, Configures, Swap, Evict, Ask,
         StartReload, StartReloadKey, Tick, vars
<1> QED
  BY <1>1, <1>6 DEF Addresses

-----------------------------------------------------------------------------
(* The walks of the reloads.                                               *)

LEMMA StandstillIsUsable == Standstill \in UsableQuota /\ Standstill \in AnyQuota
  BY UsableIsAny DEF UsableRate, Standstill, UsableQuota

LEMMA NoWalkIsTyped ==
    ASSUME TypeOK
    PROVE  NoWalk \in Reloads /\ NoWalk.pc = "idle" /\ NoWalk.quota = Standstill
<1>1. 0 \in 0..now /\ 0 \in 0..swaps
  BY Instants DEF TypeOK
<1> QED
  BY <1>1, StandstillIsUsable DEF NoWalk, Reloads

LEMMA OnwardIsTyped ==
    ASSUME TypeOK, NEW w \in Reloads, w.quota \in UsableQuota, NEW v \in Onward(w)
    PROVE  /\ v \in Reloads /\ v.quota \in UsableQuota
           /\ v.pc \in {"idle", "collect", "clock"}
           /\ v.pc = "clock" => v.key \in Keys /\ v.entry \in Addresses
<1>1. CASE w.batch # {}
  <2>1. PICK e \in w.batch :
            v = [w EXCEPT !.pc = "clock", !.key = e[1], !.entry = e[2], !.batch = @ \ {e}]
    BY <1>1 DEF Onward
  <2>2. e[1] \in Keys /\ e[2] \in Addresses
    BY <2>1 DEF Reloads
  <2> QED
    BY <2>1, <2>2 DEF Reloads
<1>2. CASE w.batch = {} /\ v = [w EXCEPT !.pc = "collect"]
  BY <1>2 DEF Reloads
<1>3. CASE w.batch = {} /\ v = NoWalk
  BY <1>3, NoWalkIsTyped, StandstillIsUsable
<1> QED
  BY <1>1, <1>2, <1>3 DEF Onward

LEMMA ReloadsGrow ==
    ASSUME TypeOK, Addresses \subseteq Addresses', now' \in Nat, now <= now',
           swaps' \in Nat, swaps <= swaps'
    PROVE  Reloads \subseteq Reloads'
<1>1. 0..now \subseteq 0..now' /\ 0..swaps \subseteq 0..swaps'
  BY Instants DEF TypeOK
<1>2. ASSUME NEW w \in Reloads PROVE w \in Reloads'
  <2>1. w.batch \in SUBSET (Keys \X Addresses') /\ w.found \in [Keys -> {Absent} \cup Addresses']
    BY <1>2 DEF Reloads
  <2>2. w.entry \in {Absent} \cup Addresses' /\ w.at \in 0..now' /\ w.since \in 0..swaps'
    BY <1>1, <1>2 DEF Reloads
  <2> QED
    BY <2>1, <2>2 DEF Reloads
<1> QED
  BY <1>2

\* What Collect hands on.
LEMMA CollectedIsTyped ==
    ASSUME TypeOK, UsableInHand, NEW x \in Walkers
    PROVE  LET w == [walk[x] EXCEPT !.batch = InShard(walk[x].shard), !.shard = @ + 1]
           IN  w \in Reloads /\ w.quota \in UsableQuota /\ w.since = walk[x].since
<1>1. walk[x] \in Reloads /\ walk[x].quota \in UsableQuota
  BY DEF TypeOK, UsableInHand
<1>2. InShard(walk[x].shard) \in SUBSET (Keys \X Addresses)
  BY DEF InShard, Present, TypeOK
<1>3. walk[x].shard + 1 \in Nat
  BY <1>1 DEF Reloads
<1> DEFINE w == [walk[x] EXCEPT !.batch = InShard(walk[x].shard), !.shard = @ + 1]
<1>4. w \in Reloads
  BY <1>1, <1>2, <1>3 DEF Reloads
<1> QED
  BY <1>1, <1>4 DEF Reloads

\* A walk's step, seen from the walks: one of them moves on and stays usable,
\* in the types of the state it started in.
Moves(x, v) ==
    /\ walk' = [walk EXCEPT ![x] = v]
    /\ v \in Reloads /\ v.quota \in UsableQuota
    /\ v.pc # "idle" => Running
    /\ v.pc \notin {"idle", "collect"} => v.key \in Keys /\ v.entry \in Addresses

LEMMA ProceedMoves ==
    ASSUME TypeOK, NEW x \in Walkers, walk[x].pc # "idle",
           NEW w \in Reloads, w.quota \in UsableQuota, Proceed(x, w)
    PROVE  /\ \E v \in Onward(w) : Moves(x, v) /\ v.pc \in {"idle", "collect", "clock"}
           /\ settled' \in 0..swaps
<1>1. Running
  BY DEF TypeOK
<1>2. settled' \in 0..swaps
  BY DEF Proceed, TypeOK, Reloads
<1> QED
  BY <1>1, <1>2, OnwardIsTyped DEF Proceed, Moves

LEMMA WalkMoves ==
    ASSUME TypeOK, UsableBuckets, UsableInHand, NEW x \in Walkers, WalkStep(x)
    PROVE  (\E v \in Reloads : Moves(x, v)) /\ settled' \in 0..swaps
<1> DEFINE w == walk[x]
<1>1. w \in Reloads /\ settled \in 0..swaps
  BY DEF TypeOK
<1>2. CASE Collect(x)
  BY <1>2, CollectedIsTyped, ProceedMoves DEF Collect, Moves
<1>3. CASE PublishQuota(x)
  BY <1>1, <1>3, ProceedMoves DEF PublishQuota, UsableInHand, Moves
<1>4. CASE ReadClock(x)
  <2>1. walk' = [walk EXCEPT ![x] = [w EXCEPT !.pc = "ask", !.at = now]]
    BY <1>1, <1>4 DEF ReadClock, Reloads
  <2>2. [w EXCEPT !.pc = "ask", !.at = now] \in Reloads
    <3>1. now \in 0..now
      BY Instants DEF TypeOK
    <3> QED
      BY <1>1, <3>1 DEF Reloads
  <2>3. Moves(x, [w EXCEPT !.pc = "ask", !.at = now])
    BY <1>1, <1>4, <2>1, <2>2, InHand DEF ReadClock, Moves, Reloads
  <2> QED
    BY <1>1, <1>4, <2>2, <2>3 DEF ReadClock
<1>5. CASE AskAgain(x)
  <2> DEFINE v == [w EXCEPT !.pc = "limit", !.quota = quotaFor(w.key), !.asked = swaps]
  <2>1. walk' = [walk EXCEPT ![x] = v]
    BY <1>1, <1>5 DEF AskAgain, Reloads
  <2>2. quotaFor(w.key) \in UsableQuota /\ quotaFor(w.key) \in AnyQuota
    BY <1>5, InHand, QuotaForIsUsable, UsableIsAny DEF AskAgain
  <2>3. v \in Reloads /\ v.quota = quotaFor(w.key)
    BY <1>1, <2>2 DEF Reloads, TypeOK
  <2>4. Moves(x, v)
    BY <1>1, <1>5, <2>1, <2>2, <2>3, InHand DEF AskAgain, Moves, Reloads
  <2> QED
    BY <1>1, <1>5, <2>3, <2>4 DEF AskAgain, history
<1>6. CASE SetLimit(x)
  <2> DEFINE v == [w EXCEPT !.pc = "burst"]
  <2>1. v \in Reloads /\ Moves(x, v)
    BY <1>1, <1>6, SetLimitChanges, InHand DEF SetLimit, Moves, Reloads
  <2> QED
    BY <1>1, <1>6, <2>1 DEF SetLimit, history
<1>7. CASE SetBurst(x)
  <2> DEFINE v == [w EXCEPT !.pc = "publish"]
  <2>1. walk' = [walk EXCEPT ![x] = v]
    BY <1>1, <1>7 DEF SetBurst, Reloads
  <2>2. v \in Reloads /\ Moves(x, v)
    BY <1>1, <1>7, <2>1, InHand DEF SetBurst, Moves, Reloads
  <2> QED
    BY <1>1, <1>7, <2>2 DEF SetBurst, history
<1> QED
  BY <1>2, <1>3, <1>4, <1>5, <1>6, <1>7 DEF WalkStep

-----------------------------------------------------------------------------
(* The configuration, and then the types of everything.                    *)

LEMMA ParsedIsAQuota ==
    ASSUME NEW text \in Texts, NEW burst \in Int, ParseQuota(text, burst) # Refused
    PROVE  ParseQuota(text, burst) \in AnyQuota
<1>1. text.number \in Int \cup NotNumbers \cup {Tiny, Refused}
  BY DEF Texts
<1>2. ParseLimit(text) # Refused
  BY DEF ParseQuota
<1>3. NamesPeriod(text) /\ text.number # Refused /\ AboveZero(text.number)
  BY <1>2 DEF ParseLimit
<1>4. ASSUME text.number = PosInf PROVE ParseLimit(text) \in Rate
  BY <1>2, <1>3, <1>4 DEF ParseLimit, Rate
<1>5. ASSUME text.number # PosInf PROVE ParseLimit(text) \in Rate
  <2>1. text.number \in Int \cup {Tiny}
    BY <1>1, <1>3, <1>5, RatesAssumption DEF AboveZero, NotNumbers
  <2>2. text.period \in Periods
    BY <1>3, <1>5 DEF NamesPeriod
  <2>3. PerHour[text.period] \in Int
    BY <2>2 DEF Periods, PerHour
  <2>4. Quotient(text) \in Int \cup {Tiny}
    BY <2>1, <2>3 DEF Quotient
  <2> QED
    BY <1>2, <1>5, <2>4 DEF ParseLimit, Finite, Rate
<1>6. ParseLimit(text) \in Rate /\ AtLeastOne(burst) \in Int
  BY <1>4, <1>5 DEF AtLeastOne
<1> QED
  BY <1>2, <1>6 DEF ParseQuota, AnyQuota

LEMMA DefaultsKeepAQuota ==
    ASSUME NEW c \in Config
    PROVE  withDefaults(c).quota \in AnyQuota
<1>1. c.quota \in [rate : Rate, burst : Int]
  BY DEF Config
<1>2. Finite(c.quota.rate) \in Rate /\ AtLeastOne(c.quota.burst) \in Int
  BY <1>1 DEF Finite, Rate, AtLeastOne
<1>3. withDefaults(c).quota = [rate |-> Finite(c.quota.rate), burst |-> AtLeastOne(c.quota.burst)]
  BY DEF withDefaults, Config
<1> QED
  BY <1>2, <1>3 DEF AnyQuota

LEMMA ConfiguredStep ==
    ASSUME TypeOK, [Next]_vars
    PROVE  Configured' /\ (Running => Running')
<1> USE DEF Configured, Running
<1>1. CASE Parse
  <2>1. CASE ParseQuota(cfg.text, cfg.burst) = Refused
    BY <1>1, <2>1 DEF Parse
  <2>2. CASE ParseQuota(cfg.text, cfg.burst) # Refused
    <3>1. cfg.text \in Texts /\ cfg.burst \in Int
      BY <1>1 DEF Parse, TypeOK
    <3>2. ParseQuota(cfg.text, cfg.burst) \in AnyQuota /\ Plain \in Config
      BY <2>2, <3>1, ParsedIsAQuota, QuotaAssumption
    <3>3. [Plain EXCEPT !.quota = ParseQuota(cfg.text, cfg.burst)] \in Config
      BY <3>2 DEF Config, AnyQuota
    <3> QED
      BY <1>1, <2>2, <3>3 DEF Parse
  <2> QED
    BY <2>1, <2>2
<1>2. CASE Resolve
  <2>1. cfg \in Config
    BY <1>2 DEF Resolve, TypeOK
  <2> QED
    BY <1>2, <2>1, DefaultsKeepAQuota DEF Resolve
<1>3. CASE New
  <2>1. CASE phase = "resolved" /\ Workable(cfg)
    <3>1. phase' = "running" /\ hook' = [k \in Keys |-> cfg.quota]
      BY <1>3, <2>1 DEF New
    <3> QED
      BY <2>1, <3>1 DEF TypeOK
  <2>2. CASE ~(phase = "resolved" /\ Workable(cfg))
    <3>1. phase' \in {"panicked", "by hand"} /\ phase \in {"resolved", "draft"}
      BY <1>3, <2>2 DEF New
    <3> QED
      BY <3>1
  <2> QED
    BY <2>1, <2>2
<1>4. ASSUME NEW k \in Keys, Swap(k) PROVE Configured' /\ (Running => Running')
  <2>1. PICK q \in Answers : hook' = [hook EXCEPT ![k] = q]
    BY <1>4 DEF Swap
  <2> QED
    BY <1>4, <2>1, QuotaAssumption DEF Swap, TypeOK
<1>5. CASE UNCHANGED config
  BY <1>5 DEF config, TypeOK
<1> QED
  BY <1>1, <1>2, <1>3, <1>4, <1>5
     DEF Next, WalkStep, Draw, Evict, Ask, Insert, Collect, ReadClock, AskAgain, SetLimit,
         SetBurst, PublishQuota, StartReload, StartReloadKey, Tick, vars, config

LEMMA MakesStep ==
    ASSUME TypeOK, UsableInHand, [Next]_vars
    PROVE  /\ make' \in [Makers -> Creations]
           /\ \A m \in Makers : make'[m].quota \in UsableQuota
<1>1. make \in [Makers -> Creations] /\ \A m \in Makers : make[m].quota \in UsableQuota
  BY DEF TypeOK, UsableInHand
<1>2. ASSUME NEW m \in Makers, NEW k \in Keys, Ask(m, k)
      PROVE  /\ make' \in [Makers -> Creations]
             /\ \A n \in Makers : make'[n].quota \in UsableQuota
  <2> DEFINE c == [pc |-> "insert", key |-> k, quota |-> quotaFor(k), asked |-> swaps]
  <2>1. quotaFor(k) \in UsableQuota /\ quotaFor(k) \in AnyQuota
    BY <1>2, QuotaForIsUsable, UsableIsAny DEF Ask, TypeOK, Configured
  <2>2. c \in Creations
    BY <2>1 DEF Creations, TypeOK
  <2>3. make' = [make EXCEPT ![m] = c]
    BY <1>2 DEF Ask
  <2> QED
    BY <1>1, <2>1, <2>2, <2>3
<1>3. ASSUME NEW m \in Makers, Insert(m)
      PROVE  /\ make' \in [Makers -> Creations]
             /\ \A n \in Makers : make'[n].quota \in UsableQuota
  <2>1. NoMake \in Creations /\ NoMake.quota \in UsableQuota
    BY StandstillIsUsable DEF NoMake, Creations
  <2> QED
    BY <1>1, <1>3, <2>1 DEF Insert
<1>4. CASE UNCHANGED make
  BY <1>1, <1>4
<1> QED
  BY <1>2, <1>3, <1>4
     DEF Next, WalkStep, Parse, Resolve, New, Configures, Swap, Draw, Evict, Collect, ReadClock,
         AskAgain, SetLimit, SetBurst, PublishQuota, StartReload, StartReloadKey, Tick, vars

LEMMA StartsMove ==
    ASSUME TypeOK, NEW x \in Walkers, StartReload(x) \/ \E k \in Keys : StartReloadKey(x, k)
    PROVE  \E v \in Reloads : Moves(x, v) /\ v.pc \in {"collect", "clock"}
<1>1. NoWalk \in Reloads /\ swaps \in 0..swaps /\ keys \in [Keys -> {Absent} \cup Addresses]
  BY NoWalkIsTyped DEF TypeOK
<1>2. CASE StartReload(x)
  <2> DEFINE v == [NoWalk EXCEPT !.pc = "collect", !.whole = TRUE, !.shard = 1,
                                 !.found = keys, !.since = swaps]
  <2>1. v \in Reloads /\ v.pc = "collect" /\ v.quota = Standstill
    BY <1>1, NoWalkIsTyped DEF Reloads
  <2> QED
    BY <1>2, <2>1, StandstillIsUsable DEF StartReload, Moves
<1>3. ASSUME NEW k \in Keys, StartReloadKey(x, k)
      PROVE  \E v \in Reloads : Moves(x, v) /\ v.pc \in {"collect", "clock"}
  <2> DEFINE found == [NoWalk.found EXCEPT ![k] = keys[k]]
             v == [NoWalk EXCEPT !.pc = "clock", !.key = k, !.entry = keys[k],
                                 !.found = found, !.since = swaps]
  <2>1. keys[k] \in Addresses
    BY <1>1, <1>3 DEF StartReloadKey, Present
  <2>2. found \in [Keys -> {Absent} \cup Addresses]
    BY <1>1, <2>1 DEF NoWalk
  <2>3. v \in Reloads /\ v.pc = "clock" /\ v.quota = Standstill /\ v.key = k /\ v.entry = keys[k]
    BY <1>1, <2>1, <2>2, NoWalkIsTyped DEF Reloads
  <2>4. walk' = [walk EXCEPT ![x] = v]
    BY <1>3 DEF StartReloadKey, NoWalk
  <2> QED
    BY <1>3, <2>1, <2>3, <2>4, StandstillIsUsable DEF StartReloadKey, Moves
<1> QED
  BY <1>2, <1>3

LEMMA WalksStep ==
    ASSUME TypeOK, UsableBuckets, UsableInHand, [Next]_vars
    PROVE  UNCHANGED walk \/ \E x \in Walkers : \E v \in Reloads : Moves(x, v)
<1>1. ASSUME NEW x \in Walkers, WalkStep(x) PROVE \E v \in Reloads : Moves(x, v)
  BY <1>1, WalkMoves
<1>2. ASSUME NEW x \in Wholes, StartReload(x)
      PROVE  x \in Walkers /\ \E v \in Reloads : Moves(x, v)
  BY <1>2, StartsMove DEF Walkers
<1>3. ASSUME NEW x \in Singles, NEW k \in Keys, StartReloadKey(x, k)
      PROVE  x \in Walkers /\ \E v \in Reloads : Moves(x, v)
  BY <1>3, StartsMove DEF Walkers
<1> QED
  BY <1>1, <1>2, <1>3
     DEF Next, Parse, Resolve, New, Configures, Swap, Draw, Evict, Ask, Insert, Tick, vars

\* Time and history only grow, and nothing is settled that has not happened.
LEMMA HistoryStep ==
    ASSUME TypeOK, UsableBuckets, UsableInHand, [Next]_vars
    PROVE  /\ now' \in 0..MaxTime /\ now <= now' /\ now' \in Nat
           /\ swaps' \in Nat /\ swaps <= swaps' /\ settled' \in 0..swaps'
<1>1. /\ now \in 0..MaxTime /\ now \in Nat /\ MaxTime \in Nat
      /\ swaps \in Nat /\ settled \in 0..swaps
  BY Instants DEF TypeOK
<1>2. ASSUME NEW x \in Walkers, WalkStep(x)
      PROVE  settled' \in 0..swaps /\ UNCHANGED <<now, swaps>>
  BY <1>2, WalkMoves
     DEF WalkStep, Collect, ReadClock, AskAgain, SetLimit, SetBurst, PublishQuota, history
<1>3. CASE Tick
  BY <1>1, <1>3 DEF Tick, history
<1>4. ASSUME NEW k \in Keys, Swap(k)
      PROVE  /\ swaps' \in Nat /\ swaps <= swaps' /\ settled' \in 0..swaps'
             /\ UNCHANGED now
  BY <1>1, <1>4 DEF Swap
<1>5. CASE UNCHANGED <<now, swaps, settled>>
  BY <1>1, <1>5
<1>6. \/ \E x \in Walkers : WalkStep(x)
      \/ Tick
      \/ \E k \in Keys : Swap(k)
      \/ UNCHANGED <<now, swaps, settled>>
  BY DEF Next, Parse, Resolve, New, Configures, Draw, Evict, Ask, Insert, StartReload,
         StartReloadKey, vars, history
<1>7. ASSUME NEW x \in Walkers, WalkStep(x)
      PROVE  /\ now' \in 0..MaxTime /\ now <= now' /\ now' \in Nat
             /\ swaps' \in Nat /\ swaps <= swaps' /\ settled' \in 0..swaps'
  BY <1>1, <1>2, <1>7
<1> QED
  BY <1>1, <1>3, <1>4, <1>5, <1>6, <1>7

LEMMA WalksAreTyped ==
    ASSUME TypeOK, UsableBuckets, UsableInHand, [Next]_vars
    PROVE  /\ walk' \in [Walkers -> Reloads']
           /\ \A x \in Walkers :
                 /\ walk'[x].pc # "idle" => Running'
                 /\ walk'[x].pc \notin {"idle", "collect"} =>
                       walk'[x].key \in Keys /\ walk'[x].entry \in Addresses'
                 /\ walk'[x].quota \in UsableQuota
<1>1. Reloads \subseteq Reloads' /\ Addresses \subseteq Addresses' /\ (Running => Running')
  BY HeapStep, HistoryStep, ReloadsGrow, ConfiguredStep
<1>2. /\ walk \in [Walkers -> Reloads]
      /\ \A x \in Walkers :
            /\ walk[x].pc # "idle" => Running
            /\ walk[x].pc \notin {"idle", "collect"} =>
                  walk[x].key \in Keys /\ walk[x].entry \in Addresses
            /\ walk[x].quota \in UsableQuota
  BY DEF TypeOK, UsableInHand
<1>3. CASE UNCHANGED walk
  BY <1>1, <1>2, <1>3
<1>4. ASSUME NEW x \in Walkers, NEW v \in Reloads, Moves(x, v)
      PROVE  /\ walk' \in [Walkers -> Reloads]
             /\ \A y \in Walkers :
                   /\ walk'[y].pc # "idle" => Running
                   /\ walk'[y].pc \notin {"idle", "collect"} =>
                         walk'[y].key \in Keys /\ walk'[y].entry \in Addresses
                   /\ walk'[y].quota \in UsableQuota
  BY <1>2, <1>4 DEF Moves
<1> QED
  BY <1>1, <1>3, <1>4, WalksStep

\* What is left of the types: the keys' addresses, and what each bucket has seen.
LEMMA AddressesStep ==
    ASSUME TypeOK, UsableBuckets, UsableInHand, [Next]_vars
    PROVE  /\ keys' \in [Keys -> {Absent} \cup Addresses']
           /\ contested' \subseteq Addresses'
           /\ asked' \in Seq(Nat) /\ Len(asked') = Len(heap')
<1>1. Addresses \subseteq Addresses'
  BY HeapStep
<1>2. /\ keys \in [Keys -> {Absent} \cup Addresses] /\ contested \subseteq Addresses
      /\ asked \in Seq(Nat) /\ Len(asked) = Len(heap)
  BY DEF TypeOK
<1>3. ASSUME NEW m \in Makers, Insert(m)
      PROVE  /\ keys' \in [Keys -> {Absent} \cup Addresses']
             /\ contested' \subseteq Addresses'
             /\ asked' \in Seq(Nat) /\ Len(asked') = Len(heap')
  <2>1. CASE UNCHANGED <<keys, heap, asked>>
    BY <1>2, <1>3, <2>1 DEF Insert, Addresses
  <2>2. CASE ~UNCHANGED <<keys, heap, asked>>
    <3>1. /\ heap' = Append(heap, NewBucket(make[m].quota))
          /\ asked' = Append(asked, make[m].asked)
          /\ keys' = [keys EXCEPT ![make[m].key] = Len(heap) + 1]
          /\ contested' = contested
      BY <1>3, <2>2 DEF Insert
    <3>2. make[m].asked \in Nat /\ NewBucket(make[m].quota) \in Sound
      BY NewBucketIsSound DEF TypeOK, Creations, UsableInHand
    <3>3. Len(heap') = Len(heap) + 1 /\ Addresses' = Addresses \cup {Len(heap) + 1}
      BY <3>1, <3>2, OneMore
    <3>4. asked' \in Seq(Nat) /\ Len(asked') = Len(asked) + 1
      BY <1>2, <3>1, <3>2, AppendProperties
    <3> QED
      BY <1>2, <3>1, <3>3, <3>4
  <2> QED
    BY <2>1, <2>2
<1>4. ASSUME NEW x \in Walkers, PublishQuota(x)
      PROVE  /\ keys' = keys /\ contested' = contested
             /\ asked' \in Seq(Nat) /\ Len(asked') = Len(heap')
  <2>1. walk[x].entry \in Addresses /\ walk[x].asked \in Nat
    BY <1>4, InHand DEF PublishQuota
  <2>2. asked' = [asked EXCEPT ![walk[x].entry] = walk[x].asked]
    BY <1>4 DEF PublishQuota
  <2>3. asked' \in Seq(Nat) /\ Len(asked') = Len(asked)
    BY <1>2, <2>1, <2>2, ExceptSeq DEF Addresses
  <2> QED
    BY <1>2, <1>4, <2>3, PublishChanges, OneChanges DEF PublishQuota
<1>5. ASSUME NEW x \in Walkers, ReadClock(x)
      PROVE  UNCHANGED <<keys, asked, heap>> /\ contested' \subseteq Addresses
  BY <1>2, <1>5, InHand DEF ReadClock
<1>6. ASSUME NEW x \in Walkers, SetLimit(x) \/ SetBurst(x)
      PROVE  UNCHANGED <<keys, asked, contested>> /\ Len(heap') = Len(heap)
  BY <1>6, SetLimitChanges, SetBurstChanges, OneChanges DEF SetLimit, SetBurst, history
<1>7. ASSUME NEW k \in Keys, Draw(k)
      PROVE  UNCHANGED <<keys, asked, contested>> /\ Len(heap') = Len(heap)
  BY <1>7, DrawChanges, OneChanges DEF Draw, history
<1>8. ASSUME NEW k \in Keys, Evict(k)
      PROVE  /\ keys' \in [Keys -> {Absent} \cup Addresses]
             /\ UNCHANGED <<asked, contested, heap>>
  BY <1>2, <1>8 DEF Evict, history
<1>9. CASE UNCHANGED <<keys, asked, contested, heap>>
  BY <1>1, <1>2, <1>9
<1> QED
  BY <1>1, <1>2, <1>3, <1>4, <1>5, <1>6, <1>7, <1>8, <1>9
     DEF Next, WalkStep, Parse, Resolve, New, Configures, Swap, Ask, Collect, AskAgain,
         StartReload, StartReloadKey, Tick, vars, history

LEMMA TypeStep ==
    ASSUME TypeOK, UsableBuckets, UsableInHand, [Next]_vars
    PROVE  TypeOK' /\ UsableBuckets' /\ UsableInHand'
<1>1. heap' \in Seq(Buckets) /\ UsableBuckets'
  BY HeapStep, SoundHeap DEF UsableBuckets, Addresses
<1>2. TypeOK'
  BY <1>1, HistoryStep, ConfiguredStep, MakesStep, WalksAreTyped, AddressesStep DEF TypeOK
<1>3. UsableInHand'
  BY MakesStep, WalksAreTyped DEF UsableInHand
<1> QED
  BY <1>1, <1>2, <1>3

-----------------------------------------------------------------------------
(* How far a reload has come with a bucket.                                *)

Stages == {"ask", "limit", "burst", "publish"}

\* PartlyChanged of one bucket.
PartOf(e) ==
    /\ \A x, y \in Changing(e) : x = y
    /\ (\A x \in Changing(e) : walk[x].pc \in {"ask", "limit"}) =>
          heap[e].published = Enforced(heap[e])
    /\ \A x \in Changing(e) :
          /\ walk[x].pc \in {"burst", "publish"} => heap[e].limit = walk[x].quota.rate
          /\ walk[x].pc = "publish" => heap[e].burst = walk[x].quota.burst

LEMMA PartByPart == PartlyChanged <=> \A e \in Addresses \ contested : PartOf(e)
  BY DEF PartlyChanged, PartOf

LEMMA ChangingMoves ==
    ASSUME TypeOK, NEW x \in Walkers, NEW v, walk' = [walk EXCEPT ![x] = v], NEW e
    PROVE  /\ v.pc \in Stages /\ v.entry = e => Changing(e)' = Changing(e) \cup {x}
           /\ ~(v.pc \in Stages /\ v.entry = e) => Changing(e)' = Changing(e) \ {x}
           /\ walk'[x] = v /\ \A y \in Walkers \ {x} : walk'[y] = walk[y]
           /\ x \in Changing(e) <=> walk[x].pc \in Stages /\ walk[x].entry = e
  BY DEF TypeOK, Changing, Stages

\* A bucket nobody's hands have left, and which keeps its quota, stays as it is.
LEMMA PartStays ==
    ASSUME NEW e, PartOf(e), Changing(e)' = Changing(e),
           \A y \in Changing(e) : walk'[y].pc = walk[y].pc /\ walk'[y].quota = walk[y].quota,
           Enforced(heap'[e]) = Enforced(heap[e]), heap'[e].published = heap[e].published
    PROVE  PartOf(e)'
<1>1. heap'[e].limit = heap[e].limit /\ heap'[e].burst = heap[e].burst
  BY DEF Enforced
<1> QED
  BY <1>1 DEF PartOf, Enforced

\* Steps that move no reload.
LEMMA PartlyAside ==
    ASSUME PartlyChanged, UNCHANGED <<walk, contested>>,
           \A e \in Addresses : /\ Enforced(heap'[e]) = Enforced(heap[e])
                                /\ heap'[e].published = heap[e].published,
           \A e \in Addresses' \ Addresses :
                /\ Changing(e) = {}
                /\ heap'[e].published = Enforced(heap'[e])
    PROVE  PartlyChanged'
<1>1. \A e : Changing(e)' = Changing(e)
  BY DEF Changing
<1>2. ASSUME NEW e \in Addresses \ contested PROVE PartOf(e)'
  BY <1>1, <1>2, PartByPart, PartStays
<1>3. ASSUME NEW e \in Addresses' \ Addresses PROVE PartOf(e)'
  BY <1>1, <1>3 DEF PartOf, Enforced
<1> QED
  BY <1>2, <1>3 DEF PartlyChanged, PartOf

\* A reload's step leaves every bucket but its own as it was.
LEMMA PartlyElsewhere ==
    ASSUME TypeOK, PartlyChanged, NEW x \in Walkers, NEW v, walk' = [walk EXCEPT ![x] = v],
           NEW e \in Addresses \ contested,
           walk[x].pc \in Stages => walk[x].entry # e,
           v.pc \in Stages => v.entry # e,
           heap'[e] = heap[e]
    PROVE  PartOf(e)'
<1>0. x \notin Changing(e) /\ Changing(e)' = Changing(e) \ {x}
  BY ChangingMoves
<1>1. Changing(e)' = Changing(e)
  BY <1>0
<1>2. \A y \in Changing(e) : walk'[y] = walk[y]
  BY <1>0, ChangingMoves DEF Changing
<1>3. Enforced(heap'[e]) = Enforced(heap[e]) /\ PartOf(e)
  BY PartByPart
<1> QED
  BY <1>1, <1>2, <1>3, PartStays

\* Off contested buckets a reload has its own to itself.
LEMMA AloneMoves ==
    ASSUME TypeOK, PartlyChanged, NEW x \in Walkers, NEW v, walk' = [walk EXCEPT ![x] = v],
           NEW e \in Addresses \ contested, walk[x].pc \in Stages, walk[x].entry = e
    PROVE  /\ Changing(e) = {x} /\ walk'[x] = v
           /\ v.pc \in Stages /\ v.entry = e => Changing(e)' = {x}
           /\ v.pc \notin Stages => Changing(e)' = {}
<1>1. x \in Changing(e) /\ walk'[x] = v
  BY ChangingMoves
<1>2. Changing(e) = {x}
  BY <1>1 DEF PartlyChanged
<1>3. /\ v.pc \in Stages /\ v.entry = e => Changing(e)' = Changing(e) \cup {x}
      /\ v.pc \notin Stages => Changing(e)' = Changing(e) \ {x}
  BY ChangingMoves
<1> QED
  BY <1>1, <1>2, <1>3

LEMMA PartlyWalk ==
    ASSUME QuotaInv, NEW x \in Walkers, WalkStep(x)
    PROVE  PartlyChanged'
<1> DEFINE w == walk[x]
<1> USE DEF QuotaInv
<1>1. w \in Reloads
  BY DEF TypeOK
<1>2. CASE Collect(x)
  <2>1. PICK v \in Reloads : walk' = [walk EXCEPT ![x] = v] /\ v.pc \in {"idle", "collect", "clock"}
    BY <1>2, CollectedIsTyped, ProceedMoves DEF Collect, Moves
  <2>2. UNCHANGED <<heap, contested>> /\ Addresses' = Addresses /\ w.pc = "collect"
    BY <1>2 DEF Collect, Addresses
  <2>3. ASSUME NEW e \in Addresses \ contested PROVE PartOf(e)'
    BY <2>1, <2>2, PartlyElsewhere DEF Stages
  <2> QED
    BY <2>2, <2>3 DEF PartlyChanged, PartOf
<1>3. CASE ReadClock(x)
  <2> DEFINE v == [w EXCEPT !.pc = "ask", !.at = now]
  <2>1. walk' = [walk EXCEPT ![x] = v] /\ v.pc = "ask" /\ v.entry = w.entry /\ w.pc = "clock"
    BY <1>1, <1>3 DEF ReadClock, Reloads
  <2>2. /\ heap' = heap /\ Addresses' = Addresses /\ contested \subseteq contested'
        /\ \A e : e = w.entry /\ e \notin contested' => Changing(e) = {}
    BY <1>3 DEF ReadClock, Addresses
  <2>3. ASSUME NEW e \in Addresses \ contested', e # w.entry PROVE PartOf(e)'
    BY <2>1, <2>2, <2>3, PartlyElsewhere DEF Stages
  <2>4. ASSUME NEW e \in Addresses \ contested', e = w.entry PROVE PartOf(e)'
    <3>1. Changing(e) = {} /\ v.pc \in Stages /\ v.entry = e
      BY <2>1, <2>2, <2>4 DEF Changing, Stages
    <3> HIDE DEF v
    <3>2. Changing(e)' = Changing(e) \cup {x} /\ walk'[x] = v
      BY <2>1, <3>1, ChangingMoves
    <3>3. Changing(e)' = {x} /\ walk'[x] = v
      BY <3>1, <3>2
    <3>4. heap[e].published = Enforced(heap[e])
      BY <2>2, <2>4, <3>1 DEF PartlyChanged
    <3> QED
      BY <2>1, <2>2, <3>3, <3>4 DEF PartOf, Enforced
  <2> QED
    BY <2>2, <2>3, <2>4 DEF PartlyChanged, PartOf
<1>4. CASE AskAgain(x)
  <2> DEFINE v == [w EXCEPT !.pc = "limit", !.quota = quotaFor(w.key), !.asked = swaps]
  <2>1. walk' = [walk EXCEPT ![x] = v] /\ v.pc = "limit" /\ v.entry = w.entry /\ w.pc = "ask"
    BY <1>1, <1>4 DEF AskAgain, Reloads
  <2>2. UNCHANGED <<heap, contested>> /\ Addresses' = Addresses
    BY <1>4 DEF AskAgain, Addresses, history
  <2>3. ASSUME NEW e \in Addresses \ contested, e # w.entry PROVE PartOf(e)'
    BY <2>1, <2>2, <2>3, PartlyElsewhere
  <2>4. ASSUME NEW e \in Addresses \ contested, e = w.entry PROVE PartOf(e)'
    <3>0. walk[x].pc \in Stages /\ walk[x].entry = e /\ v.pc \in Stages /\ v.entry = e
      BY <2>1, <2>4 DEF Stages
    <3>1. Changing(e) = {x} /\ Changing(e)' = {x} /\ walk'[x] = v
      BY <2>1, <3>0, AloneMoves
    <3>2. heap[e].published = Enforced(heap[e])
      BY <2>1, <2>4, <3>1 DEF PartlyChanged
    <3> QED
      BY <2>1, <2>2, <3>1, <3>2 DEF PartOf, Enforced
  <2> QED
    BY <2>2, <2>3, <2>4 DEF PartlyChanged, PartOf
<1>5. CASE SetLimit(x)
  <2> DEFINE v == [w EXCEPT !.pc = "burst"]
             b == SetLimitAt(heap[w.entry], w.at, w.quota.rate)
  <2>1. /\ walk' = [walk EXCEPT ![x] = v] /\ w.pc = "limit"
        /\ v.pc = "burst" /\ v.entry = w.entry /\ v.quota = w.quota
    BY <1>1, <1>5, SetLimitChanges DEF SetLimit, Reloads
  <2>2. /\ UNCHANGED contested /\ Addresses' = Addresses
        /\ heap'[w.entry] = b /\ \A j \in Addresses \ {w.entry} : heap'[j] = heap[j]
    <3>1. w.entry \in Addresses /\ b \in Sound /\ heap' = [heap EXCEPT ![w.entry] = b]
      BY <1>5, SetLimitChanges
    <3> QED
      BY <1>5, <3>1, OneChanges DEF SetLimit, history
  <2>3. ASSUME NEW e \in Addresses \ contested, e # w.entry PROVE PartOf(e)'
    BY <2>1, <2>2, <2>3, PartlyElsewhere
  <2>4. ASSUME NEW e \in Addresses \ contested, e = w.entry PROVE PartOf(e)'
    <3>0. walk[x].pc \in Stages /\ walk[x].entry = e /\ v.pc \in Stages /\ v.entry = e
      BY <2>1, <2>4 DEF Stages
    <3>1. Changing(e)' = {x} /\ walk'[x] = v
      BY <2>1, <3>0, AloneMoves
    <3>2. heap[w.entry] \in Buckets
      BY <2>1, InHand DEF Sound
    <3>3. heap'[e].limit = w.quota.rate
      BY <2>2, <2>4, <3>2 DEF SetLimitAt, Buckets
    <3> QED
      BY <2>1, <2>2, <3>1, <3>3 DEF PartOf
  <2> QED
    BY <2>2, <2>3, <2>4 DEF PartlyChanged, PartOf
<1>6. CASE SetBurst(x)
  <2> DEFINE v == [w EXCEPT !.pc = "publish"]
             b == SetBurstAt(heap[w.entry], w.at, w.quota.burst)
  <2>1. /\ walk' = [walk EXCEPT ![x] = v] /\ w.pc = "burst"
        /\ v.pc = "publish" /\ v.entry = w.entry /\ v.quota = w.quota
    BY <1>1, <1>6 DEF SetBurst, Reloads
  <2>2. /\ UNCHANGED contested /\ Addresses' = Addresses
        /\ heap'[w.entry] = b /\ \A j \in Addresses \ {w.entry} : heap'[j] = heap[j]
    BY <1>6, SetBurstChanges, OneChanges DEF SetBurst, history
  <2>3. ASSUME NEW e \in Addresses \ contested, e # w.entry PROVE PartOf(e)'
    BY <2>1, <2>2, <2>3, PartlyElsewhere
  <2>4. ASSUME NEW e \in Addresses \ contested, e = w.entry PROVE PartOf(e)'
    <3>0. walk[x].pc \in Stages /\ walk[x].entry = e /\ v.pc \in Stages /\ v.entry = e
      BY <2>1, <2>4 DEF Stages
    <3>1. Changing(e) = {x} /\ Changing(e)' = {x} /\ walk'[x] = v
      BY <2>1, <3>0, AloneMoves
    <3>2. heap[w.entry] \in Buckets
      BY <2>1, InHand DEF Sound
    <3>3. heap[e].limit = w.quota.rate
      BY <2>1, <2>4, <3>1 DEF PartlyChanged
    <3>4. heap'[e].limit = w.quota.rate /\ heap'[e].burst = w.quota.burst
      BY <2>2, <2>4, <3>2, <3>3 DEF SetBurstAt, Buckets
    <3> QED
      BY <2>1, <2>2, <3>1, <3>4 DEF PartOf
  <2> QED
    BY <2>2, <2>3, <2>4 DEF PartlyChanged, PartOf
<1>7. CASE PublishQuota(x)
  <2> DEFINE b == Publish(heap[w.entry], w.quota)
  <2>1. w.pc = "publish" /\ w.quota \in UsableQuota
    BY <1>7 DEF PublishQuota, UsableInHand
  <2>2. PICK v \in Reloads : walk' = [walk EXCEPT ![x] = v] /\ v.pc \in {"idle", "collect", "clock"}
    BY <1>1, <1>7, <2>1, ProceedMoves DEF PublishQuota, Moves
  <2>3. /\ UNCHANGED contested /\ Addresses' = Addresses
        /\ heap'[w.entry] = b /\ \A j \in Addresses \ {w.entry} : heap'[j] = heap[j]
    BY <1>7, PublishChanges, OneChanges DEF PublishQuota
  <2>4. ASSUME NEW e \in Addresses \ contested, e # w.entry PROVE PartOf(e)'
    BY <2>2, <2>3, <2>4, PartlyElsewhere DEF Stages
  <2>5. ASSUME NEW e \in Addresses \ contested, e = w.entry PROVE PartOf(e)'
    <3>0. walk[x].pc \in Stages /\ walk[x].entry = e /\ v.pc \notin Stages
      BY <2>1, <2>2, <2>5 DEF Stages
    <3>1. Changing(e) = {x} /\ Changing(e)' = {}
      BY <2>2, <3>0, AloneMoves
    <3>2. heap[e].limit = w.quota.rate /\ heap[e].burst = w.quota.burst
      BY <2>1, <2>5, <3>1 DEF PartlyChanged
    <3>3. Enforced(b) = Enforced(heap[w.entry]) /\ b.published = w.quota
      BY <2>1, InHand, PublishKeeps
    <3>4. Enforced(b) = w.quota
      BY <2>1, <2>5, <3>2, <3>3 DEF Enforced, UsableQuota
    <3>5. heap'[e].published = Enforced(heap'[e])
      BY <2>3, <2>5, <3>3, <3>4
    <3> QED
      BY <2>3, <3>1, <3>5 DEF PartOf, Enforced
  <2> QED
    BY <2>3, <2>4, <2>5 DEF PartlyChanged, PartOf
<1> QED
  BY <1>2, <1>3, <1>4, <1>5, <1>6, <1>7 DEF WalkStep

\* A new bucket is nobody's yet, and publishes what it enforces.
LEMMA PartlyInsert ==
    ASSUME QuotaInv, NEW m \in Makers, Insert(m)
    PROVE  PartlyChanged'
<1> USE DEF QuotaInv
<1>1. UNCHANGED <<walk, contested>>
  BY DEF Insert
<1>2. CASE UNCHANGED heap
  BY <1>1, <1>2, PartlyAside DEF Addresses
<1>3. CASE ~UNCHANGED heap
  <2> DEFINE b == NewBucket(make[m].quota)
  <2>1. b \in Sound /\ Enforced(b) = b.published
    BY NewBucketIsSound DEF UsableInHand
  <2>2. heap' = Append(heap, b)
    BY <1>3 DEF Insert
  <2>3. /\ Addresses' = Addresses \cup {Len(heap) + 1}
        /\ heap'[Len(heap) + 1] = b /\ \A e \in Addresses : heap'[e] = heap[e]
    BY <2>1, <2>2, OneMore
  <2>4. ASSUME NEW e \in Addresses' \ Addresses
        PROVE  Changing(e) = {} /\ heap'[e].published = Enforced(heap'[e])
    <3>1. Changing(e) = {}
      BY <2>4 DEF Changing, TypeOK
    <3>2. heap'[e] = b
      BY <2>3, <2>4
    <3> QED
      BY <2>1, <3>1, <3>2
  <2>5. \A e \in Addresses : /\ Enforced(heap'[e]) = Enforced(heap[e])
                             /\ heap'[e].published = heap[e].published
    BY <2>3 DEF Enforced
  <2> QED
    BY <1>1, <2>4, <2>5, PartlyAside
<1> QED
  BY <1>2, <1>3

\* A request moves no quota.
LEMMA PartlyDraw ==
    ASSUME QuotaInv, NEW k \in Keys, Draw(k)
    PROVE  PartlyChanged'
<1> USE DEF QuotaInv
<1> DEFINE b == AllowAt(heap[keys[k]], now)
<1>1. /\ keys[k] \in Addresses /\ b \in Sound /\ heap' = [heap EXCEPT ![keys[k]] = b]
  BY DrawChanges
<1>2. /\ Addresses' = Addresses /\ heap'[keys[k]] = b
      /\ \A e \in Addresses \ {keys[k]} : heap'[e] = heap[e]
  BY <1>1, OneChanges
<1>3. Enforced(b) = Enforced(heap[keys[k]]) /\ b.published = heap[keys[k]].published
  BY <1>1, HeapIsSound, AllowKeeps DEF TypeOK
<1>4. \A e \in Addresses : /\ Enforced(heap'[e]) = Enforced(heap[e])
                           /\ heap'[e].published = heap[e].published
  BY <1>2, <1>3 DEF Enforced
<1> QED
  BY <1>2, <1>4, PartlyAside DEF Draw, history

LEMMA PartlyStart ==
    ASSUME QuotaInv, NEW x \in Walkers, StartReload(x) \/ \E k \in Keys : StartReloadKey(x, k)
    PROVE  PartlyChanged'
<1> USE DEF QuotaInv
<1>1. PICK v \in Reloads : walk' = [walk EXCEPT ![x] = v] /\ v.pc \in {"collect", "clock"}
  BY StartsMove DEF Moves
<1>2. /\ UNCHANGED <<heap, contested>> /\ Addresses' = Addresses /\ walk[x].pc = "idle"
  BY DEF StartReload, StartReloadKey, history, Addresses
<1>3. ASSUME NEW e \in Addresses \ contested PROVE PartOf(e)'
  BY <1>1, <1>2, PartlyElsewhere DEF Stages
<1> QED
  BY <1>2, <1>3 DEF PartlyChanged, PartOf

LEMMA PartlyStep ==
    ASSUME QuotaInv, [Next]_vars
    PROVE  PartlyChanged'
<1>1. ASSUME NEW x \in Walkers, WalkStep(x) PROVE PartlyChanged'
  BY <1>1, PartlyWalk
<1>2. ASSUME NEW m \in Makers, Insert(m) PROVE PartlyChanged'
  BY <1>2, PartlyInsert
<1>3. ASSUME NEW k \in Keys, Draw(k) PROVE PartlyChanged'
  BY <1>3, PartlyDraw
<1>4. ASSUME NEW x \in Wholes, StartReload(x) PROVE PartlyChanged'
  BY <1>4, PartlyStart DEF Walkers
<1>5. ASSUME NEW x \in Singles, NEW k \in Keys, StartReloadKey(x, k) PROVE PartlyChanged'
  BY <1>5, PartlyStart DEF Walkers
<1>6. CASE UNCHANGED <<walk, contested, heap>>
  BY <1>6, PartlyAside DEF Addresses, QuotaInv
<1> QED
  BY <1>1, <1>2, <1>3, <1>4, <1>5, <1>6
     DEF Next, Parse, Resolve, New, Configures, Swap, Evict, Ask, Tick, vars, history

-----------------------------------------------------------------------------
(* From a text to a running limiter.                                       *)

\* ParseLimit's quotient is above zero, as the number was, or it has underflowed.
LEMMA QuotientAccrues ==
    ASSUME NEW text \in Texts, text.period \in Periods,
           text.number = Tiny \/ (text.number \in Int /\ text.number > 0)
    PROVE  /\ Finite(Quotient(text)) = Quotient(text)
           /\ AboveZero(Quotient(text)) <=> ~Underflows(text)
<1>1. CASE text.number = Tiny
  BY <1>1, RatesAssumption DEF Quotient, Underflows, AboveZero, Finite, NotNumbers
<1>2. CASE text.number \in Int /\ text.number > 0
  <2>1. PICK n \in Int : n = text.number * PerHour[text.period] /\ n > 0
    BY <1>2 DEF Periods, PerHour
  <2>2. Quotient(text) = n /\ ~Underflows(text)
    BY <1>2, <2>1, RatesAssumption DEF Quotient, Underflows
  <2>3. Finite(n) = n /\ AboveZero(n)
    BY <2>1, RatesAssumption DEF Finite, NotNumbers, AboveZero
  <2> QED
    BY <2>2, <2>3
<1> QED
  BY <1>1, <1>2

\* bucket/parse.go refuses what config/config.go would, underflows excepted.
LEMMA ParsedOrUnderflown ==
    ASSUME NEW text \in Texts, NEW burst \in Int, ParseQuota(text, burst) # Refused
    PROVE  AboveZero(ParseQuota(text, burst).rate) <=> ~Underflows(text)
<1>1. text.number \in Int \cup NotNumbers \cup {Tiny, Refused}
  BY DEF Texts
<1>2. ParseLimit(text) # Refused /\ ParseQuota(text, burst).rate = ParseLimit(text)
  BY DEF ParseQuota
<1>3. NamesPeriod(text) /\ text.number # Refused /\ AboveZero(text.number)
  BY <1>2 DEF ParseLimit
<1>4. CASE text.number = PosInf
  BY <1>2, <1>3, <1>4, RatesAssumption DEF ParseLimit, AboveZero, Underflows
<1>5. CASE text.number # PosInf
  <2>1. /\ text.number = Tiny \/ (text.number \in Int /\ text.number > 0)
        /\ text.period \in Periods
    BY <1>1, <1>3, <1>5, RatesAssumption DEF AboveZero, NotNumbers, NamesPeriod
  <2>2. ParseLimit(text) = Finite(Quotient(text))
    BY <1>2, <1>3, <1>5 DEF ParseLimit
  <2> QED
    BY <1>2, <2>1, <2>2, QuotientAccrues
<1> QED
  BY <1>4, <1>5

\* A set of numbers has a least one.
LEMMA HasALeast ==
    ASSUME NEW T \in SUBSET Nat, T # {}
    PROVE  \E m \in T : \A n \in T : m <= n
<1> DEFINE R == OpToRel(<, Nat)
<1>1. PICK m \in T : \A n \in T : <<n, m>> \notin R
  BY NatLessThanWellFounded, WFMin
<1>2. \A n \in T : ~(n < m)
  BY <1>1 DEF OpToRel
<1> QED
  BY <1>2

\* The shard count is rounded up to a power of two: there is one, the largest
\* count allowed, and hence a least one.
LEMMA RoundsToAPower ==
    ASSUME NEW n \in Int, n <= maxShards
    PROVE  roundUpPowerOfTwo(n) \in PowersOfTwo
<1>1. CASE n <= 0
  BY <1>1, ConfigurationAssumption DEF roundUpPowerOfTwo
<1>2. CASE n > 0
  <2> DEFINE T == {p \in PowersOfTwo : n <= p}
  <2>1. PowersOfTwo \subseteq Nat
    BY DEF PowersOfTwo
  <2>2. T \in SUBSET Nat /\ T # {}
    BY <2>1, ConfigurationAssumption
  <2>4. PICK p \in T : \A q \in T : p <= q
    BY <2>2, HasALeast
  <2>5. \E r \in PowersOfTwo : n <= r /\ \A q \in PowersOfTwo : n <= q => r <= q
    BY <2>4
  <2> QED
    BY <1>2, <2>5 DEF roundUpPowerOfTwo
<1> QED
  BY <1>1, <1>2

LEMMA DefaultsWork ==
    ASSUME NEW c \in Config, Valid(c)
    PROVE  Workable(withDefaults(c))
<1> DEFINE d == withDefaults(c)
<1>1. /\ c.quota \in [rate : Rate, burst : Int] /\ c.shards \in Int
      /\ c.times \in [Times -> Int]
  BY DEF Config
<1>2. /\ d.quota = [rate |-> Finite(c.quota.rate), burst |-> AtLeastOne(c.quota.burst)]
      /\ d.shards = roundUpPowerOfTwo(c.shards) /\ d.given = Parts
      /\ d.times = [t \in Times |-> IF c.times[t] <= 0 THEN 1 ELSE c.times[t]]
  BY DEF withDefaults, Config
<1> HIDE DEF d
<1>3. AboveZero(d.quota.rate)
  <2>1. AboveZero(c.quota.rate) /\ d.quota.rate = Finite(c.quota.rate)
    BY <1>2 DEF Valid
  <2> QED
    BY <2>1 DEF AboveZero, Finite
<1>4. d.quota.burst > 0
  BY <1>1, <1>2 DEF AtLeastOne
<1>5. d.shards \in PowersOfTwo
  BY <1>1, <1>2, RoundsToAPower DEF Valid
<1>6. \A t \in Times : d.times[t] > 0
  BY <1>1, <1>2
<1>7. {"Clock", "Logger"} \subseteq d.given
  BY <1>2 DEF Parts
<1>8. Workable(d)
  BY <1>3, <1>4, <1>5, <1>6, <1>7 DEF Workable
<1> QED
  BY <1>8 DEF d

LEMMA VettedStep ==
    ASSUME TypeOK, Vetted, [Next]_vars
    PROVE  Vetted'
<1>1. CASE Parse
  <2>1. CASE phase' = "parsed"
    <3>1. /\ cfg.text \in Texts /\ cfg.burst \in Int /\ ParseQuota(cfg.text, cfg.burst) # Refused
          /\ cfg' = [Plain EXCEPT !.quota = ParseQuota(cfg.text, cfg.burst)]
      BY <1>1, <2>1 DEF Parse, TypeOK, Configured
    <3>2. Plain \in Config /\ Valid(Plain)
      BY QuotaAssumption
    <3>4. cfg'.url = Plain.url /\ cfg'.shards = Plain.shards
      BY <3>1, <3>2 DEF Config
    <3>5. Valid(cfg') \/ ~AboveZero(cfg'.quota.rate)
      BY <3>2, <3>4 DEF Valid
    <3> QED
      BY <2>1, <3>5 DEF Vetted
  <2>2. CASE phase' = "unreadable"
    BY <2>2 DEF Vetted
  <2> QED
    BY <1>1, <2>1, <2>2 DEF Parse
<1>2. CASE Resolve
  <2>1. cfg \in Config
    BY <1>2 DEF Resolve, TypeOK, Configured
  <2>2. CASE Valid(cfg)
    BY <1>2, <2>1, <2>2, DefaultsWork DEF Resolve, Vetted
  <2>3. CASE ~Valid(cfg)
    BY <1>2, <2>3 DEF Resolve, Vetted
  <2> QED
    BY <2>2, <2>3
<1>3. CASE New
  <2>1. phase' \in {"panicked", "by hand", "running"}
    BY <1>3 DEF New
  <2> QED
    BY <2>1 DEF Vetted
<1>4. CASE UNCHANGED <<phase, cfg>>
  BY <1>4 DEF Vetted
<1> QED
  BY <1>1, <1>2, <1>3, <1>4
     DEF Next, vars, config, Swap, Ask, Insert, Draw, Evict, WalkStep, Collect, ReadClock,
         AskAgain, SetLimit, SetBurst, PublishQuota, StartReload, StartReloadKey, Tick

-----------------------------------------------------------------------------
(* What a reload has still to visit.                                       *)

\* A walk is where it should be, whomever it has found.
Placed(w) == (w.whole => w.shard >= 1) /\ (w.pc = "collect" => w.batch = {})

\* WalksReach of one reload and one key.
ReachOf(x, k) ==
    LET w == walk[x]
        e == w.found[k]
    IN  w.pc # "idle" /\ e # Absent /\ keys[k] = e /\ e \notin contested =>
            AskedSince(e, w.since) \/ StillToVisit(w, k, e)

LEMMA ReachByReach ==
    WalksReach <=> \A x \in Walkers : /\ walk[x].pc # "idle" => Placed(walk[x])
                                      /\ \A k \in Keys : ReachOf(x, k)
  BY DEF WalksReach, ReachOf, Placed

\* How a step of a reload moves it.
LEMMA StepMoves ==
    ASSUME TypeOK, NEW x \in Walkers, WalkStep(x)
    PROVE  LET w == walk[x] IN
           \E v : /\ walk' = [walk EXCEPT ![x] = v] /\ walk'[x] = v
                  /\ \/ /\ Collect(x)
                        /\ v \in Onward([w EXCEPT !.batch = InShard(w.shard), !.shard = @ + 1])
                     \/ ReadClock(x) /\ v = [w EXCEPT !.pc = "ask", !.at = now]
                     \/ AskAgain(x) /\ v = [w EXCEPT !.pc = "limit", !.quota = quotaFor(w.key),
                                                     !.asked = swaps]
                     \/ SetLimit(x) /\ v = [w EXCEPT !.pc = "burst", !.quota.rate = usableRate(@)]
                     \/ SetBurst(x) /\ v = [w EXCEPT !.pc = "publish"]
                     \/ PublishQuota(x) /\ v \in Onward(w)
<1> DEFINE w == walk[x]
<1>0. walk \in [Walkers -> Reloads] /\ w \in Reloads
  BY DEF TypeOK
<1>1. \A v : walk' = [walk EXCEPT ![x] = v] => walk'[x] = v
  BY <1>0
<1>2. CASE Collect(x)
  BY <1>1, <1>2 DEF Collect, Proceed
<1>3. CASE ReadClock(x)
  <2>1. walk' = [walk EXCEPT ![x] = [w EXCEPT !.pc = "ask", !.at = now]]
    BY <1>0, <1>3 DEF ReadClock
  <2> QED
    BY <1>1, <1>3, <2>1
<1>4. CASE AskAgain(x)
  <2>1. walk' = [walk EXCEPT ![x] = [w EXCEPT !.pc = "limit", !.quota = quotaFor(w.key),
                                              !.asked = swaps]]
    BY <1>0, <1>4 DEF AskAgain
  <2> QED
    BY <1>1, <1>4, <2>1
<1>5. CASE SetLimit(x)
  BY <1>1, <1>5 DEF SetLimit
<1>6. CASE SetBurst(x)
  <2>1. walk' = [walk EXCEPT ![x] = [w EXCEPT !.pc = "publish"]]
    BY <1>0, <1>6 DEF SetBurst
  <2> QED
    BY <1>1, <1>6, <2>1
<1>7. CASE PublishQuota(x)
  BY <1>1, <1>7 DEF PublishQuota, Proceed
<1> QED
  BY <1>2, <1>3, <1>4, <1>5, <1>6, <1>7 DEF WalkStep

\* What is in a batch, or in a shard still to come, is still to be visited when
\* the walk goes on, and it does go on.
LEMMA OnwardReaches ==
    ASSUME NEW w \in Reloads, w.whole => w.shard >= 1, NEW v \in Onward(w),
           NEW k \in Keys, NEW e,
           (w.whole /\ w.shard <= ShardOf[k]) \/ <<k, e>> \in w.batch
    PROVE  v.pc # "idle" /\ StillToVisit(v, k, e)
<1>1. CASE w.batch # {}
  <2>1. PICK b \in w.batch :
            v = [w EXCEPT !.pc = "clock", !.key = b[1], !.entry = b[2], !.batch = @ \ {b}]
    BY <1>1 DEF Onward
  <2>2. /\ v.pc = "clock" /\ v.entry = b[2] /\ v.batch = w.batch \ {b}
        /\ v.whole = w.whole /\ v.shard = w.shard
    BY <2>1 DEF Reloads
  <2>3. CASE b = <<k, e>>
    BY <2>2, <2>3 DEF StillToVisit
  <2>4. CASE b # <<k, e>>
    BY <2>2, <2>4 DEF StillToVisit
  <2> QED
    BY <2>3, <2>4
<1>2. CASE w.batch = {}
  <2>1. w.whole /\ w.shard <= ShardOf[k] /\ w.shard >= 1 /\ w.shard \in Nat
    BY <1>2 DEF Reloads
  <2>2. w.shard \in Shards
    <3>1. PICK N \in Nat : N = Cardinality(Shards)
      BY QuotaAssumption, FS_CardinalityType
    <3>2. Shards = 1..N /\ ShardOf[k] \in 1..N
      BY <3>1, QuotaAssumption
    <3> QED
      BY <2>1, <3>2
  <2>3. v = [w EXCEPT !.pc = "collect"]
    BY <1>2, <2>1, <2>2 DEF Onward
  <2>4. v.pc = "collect" /\ v.whole = w.whole /\ v.shard = w.shard
    BY <2>3 DEF Reloads
  <2> QED
    BY <2>1, <2>4 DEF StillToVisit
<1> QED
  BY <1>1, <1>2

LEMMA OnwardKeeps ==
    ASSUME NEW w \in Reloads, NEW v \in Onward(w), v.pc # "idle"
    PROVE  /\ v.found = w.found /\ v.since = w.since
           /\ v.whole = w.whole /\ v.shard = w.shard
           /\ v.pc \in {"collect", "clock"} /\ (v.pc = "collect" => v.batch = {})
<1>1. CASE w.batch # {}
  <2>1. PICK b \in w.batch :
            v = [w EXCEPT !.pc = "clock", !.key = b[1], !.entry = b[2], !.batch = @ \ {b}]
    BY <1>1 DEF Onward
  <2> QED
    BY <2>1 DEF Reloads
<1>2. CASE w.batch = {}
  <2>1. v \in {NoWalk, [w EXCEPT !.pc = "collect"]}
    BY <1>2 DEF Onward
  <2>2. v = [w EXCEPT !.pc = "collect"]
    BY <2>1 DEF NoWalk
  <2> QED
    BY <1>2, <2>2 DEF Reloads
<1> QED
  BY <1>1, <1>2

LEMMA OnwardPc ==
    ASSUME NEW w \in Reloads, NEW v \in Onward(w)
    PROVE  v.pc \notin Stages
<1>1. CASE v.pc = "idle"
  BY <1>1 DEF Stages
<1>2. CASE v.pc # "idle"
  BY <1>2, OnwardKeeps DEF Stages
<1> QED
  BY <1>1, <1>2

\* No step makes what a bucket is held to, or will be, older.
LEMMA SinceKept ==
    ASSUME TypeOK, UsableInHand, [Next]_vars, NEW e \in Addresses, NEW s \in 0..swaps, AskedSince(e, s)
    PROVE  AskedSince(e, s)'
<1>0. swaps \in Nat /\ s \in Nat /\ asked \in Seq(Nat) /\ Len(asked) = Len(heap)
  BY DEF TypeOK
<1>1. ASSUME UNCHANGED walk, asked'[e] = asked[e] PROVE AskedSince(e, s)'
  <2>1. Changing(e)' = Changing(e)
    BY <1>1 DEF Changing
  <2> QED
    BY <1>1, <2>1 DEF AskedSince
<1>2. ASSUME NEW x \in Walkers, NEW v, walk' = [walk EXCEPT ![x] = v],
             asked'[e] >= s, v.pc \in Stages /\ v.entry = e /\ v.pc # "ask" => v.asked >= s
      PROVE  AskedSince(e, s)'
  <2>1. walk'[x] = v /\ \A y \in Walkers \ {x} : walk'[y] = walk[y]
    BY <1>2, ChangingMoves
  <2>2. ASSUME NEW y \in Changing(e)', walk'[y].pc # "ask" PROVE walk'[y].asked >= s
    <3>1. y \in Walkers /\ walk'[y].pc \in Stages /\ walk'[y].entry = e
      BY <2>2 DEF Changing, Stages
    <3>2. CASE y = x
      BY <1>2, <2>1, <2>2, <3>1, <3>2
    <3>3. CASE y # x
      <4>1. walk'[y] = walk[y] /\ y \in Changing(e)
        BY <2>1, <3>1, <3>3 DEF Changing, Stages
      <4> QED
        BY <2>2, <4>1 DEF AskedSince
    <3> QED
      BY <3>2, <3>3
  <2> QED
    BY <1>2, <2>2 DEF AskedSince
<1>3. ASSUME NEW x \in Walkers, WalkStep(x) PROVE AskedSince(e, s)'
  <2> DEFINE w == walk[x]
  <2>0. w \in Reloads
    BY DEF TypeOK
  <2>i. w.pc \in Stages \ {"ask"} /\ w.entry = e => w.asked >= s
    BY DEF AskedSince, Changing, Stages
  <2>1. CASE Collect(x)
    <3>1. [w EXCEPT !.batch = InShard(w.shard), !.shard = @ + 1] \in Reloads
      BY CollectedIsTyped
    <3>2. PICK v : walk' = [walk EXCEPT ![x] = v] /\ v.pc \notin Stages
      BY <2>1, <3>1, OnwardPc DEF Collect, Proceed
    <3> QED
      BY <1>2, <2>1, <3>2 DEF Collect, AskedSince
  <2>2. CASE ReadClock(x)
    <3>1. PICK v : walk' = [walk EXCEPT ![x] = v] /\ v = [w EXCEPT !.pc = "ask", !.at = now]
      BY <2>2, StepMoves, <1>3 DEF ReadClock, TypeOK
    <3>2. v.pc = "ask"
      BY <2>0, <3>1 DEF Reloads
    <3> QED
      BY <1>2, <2>2, <3>1, <3>2 DEF ReadClock, AskedSince
  <2>3. CASE AskAgain(x)
    <3>1. PICK v : /\ walk' = [walk EXCEPT ![x] = v]
                   /\ v = [w EXCEPT !.pc = "limit", !.quota = quotaFor(w.key), !.asked = swaps]
      BY <2>3 DEF AskAgain, TypeOK
    <3>2. v.asked = swaps /\ swaps >= s
      BY <1>0, <2>0, <3>1 DEF Reloads
    <3> QED
      BY <1>2, <2>3, <3>1, <3>2 DEF AskAgain, AskedSince, history
  <2>4. CASE SetLimit(x)
    <3>1. PICK v : /\ walk' = [walk EXCEPT ![x] = v]
                   /\ v = [w EXCEPT !.pc = "burst", !.quota.rate = usableRate(@)]
      BY <2>4 DEF SetLimit
    <3>2. v.asked = w.asked /\ v.entry = w.entry /\ w.pc = "limit"
      BY <2>0, <2>4, <3>1 DEF Reloads, SetLimit
    <3> QED
      BY <1>2, <2>i, <2>4, <3>1, <3>2 DEF SetLimit, AskedSince, history, Stages
  <2>5. CASE SetBurst(x)
    <3>1. PICK v : walk' = [walk EXCEPT ![x] = v] /\ v = [w EXCEPT !.pc = "publish"]
      BY <2>5 DEF SetBurst, TypeOK
    <3>2. v.asked = w.asked /\ v.entry = w.entry /\ w.pc = "burst"
      BY <2>0, <2>5, <3>1 DEF Reloads, SetBurst
    <3> QED
      BY <1>2, <2>i, <2>5, <3>1, <3>2 DEF SetBurst, AskedSince, history, Stages
  <2>6. CASE PublishQuota(x)
    <3>1. PICK v : walk' = [walk EXCEPT ![x] = v] /\ v.pc \notin Stages
      BY <2>0, <2>6, OnwardPc DEF PublishQuota, Proceed
    <3>2. asked'[e] >= s
      <4>1. asked' = [asked EXCEPT ![w.entry] = w.asked] /\ w.pc = "publish" /\ w.asked \in Nat
        BY <2>0, <2>6 DEF PublishQuota, Reloads
      <4>2. CASE w.entry = e
        <5>1. e \in DOMAIN asked /\ asked'[e] = w.asked
          BY <1>0, <4>1, <4>2 DEF Addresses
        <5> QED
          BY <2>i, <4>1, <4>2, <5>1 DEF Stages
      <4>3. CASE w.entry # e
        BY <1>0, <4>1, <4>3 DEF AskedSince, Addresses
      <4> QED
        BY <4>2, <4>3
    <3> QED
      BY <1>2, <3>1, <3>2
  <2> QED
    BY <1>3, <2>1, <2>2, <2>3, <2>4, <2>5, <2>6 DEF WalkStep
<1>4. ASSUME NEW x \in Walkers, StartReload(x) \/ \E k \in Keys : StartReloadKey(x, k)
      PROVE  AskedSince(e, s)'
  <2>1. PICK v \in Reloads : walk' = [walk EXCEPT ![x] = v] /\ v.pc \in {"collect", "clock"}
    BY <1>4, StartsMove DEF Moves
  <2>2. asked' = asked
    BY <1>4 DEF StartReload, StartReloadKey, history
  <2> QED
    BY <1>2, <2>1, <2>2 DEF AskedSince, Stages
<1>5. ASSUME NEW m \in Makers, Insert(m) PROVE AskedSince(e, s)'
  <2>1. UNCHANGED walk /\ (asked' = asked \/ asked' = Append(asked, make[m].asked))
    BY <1>5 DEF Insert
  <2>2. asked'[e] = asked[e]
    BY <1>0, <2>1 DEF Addresses
  <2> QED
    BY <1>1, <2>1, <2>2
<1>6. CASE UNCHANGED <<walk, asked>>
  BY <1>1, <1>6
<1> QED
  BY <1>3, <1>4, <1>5, <1>6
     DEF Next, Walkers, Parse, Resolve, New, Configures, Swap, Draw, Evict, Ask, Tick, vars, history

\* A key comes to an entry by being created, at an address of its own.
LEMMA KeysStep ==
    ASSUME TypeOK, [Next]_vars, NEW k \in Keys
    PROVE  /\ keys'[k] \in Addresses => keys'[k] = keys[k]
           /\ contested \subseteq contested'
<1>0. keys \in [Keys -> {Absent} \cup Addresses] /\ Len(heap) \in Nat
  BY DEF TypeOK
<1>1. ASSUME NEW m \in Makers, Insert(m)
      PROVE  /\ keys'[k] \in Addresses => keys'[k] = keys[k]
             /\ contested \subseteq contested'
  <2>1. contested' = contested /\ (keys' = keys \/ keys' = [keys EXCEPT ![make[m].key] = Len(heap) + 1])
    BY <1>1 DEF Insert
  <2>2. Len(heap) + 1 \notin Addresses
    BY <1>0 DEF Addresses
  <2> QED
    BY <1>0, <2>1, <2>2
<1>2. ASSUME NEW j \in Keys, Evict(j)
      PROVE  /\ keys'[k] \in Addresses => keys'[k] = keys[k]
             /\ contested \subseteq contested'
  <2>1. contested' = contested /\ keys' = [keys EXCEPT ![j] = Absent]
    BY <1>2 DEF Evict, history
  <2>2. Absent \notin Addresses
    BY DEF Absent, Addresses
  <2> QED
    BY <1>0, <2>1, <2>2
<1>3. CASE keys' = keys /\ contested \subseteq contested'
  BY <1>3
<1> QED
  BY <1>1, <1>2, <1>3
     DEF Next, Parse, Resolve, New, Configures, Swap, Draw, Ask, WalkStep, Collect, ReadClock,
         AskAgain, SetLimit, SetBurst, PublishQuota, StartReload, StartReloadKey, Tick, vars, history

\* A reload that is not the one to move.
LEMMA ReachAside ==
    ASSUME TypeOK, UsableInHand, [Next]_vars, NEW y \in Walkers, NEW k \in Keys,
           walk'[y] = walk[y], ReachOf(y, k)
    PROVE  ReachOf(y, k)'
<1> DEFINE w == walk[y]
           e == w.found[k]
<1>1. w.found \in [Keys -> {Absent} \cup Addresses] /\ w.since \in 0..swaps
  BY DEF TypeOK, Reloads
<1> SUFFICES ASSUME w.pc # "idle", e # Absent, keys'[k] = e, e \notin contested'
             PROVE  AskedSince(e, w.since)' \/ StillToVisit(w, k, e)
  BY DEF ReachOf, StillToVisit
<1>2. e \in Addresses /\ keys[k] = e /\ e \notin contested
  BY <1>1, KeysStep
<1>3. AskedSince(e, w.since) \/ StillToVisit(w, k, e)
  BY <1>2 DEF ReachOf
<1> QED
  BY <1>1, <1>2, <1>3, SinceKept

\* The one that moves has what it has found in hand, before it or behind it.
LEMMA OwnReach ==
    ASSUME QuotaInv, NEW x \in Walkers, WalkStep(x), NEW k \in Keys, NEW e, NEW s,
           e = walk[x].found[k], s = walk[x].since, e # Absent, keys[k] = e, e \notin contested'
    PROVE  \/ AskedSince(e, s)'
           \/ walk'[x].pc # "idle" /\ StillToVisit(walk'[x], k, e)
<1> USE DEF QuotaInv
<1> DEFINE w == walk[x]
<1>0. /\ w \in Reloads /\ e \in Addresses /\ w.since \in 0..swaps /\ swaps \in Nat
      /\ e \notin contested /\ w.pc # "idle" /\ [Next]_vars
  <2>1. w \in Reloads /\ swaps \in Nat
    BY DEF TypeOK
  <2>2. w.pc # "idle"
    BY DEF WalkStep, Collect, ReadClock, AskAgain, SetLimit, SetBurst, PublishQuota
  <2>3. [Next]_vars
    BY DEF Next
  <2>4. contested \subseteq contested'
    BY <2>3, KeysStep
  <2> QED
    BY <2>1, <2>2, <2>3, <2>4 DEF Reloads
<1>1. AskedSince(e, s) \/ StillToVisit(w, k, e)
  BY <1>0, ReachByReach DEF ReachOf
<1>2. AskedSince(e, s) => AskedSince(e, s)'
  BY <1>0, SinceKept
<1>3. Placed(w)
  BY <1>0, ReachByReach
<1> SUFFICES ASSUME StillToVisit(w, k, e)
             PROVE  \/ AskedSince(e, s)'
                    \/ walk'[x].pc # "idle" /\ StillToVisit(walk'[x], k, e)
  BY <1>1, <1>2
<1>4. CASE Collect(x)
  <2>1. PICK u : u = [w EXCEPT !.batch = InShard(w.shard), !.shard = @ + 1]
    OBVIOUS
  <2>2. u \in Reloads
    BY <2>1, CollectedIsTyped
  <2>3. /\ u.whole = w.whole /\ u.shard = w.shard + 1 /\ u.batch = InShard(w.shard)
        /\ w.shard \in Nat /\ w.pc = "collect"
    BY <1>0, <1>4, <2>1 DEF Reloads, Collect
  <2>4. w.whole /\ w.shard <= ShardOf[k]
    BY <1>3, <2>3 DEF StillToVisit, Placed
  <2>5. ShardOf[k] \in Nat
    <3>1. PICK N \in Nat : N = Cardinality(Shards)
      BY QuotaAssumption, FS_CardinalityType
    <3>2. ShardOf[k] \in 1..N
      BY <3>1, QuotaAssumption
    <3> QED
      BY <3>2
  <2>6. (u.whole /\ u.shard <= ShardOf[k]) \/ <<k, e>> \in u.batch
    <3>1. CASE ShardOf[k] = w.shard
      BY <2>3, <3>1 DEF InShard, Present
    <3>2. CASE ShardOf[k] # w.shard
      BY <2>3, <2>4, <2>5, <3>2
    <3> QED
      BY <3>1, <3>2
  <2>7. PICK v \in Onward(u) : walk' = [walk EXCEPT ![x] = v]
    BY <1>4, <2>1 DEF Collect, Proceed
  <2>8. walk'[x] = v
    BY <2>7 DEF TypeOK
  <2>9. u.whole => u.shard >= 1
    BY <2>3
  <2> QED
    BY <2>2, <2>6, <2>7, <2>8, <2>9, OnwardReaches
<1>5. CASE ReadClock(x)
  <2>1. w.pc = "clock" /\ walk'[x] = [w EXCEPT !.pc = "ask", !.at = now]
    BY <1>5 DEF ReadClock, TypeOK
  <2>2. /\ walk'[x].pc = "ask" /\ walk'[x].whole = w.whole /\ walk'[x].shard = w.shard
        /\ walk'[x].batch = w.batch /\ walk'[x].entry = w.entry
    BY <1>0, <2>1 DEF Reloads
  <2> QED
    BY <2>1, <2>2 DEF StillToVisit
<1>6. CASE AskAgain(x)
  <2>1. /\ w.pc = "ask"
        /\ walk'[x] = [w EXCEPT !.pc = "limit", !.quota = quotaFor(w.key), !.asked = swaps]
    BY <1>6 DEF AskAgain, TypeOK
  <2>2. /\ walk'[x].pc = "limit" /\ walk'[x].whole = w.whole /\ walk'[x].shard = w.shard
        /\ walk'[x].batch = w.batch /\ walk'[x].entry = w.entry
        /\ walk'[x].asked = swaps /\ walk'[x].since = w.since /\ swaps >= w.since
    BY <1>0, <2>1 DEF Reloads
  <2> QED
    BY <2>1, <2>2 DEF StillToVisit
<1>7. CASE SetLimit(x)
  <2>1. w.pc = "limit" /\ walk'[x] = [w EXCEPT !.pc = "burst", !.quota.rate = usableRate(@)]
    BY <1>7 DEF SetLimit, TypeOK
  <2>2. /\ walk'[x].pc = "burst" /\ walk'[x].whole = w.whole /\ walk'[x].shard = w.shard
        /\ walk'[x].batch = w.batch /\ walk'[x].entry = w.entry
        /\ walk'[x].asked = w.asked /\ walk'[x].since = w.since
    BY <1>0, <2>1 DEF Reloads
  <2> QED
    BY <2>1, <2>2 DEF StillToVisit
<1>8. CASE SetBurst(x)
  <2>1. w.pc = "burst" /\ walk'[x] = [w EXCEPT !.pc = "publish"]
    BY <1>8 DEF SetBurst, TypeOK
  <2>2. /\ walk'[x].pc = "publish" /\ walk'[x].whole = w.whole /\ walk'[x].shard = w.shard
        /\ walk'[x].batch = w.batch /\ walk'[x].entry = w.entry
        /\ walk'[x].asked = w.asked /\ walk'[x].since = w.since
    BY <1>0, <2>1 DEF Reloads
  <2> QED
    BY <2>1, <2>2 DEF StillToVisit
<1>9. CASE PublishQuota(x)
  <2>1. PICK v \in Onward(w) : walk' = [walk EXCEPT ![x] = v]
    BY <1>9 DEF PublishQuota, Proceed
  <2>2. walk'[x] = v /\ w.pc = "publish" /\ asked' = [asked EXCEPT ![w.entry] = w.asked]
    BY <1>9, <2>1 DEF TypeOK, PublishQuota
  <2>3. CASE (w.whole /\ w.shard <= ShardOf[k]) \/ <<k, e>> \in w.batch
    <3>1. w.whole => w.shard >= 1
      BY <1>3 DEF Placed
    <3> QED
      BY <1>0, <2>1, <2>2, <2>3, <3>1, OnwardReaches
  <2>4. CASE w.entry = e /\ w.asked >= w.since
    <3>1. asked'[e] = w.asked
      BY <1>0, <2>2, <2>4 DEF TypeOK, Addresses
    <3>2. w.pc \in Stages /\ v.pc \notin Stages
      BY <1>0, <2>1, <2>2, OnwardPc DEF Stages
    <3>3. Changing(e)' = {}
      BY <1>0, <2>1, <2>4, <3>2, AloneMoves
    <3> QED
      BY <2>4, <3>1, <3>3 DEF AskedSince
  <2> QED
    BY <2>2, <2>3, <2>4 DEF StillToVisit
<1> QED
  BY <1>4, <1>5, <1>6, <1>7, <1>8, <1>9 DEF WalkStep

LEMMA OwnPlace ==
    ASSUME QuotaInv, NEW x \in Walkers, WalkStep(x), walk'[x].pc # "idle"
    PROVE  /\ Placed(walk'[x]) /\ walk[x].pc # "idle"
           /\ walk'[x].found = walk[x].found /\ walk'[x].since = walk[x].since
<1> USE DEF QuotaInv
<1>0. PICK w \in Reloads : w = walk[x]
  BY DEF TypeOK
<1>1. walk[x].pc # "idle"
  BY DEF WalkStep, Collect, ReadClock, AskAgain, SetLimit, SetBurst, PublishQuota
<1>2. Placed(w)
  BY <1>0, <1>1, ReachByReach
<1>3. CASE Collect(x)
  <2>1. PICK u : u = [w EXCEPT !.batch = InShard(w.shard), !.shard = @ + 1]
    OBVIOUS
  <2>2. u \in Reloads
    BY <1>0, <2>1, CollectedIsTyped
  <2>3. u.found = w.found /\ u.since = w.since /\ u.shard >= 1
    BY <1>0, <2>1 DEF Reloads
  <2>4. PICK v \in Onward(u) : walk' = [walk EXCEPT ![x] = v]
    BY <1>0, <1>3, <2>1 DEF Collect, Proceed
  <2>5. walk'[x] = v
    BY <2>4 DEF TypeOK
  <2> QED
    BY <1>0, <1>1, <2>2, <2>3, <2>4, <2>5, OnwardKeeps DEF Placed
<1>4. CASE PublishQuota(x)
  <2>1. PICK v \in Onward(w) : walk' = [walk EXCEPT ![x] = v]
    BY <1>0, <1>4 DEF PublishQuota, Proceed
  <2>2. walk'[x] = v
    BY <2>1 DEF TypeOK
  <2> QED
    BY <1>0, <1>1, <1>2, <2>1, <2>2, OnwardKeeps DEF Placed
<1>5. CASE ReadClock(x) \/ AskAgain(x) \/ SetLimit(x) \/ SetBurst(x)
  <2>1. /\ walk'[x].found = w.found /\ walk'[x].since = w.since
        /\ walk'[x].whole = w.whole /\ walk'[x].shard = w.shard /\ walk'[x].pc # "collect"
    <3>1. CASE ReadClock(x)
      BY <1>0, <3>1 DEF ReadClock, TypeOK, Reloads
    <3>2. CASE AskAgain(x)
      BY <1>0, <3>2 DEF AskAgain, TypeOK, Reloads
    <3>3. CASE SetLimit(x)
      BY <1>0, <3>3 DEF SetLimit, TypeOK, Reloads
    <3>4. CASE SetBurst(x)
      BY <1>0, <3>4 DEF SetBurst, TypeOK, Reloads
    <3> QED
      BY <1>5, <3>1, <3>2, <3>3, <3>4
  <2> QED
    BY <1>0, <1>1, <1>2, <2>1 DEF Placed
<1> QED
  BY <1>3, <1>4, <1>5 DEF WalkStep

LEMMA StartsPlace ==
    ASSUME TypeOK, NEW x \in Walkers, StartReload(x) \/ \E j \in Keys : StartReloadKey(x, j)
    PROVE  Placed(walk'[x])
<1>0. walk \in [Walkers -> Reloads]
  BY DEF TypeOK
<1>1. CASE StartReload(x)
  BY <1>0, <1>1 DEF StartReload, NoWalk, Placed
<1>2. ASSUME NEW j \in Keys, StartReloadKey(x, j) PROVE Placed(walk'[x])
  BY <1>0, <1>2 DEF StartReloadKey, NoWalk, Placed
<1> QED
  BY <1>1, <1>2

LEMMA StartsReach ==
    ASSUME TypeOK, NEW x \in Walkers, NEW k \in Keys,
           StartReload(x) \/ \E j \in Keys : StartReloadKey(x, j)
    PROVE  ReachOf(x, k)'
<1>0. /\ walk \in [Walkers -> Reloads] /\ keys \in [Keys -> {Absent} \cup Addresses]
      /\ UNCHANGED <<keys, asked, contested>>
  BY DEF TypeOK, StartReload, StartReloadKey, history
<1>1. CASE StartReload(x)
  <2>1. walk'[x] = [NoWalk EXCEPT !.pc = "collect", !.whole = TRUE, !.shard = 1,
                                  !.found = keys, !.since = swaps]
    BY <1>0, <1>1 DEF StartReload
  <2>2. walk'[x].pc = "collect" /\ walk'[x].whole /\ walk'[x].shard = 1
    BY <2>1 DEF NoWalk
  <2>3. 1 <= ShardOf[k]
    <3>1. PICK N \in Nat : N = Cardinality(Shards)
      BY QuotaAssumption, FS_CardinalityType
    <3>2. ShardOf[k] \in 1..N
      BY <3>1, QuotaAssumption
    <3> QED
      BY <3>2
  <2> QED
    BY <2>2, <2>3 DEF ReachOf, StillToVisit
<1>2. ASSUME NEW j \in Keys, StartReloadKey(x, j) PROVE ReachOf(x, k)'
  <2>1. walk'[x] = [NoWalk EXCEPT !.pc = "clock", !.key = j, !.entry = keys[j],
                                  !.found[j] = keys[j], !.since = swaps]
    BY <1>0, <1>2 DEF StartReloadKey
  <2>2. /\ walk'[x].pc = "clock" /\ ~walk'[x].whole /\ walk'[x].entry = keys[j]
        /\ walk'[x].found = [[i \in Keys |-> Absent] EXCEPT ![j] = keys[j]]
    BY <2>1 DEF NoWalk
  <2>3. walk'[x].found[k] # Absent => walk'[x].found[k] = walk'[x].entry
    BY <2>2
  <2> QED
    BY <2>2, <2>3 DEF ReachOf, StillToVisit
<1> QED
  BY <1>1, <1>2

LEMMA ReachStep ==
    ASSUME QuotaInv, [Next]_vars
    PROVE  WalksReach'
<1> USE DEF QuotaInv
<1>1. ASSUME NEW y \in Walkers, walk'[y] = walk[y], NEW k \in Keys
      PROVE  ReachOf(y, k)'
  BY <1>1, ReachByReach, ReachAside
<1>2. ASSUME NEW x \in Walkers, WalkStep(x), NEW k \in Keys
      PROVE  ReachOf(x, k)'
  <2>2. ASSUME walk'[x].pc # "idle", walk'[x].found[k] # Absent,
               keys'[k] = walk'[x].found[k], walk'[x].found[k] \notin contested'
        PROVE  AskedSince(walk[x].found[k], walk[x].since)' \/ StillToVisit(walk[x], k, walk[x].found[k])'
    <3>1. PICK e, s : e = walk[x].found[k] /\ s = walk[x].since
      OBVIOUS
    <3>2. walk'[x].found[k] = e /\ walk'[x].since = s
      BY <1>2, <2>2, <3>1, OwnPlace
    <3>3. keys' = keys
      BY <1>2 DEF WalkStep, Collect, ReadClock, AskAgain, SetLimit, SetBurst, PublishQuota
    <3>4. AskedSince(e, s)' \/ StillToVisit(walk'[x], k, e)
      BY <1>2, <2>2, <3>1, <3>2, <3>3, OwnReach
    <3> QED
      BY <3>2, <3>4 DEF AskedSince, StillToVisit
  <2> QED
    BY <2>2 DEF ReachOf
<1>3. ASSUME NEW x \in Walkers, NEW k \in Keys,
             StartReload(x) \/ \E j \in Keys : StartReloadKey(x, j)
      PROVE  ReachOf(x, k)'
  BY <1>3, StartsReach
<1>4. \/ \A y \in Walkers : walk'[y] = walk[y]
      \/ \E x \in Walkers : /\ WalkStep(x) \/ StartReload(x) \/ \E j \in Keys : StartReloadKey(x, j)
                            /\ \A y \in Walkers \ {x} : walk'[y] = walk[y]
  <2>1. ASSUME NEW x \in Walkers,
               WalkStep(x) \/ StartReload(x) \/ \E j \in Keys : StartReloadKey(x, j)
        PROVE  \A y \in Walkers \ {x} : walk'[y] = walk[y]
    <3>1. PICK v \in Reloads : Moves(x, v)
      BY <2>1, WalkMoves, StartsMove
    <3> QED
      BY <3>1 DEF Moves, TypeOK
  <2>2. UNCHANGED walk \/ \E x \in Walkers :
            WalkStep(x) \/ StartReload(x) \/ \E j \in Keys : StartReloadKey(x, j)
    BY DEF Next, Walkers, Parse, Resolve, New, Configures, Swap, Draw, Evict, Ask, Insert, Tick, vars
  <2> QED
    BY <2>1, <2>2
<1>5. ASSUME NEW y \in Walkers, NEW k \in Keys
      PROVE  ReachOf(y, k)'
  BY <1>1, <1>2, <1>3, <1>4
<1>6. \A y \in Walkers : walk'[y].pc # "idle" => Placed(walk'[y])
  <2> SUFFICES ASSUME NEW y \in Walkers, walk'[y].pc # "idle" PROVE Placed(walk'[y])
    OBVIOUS
  <2>1. CASE walk'[y] = walk[y]
    BY <2>1, ReachByReach
  <2>2. CASE WalkStep(y)
    BY <2>2, OwnPlace
  <2>3. CASE StartReload(y) \/ \E j \in Keys : StartReloadKey(y, j)
    BY <2>3, StartsPlace
  <2> QED
    BY <1>4, <2>1, <2>2, <2>3
<1> QED
  BY <1>5, <1>6 DEF WalksReach, ReachOf, Placed

-----------------------------------------------------------------------------
(* The theorems.                                                           *)

LEMMA QuotaInit == Init => QuotaInv
<1> SUFFICES ASSUME Init PROVE QuotaInv
  OBVIOUS
<1>1. heap = <<>> /\ asked = <<>> /\ Addresses = {} /\ Len(heap) = 0
  BY DEF Init, Addresses
<1>2. 0 \in 0..MaxTime /\ now = 0 /\ swaps = 0
  BY Instants DEF Init
<1>3. NoWalk \in Reloads /\ NoWalk.pc = "idle" /\ NoWalk.quota = Standstill
  BY <1>1, <1>2, StandstillIsUsable DEF NoWalk, Reloads
<1>4. NoMake \in Creations /\ NoMake.quota = Standstill
  BY StandstillIsUsable DEF NoMake, Creations
<1>5. Configured
  BY QuotaAssumption DEF Init, Configured, Running
<1>6. TypeOK
  BY <1>1, <1>2, <1>3, <1>4, <1>5, EmptySeq DEF Init, TypeOK
<1>7. UsableBuckets /\ PartlyChanged
  BY <1>1 DEF UsableBuckets, PartlyChanged
<1>8. UsableInHand
  BY <1>3, <1>4, StandstillIsUsable DEF Init, UsableInHand
<1>9. Vetted /\ WalksReach
  BY <1>3 DEF Init, Vetted, WalksReach
<1> QED
  BY <1>6, <1>7, <1>8, <1>9 DEF QuotaInv

LEMMA QuotaStep == QuotaInv /\ [Next]_vars => QuotaInv'
  BY TypeStep, PartlyStep, VettedStep, ReachStep DEF QuotaInv

\* Types, the usable quotas in buckets and in hand, how far each reload has come
\* and what it has still to visit (registry/registry.go Reload, ReloadKey), and
\* that Resolve has vetted what New is handed, in every reachable state.
THEOREM QuotaInvariant == Spec => []QuotaInv
  BY QuotaInit, QuotaStep, PTL DEF Spec

\* Whatever the hook answers and however reloads, creations and evictions
\* interleave, a bucket enforces and reports a rate that is a finite number and
\* not negative, and a burst that holds a token (bucket/bucket.go:77).
THEOREM UsableForAll == Spec => []UsableBuckets
<1>1. QuotaInv => UsableBuckets
  BY DEF QuotaInv
<1> QED
  BY <1>1, QuotaInvariant, PTL

\* Limiter.Quota answers with what is enforced, or would be, but while a reload
\* is changing it or where two have done so at once (limiter/api.go:105).
THEOREM ReportForAll == Spec => []ReportIsEnforced
<1>1. ASSUME QuotaInv, Running, NEW k \in Keys, k \in Present,
             keys[k] \notin contested, Changing(keys[k]) = {}
      PROVE  QuotaOf(k) = Enforced(heap[keys[k]])
  <2>1. keys[k] \in Addresses \ contested
    BY <1>1 DEF QuotaInv, TypeOK, Present
  <2>2. heap[keys[k]].published = Enforced(heap[keys[k]])
    BY <1>1, <2>1 DEF QuotaInv, PartlyChanged
  <2> QED
    BY <1>1, <2>2 DEF QuotaOf
<1>2. ASSUME QuotaInv, Running, NEW k \in Keys, k \notin Present
      PROVE  QuotaOf(k) = Enforced(NewBucket(QuotaOf(k)))
  <2>1. quotaFor(k) \in UsableQuota
    BY <1>2, QuotaForIsUsable DEF QuotaInv, TypeOK, Configured
  <2> QED
    BY <1>2, <2>1, NewBucketIsSound DEF QuotaOf
<1>3. QuotaInv => ReportIsEnforced
  BY <1>1, <1>2 DEF ReportIsEnforced
<1> QED
  BY <1>3, QuotaInvariant, PTL

-----------------------------------------------------------------------------
(* A reload keeps the tokens.                                              *)

LEMMA LesserIsMonotone ==
    ASSUME NEW m \in Nat, NEW i \in Nat, NEW j \in Nat, i <= j
    PROVE  LesserOf(m, i) <= LesserOf(m, j)
  BY DEF LesserOf

\* The later a bucket is looked at, and the more it started from, the more it holds.
LEMMA TokensGrow ==
    ASSUME NEW b \in Sound, NEW c \in Sound, NEW s \in Nat, NEW t \in Nat,
           b.limit = c.limit, b.burst = c.burst, b.last = c.last,
           b.tokens <= c.tokens, s <= t
    PROVE  TokensAt(b, s) <= TokensAt(c, t)
<1>1. /\ b.tokens \in Nat /\ c.tokens \in Nat /\ b.last \in Nat /\ b.burst \in Nat
      /\ b.limit \in UsableRate /\ (b.limit # Inf => Accrual(b.limit) \in Nat)
  BY SoundFields, AccrualIsWhole, Instants
<1>2. CASE t <= b.last
  <2>1. TokensAt(b, s) = LesserOf(b.burst, b.tokens)
    BY <1>1, <1>2, Accrues
  <2>2. TokensAt(c, t) = LesserOf(b.burst, c.tokens)
    BY <1>1, <1>2, Accrues
  <2> QED
    BY <1>1, <2>1, <2>2, LesserIsMonotone
<1>3. CASE t > b.last /\ b.limit = Inf
  <2>1. TokensAt(c, t) = b.burst
    BY <1>1, <1>3, Accrues DEF LesserOf
  <2> QED
    BY <2>1, TokensAreWhole
<1>4. CASE t > b.last /\ b.limit # Inf
  <2> DEFINE later == Accrual(c.limit) * (t - c.last)
  <2>1. Accrual(b.limit) \in Nat /\ later \in Nat /\ t - b.last \in Nat
    BY <1>1, <1>4, Product
  <2>2. TokensAt(c, t) = LesserOf(b.burst, c.tokens + later)
    BY <1>1, <1>4, Accrues
  <2>3. CASE s <= b.last
    <3>1. TokensAt(b, s) = LesserOf(b.burst, b.tokens)
      BY <1>1, <2>3, Accrues
    <3> QED
      BY <1>1, <2>1, <2>2, <3>1, LesserIsMonotone
  <2>4. CASE s > b.last
    <3> DEFINE sooner == Accrual(b.limit) * (s - b.last)
    <3>1. s - b.last \in Nat /\ t - s \in Nat
      BY <1>1, <2>4
    <3>2. sooner \in Nat /\ Accrual(b.limit) * (t - s) \in Nat
          /\ later = sooner + Accrual(b.limit) * (t - s)
      BY <1>1, <2>1, <3>1, Product
    <3>3. TokensAt(b, s) = LesserOf(b.burst, b.tokens + sooner)
      BY <1>1, <1>4, <2>4, Accrues
    <3> QED
      BY <1>1, <2>1, <2>2, <3>2, <3>3, LesserIsMonotone
  <2> QED
    BY <1>1, <2>3, <2>4
<1> QED
  BY <1>1, <1>2, <1>3, <1>4

\* A bucket brought forward to s and changed there, seen at a later t.
LEMMA ChangeKeepsTokens ==
    ASSUME NEW b \in Sound, NEW c \in Sound, NEW s \in 0..MaxTime, NEW t \in Nat, s <= t,
           c.tokens = TokensAt(b, s), c.last = s
    PROVE  /\ TokensAt(c, t) >= LesserOf(TokensAt(b, s), c.burst)
           /\ TokensAt(c, t) <= TokensAt([c EXCEPT !.tokens = TokensAt(b, t), !.last = s], t)
<1> DEFINE twice == [c EXCEPT !.tokens = TokensAt(b, t), !.last = s]
<1>1. s \in Nat /\ c.burst \in Nat
  BY SoundFields, Instants
<1>2. TokensAt(b, s) \in Nat /\ TokensAt(b, t) \in Nat /\ TokensAt(b, s) <= TokensAt(b, t)
  BY <1>1, TokensAreWhole, TokensGrow, SoundFields
<1>3. twice \in Sound
  BY <1>2 DEF Sound, Buckets, Enforced
<1>4. /\ twice.limit = c.limit /\ twice.burst = c.burst /\ twice.last = c.last
      /\ twice.tokens = TokensAt(b, t)
  BY DEF Sound, Buckets
<1>5. TokensAt(c, t) <= TokensAt(twice, t)
  <2> HIDE DEF twice
  <2>1. c.tokens <= twice.tokens /\ t <= t
    BY <1>2, <1>4
  <2> QED
    BY <1>3, <1>4, <2>1, TokensGrow
<1>6. TokensAt(c, s) <= TokensAt(c, t)
  BY <1>1, TokensGrow, SoundFields
<1>7. TokensAt(c, s) = LesserOf(c.burst, TokensAt(b, s))
  BY <1>1, Accrues
<1>8. TokensAt(c, t) >= LesserOf(TokensAt(b, s), c.burst)
  BY <1>1, <1>2, <1>6, <1>7 DEF LesserOf
<1> QED
  BY <1>5, <1>8

\* Whoever's walk changes has taken the step itself.
LEMMA OwnStep ==
    ASSUME QuotaInv, Next, NEW x \in Walkers, walk[x].pc \in {"limit", "burst"},
           walk'[x] # walk[x]
    PROVE  SetLimit(x) \/ SetBurst(x)
<1> USE DEF QuotaInv
<1>1. ASSUME NEW y \in Walkers, WalkStep(y) PROVE y = x
  <2>1. PICK v \in Reloads : Moves(y, v)
    BY <1>1, WalkMoves
  <2> QED
    BY <2>1 DEF Moves, TypeOK
<1>2. ASSUME NEW y \in Walkers, StartReload(y) \/ \E k \in Keys : StartReloadKey(y, k)
      PROVE  FALSE
  <2>1. PICK v \in Reloads : Moves(y, v)
    BY <1>2, StartsMove
  <2>2. y = x
    BY <2>1 DEF Moves, TypeOK
  <2> QED
    BY <1>2, <2>2 DEF StartReload, StartReloadKey
<1>3. \/ \E y \in Walkers : WalkStep(y)
      \/ \E y \in Walkers : StartReload(y) \/ \E k \in Keys : StartReloadKey(y, k)
  BY DEF Next, Walkers, Parse, Resolve, New, Configures, Swap, Draw, Evict, Ask, Insert, Tick
<1>4. WalkStep(x)
  BY <1>1, <1>2, <1>3
<1> QED
  BY <1>4 DEF WalkStep, Collect, ReadClock, AskAgain, PublishQuota

\* SetQuotaAt takes nothing a bucket has accrued but what the new ceiling
\* cannot hold, whatever was spent between its own reading of the clock and now
\* (bucket/bucket.go:161).
THEOREM TokensKeptForAll == Spec => ReloadKeepsTokens
<1> DEFINE Keeps(x) ==
        LET b == heap[walk[x].entry]
            c == heap'[walk[x].entry]
            twice == [c EXCEPT !.tokens = TokensAt(b, now), !.last = walk[x].at]
        IN  /\ TokensAt(c, now) >= LesserOf(TokensAt(b, walk[x].at), c.burst)
            /\ TokensAt(c, now) <= TokensAt(twice, now)
<1>1. ASSUME QuotaInv, Next, NEW x \in Walkers, walk[x].pc \in {"limit", "burst"},
             walk'[x] # walk[x]
      PROVE  Keeps(x)
  <2> USE <1>1 DEF QuotaInv
  <2> DEFINE w == walk[x]
             b == heap[w.entry]
             c == heap'[w.entry]
  <2>1. /\ b \in Sound /\ w.entry \in Addresses
        /\ w.at \in 0..MaxTime /\ w.at <= now /\ now \in Nat
    BY InHand, Instants DEF TypeOK
  <2>2. c \in Sound /\ c.tokens = TokensAt(b, w.at) /\ c.last = w.at
    <3>1. CASE SetLimit(x)
      <4>1. c = SetLimitAt(b, w.at, w.quota.rate) /\ c \in Sound
        BY <3>1, SetLimitChanges, OneChanges
      <4> QED
        BY <2>1, <4>1 DEF SetLimitAt, Sound, Buckets
    <3>2. CASE SetBurst(x)
      <4>1. c = SetBurstAt(b, w.at, w.quota.burst) /\ c \in Sound
        BY <3>2, SetBurstChanges, OneChanges
      <4> QED
        BY <2>1, <4>1 DEF SetBurstAt, Sound, Buckets
    <3> QED
      BY <3>1, <3>2, OwnStep
  <2> QED
    BY <2>1, <2>2, ChangeKeepsTokens
<1>2. QuotaInv /\ [Next]_vars =>
        [\A x \in Walkers :
           (walk[x].pc \in {"limit", "burst"} /\ walk'[x] # walk[x]) => Keeps(x)]_vars
  BY <1>1
<1> QED
  BY <1>2, QuotaInvariant, PTL DEF Spec, ReloadKeepsTokens

\* For every text and every configuration: what parses is above zero unless its
\* number underflowed (bucket/parse.go:104), Resolve refuses nothing else that
\* parses, and it returns nothing that New panics on (limiter/limiter.go:70).
THEOREM AcceptedForAll == Spec => AcceptedOnce
<1> DEFINE Parses   == phase = "written" /\ phase' = "parsed" =>
                          (AboveZero(cfg'.quota.rate) <=> ~Underflows(cfg.text))
           Resolves == phase = "parsed" => (phase' = "refused" => ~AboveZero(cfg.quota.rate))
           Runs     == phase = "resolved" => phase' # "panicked"
<1>1. ASSUME QuotaInv, Next PROVE Parses /\ Resolves /\ Runs
  <2>1. Vetted
    BY <1>1 DEF QuotaInv
  <2>2. CASE Parse
    <3>1. Resolves /\ Runs
      BY <2>2 DEF Parse
    <3>2. ASSUME phase' = "parsed" PROVE Parses
      <4>1. /\ cfg.text \in Texts /\ cfg.burst \in Int
            /\ ParseQuota(cfg.text, cfg.burst) # Refused
            /\ cfg' = [Plain EXCEPT !.quota = ParseQuota(cfg.text, cfg.burst)]
        BY <1>1, <2>2, <3>2 DEF Parse, QuotaInv, TypeOK, Configured
      <4>2. cfg'.quota = ParseQuota(cfg.text, cfg.burst)
        BY <4>1, QuotaAssumption DEF Config
      <4> QED
        BY <4>1, <4>2, ParsedOrUnderflown
    <3> QED
      BY <3>1, <3>2
  <2>3. CASE Resolve
    BY <2>1, <2>3 DEF Resolve, Vetted
  <2>4. CASE New
    BY <2>1, <2>4 DEF New, Vetted
  <2>5. CASE UNCHANGED phase
    BY <2>5
  <2> QED
    BY <1>1, <2>2, <2>3, <2>4, <2>5
       DEF Next, config, Swap, Ask, Insert, Draw, Evict, WalkStep, Collect, ReadClock,
           AskAgain, SetLimit, SetBurst, PublishQuota, StartReload, StartReloadKey, Tick
<1>2. QuotaInv /\ [Next]_vars => [Parses /\ Resolves /\ Runs]_vars
  BY <1>1
<1> QED
  BY <1>2, QuotaInvariant, PTL DEF Spec, AcceptedOnce

\* "re-resolves every live key's quota" (registry/registry.go:349): a reload that
\* is over has held everyone it found, and who is still there, to an answer given
\* since it began, whatever is created, evicted or reloaded meanwhile.
THEOREM ReachesForAll == Spec => ReloadReaches
<1> DEFINE Reaches(x, k) ==
        LET e == walk[x].found[k] IN
        (/\ walk[x].pc # "idle" /\ walk'[x].pc = "idle"
         /\ e # Absent /\ keys[k] = e /\ e \notin contested)
            => asked'[e] >= walk[x].since
<1>1. ASSUME QuotaInv, Next, NEW x \in Walkers, NEW k \in Keys
      PROVE  Reaches(x, k)
  <2> USE <1>1 DEF QuotaInv
  <2>0. PICK e, s : e = walk[x].found[k] /\ s = walk[x].since
    OBVIOUS
  <2> SUFFICES ASSUME walk[x].pc # "idle", walk'[x].pc = "idle",
                      e # Absent, keys[k] = e, e \notin contested
               PROVE  asked'[e] >= s
    BY <2>0
  <2>1. WalkStep(x)
    <3>1. walk'[x] # walk[x]
      OBVIOUS
    <3>2. ASSUME NEW y \in Walkers, WalkStep(y) \/ StartReload(y) \/ \E j \in Keys : StartReloadKey(y, j)
          PROVE  y = x
      <4>1. PICK v \in Reloads : Moves(y, v)
        BY <3>2, WalkMoves, StartsMove
      <4> QED
        BY <3>1, <4>1 DEF Moves, TypeOK
    <3>3. \E y \in Walkers : WalkStep(y) \/ StartReload(y) \/ \E j \in Keys : StartReloadKey(y, j)
      BY <3>1 DEF Next, Walkers, Parse, Resolve, New, Configures, Swap, Draw, Evict, Ask, Insert, Tick
    <3> QED
      BY <3>2, <3>3 DEF StartReload, StartReloadKey
  <2>2. e \notin contested'
    <3>1. Collect(x) \/ PublishQuota(x)
      <4>1. walk[x] \in Reloads /\ walk \in [Walkers -> Reloads]
        BY DEF TypeOK
      <4>2. CASE ReadClock(x)
        BY <4>1, <4>2 DEF ReadClock, Reloads
      <4>3. CASE AskAgain(x)
        BY <4>1, <4>3 DEF AskAgain, Reloads
      <4>4. CASE SetLimit(x)
        BY <4>1, <4>4 DEF SetLimit, Reloads
      <4>5. CASE SetBurst(x)
        BY <4>1, <4>5 DEF SetBurst, Reloads
      <4> QED
        BY <2>1, <4>2, <4>3, <4>4, <4>5 DEF WalkStep
    <3> QED
      BY <3>1 DEF Collect, PublishQuota
  <2>3. AskedSince(e, s)'
    BY <2>0, <2>1, <2>2, OwnReach
  <2> QED
    BY <2>3 DEF AskedSince
<1>2. QuotaInv /\ [Next]_vars => [\A x \in Walkers : \A k \in Keys : Reaches(x, k)]_vars
  BY <1>1
<1> QED
  BY <1>2, QuotaInvariant, PTL DEF Spec, ReloadReaches

=============================================================================
