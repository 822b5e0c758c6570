------------------------------ MODULE SweepProofs ------------------------------
(***************************************************************************)
(* What the sweep deletes it has saved: proved for any number of keys,     *)
(* shards and requests that race it, buckets that refill or do not, and    *)
(* any idle expiry of at least twice the time a request may last, where    *)
(* the store answers and nobody evicts by hand.                            *)
(***************************************************************************)
EXTENDS RegistryProofs

LEMMA Undisturbed ==
    ASSUME TypeOK, SweepUndisturbed
    PROVE  /\ StoreFails = FALSE /\ Evictors = {}
           /\ Stall \in Nat /\ IdleExpiry \in Nat /\ 2 * Stall <= IdleExpiry
           /\ now \in Nat
  BY RegistryAssumption, NowIsTyped DEF SweepUndisturbed

Safe == RegistryInv /\ SweepUndisturbed /\ SweepSaves

LEMMA SafeIs ==
    ASSUME Safe
    PROVE  /\ TypeOK /\ SweepHolds /\ MapCounts /\ SweepUndisturbed
           /\ ReadingsAreRecent /\ SweepCollects /\ DrawnOnIsRecent
  BY Counts DEF Safe, RegistryInv, SweepSaves

LEMMA SamePresent == keys' = keys => Present' = Present
  BY DEF Present

LEMMA SamePending == sweep' = sweep => Pending' = Pending
  BY DEF Pending

LEMMA AskedRecently ==
    ASSUME Safe, NEW r \in Requests
    PROVE  /\ req[r] \in Asking
           /\ req[r].pc # "idle" => /\ req[r].key \in Keys
                                    /\ req[r].at <= now /\ now <= req[r].at + Stall
           /\ req[r].at \in Nat /\ now \in Nat /\ Stall \in Nat
  BY SafeIs, Undisturbed DEF ReadingsAreRecent, TypeOK, Asking

LEMMA SweepIs ==
    ASSUME Safe
    PROVE  /\ sweep \in Sweeping /\ sweep.shard \in Nat /\ sweep.at \in Nat
           /\ Pending \subseteq Found
           /\ \A e \in Pending : Collected(e)
           /\ sweep.pc # "idle" => sweep.at <= now
<1>1. sweep \in Sweeping
  BY SafeIs DEF TypeOK
<1>2. sweep.expired \subseteq Found /\ sweep.todo \subseteq Found
  BY <1>1 DEF Sweeping
<1> QED
  BY <1>1, <1>2, SafeIs DEF Sweeping, Pending, SweepCollects, ReadingsAreRecent

\* What was collected is in the map.
LEMMA PendingIs ==
    ASSUME Safe, NEW e \in Pending
    PROVE  /\ e.key \in Keys /\ e.entry \in Addresses /\ keys[e.key] = e.entry
           /\ e.key \in Present /\ e.tokens \in Int /\ e.lastUsed \in Int
<1>1. e \in Found /\ keys[e.key] = e.entry
  BY SweepIs DEF Collected
<1>2. /\ e.key \in Keys /\ e.entry \in Addresses /\ e.tokens \in Int /\ e.lastUsed \in Int
  BY <1>1 DEF Found
<1>3. e.entry # Absent
  BY <1>2 DEF Addresses, Absent
<1> QED
  BY <1>1, <1>2, <1>3 DEF Present

\* Two requests, or a request and the sweep, read the clock within Stall of now:
\* what a request has touched the sweep does not take for idle.
LEMMA Recently ==
    ASSUME Safe, NEW r \in Requests, req[r].pc # "idle"
    PROVE  /\ \A s \in Requests : req[s].pc # "idle" => req[r].at >= req[s].at - Stall
           /\ \A e \in Pending : /\ e.lastUsed < req[r].at - Stall
                                 /\ e.lastUsed < req[r].at
                                 /\ e.lastUsed \in Int
<1>1. ASSUME NEW s \in Requests, req[s].pc # "idle" PROVE req[r].at >= req[s].at - Stall
  <2>1. req[s].at <= now /\ req[s].at \in Nat
    BY <1>1, AskedRecently
  <2>2. now <= req[r].at + Stall /\ req[r].at \in Nat /\ now \in Nat /\ Stall \in Nat
    BY AskedRecently
  <2> QED
    BY <2>1, <2>2
<1>2. ASSUME NEW e \in Pending
      PROVE  e.lastUsed < req[r].at - Stall /\ e.lastUsed < req[r].at /\ e.lastUsed \in Int
  <2>1. e.lastUsed \in Int
    BY <1>2, SweepIs DEF Found
  <2>2. e.lastUsed < sweep.at - IdleExpiry
    BY <1>2, SweepIs DEF Collected, IsIdle
  <2>3. sweep.at <= now /\ sweep.at \in Nat
    BY <1>2, SweepIs DEF Pending
  <2>4. now <= req[r].at + Stall /\ req[r].at \in Nat /\ now \in Nat /\ Stall \in Nat
    BY AskedRecently
  <2>5. IdleExpiry \in Nat /\ 2 * Stall <= IdleExpiry
    BY SafeIs, Undisturbed
  <2> QED
    BY <2>1, <2>2, <2>3, <2>4, <2>5
<1> QED
  BY <1>1, <1>2

-----------------------------------------------------------------------------
(* The steps of a request.                                                 *)

LEMMA SameCollects ==
    ASSUME SweepCollects, UNCHANGED <<keys, heap, store, sweep>>
    PROVE  SweepCollects'
<1>1. \A e \in Pending : Collected(e)'
  BY DEF SweepCollects, Collected, IsIdle
<1> QED
  BY <1>1, SamePending DEF SweepCollects, IsIdle

\* A step before it draws changes only what it has in hand.
LEMMA AskingSaves ==
    ASSUME Safe, TypeOK', NEW r \in Requests, NEW x, req' = [req EXCEPT ![r] = x],
           UNCHANGED <<now, keys, heap, store, sweep>>,
           x.pc # "draw", x.at <= now /\ now <= x.at + Stall
    PROVE  SweepSaves'
<1>1. \A s \in Requests : req'[s] = IF s = r THEN x ELSE req[s]
  BY SafeIs DEF TypeOK
<1>2. ReadingsAreRecent'
  BY <1>1, SafeIs DEF ReadingsAreRecent
<1>3. SweepCollects'
  BY SafeIs, SameCollects
<1>4. DrawnOnIsRecent'
  BY <1>1, SafeIs DEF DrawnOnIsRecent
<1> QED
  BY <1>2, <1>3, <1>4 DEF SweepSaves

LEMMA EarlySaves ==
    ASSUME Safe, TypeOK', NEW r \in Requests,
           \/ \E k \in Keys : Arrive(r, k)
           \/ Lookup(r) \/ Load(r) \/ InsertLost(r)
    PROVE  SweepSaves'
<1>1. UNCHANGED <<now, keys, heap, store, sweep>>
  BY DEF Arrive, Lookup, Load, InsertLost, map, history
<1>2. req[r] \in Asking /\ now \in Nat /\ Stall \in Nat
  BY AskedRecently
<1>3. CASE \E k \in Keys : Arrive(r, k)
  <2>1. PICK k \in Keys : Arrive(r, k)
    BY <1>3
  <2>2. PICK x : x = [NoRequest EXCEPT !.pc = "lookup", !.key = k, !.at = now]
    OBVIOUS
  <2>3. x.pc = "lookup" /\ x.at = now /\ req' = [req EXCEPT ![r] = x]
    BY <2>1, <2>2 DEF Arrive, NoRequest
  <2>4. x.at <= now /\ now <= x.at + Stall
    BY <1>2, <2>3
  <2> QED
    BY <1>1, <2>3, <2>4, AskingSaves
<1>4. ASSUME req[r].pc # "idle", NEW e, req' = Given(r, e) PROVE SweepSaves'
  <2>1. PICK x : x = [req[r] EXCEPT !.pc = "touch", !.entry = e, !.snap = NoState]
    OBVIOUS
  <2>2. x.pc = "touch" /\ x.at = req[r].at /\ req' = [req EXCEPT ![r] = x]
    BY <1>2, <1>4, <2>1 DEF Given, Asking
  <2> QED
    BY <1>1, <1>4, <2>2, AskedRecently, AskingSaves
<1>5. CASE Lookup(r)
  <2>1. CASE req[r].key \in Present
    BY <1>4, <1>5, <2>1 DEF Lookup
  <2>2. CASE req[r].key \notin Present
    <3>1. PICK x : x = [req[r] EXCEPT !.pc = "load"]
      OBVIOUS
    <3>2. x.pc = "load" /\ x.at = req[r].at /\ req' = [req EXCEPT ![r] = x] /\ req[r].pc # "idle"
      BY <1>2, <1>5, <2>2, <3>1 DEF Lookup, Asking
    <3> QED
      BY <1>1, <3>2, AskedRecently, AskingSaves
  <2> QED
    BY <2>1, <2>2
<1>6. CASE Load(r)
  <2>1. PICK snap : req' = [req EXCEPT ![r].pc = "insert", ![r].snap = snap]
    BY <1>6 DEF Load
  <2>2. PICK x : x = [req[r] EXCEPT !.pc = "insert", !.snap = snap]
    OBVIOUS
  <2>3. x.pc = "insert" /\ x.at = req[r].at /\ req' = [req EXCEPT ![r] = x] /\ req[r].pc # "idle"
    BY <1>2, <1>6, <2>1, <2>2, SafeIs DEF Load, Asking, TypeOK
  <2> QED
    BY <1>1, <2>3, AskedRecently, AskingSaves
<1>7. CASE InsertLost(r)
  BY <1>4, <1>7 DEF InsertLost
<1> QED
  BY <1>3, <1>5, <1>6, <1>7

\* A new entry is none that the sweep has collected.
LEMMA InsertSaves ==
    ASSUME Safe, TypeOK', NEW r \in Requests, Insert(r)
    PROVE  SweepSaves'
<1>k. PICK k : k = req[r].key
  OBVIOUS
<1>n. PICK n : n = Len(heap) + 1
  OBVIOUS
<1>1. /\ UNCHANGED <<now, store, sweep>> /\ req[r].pc = "insert" /\ k \notin Present
      /\ keys' = [keys EXCEPT ![k] = n] /\ req' = Given(r, n)
      /\ heap' = Append(heap, NewEntry(req[r].snap))
  BY <1>k, <1>n DEF Insert, history
<1>2. \A x \in Addresses : heap'[x] = heap[x]
  <2>1. heap \in Seq(Entries) /\ Len(heap) \in Nat /\ NewEntry(req[r].snap) \in Entries
    BY SafeIs, HeapIsTyped, AskedRecently, NewEntryIsTyped DEF Asking
  <2> QED
    BY <1>1, <2>1, AppendProperties DEF Addresses
<1>3. /\ \A s \in Requests : s # r => req'[s] = req[s]
      /\ req'[r].pc = "touch" /\ req'[r].at = req[r].at
  BY <1>1, SafeIs DEF Given, TypeOK, Asking
<1>4. ReadingsAreRecent'
  BY <1>1, <1>3, SafeIs DEF ReadingsAreRecent
<1>5. SweepCollects'
  <2>1. ASSUME NEW e \in Pending PROVE Collected(e)'
    <3>1. e.key \in Present /\ e.entry \in Addresses /\ e.key \in Keys
      BY <2>1, PendingIs
    <3>2. keys'[e.key] = keys[e.key] /\ heap'[e.entry] = heap[e.entry]
      BY <1>1, <1>2, <3>1, SafeIs DEF TypeOK
    <3> QED
      BY <1>1, <2>1, <3>2, SweepIs DEF Collected, IsIdle
  <2> QED
    BY <1>1, <2>1, SamePending, SafeIs DEF SweepCollects, IsIdle
<1>6. DrawnOnIsRecent'
  <2> SUFFICES ASSUME NEW s \in Requests, req'[s].pc = "draw"
               PROVE  heap'[req'[s].entry].lastUsed >= req'[s].at - Stall
    BY DEF DrawnOnIsRecent
  <2>1. s # r /\ req'[s] = req[s]
    BY <1>3
  <2>2. req[s].entry \in Addresses
    BY <2>1, SafeIs DEF TypeOK
  <2> QED
    BY <1>2, <2>1, <2>2, SafeIs DEF DrawnOnIsRecent
<1> QED
  BY <1>4, <1>5, <1>6 DEF SweepSaves

\* Touching an entry that was collected marks it as used since.
LEMMA TouchSaves ==
    ASSUME Safe, TypeOK', NEW r \in Requests, Touch(r)
    PROVE  SweepSaves'
<1>a. PICK a : a = req[r].entry
  OBVIOUS
<1>1. /\ UNCHANGED <<now, keys, store, sweep>> /\ req[r].pc = "touch"
      /\ req' = [req EXCEPT ![r].pc = "draw"]
      /\ heap' = [heap EXCEPT ![a].lastUsed = req[r].at]
  BY <1>a DEF Touch, history
<1>2. a \in Addresses
  BY <1>1, <1>a, SafeIs DEF TypeOK
<1>3. \A x \in Addresses : /\ heap'[x].bucket = heap[x].bucket
                           /\ heap'[x].lastUsed = IF x = a THEN req[r].at ELSE heap[x].lastUsed
  BY <1>1, <1>2, SafeIs, HeapIsTyped DEF Addresses, Entries
<1>4. \A s \in Requests : /\ s # r => req'[s] = req[s]
                          /\ req'[s].at = req[s].at /\ req'[s].entry = req[s].entry
                          /\ req'[s].pc = IF s = r THEN "draw" ELSE req[s].pc
  BY <1>1, SafeIs DEF TypeOK, Asking
<1>5. ReadingsAreRecent'
  BY <1>1, <1>4, SafeIs DEF ReadingsAreRecent
<1>6. SweepCollects'
  <2>1. ASSUME NEW e \in Pending PROVE Collected(e)'
    <3>1. e.entry \in Addresses /\ Collected(e)
      BY <2>1, SweepIs DEF Found
    <3>2. e.lastUsed \in Int /\ req[r].at # e.lastUsed
      BY <1>1, <2>1, Recently, AskedRecently
    <3>3. heap'[e.entry].lastUsed = e.lastUsed =>
              TokensAt(heap'[e.entry].bucket, sweep.at) = e.tokens
      BY <1>3, <3>1, <3>2 DEF Collected
    <3> QED
      BY <1>1, <3>1, <3>3 DEF Collected, IsIdle
  <2> QED
    BY <1>1, <2>1, SamePending, SafeIs DEF SweepCollects, IsIdle
<1>7. DrawnOnIsRecent'
  <2> SUFFICES ASSUME NEW s \in Requests, req'[s].pc = "draw"
               PROVE  heap'[req'[s].entry].lastUsed >= req'[s].at - Stall
    BY DEF DrawnOnIsRecent
  <2>1. req[s].pc # "idle" /\ req[r].at >= req[s].at - Stall
    BY <1>1, <1>4, Recently
  <2>2. CASE s = r
    BY <1>2, <1>3, <1>4, <1>a, <2>1, <2>2
  <2>3. CASE s # r
    <3>1. req[s].pc = "draw" /\ req[s].entry \in Addresses
      BY <1>4, <2>3, SafeIs DEF TypeOK
    <3>2. heap[req[s].entry].lastUsed >= req[s].at - Stall
      BY <3>1, SafeIs DEF DrawnOnIsRecent
    <3> QED
      BY <1>3, <1>4, <2>1, <3>1, <3>2
  <2> QED
    BY <2>2, <2>3
<1> QED
  BY <1>5, <1>6, <1>7 DEF SweepSaves

\* A draw leaves alone what the sweep has collected and nobody has touched.
LEMMA DrawSaves ==
    ASSUME Safe, TypeOK', NEW r \in Requests, Draw(r)
    PROVE  SweepSaves'
<1>a. PICK a : a = req[r].entry
  OBVIOUS
<1>b. PICK b : b = AllowAt(heap[a].bucket, req[r].at)
  OBVIOUS
<1>1. /\ UNCHANGED <<now, keys, store, sweep>> /\ req[r].pc = "draw"
      /\ req' = [req EXCEPT ![r] = NoRequest]
      /\ heap' = [heap EXCEPT ![a].bucket = b]
  BY <1>a, <1>b DEF Draw
<1>2. a \in Addresses
  BY <1>1, <1>a, SafeIs DEF TypeOK
<1>3. \A x \in Addresses : /\ heap'[x].lastUsed = heap[x].lastUsed
                           /\ x # a => heap'[x] = heap[x]
  BY <1>1, <1>2, SafeIs, HeapIsTyped DEF Addresses, Entries
<1>4. \A s \in Requests : req'[s] = IF s = r THEN NoRequest ELSE req[s]
  BY <1>1, SafeIs DEF TypeOK
<1>5. NoRequest.pc = "idle"
  BY DEF NoRequest
<1>6. ReadingsAreRecent'
  BY <1>1, <1>4, <1>5, SafeIs DEF ReadingsAreRecent
<1>7. SweepCollects'
  <2>1. ASSUME NEW e \in Pending PROVE Collected(e)'
    <3>1. e.entry \in Addresses /\ Collected(e)
      BY <2>1, SweepIs DEF Found
    <3>2. e.lastUsed \in Int /\ e.lastUsed < req[r].at - Stall
      BY <1>1, <2>1, Recently
    <3>3. heap[a].lastUsed >= req[r].at - Stall /\ heap[a].lastUsed \in Int
      BY <1>1, <1>2, <1>a, SafeIs, HeapIsTyped DEF DrawnOnIsRecent
    <3>4. heap[a].lastUsed # e.lastUsed
      BY <3>2, <3>3, AskedRecently
    <3>5. heap'[e.entry].lastUsed = e.lastUsed =>
              TokensAt(heap'[e.entry].bucket, sweep.at) = e.tokens
      BY <1>3, <3>1, <3>4 DEF Collected
    <3> QED
      BY <1>1, <3>1, <3>5 DEF Collected, IsIdle
  <2> QED
    BY <1>1, <2>1, SamePending, SafeIs DEF SweepCollects, IsIdle
<1>8. DrawnOnIsRecent'
  <2> SUFFICES ASSUME NEW s \in Requests, req'[s].pc = "draw"
               PROVE  heap'[req'[s].entry].lastUsed >= req'[s].at - Stall
    BY DEF DrawnOnIsRecent
  <2>1. req'[s] = req[s] /\ req[s].entry \in Addresses
    BY <1>4, <1>5, SafeIs DEF TypeOK
  <2> QED
    BY <1>3, <2>1, SafeIs DEF DrawnOnIsRecent
<1> QED
  BY <1>6, <1>7, <1>8 DEF SweepSaves

-----------------------------------------------------------------------------
(* The steps of the sweep that only read.                                  *)

LEMMA SweepingSaves ==
    ASSUME Safe, UNCHANGED <<now, heap, req>>, sweep'.pc = "idle" \/ sweep'.at <= now,
           SweepCollects'
    PROVE  SweepSaves'
  BY SafeIs DEF SweepSaves, ReadingsAreRecent, DrawnOnIsRecent

\* With nothing pending there is nothing to agree on.
LEMMA EmptyHanded ==
    ASSUME Safe, UNCHANGED <<now, heap, req>>,
           \/ sweep'.pc = "idle"
           \/ /\ sweep'.at <= now
              /\ sweep'.pc \in {"drop", "report"} \/ (sweep'.pc = "scan" /\ sweep'.expired = {})
    PROVE  SweepSaves'
<1>1. Pending' = {}
  BY DEF Pending
<1>2. SweepCollects'
  BY <1>1 DEF SweepCollects
<1> QED
  BY <1>2, SweepingSaves

LEMMA StartSaves ==
    ASSUME Safe, StartSweep
    PROVE  SweepSaves'
<1>1. UNCHANGED <<now, heap, req>>
  BY DEF StartSweep, map
<1>2. sweep'.pc \in {"scan", "drop"} /\ sweep'.expired = {} /\ sweep'.at = now
  BY DEF StartSweep, NoSweep
<1>3. now <= now
  BY SafeIs, Undisturbed
<1> QED
  BY <1>1, <1>2, <1>3, EmptyHanded

\* Reporting, or dropping idle keys with no store: nothing is pending.
LEMMA ReportSaves ==
    ASSUME Safe, ReportSweep \/ DropIdle
    PROVE  SweepSaves'
<1>1. /\ UNCHANGED <<now, heap, req>> /\ sweep.pc \in {"report", "drop"}
  BY DEF ReportSweep, DropIdle, map
<1>2. PICK s : /\ sweep' = Reporting(s) \/ (sweep' = s /\ sweep.pc = "drop")
               /\ s.pc = sweep.pc /\ s.at = sweep.at
  <2>1. CASE ReportSweep
    BY <2>1, SweepIs DEF ReportSweep, Sweeping
  <2>2. CASE DropIdle
    <3>1. PICK n : n = Cardinality({k \in InShard(sweep.shard) :
                                       IsIdle(heap[keys[k]].lastUsed, sweep.at)})
      OBVIOUS
    <3>2. PICK s : s = [sweep EXCEPT !.evicted = @ + n, !.shard = @ + 1]
      OBVIOUS
    <3>3. s.pc = sweep.pc /\ s.at = sweep.at
      BY <3>2, SweepIs DEF Sweeping
    <3>4. sweep.pc = "drop" /\ (sweep' = s \/ sweep' = Reporting(s))
      BY <2>2, <3>1, <3>2 DEF DropIdle
    <3> QED
      BY <3>3, <3>4
  <2> QED
    BY <2>1, <2>2
<1>3. \/ sweep'.pc = "idle"
      \/ sweep'.pc \in {"drop", "report"} /\ sweep'.at = sweep.at
  <2>1. CASE sweep' = s /\ sweep.pc = "drop"
    BY <1>2, <2>1
  <2>2. CASE sweep' = NoSweep
    BY <2>2 DEF NoSweep
  <2>3. CASE ReportSweep /\ sweep'.pc # "idle"
    BY <2>3, SweepIs DEF ReportSweep, Reporting, NoSweep, Sweeping
  <2>4. CASE DropIdle /\ sweep'.pc # "idle"
    BY <2>4, SweepIs DEF DropIdle, Reporting, NoSweep, Sweeping
  <2> QED
    BY <2>3, <2>4
<1> QED
  BY <1>1, <1>3, SweepIs, EmptyHanded

LEMMA ReadUsedSaves ==
    ASSUME Safe, NEW k \in Keys, ReadUsed(k)
    PROVE  SweepSaves'
<1>1. /\ UNCHANGED <<now, keys, heap, store, req>> /\ sweep.pc = "scan" /\ k \in sweep.scan
  BY DEF ReadUsed, map
<1>2. /\ sweep'.scan = sweep.scan \ {k} /\ sweep'.expired = sweep.expired
      /\ sweep'.at = sweep.at /\ sweep'.shard = sweep.shard
      /\ \/ sweep'.pc = "scan"
         \/ sweep'.pc = "read" /\ sweep'.key = k /\ IsIdle(sweep'.lastUsed, sweep.at)
  BY <1>1, SweepIs DEF ReadUsed, Sweeping
<1>3. Pending' = Pending /\ Pending = sweep.expired
  BY <1>1, <1>2 DEF Pending
<1>4. \A e \in Pending : e.key \notin sweep.scan /\ e.key # k
  BY <1>1, SweepIs DEF Collected
<1>5. \A e \in Pending : Collected(e)'
  BY <1>1, <1>2, <1>4, SweepIs DEF Collected, IsIdle
<1>6. SweepCollects'
  BY <1>2, <1>3, <1>4, <1>5, SafeIs DEF SweepCollects, IsIdle
<1> QED
  BY <1>1, <1>2, <1>6, SweepIs, SweepingSaves

\* What ReadTokens collects.
LEMMA ReadTokensIs ==
    ASSUME Safe, ReadTokens
    PROVE  /\ UNCHANGED <<now, keys, heap, store, req>>
           /\ sweep.pc = "read" /\ sweep.key \in Keys /\ keys[sweep.key] \in Addresses
           /\ ShardOf[sweep.key] = sweep.shard
           /\ sweep'.pc = "scan" /\ sweep'.scan = sweep.scan /\ sweep'.at = sweep.at
           /\ sweep'.shard = sweep.shard /\ Pending = sweep.expired
           /\ Pending' = Pending \cup
                  {[key |-> sweep.key, entry |-> keys[sweep.key],
                    tokens |-> TokensAt(heap[keys[sweep.key]].bucket, sweep.at),
                    lastUsed |-> sweep.lastUsed]}
<1>1. /\ UNCHANGED <<now, keys, heap, store, req>>
      /\ sweep.pc = "read" /\ sweep.key \in InShard(sweep.shard)
  BY SafeIs DEF ReadTokens, map, SweepHolds
<1>2. /\ sweep.key \in Keys /\ keys[sweep.key] \in Addresses
      /\ ShardOf[sweep.key] = sweep.shard
  BY <1>1, SafeIs DEF InShard, Present, TypeOK
<1>3. PICK e : e = [key |-> sweep.key, entry |-> keys[sweep.key],
                    tokens |-> TokensAt(heap[keys[sweep.key]].bucket, sweep.at),
                    lastUsed |-> sweep.lastUsed]
  OBVIOUS
<1>4. /\ sweep'.pc = "scan" /\ sweep'.expired = sweep.expired \cup {e}
      /\ sweep'.scan = sweep.scan /\ sweep'.at = sweep.at /\ sweep'.shard = sweep.shard
  BY <1>1, <1>3, SweepIs DEF ReadTokens, Sweeping
<1>5. Pending = sweep.expired /\ Pending' = Pending \cup {e}
  BY <1>1, <1>4 DEF Pending
<1> QED
  BY <1>1, <1>2, <1>3, <1>4, <1>5

LEMMA ReadTokensSaves ==
    ASSUME Safe, ReadTokens
    PROVE  SweepSaves'
<1>e. PICK e : e = [key |-> sweep.key, entry |-> keys[sweep.key],
                    tokens |-> TokensAt(heap[keys[sweep.key]].bucket, sweep.at),
                    lastUsed |-> sweep.lastUsed]
  OBVIOUS
<1>1. /\ UNCHANGED <<now, keys, heap, store, req>> /\ sweep.pc = "read"
      /\ ShardOf[sweep.key] = sweep.shard
      /\ sweep'.pc = "scan" /\ sweep'.scan = sweep.scan /\ sweep'.at = sweep.at
      /\ sweep'.shard = sweep.shard /\ Pending' = Pending \cup {e}
  BY <1>e, ReadTokensIs
<1>2. /\ e.key = sweep.key /\ e.entry = keys[sweep.key] /\ e.lastUsed = sweep.lastUsed
      /\ e.tokens = TokensAt(heap[e.entry].bucket, sweep.at)
  BY <1>e
<1>3. \A d \in Pending : Collected(d)'
  BY <1>1, SweepIs DEF Collected, IsIdle
<1>4. Collected(e)'
  <2>1. IsIdle(sweep.lastUsed, sweep.at) /\ sweep.key \notin sweep.scan
    BY <1>1, SafeIs DEF SweepCollects
  <2>2. keys'[e.key] = e.entry /\ TokensAt(heap'[e.entry].bucket, sweep'.at) = e.tokens
    BY <1>1, <1>2
  <2>3. IsIdle(e.lastUsed, sweep'.at)
    BY <1>1, <1>2, <2>1
  <2>4. ShardOf[e.key] <= sweep'.shard /\ e.key \notin sweep'.scan
    BY <1>1, <1>2, <2>1, SweepIs
  <2> QED
    BY <1>1, <2>2, <2>3, <2>4 DEF Collected, IsIdle
<1>5. \A d \in Pending : d.key # e.key
  BY <1>1, <1>2, SafeIs DEF SweepCollects
<1>6. SweepCollects'
  <2>1. \A d, f \in Pending : d.key = f.key => d = f
    BY SafeIs DEF SweepCollects
  <2>2. \A d \in Pending' : Collected(d)'
    BY <1>1, <1>3, <1>4
  <2>3. \A d, f \in Pending' : d.key = f.key => d = f
    BY <1>1, <1>5, <2>1
  <2> QED
    BY <1>1, <2>2, <2>3 DEF SweepCollects
<1> QED
  BY <1>1, <1>6, SweepIs, SweepingSaves

LEMMA NextShardSaves ==
    ASSUME Safe, NextShard
    PROVE  SweepSaves'
<1>1. UNCHANGED <<now, keys, heap, store, req>> /\ sweep.pc = "scan"
  BY DEF NextShard, map
<1>2. Pending = sweep.expired
  BY <1>1 DEF Pending
<1>3. CASE /\ sweep.shard + 1 \in Shards
           /\ sweep' = [sweep EXCEPT !.shard = @ + 1, !.scan = InShard(sweep.shard + 1)]
  <2>1. /\ sweep'.pc = "scan" /\ sweep'.expired = sweep.expired /\ sweep'.at = sweep.at
        /\ sweep'.shard = sweep.shard + 1 /\ sweep'.scan = InShard(sweep.shard + 1)
    BY <1>1, <1>3, SweepIs DEF Sweeping
  <2>2. Pending' = Pending
    BY <1>2, <2>1 DEF Pending
  <2>3. ASSUME NEW e \in Pending
        PROVE  ShardOf[e.key] <= sweep.shard + 1 /\ e.key \notin InShard(sweep.shard + 1)
    <3>1. ShardOf[e.key] <= sweep.shard
      BY <1>1, <2>3, SweepIs DEF Collected
    <3>2. e.key \in Keys /\ ShardOf[e.key] \in Int
      BY <2>3, PendingIs, ShardsAreNumbered
    <3>3. ShardOf[e.key] < sweep.shard + 1
      BY <3>1, <3>2, SweepIs
    <3> QED
      BY <3>2, <3>3, SweepIs DEF InShard
  <2>4. \A e \in Pending : Collected(e)'
    BY <1>1, <2>1, <2>3, SweepIs DEF Collected, IsIdle
  <2>5. SweepCollects'
    BY <2>1, <2>2, <2>4, SafeIs DEF SweepCollects
  <2> QED
    BY <1>1, <2>1, <2>5, SweepIs, SweepingSaves
<1>4. CASE sweep' = [sweep EXCEPT !.pc = "flush", !.todo = sweep.expired]
  <2>1. /\ sweep'.pc = "flush" /\ sweep'.expired = sweep.expired /\ sweep'.at = sweep.at
        /\ sweep'.todo = sweep.expired
    BY <1>4, SweepIs DEF Sweeping
  <2>2. Pending' = Pending
    BY <1>2, <2>1 DEF Pending
  <2>3. \A e \in Pending : Collected(e)'
    BY <1>1, <1>2, <2>1, SweepIs DEF Collected, IsIdle
  <2>4. SweepCollects'
    BY <2>1, <2>2, <2>3, SafeIs DEF SweepCollects
  <2> QED
    BY <1>1, <2>1, <2>4, SweepIs, SweepingSaves
<1>5. CASE sweep' = NoSweep
  BY <1>1, <1>5, EmptyHanded DEF NoSweep
<1> QED
  BY <1>3, <1>4, <1>5 DEF NextShard

-----------------------------------------------------------------------------
(* The steps of the sweep that write and delete.                           *)

\* What phase 2 writes: one of the entries it has collected.
LEMMA FlushIs ==
    ASSUME Safe, FlushOne
    PROVE  /\ UNCHANGED <<now, keys, heap, req>> /\ sweep.pc = "flush"
           /\ sweep'.at = sweep.at /\ Pending' = Pending
           /\ \E e \in Pending :
                 /\ store' = [store EXCEPT ![e.key] = [tokens   |-> e.tokens,
                                                       lastUsed |-> e.lastUsed]]
                 /\ sweep'.expired = sweep.expired
                 /\ \/ /\ sweep'.pc = "delete" /\ sweep'.todo = sweep.expired
                       /\ sweep.todo = {e}
                    \/ sweep'.pc = "flush" /\ sweep'.todo = sweep.todo \ {e}
<1>1. /\ UNCHANGED <<now, keys, heap, req>> /\ sweep.pc = "flush"
  BY DEF FlushOne, map
<1>2. PICK e \in sweep.todo :
         /\ store' = [store EXCEPT ![e.key] = [tokens |-> e.tokens, lastUsed |-> e.lastUsed]]
         /\ sweep' = IF sweep.todo = {e}
                     THEN [sweep EXCEPT !.pc = "delete", !.todo = sweep.expired]
                     ELSE [sweep EXCEPT !.todo = @ \ {e}]
  BY SafeIs, Undisturbed DEF FlushOne
<1>3. Pending = sweep.expired /\ e \in Pending
  BY <1>1, <1>2, SafeIs DEF Pending, SweepCollects
<1>4. /\ sweep'.at = sweep.at /\ sweep'.expired = sweep.expired
      /\ \/ sweep'.pc = "delete" /\ sweep'.todo = sweep.expired /\ sweep.todo = {e}
         \/ sweep'.pc = "flush" /\ sweep'.todo = sweep.todo \ {e}
  BY <1>1, <1>2, SweepIs DEF Sweeping
<1>5. Pending' = Pending
  BY <1>1, <1>3, <1>4 DEF Pending
<1> QED
  BY <1>1, <1>2, <1>3, <1>4, <1>5

LEMMA FlushSaves ==
    ASSUME Safe, FlushOne
    PROVE  SweepSaves'
<1>1. /\ UNCHANGED <<now, keys, heap, req>> /\ sweep.pc = "flush"
      /\ sweep'.at = sweep.at /\ Pending' = Pending
  BY FlushIs
<1>2. PICK e \in Pending :
         /\ store' = [store EXCEPT ![e.key] = [tokens |-> e.tokens, lastUsed |-> e.lastUsed]]
         /\ sweep'.expired = sweep.expired
         /\ \/ sweep'.pc = "delete" /\ sweep'.todo = sweep.expired /\ sweep.todo = {e}
            \/ sweep'.pc = "flush" /\ sweep'.todo = sweep.todo \ {e}
  BY FlushIs
<1>3. /\ store'[e.key] = [tokens |-> e.tokens, lastUsed |-> e.lastUsed]
      /\ \A k \in Keys : k # e.key => store'[k] = store[k]
  BY <1>2, PendingIs, SafeIs DEF TypeOK
<1>4. \A d \in Pending : d.key = e.key => d = e
  BY <1>2, SafeIs DEF SweepCollects
<1>5. ASSUME NEW d \in Pending PROVE Collected(d)'
  <2>1. Collected(d) /\ d.key \in Keys
    BY <1>5, SweepIs, PendingIs
  <2>2. CASE d = e
    BY <1>1, <1>2, <1>3, <2>1, <2>2 DEF Collected, IsIdle
  <2>3. CASE d # e
    <3>1. d.key # e.key /\ store'[d.key] = store[d.key]
      BY <1>3, <1>4, <1>5, <2>1, <2>3
    <3>2. sweep'.pc = "delete" \/ (sweep'.pc = "flush" /\ d \notin sweep'.todo) =>
              d \notin sweep.todo
      BY <1>2, <2>3
    <3> QED
      BY <1>1, <1>2, <2>1, <3>1, <3>2 DEF Collected, IsIdle
  <2> QED
    BY <2>2, <2>3
<1>6. \A d, f \in Pending : d.key = f.key => d = f
  BY SafeIs DEF SweepCollects
<1>7. sweep'.pc = "flush" => sweep'.todo \subseteq sweep'.expired
  BY <1>1, <1>2, SafeIs DEF SweepCollects
<1>8. SweepCollects'
  BY <1>1, <1>2, <1>5, <1>6, <1>7 DEF SweepCollects
<1> QED
  BY <1>1, <1>8, SweepIs, SweepingSaves

\* What phase 3 deletes, if anything.
LEMMA DeleteIs ==
    ASSUME Safe, DeleteOne
    PROVE  /\ UNCHANGED <<now, heap, store, req>> /\ sweep.pc = "delete"
           /\ \E e \in Pending :
                 /\ \/ ~StillExpired(e) /\ keys' = keys
                    \/ StillExpired(e) /\ keys' = [keys EXCEPT ![e.key] = Absent]
                 /\ Pending' \subseteq Pending \ {e}
           /\ sweep'.at <= now
           /\ \/ sweep'.pc = "delete" /\ sweep'.at = sweep.at
              \/ sweep'.pc \in {"idle", "report"} /\ Pending' = {}
<1>1. /\ UNCHANGED <<now, heap, store, req>> /\ sweep.pc = "delete"
  BY DEF DeleteOne
<1>2. PICK e \in sweep.todo :
         LET gone == IF StillExpired(e) THEN {e.key} ELSE {}
             s    == [sweep EXCEPT !.todo = @ \ {e}, !.evicted = @ + Cardinality(gone)]
         IN  Forget(gone) /\ sweep' = IF s.todo = {} THEN Reporting(s) ELSE s
  BY DEF DeleteOne
<1>3. Pending = sweep.todo
  BY <1>1 DEF Pending
<1>4. keys \in [Keys -> {Absent} \cup Addresses] /\ e.key \in Keys
  BY <1>2, <1>3, PendingIs, SafeIs DEF TypeOK
<1>5. \/ ~StillExpired(e) /\ keys' = keys
      \/ StillExpired(e) /\ keys' = [keys EXCEPT ![e.key] = Absent]
  <2>1. CASE StillExpired(e)
    <3>1. keys' = [k \in Keys |-> IF k \in {e.key} THEN Absent ELSE keys[k]]
      BY <1>2, <2>1 DEF Forget
    <3> QED
      BY <1>4, <2>1, <3>1
  <2>2. CASE ~StillExpired(e)
    <3>1. keys' = [k \in Keys |-> IF k \in {} THEN Absent ELSE keys[k]]
      BY <1>2, <2>2 DEF Forget
    <3> QED
      BY <1>4, <2>2, <3>1
  <2> QED
    BY <2>1, <2>2
<1>6. PICK n : sweep' = LET s == [sweep EXCEPT !.todo = @ \ {e}, !.evicted = n]
                        IN  IF s.todo = {} THEN Reporting(s) ELSE s
  <2>1. sweep.evicted \in Nat
    BY SweepIs DEF Sweeping
  <2> QED
    BY <1>2
<1>7. PICK s : s = [sweep EXCEPT !.todo = @ \ {e}, !.evicted = n]
  OBVIOUS
<1>8. s.todo = sweep.todo \ {e} /\ s.pc = "delete" /\ s.at = sweep.at
  BY <1>1, <1>7, SweepIs DEF Sweeping
<1>9. sweep' = IF s.todo = {} THEN Reporting(s) ELSE s
  BY <1>6, <1>7
<1>10. CASE s.todo # {}
  <2>1. sweep'.pc = "delete" /\ sweep'.at = sweep.at /\ Pending' = Pending \ {e}
    BY <1>3, <1>8, <1>9, <1>10 DEF Pending
  <2>2. sweep.at <= now
    BY <1>1, SweepIs
  <2> QED
    BY <1>1, <1>2, <1>3, <1>5, <2>1, <2>2
<1>11. CASE s.todo = {}
  <2>1. sweep' = NoSweep \/ sweep' = [s EXCEPT !.pc = "report", !.expired = {}]
    BY <1>9, <1>11 DEF Reporting
  <2>2. sweep'.pc \in {"idle", "report"} /\ (sweep'.at = 0 \/ sweep'.at = sweep.at)
    <3>1. CASE sweep' = NoSweep
      BY <3>1 DEF NoSweep
    <3>2. CASE sweep' = [s EXCEPT !.pc = "report", !.expired = {}]
      <4>1. s = [pc |-> sweep.pc, at |-> sweep.at, shard |-> sweep.shard, scan |-> sweep.scan,
                 key |-> sweep.key, lastUsed |-> sweep.lastUsed, expired |-> sweep.expired,
                 todo |-> sweep.todo \ {e}, evicted |-> n]
        BY <1>7, SweepIs DEF Sweeping
      <4> QED
        BY <3>2, <4>1
    <3> QED
      BY <2>1, <3>1, <3>2
  <2>3. Pending' = {}
    BY <2>2 DEF Pending
  <2>4. sweep'.at <= now
    BY <1>1, <2>2, SweepIs, SafeIs, Undisturbed
  <2> QED
    BY <1>1, <1>2, <1>3, <1>5, <2>2, <2>3, <2>4
<1> QED
  BY <1>10, <1>11

LEMMA DeleteSaves ==
    ASSUME Safe, TypeOK', DeleteOne
    PROVE  SweepSaves'
<1>1. /\ UNCHANGED <<now, heap, store, req>> /\ sweep.pc = "delete"
      /\ sweep'.at <= now
      /\ \/ sweep'.pc = "delete" /\ sweep'.at = sweep.at
         \/ sweep'.pc \in {"idle", "report"} /\ Pending' = {}
  BY DeleteIs
<1>2. PICK e \in Pending : /\ \/ ~StillExpired(e) /\ keys' = keys
                              \/ StillExpired(e) /\ keys' = [keys EXCEPT ![e.key] = Absent]
                           /\ Pending' \subseteq Pending \ {e}
  BY DeleteIs
<1>3. \A k \in Keys : k # e.key => keys'[k] = keys[k]
  BY <1>2, SafeIs DEF TypeOK
<1>4. ASSUME NEW d \in Pending' PROVE Collected(d)'
  <2>1. d \in Pending /\ sweep'.pc = "delete" /\ sweep'.at = sweep.at /\ d # e
    BY <1>1, <1>2, <1>4
  <2>2. d.key # e.key /\ d.key \in Keys /\ Collected(d)
    BY <1>2, <2>1, PendingIs, SafeIs DEF SweepCollects
  <2> QED
    BY <1>1, <1>3, <2>1, <2>2 DEF Collected, IsIdle
<1>5. \A d, f \in Pending' : d.key = f.key => d = f
  BY <1>2, SafeIs DEF SweepCollects
<1>6. SweepCollects'
  BY <1>1, <1>4, <1>5 DEF SweepCollects
<1> QED
  BY <1>1, <1>6, SweepingSaves

\* What is deleted was saved as it is.
LEMMA DeletedIsSaved ==
    ASSUME Safe, sweep.pc = "delete", NEW e \in Pending, StillExpired(e)
    PROVE  /\ store[e.key] = [tokens |-> e.tokens, lastUsed |-> e.lastUsed]
           /\ keys[e.key] = e.entry
           /\ TokensAt(heap[e.entry].bucket, sweep.at) = e.tokens
           /\ heap[e.entry].lastUsed = e.lastUsed
  BY SweepIs DEF Collected, StillExpired

-----------------------------------------------------------------------------
(* The teardown, the clock, and the rest.                                  *)

LEMMA TeardownSaves ==
    ASSUME Safe, Teardown
    PROVE  SweepSaves'
<1>1. UNCHANGED <<now, heap, req>> /\ sweep'.pc = "idle"
  BY DEF Teardown, Quiet
<1> QED
  BY <1>1, EmptyHanded

\* Time passes, or nothing does: no request is out for longer than Stall.
LEMMA ClockSaves ==
    ASSUME Safe, UNCHANGED <<keys, heap, store, req, sweep>>,
           \/ now' = now
           \/ /\ now' = now + 1
              /\ \A r \in Requests : req[r].pc # "idle" => now < req[r].at + Stall
    PROVE  SweepSaves'
<1>1. ASSUME NEW r \in Requests, req[r].pc # "idle"
      PROVE  req[r].at <= now' /\ now' <= req[r].at + Stall
  BY <1>1, AskedRecently
<1>2. sweep.pc # "idle" => sweep.at <= now'
  BY SweepIs, SafeIs, Undisturbed
<1>3. ReadingsAreRecent'
  BY <1>1, <1>2 DEF ReadingsAreRecent
<1>4. SweepCollects'
  BY SafeIs, SameCollects
<1>5. DrawnOnIsRecent'
  BY SafeIs DEF DrawnOnIsRecent
<1> QED
  BY <1>3, <1>4, <1>5 DEF SweepSaves

LEMMA SavesStart == Init => SweepSaves
<1> SUFFICES ASSUME Init PROVE SweepSaves
  OBVIOUS
<1>1. Pending = {}
  BY DEF Init, Pending, NoSweep
<1> QED
  BY <1>1 DEF Init, SweepSaves, ReadingsAreRecent, SweepCollects, DrawnOnIsRecent, NoRequest,
              NoSweep

LEMMA SavesStep ==
    ASSUME Safe, TypeOK', [Next]_vars
    PROVE  SweepSaves'
<1>1. CASE UNCHANGED vars
  BY <1>1, ClockSaves DEF vars, map
<1>2. CASE Tick
  BY <1>2, ClockSaves DEF Tick, map
<1>3. ASSUME NEW r \in Requests, RequestStep(r) \/ \E k \in Keys : Arrive(r, k)
      PROVE  SweepSaves'
  BY <1>3, EarlySaves, InsertSaves, TouchSaves, DrawSaves DEF RequestStep
<1>4. CASE SweepStep
  BY <1>4, StartSaves, ReadUsedSaves, ReadTokensSaves, NextShardSaves, FlushSaves, DeleteSaves,
     ReportSaves DEF SweepStep
<1>5. Evictors = {}
  BY SafeIs, Undisturbed
<1> QED
  BY <1>1, <1>2, <1>3, <1>4, <1>5, TeardownSaves DEF Next

LEMMA SavesInvariant ==
    ASSUME SweepUndisturbed
    PROVE  Spec => [](RegistryInv /\ SweepSaves)
<1>1. Init => RegistryInv /\ SweepSaves
  BY RegistryInit, SavesStart
<1>2. RegistryInv /\ SweepSaves /\ [Next]_vars => (RegistryInv /\ SweepSaves)'
  <2> SUFFICES ASSUME RegistryInv, SweepSaves, [Next]_vars PROVE (RegistryInv /\ SweepSaves)'
    OBVIOUS
  <2>1. RegistryInv'
    BY RegistryStep
  <2>2. Safe /\ TypeOK'
    BY <2>1 DEF Safe, RegistryInv
  <2> QED
    BY <2>1, <2>2, SavesStep
<1> QED
  BY <1>1, <1>2, PTL DEF Spec

\* Phase 3 deletes only what has not been touched since it was saved (README.md:570,
\* registry/gc.go Sweep): when a key leaves memory the store has what its entry held
\* as of the sweep's start, however requests race it and whether or not buckets
\* refill; as long as no save fails, nobody calls Evict (whose own save may land
\* late), and no request takes longer than half the idle expiry from reading the
\* clock to drawing.
THEOREM DeletesSavedForAll ==
    ASSUME SweepUndisturbed
    PROVE  Spec => SweepDeletesWhatItSaved
<1> DEFINE Saved == \A k \in Keys :
                       (sweep.pc = "delete" /\ keys[k] # Absent /\ keys'[k] = Absent) =>
                           store[k] = [tokens   |-> TokensAt(heap[keys[k]].bucket, sweep.at),
                                       lastUsed |-> heap[keys[k]].lastUsed]
<1>1. RegistryInv /\ SweepSaves /\ [Next]_vars => [Saved]_vars
  <2> SUFFICES ASSUME RegistryInv, SweepSaves, Next, NEW k \in Keys,
                      sweep.pc = "delete", keys[k] # Absent, keys'[k] = Absent
               PROVE  store[k] = [tokens   |-> TokensAt(heap[keys[k]].bucket, sweep.at),
                                  lastUsed |-> heap[keys[k]].lastUsed]
    OBVIOUS
  <2>1. Safe
    BY DEF Safe
  <2>2. DeleteOne
    <3>1. Evictors = {}
      BY <2>1, SafeIs, Undisturbed
    <3>2. ~Teardown
      BY DEF Teardown, Quiet
    <3>3. ASSUME NEW r \in Requests, Insert(r) PROVE FALSE
      BY <2>1, <3>3, InsertIsNew, SafeIs DEF TypeOK, Present
    <3> QED
      BY <3>1, <3>2, <3>3
         DEF Next, RequestStep, Arrive, Lookup, Load, InsertLost, Touch, Draw, SweepStep,
             StartSweep, ReadUsed, ReadTokens, NextShard, FlushOne, DropIdle, ReportSweep,
             Tick, map
  <2>3. PICK e \in Pending : \/ ~StillExpired(e) /\ keys' = keys
                             \/ StillExpired(e) /\ keys' = [keys EXCEPT ![e.key] = Absent]
    BY <2>1, <2>2, DeleteIs
  <2>4. StillExpired(e) /\ k = e.key
    BY <2>1, <2>3, SafeIs DEF TypeOK
  <2>5. /\ store[k] = [tokens |-> e.tokens, lastUsed |-> e.lastUsed] /\ keys[k] = e.entry
        /\ TokensAt(heap[e.entry].bucket, sweep.at) = e.tokens
        /\ heap[e.entry].lastUsed = e.lastUsed
    BY <2>1, <2>4, DeletedIsSaved
  <2> QED
    BY <2>5
<1> QED
  BY <1>1, SavesInvariant, PTL DEF Spec, SweepDeletesWhatItSaved

==============================================================================
