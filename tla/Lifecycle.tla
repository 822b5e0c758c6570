------------------------------ MODULE Lifecycle ------------------------------
(***************************************************************************)
(* The lifetime of a Limiter (limiter/lifecycle.go): the barrier every     *)
(* operation passes (enter, leave), the GC goroutine, and the two ways of  *)
(* closing, Close and Shutdown, which may run many times at once and share *)
(* one teardown behind a sync.Once.                                        *)
(*                                                                         *)
(* An operation is any call that passes Enter: Allow, Wait, Reserve, Evict *)
(* and the client's Do and Stream.  Of what it does inside, the module     *)
(* keeps the store I/O, the entry it finds in memory, the token it charges *)
(* to it, and how it leaves.  Each operation has an entry of its own: what *)
(* matters here is who still holds a charge when the store is closed.      *)
(* Saves fail: the sweep and the final flush log the failure and go on     *)
(* (limiter/persist.go:112), Evict returns it.  Registry.tla has the       *)
(* population itself, and the sharing of keys.                             *)
(***************************************************************************)
EXTENDS Integers, FiniteSets

CONSTANTS
    Ops,        \* calls that pass the barrier, each made once
    Streams,    \* those that hand their registration to a response body
    Evicts,     \* those that are Evict: they charge nothing
    Closers,    \* calls to Close and Shutdown
    Graceful,   \* those that call Shutdown
    Persists    \* persistence.persists(): a store, and no shared quota

ASSUME LifecycleAssumption ==
    /\ IsFiniteSet(Ops)
    /\ Streams \subseteq Ops
    /\ Evicts \subseteq Ops \ Streams
    /\ Graceful \subseteq Closers
    /\ Persists \in BOOLEAN

VARIABLES
    shuttingDown,   \* Limiter.shuttingDown
    active,         \* the count inside Limiter.activeWg
    cancelled,      \* l.ctx is done
    once,           \* closeOnce: "new", "running", "done"
    closeErr,       \* Limiter.closeErr is set
    store,          \* "open" or "closed"
    gc,             \* where the GC goroutine is
    op,             \* where each operation is
    closer,         \* where each Close or Shutdown is
    expired,        \* the Shutdown calls whose ctx is done
    result,         \* what each Close or Shutdown returned
    live,           \* operations whose entry is in memory
    picked,         \* those whose entry the sweep has flushed and may drop
    taken,          \* the charge each Evict holds between map and store
    saved,          \* operations whose charge is in the store
    charged,        \* history: operations that charged their entry
    failed,         \* history: operations a save of whose charge failed
    orphaned        \* history: operations whose entry was let go before they drew

barrier  == <<shuttingDown, active>>
teardown == <<cancelled, once, closeErr, store>>
entries  == <<live, picked, taken>>
data     == <<entries, saved, charged, failed, orphaned>>
calls    == <<closer, expired, result>>
vars     == <<barrier, teardown, gc, op, calls, data>>

-----------------------------------------------------------------------------

\* Registered with activeWg.
Registered ==
    {"entered", "io", "holding", "working", "streaming", "evicting"}

OpStages == Registered \cup {"idle", "left", "refused"}
GcStages == {"waiting", "sweeping", "dropping", "exited"}

Inside  == {o \in Ops : op[o] \in Registered}
Holding == {o \in Ops : op[o] = "holding"}
InHand  == {k \in Ops : \E o \in Ops : k \in taken[o]}

\* The steps inside closeOnce.Do, in their order.
Owning == {"cancel", "gcWait", "opsWait", "flush", "drop", "closeStore"}

CloserStages ==
    {"idle", "draining", "forced", "finishing", "returned"} \cup Owning

Results == {"none", "nil", "closeErr", "ctxErr"}

TypeOK ==
    /\ shuttingDown \in BOOLEAN
    /\ active \in Nat
    /\ cancelled \in BOOLEAN
    /\ once \in {"new", "running", "done"}
    /\ closeErr \in BOOLEAN
    /\ store \in {"open", "closed"}
    /\ gc \in GcStages
    /\ op \in [Ops -> OpStages]
    /\ closer \in [Closers -> CloserStages]
    /\ expired \subseteq Graceful
    /\ result \in [Closers -> Results]
    /\ live \subseteq Ops
    /\ picked \subseteq Ops
    /\ taken \in [Ops -> SUBSET Ops]
    /\ saved \subseteq Ops
    /\ charged \subseteq Ops
    /\ failed \subseteq Ops
    /\ orphaned \subseteq Ops

Init ==
    /\ shuttingDown = FALSE
    /\ active = 0
    /\ cancelled = FALSE
    /\ once = "new"
    /\ closeErr = FALSE
    /\ store = "open"
    /\ gc = "waiting"
    /\ op = [o \in Ops |-> "idle"]
    /\ closer = [c \in Closers |-> "idle"]
    /\ expired = {}
    /\ result = [c \in Closers |-> "none"]
    /\ live = {}
    /\ picked = {}
    /\ taken = [o \in Ops |-> {}]
    /\ saved = {}
    /\ charged = {}
    /\ failed = {}
    /\ orphaned = {}

-----------------------------------------------------------------------------
(* Operations.                                                             *)

OpMoves(o, from, to) ==
    /\ op[o] = from
    /\ op' = [op EXCEPT ![o] = to]

\* Mutant of Enter: registers without asking whether the door is shut.
EnterUnchecked(o) ==
    /\ OpMoves(o, "idle", "entered")
    /\ active' = active + 1
    /\ UNCHANGED <<shuttingDown, teardown, gc, calls, data>>

\* enter: the check and the Add are one critical section of shutdownMu.
Enter(o) ==
    /\ ~shuttingDown
    /\ OpMoves(o, "idle", "entered")
    /\ active' = active + 1
    /\ UNCHANGED <<shuttingDown, teardown, gc, calls, data>>

Refused(o) ==
    /\ shuttingDown
    /\ OpMoves(o, "idle", "refused")
    /\ UNCHANGED <<barrier, teardown, gc, calls, data>>

\* A key's first request loads its state.
StartIO(o) ==
    /\ Persists /\ o \notin Evicts
    /\ OpMoves(o, "entered", "io")
    /\ UNCHANGED <<barrier, teardown, gc, calls, data>>

\* The operation has its entry: found in the map, or created in it.
Find(o) ==
    /\ o \notin Evicts
    /\ OpMoves(o, "entered", "holding") \/ OpMoves(o, "io", "holding")
    /\ live' = live \cup {o}
    /\ UNCHANGED <<barrier, teardown, gc, calls,
                   picked, taken, saved, charged, failed, orphaned>>

\* It touches the entry and draws on its bucket, whether or not the entry is
\* still in the map; the touch makes a sweep that had picked it leave it be.
Charge(o) ==
    /\ OpMoves(o, "holding", "working")
    /\ charged' = charged \cup {o}
    /\ picked' = picked \ {o}
    /\ UNCHANGED <<barrier, teardown, gc, calls, live, taken, saved, failed, orphaned>>

\* Evict: the entry leaves the map under the shard lock, its state is saved
\* after.  Whoever had found the entry draws on it for nothing.
Evict(o) ==
    /\ o \in Evicts
    /\ OpMoves(o, "entered", IF Persists THEN "evicting" ELSE "working")
    /\ \E k \in live :
          /\ live' = live \ {k}
          /\ taken' = [taken EXCEPT ![o] = IF Persists THEN {k} \cap charged ELSE {}]
          /\ orphaned' = orphaned \cup ({k} \cap Holding)
    /\ UNCHANGED <<barrier, teardown, gc, calls, picked, saved, charged, failed>>

\* The save answers or fails; Evict returns the error, and the key is gone.
EvictSaved(o) ==
    /\ OpMoves(o, "evicting", "working")
    /\ \/ saved' = saved \cup taken[o] /\ UNCHANGED failed
       \/ failed' = failed \cup taken[o] /\ UNCHANGED saved
    /\ taken' = [taken EXCEPT ![o] = {}]
    /\ UNCHANGED <<barrier, teardown, gc, calls, live, picked, charged, orphaned>>

\* Stream returns the response; its body keeps the registration.
HandOver(o) ==
    /\ o \in Streams
    /\ OpMoves(o, "working", "streaming")
    /\ UNCHANGED <<barrier, teardown, gc, calls, data>>

\* Mutant of Leave: releases twice.
LeaveTwice(o) ==
    /\ active' = active - 2
    /\ UNCHANGED <<shuttingDown, teardown, gc, calls, data>>

Leave(o) ==
    /\ active' = active - 1
    /\ UNCHANGED <<shuttingDown, teardown, gc, calls, data>>

\* The operation returns: served, refused a token, or cancelled.
Return(o) ==
    /\ \E stage \in {"entered", "io", "holding", "working"} : OpMoves(o, stage, "left")
    /\ Leave(o)

\* releasingBody.Close, which releases once however often it is called.
CloseBody(o) ==
    /\ OpMoves(o, "streaming", "left")
    /\ Leave(o)

-----------------------------------------------------------------------------
(* The GC goroutine: gcLoop.                                               *)

GcTick ==
    /\ gc = "waiting"
    /\ gc' = "sweeping"
    /\ UNCHANGED <<barrier, teardown, op, calls, data>>

\* Mutant of GcFlush: picks the idle keys without persisting them.
GcFlushNothing ==
    /\ gc = "sweeping"
    /\ gc' = "dropping"
    /\ picked' \in SUBSET live
    /\ UNCHANGED <<barrier, teardown, op, calls,
                   live, taken, saved, charged, failed, orphaned>>

\* Phases 1 and 2 of the sweep: the idle keys are collected and flushed; a
\* save that fails is logged and its key stays picked.  With nothing to
\* persist the pass only picks.
GcFlush ==
    /\ gc = "sweeping"
    /\ gc' = "dropping"
    /\ \E idle \in SUBSET live : \E kept \in SUBSET (idle \cap charged) :
          /\ picked' = idle
          /\ saved' = IF Persists THEN saved \cup kept ELSE saved
          /\ failed' = IF Persists THEN failed \cup ((idle \cap charged) \ kept) ELSE failed
    /\ UNCHANGED <<barrier, teardown, op, calls, live, taken, charged, orphaned>>

\* Phase 3: what nobody has touched since is dropped, saved or not.
GcDrop ==
    /\ gc = "dropping"
    /\ gc' = "waiting"
    /\ live' = live \ picked
    /\ orphaned' = orphaned \cup (live \cap picked \cap Holding)
    /\ picked' = {}
    /\ UNCHANGED <<barrier, teardown, op, calls, taken, saved, charged, failed>>

GcExit ==
    /\ gc = "waiting"
    /\ cancelled
    /\ gc' = "exited"
    /\ UNCHANGED <<barrier, teardown, op, calls, data>>

-----------------------------------------------------------------------------
(* Close and Shutdown.                                                     *)

CloserMoves(c, from, to) ==
    /\ closer[c] = from
    /\ closer' = [closer EXCEPT ![c] = to]

CallClose(c) ==
    /\ c \notin Graceful
    /\ CloserMoves(c, "idle", "finishing")
    /\ shuttingDown' = TRUE
    /\ UNCHANGED <<active, teardown, gc, op, expired, result, data>>

CallShutdown(c) ==
    /\ c \in Graceful
    /\ CloserMoves(c, "idle", "draining")
    /\ shuttingDown' = TRUE
    /\ UNCHANGED <<active, teardown, gc, op, expired, result, data>>

\* The deadline of a Shutdown's ctx; it may pass before the call is made.
Expire(c) ==
    /\ c \in Graceful \ expired
    /\ expired' = expired \cup {c}
    /\ UNCHANGED <<barrier, teardown, gc, op, closer, result, data>>

\* Mutant of Drained: does not wait for the operations.
DrainedEarly(c) ==
    /\ CloserMoves(c, "draining", "finishing")
    /\ UNCHANGED <<barrier, teardown, gc, op, expired, result, data>>

\* The select: waitDone, or ctx.Done; either when both are ready.
Drained(c) ==
    /\ active = 0
    /\ CloserMoves(c, "draining", "finishing")
    /\ UNCHANGED <<barrier, teardown, gc, op, expired, result, data>>

ForceCancel(c) ==
    /\ c \in expired
    /\ CloserMoves(c, "draining", "forced")
    /\ cancelled' = TRUE
    /\ result' = [result EXCEPT ![c] = "ctxErr"]
    /\ UNCHANGED <<barrier, once, closeErr, store, gc, op, expired, data>>

ForceDrained(c) ==
    /\ active = 0
    /\ CloserMoves(c, "forced", "finishing")
    /\ UNCHANGED <<barrier, teardown, gc, op, expired, result, data>>

-----------------------------------------------------------------------------
(* finish: the teardown inside closeOnce.Do, run by its first caller.      *)

BeginTeardown(c) ==
    /\ once = "new"
    /\ CloserMoves(c, "finishing", "cancel")
    /\ once' = "running"
    /\ UNCHANGED <<barrier, cancelled, closeErr, store, gc, op, expired, result, data>>

\* Mutant of CancelAll: goes on to wait without cancelling anybody.
CancelNobody(c) ==
    /\ CloserMoves(c, "cancel", "gcWait")
    /\ UNCHANGED <<barrier, teardown, gc, op, expired, result, data>>

CancelAll(c) ==
    /\ CloserMoves(c, "cancel", "gcWait")
    /\ cancelled' = TRUE
    /\ UNCHANGED <<barrier, once, closeErr, store, gc, op, expired, result, data>>

\* Mutant of GcDrained: does not wait for the GC goroutine.
GcStillRunning(c) ==
    /\ CloserMoves(c, "gcWait", "opsWait")
    /\ UNCHANGED <<barrier, teardown, gc, op, expired, result, data>>

GcDrained(c) ==
    /\ gc = "exited"
    /\ CloserMoves(c, "gcWait", "opsWait")
    /\ UNCHANGED <<barrier, teardown, gc, op, expired, result, data>>

\* Mutant of OpsDrained: does not wait for the operations.
OpsStillInside(c) ==
    /\ CloserMoves(c, "opsWait", IF Persists THEN "flush" ELSE "drop")
    /\ UNCHANGED <<barrier, teardown, gc, op, expired, result, data>>

OpsDrained(c) ==
    /\ active = 0
    /\ CloserMoves(c, "opsWait", IF Persists THEN "flush" ELSE "drop")
    /\ UNCHANGED <<barrier, teardown, gc, op, expired, result, data>>

\* flush(SnapshotAll()): what is in memory, and nothing else, is written; a
\* save that fails is logged, and the teardown goes on.
Flush(c) ==
    /\ CloserMoves(c, "flush", "drop")
    /\ \E kept \in SUBSET (live \cap charged) :
          /\ saved' = saved \cup kept
          /\ failed' = failed \cup ((live \cap charged) \ kept)
    /\ UNCHANGED <<barrier, teardown, gc, op, expired, result, entries, charged, orphaned>>

\* Mutant of DropAll: reports the keys and leaves them in the map.
DropNothing(c) ==
    /\ CloserMoves(c, "drop", "closeStore")
    /\ UNCHANGED <<barrier, teardown, gc, op, expired, result, data>>

DropAll(c) ==
    /\ CloserMoves(c, "drop", "closeStore")
    /\ live' = {}
    /\ UNCHANGED <<barrier, teardown, gc, op, expired, result,
                   picked, taken, saved, charged, failed, orphaned>>

\* What a caller of finish returns: its own ctx error first.
Answer(c, err) ==
    IF result[c] = "ctxErr" THEN "ctxErr" ELSE IF err THEN "closeErr" ELSE "nil"

CloseStore(c) ==
    /\ CloserMoves(c, "closeStore", "returned")
    /\ store' = "closed"
    /\ closeErr' \in BOOLEAN
    /\ once' = "done"
    /\ result' = [result EXCEPT ![c] = Answer(c, closeErr')]
    /\ UNCHANGED <<barrier, cancelled, gc, op, expired, data>>

\* Mutants of JoinTeardown: returns while the teardown runs; forgets the error.
JoinTeardownEarly(c) ==
    /\ once # "new"
    /\ CloserMoves(c, "finishing", "returned")
    /\ result' = [result EXCEPT ![c] = Answer(c, closeErr)]
    /\ UNCHANGED <<barrier, teardown, gc, op, expired, data>>

JoinTeardownNil(c) ==
    /\ once = "done"
    /\ CloserMoves(c, "finishing", "returned")
    /\ result' = [result EXCEPT ![c] = Answer(c, FALSE)]
    /\ UNCHANGED <<barrier, teardown, gc, op, expired, data>>

\* Everyone else waits for the first caller and reads what it stored.
JoinTeardown(c) ==
    /\ once = "done"
    /\ CloserMoves(c, "finishing", "returned")
    /\ result' = [result EXCEPT ![c] = Answer(c, closeErr)]
    /\ UNCHANGED <<barrier, teardown, gc, op, expired, data>>

-----------------------------------------------------------------------------

OpStep(o) ==
    \/ Enter(o)
    \/ Refused(o)
    \/ StartIO(o)
    \/ Find(o)
    \/ Charge(o)
    \/ Evict(o)
    \/ EvictSaved(o)
    \/ HandOver(o)
    \/ Return(o)
    \/ CloseBody(o)

GcStep == GcTick \/ GcFlush \/ GcDrop \/ GcExit

\* What a Close or a Shutdown does once called, without the environment.
CloserStep(c) ==
    \/ Drained(c)
    \/ ForceCancel(c)
    \/ ForceDrained(c)
    \/ BeginTeardown(c)
    \/ CancelAll(c)
    \/ GcDrained(c)
    \/ OpsDrained(c)
    \/ Flush(c)
    \/ DropAll(c)
    \/ CloseStore(c)
    \/ JoinTeardown(c)

Next ==
    \/ \E o \in Ops : OpStep(o)
    \/ GcStep
    \/ \E c \in Closers : CallClose(c) \/ CallShutdown(c) \/ Expire(c) \/ CloserStep(c)

Spec == Init /\ [][Next]_vars

(***************************************************************************)
(* Fairness.  The goroutines of a closer and of the GC keep running.  A    *)
(* select that finds both channels ready picks one at random, so the GC    *)
(* cannot take its ticker for ever once ctx.Done is ready: strong fairness *)
(* of GcExit.  An operation is promised to return only once its context is *)
(* cancelled, because a wait for a token or for a server may be long; a    *)
(* save is bounded by the store timeout.                                   *)
(* Nothing is promised about CloseBody: closing a body is the caller's.    *)
(***************************************************************************)
Fairness ==
    /\ \A o \in Ops : WF_vars(cancelled /\ (Return(o) \/ EvictSaved(o)))
    /\ \A c \in Closers : WF_vars(CloserStep(c))
    /\ WF_vars(GcFlush \/ GcDrop)
    /\ SF_vars(GcExit)

FairSpec == Spec /\ Fairness
-----------------------------------------------------------------------------
(* Properties.                                                             *)

\* "once the store is closed, nothing may touch it" (lifecycle.go:117): loads
\* and saves of operations, the sweep's writes and the final flush all happen
\* before Close of the store.
StoreUsedOnlyWhileOpen ==
    \/ \E o \in Ops : op[o] \in {"io", "evicting"}
    \/ gc = "sweeping"
    \/ \E c \in Closers : closer[c] = "flush"
    => store = "open"

\* "no new registration can appear after this point" (lifecycle.go:124): once
\* anyone waits on activeWg, its count only falls, which is also what makes the
\* WaitGroup legal to use.
NoAddDuringWait ==
    [][(\E c \in Closers : closer[c] \in {"draining", "forced", "opsWait"})
       => active' <= active]_vars

\* "The store is always flushed and closed on return" (lifecycle.go:30), Close
\* and Shutdown alike, first caller or not: nobody returns before the GC and
\* every operation are gone and the store is closed.
ReturnMeansClosed ==
    \A c \in Closers : closer[c] = "returned" =>
        store = "closed" /\ gc = "exited" /\ Inside = {}

\* "Persist before discarding" (lifecycle.go:131), and the sweep's and Evict's
\* "state is persisted first": a charge is in memory, in the store or on its way
\* between the two, unless a save of it was tried and failed, which the code
\* logs or returns (persist.go:112, gc.go:48), or it was drawn on an entry the
\* sweep or an Evict had let go meanwhile.  Nothing else loses one.
NoChargeLost ==
    Persists => charged \subseteq saved \cup live \cup InHand \cup failed \cup orphaned

\* The same at the end: a closed store holds every charge but those, and no key
\* was brought back into memory behind the final flush.
ClosedHoldsEverything ==
    store = "closed" =>
        live = {} /\ (Persists => charged \subseteq saved \cup failed \cup orphaned)

\* "stops accepting new requests and waits for in-flight ones" (README.md:495):
\* operations are cancelled only by a Close or by an expired Shutdown.
GracefulUntilForced ==
    cancelled =>
        \/ Inside = {}
        \/ \E c \in Closers \ Graceful : closer[c] # "idle"
        \/ \E c \in Graceful : result[c] = "ctxErr"

\* "repeated calls return the error recorded by the first" (lifecycle.go:106).
SameAnswer ==
    \A c, d \in Closers :
        /\ closer[c] = "returned" /\ closer[d] = "returned"
        /\ result[c] # "ctxErr" /\ result[d] # "ctxErr"
        => result[c] = result[d]

\* "Waiting on activeWg cannot deadlock" (lifecycle.go:123) and "Close does not
\* wait" (README.md:506): if every streamed body is closed in the end, every
\* Close, and every Shutdown whose deadline passes, returns.
ClosersReturn ==
    []<>(\A o \in Ops : op[o] # "streaming") =>
        \A c \in Closers :
            (closer[c] # "idle" /\ (c \in Graceful => c \in expired))
                ~> closer[c] = "returned"

\* "If ctx expires first, remaining waiters are force-cancelled and Shutdown
\* returns ctx.Err()" (lifecycle.go:29), said of streamed bodies too by
\* README.md:495.
ExpiredShutdownReturns ==
    \A c \in Graceful :
        (closer[c] # "idle" /\ c \in expired) ~> closer[c] = "returned"

\* The lifetime seen from outside: work is what is registered, the store is
\* closed by whoever runs the teardown.
Contract == INSTANCE DrainThenClose WITH
    Work <- Ops,
    admitted <- Inside,
    phase <- IF store = "closed" THEN "closed"
             ELSE IF shuttingDown THEN "draining" ELSE "serving"

\* finish's ordering implements admit, drain, close (lifecycle.go:114-125).
DrainsThenCloses == Contract!Spec

-----------------------------------------------------------------------------
(* The inductive invariant.                                                *)

\* The WaitGroup counts the operations inside: enter and leave pair up.
CountIsInside == active = Cardinality(Inside)

\* A closer that has begun has shut the door.
DoorIsShut ==
    (\E c \in Closers : closer[c] # "idle") => shuttingDown

\* sync.Once: one owner while running, none before or after.
OneOwner ==
    /\ \A c, d \in Closers :
          closer[c] \in Owning /\ closer[d] \in Owning => c = d
    /\ (\E c \in Closers : closer[c] \in Owning) => once = "running"
    /\ (\E c \in Closers : closer[c] = "returned") => once = "done"

\* What each stage of the teardown has behind it.
TeardownOrder ==
    /\ \A c \in Closers :
          /\ closer[c] \in Owning \ {"cancel"} => cancelled
          /\ closer[c] \in {"opsWait", "flush", "drop", "closeStore"} => gc = "exited"
          /\ closer[c] \in {"flush", "drop", "closeStore"} => active = 0
          /\ closer[c] = "flush" => Persists
          /\ closer[c] \in {"drop", "closeStore"} =>
                (Persists => charged \subseteq saved \cup failed \cup orphaned)
          /\ closer[c] = "closeStore" => live = {}
    /\ once = "done" => gc = "exited" /\ active = 0 /\ shuttingDown
    /\ store = "closed" <=> once = "done"

\* Who has an entry or a charge in hand: a request's entry is in the map or was
\* let go under it, only an Evict that is saving holds a charge outside both
\* map and store, and the sweep has tried to save what it is about to drop.
Custody ==
    /\ Holding \subseteq live \cup orphaned
    /\ \A o \in Ops : taken[o] # {} => op[o] = "evicting"
    /\ Persists => (picked \cap charged) \subseteq saved \cup failed

LifecycleInv ==
    /\ TypeOK
    /\ CountIsInside
    /\ DoorIsShut
    /\ OneOwner
    /\ TeardownOrder
    /\ Custody
    /\ NoChargeLost
    /\ ClosedHoldsEverything
=============================================================================
