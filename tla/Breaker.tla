------------------------------- MODULE Breaker -------------------------------
(***************************************************************************)
(* The circuit breaker (breaker/breaker.go) and the guarded calls that     *)
(* drive it (gate/gate.go Take, gate/admit.go wait).                       *)
(*                                                                         *)
(* The breaker's mutex makes each of its four methods one step.  A call    *)
(* reads the clock BEFORE it takes that mutex, both in Allow(g.cfg.Now())  *)
(* and in Failed(g.cfg.Now()), so other calls can move the breaker between *)
(* the reading and the method: a call is at "arrived" or "failing" there.  *)
(*                                                                         *)
(* A verdict carries no mark of the call it belongs to: Succeeded, Failed  *)
(* and Abandoned act on whatever state the breaker is in when they run.    *)
(***************************************************************************)
EXTENDS Integers

CONSTANTS
    Calls,      \* the goroutines that make guarded calls
    Threshold,  \* consecutive failures that open the breaker
    Cooldown,   \* ticks the breaker stays open
    MaxCall,    \* ticks from a call's clock reading to its verdict, at most
    Parking,    \* TRUE: the calls are gate.wait's, parked in a shared.Waiter
    MaxTime     \* bound on the clock

ASSUME BreakerAssumption ==
    /\ Threshold \in Nat \ {0}
    /\ Cooldown \in Nat \ {0}
    /\ MaxCall \in Nat
    /\ MaxTime \in Nat
    /\ Parking \in BOOLEAN

(***************************************************************************)
(* The zero time.Time: the breaker is closed.                              *)
(***************************************************************************)
Zero == -1

VARIABLES
    now,        \* the wall clock
    failures,   \* Breaker.failures
    openTill,   \* Breaker.openTill, Zero when closed
    probing,    \* Breaker.probing
    pc,         \* where each call is
    readAt,     \* the clock reading each call passed to Allow
    failedAt,   \* the clock reading each call passes to Failed
    isProbe,    \* history: this call was let through as the half-open probe
    gateClosed  \* g.ctx is cancelled: the owner shut down

breaker == <<failures, openTill, probing>>
call    == <<pc, readAt, failedAt, isProbe>>
vars    == <<now, breaker, call, gateClosed>>

Stages == {"idle", "arrived", "calling", "failing"}
Times  == 0..MaxTime

InFlight(c) == pc[c] \in {"calling", "failing"}
Closed      == openTill = Zero

TypeOK ==
    /\ now \in Times
    /\ failures \in 0..(Threshold - 1)
    /\ openTill \in {Zero} \cup (0..(MaxTime + Cooldown))
    /\ probing \in BOOLEAN
    /\ pc \in [Calls -> Stages]
    /\ readAt \in [Calls -> Times]
    /\ failedAt \in [Calls -> Times]
    /\ isProbe \in [Calls -> BOOLEAN]
    /\ gateClosed \in BOOLEAN

Init ==
    /\ now = 0
    /\ failures = 0
    /\ openTill = Zero
    /\ probing = FALSE
    /\ pc = [c \in Calls |-> "idle"]
    /\ readAt = [c \in Calls |-> 0]
    /\ failedAt = [c \in Calls |-> 0]
    /\ isProbe = [c \in Calls |-> FALSE]
    /\ gateClosed = FALSE

-----------------------------------------------------------------------------
(* The breaker's methods, each under b.mu.                                 *)

\* Allow's three refusals and two admissions, read in the switch's order.
AllowClosed      == Closed
AllowProbe(t)    == ~Closed /\ t >= openTill /\ ~probing
Refuses(t)       == ~Closed /\ (t < openTill \/ probing)

\* Mutant of Succeeded: the answered probe is not released.
SucceededStillProbing ==
    /\ failures' = 0
    /\ openTill' = Zero
    /\ UNCHANGED probing

Succeeded ==
    /\ failures' = 0
    /\ openTill' = Zero
    /\ probing' = FALSE

\* Mutant of ProbeFailed: the breaker re-opens with the probe still claimed.
ProbeFailedStillProbing(t) ==
    /\ probing
    /\ openTill' = t + Cooldown
    /\ failures' = 0
    /\ UNCHANGED probing

ProbeFailed(t) ==
    /\ probing
    /\ probing' = FALSE
    /\ openTill' = t + Cooldown
    /\ failures' = 0

\* Mutant of CallFailed: opens for no time at all.
CallFailedNoCooldown(t) ==
    /\ ~probing
    /\ failures' = IF failures + 1 >= Threshold THEN 0 ELSE failures + 1
    /\ openTill' = IF failures + 1 >= Threshold THEN t ELSE openTill
    /\ UNCHANGED probing

CallFailed(t) ==
    /\ ~probing
    /\ failures' = IF failures + 1 >= Threshold THEN 0 ELSE failures + 1
    /\ openTill' = IF failures + 1 >= Threshold THEN t + Cooldown ELSE openTill
    /\ UNCHANGED probing

\* Mutant of Abandoned: leaving is not a verdict, so nothing is released.
AbandonedForgotten == UNCHANGED breaker

Abandoned ==
    /\ probing' = FALSE
    /\ UNCHANGED <<failures, openTill>>

-----------------------------------------------------------------------------
(* The guarded call.                                                       *)

\* Take and wait read the clock, then call Allow with the reading.
Arrive(c) ==
    /\ pc[c] = "idle"
    /\ ~gateClosed
    /\ pc' = [pc EXCEPT ![c] = "arrived"]
    /\ readAt' = [readAt EXCEPT ![c] = now]
    /\ UNCHANGED <<now, breaker, failedAt, isProbe, gateClosed>>

\* The call returns: its locals are gone, only the breaker remembers it.
Finish(c) ==
    /\ pc' = [pc EXCEPT ![c] = "idle"]
    /\ readAt' = [readAt EXCEPT ![c] = 0]
    /\ failedAt' = [failedAt EXCEPT ![c] = 0]
    /\ isProbe' = [isProbe EXCEPT ![c] = FALSE]
    /\ UNCHANGED <<now, gateClosed>>

\* Short-circuited: onUnavailable answers, no verdict is owed.
Refuse(c) ==
    /\ pc[c] = "arrived"
    /\ Refuses(readAt[c])
    /\ UNCHANGED breaker
    /\ Finish(c)

AdmitClosed(c) ==
    /\ pc[c] = "arrived"
    /\ AllowClosed
    /\ pc' = [pc EXCEPT ![c] = "calling"]
    /\ UNCHANGED <<now, breaker, readAt, failedAt, isProbe, gateClosed>>

AdmitProbe(c) ==
    /\ pc[c] = "arrived"
    /\ AllowProbe(readAt[c])
    /\ probing' = TRUE
    /\ isProbe' = [isProbe EXCEPT ![c] = TRUE]
    /\ pc' = [pc EXCEPT ![c] = "calling"]
    /\ UNCHANGED <<now, failures, openTill, readAt, failedAt, gateClosed>>

BackendAnswers(c) ==
    /\ pc[c] = "calling"
    /\ Succeeded
    /\ Finish(c)

\* The caller's own context ended: no verdict, the probe is released.
CallerLeaves(c) ==
    /\ pc[c] = "calling"
    /\ ~gateClosed
    /\ Abandoned
    /\ Finish(c)

\* The owner shut down during the call.  Take abandons the probe; wait
\* returns Closed without a verdict (gate/admit.go:180).
OwnerLeaves(c) ==
    /\ pc[c] = "calling"
    /\ gateClosed
    /\ IF Parking THEN UNCHANGED breaker ELSE Abandoned
    /\ Finish(c)

\* The backend failed and nobody left: the clock is read for Failed.
BackendFails(c) ==
    /\ pc[c] = "calling"
    /\ ~gateClosed
    /\ pc' = [pc EXCEPT ![c] = "failing"]
    /\ failedAt' = [failedAt EXCEPT ![c] = now]
    /\ UNCHANGED <<now, breaker, readAt, isProbe, gateClosed>>

RecordFailure(c) ==
    /\ pc[c] = "failing"
    /\ ProbeFailed(failedAt[c]) \/ CallFailed(failedAt[c])
    /\ Finish(c)

-----------------------------------------------------------------------------
(* The environment.                                                        *)

\* Time passes.  Take's context.WithTimeout bounds a call, so no call is
\* older than MaxCall; nothing bounds a call parked in a Waiter.
Tick ==
    /\ now < MaxTime
    /\ \A c \in Calls : ~Parking /\ pc[c] # "idle" => now < readAt[c] + MaxCall
    /\ now' = now + 1
    /\ UNCHANGED <<breaker, call, gateClosed>>

CloseGate ==
    /\ ~gateClosed
    /\ gateClosed' = TRUE
    /\ UNCHANGED <<now, breaker, call>>

Verdict(c) ==
    \/ BackendAnswers(c)
    \/ CallerLeaves(c)
    \/ OwnerLeaves(c)
    \/ BackendFails(c)
    \/ RecordFailure(c)

Step(c) ==
    \/ Arrive(c)
    \/ Refuse(c)
    \/ AdmitClosed(c)
    \/ AdmitProbe(c)
    \/ Verdict(c)

Next ==
    \/ \E c \in Calls : Step(c)
    \/ Tick
    \/ CloseGate

Spec == Init /\ [][Next]_vars

(***************************************************************************)
(* Take's timeout ends every call, so a call that runs takes its verdict.  *)
(***************************************************************************)
FairSpec == Spec /\ \A c \in Calls : WF_vars(Verdict(c))
-----------------------------------------------------------------------------
(* Properties.                                                             *)

\* "Half-open: exactly one probe through" (breaker.go:35): two calls are
\* never in flight as the half-open probe at once.
OneProbe ==
    \A c, d \in Calls : isProbe[c] /\ isProbe[d] => c = d

\* "... and every other caller refused until that probe reports back"
\* (breaker.go:36): while the probe is out it is the only call the dependency
\* sees, those admitted before the breaker opened included.
ProbeIsAlone ==
    \A c, d \in Calls : isProbe[c] /\ InFlight(d) => c = d

\* "every path out of a guarded call must call one of them" (breaker.go:48):
\* the probing flag is up only while the call that claimed the probe is still
\* out, so nobody is refused on behalf of a call that has already returned.
ProbeIsOwed ==
    probing => \E c \in Calls : isProbe[c]

\* "or the half-open state would never resolve" (breaker.go:104): a claimed
\* probe is always resolved in the end.
ProbeResolves == probing ~> ~probing

-----------------------------------------------------------------------------
(* The inductive invariant behind OneProbe, ProbeIsAlone and ProbeIsOwed   *)
(* when calls are bounded (~Parking) and 2 * MaxCall < Cooldown.           *)

\* Take's timeout: nobody has been gone longer than MaxCall.
CallsAreYoung ==
    \A c \in Calls : pc[c] # "idle" =>
        /\ readAt[c] <= now
        /\ now <= readAt[c] + MaxCall

FailuresAreRecent ==
    \A c \in Calls : pc[c] = "failing" =>
        /\ readAt[c] <= failedAt[c]
        /\ failedAt[c] <= now

\* A call that was admitted while the breaker was closed arrived before the
\* breaker opened, give or take one call's length.
OldCallsPredateOpening ==
    ~Closed => \A c \in Calls : InFlight(c) /\ ~isProbe[c] =>
        readAt[c] + Cooldown <= openTill + MaxCall

ProbesAreHalfOpen ==
    \A c \in Calls : isProbe[c] =>
        /\ InFlight(c)
        /\ probing
        /\ ~Closed
        /\ openTill <= readAt[c]

BreakerInv ==
    /\ TypeOK
    /\ CallsAreYoung
    /\ FailuresAreRecent
    /\ OldCallsPredateOpening
    /\ ProbesAreHalfOpen
    /\ OneProbe
    /\ ProbeIsOwed
=============================================================================
