--------------------------------- MODULE Gate ---------------------------------
(***************************************************************************)
(* The shared-quota decision (gate/gate.go, gate/admit.go) for one key:    *)
(* every replica has a shadow bucket that may only refuse, and asks one    *)
(* backend for what the shadow admits.  Allow asks once, Acquire polls,    *)
(* and a backend that is a shared.Waiter parks the caller instead; Reserve *)
(* (limiter/reserve.go) asks once and leaves it to its caller when to act. *)
(*                                                                         *)
(* The backend is external: an atomic token bucket with the key's quota,   *)
(* on its own clock, as shared.Backend demands.  The circuit breaker only  *)
(* decides whether a call is made at all: here it may short-circuit any    *)
(* call when the backend fails at all; Breaker.tla has its protocol.       *)
(* Between two mutexes a goroutine may stop for as long as it likes.  The  *)
(* owner's shutdown, which ends every call, is not part of this module.    *)
(***************************************************************************)
EXTENDS ShadowBucket, FiniteSets

CONSTANTS
    Replicas,       \* processes sharing the quota
    Callers,        \* goroutines making requests
    Home,           \* the replica of each
    Modes,          \* the requests they make, of "allow", "acquire", "reserve"
    Configs,        \* policy and backend, as one Limiter may be given them
    Timeout,        \* ticks a Take may last
    MinPoll,        \* minPollDelay
    MaxPoll,        \* maxPollDelay
    MaxRequests,    \* bound on the requests made
    MaxTime         \* bound on the clock

ASSUME GateAssumption ==
    /\ IsFiniteSet(Callers)
    /\ Home \in [Callers -> Replicas]
    /\ Modes \subseteq {"allow", "acquire", "reserve"}
    /\ Configs \subseteq [policy : {"fallback", "deny", "allow"},
                          fails : BOOLEAN, parks : BOOLEAN]
    /\ Timeout \in Nat
    /\ MinPoll \in Nat \ {0}
    /\ MaxPoll \in Nat
    /\ MinPoll <= MaxPoll
    /\ {MaxRequests, MaxTime} \subseteq Nat

VARIABLES
    now,        \* the clock, the backend's too
    config,     \* Spec.OnError, whether the backend fails, whether it is a Waiter
    shadow,     \* each replica's bucket for the key
    backend,    \* the shared bucket
    req,        \* the locals of each request
    requests,   \* how many were made
    left,       \* the requests whose ctx is done
    admitted,   \* history: requests admitted, by the whole fleet
    unbacked,   \* history: those among them no backend answer admitted, per replica
    excess      \* history: what older readings of the clock gave a shadow twice

tallies == <<admitted, unbacked, excess>>
vars    == <<now, config, shadow, backend, req, requests, left, tallies>>

-----------------------------------------------------------------------------

Idle == [pc |-> "idle", mode |-> "none", at |-> 0, act |-> 0, till |-> 0,
         answer |-> "none", retry |-> 0, then |-> "none"]

Stages == {"idle", "arrived", "sleeping", "take", "calling", "undo", "polling",
           "asking", "held", "parked", "unavailable", "local"}

\* The stages at which a request holds a token of its shadow.
Holding(c) == req[c].pc \in {"sleeping", "take", "calling", "undo", "held"}

Requests == [pc : Stages, mode : Modes \cup {"none"}, at : 0..MaxTime, act : Nat, till : Nat,
             answer : {"none", "granted", "refused"}, retry : Nat,
             then : {"none", "return", "poll"}]

TypeOK ==
    /\ now \in 0..MaxTime
    /\ config \in Configs
    /\ shadow \in [Replicas -> Reservable]
    /\ \A r \in Replicas : shadow[r].tokens <= Burst /\ shadow[r].last <= now
    /\ backend \in [tokens : 0..Burst, last : 0..now]
    /\ req \in [Callers -> Requests]
    /\ \A c \in Callers :
          /\ req[c].at <= now
          /\ Holding(c) \/ req[c].pc = "local" => req[c].at <= req[c].act
          /\ req[c].then = "poll" => req[c].retry > 0
    /\ requests \in 0..MaxRequests
    /\ left \subseteq Callers
    /\ admitted \in Nat
    /\ unbacked \in [Replicas -> 0..admitted]
    /\ excess \in [Replicas -> Nat]

Init ==
    /\ now = 0
    /\ config \in Configs
    /\ shadow = [r \in Replicas |-> FullShadow]
    /\ backend = NewBucket
    /\ req = [c \in Callers |-> Idle]
    /\ requests = 0
    /\ left = {}
    /\ admitted = 0
    /\ unbacked = [r \in Replicas |-> 0]
    /\ excess = [r \in Replicas |-> 0]

-----------------------------------------------------------------------------

Goes(c, stage) == req' = [req EXCEPT ![c].pc = stage]

\* The request returns; whoever waits on it learns no more from here.
Returns(c) == req' = [req EXCEPT ![c] = Idle] /\ left' = left \ {c}

Refuses(c) ==
    /\ Returns(c)
    /\ UNCHANGED <<now, config, requests, shadow, backend, tallies>>

Admits(c, backed) ==
    /\ Returns(c)
    /\ admitted' = admitted + 1
    /\ unbacked' = IF backed THEN unbacked ELSE [unbacked EXCEPT ![Home[c]] = @ + 1]
    /\ UNCHANGED <<now, config, requests, excess>>

\* Reserve returns; its caller may act from the instant till on.
Holds(c, till, backed) ==
    /\ req' = [req EXCEPT ![c].pc = "held", ![c].till = till, ![c].retry = 0,
                          ![c].answer = IF backed THEN "granted" ELSE "none"]
    /\ left' = left \ {c}
    /\ UNCHANGED <<now, config, requests, tallies>>

\* The request may go ahead.
Passes(c, backed) ==
    IF req[c].mode = "reserve" THEN Holds(c, now, backed) ELSE Admits(c, backed)

\* CancelAt comes next, at the instant the token was reserved, and after it
\* the return or another round.
Undoes(c, then, retry) ==
    /\ req' = [req EXCEPT ![c].pc = "undo", ![c].then = then, ![c].retry = retry,
                          ![c].answer = "none", ![c].till = 0]
    /\ UNCHANGED <<now, config, requests, shadow, backend, left, tallies>>

\* Mutant: a missing answer is taken for a grant under every policy.
ProceedsAlways == TRUE

\* onUnavailable: only Deny turns a missing answer into a refusal.
Proceeds == config.policy # "deny"

Unavailable(c) ==
    IF Proceeds THEN Passes(c, FALSE) /\ UNCHANGED <<shadow, backend>>
                ELSE Undoes(c, "return", 0)

\* FallbackDelay: a token's period, within bounds, where the rate has one.
FallbackDelay == IF Refills THEN AtMost(MaxPoll, AtLeast(MinPoll, Cost)) ELSE MinPoll

\* Mutant: a backend that says nothing is polled at once.
RetryDelaySpin(said) == said

\* RetryDelay: what the backend said, if it said anything.
RetryDelay(said) == IF said > 0 THEN said ELSE FallbackDelay

\* pollDelay: jitter, upward only.
PollDelays(d) == d..(d + d \div 2)
-----------------------------------------------------------------------------
(* Allow, and the rounds of Acquire.                                       *)

\* The clock is read before the shadow is asked.
Arrive(c, mode) ==
    /\ req[c].pc = "idle"
    /\ requests < MaxRequests
    /\ requests' = requests + 1
    /\ req' = [req EXCEPT ![c] = [Idle EXCEPT !.mode = mode, !.at = now,
                  !.pc = IF mode = "acquire" /\ config.parks THEN "asking" ELSE "arrived"]]
    /\ UNCHANGED <<now, config, shadow, backend, left, tallies>>

\* The shadow: a token now, or the refusal of Allow, the sleep of Acquire, or
\* Reserve's reservation of a later one, for which the backend is not asked.
Reserve(c) ==
    LET b   == shadow[Home[c]]
        act == TimeToAct(b, req[c].at)
    IN
    /\ req[c].pc = "arrived"
    /\ shadow' = [shadow EXCEPT ![Home[c]] = ReserveAt(b, req[c].at)]
    /\ excess' = [excess EXCEPT ![Home[c]] = @ + AtLeast(0, b.last - req[c].at)]
    /\ UNCHANGED <<now, config, requests, backend, admitted, unbacked>>
    /\ \/ /\ act = req[c].at
          /\ req' = [req EXCEPT ![c].pc = "take", ![c].act = act]
          /\ UNCHANGED left
       \/ /\ act > req[c].at
          /\ req[c].mode = "acquire"
          /\ req' = [req EXCEPT ![c].pc = "sleeping", ![c].act = act,
                                ![c].till = now + (act - req[c].at)]
          /\ UNCHANGED left
       \/ /\ act > req[c].at
          /\ req[c].mode = "allow"
          /\ req' = [req EXCEPT ![c].pc = "undo", ![c].act = act, ![c].then = "return"]
          /\ UNCHANGED left
       \/ /\ act > req[c].at
          /\ req[c].mode = "reserve"
          /\ req' = [req EXCEPT ![c].pc = "held", ![c].act = act,
                                ![c].till = now + (act - req[c].at)]
          /\ left' = left \ {c}

Wake(c) ==
    /\ req[c].pc = "sleeping"
    /\ now >= req[c].till
    /\ Goes(c, "take")
    /\ UNCHANGED <<now, config, requests, shadow, backend, left, tallies>>

SleepCut(c) ==
    /\ req[c].pc = "sleeping"
    /\ c \in left
    /\ Undoes(c, "return", 0)

ShortCircuit(c) ==
    /\ req[c].pc = "take"
    /\ config.fails
    /\ Unavailable(c)

Call(c) ==
    /\ req[c].pc = "take"
    /\ req' = [req EXCEPT ![c].pc = "calling", ![c].answer = "none", ![c].till = now + Timeout]
    /\ UNCHANGED <<now, config, requests, shadow, backend, left, tallies>>

\* The backend's side: one token, or none and perhaps a schedule.
BackendTakes(c) ==
    LET held == TokensAt(backend, now) IN
    /\ req[c].pc = "calling"
    /\ req[c].answer = "none"
    /\ IF held >= Cost
       THEN /\ backend' = [tokens |-> held - Cost, last |-> now]
            /\ req' = [req EXCEPT ![c].answer = "granted"]
       ELSE /\ \E said \in {0, Cost - held} :
                  req' = [req EXCEPT ![c].answer = "refused", ![c].retry = said]
            /\ UNCHANGED backend
    /\ UNCHANGED <<now, config, requests, shadow, left, tallies>>

Granted(c) ==
    /\ req[c].pc = "calling"
    /\ req[c].answer = "granted"
    /\ Passes(c, TRUE)
    /\ UNCHANGED <<shadow, backend>>

Refused(c) ==
    /\ req[c].pc = "calling"
    /\ req[c].answer = "refused"
    /\ Undoes(c, IF req[c].mode = "acquire" THEN "poll" ELSE "return", RetryDelay(req[c].retry))

\* An error, with the caller gone: whatever the backend did, no verdict.
CallerGone(c) ==
    /\ req[c].pc = "calling"
    /\ c \in left
    /\ Undoes(c, "return", 0)

\* An error, or the timeout, with the caller waiting: the policy decides.  A
\* lost answer may have cost the backend its token.
CallFails(c) ==
    /\ req[c].pc = "calling"
    /\ c \notin left
    /\ config.fails
    /\ Unavailable(c)

\* What a cancel at t gives back of a clock it moves back, and beyond the token
\* where older draws have moved the latest event back.
Overpays(c, t) ==
    LET b == shadow[Home[c]] IN
    excess' = [excess EXCEPT ![Home[c]] = @ +
        IF CancelAt(b, req[c].act, t) = b THEN 0
        ELSE AtLeast(0, b.last - t) + AtLeast(0, req[c].act - b.event)]

\* Mutant: the refund is asked for at the current instant.
CancelledNow(c) == CancelAt(shadow[Home[c]], req[c].act, now)

\* CancelAt, at the instant the token was reserved; see admit.go:53.
Cancelled(c) == CancelAt(shadow[Home[c]], req[c].act, req[c].at)

Undo(c) ==
    /\ req[c].pc = "undo"
    /\ shadow' = [shadow EXCEPT ![Home[c]] = Cancelled(c)]
    /\ Overpays(c, req[c].at)
    /\ IF req[c].then = "return"
       THEN Returns(c)
       ELSE /\ \E d \in PollDelays(req[c].retry) :
                  req' = [req EXCEPT ![c] = [Idle EXCEPT !.pc = "polling", !.mode = "acquire",
                                                         !.till = now + d]]
            /\ UNCHANGED left
    /\ UNCHANGED <<now, config, requests, backend, admitted, unbacked>>

\* Another round, with a new reading of the clock.
PollAgain(c) ==
    /\ req[c].pc = "polling"
    /\ now >= req[c].till
    /\ req' = [req EXCEPT ![c] = [Idle EXCEPT !.pc = "arrived", !.mode = "acquire", !.at = now]]
    /\ UNCHANGED <<now, config, requests, shadow, backend, left, tallies>>

\* Mutant: a poll sleeps through its context's end.
PollCutLate(c) ==
    /\ req[c].pc = "polling"
    /\ now >= req[c].till
    /\ c \in left
    /\ Refuses(c)

PollCut(c) ==
    /\ req[c].pc = "polling"
    /\ c \in left
    /\ Refuses(c)
-----------------------------------------------------------------------------
(* The caller of Reserve, with its Reservation.                            *)

\* "time.Sleep(r.Delay()); ... now make the call".
Act(c) ==
    /\ req[c].pc = "held"
    /\ now >= req[c].till
    /\ Admits(c, req[c].answer = "granted")
    /\ UNCHANGED <<shadow, backend>>

\* Reservation.Cancel, at the instant it is called.
CancelHeld(c) ==
    /\ req[c].pc = "held"
    /\ shadow' = [shadow EXCEPT ![Home[c]] = CancelAt(@, req[c].act, now)]
    /\ Overpays(c, now)
    /\ Returns(c)
    /\ UNCHANGED <<now, config, requests, backend, admitted, unbacked>>
-----------------------------------------------------------------------------
(* Acquire on a shared.Waiter: wait and waitFallback.                      *)

\* The breaker decides whether the backend is asked.
Park(c) ==
    /\ req[c].pc = "asking"
    /\ Goes(c, "parked")
    /\ UNCHANGED <<now, config, requests, shadow, backend, left, tallies>>

WaitShortCircuit(c) ==
    /\ req[c].pc = "asking"
    /\ config.fails
    /\ Goes(c, "unavailable")
    /\ UNCHANGED <<now, config, requests, shadow, backend, left, tallies>>

\* The backend has taken the token when Wait returns nil.
Served(c) ==
    LET held == TokensAt(backend, now) IN
    /\ req[c].pc = "parked"
    /\ held >= Cost
    /\ backend' = [tokens |-> held - Cost, last |-> now]
    /\ Admits(c, TRUE)
    /\ UNCHANGED shadow

ParkedGone(c) ==
    /\ req[c].pc = "parked"
    /\ c \in left
    /\ Refuses(c)

WaitFails(c) ==
    /\ req[c].pc = "parked"
    /\ c \notin left
    /\ config.fails
    /\ Goes(c, "unavailable")
    /\ UNCHANGED <<now, config, requests, shadow, backend, left, tallies>>

\* FallbackLocal waits on this replica's own bucket: not for a context that is
\* done or would be before the token is due, and not at all for a token now.
WaitLocally(c) ==
    LET b   == shadow[Home[c]]
        act == TimeToAct(b, now)
    IN
    \/ /\ c \in left \/ act > now
       /\ Refuses(c)
    \/ /\ c \notin left
       /\ shadow' = [shadow EXCEPT ![Home[c]] = ReserveAt(b, now)]
       /\ UNCHANGED backend
       /\ \/ act = now /\ Admits(c, FALSE)
          \/ /\ act > now
             /\ req' = [req EXCEPT ![c].pc = "local", ![c].at = now, ![c].act = act]
             /\ UNCHANGED <<now, config, requests, left, tallies>>

\* Mutant: FallbackLocal admits without limit.
WaitFallbackFree(c) ==
    /\ req[c].pc = "unavailable"
    /\ IF config.policy = "deny" THEN Refuses(c)
       ELSE Admits(c, FALSE) /\ UNCHANGED <<shadow, backend>>

WaitFallback(c) ==
    /\ req[c].pc = "unavailable"
    /\ CASE config.policy = "deny"  -> Refuses(c)
         [] config.policy = "allow" -> Admits(c, FALSE) /\ UNCHANGED <<shadow, backend>>
         [] OTHER                   -> WaitLocally(c)

LocalWake(c) ==
    /\ req[c].pc = "local"
    /\ now >= req[c].act
    /\ Admits(c, FALSE)
    /\ UNCHANGED <<shadow, backend>>

\* rate.Limiter.Wait cancels at the instant it is told to.
LocalGone(c) ==
    /\ req[c].pc = "local"
    /\ c \in left
    /\ shadow' = [shadow EXCEPT ![Home[c]] = CancelAt(@, req[c].act, now)]
    /\ Overpays(c, now)
    /\ Returns(c)
    /\ UNCHANGED <<now, config, requests, backend, admitted, unbacked>>
-----------------------------------------------------------------------------
(* The callers' contexts, and time.                                        *)

Leave(c) ==
    /\ req[c].pc \notin {"idle", "held"}
    /\ c \notin left
    /\ left' = left \cup {c}
    /\ UNCHANGED <<now, config, requests, shadow, backend, req, tallies>>

\* A call without an answer ends with its timeout.
Tick ==
    /\ now < MaxTime
    /\ \A c \in Callers : req[c].pc = "calling" => now < req[c].till
    /\ now' = now + 1
    /\ UNCHANGED <<config, requests, shadow, backend, req, left, tallies>>

\* What the gate itself does for a request.
Step(c) ==
    \/ Reserve(c)
    \/ Wake(c)
    \/ SleepCut(c)
    \/ ShortCircuit(c)
    \/ Call(c)
    \/ Granted(c)
    \/ Refused(c)
    \/ CallerGone(c)
    \/ CallFails(c)
    \/ Undo(c)
    \/ PollAgain(c)
    \/ PollCut(c)
    \/ Park(c)
    \/ WaitShortCircuit(c)
    \/ ParkedGone(c)
    \/ WaitFails(c)
    \/ WaitFallback(c)
    \/ LocalWake(c)
    \/ LocalGone(c)

Next ==
    \/ \E c \in Callers :
          \/ \E mode \in Modes : Arrive(c, mode)
          \/ Step(c)
          \/ BackendTakes(c)
          \/ Served(c)
          \/ Act(c)
          \/ CancelHeld(c)
          \/ Leave(c)
    \/ Tick

Spec == Init /\ [][Next]_vars

(***************************************************************************)
(* A goroutine that can go on does.  The backend need not answer, nobody   *)
(* has to leave, and the clock may stop at its bound.                      *)
(***************************************************************************)
FairSpec == Spec /\ \A c \in Callers : WF_vars(Step(c))
-----------------------------------------------------------------------------
(* Properties.                                                             *)

Outstanding(r) == Cardinality({c \in Callers : Home[c] = r /\ Holding(c)})

\* "the shadow always holds at least as many tokens as the shared bucket does"
\* (admit.go:24), counting the tokens it has out on requests the backend has
\* not decided; with no fallback admissions in the history.
ShadowIsUpperBound ==
    config.policy = "deny" =>
        \A r \in Replicas :
            TokensAt(shadow[r], now) + Cost * Outstanding(r) >= TokensAt(backend, now)

\* "A shadow that refuses therefore proves the backend would have refused too"
\* (admit.go:26), where no other request of the replica is undecided and the
\* clock was read at that very instant.
ShadowRefusalIsProof ==
    [][\A c \in Callers :
         (/\ req[c].pc = "arrived" /\ req'[c].pc = "undo"
          /\ req[c].at = now
          /\ Outstanding(Home[c]) = 0) => TokensAt(backend, now) < Cost]_vars

\* "The shadow only refuses.  It never admits a request the backend has not
\* admitted" (docs/adr/0004:46), at least where no outage excuses it.
ShadowOnlyRefuses ==
    config.policy = "deny" => \A r \in Replicas : unbacked[r] = 0

\* Deny is for when "exceeding the shared limit is worse than dropping traffic"
\* (shared.go:163): whatever fails, times out or is cancelled, the fleet never
\* gets more than one quota's worth.
DenyKeepsFleetQuota ==
    config.policy = "deny" => Cost * admitted <= Burst + now

\* FallbackLocal "enforces the configured rate per replica rather than in
\* total" (shared.go:156), polling and waiting alike (admit.go:143), however many
\* requests of a replica overlap.  What goes beyond is what the shadow was given
\* twice by draws and cancels at older readings of the clock (admit.go:53).
FallbackKeepsReplicaRate ==
    config.policy = "fallback" =>
        \A r \in Replicas : Cost * unbacked[r] <= Burst + now + excess[r]

\* "Acquire blocks until the backend admits the request, the caller's context is
\* done, or the failure policy decides" (admit.go:65): a caller that has left is
\* let go wherever it was waiting.
LeaversReturn ==
    \A c \in Callers : c \in left ~> c \notin left
-----------------------------------------------------------------------------
(* The strengthening the proofs need (GateProofs.tla).                     *)

\* Where a request stands, and what it has in hand there.
RequestAgrees(c) ==
    /\ req[c].pc = "held" => req[c].mode = "reserve"
    /\ req[c].pc = "polling" \/ req[c].then = "poll" => req[c].mode = "acquire"
    /\ req[c].then = "poll" => req[c].pc = "undo"
    /\ req[c].pc = "undo" => req[c].then # "none"
    /\ req[c].pc = "local" => config.policy = "fallback"
    /\ req[c].answer = "granted" => req[c].pc \in {"calling", "held"}
    /\ req[c].pc \in {"sleeping", "held"} => req[c].act <= req[c].till
    /\ req[c].pc \in {"take", "calling"} => req[c].act <= now

RequestsAgree == \A c \in Callers : RequestAgrees(c)

\* Under Deny, where nobody reserves: what was admitted, and what the backend
\* has granted and nobody has used yet, has left the shared bucket.
Promised == {c \in Callers : req[c].answer = "granted"}

DenyAccounts ==
    config.policy = "deny" /\ "reserve" \notin Modes =>
        Cost * (admitted + Cardinality(Promised)) + TokensAt(backend, now) <= Burst + now

\* One request at a time in each replica.
OneEach == \A c, d \in Callers : Home[c] = Home[d] => c = d

\* Under Deny, with one request at a time in each replica: each shadow holds
\* what the backend holds, but for the token of an undecided request; and that
\* request was the last to touch the shadow.
ShadowCovers ==
    config.policy = "deny" /\ "reserve" \notin Modes /\ OneEach =>
        /\ \A r \in Replicas :
              TokensAt(shadow[r], now) >= TokensAt(backend, now)
              \/ \E c \in Callers :
                    /\ Home[c] = r /\ Holding(c) /\ req[c].answer # "granted"
                    /\ TokensAt(shadow[r], now) + Cost >= TokensAt(backend, now)
        /\ \A c \in Callers :
              /\ req[c].pc = "arrived" => shadow[Home[c]].last <= req[c].at
              /\ Holding(c) => /\ shadow[Home[c]].last = req[c].at
                               /\ shadow[Home[c]].event = req[c].act

\* The requests of a replica that have a token of its shadow in hand.
Drawn(r) == {c \in Callers : Home[c] = r /\ (Holding(c) \/ req[c].pc = "local")}

\* Those of them that may use it by e.
DrawnBy(r, e) == {c \in Drawn(r) : req[c].act <= e}

\* The instant at which what the shadow holds is nothing.
Horizon(r) == shadow[r].last - shadow[r].tokens

\* What was admitted on a shadow's word, and what may yet be, was drawn from the
\* shadow, and is due no faster than the shadow fills.
ReplicaAccounts(r) ==
    /\ Cost * (unbacked[r] + Cardinality(Drawn(r))) <= Burst + Horizon(r) + excess[r]
    /\ \A e \in now..MaxTime :
          Cost * (unbacked[r] + Cardinality(DrawnBy(r, e))) <= Burst + e + excess[r]

FallbackAccounts ==
    config.policy = "fallback" => \A r \in Replicas : ReplicaAccounts(r)

GateInv == TypeOK /\ RequestsAgree /\ DenyAccounts /\ ShadowCovers /\ FallbackAccounts
=============================================================================
