-------------------------------- MODULE Requests --------------------------------
(***************************************************************************)
(* What a caller goes through for one token, at each of the five doors:    *)
(* Allow, Wait and Reserve (limiter/ratelimit.go, limiter/reserve.go), and *)
(* the HTTP request over them, buffered or streamed (client/request.go,    *)
(* client/stream.go), with what Stats and the observer are told            *)
(* (limiter/observer.go, limiter/errors.go, limiter/stats.go).             *)
(*                                                                         *)
(* One key, already in memory, on its own bucket: a token accrues per      *)
(* tick.  A caller makes one call.  Looking the key up may block, on a     *)
(* store or a lock, after the clock has been read.  A request goes through *)
(* its steps while others, the transport, its own context, the clock and a *)
(* closing limiter go through theirs.                                      *)
(***************************************************************************)
EXTENDS ShadowBucket, Wire, FiniteSets

CONSTANTS
    Callers,
    Doors,              \* those each caller may come by, of the five
    Base, Paths,        \* Config.BaseURL, and the paths requests name
    Sizes,              \* of the bodies that come back
    Start,              \* the tokens a store gave the key back
    Deadlines,          \* of the contexts of callers who wait; Never is none
    RequestTimeout,     \* 0 is none
    Lag,                \* ticks from reading the clock to drawing, at most
    MaxTime

ASSUME RequestsAssumption ==
    /\ IsFiniteSet(Callers)
    /\ Cost = 1
    /\ Base \in Seq(STRING) /\ Paths \subseteq Seq(STRING)
    /\ Doors \in [Callers -> SUBSET {"allow", "wait", "reserve", "do", "stream"}]
    /\ {RequestTimeout, Lag, MaxTime} \subseteq Nat
    /\ Deadlines \subseteq 0..MaxTime + 1
    /\ Start \in 0..Burst
    /\ Sizes \subseteq Nat
    /\ Parses(Base)

Never == MaxTime + 1
Undue == -1

VARIABLES
    now,
    b,              \* the key's bucket
    call,           \* the locals of each call
    shuttingDown,   \* Limiter.shuttingDown
    cancelled,      \* the Limiter's own context has ended
    active,         \* activeWg
    stats,          \* requests, throttled and errors
    short,          \* history: those the bucket had no token for when they asked
    result,         \* what each call came to
    at,             \* history: when each admission is due
    charged,        \* history: the tokens drawn and not given back: whose, due when
    rewound,        \* history: how far draws have moved the bucket's clock back
    overpaid        \* history: what cancels gave back beyond the token

lifetime == <<shuttingDown, cancelled>>
counts   == <<stats, short>>
history  == <<at, charged, rewound, overpaid>>
vars     == <<now, b, call, lifetime, active, counts, result, history>>

NoCall == [pc |-> "idle", door |-> "none", deadline |-> Never, gaveUp |-> FALSE,
           target |-> Base, read |-> 0, act |-> 0, until |-> Never]

Http    == {"do", "stream"}
Waiting == {"wait"} \cup Http

\* Past enter, and not past leave.
Inside(c) == call[c].pc \in {"entered", "looking", "drawing", "parked", "sent", "open"}

\* The caller's own context.
OwnDone(c) == call[c].gaveUp \/ now >= call[c].deadline

\* Mutant of MayBeDone: the Limiter's lifetime is not merged in.
CallersAlone(c) == OwnDone(c)

\* The context withLifetime makes: the Limiter's end reaches it through a
\* goroutine, so that it may still be live for a moment.
MayBeDone(c) == OwnDone(c) \/ cancelled

Targets == {Base} \cup {Joined(Base, path) : path \in Paths}

Calls == [pc     : {"idle", "entered", "looking", "drawing", "parked", "sent", "open",
                    "holding", "returned"},
          door   : {"none", "allow", "wait", "reserve", "do", "stream"},
          deadline : 0..Never, gaveUp : BOOLEAN, target : Targets,
          read   : 0..MaxTime, act : Nat, until : Nat]

Outcomes == {"none", "ok", "rejected", "unbuilt", "refused", "closed", "limit",
             "cancelled", "error", "aborted", "oversized"}

TypeOK ==
    /\ now \in 0..MaxTime
    /\ b \in Reservable /\ b.tokens <= Burst /\ b.last <= now
    /\ call \in [Callers -> Calls]
    /\ \A c \in Callers :
          /\ call[c].pc = "parked" => call[c].deadline = Never \/ call[c].act <= call[c].deadline
          /\ call[c].read <= now
    /\ shuttingDown \in BOOLEAN /\ cancelled \in BOOLEAN /\ (cancelled => shuttingDown)
    /\ active \in Nat
    /\ stats \in [requests : Nat, throttled : Nat, errors : Nat]
    /\ \A n \in {"requests", "throttled", "errors"} : stats[n] <= Cardinality(Callers)
    /\ short \in SUBSET Callers
    /\ result \in [Callers -> Outcomes]
    /\ at \in [Callers -> Nat \cup {Undue}]
    /\ charged \in SUBSET (Callers \X Nat) /\ IsFiniteSet(charged)
    /\ rewound \in Nat /\ overpaid \in Nat

Init ==
    /\ now = 0
    /\ b = [FullShadow EXCEPT !.tokens = Start]
    /\ call = [c \in Callers |-> NoCall]
    /\ shuttingDown = FALSE /\ cancelled = FALSE
    /\ active = 0
    /\ stats = [requests |-> 0, throttled |-> 0, errors |-> 0]
    /\ short = {}
    /\ result = [c \in Callers |-> "none"]
    /\ at = [c \in Callers |-> Undue]
    /\ charged = {}
    /\ rewound = 0 /\ overpaid = 0

-----------------------------------------------------------------------------
(* In at the door.                                                         *)

Returns(c, how) ==
    /\ call' = [call EXCEPT ![c] = [NoCall EXCEPT !.pc = "returned", !.door = call[c].door]]
    /\ result' = [result EXCEPT ![c] = how]

\* The call returns with what it came to; leave is deferred.
Leaves(c, how) == Returns(c, how) /\ active' = active - 1

\* The attempt is counted and the clock read, before GetOrCreate.
Asks(c, x) ==
    /\ stats' = [stats EXCEPT !.requests = @ + 1] /\ UNCHANGED short
    /\ call' = [call EXCEPT ![c] = [x EXCEPT !.pc = "looking", !.read = now]]

\* enter, and withLifetime.
Enter(c) ==
    /\ call[c].pc = "idle"
    /\ IF shuttingDown
       THEN Returns(c, "rejected") /\ UNCHANGED <<active, counts>>
       ELSE /\ \E door \in Doors[c], d \in Deadlines :
                  LET x == [call[c] EXCEPT !.door = door,
                                           !.deadline = IF door \in Waiting THEN d ELSE Never]
                  IN
                  IF door \in Http
                  THEN call' = [call EXCEPT ![c] = [x EXCEPT !.pc = "entered"]] /\ UNCHANGED counts
                  ELSE Asks(c, x)
            /\ active' = active + 1
            /\ UNCHANGED result
    /\ UNCHANGED <<now, b, lifetime, history>>

\* build comes before the token.  Whether query values are merged in does not
\* change what fails to parse.
Build(c) ==
    /\ call[c].pc = "entered"
    /\ \E path \in Paths :
          LET target == Joined(Base, path) IN
          IF Parses(target)
          THEN Asks(c, [call[c] EXCEPT !.target = target]) /\ UNCHANGED <<active, result>>
          ELSE Leaves(c, "unbuilt") /\ UNCHANGED counts
    /\ UNCHANGED <<now, b, lifetime, history>>

-----------------------------------------------------------------------------
(* The token.                                                              *)

Rewinds(t) == rewound' = rewound + AtLeast(0, b.last - t)
Finds(c) == short' = IF TokensAt(b, call[c].read) < Cost THEN short \cup {c} ELSE short
Throttles(yes) == stats' = [stats EXCEPT !.throttled = IF yes THEN @ + 1 ELSE @]

\* c has a token, to be used at t, as c reads the clock.
Admits(c, t) ==
    /\ at' = [at EXCEPT ![c] = t]
    /\ charged' = charged \cup {<<c, t>>}

Allow(c) ==
    /\ call[c].pc = "looking" /\ call[c].door = "allow"
    /\ Finds(c)
    /\ IF Allows(b, call[c].read)
       THEN /\ b' = ReserveAt(b, call[c].read)
            /\ Admits(c, call[c].read) /\ Rewinds(call[c].read)
            /\ Leaves(c, "ok")
            /\ UNCHANGED <<stats, overpaid>>
       ELSE /\ Throttles(TRUE)
            /\ Leaves(c, "refused")
            /\ UNCHANGED <<b, history>>
    /\ UNCHANGED <<now, lifetime>>

Reserve(c) ==
    LET t == call[c].read IN
    /\ call[c].pc = "looking" /\ call[c].door = "reserve"
    /\ Finds(c)
    /\ b' = ReserveAt(b, t)
    /\ Admits(c, TimeToAct(b, t)) /\ Rewinds(t)
    /\ Throttles(TimeToAct(b, t) > t)
    /\ call' = [call EXCEPT ![c].pc = "holding", ![c].act = TimeToAct(b, t)]
    /\ active' = active - 1
    /\ UNCHANGED <<now, lifetime, result, overpaid>>

\* acquire looks before it waits, and reports a wait to come.
Look(c) ==
    /\ call[c].pc = "looking" /\ call[c].door \in Waiting
    /\ Finds(c)
    /\ Throttles(TokensAt(b, call[c].read) < 1)
    /\ call' = [call EXCEPT ![c].pc = "drawing"]
    /\ UNCHANGED <<now, b, lifetime, active, result, history>>

\* Mutant of Until: the timeout is attached when the request asks for a token.
UntilFromAsking(c) ==
    IF call[c].door = "do" /\ RequestTimeout > 0 THEN call[c].read + RequestTimeout ELSE Never

\* The timeout of a buffered request is attached once the token is paid for.
Until(c) == IF call[c].door = "do" /\ RequestTimeout > 0 THEN now + RequestTimeout ELSE Never

\* The token is c's, and is due.
Paid(c) ==
    IF call[c].door = "wait" THEN Leaves(c, "ok")
    ELSE /\ call' = [call EXCEPT ![c].pc = "sent", ![c].until = Until(c)]
         /\ UNCHANGED <<active, result>>

\* Mutant of Failure: the caller's context is asked.
FailureByContext(c) == IF OwnDone(c) THEN "limit" ELSE "closed"

\* throttled asks the Limiter's own context which of the two it is.
Failure(c) == IF cancelled THEN "closed" ELSE "limit"

\* Mutant of InTime: a deadline is not looked at.
AnyTime(c) == TRUE

\* A token that would be due after the caller's deadline is not waited for.
InTime(c) == call[c].deadline = Never \/ TimeToAct(b, now) <= call[c].deadline

\* rate.Limiter.Wait, on its own reading of the clock: a failure takes nothing.
Draw(c) ==
    /\ call[c].pc = "drawing"
    /\ \/ /\ MayBeDone(c) \/ ~InTime(c)
          /\ Leaves(c, Failure(c))
          /\ UNCHANGED <<b, history>>
       \/ /\ ~OwnDone(c) /\ InTime(c)
          /\ b' = ReserveAt(b, now)
          /\ Admits(c, TimeToAct(b, now))
          /\ IF TimeToAct(b, now) = now THEN Paid(c)
             ELSE /\ call' = [call EXCEPT ![c].pc = "parked", ![c].act = TimeToAct(b, now)]
                  /\ UNCHANGED <<active, result>>
          /\ UNCHANGED <<rewound, overpaid>>
    /\ UNCHANGED <<now, lifetime, counts>>

Wake(c) ==
    /\ call[c].pc = "parked" /\ now >= call[c].act
    /\ Paid(c)
    /\ UNCHANGED <<now, b, lifetime, counts, history>>

\* The token of a call behind which nobody has drawn goes back whole, if it is
\* not too late; one that did not go back stays in the way.
GoesBack(c) == now <= call[c].act /\ \A x \in charged : x[2] <= call[c].act

\* Draws on an older reading move the bucket's latest event back too, and what
\* was drawn after c is reckoned from that: more than the token may go back, or
\* one that others have drawn behind.
Overpays(c) ==
    overpaid' = overpaid +
        IF now <= call[c].act
        THEN AtLeast(0, (IF GoesBack(c) THEN 0 ELSE Cost) - (b.event - call[c].act))
        ELSE 0

\* Mutant of Withdraws: the token stays drawn.
Forfeits(c) ==
    /\ at' = [at EXCEPT ![c] = Undue]
    /\ charged' = IF GoesBack(c) THEN charged \ {<<c, call[c].act>>} ELSE charged
    /\ Overpays(c)
    /\ UNCHANGED <<b, rewound>>

Withdraws(c) ==
    /\ b' = CancelAt(b, call[c].act, now)
    /\ at' = [at EXCEPT ![c] = Undue]
    /\ charged' = IF GoesBack(c) THEN charged \ {<<c, call[c].act>>} ELSE charged
    /\ Overpays(c)
    /\ UNCHANGED rewound

\* The select in Wait takes either case when both are ready.
Cut(c) ==
    /\ call[c].pc = "parked" /\ MayBeDone(c)
    /\ Withdraws(c)
    /\ Leaves(c, Failure(c))
    /\ UNCHANGED <<now, lifetime, counts>>

\* A Reservation's holder decides.
Cancel(c) ==
    /\ call[c].pc = "holding"
    /\ Withdraws(c)
    /\ Returns(c, "cancelled")
    /\ UNCHANGED <<now, lifetime, active, counts>>

Use(c) ==
    /\ call[c].pc = "holding" /\ now >= call[c].act
    /\ Returns(c, "ok")
    /\ UNCHANGED <<now, b, lifetime, active, counts, history>>

-----------------------------------------------------------------------------
(* The round-trip.                                                         *)

\* FinishRequest.
Finishes(failed) ==
    /\ stats' = [stats EXCEPT !.errors = IF failed THEN @ + 1 ELSE @]
    /\ UNCHANGED short

\* Mutant of Fail: a stream that fails is not counted.
FailQuietly(c) ==
    /\ call[c].pc = "sent"
    /\ Finishes(call[c].door = "do")
    /\ Leaves(c, "error")
    /\ UNCHANGED <<now, b, lifetime, history>>

\* The connection, or the body that was being read, fails.
Fail(c) ==
    /\ call[c].pc = "sent"
    /\ Finishes(TRUE)
    /\ Leaves(c, "error")
    /\ UNCHANGED <<now, b, lifetime, history>>

\* http.Client.Do gives up on a request whose context is done.
Abort(c) ==
    /\ call[c].pc = "sent"
    /\ MayBeDone(c) \/ now >= call[c].until
    /\ Finishes(TRUE)
    /\ Leaves(c, "aborted")
    /\ UNCHANGED <<now, b, lifetime, history>>

\* do reads the body and returns ...
Respond(c) ==
    /\ call[c].pc = "sent" /\ call[c].door = "do"
    /\ \E size \in Sizes :
          /\ Finishes(TooLarge(size))
          /\ Leaves(c, IF TooLarge(size) THEN "oversized" ELSE "ok")
    /\ UNCHANGED <<now, b, lifetime, history>>

\* ... and Stream hands it over unread, with the registration.
HandOver(c) ==
    /\ call[c].pc = "sent" /\ call[c].door = "stream"
    /\ Finishes(FALSE)
    /\ call' = [call EXCEPT ![c].pc = "open"]
    /\ result' = [result EXCEPT ![c] = "ok"]
    /\ UNCHANGED <<now, b, lifetime, active, history>>

\* Mutant of Releases: without the sync.Once.
ReleasesAgain(c) == 1

\* releasingBody.Close, as often as the caller likes.
Releases(c) == IF call[c].pc = "open" THEN 1 ELSE 0

CloseBody(c) ==
    /\ call[c].door = "stream" /\ result[c] = "ok"
    /\ active' = active - Releases(c)
    /\ Returns(c, "ok")
    /\ UNCHANGED <<now, b, lifetime, counts, history>>

-----------------------------------------------------------------------------
(* The world.                                                              *)

\* A caller's context is cancelled; until it waits, nothing looks.
GiveUp(c) ==
    /\ call[c].pc \in {"drawing", "parked", "sent"}
    /\ call' = [call EXCEPT ![c].gaveUp = TRUE]
    /\ UNCHANGED <<now, b, lifetime, active, counts, result, history>>

\* Close takes both steps at once, Shutdown the second when its own context or
\* the drain ends.
Shut ==
    /\ \/ ~shuttingDown /\ shuttingDown' = TRUE /\ UNCHANGED cancelled
       \/ shuttingDown /\ ~cancelled /\ cancelled' = TRUE /\ UNCHANGED shuttingDown
    /\ UNCHANGED <<now, b, call, active, counts, result, history>>

Tick ==
    /\ now < MaxTime
    /\ \A c \in Callers : call[c].pc = "looking" => now < call[c].read + Lag
    /\ now' = now + 1
    /\ UNCHANGED <<b, call, lifetime, active, counts, result, history>>

-----------------------------------------------------------------------------

\* What a caller's goroutine does of itself, once inside.
Goroutine(c) ==
    \/ Build(c)
    \/ Allow(c) \/ Reserve(c) \/ Look(c) \/ Draw(c)
    \/ Wake(c) \/ Cut(c) \/ Abort(c)

Next ==
    \/ \E c \in Callers :
          \/ Goroutine(c)
          \/ Enter(c) \/ Cancel(c) \/ Use(c) \/ GiveUp(c) \/ CloseBody(c)
          \/ Fail(c) \/ Respond(c) \/ HandOver(c)
    \/ Shut
    \/ Tick

Spec == Init /\ [][Next]_vars

\* Goroutines are scheduled, and a transport heeds its request's context.
FairSpec == Spec /\ \A c \in Callers : WF_vars(Goroutine(c))

-----------------------------------------------------------------------------
(* Properties.                                                             *)

\* The callers whose token falls due from s to e.
DueIn(s, e) == {c \in Callers : at[c] \in s..e}

\* What the limiter is for: in any window as many admissions fall due as the
\* bucket holds and what accrues, whatever waits are cut and reservations
\* cancelled.  They are due as their callers read the clock; what goes beyond is
\* what draws on an older reading have made accrue, or be given back, twice: allow
\* and Reserve read it before GetOrCreate may block (limiter/ratelimit.go:29,
\* limiter/reserve.go:58).
AnyWindow ==
    \A s, e \in 0..2 * MaxTime :
        s <= e => Cardinality(DueIn(s, e)) <= Burst + (e - s) + rewound + overpaid

\* The bucket is short of no more tokens than calls have used, hold, or could not
\* give back: a refusal, and a request that cannot be built, take none
\* (client/request.go:164), and a wait cut short or a reservation cancelled gives
\* its own back where it is not too late and nobody has drawn behind it.  Where
\* somebody has, the call is charged for nothing, and stays in charged: this says
\* less than limiter/api.go:67, which knows no such exception (WaitsGiveBack).
NothingLeaks == TokensAt(b, now) >= Start - Cardinality(charged)

\* "a Wait cut short by ctx already gives its token back" (limiter/api.go:67),
\* as it stands: of waits, only those that got their token are paid for.
WaitsGiveBack ==
    TokensAt(b, now) >=
        Start - Cardinality({x \in charged : at[x[1]] # Undue \/ call[x[1]].door = "reserve"})

\* "forgetting the second is a hang at shutdown" (limiter/api.go:25): whoever is
\* registered is still inside or holds an open body, however often a body is
\* closed and on every early return.
RegisteredOnce == active = Cardinality({c \in Callers : Inside(c)})

\* ErrClosed "reports that the Limiter will accept no further work - not that a
\* particular request timed out" (limiter/errors.go:14): only a limiter that is
\* shutting down answers so, and a wait that fails for a LimitError had its own
\* context or deadline against it.
ClosedMeansClosing ==
    [][\A c \in Callers :
         result'[c] # result[c] =>
             /\ result'[c] = "closed" => cancelled
             /\ result'[c] = "limit" =>
                    \/ OwnDone(c)
                    \/ call[c].deadline # Never /\ TimeToAct(b, now) > call[c].deadline]_vars

\* "Stats.Requests and Stats.Errors cannot come to describe different
\* populations" (limiter/observer.go:105), at whichever door: every attempt at a
\* token is a request, every request sent that returned an error is an error, and
\* every attempt that found no token when it asked is throttled once, refused or
\* made to wait or not.  That is what the code counts, and not all that
\* observe/observe.go says: it counts as an error a response whose body is too
\* large or breaks off (lines 139 and 78-83; ErrorsAreUnanswered), and as
\* throttled nobody who found a token, lost it to another and waited (line 129;
\* WaitersAreCounted) or gave up unsent (lines 140-141).
StatsAddUp ==
    /\ stats.requests =
          Cardinality({c \in Callers : call[c].pc \notin {"idle", "entered"}
                                       /\ result[c] \notin {"rejected", "unbuilt"}})
    /\ stats.errors = Cardinality({c \in Callers : result[c] \in {"error", "aborted", "oversized"}})
    /\ stats.throttled = Cardinality(short)
    /\ {c \in Callers : result[c] = "refused"} \subseteq short

\* "RequestTimeout starts after the token is acquired, not before"
\* (client/request.go:167): a request whose context is live is not given up
\* before it has had that long since its token was due.
WholeTimeout ==
    [][\A c \in Callers :
         (result'[c] # result[c] /\ result'[c] = "aborted" /\ ~OwnDone(c) /\ ~cancelled)
             => now >= at[c] + RequestTimeout]_vars

\* "a request to a host the caller never named" (urlx/urlx.go:57): no path moves
\* a request off the host of the base.
NothingElsewhere == \A c \in Callers : HostOf(call[c].target) = HostOf(Base)

\* A caller whose context ends, or whose limiter closes, gets an answer.
CutCallersReturn ==
    \A c \in Callers :
        (Inside(c) /\ (OwnDone(c) \/ cancelled)) ~> (call[c].pc \in {"open", "holding", "returned"})

\* "Throttled counts those that had to wait for a token" (observe/observe.go:129).
WaitersAreCounted ==
    stats.throttled >= Cardinality({c \in Callers : call[c].pc = "parked"})

\* "Errors counts dispatched requests that came back without a response"
\* (observe/observe.go:139).
ErrorsAreUnanswered ==
    stats.errors <= Cardinality({c \in Callers : result[c] \in {"error", "aborted"}})

-----------------------------------------------------------------------------
(* The strengthening the proofs need (RequestsProofs.tla).                 *)

\* What a call has come to, and what it has drawn, at each of its steps.
CallAgrees(c) ==
    /\ call[c].pc \notin {"open", "returned"} => result[c] = "none"
    /\ call[c].pc = "returned" => result[c] # "none"
    /\ call[c].pc = "open" => result[c] = "ok" /\ call[c].door = "stream"
    /\ call[c].pc \in {"idle", "entered", "looking", "drawing"} =>
           at[c] = Undue /\ \A x \in charged : x[1] # c
    /\ call[c].pc \in {"parked", "holding"} => at[c] = call[c].act
    /\ call[c].pc = "sent" =>
           /\ at[c] # Undue
           /\ call[c].until = Never \/ call[c].until >= at[c] + RequestTimeout
    /\ at[c] # Undue => <<c, at[c]>> \in charged

CallsAgree == \A c \in Callers : CallAgrees(c)

\* Who found no token has asked.
ShortHaveAsked ==
    short \subseteq {c \in Callers : call[c].pc \notin {"idle", "entered", "looking"}}

\* The instant at which what the bucket holds is nothing.
Horizon == b.last - b.tokens

\* Where the bucket is in debt, each coming instant up to its horizon, its
\* latest event and the last token that is due has a token due.
DebtIsDue ==
    LET dues == {x[2] : x \in charged} IN
    \A h \in dues \cup {b.event, Horizon} : \A t \in now + 1..h : t \in dues

\* What could still fall due from s to e: at s the bucket holds no more than Burst.
Drawable(s, e) == AtLeast(0, e - AtLeast(Horizon, s - Burst))

\* What falls due in a window, and what still could.
WindowHolds(s, e) ==
    Cardinality(DueIn(s, e)) + Drawable(s, e) <= Burst + (e - s) + rewound + overpaid

WindowsHold == \A s, e \in 0..2 * MaxTime : s <= e => WindowHolds(s, e)

\* As long as no draw has moved the bucket's clock back, tokens fall due in the
\* order they are drawn, one at an instant, and nothing is overpaid.
OrderlyUnlessRewound ==
    rewound = 0 =>
        /\ overpaid = 0
        /\ \A x \in charged : x[2] >= now => x[2] <= b.event
        /\ \A x, y \in charged : x[2] = y[2] /\ x[2] > now => x = y
        /\ b.event >= now => b.event <= Horizon \/ b.event <= b.last

RequestsInv ==
    /\ TypeOK
    /\ CallsAgree
    /\ RegisteredOnce
    /\ StatsAddUp
    /\ ShortHaveAsked
    /\ NothingElsewhere
    /\ DebtIsDue
    /\ NothingLeaks
    /\ WindowsHold
    /\ OrderlyUnlessRewound
=============================================================================
