------------------------------ MODULE GateProofs ------------------------------
(***************************************************************************)
(* The gate proved for any replicas, any number of overlapping requests,   *)
(* every policy and backend, and goroutines that stop where they like.     *)
(***************************************************************************)
EXTENDS Gate, FiniteSetTheorems, TLAPS

-----------------------------------------------------------------------------
(* The constants, and a bucket.                                            *)

LEMMA Constants ==
    /\ Burst \in Nat \ {0} /\ Refills /\ Cost \in Nat \ {0}
    /\ {Timeout, MaxRequests, MaxTime} \subseteq Nat
    /\ MinPoll \in Nat \ {0} /\ MaxPoll \in Nat /\ MinPoll <= MaxPoll
    /\ Home \in [Callers -> Replicas]
    /\ IsFiniteSet(Callers)
    /\ \A x \in Configs : x.policy \in {"fallback", "deny", "allow"}
  BY BucketAssumption, ShadowAssumption, GateAssumption

\* What a reading at t finds in a bucket.
LEMMA Reading ==
    ASSUME NEW b, b.tokens \in Int, b.last \in Int, NEW t \in Int
    PROVE  /\ TokensAt(b, t) = AtMost(Burst, b.tokens + AtLeast(0, t - b.last))
           /\ TokensAt(b, t) \in Int
  BY Constants DEF TokensAt, Accrued, AtMost, AtLeast

\* A draw at t: the token is due no earlier than what the bucket then holds is
\* nothing, and that instant moves on by a token, but for what an older reading
\* sees accrue twice.
LEMMA Drawing ==
    ASSUME NEW b \in Reservable, b.tokens <= Burst, NEW t \in Nat
    PROVE  LET x == ReserveAt(b, t) IN
           /\ x \in Reservable /\ x.tokens <= Burst /\ x.last = t
           /\ x.tokens = TokensAt(b, t) - Cost
           /\ x.event = TimeToAct(b, t)
           /\ TimeToAct(b, t) \in Nat /\ TimeToAct(b, t) >= t
           /\ TimeToAct(b, t) > t => TokensAt(b, t) < Cost
           /\ x.last - x.tokens <= TimeToAct(b, t)
           /\ x.last - x.tokens >= (b.last - b.tokens) + Cost - AtLeast(0, b.last - t)
<1> DEFINE T == TokensAt(b, t)
           x == ReserveAt(b, t)
<1>1. b.tokens \in Int /\ b.last \in Int /\ b.event \in Int
  BY DEF Reservable
<1>2. T = AtMost(Burst, b.tokens + AtLeast(0, t - b.last)) /\ T \in Int
  BY <1>1, Reading
<1>3. T <= Burst /\ t - T >= (b.last - b.tokens) - AtLeast(0, b.last - t)
  BY <1>1, <1>2, Constants DEF AtMost, AtLeast
<1>4. TimeToAct(b, t) = t + AtLeast(0, Cost - T)
  BY DEF TimeToAct
<1>5. x = [tokens |-> T - Cost, last |-> t, event |-> TimeToAct(b, t)]
  BY DEF ReserveAt
<1> HIDE DEF T
<1>6. /\ TimeToAct(b, t) \in Nat /\ TimeToAct(b, t) >= t
      /\ TimeToAct(b, t) > t => T < Cost
      /\ t - (T - Cost) <= TimeToAct(b, t)
  BY <1>2, <1>4, Constants DEF AtLeast
<1>7. T - Cost \in Int /\ T - Cost <= Burst
      /\ t - (T - Cost) >= (b.last - b.tokens) + Cost - AtLeast(0, b.last - t)
  BY <1>1, <1>2, <1>3, Constants DEF AtLeast
<1>8. x \in Reservable /\ x.tokens = T - Cost /\ x.last = t /\ x.event = TimeToAct(b, t)
  BY <1>5, <1>6, <1>7 DEF Reservable
<1> QED
  BY <1>6, <1>7, <1>8 DEF T

\* A cancel at t gives back no more than the token, but for what it sees accrue
\* twice and for what older draws have moved the latest event back.
LEMMA Cancelling ==
    ASSUME NEW b \in Reservable, b.tokens <= Burst, NEW act \in Nat, NEW t \in Nat
    PROVE  LET y == CancelAt(b, act, t) IN
           /\ y \in Reservable /\ y.tokens <= Burst /\ y.last \in {b.last, t}
           /\ \/ y = b
              \/ y.last - y.tokens >= (b.last - b.tokens) - Cost
                                      - (AtLeast(0, b.last - t) + AtLeast(0, act - b.event))
           /\ (t <= act /\ b.event = act) =>
                 y.last = t /\ y.tokens = AtMost(Burst, TokensAt(b, t) + Cost)
<1> DEFINE T == TokensAt(b, t)
           R == Refund(b, act)
           y == CancelAt(b, act, t)
           N == AtMost(Burst, T + R)
           E == IF act = b.event /\ act - Cost >= t THEN act - Cost ELSE b.event
<1>1. b.tokens \in Int /\ b.last \in Int /\ b.event \in Int
  BY DEF Reservable
<1>2. T = AtMost(Burst, b.tokens + AtLeast(0, t - b.last)) /\ T \in Int
  BY <1>1, Reading
<1>3. R = Cost - (b.event - act) /\ R \in Int
  BY <1>1, Constants DEF Refund
<1>4. N \in Int /\ N <= Burst /\ N <= T + R /\ E \in Int
  BY <1>1, <1>2, <1>3, Constants DEF AtMost
<1>5. t - T >= (b.last - b.tokens) - AtLeast(0, b.last - t)
  BY <1>1, <1>2, Constants DEF AtMost, AtLeast
<1>6. R <= Cost + AtLeast(0, act - b.event)
  BY <1>1, <1>3, Constants DEF AtLeast
<1>7. CASE act < t \/ R <= 0
  <2>1. y = b
    BY <1>7 DEF CancelAt
  <2>2. ~(t <= act /\ b.event = act)
    BY <1>1, <1>3, <1>7, Constants
  <2> QED
    BY <2>1, <2>2
<1>8. CASE ~(act < t \/ R <= 0)
  <2>1. y = [tokens |-> N, last |-> t, event |-> E]
    BY <1>8 DEF CancelAt
  <2> HIDE DEF N, E, T, R, y
  <2>2. y \in Reservable /\ y.tokens = N /\ y.last = t
    BY <1>4, <2>1 DEF Reservable
  <2>3. AtLeast(0, b.last - t) \in Nat /\ AtLeast(0, act - b.event) \in Nat
    BY <1>1 DEF AtLeast
  <2>4. t - N >= (b.last - b.tokens) - Cost - (AtLeast(0, b.last - t) + AtLeast(0, act - b.event))
    BY <1>1, <1>2, <1>3, <1>4, <1>5, <1>6, <2>3, Constants
  <2>5. b.event = act => R = Cost
    BY <1>1, <1>3, Constants
  <2> QED
    BY <1>4, <2>2, <2>4, <2>5 DEF N, T, y
<1> QED
  BY <1>7, <1>8
-----------------------------------------------------------------------------
(* What a request can be, step by step.                                    *)

\* The request has a token of its shadow in hand.
InHand(c) == Holding(c) \/ req[c].pc = "local"

Fits(c) ==
    /\ req[c] \in Requests
    /\ req[c].at <= now
    /\ InHand(c) => req[c].at <= req[c].act
    /\ req[c].then = "poll" => req[c].retry > 0
    /\ RequestAgrees(c)

\* The facts of the state that a request's steps look at.
Ready ==
    /\ now \in 0..MaxTime /\ now \in Nat /\ config \in Configs
    /\ req \in [Callers -> Requests]
    /\ \A c \in Callers : Fits(c)
    /\ \A r \in Replicas : shadow[r] \in Reservable /\ shadow[r].tokens <= Burst
                            /\ shadow[r].last <= now
    /\ backend.tokens \in 0..Burst /\ backend.last \in 0..now
    /\ excess \in [Replicas -> Nat]

LEMMA TypedIsReady ==
    ASSUME TypeOK, RequestsAgree
    PROVE  Ready
<1>1. now \in 0..MaxTime /\ now \in Nat /\ config \in Configs /\ req \in [Callers -> Requests]
  BY Constants DEF TypeOK
<1>2. \A c \in Callers : Fits(c)
  BY <1>1 DEF TypeOK, RequestsAgree, Fits, InHand
<1>3. \A r \in Replicas : shadow[r] \in Reservable /\ shadow[r].tokens <= Burst
                            /\ shadow[r].last <= now
  BY DEF TypeOK
<1>4. backend.tokens \in 0..Burst /\ backend.last \in 0..now /\ excess \in [Replicas -> Nat]
  BY DEF TypeOK
<1> QED
  BY <1>1, <1>2, <1>3, <1>4 DEF Ready

\* The locals of a request.
LEMMA RequestIsTyped ==
    ASSUME Ready, NEW c \in Callers
    PROVE  /\ req[c] \in Requests /\ req[c].pc \in Stages /\ req[c].mode \in Modes \cup {"none"}
           /\ req[c].at \in 0..MaxTime /\ req[c].at \in Nat /\ req[c].act \in Nat
           /\ req[c].till \in Nat /\ req[c].retry \in Nat
           /\ req[c].answer \in {"none", "granted", "refused"}
           /\ req[c].then \in {"none", "return", "poll"}
           /\ req[c].at <= now
           /\ Home[c] \in Replicas
           /\ shadow[Home[c]] \in Reservable /\ shadow[Home[c]].tokens <= Burst
           /\ shadow[Home[c]].last <= now
<1>1. req[c] \in Requests /\ req[c].at <= now /\ Home[c] \in Replicas
  BY Constants DEF Ready, Fits
<1>2. /\ shadow[Home[c]] \in Reservable /\ shadow[Home[c]].tokens <= Burst
      /\ shadow[Home[c]].last <= now
  BY <1>1 DEF Ready
<1> QED
  BY <1>1, <1>2, Constants DEF Requests

LEMMA IdleIsTyped ==
    /\ Idle \in Requests
    /\ Idle.answer = "none" /\ Idle.then = "none" /\ Idle.at = 0 /\ Idle.pc = "idle"
  BY Constants DEF Idle, Requests, Stages

LEMMA RetryIsLater ==
    ASSUME NEW said \in Nat
    PROVE  RetryDelay(said) \in Nat \ {0}
  BY Constants DEF RetryDelay, FallbackDelay, AtMost, AtLeast

\* A step of one request leaves the others as they were.
LEMMA OthersFit ==
    ASSUME Ready, NEW c \in Callers, NEW h,
           req' = [req EXCEPT ![c] = h], now' = now, config' = config,
           h \in Requests => Fits(c)', h \in Requests
    PROVE  req' \in [Callers -> Requests] /\ \A d \in Callers : Fits(d)'
<1>1. req \in [Callers -> Requests] /\ \A d \in Callers : Fits(d)
  BY DEF Ready
<1>2. req' \in [Callers -> Requests]
  BY <1>1
<1>3. ASSUME NEW d \in Callers, d # c
      PROVE  Fits(d)'
  <2>1. req'[d] = req[d]
    BY <1>1, <1>3
  <2> QED
    BY <1>1, <2>1 DEF Fits, InHand, Holding, RequestAgrees
<1> QED
  BY <1>2, <1>3

LEMMA ReturnFits ==
    ASSUME Ready, NEW c \in Callers, Returns(c), now' = now, config' = config
    PROVE  req' \in [Callers -> Requests] /\ \A d \in Callers : Fits(d)'
<1>1. req' = [req EXCEPT ![c] = Idle] /\ req'[c] = Idle
  BY DEF Returns, Ready
<1>2. Fits(c)'
  BY <1>1, IdleIsTyped DEF Fits, InHand, Holding, RequestAgrees, Idle, Ready
<1> QED
  BY <1>1, <1>2, IdleIsTyped, OthersFit

LEMMA GoFits ==
    ASSUME Ready, NEW c \in Callers, NEW stage, Goes(c, stage), now' = now, config' = config,
           \/ stage = "take" /\ req[c].pc = "sleeping" /\ now >= req[c].till
           \/ stage \in {"parked", "unavailable"} /\ req[c].answer # "granted" /\ ~InHand(c)
    PROVE  req' \in [Callers -> Requests] /\ \A d \in Callers : Fits(d)'
<1> DEFINE h == [req[c] EXCEPT !.pc = stage]
<1>1. req' = [req EXCEPT ![c] = h] /\ req'[c] = h
  BY DEF Goes, Ready
<1>2. h \in Requests
  BY RequestIsTyped DEF Requests, Stages
<1>3. Fits(c)
  BY DEF Ready
<1>4. /\ h.pc = stage /\ h.mode = req[c].mode /\ h.at = req[c].at /\ h.act = req[c].act
      /\ h.till = req[c].till /\ h.then = req[c].then /\ h.retry = req[c].retry
      /\ h.answer = req[c].answer
  BY RequestIsTyped DEF Requests
<1> HIDE DEF h
<1>5. ASSUME stage = "take" /\ req[c].pc = "sleeping" /\ now >= req[c].till
      PROVE  Fits(c)'
  <2>1. req[c].at <= req[c].act /\ req[c].act <= req[c].till /\ req[c].answer # "granted"
    BY <1>3, <1>5 DEF Fits, InHand, Holding, RequestAgrees
  <2>2. req[c].act <= now
    BY <1>5, <2>1, RequestIsTyped DEF Ready
  <2> QED
    BY <1>1, <1>2, <1>3, <1>4, <1>5, <2>1, <2>2 DEF Fits, InHand, Holding, RequestAgrees
<1>6. ASSUME stage \in {"parked", "unavailable"} /\ req[c].answer # "granted" /\ ~InHand(c)
      PROVE  Fits(c)'
  BY <1>1, <1>2, <1>3, <1>4, <1>6 DEF Fits, InHand, Holding, RequestAgrees
<1> QED
  BY <1>1, <1>2, <1>5, <1>6, OthersFit

LEMMA UndoesFits ==
    ASSUME Ready, NEW c \in Callers, NEW then, NEW retry \in Nat, Undoes(c, then, retry),
           Holding(c), then \in {"return", "poll"},
           then = "poll" => retry > 0 /\ req[c].mode = "acquire"
    PROVE  req' \in [Callers -> Requests] /\ \A d \in Callers : Fits(d)'
<1> DEFINE h == [req[c] EXCEPT !.pc = "undo", !.then = then, !.retry = retry,
                               !.answer = "none", !.till = 0]
<1>1. req' = [req EXCEPT ![c] = h] /\ req'[c] = h /\ now' = now /\ config' = config
  BY DEF Undoes, Ready
<1>2. h \in Requests
  BY RequestIsTyped DEF Requests, Stages
<1>3. Fits(c)
  BY DEF Ready
<1>4. Fits(c)'
  BY <1>1, <1>2, <1>3, RequestIsTyped DEF Fits, InHand, Holding, RequestAgrees, Requests
<1> QED
  BY <1>1, <1>2, <1>4, OthersFit

LEMMA PassesFits ==
    ASSUME Ready, NEW c \in Callers, NEW backed \in BOOLEAN, Passes(c, backed),
           req[c].pc \in {"take", "calling"}
    PROVE  req' \in [Callers -> Requests] /\ \A d \in Callers : Fits(d)'
<1>1. CASE req[c].mode = "reserve"
  <2> DEFINE h == [req[c] EXCEPT !.pc = "held", !.till = now, !.retry = 0,
                                 !.answer = IF backed THEN "granted" ELSE "none"]
  <2>1. req' = [req EXCEPT ![c] = h] /\ req'[c] = h /\ now' = now /\ config' = config
    BY <1>1 DEF Passes, Holds, Ready
  <2>2. h \in Requests
    BY RequestIsTyped DEF Requests, Stages, Ready
  <2>3. Fits(c) /\ now \in Nat
    BY DEF Ready
  <2>4. req[c].act <= now
    BY <2>3 DEF Fits, RequestAgrees
  <2>5. req'[c].then # "poll"
    BY <1>1, <2>1, <2>2, <2>3, RequestIsTyped DEF Fits, RequestAgrees, Requests
  <2>6. /\ h.pc = "held" /\ h.mode = "reserve" /\ h.at = req[c].at /\ h.act = req[c].act
        /\ h.till = now /\ h.then = req[c].then
    BY <1>1, RequestIsTyped DEF Requests
  <2>7. req[c].at <= req[c].act /\ req[c].at <= now
    BY <2>3 DEF Fits, InHand, Holding
  <2> HIDE DEF h
  <2>8. Fits(c)'
    BY <2>1, <2>2, <2>4, <2>5, <2>6, <2>7 DEF Fits, InHand, Holding, RequestAgrees
  <2> QED
    BY <2>1, <2>2, <2>8, OthersFit
<1>2. CASE req[c].mode # "reserve"
  BY <1>2, ReturnFits DEF Passes, Admits
<1> QED
  BY <1>1, <1>2
\* A request in an early stage has nothing to answer for.
LEMMA ArriveFits ==
    ASSUME Ready, NEW c \in Callers, NEW mode \in Modes, Arrive(c, mode)
    PROVE  req' \in [Callers -> Requests] /\ \A d \in Callers : Fits(d)'
<1> DEFINE stage == IF mode = "acquire" /\ config.parks THEN "asking" ELSE "arrived"
           h == [Idle EXCEPT !.mode = mode, !.at = now, !.pc = stage]
<1>1. req' = [req EXCEPT ![c] = h] /\ req'[c] = h /\ now' = now /\ config' = config
  BY DEF Arrive, Ready
<1>2. stage \in {"asking", "arrived"}
  OBVIOUS
<1> HIDE DEF stage
<1>3. /\ h \in Requests /\ h.pc = stage /\ h.at = now /\ h.then = "none"
      /\ h.answer = "none" /\ now <= now
  <2>1. stage \in Stages /\ now \in 0..MaxTime /\ now \in Nat /\ MaxTime \in Nat
    BY <1>2, Constants DEF Ready, Stages
  <2>2. h \in Requests
    BY <2>1, IdleIsTyped DEF Requests
  <2>3. h.pc = stage /\ h.at = now /\ h.then = "none" /\ h.answer = "none"
    BY IdleIsTyped DEF Requests
  <2>4. now <= now
    BY <2>1
  <2> QED
    BY <2>2, <2>3, <2>4
<1> HIDE DEF h
<1>4. Fits(c)'
  BY <1>1, <1>2, <1>3 DEF Fits, InHand, Holding, RequestAgrees
<1> QED
  BY <1>1, <1>3, <1>4, OthersFit

LEMMA PollAgainFits ==
    ASSUME Ready, NEW c \in Callers, PollAgain(c)
    PROVE  req' \in [Callers -> Requests] /\ \A d \in Callers : Fits(d)'
<1> DEFINE h == [Idle EXCEPT !.pc = "arrived", !.mode = "acquire", !.at = now]
<1>1. req' = [req EXCEPT ![c] = h] /\ req'[c] = h /\ now' = now /\ config' = config
  BY DEF PollAgain, Ready
<1>2. "acquire" \in Modes \cup {"none"}
  BY RequestIsTyped DEF PollAgain, Ready, Fits, RequestAgrees
<1>3. /\ h \in Requests /\ h.pc = "arrived" /\ h.at = now /\ h.then = "none"
      /\ h.answer = "none" /\ now <= now
  <2>1. "arrived" \in Stages /\ now \in 0..MaxTime /\ now \in Nat /\ MaxTime \in Nat
    BY Constants DEF Ready, Stages
  <2>2. h \in Requests
    BY <1>2, <2>1, IdleIsTyped DEF Requests
  <2>3. h.pc = "arrived" /\ h.at = now /\ h.then = "none" /\ h.answer = "none"
    BY IdleIsTyped DEF Requests
  <2>4. now <= now
    BY <2>1
  <2> QED
    BY <2>2, <2>3, <2>4
<1> HIDE DEF h
<1>4. Fits(c)'
  BY <1>1, <1>3 DEF Fits, InHand, Holding, RequestAgrees
<1> QED
  BY <1>1, <1>3, <1>4, OthersFit

LEMMA UndoFits ==
    ASSUME Ready, NEW c \in Callers, Undo(c)
    PROVE  req' \in [Callers -> Requests] /\ \A d \in Callers : Fits(d)'
<1>1. now' = now /\ config' = config
  BY DEF Undo
<1>2. CASE req[c].then = "return"
  BY <1>1, <1>2, ReturnFits DEF Undo
<1>3. CASE req[c].then # "return"
  <2>1. PICK d \in PollDelays(req[c].retry) :
           req' = [req EXCEPT ![c] = [Idle EXCEPT !.pc = "polling", !.mode = "acquire",
                                                  !.till = now + d]]
    BY <1>3 DEF Undo
  <2> DEFINE h == [Idle EXCEPT !.pc = "polling", !.mode = "acquire", !.till = now + d]
  <2>2. req' = [req EXCEPT ![c] = h] /\ req'[c] = h
    BY <2>1 DEF Ready
  <2>3. d \in Nat
    BY RequestIsTyped DEF PollDelays
  <2>4. "acquire" \in Modes \cup {"none"}
    <3>1. Fits(c) /\ req[c].then \in {"poll", "none"}
      BY <1>3, RequestIsTyped DEF Ready
    <3>2. req[c].then = "poll"
      BY <3>1 DEF Undo, Fits, RequestAgrees
    <3> QED
      BY <3>1, <3>2, RequestIsTyped DEF Fits, RequestAgrees
  <2>5. /\ h \in Requests /\ h.pc = "polling" /\ h.mode = "acquire" /\ h.at = 0
        /\ h.then = "none" /\ h.answer = "none" /\ 0 <= now
    <3>1. "polling" \in Stages /\ 0 \in 0..MaxTime /\ now + d \in Nat /\ 0 <= now
      BY <2>3, Constants DEF Ready, Stages
    <3> QED
      BY <2>4, <3>1, IdleIsTyped DEF Requests
  <2> HIDE DEF h
  <2>6. Fits(c)'
    BY <1>1, <2>2, <2>5 DEF Fits, InHand, Holding, RequestAgrees
  <2> QED
    BY <1>1, <2>2, <2>5, <2>6, OthersFit
<1> QED
  BY <1>2, <1>3

\* A request that calls the backend keeps what it came with.
LEMMA CallingFits ==
    ASSUME Ready, NEW c \in Callers, NEW h \in Requests, req' = [req EXCEPT ![c] = h],
           now' = now, config' = config, req[c].pc \in {"take", "calling"},
           h.pc = "calling", h.mode = req[c].mode, h.at = req[c].at,
           h.act = req[c].act, h.then = req[c].then
    PROVE  req' \in [Callers -> Requests] /\ \A d \in Callers : Fits(d)'
<1>1. Fits(c)
  BY DEF Ready
<1>2. /\ req[c].at <= req[c].act /\ req[c].act <= now /\ req[c].then # "poll"
      /\ req[c].at <= now
  BY <1>1 DEF Fits, InHand, Holding, RequestAgrees
<1>3. req'[c] = h
  BY DEF Ready
<1>4. Fits(c)'
  BY <1>2, <1>3 DEF Fits, InHand, Holding, RequestAgrees
<1> QED
  BY <1>4, OthersFit

LEMMA CallFits ==
    ASSUME Ready, NEW c \in Callers, Call(c)
    PROVE  req' \in [Callers -> Requests] /\ \A d \in Callers : Fits(d)'
<1> DEFINE h == [req[c] EXCEPT !.pc = "calling", !.answer = "none", !.till = now + Timeout]
<1>1. /\ req' = [req EXCEPT ![c] = h] /\ now' = now /\ config' = config
      /\ req[c].pc \in {"take", "calling"}
  BY DEF Call, Ready
<1>2. now + Timeout \in Nat
  BY Constants DEF Ready
<1>3. /\ h \in Requests /\ h.pc = "calling" /\ h.mode = req[c].mode
      /\ h.at = req[c].at /\ h.act = req[c].act /\ h.then = req[c].then
  BY <1>2, RequestIsTyped DEF Requests, Stages
<1> HIDE DEF h
<1> QED
  BY <1>1, <1>3, CallingFits

\* The backend has no less than nothing, whenever it is asked.
LEMMA BackendHolds ==
    ASSUME Ready
    PROVE  /\ TokensAt(backend, now) \in 0..Burst /\ TokensAt(backend, now) \in Nat
           /\ TokensAt(backend, now) = AtMost(Burst, backend.tokens + (now - backend.last))
           /\ backend.tokens \in Nat /\ backend.last \in Nat /\ backend.last <= now
<1>1. backend.tokens \in 0..Burst /\ backend.last \in 0..now /\ now \in Nat
  BY DEF Ready
<1> QED
  BY <1>1, Constants DEF TokensAt, Accrued, AtMost, AtLeast

LEMMA BackendTakesFits ==
    ASSUME Ready, NEW c \in Callers, BackendTakes(c)
    PROVE  req' \in [Callers -> Requests] /\ \A d \in Callers : Fits(d)'
<1>1. now' = now /\ config' = config /\ req[c].pc = "calling"
  BY DEF BackendTakes
<1>2. CASE TokensAt(backend, now) >= Cost
  <2> DEFINE h == [req[c] EXCEPT !.answer = "granted"]
  <2>1. req' = [req EXCEPT ![c] = h]
    BY <1>2 DEF BackendTakes, Ready
  <2>2. /\ h \in Requests /\ h.pc = "calling" /\ h.mode = req[c].mode
        /\ h.at = req[c].at /\ h.act = req[c].act /\ h.then = req[c].then
    BY <1>1, RequestIsTyped DEF Requests
  <2> HIDE DEF h
  <2> QED
    BY <1>1, <2>1, <2>2, CallingFits
<1>3. CASE ~(TokensAt(backend, now) >= Cost)
  <2>1. PICK said \in {0, Cost - TokensAt(backend, now)} :
           req' = [req EXCEPT ![c].answer = "refused", ![c].retry = said]
    BY <1>3 DEF BackendTakes
  <2> DEFINE h == [req[c] EXCEPT !.answer = "refused", !.retry = said]
  <2>2. req' = [req EXCEPT ![c] = h]
    BY <2>1 DEF Ready
  <2>3. said \in Nat
    BY <1>3, <2>1, BackendHolds, Constants
  <2>4. /\ h \in Requests /\ h.pc = "calling" /\ h.mode = req[c].mode
        /\ h.at = req[c].at /\ h.act = req[c].act /\ h.then = req[c].then
    BY <1>1, <2>3, RequestIsTyped DEF Requests
  <2> HIDE DEF h
  <2> QED
    BY <1>1, <2>2, <2>4, CallingFits
<1> QED
  BY <1>2, <1>3
LEMMA ReserveFits ==
    ASSUME Ready, NEW c \in Callers, Reserve(c)
    PROVE  /\ req' \in [Callers -> Requests] /\ \A d \in Callers : Fits(d)'
           /\ req'[c].act = TimeToAct(shadow[Home[c]], req[c].at)
           /\ req'[c].pc \in {"take", "sleeping", "undo", "held"}
           /\ req'[c].at = req[c].at /\ req'[c].answer = req[c].answer
           /\ req'[c].pc = "held" => req[c].mode = "reserve"
<1> DEFINE act == TimeToAct(shadow[Home[c]], req[c].at)
           Due(stage) == [req[c] EXCEPT !.pc = stage, !.act = act]
           Later(stage) == [req[c] EXCEPT !.pc = stage, !.act = act,
                                          !.till = now + (act - req[c].at)]
           Turned == [req[c] EXCEPT !.pc = "undo", !.act = act, !.then = "return"]
<1>1. act \in Nat /\ act >= req[c].at
  BY RequestIsTyped, Drawing
<1>2. now' = now /\ config' = config /\ now \in Nat /\ req[c].pc = "arrived" /\ Fits(c)
  BY DEF Reserve, Ready
<1>3. req[c].at <= now /\ req[c].answer # "granted" /\ req[c].then # "poll"
  BY <1>2 DEF Fits, RequestAgrees
<1>4. \/ act = req[c].at /\ req' = [req EXCEPT ![c] = Due("take")]
      \/ act > req[c].at /\ req[c].mode = "acquire" /\ req' = [req EXCEPT ![c] = Later("sleeping")]
      \/ act > req[c].at /\ req[c].mode = "allow" /\ req' = [req EXCEPT ![c] = Turned]
      \/ act > req[c].at /\ req[c].mode = "reserve" /\ req' = [req EXCEPT ![c] = Later("held")]
  BY DEF Reserve, Ready
<1> HIDE DEF act
<1>5. now + (act - req[c].at) \in Nat /\ act <= now + (act - req[c].at)
  BY <1>1, <1>2, <1>3, RequestIsTyped
<1>6. CASE act = req[c].at /\ req' = [req EXCEPT ![c] = Due("take")]
  <2>1. /\ Due("take") \in Requests
        /\ Due("take").pc = "take" /\ Due("take").act = act /\ Due("take").at = req[c].at
        /\ Due("take").then = req[c].then /\ Due("take").answer = req[c].answer
    BY <1>1, RequestIsTyped DEF Requests, Stages
  <2>2. req'[c] = Due("take")
    BY <1>6 DEF Ready
  <2> HIDE DEF Due
  <2>3. Fits(c)'
    BY <1>1, <1>2, <1>3, <1>6, <2>1, <2>2 DEF Fits, InHand, Holding, RequestAgrees
  <2> QED
    BY <1>2, <1>6, <2>1, <2>2, <2>3, OthersFit DEF act
<1>7. ASSUME NEW stage \in {"sleeping", "held"}, req' = [req EXCEPT ![c] = Later(stage)],
             stage = "held" => req[c].mode = "reserve"
      PROVE  /\ req' \in [Callers -> Requests] /\ \A d \in Callers : Fits(d)'
             /\ req'[c].act = act
             /\ req'[c].pc = stage /\ req'[c].at = req[c].at /\ req'[c].answer = req[c].answer
  <2>1. /\ Later(stage) \in Requests
        /\ Later(stage).pc = stage /\ Later(stage).act = act /\ Later(stage).at = req[c].at
        /\ Later(stage).then = req[c].then /\ Later(stage).answer = req[c].answer
        /\ Later(stage).till = now + (act - req[c].at) /\ Later(stage).mode = req[c].mode
    BY <1>1, <1>5, RequestIsTyped DEF Requests, Stages
  <2>2. req'[c] = Later(stage)
    BY <1>7 DEF Ready
  <2> HIDE DEF Later
  <2>3. Fits(c)'
    BY <1>1, <1>2, <1>3, <1>5, <1>7, <2>1, <2>2 DEF Fits, InHand, Holding, RequestAgrees
  <2> QED
    BY <1>2, <1>7, <2>1, <2>2, <2>3, OthersFit
<1>8. CASE req' = [req EXCEPT ![c] = Turned]
  <2>1. /\ Turned \in Requests
        /\ Turned.pc = "undo" /\ Turned.act = act /\ Turned.at = req[c].at
        /\ Turned.then = "return" /\ Turned.answer = req[c].answer
    BY <1>1, RequestIsTyped DEF Requests, Stages
  <2>2. req'[c] = Turned
    BY <1>8 DEF Ready
  <2> HIDE DEF Turned
  <2>3. Fits(c)'
    BY <1>1, <1>2, <1>3, <2>1, <2>2 DEF Fits, InHand, Holding, RequestAgrees
  <2> QED
    BY <1>2, <1>8, <2>1, <2>2, <2>3, OthersFit DEF act
<1> HIDE DEF Due, Later, Turned
<1> QED
  BY <1>4, <1>6, <1>7, <1>8 DEF act

\* Where FallbackLocal leaves a caller whose token is not due yet.
LEMMA WaitLocallyFits ==
    ASSUME Ready, NEW c \in Callers, WaitFallback(c)
    PROVE  /\ req' \in [Callers -> Requests] /\ \A d \in Callers : Fits(d)'
           /\ \/ Refuses(c) /\ ~InHand(c)'
              \/ config.policy = "allow" /\ Admits(c, FALSE) /\ UNCHANGED <<shadow, backend>>
                 /\ ~InHand(c)'
              \/ /\ config.policy = "fallback"
                 /\ shadow' = [shadow EXCEPT ![Home[c]] = ReserveAt(shadow[Home[c]], now)]
                 /\ \/ TimeToAct(shadow[Home[c]], now) = now /\ Admits(c, FALSE) /\ ~InHand(c)'
                    \/ /\ req'[c].act = TimeToAct(shadow[Home[c]], now)
                       /\ req'[c].answer = req[c].answer
                       /\ InHand(c)' /\ ~Holding(c)'
                       /\ UNCHANGED <<config, backend, left, tallies>>
<1> DEFINE act == TimeToAct(shadow[Home[c]], now)
           h == [req[c] EXCEPT !.pc = "local", !.at = now, !.act = act]
<1>1. act \in Nat /\ act >= now /\ now \in Nat /\ now \in 0..MaxTime
  BY RequestIsTyped, Drawing DEF Ready
<1>2. req[c].pc = "unavailable" /\ Fits(c)
  BY DEF WaitFallback, Ready
<1>3. req[c].answer # "granted" /\ req[c].then # "poll"
  BY <1>2 DEF Fits, RequestAgrees
<1>4. ASSUME Returns(c), now' = now, config' = config
      PROVE  req' \in [Callers -> Requests] /\ (\A d \in Callers : Fits(d)') /\ ~InHand(c)'
  BY <1>4, ReturnFits DEF Returns, Ready, Idle, InHand, Holding
<1>5. CASE Refuses(c)
  BY <1>4, <1>5 DEF Refuses
<1>6. CASE config.policy = "allow" /\ Admits(c, FALSE) /\ UNCHANGED <<shadow, backend>>
  BY <1>4, <1>6 DEF Admits
<1>7. CASE config.policy \notin {"deny", "allow"} /\ WaitLocally(c) /\ ~Refuses(c)
  <2>1. config.policy = "fallback"
    BY <1>7, Constants DEF Ready
  <2>2. CASE act = now /\ Admits(c, FALSE)
    BY <1>4, <1>7, <2>1, <2>2 DEF Admits, WaitLocally
  <2>3. CASE ~(act = now /\ Admits(c, FALSE))
    <3>1. /\ req' = [req EXCEPT ![c] = h] /\ now' = now
          /\ UNCHANGED <<config, backend, left, tallies>>
          /\ shadow' = [shadow EXCEPT ![Home[c]] = ReserveAt(shadow[Home[c]], now)]
      BY <1>7, <2>3 DEF WaitLocally, Ready
    <3>2. /\ h.pc = "local" /\ h.act = act /\ h.at = now /\ h.then = req[c].then
          /\ h.answer = req[c].answer /\ h.retry = req[c].retry
      BY RequestIsTyped DEF Requests
    <3>3. h \in Requests
      BY <1>1, RequestIsTyped, Constants DEF Requests, Stages
    <3>4. req'[c] = h
      BY <3>1 DEF Ready
    <3> HIDE DEF h, act
    <3>5. Fits(c)'
      BY <1>1, <1>3, <2>1, <3>1, <3>2, <3>3, <3>4 DEF Fits, InHand, Holding, RequestAgrees
    <3>6. req' \in [Callers -> Requests] /\ \A d \in Callers : Fits(d)'
      BY <3>1, <3>3, <3>5, OthersFit
    <3>7. InHand(c)' /\ ~Holding(c)'
      BY <3>2, <3>4 DEF InHand, Holding
    <3> QED
      BY <2>1, <3>1, <3>2, <3>4, <3>6, <3>7 DEF act
  <2> QED
    BY <2>2, <2>3
<1> QED
  BY <1>5, <1>6, <1>7 DEF WaitFallback

\* A step of a request, whichever it is.
LEMMA RequestStep ==
    ASSUME Ready, Next
    PROVE  req' \in [Callers -> Requests] /\ \A d \in Callers : Fits(d)'
<1>1. CASE Tick
  <2>1. req' = req /\ config' = config /\ now' = now + 1 /\ now \in Nat
    BY <1>1 DEF Tick, Ready
  <2>2. ASSUME NEW d \in Callers PROVE Fits(d)'
    <3>1. Fits(d) /\ req[d].at \in Nat /\ req[d].act \in Nat
      BY RequestIsTyped DEF Ready
    <3> QED
      BY <2>1, <3>1 DEF Fits, InHand, Holding, RequestAgrees
  <2> QED
    BY <2>1, <2>2 DEF Ready
<1>2. CASE ~Tick
  <2>1. PICK c \in Callers :
           \/ \E mode \in Modes : Arrive(c, mode)
           \/ Step(c) \/ BackendTakes(c) \/ Served(c) \/ Act(c) \/ CancelHeld(c) \/ Leave(c)
    BY <1>2 DEF Next
  <2>2. Fits(c) /\ now \in Nat
    BY DEF Ready
  <2>3. CASE Leave(c)
    <3>1. req' = req /\ config' = config /\ now' = now
      BY <2>3 DEF Leave
    <3>2. ASSUME NEW d \in Callers PROVE Fits(d)'
      BY <3>1 DEF Ready, Fits, InHand, Holding, RequestAgrees
    <3> QED
      BY <3>1, <3>2 DEF Ready
  <2>4. CASE SleepCut(c) \/ CallerGone(c)
    <3>1. Holding(c) /\ Undoes(c, "return", 0)
      BY <2>4 DEF SleepCut, CallerGone, Holding
    <3> QED
      BY <3>1, UndoesFits
  <2>5. CASE Refused(c)
    <3>1. RetryDelay(req[c].retry) \in Nat \ {0}
      BY RequestIsTyped, RetryIsLater
    <3>2. Holding(c) /\ Undoes(c, IF req[c].mode = "acquire" THEN "poll" ELSE "return",
                               RetryDelay(req[c].retry))
      BY <2>5 DEF Refused, Holding
    <3> QED
      BY <3>1, <3>2, UndoesFits
  <2>6. CASE ShortCircuit(c) \/ CallFails(c)
    <3>1. req[c].pc \in {"take", "calling"} /\ Holding(c)
          /\ (Passes(c, FALSE) \/ Undoes(c, "return", 0))
      BY <2>6 DEF ShortCircuit, CallFails, Unavailable, Holding
    <3> QED
      BY <3>1, PassesFits, UndoesFits
  <2>7. CASE Granted(c)
    <3>1. req[c].pc = "calling" /\ Passes(c, TRUE)
      BY <2>7 DEF Granted
    <3> QED
      BY <3>1, PassesFits
  <2>8. CASE PollCut(c) \/ ParkedGone(c) \/ LocalWake(c) \/ LocalGone(c) \/ Served(c)
             \/ Act(c) \/ CancelHeld(c)
    <3>1. Returns(c) /\ now' = now /\ config' = config
      BY <2>8 DEF PollCut, ParkedGone, LocalWake, LocalGone, Served, Act, CancelHeld,
                  Refuses, Admits
    <3> QED
      BY <3>1, ReturnFits
  <2>9. CASE Wake(c) \/ Park(c) \/ WaitShortCircuit(c) \/ WaitFails(c)
    <3>1. /\ now' = now /\ config' = config
          /\ \/ Goes(c, "take") /\ req[c].pc = "sleeping" /\ now >= req[c].till
             \/ /\ Goes(c, "parked") \/ Goes(c, "unavailable")
                /\ req[c].pc \in {"asking", "parked"}
      BY <2>9 DEF Wake, Park, WaitShortCircuit, WaitFails
    <3>2. req[c].pc \in {"asking", "parked"} => req[c].answer # "granted" /\ ~InHand(c)
      BY <2>2 DEF Fits, RequestAgrees, InHand, Holding
    <3> QED
      BY <3>1, <3>2, GoFits
  <2>10. CASE \/ \E mode \in Modes : Arrive(c, mode)
              \/ Reserve(c) \/ Call(c) \/ BackendTakes(c) \/ Undo(c) \/ PollAgain(c)
              \/ WaitFallback(c)
    BY <2>10, ArriveFits, ReserveFits, CallFits, BackendTakesFits, UndoFits, PollAgainFits,
       WaitLocallyFits
  <2> QED
    BY <2>1, <2>3, <2>4, <2>5, <2>6, <2>7, <2>8, <2>9, <2>10 DEF Step
<1> QED
  BY <1>1, <1>2
-----------------------------------------------------------------------------
(* What a step does to a shadow.                                           *)

\* The shadow's books stay as they are, and so does what the request has in hand.
Keeps(c) ==
    /\ UNCHANGED <<shadow, excess, unbacked>>
    /\ admitted' \in {admitted, admitted + 1}
    /\ InHand(c)' <=> InHand(c)
    /\ InHand(c) => req'[c].act = req[c].act

\* The request draws a token, as of t.
Draws(c, t) ==
    /\ ~InHand(c) /\ InHand(c)'
    /\ req'[c].act = TimeToAct(shadow[Home[c]], t)
    /\ shadow' = [shadow EXCEPT ![Home[c]] = ReserveAt(shadow[Home[c]], t)]
    /\ excess' = [excess EXCEPT ![Home[c]] = @ + AtLeast(0, shadow[Home[c]].last - t)]
    /\ UNCHANGED <<unbacked, admitted>>

\* It hands its token back, as of t.
GivesBack(c, t) ==
    /\ InHand(c) /\ ~InHand(c)'
    /\ shadow' = [shadow EXCEPT ![Home[c]] = CancelAt(shadow[Home[c]], req[c].act, t)]
    /\ Overpays(c, t)
    /\ UNCHANGED <<unbacked, admitted>>

\* It uses its token, which is due, with the backend's word or without.
Settles(c) ==
    /\ InHand(c) /\ ~InHand(c)' /\ req[c].act <= now
    /\ UNCHANGED <<shadow, excess>>
    /\ admitted' = admitted + 1
    /\ unbacked' \in {unbacked, [unbacked EXCEPT ![Home[c]] = @ + 1]}

\* It draws a token and uses it at once.
Spends(c) ==
    /\ ~InHand(c) /\ ~InHand(c)'
    /\ TimeToAct(shadow[Home[c]], now) = now
    /\ shadow' = [shadow EXCEPT ![Home[c]] = ReserveAt(shadow[Home[c]], now)]
    /\ admitted' = admitted + 1
    /\ unbacked' = [unbacked EXCEPT ![Home[c]] = @ + 1]
    /\ UNCHANGED excess

\* It goes ahead on FallbackAllow's word.
Frees(c) ==
    /\ ~InHand(c) /\ ~InHand(c)' /\ config.policy = "allow"
    /\ UNCHANGED <<shadow, excess>>
    /\ admitted' = admitted + 1
    /\ unbacked' = [unbacked EXCEPT ![Home[c]] = @ + 1]

OneOfSix(c) ==
    \/ Keeps(c)
    \/ \E t \in 0..MaxTime : t <= now /\ (Draws(c, t) \/ GivesBack(c, t))
    \/ Settles(c) \/ Spends(c) \/ Frees(c)

LEMMA ReturnEmpties ==
    ASSUME Ready, NEW c \in Callers, Returns(c)
    PROVE  ~InHand(c)' /\ req'[c].answer = "none" /\ req'[c].pc = "idle"
  BY DEF Returns, Ready, Idle, InHand, Holding

LEMMA UndoesKeeps ==
    ASSUME Ready, NEW c \in Callers, NEW then, NEW retry, Undoes(c, then, retry), Holding(c)
    PROVE  /\ Keeps(c)
           /\ req'[c].pc = "undo" /\ req'[c].answer = "none" /\ req'[c].act = req[c].act
           /\ req'[c].at = req[c].at
<1>1. /\ req'[c].pc = "undo" /\ req'[c].answer = "none" /\ req'[c].act = req[c].act
      /\ req'[c].at = req[c].at
  BY RequestIsTyped DEF Undoes, Ready, Requests
<1> QED
  BY <1>1 DEF Undoes, Keeps, InHand, Holding, tallies

LEMMA PassesMoves ==
    ASSUME Ready, NEW c \in Callers, NEW backed \in BOOLEAN, Passes(c, backed),
           UNCHANGED <<shadow, backend>>, req[c].pc \in {"take", "calling"}
    PROVE  OneOfSix(c)
<1>1. InHand(c) /\ Fits(c)
  BY DEF InHand, Holding, Ready
<1>2. CASE req[c].mode = "reserve"
  <2>1. req'[c].pc = "held" /\ req'[c].act = req[c].act /\ UNCHANGED tallies
    BY <1>2, RequestIsTyped DEF Passes, Holds, Ready, Requests
  <2> QED
    BY <1>1, <2>1 DEF Keeps, OneOfSix, InHand, Holding, tallies
<1>3. CASE req[c].mode # "reserve"
  <2>1. Admits(c, backed) /\ ~InHand(c)'
    BY <1>3, ReturnEmpties DEF Passes, Admits
  <2>2. req[c].act <= now
    BY <1>1 DEF Fits, RequestAgrees
  <2>3. admitted' = admitted + 1 /\ UNCHANGED excess
        /\ unbacked' \in {unbacked, [unbacked EXCEPT ![Home[c]] = @ + 1]}
    BY <2>1 DEF Admits
  <2> QED
    BY <1>1, <2>1, <2>2, <2>3 DEF Settles, OneOfSix
<1> QED
  BY <1>2, <1>3

LEMMA ShadowStep ==
    ASSUME Ready, Next
    PROVE  \/ Tick
           \/ \E c \in Callers :
                 /\ OneOfSix(c)
                 /\ now' = now /\ config' = config
                 /\ \A d \in Callers : d # c => req'[d] = req[d]
<1> SUFFICES ASSUME ~Tick
             PROVE  \E c \in Callers : /\ OneOfSix(c)
                                       /\ now' = now /\ config' = config
                                       /\ \A d \in Callers : d # c => req'[d] = req[d]
  OBVIOUS
<1>1. PICK c \in Callers :
         \/ \E mode \in Modes : Arrive(c, mode)
         \/ Step(c) \/ BackendTakes(c) \/ Served(c) \/ Act(c) \/ CancelHeld(c) \/ Leave(c)
  BY DEF Next
<1>2. Fits(c) /\ now \in Nat /\ now \in 0..MaxTime
  BY DEF Ready
<1>3. req[c].at \in 0..MaxTime /\ req[c].at <= now /\ now <= now
  BY <1>2, RequestIsTyped
<1>4. ASSUME Returns(c), UNCHANGED <<shadow, tallies>>, ~InHand(c)
      PROVE  OneOfSix(c)
  BY <1>4, ReturnEmpties DEF OneOfSix, Keeps, tallies
<1>5. CASE SleepCut(c) \/ CallerGone(c) \/ Refused(c)
  <2>1. Holding(c) /\ \E then, retry : Undoes(c, then, retry)
    BY <1>5 DEF SleepCut, CallerGone, Refused, Holding
  <2>2. OneOfSix(c)
    BY <2>1, UndoesKeeps DEF OneOfSix
  <2> QED
    BY <2>1, <2>2 DEF Undoes, Ready
<1>6. CASE ShortCircuit(c) \/ CallFails(c)
  <2>1. /\ req[c].pc \in {"take", "calling"} /\ Holding(c)
        /\ \/ Passes(c, FALSE) /\ UNCHANGED <<shadow, backend>>
           \/ Undoes(c, "return", 0)
    BY <1>6 DEF ShortCircuit, CallFails, Unavailable, Holding
  <2>2. OneOfSix(c)
    BY <2>1, PassesMoves, UndoesKeeps DEF OneOfSix
  <2> QED
    BY <2>1, <2>2 DEF Passes, Admits, Returns, Holds, Undoes, Ready
<1>7. CASE Granted(c)
  <2>1. req[c].pc = "calling" /\ Passes(c, TRUE) /\ UNCHANGED <<shadow, backend>>
    BY <1>7 DEF Granted
  <2>2. OneOfSix(c)
    BY <2>1, PassesMoves
  <2> QED
    BY <2>1, <2>2 DEF Passes, Admits, Returns, Holds, Ready
<1>8. CASE PollCut(c) \/ ParkedGone(c)
  <2>1. ~InHand(c) /\ Refuses(c)
    BY <1>8 DEF PollCut, ParkedGone, InHand, Holding
  <2> QED
    BY <1>4, <2>1 DEF Refuses, Returns, Ready
<1>9. CASE Served(c)
  <2>1. ~InHand(c) /\ Admits(c, TRUE) /\ UNCHANGED shadow
    BY <1>9 DEF Served, InHand, Holding
  <2>2. ~InHand(c)'
    BY <2>1, ReturnEmpties DEF Admits
  <2>3. OneOfSix(c)
    BY <2>1, <2>2 DEF Admits, OneOfSix, Keeps
  <2> QED
    BY <2>1, <2>3 DEF Admits, Returns, Ready
<1>10. CASE LocalWake(c) \/ Act(c)
  <2>1. /\ InHand(c) /\ UNCHANGED <<shadow, backend>> /\ req[c].act <= now
        /\ \E backed \in BOOLEAN : Admits(c, backed)
    <3>1. CASE LocalWake(c)
      BY <3>1, RequestIsTyped DEF LocalWake, InHand
    <3>2. CASE Act(c)
      <4>1. req[c].pc = "held" /\ now >= req[c].till /\ req[c].act <= req[c].till
        BY <1>2, <3>2 DEF Act, Fits, RequestAgrees
      <4>2. req[c].act <= now
        BY <1>2, <4>1, RequestIsTyped
      <4> QED
        BY <3>2, <4>1, <4>2 DEF Act, InHand, Holding
    <3> QED
      BY <1>10, <3>1, <3>2
  <2>2. ~InHand(c)'
    BY <2>1, ReturnEmpties DEF Admits
  <2>3. admitted' = admitted + 1 /\ UNCHANGED excess
        /\ unbacked' \in {unbacked, [unbacked EXCEPT ![Home[c]] = @ + 1]}
    BY <2>1 DEF Admits
  <2>4. OneOfSix(c)
    BY <2>1, <2>2, <2>3 DEF OneOfSix, Settles
  <2> QED
    BY <2>1, <2>4 DEF Admits, Returns, Ready
<1>11. CASE Undo(c) \/ CancelHeld(c) \/ LocalGone(c)
  <2>1. PICK t \in 0..MaxTime :
           /\ t <= now
           /\ shadow' = [shadow EXCEPT ![Home[c]] = CancelAt(shadow[Home[c]], req[c].act, t)]
           /\ Overpays(c, t)
    <3>1. CASE Undo(c)
      BY <1>3, <3>1 DEF Undo, Cancelled
    <3>2. CASE CancelHeld(c) \/ LocalGone(c)
      BY <1>2, <1>3, <3>2 DEF CancelHeld, LocalGone
    <3> QED
      BY <1>11, <3>1, <3>2
  <2>2. InHand(c) /\ UNCHANGED <<unbacked, admitted, now, config>>
    BY <1>11 DEF Undo, CancelHeld, LocalGone, InHand, Holding
  <2>3. ~InHand(c)' /\ \A d \in Callers : d # c => req'[d] = req[d]
    <3>1. CASE Returns(c)
      BY <3>1, ReturnEmpties DEF Returns, Ready
    <3>2. CASE ~Returns(c)
      <4>1. PICK n \in PollDelays(req[c].retry) :
               req' = [req EXCEPT ![c] = [Idle EXCEPT !.pc = "polling", !.mode = "acquire",
                                                      !.till = now + n]]
        BY <1>11, <3>2 DEF Undo, CancelHeld, LocalGone
      <4>2. [Idle EXCEPT !.pc = "polling", !.mode = "acquire", !.till = now + n].pc = "polling"
        BY IdleIsTyped DEF Requests
      <4>3. req'[c].pc = "polling"
        BY <4>1, <4>2 DEF Ready
      <4> QED
        BY <4>1, <4>3 DEF InHand, Holding, Ready
    <3> QED
      BY <3>1, <3>2
  <2>4. GivesBack(c, t)
    BY <2>1, <2>2, <2>3 DEF GivesBack
  <2> QED
    BY <2>1, <2>2, <2>3, <2>4 DEF OneOfSix
<1>12. CASE Reserve(c)
  <2>1. req'[c].act = TimeToAct(shadow[Home[c]], req[c].at) /\ InHand(c)'
    BY <1>12, ReserveFits DEF InHand, Holding
  <2>2. ~InHand(c)
    BY <1>12 DEF Reserve, InHand, Holding
  <2>3. Draws(c, req[c].at)
    BY <1>12, <2>1, <2>2 DEF Reserve, Draws
  <2> QED
    BY <1>3, <1>12, <2>3 DEF OneOfSix, Reserve, Ready
<1>13. CASE WaitFallback(c)
  <2>1. ~InHand(c) /\ now' = now /\ config' = config
        /\ \A d \in Callers : d # c => req'[d] = req[d]
    BY <1>13 DEF WaitFallback, WaitLocally, Refuses, Admits, Returns, InHand, Holding, Ready
  <2>2. CASE Refuses(c)
    BY <1>4, <2>1, <2>2 DEF Refuses
  <2>3. CASE config.policy = "allow" /\ Admits(c, FALSE) /\ UNCHANGED <<shadow, backend>>
             /\ ~InHand(c)'
    BY <2>1, <2>3 DEF Admits, Frees, OneOfSix
  <2>4. CASE /\ shadow' = [shadow EXCEPT ![Home[c]] = ReserveAt(shadow[Home[c]], now)]
             /\ TimeToAct(shadow[Home[c]], now) = now /\ Admits(c, FALSE) /\ ~InHand(c)'
    BY <2>1, <2>4 DEF Admits, Spends, OneOfSix
  <2>5. CASE /\ shadow' = [shadow EXCEPT ![Home[c]] = ReserveAt(shadow[Home[c]], now)]
             /\ req'[c].act = TimeToAct(shadow[Home[c]], now)
             /\ InHand(c)'
             /\ UNCHANGED tallies
    <3>1. excess' = [excess EXCEPT ![Home[c]] = @ + AtLeast(0, shadow[Home[c]].last - now)]
      <4>1. AtLeast(0, shadow[Home[c]].last - now) = 0
        BY <1>2, RequestIsTyped DEF AtLeast, Reservable
      <4> QED
        BY <2>5, <4>1 DEF tallies, Ready
    <3>2. Draws(c, now)
      BY <2>1, <2>5, <3>1 DEF Draws, tallies
    <3> QED
      BY <1>2, <1>3, <2>1, <3>2 DEF OneOfSix
  <2> QED
    BY <1>13, <2>2, <2>3, <2>4, <2>5, WaitLocallyFits
<1>14. CASE \/ \E mode \in Modes : Arrive(c, mode)
            \/ PollAgain(c) \/ Wake(c) \/ Park(c) \/ WaitShortCircuit(c) \/ WaitFails(c)
            \/ Call(c) \/ BackendTakes(c) \/ Leave(c)
  <2>1. /\ now' = now /\ config' = config
        /\ UNCHANGED <<shadow, tallies>> /\ \A d \in Callers : d # c => req'[d] = req[d]
    BY <1>14 DEF Arrive, PollAgain, Wake, Park, WaitShortCircuit, WaitFails, Call,
                 BackendTakes, Leave, Goes, Ready
  <2>2. (InHand(c)' <=> InHand(c)) /\ (InHand(c) => req'[c].act = req[c].act)
    <3>1. CASE Wake(c) \/ Park(c) \/ WaitShortCircuit(c) \/ WaitFails(c)
      BY <3>1, RequestIsTyped DEF Wake, Park, WaitShortCircuit, WaitFails, Goes, Ready,
                                  InHand, Holding, Requests
    <3>2. CASE Call(c)
      BY <3>2, RequestIsTyped DEF Call, Ready, InHand, Holding, Requests
    <3>3. CASE BackendTakes(c)
      <4>1. req'[c].pc = req[c].pc /\ req'[c].act = req[c].act
        BY <3>3, RequestIsTyped DEF BackendTakes, Ready, Requests
      <4> QED
        BY <4>1 DEF InHand, Holding
    <3>4. CASE Leave(c)
      BY <3>4 DEF Leave, InHand, Holding
    <3>5. CASE PollAgain(c) \/ \E mode \in Modes : Arrive(c, mode)
      <4>1. ~InHand(c)
        BY <3>5 DEF PollAgain, Arrive, InHand, Holding
      <4>2. req'[c].pc \in {"arrived", "asking"}
        <5>1. CASE PollAgain(c)
          BY <5>1, IdleIsTyped DEF PollAgain, Ready, Requests
        <5>2. CASE \E mode \in Modes : Arrive(c, mode)
          <6>1. PICK mode \in Modes : Arrive(c, mode)
            BY <5>2
          <6> DEFINE stage == IF mode = "acquire" /\ config.parks THEN "asking" ELSE "arrived"
          <6>2. req'[c] = [Idle EXCEPT !.mode = mode, !.at = now, !.pc = stage]
            BY <6>1 DEF Arrive, Ready
          <6>3. stage \in {"arrived", "asking"}
            OBVIOUS
          <6> HIDE DEF stage
          <6>4. [Idle EXCEPT !.mode = mode, !.at = now, !.pc = stage].pc = stage
            BY IdleIsTyped DEF Requests
          <6> QED
            BY <6>2, <6>3, <6>4
        <5> QED
          BY <3>5, <5>1, <5>2
      <4> QED
        BY <4>1, <4>2 DEF InHand, Holding
    <3> QED
      BY <1>14, <3>1, <3>2, <3>3, <3>4, <3>5
  <2> QED
    BY <2>1, <2>2 DEF OneOfSix, Keeps, tallies
<1> QED
  BY <1>1, <1>5, <1>6, <1>7, <1>8, <1>9, <1>10, <1>11, <1>12, <1>13, <1>14 DEF Step
-----------------------------------------------------------------------------
(* Types.                                                                  *)

LEMMA ShadowIsTyped ==
    ASSUME TypeOK, RequestsAgree, Next
    PROVE  /\ shadow' \in [Replicas -> Reservable]
           /\ \A r \in Replicas : shadow'[r].tokens <= Burst /\ shadow'[r].last <= now'
           /\ admitted' \in Nat
           /\ unbacked' \in [Replicas -> 0..admitted']
           /\ excess' \in [Replicas -> Nat]
<1>1. Ready
  BY TypedIsReady
<1>2. /\ now \in Nat /\ shadow \in [Replicas -> Reservable]
      /\ \A r \in Replicas : shadow[r].tokens <= Burst /\ shadow[r].last \in Int
                             /\ shadow[r].last <= now
      /\ admitted \in Nat /\ unbacked \in [Replicas -> 0..admitted]
      /\ excess \in [Replicas -> Nat]
  BY Constants DEF TypeOK, Reservable
<1>3. CASE Tick
  BY <1>2, <1>3 DEF Tick, tallies
<1>4. ASSUME NEW c \in Callers, OneOfSix(c), now' = now
      PROVE  /\ shadow' \in [Replicas -> Reservable]
             /\ \A r \in Replicas : shadow'[r].tokens <= Burst /\ shadow'[r].last <= now'
             /\ admitted' \in Nat
             /\ unbacked' \in [Replicas -> 0..admitted']
             /\ excess' \in [Replicas -> Nat]
  <2>1. Home[c] \in Replicas /\ req[c].act \in Nat
    BY <1>1, RequestIsTyped
  <2>2. ASSUME NEW x \in Reservable, x.tokens <= Burst, x.last <= now,
               shadow' = [shadow EXCEPT ![Home[c]] = x]
        PROVE  /\ shadow' \in [Replicas -> Reservable]
               /\ \A r \in Replicas : shadow'[r].tokens <= Burst /\ shadow'[r].last <= now'
    BY <1>2, <1>4, <2>1, <2>2
  <2>3. /\ admitted' \in {admitted, admitted + 1}
        /\ \/ unbacked' = unbacked
           \/ /\ admitted' = admitted + 1
              /\ unbacked' = [unbacked EXCEPT ![Home[c]] = @ + 1]
    BY <1>4 DEF OneOfSix, Keeps, Draws, GivesBack, Settles, Spends, Frees
  <2>4. admitted' \in Nat /\ unbacked' \in [Replicas -> 0..admitted']
    <3>1. \A r \in Replicas : unbacked[r] \in 0..admitted /\ unbacked[r] + 1 \in 0..admitted + 1
                              /\ unbacked[r] \in 0..admitted + 1
      BY <1>2
    <3> QED
      BY <1>2, <2>1, <2>3, <3>1
  <2>5. CASE Keeps(c) \/ Settles(c) \/ Frees(c)
    BY <1>2, <1>4, <2>4, <2>5 DEF Keeps, Settles, Frees
  <2>6. CASE \E s \in 0..MaxTime : s <= now /\ Draws(c, s)
    <3>1. PICK s \in 0..MaxTime : s <= now /\ Draws(c, s)
      BY <2>6
    <3>2. s \in Nat
      BY <3>1, Constants
    <3>3. LET x == ReserveAt(shadow[Home[c]], s) IN
          x \in Reservable /\ x.tokens <= Burst /\ x.last <= now
      BY <1>2, <2>1, <3>1, <3>2, Drawing
    <3>4. AtLeast(0, shadow[Home[c]].last - s) \in Nat
      BY <1>2, <2>1, <3>2 DEF AtLeast
    <3>5. excess' = [excess EXCEPT ![Home[c]] = @ + AtLeast(0, shadow[Home[c]].last - s)]
          /\ shadow' = [shadow EXCEPT ![Home[c]] = ReserveAt(shadow[Home[c]], s)]
      BY <3>1 DEF Draws
    <3>6. excess' \in [Replicas -> Nat]
      <4> DEFINE n == AtLeast(0, shadow[Home[c]].last - s)
      <4>1. excess' = [excess EXCEPT ![Home[c]] = @ + n] /\ n \in Nat
        BY <3>4, <3>5
      <4> HIDE DEF n
      <4> QED
        BY <1>2, <2>1, <4>1
    <3> QED
      BY <2>2, <2>4, <3>3, <3>5, <3>6
  <2>7. CASE \E s \in 0..MaxTime : s <= now /\ GivesBack(c, s)
    <3>1. PICK s \in 0..MaxTime : s <= now /\ GivesBack(c, s)
      BY <2>7
    <3>2. s \in Nat
      BY <3>1, Constants
    <3> DEFINE x == CancelAt(shadow[Home[c]], req[c].act, s)
               n == IF x = shadow[Home[c]] THEN 0
                    ELSE AtLeast(0, shadow[Home[c]].last - s)
                         + AtLeast(0, req[c].act - shadow[Home[c]].event)
    <3>3. x \in Reservable /\ x.tokens <= Burst /\ x.last \in {shadow[Home[c]].last, s}
      BY <1>2, <2>1, <3>1, <3>2, Cancelling
    <3>4. n \in Nat
      <4>1. shadow[Home[c]].last \in Int /\ shadow[Home[c]].event \in Int
        BY <1>2, <2>1 DEF Reservable
      <4>2. AtLeast(0, shadow[Home[c]].last - s) \in Nat
            /\ AtLeast(0, req[c].act - shadow[Home[c]].event) \in Nat
        BY <2>1, <3>2, <4>1 DEF AtLeast
      <4> HIDE DEF x
      <4> QED
        BY <4>2
    <3>5. excess' = [excess EXCEPT ![Home[c]] = @ + n] /\ shadow' = [shadow EXCEPT ![Home[c]] = x]
      BY <3>1 DEF GivesBack, Overpays
    <3> HIDE DEF n, x
    <3>6. excess' \in [Replicas -> Nat]
      BY <1>2, <2>1, <3>4, <3>5
    <3>7. x.last <= now
      BY <1>2, <2>1, <3>1, <3>3
    <3> QED
      BY <2>2, <2>4, <3>3, <3>5, <3>6, <3>7
  <2>8. CASE Spends(c)
    <3>1. LET x == ReserveAt(shadow[Home[c]], now) IN
          x \in Reservable /\ x.tokens <= Burst /\ x.last <= now
      BY <1>2, <2>1, Drawing
    <3>2. excess' = excess /\ shadow' = [shadow EXCEPT ![Home[c]] = ReserveAt(shadow[Home[c]], now)]
      BY <2>8 DEF Spends
    <3> QED
      BY <1>2, <2>2, <2>4, <3>1, <3>2
  <2> QED
    BY <1>4, <2>5, <2>6, <2>7, <2>8 DEF OneOfSix
<1> QED
  BY <1>1, <1>3, <1>4, ShadowStep

LEMMA BackendStep ==
    ASSUME Ready, Next
    PROVE  \/ backend' = backend
           \/ /\ TokensAt(backend, now) >= Cost
              /\ backend' = [tokens |-> TokensAt(backend, now) - Cost, last |-> now]
              /\ now' = now
<1>1. CASE Tick
  BY <1>1 DEF Tick
<1>2. ASSUME NEW c \in Callers,
             \/ \E mode \in Modes : Arrive(c, mode)
             \/ Act(c) \/ CancelHeld(c) \/ Leave(c)
             \/ Step(c)
      PROVE  backend' = backend
  <2>1. CASE Step(c) /\ ~WaitFallback(c)
    BY <2>1 DEF Step, Reserve, Wake, SleepCut, ShortCircuit, Call, Granted, Refused, CallerGone,
       CallFails, Undo, PollAgain, PollCut, Park, WaitShortCircuit, ParkedGone, WaitFails,
       LocalWake, LocalGone, Undoes, Unavailable, Refuses
  <2>2. CASE WaitFallback(c)
    BY <2>2 DEF WaitFallback, WaitLocally, Refuses
  <2>3. CASE ~Step(c)
    BY <1>2, <2>3 DEF Arrive, Act, CancelHeld, Leave
  <2> QED
    BY <2>1, <2>2, <2>3
<1>3. ASSUME NEW c \in Callers, BackendTakes(c) \/ Served(c)
      PROVE  \/ backend' = backend
             \/ /\ TokensAt(backend, now) >= Cost
                /\ backend' = [tokens |-> TokensAt(backend, now) - Cost, last |-> now]
                /\ now' = now
  BY <1>3 DEF BackendTakes, Served, Admits
<1> QED
  BY <1>1, <1>2, <1>3 DEF Next

\* Who is counted, and whose context is done.
LEMMA CallersStep ==
    ASSUME Next
    PROVE  /\ requests' = requests \/ (requests < MaxRequests /\ requests' = requests + 1)
           /\ left' = left \/ \E c \in Callers : left' = left \ {c} \/ left' = left \cup {c}
<1>1. CASE Tick
  BY <1>1 DEF Tick
<1>2. CASE ~Tick
  <2>1. PICK c \in Callers :
           \/ \E mode \in Modes : Arrive(c, mode)
           \/ Step(c) \/ BackendTakes(c) \/ Served(c) \/ Act(c) \/ CancelHeld(c) \/ Leave(c)
    BY <1>2 DEF Next
  <2> DEFINE Out == requests' = requests /\ (left' = left \/ left' = left \ {c})
  <2>2. \A how \in BOOLEAN : (Refuses(c) \/ Admits(c, how) \/ Passes(c, how)) => Out
    BY DEF Refuses, Admits, Returns, Passes, Holds
  <2>3. \A then, retry : Undoes(c, then, retry) => Out
    BY DEF Undoes
  <2>4. CASE SleepCut(c) \/ CallerGone(c) \/ Refused(c)
    BY <2>3, <2>4 DEF SleepCut, CallerGone, Refused
  <2>5. CASE ShortCircuit(c) \/ CallFails(c)
    BY <2>2, <2>3, <2>5 DEF ShortCircuit, CallFails, Unavailable
  <2>6. CASE Granted(c) \/ PollCut(c) \/ ParkedGone(c) \/ LocalWake(c) \/ Served(c) \/ Act(c)
    BY <2>2, <2>6 DEF Granted, PollCut, ParkedGone, LocalWake, Served, Act
  <2>7. CASE WaitFallback(c)
    <3>1. Refuses(c) \/ Admits(c, FALSE) \/ UNCHANGED <<requests, left>>
      BY <2>7 DEF WaitFallback, WaitLocally
    <3> QED
      BY <2>2, <3>1
  <2>8. CASE LocalGone(c) \/ CancelHeld(c) \/ Undo(c)
    BY <2>8 DEF LocalGone, CancelHeld, Undo, Returns
  <2>9. CASE Reserve(c) \/ Wake(c) \/ Call(c) \/ PollAgain(c) \/ Park(c) \/ WaitShortCircuit(c)
             \/ WaitFails(c) \/ BackendTakes(c) \/ Leave(c)
    BY <2>9 DEF Reserve, Wake, Call, PollAgain, Park, WaitShortCircuit, WaitFails,
                BackendTakes, Leave
  <2>10. CASE \E mode \in Modes : Arrive(c, mode)
    BY <2>10 DEF Arrive
  <2> QED
    BY <2>1, <2>4, <2>5, <2>6, <2>7, <2>8, <2>9, <2>10 DEF Step
<1> QED
  BY <1>1, <1>2

LEMMA TypeStep ==
    ASSUME TypeOK, RequestsAgree, Next
    PROVE  TypeOK' /\ RequestsAgree' /\ Ready'
<1>1. Ready
  BY TypedIsReady
<1>2. req' \in [Callers -> Requests] /\ \A d \in Callers : Fits(d)'
  BY <1>1, RequestStep
<1>3. now' \in 0..MaxTime /\ config' \in Configs /\ now' >= now /\ now' \in Nat
  <2>1. now \in 0..MaxTime /\ config \in Configs /\ now \in Nat
    BY <1>1 DEF Ready
  <2>2. (now' = now \/ Tick) /\ config' = config
    BY <1>1, ShadowStep DEF Tick
  <2> QED
    BY <2>1, <2>2, Constants DEF Tick
<1>4. backend' \in [tokens : 0..Burst, last : 0..now']
  <2>1. backend \in [tokens : 0..Burst, last : 0..now] /\ now \in Nat
    BY <1>1 DEF TypeOK, Ready
  <2>2. backend \in [tokens : 0..Burst, last : 0..now']
    BY <1>3, <2>1
  <2>3. TokensAt(backend, now) \in 0..Burst
    BY <1>1, BackendHolds
  <2> HIDE DEF TokensAt
  <2>4. TokensAt(backend, now) >= Cost => TokensAt(backend, now) - Cost \in 0..Burst
    BY <2>3, Constants
  <2> QED
    BY <1>1, <2>1, <2>2, <2>4, BackendStep
<1>5. requests' \in 0..MaxRequests
  <2>1. requests \in 0..MaxRequests /\ MaxRequests \in Nat
    BY Constants DEF TypeOK
  <2>2. requests' = requests \/ (requests < MaxRequests /\ requests' = requests + 1)
    BY CallersStep
  <2> QED
    BY <2>1, <2>2
<1>6. left' \subseteq Callers
  <2>1. left \subseteq Callers
    BY DEF TypeOK
  <2>2. \/ left' = left \/ \E c \in Callers : left' = left \ {c} \/ left' = left \cup {c}
    BY CallersStep
  <2> QED
    BY <2>1, <2>2
<1>7. \A c \in Callers : /\ req'[c].at <= now'
                         /\ Holding(c)' \/ req'[c].pc = "local" => req'[c].at <= req'[c].act
                         /\ req'[c].then = "poll" => req'[c].retry > 0
  BY <1>2 DEF Fits, InHand
<1>8. TypeOK'
  BY <1>2, <1>3, <1>4, <1>5, <1>6, <1>7, ShadowIsTyped DEF TypeOK
<1>9. RequestsAgree'
  BY <1>2 DEF RequestsAgree, Fits
<1>10. (TypeOK /\ RequestsAgree => Ready)'
  BY TypedIsReady, PTL
<1> QED
  BY <1>8, <1>9, <1>10
-----------------------------------------------------------------------------
(* FallbackLocal: a replica admits no more than its shadow pays for.       *)

\* One token more costs Cost more, and fewer cost no more.
LEMMA Costs ==
    /\ \A n \in Nat : Cost * n \in Nat /\ Cost * (n + 1) = Cost * n + Cost
    /\ \A m, n \in Nat : m <= n => Cost * m <= Cost * n
<1>1. ASSUME NEW n \in Nat
      PROVE  Cost * n \in Nat /\ Cost * (n + 1) = Cost * n + Cost
  BY Constants
<1>2. ASSUME NEW m \in Nat, NEW n \in Nat, m <= n
      PROVE  Cost * m <= Cost * n
  BY <1>2, Constants
<1> QED
  BY <1>1, <1>2

LEMMA DrawnIsFinite ==
    ASSUME NEW r
    PROVE  /\ IsFiniteSet(Drawn(r)) /\ Cardinality(Drawn(r)) \in Nat
           /\ \A e : /\ IsFiniteSet(DrawnBy(r, e)) /\ Cardinality(DrawnBy(r, e)) \in Nat
                     /\ Cardinality(DrawnBy(r, e)) <= Cardinality(Drawn(r))
<1>1. Drawn(r) \subseteq Callers /\ IsFiniteSet(Callers)
  BY Constants DEF Drawn
<1>2. IsFiniteSet(Drawn(r))
  BY <1>1, FS_Subset
<1>3. ASSUME NEW e
      PROVE  /\ IsFiniteSet(DrawnBy(r, e)) /\ Cardinality(DrawnBy(r, e)) \in Nat
             /\ Cardinality(DrawnBy(r, e)) <= Cardinality(Drawn(r))
  <2>1. DrawnBy(r, e) \subseteq Drawn(r)
    BY DEF DrawnBy
  <2> QED
    BY <1>2, <2>1, FS_Subset, FS_CardinalityType
<1> QED
  BY <1>2, <1>3, FS_CardinalityType

\* A set that gains an element, and one that loses it.
LEMMA Gains ==
    ASSUME NEW S, NEW T, NEW c, IsFiniteSet(S), c \notin S, c \in T,
           \A d : d # c => (d \in T <=> d \in S)
    PROVE  Cardinality(T) = Cardinality(S) + 1
<1>1. T = S \cup {c}
  OBVIOUS
<1> QED
  BY <1>1, FS_AddElement

LEMMA Loses ==
    ASSUME NEW S, NEW T, NEW c, IsFiniteSet(S), c \in S, c \notin T,
           \A d : d # c => (d \in T <=> d \in S)
    PROVE  Cardinality(T) = Cardinality(S) - 1
<1>1. T = S \ {c}
  OBVIOUS
<1> QED
  BY <1>1, FS_RemoveElement

\* What is in hand after a step, of those the step is not about.
LEMMA OthersInHand ==
    ASSUME NEW c \in Callers, \A d \in Callers : d # c => req'[d] = req[d], NEW r
    PROVE  /\ \A d : d # c => (d \in Drawn(r)' <=> d \in Drawn(r))
           /\ \A e, d : d # c => (d \in DrawnBy(r, e)' <=> d \in DrawnBy(r, e))
           /\ \A e : c \in DrawnBy(r, e) <=> c \in Drawn(r) /\ req[c].act <= e
           /\ \A e : c \in DrawnBy(r, e)' <=> c \in Drawn(r)' /\ req'[c].act <= e
           /\ c \in Drawn(r) <=> Home[c] = r /\ InHand(c)
           /\ c \in Drawn(r)' <=> Home[c] = r /\ InHand(c)'
<1>1. /\ c \in Drawn(r) <=> Home[c] = r /\ InHand(c)
      /\ c \in Drawn(r)' <=> Home[c] = r /\ InHand(c)'
  BY DEF Drawn, InHand
<1>2. ASSUME NEW d, d # c
      PROVE  d \in Drawn(r)' <=> d \in Drawn(r)
  <2>1. CASE d \in Callers
    BY <1>2, <2>1 DEF Drawn, Holding
  <2>2. CASE d \notin Callers
    BY <2>2 DEF Drawn
  <2> QED
    BY <2>1, <2>2
<1>3. ASSUME NEW e, NEW d, d # c
      PROVE  d \in DrawnBy(r, e)' <=> d \in DrawnBy(r, e)
  <2>1. CASE d \in Callers
    BY <1>2, <1>3, <2>1 DEF DrawnBy
  <2>2. CASE d \notin Callers
    BY <2>2 DEF DrawnBy, Drawn
  <2> QED
    BY <2>1, <2>2
<1>4. \A e : /\ c \in DrawnBy(r, e) <=> c \in Drawn(r) /\ req[c].act <= e
             /\ c \in DrawnBy(r, e)' <=> c \in Drawn(r)' /\ req'[c].act <= e
  BY DEF DrawnBy
<1> QED
  BY <1>1, <1>2, <1>3, <1>4
\* The books of a replica: whole numbers.
LEMMA BooksAreNumbers ==
    ASSUME TypeOK, NEW r \in Replicas
    PROVE  /\ unbacked[r] \in Nat /\ excess[r] \in Nat /\ Horizon(r) \in Int
           /\ shadow[r] \in Reservable
           /\ shadow[r].tokens \in Int /\ shadow[r].last \in Int /\ shadow[r].event \in Int
           /\ shadow[r].tokens <= Burst /\ shadow[r].last <= now /\ now \in Nat
<1>1. /\ shadow[r] \in Reservable /\ shadow[r].tokens <= Burst /\ shadow[r].last <= now
      /\ now \in Nat /\ excess[r] \in Nat /\ unbacked[r] \in 0..admitted /\ admitted \in Nat
  BY Constants DEF TypeOK
<1>2. shadow[r].tokens \in Int /\ shadow[r].last \in Int /\ shadow[r].event \in Int
  BY <1>1 DEF Reservable
<1> QED
  BY <1>1, <1>2 DEF Horizon

\* Where no more is drawn and the shadow is no fuller, the books hold.
LEMMA NoMoreDrawn ==
    ASSUME NEW u \in Nat, NEW v \in Nat, NEW m \in Nat, NEW n \in Nat, u + m <= v + n,
           NEW bound \in Int, NEW limit \in Int, Cost * (v + n) <= bound, bound <= limit
    PROVE  Cost * (u + m) <= limit
<1>1. u + m \in Nat /\ v + n \in Nat
  OBVIOUS
<1>2. Cost * (u + m) <= Cost * (v + n) /\ Cost * (u + m) \in Nat /\ Cost * (v + n) \in Nat
  BY <1>1, Costs
<1> QED
  BY <1>2

LEMMA OtherReplicasKeep ==
    ASSUME TypeOK, NEW c \in Callers, OneOfSix(c), now' = now,
           \A d \in Callers : d # c => req'[d] = req[d],
           NEW r \in Replicas, r # Home[c], ReplicaAccounts(r)
    PROVE  ReplicaAccounts(r)'
<1>1. /\ shadow \in [Replicas -> Reservable] /\ unbacked \in [Replicas -> 0..admitted]
      /\ excess \in [Replicas -> Nat]
  BY DEF TypeOK
<1>2. shadow'[r] = shadow[r] /\ unbacked'[r] = unbacked[r] /\ excess'[r] = excess[r]
  <2>1. ASSUME NEW s \in 0..MaxTime, Draws(c, s) \/ GivesBack(c, s)
        PROVE  shadow'[r] = shadow[r] /\ unbacked'[r] = unbacked[r] /\ excess'[r] = excess[r]
    BY <1>1, <2>1 DEF Draws, GivesBack, Overpays
  <2>2. ASSUME Keeps(c) \/ Settles(c) \/ Spends(c) \/ Frees(c)
        PROVE  shadow'[r] = shadow[r] /\ unbacked'[r] = unbacked[r] /\ excess'[r] = excess[r]
    BY <1>1, <2>2 DEF Keeps, Settles, Spends, Frees
  <2> QED
    BY <2>1, <2>2 DEF OneOfSix
<1>3. /\ \A d : d \in Drawn(r)' <=> d \in Drawn(r)
      /\ \A e, d : d \in DrawnBy(r, e)' <=> d \in DrawnBy(r, e)
  <2>1. /\ \A d : d # c => (d \in Drawn(r)' <=> d \in Drawn(r))
        /\ \A e, d : d # c => (d \in DrawnBy(r, e)' <=> d \in DrawnBy(r, e))
        /\ c \notin Drawn(r) /\ c \notin Drawn(r)'
        /\ \A e : c \notin DrawnBy(r, e) /\ c \notin DrawnBy(r, e)'
    BY OthersInHand
  <2> QED
    BY <2>1
<1>4. Drawn(r)' = Drawn(r)
  BY <1>3
<1>5. \A e : DrawnBy(r, e)' = DrawnBy(r, e)
  BY <1>3
<1> QED
  BY <1>2, <1>4, <1>5 DEF ReplicaAccounts, Horizon

\* The step of one of its own requests.
LEMMA OwnReplicaKeeps ==
    ASSUME TypeOK, RequestsAgree, TypeOK', NEW c \in Callers, OneOfSix(c), ~Frees(c),
           now' = now,
           \A d \in Callers : d # c => req'[d] = req[d],
           ReplicaAccounts(Home[c])
    PROVE  ReplicaAccounts(Home[c])'
<1> DEFINE r == Home[c]
<1>1. r \in Replicas /\ Ready /\ req[c].act \in Nat
  BY Constants, TypedIsReady, RequestIsTyped
<1>2. PICK u \in Nat, x \in Nat, h \in Int :
         unbacked[r] = u /\ excess[r] = x /\ Horizon(r) = h
  BY <1>1, BooksAreNumbers
<1>3. PICK v \in Nat, y \in Nat, k \in Int :
         unbacked'[r] = v /\ excess'[r] = y /\ Horizon(r)' = k
  <2>1. /\ shadow'[r] \in Reservable /\ excess'[r] \in Nat
        /\ unbacked'[r] \in 0..admitted' /\ admitted' \in Nat
    BY <1>1, Constants DEF TypeOK
  <2>2. shadow'[r].tokens \in Int /\ shadow'[r].last \in Int
    BY <2>1 DEF Reservable
  <2> QED
    BY <2>1, <2>2 DEF Horizon
<1>4. PICK n \in Nat : Cardinality(Drawn(r)) = n
  BY DrawnIsFinite
<1>5. /\ \A d : d # c => (d \in Drawn(r)' <=> d \in Drawn(r))
      /\ \A e, d : d # c => (d \in DrawnBy(r, e)' <=> d \in DrawnBy(r, e))
      /\ \A e : c \in DrawnBy(r, e) <=> InHand(c) /\ req[c].act <= e
      /\ \A e : c \in DrawnBy(r, e)' <=> InHand(c)' /\ req'[c].act <= e
      /\ c \in Drawn(r) <=> InHand(c)
      /\ c \in Drawn(r)' <=> InHand(c)'
  BY OthersInHand
<1>6. /\ IsFiniteSet(Drawn(r)) /\ \A e : IsFiniteSet(DrawnBy(r, e))
      /\ \A e : Cardinality(DrawnBy(r, e)) \in Nat /\ Cardinality(DrawnBy(r, e)) <= n
  BY <1>4, DrawnIsFinite
<1>7. /\ Cost * (u + n) <= Burst + h + x
      /\ \A e \in now..MaxTime : Cost * (u + Cardinality(DrawnBy(r, e))) <= Burst + e + x
  BY <1>2, <1>4 DEF ReplicaAccounts
<1>8. now \in Nat /\ Burst \in Nat /\ Cost \in Nat /\ MaxTime \in Nat
      /\ \A e \in now..MaxTime : e \in Nat /\ e >= now
  BY <1>1, Constants DEF Ready
<1> HIDE DEF r
<1>9. SUFFICES \E m \in Nat :
                  /\ Cardinality(Drawn(r)') = m /\ Cost * (v + m) <= Burst + k + y
                  /\ \A e \in now..MaxTime :
                        Cost * (v + Cardinality(DrawnBy(r, e)')) <= Burst + e + y
  BY <1>3 DEF ReplicaAccounts, r
<1>10. CASE Keeps(c)
  <2>1. v = u /\ y = x /\ k = h
    BY <1>2, <1>3, <1>10 DEF Keeps, Horizon
  <2>2. Drawn(r)' = Drawn(r) /\ \A e : DrawnBy(r, e)' = DrawnBy(r, e)
    BY <1>5, <1>10 DEF Keeps
  <2> QED
    BY <1>4, <1>7, <2>1, <2>2
<1>11. CASE Settles(c)
  <2>1. y = x /\ k = h /\ v <= u + 1
    <3>1. unbacked \in [Replicas -> 0..admitted]
      BY DEF TypeOK
    <3>2. unbacked'[r] = unbacked[r] \/ unbacked'[r] = unbacked[r] + 1
      BY <1>1, <1>11, <3>1 DEF Settles, r
    <3> QED
      BY <1>2, <1>3, <1>11, <3>2 DEF Settles, Horizon
  <2>2. Cardinality(Drawn(r)') = n - 1
    BY <1>4, <1>5, <1>6, <1>11, Loses DEF Settles
  <2>3. n - 1 \in Nat
    BY <1>5, <1>6, <1>4, <1>11, FS_EmptySet DEF Settles
  <2>4. ASSUME NEW e \in now..MaxTime
        PROVE  Cost * (v + Cardinality(DrawnBy(r, e)')) <= Burst + e + x
    <3>1. PICK p \in Nat : p = Cardinality(DrawnBy(r, e))
      BY <1>6
    <3>2. req[c].act <= e
      BY <1>1, <1>8, <1>11, <2>4 DEF Settles
    <3>3. Cardinality(DrawnBy(r, e)') = p - 1
      BY <1>5, <1>6, <1>11, <3>1, <3>2, Loses DEF Settles
    <3>4. p - 1 \in Nat
      BY <1>5, <1>6, <1>11, <3>1, <3>2, FS_EmptySet DEF Settles
    <3>5. Cost * (u + p) <= Burst + e + x
      BY <1>7, <3>1
    <3>6. v + (p - 1) <= u + p
      BY <2>1, <3>4
    <3>7. Burst + e + x \in Int /\ Burst + e + x <= Burst + e + x
      BY <1>8, <2>4
    <3>8. Cost * (v + (p - 1)) <= Burst + e + x
      BY <3>4, <3>5, <3>6, <3>7, NoMoreDrawn
    <3> QED
      BY <3>3, <3>8
  <2>5. Cost * (v + (n - 1)) <= Burst + h + x
    <3>1. v + (n - 1) <= u + n /\ Burst + h + x \in Int
      BY <1>8, <2>1, <2>3
    <3> QED
      BY <1>7, <2>3, <3>1, NoMoreDrawn
  <2> QED
    BY <2>1, <2>2, <2>3, <2>4, <2>5
<1>12. CASE \E s \in 0..MaxTime : s <= now /\ Draws(c, s)
  <2>1. PICK s \in 0..MaxTime : s <= now /\ Draws(c, s)
    BY <1>12
  <2> DEFINE z == ReserveAt(shadow[r], s)
  <2>2. s \in Nat /\ shadow[r] \in Reservable /\ shadow[r].tokens <= Burst
        /\ shadow[r].last \in Int
    BY <1>1, <1>8, <2>1, BooksAreNumbers
  <2>3. shadow'[r] = z /\ v = u
    BY <1>1, <1>2, <1>3, <2>1 DEF Draws, TypeOK, r
  <2>4. y = x + AtLeast(0, shadow[r].last - s)
    BY <1>1, <1>2, <1>3, <2>1 DEF Draws, TypeOK, r
  <2>5. req'[c].act = TimeToAct(shadow[r], s)
    BY <2>1 DEF Draws, r
  <2>6. /\ k = z.last - z.tokens /\ z.last - z.tokens <= req'[c].act
        /\ z.last - z.tokens >= h + Cost - AtLeast(0, shadow[r].last - s)
    BY <1>2, <1>3, <2>2, <2>3, <2>5, Drawing DEF Horizon
  <2>7. k >= h + Cost - (y - x) /\ k <= req'[c].act /\ y >= x /\ req'[c].act \in Nat
    <3>1. PICK a \in Nat : a = AtLeast(0, shadow[r].last - s)
      BY <2>2 DEF AtLeast
    <3>2. req'[c].act \in Nat
      BY <2>2, <2>5, Drawing
    <3>3. k >= h + Cost - a /\ y = x + a
      BY <2>4, <2>6, <3>1
    <3> QED
      BY <1>8, <2>6, <3>2, <3>3
  <2>8. Cardinality(Drawn(r)') = n + 1
    BY <1>4, <1>5, <1>6, <2>1, Gains DEF Draws
  <2>9. Cost * (u + (n + 1)) <= Burst + k + y
    <3>3. u + n \in Nat
      OBVIOUS
    <3>1. Cost * ((u + n) + 1) = Cost * (u + n) + Cost /\ Cost * (u + n) \in Nat
      BY <3>3, Costs
    <3>2. (u + n) + 1 = u + (n + 1)
      OBVIOUS
    <3> QED
      BY <1>7, <1>8, <2>7, <3>1, <3>2
  <2>10. ASSUME NEW e \in now..MaxTime
         PROVE  Cost * (v + Cardinality(DrawnBy(r, e)')) <= Burst + e + y
    <3>1. PICK p \in Nat : p = Cardinality(DrawnBy(r, e)) /\ p <= n
      BY <1>6
    <3>2. CASE req'[c].act <= e
      <4>1. Cardinality(DrawnBy(r, e)') = p + 1
        BY <1>5, <1>6, <2>1, <3>1, <3>2, Gains DEF Draws
      <4>2. u + (p + 1) <= u + (n + 1)
        BY <3>1
      <4>3. Burst + k + y <= Burst + e + y /\ Burst + k + y \in Int /\ Burst + e + y \in Int
        BY <1>8, <2>7, <2>10, <3>2
      <4>4. p + 1 \in Nat /\ n + 1 \in Nat
        OBVIOUS
      <4>5. Cost * (u + (p + 1)) <= Burst + e + y
        BY <2>9, <4>2, <4>3, <4>4, NoMoreDrawn
      <4> QED
        BY <2>3, <4>1, <4>5
    <3>3. CASE ~(req'[c].act <= e)
      <4>1. DrawnBy(r, e)' = DrawnBy(r, e)
        BY <1>5, <2>1, <3>3 DEF Draws
      <4>2. Cost * (u + p) <= Burst + e + x /\ Burst + e + x <= Burst + e + y
            /\ Cost * (u + p) \in Nat
        <5>1. u + p \in Nat
          OBVIOUS
        <5>2. Cost * (u + p) \in Nat
          BY <5>1, Costs
        <5> QED
          BY <1>7, <1>8, <2>7, <3>1, <5>2
      <4>3. Cost * (u + p) <= Burst + e + y
        BY <1>8, <2>10, <4>2
      <4> QED
        BY <2>3, <3>1, <4>1, <4>3
    <3> QED
      BY <3>2, <3>3
  <2> QED
    BY <2>3, <2>8, <2>9, <2>10
<1>13. CASE Spends(c)
  <2> DEFINE z == ReserveAt(shadow[r], now)
  <2>1. shadow[r] \in Reservable /\ shadow[r].tokens <= Burst /\ shadow[r].last \in Int
        /\ shadow[r].last <= now
    BY <1>1, BooksAreNumbers
  <2>2. shadow'[r] = z /\ v = u + 1 /\ y = x /\ TimeToAct(shadow[r], now) = now
    BY <1>1, <1>2, <1>3, <1>13 DEF Spends, TypeOK, r
  <2>3. k >= h + Cost /\ k <= now
    <3>1. AtLeast(0, shadow[r].last - now) = 0
      BY <1>8, <2>1 DEF AtLeast
    <3>2. /\ k = z.last - z.tokens /\ z.last - z.tokens <= TimeToAct(shadow[r], now)
          /\ z.last - z.tokens >= h + Cost - AtLeast(0, shadow[r].last - now)
      BY <1>2, <1>3, <1>8, <2>1, <2>2, Drawing DEF Horizon
    <3> QED
      BY <1>8, <2>2, <3>1, <3>2
  <2>4. Drawn(r)' = Drawn(r) /\ \A e : DrawnBy(r, e)' = DrawnBy(r, e)
    BY <1>5, <1>13 DEF Spends
  <2>5. Cost * (v + n) <= Burst + k + y
    <3>1. Cost * ((u + n) + 1) = Cost * (u + n) + Cost /\ Cost * (u + n) \in Nat
      BY <1>2, <1>4, Costs
    <3>2. (u + n) + 1 = v + n
      BY <2>2
    <3> QED
      BY <1>7, <1>8, <2>2, <2>3, <3>1, <3>2
  <2>6. ASSUME NEW e \in now..MaxTime
        PROVE  Cost * (v + Cardinality(DrawnBy(r, e)')) <= Burst + e + y
    <3>1. PICK p \in Nat : p = Cardinality(DrawnBy(r, e)) /\ p <= n
      BY <1>6
    <3>2. v + p <= v + n /\ Burst + k + y <= Burst + e + y
          /\ Burst + k + y \in Int /\ Burst + e + y \in Int
      BY <1>8, <2>3, <2>6, <3>1
    <3> QED
      BY <2>4, <2>5, <3>1, <3>2, NoMoreDrawn
  <2> QED
    BY <1>4, <2>4, <2>5, <2>6
<1>14. CASE \E s \in 0..MaxTime : s <= now /\ GivesBack(c, s)
  <2>1. PICK s \in 0..MaxTime : s <= now /\ GivesBack(c, s)
    BY <1>14
  <2> DEFINE z == CancelAt(shadow[r], req[c].act, s)
  <2>2. /\ s \in Nat /\ shadow[r] \in Reservable /\ shadow[r].tokens <= Burst
        /\ shadow[r].last \in Int /\ shadow[r].event \in Int
    BY <1>1, <1>8, <2>1, BooksAreNumbers
  <2>3. shadow'[r] = z /\ v = u
    BY <1>1, <1>2, <1>3, <2>1 DEF GivesBack, TypeOK, r
  <2>4. y = x + (IF z = shadow[r] THEN 0
                 ELSE AtLeast(0, shadow[r].last - s) + AtLeast(0, req[c].act - shadow[r].event))
    BY <1>1, <1>2, <1>3, <2>1 DEF GivesBack, Overpays, TypeOK, r
  <2>5. \/ z = shadow[r]
        \/ z.last - z.tokens >= h - Cost - (AtLeast(0, shadow[r].last - s)
                                            + AtLeast(0, req[c].act - shadow[r].event))
    BY <1>1, <1>2, <2>2, Cancelling DEF Horizon
  <2>6. k = z.last - z.tokens
    BY <1>3, <2>3 DEF Horizon
  <2>7. k + y >= h + x - Cost /\ y >= x
    <3>1. PICK a \in Nat : a = AtLeast(0, shadow[r].last - s)
                               + AtLeast(0, req[c].act - shadow[r].event)
      BY <1>1, <2>2 DEF AtLeast
    <3>2. CASE z = shadow[r]
      <4>1. k = h /\ y = x
        BY <1>2, <2>4, <2>6, <3>2 DEF Horizon
      <4> QED
        BY <1>8, <4>1
    <3>3. CASE z # shadow[r]
      <4>1. y = x + a /\ k >= h - Cost - a
        BY <2>4, <2>5, <2>6, <3>1, <3>3
      <4> QED
        BY <1>8, <4>1
    <3> QED
      BY <3>2, <3>3
  <2>8. Cardinality(Drawn(r)') = n - 1
    BY <1>4, <1>5, <1>6, <2>1, Loses DEF GivesBack
  <2>9. n - 1 \in Nat
    BY <1>5, <1>6, <1>4, <2>1, FS_EmptySet DEF GivesBack
  <2>10. Cost * (v + (n - 1)) <= Burst + k + y
    <3>1. Cost * ((u + (n - 1)) + 1) = Cost * (u + (n - 1)) + Cost /\ Cost * (u + (n - 1)) \in Nat
      BY <1>2, <2>9, Costs
    <3>2. (u + (n - 1)) + 1 = u + n
      OBVIOUS
    <3> QED
      BY <1>7, <1>8, <2>3, <2>7, <3>1, <3>2
  <2>11. ASSUME NEW e \in now..MaxTime
         PROVE  Cost * (v + Cardinality(DrawnBy(r, e)')) <= Burst + e + y
    <3>1. PICK p \in Nat : p = Cardinality(DrawnBy(r, e)) /\ p <= n
      BY <1>6
    <3>2. \E q \in Nat : Cardinality(DrawnBy(r, e)') = q /\ q <= p
      <4>1. CASE c \in DrawnBy(r, e)
        <5>1. c \notin DrawnBy(r, e)'
          BY <1>5, <2>1 DEF GivesBack
        <5>2. Cardinality(DrawnBy(r, e)') = p - 1
          BY <1>5, <1>6, <3>1, <4>1, <5>1, Loses
        <5>3. p - 1 \in Nat
          BY <1>6, <3>1, <4>1, FS_EmptySet
        <5> QED
          BY <5>2, <5>3
      <4>2. CASE c \notin DrawnBy(r, e)
        <5>1. c \notin DrawnBy(r, e)'
          BY <1>5, <2>1 DEF GivesBack
        <5>2. DrawnBy(r, e)' = DrawnBy(r, e)
          BY <1>5, <4>2, <5>1
        <5> QED
          BY <3>1, <5>2
      <4> QED
        BY <4>1, <4>2
    <3>3. PICK q \in Nat : Cardinality(DrawnBy(r, e)') = q /\ q <= p
      BY <3>2
    <3>4. Cost * (u + p) <= Burst + e + x /\ Burst + e + x <= Burst + e + y
          /\ Burst + e + x \in Int /\ Burst + e + y \in Int /\ v + q <= u + p
      BY <1>7, <1>8, <2>3, <2>7, <2>11, <3>1, <3>3
    <3> QED
      BY <3>3, <3>4, NoMoreDrawn
  <2> QED
    BY <2>8, <2>9, <2>10, <2>11
<1> QED
  BY <1>10, <1>11, <1>12, <1>13, <1>14 DEF OneOfSix

LEMMA FallbackStep ==
    ASSUME TypeOK, RequestsAgree, FallbackAccounts, TypeOK', Next
    PROVE  FallbackAccounts'
<1>1. Ready
  BY TypedIsReady
<1>2. config' = config
  BY <1>1, ShadowStep DEF Tick
<1>3. SUFFICES ASSUME config.policy = "fallback", NEW r \in Replicas, ReplicaAccounts(r)
               PROVE  ReplicaAccounts(r)'
  BY <1>2 DEF FallbackAccounts
<1>4. CASE Tick
  <2>1. /\ shadow' = shadow /\ req' = req /\ unbacked' = unbacked /\ excess' = excess
        /\ now' = now + 1
    BY <1>4 DEF Tick, tallies
  <2>2. Drawn(r)' = Drawn(r) /\ \A e : DrawnBy(r, e)' = DrawnBy(r, e)
    BY <2>1 DEF Drawn, DrawnBy, Holding
  <2>3. Horizon(r)' = Horizon(r)
    BY <2>1 DEF Horizon
  <2>4. \A e \in now'..MaxTime : e \in now..MaxTime
    BY <1>1, <2>1, Constants DEF Ready
  <2> QED
    BY <1>3, <2>1, <2>2, <2>3, <2>4 DEF ReplicaAccounts
<1>5. ASSUME NEW c \in Callers, OneOfSix(c), now' = now,
             \A d \in Callers : d # c => req'[d] = req[d]
      PROVE  ReplicaAccounts(r)'
  <2>1. ~Frees(c)
    BY <1>3 DEF Frees
  <2>2. CASE r = Home[c]
    BY <1>3, <1>5, <2>1, <2>2, OwnReplicaKeeps
  <2>3. CASE r # Home[c]
    BY <1>3, <1>5, <2>3, OtherReplicasKeep
  <2> QED
    BY <2>2, <2>3
<1> QED
  BY <1>1, <1>4, <1>5, ShadowStep
-----------------------------------------------------------------------------
(* Deny: nothing goes ahead without the backend's word.                    *)

Denies == config.policy = "deny" /\ "reserve" \notin Modes

Has(c) == req[c].answer = "granted"

\* The shared bucket gives a token.
Gives ==
    /\ TokensAt(backend, now) >= Cost
    /\ backend' = [tokens |-> TokensAt(backend, now) - Cost, last |-> now]

\* The request has no token of its shadow in hand, or uses the backend's.
Rests(c) ==
    /\ UNCHANGED <<shadow, backend, unbacked>>
    /\ ~Holding(c) \/ Has(c)
    /\ ~Holding(c)' /\ ~Has(c)'
    /\ admitted' = admitted \/ (Has(c) /\ admitted' = admitted + 1)
    /\ req'[c].pc = "arrived" => req'[c].at = now \/ req'[c] = req[c]

\* It keeps the token of its shadow, and has at most the grant it had.
GoesOn(c) ==
    /\ UNCHANGED <<shadow, backend, admitted, unbacked>>
    /\ Holding(c) /\ Holding(c)'
    /\ Has(c)' => Has(c)
    /\ req'[c].at = req[c].at /\ req'[c].act = req[c].act

\* The backend grants it one.
Wins(c) ==
    /\ Gives /\ UNCHANGED <<shadow, admitted, unbacked>>
    /\ Holding(c) /\ Holding(c)' /\ ~Has(c) /\ Has(c)'
    /\ req'[c].at = req[c].at /\ req'[c].act = req[c].act

\* The backend serves one that waits there.
IsServed(c) ==
    /\ Gives /\ UNCHANGED <<shadow, unbacked>>
    /\ ~Holding(c) /\ ~Holding(c)' /\ ~Has(c) /\ ~Has(c)'
    /\ req'[c].pc # "arrived"
    /\ admitted' = admitted + 1

\* It asks its shadow, or hands the shadow its token back.
AsksShadow(c) ==
    /\ Reserve(c) /\ UNCHANGED <<backend, admitted, unbacked>>
    /\ ~Holding(c) /\ Holding(c)' /\ ~Has(c) /\ ~Has(c)'
    /\ req'[c].at = req[c].at /\ req'[c].act = TimeToAct(shadow[Home[c]], req[c].at)

TellsShadow(c) ==
    /\ Undo(c) /\ UNCHANGED <<backend, admitted, unbacked>>
    /\ Holding(c) /\ ~Holding(c)' /\ ~Has(c) /\ ~Has(c)'
    /\ req'[c].pc # "arrived"

Denied(c) ==
    \/ Rests(c) \/ GoesOn(c) \/ Wins(c) \/ IsServed(c) \/ AsksShadow(c) \/ TellsShadow(c)

LEMMA DenyMoves ==
    ASSUME Ready, Next, Denies
    PROVE  \/ Tick
           \/ \E c \in Callers :
                 /\ Denied(c)
                 /\ now' = now /\ config' = config
                 /\ \A d \in Callers : d # c => req'[d] = req[d]
<1> SUFFICES ASSUME ~Tick
             PROVE  \E c \in Callers : /\ Denied(c)
                                       /\ now' = now /\ config' = config
                                       /\ \A d \in Callers : d # c => req'[d] = req[d]
  OBVIOUS
<1>1. PICK c \in Callers :
         \/ \E mode \in Modes : Arrive(c, mode)
         \/ Step(c) \/ BackendTakes(c) \/ Served(c) \/ Act(c) \/ CancelHeld(c) \/ Leave(c)
  BY DEF Next
<1>2. Fits(c) /\ req[c].mode # "reserve" /\ req[c].pc \notin {"held", "local"} /\ ~Proceeds
  BY RequestIsTyped DEF Ready, Denies, Fits, RequestAgrees, Proceeds
<1>3. Has(c) => req[c].pc = "calling" /\ Holding(c)
  BY <1>2 DEF Has, Fits, RequestAgrees, Holding
<1>4. ASSUME Refuses(c), ~Holding(c) \/ Has(c)
      PROVE  Rests(c)
  BY <1>4, ReturnEmpties DEF Refuses, Rests, tallies, InHand, Has
<1>5. CASE SleepCut(c) \/ CallerGone(c) \/ Refused(c) \/ ShortCircuit(c) \/ CallFails(c)
  <2>1. Holding(c) /\ \E then, retry : Undoes(c, then, retry)
    BY <1>2, <1>5 DEF SleepCut, CallerGone, Refused, ShortCircuit, CallFails, Unavailable, Holding
  <2>2. /\ req'[c].pc = "undo" /\ req'[c].answer = "none" /\ req'[c].act = req[c].act
        /\ req'[c].at = req[c].at
    BY <2>1, UndoesKeeps
  <2>3. GoesOn(c)
    BY <2>1, <2>2 DEF Undoes, GoesOn, Holding, Has, tallies
  <2> QED
    BY <2>1, <2>3 DEF Undoes, Ready, Denied
<1>6. CASE Granted(c)
  <2>1. Has(c) /\ Admits(c, TRUE) /\ UNCHANGED <<shadow, backend>>
    BY <1>2, <1>6 DEF Granted, Passes, Has
  <2>2. Rests(c)
    BY <2>1, ReturnEmpties DEF Admits, Rests, InHand, Has
  <2> QED
    BY <2>1, <2>2 DEF Admits, Returns, Ready, Denied
<1>7. CASE PollCut(c) \/ ParkedGone(c) \/ WaitFallback(c)
  <2>1. ~Holding(c) /\ Refuses(c)
    BY <1>7 DEF PollCut, ParkedGone, WaitFallback, Holding, Denies
  <2> QED
    BY <1>4, <2>1 DEF Refuses, Returns, Ready, Denied
<1>8. CASE Served(c)
  <2>1. ~Holding(c) /\ Admits(c, TRUE) /\ Gives /\ UNCHANGED shadow
    BY <1>8 DEF Served, Gives, Holding
  <2>2. IsServed(c)
    BY <1>3, <2>1, ReturnEmpties DEF Admits, IsServed, InHand, Has
  <2> QED
    BY <2>1, <2>2 DEF Admits, Returns, Ready, Denied
<1>9. CASE LocalWake(c) \/ LocalGone(c) \/ Act(c) \/ CancelHeld(c)
  BY <1>2, <1>9 DEF LocalWake, LocalGone, Act, CancelHeld
<1>10. CASE Reserve(c)
  <2>1. /\ req'[c].act = TimeToAct(shadow[Home[c]], req[c].at) /\ Holding(c)'
        /\ req'[c].at = req[c].at /\ req'[c].answer = req[c].answer
    BY <1>10, ReserveFits DEF Holding
  <2>2. ~Holding(c)
    BY <1>10 DEF Reserve, Holding
  <2>3. AsksShadow(c)
    BY <1>3, <1>10, <2>1, <2>2 DEF Reserve, AsksShadow, Has
  <2> QED
    BY <1>10, <2>3 DEF Reserve, Ready, Denied
<1>11. CASE Undo(c)
  <2>1. Holding(c) /\ ~Has(c)
    BY <1>3, <1>11 DEF Undo, Holding
  <2>2. /\ req'[c].pc \in {"idle", "polling"} /\ req'[c].answer = "none"
        /\ \A d \in Callers : d # c => req'[d] = req[d]
    <3>1. CASE Returns(c)
      BY <3>1, ReturnEmpties DEF Returns, Ready
    <3>2. CASE ~Returns(c)
      <4>1. PICK n \in PollDelays(req[c].retry) :
               req' = [req EXCEPT ![c] = [Idle EXCEPT !.pc = "polling", !.mode = "acquire",
                                                      !.till = now + n]]
        BY <1>11, <3>2 DEF Undo
      <4> DEFINE h == [Idle EXCEPT !.pc = "polling", !.mode = "acquire", !.till = now + n]
      <4>2. h.pc = "polling" /\ h.answer = "none"
        BY IdleIsTyped DEF Requests
      <4>3. req' = [req EXCEPT ![c] = h] /\ req'[c] = h
        BY <4>1 DEF Ready
      <4> HIDE DEF h
      <4> QED
        BY <4>2, <4>3 DEF Ready
    <3> QED
      BY <3>1, <3>2
  <2>3. TellsShadow(c)
    BY <1>11, <2>1, <2>2 DEF Undo, TellsShadow, Holding, Has
  <2> QED
    BY <1>11, <2>2, <2>3 DEF Undo, Denied
<1>12. CASE Wake(c) \/ Park(c) \/ WaitShortCircuit(c) \/ WaitFails(c)
  <2>1. /\ UNCHANGED <<now, config, shadow, backend, admitted, unbacked>>
        /\ \A d \in Callers : d # c => req'[d] = req[d]
    BY <1>12 DEF Wake, Park, WaitShortCircuit, WaitFails, Goes, Ready, tallies
  <2>2. PICK stage \in {"take", "parked", "unavailable"} :
           Goes(c, stage) /\ (stage = "take" <=> Wake(c))
    BY <1>12 DEF Wake, Park, WaitShortCircuit, WaitFails
  <2>3. /\ req'[c].pc = stage /\ req'[c].at = req[c].at /\ req'[c].act = req[c].act
        /\ req'[c].answer = req[c].answer
    BY <2>2, RequestIsTyped DEF Goes, Ready, Requests
  <2>4. CASE Wake(c)
    <3>1. GoesOn(c)
      BY <2>1, <2>2, <2>3, <2>4 DEF Wake, GoesOn, Holding, Has
    <3> QED
      BY <2>1, <3>1 DEF Denied
  <2>5. CASE ~Wake(c)
    <3>1. ~Holding(c) /\ ~Holding(c)'
      BY <1>12, <2>2, <2>3, <2>5 DEF Park, WaitShortCircuit, WaitFails, Holding
    <3>2. Rests(c)
      BY <1>3, <2>1, <2>2, <2>3, <2>5, <3>1 DEF Rests, Has
    <3> QED
      BY <2>1, <3>2 DEF Denied
  <2> QED
    BY <2>4, <2>5
<1>13. CASE Call(c) \/ BackendTakes(c)
  <2>1. /\ UNCHANGED <<now, config, shadow, admitted, unbacked>> /\ Holding(c)
        /\ \A d \in Callers : d # c => req'[d] = req[d]
    BY <1>13 DEF Call, BackendTakes, Ready, tallies, Holding
  <2>2. /\ req'[c].pc = "calling" /\ req'[c].at = req[c].at /\ req'[c].act = req[c].act
        /\ \/ ~Has(c)' /\ backend' = backend
           \/ BackendTakes(c) /\ Gives /\ Has(c)'
    <3>1. CASE Call(c)
      BY <3>1, RequestIsTyped DEF Call, Ready, Requests, Has
    <3>2. CASE BackendTakes(c)
      BY <3>2, RequestIsTyped DEF BackendTakes, Ready, Requests, Has, Gives
    <3> QED
      BY <1>13, <3>1, <3>2
  <2>3. CASE ~Has(c)' /\ backend' = backend
    <3>1. GoesOn(c)
      BY <2>1, <2>2, <2>3 DEF GoesOn, Holding
    <3> QED
      BY <2>1, <3>1 DEF Denied
  <2>4. CASE BackendTakes(c) /\ Gives /\ Has(c)'
    <3>1. ~Has(c)
      BY <2>4 DEF BackendTakes, Has
    <3>2. Wins(c)
      BY <2>1, <2>2, <2>4, <3>1 DEF Wins, Holding
    <3> QED
      BY <2>1, <3>2 DEF Denied
  <2> QED
    BY <2>2, <2>3, <2>4
<1>14. CASE Leave(c)
  <2>1. UNCHANGED <<now, config, shadow, backend, admitted, unbacked, req>>
    BY <1>14 DEF Leave, tallies
  <2>2. CASE Holding(c)
    <3>1. GoesOn(c)
      BY <2>1, <2>2 DEF GoesOn, Holding, Has
    <3> QED
      BY <2>1, <3>1 DEF Denied
  <2>3. CASE ~Holding(c)
    <3>1. Rests(c)
      BY <1>3, <2>1, <2>3 DEF Rests, Holding, Has
    <3> QED
      BY <2>1, <3>1 DEF Denied
  <2> QED
    BY <2>2, <2>3
<1>15. CASE PollAgain(c) \/ \E mode \in Modes : Arrive(c, mode)
  <2>1. /\ UNCHANGED <<now, config, shadow, backend, admitted, unbacked>> /\ ~Holding(c)
        /\ \A d \in Callers : d # c => req'[d] = req[d]
    BY <1>15 DEF PollAgain, Arrive, Ready, tallies, Holding
  <2>2. req'[c].pc \in {"arrived", "asking"} /\ req'[c].at = now /\ req'[c].answer = "none"
    <3>1. CASE PollAgain(c)
      BY <3>1, IdleIsTyped DEF PollAgain, Ready, Requests
    <3>2. CASE \E mode \in Modes : Arrive(c, mode)
      <4>1. PICK mode \in Modes : Arrive(c, mode)
        BY <3>2
      <4> DEFINE stage == IF mode = "acquire" /\ config.parks THEN "asking" ELSE "arrived"
                 h == [Idle EXCEPT !.mode = mode, !.at = now, !.pc = stage]
      <4>2. req'[c] = h
        BY <4>1 DEF Arrive, Ready
      <4>3. stage \in {"arrived", "asking"}
        OBVIOUS
      <4> HIDE DEF stage
      <4>4. h.pc = stage /\ h.at = now /\ h.answer = "none"
        BY IdleIsTyped DEF Requests
      <4> QED
        BY <4>2, <4>3, <4>4
    <3> QED
      BY <1>15, <3>1, <3>2
  <2>3. Rests(c)
    BY <2>1, <2>2 DEF Rests, Holding, Has
  <2> QED
    BY <2>1, <2>3 DEF Denied
<1> QED
  BY <1>1, <1>5, <1>6, <1>7, <1>8, <1>9, <1>10, <1>11, <1>12, <1>13, <1>14, <1>15 DEF Step

\* A tick fills a bucket by one.
LEMMA Refilling ==
    ASSUME NEW b, b.tokens \in Int, b.last \in Int, NEW t \in Int, b.last <= t
    PROVE  TokensAt(b, t + 1) = AtMost(Burst, TokensAt(b, t) + 1)
<1>1. /\ TokensAt(b, t) = AtMost(Burst, b.tokens + AtLeast(0, t - b.last))
      /\ TokensAt(b, t + 1) = AtMost(Burst, b.tokens + AtLeast(0, (t + 1) - b.last))
  BY Reading
<1> QED
  BY <1>1, Constants DEF AtMost, AtLeast

LEMMA BackendTicks ==
    ASSUME Ready, Tick
    PROVE  TokensAt(backend, now)' = AtMost(Burst, TokensAt(backend, now) + 1)
<1>1. backend' = backend /\ now' = now + 1 /\ now \in Int
  BY DEF Tick, Ready
<1>2. TokensAt(backend, now)' = TokensAt(backend, now + 1)
  BY <1>1 DEF TokensAt
<1> QED
  BY <1>1, <1>2, BackendHolds, Refilling

LEMMA BackendGives ==
    ASSUME Ready, Gives, now' = now
    PROVE  TokensAt(backend, now)' = TokensAt(backend, now) - Cost
<1>1. now \in Int /\ TokensAt(backend, now) \in 0..Burst
  BY BackendHolds DEF Ready
<1> DEFINE n == TokensAt(backend, now) - Cost
           b == [tokens |-> n, last |-> now]
<1>2. n \in Int /\ n <= Burst
  BY <1>1, Constants
<1>3. TokensAt(backend, now)' = TokensAt(b, now)
  BY DEF Gives, TokensAt
<1> HIDE DEF n
<1>4. TokensAt(b, now) = AtMost(Burst, n + AtLeast(0, now - now))
  BY <1>1, <1>2, Reading
<1>5. TokensAt(b, now) = n
  BY <1>1, <1>2, <1>4, Constants DEF AtMost, AtLeast
<1> QED
  BY <1>3, <1>5 DEF n

LEMMA DeniedBooks ==
    ASSUME NEW c, Denied(c)
    PROVE  \/ backend' = backend /\ admitted' = admitted /\ (Has(c)' => Has(c))
           \/ backend' = backend /\ admitted' = admitted + 1 /\ Has(c) /\ ~Has(c)'
           \/ Gives /\ admitted' = admitted /\ ~Has(c) /\ Has(c)'
           \/ Gives /\ admitted' = admitted + 1 /\ ~Has(c) /\ ~Has(c)'
<1>1. CASE Rests(c)
  BY <1>1 DEF Rests
<1>2. CASE GoesOn(c)
  BY <1>2 DEF GoesOn
<1>3. CASE Wins(c)
  BY <1>3 DEF Wins
<1>4. CASE IsServed(c)
  BY <1>4 DEF IsServed
<1>5. CASE AsksShadow(c) \/ TellsShadow(c)
  BY <1>5 DEF AsksShadow, TellsShadow
<1> QED
  BY <1>1, <1>2, <1>3, <1>4, <1>5 DEF Denied

\* Whatever fails, what is admitted and what is promised has left the bucket.
LEMMA DenyStep ==
    ASSUME TypeOK, RequestsAgree, DenyAccounts, Next
    PROVE  DenyAccounts'
<1>1. Ready /\ admitted \in Nat
  BY TypedIsReady DEF TypeOK
<1>2. config' = config
  BY <1>1, ShadowStep DEF Tick
<1>3. SUFFICES ASSUME Denies
               PROVE  Cost * (admitted + Cardinality(Promised))' + TokensAt(backend, now)'
                          <= Burst + now'
  BY <1>2 DEF DenyAccounts, Denies
<1>4. PICK B \in Nat : B = TokensAt(backend, now) /\ B <= Burst
  BY <1>1, BackendHolds, Constants
<1>5. Promised \subseteq Callers /\ IsFiniteSet(Promised)
  BY Constants, FS_Subset DEF Promised
<1>6. PICK p \in Nat : p = Cardinality(Promised)
  BY <1>5, FS_CardinalityType
<1>7. Cost * (admitted + p) + B <= Burst + now /\ now \in Nat /\ Burst \in Nat /\ Cost \in Nat
  BY <1>1, <1>3, <1>4, <1>6, Constants DEF DenyAccounts, Denies, Ready
<1>8. admitted + p \in Nat /\ Cost * (admitted + p) \in Nat
      /\ Cost * ((admitted + p) + 1) = Cost * (admitted + p) + Cost
  <2>1. admitted + p \in Nat
    BY <1>1
  <2> QED
    BY <2>1, Costs
<1>9. CASE Tick
  <2>1. admitted' = admitted /\ Promised' = Promised /\ now' = now + 1
    BY <1>9 DEF Tick, tallies, Promised
  <2>2. TokensAt(backend, now)' = AtMost(Burst, B + 1)
    BY <1>1, <1>4, <1>9, BackendTicks
  <2>3. AtMost(Burst, B + 1) <= B + 1 /\ AtMost(Burst, B + 1) \in Int
    BY <1>7 DEF AtMost
  <2> QED
    BY <1>6, <1>7, <1>8, <2>1, <2>2, <2>3
<1>10. ASSUME NEW c \in Callers, Denied(c), now' = now,
              \A d \in Callers : d # c => req'[d] = req[d]
       PROVE  Cost * (admitted + Cardinality(Promised))' + TokensAt(backend, now)' <= Burst + now'
  <2>1. /\ \A d : d # c => (d \in Promised' <=> d \in Promised)
        /\ c \in Promised <=> Has(c)
        /\ c \in Promised' <=> Has(c)'
    BY <1>10 DEF Promised, Has
  <2>2. ASSUME NEW n \in Nat, admitted' + Cardinality(Promised') = n, n <= admitted + p,
               TokensAt(backend, now)' = B
        PROVE  Cost * (admitted + Cardinality(Promised))' + TokensAt(backend, now)' <= Burst + now'
    <3>1. Cost * n <= Cost * (admitted + p) /\ Cost * n \in Nat
      BY <1>8, <2>2, Costs
    <3> QED
      BY <1>7, <1>8, <1>10, <2>2, <3>1
  <2>3. ASSUME admitted' + Cardinality(Promised') = (admitted + p) + 1,
               TokensAt(backend, now)' = B - Cost
        PROVE  Cost * (admitted + Cardinality(Promised))' + TokensAt(backend, now)' <= Burst + now'
    BY <1>7, <1>8, <1>10, <2>3
  <2>4. Gives => TokensAt(backend, now)' = B - Cost
    BY <1>1, <1>4, <1>10, BackendGives
  <2>5. backend' = backend => TokensAt(backend, now)' = B
    BY <1>4, <1>10 DEF TokensAt
  <2>6. CASE Has(c) /\ ~Has(c)'
    <3>1. Cardinality(Promised') = p - 1 /\ p - 1 \in Nat
      BY <1>5, <1>6, <2>1, <2>6, Loses, FS_EmptySet
    <3>2. backend' = backend /\ (admitted' = admitted \/ admitted' = admitted + 1)
      BY <1>10, <2>6, DeniedBooks
    <3>3. admitted' + (p - 1) \in Nat /\ admitted' + (p - 1) <= admitted + p
      BY <1>1, <3>1, <3>2
    <3> QED
      BY <2>2, <2>5, <3>1, <3>2, <3>3
  <2>7. CASE ~Has(c) /\ Has(c)'
    <3>1. Cardinality(Promised') = p + 1
      BY <1>5, <1>6, <2>1, <2>7, Gains
    <3>2. Gives /\ admitted' = admitted
      BY <1>10, <2>7, DeniedBooks
    <3>3. admitted' + (p + 1) = (admitted + p) + 1
      BY <1>1, <3>2
    <3> QED
      BY <2>3, <2>4, <3>1, <3>2, <3>3
  <2>8. CASE Has(c) <=> Has(c)'
    <3>1. Promised' = Promised
      BY <2>1, <2>8
    <3>2. \/ backend' = backend /\ admitted' = admitted
          \/ Gives /\ admitted' = admitted + 1
      BY <1>10, <2>8, DeniedBooks
    <3>3. CASE backend' = backend /\ admitted' = admitted
      BY <1>6, <1>8, <2>2, <2>5, <3>1, <3>3
    <3>4. CASE Gives /\ admitted' = admitted + 1
      <4>1. admitted' + p = (admitted + p) + 1
        BY <1>1, <3>4
      <4> QED
        BY <1>6, <2>3, <2>4, <3>1, <3>4, <4>1
    <3> QED
      BY <3>2, <3>3, <3>4
  <2> QED
    BY <2>6, <2>7, <2>8
<1> QED
  BY <1>1, <1>3, <1>9, <1>10, DenyMoves
-----------------------------------------------------------------------------
(* Deny, one request at a time in a replica: the shadow bounds the backend. *)

Shadow(r) == TokensAt(shadow[r], now)

\* What ShadowCovers says of one request and its replica.
Covered(c) ==
    /\ \/ Shadow(Home[c]) >= TokensAt(backend, now)
       \/ Holding(c) /\ ~Has(c) /\ Shadow(Home[c]) + Cost >= TokensAt(backend, now)
    /\ req[c].pc = "arrived" => shadow[Home[c]].last <= req[c].at
    /\ Holding(c) => shadow[Home[c]].last = req[c].at /\ shadow[Home[c]].event = req[c].act

\* A shadow that is asked at a past instant is short of its token, and no more.
LEMMA AskedShadow ==
    ASSUME NEW b \in Reservable, b.tokens <= Burst, NEW t \in Nat, NEW n \in Nat,
           b.last <= t, t <= n
    PROVE  TokensAt(ReserveAt(b, t), n) + Cost >= TokensAt(b, n)
<1>1. b.tokens \in Int /\ b.last \in Int
  BY DEF Reservable
<1>2. TokensAt(b, t) = AtMost(Burst, b.tokens + AtLeast(0, t - b.last))
      /\ TokensAt(b, n) = AtMost(Burst, b.tokens + AtLeast(0, n - b.last))
  BY <1>1, Reading
<1> DEFINE x == ReserveAt(b, t)
<1>3. x.tokens = TokensAt(b, t) - Cost /\ x.last = t /\ x \in Reservable
  BY Drawing
<1>4. x.tokens \in Int /\ x.last \in Int
  BY <1>3 DEF Reservable
<1>5. TokensAt(x, n) = AtMost(Burst, x.tokens + AtLeast(0, n - x.last))
  BY <1>4, Reading
<1> HIDE DEF x
<1>6. TokensAt(x, n) + Cost >= TokensAt(b, n)
  BY <1>1, <1>2, <1>3, <1>5, Constants DEF AtMost, AtLeast
<1> QED
  BY <1>6 DEF x

\* One that is told of it at that instant has the token again.
LEMMA ToldShadow ==
    ASSUME NEW b \in Reservable, b.tokens <= Burst, NEW t \in Nat, NEW n \in Nat, t <= n,
           NEW act \in Nat, t <= act, b.last = t, b.event = act
    PROVE  LET y == CancelAt(b, act, t) IN
           TokensAt(y, n) >= TokensAt(b, n) + Cost \/ TokensAt(y, n) = Burst
<1> DEFINE y == CancelAt(b, act, t)
<1>1. b.tokens \in Int /\ b.last \in Int
  BY DEF Reservable
<1>2. TokensAt(b, t) = AtMost(Burst, b.tokens + AtLeast(0, t - b.last))
      /\ TokensAt(b, n) = AtMost(Burst, b.tokens + AtLeast(0, n - b.last))
  BY <1>1, Reading
<1>3. y.last = t /\ y.tokens = AtMost(Burst, TokensAt(b, t) + Cost) /\ y \in Reservable
  BY Cancelling
<1>4. y.tokens \in Int /\ y.last \in Int
  BY <1>3 DEF Reservable
<1>5. TokensAt(y, n) = AtMost(Burst, y.tokens + AtLeast(0, n - y.last))
  BY <1>4, Reading
<1> HIDE DEF y
<1>6. TokensAt(y, n) >= TokensAt(b, n) + Cost \/ TokensAt(y, n) = Burst
  BY <1>1, <1>2, <1>3, <1>5, Constants DEF AtMost, AtLeast
<1> QED
  BY <1>6 DEF y

\* A request's own step keeps its shadow above the backend.
LEMMA OwnShadowCovers ==
    ASSUME Ready, shadow \in [Replicas -> Reservable], NEW c \in Callers,
           Covered(c), Denied(c), now' = now
    PROVE  Covered(c)'
<1> DEFINE r == Home[c]
<1>1. /\ r \in Replicas /\ shadow[r] \in Reservable /\ shadow[r].tokens <= Burst
      /\ shadow[r].last <= now /\ now \in Nat /\ Cost \in Nat /\ Burst \in Nat
      /\ req[c].at \in Nat /\ req[c].act \in Nat /\ req[c].at <= now /\ Fits(c)
  BY RequestIsTyped, Constants DEF Ready
<1>2. PICK B \in Nat : B = TokensAt(backend, now) /\ B <= Burst
  BY <1>1, BackendHolds
<1>3. shadow[r].tokens \in Int /\ shadow[r].last \in Int /\ shadow[r].event \in Int
  BY <1>1 DEF Reservable
<1>4. PICK S \in Int : S = Shadow(r)
  BY <1>1, <1>3, Reading DEF Shadow
<1>5. /\ S >= B \/ (Holding(c) /\ ~Has(c) /\ S + Cost >= B)
      /\ req[c].pc = "arrived" => shadow[r].last <= req[c].at
      /\ Holding(c) => shadow[r].last = req[c].at /\ shadow[r].event = req[c].act
  BY <1>2, <1>4 DEF Covered
<1>6. /\ shadow' = shadow => Shadow(r)' = S
      /\ backend' = backend => TokensAt(backend, now)' = B
  BY <1>2, <1>4 DEF Shadow, TokensAt
<1>7. Gives => TokensAt(backend, now)' = B - Cost
  BY <1>2, BackendGives
<1>8. ~(req[c].pc = "arrived" /\ Holding(c)) /\ ~(req'[c].pc = "arrived" /\ Holding(c)')
  BY DEF Holding
<1> HIDE DEF r
<1>9. SUFFICES /\ \/ Shadow(r)' >= TokensAt(backend, now)'
                  \/ Holding(c)' /\ ~Has(c)' /\ Shadow(r)' + Cost >= TokensAt(backend, now)'
               /\ req'[c].pc = "arrived" => shadow'[r].last <= req'[c].at
               /\ Holding(c)' => shadow'[r].last = req'[c].at /\ shadow'[r].event = req'[c].act
  BY DEF Covered, r
<1>10. CASE Rests(c)
  <2>1. Shadow(r)' = S /\ TokensAt(backend, now)' = B /\ S >= B
    BY <1>5, <1>6, <1>10 DEF Rests
  <2>2. req'[c].pc = "arrived" => shadow'[r].last <= req'[c].at
    BY <1>1, <1>5, <1>10 DEF Rests
  <2> QED
    BY <1>10, <2>1, <2>2 DEF Rests
<1>11. CASE GoesOn(c)
  <2>1. Shadow(r)' = S /\ TokensAt(backend, now)' = B /\ shadow' = shadow
    BY <1>6, <1>11 DEF GoesOn
  <2>2. S >= B \/ (~Has(c)' /\ S + Cost >= B)
    BY <1>5, <1>11 DEF GoesOn
  <2> QED
    BY <1>5, <1>8, <1>11, <2>1, <2>2 DEF GoesOn
<1>12. CASE Wins(c)
  <2>1. Shadow(r)' = S /\ TokensAt(backend, now)' = B - Cost /\ shadow' = shadow
    BY <1>6, <1>7, <1>12 DEF Wins
  <2>2. S >= B - Cost
    BY <1>1, <1>5
  <2> QED
    BY <1>5, <1>8, <1>12, <2>1, <2>2 DEF Wins
<1>13. CASE IsServed(c)
  <2>1. Shadow(r)' = S /\ TokensAt(backend, now)' = B - Cost
    BY <1>6, <1>7, <1>13 DEF IsServed
  <2>2. S >= B - Cost
    BY <1>1, <1>5
  <2> QED
    BY <1>13, <2>1, <2>2 DEF IsServed
<1>14. CASE AsksShadow(c)
  <2>1. req[c].pc = "arrived" /\ shadow[r].last <= req[c].at
    BY <1>5, <1>14 DEF AsksShadow, Reserve
  <2>2. shadow'[r] = ReserveAt(shadow[r], req[c].at)
    BY <1>1, <1>14 DEF AsksShadow, Reserve, r
  <2>3. shadow'[r].last = req[c].at /\ shadow'[r].event = TimeToAct(shadow[r], req[c].at)
        /\ shadow'[r] \in Reservable
    <3>1. LET x == ReserveAt(shadow[r], req[c].at) IN
          x.last = req[c].at /\ x.event = TimeToAct(shadow[r], req[c].at) /\ x \in Reservable
      BY <1>1, Drawing
    <3> QED
      BY <2>2, <3>1
  <2>4. PICK X \in Int : X = Shadow(r)'
    <3>1. shadow'[r].tokens \in Int /\ shadow'[r].last \in Int
      BY <2>3 DEF Reservable
    <3>2. TokensAt(shadow'[r], now) \in Int
      BY <1>1, <3>1, Reading
    <3> QED
      BY <3>2 DEF Shadow, TokensAt
  <2>5. X + Cost >= S
    <3>1. TokensAt(shadow'[r], now) + Cost >= TokensAt(shadow[r], now)
      BY <1>1, <2>1, <2>2, AskedShadow
    <3>2. X = TokensAt(shadow'[r], now)
      BY <2>4 DEF Shadow, TokensAt
    <3> QED
      BY <1>4, <3>1, <3>2 DEF Shadow
  <2>6. S >= B /\ TokensAt(backend, now)' = B
    BY <1>5, <1>6, <1>14 DEF AsksShadow
  <2>7. X + Cost >= B
    BY <1>1, <2>5, <2>6
  <2> QED
    BY <1>8, <1>14, <2>3, <2>4, <2>6, <2>7 DEF AsksShadow, r
<1>15. CASE TellsShadow(c)
  <2>1. /\ Holding(c) /\ shadow[r].last = req[c].at /\ shadow[r].event = req[c].act
        /\ req[c].at <= req[c].act
    BY <1>1, <1>5, <1>15 DEF TellsShadow, Fits, InHand
  <2>2. shadow'[r] = CancelAt(shadow[r], req[c].act, req[c].at)
    BY <1>1, <1>15 DEF TellsShadow, Undo, Cancelled, r
  <2>3. PICK X \in Int : X = TokensAt(shadow'[r], now) /\ X = Shadow(r)'
    <3>1. shadow'[r] \in Reservable
      <4>1. LET y == CancelAt(shadow[r], req[c].act, req[c].at) IN y \in Reservable
        BY <1>1, Cancelling
      <4> QED
        BY <2>2, <4>1
    <3>2. shadow'[r].tokens \in Int /\ shadow'[r].last \in Int
      BY <3>1 DEF Reservable
    <3>3. TokensAt(shadow'[r], now) \in Int
      BY <1>1, <3>2, Reading
    <3> QED
      BY <3>3 DEF Shadow, TokensAt
  <2>4. X >= S + Cost \/ X = Burst
    <3>1. TokensAt(shadow'[r], now) >= TokensAt(shadow[r], now) + Cost
          \/ TokensAt(shadow'[r], now) = Burst
      BY <1>1, <2>1, <2>2, ToldShadow
    <3> QED
      BY <1>4, <2>3, <3>1 DEF Shadow
  <2>5. S + Cost >= B /\ TokensAt(backend, now)' = B
    BY <1>1, <1>5, <1>6, <1>15 DEF TellsShadow
  <2>6. X >= B
    BY <1>1, <1>2, <2>4, <2>5
  <2> QED
    BY <1>15, <2>3, <2>5, <2>6 DEF TellsShadow
<1> QED
  BY <1>10, <1>11, <1>12, <1>13, <1>14, <1>15 DEF Denied

\* What another request's step leaves of it.
LEMMA OthersCovered ==
    ASSUME Ready, shadow \in [Replicas -> Reservable], NEW c \in Callers, Denied(c), now' = now
    PROVE  /\ \A r \in Replicas : r # Home[c] => shadow'[r] = shadow[r] /\ Shadow(r)' = Shadow(r)
           /\ TokensAt(backend, now)' <= TokensAt(backend, now)
<1>1. ASSUME NEW r \in Replicas, r # Home[c]
      PROVE  shadow'[r] = shadow[r] /\ Shadow(r)' = Shadow(r)
  <2>1. CASE Rests(c) \/ GoesOn(c) \/ Wins(c) \/ IsServed(c)
    BY <2>1, <1>1 DEF Rests, GoesOn, Wins, IsServed, Shadow, TokensAt
  <2>2. CASE AsksShadow(c) \/ TellsShadow(c)
    <3>1. shadow'[r] = shadow[r]
      BY <1>1, <2>2 DEF AsksShadow, TellsShadow, Reserve, Undo
    <3> QED
      BY <3>1 DEF Shadow, TokensAt
  <2> QED
    BY <2>1, <2>2 DEF Denied
<1>2. TokensAt(backend, now)' <= TokensAt(backend, now)
  <2>1. TokensAt(backend, now) \in Nat /\ Cost \in Nat
    BY BackendHolds, Constants
  <2>2. Gives => TokensAt(backend, now)' = TokensAt(backend, now) - Cost
    BY BackendGives
  <2>3. backend' = backend => TokensAt(backend, now)' = TokensAt(backend, now)
    BY DEF TokensAt
  <2> HIDE DEF TokensAt
  <2>4. backend' = backend \/ Gives
    BY DeniedBooks
  <2> QED
    BY <2>1, <2>2, <2>3, <2>4
<1> QED
  BY <1>1, <1>2

LEMMA ShadowCoversStep ==
    ASSUME TypeOK, RequestsAgree, ShadowCovers, Next
    PROVE  ShadowCovers'
<1>1. Ready /\ shadow \in [Replicas -> Reservable]
  BY TypedIsReady DEF TypeOK
<1>2. config' = config
  BY <1>1, ShadowStep DEF Tick
<1> DEFINE Full(r) == Shadow(r) >= TokensAt(backend, now) \/ \E c \in Callers : Home[c] = r
<1>3. SUFFICES ASSUME Denies, OneEach
               PROVE  (\A c \in Callers : Covered(c)') /\ \A r \in Replicas : Full(r)'
  <2>1. ASSUME (\A c \in Callers : Covered(c)') /\ \A r \in Replicas : Full(r)'
        PROVE  /\ \A r \in Replicas :
                     TokensAt(shadow[r], now)' >= TokensAt(backend, now)'
                     \/ \E c \in Callers :
                           /\ Home[c] = r /\ Holding(c)' /\ req'[c].answer # "granted"
                           /\ TokensAt(shadow[r], now)' + Cost >= TokensAt(backend, now)'
               /\ \A c \in Callers :
                     /\ req'[c].pc = "arrived" => shadow'[Home[c]].last <= req'[c].at
                     /\ Holding(c)' => /\ shadow'[Home[c]].last = req'[c].at
                                       /\ shadow'[Home[c]].event = req'[c].act
    BY <2>1 DEF Covered, Shadow, Has
  <2> QED
    BY <1>2, <2>1 DEF ShadowCovers, Denies
<1>4. (\A c \in Callers : Covered(c)) /\ \A r \in Replicas : Full(r)
  <2>1. /\ \A r \in Replicas :
              TokensAt(shadow[r], now) >= TokensAt(backend, now)
              \/ \E c \in Callers :
                    /\ Home[c] = r /\ Holding(c) /\ req[c].answer # "granted"
                    /\ TokensAt(shadow[r], now) + Cost >= TokensAt(backend, now)
        /\ \A c \in Callers :
              /\ req[c].pc = "arrived" => shadow[Home[c]].last <= req[c].at
              /\ Holding(c) => /\ shadow[Home[c]].last = req[c].at
                               /\ shadow[Home[c]].event = req[c].act
    BY <1>3 DEF ShadowCovers, Denies
  <2>2. ASSUME NEW c \in Callers
        PROVE  Covered(c)
    <3>1. Home[c] \in Replicas
      BY Constants
    <3> QED
      BY <1>3, <2>1, <3>1 DEF Covered, Shadow, Has, OneEach
  <2> QED
    BY <2>1, <2>2 DEF Shadow
<1>5. PICK B \in Nat : B = TokensAt(backend, now) /\ B <= Burst
  BY <1>1, BackendHolds, Constants
<1>6. Burst \in Nat /\ Cost \in Nat /\ now \in Nat
  BY <1>1, Constants DEF Ready
<1>7. \A r \in Replicas : Shadow(r) \in Int
  <2>1. \A r \in Replicas : shadow[r].tokens \in Int /\ shadow[r].last \in Int
    BY <1>1 DEF Reservable
  <2> QED
    BY <1>6, <2>1, Reading DEF Shadow
<1>8. CASE Tick
  <2>1. shadow' = shadow /\ req' = req /\ now' = now + 1
    BY <1>8 DEF Tick
  <2>2. ASSUME NEW r \in Replicas
        PROVE  Shadow(r)' = AtMost(Burst, Shadow(r) + 1)
    <3>1. /\ shadow[r].tokens \in Int /\ shadow[r].last \in Int /\ shadow[r].last <= now
      BY <1>1 DEF Ready, Reservable
    <3>2. TokensAt(shadow[r], now + 1) = AtMost(Burst, TokensAt(shadow[r], now) + 1)
      BY <1>6, <3>1, Refilling
    <3> QED
      BY <2>1, <3>2 DEF Shadow, TokensAt
  <2>3. TokensAt(backend, now)' = AtMost(Burst, B + 1)
    BY <1>1, <1>5, <1>8, BackendTicks
  <2>4. ASSUME NEW r \in Replicas
        PROVE  /\ Shadow(r) >= B => Shadow(r)' >= TokensAt(backend, now)'
               /\ Shadow(r) + Cost >= B => Shadow(r)' + Cost >= TokensAt(backend, now)'
    <3>1. PICK S \in Int : S = Shadow(r)
      BY <1>7
    <3>2. /\ S >= B => AtMost(Burst, S + 1) >= AtMost(Burst, B + 1)
          /\ S + Cost >= B => AtMost(Burst, S + 1) + Cost >= AtMost(Burst, B + 1)
      BY <1>5, <1>6 DEF AtMost
    <3> QED
      BY <2>2, <2>3, <3>1, <3>2
  <2>5. ASSUME NEW c \in Callers
        PROVE  Covered(c)'
    <3>1. Home[c] \in Replicas /\ Covered(c)
      BY <1>4, Constants
    <3> QED
      BY <1>5, <2>1, <2>4, <3>1 DEF Covered, Holding, Has
  <2>6. ASSUME NEW r \in Replicas
        PROVE  Full(r)'
    BY <1>4, <1>5, <2>4
  <2> QED
    BY <2>5, <2>6
<1>9. ASSUME NEW c \in Callers, Denied(c), now' = now,
             \A d \in Callers : d # c => req'[d] = req[d]
      PROVE  (\A d \in Callers : Covered(d)') /\ \A r \in Replicas : Full(r)'
  <2>1. Covered(c)'
    BY <1>1, <1>4, <1>9, OwnShadowCovers
  <2>2. /\ \A r \in Replicas : r # Home[c] => shadow'[r] = shadow[r] /\ Shadow(r)' = Shadow(r)
        /\ TokensAt(backend, now)' <= B
    BY <1>1, <1>5, <1>9, OthersCovered
  <2>3. TokensAt(backend, now)' \in Int
    <3>1. PICK n \in Int : n = B - Cost
      BY <1>6
    <3>2. Gives => TokensAt(backend, now)' = n
      BY <1>1, <1>5, <1>9, <3>1, BackendGives
    <3>3. backend' = backend => TokensAt(backend, now)' = B
      BY <1>5, <1>9 DEF TokensAt
    <3> HIDE DEF TokensAt
    <3>4. backend' = backend \/ Gives
      BY <1>9, DeniedBooks
    <3> QED
      BY <3>1, <3>2, <3>3, <3>4
  <2>4. PICK A \in Int : A = TokensAt(backend, now)' /\ A <= B
    BY <2>2, <2>3
  <2>5. ASSUME NEW d \in Callers, d # c
        PROVE  Covered(d)'
    <3>1. Home[d] \in Replicas /\ Home[d] # Home[c]
      BY <1>3, <2>5, Constants DEF OneEach
    <3>2. shadow'[Home[d]] = shadow[Home[d]] /\ Shadow(Home[d])' = Shadow(Home[d])
          /\ req'[d] = req[d] /\ Covered(d)
      BY <1>4, <1>9, <2>2, <2>5, <3>1
    <3>3. PICK S \in Int : S = Shadow(Home[d])
      BY <1>7, <3>1
    <3>4. /\ S >= B => S >= A
          /\ S + Cost >= B => S + Cost >= A
      BY <1>6, <2>4
    <3>5. /\ S >= B \/ (Holding(d) /\ ~Has(d) /\ S + Cost >= B)
          /\ req[d].pc = "arrived" => shadow[Home[d]].last <= req[d].at
          /\ Holding(d) => /\ shadow[Home[d]].last = req[d].at
                           /\ shadow[Home[d]].event = req[d].act
      BY <1>5, <3>2, <3>3 DEF Covered
    <3>6. (Holding(d)' <=> Holding(d)) /\ (Has(d)' <=> Has(d))
      BY <3>2 DEF Holding, Has
    <3> QED
      BY <2>4, <3>2, <3>3, <3>4, <3>5, <3>6 DEF Covered
  <2>6. ASSUME NEW r \in Replicas
        PROVE  Full(r)'
    <3>1. CASE r = Home[c]
      BY <3>1
    <3>2. CASE r # Home[c]
      <4>1. Full(r) /\ Shadow(r)' = Shadow(r) /\ Shadow(r) \in Int
        BY <1>4, <1>7, <2>2, <3>2
      <4>2. CASE Shadow(r) >= B
        <5>1. Shadow(r)' >= A
          BY <2>4, <4>1, <4>2
        <5> QED
          BY <2>4, <5>1
      <4>3. CASE ~(Shadow(r) >= B)
        BY <1>5, <4>1, <4>3
      <4> QED
        BY <4>2, <4>3
    <3> QED
      BY <3>1, <3>2
  <2> QED
    BY <2>1, <2>5, <2>6
<1> QED
  BY <1>1, <1>3, <1>8, <1>9, DenyMoves
-----------------------------------------------------------------------------
(* The theorems.                                                           *)

LEMMA GateStarts ==
    ASSUME Init
    PROVE  GateInv /\ ShadowOnlyRefuses
<1>1. /\ Burst \in Nat \ {0} /\ Cost \in Nat \ {0} /\ {Timeout, MaxRequests, MaxTime} \subseteq Nat
      /\ Cost * 0 = 0
  BY Constants
<1>2. \A c \in Callers : req[c] = Idle
  BY DEF Init
<1>3. \A c \in Callers : ~Holding(c) /\ ~InHand(c) /\ ~Has(c)
  BY <1>2 DEF InHand, Holding, Has, Idle
<1>4. \A r \in Replicas : shadow[r] = FullShadow
  BY DEF Init
<1>5. FullShadow \in Reservable /\ FullShadow.tokens = Burst /\ FullShadow.last = 0
  BY <1>1 DEF FullShadow, Reservable
<1>6. TypeOK
  <2>1. now \in 0..MaxTime /\ config \in Configs /\ now = 0
    BY <1>1 DEF Init
  <2>2. /\ shadow \in [Replicas -> Reservable]
        /\ \A r \in Replicas : shadow[r].tokens <= Burst /\ shadow[r].last <= now
    BY <1>1, <1>4, <1>5, <2>1 DEF Init
  <2>3. backend \in [tokens : 0..Burst, last : 0..now]
    BY <1>1, <2>1 DEF Init, NewBucket
  <2>4. req \in [Callers -> Requests]
    BY IdleIsTyped DEF Init
  <2>5. \A c \in Callers : /\ req[c].at <= now
                           /\ Holding(c) \/ req[c].pc = "local" => req[c].at <= req[c].act
                           /\ req[c].then = "poll" => req[c].retry > 0
    BY <1>2, <1>3, <2>1, IdleIsTyped DEF InHand
  <2>6. /\ requests \in 0..MaxRequests /\ left \subseteq Callers /\ admitted \in Nat
        /\ unbacked \in [Replicas -> 0..admitted] /\ excess \in [Replicas -> Nat]
    BY <1>1 DEF Init
  <2> QED
    BY <2>1, <2>2, <2>3, <2>4, <2>5, <2>6 DEF TypeOK
<1>7. RequestsAgree
  BY <1>2 DEF RequestsAgree, RequestAgrees, Idle
<1>8. now = 0 /\ TokensAt(backend, now) = Burst
      /\ \A r \in Replicas : TokensAt(shadow[r], now) = Burst
  <2>1. backend.tokens = Burst /\ backend.last = 0 /\ now = 0
    BY DEF Init, NewBucket
  <2>2. TokensAt(backend, now) = Burst
    BY <1>1, <2>1, Reading DEF AtMost, AtLeast
  <2>3. \A r \in Replicas : TokensAt(shadow[r], now) = Burst
    BY <1>1, <1>4, <1>5, <2>1, Reading DEF AtMost, AtLeast
  <2> QED
    BY <2>1, <2>2, <2>3
<1>9. DenyAccounts
  <2>1. Promised = {}
    BY <1>3 DEF Promised, Has
  <2>2. Cardinality(Promised) = 0 /\ admitted = 0
    BY <2>1, FS_EmptySet DEF Init
  <2> QED
    BY <1>1, <1>8, <2>2 DEF DenyAccounts
<1>10. ShadowCovers
  BY <1>1, <1>2, <1>3, <1>8 DEF ShadowCovers, Idle
<1>11. FallbackAccounts
  <2> SUFFICES ASSUME NEW r \in Replicas PROVE ReplicaAccounts(r)
    BY DEF FallbackAccounts
  <2>1. Drawn(r) = {} /\ \A e : DrawnBy(r, e) = {}
    BY <1>3 DEF Drawn, DrawnBy, InHand
  <2>2. Cardinality({}) = 0
    BY FS_EmptySet
  <2>3. Horizon(r) = 0 - Burst /\ unbacked[r] = 0 /\ excess[r] = 0
    BY <1>4, <1>5 DEF Horizon, Init
  <2> QED
    BY <1>1, <1>8, <2>1, <2>2, <2>3 DEF ReplicaAccounts
<1>12. ShadowOnlyRefuses
  BY DEF ShadowOnlyRefuses, Init
<1> QED
  BY <1>6, <1>7, <1>9, <1>10, <1>11, <1>12 DEF GateInv

LEMMA GateStep ==
    ASSUME GateInv, Next
    PROVE  GateInv'
<1>1. TypeOK' /\ RequestsAgree'
  BY TypeStep DEF GateInv
<1> QED
  BY <1>1, DenyStep, ShadowCoversStep, FallbackStep DEF GateInv

LEMMA GateStutters ==
    ASSUME GateInv, UNCHANGED vars
    PROVE  GateInv'
<1>1. UNCHANGED <<now, config, shadow, backend, req, requests, left, admitted, unbacked, excess>>
  BY DEF vars, tallies
<1>2. TypeOK'
  BY <1>1 DEF GateInv, TypeOK, Holding
<1>3. RequestsAgree'
  BY <1>1 DEF GateInv, RequestsAgree, RequestAgrees
<1>4. DenyAccounts'
  BY <1>1 DEF GateInv, DenyAccounts, Promised, TokensAt
<1>5. ShadowCovers'
  BY <1>1 DEF GateInv, ShadowCovers, Holding, TokensAt
<1>6. FallbackAccounts'
  BY <1>1 DEF GateInv, FallbackAccounts, ReplicaAccounts, Horizon, Drawn, DrawnBy, Holding
<1> QED
  BY <1>2, <1>3, <1>4, <1>5, <1>6 DEF GateInv

\* The gate's whole state, for every policy, backend and replica (gate/gate.go,
\* gate/admit.go): its types, where each request stands, and the accounts the
\* properties below are read from.
THEOREM GateInvariant == Spec => []GateInv
<1>1. Init => GateInv
  BY GateStarts
<1>2. GateInv /\ [Next]_vars => GateInv'
  BY GateStep, GateStutters
<1> QED
  BY <1>1, <1>2, PTL DEF Spec

\* FallbackLocal enforces the configured rate in each replica (shared.go:156),
\* for any number of overlapping requests that poll, wait, reserve, give up or
\* are cancelled, but for what draws and cancels at older readings of the clock
\* have given its shadow twice (admit.go:53).
THEOREM FallbackForAll == Spec => []FallbackKeepsReplicaRate
<1>1. GateInv => FallbackKeepsReplicaRate
  <2> SUFFICES ASSUME GateInv, config.policy = "fallback", NEW r \in Replicas
               PROVE  Cost * unbacked[r] <= Burst + now + excess[r]
    BY DEF FallbackKeepsReplicaRate
  <2>1. /\ now \in now..MaxTime /\ now \in Nat /\ Burst \in Nat /\ Cost \in Nat
        /\ unbacked[r] \in Nat /\ excess[r] \in Nat
    BY BooksAreNumbers, Constants DEF GateInv, TypeOK
  <2>2. PICK n \in Nat : n = Cardinality(DrawnBy(r, now))
    BY DrawnIsFinite
  <2>3. Cost * (unbacked[r] + n) <= Burst + now + excess[r]
    BY <2>1, <2>2 DEF GateInv, FallbackAccounts, ReplicaAccounts
  <2>4. unbacked[r] + 0 <= unbacked[r] + n /\ Burst + now + excess[r] \in Int
        /\ Burst + now + excess[r] <= Burst + now + excess[r]
    BY <2>1
  <2>5. Cost * (unbacked[r] + 0) <= Burst + now + excess[r]
    BY <2>1, <2>3, <2>4, NoMoreDrawn
  <2> QED
    BY <2>1, <2>5
<1> QED
  BY <1>1, GateInvariant, PTL

\* Deny never lets the fleet beyond one quota's worth (shared.go:163), whatever
\* fails, times out or is cancelled, on as many replicas as there are; where
\* nobody reserves, since a reservation for later is not backed.
THEOREM DenyForAll ==
    ASSUME "reserve" \notin Modes
    PROVE  Spec => []DenyKeepsFleetQuota
<1>1. GateInv => DenyKeepsFleetQuota
  <2> SUFFICES ASSUME GateInv, config.policy = "deny"
               PROVE  Cost * admitted <= Burst + now
    BY DEF DenyKeepsFleetQuota
  <2>1. Ready /\ admitted \in Nat
    BY TypedIsReady DEF GateInv, TypeOK
  <2>2. PICK B \in Nat : B = TokensAt(backend, now)
    BY <2>1, BackendHolds
  <2>3. PICK p \in Nat : p = Cardinality(Promised)
    <3>1. Promised \subseteq Callers
      BY DEF Promised
    <3> QED
      BY <3>1, Constants, FS_Subset, FS_CardinalityType
  <2>4. Cost * (admitted + p) + B <= Burst + now
    BY <2>2, <2>3 DEF GateInv, DenyAccounts
  <2>5. admitted + p \in Nat /\ admitted <= admitted + p
    BY <2>1
  <2>6. Cost * admitted <= Cost * (admitted + p) /\ Cost * admitted \in Nat
        /\ Cost * (admitted + p) \in Nat
    BY <2>1, <2>5, Costs
  <2>7. Burst + now \in Nat
    BY <2>1, Constants DEF Ready
  <2> QED
    BY <2>2, <2>4, <2>6, <2>7
<1> QED
  BY <1>1, GateInvariant, PTL

\* "It never admits a request the backend has not admitted" (docs/adr/0004:46),
\* under Deny, where nobody reserves.
THEOREM OnlyRefusesForAll ==
    ASSUME "reserve" \notin Modes
    PROVE  Spec => []ShadowOnlyRefuses
<1>1. Init => ShadowOnlyRefuses
  BY GateStarts
<1>2. GateInv /\ ShadowOnlyRefuses /\ [Next]_vars => ShadowOnlyRefuses'
  <2> SUFFICES ASSUME GateInv, ShadowOnlyRefuses, [Next]_vars
               PROVE  ShadowOnlyRefuses'
    OBVIOUS
  <2>1. Ready
    BY TypedIsReady DEF GateInv
  <2>2. CASE UNCHANGED vars
    BY <2>2 DEF vars, tallies, ShadowOnlyRefuses
  <2>3. CASE Next /\ config.policy = "deny"
    <3>1. Denies
      BY <2>3 DEF Denies
    <3>2. config' = config /\ unbacked' = unbacked
      <4>1. CASE Tick
        BY <4>1 DEF Tick, tallies
      <4>2. ASSUME NEW c \in Callers, Denied(c), config' = config
            PROVE  unbacked' = unbacked
        BY <4>2 DEF Denied, Rests, GoesOn, Wins, IsServed, AsksShadow, TellsShadow
      <4> QED
        BY <2>1, <2>3, <3>1, <4>1, <4>2, DenyMoves
    <3> QED
      BY <3>2 DEF ShadowOnlyRefuses
  <2>4. CASE Next /\ config.policy # "deny"
    <3>1. config' = config
      BY <2>1, <2>4, ShadowStep DEF Tick
    <3> QED
      BY <2>4, <3>1 DEF ShadowOnlyRefuses
  <2> QED
    BY <2>2, <2>3, <2>4
<1> QED
  BY <1>1, <1>2, GateInvariant, PTL DEF Spec

LEMMA SomeoneIsOutstanding ==
    ASSUME NEW r
    PROVE  /\ Outstanding(r) \in Nat
           /\ (\E c \in Callers : Home[c] = r /\ Holding(c)) => Outstanding(r) >= 1
<1> DEFINE X == {c \in Callers : Home[c] = r /\ Holding(c)}
<1>1. IsFiniteSet(X)
  BY Constants, FS_Subset
<1>2. Cardinality(X) \in Nat
  BY <1>1, FS_CardinalityType
<1>3. X # {} => Cardinality(X) # 0
  BY <1>1, FS_EmptySet
<1> QED
  BY <1>2, <1>3 DEF Outstanding

\* "The shadow always holds at least as many tokens as the shared bucket does"
\* (admit.go:24), but for those out on undecided requests, under Deny: where
\* nobody reserves and a replica makes one request at a time.
THEOREM ShadowForAll ==
    ASSUME "reserve" \notin Modes, OneEach
    PROVE  Spec => []ShadowIsUpperBound
<1>1. GateInv => ShadowIsUpperBound
  <2> SUFFICES ASSUME GateInv, config.policy = "deny", NEW r \in Replicas
               PROVE  TokensAt(shadow[r], now) + Cost * Outstanding(r) >= TokensAt(backend, now)
    BY DEF ShadowIsUpperBound
  <2>1. Ready /\ shadow[r].tokens \in Int /\ shadow[r].last \in Int /\ now \in Int
    BY TypedIsReady, BooksAreNumbers DEF GateInv
  <2>2. PICK S \in Int, B \in Int : S = TokensAt(shadow[r], now) /\ B = TokensAt(backend, now)
    BY <2>1, BackendHolds, Reading
  <2>3. PICK n \in Nat : n = Outstanding(r)
    BY SomeoneIsOutstanding
  <2>4. S >= B \/ (S + Cost >= B /\ n >= 1)
    BY <2>2, <2>3, SomeoneIsOutstanding DEF GateInv, ShadowCovers
  <2>5. Cost \in Nat /\ Cost * n \in Nat /\ Cost * 1 = Cost
    BY Constants, Costs
  <2>6. n >= 1 => Cost * n >= Cost
    BY <2>5, Costs
  <2> QED
    BY <2>2, <2>3, <2>4, <2>5, <2>6
<1> QED
  BY <1>1, GateInvariant, PTL

\* "A shadow that refuses therefore proves the backend would have refused too"
\* (admit.go:26), for a request whose clock reading is current: again under Deny
\* alone, where nobody reserves and a replica makes one request at a time.
THEOREM RefusalIsProof ==
    ASSUME "reserve" \notin Modes, OneEach, \A x \in Configs : x.policy = "deny"
    PROVE  Spec => ShadowRefusalIsProof
<1> DEFINE Proof == \A c \in Callers :
                       (/\ req[c].pc = "arrived" /\ req'[c].pc = "undo"
                        /\ req[c].at = now
                        /\ Outstanding(Home[c]) = 0) => TokensAt(backend, now) < Cost
<1>1. GateInv /\ [Next]_vars => [Proof]_vars
  <2> SUFFICES ASSUME GateInv, Next, NEW c \in Callers,
                      req[c].pc = "arrived", req'[c].pc = "undo", req[c].at = now,
                      Outstanding(Home[c]) = 0
               PROVE  TokensAt(backend, now) < Cost
    OBVIOUS
  <2>1. Ready
    BY TypedIsReady DEF GateInv
  <2>2. /\ Home[c] \in Replicas /\ shadow[Home[c]] \in Reservable /\ shadow[Home[c]].tokens <= Burst
        /\ now \in Nat /\ config.policy = "deny"
    BY <2>1, RequestIsTyped DEF Ready
  <2>3. PICK S \in Int, B \in Int : S = TokensAt(shadow[Home[c]], now) /\ B = TokensAt(backend, now)
    <3>1. shadow[Home[c]].tokens \in Int /\ shadow[Home[c]].last \in Int
      BY <2>2 DEF Reservable
    <3> QED
      BY <2>1, <2>2, <3>1, BackendHolds, Reading
  <2>4. S >= B
    BY <2>2, <2>3, SomeoneIsOutstanding DEF GateInv, ShadowCovers
  <2>5. S < Cost
    <3>1. Reserve(c)
      <4>1. ~Holding(c) /\ Holding(c)' /\ Denies /\ ~(Tick /\ Holding(c)')
        BY <2>2 DEF Holding, Denies, Tick
      <4>2. PICK d \in Callers : Denied(d) /\ \A e \in Callers : e # d => req'[e] = req[e]
        BY <2>1, <4>1, DenyMoves
      <4>3. d = c
        BY <4>2
      <4> QED
        BY <4>1, <4>2, <4>3 DEF Denied, Rests, GoesOn, Wins, IsServed, AsksShadow, TellsShadow
    <3>2. TimeToAct(shadow[Home[c]], now) > now
      <4>1. \/ req' = [req EXCEPT ![c].pc = "take", ![c].act = TimeToAct(shadow[Home[c]], req[c].at)]
            \/ TimeToAct(shadow[Home[c]], now) > now
        BY <3>1 DEF Reserve
      <4>2. req'[c].pc = "undo"
        OBVIOUS
      <4> QED
        BY <2>1, <4>1, <4>2, RequestIsTyped DEF Ready, Requests
    <3> QED
      BY <2>2, <2>3, <3>2, Drawing
  <2> QED
    BY <2>3, <2>4, <2>5, Constants
<1> QED
  BY <1>1, GateInvariant, PTL DEF Spec, ShadowRefusalIsProof
==============================================================================
