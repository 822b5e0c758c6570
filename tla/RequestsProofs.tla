---------------------------- MODULE RequestsProofs ----------------------------
(***************************************************************************)
(* Callers at the door proved for any number of them, any bucket, any      *)
(* deadlines, and lookups that block for as long as they like.             *)
(***************************************************************************)
EXTENDS Requests, FiniteSetTheorems, SequenceTheorems, WellFoundedInduction, TLAPS

-----------------------------------------------------------------------------
(* The constants, and the bucket.                                          *)

LEMMA Constants ==
    /\ Burst \in Nat \ {0} /\ Refills /\ Cost = 1
    /\ MaxTime \in Nat /\ Lag \in Nat /\ RequestTimeout \in Nat /\ Start \in 0..Burst
    /\ Never \in Nat /\ Deadlines \subseteq 0..Never /\ Undue \notin Nat /\ Undue \in Int
    /\ \A t \in 0..MaxTime : t \in Nat /\ t < Never
    /\ IsFiniteSet(Callers)
  BY BucketAssumption, ShadowAssumption, RequestsAssumption DEF Never, Undue

\* The clock, the bucket and its horizon are numbers.
LEMMA Numbers ==
    ASSUME TypeOK
    PROVE  /\ now \in Nat /\ now < Never
           /\ b \in Reservable /\ b.tokens \in Int /\ b.last \in Int /\ b.event \in Int
           /\ b.tokens <= Burst /\ b.last <= now
           /\ Horizon \in Int
           /\ rewound \in Nat /\ overpaid \in Nat
<1>1. /\ now \in 0..MaxTime /\ b \in Reservable /\ b.tokens <= Burst /\ b.last <= now
      /\ rewound \in Nat /\ overpaid \in Nat
  BY DEF TypeOK
<1>2. b.tokens \in Int /\ b.last \in Int /\ b.event \in Int
  BY <1>1 DEF Reservable
<1>3. now \in Nat /\ now < Never
  BY <1>1, Constants
<1> QED
  BY <1>1, <1>2, <1>3 DEF Horizon

\* What a reading at t finds in the bucket, by its horizon.
LEMMA TokensByHorizon ==
    ASSUME NEW t \in Int, Horizon \in Int, b \in Reservable, b.tokens <= Burst
    PROVE  /\ TokensAt(b, t) \in Int
           /\ TokensAt(b, t) = AtMost(Burst, AtLeast(t, b.last) - Horizon)
           /\ t >= b.last => TokensAt(b, t) = AtMost(Burst, t - Horizon)
<1>1. b.tokens \in Int /\ b.last \in Int
  BY DEF Reservable
<1> QED
  BY <1>1, Constants DEF TokensAt, Accrued, AtMost, AtLeast, Horizon

\* A draw at t: where it leaves the bucket, and when the token is due.
LEMMA DrawMoves ==
    ASSUME TypeOK, NEW t \in Nat, b' = ReserveAt(b, t)
    PROVE  /\ b' \in Reservable /\ b'.tokens <= Burst /\ b'.last = t
           /\ b'.event = TimeToAct(b, t) /\ b'.event \in Nat
           /\ Horizon' \in Int
           /\ Horizon' = t - TokensAt(b, t) + 1
           /\ b'.event = AtLeast(t, Horizon')
<1> DEFINE T == TokensAt(b, t)
<1>1. T \in Int /\ T <= Burst
  BY Numbers, TokensByHorizon, Constants DEF AtMost
<1>2. TimeToAct(b, t) = AtLeast(t, t - T + 1) /\ TimeToAct(b, t) \in Nat
  BY <1>1, Constants DEF TimeToAct, AtLeast
<1>3. b' = [tokens |-> T - 1, last |-> t, event |-> TimeToAct(b, t)]
  BY Constants DEF ReserveAt
<1>4. b' \in Reservable
  BY <1>1, <1>2, <1>3 DEF Reservable
<1>5. Horizon' = t - (T - 1)
  BY <1>3 DEF Horizon
<1> HIDE DEF T
<1>6. t - (T - 1) = t - T + 1 /\ T - 1 <= Burst /\ t - T + 1 \in Int
  BY <1>1, Constants
<1> QED
  BY <1>2, <1>3, <1>4, <1>5, <1>6 DEF T

\* A draw moves the horizon by a token at most, and by that much at least but
\* for what an older reading sees accrue twice.
LEMMA DrawMovesHorizon ==
    ASSUME TypeOK, NEW t \in Nat, t <= now, b' = ReserveAt(b, t)
    PROVE  /\ Horizon' <= Horizon + 1 \/ Horizon' <= now
           /\ Horizon' > now => Horizon' <= Horizon + 1
           /\ Horizon' >= Horizon + 1 - AtLeast(0, b.last - t)
           /\ Horizon' >= t - Burst + 1
           /\ Horizon' = t - Burst + 1 \/ Horizon' = Horizon + 1 - AtLeast(0, b.last - t)
           /\ Horizon' = t - Burst + 1 => Horizon <= AtLeast(t, b.last) - Burst
           /\ Horizon' > t /\ t >= b.last => Horizon' = Horizon + 1
<1> DEFINE T == TokensAt(b, t)
<1>1. /\ T \in Int /\ T = AtMost(Burst, AtLeast(t, b.last) - Horizon)
      /\ Horizon' = t - T + 1
      /\ Horizon \in Int /\ b.last \in Int /\ b.last <= now /\ now \in Nat /\ Burst \in Nat \ {0}
  BY Numbers, TokensByHorizon, DrawMoves, Constants
<1> HIDE DEF T
<1> QED
  BY <1>1 DEF AtMost, AtLeast

\* A cancel that comes in time gives back what is left of the token, up to a
\* full bucket; one that comes too late changes nothing.
LEMMA CancelMoves ==
    ASSUME TypeOK, NEW act \in Nat, b' = CancelAt(b, act, now)
    PROVE  /\ act < now \/ Refund(b, act) <= 0 => b' = b
           /\ ~(act < now \/ Refund(b, act) <= 0) =>
                 /\ b' \in Reservable /\ b'.tokens <= Burst /\ b'.last = now
                 /\ b'.event = IF act = b.event /\ act - 1 >= now THEN act - 1 ELSE b.event
                 /\ Horizon' \in Int
                 /\ Horizon' = AtLeast(now - Burst, Horizon - Refund(b, act))
                 /\ TokensAt(b', now) >= AtMost(Burst, TokensAt(b, now) + 1)
           /\ Refund(b, act) \in Int /\ Refund(b, act) = 1 - (b.event - act)
<1> DEFINE T == TokensAt(b, now)
           R == Refund(b, act)
           E == IF act = b.event /\ act - 1 >= now THEN act - 1 ELSE b.event
<1>1. /\ T \in Int /\ T = AtMost(Burst, now - Horizon)
      /\ now \in Nat /\ Horizon \in Int /\ Burst \in Nat \ {0} /\ b.event \in Int
  BY Numbers, TokensByHorizon, Constants
<1>2. R \in Int /\ R = 1 - (b.event - act)
  BY <1>1, Constants DEF Refund
<1>3. act < now \/ R <= 0 => b' = b
  BY DEF CancelAt
<1>4. ASSUME ~(act < now \/ R <= 0)
      PROVE  /\ b' \in Reservable /\ b'.tokens <= Burst /\ b'.last = now
             /\ b'.event = E
             /\ Horizon' \in Int
             /\ Horizon' = AtLeast(now - Burst, Horizon - R)
             /\ TokensAt(b', now) >= AtMost(Burst, T + 1)
  <2> DEFINE N == AtMost(Burst, T + R)
  <2>1. b' = [tokens |-> N, last |-> now, event |-> E]
    BY <1>4, Constants DEF CancelAt
  <2>2. E \in Int
    BY <1>1
  <2> HIDE DEF T, R, E
  <2>3. N \in Int /\ N <= Burst /\ N >= AtMost(Burst, T + 1)
        /\ now - N = AtLeast(now - Burst, Horizon - R)
    BY <1>1, <1>2, <1>4 DEF AtMost, AtLeast
  <2> HIDE DEF N
  <2>4. b' \in Reservable /\ b'.tokens = N /\ b'.last = now /\ b'.event = E
    BY <1>1, <2>1, <2>2, <2>3 DEF Reservable
  <2>5. Horizon' = now - N /\ Horizon' \in Int
    BY <1>1, <2>3, <2>4 DEF Horizon
  <2>6. TokensAt(b', now) = N
    BY <1>1, <2>3, <2>4, Constants DEF TokensAt, Accrued, AtLeast, AtMost
  <2> QED
    BY <2>3, <2>4, <2>5, <2>6
<1> QED
  BY <1>1, <1>2, <1>3, <1>4

-----------------------------------------------------------------------------
(* The calls.                                                              *)

\* A call's own locals and outcome become x and y.
Moves(c, x, y) ==
    /\ x \in Calls /\ y \in Outcomes
    /\ call' = [call EXCEPT ![c] = x] /\ result' = [result EXCEPT ![c] = y]
    /\ x.read <= now
    /\ x.pc = "parked" => x.deadline = Never \/ x.act <= x.deadline

LEMMA CallIsTyped ==
    ASSUME TypeOK, NEW c \in Callers
    PROVE  /\ call[c] \in Calls /\ result[c] \in Outcomes
           /\ call[c].pc \in {"idle", "entered", "looking", "drawing", "parked", "sent", "open",
                              "holding", "returned"}
           /\ call[c].door \in {"none", "allow", "wait", "reserve", "do", "stream"}
           /\ call[c].read \in Nat /\ call[c].act \in Nat /\ call[c].until \in Nat
           /\ call[c].deadline \in 0..Never /\ call[c].gaveUp \in BOOLEAN
           /\ call[c].target \in Targets
           /\ call[c].read <= now
           /\ call[c].pc = "parked" => call[c].deadline = Never \/ call[c].act <= call[c].deadline
<1>1. call[c] \in Calls /\ result[c] \in Outcomes /\ call[c].read <= now
      /\ (call[c].pc = "parked" => call[c].deadline = Never \/ call[c].act <= call[c].deadline)
  BY DEF TypeOK
<1>2. call[c].read \in 0..MaxTime
  BY <1>1 DEF Calls
<1>3. call[c].read \in Nat
  BY <1>2, Constants
<1> QED
  BY <1>1, <1>3 DEF Calls

LEMMA NoCallIsTyped == NoCall \in Calls
<1>1. 0 \in 0..MaxTime /\ Never \in 0..Never /\ Never \in Nat /\ Base \in Targets
  BY Constants DEF Targets
<1> QED
  BY <1>1 DEF NoCall, Calls

LEMMA CallReturns ==
    ASSUME TypeOK, NEW c \in Callers, NEW how \in Outcomes, Returns(c, how)
    PROVE  \E x \in Calls : Moves(c, x, how) /\ x.pc = "returned"
                            /\ x.door = call[c].door /\ x.target = Base
<1> DEFINE x == [NoCall EXCEPT !.pc = "returned", !.door = call[c].door]
<1>1. x \in Calls
  BY NoCallIsTyped, CallIsTyped DEF Calls
<1>2. x.read = 0 /\ 0 <= now /\ x.pc = "returned" /\ x.door = call[c].door /\ x.target = Base
  BY Numbers DEF NoCall
<1>3. call' = [call EXCEPT ![c] = x] /\ result' = [result EXCEPT ![c] = how]
  BY DEF Returns
<1> QED
  BY <1>1, <1>2, <1>3 DEF Moves

CountsAttempt == stats' = [stats EXCEPT !.requests = @ + 1] /\ UNCHANGED short

LEMMA CallEnters ==
    ASSUME TypeOK, NEW c \in Callers, Enter(c)
    PROVE  \E x \in Calls, y \in Outcomes :
              /\ Moves(c, x, y)
              /\ \/ y = "rejected" /\ x.pc = "returned" /\ UNCHANGED <<active, counts>>
                 \/ /\ y = result[c] /\ active' = active + 1
                    /\ \/ x.pc = "entered" /\ UNCHANGED counts
                       \/ x.pc = "looking" /\ CountsAttempt
<1>1. CASE shuttingDown
  BY <1>1, CallReturns DEF Enter, Outcomes
<1>2. CASE ~shuttingDown
  <2>1. PICK door \in Doors[c], d \in Deadlines :
           LET x == [call[c] EXCEPT !.door = door,
                                    !.deadline = IF door \in Waiting THEN d ELSE Never]
           IN  IF door \in Http
               THEN call' = [call EXCEPT ![c] = [x EXCEPT !.pc = "entered"]] /\ UNCHANGED counts
               ELSE Asks(c, x)
    BY <1>2 DEF Enter
  <2>2. UNCHANGED result /\ active' = active + 1
    BY <1>2 DEF Enter
  <2> DEFINE D == IF door \in Waiting THEN d ELSE Never
             x == [call[c] EXCEPT !.door = door, !.deadline = D]
             e == [x EXCEPT !.pc = "entered"]
             l == [x EXCEPT !.pc = "looking", !.read = now]
  <2>3. door \in {"none", "allow", "wait", "reserve", "do", "stream"} /\ D \in 0..Never
    BY Constants, RequestsAssumption
  <2>4. now \in 0..MaxTime /\ now <= now
    BY Numbers DEF TypeOK
  <2> HIDE DEF D
  <2>5. x \in Calls /\ x.target = call[c].target /\ x.read = call[c].read
    BY <2>3, CallIsTyped DEF Calls
  <2> HIDE DEF x
  <2>6. e \in Calls /\ e.pc = "entered" /\ e.target = call[c].target /\ e.read <= now
    BY <2>5, CallIsTyped DEF Calls
  <2>7. l \in Calls /\ l.pc = "looking" /\ l.target = call[c].target /\ l.read <= now
    BY <2>4, <2>5 DEF Calls
  <2>8. result' = [result EXCEPT ![c] = result[c]] /\ result[c] \in Outcomes
    BY <2>2, CallIsTyped DEF TypeOK
  <2>9. CASE door \in Http
    <3>1. call' = [call EXCEPT ![c] = e] /\ UNCHANGED counts
      BY <2>1, <2>9 DEF x, D
    <3>2. Moves(c, e, result[c])
      BY <3>1, <2>6, <2>8 DEF Moves
    <3> QED
      BY <3>1, <3>2, <2>2, <2>6, <2>8
  <2>10. CASE door \notin Http
    <3>1. call' = [call EXCEPT ![c] = l] /\ CountsAttempt
      BY <2>1, <2>10 DEF x, D, Asks, CountsAttempt
    <3>2. Moves(c, l, result[c])
      BY <3>1, <2>7, <2>8 DEF Moves
    <3> QED
      BY <3>1, <3>2, <2>2, <2>7, <2>8
  <2> QED
    BY <2>9, <2>10
<1> QED
  BY <1>1, <1>2 DEF Enter

\* What Limiter.enter and leave, and the observer, have to show for a call that
\* goes to x and y: it is registered as long as it is inside, its attempt is
\* counted once, its failure once, and the news that it waits, once.
One(yes) == IF yes THEN 1 ELSE 0

InsidePcs == {"entered", "looking", "drawing", "parked", "sent", "open"}
Early     == {"idle", "entered", "looking"}
Failures  == {"error", "aborted", "oversized"}
Attempted(pc, how) == pc \notin {"idle", "entered"} /\ how \notin {"rejected", "unbuilt"}

Books(c, x, y) ==
    /\ active' = active + One(x.pc \in InsidePcs) - One(call[c].pc \in InsidePcs)
    /\ stats' \in [requests : Int, throttled : Int, errors : Int]
    /\ stats'.requests = stats.requests + One(Attempted(x.pc, y))
                                        - One(Attempted(call[c].pc, result[c]))
    /\ stats'.errors = stats.errors + One(y \in Failures) - One(result[c] \in Failures)
    /\ \/ /\ stats'.throttled = stats.throttled /\ UNCHANGED short
          /\ y = "refused" => result[c] = "refused"
       \/ /\ stats'.throttled = stats.throttled + 1 /\ short' = short \cup {c}
          /\ call[c].pc = "looking" /\ x.pc \notin Early
    /\ x.pc \in Early => call[c].pc \in Early

LEMMA StatsAreTyped ==
    ASSUME TypeOK
    PROVE  /\ stats \in [requests : Int, throttled : Int, errors : Int] /\ active \in Nat
           /\ stats.requests \in Nat /\ stats.throttled \in Nat /\ stats.errors \in Nat
<1>1. stats \in [requests : Nat, throttled : Nat, errors : Nat] /\ active \in Nat
  BY DEF TypeOK
<1> QED
  BY <1>1

StatsBecome(requests, throttled, errors) ==
    /\ stats' \in [requests : Int, throttled : Int, errors : Int]
    /\ stats'.requests = stats.requests + requests
    /\ stats'.throttled = stats.throttled + throttled
    /\ stats'.errors = stats.errors + errors
    /\ throttled = 0 => UNCHANGED short

LEMMA StatsChange ==
    ASSUME TypeOK
    PROVE  /\ UNCHANGED counts => StatsBecome(0, 0, 0)
           /\ CountsAttempt => StatsBecome(1, 0, 0)
           /\ Finishes(TRUE) => StatsBecome(0, 0, 1)
           /\ Finishes(FALSE) => StatsBecome(0, 0, 0)
  BY StatsAreTyped DEF Finishes, StatsBecome, CountsAttempt, counts

\* What the doors ask of the bucket is, at each, whether it holds a token.
LEMMA EachFindsTheSame ==
    ASSUME TypeOK, NEW c \in Callers
    PROVE  LET t == call[c].read IN
           /\ Allows(b, t) <=> ~(TokensAt(b, t) < Cost)
           /\ TimeToAct(b, t) > t <=> TokensAt(b, t) < Cost
<1> DEFINE t == call[c].read
           n == TokensAt(b, t)
<1>1. t \in Int /\ Cost = 1
  BY Constants, CallIsTyped DEF Calls
<1>2. n \in Int
  BY <1>1, Constants, DrawMoves DEF TypeOK, Reservable, TokensAt, Accrued, AtMost, AtLeast
<1> HIDE DEF n
<1>3. TokensAt(b, t) = n
  BY DEF n
<1> QED
  BY <1>1, <1>2, <1>3 DEF Allows, TimeToAct, AtLeast

\* A call that looks is counted as throttled where it finds no token, and only there.
LEMMA WhoFindsNoneIsThrottled ==
    ASSUME TypeOK, NEW c \in Callers, NEW yes \in BOOLEAN, Finds(c), Throttles(yes),
           yes <=> TokensAt(b, call[c].read) < Cost
    PROVE  \/ StatsBecome(0, 0, 0) /\ ~yes
           \/ StatsBecome(0, 1, 0) /\ short' = short \cup {c}
<1>1. CASE yes
  <2>1. stats' = [stats EXCEPT !.throttled = @ + 1] /\ short' = short \cup {c}
    BY <1>1 DEF Throttles, Finds
  <2> QED
    BY <2>1, StatsAreTyped DEF StatsBecome
<1>2. CASE ~yes
  <2>1. stats' = [stats EXCEPT !.throttled = @] /\ UNCHANGED short
    BY <1>2 DEF Throttles, Finds
  <2> QED
    BY <1>2, <2>1, StatsAreTyped DEF StatsBecome
<1> QED
  BY <1>1, <1>2

Accounted(c) == \E x \in Calls, y \in Outcomes : Moves(c, x, y) /\ Books(c, x, y)

LEMMA OutcomeSoFar ==
    ASSUME CallsAgree, NEW c \in Callers
    PROVE  /\ call[c].pc \notin {"open", "returned"} => result[c] = "none"
           /\ call[c].pc = "open" => result[c] = "ok"
  BY DEF CallsAgree, CallAgrees

\* What a step does to a call's locals alone.
LEMMA LocalsChange ==
    ASSUME TypeOK, NEW c \in Callers, NEW x \in Calls, x.read <= now,
           x.pc = "parked" => x.deadline = Never \/ x.act <= x.deadline,
           call' = [call EXCEPT ![c] = x], UNCHANGED result
    PROVE  Moves(c, x, result[c])
  BY CallIsTyped DEF Moves, TypeOK

LEMMA EnterIsAccounted ==
    ASSUME TypeOK, CallsAgree, NEW c \in Callers, Enter(c)
    PROVE  Accounted(c)
<1>1. call[c].pc = "idle" /\ result[c] = "none"
  BY OutcomeSoFar DEF Enter
<1>2. PICK x \in Calls, y \in Outcomes :
              /\ Moves(c, x, y)
              /\ \/ y = "rejected" /\ x.pc = "returned" /\ UNCHANGED <<active, counts>>
                 \/ /\ y = result[c] /\ active' = active + 1
                    /\ \/ x.pc = "entered" /\ UNCHANGED counts
                       \/ x.pc = "looking" /\ CountsAttempt
  BY CallEnters
<1>3. CASE y = "rejected" /\ x.pc = "returned" /\ UNCHANGED <<active, counts>>
  <2>1. StatsBecome(0, 0, 0)
    BY <1>3, StatsChange
  <2>2. Books(c, x, y)
    BY <1>1, <1>2, <1>3, <2>1, StatsAreTyped
       DEF Books, One, InsidePcs, Early, Failures, Attempted, StatsBecome
  <2> QED
    BY <1>2, <2>2 DEF Accounted
<1>4. CASE y = result[c] /\ active' = active + 1 /\ x.pc = "entered" /\ UNCHANGED counts
  <2>1. StatsBecome(0, 0, 0)
    BY <1>4, StatsChange
  <2>2. Books(c, x, y)
    BY <1>1, <1>2, <1>4, <2>1, StatsAreTyped
       DEF Books, One, InsidePcs, Early, Failures, Attempted, StatsBecome
  <2> QED
    BY <1>2, <2>2 DEF Accounted
<1>5. CASE y = result[c] /\ active' = active + 1 /\ x.pc = "looking"
           /\ CountsAttempt
  <2>1. StatsBecome(1, 0, 0)
    BY <1>5, StatsChange
  <2>2. Books(c, x, y)
    BY <1>1, <1>2, <1>5, <2>1, StatsAreTyped
       DEF Books, One, InsidePcs, Early, Failures, Attempted, StatsBecome
  <2> QED
    BY <1>2, <2>2 DEF Accounted
<1> QED
  BY <1>2, <1>3, <1>4, <1>5

LEMMA BuildIsAccounted ==
    ASSUME TypeOK, CallsAgree, NEW c \in Callers, Build(c)
    PROVE  Accounted(c)
<1>1. call[c].pc = "entered" /\ result[c] = "none"
  BY OutcomeSoFar DEF Build
<1>2. CASE Leaves(c, "unbuilt") /\ UNCHANGED counts
  <2>1. PICK x \in Calls : Moves(c, x, "unbuilt") /\ x.pc = "returned"
    BY <1>2, CallReturns DEF Leaves, Outcomes
  <2>2. Books(c, x, "unbuilt")
    BY <1>1, <1>2, <2>1, StatsAreTyped, StatsChange
       DEF Books, One, InsidePcs, Early, Failures, Attempted, Leaves, StatsBecome
  <2> QED
    BY <2>1, <2>2 DEF Accounted, Outcomes
<1>3. ASSUME NEW path \in Paths,
             Asks(c, [call[c] EXCEPT !.target = Joined(Base, path)]),
             UNCHANGED <<active, result>>
      PROVE  Accounted(c)
  <2> DEFINE t == Joined(Base, path)
             x == [[call[c] EXCEPT !.target = t] EXCEPT !.pc = "looking", !.read = now]
  <2>1. t \in Targets /\ now \in 0..MaxTime /\ now <= now
    BY Numbers DEF Targets, TypeOK
  <2> HIDE DEF t
  <2>2. x \in Calls /\ x.pc = "looking" /\ x.read <= now
    BY <2>1, CallIsTyped DEF Calls
  <2>3. call' = [call EXCEPT ![c] = x] /\ CountsAttempt
    BY <1>3 DEF Asks, t, CountsAttempt
  <2> HIDE DEF x
  <2>4. Moves(c, x, result[c])
    BY <1>3, <2>2, <2>3, LocalsChange
  <2>5. Books(c, x, result[c])
    BY <1>1, <1>3, <2>2, <2>3, StatsAreTyped, StatsChange
       DEF Books, One, InsidePcs, Early, Failures, Attempted, StatsBecome
  <2> QED
    BY <2>2, <2>4, <2>5, CallIsTyped DEF Accounted
<1> QED
  BY <1>2, <1>3 DEF Build

LEMMA AllowIsAccounted ==
    ASSUME TypeOK, CallsAgree, NEW c \in Callers, Allow(c)
    PROVE  Accounted(c)
<1>1. call[c].pc = "looking" /\ result[c] = "none" /\ Finds(c)
  BY OutcomeSoFar DEF Allow
<1>2. CASE Allows(b, call[c].read) /\ Leaves(c, "ok") /\ UNCHANGED stats
  <2>1. PICK x \in Calls : Moves(c, x, "ok") /\ x.pc = "returned"
    BY <1>2, CallReturns DEF Leaves, Outcomes
  <2>2. UNCHANGED short
    BY <1>1, <1>2, EachFindsTheSame DEF Finds
  <2>3. Books(c, x, "ok")
    BY <1>1, <1>2, <2>1, <2>2, StatsAreTyped
       DEF Books, One, InsidePcs, Early, Failures, Attempted, Leaves
  <2> QED
    BY <2>1, <2>3 DEF Accounted, Outcomes
<1>3. CASE ~Allows(b, call[c].read) /\ Leaves(c, "refused") /\ Throttles(TRUE)
  <2>1. PICK x \in Calls : Moves(c, x, "refused") /\ x.pc = "returned"
    BY <1>3, CallReturns DEF Leaves, Outcomes
  <2>2. StatsBecome(0, 1, 0) /\ short' = short \cup {c}
    BY <1>1, <1>3, EachFindsTheSame, WhoFindsNoneIsThrottled
  <2>3. Books(c, x, "refused")
    BY <1>1, <1>3, <2>1, <2>2, StatsAreTyped
       DEF Books, One, InsidePcs, Early, Failures, Attempted, Leaves, StatsBecome
  <2> QED
    BY <2>1, <2>3 DEF Accounted, Outcomes
<1> QED
  BY <1>2, <1>3 DEF Allow

\* The goroutine's step returns how the call came to it.
LEMMA ReturnIsAccounted ==
    ASSUME TypeOK, NEW c \in Callers, NEW how \in Outcomes, Returns(c, how),
           \A x \in Calls : x.pc = "returned" => Books(c, x, how)
    PROVE  Accounted(c)
  BY CallReturns DEF Accounted

LEMMA ReserveIsAccounted ==
    ASSUME TypeOK, CallsAgree, NEW c \in Callers, Reserve(c)
    PROVE  Accounted(c)
<1>1. call[c].pc = "looking" /\ result[c] = "none" /\ active' = active - 1 /\ UNCHANGED result
  BY OutcomeSoFar DEF Reserve
<1> DEFINE t == call[c].read
           a == TimeToAct(b, t)
           x == [call[c] EXCEPT !.pc = "holding", !.act = a]
<1>2. a \in Nat
  BY CallIsTyped, DrawMoves DEF Reserve
<1>3. call' = [call EXCEPT ![c] = x]
  BY <1>1, CallIsTyped DEF Reserve, TypeOK
<1>4. PICK yes \in BOOLEAN : Throttles(yes) /\ Finds(c) /\ (yes <=> TokensAt(b, t) < Cost)
  <2>1. Throttles(a > t) /\ Finds(c) /\ (a > t <=> TokensAt(b, t) < Cost)
    BY EachFindsTheSame DEF Reserve
  <2>2. (a > t) \in BOOLEAN
    BY <1>2, CallIsTyped
  <2> HIDE DEF a, t
  <2> QED
    BY <2>1, <2>2
<1> HIDE DEF a
<1>5. x \in Calls /\ x.pc = "holding" /\ x.read <= now
  BY <1>2, CallIsTyped DEF Calls
<1>6. Moves(c, x, result[c])
  BY <1>1, <1>3, <1>5, LocalsChange
<1>7. \/ StatsBecome(0, 0, 0)
      \/ StatsBecome(0, 1, 0) /\ short' = short \cup {c}
  BY <1>4, WhoFindsNoneIsThrottled
<1>8. Books(c, x, result[c])
  BY <1>1, <1>5, <1>7, StatsAreTyped
     DEF Books, One, InsidePcs, Early, Failures, Attempted, StatsBecome
<1> QED
  BY <1>5, <1>6, <1>8, CallIsTyped DEF Accounted

LEMMA LookIsAccounted ==
    ASSUME TypeOK, CallsAgree, NEW c \in Callers, Look(c)
    PROVE  Accounted(c)
<1>1. call[c].pc = "looking" /\ result[c] = "none" /\ UNCHANGED <<active, result>>
  BY OutcomeSoFar DEF Look
<1> DEFINE x == [call[c] EXCEPT !.pc = "drawing"]
<1>2. call' = [call EXCEPT ![c] = x]
  BY DEF Look
<1>3. \/ StatsBecome(0, 0, 0)
      \/ StatsBecome(0, 1, 0) /\ short' = short \cup {c}
  <2>1. PICK yes \in BOOLEAN :
           Throttles(yes) /\ Finds(c) /\ (yes <=> TokensAt(b, call[c].read) < Cost)
    <3>1. Finds(c) /\ Throttles(TokensAt(b, call[c].read) < Cost)
      BY Constants DEF Look
    <3>2. (TokensAt(b, call[c].read) < Cost) \in BOOLEAN
      BY CallIsTyped, Constants, TokensByHorizon
    <3> QED
      BY <3>1, <3>2
  <2> QED
    BY <2>1, WhoFindsNoneIsThrottled
<1>4. x \in Calls /\ x.pc = "drawing" /\ x.read <= now
  BY CallIsTyped DEF Calls
<1>5. Moves(c, x, result[c])
  BY <1>1, <1>2, <1>4, LocalsChange
<1>6. Books(c, x, result[c])
  BY <1>1, <1>3, <1>4, StatsAreTyped
     DEF Books, One, InsidePcs, Early, Failures, Attempted, StatsBecome
<1> QED
  BY <1>4, <1>5, <1>6, CallIsTyped DEF Accounted

\* A token that is due, for a call that drew it now or waited for it.
LEMMA PaidIsAccounted ==
    ASSUME TypeOK, CallsAgree, NEW c \in Callers, call[c].pc \in {"drawing", "parked"},
           Paid(c), UNCHANGED counts
    PROVE  Accounted(c)
<1>1. result[c] = "none" /\ StatsBecome(0, 0, 0)
  BY OutcomeSoFar, StatsChange
<1>2. CASE Leaves(c, "ok")
  <2>1. \A x \in Calls : x.pc = "returned" => Books(c, x, "ok")
    BY <1>1, <1>2, StatsAreTyped
       DEF Books, One, InsidePcs, Early, Failures, Attempted, StatsBecome, Leaves
  <2> QED
    BY <1>2, <2>1, ReturnIsAccounted DEF Leaves, Outcomes
<1>3. CASE call' = [call EXCEPT ![c].pc = "sent", ![c].until = Until(c)]
           /\ UNCHANGED <<active, result>>
  <2> DEFINE u == Until(c)
             x == [call[c] EXCEPT !.pc = "sent", !.until = u]
  <2>1. u \in Nat
    BY Numbers, Constants DEF Until
  <2>2. call' = [call EXCEPT ![c] = x]
    BY <1>3, CallIsTyped DEF TypeOK
  <2> HIDE DEF u
  <2>3. x \in Calls /\ x.pc = "sent" /\ x.read <= now
    BY <2>1, CallIsTyped DEF Calls
  <2>4. Moves(c, x, result[c])
    BY <1>3, <2>2, <2>3, LocalsChange
  <2>5. Books(c, x, result[c])
    BY <1>1, <1>3, <2>3, StatsAreTyped
       DEF Books, One, InsidePcs, Early, Failures, Attempted, StatsBecome
  <2> QED
    BY <2>3, <2>4, <2>5, CallIsTyped DEF Accounted
<1> QED
  BY <1>2, <1>3 DEF Paid

LEMMA LeaveIsAccounted ==
    ASSUME TypeOK, CallsAgree, NEW c \in Callers, call[c].pc \in {"drawing", "parked", "sent"},
           NEW how \in Outcomes \ {"rejected", "unbuilt", "refused"}, Leaves(c, how),
           StatsBecome(0, 0, One(how \in Failures))
    PROVE  Accounted(c)
<1>1. result[c] = "none"
  BY OutcomeSoFar
<1>2. /\ call[c].pc \in InsidePcs /\ call[c].pc \notin Early
      /\ result[c] \notin Failures /\ result[c] # "refused" /\ Attempted(call[c].pc, result[c])
  BY <1>1 DEF InsidePcs, Early, Failures, Attempted
<1>3. ASSUME NEW x \in Calls, x.pc = "returned"
      PROVE  Books(c, x, how)
  <2>1. x.pc \notin InsidePcs /\ x.pc \notin Early /\ how # "refused" /\ Attempted(x.pc, how)
    BY <1>3 DEF InsidePcs, Early, Attempted
  <2>2. PICK failed \in {0, 1} : failed = One(how \in Failures)
    BY DEF One
  <2>3. /\ One(x.pc \in InsidePcs) = 0 /\ One(call[c].pc \in InsidePcs) = 1
        /\ One(Attempted(x.pc, how)) = 1 /\ One(Attempted(call[c].pc, result[c])) = 1
        /\ One(result[c] \in Failures) = 0
    BY <1>2, <2>1 DEF One
  <2>4. active' = active + 0 - 1 /\ failed \in Int
    BY StatsAreTyped DEF Leaves
  <2>5. /\ stats' \in [requests : Int, throttled : Int, errors : Int]
        /\ stats'.requests = stats.requests + 1 - 1
        /\ stats'.errors = stats.errors + failed - 0
        /\ stats'.throttled = stats.throttled /\ UNCHANGED short
    BY <2>2, <2>4, StatsAreTyped DEF StatsBecome
  <2> QED
    BY <1>2, <2>1, <2>2, <2>3, <2>4, <2>5 DEF Books
<1> QED
  BY <1>3, ReturnIsAccounted DEF Leaves

LEMMA DrawIsAccounted ==
    ASSUME TypeOK, CallsAgree, NEW c \in Callers, Draw(c)
    PROVE  Accounted(c)
<1>1. call[c].pc = "drawing" /\ result[c] = "none" /\ UNCHANGED counts /\ StatsBecome(0, 0, 0)
  BY OutcomeSoFar, StatsChange DEF Draw
<1>2. CASE Leaves(c, Failure(c))
  <2>1. Failure(c) \in Outcomes \ {"rejected", "unbuilt", "refused"}
        /\ One(Failure(c) \in Failures) = 0
    BY DEF Failure, Outcomes, One, Failures
  <2> QED
    BY <1>1, <1>2, <2>1, LeaveIsAccounted
<1>3. CASE Paid(c)
  BY <1>1, <1>3, PaidIsAccounted
<1>4. CASE /\ call' = [call EXCEPT ![c].pc = "parked", ![c].act = TimeToAct(b, now)]
           /\ UNCHANGED <<active, result>> /\ InTime(c) /\ b' = ReserveAt(b, now)
  <2> DEFINE a == TimeToAct(b, now)
             x == [call[c] EXCEPT !.pc = "parked", !.act = a]
  <2>1. a \in Nat
    BY <1>4, Numbers, DrawMoves
  <2>2. call' = [call EXCEPT ![c] = x]
    BY <1>4, CallIsTyped DEF TypeOK
  <2>3. call[c].deadline = Never \/ a <= call[c].deadline
    BY <1>4 DEF InTime
  <2> HIDE DEF a
  <2>4. x \in Calls /\ x.pc = "parked" /\ x.read <= now
        /\ x.deadline = call[c].deadline /\ x.act = a
    BY <2>1, CallIsTyped DEF Calls
  <2>5. Moves(c, x, result[c])
    BY <1>4, <2>2, <2>3, <2>4, LocalsChange
  <2>6. Books(c, x, result[c])
    BY <1>1, <1>4, <2>4, StatsAreTyped
       DEF Books, One, InsidePcs, Early, Failures, Attempted, StatsBecome
  <2> QED
    BY <2>4, <2>5, <2>6, CallIsTyped DEF Accounted
<1> QED
  BY <1>2, <1>3, <1>4 DEF Draw

LEMMA WakeIsAccounted ==
    ASSUME TypeOK, CallsAgree, NEW c \in Callers, Wake(c)
    PROVE  Accounted(c)
  BY PaidIsAccounted DEF Wake

LEMMA CutIsAccounted ==
    ASSUME TypeOK, CallsAgree, NEW c \in Callers, Cut(c)
    PROVE  Accounted(c)
<1>1. call[c].pc = "parked" /\ Leaves(c, Failure(c)) /\ StatsBecome(0, 0, 0)
  BY StatsChange DEF Cut
<1>2. Failure(c) \in Outcomes \ {"rejected", "unbuilt", "refused"}
      /\ One(Failure(c) \in Failures) = 0
  BY DEF Failure, Outcomes, One, Failures
<1> QED
  BY <1>1, <1>2, LeaveIsAccounted

\* A Reservation's holder is not registered any more.
LEMMA HolderIsAccounted ==
    ASSUME TypeOK, CallsAgree, NEW c \in Callers, Cancel(c) \/ Use(c)
    PROVE  Accounted(c)
<1>1. call[c].pc = "holding" /\ result[c] = "none" /\ active' = active /\ StatsBecome(0, 0, 0)
  BY OutcomeSoFar, StatsChange DEF Cancel, Use
<1>2. PICK how \in {"cancelled", "ok"} : Returns(c, how)
  BY DEF Cancel, Use
<1>3. how \in Outcomes
  BY DEF Outcomes
<1>4. ASSUME NEW x \in Calls, x.pc = "returned"
      PROVE  Books(c, x, how)
  <2>1. /\ x.pc \notin InsidePcs /\ x.pc \notin Early /\ how # "refused" /\ Attempted(x.pc, how)
        /\ how \notin Failures
    BY <1>2, <1>4 DEF InsidePcs, Early, Failures, Attempted
  <2>2. /\ call[c].pc \notin InsidePcs /\ Attempted(call[c].pc, result[c])
        /\ result[c] \notin Failures /\ result[c] # "refused"
    BY <1>1 DEF InsidePcs, Failures, Attempted
  <2> QED
    BY <1>1, <2>1, <2>2, StatsAreTyped DEF Books, One, StatsBecome
<1> QED
  BY <1>2, <1>3, <1>4, ReturnIsAccounted

LEMMA GiveUpIsAccounted ==
    ASSUME TypeOK, CallsAgree, NEW c \in Callers, GiveUp(c)
    PROVE  Accounted(c)
<1> DEFINE x == [call[c] EXCEPT !.gaveUp = TRUE]
<1>1. /\ call[c].pc \in {"drawing", "parked", "sent"} /\ result[c] = "none"
      /\ UNCHANGED <<active, counts, result>> /\ call' = [call EXCEPT ![c] = x]
  BY OutcomeSoFar DEF GiveUp
<1>2. /\ x \in Calls /\ x.pc = call[c].pc /\ x.read <= now
      /\ x.pc = "parked" => x.deadline = Never \/ x.act <= x.deadline
  BY CallIsTyped DEF Calls
<1>3. StatsBecome(0, 0, 0)
  BY <1>1, StatsChange
<1> HIDE DEF x
<1>4. Moves(c, x, result[c])
  BY <1>1, <1>2, LocalsChange
<1>5. Books(c, x, result[c])
  BY <1>1, <1>2, <1>3, StatsAreTyped
     DEF Books, One, InsidePcs, Early, Failures, Attempted, StatsBecome
<1> QED
  BY <1>2, <1>4, <1>5, CallIsTyped DEF Accounted

LEMMA RoundTripIsAccounted ==
    ASSUME TypeOK, CallsAgree, NEW c \in Callers, Fail(c) \/ Abort(c) \/ Respond(c)
    PROVE  Accounted(c)
<1>1. call[c].pc = "sent"
  BY DEF Fail, Abort, Respond
<1>2. PICK how \in Outcomes \ {"rejected", "unbuilt", "refused"} :
         Leaves(c, how) /\ StatsBecome(0, 0, One(how \in Failures))
  <2>1. CASE Fail(c) \/ Abort(c)
    <3>1. PICK how \in {"error", "aborted"} : Leaves(c, how) /\ Finishes(TRUE)
      BY <2>1 DEF Fail, Abort
    <3> QED
      BY <3>1, StatsChange DEF One, Failures, Outcomes
  <2>2. CASE Respond(c)
    <3>1. PICK size \in Sizes : /\ Finishes(TooLarge(size))
                                /\ Leaves(c, IF TooLarge(size) THEN "oversized" ELSE "ok")
      BY <2>2 DEF Respond
    <3>2. CASE TooLarge(size)
      <4>1. StatsBecome(0, 0, 1)
        <5>1. stats' = [stats EXCEPT !.errors = @ + 1] /\ UNCHANGED short
          BY <3>1, <3>2 DEF Finishes
        <5> QED
          BY <5>1, StatsAreTyped DEF StatsBecome
      <4> QED
        BY <3>1, <3>2, <4>1 DEF One, Failures, Outcomes
    <3>3. CASE ~TooLarge(size)
      <4>1. StatsBecome(0, 0, 0)
        <5>1. stats' = [stats EXCEPT !.errors = @] /\ UNCHANGED short
          BY <3>1, <3>3 DEF Finishes
        <5> QED
          BY <5>1, StatsAreTyped DEF StatsBecome
      <4> QED
        BY <3>1, <3>3, <4>1 DEF One, Failures, Outcomes
    <3> QED
      BY <3>2, <3>3
  <2> QED
    BY <2>1, <2>2
<1> QED
  BY <1>1, <1>2, LeaveIsAccounted

LEMMA HandOverIsAccounted ==
    ASSUME TypeOK, CallsAgree, NEW c \in Callers, HandOver(c)
    PROVE  Accounted(c)
<1> DEFINE x == [call[c] EXCEPT !.pc = "open"]
<1>1. /\ call[c].pc = "sent" /\ result[c] = "none" /\ UNCHANGED active
      /\ call' = [call EXCEPT ![c] = x] /\ result' = [result EXCEPT ![c] = "ok"]
      /\ StatsBecome(0, 0, 0)
  BY OutcomeSoFar, StatsChange DEF HandOver
<1>2. x \in Calls /\ x.pc = "open" /\ x.read <= now /\ "ok" \in Outcomes
  BY CallIsTyped DEF Calls, Outcomes
<1> HIDE DEF x
<1>3. Moves(c, x, "ok")
  BY <1>1, <1>2 DEF Moves
<1>4. Books(c, x, "ok")
  BY <1>1, <1>2, StatsAreTyped
     DEF Books, One, InsidePcs, Early, Failures, Attempted, StatsBecome
<1> QED
  BY <1>2, <1>3, <1>4 DEF Accounted

\* However often the body is closed.
LEMMA CloseBodyIsAccounted ==
    ASSUME TypeOK, CallsAgree, NEW c \in Callers, CloseBody(c)
    PROVE  Accounted(c)
<1>1. /\ result[c] = "ok" /\ call[c].pc \in {"open", "returned"}
      /\ active' = active - Releases(c) /\ StatsBecome(0, 0, 0) /\ Returns(c, "ok")
  BY OutcomeSoFar, StatsChange, CallIsTyped DEF CloseBody
<1>2. Releases(c) = One(call[c].pc \in InsidePcs)
  BY <1>1 DEF Releases, One, InsidePcs
<1>3. \A x \in Calls : x.pc = "returned" => Books(c, x, "ok")
  BY <1>1, <1>2, StatsAreTyped
     DEF Books, One, InsidePcs, Early, Failures, Attempted, StatsBecome
<1> QED
  BY <1>1, <1>3, ReturnIsAccounted DEF Outcomes

LEMMA StepIsAccounted ==
    ASSUME TypeOK, CallsAgree, [Next]_vars
    PROVE  \/ UNCHANGED <<call, active, counts, result>>
           \/ \E c \in Callers : Accounted(c)
  BY EnterIsAccounted, BuildIsAccounted, AllowIsAccounted, ReserveIsAccounted, LookIsAccounted,
     DrawIsAccounted, WakeIsAccounted, CutIsAccounted, HolderIsAccounted, GiveUpIsAccounted,
     RoundTripIsAccounted, HandOverIsAccounted, CloseBodyIsAccounted
     DEF Next, Goroutine, Shut, Tick, vars

-----------------------------------------------------------------------------
(* The counts.                                                             *)

\* A set of callers in which only c comes or goes.
LEMMA CountMoves ==
    ASSUME NEW S \in SUBSET Callers, NEW T \in SUBSET Callers, NEW c \in Callers,
           T \ {c} = S \ {c}
    PROVE  /\ Cardinality(S) \in Nat /\ Cardinality(T) \in Nat
           /\ Cardinality(S) <= Cardinality(Callers)
           /\ Cardinality(T) = Cardinality(S) + One(c \in T) - One(c \in S)
<1>1. IsFiniteSet(S) /\ IsFiniteSet(T)
  BY Constants, FS_Subset
<1>2. Cardinality(S) \in Nat /\ Cardinality(T) \in Nat /\ Cardinality(S) <= Cardinality(Callers)
  BY <1>1, Constants, FS_Subset, FS_CardinalityType
<1>3. /\ Cardinality(S \ {c}) = IF c \in S THEN Cardinality(S) - 1 ELSE Cardinality(S)
      /\ Cardinality(T \ {c}) = IF c \in T THEN Cardinality(T) - 1 ELSE Cardinality(T)
  BY <1>1, FS_RemoveElement
<1>4. Cardinality(T \ {c}) = Cardinality(S \ {c})
  OBVIOUS
<1>5. /\ Cardinality(T) - One(c \in T) = Cardinality(T \ {c})
      /\ Cardinality(S) - One(c \in S) = Cardinality(S \ {c})
      /\ One(c \in T) \in Int /\ One(c \in S) \in Int
  BY <1>2, <1>3 DEF One
<1> QED
  BY <1>2, <1>4, <1>5

LEMMA BooksBalance ==
    ASSUME RequestsInv, NEW c \in Callers, Accounted(c)
    PROVE  RegisteredOnce' /\ StatsAddUp' /\ ShortHaveAsked'
<1> DEFINE In      == {d \in Callers : Inside(d)}
           Tried   == {d \in Callers : call[d].pc \notin {"idle", "entered"}
                                       /\ result[d] \notin {"rejected", "unbuilt"}}
           Failed  == {d \in Callers : result[d] \in {"error", "aborted", "oversized"}}
           Refused == {d \in Callers : result[d] = "refused"}
           Late    == {d \in Callers : call[d].pc \notin {"idle", "entered", "looking"}}
<1>1. TypeOK /\ RegisteredOnce /\ StatsAddUp /\ ShortHaveAsked
  BY DEF RequestsInv
<1>2. PICK x \in Calls, y \in Outcomes : Moves(c, x, y) /\ Books(c, x, y)
  BY DEF Accounted
<1>3. /\ \A d \in Callers : call'[d] = (IF d = c THEN x ELSE call[d])
      /\ \A d \in Callers : result'[d] = (IF d = c THEN y ELSE result[d])
  BY <1>1, <1>2 DEF Moves, TypeOK
<1>4. /\ In' \ {c} = In \ {c} /\ (c \in In' <=> x.pc \in InsidePcs)
      /\ (c \in In <=> call[c].pc \in InsidePcs)
  BY <1>3 DEF Inside, InsidePcs
<1>5. /\ Tried' \ {c} = Tried \ {c} /\ (c \in Tried' <=> Attempted(x.pc, y))
      /\ (c \in Tried <=> Attempted(call[c].pc, result[c]))
  BY <1>3 DEF Attempted
<1>6. /\ Failed' \ {c} = Failed \ {c} /\ (c \in Failed' <=> y \in Failures)
      /\ (c \in Failed <=> result[c] \in Failures)
  BY <1>3 DEF Failures
<1>7. /\ Refused' \ {c} = Refused \ {c} /\ (c \in Refused' <=> y = "refused")
      /\ (c \in Refused <=> result[c] = "refused")
  BY <1>3
<1>8. /\ Late' \ {c} = Late \ {c} /\ (c \in Late' <=> x.pc \notin Early)
      /\ (c \in Late <=> call[c].pc \notin Early)
  BY <1>3 DEF Early
<1>9. /\ active = Cardinality(In) /\ stats.requests = Cardinality(Tried)
      /\ stats.errors = Cardinality(Failed) /\ stats.throttled = Cardinality(short)
      /\ Refused \subseteq short /\ short \subseteq Late
  BY <1>1 DEF RegisteredOnce, StatsAddUp, ShortHaveAsked
<1>10. /\ stats.requests \in Nat /\ stats.errors \in Nat /\ stats.throttled \in Nat
       /\ active \in Nat
  BY <1>1, StatsAreTyped
<1>11. /\ In \in SUBSET Callers /\ In' \in SUBSET Callers
       /\ Tried \in SUBSET Callers /\ Tried' \in SUBSET Callers
       /\ Failed \in SUBSET Callers /\ Failed' \in SUBSET Callers
       /\ short \in SUBSET Callers /\ short' \in SUBSET Callers /\ short' \ {c} = short \ {c}
  BY <1>1, <1>2 DEF TypeOK, Books
<1> HIDE DEF In, Tried, Failed, Refused, Late
<1>12. RegisteredOnce'
  <2>1. active' = Cardinality(In')
    BY <1>2, <1>4, <1>9, <1>11, CountMoves DEF Books, One
  <2> QED
    BY <2>1 DEF RegisteredOnce, In
<1>13. StatsAddUp'
  <2>1. stats'.requests = Cardinality(Tried')
    BY <1>2, <1>5, <1>9, <1>11, CountMoves DEF Books, One
  <2>2. stats'.errors = Cardinality(Failed')
    BY <1>2, <1>6, <1>9, <1>11, CountMoves DEF Books, One
  <2>3. stats'.throttled = Cardinality(short')
    <3>1. CASE stats'.throttled = stats.throttled /\ UNCHANGED short
      BY <1>9, <3>1
    <3>2. CASE /\ stats'.throttled = stats.throttled + 1 /\ short' = short \cup {c}
               /\ call[c].pc = "looking"
      <4>1. c \notin short /\ c \in short'
        BY <1>8, <1>9, <3>2 DEF Early
      <4> QED
        BY <1>9, <1>10, <1>11, <3>2, <4>1, CountMoves DEF One
    <3> QED
      BY <1>2, <3>1, <3>2 DEF Books
  <2>4. Refused' \subseteq short'
    BY <1>2, <1>7, <1>9 DEF Books
  <2> QED
    BY <2>1, <2>2, <2>3, <2>4 DEF StatsAddUp, Tried, Failed, Refused
<1>14. ShortHaveAsked'
  <2>1. short' \subseteq Late'
    BY <1>2, <1>8, <1>9 DEF Books
  <2> QED
    BY <2>1 DEF ShortHaveAsked, Late
<1> QED
  BY <1>12, <1>13, <1>14

-----------------------------------------------------------------------------
(* What a step does to the bucket: of all there is, four kinds.            *)

Draws(c, t) ==
    /\ call[c].pc \in {"looking", "drawing"}
    /\ t \in Nat /\ t <= now
    /\ b' = ReserveAt(b, t)
    /\ Admits(c, TimeToAct(b, t))
    /\ Rewinds(t)
    /\ UNCHANGED <<now, overpaid>>

TakesBack(c) ==
    /\ call[c].pc \in {"parked", "holding"}
    /\ Withdraws(c)
    /\ UNCHANGED now

Ticks == now < MaxTime /\ now' = now + 1 /\ UNCHANGED <<b, history>>

Quiet == UNCHANGED <<now, b, history>>

LEMMA FourKinds ==
    ASSUME TypeOK, [Next]_vars
    PROVE  \/ \E c \in Callers, t \in Nat : Draws(c, t)
           \/ \E c \in Callers : TakesBack(c)
           \/ Ticks
           \/ Quiet
<1>1. ASSUME NEW c \in Callers, Allow(c)
      PROVE  Quiet \/ \E t \in Nat : Draws(c, t)
  <2> DEFINE t == call[c].read
  <2>1. CASE UNCHANGED <<b, history>>
    BY <1>1, <2>1 DEF Allow, Quiet
  <2>2. CASE /\ Allows(b, t) /\ b' = ReserveAt(b, t) /\ Admits(c, t) /\ Rewinds(t)
             /\ UNCHANGED overpaid
    <3>1. t \in Nat /\ t <= now
      BY CallIsTyped
    <3>2. TokensAt(b, t) \in Int /\ TokensAt(b, t) >= 1
      BY <2>2, <3>1, Numbers, TokensByHorizon DEF Allows
    <3>3. TimeToAct(b, t) = t
      BY <3>1, <3>2, Constants DEF TimeToAct, AtLeast
    <3>4. call[c].pc \in {"looking", "drawing"} /\ UNCHANGED <<now, overpaid>>
      BY <1>1, <2>2 DEF Allow
    <3> QED
      BY <2>2, <3>1, <3>3, <3>4 DEF Draws
  <2> QED
    BY <1>1, <2>1, <2>2 DEF Allow
<1>2. ASSUME NEW c \in Callers, Reserve(c)
      PROVE  \E t \in Nat : Draws(c, t)
  <2>1. call[c].read \in Nat /\ call[c].read <= now
    BY CallIsTyped
  <2> QED
    BY <1>2, <2>1 DEF Reserve, Draws
<1>3. ASSUME NEW c \in Callers, Draw(c)
      PROVE  Quiet \/ Draws(c, now)
  <2>1. CASE UNCHANGED <<b, history>>
    BY <1>3, <2>1 DEF Draw, Quiet
  <2>2. CASE b' = ReserveAt(b, now) /\ Admits(c, TimeToAct(b, now)) /\ UNCHANGED <<rewound, overpaid>>
    <3>1. Rewinds(now)
      BY <2>2, Numbers DEF Rewinds, AtLeast
    <3> QED
      BY <1>3, <2>2, <3>1, Numbers DEF Draw, Draws
  <2> QED
    BY <1>3, <2>1, <2>2 DEF Draw
<1>4. ASSUME NEW c \in Callers, Cut(c) \/ Cancel(c)
      PROVE  TakesBack(c)
  BY <1>4 DEF Cut, Cancel, TakesBack
<1>5. Tick => Ticks
  BY DEF Tick, Ticks
<1>6. ASSUME NEW c \in Callers,
             Build(c) \/ Look(c) \/ Wake(c) \/ Abort(c) \/ Enter(c) \/ Use(c)
                \/ GiveUp(c) \/ CloseBody(c) \/ Fail(c) \/ Respond(c) \/ HandOver(c)
      PROVE  Quiet
  BY <1>6 DEF Build, Look, Wake, Abort, Enter, Use, GiveUp, CloseBody, Fail, Respond, HandOver,
              Quiet
<1>7. Shut \/ UNCHANGED vars => Quiet
  BY DEF Shut, vars, Quiet
<1> QED
  BY <1>1, <1>2, <1>3, <1>4, <1>5, <1>6, <1>7, Numbers DEF Next, Goroutine

LEMMA HistoryIsTyped ==
    ASSUME TypeOK
    PROVE  /\ at \in [Callers -> Nat \cup {Undue}]
           /\ \A c \in Callers : at[c] \in Int /\ (at[c] # Undue => at[c] \in Nat)
           /\ charged \in SUBSET (Callers \X Nat)
           /\ \A x \in charged : /\ x = <<x[1], x[2]>> /\ x[1] \in Callers
                                 /\ x[2] \in Nat /\ x[2] \in Int
           /\ IsFiniteSet(charged) /\ Cardinality(charged) \in Nat
<1>1. at \in [Callers -> Nat \cup {Undue}] /\ charged \in SUBSET (Callers \X Nat)
      /\ IsFiniteSet(charged)
  BY DEF TypeOK
<1>2. \A c \in Callers : at[c] \in Int /\ (at[c] # Undue => at[c] \in Nat)
  BY <1>1, Constants
<1>3. \A x \in charged : /\ x = <<x[1], x[2]>> /\ x[1] \in Callers
                         /\ x[2] \in Nat /\ x[2] \in Int
  BY <1>1
<1> QED
  BY <1>1, <1>2, <1>3, FS_CardinalityType

\* What the histories become.
LEMMA HistoryStep ==
    ASSUME TypeOK, [Next]_vars
    PROVE  /\ now' \in 0..MaxTime /\ now' >= now
           /\ b' \in Reservable /\ b'.tokens <= Burst /\ b'.last <= now'
           /\ at' \in [Callers -> Nat \cup {Undue}]
           /\ charged' \in SUBSET (Callers \X Nat) /\ IsFiniteSet(charged')
           /\ rewound' \in Nat /\ overpaid' \in Nat
<1>1. CASE \E c \in Callers, t \in Nat : Draws(c, t)
  <2>1. PICK c \in Callers, t \in Nat : Draws(c, t)
    BY <1>1
  <2>2. /\ b' \in Reservable /\ b'.tokens <= Burst /\ b'.last = t
        /\ TimeToAct(b, t) \in Nat
    BY <2>1, DrawMoves DEF Draws
  <2>3. at' \in [Callers -> Nat \cup {Undue}] /\ charged' \in SUBSET (Callers \X Nat)
    BY <2>1, <2>2, HistoryIsTyped DEF Draws, Admits
  <2>4. IsFiniteSet(charged')
    BY <2>1, HistoryIsTyped, FS_AddElement DEF Draws, Admits
  <2>5. AtLeast(0, b.last - t) \in Nat
    BY <2>1, Numbers DEF AtLeast
  <2>6. rewound' \in Nat
    BY <2>1, <2>5, Numbers DEF Draws, Rewinds
  <2> QED
    BY <2>1, <2>2, <2>3, <2>4, <2>6, Numbers DEF Draws, TypeOK
<1>2. CASE \E c \in Callers : TakesBack(c)
  <2>1. PICK c \in Callers : TakesBack(c)
    BY <1>2
  <2>2. call[c].act \in Nat
    BY CallIsTyped
  <2>3. b' \in Reservable /\ b'.tokens <= Burst /\ b'.last <= now
    BY <2>1, <2>2, CancelMoves, Numbers DEF TakesBack, Withdraws
  <2>4. at' \in [Callers -> Nat \cup {Undue}]
    BY <2>1, HistoryIsTyped DEF TakesBack, Withdraws
  <2>5. charged' \subseteq charged
    BY <2>1 DEF TakesBack, Withdraws
  <2>6. charged' \in SUBSET (Callers \X Nat) /\ IsFiniteSet(charged')
    BY <2>5, HistoryIsTyped, FS_Subset
  <2>7. overpaid' \in Nat
    BY <2>1, <2>2, Numbers, Constants DEF TakesBack, Withdraws, Overpays, AtLeast
  <2> QED
    BY <2>1, <2>3, <2>4, <2>6, <2>7, Numbers DEF TakesBack, Withdraws, TypeOK
<1>3. CASE Ticks
  <2>1. now' \in 0..MaxTime /\ now' >= now /\ b.last <= now'
    BY <1>3, Numbers, Constants DEF Ticks, TypeOK
  <2> QED
    BY <1>3, <2>1 DEF Ticks, TypeOK, history
<1>4. CASE Quiet
  BY <1>4, Constants DEF Quiet, TypeOK, history
<1> QED
  BY <1>1, <1>2, <1>3, <1>4, FourKinds

LEMMA TypeStep ==
    ASSUME RequestsInv, [Next]_vars, RegisteredOnce', StatsAddUp', ShortHaveAsked'
    PROVE  TypeOK'
<1>1. TypeOK /\ CallsAgree
  BY DEF RequestsInv
<1>2. /\ now' \in 0..MaxTime /\ now' >= now
      /\ b' \in Reservable /\ b'.tokens <= Burst /\ b'.last <= now'
      /\ at' \in [Callers -> Nat \cup {Undue}]
      /\ charged' \in SUBSET (Callers \X Nat) /\ IsFiniteSet(charged')
      /\ rewound' \in Nat /\ overpaid' \in Nat
  BY <1>1, HistoryStep
<1>3. stats' \in [requests : Int, throttled : Int, errors : Int]
  BY <1>1, StepIsAccounted, StatsAreTyped DEF Accounted, Books, counts
<1>4. /\ call' \in [Callers -> Calls] /\ result' \in [Callers -> Outcomes]
      /\ \A c \in Callers :
            call'[c].pc = "parked" => call'[c].deadline = Never \/ call'[c].act <= call'[c].deadline
      /\ \A c \in Callers : call'[c].read <= now
  <2>1. CASE UNCHANGED <<call, active, counts, result>>
    BY <1>1, <2>1 DEF TypeOK
  <2>2. ASSUME NEW c \in Callers, NEW x \in Calls, NEW y \in Outcomes, Moves(c, x, y)
        PROVE  /\ call' \in [Callers -> Calls] /\ result' \in [Callers -> Outcomes]
               /\ \A d \in Callers :
                     call'[d].pc = "parked" =>
                         call'[d].deadline = Never \/ call'[d].act <= call'[d].deadline
               /\ \A d \in Callers : call'[d].read <= now
    <3>1. \A d \in Callers : call'[d] = (IF d = c THEN x ELSE call[d])
      BY <1>1, <2>2 DEF Moves, TypeOK
    <3> QED
      BY <1>1, <2>2, <3>1 DEF Moves, TypeOK
  <2> QED
    BY <1>1, <2>1, <2>2, StepIsAccounted DEF Accounted
<1>5. \A c \in Callers : call'[c].read <= now'
  <2> SUFFICES ASSUME NEW c \in Callers PROVE call'[c].read <= now'
    OBVIOUS
  <2>1. call'[c] \in Calls /\ call'[c].read <= now
    BY <1>4
  <2>2. call'[c].read \in 0..MaxTime
    BY <2>1 DEF Calls
  <2>3. call'[c].read \in Nat /\ now \in Nat /\ now' \in Nat
    BY <1>1, <1>2, <2>2, Constants, Numbers
  <2> QED
    BY <1>2, <2>1, <2>3
<1>6. \A S \in SUBSET Callers : Cardinality(S) \in Nat /\ Cardinality(S) <= Cardinality(Callers)
  BY Constants, FS_Subset, FS_CardinalityType
<1>7. active' \in Nat
  <2>1. {c \in Callers : Inside(c)'} \in SUBSET Callers
    OBVIOUS
  <2> QED
    BY <1>6, <2>1 DEF RegisteredOnce
<1>8. /\ stats'.requests \in Nat /\ stats'.requests <= Cardinality(Callers)
      /\ stats'.errors \in Nat /\ stats'.errors <= Cardinality(Callers)
  BY <1>6 DEF StatsAddUp
<1>9. /\ short' \in SUBSET Callers
      /\ stats'.throttled \in Nat /\ stats'.throttled <= Cardinality(Callers)
  <2>1. short' \in SUBSET Callers
    BY DEF ShortHaveAsked
  <2> QED
    BY <1>6, <2>1 DEF StatsAddUp
<1>10. /\ stats' \in [requests : Nat, throttled : Nat, errors : Nat]
       /\ \A n \in {"requests", "throttled", "errors"} : stats'[n] <= Cardinality(Callers)
  BY <1>3, <1>8, <1>9
<1>11. shuttingDown' \in BOOLEAN /\ cancelled' \in BOOLEAN /\ (cancelled' => shuttingDown')
  <2>1. Shut => shuttingDown' \in BOOLEAN /\ cancelled' \in BOOLEAN /\ (cancelled' => shuttingDown')
    <3>1. shuttingDown \in BOOLEAN /\ cancelled \in BOOLEAN /\ (cancelled => shuttingDown)
      BY <1>1 DEF TypeOK
    <3>2. CASE shuttingDown' = TRUE /\ UNCHANGED cancelled
      BY <3>1, <3>2
    <3>3. CASE shuttingDown /\ cancelled' = TRUE /\ UNCHANGED shuttingDown
      BY <3>1, <3>3
    <3> QED
      BY <3>2, <3>3 DEF Shut
  <2>2. ~Shut => UNCHANGED lifetime
    BY DEF Next, Goroutine, Tick, vars, Build, Allow, Reserve, Look, Draw, Wake, Cut, Abort,
           Enter, Cancel, Use, GiveUp, CloseBody, Fail, Respond, HandOver
  <2> QED
    BY <1>1, <2>1, <2>2 DEF lifetime, TypeOK
<1> QED
  BY <1>2, <1>4, <1>5, <1>7, <1>9, <1>10, <1>11 DEF TypeOK

-----------------------------------------------------------------------------
(* A call's locals, its outcome and its token agree.                       *)

\* A step of c's alone.
OthersStay(c) ==
    \A d \in Callers \ {c} :
        /\ call'[d] = call[d] /\ result'[d] = result[d] /\ at'[d] = at[d]
        /\ \A x : x[1] = d => (x \in charged' <=> x \in charged)

LEMMA OthersAgree ==
    ASSUME CallsAgree, NEW c \in Callers, OthersStay(c), CallAgrees(c)'
    PROVE  CallsAgree'
<1> SUFFICES ASSUME NEW d \in Callers \ {c} PROVE CallAgrees(d)'
  BY DEF CallsAgree
<1>1. CallAgrees(d)
  BY DEF CallsAgree
<1>2. /\ call'[d] = call[d] /\ result'[d] = result[d] /\ at'[d] = at[d]
      /\ \A x : x[1] = d => (x \in charged' <=> x \in charged)
  BY DEF OthersStay
<1>3. <<d, at[d]>> \in charged <=> <<d, at[d]>> \in charged'
  BY <1>2
<1> QED
  BY <1>1, <1>2, <1>3 DEF CallAgrees

\* The call returns, its token used, none drawn, or none left to it.
LEMMA ReturnAgrees ==
    ASSUME TypeOK, CallsAgree, NEW c \in Callers, NEW how \in Outcomes \ {"none"},
           Returns(c, how), UNCHANGED <<at, charged>>
    PROVE  CallsAgree'
<1>1. call'[c].pc = "returned" /\ result'[c] = how
  BY DEF Returns, NoCall, TypeOK
<1>2. OthersStay(c)
  BY DEF OthersStay, Returns, TypeOK
<1>3. CallAgrees(c)
  BY DEF CallsAgree
<1>4. CallAgrees(c)'
  BY <1>1, <1>3 DEF CallAgrees
<1> QED
  BY <1>2, <1>4, OthersAgree

\* Steps before the token is drawn.
LEMMA EarlyAgrees ==
    ASSUME TypeOK, CallsAgree, NEW c \in Callers,
           call[c].pc \in {"idle", "entered", "looking"}, NEW x,
           call' = [call EXCEPT ![c] = x], x.pc \in {"entered", "looking", "drawing"},
           UNCHANGED <<result, at, charged>>
    PROVE  CallsAgree'
<1>1. call'[c] = x
  BY DEF TypeOK
<1>2. OthersStay(c)
  BY DEF OthersStay, TypeOK
<1>3. CallAgrees(c)
  BY DEF CallsAgree
<1>4. CallAgrees(c)'
  BY <1>1, <1>3 DEF CallAgrees
<1> QED
  BY <1>2, <1>4, OthersAgree

\* The token is drawn, due at t.
LEMMA DrawnAgrees ==
    ASSUME TypeOK, CallsAgree, NEW c \in Callers, NEW t \in Nat, Admits(c, t),
           call[c].pc \in {"looking", "drawing"}, NEW x, NEW y,
           call' = [call EXCEPT ![c] = x], result' = [result EXCEPT ![c] = y],
           \/ x.pc = "returned" /\ y # "none"
           \/ x.pc \in {"parked", "holding"} /\ x.act = t /\ y = "none"
           \/ x.pc = "sent" /\ (x.until = Never \/ x.until >= t + RequestTimeout) /\ y = "none"
    PROVE  CallsAgree'
<1>1. call'[c] = x /\ result'[c] = y /\ at'[c] = t /\ t # Undue /\ <<c, t>> \in charged'
  BY HistoryIsTyped, Constants DEF TypeOK, Admits
<1>2. OthersStay(c)
  <2> SUFFICES ASSUME NEW d \in Callers \ {c}
               PROVE  /\ call'[d] = call[d] /\ result'[d] = result[d] /\ at'[d] = at[d]
                      /\ \A z : z[1] = d => (z \in charged' <=> z \in charged)
    BY DEF OthersStay
  <2>1. call'[d] = call[d] /\ result'[d] = result[d] /\ at'[d] = at[d]
    BY HistoryIsTyped DEF TypeOK, Admits
  <2>2. \A z : z[1] = d => z # <<c, t>>
    OBVIOUS
  <2> QED
    BY <2>1, <2>2 DEF Admits
<1>3. CallAgrees(c)'
  BY <1>1 DEF CallAgrees
<1> QED
  BY <1>2, <1>3, OthersAgree

\* The token is withdrawn, and the call returns.
LEMMA WithdrawnAgrees ==
    ASSUME TypeOK, CallsAgree, NEW c \in Callers, Withdraws(c),
           NEW how \in Outcomes \ {"none"}, Returns(c, how)
    PROVE  CallsAgree'
<1>1. call'[c].pc = "returned" /\ result'[c] = how /\ at'[c] = Undue
  BY HistoryIsTyped DEF Returns, NoCall, TypeOK, Withdraws
<1>2. OthersStay(c)
  <2> SUFFICES ASSUME NEW d \in Callers \ {c}
               PROVE  /\ call'[d] = call[d] /\ result'[d] = result[d] /\ at'[d] = at[d]
                      /\ \A z : z[1] = d => (z \in charged' <=> z \in charged)
    BY DEF OthersStay
  <2>1. call'[d] = call[d] /\ result'[d] = result[d] /\ at'[d] = at[d]
    BY HistoryIsTyped DEF TypeOK, Withdraws, Returns
  <2>2. \A z : z[1] = d => z # <<c, call[c].act>>
    OBVIOUS
  <2> QED
    BY <2>1, <2>2 DEF Withdraws
<1>3. CallAgrees(c)'
  BY <1>1 DEF CallAgrees
<1> QED
  BY <1>2, <1>3, OthersAgree

\* A token that is due: the timeout of what is sent starts now.
LEMMA PaidAgrees ==
    ASSUME TypeOK, CallsAgree, NEW c \in Callers, Paid(c),
           \/ call[c].pc = "drawing" /\ Admits(c, now)
           \/ call[c].pc = "parked" /\ call[c].act <= now /\ UNCHANGED <<at, charged>>
    PROVE  CallsAgree'
<1>1. result[c] = "none" /\ CallAgrees(c) /\ now \in Nat /\ RequestTimeout \in Nat
  BY OutcomeSoFar, CallIsTyped, Numbers, Constants DEF CallsAgree
<1>2. CASE Leaves(c, "ok")
  <2> DEFINE x == [NoCall EXCEPT !.pc = "returned", !.door = call[c].door]
  <2>1. call' = [call EXCEPT ![c] = x] /\ x.pc = "returned" /\ result' = [result EXCEPT ![c] = "ok"]
    BY <1>2 DEF Leaves, Returns, NoCall
  <2> HIDE DEF x
  <2>2. CASE call[c].pc = "drawing" /\ Admits(c, now)
    BY <1>1, <2>1, <2>2, DrawnAgrees
  <2>3. CASE UNCHANGED <<at, charged>>
    BY <1>2, <2>3, ReturnAgrees DEF Leaves, Outcomes
  <2> QED
    BY <2>2, <2>3
<1>3. CASE call' = [call EXCEPT ![c].pc = "sent", ![c].until = Until(c)] /\ UNCHANGED result
  <2> DEFINE u == Until(c)
             x == [call[c] EXCEPT !.pc = "sent", !.until = u]
  <2>1. u = Never \/ u = now + RequestTimeout
    BY DEF Until
  <2>2. call' = [call EXCEPT ![c] = x] /\ result' = [result EXCEPT ![c] = "none"]
    BY <1>1, <1>3, CallIsTyped DEF TypeOK
  <2>3. x.pc = "sent" /\ x.until = u
    BY CallIsTyped DEF Calls
  <2> HIDE DEF x, u
  <2>4. CASE call[c].pc = "drawing" /\ Admits(c, now)
    <3>1. x.until = Never \/ x.until >= now + RequestTimeout
      BY <1>1, <2>1, <2>3
    <3> QED
      BY <1>1, <2>2, <2>3, <2>4, <3>1, DrawnAgrees
  <2>5. CASE call[c].pc = "parked" /\ call[c].act <= now /\ UNCHANGED <<at, charged>>
    <3>1. at[c] = call[c].act /\ at[c] \in Nat /\ at[c] # Undue
      BY <1>1, <2>5, CallIsTyped, Constants DEF CallAgrees
    <3>2. x.until = Never \/ x.until >= at[c] + RequestTimeout
      BY <1>1, <2>1, <2>3, <2>5, <3>1
    <3>3. call'[c] = x /\ result'[c] = "none" /\ OthersStay(c)
      BY <2>2, <2>5 DEF TypeOK, OthersStay
    <3>4. CallAgrees(c)'
      BY <1>1, <2>3, <2>5, <3>1, <3>2, <3>3 DEF CallAgrees
    <3> QED
      BY <3>3, <3>4, OthersAgree
  <2> QED
    BY <2>4, <2>5
<1> QED
  BY <1>2, <1>3 DEF Paid

LEMMA DoorAgrees ==
    ASSUME TypeOK, CallsAgree, NEW c \in Callers, Enter(c) \/ Build(c) \/ Look(c)
    PROVE  CallsAgree'
<1>1. /\ call[c].pc \in {"idle", "entered", "looking"} /\ UNCHANGED <<at, charged>>
  BY DEF Enter, Build, Look, history
<1>2. CASE Returns(c, "rejected") \/ Returns(c, "unbuilt")
  BY <1>1, <1>2, ReturnAgrees DEF Outcomes
<1>3. CASE /\ UNCHANGED result
           /\ \E x : /\ call' = [call EXCEPT ![c] = x]
                     /\ x.pc \in {"entered", "looking", "drawing"}
  BY <1>1, <1>3, EarlyAgrees
<1>4. ASSUME NEW x \in Calls, Asks(c, x)
      PROVE  \E z : call' = [call EXCEPT ![c] = z] /\ z.pc \in {"entered", "looking", "drawing"}
  <2> DEFINE z == [x EXCEPT !.pc = "looking", !.read = now]
  <2>1. call' = [call EXCEPT ![c] = z]
    BY <1>4 DEF Asks
  <2>2. z.pc = "looking"
    BY <1>4 DEF Calls
  <2> QED
    BY <2>1, <2>2
<1>5. CASE Enter(c)
  <2>1. CASE ~shuttingDown
    <3>1. PICK door \in Doors[c], d \in Deadlines :
             LET x == [call[c] EXCEPT !.door = door,
                                      !.deadline = IF door \in Waiting THEN d ELSE Never]
             IN  IF door \in Http
                 THEN call' = [call EXCEPT ![c] = [x EXCEPT !.pc = "entered"]] /\ UNCHANGED counts
                 ELSE Asks(c, x)
      BY <1>5, <2>1 DEF Enter
    <3> DEFINE D == IF door \in Waiting THEN d ELSE Never
               x == [call[c] EXCEPT !.door = door, !.deadline = D]
    <3>2. door \in {"none", "allow", "wait", "reserve", "do", "stream"} /\ D \in 0..Never
      BY Constants, RequestsAssumption
    <3> HIDE DEF D
    <3>3. x \in Calls
      BY <3>2, CallIsTyped DEF Calls
    <3>4. [x EXCEPT !.pc = "entered"].pc = "entered"
      BY <3>3 DEF Calls
    <3>5. CASE Asks(c, x)
      BY <1>3, <1>4, <1>5, <2>1, <3>3, <3>5 DEF Enter
    <3>6. CASE call' = [call EXCEPT ![c] = [x EXCEPT !.pc = "entered"]]
      BY <1>3, <1>5, <2>1, <3>4, <3>6 DEF Enter
    <3> QED
      BY <3>1, <3>5, <3>6 DEF D
  <2> QED
    BY <1>2, <1>5, <2>1 DEF Enter
<1>6. CASE Build(c)
  <2>1. CASE Leaves(c, "unbuilt")
    BY <1>2, <2>1 DEF Leaves
  <2>2. ASSUME NEW path \in Paths,
               Asks(c, [call[c] EXCEPT !.target = Joined(Base, path)]), UNCHANGED result
        PROVE  CallsAgree'
    <3> DEFINE t == Joined(Base, path)
               x == [call[c] EXCEPT !.target = t]
    <3>1. t \in Targets
      BY DEF Targets
    <3> HIDE DEF t
    <3>2. x \in Calls
      BY <3>1, CallIsTyped DEF Calls
    <3> QED
      BY <1>3, <1>4, <2>2, <3>2 DEF t
  <2> QED
    BY <1>6, <2>1, <2>2 DEF Build
<1>7. CASE Look(c)
  <2>1. call' = [call EXCEPT ![c] = [call[c] EXCEPT !.pc = "drawing"]] /\ UNCHANGED result
    BY <1>7 DEF Look
  <2>2. [call[c] EXCEPT !.pc = "drawing"].pc = "drawing"
    BY CallIsTyped DEF Calls
  <2> QED
    BY <1>3, <2>1, <2>2
<1> QED
  BY <1>5, <1>6, <1>7

LEMMA TokenAgrees ==
    ASSUME TypeOK, CallsAgree, NEW c \in Callers, Allow(c) \/ Reserve(c) \/ Draw(c)
    PROVE  CallsAgree'
<1>1. CASE Allow(c)
  <2> DEFINE x == [NoCall EXCEPT !.pc = "returned", !.door = call[c].door]
  <2>1. CASE Admits(c, call[c].read) /\ Leaves(c, "ok")
    <3>1. call' = [call EXCEPT ![c] = x] /\ result' = [result EXCEPT ![c] = "ok"]
          /\ x.pc = "returned" /\ call[c].pc = "looking" /\ call[c].read \in Nat
      BY <1>1, <2>1, CallIsTyped DEF Leaves, Returns, NoCall, Allow
    <3> HIDE DEF x
    <3> QED
      BY <2>1, <3>1, DrawnAgrees
  <2>2. CASE Leaves(c, "refused") /\ UNCHANGED history
    BY <2>2, ReturnAgrees DEF Leaves, Outcomes, history
  <2> QED
    BY <1>1, <2>1, <2>2 DEF Allow
<1>2. CASE Reserve(c)
  <2> DEFINE a == TimeToAct(b, call[c].read)
             x == [call[c] EXCEPT !.pc = "holding", !.act = a]
  <2>1. a \in Nat
    BY <1>2, CallIsTyped, DrawMoves DEF Reserve
  <2>2. call' = [call EXCEPT ![c] = x]
    BY <1>2, CallIsTyped DEF Reserve, TypeOK
  <2>3. /\ Admits(c, a) /\ call[c].pc = "looking"
        /\ result' = [result EXCEPT ![c] = "none"]
    BY <1>2, OutcomeSoFar DEF Reserve, TypeOK
  <2> HIDE DEF a
  <2>4. x.pc = "holding" /\ x.act = a
    BY CallIsTyped DEF Calls
  <2> HIDE DEF x
  <2> QED
    BY <2>1, <2>2, <2>3, <2>4, DrawnAgrees
<1>3. CASE Draw(c)
  <2> DEFINE a == TimeToAct(b, now)
             x == [call[c] EXCEPT !.pc = "parked", !.act = a]
  <2>1. CASE Leaves(c, Failure(c)) /\ UNCHANGED history
    <3>1. Failure(c) \in Outcomes \ {"none"}
      BY DEF Failure, Outcomes
    <3> QED
      BY <2>1, <3>1, ReturnAgrees DEF Leaves, history
  <2>2. CASE Admits(c, a) /\ a = now /\ Paid(c)
    BY <1>3, <2>2, PaidAgrees DEF Draw
  <2>3. CASE /\ Admits(c, a) /\ b' = ReserveAt(b, now)
             /\ call' = [call EXCEPT ![c].pc = "parked", ![c].act = TimeToAct(b, now)]
             /\ UNCHANGED result
    <3>1. a \in Nat
      BY <2>3, Numbers, DrawMoves
    <3>2. call' = [call EXCEPT ![c] = x]
      BY <2>3, CallIsTyped DEF TypeOK
    <3>3. /\ call[c].pc = "drawing" /\ result' = [result EXCEPT ![c] = "none"]
          /\ Admits(c, a)
      BY <1>3, <2>3, OutcomeSoFar DEF Draw, TypeOK
    <3> HIDE DEF a
    <3>4. x.pc = "parked" /\ x.act = a
      BY CallIsTyped DEF Calls
    <3> HIDE DEF x
    <3> QED
      BY <3>1, <3>2, <3>3, <3>4, DrawnAgrees
  <2> QED
    BY <1>3, <2>1, <2>2, <2>3 DEF Draw
<1> QED
  BY <1>1, <1>2, <1>3

LEMMA LaterAgrees ==
    ASSUME TypeOK, CallsAgree, NEW c \in Callers,
           \/ Wake(c) \/ Cut(c) \/ Cancel(c) \/ Use(c) \/ GiveUp(c)
           \/ Fail(c) \/ Abort(c) \/ Respond(c) \/ HandOver(c) \/ CloseBody(c)
    PROVE  CallsAgree'
<1>1. CASE Wake(c)
  BY <1>1, PaidAgrees, CallIsTyped, Numbers DEF Wake, history
<1>2. CASE Cut(c) \/ Cancel(c)
  <2>1. PICK how \in Outcomes \ {"none"} : Returns(c, how)
    BY <1>2 DEF Cut, Cancel, Leaves, Failure, Outcomes
  <2> QED
    BY <1>2, <2>1, WithdrawnAgrees DEF Cut, Cancel
<1>3. CASE Use(c) \/ Fail(c) \/ Abort(c) \/ Respond(c) \/ CloseBody(c)
  <2>1. PICK how \in Outcomes \ {"none"} : Returns(c, how)
    BY <1>3 DEF Use, Fail, Abort, Respond, CloseBody, Leaves, Outcomes
  <2> QED
    BY <1>3, <2>1, ReturnAgrees DEF Use, Fail, Abort, Respond, CloseBody, history
<1>4. CASE GiveUp(c)
  <2> DEFINE x == [call[c] EXCEPT !.gaveUp = TRUE]
  <2>1. call' = [call EXCEPT ![c] = x] /\ UNCHANGED <<result, at, charged>>
    BY <1>4 DEF GiveUp, history
  <2>2. /\ x.pc = call[c].pc /\ x.door = call[c].door /\ x.act = call[c].act
        /\ x.until = call[c].until
    BY CallIsTyped DEF Calls
  <2> HIDE DEF x
  <2>3. OthersStay(c) /\ call'[c] = x /\ CallAgrees(c)
    BY <2>1 DEF OthersStay, TypeOK, CallsAgree
  <2>4. CallAgrees(c)'
    BY <2>1, <2>2, <2>3 DEF CallAgrees
  <2> QED
    BY <2>3, <2>4, OthersAgree
<1>5. CASE HandOver(c)
  <2> DEFINE x == [call[c] EXCEPT !.pc = "open"]
  <2>1. /\ call' = [call EXCEPT ![c] = x] /\ result' = [result EXCEPT ![c] = "ok"]
        /\ call[c].door = "stream" /\ UNCHANGED <<at, charged>>
    BY <1>5 DEF HandOver, history
  <2>2. x.pc = "open" /\ x.door = call[c].door
    BY CallIsTyped DEF Calls
  <2> HIDE DEF x
  <2>3. OthersStay(c) /\ call'[c] = x /\ result'[c] = "ok" /\ CallAgrees(c)
    BY <2>1 DEF OthersStay, TypeOK, CallsAgree
  <2>4. CallAgrees(c)'
    BY <2>1, <2>2, <2>3 DEF CallAgrees
  <2> QED
    BY <2>3, <2>4, OthersAgree
<1> QED
  BY <1>1, <1>2, <1>3, <1>4, <1>5

LEMMA AgreeStep ==
    ASSUME TypeOK, CallsAgree, [Next]_vars
    PROVE  CallsAgree'
<1>1. Shut \/ Tick \/ UNCHANGED vars => CallsAgree'
  BY DEF Shut, Tick, vars, history, CallsAgree, CallAgrees
<1> QED
  BY <1>1, DoorAgrees, TokenAgrees, LaterAgrees DEF Next, Goroutine

-----------------------------------------------------------------------------
(* Debts fall due.                                                         *)

Dues == {x[2] : x \in charged}

\* A token drawn is a new one, due at the horizon where there is a debt.
LEMMA DrawCharges ==
    ASSUME TypeOK, CallsAgree, NEW c \in Callers, NEW t \in Nat, Draws(c, t)
    PROVE  /\ at[c] = Undue /\ TimeToAct(b, t) \in Nat /\ TimeToAct(b, t) = b'.event
           /\ at' = [at EXCEPT ![c] = b'.event]
           /\ charged' = charged \cup {<<c, b'.event>>}
           /\ \A x \in charged : x[1] # c
           /\ Dues' = Dues \cup {b'.event}
           /\ rewound' = rewound + AtLeast(0, b.last - t)
           /\ now' = now /\ overpaid' = overpaid
<1>1. /\ b'.event = TimeToAct(b, t) /\ b'.event \in Nat
  BY DrawMoves DEF Draws
<1>2. at[c] = Undue /\ \A x \in charged : x[1] # c
  BY DEF Draws, CallsAgree, CallAgrees
<1>3. at' = [at EXCEPT ![c] = b'.event] /\ charged' = charged \cup {<<c, b'.event>>}
  BY <1>1 DEF Draws, Admits
<1>4. Dues' = Dues \cup {b'.event}
  <2> DEFINE e == b'.event
  <2>1. charged' = charged \cup {<<c, e>>} /\ <<c, e>>[2] = e
    BY <1>3
  <2> HIDE DEF e
  <2>2. \A x \in charged' : x[2] \in Dues \cup {e}
    BY <2>1 DEF Dues
  <2>3. \A x \in charged : x \in charged' /\ x[2] \in Dues'
    BY <2>1 DEF Dues
  <2>4. e \in Dues'
    BY <2>1 DEF Dues
  <2>5. Dues' \subseteq Dues \cup {e}
    BY <2>2 DEF Dues
  <2>6. Dues \subseteq Dues'
    BY <2>3 DEF Dues
  <2> QED
    BY <2>4, <2>5, <2>6 DEF e
<1> QED
  BY <1>1, <1>2, <1>3, <1>4 DEF Draws, Rewinds

\* Whoever holds a token is charged for it, when it is due.
LEMMA HolderIsCharged ==
    ASSUME TypeOK, CallsAgree, NEW c \in Callers, call[c].pc \in {"parked", "holding"}
    PROVE  /\ at[c] = call[c].act /\ call[c].act \in Nat
           /\ <<c, call[c].act>> \in charged /\ call[c].act \in Dues
<1>1. at[c] = call[c].act /\ call[c].act \in Nat /\ at[c] # Undue
  <2>1. CallAgrees(c)
    BY DEF CallsAgree
  <2>2. at[c] = call[c].act
    BY <2>1 DEF CallAgrees
  <2> QED
    BY <2>2, CallIsTyped, Constants
<1>2. <<c, call[c].act>> \in charged
  BY <1>1 DEF CallsAgree, CallAgrees
<1> QED
  BY <1>1, <1>2 DEF Dues

LEMMA DuesAreTyped ==
    ASSUME TypeOK
    PROVE  /\ \A d \in Dues : d \in Nat
           /\ \A x \in charged : x[2] \in Dues
  BY HistoryIsTyped DEF Dues

\* The token of the last due is the only one that can go back whole.
LEMMA BackIsDue ==
    ASSUME TypeOK, CallsAgree, DebtIsDue, NEW c \in Callers, TakesBack(c), GoesBack(c)
    PROVE  /\ now <= call[c].act /\ \A d \in Dues : d <= call[c].act
           /\ b.event <= call[c].act /\ Horizon <= call[c].act
           /\ Refund(b, call[c].act) >= 1
<1> DEFINE a == call[c].act
<1>1. now <= a /\ (\A d \in Dues : d <= a) /\ a \in Nat
  BY CallIsTyped DEF GoesBack, Dues
<1>2. /\ now \in Nat /\ Horizon \in Int /\ b.event \in Int
  BY Numbers
<1>3. \A h \in {b.event, Horizon} : h <= a
  <2> SUFFICES ASSUME NEW h \in {b.event, Horizon}, h > a PROVE FALSE
    BY <1>1, <1>2
  <2>1. h \in now + 1..h
    BY <1>1, <1>2
  <2>2. h \in Dues
    BY <2>1 DEF DebtIsDue, Dues
  <2> QED
    BY <1>1, <1>2, <2>2
<1>4. Refund(b, a) = 1 - (b.event - a)
  BY <1>1, <1>2, Constants DEF Refund
<1> QED
  BY <1>1, <1>2, <1>3, <1>4

LEMMA DebtStep ==
    ASSUME TypeOK, CallsAgree, DebtIsDue, [Next]_vars
    PROVE  DebtIsDue'
<1>1. /\ now \in Nat /\ Horizon \in Int /\ b.event \in Int /\ b.last \in Int /\ b.last <= now
      /\ Burst \in Nat \ {0} /\ \A d \in Dues : d \in Nat
  BY Numbers, Constants, DuesAreTyped
<1>2. \A h \in Dues \cup {b.event, Horizon} : \A t \in now + 1..h : t \in Dues
  BY DEF DebtIsDue, Dues
<1>3. SUFFICES \A h \in Dues' \cup {b'.event, Horizon'} : \A t \in now' + 1..h : t \in Dues'
  BY DEF DebtIsDue, Dues
<1>4. CASE \E c \in Callers, t \in Nat : Draws(c, t)
  <2>1. PICK c \in Callers, t \in Nat : Draws(c, t)
    BY <1>4
  <2>2. /\ Dues' = Dues \cup {b'.event} /\ now' = now
        /\ b'.event = AtLeast(t, Horizon') /\ b'.event \in Nat /\ Horizon' \in Int
        /\ Horizon' > now => Horizon' <= Horizon + 1
        /\ t <= now
    BY <2>1, DrawCharges, DrawMoves, DrawMovesHorizon DEF Draws
  <2>3. ASSUME NEW h \in {b'.event, Horizon'}, NEW u \in now + 1..h
        PROVE  u \in Dues'
    <3>1. Horizon' > now /\ h = Horizon' /\ b'.event = Horizon' /\ h <= Horizon + 1 /\ u \in Int
      BY <1>1, <2>2, <2>3 DEF AtLeast
    <3>2. u = b'.event \/ u \in now + 1..Horizon
      BY <1>1, <2>2, <2>3, <3>1
    <3> QED
      BY <1>2, <2>2, <3>2
  <2>4. \A h \in Dues : \A u \in now + 1..h : u \in Dues'
    BY <1>2, <2>2
  <2> QED
    BY <2>2, <2>3, <2>4
<1>5. CASE \E c \in Callers : TakesBack(c)
  <2>1. PICK c \in Callers : TakesBack(c)
    BY <1>5
  <2> DEFINE a == call[c].act
             R == Refund(b, a)
  <2>2. /\ a \in Nat /\ a \in Dues /\ R \in Int /\ R = 1 - (b.event - a)
        /\ a < now \/ R <= 0 => b' = b
        /\ ~(a < now \/ R <= 0) =>
              /\ b'.event = IF a = b.event /\ a - 1 >= now THEN a - 1 ELSE b.event
              /\ Horizon' = AtLeast(now - Burst, Horizon - R)
        /\ charged' = IF GoesBack(c) THEN charged \ {<<c, a>>} ELSE charged
        /\ now' = now
    BY <2>1, HolderIsCharged, CancelMoves DEF TakesBack, Withdraws
  <2> HIDE DEF a, R
  <2>3. CASE ~GoesBack(c)
    <3>1. Dues' = Dues
      BY <2>2, <2>3 DEF Dues
    <3>2. b'.event <= b.event /\ b'.event \in Int
      BY <1>1, <2>2
    <3>3. Horizon' \in Int /\ (Horizon' <= Horizon \/ Horizon' <= now)
      <4>1. CASE b' = b
        BY <1>1, <4>1 DEF Horizon
      <4>2. CASE ~(a < now \/ R <= 0)
        BY <1>1, <2>2, <4>2 DEF AtLeast
      <4> QED
        BY <2>2, <4>1, <4>2
    <3>4. ASSUME NEW h \in Dues \cup {b'.event, Horizon'}, NEW u \in now + 1..h
          PROVE  u \in Dues
      BY <1>1, <1>2, <3>2, <3>3
    <3> QED
      BY <2>2, <3>1, <3>4
  <2>4. CASE GoesBack(c)
    <3>1. /\ now <= a /\ (\A d \in Dues : d <= a)
          /\ b.event <= a /\ Horizon <= a /\ R >= 1
      BY <2>1, <2>4, BackIsDue DEF a, R
    <3>2. \A d \in Dues : d # a => d \in Dues'
      <4> SUFFICES ASSUME NEW x \in charged, x[2] # a PROVE x[2] \in Dues'
        BY DEF Dues
      <4>1. x \in charged'
        BY <2>2, <2>4
      <4> QED
        BY <4>1 DEF Dues
    <3>3. \A d \in Dues' : d \in Dues
      BY <2>2, <2>4 DEF Dues
    <3>4. /\ b'.event = IF a = b.event /\ a - 1 >= now THEN a - 1 ELSE b.event
          /\ Horizon' = AtLeast(now - Burst, Horizon - R)
      BY <1>1, <2>2, <3>1
    <3>5. ASSUME NEW h \in {b'.event, Horizon'}, NEW u \in now + 1..h
          PROVE  u \in Dues'
      <4>1. u < a
        BY <1>1, <2>2, <3>1, <3>4 DEF AtLeast
      <4>2. u \in now + 1..a
        BY <1>1, <2>2, <4>1
      <4> QED
        BY <1>2, <2>2, <3>2, <4>1, <4>2
    <3>6. ASSUME NEW h \in Dues', NEW u \in now + 1..h
          PROVE  u \in Dues'
      <4>1. h \in Nat /\ h <= a /\ u \in Int /\ u <= h /\ u \in Dues
        BY <1>1, <1>2, <3>1, <3>3
      <4> QED
        BY <2>2, <3>2, <4>1
    <3> QED
      BY <2>2, <3>5, <3>6
  <2> QED
    BY <2>3, <2>4
<1>6. CASE Ticks
  <2>1. /\ Dues' = Dues /\ b'.event = b.event /\ Horizon' = Horizon /\ now' = now + 1
    BY <1>6 DEF Ticks, history, Dues, Horizon
  <2>2. \A h \in Dues \cup {b.event, Horizon} : \A t \in now' + 1..h : t \in now + 1..h
    BY <1>1, <2>1
  <2> QED
    BY <1>2, <2>1, <2>2
<1>7. CASE Quiet
  BY <1>2, <1>7 DEF Quiet, history, Dues, Horizon
<1> QED
  BY <1>4, <1>5, <1>6, <1>7, FourKinds

-----------------------------------------------------------------------------
(* Nothing leaks.                                                          *)

LEMMA LeakStep ==
    ASSUME TypeOK, CallsAgree, DebtIsDue, NothingLeaks, [Next]_vars
    PROVE  NothingLeaks'
<1>1. /\ now \in Nat /\ Horizon \in Int /\ b.last \in Int /\ b.last <= now
      /\ Burst \in Nat \ {0} /\ Start \in Nat /\ Start <= Burst
      /\ Cardinality(charged) \in Nat /\ IsFiniteSet(charged)
  BY Numbers, Constants, HistoryIsTyped
<1>2. /\ TokensAt(b, now) = AtMost(Burst, now - Horizon)
      /\ TokensAt(b, now) >= Start - Cardinality(charged)
  BY <1>1, Numbers, TokensByHorizon DEF NothingLeaks
<1>3. AtMost(Burst, now - Horizon) >= Start - Cardinality(charged)
  BY <1>2
<1>4. ASSUME b' \in Reservable, b'.tokens <= Burst, now' \in Nat, b'.last <= now'
      PROVE  TokensAt(b, now)' = AtMost(Burst, now' - Horizon')
  <2>1. b'.tokens \in Int /\ b'.last \in Int
    BY <1>4 DEF Reservable
  <2>2. TokensAt(b', now') = AtMost(Burst, b'.tokens + (now' - b'.last))
    BY <1>4, <2>1, Constants DEF TokensAt, Accrued, AtLeast
  <2>3. b'.tokens + (now' - b'.last) = now' - (b'.last - b'.tokens)
    BY <1>4, <2>1
  <2> QED
    BY <2>2, <2>3 DEF Horizon
<1>5. CASE \E c \in Callers, t \in Nat : Draws(c, t)
  <2>1. PICK c \in Callers, t \in Nat : Draws(c, t)
    BY <1>5
  <2>2. /\ b' \in Reservable /\ b'.tokens <= Burst /\ b'.last = t /\ t <= now /\ now' = now
        /\ Horizon' \in Int
        /\ Horizon' = t - Burst + 1 \/ Horizon' = Horizon + 1 - AtLeast(0, b.last - t)
    BY <2>1, DrawMoves, DrawMovesHorizon DEF Draws
  <2>3. TokensAt(b, now)' = AtMost(Burst, now - Horizon')
    BY <1>1, <1>4, <2>2
  <2>4. Cardinality(charged') = Cardinality(charged) + 1
    <3>1. charged' = charged \cup {<<c, b'.event>>} /\ <<c, b'.event>> \notin charged
      BY <2>1, DrawCharges
    <3> QED
      BY <1>1, <3>1, FS_AddElement
  <2>5. AtMost(Burst, now - Horizon') >= Start - (Cardinality(charged) + 1)
    <3>1. PICK h \in Int, n \in Nat : h = Horizon' /\ n = Cardinality(charged)
      BY <1>1, <2>2
    <3>2. /\ AtMost(Burst, now - Horizon) >= Start - n /\ t <= now
          /\ h = t - Burst + 1 \/ h = Horizon + 1 - AtLeast(0, b.last - t)
      BY <1>3, <2>2, <3>1
    <3>3. AtMost(Burst, now - h) >= Start - (n + 1)
      BY <1>1, <3>2 DEF AtMost, AtLeast
    <3> QED
      BY <3>1, <3>3
  <2> QED
    BY <2>3, <2>4, <2>5 DEF NothingLeaks
<1>6. CASE \E c \in Callers : TakesBack(c)
  <2>1. PICK c \in Callers : TakesBack(c)
    BY <1>6
  <2> DEFINE a == call[c].act
             R == Refund(b, a)
             n == Cardinality(charged)
  <2>2. /\ a \in Nat /\ <<c, a>> \in charged /\ R \in Int
        /\ a < now \/ R <= 0 => b' = b
        /\ ~(a < now \/ R <= 0) =>
              /\ b' \in Reservable /\ b'.tokens <= Burst /\ b'.last = now /\ Horizon' \in Int
              /\ Horizon' = AtLeast(now - Burst, Horizon - R)
        /\ charged' = IF GoesBack(c) THEN charged \ {<<c, a>>} ELSE charged
        /\ now' = now
    BY <2>1, HolderIsCharged, CancelMoves DEF TakesBack, Withdraws
  <2>3. GoesBack(c) => now <= a /\ R >= 1
    BY <2>1, BackIsDue
  <2>4. Cardinality(charged \ {<<c, a>>}) = n - 1 /\ n - 1 \in Nat
    <3>1. <<c, a>> \in charged
      BY <2>2
    <3> HIDE DEF a
    <3>2. Cardinality(charged \ {<<c, a>>}) = n - 1 /\ IsFiniteSet(charged \ {<<c, a>>})
      BY <1>1, <3>1, FS_RemoveElement
    <3> QED
      BY <3>2, FS_CardinalityType
  <2> HIDE DEF a, R, n
  <2>5. CASE a < now \/ R <= 0
    <3>1. ~GoesBack(c)
      BY <1>1, <2>2, <2>3, <2>5
    <3> QED
      BY <1>2, <2>2, <2>5, <3>1 DEF NothingLeaks, n
  <2>6. CASE ~(a < now \/ R <= 0)
    <3>1. R >= 1 /\ Horizon' = AtLeast(now - Burst, Horizon - R) /\ Horizon' \in Int
      BY <1>1, <2>2, <2>6
    <3>2. TokensAt(b, now)' = AtMost(Burst, now - Horizon')
      BY <1>1, <1>4, <2>2, <2>6
    <3>3. AtMost(Burst, now - Horizon') >= Start - (n - 1)
      BY <1>1, <1>3, <2>2, <2>4, <3>1 DEF AtMost, AtLeast, n
    <3>4. Cardinality(charged') = n \/ Cardinality(charged') = n - 1
      BY <2>2, <2>4 DEF n
    <3>5. AtMost(Burst, now - Horizon') >= Start - Cardinality(charged') 
      <4>1. AtMost(Burst, now - Horizon') \in Int /\ n \in Int
        BY <1>1, <2>4, <3>1 DEF AtMost, n
      <4> QED
        BY <1>1, <3>3, <3>4, <4>1
    <3> QED
      BY <3>2, <3>5 DEF NothingLeaks
  <2> QED
    BY <2>5, <2>6
<1>7. CASE Ticks
  <2>1. b' = b /\ charged' = charged /\ Horizon' = Horizon /\ now' = now + 1
    BY <1>7 DEF Ticks, history, Horizon
  <2>2. TokensAt(b, now)' = AtMost(Burst, now + 1 - Horizon)
    BY <1>1, <1>4, <2>1, Numbers
  <2>3. AtMost(Burst, now + 1 - Horizon) >= Start - Cardinality(charged)
    BY <1>1, <1>3 DEF AtMost
  <2> QED
    BY <2>1, <2>2, <2>3 DEF NothingLeaks
<1>8. CASE Quiet
  BY <1>8 DEF Quiet, history, NothingLeaks
<1> QED
  BY <1>5, <1>6, <1>7, <1>8, FourKinds

-----------------------------------------------------------------------------
(* In any window.                                                          *)

Windows == \A s, e \in Nat : s <= e => WindowHolds(s, e)

LEMMA DueInIsFinite ==
    \A s, e \in Nat : /\ DueIn(s, e) \in SUBSET Callers
                      /\ Cardinality(DueIn(s, e)) \in Nat
<1> SUFFICES ASSUME NEW s \in Nat, NEW e \in Nat
             PROVE  DueIn(s, e) \in SUBSET Callers /\ Cardinality(DueIn(s, e)) \in Nat
  OBVIOUS
<1>1. DueIn(s, e) \in SUBSET Callers
  BY DEF DueIn
<1> QED
  BY <1>1, Constants, FS_Subset, FS_CardinalityType

\* Arithmetic: the horizon goes from D to h with a draw at t, on a bucket last
\* updated at l.
LEMMA DrawableFalls ==
    ASSUME NEW s \in Nat, NEW e \in Nat, s <= e, NEW t \in Nat,
           NEW l \in Int, NEW D \in Int, NEW h \in Int, NEW d \in Nat,
           d = AtLeast(0, l - t), h >= D + 1 - d, h >= t - Burst + 1,
           h = t - Burst + 1 \/ h = D + 1 - d,
           h = t - Burst + 1 => D <= AtLeast(t, l) - Burst
    PROVE  /\ AtLeast(0, e - AtLeast(h, s - Burst)) \in Nat
           /\ AtLeast(0, e - AtLeast(D, s - Burst)) \in Nat
           /\ AtLeast(0, e - AtLeast(h, s - Burst)) <= AtLeast(0, e - AtLeast(D, s - Burst)) + d
           /\ AtLeast(t, h) \in s..e =>
                 AtLeast(0, e - AtLeast(h, s - Burst)) + 1
                     <= AtLeast(0, e - AtLeast(D, s - Burst)) + d
<1>1. Burst \in Nat \ {0}
  BY Constants
<1> QED
  BY <1>1 DEF AtLeast

LEMMA DrawKeepsWindows ==
    ASSUME TypeOK, CallsAgree, Windows, NEW c \in Callers, NEW t \in Nat, Draws(c, t)
    PROVE  Windows'
<1> SUFFICES ASSUME NEW s \in Nat, NEW e \in Nat, s <= e PROVE WindowHolds(s, e)'
  BY DEF Windows
<1>1. /\ Horizon \in Int /\ b.last \in Int /\ Burst \in Nat \ {0}
      /\ rewound \in Nat /\ overpaid \in Nat
  BY Numbers, Constants
<1>2. PICK n \in Nat : n = Cardinality(DueIn(s, e))
  BY DueInIsFinite
<1>3. n + AtLeast(0, e - AtLeast(Horizon, s - Burst)) <= Burst + (e - s) + rewound + overpaid
  BY <1>2 DEF Windows, WindowHolds, Drawable
<1>4. PICK h \in Int, due \in Nat, d \in Nat :
         /\ h = Horizon' /\ due = b'.event /\ due = AtLeast(t, h) /\ d = AtLeast(0, b.last - t)
         /\ h >= Horizon + 1 - d
         /\ h >= t - Burst + 1
         /\ h = t - Burst + 1 \/ h = Horizon + 1 - d
         /\ h = t - Burst + 1 => Horizon <= AtLeast(t, b.last) - Burst
         /\ rewound' = rewound + d /\ overpaid' = overpaid
         /\ at' = [at EXCEPT ![c] = due] /\ at[c] = Undue
  <2>1. /\ Horizon' \in Int /\ b'.event \in Nat /\ b'.event = AtLeast(t, Horizon')
        /\ AtLeast(0, b.last - t) \in Nat
    BY <1>1, DrawMoves DEF Draws, AtLeast
  <2>2. /\ Horizon' >= Horizon + 1 - AtLeast(0, b.last - t)
        /\ Horizon' >= t - Burst + 1
        /\ Horizon' = t - Burst + 1 \/ Horizon' = Horizon + 1 - AtLeast(0, b.last - t)
        /\ Horizon' = t - Burst + 1 => Horizon <= AtLeast(t, b.last) - Burst
    BY DrawMovesHorizon DEF Draws
  <2> QED
    BY <2>1, <2>2, DrawCharges
<1>5. PICK m \in Nat : m = Cardinality(DueIn(s, e))' /\ m = n + One(due \in s..e)
  <2>1. One(at[c] \in s..e) = 0
    BY <1>4, Constants DEF One, Undue
  <2>2. due \in Int /\ at' = [at EXCEPT ![c] = due]
    BY <1>4
  <2>3. /\ Cardinality(DueIn(s, e))' \in Nat
        /\ Cardinality(DueIn(s, e))' = n + One(due \in s..e) - 0
    <3> DEFINE S == DueIn(s, e)
               T == {k \in Callers : at'[k] \in s..e}
    <3>0. /\ S \in SUBSET Callers /\ \A k \in Callers : k \in S <=> at[k] \in s..e
          /\ T \in SUBSET Callers /\ \A k \in Callers : k \in T <=> at'[k] \in s..e
      BY DEF DueIn
    <3> HIDE DEF S, T
    <3>1. /\ Cardinality(T) \in Nat
          /\ Cardinality(T) = Cardinality(S) + One(c \in T) - One(c \in S)
          /\ (c \in T <=> due \in s..e) /\ (c \in S <=> at[c] \in s..e)
      <4>1. at'[c] = due /\ \A k \in Callers : k # c => at'[k] = at[k]
        BY <2>2, HistoryIsTyped
      <4>2. T \ {c} = S \ {c} /\ (c \in T <=> due \in s..e) /\ (c \in S <=> at[c] \in s..e)
        BY <3>0, <4>1
      <4> QED
        BY <3>0, <4>2, CountMoves
    <3>2. One(c \in T) = One(due \in s..e) /\ One(c \in S) = One(at[c] \in s..e)
      BY <3>1 DEF One
    <3>3. DueIn(s, e)' = T /\ DueIn(s, e) = S
      BY DEF DueIn, S, T
    <3> QED
      BY <3>3, <1>2, <2>1, <3>1, <3>2
  <2>4. n + One(due \in s..e) - 0 = n + One(due \in s..e)
    BY DEF One
  <2> QED
    BY <2>3, <2>4
<1> DEFINE V == AtLeast(0, e - AtLeast(h, s - Burst))
           W == AtLeast(0, e - AtLeast(Horizon, s - Burst))
<1>6. V \in Nat /\ W \in Nat /\ V <= W + d /\ (due \in s..e => V + 1 <= W + d)
  <2>1. /\ b.last \in Int /\ d = AtLeast(0, b.last - t) /\ h >= Horizon + 1 - d /\ h >= t - Burst + 1
        /\ h = t - Burst + 1 \/ h = Horizon + 1 - d
        /\ h = t - Burst + 1 => Horizon <= AtLeast(t, b.last) - Burst
        /\ due = AtLeast(t, h)
    BY <1>1, <1>4
  <2> QED
    BY <1>1, <2>1, DrawableFalls
<1>7. Drawable(s, e)' = V
  BY <1>4 DEF Drawable
<1> HIDE DEF V, W
<1>8. m + V <= Burst + (e - s) + (rewound + d) + overpaid
  <2>1. CASE due \in s..e
    <3>1. m = n + 1
      BY <1>5, <2>1 DEF One
    <3> QED
      BY <1>1, <1>3, <1>4, <1>6, <2>1, <3>1 DEF W
  <2>2. CASE due \notin s..e
    <3>1. m = n
      BY <1>5, <2>2 DEF One
    <3> QED
      BY <1>1, <1>3, <1>4, <1>6, <3>1 DEF W
  <2> QED
    BY <2>1, <2>2
<1> QED
  BY <1>4, <1>5, <1>7, <1>8 DEF WindowHolds

LEMMA CancelKeepsWindows ==
    ASSUME TypeOK, CallsAgree, DebtIsDue, Windows, NEW c \in Callers, TakesBack(c)
    PROVE  Windows'
<1> SUFFICES ASSUME NEW s \in Nat, NEW e \in Nat, s <= e PROVE WindowHolds(s, e)'
  BY DEF Windows
<1> DEFINE a == call[c].act
           R == Refund(b, a)
           W == AtLeast(0, e - AtLeast(Horizon, s - Burst))
<1>1. /\ Horizon \in Int /\ now \in Nat /\ b.event \in Int /\ Burst \in Nat \ {0}
      /\ rewound \in Nat /\ overpaid \in Nat
  BY Numbers, Constants
<1>2. PICK n \in Nat : n = Cardinality(DueIn(s, e))
  BY DueInIsFinite
<1>3. n + W <= Burst + (e - s) + rewound + overpaid
  BY <1>2 DEF Windows, WindowHolds, Drawable
<1>4. /\ a \in Nat /\ a \in Dues /\ at[c] = a /\ <<c, a>> \in charged
      /\ R \in Int /\ R = 1 - (b.event - a)
      /\ a < now \/ R <= 0 => b' = b
      /\ ~(a < now \/ R <= 0) =>
            Horizon' \in Int /\ Horizon' = AtLeast(now - Burst, Horizon - R)
      /\ at' = [at EXCEPT ![c] = Undue] /\ rewound' = rewound /\ Overpays(c)
  BY HolderIsCharged, CancelMoves DEF TakesBack, Withdraws
<1>5. PICK m \in Nat : m = Cardinality(DueIn(s, e))' /\ m = n - One(a \in s..e)
  <2>1. One(Undue \in s..e) = 0
    BY Constants DEF One, Undue
  <2>2. /\ Cardinality(DueIn(s, e))' \in Nat
        /\ Cardinality(DueIn(s, e))' = n + 0 - One(a \in s..e)
    <3>1. at' = [at EXCEPT ![c] = Undue] /\ Undue \in Int /\ at[c] = a
      BY <1>4, Constants
    <3> DEFINE S == DueIn(s, e)
               T == {k \in Callers : at'[k] \in s..e}
    <3>0. /\ S \in SUBSET Callers /\ \A k \in Callers : k \in S <=> at[k] \in s..e
          /\ T \in SUBSET Callers /\ \A k \in Callers : k \in T <=> at'[k] \in s..e
      BY DEF DueIn
    <3> HIDE DEF S, T
    <3>2. /\ Cardinality(T) \in Nat
          /\ Cardinality(T) =
                Cardinality(S) + One(c \in T) - One(c \in S)
          /\ (c \in T <=> Undue \in s..e) /\ (c \in S <=> at[c] \in s..e)
      <4>1. at'[c] = Undue /\ \A k \in Callers : k # c => at'[k] = at[k]
        BY <3>1, HistoryIsTyped
      <4>2. T \ {c} = S \ {c} /\ (c \in T <=> Undue \in s..e) /\ (c \in S <=> at[c] \in s..e)
        BY <3>0, <4>1
      <4> QED
        BY <3>0, <4>2, CountMoves
    <3>4. One(c \in T) = One(Undue \in s..e) /\ One(c \in S) = One(at[c] \in s..e)
      BY <3>2 DEF One
    <3>3. DueIn(s, e)' = T /\ DueIn(s, e) = S
      BY DEF DueIn, S, T
    <3> QED
      BY <3>3, <1>2, <2>1, <3>1, <3>2, <3>4
  <2>3. n + 0 - One(a \in s..e) = n - One(a \in s..e)
    BY DEF One
  <2> QED
    BY <2>2, <2>3
<1>6. PICK g \in {0, 1} : g = IF GoesBack(c) THEN 0 ELSE 1
  OBVIOUS
<1>7. PICK v \in Nat : v = overpaid' /\ v = overpaid + IF now <= a THEN AtLeast(0, g - (b.event - a)) ELSE 0
  BY <1>1, <1>4, <1>6, Constants DEF Overpays, AtLeast
<1>8. W \in Nat /\ Drawable(s, e) = W
  BY <1>1 DEF AtLeast, Drawable
<1>9. CASE a < now \/ R <= 0
  <2>1. Drawable(s, e)' = W /\ m <= n /\ v >= overpaid
    <3>1. b' = b
      BY <1>4, <1>9
    <3>2. Drawable(s, e)' = Drawable(s, e)
      BY <3>1 DEF Drawable, Horizon
    <3>3. m <= n
      BY <1>5 DEF One
    <3>4. v >= overpaid
      BY <1>1, <1>4, <1>7 DEF AtLeast
    <3> QED
      BY <1>8, <3>2, <3>3, <3>4
  <2> HIDE DEF W, R, a
  <2>2. m + W <= Burst + (e - s) + rewound + v
    BY <1>1, <1>3, <1>8, <2>1
  <2> QED
    BY <1>4, <1>5, <1>7, <2>1, <2>2 DEF WindowHolds
<1>10. CASE ~(a < now \/ R <= 0)
  <2> HIDE DEF a, R
  <2>1. PICK h \in Int : h = Horizon' /\ h = AtLeast(now - Burst, Horizon - R)
    BY <1>4, <1>10
  <2> DEFINE V == AtLeast(0, e - AtLeast(h, s - Burst))
  <2>2. Drawable(s, e)' = V
    BY <2>1 DEF Drawable
  <2>3. R >= 1 /\ now <= a /\ v = overpaid + R - (1 - g)
    BY <1>1, <1>4, <1>6, <1>7, <1>10 DEF AtLeast
  <2>4. V \in Nat /\ V <= W + R /\ V <= Burst + (e - s)
    BY <1>1, <1>4, <2>1, <2>3 DEF AtLeast
  <2>5. m + V <= Burst + (e - s) + rewound + v
    <3>1. CASE a \in s..e
      <4>1. m = n - 1
        BY <1>5, <3>1 DEF One
      <4> HIDE DEF V, W
      <4> QED
        BY <1>1, <1>3, <1>4, <1>6, <1>8, <2>3, <2>4, <4>1
    <3>2. CASE a \notin s..e /\ g = 1
      <4>1. m = n
        BY <1>5, <3>2 DEF One
      <4> HIDE DEF V, W
      <4> QED
        BY <1>1, <1>3, <1>4, <1>8, <2>3, <2>4, <3>2, <4>1
    <3>3. CASE g = 0 /\ a < s
      \* Nothing falls due after a.
      <4>1. GoesBack(c)
        BY <1>6, <3>3
      <4>2. DueIn(s, e) = {}
        <5> SUFFICES ASSUME NEW d \in Callers, at[d] \in s..e PROVE FALSE
          BY DEF DueIn
        <5>1. at[d] \in Nat /\ at[d] # Undue /\ at[d] > a
          BY <1>4, <3>3, HistoryIsTyped, Constants DEF Undue
        <5>2. <<d, at[d]>> \in charged
          BY <5>1 DEF CallsAgree, CallAgrees
        <5>3. at[d] \in Dues
          BY <5>2 DEF Dues
        <5> QED
          BY <1>4, <4>1, <5>1, <5>3, BackIsDue DEF a
      <4>3. m = 0
        <5>1. n = 0
          BY <1>2, <4>2, FS_EmptySet
        <5>2. m = 0 - One(a \in s..e)
          BY <1>5, <5>1
        <5> QED
          <6>1. a \notin s..e
            BY <1>4, <3>3
          <6>2. One(a \in s..e) = 0
            BY <6>1 DEF One
          <6> QED
            BY <5>2, <6>2
      <4> HIDE DEF V
      <4> QED
        BY <1>1, <1>4, <2>3, <2>4, <3>3, <4>3
    <3>4. CASE g = 0 /\ a > e
      \* In the window up to a, c's token counts.
      <4>1. m = n
        BY <1>4, <1>5, <3>4 DEF One
      <4>2. PICK k \in Nat : k = Cardinality(DueIn(s, a))
        BY <1>4, DueInIsFinite
      <4>3. n + 1 <= k
        <5> DEFINE N == DueIn(s, e) \cup {c}
        <5>1. IsFiniteSet(DueIn(s, e)) /\ c \notin DueIn(s, e)
          BY <1>4, <3>4, DueInIsFinite, Constants, FS_Subset DEF DueIn
        <5>2. Cardinality(N) = n + 1
          BY <1>2, <5>1, FS_AddElement
        <5>3. N \subseteq DueIn(s, a)
          <6> SUFFICES ASSUME NEW d \in N PROVE d \in DueIn(s, a)
            OBVIOUS
          <6>1. d \in Callers /\ at[d] \in Int /\ s <= at[d] /\ at[d] <= a
            BY <1>4, <3>4, HistoryIsTyped DEF DueIn
          <6> QED
            BY <1>4, <6>1 DEF DueIn
        <5>4. IsFiniteSet(DueIn(s, a))
          BY <1>4, DueInIsFinite, Constants, FS_Subset
        <5> HIDE DEF N
        <5> QED
          BY <4>2, <5>2, <5>3, <5>4, FS_Subset
      <4>4. k + AtLeast(0, a - AtLeast(Horizon, s - Burst)) <= Burst + (a - s) + rewound + overpaid
        BY <1>4, <3>4, <4>2 DEF Windows, WindowHolds, Drawable
      <4>5. CASE e >= AtLeast(Horizon, s - Burst)
        <5>1. AtLeast(0, a - AtLeast(Horizon, s - Burst)) = W + (a - e)
          BY <1>1, <1>4, <3>4, <4>5 DEF AtLeast
        <5> HIDE DEF V, W
        <5> QED
          BY <1>1, <1>4, <1>8, <2>3, <2>4, <3>4, <4>1, <4>3, <4>4, <5>1
      <4>6. CASE ~(e >= AtLeast(Horizon, s - Burst))
        <5>1. W = 0 /\ V <= R - 1
          BY <1>1, <1>4, <2>1, <2>3, <4>6 DEF AtLeast
        <5> HIDE DEF V, W
        <5> QED
          BY <1>1, <1>3, <1>4, <1>8, <2>3, <2>4, <3>4, <4>1, <5>1
      <4> QED
        BY <4>5, <4>6
    <3> QED
      BY <1>4, <1>6, <3>1, <3>2, <3>3, <3>4
  <2> HIDE DEF V
  <2> QED
    BY <1>4, <1>5, <1>7, <2>2, <2>5 DEF WindowHolds
<1> QED
  BY <1>9, <1>10

LEMMA WindowStep ==
    ASSUME TypeOK, CallsAgree, DebtIsDue, Windows, [Next]_vars
    PROVE  Windows'
<1>1. Ticks \/ Quiet => Windows'
  BY DEF Ticks, Quiet, history, Windows, WindowHolds, Drawable, DueIn, Horizon
<1> QED
  BY <1>1, FourKinds, DrawKeepsWindows, CancelKeepsWindows

-----------------------------------------------------------------------------
(* In order, as long as no draw looked at an older clock.                  *)

LEMMA DrawKeepsOrder ==
    ASSUME TypeOK, CallsAgree, OrderlyUnlessRewound, NEW c \in Callers, NEW t \in Nat, Draws(c, t)
    PROVE  OrderlyUnlessRewound'
<1> SUFFICES ASSUME rewound' = 0
             PROVE  /\ overpaid' = 0
                    /\ \A x \in charged' : x[2] >= now' => x[2] <= b'.event
                    /\ \A x, y \in charged' : x[2] = y[2] /\ x[2] > now' => x = y
                    /\ b'.event >= now' => b'.event <= Horizon' \/ b'.event <= b'.last
  BY DEF OrderlyUnlessRewound
<1>1. /\ Horizon \in Int /\ b.last \in Int /\ b.event \in Int /\ now \in Nat /\ b.last <= now
      /\ rewound \in Nat
  BY Numbers
<1>2. PICK e \in Nat : e = b'.event /\ e = AtLeast(t, Horizon')
  BY DrawMoves DEF Draws
<1>3. PICK h \in Int : h = Horizon' /\ (h > t /\ t >= b.last => h = Horizon + 1)
                       /\ h >= Horizon + 1 - AtLeast(0, b.last - t)
  BY DrawMoves, DrawMovesHorizon DEF Draws
<1>4. /\ t <= now /\ b'.last = t /\ now' = now /\ overpaid' = overpaid
      /\ charged' = charged \cup {<<c, e>>} /\ rewound' = rewound + AtLeast(0, b.last - t)
  BY <1>2, DrawMoves, DrawCharges DEF Draws
<1>5. rewound = 0 /\ t >= b.last /\ h >= Horizon + 1 /\ e = AtLeast(t, h)
  BY <1>1, <1>2, <1>3, <1>4 DEF AtLeast
<1>6. /\ overpaid = 0
      /\ \A x \in charged : x[2] >= now => x[2] <= b.event
      /\ \A x, y \in charged : x[2] = y[2] /\ x[2] > now => x = y
      /\ b.event >= now => b.event <= Horizon \/ b.event <= b.last
  BY <1>5 DEF OrderlyUnlessRewound
<1>7. ASSUME NEW x \in charged, x[2] >= now
      PROVE  x[2] <= e /\ (x[2] > now => x[2] < e)
  <2>1. x[2] \in Int /\ x[2] <= b.event
    BY <1>6, <1>7, HistoryIsTyped
  <2>2. x[2] <= Horizon \/ x[2] <= b.last
    BY <1>1, <1>6, <1>7, <2>1
  <2> QED
    BY <1>1, <1>4, <1>5, <1>7, <2>1, <2>2 DEF AtLeast
<1>8. \A x \in charged' : x[2] >= now => x[2] <= e
  BY <1>4, <1>7
<1>9. ASSUME NEW x \in charged', NEW y \in charged', x[2] = y[2], x[2] > now
      PROVE  x = y
  <2>1. ASSUME NEW z \in charged, z[2] > now PROVE z[2] # e
    <3>1. z[2] \in Int
      BY HistoryIsTyped
    <3> QED
      BY <1>1, <1>7, <2>1, <3>1
  <2> QED
    BY <1>4, <1>6, <1>9, <2>1
<1>10. e >= now => e <= h \/ e <= t
  BY <1>5 DEF AtLeast
<1> QED
  BY <1>2, <1>3, <1>4, <1>6, <1>8, <1>9, <1>10

LEMMA CancelKeepsOrder ==
    ASSUME TypeOK, CallsAgree, DebtIsDue, OrderlyUnlessRewound, NEW c \in Callers, TakesBack(c)
    PROVE  OrderlyUnlessRewound'
<1> DEFINE a == call[c].act
           R == Refund(b, a)
<1> SUFFICES ASSUME rewound' = 0
             PROVE  /\ overpaid' = 0
                    /\ \A x \in charged' : x[2] >= now' => x[2] <= b'.event
                    /\ \A x, y \in charged' : x[2] = y[2] /\ x[2] > now' => x = y
                    /\ b'.event >= now' => b'.event <= Horizon' \/ b'.event <= b'.last
  BY DEF OrderlyUnlessRewound
<1>1. /\ Horizon \in Int /\ b.last \in Int /\ b.event \in Int /\ now \in Nat /\ b.last <= now
      /\ \A x \in charged : x[2] \in Nat
  BY Numbers, HistoryIsTyped
<1>2. /\ a \in Nat /\ <<c, a>> \in charged /\ R \in Int /\ R = 1 - (b.event - a)
      /\ charged' = IF GoesBack(c) THEN charged \ {<<c, a>>} ELSE charged
      /\ now' = now /\ rewound = 0 /\ Overpays(c)
  BY HolderIsCharged, CancelMoves DEF TakesBack, Withdraws
<1>3. /\ a < now \/ R <= 0 => b' = b
      /\ ~(a < now \/ R <= 0) =>
            /\ b'.last = now /\ Horizon' \in Int
            /\ b'.event = IF a = b.event /\ a - 1 >= now THEN a - 1 ELSE b.event
            /\ Horizon' = AtLeast(now - Burst, Horizon - R)
  BY <1>2, CancelMoves DEF TakesBack, Withdraws
<1>4. /\ overpaid = 0
      /\ \A x \in charged : x[2] >= now => x[2] <= b.event
      /\ \A x, y \in charged : x[2] = y[2] /\ x[2] > now => x = y
      /\ b.event >= now => b.event <= Horizon \/ b.event <= b.last
  BY <1>2 DEF OrderlyUnlessRewound
<1>5. a >= now => a <= b.event
  <2>1. <<c, a>>[2] = a
    OBVIOUS
  <2> QED
    BY <1>2, <1>4, <2>1
<1>6. ~GoesBack(c) /\ now <= a => b.event >= a + 1
  <2> SUFFICES ASSUME ~GoesBack(c), now <= a PROVE b.event >= a + 1
    OBVIOUS
  <2>1. PICK x \in charged : ~(x[2] <= a)
    BY DEF GoesBack
  <2> QED
    BY <1>1, <1>2, <1>4, <2>1
<1>7. overpaid' = 0
  BY <1>1, <1>2, <1>4, <1>5, <1>6, Constants DEF Overpays, AtLeast
<1>8. charged' \subseteq charged
  BY <1>2
<1> HIDE DEF a, R
<1>9. CASE a < now \/ R <= 0
  <2>1. b' = b /\ Horizon' = Horizon
    BY <1>3, <1>9 DEF Horizon
  <2> QED
    BY <1>2, <1>4, <1>7, <1>8, <2>1
<1>10. CASE ~(a < now \/ R <= 0)
  <2>1. /\ b.event = a /\ R = 1 /\ GoesBack(c) /\ now <= a
    BY <1>1, <1>2, <1>5, <1>6, <1>10
  <2>2. PICK e \in Int : e = b'.event /\ e = IF a - 1 >= now THEN a - 1 ELSE a
    BY <1>1, <1>2, <1>3, <1>10, <2>1
  <2>3. PICK h \in Int : h = Horizon' /\ h = AtLeast(now - Burst, Horizon - 1)
    BY <1>3, <1>10, <2>1
  <2>4. b'.last = now
    BY <1>3, <1>10
  <2>5. ASSUME NEW x \in charged', x[2] >= now
        PROVE  x[2] <= e
    <3>1. x \in charged /\ x # <<c, a>> /\ x[2] \in Nat /\ x[2] <= a
      BY <1>1, <1>2, <1>4, <1>8, <2>1, <2>5
    <3>2. CASE a - 1 >= now
      <4>1. <<c, a>>[2] = a /\ a > now
        BY <1>1, <1>2, <3>2
      <4>2. x[2] # a
        BY <1>2, <1>4, <3>1, <4>1
      <4> QED
        BY <1>2, <2>2, <3>1, <3>2, <4>2
    <3>3. CASE ~(a - 1 >= now)
      BY <2>2, <3>1, <3>3
    <3> QED
      BY <3>2, <3>3
  <2>6. e >= now => e <= h \/ e <= now
    <3>1. Burst \in Nat
      BY Constants
    <3> QED
      BY <1>1, <1>2, <1>4, <2>1, <2>2, <2>3, <3>1 DEF AtLeast
  <2> QED
    BY <1>2, <1>4, <1>7, <1>8, <2>2, <2>3, <2>4, <2>5, <2>6
<1> QED
  BY <1>9, <1>10

LEMMA OrderStep ==
    ASSUME TypeOK, CallsAgree, DebtIsDue, OrderlyUnlessRewound, [Next]_vars
    PROVE  OrderlyUnlessRewound'
<1>1. CASE Ticks
  <2>1. /\ b' = b /\ charged' = charged /\ rewound' = rewound /\ overpaid' = overpaid
        /\ now' = now + 1 /\ Horizon' = Horizon
    BY <1>1 DEF Ticks, history, Horizon
  <2>2. /\ now \in Nat /\ b.event \in Int /\ \A x \in charged : x[2] \in Nat
    BY Numbers, HistoryIsTyped
  <2>3. (b.event >= now + 1 => b.event >= now)
        /\ \A x \in charged : (x[2] >= now + 1 => x[2] >= now) /\ (x[2] > now + 1 => x[2] > now)
    BY <2>2
  <2> QED
    BY <2>1, <2>3 DEF OrderlyUnlessRewound
<1>2. CASE Quiet
  BY <1>2 DEF Quiet, history, OrderlyUnlessRewound, Horizon
<1> QED
  BY <1>1, <1>2, FourKinds, DrawKeepsOrder, CancelKeepsOrder

-----------------------------------------------------------------------------
(* Where a request goes: no path moves it off the host of the base.        *)

Pieces == STRING \cup {"/"}

LEMMA FirstExists ==
    ASSUME NEW C \in SUBSET Nat, C # {}
    PROVE  \E i \in C : \A j \in C : i <= j
<1> DEFINE R == OpToRel(<, Nat)
<1>1. PICK i \in C : \A j \in C : <<j, i>> \notin R
  BY NatLessThanWellFounded, WFMin
<1>2. \A j \in C : ~(j < i)
  BY <1>1 DEF OpToRel
<1> QED
  BY <1>2

LEMMA HostByFirst ==
    ASSUME NEW text \in Seq(Pieces), NEW i \in 1..Len(text), text[i] = "/",
           \A j \in 1..Len(text) : text[j] = "/" => i <= j
    PROVE  HostOf(text) = SubSeq(text, 1, i - 1)
<1> DEFINE cuts == {k \in DOMAIN text : text[k] = "/"}
           first == CHOOSE k \in cuts : \A j \in cuts : k <= j
<1>1. DOMAIN text = 1..Len(text) /\ Len(text) \in Nat
  BY LenProperties
<1>2. i \in cuts /\ \A j \in cuts : i <= j
  BY <1>1
<1>3. first \in cuts /\ \A j \in cuts : first <= j
  BY <1>2
<1>4. first = i
  BY <1>1, <1>2, <1>3
<1> HIDE DEF first
<1>5. HostOf(text) = SubSeq(text, 1, first - 1)
  BY <1>2 DEF HostOf, first
<1> QED
  BY <1>4, <1>5

\* What comes after the first separator does not matter.
LEMMA HostOfLonger ==
    ASSUME NEW base \in Seq(Pieces), NEW rest \in Seq(Pieces),
           NEW k \in 1..Len(base), base[k] = "/"
    PROVE  HostOf(base \o rest) = HostOf(base)
<1> DEFINE cuts == {i \in 1..Len(base) : base[i] = "/"}
           text == base \o rest
<1>1. Len(base) \in Nat /\ Len(rest) \in Nat
  BY LenProperties
<1>2. PICK i \in cuts : \A j \in cuts : i <= j
  <2>1. cuts \in SUBSET Nat /\ cuts # {}
    BY <1>1
  <2> HIDE DEF cuts
  <2> QED
    BY <2>1, FirstExists
<1>3. i \in 1..Len(base) /\ base[i] = "/" /\ \A j \in 1..Len(base) : base[j] = "/" => i <= j
  BY <1>2
<1>4. HostOf(base) = SubSeq(base, 1, i - 1)
  BY <1>3, HostByFirst
<1>5. /\ text \in Seq(Pieces) /\ Len(text) = Len(base) + Len(rest)
      /\ \A j \in 1..Len(base) + Len(rest) :
            text[j] = IF j <= Len(base) THEN base[j] ELSE rest[j - Len(base)]
  BY ConcatProperties
<1> HIDE DEF text
<1>6. i \in 1..Len(text) /\ text[i] = "/"
  BY <1>1, <1>3, <1>5
<1>7. ASSUME NEW j \in 1..Len(text), text[j] = "/" PROVE i <= j
  BY <1>1, <1>3, <1>5, <1>7
<1>8. HostOf(text) = SubSeq(text, 1, i - 1)
  BY <1>5, <1>6, <1>7, HostByFirst
<1>9. SubSeq(text, 1, i - 1) = SubSeq(base, 1, i - 1)
  <2>1. CASE i = 1
    BY <2>1, SubSeqEmpty
  <2>2. CASE i # 1
    <3>1. 1 \in 1..Len(base) /\ i - 1 \in 1..Len(base)
      BY <1>1, <1>3, <2>2
    <3> QED
      BY <3>1, SubSeqOfConcat1 DEF text
  <2> QED
    BY <2>1, <2>2
<1> QED
  BY <1>4, <1>8, <1>9 DEF text

\* Where the base has no separator, the seam is the first.
LEMMA HostOfSeam ==
    ASSUME NEW base \in Seq(Pieces), NEW rest \in Seq(Pieces), StartsPath(rest),
           \A k \in 1..Len(base) : base[k] # "/"
    PROVE  HostOf(base \o rest) = HostOf(base)
<1> DEFINE text == base \o rest
           i == Len(base) + 1
<1>1. Len(base) \in Nat /\ Len(rest) \in Nat \ {0} /\ rest[1] = "/" /\ DOMAIN base = 1..Len(base)
  BY LenProperties, EmptySeq DEF StartsPath
<1>2. /\ text \in Seq(Pieces) /\ Len(text) = Len(base) + Len(rest)
      /\ \A j \in 1..Len(base) + Len(rest) :
            text[j] = IF j <= Len(base) THEN base[j] ELSE rest[j - Len(base)]
  BY ConcatProperties
<1> HIDE DEF text
<1>3. i \in 1..Len(text) /\ text[i] = "/"
  <2>1. i \in 1..Len(base) + Len(rest) /\ ~(i <= Len(base)) /\ i - Len(base) = 1
    BY <1>1
  <2> QED
    BY <1>1, <1>2, <2>1
<1>4. ASSUME NEW j \in 1..Len(text), text[j] = "/" PROVE i <= j
  BY <1>1, <1>2, <1>4
<1>5. HostOf(text) = SubSeq(text, 1, i - 1)
  BY <1>2, <1>3, <1>4, HostByFirst
<1>6. HostOf(base) = base
  BY <1>1 DEF HostOf
<1>7. SubSeq(text, 1, Len(base)) = base
  <2>1. CASE base = <<>>
    BY <2>1, EmptySeq, SubSeqEmpty
  <2>2. CASE base # <<>>
    <3>1. 1 \in 1..Len(base) /\ Len(base) \in 1..Len(base)
      BY <1>1, <2>2, EmptySeq
    <3>2. SubSeq(text, 1, Len(base)) = SubSeq(base, 1, Len(base))
      BY <3>1, SubSeqOfConcat1 DEF text
    <3> QED
      BY <3>2, SubSeqFull
  <2> QED
    BY <2>1, <2>2
<1>8. i - 1 = Len(base)
  BY <1>1
<1> QED
  BY <1>5, <1>6, <1>7, <1>8 DEF text

LEMMA HostStays ==
    ASSUME NEW base \in Seq(Pieces), NEW path \in Seq(Pieces)
    PROVE  HostOf(Joined(base, path)) = HostOf(base)
<1> DEFINE Slash == <<"/">>
<1>1. Len(base) \in Nat /\ Len(path) \in Nat
  BY LenProperties
<1>2. EndsPath(base) => Len(base) \in 1..Len(base) /\ base[Len(base)] = "/"
  BY <1>1, EmptySeq DEF EndsPath
<1>3. Slash \in Seq(Pieces) /\ Slash # <<>> /\ Slash[1] = "/" /\ Len(Slash) = 1
  BY DEF Pieces
<1>4. CASE EndsPath(base) /\ StartsPath(path)
  <2>1. Tail(path) \in Seq(Pieces)
    BY <1>4, HeadTailProperties DEF StartsPath
  <2> QED
    BY <1>2, <1>4, <2>1, HostOfLonger DEF Joined
<1>5. CASE EndsPath(base) /\ ~StartsPath(path)
  BY <1>2, <1>5, HostOfLonger DEF Joined
<1>6. CASE ~EndsPath(base)
  <2> DEFINE rest == IF StartsPath(path) THEN path ELSE Slash \o path
  <2>1. rest \in Seq(Pieces) /\ StartsPath(rest)
    <3>1. /\ Slash \o path \in Seq(Pieces) /\ Len(Slash \o path) = 1 + Len(path)
          /\ (Slash \o path)[1] = "/"
      BY <1>1, <1>3, ConcatProperties
    <3>2. Slash \o path # <<>>
      BY <1>1, <3>1, EmptySeq
    <3> QED
      BY <3>1, <3>2 DEF StartsPath
  <2>2. Joined(base, path) = base \o rest
    <3>1. ~StartsPath(path) => Joined(base, path) = (base \o Slash) \o path
      BY <1>6 DEF Joined
    <3>2. StartsPath(path) => Joined(base, path) = base \o path
      BY <1>6 DEF Joined
    <3>3. (base \o Slash) \o path = base \o (Slash \o path)
      BY <1>3, ConcatAssociative
    <3> QED
      BY <3>1, <3>2, <3>3
  <2> HIDE DEF rest
  <2>3. CASE \E k \in 1..Len(base) : base[k] = "/"
    BY <2>1, <2>2, <2>3, HostOfLonger
  <2>4. CASE \A k \in 1..Len(base) : base[k] # "/"
    BY <2>1, <2>2, <2>4, HostOfSeam
  <2> QED
    BY <2>3, <2>4
<1> QED
  BY <1>4, <1>5, <1>6

LEMMA TargetsStay == TypeOK => NothingElsewhere
<1> SUFFICES ASSUME TypeOK, NEW c \in Callers PROVE HostOf(call[c].target) = HostOf(Base)
  BY DEF NothingElsewhere
<1>1. STRING \subseteq Pieces
  BY DEF Pieces
<1>2. Base \in Seq(Pieces) /\ \A path \in Paths : path \in Seq(Pieces)
  BY <1>1, RequestsAssumption, SeqMonotonic
<1>3. call[c].target = Base \/ \E path \in Paths : call[c].target = Joined(Base, path)
  BY CallIsTyped DEF Targets
<1> QED
  BY <1>2, <1>3, HostStays

-----------------------------------------------------------------------------
(* The invariant, and what it is for.                                      *)

\* RequestsInv, and the windows at every instant.
Strengthened == RequestsInv /\ Windows

LEMMA AnyBound == Windows => WindowsHold
<1>1. \A t \in 0..2 * MaxTime : t \in Nat
  BY Constants
<1> QED
  BY <1>1 DEF Windows, WindowsHold

LEMMA InitEstablishes == Init => Strengthened
<1> SUFFICES ASSUME Init PROVE Strengthened
  OBVIOUS
<1>1. /\ now = 0 /\ b = [tokens |-> Start, last |-> 0, event |-> 0]
      /\ call = [c \in Callers |-> NoCall] /\ active = 0
      /\ stats = [requests |-> 0, throttled |-> 0, errors |-> 0]
      /\ result = [c \in Callers |-> "none"] /\ at = [c \in Callers |-> Undue]
      /\ charged = {} /\ rewound = 0 /\ overpaid = 0 /\ short = {}
      /\ shuttingDown = FALSE /\ cancelled = FALSE
  BY DEF Init, FullShadow
<1>2. /\ Burst \in Nat \ {0} /\ Start \in Nat /\ Start <= Burst
      /\ Cardinality(Callers) \in Nat /\ 0 \in 0..MaxTime
  BY Constants, FS_CardinalityType
<1>3. NoCall \in Calls /\ NoCall.pc = "idle" /\ NoCall.read = 0
  BY NoCallIsTyped DEF NoCall
<1>4. Horizon = 0 - Start /\ b.event = 0
  BY <1>1 DEF Horizon
<1>5. TypeOK
  <2>1. b \in Reservable /\ b.tokens <= Burst /\ b.last <= now
    BY <1>1, <1>2 DEF Reservable
  <2>2. call \in [Callers -> Calls] /\ \A c \in Callers : call[c].pc # "parked" /\ call[c].read <= now
    BY <1>1, <1>3
  <2>3. /\ stats \in [requests : Nat, throttled : Nat, errors : Nat]
        /\ \A n \in {"requests", "throttled", "errors"} : stats[n] <= Cardinality(Callers)
    BY <1>1, <1>2
  <2>4. /\ result \in [Callers -> Outcomes] /\ at \in [Callers -> Nat \cup {Undue}]
        /\ charged \in SUBSET (Callers \X Nat) /\ IsFiniteSet(charged)
    BY <1>1, FS_EmptySet DEF Outcomes
  <2> QED
    BY <1>1, <1>2, <2>1, <2>2, <2>3, <2>4 DEF TypeOK
<1>6. CallsAgree
  BY <1>1, <1>3 DEF CallsAgree, CallAgrees
<1>7. RegisteredOnce /\ StatsAddUp /\ ShortHaveAsked
  <2>1. /\ {c \in Callers : Inside(c)} = {}
        /\ {c \in Callers : call[c].pc \notin {"idle", "entered"}
                            /\ result[c] \notin {"rejected", "unbuilt"}} = {}
        /\ {c \in Callers : result[c] \in {"error", "aborted", "oversized"}} = {}
        /\ {c \in Callers : result[c] = "refused"} = {}
        /\ {c \in Callers : call[c].pc \notin {"idle", "entered", "looking"}} = {}
    BY <1>1, <1>3 DEF Inside
  <2>2. Cardinality({}) = 0
    BY FS_EmptySet
  <2> QED
    BY <1>1, <2>1, <2>2 DEF RegisteredOnce, StatsAddUp, ShortHaveAsked
<1>8. NothingElsewhere
  BY <1>5, TargetsStay
<1>9. DebtIsDue
  <2>1. \A h \in {0, 0 - Start} : \A t \in 0 + 1..h : FALSE
    BY <1>2
  <2> QED
    BY <1>1, <1>4, <2>1 DEF DebtIsDue
<1>10. NothingLeaks
  <2>1. TokensAt(b, now) = AtMost(Burst, 0 - (0 - Start))
    BY <1>1, <1>4, <1>5, Numbers, TokensByHorizon
  <2>2. Cardinality(charged) = 0
    BY <1>1, FS_EmptySet
  <2> QED
    BY <1>2, <2>1, <2>2 DEF NothingLeaks, AtMost
<1>11. Windows
  <2> SUFFICES ASSUME NEW s \in Nat, NEW e \in Nat, s <= e PROVE WindowHolds(s, e)
    BY DEF Windows
  <2>1. DueIn(s, e) = {}
    BY <1>1, Constants DEF DueIn, Undue
  <2>2. Cardinality(DueIn(s, e)) = 0
    BY <2>1, FS_EmptySet
  <2>3. AtLeast(0, e - AtLeast(0 - Start, s - Burst)) <= Burst + (e - s)
        /\ AtLeast(0, e - AtLeast(0 - Start, s - Burst)) \in Nat
    BY <1>2 DEF AtLeast
  <2> QED
    BY <1>1, <1>2, <1>4, <2>2, <2>3 DEF WindowHolds, Drawable
<1>12. WindowsHold
  BY <1>11, AnyBound
<1>13. OrderlyUnlessRewound
  BY <1>1, <1>4 DEF OrderlyUnlessRewound
<1> QED
  BY <1>5, <1>6, <1>7, <1>8, <1>9, <1>10, <1>11, <1>12, <1>13 DEF Strengthened, RequestsInv

LEMMA StepPreserves ==
    ASSUME Strengthened, [Next]_vars
    PROVE  Strengthened'
<1>1. RequestsInv /\ Windows /\ TypeOK /\ CallsAgree /\ DebtIsDue /\ NothingLeaks
      /\ OrderlyUnlessRewound
  BY DEF Strengthened, RequestsInv
<1>2. RegisteredOnce' /\ StatsAddUp' /\ ShortHaveAsked'
  <2>1. CASE UNCHANGED <<call, active, counts, result>>
    BY <1>1, <2>1 DEF RequestsInv, RegisteredOnce, StatsAddUp, ShortHaveAsked, Inside, counts
  <2> QED
    BY <1>1, <2>1, StepIsAccounted, BooksBalance
<1>3. TypeOK'
  BY <1>1, <1>2, TypeStep
<1>4. CallsAgree'
  BY <1>1, AgreeStep
<1>5. DebtIsDue'
  BY <1>1, DebtStep
<1>6. NothingLeaks'
  BY <1>1, LeakStep
<1>7. Windows'
  BY <1>1, WindowStep
<1>8. OrderlyUnlessRewound'
  BY <1>1, OrderStep
<1>9. (TypeOK => NothingElsewhere)'
  BY TargetsStay, PTL
<1>10. (Windows => WindowsHold)'
  BY AnyBound, PTL
<1> QED
  BY <1>2, <1>3, <1>4, <1>5, <1>6, <1>7, <1>8, <1>9, <1>10 DEF Strengthened, RequestsInv

LEMMA StrengthenedHolds == Spec => []Strengthened
<1>1. Strengthened /\ UNCHANGED vars => Strengthened'
  BY StepPreserves
<1>2. Strengthened /\ [Next]_vars => Strengthened'
  BY StepPreserves
<1> QED
  BY InitEstablishes, <1>2, PTL DEF Spec

\* Nobody is registered, counted, charged or told of a wait but by the steps of
\* limiter/ratelimit.go, limiter/reserve.go, client/request.go and
\* client/stream.go that say so: the whole of what the proofs rest on.
THEOREM RequestsInvariant == Spec => []RequestsInv
<1>1. Strengthened => RequestsInv
  BY DEF Strengthened
<1> QED
  BY StrengthenedHolds, <1>1, PTL

\* What the limiter is for (bucket/bucket.go ReserveAt, CancelAt under
\* limiter/ratelimit.go): in any window of instants up to twice the clock's
\* bound, no more tokens fall due than the bucket holds and what accrues, but for
\* what draws on an older reading of the clock are given twice.
THEOREM EveryWindow == Spec => []AnyWindow
<1>1. Strengthened => AnyWindow
  <2> SUFFICES ASSUME Strengthened, NEW s \in 0..2 * MaxTime, NEW e \in 0..2 * MaxTime, s <= e
               PROVE  Cardinality(DueIn(s, e)) <= Burst + (e - s) + rewound + overpaid
    BY DEF AnyWindow
  <2>1. s \in Nat /\ e \in Nat /\ Burst \in Nat
    BY Constants
  <2>2. Horizon \in Int /\ rewound \in Nat /\ overpaid \in Nat
    BY Numbers DEF Strengthened, RequestsInv
  <2>3. Cardinality(DueIn(s, e)) + Drawable(s, e) <= Burst + (e - s) + rewound + overpaid
    BY <2>1 DEF Strengthened, Windows, WindowHolds
  <2>4. Drawable(s, e) \in Nat
    BY <2>1, <2>2 DEF Drawable, AtLeast
  <2>5. Cardinality(DueIn(s, e)) \in Nat
    BY <2>1, DueInIsFinite
  <2> QED
    BY <2>1, <2>2, <2>3, <2>4, <2>5
<1> QED
  BY StrengthenedHolds, <1>1, PTL

\* A refusal takes no token, and a wait cut short or a reservation cancelled gives
\* its own back where it is not too late and nobody has drawn behind it
\* (rate.Limiter.Wait under limiter/ratelimit.go acquire; limiter/reserve.go
\* Cancel): the bucket is short of no more tokens than calls have used, hold, or
\* could not give back.
THEOREM NoTokenLeaks == Spec => []NothingLeaks
<1>1. RequestsInv => NothingLeaks
  BY DEF RequestsInv
<1> QED
  BY RequestsInvariant, <1>1, PTL

\* enter and leave pair up on every path, early returns and bodies closed twice
\* included (limiter/lifecycle.go enter, client/stream.go releasingBody.Close).
THEOREM EachIsRegisteredOnce == Spec => []RegisteredOnce
<1>1. RequestsInv => RegisteredOnce
  BY DEF RequestsInv
<1> QED
  BY RequestsInvariant, <1>1, PTL

\* Of any number of calls through any doors, every attempt is one request, every
\* request sent that returned an error is one error, a body too large or broken
\* off included, and every attempt that found no token when it asked, a call that
\* was refused among them, is one throttled (limiter/observer.go countRequest,
\* FinishRequest, reportThrottle).
THEOREM StatsAgree == Spec => []StatsAddUp
<1>1. RequestsInv => StatsAddUp
  BY DEF RequestsInv
<1> QED
  BY RequestsInvariant, <1>1, PTL

\* Whatever the base and the path, of any text, urlx.Build joins them so that the
\* request stays on the host of the base (urlx/urlx.go Build).
THEOREM HostIsKept == Spec => []NothingElsewhere
<1>1. RequestsInv => NothingElsewhere
  BY DEF RequestsInv
<1> QED
  BY RequestsInvariant, <1>1, PTL

-----------------------------------------------------------------------------
(* What an answer says.                                                    *)

\* The steps that answer, and what they answer.
LEMMA Answers ==
    ASSUME TypeOK, Next, NEW c \in Callers, result'[c] # result[c]
    PROVE  \/ result'[c] \in {"rejected", "unbuilt", "refused", "ok", "cancelled", "error",
                              "oversized"}
           \/ result'[c] = Failure(c) /\ (Draw(c) \/ Cut(c)) /\ (MayBeDone(c) \/ ~InTime(c))
           \/ result'[c] = "aborted" /\ Abort(c)
<1>1. ~(Shut \/ Tick)
  BY DEF Shut, Tick
<1>2. PICK d \in Callers :
         \/ Goroutine(d) \/ Enter(d) \/ Cancel(d) \/ Use(d) \/ GiveUp(d) \/ CloseBody(d)
         \/ Fail(d) \/ Respond(d) \/ HandOver(d)
  BY <1>1 DEF Next
<1>3. \A how \in Outcomes :
         (Returns(d, how) \/ result' = [result EXCEPT ![d] = how]) => d = c /\ result'[c] = how
  BY DEF Returns, TypeOK
<1>4. result' # result
  OBVIOUS
<1>5. CASE Draw(d) \/ Cut(d)
  <2>1. Failure(d) \in Outcomes /\ "ok" \in Outcomes
    BY DEF Failure, Outcomes
  <2>2. CASE Returns(d, "ok")
    BY <1>3, <2>1, <2>2
  <2>3. CASE Returns(d, Failure(d)) /\ (MayBeDone(d) \/ ~InTime(d))
    BY <1>3, <1>5, <2>1, <2>3
  <2> QED
    BY <1>4, <1>5, <2>2, <2>3 DEF Draw, Cut, Paid, Leaves
<1>6. CASE Abort(d)
  <2>1. Returns(d, "aborted") /\ "aborted" \in Outcomes
    BY <1>6 DEF Abort, Leaves, Outcomes
  <2>2. d = c /\ result'[c] = "aborted"
    BY <1>3, <2>1
  <2> QED
    BY <1>6, <2>2
<1>7. CASE Enter(d) \/ Build(d) \/ Allow(d) \/ Cancel(d) \/ Use(d)
  BY <1>3, <1>4, <1>7 DEF Enter, Build, Allow, Cancel, Use, Leaves, Outcomes
<1>8. CASE Wake(d) \/ Fail(d) \/ HandOver(d) \/ CloseBody(d)
  BY <1>3, <1>4, <1>8 DEF Wake, Paid, Fail, HandOver, CloseBody, Leaves, Outcomes
<1>9. CASE Respond(d)
  <2>1. PICK how \in {"ok", "oversized"} : Returns(d, how)
    BY <1>9 DEF Respond, Leaves
  <2> QED
    BY <1>3, <2>1 DEF Outcomes
<1>10. ~(Reserve(d) \/ Look(d) \/ GiveUp(d))
  BY <1>4 DEF Reserve, Look, GiveUp
<1> QED
  BY <1>2, <1>5, <1>6, <1>7, <1>8, <1>9, <1>10 DEF Goroutine

\* ErrClosed is for a limiter that is shutting down, a LimitError for a caller
\* whose own context or deadline stood against the wait (limiter/errors.go
\* throttled, under limiter/ratelimit.go acquire).
THEOREM AnswersAreTrue == Spec => ClosedMeansClosing
<1>1. ASSUME TypeOK, [Next]_vars
      PROVE  [\A c \in Callers :
                 result'[c] # result[c] =>
                     /\ result'[c] = "closed" => cancelled
                     /\ result'[c] = "limit" =>
                            \/ OwnDone(c)
                            \/ call[c].deadline # Never /\ TimeToAct(b, now) > call[c].deadline]_vars
  <2> SUFFICES ASSUME Next, NEW c \in Callers, result'[c] # result[c]
               PROVE  /\ result'[c] = "closed" => cancelled
                      /\ result'[c] = "limit" =>
                             \/ OwnDone(c)
                             \/ call[c].deadline # Never /\ TimeToAct(b, now) > call[c].deadline
    BY <1>1
  <2>1. result'[c] \in {"closed", "limit"} =>
           result'[c] = Failure(c) /\ (MayBeDone(c) \/ ~InTime(c))
    BY <1>1, Answers
  <2>2. Failure(c) = "closed" => cancelled
    BY DEF Failure
  <2>3. Failure(c) = "limit" => ~cancelled
    BY DEF Failure
  <2>4. ~InTime(c) => call[c].deadline # Never /\ TimeToAct(b, now) > call[c].deadline
    <3> SUFFICES ASSUME ~InTime(c)
                 PROVE  call[c].deadline # Never /\ TimeToAct(b, now) > call[c].deadline
      OBVIOUS
    <3>1. call[c].deadline # Never /\ ~(TimeToAct(b, now) <= call[c].deadline)
      BY DEF InTime
    <3>2. TokensAt(b, now) \in Int /\ now \in Nat
      BY <1>1, Numbers, TokensByHorizon
    <3>3. TimeToAct(b, now) \in Int
      BY <3>2, Constants DEF TimeToAct, AtLeast
    <3>4. call[c].deadline \in 0..Never
      BY <1>1, CallIsTyped
    <3>5. call[c].deadline \in Int
      BY <3>4, Constants
    <3> QED
      BY <3>1, <3>3, <3>5
  <2> QED
    BY <2>1, <2>2, <2>3, <2>4 DEF MayBeDone
<1>2. RequestsInv => TypeOK
  BY DEF RequestsInv
<1> QED
  BY RequestsInvariant, <1>1, <1>2, PTL DEF Spec, ClosedMeansClosing

\* RequestTimeout runs from the token, not from the call (client/request.go:167).
THEOREM TimeoutIsWhole == Spec => WholeTimeout
<1>1. ASSUME TypeOK, CallsAgree, [Next]_vars
      PROVE  [\A c \in Callers :
                 (result'[c] # result[c] /\ result'[c] = "aborted" /\ ~OwnDone(c) /\ ~cancelled)
                     => now >= at[c] + RequestTimeout]_vars
  <2> SUFFICES ASSUME Next, NEW c \in Callers, result'[c] # result[c], result'[c] = "aborted",
                      ~OwnDone(c), ~cancelled
               PROVE  now >= at[c] + RequestTimeout
    BY <1>1
  <2>1. Abort(c)
    BY <1>1, Answers DEF Failure
  <2>2. call[c].pc = "sent" /\ now >= call[c].until
    BY <2>1 DEF Abort, MayBeDone
  <2>3. call[c].until = Never \/ call[c].until >= at[c] + RequestTimeout
    BY <1>1, <2>2 DEF CallsAgree, CallAgrees
  <2>4. /\ now \in Nat /\ now < Never /\ Never \in Nat /\ call[c].until \in Nat
        /\ at[c] \in Int /\ RequestTimeout \in Nat
    BY <1>1, Numbers, Constants, CallIsTyped, HistoryIsTyped
  <2> QED
    BY <2>2, <2>3, <2>4
<1>2. RequestsInv => TypeOK /\ CallsAgree
  BY DEF RequestsInv
<1> QED
  BY RequestsInvariant, <1>1, <1>2, PTL DEF Spec, WholeTimeout
=============================================================================
