----------------------------- MODULE ShadowBucket -----------------------------
(***************************************************************************)
(* Reservations on a bucket (bucket/bucket.go ReserveAt and CancelAt over  *)
(* rate.Reservation), in units fine enough for a fraction of a token: one  *)
(* unit accrues per tick and a token is Cost of them.                      *)
(***************************************************************************)
EXTENDS TokenBucket

CONSTANT Cost

ASSUME ShadowAssumption ==
    /\ Cost \in Nat \ {0}
    /\ Burst % Cost = 0
    /\ Refills

\* rate.Limiter with its lastEvent: the instant the latest reservation is due.
Reservable == [tokens : Int, last : Int, event : Int]

FullShadow == [tokens |-> Burst, last |-> 0, event |-> 0]

\* The instant a token reserved at t may be used.
TimeToAct(b, t) == t + AtLeast(0, Cost - TokensAt(b, t))

ReserveAt(b, t) ==
    [tokens |-> TokensAt(b, t) - Cost, last |-> t, event |-> TimeToAct(b, t)]

\* Mutant of Refund: the token, whoever has reserved since.
RefundWhole(b, act) == Cost

\* What cancelling gives back: the token, less what was reserved after it.
Refund(b, act) == Cost - (b.event - act)

\* Nothing once the reservation is due, or when later ones have eaten it up.
\* An older t moves the bucket's clock back.
CancelAt(b, act, t) ==
    IF act < t \/ Refund(b, act) <= 0 THEN b
    ELSE [tokens |-> AtMost(Burst, TokensAt(b, t) + Refund(b, act)),
          last   |-> t,
          event  |-> IF act = b.event /\ act - Cost >= t THEN act - Cost ELSE b.event]
=============================================================================
