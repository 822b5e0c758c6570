----------------------------- MODULE TokenBucket -----------------------------
(***************************************************************************)
(* The token bucket (bucket/bucket.go over golang.org/x/time/rate), as     *)
(* functions of a bucket and an instant.  The unit of time is the time one *)
(* token takes to accrue, so every count is whole; Refills = FALSE is a    *)
(* rate so slow that nothing accrues within the behaviours considered.     *)
(*                                                                         *)
(* A bucket is what rate.Limiter keeps: the tokens it held at its last     *)
(* update.  Nothing stops that instant from moving backwards when a caller *)
(* draws with an older reading of the clock.                               *)
(***************************************************************************)
EXTENDS Integers

CONSTANTS Burst, Refills

ASSUME BucketAssumption ==
    /\ Burst \in Nat \ {0}
    /\ Refills \in BOOLEAN

Bucket == [tokens : Int, last : Int]

AtMost(a, b)  == IF a <= b THEN a ELSE b
AtLeast(a, b) == IF a >= b THEN a ELSE b

\* What accrues from one instant to another; nothing backwards.
Accrued(from, to) == IF Refills THEN AtLeast(0, to - from) ELSE 0

\* rate.Limiter.TokensAt: advance, without storing.
TokensAt(b, t) == AtMost(Burst, b.tokens + Accrued(b.last, t))

\* NewBucket: full at any instant.
NewBucket == [tokens |-> Burst, last |-> 0]

\* What RestoreBucket credits: the saved tokens and what accrued since,
\* within 0..Burst; a savedAt in the future is clock skew, not a debt.
Credit(saved, savedAt, t) ==
    AtLeast(0, AtMost(Burst, saved + Accrued(savedAt, t)))

\* RestoreBucket empties a full limiter at drainInstant, so that what it
\* refills by t is the credit.  A rate too slow to refill stands still.
RestoreBucket(saved, savedAt, t) ==
    IF Refills THEN [tokens |-> 0, last |-> t - Credit(saved, savedAt, t)]
               ELSE [tokens |-> Credit(saved, savedAt, t), last |-> t]

\* AllowAt takes a token if there is one; a refusal stores nothing.
Allows(b, t)  == TokensAt(b, t) >= 1
AllowAt(b, t) == IF Allows(b, t) THEN [tokens |-> TokensAt(b, t) - 1, last |-> t] ELSE b
=============================================================================
