--------------------------------- MODULE Rates ---------------------------------
(***************************************************************************)
(* The rate vocabulary (bucket/rate.go, bucket/parse.go) and the bucket    *)
(* whose rate and ceiling can change (bucket/bucket.go over                *)
(* golang.org/x/time/rate), as functions.                                  *)
(*                                                                         *)
(* A rate is a float64: whole requests per hour here, and the values that  *)
(* are not numbers.  The unit of time is the hour, so every count of       *)
(* tokens is whole.  Inf is bucket.Inf, the largest finite float64, and    *)
(* not an infinity; Tiny is the smallest positive one, 5e-324, which a     *)
(* division by more than one rounds to zero.                               *)
(***************************************************************************)
EXTENDS Integers

CONSTANTS
    NaN, PosInf, NegInf,
    Inf, Tiny,
    Refused     \* ErrBadLimit, and what strconv.ParseFloat has no value for

ASSUME RatesAssumption ==
    /\ \A r \in {NaN, PosInf, NegInf, Inf, Tiny, Refused} : r \notin Int
    /\ Inf \notin {NaN, PosInf, NegInf, Refused}
    /\ Tiny \notin {NaN, PosInf, NegInf, Inf, Refused}
    /\ Refused \notin {NaN, PosInf, NegInf}

NotNumbers == {NaN, PosInf, NegInf}
Rate       == Int \cup NotNumbers \cup {Inf, Tiny}

\* r > 0, as float64 compares: false of a NaN.
AboveZero(r) == r \in {PosInf, Inf, Tiny} \/ (r \notin NotNumbers /\ r > 0)

\* Finite: a true infinity, of either sign, becomes Inf; a NaN goes through.
Finite(r) == IF r \in {PosInf, NegInf} THEN Inf ELSE r

\* The floor under the arithmetic.
usableRate(r) ==
    CASE r \in {NaN, NegInf} -> 0
      [] r = PosInf          -> Inf
      [] OTHER               -> r

\* What a rate adds in an hour, in whole tokens.
Accrual(r) == IF r = Tiny \/ r < 0 THEN 0 ELSE r

\* A burst of nothing could hand nothing out.
AtLeastOne(burst) == IF burst < 1 THEN 1 ELSE burst

-----------------------------------------------------------------------------
(* A rate as a person writes it: a number, then a period.                  *)

PerHour == [second |-> 3600, minute |-> 60, hour |-> 1]
Periods == DOMAIN PerHour
Texts   == [number : Int \cup NotNumbers \cup {Tiny, Refused},
            period : Periods \cup {"none", "unknown"}]

\* split: a bare "inf" needs no period, anything else a known one.
NamesPeriod(text) ==
    text.period \in Periods \/ (text.number = PosInf /\ text.period = "none")

\* n / per on float64s: the one quotient that is not exact here underflows.
Underflows(text) == text.number = Tiny /\ text.period # "second"

Quotient(text) ==
    IF text.number = Tiny THEN (IF Underflows(text) THEN 0 ELSE Tiny)
    ELSE text.number * PerHour[text.period]

ParseLimit(text) ==
    IF ~NamesPeriod(text) \/ text.number = Refused \/ ~AboveZero(text.number) THEN Refused
    ELSE IF text.number = PosInf THEN Inf
    ELSE Finite(Quotient(text))

ParseQuota(text, burst) ==
    IF ParseLimit(text) = Refused THEN Refused
    ELSE [rate |-> ParseLimit(text), burst |-> AtLeastOne(burst)]

-----------------------------------------------------------------------------
(* A bucket whose quota can change.  published is what Quota() reports;    *)
(* limit and burst are what rate.Limiter enforces.                         *)

LesserOf(a, b) == IF a <= b THEN a ELSE b

\* rate.Limiter.advance: what it holds at t, nothing having accrued backwards.
TokensAt(b, t) ==
    LesserOf(b.burst,
             CASE t <= b.last \/ b.limit = NaN -> b.tokens
               [] t > b.last /\ b.limit = Inf  -> b.burst
               [] OTHER -> b.tokens + Accrual(b.limit) * (t - b.last))

\* NewBucket: full at any instant.
NewBucket(q) ==
    LET u == [q EXCEPT !.rate = usableRate(@)] IN
    [tokens |-> q.burst, last |-> 0, limit |-> u.rate, burst |-> u.burst, published |-> u]

\* AllowN: an infinite limit does no accounting.
Allows(b, t)  == b.limit = Inf \/ TokensAt(b, t) >= 1

\* Mutant of AllowAt: a token is taken whether or not there is one.
AllowAnyway(b, t) ==
    IF b.limit = Inf THEN b ELSE [b EXCEPT !.tokens = TokensAt(b, t) - 1, !.last = t]

AllowAt(b, t) ==
    IF b.limit = Inf \/ ~Allows(b, t) THEN b
    ELSE [b EXCEPT !.tokens = TokensAt(b, t) - 1, !.last = t]

\* Mutant of SetLimitAt: what has accrued so far is left to the new rate.
SetLimitLate(b, t, r) == [b EXCEPT !.limit = r]

\* The three steps of SetQuotaAt.  The first two advance the bucket to t, which
\* moves its clock back where t is older than its last update.
SetLimitAt(b, t, r) == [b EXCEPT !.tokens = TokensAt(b, t), !.last = t, !.limit = r]
SetBurstAt(b, t, n) == [b EXCEPT !.tokens = TokensAt(b, t), !.last = t, !.burst = n]
Publish(b, q)       == [b EXCEPT !.published = q]

=============================================================================
