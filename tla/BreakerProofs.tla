---------------------------- MODULE BreakerProofs ----------------------------
(***************************************************************************)
(* One probe at a time, for every number of calls, every threshold and     *)
(* every clock, as long as calls are bounded by a timeout (~Parking) and   *)
(* two of them fit inside the cooldown.  pace's defaults are 500ms and 5s. *)
(*                                                                         *)
(* The argument is about time.  A verdict does not say which call it       *)
(* belongs to, so the probe is safe only if no other call is still out when *)
(* it is claimed.  OldCallsPredateOpening says an ordinary call arrived at *)
(* most MaxCall after the reading that opened the breaker; at the probe    *)
(* the cooldown has passed since that reading; CallsAreYoung then leaves   *)
(* no room for the ordinary call.                                          *)
(***************************************************************************)
EXTENDS Breaker, TLAPS

\* The defining fact about half-open: once a probe is out it is alone.
LEMMA ProbeExcludesOthers ==
    ASSUME ~Parking, 2 * MaxCall < Cooldown, BreakerInv
    PROVE  ProbeIsAlone
<1> SUFFICES ASSUME NEW c \in Calls, NEW d \in Calls,
                    isProbe[c], InFlight(d), c # d
             PROVE  FALSE
  BY DEF ProbeIsAlone
<1>1. ~isProbe[d]
  BY DEF BreakerInv, OneProbe
<1>2. ~Closed /\ openTill <= readAt[c] /\ readAt[c] <= now
  BY DEF BreakerInv, ProbesAreHalfOpen, CallsAreYoung, InFlight
<1>3. readAt[d] + Cooldown <= openTill + MaxCall
  BY <1>1, <1>2 DEF BreakerInv, OldCallsPredateOpening
<1>4. now <= readAt[d] + MaxCall
  BY DEF BreakerInv, CallsAreYoung, InFlight
<1>5. /\ openTill \in Int /\ now \in Int
      /\ readAt[c] \in Int /\ readAt[d] \in Int
      /\ Cooldown \in Int /\ MaxCall \in Int
  BY BreakerAssumption DEF BreakerInv, TypeOK, Times, Zero
<1> QED
  BY <1>2, <1>3, <1>4, <1>5

LEMMA ZeroFits == 0 \in Times /\ 0 \in 0..(Threshold - 1)
  BY BreakerAssumption DEF Times

LEMMA InitEstablishes == Init => BreakerInv
<1> SUFFICES ASSUME Init PROVE BreakerInv
  OBVIOUS
<1>1. TypeOK
  BY ZeroFits DEF Init, TypeOK, Stages
<1>2. CallsAreYoung /\ FailuresAreRecent /\ OldCallsPredateOpening
  BY DEF Init, CallsAreYoung, FailuresAreRecent, OldCallsPredateOpening, InFlight
<1>3. ProbesAreHalfOpen /\ OneProbe /\ ProbeIsOwed
  BY DEF Init, ProbesAreHalfOpen, OneProbe, ProbeIsOwed
<1> QED
  BY <1>1, <1>2, <1>3 DEF BreakerInv

LEMMA StepPreserves ==
    ASSUME ~Parking, 2 * MaxCall < Cooldown, BreakerInv, [Next]_vars
    PROVE  BreakerInv'
<1> USE BreakerAssumption DEF BreakerInv, InFlight, Closed
<1>0. ProbeIsAlone
  BY ProbeExcludesOthers
<1>1. ASSUME NEW c \in Calls, Arrive(c) PROVE BreakerInv'
  <2>1. TypeOK'
    BY <1>1 DEF Arrive, breaker, TypeOK, Stages
  <2>2. CallsAreYoung'
    BY <1>1 DEF Arrive, breaker, CallsAreYoung, TypeOK, Times, ProbesAreHalfOpen
  <2>3. FailuresAreRecent'
    BY <1>1 DEF Arrive, FailuresAreRecent, TypeOK, Times
  <2>4. OldCallsPredateOpening'
    BY <1>0, <1>1 DEF Arrive, breaker, OldCallsPredateOpening
  <2>5. ProbesAreHalfOpen'
    BY <1>1 DEF Arrive, breaker, ProbesAreHalfOpen
  <2>6. OneProbe'
    BY <1>1 DEF Arrive, breaker, OneProbe
  <2>7. ProbeIsOwed'
    BY <1>0, <1>1 DEF Arrive, breaker, ProbeIsOwed
  <2> QED
    BY <2>1, <2>2, <2>3, <2>4, <2>5, <2>6, <2>7
<1>2. ASSUME NEW c \in Calls, Refuse(c) PROVE BreakerInv'
  <2>1. TypeOK'
    BY <1>2, ZeroFits DEF Refuse, breaker, Finish, TypeOK, Stages
  <2>2. CallsAreYoung'
    BY <1>2 DEF Refuse, breaker, Finish, CallsAreYoung, TypeOK, Zero, ProbeIsAlone
  <2>3. FailuresAreRecent'
    BY <1>2 DEF Refuse, Finish, FailuresAreRecent, TypeOK
  <2>4. OldCallsPredateOpening'
    BY <1>0, <1>2 DEF Refuse, breaker, Finish, OldCallsPredateOpening
  <2>5. ProbesAreHalfOpen'
    BY <1>2 DEF Refuse, breaker, Finish, ProbesAreHalfOpen
  <2>6. OneProbe'
    BY <1>2 DEF Refuse, breaker, Finish, OneProbe
  <2>7. ProbeIsOwed'
    BY <1>0, <1>2 DEF Refuse, breaker, Finish, ProbeIsOwed, ProbesAreHalfOpen
  <2> QED
    BY <2>1, <2>2, <2>3, <2>4, <2>5, <2>6, <2>7
<1>3. ASSUME NEW c \in Calls, AdmitClosed(c) PROVE BreakerInv'
  <2>1. TypeOK'
    BY <1>3 DEF AdmitClosed, breaker, TypeOK, Stages
  <2>2. CallsAreYoung'
    BY <1>3 DEF AdmitClosed, breaker, CallsAreYoung, Times, ProbesAreHalfOpen
  <2>3. FailuresAreRecent'
    BY <1>3 DEF AdmitClosed, FailuresAreRecent
  <2>4. OldCallsPredateOpening'
    BY <1>0, <1>3 DEF AdmitClosed, breaker, AllowClosed, OldCallsPredateOpening
  <2>5. ProbesAreHalfOpen'
    BY <1>3 DEF AdmitClosed, breaker, AllowClosed, ProbesAreHalfOpen
  <2>6. OneProbe'
    BY <1>3 DEF AdmitClosed, OneProbe
  <2>7. ProbeIsOwed'
    BY <1>0, <1>3 DEF AdmitClosed, breaker, ProbeIsOwed
  <2> QED
    BY <2>1, <2>2, <2>3, <2>4, <2>5, <2>6, <2>7
<1>4. ASSUME NEW c \in Calls, AdmitProbe(c) PROVE BreakerInv'
  <2>1. TypeOK'
    BY <1>4 DEF AdmitProbe, TypeOK, Stages
  <2>2. CallsAreYoung'
    BY <1>4 DEF AdmitProbe, CallsAreYoung, Times, ProbesAreHalfOpen
  <2>3. FailuresAreRecent'
    BY <1>4 DEF AdmitProbe, FailuresAreRecent
  <2>4. OldCallsPredateOpening'
    BY <1>0, <1>4 DEF AdmitProbe, OldCallsPredateOpening, TypeOK
  <2>5. ProbesAreHalfOpen'
    BY <1>0, <1>4 DEF AdmitProbe, breaker, call, AllowProbe, ProbesAreHalfOpen, TypeOK, Times, Zero, ProbeIsAlone, OneProbe
  <2>6. OneProbe'
    BY <1>0, <1>4 DEF AdmitProbe, breaker, call, AllowProbe, OneProbe, TypeOK, Times, Zero, ProbeIsAlone, ProbesAreHalfOpen
  <2>7. ProbeIsOwed'
    BY <1>0, <1>4 DEF AdmitProbe, AllowProbe, ProbeIsOwed, TypeOK, ProbesAreHalfOpen
  <2> QED
    BY <2>1, <2>2, <2>3, <2>4, <2>5, <2>6, <2>7
<1>5. ASSUME NEW c \in Calls, BackendAnswers(c) PROVE BreakerInv'
  <2>1. TypeOK'
    BY <1>5, ZeroFits DEF BackendAnswers, Finish, Succeeded, TypeOK, Stages
  <2>2. CallsAreYoung'
    BY <1>5 DEF BackendAnswers, Finish, Succeeded, CallsAreYoung, TypeOK, Zero, ProbeIsAlone
  <2>3. FailuresAreRecent'
    BY <1>5 DEF BackendAnswers, Finish, FailuresAreRecent, TypeOK
  <2>4. OldCallsPredateOpening'
    BY <1>0, <1>5 DEF BackendAnswers, Finish, Succeeded, OldCallsPredateOpening
  <2>5. ProbesAreHalfOpen'
    BY <1>0, <1>5 DEF BackendAnswers, Finish, Succeeded, ProbesAreHalfOpen, TypeOK, ProbeIsAlone
  <2>6. OneProbe'
    BY <1>0, <1>5 DEF BackendAnswers, Finish, OneProbe, TypeOK, ProbeIsAlone
  <2>7. ProbeIsOwed'
    BY <1>0, <1>5 DEF BackendAnswers, Finish, Succeeded, ProbeIsOwed
  <2> QED
    BY <2>1, <2>2, <2>3, <2>4, <2>5, <2>6, <2>7
<1>6. ASSUME NEW c \in Calls, CallerLeaves(c) PROVE BreakerInv'
  <2>1. TypeOK'
    BY <1>6, ZeroFits DEF CallerLeaves, Finish, Abandoned, TypeOK, Stages
  <2>2. CallsAreYoung'
    BY <1>6 DEF CallerLeaves, Finish, Abandoned, CallsAreYoung, TypeOK, Zero, ProbeIsAlone
  <2>3. FailuresAreRecent'
    BY <1>6 DEF CallerLeaves, Finish, FailuresAreRecent, TypeOK
  <2>4. OldCallsPredateOpening'
    BY <1>0, <1>6 DEF CallerLeaves, Finish, Abandoned, OldCallsPredateOpening, TypeOK
  <2>5. ProbesAreHalfOpen'
    BY <1>0, <1>6 DEF CallerLeaves, Finish, Abandoned, ProbesAreHalfOpen, TypeOK, ProbeIsAlone
  <2>6. OneProbe'
    BY <1>0, <1>6 DEF CallerLeaves, Finish, OneProbe, TypeOK, ProbeIsAlone
  <2>7. ProbeIsOwed'
    BY <1>0, <1>6 DEF CallerLeaves, Finish, Abandoned, ProbeIsOwed
  <2> QED
    BY <2>1, <2>2, <2>3, <2>4, <2>5, <2>6, <2>7
<1>7. ASSUME NEW c \in Calls, OwnerLeaves(c) PROVE BreakerInv'
  <2>1. TypeOK'
    BY <1>7, ZeroFits DEF OwnerLeaves, Finish, Abandoned, TypeOK, Stages
  <2>2. CallsAreYoung'
    BY <1>7 DEF OwnerLeaves, Finish, Abandoned, CallsAreYoung, TypeOK, Zero, ProbeIsAlone
  <2>3. FailuresAreRecent'
    BY <1>7 DEF OwnerLeaves, Finish, FailuresAreRecent, TypeOK
  <2>4. OldCallsPredateOpening'
    BY <1>0, <1>7 DEF OwnerLeaves, Finish, Abandoned, OldCallsPredateOpening, TypeOK
  <2>5. ProbesAreHalfOpen'
    BY <1>0, <1>7 DEF OwnerLeaves, Finish, Abandoned, ProbesAreHalfOpen, TypeOK, ProbeIsAlone
  <2>6. OneProbe'
    BY <1>0, <1>7 DEF OwnerLeaves, Finish, OneProbe, TypeOK, ProbeIsAlone
  <2>7. ProbeIsOwed'
    BY <1>0, <1>7 DEF OwnerLeaves, Finish, Abandoned, ProbeIsOwed
  <2> QED
    BY <2>1, <2>2, <2>3, <2>4, <2>5, <2>6, <2>7
<1>8. ASSUME NEW c \in Calls, BackendFails(c) PROVE BreakerInv'
  <2>1. TypeOK'
    BY <1>8 DEF BackendFails, breaker, TypeOK, Stages
  <2>2. CallsAreYoung'
    BY <1>8 DEF BackendFails, breaker, CallsAreYoung, Times, ProbesAreHalfOpen
  <2>3. FailuresAreRecent'
    BY <1>8 DEF BackendFails, FailuresAreRecent, TypeOK, Times, CallsAreYoung
  <2>4. OldCallsPredateOpening'
    BY <1>0, <1>8 DEF BackendFails, breaker, OldCallsPredateOpening, TypeOK, Times, CallsAreYoung
  <2>5. ProbesAreHalfOpen'
    BY <1>8 DEF BackendFails, breaker, ProbesAreHalfOpen
  <2>6. OneProbe'
    BY <1>8 DEF BackendFails, breaker, OneProbe
  <2>7. ProbeIsOwed'
    BY <1>0, <1>8 DEF BackendFails, breaker, ProbeIsOwed
  <2> QED
    BY <2>1, <2>2, <2>3, <2>4, <2>5, <2>6, <2>7
<1>9. ASSUME NEW c \in Calls, RecordFailure(c) PROVE BreakerInv'
  <2>1. TypeOK'
    <3>1. failures' \in 0..(Threshold - 1) /\ openTill' \in {Zero} \cup (0..(MaxTime + Cooldown))
      BY <1>9 DEF RecordFailure, ProbeFailed, CallFailed, TypeOK, Times
    <3>2. probing' \in BOOLEAN /\ UNCHANGED <<now, gateClosed>>
      BY <1>9 DEF RecordFailure, Finish, ProbeFailed, CallFailed, TypeOK
    <3>3. TypeOK!5' /\ TypeOK!6' /\ TypeOK!7' /\ TypeOK!8'
      BY <1>9, ZeroFits DEF RecordFailure, Finish, TypeOK, Stages
    <3> QED
      BY <3>1, <3>2, <3>3 DEF TypeOK
  <2>2. CallsAreYoung'
    BY <1>9 DEF RecordFailure, breaker, call, Finish, CallsAreYoung, TypeOK
  <2>3. FailuresAreRecent'
    BY <1>9 DEF RecordFailure, Finish, FailuresAreRecent, TypeOK
  <2>4. OldCallsPredateOpening'
    BY <1>0, <1>9 DEF RecordFailure, Finish, ProbeFailed, CallFailed, OldCallsPredateOpening, TypeOK, Times, CallsAreYoung, FailuresAreRecent
  <2>5. ProbesAreHalfOpen'
    BY <1>0, <1>9 DEF RecordFailure, Finish, ProbeFailed, CallFailed, ProbesAreHalfOpen, TypeOK, Times, ProbeIsAlone
  <2>6. OneProbe'
    BY <1>0, <1>9 DEF RecordFailure, Finish, OneProbe, TypeOK, ProbeIsAlone
  <2>7. ProbeIsOwed'
    BY <1>0, <1>9 DEF RecordFailure, Finish, ProbeFailed, CallFailed, ProbeIsOwed
  <2> QED
    BY <2>1, <2>2, <2>3, <2>4, <2>5, <2>6, <2>7
<1>10. CASE Tick
  <2>1. TypeOK'
    BY <1>10 DEF Tick, breaker, call, TypeOK, Times
  <2>2. CallsAreYoung'
    BY <1>10 DEF Tick, breaker, call, CallsAreYoung, TypeOK, Times, ProbesAreHalfOpen
  <2>3. FailuresAreRecent'
    BY <1>10 DEF Tick, call, FailuresAreRecent, TypeOK, Times
  <2>4. OldCallsPredateOpening'
    BY <1>0, <1>10 DEF Tick, breaker, call, OldCallsPredateOpening, TypeOK, Times
  <2>5. ProbesAreHalfOpen'
    BY <1>10 DEF Tick, breaker, call, ProbesAreHalfOpen
  <2>6. OneProbe'
    BY <1>10 DEF Tick, breaker, call, OneProbe
  <2>7. ProbeIsOwed'
    BY <1>0, <1>10 DEF Tick, breaker, call, ProbeIsOwed
  <2> QED
    BY <2>1, <2>2, <2>3, <2>4, <2>5, <2>6, <2>7
<1>11. CASE CloseGate
  <2>1. TypeOK'
    BY <1>11 DEF CloseGate, breaker, call, TypeOK
  <2>2. CallsAreYoung'
    BY <1>11 DEF CloseGate, breaker, call, CallsAreYoung, ProbesAreHalfOpen
  <2>3. FailuresAreRecent'
    BY <1>11 DEF CloseGate, call, FailuresAreRecent
  <2>4. OldCallsPredateOpening'
    BY <1>0, <1>11 DEF CloseGate, breaker, call, OldCallsPredateOpening
  <2>5. ProbesAreHalfOpen'
    BY <1>11 DEF CloseGate, breaker, call, ProbesAreHalfOpen
  <2>6. OneProbe'
    BY <1>11 DEF CloseGate, breaker, call, OneProbe
  <2>7. ProbeIsOwed'
    BY <1>0, <1>11 DEF CloseGate, breaker, call, ProbeIsOwed
  <2> QED
    BY <2>1, <2>2, <2>3, <2>4, <2>5, <2>6, <2>7
<1>12. CASE UNCHANGED vars
  BY <1>12 DEF vars, breaker, call, TypeOK, CallsAreYoung, FailuresAreRecent,
     OldCallsPredateOpening, ProbesAreHalfOpen, OneProbe, ProbeIsOwed
<1> QED
  BY <1>1, <1>2, <1>3, <1>4, <1>5, <1>6, <1>7, <1>8, <1>9, <1>10, <1>11, <1>12
  DEF Next, Step, Verdict

\* The invariant is inductive: whatever the interleaving of arrivals, verdicts
\* and clock readings, Allow, Succeeded, Failed and Abandoned keep it.
THEOREM BreakerInvariant ==
    ASSUME ~Parking, 2 * MaxCall < Cooldown
    PROVE  Spec => []BreakerInv
<1>1. Init => BreakerInv
  BY InitEstablishes
<1>2. BreakerInv /\ [Next]_vars => BreakerInv'
  BY StepPreserves
<1> QED
  BY <1>1, <1>2, PTL DEF Spec

\* The half-open promise of breaker.go:35: the probe Allow lets through is the
\* only call the dependency sees until that probe reports back.
THEOREM HalfOpenIsExclusive ==
    ASSUME ~Parking, 2 * MaxCall < Cooldown
    PROVE  Spec => []ProbeIsAlone
<1>1. BreakerInv => ProbeIsAlone
  BY ProbeExcludesOthers
<1> QED
  BY <1>1, BreakerInvariant, PTL

\* The obligation of breaker.go:48: no path out of Take leaves the probing flag
\* up behind it.
THEOREM EveryProbeIsOwed ==
    ASSUME ~Parking, 2 * MaxCall < Cooldown
    PROVE  Spec => []ProbeIsOwed
<1>1. BreakerInv => ProbeIsOwed
  BY DEF BreakerInv
<1> QED
  BY <1>1, BreakerInvariant, PTL
=============================================================================
