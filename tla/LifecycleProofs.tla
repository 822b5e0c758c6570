--------------------------- MODULE LifecycleProofs ---------------------------
(***************************************************************************)
(* The lifetime proved for any number of operations, streamed bodies and   *)
(* Close and Shutdown calls: the store is touched only while it is open,   *)
(* no charge is lost unless its save failed or its entry was let go under  *)
(* it, nobody returns early, and the whole implements DrainThenClose.      *)
(*                                                                         *)
(* The invariant is proved part by part.  The count of the WaitGroup is    *)
(* tied to the set of registered operations (CountIsInside); with the door *)
(* shut (DoorIsShut) that set only shrinks, so what a teardown stage found *)
(* drained stays drained (TeardownOrder), and sync.Once makes the stages   *)
(* those of one closer (OneOwner).                                         *)
(***************************************************************************)
EXTENDS Lifecycle, FiniteSetTheorems, TLAPS

-----------------------------------------------------------------------------
(* Inside, the set the WaitGroup counts.                                   *)

LEMMA InsideIsFinite == IsFiniteSet(Inside)
  BY LifecycleAssumption, FS_Subset DEF Inside

\* One operation's move adds it to the inside or takes it out.
LEMMA InsideMoves ==
    ASSUME TypeOK, NEW o \in Ops, NEW from, NEW to, OpMoves(o, from, to)
    PROVE  Inside' = IF to \in Registered THEN Inside \cup {o} ELSE Inside \ {o}
  BY DEF Inside, OpMoves, TypeOK

LEMMA CountZero ==
    ASSUME CountIsInside
    PROVE  active = 0 <=> Inside = {}
  BY InsideIsFinite, FS_EmptySet DEF CountIsInside

-----------------------------------------------------------------------------
(* The parts of the invariant, each kept by every step.                    *)

\* Whoever is inside is counted: leave never takes the count below zero.
LEMMA InsideIsCounted ==
    ASSUME TypeOK, CountIsInside, NEW o \in Ops, op[o] \in Registered
    PROVE  active # 0
<1>1. o \in Inside
  BY DEF Inside
<1> QED
  BY <1>1, CountZero

LEMMA EmptyWhenZero ==
    ASSUME TypeOK, CountIsInside, active = 0, NEW o \in Ops
    PROVE  op[o] \notin Registered
  BY InsideIsCounted

\* Behind a drained barrier nobody holds an entry, or a charge on its way.
LEMMA NothingInHand ==
    ASSUME TypeOK, CountIsInside, Custody, active = 0
    PROVE  InHand = {} /\ Holding = {}
  BY EmptyWhenZero DEF InHand, Holding, Custody, Registered

\* Type correctness.  leave is the delicate part: the count stays a natural.
LEMMA TypeStep ==
    ASSUME TypeOK, CountIsInside, [Next]_vars
    PROVE  TypeOK'
<1> USE DEF barrier, teardown, data, entries, calls
<1>1. ASSUME NEW o \in Ops, Enter(o) PROVE TypeOK'
  BY <1>1 DEF Enter, OpMoves, TypeOK, OpStages, Registered, GcStages, CloserStages, Owning, Results
<1>2. ASSUME NEW o \in Ops, Refused(o) PROVE TypeOK'
  BY <1>2 DEF Refused, OpMoves, TypeOK, OpStages, Registered, GcStages, CloserStages, Owning, Results
<1>3. ASSUME NEW o \in Ops, StartIO(o) PROVE TypeOK'
  BY <1>3 DEF StartIO, OpMoves, TypeOK, OpStages, Registered, GcStages, CloserStages, Owning, Results
<1>4. ASSUME NEW o \in Ops, Find(o) PROVE TypeOK'
  BY <1>4 DEF Find, OpMoves, TypeOK, OpStages, Registered, GcStages, CloserStages, Owning, Results
<1>5. ASSUME NEW o \in Ops, Charge(o) PROVE TypeOK'
  BY <1>5 DEF Charge, OpMoves, TypeOK, OpStages, Registered, GcStages, CloserStages, Owning, Results
<1>6. ASSUME NEW o \in Ops, Evict(o) PROVE TypeOK'
  BY <1>6 DEF Evict, OpMoves, TypeOK, OpStages, Registered, GcStages, CloserStages, Owning, Results
<1>7. ASSUME NEW o \in Ops, EvictSaved(o) PROVE TypeOK'
  BY <1>7 DEF EvictSaved, OpMoves, TypeOK, OpStages, Registered, GcStages, CloserStages, Owning, Results
<1>8. ASSUME NEW o \in Ops, HandOver(o) PROVE TypeOK'
  BY <1>8 DEF HandOver, OpMoves, TypeOK, OpStages, Registered, GcStages, CloserStages, Owning, Results
<1>9. ASSUME NEW o \in Ops, Return(o) PROVE TypeOK'
  BY <1>9, InsideIsCounted DEF Return, Leave, OpMoves, Registered, TypeOK, OpStages
<1>10. ASSUME NEW o \in Ops, CloseBody(o) PROVE TypeOK'
  BY <1>10, InsideIsCounted DEF CloseBody, Leave, OpMoves, Registered, TypeOK, OpStages
<1>11. CASE GcTick
  BY <1>11 DEF GcTick, TypeOK, OpStages, Registered, GcStages, CloserStages, Owning, Results
<1>12. CASE GcFlush
  BY <1>12 DEF GcFlush, TypeOK, OpStages, Registered, GcStages, CloserStages, Owning, Results
<1>13. CASE GcDrop
  BY <1>13 DEF GcDrop, TypeOK, OpStages, Registered, GcStages, CloserStages, Owning, Results
<1>14. CASE GcExit
  BY <1>14 DEF GcExit, TypeOK, OpStages, Registered, GcStages, CloserStages, Owning, Results
<1>15. ASSUME NEW c \in Closers, CallClose(c) PROVE TypeOK'
  BY <1>15 DEF CallClose, CloserMoves, TypeOK, OpStages, Registered, GcStages, CloserStages, Owning, Results
<1>16. ASSUME NEW c \in Closers, CallShutdown(c) PROVE TypeOK'
  BY <1>16 DEF CallShutdown, CloserMoves, TypeOK, OpStages, Registered, GcStages, CloserStages, Owning, Results
<1>17. ASSUME NEW c \in Closers, Expire(c) PROVE TypeOK'
  BY <1>17 DEF Expire, TypeOK, OpStages, Registered, GcStages, CloserStages, Owning, Results
<1>18. ASSUME NEW c \in Closers, Drained(c) PROVE TypeOK'
  BY <1>18 DEF Drained, CloserMoves, TypeOK, OpStages, Registered, GcStages, CloserStages, Owning, Results
<1>19. ASSUME NEW c \in Closers, ForceCancel(c) PROVE TypeOK'
  BY <1>19 DEF ForceCancel, CloserMoves, TypeOK, OpStages, Registered, GcStages, CloserStages, Owning, Results
<1>20. ASSUME NEW c \in Closers, ForceDrained(c) PROVE TypeOK'
  BY <1>20 DEF ForceDrained, CloserMoves, TypeOK, OpStages, Registered, GcStages, CloserStages, Owning, Results
<1>21. ASSUME NEW c \in Closers, BeginTeardown(c) PROVE TypeOK'
  BY <1>21 DEF BeginTeardown, CloserMoves, TypeOK, OpStages, Registered, GcStages, CloserStages, Owning, Results
<1>22. ASSUME NEW c \in Closers, CancelAll(c) PROVE TypeOK'
  BY <1>22 DEF CancelAll, CloserMoves, TypeOK, OpStages, Registered, GcStages, CloserStages, Owning, Results
<1>23. ASSUME NEW c \in Closers, GcDrained(c) PROVE TypeOK'
  BY <1>23 DEF GcDrained, CloserMoves, TypeOK, OpStages, Registered, GcStages, CloserStages, Owning, Results
<1>24. ASSUME NEW c \in Closers, OpsDrained(c) PROVE TypeOK'
  BY <1>24 DEF OpsDrained, CloserMoves, TypeOK, OpStages, Registered, GcStages, CloserStages, Owning, Results
<1>25. ASSUME NEW c \in Closers, Flush(c) PROVE TypeOK'
  BY <1>25 DEF Flush, CloserMoves, TypeOK, OpStages, Registered, GcStages, CloserStages, Owning, Results
<1>26. ASSUME NEW c \in Closers, DropAll(c) PROVE TypeOK'
  BY <1>26 DEF DropAll, CloserMoves, TypeOK, OpStages, Registered, GcStages, CloserStages, Owning, Results
<1>27. ASSUME NEW c \in Closers, CloseStore(c) PROVE TypeOK'
  BY <1>27 DEF CloseStore, CloserMoves, Answer, TypeOK, OpStages, Registered, GcStages, CloserStages, Owning, Results
<1>28. ASSUME NEW c \in Closers, JoinTeardown(c) PROVE TypeOK'
  BY <1>28 DEF JoinTeardown, CloserMoves, Answer, TypeOK, OpStages, Registered, GcStages, CloserStages, Owning, Results
<1>29. CASE UNCHANGED vars
  BY <1>29 DEF vars, TypeOK, OpStages, Registered, GcStages, CloserStages, Owning, Results
<1> QED
  BY <1>1, <1>2, <1>3, <1>4, <1>5, <1>6, <1>7, <1>8, <1>9, <1>10, <1>11, <1>12, <1>13,
     <1>14, <1>15, <1>16, <1>17, <1>18, <1>19, <1>20, <1>21, <1>22, <1>23, <1>24,
     <1>25, <1>26, <1>27, <1>28, <1>29
  DEF Next, OpStep, GcStep, CloserStep

\* enter and leave pair up: the count is the number of operations inside.
LEMMA CountStep ==
    ASSUME TypeOK, CountIsInside, [Next]_vars
    PROVE  CountIsInside'
<1> USE DEF barrier, teardown, data, entries, calls
<1>1. ASSUME NEW o \in Ops, Enter(o) PROVE CountIsInside'
  <2>1. Inside' = Inside \cup {o} /\ o \notin Inside
    BY <1>1, InsideMoves DEF Enter, OpMoves, Registered, Inside
  <2>2. Cardinality(Inside') = Cardinality(Inside) + 1
    BY <2>1, InsideIsFinite, FS_AddElement
  <2> QED
    BY <1>1, <2>2 DEF Enter, CountIsInside
<1>2. ASSUME NEW o \in Ops, Refused(o) PROVE CountIsInside'
  <2>1. Inside' = Inside
    BY <1>2, InsideMoves DEF Refused, OpMoves, Registered, Inside
  <2> QED
    BY <1>2, <2>1 DEF Refused, CountIsInside
<1>3. ASSUME NEW o \in Ops, StartIO(o) PROVE CountIsInside'
  <2>1. Inside' = Inside
    BY <1>3, InsideMoves DEF StartIO, OpMoves, Registered, Inside
  <2> QED
    BY <1>3, <2>1 DEF StartIO, CountIsInside
<1>4. ASSUME NEW o \in Ops, Find(o) PROVE CountIsInside'
  <2>1. Inside' = Inside
    BY <1>4, InsideMoves DEF Find, OpMoves, Registered, Inside
  <2> QED
    BY <1>4, <2>1 DEF Find, CountIsInside
<1>5. ASSUME NEW o \in Ops, Charge(o) PROVE CountIsInside'
  <2>1. Inside' = Inside
    BY <1>5, InsideMoves DEF Charge, OpMoves, Registered, Inside
  <2> QED
    BY <1>5, <2>1 DEF Charge, CountIsInside
<1>6. ASSUME NEW o \in Ops, Evict(o) PROVE CountIsInside'
  <2>1. Inside' = Inside
    BY <1>6, InsideMoves DEF Evict, OpMoves, Registered, Inside
  <2> QED
    BY <1>6, <2>1 DEF Evict, CountIsInside
<1>7. ASSUME NEW o \in Ops, EvictSaved(o) PROVE CountIsInside'
  <2>1. Inside' = Inside
    BY <1>7, InsideMoves DEF EvictSaved, OpMoves, Registered, Inside
  <2> QED
    BY <1>7, <2>1 DEF EvictSaved, CountIsInside
<1>8. ASSUME NEW o \in Ops, HandOver(o) PROVE CountIsInside'
  <2>1. Inside' = Inside
    BY <1>8, InsideMoves DEF HandOver, OpMoves, Registered, Inside
  <2> QED
    BY <1>8, <2>1 DEF HandOver, CountIsInside
<1>9. ASSUME NEW o \in Ops, Return(o) PROVE CountIsInside'
  <2>0. PICK stage \in {"entered", "io", "holding", "working"} : OpMoves(o, stage, "left")
    BY <1>9 DEF Return
  <2>1. o \in Inside /\ Inside' = Inside \ {o}
    BY <2>0, InsideMoves DEF OpMoves, Registered, Inside
  <2>2. Cardinality(Inside') = Cardinality(Inside) - 1
    BY <2>1, InsideIsFinite, FS_RemoveElement
  <2> QED
    BY <1>9, <2>2 DEF Return, Leave, CountIsInside
<1>10. ASSUME NEW o \in Ops, CloseBody(o) PROVE CountIsInside'
  <2>1. o \in Inside /\ Inside' = Inside \ {o}
    BY <1>10, InsideMoves DEF CloseBody, OpMoves, Registered, Inside
  <2>2. Cardinality(Inside') = Cardinality(Inside) - 1
    BY <2>1, InsideIsFinite, FS_RemoveElement
  <2> QED
    BY <1>10, <2>2 DEF CloseBody, Leave, CountIsInside
<1>11. CASE GcTick
  BY <1>11 DEF GcTick, CountIsInside, Inside
<1>12. CASE GcFlush
  BY <1>12 DEF GcFlush, CountIsInside, Inside
<1>13. CASE GcDrop
  BY <1>13 DEF GcDrop, CountIsInside, Inside
<1>14. CASE GcExit
  BY <1>14 DEF GcExit, CountIsInside, Inside
<1>15. ASSUME NEW c \in Closers, CallClose(c) PROVE CountIsInside'
  BY <1>15 DEF CallClose, CloserMoves, CountIsInside, Inside
<1>16. ASSUME NEW c \in Closers, CallShutdown(c) PROVE CountIsInside'
  BY <1>16 DEF CallShutdown, CloserMoves, CountIsInside, Inside
<1>17. ASSUME NEW c \in Closers, Expire(c) PROVE CountIsInside'
  BY <1>17 DEF Expire, CountIsInside, Inside
<1>18. ASSUME NEW c \in Closers, Drained(c) PROVE CountIsInside'
  BY <1>18 DEF Drained, CloserMoves, CountIsInside, Inside
<1>19. ASSUME NEW c \in Closers, ForceCancel(c) PROVE CountIsInside'
  BY <1>19 DEF ForceCancel, CloserMoves, CountIsInside, Inside
<1>20. ASSUME NEW c \in Closers, ForceDrained(c) PROVE CountIsInside'
  BY <1>20 DEF ForceDrained, CloserMoves, CountIsInside, Inside
<1>21. ASSUME NEW c \in Closers, BeginTeardown(c) PROVE CountIsInside'
  BY <1>21 DEF BeginTeardown, CloserMoves, CountIsInside, Inside
<1>22. ASSUME NEW c \in Closers, CancelAll(c) PROVE CountIsInside'
  BY <1>22 DEF CancelAll, CloserMoves, CountIsInside, Inside
<1>23. ASSUME NEW c \in Closers, GcDrained(c) PROVE CountIsInside'
  BY <1>23 DEF GcDrained, CloserMoves, CountIsInside, Inside
<1>24. ASSUME NEW c \in Closers, OpsDrained(c) PROVE CountIsInside'
  BY <1>24 DEF OpsDrained, CloserMoves, CountIsInside, Inside
<1>25. ASSUME NEW c \in Closers, Flush(c) PROVE CountIsInside'
  BY <1>25 DEF Flush, CloserMoves, CountIsInside, Inside
<1>26. ASSUME NEW c \in Closers, DropAll(c) PROVE CountIsInside'
  BY <1>26 DEF DropAll, CloserMoves, CountIsInside, Inside
<1>27. ASSUME NEW c \in Closers, CloseStore(c) PROVE CountIsInside'
  BY <1>27 DEF CloseStore, CloserMoves, Answer, CountIsInside, Inside
<1>28. ASSUME NEW c \in Closers, JoinTeardown(c) PROVE CountIsInside'
  BY <1>28 DEF JoinTeardown, CloserMoves, Answer, CountIsInside, Inside
<1>29. CASE UNCHANGED vars
  BY <1>29 DEF vars, CountIsInside, Inside
<1> QED
  BY <1>1, <1>2, <1>3, <1>4, <1>5, <1>6, <1>7, <1>8, <1>9, <1>10, <1>11, <1>12, <1>13,
     <1>14, <1>15, <1>16, <1>17, <1>18, <1>19, <1>20, <1>21, <1>22, <1>23, <1>24,
     <1>25, <1>26, <1>27, <1>28, <1>29
  DEF Next, OpStep, GcStep, CloserStep

\* A closer sets shuttingDown before anything else, and nobody resets it.
LEMMA DoorStep ==
    ASSUME TypeOK, DoorIsShut, [Next]_vars
    PROVE  DoorIsShut'
<1> USE DEF barrier, teardown, data, entries, calls
<1>1. ASSUME NEW o \in Ops, Enter(o) PROVE DoorIsShut'
  BY <1>1 DEF Enter, OpMoves, TypeOK, DoorIsShut
<1>2. ASSUME NEW o \in Ops, Refused(o) PROVE DoorIsShut'
  BY <1>2 DEF Refused, OpMoves, TypeOK, DoorIsShut
<1>3. ASSUME NEW o \in Ops, StartIO(o) PROVE DoorIsShut'
  BY <1>3 DEF StartIO, OpMoves, TypeOK, DoorIsShut
<1>4. ASSUME NEW o \in Ops, Find(o) PROVE DoorIsShut'
  BY <1>4 DEF Find, OpMoves, TypeOK, DoorIsShut
<1>5. ASSUME NEW o \in Ops, Charge(o) PROVE DoorIsShut'
  BY <1>5 DEF Charge, OpMoves, TypeOK, DoorIsShut
<1>6. ASSUME NEW o \in Ops, Evict(o) PROVE DoorIsShut'
  BY <1>6 DEF Evict, OpMoves, TypeOK, DoorIsShut
<1>7. ASSUME NEW o \in Ops, EvictSaved(o) PROVE DoorIsShut'
  BY <1>7 DEF EvictSaved, OpMoves, TypeOK, DoorIsShut
<1>8. ASSUME NEW o \in Ops, HandOver(o) PROVE DoorIsShut'
  BY <1>8 DEF HandOver, OpMoves, TypeOK, DoorIsShut
<1>9. ASSUME NEW o \in Ops, Return(o) PROVE DoorIsShut'
  BY <1>9 DEF Return, Leave, OpMoves, TypeOK, DoorIsShut
<1>10. ASSUME NEW o \in Ops, CloseBody(o) PROVE DoorIsShut'
  BY <1>10 DEF CloseBody, Leave, OpMoves, TypeOK, DoorIsShut
<1>11. CASE GcTick
  BY <1>11 DEF GcTick, TypeOK, DoorIsShut
<1>12. CASE GcFlush
  BY <1>12 DEF GcFlush, TypeOK, DoorIsShut
<1>13. CASE GcDrop
  BY <1>13 DEF GcDrop, TypeOK, DoorIsShut
<1>14. CASE GcExit
  BY <1>14 DEF GcExit, TypeOK, DoorIsShut
<1>15. ASSUME NEW c \in Closers, CallClose(c) PROVE DoorIsShut'
  BY <1>15 DEF CallClose, CloserMoves, TypeOK, DoorIsShut
<1>16. ASSUME NEW c \in Closers, CallShutdown(c) PROVE DoorIsShut'
  BY <1>16 DEF CallShutdown, CloserMoves, TypeOK, DoorIsShut
<1>17. ASSUME NEW c \in Closers, Expire(c) PROVE DoorIsShut'
  BY <1>17 DEF Expire, TypeOK, DoorIsShut
<1>18. ASSUME NEW c \in Closers, Drained(c) PROVE DoorIsShut'
  BY <1>18 DEF Drained, CloserMoves, TypeOK, DoorIsShut
<1>19. ASSUME NEW c \in Closers, ForceCancel(c) PROVE DoorIsShut'
  BY <1>19 DEF ForceCancel, CloserMoves, TypeOK, DoorIsShut
<1>20. ASSUME NEW c \in Closers, ForceDrained(c) PROVE DoorIsShut'
  BY <1>20 DEF ForceDrained, CloserMoves, TypeOK, DoorIsShut
<1>21. ASSUME NEW c \in Closers, BeginTeardown(c) PROVE DoorIsShut'
  BY <1>21 DEF BeginTeardown, CloserMoves, TypeOK, DoorIsShut
<1>22. ASSUME NEW c \in Closers, CancelAll(c) PROVE DoorIsShut'
  BY <1>22 DEF CancelAll, CloserMoves, TypeOK, DoorIsShut
<1>23. ASSUME NEW c \in Closers, GcDrained(c) PROVE DoorIsShut'
  BY <1>23 DEF GcDrained, CloserMoves, TypeOK, DoorIsShut
<1>24. ASSUME NEW c \in Closers, OpsDrained(c) PROVE DoorIsShut'
  BY <1>24 DEF OpsDrained, CloserMoves, TypeOK, DoorIsShut
<1>25. ASSUME NEW c \in Closers, Flush(c) PROVE DoorIsShut'
  BY <1>25 DEF Flush, CloserMoves, TypeOK, DoorIsShut
<1>26. ASSUME NEW c \in Closers, DropAll(c) PROVE DoorIsShut'
  BY <1>26 DEF DropAll, CloserMoves, TypeOK, DoorIsShut
<1>27. ASSUME NEW c \in Closers, CloseStore(c) PROVE DoorIsShut'
  BY <1>27 DEF CloseStore, CloserMoves, Answer, TypeOK, DoorIsShut
<1>28. ASSUME NEW c \in Closers, JoinTeardown(c) PROVE DoorIsShut'
  BY <1>28 DEF JoinTeardown, CloserMoves, Answer, TypeOK, DoorIsShut
<1>29. CASE UNCHANGED vars
  BY <1>29 DEF vars, TypeOK, DoorIsShut
<1> QED
  BY <1>1, <1>2, <1>3, <1>4, <1>5, <1>6, <1>7, <1>8, <1>9, <1>10, <1>11, <1>12, <1>13,
     <1>14, <1>15, <1>16, <1>17, <1>18, <1>19, <1>20, <1>21, <1>22, <1>23, <1>24,
     <1>25, <1>26, <1>27, <1>28, <1>29
  DEF Next, OpStep, GcStep, CloserStep

\* sync.Once: the teardown has one owner, and it runs once.
LEMMA OnceStep ==
    ASSUME TypeOK, OneOwner, [Next]_vars
    PROVE  OneOwner'
<1> USE DEF barrier, teardown, data, entries, calls
<1>1. ASSUME NEW o \in Ops, Enter(o) PROVE OneOwner'
  BY <1>1 DEF Enter, OpMoves, TypeOK, OneOwner, Owning
<1>2. ASSUME NEW o \in Ops, Refused(o) PROVE OneOwner'
  BY <1>2 DEF Refused, OpMoves, TypeOK, OneOwner, Owning
<1>3. ASSUME NEW o \in Ops, StartIO(o) PROVE OneOwner'
  BY <1>3 DEF StartIO, OpMoves, TypeOK, OneOwner, Owning
<1>4. ASSUME NEW o \in Ops, Find(o) PROVE OneOwner'
  BY <1>4 DEF Find, OpMoves, TypeOK, OneOwner, Owning
<1>5. ASSUME NEW o \in Ops, Charge(o) PROVE OneOwner'
  BY <1>5 DEF Charge, OpMoves, TypeOK, OneOwner, Owning
<1>6. ASSUME NEW o \in Ops, Evict(o) PROVE OneOwner'
  BY <1>6 DEF Evict, OpMoves, TypeOK, OneOwner, Owning
<1>7. ASSUME NEW o \in Ops, EvictSaved(o) PROVE OneOwner'
  BY <1>7 DEF EvictSaved, OpMoves, TypeOK, OneOwner, Owning
<1>8. ASSUME NEW o \in Ops, HandOver(o) PROVE OneOwner'
  BY <1>8 DEF HandOver, OpMoves, TypeOK, OneOwner, Owning
<1>9. ASSUME NEW o \in Ops, Return(o) PROVE OneOwner'
  BY <1>9 DEF Return, Leave, OpMoves, TypeOK, OneOwner, Owning
<1>10. ASSUME NEW o \in Ops, CloseBody(o) PROVE OneOwner'
  BY <1>10 DEF CloseBody, Leave, OpMoves, TypeOK, OneOwner, Owning
<1>11. CASE GcTick
  BY <1>11 DEF GcTick, TypeOK, OneOwner, Owning
<1>12. CASE GcFlush
  BY <1>12 DEF GcFlush, TypeOK, OneOwner, Owning
<1>13. CASE GcDrop
  BY <1>13 DEF GcDrop, TypeOK, OneOwner, Owning
<1>14. CASE GcExit
  BY <1>14 DEF GcExit, TypeOK, OneOwner, Owning
<1>15. ASSUME NEW c \in Closers, CallClose(c) PROVE OneOwner'
  BY <1>15 DEF CallClose, CloserMoves, TypeOK, OneOwner, Owning
<1>16. ASSUME NEW c \in Closers, CallShutdown(c) PROVE OneOwner'
  BY <1>16 DEF CallShutdown, CloserMoves, TypeOK, OneOwner, Owning
<1>17. ASSUME NEW c \in Closers, Expire(c) PROVE OneOwner'
  BY <1>17 DEF Expire, TypeOK, OneOwner, Owning
<1>18. ASSUME NEW c \in Closers, Drained(c) PROVE OneOwner'
  BY <1>18 DEF Drained, CloserMoves, TypeOK, OneOwner, Owning
<1>19. ASSUME NEW c \in Closers, ForceCancel(c) PROVE OneOwner'
  BY <1>19 DEF ForceCancel, CloserMoves, TypeOK, OneOwner, Owning
<1>20. ASSUME NEW c \in Closers, ForceDrained(c) PROVE OneOwner'
  BY <1>20 DEF ForceDrained, CloserMoves, TypeOK, OneOwner, Owning
<1>21. ASSUME NEW c \in Closers, BeginTeardown(c) PROVE OneOwner'
  BY <1>21 DEF BeginTeardown, CloserMoves, TypeOK, OneOwner, Owning
<1>22. ASSUME NEW c \in Closers, CancelAll(c) PROVE OneOwner'
  BY <1>22 DEF CancelAll, CloserMoves, TypeOK, OneOwner, Owning
<1>23. ASSUME NEW c \in Closers, GcDrained(c) PROVE OneOwner'
  BY <1>23 DEF GcDrained, CloserMoves, TypeOK, OneOwner, Owning
<1>24. ASSUME NEW c \in Closers, OpsDrained(c) PROVE OneOwner'
  BY <1>24 DEF OpsDrained, CloserMoves, TypeOK, OneOwner, Owning
<1>25. ASSUME NEW c \in Closers, Flush(c) PROVE OneOwner'
  BY <1>25 DEF Flush, CloserMoves, TypeOK, OneOwner, Owning
<1>26. ASSUME NEW c \in Closers, DropAll(c) PROVE OneOwner'
  BY <1>26 DEF DropAll, CloserMoves, TypeOK, OneOwner, Owning
<1>27. ASSUME NEW c \in Closers, CloseStore(c) PROVE OneOwner'
  BY <1>27 DEF CloseStore, CloserMoves, Answer, TypeOK, OneOwner, Owning
<1>28. ASSUME NEW c \in Closers, JoinTeardown(c) PROVE OneOwner'
  BY <1>28 DEF JoinTeardown, CloserMoves, Answer, TypeOK, OneOwner, Owning
<1>29. CASE UNCHANGED vars
  BY <1>29 DEF vars, TypeOK, OneOwner, Owning
<1> QED
  BY <1>1, <1>2, <1>3, <1>4, <1>5, <1>6, <1>7, <1>8, <1>9, <1>10, <1>11, <1>12, <1>13,
     <1>14, <1>15, <1>16, <1>17, <1>18, <1>19, <1>20, <1>21, <1>22, <1>23, <1>24,
     <1>25, <1>26, <1>27, <1>28, <1>29
  DEF Next, OpStep, GcStep, CloserStep

\* A charge leaves memory only through the sweep, an Evict or the final flush,
\* each of which has tried to save it.
LEMMA ChargeStep ==
    ASSUME TypeOK, TeardownOrder, Custody, NoChargeLost, [Next]_vars
    PROVE  NoChargeLost'
<1> USE DEF barrier, teardown, data, entries, calls
<1>1. ASSUME NEW o \in Ops, Enter(o) PROVE NoChargeLost'
  BY <1>1 DEF Enter, OpMoves, TypeOK, TeardownOrder, Custody, NoChargeLost, InHand, Holding
<1>2. ASSUME NEW o \in Ops, Refused(o) PROVE NoChargeLost'
  BY <1>2 DEF Refused, OpMoves, TypeOK, TeardownOrder, Custody, NoChargeLost, InHand, Holding
<1>3. ASSUME NEW o \in Ops, StartIO(o) PROVE NoChargeLost'
  BY <1>3 DEF StartIO, OpMoves, TypeOK, TeardownOrder, Custody, NoChargeLost, InHand, Holding
<1>4. ASSUME NEW o \in Ops, Find(o) PROVE NoChargeLost'
  BY <1>4 DEF Find, OpMoves, TypeOK, TeardownOrder, Custody, NoChargeLost, InHand, Holding
<1>5. ASSUME NEW o \in Ops, Charge(o) PROVE NoChargeLost'
  BY <1>5 DEF Charge, OpMoves, TypeOK, TeardownOrder, Custody, NoChargeLost, InHand, Holding
<1>6. ASSUME NEW o \in Ops, Evict(o) PROVE NoChargeLost'
  BY <1>6 DEF Evict, OpMoves, TypeOK, TeardownOrder, Custody, NoChargeLost, InHand, Holding
<1>7. ASSUME NEW o \in Ops, EvictSaved(o) PROVE NoChargeLost'
  BY <1>7 DEF EvictSaved, OpMoves, TypeOK, TeardownOrder, Custody, NoChargeLost, InHand, Holding
<1>8. ASSUME NEW o \in Ops, HandOver(o) PROVE NoChargeLost'
  BY <1>8 DEF HandOver, OpMoves, TypeOK, TeardownOrder, Custody, NoChargeLost, InHand, Holding
<1>9. ASSUME NEW o \in Ops, Return(o) PROVE NoChargeLost'
  BY <1>9 DEF Return, Leave, OpMoves, TypeOK, TeardownOrder, Custody, NoChargeLost, InHand, Holding
<1>10. ASSUME NEW o \in Ops, CloseBody(o) PROVE NoChargeLost'
  BY <1>10 DEF CloseBody, Leave, OpMoves, TypeOK, TeardownOrder, Custody, NoChargeLost, InHand, Holding
<1>11. CASE GcTick
  BY <1>11 DEF GcTick, TypeOK, TeardownOrder, Custody, NoChargeLost, InHand, Holding
<1>12. CASE GcFlush
  BY <1>12 DEF GcFlush, TypeOK, TeardownOrder, Custody, NoChargeLost, InHand, Holding
<1>13. CASE GcDrop
  BY <1>13 DEF GcDrop, TypeOK, TeardownOrder, Custody, NoChargeLost, InHand, Holding
<1>14. CASE GcExit
  BY <1>14 DEF GcExit, TypeOK, TeardownOrder, Custody, NoChargeLost, InHand, Holding
<1>15. ASSUME NEW c \in Closers, CallClose(c) PROVE NoChargeLost'
  BY <1>15 DEF CallClose, CloserMoves, TypeOK, TeardownOrder, Custody, NoChargeLost, InHand, Holding
<1>16. ASSUME NEW c \in Closers, CallShutdown(c) PROVE NoChargeLost'
  BY <1>16 DEF CallShutdown, CloserMoves, TypeOK, TeardownOrder, Custody, NoChargeLost, InHand, Holding
<1>17. ASSUME NEW c \in Closers, Expire(c) PROVE NoChargeLost'
  BY <1>17 DEF Expire, TypeOK, TeardownOrder, Custody, NoChargeLost, InHand, Holding
<1>18. ASSUME NEW c \in Closers, Drained(c) PROVE NoChargeLost'
  BY <1>18 DEF Drained, CloserMoves, TypeOK, TeardownOrder, Custody, NoChargeLost, InHand, Holding
<1>19. ASSUME NEW c \in Closers, ForceCancel(c) PROVE NoChargeLost'
  BY <1>19 DEF ForceCancel, CloserMoves, TypeOK, TeardownOrder, Custody, NoChargeLost, InHand, Holding
<1>20. ASSUME NEW c \in Closers, ForceDrained(c) PROVE NoChargeLost'
  BY <1>20 DEF ForceDrained, CloserMoves, TypeOK, TeardownOrder, Custody, NoChargeLost, InHand, Holding
<1>21. ASSUME NEW c \in Closers, BeginTeardown(c) PROVE NoChargeLost'
  BY <1>21 DEF BeginTeardown, CloserMoves, TypeOK, TeardownOrder, Custody, NoChargeLost, InHand, Holding
<1>22. ASSUME NEW c \in Closers, CancelAll(c) PROVE NoChargeLost'
  BY <1>22 DEF CancelAll, CloserMoves, TypeOK, TeardownOrder, Custody, NoChargeLost, InHand, Holding
<1>23. ASSUME NEW c \in Closers, GcDrained(c) PROVE NoChargeLost'
  BY <1>23 DEF GcDrained, CloserMoves, TypeOK, TeardownOrder, Custody, NoChargeLost, InHand, Holding
<1>24. ASSUME NEW c \in Closers, OpsDrained(c) PROVE NoChargeLost'
  BY <1>24 DEF OpsDrained, CloserMoves, TypeOK, TeardownOrder, Custody, NoChargeLost, InHand, Holding
<1>25. ASSUME NEW c \in Closers, Flush(c) PROVE NoChargeLost'
  BY <1>25 DEF Flush, CloserMoves, TypeOK, TeardownOrder, Custody, NoChargeLost, InHand, Holding
<1>26. ASSUME NEW c \in Closers, DropAll(c) PROVE NoChargeLost'
  BY <1>26 DEF DropAll, CloserMoves, TypeOK, TeardownOrder, Custody, NoChargeLost, InHand, Holding
<1>27. ASSUME NEW c \in Closers, CloseStore(c) PROVE NoChargeLost'
  BY <1>27 DEF CloseStore, CloserMoves, Answer, TypeOK, TeardownOrder, Custody, NoChargeLost, InHand, Holding
<1>28. ASSUME NEW c \in Closers, JoinTeardown(c) PROVE NoChargeLost'
  BY <1>28 DEF JoinTeardown, CloserMoves, Answer, TypeOK, TeardownOrder, Custody, NoChargeLost, InHand, Holding
<1>29. CASE UNCHANGED vars
  BY <1>29 DEF vars, TypeOK, TeardownOrder, Custody, NoChargeLost, InHand, Holding
<1> QED
  BY <1>1, <1>2, <1>3, <1>4, <1>5, <1>6, <1>7, <1>8, <1>9, <1>10, <1>11, <1>12, <1>13,
     <1>14, <1>15, <1>16, <1>17, <1>18, <1>19, <1>20, <1>21, <1>22, <1>23, <1>24,
     <1>25, <1>26, <1>27, <1>28, <1>29
  DEF Next, OpStep, GcStep, CloserStep

\* Only its own operation takes an entry in hand, and a sweep or an Evict that
\* takes it from the map leaves a note.
LEMMA CustodyStep ==
    ASSUME TypeOK, CountIsInside, TeardownOrder, Custody, [Next]_vars
    PROVE  Custody'
<1> USE DEF barrier, teardown, data, entries, calls
<1>1. ASSUME NEW o \in Ops, Enter(o) PROVE Custody'
  BY <1>1 DEF Enter, OpMoves, TypeOK, TeardownOrder, Custody, Holding
<1>2. ASSUME NEW o \in Ops, Refused(o) PROVE Custody'
  BY <1>2 DEF Refused, OpMoves, TypeOK, TeardownOrder, Custody, Holding
<1>3. ASSUME NEW o \in Ops, StartIO(o) PROVE Custody'
  BY <1>3 DEF StartIO, OpMoves, TypeOK, TeardownOrder, Custody, Holding
<1>4. ASSUME NEW o \in Ops, Find(o) PROVE Custody'
  BY <1>4 DEF Find, OpMoves, TypeOK, TeardownOrder, Custody, Holding
<1>5. ASSUME NEW o \in Ops, Charge(o) PROVE Custody'
  BY <1>5 DEF Charge, OpMoves, TypeOK, TeardownOrder, Custody, Holding
<1>6. ASSUME NEW o \in Ops, Evict(o) PROVE Custody'
  BY <1>6 DEF Evict, OpMoves, TypeOK, TeardownOrder, Custody, Holding
<1>7. ASSUME NEW o \in Ops, EvictSaved(o) PROVE Custody'
  BY <1>7 DEF EvictSaved, OpMoves, TypeOK, TeardownOrder, Custody, Holding
<1>8. ASSUME NEW o \in Ops, HandOver(o) PROVE Custody'
  BY <1>8 DEF HandOver, OpMoves, TypeOK, TeardownOrder, Custody, Holding
<1>9. ASSUME NEW o \in Ops, Return(o) PROVE Custody'
  BY <1>9 DEF Return, Leave, OpMoves, TypeOK, TeardownOrder, Custody, Holding
<1>10. ASSUME NEW o \in Ops, CloseBody(o) PROVE Custody'
  BY <1>10 DEF CloseBody, Leave, OpMoves, TypeOK, TeardownOrder, Custody, Holding
<1>11. CASE GcTick
  BY <1>11 DEF GcTick, TypeOK, TeardownOrder, Custody, Holding
<1>12. CASE GcFlush
  BY <1>12 DEF GcFlush, TypeOK, TeardownOrder, Custody, Holding
<1>13. CASE GcDrop
  BY <1>13 DEF GcDrop, TypeOK, TeardownOrder, Custody, Holding
<1>14. CASE GcExit
  BY <1>14 DEF GcExit, TypeOK, TeardownOrder, Custody, Holding
<1>15. ASSUME NEW c \in Closers, CallClose(c) PROVE Custody'
  BY <1>15 DEF CallClose, CloserMoves, TypeOK, TeardownOrder, Custody, Holding
<1>16. ASSUME NEW c \in Closers, CallShutdown(c) PROVE Custody'
  BY <1>16 DEF CallShutdown, CloserMoves, TypeOK, TeardownOrder, Custody, Holding
<1>17. ASSUME NEW c \in Closers, Expire(c) PROVE Custody'
  BY <1>17 DEF Expire, TypeOK, TeardownOrder, Custody, Holding
<1>18. ASSUME NEW c \in Closers, Drained(c) PROVE Custody'
  BY <1>18 DEF Drained, CloserMoves, TypeOK, TeardownOrder, Custody, Holding
<1>19. ASSUME NEW c \in Closers, ForceCancel(c) PROVE Custody'
  BY <1>19 DEF ForceCancel, CloserMoves, TypeOK, TeardownOrder, Custody, Holding
<1>20. ASSUME NEW c \in Closers, ForceDrained(c) PROVE Custody'
  BY <1>20 DEF ForceDrained, CloserMoves, TypeOK, TeardownOrder, Custody, Holding
<1>21. ASSUME NEW c \in Closers, BeginTeardown(c) PROVE Custody'
  BY <1>21 DEF BeginTeardown, CloserMoves, TypeOK, TeardownOrder, Custody, Holding
<1>22. ASSUME NEW c \in Closers, CancelAll(c) PROVE Custody'
  BY <1>22 DEF CancelAll, CloserMoves, TypeOK, TeardownOrder, Custody, Holding
<1>23. ASSUME NEW c \in Closers, GcDrained(c) PROVE Custody'
  BY <1>23 DEF GcDrained, CloserMoves, TypeOK, TeardownOrder, Custody, Holding
<1>24. ASSUME NEW c \in Closers, OpsDrained(c) PROVE Custody'
  BY <1>24 DEF OpsDrained, CloserMoves, TypeOK, TeardownOrder, Custody, Holding
<1>25. ASSUME NEW c \in Closers, Flush(c) PROVE Custody'
  BY <1>25 DEF Flush, CloserMoves, TypeOK, TeardownOrder, Custody, Holding
<1>26. ASSUME NEW c \in Closers, DropAll(c) PROVE Custody'
  <2>1. active = 0
    BY <1>26 DEF DropAll, CloserMoves, TeardownOrder
  <2>2. Holding = {}
    BY <2>1, NothingInHand
  <2> QED
    BY <1>26, <2>2 DEF DropAll, CloserMoves, TypeOK, Custody, Holding
<1>27. ASSUME NEW c \in Closers, CloseStore(c) PROVE Custody'
  BY <1>27 DEF CloseStore, CloserMoves, Answer, TypeOK, TeardownOrder, Custody, Holding
<1>28. ASSUME NEW c \in Closers, JoinTeardown(c) PROVE Custody'
  BY <1>28 DEF JoinTeardown, CloserMoves, Answer, TypeOK, TeardownOrder, Custody, Holding
<1>29. CASE UNCHANGED vars
  BY <1>29 DEF vars, TypeOK, TeardownOrder, Custody, Holding
<1> QED
  BY <1>1, <1>2, <1>3, <1>4, <1>5, <1>6, <1>7, <1>8, <1>9, <1>10, <1>11, <1>12, <1>13,
     <1>14, <1>15, <1>16, <1>17, <1>18, <1>19, <1>20, <1>21, <1>22, <1>23, <1>24,
     <1>25, <1>26, <1>27, <1>28, <1>29
  DEF Next, OpStep, GcStep, CloserStep

\* What a stage found drained stays drained, because the door is shut.
LEMMA OrderStep ==
    ASSUME TypeOK, CountIsInside, DoorIsShut, OneOwner, TeardownOrder, Custody, NoChargeLost, [Next]_vars
    PROVE  TeardownOrder'
<1> USE DEF barrier, teardown, data, entries, calls
<1>1. ASSUME NEW o \in Ops, Enter(o) PROVE TeardownOrder'
  BY <1>1, EmptyWhenZero DEF Enter, OpMoves, Registered, DoorIsShut, OneOwner, TypeOK, TeardownOrder, Owning
<1>2. ASSUME NEW o \in Ops, Refused(o) PROVE TeardownOrder'
  BY <1>2, EmptyWhenZero DEF Refused, OpMoves, Registered, DoorIsShut, OneOwner, TypeOK, TeardownOrder, Owning
<1>3. ASSUME NEW o \in Ops, StartIO(o) PROVE TeardownOrder'
  BY <1>3, EmptyWhenZero DEF StartIO, OpMoves, Registered, DoorIsShut, OneOwner, TypeOK, TeardownOrder, Owning
<1>4. ASSUME NEW o \in Ops, Find(o) PROVE TeardownOrder'
  BY <1>4, EmptyWhenZero DEF Find, OpMoves, Registered, DoorIsShut, OneOwner, TypeOK, TeardownOrder, Owning
<1>5. ASSUME NEW o \in Ops, Charge(o) PROVE TeardownOrder'
  BY <1>5, EmptyWhenZero DEF Charge, OpMoves, Registered, DoorIsShut, OneOwner, TypeOK, TeardownOrder, Owning
<1>6. ASSUME NEW o \in Ops, Evict(o) PROVE TeardownOrder'
  BY <1>6, EmptyWhenZero DEF Evict, OpMoves, Registered, DoorIsShut, OneOwner, TypeOK, TeardownOrder, Owning
<1>7. ASSUME NEW o \in Ops, EvictSaved(o) PROVE TeardownOrder'
  BY <1>7, EmptyWhenZero DEF EvictSaved, OpMoves, Registered, DoorIsShut, OneOwner, TypeOK, TeardownOrder, Owning
<1>8. ASSUME NEW o \in Ops, HandOver(o) PROVE TeardownOrder'
  BY <1>8, EmptyWhenZero DEF HandOver, OpMoves, Registered, DoorIsShut, OneOwner, TypeOK, TeardownOrder, Owning
<1>9. ASSUME NEW o \in Ops, Return(o) PROVE TeardownOrder'
  BY <1>9, EmptyWhenZero DEF Return, Leave, OpMoves, Registered, DoorIsShut, OneOwner, TypeOK, TeardownOrder, Owning
<1>10. ASSUME NEW o \in Ops, CloseBody(o) PROVE TeardownOrder'
  BY <1>10, EmptyWhenZero DEF CloseBody, Leave, OpMoves, Registered, DoorIsShut, OneOwner, TypeOK, TeardownOrder, Owning
<1>11. CASE GcTick
  BY <1>11 DEF GcTick, TypeOK, DoorIsShut, OneOwner, TeardownOrder, Custody, NoChargeLost, InHand, Owning
<1>12. CASE GcFlush
  BY <1>12 DEF GcFlush, TypeOK, DoorIsShut, OneOwner, TeardownOrder, Custody, NoChargeLost, InHand, Owning
<1>13. CASE GcDrop
  BY <1>13 DEF GcDrop, TypeOK, DoorIsShut, OneOwner, TeardownOrder, Custody, NoChargeLost, InHand, Owning
<1>14. CASE GcExit
  BY <1>14 DEF GcExit, TypeOK, DoorIsShut, OneOwner, TeardownOrder, Custody, NoChargeLost, InHand, Owning
<1>15. ASSUME NEW c \in Closers, CallClose(c) PROVE TeardownOrder'
  BY <1>15 DEF CallClose, CloserMoves, TypeOK, DoorIsShut, OneOwner, TeardownOrder, Custody, NoChargeLost, InHand, Owning
<1>16. ASSUME NEW c \in Closers, CallShutdown(c) PROVE TeardownOrder'
  BY <1>16 DEF CallShutdown, CloserMoves, TypeOK, DoorIsShut, OneOwner, TeardownOrder, Custody, NoChargeLost, InHand, Owning
<1>17. ASSUME NEW c \in Closers, Expire(c) PROVE TeardownOrder'
  BY <1>17 DEF Expire, TypeOK, DoorIsShut, OneOwner, TeardownOrder, Custody, NoChargeLost, InHand, Owning
<1>18. ASSUME NEW c \in Closers, Drained(c) PROVE TeardownOrder'
  BY <1>18 DEF Drained, CloserMoves, TypeOK, DoorIsShut, OneOwner, TeardownOrder, Custody, NoChargeLost, InHand, Owning
<1>19. ASSUME NEW c \in Closers, ForceCancel(c) PROVE TeardownOrder'
  BY <1>19 DEF ForceCancel, CloserMoves, TypeOK, DoorIsShut, OneOwner, TeardownOrder, Custody, NoChargeLost, InHand, Owning
<1>20. ASSUME NEW c \in Closers, ForceDrained(c) PROVE TeardownOrder'
  BY <1>20 DEF ForceDrained, CloserMoves, TypeOK, DoorIsShut, OneOwner, TeardownOrder, Custody, NoChargeLost, InHand, Owning
<1>21. ASSUME NEW c \in Closers, BeginTeardown(c) PROVE TeardownOrder'
  BY <1>21 DEF BeginTeardown, CloserMoves, TypeOK, DoorIsShut, OneOwner, TeardownOrder, Custody, NoChargeLost, InHand, Owning
<1>22. ASSUME NEW c \in Closers, CancelAll(c) PROVE TeardownOrder'
  BY <1>22 DEF CancelAll, CloserMoves, TypeOK, DoorIsShut, OneOwner, TeardownOrder, Custody, NoChargeLost, InHand, Owning
<1>23. ASSUME NEW c \in Closers, GcDrained(c) PROVE TeardownOrder'
  BY <1>23 DEF GcDrained, CloserMoves, TypeOK, DoorIsShut, OneOwner, TeardownOrder, Custody, NoChargeLost, InHand, Owning
<1>24. ASSUME NEW c \in Closers, OpsDrained(c) PROVE TeardownOrder'
  BY <1>24 DEF OpsDrained, CloserMoves, TypeOK, DoorIsShut, OneOwner, TeardownOrder, Custody, NoChargeLost, InHand, Owning
<1>25. ASSUME NEW c \in Closers, Flush(c) PROVE TeardownOrder'
  <2>1. active = 0 /\ Persists
    BY <1>25 DEF Flush, CloserMoves, TeardownOrder
  <2>2. charged \subseteq saved \cup live \cup failed \cup orphaned
    BY <2>1, NothingInHand DEF NoChargeLost
  <2>3. charged' \subseteq saved' \cup failed' \cup orphaned'
    BY <1>25, <2>2 DEF Flush
  <2> QED
    BY <1>25, <2>3 DEF Flush, CloserMoves, TypeOK, OneOwner, TeardownOrder, Owning
<1>26. ASSUME NEW c \in Closers, DropAll(c) PROVE TeardownOrder'
  BY <1>26 DEF DropAll, CloserMoves, TypeOK, DoorIsShut, OneOwner, TeardownOrder, Custody, NoChargeLost, InHand, Owning
<1>27. ASSUME NEW c \in Closers, CloseStore(c) PROVE TeardownOrder'
  BY <1>27 DEF CloseStore, CloserMoves, Answer, TypeOK, DoorIsShut, OneOwner, TeardownOrder, Custody, NoChargeLost, InHand, Owning
<1>28. ASSUME NEW c \in Closers, JoinTeardown(c) PROVE TeardownOrder'
  BY <1>28 DEF JoinTeardown, CloserMoves, Answer, TypeOK, DoorIsShut, OneOwner, TeardownOrder, Custody, NoChargeLost, InHand, Owning
<1>29. CASE UNCHANGED vars
  BY <1>29 DEF vars, TypeOK, DoorIsShut, OneOwner, TeardownOrder, Custody, NoChargeLost, InHand, Owning
<1> QED
  BY <1>1, <1>2, <1>3, <1>4, <1>5, <1>6, <1>7, <1>8, <1>9, <1>10, <1>11, <1>12, <1>13,
     <1>14, <1>15, <1>16, <1>17, <1>18, <1>19, <1>20, <1>21, <1>22, <1>23, <1>24,
     <1>25, <1>26, <1>27, <1>28, <1>29
  DEF Next, OpStep, GcStep, CloserStep

\* Nothing is charged or revived once the store is closed.
LEMMA ClosedStep ==
    ASSUME TypeOK, CountIsInside, DoorIsShut, OneOwner, TeardownOrder, Custody, NoChargeLost, ClosedHoldsEverything, [Next]_vars
    PROVE  ClosedHoldsEverything'
<1> USE DEF barrier, teardown, data, entries, calls
<1>1. ASSUME NEW o \in Ops, Enter(o) PROVE ClosedHoldsEverything'
  BY <1>1, EmptyWhenZero DEF Enter, OpMoves, Registered, DoorIsShut, OneOwner, TypeOK, TeardownOrder, ClosedHoldsEverything
<1>2. ASSUME NEW o \in Ops, Refused(o) PROVE ClosedHoldsEverything'
  BY <1>2, EmptyWhenZero DEF Refused, OpMoves, Registered, DoorIsShut, OneOwner, TypeOK, TeardownOrder, ClosedHoldsEverything
<1>3. ASSUME NEW o \in Ops, StartIO(o) PROVE ClosedHoldsEverything'
  BY <1>3, EmptyWhenZero DEF StartIO, OpMoves, Registered, DoorIsShut, OneOwner, TypeOK, TeardownOrder, ClosedHoldsEverything
<1>4. ASSUME NEW o \in Ops, Find(o) PROVE ClosedHoldsEverything'
  BY <1>4, EmptyWhenZero DEF Find, OpMoves, Registered, DoorIsShut, OneOwner, TypeOK, TeardownOrder, ClosedHoldsEverything
<1>5. ASSUME NEW o \in Ops, Charge(o) PROVE ClosedHoldsEverything'
  BY <1>5, EmptyWhenZero DEF Charge, OpMoves, Registered, DoorIsShut, OneOwner, TypeOK, TeardownOrder, ClosedHoldsEverything
<1>6. ASSUME NEW o \in Ops, Evict(o) PROVE ClosedHoldsEverything'
  BY <1>6, EmptyWhenZero DEF Evict, OpMoves, Registered, DoorIsShut, OneOwner, TypeOK, TeardownOrder, ClosedHoldsEverything
<1>7. ASSUME NEW o \in Ops, EvictSaved(o) PROVE ClosedHoldsEverything'
  BY <1>7, EmptyWhenZero DEF EvictSaved, OpMoves, Registered, DoorIsShut, OneOwner, TypeOK, TeardownOrder, ClosedHoldsEverything
<1>8. ASSUME NEW o \in Ops, HandOver(o) PROVE ClosedHoldsEverything'
  BY <1>8, EmptyWhenZero DEF HandOver, OpMoves, Registered, DoorIsShut, OneOwner, TypeOK, TeardownOrder, ClosedHoldsEverything
<1>9. ASSUME NEW o \in Ops, Return(o) PROVE ClosedHoldsEverything'
  BY <1>9, EmptyWhenZero DEF Return, Leave, OpMoves, Registered, DoorIsShut, OneOwner, TypeOK, TeardownOrder, ClosedHoldsEverything
<1>10. ASSUME NEW o \in Ops, CloseBody(o) PROVE ClosedHoldsEverything'
  BY <1>10, EmptyWhenZero DEF CloseBody, Leave, OpMoves, Registered, DoorIsShut, OneOwner, TypeOK, TeardownOrder, ClosedHoldsEverything
<1>11. CASE GcTick
  BY <1>11 DEF GcTick, TypeOK, OneOwner, TeardownOrder, ClosedHoldsEverything, Owning
<1>12. CASE GcFlush
  BY <1>12 DEF GcFlush, TypeOK, OneOwner, TeardownOrder, ClosedHoldsEverything, Owning
<1>13. CASE GcDrop
  BY <1>13 DEF GcDrop, TypeOK, OneOwner, TeardownOrder, ClosedHoldsEverything, Owning
<1>14. CASE GcExit
  BY <1>14 DEF GcExit, TypeOK, OneOwner, TeardownOrder, ClosedHoldsEverything, Owning
<1>15. ASSUME NEW c \in Closers, CallClose(c) PROVE ClosedHoldsEverything'
  BY <1>15 DEF CallClose, CloserMoves, TypeOK, OneOwner, TeardownOrder, ClosedHoldsEverything, Owning
<1>16. ASSUME NEW c \in Closers, CallShutdown(c) PROVE ClosedHoldsEverything'
  BY <1>16 DEF CallShutdown, CloserMoves, TypeOK, OneOwner, TeardownOrder, ClosedHoldsEverything, Owning
<1>17. ASSUME NEW c \in Closers, Expire(c) PROVE ClosedHoldsEverything'
  BY <1>17 DEF Expire, TypeOK, OneOwner, TeardownOrder, ClosedHoldsEverything, Owning
<1>18. ASSUME NEW c \in Closers, Drained(c) PROVE ClosedHoldsEverything'
  BY <1>18 DEF Drained, CloserMoves, TypeOK, OneOwner, TeardownOrder, ClosedHoldsEverything, Owning
<1>19. ASSUME NEW c \in Closers, ForceCancel(c) PROVE ClosedHoldsEverything'
  BY <1>19 DEF ForceCancel, CloserMoves, TypeOK, OneOwner, TeardownOrder, ClosedHoldsEverything, Owning
<1>20. ASSUME NEW c \in Closers, ForceDrained(c) PROVE ClosedHoldsEverything'
  BY <1>20 DEF ForceDrained, CloserMoves, TypeOK, OneOwner, TeardownOrder, ClosedHoldsEverything, Owning
<1>21. ASSUME NEW c \in Closers, BeginTeardown(c) PROVE ClosedHoldsEverything'
  BY <1>21 DEF BeginTeardown, CloserMoves, TypeOK, OneOwner, TeardownOrder, ClosedHoldsEverything, Owning
<1>22. ASSUME NEW c \in Closers, CancelAll(c) PROVE ClosedHoldsEverything'
  BY <1>22 DEF CancelAll, CloserMoves, TypeOK, OneOwner, TeardownOrder, ClosedHoldsEverything, Owning
<1>23. ASSUME NEW c \in Closers, GcDrained(c) PROVE ClosedHoldsEverything'
  BY <1>23 DEF GcDrained, CloserMoves, TypeOK, OneOwner, TeardownOrder, ClosedHoldsEverything, Owning
<1>24. ASSUME NEW c \in Closers, OpsDrained(c) PROVE ClosedHoldsEverything'
  BY <1>24 DEF OpsDrained, CloserMoves, TypeOK, OneOwner, TeardownOrder, ClosedHoldsEverything, Owning
<1>25. ASSUME NEW c \in Closers, Flush(c) PROVE ClosedHoldsEverything'
  BY <1>25 DEF Flush, CloserMoves, TypeOK, OneOwner, TeardownOrder, ClosedHoldsEverything, Owning
<1>26. ASSUME NEW c \in Closers, DropAll(c) PROVE ClosedHoldsEverything'
  BY <1>26 DEF DropAll, CloserMoves, TypeOK, OneOwner, TeardownOrder, ClosedHoldsEverything, Owning
<1>27. ASSUME NEW c \in Closers, CloseStore(c) PROVE ClosedHoldsEverything'
  BY <1>27 DEF CloseStore, CloserMoves, Answer, TypeOK, OneOwner, TeardownOrder, ClosedHoldsEverything, Owning
<1>28. ASSUME NEW c \in Closers, JoinTeardown(c) PROVE ClosedHoldsEverything'
  BY <1>28 DEF JoinTeardown, CloserMoves, Answer, TypeOK, OneOwner, TeardownOrder, ClosedHoldsEverything, Owning
<1>29. CASE UNCHANGED vars
  BY <1>29 DEF vars, TypeOK, OneOwner, TeardownOrder, ClosedHoldsEverything, Owning
<1> QED
  BY <1>1, <1>2, <1>3, <1>4, <1>5, <1>6, <1>7, <1>8, <1>9, <1>10, <1>11, <1>12, <1>13,
     <1>14, <1>15, <1>16, <1>17, <1>18, <1>19, <1>20, <1>21, <1>22, <1>23, <1>24,
     <1>25, <1>26, <1>27, <1>28, <1>29
  DEF Next, OpStep, GcStep, CloserStep

-----------------------------------------------------------------------------
(* The theorems.                                                           *)

LEMMA InitEstablishes == Init => LifecycleInv
<1> SUFFICES ASSUME Init PROVE LifecycleInv
  OBVIOUS
<1>1. TypeOK
  BY DEF Init, TypeOK, OpStages, Registered, GcStages, CloserStages, Results
<1>2. CountIsInside
  <2>1. Inside = {}
    BY DEF Init, Inside, Registered
  <2> QED
    BY <2>1, FS_EmptySet DEF Init, CountIsInside
<1>3. DoorIsShut /\ OneOwner /\ TeardownOrder /\ Custody
  BY DEF Init, DoorIsShut, OneOwner, TeardownOrder, Custody, Holding, Owning
<1>4. NoChargeLost /\ ClosedHoldsEverything
  BY DEF Init, NoChargeLost, ClosedHoldsEverything
<1> QED
  BY <1>1, <1>2, <1>3, <1>4 DEF LifecycleInv

\* The invariant of the lifetime holds for any number of operations and of
\* concurrent Close and Shutdown calls.
THEOREM LifecycleInvariant == Spec => []LifecycleInv
<1>1. Init => LifecycleInv
  BY InitEstablishes
<1>2. LifecycleInv /\ [Next]_vars => LifecycleInv'
  BY TypeStep, CountStep, DoorStep, OnceStep, OrderStep, CustodyStep,
     ChargeStep, ClosedStep
  DEF LifecycleInv
<1> QED
  BY <1>1, <1>2, PTL DEF Spec

\* Every variable keeps its type; in particular leave never drives the
\* WaitGroup negative, which would panic.
THEOREM TypeCorrect == Spec => []TypeOK
<1>1. LifecycleInv => TypeOK
  BY DEF LifecycleInv
<1> QED
  BY <1>1, LifecycleInvariant, PTL

\* "once the store is closed, nothing may touch it" (lifecycle.go:117).
THEOREM StoreIsClosedLast == Spec => []StoreUsedOnlyWhileOpen
<1>1. LifecycleInv => StoreUsedOnlyWhileOpen
  <2> SUFFICES ASSUME LifecycleInv, store = "closed"
               PROVE  /\ \A o \in Ops : op[o] \notin {"io", "evicting"}
                      /\ gc # "sweeping"
                      /\ \A c \in Closers : closer[c] # "flush"
    BY DEF StoreUsedOnlyWhileOpen, LifecycleInv, TypeOK
  <2>1. once = "done" /\ active = 0 /\ gc = "exited"
    BY DEF LifecycleInv, TeardownOrder
  <2>2. \A o \in Ops : op[o] \notin {"io", "evicting"}
    BY <2>1, EmptyWhenZero DEF LifecycleInv, Registered
  <2>3. \A c \in Closers : closer[c] # "flush"
    BY <2>1 DEF LifecycleInv, OneOwner, Owning
  <2> QED
    BY <2>1, <2>2, <2>3
<1> QED
  BY <1>1, LifecycleInvariant, PTL

\* "The store is always flushed and closed on return" (lifecycle.go:30).
THEOREM NobodyReturnsEarly == Spec => []ReturnMeansClosed
<1>1. LifecycleInv => ReturnMeansClosed
  <2> SUFFICES ASSUME LifecycleInv, NEW c \in Closers, closer[c] = "returned"
               PROVE  store = "closed" /\ gc = "exited" /\ Inside = {}
    BY DEF ReturnMeansClosed
  <2>1. once = "done"
    BY DEF LifecycleInv, OneOwner
  <2>2. store = "closed" /\ gc = "exited" /\ active = 0
    BY <2>1 DEF LifecycleInv, TeardownOrder
  <2> QED
    BY <2>2, CountZero DEF LifecycleInv
<1> QED
  BY <1>1, LifecycleInvariant, PTL

\* "Persist before discarding" (lifecycle.go:131): a charge is in memory, in the
\* store or on its way between them, and in the store once that is closed,
\* except where a save of it failed or its entry had been swept or evicted
\* before the draw: those are the only charges ever lost.
THEOREM ChargesAreKept == Spec => [](NoChargeLost /\ ClosedHoldsEverything)
<1>1. LifecycleInv => NoChargeLost /\ ClosedHoldsEverything
  BY DEF LifecycleInv
<1> QED
  BY <1>1, LifecycleInvariant, PTL

\* "no new registration can appear after this point" (lifecycle.go:124).
THEOREM CountOnlyFallsWhileWaitedOn == Spec => NoAddDuringWait
<1> DEFINE Waited == \E c \in Closers : closer[c] \in {"draining", "forced", "opsWait"}
<1>1. LifecycleInv /\ [Next]_vars => [Waited => active' <= active]_vars
  <2> SUFFICES ASSUME LifecycleInv, Next, Waited PROVE active' <= active
    BY DEF vars
  <2>1. shuttingDown
    BY DEF LifecycleInv, DoorIsShut
  <2>2. active \in Nat
    BY DEF LifecycleInv, TypeOK
  <2>3. active' = active \/ active' = active - 1
    <3> USE DEF barrier, teardown, calls, data
    <3>1. ASSUME NEW o \in Ops, OpStep(o) PROVE active' = active \/ active' = active - 1
      BY <2>1, <3>1
      DEF OpStep, Enter, Refused, StartIO, Find, Charge, Evict, EvictSaved, HandOver, Return, CloseBody, Leave
    <3>2. ASSUME GcStep PROVE active' = active
      BY <3>2 DEF GcStep, GcTick, GcFlush, GcDrop, GcExit
    <3>3. ASSUME NEW c \in Closers,
                 CallClose(c) \/ CallShutdown(c) \/ Expire(c) \/ CloserStep(c)
          PROVE  active' = active
      BY <3>3
      DEF CallClose, CallShutdown, Expire, CloserStep, Drained, ForceCancel,
          ForceDrained, BeginTeardown, CancelAll, GcDrained, OpsDrained, Flush,
          DropAll, CloseStore, JoinTeardown
    <3> QED
      BY <3>1, <3>2, <3>3 DEF Next
  <2> QED
    BY <2>2, <2>3
<1> QED
  BY <1>1, LifecycleInvariant, PTL DEF NoAddDuringWait, Spec

-----------------------------------------------------------------------------
(* What closing answers, and whom it cancels: a second invariant, on top   *)
(* of LifecycleInv.                                                        *)

\* Somebody is to blame for a cancelled context: a Close, an expired Shutdown,
\* or nobody is left to be cancelled.
CancelledByRight ==
    cancelled =>
        \/ active = 0
        \/ \E c \in Closers \ Graceful : closer[c] # "idle"
        \/ \E c \in Graceful : result[c] = "ctxErr"

\* A Shutdown gets to finish only over an empty barrier.
ShutdownDrains ==
    \A c \in Graceful : closer[c] \notin {"idle", "draining", "forced"} => active = 0

\* What the teardown recorded is what is returned.
Recorded == IF closeErr THEN "closeErr" ELSE "nil"

AnswersAreRecorded ==
    \A c \in Closers : closer[c] = "returned" => result[c] \in {"ctxErr", Recorded}

ClosingInv ==
    /\ cancelled => shuttingDown
    /\ CancelledByRight
    /\ ShutdownDrains
    /\ AnswersAreRecorded

\* An empty barrier behind a shut door stays empty.
LEMMA StaysEmpty ==
    ASSUME LifecycleInv, shuttingDown, active = 0, NEW o \in Ops, OpStep(o)
    PROVE  active' = 0
<1>1. op[o] \notin Registered
  BY EmptyWhenZero DEF LifecycleInv
<1>2. ~Enter(o) /\ ~Return(o) /\ ~CloseBody(o)
  BY <1>1 DEF Enter, Return, CloseBody, OpMoves, Registered
<1> QED
  BY <1>2 DEF OpStep, Refused, StartIO, Find, Charge, Evict, EvictSaved, HandOver, barrier

LEMMA OpsKeepClosing ==
    ASSUME LifecycleInv, ClosingInv, NEW o \in Ops, OpStep(o)
    PROVE  ClosingInv'
<1>1. UNCHANGED <<shuttingDown, cancelled, closeErr, closer, result>>
  BY DEF OpStep, Enter, Refused, StartIO, Find, Charge, Evict, EvictSaved, HandOver, Return, CloseBody, Leave,
     barrier, teardown, calls
<1>2. shuttingDown /\ active = 0 => active' = 0
  BY StaysEmpty
<1>3. (\E c \in Closers : closer[c] # "idle") => shuttingDown
  BY DEF LifecycleInv, DoorIsShut
<1>4. ShutdownDrains'
  BY <1>1, <1>2, <1>3, LifecycleAssumption DEF ClosingInv, ShutdownDrains
<1>5. CancelledByRight'
  BY <1>1, <1>2 DEF ClosingInv, CancelledByRight
<1>6. AnswersAreRecorded'
  BY <1>1 DEF ClosingInv, AnswersAreRecorded, Recorded
<1> QED
  BY <1>1, <1>4, <1>5, <1>6 DEF ClosingInv

\* The stages of a Close or Shutdown before it returns.
LEMMA ClosersKeepClosing ==
    ASSUME LifecycleInv, ClosingInv, NEW c \in Closers,
           \/ CallClose(c) \/ CallShutdown(c) \/ Expire(c) \/ Drained(c)
           \/ ForceCancel(c) \/ ForceDrained(c) \/ BeginTeardown(c) \/ CancelAll(c)
           \/ GcDrained(c) \/ OpsDrained(c) \/ Flush(c) \/ DropAll(c)
    PROVE  ClosingInv'
<1> USE DEF barrier, teardown, data, entries, calls, CloserMoves, LifecycleInv, TypeOK
<1>1. active' = active /\ closeErr' = closeErr /\ (shuttingDown => shuttingDown')
  BY DEF CallClose, CallShutdown, Expire, Drained, ForceCancel, ForceDrained,
     BeginTeardown, CancelAll, GcDrained, OpsDrained, Flush, DropAll
<1>2. /\ \A d \in Closers \ {c} : closer'[d] = closer[d] /\ result'[d] = result[d]
      /\ closer'[c] # "returned" \/ (closer'[c] = closer[c] /\ result'[c] = result[c])
      /\ closer[c] # "idle" => closer'[c] # "idle"
      /\ result[c] = "ctxErr" => result'[c] = "ctxErr"
  BY DEF CallClose, CallShutdown, Expire, Drained, ForceCancel, ForceDrained,
     BeginTeardown, CancelAll, GcDrained, OpsDrained, Flush, DropAll
<1>3. AnswersAreRecorded'
  BY <1>1, <1>2 DEF ClosingInv, AnswersAreRecorded, Recorded
<1>4. closer[c] \in {"idle", "draining", "forced"}
      /\ closer'[c] \notin {"idle", "draining", "forced"} /\ c \in Graceful => active = 0
  BY DEF CallClose, CallShutdown, Expire, Drained, ForceCancel, ForceDrained,
     BeginTeardown, CancelAll, GcDrained, OpsDrained, Flush, DropAll
<1>5. ShutdownDrains'
  BY <1>1, <1>2, <1>4, LifecycleAssumption DEF ClosingInv, ShutdownDrains
<1>6. cancelled' => shuttingDown'
  <2>1. CASE UNCHANGED cancelled
    BY <1>1, <2>1 DEF ClosingInv
  <2>2. CASE ForceCancel(c) \/ CancelAll(c)
    <3>1. closer[c] # "idle"
      BY <2>2 DEF ForceCancel, CancelAll
    <3> QED
      BY <1>1, <3>1 DEF DoorIsShut
  <2> QED
    BY <2>1, <2>2
    DEF CallClose, CallShutdown, Expire, Drained, ForceDrained, BeginTeardown,
        GcDrained, OpsDrained, Flush, DropAll
<1>7. CancelledByRight'
  <2>1. CASE cancelled
    <3>1. CASE active = 0
      BY <1>1, <3>1 DEF CancelledByRight
    <3>2. CASE \E d \in Closers \ Graceful : closer[d] # "idle"
      BY <1>2, <3>2 DEF CancelledByRight
    <3>3. CASE \E d \in Graceful : result[d] = "ctxErr"
      BY <1>2, <3>3, LifecycleAssumption DEF CancelledByRight
    <3> QED
      BY <2>1, <3>1, <3>2, <3>3 DEF ClosingInv, CancelledByRight
  <2>2. CASE ForceCancel(c)
    <3>1. c \in Graceful /\ result'[c] = "ctxErr"
      BY <2>2 DEF ForceCancel
    <3> QED
      BY <3>1 DEF CancelledByRight
  <2>3. CASE CancelAll(c)
    <3>1. closer[c] = "cancel" /\ closer'[c] = "gcWait"
      BY <2>3 DEF CancelAll
    <3>2. CASE c \in Graceful
      BY <1>1, <3>1, <3>2 DEF ClosingInv, ShutdownDrains, CancelledByRight
    <3>3. CASE c \notin Graceful
      BY <3>1, <3>3 DEF CancelledByRight
    <3> QED
      BY <3>2, <3>3
  <2>4. CASE ~cancelled /\ UNCHANGED cancelled
    BY <2>4 DEF CancelledByRight
  <2> QED
    BY <2>1, <2>2, <2>3, <2>4
    DEF CallClose, CallShutdown, Expire, Drained, ForceDrained, BeginTeardown,
        GcDrained, OpsDrained, Flush, DropAll
<1> QED
  BY <1>3, <1>5, <1>6, <1>7 DEF ClosingInv

\* The two ways out of finish: only its owner records an answer, and while it
\* has not, nobody has returned one.
LEMMA ReturnsKeepClosing ==
    ASSUME LifecycleInv, ClosingInv, NEW c \in Closers, CloseStore(c) \/ JoinTeardown(c)
    PROVE  ClosingInv'
<1> USE DEF barrier, teardown, data, entries, calls, CloserMoves, LifecycleInv, TypeOK
<1>1. UNCHANGED <<shuttingDown, active, cancelled>>
  BY DEF CloseStore, JoinTeardown
<1>2. /\ closer[c] \in {"finishing", "closeStore"} /\ closer'[c] = "returned"
      /\ result'[c] = Answer(c, closeErr')
      /\ \A d \in Closers \ {c} : closer'[d] = closer[d] /\ result'[d] = result[d]
  BY DEF CloseStore, JoinTeardown
<1>3. result'[c] \in {"ctxErr", Recorded'} /\ (result[c] = "ctxErr" => result'[c] = "ctxErr")
  BY <1>2 DEF Answer, Recorded
<1>4. AnswersAreRecorded'
  <2>1. CASE CloseStore(c)
    <3>1. once # "done"
      BY <2>1 DEF CloseStore, OneOwner, Owning
    <3>2. \A d \in Closers : closer[d] # "returned"
      BY <3>1 DEF OneOwner
    <3> QED
      BY <1>2, <1>3, <3>2 DEF AnswersAreRecorded
  <2>2. CASE JoinTeardown(c)
    <3>1. closeErr' = closeErr
      BY <2>2 DEF JoinTeardown
    <3> QED
      BY <1>2, <1>3, <3>1 DEF ClosingInv, AnswersAreRecorded, Recorded
  <2> QED
    BY <2>1, <2>2
<1>5. ShutdownDrains'
  BY <1>1, <1>2, LifecycleAssumption DEF ClosingInv, ShutdownDrains
<1>6. CancelledByRight'
  <2>1. CASE active = 0 \/ ~cancelled
    BY <1>1, <2>1 DEF CancelledByRight
  <2>2. CASE \E d \in Closers \ Graceful : closer[d] # "idle"
    BY <1>2, <2>2 DEF CancelledByRight
  <2>3. CASE \E d \in Graceful : result[d] = "ctxErr"
    BY <1>2, <1>3, <2>3, LifecycleAssumption DEF CancelledByRight
  <2> QED
    BY <2>1, <2>2, <2>3 DEF ClosingInv, CancelledByRight
<1> QED
  BY <1>1, <1>4, <1>5, <1>6 DEF ClosingInv

LEMMA ClosingInvariant == Spec => []ClosingInv
<1>1. Init => ClosingInv
  BY LifecycleAssumption
  DEF Init, ClosingInv, CancelledByRight, ShutdownDrains, AnswersAreRecorded
<1>2. LifecycleInv /\ ClosingInv /\ [Next]_vars => ClosingInv'
  <2> SUFFICES ASSUME LifecycleInv, ClosingInv, [Next]_vars PROVE ClosingInv'
    OBVIOUS
  <2>1. ASSUME NEW o \in Ops, OpStep(o) PROVE ClosingInv'
    BY <2>1, OpsKeepClosing
  <2>2. CASE GcStep \/ UNCHANGED vars
    <3>1. UNCHANGED <<shuttingDown, active, cancelled, closeErr, closer, result>>
      BY <2>2 DEF GcStep, GcTick, GcFlush, GcDrop, GcExit, vars, barrier, teardown, calls
    <3> QED
      BY <3>1
      DEF ClosingInv, CancelledByRight, ShutdownDrains, AnswersAreRecorded, Recorded
  <2>3. ASSUME NEW c \in Closers,
               CallClose(c) \/ CallShutdown(c) \/ Expire(c) \/ CloserStep(c)
        PROVE  ClosingInv'
    BY <2>3, ClosersKeepClosing, ReturnsKeepClosing DEF CloserStep
  <2> QED
    BY <2>1, <2>2, <2>3 DEF Next
<1> QED
  BY <1>1, <1>2, LifecycleInvariant, PTL DEF Spec

\* "stops accepting new requests and waits for in-flight ones" (README.md:495).
THEOREM ShutdownIsGraceful == Spec => []GracefulUntilForced
<1>1. LifecycleInv /\ ClosingInv => GracefulUntilForced
  <2> SUFFICES ASSUME LifecycleInv, ClosingInv PROVE GracefulUntilForced
    OBVIOUS
  <2>1. active = 0 => Inside = {}
    BY CountZero DEF LifecycleInv
  <2> QED
    BY <2>1 DEF ClosingInv, CancelledByRight, GracefulUntilForced
<1> QED
  BY <1>1, LifecycleInvariant, ClosingInvariant, PTL

\* "repeated calls return the error recorded by the first" (lifecycle.go:106).
THEOREM OneAnswer == Spec => []SameAnswer
<1>1. ClosingInv => SameAnswer
  BY DEF ClosingInv, AnswersAreRecorded, SameAnswer
<1> QED
  BY <1>1, ClosingInvariant, PTL

-----------------------------------------------------------------------------
(* The lifetime implements DrainThenClose.                                 *)

Phase == IF store = "closed" THEN "closed"
         ELSE IF shuttingDown THEN "draining" ELSE "serving"

\* Most steps are invisible: they leave the door, the store and the set of
\* registered operations alone.
LEMMA InvisibleSteps ==
    ASSUME TypeOK, UNCHANGED <<shuttingDown, store>>,
           \/ UNCHANGED op
           \/ \E o \in Ops, from \in OpStages, to \in OpStages :
                 /\ OpMoves(o, from, to)
                 /\ from \in Registered <=> to \in Registered
    PROVE  Phase' = Phase /\ Inside' = Inside
<1>1. Phase' = Phase
  BY DEF Phase
<1>2. Inside' = Inside
  BY DEF Inside, OpMoves, TypeOK
<1> QED
  BY <1>1, <1>2

LEMMA OpStepsRefine ==
    ASSUME LifecycleInv, NEW o \in Ops, OpStep(o)
    PROVE  Contract!Next \/ (Phase' = Phase /\ Inside' = Inside)
<1> USE DEF teardown, LifecycleInv
<1>1. TypeOK
  OBVIOUS
<1>2. CASE Enter(o)
  <2>1. store # "closed" /\ ~shuttingDown
    BY <1>2 DEF Enter, TeardownOrder
  <2>2. Phase = "serving" /\ Phase' = Phase
    BY <1>2, <2>1 DEF Enter, Phase
  <2>3. o \notin Inside /\ Inside' = Inside \cup {o}
    BY <1>2, InsideMoves DEF Enter, OpMoves, Registered, Inside
  <2>4. Contract!Admit(o)
    BY <2>2, <2>3 DEF Contract!Admit, Phase
  <2> QED
    BY <2>4 DEF Contract!Next
<1>3. CASE Return(o) \/ CloseBody(o)
  <2>1. o \in Inside /\ Inside' = Inside \ {o}
    BY <1>3, InsideMoves DEF Return, CloseBody, OpMoves, Registered, Inside
  <2>2. Phase' = Phase
    BY <1>3 DEF Return, CloseBody, Leave, Phase
  <2>3. Contract!Finish(o)
    BY <2>1, <2>2 DEF Contract!Finish, Phase
  <2> QED
    BY <2>3 DEF Contract!Next
<1>4. CASE Refused(o) \/ StartIO(o) \/ Find(o) \/ Charge(o) \/ Evict(o)
         \/ EvictSaved(o) \/ HandOver(o)
  <2>1. UNCHANGED <<shuttingDown, store>>
    BY <1>4 DEF Refused, StartIO, Find, Charge, Evict, EvictSaved, HandOver, barrier
  <2>2. \E from \in OpStages, to \in OpStages :
           OpMoves(o, from, to) /\ (from \in Registered <=> to \in Registered)
    <3>1. \/ OpMoves(o, "idle", "refused")
          \/ OpMoves(o, "entered", "io")
          \/ OpMoves(o, "entered", "holding")
          \/ OpMoves(o, "io", "holding")
          \/ OpMoves(o, "holding", "working")
          \/ OpMoves(o, "entered", "evicting")
          \/ OpMoves(o, "entered", "working")
          \/ OpMoves(o, "evicting", "working")
          \/ OpMoves(o, "working", "streaming")
      BY <1>4 DEF Refused, StartIO, Find, Charge, Evict, EvictSaved, HandOver
    <3> QED
      BY <3>1 DEF OpStages, Registered
  <2> QED
    BY <2>1, <2>2, InvisibleSteps
<1> QED
  BY <1>2, <1>3, <1>4 DEF OpStep

LEMMA CloserStepsRefine ==
    ASSUME LifecycleInv, NEW c \in Closers,
           CallClose(c) \/ CallShutdown(c) \/ Expire(c) \/ CloserStep(c)
    PROVE  Contract!Next \/ (Phase' = Phase /\ Inside' = Inside)
<1> USE DEF barrier, teardown, LifecycleInv
<1>1. Inside' = Inside
  BY DEF Inside, CallClose, CallShutdown, Expire, CloserStep, Drained, ForceCancel,
     ForceDrained, BeginTeardown, CancelAll, GcDrained, OpsDrained, Flush, DropAll,
     CloseStore, JoinTeardown
<1>2. CASE CallClose(c) \/ CallShutdown(c)
  <2>1. store' = store /\ shuttingDown'
    BY <1>2 DEF CallClose, CallShutdown
  <2>2. CASE shuttingDown
    BY <1>1, <2>1, <2>2 DEF Phase
  <2>3. CASE ~shuttingDown
    <3>1. store # "closed"
      BY <2>3 DEF TeardownOrder
    <3>2. Contract!Stop
      BY <1>1, <2>1, <2>3, <3>1 DEF Contract!Stop
    <3> QED
      BY <3>2 DEF Contract!Next
  <2> QED
    BY <2>2, <2>3
<1>3. CASE CloseStore(c)
  <2>1. once = "running" /\ shuttingDown /\ active = 0
    BY <1>3 DEF CloseStore, CloserMoves, OneOwner, Owning, DoorIsShut, TeardownOrder
  <2>2. store # "closed" /\ Inside = {}
    BY <2>1, CountZero DEF TeardownOrder
  <2>3. store' = "closed"
    BY <1>3 DEF CloseStore
  <2>4. Contract!Close
    BY <1>1, <2>1, <2>2, <2>3 DEF Contract!Close
  <2> QED
    BY <2>4 DEF Contract!Next
<1>4. ASSUME UNCHANGED <<shuttingDown, store>>
      PROVE  Phase' = Phase
  BY <1>4 DEF Phase
<1> QED
  BY <1>1, <1>2, <1>3, <1>4
  DEF Expire, CloserStep, Drained, ForceCancel, ForceDrained, BeginTeardown,
      CancelAll, GcDrained, OpsDrained, Flush, DropAll, JoinTeardown

\* Enter, finish and the two ways of closing admit, drain and then close: the
\* lifetime implements its contract, whoever races whom.
THEOREM LifetimeKeepsItsContract == Spec => DrainsThenCloses
<1>1. Init => Contract!Init
  <2> SUFFICES ASSUME Init PROVE Contract!Init
    OBVIOUS
  <2>1. Inside = {}
    BY DEF Init, Inside, Registered
  <2> QED
    BY <2>1 DEF Init, Contract!Init
<1>2. LifecycleInv /\ [Next]_vars => [Contract!Next]_<<Phase, Inside>>
  <2> SUFFICES ASSUME LifecycleInv, [Next]_vars
               PROVE  Contract!Next \/ (Phase' = Phase /\ Inside' = Inside)
    OBVIOUS
  <2>1. CASE UNCHANGED vars
    BY <2>1 DEF vars, barrier, teardown, Phase, Inside
  <2>2. ASSUME NEW o \in Ops, OpStep(o)
        PROVE  Contract!Next \/ (Phase' = Phase /\ Inside' = Inside)
    BY <2>2, OpStepsRefine
  <2>3. CASE GcStep
    BY <2>3 DEF GcStep, GcTick, GcFlush, GcDrop, GcExit, barrier, teardown, Phase, Inside
  <2>4. ASSUME NEW c \in Closers,
               CallClose(c) \/ CallShutdown(c) \/ Expire(c) \/ CloserStep(c)
        PROVE  Contract!Next \/ (Phase' = Phase /\ Inside' = Inside)
    BY <2>4, CloserStepsRefine
  <2> QED
    BY <2>1, <2>2, <2>3, <2>4 DEF Next
<1> QED
  BY <1>1, <1>2, LifecycleInvariant, PTL
  DEF Spec, DrainsThenCloses, Contract!Spec, Phase
=============================================================================
