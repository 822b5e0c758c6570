---------------------------- MODULE DrainThenClose ----------------------------
(***************************************************************************)
(* What a Limiter's lifetime promises its users and its store, with no     *)
(* mention of mutexes, wait groups or sync.Once: work is admitted until    *)
(* somebody asks for a stop; what was admitted finishes; then, once and    *)
(* for good, the store is closed.                                          *)
(***************************************************************************)
CONSTANT Work

VARIABLES
    phase,      \* "serving", "draining", "closed"
    admitted    \* the work going on

Init == phase = "serving" /\ admitted = {}

Admit(w) ==
    /\ phase = "serving"
    /\ w \notin admitted
    /\ admitted' = admitted \cup {w}
    /\ UNCHANGED phase

Finish(w) ==
    /\ w \in admitted
    /\ admitted' = admitted \ {w}
    /\ UNCHANGED phase

Stop ==
    /\ phase = "serving"
    /\ phase' = "draining"
    /\ UNCHANGED admitted

Close ==
    /\ phase = "draining"
    /\ admitted = {}
    /\ phase' = "closed"
    /\ UNCHANGED admitted

Next == Stop \/ Close \/ \E w \in Work : Admit(w) \/ Finish(w)

Spec == Init /\ [][Next]_<<phase, admitted>>
=============================================================================
