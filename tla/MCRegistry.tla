------------------------------ MODULE MCRegistry ------------------------------
EXTENDS Registry, TLC

CONSTANTS k1, k2

OneShard  == [k \in Keys |-> 1]
TwoShards == [k \in Keys |-> IF k = k1 THEN 1 ELSE 2]

Stored    == {[persists |-> TRUE, observes |-> TRUE]}
TwoKinds  == Stored \cup {[persists |-> FALSE, observes |-> FALSE]}

Interchangeable == Permutations(Requests)
=============================================================================
