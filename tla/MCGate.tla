-------------------------------- MODULE MCGate --------------------------------
EXTENDS Gate

CONSTANTS c1, c2, r1, r2

OnePerReplica == [c \in Callers |-> IF c = c1 THEN r1 ELSE r2]
AllTogether   == [c \in Callers |-> r1]

Failing   == [policy : {"deny", "fallback"}, fails : {TRUE}, parks : BOOLEAN]
Faulty    == [policy : {"deny", "fallback", "allow"}, fails : {TRUE}, parks : BOOLEAN]
Reliable  == {[policy |-> "deny", fails |-> FALSE, parks |-> FALSE]}
=============================================================================
