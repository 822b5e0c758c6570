-------------------------------- MODULE MCQuota --------------------------------
EXTENDS Quota, TLC

Last == [k \in Keys |-> Cardinality(Shards)]

Site == [empty |-> FALSE, parses |-> TRUE, scheme |-> "https", hostname |-> TRUE]

Simple == [url |-> Site, quota |-> [rate |-> 1, burst |-> 0], shards |-> 0,
           times |-> [t \in Times |-> 0], given |-> {}]

\* One field of Simple at a time, and all that can be given.
Varied ==
    {[Simple EXCEPT !.quota = [rate |-> r, burst |-> n]] :
        r \in {-1, 0, 1, NaN, PosInf, NegInf}, n \in {0, 1}}
    \cup {[Simple EXCEPT !.shards = n] : n \in {-1, 3, maxShards - 1, maxShards, maxShards + 1}}
    \cup {[Simple EXCEPT !.url = u] : u \in URL}
    \cup {[Simple EXCEPT !.times = [Simple.times EXCEPT ![t] = n]] : t \in Times, n \in {-1, 1}}
    \cup {[Simple EXCEPT !.times = [t \in Times |-> 1], !.given = g, !.shards = 2] : g \in SUBSET Parts}

Spelled ==
    {[text |-> [number |-> n, period |-> p], burst |-> 0] :
        n \in {-1, 0, 1, NaN, PosInf, NegInf, Refused}, p \in {"hour", "none", "unknown"}}
    \cup {[text |-> [number |-> Tiny, period |-> p], burst |-> 0] : p \in {"second", "hour"}}

\* One answer to be floored, one that raises rate and burst.
Graded == {[rate |-> NaN, burst |-> 0], [rate |-> 2, burst |-> 3]}

Interchangeable == Permutations(Makers)
=============================================================================
