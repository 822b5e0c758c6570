----------------------------- MODULE Configuration -----------------------------
(***************************************************************************)
(* From what a caller writes down to what the engine runs on: Resolve      *)
(* (config/config.go) over urlx.Validate (urlx/urlx.go), and the checks    *)
(* limiter.New makes again on what it is handed (limiter/validate.go).     *)
(*                                                                         *)
(* A draft is a Config before Resolve.  A field the engine has no use for  *)
(* is left out; a pointer or an interface is given or nil.                 *)
(***************************************************************************)
EXTENDS Rates

CONSTANTS
    maxShards,      \* config.maxShards: a power of two
    DefaultShards   \* registry.DefaultShards: a power of two

PowersOfTwo == {2 ^ i : i \in 0..20}

ASSUME ConfigurationAssumption ==
    /\ {maxShards, DefaultShards} \subseteq PowersOfTwo
    /\ DefaultShards <= maxShards

Times == {"IdleExpiry", "GCInterval", "StoreTimeout", "SharedTimeout"}
Parts == {"Clock", "Logger", "Transport"}

\* A base URL, as url.Parse sees it.
URL == [empty : BOOLEAN, parses : BOOLEAN, scheme : {"", "http", "https", "ftp"},
        hostname : BOOLEAN]

Config == [url    : URL,
           quota  : [rate : Rate, burst : Int],
           shards : Int,
           times  : [Times -> Int],
           given  : SUBSET Parts]

-----------------------------------------------------------------------------
(* Resolve.                                                                *)

\* urlx.Validate.
ValidURL(u) == u.parses /\ u.scheme \in {"http", "https"} /\ u.hostname

\* Config.validate.
Valid(cfg) ==
    /\ ~cfg.url.empty
    /\ ValidURL(cfg.url)
    /\ AboveZero(cfg.quota.rate)
    /\ cfg.shards <= maxShards

\* Mutant of roundUpPowerOfTwo: only the default is.
ShardsAsGiven(n) == IF n <= 0 THEN DefaultShards ELSE n

\* The smallest power of two at least n; no n is above maxShards here.
roundUpPowerOfTwo(n) ==
    IF n <= 0 THEN DefaultShards
    ELSE CHOOSE p \in PowersOfTwo : n <= p /\ \A q \in PowersOfTwo : n <= q => p <= q

\* Config.withDefaults; a default duration is 1, whatever its length.
withDefaults(cfg) ==
    [cfg EXCEPT !.quota  = [rate |-> Finite(@.rate), burst |-> AtLeastOne(@.burst)],
                !.shards = roundUpPowerOfTwo(@),
                !.times  = [t \in Times |-> IF @[t] <= 0 THEN 1 ELSE @[t]],
                !.given  = Parts]

-----------------------------------------------------------------------------
(* limiter.New.                                                            *)

\* limiter's validate panics on anything else.
Workable(cfg) ==
    /\ AboveZero(cfg.quota.rate)
    /\ cfg.quota.burst > 0
    /\ {"Clock", "Logger"} \subseteq cfg.given
    /\ cfg.shards \in PowersOfTwo
    /\ \A t \in Times \ {"SharedTimeout"} : cfg.times[t] > 0
=============================================================================
