------------------------------ MODULE MCRequests ------------------------------
EXTENDS Requests, TLC

CONSTANTS c1, c2, c3

\* One sends, one waits or holds, one takes what there is.
Mixed == (c1 :> {"do", "stream"}) @@ (c2 :> {"wait", "reserve"}) @@ (c3 :> {"allow"})

Site     == <<"host">>
Named    == {<<"items">>, <<"/", "%">>}
Bodies   == {maxBytes, maxBytes + 2}
=============================================================================
