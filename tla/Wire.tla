---------------------------------- MODULE Wire ----------------------------------
(***************************************************************************)
(* What goes out on the wire and what comes back, as functions: where a    *)
(* request is sent (urlx.Build), and which answers are kept (readBody).    *)
(*                                                                         *)
(* A text is a sequence of pieces: "/" is the separator, "%" does not      *)
(* parse.  The base is scheme and host, then perhaps a path.               *)
(***************************************************************************)
EXTENDS Integers, Sequences

CONSTANT maxBytes   \* Config.MaxResponseBytes; 0 is no limit

ASSUME WireAssumption == maxBytes \in Nat

-----------------------------------------------------------------------------
(* urlx.Build.                                                             *)

StartsPath(s) == s # <<>> /\ s[1] = "/"
EndsPath(s)   == s # <<>> /\ s[Len(s)] = "/"

\* Mutant of Joined: the seam is trusted to be there.
Concatenated(base, path) == base \o path

\* One separator at the seam, whichever side it comes from.
Joined(base, path) ==
    IF EndsPath(base) /\ StartsPath(path) THEN base \o Tail(path)
    ELSE IF EndsPath(base) \/ StartsPath(path) THEN base \o path
    ELSE base \o <<"/">> \o path

Parses(text) == \A i \in DOMAIN text : text[i] # "%"

\* Everything before the first separator: where the request goes.
HostOf(text) ==
    LET cuts == {i \in DOMAIN text : text[i] = "/"}
    IN  IF cuts = {} THEN text
        ELSE SubSeq(text, 1, (CHOOSE i \in cuts : \A j \in cuts : i <= j) - 1)

-----------------------------------------------------------------------------

\* readBody reads a byte past the limit, to tell a body of just that size from a
\* longer one.
TooLarge(size) == maxBytes > 0 /\ size > maxBytes
=============================================================================
