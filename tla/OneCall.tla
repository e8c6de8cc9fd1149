------------------------------ MODULE OneCall -------------------------------
(***************************************************************************)
(* One of the calls of a Client, seen by itself.  An Exchange keeps what   *)
(* it works on in its own frame and its own HTTP request, and the Client   *)
(* has two fields that it only reads (client.go:72-75, 91-152).  Each call *)
(* is then a run of the system with that call alone, whatever the other    *)
(* calls, their connections and their handlers do in the meantime.         *)
(***************************************************************************)
EXTENDS Exchange

CONSTANT one  \* the call that is looked at

\* What a function on the calls says of that one.
Of(f) == [c \in {one} |-> f[c]]

Alone == INSTANCE Exchange WITH
    Call      <- {one},
    pc        <- Of(pc),
    arg       <- Of(arg),
    cancelled <- Of(cancelled),
    result    <- Of(result),
    link      <- Of(link),
    inbound   <- Of(inbound),
    reply     <- Of(reply),
    as        <- Of(as),
    seen      <- Of(seen),
    decision  <- Of(decision)

\* Calls that run at the same time, a retry and the abandoned call whose handler
\* still runs among them, do nothing to one another: no reply, result,
\* cancellation or decision of one is ever another's (client.go:91-152).
BehavesAlone == Alone!Spec
=============================================================================
