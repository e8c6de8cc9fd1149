-------------------------- MODULE ExchangePromise ---------------------------
(***************************************************************************)
(* What Client.Exchange promises, without codec or transport: a call is    *)
(* answered at most once, and an answer other than a failure tells the     *)
(* verdict the AS reached on that very call.  The AS may reach a verdict   *)
(* the caller never learns of; the caller may fail before there is one.    *)
(***************************************************************************)
CONSTANTS
    Call,        \* the calls
    Verdict,     \* what the AS can decide
    None,        \* no verdict yet
    Waiting,     \* no answer yet
    Failure,     \* the answers that tell nothing of the verdict
    Telling(_)   \* the answers that tell verdict v

VARIABLES
    asked,       \* the calls that may have reached the AS
    verdict,     \* what the AS decided on each call
    answer       \* what each caller was told

vars == <<asked, verdict, answer>>

Init ==
    /\ asked = {}
    /\ verdict = [c \in Call |-> None]
    /\ answer = [c \in Call |-> Waiting]

\* The call is sent to the AS.
Ask(c) ==
    /\ c \notin asked
    /\ answer[c] = Waiting
    /\ asked' = asked \cup {c}
    /\ UNCHANGED <<verdict, answer>>

\* The AS decides, be the caller still waiting or not.
Decide(c) ==
    /\ c \in asked
    /\ verdict[c] = None
    /\ \E v \in Verdict : verdict' = [verdict EXCEPT ![c] = v]
    /\ UNCHANGED <<asked, answer>>

\* The caller is told the verdict, once there is one and if it can be told.
Tell(c) ==
    /\ c \in asked
    /\ verdict[c] # None
    /\ answer[c] = Waiting
    /\ \E a \in Telling(verdict[c]) : answer' = [answer EXCEPT ![c] = a]
    /\ UNCHANGED <<asked, verdict>>

\* The caller is told that the call failed, sent or not.
Fail(c) ==
    /\ answer[c] = Waiting
    /\ \E f \in Failure : answer' = [answer EXCEPT ![c] = f]
    /\ UNCHANGED <<asked, verdict>>

Next == \E c \in Call : Ask(c) \/ Decide(c) \/ Tell(c) \/ Fail(c)

Spec == Init /\ [][Next]_vars
=============================================================================
