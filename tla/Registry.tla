------------------------------ MODULE Registry ------------------------------
(***************************************************************************)
(* What the token-type registry promises its concurrent callers: every     *)
(* call takes effect at one instant between its invocation and its return. *)
(* Registration adds an extension, refuses a built-in and refuses what is  *)
(* not a URI; a query tells whether the URI is in the table.               *)
(***************************************************************************)
EXTENDS Values

CONSTANTS
    Goroutine,          \* the callers
    Asked,              \* the strings they call with
    BuiltinTokenTypes   \* the URIs of RFC 8693 section 3

Op == [name : {"register", "query"}, uri : Asked]
NoOp == [name |-> "none", uri |-> ""]

Tier == {"absent", "extension", "builtin"}

initialRegistry ==
    [u \in Str |-> IF u \in BuiltinTokenTypes THEN "builtin" ELSE "absent"]

VARIABLES
    entries,  \* the tier of every string, "absent" when it is not in the table
    op,       \* what each goroutine is calling
    ret       \* what its latest call answers, "none" until it has taken effect

vars == <<entries, op, ret>>

Init ==
    /\ entries = initialRegistry
    /\ op = [g \in Goroutine |-> NoOp]
    /\ ret = [g \in Goroutine |-> "none"]

\* What a call answers when the table is t, and the table it leaves.
Answer(o, t) ==
    IF o.name = "query"
    THEN IF t[o.uri] = "absent" THEN "no" ELSE "yes"
    ELSE IF ~isValidTokenTypeURI(o.uri) THEN "invalid"
    ELSE IF t[o.uri] = "builtin" THEN "reserved" ELSE "ok"

After(o, t) ==
    IF o.name = "register" /\ Answer(o, t) = "ok"
    THEN [t EXCEPT ![o.uri] = "extension"] ELSE t

Invoke(g) ==
    /\ op[g] = NoOp
    /\ \E o \in Op : op' = [op EXCEPT ![g] = o]
    /\ ret' = [ret EXCEPT ![g] = "none"]
    /\ UNCHANGED entries

TakeEffect(g) ==
    /\ op[g] # NoOp
    /\ ret[g] = "none"
    /\ ret' = [ret EXCEPT ![g] = Answer(op[g], entries)]
    /\ entries' = After(op[g], entries)
    /\ UNCHANGED op

Return(g) ==
    /\ op[g] # NoOp
    /\ ret[g] # "none"
    /\ op' = [op EXCEPT ![g] = NoOp]
    /\ UNCHANGED <<entries, ret>>

Next == \E g \in Goroutine : Invoke(g) \/ TakeEffect(g) \/ Return(g)

Spec == Init /\ [][Next]_vars
=============================================================================
