----------------------------- MODULE ListValues ------------------------------
(***************************************************************************)
(* Forms, requests and lists of token types as plain values: no slices, no *)
(* arrays.  Parse and Encode make a value out of another, and an edit      *)
(* changes one list of one value.  This is what Aliasing shows the slices  *)
(* of the code to amount to.                                               *)
(***************************************************************************)
EXTENDS Naturals, Sequences

CONSTANTS
    Str,
    Field,      \* the names of the lists
    Forms,      \* the lists a form can arrive with
    Builtins    \* the token types of RFC 8693, in order

VARIABLE value  \* the values, in order of creation: [kind, list]

New(kind, lists) == value' = Append(value, [kind |-> kind, list |-> lists])

Arrive == \E lists \in Forms : New("form", lists)

Parse(o) == value[o].kind = "form" /\ New("request", value[o].list)

Encode(o) == value[o].kind = "request" /\ New("form", value[o].list)

BuiltinTokenTypes ==
    New("types", [p \in Field |-> IF p = "types" THEN Builtins ELSE <<>>])

\* What one assignment, one cut or one append makes of a list.
Edited(s, t) ==
    \/ \E i \in DOMAIN s, v \in Str : t = [s EXCEPT ![i] = v]
    \/ \E n \in 0..Len(s) : t = SubSeq(s, 1, n)
    \/ \E v \in Str : t = Append(s, v)

ListsOf(kind) == IF kind = "types" THEN {"types"} ELSE Field \ {"types"}

Edit(o) ==
    \E p \in ListsOf(value[o].kind) :
        LET new == value'[o].list[p]
        IN  /\ new # value[o].list[p] /\ Edited(value[o].list[p], new)
            /\ value' = [value EXCEPT ![o].list[p] = new]

Init == value = <<>>

Next ==
    \/ \E o \in DOMAIN value : Edit(o)
    \/ Arrive \/ BuiltinTokenTypes
    \/ \E o \in DOMAIN value : Parse(o) \/ Encode(o)

Spec == Init /\ [][Next]_value
=============================================================================
