-------------------------------- MODULE Json --------------------------------
(***************************************************************************)
(* encoding/json as the package uses it: an object is the sequence of its  *)
(* members in wire order (Absent marks a place left out); struct fields    *)
(* match names without regard to case, map keys match exactly, and in both *)
(* the last duplicate wins.                                                *)
(***************************************************************************)
EXTENDS Values, Integers, Sequences, SequencesExt

CONSTANTS
    NameOrder,  \* every member name, in the byte order json.Marshal sorts by
    Fold,       \* Fold[n]: the name under which a struct field matches n
    ToUTF8      \* ToUTF8[s]: s with its ill-formed bytes replaced

Name == { NameOrder[i] : i \in DOMAIN NameOrder }

ASSUME JsonAssumption ==
    /\ NameOrder \in Seq(STRING)
    /\ \A i, j \in DOMAIN NameOrder : NameOrder[i] = NameOrder[j] => i = j
    /\ Fold \in [Name -> Name]
    /\ \A n \in Name : Fold[Fold[n]] = Fold[n]
    /\ ToUTF8 \in [Str -> Str]
    /\ \A s \in Str : /\ ToUTF8[ToUTF8[s]] = ToUTF8[s]
                      /\ ToUTF8[s] = "" <=> s = ""
                      /\ s \in URI => ToUTF8[s] \in URI
                      /\ ToUTF8[s] = ErrCodeInvalidClient <=>
                             s = ErrCodeInvalidClient

\* A member's value: a string, a number that fits a Go int, null, or anything
\* else (a bool, an array, an object, 1.5, 1e99).  "invalid" is a RawMessage
\* that is not JSON: a program can hold one but never send it.
String(s) == [kind |-> "string", of |-> s]
Number(n) == [kind |-> "number", of |-> n]
Null      == [kind |-> "null"]
Compound  == [kind |-> "compound"]
Invalid   == [kind |-> "invalid"]
Absent    == [kind |-> "absent"]

JsonValue == [kind : {"string"}, of : Str] \cup [kind : {"number"}, of : Int]
                \cup { Null, Compound }

RawMap == [Name -> JsonValue \cup {Invalid, Absent}]

\* The bodies a decoder tells apart.  "malformed" includes the empty body and
\* every truncated one: no proper prefix of a JSON object is JSON.
Malformed  == [json |-> "malformed"]
NullBody   == [json |-> "null"]
OtherBody  == [json |-> "other"]
Object(ms) == [json |-> "object", members |-> ms]

\* json.Marshal of a map: one place per name in sorted order, Absent where the
\* map has no such entry; it fails on a RawMessage that is not JSON.
MarshalMap(map) ==
    Object([i \in DOMAIN NameOrder |->
               [name |-> NameOrder[i], value |-> map[NameOrder[i]]]])

Marshalable(map) == \A n \in Name : map[n] # Invalid

\* json.Unmarshal into a map[string]json.RawMessage.
UnmarshalMap(body) ==
    [n \in Name |->
        LET named(m) == m.name = n /\ m.value # Absent
            last     == SelectLastInSeq(body.members, named)
        IN  IF last = 0 THEN Absent ELSE body.members[last].value]

\* json.Unmarshal into a struct field f: null leaves the field alone, a value
\* of the wrong kind fails, otherwise the last matching member is stored.
Matches(m, f) == Fold[m.name] = f /\ m.value \notin {Null, Absent}

WellKinded(body, f, kind) ==
    \A i \in DOMAIN body.members :
        Matches(body.members[i], f) => body.members[i].value.kind = kind

Field(body, f, zero) ==
    LET hit(m) == Matches(m, f)
        last   == SelectLastInSeq(body.members, hit)
    IN  IF last = 0 THEN zero ELSE body.members[last].value.of

\* A string member tagged omitempty.
StringUnlessEmpty(s) == IF s = "" THEN Absent ELSE String(ToUTF8[s])
=============================================================================
