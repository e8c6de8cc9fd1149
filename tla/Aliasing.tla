------------------------------ MODULE Aliasing ------------------------------
(***************************************************************************)
(* The slices behind http.Request.Form, TokenExchangeRequest and           *)
(* url.Values, and who else sees a write through them.  A list is a slice: *)
(* a backing array and how much of it is in use; arrays are allocated in   *)
(* blocks, one array for each list that a call makes.                      *)
(***************************************************************************)
EXTENDS Naturals, Sequences

CONSTANTS
    Str,
    Field,      \* the names of the lists: parameters, or the type registry's
    Forms,      \* what r.Form can hold when it is parsed
    Builtins,   \* the token types of RFC 8693, in order
    MaxRoom,    \* spare capacity of a new array
    MaxObjects, MaxBlocks

ASSUME AliasingAssumption ==
    /\ "" \in Str /\ "types" \in Field
    /\ Forms \subseteq [Field -> Seq(Str)]
    /\ Builtins \in Seq(Str)
    /\ MaxRoom \in Nat /\ MaxObjects \in Nat /\ MaxBlocks \in Nat

VARIABLES
    mem,      \* the blocks
    object    \* the structs and maps that hold slices, in order of creation

vars == <<mem, object>>

Kind == {"form", "request", "types"}

Items(o, p) ==
    LET s == object[o].list[p] IN [i \in 1..s.len |-> mem[s.at][p][i]]

Contents(o) == [p \in Field |-> Items(o, p)]

-----------------------------------------------------------------------------
WithRoom(s, room) == IF s = <<>> THEN s ELSE s \o [i \in 1..room |-> ""]

\* New slices over new arrays.
Make(kind, contents) ==
    /\ Len(object) < MaxObjects /\ Len(mem) < MaxBlocks
    /\ \E room \in 0..MaxRoom :
         mem' = Append(mem, [p \in Field |-> WithRoom(contents[p], room)])
    /\ object' = Append(object,
         [ kind |-> kind,
           list |-> [p \in Field |-> [ at |-> Len(mem) + 1,
                                       len |-> Len(contents[p]) ]] ])

\* net/http fills r.Form.
Arrive == \E contents \in Forms : Make("form", contents)

\* Mutant: the lists of the form are kept.
ParseKeepsSlices(o) ==
    /\ object[o].kind = "form"
    /\ Len(object) < MaxObjects
    /\ object' = Append(object, [object[o] EXCEPT !.kind = "request"])
    /\ UNCHANGED mem

\* Mutant: the copies are made, and nothing is copied into them.
ParseCopiesNothing(o) ==
    /\ object[o].kind = "form"
    /\ Make("request", [p \in Field |-> [i \in DOMAIN Items(o, p) |-> ""]])

\* append([]string(nil), v...) for every list of the form.
Parse(o) ==
    /\ object[o].kind = "form"
    /\ Make("request", Contents(o))

\* Mutant: the values are moved out of the request.
EncodeMoving(o) ==
    /\ object[o].kind = "request"
    /\ Len(object) < MaxObjects /\ Len(mem) < MaxBlocks
    /\ mem' = Append(mem, Contents(o))
    /\ object' = Append(
         [object EXCEPT ![o].list = [p \in Field |-> [@[p] EXCEPT !.len = 0]]],
         [ kind |-> "form",
           list |-> [p \in Field |-> [ at |-> Len(mem) + 1,
                                       len |-> object[o].list[p].len ]] ])

\* v.Add of every value of every list of the request.
Encode(o) ==
    /\ object[o].kind = "request"
    /\ Make("form", Contents(o))

BuiltinTokenTypes ==
    Make("types", [p \in Field |-> IF p = "types" THEN Builtins ELSE <<>>])

-----------------------------------------------------------------------------
(* What the holder of an object may do with a list. *)

Assign(o, p, v) == \E i \in 1..object[o].list[p].len :
    /\ mem' = [mem EXCEPT ![object[o].list[p].at][p][i] = v]
    /\ UNCHANGED object

Reslice(o, p) == \E n \in 0..object[o].list[p].len :
    /\ object' = [object EXCEPT ![o].list[p].len = n]
    /\ UNCHANGED mem

\* append in place, as long as there is capacity; or to a new array.
AppendInPlace(o, p, v) ==
    LET s == object[o].list[p]
    IN  /\ s.len < Len(mem[s.at][p])
        /\ mem' = [mem EXCEPT ![s.at][p][s.len + 1] = v]
        /\ object' = [object EXCEPT ![o].list[p].len = s.len + 1]

AppendToNew(o, p, v) ==
    LET s == object[o].list[p]
    IN  /\ s.len = Len(mem[s.at][p]) /\ Len(mem) < MaxBlocks
        /\ \E room \in 0..MaxRoom :
             mem' = Append(mem, [q \in Field |->
                IF q = p THEN WithRoom(Append(Items(o, p), v), room) ELSE <<>>])
        /\ object' = [object EXCEPT ![o].list[p] =
                        [at |-> Len(mem) + 1, len |-> s.len + 1]]

ListsOf(kind) == IF kind = "types" THEN {"types"} ELSE Field \ {"types"}

Edit(o) == \E p \in ListsOf(object[o].kind), v \in Str :
    Assign(o, p, v) \/ Reslice(o, p) \/ AppendInPlace(o, p, v)
        \/ AppendToNew(o, p, v)

-----------------------------------------------------------------------------
Init == mem = <<>> /\ object = <<>>

Next ==
    \/ Arrive \/ BuiltinTokenTypes
    \/ \E o \in DOMAIN object : Parse(o) \/ Encode(o) \/ Edit(o)

Spec == Init /\ [][Next]_vars

-----------------------------------------------------------------------------
TypeOK ==
    /\ mem \in Seq([Field -> Seq(Str)])
    /\ object \in Seq([kind : Kind, list : [Field -> [at : Nat, len : Nat]]])

\* The inductive invariant of the proofs: slices lie in their arrays, and no
\* two objects have a slice of the same array (request_parse.go:55-77,
\* request_codec.go:84-106).
Inv ==
    /\ TypeOK
    /\ \A o \in DOMAIN object, p \in Field :
          LET s == object[o].list[p]
          IN  s.at \in DOMAIN mem /\ s.len <= Len(mem[s.at][p])
    /\ \A a, b \in DOMAIN object, p \in Field :
          a # b => object[a].list[p].at # object[b].list[p].at

Touched(o) == Contents(o)' # Contents(o)

\* "The parsed request should not alias that storage" and "the caller may
\* mutate it" (request_parse.go:72-74, request_codec.go:80): Parse, Encode
\* and BuiltinTokenTypes change no one's lists, and whatever the holder of an
\* object assigns, cuts or appends later, in place or not, every other form,
\* request and list of types keeps its contents.
OthersUntouched ==
    [][\A o \in DOMAIN object : Touched(o) =>
          /\ Len(object') = Len(object)
          /\ \A other \in DOMAIN object : Touched(other) => other = o]_vars

\* With all its slices and arrays, the code does what it would do if forms,
\* requests and lists of types were plain values: Parse, Encode and
\* BuiltinTokenTypes take their contents as they are at that moment, and each
\* write goes to the one list it was meant for (the same lines).
ByValue == INSTANCE ListValues WITH
    value <- [o \in DOMAIN object |->
                 [kind |-> object[o].kind, list |-> Contents(o)]]

BehavesAsValues == ByValue!Spec
=============================================================================
