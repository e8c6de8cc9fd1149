----------------------------- MODULE ErrorChain -----------------------------
(***************************************************************************)
(* The error values of the package and how errors.Is and errors.As (both   *)
(* external) match them.  Errors are immutable Go values behind pointers:  *)
(* the heap is the sequence of all that were made, and an error is its     *)
(* index there.  TokenExchangeError.URI is left out; the code treats it as *)
(* it treats Description.                                                  *)
(***************************************************************************)
EXTENDS Naturals, Sequences, SequencesExt

CONSTANTS
    Code,       \* values of TokenExchangeError.Code, never empty
    Text,       \* values of TokenExchangeError.Description
    Failure,    \* what Validate reports when grant_type is right
    MaxErrors   \* how many errors are made

VARIABLES
    heap,       \* the errors made so far
    returned    \* those that Validate has returned

vars == <<heap, returned>>

NoError == 0

Token(code, text, cause) ==
    [kind |-> "token", Code |-> code, Description |-> text, cause |-> cause]

Validation(rule, parameter, reason) ==
    [ kind |-> "validation", Rule |-> rule, Parameter |-> parameter,
      Reason |-> reason ]

\* fmt.Errorf with one or more %w verbs.
Wrapping(errs) == [kind |-> "wrapping", errs |-> errs]

GrantTypeFailure == Validation("request", "grant_type", "must_equal")

ASSUME ErrorAssumption ==
    /\ MaxErrors \in Nat
    /\ "" \notin Code
    /\ \A f \in Failure :
          /\ f = Validation(f.Rule, f.Parameter, f.Reason)
          /\ f.Parameter # "grant_type"

\* A nil *TokenExchangeError, the sentinel ErrInvalidGrantType, an error of
\* net/http, such as context.Canceled, and a nil *ValidationError.
NilToken == 1
ErrInvalidGrantType == 2
Given == << [kind |-> "nil_token"], [kind |-> "plain"], [kind |-> "plain"],
            [kind |-> "nil_validation"] >>

-----------------------------------------------------------------------------
\* The errors that e wraps; a nil receiver wraps none.
Unwrap(e) ==
    IF e.kind = "wrapping" THEN e.errs
    ELSE IF e.kind = "token" /\ e.cause # NoError THEN <<e.cause>>
    ELSE <<>>

\* errors.Is and errors.As visit an error, then what it wraps, depth first.
Visited[a \in DOMAIN heap] ==
    LET errs == Unwrap(heap[a])
    IN  <<a>> \o FlattenSeq([i \in DOMAIN errs |-> Visited[errs[i]]])

\* What they see in v, whether or not it is in the heap.
Seen(v) ==
    LET errs == Unwrap(v)
        deep == FlattenSeq([i \in DOMAIN errs |-> Visited[errs[i]]])
    IN  <<v>> \o [i \in DOMAIN deep |-> heap[deep[i]]]

\* e has type *TokenExchangeError.
IsTokenPointer(e) == e.kind \in {"token", "nil_token"}

\* e has type *ValidationError.
IsValidationPointer(e) == e.kind \in {"validation", "nil_validation"}

\* Mutant: Is compares the whole value.
TokenIsEqual(e, target) ==
    \E i \in DOMAIN Seen(target) :
        /\ \A j \in 1..(i - 1) : ~IsTokenPointer(Seen(target)[j])
        /\ Seen(target)[i] = e

\* errors.As finds the first token pointer in target; it must not be nil.
TokenIs(e, target) ==
    \E i \in DOMAIN Seen(target) :
        /\ \A j \in 1..(i - 1) : ~IsTokenPointer(Seen(target)[j])
        /\ e.kind = "token" /\ Seen(target)[i].kind = "token"
        /\ e.Code = Seen(target)[i].Code

\* Mutant: an empty field is a wildcard on either side.
ValidationIsEither(e, target) ==
    /\ e.kind = "validation" /\ target.kind = "validation"
    /\ \A f \in {"Rule", "Parameter", "Reason"} :
          e[f] = "" \/ target[f] \in {"", e[f]}

\* An empty field of the target is a wildcard; a nil on either side matches
\* nothing.
ValidationIs(e, target) ==
    /\ e.kind = "validation" /\ target.kind = "validation"
    /\ \A f \in {"Rule", "Parameter", "Reason"} : target[f] \in {"", e[f]}

\* errors.Is(a, v) for a value v that was made for the question.
Matches(a, v) ==
    \E x \in ToSet(Visited[a]) :
        \/ IsTokenPointer(heap[x]) /\ TokenIs(heap[x], v)
        \/ IsValidationPointer(heap[x]) /\ ValidationIs(heap[x], v)

\* errors.Is(a, b)
Is(a, b) == b \in ToSet(Visited[a]) \/ Matches(a, heap[b])

-----------------------------------------------------------------------------
Make(es) ==
    /\ Len(heap) + Len(es) <= MaxErrors
    /\ heap' = heap \o es

\* Mutant: a token from a body without an error code.
NewUncodedToken == \E d \in Text :
    Make(<<Token("", d, NoError)>>) /\ UNCHANGED returned

\* A *TokenExchangeError from the wire or from a handler.
NewToken == \E c \in Code, d \in Text :
    Make(<<Token(c, d, NoError)>>) /\ UNCHANGED returned

ValidateFails == \E f \in Failure :
    /\ Make(<<f>>)
    /\ returned' = returned \cup {Len(heap')}

\* Mutant: the validation error is formatted with %v.
GrantTypeFailsFlat ==
    /\ Make(<<GrantTypeFailure, Wrapping(<<ErrInvalidGrantType>>)>>)
    /\ returned' = returned \cup {Len(heap')}

\* The sentinel and the validation error, both wrapped.
GrantTypeFails ==
    /\ Make(<< GrantTypeFailure,
               Wrapping(<<ErrInvalidGrantType, Len(heap) + 1>>) >>)
    /\ returned' = returned \cup {Len(heap')}

\* Exchange wraps what http.Client and Validate return.
Wrap == \E a \in DOMAIN heap :
    Make(<<Wrapping(<<a>>)>>) /\ UNCHANGED returned

\* Mutant: the cause is set on the receiver.
WithCauseInPlace(e, cause) ==
    /\ heap[e].kind = "token"
    /\ heap' = [heap EXCEPT ![e].cause = cause]
    /\ UNCHANGED returned

\* Mutant: a cause that is there is kept.
WithFirstCause(e, cause) ==
    /\ heap[e].kind = "token"
    /\ Make(<< IF heap[e].cause = NoError
               THEN [heap[e] EXCEPT !.cause = cause] ELSE heap[e] >>)
    /\ UNCHANGED returned

\* A copy of e with the cause attached; on a nil receiver nothing is made.
WithCause(e, cause) ==
    /\ heap[e].kind = "token"
    /\ Make(<<[heap[e] EXCEPT !.cause = cause]>>)
    /\ UNCHANGED returned

Init == heap = Given /\ returned = {}

Next ==
    \/ NewToken \/ ValidateFails \/ GrantTypeFails \/ Wrap
    \/ \E e \in DOMAIN heap, cause \in DOMAIN heap \cup {NoError} :
          WithCause(e, cause)

Spec == Init /\ [][Next]_vars

-----------------------------------------------------------------------------
\* The shapes that an error can have; one or two errors are wrapped at once.
Error ==
    {Given[i] : i \in DOMAIN Given} \cup Failure \cup {GrantTypeFailure}
    \cup [kind : {"token"}, Code : Code, Description : Text, cause : Nat]
    \cup [kind : {"wrapping"}, errs : {s \in Seq(Nat) : Len(s) \in 1..2}]

\* Errors have one of the shapes of the package, and Validate returned some
\* of them.
TypeOK == heap \in Seq(Error) /\ returned \subseteq DOMAIN heap

\* errors.Is and errors.As terminate: whatever is passed to WithCause, an
\* error only ever wraps errors that were made before it, so no chain runs
\* back into itself (token_error.go:131, the copy).
ChainsEnd ==
    \A a \in DOMAIN heap : \A i \in DOMAIN Unwrap(heap[a]) :
        Unwrap(heap[a])[i] \in 1..(a - 1)

\* What Validate returned is a plain validation error or the tree of the
\* grant-type failure, and the sentinel is where it was.
VerdictsOK ==
    /\ \A i \in DOMAIN Given : i \in DOMAIN heap /\ heap[i] = Given[i]
    /\ \A a \in returned :
          \/ heap[a] \in Failure
          \/ \E b \in 1..(a - 1) :
                /\ heap[a] = Wrapping(<<ErrInvalidGrantType, b>>)
                /\ heap[b] = GrantTypeFailure

\* The inductive invariant behind what errors.Is says below: errors keep
\* their shape, wrap only older ones, and carry Validate's verdicts as they
\* were made (request_validate.go:49, token_error.go:131).
Inv == TypeOK /\ ChainsEnd /\ VerdictsOK

\* The errors that a holds, as the least set that has a and, with an error,
\* all that it wraps.
Holds(a) ==
    { x \in DOMAIN heap :
        \A S \in SUBSET DOMAIN heap :
            (/\ a \in S
             /\ \A y \in S : ToSet(Unwrap(heap[y])) \subseteq S) => x \in S }

\* Client code dispatches by code alone: errors.Is(err, &TokenExchangeError{
\* Code: c}) says whether err is or holds, at any depth and in any branch, a
\* protocol error with that code, whatever its description and its cause;
\* a nil pointer on the way matches nothing and hides nothing.
DispatchIsByCode ==
    \A a \in DOMAIN heap, c \in Code :
        Matches(a, Token(c, "", NoError))
            <=> \E x \in Holds(a) : heap[x].kind = "token" /\ heap[x].Code = c

\* What Validate returns can be matched in both shapes that its comment
\* names: it is the sentinel ErrInvalidGrantType exactly when it is a
\* validation error of grant_type, and is always a validation error.  Whatever
\* holds it, wrapped by Exchange or given as a cause any number of times, still
\* matches all that.  The handler chooses unsupported_grant_type by the sentinel.
BothShapesMatch ==
    \A r \in returned :
        /\ Is(r, ErrInvalidGrantType) <=>
               Matches(r, Validation("", "grant_type", ""))
        /\ \A a \in DOMAIN heap : r \in Holds(a) =>
               /\ Matches(a, Validation("", "", ""))
               /\ Is(r, ErrInvalidGrantType) =>
                      /\ Is(a, ErrInvalidGrantType)
                      /\ Matches(a, Validation("", "grant_type", ""))

Field(f) == {""} \cup {v[f] : v \in Failure \cup {GrantTypeFailure}}

Pattern ==
    { Validation(r, p, s) :
        r \in Field("Rule"), p \in Field("Parameter"), s \in Field("Reason") }

\* Wildcards compose: an error that matches a ValidationError matches every
\* ValidationError that this one matches, so that a caller who has found the
\* narrow case is also in every wider one.
WildcardsCompose ==
    \A a \in DOMAIN heap, v \in Pattern :
        Matches(a, v) =>
            \A w \in Pattern : ValidationIs(v, w) => Matches(a, w)

\* What errors.Is has said about two errors it will always say: making more
\* errors of them, WithCause on a shared sentinel included, does not change
\* either.
MatchesAreStable ==
    [][\A a, b \in DOMAIN heap : Is(a, b)' = Is(a, b)]_vars

\* The copy that WithCause returns matches what the receiver's own code
\* matches and what the new cause matches, nothing of a cause attached
\* before, and nothing else.
CauseReplaces ==
    [][\A e \in DOMAIN heap, cause \in DOMAIN heap \cup {NoError} :
          WithCause(e, cause) =>
              \A b \in DOMAIN heap :
                  Is(Len(heap), b)' <=>
                      \/ TokenIs(heap[e], heap[b])
                      \/ cause # NoError /\ Is(cause, b)]_vars
=============================================================================
