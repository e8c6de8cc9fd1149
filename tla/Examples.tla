------------------------------ MODULE Examples ------------------------------
(***************************************************************************)
(* The two example programs: Exchange with a fixed policy, which names in  *)
(* the token the first resource (impersonation) or the first audience      *)
(* (delegation) of the request.                                            *)
(***************************************************************************)
EXTENDS Exchange

CONSTANT
    AccessTokenFor   \* the token's text around the string that it names

VARIABLE
    policy           \* the field of the request that the token names

TokenTypeAccessToken == "urn:ietf:params:oauth:token-type:access_token"
TokenTypeIDToken     == "urn:ietf:params:oauth:token-type:id_token"

\* The requests of the two main functions.
ImpersonationRequest ==
    [ GrantType |-> GrantTypeTokenExchange,
      Resource |-> <<"https://backend.example.com/api">>, Audience |-> <<>>,
      SubjectToken |-> "callers-original-access-token",
      SubjectTokenType |-> TokenTypeAccessToken,
      ActorToken |-> "", ActorTokenType |-> "", RequestedTokenType |-> "",
      Scope |-> <<>>, Extra |-> NoForm ]

DelegationRequest ==
    [ GrantType |-> GrantTypeTokenExchange, Resource |-> <<>>,
      Audience |-> <<"urn:example:cooperation-context">>,
      SubjectToken |-> "subject-jwt-asserting-the-user",
      SubjectTokenType |-> TokenTypeIDToken,
      ActorToken |-> "actor-access-token-of-acting-service",
      ActorTokenType |-> TokenTypeAccessToken, RequestedTokenType |-> "",
      Scope |-> <<>>, Extra |-> NoForm ]

\* Mutant: the last value is taken.
LastOrEmpty(values) == IF values = <<>> THEN "" ELSE Last(values)

FirstOrEmpty(values) == IF values = <<>> THEN "" ELSE Head(values)

Token(s) ==
    [ AccessToken |-> AccessTokenFor[s],
      IssuedTokenType |-> TokenTypeAccessToken, TokenType |-> "Bearer",
      ExpiresIn |-> 60, Scope |-> "", RefreshToken |-> "", Extra |-> NoExtra ]

\* The response issued for request r, which the handler has validated.
Issue(r) == Token(FirstOrEmpty(r[policy]))

ASSUME ExamplesAssumption ==
    /\ AccessTokenFor \in [Str -> Str]
    /\ {ImpersonationRequest, DelegationRequest} \subseteq Requests
    /\ \A s \in Str : Token(s) \in Grants

-----------------------------------------------------------------------------
\* One program or the other is run.
ExampleInit == Init /\ policy \in {"Resource", "Audience"}

\* The policy decides as Exchange lets it, and always issues the token.
ExampleDecides(c) ==
    as[c] = "deciding" /\ as'[c] = "writing"
        => decision'[c] = Granted(Issue(seen[c]))

ExampleNext ==
    /\ Next
    /\ \A c \in Call : ExampleDecides(c)
    /\ UNCHANGED policy

ExampleSpec == ExampleInit /\ [][ExampleNext]_<<vars, policy>>

-----------------------------------------------------------------------------
\* Mutant: the default is left out.
RequestedTypeOnly(r) == r.RequestedTokenType

RequestedOrSubjectTokenType(r) ==
    IF r.RequestedTokenType # "" THEN r.RequestedTokenType
    ELSE r.SubjectTokenType

\* The token that a caller gets names the first resource (audience) that the
\* caller itself asked for: not one of the endpoint's query, not one of
\* another call, not one that a redirect added, and none when a redirect dropped
\* the body, unless it led to a URL that is a whole request by itself.
TokenIsForTheFirst ==
    \A c \in Call :
        /\ result[c].kind = "success" /\ ~Replaced(c)
        /\ arg[c][policy] # <<>>
        => result[c].resp.AccessToken = ToUTF8[AccessTokenFor[Head(arg[c][policy])]]

\* Where the AS issues a token, the type asked for is a URI, and it is the one
\* that the caller has in mind, explicitly or by default.  The one thing that
\* changes the caller's default is a requested_token_type in the query of the URL
\* that its request ends at, and it changes it to just that type; it never
\* changes what the caller said explicitly, nor the subject token type that is
\* the default (request.go:98-108 on either side of the wire, and r.Form in
\* request_parse.go:54).
TypeIsAgreed ==
    \A c \in Call :
        LET added == Get(inbound[c].query, ParamRequestedTokenType)
        IN  decision[c].kind = "granted" /\ ~Replaced(c) =>
                /\ RequestedOrSubjectTokenType(seen[c]) \in URI
                /\ RequestedOrSubjectTokenType(seen[c]) =
                      IF arg[c].RequestedTokenType = "" /\ added # "" THEN added
                      ELSE RequestedOrSubjectTokenType(arg[c])
=============================================================================
