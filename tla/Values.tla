------------------------------- MODULE Values -------------------------------
(***************************************************************************)
(* The strings that the package moves between Go structs, HTML forms and   *)
(* JSON bodies.  Beyond equality the code asks two things of a string: is  *)
(* it empty, and is it a URI with a scheme.                                *)
(***************************************************************************)
CONSTANTS
    Str,   \* the strings: tokens, URIs, audiences, error codes, ...
    URI,   \* those that net/url parses with a non-empty scheme
    Nil    \* a nil *TokenExchangeRequest or *TokenExchangeResponse

GrantTypeTokenExchange == "urn:ietf:params:oauth:grant-type:token-exchange"

ErrCodeInvalidRequest       == "invalid_request"
ErrCodeInvalidClient        == "invalid_client"
ErrCodeUnsupportedGrantType == "unsupported_grant_type"

ASSUME StrAssumption ==
    /\ Str \subseteq STRING
    /\ { "", GrantTypeTokenExchange, ErrCodeInvalidRequest,
         ErrCodeInvalidClient, ErrCodeUnsupportedGrantType } \subseteq Str
    /\ URI \subseteq Str \ {""}

isValidTokenTypeURI(s) == s \in URI

\* The verdict of a Validate that returns a nil error.
Valid == "ok"
=============================================================================
