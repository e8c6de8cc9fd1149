----------------------------- MODULE MCExamples -----------------------------
(***************************************************************************)
(* The examples' requests, and requests that name several resources and    *)
(* audiences or none, to an endpoint whose query adds some of its own.     *)
(***************************************************************************)
EXTENDS Examples, TLC

MCNamed == { "", "https://backend.example.com/api",
             "urn:example:cooperation-context", "urn:other" }
MCURI == { TokenTypeAccessToken, TokenTypeIDToken, "urn:other" }
MCOpaque == { "callers-original-access-token", "subject-jwt-asserting-the-user",
              "actor-access-token-of-acting-service", "Bearer" }
MCPlain == MCNamed \cup MCURI \cup MCOpaque
           \cup { GrantTypeTokenExchange, ErrCodeInvalidRequest,
                  ErrCodeInvalidClient, ErrCodeUnsupportedGrantType }
MCPrefixed == [s \in MCNamed |-> "for:" \o s]
MCStr == MCPlain \cup {MCPrefixed[s] : s \in MCNamed}

\* Only the strings that requests name are ever prefixed.
MCAccessTokenFor ==
    [s \in MCStr |-> IF s \in MCNamed THEN MCPrefixed[s] ELSE s]

MCToUTF8 == [s \in MCStr |-> s]
MCNameOrder == << "access_token", "error", "error_description", "error_uri",
                  "expires_in", "issued_token_type", "refresh_token", "scope",
                  "token_type" >>
MCFold == [n \in {MCNameOrder[i] : i \in DOMAIN MCNameOrder} |-> n]
MCExtraParam == {"tenant"}

Named == { <<>>, <<"">>, <<"urn:other", "https://backend.example.com/api">> }

MCRequests ==
    { ImpersonationRequest, DelegationRequest }
    \cup { [ImpersonationRequest EXCEPT !.Resource = l, !.RequestedTokenType = t] :
              l \in Named, t \in {"", TokenTypeIDToken} }
    \cup { [DelegationRequest EXCEPT !.Audience = l] : l \in Named }
    \cup { [DelegationRequest EXCEPT
               !.Resource = <<"", "urn:other">>, !.Scope = scope,
               !.RequestedTokenType = TokenTypeIDToken,
               !.Extra = [@ EXCEPT !["tenant"] = <<"", "Bearer">>]] :
              scope \in { << <<>> >>, << <<"Bearer">>, <<"urn:other", "Bearer">> >> } }

MCGrants == { Token(s) : s \in MCStr }

\* Parameters that the caller also has, or leaves out; not the grant type.
MCQuery ==
    ( "tenant" :> <<"urn:other">> @@ ParamResource :> <<"urn:other">>
      @@ ParamAudience :> <<"urn:other">> @@ ParamScope :> << <<"urn:other">> >>
      @@ ParamSubjectToken :> <<"urn:other">>
      @@ ParamSubjectTokenType :> <<"urn:other">>
      @@ ParamRequestedTokenType :> <<"urn:other">> ) @@ NoForm

\* Redirects lead to a URL without a query, back to the endpoint, to one whose
\* first requested_token_type is empty, and to one that is a whole request.
MCLocations ==
    { NoForm, MCQuery,
      [MCQuery EXCEPT ![ParamRequestedTokenType] = <<"", "urn:other">>],
      Encode([ImpersonationRequest EXCEPT !.SubjectToken = "Bearer",
                                          !.Resource = <<"urn:other">>]) }

MCPages == { [status |-> 200, json |-> FALSE, body |-> Malformed, whole |-> TRUE] }
=============================================================================
