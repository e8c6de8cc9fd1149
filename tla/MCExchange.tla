----------------------------- MODULE MCExchange -----------------------------
(***************************************************************************)
(* Small instances of Exchange: the requests, responses, errors and        *)
(* gateway replies that reach every branch of the codec, the validator,    *)
(* the writers and the classifier.                                         *)
(***************************************************************************)
EXTENDS Exchange

MCUri == "urn:t"
MCStr == { "", "a", "b", "bad-utf8", "fixed-utf8", "custom", MCUri,
           "not-a-uri", GrantTypeTokenExchange, ErrCodeInvalidRequest,
           ErrCodeInvalidClient, ErrCodeUnsupportedGrantType }
MCURI == { MCUri, GrantTypeTokenExchange }
MCExtraParam == {"tenant"}

MCToUTF8 == [s \in MCStr |-> IF s = "bad-utf8" THEN "fixed-utf8" ELSE s]

\* Upper-case letters sort before lower-case ones.
MCNameOrder == << "Scope", "access_token", "error", "error_description",
                  "error_uri", "expires_in", "issued_token_type",
                  "refresh_token", "scope", "token_type", "x_ext" >>
MCFold == [n \in {MCNameOrder[i] : i \in DOMAIN MCNameOrder} |->
              IF n = "Scope" THEN "scope" ELSE n]

-----------------------------------------------------------------------------
NoParam == [p \in builtinRequestParams \cup MCExtraParam |-> <<>>]

MinimalRequest ==
    [ GrantType |-> GrantTypeTokenExchange, SubjectToken |-> "a",
      SubjectTokenType |-> MCUri, RequestedTokenType |-> "", ActorToken |-> "",
      ActorTokenType |-> "", Resource |-> <<>>, Audience |-> <<>>,
      Scope |-> <<>>, Extra |-> NoParam ]

\* Delegation with everything set: scope elements of no, one and two words, and
\* an Extra entry under a built-in name.
FullRequest ==
    [ MinimalRequest EXCEPT
        !.RequestedTokenType = MCUri, !.ActorToken = "b",
        !.ActorTokenType = MCUri, !.Resource = <<"a", "b">>,
        !.Audience = <<"", "b">>, !.Scope = << <<"a">>, <<>>, <<"b", "a">> >>,
        !.Extra = [@ EXCEPT !["tenant"] = <<"a", "a">>,
                            ![ParamSubjectToken] = <<"b">>] ]

BlankScope == [MinimalRequest EXCEPT !.Scope = << <<>> >>]

\* One request for each rule of Validate.
InvalidRequests ==
    { Nil,
      [MinimalRequest EXCEPT !.GrantType = "a"],
      [MinimalRequest EXCEPT !.SubjectToken = ""],
      [MinimalRequest EXCEPT !.SubjectTokenType = "not-a-uri"],
      [MinimalRequest EXCEPT !.ActorToken = "b"],
      [MinimalRequest EXCEPT !.ActorTokenType = MCUri],
      [MinimalRequest EXCEPT !.RequestedTokenType = "not-a-uri"] }

AllRequests == { MinimalRequest, FullRequest, BlankScope } \cup InvalidRequests
OneRequest == { MinimalRequest }

-----------------------------------------------------------------------------
NoName == [n \in DOMAIN MCFold |-> Absent]

MinimalResponse ==
    [ AccessToken |-> "a", IssuedTokenType |-> MCUri, TokenType |-> "b",
      ExpiresIn |-> 0, Scope |-> "", RefreshToken |-> "", Extra |-> NoName ]

FullResponse ==
    [ MinimalResponse EXCEPT
        !.AccessToken = "bad-utf8", !.ExpiresIn = -1, !.Scope = "a",
        !.RefreshToken = "b",
        !.Extra = [@ EXCEPT !["x_ext"] = Null, !["error"] = String("b")] ]

\* An Extra entry under the name of a built-in that omitempty leaves out.
ShadowedExtra ==
    [MinimalResponse EXCEPT !.Extra = [@ EXCEPT !["scope"] = String("b"),
                                                !["expires_in"] = Compound]]

\* One response for each rule of Validate, and one that cannot be marshaled.
BadResponses ==
    { Nil,
      [MinimalResponse EXCEPT !.AccessToken = ""],
      [MinimalResponse EXCEPT !.IssuedTokenType = "not-a-uri"],
      [MinimalResponse EXCEPT !.TokenType = ""],
      [MinimalResponse EXCEPT !.Extra = [@ EXCEPT !["x_ext"] = Invalid]] }

AllGrants == { MinimalResponse, FullResponse, ShadowedExtra } \cup BadResponses
OneGrant == { MinimalResponse }

\* An Extra name that is not that of a built-in but matches one when decoded.
FoldedGrants ==
    { [MinimalResponse EXCEPT !.Extra = [@ EXCEPT !["Scope"] = String("b")]] }

Denial(code) == [Code |-> code, Description |-> "bad-utf8", URI |-> ""]
AllDenials == { Nil, Denial(ErrCodeInvalidClient), Denial("custom"), Denial("") }
OneDenial == { Denial(ErrCodeInvalidClient) }

\* The inputs of the runs that must pass satisfy the hypotheses of the theorems
\* OpaquePages and GrantsAreApart (ExchangeProofs).
ASSUME GrantsAssumption == \A r \in AllGrants \ {Nil} : ExtraIsApart(r)

-----------------------------------------------------------------------------
GatewayReply(status, json, body) ==
    [status |-> status, json |-> json, body |-> body, whole |-> TRUE]

\* What intermediaries answer without knowing OAuth: an HTML page with any
\* status, an empty 204, a redirect without Location, problem documents.
Pages ==
    { GatewayReply(200, FALSE, Malformed), GatewayReply(204, FALSE, Malformed),
      GatewayReply(302, FALSE, Malformed), GatewayReply(403, FALSE, Malformed),
      GatewayReply(429, TRUE, NullBody), GatewayReply(400, TRUE, OtherBody),
      GatewayReply(404, TRUE,
          Object(<< [name |-> "x_ext", value |-> Compound] >>)),
      GatewayReply(504, TRUE, Malformed) }

ASSUME PagesAssumption == \A r \in Pages : IsOpaque(r)

NoGateway == {}
NullPage == { GatewayReply(200, TRUE, NullBody) }

\* A JSON 4xx whose code is readable but whose description is not a string.
MistypedError ==
    { GatewayReply(400, TRUE,
        Object(<< [name |-> "error", value |-> String("custom")],
                  [name |-> "error_description", value |-> Compound] >>)) }

NoQuery == NoParam

\* An endpoint URL with parameters of its own.
BusyQuery ==
    [NoParam EXCEPT !["tenant"] = <<"b">>, ![ParamAudience] = <<"a">>,
                    ![ParamScope] = << <<"b">> >>, ![ParamSubjectToken] = <<"b">>,
                    ![ParamRequestedTokenType] = <<"not-a-uri">>]

\* Where redirects lead: a URL without a query, one with a few parameters, and
\* one that spells out a request of its own.
OtherRequest == [MinimalRequest EXCEPT !.SubjectToken = "b"]
Locations == { NoQuery, BusyQuery, Encode(OtherRequest) }
NoLocation == {}
=============================================================================
