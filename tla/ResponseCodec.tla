--------------------------- MODULE ResponseCodec ----------------------------
(***************************************************************************)
(* The JSON half of the codec: TokenExchangeResponse with its custom       *)
(* Marshal, Unmarshal and Validate, and TokenExchangeError with the        *)
(* default ones.                                                           *)
(***************************************************************************)
EXTENDS Json

FieldAccessToken     == "access_token"
FieldIssuedTokenType == "issued_token_type"
FieldTokenType       == "token_type"
FieldExpiresIn       == "expires_in"
FieldScope           == "scope"
FieldRefreshToken    == "refresh_token"

stringFields == { FieldAccessToken, FieldIssuedTokenType, FieldTokenType,
                  FieldScope, FieldRefreshToken }

builtinResponseFields == stringFields \cup {FieldExpiresIn}

errorFields == { "error", "error_description", "error_uri" }

ASSUME NamesAssumption ==
    /\ builtinResponseFields \cup errorFields \subseteq Name
    /\ \A f \in builtinResponseFields \cup errorFields : Fold[f] = f

TokenExchangeResponse ==
    [ AccessToken : Str, IssuedTokenType : Str, TokenType : Str,
      ExpiresIn : Int, Scope : Str, RefreshToken : Str, Extra : RawMap ]

ASSUME NilResponseAssumption == Nil \notin TokenExchangeResponse

NoExtra == [n \in Name |-> Absent]

ZeroResponse ==
    [ AccessToken |-> "", IssuedTokenType |-> "", TokenType |-> "",
      ExpiresIn |-> 0, Scope |-> "", RefreshToken |-> "",
      Extra |-> NoExtra ]

TokenExchangeError == [ Code : Str, Description : Str, URI : Str ]

-----------------------------------------------------------------------------
\* The JSON object of r: the typed fields, then the Extra entries whose name
\* is not that of a built-in, be the built-in omitted or not.
merged(r) ==
    [n \in Name |->
        CASE n = FieldAccessToken     -> String(ToUTF8[r.AccessToken])
          [] n = FieldIssuedTokenType -> String(ToUTF8[r.IssuedTokenType])
          [] n = FieldTokenType       -> String(ToUTF8[r.TokenType])
          [] n = FieldExpiresIn       -> IF r.ExpiresIn = 0 THEN Absent
                                         ELSE Number(r.ExpiresIn)
          [] n = FieldScope           -> StringUnlessEmpty(r.Scope)
          [] n = FieldRefreshToken    -> StringUnlessEmpty(r.RefreshToken)
          [] OTHER                    -> r.Extra[n]]

MarshalResponse(r) == MarshalMap(merged(r))

\* UnmarshalJSON succeeds on null and on an object without a wrong kind.
ResponseDecodes(body) ==
    \/ body = NullBody
    \/ /\ body.json = "object"
       /\ \A f \in stringFields : WellKinded(body, f, "string")
       /\ WellKinded(body, FieldExpiresIn, "number")

UnmarshalResponse(body) ==
    IF body = NullBody THEN ZeroResponse
    ELSE LET members == UnmarshalMap(body)
         IN [ AccessToken     |-> Field(body, FieldAccessToken, ""),
              IssuedTokenType |-> Field(body, FieldIssuedTokenType, ""),
              TokenType       |-> Field(body, FieldTokenType, ""),
              ExpiresIn       |-> Field(body, FieldExpiresIn, 0),
              Scope           |-> Field(body, FieldScope, ""),
              RefreshToken    |-> Field(body, FieldRefreshToken, ""),
              Extra           |-> [n \in Name |->
                                     IF n \in builtinResponseFields
                                     THEN Absent ELSE members[n]] ]

\* The verdict names the field of the first broken rule.
ValidateResponse(r) ==
    IF r = Nil THEN "nil response"
    ELSE IF r.AccessToken = "" THEN FieldAccessToken
    ELSE IF ~isValidTokenTypeURI(r.IssuedTokenType) THEN FieldIssuedTokenType
    ELSE IF r.TokenType = "" THEN FieldTokenType
    ELSE Valid

-----------------------------------------------------------------------------
MarshalError(e) ==
    MarshalMap([n \in Name |->
        CASE n = "error"             -> String(ToUTF8[e.Code])
          [] n = "error_description" -> StringUnlessEmpty(e.Description)
          [] n = "error_uri"         -> StringUnlessEmpty(e.URI)
          [] OTHER                   -> Absent])

ErrorDecodes(body) ==
    \/ body = NullBody
    \/ /\ body.json = "object"
       /\ \A f \in errorFields : WellKinded(body, f, "string")

UnmarshalError(body) ==
    IF body = NullBody
    THEN [Code |-> "", Description |-> "", URI |-> ""]
    ELSE [ Code        |-> Field(body, "error", ""),
           Description |-> Field(body, "error_description", ""),
           URI         |-> Field(body, "error_uri", "") ]

-----------------------------------------------------------------------------
\* What a receiver can know of a response or an error: its strings as UTF-8,
\* and no Extra entry under a built-in name.
Arrives(r) ==
    [ AccessToken     |-> ToUTF8[r.AccessToken],
      IssuedTokenType |-> ToUTF8[r.IssuedTokenType],
      TokenType       |-> ToUTF8[r.TokenType],
      ExpiresIn       |-> r.ExpiresIn,
      Scope           |-> ToUTF8[r.Scope],
      RefreshToken    |-> ToUTF8[r.RefreshToken],
      Extra           |-> [n \in Name |-> IF n \in builtinResponseFields
                                         THEN Absent ELSE r.Extra[n]] ]

ErrorArrives(e) == [ Code        |-> ToUTF8[e.Code],
                     Description |-> ToUTF8[e.Description],
                     URI         |-> ToUTF8[e.URI] ]

\* Outside the built-ins no Extra entry has a name that a struct field matches.
ExtraIsApart(r) ==
    \A n \in Name \ builtinResponseFields :
        Fold[n] \in builtinResponseFields => r.Extra[n] \in {Null, Absent}
=============================================================================
