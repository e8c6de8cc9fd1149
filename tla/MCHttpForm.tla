----------------------------- MODULE MCHttpForm -----------------------------
(***************************************************************************)
(* Model values for HttpForm: every method, media type and flaw, with a    *)
(* body that holds a request and two parameters that middleware may strip, *)
(* and perhaps an audience in the query.                                   *)
(***************************************************************************)
EXTENDS HttpForm, TLC

MCStr == { "", GrantTypeTokenExchange, ErrCodeInvalidRequest,
           ErrCodeInvalidClient, ErrCodeUnsupportedGrantType,
           "token", "urn:type", "secret" }
MCURI == {"urn:type"}
MCExtra == {"client_id", "client_secret"}

body ==
    (ParamGrantType :> <<GrantTypeTokenExchange>>
     @@ ParamSubjectToken :> <<"token">> @@ ParamSubjectTokenType :> <<"urn:type">>
     @@ [p \in MCExtra |-> <<"secret">>]) @@ NoForm

query == (ParamAudience :> <<"urn:type">>) @@ NoForm

MCSent ==
    [ method : {"POST", "GET"}, type : ContentType,
      body : {body}, bodyFlaw : BodyFlaw,
      query : {NoForm, query}, queryFlaw : BOOLEAN ]
=============================================================================
