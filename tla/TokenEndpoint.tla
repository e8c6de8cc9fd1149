--------------------------- MODULE TokenEndpoint ----------------------------
(***************************************************************************)
(* What each end of one HTTP exchange makes of the other's bytes: the      *)
(* authorization server's writers (server_write.go) and the way the client *)
(* classifies the reply (client.go).                                       *)
(*                                                                         *)
(* A reply is a status, whether its Content-Type is application/json, and  *)
(* a body; "whole" is FALSE while only its headers are on the wire.        *)
(***************************************************************************)
EXTENDS RequestCodec, ResponseCodec

Reply ==
    [ status : Nat, json : BOOLEAN, whole : BOOLEAN,
      body : [json : {"malformed", "null", "other"}] \cup
             [json : {"object"},
              members : Seq([name : Name, value : JsonValue \cup {Absent}])] ]

\* What net/http sends for a handler that returns without writing: an empty 200.
ImplicitReply ==
    [status |-> 200, json |-> FALSE, body |-> Malformed, whole |-> TRUE]

-----------------------------------------------------------------------------
\* Mutant: the response is not validated.
WritableUnvalidated(r) == r # Nil /\ Marshalable(merged(r))

\* Nothing is written unless the response is valid and can be marshaled.
ResponseWritable(r) ==
    ValidateResponse(r) = Valid /\ Marshalable(merged(r))

ResponseReply(r) ==
    [status |-> 200, json |-> TRUE, body |-> MarshalResponse(r), whole |-> FALSE]

\* Mutant: no code has a status of its own.
AlwaysBadRequest(code) == 400

httpStatusForErrorCode(code) == IF code = ErrCodeInvalidClient THEN 401 ELSE 400

ErrorWritable(e) == e # Nil /\ e.Code # ""

\* Mutant: the Content-Type is never set.
ErrorReplyWithoutHeaders(e) ==
    [status |-> httpStatusForErrorCode(e.Code), json |-> FALSE,
     body |-> MarshalError(e), whole |-> FALSE]

ErrorReply(e) ==
    [status |-> httpStatusForErrorCode(e.Code), json |-> TRUE,
     body |-> MarshalError(e), whole |-> FALSE]

-----------------------------------------------------------------------------
\* What Exchange returns: a response, a *TokenExchangeError, or another error.
Success(r) == [kind |-> "success", resp |-> r]
Refused(e) == [kind |-> "refused", err |-> e]
Failed(why) == [kind |-> "failed", why |-> why]

Failure ==
    { Failed(why) : why \in
        { "not_configured", "not_valid", "build_request",
          "transport", "read_body", "decode_response",
          "non_JSON_body", "decode_error_response", "without_error_code",
          "HTTP_status" } }

\* A 2xx reply; the response is not validated.
ClassifySuccess(reply) ==
    IF ResponseDecodes(reply.body) THEN Success(UnmarshalResponse(reply.body))
    ELSE Failed("decode_response")

\* Mutant: an error object without a code is passed on.
ClassifyUncodedError(reply) ==
    IF ~reply.json THEN Failed("non_JSON_body")
    ELSE IF ~ErrorDecodes(reply.body) THEN Failed("decode_error_response")
    ELSE Refused(UnmarshalError(reply.body))

\* A 4xx reply.
ClassifyError(reply) ==
    IF ~reply.json THEN Failed("non_JSON_body")
    ELSE IF ~ErrorDecodes(reply.body) THEN Failed("decode_error_response")
    ELSE IF UnmarshalError(reply.body).Code = ""
         THEN Failed("without_error_code")
    ELSE Refused(UnmarshalError(reply.body))

\* The switch on the status of a reply whose body has been read.
Classify(reply) ==
    IF reply.status \in 200..299 THEN ClassifySuccess(reply)
    ELSE IF reply.status \in 400..499 THEN ClassifyError(reply)
    ELSE Failed("HTTP_status")

\* The reply of a connection that closes before the body is complete, as a
\* reader sees it that cannot tell: a prefix, which is never a JSON document.
Truncated(reply) == [reply EXCEPT !.body = Malformed]

\* For the properties: a reply with neither a token nor an error code in it.
IsOpaque(reply) ==
    /\ reply.status \in 200..299 => ~ResponseDecodes(reply.body)
    /\ reply.status \in 400..499 /\ reply.json /\ ErrorDecodes(reply.body) =>
          UnmarshalError(reply.body).Code = ""
=============================================================================
