--------------------------- MODULE ExchangeProofs ---------------------------
(***************************************************************************)
(* Proofs about Exchange, for every set of calls, requests, responses,     *)
(* errors, pages, endpoint queries, redirects and numbers of them.         *)
(***************************************************************************)
EXTENDS OneCall, CodecProofs

Known(c) == /\ CallerIsKnown(c) /\ RequestIsKnown(c) /\ HandlerIsKnown(c)
            /\ ReplyIsKnown(c) /\ ResultIsKnown(c)

-----------------------------------------------------------------------------
(* Requests, results and replies. *)

LEMMA RedirectsAreBounded == MaxRedirects \in Nat
  BY ExchangeAssumption

\* An encoded request is never an empty form: it has a grant type.
LEMMA RequestsAreForms ==
    ASSUME NEW r
    PROVE  Encode(r) # NoForm
<1>1. ParamGrantType \in Param
  BY DEF Param, builtinRequestParams
<1>2. Encode(r)[ParamGrantType] = <<r.GrantType>>
  BY <1>1 DEF Encode, ParamGrantType, ParamResource, ParamAudience, ParamScope,
     ParamRequestedTokenType, ParamSubjectToken, ParamSubjectTokenType,
     ParamActorToken, ParamActorTokenType
<1>3. NoForm[ParamGrantType] = <<>>
  BY <1>1 DEF NoForm
<1>4. QED
  BY <1>2, <1>3

\* What Exchange makes of a reply is a result.
LEMMA ClassifyReturns ==
    ASSUME NEW r
    PROVE  Classify(r) # Pending
<1>1. Classify(r).kind \in {"success", "refused", "failed"}
  BY DEF Classify, ClassifySuccess, ClassifyError, Success, Refused, Failed
<1>2. QED
  BY <1>1 DEF Pending

LEMMA FailuresAreResults ==
    /\ Pending \notin Failure
    /\ \A res \in {Pending} \cup Failure : res.kind \in {"pending", "failed"}
<1>1. ASSUME NEW res \in Failure PROVE res.kind = "failed"
  <2>1. PICK why : res = Failed(why)
    BY DEF Failure
  <2>2. QED
    BY <2>1 DEF Failed
<1>2. Pending.kind = "pending"
  BY DEF Pending
<1>3. QED
  BY <1>1, <1>2

\* A body that ends early is a failure.
LEMMA TruncatedFails ==
    ASSUME NEW r, r = [status |-> r.status, json |-> r.json, body |-> r.body,
                       whole |-> r.whole]
    PROVE  Classify(Truncated(r)) \in Failure
<1>1. Truncated(r).body = Malformed
  BY DEF Truncated
<1>2. ~ResponseDecodes(Malformed) /\ ~ErrorDecodes(Malformed)
  BY DEF ResponseDecodes, ErrorDecodes, Malformed, NullBody
<1>3. QED
  BY <1>1, <1>2 DEF Classify, ClassifySuccess, ClassifyError, Failure

\* So is a page without a token and without an error code.
LEMMA OpaqueFails ==
    ASSUME NEW r, IsOpaque(r)
    PROVE  Classify(r) \in Failure
<1>1. CASE r.status \in 200..299
  BY <1>1 DEF IsOpaque, Classify, ClassifySuccess, Failure
<1>2. CASE r.status \in 400..499
  <2>1. r.json /\ ErrorDecodes(r.body) => UnmarshalError(r.body).Code = ""
    BY <1>2 DEF IsOpaque
  <2>2. ClassifyError(r) \in Failure
    BY <2>1 DEF ClassifyError, Failure
  <2>3. QED
    BY <1>2, <2>2 DEF Classify
<1>3. CASE r.status \notin 200..299 /\ r.status \notin 400..499
  BY <1>3 DEF Classify, Failure
<1>4. QED
  BY <1>1, <1>2, <1>3

\* A reply always has its four parts.
LEMMA RepliesAreRecords ==
    ASSUME NEW c, ReplyIsKnown(c)
    PROVE  reply[c] = [status |-> reply[c].status, json |-> reply[c].json,
                       body |-> reply[c].body, whole |-> reply[c].whole]
<1>1. CASE reply[c] \in {NoReply, ImplicitReply}
  BY <1>1 DEF NoReply, ImplicitReply
<1>2. CASE reply[c] \in GatewayReplies
  BY <1>2, ExchangeAssumption DEF Reply
<1>3. CASE reply[c] \in { [ReplyTo(decision[c]) EXCEPT !.whole = b] :
                             b \in BOOLEAN }
  BY <1>3 DEF ReplyTo, ResponseReply, ErrorReply
<1>4. QED
  BY <1>1, <1>2, <1>3 DEF ReplyIsKnown

\* What a writer sends first is a reply without its body.
LEMMA WritersStartWithHeaders ==
    ASSUME NEW d
    PROVE  ReplyTo(d) = [ReplyTo(d) EXCEPT !.whole = FALSE]
<1> DEFINE r == ReplyTo(d)
<1>1. r = [status |-> r.status, json |-> r.json, body |-> r.body,
           whole |-> r.whole]
  BY DEF ReplyTo, ResponseReply, ErrorReply
<1>2. r.whole = FALSE
  BY DEF ReplyTo, ResponseReply, ErrorReply
<1> HIDE DEF r
<1>3. r = [r EXCEPT !.whole = FALSE]
  BY <1>1, <1>2
<1>4. QED
  BY <1>3 DEF r

-----------------------------------------------------------------------------
(* The inductive invariant. *)

LEMMA InitEstablishesInv == Init => Inv
<1> SUFFICES ASSUME Init PROVE Inv
  OBVIOUS
<1>1. ControlOK
  BY DEF Init, ControlOK
<1>2. ASSUME NEW c \in Call PROVE Known(c)
  BY DEF Init, Known, CallerIsKnown, RequestIsKnown, HandlerIsKnown,
         ReplyIsKnown, ResultIsKnown, Undecided, Pending
<1>3. QED
  BY <1>1, <1>2 DEF Inv, Known

\* Nothing that concerns call d changes.
Same(d) ==
    /\ endpoint' = endpoint /\ pc'[d] = pc[d] /\ arg'[d] = arg[d]
    /\ cancelled'[d] = cancelled[d] /\ result'[d] = result[d]
    /\ link'[d] = link[d] /\ inbound'[d] = inbound[d] /\ reply'[d] = reply[d]
    /\ as'[d] = as[d] /\ seen'[d] = seen[d] /\ decision'[d] = decision[d]

LEMMA SameIsKnown ==
    ASSUME NEW d, Known(d), Same(d)
    PROVE  Known(d)'
<1>1. CallerIsKnown(d)' /\ RequestIsKnown(d)'
  BY DEF Known, Same, CallerIsKnown, RequestIsKnown, Asked
<1>2. HandlerIsKnown(d)'
  BY DEF Known, Same, HandlerIsKnown
<1>3. ReplyIsKnown(d)' /\ ResultIsKnown(d)'
  BY DEF Known, Same, ReplyIsKnown, ResultIsKnown, Asked
<1>4. QED
  BY <1>1, <1>2, <1>3 DEF Known

Step(c) == Reject(c) \/ Send(c) \/ Cancel(c) \/ ClientStep(c) \/ Receive(c)
               \/ HandlerStep(c) \/ Fault(c)

\* A step of one call is none of another.
LEMMA OthersAreSame ==
    ASSUME ControlOK, NEW c \in Call, Step(c), NEW d \in Call, d # c
    PROVE  Same(d)
<1> USE DEF ControlOK, Same
<1>1. CASE Reject(c) \/ Send(c) \/ Cancel(c)
  BY <1>1 DEF Reject, Send, Cancel, Return, server
<1>2. CASE ClientStep(c)
  BY <1>2 DEF ClientStep, DoFails, DoReturns, ReadFails, Finish, FinishTruncated,
     Return, server
<1>3. CASE Receive(c)
  BY <1>3 DEF Receive, DenyWith, client
<1>4. CASE HandlerStep(c)
  BY <1>4 DEF HandlerStep, Decide, WriteNothing, WriteHeader, WriteBody, Put, client
<1>5. CASE Fault(c)
  BY <1>5 DEF Fault, Cut, Redirect, TooManyRedirects, GatewayAnswers,
     ReceiveFails, Crash, Return, DenyWith, client, server
<1>6. QED
  BY <1>1, <1>2, <1>3, <1>4, <1>5 DEF Step

LEMMA StepKeepsControl ==
    ASSUME ControlOK, NEW c \in Call, Step(c)
    PROVE  ControlOK'
<1> USE DEF ControlOK
<1>1. CASE Reject(c) \/ Send(c) \/ Cancel(c)
  <2>1. CASE Reject(c)
    <3>1. PICK r \in Requests : arg' = [arg EXCEPT ![c] = r]
      BY <2>1 DEF Reject
    <3>2. arg' \in [Call -> Requests \cup {Nil}]
      BY <3>1
    <3>3. QED
      BY <2>1, <3>2 DEF Reject, Return, server
  <2>2. CASE Send(c)
    <3>1. PICK r \in Requests : arg' = [arg EXCEPT ![c] = r]
      BY <2>2 DEF Send
    <3>2. arg' \in [Call -> Requests \cup {Nil}]
      BY <3>1
    <3>3. DOMAIN inbound' = Call
      BY <2>2 DEF Send
    <3>4. QED
      BY <2>2, <3>2, <3>3 DEF Send, server
  <2>3. CASE Cancel(c)
    BY <2>3 DEF Cancel, server
  <2>4. QED
    BY <1>1, <2>1, <2>2, <2>3
<1>2. CASE ClientStep(c)
  BY <1>2 DEF ClientStep, DoFails, DoReturns, ReadFails, Finish, FinishTruncated,
     Return, server
<1>3. CASE Receive(c)
  BY <1>3 DEF Receive, DenyWith, client
<1>4. CASE HandlerStep(c)
  BY <1>4 DEF HandlerStep, Decide, WriteNothing, WriteHeader, WriteBody, Put, client
<1>5. CASE Fault(c)
  <2>1. CASE Cut(c) \/ Crash(c)
    <3>1. CASE Cut(c)
      BY <3>1 DEF Cut, client, server
    <3>2. CASE Crash(c)
      BY <3>2 DEF Crash, client
    <3>3. QED
      BY <2>1, <3>1, <3>2
  <2>2. CASE Redirect(c) \/ GatewayAnswers(c)
    BY <2>2 DEF Redirect, GatewayAnswers, client, server
  <2>3. CASE TooManyRedirects(c)
    BY <2>3 DEF TooManyRedirects, Return, server
  <2>4. CASE ReceiveFails(c)
    BY <2>4 DEF ReceiveFails, DenyWith, client
  <2>5. QED
    BY <1>5, <2>1, <2>2, <2>3, <2>4 DEF Fault
<1>6. QED
  BY <1>1, <1>2, <1>3, <1>4, <1>5 DEF Step

-----------------------------------------------------------------------------
(* What a step leaves alone stays known. *)

CallerSame(c)  == /\ endpoint' = endpoint /\ pc'[c] = pc[c]
                  /\ arg'[c] = arg[c] /\ result'[c] = result[c]
HandlerSame(c) == as'[c] = as[c] /\ seen'[c] = seen[c] /\ decision'[c] = decision[c]

LEMMA CallerKept ==
    ASSUME NEW c, CallerIsKnown(c), CallerSame(c), inbound'[c] = inbound[c]
    PROVE  CallerIsKnown(c)'
  BY DEF CallerIsKnown, CallerSame, Asked

LEMMA RequestKept ==
    ASSUME NEW c, RequestIsKnown(c), endpoint' = endpoint, arg'[c] = arg[c],
           pc[c] # "idle" => pc'[c] # "idle", inbound'[c] = inbound[c]
    PROVE  RequestIsKnown(c)'
  BY DEF RequestIsKnown, Asked

LEMMA HandlerKept ==
    ASSUME NEW c, HandlerIsKnown(c), HandlerSame(c), inbound'[c] = inbound[c]
    PROVE  HandlerIsKnown(c)'
  BY DEF HandlerIsKnown, HandlerSame

LEMMA ReplyKept ==
    ASSUME NEW c, ReplyIsKnown(c), HandlerSame(c), reply'[c] = reply[c]
    PROVE  ReplyIsKnown(c)'
  BY DEF ReplyIsKnown, HandlerSame

\* A complete reply stays what it is, and so does a result read from it.
LEMMA ResultKept ==
    ASSUME NEW c, ResultIsKnown(c), CallerSame(c), inbound'[c] = inbound[c],
           link'[c] = "up" => link[c] = "up",
           cancelled[c] => cancelled'[c], cancelled[c] \in BOOLEAN,
           reply[c].whole => reply'[c] = reply[c]
    PROVE  ResultIsKnown(c)'
  BY DEF ResultIsKnown, CallerSame, Asked

\* A call that fails: the client's part of every action that ends in a failure.
LEMMA FailureIsKnown ==
    ASSUME NEW c, pc'[c] = "done", result'[c] \in Failure,
           cancelled'[c] \/ link'[c] # "up" \/ ~Asked(c)' \/ inbound'[c] = NoRequest
    PROVE  CallerIsKnown(c)' /\ ResultIsKnown(c)'
<1>1. result'[c] # Pending
  BY FailuresAreResults
<1>2. QED
  BY <1>1 DEF CallerIsKnown, ResultIsKnown

-----------------------------------------------------------------------------
(* One lemma for each kind of step. *)

LEMMA StartKeepsKnown ==
    ASSUME ControlOK, NEW c \in Call, Known(c), Reject(c) \/ Send(c)
    PROVE  Known(c)'
<1>1. /\ pc[c] = "idle" /\ ~Asked(c) /\ inbound[c] = NoRequest
      /\ as[c] = "waiting" /\ result[c] = Pending
  BY DEF ControlOK, Reject, Send, Asked, Known, CallerIsKnown,
         RequestIsKnown, HandlerIsKnown
<1>2. HandlerSame(c) /\ reply'[c] = reply[c] /\ endpoint' = endpoint
  BY DEF ControlOK, Reject, Send, HandlerSame, server
<1>3. ReplyIsKnown(c)'
  BY <1>2, ReplyKept DEF Known
<1>4. CASE Reject(c)
  <2>1. PICK r \in Requests :
          /\ endpoint # "usable" \/ ValidateRequest(r) # Valid
          /\ arg' = [arg EXCEPT ![c] = r]
          /\ Return(c, Failed(
                IF endpoint = "" THEN "not_configured"
                ELSE IF ValidateRequest(r) # Valid THEN "not_valid"
                ELSE "build_request"))
    BY <1>4 DEF ControlOK, Reject
  <2>2. /\ inbound'[c] = NoRequest /\ arg'[c] = r /\ pc'[c] = "done"
        /\ result'[c] \in Failure
    BY <1>4, <1>1, <2>1 DEF ControlOK, Reject, Return, Failure
  <2>3. CallerIsKnown(c)' /\ ResultIsKnown(c)'
    BY <2>2, FailureIsKnown
  <2>4. RequestIsKnown(c)'
    BY <2>2 DEF RequestIsKnown, NoRequest
  <2>5. HandlerIsKnown(c)'
    BY <1>1, <1>2, <2>2, HandlerKept DEF Known
  <2>6. QED
    BY <1>3, <2>3, <2>4, <2>5 DEF Known
<1>5. CASE Send(c)
  <2>1. PICK r \in Requests :
          /\ ValidateRequest(r) = Valid
          /\ arg' = [arg EXCEPT ![c] = r]
          /\ inbound' = [inbound EXCEPT ![c] =
                [body |-> Encode(r), query |-> EndpointQuery, redirects |-> 0]]
    BY <1>5 DEF ControlOK, Send
  <2>2. /\ pc'[c] = "sending" /\ result'[c] = Pending /\ arg'[c] = r
        /\ inbound'[c] = [body |-> Encode(r), query |-> EndpointQuery,
                          redirects |-> 0]
    BY <1>5, <1>1, <2>1 DEF ControlOK, Send
  <2>3. Asked(c)'
    BY <1>5, <1>2, <2>1, <2>2 DEF ControlOK, Send, Asked
  <2>4. CallerIsKnown(c)' /\ ResultIsKnown(c)'
    <3>1. inbound'[c] # NoRequest
      BY <2>2, RequestsAreForms DEF NoRequest
    <3>2. QED
      BY <2>2, <2>3, <3>1 DEF CallerIsKnown, ResultIsKnown
  <2>5. RequestIsKnown(c)'
    <3>1. 0 \in 0..MaxRedirects
      BY RedirectsAreBounded
    <3>2. QED
      BY <2>2, <2>3, <3>1 DEF RequestIsKnown
  <2>6. HandlerIsKnown(c)'
    BY <1>1, <1>2 DEF Known, HandlerIsKnown, HandlerSame, Undecided
  <2>7. QED
    BY <1>3, <2>4, <2>5, <2>6 DEF Known
<1>6. QED
  BY <1>4, <1>5

LEMMA ClientKeepsKnown ==
    ASSUME ControlOK, NEW c \in Call, Known(c),
           ClientStep(c) \/ Cancel(c) \/ Cut(c)
    PROVE  Known(c)'
<1>1. /\ HandlerSame(c) /\ reply'[c] = reply[c] /\ endpoint' = endpoint
      /\ inbound'[c] = inbound[c] /\ arg'[c] = arg[c]
      /\ pc[c] # "idle" => pc'[c] # "idle"
  BY DEF ControlOK, ClientStep, DoFails, DoReturns, ReadFails, Finish, FinishTruncated,
         Return, Cancel, Cut, client, server, HandlerSame
<1>2. RequestIsKnown(c)' /\ HandlerIsKnown(c)' /\ ReplyIsKnown(c)'
  BY <1>1, RequestKept, HandlerKept, ReplyKept DEF Known
<1>3. CASE DoFails(c) \/ ReadFails(c)
  <2>1. /\ pc'[c] = "done" /\ result'[c] \in Failure
        /\ cancelled'[c] \/ link'[c] # "up"
    BY <1>3 DEF ControlOK, DoFails, ReadFails, Return, Failure
  <2>2. CallerIsKnown(c)' /\ ResultIsKnown(c)'
    BY <2>1, FailureIsKnown
  <2>3. QED
    BY <1>2, <2>2 DEF Known
<1>4. CASE FinishTruncated(c)
  <2>1. pc'[c] = "done" /\ result'[c] = Classify(Truncated(reply[c]))
            /\ link'[c] # "up"
    BY <1>4 DEF ControlOK, FinishTruncated, Return
  <2>2. result'[c] \in Failure
    BY <2>1, RepliesAreRecords, TruncatedFails DEF Known
  <2>3. CallerIsKnown(c)' /\ ResultIsKnown(c)'
    BY <2>1, <2>2, FailureIsKnown
  <2>4. QED
    BY <1>2, <2>3 DEF Known
<1>5. CASE Finish(c)
  <2>1. pc'[c] = "done" /\ reply'[c].whole /\ result'[c] = Classify(reply'[c])
    BY <1>1, <1>5 DEF ControlOK, Finish, Return
  <2>2. result'[c] # Pending
    BY <2>1, ClassifyReturns
  <2>3. CallerIsKnown(c)' /\ ResultIsKnown(c)'
    BY <2>1, <2>2 DEF CallerIsKnown, ResultIsKnown
  <2>4. QED
    BY <1>2, <2>3 DEF Known
<1>6. CASE DoReturns(c)
  <2>1. pc[c] = "sending" /\ pc'[c] = "reading" /\ result'[c] = result[c]
    BY <1>6 DEF ControlOK, DoReturns
  <2>2. CallerIsKnown(c)' /\ ResultIsKnown(c)'
    BY <1>1, <2>1 DEF Known, CallerIsKnown, ResultIsKnown, Asked
  <2>3. QED
    BY <1>2, <2>2 DEF Known
<1>7. CASE Cancel(c) \/ Cut(c)
  <2>1. CallerSame(c)
    BY <1>1, <1>7 DEF ControlOK, Cancel, Cut, client, CallerSame
  <2>2. /\ link'[c] = "up" => link[c] = "up"
        /\ cancelled[c] => cancelled'[c]
        /\ cancelled[c] \in BOOLEAN
    BY <1>7 DEF ControlOK, Cancel, Cut, client
  <2>3. CallerIsKnown(c)' /\ ResultIsKnown(c)'
    BY <1>1, <2>1, <2>2, CallerKept, ResultKept DEF Known
  <2>4. QED
    BY <1>2, <2>3 DEF Known
<1>8. QED
  BY <1>3, <1>4, <1>5, <1>6, <1>7 DEF ClientStep

LEMMA NetworkKeepsKnown ==
    ASSUME ControlOK, NEW c \in Call, Known(c),
           Redirect(c) \/ TooManyRedirects(c) \/ GatewayAnswers(c)
    PROVE  Known(c)'
<1>1. /\ HandlerSame(c) /\ endpoint' = endpoint /\ arg'[c] = arg[c]
      /\ link'[c] = link[c] /\ cancelled'[c] = cancelled[c]
      /\ pc[c] = "sending" /\ reply[c] = NoReply
  BY DEF ControlOK, Redirect, TooManyRedirects, GatewayAnswers, Return, client, server,
         HandlerSame
<1>2. ~reply[c].whole
  BY <1>1 DEF NoReply
<1>3. Asked(c) /\ inbound[c] # NoRequest /\ cancelled[c] \in BOOLEAN
  BY <1>1 DEF ControlOK, Known, CallerIsKnown
<1>4. CASE Redirect(c)
  <2>1. PICK body \in {inbound[c].body, NoForm}, query \in RedirectQueries :
          inbound'[c] = [body |-> body, query |-> query,
                         redirects |-> inbound[c].redirects + 1]
    BY <1>4 DEF ControlOK, Redirect
  <2>2. /\ CallerSame(c) /\ reply'[c] = reply[c] /\ as[c] = "waiting"
        /\ inbound[c].redirects < MaxRedirects
    BY <1>1, <1>4 DEF ControlOK, Redirect, client, CallerSame
  <2>3. Asked(c)'
    BY <1>3, <2>2 DEF CallerSame, Asked
  <2>4. /\ inbound[c].body \in {Encode(arg[c]), NoForm}
        /\ inbound[c].query \in {EndpointQuery} \cup RedirectQueries
        /\ inbound[c].redirects \in 0..MaxRedirects
    BY <1>3 DEF Known, RequestIsKnown
  <2>5. /\ inbound[c].redirects + 1 \in 0..MaxRedirects
        /\ inbound[c].redirects + 1 # 0
    BY <2>2, <2>4, RedirectsAreBounded
  <2>6. RequestIsKnown(c)' /\ inbound'[c] # NoRequest
    BY <1>1, <2>1, <2>3, <2>4, <2>5 DEF RequestIsKnown, NoRequest
  <2>7. CallerIsKnown(c)' /\ ResultIsKnown(c)'
    BY <1>1, <1>3, <2>2, <2>3, <2>6
    DEF Known, CallerIsKnown, CallerSame, ResultIsKnown
  <2>8. HandlerIsKnown(c)'
    BY <1>1, <2>2, <2>6 DEF Known, HandlerIsKnown, HandlerSame
  <2>9. QED
    BY <1>1, <2>2, <2>6, <2>7, <2>8, ReplyKept DEF Known
<1>5. CASE TooManyRedirects(c)
  <2>1. /\ pc'[c] = "done" /\ result'[c] \in Failure /\ inbound'[c] = NoRequest
        /\ reply'[c] = reply[c] /\ as[c] = "waiting"
    BY <1>5 DEF ControlOK, TooManyRedirects, Return, Failure
  <2>2. CallerIsKnown(c)' /\ ResultIsKnown(c)'
    BY <2>1, FailureIsKnown
  <2>3. RequestIsKnown(c)'
    BY <2>1 DEF RequestIsKnown
  <2>4. HandlerIsKnown(c)'
    BY <1>1, <2>1 DEF Known, HandlerIsKnown, HandlerSame, Undecided
  <2>5. QED
    BY <1>1, <2>1, <2>2, <2>3, <2>4, ReplyKept DEF Known
<1>6. CASE GatewayAnswers(c)
  <2>1. CallerSame(c) /\ inbound'[c] = inbound[c]
    BY <1>6 DEF ControlOK, GatewayAnswers, client, CallerSame
  <2>2. /\ CallerIsKnown(c)' /\ RequestIsKnown(c)'
        /\ HandlerIsKnown(c)' /\ ResultIsKnown(c)'
    BY <1>1, <1>2, <1>3, <2>1, CallerKept, RequestKept, HandlerKept, ResultKept
    DEF Known, CallerSame
  <2>3. ReplyIsKnown(c)'
    BY <1>6 DEF ControlOK, GatewayAnswers, ReplyIsKnown
  <2>4. QED
    BY <2>2, <2>3 DEF Known
<1>7. QED
  BY <1>4, <1>5, <1>6

LEMMA ReceiveKeepsKnown ==
    ASSUME ControlOK, NEW c \in Call, Known(c), Receive(c) \/ ReceiveFails(c)
    PROVE  Known(c)'
<1>1. /\ CallerSame(c) /\ inbound'[c] = inbound[c] /\ reply'[c] = reply[c]
      /\ cancelled'[c] = cancelled[c]
      /\ link'[c] = "up" => link[c] = "up"
      /\ as[c] = "waiting" /\ inbound[c] # NoRequest /\ cancelled[c] \in BOOLEAN
  <2>1. CASE Receive(c)
    BY <2>1 DEF ControlOK, Receive, CallerSame, client
  <2>2. CASE ReceiveFails(c)
    <3>1. inbound[c] # NoRequest
      BY <2>2 DEF ReceiveFails, NoRequest
    <3>2. QED
      BY <2>2, <3>1 DEF ControlOK, ReceiveFails, CallerSame, client
  <2>3. QED
    BY <2>1, <2>2
<1>2. CallerIsKnown(c)' /\ RequestIsKnown(c)' /\ ResultIsKnown(c)'
  BY <1>1, CallerKept, RequestKept, ResultKept DEF Known, CallerSame
<1>3. reply[c] \in {NoReply} \cup GatewayReplies
  BY <1>1 DEF Known, ReplyIsKnown
<1>4. ReplyIsKnown(c)'
  BY <1>1, <1>3 DEF ReplyIsKnown
<1>5. decision[c] = Undecided /\ seen[c] = Nil
  BY <1>1 DEF Known, HandlerIsKnown
<1>6. ASSUME NEW code \in {ErrCodeInvalidRequest, ErrCodeUnsupportedGrantType}
      PROVE  /\ Denied(Reason(code)) \in Verdicts
             /\ Denied(Reason(code)) # Undecided
             /\ Denied(Reason(code)).kind # "granted"
  BY DEF Verdicts, HandlerDenials, Denied, Undecided
<1>7. CASE Receive(c)
  <2> DEFINE r == Parse(MergeForm(inbound[c].body, inbound[c].query))
  <2>1. seen'[c] = r
    BY <1>7 DEF ControlOK, Receive
  <2> HIDE DEF r
  <2>2. CASE ValidateRequest(r) = Valid
    <3>1. as'[c] = "deciding" /\ decision'[c] = Undecided
      BY <1>5, <1>7, <2>2 DEF ControlOK, Receive, r
    <3>2. QED
      BY <1>1, <1>2, <1>4, <2>1, <2>2, <3>1 DEF Known, HandlerIsKnown, r
  <2>3. CASE ValidateRequest(r) # Valid
    <3>1. PICK code \in {ErrCodeInvalidRequest, ErrCodeUnsupportedGrantType} :
            decision'[c] = Denied(Reason(code)) /\ as'[c] = "writing"
      BY <1>7, <2>3 DEF ControlOK, Receive, DenyWith, r
    <3>2. QED
      BY <1>1, <1>2, <1>4, <1>6, <2>1, <3>1 DEF Known, HandlerIsKnown, r
  <2>4. QED
    BY <2>2, <2>3
<1>8. CASE ReceiveFails(c)
  <2>1. /\ decision'[c] = Denied(Reason(ErrCodeInvalidRequest))
        /\ as'[c] = "writing" /\ seen'[c] = seen[c]
    BY <1>8 DEF ControlOK, ReceiveFails, DenyWith
  <2>2. QED
    BY <1>1, <1>2, <1>4, <1>5, <1>6, <2>1 DEF Known, HandlerIsKnown
<1>9. QED
  BY <1>7, <1>8

LEMMA AnswerKeepsKnown ==
    ASSUME ControlOK, NEW c \in Call, Known(c), HandlerStep(c) \/ Crash(c)
    PROVE  Known(c)'
<1>1. /\ CallerSame(c) /\ inbound'[c] = inbound[c] /\ seen'[c] = seen[c]
      /\ cancelled'[c] = cancelled[c]
      /\ link'[c] = "up" => link[c] = "up"
      /\ cancelled[c] \in BOOLEAN /\ as[c] # "waiting"
  BY DEF ControlOK, HandlerStep, Decide, WriteNothing, WriteHeader, WriteBody, Crash,
         CallerSame, client
<1>2. CallerIsKnown(c)' /\ RequestIsKnown(c)' /\ inbound[c] # NoRequest
  BY <1>1, CallerKept, RequestKept DEF Known, CallerSame, HandlerIsKnown
<1>3. ASSUME reply[c].whole => reply'[c] = reply[c]
      PROVE  ResultIsKnown(c)'
  BY <1>1, <1>3, ResultKept DEF Known
<1>4. CASE Decide(c)
  <2>1. /\ as[c] = "deciding" /\ as'[c] = "writing" /\ reply'[c] = reply[c]
        /\ decision'[c] \in Verdicts
    BY ZenonT(60), <1>4 DEF ControlOK, Decide, Verdicts
  <2>2. decision'[c] # Undecided
    BY <2>1 DEF Verdicts, Granted, Denied, Undecided
  <2>3. HandlerIsKnown(c)'
    BY <1>1, <1>2, <2>1, <2>2 DEF Known, HandlerIsKnown
  <2>4. ReplyIsKnown(c)'
    BY <2>1 DEF Known, ReplyIsKnown
  <2>5. QED
    BY <1>2, <1>3, <2>1, <2>3, <2>4 DEF Known
<1>5. CASE WriteNothing(c) \/ WriteHeader(c)
  <2>1. /\ as[c] = "writing" /\ decision'[c] = decision[c]
        /\ \/ as'[c] = "finished"
           \/ as'[c] = "committed" /\ Writable(decision[c])
    BY <1>5 DEF ControlOK, WriteNothing, WriteHeader
  <2>2. \/ reply'[c] = reply[c]
        \/ /\ reply[c] = NoReply /\ reply'[c] = ImplicitReply
           /\ as'[c] = "finished" /\ ~Writable(decision[c])
        \/ /\ reply[c] = NoReply /\ reply'[c] = ReplyTo(decision[c])
           /\ as'[c] = "committed" /\ Writable(decision[c])
    BY ZenonT(60), <1>5 DEF ControlOK, WriteNothing, WriteHeader, Put
  <2>3. HandlerIsKnown(c)'
    BY <1>1, <1>2, <2>1 DEF Known, HandlerIsKnown
  <2>4. reply[c].whole => reply'[c] = reply[c]
    BY <2>2 DEF NoReply
  <2>5. ReplyTo(decision[c]) = [ReplyTo(decision[c]) EXCEPT !.whole = FALSE]
    BY WritersStartWithHeaders
  <2>6. decision[c] # Undecided
    BY <2>1 DEF Known, HandlerIsKnown
  <2>7. ReplyIsKnown(c)'
    BY <2>1, <2>2, <2>5, <2>6 DEF Known, ReplyIsKnown
  <2>8. QED
    BY <1>2, <1>3, <2>3, <2>4, <2>7 DEF Known
<1>6. CASE WriteBody(c)
  <2>1. /\ as[c] = "committed" /\ as'[c] = "finished"
        /\ decision'[c] = decision[c]
    BY <1>6 DEF ControlOK, WriteBody
  <2>2. \/ reply'[c] = reply[c]
        \/ reply[c] # NoReply /\ reply'[c] = [reply[c] EXCEPT !.whole = TRUE]
    BY <1>6 DEF ControlOK, WriteBody
  <2>3. reply[c].whole => reply'[c] = reply[c]
    BY <2>2, RepliesAreRecords DEF Known
  <2>4. HandlerIsKnown(c)'
    BY <1>1, <1>2, <2>1 DEF Known, HandlerIsKnown
  <2>5. ReplyIsKnown(c)'
    <3>1. CASE reply[c] \in {NoReply} \cup GatewayReplies
      <4>1. reply[c] = NoReply \/ reply[c].whole
        BY <3>1, ExchangeAssumption
      <4>2. reply'[c] = reply[c]
        BY <2>2, <2>3, <4>1
      <4>3. QED
        BY <3>1, <4>2 DEF ReplyIsKnown
    <3>2. CASE reply[c] \in { [ReplyTo(decision[c]) EXCEPT !.whole = b] :
                                 b \in BOOLEAN }
      BY <2>1, <2>2, <3>2 DEF Known, HandlerIsKnown, ReplyIsKnown
    <3>3. QED
      BY <2>1, <3>1, <3>2 DEF Known, ReplyIsKnown
  <2>6. QED
    BY <1>2, <1>3, <2>3, <2>4, <2>5 DEF Known
<1>7. CASE Crash(c)
  <2>1. /\ as[c] \in {"deciding", "writing", "committed"} /\ as'[c] = "crashed"
        /\ decision'[c] = decision[c] /\ reply'[c] = reply[c]
    BY <1>7 DEF ControlOK, Crash
  <2>2. HandlerIsKnown(c)'
    BY <1>1, <1>2, <2>1 DEF Known, HandlerIsKnown
  <2>3. ReplyIsKnown(c)'
    BY <2>1 DEF Known, ReplyIsKnown
  <2>4. QED
    BY <1>2, <1>3, <2>1, <2>2, <2>3 DEF Known
<1>8. QED
  BY <1>4, <1>5, <1>6, <1>7 DEF HandlerStep

-----------------------------------------------------------------------------
\* The invariant is inductive.
LEMMA StepPreservesInv == Inv /\ [Next]_vars => Inv'
<1> SUFFICES ASSUME Inv, [Next]_vars PROVE Inv'
  OBVIOUS
<1>1. ControlOK /\ \A c \in Call : Known(c)
  BY DEF Inv, Known
<1>2. CASE UNCHANGED vars
  <2>1. ControlOK'
    BY <1>1, <1>2 DEF vars, client, server, ControlOK
  <2>2. ASSUME NEW c \in Call PROVE Known(c)'
    <3>1. Same(c)
      BY <1>2 DEF vars, client, server, Same
    <3>2. QED
      BY <1>1, <3>1, SameIsKnown
  <2>3. QED
    BY <2>1, <2>2 DEF Inv, Known
<1>3. CASE Next
  <2>1. PICK c \in Call : Step(c)
    BY <1>3 DEF Next, Step
  <2>2. ControlOK'
    BY <1>1, <2>1, StepKeepsControl
  <2>3. Known(c)'
    BY <1>1, <2>1, StartKeepsKnown, ClientKeepsKnown, NetworkKeepsKnown,
       ReceiveKeepsKnown, AnswerKeepsKnown
    DEF Step, Fault
  <2>4. ASSUME NEW d \in Call, d # c PROVE Known(d)'
    BY <1>1, <2>1, <2>4, OthersAreSame, SameIsKnown
  <2>5. QED
    BY <2>2, <2>3, <2>4 DEF Inv, Known
<1>4. QED
  BY <1>2, <1>3

\* The caller, the wire and the handler agree on every call, at every point of
\* every run (client.go Exchange, server_write.go, and the network between).
THEOREM Invariance == Spec => []Inv
<1>1. Init => Inv
  BY InitEstablishesInv
<1>2. Inv /\ [Next]_vars => Inv'
  BY StepPreservesInv
<1>3. QED
  BY <1>1, <1>2, PTL DEF Spec

-----------------------------------------------------------------------------
(* Everything comes to an end: nobody waits in vain, and nothing goes round  *)
(* in circles.  Together they are the safety half of EveryCallReturns.       *)

\* On a working connection a handler that has begun its reply has not crashed,
\* and one that has finished has left a complete reply behind.
AnswerIsComing(c) ==
    link[c] = "up" =>
        /\ as[c] # "crashed"
        /\ as[c] = "committed" => reply[c] # NoReply
        /\ as[c] = "finished" => reply[c].whole

\* Every page of an intermediary and of net/http is complete.
LEMMA PagesAreWhole ==
    /\ ~NoReply.whole /\ ImplicitReply.whole
    /\ \A r \in GatewayReplies : r.whole /\ r # NoReply
  BY ExchangeAssumption DEF NoReply, ImplicitReply

LEMMA RepliesHaveAStatus ==
    ASSUME NEW d
    PROVE  ReplyTo(d) # NoReply
<1>1. ReplyTo(d).status \in {200, 400, 401}
  <2>1. CASE d.kind = "granted"
    BY <2>1 DEF ReplyTo, ResponseReply
  <2>2. CASE d.kind # "granted"
    BY <2>2 DEF ReplyTo, ErrorReply, httpStatusForErrorCode
  <2>3. QED
    BY <2>1, <2>2
<1>2. NoReply.status = 0
  BY DEF NoReply
<1>3. QED
  BY <1>1, <1>2

LEMMA AnswerStaysComing ==
    ASSUME ControlOK, NEW c \in Call, Known(c), AnswerIsComing(c), Step(c)
    PROVE  AnswerIsComing(c)'
<1> USE DEF ControlOK
<1>1. CASE Reject(c) \/ Send(c) \/ Cancel(c) \/ ClientStep(c) \/ Cut(c)
  BY <1>1 DEF AnswerIsComing, Reject, Send, Cancel, Cut, ClientStep, DoFails,
     DoReturns, ReadFails, Finish, FinishTruncated, Return, client, server
<1>2. CASE Redirect(c) \/ TooManyRedirects(c)
  BY <1>2 DEF AnswerIsComing, Redirect, TooManyRedirects, Return, client, server
<1>3. CASE GatewayAnswers(c)
  <2>1. reply'[c] \in GatewayReplies /\ as' = as /\ link' = link
    BY <1>3 DEF GatewayAnswers, server
  <2>2. QED
    BY <2>1, PagesAreWhole DEF AnswerIsComing
<1>4. CASE Receive(c)
  <2>1. as'[c] \in {"deciding", "writing"}
    BY <1>4 DEF Receive
  <2>2. QED
    BY <2>1 DEF AnswerIsComing
<1>5. CASE ReceiveFails(c) \/ Decide(c)
  <2>1. as'[c] = "writing"
    BY <1>5 DEF ReceiveFails, Decide
  <2>2. QED
    BY <2>1 DEF AnswerIsComing
<1>6. CASE Crash(c)
  <2>1. link'[c] = "cut"
    BY <1>6 DEF Crash
  <2>2. QED
    BY <2>1 DEF AnswerIsComing
<1>7. CASE WriteNothing(c)
  <2>1. /\ as[c] = "writing" /\ as'[c] = "finished" /\ link' = link
        /\ reply'[c] = IF reply[c] = NoReply /\ link[c] = "up"
                       THEN ImplicitReply ELSE reply[c]
    BY <1>7 DEF WriteNothing, Put
  <2>2. reply[c] \in {NoReply} \cup GatewayReplies
    BY <2>1 DEF Known, ReplyIsKnown
  <2>3. QED
    BY <2>1, <2>2, PagesAreWhole DEF AnswerIsComing
<1>8. CASE WriteHeader(c)
  <2>1. /\ as'[c] = "committed" /\ link' = link
        /\ reply'[c] = IF reply[c] = NoReply /\ link[c] = "up"
                       THEN ReplyTo(decision[c]) ELSE reply[c]
    BY <1>8 DEF WriteHeader, Put
  <2>2. ReplyTo(decision[c]) # NoReply
    BY RepliesHaveAStatus
  <2>3. QED
    BY <2>1, <2>2 DEF AnswerIsComing
<1>9. CASE WriteBody(c)
  <2>1. /\ as[c] = "committed" /\ as'[c] = "finished" /\ link' = link
        /\ reply[c] # NoReply /\ link[c] = "up" =>
              reply'[c] = [reply[c] EXCEPT !.whole = TRUE]
    BY <1>9 DEF WriteBody
  <2>2. reply[c] # NoReply /\ link[c] = "up" => reply'[c].whole
    BY <2>1, RepliesAreRecords DEF Known
  <2>3. QED
    BY <2>1, <2>2 DEF AnswerIsComing
<1>10. QED
  BY <1>1, <1>2, <1>3, <1>4, <1>5, <1>6, <1>7, <1>8, <1>9
  DEF Step, Fault, HandlerStep

\* A call on a working connection is never left waiting by everybody: whoever
\* answered first, redirected, crashed or refused to write, its complete reply
\* is there or somebody is still to act on it.
THEOREM NobodyIsStranded == Spec => []NobodyWaitsInVain
<1> DEFINE Coming == \A c \in Call : AnswerIsComing(c)
<1>1. Init => Coming
  BY DEF Init, AnswerIsComing
<1>2. Inv /\ Coming /\ [Next]_vars => Coming'
  <2> SUFFICES ASSUME Inv, Coming, [Next]_vars PROVE Coming'
    OBVIOUS
  <2>1. ControlOK /\ \A c \in Call : Known(c)
    BY DEF Inv, Known
  <2>2. CASE UNCHANGED vars
    BY <2>2 DEF vars, server, AnswerIsComing
  <2>3. CASE Next
    <3>1. PICK c \in Call : Step(c)
      BY <2>3 DEF Next, Step
    <3>2. AnswerIsComing(c)'
      BY <2>1, <3>1, AnswerStaysComing
    <3>3. ASSUME NEW d \in Call, d # c PROVE AnswerIsComing(d)'
      BY ZenonT(60), <2>1, <3>1, <3>3, OthersAreSame DEF Same, AnswerIsComing
    <3>4. QED
      BY <3>2, <3>3
  <2>4. QED
    BY <2>2, <2>3
<1>3. Inv /\ Coming => NobodyWaitsInVain
  <2> SUFFICES ASSUME Inv, Coming, NEW c \in Call,
                      pc[c] \in {"sending", "reading"}, link[c] = "up"
               PROVE  \/ reply[c].whole
                      \/ as[c] = "waiting" /\ inbound[c] # NoRequest
                      \/ as[c] \in {"deciding", "writing", "committed"}
    BY DEF NobodyWaitsInVain
  <2>1. inbound[c] # NoRequest
    BY DEF Inv, CallerIsKnown
  <2>2. as[c] \in {"waiting", "deciding", "writing", "committed",
                   "finished", "crashed"}
    BY DEF Inv, ControlOK
  <2>3. QED
    BY <2>1, <2>2 DEF AnswerIsComing
<1>4. QED
  BY <1>1, <1>2, <1>3, Invariance, PTL DEF Spec

\* The three kinds of steps left are natural numbers.
LEMMA StepsLeftAreCounted ==
    ASSUME ControlOK, NEW c \in Call, Known(c)
    PROVE  /\ CallerStepsLeft(c) \in 0..(MaxRedirects + 3)
           /\ pc[c] = "sending" => CallerStepsLeft(c) >= 2
           /\ HandlerStepsLeft(c) \in 0..4
<1>1. pc[c] \in {"idle", "sending", "reading", "done"}
  BY DEF ControlOK
<1>2. inbound[c] # NoRequest => inbound[c].redirects \in 0..MaxRedirects
  BY DEF Known, RequestIsKnown
<1>3. pc[c] = "sending" => inbound[c].redirects \in 0..MaxRedirects
  BY <1>2 DEF Known, CallerIsKnown
<1>4. HandlerStepsLeft(c) \in 0..4
  BY DEF HandlerStepsLeft
<1>5. QED
  BY <1>1, <1>3, <1>4, RedirectsAreBounded DEF CallerStepsLeft

\* A step brings the call it is a step of nearer to its end.
LEMMA StepsCount ==
    ASSUME ControlOK, NEW c \in Call, Known(c), Step(c)
    PROVE  StepsLeft(c)' \in 0..StepsLeft(c) /\ StepsLeft(c)' # StepsLeft(c)
<1> DEFINE u  == CallerStepsLeft(c)
           u1 == CallerStepsLeft(c)'
           h  == HandlerStepsLeft(c)
           h1 == HandlerStepsLeft(c)'
           x  == OneIf(~cancelled[c])
           x1 == OneIf(~cancelled'[c])
           l  == OneIf(link[c] = "up")
           l1 == OneIf(link'[c] = "up")
           n  == OneIf(reply[c] = NoReply)
           n1 == OneIf(reply'[c] = NoReply)
<1>1. /\ u \in Nat /\ (pc[c] = "sending" => u >= 2) /\ h \in Nat
      /\ {x, l, n} \subseteq {0, 1}
  BY StepsLeftAreCounted, RedirectsAreBounded DEF OneIf
<1>2. /\ (pc'[c] = pc[c] /\ inbound'[c] = inbound[c] => u1 = u)
      /\ (pc'[c] = "done" => u1 = 0) /\ (pc'[c] = "reading" => u1 = 1)
      /\ (pc[c] \in {"idle", "reading"} => u # 0)
  <2>1. pc'[c] = pc[c] /\ inbound'[c] = inbound[c] => u1 = u
    BY DEF CallerStepsLeft
  <2>2. (pc'[c] = "done" => u1 = 0) /\ (pc'[c] = "reading" => u1 = 1)
    BY DEF CallerStepsLeft
  <2>3. pc[c] \in {"idle", "reading"} => u # 0
    BY RedirectsAreBounded DEF CallerStepsLeft
  <2>4. QED
    BY <2>1, <2>2, <2>3
<1>3. /\ (as'[c] = as[c] => h1 = h)
      /\ (cancelled'[c] = cancelled[c] => x1 = x)
      /\ (link'[c] = link[c] => l1 = l)
      /\ (reply'[c] = reply[c] => n1 = n)
      /\ n1 \in {0, 1} /\ (reply[c] # NoReply => n = 0)
      /\ (reply'[c] # NoReply => n1 = 0)
  BY DEF HandlerStepsLeft, OneIf
<1> DEFINE Less == /\ u1 \in 0..u /\ h1 \in 0..h /\ x1 \in 0..x /\ l1 \in 0..l
                   /\ n1 \in 0..n
                   /\ u1 # u \/ h1 # h \/ x1 # x \/ l1 # l \/ n1 # n
<1>4. ASSUME Less
      PROVE  StepsLeft(c)' \in 0..StepsLeft(c) /\ StepsLeft(c)' # StepsLeft(c)
  <2>1. StepsLeft(c) = u + h + x + l + n
    BY DEF StepsLeft
  <2>2. StepsLeft(c)' = u1 + h1 + x1 + l1 + n1
    BY DEF StepsLeft
  <2> HIDE DEF u, h, x, l, n, u1, h1, x1, l1, n1
  <2>3. QED
    BY <1>1, <1>4, <2>1, <2>2
<1> HIDE DEF u, h, x, l, n, u1, h1, x1, l1, n1
<1>5. CASE Reject(c) \/ DoFails(c) \/ ReadFails(c) \/ Finish(c) \/ FinishTruncated(c)
  <2>1. /\ pc[c] \in {"idle", "sending", "reading"} /\ pc'[c] = "done"
        /\ as' = as /\ cancelled' = cancelled /\ link' = link /\ reply' = reply
    BY <1>5 DEF ControlOK, Reject, DoFails, ReadFails, Finish, FinishTruncated,
       Return, server
  <2>2. QED
    BY <1>1, <1>2, <1>3, <1>4, <2>1
<1>6. CASE Send(c)
  <2>1. /\ pc[c] = "idle" /\ pc'[c] = "sending" /\ inbound'[c].redirects = 0
        /\ as' = as /\ cancelled' = cancelled /\ link' = link /\ reply' = reply
    BY <1>6 DEF ControlOK, Send, server
  <2>2. u = MaxRedirects + 3 /\ u1 = MaxRedirects + 2
    BY <2>1, RedirectsAreBounded DEF CallerStepsLeft, u, u1
  <2>3. QED
    BY <1>1, <1>3, <1>4, <2>1, <2>2, RedirectsAreBounded
<1>7. CASE DoReturns(c)
  <2>1. /\ pc[c] = "sending" /\ pc'[c] = "reading"
        /\ as' = as /\ cancelled' = cancelled /\ link' = link /\ reply' = reply
    BY <1>7 DEF ControlOK, DoReturns, server
  <2>2. QED
    BY <1>1, <1>2, <1>3, <1>4, <2>1
<1>8. CASE Cancel(c) \/ Cut(c)
  <2>1. /\ pc' = pc /\ inbound' = inbound /\ as' = as /\ reply' = reply
        /\ \/ /\ ~cancelled[c] /\ cancelled'[c] /\ link' = link
           \/ /\ link[c] = "up" /\ link'[c] = "cut" /\ cancelled' = cancelled
    BY <1>8 DEF ControlOK, Cancel, Cut, client, server
  <2>2. \/ x1 = 0 /\ x = 1 /\ l1 = l
        \/ l1 = 0 /\ l = 1 /\ x1 = x
    BY <2>1 DEF OneIf, x, x1, l, l1
  <2>3. QED
    BY <1>1, <1>2, <1>3, <1>4, <2>1, <2>2
<1>9. CASE Redirect(c)
  <2>1. /\ pc[c] = "sending" /\ pc' = pc
        /\ inbound'[c].redirects = inbound[c].redirects + 1
        /\ inbound[c].redirects < MaxRedirects
        /\ as' = as /\ cancelled' = cancelled /\ link' = link /\ reply' = reply
    <3>1. PICK body, query :
            inbound' = [inbound EXCEPT ![c] =
               [body |-> body, query |-> query,
                redirects |-> inbound[c].redirects + 1]]
      BY <1>9 DEF Redirect
    <3>2. QED
      BY <1>9, <3>1 DEF ControlOK, Redirect, client, server
  <2>2. inbound[c].redirects \in 0..MaxRedirects
    BY <2>1 DEF Known, CallerIsKnown, RequestIsKnown
  <2>3. u1 \in 0..u /\ u1 # u
    BY <2>1, <2>2, RedirectsAreBounded DEF CallerStepsLeft, u, u1
  <2>4. QED
    BY <1>1, <1>3, <1>4, <2>1, <2>3
<1>10. CASE TooManyRedirects(c)
  <2>1. /\ pc[c] = "sending" /\ pc'[c] = "done"
        /\ as' = as /\ cancelled' = cancelled /\ link' = link /\ reply' = reply
    BY <1>10 DEF ControlOK, TooManyRedirects, Return, server
  <2>2. QED
    BY <1>1, <1>2, <1>3, <1>4, <2>1
<1>11. CASE GatewayAnswers(c)
  <2>1. /\ pc' = pc /\ inbound' = inbound /\ as' = as /\ cancelled' = cancelled
        /\ link' = link /\ reply[c] = NoReply /\ reply'[c] \in GatewayReplies
    BY <1>11 DEF ControlOK, GatewayAnswers, client, server
  <2>2. n1 = 0 /\ n = 1
    BY <2>1, PagesAreWhole DEF OneIf, n, n1
  <2>3. QED
    BY <1>1, <1>2, <1>3, <1>4, <2>1, <2>2
<1>12. CASE Receive(c) \/ ReceiveFails(c) \/ HandlerStep(c) \/ Crash(c)
  <2>1. /\ pc' = pc /\ inbound' = inbound /\ cancelled' = cancelled
    BY <1>12 DEF Receive, ReceiveFails, HandlerStep, Decide, WriteNothing,
       WriteHeader, WriteBody, Crash, client
  <2>2. link'[c] = link[c] \/ link'[c] = "cut"
    BY <1>12 DEF ControlOK, Receive, ReceiveFails, HandlerStep, Decide,
       WriteNothing, WriteHeader, WriteBody, Crash
  <2>3. reply'[c] = NoReply => reply[c] = NoReply
    <3>1. CASE Receive(c) \/ ReceiveFails(c) \/ Decide(c) \/ Crash(c)
      BY <3>1 DEF Receive, ReceiveFails, Decide, Crash
    <3>2. CASE WriteNothing(c) \/ WriteHeader(c)
      BY <3>2, PagesAreWhole, RepliesHaveAStatus
      DEF ControlOK, WriteNothing, WriteHeader, Put
    <3>3. CASE WriteBody(c)
      <4>1. \/ reply'[c] = reply[c]
            \/ reply'[c] = [reply[c] EXCEPT !.whole = TRUE]
        BY <3>3 DEF ControlOK, WriteBody
      <4>2. [reply[c] EXCEPT !.whole = TRUE].whole
        BY RepliesAreRecords DEF Known
      <4>3. QED
        BY <4>1, <4>2, PagesAreWhole
    <3>4. QED
      BY <1>12, <3>1, <3>2, <3>3 DEF HandlerStep
  <2>4. h1 \in 0..h /\ h1 # h
    <3>1. \/ as[c] = "waiting" /\ as'[c] \in {"deciding", "writing"}
          \/ as[c] = "deciding" /\ as'[c] \in {"writing", "crashed"}
          \/ as[c] = "writing" /\ as'[c] \in {"committed", "finished", "crashed"}
          \/ as[c] = "committed" /\ as'[c] \in {"finished", "crashed"}
      <4>1. CASE Receive(c) \/ ReceiveFails(c)
        BY <4>1 DEF ControlOK, Receive, ReceiveFails
      <4>2. CASE HandlerStep(c) \/ Crash(c)
        BY <4>2 DEF ControlOK, HandlerStep, Decide, WriteNothing, WriteHeader,
           WriteBody, Crash
      <4>3. QED
        BY <1>12, <4>1, <4>2
    <3>2. /\ as[c] = "waiting" => h = 4
          /\ as[c] = "deciding" => h = 3
          /\ as[c] = "writing" => h = 2
          /\ as[c] = "committed" => h = 1
      BY DEF HandlerStepsLeft, h
    <3>3. /\ as'[c] = "deciding" => h1 = 3
          /\ as'[c] = "writing" => h1 = 2
          /\ as'[c] = "committed" => h1 = 1
          /\ as'[c] \in {"finished", "crashed"} => h1 = 0
      BY DEF HandlerStepsLeft, h1
    <3>4. \/ h = 4 /\ h1 \in {3, 2}
          \/ h = 3 /\ h1 \in {2, 0}
          \/ h = 2 /\ h1 \in {1, 0}
          \/ h = 1 /\ h1 = 0
      <4>1. CASE as[c] = "waiting"
        BY <4>1, <3>1, <3>2, <3>3
      <4>2. CASE as[c] = "deciding"
        BY <4>2, <3>1, <3>2, <3>3
      <4>3. CASE as[c] = "writing"
        BY <4>3, <3>1, <3>2, <3>3
      <4>4. CASE as[c] = "committed"
        BY <4>4, <3>1, <3>2, <3>3
      <4>5. QED
        BY <4>1, <4>2, <4>3, <4>4, <3>1
    <3>5. QED
      BY <3>4
  <2>5. l1 \in 0..l /\ n1 \in 0..n
    BY <1>1, <2>2, <2>3 DEF OneIf, l, l1, n, n1
  <2>6. QED
    BY <1>1, <1>2, <1>3, <1>4, <2>1, <2>4, <2>5
<1>13. QED
  BY <1>5, <1>6, <1>7, <1>8, <1>9, <1>10, <1>11, <1>12
  DEF Step, ClientStep, Fault

\* No step of any call, fault or late answer is without end: each brings its call
\* nearer to its end and no other further from it, so that n calls take at most
\* n * (MaxRedirects + 10) steps together.
THEOREM NothingGoesInCircles == Spec => EveryStepIsProgress
<1> DEFINE Nearer == /\ \A c \in Call : StepsLeft(c)' \in 0..StepsLeft(c)
                     /\ \E c \in Call : StepsLeft(c)' # StepsLeft(c)
<1>1. Inv /\ [Next]_vars => [Nearer]_vars
  <2> SUFFICES ASSUME Inv, Next PROVE Nearer
    OBVIOUS
  <2>1. ControlOK /\ \A c \in Call : Known(c)
    BY DEF Inv, Known
  <2>2. PICK c \in Call : Step(c)
    BY DEF Next, Step
  <2>3. StepsLeft(c)' \in 0..StepsLeft(c) /\ StepsLeft(c)' # StepsLeft(c)
    BY <2>1, <2>2, StepsCount
  <2>4. ASSUME NEW d \in Call, d # c PROVE StepsLeft(d)' \in 0..StepsLeft(d)
    <3>1. Same(d)
      BY <2>1, <2>2, <2>4, OthersAreSame
    <3>2. StepsLeft(d)' = StepsLeft(d)
      BY <3>1 DEF Same, StepsLeft, CallerStepsLeft, HandlerStepsLeft
    <3>3. StepsLeft(d) \in Nat
      BY <2>1, StepsLeftAreCounted, RedirectsAreBounded DEF StepsLeft, OneIf
    <3>4. QED
      BY <3>2, <3>3
  <2>5. QED
    BY <2>3, <2>4
<1>2. QED
  BY <1>1, Invariance, PTL DEF Spec, EveryStepIsProgress

-----------------------------------------------------------------------------
(* Two hypotheses on what surrounds the library, without which the answer  *)
(* of a call may not be that of the AS: the divergences null and folded.   *)

\* No intermediary answers in the name of the AS.
OpaquePages == \A r \in GatewayReplies : IsOpaque(r)

\* The policy uses no Extra name that folds onto that of a built-in.
GrantsAreApart == \A r \in Grants : r # Nil => ExtraIsApart(r)

\* The reply that the writers send for a decision.
Answer(d) == [ReplyTo(d) EXCEPT !.whole = TRUE]

LEMMA DenialsAreErrors ==
    \A e \in Denials \cup HandlerDenials : e # Nil => e \in TokenExchangeError
<1>1. ASSUME NEW e \in HandlerDenials PROVE e \in TokenExchangeError
  <2>1. PICK code \in {ErrCodeInvalidRequest, ErrCodeUnsupportedGrantType} :
          e = [Code |-> code, Description |-> "", URI |-> ""]
    BY DEF HandlerDenials, Reason
  <2>2. code \in Str /\ "" \in Str
    BY StrAssumption
  <2>3. QED
    BY <2>1, <2>2 DEF TokenExchangeError
<1>2. QED
  BY <1>1, ExchangeAssumption

\* What is told as a token or as a protocol error stands complete in one reply:
\* a page of an intermediary, or the answer to what the handler of that very
\* call decided and could write.
AnswersHaveASource ==
    \A c \in Call : result[c].kind \in {"success", "refused"} =>
        \/ \E page \in GatewayReplies : result[c] = Classify(page)
        \/ /\ decision[c] # Undecided /\ Writable(decision[c])
           /\ result[c] = Classify(Answer(decision[c]))

\* Whatever intermediaries say and whatever the policy grants, no token and no
\* error code is put together from a part of a reply or from the empty reply of a
\* handler that wrote nothing or died (client.go:121-147).
THEOREM NothingIsMadeUp == Spec => []AnswersHaveASource
<1>1. Inv => AnswersHaveASource
  <2> SUFFICES ASSUME Inv, NEW c \in Call,
                      result[c].kind \in {"success", "refused"}
               PROVE  \/ \E page \in GatewayReplies : result[c] = Classify(page)
                      \/ /\ decision[c] # Undecided /\ Writable(decision[c])
                         /\ result[c] = Classify(Answer(decision[c]))
    BY DEF AnswersHaveASource
  <2>1. result[c] \notin {Pending} \cup Failure
    BY FailuresAreResults
  <2>2. reply[c].whole /\ result[c] = Classify(reply[c])
    BY <2>1 DEF Inv, ResultIsKnown
  <2>3. CASE reply[c] \in {NoReply, ImplicitReply}
    <3>1. reply[c] = ImplicitReply
      BY <2>2, <2>3 DEF NoReply
    <3>2. ~ResponseDecodes(Malformed)
      BY DEF ResponseDecodes, Malformed, NullBody
    <3>3. Classify(ImplicitReply) \in Failure
      BY <3>2 DEF ImplicitReply, Classify, ClassifySuccess, Failure
    <3>4. QED
      BY <2>1, <2>2, <3>1, <3>3
  <2>4. CASE reply[c] \in GatewayReplies
    BY <2>2, <2>4
  <2>5. CASE /\ decision[c] # Undecided /\ Writable(decision[c])
             /\ reply[c] \in { [ReplyTo(decision[c]) EXCEPT !.whole = b] :
                                 b \in BOOLEAN }
    <3>1. reply[c] = Answer(decision[c])
      BY <2>2, <2>5 DEF Answer, ReplyTo, ResponseReply, ErrorReply
    <3>2. QED
      BY <2>2, <2>5, <3>1
  <2>6. QED
    BY <2>3, <2>4, <2>5 DEF Inv, ReplyIsKnown
<1>2. QED
  BY <1>1, Invariance, PTL

\* A denial is read as the denial.
LEMMA DenialsTell ==
    ASSUME NEW d \in Verdicts, Writable(d), d.kind # "granted"
    PROVE  Classify(Answer(d)) = Refused(ErrorArrives(d.err))
<1>1. PICK e \in Denials \cup HandlerDenials : d = Denied(e)
  BY DEF Verdicts, Granted, Denied
<1>2. d.err = e /\ e.Code # ""
  BY <1>1 DEF Denied, Writable, ErrorWritable
<1>3. e \in TokenExchangeError
  BY <1>1, DenialsAreErrors DEF Denied, Writable, ErrorWritable
<1>4. /\ ErrorDecodes(MarshalError(e))
      /\ UnmarshalError(MarshalError(e)) = ErrorArrives(e)
  BY <1>3, ErrorRoundTrips
<1>5. e.Code \in Str /\ ErrorArrives(e).Code # ""
  BY <1>2, <1>3, JsonAssumption DEF TokenExchangeError, ErrorArrives
<1>6. /\ Answer(d).status \in {400, 401} /\ Answer(d).json = TRUE
      /\ Answer(d).body = MarshalError(e)
  <2>1. /\ Answer(d).status = httpStatusForErrorCode(e.Code)
        /\ Answer(d).json = TRUE
        /\ Answer(d).body = MarshalError(e)
    <3>1. ReplyTo(d) = ErrorReply(e)
      BY <1>2 DEF ReplyTo
    <3>2. /\ Answer(d).status = ErrorReply(e).status
          /\ Answer(d).json = ErrorReply(e).json
          /\ Answer(d).body = ErrorReply(e).body
      BY <3>1 DEF Answer, ErrorReply
    <3>3. QED
      BY <3>2 DEF ErrorReply
  <2>2. httpStatusForErrorCode(e.Code) \in {400, 401}
    BY DEF httpStatusForErrorCode
  <2>3. QED
    BY <2>1, <2>2
<1>7. Classify(Answer(d)) = Refused(ErrorArrives(e))
  <2>1. ClassifyError(Answer(d)) = Refused(ErrorArrives(e))
    <3>1. /\ ErrorDecodes(Answer(d).body)
          /\ UnmarshalError(Answer(d).body) = ErrorArrives(e)
          /\ UnmarshalError(Answer(d).body).Code # ""
      <4>1. Answer(d).body = MarshalError(e)
        BY <1>6
      <4>2. QED
        BY <1>4, <1>5, <4>1, Zenon
    <3>2. QED
      BY <1>6, <3>1, Zenon DEF ClassifyError
  <2>2. CASE Answer(d).status = 400
    BY <2>1, <2>2 DEF Classify
  <2>3. CASE Answer(d).status = 401
    BY <2>1, <2>3 DEF Classify
  <2>4. QED
    BY <1>6, <2>2, <2>3
<1>8. QED
  BY <1>2, <1>7

\* A grant is read as the grant, a denial as the denial.
LEMMA AnswersTell ==
    ASSUME GrantsAreApart, NEW d \in Verdicts, Writable(d)
    PROVE  Classify(Answer(d)) \in Telling(d)
<1>1. CASE d.kind = "granted"
  <2>1. PICK r \in Grants : d = Granted(r)
    BY <1>1 DEF Verdicts, Granted, Denied
  <2>2. d.resp = r /\ ResponseWritable(r)
    BY <1>1, <2>1 DEF Granted, Writable
  <2>3. r # Nil
    BY <2>2 DEF ResponseWritable, ValidateResponse, Valid
  <2>4. r \in TokenExchangeResponse /\ ExtraIsApart(r)
    BY <2>3, ExchangeAssumption DEF GrantsAreApart
  <2>5. /\ ResponseDecodes(MarshalResponse(r))
        /\ UnmarshalResponse(MarshalResponse(r)) = Arrives(r)
    BY <2>4, ResponseRoundTrips
  <2>6. Answer(d).status = 200 /\ Answer(d).body = MarshalResponse(r)
    BY <1>1, <2>2 DEF Answer, ReplyTo, ResponseReply
  <2>7. Classify(Answer(d)) = Success(Arrives(r))
    BY <2>5, <2>6 DEF Classify, ClassifySuccess
  <2>8. QED
    BY <1>1, <2>2, <2>7 DEF Telling
<1>2. CASE d.kind # "granted"
  BY <1>2, DenialsTell DEF Telling
<1>3. QED
  BY <1>1, <1>2

\* A complete reply is a failure, or the answer to what the handler decided.
LEMMA RepliesTell ==
    ASSUME OpaquePages, GrantsAreApart, NEW c, Known(c), reply[c].whole
    PROVE  \/ Classify(reply[c]) \in Failure
           \/ /\ decision[c] # Undecided /\ Writable(decision[c])
              /\ reply[c] = Answer(decision[c])
              /\ Classify(reply[c]) \in Telling(decision[c])
<1>1. CASE reply[c] \in {NoReply, ImplicitReply}
  <2>1. reply[c] = ImplicitReply
    BY <1>1 DEF NoReply
  <2>2. ~ResponseDecodes(Malformed)
    BY DEF ResponseDecodes, Malformed, NullBody
  <2>3. QED
    BY <2>1, <2>2 DEF ImplicitReply, Classify, ClassifySuccess, Failure
<1>2. CASE reply[c] \in GatewayReplies
  BY <1>2, OpaqueFails DEF OpaquePages
<1>3. CASE /\ as[c] \in {"committed", "finished", "crashed"}
           /\ decision[c] # Undecided /\ Writable(decision[c])
           /\ reply[c] \in { [ReplyTo(decision[c]) EXCEPT !.whole = b] :
                               b \in BOOLEAN }
  <2>1. reply[c] = Answer(decision[c])
    BY <1>3 DEF Answer, ReplyTo, ResponseReply, ErrorReply
  <2>2. decision[c] \in Verdicts
    BY <1>3 DEF Known, HandlerIsKnown
  <2>3. QED
    BY <1>3, <2>1, <2>2, AnswersTell
<1>4. QED
  BY <1>1, <1>2, <1>3 DEF Known, ReplyIsKnown

\* What a call returned is a failure, or tells what its handler decided.
LEMMA ResultsTell ==
    ASSUME OpaquePages, GrantsAreApart, NEW c, Known(c),
           result[c] \notin {Pending} \cup Failure
    PROVE  /\ decision[c] \in Verdicts /\ Writable(decision[c])
           /\ reply[c] = Answer(decision[c])
           /\ result[c] \in Telling(decision[c])
<1>1. reply[c].whole /\ result[c] = Classify(reply[c])
  BY DEF Known, ResultIsKnown
<1>2. QED
  BY <1>1, RepliesTell DEF Known, HandlerIsKnown

\* A success is the valid response that the AS issued for the call, whatever is
\* lost, cut, cancelled, retried or redirected on the way.
THEOREM SuccessfulCallsHoldTheGrant ==
    ASSUME OpaquePages, GrantsAreApart
    PROVE  Spec => []SuccessIsTheGrant
<1>1. Inv => SuccessIsTheGrant
  <2> SUFFICES ASSUME Inv, NEW c \in Call, result[c].kind = "success"
               PROVE  /\ decision[c].kind = "granted"
                      /\ ValidateResponse(decision[c].resp) = Valid
                      /\ result[c].resp = Arrives(decision[c].resp)
    BY DEF SuccessIsTheGrant
  <2>1. result[c] \notin {Pending} \cup Failure
    BY FailuresAreResults
  <2>2. Writable(decision[c]) /\ result[c] \in Telling(decision[c])
    BY <2>1, ResultsTell DEF Inv, Known
  <2>3. decision[c].kind = "granted" /\ result[c] = Success(Arrives(decision[c].resp))
    BY <2>2 DEF Telling, Refused
  <2>4. QED
    BY <2>2, <2>3 DEF Success, Writable, ResponseWritable
<1>2. QED
  BY <1>1, Invariance, PTL

\* A *TokenExchangeError is the one the AS denied the call with, and came with
\* the status of its code.
THEOREM RefusedCallsHoldTheDenial ==
    ASSUME OpaquePages, GrantsAreApart
    PROVE  Spec => []RefusalIsTheDenial
<1>1. Inv => RefusalIsTheDenial
  <2> SUFFICES ASSUME Inv, NEW c \in Call, result[c].kind = "refused"
               PROVE  /\ decision[c].kind = "denied"
                      /\ result[c].err = ErrorArrives(decision[c].err)
                      /\ reply[c].status =
                            IF result[c].err.Code = ErrCodeInvalidClient
                            THEN 401 ELSE 400
    BY DEF RefusalIsTheDenial
  <2>1. result[c] \notin {Pending} \cup Failure
    BY FailuresAreResults
  <2>2. /\ decision[c] \in Verdicts /\ result[c] \in Telling(decision[c])
        /\ reply[c] = Answer(decision[c]) /\ Writable(decision[c])
    BY <2>1, ResultsTell DEF Inv, Known
  <2>3. /\ decision[c].kind # "granted"
        /\ result[c] = Refused(ErrorArrives(decision[c].err))
    BY <2>2 DEF Telling, Success
  <2>4. PICK e \in Denials \cup HandlerDenials : decision[c] = Denied(e)
    BY <2>2, <2>3 DEF Verdicts, Granted
  <2>5. decision[c].kind = "denied" /\ decision[c].err = e
    BY <2>4 DEF Denied
  <2>6. e.Code \in Str
    <3>1. e # Nil
      BY <2>2, <2>3, <2>5 DEF Writable, ErrorWritable
    <3>2. QED
      BY <2>4, <3>1, DenialsAreErrors DEF TokenExchangeError
  <2>7. reply[c].status = httpStatusForErrorCode(e.Code)
    BY <2>2, <2>3, <2>5 DEF Answer, ReplyTo, ErrorReply
  <2>8. result[c].err.Code = ToUTF8[e.Code]
    BY <2>3, <2>5 DEF Refused, ErrorArrives
  <2>9. result[c].err.Code = ErrCodeInvalidClient <=>
            e.Code = ErrCodeInvalidClient
    BY <2>6, <2>8, JsonAssumption
  <2>10. result[c].err = ErrorArrives(decision[c].err)
    BY <2>3 DEF Refused
  <2>11. QED
    BY <2>5, <2>7, <2>9, <2>10 DEF httpStatusForErrorCode
<1>2. QED
  BY <1>1, Invariance, PTL

\* Every decision that the handler could write is reported as what it is, unless
\* a cut, a cancellation or an intermediary came between.
THEOREM DecisionsAreReported ==
    ASSUME GrantsAreApart
    PROVE  Spec => []DecisionIsReported
<1>1. Inv => DecisionIsReported
  <2> SUFFICES ASSUME Inv, NEW c \in Call,
                      pc[c] = "done", link[c] = "up", ~cancelled[c],
                      decision[c] # Undecided, Writable(decision[c]),
                      reply[c] \notin GatewayReplies
               PROVE  result[c].kind = IF decision[c].kind = "granted"
                                       THEN "success" ELSE "refused"
    BY DEF DecisionIsReported
  <2>1. Known(c)
    BY DEF Inv, Known
  <2>2. decision[c] \in Verdicts /\ inbound[c] # NoRequest
    BY <2>1 DEF Known, HandlerIsKnown
  <2>3. Asked(c)
    BY <2>1, <2>2 DEF Known, RequestIsKnown
  <2>4. reply[c].whole /\ result[c] = Classify(reply[c])
    BY <2>1, <2>2, <2>3 DEF Known, ResultIsKnown
  <2>5. reply[c] \in { [ReplyTo(decision[c]) EXCEPT !.whole = b] : b \in BOOLEAN }
    BY <2>1, <2>4, PagesAreWhole DEF Known, ReplyIsKnown
  <2>6. reply[c] = Answer(decision[c])
    BY <2>4, <2>5 DEF Answer, ReplyTo, ResponseReply, ErrorReply
  <2>7. result[c] \in Telling(decision[c])
    BY <2>2, <2>4, <2>6, AnswersTell
  <2>8. QED
    BY <2>7 DEF Telling, Success, Refused
<1>2. QED
  BY <1>1, Invariance, PTL

-----------------------------------------------------------------------------
(* Under which hypotheses the code does what its documentation says, where *)
(* the runs null and folded show that it does not always.          *)

\* A success passes Validate, even though Exchange does not call it, when
\* 2xx replies with a JSON body come from the AS and its policy keeps to names
\* of its own (client.go:127-132, response_validate.go:25-27).
THEOREM TokensAreUsable ==
    ASSUME OpaquePages, GrantsAreApart
    PROVE  Spec => []SuccessIsValid
<1>1. Inv /\ SuccessIsTheGrant => SuccessIsValid
  <2> SUFFICES ASSUME Inv, SuccessIsTheGrant,
                      NEW c \in Call, result[c].kind = "success"
               PROVE  ValidateResponse(result[c].resp) = Valid
    BY DEF SuccessIsValid
  <2>1. /\ decision[c].kind = "granted"
        /\ ValidateResponse(decision[c].resp) = Valid
        /\ result[c].resp = Arrives(decision[c].resp)
    BY DEF SuccessIsTheGrant
  <2>2. decision[c] \in {Undecided} \cup Verdicts
    BY DEF Inv, HandlerIsKnown
  <2>3. PICK r \in Grants : decision[c] = Granted(r)
    BY <2>1, <2>2 DEF Verdicts, Denied, Undecided
  <2>4. decision[c].resp = r
    BY <2>3 DEF Granted
  <2>5. r \in TokenExchangeResponse
    <3>1. r # Nil
      BY <2>1, <2>4 DEF ValidateResponse, Valid
    <3>2. QED
      BY <3>1, ExchangeAssumption
  <2>6. QED
    BY <2>1, <2>4, <2>5, ArrivesValid
<1>2. QED
  BY <1>1, Invariance, SuccessfulCallsHoldTheGrant, PTL

\* Under the same hypotheses the scope that a caller reads is the one that the
\* policy set, never an Extra entry (response_codec.go:54-56).
THEOREM ScopesAreTheGrants ==
    ASSUME OpaquePages, GrantsAreApart
    PROVE  Spec => []ExtraNeverBackfills
<1>1. SuccessIsTheGrant => ExtraNeverBackfills
  <2> SUFFICES ASSUME SuccessIsTheGrant,
                      NEW c \in Call, result[c].kind = "success"
               PROVE  result[c].resp.Scope = ToUTF8[decision[c].resp.Scope]
    BY DEF ExtraNeverBackfills
  <2>1. result[c].resp = Arrives(decision[c].resp)
    BY DEF SuccessIsTheGrant
  <2>2. QED
    BY <2>1 DEF Arrives
<1>2. QED
  BY <1>1, SuccessfulCallsHoldTheGrant, PTL

-----------------------------------------------------------------------------
(* Exchange implements ExchangePromise. *)

LEMMA InitKeepsPromise == Init => Promise!Init
<1> SUFFICES ASSUME Init PROVE Promise!Init
  OBVIOUS
<1>1. { c \in Call : Asked(c) } = {}
  BY DEF Init, Asked
<1>2. decision = [c \in Call |-> Undecided] /\ result = [c \in Call |-> Pending]
  BY DEF Init
<1>3. QED
  BY <1>1, <1>2 DEF Promise!Init

\* A step that keeps pc, arg, endpoint, result and decision is none of the promise.
LEMMA StutterKeepsPromise ==
    ASSUME \A d \in Call : Asked(d)' = Asked(d),
           result' = result, decision' = decision
    PROVE  UNCHANGED Promise!vars
  BY DEF Promise!vars

\* Every step of a call is one of the promise, or none.
LEMMA StepKeepsPromise ==
    ASSUME OpaquePages, GrantsAreApart, Inv, NEW c \in Call, Step(c)
    PROVE  Promise!Next \/ UNCHANGED Promise!vars
<1>1. ControlOK /\ Known(c)
  BY DEF Inv, Known
<1>2. \A d \in Call \ {c} : Asked(d)' = Asked(d)
  <2>1. ASSUME NEW d \in Call \ {c} PROVE Same(d)
    BY <1>1, OthersAreSame
  <2>2. QED
    BY <2>1 DEF Same, Asked
<1>3. CASE Send(c)
  <2>1. ~Asked(c) /\ Asked(c)' /\ result[c] = Pending
    <3>1. PICK r \in Requests : ValidateRequest(r) = Valid
                                  /\ arg' = [arg EXCEPT ![c] = r]
      BY <1>3 DEF Send
    <3>2. QED
      BY <1>1, <1>3, <3>1 DEF Send, Asked, ControlOK, Known, CallerIsKnown
  <2>2. Promise!Ask(c)
    BY <1>2, <1>3, <2>1 DEF Send, Promise!Ask, server
  <2>3. QED
    BY <2>2 DEF Promise!Next
<1>4. ASSUME Asked(c)' = Asked(c), decision' = decision,
             pc[c] # "done", result' = [result EXCEPT ![c] = result'[c]],
             result'[c] \in Failure
      PROVE  Promise!Next
  <2>1. result[c] = Pending
    BY <1>1, <1>4 DEF Known, CallerIsKnown
  <2>2. Promise!Fail(c)
    BY <1>2, <1>4, <2>1 DEF Promise!Fail
  <2>3. QED
    BY <2>2 DEF Promise!Next
<1>5. ASSUME Asked(c)' = Asked(c), decision' = decision, result' = result
      PROVE  UNCHANGED Promise!vars
  BY <1>2, <1>5, StutterKeepsPromise
<1>6. CASE Reject(c)
  <2>1. PICK r \in Requests :
          /\ endpoint # "usable" \/ ValidateRequest(r) # Valid
          /\ arg' = [arg EXCEPT ![c] = r]
          /\ Return(c, Failed(
                IF endpoint = "" THEN "not_configured"
                ELSE IF ValidateRequest(r) # Valid THEN "not_valid"
                ELSE "build_request"))
    BY <1>6 DEF Reject
  <2>2. ~Asked(c) /\ ~Asked(c)' /\ pc[c] = "idle" /\ decision' = decision
    BY <1>1, <1>6, <2>1 DEF Reject, Asked, ControlOK, server
  <2>3. result' = [result EXCEPT ![c] = result'[c]] /\ result'[c] \in Failure
    BY <1>1, <2>1 DEF ControlOK, Return, Failure
  <2>4. Asked(c)' = Asked(c)
    BY <2>2 DEF Asked
  <2>5. QED
    BY <1>4, <2>2, <2>3, <2>4
<1>7. CASE DoFails(c) \/ ReadFails(c) \/ TooManyRedirects(c)
  <2>1. /\ pc[c] \in {"sending", "reading"} /\ decision' = decision
        /\ pc'[c] = "done" /\ arg' = arg /\ endpoint' = endpoint
        /\ result' = [result EXCEPT ![c] = result'[c]] /\ result'[c] \in Failure
    BY <1>1, <1>7
    DEF ControlOK, DoFails, ReadFails, TooManyRedirects, Return, Failure, server
  <2>2. Asked(c)' = Asked(c)
    BY <2>1 DEF Asked
  <2>3. QED
    BY <1>4, <2>1, <2>2
<1>8. CASE Finish(c) \/ FinishTruncated(c)
  <2>1. /\ pc[c] = "reading" /\ decision' = decision
        /\ pc'[c] = "done" /\ arg' = arg /\ endpoint' = endpoint
        /\ result' = [result EXCEPT ![c] = result'[c]]
        /\ \/ reply[c].whole /\ result'[c] = Classify(reply[c])
           \/ result'[c] = Classify(Truncated(reply[c]))
    BY <1>1, <1>8 DEF ControlOK, Finish, FinishTruncated, Return, server
  <2>2. Asked(c)' = Asked(c) /\ Asked(c) /\ result[c] = Pending
    BY <1>1, <2>1 DEF Asked, Known, CallerIsKnown
  <2>3. CASE result'[c] \in Failure
    BY <1>4, <2>1, <2>2, <2>3
  <2>4. CASE result'[c] \notin Failure
    <3>1. reply[c].whole /\ result'[c] = Classify(reply[c])
      BY <1>1, <2>1, <2>4, RepliesAreRecords, TruncatedFails DEF Known
    <3>2. decision[c] # Undecided /\ result'[c] \in Telling(decision[c])
      BY <1>1, <2>4, <3>1, RepliesTell
    <3>3. Promise!Tell(c)
      BY <1>2, <2>1, <2>2, <3>2 DEF Promise!Tell
    <3>4. QED
      BY <3>3 DEF Promise!Next
  <2>5. QED
    BY <2>3, <2>4
<1>9. CASE DoReturns(c) \/ Cancel(c) \/ Cut(c) \/ Redirect(c) \/ GatewayAnswers(c)
  <2>1. /\ decision' = decision /\ result' = result
        /\ pc[c] # "idle" /\ pc'[c] # "idle"
        /\ arg' = arg /\ endpoint' = endpoint
    BY <1>1, <1>9 DEF ControlOK, DoReturns, Cancel, Cut, Redirect, GatewayAnswers,
       client, server
  <2>2. Asked(c)' = Asked(c)
    BY <2>1 DEF Asked
  <2>3. QED
    BY <1>5, <2>1, <2>2
<1>10. CASE WriteNothing(c) \/ WriteHeader(c) \/ WriteBody(c) \/ Crash(c)
  <2>1. decision' = decision /\ result' = result /\ Asked(c)' = Asked(c)
    BY <1>10 DEF WriteNothing, WriteHeader, WriteBody, Crash, client, Asked
  <2>2. QED
    BY <1>5, <2>1
<1>11. CASE Receive(c) \/ ReceiveFails(c) \/ Decide(c)
  <2>1. result' = result /\ Asked(c)' = Asked(c)
    BY <1>11 DEF Receive, ReceiveFails, Decide, client, Asked
  <2>2. /\ as[c] \in {"waiting", "deciding"}
        /\ \/ decision' = decision
           \/ \E v \in Verdicts : decision' = [decision EXCEPT ![c] = v]
    BY <1>11 DEF Receive, ReceiveFails, Decide, DenyWith, Verdicts, HandlerDenials
  <2>3. inbound[c] # NoRequest
    <3>1. CASE Receive(c)
      BY <3>1 DEF Receive
    <3>2. CASE ReceiveFails(c)
      BY <3>2 DEF ReceiveFails, NoRequest
    <3>3. CASE Decide(c)
      BY <1>1, <3>3 DEF Decide, Known, HandlerIsKnown
    <3>4. QED
      BY <1>11, <3>1, <3>2, <3>3
  <2>4. Asked(c) /\ decision[c] = Undecided
    BY <1>1, <2>2, <2>3 DEF Known, HandlerIsKnown, RequestIsKnown
  <2>5. CASE decision' = decision
    BY <1>5, <2>1, <2>5
  <2>6. CASE \E v \in Verdicts : decision' = [decision EXCEPT ![c] = v]
    <3>1. Promise!Decide(c)
      BY <1>2, <2>1, <2>4, <2>6 DEF Promise!Decide
    <3>2. QED
      BY <3>1 DEF Promise!Next
  <2>7. QED
    BY <2>2, <2>5, <2>6
<1>12. QED
  BY <1>3, <1>6, <1>7, <1>8, <1>9, <1>10, <1>11
  DEF Step, ClientStep, HandlerStep, Fault

\* A call is answered at most once, with a failure or with the verdict the AS
\* reached on that very call.
THEOREM PromiseIsKept ==
    ASSUME OpaquePages, GrantsAreApart
    PROVE  Spec => KeepsPromise
<1>1. Init => Promise!Init
  BY InitKeepsPromise
<1>2. Inv /\ [Next]_vars => [Promise!Next]_Promise!vars
  <2> SUFFICES ASSUME Inv, [Next]_vars PROVE [Promise!Next]_Promise!vars
    OBVIOUS
  <2>1. CASE UNCHANGED vars
    BY <2>1, StutterKeepsPromise DEF vars, client, server, Asked
  <2>2. CASE Next
    <3>1. PICK c \in Call : Step(c)
      BY <2>2 DEF Next, Step
    <3>2. QED
      BY <3>1, StepKeepsPromise
  <2>3. QED
    BY <2>1, <2>2
<1>3. QED
  BY <1>1, <1>2, Invariance, PTL DEF Spec, KeepsPromise, Promise!Spec

-----------------------------------------------------------------------------
(* What the AS sees. *)

\* A request that was sent is one of the caller's that passed Validate.
LEMMA AskedIsRequest ==
    ASSUME Inv, NEW c \in Call, Asked(c)
    PROVE  arg[c] \in TokenExchangeRequest
<1>1. arg[c] \in Requests \cup {Nil} /\ arg[c] # Nil
  BY DEF Inv, ControlOK, Asked, ValidateRequest, Valid
<1>2. QED
  BY <1>1, ExchangeAssumption

\* What a handler parsed is made of the request that came in.
LEMMA SeenIsInbound ==
    ASSUME Inv, NEW c \in Call, seen[c] # Nil
    PROVE  /\ inbound[c] # NoRequest /\ arg[c] \in TokenExchangeRequest
           /\ ValidateRequest(arg[c]) = Valid
           /\ inbound[c].body \in {Encode(arg[c]), NoForm}
           /\ inbound[c].query \in {EndpointQuery} \cup RedirectQueries
           /\ seen[c] = Parse(MergeForm(inbound[c].body, inbound[c].query))
<1>1. /\ inbound[c] # NoRequest
      /\ seen[c] = Parse(MergeForm(inbound[c].body, inbound[c].query))
  BY DEF Inv, HandlerIsKnown
<1>2. /\ Asked(c)
      /\ inbound[c].body \in {Encode(arg[c]), NoForm}
      /\ inbound[c].query \in {EndpointQuery} \cup RedirectQueries
  BY <1>1 DEF Inv, RequestIsKnown
<1>3. arg[c] \in TokenExchangeRequest /\ ValidateRequest(arg[c]) = Valid
  BY <1>2, AskedIsRequest DEF Asked
<1>4. QED
  BY <1>1, <1>2, <1>3

\* Nothing merged with a form is that form.
LEMMA NoBodyAddsNothing ==
    ASSUME NEW f, IsForm(f) PROVE MergeForm(NoForm, f) = f
<1>1. ASSUME NEW p \in Param PROVE MergeForm(NoForm, f)[p] = f[p]
  <2> DEFINE S == IF p = ParamScope THEN ScopeString ELSE Str
  <2>1. f[p] \in Seq(S)
    BY DEF IsForm
  <2>2. MergeForm(NoForm, f)[p] = <<>> \o f[p]
    BY DEF MergeForm, NoForm
  <2> HIDE DEF S
  <2>3. QED
    BY <2>1, <2>2, ConcatEmptySeq
<1>2. MergeForm(NoForm, f) = [p \in Param |-> MergeForm(NoForm, f)[p]]
  BY DEF MergeForm
<1>3. f = [p \in Param |-> f[p]]
  BY DEF IsForm
<1>4. QED
  BY <1>1, <1>2, <1>3

\* A request that no redirect stripped, and that ends at a URL without a query,
\* reaches the handler with the caller's meaning, and valid.
THEOREM RequestsReachTheAS == Spec => []ASSeesTheCaller
<1>1. Inv => ASSeesTheCaller
  <2> SUFFICES ASSUME Inv, NEW c \in Call, seen[c] # Nil,
                      inbound[c].body # NoForm, inbound[c].query = NoForm
               PROVE  seen[c] = Meaning(arg[c]) /\ ValidateRequest(seen[c]) = Valid
    BY DEF ASSeesTheCaller
  <2>1. /\ arg[c] \in TokenExchangeRequest /\ ValidateRequest(arg[c]) = Valid
        /\ seen[c] = Parse(MergeForm(Encode(arg[c]), NoForm))
    BY SeenIsInbound
  <2>2. seen[c] = Meaning(arg[c])
    BY <2>1, RequestRoundTrips
  <2>3. /\ seen[c].GrantType = arg[c].GrantType
        /\ seen[c].SubjectToken = arg[c].SubjectToken
        /\ seen[c].SubjectTokenType = arg[c].SubjectTokenType
        /\ seen[c].RequestedTokenType = arg[c].RequestedTokenType
        /\ seen[c].ActorToken = arg[c].ActorToken
        /\ seen[c].ActorTokenType = arg[c].ActorTokenType
    BY <2>1, <2>2, MeaningKeeps
  <2>4. ValidateRequest(seen[c]) = ValidateRequest(arg[c])
    <3>1. arg[c] # Nil
      BY <2>1 DEF ValidateRequest, Valid
    <3>2. QED
      BY <2>3, <3>1 DEF ValidateRequest
  <2>5. QED
    BY <2>1, <2>2, <2>4
<1>2. QED
  BY <1>1, Invariance, PTL

\* No query, neither the endpoint's nor that of a Location, displaces what the
\* caller said.
THEOREM TheCallerWins == Spec => []CallerWins
<1>1. Inv => CallerWins
  <2> SUFFICES ASSUME Inv, NEW c \in Call, seen[c] # Nil, inbound[c].body # NoForm
               PROVE  Prevails(Meaning(arg[c]), seen[c])
    BY DEF CallerWins
  <2>1. PICK q \in {EndpointQuery} \cup RedirectQueries :
          /\ arg[c] \in TokenExchangeRequest
          /\ seen[c] = Parse(MergeForm(Encode(arg[c]), q))
    BY SeenIsInbound
  <2>2. IsForm(q)
    BY ExchangeAssumption
  <2>3. QED
    BY <2>1, <2>2, QueryComesSecond
<1>2. QED
  BY <1>1, Invariance, PTL

\* A request that is granted still has the caller's body, unless a redirect led
\* to a whole request of its own.
LEMMA GrantedIsEncoded ==
    ASSUME Inv, NEW c \in Call, decision[c].kind = "granted", ~Replaced(c)
    PROVE  /\ arg[c] \in TokenExchangeRequest /\ IsForm(inbound[c].query)
           /\ ValidateRequest(seen[c]) = Valid
           /\ seen[c] = Parse(MergeForm(Encode(arg[c]), inbound[c].query))
<1>1. ValidateRequest(seen[c]) = Valid
  BY DEF Inv, HandlerIsKnown
<1>2. seen[c] # Nil
  BY <1>1 DEF ValidateRequest, Valid
<1>3. /\ arg[c] \in TokenExchangeRequest
      /\ inbound[c].body \in {Encode(arg[c]), NoForm}
      /\ inbound[c].query \in {EndpointQuery} \cup RedirectQueries
      /\ seen[c] = Parse(MergeForm(inbound[c].body, inbound[c].query))
  BY <1>2, SeenIsInbound
<1>4. IsForm(inbound[c].query)
  BY <1>3, ExchangeAssumption
<1>5. inbound[c].body # NoForm
  <2> SUFFICES ASSUME inbound[c].body = NoForm PROVE FALSE
    OBVIOUS
  <2>1. seen[c] = Parse(inbound[c].query)
    BY <1>3, <1>4, NoBodyAddsNothing
  <2>2. QED
    BY <1>1, <2>1 DEF Replaced
<1>6. QED
  BY <1>1, <1>3, <1>4, <1>5

\* However a request was redirected, and whatever query each Location has, a
\* token is issued for what the caller asked, and for exactly that when the last
\* URL has no query; only a Location that spells out a whole request can take
\* the place of a request that lost its body.
THEOREM TokensAreGrantedAsAsked == Spec => []GrantedAsAsked
<1>1. Inv => GrantedAsAsked
  <2> SUFFICES ASSUME Inv, NEW c \in Call, decision[c].kind = "granted", ~Replaced(c)
               PROVE  IF inbound[c].query = NoForm THEN seen[c] = Meaning(arg[c])
                      ELSE Prevails(Meaning(arg[c]), seen[c])
    BY DEF GrantedAsAsked
  <2>1. CASE inbound[c].query = NoForm
    BY <2>1, GrantedIsEncoded, RequestRoundTrips
  <2>2. CASE inbound[c].query # NoForm
    BY <2>2, GrantedIsEncoded, QueryComesSecond
  <2>3. QED
    BY <2>1, <2>2
<1>2. QED
  BY <1>1, Invariance, PTL

-----------------------------------------------------------------------------
(* Types: Inv says what requests, forms and replies are made of, and what   *)
(* the codec makes has the type it should have.                             *)

Body == [json : {"malformed", "null", "other"}] \cup
        [json : {"object"},
         members : Seq([name : Name, value : JsonValue \cup {Absent}])]

LEMMA RepliesAreTyped ==
    ASSUME NEW status \in Nat, NEW json \in BOOLEAN, NEW body \in Body,
           NEW whole \in BOOLEAN
    PROVE  [status |-> status, json |-> json, body |-> body, whole |-> whole]
             \in Reply
  BY DEF Reply, Body

LEMMA AnswerIsTyped ==
    ASSUME NEW d \in Verdicts, Writable(d), NEW b \in BOOLEAN
    PROVE  [ReplyTo(d) EXCEPT !.whole = b] \in Reply
<1>1. \E status \in Nat, json \in BOOLEAN, body \in Body, whole \in BOOLEAN :
        ReplyTo(d) = [status |-> status, json |-> json, body |-> body,
                      whole |-> whole]
  <2>1. CASE \E r \in Grants : d = Granted(r)
    <3>1. PICK r \in Grants : d = Granted(r)
      BY <2>1
    <3>2. ReplyTo(d) = ResponseReply(r) /\ ResponseWritable(r)
      BY <3>1 DEF ReplyTo, Writable, Granted
    <3>3. r \in TokenExchangeResponse
      <4>1. r # Nil
        BY <3>2 DEF ResponseWritable, ValidateResponse, Valid
      <4>2. QED
        BY <4>1, ExchangeAssumption
    <3>4. MarshalResponse(r) \in Body
      BY <3>2, <3>3, ResponseIsObject DEF ResponseWritable, Body
    <3>5. 200 \in Nat
      OBVIOUS
    <3>6. QED
      BY <3>2, <3>4, <3>5 DEF ResponseReply
  <2>2. CASE \E e \in Denials \cup HandlerDenials : d = Denied(e)
    <3>1. PICK e \in Denials \cup HandlerDenials : d = Denied(e)
      BY <2>2
    <3>2. ReplyTo(d) = ErrorReply(e) /\ e # Nil
      BY <3>1 DEF ReplyTo, Denied, Writable, ErrorWritable
    <3>3. MarshalError(e) \in Body
      BY <3>2, DenialsAreErrors, ErrorIsObject DEF Body
    <3>4. httpStatusForErrorCode(e.Code) \in Nat
      BY DEF httpStatusForErrorCode
    <3>5. QED
      BY <3>2, <3>3, <3>4 DEF ErrorReply
  <2>3. QED
    BY <2>1, <2>2 DEF Verdicts
<1>2. PICK status \in Nat, json \in BOOLEAN, body \in Body, whole \in BOOLEAN :
        ReplyTo(d) = [status |-> status, json |-> json, body |-> body,
                      whole |-> whole]
  BY <1>1
<1>3. [ReplyTo(d) EXCEPT !.whole = b]
        = [status |-> status, json |-> json, body |-> body, whole |-> b]
  BY <1>2
<1>4. QED
  BY <1>3, RepliesAreTyped

LEMMA ReplyIsTyped ==
    ASSUME Inv, NEW c \in Call PROVE reply[c] \in Reply
<1>1. ReplyIsKnown(c) /\ decision[c] \in {Undecided} \cup Verdicts
  BY DEF Inv, HandlerIsKnown
<1>2. CASE reply[c] \in {NoReply, ImplicitReply}
  <2>1. Malformed \in Body
    BY DEF Malformed, Body
  <2>2. NoReply \in Reply /\ ImplicitReply \in Reply
    BY ZenonT(60), <2>1, RepliesAreTyped DEF NoReply, ImplicitReply
  <2>3. QED
    BY <1>2, <2>2
<1>3. CASE reply[c] \in GatewayReplies
  BY <1>3, ExchangeAssumption
<1>4. CASE /\ decision[c] # Undecided /\ Writable(decision[c])
           /\ reply[c] \in { [ReplyTo(decision[c]) EXCEPT !.whole = b] :
                                b \in BOOLEAN }
  BY <1>1, <1>4, AnswerIsTyped
<1>5. QED
  BY <1>1, <1>2, <1>3, <1>4 DEF ReplyIsKnown

LEMMA RequestIsTyped ==
    ASSUME Inv, NEW c \in Call
    PROVE  /\ IsHttpRequest(inbound[c])
           /\ seen[c] \in TokenExchangeRequest \cup {Nil}
<1>1. /\ IsForm(NoForm)
      /\ \A q \in {EndpointQuery} \cup RedirectQueries : IsForm(q)
  BY NoFormIsForm, ExchangeAssumption
<1>2. CASE inbound[c] = NoRequest
  <2>1. 0 \in 0..MaxRedirects
    BY RedirectsAreBounded
  <2>2. IsHttpRequest(inbound[c])
    BY <1>1, <1>2, <2>1 DEF NoRequest, IsHttpRequest
  <2>3. seen[c] = Nil
    BY <1>2 DEF Inv, HandlerIsKnown
  <2>4. QED
    BY <2>2, <2>3
<1>3. CASE inbound[c] # NoRequest
  <2>1. /\ Asked(c)
        /\ inbound[c] = [body |-> inbound[c].body, query |-> inbound[c].query,
                         redirects |-> inbound[c].redirects]
        /\ inbound[c].body \in {Encode(arg[c]), NoForm}
        /\ inbound[c].query \in {EndpointQuery} \cup RedirectQueries
        /\ inbound[c].redirects \in 0..MaxRedirects
    BY <1>3 DEF Inv, RequestIsKnown
  <2>2. IsForm(Encode(arg[c]))
    BY <2>1, AskedIsRequest, EncodedIsForm
  <2>3. IsForm(inbound[c].body) /\ IsForm(inbound[c].query)
    BY <1>1, <2>1, <2>2
  <2>4. Parse(MergeForm(inbound[c].body, inbound[c].query))
          \in TokenExchangeRequest
    BY <2>3, MergedIsForm, ParseIsRequest
  <2>5. IsHttpRequest(inbound[c])
    BY <2>1, <2>3 DEF IsHttpRequest
  <2>6. QED
    BY <2>4, <2>5 DEF Inv, HandlerIsKnown
<1>4. QED
  BY <1>2, <1>3

\* Every HTTP request is made of forms, every reply is one that net/http can
\* send, what a handler parses is a TokenExchangeRequest, and what it decides a
\* response or an error (client.go:91-151, request_parse.go:37-80,
\* server_write.go:37-104).
THEOREM TypeCorrectness == Spec => []TypeOK
<1>1. Inv => TypeOK
  <2> SUFFICES ASSUME Inv PROVE TypeOK
    OBVIOUS
  <2>1. ControlOK
    BY DEF Inv
  <2>2. ASSUME NEW c \in Call
        PROVE  result[c].kind \in {"pending", "success", "refused", "failed"}
    <3>1. result[c] \in {Pending} \cup Failure \/ result[c] = Classify(reply[c])
      BY DEF Inv, ResultIsKnown
    <3>2. Classify(reply[c]).kind \in {"success", "refused", "failed"}
      BY DEF Classify, ClassifySuccess, ClassifyError, Success, Refused, Failed
    <3>3. \A f \in {Pending} \cup Failure : f.kind \in {"pending", "failed"}
      BY DEF Pending, Failure, Failed
    <3>4. QED
      BY <3>1, <3>2, <3>3
  <2>3. ASSUME NEW c \in Call
        PROVE  decision[c] \in {Undecided} \cup Verdicts
    BY DEF Inv, HandlerIsKnown
  <2>4. QED
    BY <2>1, <2>2, <2>3, ReplyIsTyped, RequestIsTyped DEF TypeOK
<1>2. QED
  BY <1>1, Invariance, PTL

-----------------------------------------------------------------------------
(* What a call returns, whatever pages intermediaries send.                *)

LEMMA ObjectsHaveMembers ==
    ASSUME NEW r \in Reply, r.body.json = "object"
    PROVE  r.body.members \in Members
<1>1. r.body \in Body
  BY DEF Reply, Body
<1>2. r.body \in [json : {"object"},
                  members : Seq([name : Name, value : JsonValue \cup {Absent}])]
  BY <1>1 DEF Body
<1>3. QED
  BY <1>2 DEF Members

\* A success is a decoded 2xx body, a protocol error a decoded 4xx body with a
\* code.
LEMMA ErrorsAreDecoded ==
    ASSUME NEW r
    PROVE  \/ \E why : ClassifyError(r) = Failed(why)
           \/ /\ ErrorDecodes(r.body) /\ UnmarshalError(r.body).Code # ""
              /\ ClassifyError(r) = Refused(UnmarshalError(r.body))
  BY Zenon DEF ClassifyError

LEMMA AnswersAreDecoded ==
    ASSUME NEW r
    PROVE  /\ Classify(r).kind = "success" =>
                 /\ ResponseDecodes(r.body)
                 /\ Classify(r) = Success(UnmarshalResponse(r.body))
           /\ Classify(r).kind = "refused" =>
                 /\ ErrorDecodes(r.body)
                 /\ Classify(r) = ClassifyError(r)
                 /\ ClassifyError(r) = Refused(UnmarshalError(r.body))
<1>1. \A x : Failed(x).kind = "failed" /\ Success(x).kind = "success"
               /\ Refused(x).kind = "refused"
  BY DEF Failed, Success, Refused
<1>2. /\ ClassifyError(r).kind # "success"
      /\ ClassifyError(r).kind = "refused" =>
            /\ ErrorDecodes(r.body)
            /\ ClassifyError(r) = Refused(UnmarshalError(r.body))
  <2>1. CASE \E why : ClassifyError(r) = Failed(why)
    BY <1>1, <2>1
  <2>2. CASE /\ ErrorDecodes(r.body)
             /\ ClassifyError(r) = Refused(UnmarshalError(r.body))
    BY <1>1, <2>2
  <2>3. QED
    BY <2>1, <2>2, ErrorsAreDecoded, Zenon
<1>3. \/ \E why : Classify(r) = Failed(why)
      \/ Classify(r) = ClassifyError(r)
      \/ /\ ResponseDecodes(r.body)
         /\ Classify(r) = Success(UnmarshalResponse(r.body))
  BY DEF Classify, ClassifySuccess
<1>4. QED
  BY <1>1, <1>2, <1>3

\* A token response is one that the caller can hand on, and a protocol error has a
\* code.
ResultsAreTyped ==
    \A c \in Call :
        /\ result[c].kind = "success" =>
              /\ result[c].resp \in TokenExchangeResponse
              /\ Marshalable(merged(result[c].resp))
        /\ result[c].kind = "refused" =>
              /\ result[c].err \in TokenExchangeError
              /\ result[c].err.Code # ""

\* Whatever page stands in for the reply of the AS, with members of any kind,
\* any case and any number of duplicates: a success is a TokenExchangeResponse
\* that MarshalJSON accepts, and no *TokenExchangeError is without a code
\* (client.go:124-150, response_codec.go:62-104).
THEOREM ResultsCanBeHandedOn == Spec => []ResultsAreTyped
<1>1. Inv => ResultsAreTyped
  <2> SUFFICES ASSUME Inv, NEW c \in Call
               PROVE  /\ result[c].kind = "success" =>
                            /\ result[c].resp \in TokenExchangeResponse
                            /\ Marshalable(merged(result[c].resp))
                      /\ result[c].kind = "refused" =>
                            /\ result[c].err \in TokenExchangeError
                            /\ result[c].err.Code # ""
    BY DEF ResultsAreTyped
  <2> DEFINE body == reply[c].body
  <2>1. /\ result[c].kind \in {"success", "refused"} =>
              result[c] = Classify(reply[c])
        /\ reply[c] \in Reply
    <3>1. result[c].kind \in {"success", "refused"} =>
              result[c] \notin {Pending} \cup Failure
      BY FailuresAreResults
    <3>2. QED
      BY <3>1, ReplyIsTyped DEF Inv, ResultIsKnown
  <2>2. body.json = "object" => body.members \in Members
    BY <2>1, ObjectsHaveMembers
  <2>3. ASSUME result[c].kind = "success"
        PROVE  /\ result[c].resp \in TokenExchangeResponse
               /\ Marshalable(merged(result[c].resp))
    <3>1. Classify(reply[c]).kind = "success"
      BY <2>1, <2>3
    <3>2. /\ ResponseDecodes(body)
          /\ Classify(reply[c]) = Success(UnmarshalResponse(body))
      BY <3>1, AnswersAreDecoded
    <3>3. result[c].resp = UnmarshalResponse(body)
      BY <2>1, <2>3, <3>2 DEF Success
    <3>4. body = NullBody \/ body.members \in Members
      BY <2>2, <3>2 DEF ResponseDecodes
    <3>5. QED
      BY <3>2, <3>3, <3>4, DecodedResponsesAreTyped
  <2>4. ASSUME result[c].kind = "refused"
        PROVE  /\ result[c].err \in TokenExchangeError
               /\ result[c].err.Code # ""
    <3>1. Classify(reply[c]).kind = "refused"
      BY <2>1, <2>4
    <3>2. /\ ErrorDecodes(body)
          /\ Classify(reply[c]) = ClassifyError(reply[c])
          /\ ClassifyError(reply[c]) = Refused(UnmarshalError(body))
      BY <3>1, AnswersAreDecoded
    <3>3. UnmarshalError(body).Code # ""
      <4>1. \A why : ClassifyError(reply[c]) # Failed(why)
        BY <3>2 DEF Failed, Refused
      <4>2. QED
        BY <4>1, ErrorsAreDecoded, Zenon
    <3>4. result[c].err = UnmarshalError(body)
      BY <2>1, <2>4, <3>2 DEF Refused
    <3>5. body = NullBody \/ body.members \in Members
      BY <2>2, <3>2 DEF ErrorDecodes
    <3>6. QED
      BY <3>2, <3>3, <3>4, <3>5, DecodedErrorsAreTyped, Zenon
  <2>5. QED
    BY <2>3, <2>4
<1>2. QED
  BY <1>1, Invariance, PTL

\* Who was not asked does not reply: the inductive step.
UnsentGetNoReply ==
    \A c \in Call : inbound[c] = NoRequest => reply[c] = NoReply

LEMMA StepKeepsUnsent ==
    ASSUME Inv, UnsentGetNoReply, [Next]_vars
    PROVE  UnsentGetNoReply'
<1>1. ControlOK /\ \A c \in Call : Known(c)
  BY DEF Inv, Known
<1>2. CASE UNCHANGED vars
  BY <1>2 DEF vars, UnsentGetNoReply
<1>3. CASE Next
  <2>1. PICK c \in Call : Step(c)
    BY <1>3 DEF Next, Step
  <2>2. /\ pc[c] = "idle" => inbound[c] = NoRequest
        /\ pc[c] = "sending" => inbound[c] # NoRequest
        /\ as[c] # "waiting" => inbound[c] # NoRequest
        /\ inbound[c] = NoRequest => reply[c] = NoReply
    BY <1>1 DEF Known, CallerIsKnown, RequestIsKnown, HandlerIsKnown, Asked,
       UnsentGetNoReply
  <2>3. inbound'[c] = NoRequest => reply'[c] = NoReply
    <3>1. CASE Reject(c) \/ Cancel(c) \/ ClientStep(c)
      BY <2>2, <3>1 DEF Reject, Cancel, ClientStep, DoFails, DoReturns, ReadFails,
         Finish, FinishTruncated
    <3>2. CASE Send(c)
      BY <2>2, <3>2 DEF Send
    <3>3. CASE Receive(c)
      BY <2>2, <3>3 DEF Receive
    <3>4. CASE HandlerStep(c)
      <4>1. CASE Decide(c)
        BY <2>2, <4>1 DEF Decide
      <4>2. CASE WriteNothing(c) \/ WriteHeader(c) \/ WriteBody(c)
        BY <2>2, <4>2 DEF WriteNothing, WriteHeader, WriteBody
      <4>3. QED
        BY <3>4, <4>1, <4>2 DEF HandlerStep
    <3>5. CASE Fault(c)
      <4>1. CASE Cut(c) \/ ReceiveFails(c) \/ Crash(c)
        BY <2>2, <4>1 DEF Cut, ReceiveFails, Crash
      <4>2. CASE Redirect(c) \/ TooManyRedirects(c)
        BY <4>2 DEF Redirect, TooManyRedirects
      <4>3. CASE GatewayAnswers(c)
        BY <2>2, <4>3 DEF GatewayAnswers
      <4>4. QED
        BY <3>5, <4>1, <4>2, <4>3 DEF Fault
    <3>6. QED
      BY <2>1, <3>1, <3>2, <3>3, <3>4, <3>5 DEF Step
  <2>4. ASSUME NEW d \in Call, d # c
        PROVE  inbound'[d] = NoRequest => reply'[d] = NoReply
    BY <1>1, <2>1, <2>4, OthersAreSame DEF Same, UnsentGetNoReply
  <2>5. QED
    BY <2>3, <2>4 DEF UnsentGetNoReply
<1>4. QED
  BY <1>2, <1>3

\* The JSON errors of intermediaries, if they have a code, are well made.
PagesAreWellMade ==
    \A page \in GatewayReplies :
        page.status \in 400..499 /\ page.json /\ page.body.json = "object" =>
            IsWellMade(page.body)

LEMMA FailuresAreClassified ==
    \A r : r.status \in 400..499 => Classify(r) = ClassifyError(r)
  BY DEF Classify

\* Where the run mistyped shows that a code may be lost with a badly typed
\* member, this says that nothing else loses one: if the JSON errors of
\* intermediaries are well made, an undisturbed call with a coded 4xx reply
\* returns a *TokenExchangeError.  The AS's own errors need no hypothesis
\* (client.go:83-86, client.go:134-150, server_write.go:79-104).
THEOREM CodesAreReported ==
    ASSUME PagesAreWellMade
    PROVE  Spec => []CodedErrorIsTyped
<1>1. Init => UnsentGetNoReply
  BY DEF Init, UnsentGetNoReply
<1>2. Inv /\ UnsentGetNoReply => CodedErrorIsTyped
  <2> SUFFICES ASSUME Inv, UnsentGetNoReply, NEW c \in Call,
                      result[c].kind = "failed", pc[c] = "done",
                      link[c] = "up", ~cancelled[c],
                      reply[c].status \in 400..499, reply[c].json,
                      reply[c].body.json = "object",
                      \E i \in DOMAIN reply[c].body.members :
                         /\ reply[c].body.members[i].name = "error"
                         /\ reply[c].body.members[i].value.kind = "string"
               PROVE  FALSE
    BY DEF CodedErrorIsTyped
  <2>1. reply[c] \notin {NoReply, ImplicitReply}
    BY DEF NoReply, ImplicitReply
  <2>2. Known(c) /\ inbound[c] # NoRequest
    BY <2>1 DEF Inv, Known, UnsentGetNoReply
  <2>3. reply[c].whole /\ result[c] = Classify(reply[c])
    BY <2>2 DEF Known, RequestIsKnown, ResultIsKnown
  <2>4. Classify(reply[c]) = ClassifyError(reply[c])
    BY FailuresAreClassified, Zenon
  <2>5. CASE reply[c] \in GatewayReplies
    <3>1. IsWellMade(reply[c].body)
      BY <2>5 DEF PagesAreWellMade
    <3>2. reply[c].body.members \in Members
      BY ReplyIsTyped, ObjectsHaveMembers
    <3>3. ErrorDecodes(reply[c].body) /\ UnmarshalError(reply[c].body).Code # ""
      BY <3>1, <3>2, CodesAreRead, Zenon
    <3>4. Classify(reply[c]) = Refused(UnmarshalError(reply[c].body))
      BY <2>4, <3>3, Zenon DEF ClassifyError
    <3>5. QED
      BY <2>3, <3>4 DEF Refused
  <2>6. CASE /\ decision[c] # Undecided /\ Writable(decision[c])
             /\ reply[c] \in { [ReplyTo(decision[c]) EXCEPT !.whole = b] :
                                  b \in BOOLEAN }
    <3>1. reply[c] = Answer(decision[c])
      BY <2>3, <2>6 DEF Answer, ReplyTo, ResponseReply, ErrorReply
    <3>2. decision[c] \in Verdicts
      BY <2>2, <2>6 DEF Known, HandlerIsKnown
    <3>3. decision[c].kind # "granted"
      <4>1. ASSUME decision[c].kind = "granted" PROVE FALSE
        <5>1. Answer(decision[c]).status = 200
          BY <4>1 DEF Answer, ReplyTo, ResponseReply
        <5>2. QED
          BY <3>1, <5>1
      <4>2. QED
        BY <4>1
    <3>4. Classify(reply[c]) = Refused(ErrorArrives(decision[c].err))
      BY <2>6, <3>1, <3>2, <3>3, DenialsTell
    <3>5. QED
      BY <2>3, <3>4 DEF Refused
  <2>7. QED
    BY <2>1, <2>2, <2>5, <2>6 DEF Known, ReplyIsKnown
<1>3. Inv /\ UnsentGetNoReply /\ [Next]_vars => UnsentGetNoReply'
  BY StepKeepsUnsent
<1>4. QED
  BY <1>1, <1>2, <1>3, Invariance, PTL DEF Spec

-----------------------------------------------------------------------------
(* Each call by itself: what Alone says is what Exchange says.  First its    *)
(* operators on values, which do not depend on the calls: they are the same. *)

LEMMA AloneHasTheNames ==
    /\ Alone!Valid = Valid
    /\ Alone!GrantTypeTokenExchange = GrantTypeTokenExchange
    /\ Alone!ErrCodeInvalidRequest = ErrCodeInvalidRequest
    /\ Alone!ErrCodeInvalidClient = ErrCodeInvalidClient
    /\ Alone!ErrCodeUnsupportedGrantType = ErrCodeUnsupportedGrantType
    /\ Alone!ParamGrantType = ParamGrantType
    /\ Alone!Param = Param
    /\ Alone!Name = Name
    /\ Alone!stringFields = stringFields
    /\ Alone!builtinResponseFields = builtinResponseFields
    /\ Alone!errorFields = errorFields
  BY DEF Alone!Valid, Valid, Alone!GrantTypeTokenExchange,
     GrantTypeTokenExchange, Alone!ErrCodeInvalidRequest,
     ErrCodeInvalidRequest, Alone!ErrCodeInvalidClient, ErrCodeInvalidClient,
     Alone!ErrCodeUnsupportedGrantType, ErrCodeUnsupportedGrantType,
     Alone!Param, Param, Alone!builtinRequestParams, builtinRequestParams,
     Alone!ParamGrantType, ParamGrantType, Alone!ParamResource, ParamResource,
     Alone!ParamAudience, ParamAudience, Alone!ParamScope, ParamScope,
     Alone!ParamRequestedTokenType, ParamRequestedTokenType,
     Alone!ParamSubjectToken, ParamSubjectToken, Alone!ParamSubjectTokenType,
     ParamSubjectTokenType, Alone!ParamActorToken, ParamActorToken,
     Alone!ParamActorTokenType, ParamActorTokenType, Alone!Name, Name,
     Alone!builtinResponseFields, builtinResponseFields, Alone!stringFields,
     stringFields, Alone!errorFields, errorFields, Alone!FieldAccessToken,
     FieldAccessToken, Alone!FieldIssuedTokenType, FieldIssuedTokenType,
     Alone!FieldTokenType, FieldTokenType, Alone!FieldScope, FieldScope,
     Alone!FieldRefreshToken, FieldRefreshToken, Alone!FieldExpiresIn,
     FieldExpiresIn

LEMMA AloneHasTheValues ==
    /\ Alone!NoReply = NoReply /\ Alone!NoRequest = NoRequest
    /\ Alone!Pending = Pending /\ Alone!Undecided = Undecided
    /\ Alone!ImplicitReply = ImplicitReply /\ Alone!NoForm = NoForm
    /\ Alone!NullBody = NullBody
    /\ Alone!Null = Null /\ Alone!Absent = Absent /\ Alone!Invalid = Invalid
    /\ \A r : Alone!Granted(r) = Granted(r) /\ Alone!Denied(r) = Denied(r)
    /\ \A code : Alone!Reason(code) = Reason(code)
    /\ \A why : Alone!Failed(why) = Failed(why)
    /\ \A r : Alone!Truncated(r) = Truncated(r)
  BY AloneHasTheNames, Zenon
     DEF Alone!NoReply, NoReply, Alone!NoRequest, NoRequest, Alone!Pending,
     Pending, Alone!Undecided, Undecided, Alone!ImplicitReply, ImplicitReply,
     Alone!NoForm, NoForm, Alone!NullBody, NullBody, Alone!Malformed, Malformed,
     Alone!Null, Null, Alone!Absent, Absent, Alone!Invalid, Invalid,
     Alone!Granted, Granted, Alone!Denied, Denied, Alone!Reason, Reason,
     Alone!Failed, Failed, Alone!Truncated, Truncated

LEMMA AloneReadsRequests ==
    /\ \A r : Alone!ValidateRequest(r) = ValidateRequest(r)
    /\ \A r : Alone!Encode(r) = Encode(r)
    /\ \A f : Alone!Parse(f) = Parse(f)
    /\ \A f, q : Alone!MergeForm(f, q) = MergeForm(f, q)
<1> USE DEF Alone!ParamGrantType, ParamGrantType, Alone!ParamResource,
       ParamResource, Alone!ParamAudience, ParamAudience, Alone!ParamScope,
       ParamScope, Alone!ParamRequestedTokenType, ParamRequestedTokenType,
       Alone!ParamSubjectToken, ParamSubjectToken,
       Alone!ParamSubjectTokenType, ParamSubjectTokenType,
       Alone!ParamActorToken, ParamActorToken, Alone!ParamActorTokenType,
       ParamActorTokenType
<1>1. \A r : Alone!ValidateRequest(r) = ValidateRequest(r)
  BY Zenon DEF Alone!ValidateRequest, ValidateRequest, Alone!Valid, Valid,
     Alone!isValidTokenTypeURI, isValidTokenTypeURI,
     Alone!GrantTypeTokenExchange, GrantTypeTokenExchange
<1>2. \A s : Alone!Join(s) = Join(s)
  BY Zenon DEF Alone!Join, Join, Alone!FlattenSeq, FlattenSeq
<1>3. \A r : Alone!Encode(r) = Encode(r)
  BY <1>2, AloneHasTheNames DEF Alone!Encode, Encode, Alone!IfPresent, IfPresent
<1>4. \A f : Alone!Parse(f) = Parse(f)
  BY AloneHasTheNames, Zenon DEF Alone!Parse, Parse, Alone!Get, Get,
     Alone!splitScope, splitScope
<1>5. \A f, q : Alone!MergeForm(f, q) = MergeForm(f, q)
  BY AloneHasTheNames, Zenon DEF Alone!MergeForm, MergeForm
<1>6. QED
  BY <1>1, <1>3, <1>4, <1>5

LEMMA AloneReadsReplies == \A r : Alone!Classify(r) = Classify(r)
<1> USE DEF Alone!FieldAccessToken, FieldAccessToken,
       Alone!FieldIssuedTokenType, FieldIssuedTokenType, Alone!FieldTokenType,
       FieldTokenType, Alone!FieldScope, FieldScope, Alone!FieldRefreshToken,
       FieldRefreshToken, Alone!FieldExpiresIn, FieldExpiresIn
<1>1. \A body, f, zero : Alone!Field(body, f, zero) = Field(body, f, zero)
  BY Zenon DEF Alone!Field, Field, Alone!Matches, Matches, Alone!Null, Null,
     Alone!Absent, Absent, Alone!SelectLastInSeq, SelectLastInSeq,
     Alone!Max, Max
<1>2. \A body : Alone!UnmarshalMap(body) = UnmarshalMap(body)
  BY Zenon DEF Alone!UnmarshalMap, UnmarshalMap, Alone!Name, Name,
     Alone!Absent, Absent, Alone!SelectLastInSeq, SelectLastInSeq,
     Alone!Max, Max
<1>3. \A body, f, kind :
        Alone!WellKinded(body, f, kind) = WellKinded(body, f, kind)
  BY Zenon DEF Alone!WellKinded, WellKinded, Alone!Matches, Matches,
     Alone!Null, Null, Alone!Absent, Absent
<1>4. \A body : Alone!ResponseDecodes(body) = ResponseDecodes(body)
  BY <1>3, AloneHasTheNames, Zenon DEF Alone!ResponseDecodes, ResponseDecodes,
     Alone!NullBody, NullBody
<1>5. \A body : Alone!UnmarshalResponse(body) = UnmarshalResponse(body)
  <2>1. Alone!ZeroResponse = ZeroResponse
    BY AloneHasTheNames, Zenon DEF Alone!ZeroResponse, ZeroResponse,
       Alone!NoExtra, NoExtra, Alone!Absent, Absent
  <2>2. QED
    BY <1>1, <1>2, <2>1, AloneHasTheNames, Zenon DEF Alone!UnmarshalResponse,
       UnmarshalResponse, Alone!NullBody, NullBody, Alone!Absent, Absent
<1>6. \A body : Alone!ErrorDecodes(body) = ErrorDecodes(body)
  BY <1>3, AloneHasTheNames, Zenon DEF Alone!ErrorDecodes, ErrorDecodes,
     Alone!NullBody, NullBody
<1>7. \A body : Alone!UnmarshalError(body) = UnmarshalError(body)
  BY <1>1, Zenon DEF Alone!UnmarshalError, UnmarshalError,
     Alone!NullBody, NullBody
<1>8. \A r : Alone!ClassifySuccess(r) = ClassifySuccess(r)
  BY <1>4, <1>5, Zenon DEF Alone!ClassifySuccess, ClassifySuccess,
     Alone!Success, Success, Alone!Failed, Failed
<1>9. \A r : Alone!ClassifyError(r) = ClassifyError(r)
  BY <1>6, <1>7, Zenon DEF Alone!ClassifyError, ClassifyError,
     Alone!Refused, Refused, Alone!Failed, Failed
<1>10. QED
  BY <1>8, <1>9, Zenon DEF Alone!Classify, Classify, Alone!Failed, Failed

LEMMA AloneWritesReplies ==
    \A d : Alone!Writable(d) = Writable(d) /\ Alone!ReplyTo(d) = ReplyTo(d)
<1> USE DEF Alone!FieldAccessToken, FieldAccessToken,
       Alone!FieldIssuedTokenType, FieldIssuedTokenType, Alone!FieldTokenType,
       FieldTokenType, Alone!FieldScope, FieldScope, Alone!FieldRefreshToken,
       FieldRefreshToken, Alone!FieldExpiresIn, FieldExpiresIn
<1>1. \A r : Alone!ValidateResponse(r) = ValidateResponse(r)
  BY Zenon DEF Alone!ValidateResponse, ValidateResponse, Alone!Valid, Valid,
     Alone!isValidTokenTypeURI, isValidTokenTypeURI
<1>2. \A s : Alone!StringUnlessEmpty(s) = StringUnlessEmpty(s)
  BY Zenon DEF Alone!StringUnlessEmpty, StringUnlessEmpty, Alone!String, String,
     Alone!Absent, Absent
<1>3. \A r : Alone!merged(r) = merged(r)
  BY <1>2, AloneHasTheNames DEF Alone!merged, merged, Alone!String, String,
     Alone!Number, Number, Alone!Absent, Absent
<1>4. \A m : Alone!Marshalable(m) = Marshalable(m)
  BY AloneHasTheNames, Zenon DEF Alone!Marshalable, Marshalable,
     Alone!Invalid, Invalid
<1>5. \A m : Alone!MarshalMap(m) = MarshalMap(m)
  BY Zenon DEF Alone!MarshalMap, MarshalMap, Alone!Object, Object
<1>6. \A r : Alone!MarshalResponse(r) = MarshalResponse(r)
  BY <1>3, <1>5, Zenon DEF Alone!MarshalResponse, MarshalResponse
<1>7. \A e : Alone!MarshalError(e) = MarshalError(e)
  BY <1>2, <1>5, AloneHasTheNames DEF Alone!MarshalError, MarshalError,
     Alone!String, String, Alone!Absent, Absent
<1>8. \A d : Alone!Writable(d) = Writable(d)
  BY <1>1, <1>3, <1>4, AloneHasTheNames, Zenon DEF Alone!Writable, Writable,
     Alone!ResponseWritable, ResponseWritable, Alone!ErrorWritable, ErrorWritable
<1>9. \A d : Alone!ReplyTo(d) = ReplyTo(d)
  BY <1>6, <1>7, AloneHasTheNames, Zenon DEF Alone!ReplyTo, ReplyTo,
     Alone!ResponseReply, ResponseReply, Alone!ErrorReply, ErrorReply,
     Alone!httpStatusForErrorCode, httpStatusForErrorCode
<1>10. QED
  BY <1>8, <1>9

-----------------------------------------------------------------------------
(* Then its states and steps.                                                *)

LEMMA AloneBegins ==
    ASSUME one \in Call, Init
    PROVE  Alone!Init
<1>1. \A v : Of([c \in Call |-> v]) = [c \in {one} |-> v]
  BY DEF Of
<1>2. endpoint \in {"", "unusable", "usable"}
  BY DEF Init
<1>3. /\ Of(pc) = [c \in {one} |-> "idle"]
      /\ Of(arg) = [c \in {one} |-> Nil]
      /\ Of(cancelled) = [c \in {one} |-> FALSE]
      /\ Of(result) = [c \in {one} |-> Alone!Pending]
      /\ Of(link) = [c \in {one} |-> "up"]
      /\ Of(inbound) = [c \in {one} |-> Alone!NoRequest]
      /\ Of(reply) = [c \in {one} |-> Alone!NoReply]
      /\ Of(as) = [c \in {one} |-> "waiting"]
      /\ Of(seen) = [c \in {one} |-> Nil]
      /\ Of(decision) = [c \in {one} |-> Alone!Undecided]
  BY <1>1, AloneHasTheValues, Zenon DEF Init
<1>4. QED
  BY <1>2, <1>3, Zenon DEF Alone!Init

\* A step of the other calls leaves this one where it is.
LEMMA OthersAreElsewhere ==
    ASSUME Same(one) PROVE UNCHANGED Alone!vars
  BY DEF Same, Of, Alone!vars, Alone!client, Alone!server

LEMMA StartsAlone ==
    ASSUME ControlOK, one \in Call, Reject(one) \/ Send(one) \/ Cancel(one)
    PROVE  Alone!Reject(one) \/ Alone!Send(one) \/ Alone!Cancel(one)
<1> USE AloneHasTheNames, AloneHasTheValues, AloneReadsRequests
        DEF ControlOK, Of, server, Alone!server, Return, Alone!Return
<1>1. CASE Reject(one)
  <2>1. PICK r \in Requests :
          /\ endpoint # "usable" \/ ValidateRequest(r) # Valid
          /\ arg' = [arg EXCEPT ![one] = r]
          /\ Return(one, Failed(
                IF endpoint = "" THEN "not_configured"
                ELSE IF ValidateRequest(r) # Valid THEN "not_valid"
                ELSE "build_request"))
    BY <1>1 DEF Reject
  <2>2. /\ Of(arg)' = [Of(arg) EXCEPT ![one] = r]
        /\ Alone!Return(one, Alone!Failed(
                IF endpoint = "" THEN "not_configured"
                ELSE IF Alone!ValidateRequest(r) # Alone!Valid THEN "not_valid"
                ELSE "build_request"))
    BY <2>1
  <2>3. pc[one] = "idle" /\ UNCHANGED <<endpoint, cancelled, link, inbound, reply, server>>
    BY <1>1 DEF Reject
  <2>4. QED
    BY <2>1, <2>2, <2>3 DEF Alone!Reject
<1>2. CASE Send(one)
  BY <1>2 DEF Send, Alone!Send
<1>3. CASE Cancel(one)
  BY <1>3 DEF Cancel, Alone!Cancel
<1>4. QED
  BY <1>1, <1>2, <1>3

LEMMA ReadsAlone ==
    ASSUME ControlOK, one \in Call, ClientStep(one)
    PROVE  Alone!ClientStep(one)
<1> USE AloneHasTheValues, AloneReadsReplies
        DEF ControlOK, Of, server, Alone!server, Return, Alone!Return,
            Alone!ClientStep
<1>1. CASE DoFails(one)
  BY <1>1 DEF DoFails, Alone!DoFails
<1>2. CASE DoReturns(one)
  BY <1>2 DEF DoReturns, Alone!DoReturns
<1>3. CASE ReadFails(one)
  BY <1>3 DEF ReadFails, Alone!ReadFails
<1>4. CASE Finish(one)
  BY <1>4 DEF Finish, Alone!Finish
<1>5. CASE FinishTruncated(one)
  BY <1>5 DEF FinishTruncated, Alone!FinishTruncated
<1>6. QED
  BY <1>1, <1>2, <1>3, <1>4, <1>5 DEF ClientStep

LEMMA FailsAlone ==
    ASSUME ControlOK, one \in Call, Fault(one)
    PROVE  Alone!Fault(one)
<1> USE AloneHasTheNames, AloneHasTheValues
        DEF ControlOK, Of, client, Alone!client, server, Alone!server,
            Return, Alone!Return, Alone!Fault
<1>1. CASE Cut(one)
  BY <1>1 DEF Cut, Alone!Cut
<1>2. CASE Redirect(one)
  <2>1. PICK body \in {inbound[one].body, NoForm},
             query \in RedirectQueries :
          inbound' = [inbound EXCEPT ![one] =
             [body |-> body, query |-> query, redirects |-> @.redirects + 1]]
    BY <1>2 DEF Redirect
  <2>2. Of(inbound)' = [Of(inbound) EXCEPT ![one] =
             [body |-> body, query |-> query, redirects |-> @.redirects + 1]]
    BY ZenonT(60), <2>1
  <2>3. /\ body \in {Of(inbound)[one].body, Alone!NoForm}
        /\ query \in RedirectQueries
    OBVIOUS
  <2>4. /\ Of(pc)[one] = "sending" /\ Of(link)[one] = "up"
        /\ Of(as)[one] = "waiting" /\ Of(reply)[one] = Alone!NoReply
        /\ Of(inbound)[one].redirects < MaxRedirects
    BY <1>2 DEF Redirect
  <2>5. UNCHANGED <<endpoint, client, link, reply, server>>
    BY <1>2 DEF Redirect
  <2>6. UNCHANGED <<endpoint, Alone!client, Of(link), Of(reply), Alone!server>>
    BY <2>5
  <2>7. Alone!Redirect(one)
    <3> HIDE DEF Of, Alone!client, Alone!server
    <3>1. QED
      BY <2>2, <2>3, <2>4, <2>6, Zenon DEF Alone!Redirect
  <2>8. QED
    BY <2>7
<1>3. CASE TooManyRedirects(one)
  <2>1. /\ Of(inbound)' = [Of(inbound) EXCEPT ![one] = Alone!NoRequest]
        /\ Alone!Return(one, Alone!Failed("transport"))
    BY <1>3 DEF TooManyRedirects
  <2>2. /\ Of(pc)[one] = "sending" /\ Of(link)[one] = "up"
        /\ Of(as)[one] = "waiting" /\ Of(reply)[one] = Alone!NoReply
        /\ MaxRedirects > 0 /\ Of(inbound)[one].redirects = MaxRedirects
    BY <1>3 DEF TooManyRedirects
  <2>3. UNCHANGED <<endpoint, Of(arg), Of(cancelled), Of(link), Of(reply),
                    Alone!server>>
    BY <1>3 DEF TooManyRedirects
  <2>4. QED
    BY <2>1, <2>2, <2>3 DEF Alone!TooManyRedirects
<1>4. CASE GatewayAnswers(one)
  <2>1. PICK r \in GatewayReplies : reply' = [reply EXCEPT ![one] = r]
    BY <1>4 DEF GatewayAnswers
  <2>2. Of(reply)' = [Of(reply) EXCEPT ![one] = r]
    BY ZenonT(60), <2>1
  <2>3. /\ Of(pc)[one] = "sending" /\ Of(link)[one] = "up"
        /\ Of(reply)[one] = Alone!NoReply
        /\ UNCHANGED <<endpoint, Alone!client, Of(link), Of(inbound),
                       Alone!server>>
    BY <1>4 DEF GatewayAnswers
  <2> HIDE DEF Of, Alone!client, Alone!server
  <2>4. QED
    BY <2>2, <2>3 DEF Alone!GatewayAnswers
<1>5. CASE ReceiveFails(one)
  BY <1>5 DEF ReceiveFails, Alone!ReceiveFails, DenyWith, Alone!DenyWith
<1>6. CASE Crash(one)
  BY <1>6 DEF Crash, Alone!Crash
<1>7. QED
  BY <1>1, <1>2, <1>3, <1>4, <1>5, <1>6 DEF Fault

LEMMA AnswersAlone ==
    ASSUME ControlOK, one \in Call, HandlerStep(one)
    PROVE  Alone!HandlerStep(one)
<1> USE AloneHasTheValues, AloneWritesReplies
        DEF ControlOK, Of, client, Alone!client, Put, Alone!Put,
            Alone!HandlerStep
<1>1. CASE Decide(one)
  <2>1. \/ \E r \in Grants :
              Of(decision)' = [Of(decision) EXCEPT ![one] = Alone!Granted(r)]
        \/ \E e \in Denials :
              Of(decision)' = [Of(decision) EXCEPT ![one] = Alone!Denied(e)]
    <3>1. \A v : decision' = [decision EXCEPT ![one] = v] =>
                    Of(decision)' = [Of(decision) EXCEPT ![one] = v]
      OBVIOUS
    <3> HIDE DEF Of
    <3>2. QED
      BY <1>1, <3>1 DEF Decide
  <2>2. /\ Of(as)[one] = "deciding"
        /\ Of(as)' = [Of(as) EXCEPT ![one] = "writing"]
        /\ UNCHANGED <<endpoint, Alone!client, Of(link), Of(inbound), Of(reply),
                       Of(seen)>>
    BY ZenonT(60), <1>1 DEF Decide
  <2> HIDE DEF Of, Alone!client
  <2>3. QED
    BY <2>1, <2>2 DEF Alone!Decide
<1>2. CASE WriteNothing(one)
  BY <1>2 DEF WriteNothing, Alone!WriteNothing
<1>3. CASE WriteHeader(one)
  BY <1>3 DEF WriteHeader, Alone!WriteHeader
<1>4. CASE WriteBody(one)
  BY <1>4 DEF WriteBody, Alone!WriteBody
<1>5. QED
  BY <1>1, <1>2, <1>3, <1>4 DEF HandlerStep

LEMMA ReceivesAlone ==
    ASSUME ControlOK, one \in Call, Receive(one)
    PROVE  Alone!Receive(one)
<1> DEFINE r == Parse(MergeForm(inbound[one].body, inbound[one].query))
           verdict == ValidateRequest(r)
<1>1. /\ Of(inbound)[one] # Alone!NoRequest /\ Of(as)[one] = "waiting"
      /\ Of(seen)' = [Of(seen) EXCEPT ![one] = r]
      /\ UNCHANGED <<endpoint, Alone!client, Of(link), Of(inbound), Of(reply)>>
  BY ZenonT(60), AloneHasTheValues DEF Receive, ControlOK, Of, client, Alone!client
<1>2. \/ /\ verdict = Valid
         /\ Of(as)' = [Of(as) EXCEPT ![one] = "deciding"]
         /\ UNCHANGED Of(decision)
      \/ /\ verdict # Valid
         /\ Of(as)' = [Of(as) EXCEPT ![one] = "writing"]
         /\ Alone!DenyWith(one, IF verdict = ParamGrantType
                                THEN ErrCodeUnsupportedGrantType
                                ELSE ErrCodeInvalidRequest)
  <2>1. \/ /\ verdict = Valid
           /\ as' = [as EXCEPT ![one] = "deciding"]
           /\ UNCHANGED decision
        \/ /\ verdict # Valid
           /\ as' = [as EXCEPT ![one] = "writing"]
           /\ DenyWith(one, IF verdict = ParamGrantType
                            THEN ErrCodeUnsupportedGrantType
                            ELSE ErrCodeInvalidRequest)
    BY DEF Receive
  <2> HIDE DEF verdict
  <2>2. \A v : as' = [as EXCEPT ![one] = v] =>
                  Of(as)' = [Of(as) EXCEPT ![one] = v]
    BY DEF ControlOK, Of
  <2>3. \A code : DenyWith(one, code) => Alone!DenyWith(one, code)
    BY ZenonT(60), AloneHasTheValues DEF ControlOK, Of, DenyWith, Alone!DenyWith
  <2>4. UNCHANGED decision => UNCHANGED Of(decision)
    BY DEF Of
  <2>5. QED
    BY <2>1, <2>2, <2>3, <2>4
<1>3. /\ r = Alone!Parse(Alone!MergeForm(Of(inbound)[one].body,
                                         Of(inbound)[one].query))
      /\ verdict = Alone!ValidateRequest(r)
  BY AloneReadsRequests DEF Of
<1> HIDE DEF r, verdict
<1>4. QED
  BY <1>1, <1>2, <1>3, AloneHasTheNames, Zenon DEF Alone!Receive

\* Every call by itself is a run of Exchange with no other call: what a retry or
\* any other call of the Client does never shows in it (client.go:91-152).
THEOREM CallsAreIndependent ==
    ASSUME one \in Call
    PROVE  Spec => BehavesAlone
<1>1. Init => Alone!Init
  BY AloneBegins
<1>2. Inv /\ [Next]_vars => [Alone!Next]_(Alone!vars)
  <2> SUFFICES ASSUME Inv, Next PROVE [Alone!Next]_(Alone!vars)
    BY DEF vars, client, server, Alone!vars, Alone!client, Alone!server, Of
  <2>1. PICK c \in Call : Step(c)
    BY DEF Next, Step
  <2>2. CASE c = one
    BY <2>1, <2>2, StartsAlone, ReadsAlone, FailsAlone, AnswersAlone,
       ReceivesAlone DEF Inv, Step, Alone!Next
  <2>3. CASE c # one
    BY <2>1, <2>3, OthersAreSame, OthersAreElsewhere DEF Inv
  <2>4. QED
    BY <2>2, <2>3
<1>3. QED
  BY <1>1, <1>2, Invariance, PTL DEF Spec, BehavesAlone, Alone!Spec
=============================================================================
