------------------------------ MODULE Exchange ------------------------------
(***************************************************************************)
(* One client, one authorization server (AS) and the HTTP transport        *)
(* between them.  Every call of Client.Exchange runs in its own goroutine  *)
(* (pc, result), is carried by its own HTTP request (inbound, link, reply) *)
(* and is served by its own handler goroutine (as, seen, decision); calls  *)
(* share only the client's configuration, which never changes.  A caller   *)
(* that retries makes a new call, while the handler of the old one may     *)
(* still be running.                                                       *)
(***************************************************************************)
EXTENDS TokenEndpoint

CONSTANTS
    Call,           \* the calls of Exchange
    Requests,       \* the arguments callers pass, Nil included
    Grants,         \* the responses the AS's policy may issue, Nil included
    Denials,        \* the errors the AS's policy may refuse a request with
    GatewayReplies, \* what an intermediary answers in place of the AS
    EndpointQuery,  \* the query of the configured endpoint URL, as a form
    RedirectQueries,\* the queries of the URLs that redirects lead to
    MaxRedirects    \* redirects http.Client follows; 0 when there are none

ASSUME ExchangeAssumption ==
    /\ Requests \subseteq TokenExchangeRequest \cup {Nil}
    /\ Grants \subseteq TokenExchangeResponse \cup {Nil}
    /\ Denials \subseteq TokenExchangeError \cup {Nil}
    /\ GatewayReplies \subseteq { r \in Reply : r.whole }
    /\ \A q \in RedirectQueries \cup {EndpointQuery} : IsForm(q)
    /\ MaxRedirects \in Nat

VARIABLES
    endpoint,   \* the client's tokenEndpoint: "", "unusable" or "usable"
    pc,         \* where each call is in Exchange
    arg,        \* the request each caller passed
    cancelled,  \* the calls whose context is done
    result,     \* what each call returned
    link,       \* the transport connection of each call
    inbound,    \* the HTTP request of each call: body, query, redirects so far
    reply,      \* the HTTP reply of each call, as far as it is written
    as,         \* where each handler is
    seen,       \* the request each handler parsed
    decision    \* what each handler decided

client == <<pc, arg, cancelled, result>>
server == <<as, seen, decision>>
vars == <<endpoint, client, link, inbound, reply, server>>

NoReply   == [status |-> 0, json |-> FALSE, body |-> Malformed, whole |-> FALSE]
Pending   == [kind |-> "pending"]
Undecided == [kind |-> "undecided"]
Granted(r) == [kind |-> "granted", resp |-> r]
Denied(e)  == [kind |-> "denied", err |-> e]

IsHttpRequest(m) ==
    /\ m = [body |-> m.body, query |-> m.query, redirects |-> m.redirects]
    /\ IsForm(m.body) /\ IsForm(m.query) /\ m.redirects \in 0..MaxRedirects

NoRequest   == [body |-> NoForm, query |-> NoForm, redirects |-> 0]

Init ==
    /\ endpoint \in {"", "unusable", "usable"}
    /\ pc = [c \in Call |-> "idle"]
    /\ arg = [c \in Call |-> Nil]
    /\ cancelled = [c \in Call |-> FALSE]
    /\ result = [c \in Call |-> Pending]
    /\ link = [c \in Call |-> "up"]
    /\ inbound = [c \in Call |-> NoRequest]
    /\ reply = [c \in Call |-> NoReply]
    /\ as = [c \in Call |-> "waiting"]
    /\ seen = [c \in Call |-> Nil]
    /\ decision = [c \in Call |-> Undecided]

-----------------------------------------------------------------------------
(* The client goroutine. *)

\* Exchange returns res.
Return(c, res) ==
    /\ pc' = [pc EXCEPT ![c] = "done"]
    /\ result' = [result EXCEPT ![c] = res]

\* Exchange is called and returns before any network activity: no endpoint, a
\* request that breaks a rule, or a URL that no HTTP request can be built for.
Reject(c) ==
    /\ pc[c] = "idle"
    /\ \E r \in Requests :
         /\ endpoint # "usable" \/ ValidateRequest(r) # Valid
         /\ arg' = [arg EXCEPT ![c] = r]
         /\ Return(c, Failed(
                IF endpoint = "" THEN "not_configured"
                ELSE IF ValidateRequest(r) # Valid THEN "not_valid"
                ELSE "build_request"))
    /\ UNCHANGED <<endpoint, cancelled, link, inbound, reply, server>>

\* Exchange is called and hands the encoded request to http.Client.Do.
Send(c) ==
    /\ pc[c] = "idle"
    /\ endpoint = "usable"
    /\ \E r \in Requests :
         /\ ValidateRequest(r) = Valid
         /\ arg' = [arg EXCEPT ![c] = r]
         /\ inbound' = [inbound EXCEPT ![c] =
                [body |-> Encode(r), query |-> EndpointQuery, redirects |-> 0]]
    /\ pc' = [pc EXCEPT ![c] = "sending"]
    /\ UNCHANGED <<endpoint, cancelled, result, link, reply, server>>

\* Mutants: Do does not notice the context; it does not notice the connection.
DoIgnoresContext(c) ==
    /\ pc[c] = "sending"
    /\ link[c] = "cut"
    /\ Return(c, Failed("transport"))
    /\ UNCHANGED <<endpoint, arg, cancelled, link, inbound, reply, server>>

DoIgnoresConnection(c) ==
    /\ pc[c] = "sending"
    /\ cancelled[c]
    /\ Return(c, Failed("transport"))
    /\ UNCHANGED <<endpoint, arg, cancelled, link, inbound, reply, server>>

\* Mutant: a lost connection is tried again, without end.
DoRetries(c) ==
    /\ pc[c] = "sending"
    /\ link[c] = "cut"
    /\ link' = [link EXCEPT ![c] = "up"]
    /\ UNCHANGED <<endpoint, client, inbound, reply, server>>

\* Do returns an error: the context is done or the connection is lost.
DoFails(c) ==
    /\ pc[c] = "sending"
    /\ cancelled[c] \/ link[c] = "cut"
    /\ Return(c, Failed("transport"))
    /\ UNCHANGED <<endpoint, arg, cancelled, link, inbound, reply, server>>

\* Do returns a response as soon as the headers of the reply are there.
DoReturns(c) ==
    /\ pc[c] = "sending"
    /\ reply[c] # NoReply
    /\ pc' = [pc EXCEPT ![c] = "reading"]
    /\ UNCHANGED <<endpoint, arg, cancelled, result, link, inbound, reply, server>>

\* io.ReadAll fails: the context is done or the connection is lost.
ReadFails(c) ==
    /\ pc[c] = "reading"
    /\ cancelled[c] \/ link[c] = "cut"
    /\ Return(c, Failed("read_body"))
    /\ UNCHANGED <<endpoint, arg, cancelled, link, inbound, reply, server>>

\* The body has been read to its end and is classified.
Finish(c) ==
    /\ pc[c] = "reading"
    /\ reply[c].whole
    /\ Return(c, Classify(reply[c]))
    /\ UNCHANGED <<endpoint, arg, cancelled, link, inbound, reply, server>>

\* The connection closed early and nothing told the reader: no Content-Length.
FinishTruncated(c) ==
    /\ pc[c] = "reading"
    /\ ~reply[c].whole
    /\ link[c] = "cut"
    /\ Return(c, Classify(Truncated(reply[c])))
    /\ UNCHANGED <<endpoint, arg, cancelled, link, inbound, reply, server>>

\* The caller's context is cancelled or its deadline passes.
Cancel(c) ==
    /\ pc[c] \in {"sending", "reading"}
    /\ ~cancelled[c]
    /\ cancelled' = [cancelled EXCEPT ![c] = TRUE]
    /\ UNCHANGED <<endpoint, pc, arg, result, link, inbound, reply, server>>

-----------------------------------------------------------------------------
(* The transport and the intermediaries on the way. *)

\* The connection is lost.
Cut(c) ==
    /\ pc[c] \in {"sending", "reading"}
    /\ link[c] = "up"
    /\ link' = [link EXCEPT ![c] = "cut"]
    /\ UNCHANGED <<endpoint, client, inbound, reply, server>>

\* Something on the way redirects the request, and http.Client follows: after
\* 307 and 308 the body goes along, after 301, 302 and 303 it does not.  The new
\* URL is the Location as given, with whatever query it has and no other.
Redirect(c) ==
    /\ pc[c] = "sending"
    /\ link[c] = "up"
    /\ as[c] = "waiting"
    /\ reply[c] = NoReply
    /\ inbound[c].redirects < MaxRedirects
    /\ \E body \in {inbound[c].body, NoForm}, query \in RedirectQueries :
         inbound' = [inbound EXCEPT ![c] =
            [body |-> body, query |-> query, redirects |-> @.redirects + 1]]
    /\ UNCHANGED <<endpoint, client, link, reply, server>>

\* One redirect too many: Do returns an error, and nobody has the request.
TooManyRedirects(c) ==
    /\ pc[c] = "sending"
    /\ link[c] = "up"
    /\ as[c] = "waiting"
    /\ reply[c] = NoReply
    /\ MaxRedirects > 0
    /\ inbound[c].redirects = MaxRedirects
    /\ inbound' = [inbound EXCEPT ![c] = NoRequest]
    /\ Return(c, Failed("transport"))
    /\ UNCHANGED <<endpoint, arg, cancelled, link, reply, server>>

\* An intermediary answers for the AS, which may have the request already.
GatewayAnswers(c) ==
    /\ pc[c] = "sending"
    /\ link[c] = "up"
    /\ reply[c] = NoReply
    /\ \E r \in GatewayReplies : reply' = [reply EXCEPT ![c] = r]
    /\ UNCHANGED <<endpoint, client, link, inbound, server>>

-----------------------------------------------------------------------------
(* The handler goroutine of the authorization server. *)

\* The handler's own errors; their description is the text of the Go error,
\* which is left out.
Reason(code) == [Code |-> code, Description |-> "", URI |-> ""]

HandlerDenials == { Reason(ErrCodeInvalidRequest),
                    Reason(ErrCodeUnsupportedGrantType) }

\* Mutant: the error has no code.
DenyWithoutCode(c, code) == decision' = [decision EXCEPT ![c] = Denied(Reason(""))]

DenyWith(c, code) == decision' = [decision EXCEPT ![c] = Denied(Reason(code))]

\* Mutant: the handler does not validate.
ReceiveUnvalidated(c) ==
    /\ inbound[c] # NoRequest
    /\ as[c] = "waiting"
    /\ seen' = [seen EXCEPT ![c] = Parse(MergeForm(inbound[c].body, inbound[c].query))]
    /\ as' = [as EXCEPT ![c] = "deciding"]
    /\ UNCHANGED <<endpoint, client, link, inbound, reply, decision>>

\* The handler parses the form and validates the request; a broken rule becomes
\* an OAuth error at once.  The bytes may arrive after the client has given up.
Receive(c) ==
    LET r == Parse(MergeForm(inbound[c].body, inbound[c].query))
        verdict == ValidateRequest(r)
    IN  /\ inbound[c] # NoRequest
        /\ as[c] = "waiting"
        /\ seen' = [seen EXCEPT ![c] = r]
        /\ \/ /\ verdict = Valid
              /\ as' = [as EXCEPT ![c] = "deciding"]
              /\ UNCHANGED decision
           \/ /\ verdict # Valid
              /\ as' = [as EXCEPT ![c] = "writing"]
              /\ DenyWith(c, IF verdict = ParamGrantType
                             THEN ErrCodeUnsupportedGrantType
                             ELSE ErrCodeInvalidRequest)
        /\ UNCHANGED <<endpoint, client, link, inbound, reply>>

\* The request's headers arrive but its body does not: ParseForm fails.
ReceiveFails(c) ==
    /\ inbound[c].body # NoForm
    /\ as[c] = "waiting"
    /\ cancelled[c] \/ link[c] = "cut"
    /\ link' = [link EXCEPT ![c] = "cut"]
    /\ as' = [as EXCEPT ![c] = "writing"]
    /\ DenyWith(c, ErrCodeInvalidRequest)
    /\ UNCHANGED <<endpoint, client, inbound, reply, seen>>

\* The policy of the AS issues a token or refuses the request.
Decide(c) ==
    /\ as[c] = "deciding"
    /\ \/ \E r \in Grants : decision' = [decision EXCEPT ![c] = Granted(r)]
       \/ \E e \in Denials : decision' = [decision EXCEPT ![c] = Denied(e)]
    /\ as' = [as EXCEPT ![c] = "writing"]
    /\ UNCHANGED <<endpoint, client, link, inbound, reply, seen>>

\* The decision as a reply; an unwritable one is only logged by the handler.
Writable(d) == IF d.kind = "granted" THEN ResponseWritable(d.resp)
               ELSE ErrorWritable(d.err)
ReplyTo(d)  == IF d.kind = "granted" THEN ResponseReply(d.resp)
               ELSE ErrorReply(d.err)

\* A reply gets through unless an intermediary answered first or the link is
\* cut.
Put(c, r) ==
    reply' = IF reply[c] = NoReply /\ link[c] = "up"
             THEN [reply EXCEPT ![c] = r] ELSE reply

\* The writer refuses the decision; the handler returns without having written
\* anything and net/http answers with an empty 200.
WriteNothing(c) ==
    /\ as[c] = "writing"
    /\ ~Writable(decision[c])
    /\ as' = [as EXCEPT ![c] = "finished"]
    /\ Put(c, ImplicitReply)
    /\ UNCHANGED <<endpoint, client, link, inbound, seen, decision>>

\* Mutant: the writer returns once it has written the headers.
WriteHeaderOnly(c) ==
    /\ as[c] = "writing"
    /\ Writable(decision[c])
    /\ as' = [as EXCEPT ![c] = "finished"]
    /\ Put(c, ReplyTo(decision[c]))
    /\ UNCHANGED <<endpoint, client, link, inbound, seen, decision>>

\* The writer sets the headers and calls WriteHeader.
WriteHeader(c) ==
    /\ as[c] = "writing"
    /\ Writable(decision[c])
    /\ as' = [as EXCEPT ![c] = "committed"]
    /\ Put(c, ReplyTo(decision[c]))
    /\ UNCHANGED <<endpoint, client, link, inbound, seen, decision>>

\* The writer writes the body, or fails to once the connection is lost.
WriteBody(c) ==
    /\ as[c] = "committed"
    /\ as' = [as EXCEPT ![c] = "finished"]
    /\ reply' = IF reply[c] # NoReply /\ link[c] = "up"
                THEN [reply EXCEPT ![c].whole = TRUE] ELSE reply
    /\ UNCHANGED <<endpoint, client, link, inbound, seen, decision>>

\* The handler panics or its process dies: the connection goes with it.
Crash(c) ==
    /\ as[c] \in {"deciding", "writing", "committed"}
    /\ as' = [as EXCEPT ![c] = "crashed"]
    /\ link' = [link EXCEPT ![c] = "cut"]
    /\ UNCHANGED <<endpoint, client, inbound, reply, seen, decision>>

-----------------------------------------------------------------------------
ClientStep(c) == DoFails(c) \/ DoReturns(c) \/ ReadFails(c) \/ Finish(c)
                    \/ FinishTruncated(c)
HandlerStep(c) == Decide(c) \/ WriteNothing(c) \/ WriteHeader(c) \/ WriteBody(c)
Fault(c) == Cut(c) \/ Redirect(c) \/ TooManyRedirects(c) \/ GatewayAnswers(c)
               \/ ReceiveFails(c) \/ Crash(c)

Next == \E c \in Call :
    Reject(c) \/ Send(c) \/ Cancel(c) \/ ClientStep(c) \/ Receive(c)
        \/ HandlerStep(c) \/ Fault(c)

Spec == Init /\ [][Next]_vars

\* The Go runtime and net/http run the caller's goroutine; nothing is assumed
\* of the network or of the AS.
ClientSpec == Spec /\ \A c \in Call : WF_vars(ClientStep(c))

\* A request on a working connection is delivered, and the handler runs and its
\* policy answers.
Deliver(c) == link[c] = "up" /\ Receive(c)

ServerFairness == \A c \in Call : WF_vars(Deliver(c)) /\ WF_vars(HandlerStep(c))

-----------------------------------------------------------------------------
(* Properties. *)

\* Where each goroutine is, and what each call has of the rest.
ControlOK ==
    /\ endpoint \in {"", "unusable", "usable"}
    /\ pc \in [Call -> {"idle", "sending", "reading", "done"}]
    /\ arg \in [Call -> Requests \cup {Nil}]
    /\ cancelled \in [Call -> BOOLEAN]
    /\ link \in [Call -> {"up", "cut"}]
    /\ as \in [Call -> {"waiting", "deciding", "writing", "committed",
                        "finished", "crashed"}]
    /\ DOMAIN result = Call /\ DOMAIN inbound = Call /\ DOMAIN reply = Call
    /\ DOMAIN seen = Call /\ DOMAIN decision = Call

Verdicts == { Granted(r) : r \in Grants }
              \cup { Denied(e) : e \in Denials \cup HandlerDenials }

TypeOK ==
    /\ ControlOK
    /\ \A c \in Call :
          /\ result[c].kind \in {"pending", "success", "refused", "failed"}
          /\ IsHttpRequest(inbound[c])
          /\ reply[c] \in Reply
          /\ seen[c] \in TokenExchangeRequest \cup {Nil}
          /\ decision[c] \in {Undecided} \cup Verdicts

\* A caller that is told "success" holds the very response that the policy of
\* the AS issued for its call, and that response is valid: nothing a lost
\* connection, a crash between headers and body, or a handler that could not
\* write leaves behind is ever taken for a token (client.go Exchange against
\* server_write.go WriteTokenExchangeResponse).
SuccessIsTheGrant ==
    \A c \in Call : result[c].kind = "success" =>
        /\ decision[c].kind = "granted"
        /\ ValidateResponse(decision[c].resp) = Valid
        /\ result[c].resp = Arrives(decision[c].resp)

\* A caller that gets a *TokenExchangeError gets the error the AS denied its
\* call with, and the status on the wire was 401 for invalid_client and 400 for
\* every other code.
RefusalIsTheDenial ==
    \A c \in Call : result[c].kind = "refused" =>
        /\ decision[c].kind = "denied"
        /\ result[c].err = ErrorArrives(decision[c].err)
        /\ reply[c].status =
              IF result[c].err.Code = ErrCodeInvalidClient THEN 401 ELSE 400

\* What the handler parses is what the caller meant, and is as valid as what
\* the client validated: Parse undoes Encode up to the layout of scope and the
\* Extra entries under built-in names (request_codec.go, request_parse.go).
\* So it is when the URL it finally reached has no query, which ParseForm would
\* add to what the caller said, and no redirect dropped the body on the way.
ASSeesTheCaller ==
    \A c \in Call :
        seen[c] # Nil /\ inbound[c].body # NoForm /\ inbound[c].query = NoForm =>
            /\ seen[c] = Meaning(arg[c])
            /\ ValidateRequest(seen[c]) = Valid

\* Redirects have left nothing of what the caller said: the body is gone, and
\* the query of the last Location is a whole request by itself.
Replaced(c) == /\ inbound[c].body = NoForm
               /\ ValidateRequest(Parse(inbound[c].query)) = Valid

\* However a request was redirected, with or without its body and with whatever
\* query, the AS issues a token for what the caller asked, and for exactly that
\* when the last URL has no query; what remains of a request that lost its body
\* is refused, unless the last Location spells out a request of its own
\* (client.go:111, request_parse.go:46, request_validate.go).
GrantedAsAsked ==
    \A c \in Call : decision[c].kind = "granted" /\ ~Replaced(c) =>
        IF inbound[c].query = NoForm THEN seen[c] = Meaning(arg[c])
        ELSE Prevails(Meaning(arg[c]), seen[c])

\* The query of the URL, be it the endpoint's or that of a Location, which
\* ParseForm appends to the body, never displaces what the caller said
\* (request_parse.go reads r.Form).
CallerWins ==
    \A c \in Call : seen[c] # Nil /\ inbound[c].body # NoForm =>
        Prevails(Meaning(arg[c]), seen[c])

\* A decision is never lost but to a cut, a cancellation or an intermediary that
\* answered first: without them a call that returns reports what the AS decided,
\* every valid grant as a success, every denial with a code as that code.  What
\* the library writes, the library reads.
DecisionIsReported ==
    \A c \in Call :
        ( /\ pc[c] = "done" /\ link[c] = "up" /\ ~cancelled[c]
          /\ decision[c] # Undecided /\ Writable(decision[c])
          /\ reply[c] \notin GatewayReplies )
        => result[c].kind =
              IF decision[c].kind = "granted" THEN "success" ELSE "refused"

\* Without any help from timeouts or failures, a call on a working connection is
\* never left waiting: its reply is complete, or the AS still has its request, or
\* a handler is still to act on it, whoever answered first and whatever the
\* writers refused to write (server_write.go returns before WriteHeader, and
\* client.go reads to the end of the body).
NobodyWaitsInVain ==
    \A c \in Call : pc[c] \in {"sending", "reading"} /\ link[c] = "up" =>
        \/ reply[c].whole
        \/ as[c] = "waiting" /\ inbound[c] # NoRequest
        \/ as[c] \in {"deciding", "writing", "committed"}

\* At most how many steps are left of a caller, of its handler, and of a call
\* with its handler and its connection.
CallerStepsLeft(c) ==
    CASE pc[c] = "idle"    -> MaxRedirects + 3
      [] pc[c] = "sending" -> MaxRedirects + 2 - inbound[c].redirects
      [] pc[c] = "reading" -> 1
      [] pc[c] = "done"    -> 0

HandlerStepsLeft(c) ==
    CASE as[c] = "waiting"   -> 4
      [] as[c] = "deciding"  -> 3
      [] as[c] = "writing"   -> 2
      [] as[c] = "committed" -> 1
      [] OTHER               -> 0

OneIf(b) == IF b THEN 1 ELSE 0

StepsLeft(c) ==
    CallerStepsLeft(c) + HandlerStepsLeft(c)
        + OneIf(~cancelled[c]) + OneIf(link[c] = "up") + OneIf(reply[c] = NoReply)

\* Nothing goes round in circles: each step, a redirect, a failure or a late
\* answer included, brings one call nearer to its end and takes no other
\* further from it (client.go Exchange has no loop, retries nothing).
EveryStepIsProgress ==
    [][ /\ \A c \in Call : StepsLeft(c)' \in 0..StepsLeft(c)
        /\ \E c \in Call : StepsLeft(c)' # StepsLeft(c) ]_vars

\* The call was sent: the AS may have heard of it.
Asked(c) == /\ pc[c] # "idle" /\ endpoint = "usable"
            /\ ValidateRequest(arg[c]) = Valid

\* Exchange implements the abstract ExchangePromise: the verdict is the handler's
\* decision, and it is told as Success or Refused only if it was writable.
Telling(d) ==
    IF ~Writable(d) THEN {}
    ELSE IF d.kind = "granted" THEN {Success(Arrives(d.resp))}
    ELSE {Refused(ErrorArrives(d.err))}

Promise == INSTANCE ExchangePromise WITH
    Verdict <- Verdicts,
    None    <- Undecided,
    Waiting <- Pending,
    asked   <- { c \in Call : Asked(c) },
    verdict <- decision,
    answer  <- result

\* A call is answered at most once, with a failure or with the verdict the AS
\* reached on it (the doc of Client.Exchange, client.go).
KeepsPromise == Promise!Spec

\* A call whose context is done returns, whatever the network and the AS do
\* (client.go passes ctx to http.NewRequestWithContext).
CancelReturns ==
    \A c \in Call : cancelled[c] ~> pc[c] = "done"

\* If the connection either works or breaks, and the AS answers what reaches
\* it, every call that was sent returns, cancelled or not.
EveryCallReturns ==
    ServerFairness => \A c \in Call : pc[c] = "sending" ~> pc[c] = "done"

-----------------------------------------------------------------------------
(* The inductive invariant: what is known of a call at each point. *)

\* A call that has returned has a result, one that is under way was sent.
CallerIsKnown(c) ==
    /\ pc[c] = "done" <=> result[c] # Pending
    /\ pc[c] \in {"sending", "reading"} => Asked(c) /\ inbound[c] # NoRequest

\* What is on its way is the caller's request, or what redirects made of it.
RequestIsKnown(c) ==
    inbound[c] # NoRequest =>
        /\ Asked(c)
        /\ inbound[c] = [body |-> inbound[c].body, query |-> inbound[c].query,
                         redirects |-> inbound[c].redirects]
        /\ inbound[c].body \in {Encode(arg[c]), NoForm}
        /\ inbound[c].query \in {EndpointQuery} \cup RedirectQueries
        /\ inbound[c].redirects \in 0..MaxRedirects
        /\ inbound[c].redirects = 0 => /\ inbound[c].body = Encode(arg[c])
                                       /\ inbound[c].query = EndpointQuery

\* The handler decides once; what it parsed is what came in, and it lets its
\* policy decide on valid requests only.
HandlerIsKnown(c) ==
    /\ as[c] # "waiting" => inbound[c] # NoRequest
    /\ as[c] \in {"waiting", "deciding"} => decision[c] = Undecided
    /\ as[c] \in {"writing", "committed", "finished"} => decision[c] # Undecided
    /\ decision[c] \in {Undecided} \cup Verdicts
    /\ as[c] = "committed" => Writable(decision[c])
    /\ seen[c] # Nil =>
          /\ as[c] # "waiting"
          /\ seen[c] = Parse(MergeForm(inbound[c].body, inbound[c].query))
    /\ as[c] = "deciding" \/ decision[c].kind = "granted" =>
          ValidateRequest(seen[c]) = Valid

\* A reply is a page of an intermediary, what net/http sends for a handler that
\* wrote nothing, or what the handler decided.
ReplyIsKnown(c) ==
    \/ reply[c] \in {NoReply} \cup GatewayReplies
    \/ /\ as[c] = "finished" /\ ~Writable(decision[c])
       /\ reply[c] = ImplicitReply
    \/ /\ as[c] \in {"committed", "finished", "crashed"}
       /\ decision[c] # Undecided /\ Writable(decision[c])
       /\ reply[c] \in { [ReplyTo(decision[c]) EXCEPT !.whole = b] : b \in BOOLEAN }

\* A result is a failure or what the complete reply says; and it is the latter
\* unless something failed.
ResultIsKnown(c) ==
    LET read == reply[c].whole /\ result[c] = Classify(reply[c])
    IN  /\ result[c] \in {Pending} \cup Failure \/ read
        /\ pc[c] = "done" /\ Asked(c) /\ inbound[c] # NoRequest
               /\ link[c] = "up" /\ ~cancelled[c] => read

\* The caller, the wire and the handler agree on every call (client.go and
\* server_write.go taken together).
Inv ==
    /\ ControlOK
    /\ \A c \in Call : /\ CallerIsKnown(c) /\ RequestIsKnown(c)
                       /\ HandlerIsKnown(c) /\ ReplyIsKnown(c)
                       /\ ResultIsKnown(c)

-----------------------------------------------------------------------------
(* What the documentation says and the code does not do. *)

\* "a server that returns the literal JSON null surfaces as a validation failure"
\* (response_validate.go:25-27): a success is a valid response.
SuccessIsValid ==
    \A c \in Call : result[c].kind = "success" =>
        ValidateResponse(result[c].resp) = Valid

\* "on a JSON-shaped 4xx it returns a *TokenExchangeError", also when a decode
\* failure occurs (client.go:83-86): at least when the reply carries a code.
CodedErrorIsTyped ==
    \A c \in Call :
        ( /\ result[c].kind = "failed"
          /\ pc[c] = "done" /\ link[c] = "up" /\ ~cancelled[c]
          /\ reply[c].status \in 400..499 /\ reply[c].json
          /\ reply[c].body.json = "object" )
        => ~\E i \in DOMAIN reply[c].body.members :
               /\ reply[c].body.members[i].name = "error"
               /\ reply[c].body.members[i].value.kind = "string"

\* "ParseTokenExchangeRequest reads the form-encoded body of r"
\* (request_parse.go:13): the query of the URL has no part in it.
ParseReadsTheBody ==
    \A c \in Call : seen[c] # Nil => seen[c] = Parse(inbound[c].body)

\* "The drop rule keeps Extra from backfilling a built-in"
\* (response_codec.go:54-56): the scope a client reads is the typed one.
ExtraNeverBackfills ==
    \A c \in Call : result[c].kind = "success" =>
        result[c].resp.Scope = ToUTF8[decision[c].resp.Scope]
=============================================================================
