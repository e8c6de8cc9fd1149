# go-token-exchange in TLA+

A verification development for the Go package `tokenexchange` (OAuth 2.0 Token
Exchange, RFC 8693): what the package does when its client, its server helpers,
the HTTP transport between them and its shared registry are put together.
Everything under *external* below is modelled from how the package uses it, not
from its own code.

## The system

| part | source | state | operations |
|---|---|---|---|
| request codec | `request.go`, `request_codec.go`, `request_parse.go`, `request_validate.go` | none | `Encode`, `ParseTokenExchangeRequest`, `Validate` |
| response codec | `response.go`, `response_codec.go`, `response_validate.go` | none | `MarshalJSON`, `UnmarshalJSON`, `Validate` |
| client | `client.go` | endpoint and `*http.Client`, fixed at construction; one goroutine per call | `Exchange` |
| client options | `client.go`, `client_options.go` | the `Client` under construction; the variable `http.DefaultClient` | `NewClient`, `WithHTTPClient` |
| server writers | `server_write.go` | none; they write to an `http.ResponseWriter` | `WriteTokenExchangeResponse`, `WriteTokenExchangeError` |
| AS handler | `examples/*/main.go` | one goroutine per request | parse, validate, decide, write |
| registry | `token_type_registry.go`, `token_types.go` | process-wide map behind a `sync.RWMutex` | `RegisterTokenType`, `IsRegisteredTokenType` |
| errors | `token_error.go`, `validation_error.go` | immutable values that point to one another | `Is`, `WithCause`, `Unwrap`, `Error` |

A call of `Exchange` validates its argument, encodes it as a form and POSTs it.
The authorization server (AS) parses the form, validates it again, decides, and
hands its decision to one of the two writers. The client classifies the reply by
status, content type and body. No state is shared between calls; what makes the
system hard is that the two ends run concurrently, that the reply is written and
read in parts, that either end or the connection can stop at any point, and that
something else than the AS may answer. Memory is shared in four places: the registry;
`http.DefaultClient`, which options read; an `http.Request`, which middleware
reads and edits before the parser does; and the arrays behind the slices that the codec
takes and returns.

What makes each part correct:

* codec: what the AS sees is what the caller meant; what the client reads is
  what the AS wrote; each side's validator accepts what the other's accepted;
* client and server together: a success is the grant the AS issued for this
  very call, a `*TokenExchangeError` is the AS's denial, everything else is a
  failure that claims neither; a call is answered once; a call returns;
* parser and middleware: what the parser returns follows from `r.Form` as it stands,
  in whatever order middleware has parsed, drained or edited the request;
* client options: the last one wins, and requests go through what it named;
* errors: chains end; `errors.Is` goes by code, and what it has said it says again;
* slices: nobody sees another's writes;
* registry: no race on the map, built-ins are never shadowed, queries see
  finished registrations, calls are linearizable, nobody starves.

## Modules

| module | models | used by |
|---|---|---|
| `Values` | strings: emptiness, URI shape, the grant type, three error codes | all |
| `RequestCodec` | the request half of the codec | `TokenEndpoint` |
| `Json` | `encoding/json` as the package uses it (external) | `ResponseCodec` |
| `ResponseCodec` | the JSON half of the codec | `TokenEndpoint` |
| `TokenEndpoint` | writers and classifier: what each end makes of the other's bytes | `Exchange` |
| `Exchange` | client goroutine, transport, handler goroutine | `MCExchange` |
| `ExchangePromise` | abstract specification of `Exchange` | `Exchange` (`Promise`) |
| `OneCall` | one of the calls of a `Client`, as a system of its own | `ExchangeProofs` |
| `Examples` | the policies and requests of the two example programs, over `Exchange` | `MCExamples` |
| `HttpForm` | an `http.Request` between middleware and the parser | `MCHttpForm` |
| `ErrorChain` | the error values, `errors.Is` and `errors.As` over them | `MCErrorChain` |
| `Aliasing` | the arrays behind forms, requests and lists of token types | `MCAliasing` |
| `ListValues` | abstract specification of `Aliasing`: forms and requests as plain values | `Aliasing` (`ByValue`) |
| `ClientOptions` | `NewClient` option by option, and whose `http.Client` is used | `MCClientOptions` |
| `TokenTypeRegistry` | the registry over `sync.RWMutex` | `MCRegistry`, proofs |
| `Registry` | abstract, atomic registry | `TokenTypeRegistry` (`Atomic`) |
| `CodecProofs` | theorems about the two codecs | `ExchangeProofs`, `HttpFormProofs` |
| `ExchangeProofs` | theorems about `Exchange` and `OneCall` | |
| `ExamplesProofs` | theorems about `Examples`, from those of `ExchangeProofs` | |
| `HttpFormProofs`, `ErrorChainProofs`, `AliasingProofs`, `ClientOptionsProofs`, `TokenTypeRegistryProofs` | theorems about the module each is named after | |
| `MCExchange`, `MCExamples`, `MCHttpForm`, `MCErrorChain`, `MCAliasing`, `MCClientOptions`, `MCRegistry` | small instances | the `.cfg` files |

### State and actions of `Exchange`

`endpoint` is the client's `tokenEndpoint` (empty, one no request can be built
for, or good). For each call: `pc`, `arg`, `cancelled`, `result` are the caller's goroutine,
`link`, `inbound`, `reply` the connection, the request on its way and the reply
as far as it is written, `as`, `seen`, `decision` the handler's goroutine.

| action | code |
|---|---|
| `Reject`, `Send` | `Exchange` up to `hc.Do` (client.go:92-111) |
| `DoFails`, `DoReturns` | `hc.Do` returns (111-114) |
| `ReadFails`, `Finish`, `FinishTruncated` | `io.ReadAll` and the switch (121-151) |
| `Receive`, `ReceiveFails` | parse, validate, early denial (examples/delegation/main.go:66-79) |
| `Decide` | the policy (81-90), any response or error |
| `WriteNothing` | a writer refuses; the handler only logs (91-93, server_write.go:41-48, 90-97) |
| `WriteHeader`, `WriteBody` | headers, then body (server_write.go:50-55, 99-104) |
| `Cancel`, `Cut`, `Redirect`, `TooManyRedirects`, `GatewayAnswers`, `Crash` | context, network, intermediaries, process (external) |

A denial and its writing are separate steps, and so are the headers and the body,
because the connection can break between them. A handler that returns without writing
makes net/http send an empty 200 (`ImplicitReply`). A body whose end is the end of
the connection reads without error when it is cut short (`FinishTruncated`);
what is left is a proper prefix of a JSON object, which is never JSON.
A redirect keeps the body (307, 308) or loses it. `http.Client` follows the `Location` as
given: none of the old query is left, and the new one may be any of `RedirectQueries`, a whole
request included. `ParseForm` merges it as it merges the endpoint's.

`Examples` is `Exchange` whose `Decide` is restricted to the policy of one of the programs
(`ExampleNext`): `Issue` is the response of `authServerHandler`, named after the first
resource in `examples/impersonation` and after the first audience in
`examples/delegation`; the variable `policy` says which program it is. `AccessTokenFor` stands
for the concatenation around that name.

`OneCall` instantiates `Exchange` a second time, as `Alone`: its only call is the constant
`one`, and each of its variables is that call's part of the variable of `Exchange`
(`Of`). `BehavesAlone` says that what the many calls do is, for each of them, a behaviour of
one call.

### State and actions of `HttpForm`

One `http.Request`: `sent` is what is on the wire, `unread`, `PostForm` and `Form` what
net/http keeps of it. `failed`, `stripped` and `answers` are history.

| action | code |
|---|---|
| `ParseTokenExchangeRequest` | request_parse.go:37-79, with `ParseForm` (external) |
| `MiddlewareParses`, `MiddlewareReads`, `MiddlewareStrips` | `r.FormValue`, `io.ReadAll(r.Body)`, `r.Form.Del` by a handler in front (external) |

`ParseForm` follows net/http where the package depends on it: it parses the body once,
keeps the pairs it could decode, and reports an error only on the call that finds it.

### State and actions of `ErrorChain`

`heap` is the sequence of all errors made, an error its index; `returned` are those that
`Validate` gave out. It begins with what is `Given`: the nil pointers of the two error types
(a nil pointer in an `error` is not a nil error, and their methods handle it), a sentinel of
the package and a foreign error; one more sentinel would differ by its name only.

| action | code |
|---|---|
| `NewToken` | client.go:136-146, and the handlers |
| `ValidateFails`, `GrantTypeFails` | request_validate.go, response_validate.go |
| `Wrap` | `fmt.Errorf("...%w", err)` (client.go:93-124) |
| `WithCause` | token_error.go:131-143 |

`Unwrap`, `TokenIs` and `ValidationIs` are the methods; `Visited` and `Is` are what
`errors.Is` does with them. Questions are asked of every pair of errors made, and of targets
made for the question (`Matches`).

### State and actions of `Aliasing`

`mem` are the arrays, with their capacity; `object` the forms, requests and
lists of token types, each with a slice per field. `Parse` and `Encode` allocate
(`Make`); the holder of an object assigns, reslices and appends, in place while there is
capacity (`Edit`). JSON members are not in it: `encoding/json` copies a `RawMessage` in
both directions. `ListValues` has no arrays: `Parse` and `Encode` take a value's lists as
they are at that moment, and an edit makes one list of one value another
(`Edited`: an element assigned, the list cut, or one appended). `ByValue` maps each
object to its `Contents`.

### State and actions of `ClientOptions`

`NewClient`, `Skip`, `Apply` and `Built` are the call, the two kinds of turn
of its loop and the return, so that other constructions and requests come
in between. `Exchange` is the choice of the `http.Client` alone; its branch for a nil
`httpClient` is modelled, and by `Inv` never taken by a client from `NewClient`.
`SetDefault` is the program's assignment to `http.DefaultClient`; its guard excludes
only assignments that race with a `NewClient`.

### State and actions of `TokenTypeRegistry`

`entries` is the map (`builtin` for true, `extension` for false, `absent` for no
entry); `writer` and `readers` are the `RWMutex`, taken by a writer in two steps
(`LockWriters`: other writers and new readers are kept out; `LockReaders`: the
readers that were in have left) and handed on by `Unlock` to the readers that
have queued up. `pc`, `op`, `ret` are each goroutine's place, call and answer.
`registered` and `due` are history variables: which registrations have
returned nil, now and when each goroutine's call began; no guard reads them.

## Runs

All configurations of `MCExchange` use `CHECK_DEADLOCK FALSE`: the system stops when every
call has returned and every handler has finished. So do those of `MCExamples`, and those of
`MCErrorChain`, `MCHttpForm` and `MCAliasing`, which stop at their bounds. `MCRegistry` and
`MCClientOptions` check deadlock.

| run | instance | shows |
|---|---|---|
| `faults` | 1 call, 10 requests, 8 responses, 4 errors (nil is one), 8 intermediary pages, up to 2 redirects to 3 `Location`s, fair client | types; the inductive invariant of the proofs; success is the grant, refusal the denial; the AS sees what the caller meant and grants nothing else; what is decided is lost only to a cut, a cancellation or an intermediary; `Exchange` implements `ExchangePromise`; nobody waits for a reply that nobody owes; every step leads towards the end; cancelled calls return, and all do if the network and the AS go on |
| `programs` | 1 call to either example, 13 requests, 7 parameters in the endpoint's query (both token types among them), 1 redirect to 4 `Location`s | the caller wins over the query; the token names the caller's first resource (audience); both agree on the type asked for, but for a default that the query changes |
| `registry` | 3 goroutines, 3 strings, fair | every safety property of the registry, that whoever waits for the lock waits for someone who does not, linearizability, and that calls return |
| `parse` | 1 request of every method, media type and flaw, 2 strippable parameters, `MaxAnswers` = 3 | what the parser returns follows from `r.Form`; a first reading is complete |
| `errors` | 4 errors beside the 4 given (`MaxErrors` = 8), 2 codes, 1 text, 2 failures | chains end; dispatch by code, wildcards, both shapes of a grant-type failure; answers never change; a new cause replaces the old |
| `lists` | `MaxObjects` = 3, `MaxBlocks` = 3 blocks of arrays, `MaxRoom` = 1 | nobody sees another's write; slices behave as values (`ListValues`) |
| `build` | 2 clients, 2 `http.Client`s, `MaxOptions` = 3 | requests go through the client that was asked for |
| `null`, `mistyped`, `urlform`, `folded`, `cached` | 1 of each input; `cached` as `parse` | five places where the code and its documentation disagree (below) |

Why the bounds are enough. Calls share nothing but the endpoint, and no action of one reads
or writes another's: each is a run of one call, which
`CallsAreIndependent` proves of any number of them. So one call reaches every state of one
call; a retry beside the handler it left behind is two of them. The inputs have a
member for every branch: one request per rule of `Validate`, one with every optional field
set, scope elements of no, one and two words, Extra entries under own and built-in names;
one response per rule, one with ill-formed UTF-8 and a negative lifetime, one whose Extra
is not JSON; an error with and without a code and with the code that has a status of its
own, and the nil pointer; a page for every branch of the classifier. Two redirects give
"none", "some" and "one too many"; http.Client's limit of 10 adds no case. They lead to a URL
without a query, to one that adds parameters, and to one that is a whole request. Three goroutines give a writer inside,
one waiting and a reader queued; the strings are a built-in, an extension and the empty
string, which is also a non-URI.

Three answers of the parser have a middleware step before, between and after any two. Four
errors make a wrapped, twice wrapped, joined and re-caused error; one more makes no new
shape. Three objects are a form, its request and the form
made of that; an array with one spare place is appended to in place and then outgrown, and
a third block is what outgrowing needs. Three options have
one that wins, one that loses and a nil one in every order; two clients show one being
built while the other sends.

### Fairness

* `ClientSpec` (`CancelReturns`): weak fairness of the client's goroutine, which the Go
  runtime schedules; `http.Client` unblocks when the request's context is done
  (client.go:100). Nothing is assumed of the network or the AS.
* `ServerFairness`, the premise of `EveryCallReturns`: also, a request on a working connection
  is delivered and the handler runs to its end. A cut connection is noticed (TCP reset
  or keep-alive), and a call without deadline on a silent AS does hang: that is
  the code, which sets no timeout.
* `FairSpec` of `TokenTypeRegistry` (`CallsReturn`): weak fairness of every step once
  enabled, strong fairness of taking the writers' mutex, because `sync.Mutex` hands
  itself over in its starvation mode. No fairness for *starting* calls.

### Where the code and its documentation disagree

1. `null`: `response_validate.go:25-27` says the client uses `Validate`, so that a JSON
   `null` surfaces as a validation failure. `Exchange` never validates a response
   (client.go:127-132): the caller gets an empty response and a nil error.
   `SuccessIsTheGrant` holds only where no intermediary answers 2xx with a decodable
   body.
2. `mistyped`: `client.go:83-86` promises a `*TokenExchangeError` on a JSON 4xx, with a
   decode failure in its chain. A body with a readable code and one mistyped member
   gives a plain error (140-142).
3. `urlform`: `request_parse.go:13` speaks of the form-encoded *body*; the code reads
   `r.Form`, which holds the URL's query as well. `CallerWins` shows what saves the caller:
   body values come first.
4. `folded`: `response_codec.go:54-56` says an Extra entry cannot backfill a built-in.
   Names are dropped by exact match and decoded without regard to case, so `Scope`
   does. The inputs of the other runs have no such name.
5. `cached`: `request_parse.go:31-36` says that a parse error on the body is returned, and
   that a `ParseForm` by middleware makes no difference. If that one failed, `r.Form`
   is set, the parser's own call (41) returns nil, and the request is made of the pairs
   that were decoded. `FirstReaderSeesAll` is what holds: the error is seen by the first
   reader.

## Proofs

Every theorem holds for all values of the constants that satisfy the named assumptions of
the modules (`StrAssumption`, `JsonAssumption`, `ExchangeAssumption`,
`RegistryAssumption`, ...) and what is said here. TLC evaluates the assumptions in every
run that extends their modules. `NilResponseAssumption` says that the pointer nil is not a
response, which TLA+ would otherwise leave open. (`HttpFormProofs` extends `CodecProofs` for its lemmas on forms; the constants of
`Json` that come with it are not used there.)

### The codecs: `CodecProofs`

* `RequestRoundTrips`: `Parse(MergeForm(Encode(r), NoForm)) = Meaning(r)` for every
  request. `Meaning` lays scope out as `splitScope` does and drops the Extra entries under
  built-in names. Lemmas: a valid request stays valid under `Meaning`; a query comes
  after the body (`QueryComesSecond`).
* `ResponseRoundTrips`: a response decodes from its own JSON, to `Arrives(r)`, *if its
  Extra names are apart* (`ExtraIsApart`: none folds onto a built-in). The run `folded`
  is what happens otherwise.
* `ErrorRoundTrips`: the same of error objects, without condition.
* More than one hop, when a server passes on what it received.
  `ParsedRequestsComeBack`: of *every* form, not only of one that `Encode` made, what
  was parsed is parsed again from its own encoding; `Meaning` changes nothing the second time
  (`ParsedMeansItself`: the words `splitScope` makes are split into themselves).
  `ResponsesCanBePassedOn`: what arrives of a writable response is valid (`ArrivesValid`),
  can be written (`ArrivedIsMarshalable`) and then arrives unchanged.
  `DenialsCanBePassedOn`: the same of an error, whose HTTP status stays too.

* Bodies that somebody else wrote. `LastMemberWins`: of the members that match a struct
  field, in any case and any number, the last is stored. `DecodedResponsesAreTyped` and
  `DecodedErrorsAreTyped`: whatever decodes without an error has the type it is decoded
  into, and what was decoded as a response can be marshaled. `CodesAreRead`: a
  well-made error object has a code.

Its lemmas also give the types of what the codecs make. The community modules'
`FlattenSeq`, with which `Parse` joins scope elements, is a recursive function: that its
value is a list (`ConcatenationIsList`) needs induction over the length. The library's
induction theorem takes an operator; the lemma `Induction` states it for a *set*
of numbers and gets it from the well-foundedness of `\subset` on finite sets. That a set
of positions has a last one (`LastPosition`) comes from the same lemma.

### The exchange: `ExchangeProofs`

`Invariance` is `Spec => []Inv`. `Inv` (in `Exchange`, checked by the run `faults`) says
of each call what each party knows at each point:

* `ControlOK`: the range of every control variable;
* `CallerIsKnown`: a call that is under way was sent, a finished one has a result;
* `RequestIsKnown`: what is on its way is `Encode(arg)`, or no body at all after a redirect,
  with the query of the endpoint or of a `Location`;
* `HandlerIsKnown`: what was parsed is what came in, and only a valid request is decided
  on;
* `ReplyIsKnown`: a reply is a page, what the decision says, or, if no decision could be
  written, the empty 200;
* `ResultIsKnown`: a result is a failure or the classification of a complete reply, and
  the latter if nothing went wrong.

The parts lean on each other. That a success is the AS's grant needs `ResultIsKnown`
(the result is the classification of the reply) and `ReplyIsKnown` (the reply is the
decision's); for `WriteBody` to keep the latter, `HandlerIsKnown` must say that a
committed handler has a writable decision; that the decision was made on the caller's
request needs `RequestIsKnown`, and so on back to the caller.
`StepPreservesInv` is composed of one lemma per party (`StartKeepsKnown`,
`ClientKeepsKnown`, `NetworkKeepsKnown`, `ReceiveKeepsKnown`, `AnswerKeepsKnown`), one
step per action in each.

| theorem | property | beyond the module's assumptions it needs |
|---|---|---|
| `SuccessfulCallsHoldTheGrant` | `SuccessIsTheGrant` | `OpaquePages`, `GrantsAreApart` |
| `RefusedCallsHoldTheDenial` | `RefusalIsTheDenial` | `OpaquePages`, `GrantsAreApart` |
| `PromiseIsKept` | `KeepsPromise` (refinement) | `OpaquePages`, `GrantsAreApart` |
| `DecisionsAreReported` | `DecisionIsReported` | `GrantsAreApart` |
| `TokensAreGrantedAsAsked` | `GrantedAsAsked` | |
| `RequestsReachTheAS` | `ASSeesTheCaller` | |
| `TheCallerWins` | `CallerWins` | |
| `TypeCorrectness` | `TypeOK` | |
| `NobodyIsStranded` | `NobodyWaitsInVain` | |
| `NothingGoesInCircles` | `EveryStepIsProgress` | |
| `NothingIsMadeUp` | `AnswersHaveASource` (in `ExchangeProofs`) | |
| `TokensAreUsable` | `SuccessIsValid` | `OpaquePages`, `GrantsAreApart` |
| `ScopesAreTheGrants` | `ExtraNeverBackfills` | `OpaquePages`, `GrantsAreApart` |
| `CodesAreReported` | `CodedErrorIsTyped` | `PagesAreWellMade` |
| `ResultsCanBeHandedOn` | `ResultsAreTyped` (in `ExchangeProofs`) | |
| `CallsAreIndependent` | `BehavesAlone` (refinement, in `OneCall`) | `one \in Call` |

The hypotheses are where the code's limits are. `OpaquePages` says that what an
intermediary answers with has neither a token nor an error code in it; `GrantsAreApart`
that no Extra name of a response folds onto a built-in. The runs `null` and `folded` are
what happens without them. `MCExchange` states as assumptions that the inputs of the passing
runs satisfy the two.

Of queries nothing is assumed, be it the endpoint's or a `Location`'s; what they do is in
the properties. `ASSeesTheCaller` is about a request that reaches a URL without a query with its
body, by whatever way. `GrantedAsAsked` is about every grant: it is for exactly what the
caller asked if the last URL has no query (`GrantedIsEncoded`), and otherwise for a request in
which all the caller said prevails (`Prevails`: the query comes second and fills what was left
open). One exception is in the property because it is in the code: a redirect that drops the body
and leads to a URL whose query is a whole request (`Replaced`). A query that is less than that is
refused, as is no query at all. What the caller does *not* lose to any query as
long as its body arrives is `CallerWins`. The run `urlform` is a call to a URL
with a query.

What the documentation says in `null` and `folded` is true under the hypotheses: `TokensAreUsable` and `ScopesAreTheGrants`. What it says in
`mistyped` is true under `PagesAreWellMade`: in a JSON 4xx page of an intermediary, what
stands for a field of the error is a string, and what stands for the code is not empty.
`CodesAreReported` needs that of pages only, for the AS's own errors are read as they were
meant (`DenialsTell`), and it needs an invariant beside `Inv`, that a call which was
not sent has no reply (`UnsentGetNoReply`). With no
hypothesis at all, `NothingIsMadeUp`: what is told as a token or a protocol error stands
complete in one reply, that of a page or of the handler's decision; and
`ResultsCanBeHandedOn`: be that page what it may, a success is a `TokenExchangeResponse`
that can be written again, and no `TokenExchangeError` lacks a code. `TypeOK` follows from `Inv`, which says *what* each value is, and
the types of the codec's operators.

`NobodyIsStranded` and `NothingGoesInCircles` are the safety half of `EveryCallReturns`.
The first says that a call which waits on a working connection has a complete reply, or its
request is still to be handled, or a handler is still to act; it needs
`AnswerIsComing`, inductive together with `Inv`: while the connection stands, the handler has
not died, one that has begun a reply has the headers out, and one that has finished
has left a complete reply. The second gives
the measure `StepsLeft` (the caller's steps with the redirects it may still
follow, the handler's, and one for each of the context, the connection and the first
byte of a reply) that no step raises and each lowers for one call; there are then no infinite
runs of finitely many calls. What is left to TLC is that fair steps are taken.

`CallsAreIndependent` shows that `Spec` implements `Alone!Spec`. The operators of `Alone`
that depend on values only (the codec, the writers, the classifier) are shown equal to
those of `Exchange` (`AloneHasTheNames` to `AloneWritesReplies`); they are not equal by
name, since an instance has definitions of its own. A step of another call leaves all of this
call's variables as they are (`OthersAreSame`), so `Alone` stutters; a step of this call is
the step of the same name in `Alone` (`StartsAlone`, `ReadsAlone`, `FailsAlone`,
`AnswersAlone`, `ReceivesAlone`). It is about `Spec`, which has no fairness: that a call
returns when others run beside it is not carried over by it.

### The examples: `ExamplesProofs`

A step of `Examples` is one of `Exchange` (`ExamplesExchange`), so all of the above holds of
it; what is added is the invariant `IssuedAsSeen`: a granted decision is `Issue` of what
the handler parsed.

| theorem | property | needs |
|---|---|---|
| `TokensNameTheFirst` | `TokenIsForTheFirst` | `OpaquePages`, `GrantsAreApart` |
| `TypesAreAgreed` | `TypeIsAgreed` | |

Queries may have any parameter. Resources, audiences and the subject's token type in them come
second to the body's; a `requested_token_type` in them is the one thing that changes what is
agreed on, where the caller left it out and meant the default, and then it is that type and no other.
The exception is again `Replaced`.

### The parser: `HttpFormProofs`

`Inv` adds `FormIsKnown` to the two safety properties: once made, `r.Form` lacks what was
stripped, and what was returned since the last change is what `Parse` makes of it. Without the
latter `RepeatsAgree` is not inductive. `Invariance`, `Repeats`, `Stripping`,
and `FirstReading` for `FirstReaderSeesAll`.

### The errors: `ErrorChainProofs`

`Inv` is `TypeOK`, `ChainsEnd` (an error wraps older errors only) and `VerdictsOK`; it is
inductive because no action changes an error that was made (`StepAppends`). The work is in the
questions: `Visited` is a recursive function on the heap, and
`VisitExists` shows by induction on the index (`StrongInduction`), from
`ChainsEnd`, that its equation has a solution. From there: `Termination`; `Stability`
(more errors do not change what is visited from the old ones); `Dispatch` (what is visited
is the least set closed under `Unwrap`); `Wildcards` and `Causes`; `Shapes`, which is about
what `Validate` returned and about every error that holds it, below any wrapping.

### Slices and options: `AliasingProofs`, `ClientOptionsProofs`

`NoSharing` follows from `Inv`: slices lie in their arrays, and no two objects have one in the
same array. A write is then seen by one object. `SlicesAreValues` is the refinement of
`ListValues`: `Parse`, `Encode` and `BuiltinTokenTypes` put a new object at the end and leave
the contents of the others; an edit changes one list of one object (`EditReplaces`), and
`AssignReplaces`, `ResliceReplaces`, `AppendInPlaceReplaces` and `AppendToNewReplaces`
say what becomes of the list, one for each way a Go slice is written to. `LastOptionWins` follows from
`Inv`: at every turn of the loop `httpClient` is what the options so far ask for
(`AskedFor`), and requests are sent through it.

### The registry: `TokenTypeRegistryProofs`

* `Invariance`: `Spec => []Inv`. `Inv` is a conjunction of
  `TypeOK`, `LockIsConsistent` (where the lock is follows from where the goroutines are),
  `CallIsConsistent` (what a goroutine knows at each point: a URI that was checked is
  still a URI, and between look-up and store nobody has made it a built-in) and
  `PromisesAreKept`. `IInv`, the inductive invariant (`Strengthened`), adds
  `TableIsSound` and `RegisteredIsFound`, which the run checks by their own names. None of
  the last three is inductive alone: that built-ins keep their tier needs what a goroutine at `store`
  knows, which needs that no other is in the map, which needs the lock;
  that a query does not miss a registration needs that what was
  promised when it began is still in the table.
* `MutualExclusion`, `BuiltinsAreKept`, `ReadsSeeWrites`, `TableOnlyGrows`: the
  properties of the run `registry`, from `IInv`.
* `NoDeadlock`: whoever waits for the lock, another goroutine holds it and waits for
  nothing. It follows from `LockIsConsistent`: a writer that waits for readers waits for
  goroutines that are inside, and one that is inside waits for nobody. It is the safety half of
  `CallsReturn`.
* `Linearizable`: `TokenTypeRegistry` implements `Registry`. Initial states map to
  initial states; under `IInv`, `Register` (of a non-URI), `Query` (of ""), `LookUp`
  (of a built-in), `Store` and `Read` map to the atomic effect, `Call` and `Return` to
  theirs, every other step to a stutter. The abstract state is the concrete
  `entries`, `op` and `ret`.

`StepPreservesInv` has one case per action, and below it one step per conjunct.

### Only model-checked

Liveness (`CancelReturns`, `EveryCallReturns`, `CallsReturn`): the prover does not reason
about fairness or ENABLED, so what is proved of them is that nobody waits for what cannot
come and that nothing goes on for ever. Every invariant and every other action property of
a passing run is a theorem.

## Not modelled

The text of `Error()` and of error descriptions, percent-encoding, token
contents, TLS and client authentication are abstracted away; so are nil for pointers
net/http never passes (`w`, `r`), `UnknownTokenType` (a string), what the examples'
`main` functions print, and a data race on `http.DefaultClient` between a program's
assignment and `NewClient`. The version constant, the fixtures, the tests and the CI have no
behaviour of the package's own.

## Plan

Done: codec, endpoint, `Exchange` and its abstract specification; the registry and its;
the examples; the calls one by one; the parser behind middleware; the errors; the slices and their abstract
specification; the client options; proofs of them all. What is left is what the code does not have: no state outlives a
process, and no operation retries.
