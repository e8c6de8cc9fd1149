------------------------------ MODULE HttpForm ------------------------------
(***************************************************************************)
(* One HTTP request on its way through middleware to the handler that      *)
(* calls ParseTokenExchangeRequest.  http.Request.ParseForm (external)     *)
(* reads the body once and keeps what it has understood in r.PostForm and  *)
(* r.Form, whether or not it reports an error; Nil is a form that was not  *)
(* made yet.                                                               *)
(***************************************************************************)
EXTENDS RequestCodec, Naturals

CONSTANTS
    Sent,       \* the requests that can arrive
    MaxAnswers  \* how often the handler parses one

VARIABLES
    sent,       \* the request as it is on the wire
    unread,     \* its body has not been read
    PostForm, Form,
    failed,     \* ParseForm has reported an error on this request
    stripped,   \* parameters that middleware deleted from r.Form
    answers     \* what ParseTokenExchangeRequest returned

vars == <<sent, unread, PostForm, Form, failed, stripped, answers>>

\* A pair that is not URL-encoded is skipped and reported; of a body that
\* breaks off or is too long nothing is kept.
BodyFlaw == {"none", "pair", "cut", "long"}

\* A form's media type, perhaps with bad parameters; another; none at all.
FormType == {"form", "form_bad_parameter"}
ContentType == FormType \cup {"other", "malformed"}

IsSent(s) ==
    /\ s.method \in {"POST", "GET"} /\ s.type \in ContentType
    /\ IsForm(s.body) /\ s.bodyFlaw \in BodyFlaw
    /\ IsForm(s.query) /\ s.queryFlaw \in BOOLEAN

ASSUME FormAssumption ==
    /\ \A s \in Sent : IsSent(s)
    /\ Nil \notin [Param -> Seq(Str) \cup Seq(ScopeString)]
    /\ MaxAnswers \in Nat

-----------------------------------------------------------------------------
(* http.Request.ParseForm. *)

HasForm(s) == s.method = "POST" /\ s.type \in FormType

PostFormAfter ==
    IF PostForm # Nil THEN PostForm
    ELSE IF HasForm(sent) /\ unread /\ sent.bodyFlaw \in {"none", "pair"}
         THEN sent.body
    ELSE NoForm

FormAfter ==
    IF Form # Nil THEN Form ELSE MergeForm(PostFormAfter, sent.query)

ParseFormFails ==
    \/ /\ PostForm = Nil /\ sent.method = "POST"
       /\ \/ sent.type \in {"form_bad_parameter", "malformed"}
          \/ sent.type \in FormType /\ unread /\ sent.bodyFlaw # "none"
          \/ sent.type \in FormType /\ sent.bodyFlaw = "cut"
    \/ Form = Nil /\ sent.queryFlaw

ParseForm ==
    /\ PostForm' = PostFormAfter
    /\ Form' = FormAfter
    /\ unread' = (unread /\ ~(PostForm = Nil /\ HasForm(sent)))
    /\ failed' = (failed \/ ParseFormFails)

-----------------------------------------------------------------------------
\* Middleware looks a parameter up with r.FormValue, which drops the error.
MiddlewareParses ==
    /\ Form = Nil
    /\ ParseForm
    /\ UNCHANGED <<sent, stripped, answers>>

\* Middleware reads the body, say to log it, and puts nothing in its place.
MiddlewareReads ==
    /\ unread
    /\ unread' = FALSE
    /\ UNCHANGED <<sent, PostForm, Form, failed, stripped, answers>>

\* Middleware takes a parameter of its own, say a client secret, out of r.Form.
MiddlewareStrips == \E p \in ExtraParam :
    /\ Form # Nil /\ Form[p] # <<>>
    /\ Form' = [Form EXCEPT ![p] = <<>>]
    /\ stripped' = stripped \cup {p}
    /\ UNCHANGED <<sent, unread, PostForm, failed, answers>>

Answer(r) == answers' = Append(answers, [said |-> r, without |-> stripped,
                                         late |-> failed])

\* Mutant: the error of ParseForm is dropped.
ParseUnchecked ==
    /\ Len(answers) < MaxAnswers
    /\ ParseForm
    /\ Answer(Parse(FormAfter))
    /\ UNCHANGED <<sent, stripped>>

\* Mutant: Extra is collected from r.PostForm.
ParseBodyExtra ==
    /\ Len(answers) < MaxAnswers
    /\ ParseForm
    /\ Answer(IF ParseFormFails THEN Nil
              ELSE [Parse(FormAfter) EXCEPT !.Extra = Parse(PostFormAfter).Extra])
    /\ UNCHANGED <<sent, stripped>>

\* Mutant: the query is merged into a form that is there already.
ParseMerging ==
    /\ Len(answers) < MaxAnswers
    /\ IF Form = Nil THEN ParseForm
       ELSE /\ Form' = MergeForm(Form, sent.query)
            /\ UNCHANGED <<PostForm, unread, failed>>
    /\ Answer(IF ParseFormFails THEN Nil ELSE Parse(Form'))
    /\ UNCHANGED <<sent, stripped>>

\* Mutant: what is not Extra is deleted from r.Form.
ParseConsuming ==
    /\ Len(answers) < MaxAnswers
    /\ PostForm' = PostFormAfter
    /\ unread' = (unread /\ ~(PostForm = Nil /\ HasForm(sent)))
    /\ failed' = (failed \/ ParseFormFails)
    /\ Form' = [p \in Param |-> IF p \in ExtraParam THEN FormAfter[p] ELSE <<>>]
    /\ Answer(IF ParseFormFails THEN Nil ELSE Parse(FormAfter))
    /\ UNCHANGED <<sent, stripped>>

\* The answer is Nil when ParseForm fails.
ParseTokenExchangeRequest ==
    /\ Len(answers) < MaxAnswers
    /\ ParseForm
    /\ Answer(IF ParseFormFails THEN Nil ELSE Parse(FormAfter))
    /\ UNCHANGED <<sent, stripped>>

Init ==
    /\ sent \in Sent /\ unread = TRUE
    /\ PostForm = Nil /\ Form = Nil /\ failed = FALSE
    /\ stripped = {} /\ answers = <<>>

Next ==
    \/ MiddlewareParses \/ MiddlewareReads \/ MiddlewareStrips
    \/ ParseTokenExchangeRequest

Spec == Init /\ [][Next]_vars

-----------------------------------------------------------------------------
Accepted == { i \in DOMAIN answers : answers[i].said # Nil }

\* When the parser is the first to read the request, a request it returns
\* says all that was sent: nothing in the body or in the query failed to
\* decode, and no pair is missing (request_parse.go:41-44).
FirstReaderSeesAll ==
    [][ Form = Nil /\ unread /\ answers' # answers =>
          \/ Last(answers').said = Nil
          \/ /\ ~sent.queryFlaw
             /\ HasForm(sent) => sent.type = "form" /\ sent.bodyFlaw = "none"
             /\ Last(answers').said =
                  Parse(MergeForm(IF HasForm(sent) THEN sent.body ELSE NoForm,
                                  sent.query)) ]_vars

\* Parsing again is idempotent as far as the parser returns a request: until
\* the form is edited, it returns the same one (request_parse.go:36).
RepeatsAgree ==
    \A i, j \in Accepted : answers[i].without = answers[j].without =>
        answers[i].said = answers[j].said

\* A parameter that middleware took out of r.Form does not come back into the
\* request, even though the body and r.PostForm still have it
\* (request_parse.go:65).
StrippedStaysOut ==
    \A i \in Accepted : \A p \in answers[i].without :
        answers[i].said.Extra[p] = <<>>

TypeOK ==
    /\ sent \in Sent /\ failed \in BOOLEAN /\ stripped \subseteq ExtraParam
    /\ Form = Nil \/ IsForm(Form)
    /\ answers \in Seq([ said : TokenExchangeRequest \cup {Nil},
                         without : SUBSET ExtraParam, late : BOOLEAN ])

\* r.Form, once made, has none of the parameters that were stripped, and what
\* was returned since the last change to it is what Parse makes of it.
FormIsKnown ==
    /\ Form = Nil => PostForm = Nil /\ stripped = {} /\ answers = <<>>
    /\ Form # Nil => \A p \in stripped : Form[p] = <<>>
    /\ \A i \in Accepted :
          /\ answers[i].without \subseteq stripped
          /\ answers[i].without = stripped => answers[i].said = Parse(Form)

\* The inductive invariant of the proofs: what the parser has returned and
\* will return follows from r.Form alone (request_parse.go:41-79).
Inv == TypeOK /\ FormIsKnown /\ RepeatsAgree /\ StrippedStaysOut

\* "A parse error on the body is wrapped and returned", and the call is
\* idempotent after one by middleware (request_parse.go:31-36): once decoding
\* the body has failed, no call returns a request.
ParseErrorsAreReturned ==
    \A i \in DOMAIN answers :
        answers[i].late /\ sent.type = "form" /\ ~sent.queryFlaw =>
            answers[i].said = Nil
=============================================================================
