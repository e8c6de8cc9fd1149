--------------------------- MODULE ExamplesProofs ---------------------------
(***************************************************************************)
(* Proofs about the examples: what they add to Exchange is a policy, so    *)
(* they have its invariant, and the policy's own comes on top.             *)
(***************************************************************************)
EXTENDS Examples, ExchangeProofs

\* What is granted is what the policy makes of the request that was parsed.
IssuedAsSeen ==
    \A c \in Call : decision[c].kind = "granted" =>
        decision[c] = Granted(Issue(seen[c]))

LEMMA ExamplesExchange == ExampleSpec => Spec
<1>1. ExampleInit => Init
  BY DEF ExampleInit
<1>2. [ExampleNext]_<<vars, policy>> => [Next]_vars
  BY DEF ExampleNext
<1>3. QED
  BY <1>1, <1>2, PTL DEF ExampleSpec, Spec

\* The programs do not change their policy.
LEMMA PolicyIsFixed == ExampleSpec => [](policy \in {"Resource", "Audience"})
<1>1. ExampleInit => policy \in {"Resource", "Audience"}
  BY DEF ExampleInit
<1>2. policy \in {"Resource", "Audience"} /\ [ExampleNext]_<<vars, policy>>
        => (policy \in {"Resource", "Audience"})'
  BY DEF ExampleNext
<1>3. QED
  BY <1>1, <1>2, PTL DEF ExampleSpec

\* A handler decides to grant in one action only.
LEMMA GrantsAreDecided ==
    ASSUME Inv, [Next]_vars, NEW c \in Call, decision'[c].kind = "granted"
    PROVE  \/ decision'[c] = decision[c] /\ seen'[c] = seen[c]
           \/ as[c] = "deciding" /\ as'[c] = "writing" /\ seen'[c] = seen[c]
<1>1. /\ DOMAIN decision = Call /\ DOMAIN seen = Call
      /\ as \in [Call -> {"waiting", "deciding", "writing", "committed",
                          "finished", "crashed"}]
  BY DEF Inv, ControlOK
<1>2. CASE UNCHANGED server
  BY <1>2 DEF server
<1>3. ASSUME NEW d \in Call, Receive(d) \/ ReceiveFails(d)
      PROVE  decision'[c] = decision[c] /\ seen'[c] = seen[c]
  <2>1. as[d] = "waiting" /\ decision[d] = Undecided
    BY <1>3 DEF Receive, ReceiveFails, Inv, HandlerIsKnown
  <2>2. CASE c = d
    <3>1. ASSUME NEW e, decision'[d] = Denied(e) PROVE FALSE
      BY <2>2, <3>1 DEF Denied
    <3>2. decision'[d] = Undecided \/ \E e : decision'[d] = Denied(e)
      BY ZenonT(60), <1>1, <1>3, <2>1 DEF Receive, ReceiveFails, DenyWith
    <3>3. decision'[d] # Undecided
      BY <2>2 DEF Undecided
    <3>4. QED
      BY <3>1, <3>2, <3>3
  <2>3. CASE c # d
    BY <1>1, <1>3, <2>3 DEF Receive, ReceiveFails, DenyWith
  <2>4. QED
    BY <2>2, <2>3
<1>4. ASSUME NEW d \in Call, Decide(d)
      PROVE  \/ decision'[c] = decision[c] /\ seen'[c] = seen[c]
             \/ as[c] = "deciding" /\ as'[c] = "writing" /\ seen'[c] = seen[c]
  BY <1>1, <1>4 DEF Decide
<1>5. ASSUME NEW d \in Call,
             WriteNothing(d) \/ WriteHeader(d) \/ WriteBody(d) \/ Crash(d)
      PROVE  decision'[c] = decision[c] /\ seen'[c] = seen[c]
  BY <1>5 DEF WriteNothing, WriteHeader, WriteBody, Crash
<1>6. ASSUME NEW d \in Call,
             \/ Reject(d) \/ Send(d) \/ Cancel(d) \/ ClientStep(d) \/ Cut(d)
             \/ Redirect(d) \/ TooManyRedirects(d) \/ GatewayAnswers(d)
      PROVE  UNCHANGED server
  BY <1>6 DEF Reject, Send, Cancel, ClientStep, DoFails, DoReturns, ReadFails,
     Finish, FinishTruncated, Cut, Redirect, TooManyRedirects, GatewayAnswers
<1>7. CASE UNCHANGED vars
  BY <1>2, <1>7 DEF vars
<1>8. QED
  BY <1>2, <1>3, <1>4, <1>5, <1>6, <1>7 DEF Next, HandlerStep, Fault

\* The token was issued for what the handler parsed.
LEMMA PolicyIsFollowed == ExampleSpec => []IssuedAsSeen
<1>1. ExampleInit => IssuedAsSeen
  <2>1. Undecided.kind # "granted"
    BY DEF Undecided
  <2>2. QED
    BY <2>1 DEF ExampleInit, Init, IssuedAsSeen
<1>2. Inv /\ IssuedAsSeen /\ [ExampleNext]_<<vars, policy>> => IssuedAsSeen'
  <2> SUFFICES ASSUME Inv, IssuedAsSeen, [ExampleNext]_<<vars, policy>>,
                      NEW c \in Call, decision'[c].kind = "granted"
               PROVE  decision'[c] = Granted(Issue(seen[c])')
    BY DEF IssuedAsSeen, Granted
  <2>1. [Next]_vars /\ policy' = policy
    BY DEF ExampleNext
  <2>2. ASSUME seen'[c] = seen[c] PROVE Issue(seen[c])' = Issue(seen[c])
    BY <2>1, <2>2 DEF Issue, Token
  <2>3. CASE decision'[c] = decision[c] /\ seen'[c] = seen[c]
    BY <2>2, <2>3 DEF IssuedAsSeen
  <2>4. CASE as[c] = "deciding" /\ as'[c] = "writing" /\ seen'[c] = seen[c]
    <3>1. ExampleDecides(c)
      BY <2>4 DEF ExampleNext, vars, server
    <3>2. QED
      BY <2>2, <2>4, <3>1 DEF ExampleDecides
  <2>5. QED
    BY <2>1, <2>3, <2>4, GrantsAreDecided
<1>3. QED
  BY <1>1, <1>2, ExamplesExchange, Invariance, PTL DEF ExampleSpec

-----------------------------------------------------------------------------
\* The first resource and audience of the caller come first.
LEMMA FirstIsTheCallers ==
    ASSUME NEW r \in TokenExchangeRequest, NEW q, IsForm(q), r[policy] # <<>>,
           policy \in {"Resource", "Audience"}
    PROVE  FirstOrEmpty(Parse(MergeForm(Encode(r), q))[policy]) = Head(r[policy])
<1> DEFINE form == MergeForm(Encode(r), q)
<1>1. ASSUME NEW s \in Seq(Str), NEW t \in Seq(Str), s # <<>>
      PROVE  FirstOrEmpty(s \o t) = Head(s)
  <2>1. /\ Len(s) \in Nat \ {0} /\ Len(t) \in Nat
        /\ Len(s \o t) = Len(s) + Len(t) /\ s \o t \in Seq(Str)
        /\ \A i \in 1..(Len(s) + Len(t)) :
              (s \o t)[i] = IF i <= Len(s) THEN s[i] ELSE t[i - Len(s)]
    BY <1>1, ConcatProperties, EmptySeq, LenProperties
  <2> DEFINE w == s \o t
  <2>2. w \in Seq(Str) /\ Len(w) # 0 /\ w[1] = s[1]
    BY <2>1
  <2> HIDE DEF w
  <2>3. FirstOrEmpty(w) = Head(s)
    BY <1>1, <2>2 DEF FirstOrEmpty
  <2>4. QED
    BY <2>3 DEF w
<1>2. /\ form[ParamResource] = r.Resource \o q[ParamResource]
      /\ form[ParamAudience] = r.Audience \o q[ParamAudience]
  BY EncodedForm
<1>3. /\ r.Resource \in Seq(Str) /\ r.Audience \in Seq(Str)
      /\ q[ParamResource] \in Seq(Str) /\ q[ParamAudience] \in Seq(Str)
  BY ParamsAreDistinct DEF TokenExchangeRequest, IsForm, builtinRequestParams,
     ParamResource, ParamAudience, ParamScope
<1>4. /\ Parse(form).Resource = form[ParamResource]
      /\ Parse(form).Audience = form[ParamAudience]
  BY DEF Parse
<1> HIDE DEF form
<1>5. CASE policy = "Resource"
  BY <1>1, <1>2, <1>3, <1>4, <1>5 DEF form
<1>6. CASE policy = "Audience"
  BY <1>1, <1>2, <1>3, <1>4, <1>6 DEF form
<1>7. QED
  BY <1>5, <1>6

\* Whatever an endpoint's query, a redirect or an intermediary adds, the token
\* that a caller is given names the first resource (audience) it asked for.
THEOREM TokensNameTheFirst ==
    ASSUME OpaquePages, GrantsAreApart
    PROVE  ExampleSpec => []TokenIsForTheFirst
<1>1. /\ policy \in {"Resource", "Audience"}
      /\ Inv /\ IssuedAsSeen /\ SuccessIsTheGrant
      => TokenIsForTheFirst
  <2> SUFFICES ASSUME policy \in {"Resource", "Audience"}, Inv, IssuedAsSeen,
                      SuccessIsTheGrant, NEW c \in Call,
                      result[c].kind = "success", ~Replaced(c),
                      arg[c][policy] # <<>>
               PROVE  result[c].resp.AccessToken =
                          ToUTF8[AccessTokenFor[Head(arg[c][policy])]]
    BY DEF TokenIsForTheFirst
  <2>1. /\ decision[c].kind = "granted"
        /\ result[c].resp = Arrives(decision[c].resp)
    BY DEF SuccessIsTheGrant
  <2>2. decision[c].resp = Issue(seen[c])
    <3>1. \A r : Granted(r).resp = r
      BY DEF Granted
    <3>2. QED
      BY <2>1, <3>1 DEF IssuedAsSeen
  <2>3. FirstOrEmpty(seen[c][policy]) = Head(arg[c][policy])
    BY <2>1, GrantedIsEncoded, FirstIsTheCallers
  <2>4. Issue(seen[c]) = Token(Head(arg[c][policy]))
    BY <2>3 DEF Issue
  <2>5. \A r : Arrives(r).AccessToken = ToUTF8[r.AccessToken]
    BY DEF Arrives
  <2>6. \A s : Token(s).AccessToken = AccessTokenFor[s]
    BY DEF Token
  <2>7. QED
    BY <2>1, <2>2, <2>4, <2>5, <2>6
<1>2. QED
  BY <1>1, ExamplesExchange, Invariance, PolicyIsFixed, PolicyIsFollowed,
     SuccessfulCallsHoldTheGrant, PTL

\* AS and caller agree on the type of token that was asked for, explicitly or by
\* default, except that the query of the URL may give the default another value.
THEOREM TypesAreAgreed == ExampleSpec => []TypeIsAgreed
<1>1. Inv => TypeIsAgreed
  <2> SUFFICES ASSUME Inv, NEW c \in Call, decision[c].kind = "granted", ~Replaced(c)
               PROVE  LET added == Get(inbound[c].query, ParamRequestedTokenType)
                      IN  /\ RequestedOrSubjectTokenType(seen[c]) \in URI
                          /\ RequestedOrSubjectTokenType(seen[c]) =
                               IF arg[c].RequestedTokenType = "" /\ added # ""
                               THEN added
                               ELSE RequestedOrSubjectTokenType(arg[c])
    BY DEF TypeIsAgreed
  <2> DEFINE q == inbound[c].query
             p == ParamRequestedTokenType
  <2>1. /\ arg[c] \in TokenExchangeRequest
        /\ ValidateRequest(seen[c]) = Valid /\ IsForm(q)
        /\ seen[c] = Parse(MergeForm(Encode(arg[c]), q))
    BY GrantedIsEncoded
  <2>2. seen[c] # Nil
    BY <2>1 DEF ValidateRequest, Valid
  <2>3. Prevails(Meaning(arg[c]), seen[c])
    BY <2>1, QueryComesSecond
  <2>4. /\ seen[c].SubjectTokenType = arg[c].SubjectTokenType
        /\ arg[c].RequestedTokenType # "" =>
              seen[c].RequestedTokenType = arg[c].RequestedTokenType
    BY <2>1, <2>3, MeaningKeeps DEF Prevails
  <2>5. ASSUME arg[c].RequestedTokenType = ""
        PROVE  seen[c].RequestedTokenType = Get(q, p)
    <3> DEFINE form == MergeForm(Encode(arg[c]), q)
    <3>1. q[p] \in Seq(Str)
      BY <2>1 DEF IsForm, Param, builtinRequestParams, ParamRequestedTokenType,
         ParamScope
    <3>2. form[p] = IfPresent(arg[c].RequestedTokenType) \o q[p]
      <4>1. \A r, query : MergeForm(Encode(r), query)[ParamRequestedTokenType] =
               IfPresent(r.RequestedTokenType) \o query[ParamRequestedTokenType]
        BY ZenonT(60), EncodedForm
      <4>2. QED
        BY <4>1
    <3>3. form[p] = <<>> \o q[p]
      BY <2>5, <3>2 DEF IfPresent
    <3>4. form[p] = q[p]
      BY <3>1, <3>3, ConcatEmptySeq
    <3> HIDE DEF form
    <3>5. Parse(form).RequestedTokenType = Get(q, p)
      BY <3>4 DEF Parse, Get
    <3>6. QED
      BY <2>1, <3>5 DEF form
  <2>6. /\ seen[c].SubjectTokenType \in URI
        /\ seen[c].RequestedTokenType # "" => seen[c].RequestedTokenType \in URI
    BY <2>1, <2>2 DEF ValidateRequest, Valid, isValidTokenTypeURI, ParamGrantType,
       ParamSubjectToken, ParamSubjectTokenType, ParamActorToken,
       ParamActorTokenType, ParamRequestedTokenType
  <2> DEFINE added == Get(q, p)
  <2> HIDE DEF added
  <2>7. arg[c].RequestedTokenType = "" => seen[c].RequestedTokenType = added
    BY <2>5 DEF added
  <2>8. /\ RequestedOrSubjectTokenType(seen[c]) \in URI
        /\ RequestedOrSubjectTokenType(seen[c]) =
             IF arg[c].RequestedTokenType = "" /\ added # "" THEN added
             ELSE RequestedOrSubjectTokenType(arg[c])
    BY <2>4, <2>6, <2>7 DEF RequestedOrSubjectTokenType
  <2>9. QED
    BY <2>8 DEF added
<1>2. QED
  BY <1>1, ExamplesExchange, Invariance, PTL
=============================================================================
