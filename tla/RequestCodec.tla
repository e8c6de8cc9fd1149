---------------------------- MODULE RequestCodec ----------------------------
(***************************************************************************)
(* The request half of the codec: TokenExchangeRequest, Encode, Parse and  *)
(* Validate.  A form (url.Values) maps every parameter name to the         *)
(* sequence of its values, <<>> when the form does not carry it.  A scope  *)
(* string is abstracted to the sequence of its space-separated words; all  *)
(* other strings are opaque.                                               *)
(***************************************************************************)
EXTENDS Values, Sequences, SequencesExt

CONSTANT ExtraParam  \* form parameter names that RFC 8693 does not define

ParamGrantType          == "grant_type"
ParamResource           == "resource"
ParamAudience           == "audience"
ParamScope              == "scope"
ParamRequestedTokenType == "requested_token_type"
ParamSubjectToken       == "subject_token"
ParamSubjectTokenType   == "subject_token_type"
ParamActorToken         == "actor_token"
ParamActorTokenType     == "actor_token_type"

builtinRequestParams ==
    { ParamGrantType, ParamResource, ParamAudience, ParamScope,
      ParamRequestedTokenType, ParamSubjectToken, ParamSubjectTokenType,
      ParamActorToken, ParamActorTokenType }

ASSUME ExtraParamAssumption == ExtraParam \cap builtinRequestParams = {}

Param == builtinRequestParams \cup ExtraParam

\* The words of one scope string; <<>> is the empty (or all-blank) string.
ScopeString == Seq(Str \ {""})

\* f carries a sequence of scope strings under "scope", of strings elsewhere.
IsForm(f) ==
    /\ f = [p \in Param |-> f[p]]
    /\ \A p \in Param : f[p] \in Seq(IF p = ParamScope THEN ScopeString ELSE Str)

NoForm == [p \in Param |-> <<>>]

TokenExchangeRequest ==
    [ GrantType : Str, SubjectToken : Str, SubjectTokenType : Str,
      RequestedTokenType : Str, ActorToken : Str, ActorTokenType : Str,
      Resource : Seq(Str), Audience : Seq(Str), Scope : Seq(ScopeString),
      Extra : [Param -> Seq(Str)] ]

-----------------------------------------------------------------------------
\* Mutant: the last value.
GetLast(form, p) == IF form[p] = <<>> THEN "" ELSE Last(form[p])

\* url.Values.Get: the first value, or "" when there is none.
Get(form, p) == IF form[p] = <<>> THEN "" ELSE Head(form[p])

IfPresent(s) == IF s = "" THEN <<>> ELSE <<s>>

\* Mutant: one scope parameter per element.
OneValuePerScope(scope) == scope

\* strings.Join(elements, " "), as the words that strings.Fields will find.
Join(scope) == IF scope = <<>> THEN <<>> ELSE <<FlattenSeq(scope)>>

\* The required parameters are always emitted, the optional ones when present,
\* and Extra only under names that are not built-in.
Encode(r) ==
    [p \in Param |->
        CASE p = ParamGrantType          -> <<r.GrantType>>
          [] p = ParamSubjectToken       -> <<r.SubjectToken>>
          [] p = ParamSubjectTokenType   -> <<r.SubjectTokenType>>
          [] p = ParamResource           -> r.Resource
          [] p = ParamAudience           -> r.Audience
          [] p = ParamScope              -> Join(r.Scope)
          [] p = ParamRequestedTokenType -> IfPresent(r.RequestedTokenType)
          [] p = ParamActorToken         -> IfPresent(r.ActorToken)
          [] p = ParamActorTokenType     -> IfPresent(r.ActorTokenType)
          [] OTHER                       -> r.Extra[p]]

\* One element per word of the first scope value; nil when there is no word.
splitScope(values) ==
    IF values = <<>> THEN <<>>
    ELSE [i \in DOMAIN Head(values) |-> <<Head(values)[i]>>]

\* Parse reads r.Form and never validates.
Parse(form) ==
    [ GrantType          |-> Get(form, ParamGrantType),
      SubjectToken       |-> Get(form, ParamSubjectToken),
      SubjectTokenType   |-> Get(form, ParamSubjectTokenType),
      RequestedTokenType |-> Get(form, ParamRequestedTokenType),
      ActorToken         |-> Get(form, ParamActorToken),
      ActorTokenType     |-> Get(form, ParamActorTokenType),
      Resource           |-> form[ParamResource],
      Audience           |-> form[ParamAudience],
      Scope              |-> splitScope(form[ParamScope]),
      Extra              |-> [p \in Param |-> IF p \in ExtraParam
                                              THEN form[p] ELSE <<>>] ]

\* http.Request.ParseForm: the values of the body come before those of the
\* URL query under every name.
MergeForm(body, query) == [p \in Param |-> body[p] \o query[p]]

-----------------------------------------------------------------------------
\* The rules of Validate, in the order the code tests them; the verdict names
\* the parameter of the first one that is broken.
ValidateRequest(r) ==
    IF r = Nil THEN "nil request"
    ELSE IF r.GrantType # GrantTypeTokenExchange THEN ParamGrantType
    ELSE IF r.SubjectToken = "" THEN ParamSubjectToken
    ELSE IF ~isValidTokenTypeURI(r.SubjectTokenType) THEN ParamSubjectTokenType
    ELSE IF r.ActorToken = "" /\ r.ActorTokenType # "" THEN ParamActorToken
    ELSE IF r.ActorToken # "" /\ ~isValidTokenTypeURI(r.ActorTokenType)
         THEN ParamActorTokenType
    ELSE IF /\ r.RequestedTokenType # ""
            /\ ~isValidTokenTypeURI(r.RequestedTokenType)
         THEN ParamRequestedTokenType
    ELSE Valid

\* What a caller means by r, whatever the shape it gave the struct: scope is
\* one list of words, and a built-in name in Extra carries nothing.
Meaning(r) ==
    LET words == FlattenSeq(r.Scope)
    IN  [r EXCEPT !.Scope = [i \in DOMAIN words |-> <<words[i]>>],
                  !.Extra = [p \in Param |->
                                IF p \in ExtraParam THEN @[p] ELSE <<>>]]

\* got says all that want says, and possibly more.
Prevails(want, got) ==
    /\ got.GrantType = want.GrantType
    /\ got.SubjectToken = want.SubjectToken
    /\ got.SubjectTokenType = want.SubjectTokenType
    /\ want.RequestedTokenType # "" =>
           got.RequestedTokenType = want.RequestedTokenType
    /\ want.ActorToken # "" => got.ActorToken = want.ActorToken
    /\ want.ActorTokenType # "" => got.ActorTokenType = want.ActorTokenType
    /\ IsPrefix(want.Resource, got.Resource)
    /\ IsPrefix(want.Audience, got.Audience)
    /\ want.Scope # <<>> => got.Scope = want.Scope
    /\ \A p \in ExtraParam : IsPrefix(want.Extra[p], got.Extra[p])
=============================================================================
