----------------------------- MODULE CodecProofs ----------------------------
(***************************************************************************)
(* Proofs about the codec, for every value of its constants: what the      *)
(* library writes, it reads.                                               *)
(***************************************************************************)
EXTENDS RequestCodec, ResponseCodec, SequenceTheorems, FiniteSetTheorems,
        WellFoundedInduction, TLAPS

-----------------------------------------------------------------------------
(* encoding/json. *)

\* The names are numbered without repetition.
LEMMA NamesAreIndexed ==
    /\ Len(NameOrder) \in Nat
    /\ DOMAIN NameOrder = 1..Len(NameOrder)
    /\ \A i \in 1..Len(NameOrder) : NameOrder[i] \in Name
    /\ \A n \in Name : \E k \in 1..Len(NameOrder) :
          /\ NameOrder[k] = n
          /\ \A i \in 1..Len(NameOrder) : NameOrder[i] = n => i = k
<1>1. /\ NameOrder \in Seq(STRING)
      /\ \A i, j \in DOMAIN NameOrder : NameOrder[i] = NameOrder[j] => i = j
  BY JsonAssumption
<1>2. DOMAIN NameOrder = 1..Len(NameOrder) /\ Len(NameOrder) \in Nat
  BY <1>1, LenProperties
<1>3. QED
  BY <1>1, <1>2 DEF Name

\* The members of a marshaled map are its entries, in the order of the names.
LEMMA MembersInOrder ==
    ASSUME NEW map
    PROVE  LET ms == MarshalMap(map).members
           IN  /\ Len(ms) = Len(NameOrder)
               /\ DOMAIN ms = 1..Len(NameOrder)
               /\ \A i \in 1..Len(NameOrder) :
                     /\ ms[i].name = NameOrder[i]
                     /\ ms[i].value = map[NameOrder[i]]
<1>1. Len(NameOrder) \in Nat /\ DOMAIN NameOrder = 1..Len(NameOrder)
  BY NamesAreIndexed
<1>2. MarshalMap(map).members =
        [i \in 1..Len(NameOrder) |->
            [name |-> NameOrder[i], value |-> map[NameOrder[i]]]]
  BY <1>1 DEF MarshalMap, Object
<1>3. QED
  BY <1>1, <1>2

\* Decoding field f of a marshaled map gives the entry under f, if no other
\* entry has a name that folds onto f.
LEMMA FieldOfMap ==
    ASSUME NEW map, NEW f \in Name, NEW zero, Fold[f] = f,
           \A n \in Name : n # f /\ Fold[n] = f => map[n] \in {Null, Absent}
    PROVE  Field(MarshalMap(map), f, zero) =
               IF map[f] \in {Null, Absent} THEN zero ELSE map[f].of
<1> DEFINE ms == MarshalMap(map).members
           I  == { i \in 1..Len(ms) : Matches(ms[i], f) }
<1>1. PICK k \in 1..Len(NameOrder) :
        /\ NameOrder[k] = f
        /\ \A i \in 1..Len(NameOrder) : NameOrder[i] = f => i = k
  BY NamesAreIndexed
<1>2. /\ Len(ms) = Len(NameOrder)
      /\ \A i \in 1..Len(NameOrder) :
            ms[i].name = NameOrder[i] /\ ms[i].value = map[NameOrder[i]]
  BY MembersInOrder
<1>3. \A i \in 1..Len(NameOrder) :
        Matches(ms[i], f) <=> i = k /\ map[f] \notin {Null, Absent}
  <2> SUFFICES ASSUME NEW i \in 1..Len(NameOrder)
               PROVE  Matches(ms[i], f) <=>
                          i = k /\ map[f] \notin {Null, Absent}
    OBVIOUS
  <2>1. NameOrder[i] \in Name
    BY NamesAreIndexed
  <2>2. QED
    BY <1>1, <1>2, <2>1 DEF Matches
<1>4. CASE map[f] \in {Null, Absent}
  <2>1. I = {}
    BY <1>2, <1>3, <1>4
  <2>2. SelectLastInSeq(ms, LAMBDA m : Matches(m, f)) = 0
    BY <2>1 DEF SelectLastInSeq
  <2>3. QED
    BY <2>2, <1>4 DEF Field
<1>5. CASE map[f] \notin {Null, Absent}
  <2>1. I = {k}
    BY <1>2, <1>3, <1>5
  <2>2. Max(I) = k
    BY <2>1 DEF Max
  <2>3. SelectLastInSeq(ms, LAMBDA m : Matches(m, f)) = k
    BY <2>1, <2>2 DEF SelectLastInSeq
  <2>4. QED
    BY <2>3, <1>1, <1>2, <1>5 DEF Field
<1>6. QED
  BY <1>4, <1>5

\* What json.Unmarshal finds in a map that json.Marshal wrote is that map.
LEMMA MapRoundTrips ==
    ASSUME NEW map, NEW n \in Name
    PROVE  UnmarshalMap(MarshalMap(map))[n] = map[n]
<1> DEFINE ms == MarshalMap(map).members
           I  == { i \in 1..Len(ms) : ms[i].name = n /\ ms[i].value # Absent }
<1>1. PICK k \in 1..Len(NameOrder) : NameOrder[k] = n
  BY NamesAreIndexed
<1>2. /\ Len(ms) = Len(NameOrder)
      /\ \A i \in 1..Len(NameOrder) :
            ms[i].name = NameOrder[i] /\ ms[i].value = map[NameOrder[i]]
  BY MembersInOrder
<1>3. \A i \in 1..Len(NameOrder) : NameOrder[i] = n => i = k
  BY <1>1, NamesAreIndexed
<1>4. CASE map[n] = Absent
  <2>1. I = {}
    BY <1>2, <1>4
  <2>2. SelectLastInSeq(ms, LAMBDA m : m.name = n /\ m.value # Absent) = 0
    BY <2>1 DEF SelectLastInSeq
  <2>3. QED
    BY <2>2, <1>4 DEF UnmarshalMap
<1>5. CASE map[n] # Absent
  <2>1. I = {k}
    BY <1>1, <1>2, <1>3, <1>5
  <2>2. Max(I) = k
    BY <2>1 DEF Max
  <2>3. SelectLastInSeq(ms, LAMBDA m : m.name = n /\ m.value # Absent) = k
    BY <2>1, <2>2 DEF SelectLastInSeq
  <2>4. QED
    BY <2>3, <1>1, <1>2 DEF UnmarshalMap
<1>6. QED
  BY <1>4, <1>5

\* No member of the marshaled map makes decoding field f fail, if the entry
\* under f has the kind of f and no other name folds onto f.
LEMMA MapIsWellKinded ==
    ASSUME NEW map, NEW f \in Name, NEW kind,
           map[f] \in {Null, Absent} \/ map[f].kind = kind,
           \A n \in Name : n # f /\ Fold[n] = f => map[n] \in {Null, Absent}
    PROVE  WellKinded(MarshalMap(map), f, kind)
<1> DEFINE ms == MarshalMap(map).members
<1>1. /\ DOMAIN ms = 1..Len(NameOrder)
      /\ \A i \in 1..Len(NameOrder) :
            ms[i].name = NameOrder[i] /\ ms[i].value = map[NameOrder[i]]
  BY MembersInOrder
<1>2. \A i \in 1..Len(NameOrder) : NameOrder[i] \in Name
  BY NamesAreIndexed
<1>3. QED
  BY <1>1, <1>2 DEF WellKinded, Matches

\* A string member is neither null nor absent.
LEMMA StringsAreValues ==
    ASSUME NEW s
    PROVE  String(s) \notin {Null, Absent} /\ String(s).kind = "string"
               /\ String(s).of = s
<1>1. String(s) # Null /\ String(s) # Absent
  <2>1. "of" \in DOMAIN String(s) /\ "of" \notin DOMAIN Null
            /\ "of" \notin DOMAIN Absent
    BY DEF String, Null, Absent
  <2>2. QED
    BY <2>1
<1>2. QED
  BY <1>1 DEF String

\* The six response fields are five strings and expires_in.
LEMMA NamesOfFields ==
    /\ builtinResponseFields = stringFields \cup {FieldExpiresIn}
    /\ { FieldAccessToken, FieldIssuedTokenType, FieldTokenType, FieldScope,
         FieldRefreshToken } \subseteq stringFields
  BY DEF builtinResponseFields, stringFields

\* A response decodes from its own JSON, to all a receiver can know of it.
THEOREM ResponseRoundTrips ==
    ASSUME NEW r \in TokenExchangeResponse, ExtraIsApart(r)
    PROVE  /\ ResponseDecodes(MarshalResponse(r))
           /\ UnmarshalResponse(MarshalResponse(r)) = Arrives(r)
<1> DEFINE body == MarshalMap(merged(r))
<1>1. builtinResponseFields \subseteq Name
      /\ \A f \in builtinResponseFields : Fold[f] = f
  BY NamesAssumption
<1>2. ASSUME NEW f \in builtinResponseFields
      PROVE  \A n \in Name :
                 n # f /\ Fold[n] = f => merged(r)[n] \in {Null, Absent}
  <2> SUFFICES ASSUME NEW n \in Name, n # f, Fold[n] = f
               PROVE  merged(r)[n] \in {Null, Absent}
    OBVIOUS
  <2>1. n \notin builtinResponseFields
    BY <1>1
  <2>2. merged(r)[n] = r.Extra[n]
    BY <2>1 DEF merged, builtinResponseFields, stringFields
  <2>3. QED
    BY <2>1, <2>2 DEF ExtraIsApart
<1>3. ASSUME NEW f \in builtinResponseFields, NEW zero
      PROVE  Field(body, f, zero) =
                 IF merged(r)[f] \in {Null, Absent} THEN zero
                 ELSE merged(r)[f].of
  BY <1>1, <1>2, FieldOfMap
<1>4. /\ merged(r)[FieldAccessToken] = String(ToUTF8[r.AccessToken])
      /\ merged(r)[FieldIssuedTokenType] = String(ToUTF8[r.IssuedTokenType])
      /\ merged(r)[FieldTokenType] = String(ToUTF8[r.TokenType])
      /\ merged(r)[FieldExpiresIn] = IF r.ExpiresIn = 0 THEN Absent
                                     ELSE Number(r.ExpiresIn)
      /\ merged(r)[FieldScope] = StringUnlessEmpty(r.Scope)
      /\ merged(r)[FieldRefreshToken] = StringUnlessEmpty(r.RefreshToken)
  BY <1>1 DEF merged, builtinResponseFields, stringFields, FieldAccessToken,
     FieldIssuedTokenType, FieldTokenType, FieldExpiresIn, FieldScope,
     FieldRefreshToken
<1>5. ASSUME NEW f \in stringFields, NEW s, merged(r)[f] = String(s)
      PROVE  Field(body, f, "") = s /\ WellKinded(body, f, "string")
  <2>1. String(s) \notin {Null, Absent} /\ String(s).kind = "string"
          /\ String(s).of = s
    BY StringsAreValues
  <2>2. f \in builtinResponseFields
    BY NamesOfFields
  <2>3. Field(body, f, "") = s
    BY <1>3, <1>5, <2>1, <2>2
  <2>4. WellKinded(body, f, "string")
    BY <1>1, <1>2, <1>5, <2>1, <2>2, MapIsWellKinded
  <2>5. QED
    BY <2>3, <2>4
<1>6. ASSUME NEW f \in stringFields, NEW s \in Str,
             merged(r)[f] = StringUnlessEmpty(s)
      PROVE  Field(body, f, "") = ToUTF8[s] /\ WellKinded(body, f, "string")
  <2>1. CASE s = ""
    <3>1. merged(r)[f] = Absent /\ ToUTF8[s] = ""
      BY <1>6, <2>1, JsonAssumption DEF StringUnlessEmpty
    <3>2. f \in builtinResponseFields
      BY NamesOfFields
    <3>3. QED
      BY <3>1, <3>2, <1>1, <1>2, <1>3, MapIsWellKinded
  <2>2. CASE s # ""
    BY <1>5, <1>6, <2>2 DEF StringUnlessEmpty
  <2>3. QED
    BY <2>1, <2>2
<1>7. r.Scope \in Str /\ r.RefreshToken \in Str
  BY DEF TokenExchangeResponse
<1>8. ASSUME NEW f \in stringFields PROVE WellKinded(body, f, "string")
  BY <1>4, <1>5, <1>6, <1>7 DEF stringFields
<1>9. /\ Field(body, FieldAccessToken, "") = ToUTF8[r.AccessToken]
      /\ Field(body, FieldIssuedTokenType, "") = ToUTF8[r.IssuedTokenType]
      /\ Field(body, FieldTokenType, "") = ToUTF8[r.TokenType]
  BY <1>4, <1>5, NamesOfFields
<1>10. /\ Field(body, FieldScope, "") = ToUTF8[r.Scope]
       /\ Field(body, FieldRefreshToken, "") = ToUTF8[r.RefreshToken]
  BY <1>4, <1>6, <1>7, NamesOfFields
<1>11. Field(body, FieldExpiresIn, 0) = r.ExpiresIn
  BY <1>3, <1>4, NamesOfFields DEF Number, Null, Absent
<1>12. WellKinded(body, FieldExpiresIn, "number")
  <2>1. \/ merged(r)[FieldExpiresIn] \in {Null, Absent}
        \/ merged(r)[FieldExpiresIn].kind = "number"
    BY <1>4 DEF Number
  <2>2. QED
    BY <2>1, <1>1, <1>2, MapIsWellKinded, NamesOfFields
<1>13. body.json = "object" /\ body # NullBody
  BY DEF MarshalMap, Object, NullBody
<1>14. ASSUME NEW n \in Name \ builtinResponseFields
       PROVE  UnmarshalMap(body)[n] = r.Extra[n]
  <2>1. merged(r)[n] = r.Extra[n]
    BY DEF merged, builtinResponseFields, stringFields
  <2>2. QED
    BY <2>1, MapRoundTrips
<1>15. UnmarshalResponse(body) = Arrives(r)
  BY <1>9, <1>10, <1>11, <1>13, <1>14 DEF UnmarshalResponse, Arrives
<1>16. ResponseDecodes(body)
  BY <1>8, <1>12, <1>13 DEF ResponseDecodes
<1>17. QED
  BY <1>15, <1>16 DEF MarshalResponse

\* An error decodes from its own JSON as well, and keeps its code.
THEOREM ErrorRoundTrips ==
    ASSUME NEW e \in TokenExchangeError
    PROVE  /\ ErrorDecodes(MarshalError(e))
           /\ UnmarshalError(MarshalError(e)) = ErrorArrives(e)
<1> DEFINE map == [n \in Name |->
                      CASE n = "error"             -> String(ToUTF8[e.Code])
                        [] n = "error_description" ->
                               StringUnlessEmpty(e.Description)
                        [] n = "error_uri"         -> StringUnlessEmpty(e.URI)
                        [] OTHER                   -> Absent]
           body == MarshalMap(map)
<1>1. errorFields \subseteq Name /\ \A f \in errorFields : Fold[f] = f
  BY NamesAssumption
<1>2. \A f \in errorFields : \A n \in Name :
          n # f /\ Fold[n] = f => map[n] \in {Null, Absent}
  <2> SUFFICES ASSUME NEW f \in errorFields, NEW n \in Name, n # f, Fold[n] = f
               PROVE  map[n] = Absent
    OBVIOUS
  <2>1. n \notin errorFields
    BY <1>1
  <2>2. QED
    BY <2>1 DEF errorFields
<1>3. /\ map["error"] = String(ToUTF8[e.Code])
      /\ map["error_description"] = StringUnlessEmpty(e.Description)
      /\ map["error_uri"] = StringUnlessEmpty(e.URI)
  BY <1>1 DEF errorFields
<1> HIDE DEF map
<1>4. ASSUME NEW f \in errorFields, NEW zero
       PROVE  Field(body, f, zero) =
                  IF map[f] \in {Null, Absent} THEN zero ELSE map[f].of
  <2>1. f \in Name /\ Fold[f] = f
    BY <1>1
  <2>2. \A n \in Name : n # f /\ Fold[n] = f => map[n] \in {Null, Absent}
    BY <1>2
  <2>3. QED
    BY <2>1, <2>2, FieldOfMap
<1>5. ASSUME NEW f \in errorFields, NEW s, map[f] = String(s)
      PROVE  Field(body, f, "") = s /\ WellKinded(body, f, "string")
  <2>1. String(s) \notin {Null, Absent} /\ String(s).kind = "string"
          /\ String(s).of = s
    BY StringsAreValues
  <2>2. Field(body, f, "") = s
    BY <1>4, <1>5, <2>1
  <2>3. WellKinded(body, f, "string")
    BY <1>1, <1>2, <1>5, <2>1, MapIsWellKinded
  <2>4. QED
    BY <2>2, <2>3
<1>6. ASSUME NEW f \in errorFields, NEW s \in Str, map[f] = StringUnlessEmpty(s)
      PROVE  Field(body, f, "") = ToUTF8[s] /\ WellKinded(body, f, "string")
  <2>1. CASE s = ""
    <3>1. map[f] = Absent /\ ToUTF8[s] = ""
      BY <1>6, <2>1, JsonAssumption DEF StringUnlessEmpty
    <3>2. Field(body, f, "") = ""
      BY <3>1, <1>4
    <3>3. WellKinded(body, f, "string")
      BY <3>1, <1>1, <1>2, MapIsWellKinded
    <3>4. QED
      BY <3>1, <3>2, <3>3
  <2>2. CASE s # ""
    BY <1>5, <1>6, <2>2 DEF StringUnlessEmpty
  <2>3. QED
    BY <2>1, <2>2
<1>7. e.Description \in Str /\ e.URI \in Str
  BY DEF TokenExchangeError
<1>8. \A f \in errorFields : WellKinded(body, f, "string")
  BY <1>3, <1>5, <1>6, <1>7 DEF errorFields
<1>9. /\ Field(body, "error", "") = ToUTF8[e.Code]
      /\ Field(body, "error_description", "") = ToUTF8[e.Description]
      /\ Field(body, "error_uri", "") = ToUTF8[e.URI]
  BY <1>3, <1>5, <1>6, <1>7 DEF errorFields
<1>10. body.json = "object" /\ body # NullBody
  BY DEF MarshalMap, Object, NullBody
<1>11. MarshalError(e) = body
  BY DEF MarshalError, map
<1>12. QED
  BY <1>8, <1>9, <1>10, <1>11
  DEF ErrorDecodes, UnmarshalError, ErrorArrives

-----------------------------------------------------------------------------
(* The request half. *)

\* The nine names are distinct, and are parameters.
LEMMA ParamsAreDistinct ==
    /\ builtinRequestParams \subseteq Param
    /\ \A p \in ExtraParam : p \in Param /\ p \notin builtinRequestParams
  BY ExtraParamAssumption DEF Param

\* What ParseForm makes of an encoded request and the query of its URL.
LEMMA EncodedForm ==
    ASSUME NEW r, NEW query
    PROVE  LET form == MergeForm(Encode(r), query)
           IN  /\ form[ParamGrantType] = <<r.GrantType>> \o query[ParamGrantType]
               /\ form[ParamSubjectToken] =
                      <<r.SubjectToken>> \o query[ParamSubjectToken]
               /\ form[ParamSubjectTokenType] =
                      <<r.SubjectTokenType>> \o query[ParamSubjectTokenType]
               /\ form[ParamResource] = r.Resource \o query[ParamResource]
               /\ form[ParamAudience] = r.Audience \o query[ParamAudience]
               /\ form[ParamScope] = Join(r.Scope) \o query[ParamScope]
               /\ form[ParamRequestedTokenType] =
                      IfPresent(r.RequestedTokenType)
                          \o query[ParamRequestedTokenType]
               /\ form[ParamActorToken] =
                      IfPresent(r.ActorToken) \o query[ParamActorToken]
               /\ form[ParamActorTokenType] =
                      IfPresent(r.ActorTokenType) \o query[ParamActorTokenType]
               /\ \A p \in ExtraParam : form[p] = r.Extra[p] \o query[p]
<1>1. ASSUME NEW p \in Param
      PROVE  MergeForm(Encode(r), query)[p] = Encode(r)[p] \o query[p]
  BY DEF MergeForm
<1>2. /\ Encode(r)[ParamGrantType] = <<r.GrantType>>
      /\ Encode(r)[ParamSubjectToken] = <<r.SubjectToken>>
      /\ Encode(r)[ParamSubjectTokenType] = <<r.SubjectTokenType>>
      /\ Encode(r)[ParamResource] = r.Resource
      /\ Encode(r)[ParamAudience] = r.Audience
      /\ Encode(r)[ParamScope] = Join(r.Scope)
      /\ Encode(r)[ParamRequestedTokenType] = IfPresent(r.RequestedTokenType)
      /\ Encode(r)[ParamActorToken] = IfPresent(r.ActorToken)
      /\ Encode(r)[ParamActorTokenType] = IfPresent(r.ActorTokenType)
  BY ParamsAreDistinct DEF Encode, builtinRequestParams, ParamGrantType,
     ParamResource, ParamAudience, ParamScope, ParamRequestedTokenType,
     ParamSubjectToken, ParamSubjectTokenType, ParamActorToken,
     ParamActorTokenType
<1>3. \A p \in ExtraParam : Encode(r)[p] = r.Extra[p]
  BY ParamsAreDistinct DEF Encode, builtinRequestParams
<1>4. QED
  BY <1>1, <1>2, <1>3, ParamsAreDistinct DEF builtinRequestParams

\* What comes first stays first.
LEMMA FirstStaysFirst ==
    ASSUME NEW x, NEW S, NEW q \in Seq(S)
    PROVE  <<x>> \o q # <<>> /\ Head(<<x>> \o q) = x
<1> DEFINE T == S \cup {x}
           w == <<x>> \o q
<1>1. <<x>> \in Seq(T) /\ q \in Seq(T) /\ Len(<<x>>) = 1 /\ <<x>>[1] = x
  OBVIOUS
<1>2. /\ w \in Seq(T) /\ Len(w) = 1 + Len(q)
      /\ \A i \in 1..(1 + Len(q)) : w[i] = IF i <= 1 THEN <<x>>[i] ELSE q[i - 1]
  BY <1>1, ConcatProperties
<1>3. Len(q) \in Nat
  OBVIOUS
<1>4. w[1] = x /\ Len(w) # 0
  BY <1>1, <1>2, <1>3
<1> HIDE DEF w, T
<1>5. w # <<>> /\ Head(w) = x
  BY <1>2, <1>4
<1>6. QED
  BY <1>5 DEF w

LEMMA OneValue ==
    ASSUME NEW x
    PROVE  <<x>> \o <<>> = <<x>> /\ <<x>> # <<>> /\ Head(<<x>>) = x
<1>1. <<x>> \in Seq({x})
  OBVIOUS
<1>2. <<x>> \o <<>> = <<x>>
  BY <1>1, ConcatEmptySeq
<1>3. <<>> \in Seq({x})
  OBVIOUS
<1>4. <<x>> \o <<>> # <<>> /\ Head(<<x>> \o <<>>) = x
  BY <1>3, FirstStaysFirst
<1>5. QED
  BY <1>2, <1>4

\* A value that is sent comes back; an optional one comes back, absent or not.
LEMMA ValueComesBack ==
    ASSUME NEW s, NEW form, NEW p, form[p] \in {<<s>>, IfPresent(s)}
    PROVE  Get(form, p) = s
<1>1. CASE form[p] = <<s>>
  BY <1>1, OneValue DEF Get
<1>2. CASE form[p] = IfPresent(s) /\ s = ""
  BY <1>2 DEF Get, IfPresent
<1>3. CASE form[p] = IfPresent(s) /\ s # ""
  BY <1>1, <1>3 DEF IfPresent
<1>4. QED
  BY <1>1, <1>2, <1>3

LEMMA NothingFollows ==
    /\ \A s : IfPresent(s) \o <<>> = IfPresent(s)
    /\ \A scope : Join(scope) \o <<>> = Join(scope)
<1>1. <<>> \o <<>> = <<>>
  BY ConcatEmptySeq
<1>2. ASSUME NEW s PROVE IfPresent(s) \o <<>> = IfPresent(s)
  BY <1>1, OneValue DEF IfPresent
<1>3. ASSUME NEW scope PROVE Join(scope) \o <<>> = Join(scope)
  BY <1>1, OneValue DEF Join
<1>4. QED
  BY <1>2, <1>3

\* The words of the scope are those of its elements, one after the other.
LEMMA ScopeComesBack ==
    ASSUME NEW scope
    PROVE  splitScope(Join(scope)) =
               [i \in DOMAIN FlattenSeq(scope) |-> <<FlattenSeq(scope)[i]>>]
<1>1. CASE scope = <<>>
  <2>1. FlattenSeq(scope) = <<>>
    BY <1>1 DEF FlattenSeq
  <2>2. QED
    BY <1>1, <2>1 DEF Join, splitScope
<1>2. CASE scope # <<>>
  BY <1>2, OneValue DEF Join, splitScope
<1>3. QED
  BY <1>1, <1>2

\* A request whose Scope and Extra are replaced keeps its other fields.
LEMMA RequestUpdated ==
    ASSUME NEW r, NEW scope, NEW extra,
           r = [ GrantType |-> r.GrantType, SubjectToken |-> r.SubjectToken,
                 SubjectTokenType |-> r.SubjectTokenType,
                 RequestedTokenType |-> r.RequestedTokenType,
                 ActorToken |-> r.ActorToken,
                 ActorTokenType |-> r.ActorTokenType,
                 Resource |-> r.Resource, Audience |-> r.Audience,
                 Scope |-> r.Scope, Extra |-> r.Extra ]
    PROVE  [r EXCEPT !.Scope = scope, !.Extra = extra] =
               [ GrantType |-> r.GrantType, SubjectToken |-> r.SubjectToken,
                 SubjectTokenType |-> r.SubjectTokenType,
                 RequestedTokenType |-> r.RequestedTokenType,
                 ActorToken |-> r.ActorToken,
                 ActorTokenType |-> r.ActorTokenType,
                 Resource |-> r.Resource, Audience |-> r.Audience,
                 Scope |-> scope, Extra |-> extra ]
<1> DEFINE new == [r EXCEPT !.Scope = scope, !.Extra = extra]
<1>1. DOMAIN r = { "GrantType", "SubjectToken", "SubjectTokenType",
                   "RequestedTokenType", "ActorToken", "ActorTokenType",
                   "Resource", "Audience", "Scope", "Extra" }
  OBVIOUS
<1>2. new = [f \in DOMAIN r |-> IF f = "Scope" THEN scope
                               ELSE IF f = "Extra" THEN extra ELSE r[f]]
  BY <1>1
<1>3. QED
  BY <1>1, <1>2

\* What a caller means by a request differs from it in scope and Extra only.
LEMMA MeaningIs ==
    ASSUME NEW r \in TokenExchangeRequest
    PROVE  Meaning(r) =
          [ GrantType |-> r.GrantType, SubjectToken |-> r.SubjectToken,
            SubjectTokenType |-> r.SubjectTokenType,
            RequestedTokenType |-> r.RequestedTokenType,
            ActorToken |-> r.ActorToken, ActorTokenType |-> r.ActorTokenType,
            Resource |-> r.Resource, Audience |-> r.Audience,
            Scope |-> [i \in DOMAIN FlattenSeq(r.Scope) |->
                          <<FlattenSeq(r.Scope)[i]>>],
            Extra |-> [p \in Param |-> IF p \in ExtraParam
                                      THEN r.Extra[p] ELSE <<>>] ]
<1>1. r = [ GrantType |-> r.GrantType, SubjectToken |-> r.SubjectToken,
            SubjectTokenType |-> r.SubjectTokenType,
            RequestedTokenType |-> r.RequestedTokenType,
            ActorToken |-> r.ActorToken, ActorTokenType |-> r.ActorTokenType,
            Resource |-> r.Resource, Audience |-> r.Audience,
            Scope |-> r.Scope, Extra |-> r.Extra ]
  BY DEF TokenExchangeRequest
<1>2. Meaning(r) =
        [r EXCEPT
            !.Scope = [i \in DOMAIN FlattenSeq(r.Scope) |->
                          <<FlattenSeq(r.Scope)[i]>>],
            !.Extra = [p \in Param |-> IF p \in ExtraParam
                                      THEN r.Extra[p] ELSE <<>>] ]
  BY DEF Meaning
<1>3. QED
  BY <1>1, <1>2, RequestUpdated

\* Parse undoes Encode, up to the layout of scope and the Extra entries under
\* built-in names (request_codec.go, request_parse.go), when the URL has no query.
THEOREM RequestRoundTrips ==
    ASSUME NEW r \in TokenExchangeRequest
    PROVE  Parse(MergeForm(Encode(r), NoForm)) = Meaning(r)
<1> DEFINE form == MergeForm(Encode(r), NoForm)
<1>1. \A p \in Param : NoForm[p] = <<>>
  BY DEF NoForm
<1>2. /\ r.Resource \in Seq(Str) /\ r.Audience \in Seq(Str)
      /\ \A p \in Param : r.Extra[p] \in Seq(Str)
  BY DEF TokenExchangeRequest
<1>3. /\ r.Resource \o <<>> = r.Resource /\ r.Audience \o <<>> = r.Audience
      /\ \A p \in Param : r.Extra[p] \o <<>> = r.Extra[p]
  BY <1>2, ConcatEmptySeq
<1>4. /\ form[ParamGrantType] = <<r.GrantType>>
      /\ form[ParamSubjectToken] = <<r.SubjectToken>>
      /\ form[ParamSubjectTokenType] = <<r.SubjectTokenType>>
      /\ form[ParamResource] = r.Resource
      /\ form[ParamAudience] = r.Audience
      /\ form[ParamScope] = Join(r.Scope)
      /\ form[ParamRequestedTokenType] = IfPresent(r.RequestedTokenType)
      /\ form[ParamActorToken] = IfPresent(r.ActorToken)
      /\ form[ParamActorTokenType] = IfPresent(r.ActorTokenType)
      /\ \A p \in ExtraParam : form[p] = r.Extra[p]
  <2>1. \A p \in builtinRequestParams \cup ExtraParam : NoForm[p] = <<>>
    BY <1>1, ParamsAreDistinct
  <2>2. /\ form[ParamGrantType] = <<r.GrantType>> \o <<>>
        /\ form[ParamSubjectToken] = <<r.SubjectToken>> \o <<>>
        /\ form[ParamSubjectTokenType] = <<r.SubjectTokenType>> \o <<>>
        /\ form[ParamResource] = r.Resource \o <<>>
        /\ form[ParamAudience] = r.Audience \o <<>>
        /\ form[ParamScope] = Join(r.Scope) \o <<>>
        /\ form[ParamRequestedTokenType] = IfPresent(r.RequestedTokenType) \o <<>>
        /\ form[ParamActorToken] = IfPresent(r.ActorToken) \o <<>>
        /\ form[ParamActorTokenType] = IfPresent(r.ActorTokenType) \o <<>>
        /\ \A p \in ExtraParam : form[p] = r.Extra[p] \o <<>>
    <3>1. /\ form[ParamGrantType] = <<r.GrantType>> \o NoForm[ParamGrantType]
          /\ form[ParamSubjectToken] =
                 <<r.SubjectToken>> \o NoForm[ParamSubjectToken]
          /\ form[ParamSubjectTokenType] =
                 <<r.SubjectTokenType>> \o NoForm[ParamSubjectTokenType]
          /\ form[ParamResource] = r.Resource \o NoForm[ParamResource]
          /\ form[ParamAudience] = r.Audience \o NoForm[ParamAudience]
          /\ form[ParamScope] = Join(r.Scope) \o NoForm[ParamScope]
          /\ form[ParamRequestedTokenType] =
                 IfPresent(r.RequestedTokenType)
                     \o NoForm[ParamRequestedTokenType]
          /\ form[ParamActorToken] =
                 IfPresent(r.ActorToken) \o NoForm[ParamActorToken]
          /\ form[ParamActorTokenType] =
                 IfPresent(r.ActorTokenType) \o NoForm[ParamActorTokenType]
          /\ \A p \in ExtraParam : form[p] = r.Extra[p] \o NoForm[p]
      BY EncodedForm, ZenonT(60)
    <3> HIDE DEF form
    <3>2. QED
      BY <2>1, <3>1 DEF builtinRequestParams
  <2>3. /\ <<r.GrantType>> \o <<>> = <<r.GrantType>>
        /\ <<r.SubjectToken>> \o <<>> = <<r.SubjectToken>>
        /\ <<r.SubjectTokenType>> \o <<>> = <<r.SubjectTokenType>>
    BY OneValue
  <2>4. QED
    BY <1>3, <2>2, <2>3, NothingFollows, ParamsAreDistinct
<1> HIDE DEF form
<1>5. /\ Get(form, ParamGrantType) = r.GrantType
      /\ Get(form, ParamSubjectToken) = r.SubjectToken
      /\ Get(form, ParamSubjectTokenType) = r.SubjectTokenType
      /\ Get(form, ParamRequestedTokenType) = r.RequestedTokenType
      /\ Get(form, ParamActorToken) = r.ActorToken
      /\ Get(form, ParamActorTokenType) = r.ActorTokenType
  BY <1>4, ValueComesBack
<1>6. [p \in Param |-> IF p \in ExtraParam THEN form[p] ELSE <<>>] =
          [p \in Param |-> IF p \in ExtraParam THEN r.Extra[p] ELSE <<>>]
  BY <1>4
<1>7. splitScope(form[ParamScope]) =
          [i \in DOMAIN FlattenSeq(r.Scope) |-> <<FlattenSeq(r.Scope)[i]>>]
  BY <1>4, ScopeComesBack
<1>8. Parse(form) = Meaning(r)
  BY <1>4, <1>5, <1>6, <1>7, MeaningIs DEF Parse
<1>9. QED
  BY <1>8 DEF form

LEMMA MeaningKeeps ==
    ASSUME NEW r \in TokenExchangeRequest
    PROVE  /\ Meaning(r).GrantType = r.GrantType
           /\ Meaning(r).SubjectToken = r.SubjectToken
           /\ Meaning(r).SubjectTokenType = r.SubjectTokenType
           /\ Meaning(r).RequestedTokenType = r.RequestedTokenType
           /\ Meaning(r).ActorToken = r.ActorToken
           /\ Meaning(r).ActorTokenType = r.ActorTokenType
  BY MeaningIs

LEMMA PrefixOfConcat ==
    ASSUME NEW S, NEW s \in Seq(S), NEW t \in Seq(S)
    PROVE  IsPrefix(s, s \o t)
<1>1. Len(s) \in Nat /\ Len(t) \in Nat /\ Len(s \o t) = Len(s) + Len(t)
  BY ConcatProperties
<1>2. SubSeq(s, 1, Len(s)) = SubSeq(s \o t, 1, Len(s))
  <2>1. CASE Len(s) = 0
    BY <2>1
  <2>2. CASE Len(s) # 0
    BY <1>1, <2>2, SubSeqOfConcat1
  <2>3. QED
    BY <2>1, <2>2
<1>3. QED
  BY <1>1, <1>2 DEF IsPrefix

\* The query of the URL adds to what the caller said, and replaces nothing.
LEMMA QueryComesSecond ==
    ASSUME NEW r \in TokenExchangeRequest, NEW query, IsForm(query)
    PROVE  Prevails(Meaning(r), Parse(MergeForm(Encode(r), query)))
<1> DEFINE form == MergeForm(Encode(r), query)
           got  == Parse(form)
           want == Meaning(r)
<1>1. /\ form[ParamGrantType] = <<r.GrantType>> \o query[ParamGrantType]
      /\ form[ParamSubjectToken] = <<r.SubjectToken>> \o query[ParamSubjectToken]
      /\ form[ParamSubjectTokenType] =
             <<r.SubjectTokenType>> \o query[ParamSubjectTokenType]
      /\ form[ParamResource] = r.Resource \o query[ParamResource]
      /\ form[ParamAudience] = r.Audience \o query[ParamAudience]
      /\ form[ParamScope] = Join(r.Scope) \o query[ParamScope]
      /\ form[ParamRequestedTokenType] =
             IfPresent(r.RequestedTokenType) \o query[ParamRequestedTokenType]
      /\ form[ParamActorToken] = IfPresent(r.ActorToken) \o query[ParamActorToken]
      /\ form[ParamActorTokenType] =
             IfPresent(r.ActorTokenType) \o query[ParamActorTokenType]
      /\ \A p \in ExtraParam : form[p] = r.Extra[p] \o query[p]
  BY EncodedForm, ZenonT(60)
<1> HIDE DEF form
<1>2. ASSUME NEW p \in builtinRequestParams \ {ParamScope}
      PROVE  query[p] \in Seq(Str)
  BY ParamsAreDistinct DEF IsForm
<1>3. query[ParamScope] \in Seq(ScopeString)
  BY ParamsAreDistinct DEF IsForm, builtinRequestParams
<1>4. ASSUME NEW p \in ExtraParam PROVE query[p] \in Seq(Str)
  <2>1. p \in Param /\ p # ParamScope
    BY ParamsAreDistinct DEF builtinRequestParams
  <2>2. QED
    BY <2>1 DEF IsForm
<1>5. ASSUME NEW p \in builtinRequestParams \ {ParamScope}, NEW s,
             form[p] = <<s>> \o query[p]
      PROVE  Get(form, p) = s
  BY <1>2, <1>5, FirstStaysFirst DEF Get
<1>6. ASSUME NEW p \in builtinRequestParams \ {ParamScope}, NEW s,
             form[p] = IfPresent(s) \o query[p], s # ""
      PROVE  Get(form, p) = s
  BY <1>5, <1>6 DEF IfPresent
<1>7. /\ Get(form, ParamGrantType) = r.GrantType
      /\ Get(form, ParamSubjectToken) = r.SubjectToken
      /\ Get(form, ParamSubjectTokenType) = r.SubjectTokenType
      /\ r.RequestedTokenType # "" =>
             Get(form, ParamRequestedTokenType) = r.RequestedTokenType
      /\ r.ActorToken # "" => Get(form, ParamActorToken) = r.ActorToken
      /\ r.ActorTokenType # "" => Get(form, ParamActorTokenType) = r.ActorTokenType
  BY <1>1, <1>5, <1>6 DEF builtinRequestParams, ParamGrantType, ParamResource,
     ParamAudience, ParamScope, ParamRequestedTokenType, ParamSubjectToken,
     ParamSubjectTokenType, ParamActorToken, ParamActorTokenType
<1>8. /\ IsPrefix(r.Resource, form[ParamResource])
      /\ IsPrefix(r.Audience, form[ParamAudience])
  <2>1. r.Resource \in Seq(Str) /\ r.Audience \in Seq(Str)
    BY DEF TokenExchangeRequest
  <2>2. query[ParamResource] \in Seq(Str) /\ query[ParamAudience] \in Seq(Str)
    BY <1>2 DEF builtinRequestParams, ParamResource, ParamAudience, ParamScope
  <2>3. QED
    BY <1>1, <2>1, <2>2, PrefixOfConcat
<1>9. \A p \in ExtraParam : IsPrefix(r.Extra[p], form[p])
  <2>1. ASSUME NEW p \in ExtraParam PROVE r.Extra[p] \in Seq(Str)
    BY ParamsAreDistinct DEF TokenExchangeRequest
  <2>2. QED
    BY ZenonT(60), <1>1, <1>4, <2>1, PrefixOfConcat
<1>10. want.Scope # <<>> => got.Scope = want.Scope
  <2>1. want.Scope =
          [i \in DOMAIN FlattenSeq(r.Scope) |-> <<FlattenSeq(r.Scope)[i]>>]
    BY MeaningIs
  <2>2. CASE r.Scope = <<>>
    <3>1. FlattenSeq(r.Scope) = <<>>
      BY <2>2 DEF FlattenSeq
    <3>2. want.Scope = <<>>
      BY <2>1, <3>1
    <3>3. QED
      BY <3>2
  <2>3. CASE r.Scope # <<>>
    <3>1. form[ParamScope] = <<FlattenSeq(r.Scope)>> \o query[ParamScope]
      BY <1>1, <2>3 DEF Join
    <3>2. form[ParamScope] # <<>> /\ Head(form[ParamScope]) = FlattenSeq(r.Scope)
      BY <1>3, <3>1, FirstStaysFirst
    <3>3. got.Scope = splitScope(form[ParamScope])
      BY DEF Parse
    <3>4. QED
      BY <2>1, <3>2, <3>3 DEF splitScope
  <2>4. QED
    BY <2>2, <2>3
<1>11. \A p \in ExtraParam : IsPrefix(want.Extra[p], got.Extra[p])
  <2>1. ASSUME NEW p \in ExtraParam
        PROVE  want.Extra[p] = r.Extra[p] /\ got.Extra[p] = form[p]
    BY MeaningIs, ParamsAreDistinct DEF Parse
  <2>2. QED
    BY <1>9, <2>1
<1>12. /\ got.GrantType = Get(form, ParamGrantType)
       /\ got.SubjectToken = Get(form, ParamSubjectToken)
       /\ got.SubjectTokenType = Get(form, ParamSubjectTokenType)
       /\ got.RequestedTokenType = Get(form, ParamRequestedTokenType)
       /\ got.ActorToken = Get(form, ParamActorToken)
       /\ got.ActorTokenType = Get(form, ParamActorTokenType)
       /\ got.Resource = form[ParamResource]
       /\ got.Audience = form[ParamAudience]
  BY DEF Parse
<1>13. want.Resource = r.Resource /\ want.Audience = r.Audience
  BY MeaningIs
<1> HIDE DEF got, want
<1>14. Prevails(want, got)
  <2>1. /\ want.GrantType = r.GrantType /\ want.SubjectToken = r.SubjectToken
        /\ want.SubjectTokenType = r.SubjectTokenType
        /\ want.RequestedTokenType = r.RequestedTokenType
        /\ want.ActorToken = r.ActorToken /\ want.ActorTokenType = r.ActorTokenType
    BY MeaningKeeps DEF want
  <2>2. QED
    BY <1>7, <1>8, <1>10, <1>11, <1>12, <1>13, <2>1 DEF Prevails
<1>15. QED
  BY <1>14 DEF want, got, form

-----------------------------------------------------------------------------
(* Types: of the forms and requests that the codec makes. *)

LEMMA NoFormIsForm == IsForm(NoForm)
<1>1. \A S : <<>> \in Seq(S)
  OBVIOUS
<1>2. QED
  BY <1>1 DEF IsForm, NoForm

\* What ParseForm makes of two forms is a form.
LEMMA MergedIsForm ==
    ASSUME NEW f, NEW g, IsForm(f), IsForm(g)
    PROVE  IsForm(MergeForm(f, g))
<1>1. ASSUME NEW S, NEW s \in Seq(S), NEW t \in Seq(S) PROVE s \o t \in Seq(S)
  BY ConcatProperties
<1>2. ASSUME NEW p \in Param
      PROVE  MergeForm(f, g)[p] \in
                 Seq(IF p = ParamScope THEN ScopeString ELSE Str)
  <2> DEFINE S == IF p = ParamScope THEN ScopeString ELSE Str
  <2>1. f[p] \in Seq(S) /\ g[p] \in Seq(S)
    BY DEF IsForm
  <2>2. MergeForm(f, g)[p] = f[p] \o g[p]
    BY DEF MergeForm
  <2> HIDE DEF S
  <2>3. f[p] \o g[p] \in Seq(S)
    BY <1>1, <2>1
  <2>4. QED
    BY <2>2, <2>3 DEF S
<1>3. MergeForm(f, g) = [p \in Param |-> MergeForm(f, g)[p]]
  BY DEF MergeForm
<1>4. QED
  BY <1>2, <1>3 DEF IsForm

\* Parse makes a request of every form.
LEMMA ParseIsRequest ==
    ASSUME NEW f, IsForm(f) PROVE Parse(f) \in TokenExchangeRequest
<1>1. \A p \in builtinRequestParams \cup ExtraParam : p \in Param
  BY DEF Param
<1>2. \A p \in builtinRequestParams : p \notin ExtraParam
  BY ExtraParamAssumption
<1>3. ASSUME NEW p \in Param, p # ParamScope
      PROVE  f[p] \in Seq(Str) /\ Get(f, p) \in Str
  <2>1. f[p] \in Seq(Str)
    BY <1>3 DEF IsForm
  <2>2. f[p] # <<>> => Head(f[p]) \in Str
    BY <2>1
  <2>3. QED
    BY <2>1, <2>2, StrAssumption DEF Get
<1>4. splitScope(f[ParamScope]) \in Seq(ScopeString)
  <2> DEFINE v == f[ParamScope]
  <2>1. v \in Seq(ScopeString)
    BY <1>1 DEF IsForm, builtinRequestParams
  <2> HIDE DEF v
  <2>2. CASE v = <<>>
    BY <2>2 DEF splitScope, v
  <2>3. CASE v # <<>>
    <3> DEFINE h == Head(v)
    <3>1. h \in ScopeString
      BY <2>1, <2>3
    <3> HIDE DEF h
    <3> DEFINE T == Str \ {""}
    <3>2. h \in Seq(T) /\ ScopeString = Seq(T)
      BY <3>1 DEF ScopeString
    <3> HIDE DEF T
    <3>3. /\ Len(h) \in Nat /\ DOMAIN h = 1..Len(h)
          /\ \A i \in 1..Len(h) : h[i] \in T
      BY <3>2, ElementOfSeq, LenProperties
    <3>4. \A i \in 1..Len(h) : <<h[i]>> \in ScopeString
      BY <3>2, <3>3
    <3>5. [i \in 1..Len(h) |-> <<h[i]>>] \in Seq(ScopeString)
      BY <3>3, <3>4
    <3>6. splitScope(v) = [i \in 1..Len(h) |-> <<h[i]>>]
      BY <2>3, <3>3 DEF splitScope, h
    <3>7. QED
      BY <3>5, <3>6 DEF v
  <2>4. QED
    BY <2>2, <2>3
<1>5. [p \in Param |-> IF p \in ExtraParam THEN f[p] ELSE <<>>]
        \in [Param -> Seq(Str)]
  <2>1. ParamScope \notin ExtraParam
    BY <1>2 DEF builtinRequestParams
  <2>2. \A p \in Param : (IF p \in ExtraParam THEN f[p] ELSE <<>>) \in Seq(Str)
    BY <1>3, <2>1
  <2>3. QED
    BY <2>2
<1>6. /\ {ParamGrantType, ParamSubjectToken, ParamSubjectTokenType,
          ParamRequestedTokenType, ParamActorToken, ParamActorTokenType,
          ParamResource, ParamAudience} \subseteq Param \ {ParamScope}
  BY <1>1 DEF builtinRequestParams, ParamGrantType, ParamResource,
     ParamAudience, ParamScope, ParamRequestedTokenType, ParamSubjectToken,
     ParamSubjectTokenType, ParamActorToken, ParamActorTokenType
<1>7. /\ Get(f, ParamGrantType) \in Str /\ Get(f, ParamSubjectToken) \in Str
      /\ Get(f, ParamSubjectTokenType) \in Str
      /\ Get(f, ParamRequestedTokenType) \in Str
      /\ Get(f, ParamActorToken) \in Str /\ Get(f, ParamActorTokenType) \in Str
      /\ f[ParamResource] \in Seq(Str) /\ f[ParamAudience] \in Seq(Str)
  BY <1>3, <1>6
<1>8. QED
  BY <1>4, <1>5, <1>7 DEF Parse, TokenExchangeRequest

\* A set of numbers with 0 and every successor is all of Nat.
LEMMA Induction ==
    ASSUME NEW T \in SUBSET Nat, 0 \in T, \A n \in T : n + 1 \in T
    PROVE  T = Nat
<1> DEFINE R == StrictSubsetOrdering(Nat)
           Missed == { 0..n : n \in Nat \ T }
<1> SUFFICES ASSUME Nat \ T # {} PROVE FALSE
  OBVIOUS
<1>1. \A n \in Nat : 0..n \in FiniteSubsetsOf(Nat)
  BY FS_Interval DEF FiniteSubsetsOf
<1>2. PICK s \in Missed : \A t \in Missed : <<t, s>> \notin R
  <2>1. IsWellFoundedOn(R, FiniteSubsetsOf(Nat))
    BY FS_StrictSubsetOrderingWellFounded
  <2>2. Missed \subseteq FiniteSubsetsOf(Nat) /\ Missed # {}
    BY <1>1
  <2> HIDE DEF R, Missed
  <2>3. QED
    BY <2>1, <2>2, WFMin
<1>3. PICK n \in Nat \ T : s = 0..n
  OBVIOUS
<1>4. n - 1 \in Nat /\ n - 1 \notin T
  <2>1. n # 0
    OBVIOUS
  <2>2. n - 1 \in Nat /\ (n - 1) + 1 = n
    BY <2>1
  <2>3. QED
    BY <2>2
<1>5. 0..(n - 1) \in Missed
  BY <1>4
<1>6. <<0..(n - 1), 0..n>> \in R
  <2>1. 0..(n - 1) \subseteq 0..n /\ 0..n \subseteq Nat
    OBVIOUS
  <2>2. 0..(n - 1) # 0..n
    <3>1. n \in 0..n /\ n \notin 0..(n - 1)
      OBVIOUS
    <3>2. QED
      BY <3>1
  <2>3. QED
    BY <2>1, <2>2 DEF StrictSubsetOrdering
<1>7. QED
  BY <1>2, <1>3, <1>5, <1>6

\* Concatenation runs through the lists one by one.
LEMMA ConcatenationUnfolds ==
    ASSUME NEW T, NEW seqs \in Seq(Seq(T))
    PROVE  \E f \in [1..Len(seqs) -> Seq(T)] :
             /\ seqs # <<>> => FlattenSeq(seqs) = f[Len(seqs)]
             /\ \A i \in 1..Len(seqs) :
                  f[i] = IF i = 1 THEN seqs[i] ELSE f[i-1] \o seqs[i]
<1> DEFINE n == Len(seqs)
           F(f) == [i \in 1..n |->
                       IF i = 1 THEN seqs[i] ELSE f[i-1] \o seqs[i]]
           flatten == CHOOSE f : f = F(f)
           Solves(g, k) == \A i \in 1..k :
               g[i] = IF i = 1 THEN seqs[i] ELSE g[i-1] \o seqs[i]
<1>1. n \in Nat /\ \A i \in 1..n : seqs[i] \in Seq(T)
  OBVIOUS
<1>2. FlattenSeq(seqs) = IF n = 0 THEN seqs ELSE flatten[n]
  BY DEF FlattenSeq
<1> HIDE DEF n
<1>3. ASSUME NEW s \in Seq(T), NEW t \in Seq(T) PROVE s \o t \in Seq(T)
  BY ConcatProperties
<1>4. \E g \in [1..n -> Seq(T)] : Solves(g, n)
  <2> DEFINE K == { k \in Nat : k <= n => \E g \in [1..k -> Seq(T)] : Solves(g, k) }
  <2>1. 0 \in K
    <3>1. [i \in 1..0 |-> <<>>] \in [1..0 -> Seq(T)]
          /\ Solves([i \in 1..0 |-> <<>>], 0)
      OBVIOUS
    <3>2. QED
      BY <3>1
  <2>2. ASSUME NEW k \in K PROVE k + 1 \in K
    <3> SUFFICES ASSUME k + 1 <= n
                 PROVE  \E g \in [1..(k + 1) -> Seq(T)] : Solves(g, k + 1)
      BY SMTT(60)
    <3>1. k \in Nat /\ k <= n
      BY <1>1
    <3>2. PICK g \in [1..k -> Seq(T)] : Solves(g, k)
      BY <3>1
    <3> DEFINE next == IF k = 0 THEN seqs[1] ELSE g[k] \o seqs[k + 1]
               h == [i \in 1..(k + 1) |-> IF i = k + 1 THEN next ELSE g[i]]
    <3>3. seqs[1] \in Seq(T) /\ seqs[k + 1] \in Seq(T)
      BY <1>1, <3>1
    <3>4. next \in Seq(T)
      BY <1>3, <3>1, <3>3
    <3> HIDE DEF next
    <3>5. h \in [1..(k + 1) -> Seq(T)]
      BY <3>1, <3>4
    <3>6. h[k + 1] = next /\ \A i \in 1..k : h[i] = g[i]
      BY <3>1
    <3> HIDE DEF h
    <3>7. ASSUME NEW i \in 1..(k + 1)
          PROVE  h[i] = IF i = 1 THEN seqs[i] ELSE h[i-1] \o seqs[i]
      <4>1. CASE i \in 1..k
        <5>1. i # 1 => i - 1 \in 1..k
          BY <4>1, <3>1
        <5>2. QED
          BY <4>1, <5>1, <3>2, <3>6
      <4>2. CASE i = k + 1
        <5>1. k # 0 => k \in 1..k /\ i # 1 /\ i - 1 = k
          BY <4>2, <3>1
        <5>2. QED
          BY <4>2, <5>1, <3>6 DEF next
      <4>3. QED
        BY <4>1, <4>2, <3>1
    <3>8. QED
      BY <3>5, <3>7
  <2> HIDE DEF K
  <2>3. K = Nat
    <3>1. K \in SUBSET Nat
      BY DEF K
    <3>2. QED
      BY <2>1, <2>2, <3>1, Induction
  <2>4. n \in K /\ n <= n
    BY <1>1, <2>3
  <2> HIDE DEF Solves
  <2>5. QED
    BY <2>4 DEF K
<1>5. flatten = F(flatten)
  <2>1. PICK g \in [1..n -> Seq(T)] : Solves(g, n)
    BY <1>4
  <2>2. g = F(g)
    BY <2>1
  <2> HIDE DEF F
  <2>3. QED
    BY <2>2
<1>6. Solves(flatten, n)
  <2> HIDE DEF flatten
  <2>1. \A i \in 1..n : flatten[i] = F(flatten)[i]
    BY <1>5
  <2>2. QED
    BY <2>1
<1>7. \A i \in 1..n : flatten[i] \in Seq(T)
  <2> HIDE DEF flatten
  <2> DEFINE K == { k \in Nat : k + 1 \in 1..n => flatten[k + 1] \in Seq(T) }
  <2>1. 0 \in K
    BY <1>1, <1>6
  <2>2. ASSUME NEW k \in K PROVE k + 1 \in K
    <3> SUFFICES ASSUME (k + 1) + 1 \in 1..n
                 PROVE  flatten[(k + 1) + 1] \in Seq(T)
      OBVIOUS
    <3>1. k \in Nat /\ k + 1 \in 1..n /\ (k + 1) + 1 # 1
          /\ ((k + 1) + 1) - 1 = k + 1
      BY <1>1
    <3>2. flatten[k + 1] \in Seq(T)
      BY <3>1
    <3>3. flatten[(k + 1) + 1] = flatten[k + 1] \o seqs[(k + 1) + 1]
      BY <1>6, <3>1
    <3>4. QED
      BY <1>1, <1>3, <3>2, <3>3
  <2> HIDE DEF K
  <2>3. K = Nat
    <3>1. K \in SUBSET Nat
      BY DEF K
    <3>2. QED
      BY <2>1, <2>2, <3>1, Induction
  <2>4. \A i \in 1..n : i - 1 \in Nat /\ (i - 1) + 1 = i
    BY <1>1
  <2>5. QED
    BY <2>3, <2>4 DEF K
<1>8. flatten = [i \in 1..n |-> flatten[i]]
  <2>1. flatten = F(flatten)
    BY <1>5
  <2> HIDE DEF flatten
  <2>2. QED
    BY <2>1
<1>9. seqs # <<>> => FlattenSeq(seqs) = flatten[n]
  BY <1>2 DEF n
<1> HIDE DEF flatten
<1>10. flatten \in [1..n -> Seq(T)]
  BY <1>7, <1>8
<1>11. QED
  BY <1>6, <1>9, <1>10 DEF n

\* The concatenation of lists is a list.
LEMMA ConcatenationIsList ==
    ASSUME NEW T, NEW seqs \in Seq(Seq(T))
    PROVE  FlattenSeq(seqs) \in Seq(T)
<1>1. CASE seqs = <<>>
  <2>1. FlattenSeq(seqs) = <<>>
    BY <1>1 DEF FlattenSeq
  <2>2. QED
    BY <2>1
<1>2. CASE seqs # <<>>
  <2>1. Len(seqs) \in 1..Len(seqs)
    BY <1>2
  <2>2. QED
    BY <1>2, <2>1, ConcatenationUnfolds
<1>3. QED
  BY <1>1, <1>2

\* Encode makes a form of every request.
LEMMA EncodedIsForm ==
    ASSUME NEW r \in TokenExchangeRequest PROVE IsForm(Encode(r))
<1>1. /\ r.GrantType \in Str /\ r.SubjectToken \in Str
      /\ r.SubjectTokenType \in Str /\ r.RequestedTokenType \in Str
      /\ r.ActorToken \in Str /\ r.ActorTokenType \in Str
      /\ r.Resource \in Seq(Str) /\ r.Audience \in Seq(Str)
      /\ r.Scope \in Seq(ScopeString) /\ r.Extra \in [Param -> Seq(Str)]
  BY DEF TokenExchangeRequest
<1>2. Join(r.Scope) \in Seq(ScopeString)
  <2> DEFINE T == Str \ {""}
             words == FlattenSeq(r.Scope)
  <2>1. words \in ScopeString
    <3>1. r.Scope \in Seq(Seq(T))
      BY <1>1 DEF ScopeString
    <3> HIDE DEF T
    <3>2. words \in Seq(T)
      BY <3>1, ConcatenationIsList
    <3>3. QED
      BY <3>2 DEF ScopeString, T
  <2> HIDE DEF words
  <2>2. <<words>> \in Seq(ScopeString) /\ <<>> \in Seq(ScopeString)
    BY <2>1
  <2>3. QED
    BY <2>2 DEF Join, words
<1>3. \A s \in Str : <<s>> \in Seq(Str) /\ IfPresent(s) \in Seq(Str)
  <2>1. <<>> \in Seq(Str) /\ \A s \in Str : <<s>> \in Seq(Str)
    OBVIOUS
  <2>2. \A s : IfPresent(s) \in {<<>>, <<s>>}
    BY DEF IfPresent
  <2>3. QED
    BY <2>1, <2>2
<1>4. ASSUME NEW p \in Param
      PROVE  Encode(r)[p] \in Seq(IF p = ParamScope THEN ScopeString ELSE Str)
  <2>1. CASE p = ParamScope
    <3>1. Encode(r)[p] = Join(r.Scope)
      BY <2>1 DEF Encode, ParamGrantType, ParamResource, ParamAudience,
         ParamScope, ParamRequestedTokenType, ParamSubjectToken,
         ParamSubjectTokenType, ParamActorToken, ParamActorTokenType
    <3>2. QED
      BY <1>2, <2>1, <3>1
  <2>2. CASE p # ParamScope
    <3>1. Encode(r)[p] \in { <<r.GrantType>>, <<r.SubjectToken>>,
            <<r.SubjectTokenType>>, r.Resource, r.Audience,
            IfPresent(r.RequestedTokenType), IfPresent(r.ActorToken),
            IfPresent(r.ActorTokenType), r.Extra[p] }
      BY <2>2 DEF Encode
    <3>2. QED
      BY <1>1, <1>3, <2>2, <3>1
  <2>3. QED
    BY <2>1, <2>2
<1>5. Encode(r) = [p \in Param |-> Encode(r)[p]]
  BY DEF Encode
<1>6. QED
  BY <1>4, <1>5 DEF IsForm

\* The JSON object of a map is a list of named values.
LEMMA MarshaledIsObject ==
    ASSUME NEW map \in [Name -> JsonValue \cup {Absent}]
    PROVE  MarshalMap(map) \in
             [json : {"object"},
              members : Seq([name : Name, value : JsonValue \cup {Absent}])]
<1> DEFINE Member == [name : Name, value : JsonValue \cup {Absent}]
           ms == [i \in DOMAIN NameOrder |->
                     [name |-> NameOrder[i], value |-> map[NameOrder[i]]]]
<1>1. \A i \in 1..Len(NameOrder) :
        [name |-> NameOrder[i], value |-> map[NameOrder[i]]] \in Member
  BY NamesAreIndexed
<1> HIDE DEF Member
<1>2. ms \in Seq(Member)
  BY <1>1, NamesAreIndexed
<1> HIDE DEF ms
<1>3. MarshalMap(map) = [json |-> "object", members |-> ms]
  BY DEF MarshalMap, Object, ms
<1>4. QED
  BY <1>2, <1>3 DEF Member

LEMMA StringsAreJson ==
    \A s \in Str : /\ String(ToUTF8[s]) \in JsonValue
                  /\ StringUnlessEmpty(s) \in JsonValue \cup {Absent}
<1>1. ToUTF8 \in [Str -> Str]
  BY JsonAssumption
<1>2. QED
  BY <1>1 DEF String, StringUnlessEmpty, JsonValue

\* What the two marshalers write is an object of JSON values.
LEMMA ResponseIsObject ==
    ASSUME NEW r \in TokenExchangeResponse, Marshalable(merged(r))
    PROVE  MarshalResponse(r) \in
             [json : {"object"},
              members : Seq([name : Name, value : JsonValue \cup {Absent}])]
<1>1. /\ r.AccessToken \in Str /\ r.IssuedTokenType \in Str
      /\ r.TokenType \in Str /\ r.ExpiresIn \in Int /\ r.Scope \in Str
      /\ r.RefreshToken \in Str /\ r.Extra \in RawMap
  BY DEF TokenExchangeResponse
<1>2. Number(r.ExpiresIn) \in JsonValue
  BY <1>1 DEF Number, JsonValue
<1>3. ASSUME NEW n \in Name PROVE merged(r)[n] \in JsonValue \cup {Absent}
  <2>1. merged(r)[n] \in { String(ToUTF8[r.AccessToken]),
          String(ToUTF8[r.IssuedTokenType]), String(ToUTF8[r.TokenType]),
          Absent, Number(r.ExpiresIn), StringUnlessEmpty(r.Scope),
          StringUnlessEmpty(r.RefreshToken), r.Extra[n] }
    BY DEF merged
  <2>2. merged(r)[n] # Invalid
    BY DEF Marshalable
  <2>3. r.Extra[n] \in JsonValue \cup {Invalid, Absent}
    BY <1>1 DEF RawMap
  <2>4. QED
    BY <1>1, <1>2, <2>1, <2>2, <2>3, StringsAreJson
<1>4. merged(r) = [n \in Name |-> merged(r)[n]]
  BY DEF merged
<1>5. merged(r) \in [Name -> JsonValue \cup {Absent}]
  BY <1>3, <1>4
<1>6. QED
  BY <1>5, MarshaledIsObject DEF MarshalResponse

LEMMA ErrorIsObject ==
    ASSUME NEW e \in TokenExchangeError
    PROVE  MarshalError(e) \in
             [json : {"object"},
              members : Seq([name : Name, value : JsonValue \cup {Absent}])]
<1> DEFINE map == [n \in Name |->
        CASE n = "error"             -> String(ToUTF8[e.Code])
          [] n = "error_description" -> StringUnlessEmpty(e.Description)
          [] n = "error_uri"         -> StringUnlessEmpty(e.URI)
          [] OTHER                   -> Absent]
<1>1. e.Code \in Str /\ e.Description \in Str /\ e.URI \in Str
  BY DEF TokenExchangeError
<1>2. ASSUME NEW n \in Name PROVE map[n] \in JsonValue \cup {Absent}
  <2>1. map[n] \in { String(ToUTF8[e.Code]), StringUnlessEmpty(e.Description),
                     StringUnlessEmpty(e.URI), Absent }
    OBVIOUS
  <2>2. QED
    BY <1>1, <2>1, StringsAreJson
<1>3. map \in [Name -> JsonValue \cup {Absent}]
  BY <1>2
<1> HIDE DEF map
<1>4. MarshalError(e) = MarshalMap(map)
  BY DEF MarshalError, map
<1>5. QED
  BY <1>3, <1>4, MarshaledIsObject

-----------------------------------------------------------------------------
(* More than one hop. *)

\* The elements of a list, each as a list of its own, are that list.
LEMMA WordsAreFlat ==
    ASSUME NEW T, NEW words \in Seq(T)
    PROVE  FlattenSeq([i \in DOMAIN words |-> <<words[i]>>]) = words
<1> DEFINE seqs == [i \in DOMAIN words |-> <<words[i]>>]
           n == Len(words)
<1>1. n \in Nat /\ DOMAIN words = 1..n /\ \A i \in 1..n : words[i] \in T
  OBVIOUS
<1>2. seqs = [i \in 1..n |-> <<words[i]>>]
  BY <1>1
<1>3. \A i \in 1..n : <<words[i]>> \in Seq(T)
  BY <1>1
<1> HIDE DEF seqs, n
<1>4. seqs \in Seq(Seq(T)) /\ Len(seqs) = n
      /\ \A i \in 1..n : seqs[i] = <<words[i]>>
  BY <1>1, <1>2, <1>3
<1>5. CASE n = 0
  <2>1. seqs = <<>> /\ words = <<>>
    BY <1>4, <1>5 DEF n
  <2>2. QED
    BY <2>1 DEF FlattenSeq, seqs
<1>6. CASE n # 0
  <2>1. PICK f \in [1..n -> Seq(T)] :
          /\ FlattenSeq(seqs) = f[n]
          /\ \A i \in 1..n :
               f[i] = IF i = 1 THEN seqs[i] ELSE f[i-1] \o seqs[i]
    <3>1. seqs # <<>>
      BY <1>4, <1>6
    <3>2. PICK f \in [1..Len(seqs) -> Seq(T)] :
            /\ seqs # <<>> => FlattenSeq(seqs) = f[Len(seqs)]
            /\ \A i \in 1..Len(seqs) :
                 f[i] = IF i = 1 THEN seqs[i] ELSE f[i-1] \o seqs[i]
      BY <1>4, ConcatenationUnfolds
    <3>3. Len(seqs) = n
      BY <1>4
    <3>4. QED
      BY <3>1, <3>2, <3>3
  <2> DEFINE First(k) == [i \in 1..k |-> words[i]]
             K == { k \in Nat : k + 1 \in 1..n => f[k + 1] = First(k + 1) }
  <2>2. 0 \in K
    <3>1. f[1] = <<words[1]>> /\ First(1) = <<words[1]>>
      BY <1>1, <1>4, <1>6, <2>1
    <3>2. QED
      BY <3>1
  <2>3. ASSUME NEW k \in K PROVE k + 1 \in K
    <3> SUFFICES ASSUME (k + 1) + 1 \in 1..n
                 PROVE  f[(k + 1) + 1] = First((k + 1) + 1)
      OBVIOUS
    <3>1. k \in Nat /\ k + 1 \in 1..n /\ (k + 1) + 1 # 1
          /\ ((k + 1) + 1) - 1 = k + 1
      BY <1>1
    <3>2. f[(k + 1) + 1] = First(k + 1) \o <<words[(k + 1) + 1]>>
      <4> HIDE DEF First
      <4>1. f[k + 1] = First(k + 1)
        BY <3>1
      <4>2. seqs[(k + 1) + 1] = <<words[(k + 1) + 1]>>
        BY <1>4
      <4>3. f[(k + 1) + 1] = f[k + 1] \o seqs[(k + 1) + 1]
        <5>1. f[(k + 1) + 1] = f[((k + 1) + 1) - 1] \o seqs[(k + 1) + 1]
          <6> HIDE DEF seqs, n, K
          <6>1. QED
            BY <2>1, <3>1
        <5>2. QED
          BY <3>1, <5>1
      <4>4. QED
        BY <4>1, <4>2, <4>3
    <3>3. First(k + 1) \in Seq(T) /\ Len(First(k + 1)) = k + 1
      BY <1>1, <3>1
    <3>4. words[(k + 1) + 1] \in T
      BY <1>1
    <3>5. First((k + 1) + 1) = Append(First(k + 1), words[(k + 1) + 1])
      BY <1>1, <3>1, <3>3, <3>4
    <3>6. Append(First(k + 1), words[(k + 1) + 1])
            = First(k + 1) \o <<words[(k + 1) + 1]>>
      <4> HIDE DEF First
      <4>1. QED
        BY <3>3, <3>4, AppendIsConcat
    <3>7. QED
      BY <3>2, <3>5, <3>6
  <2> HIDE DEF K
  <2>4. K = Nat
    <3>1. K \in SUBSET Nat
      BY DEF K
    <3>2. QED
      BY <2>2, <2>3, <3>1, Induction
  <2>5. n - 1 \in Nat /\ (n - 1) + 1 = n /\ n \in 1..n
    BY <1>1, <1>6
  <2>6. f[n] = First(n)
    BY <2>4, <2>5 DEF K
  <2>7. words = First(n)
    BY <1>1 DEF n
  <2>8. QED
    BY <2>1, <2>6, <2>7 DEF seqs
<1>7. QED
  BY <1>5, <1>6

\* What Parse returns says nothing that its own encoding loses.
LEMMA ParsedMeansItself ==
    ASSUME NEW f, IsForm(f) PROVE Meaning(Parse(f)) = Parse(f)
<1> DEFINE r == Parse(f)
           v == f[ParamScope]
<1>1. r \in TokenExchangeRequest
  BY ParseIsRequest
<1>2. r.Scope = splitScope(v)
  BY DEF Parse
<1>3. r.Extra = [p \in Param |-> IF p \in ExtraParam THEN f[p] ELSE <<>>]
  BY DEF Parse
<1>4. [p \in Param |-> IF p \in ExtraParam THEN r.Extra[p] ELSE <<>>] = r.Extra
  BY <1>3
<1>5. v \in Seq(ScopeString)
  BY ParamsAreDistinct DEF IsForm, builtinRequestParams
<1> HIDE DEF v
<1>6. [i \in DOMAIN FlattenSeq(r.Scope) |-> <<FlattenSeq(r.Scope)[i]>>]
        = r.Scope
  <2>1. CASE v = <<>>
    <3>1. r.Scope = <<>>
      BY <1>2, <2>1 DEF splitScope
    <3>2. FlattenSeq(<<>>) = <<>>
      BY DEF FlattenSeq
    <3> HIDE DEF r
    <3>3. QED
      BY <3>1, <3>2
  <2>2. CASE v # <<>>
    <3> DEFINE h == Head(v)
               T == Str \ {""}
    <3>1. h \in Seq(T)
      <4>1. h \in ScopeString
        BY <1>5, <2>2
      <4>2. QED
        BY <4>1 DEF ScopeString
    <3>2. r.Scope = [i \in DOMAIN h |-> <<h[i]>>]
      BY <1>2, <2>2 DEF splitScope
    <3> HIDE DEF h, T, r
    <3>3. FlattenSeq(r.Scope) = h
      BY <3>1, <3>2, WordsAreFlat
    <3>4. QED
      BY <3>2, <3>3
  <2>3. QED
    BY <2>1, <2>2
<1>7. Meaning(r) =
          [ GrantType |-> r.GrantType, SubjectToken |-> r.SubjectToken,
            SubjectTokenType |-> r.SubjectTokenType,
            RequestedTokenType |-> r.RequestedTokenType,
            ActorToken |-> r.ActorToken, ActorTokenType |-> r.ActorTokenType,
            Resource |-> r.Resource, Audience |-> r.Audience,
            Scope |-> r.Scope, Extra |-> r.Extra ]
  BY <1>1, <1>4, <1>6, MeaningIs
<1> HIDE DEF r
<1>8. Meaning(r) = r
  BY <1>1, <1>7 DEF TokenExchangeRequest
<1>9. QED
  BY <1>8 DEF r

\* Whatever form arrives, encoding what was parsed and parsing it again gives
\* the same request: a server that passes a request on, once or a hundred times,
\* loses nothing that it could read (request_parse.go:13-18, request_codec.go:64,
\* specfixtures/fixtures.go:53-56).
THEOREM ParsedRequestsComeBack ==
    ASSUME NEW f, IsForm(f)
    PROVE  Parse(MergeForm(Encode(Parse(f)), NoForm)) = Parse(f)
BY ParseIsRequest, RequestRoundTrips, ParsedMeansItself

\* What arrives of a response is a response, and all of it arrives again.
LEMMA ArrivedIsResponse ==
    ASSUME NEW r \in TokenExchangeResponse
    PROVE  /\ Arrives(r) \in TokenExchangeResponse
           /\ Arrives(Arrives(r)) = Arrives(r)
           /\ ExtraIsApart(r) => ExtraIsApart(Arrives(r))
<1>1. /\ r.AccessToken \in Str /\ r.IssuedTokenType \in Str
      /\ r.TokenType \in Str /\ r.ExpiresIn \in Int /\ r.Scope \in Str
      /\ r.RefreshToken \in Str /\ r.Extra \in RawMap
  BY DEF TokenExchangeResponse
<1>2. \A s \in Str : ToUTF8[s] \in Str /\ ToUTF8[ToUTF8[s]] = ToUTF8[s]
  BY JsonAssumption
<1> DEFINE extra == [n \in Name |-> IF n \in builtinResponseFields
                                    THEN Absent ELSE r.Extra[n]]
<1>3. extra \in RawMap
  BY <1>1 DEF RawMap
<1>4. [n \in Name |-> IF n \in builtinResponseFields THEN Absent ELSE extra[n]]
        = extra
  OBVIOUS
<1>5. \A n \in Name \ builtinResponseFields : extra[n] = r.Extra[n]
  OBVIOUS
<1>6. Arrives(r) = [ AccessToken     |-> ToUTF8[r.AccessToken],
                     IssuedTokenType |-> ToUTF8[r.IssuedTokenType],
                     TokenType       |-> ToUTF8[r.TokenType],
                     ExpiresIn       |-> r.ExpiresIn,
                     Scope           |-> ToUTF8[r.Scope],
                     RefreshToken    |-> ToUTF8[r.RefreshToken],
                     Extra           |-> extra ]
  BY DEF Arrives
<1> HIDE DEF extra
<1>7. Arrives(r) \in TokenExchangeResponse
  BY <1>1, <1>2, <1>3, <1>6 DEF TokenExchangeResponse
<1>8. Arrives(Arrives(r)) = Arrives(r)
  BY <1>1, <1>2, <1>4, <1>6 DEF Arrives
<1>9. ExtraIsApart(r) => ExtraIsApart(Arrives(r))
  BY <1>5, <1>6 DEF ExtraIsApart
<1>10. QED
  BY <1>7, <1>8, <1>9

\* A valid response arrives valid: no string of it turns empty, and no URI
\* into something else.
LEMMA ArrivesValid ==
    ASSUME NEW r \in TokenExchangeResponse, ValidateResponse(r) = Valid
    PROVE  ValidateResponse(Arrives(r)) = Valid
<1>1. /\ r.AccessToken # "" /\ r.IssuedTokenType \in URI /\ r.TokenType # ""
  BY DEF ValidateResponse, Valid, isValidTokenTypeURI, FieldAccessToken,
     FieldIssuedTokenType, FieldTokenType
<1>2. /\ r.AccessToken \in Str /\ r.IssuedTokenType \in Str /\ r.TokenType \in Str
  BY DEF TokenExchangeResponse
<1>3. /\ Arrives(r).AccessToken # "" /\ Arrives(r).IssuedTokenType \in URI
      /\ Arrives(r).TokenType # ""
  BY <1>1, <1>2, JsonAssumption DEF Arrives
<1>4. Arrives(r) # Nil
  BY ArrivedIsResponse, NilResponseAssumption
<1>5. QED
  BY <1>3, <1>4 DEF ValidateResponse, isValidTokenTypeURI

\* What arrived can be marshaled.
LEMMA ArrivedIsMarshalable ==
    ASSUME NEW r \in TokenExchangeResponse, Marshalable(merged(r))
    PROVE  Marshalable(merged(Arrives(r)))
<1> DEFINE got == Arrives(r)
<1>1. got.Extra = [n \in Name |-> IF n \in builtinResponseFields
                                  THEN Absent ELSE r.Extra[n]]
  BY DEF Arrives
<1>2. \A s : String(s) # Invalid /\ StringUnlessEmpty(s) # Invalid
             /\ Number(s) # Invalid
  BY DEF String, StringUnlessEmpty, Number, Invalid, Absent
<1>3. Absent # Invalid
  BY DEF Absent, Invalid
<1> HIDE DEF got
<1>4. ASSUME NEW n \in Name PROVE merged(got)[n] # Invalid
  <2>1. CASE n \in builtinResponseFields
    <3>1. merged(got)[n] \in { String(ToUTF8[got.AccessToken]),
            String(ToUTF8[got.IssuedTokenType]), String(ToUTF8[got.TokenType]),
            Absent, Number(got.ExpiresIn), StringUnlessEmpty(got.Scope),
            StringUnlessEmpty(got.RefreshToken) }
      BY <2>1 DEF merged, builtinResponseFields, stringFields
    <3>2. QED
      BY <1>2, <1>3, <3>1
  <2>2. CASE n \notin builtinResponseFields
    <3>1. merged(got)[n] = got.Extra[n] /\ merged(r)[n] = r.Extra[n]
      BY <2>2 DEF merged, builtinResponseFields, stringFields
    <3>2. got.Extra[n] = r.Extra[n]
      BY <1>1, <2>2
    <3>3. QED
      BY <3>1, <3>2 DEF Marshalable
  <2>3. QED
    BY <2>1, <2>2
<1>5. QED
  BY <1>4 DEF Marshalable, got

\* A response that one server could write, the server that read it can write as
\* well, and it is read as the same response: the rules of the writer and the
\* losses of the codec do not add up (response_codec.go:94-97,
\* server_write.go:37-56).
THEOREM ResponsesCanBePassedOn ==
    ASSUME NEW r \in TokenExchangeResponse, ExtraIsApart(r),
           ValidateResponse(r) = Valid, Marshalable(merged(r))
    PROVE  LET got == UnmarshalResponse(MarshalResponse(r))
           IN  /\ ValidateResponse(got) = Valid
               /\ Marshalable(merged(got))
               /\ ResponseDecodes(MarshalResponse(got))
               /\ UnmarshalResponse(MarshalResponse(got)) = got
<1> DEFINE got == Arrives(r)
<1>1. UnmarshalResponse(MarshalResponse(r)) = got
  BY ResponseRoundTrips
<1>2. /\ got \in TokenExchangeResponse /\ ExtraIsApart(got)
      /\ Arrives(got) = got
  BY ArrivedIsResponse
<1>3. ValidateResponse(got) = Valid /\ Marshalable(merged(got))
  BY ArrivesValid, ArrivedIsMarshalable
<1> HIDE DEF got
<1>4. /\ ResponseDecodes(MarshalResponse(got))
      /\ UnmarshalResponse(MarshalResponse(got)) = got
  BY <1>2, ResponseRoundTrips
<1>5. QED
  BY <1>1, <1>3, <1>4, Zenon

\* The same of a denial: it keeps a code, and the code its HTTP status
\* (token_error.go:69-76, server_write.go:83-105).
THEOREM DenialsCanBePassedOn ==
    ASSUME NEW e \in TokenExchangeError, e.Code # ""
    PROVE  LET got == UnmarshalError(MarshalError(e))
           IN  /\ got.Code # ""
               /\ got.Code = ErrCodeInvalidClient <=>
                      e.Code = ErrCodeInvalidClient
               /\ ErrorDecodes(MarshalError(got))
               /\ UnmarshalError(MarshalError(got)) = got
<1> DEFINE got == ErrorArrives(e)
<1>1. UnmarshalError(MarshalError(e)) = got
  BY ErrorRoundTrips
<1>2. e.Code \in Str /\ e.Description \in Str /\ e.URI \in Str
  BY DEF TokenExchangeError
<1>3. /\ got \in TokenExchangeError /\ ErrorArrives(got) = got
      /\ got.Code # ""
      /\ got.Code = ErrCodeInvalidClient <=> e.Code = ErrCodeInvalidClient
  BY <1>2, JsonAssumption DEF ErrorArrives, TokenExchangeError
<1> HIDE DEF got
<1>4. /\ ErrorDecodes(MarshalError(got))
      /\ UnmarshalError(MarshalError(got)) = got
  BY <1>3, ErrorRoundTrips
<1>5. QED
  BY <1>1, <1>3, <1>4, Zenon
-----------------------------------------------------------------------------
(* What is decoded, whoever wrote the body. *)

Members == Seq([name : Name, value : JsonValue \cup {Absent}])

\* A set of positions has a last one.
LEMMA LastPosition ==
    ASSUME NEW n \in Nat, NEW I \in SUBSET (1..n), I # {}
    PROVE  Max(I) \in I /\ \A i \in I : i <= Max(I)
<1> DEFINE K == { k \in Nat : \A J \in SUBSET (1..k) : J # {} =>
                      \E m \in J : \A j \in J : m >= j }
<1>1. 0 \in K
  <2>1. 1..0 = {}
    OBVIOUS
  <2>2. QED
    BY <2>1
<1>2. ASSUME NEW k \in K PROVE k + 1 \in K
  <2>1. ASSUME NEW J \in SUBSET (1..(k + 1)), J # {}
        PROVE  \E m \in J : \A j \in J : m >= j
    <3>1. CASE k + 1 \in J
      BY <3>1
    <3>2. CASE k + 1 \notin J
      <4>1. J \in SUBSET (1..k)
        BY <3>2
      <4>2. QED
        BY <2>1, <4>1
    <3>3. QED
      BY <3>1, <3>2
  <2>2. k + 1 \in Nat
    OBVIOUS
  <2>3. QED
    BY <2>1, <2>2
<1>3. K = Nat
  <2>1. K \in SUBSET Nat
    OBVIOUS
  <2> HIDE DEF K
  <2>2. QED
    BY <1>1, <1>2, <2>1, Induction
<1>4. n \in K
  BY <1>3
<1>5. \E m \in I : \A j \in I : m >= j
  BY <1>4
<1>6. Max(I) \in I /\ \A i \in I : Max(I) >= i
  BY <1>5 DEF Max
<1>7. QED
  BY <1>6

\* Of the members that a struct field matches the last one is stored; without
\* one the field keeps its zero.
LEMMA LastMemberWins ==
    ASSUME NEW body, body.members \in Members, NEW f, NEW zero
    PROVE  \/ /\ \A i \in 1..Len(body.members) : ~Matches(body.members[i], f)
              /\ Field(body, f, zero) = zero
           \/ \E i \in 1..Len(body.members) :
                 /\ Matches(body.members[i], f)
                 /\ \A j \in (i + 1)..Len(body.members) :
                       ~Matches(body.members[j], f)
                 /\ Field(body, f, zero) = body.members[i].value.of
<1> DEFINE ms == body.members
           I  == { i \in 1..Len(ms) : Matches(ms[i], f) }
<1>1. Len(ms) \in Nat
  BY DEF Members
<1>2. CASE I = {}
  <2>1. SelectLastInSeq(ms, LAMBDA m : Matches(m, f)) = 0
    BY <1>2 DEF SelectLastInSeq
  <2>2. QED
    BY <1>2, <2>1 DEF Field
<1>3. CASE I # {}
  <2>1. Max(I) \in I /\ \A i \in I : i <= Max(I)
    <3>1. I \in SUBSET (1..Len(ms))
      OBVIOUS
    <3> HIDE DEF I
    <3>2. QED
      BY <1>1, <1>3, <3>1, LastPosition
  <2>2. PICK k \in I : k = Max(I)
    BY <2>1
  <2>3. SelectLastInSeq(ms, LAMBDA m : Matches(m, f)) = k
    BY <1>3, <2>2 DEF SelectLastInSeq
  <2>4. k # 0 /\ k \in 1..Len(ms) /\ Matches(ms[k], f)
    BY <2>2
  <2>5. Field(body, f, zero) = ms[k].value.of
    BY <2>3, <2>4 DEF Field
  <2>6. \A j \in (k + 1)..Len(ms) : ~Matches(ms[j], f)
    BY <1>1, <2>1, <2>2
  <2>7. QED
    BY <2>4, <2>5, <2>6
<1>4. QED
  BY <1>2, <1>3

\* The members of an object are named values.
LEMMA MembersAreValues ==
    ASSUME NEW ms \in Members, NEW i \in 1..Len(ms)
    PROVE  /\ i \in DOMAIN ms
           /\ ms[i].value \in JsonValue \cup {Absent}
<1> DEFINE T == [name : Name, value : JsonValue \cup {Absent}]
<1>1. ms \in Seq(T)
  BY DEF Members
<1> HIDE DEF T
<1>2. i \in DOMAIN ms /\ ms[i] \in T
  BY <1>1
<1>3. QED
  BY <1>2 DEF T

\* So a field has its zero or a value of the kind that the decoder asked for.
LEMMA FieldIsTyped ==
    ASSUME NEW body, body.members \in Members, NEW f, NEW zero
    PROVE  /\ WellKinded(body, f, "string") /\ zero \in Str =>
                 Field(body, f, zero) \in Str
           /\ WellKinded(body, f, "number") /\ zero \in Int =>
                 Field(body, f, zero) \in Int
<1> DEFINE ms == body.members
<1>1. CASE Field(body, f, zero) = zero
  BY <1>1
<1>2. CASE \E i \in 1..Len(ms) : Matches(ms[i], f)
                                 /\ Field(body, f, zero) = ms[i].value.of
  <2>1. PICK i \in 1..Len(ms) : Matches(ms[i], f)
                                /\ Field(body, f, zero) = ms[i].value.of
    BY <1>2
  <2>2. i \in DOMAIN ms /\ ms[i].value \in JsonValue
    <3>1. i \in DOMAIN ms /\ ms[i].value \in JsonValue \cup {Absent}
      BY MembersAreValues
    <3>2. ms[i].value # Absent
      BY <2>1 DEF Matches
    <3>3. QED
      BY <3>1, <3>2
  <2>3. /\ ms[i].value.kind = "string" => ms[i].value.of \in Str
        /\ ms[i].value.kind = "number" => ms[i].value.of \in Int
    BY <2>2 DEF JsonValue, Null, Compound
  <2>4. \A kind : WellKinded(body, f, kind) => ms[i].value.kind = kind
    BY <2>1, <2>2 DEF WellKinded
  <2>5. QED
    BY <2>1, <2>3, <2>4
<1>3. QED
  BY <1>1, <1>2, LastMemberWins

\* What Extra holds after decoding is JSON.
LEMMA UnmarshaledMapIsRaw ==
    ASSUME NEW body, body.members \in Members, NEW n \in Name
    PROVE  UnmarshalMap(body)[n] \in JsonValue \cup {Absent}
<1> DEFINE ms == body.members
           named(m) == m.name = n /\ m.value # Absent
           I  == { i \in 1..Len(ms) : named(ms[i]) }
           last == SelectLastInSeq(ms, named)
<1>1. UnmarshalMap(body)[n] = IF last = 0 THEN Absent ELSE ms[last].value
  BY DEF UnmarshalMap
<1>2. last = IF I # {} THEN Max(I) ELSE 0
  BY DEF SelectLastInSeq
<1>3. I # {} => Max(I) \in 1..Len(ms)
  <2>1. I \in SUBSET (1..Len(ms)) /\ Len(ms) \in Nat
    BY DEF Members
  <2> HIDE DEF I
  <2>2. QED
    BY <2>1, LastPosition
<1> HIDE DEF I
<1>4. last = 0 \/ last \in 1..Len(ms)
  BY <1>2, <1>3
<1> HIDE DEF last
<1>5. \A i \in 1..Len(ms) : ms[i].value \in JsonValue \cup {Absent}
  BY MembersAreValues
<1>6. QED
  BY <1>1, <1>4, <1>5

LEMMA FieldsMakeAResponse ==
    ASSUME NEW token \in Str, NEW issued \in Str, NEW type \in Str,
           NEW expires \in Int, NEW scope \in Str, NEW refresh \in Str,
           NEW extra \in RawMap
    PROVE  [ AccessToken |-> token, IssuedTokenType |-> issued,
             TokenType |-> type, ExpiresIn |-> expires, Scope |-> scope,
             RefreshToken |-> refresh, Extra |-> extra ]
             \in TokenExchangeResponse
  BY DEF TokenExchangeResponse

\* Whatever object a server sends, what UnmarshalJSON makes of it without an
\* error is a TokenExchangeResponse, and it can be marshaled again: no field
\* gets a value of another kind, and every Extra entry is JSON
\* (response_codec.go:62-104).
THEOREM DecodedResponsesAreTyped ==
    ASSUME NEW body, body = NullBody \/ body.members \in Members,
           ResponseDecodes(body)
    PROVE  /\ UnmarshalResponse(body) \in TokenExchangeResponse
           /\ Marshalable(merged(UnmarshalResponse(body)))
<1> DEFINE r == UnmarshalResponse(body)
<1>1. "" \in Str /\ 0 \in Int
  <2>1. "" \in Str
    BY StrAssumption
  <2>2. 0 \in Int
    OBVIOUS
  <2>3. QED
    BY <2>1, <2>2, Zenon
<1>2. \A n \in Name : r.Extra[n] \in JsonValue \cup {Absent}
  <2>1. CASE body = NullBody
    BY <2>1 DEF UnmarshalResponse, ZeroResponse, NoExtra
  <2>2. CASE body # NullBody
    BY <2>2, UnmarshaledMapIsRaw DEF UnmarshalResponse
  <2>3. QED
    BY <2>1, <2>2
<1>3. r \in TokenExchangeResponse
  <2>1. CASE body = NullBody
    <3>1. NoExtra \in RawMap
      BY DEF NoExtra, RawMap
    <3>2. QED
      BY <1>1, <2>1, <3>1 DEF UnmarshalResponse, ZeroResponse,
         TokenExchangeResponse
  <2>2. CASE body # NullBody
    <3> DEFINE token   == Field(body, FieldAccessToken, "")
               issued  == Field(body, FieldIssuedTokenType, "")
               type    == Field(body, FieldTokenType, "")
               expires == Field(body, FieldExpiresIn, 0)
               scope   == Field(body, FieldScope, "")
               refresh == Field(body, FieldRefreshToken, "")
               extra   == r.Extra
    <3>1. /\ \A f \in stringFields : Field(body, f, "") \in Str
          /\ expires \in Int
      BY <1>1, <2>2, FieldIsTyped DEF ResponseDecodes
    <3>2. /\ token \in Str /\ issued \in Str /\ type \in Str
          /\ scope \in Str /\ refresh \in Str
      BY <3>1, Zenon DEF stringFields
    <3>3. extra \in RawMap
      <4>1. extra = [n \in Name |-> extra[n]]
        BY <2>2 DEF UnmarshalResponse
      <4>2. QED
        BY <1>2, <4>1 DEF RawMap
    <3>4. r = [ AccessToken |-> token, IssuedTokenType |-> issued,
                TokenType |-> type, ExpiresIn |-> expires, Scope |-> scope,
                RefreshToken |-> refresh, Extra |-> extra ]
      BY <2>2 DEF UnmarshalResponse
    <3> HIDE DEF token, issued, type, expires, scope, refresh, extra, r
    <3>5. QED
      BY <3>1, <3>2, <3>3, <3>4, FieldsMakeAResponse
  <2>3. QED
    BY <2>1, <2>2
<1>4. ASSUME NEW n \in Name PROVE merged(r)[n] # Invalid
  <2>1. r.Extra[n] # Invalid
    BY <1>2 DEF JsonValue, Null, Compound, Absent, Invalid
  <2> HIDE DEF r
  <2>2. QED
    BY <2>1 DEF merged, String, StringUnlessEmpty, Number, Absent, Invalid
<1>5. QED
  BY <1>3, <1>4 DEF Marshalable

\* So is what it makes of the body of an error (token_error.go:52-57).
THEOREM DecodedErrorsAreTyped ==
    ASSUME NEW body, body = NullBody \/ body.members \in Members,
           ErrorDecodes(body)
    PROVE  UnmarshalError(body) \in TokenExchangeError
<1> DEFINE code        == Field(body, "error", "")
           description == Field(body, "error_description", "")
           uri         == Field(body, "error_uri", "")
<1>1. "" \in Str
  BY StrAssumption
<1>2. CASE body = NullBody
  BY <1>1, <1>2, Zenon DEF UnmarshalError, TokenExchangeError
<1>3. CASE body # NullBody
  <2>1. \A f \in errorFields : Field(body, f, "") \in Str
    BY <1>1, <1>3, FieldIsTyped DEF ErrorDecodes
  <2>2. code \in Str /\ description \in Str /\ uri \in Str
    BY <2>1, Zenon DEF errorFields
  <2>3. UnmarshalError(body) =
          [Code |-> code, Description |-> description, URI |-> uri]
    BY <1>3 DEF UnmarshalError
  <2> HIDE DEF code, description, uri
  <2>4. QED
    BY <2>2, <2>3 DEF TokenExchangeError
<1>4. QED
  BY <1>2, <1>3

\* An error object as RFC 6749 wants it: what stands for one of the three
\* fields is a string, and what stands for the code is not empty.
IsWellMade(body) ==
    \A f \in errorFields : \A i \in DOMAIN body.members :
        Matches(body.members[i], f) =>
            /\ body.members[i].value.kind = "string"
            /\ f = "error" => body.members[i].value.of # ""

\* From such an object with an error member a code is read (client.go:139-145).
LEMMA CodesAreRead ==
    ASSUME NEW body, body.json = "object", body.members \in Members,
           IsWellMade(body),
           \E i \in DOMAIN body.members :
               /\ body.members[i].name = "error"
               /\ body.members[i].value.kind = "string"
    PROVE  ErrorDecodes(body) /\ UnmarshalError(body).Code # ""
<1> DEFINE ms == body.members
<1>1. ErrorDecodes(body)
  BY DEF ErrorDecodes, IsWellMade, WellKinded
<1>2. body # NullBody
  BY DEF NullBody
<1>3. "error" \in errorFields /\ Fold["error"] = "error"
  BY NamesAssumption DEF errorFields
<1>4. DOMAIN ms = 1..Len(ms)
  BY DEF Members
<1>5. \E i \in 1..Len(ms) : Matches(ms[i], "error")
  BY <1>3, <1>4 DEF Matches, Null, Absent
<1>6. PICK i \in 1..Len(ms) : /\ Matches(ms[i], "error")
                              /\ Field(body, "error", "") = ms[i].value.of
  <2> DEFINE zero == ""
             last == Field(body, "error", zero)
  <2> HIDE DEF zero
  <2>1. \/ \A i \in 1..Len(ms) : ~Matches(ms[i], "error")
        \/ \E i \in 1..Len(ms) : Matches(ms[i], "error") /\ last = ms[i].value.of
    BY LastMemberWins
  <2>2. \E i \in 1..Len(ms) : Matches(ms[i], "error") /\ last = ms[i].value.of
    BY <1>5, <2>1
  <2>3. QED
    BY <2>2, Zenon DEF zero
<1>7. Field(body, "error", "") # ""
  BY <1>3, <1>4, <1>6, Zenon DEF IsWellMade
<1>8. QED
  BY <1>1, <1>2, <1>7, Zenon DEF UnmarshalError
=============================================================================
