--------------------------- MODULE HttpFormProofs ---------------------------
(***************************************************************************)
(* Proofs about HttpForm, for every set of requests on the wire and every  *)
(* order of middleware and parser.                                         *)
(***************************************************************************)
EXTENDS HttpForm, CodecProofs

\* A form is told from one that was not made.
LEMMA FormIsMade == ASSUME NEW f, IsForm(f) PROVE f # Nil
<1>1. f = [p \in Param |-> f[p]]
  BY DEF IsForm
<1>2. \A p \in Param : f[p] \in Seq(Str) \cup Seq(ScopeString)
  BY DEF IsForm
<1>3. f \in [Param -> Seq(Str) \cup Seq(ScopeString)]
  BY <1>1, <1>2
<1>4. QED
  BY <1>3, FormAssumption

\* A stripped parameter is not in the request.
LEMMA StrippedIsUnsaid ==
    ASSUME NEW f, NEW p \in ExtraParam, f[p] = <<>>
    PROVE  Parse(f).Extra[p] = <<>>
  BY DEF Parse, Param

\* What ParseForm leaves in r.Form.
LEMMA FormIsKept ==
    ASSUME Form # Nil PROVE FormAfter = Form
  BY DEF FormAfter

LEMMA FirstForm ==
    ASSUME TypeOK, Form = Nil, PostForm = Nil
    PROVE  /\ IsForm(FormAfter)
           /\ unread /\ ~ParseFormFails =>
                 /\ ~sent.queryFlaw
                 /\ HasForm(sent) => sent.type = "form" /\ sent.bodyFlaw = "none"
                 /\ FormAfter = MergeForm(IF HasForm(sent) THEN sent.body
                                          ELSE NoForm, sent.query)
<1>1. IsSent(sent)
  BY FormAssumption DEF TypeOK
<1>2. /\ IsForm(sent.body) /\ IsForm(sent.query)
      /\ sent.bodyFlaw \in {"none", "pair", "cut", "long"}
      /\ sent.type \in {"form", "form_bad_parameter", "other", "malformed"}
  BY <1>1 DEF IsSent, BodyFlaw, FormType, ContentType
<1>3. PostFormAfter \in {sent.body, NoForm}
  BY DEF PostFormAfter
<1>4. FormAfter = MergeForm(PostFormAfter, sent.query)
  BY DEF FormAfter
<1>5. IsForm(FormAfter)
  BY <1>2, <1>3, <1>4, NoFormIsForm, MergedIsForm
<1>6. ASSUME unread, ~ParseFormFails
      PROVE  /\ ~sent.queryFlaw
             /\ HasForm(sent) => sent.type = "form" /\ sent.bodyFlaw = "none"
  <2>1. ~sent.queryFlaw
    BY <1>6 DEF ParseFormFails
  <2>2. ASSUME HasForm(sent)
        PROVE  sent.type = "form" /\ sent.bodyFlaw = "none"
    BY <1>2, <1>6, <2>2 DEF ParseFormFails, HasForm, FormType
  <2>3. QED
    BY <2>1, <2>2
<1>7. ASSUME unread, ~ParseFormFails
      PROVE  PostFormAfter = IF HasForm(sent) THEN sent.body ELSE NoForm
  BY <1>6, <1>7 DEF PostFormAfter
<1>8. QED
  BY <1>4, <1>5, <1>6, <1>7

LEMMA InitEstablishesInv == Init => Inv
<1> SUFFICES ASSUME Init PROVE Inv
  OBVIOUS
<1>1. DOMAIN answers = {} /\ Accepted = {}
  BY DEF Init, Accepted
<1>2. TypeOK
  <2>1. \A T : <<>> \in Seq(T)
    OBVIOUS
  <2>2. QED
    BY <2>1 DEF Init, TypeOK
<1>3. FormIsKnown /\ RepeatsAgree /\ StrippedStaysOut
  BY <1>1 DEF Init, FormIsKnown, RepeatsAgree, StrippedStaysOut
<1>4. QED
  BY <1>2, <1>3 DEF Inv

\* Parsing r.Form adds one answer, which is what Parse makes of the form.
LEMMA ParserKeepsInv ==
    ASSUME Inv, ParseTokenExchangeRequest
    PROVE  Inv'
<1> DEFINE said == IF ParseFormFails THEN Nil ELSE Parse(FormAfter)
           new  == [said |-> said, without |-> stripped, late |-> failed]
           n    == Len(answers)
           T    == [ said : TokenExchangeRequest \cup {Nil},
                     without : SUBSET ExtraParam, late : BOOLEAN ]
<1>1. /\ Form' = FormAfter /\ PostForm' = PostFormAfter
      /\ failed' = (failed \/ ParseFormFails)
      /\ answers' = Append(answers, new)
      /\ sent' = sent /\ stripped' = stripped
  BY DEF ParseTokenExchangeRequest, ParseForm, Answer
<1>2. IsForm(FormAfter) /\ Form' # Nil /\ IsForm(Form')
  <2>1. IsForm(FormAfter)
    BY FirstForm, FormIsKept DEF Inv, TypeOK, FormIsKnown
  <2>2. QED
    BY <1>1, <2>1, FormIsMade
<1>3. said \in TokenExchangeRequest \cup {Nil}
  BY <1>2, ParseIsRequest
<1>4. new \in T
  BY <1>3 DEF Inv, TypeOK
<1>5. answers \in Seq(T)
  BY DEF Inv, TypeOK
<1> HIDE DEF T, said
<1>6. /\ answers' \in Seq(T) /\ n \in Nat
      /\ DOMAIN answers = 1..n /\ DOMAIN answers' = 1..(n + 1)
      /\ \A i \in 1..n : answers'[i] = answers[i]
      /\ answers'[n + 1] = new
  BY <1>1, <1>4, <1>5, AppendProperties, LenProperties
<1>7. /\ new.said = said /\ new.without = stripped
  OBVIOUS
<1> HIDE DEF new, n
<1>8. /\ \A i \in Accepted : i \in 1..n
      /\ \A i \in Accepted' :
            \/ i \in Accepted /\ answers'[i] = answers[i]
            \/ said # Nil /\ answers'[i] = new
  <2>1. \A i \in Accepted : i \in 1..n
    BY <1>6 DEF Accepted
  <2>2. ASSUME NEW i \in Accepted', i \in 1..n
        PROVE  i \in Accepted /\ answers'[i] = answers[i]
    BY <1>6, <2>2 DEF Accepted
  <2>3. ASSUME NEW i \in Accepted', i \notin 1..n
        PROVE  said # Nil /\ answers'[i] = new
    <3>1. i \in 1..(n + 1) /\ answers'[i].said # Nil
      BY <1>6 DEF Accepted
    <3>2. i = n + 1
      BY <1>6, <2>3, <3>1
    <3>3. QED
      BY <1>6, <1>7, <3>1, <3>2
  <2>4. QED
    BY <2>1, <2>2, <2>3
<1>9. said # Nil => said = Parse(Form')
  BY <1>1 DEF said
<1>10. Form # Nil => Form' = Form
  BY <1>1, FormIsKept
<1>11. TypeOK'
  BY <1>1, <1>2, <1>6 DEF Inv, TypeOK, T
<1>12. \A i \in Accepted : Form # Nil
  BY <1>6, <1>7 DEF Inv, FormIsKnown, Accepted
<1>13. FormIsKnown'
  <2>1. \A p \in stripped' : Form'[p] = <<>>
    BY <1>1, <1>10 DEF Inv, FormIsKnown
  <2>2. ASSUME NEW i \in Accepted'
        PROVE  /\ answers'[i].without \subseteq stripped'
               /\ answers'[i].without = stripped' => answers'[i].said = Parse(Form')
    BY <1>1, <1>7, <1>8, <1>9, <1>10, <1>12 DEF Inv, FormIsKnown
  <2>3. QED
    BY <1>2, <2>1, <2>2 DEF FormIsKnown
<1>14. RepeatsAgree'
  <2>1. ASSUME NEW i \in Accepted', answers'[i].without = stripped
        PROVE  answers'[i].said = Parse(Form')
    BY <1>1, <1>13, <2>1 DEF FormIsKnown
  <2>2. ASSUME NEW i \in Accepted', NEW j \in Accepted',
               answers'[i].without = answers'[j].without
        PROVE  answers'[i].said = answers'[j].said
    <3>1. CASE answers'[i].without = stripped
      BY <2>1, <2>2, <3>1
    <3>2. CASE answers'[i].without # stripped
      BY <1>7, <1>8, <2>2, <3>2 DEF Inv, RepeatsAgree
    <3>3. QED
      BY <3>1, <3>2
  <2>3. QED
    BY <2>2 DEF RepeatsAgree
<1>15. StrippedStaysOut'
  <2>1. ASSUME NEW p \in stripped PROVE Parse(Form').Extra[p] = <<>>
    <3>1. p \in ExtraParam
      BY DEF Inv, TypeOK
    <3>2. Form'[p] = <<>>
      BY <1>1, <1>2, <1>13 DEF FormIsKnown
    <3>3. QED
      BY <3>1, <3>2, StrippedIsUnsaid
  <2>2. ASSUME NEW i \in Accepted', NEW p \in answers'[i].without
        PROVE  answers'[i].said.Extra[p] = <<>>
    BY <1>7, <1>8, <1>9, <2>1 DEF Inv, StrippedStaysOut
  <2>3. QED
    BY <2>2 DEF StrippedStaysOut
<1>16. QED
  BY <1>11, <1>13, <1>14, <1>15 DEF Inv

LEMMA StepPreservesInv == Inv /\ [Next]_vars => Inv'
<1> SUFFICES ASSUME Inv, [Next]_vars PROVE Inv'
  OBVIOUS
<1>1. ASSUME answers' = answers
      PROVE  /\ Accepted' = Accepted /\ StrippedStaysOut' /\ RepeatsAgree'
  BY <1>1 DEF Inv, Accepted, StrippedStaysOut, RepeatsAgree
<1>2. CASE MiddlewareParses
  <2>1. /\ Form = Nil /\ Form' = FormAfter
        /\ failed' = (failed \/ ParseFormFails)
        /\ sent' = sent /\ stripped' = stripped /\ answers' = answers
    BY <1>2 DEF MiddlewareParses, ParseForm
  <2>2. IsForm(Form') /\ Form' # Nil
    BY <2>1, FirstForm, FormIsMade DEF Inv, FormIsKnown
  <2>3. answers = <<>> /\ stripped = {} /\ Accepted = {}
    BY <2>1 DEF Inv, FormIsKnown, Accepted
  <2>4. TypeOK'
    BY <2>1, <2>2 DEF Inv, TypeOK
  <2>5. FormIsKnown'
    BY <1>1, <2>1, <2>2, <2>3 DEF FormIsKnown
  <2>6. QED
    BY <1>1, <2>1, <2>4, <2>5 DEF Inv
<1>3. CASE MiddlewareReads \/ UNCHANGED vars
  <2>1. UNCHANGED <<sent, PostForm, Form, failed, stripped, answers>>
    BY <1>3 DEF MiddlewareReads, vars
  <2>2. TypeOK'
    BY <2>1 DEF Inv, TypeOK
  <2>3. FormIsKnown'
    BY <1>1, <2>1 DEF Inv, FormIsKnown
  <2>4. QED
    BY <1>1, <2>1, <2>2, <2>3 DEF Inv
<1>4. CASE MiddlewareStrips
  <2>1. PICK p \in ExtraParam :
          /\ Form # Nil /\ Form[p] # <<>>
          /\ Form' = [Form EXCEPT ![p] = <<>>]
          /\ stripped' = stripped \cup {p}
          /\ UNCHANGED <<sent, PostForm, failed, answers>>
    BY <1>4 DEF MiddlewareStrips
  <2>2. p \notin stripped
    BY <2>1 DEF Inv, FormIsKnown
  <2>3. IsForm(Form) /\ p \in Param /\ p # ParamScope
    BY <2>1, ExtraParamAssumption
       DEF Inv, TypeOK, Param, builtinRequestParams
  <2>4. /\ Form' = [q \in Param |-> Form'[q]]
        /\ Form'[p] = <<>>
        /\ \A q \in Param : q # p => Form'[q] = Form[q]
    BY <2>1, <2>3 DEF IsForm
  <2>5. \A q \in Param :
          Form'[q] \in Seq(IF q = ParamScope THEN ScopeString ELSE Str)
    <3>1. <<>> \in Seq(Str)
      OBVIOUS
    <3>2. QED
      BY <2>3, <2>4, <3>1 DEF IsForm
  <2>6. IsForm(Form')
    BY <2>4, <2>5 DEF IsForm
  <2>7. Form' # Nil
    BY <2>6, FormIsMade
  <2>8. TypeOK'
    BY <2>1, <2>6 DEF Inv, TypeOK
  <2>9. FormIsKnown'
    <3>1. \A q \in stripped' : Form'[q] = <<>>
      BY <2>1, <2>4 DEF Inv, FormIsKnown, TypeOK, Param
    <3>2. ASSUME NEW i \in Accepted'
          PROVE  /\ answers'[i].without \subseteq stripped'
                 /\ answers'[i].without # stripped'
      BY <1>1, <2>1, <2>2 DEF Inv, FormIsKnown
    <3>3. QED
      BY <2>7, <3>1, <3>2 DEF FormIsKnown
  <2>10. QED
    BY <1>1, <2>1, <2>8, <2>9 DEF Inv
<1>5. CASE ParseTokenExchangeRequest
  BY <1>5, ParserKeepsInv
<1>6. QED
  BY <1>2, <1>3, <1>4, <1>5 DEF Next

\* What the parser returns follows from r.Form, whatever middleware did.
THEOREM Invariance == Spec => []Inv
<1>1. Init => Inv
  BY InitEstablishesInv
<1>2. Inv /\ [Next]_vars => Inv'
  BY StepPreservesInv
<1>3. QED
  BY <1>1, <1>2, PTL DEF Spec

\* Until the form is edited, every request returned is the same.
THEOREM Repeats == Spec => []RepeatsAgree
<1>1. Inv => RepeatsAgree
  BY DEF Inv
<1>2. QED
  BY <1>1, Invariance, PTL

\* What middleware took out of r.Form stays out of the request.
THEOREM Stripping == Spec => []StrippedStaysOut
<1>1. Inv => StrippedStaysOut
  BY DEF Inv
<1>2. QED
  BY <1>1, Invariance, PTL

\* Reading first, the parser returns all that was sent or an error.
THEOREM FirstReading == Spec => FirstReaderSeesAll
<1> DEFINE Sees ==
      Form = Nil /\ unread /\ answers' # answers =>
          \/ Last(answers').said = Nil
          \/ /\ ~sent.queryFlaw
             /\ HasForm(sent) => sent.type = "form" /\ sent.bodyFlaw = "none"
             /\ Last(answers').said =
                  Parse(MergeForm(IF HasForm(sent) THEN sent.body ELSE NoForm,
                                  sent.query))
<1>1. ASSUME Inv, [Next]_vars PROVE [Sees]_vars
  <2> SUFFICES ASSUME Form = Nil, unread, answers' # answers,
                      Last(answers').said # Nil
               PROVE  /\ ~sent.queryFlaw
                      /\ HasForm(sent) =>
                            sent.type = "form" /\ sent.bodyFlaw = "none"
                      /\ Last(answers').said =
                           Parse(MergeForm(IF HasForm(sent) THEN sent.body
                                           ELSE NoForm, sent.query))
    OBVIOUS
  <2>1. ParseTokenExchangeRequest
    BY <1>1 DEF Next, vars, MiddlewareParses, MiddlewareReads, MiddlewareStrips
  <2> DEFINE said == IF ParseFormFails THEN Nil ELSE Parse(FormAfter)
             new  == [said |-> said, without |-> stripped, late |-> failed]
  <2>2. answers' = Append(answers, new)
    BY <2>1 DEF ParseTokenExchangeRequest, Answer
  <2>3. PICK T : answers \in Seq(T)
    BY <1>1 DEF Inv, TypeOK
  <2>4. Last(answers') = new
    <3> HIDE DEF new
    <3>1. answers \in Seq(T \cup {new})
      BY <2>3
    <3>2. /\ Len(answers') = Len(answers) + 1
          /\ answers'[Len(answers) + 1] = new
      BY <2>2, <3>1, AppendProperties
    <3>3. QED
      BY <3>2 DEF Last
  <2>5. ~ParseFormFails /\ Last(answers').said = Parse(FormAfter)
    BY <2>4
  <2>6. PostForm = Nil
    BY <1>1 DEF Inv, FormIsKnown
  <2>7. QED
    BY <1>1, <2>5, <2>6, FirstForm DEF Inv
<1>2. QED
  BY <1>1, Invariance, PTL DEF Spec, FirstReaderSeesAll
=============================================================================
