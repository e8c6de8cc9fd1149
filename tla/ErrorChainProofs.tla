-------------------------- MODULE ErrorChainProofs --------------------------
(***************************************************************************)
(* Proofs about ErrorChain, for every set of codes, descriptions and       *)
(* validation failures and every number of errors.  What errors.Is visits  *)
(* is a recursive function, so the proofs start from an induction          *)
(* principle, which the well-foundedness of finite sets gives.             *)
(***************************************************************************)
EXTENDS ErrorChain, FiniteSetTheorems, SequenceTheorems, WellFoundedInduction,
        TLAPS

-----------------------------------------------------------------------------
(* Induction. *)

\* A set that has every number whose predecessors it has is all of Nat.
LEMMA StrongInduction ==
    ASSUME NEW T \in SUBSET Nat,
           \A n \in Nat : (\A m \in 0..(n - 1) : m \in T) => n \in T
    PROVE  T = Nat
<1> DEFINE Below(n) == 0..(n - 1)
           R == StrictSubsetOrdering(Nat)
           Missed == { Below(n) : n \in Nat \ T }
<1> SUFFICES ASSUME Nat \ T # {} PROVE FALSE
  OBVIOUS
<1>1. \A n \in Nat : Below(n) \in FiniteSubsetsOf(Nat)
  BY FS_Interval DEF FiniteSubsetsOf
<1>2. PICK s \in Missed : \A t \in Missed : <<t, s>> \notin R
  <2>1. IsWellFoundedOn(R, FiniteSubsetsOf(Nat))
    BY FS_StrictSubsetOrderingWellFounded
  <2>2. Missed \subseteq FiniteSubsetsOf(Nat) /\ Missed # {}
    BY <1>1
  <2> HIDE DEF R, Missed
  <2>3. QED
    BY <2>1, <2>2, WFMin
<1>3. PICK n \in Nat \ T : s = Below(n)
  OBVIOUS
<1>4. ASSUME NEW m \in Below(n) PROVE m \in T
  <2>1. m \in Nat /\ m \in Below(n) /\ m \notin Below(m)
    OBVIOUS
  <2>2. Below(m) \subseteq Below(n) /\ Below(n) \subseteq Nat
    BY <2>1
  <2>3. Below(m) # Below(n)
    BY <2>1
  <2> HIDE DEF Below
  <2>4. <<Below(m), Below(n)>> \in R
    BY <2>2, <2>3 DEF StrictSubsetOrdering
  <2>5. QED
    BY <2>1, <2>4, <1>2, <1>3
<1>5. QED
  BY <1>4

-----------------------------------------------------------------------------
(* What errors.Is visits. *)

Nested(errs, v) == FlattenSeq([i \in DOMAIN errs |-> v[errs[i]]])

Visits(h, v, a) == <<a>> \o Nested(Unwrap(h[a]), v)

\* h is a heap whose errors wrap older ones only.
Grounded(h) ==
    /\ h \in Seq(Error)
    /\ \A a \in DOMAIN h : \A i \in DOMAIN Unwrap(h[a]) :
           Unwrap(h[a])[i] \in 1..(a - 1)

\* The concatenation of one sequence is that sequence.
LEMMA FlattenOne == ASSUME NEW s PROVE FlattenSeq(<<s>>) = s
<1> DEFINE F(f) == [i \in 1..Len(<<s>>) |->
                       IF i = 1 THEN <<s>>[i] ELSE f[i-1] \o <<s>>[i]]
           flatten == CHOOSE f : f = F(f)
<1>1. FlattenSeq(<<s>>) = flatten[Len(<<s>>)]
  BY DEF FlattenSeq
<1>2. [i \in 1..1 |-> s] = F([i \in 1..1 |-> s])
  OBVIOUS
<1> HIDE DEF F
<1>3. flatten = F(flatten)
  BY <1>2
<1>4. QED
  BY <1>1, <1>3 DEF F

\* The concatenation of two.
LEMMA FlattenTwo == ASSUME NEW s, NEW t PROVE FlattenSeq(<<s, t>>) = s \o t
<1> DEFINE F(f) == [i \in 1..Len(<<s, t>>) |->
                       IF i = 1 THEN <<s, t>>[i] ELSE f[i-1] \o <<s, t>>[i]]
           flatten == CHOOSE f : f = F(f)
           g == [i \in 1..2 |-> IF i = 1 THEN s ELSE s \o t]
<1>1. FlattenSeq(<<s, t>>) = flatten[Len(<<s, t>>)]
  BY DEF FlattenSeq
<1>2. g = F(g)
  OBVIOUS
<1> HIDE DEF F, g
<1>3. flatten = F(flatten)
  BY <1>2
<1> HIDE DEF flatten
<1>4. F(flatten)[1] = s /\ F(flatten)[2] = flatten[1] \o t
  BY DEF F
<1>5. flatten[1] = s /\ flatten[2] = flatten[1] \o t
  BY <1>3, <1>4
<1>6. QED
  BY <1>1, <1>5 DEF flatten

\* What is visited below an error is what is visited from each it wraps.
LEMMA NestedCases ==
    ASSUME NEW v, NEW c, NEW d
    PROVE  /\ Nested(<<>>, v) = <<>>
           /\ Nested(<<c>>, v) = v[c]
           /\ Nested(<<c, d>>, v) = v[c] \o v[d]
<1>1. Nested(<<>>, v) = <<>>
  <2>1. [i \in DOMAIN <<>> |-> v[<<>>[i]]] = <<>>
    OBVIOUS
  <2>2. QED
    BY <2>1 DEF Nested, FlattenSeq
<1>2. Nested(<<c>>, v) = v[c]
  <2>1. [i \in DOMAIN <<c>> |-> v[<<c>>[i]]] = <<v[c]>>
    OBVIOUS
  <2>2. QED
    BY <2>1, FlattenOne DEF Nested
<1>3. Nested(<<c, d>>, v) = v[c] \o v[d]
  <2>1. [i \in DOMAIN <<c, d>> |-> v[<<c, d>>[i]]] = <<v[c], v[d]>>
    OBVIOUS
  <2>2. QED
    BY <2>1, FlattenTwo DEF Nested
<1>4. QED
  BY <1>1, <1>2, <1>3

\* What Validate makes of a broken rule is a ValidationError.
LEMMA FailureKind ==
    ASSUME NEW e \in Failure \cup {GrantTypeFailure}
    PROVE  e.kind = "validation"
<1>1. CASE e \in Failure
  <2>1. e = Validation(e.Rule, e.Parameter, e.Reason)
    BY <1>1, ErrorAssumption
  <2>2. \A r, p, s : Validation(r, p, s).kind = "validation"
    BY DEF Validation
  <2>3. QED
    BY <2>1, <2>2
<1>2. CASE e = GrantTypeFailure
  BY <1>2 DEF GrantTypeFailure, Validation
<1>3. QED
  BY <1>1, <1>2

\* An error wraps none, one or two.
LEMMA UnwrapCases ==
    ASSUME NEW e \in Error
    PROVE  \/ Unwrap(e) = <<>>
           \/ \E c \in Nat : Unwrap(e) = <<c>>
           \/ \E c, d \in Nat : Unwrap(e) = <<c, d>>
<1>1. CASE e \in [kind : {"wrapping"}, errs : {s \in Seq(Nat) : Len(s) \in 1..2}]
  <2>1. Unwrap(e) = e.errs /\ e.errs \in Seq(Nat) /\ Len(e.errs) \in 1..2
    BY <1>1 DEF Unwrap
  <2>2. CASE Len(e.errs) = 1
    <3>1. e.errs = <<e.errs[1]>> /\ e.errs[1] \in Nat
      BY <2>1, <2>2
    <3>2. QED
      BY <3>1, <2>1
  <2>3. CASE Len(e.errs) = 2
    <3>1. e.errs = <<e.errs[1], e.errs[2]>> /\ e.errs[1] \in Nat /\ e.errs[2] \in Nat
      BY <2>1, <2>3
    <3>2. QED
      BY <3>1, <2>1
  <2>4. QED
    BY <2>1, <2>2, <2>3
<1>2. CASE e \in [ kind : {"token"}, Code : Code, Description : Text,
                   cause : Nat ]
  <2>1. e.kind = "token" /\ e.cause \in Nat
    BY <1>2
  <2>2. QED
    BY <2>1 DEF Unwrap
<1>3. CASE e \in {Given[i] : i \in DOMAIN Given} \cup Failure \cup {GrantTypeFailure}
  <2>1. CASE e \in {Given[i] : i \in DOMAIN Given}
    <3>1. e.kind \in {"nil_token", "plain", "nil_validation"}
      BY <2>1 DEF Given
    <3>2. QED
      BY <3>1 DEF Unwrap
  <2>2. CASE e \in Failure \cup {GrantTypeFailure}
    BY <2>2, FailureKind DEF Unwrap
  <2>3. QED
    BY <1>3, <2>1, <2>2
<1>4. QED
  BY <1>1, <1>2, <1>3 DEF Error

\* What is visited from an error depends on what is visited from older ones.
LEMMA VisitsAgree ==
    ASSUME NEW h, Grounded(h), NEW a \in DOMAIN h, NEW g, g[a] = h[a],
           NEW v, NEW w, \A b \in 1..(a - 1) : w[b] = v[b]
    PROVE  Visits(g, w, a) = Visits(h, v, a)
<1> DEFINE errs == Unwrap(h[a])
<1>1. /\ \A i \in DOMAIN errs : errs[i] \in 1..(a - 1)
      /\ h[a] \in Error
  BY DEF Grounded
<1>2. [i \in DOMAIN errs |-> w[errs[i]]] = [i \in DOMAIN errs |-> v[errs[i]]]
  BY <1>1
<1>3. QED
  BY <1>2 DEF Visits, Nested

Solves(h, v, n) == v = [a \in 1..n |-> Visits(h, v, a)]

\* The recursion that errors.Is follows has a solution.
LEMMA VisitExists ==
    ASSUME NEW h, Grounded(h)
    PROVE  \E v : Solves(h, v, Len(h))
<1> DEFINE T == { n \in Nat : n <= Len(h) => \E v : Solves(h, v, n) }
<1>1. Len(h) \in Nat /\ DOMAIN h = 1..Len(h)
  BY DEF Grounded
<1>2. ASSUME NEW n \in Nat, \A m \in 0..(n - 1) : m \in T
      PROVE  n \in T
  <2> SUFFICES ASSUME n <= Len(h) PROVE \E v : Solves(h, v, n)
    OBVIOUS
  <2>1. CASE n = 0
    <3>1. Solves(h, <<>>, 0)
      BY DEF Solves
    <3>2. QED
      BY <3>1, <2>1
  <2>2. CASE n > 0
    <3>1. n - 1 \in 0..(n - 1) /\ n - 1 <= Len(h)
      BY <1>1, <2>2
    <3>2. PICK v : Solves(h, v, n - 1)
      BY <3>1, <1>2
    <3> DEFINE g == [a \in 1..n |-> IF a = n THEN Visits(h, v, n) ELSE v[a]]
    <3>3. ASSUME NEW a \in 1..n PROVE g[a] = Visits(h, g, a)
      <4>1. a \in DOMAIN h /\ \A b \in 1..(a - 1) : g[b] = v[b]
        BY <1>1
      <4>2. Visits(h, g, a) = Visits(h, v, a)
        BY <4>1, VisitsAgree
      <4>3. a # n => v[a] = Visits(h, v, a)
        <5>1. a # n => a \in 1..(n - 1)
          BY <2>2
        <5>2. QED
          BY <5>1, <3>2 DEF Solves
      <4>4. QED
        BY <4>2, <4>3
    <3>4. Solves(h, g, n)
      BY <3>3 DEF Solves
    <3>5. QED
      BY <3>4
  <2>3. QED
    BY <2>1, <2>2
<1>3. T = Nat
  BY <1>2, StrongInduction
<1>4. QED
  BY <1>1, <1>3

Solution(h) == CHOOSE v : v = [a \in DOMAIN h |-> Visits(h, v, a)]

\* What is visited from an error is the error and what is visited from each
\* that it wraps.
LEMMA SolutionUnfolds ==
    ASSUME NEW h, Grounded(h), NEW a \in DOMAIN h
    PROVE  Solution(h)[a] = Visits(h, Solution(h), a)
<1>1. \E v : v = [b \in DOMAIN h |-> Visits(h, v, b)]
  BY VisitExists DEF Grounded, Solves
<1>2. Solution(h) = [b \in DOMAIN h |-> Visits(h, Solution(h), b)]
  BY <1>1 DEF Solution
<1>3. QED
  BY <1>2

\* The definition of Visited, and its value after a step.
LEMMA VisitedIsSolution ==
    Visited = Solution(heap) /\ Visited' = Solution(heap')
BY DEF Visited, Solution, Visits, Nested

\* More errors do not change what is visited from the ones that were there.
LEMMA SolutionIsStable ==
    ASSUME NEW h, Grounded(h), NEW g, Grounded(g),
           \A a \in DOMAIN h : a \in DOMAIN g /\ g[a] = h[a]
    PROVE  \A a \in DOMAIN h : Solution(g)[a] = Solution(h)[a]
<1> DEFINE T == { n \in Nat : n \in DOMAIN h => Solution(g)[n] = Solution(h)[n] }
<1>1. DOMAIN h = 1..Len(h) /\ Len(h) \in Nat
  BY DEF Grounded
<1>2. ASSUME NEW n \in Nat, \A m \in 0..(n - 1) : m \in T
      PROVE  n \in T
  <2> SUFFICES ASSUME n \in DOMAIN h PROVE Solution(g)[n] = Solution(h)[n]
    OBVIOUS
  <2>1. \A b \in 1..(n - 1) : Solution(g)[b] = Solution(h)[b]
    BY <1>1, <1>2
  <2>2. Visits(g, Solution(g), n) = Visits(h, Solution(h), n)
    BY <2>1, VisitsAgree
  <2>3. QED
    BY <2>2, SolutionUnfolds
<1>3. T = Nat
  BY <1>2, StrongInduction
<1>4. QED
  BY <1>1, <1>3

\* What is visited below an error is typed like what is visited from each
\* error it wraps.
LEMMA NestedType ==
    ASSUME NEW e \in Error, NEW v, NEW D, NEW S,
           \A i \in DOMAIN Unwrap(e) : Unwrap(e)[i] \in D,
           \A c \in D : v[c] \in Seq(S)
    PROVE  Nested(Unwrap(e), v) \in Seq(S)
<1>1. CASE Unwrap(e) = <<>>
  <2>1. Nested(Unwrap(e), v) = <<>>
    BY <1>1, NestedCases
  <2>2. QED
    BY <2>1
<1>2. ASSUME NEW c, Unwrap(e) = <<c>>
      PROVE  Nested(Unwrap(e), v) \in Seq(S)
  <2>1. c \in D
    BY <1>2
  <2>2. QED
    BY <2>1, <1>2, NestedCases
<1>3. ASSUME NEW c, NEW d, Unwrap(e) = <<c, d>>
      PROVE  Nested(Unwrap(e), v) \in Seq(S)
  <2>1. c \in D /\ d \in D
    BY <1>3
  <2>2. Nested(Unwrap(e), v) = v[c] \o v[d]
    BY <1>3, NestedCases
  <2>3. QED
    BY <2>1, <2>2
<1>4. QED
  BY <1>1, <1>2, <1>3, UnwrapCases

\* An error is visited first, and after it older ones.
LEMMA SolutionType ==
    ASSUME NEW h, Grounded(h)
    PROVE  \A a \in DOMAIN h : Solution(h)[a] \in Seq(1..a)
<1> DEFINE T == { n \in Nat : n \in DOMAIN h => Solution(h)[n] \in Seq(1..n) }
<1>1. DOMAIN h = 1..Len(h) /\ Len(h) \in Nat
  BY DEF Grounded
<1>2. ASSUME NEW n \in Nat, \A m \in 0..(n - 1) : m \in T
      PROVE  n \in T
  <2> SUFFICES ASSUME n \in DOMAIN h PROVE Solution(h)[n] \in Seq(1..n)
    OBVIOUS
  <2> DEFINE below == Nested(Unwrap(h[n]), Solution(h))
  <2>1. \A b \in 1..(n - 1) : Solution(h)[b] \in Seq(1..n)
    <3> SUFFICES ASSUME NEW b \in 1..(n - 1) PROVE Solution(h)[b] \in Seq(1..n)
      OBVIOUS
    <3>1. b \in T /\ b \in DOMAIN h
      BY <1>1, <1>2
    <3>2. Solution(h)[b] \in Seq(1..b) /\ 1..b \subseteq 1..n
      BY <3>1, <1>1
    <3>3. QED
      BY <3>2, SeqMonotonic
  <2>2. \A i \in DOMAIN Unwrap(h[n]) : Unwrap(h[n])[i] \in 1..(n - 1)
    BY DEF Grounded
  <2>3. h[n] \in Error
    BY DEF Grounded
  <2>4. below \in Seq(1..n)
    BY <2>1, <2>2, <2>3, NestedType
  <2>5. Solution(h)[n] = <<n>> \o below
    BY SolutionUnfolds DEF Visits
  <2>6. <<n>> \in Seq(1..n)
    BY <1>1
  <2> HIDE DEF below
  <2>7. QED
    BY <2>4, <2>5, <2>6
<1>3. T = Nat
  BY <1>2, StrongInduction
<1>4. QED
  BY <1>1, <1>3

-----------------------------------------------------------------------------
(* The inductive invariant. *)

\* Appending to a heap keeps what was there.
LEMMA Growing ==
    ASSUME NEW h \in Seq(Error), NEW es \in Seq(Error)
    PROVE  /\ h \o es \in Seq(Error)
           /\ DOMAIN (h \o es) = 1..(Len(h) + Len(es))
           /\ \A a \in DOMAIN h : a \in DOMAIN (h \o es) /\ (h \o es)[a] = h[a]
           /\ \A k \in 1..Len(es) : (h \o es)[Len(h) + k] = es[k]
<1>1. /\ Len(h) \in Nat /\ DOMAIN h = 1..Len(h)
      /\ Len(es) \in Nat /\ DOMAIN es = 1..Len(es)
  OBVIOUS
<1>2. h \o es \in Seq(Error) /\ Len(h \o es) = Len(h) + Len(es)
  OBVIOUS
<1>3. \A i \in 1..(Len(h) + Len(es)) :
        (h \o es)[i] = IF i <= Len(h) THEN h[i] ELSE es[i - Len(h)]
  BY ConcatProperties
<1>4. \A k \in 1..Len(es) : /\ Len(h) + k \in 1..(Len(h) + Len(es))
                            /\ ~(Len(h) + k <= Len(h))
                            /\ (Len(h) + k) - Len(h) = k
  BY <1>1
<1>5. QED
  BY <1>1, <1>2, <1>3, <1>4

\* Errors that wrap older ones keep a heap grounded.
LEMMA StaysGrounded ==
    ASSUME NEW h, Grounded(h), NEW es \in Seq(Error),
           \A k \in 1..Len(es) : \A i \in DOMAIN Unwrap(es[k]) :
               Unwrap(es[k])[i] \in 1..(Len(h) + k - 1)
    PROVE  Grounded(h \o es)
<1>1. h \in Seq(Error) /\ DOMAIN h = 1..Len(h) /\ Len(h) \in Nat
  BY DEF Grounded
<1>2. SUFFICES ASSUME NEW a \in DOMAIN (h \o es),
                      NEW i \in DOMAIN Unwrap((h \o es)[a])
               PROVE  Unwrap((h \o es)[a])[i] \in 1..(a - 1)
  BY <1>1, Growing DEF Grounded
<1>3. CASE a \in DOMAIN h
  BY <1>1, <1>3, Growing DEF Grounded
<1>4. CASE a \notin DOMAIN h
  <2>1. PICK k \in 1..Len(es) : a = Len(h) + k
    <3>1. a - Len(h) \in 1..Len(es) /\ a = Len(h) + (a - Len(h))
      BY <1>1, <1>4, Growing
    <3>2. QED
      BY <3>1
  <2>2. (h \o es)[a] = es[k]
    BY <1>1, <2>1, Growing
  <2>3. i \in DOMAIN Unwrap(es[k])
    BY <1>2, <2>2
  <2>4. Unwrap(es[k])[i] \in 1..(Len(h) + k - 1)
    BY <2>3
  <2>5. Unwrap(es[k])[i] \in 1..(a - 1)
    BY <2>1, <2>4
  <2>6. QED
    BY <2>2, <2>5
<1>5. QED
  BY <1>3, <1>4

\* The types of what the actions append.
LEMMA NewErrors ==
    /\ \A c \in Code, t \in Text, a \in Nat :
          /\ Token(c, t, a) \in Error
          /\ Unwrap(Token(c, t, a)) = IF a = NoError THEN <<>> ELSE <<a>>
    /\ \A f \in Failure \cup {GrantTypeFailure} :
          f \in Error /\ Unwrap(f) = <<>>
    /\ \A a \in Nat : /\ Wrapping(<<a>>) \in Error
                      /\ Unwrap(Wrapping(<<a>>)) = <<a>>
    /\ \A a, b \in Nat : /\ Wrapping(<<a, b>>) \in Error
                         /\ Unwrap(Wrapping(<<a, b>>)) = <<a, b>>
<1>1. \A c \in Code, t \in Text, a \in Nat :
          /\ Token(c, t, a) \in Error
          /\ Unwrap(Token(c, t, a)) = IF a = NoError THEN <<>> ELSE <<a>>
  BY DEF Token, Error, Unwrap
<1>2. \A f \in Failure \cup {GrantTypeFailure} :
          f \in Error /\ Unwrap(f) = <<>>
  BY FailureKind DEF Error, Unwrap
<1>3. \A s \in Seq(Nat) :
        Len(s) \in 1..2 => Wrapping(s) \in Error /\ Unwrap(Wrapping(s)) = s
  BY DEF Wrapping, Error, Unwrap
<1>4. ASSUME NEW a \in Nat, NEW b \in Nat
      PROVE  /\ <<a>> \in Seq(Nat) /\ Len(<<a>>) \in 1..2
             /\ <<a, b>> \in Seq(Nat) /\ Len(<<a, b>>) \in 1..2
  OBVIOUS
<1>5. QED
  BY <1>1, <1>2, <1>3, <1>4

\* An error that has a token's kind is a token.
LEMMA TokenShape ==
    ASSUME NEW e \in Error, e.kind = "token", NEW cause
    PROVE  \E c \in Code, t \in Text :
               /\ e = Token(c, t, e.cause) /\ e.cause \in Nat
               /\ [e EXCEPT !.cause = cause] = Token(c, t, cause)
<1>1. e \in [ kind : {"token"}, Code : Code, Description : Text, cause : Nat ]
  <2>1. e \notin Failure \cup {GrantTypeFailure}
    BY FailureKind
  <2>2. e \notin {Given[i] : i \in DOMAIN Given}
    BY DEF Given
  <2>3. e \notin [ kind : {"wrapping"}, errs : {s \in Seq(Nat) : Len(s) \in 1..2} ]
    OBVIOUS
  <2>4. QED
    BY <2>1, <2>2, <2>3 DEF Error
<1>2. QED
  BY <1>1 DEF Token

\* g is h with es, which wrap older errors, appended.
Appends(h, g, es) ==
    /\ es \in Seq(Error) /\ g = h \o es
    /\ \A k \in 1..Len(es) : \A i \in DOMAIN Unwrap(es[k]) :
           Unwrap(es[k])[i] \in 1..(Len(h) + k - 1)

\* An error appended alone wraps older ones.
LEMMA AppendsOne ==
    ASSUME NEW h, Len(h) \in Nat, NEW e \in Error,
           \A i \in DOMAIN Unwrap(e) : Unwrap(e)[i] \in 1..Len(h)
    PROVE  Appends(h, h \o <<e>>, <<e>>)
<1>1. <<e>> \in Seq(Error) /\ Len(<<e>>) = 1 /\ <<e>>[1] = e
  OBVIOUS
<1>2. QED
  BY <1>1 DEF Appends

\* Every step appends errors that wrap older ones.
LEMMA StepAppends ==
    ASSUME Inv, Next
    PROVE  \E es : Appends(heap, heap', es)
<1>0. /\ heap \in Seq(Error) /\ Len(heap) \in Nat
      /\ DOMAIN heap = 1..Len(heap) /\ 2 \in 1..Len(heap)
  BY DEF Inv, TypeOK, VerdictsOK, Given
<1>1. CASE NewToken
  <2>1. PICK c \in Code, t \in Text : heap' = heap \o <<Token(c, t, NoError)>>
    BY <1>1 DEF NewToken, Make
  <2>2. /\ Token(c, t, NoError) \in Error
        /\ Unwrap(Token(c, t, NoError)) = <<>>
    BY NewErrors DEF NoError
  <2>3. QED
    BY <1>0, <2>1, <2>2, AppendsOne
<1>2. CASE ValidateFails
  <2>1. PICK f \in Failure : heap' = heap \o <<f>>
    BY <1>2 DEF ValidateFails, Make
  <2>2. QED
    BY <1>0, <2>1, NewErrors, AppendsOne
<1>3. CASE GrantTypeFails
  <2> DEFINE w == Wrapping(<<ErrInvalidGrantType, Len(heap) + 1>>)
             es == <<GrantTypeFailure, w>>
  <2>1. heap' = heap \o es
    BY <1>3 DEF GrantTypeFails, Make
  <2>2. /\ GrantTypeFailure \in Error /\ Unwrap(GrantTypeFailure) = <<>>
        /\ w \in Error /\ Unwrap(w) = <<2, Len(heap) + 1>>
    BY <1>0, NewErrors DEF ErrInvalidGrantType
  <2> HIDE DEF w
  <2>3. /\ es \in Seq(Error) /\ Len(es) = 2
        /\ es[1] = GrantTypeFailure /\ es[2] = w
    BY <2>2
  <2>4. ASSUME NEW k \in 1..2, NEW i \in DOMAIN Unwrap(es[k])
        PROVE  Unwrap(es[k])[i] \in 1..(Len(heap) + k - 1)
    <3>1. CASE k = 1
      BY <2>2, <2>3, <3>1
    <3>2. CASE k = 2
      <4>1. Unwrap(es[k]) = <<2, Len(heap) + 1>> /\ i \in 1..2
        BY <2>2, <2>3, <2>4, <3>2
      <4>2. QED
        BY <4>1, <1>0, <3>2
    <3>3. QED
      BY <3>1, <3>2
  <2>5. QED
    BY <1>0, <2>1, <2>3, <2>4 DEF Appends
<1>4. CASE Wrap
  <2>1. PICK a \in DOMAIN heap : heap' = heap \o <<Wrapping(<<a>>)>>
    BY <1>4 DEF Wrap, Make
  <2>2. /\ Wrapping(<<a>>) \in Error /\ Unwrap(Wrapping(<<a>>)) = <<a>>
        /\ a \in 1..Len(heap)
    BY <1>0, <2>1, NewErrors
  <2>3. QED
    BY <1>0, <2>1, <2>2, AppendsOne
<1>5. ASSUME NEW e \in DOMAIN heap, NEW cause \in DOMAIN heap \cup {NoError},
             WithCause(e, cause)
      PROVE  \E es : Appends(heap, heap', es)
  <2>0. heap[e] \in Error /\ heap[e].kind = "token"
    BY <1>0, <1>5 DEF WithCause
  <2>1. PICK c \in Code, t \in Text :
            [heap[e] EXCEPT !.cause = cause] = Token(c, t, cause)
    BY <2>0, TokenShape
  <2>2. heap' = heap \o <<Token(c, t, cause)>>
    BY <1>5, <2>1 DEF WithCause, Make
  <2>3. /\ Token(c, t, cause) \in Error
        /\ \A i \in DOMAIN Unwrap(Token(c, t, cause)) :
              Unwrap(Token(c, t, cause))[i] \in 1..Len(heap)
    <3>1. cause \in Nat /\ (cause # NoError => cause \in 1..Len(heap))
      BY <1>0 DEF NoError
    <3>2. /\ Token(c, t, cause) \in Error
          /\ Unwrap(Token(c, t, cause)) =
                 IF cause = NoError THEN <<>> ELSE <<cause>>
      BY <3>1, NewErrors
    <3>3. CASE cause = NoError
      BY <3>2, <3>3
    <3>4. CASE cause # NoError
      <4>1. Unwrap(Token(c, t, cause)) = <<cause>>
        BY <3>2, <3>4
      <4>2. QED
        BY <3>1, <3>2, <3>4, <4>1
    <3>5. QED
      BY <3>3, <3>4
  <2>4. QED
    BY <1>0, <2>2, <2>3, AppendsOne
<1>6. QED
  BY <1>1, <1>2, <1>3, <1>4, <1>5 DEF Next

\* Inv is inductive.
LEMMA InvStep ==
    ASSUME Inv, [Next]_vars
    PROVE  Inv'
<1>1. CASE UNCHANGED vars
  BY <1>1 DEF Inv, TypeOK, ChainsEnd, VerdictsOK, vars
<1>2. CASE Next
  <2>1. PICK es : Appends(heap, heap', es)
    BY <1>2, StepAppends
  <2>2. Grounded(heap)
    BY DEF Inv, TypeOK, ChainsEnd, Grounded
  <2>3. Grounded(heap')
    BY <2>1, <2>2, StaysGrounded DEF Appends
  <2>4. /\ heap \in Seq(Error) /\ DOMAIN heap = 1..Len(heap) /\ Len(heap) \in Nat
        /\ \A a \in DOMAIN heap : a \in DOMAIN heap' /\ heap'[a] = heap[a]
    BY <2>1, <2>2, Growing DEF Appends, Grounded
  <2>5. \A i \in DOMAIN Given : i \in DOMAIN heap' /\ heap'[i] = Given[i]
    BY <2>4 DEF Inv, VerdictsOK
  <2> DEFINE Verdict(h, a) ==
          \/ h[a] \in Failure
          \/ \E b \in 1..(a - 1) :
                /\ h[a] = Wrapping(<<ErrInvalidGrantType, b>>)
                /\ h[b] = GrantTypeFailure
  <2>6. \A a \in returned : a \in DOMAIN heap' /\ Verdict(heap', a)
    <3> SUFFICES ASSUME NEW a \in returned
                 PROVE  a \in DOMAIN heap' /\ Verdict(heap', a)
      OBVIOUS
    <3>1. a \in DOMAIN heap /\ Verdict(heap, a)
      BY DEF Inv, TypeOK, VerdictsOK
    <3>2. \A b \in 1..(a - 1) : b \in DOMAIN heap
      BY <2>4, <3>1
    <3>3. QED
      BY <2>4, <3>1, <3>2
  <2>7. \A a \in returned' : a \in DOMAIN heap' /\ Verdict(heap', a)
    <3>1. CASE UNCHANGED returned
      BY <2>6, <3>1
    <3>2. CASE ValidateFails
      <4>1. PICK f \in Failure : heap' = heap \o <<f>>
        BY <3>2 DEF ValidateFails, Make
      <4>2. returned' = returned \cup {Len(heap')}
        BY <3>2 DEF ValidateFails
      <4>3. <<f>> \in Seq(Error) /\ Len(<<f>>) = 1 /\ <<f>>[1] = f
        BY NewErrors
      <4>4. /\ DOMAIN heap' = 1..(Len(heap) + 1)
            /\ heap'[Len(heap) + 1] = f
        BY <2>4, <4>1, <4>3, Growing
      <4>5. Len(heap') = Len(heap) + 1
        BY <2>3, <2>4, <4>4 DEF Grounded
      <4>6. QED
        BY <2>4, <2>6, <4>2, <4>4, <4>5
    <3>3. CASE GrantTypeFails
      <4> DEFINE n == Len(heap)
                 w == Wrapping(<<ErrInvalidGrantType, n + 1>>)
      <4>1. heap' = heap \o <<GrantTypeFailure, w>>
        BY <3>3 DEF GrantTypeFails, Make
      <4>2. returned' = returned \cup {Len(heap')}
        BY <3>3 DEF GrantTypeFails
      <4>3. GrantTypeFailure \in Error /\ w \in Error
        BY <2>4, NewErrors DEF ErrInvalidGrantType
      <4> HIDE DEF w
      <4> DEFINE new == <<GrantTypeFailure, w>>
      <4>4. /\ new \in Seq(Error) /\ Len(new) = 2
            /\ new[1] = GrantTypeFailure /\ new[2] = w
        BY <4>3
      <4>5. /\ DOMAIN heap' = 1..(n + 2)
            /\ heap'[n + 1] = GrantTypeFailure /\ heap'[n + 2] = w
        BY <2>4, <4>1, <4>4, Growing
      <4>6. Len(heap') = n + 2
        BY <2>3, <2>4, <4>5 DEF Grounded
      <4>7. n + 1 \in 1..((n + 2) - 1) /\ n + 2 \in DOMAIN heap'
        BY <2>4, <4>5
      <4>8. Verdict(heap', n + 2)
        BY <4>5, <4>7 DEF w
      <4>9. QED
        BY <2>6, <4>2, <4>6, <4>7, <4>8
    <3>4. QED
      BY <1>2, <3>1, <3>2, <3>3 DEF Next, NewToken, Wrap, WithCause
  <2>8. TypeOK'
    BY <2>3, <2>7 DEF TypeOK, Grounded
  <2>9. ChainsEnd'
    BY <2>3 DEF ChainsEnd, Grounded
  <2>10. VerdictsOK'
    BY <2>5, <2>7 DEF VerdictsOK
  <2>11. QED
    BY <2>8, <2>9, <2>10 DEF Inv
<1>3. QED
  BY <1>1, <1>2

\* Errors keep their shape, wrap only older ones, and carry Validate's
\* verdicts as they were made, whatever is made of them.
THEOREM Invariance == Spec => []Inv
<1>1. Init => Inv
  <2> SUFFICES ASSUME Init PROVE Inv
    OBVIOUS
  <2>1. /\ heap = Given /\ returned = {}
        /\ Given = << [kind |-> "nil_token"], [kind |-> "plain"],
                      [kind |-> "plain"], [kind |-> "nil_validation"] >>
    BY DEF Init, Given
  <2>2. \A i \in DOMAIN Given : Given[i] \in Error /\ Unwrap(Given[i]) = <<>>
    <3> SUFFICES ASSUME NEW i \in DOMAIN Given
                 PROVE  Given[i] \in Error /\ Unwrap(Given[i]) = <<>>
      OBVIOUS
    <3>1. Given[i] \in Error
      BY DEF Error
    <3>2. Given[i].kind \in {"nil_token", "plain", "nil_validation"}
      BY <2>1
    <3>3. QED
      BY <3>1, <3>2 DEF Unwrap
  <2>3. heap \in Seq(Error)
    BY <2>1, <2>2
  <2>4. QED
    BY <2>1, <2>2, <2>3 DEF Inv, TypeOK, ChainsEnd, VerdictsOK
<1>2. Inv /\ [Next]_vars => Inv'
  BY InvStep
<1>3. QED
  BY <1>1, <1>2, PTL DEF Spec

\* No chain of errors runs back into itself: errors.Is and errors.As end.
THEOREM Termination == Spec => []ChainsEnd
<1>1. Inv => ChainsEnd
  BY DEF Inv
<1>2. QED
  BY <1>1, Invariance, PTL

-----------------------------------------------------------------------------
(* What errors.Is says, as a function of the heap. *)

SeenIn(h, v) ==
    LET below == Nested(Unwrap(v), Solution(h))
    IN  <<v>> \o [i \in DOMAIN below |-> h[below[i]]]

TokenIsIn(h, e, v) ==
    \E i \in DOMAIN SeenIn(h, v) :
        /\ \A j \in 1..(i - 1) : ~IsTokenPointer(SeenIn(h, v)[j])
        /\ e.kind = "token" /\ SeenIn(h, v)[i].kind = "token"
        /\ e.Code = SeenIn(h, v)[i].Code

MatchesIn(h, a, v) ==
    \E x \in ToSet(Solution(h)[a]) :
        \/ IsTokenPointer(h[x]) /\ TokenIsIn(h, h[x], v)
        \/ IsValidationPointer(h[x]) /\ ValidationIs(h[x], v)

IsIn(h, a, b) == b \in ToSet(Solution(h)[a]) \/ MatchesIn(h, a, h[b])

\* The definitions, before and after a step.
LEMMA InThisHeap ==
    /\ \A e, v : TokenIs(e, v) = TokenIsIn(heap, e, v)
    /\ \A a, v : Matches(a, v) = MatchesIn(heap, a, v)
    /\ \A a, b : Is(a, b) = IsIn(heap, a, b)
    /\ \A a, b : Is(a, b)' = IsIn(heap', a, b)
<1>1. /\ \A v : Seen(v) = SeenIn(heap, v)
      /\ \A v : Seen(v)' = SeenIn(heap', v)
  BY VisitedIsSolution DEF Seen, SeenIn, Nested
<1>2. /\ \A e, v : TokenIs(e, v) = TokenIsIn(heap, e, v)
      /\ \A e, v : TokenIs(e, v)' = TokenIsIn(heap', e, v)
  BY <1>1 DEF TokenIs, TokenIsIn
<1>3. /\ \A a, v : Matches(a, v) = MatchesIn(heap, a, v)
      /\ \A a, v : Matches(a, v)' = MatchesIn(heap', a, v)
  BY <1>2, VisitedIsSolution DEF Matches, MatchesIn
<1>4. QED
  BY <1>2, <1>3, VisitedIsSolution DEF Is, IsIn

\* g is a heap that grew out of h.
Extends(h, g) ==
    /\ Grounded(h) /\ Grounded(g)
    /\ \A a \in DOMAIN h : a \in DOMAIN g /\ g[a] = h[a]

\* A step extends the heap.
LEMMA StepExtends ==
    ASSUME Inv, Next
    PROVE  Extends(heap, heap')
<1>1. PICK es : Appends(heap, heap', es)
  BY StepAppends
<1>2. Grounded(heap)
  BY DEF Inv, TypeOK, ChainsEnd, Grounded
<1>3. QED
  BY <1>1, <1>2, StaysGrounded, Growing DEF Appends, Extends, Grounded

\* What errors.As sees in a value stays, if the value wraps errors that are
\* there.
LEMMA SeenIsStable ==
    ASSUME NEW h, NEW g, Extends(h, g), NEW v \in Error,
           \A i \in DOMAIN Unwrap(v) : Unwrap(v)[i] \in DOMAIN h
    PROVE  SeenIn(g, v) = SeenIn(h, v)
<1> DEFINE D == DOMAIN h
           below(k) == Nested(Unwrap(v), Solution(k))
<1>1. D = 1..Len(h) /\ Len(h) \in Nat
  BY DEF Extends, Grounded
<1>2. \A c \in D : Solution(g)[c] = Solution(h)[c]
  BY SolutionIsStable DEF Extends
<1>3. \A c \in D : Solution(h)[c] \in Seq(D)
  <2> SUFFICES ASSUME NEW c \in D PROVE Solution(h)[c] \in Seq(D)
    OBVIOUS
  <2>1. Solution(h)[c] \in Seq(1..c) /\ 1..c \subseteq D
    BY <1>1, SolutionType DEF Extends
  <2>2. QED
    BY <2>1, SeqMonotonic
<1>4. below(h) \in Seq(D)
  BY <1>3, NestedType
<1>5. below(g) = below(h)
  <2>1. [i \in DOMAIN Unwrap(v) |-> Solution(g)[Unwrap(v)[i]]] =
        [i \in DOMAIN Unwrap(v) |-> Solution(h)[Unwrap(v)[i]]]
    BY <1>2
  <2>2. QED
    BY <2>1 DEF Nested
<1>6. \A i \in DOMAIN below(h) : below(h)[i] \in D
  BY <1>4
<1>7. [i \in DOMAIN below(g) |-> g[below(g)[i]]] =
      [i \in DOMAIN below(h) |-> h[below(h)[i]]]
  BY <1>5, <1>6 DEF Extends
<1>8. QED
  BY <1>5, <1>7 DEF SeenIn

\* What errors.Is says of two errors stays.
LEMMA IsStable ==
    ASSUME NEW h, NEW g, Extends(h, g), NEW a \in DOMAIN h, NEW b \in DOMAIN h
    PROVE  IsIn(g, a, b) = IsIn(h, a, b)
<1>1. /\ DOMAIN h = 1..Len(h) /\ Len(h) \in Nat
      /\ Grounded(h) /\ g[b] = h[b] /\ h[b] \in Error
  BY DEF Extends, Grounded
<1>2. Solution(g)[a] = Solution(h)[a]
  BY SolutionIsStable DEF Extends
<1>3. \A x \in ToSet(Solution(h)[a]) : g[x] = h[x]
  <2>1. Solution(h)[a] \in Seq(1..a)
    BY <1>1, SolutionType
  <2>2. \A x \in ToSet(Solution(h)[a]) : x \in DOMAIN h
    BY <1>1, <2>1 DEF ToSet
  <2>3. QED
    BY <2>2 DEF Extends
<1>4. \A i \in DOMAIN Unwrap(h[b]) : Unwrap(h[b])[i] \in DOMAIN h
  BY <1>1 DEF Grounded
<1>5. SeenIn(g, h[b]) = SeenIn(h, h[b])
  BY <1>1, <1>4, SeenIsStable
<1>6. \A e : TokenIsIn(g, e, h[b]) = TokenIsIn(h, e, h[b])
  BY <1>5 DEF TokenIsIn
<1>7. MatchesIn(g, a, h[b]) = MatchesIn(h, a, h[b])
  BY <1>2, <1>3, <1>6 DEF MatchesIn
<1>8. QED
  BY <1>1, <1>2, <1>7 DEF IsIn

\* What errors.Is has said about two errors it will always say, whatever is
\* made of them afterwards: WithCause and Validate share nothing that changes.
THEOREM Stability == Spec => MatchesAreStable
<1>1. Inv /\ [Next]_vars =>
        [\A a, b \in DOMAIN heap : Is(a, b)' = Is(a, b)]_vars
  <2> SUFFICES ASSUME Inv, Next, NEW a \in DOMAIN heap, NEW b \in DOMAIN heap
               PROVE  Is(a, b)' = Is(a, b)
    OBVIOUS
  <2>1. IsIn(heap', a, b) = IsIn(heap, a, b)
    BY StepExtends, IsStable
  <2>2. QED
    BY <2>1, InThisHeap
<1>2. QED
  BY <1>1, Invariance, PTL DEF Spec, MatchesAreStable

-----------------------------------------------------------------------------
(* The errors that an error holds. *)

\* The elements of two sequences in a row.
LEMMA ToSetOfConcat ==
    ASSUME NEW S, NEW s \in Seq(S), NEW t \in Seq(S)
    PROVE  ToSet(s \o t) = ToSet(s) \cup ToSet(t)
<1>1. /\ Len(s) \in Nat /\ DOMAIN s = 1..Len(s)
      /\ Len(t) \in Nat /\ DOMAIN t = 1..Len(t)
      /\ DOMAIN (s \o t) = 1..(Len(s) + Len(t))
  OBVIOUS
<1>2. /\ \A i \in DOMAIN s : i \in DOMAIN (s \o t) /\ (s \o t)[i] = s[i]
      /\ \A i \in DOMAIN t : /\ Len(s) + i \in DOMAIN (s \o t)
                             /\ (s \o t)[Len(s) + i] = t[i]
      /\ \A i \in DOMAIN (s \o t) :
            \/ i \in DOMAIN s
            \/ i - Len(s) \in DOMAIN t /\ Len(s) + (i - Len(s)) = i
  BY <1>1
<1>3. ASSUME NEW x \in ToSet(s \o t) PROVE x \in ToSet(s) \cup ToSet(t)
  <2>1. PICK i \in DOMAIN (s \o t) : x = (s \o t)[i]
    BY DEF ToSet
  <2>2. CASE i \in DOMAIN s
    BY <1>2, <2>1, <2>2 DEF ToSet
  <2>3. CASE i - Len(s) \in DOMAIN t /\ Len(s) + (i - Len(s)) = i
    <3>1. (s \o t)[i] = t[i - Len(s)]
      BY <1>2, <2>3
    <3>2. QED
      BY <2>1, <2>3, <3>1 DEF ToSet
  <2>4. QED
    BY <1>2, <2>2, <2>3
<1>4. ASSUME NEW x \in ToSet(s) \cup ToSet(t) PROVE x \in ToSet(s \o t)
  <2>1. CASE x \in ToSet(s)
    <3>1. PICK i \in DOMAIN s : x = s[i]
      BY <2>1 DEF ToSet
    <3>2. i \in DOMAIN (s \o t) /\ x = (s \o t)[i]
      BY <1>2, <3>1
    <3>3. QED
      BY <3>2 DEF ToSet
  <2>2. CASE x \in ToSet(t)
    <3>1. PICK i \in DOMAIN t : x = t[i]
      BY <2>2 DEF ToSet
    <3>2. Len(s) + i \in DOMAIN (s \o t) /\ x = (s \o t)[Len(s) + i]
      BY <1>2, <3>1
    <3>3. QED
      BY <3>2 DEF ToSet
  <2>3. QED
    BY <2>1, <2>2
<1>5. QED
  BY <1>3, <1>4

\* What is visited from an error is the error and what is visited from each
\* that it wraps.
LEMMA VisitedSet ==
    ASSUME NEW h, Grounded(h), NEW a \in DOMAIN h
    PROVE  ToSet(Solution(h)[a]) =
               {a} \cup UNION { ToSet(Solution(h)[c]) : c \in ToSet(Unwrap(h[a])) }
<1> DEFINE v == Solution(h)
           errs == Unwrap(h[a])
           under == UNION { ToSet(v[c]) : c \in ToSet(errs) }
<1>1. /\ DOMAIN h = 1..Len(h) /\ Len(h) \in Nat /\ h[a] \in Error
      /\ \A i \in DOMAIN errs : errs[i] \in 1..(a - 1)
  BY DEF Grounded
<1>2. \A c \in 1..(a - 1) : v[c] \in Seq(1..a)
  <2> SUFFICES ASSUME NEW c \in 1..(a - 1) PROVE v[c] \in Seq(1..a)
    OBVIOUS
  <2>1. v[c] \in Seq(1..c) /\ 1..c \subseteq 1..a
    BY <1>1, SolutionType
  <2>2. QED
    BY <2>1, SeqMonotonic
<1> HIDE DEF v
<1>3. Nested(errs, v) \in Seq(1..a)
  BY <1>1, <1>2, NestedType
<1>4. ToSet(Nested(errs, v)) = under
  <2>1. CASE errs = <<>>
    <3>1. Nested(errs, v) = <<>>
      BY <2>1, NestedCases
    <3>2. QED
      BY <2>1, <3>1 DEF ToSet
  <2>2. ASSUME NEW c \in Nat, errs = <<c>>
        PROVE  ToSet(Nested(errs, v)) = under
    <3>1. Nested(errs, v) = v[c]
      BY <2>2, NestedCases
    <3>2. ToSet(errs) = {c}
      BY <2>2 DEF ToSet
    <3>3. QED
      BY <3>1, <3>2
  <2>3. ASSUME NEW c \in Nat, NEW d \in Nat, errs = <<c, d>>
        PROVE  ToSet(Nested(errs, v)) = under
    <3>1. Nested(errs, v) = v[c] \o v[d]
      BY <2>3, NestedCases
    <3>2. ToSet(errs) = {c, d}
      BY <2>3 DEF ToSet
    <3>3. c \in 1..(a - 1) /\ d \in 1..(a - 1)
      BY <1>1, <2>3
    <3>4. ToSet(v[c] \o v[d]) = ToSet(v[c]) \cup ToSet(v[d])
      BY <3>3, <1>2, ToSetOfConcat
    <3>5. QED
      BY <3>1, <3>2, <3>4
  <2>4. QED
    BY <1>1, <2>1, <2>2, <2>3, UnwrapCases
<1>5. v[a] = <<a>> \o Nested(errs, v)
  BY SolutionUnfolds DEF Visits, v
<1>6. <<a>> \in Seq(1..a) /\ ToSet(<<a>>) = {a}
  BY <1>1 DEF ToSet
<1>7. ToSet(v[a]) = {a} \cup ToSet(Nested(errs, v))
  <2>1. \A t \in Seq(1..a) : ToSet(<<a>> \o t) = ToSet(<<a>>) \cup ToSet(t)
    BY <1>6, ToSetOfConcat
  <2>2. QED
    BY <2>1, <1>3, <1>5, <1>6
<1>8. QED
  BY <1>4, <1>7 DEF v

\* What is visited is what is held: the recursion agrees with the least
\* closed set.
LEMMA HoldsIsVisited ==
    ASSUME Grounded(heap), NEW a \in DOMAIN heap
    PROVE  Holds(a) = ToSet(Solution(heap)[a])
<1> DEFINE V(n) == ToSet(Solution(heap)[n])
           W(n) == ToSet(Unwrap(heap[n]))
<1>1. DOMAIN heap = 1..Len(heap) /\ Len(heap) \in Nat
  BY DEF Grounded
<1>2. \A n \in DOMAIN heap : W(n) \subseteq 1..(n - 1)
  BY DEF Grounded, ToSet
<1>3. \A n \in DOMAIN heap : V(n) = {n} \cup UNION {V(c) : c \in W(n)}
  BY VisitedSet
<1>4. V(a) \subseteq DOMAIN heap
  <2>1. Solution(heap)[a] \in Seq(1..a)
    BY SolutionType
  <2>2. QED
    BY <2>1, <1>1 DEF ToSet
<1> HIDE DEF V, W
<1>5. \A n \in DOMAIN heap : \A y \in V(n) : W(y) \subseteq V(n)
  <2> DEFINE T == { n \in Nat : n \in DOMAIN heap =>
                                    \A y \in V(n) : W(y) \subseteq V(n) }
  <2>1. ASSUME NEW n \in Nat, \A m \in 0..(n - 1) : m \in T
        PROVE  n \in T
    <3> SUFFICES ASSUME n \in DOMAIN heap, NEW y \in V(n)
                 PROVE  W(y) \subseteq V(n)
      OBVIOUS
    <3>1. \A c \in W(n) : c \in DOMAIN heap /\ c \in T
      BY <1>1, <1>2, <2>1
    <3>2. CASE y = n
      BY <3>1, <3>2, <1>3
    <3>3. ASSUME NEW c \in W(n), y \in V(c) PROVE W(y) \subseteq V(n)
      BY <3>1, <3>3, <1>3
    <3>4. QED
      BY <3>2, <3>3, <1>3
  <2>2. T = Nat
    BY <2>1, StrongInduction
  <2>3. QED
    BY <2>2, <1>1
<1>6. \A S \in SUBSET DOMAIN heap :
        (a \in S /\ \A y \in S : W(y) \subseteq S) => V(a) \subseteq S
  <2> SUFFICES ASSUME NEW S \in SUBSET DOMAIN heap, a \in S,
                      \A y \in S : W(y) \subseteq S
               PROVE  V(a) \subseteq S
    OBVIOUS
  <2> DEFINE T == { n \in Nat : n \in S => V(n) \subseteq S }
  <2>1. ASSUME NEW n \in Nat, \A m \in 0..(n - 1) : m \in T
        PROVE  n \in T
    <3> SUFFICES ASSUME n \in S PROVE V(n) \subseteq S
      OBVIOUS
    <3>1. \A c \in W(n) : c \in S /\ c \in T
      BY <1>1, <1>2, <2>1
    <3>2. QED
      BY <3>1, <1>3
  <2>2. T = Nat
    BY <2>1, StrongInduction
  <2>3. QED
    BY <2>2, <1>1
<1>7. Holds(a) = { x \in DOMAIN heap : \A S \in SUBSET DOMAIN heap :
                       (a \in S /\ \A y \in S : W(y) \subseteq S) => x \in S }
  BY DEF Holds, W
<1>8. a \in V(a) /\ \A y \in V(a) : W(y) \subseteq V(a)
  BY <1>3, <1>5
<1>9. V(a) = Holds(a)
  BY <1>4, <1>6, <1>7, <1>8
<1>10. QED
  BY <1>9 DEF V

-----------------------------------------------------------------------------
(* What errors.Is answers. *)

\* A value that wraps nothing is all that is seen in it.
LEMMA SeenAlone ==
    ASSUME NEW v, Unwrap(v) = <<>>, NEW e
    PROVE  TokenIs(e, v) <=>
               v.kind = "token" /\ e.kind = "token" /\ e.Code = v.Code
<1> DEFINE deep == Nested(Unwrap(v), Visited)
<1>1. Seen(v) = <<v>> \o [i \in DOMAIN deep |-> heap[deep[i]]]
  BY DEF Seen, Nested
<1>2. Seen(v) = <<v>>
  <2>1. deep = <<>>
    BY NestedCases
  <2> HIDE DEF deep
  <2>2. [i \in DOMAIN deep |-> heap[deep[i]]] = <<>>
    BY <2>1
  <2>3. QED
    BY <1>1, <2>2
<1>3. DOMAIN Seen(v) = {1} /\ Seen(v)[1] = v /\ 1..(1 - 1) = {}
  BY <1>2
<1>4. QED
  BY <1>3 DEF TokenIs

\* Client code dispatches by code alone, on every error and every code.
THEOREM Dispatch == Spec => []DispatchIsByCode
<1>1. Inv => DispatchIsByCode
  <2> SUFFICES ASSUME Inv, NEW a \in DOMAIN heap, NEW c \in Code
               PROVE  Matches(a, Token(c, "", NoError)) <=>
                          \E x \in Holds(a) :
                              heap[x].kind = "token" /\ heap[x].Code = c
    BY DEF DispatchIsByCode
  <2> DEFINE t == Token(c, "", NoError)
  <2>1. Holds(a) = ToSet(Visited[a])
    BY HoldsIsVisited, VisitedIsSolution
       DEF Inv, TypeOK, ChainsEnd, Grounded
  <2>2. t.kind = "token" /\ t.Code = c /\ Unwrap(t) = <<>>
    BY DEF Token, Unwrap, NoError
  <2> HIDE DEF t
  <2>3. \A e : TokenIs(e, t) <=> e.kind = "token" /\ e.Code = c
    BY <2>2, SeenAlone
  <2>4. \A e : ~ValidationIs(e, t)
    BY <2>2 DEF ValidationIs
  <2>5. Matches(a, t) <=>
            \E x \in ToSet(Visited[a]) :
                heap[x].kind = "token" /\ heap[x].Code = c
    BY <2>3, <2>4 DEF Matches, IsTokenPointer
  <2>6. QED
    BY <2>1, <2>5 DEF t
<1>2. QED
  BY <1>1, Invariance, PTL

Fits(e, r, p, s) ==
    /\ e.kind = "validation"
    /\ r \in {"", e.Rule} /\ p \in {"", e.Parameter} /\ s \in {"", e.Reason}

\* A ValidationError made to be looked for is matched by fields alone.
LEMMA MatchesPattern ==
    ASSUME NEW a, NEW r, NEW p, NEW s
    PROVE  Matches(a, Validation(r, p, s)) <=>
               \E x \in ToSet(Visited[a]) : Fits(heap[x], r, p, s)
<1> DEFINE v == Validation(r, p, s)
<1>1. /\ v.kind = "validation" /\ Unwrap(v) = <<>>
      /\ v.Rule = r /\ v.Parameter = p /\ v.Reason = s
  BY DEF Validation, Unwrap
<1> HIDE DEF v
<1>2. \A e : ~TokenIs(e, v)
  BY <1>1, SeenAlone
<1>3. \A e : ValidationIs(e, v) <=>
          /\ e.kind = "validation"
          /\ r \in {"", e.Rule} /\ p \in {"", e.Parameter} /\ s \in {"", e.Reason}
  BY <1>1 DEF ValidationIs
<1>4. QED
  BY <1>2, <1>3 DEF Matches, Fits, IsValidationPointer, v

\* Wildcards compose, on every error.
THEOREM Wildcards == Spec => []WildcardsCompose
<1>1. Inv => WildcardsCompose
  <2> SUFFICES ASSUME NEW a \in DOMAIN heap, NEW v \in Pattern,
                      NEW w \in Pattern, Matches(a, v), ValidationIs(v, w)
               PROVE  Matches(a, w)
    BY DEF WildcardsCompose
  <2>1. PICK r, p, s : v = Validation(r, p, s)
    BY DEF Pattern
  <2>2. PICK r2, p2, s2 : w = Validation(r2, p2, s2)
    BY DEF Pattern
  <2>3. PICK x \in ToSet(Visited[a]) : Fits(heap[x], r, p, s)
    BY <2>1, MatchesPattern
  <2>4. r2 \in {"", r} /\ p2 \in {"", p} /\ s2 \in {"", s}
    BY <2>1, <2>2 DEF ValidationIs, Validation
  <2>5. Fits(heap[x], r2, p2, s2)
    BY <2>3, <2>4 DEF Fits
  <2>6. Matches(a, Validation(r2, p2, s2))
    BY <2>5, MatchesPattern
  <2>7. QED
    BY <2>2, <2>6
<1>2. QED
  BY <1>1, Invariance, PTL

\* Every verdict of Validate matches in the shapes that its comment names.
LEMMA VerdictsMatch ==
    ASSUME Inv, NEW a \in returned
    PROVE  /\ Matches(a, Validation("", "", ""))
           /\ Is(a, ErrInvalidGrantType) <=>
                  Matches(a, Validation("", "grant_type", ""))
<1> DEFINE G == ErrInvalidGrantType
<1>1. /\ Grounded(heap) /\ a \in DOMAIN heap /\ DOMAIN heap = 1..Len(heap)
      /\ Len(heap) \in Nat
  BY DEF Inv, TypeOK, ChainsEnd, Grounded
<1>2. G \in DOMAIN heap /\ heap[G].kind = "plain"
  <2>1. G \in DOMAIN Given /\ Given[G].kind = "plain"
    BY DEF Given, ErrInvalidGrantType
  <2>2. QED
    BY <2>1 DEF Inv, VerdictsOK
<1>3. Unwrap(heap[G]) = <<>>
  BY <1>2 DEF Unwrap
<1>4. ~Matches(a, heap[G])
  <2>1. \A e : ~TokenIs(e, heap[G])
    BY <1>2, <1>3, SeenAlone
  <2>2. \A e : ~ValidationIs(e, heap[G])
    BY <1>2 DEF ValidationIs
  <2>3. QED
    BY <2>1, <2>2 DEF Matches
<1>5. Is(a, G) <=> G \in ToSet(Visited[a])
  BY <1>4 DEF Is
<1>6. \A b \in DOMAIN heap : Visited[b] = Visits(heap, Visited, b)
  BY <1>1, SolutionUnfolds, VisitedIsSolution
<1>7. \A b \in DOMAIN heap :
          Unwrap(heap[b]) = <<>> => Visited[b] = <<b>>
  <2>1. Nested(<<>>, Visited) = <<>>
    BY NestedCases
  <2>2. \A b : <<b>> \o <<>> = <<b>>
    OBVIOUS
  <2>3. QED
    BY <1>6, <2>1, <2>2 DEF Visits
<1>8. CASE heap[a] \in Failure
  <2>1. heap[a].kind = "validation" /\ Unwrap(heap[a]) = <<>>
    BY <1>8, NewErrors, FailureKind
  <2>2. heap[a].Parameter # "grant_type"
    BY <1>8, ErrorAssumption
  <2>3. ToSet(Visited[a]) = {a}
    BY <1>1, <1>7, <2>1 DEF ToSet
  <2>4. Matches(a, Validation("", "", ""))
    BY <2>1, <2>3, MatchesPattern DEF Fits
  <2>5. ~Matches(a, Validation("", "grant_type", ""))
    <3>1. ~Fits(heap[a], "", "grant_type", "")
      BY <2>2 DEF Fits
    <3>2. QED
      BY <2>3, <3>1, MatchesPattern
  <2>6. a # G
    BY <1>2, <2>1
  <2>7. QED
    BY <1>5, <2>3, <2>4, <2>5, <2>6
<1>9. ASSUME NEW b \in 1..(a - 1), heap[a] = Wrapping(<<G, b>>),
             heap[b] = GrantTypeFailure
      PROVE  /\ Matches(a, Validation("", "", ""))
             /\ Is(a, G) <=> Matches(a, Validation("", "grant_type", ""))
  <2>1. b \in DOMAIN heap /\ G \in Nat
    BY <1>1 DEF ErrInvalidGrantType
  <2>2. Unwrap(heap[a]) = <<G, b>>
    BY <1>9, <2>1, NewErrors
  <2>3. Unwrap(heap[b]) = <<>> /\ heap[b].kind = "validation"
    BY <1>9, NewErrors, FailureKind
  <2>4. Visited[G] = <<G>> /\ Visited[b] = <<b>>
    BY <1>2, <1>3, <1>7, <2>1, <2>3
  <2>5. ToSet(Visited[a]) = {a, G, b}
    <3>1. ToSet(Unwrap(heap[a])) = {G, b}
      BY <2>2 DEF ToSet
    <3>2. ToSet(Visited[G]) = {G} /\ ToSet(Visited[b]) = {b}
      BY <2>4 DEF ToSet
    <3>3. ToSet(Visited[a]) =
              {a} \cup UNION { ToSet(Visited[c]) : c \in ToSet(Unwrap(heap[a])) }
      <4>1. ToSet(Solution(heap)[a]) =
                {a} \cup UNION { ToSet(Solution(heap)[c]) :
                                     c \in ToSet(Unwrap(heap[a])) }
        BY <1>1, VisitedSet
      <4>2. QED
        BY <4>1, VisitedIsSolution
    <3>4. UNION { ToSet(Visited[c]) : c \in {G, b} } =
              ToSet(Visited[G]) \cup ToSet(Visited[b])
      OBVIOUS
    <3>5. QED
      BY <3>1, <3>2, <3>3, <3>4
  <2>6. heap[b].Parameter = "grant_type"
    BY <1>9 DEF GrantTypeFailure, Validation
  <2>7. /\ Matches(a, Validation("", "", ""))
        /\ Matches(a, Validation("", "grant_type", ""))
    BY <2>3, <2>5, <2>6, MatchesPattern DEF Fits
  <2>8. QED
    BY <1>5, <2>5, <2>7
<1>10. QED
  BY <1>8, <1>9 DEF Inv, VerdictsOK

\* Whatever an error that is held matches, its holder matches.
LEMMA HoldersMatch ==
    ASSUME Grounded(heap), NEW a \in DOMAIN heap, NEW r \in Holds(a)
    PROVE  /\ \A v : Matches(r, v) => Matches(a, v)
           /\ \A b : Is(r, b) => Is(a, b)
<1>1. r \in DOMAIN heap
  BY DEF Holds
<1>2. Holds(r) \subseteq Holds(a)
  BY DEF Holds
<1>3. ToSet(Visited[r]) \subseteq ToSet(Visited[a])
  BY <1>1, <1>2, HoldsIsVisited, VisitedIsSolution
<1>4. \A v : Matches(r, v) => Matches(a, v)
  BY <1>3 DEF Matches
<1>5. QED
  BY <1>3, <1>4 DEF Is

\* Every verdict of Validate matches in the shapes that its comment names, and
\* so does every error that holds it.
THEOREM Shapes == Spec => []BothShapesMatch
<1>1. Inv => BothShapesMatch
  <2> SUFFICES ASSUME Inv, NEW r \in returned
               PROVE  /\ Is(r, ErrInvalidGrantType) <=>
                             Matches(r, Validation("", "grant_type", ""))
                      /\ \A a \in DOMAIN heap : r \in Holds(a) =>
                             /\ Matches(a, Validation("", "", ""))
                             /\ Is(r, ErrInvalidGrantType) =>
                                   /\ Is(a, ErrInvalidGrantType)
                                   /\ Matches(a, Validation("", "grant_type", ""))
    BY DEF BothShapesMatch
  <2>1. Grounded(heap)
    BY DEF Inv, TypeOK, ChainsEnd, Grounded
  <2>2. /\ Matches(r, Validation("", "", ""))
        /\ Is(r, ErrInvalidGrantType) <=>
               Matches(r, Validation("", "grant_type", ""))
    BY VerdictsMatch
  <2>3. \A a \in DOMAIN heap : r \in Holds(a) =>
            /\ \A v : Matches(r, v) => Matches(a, v)
            /\ \A b : Is(r, b) => Is(a, b)
    BY <2>1, HoldersMatch
  <2>4. QED
    BY <2>2, <2>3
<1>2. QED
  BY <1>1, Invariance, PTL

\* The copy that WithCause returns matches what its code and its new cause
\* match, and nothing else.
THEOREM Causes == Spec => CauseReplaces
<1>1. Inv /\ [Next]_vars =>
        [\A e \in DOMAIN heap, cause \in DOMAIN heap \cup {NoError} :
            WithCause(e, cause) =>
                \A b \in DOMAIN heap :
                    Is(Len(heap), b)' <=>
                        \/ TokenIs(heap[e], heap[b])
                        \/ cause # NoError /\ Is(cause, b)]_vars
  <2> SUFFICES ASSUME Inv, Next, NEW e \in DOMAIN heap,
                      NEW cause \in DOMAIN heap \cup {NoError},
                      WithCause(e, cause), NEW b \in DOMAIN heap
               PROVE  Is(Len(heap), b)' <=>
                          \/ TokenIs(heap[e], heap[b])
                          \/ cause # NoError /\ Is(cause, b)
    OBVIOUS
  <2> DEFINE n == Len(heap) + 1
             copy == [heap[e] EXCEPT !.cause = cause]
  <2>1. /\ heap \in Seq(Error) /\ Len(heap) \in Nat /\ heap[e] \in Error
        /\ DOMAIN heap = 1..Len(heap)
    BY DEF Inv, TypeOK
  <2>2. Extends(heap, heap')
    BY StepExtends
  <2>3. heap' = heap \o <<copy>> /\ heap[e].kind = "token"
    BY DEF WithCause, Make
  <2>4. PICK c \in Code, t \in Text :
            heap[e] = Token(c, t, heap[e].cause) /\ copy = Token(c, t, cause)
    <3>1. heap[e] \in Error /\ heap[e].kind = "token"
      BY <2>1, <2>3
    <3>2. QED
      BY <3>1, TokenShape
  <2>5. copy \in Error /\ copy.kind = "token" /\ copy.Code = heap[e].Code
    <3>1. cause \in Nat
      BY <2>1 DEF NoError
    <3>2. Token(c, t, cause) \in Error
      BY <3>1, NewErrors
    <3>3. \A k : Token(c, t, k).kind = "token" /\ Token(c, t, k).Code = c
      BY DEF Token
    <3>4. heap[e].Code = Token(c, t, heap[e].cause).Code
      BY <2>4
    <3> HIDE DEF copy
    <3>5. QED
      BY <2>4, <3>2, <3>3, <3>4
  <2>6. Unwrap(copy) = IF cause = NoError THEN <<>> ELSE <<cause>>
    BY <2>1, <2>4, NewErrors DEF NoError
  <2> HIDE DEF copy
  <2>7. /\ DOMAIN heap' = 1..n /\ heap'[n] = copy /\ Len(heap') = n
        /\ n \notin DOMAIN heap
    BY <2>1, <2>3, <2>5
  <2>8. ToSet(Solution(heap')[n]) =
            {n} \cup (IF cause = NoError THEN {} ELSE ToSet(Solution(heap)[cause]))
    <3>1. ToSet(Solution(heap')[n]) =
              {n} \cup UNION { ToSet(Solution(heap')[d]) :
                                   d \in ToSet(Unwrap(copy)) }
      BY <2>2, <2>7, VisitedSet DEF Extends
    <3>2. CASE cause = NoError
      <4>1. ToSet(Unwrap(copy)) = {}
        BY <2>6, <3>2 DEF ToSet
      <4>2. QED
        BY <3>1, <3>2, <4>1
    <3>3. CASE cause # NoError
      <4>1. ToSet(Unwrap(copy)) = {cause}
        BY <2>6, <3>3 DEF ToSet
      <4>2. Solution(heap')[cause] = Solution(heap)[cause]
        BY <2>2, <3>3, SolutionIsStable DEF Extends
      <4>3. QED
        BY <3>1, <3>3, <4>1, <4>2
    <3>4. QED
      BY <3>2, <3>3
  <2>9. heap'[b] = heap[b]
    BY <2>2 DEF Extends
  <2>10. \A d : TokenIsIn(heap', d, heap[b]) = TokenIsIn(heap, d, heap[b])
    <3>1. heap[b] \in Error
      BY <2>1
    <3>2. \A i \in DOMAIN Unwrap(heap[b]) : Unwrap(heap[b])[i] \in DOMAIN heap
      BY <2>1, <2>2 DEF Extends, Grounded
    <3>3. SeenIn(heap', heap[b]) = SeenIn(heap, heap[b])
      BY <2>2, <3>1, <3>2, SeenIsStable
    <3>4. QED
      BY <3>3 DEF TokenIsIn
  <2>11. TokenIsIn(heap', copy, heap[b]) <=> TokenIs(heap[e], heap[b])
    <3>1. TokenIsIn(heap', copy, heap[b]) = TokenIsIn(heap, copy, heap[b])
      BY <2>10
    <3>2. TokenIsIn(heap, copy, heap[b]) <=> TokenIsIn(heap, heap[e], heap[b])
      BY <2>3, <2>5 DEF TokenIsIn
    <3>3. QED
      BY <3>1, <3>2, InThisHeap
  <2> DEFINE Says(x) ==
          \/ IsTokenPointer(heap'[x]) /\ TokenIsIn(heap', heap'[x], heap[b])
          \/ IsValidationPointer(heap'[x]) /\ ValidationIs(heap'[x], heap[b])
  <2>12. Says(n) <=> TokenIs(heap[e], heap[b])
    BY <2>5, <2>7, <2>11 DEF IsTokenPointer, ValidationIs
  <2>13. IsIn(heap', n, b) <=>
             \/ b \in ToSet(Solution(heap')[n])
             \/ \E x \in ToSet(Solution(heap')[n]) : Says(x)
    BY <2>9 DEF IsIn, MatchesIn
  <2>14. CASE cause = NoError
    <3>1. ToSet(Solution(heap')[n]) = {n} /\ b # n
      BY <2>7, <2>8, <2>14
    <3> HIDE DEF Says
    <3>2. IsIn(heap', n, b) <=> TokenIs(heap[e], heap[b])
      BY <2>12, <2>13, <3>1
    <3>3. QED
      BY <2>7, <2>14, <3>2, InThisHeap
  <2>15. CASE cause # NoError
    <3>1. cause \in DOMAIN heap
      BY <2>15
    <3>2. ToSet(Solution(heap')[n]) = {n} \cup ToSet(Solution(heap')[cause])
      <4>1. Solution(heap')[cause] = Solution(heap)[cause]
        BY <2>2, <3>1, SolutionIsStable DEF Extends
      <4>2. QED
        BY <2>8, <2>15, <4>1
    <3>3. IsIn(heap', cause, b) <=>
              \/ b \in ToSet(Solution(heap')[cause])
              \/ \E x \in ToSet(Solution(heap')[cause]) : Says(x)
      BY <2>9 DEF IsIn, MatchesIn
    <3> HIDE DEF Says
    <3>4. IsIn(heap', n, b) <=>
              TokenIs(heap[e], heap[b]) \/ IsIn(heap', cause, b)
      BY <2>7, <2>12, <2>13, <3>2, <3>3
    <3>5. IsIn(heap', cause, b) = IsIn(heap, cause, b)
      BY <2>2, <3>1, IsStable
    <3>6. QED
      BY <2>7, <2>15, <3>4, <3>5, InThisHeap
  <2>16. QED
    BY <2>14, <2>15
<1>2. QED
  BY <1>1, Invariance, PTL DEF Spec, CauseReplaces
=============================================================================
