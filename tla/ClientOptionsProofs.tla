------------------------ MODULE ClientOptionsProofs -------------------------
(***************************************************************************)
(* ClientOptions!Inv is inductive, and requests go through the http.Client *)
(* that was asked for, for any number of clients and options.              *)
(***************************************************************************)
EXTENDS ClientOptions, TLAPS

LEMMA OptionListsAreLists == OptionLists \subseteq Seq(Option)
  <1> SUFFICES ASSUME NEW n \in 0..MaxOptions, NEW list \in [1..n -> Option]
               PROVE  list \in Seq(Option)
    BY DEF OptionLists
  <1>1. n \in Nat
    BY OptionsAssumption
  <1> QED BY <1>1

\* A nil option changes nothing; another one decides.
LEMMA NilOptionsAreSkipped ==
    ASSUME NEW c, NEW n \in Nat, NEW hc, AskedFor(c, n, hc),
           opts[c][n + 1] = NilOption
    PROVE  AskedFor(c, n + 1, hc)
  <1>1. PICK i \in 0..n :
          /\ \A j \in (i + 1)..n : opts[c][j] = NilOption
          /\ \/ hc = initial[c] /\ (i = 0 \/ opts[c][i] = WithHTTPClient(Nil))
             \/ i > 0 /\ opts[c][i] = WithHTTPClient(hc)
    BY DEF AskedFor
  <1>2. i \in 0..(n + 1)
    OBVIOUS
  <1>3. \A j \in (i + 1)..(n + 1) : opts[c][j] = NilOption
    BY <1>1
  <1> QED BY <1>1, <1>2, <1>3 DEF AskedFor

LEMMA TheLastOptionDecides ==
    ASSUME NEW c, NEW n \in Nat, NEW hc,
           \/ opts[c][n + 1] = WithHTTPClient(hc)
           \/ opts[c][n + 1] = WithHTTPClient(Nil) /\ hc = initial[c]
    PROVE  AskedFor(c, n + 1, hc)
  <1>1. n + 1 \in 0..(n + 1) /\ n + 1 > 0
    OBVIOUS
  <1>2. \A j \in (n + 2)..(n + 1) : opts[c][j] = NilOption
    OBVIOUS
  <1>3. (n + 1) + 1 = n + 2
    OBVIOUS
  <1> QED BY <1>1, <1>2, <1>3 DEF AskedFor

-----------------------------------------------------------------------------
\* What no step touches stays configured.
LEMMA UntouchedStaysConfigured ==
    ASSUME NEW c, IsConfigured(c),
           pc'[c] = pc[c], opts'[c] = opts[c], applied'[c] = applied[c],
           httpClient'[c] = httpClient[c], sent'[c] = sent[c],
           initial'[c] = initial[c],
           pc[c] = "building" => default' = default
    PROVE  IsConfigured(c)'
  BY DEF IsConfigured, AskedFor

LEMMA NewClientKeepsInv ==
    ASSUME Inv, NEW c \in Client, NewClient(c)
    PROVE  Inv'
  <1>1. PICK list \in OptionLists : opts' = [opts EXCEPT ![c] = list]
    BY DEF NewClient
  <1>2. list \in Seq(Option)
    BY OptionListsAreLists
  <1>3. TypeOK'
    BY <1>1, <1>2 DEF NewClient, Inv, TypeOK
  <1>4. IsConfigured(c)'
    <2>1. applied'[c] = 0 /\ httpClient'[c] = default /\ initial'[c] = default
          /\ default' = default /\ sent'[c] = {} /\ pc'[c] = "building"
          /\ opts'[c] = list
      BY <1>1 DEF NewClient, Inv, TypeOK, IsConfigured
    <2>2. AskedFor(c, applied[c], httpClient[c])'
      <3>1. 0 \in 0..0 /\ \A j \in (0 + 1)..0 : opts'[c][j] = NilOption
        OBVIOUS
      <3> QED BY <2>1, <3>1 DEF AskedFor
    <2>3. 0 <= Len(list)
      BY <1>2
    <2> QED BY <2>1, <2>2, <2>3, <1>3 DEF IsConfigured, TypeOK
  <1>5. ASSUME NEW b \in Client, b # c
        PROVE  IsConfigured(b)'
    BY <1>1, <1>5, UntouchedStaysConfigured DEF NewClient, Inv, TypeOK
  <1> QED BY <1>3, <1>4, <1>5 DEF Inv

LEMMA SkipKeepsInv ==
    ASSUME Inv, NEW c \in Client, Skip(c)
    PROVE  Inv'
  <1>1. TypeOK'
    BY DEF Skip, Inv, TypeOK
  <1>2. AskedFor(c, applied[c] + 1, httpClient[c])
    BY NilOptionsAreSkipped DEF Skip, Inv, TypeOK, IsConfigured
  <1>3. IsConfigured(c)'
    <2>1. AskedFor(c, applied[c], httpClient[c])'
      BY <1>2 DEF Skip, Inv, TypeOK, AskedFor
    <2> QED BY <2>1, <1>1 DEF Skip, Inv, TypeOK, IsConfigured
  <1>4. ASSUME NEW b \in Client, b # c
        PROVE  IsConfigured(b)'
    BY <1>4, UntouchedStaysConfigured DEF Skip, Inv, TypeOK
  <1> QED BY <1>1, <1>3, <1>4 DEF Inv

LEMMA ApplyKeepsInv ==
    ASSUME Inv, NEW c \in Client, Apply(c)
    PROVE  Inv'
  <1>1. PICK hc \in HttpClient \cup {Nil} :
          /\ opts[c][applied[c] + 1] = WithHTTPClient(hc)
          /\ httpClient' =
                [httpClient EXCEPT ![c] = IF hc = Nil THEN default ELSE hc]
    BY DEF Apply
  <1>2. httpClient'[c] \in HttpClient
        /\ (httpClient'[c] = hc \/ (hc = Nil /\ httpClient'[c] = initial[c]))
    BY <1>1 DEF Apply, Inv, TypeOK, IsConfigured
  <1>3. TypeOK'
    BY <1>1, <1>2 DEF Apply, Inv, TypeOK
  <1>4. AskedFor(c, applied[c] + 1, httpClient'[c])
    BY <1>1, <1>2, TheLastOptionDecides DEF Inv, TypeOK
  <1>5. IsConfigured(c)'
    <2>1. AskedFor(c, applied[c], httpClient[c])'
      BY <1>4 DEF Apply, Inv, TypeOK, AskedFor
    <2> QED BY <2>1, <1>2, <1>3 DEF Apply, Inv, TypeOK, IsConfigured
  <1>6. ASSUME NEW b \in Client, b # c
        PROVE  IsConfigured(b)'
    BY <1>1, <1>6, UntouchedStaysConfigured DEF Apply, Inv, TypeOK
  <1> QED BY <1>3, <1>5, <1>6 DEF Inv

LEMMA BuiltKeepsInv ==
    ASSUME Inv, NEW c \in Client, Built(c)
    PROVE  Inv'
  <1>1. TypeOK'
    BY DEF Built, Inv, TypeOK
  <1>2. IsConfigured(c)'
    BY DEF Built, Inv, TypeOK, IsConfigured, AskedFor
  <1>3. ASSUME NEW b \in Client, b # c
        PROVE  IsConfigured(b)'
    BY <1>3, UntouchedStaysConfigured DEF Built, Inv, TypeOK
  <1> QED BY <1>1, <1>2, <1>3 DEF Inv

LEMMA ExchangeKeepsInv ==
    ASSUME Inv, NEW c \in Client, Exchange(c)
    PROVE  Inv'
  <1>1. sent' = [sent EXCEPT ![c] = @ \cup {httpClient[c]}]
        /\ httpClient[c] \in HttpClient
    BY OptionsAssumption DEF Exchange, Inv, IsConfigured
  <1>2. TypeOK'
    BY <1>1 DEF Exchange, Inv, TypeOK
  <1>3. IsConfigured(c)'
    BY SMTT(60), <1>1 DEF Exchange, Inv, TypeOK, IsConfigured, AskedFor
  <1>4. ASSUME NEW b \in Client, b # c
        PROVE  IsConfigured(b)'
    BY <1>1, <1>4, UntouchedStaysConfigured DEF Exchange, Inv, TypeOK
  <1> QED BY <1>2, <1>3, <1>4 DEF Inv

LEMMA SetDefaultKeepsInv ==
    ASSUME Inv, NEW hc \in HttpClient, SetDefault(hc)
    PROVE  Inv'
  <1>1. TypeOK'
    BY DEF SetDefault, Inv, TypeOK
  <1>2. ASSUME NEW c \in Client
        PROVE  IsConfigured(c)'
    BY UntouchedStaysConfigured DEF SetDefault, Inv
  <1> QED BY <1>1, <1>2 DEF Inv

-----------------------------------------------------------------------------
\* What c.httpClient holds at every turn of NewClient's loop and ever after
\* (client.go:54-67, client_options.go:34-42).
THEOREM Invariance == Spec => []Inv
  <1>1. Init => Inv
    <2> SUFFICES ASSUME Init PROVE Inv
      OBVIOUS
    <2>1. TypeOK
      BY DEF Init, TypeOK
    <2>2. ASSUME NEW c \in Client
          PROVE  IsConfigured(c)
      BY DEF Init, IsConfigured
    <2> QED BY <2>1, <2>2 DEF Inv
  <1>2. Inv /\ [Next]_vars => Inv'
    <2> SUFFICES ASSUME Inv, [Next]_vars PROVE Inv'
      OBVIOUS
    <2>1. CASE UNCHANGED vars
      BY <2>1 DEF Inv, TypeOK, IsConfigured, AskedFor, vars
    <2> QED BY <2>1, NewClientKeepsInv, SkipKeepsInv, ApplyKeepsInv,
               BuiltKeepsInv, ExchangeKeepsInv, SetDefaultKeepsInv DEF Next
  <1> QED BY <1>1, <1>2, PTL DEF Spec

\* The last option that is not nil decides who carries a client's requests,
\* and nothing that happens after NewClient changes it (client.go:52-53).
THEOREM LastOptionWins == Spec => []SentAsAskedFor
  <1>1. Inv => SentAsAskedFor
    BY DEF Inv, IsConfigured, SentAsAskedFor
  <1> QED BY <1>1, Invariance, PTL
=============================================================================
