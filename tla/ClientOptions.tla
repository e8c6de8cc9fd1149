--------------------------- MODULE ClientOptions ----------------------------
(***************************************************************************)
(* NewClient and its options (client.go, client_options.go): which         *)
(* http.Client carries a Client's requests.  Clients are built             *)
(* concurrently, option by option, and http.DefaultClient is a variable    *)
(* that the program may set at any time at which nobody reads it.          *)
(***************************************************************************)
EXTENDS Naturals, Sequences

CONSTANTS
    Client,
    HttpClient,   \* the http.Clients of the program
    Nil,          \* the nil *http.Client
    MaxOptions

ASSUME OptionsAssumption ==
    /\ Nil \notin HttpClient
    /\ MaxOptions \in Nat

VARIABLES
    default,      \* http.DefaultClient
    pc,           \* "none", "building" (in NewClient) or "built"
    opts,         \* the argument of NewClient
    applied,      \* how many of them the loop is done with
    httpClient,   \* c.httpClient
    sent,         \* the http.Clients that have carried c's requests
    initial       \* history: http.DefaultClient when NewClient was called

vars == <<default, pc, opts, applied, httpClient, sent, initial>>

\* An Option is the set of what it sets c.httpClient to: a nil option sets
\* nothing.
NilOption == {}
WithHTTPClient(hc) == {hc}
Option == {NilOption} \cup {WithHTTPClient(hc) : hc \in HttpClient \cup {Nil}}

OptionLists == UNION {[1..n -> Option] : n \in 0..MaxOptions}

-----------------------------------------------------------------------------
NewClient(c) ==
    /\ pc[c] = "none"
    /\ \E list \in OptionLists : opts' = [opts EXCEPT ![c] = list]
    /\ pc' = [pc EXCEPT ![c] = "building"]
    /\ httpClient' = [httpClient EXCEPT ![c] = default]
    /\ initial' = [initial EXCEPT ![c] = default]
    /\ UNCHANGED <<default, applied, sent>>

\* Mutant: a nil option ends the loop.
SkipTheRest(c) ==
    /\ pc[c] = "building" /\ applied[c] < Len(opts[c])
    /\ opts[c][applied[c] + 1] = NilOption
    /\ applied' = [applied EXCEPT ![c] = Len(opts[c])]
    /\ UNCHANGED <<default, pc, opts, httpClient, sent, initial>>

\* One turn of the loop: the option is nil, or it sets c.httpClient.
Skip(c) ==
    /\ pc[c] = "building" /\ applied[c] < Len(opts[c])
    /\ opts[c][applied[c] + 1] = NilOption
    /\ applied' = [applied EXCEPT ![c] = @ + 1]
    /\ UNCHANGED <<default, pc, opts, httpClient, sent, initial>>

Apply(c) ==
    /\ pc[c] = "building" /\ applied[c] < Len(opts[c])
    /\ \E hc \in HttpClient \cup {Nil} :
          /\ opts[c][applied[c] + 1] = WithHTTPClient(hc)
          /\ httpClient' =
                [httpClient EXCEPT ![c] = IF hc = Nil THEN default ELSE hc]
    /\ applied' = [applied EXCEPT ![c] = @ + 1]
    /\ UNCHANGED <<default, pc, opts, sent, initial>>

Built(c) ==
    /\ pc[c] = "building" /\ applied[c] = Len(opts[c])
    /\ pc' = [pc EXCEPT ![c] = "built"]
    /\ UNCHANGED <<default, opts, applied, httpClient, sent, initial>>

\* Mutant: http.Post, which asks http.DefaultClient.
ExchangeByPost(c) ==
    /\ pc[c] = "built"
    /\ sent' = [sent EXCEPT ![c] = @ \cup {default}]
    /\ UNCHANGED <<default, pc, opts, applied, httpClient, initial>>

Exchange(c) ==
    /\ pc[c] = "built"
    /\ LET hc == IF httpClient[c] = Nil THEN default ELSE httpClient[c]
       IN  sent' = [sent EXCEPT ![c] = @ \cup {hc}]
    /\ UNCHANGED <<default, pc, opts, applied, httpClient, initial>>

\* The program replaces http.DefaultClient: not while NewClient may read it.
SetDefault(hc) ==
    /\ \A c \in Client : pc[c] # "building"
    /\ default' = hc
    /\ UNCHANGED <<pc, opts, applied, httpClient, sent, initial>>

-----------------------------------------------------------------------------
Init ==
    /\ default \in HttpClient
    /\ pc = [c \in Client |-> "none"]
    /\ opts = [c \in Client |-> <<>>]
    /\ applied = [c \in Client |-> 0]
    /\ httpClient = [c \in Client |-> Nil]
    /\ sent = [c \in Client |-> {}]
    /\ initial = [c \in Client |-> default]

Next ==
    \/ \E c \in Client :
          NewClient(c) \/ Skip(c) \/ Apply(c) \/ Built(c) \/ Exchange(c)
    \/ \E hc \in HttpClient : SetDefault(hc)

Spec == Init /\ [][Next]_vars

-----------------------------------------------------------------------------
TypeOK ==
    /\ default \in HttpClient
    /\ pc \in [Client -> {"none", "building", "built"}]
    /\ opts \in [Client -> Seq(Option)]
    /\ applied \in [Client -> Nat]
    /\ httpClient \in [Client -> HttpClient \cup {Nil}]
    /\ sent \in [Client -> SUBSET HttpClient]
    /\ initial \in [Client -> HttpClient]

\* hc is what the first n options of c ask for: the last of them that is not
\* nil decides, and without one, or if it is WithHTTPClient(nil), the default.
AskedFor(c, n, hc) ==
    \E i \in 0..n :
       /\ \A j \in (i + 1)..n : opts[c][j] = NilOption
       /\ \/ hc = initial[c] /\ (i = 0 \/ opts[c][i] = WithHTTPClient(Nil))
          \/ i > 0 /\ opts[c][i] = WithHTTPClient(hc)

\* "Options are applied in argument order, so a later option wins on any
\* field. A nil option is silently skipped" (client.go:52-53): every request
\* of a client, now or later, is carried by the http.Client that its options
\* ask for, which holds the client authentication.  Without one it is the
\* http.DefaultClient of the time of NewClient, whatever the program has put
\* in its place since, and whichever clients were built meanwhile.
SentAsAskedFor ==
    \A c \in Client : \A hc \in sent[c] : AskedFor(c, Len(opts[c]), hc)

\* The inductive invariant of the proofs: from the second step of NewClient
\* on, c.httpClient is what the options that were applied ask for
\* (client.go:55-64).
IsConfigured(c) ==
    /\ applied[c] <= Len(opts[c])
    /\ pc[c] = "none" => applied[c] = 0
    /\ pc[c] # "none" => /\ httpClient[c] \in HttpClient
                         /\ AskedFor(c, applied[c], httpClient[c])
    /\ pc[c] = "building" => initial[c] = default
    /\ pc[c] # "built" => sent[c] = {}
    /\ pc[c] = "built" => /\ applied[c] = Len(opts[c])
                          /\ sent[c] \subseteq {httpClient[c]}

Inv == TypeOK /\ \A c \in Client : IsConfigured(c)
=============================================================================
