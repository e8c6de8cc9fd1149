------------------------- MODULE TokenTypeRegistry --------------------------
(***************************************************************************)
(* RegisterTokenType and IsRegisteredTokenType, goroutine by goroutine:    *)
(* the table behind a sync.RWMutex, with the steps each function takes     *)
(* before, under and after the lock.  A goroutine that wants to write      *)
(* first takes the mutex among writers, which keeps new readers out, and   *)
(* then waits for the readers that are in; releasing the lock lets in all  *)
(* the readers that have queued up meanwhile.                              *)
(***************************************************************************)
EXTENDS Values, FiniteSets

CONSTANTS
    Goroutine,          \* the callers
    Asked,              \* the strings they call with
    BuiltinTokenTypes,  \* the URIs of RFC 8693 section 3
    None                \* no goroutine

ASSUME RegistryAssumption ==
    /\ Asked \subseteq Str
    /\ BuiltinTokenTypes \subseteq URI
    /\ None \notin Goroutine

Op == [name : {"register", "query"}, uri : Asked]
NoOp == [name |-> "none", uri |-> ""]

VARIABLES
    entries,     \* the table: the tier of every string, "absent" if none
    writer,      \* the goroutine that holds the mutex among writers
    readers,     \* the goroutines that hold the read lock
    pc,          \* where each goroutine is
    op,          \* what it is calling
    ret,         \* what its latest call answers
    registered,  \* history: the URIs whose registration has returned nil
    due          \* history: registered, when each goroutine's call began

lock == <<writer, readers>>
history == <<registered, due>>
vars == <<entries, lock, pc, op, ret, history>>

Tier == {"absent", "extension", "builtin"}

initialRegistry ==
    [u \in Str |-> IF u \in BuiltinTokenTypes THEN "builtin" ELSE "absent"]

Init ==
    /\ entries = initialRegistry
    /\ writer = None
    /\ readers = {}
    /\ pc = [g \in Goroutine |-> "idle"]
    /\ op = [g \in Goroutine |-> NoOp]
    /\ ret = [g \in Goroutine |-> "none"]
    /\ registered = {}
    /\ due = [g \in Goroutine |-> {}]

Goto(g, l) == pc' = [pc EXCEPT ![g] = l]
Answer(g, a) == ret' = [ret EXCEPT ![g] = a]

-----------------------------------------------------------------------------
(* Both functions begin with a check that takes no lock. *)

Call(g) ==
    /\ pc[g] = "idle"
    /\ \E o \in Op : op' = [op EXCEPT ![g] = o] /\ Goto(g, o.name)
    /\ Answer(g, "none")
    /\ due' = [due EXCEPT ![g] = registered]
    /\ UNCHANGED <<entries, lock, registered>>

\* RegisterTokenType rejects what is not a URI.
Register(g) ==
    /\ pc[g] = "register"
    /\ IF isValidTokenTypeURI(op[g].uri)
       THEN Goto(g, "Lock") /\ UNCHANGED ret
       ELSE Goto(g, "return") /\ Answer(g, "invalid")
    /\ UNCHANGED <<entries, lock, op, history>>

\* IsRegisteredTokenType knows that "" is not in the table.
Query(g) ==
    /\ pc[g] = "query"
    /\ IF op[g].uri # ""
       THEN Goto(g, "RLock") /\ UNCHANGED ret
       ELSE Goto(g, "return") /\ Answer(g, "no")
    /\ UNCHANGED <<entries, lock, op, history>>

-----------------------------------------------------------------------------
(* sync.RWMutex. *)

\* Lock, first half: keep other writers and new readers out.
LockWriters(g) ==
    /\ pc[g] = "Lock"
    /\ writer = None
    /\ writer' = g
    /\ Goto(g, "drain")
    /\ UNCHANGED <<entries, readers, op, ret, history>>

\* Mutant: the writer does not wait for the readers.
LockAtOnce(g) ==
    /\ pc[g] = "drain"
    /\ Goto(g, "lookup")
    /\ UNCHANGED <<entries, lock, op, ret, history>>

\* Lock, second half: wait for the readers that are in.
LockReaders(g) ==
    /\ pc[g] = "drain"
    /\ readers = {}
    /\ Goto(g, "lookup")
    /\ UNCHANGED <<entries, lock, op, ret, history>>

\* Unlock: let in the readers that wait, then other writers.
Unlock(g) ==
    LET waiting == { r \in Goroutine : pc[r] = "blocked" }
    IN  /\ pc[g] = "Unlock"
        /\ writer' = None
        /\ readers' = readers \cup waiting
        /\ pc' = [p \in Goroutine |->
                     IF p = g THEN "return"
                     ELSE IF p \in waiting THEN "read" ELSE pc[p]]
        /\ UNCHANGED <<entries, op, ret, history>>

\* Mutants: readers overtake a writer that waits; a reader that cannot get in
\* answers without looking.
RLockPastWriter(g) ==
    /\ pc[g] = "RLock"
    /\ \A w \in Goroutine : pc[w] \notin {"lookup", "store", "Unlock"}
    /\ readers' = readers \cup {g}
    /\ Goto(g, "read")
    /\ UNCHANGED <<entries, writer, op, ret, history>>

TryRLock(g) ==
    /\ pc[g] = "RLock"
    /\ \/ /\ writer = None
          /\ readers' = readers \cup {g}
          /\ Goto(g, "read")
          /\ UNCHANGED ret
       \/ /\ writer # None
          /\ Goto(g, "return")
          /\ Answer(g, "no")
          /\ UNCHANGED readers
    /\ UNCHANGED <<entries, writer, op, history>>

\* RLock: in at once, or queue up behind the writer, be it in or waiting.
RLock(g) ==
    /\ pc[g] = "RLock"
    /\ \/ writer = None /\ readers' = readers \cup {g} /\ Goto(g, "read")
       \/ writer # None /\ UNCHANGED readers /\ Goto(g, "blocked")
    /\ UNCHANGED <<entries, writer, op, ret, history>>

RUnlock(g) ==
    /\ pc[g] = "RUnlock"
    /\ readers' = readers \ {g}
    /\ Goto(g, "return")
    /\ UNCHANGED <<entries, writer, op, ret, history>>

-----------------------------------------------------------------------------
(* Under the lock. *)

\* Mutants: built-ins are not refused; the refusal leaves without the unlock, as
\* it would with no defer; a URI that is an extension already is refused too.
LookUpUnchecked(g) ==
    /\ pc[g] = "lookup"
    /\ Goto(g, "store")
    /\ UNCHANGED <<entries, lock, op, ret, history>>

LookUpKeepsLock(g) ==
    /\ pc[g] = "lookup"
    /\ \/ /\ entries[op[g].uri] = "builtin"
          /\ Goto(g, "return")
          /\ Answer(g, "reserved")
       \/ /\ entries[op[g].uri] # "builtin"
          /\ Goto(g, "store")
          /\ UNCHANGED ret
    /\ UNCHANGED <<entries, lock, op, history>>

LookUpTaken(g) ==
    /\ pc[g] = "lookup"
    /\ \/ /\ entries[op[g].uri] # "absent"
          /\ Goto(g, "Unlock")
          /\ Answer(g, "reserved")
       \/ /\ entries[op[g].uri] = "absent"
          /\ Goto(g, "store")
          /\ UNCHANGED ret
    /\ UNCHANGED <<entries, lock, op, history>>

\* RegisterTokenType looks the URI up and refuses a built-in.
LookUp(g) ==
    /\ pc[g] = "lookup"
    /\ \/ /\ entries[op[g].uri] = "builtin"
          /\ Goto(g, "Unlock")
          /\ Answer(g, "reserved")
       \/ /\ entries[op[g].uri] # "builtin"
          /\ Goto(g, "store")
          /\ UNCHANGED ret
    /\ UNCHANGED <<entries, lock, op, history>>

\* Mutant: registering a second time removes the extension.
StoreToggles(g) ==
    /\ pc[g] = "store"
    /\ entries' = [entries EXCEPT ![op[g].uri] =
                      IF @ = "extension" THEN "absent" ELSE "extension"]
    /\ Goto(g, "Unlock")
    /\ Answer(g, "ok")
    /\ UNCHANGED <<lock, op, history>>

Store(g) ==
    /\ pc[g] = "store"
    /\ entries' = [entries EXCEPT ![op[g].uri] = "extension"]
    /\ Goto(g, "Unlock")
    /\ Answer(g, "ok")
    /\ UNCHANGED <<lock, op, history>>

\* Mutant: the query leaves without the unlock.
ReadKeepsLock(g) ==
    /\ pc[g] = "read"
    /\ Answer(g, IF entries[op[g].uri] = "absent" THEN "no" ELSE "yes")
    /\ Goto(g, "return")
    /\ UNCHANGED <<entries, lock, op, history>>

\* IsRegisteredTokenType looks the URI up.
Read(g) ==
    /\ pc[g] = "read"
    /\ Answer(g, IF entries[op[g].uri] = "absent" THEN "no" ELSE "yes")
    /\ Goto(g, "RUnlock")
    /\ UNCHANGED <<entries, lock, op, history>>

\* The function returns to its caller.
Return(g) ==
    /\ pc[g] = "return"
    /\ Goto(g, "idle")
    /\ op' = [op EXCEPT ![g] = NoOp]
    /\ registered' = IF ret[g] = "ok" THEN registered \cup {op[g].uri}
                     ELSE registered
    /\ UNCHANGED <<entries, lock, ret, due>>

-----------------------------------------------------------------------------
Step(g) == Register(g) \/ Query(g) \/ LockReaders(g) \/ Unlock(g) \/ RLock(g)
              \/ RUnlock(g) \/ LookUp(g) \/ Store(g) \/ Read(g) \/ Return(g)

Next == \E g \in Goroutine : Call(g) \/ LockWriters(g) \/ Step(g)

Spec == Init /\ [][Next]_vars

\* The scheduler runs every goroutine, and sync.Mutex hands itself to one that
\* has waited for long (its starvation mode): none waits for ever while others
\* take it again and again.
FairSpec ==
    Spec /\ \A g \in Goroutine : WF_vars(Step(g)) /\ SF_vars(LockWriters(g))

-----------------------------------------------------------------------------
(* Properties. *)

Label == {"idle", "register", "query", "Lock", "drain", "lookup", "store",
          "Unlock", "RLock", "blocked", "read", "RUnlock", "return"}

\* Every variable has its type, and a goroutine is inside a call exactly as long
\* as it is not idle.
TypeOK ==
    /\ entries \in [Str -> Tier]
    /\ writer \in Goroutine \cup {None}
    /\ readers \subseteq Goroutine
    /\ pc \in [Goroutine -> Label]
    /\ op \in [Goroutine -> Op \cup {NoOp}]
    /\ ret \in [Goroutine -> {"none", "ok", "reserved", "invalid", "yes", "no"}]
    /\ registered \subseteq Str
    /\ due \in [Goroutine -> SUBSET Str]
    /\ \A g \in Goroutine : pc[g] = "idle" <=> op[g] = NoOp

\* No goroutine touches the map while another one writes it: Go aborts a program
\* that does (token_type_registry.go:71-78 and 97-99).
InMap(g) == pc[g] \in {"lookup", "store", "read"}

MapAccessIsExclusive ==
    \A g, h \in Goroutine : pc[g] = "store" /\ InMap(h) => g = h

\* The table never holds anything but URIs, and the built-ins keep their tier
\* whoever registers what and when (token_type_registry.go:74-78).
TableIsSound ==
    /\ \A u \in Str : entries[u] # "absent" => isValidTokenTypeURI(u)
    /\ \A u \in Str : entries[u] = "builtin" <=> u \in BuiltinTokenTypes

\* The lock is where the goroutines say it is (sync.RWMutex): one writer at a
\* time, readers only while it waits for them, and nobody queues for no writer.
LockIsConsistent ==
    /\ readers = { g \in Goroutine : pc[g] \in {"read", "RUnlock"} }
    /\ \A g \in Goroutine :
          /\ pc[g] \in {"drain", "lookup", "store", "Unlock"} <=> writer = g
          /\ pc[g] \in {"lookup", "store", "Unlock"} => readers = {}
          /\ pc[g] = "blocked" => writer # None

\* What a goroutine knows of its call at each point of the two functions.
Knows(g) ==
    /\ pc[g] \in {"register", "Lock", "drain", "lookup", "store", "Unlock"} =>
          op[g].name = "register"
    /\ pc[g] \in {"query", "RLock", "blocked", "read", "RUnlock"} =>
          op[g].name = "query"
    /\ pc[g] \in {"Lock", "drain", "lookup", "store"} =>
          isValidTokenTypeURI(op[g].uri)
    /\ pc[g] = "store" => entries[op[g].uri] # "builtin"
    /\ pc[g] \in {"register", "Lock", "drain", "lookup", "store",
                  "query", "RLock", "blocked", "read"} => ret[g] = "none"
    /\ pc[g] \in {"Unlock", "RUnlock", "return"} => ret[g] # "none"

CallIsConsistent == \A g \in Goroutine : Knows(g)

\* What has been promised is in the table: the URIs whose registration returned,
\* those a running query must find, and the one just stored.
Promised(g) ==
    /\ \A u \in due[g] : entries[u] # "absent"
    /\ pc[g] # "idle" /\ ret[g] = "ok" => entries[op[g].uri] # "absent"

PromisesAreKept ==
    /\ \A u \in registered : entries[u] # "absent"
    /\ \A g \in Goroutine : Promised(g)

\* A query that began after the registration of its URI returned nil finds it,
\* across goroutines (token_type_registry.go:82-84, 92).
RegisteredIsFound ==
    \A g \in Goroutine :
        op[g].name = "query" /\ ret[g] = "no" => op[g].uri \notin due[g]

\* No call waits for a lock that nobody will give back: whoever waits, some other
\* goroutine holds the lock and waits for nothing (token_type_registry.go takes
\* the lock at lines 71 and 97 and gives it back on every way out).
Waits(g) ==
    \/ pc[g] = "Lock" /\ writer # None
    \/ pc[g] = "drain" /\ readers # {}
    \/ pc[g] = "blocked"

HoldersGoOn ==
    \A g \in Goroutine : Waits(g) =>
        \E h \in Goroutine \ {g} : h \in readers \cup {writer} /\ ~Waits(h)

\* What is recognized stays recognized, in its tier.
NothingIsForgotten ==
    [][\A u \in Str : entries[u] # "absent" => entries'[u] = entries[u]]_vars

\* The functions implement the atomic Registry: a call takes effect in the step
\* that answers it, under the lock.
Atomic == INSTANCE Registry
IsAtomic == Atomic!Spec

\* At every point of the two functions, the lock, the call and the table agree:
\* each way out gives the lock back, each line knows what the lines before it
\* have checked, and what was promised is in the table
\* (token_type_registry.go:67-102).
Inv == /\ TypeOK
       /\ LockIsConsistent
       /\ CallIsConsistent
       /\ PromisesAreKept

\* The inductive invariant.
IInv == Inv /\ TableIsSound /\ RegisteredIsFound

\* Every call returns: a registration is not starved by a stream of queries, nor
\* a query by a stream of registrations.
CallsReturn == \A g \in Goroutine : pc[g] # "idle" ~> pc[g] = "idle"
=============================================================================
