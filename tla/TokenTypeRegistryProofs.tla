---------------------- MODULE TokenTypeRegistryProofs -----------------------
(***************************************************************************)
(* Proofs about TokenTypeRegistry for any number of goroutines and any set *)
(* of strings: IInv is inductive; with it the code implements Registry.    *)
(***************************************************************************)
EXTENDS TokenTypeRegistry, TLAPS

\* The conjuncts of IInv hold before any call.
LEMMA InitEstablishesInv == Init => IInv
<1>1. SUFFICES ASSUME Init PROVE IInv
  OBVIOUS
<1>2. TypeOK
  BY <1>1, StrAssumption, RegistryAssumption
  DEF Init, TypeOK, initialRegistry, Tier, Label, Op, NoOp
<1>3. LockIsConsistent
  BY <1>1, RegistryAssumption DEF Init, LockIsConsistent
<1>4. CallIsConsistent
  BY <1>1 DEF Init, CallIsConsistent, Knows
<1>5. TableIsSound
  BY <1>1, StrAssumption, RegistryAssumption
  DEF Init, TableIsSound, initialRegistry, isValidTokenTypeURI
<1>6. PromisesAreKept
  BY <1>1 DEF Init, PromisesAreKept, Promised
<1>7. RegisteredIsFound
  BY <1>1 DEF Init, RegisteredIsFound, NoOp
<1>8. QED
  BY <1>2, <1>3, <1>4, <1>5, <1>6, <1>7 DEF IInv, Inv

\* A step that leaves the table, the calls and the promises alone, begins no
\* call and answers "ok" to none, and "no" only where the table has no entry,
\* cannot break what IInv says of the table and of the answers.
LEMMA TableUntouched ==
    ASSUME TableIsSound, PromisesAreKept, RegisteredIsFound,
           UNCHANGED <<entries, op, registered, due>>,
           \A h \in Goroutine :
              /\ pc[h] = "idle" => pc'[h] = "idle"
              /\ ret'[h] = "ok" => ret[h] = "ok"
              /\ ret'[h] = "no" => ret[h] = "no" \/ entries[op[h].uri] = "absent"
    PROVE  TableIsSound' /\ PromisesAreKept' /\ RegisteredIsFound'
<1>1. TableIsSound'
  BY DEF TableIsSound
<1>2. PromisesAreKept'
  BY DEF PromisesAreKept, Promised
<1>3. RegisteredIsFound'
  BY DEF RegisteredIsFound, PromisesAreKept, Promised
<1>4. QED
  BY <1>1, <1>2, <1>3

\* What a goroutine knows of its call outlives the steps of the others that do
\* not make a URI a built-in.
LEMMA OthersKnow ==
    ASSUME CallIsConsistent, NEW g \in Goroutine, Knows(g)',
           \A h \in Goroutine \ {g} :
              /\ pc'[h] = pc[h] /\ op'[h] = op[h] /\ ret'[h] = ret[h]
              /\ entries'[op[h].uri] = "builtin" => entries[op[h].uri] = "builtin"
    PROVE  CallIsConsistent'
<1>1. ASSUME NEW h \in Goroutine \ {g} PROVE Knows(h)'
  BY <1>1 DEF CallIsConsistent, Knows
<1>2. QED
  BY <1>1 DEF CallIsConsistent

\* What a goroutine calls with, or "" when it calls nothing, is a string.
LEMMA CallsAreStrings ==
    TypeOK => \A g \in Goroutine : op[g].uri \in Str
<1>1. NoOp.uri \in Str
  BY StrAssumption DEF NoOp
<1>2. \A o \in Op : o.uri \in Str
  BY RegistryAssumption DEF Op
<1>3. QED
  BY <1>1, <1>2 DEF TypeOK

\* Every step, and every stutter, preserves IInv.
LEMMA StepPreservesInv == IInv /\ [Next]_vars => IInv'
<1> USE RegistryAssumption, StrAssumption DEF IInv, Inv
<1>1. SUFFICES ASSUME IInv, [Next]_vars PROVE IInv'
  OBVIOUS
<1> USE <1>1
<1>2. ASSUME NEW g \in Goroutine, Call(g) PROVE IInv'
  <2> USE <1>2 DEF Call, Goto, Answer, lock, history
  <2> PICK o \in Op : /\ op' = [op EXCEPT ![g] = o]
                     /\ pc' = [pc EXCEPT ![g] = o.name]
    BY DEF Call, Goto
  <2> o.name \in {"register", "query"} /\ NoOp.name = "none"
    BY DEF Op, NoOp
  <2>1. TypeOK'
    BY DEF TypeOK, Label, Op, NoOp, Tier
  <2>2. LockIsConsistent'
    BY DEF TypeOK, LockIsConsistent
  <2>3. CallIsConsistent'
    <3>1. Knows(g)
      BY DEF CallIsConsistent
    <3>2. Knows(g)'
      BY <3>1 DEF TypeOK, Knows, Op, NoOp
    <3>3. QED
      BY <3>2, OthersKnow DEF TypeOK
  <2>4. TableIsSound'
    BY DEF TableIsSound
  <2>5. PromisesAreKept'
    BY ZenonT(60) DEF TypeOK, PromisesAreKept, Promised
  <2>6. RegisteredIsFound'
    BY DEF TypeOK, RegisteredIsFound
  <2>7. QED
    BY <2>1, <2>2, <2>3, <2>4, <2>5, <2>6
<1>3. ASSUME NEW g \in Goroutine, Register(g) PROVE IInv'
  <2> USE <1>3 DEF Register, Goto, Answer, lock, history
  <2>1. TypeOK'
    BY ZenonT(60) DEF TypeOK, Label, Op, NoOp, Tier
  <2>2. LockIsConsistent'
    BY ZenonT(60) DEF TypeOK, LockIsConsistent
  <2>3. CallIsConsistent'
    <3>1. Knows(g)
      BY DEF CallIsConsistent
    <3>2. Knows(g)'
      BY ZenonT(60), <3>1 DEF TypeOK, Knows, Op, NoOp
    <3>3. QED
      BY <3>2, OthersKnow DEF TypeOK
  <2>4. TableIsSound' /\ PromisesAreKept' /\ RegisteredIsFound'
    BY TableUntouched DEF TypeOK
  <2>5. QED
    BY <2>1, <2>2, <2>3, <2>4
<1>4. ASSUME NEW g \in Goroutine, Query(g) PROVE IInv'
  <2> USE <1>4 DEF Query, Goto, Answer, lock, history
  <2>1. TypeOK'
    BY ZenonT(60) DEF TypeOK, Label, Op, NoOp, Tier
  <2>2. LockIsConsistent'
    BY ZenonT(60) DEF TypeOK, LockIsConsistent
  <2>3. CallIsConsistent'
    <3>1. Knows(g)
      BY DEF CallIsConsistent
    <3>2. Knows(g)'
      BY ZenonT(60), <3>1 DEF TypeOK, Knows, Op, NoOp
    <3>3. QED
      BY <3>2, OthersKnow DEF TypeOK
  <2>4. TableIsSound' /\ PromisesAreKept' /\ RegisteredIsFound'
    <3>1. entries[""] = "absent"
      BY DEF TypeOK, TableIsSound, isValidTokenTypeURI
    <3>2. QED
      BY <3>1, TableUntouched DEF TypeOK
  <2>5. QED
    BY <2>1, <2>2, <2>3, <2>4
<1>5. ASSUME NEW g \in Goroutine, LockWriters(g) PROVE IInv'
  <2> USE <1>5 DEF LockWriters, Goto, Answer, lock, history
  <2>1. TypeOK'
    BY DEF TypeOK, Label, Op, NoOp, Tier
  <2>2. LockIsConsistent'
    BY DEF TypeOK, LockIsConsistent
  <2>3. CallIsConsistent'
    <3>1. Knows(g)
      BY DEF CallIsConsistent
    <3>2. Knows(g)'
      BY <3>1 DEF TypeOK, Knows, Op, NoOp
    <3>3. QED
      BY <3>2, OthersKnow DEF TypeOK
  <2>4. TableIsSound' /\ PromisesAreKept' /\ RegisteredIsFound'
    BY TableUntouched DEF TypeOK
  <2>5. QED
    BY <2>1, <2>2, <2>3, <2>4
<1>6. ASSUME NEW g \in Goroutine, LockReaders(g) PROVE IInv'
  <2> USE <1>6 DEF LockReaders, Goto, Answer, lock, history
  <2>1. TypeOK'
    BY DEF TypeOK, Label, Op, NoOp, Tier
  <2>2. LockIsConsistent'
    BY DEF TypeOK, LockIsConsistent
  <2>3. CallIsConsistent'
    <3>1. Knows(g)
      BY DEF CallIsConsistent
    <3>2. Knows(g)'
      BY <3>1 DEF TypeOK, Knows, Op, NoOp
    <3>3. QED
      BY <3>2, OthersKnow DEF TypeOK
  <2>4. TableIsSound' /\ PromisesAreKept' /\ RegisteredIsFound'
    BY TableUntouched DEF TypeOK
  <2>5. QED
    BY <2>1, <2>2, <2>3, <2>4
<1>7. ASSUME NEW g \in Goroutine, Unlock(g) PROVE IInv'
  <2> USE <1>7 DEF Unlock, Goto, Answer, lock, history
  <2>1. TypeOK'
    BY DEF TypeOK, Label, Op, NoOp, Tier
  <2>2. LockIsConsistent'
    BY DEF TypeOK, LockIsConsistent
  <2>3. CallIsConsistent'
    <3>1. ASSUME NEW h \in Goroutine PROVE Knows(h)'
      BY DEF TypeOK, CallIsConsistent, Knows
    <3>2. QED
      BY <3>1 DEF CallIsConsistent
  <2>4. TableIsSound' /\ PromisesAreKept' /\ RegisteredIsFound'
    BY TableUntouched DEF TypeOK
  <2>5. QED
    BY <2>1, <2>2, <2>3, <2>4
<1>8. ASSUME NEW g \in Goroutine, RLock(g) PROVE IInv'
  <2> USE <1>8 DEF RLock, Goto, Answer, lock, history
  <2>1. TypeOK'
    BY DEF TypeOK, Label, Op, NoOp, Tier
  <2>2. LockIsConsistent'
    <3>1. CASE writer = None
      <4>1. /\ pc' = [pc EXCEPT ![g] = "read"]
            /\ readers' = readers \cup {g} /\ writer' = None
        BY <3>1 DEF RLock, Goto
      <4>2. readers' = { h \in Goroutine : pc'[h] \in {"read", "RUnlock"} }
        <5>1. readers = { h \in Goroutine : pc[h] \in {"read", "RUnlock"} }
          BY DEF LockIsConsistent
        <5>2. \A h \in Goroutine : pc'[h] = IF h = g THEN "read" ELSE pc[h]
          BY <4>1 DEF TypeOK
        <5>3. QED
          BY <4>1, <5>1, <5>2
      <4>3. \A h \in Goroutine :
              pc[h] \notin {"drain", "lookup", "store", "Unlock", "blocked"}
        BY <3>1 DEF LockIsConsistent
      <4>4. QED
        BY <4>1, <4>2, <4>3 DEF TypeOK, LockIsConsistent
    <3>2. CASE writer # None
      BY <3>2 DEF TypeOK, LockIsConsistent
    <3>3. QED
      BY <3>1, <3>2
  <2>3. CallIsConsistent'
    <3>1. Knows(g)
      BY DEF CallIsConsistent
    <3>2. Knows(g)'
      BY <3>1 DEF TypeOK, Knows, Op, NoOp
    <3>3. QED
      BY <3>2, OthersKnow DEF TypeOK
  <2>4. TableIsSound' /\ PromisesAreKept' /\ RegisteredIsFound'
    BY TableUntouched DEF TypeOK
  <2>5. QED
    BY <2>1, <2>2, <2>3, <2>4
<1>9. ASSUME NEW g \in Goroutine, RUnlock(g) PROVE IInv'
  <2> USE <1>9 DEF RUnlock, Goto, Answer, lock, history
  <2>1. TypeOK'
    BY DEF TypeOK, Label, Op, NoOp, Tier
  <2>2. LockIsConsistent'
    BY DEF TypeOK, LockIsConsistent
  <2>3. CallIsConsistent'
    <3>1. Knows(g)
      BY DEF CallIsConsistent
    <3>2. Knows(g)'
      BY <3>1 DEF TypeOK, Knows, Op, NoOp
    <3>3. QED
      BY <3>2, OthersKnow DEF TypeOK
  <2>4. TableIsSound' /\ PromisesAreKept' /\ RegisteredIsFound'
    BY TableUntouched DEF TypeOK
  <2>5. QED
    BY <2>1, <2>2, <2>3, <2>4
<1>10. ASSUME NEW g \in Goroutine, LookUp(g) PROVE IInv'
  <2> USE <1>10 DEF LookUp, Goto, Answer, lock, history
  <2>1. TypeOK'
    BY ZenonT(60) DEF TypeOK, Label, Op, NoOp, Tier
  <2>2. LockIsConsistent'
    BY ZenonT(60) DEF TypeOK, LockIsConsistent
  <2>3. CallIsConsistent'
    <3>1. Knows(g)
      BY DEF CallIsConsistent
    <3>2. Knows(g)'
      BY <3>1 DEF TypeOK, Knows, Op, NoOp
    <3>3. QED
      BY <3>2, OthersKnow DEF TypeOK
  <2>4. TableIsSound' /\ PromisesAreKept' /\ RegisteredIsFound'
    BY ZenonT(60), TableUntouched DEF TypeOK
  <2>5. QED
    BY <2>1, <2>2, <2>3, <2>4
<1>11. ASSUME NEW g \in Goroutine, Store(g) PROVE IInv'
  <2> USE <1>11 DEF Store, Goto, Answer, lock, history
  <2>1. TypeOK'
    BY DEF TypeOK, Label, Op, NoOp, Tier
  <2>2. LockIsConsistent'
    BY DEF TypeOK, LockIsConsistent
  <2> \A h \in Goroutine : op[h].uri \in Str
    BY CallsAreStrings
  <2>3. CallIsConsistent'
    <3>1. Knows(g)
      BY DEF CallIsConsistent
    <3>2. Knows(g)'
      BY <3>1 DEF TypeOK, Knows, Op, NoOp
    <3>3. \A u \in Str : entries'[u] = "builtin" => entries[u] = "builtin"
      BY DEF TypeOK
    <3>4. QED
      BY <3>2, <3>3, OthersKnow DEF TypeOK
  <2>4. TableIsSound'
    BY ZenonT(60) DEF TypeOK, CallIsConsistent, Knows, TableIsSound, isValidTokenTypeURI
  <2>5. PromisesAreKept'
    <3>1. \A u \in Str : entries[u] # "absent" => entries'[u] # "absent"
      BY DEF TypeOK
    <3>2. op[g].uri \in Str /\ entries'[op[g].uri] = "extension"
      BY DEF TypeOK, CallIsConsistent, Knows, isValidTokenTypeURI
    <3>3. ASSUME NEW h \in Goroutine PROVE Promised(h)'
      <4>1. \A u \in due'[h] : entries'[u] # "absent"
        BY <3>1 DEF TypeOK, PromisesAreKept, Promised
      <4>2. CASE h = g
        BY <4>1, <4>2, <3>2 DEF Promised
      <4>3. CASE h # g
        BY <4>1, <4>3, <3>1 DEF TypeOK, PromisesAreKept, Promised
      <4>4. QED
        BY <4>2, <4>3
    <3>4. QED
      BY <3>1, <3>3 DEF TypeOK, PromisesAreKept
  <2>6. RegisteredIsFound'
    BY DEF TypeOK, RegisteredIsFound
  <2>7. QED
    BY <2>1, <2>2, <2>3, <2>4, <2>5, <2>6
<1>12. ASSUME NEW g \in Goroutine, Read(g) PROVE IInv'
  <2> USE <1>12 DEF Read, Goto, Answer, lock, history
  <2>1. TypeOK'
    BY DEF TypeOK, Label, Op, NoOp, Tier
  <2>2. LockIsConsistent'
    BY DEF TypeOK, LockIsConsistent
  <2>3. CallIsConsistent'
    <3>1. Knows(g)
      BY DEF CallIsConsistent
    <3>2. Knows(g)'
      BY <3>1 DEF TypeOK, Knows, Op, NoOp
    <3>3. QED
      BY <3>2, OthersKnow DEF TypeOK
  <2>4. TableIsSound' /\ PromisesAreKept' /\ RegisteredIsFound'
    BY TableUntouched DEF TypeOK
  <2>5. QED
    BY <2>1, <2>2, <2>3, <2>4
<1>13. ASSUME NEW g \in Goroutine, Return(g) PROVE IInv'
  <2> USE <1>13 DEF Return, Goto, Answer, lock, history
  <2>1. TypeOK'
    BY DEF TypeOK, Label, Op, NoOp, Tier
  <2>2. LockIsConsistent'
    BY DEF TypeOK, LockIsConsistent
  <2>3. CallIsConsistent'
    <3>1. Knows(g)
      BY DEF CallIsConsistent
    <3>2. Knows(g)'
      BY <3>1 DEF TypeOK, Knows, Op, NoOp
    <3>3. QED
      BY <3>2, OthersKnow DEF TypeOK
  <2>4. TableIsSound'
    BY DEF TableIsSound
  <2>5. PromisesAreKept'
    <3>1. \A u \in registered' : entries'[u] # "absent"
      BY DEF PromisesAreKept, Promised
    <3>2. ASSUME NEW h \in Goroutine PROVE Promised(h)'
      BY DEF TypeOK, PromisesAreKept, Promised
    <3>3. QED
      BY <3>1, <3>2 DEF PromisesAreKept
  <2>6. RegisteredIsFound'
    BY DEF TypeOK, RegisteredIsFound, NoOp
  <2>7. QED
    BY <2>1, <2>2, <2>3, <2>4, <2>5, <2>6
<1>14. CASE UNCHANGED vars
  BY ZenonT(60), <1>14 DEF vars, lock, history, TypeOK, LockIsConsistent, CallIsConsistent,
       Knows, TableIsSound, PromisesAreKept, Promised, RegisteredIsFound
<1>15. QED
  BY <1>2, <1>3, <1>4, <1>5, <1>6, <1>7, <1>8, <1>9, <1>10, <1>11, <1>12, <1>13,
     <1>14 DEF Next, Step

-----------------------------------------------------------------------------
\* IInv holds in every reachable state, whoever calls what and when.
LEMMA Strengthened == Spec => []IInv
<1>1. Init => IInv
  BY InitEstablishesInv
<1>2. IInv /\ [Next]_vars => IInv'
  BY StepPreservesInv
<1>3. QED
  BY <1>1, <1>2, PTL DEF Spec

\* Inv holds in every reachable state: the lock is where the two functions take
\* it to be, each knows what it should of its call, and what was promised is in
\* the table.
THEOREM Invariance == Spec => []Inv
<1>1. IInv => Inv
  BY DEF IInv
<1>2. QED
  BY <1>1, Strengthened, PTL

\* The variables have their types (the whole of token_type_registry.go).
THEOREM TypeCorrect == Spec => []TypeOK
<1>1. IInv => TypeOK
  BY DEF IInv, Inv
<1>2. QED
  BY <1>1, Strengthened, PTL

\* No goroutine is in the map while another writes it: the lock of
\* RegisterTokenType and IsRegisteredTokenType suffices.
THEOREM MutualExclusion == Spec => []MapAccessIsExclusive
<1>1. IInv => MapAccessIsExclusive
  BY RegistryAssumption
  DEF IInv, Inv, TypeOK, LockIsConsistent, MapAccessIsExclusive, InMap
<1>2. QED
  BY <1>1, Strengthened, PTL

\* No registration removes, shadows or adds a built-in, or adds a non-URI.
THEOREM BuiltinsAreKept == Spec => []TableIsSound
<1>1. IInv => TableIsSound
  BY DEF IInv, Inv
<1>2. QED
  BY <1>1, Strengthened, PTL

\* A query that began after RegisterTokenType returned nil answers true.
THEOREM ReadsSeeWrites == Spec => []RegisteredIsFound
<1>1. IInv => RegisteredIsFound
  BY DEF IInv, Inv
<1>2. QED
  BY <1>1, Strengthened, PTL

\* Whoever waits for the lock, another goroutine holds it and waits for nothing:
\* the readers that a writer waits for, or the writer itself.
THEOREM NoDeadlock == Spec => []HoldersGoOn
<1>1. IInv => HoldersGoOn
  <2> SUFFICES ASSUME IInv, NEW g \in Goroutine, Waits(g)
               PROVE  \E h \in Goroutine \ {g} :
                          h \in readers \cup {writer} /\ ~Waits(h)
    BY DEF HoldersGoOn
  <2>1. /\ readers = { h \in Goroutine : pc[h] \in {"read", "RUnlock"} }
        /\ \A h \in Goroutine :
              /\ pc[h] \in {"drain", "lookup", "store", "Unlock"} <=> writer = h
              /\ pc[h] = "blocked" => writer # None
    BY DEF IInv, Inv, LockIsConsistent
  <2>2. CASE readers # {}
    <3>1. PICK h \in readers : TRUE
      BY <2>2
    <3>2. h \in Goroutine /\ pc[h] \in {"read", "RUnlock"}
      BY <2>1, <3>1
    <3>3. ~Waits(h)
      BY <3>2 DEF Waits
    <3>4. QED
      BY <3>1, <3>2, <3>3
  <2>3. CASE readers = {}
    <3>1. pc[g] \in {"Lock", "blocked"} /\ writer # None
      BY <2>1, <2>3 DEF Waits
    <3>2. writer \in Goroutine
      BY <3>1 DEF IInv, Inv, TypeOK
    <3>3. pc[writer] \in {"drain", "lookup", "store", "Unlock"}
      BY <2>1, <3>2
    <3>4. ~Waits(writer) /\ writer # g
      BY <2>3, <3>1, <3>3 DEF Waits
    <3>5. QED
      BY <3>2, <3>4
  <2>4. QED
    BY <2>2, <2>3
<1>2. QED
  BY <1>1, Strengthened, PTL

\* No step takes a URI out of the table or changes its tier.
THEOREM TableOnlyGrows == Spec => NothingIsForgotten
<1>1. IInv /\ [Next]_vars =>
        [\A u \in Str : entries[u] # "absent" => entries'[u] = entries[u]]_vars
  <2> SUFFICES ASSUME IInv, [Next]_vars, NEW u \in Str, entries[u] # "absent"
               PROVE  entries'[u] = entries[u]
    OBVIOUS
  <2>1. CASE UNCHANGED entries
    BY <2>1
  <2>2. ASSUME NEW g \in Goroutine, Store(g) PROVE entries'[u] = entries[u]
    <3>1. entries[op[g].uri] # "builtin"
      BY <2>2 DEF IInv, Inv, CallIsConsistent, Knows, Store
    <3>2. entries' = [entries EXCEPT ![op[g].uri] = "extension"]
      BY <2>2 DEF Store
    <3>3. QED
      BY <3>1, <3>2 DEF IInv, Inv, TypeOK, Tier
  <2>3. QED
    BY <2>1, <2>2 DEF Next, Step, Call, Register, Query, LockWriters,
       LockReaders, Unlock, RLock, RUnlock, LookUp, Read, Return, vars
<1>2. QED
  BY <1>1, Strengthened, PTL DEF Spec, NothingIsForgotten

-----------------------------------------------------------------------------
\* The two functions, run by any number of goroutines, implement the atomic
\* registry: Register, Store, LookUp, Query and Read are where calls take
\* effect.
LEMMA StepIsAtomic == IInv /\ [Next]_vars => [Atomic!Next]_(Atomic!vars)
<1> SUFFICES ASSUME IInv, [Next]_vars
             PROVE  Atomic!Next \/ UNCHANGED Atomic!vars
  BY DEF Atomic!vars
<1> USE DEF IInv, Inv
<1>1. CASE UNCHANGED <<entries, op, ret>>
  BY <1>1 DEF Atomic!vars
<1>2. ASSUME NEW g \in Goroutine, Call(g) PROVE Atomic!Invoke(g)
  <2>1. op[g] = Atomic!NoOp
    BY <1>2 DEF Call, TypeOK, NoOp, Atomic!NoOp
  <2>2. \E o \in Atomic!Op : op' = [op EXCEPT ![g] = o]
    BY <1>2 DEF Call, Op, Atomic!Op
  <2>3. QED
    BY <1>2, <2>1, <2>2 DEF Call, Answer, Atomic!Invoke
<1>3. ASSUME NEW g \in Goroutine,
             pc[g] \notin {"idle", "return", "Unlock", "RUnlock"},
             ret' = [ret EXCEPT ![g] = Atomic!Answer(op[g], entries)],
             entries' = Atomic!After(op[g], entries), UNCHANGED op
      PROVE  Atomic!TakeEffect(g)
  <2>1. ret[g] = "none"
    BY <1>3 DEF TypeOK, Label, CallIsConsistent, Knows
  <2>2. op[g] # Atomic!NoOp
    BY <1>3 DEF TypeOK, NoOp, Atomic!NoOp
  <2>3. QED
    BY <1>3, <2>1, <2>2 DEF Atomic!TakeEffect
<1>4. ASSUME NEW g \in Goroutine, Register(g), ret' # ret
      PROVE  Atomic!TakeEffect(g)
  <2>1. op[g].name = "register" /\ ~isValidTokenTypeURI(op[g].uri)
    BY <1>4 DEF Register, CallIsConsistent, Knows
  <2>2. /\ Atomic!Answer(op[g], entries) = "invalid"
        /\ Atomic!After(op[g], entries) = entries
    BY <2>1 DEF Atomic!Answer, Atomic!After,
         isValidTokenTypeURI, Atomic!isValidTokenTypeURI
  <2>3. QED
    BY <1>3, <1>4, <2>1, <2>2 DEF Register, Answer
<1>5. ASSUME NEW g \in Goroutine, Query(g), ret' # ret
      PROVE  Atomic!TakeEffect(g)
  <2>1. op[g].name = "query" /\ op[g].uri = "" /\ entries[""] = "absent"
    BY <1>5, StrAssumption
    DEF Query, CallIsConsistent, Knows, TableIsSound, isValidTokenTypeURI
  <2>2. /\ Atomic!Answer(op[g], entries) = "no"
        /\ Atomic!After(op[g], entries) = entries
    BY <2>1 DEF Atomic!Answer, Atomic!After
  <2>3. QED
    BY <1>3, <1>5, <2>2 DEF Query, Answer
<1>6. ASSUME NEW g \in Goroutine, LookUp(g), ret' # ret
      PROVE  Atomic!TakeEffect(g)
  <2>1. /\ op[g].name = "register" /\ isValidTokenTypeURI(op[g].uri)
        /\ entries[op[g].uri] = "builtin"
    BY <1>6 DEF LookUp, CallIsConsistent, Knows
  <2>2. /\ Atomic!Answer(op[g], entries) = "reserved"
        /\ Atomic!After(op[g], entries) = entries
    BY <2>1 DEF Atomic!Answer, Atomic!After,
         isValidTokenTypeURI, Atomic!isValidTokenTypeURI
  <2>3. QED
    BY <1>3, <1>6, <2>1, <2>2 DEF LookUp, Answer
<1>7. ASSUME NEW g \in Goroutine, Store(g) PROVE Atomic!TakeEffect(g)
  <2>1. /\ op[g].name = "register" /\ isValidTokenTypeURI(op[g].uri)
        /\ entries[op[g].uri] # "builtin"
    BY <1>7 DEF Store, CallIsConsistent, Knows
  <2>2. /\ Atomic!Answer(op[g], entries) = "ok"
        /\ Atomic!After(op[g], entries) =
              [entries EXCEPT ![op[g].uri] = "extension"]
    BY <2>1 DEF Atomic!Answer, Atomic!After,
         isValidTokenTypeURI, Atomic!isValidTokenTypeURI
  <2>3. QED
    BY <1>3, <1>7, <2>2 DEF Store, Answer
<1>8. ASSUME NEW g \in Goroutine, Read(g) PROVE Atomic!TakeEffect(g)
  <2>1. op[g].name = "query"
    BY <1>8 DEF Read, CallIsConsistent, Knows
  <2>2. /\ Atomic!Answer(op[g], entries) =
              IF entries[op[g].uri] = "absent" THEN "no" ELSE "yes"
        /\ Atomic!After(op[g], entries) = entries
    BY <2>1 DEF Atomic!Answer, Atomic!After
  <2>3. QED
    BY <1>3, <1>8, <2>2 DEF Read, Answer
<1>9. ASSUME NEW g \in Goroutine, Return(g) PROVE Atomic!Return(g)
  <2>1. op[g] # Atomic!NoOp /\ ret[g] # "none"
    BY <1>9 DEF Return, TypeOK, NoOp, Atomic!NoOp, CallIsConsistent, Knows
  <2>2. QED
    BY <1>9, <2>1 DEF Return, NoOp, Atomic!NoOp, Atomic!Return
<1>10. QED
  BY <1>1, <1>2, <1>4, <1>5, <1>6, <1>7, <1>8, <1>9
  DEF Next, Step, vars, Register, Query, LockWriters, LockReaders, Unlock, RLock,
      RUnlock, LookUp, Atomic!Next

\* The concurrent registry is linearizable: it implements the atomic one.
THEOREM Linearizable == Spec => IsAtomic
<1>1. Init => Atomic!Init
  BY DEF Init, Atomic!Init, initialRegistry, Atomic!initialRegistry, NoOp,
         Atomic!NoOp
<1>2. QED
  BY <1>1, StepIsAtomic, Strengthened, PTL DEF Spec, IsAtomic, Atomic!Spec
=============================================================================
