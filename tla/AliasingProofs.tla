--------------------------- MODULE AliasingProofs ---------------------------
(***************************************************************************)
(* Aliasing!Inv is inductive, and no one writes through a slice of someone *)
(* else's array.                                                           *)
(***************************************************************************)
EXTENDS Aliasing, TLAPS

Block == [Field -> Seq(Str)]
Slice == [at : Nat, len : Nat]
Object == [kind : Kind, list : [Field -> Slice]]

\* What an edit of o's list p may do: write that list's array, or give the
\* list a new one.
EditsOnly(o, p) ==
    /\ mem' \in Seq(Block) /\ object' \in Seq(Object)
    /\ DOMAIN mem \subseteq DOMAIN mem' /\ DOMAIN object' = DOMAIN object
    /\ \A i \in DOMAIN mem, q \in Field :
          (i # object[o].list[p].at \/ q # p) => mem'[i][q] = mem[i][q]
    /\ \A b \in DOMAIN object : b # o => object'[b] = object[b]
    /\ \A q \in Field : q # p => object'[o].list[q] = object[o].list[q]
    /\ object'[o].kind = object[o].kind
    /\ \/ object'[o].list[p].at = object[o].list[p].at
       \/ object'[o].list[p].at \notin DOMAIN mem
    /\ object'[o].list[p].at \in DOMAIN mem'
    /\ object'[o].list[p].len <= Len(mem'[object'[o].list[p].at][p])

-----------------------------------------------------------------------------
(* Lists. *)

LEMMA ReplacedInList ==
    ASSUME NEW S, NEW s \in Seq(S), NEW i \in DOMAIN s, NEW e \in S
    PROVE  LET t == [s EXCEPT ![i] = e]
           IN  /\ t \in Seq(S) /\ DOMAIN t = DOMAIN s /\ t[i] = e
               /\ \A j \in DOMAIN s : j # i => t[j] = s[j]
  <1> DEFINE t == [s EXCEPT ![i] = e]
  <1>1. DOMAIN t = DOMAIN s /\ t[i] = e
        /\ \A j \in DOMAIN s : j # i => t[j] = s[j]
    OBVIOUS
  <1>2. t \in Seq(S)
    OBVIOUS
  <1> QED BY <1>1, <1>2

LEMMA RoomIsNatural == \A room \in 0..MaxRoom : room \in Nat
  <1>1. MaxRoom \in Nat
    BY AliasingAssumption
  <1> QED BY <1>1

LEMMA RoomIsBlank ==
    ASSUME NEW room \in Nat
    PROVE  /\ [i \in 1..room |-> ""] \in Seq(Str)
           /\ Len([i \in 1..room |-> ""]) = room
  <1> DEFINE blank == ""
  <1>1. blank \in Str
    BY AliasingAssumption
  <1>2. [i \in 1..room |-> ""] = [i \in 1..room |-> blank]
    OBVIOUS
  <1> HIDE DEF blank
  <1>3. /\ [i \in 1..room |-> blank] \in Seq(Str)
        /\ Len([i \in 1..room |-> blank]) = room
    BY <1>1
  <1> QED BY <1>2, <1>3

\* The spare capacity of a new array lies behind its contents.
LEMMA RoomIsBehind ==
    ASSUME NEW s \in Seq(Str), NEW room \in Nat
    PROVE  /\ WithRoom(s, room) \in Seq(Str)
           /\ Len(s) <= Len(WithRoom(s, room))
           /\ \A i \in 1..Len(s) : WithRoom(s, room)[i] = s[i]
  <1> DEFINE r == [i \in 1..room |-> ""]
  <1>1. r \in Seq(Str) /\ Len(r) = room
    BY RoomIsBlank
  <1>2. WithRoom(s, room) = IF s = <<>> THEN s ELSE s \o r
    BY Zenon DEF WithRoom
  <1> HIDE DEF r
  <1>3. /\ s \o r \in Seq(Str) /\ Len(s \o r) = Len(s) + room
        /\ \A i \in 1..Len(s) : (s \o r)[i] = s[i]
    BY <1>1
  <1> QED BY <1>2, <1>3

LEMMA ItemsAreAList ==
    ASSUME Inv, NEW o \in DOMAIN object, NEW p \in Field
    PROVE  Items(o, p) \in Seq(Str) /\ Len(Items(o, p)) = object[o].list[p].len
  <1> DEFINE s == object[o].list[p]
  <1>0. object \in Seq(Object)
    BY DEF Inv, TypeOK, Object, Slice
  <1>1. object[o] \in Object
    BY <1>0
  <1>2. s.at \in Nat /\ s.len \in Nat /\ s.at \in DOMAIN mem
        /\ s.len <= Len(mem[s.at][p])
    BY <1>1 DEF Inv, Object, Slice
  <1>3. mem[s.at][p] \in Seq(Str)
    BY <1>2 DEF Inv, TypeOK
  <1> HIDE DEF s
  <1>4. \A i \in 1..s.len : mem[s.at][p][i] \in Str
    BY <1>2, <1>3
  <1>5. [i \in 1..s.len |-> mem[s.at][p][i]] \in Seq(Str)
        /\ Len([i \in 1..s.len |-> mem[s.at][p][i]]) = s.len
    BY <1>2, <1>4
  <1> QED BY <1>5 DEF Items, s

LEMMA ContentsAreLists ==
    ASSUME Inv, NEW o \in DOMAIN object
    PROVE  Contents(o) \in Block
  BY ItemsAreAList DEF Contents, Block

\* Whoever keeps slices and arrays keeps contents.
LEMMA SameSlicesSameContents ==
    ASSUME NEW o \in DOMAIN object, object'[o] = object[o],
           \A q \in Field :
              mem'[object[o].list[q].at][q] = mem[object[o].list[q].at][q]
    PROVE  ~ Touched(o)
  <1>1. \A q \in Field : Items(o, q)' = Items(o, q)
    BY DEF Items
  <1> QED BY <1>1 DEF Touched, Contents

-----------------------------------------------------------------------------
(* Steps that make an object. *)

\* A new object and a new block, in which its lists begin.
LEMMA MakeAppends ==
    ASSUME Inv, NEW kind \in Kind, NEW contents \in Block, Make(kind, contents)
    PROVE  /\ mem \in Seq(Block) /\ mem' \in Seq(Block)
           /\ DOMAIN mem = 1..Len(mem) /\ DOMAIN mem' = 1..(Len(mem) + 1)
           /\ \A i \in DOMAIN mem : mem'[i] = mem[i]
           /\ \A p \in Field :
                 /\ Len(contents[p]) <= Len(mem'[Len(mem) + 1][p])
                 /\ \A i \in 1..Len(contents[p]) :
                       mem'[Len(mem) + 1][p][i] = contents[p][i]
           /\ object \in Seq(Object) /\ object' \in Seq(Object)
           /\ DOMAIN object = 1..Len(object)
           /\ DOMAIN object' = 1..(Len(object) + 1)
           /\ \A o \in DOMAIN object : object'[o] = object[o]
           /\ object'[Len(object) + 1].kind = kind
           /\ \A p \in Field :
                 object'[Len(object) + 1].list[p] =
                     [at |-> Len(mem) + 1, len |-> Len(contents[p])]
  <1> DEFINE new == [ kind |-> kind,
                      list |-> [p \in Field |-> [ at |-> Len(mem) + 1,
                                                  len |-> Len(contents[p]) ]] ]
  <1>1. mem \in Seq(Block) /\ object \in Seq(Object)
    BY DEF Inv, TypeOK, Block, Object, Slice
  <1>2. PICK room \in 0..MaxRoom :
          mem' = Append(mem, [p \in Field |-> WithRoom(contents[p], room)])
    BY DEF Make
  <1> DEFINE block == [p \in Field |-> WithRoom(contents[p], room)]
  <1>3. /\ block \in Block
        /\ \A p \in Field :
              /\ Len(contents[p]) <= Len(block[p])
              /\ \A i \in 1..Len(contents[p]) : block[p][i] = contents[p][i]
    <2>1. room \in Nat
      BY RoomIsNatural
    <2>2. \A p \in Field : contents[p] \in Seq(Str)
      BY DEF Block
    <2>3. ASSUME NEW p \in Field
          PROVE  /\ block[p] = WithRoom(contents[p], room)
                 /\ WithRoom(contents[p], room) \in Seq(Str)
                 /\ Len(contents[p]) <= Len(WithRoom(contents[p], room))
                 /\ \A i \in 1..Len(contents[p]) :
                       WithRoom(contents[p], room)[i] = contents[p][i]
      BY <2>1, <2>2, RoomIsBehind
    <2> QED BY <2>3 DEF Block
  <1>4. new \in Object
    BY <1>1 DEF Object, Slice, Block
  <1>5. object' = Append(object, new)
    BY DEF Make
  <1>6. /\ new.kind = kind
        /\ \A p \in Field :
              new.list[p] = [at |-> Len(mem) + 1, len |-> Len(contents[p])]
    OBVIOUS
  <1>7. mem' = Append(mem, block)
    BY <1>2
  <1> HIDE DEF new, block
  <1>8. /\ mem' \in Seq(Block)
        /\ DOMAIN mem = 1..Len(mem) /\ DOMAIN mem' = 1..(Len(mem) + 1)
        /\ mem'[Len(mem) + 1] = block
        /\ \A i \in DOMAIN mem : mem'[i] = mem[i]
    BY <1>1, <1>3, <1>7
  <1>9. /\ object' \in Seq(Object)
        /\ DOMAIN object = 1..Len(object)
        /\ DOMAIN object' = 1..(Len(object) + 1)
        /\ object'[Len(object) + 1] = new
        /\ \A i \in DOMAIN object : object'[i] = object[i]
    BY <1>1, <1>4, <1>5
  <1> QED BY <1>1, <1>3, <1>6, <1>8, <1>9

LEMMA MakeKeepsInv ==
    ASSUME Inv, NEW kind \in Kind, NEW contents \in Block, Make(kind, contents)
    PROVE  Inv' /\ \A o \in DOMAIN object : ~ Touched(o)
  <1> DEFINE new == object'[Len(object) + 1]
  <1>3. \A p \in Field : Len(contents[p]) <= Len(mem'[Len(mem) + 1][p])
    BY MakeAppends
  <1>6. ASSUME NEW p \in Field
        PROVE  new.list[p].at = Len(mem) + 1 /\ new.list[p].len = Len(contents[p])
    <2> DEFINE slice == new.list[p]
    <2>1. slice = [at |-> Len(mem) + 1, len |-> Len(contents[p])]
      BY MakeAppends
    <2> HIDE DEF slice
    <2>2. slice.at = Len(mem) + 1 /\ slice.len = Len(contents[p])
      BY <2>1
    <2> QED BY <2>2 DEF slice
  <1>8. /\ mem' \in Seq(Block)
        /\ DOMAIN mem = 1..Len(mem) /\ DOMAIN mem' = 1..(Len(mem) + 1)
        /\ \A i \in DOMAIN mem : mem'[i] = mem[i]
        /\ Len(mem) \in Nat
    BY MakeAppends
  <1>9. /\ object' \in Seq(Object)
        /\ DOMAIN object = 1..Len(object)
        /\ DOMAIN object' = 1..(Len(object) + 1)
        /\ object'[Len(object) + 1] = new
        /\ \A i \in DOMAIN object : object'[i] = object[i]
        /\ Len(object) \in Nat
    BY MakeAppends
  <1> HIDE DEF new
  <1>10. \A o \in DOMAIN object' : o \in DOMAIN object \/ object'[o] = new
    BY <1>9
  <1>11. \A o \in DOMAIN object, p \in Field : object[o].list[p].at \in DOMAIN mem
    BY DEF Inv
  <1>12. TypeOK'
    BY <1>8, <1>9 DEF TypeOK, Block, Object, Slice
  <1>13. ASSUME NEW o \in DOMAIN object', NEW p \in Field
         PROVE  /\ object'[o].list[p].at \in DOMAIN mem'
                /\ object'[o].list[p].len <= Len(mem'[object'[o].list[p].at][p])
    <2>1. CASE o \in DOMAIN object
      BY SMTT(60), <2>1, <1>8, <1>9, <1>11 DEF Inv
    <2>2. CASE object'[o] = new
      BY <2>2, <1>3, <1>6, <1>8
    <2> QED BY <2>1, <2>2, <1>10
  <1>14. ASSUME NEW a \in DOMAIN object', NEW b \in DOMAIN object',
                NEW p \in Field, a # b
         PROVE  object'[a].list[p].at # object'[b].list[p].at
    <2>1. CASE a \in DOMAIN object /\ b \in DOMAIN object
      BY <2>1, <1>9, <1>14 DEF Inv
    <2>2. CASE a \in DOMAIN object /\ b = Len(object) + 1
      BY <2>2, <1>6, <1>8, <1>9, <1>11
    <2>3. CASE b \in DOMAIN object /\ a = Len(object) + 1
      BY <2>3, <1>6, <1>8, <1>9, <1>11
    <2> QED BY <2>1, <2>2, <2>3, <1>9, <1>14
  <1>15. Inv'
    BY <1>12, <1>13, <1>14 DEF Inv
  <1>16. \A o \in DOMAIN object : ~ Touched(o)
    BY SameSlicesSameContents, <1>8, <1>9, <1>11
  <1> QED BY <1>15, <1>16

-----------------------------------------------------------------------------
(* Steps that edit one. *)

LEMMA EditsKeepInv ==
    ASSUME Inv, NEW o \in DOMAIN object, NEW p \in Field, EditsOnly(o, p)
    PROVE  /\ Inv'
           /\ Len(object') = Len(object)
           /\ \A b \in DOMAIN object : Touched(b) => b = o
  <1>1. mem \in Seq(Block) /\ object \in Seq(Object)
    BY DEF Inv, TypeOK, Block, Object, Slice
  <1>2. mem' \in Seq(Block) /\ object' \in Seq(Object)
    BY DEF EditsOnly
  <1>3. TypeOK'
    BY <1>2 DEF TypeOK, Block, Object, Slice
  <1>4. DOMAIN object' = DOMAIN object /\ DOMAIN mem \subseteq DOMAIN mem'
    BY DEF EditsOnly
  <1>5. \A b \in DOMAIN object, q \in Field :
          (b # o \/ q # p) => object'[b].list[q] = object[b].list[q]
    BY DEF EditsOnly
  <1>6. \A b \in DOMAIN object, q \in Field : object[b].list[q].at \in DOMAIN mem
    BY DEF Inv
  <1>7. \A b \in DOMAIN object, q \in Field :
          (b # o \/ q # p) => mem'[object[b].list[q].at][q]
                                = mem[object[b].list[q].at][q]
    <2> TAKE b \in DOMAIN object, q \in Field
    <2> HAVE b # o \/ q # p
    <2>1. object[b].list[q].at # object[o].list[p].at \/ q # p
      BY DEF Inv
    <2> QED BY <2>1, <1>6 DEF EditsOnly
  <1>8. ASSUME NEW b \in DOMAIN object', NEW q \in Field
        PROVE  /\ object'[b].list[q].at \in DOMAIN mem'
               /\ object'[b].list[q].len <= Len(mem'[object'[b].list[q].at][q])
    <2>1. CASE b = o /\ q = p
      BY <2>1 DEF EditsOnly
    <2>2. CASE b # o \/ q # p
      BY <2>2, <1>4, <1>5, <1>6, <1>7 DEF Inv
    <2> QED BY <2>1, <2>2
  <1>9. ASSUME NEW a \in DOMAIN object', NEW b \in DOMAIN object',
               NEW q \in Field, a # b
        PROVE  object'[a].list[q].at # object'[b].list[q].at
    <2>1. object[a].list[q].at # object[b].list[q].at
      BY <1>4, <1>9 DEF Inv
    <2>2. CASE (a # o /\ b # o) \/ q # p
      BY <2>1, <2>2, <1>4, <1>5
    <2>3. CASE q = p /\ (a = o \/ b = o)
      BY <2>1, <2>3, <1>4, <1>5, <1>6, <1>9 DEF EditsOnly
    <2> QED BY <2>2, <2>3
  <1>10. Inv'
    BY <1>3, <1>8, <1>9 DEF Inv
  <1>11. Len(object') = Len(object)
    BY <1>1, <1>2, <1>4
  <1>12. ASSUME NEW b \in DOMAIN object, b # o
         PROVE  ~ Touched(b)
    <2>1. object'[b] = object[b]
      BY <1>12 DEF EditsOnly
    <2> QED BY <2>1, <1>7, <1>12, SameSlicesSameContents
  <1> QED BY <1>10, <1>11, <1>12

\* The slice of a list, and its array.
LEMMA SliceIsInItsArray ==
    ASSUME Inv, NEW o \in DOMAIN object, NEW p \in Field
    PROVE  /\ mem \in Seq(Block) /\ object \in Seq(Object)
           /\ object[o] \in Object
           /\ object[o].list[p].at \in DOMAIN mem
           /\ object[o].list[p].len \in Nat
           /\ object[o].list[p].len <= Len(mem[object[o].list[p].at][p])
           /\ mem[object[o].list[p].at] \in Block
           /\ mem[object[o].list[p].at][p] \in Seq(Str)
  <1>1. mem \in Seq(Block) /\ object \in Seq(Object)
    BY DEF Inv, TypeOK, Block, Object, Slice
  <1>2. object[o] \in Object
    BY <1>1
  <1>3. object[o].list[p].at \in DOMAIN mem
        /\ object[o].list[p].len <= Len(mem[object[o].list[p].at][p])
    BY DEF Inv
  <1>4. mem[object[o].list[p].at] \in Block
    BY <1>1, <1>3
  <1> QED BY <1>1, <1>2, <1>3, <1>4 DEF Object, Slice, Block

\* Writing one place of one array.
LEMMA WritesStayInside ==
    ASSUME Inv, NEW o \in DOMAIN object, NEW p \in Field, NEW v \in Str,
           NEW i \in 1..Len(mem[object[o].list[p].at][p]),
           mem' = [mem EXCEPT ![object[o].list[p].at][p][i] = v]
    PROVE  /\ mem' \in Seq(Block) /\ DOMAIN mem' = DOMAIN mem
           /\ Len(mem'[object[o].list[p].at][p])
                = Len(mem[object[o].list[p].at][p])
           /\ \A j \in DOMAIN mem, q \in Field :
                (j # object[o].list[p].at \/ q # p) => mem'[j][q] = mem[j][q]
  <1> DEFINE at == object[o].list[p].at
             list == mem[at][p]
             written == [list EXCEPT ![i] = v]
             block == [mem[at] EXCEPT ![p] = written]
  <1>1. /\ mem \in Seq(Block) /\ at \in DOMAIN mem
        /\ mem[at] \in Block /\ list \in Seq(Str)
    BY SliceIsInItsArray
  <1>2. mem' = [mem EXCEPT ![at] = block]
    OBVIOUS
  <1>3. i \in 1..Len(list)
    OBVIOUS
  <1> HIDE DEF list
  <1>4. written \in Seq(Str) /\ Len(written) = Len(list)
    BY <1>1, <1>3
  <1> HIDE DEF written
  <1>5. block \in Block /\ block[p] = written
        /\ \A q \in Field : q # p => block[q] = mem[at][q]
    BY <1>1, <1>4 DEF Block
  <1> HIDE DEF block, at
  <1>6. mem' \in Seq(Block) /\ DOMAIN mem' = DOMAIN mem
        /\ mem'[at] = block /\ \A j \in DOMAIN mem : j # at => mem'[j] = mem[j]
    <2> DEFINE t == [mem EXCEPT ![at] = block]
    <2>1. /\ t \in Seq(Block) /\ DOMAIN t = DOMAIN mem /\ t[at] = block
          /\ \A j \in DOMAIN mem : j # at => t[j] = mem[j]
      <3>1. block \in Block
        BY <1>5
      <3> QED BY <1>1, <3>1, ReplacedInList
    <2>2. mem' = t
      BY <1>2
    <2> HIDE DEF t
    <2> QED BY <2>1, <2>2
  <1>7. /\ Len(mem'[at][p]) = Len(mem[at][p])
        /\ \A j \in DOMAIN mem, q \in Field :
              (j # at \/ q # p) => mem'[j][q] = mem[j][q]
    BY <1>4, <1>5, <1>6 DEF list
  <1> QED BY <1>6, <1>7 DEF at

\* The array after it.
LEMMA OneIsWritten ==
    ASSUME NEW m \in Seq(Block), NEW at \in DOMAIN m, NEW p \in Field,
           NEW i \in DOMAIN m[at][p], NEW v \in Str
    PROVE  \A j \in DOMAIN m[at][p] :
             [m EXCEPT ![at][p][i] = v][at][p][j]
               = IF j = i THEN v ELSE m[at][p][j]
  <1> DEFINE list == m[at][p]
             block == [m[at] EXCEPT ![p] = [list EXCEPT ![i] = v]]
  <1>1. m[at] \in Block
    OBVIOUS
  <1>2. p \in DOMAIN m[at]
    BY <1>1 DEF Block
  <1>3. block[p] = [list EXCEPT ![i] = v]
    BY <1>2
  <1> HIDE DEF block
  <1>4. [m EXCEPT ![at] = block][at] = block
    OBVIOUS
  <1>5. [m EXCEPT ![at][p][i] = v] = [m EXCEPT ![at] = block]
    BY DEF block
  <1> QED BY <1>3, <1>4, <1>5

\* Replacing one slice of one object.
LEMMA SlicesAreReplaced ==
    ASSUME object \in Seq(Object), NEW o \in DOMAIN object, NEW p \in Field,
           NEW s \in Slice,
           object' = [object EXCEPT ![o].list[p] = s]
    PROVE  /\ object' \in Seq(Object) /\ DOMAIN object' = DOMAIN object
           /\ object'[o].list[p] = s /\ object'[o].kind = object[o].kind
           /\ \A b \in DOMAIN object : b # o => object'[b] = object[b]
           /\ \A q \in Field : q # p => object'[o].list[q] = object[o].list[q]
  <1> DEFINE lists == [object[o].list EXCEPT ![p] = s]
             new == [object[o] EXCEPT !.list = lists]
  <1>1. object[o] \in Object
    OBVIOUS
  <1>2. lists \in [Field -> Slice] /\ lists[p] = s
        /\ \A q \in Field : q # p => lists[q] = object[o].list[q]
    BY <1>1 DEF Object
  <1>3. object' = [object EXCEPT ![o] = new]
    OBVIOUS
  <1> HIDE DEF lists
  <1>4. new \in Object /\ new.list = lists /\ new.kind = object[o].kind
    BY <1>1, <1>2 DEF Object
  <1> HIDE DEF new
  <1>5. /\ object' \in Seq(Object) /\ DOMAIN object' = DOMAIN object
        /\ object'[o] = new
        /\ \A b \in DOMAIN object : b # o => object'[b] = object[b]
    BY <1>3, <1>4, ReplacedInList
  <1> QED BY <1>2, <1>4, <1>5

LEMMA AssignEdits ==
    ASSUME Inv, NEW o \in DOMAIN object, NEW p \in Field, NEW v \in Str,
           Assign(o, p, v)
    PROVE  EditsOnly(o, p)
  <1>1. PICK i \in 1..object[o].list[p].len :
          mem' = [mem EXCEPT ![object[o].list[p].at][p][i] = v]
    BY DEF Assign
  <1>2. i \in 1..Len(mem[object[o].list[p].at][p])
    BY <1>1, SliceIsInItsArray
  <1>3. object' = object
    BY DEF Assign
  <1> QED BY <1>1, <1>2, <1>3, SliceIsInItsArray, WritesStayInside DEF EditsOnly

LEMMA ResliceEdits ==
    ASSUME Inv, NEW o \in DOMAIN object, NEW p \in Field, Reslice(o, p)
    PROVE  EditsOnly(o, p)
  <1>1. PICK n \in 0..object[o].list[p].len :
          object' = [object EXCEPT ![o].list[p].len = n]
    BY DEF Reslice
  <1> DEFINE s == [object[o].list[p] EXCEPT !.len = n]
  <1>2. n \in Nat /\ n <= Len(mem[object[o].list[p].at][p])
    BY <1>1, SliceIsInItsArray
  <1>3. object[o].list[p] \in Slice
    BY SliceIsInItsArray DEF Object
  <1>4. s \in Slice /\ s.at = object[o].list[p].at /\ s.len = n
    BY <1>2, <1>3 DEF Slice
  <1>5. object' = [object EXCEPT ![o].list[p] = s]
    BY <1>1
  <1>6. mem' = mem
    BY DEF Reslice
  <1> HIDE DEF s
  <1>7. /\ object' \in Seq(Object) /\ DOMAIN object' = DOMAIN object
        /\ object'[o].list[p] = s /\ object'[o].kind = object[o].kind
        /\ \A b \in DOMAIN object : b # o => object'[b] = object[b]
        /\ \A q \in Field : q # p => object'[o].list[q] = object[o].list[q]
    BY ZenonT(60), <1>4, <1>5, SliceIsInItsArray, SlicesAreReplaced
  <1> QED BY <1>2, <1>4, <1>6, <1>7, SliceIsInItsArray DEF EditsOnly

LEMMA AppendInPlaceEdits ==
    ASSUME Inv, NEW o \in DOMAIN object, NEW p \in Field, NEW v \in Str,
           AppendInPlace(o, p, v)
    PROVE  EditsOnly(o, p)
  <1> DEFINE n == object[o].list[p].len + 1
             s == [object[o].list[p] EXCEPT !.len = n]
  <1>1. object[o].list[p].len < Len(mem[object[o].list[p].at][p])
        /\ mem' = [mem EXCEPT ![object[o].list[p].at][p][n] = v]
    BY DEF AppendInPlace
  <1>2. n \in 1..Len(mem[object[o].list[p].at][p])
    <2> DEFINE len  == object[o].list[p].len
               room == Len(mem[object[o].list[p].at][p])
    <2>1. len \in Nat /\ mem[object[o].list[p].at][p] \in Seq(Str)
      BY SliceIsInItsArray
    <2>2. room \in Nat
      <3>1. \A q \in Seq(Str) : Len(q) \in Nat
        OBVIOUS
      <3>2. QED
        BY <2>1, <3>1, Zenon
    <2>3. len < room
      BY <1>1, Zenon
    <2> HIDE DEF len, room
    <2>4. len + 1 \in 1..room
      BY <2>1, <2>2, <2>3
    <2>5. QED
      BY <2>4 DEF len, room
  <1>3. object[o].list[p] \in Slice
    BY SliceIsInItsArray DEF Object
  <1>4. s \in Slice /\ s.at = object[o].list[p].at /\ s.len = n
    BY <1>3 DEF Slice
  <1>5. object' = [object EXCEPT ![o].list[p] = s]
    BY DEF AppendInPlace
  <1> HIDE DEF n, s
  <1>6. /\ object' \in Seq(Object) /\ DOMAIN object' = DOMAIN object
        /\ object'[o].list[p] = s /\ object'[o].kind = object[o].kind
        /\ \A b \in DOMAIN object : b # o => object'[b] = object[b]
        /\ \A q \in Field : q # p => object'[o].list[q] = object[o].list[q]
    BY ZenonT(60), <1>4, <1>5, SliceIsInItsArray, SlicesAreReplaced
  <1>7. /\ mem' \in Seq(Block) /\ DOMAIN mem' = DOMAIN mem
        /\ Len(mem'[object[o].list[p].at][p])
             = Len(mem[object[o].list[p].at][p])
        /\ \A j \in DOMAIN mem, q \in Field :
             (j # object[o].list[p].at \/ q # p) => mem'[j][q] = mem[j][q]
    BY <1>1, <1>2, WritesStayInside
  <1>8. n <= Len(mem[object[o].list[p].at][p])
    BY <1>2
  <1> QED BY <1>4, <1>6, <1>7, <1>8, SliceIsInItsArray DEF EditsOnly

LEMMA AppendToNewEdits ==
    ASSUME Inv, NEW o \in DOMAIN object, NEW p \in Field, NEW v \in Str,
           AppendToNew(o, p, v)
    PROVE  EditsOnly(o, p)
  <1> DEFINE items == Append(Items(o, p), v)
             s == [at |-> Len(mem) + 1, len |-> object[o].list[p].len + 1]
  <1>1. PICK room \in 0..MaxRoom :
          mem' = Append(mem, [q \in Field |->
                   IF q = p THEN WithRoom(items, room) ELSE <<>>])
    BY DEF AppendToNew
  <1> DEFINE block == [q \in Field |->
                         IF q = p THEN WithRoom(items, room) ELSE <<>>]
  <1>2. mem' = Append(mem, block)
    BY <1>1
  <1>3. object' = [object EXCEPT ![o].list[p] = s]
    BY DEF AppendToNew
  <1>4. items \in Seq(Str) /\ Len(items) = object[o].list[p].len + 1
    BY ItemsAreAList
  <1> HIDE DEF items
  <1>5. WithRoom(items, room) \in Seq(Str)
        /\ object[o].list[p].len + 1 <= Len(WithRoom(items, room))
    <2>1. room \in Nat
      BY RoomIsNatural
    <2> QED BY <1>4, <2>1, RoomIsBehind
  <1>6. block \in Block /\ block[p] = WithRoom(items, room)
    BY <1>5 DEF Block
  <1>7. mem \in Seq(Block) /\ object[o].list[p].len \in Nat
    BY SliceIsInItsArray
  <1>8. s \in Slice /\ s.at = Len(mem) + 1
        /\ s.len = object[o].list[p].len + 1
    BY <1>7 DEF Slice
  <1> HIDE DEF block, s
  <1>9. /\ mem' \in Seq(Block) /\ DOMAIN mem \subseteq DOMAIN mem'
        /\ Len(mem) + 1 \notin DOMAIN mem /\ Len(mem) + 1 \in DOMAIN mem'
        /\ mem'[Len(mem) + 1] = block
        /\ \A j \in DOMAIN mem : mem'[j] = mem[j]
    BY <1>2, <1>6, <1>7
  <1>10. /\ object' \in Seq(Object) /\ DOMAIN object' = DOMAIN object
         /\ object'[o].list[p] = s /\ object'[o].kind = object[o].kind
         /\ \A b \in DOMAIN object : b # o => object'[b] = object[b]
         /\ \A q \in Field : q # p => object'[o].list[q] = object[o].list[q]
    BY ZenonT(60), <1>3, <1>8, SliceIsInItsArray, SlicesAreReplaced
  <1>11. object'[o].list[p].at = Len(mem) + 1
         /\ object'[o].list[p].len <= Len(mem'[Len(mem) + 1][p])
    BY <1>5, <1>6, <1>8, <1>9, <1>10
  <1> QED BY <1>9, <1>10, <1>11 DEF EditsOnly

-----------------------------------------------------------------------------
\* The lists of token types.
LEMMA BuiltinsAreLists ==
    [p \in Field |-> IF p = "types" THEN Builtins ELSE <<>>] \in Block
  <1>1. Builtins \in Seq(Str)
    BY AliasingAssumption
  <1>2. <<>> \in Seq(Str)
    OBVIOUS
  <1> QED BY <1>1, <1>2 DEF Block

\* Every step keeps the invariant, and touches at most one object.
LEMMA StepKeepsInv ==
    ASSUME Inv, [Next]_vars
    PROVE  /\ Inv'
           /\ \/ \A o \in DOMAIN object : ~ Touched(o)
              \/ /\ Len(object') = Len(object)
                 /\ \E o \in DOMAIN object :
                       \A b \in DOMAIN object : Touched(b) => b = o
  <1>1. CASE UNCHANGED vars
    <2>1. Inv'
      BY <1>1 DEF Inv, TypeOK, vars
    <2>2. \A o \in DOMAIN object : ~ Touched(o)
      BY <1>1, SameSlicesSameContents DEF vars
    <2> QED BY <2>1, <2>2
  <1>2. CASE Arrive
    <2>1. PICK contents \in Forms : Make("form", contents)
      BY <1>2 DEF Arrive
    <2>2. contents \in Block
      BY AliasingAssumption DEF Block
    <2>3. "form" \in Kind
      BY DEF Kind
    <2> QED BY <2>1, <2>2, <2>3, MakeKeepsInv
  <1>3. CASE BuiltinTokenTypes
    <2> DEFINE contents == [p \in Field |-> IF p = "types" THEN Builtins ELSE <<>>]
    <2>1. Make("types", contents)
      BY <1>3 DEF BuiltinTokenTypes
    <2>2. contents \in Block /\ "types" \in Kind
      BY BuiltinsAreLists DEF Kind
    <2> HIDE DEF contents
    <2> QED BY <2>1, <2>2, MakeKeepsInv
  <1>4. ASSUME NEW o \in DOMAIN object, Parse(o) \/ Encode(o)
        PROVE  Inv' /\ \A b \in DOMAIN object : ~ Touched(b)
    <2>1. Contents(o) \in Block
      BY ContentsAreLists
    <2>2. "request" \in Kind /\ "form" \in Kind
      BY DEF Kind
    <2>3. Make("request", Contents(o)) \/ Make("form", Contents(o))
      BY <1>4 DEF Parse, Encode
    <2> QED BY <2>1, <2>2, <2>3, MakeKeepsInv
  <1>5. ASSUME NEW o \in DOMAIN object, Edit(o)
        PROVE  /\ Inv' /\ Len(object') = Len(object)
               /\ \A b \in DOMAIN object : Touched(b) => b = o
    <2>1. PICK p \in ListsOf(object[o].kind), v \in Str :
            Assign(o, p, v) \/ Reslice(o, p) \/ AppendInPlace(o, p, v)
              \/ AppendToNew(o, p, v)
      BY <1>5 DEF Edit
    <2>2. p \in Field
      BY AliasingAssumption DEF ListsOf
    <2>3. EditsOnly(o, p)
      BY <2>1, <2>2, AssignEdits, ResliceEdits, AppendInPlaceEdits,
         AppendToNewEdits
    <2> QED BY <2>2, <2>3, EditsKeepInv
  <1> QED BY <1>1, <1>2, <1>3, <1>4, <1>5 DEF Next

\* What is written to a slice, in place or by append, is written to an array
\* that no other form, request or list of types has: Parse, Encode and
\* BuiltinTokenTypes give every list an array of its own
\* (request_parse.go:55-77, request_codec.go:84-125, token_types.go:43-52).
THEOREM Invariance == Spec => []Inv
  <1>1. Init => Inv
    <2> SUFFICES ASSUME Init PROVE Inv
      OBVIOUS
    <2>1. mem = <<>> /\ object = <<>>
      BY DEF Init
    <2>2. DOMAIN object = {}
      BY <2>1
    <2>3. TypeOK
      BY <2>1 DEF TypeOK
    <2> QED BY <2>2, <2>3 DEF Inv
  <1>2. Inv /\ [Next]_vars => Inv'
    BY StepKeepsInv
  <1> QED BY <1>1, <1>2, PTL DEF Spec

\* No call of the codec and no edit of one holder's lists is seen by another
\* (request_parse.go:72-74, request_codec.go:80), whatever the capacity of
\* the slices, and however many forms and requests there are.
THEOREM NoSharing == Spec => OthersUntouched
  <1>1. Inv /\ [Next]_vars =>
          [\A o \in DOMAIN object : Touched(o) =>
              /\ Len(object') = Len(object)
              /\ \A other \in DOMAIN object : Touched(other) => other = o]_vars
    BY StepKeepsInv
  <1> QED BY <1>1, Invariance, PTL DEF Spec, OthersUntouched

-----------------------------------------------------------------------------
(* Slices amount to values. *)

\* The object, its slices and their arrays as one value.
ValueOf(o) == [kind |-> object[o].kind, list |-> Contents(o)]
Value == [o \in DOMAIN object |-> ValueOf(o)]

LEMMA ValuesAreAList ==
    ASSUME Inv
    PROVE  /\ Value \in Seq([kind : Kind, list : Block])
           /\ Len(Value) = Len(object) /\ DOMAIN Value = DOMAIN object
           /\ Len(object) \in Nat
  <1>1. object \in Seq(Object)
    BY DEF Inv, TypeOK, Object, Slice
  <1>2. DOMAIN object = 1..Len(object) /\ Len(object) \in Nat
    BY <1>1
  <1>3. ASSUME NEW o \in DOMAIN object
        PROVE  ValueOf(o) \in [kind : Kind, list : Block]
    <2>1. object[o] \in Object
      BY <1>1
    <2> QED BY <2>1, ContentsAreLists DEF ValueOf, Object
  <1> QED BY <1>2, <1>3 DEF Value

\* Two objects of one kind with the same contents have the same value.
LEMMA MakeIsNew ==
    ASSUME Inv, NEW kind \in Kind, NEW contents \in Block, Make(kind, contents)
    PROVE  Value' = Append(Value, [kind |-> kind, list |-> contents])
  <1> DEFINE new == [kind |-> kind, list |-> contents]
  <1>0. PICK n \in Nat : n = Len(object) + 1
    BY ValuesAreAList
  <1>1. /\ Len(object) \in Nat /\ DOMAIN object = 1..Len(object)
        /\ DOMAIN object' = 1..n
        /\ \A o \in DOMAIN object : object'[o] = object[o]
        /\ object'[n].kind = kind
    BY <1>0, MakeAppends
  <1>2. ASSUME NEW o \in DOMAIN object PROVE Value'[o] = Value[o]
    <2>1. Contents(o)' = Contents(o)
      BY MakeKeepsInv DEF Touched
    <2>2. o \in DOMAIN object' /\ object'[o] = object[o]
      BY <1>0, <1>1
    <2> QED BY <2>1, <2>2 DEF Value, ValueOf
  <1>3. Contents(n)' = contents
    <2>1. ASSUME NEW p \in Field PROVE Items(n, p)' = contents[p]
      <3> DEFINE slice == object'[n].list[p]
      <3>1. slice = [at |-> Len(mem) + 1, len |-> Len(contents[p])]
        BY <1>0, MakeAppends
      <3>2. Items(n, p)' = [i \in 1..slice.len |-> mem'[slice.at][p][i]]
        BY DEF Items
      <3> HIDE DEF slice
      <3>3. slice.at = Len(mem) + 1 /\ slice.len = Len(contents[p])
        BY <3>1
      <3>4. \A i \in 1..Len(contents[p]) :
              mem'[Len(mem) + 1][p][i] = contents[p][i]
        BY MakeAppends
      <3>5. contents[p] \in Seq(Str)
        BY DEF Block
      <3>6. contents[p] = [i \in 1..Len(contents[p]) |-> contents[p][i]]
        BY <3>5
      <3>7. Items(n, p)' = [i \in 1..Len(contents[p]) |->
                               mem'[Len(mem) + 1][p][i]]
        BY <3>2, <3>3
      <3> QED BY <3>4, <3>6, <3>7
    <2>2. contents = [p \in Field |-> contents[p]]
      BY DEF Block
    <2>3. Contents(n)' = [p \in Field |-> Items(n, p)']
      BY DEF Contents
    <2> QED BY <2>1, <2>2, <2>3
  <1>4. Value'[n] = new
    <2>1. n \in DOMAIN object'
      BY <1>0, <1>1
    <2>2. Value'[n] = [kind |-> object'[n].kind, list |-> Contents(n)']
      BY <2>1 DEF Value, ValueOf
    <2> QED BY <1>1, <1>3, <2>2
  <1>5. DOMAIN Value' = 1..n /\ Value' = [o \in 1..n |-> Value'[o]]
    BY <1>1 DEF Value
  <1>6. /\ Value \in Seq([kind : Kind, list : Block])
        /\ Len(Value) = Len(object) /\ DOMAIN Value = DOMAIN object
    BY ValuesAreAList
  <1>7. new \in [kind : Kind, list : Block]
    OBVIOUS
  <1> DEFINE appended == Append(Value, new)
  <1> HIDE DEF new
  <1>8. /\ appended \in Seq([kind : Kind, list : Block])
        /\ Len(appended) = n /\ appended[n] = new
        /\ \A o \in 1..Len(object) : appended[o] = Value[o]
    BY <1>0, <1>1, <1>6, <1>7
  <1> HIDE DEF appended
  <1>9. appended = [o \in 1..n |-> appended[o]]
    BY <1>8
  <1>10. \A o \in 1..n : Value'[o] = appended[o]
    BY <1>0, <1>1, <1>2, <1>4, <1>8
  <1>11. Value' = appended
    BY <1>5, <1>9, <1>10
  <1> QED BY <1>11 DEF appended, new

\* An edit of list p of object o changes that list of that value.
LEMMA EditReplaces ==
    ASSUME Inv, NEW o \in DOMAIN object, NEW p \in Field, EditsOnly(o, p)
    PROVE  Value' = [Value EXCEPT ![o].list[p] = Items(o, p)']
  <1>1. /\ DOMAIN object' = DOMAIN object /\ object'[o].kind = object[o].kind
        /\ \A b \in DOMAIN object : b # o => object'[b] = object[b]
        /\ \A q \in Field : q # p => object'[o].list[q] = object[o].list[q]
    BY DEF EditsOnly
  <1>2. ASSUME NEW b \in DOMAIN object, b # o PROVE ValueOf(b)' = ValueOf(b)
    <2>1. Contents(b)' = Contents(b)
      BY <1>2, EditsKeepInv DEF Touched
    <2> QED BY <1>1, <1>2, <2>1 DEF ValueOf
  <1>3. ASSUME NEW q \in Field, q # p PROVE Items(o, q)' = Items(o, q)
    <2>1. mem'[object[o].list[q].at][q] = mem[object[o].list[q].at][q]
      BY <1>3, SliceIsInItsArray DEF EditsOnly
    <2>2. object'[o].list[q] = object[o].list[q]
      BY <1>1, <1>3
    <2> QED BY <2>1, <2>2 DEF Items
  <1>4. Contents(o)' = [Contents(o) EXCEPT ![p] = Items(o, p)']
    BY <1>3 DEF Contents
  <1>5. ValueOf(o)' = [ValueOf(o) EXCEPT !.list[p] = Items(o, p)']
    BY <1>1, <1>4 DEF ValueOf
  <1>6. Value' = [b \in DOMAIN object |-> ValueOf(b)']
    BY <1>1 DEF Value
  <1>7. [Value EXCEPT ![o].list[p] = Items(o, p)']
          = [b \in DOMAIN object |->
                IF b = o THEN [ValueOf(o) EXCEPT !.list[p] = Items(o, p)']
                ELSE ValueOf(b)]
    BY DEF Value
  <1> QED BY <1>2, <1>5, <1>6, <1>7

\* The list that an edit leaves.
LEMMA AssignReplaces ==
    ASSUME Inv, NEW o \in DOMAIN object, NEW p \in Field, NEW v \in Str,
           Assign(o, p, v)
    PROVE  ByValue!Edited(Items(o, p), Items(o, p)')
  <1> DEFINE at == object[o].list[p].at
             len == object[o].list[p].len
             list == mem[at][p]
  <1>1. /\ list \in Seq(Str) /\ len \in Nat /\ len <= Len(list)
        /\ mem \in Seq(Block) /\ at \in DOMAIN mem
    BY SliceIsInItsArray
  <1>2. PICK i \in 1..object[o].list[p].len :
          mem' = [mem EXCEPT ![object[o].list[p].at][p][i] = v]
    BY DEF Assign
  <1>3. i \in 1..Len(mem[object[o].list[p].at][p]) /\ i \in 1..len
    BY <1>1, <1>2
  <1>4. \A j \in 1..Len(mem[object[o].list[p].at][p]) :
          mem'[object[o].list[p].at][p][j]
            = IF j = i THEN v ELSE mem[object[o].list[p].at][p][j]
    BY <1>1, <1>2, <1>3, OneIsWritten
  <1>5. object' = object
    BY DEF Assign
  <1>6. Items(o, p)' = [j \in 1..len |-> mem'[at][p][j]]
    BY <1>5 DEF Items
  <1>7. Items(o, p) = [j \in 1..len |-> list[j]]
    BY DEF Items
  <1>8. \A j \in 1..len : mem'[at][p][j] = IF j = i THEN v ELSE list[j]
    BY <1>1, <1>4
  <1> HIDE DEF at, len, list
  <1>9. Items(o, p)' = [Items(o, p) EXCEPT ![i] = v]
    BY <1>3, <1>6, <1>7, <1>8
  <1>10. i \in DOMAIN Items(o, p) /\ Items(o, p) \in Seq(Str)
    BY <1>3, <1>7, ItemsAreAList
  <1> QED BY <1>9, <1>10 DEF ByValue!Edited

LEMMA ResliceReplaces ==
    ASSUME Inv, NEW o \in DOMAIN object, NEW p \in Field, Reslice(o, p)
    PROVE  ByValue!Edited(Items(o, p), Items(o, p)')
  <1> DEFINE at == object[o].list[p].at
             len == object[o].list[p].len
             list == mem[at][p]
  <1>1. /\ Items(o, p) \in Seq(Str) /\ Len(Items(o, p)) = len
        /\ Items(o, p) = [j \in 1..len |-> list[j]]
    BY ItemsAreAList DEF Items
  <1>2. PICK n \in 0..len : object' = [object EXCEPT ![o].list[p].len = n]
    BY DEF Reslice
  <1>3. /\ object \in Seq(Object) /\ object[o] \in Object
        /\ object[o].list[p] \in Slice /\ len \in Nat
    BY SliceIsInItsArray DEF Object
  <1>4. object'[o].list[p].at = at /\ object'[o].list[p].len = n
    BY <1>2, <1>3 DEF Object, Slice
  <1>5. mem' = mem
    BY DEF Reslice
  <1>6. Items(o, p)' = [j \in 1..n |-> list[j]]
    BY <1>4, <1>5 DEF Items
  <1> HIDE DEF at, len, list
  <1>7. SubSeq(Items(o, p), 1, n) = [j \in 1..n |-> Items(o, p)[j]]
    BY <1>1, <1>2, <1>3
  <1>8. \A j \in 1..n : Items(o, p)[j] = list[j]
    BY <1>1, <1>2, <1>3
  <1>9. Items(o, p)' = SubSeq(Items(o, p), 1, n)
    BY <1>6, <1>7, <1>8
  <1> QED BY <1>1, <1>2, <1>9 DEF ByValue!Edited

LEMMA AppendInPlaceReplaces ==
    ASSUME Inv, NEW o \in DOMAIN object, NEW p \in Field, NEW v \in Str,
           AppendInPlace(o, p, v)
    PROVE  ByValue!Edited(Items(o, p), Items(o, p)')
  <1> DEFINE at == object[o].list[p].at
             len == object[o].list[p].len
             list == mem[at][p]
  <1>1. /\ Items(o, p) \in Seq(Str) /\ Len(Items(o, p)) = len
        /\ Items(o, p) = [j \in 1..len |-> list[j]]
    BY ItemsAreAList DEF Items
  <1>2. /\ object[o].list[p].len < Len(mem[object[o].list[p].at][p])
        /\ mem' = [mem EXCEPT ![object[o].list[p].at][p]
                                [object[o].list[p].len + 1] = v]
        /\ object' = [object EXCEPT ![o].list[p].len =
                                object[o].list[p].len + 1]
    BY DEF AppendInPlace
  <1>3. /\ object \in Seq(Object) /\ object[o] \in Object
        /\ object[o].list[p] \in Slice /\ len \in Nat /\ list \in Seq(Str)
        /\ mem \in Seq(Block) /\ at \in DOMAIN mem
    BY SliceIsInItsArray DEF Object
  <1>4. object'[o].list[p].at = at /\ object'[o].list[p].len = len + 1
    BY <1>2, <1>3 DEF Object, Slice
  <1>5. object[o].list[p].len + 1 \in 1..Len(mem[object[o].list[p].at][p])
    BY SMTT(60), <1>2, <1>3
  <1>6. \A j \in 1..Len(mem[object[o].list[p].at][p]) :
          mem'[object[o].list[p].at][p][j]
            = IF j = object[o].list[p].len + 1 THEN v
              ELSE mem[object[o].list[p].at][p][j]
    BY <1>2, <1>3, <1>5, OneIsWritten
  <1>7. Items(o, p)' = [j \in 1..(len + 1) |-> mem'[at][p][j]]
    BY <1>4 DEF Items
  <1>8. \A j \in 1..(len + 1) :
          mem'[at][p][j] = IF j = len + 1 THEN v ELSE list[j]
    BY SMTT(60), <1>3, <1>5, <1>6
  <1> HIDE DEF at, len, list
  <1>9. Append(Items(o, p), v)
          = [j \in 1..(len + 1) |-> IF j = len + 1 THEN v ELSE Items(o, p)[j]]
    BY <1>1, <1>3
  <1>10. \A j \in 1..(len + 1) : j # len + 1 => Items(o, p)[j] = list[j]
    BY <1>1, <1>3
  <1>11. Items(o, p)' = Append(Items(o, p), v)
    BY <1>7, <1>8, <1>9, <1>10
  <1> QED BY <1>1, <1>11 DEF ByValue!Edited

LEMMA AppendToNewReplaces ==
    ASSUME Inv, NEW o \in DOMAIN object, NEW p \in Field, NEW v \in Str,
           AppendToNew(o, p, v)
    PROVE  ByValue!Edited(Items(o, p), Items(o, p)')
  <1> DEFINE items == Append(Items(o, p), v)
             len == object[o].list[p].len
             s == [at |-> Len(mem) + 1, len |-> len + 1]
  <1>1. PICK room \in 0..MaxRoom :
          mem' = Append(mem, [q \in Field |->
                   IF q = p THEN WithRoom(items, room) ELSE <<>>])
    BY DEF AppendToNew
  <1> DEFINE block == [q \in Field |->
                         IF q = p THEN WithRoom(items, room) ELSE <<>>]
  <1>2. object' = [object EXCEPT ![o].list[p] = s]
    BY DEF AppendToNew
  <1>3. Items(o, p) \in Seq(Str) /\ Len(Items(o, p)) = len
    BY ItemsAreAList
  <1>4. items \in Seq(Str) /\ Len(items) = len + 1
    BY <1>3
  <1>5. /\ object \in Seq(Object) /\ object[o] \in Object
        /\ mem \in Seq(Block)
    BY SliceIsInItsArray
  <1>6. object'[o].list[p] = s
    BY <1>2, <1>5 DEF Object
  <1>7. s.at = Len(mem) + 1 /\ s.len = len + 1
    OBVIOUS
  <1> HIDE DEF items, s
  <1>a. items = [i \in 1..(len + 1) |-> items[i]]
    BY <1>4
  <1>8. /\ WithRoom(items, room) \in Seq(Str)
        /\ \A i \in 1..(len + 1) : WithRoom(items, room)[i] = items[i]
    BY <1>1, <1>4, RoomIsNatural, RoomIsBehind
  <1>9. block \in Block /\ block[p] = WithRoom(items, room)
    BY <1>8 DEF Block
  <1>10. mem' = Append(mem, block)
    BY <1>1
  <1> HIDE DEF block
  <1>11. mem'[Len(mem) + 1] = block
    BY <1>5, <1>9, <1>10
  <1>12. Items(o, p)' = [i \in 1..(len + 1) |-> WithRoom(items, room)[i]]
    <2>1. Items(o, p)' = [i \in 1..object'[o].list[p].len |->
                             mem'[object'[o].list[p].at][p][i]]
      BY DEF Items
    <2> QED BY <1>6, <1>7, <1>9, <1>11, <2>1
  <1>13. Items(o, p)' = items
    BY <1>a, <1>8, <1>12
  <1> QED BY <1>3, <1>13 DEF ByValue!Edited, items

\* An edit changes one list of one value, or writes what was there.
LEMMA EditIsEdit ==
    ASSUME Inv, NEW o \in DOMAIN object, Edit(o)
    PROVE  ByValue!Edit(o) \/ Value' = Value
  <1>1. PICK p \in ListsOf(object[o].kind), v \in Str :
          Assign(o, p, v) \/ Reslice(o, p) \/ AppendInPlace(o, p, v)
            \/ AppendToNew(o, p, v)
    BY DEF Edit
  <1>2. p \in Field
    BY AliasingAssumption DEF ListsOf
  <1>3. EditsOnly(o, p)
    BY <1>1, <1>2, AssignEdits, ResliceEdits, AppendInPlaceEdits, AppendToNewEdits
  <1>4. ByValue!Edited(Items(o, p), Items(o, p)')
    BY <1>1, <1>2, AssignReplaces, ResliceReplaces, AppendInPlaceReplaces,
       AppendToNewReplaces
  <1> DEFINE new == Items(o, p)'
  <1>5. Value' = [Value EXCEPT ![o].list[p] = new]
    BY <1>2, <1>3, EditReplaces
  <1>6. /\ Value[o].kind = object[o].kind /\ Value[o].list[p] = Items(o, p)
        /\ o \in DOMAIN Value /\ p \in DOMAIN Value[o].list
        /\ Value[o] = [kind |-> Value[o].kind, list |-> Value[o].list]
        /\ Value = [b \in DOMAIN Value |-> Value[b]]
        /\ Value[o].list = [q \in Field |-> Value[o].list[q]]
    BY <1>2 DEF Value, ValueOf, Contents
  <1> HIDE DEF new
  <1>7. Value'[o].list[p] = new
    BY <1>5, <1>6
  <1>8. CASE new = Items(o, p)
    <2>1. [Value[o].list EXCEPT ![p] = new] = Value[o].list
      BY <1>6, <1>8
    <2>2. Value' = Value
      BY <1>5, <1>6, <2>1
    <2> QED BY <2>2
  <1>9. CASE new # Items(o, p)
    <2>1. p \in ByValue!ListsOf(Value[o].kind)
      BY <1>1, <1>6 DEF ListsOf, ByValue!ListsOf
    <2>2. ByValue!Edit(o)
      BY ZenonT(60), <1>4, <1>5, <1>6, <1>7, <1>9, <2>1 DEF ByValue!Edit, Value, ValueOf, new
    <2> QED BY <2>2
  <1> QED BY <1>8, <1>9

\* A step of the code is a step on values, or changes none.
LEMMA StepByValue ==
    ASSUME Inv, [Next]_vars PROVE ByValue!Next \/ Value' = Value
  <1>1. CASE Arrive
    <2>1. PICK contents \in Forms : Make("form", contents)
      BY <1>1 DEF Arrive
    <2>2. contents \in Block /\ "form" \in Kind
      BY AliasingAssumption DEF Block, Kind
    <2>3. Value' = Append(Value, [kind |-> "form", list |-> contents])
      BY <2>1, <2>2, MakeIsNew
    <2>4. ByValue!Arrive
      BY <2>3 DEF ByValue!Arrive, ByValue!New, Value, ValueOf
    <2> QED BY <2>4 DEF ByValue!Next
  <1>2. CASE BuiltinTokenTypes
    <2> DEFINE lists == [p \in Field |-> IF p = "types" THEN Builtins ELSE <<>>]
    <2>1. lists \in Block /\ "types" \in Kind
      BY BuiltinsAreLists DEF Kind
    <2>2. Make("types", lists)
      BY <1>2 DEF BuiltinTokenTypes
    <2>3. Value' = Append(Value, [kind |-> "types", list |-> lists])
      BY <2>1, <2>2, MakeIsNew
    <2>4. ByValue!BuiltinTokenTypes
      BY <2>3 DEF ByValue!BuiltinTokenTypes, ByValue!New, Value, ValueOf
    <2> QED BY <2>4 DEF ByValue!Next
  <1>3. ASSUME NEW o \in DOMAIN object, Parse(o) \/ Encode(o)
        PROVE  ByValue!Parse(o) \/ ByValue!Encode(o)
    <2>1. Contents(o) \in Block /\ "form" \in Kind /\ "request" \in Kind
      BY ContentsAreLists DEF Kind
    <2>2. o \in DOMAIN Value /\ Value[o] = ValueOf(o)
      BY DEF Value
    <2>3. Value[o].kind = object[o].kind /\ Value[o].list = Contents(o)
      BY <2>2 DEF ValueOf
    <2>4. CASE Parse(o)
      <3>1. object[o].kind = "form" /\ Make("request", Contents(o))
        BY <2>4 DEF Parse
      <3>2. Value' = Append(Value, [kind |-> "request", list |-> Contents(o)])
        BY <2>1, <3>1, MakeIsNew
      <3> QED BY <2>3, <3>1, <3>2 DEF ByValue!Parse, ByValue!New, Value, ValueOf
    <2>5. CASE Encode(o)
      <3>1. object[o].kind = "request" /\ Make("form", Contents(o))
        BY <2>5 DEF Encode
      <3>2. Value' = Append(Value, [kind |-> "form", list |-> Contents(o)])
        BY <2>1, <3>1, MakeIsNew
      <3> QED BY <2>3, <3>1, <3>2 DEF ByValue!Encode, ByValue!New, Value, ValueOf
    <2> QED BY <1>3, <2>4, <2>5
  <1>4. DOMAIN Value = DOMAIN object
    BY DEF Value
  <1>5. CASE \E o \in DOMAIN object : Parse(o) \/ Encode(o)
    BY <1>3, <1>4, <1>5 DEF ByValue!Next, Value, ValueOf
  <1>6. CASE \E o \in DOMAIN object : Edit(o)
    BY <1>4, <1>6, EditIsEdit DEF ByValue!Next, Value, ValueOf
  <1>7. CASE UNCHANGED vars
    BY <1>7 DEF vars, Value, ValueOf, Contents, Items
  <1> QED BY <1>1, <1>2, <1>5, <1>6, <1>7 DEF Next

\* However the slices share, spare and outgrow their arrays, forms, requests
\* and lists of types are values: Parse and Encode copy, and each write is one
\* edit of one list (request_parse.go:55-77, request_codec.go:84-106,
\* token_types.go:43-52).
THEOREM SlicesAreValues == Spec => BehavesAsValues
  <1>1. Init => ByValue!Init
    BY DEF Init, ByValue!Init
  <1>2. Inv /\ [Next]_vars => [ByValue!Next]_(Value)
    BY StepByValue DEF ByValue!Next
  <1> QED BY <1>1, <1>2, Invariance, PTL
          DEF Spec, BehavesAsValues, ByValue!Spec, Value, ValueOf
=============================================================================
