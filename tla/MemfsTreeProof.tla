--------------------------- MODULE MemfsTreeProof ---------------------------
(***************************************************************************)
(* The reference counts of MemfsTree are right for any number of nodes,    *)
(* names, descriptors and streams.                                         *)
(***************************************************************************)
EXTENDS MemfsTree, FiniteSetTheorems, TLAPS

FieldsOK ==
  /\ name \in [Nodes -> Names \cup {NoName}]
  /\ kind \in [Nodes -> Kinds]
  /\ deleted \in [Nodes -> BOOLEAN]
  /\ refs \in [Nodes -> Nat]
  /\ files \in [Files -> Slots \cup {None}]

\* What the code really counts: one for the node, removed or not.
ExactCounts ==
  \A n \in Slots :
    /\ n \in Free => Users(n) = {}
    /\ n \notin Free => refs[n] = 1 + Cardinality(Users(n))
    /\ Users(n) # {} => kind[n] = "file"

\* The count of a slot says whether it is free: nothing else may be 0.
CountInv ==
  /\ FieldsOK
  /\ ExactCounts
  /\ \A n \in Slots : refs[n] = 0 => n \in Free

USE SlotsAssumption, FilesAssumption, NoneAssumption

-----------------------------------------------------------------------------
\* The descriptors of a node can be counted.
LEMMA UsersFinite ==
  ASSUME NEW n
  PROVE  IsFiniteSet(Users(n)) /\ Cardinality(Users(n)) \in Nat
         /\ (Cardinality(Users(n)) = 0 <=> Users(n) = {})
BY FS_Subset, FS_EmptySet, FS_CardinalityType DEF Users

\* What a slot in use looks like.
LEMMA InUse ==
  ASSUME CountInv, NEW n \in Slots, n \notin Free
  PROVE  refs[n] \in Nat /\ refs[n] >= 1 /\ (refs[n] <= 1 <=> Users(n) = {})
BY UsersFinite DEF CountInv, ExactCounts, FieldsOK, Nodes

LEMMA ChildInUse ==
  ASSUME CountInv, NEW d, NEW nm \in Names, NEW n \in Child(d, nm)
  PROVE  n \in Slots /\ n \notin Free /\ name[n] = nm
BY DEF Child, Free

LEMMA InitCounts == Init => CountInv
<1> SUFFICES ASSUME Init PROVE CountInv
  OBVIOUS
<1> DEFINE packed == {n \in Slots : parent[n] # None}
<1>1. /\ kind \in [Nodes -> {"file", "dir"}] /\ name \in [Nodes -> Names \cup {NoName}]
      /\ \A n \in Nodes : kind[n] = "dir" => n \in packed \cup {Root}
      /\ \A n \in Nodes : name[n] # NoName <=> n \in packed
      /\ refs = [n \in Nodes |-> IF n \in packed THEN 1 ELSE 0]
      /\ deleted = [n \in Nodes |-> FALSE] /\ files = [f \in Files |-> None]
  BY DEF Init
<1> HIDE DEF packed
<1>2. FieldsOK
  BY <1>1 DEF FieldsOK, Kinds
<1>3. \A n \in Slots : Users(n) = {} /\ Cardinality(Users(n)) = 0
  BY <1>1, FS_EmptySet DEF Users
<1>4. \A n \in Slots : n \in Free <=> refs[n] = 0
  BY <1>1 DEF Free, Nodes
<1>5. \A n \in Slots : refs[n] \in {0, 1}
  BY <1>1 DEF Nodes
<1> QED
  BY <1>2, <1>3, <1>4, <1>5 DEF CountInv, ExactCounts
-----------------------------------------------------------------------------
\* A slot whose fields and descriptors a step leaves alone.
Same(n) ==
  /\ name'[n] = name[n] /\ kind'[n] = kind[n] /\ refs'[n] = refs[n]
  /\ Users(n)' = Users(n)

\* A slot that a step gives back.
Released(n) == n \in Free' /\ Users(n)' = {}

\* A slot that a step takes or keeps, with the count it should have.
Counted(n) ==
  /\ refs'[n] = 1 + Cardinality(Users(n)')
  /\ Users(n)' # {} => kind'[n] = "file"

LEMMA SlotBySlot ==
  ASSUME CountInv, FieldsOK',
         \A n \in Slots : Same(n) \/ Released(n) \/ Counted(n)
  PROVE  CountInv'
<1> SUFFICES ASSUME NEW n \in Slots
             PROVE  /\ n \in Free' => Users(n)' = {}
                    /\ n \notin Free' => refs'[n] = 1 + Cardinality(Users(n)')
                    /\ Users(n)' # {} => kind'[n] = "file"
                    /\ refs'[n] = 0 => n \in Free'
  BY DEF CountInv, ExactCounts
<1>0. Cardinality(Users(n)') \in Nat
  BY FS_Subset, FS_CardinalityType DEF Users
<1>1. CASE Same(n)
  BY <1>1 DEF Same, CountInv, ExactCounts, Free
<1>2. CASE Released(n)
  BY <1>2 DEF Released
<1>3. CASE Counted(n)
  <2>1. n \notin Free'
    BY <1>0, <1>3 DEF Counted, Free
  <2> QED
    BY <1>0, <1>3, <2>1 DEF Counted
<1> QED
  BY <1>1, <1>2, <1>3

\* Steps that touch no field that counts.
LEMMA NothingCounted ==
  ASSUME CountInv, UNCHANGED <<name, kind, deleted, refs, files>>
  PROVE  CountInv'
BY DEF CountInv, FieldsOK, ExactCounts, Free, Users

LEMMA AddCounts ==
  ASSUME CountInv, NEW n \in Slots, NEW k \in Kinds, NEW d \in Nodes, NEW nm \in Names,
         NEW uses \in Nat, Add(n, k, d, nm, uses),
         FieldsOK', uses = 1 + Cardinality(Users(n)'), Users(n)' # {} => k = "file",
         \A m \in Slots \ {n} : Users(m)' = Users(m)
  PROVE  CountInv'
<1>1. Counted(n)
  BY DEF Add, Counted, CountInv, FieldsOK, Nodes
<1>2. \A m \in Slots \ {n} : Same(m)
  BY DEF Add, Same, CountInv, FieldsOK, Nodes
<1> QED
  BY <1>1, <1>2, SlotBySlot

LEMMA NewNode ==
  ASSUME CountInv, NEW n \in Slots, NEW k \in Kinds, NEW d \in Nodes, NEW nm \in Names,
         Add(n, k, d, nm, 1), UNCHANGED files
  PROVE  CountInv'
<1>1. \A m \in Slots : Users(m)' = Users(m)
  BY DEF Users
<1>2. Users(n) = {}
  BY DEF Add, CountInv, ExactCounts
<1>3. FieldsOK'
  BY DEF Add, CountInv, FieldsOK, Nodes
<1>4. Users(n)' = {} /\ Cardinality(Users(n)') = 0
  BY <1>1, <1>2, FS_EmptySet
<1>5. 1 = 1 + Cardinality(Users(n)')
  BY <1>4
<1> QED
  BY <1>1, <1>3, <1>4, <1>5, AddCounts
-----------------------------------------------------------------------------
LEMMA OpenNewCounts ==
  ASSUME CountInv, NEW d \in Dirs, NEW nm \in Names, NEW wantDir \in BOOLEAN,
         OpenNew(d, nm, wantDir)
  PROVE  CountInv'
<1>1. PICK n \in Slots :
        IF wantDir \/ UnusedFiles = {}
        THEN Add(n, "file", d, nm, 1) /\ UNCHANGED files
        ELSE /\ Add(n, "file", d, nm, 2)
             /\ \E f \in UnusedFiles : files' = [files EXCEPT ![f] = n]
  BY DEF OpenNew
<1>2. d \in Nodes /\ "file" \in Kinds
  BY DEF Dirs, Kinds
<1>3. CASE wantDir \/ UnusedFiles = {}
  BY <1>1, <1>2, <1>3, NewNode
<1>4. CASE ~(wantDir \/ UnusedFiles = {})
  <2>1. PICK f \in Files : files[f] = None /\ files' = [files EXCEPT ![f] = n]
    BY <1>1, <1>4 DEF UnusedFiles
  <2>2. Add(n, "file", d, nm, 2)
    BY <1>1, <1>4
  <2>3. Users(n) = {}
    BY <2>2 DEF Add, CountInv, ExactCounts
  <2>4. Users(n)' = {f} /\ \A m \in Slots \ {n} : Users(m)' = Users(m)
    BY <2>1, <2>3 DEF Users, CountInv, FieldsOK
  <2>5. 2 = 1 + Cardinality(Users(n)')
    <3>1. Cardinality({f}) = 1
      BY FS_Singleton
    <3>2. Cardinality(Users(n)') = 1
      BY <2>4, <3>1
    <3> QED
      BY <3>2
  <2>6. FieldsOK'
    BY <2>1, <2>2 DEF Add, CountInv, FieldsOK, Nodes, Kinds
  <2> QED
    BY <1>2, <2>2, <2>4, <2>5, <2>6, AddCounts
<1> QED
  BY <1>3, <1>4

LEMMA OpenOldCounts ==
  ASSUME CountInv, NEW d \in Dirs, NEW nm \in Names, OpenOld(d, nm)
  PROVE  CountInv'
<1>1. PICK n \in Child(d, nm), f \in Files :
        /\ files[f] = None /\ kind[n] = "file"
        /\ files' = [files EXCEPT ![f] = n]
        /\ refs' = [refs EXCEPT ![n] = @ + 1]
        /\ UNCHANGED <<name, kind, deleted>>
  BY DEF OpenOld, UnusedFiles
<1>2. n \in Slots /\ n \notin Free
  BY ChildInUse
<1>3. FieldsOK'
  BY <1>1, <1>2 DEF CountInv, FieldsOK, Nodes
<1>4. Users(n)' = Users(n) \cup {f} /\ f \notin Users(n)
      /\ \A m \in Slots \ {n} : Users(m)' = Users(m)
  BY <1>1, <1>2 DEF Users, CountInv, FieldsOK
<1>5. Cardinality(Users(n)') = Cardinality(Users(n)) + 1
  BY <1>4, UsersFinite, FS_AddElement
<1>6. refs'[n] = 1 + Cardinality(Users(n)')
  BY <1>1, <1>2, <1>5, UsersFinite DEF CountInv, ExactCounts, FieldsOK, Nodes
<1>7. Counted(n)
  BY <1>1, <1>6 DEF Counted
<1>8. \A m \in Slots \ {n} : Same(m)
  BY <1>1, <1>4 DEF Same, CountInv, FieldsOK, Nodes
<1> QED
  BY <1>3, <1>7, <1>8, SlotBySlot

LEMMA CloseCounts ==
  ASSUME CountInv, NEW f \in Files, Close(f)
  PROVE  CountInv'
<1>1. PICK n \in Slots : n = files[f]
  BY DEF Close, CountInv, FieldsOK
<1>0. f \in Users(n)
  BY <1>1 DEF Users
<1>2. n \notin Free /\ kind[n] = "file"
  BY <1>0 DEF CountInv, ExactCounts
<1>3. refs[n] = 1 + Cardinality(Users(n)) /\ refs[n] \in Nat /\ refs[n] > 1
  BY <1>0, <1>2, InUse DEF CountInv, ExactCounts
<1>4. /\ files' = [files EXCEPT ![f] = None]
      /\ refs' = [refs EXCEPT ![n] = @ - 1]
      /\ UNCHANGED <<name, kind, deleted>>
  BY <1>1, <1>3 DEF Close, CountInv, FieldsOK, Nodes
<1>5. Users(n)' = Users(n) \ {f} /\ \A m \in Slots \ {n} : Users(m)' = Users(m)
  <2>1. \A m \in Slots : Users(m)' = {g \in Files : g # f /\ files[g] = m}
    BY <1>4 DEF Users, CountInv, FieldsOK
  <2> QED
    BY <1>1, <2>1 DEF Users
<1>6. Cardinality(Users(n)') = Cardinality(Users(n)) - 1
  BY <1>0, <1>5, UsersFinite, FS_RemoveElement, ZenonT(40)
<1>7. FieldsOK'
  BY <1>1, <1>3, <1>4 DEF CountInv, FieldsOK, Nodes
<1>8. Counted(n)
  BY <1>1, <1>2, <1>3, <1>4, <1>6, UsersFinite DEF Counted, CountInv, FieldsOK, Nodes
<1>9. \A m \in Slots \ {n} : Same(m)
  BY <1>4, <1>5 DEF Same, CountInv, FieldsOK, Nodes
<1> QED
  BY <1>7, <1>8, <1>9, SlotBySlot
-----------------------------------------------------------------------------
LEMMA RmdirCounts ==
  ASSUME CountInv, NEW n, Rmdir(n)
  PROVE  CountInv'
<1>1. n \in Slots /\ kind[n] = "dir"
  BY DEF Rmdir, Dirs, Nodes
<1>2. Users(n) = {}
  BY <1>1 DEF CountInv, ExactCounts
<1>3. /\ name' = [name EXCEPT ![n] = NoName]
      /\ refs' = [refs EXCEPT ![n] = 0]
      /\ kind' = [kind EXCEPT ![n] = "file"]
      /\ UNCHANGED <<deleted, files>>
  BY DEF Rmdir
<1>4. \A m \in Slots : Users(m)' = Users(m)
  BY <1>3 DEF Users
<1>5. Released(n)
  BY <1>1, <1>2, <1>3, <1>4 DEF Released, Free, CountInv, FieldsOK, Nodes
<1>6. \A m \in Slots \ {n} : Same(m)
  BY <1>3, <1>4 DEF Same, CountInv, FieldsOK, Nodes
<1>7. FieldsOK'
  BY <1>1, <1>3 DEF CountInv, FieldsOK, Nodes, Kinds
<1> QED
  BY <1>5, <1>6, <1>7, SlotBySlot

LEMMA UnlinkCounts ==
  ASSUME CountInv, NEW d \in Dirs, NEW nm \in Names, Unlink(d, nm)
  PROVE  CountInv'
<1>1. PICK n \in Child(d, nm) :
        /\ kind[n] # "dir"
        /\ name' = [name EXCEPT ![n] = NoName]
        /\ IF refs[n] <= 1
           THEN /\ refs' = [refs EXCEPT ![n] = 0]
                /\ kind' = [kind EXCEPT ![n] = "file"]
                /\ UNCHANGED deleted
           ELSE /\ deleted' = [deleted EXCEPT ![n] = TRUE]
                /\ UNCHANGED <<refs, kind>>
        /\ UNCHANGED files
  BY DEF Unlink
<1>2. n \in Slots /\ n \notin Free
  BY ChildInUse
<1>3. \A m \in Slots : Users(m)' = Users(m)
  BY <1>1 DEF Users
<1>4. FieldsOK'
  <2>1. n \in Nodes /\ "file" \in Kinds
    BY <1>2 DEF Nodes, Kinds
  <2>2. CASE refs[n] <= 1
    BY <1>1, <2>1, <2>2 DEF CountInv, FieldsOK
  <2>3. CASE ~(refs[n] <= 1)
    BY <1>1, <2>1, <2>3 DEF CountInv, FieldsOK
  <2> QED
    BY <2>2, <2>3
<1>5. CASE refs[n] <= 1
  <2>1. Users(n) = {}
    BY <1>2, <1>5, InUse
  <2>2. Released(n)
    BY <1>1, <1>2, <1>3, <1>5, <2>1 DEF Released, Free, CountInv, FieldsOK, Nodes
  <2>3. \A m \in Slots \ {n} : Same(m)
    BY <1>1, <1>3, <1>5 DEF Same, CountInv, FieldsOK, Nodes
  <2> QED
    BY <1>4, <2>2, <2>3, SlotBySlot
<1>6. CASE ~(refs[n] <= 1)
  <2>1. Counted(n)
    BY <1>1, <1>2, <1>3, <1>6 DEF Counted, CountInv, ExactCounts
  <2>2. \A m \in Slots \ {n} : Same(m)
    BY <1>1, <1>3, <1>6 DEF Same, CountInv, FieldsOK, Nodes
  <2> QED
    BY <1>4, <2>1, <2>2, SlotBySlot
<1> QED
  BY <1>5, <1>6

LEMMA RenameCounts ==
  ASSUME CountInv, NEW d \in Dirs, NEW nm \in Names, NEW e \in Dirs, NEW nm2 \in Names,
         NEW alloc \in BOOLEAN, Rename(d, nm, e, nm2, alloc)
  PROVE  CountInv'
<1>1. PICK n \in Child(d, nm) :
        /\ CanRename(n, e, Child(e, nm2))
        /\ Replaced(Child(e, nm2), n, e, nm2, alloc)
        /\ UNCHANGED files
  BY DEF Rename
<1> DEFINE old == Child(e, nm2)
           gone == {r \in old : refs[r] <= 1}
<1>2. n \in Slots /\ n \notin Free /\ n \notin old
  BY <1>1, ChildInUse DEF CanRename
<1>3. \A r \in old : r \in Slots /\ r \notin Free
  BY ChildInUse
<1>4. \A m \in Slots : Users(m)' = Users(m)
  BY <1>1 DEF Users
<1>5. /\ name' = [x \in Nodes |-> IF x \in old THEN NoName
                                  ELSE IF x = n THEN (IF alloc THEN nm2 ELSE NoName)
                                  ELSE name[x]]
      /\ kind' = [x \in Nodes |-> IF x \in gone THEN "file" ELSE kind[x]]
      /\ deleted' = [x \in Nodes |-> deleted[x] \/ x \in old \ gone]
      /\ refs' = [x \in Nodes |-> IF x \in gone THEN 0 ELSE refs[x]]
  BY <1>1 DEF Replaced
<1>6. FieldsOK'
  <2>1. name' \in [Nodes -> Names \cup {NoName}]
    BY <1>5 DEF CountInv, FieldsOK
  <2>2. kind' \in [Nodes -> Kinds] /\ refs' \in [Nodes -> Nat]
    BY <1>5 DEF CountInv, FieldsOK, Kinds
  <2>3. deleted' \in [Nodes -> BOOLEAN]
    BY <1>5 DEF CountInv, FieldsOK
  <2> QED
    BY <1>1, <2>1, <2>2, <2>3 DEF CountInv, FieldsOK
<1>7. \A m \in gone : Released(m)
  <2> SUFFICES ASSUME NEW m \in gone PROVE Released(m)
    OBVIOUS
  <2>1. m \in Slots /\ m \in old /\ Users(m) = {}
    BY <1>3, InUse
  <2> QED
    BY <1>4, <1>5, <2>1 DEF Released, Free, Nodes
<1>8. \A m \in (old \ gone) \cup {n} : Counted(m)
  <2> SUFFICES ASSUME NEW m \in (old \ gone) \cup {n} PROVE Counted(m)
    OBVIOUS
  <2>1. m \in Slots /\ m \notin Free /\ m \notin gone
    BY <1>2, <1>3
  <2>2. refs'[m] = refs[m] /\ kind'[m] = kind[m]
    BY <1>5, <2>1 DEF Nodes
  <2> QED
    BY <1>4, <2>1, <2>2 DEF Counted, CountInv, ExactCounts
<1>9. \A m \in Slots \ (old \cup {n}) : Same(m)
  BY <1>4, <1>5 DEF Same, Nodes
<1> QED
  BY <1>6, <1>7, <1>8, <1>9, SlotBySlot
-----------------------------------------------------------------------------
LEMMA NextCounts == CountInv /\ [Next]_vars => CountInv'
<1> SUFFICES ASSUME CountInv, [Next]_vars PROVE CountInv'
  OBVIOUS
<1>1. CASE UNCHANGED vars
  BY <1>1, NothingCounted DEF vars, nodeVars
<1>2. ASSUME NEW d \in Dirs, NEW nm \in Names, Mkdir(d, nm) \/ Symlink(d, nm)
      PROVE  CountInv'
  <2>1. d \in Nodes /\ "dir" \in Kinds /\ "link" \in Kinds
    BY DEF Dirs, Kinds
  <2>2. PICK n \in Slots : (Add(n, "dir", d, nm, 1) \/ Add(n, "link", d, nm, 1)) /\ UNCHANGED files
    BY <1>2 DEF Mkdir, Symlink
  <2> QED
    BY <2>1, <2>2, NewNode
<1>3. ASSUME NEW d \in Dirs, Chdir(d) \/ Opendir(d)
      PROVE  CountInv'
  BY <1>3, NothingCounted DEF Chdir, Opendir, nodeVars
<1>4. ASSUME NEW s \in Dirps, Readdir(s) \/ Closedir(s)
      PROVE  CountInv'
  BY <1>4, NothingCounted DEF Readdir, Closedir, nodeVars
<1> QED
  BY <1>1, <1>2, <1>3, <1>4, RmdirCounts, UnlinkCounts, RenameCounts, OpenNewCounts,
     OpenOldCounts, CloseCounts DEF Next

(***************************************************************************)
(* No sequence of calls makes a reference count of memfs.c wrong, whatever *)
(* the sizes of its tables: a slot that is free has no descriptor left.    *)
(***************************************************************************)
THEOREM CountsStayRight == Spec => []CountsRight
<1>1. CountInv => CountsRight
  <2> SUFFICES ASSUME CountInv, NEW n \in Slots, deleted[n]
               PROVE  refs[n] >= Cardinality(Users(n))
    BY DEF CountInv, ExactCounts, CountsRight
  <2>1. Cardinality(Users(n)) \in Nat /\ refs[n] \in Nat
    BY UsersFinite DEF CountInv, FieldsOK, Nodes
  <2>2. CASE n \in Free
    BY <2>1, <2>2, UsersFinite DEF CountInv, ExactCounts
  <2>3. CASE n \notin Free
    BY <2>1, <2>3 DEF CountInv, ExactCounts
  <2>4. QED
    BY <2>2, <2>3
<1> QED
  BY <1>1, InitCounts, NextCounts, PTL DEF Spec
=============================================================================
