----------------------------- MODULE NameSpace -----------------------------
(***************************************************************************)
(* What a program may rely on when it names files: a tree of paths, each   *)
(* leading to one object, and descriptors that keep the object they were   *)
(* opened on whatever becomes of its path.                                 *)
(***************************************************************************)
EXTENDS Sequences
LOCAL INSTANCE SequencesExt

CONSTANTS Names, Files, Objects, Nobody

VARIABLES
  tree,    \* the object of every path that exists
  dirs,    \* which of these objects are directories
  held     \* the object of each descriptor, or Nobody
vars == <<tree, dirs, held>>

InUse == {tree[p] : p \in DOMAIN tree} \cup {held[f] : f \in Files}
Below(p) == {r \in DOMAIN tree : IsPrefix(p, r)}
IsDir(p) == p \in DOMAIN tree /\ tree[p] \in dirs
Without(P) == [r \in DOMAIN tree \ P |-> tree[r]]

\* a new path in an existing directory, for an object that nobody uses
Make(p, o) ==
  /\ p \notin DOMAIN tree /\ IsDir(Front(p)) /\ o \notin InUse
  /\ tree' = [r \in DOMAIN tree \cup {p} |-> IF r = p THEN o ELSE tree[r]]
  /\ dirs' \in {dirs, dirs \cup {o}}

Delete(p) ==
  /\ p # <<>> /\ Below(p) = {p}
  /\ tree' = Without({p})
  /\ dirs' = dirs \ {tree[p]}

\* everything at and below p moves to q, which may replace a file or an empty
\* directory
Move(p, q) ==
  /\ p # <<>> /\ p \in DOMAIN tree /\ ~IsPrefix(p, q) /\ IsDir(Front(q))
  /\ Below(q) \subseteq {q}
  /\ q \in DOMAIN tree => (tree[q] \in dirs <=> tree[p] \in dirs)
  /\ LET moved == {q \o SubSeq(r, Len(p) + 1, Len(r)) : r \in Below(p)}
     IN  tree' = [r \in (DOMAIN tree \ (Below(p) \cup {q})) \cup moved |->
                    IF r \in moved THEN tree[p \o SubSeq(r, Len(q) + 1, Len(r))]
                                   ELSE tree[r]]
  /\ dirs' = dirs \ (IF q \in DOMAIN tree THEN {tree[q]} ELSE {})

\* a rename that runs out of memory loses what it was moving
Lose(p, q) ==
  /\ p # <<>> /\ p \in DOMAIN tree /\ ~IsPrefix(p, q)
  /\ Below(q) \subseteq {q}
  /\ tree' = Without(Below(p) \cup {q})
  /\ dirs' = {o \in dirs : \E r \in DOMAIN tree' : tree[r] = o}

Open(f, p) ==
  /\ held[f] = Nobody /\ p \in DOMAIN tree /\ ~IsDir(p)
  /\ held' = [held EXCEPT ![f] = tree[p]]
  /\ UNCHANGED <<tree, dirs>>

Close(f) ==
  /\ held' = [held EXCEPT ![f] = Nobody]
  /\ UNCHANGED <<tree, dirs>>

MakeOpen(f, p, o) ==
  /\ Make(p, o) /\ dirs' = dirs
  /\ held[f] = Nobody
  /\ held' = [held EXCEPT ![f] = o]

Init ==
  /\ IsDir(<<>>) /\ dirs \subseteq {tree[p] : p \in DOMAIN tree}
  /\ \A p \in DOMAIN tree \ {<<>>} : IsDir(Front(p))
  /\ \A p, q \in DOMAIN tree : tree[p] = tree[q] => p = q
  /\ held = [f \in Files |-> Nobody]

Change ==
  \E p \in DOMAIN tree :
    \/ Delete(p)
    \/ \E d \in DOMAIN tree, nm \in Names :
         Move(p, Append(d, nm)) \/ Lose(p, Append(d, nm))
    \/ \E nm \in Names, o \in Objects : Make(Append(p, nm), o)

Next ==
  \/ tree' # tree /\ Change /\ held' = held
  \/ \E f \in Files :
       \/ Close(f)
       \/ \E p \in DOMAIN tree :
            Open(f, p) \/ \E nm \in Names, o \in Objects : MakeOpen(f, Append(p, nm), o)

Spec == Init /\ [][Next]_vars
=============================================================================
