----------------------------- MODULE MemfsTree -----------------------------
(***************************************************************************)
(* The tree of libmemfs: nodes from a fixed pool, child lists, descriptors *)
(* and directory streams that hold plain pointers to nodes.                *)
(*                                                                         *)
(* A path is the pair of the directory its walk ends in and the last name: *)
(* every directory below the root has a path, and `..', symbolic links and *)
(* the working directory only add spellings.  A call that fails and leaves *)
(* everything as it was is a stuttering step.                              *)
(***************************************************************************)
EXTENDS Integers, Sequences, FiniteSets

CONSTANTS
  Slots,        \* s_nodes
  Root, None,   \* s_root, NULL
  Files,        \* s_files
  Dirps,        \* s_dirs
  Names,        \* of directory entries
  NoName

ASSUME SlotsAssumption == IsFiniteSet(Slots) /\ Root \notin Slots
ASSUME FilesAssumption == IsFiniteSet(Files)
ASSUME NoneAssumption  == None \notin Slots \cup {Root} /\ NoName \notin Names

Nodes == {Root} \cup Slots
Kinds == {"file", "dir", "link"}

VARIABLES
  name,      \* last path segment of a node, NoName when it has none
  kind,      \* is_dir, is_symlink
  deleted,   \* removed, but kept for its descriptors
  refs,      \* one for the name, one for each descriptor
  parent,
  kids,      \* the child list, newest first
  files,     \* the node of each descriptor, None when it is not in use
  streams,   \* the open directory streams
  cwd

nodeVars == <<name, kind, deleted, refs, parent, kids>>
vars == <<nodeVars, files, streams, cwd>>

Idle == [dir |-> None, next |-> None, due |-> {}, cut |-> FALSE]
-----------------------------------------------------------------------------
Elems(s) == {s[i] : i \in 1..Len(s)}
Place(s, x) == CHOOSE i \in 1..Len(s) : s[i] = x

Free == {n \in Slots : name[n] = NoName /\ refs[n] = 0 /\ kind[n] # "dir"}

\* n and what is found by following parent from it: the least set that holds n
\* and the parents of its members; node_is_descendant looks for a node there
Ancestors(n) ==
  {a \in Nodes : \A S \in SUBSET Nodes :
     n \in S /\ (\A m \in S : parent[m] # None => parent[m] \in S) => a \in S}

\* the directories that the walk of a path can end in
Dirs == {d \in Nodes : kind[d] = "dir" /\ Root \in Ancestors(d)}

\* dir_find_child, as a set of at most one node
Child(d, nm) ==
  {c \in Slots : c \in Elems(kids[d]) /\ name[c] = nm /\ ~deleted[c]}

Sibling(c) ==
  IF parent[c] = None THEN None
  ELSE LET list == kids[parent[c]]
           i == Place(list, c)
       IN  IF i < Len(list) THEN list[i+1] ELSE None

\* dir_unlink_child, of a child list
Unlinked(list, c) ==
  IF c \in Elems(list)
  THEN LET i == Place(list, c) IN SubSeq(list, 1, i-1) \o SubSeq(list, i+1, Len(list))
  ELSE list

\* the same for the entry that rename replaces, when there is one
Cleared(list, old) == IF old = {} THEN list ELSE Unlinked(list, CHOOSE r \in old : TRUE)

LinkLast(list, c) == Append(list, c)
Link(list, c) == <<c>> \o list

\* a stream that has not yet returned c will not return it; it is cut off
\* when c is the very entry that it keeps a pointer to
Lost(c) ==
  [s \in Dirps |-> IF c \in streams[s].due
                   THEN [streams[s] EXCEPT !.due = @ \ {c},
                                           !.cut = @ \/ streams[s].next = c]
                   ELSE streams[s]]

\* an open stream strictly below d keeps d in its place
HeldBelow(d) ==
  \E s \in Dirps : /\ streams[s].dir \notin {None, d}
                   /\ d \in Ancestors(streams[s].dir)
-----------------------------------------------------------------------------
\* the child lists that S may stand in
Orders(S) ==
  {s \in [1..Cardinality(S) -> S] : \A i, j \in DOMAIN s : s[i] = s[j] => i = j}

\* The image packs any tree of files, with the directories on their paths.
Init ==
  /\ parent \in [Nodes -> Nodes \cup {None}] /\ parent[Root] = None
  /\ LET packed == {n \in Slots : parent[n] # None}
         In(d) == {n \in packed : parent[n] = d}
     IN  /\ kind \in [Nodes -> {"file", "dir"}]
         /\ \A n \in Nodes : kind[n] = "dir" => n \in packed \cup {Root}
         /\ \A n \in packed : kind[parent[n]] = "dir" /\ Root \in Ancestors(n)
         /\ kind[Root] = "dir"
         /\ name \in [Nodes -> Names \cup {NoName}]
         /\ \A n \in Nodes : name[n] # NoName <=> n \in packed
         /\ \A n, m \in packed : parent[n] = parent[m] /\ name[n] = name[m] => n = m
         /\ kids \in [Nodes -> UNION {Orders(In(d)) : d \in Nodes}]
         /\ \A d \in Nodes : kids[d] \in Orders(In(d))
         /\ refs = [n \in Nodes |-> IF n \in packed THEN 1 ELSE 0]
  /\ deleted = [n \in Nodes |-> FALSE]
  /\ files = [f \in Files |-> None]
  /\ streams = [s \in Dirps |-> Idle]
  /\ cwd = Root

\* node_acquire, the copy of the name and dir_link_child.  The pool is searched
\* from its start; any free slot will do here.
Add(n, k, d, nm, uses) ==
  /\ n \in Free /\ Child(d, nm) = {}
  /\ name' = [name EXCEPT ![n] = nm]
  /\ kind' = [kind EXCEPT ![n] = k]
  /\ deleted' = [deleted EXCEPT ![n] = FALSE]
  /\ refs' = [refs EXCEPT ![n] = uses]
  /\ parent' = [parent EXCEPT ![n] = d]
  /\ kids' = [kids EXCEPT ![n] = <<>>, ![d] = Link(kids[d], n)]

Mkdir(d, nm) ==
  /\ \E n \in Slots : Add(n, "dir", d, nm, 1)
  /\ UNCHANGED <<files, streams, cwd>>

Symlink(d, nm) ==
  /\ \E n \in Slots : Add(n, "link", d, nm, 1)
  /\ UNCHANGED <<files, streams, cwd>>

RmdirFull(n) ==
  /\ n \in Dirs \ {Root} /\ n # cwd
  /\ ~HeldBelow(n)
  /\ name' = [name EXCEPT ![n] = NoName]
  /\ refs' = [refs EXCEPT ![n] = 0]
  /\ kind' = [kind EXCEPT ![n] = "file"]
  /\ parent' = [parent EXCEPT ![n] = None]
  /\ kids' = [kids EXCEPT ![parent[n]] = Unlinked(@, n)]
  /\ streams' = Lost(n)
  /\ UNCHANGED <<deleted, files, cwd>>
Rmdir(n) ==
  /\ n \in Dirs \ {Root} /\ n # cwd
  /\ ~HeldBelow(n)
  /\ kids[n] = <<>>
  /\ name' = [name EXCEPT ![n] = NoName]
  /\ refs' = [refs EXCEPT ![n] = 0]
  /\ kind' = [kind EXCEPT ![n] = "file"]
  /\ parent' = [parent EXCEPT ![n] = None]
  /\ kids' = [kids EXCEPT ![parent[n]] = Unlinked(@, n)]
  /\ streams' = Lost(n)
  /\ UNCHANGED <<deleted, files, cwd>>

Chdir(d) == cwd' = d /\ UNCHANGED <<nodeVars, files, streams>>

Unlink(d, nm) ==
  \E n \in Child(d, nm) :
    /\ kind[n] # "dir"
    /\ name' = [name EXCEPT ![n] = NoName]
    /\ parent' = [parent EXCEPT ![n] = None]
    /\ kids' = [kids EXCEPT ![d] = Unlinked(@, n)]
    /\ IF refs[n] <= 1
       THEN /\ refs' = [refs EXCEPT ![n] = 0]
            /\ kind' = [kind EXCEPT ![n] = "file"]
            /\ UNCHANGED deleted
       ELSE /\ deleted' = [deleted EXCEPT ![n] = TRUE]
            /\ UNCHANGED <<refs, kind>>
    /\ streams' = Lost(n)
    /\ UNCHANGED <<files, cwd>>
-----------------------------------------------------------------------------
\* What rename has to find before it changes anything: the new name is free,
\* or that of an empty directory for a directory, or of a file for the rest.
CanRenameStreams(n, e, old) ==
  /\ n \notin old
  /\ kind[n] = "dir" => n \notin Ancestors(e)
  /\ \A r \in old :
       /\ kind[n] = "dir" <=> kind[r] = "dir"
       /\ kind[r] = "dir" => kids[r] = <<>>
CanRenameFull(n, e, old) ==
  /\ n \notin old
  /\ kind[n] = "dir" => n \notin Ancestors(e) /\ ~HeldBelow(n)
  /\ \A r \in old :
       /\ kind[n] = "dir" <=> kind[r] = "dir"
       /\ kind[r] = "dir" => ~HeldBelow(r)
CanRename(n, e, old) ==
  /\ n \notin old
  /\ kind[n] = "dir" => n \notin Ancestors(e) /\ ~HeldBelow(n)
  /\ \A r \in old :
       /\ kind[n] = "dir" <=> kind[r] = "dir"
       /\ kind[r] = "dir" => kids[r] = <<>> /\ ~HeldBelow(r)

\* the fields of the node r that is replaced, when there is one
Replaced(old, n, e, nm, alloc) ==
  LET gone  == {r \in old : refs[r] <= 1}
      held  == old \ gone
  IN  /\ name' = [x \in Nodes |-> IF x \in old THEN NoName
                                  ELSE IF x = n THEN (IF alloc THEN nm ELSE NoName)
                                  ELSE name[x]]
      /\ kind' = [x \in Nodes |-> IF x \in gone THEN "file" ELSE kind[x]]
      /\ deleted' = [x \in Nodes |-> deleted[x] \/ x \in held]
      /\ refs' = [x \in Nodes |-> IF x \in gone THEN 0 ELSE refs[x]]
      /\ parent' = [x \in Nodes |-> IF x \in old THEN None
                                    ELSE IF x = n THEN (IF alloc THEN e ELSE None)
                                    ELSE parent[x]]

\* alloc: the copy of the new name could be allocated; when not, the node has
\* already lost its old name and is linked nowhere
Rename(d, nm, e, nm2, alloc) ==
  \E n \in Child(d, nm) :
    LET old == Child(e, nm2)
        cleared == [x \in Nodes |->
                      LET l == IF x = d THEN Unlinked(kids[x], n) ELSE kids[x]
                      IN  IF x = e THEN Cleared(l, old) ELSE l]
    IN  /\ CanRename(n, e, old)
        /\ Replaced(old, n, e, nm2, alloc)
        /\ kids' = IF alloc THEN [cleared EXCEPT ![e] = Link(@, n)] ELSE cleared
        /\ streams' = [s \in Dirps |->
             LET lost == {n} \cup old
             IN  [streams[s] EXCEPT !.due = @ \ lost,
                                    !.cut = @ \/ streams[s].next \in streams[s].due \cap lost]]
        /\ UNCHANGED <<files, cwd>>
-----------------------------------------------------------------------------
UnusedFiles == {f \in Files : files[f] = None}

\* O_CREAT of a name that is not there.  O_DIRECTORY, or a full table, fails
\* after the file has been created.
OpenNewParent(d, nm, wantDir) ==
  /\ \E n \in Slots :
       IF wantDir \/ UnusedFiles = {}
       THEN Add(n, "file", d, nm, 1) /\ UNCHANGED files
       ELSE /\ Add(n, "file", d, nm, 2)
            /\ \E f \in UnusedFiles : files' = [files EXCEPT ![f] = d]
  /\ UNCHANGED <<streams, cwd>>
OpenNew(d, nm, wantDir) ==
  /\ \E n \in Slots :
       IF wantDir \/ UnusedFiles = {}
       THEN Add(n, "file", d, nm, 1) /\ UNCHANGED files
       ELSE /\ Add(n, "file", d, nm, 2)
            /\ \E f \in UnusedFiles : files' = [files EXCEPT ![f] = n]
  /\ UNCHANGED <<streams, cwd>>

OpenOldNoRef(d, nm) ==
  \E n \in Child(d, nm), f \in UnusedFiles :
    /\ kind[n] = "file"
    /\ files' = [files EXCEPT ![f] = n]
    /\ UNCHANGED <<name, kind, deleted, refs, parent, kids, streams, cwd>>
OpenOld(d, nm) ==
  \E n \in Child(d, nm), f \in UnusedFiles :
    /\ kind[n] = "file"
    /\ files' = [files EXCEPT ![f] = n]
    /\ refs' = [refs EXCEPT ![n] = @ + 1]
    /\ UNCHANGED <<name, kind, deleted, parent, kids, streams, cwd>>

Close(f) ==
  LET n == files[f] IN
    /\ n # None
    /\ files' = [files EXCEPT ![f] = None]
    /\ IF refs[n] = 1 /\ deleted[n]
       THEN /\ refs' = [refs EXCEPT ![n] = 0]
            /\ name' = [name EXCEPT ![n] = NoName]
            /\ kind' = [kind EXCEPT ![n] = "file"]
            /\ deleted' = [deleted EXCEPT ![n] = FALSE]
       ELSE /\ refs' = [refs EXCEPT ![n] = IF @ > 0 THEN @ - 1 ELSE @]
            /\ UNCHANGED <<name, kind, deleted>>
    /\ UNCHANGED <<parent, kids, streams, cwd>>
-----------------------------------------------------------------------------
Opendir(d) ==
  \E s \in Dirps :
    /\ streams[s].dir = None
    /\ streams' = [streams EXCEPT ![s] =
                     [dir |-> d, next |-> IF kids[d] = <<>> THEN None ELSE kids[d][1],
                      due |-> Elems(kids[d]), cut |-> FALSE]]
    /\ UNCHANGED <<nodeVars, files, cwd>>

\* A node without a name has no sibling either, so the loop that passes over
\* such nodes ends with them.
Readdir(s) ==
  LET c == streams[s].next IN
    /\ streams[s].dir # None /\ c # None
    /\ streams' = [streams EXCEPT ![s].next = Sibling(c),
                                  ![s].due = IF name[c] = NoName THEN @ ELSE @ \ {c}]
    /\ UNCHANGED <<nodeVars, files, cwd>>

Closedir(s) ==
  /\ streams[s].dir # None
  /\ streams' = [streams EXCEPT ![s] = Idle]
  /\ UNCHANGED <<nodeVars, files, cwd>>

Next ==
  \/ \E d \in Dirs, nm \in Names :
       \/ Mkdir(d, nm)
       \/ Symlink(d, nm)
       \/ Unlink(d, nm)
       \/ \E e \in Dirs, nm2 \in Names, alloc \in BOOLEAN : Rename(d, nm, e, nm2, alloc)
       \/ \E wantDir \in BOOLEAN : OpenNew(d, nm, wantDir)
       \/ OpenOld(d, nm)
  \/ \E d \in Dirs : Rmdir(d) \/ Chdir(d) \/ Opendir(d)
  \/ \E f \in Files : Close(f)
  \/ \E s \in Dirps : Readdir(s) \/ Closedir(s)

Spec == Init /\ [][Next]_vars
-----------------------------------------------------------------------------
TypeOK ==
  /\ name \in [Nodes -> Names \cup {NoName}]
  /\ kind \in [Nodes -> Kinds]
  /\ deleted \in [Nodes -> BOOLEAN]
  /\ refs \in [Nodes -> Nat]
  /\ parent \in [Nodes -> Nodes \cup {None}]
  /\ kids \in [Nodes -> Seq(Slots)]
  /\ files \in [Files -> Slots \cup {None}]
  /\ streams \in [Dirps -> [dir : Nodes \cup {None}, next : Slots \cup {None},
                            due : SUBSET Slots, cut : BOOLEAN]]
  /\ cwd \in Nodes

Users(n) == {f \in Files : files[f] = n}

(***************************************************************************)
(* memfs.c trusts the pointers in the descriptor table: read, write and    *)
(* close use the node without a look at its state.  So after any sequence  *)
(* of unlink, rename, open and close a slot that is handed out again has   *)
(* no descriptor, a descriptor never comes to stand for a directory or a   *)
(* link, the count of a node that is not removed is one for each           *)
(* descriptor and one for the node, and that of a removed node is never    *)
(* less than its descriptors need to keep it.                              *)
(***************************************************************************)
CountsRight ==
  \A n \in Slots :
    /\ n \in Free => Users(n) = {}
    /\ n \notin Free /\ ~deleted[n] => refs[n] = 1 + Cardinality(Users(n))
    /\ deleted[n] => refs[n] >= Cardinality(Users(n))
    /\ Users(n) # {} => kind[n] = "file"

(***************************************************************************)
(* node_acquire clears a slot with memset.  Whatever the slot still owned  *)
(* would be lost: chunks, a link target, children.                         *)
(***************************************************************************)
FreeIsEmpty == \A n \in Free : kids[n] = <<>> /\ parent[n] = None

(***************************************************************************)
(* A directory scan (opendir, readdir until it ends) returns every entry   *)
(* that was there at its start and still is, once, while other entries     *)
(* come, go and are renamed, as long as the one entry it points to stays.  *)
(***************************************************************************)
Ahead(s) ==
  IF streams[s].next = None THEN {}
  ELSE LET list == kids[streams[s].dir]
       IN  {list[i] : i \in Place(list, streams[s].next)..Len(list)}

ScanExact ==
  \A s \in Dirps : streams[s].dir # None /\ ~streams[s].cut => streams[s].due = Ahead(s)

(***************************************************************************)
(* "the open-rooted subtree must not be pruned out from under the stream"  *)
(* (memfs.c:1069): an open directory stays where it is, below all the      *)
(* directories it was opened below, unless it is renamed or removed itself.*)
(***************************************************************************)
StreamsStayPut ==
  [][\A s \in Dirps :
       LET d == streams[s].dir
       IN  d # None /\ streams'[s].dir = d /\ <<parent[d], name[d]>>' = <<parent[d], name[d]>> =>
             \A a \in Ancestors(d) : parent'[a] = parent[a] /\ name'[a] = name[a]]_vars
-----------------------------------------------------------------------------
(***************************************************************************)
(* "reference counted and freed on last close()" (memfs.h:28): a file that *)
(* was removed while it was open is kept for its descriptors only.  The    *)
(* code contradicts this; a run of its own finds the execution.            *)
(***************************************************************************)
LastCloseFrees == \A n \in Slots : deleted[n] => Users(n) # {}
=============================================================================
