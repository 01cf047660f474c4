----------------------------- MODULE MemfsNames -----------------------------
(***************************************************************************)
(* The node table of MemfsTree, read as a name space: the paths that a     *)
(* walk along the child lists finds, recorded in variables of their own.   *)
(***************************************************************************)
EXTENDS MemfsTree

VARIABLES tree, dirs

\* the nodes k steps below the root, each with its path
PathsAndNodes ==
  LET level[k \in 0..Cardinality(Slots)] ==
        IF k = 0 THEN {<<(<<>>), Root>>}
        ELSE UNION {{<<Append(x[1], name[c]), c>> : c \in Elems(kids[x[2]])} : x \in level[k-1]}
  IN  UNION {level[k] : k \in 0..Cardinality(Slots)}

TreeNow ==
  LET found == PathsAndNodes
  IN  [p \in {x[1] : x \in found} |-> (CHOOSE x \in found : x[1] = p)[2]]
DirsNow == Dirs

NamesInit == Init /\ tree = TreeNow /\ dirs = DirsNow
NamesNext == Next /\ tree' = TreeNow' /\ dirs' = DirsNow'
NamesSpec == NamesInit /\ [][NamesNext]_<<vars, tree, dirs>>

Abstract == INSTANCE NameSpace WITH Objects <- Slots, Nobody <- None, held <- files

(***************************************************************************)
(* The node table implements the name space: a call changes no path but    *)
(* those it is about, a directory takes all that is below it along, and a  *)
(* descriptor keeps its file, which nobody else is given, until it closes. *)
(***************************************************************************)
NamesKept == Abstract!Spec
=============================================================================
