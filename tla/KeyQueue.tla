------------------------------ MODULE KeyQueue ------------------------------
(***************************************************************************)
(* What the keyboard promises its reader: a queue of at most Cap events,   *)
(* in the order in which they happened, that gives up its oldest event     *)
(* when a new one finds it full, and says how many it gave up.             *)
(***************************************************************************)
EXTENDS Naturals, Sequences

CONSTANTS Cap, Event

VARIABLES queue, lost

Full == Len(queue) = Cap

Init == queue = <<>> /\ lost = 0

Put(e) ==
    /\ queue' = Append(IF Full THEN Tail(queue) ELSE queue, e)
    /\ lost' = IF Full THEN lost + 1 ELSE lost

Take ==
    /\ queue # <<>>
    /\ queue' = Tail(queue)
    /\ UNCHANGED lost

Next == (\E e \in Event : Put(e)) \/ Take

Spec == Init /\ [][Next]_<<queue, lost>>
=============================================================================
