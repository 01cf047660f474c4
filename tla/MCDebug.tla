------------------------------- MODULE MCDebug ------------------------------
(* The guest program of the debug sessions that TLC explores.              *)
EXTENDS DebugControl, TLC

\* 0: a loop head;  1: a conditional branch back to 0;  2: its delay slot,
\* which traps;  3: the guest's exit.
Text == 0 :> [op |-> "plain", to |-> 0] @@ 1 :> [op |-> "cond", to |-> 0]
     @@ 2 :> [op |-> "trap",  to |-> 0] @@ 3 :> [op |-> "exit", to |-> 0]

\* 0: a jump whose delay slot, 1, is a branch itself;  2: its target;  3: exit.
LeapText == 0 :> [op |-> "jump", to |-> 2] @@ 1 :> [op |-> "cond", to |-> 0]
         @@ 2 :> [op |-> "plain", to |-> 0] @@ 3 :> [op |-> "exit", to |-> 0]

\* 1: a conditional branch back to 0 whose delay slot, 2, is a plain instruction:
\* a single step over it leaves the taken branch pending;  3: exit.
SlotText == 0 :> [op |-> "plain", to |-> 0] @@ 1 :> [op |-> "cond", to |-> 0]
         @@ 2 :> [op |-> "plain", to |-> 0] @@ 3 :> [op |-> "exit", to |-> 0]

=============================================================================
