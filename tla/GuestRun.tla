------------------------------ MODULE GuestRun ------------------------------
(***************************************************************************)
(* A run of a guest program as the architecture defines it: one            *)
(* instruction at a time, with the address of the one after next known     *)
(* before a delay slot is executed.  It ends when the guest exits or the   *)
(* host is told to stop; what an engine still executes then is not         *)
(* promised anything, except that the exit code stays.                     *)
(***************************************************************************)
EXTENDS Mips

VARIABLES program, pc, npc, regs, code, stopped
vars == <<program, pc, npc, regs, code, stopped>>

Init ==
  /\ program \in Programs
  /\ pc = 0 /\ npc = Succ(0)
  /\ regs = [r \in Regs |-> 0]
  /\ code = 0 /\ stopped = FALSE

Step ==
  LET i == program[pc] IN
  /\ ~stopped /\ i.op # "exit"
  /\ pc' = npc
  /\ IF i.op \in Transfers
     THEN npc' = After(pc, i, regs) /\ regs' = Called(pc, i, regs)
     ELSE npc' = Succ(npc) /\ regs' \in Results(i, regs)
  /\ UNCHANGED <<program, code, stopped>>

Exit ==
  /\ ~stopped /\ program[pc].op = "exit"
  /\ stopped' = TRUE /\ code' = regs["a1"]
  /\ UNCHANGED <<program, regs>>

HostStops == stopped' = TRUE /\ UNCHANGED <<program, pc, npc, regs, code>>
Stopped == stopped /\ stopped' /\ UNCHANGED <<program, code>>

Next == Step \/ Exit \/ HostStops \/ Stopped
Spec == Init /\ [][Next]_vars
=============================================================================
