------------------------------ MODULE GuestCpu ------------------------------
(***************************************************************************)
(* The guest machine as the debug interpreter drives it                    *)
(* (src/emulator/cpu_debug.c): the program counter, the branch that waits  *)
(* for its delay slot, and one call of tcm_exec_instruction.               *)
(*                                                                         *)
(* An address is the index of an instruction word.  Registers and memory   *)
(* are abstracted: an instruction is only what it does to control.         *)
(*   plain  anything that falls through, unknown opcodes included          *)
(*   jump   a branch that is taken (j, jal, jr, jalr)                      *)
(*   cond   a branch whose condition is not modelled (beq, bltz, ...)      *)
(*   trap   BREAK with a code other than 0x3ff                             *)
(*   exit   BREAK 0x3ff                                                    *)
(***************************************************************************)
EXTENDS Naturals

CONSTANTS
    CodeSize,   \* instruction words of the guest's text; addresses wrap at it
    Program     \* the guest's text

Addr == 0 .. CodeSize - 1

Ops == {"plain", "jump", "cond", "trap", "exit"}

Instr == [op : Ops, to : Addr]

ASSUME CodeSizeAssumption == CodeSize \in Nat \ {0}
ASSUME ProgramAssumption == Program \in [Addr -> Instr]

\* The control part of MIPS_CPU: PC, pending_branch, pending_branch_target and
\* branch_delay_slot.
Guest == [pc : Addr, pend : BOOLEAN, tgt : Addr, slot : BOOLEAN]

\* memset(&g_debug_cpu, 0, sizeof(MIPS_CPU))
ResetGuest == [pc |-> 0, pend |-> FALSE, tgt |-> 0, slot |-> FALSE]

\* Mutant: the address runs past the end of the text.
SuccNoWrap(a) == a + 1
Succ(a) == (a + 1) % CodeSize

\* tcm_resolve_pending_branch: a taken branch lands in PC once its delay slot
\* has retired.
Resolve(g) ==
    IF g.pend /\ ~g.slot
    THEN [g EXCEPT !.pc = g.tgt, !.pend = FALSE]
    ELSE g

\* The instruction the next tcm_exec_instruction fetches.
NextPc(g) == Resolve(g).pc
Fetched(g) == Program[NextPc(g)]

\* Past any instruction that is no branch, or that sits in a delay slot, where
\* every branch handler returns pc + 4 and does nothing else.
FallThrough(r) == [r EXCEPT !.pc = Succ(r.pc), !.slot = FALSE]

\* A branch outside a delay slot: its slot is next, whether it is taken or not.
Taken(r, to) ==
    [r EXCEPT !.pc = Succ(r.pc), !.pend = TRUE, !.tgt = to, !.slot = TRUE]
NotTaken(r) == [r EXCEPT !.pc = Succ(r.pc), !.slot = TRUE]

\* tcm_exec_instruction: the states it may leave the guest in.
Exec(g) ==
    LET r == Resolve(g)
        i == Fetched(g)
    IN  IF r.slot THEN {FallThrough(r)}
        ELSE CASE i.op = "jump" -> {Taken(r, i.to)}
               [] i.op = "cond" -> {Taken(r, i.to), NotTaken(r)}
               [] OTHER         -> {FallThrough(r)}
=============================================================================
