-------------------------------- MODULE Mips --------------------------------
(***************************************************************************)
(* Guest code as the interpreters see it: what an instruction does to the  *)
(* registers and where it transfers control to, after its delay slot.      *)
(* Addresses count instructions.  The registers are those that calls, the  *)
(* system call and the exit use; all computation is "set".                 *)
(***************************************************************************)
EXTENDS Integers

CONSTANTS
  N,          \* the instructions of a program; its end runs on at its start
  Programs,
  Answers     \* what a system call may return

Pcs == 0..N-1
Regs == {"v0", "a1", "ra"}
Succ(p) == (p + 1) % N

Jumps == {"j", "jal", "jr", "jalr"}
Transfers == Jumps \cup {"beqz"}
Straight == {"set", "nop"}
Instr == [op : Transfers \cup Straight \cup {"syscall", "exit"}, r : Regs, v : Pcs]

\* Compiled code: a delay slot holds straight-line code, and not an
\* instruction that changes the register its jump goes by.
WellFormed(p) ==
  \A i \in Pcs : p[i].op \in Transfers =>
    LET slot == p[Succ(i)] IN
    /\ slot.op \in Straight
    /\ p[i].op \in {"jr", "jalr"} /\ slot.op = "set" => slot.r # p[i].r
    /\ p[i].op = "jalr" => p[i].r # "ra"

ASSUME ProgramsAssumption ==
  /\ N \in Nat \ {0} /\ Answers \subseteq Pcs
  /\ \A p \in Programs : /\ p \in [Pcs -> Instr] /\ WellFormed(p)
                         /\ \E i \in Pcs : p[i].op \in Jumps

\* straight-line code and system calls
Results(i, regs) ==
  CASE i.op = "set"     -> {[regs EXCEPT ![i.r] = i.v]}
    [] i.op = "syscall" -> {[regs EXCEPT !["v0"] = x] : x \in Answers}
    [] OTHER            -> {regs}

Taken(i, regs) == i.op \in Jumps \/ regs[i.r] = 0
Target(i, regs) == IF i.op \in {"jr", "jalr"} THEN regs[i.r] ELSE i.v
After(p, i, regs) == IF Taken(i, regs) THEN Target(i, regs) ELSE Succ(Succ(p))
Called(p, i, regs) ==
  IF i.op \in {"jal", "jalr"} THEN [regs EXCEPT !["ra"] = Succ(Succ(p))] ELSE regs
=============================================================================
