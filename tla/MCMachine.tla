------------------------------ MODULE MCMachine ------------------------------
EXTENDS Machine, Sequences

I(op, r, v) == [op |-> op, r |-> r, v |-> v]
Nop == I("nop", "v0", 0)
Set(r, v) == I("set", r, v)
Sys == I("syscall", "v0", 0)
Beqz(to) == I("beqz", "v0", to)
J(to) == I("j", "v0", to)
Jal(to) == I("jal", "v0", to)
Jalr == I("jalr", "v0", 0)
Jr(r) == I("jr", r, 0)
Exit == I("exit", "v0", 0)

\* __shutdown: the exit is repeated for ever
Code(s) == [p \in Pcs |-> (s \o <<Set("a1", 5), Exit, J(6), Nop>>)[p + 1]]

\* Bodies of five instructions: calls, loops and indirect jumps, forwards and
\* backwards, into the middle of functions and blocks, and delay slots that
\* are also reached by a jump.
Bodies ==
  { <<a, b, c, d, e>> :
      a \in {Jal(3), Beqz(2), Jalr, Sys}, b \in {Nop, Set("v0", 3)},
      c \in {J(5), Beqz(0), Sys, Jr("v0")}, d \in {Set("v0", 1), Sys},
      e \in {Jr("ra"), Beqz(3), Jal(0), Nop} }

MCPrograms == {p \in {Code(s) : s \in Bodies} : WellFormed(p)}
=============================================================================
