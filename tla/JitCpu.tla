------------------------------- MODULE JitCpu -------------------------------
(***************************************************************************)
(* cpu_jit.c: the dispatcher, the translation of a function or of a block, *)
(* and the translated code, one guest instruction at a time.  A block      *)
(* leaves by jumps that are patched to enter the next block directly; a    *)
(* function jumps within itself and otherwise returns to the dispatcher.   *)
(***************************************************************************)
EXTENDS MachineState, FiniteSets

FuncEntries == {0} \cup {program[p].v : p \in {q \in Pcs : program[q].op = "jal"}}

\* jit_next_func_entry
FuncEnd(e) ==
  LET later == {f \in FuncEntries : f > e}
  IN  IF later = {} THEN N ELSE CHOOSE f \in later : \A g \in later : f <= g

\* the instructions from the start of the basic block up to p, p excluded
Prefix(p) == (p - bb) % N

\* the transfer that ends the block from s, if one comes before the limit
BlockExits(s) ==
  LET At(k) == (s + k) % N
      ends == {k \in 0..BlockLimit-1 : program[At(k)].op \in Transfers \cup {"exit"}}
  IN  IF ends = {} THEN {}
      ELSE LET k == CHOOSE n \in ends : \A m \in ends : n <= m
               i == program[At(k)]
           IN  CASE i.op = "beqz"         -> {At(k + 2), i.v}
                 [] i.op \in {"j", "jal"} -> {i.v}
                 [] OTHER                 -> {}

Translated(p) == table'[p] # "none"
-----------------------------------------------------------------------------
JitTick == engine = "jit" /\ thread = "executing"

Enter(p) == unit' = [kind |-> table'[p], entry |-> p] /\ bb' = p
Dispatcher == unit' = NoUnit /\ UNCHANGED bb

TranslateKeeps ==
  /\ table' \in {[table EXCEPT ![pc] = k] :
                   k \in {"block"} \cup (IF pc \in FuncEntries THEN {"func"} ELSE {})}
  /\ LET exits == IF table'[pc] = "block" THEN {<<pc, t>> : t \in BlockExits(pc)} ELSE {}
         direct == {e \in exits : Translated(e[2])}
     IN  /\ links' = links \cup direct
         /\ \E added \in SUBSET (exits \ direct) : waiting' = waiting \cup added

\* A function translation that fails falls back to a block.  The exits of a
\* new block are patched or wait, unless their registration fails; the exits
\* of others that wait for the new code are patched.
Translate ==
  /\ table' \in {[table EXCEPT ![pc] = k] :
                   k \in {"block"} \cup (IF pc \in FuncEntries THEN {"func"} ELSE {})}
  /\ LET exits == IF table'[pc] = "block" THEN {<<pc, t>> : t \in BlockExits(pc)} ELSE {}
         direct == {e \in exits : Translated(e[2])}
         woken == {e \in waiting : e[2] = pc}
     IN  /\ links' = links \cup direct \cup woken
         /\ \E added \in SUBSET (exits \ direct) :
              waiting' = (waiting \ woken) \cup added

JitDispatch ==
  /\ JitTick /\ unit = NoUnit /\ jitOn
  /\ IF table[pc] = "none" THEN Translate ELSE UNCHANGED <<table, links, waiting>>
  /\ Enter(pc)
  /\ UNCHANGED <<program, engine, thread, running, exitCode, guestVars, tick, jitOn,
                 hostVars, gone>>

\* no memory for the code: the process exits
JitFails ==
  /\ JitTick /\ unit = NoUnit /\ jitOn /\ table[pc] = "none"
  /\ running' = FALSE /\ jitOn' = FALSE /\ gone' = TRUE
  /\ UNCHANGED <<program, engine, thread, exitCode, guestVars, tick, unit, bb,
                 table, links, waiting, hostVars>>

JitReturns ==
  /\ JitTick /\ unit = NoUnit /\ ~jitOn
  /\ thread' = "left"
  /\ table' = [p \in Pcs |-> "none"] /\ links' = {} /\ waiting' = {}
  /\ UNCHANGED <<program, engine, running, exitCode, guestVars, tick, jitOn, unit, bb,
                 hostVars, gone>>
-----------------------------------------------------------------------------
\* what the native code of an edge adds: the prefix, the transfer and one
\* delay slot, on both arms of a branch
EdgeCountTwice(p) == Prefix(p) + 3
EdgeCountNoSlot(p) == Prefix(p) + 1
EdgeCount(p) == Prefix(p) + 2

JitStraight(i) ==
  /\ ~branch.live /\ i.op \in Straight \cup {"syscall"}
  /\ regs' \in Results(i, regs)
  /\ pc' = Succ(pc)
  /\ IF unit.kind = "block" /\ Prefix(pc) + 1 >= BlockLimit
     THEN owed' = owed + 1 - (Prefix(pc) + 1) /\ Dispatcher
     ELSE owed' = owed + 1 /\ UNCHANGED <<unit, bb>>
  /\ UNCHANGED <<branch, running, exitCode, jitOn>>

\* the register of a jump is read after the delay slot
JitTransfer(i) ==
  /\ ~branch.live /\ i.op \in Transfers
  /\ regs' = Called(pc, i, regs)
  /\ branch' = IF i.op \in {"jr", "jalr"} THEN BranchBy(i.r)
               ELSE BranchTo(After(pc, i, regs))
  /\ pc' = Succ(pc) /\ owed' = owed + 1
  /\ UNCHANGED <<running, exitCode, jitOn, unit, bb>>

WithinFunction(p) == unit.kind = "func" /\ p >= unit.entry /\ p < FuncEnd(unit.entry)

Leave(p) ==
  IF branch.by # "none" THEN Dispatcher
  ELSE IF WithinFunction(p) THEN bb' = p /\ UNCHANGED unit
  ELSE IF unit.kind = "block" /\ <<unit.entry, p>> \in links
       THEN unit' = [kind |-> table[p], entry |-> p] /\ bb' = p
       ELSE Dispatcher

JitSlot(i) ==
  /\ branch.live
  /\ regs' \in (IF i.op \in Straight THEN Results(i, regs) ELSE {regs})
  /\ pc' = IF branch.by = "none" THEN branch.to ELSE regs'[branch.by]
  /\ owed' = owed + 1 - EdgeCount((pc - 1) % N)
  /\ branch' = NoBranch
  /\ Leave(pc')
  /\ UNCHANGED <<running, exitCode, jitOn>>

JitExitAlways(i) ==
  /\ ~branch.live /\ i.op = "exit"
  /\ exitCode' = regs["a1"] /\ running' = FALSE /\ jitOn' = FALSE
  /\ owed' = owed + 1 - (Prefix(pc) + 1)
  /\ pc' = IF unit.kind = "block" THEN Succ(Succ(pc)) ELSE Succ(pc)
  /\ Dispatcher
  /\ UNCHANGED <<regs, branch>>

\* jit_break does nothing when the host has been stopped
JitExit(i) ==
  /\ ~branch.live /\ i.op = "exit"
  /\ IF running
     THEN exitCode' = regs["a1"] /\ running' = FALSE /\ jitOn' = FALSE
     ELSE UNCHANGED <<exitCode, running, jitOn>>
  /\ owed' = owed + 1 - (Prefix(pc) + 1)
  /\ pc' = IF unit.kind = "block" THEN Succ(Succ(pc)) ELSE Succ(pc)
  /\ Dispatcher
  /\ UNCHANGED <<regs, branch>>

JitStep ==
  /\ JitTick /\ unit # NoUnit
  /\ LET i == program[pc]
     IN  JitStraight(i) \/ JitTransfer(i) \/ JitSlot(i) \/ JitExit(i)
  /\ UNCHANGED <<program, engine, thread, tick, table, links, waiting, hostVars, gone>>

JitCpuNext == JitDispatch \/ JitFails \/ JitReturns \/ JitStep
=============================================================================
