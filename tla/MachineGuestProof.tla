-------------------------- MODULE MachineGuestProof --------------------------
(***************************************************************************)
(* What the engines make of the guest, for every well-formed program and   *)
(* all limits: they execute it as GuestRun defines, and the JIT's counts   *)
(* of executed instructions are exact.                                     *)
(***************************************************************************)
EXTENDS MachineProof

USE ProgramsAssumption

\* In front of a delay slot: what stands there is straight-line code that leaves
\* the register of the jump alone.
SlotOK ==
  branch.live =>
    /\ program[pc].op \in Straight
    /\ branch.by # "none" /\ program[pc].op = "set" => program[pc].r # branch.by

\* Only the JIT reads the register of a jump late.
EngineOK == engine = "fast" => branch.by = "none"

RunInv == GuestOK /\ SlotOK /\ EngineOK

\* A step that executes no instruction.
GuestRests == UNCHANGED <<program, engine, regs, pc, branch, exitCode>>

-----------------------------------------------------------------------------
\* Whoever moves, it is the engine that executes an instruction, or the guest
\* stays as it is; and the host flag only falls.
LEMMA NextShape ==
  [Next]_vars => FastStep \/ JitStep \/ (GuestRests /\ (running' => running))
<1> SUFFICES ASSUME [Next]_vars, ~FastStep, ~JitStep
             PROVE  GuestRests /\ (running' => running)
  OBVIOUS
<1> USE DEF GuestRests
<1>1. CASE JitDispatch \/ JitFails \/ JitReturns
  BY <1>1 DEF JitDispatch, JitFails, JitReturns, guestVars
<1>2. CASE CpuStarts \/ CpuEnds
  BY <1>2 DEF CpuStarts, CpuEnds, cpuVars, guestVars
<1>3. CASE MainNext
  BY <1>3 DEF MainNext, OpenWindow, RenderLoop, LoopEnds, Frame, LastFrame, HoldFrame,
     HoldEnds, StopCpu, Join, cpuVars, guestVars, Shown, Key, Broken, Closed
<1>4. CASE UNCHANGED vars
  BY <1>4 DEF vars, guestVars
<1> QED
  BY <1>1, <1>2, <1>3, <1>4 DEF Next, CpuNext, JitCpuNext, Over

\* What well-formed code has behind a transfer.
LEMMA SlotBehind ==
  ASSUME GuestOK, program[pc].op \in Transfers
  PROVE  /\ program[Succ(pc)].op \in Straight
         /\ program[pc].op \in {"jr", "jalr"} /\ program[Succ(pc)].op = "set"
              => program[Succ(pc)].r # program[pc].r
         /\ program[pc].op = "jalr" => program[pc].r # "ra"
<1>1. WellFormed(program) /\ pc \in Pcs /\ program \in [Pcs -> Instr]
  BY DEF GuestOK
<1> QED
  BY <1>1 DEF WellFormed

LEMMA FastKeeps == ASSUME RunInv, FastStep PROVE RunInv'
<1> DEFINE i == program[pc]
<1>1. program' = program /\ engine' = engine /\ (FastTransfer(i) \/ FastOther(i))
  BY DEF FastStep
<1>2. GuestOK'
  BY FastGuest DEF RunInv
<1>3. CASE FastTransfer(i)
  <2>1. branch'.by = "none" /\ pc' = Succ(pc) /\ i.op \in Transfers
    BY <1>3 DEF FastTransfer, BranchTo
  <2> QED
    BY <1>1, <1>2, <2>1, SlotBehind DEF RunInv, SlotOK, EngineOK
<1>4. CASE FastOther(i)
  BY <1>1, <1>2, <1>4 DEF FastOther, NoBranch, RunInv, SlotOK, EngineOK
<1> QED
  BY <1>1, <1>3, <1>4

LEMMA JitKeeps == ASSUME RunInv, JitStep PROVE RunInv'
<1> DEFINE i == program[pc]
<1>1. /\ program' = program /\ engine' = engine /\ engine # "fast"
      /\ JitStraight(i) \/ JitTransfer(i) \/ JitSlot(i) \/ JitExit(i)
  BY DEF JitStep, JitTick
<1>2. GuestOK' /\ EngineOK'
  BY <1>1, JitGuest DEF RunInv, EngineOK
<1>3. CASE JitTransfer(i)
  <2>1. /\ branch'.by = IF i.op \in {"jr", "jalr"} THEN i.r ELSE "none"
        /\ pc' = Succ(pc) /\ i.op \in Transfers
    BY <1>3 DEF JitTransfer, BranchTo, BranchBy
  <2> QED
    BY <1>1, <1>2, <2>1, SlotBehind DEF RunInv, SlotOK
<1>4. CASE JitStraight(i) \/ JitSlot(i) \/ JitExit(i)
  <2>1. ~branch'.live
    BY <1>4 DEF JitStraight, JitSlot, JitExit, NoBranch
  <2> QED
    BY <1>2, <2>1 DEF RunInv, SlotOK
<1> QED
  BY <1>1, <1>3, <1>4

LEMMA RunKept == RunInv /\ [Next]_vars => RunInv'
<1>1. RunInv /\ GuestRests => RunInv'
  BY DEF RunInv, GuestRests, GuestOK, SlotOK, EngineOK
<1> QED
  BY <1>1, FastKeeps, JitKeeps, NextShape

LEMMA RunInit == Init => RunInv
BY SuccInPcs DEF Init, RunInv, GuestOK, SlotOK, EngineOK, NoBranch
-----------------------------------------------------------------------------
\* The address after the next instruction, as GuestRun knows it.
NextPc == IF ~branch.live THEN Succ(pc)
          ELSE IF branch.by = "none" THEN branch.to ELSE regs[branch.by]

\* The abstract specification has the same operators under its own names.
LEMMA SameOperators ==
  /\ Guest!Pcs = Pcs /\ Guest!Regs = Regs /\ Guest!Transfers = Transfers
  /\ \A p : Guest!Succ(p) = Succ(p)
  /\ \A i, r : Guest!Results(i, r) = Results(i, r)
  /\ \A p, i, r : Guest!After(p, i, r) = After(p, i, r) /\ Guest!Called(p, i, r) = Called(p, i, r)
BY DEF Guest!Pcs, Guest!Regs, Guest!Transfers, Guest!Jumps, Guest!Succ, Guest!Results,
       Guest!Called, Guest!After, Guest!Taken, Guest!Target,
       Pcs, Regs, Transfers, Jumps, Succ, Results, Called, After, Taken, Target

\* One instruction: the guest goes to the address that was known before, and the
\* one after that is what the instruction says.
Retires ==
  LET i == program[pc] IN
  /\ i.op # "exit" /\ pc' = NextPc
  /\ IF i.op \in Transfers
     THEN NextPc' = After(pc, i, regs) /\ regs' = Called(pc, i, regs)
     ELSE NextPc' = Succ(NextPc) /\ regs' \in Results(i, regs)
  /\ UNCHANGED <<exitCode, running>>

Exits ==
  /\ program[pc].op = "exit"
  /\ IF running THEN exitCode' = regs["a1"] /\ ~running' ELSE UNCHANGED <<exitCode, running>>
  /\ regs' = regs

LEMMA FastExecutes == ASSUME RunInv, FastStep PROVE Retires \/ Exits
<1> DEFINE i == program[pc]
<1>1. (FastTransfer(i) \/ FastOther(i)) /\ branch.by = "none"
  BY DEF FastStep, RunInv, EngineOK
<1>2. i.op # "exit" \/ i.op \notin Transfers \cup Straight
  BY DEF Transfers, Jumps, Straight
<1>3. CASE FastTransfer(i)
  <2>1. /\ branch'.live /\ branch'.by = "none" /\ branch'.to = After(pc, i, regs)
        /\ i.op \in Transfers /\ i.op # "exit" /\ ~branch.live
    BY <1>2, <1>3 DEF FastTransfer, BranchTo
  <2> QED
    BY <1>3, <2>1 DEF FastTransfer, Retires, NextPc
<1>4. CASE FastOther(i)
  <2>1. i.op \notin Transfers /\ (branch.live => i.op # "exit")
    BY <1>4 DEF FastOther, RunInv, SlotOK, Straight, Transfers, Jumps
  <2>2. ~branch'.live /\ pc' = NextPc /\ NextPc' = Succ(NextPc) /\ regs' \in Results(i, regs)
    BY <1>1, <1>4 DEF FastOther, NextPc, NoBranch
  <2>3. CASE i.op = "exit"
    <3>1. regs' = regs
      BY <2>2, <2>3 DEF Results
    <3> QED
      BY <1>4, <2>3, <3>1 DEF FastOther, Exits
  <2>4. CASE i.op # "exit"
    BY <1>4, <2>1, <2>2, <2>4 DEF FastOther, Retires
  <2> QED
    BY <2>3, <2>4
<1> QED
  BY <1>1, <1>3, <1>4

LEMMA JitExecutes == ASSUME RunInv, JitStep PROVE Retires \/ Exits
<1> DEFINE i == program[pc]
<1>1. JitStraight(i) \/ JitTransfer(i) \/ JitSlot(i) \/ JitExit(i)
  BY DEF JitStep
<1>2. i \in Instr /\ i.r \in Regs /\ regs \in [Regs -> Pcs]
  BY ProgramOK DEF RunInv, GuestOK
<1>3. CASE JitStraight(i)
  <2>1. i.op \notin Transfers /\ i.op # "exit" /\ branch' = branch /\ ~branch.live
    BY <1>3 DEF JitStraight, Straight, Transfers, Jumps
  <2> QED
    BY <1>3, <2>1 DEF JitStraight, Retires, NextPc
<1>4. CASE JitTransfer(i)
  <2>1. i.op \in Transfers /\ i.op # "exit" /\ ~branch.live /\ pc' = Succ(pc)
        /\ regs' = Called(pc, i, regs)
    BY <1>4 DEF JitTransfer, Transfers, Jumps
  <2>2. CASE i.op \in {"jr", "jalr"}
    <3>1. branch'.live /\ branch'.by = i.r /\ i.r # "none"
      BY <1>2, <1>4, <2>2 DEF JitTransfer, BranchBy, Regs
    <3>2. regs'[i.r] = regs[i.r]
      BY <1>2, <2>1, <2>2, SlotBehind DEF RunInv, Called
    <3>3. After(pc, i, regs) = regs[i.r]
      BY <2>2 DEF After, Taken, Target, Jumps
    <3> QED
      BY <1>4, <2>1, <3>1, <3>2, <3>3 DEF JitTransfer, Retires, NextPc
  <2>3. CASE i.op \notin {"jr", "jalr"}
    <3>1. branch'.live /\ branch'.by = "none" /\ branch'.to = After(pc, i, regs)
      BY <1>4, <2>3 DEF JitTransfer, BranchTo
    <3> QED
      BY <1>4, <2>1, <3>1 DEF JitTransfer, Retires, NextPc
  <2> QED
    BY <2>2, <2>3
<1>5. CASE JitSlot(i)
  <2>1. /\ i.op \in Straight /\ i.op \notin Transfers /\ i.op # "exit"
        /\ branch.by # "none" /\ i.op = "set" => i.r # branch.by
    BY <1>5 DEF JitSlot, RunInv, SlotOK, Straight, Transfers, Jumps
  <2>2. regs' \in Results(i, regs) /\ ~branch'.live
    BY <1>5, <2>1 DEF JitSlot, NoBranch
  <2>3. branch.by # "none" => branch.by \in Regs /\ regs'[branch.by] = regs[branch.by]
    BY <1>2, <2>1, <2>2 DEF Results, Straight, RunInv, GuestOK
  <2>4. pc' = NextPc /\ NextPc' = Succ(NextPc)
    BY <1>5, <2>2, <2>3 DEF JitSlot, NextPc
  <2> QED
    BY <1>5, <2>1, <2>2, <2>4 DEF JitSlot, Retires
<1>6. CASE JitExit(i)
  BY <1>6 DEF JitExit, Exits
<1> QED
  BY <1>1, <1>3, <1>4, <1>5, <1>6

LEMMA GuestStep ==
  ASSUME RunInv, [Next]_vars
  PROVE  [Guest!Next]_(Guest!vars)
<1> USE DEF Guest!Next, Guest!vars
<1>1. program' = program
  BY NextShape DEF FastStep, JitStep, GuestRests
<1>2. CASE Retires
  <2>1. CASE running
    BY <1>1, <1>2, <2>1, SameOperators DEF Retires, NextPc, Guest!Step
  <2>2. CASE ~running
    BY <1>1, <1>2, <2>2 DEF Retires, Guest!Stopped
  <2> QED
    BY <2>1, <2>2
<1>3. CASE Exits
  BY <1>1, <1>3 DEF Exits, Guest!Exit, Guest!Stopped
<1>4. CASE GuestRests /\ (running' => running)
  BY <1>4 DEF GuestRests, Guest!HostStops
<1> QED
  BY <1>2, <1>3, <1>4, NextShape, FastExecutes, JitExecutes

(***************************************************************************)
(* Both engines execute every well-formed program as the architecture      *)
(* defines it, one instruction after the other with their delay slots,     *)
(* wherever the JIT cuts and patches and whenever the host is stopped.     *)
(***************************************************************************)
THEOREM EnginesExecuteProgram == Spec => ExecutesProgram
<1>1. Init => Guest!Init
  BY SameOperators DEF Init, Guest!Init, NoBranch
<1> QED
  BY <1>1, RunInit, RunKept, GuestStep, PTL DEF Spec, ExecutesProgram, Guest!Spec
-----------------------------------------------------------------------------
(***************************************************************************)
(* The count.                                                              *)
(***************************************************************************)

LEMMA ModInPcs == (\A k \in Int : k % N \in Pcs) /\ 0 % N = 0
BY DEF Pcs

LEMMA PcsDiffer == \A p, q \in Pcs : p - q \in Int /\ p - p = 0
BY DEF Pcs

LEMMA SuccIs == \A p \in Pcs : Succ(p) = IF p = N - 1 THEN 0 ELSE p + 1
BY DEF Pcs, Succ

LEMMA PrefixIs ==
  ASSUME bb \in Pcs
  PROVE  \A p \in Pcs : Prefix(p) = IF p >= bb THEN p - bb ELSE p - bb + N
BY DEF Pcs, Prefix

\* from a delay slot back to its transfer
LEMMA Before == \A p \in Pcs : (Succ(p) - 1) % N = p
<1> SUFFICES ASSUME NEW p \in Pcs PROVE (Succ(p) - 1) % N = p
  OBVIOUS
<1>1. CASE p = N - 1
  <2>1. (0 - 1) % N = N - 1
    OBVIOUS
  <2> QED
    BY <1>1, <2>1, SuccIs
<1>2. CASE p # N - 1
  <2>1. Succ(p) - 1 = p /\ p \in 0..N-1
    BY <1>2, SuccIs DEF Pcs
  <2>2. p % N = p
    BY <2>1
  <2> QED
    BY <2>1, <2>2
<1> QED
  BY <1>1, <1>2

\* In translated code, the instructions of the basic block have been executed up
\* to the next one, and no transfer was among them.
Straightaway ==
  /\ owed = Prefix(pc)
  /\ \A p \in Pcs : Prefix(p) < owed => program[p].op \notin Transfers

CountInv ==
  /\ owed \in Nat /\ bb \in Pcs
  /\ thread \in {"left", "finished"} => owed = 0
  /\ engine = "jit" =>
       /\ unit = NoUnit => owed = 0 /\ ~branch.live
       /\ unit # NoUnit /\ ~branch.live => Straightaway
       /\ unit # NoUnit /\ branch.live => \E p \in Pcs : pc = Succ(p) /\ owed = Prefix(p) + 1

\* Some transfer ends the basic block before it has gone round the program.
LEMMA NoRound ==
  ASSUME GuestOK, bb \in Pcs, Straightaway, program[pc].op \notin Transfers
  PROVE  Succ(pc) # bb /\ Prefix(Succ(pc)) = Prefix(pc) + 1
<1>1. pc \in Pcs /\ Succ(pc) \in Pcs
  BY SuccInPcs DEF GuestOK
<1>2. ASSUME Succ(pc) = bb PROVE FALSE
  <2>1. Prefix(pc) = N - 1
    <3>1. Prefix(pc) = IF pc >= bb THEN pc - bb ELSE pc - bb + N
      BY <1>1, PrefixIs
    <3>2. bb = IF pc = N - 1 THEN 0 ELSE pc + 1
      BY <1>1, <1>2, SuccIs
    <3> QED
      BY <1>1, <3>1, <3>2 DEF Pcs
  <2>2. \A p \in Pcs : Prefix(p) < N - 1 \/ p = pc
    BY <1>1, <2>1, PrefixIs DEF Pcs
  <2>3. PICK p \in Pcs : program[p].op \in Jumps
    BY DEF GuestOK
  <2> QED
    BY <2>1, <2>2, <2>3 DEF Straightaway, Transfers
<1>3. /\ Prefix(pc) = IF pc >= bb THEN pc - bb ELSE pc - bb + N
      /\ Prefix(Succ(pc)) = IF Succ(pc) >= bb THEN Succ(pc) - bb ELSE Succ(pc) - bb + N
      /\ Succ(pc) = IF pc = N - 1 THEN 0 ELSE pc + 1
  BY <1>1, PrefixIs, SuccIs
<1>4. pc \in 0..N-1 /\ bb \in 0..N-1 /\ Succ(pc) \in 0..N-1
  BY <1>1 DEF Pcs
<1> QED
  BY <1>2, <1>3, <1>4

LEMMA JitCounts == ASSUME RunInv, CountInv, JitStep PROVE CountInv'
<1> DEFINE i == program[pc]
<1>1. /\ JitStraight(i) \/ JitTransfer(i) \/ JitSlot(i) \/ JitExit(i)
      /\ engine = "jit" /\ unit # NoUnit /\ thread = "executing"
      /\ UNCHANGED <<program, engine, thread>>
  BY DEF JitStep, JitTick
<1>2. owed \in Nat /\ bb \in Pcs /\ pc \in Pcs /\ pc' \in Pcs
  BY <1>1, JitGuest DEF CountInv, RunInv, GuestOK
<1>3. CASE JitStraight(i)
  <2>1. /\ ~branch.live /\ ~branch'.live /\ pc' = Succ(pc) /\ i.op \notin Transfers
        /\ Straightaway /\ bb' = bb
    BY <1>1, <1>3 DEF JitStraight, CountInv, Dispatcher, Straight, Transfers, Jumps
  <2>2. Prefix(pc') = owed + 1 /\ owed = Prefix(pc)
    BY <1>2, <2>1, NoRound DEF RunInv, Straightaway
  <2>3. CASE unit.kind = "block" /\ Prefix(pc) + 1 >= BlockLimit
    <3>1. owed' = 0 /\ unit' = NoUnit
      BY <1>2, <1>3, <2>2, <2>3 DEF JitStraight, Dispatcher
    <3> QED
      BY <1>1, <1>2, <2>1, <3>1 DEF CountInv
  <2>4. CASE ~(unit.kind = "block" /\ Prefix(pc) + 1 >= BlockLimit)
    <3>1. owed' = owed + 1 /\ unit' = unit
      BY <1>3, <2>4 DEF JitStraight
    <3>2. \A p \in Pcs : Prefix(p)' = Prefix(p)
      BY <2>1 DEF Prefix
    <3>3. \A p \in Pcs : Prefix(p) < owed + 1 => Prefix(p) < owed \/ p = pc
      BY <1>2, <2>2, PrefixIs DEF Pcs
    <3>4. Prefix(pc)' = owed'
      BY <2>1, <2>2, <3>1 DEF Prefix
    <3>5. Straightaway'
      BY <1>1, <2>1, <3>1, <3>2, <3>3, <3>4 DEF Straightaway
    <3> QED
      BY <1>1, <1>2, <2>1, <3>1, <3>5 DEF CountInv
  <2> QED
    BY <2>3, <2>4
<1>4. CASE JitTransfer(i)
  <2>1. /\ ~branch.live /\ branch'.live /\ pc' = Succ(pc) /\ owed' = owed + 1
        /\ bb' = bb /\ unit' = unit
    BY <1>4 DEF JitTransfer, BranchTo, BranchBy
  <2>2. owed = Prefix(pc)
    BY <1>1, <2>1 DEF CountInv, Straightaway
  <2>3. pc' = Succ(pc) /\ owed' = ((pc - bb') % N) + 1
    BY <2>1, <2>2 DEF Prefix
  <2> QED
    BY <1>1, <1>2, <2>1, <2>3 DEF CountInv, Prefix
<1>5. CASE JitSlot(i)
  <2>1. PICK p \in Pcs : pc = Succ(p) /\ owed = Prefix(p) + 1
    BY <1>1, <1>5 DEF JitSlot, CountInv
  <2>2. owed' = owed + 1 - (Prefix(p) + 2)
    BY <1>5, <2>1, Before DEF JitSlot, EdgeCount
  <2>3. owed' = 0 /\ ~branch'.live
    <3>1. Prefix(p) \in Int
      BY <1>2, ModInPcs DEF Prefix, Pcs
    <3>2. owed' = 0
      BY <2>1, <2>2, <3>1
    <3> QED
      BY <1>5, <3>2 DEF JitSlot, NoBranch
  <2>4. (bb' = bb /\ unit' = NoUnit) \/ bb' = pc'
    BY <1>5 DEF JitSlot, Leave, Dispatcher
  <2>5. bb' = pc' => Straightaway'
    <3>0. pc' - pc' = 0 /\ \A p1 \in Pcs : p1 - pc' \in Int
      BY <1>2, PcsDiffer
    <3>1. bb' = pc' => Prefix(pc)' = 0
      BY <3>0, ModInPcs DEF Prefix
    <3>2. bb' = pc' => \A p1 \in Pcs : ~(Prefix(p1)' < 0)
      <4>1. \A p1 \in Pcs : (p1 - pc') % N \in Pcs
        BY <3>0, ModInPcs
      <4> QED
        BY <4>1 DEF Prefix, Pcs
    <3> QED
      BY <2>3, <3>1, <3>2 DEF Straightaway
  <2> QED
    BY <1>1, <1>2, <2>3, <2>4, <2>5 DEF CountInv
<1>6. CASE JitExit(i)
  <2>1. ~branch.live /\ ~branch'.live /\ unit' = NoUnit /\ bb' = bb /\ Straightaway
    BY <1>1, <1>6 DEF JitExit, Dispatcher, CountInv
  <2>2. owed' = 0
    BY <1>2, <1>6, <2>1 DEF JitExit, Straightaway
  <2> QED
    BY <1>1, <1>2, <2>1, <2>2 DEF CountInv
<1> QED
  BY <1>1, <1>3, <1>4, <1>5, <1>6

LEMMA FastCounts == ASSUME CountInv, FastStep PROVE CountInv'
<1>1. /\ engine = "fast" /\ thread = "executing" /\ owed \in Nat /\ bb \in Pcs
      /\ UNCHANGED <<engine, bb>>
  BY DEF FastStep, CountInv, jitVars
<1>2. owed' = 0 \/ (owed' = owed + 1 /\ thread' = thread)
  BY DEF FastStep, Counted
<1> QED
  BY <1>1, <1>2 DEF CountInv

LEMMA NextCounts == RunInv /\ CountInv /\ [Next]_vars => CountInv'
<1> SUFFICES ASSUME RunInv, CountInv, [Next]_vars PROVE CountInv'
  OBVIOUS
<1>1. CASE FastStep
  BY <1>1, FastCounts
<1>2. CASE JitStep
  BY <1>2, JitCounts
<1>3. CASE JitDispatch
  <2>1. /\ owed = 0 /\ ~branch.live /\ bb' = pc /\ pc \in Pcs
        /\ UNCHANGED <<program, engine, thread, regs, pc, branch, owed>>
    BY <1>3 DEF JitDispatch, JitTick, Enter, CountInv, RunInv, GuestOK, guestVars
  <2>2. Prefix(pc)' = 0 /\ \A p \in Pcs : ~(Prefix(p)' < 0)
    <3>1. pc - pc = 0 /\ \A p \in Pcs : p - pc \in Int
      BY <2>1, PcsDiffer
    <3>2. \A p \in Pcs : (p - pc) % N \in Pcs
      BY <3>1, ModInPcs
    <3>3. (pc - pc) % N = 0
      BY <3>1, ModInPcs
    <3> QED
      BY <2>1, <3>2, <3>3 DEF Prefix, Pcs
  <2>3. Straightaway'
    BY <2>1, <2>2 DEF Straightaway
  <2>4. engine = "jit" /\ thread = "executing"
    BY <1>3 DEF JitDispatch, JitTick
  <2> QED
    BY <2>1, <2>3, <2>4 DEF CountInv
<1>4. CASE JitFails \/ JitReturns
  <2>1. UNCHANGED <<program, engine, pc, branch, owed, unit, bb>> /\ engine = "jit" /\ unit = NoUnit
    BY <1>4 DEF JitFails, JitReturns, JitTick, guestVars
  <2> QED
    BY <2>1 DEF CountInv
<1>5. CASE CpuStarts \/ CpuEnds
  <2>1. /\ UNCHANGED <<program, engine, pc, branch, owed, unit, bb>>
        /\ thread' = "executing" \/ thread = "left"
    BY <1>5 DEF CpuStarts, CpuEnds, cpuVars, guestVars, jitVars
  <2> QED
    BY <2>1 DEF CountInv, Straightaway, Prefix
<1>6. CASE MainNext
  <2>1. UNCHANGED <<program, engine, thread, pc, branch, owed, unit, bb>>
    BY <1>6 DEF MainNext, OpenWindow, RenderLoop, LoopEnds, Frame, LastFrame, HoldFrame,
       HoldEnds, StopCpu, Join, cpuVars, guestVars, jitVars
  <2> QED
    BY <2>1 DEF CountInv, Straightaway, Prefix
<1>7. CASE UNCHANGED vars
  BY <1>7 DEF vars, guestVars, jitVars, CountInv, Straightaway, Prefix
<1> QED
  BY <1>1, <1>2, <1>3, <1>4, <1>5, <1>6, <1>7 DEF Next, CpuNext, JitCpuNext, Over

(***************************************************************************)
(* For every program and all limits, what the JIT adds to the counter on   *)
(* the edges between basic blocks is what has been executed, and the total *)
(* that either engine reports at its end is exact.                         *)
(***************************************************************************)
THEOREM CountsAreExact == Spec => []CountExact
<1>1. Init => CountInv
  BY SuccInPcs DEF Init, CountInv, NoBranch
<1>2. CountInv => CountExact
  BY DEF CountInv, CountExact
<1> QED
  BY <1>1, <1>2, RunInit, RunKept, NextCounts, PTL DEF Spec
-----------------------------------------------------------------------------
(***************************************************************************)
(* Types.                                                                  *)
(***************************************************************************)

\* What the invariants above do not say of the types.
FlagsOK ==
  /\ engine \in {"fast", "jit"} /\ hold \in BOOLEAN
  /\ thread \in {"new", "executing", "left", "finished"}
  /\ running \in BOOLEAN /\ gone \in BOOLEAN /\ dismiss \in BOOLEAN /\ jitOn \in BOOLEAN
  /\ exitCode \in Pcs /\ result \in Pcs /\ tick \in 0..CheckInterval-1
  /\ unit \in [kind : {"none", "block", "func"}, entry : Pcs]
  /\ main \in {"open", "loop", "frame", "last", "hold", "stop", "join", "returned"}

LEMMA CpuFlags ==
  ASSUME RunInv, LinkInv, FlagsOK, FastStep \/ JitStep
  PROVE  FlagsOK'
<1> DEFINE i == program[pc]
<1>1. regs["a1"] \in Pcs /\ pc \in Pcs /\ NoUnit \in [kind : {"none", "block", "func"}, entry : Pcs]
  BY SuccInPcs DEF RunInv, GuestOK, Regs, NoUnit
<1>2. CASE FastStep
  <2>1. tick' \in 0..CheckInterval-1
    <3>1. tick + 1 \in Nat /\ tick' = (tick + 1) % CheckInterval
      BY <1>2, LimitsAssumption DEF FastStep, Counted, FlagsOK
    <3> QED
      BY <3>1, LimitsAssumption
  <2>2. thread' \in {thread, "left"}
    BY <1>2 DEF FastStep, Counted
  <2>3. exitCode' \in Pcs /\ running' \in BOOLEAN
    BY <1>1, <1>2 DEF FastStep, FastTransfer, FastOther, FlagsOK
  <2>4. UNCHANGED <<engine, jitOn, unit, main, hold, dismiss, result, gone>>
    BY <1>2 DEF FastStep, jitVars, hostVars
  <2> QED
    BY <1>1, <2>1, <2>2, <2>3, <2>4 DEF FlagsOK
<1>3. CASE JitStep
  <2>1. JitStraight(i) \/ JitTransfer(i) \/ JitSlot(i) \/ JitExit(i)
    BY <1>3 DEF JitStep
  <2>2. pc' \in Pcs
    BY <1>3, JitGuest DEF RunInv, GuestOK
  <2>3. exitCode' \in Pcs /\ running' \in BOOLEAN /\ jitOn' \in BOOLEAN
    BY <1>1, <2>1 DEF JitStraight, JitTransfer, JitSlot, JitExit, FlagsOK
  <2>4. unit' \in {unit, NoUnit, [kind |-> table[pc'], entry |-> pc']}
    BY <2>1 DEF JitStraight, JitTransfer, JitSlot, JitExit, Leave, Dispatcher
  <2>5. UNCHANGED <<engine, thread, tick, main, hold, dismiss, result, gone>>
    BY <1>3 DEF JitStep, hostVars
  <2>6. [kind |-> table[pc'], entry |-> pc'] \in [kind : {"none", "block", "func"}, entry : Pcs]
    BY <2>2 DEF LinkInv
  <2> QED
    BY <1>1, <2>3, <2>4, <2>5, <2>6 DEF FlagsOK
<1> QED
  BY <1>2, <1>3

LEMMA NextFlags == RunInv /\ LinkInv /\ LinkInv' /\ FlagsOK /\ [Next]_vars => FlagsOK'
<1> SUFFICES ASSUME RunInv, LinkInv, LinkInv', FlagsOK, [Next]_vars PROVE FlagsOK'
  OBVIOUS
<1>1. CASE FastStep \/ JitStep
  BY <1>1, CpuFlags
<1>2. CASE JitDispatch
  <2>1. unit' = [kind |-> table'[pc], entry |-> pc] /\ pc \in Pcs
        /\ UNCHANGED <<engine, thread, running, exitCode, tick, jitOn, main, hold, dismiss,
                       result, gone>>
    BY <1>2 DEF JitDispatch, Enter, RunInv, GuestOK, hostVars
  <2> QED
    BY <2>1 DEF LinkInv, FlagsOK
<1>3. CASE JitFails \/ JitReturns
  BY <1>3, ZenonT(40) DEF JitFails, JitReturns, FlagsOK, hostVars
<1>4. CASE CpuStarts \/ CpuEnds
  BY <1>4 DEF CpuStarts, CpuEnds, FlagsOK, cpuVars, hostVars, jitVars
<1>5. CASE MainNext
  <2>1. UNCHANGED <<engine, thread, tick, jitOn, unit, exitCode, hold, result>>
    BY <1>5 DEF MainNext, OpenWindow, RenderLoop, LoopEnds, Frame, LastFrame, HoldFrame,
       HoldEnds, StopCpu, Join, cpuVars, jitVars, Goto
  <2>2. main' \in {"loop", "frame", "last", "hold", "stop", "join", "returned"}
    BY <1>5 DEF MainNext, OpenWindow, RenderLoop, LoopEnds, Frame, LastFrame, HoldFrame,
       HoldEnds, StopCpu, Join, Goto
  <2>3. running' \in BOOLEAN /\ gone' \in BOOLEAN /\ dismiss' \in BOOLEAN
    BY <1>5 DEF MainNext, OpenWindow, RenderLoop, LoopEnds, Frame, LastFrame, HoldFrame,
       HoldEnds, StopCpu, Join, Shown, Key, Broken, Closed, FlagsOK
  <2> QED
    BY <2>1, <2>2, <2>3 DEF FlagsOK
<1>6. CASE UNCHANGED vars
  BY <1>6 DEF vars, jitVars, hostVars, FlagsOK
<1> QED
  BY <1>1, <1>2, <1>3, <1>4, <1>5, <1>6 DEF Next, CpuNext, JitCpuNext, Over

(***************************************************************************)
(* Every variable of the machine keeps its type: addresses stay in the     *)
(* program, and tables, links and counts are what the code declares.       *)
(***************************************************************************)
THEOREM MachineTypes == Spec => []TypeOK
<1>1. Init => CountInv /\ LinkInv
  BY SuccInPcs DEF Init, CountInv, NoBranch, LinkInv
<1>0. Init => FlagsOK
  <2> SUFFICES ASSUME Init PROVE FlagsOK
    OBVIOUS
  <2>1. tick \in 0..CheckInterval-1
    BY LimitsAssumption DEF Init
  <2>2. unit \in [kind : {"none", "block", "func"}, entry : Pcs]
    BY SuccInPcs DEF Init, NoUnit
  <2>3. running \in BOOLEAN /\ gone \in BOOLEAN /\ dismiss \in BOOLEAN /\ jitOn \in BOOLEAN
    BY DEF Init
  <2>4. /\ engine \in {"fast", "jit"} /\ hold \in BOOLEAN /\ exitCode \in Pcs /\ result \in Pcs
        /\ thread = "new" /\ main = "open"
    BY SuccInPcs DEF Init
  <2> QED
    BY <2>1, <2>2, <2>3, <2>4 DEF FlagsOK
<1>2. RunInv /\ CountInv /\ LinkInv /\ FlagsOK => TypeOK
  BY DEF RunInv, GuestOK, CountInv, LinkInv, FlagsOK, TypeOK
<1>3. RunInv /\ LinkInv /\ [Next]_vars => LinkInv'
  BY NextLinks DEF RunInv
<1> QED
  BY <1>0, <1>1, <1>2, <1>3, RunInit, RunKept, NextCounts, NextFlags, PTL DEF Spec
=============================================================================
