---------------------------- MODULE MachineProof ----------------------------
(***************************************************************************)
(* For every program and all limits: the patched jumps of the JIT lead     *)
(* into translated code, and host_run returns the exit code of a CPU       *)
(* thread that has ended.                                                  *)
(***************************************************************************)
EXTENDS Machine, WellFoundedInduction, TLAPS

USE ProgramsAssumption

\* the guest's registers and the addresses that control may go to
GuestOK ==
  /\ program \in Programs
  /\ regs \in [Regs -> Pcs] /\ pc \in Pcs
  /\ branch \in [live : BOOLEAN, to : Pcs, by : Regs \cup {"none"}]

\* The JIT's tables.  A jump that waits belongs to a block, or it could not be
\* patched later.
LinkInv ==
  /\ table \in [Pcs -> {"none", "block", "func"}]
  /\ links \subseteq Pcs \X Pcs /\ waiting \subseteq Pcs \X Pcs
  /\ \A e \in links : table[e[2]] # "none" /\ table[e[1]] = "block"
  /\ \A e \in waiting :
       table[e[2]] = "none" /\ table[e[1]] = "block" /\ e \notin links

\* The result is fixed when the CPU thread ends.
EndInv ==
  /\ thread = "finished" => result = exitCode
  /\ main = "returned" => thread = "finished"

-----------------------------------------------------------------------------
LEMMA SuccInPcs == 0 \in Pcs /\ \A p \in Pcs : Succ(p) \in Pcs
BY DEF Succ, Pcs

LEMMA ProgramOK ==
  ASSUME NEW p \in Programs, NEW a \in Pcs
  PROVE  /\ p[a] \in Instr /\ p[a].r \in Regs /\ p[a].v \in Pcs
         /\ p[a].op \in Transfers \cup Straight \cup {"syscall", "exit"}
BY DEF Instr

LEMMA ResultsOK ==
  ASSUME NEW i \in Instr, NEW r \in [Regs -> Pcs], NEW s \in Results(i, r)
  PROVE  s \in [Regs -> Pcs]
<1>1. CASE i.op = "set"
  BY <1>1 DEF Results, Instr
<1>2. CASE i.op = "syscall"
  BY <1>2 DEF Results
<1>3. CASE i.op \notin {"set", "syscall"}
  BY <1>3 DEF Results
<1> QED
  BY <1>1, <1>2, <1>3

LEMMA TransferOK ==
  ASSUME NEW i \in Instr, NEW r \in [Regs -> Pcs], NEW p \in Pcs
  PROVE  After(p, i, r) \in Pcs /\ Called(p, i, r) \in [Regs -> Pcs]
<1>1. i.r \in Regs /\ i.v \in Pcs
  BY DEF Instr
<1>2. Target(i, r) \in Pcs
  BY <1>1 DEF Target
<1>3. Succ(Succ(p)) \in Pcs
  BY SuccInPcs
<1> QED
  BY <1>2, <1>3 DEF After, Called
-----------------------------------------------------------------------------
LEMMA FastGuest == GuestOK /\ FastStep => GuestOK'
<1> SUFFICES ASSUME GuestOK, FastStep PROVE GuestOK'
  OBVIOUS
<1> DEFINE i == program[pc]
<1>1. i \in Instr
  BY ProgramOK DEF GuestOK
<1>2. program' = program /\ (FastTransfer(i) \/ FastOther(i))
  BY DEF FastStep
<1>3. CASE FastTransfer(i)
  <2>1. After(pc, i, regs) \in Pcs /\ Called(pc, i, regs) \in [Regs -> Pcs] /\ Succ(pc) \in Pcs
    BY <1>1, TransferOK, SuccInPcs DEF GuestOK
  <2> HIDE DEF i
  <2> QED
    BY <1>2, <1>3, <2>1 DEF FastTransfer, GuestOK, BranchTo
<1>4. CASE FastOther(i)
  <2>1. regs' \in [Regs -> Pcs]
    BY <1>1, <1>4, ResultsOK DEF FastOther, GuestOK
  <2>2. Succ(pc) \in Pcs /\ 0 \in Pcs
    BY SuccInPcs DEF GuestOK
  <2> HIDE DEF i
  <2> QED
    BY <1>2, <1>4, <2>1, <2>2 DEF FastOther, GuestOK, NoBranch
<1> QED
  BY <1>2, <1>3, <1>4

LEMMA JitGuest == GuestOK /\ JitStep => GuestOK'
<1> SUFFICES ASSUME GuestOK, JitStep PROVE GuestOK'
  OBVIOUS
<1> DEFINE i == program[pc]
<1>1. i \in Instr
  BY ProgramOK DEF GuestOK
<1>2. program' = program /\ (JitStraight(i) \/ JitTransfer(i) \/ JitSlot(i) \/ JitExit(i))
  BY DEF JitStep
<1>3. Succ(pc) \in Pcs /\ Succ(Succ(pc)) \in Pcs /\ 0 \in Pcs
  BY SuccInPcs DEF GuestOK
<1>4. CASE JitStraight(i)
  <2>1. regs' \in [Regs -> Pcs]
    BY <1>1, <1>4, ResultsOK DEF JitStraight, GuestOK
  <2> HIDE DEF i
  <2> QED
    BY <1>2, <1>3, <1>4, <2>1 DEF JitStraight, GuestOK
<1>5. CASE JitTransfer(i)
  <2>1. After(pc, i, regs) \in Pcs /\ Called(pc, i, regs) \in [Regs -> Pcs] /\ i.r \in Regs
    BY <1>1, TransferOK DEF GuestOK, Instr
  <2> HIDE DEF i
  <2> QED
    BY <1>2, <1>3, <1>5, <2>1 DEF JitTransfer, GuestOK, BranchTo, BranchBy
<1>6. CASE JitSlot(i)
  <2>1. regs' \in [Regs -> Pcs]
    BY <1>1, <1>6, ResultsOK DEF JitSlot, GuestOK
  <2>2. pc' \in Pcs
    BY <1>6, <2>1 DEF JitSlot, GuestOK
  <2> HIDE DEF i
  <2> QED
    BY <1>2, <1>3, <1>6, <2>1, <2>2 DEF JitSlot, GuestOK, NoBranch
<1>7. CASE JitExit(i)
  <2> HIDE DEF i
  <2> QED
    BY <1>2, <1>3, <1>7 DEF JitExit, GuestOK
<1> QED
  BY <1>2, <1>4, <1>5, <1>6, <1>7

LEMMA OtherGuest ==
  ASSUME GuestOK, UNCHANGED <<program, guestVars>>
  PROVE  GuestOK'
BY DEF GuestOK, guestVars

LEMMA NextGuest == GuestOK /\ [Next]_vars => GuestOK'
<1> SUFFICES ASSUME GuestOK, [Next]_vars PROVE GuestOK'
  OBVIOUS
<1>1. CASE FastStep
  BY <1>1, FastGuest
<1>2. CASE JitStep
  BY <1>2, JitGuest
<1>3. CASE JitDispatch \/ JitFails \/ JitReturns
  BY <1>3, OtherGuest DEF JitDispatch, JitFails, JitReturns
<1>4. CASE CpuStarts \/ CpuEnds
  BY <1>4, OtherGuest DEF CpuStarts, CpuEnds, cpuVars
<1>5. CASE MainNext
  BY <1>5, OtherGuest DEF MainNext, OpenWindow, RenderLoop, LoopEnds, Frame, LastFrame,
     HoldFrame, HoldEnds, StopCpu, Join, cpuVars
<1>6. CASE UNCHANGED vars
  BY <1>6, OtherGuest DEF vars
<1> QED
  BY <1>1, <1>2, <1>3, <1>4, <1>5, <1>6 DEF Next, CpuNext, JitCpuNext, Over
-----------------------------------------------------------------------------
LEMMA Smallest ==
  ASSUME NEW S, S \subseteq Nat, S # {}
  PROVE  \E n \in S : \A m \in S : n <= m
<1> DEFINE less == {ss \in Nat \X Nat : ss[1] < ss[2]}
<1>1. IsWellFoundedOn(less, Nat)
  BY NatLessThanWellFounded DEF OpToRel
<1>2. PICK n \in S : \A m \in S : <<m, n>> \notin less
  BY <1>1, WFMin
<1>3. \A m \in S : ~(m < n)
  BY <1>2
<1> QED
  BY <1>3

\* The exits of a block are addresses of the program.
LEMMA ExitsOK ==
  ASSUME GuestOK, NEW s \in Pcs
  PROVE  BlockExits(s) \subseteq Pcs
<1> DEFINE At(k) == (s + k) % N
           ends == {k \in 0..BlockLimit-1 : program[At(k)].op \in Transfers \cup {"exit"}}
           k0 == CHOOSE n \in ends : \A m \in ends : n <= m
<1>1. \A k \in Int : At(k) \in Pcs
  BY DEF Pcs
<1>2. CASE ends = {}
  BY <1>2 DEF BlockExits
<1>3. CASE ends # {}
  <2>1. ends \subseteq Nat
    BY LimitsAssumption
  <2>2. k0 \in Nat
    <3> HIDE DEF ends
    <3> QED
      BY <1>3, <2>1, Smallest
  <2>3. program[At(k0)].v \in Pcs /\ At(k0 + 2) \in Pcs
    <3> HIDE DEF At, k0
    <3>0. k0 \in Int /\ k0 + 2 \in Int
      BY <2>2
    <3>1. At(k0) \in Pcs /\ At(k0 + 2) \in Pcs
      BY <1>1, <3>0
    <3> QED
      BY <3>1, ProgramOK DEF GuestOK
  <2>4. BlockExits(s) \subseteq {program[At(k0)].v, At(k0 + 2)}
    <3> HIDE DEF k0
    <3>1. BlockExits(s) = CASE program[At(k0)].op = "beqz" -> {At(k0 + 2), program[At(k0)].v}
                            [] program[At(k0)].op \in {"j", "jal"} -> {program[At(k0)].v}
                            [] OTHER -> {}
      BY <1>3 DEF BlockExits, k0
    <3> QED
      BY <3>1
  <2> QED
    BY <2>3, <2>4
<1> QED
  BY <1>2, <1>3

LEMMA TranslateLinks ==
  ASSUME GuestOK, LinkInv, Translate, table[pc] = "none"
  PROVE  LinkInv'
<1>1. PICK k \in {"block", "func"} : table' = [table EXCEPT ![pc] = k]
  BY DEF Translate
<1> DEFINE exits == IF table'[pc] = "block" THEN {<<pc, t>> : t \in BlockExits(pc)} ELSE {}
           direct == {e \in exits : Translated(e[2])}
           woken == {e \in waiting : e[2] = pc}
<1>2. links' = links \cup direct \cup woken
  BY DEF Translate
<1>3. PICK added \in SUBSET (exits \ direct) : waiting' = (waiting \ woken) \cup added
  BY DEF Translate
<1>4. /\ exits \subseteq Pcs \X Pcs
      /\ \A e \in exits : e[1] = pc /\ table'[pc] = "block"
  BY ExitsOK DEF GuestOK
<1>5. \A e \in exits : e \in direct <=> table'[e[2]] # "none"
  BY DEF Translated
<1> HIDE DEF exits
<1>6. pc \in Pcs /\ \A p \in Pcs : table'[p] = IF p = pc THEN k ELSE table[p]
  BY <1>1 DEF LinkInv, GuestOK
<1>7. table' \in [Pcs -> {"none", "block", "func"}]
  BY <1>1 DEF LinkInv
<1>8. links' \subseteq Pcs \X Pcs /\ waiting' \subseteq Pcs \X Pcs
  BY <1>2, <1>3, <1>4 DEF LinkInv
<1>9. \A e \in links' : table'[e[2]] # "none" /\ table'[e[1]] = "block"
  <2>1. ASSUME NEW e \in links PROVE table'[e[2]] # "none" /\ table'[e[1]] = "block"
    BY <1>6, <2>1 DEF LinkInv
  <2>2. ASSUME NEW e \in direct PROVE table'[e[2]] # "none" /\ table'[e[1]] = "block"
    BY <1>4, <1>5, <2>2
  <2>3. ASSUME NEW e \in woken PROVE table'[e[2]] # "none" /\ table'[e[1]] = "block"
    BY <1>6, <2>3 DEF LinkInv
  <2> QED
    BY <1>2, <2>1, <2>2, <2>3
<1>10. \A e \in waiting' : table'[e[2]] = "none" /\ table'[e[1]] = "block" /\ e \notin links'
  <2>1. ASSUME NEW e \in waiting \ woken
        PROVE  table'[e[2]] = "none" /\ table'[e[1]] = "block"
    BY <1>6, <2>1 DEF LinkInv
  <2>2. ASSUME NEW e \in added
        PROVE  table'[e[2]] = "none" /\ table'[e[1]] = "block"
    BY <1>3, <1>4, <1>5, <2>2
  <2> QED
    BY <1>3, <1>9, <2>1, <2>2
<1> QED
  BY <1>7, <1>8, <1>9, <1>10 DEF LinkInv

LEMMA OtherLinks ==
  ASSUME LinkInv, UNCHANGED <<table, links, waiting>>
  PROVE  LinkInv'
BY DEF LinkInv

LEMMA NextLinks == GuestOK /\ LinkInv /\ [Next]_vars => LinkInv'
<1> SUFFICES ASSUME GuestOK, LinkInv, [Next]_vars PROVE LinkInv'
  OBVIOUS
<1>1. CASE JitDispatch
  BY <1>1, TranslateLinks, OtherLinks DEF JitDispatch
<1>2. CASE JitReturns
  BY <1>2 DEF JitReturns, LinkInv
<1>3. CASE JitFails \/ JitStep
  BY <1>3, OtherLinks DEF JitFails, JitStep
<1>4. CASE FastStep
  BY <1>4, OtherLinks DEF FastStep, jitVars
<1>5. CASE CpuStarts \/ CpuEnds
  BY <1>5, OtherLinks DEF CpuStarts, CpuEnds, cpuVars, jitVars
<1>6. CASE MainNext
  BY <1>6, OtherLinks DEF MainNext, OpenWindow, RenderLoop, LoopEnds, Frame, LastFrame,
     HoldFrame, HoldEnds, StopCpu, Join, cpuVars, jitVars
<1>7. CASE UNCHANGED vars
  BY <1>7, OtherLinks DEF vars, jitVars
<1> QED
  BY <1>1, <1>2, <1>3, <1>4, <1>5, <1>6, <1>7 DEF Next, CpuNext, JitCpuNext, Over

(***************************************************************************)
(* Whatever the program and however its blocks are cut, a patched jump of  *)
(* the JIT enters translated code, and no jump waits for code that exists. *)
(***************************************************************************)
THEOREM JumpsEnterCode == Spec => []LinksSound
<1>1. Init => GuestOK /\ LinkInv
  BY SuccInPcs DEF Init, GuestOK, LinkInv, NoBranch
<1>2. GuestOK /\ LinkInv /\ [Next]_vars => (GuestOK /\ LinkInv)'
  BY NextGuest, NextLinks
<1>3. LinkInv => LinksSound
  BY DEF LinkInv, LinksSound
<1> QED
  BY <1>1, <1>2, <1>3, PTL DEF Spec
-----------------------------------------------------------------------------
LEMMA NextEnd == EndInv /\ [Next]_vars => EndInv'
<1> SUFFICES ASSUME EndInv, [Next]_vars PROVE EndInv'
  OBVIOUS
<1>1. CASE FastStep
  BY <1>1 DEF FastStep, Counted, EndInv, hostVars
<1>2. CASE JitDispatch \/ JitFails \/ JitReturns \/ JitStep
  BY <1>2 DEF JitDispatch, JitFails, JitReturns, JitStep, JitTick, EndInv, hostVars
<1>3. CASE CpuStarts \/ CpuEnds
  BY <1>3 DEF CpuStarts, CpuEnds, cpuVars, hostVars, EndInv
<1>4. CASE MainNext
  BY <1>4 DEF MainNext, OpenWindow, RenderLoop, LoopEnds, Frame, LastFrame, HoldFrame,
     HoldEnds, StopCpu, Join, Goto, cpuVars, EndInv
<1>5. CASE UNCHANGED vars
  BY <1>5 DEF vars, hostVars, EndInv
<1> QED
  BY <1>1, <1>2, <1>3, <1>4, <1>5 DEF Next, CpuNext, JitCpuNext, Over

(***************************************************************************)
(* host_run returns only when the CPU thread has ended, with the exit code *)
(* of its engine, whatever the window, the display and the user do.        *)
(***************************************************************************)
THEOREM RunReturnsCode == Spec => []ReturnsCode
<1>1. Init => EndInv
  BY DEF Init, EndInv
<1>2. EndInv => ReturnsCode
  BY DEF EndInv, ReturnsCode
<1> QED
  BY <1>1, <1>2, NextEnd, PTL DEF Spec
=============================================================================
