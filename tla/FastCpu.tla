------------------------------ MODULE FastCpu ------------------------------
(***************************************************************************)
(* cpu_fast.c: an instruction, the application of a branch whose delay     *)
(* slot it was, and every CheckInterval instructions a look at the host.   *)
(***************************************************************************)
EXTENDS MachineState

CountedBlind ==
  /\ tick' = (tick + 1) % CheckInterval
  /\ owed' = IF tick' = 0 THEN 0 ELSE owed + 1
  /\ UNCHANGED thread

\* DISPATCH
Counted ==
  /\ tick' = (tick + 1) % CheckInterval
  /\ IF tick' = 0
     THEN owed' = 0 /\ thread' = (IF running' THEN thread ELSE "left")
     ELSE owed' = owed + 1 /\ UNCHANGED thread

FastTransfer(i) ==
  /\ i.op \in Transfers /\ ~branch.live
  /\ regs' = Called(pc, i, regs)
  /\ branch' = BranchTo(After(pc, i, regs)) /\ pc' = Succ(pc)
  /\ UNCHANGED <<running, exitCode>>

FastOther(i) ==
  /\ i.op \notin Transfers \/ branch.live
  /\ regs' \in Results(i, regs)
  /\ branch' = NoBranch
  /\ pc' = IF branch.live THEN branch.to ELSE Succ(pc)
  /\ IF i.op = "exit" /\ running
     THEN exitCode' = regs["a1"] /\ running' = FALSE
     ELSE UNCHANGED <<exitCode, running>>

FastStep ==
  /\ engine = "fast" /\ thread = "executing"
  /\ LET i == program[pc] IN FastTransfer(i) \/ FastOther(i)
  /\ Counted
  /\ UNCHANGED <<program, engine, jitVars, hostVars, gone>>
=============================================================================
