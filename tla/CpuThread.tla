----------------------------- MODULE CpuThread ------------------------------
(***************************************************************************)
(* The CPU thread of a debug session: cpu_debug_execute with               *)
(* dbg_stop_and_wait and rsp_stub_stop (src/emulator/cpu_debug.c,          *)
(* rsp_stub.c).  One action per access to a shared flag.                   *)
(***************************************************************************)
EXTENDS DebugState

CONSTANT
    StubTimely  \* TRUE: the stub needs less than the 300 ms that the CPU
                \* thread waits for it to report the exit

ASSUME StubTimelyAssumption == StubTimely \in BOOLEAN

\* The CPU thread is at `from` and goes to `to`, leaving the stub and the
\* debugger alone.
CpuGo(from, to) ==
    /\ cpuPc = from
    /\ cpuPc' = to
    /\ UNCHANGED <<stubLoc, shutdown, inbox, outbox, dbg, breaks>>

\* Call dbg_stop_and_wait, to come back at `ret`.
CpuStop(from, ret) ==
    /\ CpuGo(from, "close")
    /\ cpuRet' = ret

\* while (host_is_running())
CpuLoop ==
    /\ CpuGo("loop", IF hostRunning THEN "gate" ELSE "finished")
    /\ UNCHANGED <<flags, machine, cpuRet, conn>>

CpuGateOpen ==
    /\ gate
    /\ CpuGo("gate", "bp")
    /\ UNCHANGED <<flags, machine, cpuRet, conn>>

CpuGateClosed ==
    /\ ~gate
    /\ CpuStop("gate", "loop")
    /\ UNCHANGED <<flags, machine, conn>>

\* dbg_bp_hits_next: fold a pending branch into PC, then look PC up.
CpuBpHit ==
    /\ NextPc(guest) \in bps
    /\ guest' = Resolve(guest)
    /\ CpuStop("bp", "over")
    /\ UNCHANGED <<flags, breakPending, bps, ran, exited, conn>>

\* Mutant: PC is looked up before the pending branch is folded in.
CpuBpMissStalePc ==
    /\ guest.pc \notin bps
    /\ guest' = Resolve(guest)
    /\ CpuGo("bp", "exec")
    /\ UNCHANGED <<flags, breakPending, bps, ran, exited, cpuRet, conn>>

CpuBpMiss ==
    /\ NextPc(guest) \notin bps
    /\ guest' = Resolve(guest)
    /\ CpuGo("bp", "exec")
    /\ UNCHANGED <<flags, breakPending, bps, ran, exited, cpuRet, conn>>

\* Resumed at a breakpoint: step over it, unless the host is stopping.
CpuOver ==
    /\ CpuGo("over", IF hostRunning THEN "execOver" ELSE "finished")
    /\ UNCHANGED <<flags, machine, cpuRet, conn>>

\* tcm_exec_instruction, with what r_break does outside the guest: BREAK 0x3ff
\* stops the host, any other BREAK (and 0x3ff once the host is stopping) leaves
\* a note for the loop below.
CpuExec ==
    /\ \E from \in {"exec", "execOver"} : CpuGo(from, "post")
    /\ guest' \in Exec(guest)
    /\ LET op == Fetched(guest).op
           exits == op = "exit" /\ hostRunning
       IN  /\ hostRunning' = (hostRunning /\ ~exits)
           /\ exited' = (exited \/ exits)
           /\ breakPending' = (breakPending \/ op = "trap" \/ (op = "exit" /\ ~exits))
    /\ ran' = [k \in {"asked", "armed"} |->
                 IF stubJob = "s" /\ ran[k] < RanBound THEN ran[k] + 1 ELSE ran[k]]
    /\ UNCHANGED <<gate, singleStep, stopEvent, exitPhase, bps, cpuRet, conn>>

\* After the instruction: the host stops, the guest trapped, or the
\* single-step flag decides.
CpuHostGone ==
    /\ ~hostRunning
    /\ CpuGo("post", "finished")
    /\ UNCHANGED <<flags, machine, cpuRet, conn>>

CpuTrapped ==
    /\ hostRunning /\ breakPending
    /\ breakPending' = FALSE
    /\ CpuStop("post", "loop")
    /\ UNCHANGED <<flags, bps, guest, ran, exited, conn>>

CpuNoTrap ==
    /\ hostRunning /\ ~breakPending
    /\ CpuGo("post", "single")
    /\ UNCHANGED <<flags, machine, cpuRet, conn>>

\* atomic_exchange(&g_dbg_single_step, false)
\* Mutant: the flag is consumed and the stop forgotten.
CpuSteppedOn ==
    /\ singleStep
    /\ singleStep' = FALSE
    /\ CpuGo("single", "loop")
    /\ UNCHANGED <<hostRunning, gate, stopEvent, exitPhase, machine, cpuRet, conn>>

CpuStepped ==
    /\ singleStep
    /\ singleStep' = FALSE
    /\ CpuStop("single", "loop")
    /\ UNCHANGED <<hostRunning, gate, stopEvent, exitPhase, machine, conn>>

CpuNotStepping ==
    /\ ~singleStep
    /\ CpuGo("single", "loop")
    /\ UNCHANGED <<flags, machine, cpuRet, conn>>

\* dbg_stop_and_wait: close the gate, signal the stop, wait for the gate.
CpuClose ==
    /\ CpuGo("close", "signal")
    /\ gate' = FALSE
    /\ UNCHANGED <<hostRunning, singleStep, stopEvent, exitPhase, machine, cpuRet, conn>>

CpuSignal ==
    /\ CpuGo("signal", "wait")
    /\ stopEvent' = TRUE
    /\ UNCHANGED <<hostRunning, gate, singleStep, exitPhase, machine, cpuRet, conn>>

\* Mutant: one sleep is taken for the opening of the gate.
CpuResumeUnasked ==
    /\ CpuGo("wait", cpuRet)
    /\ UNCHANGED <<flags, machine, cpuRet, conn>>

CpuResume ==
    /\ gate
    /\ CpuGo("wait", cpuRet)
    /\ UNCHANGED <<flags, machine, cpuRet, conn>>

\* The loop has ended: offer the exit to the stub, linger until it has sent
\* 'W' or the time is up, then rsp_stub_stop.
CpuFinished ==
    /\ CpuGo("finished", "linger")
    /\ exitPhase' = 1
    /\ UNCHANGED <<hostRunning, gate, singleStep, stopEvent, machine, cpuRet, conn>>

CpuLinger ==
    /\ \/ exitPhase = 2
       \/ ~(StubTimely /\ stubPc \in RunLocs)
    /\ CpuGo("linger", "stopStub")
    /\ UNCHANGED <<flags, machine, cpuRet, conn>>

CpuStopStub ==
    /\ cpuPc = "stopStub"
    /\ cpuPc' = "closeFds"
    /\ shutdown' = TRUE
    /\ UNCHANGED <<flags, machine, cpuRet, stubLoc, conn, inbox, outbox, dbg, breaks>>

\* Mutant: the sockets stay open.
CpuCloseNothing ==
    /\ CpuGo("closeFds", "join")
    /\ UNCHANGED <<flags, machine, cpuRet, conn>>

\* Close both sockets from under the stub thread.
CpuCloseFds ==
    /\ CpuGo("closeFds", "join")
    /\ conn' = "closed"
    /\ UNCHANGED <<flags, machine, cpuRet>>

CpuJoin ==
    /\ stubPc = "end"
    /\ CpuGo("join", "done")
    /\ UNCHANGED <<flags, machine, cpuRet, conn>>

CpuNext ==
    \/ CpuLoop \/ CpuGateOpen \/ CpuGateClosed
    \/ CpuBpHit \/ CpuBpMiss \/ CpuOver \/ CpuExec
    \/ CpuHostGone \/ CpuTrapped \/ CpuNoTrap \/ CpuStepped \/ CpuNotStepping
    \/ CpuClose \/ CpuSignal \/ CpuResume
    \/ CpuFinished \/ CpuLinger \/ CpuStopStub \/ CpuCloseFds \/ CpuJoin
=============================================================================
