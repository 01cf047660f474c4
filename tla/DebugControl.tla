---------------------------- MODULE DebugControl ----------------------------
(***************************************************************************)
(* A debug session of the emulator: CPU thread, stub thread, debugger and  *)
(* the host, which may stop the machine at any time.                       *)
(***************************************************************************)
EXTENDS CpuThread, RspStub, GdbClient

CONSTANT
    HostMayStop  \* TRUE: the emulator's window may fail, on opening or later

ASSUME HostMayStopAssumption == HostMayStop \in BOOLEAN

TypeOK ==
    /\ hostRunning \in BOOLEAN /\ gate \in BOOLEAN /\ singleStep \in BOOLEAN
    /\ stopEvent \in BOOLEAN /\ exitPhase \in 0 .. 2
    /\ breakPending \in BOOLEAN /\ bps \subseteq Addr /\ guest \in Guest
    /\ ran \in [{"asked", "armed"} -> 0 .. RanBound] /\ exited \in BOOLEAN
    /\ cpuPc \in CpuLocs /\ cpuRet \in CpuReturns
    /\ stubPc \in StubLocs /\ stubJob \in StubJobs /\ told \in BOOLEAN
    /\ shutdown \in BOOLEAN /\ conn \in Conns /\ dbg \in Debuggers
    /\ inbox \in Seq(Packets) /\ outbox \in Seq(Replies)
    /\ breaks \in 0 .. MaxBreaks

\* cpu_debug_execute once rsp_stub_start has succeeded: the flags are reset and
\* the stub thread is running.
Init ==
    /\ hostRunning = TRUE /\ gate = FALSE /\ singleStep = FALSE
    /\ stopEvent = FALSE /\ exitPhase = 0
    /\ breakPending = FALSE /\ bps = {} /\ guest = ResetGuest
    /\ ran = RanNothing /\ exited = FALSE
    /\ cpuPc = "loop" /\ cpuRet = "loop"
    /\ stubPc = "top" /\ stubJob = "none" /\ told = FALSE
    /\ shutdown = FALSE /\ conn = "none" /\ dbg = "off"
    /\ inbox = <<>> /\ outbox = <<>> /\ breaks = 0

\* host_stop_running from the render thread: the window could not be opened, or
\* can no longer be updated.  (A user who closes it ends the whole process.)
HostStop ==
    /\ HostMayStop
    /\ hostRunning
    /\ hostRunning' = FALSE
    /\ UNCHANGED <<gate, singleStep, stopEvent, exitPhase, machine, cpuLoc, stubLoc, net>>

\* The session is over and both threads have ended.
Ended ==
    /\ cpuPc = "done"
    /\ UNCHANGED vars

Next == CpuNext \/ StubNext \/ ClientNext \/ HostStop \/ Ended

Spec == Init /\ [][Next]_vars

(***************************************************************************)
(* Both threads are scheduled and every wait of theirs polls or times out, *)
(* so each runs whenever it can.  A debugger that is waiting reads what    *)
(* arrives; what it sends, and when, is up to its user.                    *)
(***************************************************************************)
FairSpec ==
    /\ Spec
    /\ WF_vars(CpuNext)
    /\ WF_vars(StubNext)
    /\ WF_vars(ClientReads)

-----------------------------------------------------------------------------
(***************************************************************************)
(* What the session promises a patient debugger.                           *)
(***************************************************************************)

\* Once the stub has said that the guest is stopped, and until it is asked to
\* resume it, the CPU thread stays in dbg_wait_for_run: the registers and the
\* memory the debugger reads and writes meanwhile are nobody else's
\* (cpu_debug.h: g_debug_cpu is only safe to touch while the gate is closed).
ToldStopped == told /\ hostRunning => Parked

\* The CPU never executes the instruction at a breakpoint without having
\* stopped in front of it, whatever branch brought it there.
NoMissedBreakpoint == cpuPc = "exec" /\ hostRunning => NextPc(guest) \notin bps

\* From the moment rsp_step has armed the single-step flag, the guest executes
\* at most one instruction before it halts.
StepBounded == stubJob = "s" /\ stubPc \in RunLocs /\ hostRunning => ran.armed <= 1

\* The three parties together keep the promises of DebugSession.
Session == INSTANCE DebugSession WITH
    alive <- hostRunning,
    guest <- Resolve(guest),
    held  <- \/ cpuPc \in {"over", "execOver"}
             \/ cpuPc \in {"close", "signal", "wait"} /\ cpuRet = "over"

SessionKept == Session!Spec

\* A debugger's packet is never discarded as a stray byte of a running guest.
NoPacketDropped == [][~StubStray]_vars

-----------------------------------------------------------------------------

\* A debugger that waits for the reply to a single step gets one, or sees the
\* connection end.
StepAnswered == (dbg = "waiting" /\ stubJob = "s" /\ stubPc = "arm") ~> dbg # "waiting"

\* Once the CPU thread has left its loop, cpu_debug_execute returns.
TeardownCompletes == cpuPc = "finished" ~> cpuPc = "done"
-----------------------------------------------------------------------------
(***************************************************************************)
(* What a comment of the code says and some execution of it contradicts.   *)
(* Each of these is checked by a run of its own that finds the execution.  *)
(***************************************************************************)

\* "g_dbg_single_step, when set together with the gate open, requests exactly
\* one instruction followed by another stop" (cpu_debug.h): a stop that answers
\* 's' comes after one instruction.
StepIsExact == [][StubReportStop /\ stubJob = "s" /\ hostRunning => ran.asked = 1]_vars

\* tcm_resolve_pending_branch "MUST run before any 'what executes next'
\* observation" (cpu_debug.c): when the stub reports the end of a single step that
\* has executed one instruction, the PC that the debugger then reads is the one
\* that executes next.
ReportedPcIsNext ==
    [][StubReportStop /\ stubJob = "s" /\ ran.asked = 1 /\ Parked /\ hostRunning
           => guest.pc = NextPc(guest)]_vars

\* "the *reply* to c / s / vCont IS the stop reply" (rsp_stub.c): the stop that
\* a debugger takes for the answer to its resume finds the guest stopped.
ResumeReplyIsStop == [][ClientStopped /\ hostRunning => Parked]_vars

\* "kill: shut the guest down (no reply; teardown follows)" (rsp_stub.c): a
\* session that has been killed ends, even if no debugger comes back.
KillEndsSession ==
    (~hostRunning /\ conn = "none") ~> (cpuPc = "done" \/ conn # "none")

=============================================================================
