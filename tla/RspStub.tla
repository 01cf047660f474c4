------------------------------ MODULE RspStub -------------------------------
(***************************************************************************)
(* The stub thread of a debug session: rsp_server_thread, rsp_handle and   *)
(* rsp_run_and_report_stop (src/emulator/rsp_stub.c).  One action per      *)
(* access to a shared flag; a whole packet is read in one step.            *)
(***************************************************************************)
EXTENDS DebugState

CONSTANT
    CloseWakes  \* TRUE: closing a socket wakes the thread blocked in accept or
                \* recv on it (Winsock); FALSE: it does not (Linux)

ASSUME CloseWakesAssumption == CloseWakes \in BOOLEAN

\* The stub thread is at `from` and goes to `to`, leaving the CPU alone.
StubGo(from, to) ==
    /\ stubPc = from
    /\ stubPc' = to
    /\ UNCHANGED <<cpuLoc, breakPending, guest, exited, shutdown, dbg, breaks>>

\* The parts a step may leave alone.
Quietly == UNCHANGED <<stubJob, told>>
NoFlags == UNCHANGED flags
NoEdit == UNCHANGED <<bps, ran>>
NoTraffic == UNCHANGED <<conn, inbox, outbox>>

\* Back in rsp_server_thread: the resume or the interrupt has been served.
EndJob == stubJob' = "none" /\ ran' = RanNothing

-----------------------------------------------------------------------------
(***************************************************************************)
(* rsp_server_thread                                                       *)
(***************************************************************************)

StubTop ==
    /\ StubGo("top", CASE shutdown                      -> "end"
                       [] conn \in {"none", "backlog"}  -> "accept"
                       [] OTHER                         -> "recv")
    /\ Quietly /\ NoFlags /\ NoEdit /\ NoTraffic

\* accept, then rsp_interrupt: the debugger is to start stopped.
StubAccept ==
    /\ conn = "backlog"
    /\ StubGo("accept", "halt")
    /\ conn' = "open"
    /\ stubJob' = "attach"
    /\ UNCHANGED <<told, inbox, outbox>> /\ NoFlags /\ NoEdit

\* accept and recv fail when rsp_stub_stop has closed their socket.
StubWoken ==
    /\ conn = "closed" /\ CloseWakes
    /\ \E from \in {"accept", "recv"} : StubGo(from, "top")
    /\ Quietly /\ NoFlags /\ NoEdit /\ NoTraffic

\* recv finds the end of the stream: close the client's socket.
StubHangup ==
    /\ conn = "hup" /\ inbox = <<>>
    /\ StubGo("recv", "top")
    /\ conn' = "none"
    /\ outbox' = <<>>
    /\ UNCHANGED inbox /\ Quietly /\ NoFlags /\ NoEdit

Receive(op) ==
    /\ conn \in {"open", "hup"}
    /\ inbox # <<>> /\ Head(inbox).op = op
    /\ inbox' = Tail(inbox)
    /\ UNCHANGED conn

\* ^C while no command is being served: rsp_interrupt, then answer.
StubIdleInterrupt ==
    /\ Receive("^C")
    /\ StubGo("recv", "halt")
    /\ stubJob' = "idle^C"
    /\ UNCHANGED <<told, outbox>> /\ NoFlags /\ NoEdit

-----------------------------------------------------------------------------
(***************************************************************************)
(* rsp_handle                                                              *)
(***************************************************************************)

\* '?' is answered from no flag at all.
StubQuery ==
    /\ Receive("?")
    /\ StubGo("recv", "top")
    /\ Send("S05")
    /\ told' = TRUE
    /\ UNCHANGED stubJob /\ NoFlags /\ NoEdit

StubSetBp ==
    /\ Receive("Z")
    /\ StubGo("recv", "top")
    /\ bps' = bps \cup {Head(inbox).addr}
    /\ Send("OK")
    /\ UNCHANGED ran /\ Quietly /\ NoFlags

StubRemoveBp ==
    /\ Receive("z")
    /\ StubGo("recv", "top")
    /\ bps' = bps \ {Head(inbox).addr}
    /\ Send("OK")
    /\ UNCHANGED ran /\ Quietly /\ NoFlags

\* rsp_reg_write of register 37: PC alone, whatever branch is pending.
StubWritePc ==
    /\ Receive("P")
    /\ stubPc = "recv" /\ stubPc' = "top"
    /\ guest' = [guest EXCEPT !.pc = Head(inbox).addr]
    /\ Send("OK")
    /\ UNCHANGED <<cpuLoc, breakPending, exited, shutdown, dbg, breaks>>
    /\ Quietly /\ NoFlags /\ NoEdit

StubKill ==
    /\ Receive("k")
    /\ StubGo("recv", "top")
    /\ hostRunning' = FALSE
    /\ UNCHANGED <<gate, singleStep, stopEvent, exitPhase, outbox>> /\ Quietly /\ NoEdit

\* Mutant: a resume is answered as soon as it arrives.
StubResumeAnswered ==
    /\ \E op \in {"c", "s", "D"} : Receive(op) /\ stubJob' = op
    /\ StubGo("recv", "arm")
    /\ told' = FALSE
    /\ Send("S05") /\ NoFlags /\ NoEdit

\* 'c', 's' and 'D' begin alike: rsp_continue and rsp_step.
StubResume ==
    /\ \E op \in {"c", "s", "D"} : Receive(op) /\ stubJob' = op
    /\ StubGo("recv", "arm")
    /\ told' = FALSE
    /\ UNCHANGED outbox /\ NoFlags /\ NoEdit

-----------------------------------------------------------------------------
(***************************************************************************)
(* rsp_continue, rsp_step and rsp_interrupt, store by store                *)
(***************************************************************************)

StubArm ==
    /\ StubGo("arm", "open")
    /\ stopEvent' = FALSE
    /\ UNCHANGED <<hostRunning, gate, singleStep, exitPhase>>
    /\ Quietly /\ NoEdit /\ NoTraffic

StubOpen ==
    /\ StubGo("open", "mode")
    /\ gate' = TRUE
    /\ UNCHANGED <<hostRunning, singleStep, stopEvent, exitPhase>>
    /\ Quietly /\ NoEdit /\ NoTraffic

\* Mutant: the stop event is cleared last, when the CPU may have set it again.
StubModeClears ==
    /\ StubGo("mode", IF stubJob = "D" THEN "top" ELSE "run")
    /\ singleStep' = (stubJob = "s")
    /\ stopEvent' = FALSE
    /\ IF stubJob = "D"
       THEN Send("OK") /\ EndJob
       ELSE ran' = [ran EXCEPT !.armed = 0] /\ UNCHANGED <<outbox, stubJob>>
    /\ UNCHANGED <<hostRunning, gate, exitPhase, bps, conn, inbox, told>>

\* The resume is armed: a detach is acknowledged, the others are reported.
StubMode ==
    /\ StubGo("mode", IF stubJob = "D" THEN "top" ELSE "run")
    /\ singleStep' = (stubJob = "s")
    /\ IF stubJob = "D"
       THEN Send("OK") /\ EndJob
       ELSE ran' = [ran EXCEPT !.armed = 0] /\ UNCHANGED <<outbox, stubJob>>
    /\ UNCHANGED <<hostRunning, gate, stopEvent, exitPhase, bps, conn, inbox, told>>

StubHalt ==
    /\ StubGo("halt", "unstep")
    /\ gate' = FALSE
    /\ UNCHANGED <<hostRunning, singleStep, stopEvent, exitPhase>>
    /\ Quietly /\ NoEdit /\ NoTraffic

\* Only the idle ^C is answered here, without waiting for the CPU.
StubUnstep ==
    /\ StubGo("unstep", IF stubJob = "run^C" THEN "run" ELSE "top")
    /\ singleStep' = FALSE
    /\ IF stubJob = "idle^C"
       THEN Send("S05") /\ told' = TRUE
       ELSE UNCHANGED <<outbox, told>>
    /\ IF stubJob = "run^C" THEN UNCHANGED <<stubJob, ran>> ELSE EndJob
    /\ UNCHANGED <<hostRunning, gate, stopEvent, exitPhase, bps, conn, inbox>>

-----------------------------------------------------------------------------
(***************************************************************************)
(* rsp_run_and_report_stop                                                 *)
(***************************************************************************)

StubRun ==
    /\ StubGo("run", IF shutdown THEN "top" ELSE "phase")
    /\ IF shutdown THEN EndJob ELSE UNCHANGED <<stubJob, ran>>
    /\ UNCHANGED <<told, bps>> /\ NoFlags /\ NoTraffic

StubPhase ==
    /\ StubGo("phase", IF exitPhase = 1 THEN "sayExit" ELSE "host")
    /\ Quietly /\ NoFlags /\ NoEdit /\ NoTraffic

StubSayExit ==
    /\ StubGo("sayExit", "exitSent")
    /\ Send("W")
    /\ UNCHANGED <<conn, inbox>> /\ Quietly /\ NoFlags /\ NoEdit

StubExitSent ==
    /\ StubGo("exitSent", "top")
    /\ exitPhase' = 2
    /\ EndJob
    /\ UNCHANGED <<hostRunning, gate, singleStep, stopEvent, told, bps>> /\ NoTraffic

StubHost ==
    /\ StubGo("host", IF hostRunning THEN "event" ELSE "top")
    /\ IF hostRunning THEN UNCHANGED <<stubJob, ran>> ELSE EndJob
    /\ UNCHANGED <<told, bps>> /\ NoFlags /\ NoTraffic

\* Mutant: the stop is reported without waiting for the CPU's event.
StubReportAtOnce ==
    /\ StubGo("event", "top")
    /\ Send("S05")
    /\ told' = TRUE
    /\ EndJob
    /\ UNCHANGED <<conn, inbox, bps>> /\ NoFlags

StubReportStop ==
    /\ stopEvent
    /\ StubGo("event", "top")
    /\ Send("S05")
    /\ told' = TRUE
    /\ EndJob
    /\ UNCHANGED <<conn, inbox, bps>> /\ NoFlags

StubNoStop ==
    /\ ~stopEvent
    /\ StubGo("event", "poll")
    /\ Quietly /\ NoFlags /\ NoEdit /\ NoTraffic

StubRunInterrupt ==
    /\ Receive("^C")
    /\ StubGo("poll", "halt")
    /\ stubJob' = "run^C"
    /\ UNCHANGED <<told, outbox>> /\ NoFlags /\ NoEdit

\* Any other byte is discarded.
StubStray ==
    /\ \E op \in {"?", "c", "s", "D", "k", "Z", "z", "P"} : Receive(op)
    /\ StubGo("poll", "run")
    /\ UNCHANGED outbox /\ Quietly /\ NoFlags /\ NoEdit

\* select() times out, or the connection is gone.
StubPollQuiet ==
    /\ inbox = <<>> \/ conn = "closed"
    /\ StubGo("poll", IF conn = "open" THEN "run" ELSE "top")
    /\ IF conn = "open" THEN UNCHANGED <<stubJob, ran>> ELSE EndJob
    /\ UNCHANGED <<told, bps>> /\ NoFlags /\ NoTraffic

StubNext ==
    \/ StubTop \/ StubAccept \/ StubWoken \/ StubHangup \/ StubIdleInterrupt
    \/ StubQuery \/ StubSetBp \/ StubRemoveBp \/ StubWritePc \/ StubKill \/ StubResume
    \/ StubArm \/ StubOpen \/ StubMode \/ StubHalt \/ StubUnstep
    \/ StubRun \/ StubPhase \/ StubSayExit \/ StubExitSent \/ StubHost
    \/ StubReportStop \/ StubNoStop \/ StubRunInterrupt \/ StubStray \/ StubPollQuiet
=============================================================================
