-------------------------------- MODULE Host --------------------------------
(***************************************************************************)
(* host.c: host_run on the main thread, from the window to the join, and   *)
(* the frame of the CPU thread around the interpreter.  The window may be  *)
(* closed, or the display report an error, in any frame.                   *)
(***************************************************************************)
EXTENDS MachineState

cpuVars == <<program, engine, guestVars, tick, jitVars, exitCode>>

CpuStarts ==
  /\ thread = "new" /\ thread' = "executing"
  /\ UNCHANGED <<cpuVars, running, hostVars, gone>>

\* result stands for g_cpu.exit_code
CpuEnds ==
  /\ thread = "left" /\ thread' = "finished"
  /\ result' = exitCode
  /\ UNCHANGED <<cpuVars, running, main, hold, dismiss, gone>>

Goto(phase) == main' = phase /\ UNCHANGED <<hold, result>>

\* mfb_update_ex: a key, an error, or the close button
Key(dismissing) == dismiss' = (dismiss \/ dismissing) /\ UNCHANGED <<running, gone>>
Shown == Key(FALSE) \/ (thread = "finished" /\ Key(TRUE))
Broken == running' = FALSE /\ UNCHANGED <<dismiss, gone>>
Closed == running' = FALSE /\ gone' = TRUE /\ UNCHANGED dismiss

\* the window shows one blank frame as soon as it is open
OpenWindow ==
  /\ main = "open"
  /\ \/ Goto("loop") /\ (Shown \/ Closed)
     \/ Goto("stop") /\ running' = FALSE /\ UNCHANGED <<dismiss, gone>>
  /\ UNCHANGED <<cpuVars, thread>>

RenderLoop ==
  /\ main = "loop" /\ running /\ thread # "finished"
  /\ Goto("frame") /\ UNCHANGED <<cpuVars, thread, running, dismiss, gone>>

LoopEnds ==
  /\ main = "loop" /\ (~running \/ thread = "finished")
  /\ Goto("last") /\ UNCHANGED <<cpuVars, thread, running, dismiss, gone>>

\* nothing is drawn before the CPU thread has started
Frame ==
  /\ main = "frame"
  /\ Goto("loop")
  /\ IF thread = "new" THEN UNCHANGED <<running, dismiss, gone>> ELSE Shown \/ Broken \/ Closed
  /\ UNCHANGED <<cpuVars, thread>>

LastFrame ==
  /\ main = "last"
  /\ Goto(IF hold THEN "hold" ELSE "stop")
  /\ Shown \/ Broken \/ Closed
  /\ UNCHANGED <<cpuVars, thread>>

HoldFrame ==
  /\ main = "hold" /\ ~dismiss
  /\ Goto("hold")
  /\ Shown \/ Closed
  /\ UNCHANGED <<cpuVars, thread>>

HoldEnds ==
  /\ main = "hold" /\ dismiss
  /\ Goto("stop") /\ UNCHANGED <<cpuVars, thread, running, dismiss, gone>>

StopCpu ==
  /\ main = "stop" /\ running' = FALSE
  /\ Goto("join") /\ UNCHANGED <<cpuVars, thread, dismiss, gone>>

JoinNoWait ==
  /\ main = "join"
  /\ Goto("returned") /\ UNCHANGED <<cpuVars, thread, running, dismiss, gone>>

Join ==
  /\ main = "join" /\ thread = "finished"
  /\ Goto("returned") /\ UNCHANGED <<cpuVars, thread, running, dismiss, gone>>

MainNext ==
  \/ OpenWindow \/ RenderLoop \/ LoopEnds \/ Frame \/ LastFrame
  \/ HoldFrame \/ HoldEnds \/ StopCpu \/ Join
=============================================================================
