------------------------------ MODULE Machine ------------------------------
(***************************************************************************)
(* The emulator in the modes "fast" and "jit": the main thread, and the    *)
(* CPU thread with the interpreter that executes the guest.                *)
(***************************************************************************)
EXTENDS FastCpu, JitCpu, Host

vars == <<program, engine, thread, running, exitCode, guestVars, tick, jitVars, hostVars, gone>>

Init ==
  /\ program \in Programs /\ engine \in {"fast", "jit"} /\ hold \in BOOLEAN
  /\ thread = "new" /\ running = TRUE /\ exitCode = 0
  /\ regs = [r \in Regs |-> 0] /\ pc = 0 /\ branch = NoBranch /\ owed = 0
  /\ tick = 0
  /\ jitOn = TRUE /\ unit = NoUnit /\ bb = 0
  /\ table = [p \in Pcs |-> "none"] /\ links = {} /\ waiting = {}
  /\ main = "open" /\ dismiss = FALSE /\ gone = FALSE /\ result = 0

CpuNext == CpuStarts \/ FastStep \/ JitCpuNext \/ CpuEnds

\* the process is over when host_run has returned or exit() was called
Over == (gone \/ main = "returned") /\ UNCHANGED vars

Next == (~gone /\ (CpuNext \/ MainNext)) \/ Over

Spec == Init /\ [][Next]_vars /\ WF_vars(~gone /\ CpuNext) /\ WF_vars(~gone /\ MainNext)
-----------------------------------------------------------------------------
TypeOK ==
  /\ engine \in {"fast", "jit"} /\ hold \in BOOLEAN
  /\ thread \in {"new", "executing", "left", "finished"}
  /\ running \in BOOLEAN /\ gone \in BOOLEAN /\ dismiss \in BOOLEAN /\ jitOn \in BOOLEAN
  /\ regs \in [Regs -> Pcs] /\ pc \in Pcs /\ {exitCode, result} \subseteq Pcs
  /\ branch \in [live : BOOLEAN, to : Pcs, by : Regs \cup {"none"}]
  /\ owed \in Nat /\ tick \in 0..CheckInterval-1
  /\ unit \in [kind : {"none", "block", "func"}, entry : Pcs] /\ bb \in Pcs
  /\ table \in [Pcs -> {"none", "block", "func"}]
  /\ links \subseteq Pcs \X Pcs /\ waiting \subseteq Pcs \X Pcs
  /\ main \in {"open", "loop", "frame", "last", "hold", "stop", "join", "returned"}

(***************************************************************************)
(* A patched jump enters translated code, and no jump goes on waiting for  *)
(* code that is there: the code that it was patched to is never freed      *)
(* under it, and whoever translates an address wakes all that wait for it. *)
(***************************************************************************)
LinksSound ==
  /\ \A e \in links : table[e[2]] # "none" /\ table[e[1]] = "block"
  /\ \A e \in waiting : table[e[2]] = "none" /\ e \notin links

(***************************************************************************)
(* "the running total is exact regardless of guest loops" (cpu_jit.c:265), *)
(* although it only moves at the edges between basic blocks, and by counts *)
(* fixed when they were translated; and the total that is reported when    *)
(* the interpreter returns is exact in both modes.                         *)
(***************************************************************************)
CountExact ==
  (engine = "jit" /\ unit = NoUnit) \/ thread \in {"left", "finished"} => owed = 0

(***************************************************************************)
(* Whatever the engine, the guest's instructions are executed one after    *)
(* the other with their delay slots (GuestRun), however blocks and         *)
(* functions are cut, entered in their middle, patched and returned from.  *)
(***************************************************************************)
Guest == INSTANCE GuestRun WITH
  npc <- IF ~branch.live THEN Succ(pc)
         ELSE IF branch.by = "none" THEN branch.to ELSE regs[branch.by],
  code <- exitCode,
  stopped <- ~running

ExecutesProgram == Guest!Spec

(***************************************************************************)
(* host_run returns only with the CPU thread at its end, and then the      *)
(* guest's exit code, 0 when it was stopped before.                        *)
(***************************************************************************)
ReturnsCode == main = "returned" => thread = "finished" /\ result = exitCode

(***************************************************************************)
(* A guest that exits ends the CPU thread, in both modes, and with that    *)
(* the render loop: the process then waits for the user or returns.  In    *)
(* the mode "fast" the same holds when the display fails.                  *)
(***************************************************************************)
Ended == gone \/ (thread = "finished" /\ main \in {"hold", "stop", "join", "returned"})
StoppedEnds ==
  /\ (engine = "fast" /\ ~running) ~> Ended
  /\ (engine = "jit" /\ ~jitOn) ~> Ended
=============================================================================
