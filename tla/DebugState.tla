----------------------------- MODULE DebugState -----------------------------
(***************************************************************************)
(* What the three parties of a debug session share: the CPU thread         *)
(* (CpuThread), the RSP stub thread (RspStub) and the debugger at the      *)
(* other end of the socket (GdbClient).  DebugControl composes them.       *)
(*                                                                         *)
(* Every access to a shared flag is a step of its own and the steps        *)
(* interleave: memory is sequentially consistent here, although the code   *)
(* asks for memory_order_relaxed.                                          *)
(***************************************************************************)
EXTENDS GuestCpu, Sequences, FiniteSets

CONSTANTS
    BpAddrs,    \* where the debugger sets breakpoints
    PcTargets   \* the values it writes into PC

ASSUME DebuggerAddrsAssumption == BpAddrs \subseteq Addr /\ PcTargets \subseteq Addr

VARIABLES
    hostRunning,   \* g_emu_running
    gate,          \* g_dbg_pause_requested: TRUE lets the CPU run
    singleStep,    \* g_dbg_single_step
    stopEvent,     \* g_dbg_stop_event
    exitPhase,     \* g_dbg_exit_phase
    breakPending,  \* g_dbg_break_pending
    bps,           \* g_dbg_bps[0 .. g_dbg_bp_used - 1], as a set
    guest,         \* g_debug_cpu
    cpuPc,         \* where the CPU thread is
    cpuRet,        \* where dbg_stop_and_wait returns to
    stubPc,        \* where the stub thread is
    stubJob,       \* what the stub is doing it for
    shutdown,      \* g_stub_shutdown
    conn,          \* the debugger's connection, as the stub finds it
    inbox,         \* packets and ^C on their way to the stub
    outbox,        \* replies on their way to the debugger
    dbg,           \* what the debugger is doing
    breaks,        \* ^C the debugger has sent on this connection
    told,          \* history: the stub's last word on the guest is "stopped"
    ran,           \* history: instructions executed since a single step was
                   \* asked for, and since it was fully armed
    exited         \* history: the guest executed BREAK 0x3ff

flags == <<hostRunning, gate, singleStep, stopEvent, exitPhase>>
machine == <<breakPending, bps, guest, ran, exited>>
cpuLoc == <<cpuPc, cpuRet>>
stubLoc == <<stubPc, stubJob, told>>
net == <<shutdown, conn, inbox, outbox, dbg, breaks>>

vars == <<flags, machine, cpuLoc, stubLoc, net>>

(***************************************************************************)
(* Packets.  'c' stands for every resume that runs on ("c", "vCont;c"),    *)
(* 's' for every single step; a packet that only reads the guest ("g",     *)
(* "m", ...) is the query "?", which the stub answers at once as well.     *)
(***************************************************************************)
Plain == {"?", "c", "s", "D", "k", "^C"}
Edits == [op : {"Z", "z"}, addr : BpAddrs] \cup [op : {"P"}, addr : PcTargets]
Packets == [op : Plain] \cup Edits

Pkt(op) == [op |-> op]

Replies == {"S05", "OK", "W"}

CpuLocs == {"loop", "gate", "bp", "execOver", "exec", "post", "single",
            "close", "signal", "wait", "over",
            "finished", "linger", "stopStub", "closeFds", "join", "done"}
CpuReturns == {"loop", "over"}

\* Inside rsp_run_and_report_stop.
RunLocs == {"run", "phase", "host", "event", "poll", "sayExit", "exitSent"}

StubLocs == RunLocs \cup
    {"top", "accept", "recv", "halt", "unstep", "arm", "open", "mode", "end"}

StubJobs == {"none", "attach", "idle^C", "run^C", "c", "s", "D"}

\* The history of executed instructions saturates: none, one, more than one.
RanBound == 2
RanNothing == [k \in {"asked", "armed"} |-> 0]

Conns == {"none", "backlog", "open", "hup", "closed"}
Debuggers == {"off", "fresh", "asking", "idle", "waiting", "leaving"}

-----------------------------------------------------------------------------

\* The CPU thread is held in dbg_wait_for_run.
Parked == cpuPc = "wait" /\ ~gate

\* send(): a reply is lost when the connection is gone.
Send(r) == outbox' = IF conn = "open" THEN Append(outbox, r) ELSE outbox
=============================================================================
