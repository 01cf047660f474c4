---------------------------- MODULE MachineState ----------------------------
(***************************************************************************)
(* The state that the CPU thread and the main thread of the emulator share *)
(* and what both interpreters keep.                                        *)
(***************************************************************************)
EXTENDS Mips

CONSTANTS
  CheckInterval,  \* instructions between two looks at the host flag (fast)
  BlockLimit      \* instructions of a translated block (JIT)

ASSUME LimitsAssumption == CheckInterval \in Nat \ {0} /\ BlockLimit \in Nat \ {0}

VARIABLES
  program, engine,
  thread,     \* the CPU thread: "new", "executing", "left", "finished"
  running,    \* g_emu_running
  exitCode,   \* of the interpreter
  regs, pc,
  branch,     \* a transfer whose delay slot comes next
  owed,       \* instructions executed and not yet in the shared counter
  tick,       \* local_count, as far as CHECK_INTERVAL needs it
  jitOn,      \* g_cpu_running
  unit,       \* the translated code that runs, NoUnit in the dispatcher
  bb,         \* where its current basic block starts
  table,      \* g_jit_direct_table
  links,      \* patched jumps, <<start of a block, target>>
  waiting,    \* g_jit_backpatch
  main,       \* where the main thread is in host_run
  hold,       \* the option: keep the window after the guest's end
  dismiss,    \* g_dismiss
  gone,       \* the process has ended without a return from host_run
  result      \* what host_run returns

guestVars == <<regs, pc, branch, owed>>
jitVars == <<jitOn, unit, bb, table, links, waiting>>
hostVars == <<main, hold, dismiss, result>>

NoBranch == [live |-> FALSE, to |-> 0, by |-> "none"]
\* a transfer to an address, or to what a register holds after the delay slot
BranchTo(p) == [live |-> TRUE, to |-> p, by |-> "none"]
BranchBy(r) == [live |-> TRUE, to |-> 0, by |-> r]

NoUnit == [kind |-> "none", entry |-> 0]
=============================================================================
