# TCMIPS in TLA+

TCMIPS is a 32-bit MIPS-like machine: a desktop emulator (`src/emulator`), the C
runtime and libraries of the programs that run on it (`src/tcmips`), and a set of
ported programs. This directory holds TLA+ models of the parts of it that have
state and a hard order of events, the TLC configurations that check them on small
instances, and TLAPS proofs of what holds for every instance.

## Inventory

| Component | State | Operations | Talks to | What is hard | What makes it correct |
|---|---|---|---|---|---|
| Debug interpreter (`emulator/cpu_debug.c`) | `g_debug_cpu` with its pending branch and delay-slot flag; the flags `g_dbg_pause_requested` (the gate), `g_dbg_single_step`, `g_dbg_stop_event`, `g_dbg_exit_phase`, `g_dbg_break_pending`; the breakpoint table | the execution loop, `dbg_stop_and_wait`, set and remove breakpoint | the stub thread through the flags and the table; the host through `host_is_running` | every flag is written by two threads with relaxed atomics, in several separate stores; a branch is pending across a stop | a guest reported stopped does not move; breakpoints are never run through; a step is one instruction; the exit is reported |
| GDB stub (`emulator/rsp_stub.c`) | the two sockets, `g_stub_shutdown`, `g_thread_started` | attach, packets, ^C, resume and wait for the stop, detach, kill, stop | the debugger over TCP; the CPU thread | ^C crosses a stop reply; hang-ups at any moment; the stub is torn down by the other thread while it blocks | each resume is answered once, by a stop; teardown ends |
| Fast interpreter (`cpu_fast.c`) | registers, the same pending branch, instruction counters, speed clamp | a threaded dispatch loop that samples the host flag every CHECK_INTERVAL instructions | host, memory, syscalls | delay slots (`op_skip`), the sampled flag, clock sleep | same control flow as the debug interpreter; stops after a bounded number of instructions |
| JIT (`cpu_jit.c`) | block cache, exits of each block, pending links, `g_cpu_running` | translate, look up, link and back-patch, execute | memory, syscalls | links to blocks that do not exist yet, table limits, delay-slot branches, no check of the host flag | a linked exit goes where the guest branch goes; execution ends |
| Host (`host.c`, `main.c`) | `g_emu_running`, `g_dismiss`, window, CPU thread | run, render loop, key and close callbacks, hold, shutdown | all of the above | the render thread stops and joins a CPU thread that is anywhere | the process ends, and with the guest's exit code |
| Peripherals (`peripheral.c`) | two console descriptors, the keyboard ring, the palette, stdin | the SYSCALL handlers, `peripheral_kbd_enqueue` | guest, render thread, key callback | ring at its limit; console descriptor set in several syscalls and read by the render thread between them | no key is lost below the limit, order is kept, the newest keys survive |
| Guest keyboard driver (`tcmips/dev/keyboard.c`) | `shift` | get a code, clear | SYSCALL 4 | Shift is tracked by events that the ring may have dropped | a key is shifted when Shift is held |
| Guest text consoles (`tcmips/dev/console*.c`) | cursor, window into VRAM, colours | put, scroll, reset | SYSCALL 3 | the window slides over a larger buffer and is reset by copying | all writes stay inside the buffer; the host shows the window that is written |
| Guest runtime (`tcmips/bsp/posix.c`, `start.c`, `stub/stub.c`, `start/start.c`) | heap break, `errno`, stdin fallback | clock, sleep, file calls, exit | syscalls, memfs | a clock of four registers read one by one | time does not go back |
| In-memory file system (`libmemfs/memfs.c`) | nodes, chunks, file descriptors, directory streams, working directory | the POSIX file calls | BSP | unlink, rename and truncate under open descriptors; limits; failures half-way | no descriptor outlives its node; no storage is lost |
| SDL 1.2 and 2 ports (`libsdl`, `libsdl2`) | event queue, surfaces, timers | SDL calls | keyboard syscall, VRAM | queue limit; events taken from its middle; one SDL call reads the keyboard many times | events in the order struck; the key state is that of the keyboard |
| Guest memory, platform layer, syscall wrappers | bytes; none | accessors | everyone | - | bounds |
| libcg, picolibc, libc++, minifb, sljit, zlib, stb, ... | third-party | | | | not modelled |
| demos, tests, tools, toolchain files | | | | | not modelled |

## Plan

The debug session comes first: it is the only part of the emulator in which two
threads and a remote party steer one machine, and no test of the repository
reaches it.

1. **Debug session** (built): `GuestCpu`, `DebugState`, `CpuThread`, `RspStub`,
   `GdbClient`, composed in `DebugControl`; abstract specification
   `DebugSession`; proofs in `DebugControlProof`.
2. **Keyboard input** (built): the ring `KeyRing` with its abstract specification
   `KeyQueue`, the guest's libraries `GuestKeyboard`, `Sdl1Events`, `Sdl2Events`,
   composed in `KeyInput`; proofs in `KeyInputProof` and `KeyStrokesProof`.
3. **In-memory file system** (built): the tree `MemfsTree` with the abstract name
   space `NameSpace`, the content of a file `MemfsFile` with the abstract
   `PosixFile`; proofs in `MemfsTreeProof`, `MemfsScanProof` and `MemfsFileProof`.
4. **The machine** (built): the engines `FastCpu` and `JitCpu` over `Mips`, the
   host `Host`, composed in `Machine`; abstract specification `GuestRun`; proofs in
   `MachineProof` and `MachineGuestProof`.
5. **The last refinement**: `NamesKept` of the tree, for every number of slots and
   names. It is the only safety property of a passing run that no theorem states.
6. **Text console** `TextConsole`: the sliding window. Theorem: writes stay in
   VRAM for every geometry.
7. **Breakpoint table**: array with swap-with-tail as a set; **guest clock**: the
   retry of `clock_gettime`; **SDL timers**.

## The debug session

### Modules

| Module | Models | Correspondence |
|---|---|---|
| `GuestCpu` | one instruction of the guest, as far as control goes | `Resolve` is `tcm_resolve_pending_branch`, `Exec` is `tcm_exec_instruction`; registers and memory are left out, so a conditional branch may go either way |
| `DebugState` | the variables that the parties share | one variable per flag; `told`, `ran` and `exited` are history variables that only properties read |
| `CpuThread` | `cpu_debug_execute`, `dbg_stop_and_wait`, `rsp_stub_stop` | one action per access to a shared flag; `cpuPc` is the place in the function, `cpuRet` where `dbg_stop_and_wait` returns to |
| `RspStub` | `rsp_server_thread`, `rsp_handle`, `rsp_run_and_report_stop`, `rsp_continue`, `rsp_step`, `rsp_interrupt` | one action per access to a flag, one per packet; packets that only read are the query `?`, `c` stands for all the forms of continue, `OK` for every answer to an edit |
| `GdbClient` | the debugger (external) | follows the protocol as the comments of `rsp_stub.c` describe it |
| `DebugControl` | the composition, with a host that may stop the machine | invariants, action and liveness properties |
| `DebugSession` | what the session promises, without threads or flags | abstract specification |
| `MCDebug` | two guest programs of four instructions for TLC | |
| `DebugControlProof` | the theorems | |

`CpuThread`, `RspStub` and `GdbClient` each name the variables they leave alone;
`DebugControl` adds nothing but the host.

### Assumptions

- Memory is sequentially consistent. The code asks for relaxed atomics, which
  allow more reorderings than are modelled here.
- A packet is read in one step: framing, checksums and acknowledgements are left
  out, and so is the reply `E..`.
- `send` to a connection that is gone loses the reply. (On POSIX hosts the code
  does not ignore SIGPIPE, so a second such `send` may end the process; the
  sessions here go on.)
- An address is the index of an instruction and wraps as the 32-bit PC does. A
  fetch outside memory ends the emulator's process and is not modelled.

The constants select an environment:

| Constant | Meaning |
|---|---|
| `Patient` | the debugger says nothing before the stub and the CPU have acted on its arrival. The code does not enforce this: the stub answers `?` with `S05` at once, although the CPU may still be running. A debugger that speaks earlier can be told that a running guest is stopped. Every property but the teardown assumes a patient debugger. |
| `StubTimely` | the stub needs less than the 300 ms for which the CPU thread lingers at its exit |
| `CloseWakes` | closing a socket wakes a thread blocked on it: Winsock does, Linux does not |
| `HostMayStop` | the window may fail |
| `MaxBreaks` | bound: ^C bytes sent on one connection |
| `BpAddrs`, `PcTargets` | where the debugger sets breakpoints and what it writes into PC |

### Runs

| Run | Question | Result |
|---|---|---|
| `DebugPatient` | Do stop reports, breakpoints and steps keep their promises, and do the threads implement `DebugSession`, with every operation of the debugger, ^C, hang-ups and re-attach, PC writes and a failing window? | yes; 1.1 million states |
| `DebugLive` | With fair threads and no ^C, is every step answered, no packet thrown away, every teardown completed? | yes |
| `StepIsExact` | Is a step that is reported as done exactly one instruction? | no: `rsp_step` opens the gate before it arms the flag, so several instructions may pass; and a step that begins at a breakpoint stops at once, having executed none, with the flag still armed for the next resume |
| `ReportedPcIsNext` | Does the debugger read the PC that executes next? | no: a step that executes just the plain delay slot of a taken branch stops before the branch target has landed in PC, and the debugger reads the fall-through address |
| `ResumeReplyIsStop` | Is the stop reply to a resume about a stopped guest? | no: a ^C that crosses a stop reply is answered with a second `S05`, which the debugger takes for the reply to its next resume |
| `KillEndsSession` | Does `k` end the session? | no: a parked CPU thread polls the gate only, and nobody opens it |
| `CloseWakesStub` | Does the teardown complete where closing a socket does not wake its reader? | no: the join waits for ever |

Why the bounds are enough. Four instructions hold every kind of control flow: a
branch, its delay slot, a trap in the slot, a branch in the slot (`LeapText`), a
slot that is an ordinary instruction (`SlotText`, for `ReportedPcIsNext`, so that
its stop is that of a step and not of a trap), the exit. One breakpoint at the target of the branch and one PC value are the cases
the code tells apart (is the next PC a breakpoint or not). One ^C per connection
suffices for the crossings, since each needs one; connections are not bounded:
the debugger may hang up and come back for ever. The sequences in flight are
bounded by the protocol itself: one command, plus `MaxBreaks`.

`DebugLive` runs without ^C because with it the answer may really be lost: when
the gate closes again between two polls of the parked CPU thread, no stop event
follows.

Three more executions that contradict the code's comments were met while
modelling and have no run of their own: a `c` after a step that stopped early at a
breakpoint is cut short after one instruction, by the left-over flag; a guest that
exits between the stub's check of the exit phase and its check of the host flag is
dropped without `W`; a host that stops for another reason is reported as `W00`, a
normal exit.

### Fairness

`FairSpec` asks for weak fairness of each thread as a whole: both are scheduled by
the operating system, and every wait of theirs (`platform_sleep_ms`, `select` with
a timeout, a blocking `recv`) returns when there is something to do. The debugger
is only assumed to read what has been sent to it. Nothing is assumed of what it
sends, of the guest or of the host.

### Proofs

For every program, every set of breakpoints and any number of ^C:

| Theorem | States |
|---|---|
| `TypeCorrect` | `Spec => []TypeOK` |
| `ToldMeansStopped` | for a patient debugger, `Spec => []ToldStopped` |
| `BreakpointsHold` | for a patient debugger, `Spec => []NoMissedBreakpoint` |
| `SessionImplemented` | for a patient debugger, `Spec => SessionKept`: the threads implement `DebugSession` |
| `StepsAreBounded` | `Spec => []StepBounded`, whether or not the debugger is patient |
| `PacketsArrive` | for a debugger that sends no ^C, `Spec => NoPacketDropped` |

`ToldStopped` is not inductive. The state it protects, a parked CPU thread, must be
kept by every store the stub may still make, and the stub arms and disarms in
several stores. The inductive invariant has two layers:

- `SessionInv` (`EndInv`, `ConnInv`, `HeldInv`): where each side can be while a
  debugger is connected and patient, what may be in flight then, and that a
  shut-down session stays shut down.
- `CommandInv` (`ToldInv`, `QuietInv`): between the end of one command and the
  beginning of the next the guest is parked, and a stop event that is set while
  the stub waits for one is fresh.

`BreakpointsHold` adds that the table does not change under the CPU thread once
it is past its look-up: edits need a served packet, hence a parked CPU. The
refinement reuses both: each step of the threads is a step of `DebugSession` or
leaves its variables alone.

TLC checks the same invariants in `DebugPatient`.

`StepsAreBounded` needs to know why the guest cannot go on: `StepInv` says that
while the stub waits for the end of a step, either nothing has been executed since
the flag was armed and it is armed still, or one instruction has been and the CPU
thread is on its way to the stop (`Stopping`, or about to look at the flag).

`PacketsArrive` rests on `LineInv`: the protocol is half-duplex. At most one of the
two directions holds anything, and while the stub serves a resume (`Busy`) the
debugger has nothing to say. The hypothesis `MaxBreaks = 0` cannot be dropped: a ^C
that crosses the stop reply is answered by a second one, the debugger then speaks
while the stub already runs its next resume, and `StubStray` throws the packet
away. TLC finds that execution when one ^C is allowed. `DebugLive` checks the same
property under the same hypothesis.

The liveness properties `StepAnswered` and `TeardownCompletes` are model-checked
only: fairness and `ENABLED` are beyond the prover.

## Keyboard input

The host's key callback, on the render thread, and the guest, on the CPU thread,
share the ring of `peripheral.c` under `g_kbd_mutex`. The guest reads one event
per SYSCALL 4, so that strokes may arrive between any two reads of one call.

### Modules

| Module | Models | Correspondence |
|---|---|---|
| `KeyQueue` | the abstract specification: a bounded queue that gives up its oldest event | |
| `KeyRing` | `kbd_push`, `kbd_pop` and their callers | each holds the mutex throughout, hence one action; `Pending` reads the ring as a sequence |
| `GuestInput` | the state of a guest and of the library it is linked with | `library` chooses one of the three below for a whole execution; `got` is the history of what the program was given, `missed` that its library gave something up; what `SDL_PeepEvents` takes from the middle of a queue is a set of its places (`Scanned`, `Matching`, `Others`), and `Picked` is what a sequence holds there |
| `GuestKeyboard` | `tcm_keyboard_get_code`, `tcm_keyboard_clear` | one action per read of the keyboard |
| `Sdl1Events`, `Sdl2Events` | the event queues of the two ports: pump, poll, push, peep | the guest has one thread, so a call is one action per read of the keyboard; the two ring indices are the ends of the sequence `evtQueue`, which holds `QueueSize - 1` events as the code's ring does |
| `KeyInput` | the composition with a user at the keyboard and `mfb_keyboard_fn` | `typed` is the history of what the user did |
| `MCKeyInput` | three keys: a letter, Shift, and a key without a code | |
| `KeyInputProof` | the ring implements the queue; places in sequences; types | |
| `KeyStrokesProof` | what becomes of the strokes behind the ring | |

A key is one value for the host's key, the emulator's key code and the SDL symbol:
the tables between them are injective on the keys that have a code. The keys that
the host has no code for (all punctuation keys) are `Unmapped`. SDL timers, which
run at the start of a pump before the keyboard is read, are left out; a timer that
pushes an event is a push by the program just before the call.

### Runs

| Run | Question | Result |
|---|---|---|
| `KeyInput` | While nothing overflows, does the driver return the keys as they were struck, do the SDL queues keep every stroke in order and with the modifiers of its time, does the key state follow the keyboard even when SDL's own queue drops events, and is the ring the queue of `KeyQueue`, overflow included? | yes; 300 thousand states |

Bounds: a ring of three slots wraps, fills and overflows within the four strokes
that `MaxTyped` allows; four strokes are what a letter under Shift and one after it
need. The SDL queue (`QueueSize` 3, two events) is full while the ring is not
drained yet. `MaxPeep` 2 asks for fewer events than are queued, for as many and,
with one in the queue, for more. `MaxPushes` 1 puts one event of the program among
those of the keyboard.

No liveness is claimed: `Sdl1PeekSpins` shows an SDL 1.2 program that calls
`SDL_PeepEvents` with `SDL_PEEKE_EVENT` and a mask that excludes the oldest event,
and never returns.

`TypedAsStruck` is about the `Ordinary` keys. It leaves out the Shift keys, which
`keyboard.h:100` says are consumed, and the keys without a code.

Other behaviours met while modelling, all allowed by the model, some against
`keyboard.h`: `tcm_keyboard_get_code` returns the code of a Shift key (`:100` says
that it is consumed); it returns a punctuation key as 0, which also means that no key
waits (`:106`); `tcm_keyboard_clear` throws a release of Shift away with the rest and
leaves `shift` set (`:93` says that it resets the state);
with both Shift keys down, releasing one ends the shift in the driver; a full ring
may give up the release of a key, which then stays down for the guest; head equals
tail in the ring when it is empty and also when it is full (the comment at
`g_kbd_tail` names only the first).

### Proofs

For a ring and an SDL queue of any size, any keyboard, any number of strokes and
calls, and any of the three libraries:

| Theorem | States |
|---|---|
| `RingImplementsQueue` | `Spec => RingIsQueue` |
| `KeyTypes` | `Spec => []TypeOK` |
| `KeyStateIsTrue` | `Spec => []KeyStateTracks` |
| `CodesAsStruck` | `Spec => []TypedAsStruck` |
| `EventsInOrder` | `Spec => []StrokesInOrder` |

The assumptions: the ring has a slot (`CapAssumption`), "" is no key
(`KeyAssumption`), and a Shift key is neither a letter nor without a code
(`KeysAssumption`), which the tables of `host.c` and `keyboard.c` fix.

The refinement reads the ring through `Pending`, whose meaning
depends on all of head, tail and count agreeing. The invariant `RingShape` says so:
the tail is the slot that follows the last pending event. The lemmas `ViewPut` and
`ViewTake` then say what writing at the tail and moving the head do to the
sequence; a push into a full ring is both at once, since head and tail are the same
slot there. `RingSteps` shows that whatever the user or the guest does is a push, a
pop or nothing for the ring.

The three invariants about the guest compare what a program has at the end of a
call with the strokes. None is inductive: between two reads of the keyboard the
strokes are partly in the ring, partly in the library and partly delivered. The
inductive invariant `InputInv` cuts the history of strokes at `Left`, the number of
them that have left the ring:

- `HistoryInv`: the modifiers recorded with each stroke are those that the strokes
  before it leave (`HeldIn`, `ShiftIn`);
- `LinkInv`: what is pending in the ring are the strokes after `Left`, one for one,
  as long as the ring has given nothing up;
- `KeyInv`, `DriverInv`: SDL's key state and the driver's `shift` and codes are what
  the first `Left` strokes make of them. `KeyInv` does not ask that SDL's own queue
  never overflowed, so the key state survives dropped events;
- `OrderInv`: what was delivered followed by what is queued holds, of each kind of
  event, just the events of the first `Left` strokes, in their order.

A kind of event is taken from the middle of the queue by `SDL_PeepEvents`, so
`OrderInv` is about what a sequence holds at a set of places. That is defined by
counting (`Nth`: the place with so many places up to it), and the lemmas on it
(`Enumerated`, `OneEnumeration`, `Renumbered`, `PickedNext`, `TakenOut`,
`ScannedFirst`) say that there is one such enumeration, what one more place adds
to it, and that taking the first events of some types out to the end of what was
delivered leaves the order within each type. TLC checked each part of `InputInv` on
the instance of `KeyInput` first.

## The in-memory file system

`libmemfs` runs in the guest, which has one thread: a call is one action. What is
hard is what a long sequence of legal calls does to plain pointers, reference
counts and chains that several descriptors share.

### Modules

| Module | Models | Correspondence |
|---|---|---|
| `MemfsTree` | nodes, child lists, descriptors, directory streams | one variable per field of a node; `mkdir`, `symlink`, `rmdir`, `chdir`, `unlink`, `rename`, `open`, `close`, `opendir`, `readdir`, `closedir` are one action each |
| `NameSpace` | what a program may rely on: paths, objects, descriptors | abstract specification |
| `MemfsNames` | the node table read as a name space | `tree` and `dirs` record what a walk along the child lists finds |
| `MemfsFile` | one file: packed segment, chunks, logical size, descriptors | `ensure_capacity`, `node_read`, `node_write`, `do_truncate` and the calls on top of them |
| `PosixFile` | one file as a sequence of bytes | abstract specification |
| `MCMemfs`, `MCMemfsFile` | instances for TLC | |
| `MemfsTreeProof` | reference counts | |
| `MemfsScanProof` | the shape of the tree, scans, open directories | |
| `MemfsFileProof` | the places of bytes, and the refinement of `PosixFile` | |

A path is a directory and a last name. Path text, where a link leads, modes and
`stat` are left out; a call that fails without an effect is a stuttering step, and
one that fails after an effect is an action: `open` that creates the file and then
finds no free descriptor (`OpenNew`, and `CreatingOpenFails` of `MemfsFile`) or that
truncates it first (`TruncatingOpenFails`), `rename` that runs out of memory when the old
name is gone (`alloc` FALSE in `Rename`). A stream records which entries it still
owes (`due`) and whether the entry that it points to was removed (`cut`).

In `MemfsFile`, memory may run out at every chunk (`Grown`). `lost` records that
another file was renamed over this one while it was open: the code then frees the
chunks under the open descriptors. `data` of `PosixFile` is what `node_read` would
return from the start to the end, so the refinement says that every descriptor
reads what was last written through any of them.

A write past the end leaves a gap. `host/test_memfs.c:969` and
`test_memfs_autotest.c:761` expect zeros there, but `node_write` clears nothing: where
the file was longer before it was cut, inside the segment or the last chunk that is
kept, the old bytes show again. The history variable `reach` is the largest size that
the file has had. `PosixFile` demands zeros in the gap beyond it and leaves open the
bytes up to it, which it names `Leftover`; with that exception removed TLC finds the
old byte in four states: open with `O_TRUNC`, seek past the old byte, write.

### Runs

| Run | Question | Result |
|---|---|---|
| `MemfsTree` | Do reference counts, free slots, scans and open directories stay right, and does a call change no path but those it names? | yes; 77 thousand states up to symmetry |
| `MemfsFile` | Is the file one byte sequence for all descriptors, with a place for every byte below its size, and zeros in a gap where it has not been before? | yes; 79 thousand states up to symmetry |
| `LastCloseFrees` | Is a file that was removed while open freed on the last close, as `memfs.h:28` says? | no: the node holds a reference of its own, so `close` takes the count to 1, never to 0 |

Bounds. Three slots beside the root give a directory in a directory with an entry,
two entries to scan past, and a rename between directories with a replacement; two
descriptors share a file or hold two; two names collide. `ChunkSize` 2 and up to 4
bytes give no, a part of a, a whole and two chunks, with a packed segment of none or one
byte; `Top` 4 is the 32-bit limit, which a write of two bytes can pass; `MaxEnd`
keeps the last chunk below it away, where the rounding of the chunk count would
wrap: a 32-bit guest cannot allocate that file. `FillSize` is the 256 bytes of zeros
that an extending truncate writes at a time.

`CountsRight` asks that the count of a node that is not removed be its descriptors
and one, and that of a removed node at least its descriptors: whether it is one more,
as the code has it, or not, as `memfs.h:28` would have it, is the question of
`LastCloseFrees`.

Executions that contradict a comment, all in the model, with no run of their own:
a file that is replaced by `rename` loses its chunks at once; a scan ends early when the entry it points to is
removed (`cut`), where `test_memfs_autotest.c:1044` says that the rest appears;
`rename` may replace the working directory, which `rmdir` refuses to remove.

### Proofs

For any number of nodes, names, descriptors and streams, from `SlotsAssumption`,
`FilesAssumption` and `NoneAssumption` (finite sets, and special values of their own):

| Theorem | States |
|---|---|
| `CountsStayRight` | `Spec => []CountsRight` |
| `TreeTypes` | `Spec => []TypeOK` of the tree |
| `FreeStaysEmpty` | `Spec => []FreeIsEmpty` |
| `ScansAreExact` | `Spec => []ScanExact` |
| `NothingPrunedAbove` | `Spec => StreamsStayPut` |

`CountsRight` is not inductive: a step that decreases a count needs to know it
exactly, and that a slot with count 0 is free, or a slot could be given back under a
descriptor. `CountInv` has the exact count of every slot in use (`ExactCounts`) and the
types. Every action changes few slots: `SlotBySlot` shows that it is enough that
each slot is untouched, released, or has the count that it should have, and one
lemma per action says which. No shape of the tree is needed.

The other four need it. `Good` joins to `CountInv`

- `TreeInv`: parents and child lists are the same tree (`Forest`), the names in a
  directory differ, only directories that are not removed have entries;
- `ScanInv`: a scan that was not cut off points to the first entry that it owes, and
  owes what its list holds from there on.

All calls change the tree by two operations, linking an entry at the head of a list
and unlinking one from its middle. `Prune` and `Graft` show that these keep `Forest`,
`PruneScan` and `GraftScan` that they keep what a scan owes; `rename` is up to three of them in a row.
`NothingPrunedAbove` is an action property about all the directories above an open
one, which `Ancestors` gives as the least set that is closed under parents; the set
of directories that a call leaves in place is shown to be closed.

For every chunk size, packed segment, limit and number of descriptors, from
`SizesAssumption`, `BytesAssumption` and `RoundingAssumption`:

| Theorem | States |
|---|---|
| `BytesAreBacked` | `Spec => []Backed` |
| `FileTypes` | `Spec => []TypeOK` of the file |
| `FileIsShared` | `Spec => BytesShared`: the file implements `PosixFile` |

`RoundingAssumption` says that no file ends in the last chunk below the 32-bit
limit. The code has no such test, but a guest with 32-bit addresses cannot allocate
the chunks of such a file. Without the assumption the rounding of `ensure_capacity`
wraps, and `Backed` is false.

`FileInv` is `Backed` with the types (segment, whole chunks, size and offsets) and
`Fresh`: no byte that has a place from `reach` on is other than zero. Only the last
says anything of the gap that a write jumps over. The
refinement then is arithmetic: byte `i` of the chain is in one place
(`ChunkPlace`), a write changes the bytes that it covers and no other, in the
segment, in the chain or across both, and growing the chain adds zeros behind
what is there. `do_truncate` writes its zeros `FillSize` at a time and may stop
half-way; `TruncateIs` shows that what it leaves is the file with some zeros behind
it, which `PosixFile` allows.

`NamesKept`, the refinement of `NameSpace`, is model-checked only; `Good` is the
invariant that its proof will start from.

## The machine

Two threads: the main thread opens the window, draws frames and finally stops and
joins the CPU thread, which executes the guest with one of the engines. (The debug
engine is the subject of the debug session.)

### Modules

| Module | Models | Correspondence |
|---|---|---|
| `Mips` | what an instruction does to control flow and to three registers | "set" stands for all computation; addresses count instructions |
| `GuestRun` | the execution that the architecture defines, with the address of the next and the next but one instruction | abstract specification |
| `MachineState` | the shared state | one variable per flag or table; `owed` is what has been executed and not counted yet |
| `FastCpu` | the handlers and DISPATCH of `cpu_fast.c` | one action per instruction; the host flag is read every `CheckInterval` instructions |
| `JitCpu` | the dispatcher, both translators and what translated code does | translation is one action, then one action per guest instruction; `links` are the jumps that were patched, `waiting` those that are registered |
| `Host` | `host_run`, the render loop, the hold phase, the callbacks, the frame of the CPU thread | one action per frame or test |
| `Machine` | the composition | |
| `MCMachine` | the programs for TLC | |
| `MachineProof` | the patched jumps, and the result of `host_run` | |
| `MachineGuestProof` | the refinement of `GuestRun`, counts, types | |

In translated code a branch, its condition and its target are fixed when the branch
executes, but the register of an indirect jump is read after the delay slot; a block
counts its instructions on its exits, a function on every edge between its basic
blocks. The model keeps these differences and the refinement shows that they do not
matter for well-formed code (`WellFormed`: delay slots hold straight-line code that
does not change the register of the jump; compilers write nothing else).

A test of the host flag and the store that depends on it are one step when the guest
exits; the exit code is looked at only after the join, where both orders look alike.

### Run

`Machine`: do both engines implement `GuestRun`, are the patched jumps and the
counts of the JIT right, does `host_run` return the guest's exit code and only after
the join, and does a guest that exits end the CPU thread and the render loop? Yes;
317 thousand states.

Bounds. Programs of nine instructions: five that vary over calls, indirect calls,
returns, forward and backward branches, system calls and jumps into the middle of a
function or block, and four that set an exit code and exit for ever, as
`__shutdown` does; about a hundred programs. `BlockLimit` 3 (4096 in the code) cuts
blocks at straight-line code, `CheckInterval` 3 (4194304) lets the fast engine run
on after an exit. The window may fail to open, the display may fail and the user may
close the window in any frame, or press a key in the hold phase.

Fairness: weak fairness of the CPU thread and of the main thread, which the
operating system schedules and which never wait but in the join. The user is not
assumed to do anything, so the hold phase may last for ever. That is why
`StoppedEnds` counts it as an end.

`StoppedEnds` says nothing of a JIT whose host is stopped by the display or by a key:
the loop of `cpu_jit_execute` looks only at its own flag, so the guest goes on until
it exits, and the join waits for it, where `cpu.h:23` says that `execute` ends when
the stop is observed. In the same situation an exit of the guest is ignored: block
code then goes on two instructions later and function code one, which in
`__shutdown` leaves the loop that repeats the exit. `GuestRun` promises nothing
after a stop. `WellFormed` leaves out what the engines treat differently: a system
call or an exit in a delay slot, which only the interpreters execute, and an
instruction without a handler there, after which the fast engine takes its branch
one instruction late.

### Proofs

For every set of well-formed programs of any length, `BlockLimit` and
`CheckInterval`, from `ProgramsAssumption` and `LimitsAssumption`:

| Theorem | States |
|---|---|
| `JumpsEnterCode` | `Spec => []LinksSound` |
| `RunReturnsCode` | `Spec => []ReturnsCode` |
| `EnginesExecuteProgram` | `Spec => ExecutesProgram`: both engines implement `GuestRun` |
| `CountsAreExact` | `Spec => []CountExact` |
| `MachineTypes` | `Spec => []TypeOK` |

`LinksSound` is not inductive: when an address is translated the
jumps that wait for it are patched, so `LinkInv` adds that what waits belongs to a
block; and the tables are indexed by addresses, so `GuestOK` adds that the program
counter, the registers and the exits of a block are addresses of the program, which
depends on the engines' control flow (`TransferOK`, `ExitsOK`).

For `ReturnsCode`, `EndInv` adds that the result is fixed when
the CPU thread ends, since only that thread writes it.

The refinement needs to know what stands in front of the program counter while a
branch is pending: `SlotOK` says that it is straight-line code that leaves the
register of the jump alone, so that reading this register late, as the JIT does,
gives the same target; `EngineOK` that only the JIT does so. Any other thread leaves
the guest as it is (`NextShape`).

`CountExact` speaks of the ends of units. Inside one, `CountInv` says how many
instructions are not counted yet: as many as lie between the start of the basic
block and the program counter, none of which is a transfer (`Straightaway`); in a delay
slot, as many as up to its transfer. Addresses wrap at the end of the program, so
`NoRound` shows that a basic block ends before it has gone round. An edge adds a
constant that was fixed at translation; the invariant shows that it is this number.

`StoppedEnds`, a liveness property, is model-checked only.

## Not modelled

Listed per component in `PROJECT.json`, with the reason. In the debug session:
the register and memory transfer formats, `qXfer`, the failure of
`rsp_stub_start`, and the size limit of the breakpoint table. In the file system:
path text, links as part of a walk, directory descriptors and calls relative to
them, `rewinddir` and `seekdir`, modes and `stat`. In the machine: the arithmetic
and memory instructions, the native code of each of them, the speed clamp, the
portable dispatch, a CPU thread that cannot be created, and a second `host_run` in
one process.

The repository holds 912 thousand lines of implementation, nearly all of them
vendored: a C toolchain with its headers, picolibc, libc++, SDL headers, zlib, stb,
sljit, libcg. They are third-party code, and libraries of pure functions or headers
for the most part. The models cover the parts of TCMIPS's own code that have state
and an order of events, which are a small share of that number and will stay one.
