------------------------------- MODULE KeyRing ------------------------------
(***************************************************************************)
(* The keyboard of the emulated machine: the ring buffer that the host's   *)
(* key callback fills and the guest's SYSCALL 4 empties                    *)
(* (src/emulator/peripheral.c).  Both hold g_kbd_mutex throughout, so that *)
(* each is one step.                                                       *)
(***************************************************************************)
EXTENDS Naturals, Sequences

CONSTANTS
    KBD_QUEUE_CAP,   \* slots of the ring
    Key              \* the keys of the keyboard

ASSUME CapAssumption == KBD_QUEUE_CAP \in Nat \ {0}

VARIABLES
    kbdQueue,        \* g_kbd_queue
    kbdHead,         \* g_kbd_head: the oldest pending event
    kbdTail,         \* g_kbd_tail: the next free slot
    kbdCount,        \* g_kbd_count
    kbdOverflowed    \* g_kbd_overflowed

ring == <<kbdQueue, kbdHead, kbdTail, kbdCount, kbdOverflowed>>

Slot == 0 .. KBD_QUEUE_CAP - 1

\* TcmKeyboardEvent with not_empty set.
KeyEvent == [key : Key, press : BOOLEAN]

\* raw_value = 0: what a slot holds at first, and what SYSCALL 4 returns when
\* nothing is pending.
NoEvent == [key |-> "", press |-> FALSE]

ASSUME KeyAssumption == "" \notin Key

RingTypeOK ==
    /\ kbdQueue \in [Slot -> KeyEvent \cup {NoEvent}]
    /\ kbdHead \in Slot /\ kbdTail \in Slot
    /\ kbdCount \in 0 .. KBD_QUEUE_CAP /\ kbdOverflowed \in Nat

RingInit ==
    /\ kbdQueue = [i \in Slot |-> NoEvent]
    /\ kbdHead = 0 /\ kbdTail = 0 /\ kbdCount = 0 /\ kbdOverflowed = 0

\* Mutant: an index runs past the last slot.
AdvanceNoWrap(i) == i + 1
Advance(i) == (i + 1) % KBD_QUEUE_CAP

\* Mutant: the oldest event is kept when the ring is full.
PushKeepsHead(ev) ==
    /\ kbdCount' = IF kbdCount = KBD_QUEUE_CAP THEN kbdCount ELSE kbdCount + 1
    /\ kbdQueue' = [kbdQueue EXCEPT ![kbdTail] = ev]
    /\ kbdTail' = Advance(kbdTail)
    /\ UNCHANGED <<kbdHead, kbdOverflowed>>

\* peripheral_kbd_enqueue and kbd_push
Push(ev) ==
    /\ IF kbdCount = KBD_QUEUE_CAP
       THEN /\ kbdHead' = Advance(kbdHead)
            /\ kbdOverflowed' = kbdOverflowed + 1
            /\ UNCHANGED kbdCount
       ELSE /\ kbdCount' = kbdCount + 1
            /\ UNCHANGED <<kbdHead, kbdOverflowed>>
    /\ kbdQueue' = [kbdQueue EXCEPT ![kbdTail] = ev]
    /\ kbdTail' = Advance(kbdTail)

\* syscall_read_keyboard and kbd_pop: the guest gets ev.
Pop(ev) ==
    IF kbdCount = 0
    THEN ev = NoEvent /\ UNCHANGED ring
    ELSE /\ ev = kbdQueue[kbdHead]
         /\ kbdHead' = Advance(kbdHead)
         /\ kbdCount' = kbdCount - 1
         /\ UNCHANGED <<kbdQueue, kbdTail, kbdOverflowed>>

-----------------------------------------------------------------------------

\* The i-th slot from `first` on, and the n events that follow it.
SlotFrom(first, i) ==
    IF first + i - 1 < KBD_QUEUE_CAP THEN first + i - 1 ELSE first + i - 1 - KBD_QUEUE_CAP

View(events, first, n) == [i \in 1 .. n |-> events[SlotFrom(first, i)]]

Pending == View(kbdQueue, kbdHead, kbdCount)

Queue == INSTANCE KeyQueue WITH
    Cap <- KBD_QUEUE_CAP, Event <- KeyEvent,
    queue <- Pending, lost <- kbdOverflowed
=============================================================================
