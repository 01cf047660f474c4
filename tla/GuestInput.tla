----------------------------- MODULE GuestInput -----------------------------
(***************************************************************************)
(* What a guest program has of the keyboard: the state of the library it   *)
(* is linked with and where it is in a call of it.  GuestKeyboard,         *)
(* Sdl1Events and Sdl2Events are the three libraries.                      *)
(***************************************************************************)
EXTENDS KeyRing, FiniteSets

CONSTANTS
    Letters,     \* keys that Shift changes
    QueueSize,   \* TCMIPS_SDL_EVENT_QUEUE_SIZE
    MaxPushes,   \* bound: events the program pushes itself
    MaxPeep,     \* bound: events it asks SDL_PeepEvents for
    ShiftKeys,   \* TCM_K_LSHIFT, TCM_K_RSHIFT
    Unmapped     \* keys that the host reports with key code 0

ASSUME KeysAssumption ==
    /\ Letters \subseteq Key /\ ShiftKeys \subseteq Key /\ Unmapped \subseteq Key
    /\ ShiftKeys \cap (Letters \cup Unmapped) = {}
    /\ QueueSize \in Nat \ {0} /\ MaxPushes \in Nat /\ MaxPeep \in Nat

VARIABLES
    library,     \* which of the three the program is linked with
    guestPc,     \* where it is in a call
    missed,      \* history: an event has been given up on the guest's side
    got,         \* history: what the program has been given
    shift,       \* keyboard.c
    evtQueue,    \* g_tcmips_sdl.evt_queue between its two indices, oldest first
    keyState,    \* g_tcmips_sdl.key_state: the keys that are down
    pushed       \* the events that the program has pushed itself

Libraries == {"driver", "sdl1", "sdl2"}
GuestLocs == {"app", "getCode", "clear", "pump", "poll", "spin"}

guestVars == <<library, guestPc, missed, got, shift, evtQueue, keyState, pushed>>

\* SDL_Event: a key with the modifiers that were down, or a program's own event.
EventTypes == {"down", "up", "user"}
SdlEvent == [type : EventTypes, key : Key \cup {""}, mods : SUBSET ShiftKeys]
UserEvent == [type |-> "user", key |-> "", mods |-> {}]

\* What a sequence holds at some places, in their order.
Nth(places, i) == CHOOSE p \in places : Cardinality({q \in places : q <= p}) = i
Picked(s, places) == [i \in 1 .. Cardinality(places) |-> s[Nth(places, i)]]

\* The places of the queue that are looked at for n events of the given types.
Scanned(n, types) ==
    {i \in 1 .. Len(evtQueue) :
        Cardinality({j \in 1 .. i - 1 : evtQueue[j].type \in types}) < n}
Matching(n, types) == {i \in Scanned(n, types) : evtQueue[i].type \in types}
Others(places) == 1 .. Len(evtQueue) \ places

Give(events) == got' = got \o events

GiveOldest ==
    IF evtQueue = <<>>
    THEN UNCHANGED <<got, evtQueue>>
    ELSE Give(<<Head(evtQueue)>>) /\ evtQueue' = Tail(evtQueue)
=============================================================================
