------------------------------ MODULE KeyInput ------------------------------
(***************************************************************************)
(* The way of a key stroke: a user at the keyboard, the host's key         *)
(* callback (src/emulator/host.c), the ring of the emulated machine, and a *)
(* guest program that is linked with one of three input libraries.         *)
(***************************************************************************)
EXTENDS GuestKeyboard, Sdl1Events, Sdl2Events

CONSTANT
    MaxTyped   \* bound: what the user does with the keys

ASSUME MaxTypedAssumption == MaxTyped \in Nat

VARIABLES
    held,      \* the keys that the user holds down
    typed      \* history: what the user has done with them

vars == <<ring, guestVars, held, typed>>

\* A key goes down or up; mods and shifted are how Shift stood before: the Shift
\* keys held, and whether the last thing that happened to one was a press.
Stroke == [key : Key, press : BOOLEAN, mods : SUBSET ShiftKeys, shifted : BOOLEAN]

TypeOK ==
    /\ RingTypeOK
    /\ library \in Libraries /\ guestPc \in GuestLocs /\ missed \in BOOLEAN
    /\ got \in IF library = "driver" THEN Seq([key : Key, upper : BOOLEAN])
               ELSE Seq(SdlEvent)
    /\ shift \in BOOLEAN /\ keyState \subseteq Key
    /\ evtQueue \in Seq(SdlEvent) /\ Len(evtQueue) < QueueSize
    /\ pushed \in 0 .. MaxPushes
    /\ held \subseteq Key /\ typed \in Seq(Stroke)

Init ==
    /\ RingInit
    /\ library \in Libraries /\ guestPc = "app" /\ missed = FALSE /\ got = <<>>
    /\ shift = FALSE /\ keyState = {} /\ evtQueue = <<>> /\ pushed = 0
    /\ held = {} /\ typed = <<>>

LastShift ==
    \E i \in DOMAIN typed :
        /\ typed[i].key \in ShiftKeys /\ typed[i].press
        /\ \A j \in i + 1 .. Len(typed) : typed[j].key \notin ShiftKeys

\* The user moves a key and mfb_keyboard_fn queues it.  A key that is held down
\* repeats.
Strike(key, press) ==
    /\ Len(typed) < MaxTyped
    /\ press \/ key \in held
    /\ held' = IF press THEN held \cup {key} ELSE held \ {key}
    /\ typed' = Append(typed, [key |-> key, press |-> press,
                               mods |-> held \cap ShiftKeys, shifted |-> LastShift])
    /\ Push([key |-> key, press |-> press])
    /\ UNCHANGED guestVars

UserNext == \E key \in Key, press \in BOOLEAN : Strike(key, press)

GuestNext == (DriverNext \/ Sdl1Next \/ Sdl2Next) /\ UNCHANGED <<held, typed>>

Next == UserNext \/ GuestNext

Spec == Init /\ [][Next]_vars

-----------------------------------------------------------------------------

\* The ring is the queue that KeyQueue describes.
RingIsQueue == Queue!Spec

\* Nothing has been given up, neither by the ring nor behind it.
NothingLost == kbdOverflowed = 0 /\ ~missed

\* The keys whose codes a program can tell from each other and from none: those
\* of Shift are left out, and those of which get_code only returns 0.
Ordinary == Key \ (ShiftKeys \cup Unmapped)

\* tcm_keyboard_get_code, however late it is called, returns the ordinary keys
\* that went down, every one that has left the ring and in order, each shifted
\* as Shift was when it was struck.
TypedAsStruck ==
    library = "driver" /\ NothingLost =>
        LET codes == [i \in DOMAIN typed |-> Code(typed[i].key, typed[i].shifted)]
            read == {i \in 1 .. Len(typed) - kbdCount :
                        typed[i].press /\ typed[i].key \in Ordinary}
        IN  Picked(got, {i \in DOMAIN got : got[i].key \in Ordinary}) = Picked(codes, read)

\* The event that SDL makes of a stroke.
EventOf(s) == [type |-> IF s.press THEN "down" ELSE "up", key |-> s.key,
               mods |-> IF library = "sdl1" THEN s.mods ELSE {}]

\* Every stroke that has left the ring is one event, queued or delivered, in the
\* order struck, with the modifiers of its time.  SDL_PeepEvents of SDL 2 may
\* prefer one type of event to another, so there each type keeps its own order.
StrokesInOrder ==
    library # "driver" /\ NothingLost =>
        \A types \in {{"down"}, {"up"}} \cup {t \in {{"down", "up"}} : library = "sdl1"} :
            LET stream == got \o evtQueue
                events == [i \in DOMAIN typed |-> EventOf(typed[i])]
                arrived == {i \in 1 .. Len(typed) - kbdCount :
                               typed[i].key \notin Unmapped /\ events[i].type \in types}
            IN  Picked(stream, {i \in DOMAIN stream : stream[i].type \in types})
                    = Picked(events, arrived)

\* Once the ring is drained, SDL_GetKeyState shows the keys that are held, even
\* if events about them did not fit into SDL's own queue.
KeyStateTracks ==
    library # "driver" /\ kbdOverflowed = 0 /\ kbdCount = 0 =>
        keyState = held \ Unmapped

=============================================================================
