----------------------------- MODULE Sdl2Events -----------------------------
(***************************************************************************)
(* The event queue of the SDL 2 port (src/tcmips/lib/libsdl2/src/          *)
(* sdl2_events.c), at the grain of Sdl1Events.                             *)
(***************************************************************************)
EXTENDS GuestInput

Sdl2Go(from, to) ==
    /\ library = "sdl2"
    /\ guestPc = from
    /\ guestPc' = to
    /\ UNCHANGED <<library, shift>>

\* tcmips_sdl2_post_event
Post(e) ==
    IF Len(evtQueue) < QueueSize - 1
    THEN evtQueue' = Append(evtQueue, e) /\ UNCHANGED missed
    ELSE missed' = TRUE /\ UNCHANGED evtQueue

\* tcmips_sdl2_poll_hardware, a key: its event carries no modifiers.
Sdl2Key(pc) ==
    /\ Sdl2Go(pc, pc)
    /\ \E ev \in KeyEvent :
          /\ ev.key \notin Unmapped
          /\ Pop(ev)
          /\ Post([type |-> IF ev.press THEN "down" ELSE "up", key |-> ev.key, mods |-> {}])
          /\ keyState' = IF ev.press THEN keyState \cup {ev.key} ELSE keyState \ {ev.key}
    /\ UNCHANGED <<got, pushed>>

Sdl2Unknown(pc) ==
    /\ Sdl2Go(pc, pc)
    /\ \E ev \in KeyEvent : ev.key \in Unmapped /\ Pop(ev)
    /\ UNCHANGED <<missed, got, evtQueue, keyState, pushed>>

Sdl2CallPump ==
    /\ Sdl2Go("app", "pump")
    /\ UNCHANGED <<ring, missed, got, evtQueue, keyState, pushed>>

Sdl2CallPoll ==
    /\ Sdl2Go("app", "poll")
    /\ UNCHANGED <<ring, missed, got, evtQueue, keyState, pushed>>

Sdl2Pumped ==
    /\ Sdl2Go("pump", "app")
    /\ Pop(NoEvent)
    /\ UNCHANGED <<missed, got, evtQueue, keyState, pushed>>

\* SDL_PollEvent, once the keyboard is drained.
Sdl2Polled ==
    /\ Sdl2Go("poll", "app")
    /\ Pop(NoEvent)
    /\ GiveOldest
    /\ UNCHANGED <<missed, keyState, pushed>>

\* SDL_PushEvent, and SDL_PeepEvents with SDL_ADDEVENT.
Sdl2Push ==
    /\ Sdl2Go("app", "app")
    /\ pushed < MaxPushes
    /\ pushed' = pushed + 1
    /\ Post(UserEvent)
    /\ UNCHANGED <<ring, got, keyState>>

\* What SDL_PeepEvents can ask for, from minType to maxType: SDL_KEYDOWN <
\* SDL_KEYUP < SDL_USEREVENT.
TypeRanges == SUBSET EventTypes \ {{"down", "user"}}

\* Mutant: the rest of the queue is thrown away, as in SDL 1.2.
Sdl2GetAll(n, types) ==
    /\ Sdl2Go("app", "app")
    /\ Give(Picked(evtQueue, Matching(n, types)))
    /\ evtQueue' = <<>>
    /\ UNCHANGED <<ring, missed, keyState, pushed>>

\* SDL_PeepEvents with SDL_GETEVENT: the others stay, in their order.
Sdl2Get(n, types) ==
    /\ Sdl2Go("app", "app")
    /\ Give(Picked(evtQueue, Matching(n, types)))
    /\ evtQueue' = Picked(evtQueue, Others(Matching(n, types)))
    /\ UNCHANGED <<ring, missed, keyState, pushed>>

Sdl2Next ==
    \/ \E pc \in {"pump", "poll"} : Sdl2Key(pc) \/ Sdl2Unknown(pc)
    \/ Sdl2CallPump \/ Sdl2CallPoll \/ Sdl2Pumped \/ Sdl2Polled \/ Sdl2Push
    \/ \E n \in 1 .. MaxPeep, types \in TypeRanges : Sdl2Get(n, types)
=============================================================================
