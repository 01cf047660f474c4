----------------------------- MODULE Sdl1Events -----------------------------
(***************************************************************************)
(* The event queue of the SDL 1.2 port (src/tcmips/lib/libsdl/src/         *)
(* sdl_events.c).  The guest has one thread: only the keyboard changes     *)
(* between two of its steps, so a call is one step per read of it.         *)
(***************************************************************************)
EXTENDS GuestInput

\* The program is in `from`, in a library that is `lib`, and goes to `to`.
SdlGo(lib, from, to) ==
    /\ library = lib
    /\ guestPc = from
    /\ guestPc' = to
    /\ UNCHANGED <<library, shift>>

\* tcmips_sdl_enqueue: the newest event is given up when the queue is full.
Enqueue(e) ==
    IF Len(evtQueue) < QueueSize - 1
    THEN evtQueue' = Append(evtQueue, e) /\ UNCHANGED missed
    ELSE missed' = TRUE /\ UNCHANGED evtQueue

\* Mutant: the state of a key is noted only if its event could be stored.
Sdl1KeyIfStored(pc) ==
    /\ SdlGo("sdl1", pc, pc)
    /\ \E ev \in KeyEvent :
          /\ ev.key \notin Unmapped
          /\ Pop(ev)
          /\ Enqueue([type |-> IF ev.press THEN "down" ELSE "up", key |-> ev.key,
                      mods |-> keyState \cap ShiftKeys])
          /\ keyState' = CASE Len(evtQueue) >= QueueSize - 1 -> keyState
                           [] ev.press -> keyState \cup {ev.key}
                           [] OTHER    -> keyState \ {ev.key}
    /\ UNCHANGED <<got, pushed>>

\* SDL_PumpEvents, a key: its event carries the modifiers before it.
Sdl1Key(pc) ==
    /\ SdlGo("sdl1", pc, pc)
    /\ \E ev \in KeyEvent :
          /\ ev.key \notin Unmapped
          /\ Pop(ev)
          /\ Enqueue([type |-> IF ev.press THEN "down" ELSE "up", key |-> ev.key,
                      mods |-> keyState \cap ShiftKeys])
          /\ keyState' = IF ev.press THEN keyState \cup {ev.key} ELSE keyState \ {ev.key}
    /\ UNCHANGED <<got, pushed>>

\* A key that SDL does not know.
Sdl1Unknown(pc) ==
    /\ SdlGo("sdl1", pc, pc)
    /\ \E ev \in KeyEvent : ev.key \in Unmapped /\ Pop(ev)
    /\ UNCHANGED <<missed, got, evtQueue, keyState, pushed>>

Sdl1CallPump ==
    /\ SdlGo("sdl1", "app", "pump")
    /\ UNCHANGED <<ring, missed, got, evtQueue, keyState, pushed>>

Sdl1CallPoll ==
    /\ SdlGo("sdl1", "app", "poll")
    /\ UNCHANGED <<ring, missed, got, evtQueue, keyState, pushed>>

\* The keyboard is drained: SDL_PumpEvents returns.
Sdl1Pumped ==
    /\ SdlGo("sdl1", "pump", "app")
    /\ Pop(NoEvent)
    /\ UNCHANGED <<missed, got, evtQueue, keyState, pushed>>

\* SDL_PollEvent then takes the oldest event, if there is one.
Sdl1Polled ==
    /\ SdlGo("sdl1", "poll", "app")
    /\ Pop(NoEvent)
    /\ GiveOldest
    /\ UNCHANGED <<missed, keyState, pushed>>

\* SDL_PeepEvents with SDL_ADD_EVENT, and SDL_PushEvent.
Sdl1Push ==
    /\ SdlGo("sdl1", "app", "app")
    /\ pushed < MaxPushes
    /\ pushed' = pushed + 1
    /\ Enqueue(UserEvent)
    /\ UNCHANGED <<ring, got, keyState>>

\* SDL_PeepEvents with SDL_GETEVENT: whatever it scans is consumed.
Sdl1Get(n, types) ==
    /\ SdlGo("sdl1", "app", "app")
    /\ Give(Picked(evtQueue, Matching(n, types)))
    /\ evtQueue' = Picked(evtQueue, Others(Scanned(n, types)))
    /\ missed' = (missed \/ Matching(n, types) # Scanned(n, types))
    /\ UNCHANGED <<ring, keyState, pushed>>

\* SDL_PeepEvents with SDL_PEEKE_EVENT never gets past an oldest event of
\* another type.  (Otherwise it changes nothing.)
Sdl1PeekSpins ==
    /\ \E from \in {"app", "spin"} : SdlGo("sdl1", from, "spin")
    /\ evtQueue # <<>>
    /\ UNCHANGED <<ring, missed, got, evtQueue, keyState, pushed>>

Sdl1Next ==
    \/ \E pc \in {"pump", "poll"} : Sdl1Key(pc) \/ Sdl1Unknown(pc)
    \/ Sdl1CallPump \/ Sdl1CallPoll \/ Sdl1Pumped \/ Sdl1Polled \/ Sdl1Push
    \/ \E n \in 1 .. MaxPeep, types \in SUBSET EventTypes : Sdl1Get(n, types)
    \/ Sdl1PeekSpins
=============================================================================
