---------------------------- MODULE GuestKeyboard ---------------------------
(***************************************************************************)
(* The guest's keyboard driver (src/tcmips/dev/keyboard.c).  One action    *)
(* per read of the keyboard: the host may add events between two of them.  *)
(***************************************************************************)
EXTENDS GuestInput

sdlVars == <<evtQueue, keyState, pushed>>

\* shift_convert_ascii; the code of an unmapped key is 0.
Code(key, shifted) == [key |-> key, upper |-> shifted /\ key \in Letters]

CallDriver(pc) ==
    /\ library = "driver"
    /\ guestPc = "app"
    /\ guestPc' = pc
    /\ UNCHANGED <<ring, library, missed, got, shift, sdlVars>>

CallGetCode == CallDriver("getCode")
CallClear == CallDriver("clear")

\* Mutant: a Shift event takes effect on the key behind it only.
GetCodeLate ==
    /\ guestPc = "getCode"
    /\ \E ev \in KeyEvent \cup {NoEvent} :
          /\ Pop(ev)
          /\ shift' = IF ev.key \in ShiftKeys THEN ev.press ELSE FALSE
          /\ IF ev.press THEN Give(<<Code(ev.key, shift')>>) ELSE UNCHANGED got
          /\ guestPc' = IF ev.press \/ ev = NoEvent THEN "app" ELSE "getCode"
    /\ UNCHANGED <<library, missed, sdlVars>>

\* tcm_keyboard_get_code: read until a key goes down or nothing is pending.
GetCode ==
    /\ guestPc = "getCode"
    /\ \E ev \in KeyEvent \cup {NoEvent} :
          /\ Pop(ev)
          /\ shift' = IF ev.key \in ShiftKeys THEN ev.press ELSE shift
          /\ IF ev.press THEN Give(<<Code(ev.key, shift')>>) ELSE UNCHANGED got
          /\ guestPc' = IF ev.press \/ ev = NoEvent THEN "app" ELSE "getCode"
    /\ UNCHANGED <<library, missed, sdlVars>>

\* tcm_keyboard_clear: read until nothing is pending.
Clear ==
    /\ guestPc = "clear"
    /\ \E ev \in KeyEvent \cup {NoEvent} :
          /\ Pop(ev)
          /\ guestPc' = IF ev = NoEvent THEN "app" ELSE "clear"
          /\ missed' = (missed \/ ev # NoEvent)
    /\ UNCHANGED <<library, got, shift, sdlVars>>

DriverNext == CallGetCode \/ CallClear \/ GetCode \/ Clear
=============================================================================
