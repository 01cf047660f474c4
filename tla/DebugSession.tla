---------------------------- MODULE DebugSession ----------------------------
(***************************************************************************)
(* What a debug session promises, without threads, flags or packets: the   *)
(* guest moves only while the debugger has not been told that it is        *)
(* stopped, the debugger edits it only while it has, and no breakpoint is  *)
(* run through.                                                            *)
(***************************************************************************)
EXTENDS GuestCpu

VARIABLES
    alive,    \* the emulator has not been asked to stop
    told,     \* the debugger's last news is that the guest is stopped
    held,     \* the guest is held in front of a breakpoint
    bps,      \* the breakpoints
    guest     \* the guest, any finished branch folded into its PC

vars == <<alive, told, held, bps, guest>>

Init ==
    /\ alive = TRUE /\ told = FALSE /\ held = FALSE
    /\ bps = {} /\ guest = ResetGuest

Hold ==
    /\ guest.pc \in bps
    /\ held' = TRUE
    /\ UNCHANGED <<alive, told, bps, guest>>

\* One instruction; BREAK 0x3ff ends the session.
Run ==
    /\ ~told \/ ~alive
    /\ guest.pc \notin bps \/ held \/ ~alive
    /\ \E g \in Exec(guest) : guest' = Resolve(g)
    /\ alive' = (alive /\ Fetched(guest).op # "exit")
    /\ held' = FALSE
    /\ UNCHANGED <<told, bps>>

Tell == told' = TRUE /\ UNCHANGED <<alive, held, bps, guest>>
Resume == told' = FALSE /\ UNCHANGED <<alive, held, bps, guest>>
Stop == alive' = FALSE /\ UNCHANGED <<told, held, bps, guest>>

\* A session that ends leaves the guest where it is.
Abandon == ~alive /\ held' = FALSE /\ UNCHANGED <<alive, told, bps, guest>>

Edit ==
    /\ told \/ ~alive
    /\ \/ \E a \in Addr : guest' = Resolve([guest EXCEPT !.pc = a]) /\ UNCHANGED bps
       \/ \E s \in SUBSET Addr : bps' = s /\ UNCHANGED guest
    /\ UNCHANGED <<alive, told, held>>

Next == Hold \/ Run \/ Tell \/ Resume \/ Stop \/ Abandon \/ Edit

Spec == Init /\ [][Next]_vars
=============================================================================
