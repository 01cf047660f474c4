------------------------------ MODULE GdbClient -----------------------------
(***************************************************************************)
(* The debugger at the other end of the socket.  It is no part of the      *)
(* repository: it follows the remote protocol as the comments of           *)
(* src/emulator/rsp_stub.c describe it (one command at a time, each reply  *)
(* read in the order sent, the reply to a resume being the stop reply), so *)
(* what it does is external.                                               *)
(***************************************************************************)
EXTENDS DebugState

CONSTANTS
    Patient,     \* TRUE: a debugger that has just connected speaks only once the
                 \* stub and the CPU have acted on its arrival
    MaxBreaks    \* bound: ^C bytes the debugger sends on one connection

ASSUME PatientAssumption == Patient \in BOOLEAN
ASSUME MaxBreaksAssumption == MaxBreaks \in Nat

Client(from, to) ==
    /\ dbg = from
    /\ dbg' = to
    /\ UNCHANGED <<flags, machine, cpuLoc, stubLoc, shutdown>>

Ask(pkt, from, to) ==
    /\ Client(from, to)
    /\ conn = "open"
    /\ inbox' = Append(inbox, pkt)
    /\ UNCHANGED <<conn, outbox>>

Command(pkt, from, to) == Ask(pkt, from, to) /\ UNCHANGED breaks

Close == UNCHANGED breaks /\ conn' = IF conn = "open" THEN "hup" ELSE conn

-----------------------------------------------------------------------------

ClientConnect ==
    /\ conn = "none"
    /\ Client("off", "fresh")
    /\ conn' = "backlog"
    /\ breaks' = 0
    /\ UNCHANGED <<inbox, outbox>>

\* The first question of a session: why has the target stopped?
ClientHello ==
    /\ Patient => Parked /\ stubPc = "recv"
    /\ Command(Pkt("?"), "fresh", "asking")

ClientQuery == Command(Pkt("?"), "idle", "asking")
ClientEdit == \E pkt \in Edits : Command(pkt, "idle", "asking")
ClientResume == \E op \in {"c", "s"} : Command(Pkt(op), "idle", "waiting")
ClientDetach == Command(Pkt("D"), "idle", "leaving")

\* 'k' has no reply; the debugger closes the connection behind it.
ClientKill ==
    /\ Client("idle", "off")
    /\ conn = "open"
    /\ inbox' = Append(inbox, Pkt("k"))
    /\ conn' = "hup"
    /\ UNCHANGED <<outbox, breaks>>

\* The user breaks into the running guest.
ClientInterrupt ==
    /\ breaks < MaxBreaks
    /\ breaks' = breaks + 1
    /\ Ask(Pkt("^C"), "waiting", "waiting")

\* The debugger goes away without a word.
ClientVanish ==
    /\ \E from \in Debuggers \ {"off"} : Client(from, "off")
    /\ conn = "open"
    /\ Close
    /\ UNCHANGED <<inbox, outbox>>

Reply(r) ==
    /\ outbox # <<>> /\ Head(outbox) = r
    /\ outbox' = Tail(outbox)
    /\ UNCHANGED inbox

ClientAnswered ==
    /\ \E r \in Replies : Reply(r)
    /\ Client("asking", "idle")
    /\ UNCHANGED <<conn, breaks>>

ClientStopped ==
    /\ Reply("S05")
    /\ Client("waiting", "idle")
    /\ UNCHANGED <<conn, breaks>>

ClientUnexpected ==
    /\ Reply("OK")
    /\ Client("waiting", "waiting")
    /\ UNCHANGED <<conn, breaks>>

ClientExited ==
    /\ Reply("W")
    /\ Client("waiting", "off")
    /\ Close

ClientDetached ==
    /\ \E r \in Replies : Reply(r)
    /\ Client("leaving", "off")
    /\ Close

\* The stub has closed the connection and there is nothing left to read.
ClientEof ==
    /\ conn = "closed" /\ outbox = <<>>
    /\ \E from \in Debuggers \ {"off"} : Client(from, "off")
    /\ UNCHANGED <<conn, inbox, outbox, breaks>>

\* What a debugger that stays on the line does without being told to.
ClientReads ==
    \/ ClientAnswered \/ ClientStopped \/ ClientUnexpected
    \/ ClientExited \/ ClientDetached \/ ClientEof

ClientNext ==
    \/ ClientConnect \/ ClientHello \/ ClientQuery \/ ClientEdit \/ ClientResume
    \/ ClientDetach \/ ClientKill \/ ClientInterrupt \/ ClientVanish
    \/ ClientReads
=============================================================================
