------------------------- MODULE DebugControlProof --------------------------
(***************************************************************************)
(* Theorems about DebugControl, for every guest program, every set of      *)
(* breakpoints and any number of interrupts.                               *)
(***************************************************************************)
EXTENDS DebugControl, TLAPS

(***************************************************************************)
(* The guest's operators stay within the guest's states.                   *)
(***************************************************************************)

LEMMA ResolveType == ASSUME NEW g \in Guest PROVE Resolve(g) \in Guest
BY DEF Resolve, Guest

LEMMA SuccType == ASSUME NEW a \in Addr PROVE Succ(a) \in Addr
BY CodeSizeAssumption DEF Addr, Succ

LEMMA FetchedType == ASSUME NEW g \in Guest PROVE Fetched(g) \in Instr
<1>1. NextPc(g) \in Addr BY ResolveType DEF NextPc, Guest
<1> QED BY <1>1, ProgramAssumption DEF Fetched

LEMMA ExecType == ASSUME NEW g \in Guest PROVE Exec(g) \subseteq Guest
<1> DEFINE r == Resolve(g)
<1>1. r \in Guest BY ResolveType
<1>2. r.pc \in Addr /\ Succ(r.pc) \in Addr BY <1>1, SuccType DEF Guest
<1>3. Fetched(g).to \in Addr BY FetchedType DEF Instr
<1> HIDE DEF r
<1>4. FallThrough(r) \in Guest BY <1>1, <1>2 DEF FallThrough, Guest
<1>5. NotTaken(r) \in Guest BY <1>1, <1>2 DEF NotTaken, Guest
<1>6. Taken(r, Fetched(g).to) \in Guest BY <1>1, <1>2, <1>3 DEF Taken, Guest
<1> QED BY <1>4, <1>5, <1>6 DEF Exec, r

-----------------------------------------------------------------------------
(***************************************************************************)
(* Type correctness, thread by thread.                                     *)
(***************************************************************************)

LEMMA CpuKeepsTypes == TypeOK /\ CpuNext => TypeOK'
<1> SUFFICES ASSUME TypeOK, CpuNext PROVE TypeOK' OBVIOUS
<1> USE DEF TypeOK, CpuGo, CpuStop, flags, machine, stubLoc, CpuLocs, CpuReturns
<1>1. CASE CpuLoop BY <1>1 DEF CpuLoop
<1>2. CASE CpuGateOpen BY <1>2 DEF CpuGateOpen
<1>3. CASE CpuGateClosed BY <1>3 DEF CpuGateClosed
<1>4. CASE CpuBpHit BY ResolveType, <1>4 DEF CpuBpHit
<1>5. CASE CpuBpMiss BY ResolveType, <1>5 DEF CpuBpMiss
<1>6. CASE CpuOver BY <1>6 DEF CpuOver
<1>7. CASE CpuExec BY ExecType, <1>7 DEF CpuExec, RanBound
<1>8. CASE CpuHostGone BY <1>8 DEF CpuHostGone
<1>9. CASE CpuTrapped BY <1>9 DEF CpuTrapped
<1>10. CASE CpuNoTrap BY <1>10 DEF CpuNoTrap
<1>11. CASE CpuStepped BY <1>11 DEF CpuStepped
<1>12. CASE CpuNotStepping BY <1>12 DEF CpuNotStepping
<1>13. CASE CpuClose BY <1>13 DEF CpuClose
<1>14. CASE CpuSignal BY <1>14 DEF CpuSignal
<1>15. CASE CpuResume BY <1>15 DEF CpuResume
<1>16. CASE CpuFinished BY <1>16 DEF CpuFinished
<1>17. CASE CpuLinger BY <1>17 DEF CpuLinger
<1>18. CASE CpuStopStub BY <1>18 DEF CpuStopStub
<1>19. CASE CpuCloseFds BY <1>19 DEF CpuCloseFds, Conns
<1>20. CASE CpuJoin BY <1>20 DEF CpuJoin
<1> QED BY <1>1, <1>2, <1>3, <1>4, <1>5, <1>6, <1>7, <1>8, <1>9, <1>10, <1>11, <1>12, <1>13, <1>14, <1>15, <1>16, <1>17, <1>18, <1>19, <1>20 DEF CpuNext

LEMMA StubKeepsTypes == TypeOK /\ StubNext => TypeOK'
<1> SUFFICES ASSUME TypeOK, StubNext PROVE TypeOK' OBVIOUS
<1> USE DEF TypeOK, StubGo, flags, cpuLoc, Quietly, NoFlags, NoEdit, NoTraffic, EndJob,
            RanNothing, RanBound, Receive, Send, Replies, Conns, StubLocs, RunLocs, StubJobs
<1>0. \A op : Receive(op) => Head(inbox) \in Packets /\ inbox' \in Seq(Packets)
  OBVIOUS
<1>1. CASE StubTop BY <1>0, <1>1 DEF StubTop
<1>2. CASE StubAccept BY <1>0, <1>2 DEF StubAccept
<1>3. CASE StubWoken BY <1>0, <1>3 DEF StubWoken
<1>4. CASE StubHangup BY <1>0, <1>4 DEF StubHangup
<1>5. CASE StubIdleInterrupt BY <1>0, <1>5 DEF StubIdleInterrupt
<1>6. CASE StubQuery BY <1>0, <1>6 DEF StubQuery
<1>7. CASE StubSetBp
  <2>1. Head(inbox).addr \in Addr
    BY <1>7, <1>0, DebuggerAddrsAssumption DEF StubSetBp, Packets, Plain, Edits
  <2> QED BY <2>1, <1>0, <1>7 DEF StubSetBp
<1>8. CASE StubRemoveBp BY <1>0, <1>8 DEF StubRemoveBp
<1>9. CASE StubWritePc
  <2>1. Head(inbox).addr \in Addr
    BY <1>9, <1>0, DebuggerAddrsAssumption DEF StubWritePc, Packets, Plain, Edits
  <2>2. guest' \in Guest BY <2>1, <1>9 DEF StubWritePc, Guest
  <2> QED BY <2>2, <1>0, <1>9 DEF StubWritePc
<1>10. CASE StubKill BY <1>0, <1>10, ZenonT(40) DEF StubKill
<1>11. CASE StubResume BY <1>0, <1>11, ZenonT(40) DEF StubResume
<1>12. CASE StubArm
  <2>1. stopEvent' \in BOOLEAN BY <1>12 DEF StubArm
  <2>2. UNCHANGED <<hostRunning, gate, singleStep, exitPhase, breakPending, bps, guest,
                    ran, exited>>
    BY <1>12 DEF StubArm
  <2>3. UNCHANGED <<cpuPc, cpuRet, stubJob, told, shutdown, conn, inbox, outbox, dbg, breaks>>
    BY <1>12 DEF StubArm
  <2>4. stubPc' \in StubLocs BY <1>12 DEF StubArm
  <2> QED BY <2>1, <2>2, <2>3, <2>4
<1>13. CASE StubOpen BY <1>0, <1>13 DEF StubOpen
<1>14. CASE StubMode
  <2>1. singleStep' \in BOOLEAN BY <1>14 DEF StubMode
  <2>2. UNCHANGED <<hostRunning, gate, stopEvent, exitPhase, breakPending, bps, guest,
                    exited, cpuPc, cpuRet, told, shutdown, conn, inbox, dbg, breaks>>
    BY <1>14 DEF StubMode
  <2>3. stubPc' \in StubLocs /\ stubJob' \in StubJobs BY <1>14 DEF StubMode
  <2>4. ran' \in [{"asked", "armed"} -> 0 .. RanBound] BY <1>14 DEF StubMode
  <2>5. outbox' \in Seq(Replies) BY <1>14, SMTT(30) DEF StubMode
  <2> QED BY <2>1, <2>2, <2>3, <2>4, <2>5
<1>15. CASE StubHalt
  <2>1. gate' \in BOOLEAN BY <1>15 DEF StubHalt
  <2>2. UNCHANGED <<hostRunning, singleStep, stopEvent, exitPhase, breakPending, bps, guest,
                    ran, exited>>
    BY <1>15 DEF StubHalt
  <2>3. UNCHANGED <<cpuPc, cpuRet, stubJob, told, shutdown, conn, inbox, outbox, dbg, breaks>>
    BY <1>15 DEF StubHalt
  <2>4. stubPc' \in StubLocs BY <1>15 DEF StubHalt
  <2> QED BY <2>1, <2>2, <2>3, <2>4
<1>16. CASE StubUnstep
  <2>1. singleStep' \in BOOLEAN /\ told' \in BOOLEAN BY <1>16 DEF StubUnstep
  <2>2. UNCHANGED <<hostRunning, gate, stopEvent, exitPhase, breakPending, bps, guest,
                    exited, cpuPc, cpuRet, shutdown, conn, inbox, dbg, breaks>>
    BY <1>16 DEF StubUnstep
  <2>3. stubPc' \in StubLocs /\ stubJob' \in StubJobs BY <1>16 DEF StubUnstep
  <2>4. ran' \in [{"asked", "armed"} -> 0 .. RanBound] BY <1>16 DEF StubUnstep
  <2>5. outbox' \in Seq(Replies) BY <1>16, SMTT(30) DEF StubUnstep
  <2> QED BY <2>1, <2>2, <2>3, <2>4, <2>5
<1>17. CASE StubRun BY <1>0, <1>17 DEF StubRun
<1>18. CASE StubPhase BY <1>0, <1>18 DEF StubPhase
<1>19. CASE StubSayExit BY <1>0, <1>19 DEF StubSayExit
<1>20. CASE StubExitSent BY <1>0, <1>20 DEF StubExitSent
<1>21. CASE StubHost BY <1>0, <1>21 DEF StubHost
<1>22. CASE StubReportStop BY <1>0, <1>22 DEF StubReportStop
<1>23. CASE StubNoStop BY <1>0, <1>23 DEF StubNoStop
<1>24. CASE StubRunInterrupt BY <1>0, <1>24 DEF StubRunInterrupt
<1>25. CASE StubStray BY <1>0, <1>25 DEF StubStray
<1>26. CASE StubPollQuiet BY <1>0, <1>26 DEF StubPollQuiet
<1> QED BY <1>1, <1>2, <1>3, <1>4, <1>5, <1>6, <1>7, <1>8, <1>9, <1>10, <1>11, <1>12, <1>13, <1>14, <1>15, <1>16, <1>17, <1>18, <1>19, <1>20, <1>21, <1>22, <1>23, <1>24, <1>25, <1>26 DEF StubNext

LEMMA ClientKeepsTypes == TypeOK /\ ClientNext => TypeOK'
<1> SUFFICES ASSUME TypeOK, ClientNext PROVE TypeOK' OBVIOUS
<1> USE MaxBreaksAssumption
    DEF TypeOK, Client, Ask, Command, Close, Reply, Pkt, flags, machine, cpuLoc, stubLoc,
        Packets, Plain, Edits, Replies, Conns, Debuggers
<1>1. CASE ClientConnect BY <1>1 DEF ClientConnect
<1>2. CASE ClientHello BY <1>2 DEF ClientHello
<1>3. CASE ClientQuery BY <1>3 DEF ClientQuery
<1>4. CASE ClientEdit BY <1>4 DEF ClientEdit
<1>5. CASE ClientResume BY <1>5 DEF ClientResume
<1>6. CASE ClientDetach BY <1>6 DEF ClientDetach
<1>7. CASE ClientKill BY <1>7 DEF ClientKill
<1>8. CASE ClientInterrupt BY <1>8 DEF ClientInterrupt
<1>9. CASE ClientVanish BY <1>9 DEF ClientVanish
<1>10. CASE ClientAnswered BY <1>10 DEF ClientAnswered
<1>11. CASE ClientStopped BY <1>11 DEF ClientStopped
<1>12. CASE ClientUnexpected BY <1>12 DEF ClientUnexpected
<1>13. CASE ClientExited BY <1>13 DEF ClientExited
<1>14. CASE ClientDetached BY <1>14 DEF ClientDetached
<1>15. CASE ClientEof BY <1>15 DEF ClientEof
<1> QED BY <1>1, <1>2, <1>3, <1>4, <1>5, <1>6, <1>7, <1>8, <1>9, <1>10, <1>11, <1>12, <1>13, <1>14, <1>15 DEF ClientNext, ClientReads

\* Every variable stays within its type: the locations, the flags, the guest's
\* addresses and the packets and replies on the wire.
THEOREM TypeCorrect == Spec => []TypeOK
<1>1. Init => TypeOK
  <2> SUFFICES ASSUME Init PROVE TypeOK OBVIOUS
  <2>1. guest \in Guest BY CodeSizeAssumption DEF Init, ResetGuest, Guest, Addr
  <2>2. ran \in [{"asked", "armed"} -> 0 .. RanBound] BY DEF Init, RanNothing, RanBound
  <2>3. /\ hostRunning \in BOOLEAN /\ gate \in BOOLEAN /\ singleStep \in BOOLEAN
        /\ stopEvent \in BOOLEAN /\ breakPending \in BOOLEAN /\ exited \in BOOLEAN
        /\ told \in BOOLEAN /\ shutdown \in BOOLEAN
    BY DEF Init
  <2>4. /\ cpuPc \in CpuLocs /\ cpuRet \in CpuReturns /\ stubPc \in StubLocs
        /\ stubJob \in StubJobs /\ conn \in Conns /\ dbg \in Debuggers
    BY DEF Init, CpuLocs, CpuReturns, StubLocs, StubJobs, Conns, Debuggers
  <2>5. exitPhase \in 0 .. 2 /\ bps \subseteq Addr /\ breaks \in 0 .. MaxBreaks
    BY MaxBreaksAssumption DEF Init
  <2>6. inbox \in Seq(Packets) /\ outbox \in Seq(Replies) BY DEF Init
  <2> QED BY <2>1, <2>2, <2>3, <2>4, <2>5, <2>6 DEF TypeOK
<1>2. TypeOK /\ [Next]_vars => TypeOK'
  <2> SUFFICES ASSUME TypeOK, [Next]_vars PROVE TypeOK' OBVIOUS
  <2>1. CASE CpuNext BY <2>1, CpuKeepsTypes
  <2>2. CASE StubNext BY <2>2, StubKeepsTypes
  <2>3. CASE ClientNext BY <2>3, ClientKeepsTypes
  <2>4. CASE HostStop
    BY <2>4 DEF TypeOK, HostStop, machine, cpuLoc, stubLoc, net
  <2>5. CASE UNCHANGED vars
    BY <2>5 DEF TypeOK, vars, flags, machine, cpuLoc, stubLoc, net
  <2> QED BY <2>1, <2>2, <2>3, <2>4, <2>5 DEF Next, Ended
<1> QED BY <1>1, <1>2, PTL DEF Spec

-----------------------------------------------------------------------------
(***************************************************************************)
(* The phases of the stub that matter to the CPU thread.                   *)
(***************************************************************************)

InInterrupt(job) == stubPc \in {"halt", "unstep"} /\ stubJob = job

\* Between two commands.
Serving == stubPc \in {"top", "recv"} \/ InInterrupt("idle^C")

\* A resume has been taken from the debugger, the gate is not open yet.
Starting == stubPc \in {"arm", "open"}

\* The gate has been opened and the resume not yet answered.
Watching == stubPc = "mode" \/ stubPc \in RunLocs \/ InInterrupt("run^C")

(***************************************************************************)
(* The end of the session: nothing that is set on the way out is set while *)
(* the host runs.                                                          *)
(***************************************************************************)
EndInv ==
    /\ exitPhase # 0 => ~hostRunning
    /\ stubPc \in {"sayExit", "exitSent"} => ~hostRunning
    /\ cpuPc \in {"finished", "linger", "stopStub", "closeFds", "join", "done"}
           => ~hostRunning
    /\ shutdown => cpuPc \in {"closeFds", "join", "done"}
    /\ conn = "closed" => cpuPc \in {"join", "done"}

(***************************************************************************)
(* The connection: a debugger that has just arrived has said nothing, and  *)
(* one that has asked to detach says nothing more.                         *)
(***************************************************************************)
Detaching == stubJob = "D" /\ stubPc \in {"arm", "open", "mode"}

ConnInv ==
    /\ conn \in {"none", "backlog"} => inbox = <<>>
    /\ conn = "backlog" => dbg = "fresh"
    /\ stubPc \in {"halt", "unstep"} => stubJob \in {"attach", "idle^C", "run^C"}
    /\ InInterrupt("attach") => inbox = <<>> /\ (conn = "open" => dbg = "fresh")
    /\ \A i \in 1 .. Len(inbox) : inbox[i].op = "D" =>
           i = Len(inbox) /\ (conn = "open" => dbg = "leaving")
    /\ Detaching => inbox = <<>> /\ (conn = "open" => dbg = "leaving")

(***************************************************************************)
(* The CPU thread is held from the moment the debugger hears of it until   *)
(* the gate opens again, and a stop event is never older than the resume.  *)
(***************************************************************************)
HeldInv ==
    /\ told => Parked
    /\ Starting => Parked
    /\ Starting \/ Watching => ~told
    /\ stubPc = "open" => ~stopEvent
    /\ Watching /\ stopEvent => Parked
    /\ Watching /\ cpuPc = "signal" => ~gate
    /\ InInterrupt("idle^C") => Parked
    /\ Serving /\ inbox # <<>> => Parked
    /\ Serving /\ conn = "open" /\ dbg \in {"asking", "idle", "waiting"} => Parked

SessionInv == EndInv /\ ConnInv /\ (hostRunning => HeldInv)

-----------------------------------------------------------------------------
(***************************************************************************)
(* The end of the session.                                                 *)
(***************************************************************************)

LEMMA CpuKeepsEnd ==
    ASSUME TypeOK, EndInv, CpuNext PROVE EndInv'
<1> USE DEF EndInv, CpuGo, CpuStop, flags, machine, stubLoc
<1>1. CASE CpuLoop BY <1>1 DEF CpuLoop
<1>2. CASE CpuGateOpen BY <1>2 DEF CpuGateOpen
<1>3. CASE CpuGateClosed BY <1>3 DEF CpuGateClosed
<1>4. CASE CpuBpHit BY <1>4 DEF CpuBpHit
<1>5. CASE CpuBpMiss BY <1>5 DEF CpuBpMiss
<1>6. CASE CpuOver BY <1>6 DEF CpuOver
<1>7. CASE CpuExec BY <1>7 DEF CpuExec, TypeOK
<1>8. CASE CpuHostGone BY <1>8 DEF CpuHostGone
<1>9. CASE CpuTrapped BY <1>9 DEF CpuTrapped
<1>10. CASE CpuNoTrap BY <1>10 DEF CpuNoTrap
<1>11. CASE CpuStepped BY <1>11 DEF CpuStepped
<1>12. CASE CpuNotStepping BY <1>12 DEF CpuNotStepping
<1>13. CASE CpuClose BY <1>13 DEF CpuClose
<1>14. CASE CpuSignal BY <1>14 DEF CpuSignal
<1>15. CASE CpuResume BY <1>15 DEF CpuResume, TypeOK, CpuReturns
<1>16. CASE CpuFinished BY <1>16 DEF CpuFinished
<1>17. CASE CpuLinger BY <1>17 DEF CpuLinger
<1>18. CASE CpuStopStub BY <1>18 DEF CpuStopStub
<1>19. CASE CpuCloseFds BY <1>19 DEF CpuCloseFds
<1>20. CASE CpuJoin BY <1>20 DEF CpuJoin
<1> QED BY <1>1, <1>2, <1>3, <1>4, <1>5, <1>6, <1>7, <1>8, <1>9, <1>10, <1>11, <1>12, <1>13, <1>14, <1>15, <1>16, <1>17, <1>18, <1>19, <1>20 DEF CpuNext

LEMMA StubKeepsEnd ==
    ASSUME EndInv, StubNext PROVE EndInv'
<1> USE DEF EndInv, StubGo, flags, cpuLoc, Quietly, NoFlags, NoEdit, NoTraffic, EndJob, Receive, Send
<1>1. CASE StubTop BY <1>1 DEF StubTop
<1>2. CASE StubAccept BY <1>2 DEF StubAccept
<1>3. CASE StubWoken BY <1>3 DEF StubWoken
<1>4. CASE StubHangup BY <1>4 DEF StubHangup
<1>5. CASE StubIdleInterrupt BY <1>5 DEF StubIdleInterrupt
<1>6. CASE StubQuery BY <1>6 DEF StubQuery
<1>7. CASE StubSetBp BY <1>7 DEF StubSetBp
<1>8. CASE StubRemoveBp BY <1>8 DEF StubRemoveBp
<1>9. CASE StubWritePc BY <1>9 DEF StubWritePc
<1>10. CASE StubKill BY <1>10 DEF StubKill
<1>11. CASE StubResume BY <1>11 DEF StubResume
<1>12. CASE StubArm BY <1>12 DEF StubArm
<1>13. CASE StubOpen BY <1>13 DEF StubOpen
<1>14. CASE StubMode BY <1>14 DEF StubMode
<1>15. CASE StubHalt BY <1>15 DEF StubHalt
<1>16. CASE StubUnstep BY <1>16 DEF StubUnstep
<1>17. CASE StubRun BY <1>17 DEF StubRun
<1>18. CASE StubPhase BY <1>18 DEF StubPhase
<1>19. CASE StubSayExit BY <1>19 DEF StubSayExit
<1>20. CASE StubExitSent BY <1>20 DEF StubExitSent
<1>21. CASE StubHost BY <1>21 DEF StubHost
<1>22. CASE StubReportStop BY <1>22 DEF StubReportStop
<1>23. CASE StubNoStop BY <1>23 DEF StubNoStop
<1>24. CASE StubRunInterrupt BY <1>24 DEF StubRunInterrupt
<1>25. CASE StubStray BY <1>25 DEF StubStray
<1>26. CASE StubPollQuiet BY <1>26 DEF StubPollQuiet
<1> QED BY <1>1, <1>2, <1>3, <1>4, <1>5, <1>6, <1>7, <1>8, <1>9, <1>10, <1>11, <1>12, <1>13, <1>14, <1>15, <1>16, <1>17, <1>18, <1>19, <1>20, <1>21, <1>22, <1>23, <1>24, <1>25, <1>26 DEF StubNext

LEMMA ClientKeepsEnd ==
    ASSUME EndInv, ClientNext PROVE EndInv'
<1> USE DEF EndInv, Client, Ask, Command, Close, Reply, Pkt, flags, machine, cpuLoc, stubLoc
<1>1. CASE ClientConnect BY <1>1 DEF ClientConnect
<1>2. CASE ClientHello BY <1>2 DEF ClientHello
<1>3. CASE ClientQuery BY <1>3 DEF ClientQuery
<1>4. CASE ClientEdit BY <1>4 DEF ClientEdit
<1>5. CASE ClientResume BY <1>5 DEF ClientResume
<1>6. CASE ClientDetach BY <1>6 DEF ClientDetach
<1>7. CASE ClientKill BY <1>7 DEF ClientKill
<1>8. CASE ClientInterrupt BY <1>8 DEF ClientInterrupt
<1>9. CASE ClientVanish BY <1>9 DEF ClientVanish
<1>10. CASE ClientAnswered BY <1>10 DEF ClientAnswered
<1>11. CASE ClientStopped BY <1>11 DEF ClientStopped
<1>12. CASE ClientUnexpected BY <1>12 DEF ClientUnexpected
<1>13. CASE ClientExited BY <1>13 DEF ClientExited
<1>14. CASE ClientDetached BY <1>14 DEF ClientDetached
<1>15. CASE ClientEof BY <1>15 DEF ClientEof
<1> QED BY <1>1, <1>2, <1>3, <1>4, <1>5, <1>6, <1>7, <1>8, <1>9, <1>10, <1>11, <1>12, <1>13, <1>14, <1>15 DEF ClientNext, ClientReads

(***************************************************************************)
(* The connection.                                                         *)
(***************************************************************************)

LEMMA CpuKeepsConn ==
    ASSUME TypeOK, ConnInv, CpuNext PROVE ConnInv'
<1> USE DEF ConnInv, InInterrupt, Detaching, CpuGo, CpuStop, flags, machine, stubLoc
<1>1. CASE CpuLoop BY <1>1 DEF CpuLoop
<1>2. CASE CpuGateOpen BY <1>2 DEF CpuGateOpen
<1>3. CASE CpuGateClosed BY <1>3 DEF CpuGateClosed
<1>4. CASE CpuBpHit BY <1>4 DEF CpuBpHit
<1>5. CASE CpuBpMiss BY <1>5 DEF CpuBpMiss
<1>6. CASE CpuOver BY <1>6 DEF CpuOver
<1>7. CASE CpuExec BY <1>7 DEF CpuExec
<1>8. CASE CpuHostGone BY <1>8 DEF CpuHostGone
<1>9. CASE CpuTrapped BY <1>9 DEF CpuTrapped
<1>10. CASE CpuNoTrap BY <1>10 DEF CpuNoTrap
<1>11. CASE CpuStepped BY <1>11 DEF CpuStepped
<1>12. CASE CpuNotStepping BY <1>12 DEF CpuNotStepping
<1>13. CASE CpuClose BY <1>13 DEF CpuClose
<1>14. CASE CpuSignal BY <1>14 DEF CpuSignal
<1>15. CASE CpuResume BY <1>15 DEF CpuResume
<1>16. CASE CpuFinished BY <1>16 DEF CpuFinished
<1>17. CASE CpuLinger BY <1>17 DEF CpuLinger
<1>18. CASE CpuStopStub BY <1>18 DEF CpuStopStub
<1>19. CASE CpuCloseFds BY <1>19 DEF CpuCloseFds
<1>20. CASE CpuJoin BY <1>20 DEF CpuJoin
<1> QED BY <1>1, <1>2, <1>3, <1>4, <1>5, <1>6, <1>7, <1>8, <1>9, <1>10, <1>11, <1>12, <1>13, <1>14, <1>15, <1>16, <1>17, <1>18, <1>19, <1>20 DEF CpuNext

LEMMA StubKeepsConn ==
    ASSUME TypeOK, ConnInv, StubNext PROVE ConnInv'
<1> USE DEF ConnInv, InInterrupt, Detaching, StubGo, flags, cpuLoc, Quietly, NoFlags, NoEdit, NoTraffic, EndJob, Receive, Send, RunLocs
<1>0. ASSUME NEW op, Receive(op)
      PROVE  /\ Head(inbox) = inbox[1] /\ Len(inbox) \in Nat \ {0}
             /\ Len(inbox') = Len(inbox) - 1
             /\ \A i \in 1 .. Len(inbox') : inbox'[i] = inbox[i + 1]
             /\ Len(inbox') = 0 => inbox' = <<>>
  BY <1>0 DEF TypeOK
<1>00. inbox = <<>> => Len(inbox) = 0 OBVIOUS
<1>1. CASE StubTop BY <1>0, <1>00, <1>1 DEF StubTop
<1>2. CASE StubAccept BY <1>0, <1>00, <1>2 DEF StubAccept
<1>3. CASE StubWoken BY <1>0, <1>00, <1>3 DEF StubWoken
<1>4. CASE StubHangup BY <1>0, <1>00, <1>4 DEF StubHangup
<1>5. CASE StubIdleInterrupt BY <1>0, <1>00, <1>5 DEF StubIdleInterrupt
<1>6. CASE StubQuery BY <1>0, <1>00, <1>6 DEF StubQuery
<1>7. CASE StubSetBp BY <1>0, <1>00, <1>7 DEF StubSetBp
<1>8. CASE StubRemoveBp BY <1>0, <1>00, <1>8 DEF StubRemoveBp
<1>9. CASE StubWritePc BY <1>0, <1>00, <1>9 DEF StubWritePc
<1>10. CASE StubKill BY <1>0, <1>00, <1>10 DEF StubKill
<1>11. CASE StubResume BY <1>0, <1>00, <1>11 DEF StubResume
<1>12. CASE StubArm BY <1>0, <1>00, <1>12 DEF StubArm
<1>13. CASE StubOpen BY <1>0, <1>00, <1>13 DEF StubOpen
<1>14. CASE StubMode BY <1>0, <1>00, <1>14 DEF StubMode
<1>15. CASE StubHalt BY <1>0, <1>00, <1>15 DEF StubHalt
<1>16. CASE StubUnstep BY <1>0, <1>00, <1>16 DEF StubUnstep
<1>17. CASE StubRun BY <1>0, <1>00, <1>17 DEF StubRun
<1>18. CASE StubPhase BY <1>0, <1>00, <1>18 DEF StubPhase
<1>19. CASE StubSayExit BY <1>0, <1>00, <1>19 DEF StubSayExit
<1>20. CASE StubExitSent BY <1>0, <1>00, <1>20 DEF StubExitSent
<1>21. CASE StubHost BY <1>0, <1>00, <1>21 DEF StubHost
<1>22. CASE StubReportStop BY <1>0, <1>00, <1>22 DEF StubReportStop
<1>23. CASE StubNoStop BY <1>0, <1>00, <1>23 DEF StubNoStop
<1>24. CASE StubRunInterrupt BY <1>0, <1>00, <1>24 DEF StubRunInterrupt
<1>25. CASE StubStray BY <1>0, <1>00, <1>25 DEF StubStray
<1>26. CASE StubPollQuiet BY <1>0, <1>00, <1>26 DEF StubPollQuiet
<1> QED BY <1>1, <1>2, <1>3, <1>4, <1>5, <1>6, <1>7, <1>8, <1>9, <1>10, <1>11, <1>12, <1>13, <1>14, <1>15, <1>16, <1>17, <1>18, <1>19, <1>20, <1>21, <1>22, <1>23, <1>24, <1>25, <1>26 DEF StubNext

LEMMA ClientKeepsConn ==
    ASSUME Patient, TypeOK, ConnInv, ClientNext PROVE ConnInv'
<1> USE DEF ConnInv, InInterrupt, Detaching, Client, Ask, Command, Close, Reply, Pkt, flags, machine, cpuLoc, stubLoc
<1>1. CASE ClientConnect BY <1>1 DEF ClientConnect
<1>2. CASE ClientHello BY <1>2 DEF ClientHello
<1>3. CASE ClientQuery BY <1>3 DEF ClientQuery
<1>4. CASE ClientEdit BY <1>4 DEF ClientEdit, Edits
<1>5. CASE ClientResume BY <1>5 DEF ClientResume
<1>6. CASE ClientDetach BY <1>6 DEF ClientDetach
<1>7. CASE ClientKill BY <1>7 DEF ClientKill
<1>8. CASE ClientInterrupt BY <1>8 DEF ClientInterrupt
<1>9. CASE ClientVanish BY <1>9 DEF ClientVanish
<1>10. CASE ClientAnswered BY <1>10 DEF ClientAnswered
<1>11. CASE ClientStopped BY <1>11 DEF ClientStopped
<1>12. CASE ClientUnexpected BY <1>12 DEF ClientUnexpected
<1>13. CASE ClientExited BY <1>13 DEF ClientExited
<1>14. CASE ClientDetached BY <1>14 DEF ClientDetached
<1>15. CASE ClientEof BY <1>15 DEF ClientEof
<1> QED BY <1>1, <1>2, <1>3, <1>4, <1>5, <1>6, <1>7, <1>8, <1>9, <1>10, <1>11, <1>12, <1>13, <1>14, <1>15 DEF ClientNext, ClientReads

(***************************************************************************)
(* The CPU thread is held while the debugger believes the guest stopped.   *)
(***************************************************************************)

LEMMA CpuKeepsHeld ==
    ASSUME TypeOK, hostRunning => HeldInv, CpuNext, hostRunning' PROVE HeldInv'
<1> USE DEF HeldInv, Parked, Starting, Watching, Serving, InInterrupt, RunLocs,
            CpuGo, CpuStop, flags, machine, stubLoc
<1>1. CASE CpuLoop BY <1>1 DEF CpuLoop
<1>2. CASE CpuGateOpen BY <1>2 DEF CpuGateOpen
<1>3. CASE CpuGateClosed BY <1>3 DEF CpuGateClosed
<1>4. CASE CpuBpHit BY <1>4 DEF CpuBpHit
<1>5. CASE CpuBpMiss BY <1>5 DEF CpuBpMiss
<1>6. CASE CpuOver BY <1>6 DEF CpuOver
<1>7. CASE CpuExec BY <1>7 DEF CpuExec, TypeOK
<1>8. CASE CpuHostGone BY <1>8 DEF CpuHostGone
<1>9. CASE CpuTrapped BY <1>9 DEF CpuTrapped
<1>10. CASE CpuNoTrap BY <1>10 DEF CpuNoTrap
<1>11. CASE CpuStepped BY <1>11 DEF CpuStepped
<1>12. CASE CpuNotStepping BY <1>12 DEF CpuNotStepping
<1>13. CASE CpuClose BY <1>13 DEF CpuClose
<1>14. CASE CpuSignal BY <1>14 DEF CpuSignal
<1>15. CASE CpuResume BY <1>15 DEF CpuResume, TypeOK, CpuReturns
<1>16. CASE CpuFinished BY <1>16 DEF CpuFinished
<1>17. CASE CpuLinger BY <1>17 DEF CpuLinger
<1>18. CASE CpuStopStub BY <1>18 DEF CpuStopStub
<1>19. CASE CpuCloseFds BY <1>19 DEF CpuCloseFds
<1>20. CASE CpuJoin BY <1>20 DEF CpuJoin
<1> QED BY <1>1, <1>2, <1>3, <1>4, <1>5, <1>6, <1>7, <1>8, <1>9, <1>10, <1>11, <1>12, <1>13, <1>14, <1>15, <1>16, <1>17, <1>18, <1>19, <1>20 DEF CpuNext

LEMMA StubKeepsHeld ==
    ASSUME EndInv, ConnInv, hostRunning => HeldInv, StubNext, hostRunning' PROVE HeldInv'
<1> USE DEF HeldInv, Parked, Starting, Watching, Serving, InInterrupt, RunLocs, EndInv, 
            StubGo, flags, cpuLoc, Quietly, NoFlags, NoEdit, NoTraffic, EndJob, Receive, Send
<1>1. CASE StubTop BY <1>1 DEF StubTop
<1>2. CASE StubAccept BY <1>2 DEF StubAccept
<1>3. CASE StubWoken BY <1>3 DEF StubWoken
<1>4. CASE StubHangup BY <1>4 DEF StubHangup
<1>5. CASE StubIdleInterrupt BY <1>5 DEF StubIdleInterrupt
<1>6. CASE StubQuery BY <1>6 DEF StubQuery
<1>7. CASE StubSetBp BY <1>7 DEF StubSetBp
<1>8. CASE StubRemoveBp BY <1>8 DEF StubRemoveBp
<1>9. CASE StubWritePc BY <1>9 DEF StubWritePc
<1>10. CASE StubKill BY <1>10 DEF StubKill
<1>11. CASE StubResume BY <1>11 DEF StubResume
<1>12. CASE StubArm BY <1>12 DEF StubArm
<1>13. CASE StubOpen BY <1>13 DEF StubOpen
<1>14. CASE StubMode BY <1>14 DEF StubMode, ConnInv, Detaching
<1>15. CASE StubHalt BY <1>15 DEF StubHalt
<1>16. CASE StubUnstep BY <1>16 DEF StubUnstep, ConnInv
<1>17. CASE StubRun BY <1>17 DEF StubRun
<1>18. CASE StubPhase BY <1>18 DEF StubPhase
<1>19. CASE StubSayExit BY <1>19 DEF StubSayExit
<1>20. CASE StubExitSent BY <1>20 DEF StubExitSent
<1>21. CASE StubHost BY <1>21 DEF StubHost
<1>22. CASE StubReportStop BY <1>22 DEF StubReportStop
<1>23. CASE StubNoStop BY <1>23 DEF StubNoStop
<1>24. CASE StubRunInterrupt BY <1>24 DEF StubRunInterrupt
<1>25. CASE StubStray BY <1>25 DEF StubStray
<1>26. CASE StubPollQuiet BY <1>26 DEF StubPollQuiet
<1> QED BY <1>1, <1>2, <1>3, <1>4, <1>5, <1>6, <1>7, <1>8, <1>9, <1>10, <1>11, <1>12, <1>13, <1>14, <1>15, <1>16, <1>17, <1>18, <1>19, <1>20, <1>21, <1>22, <1>23, <1>24, <1>25, <1>26 DEF StubNext

LEMMA ClientKeepsHeld ==
    ASSUME Patient, ConnInv, hostRunning => HeldInv, ClientNext, hostRunning' PROVE HeldInv'
<1> USE DEF HeldInv, ConnInv, Parked, Starting, Watching, Serving, InInterrupt, RunLocs,
            Client, Ask, Command, Close, Reply, Pkt, flags, machine, cpuLoc, stubLoc
<1>1. CASE ClientConnect BY <1>1 DEF ClientConnect
<1>2. CASE ClientHello BY <1>2 DEF ClientHello
<1>3. CASE ClientQuery BY <1>3 DEF ClientQuery
<1>4. CASE ClientEdit BY <1>4 DEF ClientEdit
<1>5. CASE ClientResume BY <1>5 DEF ClientResume
<1>6. CASE ClientDetach BY <1>6 DEF ClientDetach
<1>7. CASE ClientKill BY <1>7 DEF ClientKill
<1>8. CASE ClientInterrupt BY <1>8 DEF ClientInterrupt
<1>9. CASE ClientVanish BY <1>9 DEF ClientVanish
<1>10. CASE ClientAnswered BY <1>10 DEF ClientAnswered
<1>11. CASE ClientStopped BY <1>11 DEF ClientStopped
<1>12. CASE ClientUnexpected BY <1>12 DEF ClientUnexpected
<1>13. CASE ClientExited BY <1>13 DEF ClientExited
<1>14. CASE ClientDetached BY <1>14 DEF ClientDetached
<1>15. CASE ClientEof BY <1>15 DEF ClientEof
<1> QED BY <1>1, <1>2, <1>3, <1>4, <1>5, <1>6, <1>7, <1>8, <1>9, <1>10, <1>11, <1>12, <1>13, <1>14, <1>15 DEF ClientNext, ClientReads

-----------------------------------------------------------------------------

LEMMA SessionInit == Init => SessionInv
BY DEF Init, SessionInv, EndInv, ConnInv, HeldInv, Parked, Starting, Watching, Serving,
       InInterrupt, Detaching, RunLocs

LEMMA SessionStep ==
    ASSUME Patient PROVE TypeOK /\ SessionInv /\ [Next]_vars => SessionInv'
<1> SUFFICES ASSUME TypeOK, SessionInv, [Next]_vars PROVE SessionInv' OBVIOUS
<1> USE DEF SessionInv
<1>1. CASE CpuNext BY <1>1, CpuKeepsEnd, CpuKeepsConn, CpuKeepsHeld
<1>2. CASE StubNext BY <1>2, StubKeepsEnd, StubKeepsConn, StubKeepsHeld
<1>3. CASE ClientNext BY <1>3, ClientKeepsEnd, ClientKeepsConn, ClientKeepsHeld
<1>4. CASE HostStop
  BY <1>4 DEF HostStop, EndInv, ConnInv, InInterrupt, Detaching, machine, cpuLoc, stubLoc, net
<1>5. CASE UNCHANGED vars
  BY <1>5 DEF EndInv, ConnInv, HeldInv, Parked, Starting, Watching, Serving, InInterrupt,
              Detaching, vars, flags, machine, cpuLoc, stubLoc, net
<1> QED BY <1>1, <1>2, <1>3, <1>4, <1>5 DEF Next, Ended

\* A debugger that waits for the stub to act on its arrival can trust every stop
\* it is told of: until it resumes the guest, the CPU thread stays in
\* dbg_wait_for_run, whatever the guest runs, wherever the breakpoints are and
\* however many ^C arrive at whatever moment.
THEOREM ToldMeansStopped == ASSUME Patient PROVE Spec => []ToldStopped
<1>1. Init => SessionInv BY SessionInit
<1>2. TypeOK /\ SessionInv /\ [Next]_vars => SessionInv' BY SessionStep
<1>3. SessionInv => ToldStopped BY DEF SessionInv, HeldInv, ToldStopped
<1> QED BY <1>1, <1>2, <1>3, TypeCorrect, PTL DEF Spec

-----------------------------------------------------------------------------
(***************************************************************************)
(* The refinement needs more: no command but the first "?" of a session    *)
(* reaches the stub before the debugger has been told of a stop, and the   *)
(* breakpoint check stays true until the instruction is executed.          *)
(***************************************************************************)

FirstQuery == inbox = <<Pkt("?")>> /\ outbox = <<>>

ToldInv ==
    /\ Serving /\ conn = "open" /\ dbg \in {"idle", "waiting"} => told
    /\ Serving /\ inbox # <<>> /\ ~told => FirstQuery
    /\ Serving /\ conn = "open" /\ dbg = "asking" /\ ~told => FirstQuery

QuietInv ==
    /\ conn \in {"none", "backlog"} => outbox = <<>>
    /\ conn = "open" /\ dbg = "fresh" =>
           /\ inbox = <<>> /\ outbox = <<>>
           /\ ~Starting /\ ~Watching /\ ~InInterrupt("idle^C")

CommandInv == SessionInv /\ QuietInv /\ (hostRunning => ToldInv /\ NoMissedBreakpoint)

LEMMA CpuKeepsCommand ==
    ASSUME TypeOK, SessionInv, QuietInv, hostRunning => ToldInv /\ NoMissedBreakpoint,
           CpuNext
    PROVE  QuietInv' /\ (hostRunning' => ToldInv' /\ NoMissedBreakpoint')
<1> USE DEF QuietInv, ToldInv, FirstQuery, NoMissedBreakpoint, Serving, Starting, Watching,
            RunLocs, InInterrupt, CpuGo, CpuStop, flags, machine, stubLoc
<1>0. NextPc(Resolve(guest)) = NextPc(guest)
  BY DEF TypeOK, Guest, NextPc, Resolve
<1>1. CASE CpuLoop BY <1>0, <1>1 DEF CpuLoop
<1>2. CASE CpuGateOpen BY <1>0, <1>2 DEF CpuGateOpen
<1>3. CASE CpuGateClosed BY <1>0, <1>3 DEF CpuGateClosed
<1>4. CASE CpuBpHit BY <1>0, <1>4 DEF CpuBpHit
<1>5. CASE CpuBpMiss BY <1>0, <1>5 DEF CpuBpMiss
<1>6. CASE CpuOver BY <1>0, <1>6 DEF CpuOver
<1>7. CASE CpuExec BY <1>0, <1>7 DEF CpuExec, TypeOK
<1>8. CASE CpuHostGone BY <1>0, <1>8 DEF CpuHostGone
<1>9. CASE CpuTrapped BY <1>0, <1>9 DEF CpuTrapped
<1>10. CASE CpuNoTrap BY <1>0, <1>10 DEF CpuNoTrap
<1>11. CASE CpuStepped BY <1>0, <1>11 DEF CpuStepped
<1>12. CASE CpuNotStepping BY <1>0, <1>12 DEF CpuNotStepping
<1>13. CASE CpuClose BY <1>0, <1>13 DEF CpuClose
<1>14. CASE CpuSignal BY <1>0, <1>14 DEF CpuSignal
<1>15. CASE CpuResume BY <1>0, <1>15 DEF CpuResume, TypeOK, CpuReturns
<1>16. CASE CpuFinished BY <1>0, <1>16 DEF CpuFinished
<1>17. CASE CpuLinger BY <1>0, <1>17 DEF CpuLinger
<1>18. CASE CpuStopStub BY <1>0, <1>18 DEF CpuStopStub
<1>19. CASE CpuCloseFds BY <1>0, <1>19 DEF CpuCloseFds
<1>20. CASE CpuJoin BY <1>0, <1>20 DEF CpuJoin
<1> QED BY <1>1, <1>2, <1>3, <1>4, <1>5, <1>6, <1>7, <1>8, <1>9, <1>10, <1>11, <1>12, <1>13, <1>14, <1>15, <1>16, <1>17, <1>18, <1>19, <1>20 DEF CpuNext

LEMMA StubKeepsCommand ==
    ASSUME TypeOK, SessionInv, QuietInv, hostRunning => ToldInv /\ NoMissedBreakpoint,
           StubNext
    PROVE  QuietInv' /\ (hostRunning' => ToldInv' /\ NoMissedBreakpoint')
<1> USE DEF SessionInv, EndInv, ConnInv, QuietInv, Pkt, HeldInv, ToldInv, FirstQuery, NoMissedBreakpoint, Parked, Starting, Watching, Serving, InInterrupt, RunLocs,
            StubGo, flags, cpuLoc, Quietly, NoFlags, NoEdit, NoTraffic, EndJob, Receive, Send
<1>1. CASE StubTop BY <1>1 DEF StubTop
<1>2. CASE StubAccept BY <1>2 DEF StubAccept
<1>3. CASE StubWoken BY <1>3 DEF StubWoken
<1>4. CASE StubHangup BY <1>4 DEF StubHangup
<1>5. CASE StubIdleInterrupt BY <1>5 DEF StubIdleInterrupt
<1>6. CASE StubQuery BY <1>6 DEF StubQuery
<1>7. CASE StubSetBp BY <1>7 DEF StubSetBp
<1>8. CASE StubRemoveBp BY <1>8 DEF StubRemoveBp
<1>9. CASE StubWritePc BY <1>9 DEF StubWritePc
<1>10. CASE StubKill BY <1>10 DEF StubKill
<1>11. CASE StubResume BY <1>11 DEF StubResume
<1>12. CASE StubArm BY <1>12 DEF StubArm
<1>13. CASE StubOpen BY <1>13 DEF StubOpen
<1>14. CASE StubMode BY <1>14 DEF StubMode, Detaching
<1>15. CASE StubHalt BY <1>15 DEF StubHalt
<1>16. CASE StubUnstep BY <1>16 DEF StubUnstep
<1>17. CASE StubRun BY <1>17 DEF StubRun
<1>18. CASE StubPhase BY <1>18 DEF StubPhase
<1>19. CASE StubSayExit BY <1>19 DEF StubSayExit
<1>20. CASE StubExitSent BY <1>20 DEF StubExitSent
<1>21. CASE StubHost BY <1>21 DEF StubHost
<1>22. CASE StubReportStop BY <1>22 DEF StubReportStop
<1>23. CASE StubNoStop BY <1>23 DEF StubNoStop
<1>24. CASE StubRunInterrupt BY <1>24 DEF StubRunInterrupt
<1>25. CASE StubStray BY <1>25 DEF StubStray
<1>26. CASE StubPollQuiet BY <1>26 DEF StubPollQuiet
<1> QED BY <1>1, <1>2, <1>3, <1>4, <1>5, <1>6, <1>7, <1>8, <1>9, <1>10, <1>11, <1>12, <1>13, <1>14, <1>15, <1>16, <1>17, <1>18, <1>19, <1>20, <1>21, <1>22, <1>23, <1>24, <1>25, <1>26 DEF StubNext

LEMMA ClientKeepsCommand ==
    ASSUME Patient, TypeOK, SessionInv, QuietInv,
           hostRunning => ToldInv /\ NoMissedBreakpoint, ClientNext
    PROVE  QuietInv' /\ (hostRunning' => ToldInv' /\ NoMissedBreakpoint')
<1> USE DEF SessionInv, ConnInv, QuietInv, HeldInv, ToldInv, FirstQuery, NoMissedBreakpoint, Parked, Starting, Watching, Serving, InInterrupt, RunLocs,
            Client, Ask, Command, Close, Reply, Pkt, flags, machine, cpuLoc, stubLoc
<1>1. CASE ClientConnect BY <1>1 DEF ClientConnect
<1>2. CASE ClientHello BY <1>2 DEF ClientHello
<1>3. CASE ClientQuery BY <1>3 DEF ClientQuery
<1>4. CASE ClientEdit BY <1>4 DEF ClientEdit
<1>5. CASE ClientResume BY <1>5 DEF ClientResume
<1>6. CASE ClientDetach BY <1>6 DEF ClientDetach
<1>7. CASE ClientKill BY <1>7 DEF ClientKill
<1>8. CASE ClientInterrupt BY <1>8 DEF ClientInterrupt
<1>9. CASE ClientVanish BY <1>9 DEF ClientVanish
<1>10. CASE ClientAnswered BY <1>10 DEF ClientAnswered
<1>11. CASE ClientStopped BY <1>11 DEF ClientStopped
<1>12. CASE ClientUnexpected BY <1>12 DEF ClientUnexpected
<1>13. CASE ClientExited BY <1>13 DEF ClientExited
<1>14. CASE ClientDetached BY <1>14 DEF ClientDetached
<1>15. CASE ClientEof BY <1>15 DEF ClientEof
<1> QED BY <1>1, <1>2, <1>3, <1>4, <1>5, <1>6, <1>7, <1>8, <1>9, <1>10, <1>11, <1>12, <1>13, <1>14, <1>15 DEF ClientNext, ClientReads

LEMMA CommandInit == Init => CommandInv
BY SessionInit DEF Init, CommandInv, QuietInv, ToldInv, NoMissedBreakpoint, Serving, InInterrupt

LEMMA CommandStep ==
    ASSUME Patient PROVE TypeOK /\ CommandInv /\ [Next]_vars => CommandInv'
<1> SUFFICES ASSUME TypeOK, CommandInv, [Next]_vars PROVE CommandInv' OBVIOUS
<1> USE DEF CommandInv
<1>1. SessionInv' BY SessionStep
<1>2. CASE CpuNext BY <1>1, <1>2, CpuKeepsCommand
<1>3. CASE StubNext BY <1>1, <1>3, StubKeepsCommand
<1>4. CASE ClientNext BY <1>1, <1>4, ClientKeepsCommand
<1>5. CASE HostStop
  BY <1>1, <1>5 DEF HostStop, QuietInv, Starting, Watching, InInterrupt, RunLocs,
                    machine, cpuLoc, stubLoc, net
<1>6. CASE UNCHANGED vars
  BY <1>1, <1>6 DEF QuietInv, ToldInv, FirstQuery, NoMissedBreakpoint, Starting, Watching,
                    Serving, InInterrupt, RunLocs, vars, flags, machine, cpuLoc, stubLoc, net
<1> QED BY <1>2, <1>3, <1>4, <1>5, <1>6 DEF Next, Ended

LEMMA Commands == ASSUME Patient PROVE Spec => []CommandInv
<1>1. TypeOK /\ CommandInv /\ [Next]_vars => CommandInv' BY CommandStep
<1> QED BY <1>1, CommandInit, TypeCorrect, PTL DEF Spec

\* No breakpoint is run through: while a patient debugger's session goes on, the
\* instruction that the CPU thread is about to execute without having stopped
\* is at no breakpoint, delay slots and taken branches included.
THEOREM BreakpointsHold == ASSUME Patient PROVE Spec => []NoMissedBreakpoint
<1>1. CommandInv => NoMissedBreakpoint BY DEF CommandInv, NoMissedBreakpoint
<1> QED BY <1>1, Commands, PTL

-----------------------------------------------------------------------------
(***************************************************************************)
(* The refinement, step by step.                                           *)
(***************************************************************************)

LEMMA ResolveOnce ==
    ASSUME NEW g \in Guest
    PROVE  /\ Resolve(Resolve(g)) = Resolve(g)
           /\ Fetched(Resolve(g)) = Fetched(g)
           /\ Exec(Resolve(g)) = Exec(g)
<1>1. Resolve(Resolve(g)) = Resolve(g) BY DEF Resolve, Guest
<1>2. Fetched(Resolve(g)) = Fetched(g) BY <1>1 DEF Fetched, NextPc
<1> QED BY <1>1, <1>2 DEF Exec

\* A PC written by the debugger is lost if a branch is still to be folded in.
LEMMA ResolveEdited ==
    ASSUME NEW g \in Guest, NEW a \in Addr
    PROVE  \/ Resolve([g EXCEPT !.pc = a]) = Resolve([Resolve(g) EXCEPT !.pc = a])
           \/ Resolve([g EXCEPT !.pc = a]) = Resolve(g)
BY DEF Resolve, Guest

\* DebugSession sees the guest through the same operators.
LEMMA SameGuest ==
    /\ Session!Addr = Addr
    /\ Session!ResetGuest = ResetGuest
    /\ \A g : /\ Session!Resolve(g) = Resolve(g)
             /\ Session!Fetched(g) = Fetched(g)
             /\ Session!Exec(g) = Exec(g)
BY DEF Session!Addr, Session!ResetGuest, Session!Resolve, Session!Fetched, Session!Exec,
       Session!NextPc, Session!FallThrough, Session!Taken, Session!NotTaken, Session!Succ,
       Addr, ResetGuest, Resolve, Fetched, Exec, NextPc, FallThrough, Taken, NotTaken, Succ

LEMMA CpuRefines ==
    ASSUME TypeOK, CommandInv, CpuNext PROVE [Session!Next]_(Session!vars)
<1> USE DEF CommandInv, SessionInv, Session!vars, Session!Next, CpuGo, CpuStop, flags, machine, stubLoc
<1>0. guest \in Guest /\ hostRunning \in BOOLEAN BY DEF TypeOK
<1>00. Resolve(Resolve(guest)) = Resolve(guest) BY <1>0, ResolveOnce
<1>1. CASE CpuLoop BY <1>00, <1>1 DEF CpuLoop
<1>2. CASE CpuGateOpen BY <1>00, <1>2 DEF CpuGateOpen
<1>3. CASE CpuGateClosed BY <1>00, <1>3 DEF CpuGateClosed
<1>4. CASE CpuBpHit BY <1>00, <1>4 DEF CpuBpHit, Session!Hold, NextPc
<1>5. CASE CpuBpMiss BY <1>00, <1>5 DEF CpuBpMiss
<1>6. CASE CpuOver BY <1>00, <1>6 DEF CpuOver, Session!Abandon
<1>7. CASE CpuExec
  <2>1. PICK g \in Exec(guest) : guest' = g BY <1>7 DEF CpuExec
  <2>2. ~told \/ ~hostRunning BY <1>7 DEF CpuExec, HeldInv, Parked
  <2>3. \/ Resolve(guest).pc \notin bps
        \/ cpuPc = "execOver"
        \/ ~hostRunning
    BY <1>7 DEF CpuExec, NoMissedBreakpoint, NextPc
  <2>4. hostRunning' = (hostRunning /\ Fetched(Resolve(guest)).op # "exit")
    BY <1>7, <1>0, ResolveOnce, Zenon DEF CpuExec
  <2>5. g \in Exec(Resolve(guest)) BY <2>1, <1>0, ResolveOnce
  <2>6. cpuPc' = "post" /\ UNCHANGED <<told, bps>> BY <1>7 DEF CpuExec
  <2>7. Session!Run BY <2>1, <2>2, <2>3, <2>4, <2>5, <2>6, SameGuest DEF Session!Run
  <2> QED BY <2>7
<1>8. CASE CpuHostGone BY <1>00, <1>8 DEF CpuHostGone
<1>9. CASE CpuTrapped BY <1>00, <1>9 DEF CpuTrapped
<1>10. CASE CpuNoTrap BY <1>00, <1>10 DEF CpuNoTrap
<1>11. CASE CpuStepped BY <1>00, <1>11 DEF CpuStepped
<1>12. CASE CpuNotStepping BY <1>00, <1>12 DEF CpuNotStepping
<1>13. CASE CpuClose BY <1>00, <1>13 DEF CpuClose
<1>14. CASE CpuSignal BY <1>00, <1>14 DEF CpuSignal
<1>15. CASE CpuResume BY <1>00, <1>15 DEF CpuResume, TypeOK, CpuReturns
<1>16. CASE CpuFinished BY <1>00, <1>16 DEF CpuFinished
<1>17. CASE CpuLinger BY <1>00, <1>17 DEF CpuLinger
<1>18. CASE CpuStopStub BY <1>00, <1>18 DEF CpuStopStub
<1>19. CASE CpuCloseFds BY <1>00, <1>19 DEF CpuCloseFds
<1>20. CASE CpuJoin BY <1>00, <1>20 DEF CpuJoin
<1> QED BY <1>1, <1>2, <1>3, <1>4, <1>5, <1>6, <1>7, <1>8, <1>9, <1>10, <1>11, <1>12, <1>13, <1>14, <1>15, <1>16, <1>17, <1>18, <1>19, <1>20 DEF CpuNext

LEMMA StubRefines ==
    ASSUME TypeOK, CommandInv, StubNext PROVE [Session!Next]_(Session!vars)
<1> USE DEF CommandInv, SessionInv, Session!vars, Session!Next, StubGo, flags, cpuLoc, Quietly, NoFlags, NoEdit, NoTraffic, EndJob, Receive, Send
<1>0. guest \in Guest /\ bps \subseteq Addr BY DEF TypeOK
<1>00. inbox # <<>> => Head(inbox) \in Packets BY DEF TypeOK
<1>1. CASE StubTop BY <1>1 DEF StubTop
<1>2. CASE StubAccept BY <1>2 DEF StubAccept
<1>3. CASE StubWoken BY <1>3 DEF StubWoken
<1>4. CASE StubHangup BY <1>4 DEF StubHangup
<1>5. CASE StubIdleInterrupt BY <1>5 DEF StubIdleInterrupt
<1>6. CASE StubQuery BY <1>6 DEF StubQuery, Session!Tell
<1>7. CASE StubSetBp
  <2>1. Head(inbox).addr \in Addr
    BY <1>7, <1>00, DebuggerAddrsAssumption DEF StubSetBp, Packets, Plain, Edits
  <2>2. told \/ ~hostRunning
    BY <1>7 DEF StubSetBp, ToldInv, FirstQuery, Pkt, Serving
  <2>3. bps' \in SUBSET Addr BY <1>7, <2>1, <1>0 DEF StubSetBp
  <2>4. UNCHANGED <<hostRunning, told, guest, cpuPc, cpuRet>> BY <1>7 DEF StubSetBp
  <2>5. Session!Edit BY <2>2, <2>3, <2>4, SameGuest DEF Session!Edit
  <2> QED BY <2>5
<1>8. CASE StubRemoveBp
  <2>1. Head(inbox).addr \in Addr
    BY <1>8, <1>00, DebuggerAddrsAssumption DEF StubRemoveBp, Packets, Plain, Edits
  <2>2. told \/ ~hostRunning
    BY <1>8 DEF StubRemoveBp, ToldInv, FirstQuery, Pkt, Serving
  <2>3. bps' \in SUBSET Addr BY <1>8, <2>1, <1>0 DEF StubRemoveBp
  <2>4. UNCHANGED <<hostRunning, told, guest, cpuPc, cpuRet>> BY <1>8 DEF StubRemoveBp
  <2>5. Session!Edit BY <2>2, <2>3, <2>4, SameGuest DEF Session!Edit
  <2> QED BY <2>5
<1>9. CASE StubWritePc
  <2>1. Head(inbox).addr \in Addr
    BY <1>9, <1>00, DebuggerAddrsAssumption DEF StubWritePc, Packets, Plain, Edits
  <2>2. told \/ ~hostRunning
    BY <1>9 DEF StubWritePc, ToldInv, FirstQuery, Pkt, Serving
  <2>3. \/ Resolve(guest') = Resolve([Resolve(guest) EXCEPT !.pc = Head(inbox).addr])
        \/ Resolve(guest') = Resolve(guest)
    BY <1>9, <2>1, <1>0, ResolveEdited DEF StubWritePc
  <2>4. UNCHANGED <<hostRunning, told, bps, cpuPc, cpuRet>> BY <1>9 DEF StubWritePc
  <2> QED BY <2>1, <2>2, <2>3, <2>4, SameGuest DEF Session!Edit
<1>10. CASE StubKill BY <1>10 DEF StubKill, Session!Stop
<1>11. CASE StubResume BY <1>11 DEF StubResume, Session!Resume
<1>12. CASE StubArm BY <1>12 DEF StubArm
<1>13. CASE StubOpen BY <1>13 DEF StubOpen
<1>14. CASE StubMode BY <1>14 DEF StubMode
<1>15. CASE StubHalt BY <1>15 DEF StubHalt
<1>16. CASE StubUnstep BY <1>16 DEF StubUnstep, Session!Tell
<1>17. CASE StubRun BY <1>17 DEF StubRun
<1>18. CASE StubPhase BY <1>18 DEF StubPhase
<1>19. CASE StubSayExit BY <1>19 DEF StubSayExit
<1>20. CASE StubExitSent BY <1>20 DEF StubExitSent
<1>21. CASE StubHost BY <1>21 DEF StubHost
<1>22. CASE StubReportStop BY <1>22 DEF StubReportStop, Session!Tell
<1>23. CASE StubNoStop BY <1>23 DEF StubNoStop
<1>24. CASE StubRunInterrupt BY <1>24 DEF StubRunInterrupt
<1>25. CASE StubStray BY <1>25 DEF StubStray
<1>26. CASE StubPollQuiet BY <1>26 DEF StubPollQuiet
<1> QED BY <1>1, <1>2, <1>3, <1>4, <1>5, <1>6, <1>7, <1>8, <1>9, <1>10, <1>11, <1>12, <1>13, <1>14, <1>15, <1>16, <1>17, <1>18, <1>19, <1>20, <1>21, <1>22, <1>23, <1>24, <1>25, <1>26 DEF StubNext

\* The threads, the flags and the packets implement the session they are meant
\* for: with a patient debugger every step is a step of DebugSession or invisible
\* to it, so the guest moves only while no stop has been reported, is edited only
\* while one has, and runs through no breakpoint.
THEOREM SessionImplemented == ASSUME Patient PROVE Spec => SessionKept
<1>1. Init => Session!Init
  <2> SUFFICES ASSUME Init PROVE Session!Init OBVIOUS
  <2>1. Resolve(guest) = Session!ResetGuest BY SameGuest DEF Init, ResetGuest, Resolve
  <2>2. cpuPc = "loop" BY DEF Init
  <2>3. hostRunning = TRUE /\ told = FALSE /\ bps = {} BY DEF Init
  <2> QED BY <2>1, <2>2, <2>3 DEF Session!Init
<1>2. TypeOK /\ CommandInv /\ [Next]_vars => [Session!Next]_(Session!vars)
  <2> SUFFICES ASSUME TypeOK, CommandInv, [Next]_vars PROVE [Session!Next]_(Session!vars)
    OBVIOUS
  <2>1. CASE CpuNext BY <2>1, CpuRefines
  <2>2. CASE StubNext BY <2>2, StubRefines
  <2>3. CASE ClientNext
    <3>1. UNCHANGED <<hostRunning, told, bps, guest, cpuPc, cpuRet>>
      BY <2>3 DEF ClientNext, ClientReads, ClientConnect, ClientHello, ClientQuery, ClientEdit,
           ClientResume, ClientDetach, ClientKill, ClientInterrupt, ClientVanish, ClientAnswered,
           ClientStopped, ClientUnexpected, ClientExited, ClientDetached, ClientEof,
           Client, Ask, Command, flags, machine, cpuLoc, stubLoc
    <3> QED BY <3>1 DEF Session!vars
  <2>4. CASE HostStop
    BY <2>4 DEF HostStop, Session!Next, Session!Stop, machine, cpuLoc, stubLoc, net
  <2>5. CASE UNCHANGED vars
    BY <2>5 DEF Session!vars, vars, flags, machine, cpuLoc, stubLoc, net
  <2> QED BY <2>1, <2>2, <2>3, <2>4, <2>5 DEF Next, Ended
<1> QED BY <1>1, <1>2, Commands, TypeCorrect, PTL DEF Spec, SessionKept, Session!Spec
-----------------------------------------------------------------------------
(***************************************************************************)
(* A single step.  Once the flag is armed it is there until the CPU thread *)
(* takes it, right behind the instruction, and whoever takes it, or stops  *)
(* for a breakpoint or a trap instead, closes the gate: only a new resume  *)
(* opens it.                                                               *)
(***************************************************************************)
Stopping == cpuPc = "close" \/ (cpuPc \in {"signal", "wait"} /\ ~gate)

StepInv ==
    hostRunning /\ stubJob = "s" /\ stubPc \in RunLocs =>
        \/ ran.armed = 0 /\ singleStep
        \/ ran.armed <= 1 /\ (Stopping \/ (singleStep /\ cpuPc \in {"post", "single"}))

LEMMA CpuKeepsStep ==
    ASSUME TypeOK, StepInv, CpuNext PROVE StepInv'
<1> USE DEF StepInv, Stopping, CpuGo, CpuStop, flags, machine, stubLoc
<1>1. CASE CpuLoop BY <1>1 DEF CpuLoop
<1>2. CASE CpuGateOpen BY <1>2 DEF CpuGateOpen
<1>3. CASE CpuGateClosed BY <1>3 DEF CpuGateClosed
<1>4. CASE CpuBpHit BY <1>4 DEF CpuBpHit
<1>5. CASE CpuBpMiss BY <1>5 DEF CpuBpMiss
<1>6. CASE CpuOver BY <1>6 DEF CpuOver
<1>7. CASE CpuExec BY <1>7 DEF CpuExec, TypeOK, RanBound
<1>8. CASE CpuHostGone BY <1>8 DEF CpuHostGone
<1>9. CASE CpuTrapped BY <1>9 DEF CpuTrapped
<1>10. CASE CpuNoTrap BY <1>10 DEF CpuNoTrap
<1>11. CASE CpuStepped BY <1>11 DEF CpuStepped
<1>12. CASE CpuNotStepping BY <1>12 DEF CpuNotStepping
<1>13. CASE CpuClose BY <1>13 DEF CpuClose
<1>14. CASE CpuSignal BY <1>14 DEF CpuSignal
<1>15. CASE CpuResume BY <1>15 DEF CpuResume
<1>16. CASE CpuFinished BY <1>16 DEF CpuFinished
<1>17. CASE CpuLinger BY <1>17 DEF CpuLinger
<1>18. CASE CpuStopStub BY <1>18 DEF CpuStopStub
<1>19. CASE CpuCloseFds BY <1>19 DEF CpuCloseFds
<1>20. CASE CpuJoin BY <1>20 DEF CpuJoin
<1> QED BY <1>1, <1>2, <1>3, <1>4, <1>5, <1>6, <1>7, <1>8, <1>9, <1>10, <1>11, <1>12, <1>13, <1>14, <1>15, <1>16, <1>17, <1>18, <1>19, <1>20 DEF CpuNext

LEMMA StubKeepsStep ==
    ASSUME TypeOK, StepInv, StubNext PROVE StepInv'
<1> USE DEF StepInv, Stopping, RunLocs, StubGo, flags, cpuLoc, Quietly, NoFlags, NoEdit, NoTraffic, EndJob, Receive, Send
<1>1. CASE StubTop BY <1>1 DEF StubTop
<1>2. CASE StubAccept BY <1>2 DEF StubAccept
<1>3. CASE StubWoken BY <1>3 DEF StubWoken
<1>4. CASE StubHangup BY <1>4 DEF StubHangup
<1>5. CASE StubIdleInterrupt BY <1>5 DEF StubIdleInterrupt
<1>6. CASE StubQuery BY <1>6 DEF StubQuery
<1>7. CASE StubSetBp BY <1>7 DEF StubSetBp
<1>8. CASE StubRemoveBp BY <1>8 DEF StubRemoveBp
<1>9. CASE StubWritePc BY <1>9 DEF StubWritePc
<1>10. CASE StubKill BY <1>10 DEF StubKill
<1>11. CASE StubResume BY <1>11 DEF StubResume
<1>12. CASE StubArm BY <1>12 DEF StubArm
<1>13. CASE StubOpen BY <1>13 DEF StubOpen
<1>14. CASE StubMode BY <1>14 DEF StubMode, TypeOK
<1>15. CASE StubHalt BY <1>15 DEF StubHalt
<1>16. CASE StubUnstep BY <1>16 DEF StubUnstep
<1>17. CASE StubRun BY <1>17 DEF StubRun
<1>18. CASE StubPhase BY <1>18 DEF StubPhase
<1>19. CASE StubSayExit BY <1>19 DEF StubSayExit
<1>20. CASE StubExitSent BY <1>20 DEF StubExitSent
<1>21. CASE StubHost BY <1>21 DEF StubHost
<1>22. CASE StubReportStop BY <1>22 DEF StubReportStop
<1>23. CASE StubNoStop BY <1>23 DEF StubNoStop
<1>24. CASE StubRunInterrupt BY <1>24 DEF StubRunInterrupt
<1>25. CASE StubStray BY <1>25 DEF StubStray
<1>26. CASE StubPollQuiet BY <1>26 DEF StubPollQuiet
<1> QED BY <1>1, <1>2, <1>3, <1>4, <1>5, <1>6, <1>7, <1>8, <1>9, <1>10, <1>11, <1>12, <1>13, <1>14, <1>15, <1>16, <1>17, <1>18, <1>19, <1>20, <1>21, <1>22, <1>23, <1>24, <1>25, <1>26 DEF StubNext

LEMMA ClientKeepsStep ==
    ASSUME StepInv, ClientNext PROVE StepInv'
<1>1. UNCHANGED <<flags, ran, cpuPc, stubPc, stubJob>>
  BY DEF ClientNext, ClientReads, ClientConnect, ClientHello, ClientQuery, ClientEdit,
         ClientResume, ClientDetach, ClientKill, ClientInterrupt, ClientVanish,
         ClientAnswered, ClientStopped, ClientUnexpected, ClientExited, ClientDetached,
         ClientEof, Client, Ask, Command, Close, machine, cpuLoc, stubLoc, flags
<1> QED BY <1>1 DEF StepInv, Stopping, flags

(***************************************************************************)
(* rsp_step lets the guest execute at most one instruction once the flag   *)
(* is armed, whatever the debugger sends meanwhile and wherever the CPU    *)
(* thread was when the gate opened.                                        *)
(***************************************************************************)
THEOREM StepsAreBounded == Spec => []StepBounded
<1>1. Init => StepInv BY DEF Init, StepInv
<1>2. TypeOK /\ StepInv /\ [Next]_vars => StepInv'
  <2> SUFFICES ASSUME TypeOK, StepInv, [Next]_vars PROVE StepInv' OBVIOUS
  <2>1. CASE CpuNext BY <2>1, CpuKeepsStep
  <2>2. CASE StubNext BY <2>2, StubKeepsStep
  <2>3. CASE ClientNext BY <2>3, ClientKeepsStep
  <2>4. CASE HostStop BY <2>4 DEF HostStop, StepInv
  <2>5. CASE UNCHANGED vars
    BY <2>5 DEF vars, flags, machine, cpuLoc, stubLoc, StepInv, Stopping
  <2> QED BY <2>1, <2>2, <2>3, <2>4, <2>5 DEF Next, Ended
<1>3. TypeOK /\ StepInv => StepBounded
  BY DEF TypeOK, StepInv, StepBounded, RanBound
<1> QED BY <1>1, <1>2, <1>3, TypeCorrect, PTL DEF Spec
-----------------------------------------------------------------------------
(***************************************************************************)
(* The line.  A debugger that sends no ^C has at most one packet or reply  *)
(* on its way, and none of its packets while a resume is being served.     *)
(***************************************************************************)
Busy == stubPc \in {"arm", "open", "mode"} \/ stubPc \in RunLocs

LineInv ==
    /\ inbox = <<>> \/ (Len(inbox) = 1 /\ outbox = <<>>)
    /\ Len(outbox) <= 1
    /\ inbox # <<>> => Head(inbox).op # "^C"
    /\ stubPc \in {"halt", "unstep"} => stubJob = "attach"
    /\ Busy => inbox = <<>> /\ (stubPc # "exitSent" => outbox = <<>>)
    /\ stubPc = "exitSent" /\ outbox # <<>> => Head(outbox) = "W"
    /\ conn \in {"none", "backlog"} => inbox = <<>> /\ outbox = <<>> /\ ~Busy
    /\ conn = "backlog" => dbg = "fresh"
    /\ conn = "open" => dbg # "off"
    /\ conn = "open" /\ dbg \in {"fresh", "idle"} => inbox = <<>> /\ outbox = <<>> /\ ~Busy
    /\ conn = "open" /\ dbg = "asking" =>
           ~Busy /\ (inbox # <<>> => Head(inbox).op \notin {"c", "s", "D"})

LEMMA CpuKeepsLine ==
    ASSUME LineInv, CpuNext PROVE LineInv'
<1>1. UNCHANGED <<inbox, outbox, stubPc, stubJob, dbg>> /\ conn' \in {conn, "closed"}
  BY DEF CpuNext, CpuLoop, CpuGateOpen, CpuGateClosed, CpuBpHit, CpuBpMiss, CpuOver, CpuExec,
         CpuHostGone, CpuTrapped, CpuNoTrap, CpuStepped, CpuNotStepping, CpuClose, CpuSignal,
         CpuResume, CpuFinished, CpuLinger, CpuStopStub, CpuCloseFds, CpuJoin, CpuGo, CpuStop,
         stubLoc
<1> QED BY <1>1 DEF LineInv, Busy

LEMMA ModeKeepsLine ==
    ASSUME LineInv, StubMode PROVE LineInv'
<1>1. /\ stubPc = "mode" /\ stubPc' \in {"top", "run"} /\ UNCHANGED <<conn, inbox, dbg>>
      /\ stubPc' = "run" => outbox' = outbox
      /\ outbox' = outbox \/ outbox' = Append(outbox, "OK")
  BY DEF StubMode, StubGo, Send, NoTraffic
<1>2. /\ inbox = <<>> /\ outbox = <<>> /\ (conn = "backlog" => dbg = "fresh")
      /\ conn \notin {"none", "backlog"}
      /\ conn = "open" => dbg \notin {"off", "fresh", "idle", "asking"}
  BY <1>1 DEF LineInv, Busy
<1>3. outbox' = <<>> \/ outbox' = <<"OK">>
  BY <1>1, <1>2
<1>4. Len(outbox') <= 1
  <2>1. Len(<<>>) = 0 /\ Len(<<"OK">>) = 1
    OBVIOUS
  <2>2. CASE outbox' = <<>> BY <2>1, <2>2
  <2>3. CASE outbox' = <<"OK">> BY <2>1, <2>3
  <2> QED BY <1>3, <2>2, <2>3
<1> QED BY <1>1, <1>2, <1>4 DEF LineInv, Busy, RunLocs

LEMMA StubKeepsLine ==
    ASSUME TypeOK, LineInv, StubNext PROVE LineInv'
<1> USE DEF LineInv, Busy, RunLocs, StubGo, Quietly, NoTraffic, EndJob, Receive, Send, TypeOK
<1>1. CASE StubTop BY <1>1 DEF StubTop
<1>2. CASE StubAccept BY <1>2 DEF StubAccept
<1>3. CASE StubWoken BY <1>3 DEF StubWoken
<1>4. CASE StubHangup BY <1>4 DEF StubHangup
<1>5. CASE StubIdleInterrupt BY <1>5 DEF StubIdleInterrupt
<1>6. CASE StubQuery BY <1>6 DEF StubQuery
<1>7. CASE StubSetBp BY <1>7 DEF StubSetBp
<1>8. CASE StubRemoveBp BY <1>8 DEF StubRemoveBp
<1>9. CASE StubWritePc BY <1>9 DEF StubWritePc
<1>10. CASE StubKill BY <1>10 DEF StubKill
<1>11. CASE StubResume BY <1>11 DEF StubResume
<1>12. CASE StubArm BY <1>12 DEF StubArm
<1>13. CASE StubOpen BY <1>13 DEF StubOpen
<1>14. CASE StubMode BY <1>14, ModeKeepsLine
<1>15. CASE StubHalt BY <1>15 DEF StubHalt
<1>16. CASE StubUnstep BY <1>16 DEF StubUnstep
<1>17. CASE StubRun BY <1>17 DEF StubRun
<1>18. CASE StubPhase BY <1>18 DEF StubPhase
<1>19. CASE StubSayExit BY <1>19 DEF StubSayExit
<1>20. CASE StubExitSent BY <1>20 DEF StubExitSent
<1>21. CASE StubHost BY <1>21 DEF StubHost
<1>22. CASE StubReportStop BY <1>22 DEF StubReportStop
<1>23. CASE StubNoStop BY <1>23 DEF StubNoStop
<1>24. CASE StubRunInterrupt BY <1>24 DEF StubRunInterrupt
<1>25. CASE StubStray BY <1>25 DEF StubStray
<1>26. CASE StubPollQuiet BY <1>26 DEF StubPollQuiet
<1> QED BY <1>1, <1>2, <1>3, <1>4, <1>5, <1>6, <1>7, <1>8, <1>9, <1>10, <1>11, <1>12, <1>13, <1>14, <1>15, <1>16, <1>17, <1>18, <1>19, <1>20, <1>21, <1>22, <1>23, <1>24, <1>25, <1>26 DEF StubNext

LEMMA ClientKeepsLine ==
    ASSUME MaxBreaks = 0, TypeOK, LineInv, ClientNext PROVE LineInv'
<1> USE DEF LineInv, Busy, RunLocs, Client, Ask, Command, Close, Reply, Pkt, stubLoc, TypeOK, Edits
<1>1. CASE ClientConnect BY <1>1 DEF ClientConnect
<1>2. CASE ClientHello BY <1>2 DEF ClientHello
<1>3. CASE ClientQuery BY <1>3 DEF ClientQuery
<1>4. CASE ClientEdit BY <1>4 DEF ClientEdit
<1>5. CASE ClientResume BY <1>5 DEF ClientResume
<1>6. CASE ClientDetach BY <1>6 DEF ClientDetach
<1>7. CASE ClientKill BY <1>7 DEF ClientKill
<1>8. CASE ClientInterrupt BY <1>8 DEF ClientInterrupt
<1>9. CASE ClientVanish BY <1>9 DEF ClientVanish
<1>10. CASE ClientAnswered BY <1>10 DEF ClientAnswered
<1>11. CASE ClientStopped BY <1>11 DEF ClientStopped
<1>12. CASE ClientUnexpected BY <1>12 DEF ClientUnexpected
<1>13. CASE ClientExited BY <1>13 DEF ClientExited
<1>14. CASE ClientDetached BY <1>14 DEF ClientDetached
<1>15. CASE ClientEof BY <1>15 DEF ClientEof
<1> QED BY <1>1, <1>2, <1>3, <1>4, <1>5, <1>6, <1>7, <1>8, <1>9, <1>10, <1>11, <1>12, <1>13, <1>14, <1>15 DEF ClientNext, ClientReads

(***************************************************************************)
(* rsp_run_and_report_stop throws away whatever it reads that is no ^C.    *)
(* It never reads a packet as long as the debugger does not break into the *)
(* guest: not even when it speaks before the stub has acted on its         *)
(* arrival.  (A ^C may be answered twice, and from then on the debugger is *)
(* a reply ahead of the stub.)                                             *)
(***************************************************************************)
THEOREM PacketsArrive == ASSUME MaxBreaks = 0 PROVE Spec => NoPacketDropped
<1>1. Init => LineInv BY DEF Init, LineInv, Busy, RunLocs
<1>2. TypeOK /\ LineInv /\ [Next]_vars => LineInv'
  <2> SUFFICES ASSUME TypeOK, LineInv, [Next]_vars PROVE LineInv' OBVIOUS
  <2>1. CASE CpuNext BY <2>1, CpuKeepsLine
  <2>2. CASE StubNext BY <2>2, StubKeepsLine
  <2>3. CASE ClientNext BY <2>3, ClientKeepsLine
  <2>4. CASE HostStop BY <2>4 DEF HostStop, stubLoc, net, LineInv, Busy
  <2>5. CASE UNCHANGED vars
    BY <2>5 DEF vars, stubLoc, net, LineInv, Busy
  <2> QED BY <2>1, <2>2, <2>3, <2>4, <2>5 DEF Next, Ended
<1>3. LineInv => ~StubStray
  BY DEF LineInv, Busy, RunLocs, StubStray, StubGo, Receive
<1> QED BY <1>1, <1>2, <1>3, TypeCorrect, PTL DEF Spec, NoPacketDropped
=============================================================================
