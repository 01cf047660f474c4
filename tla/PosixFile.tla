----------------------------- MODULE PosixFile -----------------------------
(***************************************************************************)
(* One file as its users see it: a sequence of bytes that all descriptors  *)
(* share, and an offset for each descriptor.                               *)
(***************************************************************************)
EXTENDS Integers, Sequences

CONSTANTS Fds, Bytes, Modes, Top

Closed == [mode |-> "closed", append |-> FALSE, pos |-> 0]
Zero == 0

VARIABLES
  data,     \* the bytes of the file
  reach,    \* the largest size that it has had
  named,    \* the file has a path
  lost,     \* another file was renamed over it while it was open
  desc,     \* the descriptors, each open on this file or closed
  reply     \* what the last call read
vars == <<data, reach, named, lost, desc, reply>>

OpenFds == {f \in Fds : desc[f] # Closed}
At(f) == IF desc[f].append THEN Len(data) ELSE desc[f].pos

\* the bytes of s from offset off on, n of them if there are as many
Piece(s, off, n) == SubSeq(s, off + 1, IF off + n < Len(s) THEN off + n ELSE Len(s))

\* bytes that the file had before it was cut to s
Leftover(s) == Len(s)+1..reach

\* the gap before a write past the end is zero where nothing is left over
Overwritten(s, off, buf) ==
  LET end == IF off + Len(buf) > Len(s) THEN off + Len(buf) ELSE Len(s)
  IN  {r \in [1..end -> Bytes] :
         \A i \in 1..end :
           /\ i \in off+1..off+Len(buf) => r[i] = buf[i - off]
           /\ i <= Len(s) /\ i \notin off+1..off+Len(buf) => r[i] = s[i]
           /\ i \in Len(s)+1..off /\ i \notin Leftover(s) => r[i] = Zero}

Zeros(n) == [i \in 1..n |-> Zero]
Resized(s, n) == IF n <= Len(s) THEN SubSeq(s, 1, n) ELSE s \o Zeros(n - Len(s))

Reaches == reach' = IF Len(data') > reach THEN Len(data') ELSE reach
Moved(f, p) == desc' = [desc EXCEPT ![f].pos = p]
-----------------------------------------------------------------------------
Init ==
  /\ data \in Seq(Bytes) /\ reach = Len(data) /\ named = TRUE /\ lost = FALSE
  /\ desc = [f \in Fds |-> Closed] /\ reply = <<>>

Open(f, mode, append, trunc) ==
  /\ named /\ desc[f] = Closed
  /\ desc' = [desc EXCEPT ![f] = [mode |-> mode, append |-> append, pos |-> 0]]
  /\ data' = IF trunc /\ mode # "r" THEN <<>> ELSE data
  /\ reply' = <<>> /\ UNCHANGED <<reach, named, lost>>

\* a new file of that name, when nobody has the old one open
Created ==
  /\ ~named /\ OpenFds = {}
  /\ data' = <<>> /\ reach' = 0 /\ named' = TRUE /\ lost' = FALSE /\ reply' = <<>>
Create(f, mode, append) ==
  /\ Created
  /\ desc' = [desc EXCEPT ![f] = [mode |-> mode, append |-> append, pos |-> 0]]

\* an open that finds no descriptor may have truncated or created the file
TruncatingOpenFails ==
  /\ named
  /\ data' = <<>> /\ reply' = <<>> /\ UNCHANGED <<reach, named, lost, desc>>
CreatingOpenFails == Created /\ UNCHANGED desc

Read(f, n) ==
  /\ desc[f].mode \in {"r", "rw"}
  /\ reply' = Piece(data, desc[f].pos, n)
  /\ Moved(f, desc[f].pos + Len(reply'))
  /\ UNCHANGED <<data, reach, named, lost>>

Write(f, buf) ==
  /\ desc[f].mode \in {"w", "rw"}
  /\ At(f) + Len(buf) <= Top
  /\ data' \in Overwritten(data, At(f), buf) /\ Reaches
  /\ Moved(f, At(f) + Len(buf))
  /\ reply' = <<>> /\ UNCHANGED <<named, lost>>

\* no memory, or past the largest offset: the bytes stay as they are
WriteFails(f) ==
  /\ desc[f].mode \in {"w", "rw"}
  /\ Moved(f, At(f))
  /\ reply' = <<>> /\ UNCHANGED <<data, reach, named, lost>>

Lseek(f, p) ==
  /\ desc[f] # Closed
  /\ Moved(f, p)
  /\ reply' = <<>> /\ UNCHANGED <<data, reach, named, lost>>

\* one that runs out of memory may have added some zeros
Truncate(n) ==
  /\ named \/ OpenFds # {}
  /\ \/ data' = Resized(data, n)
     \/ \E m \in Len(data)..n : data' = Resized(data, m)
  /\ Reaches
  /\ reply' = <<>> /\ UNCHANGED <<named, lost, desc>>

Unlink ==
  /\ named /\ named' = FALSE
  /\ data' = IF OpenFds = {} THEN <<>> ELSE data
  /\ reply' = <<>> /\ UNCHANGED <<reach, lost, desc>>

\* another file takes the path; nothing is promised of a lost file
Replace ==
  /\ named /\ named' = FALSE /\ lost' = (OpenFds # {})
  /\ reply' = <<>> /\ UNCHANGED desc
Ruined == lost /\ lost'

Close(f) ==
  /\ desc[f] # Closed
  /\ desc' = [desc EXCEPT ![f] = Closed]
  /\ data' = IF named \/ \E g \in Fds : desc'[g] # Closed THEN data ELSE <<>>
  /\ reply' = <<>> /\ UNCHANGED <<reach, named, lost>>

Next ==
  \/ \E f \in Fds :
       \/ \E mode \in Modes, append, trunc \in BOOLEAN :
            Open(f, mode, append, trunc) \/ Create(f, mode, append)
       \/ \E n \in 0..Top : Read(f, n) \/ Lseek(f, n)
       \/ \E buf \in UNION {[1..n -> Bytes] : n \in 1..Top} : Write(f, buf)
       \/ WriteFails(f) \/ Close(f)
  \/ \E n \in 0..Top : Truncate(n)
  \/ TruncatingOpenFails \/ CreatingOpenFails
  \/ Unlink \/ Replace \/ Ruined

Spec == Init /\ [][Next]_vars
=============================================================================
