----------------------------- MODULE MemfsFile -----------------------------
(***************************************************************************)
(* The content of one file of libmemfs: the packed segment 0, in place,    *)
(* and behind it a chain of chunks from the heap, both of which may reach  *)
(* past the logical size.  All descriptors share them.                     *)
(***************************************************************************)
EXTENDS Integers, Sequences

CONSTANTS
  Fds,
  Bytes,       \* the values of a byte, 0 among them
  Modes,       \* O_RDONLY, O_WRONLY, O_RDWR
  Packed,      \* the packed content that a file may start with
  ChunkSize,   \* MEMFS_CHUNK_SIZE
  FillSize,    \* bytes of zeros that truncate writes at a time
  Top,         \* UINT32_MAX
  MaxBuf,      \* bound: bytes of one read or write
  MaxEnd       \* bound: a write or truncate ends here at most, or past Top

ASSUME SizesAssumption ==
  /\ ChunkSize \in Nat \ {0} /\ FillSize \in Nat \ {0}
  /\ Top \in Nat /\ MaxEnd \in 0..Top /\ MaxBuf \in 0..Top
ASSUME BytesAssumption ==
  /\ 0 \in Bytes /\ Packed \subseteq Seq(Bytes) /\ \A s \in Packed : Len(s) <= Top
  /\ Modes \subseteq {"r", "w", "rw"}
\* no file gets into the last chunk below Top, where the rounding of ChunksFor
\* wraps: a guest has not the memory
ASSUME RoundingAssumption == MaxEnd + ChunkSize - 1 <= Top

VARIABLES
  seg0,      \* the packed bytes, as many for ever
  chunks,    \* the chain: a sequence of ChunkSize bytes each
  size,      \* logical_size
  reach,     \* history: the largest size that the file has had
  named,     \* the file has a name
  lost,      \* another file was renamed over it while it was open
  desc,      \* the descriptors
  reply      \* what the last call read
vars == <<seg0, chunks, size, reach, named, lost, desc, reply>>

Closed == [mode |-> "closed", append |-> FALSE, pos |-> 0]
OpenFds == {f \in Fds : desc[f] # Closed}
Live == named \/ OpenFds # {}

Lesser(a, b) == IF a < b THEN a ELSE b
Greater(a, b) == IF a > b THEN a ELSE b
-----------------------------------------------------------------------------
ChunksForFloor(end) ==
  IF end <= Len(seg0) THEN 0 ELSE (end - Len(seg0)) \div ChunkSize

\* chunks_needed: 32-bit arithmetic, as the rounding may wrap
ChunksFor(end) ==
  IF end <= Len(seg0) THEN 0
  ELSE ((end - Len(seg0) + ChunkSize - 1) % (Top + 1)) \div ChunkSize

Capacity == Len(seg0) + ChunkSize * Len(chunks)

ByteAt(p) ==
  IF p < Len(seg0) THEN seg0[p + 1]
  ELSE LET i == p - Len(seg0)
       IN  chunks[(i \div ChunkSize) + 1][(i % ChunkSize) + 1]

NodeRead(off, n) ==
  LET end == Lesser(Lesser(off + n, size), Capacity)
  IN  [i \in 1..(end - off) |-> ByteAt(off + i - 1)]

UnclearedChunk == [i \in 1..ChunkSize |-> CHOOSE b \in Bytes : b # 0]
ZeroChunk == [i \in 1..ChunkSize |-> 0]

\* ensure_capacity: some of the chunks, all of them when memory suffices
Grown(end) ==
  LET want == Greater(ChunksFor(end), Len(chunks))
  IN  {chunks \o [i \in 1..k |-> ZeroChunk] : k \in 0..(want - Len(chunks))}
Enough(chain, end) == Len(chain) >= ChunksFor(end)

\* the copy loops of node_write: bytes that no chunk takes are dropped
Stored(buf, off, p, old) == IF p \in off..off + Len(buf) - 1 THEN buf[p - off + 1] ELSE old

StoreSeg0(buf, off) ==
  [i \in 1..Len(seg0) |-> Stored(buf, off, i - 1, seg0[i])]
StoreChunks(chain, buf, off) ==
  [k \in 1..Len(chain) |->
    [i \in 1..ChunkSize |->
      Stored(buf, off, Len(seg0) + (k - 1) * ChunkSize + i - 1, chain[k][i])]]

NodeWrite(chain, buf, off) ==
  /\ seg0' = StoreSeg0(buf, off)
  /\ chunks' = StoreChunks(chain, buf, off)
  /\ size' = Greater(size, off + Len(buf)) /\ reach' = Greater(reach, size')

Bounded(end) == end <= MaxEnd \/ end > Top
-----------------------------------------------------------------------------
Init ==
  /\ seg0 \in Packed /\ size = Len(seg0) /\ reach = Len(seg0)
  /\ chunks = <<>> /\ named = TRUE /\ lost = FALSE
  /\ desc = [f \in Fds |-> Closed] /\ reply = <<>>

Opened(f, mode, append) ==
  desc' = [desc EXCEPT ![f] = [mode |-> mode, append |-> append, pos |-> 0]]

Open(f, mode, append, trunc) ==
  /\ named /\ desc[f] = Closed
  /\ Opened(f, mode, append)
  /\ IF trunc /\ mode # "r" /\ size > 0
     THEN size' = 0 /\ chunks' = <<>>
     ELSE UNCHANGED <<size, chunks>>
  /\ reply' = <<>> /\ UNCHANGED <<seg0, reach, named, lost>>

\* O_CREAT takes a new node
Created ==
  /\ ~Live
  /\ seg0' = <<>> /\ chunks' = <<>> /\ size' = 0 /\ reach' = 0
  /\ named' = TRUE /\ lost' = FALSE /\ reply' = <<>>
Create(f, mode, append) == Created /\ Opened(f, mode, append)

\* Other files hold all descriptors, as open finds when the file has been
\* truncated or created: it stays so.
TruncatingOpenFails ==
  /\ named /\ size > 0
  /\ size' = 0 /\ chunks' = <<>>
  /\ reply' = <<>> /\ UNCHANGED <<seg0, reach, named, lost, desc>>
CreatingOpenFails == Created /\ UNCHANGED desc

Read(f, n) ==
  /\ desc[f].mode \in {"r", "rw"}
  /\ reply' = NodeRead(desc[f].pos, n)
  /\ desc' = [desc EXCEPT ![f].pos = @ + Len(reply')]
  /\ UNCHANGED <<seg0, chunks, size, reach, named, lost>>

WriteUnchecked(f, buf) ==
  LET off == IF desc[f].append THEN size ELSE desc[f].pos
      end == off + Len(buf)
  IN  /\ desc[f].mode \in {"w", "rw"} /\ Bounded(end)
      /\ \E chain \in Grown(end) :
           /\ Enough(chain, end) /\ NodeWrite(chain, buf, off)
           /\ desc' = [desc EXCEPT ![f].pos = end]
      /\ reply' = <<>> /\ UNCHANGED <<named, lost>>
Write(f, buf) ==
  LET off == IF desc[f].append THEN size ELSE desc[f].pos
      end == off + Len(buf)
  IN  /\ desc[f].mode \in {"w", "rw"} /\ Bounded(end)
      /\ IF end > Top
         THEN /\ desc' = [desc EXCEPT ![f].pos = off]
              /\ UNCHANGED <<seg0, chunks, size, reach>>
         ELSE \E chain \in Grown(end) :
                IF Enough(chain, end)
                THEN /\ NodeWrite(chain, buf, off)
                     /\ desc' = [desc EXCEPT ![f].pos = end]
                ELSE /\ chunks' = chain
                     /\ desc' = [desc EXCEPT ![f].pos = off]
                     /\ UNCHANGED <<seg0, size, reach>>
      /\ reply' = <<>> /\ UNCHANGED <<named, lost>>

Lseek(f, p) ==
  /\ desc[f] # Closed
  /\ desc' = [desc EXCEPT ![f].pos = p]
  /\ reply' = <<>> /\ UNCHANGED <<seg0, chunks, size, reach, named, lost>>

\* node_truncate_chunks
Cut(chain, end) == SubSeq(chain, 1, Lesser(Len(chain), ChunksFor(end)))

\* The zeros are written FillSize at a time; when memory runs out, those
\* written so far stay, and the chunks that the failing piece did get.
Truncate(n) ==
  /\ named \/ \E f \in Fds : desc[f].mode \in {"w", "rw"}
  /\ Bounded(n) /\ n <= Top
  /\ \/ /\ n <= size
        /\ size' = n /\ chunks' = Cut(chunks, n)
        /\ UNCHANGED <<seg0, reach>>
     \/ /\ n > size
        /\ \E full \in {m \in size..n : m = n \/ (m - size) % FillSize = 0} :
           LET next == Lesser(n, full + FillSize)
               zeros == [i \in 1..(full - size) |-> 0]
           IN  \E chain \in Grown(IF full = n THEN n ELSE next) :
                 /\ IF full = n THEN Enough(chain, n)
                    ELSE Enough(chain, full) /\ ~Enough(chain, next)
                 /\ NodeWrite(IF full = n THEN Cut(chain, n) ELSE chain, zeros, size)
  /\ reply' = <<>> /\ UNCHANGED <<named, lost, desc>>

\* A file that is unlinked while open keeps its chunks, and for ever: close
\* never finds its reference count at zero.
Unlink ==
  /\ named /\ named' = FALSE
  /\ chunks' = IF OpenFds = {} THEN <<>> ELSE chunks
  /\ reply' = <<>> /\ UNCHANGED <<seg0, size, reach, lost, desc>>

\* Another file is renamed over this one, which gives up its chunks, open or not.
Replace ==
  /\ named /\ named' = FALSE
  /\ chunks' = <<>> /\ lost' = (OpenFds # {})
  /\ reply' = <<>> /\ UNCHANGED <<seg0, size, reach, desc>>

Close(f) ==
  /\ desc[f] # Closed
  /\ desc' = [desc EXCEPT ![f] = Closed]
  /\ reply' = <<>> /\ UNCHANGED <<seg0, chunks, size, reach, named, lost>>

Buffers == UNION {[1..n -> Bytes] : n \in 1..MaxBuf}

Next ==
  \/ \E f \in Fds :
       \/ \E mode \in Modes, append \in BOOLEAN :
            Create(f, mode, append) \/ \E trunc \in BOOLEAN : Open(f, mode, append, trunc)
       \/ \E n \in 1..MaxBuf : Read(f, n)
       \/ \E buf \in Buffers : Write(f, buf)
       \/ \E p \in 0..Top : Lseek(f, p)
       \/ Close(f)
  \/ \E n \in 0..Top : Truncate(n)
  \/ TruncatingOpenFails \/ CreatingOpenFails
  \/ Unlink \/ Replace

Spec == Init /\ [][Next]_vars
-----------------------------------------------------------------------------
TypeOK ==
  /\ seg0 \in Seq(Bytes) /\ chunks \in Seq([1..ChunkSize -> Bytes])
  /\ size \in 0..Top /\ reach \in 0..Top /\ named \in BOOLEAN /\ lost \in BOOLEAN
  /\ desc \in [Fds -> [mode : Modes, append : BOOLEAN, pos : 0..Top] \cup {Closed}]
  /\ reply \in Seq(Bytes)

(***************************************************************************)
(* Every byte below the logical size of a live file has a place, unless    *)
(* another file was renamed over it while it was open.  read               *)
(* stops short without one, and memfs_map returns a pointer to segment 0   *)
(* with the logical size as its length whenever there are no chunks.       *)
(***************************************************************************)
Backed == Live /\ ~lost => size <= Capacity

(***************************************************************************)
(* The file is a byte sequence that its descriptors share (PosixFile),     *)
(* whatever their modes, whatever is truncated, unlinked or out of memory, *)
(* until another file is renamed over it while it is open.  A write past   *)
(* the end leaves zeros in the gap, but for the part of it that the file   *)
(* had reached before it was cut: there node_write clears nothing.         *)
(***************************************************************************)
Abstract == INSTANCE PosixFile WITH
  data <- IF Live THEN NodeRead(0, size) ELSE <<>>

BytesShared == Abstract!Spec
=============================================================================
