--------------------------- MODULE MemfsFileProof ---------------------------
(***************************************************************************)
(* For all sizes of segment, chunk and file: each byte of a libmemfs file  *)
(* has a place, and the calls on it are those of a shared byte sequence.   *)
(***************************************************************************)
EXTENDS MemfsFile, SequenceTheorems, TLAPS

USE SizesAssumption, BytesAssumption, RoundingAssumption

Chunk == [1..ChunkSize -> Bytes]
-----------------------------------------------------------------------------
\* Arithmetic of the chunk chain.
LEMMA TimesMonotone ==
  ASSUME NEW a \in Nat, NEW b \in Nat, NEW c \in Nat, a <= b
  PROVE  c * a <= c * b /\ c * a \in Nat /\ c * b \in Nat
<1>1. c * b = c * a + c * (b - a) /\ b - a \in Nat
  OBVIOUS
<1>2. c * (b - a) \in Nat /\ c * a \in Nat /\ c * b \in Nat
  BY <1>1
<1> QED
  BY <1>1, <1>2

LEMMA NatTimes ==
  ASSUME NEW a \in Nat, NEW b \in Nat
  PROVE  a * b \in Nat
OBVIOUS

LEMMA DivMod ==
  ASSUME NEW i \in Nat, NEW c \in Nat \ {0}
  PROVE  /\ i \div c \in Nat /\ i % c \in 0..c-1
         /\ i = c * (i \div c) + (i % c)
OBVIOUS

\* The chunk and the place in it of byte i of the chain.
LEMMA ChunkPlace ==
  ASSUME NEW i \in Nat, NEW c \in Nat \ {0}, NEW n \in Nat, i < c * n
  PROVE  i \div c < n /\ (i \div c) + 1 \in 1..n /\ (i % c) + 1 \in 1..c
<1>1. /\ i \div c \in Nat /\ i % c \in 0..c-1
      /\ i = c * (i \div c) + (i % c)
  BY DivMod
<1> DEFINE q == i \div c
<1>2. ASSUME n <= q PROVE FALSE
  <2>1. c * n <= c * q /\ c * n \in Nat /\ c * q \in Nat
    BY <1>1, <1>2, TimesMonotone
  <2> QED
    BY <1>1, <2>1
<1> HIDE DEF q
<1>3. q < n
  BY <1>1, <1>2 DEF q
<1> QED
  BY <1>1, <1>3 DEF q

\* The rounding up gives as many chunks as are needed.
LEMMA RoundedUp ==
  ASSUME NEW x \in Nat, NEW c \in Nat \ {0}
  PROVE  (x + c - 1) \div c \in Nat /\ c * ((x + c - 1) \div c) >= x
<1> DEFINE y == x + c - 1
<1>1. y \in Nat
  OBVIOUS
<1>2. y \div c \in Nat /\ y % c \in 0..c-1 /\ y = c * (y \div c) + (y % c)
  BY <1>1, DivMod
<1>3. c * (y \div c) \in Int
  BY <1>2
<1> QED
  BY <1>2, <1>3
-----------------------------------------------------------------------------
\* The bytes of a segment s and a chain ch, and the room in them.
Room(s, ch) == Len(s) + ChunkSize * Len(ch)
ByteIn(s, ch, p) ==
  IF p < Len(s) THEN s[p + 1]
  ELSE LET i == p - Len(s)
       IN  ch[(i \div ChunkSize) + 1][(i % ChunkSize) + 1]

Segment(s) == s \in Seq(Bytes)
Chain(ch) == ch \in Seq(Chunk)

LEMMA RoomType ==
  ASSUME NEW s, NEW ch, Segment(s), Chain(ch)
  PROVE  Len(s) \in Nat /\ Len(ch) \in Nat /\ Room(s, ch) \in Nat /\ Room(s, ch) >= Len(s)
<1>1. Len(s) \in Nat /\ Len(ch) \in Nat
  BY DEF Segment, Chain
<1>2. ChunkSize * Len(ch) \in Nat
  BY <1>1, TimesMonotone
<1> QED
  BY <1>1, <1>2 DEF Room

\* Where a byte that has room is.
LEMMA BytePlace ==
  ASSUME NEW s, NEW ch, Segment(s), Chain(ch), NEW p \in Nat, p < Room(s, ch), p >= Len(s)
  PROVE  LET i == p - Len(s)
             k == (i \div ChunkSize) + 1
             j == (i % ChunkSize) + 1
         IN  /\ k \in 1..Len(ch) /\ j \in 1..ChunkSize
             /\ Len(s) + (k - 1) * ChunkSize + j - 1 = p
             /\ ByteIn(s, ch, p) = ch[k][j]
<1> DEFINE i == p - Len(s)
           q == i \div ChunkSize
           r == i % ChunkSize
<1>1. i \in Nat /\ i < ChunkSize * Len(ch) /\ Len(s) \in Nat /\ Len(ch) \in Nat
  BY RoomType DEF Room
<1> HIDE DEF i
<1>2. q + 1 \in 1..Len(ch) /\ r + 1 \in 1..ChunkSize
  BY <1>1, ChunkPlace
<1>3. i = ChunkSize * q + r /\ q \in Nat /\ r \in 0..ChunkSize-1
  BY <1>1, DivMod
<1> HIDE DEF q, r
<1>4. ((q + 1) - 1) * ChunkSize = ChunkSize * q /\ ChunkSize * q \in Int
  BY <1>3
<1>5. Len(s) + ((q + 1) - 1) * ChunkSize + (r + 1) - 1 = p
  BY <1>1, <1>3, <1>4 DEF i
<1> QED
  BY <1>1, <1>2, <1>5 DEF ByteIn, i, q, r

LEMMA ByteType ==
  ASSUME NEW s, NEW ch, Segment(s), Chain(ch), NEW p \in Nat, p < Room(s, ch)
  PROVE  ByteIn(s, ch, p) \in Bytes
<1>1. CASE p < Len(s)
  BY <1>1, RoomType DEF ByteIn, Segment
<1>2. CASE p >= Len(s)
  <2> DEFINE k == ((p - Len(s)) \div ChunkSize) + 1
             j == ((p - Len(s)) % ChunkSize) + 1
  <2>1. k \in 1..Len(ch) /\ j \in 1..ChunkSize /\ ByteIn(s, ch, p) = ch[k][j]
    BY <1>2, BytePlace
  <2> HIDE DEF k, j
  <2> QED
    BY <2>1 DEF Chain, Chunk
<1> QED
  BY <1>1, <1>2, RoomType

\* Chains that begin alike hold the same bytes.
LEMMA ByteKept ==
  ASSUME NEW s, NEW ch, NEW ch2, Segment(s), Chain(ch), Chain(ch2),
         \A k \in 1..Len(ch) : k <= Len(ch2) => ch2[k] = ch[k],
         NEW p \in Nat, p < Room(s, ch), p < Room(s, ch2)
  PROVE  ByteIn(s, ch2, p) = ByteIn(s, ch, p)
<1>1. CASE p < Len(s)
  BY <1>1 DEF ByteIn
<1>2. CASE p >= Len(s)
  <2> DEFINE k == ((p - Len(s)) \div ChunkSize) + 1
             j == ((p - Len(s)) % ChunkSize) + 1
  <2>1. k \in 1..Len(ch) /\ ByteIn(s, ch, p) = ch[k][j]
    BY <1>2, BytePlace
  <2>2. k \in 1..Len(ch2) /\ ByteIn(s, ch2, p) = ch2[k][j]
    BY <1>2, BytePlace
  <2> HIDE DEF k, j
  <2>3. k <= Len(ch2)
    BY <2>2, RoomType
  <2> QED
    BY <2>1, <2>2, <2>3
<1> QED
  BY <1>1, <1>2, RoomType

\* What the copy loops leave.
LEMMA StoredType ==
  ASSUME NEW buf \in Seq(Bytes), NEW off \in Nat, NEW p \in Nat, NEW old \in Bytes
  PROVE  Stored(buf, off, p, old) \in Bytes
<1>1. CASE p \in off..off + Len(buf) - 1
  <2>1. p - off + 1 \in 1..Len(buf)
    BY <1>1
  <2> QED
    BY <1>1, <2>1 DEF Stored
<1>2. CASE p \notin off..off + Len(buf) - 1
  BY <1>2 DEF Stored
<1> QED
  BY <1>1, <1>2

LEMMA StoredChain ==
  ASSUME NEW ch, Segment(seg0), Chain(ch), NEW buf \in Seq(Bytes), NEW off \in Nat
  PROVE  LET s2 == StoreSeg0(buf, off)
             c2 == StoreChunks(ch, buf, off)
         IN  /\ Segment(s2) /\ Len(s2) = Len(seg0)
             /\ Chain(c2) /\ Len(c2) = Len(ch)
             /\ \A i \in 1..Len(seg0) : s2[i] = Stored(buf, off, i - 1, seg0[i])
             /\ \A k \in 1..Len(ch), i \in 1..ChunkSize :
                  c2[k][i] = Stored(buf, off, Len(seg0) + (k - 1) * ChunkSize + i - 1, ch[k][i])
<1> DEFINE s2 == StoreSeg0(buf, off)
           c2 == StoreChunks(ch, buf, off)
<1>1. Len(seg0) \in Nat /\ Len(ch) \in Nat
  BY RoomType
<1>2. \A i \in 1..Len(seg0) : Stored(buf, off, i - 1, seg0[i]) \in Bytes
  <2> TAKE i \in 1..Len(seg0)
  <2>1. i - 1 \in Nat /\ seg0[i] \in Bytes
    BY <1>1 DEF Segment
  <2> QED
    BY <2>1, StoredType
<1>3. s2 \in [1..Len(seg0) -> Bytes]
  BY <1>2 DEF StoreSeg0
<1>4. \A k \in 1..Len(ch), i \in 1..ChunkSize :
        Stored(buf, off, Len(seg0) + (k - 1) * ChunkSize + i - 1, ch[k][i]) \in Bytes
  <2> TAKE k \in 1..Len(ch), i \in 1..ChunkSize
  <2>1. (k - 1) * ChunkSize \in Nat /\ ch[k][i] \in Bytes
    <3>1. k - 1 \in Nat
      BY <1>1
    <3>2. ch[k] \in Chunk
      BY DEF Chain
    <3>3. (k - 1) * ChunkSize \in Nat
      BY <3>1, NatTimes
    <3> QED
      BY <3>2, <3>3 DEF Chunk
  <2>2. Len(seg0) + (k - 1) * ChunkSize + i - 1 \in Nat
    BY <1>1, <2>1
  <2> QED
    BY <2>1, <2>2, StoredType
<1>5. c2 \in [1..Len(ch) -> Chunk]
  BY <1>4 DEF StoreChunks, Chunk
<1>6. s2 \in Seq(Bytes) /\ Len(s2) = Len(seg0) /\ c2 \in Seq(Chunk) /\ Len(c2) = Len(ch)
  <2> HIDE DEF s2, c2
  <2> QED
    BY <1>1, <1>3, <1>5
<1>7. \A i \in 1..Len(seg0) : s2[i] = Stored(buf, off, i - 1, seg0[i])
  BY DEF StoreSeg0
<1>8. \A k \in 1..Len(ch), i \in 1..ChunkSize :
        c2[k][i] = Stored(buf, off, Len(seg0) + (k - 1) * ChunkSize + i - 1, ch[k][i])
  BY DEF StoreChunks
<1> QED
  BY <1>6, <1>7, <1>8 DEF Segment, Chain

LEMMA ByteStored ==
  ASSUME NEW ch, Segment(seg0), Chain(ch), NEW buf \in Seq(Bytes), NEW off \in Nat,
         NEW p \in Nat, p < Room(seg0, ch)
  PROVE  ByteIn(StoreSeg0(buf, off), StoreChunks(ch, buf, off), p)
           = Stored(buf, off, p, ByteIn(seg0, ch, p))
<1> DEFINE s2 == StoreSeg0(buf, off)
           c2 == StoreChunks(ch, buf, off)
<1>1. /\ Segment(s2) /\ Len(s2) = Len(seg0) /\ Chain(c2) /\ Len(c2) = Len(ch)
      /\ \A i \in 1..Len(seg0) : s2[i] = Stored(buf, off, i - 1, seg0[i])
      /\ \A k \in 1..Len(ch), i \in 1..ChunkSize :
           c2[k][i] = Stored(buf, off, Len(seg0) + (k - 1) * ChunkSize + i - 1, ch[k][i])
  BY StoredChain
<1> HIDE DEF s2, c2
<1>2. CASE p < Len(seg0)
  <2>1. p + 1 \in 1..Len(seg0) /\ (p + 1) - 1 = p
    BY <1>2, RoomType
  <2>2. s2[p + 1] = Stored(buf, off, (p + 1) - 1, seg0[p + 1])
    BY <1>1, <2>1
  <2> QED
    BY <1>1, <1>2, <2>1, <2>2 DEF ByteIn, s2, c2
<1>3. CASE p >= Len(seg0)
  <2> DEFINE k == ((p - Len(seg0)) \div ChunkSize) + 1
             j == ((p - Len(seg0)) % ChunkSize) + 1
  <2>1. /\ k \in 1..Len(ch) /\ j \in 1..ChunkSize
        /\ Len(seg0) + (k - 1) * ChunkSize + j - 1 = p
        /\ ByteIn(seg0, ch, p) = ch[k][j]
    BY <1>3, BytePlace
  <2>2. ByteIn(s2, c2, p) = c2[k][j]
    BY <1>1, <1>3, RoomType DEF ByteIn
  <2> HIDE DEF k, j
  <2>3. c2[k][j] = Stored(buf, off, p, ch[k][j])
    BY <1>1, <2>1
  <2> QED
    BY <2>1, <2>2, <2>3 DEF s2, c2
<1> QED
  BY <1>2, <1>3, RoomType
-----------------------------------------------------------------------------
Descs == [mode : Modes, append : BOOLEAN, pos : 0..Top]
DescsOK == desc \in [Fds -> Descs \cup {Closed}]

\* No byte from r on has been written.
Fresh(s, ch, r) == \A p \in Nat : r <= p /\ p < Room(s, ch) => ByteIn(s, ch, p) = 0

\* The inductive invariant: the types, with the room for the bytes, and zeros
\* where the file has never been.
FileInv ==
  /\ Segment(seg0) /\ Chain(chunks) /\ size \in 0..Top
  /\ reach \in size..Top /\ Fresh(seg0, chunks, reach)
  /\ named \in BOOLEAN /\ lost \in BOOLEAN
  /\ DescsOK /\ reply \in Seq(Bytes)
  /\ Backed

LEMMA OpenIsNotClosed == \A d \in Descs : d # Closed
BY DEF Descs, Closed

LEMMA DescMoves ==
  ASSUME DescsOK, NEW f \in Fds, desc[f] # Closed, NEW p \in 0..Top,
         desc' = [desc EXCEPT ![f].pos = p]
  PROVE  DescsOK' /\ OpenFds' = OpenFds /\ f \in OpenFds
         /\ desc[f] \in Descs /\ desc'[f] = [desc[f] EXCEPT !.pos = p]
<1>1. desc[f] \in Descs
  BY DEF DescsOK
<1>2. [desc[f] EXCEPT !.pos = p] \in Descs
  BY <1>1 DEF Descs
<1>3. desc'[f] = [desc[f] EXCEPT !.pos = p] /\ \A g \in Fds \ {f} : desc'[g] = desc[g]
  BY DEF DescsOK
<1>4. DescsOK'
  BY <1>2 DEF DescsOK
<1>5. OpenFds' = OpenFds
  BY <1>2, <1>3, OpenIsNotClosed DEF OpenFds
<1> QED
  BY <1>1, <1>3, <1>4, <1>5 DEF OpenFds

\* ensure_capacity asks for enough chunks; what it gets continues the chain.
LEMMA ChunksForIs ==
  ASSUME Segment(seg0), NEW end \in 0..MaxEnd
  PROVE  ChunksFor(end) \in Nat /\ Len(seg0) + ChunkSize * ChunksFor(end) >= end
<1>1. Len(seg0) \in Nat
  BY DEF Segment
<1>2. CASE end <= Len(seg0)
  BY <1>1, <1>2 DEF ChunksFor
<1>3. CASE ~(end <= Len(seg0))
  <2> DEFINE x == end - Len(seg0)
  <2>1. x \in Nat /\ x + ChunkSize - 1 \in 0..Top
    BY <1>1, <1>3
  <2>2. (x + ChunkSize - 1) % (Top + 1) = x + ChunkSize - 1
    BY <2>1
  <2>3. ChunksFor(end) = (x + ChunkSize - 1) \div ChunkSize
    BY <1>3, <2>2 DEF ChunksFor
  <2> HIDE DEF x
  <2>4. ChunksFor(end) \in Nat /\ ChunkSize * ChunksFor(end) >= x
    BY <2>1, <2>3, RoundedUp
  <2>5. ChunkSize * ChunksFor(end) \in Nat
    BY <2>4, NatTimes
  <2> QED
    BY <1>1, <2>4, <2>5 DEF x
<1> QED
  BY <1>2, <1>3

LEMMA EnoughRoom ==
  ASSUME Segment(seg0), NEW ch, Chain(ch), NEW end \in 0..MaxEnd, Enough(ch, end)
  PROVE  Room(seg0, ch) >= end
<1>1. ChunksFor(end) \in Nat /\ Len(seg0) + ChunkSize * ChunksFor(end) >= end
  BY ChunksForIs
<1>2. Len(ch) \in Nat /\ Len(seg0) \in Nat
  BY RoomType
<1>3. /\ ChunkSize * ChunksFor(end) <= ChunkSize * Len(ch)
      /\ ChunkSize * ChunksFor(end) \in Nat /\ ChunkSize * Len(ch) \in Nat
  BY <1>1, <1>2, TimesMonotone DEF Enough
<1> QED
  BY <1>1, <1>2, <1>3 DEF Room

\* ch2 goes on where ch ends.
Continues(ch2, ch) ==
  Chain(ch2) /\ Len(ch2) >= Len(ch) /\ \A k \in 1..Len(ch) : ch2[k] = ch[k]

\* The chunks that it has behind those of ch are zero.
Extends(ch2, ch) == Continues(ch2, ch) /\ Fresh(seg0, ch2, Room(seg0, ch))

LEMMA ZeroIsChunk == ZeroChunk \in Chunk /\ \A i \in 1..ChunkSize : ZeroChunk[i] = 0
BY DEF ZeroChunk, Chunk

LEMMA GrownExtends ==
  ASSUME Segment(seg0), Chain(chunks), NEW end \in 0..MaxEnd, NEW ch \in Grown(end)
  PROVE  Extends(ch, chunks)
<1>1. ChunksFor(end) \in Nat /\ Len(chunks) \in Nat
  BY ChunksForIs, RoomType
<1>2. PICK k \in 0..(Greater(ChunksFor(end), Len(chunks)) - Len(chunks)) :
        ch = chunks \o [i \in 1..k |-> ZeroChunk]
  BY DEF Grown
<1> DEFINE z == [i \in 1..k |-> ZeroChunk]
<1>3. k \in Nat
  BY <1>1, <1>2
<1>4. z \in Seq(Chunk) /\ Len(z) = k
  BY <1>3, ZeroIsChunk
<1> HIDE DEF z
<1>5. /\ chunks \o z \in Seq(Chunk) /\ Len(chunks \o z) = Len(chunks) + k
      /\ \A i \in 1..Len(chunks) + k :
           (chunks \o z)[i] = IF i <= Len(chunks) THEN chunks[i] ELSE z[i - Len(chunks)]
  BY <1>4, ConcatProperties DEF Chain
<1>6. Continues(ch, chunks)
  BY <1>1, <1>2, <1>3, <1>5 DEF Continues, Chain, z
<1>7. ASSUME NEW p \in Nat, Room(seg0, chunks) <= p, p < Room(seg0, ch)
      PROVE  ByteIn(seg0, ch, p) = 0
  <2> DEFINE i == ((p - Len(seg0)) \div ChunkSize) + 1
             j == ((p - Len(seg0)) % ChunkSize) + 1
  <2>1. p >= Len(seg0)
    BY <1>7, RoomType
  <2>2. /\ i \in 1..Len(ch) /\ j \in 1..ChunkSize /\ ByteIn(seg0, ch, p) = ch[i][j]
        /\ Len(seg0) + (i - 1) * ChunkSize + j - 1 = p
    BY <1>6, <1>7, <2>1, BytePlace DEF Continues
  <2> HIDE DEF i, j
  <2>3. i - 1 \in Nat /\ Len(ch) = Len(chunks) + k /\ i \in 1..Len(chunks) + k
        /\ Len(seg0) \in Nat
    BY <1>1, <1>2, <1>3, <1>5, <2>2, RoomType DEF z
  <2>4. ASSUME i <= Len(chunks) PROVE FALSE
    <3>1. ChunkSize * i <= ChunkSize * Len(chunks) /\ ChunkSize * i \in Nat
      BY <1>1, <2>3, <2>4, TimesMonotone
    <3>2. ChunkSize * i = (i - 1) * ChunkSize + ChunkSize /\ (i - 1) * ChunkSize \in Nat
      BY <2>3, NatTimes
    <3>3. ChunkSize * Len(chunks) \in Nat
      BY <1>1, NatTimes
    <3>4. p < Len(seg0) + ChunkSize * i
      <4>1. j <= ChunkSize /\ j \in Int /\ ChunkSize \in Int
        BY <2>2
      <4> QED
        BY <2>2, <2>3, <3>2, <4>1, SMTT(40)
    <3>5. Len(seg0) + ChunkSize * i <= Room(seg0, chunks)
      BY <2>3, <3>1, <3>3 DEF Room
    <3>6. Room(seg0, chunks) \in Nat
      BY RoomType
    <3> QED
      BY <1>7, <2>3, <3>1, <3>4, <3>5, <3>6
  <2>5. ch[i] = ZeroChunk
    <3>1. i - Len(chunks) \in 1..k
      BY <1>1, <1>3, <2>3, <2>4
    <3>2. z[i - Len(chunks)] = ZeroChunk
      BY <3>1 DEF z
    <3> QED
      BY <1>2, <1>5, <2>3, <2>4, <3>2 DEF z
  <2> QED
    BY <2>2, <2>5, ZeroIsChunk
<1> QED
  BY <1>6, <1>7 DEF Extends, Fresh

\* A longer chain has room for as much, and for the same bytes.
LEMMA ContinuesRoom ==
  ASSUME Segment(seg0), NEW ch, Chain(ch), NEW ch2, Continues(ch2, ch)
  PROVE  /\ Room(seg0, ch2) >= Room(seg0, ch)
         /\ \A p \in Nat : p < Room(seg0, ch) => ByteIn(seg0, ch2, p) = ByteIn(seg0, ch, p)
<1>1. Len(ch) \in Nat /\ Len(ch2) \in Nat /\ Len(seg0) \in Nat /\ Len(ch) <= Len(ch2)
  BY RoomType DEF Continues
<1>2. /\ ChunkSize * Len(ch) <= ChunkSize * Len(ch2)
      /\ ChunkSize * Len(ch) \in Nat /\ ChunkSize * Len(ch2) \in Nat
  BY <1>1, TimesMonotone
<1>3. Room(seg0, ch2) >= Room(seg0, ch)
  BY <1>1, <1>2 DEF Room
<1>4. Room(seg0, ch2) \in Nat /\ Room(seg0, ch) \in Nat
  BY RoomType DEF Continues
<1>5. ASSUME NEW p \in Nat, p < Room(seg0, ch)
      PROVE  ByteIn(seg0, ch2, p) = ByteIn(seg0, ch, p)
  <2>1. p < Room(seg0, ch2)
    BY <1>3, <1>4, <1>5
  <2> QED
    BY <1>5, <2>1, ByteKept DEF Continues
<1> QED
  BY <1>3, <1>5

\* What is fresh stays so in a shorter chain, and in one with new chunks.
LEMMA FreshShorter ==
  ASSUME Segment(seg0), NEW ch, Chain(ch), NEW ch2, Continues(ch2, ch),
         NEW r \in Nat, Fresh(seg0, ch2, r)
  PROVE  Fresh(seg0, ch, r)
<1>1. /\ Room(seg0, ch2) >= Room(seg0, ch)
      /\ \A p \in Nat : p < Room(seg0, ch) => ByteIn(seg0, ch2, p) = ByteIn(seg0, ch, p)
  BY ContinuesRoom
<1>2. Room(seg0, ch2) \in Nat /\ Room(seg0, ch) \in Nat
  BY RoomType DEF Continues
<1> QED
  BY <1>1, <1>2 DEF Fresh

LEMMA FreshExtended ==
  ASSUME Segment(seg0), NEW ch, Chain(ch), NEW ch2, Extends(ch2, ch),
         NEW r \in Nat, Fresh(seg0, ch, r)
  PROVE  Fresh(seg0, ch2, r)
<1>1. \A p \in Nat : p < Room(seg0, ch) => ByteIn(seg0, ch2, p) = ByteIn(seg0, ch, p)
  BY ContinuesRoom DEF Extends
<1>2. Room(seg0, ch) \in Nat
  BY RoomType
<1>3. \A p \in Nat : p < Room(seg0, ch) \/ Room(seg0, ch) <= p
  BY <1>2
<1> QED
  BY <1>1, <1>3 DEF Extends, Fresh

LEMMA FreshEmpty ==
  ASSUME NEW s, Segment(s), NEW ch, Chain(ch), NEW r \in Nat, Fresh(s, ch, r)
  PROVE  Fresh(s, <<>>, r)
<1>1. Len(s) \in Nat /\ Len(s) <= Room(s, ch) /\ Room(s, ch) \in Nat
  BY RoomType
<1>2. Room(s, <<>>) = Len(s)
  BY <1>1 DEF Room
<1>3. \A p \in Nat : p < Len(s) => ByteIn(s, <<>>, p) = ByteIn(s, ch, p) /\ p < Room(s, ch)
  BY <1>1 DEF ByteIn
<1> QED
  BY <1>2, <1>3 DEF Fresh

LEMMA CutKeeps ==
  ASSUME Segment(seg0), NEW ch, Chain(ch), NEW end \in 0..MaxEnd
  PROVE  Chain(Cut(ch, end)) /\ Continues(ch, Cut(ch, end))
<1> DEFINE m == Lesser(Len(ch), ChunksFor(end))
           cut == Cut(ch, end)
<1>1. Len(ch) \in Nat /\ ChunksFor(end) \in Nat
  BY RoomType, ChunksForIs
<1>2. m \in 0..Len(ch)
  BY <1>1 DEF Lesser
<1>3. cut = SubSeq(ch, 1, m)
  BY DEF Cut
<1> HIDE DEF m, cut
<1>4. cut \in Seq(Chunk) /\ Len(cut) = m /\ \A k \in 1..m : cut[k] = ch[k]
  BY <1>1, <1>2, <1>3 DEF Chain
<1> QED
  BY <1>1, <1>2, <1>4 DEF Chain, Continues, cut

\* node_truncate_chunks keeps what is needed up to end.
LEMMA CutIs ==
  ASSUME Segment(seg0), NEW ch, Chain(ch), NEW end \in 0..MaxEnd, Room(seg0, ch) >= end
  PROVE  /\ Chain(Cut(ch, end)) /\ Continues(ch, Cut(ch, end))
         /\ Room(seg0, Cut(ch, end)) >= end
<1> DEFINE m == Lesser(Len(ch), ChunksFor(end))
           cut == Cut(ch, end)
<1>1. Len(ch) \in Nat /\ Len(seg0) \in Nat /\ ChunksFor(end) \in Nat
      /\ Len(seg0) + ChunkSize * ChunksFor(end) >= end
  BY RoomType, ChunksForIs
<1>2. m \in 0..Len(ch) /\ (m = Len(ch) \/ m = ChunksFor(end))
  BY <1>1 DEF Lesser
<1>3. cut = SubSeq(ch, 1, m)
  BY DEF Cut
<1> HIDE DEF m, cut
<1>4. cut \in Seq(Chunk) /\ Len(cut) = m /\ \A k \in 1..m : cut[k] = ch[k]
  BY <1>1, <1>2, <1>3 DEF Chain
<1>5. Room(seg0, cut) >= end
  BY <1>1, <1>2, <1>4 DEF Room
<1> QED
  BY <1>5, CutKeeps DEF cut
-----------------------------------------------------------------------------
LEMMA InitFile == Init => FileInv
<1> SUFFICES ASSUME Init PROVE FileInv
  OBVIOUS
<1>1. Segment(seg0) /\ size \in 0..Top
  BY DEF Init, Segment
<1>2. Chain(chunks) /\ Len(chunks) = 0 /\ reply \in Seq(Bytes) /\ DescsOK
  BY DEF Init, Chain, DescsOK
<1>3. size <= Capacity /\ reach \in size..Top
  BY <1>1, <1>2 DEF Init, Capacity, Segment
<1>4. Fresh(seg0, chunks, reach)
  <2>1. Len(seg0) \in Nat /\ Room(seg0, chunks) = reach
    BY <1>1, <1>2 DEF Init, Room, Segment
  <2> QED
    BY <2>1 DEF Fresh, Init
<1> QED
  BY <1>1, <1>2, <1>3, <1>4 DEF Init, FileInv, Backed

\* What node_write leaves when there is room for all of buf.
LEMMA NodeWriteIs ==
  ASSUME Segment(seg0), size \in 0..Top, NEW ch, Chain(ch), NEW buf \in Seq(Bytes),
         NEW off \in 0..Top, off + Len(buf) <= Top, Room(seg0, ch) >= off + Len(buf),
         NodeWrite(ch, buf, off)
  PROVE  /\ Segment(seg0') /\ Len(seg0') = Len(seg0) /\ Chain(chunks')
         /\ size' = Greater(size, off + Len(buf)) /\ size' \in 0..Top
         /\ reach' = Greater(reach, size')
         /\ Room(seg0', chunks') = Room(seg0, ch)
         /\ Room(seg0, ch) >= size => Room(seg0', chunks') >= size'
         /\ \A p \in Nat : p < Room(seg0, ch) =>
              ByteIn(seg0', chunks', p) = Stored(buf, off, p, ByteIn(seg0, ch, p))
<1>1. seg0' = StoreSeg0(buf, off) /\ chunks' = StoreChunks(ch, buf, off)
      /\ size' = Greater(size, off + Len(buf)) /\ reach' = Greater(reach, size')
  BY DEF NodeWrite
<1>2. /\ Segment(seg0') /\ Len(seg0') = Len(seg0)
      /\ Chain(chunks') /\ Len(chunks') = Len(ch)
  BY <1>1, StoredChain
<1>3. Room(seg0', chunks') = Room(seg0, ch)
  BY <1>2 DEF Room
<1>4. \A p \in Nat : p < Room(seg0, ch) =>
        ByteIn(seg0', chunks', p) = Stored(buf, off, p, ByteIn(seg0, ch, p))
  BY <1>1, ByteStored
<1>5. size' \in 0..Top /\ (Room(seg0, ch) >= size => Room(seg0', chunks') >= size')
  BY <1>1, <1>3, RoomType DEF Greater
<1> QED
  BY <1>1, <1>2, <1>3, <1>4, <1>5

\* It writes no byte behind the new size.
LEMMA FreshWritten ==
  ASSUME Segment(seg0), size \in 0..Top, NEW ch, Chain(ch), NEW buf \in Seq(Bytes),
         NEW off \in 0..Top, off + Len(buf) <= Top, Room(seg0, ch) >= off + Len(buf),
         NodeWrite(ch, buf, off), reach \in size..Top, Fresh(seg0, ch, reach)
  PROVE  reach' \in size'..Top /\ Fresh(seg0', chunks', reach')
<1>1. /\ size' = Greater(size, off + Len(buf)) /\ size' \in 0..Top
      /\ reach' = Greater(reach, size') /\ Room(seg0', chunks') = Room(seg0, ch)
      /\ \A p \in Nat : p < Room(seg0, ch) =>
           ByteIn(seg0', chunks', p) = Stored(buf, off, p, ByteIn(seg0, ch, p))
  BY NodeWriteIs, SMTT(30)
<1>2. Len(buf) \in Nat /\ off \in Nat
  OBVIOUS
<1>3. reach' \in size'..Top /\ reach' >= reach /\ reach' >= off + Len(buf) /\ reach' \in Nat
  BY <1>1, <1>2 DEF Greater
<1>4. ASSUME NEW p \in Nat, reach' <= p, p < Room(seg0', chunks')
      PROVE  ByteIn(seg0', chunks', p) = 0
  <2>1. p \notin off..off + Len(buf) - 1 /\ reach <= p /\ p < Room(seg0, ch)
    BY <1>1, <1>2, <1>3, <1>4
  <2>2. ByteIn(seg0', chunks', p) = ByteIn(seg0, ch, p)
    BY <1>1, <2>1 DEF Stored
  <2> QED
    BY <2>1, <2>2 DEF Fresh
<1> QED
  BY <1>3, <1>4 DEF Fresh

LEMMA BackedIs == Backed <=> (Live /\ ~lost => size <= Room(seg0, chunks))
BY DEF Backed, Capacity, Room

LEMMA BackedNext == Backed' <=> (Live' /\ ~lost' => size' <= Room(seg0', chunks'))
BY DEF Backed, Capacity, Room

\* A write: it fails, with perhaps a longer chain, or it is all there.
Appends(f) == IF desc[f].append THEN size ELSE desc[f].pos

LEMMA WriteIs ==
  ASSUME FileInv, NEW f \in Fds, NEW buf \in Buffers, Write(f, buf)
  PROVE  LET off == Appends(f)
             end == off + Len(buf)
         IN  /\ desc[f] \in Descs /\ desc[f].mode \in {"w", "rw"}
             /\ buf \in Seq(Bytes) /\ Len(buf) \in 1..MaxBuf /\ off \in 0..Top
             /\ reply' = <<>> /\ UNCHANGED <<named, lost>>
             /\ \/ /\ desc' = [desc EXCEPT ![f].pos = off]
                   /\ Extends(chunks', chunks) /\ UNCHANGED <<seg0, size, reach>>
                \/ \E ch : /\ end \in 0..MaxEnd /\ Extends(ch, chunks)
                           /\ Room(seg0, ch) >= end /\ NodeWrite(ch, buf, off)
                           /\ desc' = [desc EXCEPT ![f].pos = end]
<1> DEFINE off == Appends(f)
           end == off + Len(buf)
<1>1. desc[f].mode \in {"w", "rw"} /\ Bounded(end) /\ reply' = <<>> /\ UNCHANGED <<named, lost>>
  BY DEF Write, Appends
<1>2. desc[f] \in Descs
  BY <1>1 DEF FileInv, DescsOK, Closed
<1>3. off \in 0..Top
  BY <1>2 DEF Appends, FileInv, Descs
<1>4. buf \in Seq(Bytes) /\ Len(buf) \in 1..MaxBuf
  BY DEF Buffers
<1>5. CASE end > Top
  <2>1. desc' = [desc EXCEPT ![f].pos = off] /\ UNCHANGED <<seg0, chunks, size, reach>>
    BY <1>5 DEF Write, Appends
  <2>2. Extends(chunks, chunks)
    <3>1. Room(seg0, chunks) \in Nat /\ Len(chunks) \in Nat
      BY RoomType DEF FileInv
    <3> QED
      BY <3>1 DEF Continues, Extends, Fresh, FileInv
  <2> QED
    BY <1>1, <1>2, <1>3, <1>4, <2>1, <2>2
<1>6. CASE ~(end > Top)
  <2>1. end \in 0..MaxEnd
    BY <1>1, <1>3, <1>4, <1>6 DEF Bounded
  <2>2. PICK ch \in Grown(end) :
          IF Enough(ch, end)
          THEN /\ NodeWrite(ch, buf, off)
               /\ desc' = [desc EXCEPT ![f].pos = end]
          ELSE /\ chunks' = ch
               /\ desc' = [desc EXCEPT ![f].pos = off]
               /\ UNCHANGED <<seg0, size, reach>>
    BY <1>6 DEF Write, Appends
  <2> HIDE DEF end
  <2>3. Extends(ch, chunks)
    BY <2>1, GrownExtends DEF FileInv
  <2>4. Enough(ch, end) => Room(seg0, ch) >= end
    BY <2>1, <2>3, EnoughRoom DEF FileInv, Extends, Continues
  <2> QED
    BY <1>1, <1>2, <1>3, <1>4, <2>1, <2>2, <2>3, <2>4 DEF end
<1> QED
  BY <1>5, <1>6

LEMMA WriteFile ==
  ASSUME FileInv, NEW f \in Fds, NEW buf \in Buffers, Write(f, buf)
  PROVE  FileInv'
<1> DEFINE off == Appends(f)
           end == off + Len(buf)
<1>1. /\ desc[f] \in Descs /\ buf \in Seq(Bytes) /\ Len(buf) \in 1..MaxBuf /\ off \in 0..Top
      /\ reply' = <<>> /\ UNCHANGED <<named, lost>>
      /\ \/ /\ desc' = [desc EXCEPT ![f].pos = off]
            /\ Extends(chunks', chunks) /\ UNCHANGED <<seg0, size, reach>>
         \/ \E ch : /\ end \in 0..MaxEnd /\ Extends(ch, chunks)
                    /\ Room(seg0, ch) >= end /\ NodeWrite(ch, buf, off)
                    /\ desc' = [desc EXCEPT ![f].pos = end]
  BY WriteIs
<1>2. desc[f] # Closed
  BY <1>1, OpenIsNotClosed
<1> HIDE DEF off
<1>3. CASE /\ desc' = [desc EXCEPT ![f].pos = off]
           /\ Extends(chunks', chunks) /\ UNCHANGED <<seg0, size, reach>>
  <2>1. DescsOK' /\ Live' = Live
    BY <1>1, <1>2, <1>3, DescMoves DEF FileInv, Live
  <2>2. Room(seg0', chunks') >= Room(seg0, chunks)
    BY <1>3, ContinuesRoom DEF FileInv, Extends
  <2>3. Chain(chunks')
    BY <1>3 DEF Extends, Continues
  <2>4. Room(seg0, chunks) \in Nat /\ Room(seg0', chunks') \in Nat
    BY <1>3, <2>3, RoomType DEF FileInv
  <2>5. Backed'
    <3>1. /\ Live /\ ~lost => size <= Room(seg0, chunks)
          /\ size \in Nat /\ size' = size /\ lost' = lost
      BY <1>1, <1>3, BackedIs DEF FileInv
    <3>2. Live' /\ ~lost' => size' <= Room(seg0', chunks')
      BY <2>1, <2>2, <2>4, <3>1
    <3> QED
      BY <3>2, BackedNext
  <2>6. Fresh(seg0', chunks', reach')
    <3>1. reach \in Nat
      BY DEF FileInv
    <3> QED
      BY <1>3, <3>1, FreshExtended DEF FileInv
  <2> QED
    BY <1>1, <1>3, <2>1, <2>3, <2>5, <2>6 DEF FileInv
<1>4. CASE \E ch : /\ end \in 0..MaxEnd /\ Extends(ch, chunks)
                   /\ Room(seg0, ch) >= end /\ NodeWrite(ch, buf, off)
                   /\ desc' = [desc EXCEPT ![f].pos = end]
  <2>1. PICK ch : /\ end \in 0..MaxEnd /\ Extends(ch, chunks)
                  /\ Room(seg0, ch) >= end /\ NodeWrite(ch, buf, off)
                  /\ desc' = [desc EXCEPT ![f].pos = end]
    BY <1>4
  <2>2. end \in 0..Top
    BY <2>1
  <2>3. DescsOK' /\ Live' = Live
    BY <1>1, <1>2, <2>1, <2>2, DescMoves DEF FileInv, Live
  <2>4. /\ Segment(seg0') /\ Chain(chunks') /\ size' \in 0..Top
        /\ Room(seg0, ch) >= size => Room(seg0', chunks') >= size'
    BY <1>1, <2>1, <2>2, NodeWriteIs, SMTT(40) DEF FileInv, Extends, Continues
  <2>5. Room(seg0, ch) >= Room(seg0, chunks) /\ Room(seg0, chunks) \in Nat /\ Room(seg0, ch) \in Nat
    BY <2>1, ContinuesRoom, RoomType DEF FileInv, Extends, Continues
  <2>6. Room(seg0', chunks') \in Nat
    BY <2>4, RoomType
  <2>7. Backed'
    <3>1. /\ Live /\ ~lost => size <= Room(seg0, chunks)
          /\ size \in Nat /\ size' \in Nat /\ lost' = lost
      BY <1>1, <2>4, BackedIs DEF FileInv
    <3>2. Live' /\ ~lost' => size' <= Room(seg0', chunks')
      BY <2>3, <2>4, <2>5, <2>6, <3>1
    <3> QED
      BY <3>2, BackedNext
  <2>8. reach' \in size'..Top /\ Fresh(seg0', chunks', reach')
    <3>1. Chain(ch) /\ reach \in Nat
      BY <2>1 DEF FileInv, Extends, Continues
    <3>2. Fresh(seg0, ch, reach)
      BY <2>1, <3>1, FreshExtended DEF FileInv
    <3> QED
      BY <1>1, <2>1, <2>2, <3>1, <3>2, FreshWritten, SMTT(40) DEF FileInv
  <2> QED
    BY <1>1, <2>3, <2>4, <2>7, <2>8 DEF FileInv
<1> QED
  BY <1>1, <1>3, <1>4
-----------------------------------------------------------------------------
\* A truncate: it cuts, or it writes zeros up to some m, n if memory suffices.
ZeroBytes(k) == [i \in 1..k |-> 0]

LEMMA ZeroBytesAre ==
  ASSUME NEW k \in Nat
  PROVE  ZeroBytes(k) \in Seq(Bytes) /\ Len(ZeroBytes(k)) = k
         /\ \A i \in 1..k : ZeroBytes(k)[i] = 0
BY DEF ZeroBytes

\* ch holds what is in the file, and nothing else, and has room up to m.
Holds(ch, m) ==
  /\ Chain(ch) /\ Room(seg0, ch) >= m /\ Fresh(seg0, ch, reach)
  /\ \A p \in Nat : p < size /\ p < Room(seg0, chunks) =>
       ByteIn(seg0, ch, p) = ByteIn(seg0, chunks, p)

LEMMA TruncateIs ==
  ASSUME FileInv, NEW n \in 0..Top, Truncate(n)
  PROVE  /\ reply' = <<>> /\ UNCHANGED <<named, lost, desc>> /\ Live
         /\ \/ /\ n <= size /\ n \in 0..MaxEnd
               /\ size' = n /\ chunks' = Cut(chunks, n) /\ seg0' = seg0 /\ reach' = reach
            \/ /\ n > size
               /\ \E m \in size..n : \E ch :
                    m \in 0..MaxEnd /\ Holds(ch, m) /\ NodeWrite(ch, ZeroBytes(m - size), size)
<1>1. Live /\ reply' = <<>> /\ UNCHANGED <<named, lost, desc>>
  BY DEF Truncate, Live, OpenFds, Closed
<1>2. n \in 0..MaxEnd
  BY DEF Truncate, Bounded
<1>3. CASE n <= size
  BY <1>1, <1>2, <1>3 DEF Truncate, FileInv
<1>4. CASE n > size
  <2>0. ~(n <= size)
    BY <1>4 DEF FileInv
  <2>1. PICK m \in {k \in size..n : k = n \/ (k - size) % FillSize = 0} :
          LET next == Lesser(n, m + FillSize)
              zeros == [i \in 1..(m - size) |-> 0]
          IN  \E chain \in Grown(IF m = n THEN n ELSE next) :
                /\ IF m = n THEN Enough(chain, n)
                   ELSE Enough(chain, m) /\ ~Enough(chain, next)
                /\ NodeWrite(IF m = n THEN Cut(chain, n) ELSE chain, zeros, size)
    BY <2>0, Zenon DEF Truncate
  <2> DEFINE to == IF m = n THEN n ELSE Lesser(n, m + FillSize)
  <2>2. m \in 0..MaxEnd /\ to \in 0..MaxEnd
    BY <1>2, <1>4 DEF FileInv, Lesser
  <2>3. PICK c \in Grown(to) :
          /\ Enough(c, m)
          /\ NodeWrite(IF m = n THEN Cut(c, n) ELSE c, ZeroBytes(m - size), size)
    BY <2>1 DEF ZeroBytes
  <2>4. Extends(c, chunks) /\ Continues(c, chunks) /\ Chain(c)
    BY <2>2, GrownExtends DEF FileInv, Extends, Continues
  <2>9. reach \in Nat /\ Fresh(seg0, c, reach)
    BY <2>4, FreshExtended DEF FileInv
  <2>5. Room(seg0, c) >= m /\ Room(seg0, c) \in Nat
    BY <2>2, <2>3, <2>4, EnoughRoom, RoomType DEF FileInv
  <2>6. \A p \in Nat : p < Room(seg0, chunks) => ByteIn(seg0, c, p) = ByteIn(seg0, chunks, p)
    BY <2>4, ContinuesRoom DEF FileInv
  <2>7. CASE m = n
    <3> DEFINE ch == Cut(c, n)
    <3>1. Chain(ch) /\ Continues(c, ch) /\ Room(seg0, ch) >= n
      BY <1>2, <2>4, <2>5, <2>7, CutIs DEF FileInv
    <3> HIDE DEF ch
    <3>7. Fresh(seg0, ch, reach)
      BY <2>4, <2>9, <3>1, FreshShorter DEF FileInv
    <3>2. \A p \in Nat : p < Room(seg0, ch) => ByteIn(seg0, c, p) = ByteIn(seg0, ch, p)
      BY <3>1, ContinuesRoom DEF FileInv
    <3>3. Room(seg0, ch) \in Nat /\ size \in Nat
      BY <3>1, RoomType DEF FileInv
    <3>4. \A p \in Nat : p < size => p < Room(seg0, ch)
      BY <1>4, <3>1, <3>3
    <3>5. Holds(ch, m)
      BY <2>6, <2>7, <3>1, <3>2, <3>4, <3>7 DEF Holds
    <3>6. NodeWrite(ch, ZeroBytes(m - size), size)
      BY <2>3, <2>7 DEF ch
    <3> QED
      BY <1>1, <1>4, <2>2, <3>5, <3>6
  <2>8. CASE m # n
    <3>1. Holds(c, m) /\ NodeWrite(c, ZeroBytes(m - size), size)
      BY <2>3, <2>4, <2>5, <2>6, <2>8, <2>9 DEF Holds
    <3> QED
      BY <1>1, <1>4, <2>2, <3>1
  <2> QED
    BY <2>7, <2>8
<1> QED
  BY <1>3, <1>4 DEF FileInv

LEMMA TruncateFile ==
  ASSUME FileInv, NEW n \in 0..Top, Truncate(n)
  PROVE  FileInv'
<1>1. /\ reply' = <<>> /\ UNCHANGED <<named, lost, desc>> /\ Live
      /\ \/ /\ n <= size /\ n \in 0..MaxEnd
            /\ size' = n /\ chunks' = Cut(chunks, n) /\ seg0' = seg0 /\ reach' = reach
         \/ /\ n > size
            /\ \E m \in size..n : \E ch :
                 m \in 0..MaxEnd /\ Holds(ch, m) /\ NodeWrite(ch, ZeroBytes(m - size), size)
  BY TruncateIs
<1>2. DescsOK' /\ Live' = Live /\ (reply \in Seq(Bytes))'
  BY <1>1 DEF FileInv, DescsOK, Live, OpenFds
<1>3. CASE /\ n <= size /\ n \in 0..MaxEnd
           /\ size' = n /\ chunks' = Cut(chunks, n) /\ seg0' = seg0 /\ reach' = reach
  <2>1. reach \in Nat
    BY DEF FileInv
  <2>2. Chain(chunks') /\ Continues(chunks, chunks')
    BY <1>3, CutKeeps DEF FileInv
  <2>3. reach' \in size'..Top /\ Fresh(seg0', chunks', reach')
    BY <1>3, <2>1, <2>2, FreshShorter DEF FileInv
  <2>4. ~lost => size <= Room(seg0, chunks) /\ Room(seg0, chunks) \in Nat
    BY <1>1, BackedIs, RoomType DEF FileInv
  <2>5. ~lost => size' <= Room(seg0', chunks')
    <3> SUFFICES ASSUME ~lost PROVE size' <= Room(seg0', chunks')
      OBVIOUS
    <3>1. Room(seg0, chunks) >= n
      BY <1>3, <2>4 DEF FileInv
    <3>2. Room(seg0, Cut(chunks, n)) >= n
      BY <1>3, <3>1, CutIs DEF FileInv
    <3>3. Room(seg0, Cut(chunks, n)) \in Nat
      BY <1>3, <2>2, RoomType DEF FileInv
    <3> QED
      BY <1>3, <3>2, <3>3
  <2>6. Backed'
    BY <1>1, <2>5 DEF Backed, Capacity, Room
  <2> QED
    BY <1>1, <1>2, <1>3, <2>2, <2>3, <2>6 DEF FileInv
<1>4. CASE /\ n > size
           /\ \E m \in size..n : \E ch :
                m \in 0..MaxEnd /\ Holds(ch, m) /\ NodeWrite(ch, ZeroBytes(m - size), size)
  <2>0. PICK m \in size..n : \E ch :
          m \in 0..MaxEnd /\ Holds(ch, m) /\ NodeWrite(ch, ZeroBytes(m - size), size)
    BY <1>4
  <2>1. PICK ch :
          m \in 0..MaxEnd /\ Holds(ch, m) /\ NodeWrite(ch, ZeroBytes(m - size), size)
    BY <2>0
  <2>2. m - size \in Nat /\ size + (m - size) = m /\ m <= Top /\ m >= size
    BY <2>0, <2>1 DEF FileInv
  <2>3. ZeroBytes(m - size) \in Seq(Bytes) /\ Len(ZeroBytes(m - size)) = m - size
    BY <2>2, ZeroBytesAre
  <2>4. Room(seg0, ch) \in Nat /\ Room(seg0, ch) >= m /\ Chain(ch)
    BY <2>1, RoomType DEF Holds, FileInv
  <2>5. /\ Segment(seg0') /\ Chain(chunks') /\ size' \in 0..Top
        /\ Room(seg0, ch) >= size => Room(seg0', chunks') >= size'
    BY <2>1, <2>2, <2>3, <2>4, NodeWriteIs, SMTT(40) DEF FileInv
  <2>6. Room(seg0, ch) >= size /\ Room(seg0', chunks') \in Nat
    BY <2>2, <2>4, <2>5, RoomType DEF FileInv
  <2>7. Backed'
    BY <2>5, <2>6 DEF Backed, Capacity, Room
  <2>8. reach' \in size'..Top /\ Fresh(seg0', chunks', reach')
    BY <2>1, <2>2, <2>3, <2>4, FreshWritten, SMTT(40) DEF Holds, FileInv
  <2> QED
    BY <1>1, <1>2, <2>5, <2>7, <2>8 DEF FileInv
<1> QED
  BY <1>1, <1>3, <1>4
-----------------------------------------------------------------------------
\* What is read is a piece of the file.
LEMMA ReadType ==
  ASSUME FileInv, NEW off \in 0..Top, NEW n \in 1..MaxBuf
  PROVE  /\ NodeRead(off, n) \in Seq(Bytes)
         /\ off + Len(NodeRead(off, n)) \in 0..Top
<1> DEFINE end == Lesser(Lesser(off + n, size), Capacity)
<1>1. Capacity = Room(seg0, chunks) /\ Capacity \in Nat
  BY RoomType DEF FileInv, Capacity, Room
<1>2. end \in Nat /\ end <= size /\ end <= Capacity /\ end <= Top
  BY <1>1 DEF FileInv, Lesser
<1>3. NodeRead(off, n) = [i \in 1..(end - off) |-> ByteAt(off + i - 1)]
  BY DEF NodeRead
<1> HIDE DEF end
<1>4. \A i \in 1..(end - off) : ByteAt(off + i - 1) \in Bytes
  <2> TAKE i \in 1..(end - off)
  <2>1. off + i - 1 \in Nat /\ off + i - 1 < Capacity
    BY <1>1, <1>2
  <2>2. ByteIn(seg0, chunks, off + i - 1) \in Bytes
    BY <1>1, <2>1, ByteType DEF FileInv
  <2> QED
    BY <2>2 DEF ByteAt, ByteIn
<1>5. CASE off <= end
  <2>1. end - off \in Nat
    BY <1>2, <1>5
  <2>2. NodeRead(off, n) \in [1..(end - off) -> Bytes]
    BY <1>3, <1>4
  <2>3. NodeRead(off, n) \in Seq(Bytes) /\ Len(NodeRead(off, n)) = end - off
    BY <2>1, <2>2
  <2> QED
    BY <1>2, <1>5, <2>1, <2>3
<1>6. CASE ~(off <= end)
  <2>1. 1..(end - off) = 1..0
    BY <1>2, <1>6
  <2>2. NodeRead(off, n) \in [1..0 -> Bytes]
    BY <1>3, <1>4, <2>1
  <2>3. NodeRead(off, n) \in Seq(Bytes) /\ Len(NodeRead(off, n)) = 0
    BY <2>2
  <2> QED
    BY <2>3
<1> QED
  BY <1>5, <1>6

LEMMA ReadFile ==
  ASSUME FileInv, NEW f \in Fds, NEW n \in 1..MaxBuf, Read(f, n)
  PROVE  FileInv'
<1>1. desc[f] \in Descs /\ desc[f] # Closed /\ desc[f].pos \in 0..Top
  BY DEF Read, FileInv, DescsOK, Closed, Descs
<1> DEFINE p == desc[f].pos + Len(reply')
<1>2. reply' \in Seq(Bytes) /\ p \in 0..Top
  BY <1>1, ReadType DEF Read
<1>3. desc' = [desc EXCEPT ![f].pos = p] /\ UNCHANGED <<seg0, chunks, size, reach, named, lost>>
  BY DEF Read
<1> HIDE DEF p
<1>4. DescsOK' /\ Live' = Live
  BY <1>1, <1>2, <1>3, DescMoves DEF FileInv, Live
<1> QED
  BY <1>2, <1>3, <1>4 DEF FileInv, Backed, Capacity
-----------------------------------------------------------------------------
\* A descriptor is opened: none of the others changes.
LEMMA DescOpens ==
  ASSUME DescsOK, NEW f \in Fds, NEW mode \in Modes, NEW append \in BOOLEAN,
         Opened(f, mode, append)
  PROVE  DescsOK' /\ f \in OpenFds'
<1> DEFINE d == [mode |-> mode, append |-> append, pos |-> 0]
<1>1. d \in Descs /\ d # Closed
  BY OpenIsNotClosed DEF Descs
<1> HIDE DEF d
<1>2. desc' = [desc EXCEPT ![f] = d]
  BY DEF Opened, d
<1> QED
  BY <1>1, <1>2 DEF DescsOK, OpenFds

LEMMA NoBytes == Segment(<<>>) /\ Chain(<<>>) /\ <<>> \in Seq(Bytes) /\ 0 \in 0..Top
BY DEF Segment, Chain

\* A node without a byte.
LEMMA CreatedFile ==
  ASSUME Created, DescsOK'
  PROVE  FileInv'
<1>1. /\ seg0' = <<>> /\ chunks' = <<>> /\ size' = 0 /\ reach' = 0
      /\ named' = TRUE /\ lost' = FALSE /\ reply' = <<>>
  BY DEF Created
<1>2. Room(seg0', chunks') = 0
  BY <1>1 DEF Room
<1>3. Fresh(seg0', chunks', reach') /\ Backed'
  BY <1>1, <1>2 DEF Fresh, Backed, Capacity, Room
<1> QED
  BY <1>1, <1>3, NoBytes DEF FileInv

LEMMA EmptyFile ==
  ASSUME FileInv, seg0' = seg0, chunks' = <<>>, size' = 0, reach' = reach
  PROVE  Backed' /\ reach' \in size'..Top /\ Fresh(seg0', chunks', reach')
<1>1. Room(seg0', chunks') \in Nat
  BY NoBytes, RoomType DEF FileInv
<1>2. size' <= Room(seg0', chunks')
  BY <1>1
<1>3. reach \in Nat
  BY DEF FileInv
<1>4. Fresh(seg0', chunks', reach')
  BY <1>3, FreshEmpty DEF FileInv
<1> QED
  BY <1>2, <1>4 DEF Backed, Capacity, Room, FileInv

LEMMA OpenFile ==
  ASSUME FileInv, NEW f \in Fds, NEW mode \in Modes, NEW append \in BOOLEAN,
         Create(f, mode, append) \/ \E trunc \in BOOLEAN : Open(f, mode, append, trunc)
  PROVE  FileInv'
<1>1. CASE Create(f, mode, append)
  <2>1. DescsOK'
    BY <1>1, DescOpens DEF Create, FileInv
  <2> QED
    BY <1>1, <2>1, CreatedFile DEF Create
<1>2. ASSUME NEW trunc \in BOOLEAN, Open(f, mode, append, trunc) PROVE FileInv'
  <2>1. DescsOK' /\ named /\ Live
    BY <1>2, DescOpens DEF Open, FileInv, Live
  <2>2. /\ reply' = <<>> /\ UNCHANGED <<seg0, reach, named, lost>>
        /\ \/ size' = 0 /\ chunks' = <<>>
           \/ UNCHANGED <<size, chunks>>
    BY <1>2 DEF Open
  <2>3. Backed' /\ reach' \in size'..Top /\ Fresh(seg0', chunks', reach')
    <3>1. CASE size' = 0 /\ chunks' = <<>>
      BY <2>2, <3>1, EmptyFile
    <3>2. CASE UNCHANGED <<size, chunks>>
      BY <2>1, <2>2, <3>2 DEF FileInv, Backed, Capacity
    <3> QED
      BY <2>2, <3>1, <3>2
  <2> QED
    BY <2>1, <2>2, <2>3, NoBytes DEF FileInv
<1> QED
  BY <1>1, <1>2

LEMMA OpenFailsFile ==
  ASSUME FileInv, TruncatingOpenFails \/ CreatingOpenFails
  PROVE  FileInv'
<1>1. DescsOK'
  BY DEF TruncatingOpenFails, CreatingOpenFails, FileInv, DescsOK
<1>2. CASE TruncatingOpenFails
  BY <1>1, <1>2, EmptyFile, NoBytes DEF TruncatingOpenFails, FileInv
<1>3. CASE CreatingOpenFails
  BY <1>1, <1>3, CreatedFile DEF CreatingOpenFails
<1> QED
  BY <1>2, <1>3

LEMMA LseekFile ==
  ASSUME FileInv, NEW f \in Fds, NEW p \in 0..Top, Lseek(f, p)
  PROVE  FileInv'
<1>1. DescsOK' /\ Live' = Live
  BY DescMoves DEF Lseek, FileInv, Live
<1> QED
  BY <1>1 DEF Lseek, FileInv, Backed, Capacity

LEMMA CloseFile ==
  ASSUME FileInv, NEW f \in Fds, Close(f)
  PROVE  FileInv'
<1>1. desc' = [desc EXCEPT ![f] = Closed]
  BY DEF Close
<1>2. DescsOK' /\ OpenFds' \subseteq OpenFds
  BY <1>1 DEF FileInv, DescsOK, OpenFds
<1> QED
  BY <1>2 DEF Close, FileInv, Backed, Capacity, Live

LEMMA RemoveFile ==
  ASSUME FileInv, Unlink \/ Replace
  PROVE  FileInv'
<1>1. desc' = desc /\ OpenFds' = OpenFds /\ DescsOK'
  BY DEF Unlink, Replace, OpenFds, FileInv, DescsOK
<1>2. named' = FALSE /\ reply' = <<>> /\ seg0' = seg0 /\ size' = size /\ reach' = reach /\ lost' \in BOOLEAN
      /\ (chunks' = <<>> \/ chunks' = chunks)
  BY DEF Unlink, Replace, FileInv
<1>3. Backed'
  <2>1. CASE OpenFds = {} \/ lost'
    BY <1>1, <1>2, <2>1 DEF Backed, Live
  <2>2. CASE ~(OpenFds = {} \/ lost')
    <3>1. Unlink /\ chunks' = chunks /\ lost' = lost
      BY <2>2 DEF Unlink, Replace
    <3> QED
      BY <1>1, <1>2, <2>2, <3>1 DEF FileInv, Backed, Capacity, Live
  <2> QED
    BY <2>1, <2>2
<1>4. Fresh(seg0', chunks', reach')
  <2>1. reach \in Nat
    BY DEF FileInv
  <2> QED
    BY <1>2, <2>1, FreshEmpty DEF FileInv
<1> QED
  BY <1>1, <1>2, <1>3, <1>4, NoBytes DEF FileInv

LEMMA NextFile == FileInv /\ [Next]_vars => FileInv'
<1> SUFFICES ASSUME FileInv, [Next]_vars PROVE FileInv'
  OBVIOUS
<1>1. CASE UNCHANGED vars
  BY <1>1 DEF vars, FileInv, DescsOK, Backed, Capacity, Live, OpenFds
<1> QED
  BY <1>1, OpenFile, OpenFailsFile, ReadFile, WriteFile, LseekFile, CloseFile, TruncateFile, RemoveFile
  DEF Next

LEMMA AlwaysFile == Spec => []FileInv
BY InitFile, NextFile, PTL DEF Spec

(***************************************************************************)
(* Each byte below the logical size of a live file that was not replaced   *)
(* while open has a place, for all sizes of segments and chunks.           *)
(***************************************************************************)
THEOREM BytesAreBacked == Spec => []Backed
<1>1. FileInv => Backed
  BY DEF FileInv
<1> QED
  BY <1>1, AlwaysFile, PTL

(***************************************************************************)
(* The chunks are whole, the logical size and the offsets of descriptors   *)
(* fit their 32 bits, and read returns bytes.                              *)
(***************************************************************************)
THEOREM FileTypes == Spec => []TypeOK
<1>1. FileInv => TypeOK
  BY DEF FileInv, TypeOK, Segment, Chain, Chunk, DescsOK, Descs
<1> QED
  BY <1>1, AlwaysFile, PTL
-----------------------------------------------------------------------------
\* The byte sequence that a file stands for.
Content(s, ch, n) == [i \in 1..n |-> ByteIn(s, ch, i - 1)]
Data == IF Live THEN NodeRead(0, size) ELSE <<>>

LEMMA ContentIs ==
  ASSUME NEW s, NEW ch, Segment(s), Chain(ch), NEW n \in Nat, n <= Room(s, ch)
  PROVE  /\ Content(s, ch, n) \in Seq(Bytes) /\ Len(Content(s, ch, n)) = n
         /\ Content(s, ch, n) \in [1..n -> Bytes]
         /\ \A i \in 1..n : Content(s, ch, n)[i] = ByteIn(s, ch, i - 1)
<1>1. \A i \in 1..n : ByteIn(s, ch, i - 1) \in Bytes
  <2> TAKE i \in 1..n
  <2>1. i - 1 \in Nat /\ i - 1 < Room(s, ch)
    BY RoomType
  <2> QED
    BY <2>1, ByteType
<1>2. Content(s, ch, n) \in [1..n -> Bytes]
  BY <1>1 DEF Content
<1>3. Content(s, ch, n) \in Seq(Bytes) /\ Len(Content(s, ch, n)) = n
  BY <1>2
<1> QED
  BY <1>2, <1>3 DEF Content

LEMMA NoContent ==
  ASSUME NEW s, NEW ch
  PROVE  Content(s, ch, 0) = <<>>
BY DEF Content

\* Equal contents, byte by byte.
LEMMA SameContent ==
  ASSUME NEW s, NEW ch, NEW s2, NEW ch2, NEW n \in Nat,
         \A p \in Nat : p < n => ByteIn(s2, ch2, p) = ByteIn(s, ch, p)
  PROVE  Content(s2, ch2, n) = Content(s, ch, n)
<1>1. \A i \in 1..n : ByteIn(s2, ch2, i - 1) = ByteIn(s, ch, i - 1)
  <2> TAKE i \in 1..n
  <2>1. i - 1 \in Nat /\ i - 1 < n
    OBVIOUS
  <2> QED
    BY <2>1
<1> QED
  BY <1>1 DEF Content

LEMMA AllIsLess ==
  ASSUME NEW n \in Nat, NEW c \in Nat, n <= c
  PROVE  Lesser(Lesser(0 + n, n), c) - 0 = n
BY DEF Lesser

LEMMA DataNow ==
  ASSUME FileInv, Live, ~lost
  PROVE  Data = Content(seg0, chunks, size) /\ size <= Room(seg0, chunks)
         /\ size \in Nat /\ Room(seg0, chunks) \in Nat
<1>1. size <= Capacity /\ size \in Nat /\ Capacity = Room(seg0, chunks) /\ Capacity \in Nat
  BY RoomType DEF FileInv, Backed, Capacity, Room
<1>2. Lesser(Lesser(0 + size, size), Capacity) - 0 = size
  BY <1>1 DEF Lesser
<1>3. \A i \in 1..size : ByteAt(0 + i - 1) = ByteIn(seg0, chunks, i - 1)
  BY <1>1 DEF ByteAt, ByteIn
<1>4. NodeRead(0, size) = [i \in 1..size |-> ByteAt(0 + i - 1)]
  BY <1>2 DEF NodeRead
<1> QED
  BY <1>1, <1>3, <1>4 DEF Data, Content

LEMMA DataNext ==
  ASSUME FileInv', Live', ~lost'
  PROVE  Data' = Content(seg0', chunks', size') /\ size' <= Room(seg0', chunks')
         /\ size' \in Nat
<1>1. /\ size' <= Capacity' /\ size' \in Nat /\ Capacity' = Room(seg0', chunks')
      /\ Capacity' \in Nat
  BY RoomType DEF FileInv, Backed, Capacity, Room
<1>2. Lesser(Lesser(0 + size', size'), Capacity') - 0 = size'
  BY <1>1, AllIsLess
<1>3. \A i \in 1..size' : ByteAt(0 + i - 1)' = ByteIn(seg0', chunks', i - 1)
  BY <1>1 DEF ByteAt, ByteIn
<1>4. NodeRead(0, size)' = [i \in 1..size' |-> ByteAt(0 + i - 1)']
  BY <1>2 DEF NodeRead
<1> QED
  BY <1>1, <1>3, <1>4 DEF Data, Content

\* A step that keeps the bytes below the size keeps the file.
LEMMA DataKept ==
  ASSUME FileInv, FileInv', ~lost, ~lost', Live, Live', UNCHANGED <<seg0, size>>,
         Continues(chunks', chunks)
  PROVE  Data' = Data
<1>1. /\ Data = Content(seg0, chunks, size) /\ size <= Room(seg0, chunks)
      /\ size \in Nat /\ Room(seg0, chunks) \in Nat
  BY DataNow
<1>2. Data' = Content(seg0, chunks', size)
  BY DataNext
<1>3. \A p \in Nat : p < Room(seg0, chunks) => ByteIn(seg0, chunks', p) = ByteIn(seg0, chunks, p)
  BY ContinuesRoom DEF FileInv
<1>4. \A p \in Nat : p < size => ByteIn(seg0, chunks', p) = ByteIn(seg0, chunks, p)
  BY <1>1, <1>3
<1> QED
  BY <1>1, <1>2, <1>4, SameContent
-----------------------------------------------------------------------------
Kept == FileInv /\ FileInv' /\ ~lost /\ ~lost'

LEMMA AtIs ==
  ASSUME Kept, Live, NEW f
  PROVE  Len(Data) = size /\ Abstract!At(f) = Appends(f)
<1>1. Len(Data) = size
  BY DataNow, ContentIs DEF Kept, FileInv
<1> QED
  BY <1>1 DEF Abstract!At, Appends, Data

LEMMA ReachesIs ==
  ASSUME Kept, Live', reach' = Greater(reach, size')
  PROVE  reach' = IF Len(Data') > reach THEN Len(Data') ELSE reach
<1>1. Len(Data') = size' /\ size' \in Nat
  BY DataNext, ContentIs DEF Kept, FileInv
<1> QED
  BY <1>1 DEF Greater, Kept, FileInv

LEMMA WriteRefines ==
  ASSUME Kept, NEW f \in Fds, NEW buf \in Buffers, Write(f, buf)
  PROVE  Abstract!Write(f, buf) \/ Abstract!WriteFails(f)
<1> DEFINE off == Appends(f)
           end == off + Len(buf)
<1>1. /\ desc[f] \in Descs /\ desc[f].mode \in {"w", "rw"}
      /\ buf \in Seq(Bytes) /\ Len(buf) \in 1..MaxBuf /\ off \in 0..Top
      /\ reply' = <<>> /\ UNCHANGED <<named, lost>>
      /\ \/ /\ desc' = [desc EXCEPT ![f].pos = off]
            /\ Extends(chunks', chunks) /\ UNCHANGED <<seg0, size, reach>>
         \/ \E ch : /\ end \in 0..MaxEnd /\ Extends(ch, chunks)
                    /\ Room(seg0, ch) >= end /\ NodeWrite(ch, buf, off)
                    /\ desc' = [desc EXCEPT ![f].pos = end]
  BY WriteIs DEF Kept
<1>2. desc[f] # Closed
  BY <1>1, OpenIsNotClosed
<1>3. Live
  BY <1>2 DEF Live, OpenFds
<1>4. Len(Data) = size /\ Abstract!At(f) = off
  BY <1>3, AtIs
<1> HIDE DEF off
<1>5. CASE /\ desc' = [desc EXCEPT ![f].pos = off]
           /\ Extends(chunks', chunks) /\ UNCHANGED <<seg0, size, reach>>
  <2>1. Live'
    BY <1>1, <1>2, <1>3, <1>5, DescMoves DEF Kept, FileInv, Live
  <2>2. Data' = Data
    BY <1>3, <1>5, <2>1, DataKept DEF Kept, Extends
  <2> QED
    BY <1>1, <1>4, <1>5, <2>2 DEF Abstract!WriteFails, Abstract!Moved, Data
<1>6. CASE \E ch : /\ end \in 0..MaxEnd /\ Extends(ch, chunks)
                   /\ Room(seg0, ch) >= end /\ NodeWrite(ch, buf, off)
                   /\ desc' = [desc EXCEPT ![f].pos = end]
  <2>1. PICK ch : /\ end \in 0..MaxEnd /\ Extends(ch, chunks)
                  /\ Room(seg0, ch) >= end /\ NodeWrite(ch, buf, off)
                  /\ desc' = [desc EXCEPT ![f].pos = end]
    BY <1>6
  <2>2. end \in 0..Top
    BY <2>1
  <2>3. Live'
    BY <1>1, <1>2, <1>3, <2>1, <2>2, DescMoves DEF Kept, FileInv, Live
  <2>4. /\ size' = Greater(size, end) /\ reach' = Greater(reach, size')
        /\ \A p \in Nat : p < Room(seg0, ch) =>
             ByteIn(seg0', chunks', p) = Stored(buf, off, p, ByteIn(seg0, ch, p))
    BY <1>1, <2>1, <2>2, NodeWriteIs, SMTT(30) DEF Kept, FileInv, Extends, Continues
  <2>5. /\ Data = Content(seg0, chunks, size) /\ size <= Room(seg0, chunks)
        /\ size \in Nat /\ Room(seg0, chunks) \in Nat
        /\ \A i \in 1..size : Data[i] = ByteIn(seg0, chunks, i - 1)
    BY <1>3, DataNow, ContentIs DEF Kept, FileInv
  <2>6. /\ Room(seg0, ch) >= Room(seg0, chunks) /\ Room(seg0, ch) \in Nat
        /\ \A p \in Nat : p < Room(seg0, chunks) =>
             ByteIn(seg0, ch, p) = ByteIn(seg0, chunks, p)
    BY <2>1, ContinuesRoom, RoomType DEF Kept, FileInv, Extends, Continues
  <2>7. /\ Data' = Content(seg0', chunks', size') /\ size' \in Nat
        /\ Data' \in [1..size' -> Bytes]
        /\ \A i \in 1..size' : Data'[i] = ByteIn(seg0', chunks', i - 1)
    BY <2>3, DataNext, ContentIs DEF Kept, FileInv
  <2>8. \A i \in 1..size' : Data'[i] = Stored(buf, off, i - 1, ByteIn(seg0, ch, i - 1))
    <3> TAKE i \in 1..size'
    <3>1. i - 1 \in Nat /\ i - 1 < Room(seg0, ch)
      BY <1>1, <2>1, <2>2, <2>4, <2>5, <2>6, SMTT(30) DEF Greater
    <3> QED
      BY <2>4, <2>7, <3>1
  <2>9. ASSUME NEW i \in 1..size'
        PROVE  /\ i \in off+1..off+Len(buf) => Data'[i] = buf[i - off]
               /\ i <= Len(Data) /\ i \notin off+1..off+Len(buf) => Data'[i] = Data[i]
               /\ i \in Len(Data)+1..off /\ i \notin Abstract!Leftover(Data) => Data'[i] = 0
    <3>1. ASSUME i \in off+1..off+Len(buf) PROVE Data'[i] = buf[i - off]
      <4>0. off \in Nat /\ Len(buf) \in Nat /\ i \in Nat
        BY <1>1, <2>7
      <4>1. i - 1 \in off..off + Len(buf) - 1 /\ (i - 1) - off + 1 = i - off
        BY <3>1, <4>0
      <4> QED
        BY <2>8, <4>1 DEF Stored
    <3>2. ASSUME i <= Len(Data), i \notin off+1..off+Len(buf) PROVE Data'[i] = Data[i]
      <4>1. i - 1 \notin off..off + Len(buf) - 1 /\ i \in 1..size /\ i - 1 \in Nat
            /\ i - 1 < Room(seg0, chunks)
        BY <1>1, <1>4, <2>5, <3>2, SMTT(30)
      <4> QED
        BY <2>5, <2>6, <2>8, <4>1 DEF Stored
    <3>3. ASSUME i \in Len(Data)+1..off, i \notin Abstract!Leftover(Data) PROVE Data'[i] = 0
      <4>0. Segment(seg0) /\ Chain(chunks) /\ reach \in Nat /\ Fresh(seg0, chunks, reach)
        BY DEF Kept, FileInv
      <4>1. Fresh(seg0, ch, reach) /\ reach \in Nat
        BY <2>1, <4>0, FreshExtended
      <4>2. i - 1 \notin off..off + Len(buf) - 1 /\ i - 1 \in Nat /\ reach <= i - 1
        BY <1>1, <1>4, <2>5, <3>3, <4>1, SMTT(40) DEF Abstract!Leftover
      <4>3. i - 1 < Room(seg0, ch)
        <5>1. i \in Int /\ i <= off /\ off \in Nat /\ Len(buf) \in Nat
          BY <1>1, <3>3
        <5>2. off + Len(buf) <= Room(seg0, ch)
          BY <2>1
        <5> QED
          BY <2>6, <5>1, <5>2
      <4>4. ByteIn(seg0, ch, i - 1) = 0
        BY <4>1, <4>2, <4>3 DEF Fresh
      <4> QED
        BY <2>8, <4>2, <4>4 DEF Stored
    <3> QED
      BY <3>1, <3>2, <3>3
  <2>10. size' = IF off + Len(buf) > Len(Data) THEN off + Len(buf) ELSE Len(Data)
    BY <1>1, <1>4, <2>4, <2>5 DEF Greater
  <2>11. Data' \in Abstract!Overwritten(Data, off, buf)
    BY <2>7, <2>9, <2>10 DEF Abstract!Overwritten, Abstract!Zero
  <2>12. reach' = IF Len(Data') > reach THEN Len(Data') ELSE reach
    BY <2>3, <2>4, <2>7, ReachesIs DEF Kept
  <2> QED
    BY <1>1, <1>4, <2>1, <2>2, <2>11, <2>12 DEF Abstract!Write, Abstract!Moved, Abstract!Reaches, Data
<1> QED
  BY <1>1, <1>5, <1>6

LEMMA TruncateRefines ==
  ASSUME Kept, NEW n \in 0..Top, Truncate(n)
  PROVE  Abstract!Truncate(n)
<1>1. /\ reply' = <<>> /\ UNCHANGED <<named, lost, desc>> /\ Live
      /\ \/ /\ n <= size /\ n \in 0..MaxEnd
            /\ size' = n /\ chunks' = Cut(chunks, n) /\ seg0' = seg0 /\ reach' = reach
         \/ /\ n > size
            /\ \E m \in size..n : \E ch :
                 m \in 0..MaxEnd /\ Holds(ch, m) /\ NodeWrite(ch, ZeroBytes(m - size), size)
  BY TruncateIs DEF Kept
<1>2. Live'
  BY <1>1 DEF Live, OpenFds
<1>3. /\ Data = Content(seg0, chunks, size) /\ size <= Room(seg0, chunks)
      /\ size \in Nat /\ Room(seg0, chunks) \in Nat
      /\ Len(Data) = size /\ Data \in Seq(Bytes)
      /\ \A i \in 1..size : Data[i] = ByteIn(seg0, chunks, i - 1)
  BY <1>1, DataNow, ContentIs DEF Kept, FileInv
<1>4. /\ size' \in Nat /\ Len(Data') = size' /\ Data' \in Seq(Bytes)
      /\ \A i \in 1..size' : Data'[i] = ByteIn(seg0', chunks', i - 1)
  BY <1>2, DataNext, ContentIs DEF Kept, FileInv
<1>5. ASSUME NEW m \in Nat, m <= size, size' = m, \A i \in 1..m : Data'[i] = Data[i]
      PROVE  Data' = Abstract!Resized(Data, m)
  <2>1. /\ SubSeq(Data, 1, m) \in Seq(Bytes) /\ Len(SubSeq(Data, 1, m)) = m
        /\ \A i \in 1..m : SubSeq(Data, 1, m)[i] = Data[i]
    BY <1>3, <1>5
  <2>2. Data' = SubSeq(Data, 1, m)
    BY <1>4, <1>5, <2>1, SeqEqual
  <2> QED
    BY <1>3, <1>5, <2>2 DEF Abstract!Resized
<1>6. CASE /\ n <= size /\ n \in 0..MaxEnd
           /\ size' = n /\ chunks' = Cut(chunks, n) /\ seg0' = seg0 /\ reach' = reach
  <2> DEFINE cut == Cut(chunks, n)
  <2>1. Chain(cut) /\ Continues(chunks, cut) /\ Room(seg0, cut) >= n
    BY <1>3, <1>6, CutIs DEF Kept, FileInv
  <2> HIDE DEF cut
  <2>2. \A p \in Nat : p < Room(seg0, cut) => ByteIn(seg0, chunks, p) = ByteIn(seg0, cut, p)
    BY <2>1, ContinuesRoom DEF Kept, FileInv
  <2>3. Room(seg0, cut) \in Nat
    BY <2>1, RoomType DEF Kept, FileInv
  <2>4. \A i \in 1..n : Data'[i] = Data[i]
    <3> TAKE i \in 1..n
    <3>1. i - 1 \in Nat /\ i - 1 < Room(seg0, cut) /\ i \in 1..size /\ i \in 1..size'
      BY <1>3, <1>6, <2>1, <2>3
    <3>2. chunks' = cut /\ seg0' = seg0
      BY <1>6 DEF cut
    <3> QED
      BY <1>3, <1>4, <2>2, <3>1, <3>2
  <2>5. Data' = Abstract!Resized(Data, n)
    BY <1>5, <1>6, <2>4
  <2>6. reach' = IF Len(Data') > reach THEN Len(Data') ELSE reach
    BY <1>2, <1>3, <1>6, ReachesIs DEF Kept, FileInv, Greater
  <2> QED
    BY <1>1, <2>5, <2>6
    DEF Abstract!Truncate, Abstract!Reaches, Abstract!OpenFds, Abstract!Closed, Live, OpenFds, Closed, Data
<1>7. CASE /\ n > size
           /\ \E m \in size..n : \E ch :
                m \in 0..MaxEnd /\ Holds(ch, m) /\ NodeWrite(ch, ZeroBytes(m - size), size)
  <2>0. PICK m \in size..n : \E ch :
          m \in 0..MaxEnd /\ Holds(ch, m) /\ NodeWrite(ch, ZeroBytes(m - size), size)
    BY <1>7
  <2>1. PICK ch :
          m \in 0..MaxEnd /\ Holds(ch, m) /\ NodeWrite(ch, ZeroBytes(m - size), size)
    BY <2>0
  <2> DEFINE z == ZeroBytes(m - size)
  <2>2. m - size \in Nat /\ size + (m - size) = m /\ m <= Top /\ m >= size /\ m \in Nat
    BY <1>3, <2>0, <2>1
  <2>3. z \in Seq(Bytes) /\ Len(z) = m - size /\ \A i \in 1..(m - size) : z[i] = 0
    BY <2>2, ZeroBytesAre
  <2>4. Room(seg0, ch) \in Nat /\ Room(seg0, ch) >= m /\ Chain(ch)
    BY <2>1, RoomType DEF Holds, Kept, FileInv
  <2>5. /\ size' = Greater(size, size + Len(z)) /\ reach' = Greater(reach, size')
        /\ \A p \in Nat : p < Room(seg0, ch) =>
             ByteIn(seg0', chunks', p) = Stored(z, size, p, ByteIn(seg0, ch, p))
    BY <2>1, <2>2, <2>3, <2>4, NodeWriteIs, SMTT(40) DEF Kept, FileInv
  <2> HIDE DEF z
  <2>6. size' = m
    <3>1. size + Len(z) = m
      BY <1>3, <2>2, <2>3
    <3>2. size' = Greater(size, m)
      BY <2>5, <3>1
    <3> QED
      BY <1>3, <2>2, <3>2 DEF Greater
  <2>7. ASSUME NEW i \in 1..m
        PROVE  Data'[i] = IF i <= size THEN Data[i] ELSE 0
    <3>1. i - 1 \in Nat /\ i - 1 < Room(seg0, ch) /\ i \in 1..size'
      BY <2>4, <2>6
    <3>2. Data'[i] = Stored(z, size, i - 1, ByteIn(seg0, ch, i - 1))
      BY <1>4, <2>5, <3>1
    <3>3. CASE i <= size
      <4>1. i - 1 \notin size..size + Len(z) - 1
        BY <1>3, <2>3, <3>3
      <4>2. ByteIn(seg0, ch, i - 1) = ByteIn(seg0, chunks, i - 1)
        BY <1>3, <2>1, <3>1, <3>3 DEF Holds
      <4>3. i \in 1..size
        BY <1>3, <3>3
      <4> QED
        BY <1>3, <3>2, <3>3, <4>1, <4>2, <4>3 DEF Stored
    <3>4. CASE ~(i <= size)
      <4>1. i - 1 \in size..size + Len(z) - 1 /\ (i - 1) - size + 1 \in 1..(m - size)
        BY <1>3, <2>2, <2>3, <3>4
      <4> QED
        BY <2>3, <3>2, <3>4, <4>1 DEF Stored
    <3> QED
      BY <3>3, <3>4
  <2>8. Data' = Abstract!Resized(Data, m)
    <3>1. CASE m <= size
      <4>1. \A i \in 1..m : Data'[i] = Data[i]
        BY <1>3, <2>2, <2>7, <3>1
      <4> QED
        BY <1>5, <2>2, <2>6, <3>1, <4>1
    <3>2. CASE ~(m <= size)
      <4> DEFINE y == Abstract!Zeros(m - size)
      <4>1. y = ZeroBytes(m - size)
        BY DEF Abstract!Zeros, Abstract!Zero, ZeroBytes
      <4>2. y \in Seq(Bytes) /\ Len(y) = m - size /\ \A i \in 1..(m - size) : y[i] = 0
        BY <2>3, <4>1 DEF z
      <4> HIDE DEF y
      <4>3. /\ Data \o y \in Seq(Bytes) /\ Len(Data \o y) = Len(Data) + Len(y)
            /\ \A i \in 1..Len(Data) + Len(y) :
                 (Data \o y)[i] = IF i <= Len(Data) THEN Data[i] ELSE y[i - Len(Data)]
        BY <1>3, <4>2, ConcatProperties, ZenonT(40)
      <4>4. Len(Data) + Len(y) = m
        BY <1>3, <2>2, <4>2
      <4>5. \A i \in 1..m : (Data \o y)[i] = IF i <= size THEN Data[i] ELSE 0
        <5> TAKE i \in 1..m
        <5>1. ~(i <= size) => i - size \in 1..(m - size)
          BY <1>3, <2>2
        <5> QED
          BY <1>3, <4>2, <4>3, <4>4, <5>1
      <4>6. Data' = Data \o y
        <5>1. \A i \in 1..m : Data'[i] = (Data \o y)[i]
          BY <2>7, <4>5
        <5> QED
          BY <1>4, <2>6, <4>3, <4>4, <5>1, SeqEqual
      <4> QED
        BY <1>3, <3>2, <4>6 DEF Abstract!Resized, y
    <3> QED
      BY <3>1, <3>2
  <2>9. m \in Len(Data)..n
    BY <1>3, <2>1
  <2>10. reach' = IF Len(Data') > reach THEN Len(Data') ELSE reach
    BY <1>2, <2>5, ReachesIs
  <2> QED
    BY <1>1, <2>8, <2>9, <2>10
    DEF Abstract!Truncate, Abstract!Reaches, Abstract!OpenFds, Abstract!Closed, Live, OpenFds, Closed, Data
<1> QED
  BY <1>1, <1>6, <1>7

LEMMA ReadRefines ==
  ASSUME Kept, NEW f \in Fds, NEW n \in 1..MaxBuf, Read(f, n)
  PROVE  Abstract!Read(f, n)
<1> DEFINE off == desc[f].pos
           to == IF off + n < size THEN off + n ELSE size
<1>1. desc[f] \in Descs /\ desc[f] # Closed /\ off \in 0..Top
  BY DEF Read, Kept, FileInv, DescsOK, Closed, Descs
<1>2. Live
  BY <1>1 DEF Live, OpenFds
<1>3. /\ size <= Room(seg0, chunks) /\ size \in Nat /\ Room(seg0, chunks) \in Nat
      /\ Len(Data) = size /\ Data \in Seq(Bytes)
      /\ \A i \in 1..size : Data[i] = ByteIn(seg0, chunks, i - 1)
  BY <1>2, DataNow, ContentIs DEF Kept, FileInv
<1> HIDE DEF off
<1>4. Lesser(Lesser(off + n, size), Capacity) = to /\ to \in Nat /\ to <= size
  BY <1>1, <1>3 DEF Lesser, Capacity, Room
<1>5. NodeRead(off, n) = [i \in 1..(to - off) |-> ByteAt(off + i - 1)]
  BY <1>4 DEF NodeRead
<1>6. /\ SubSeq(Data, off + 1, to) \in Seq(Bytes)
      /\ Len(SubSeq(Data, off + 1, to)) = IF off + 1 <= to THEN to - (off + 1) + 1 ELSE 0
      /\ \A i \in 1..to - (off + 1) + 1 : SubSeq(Data, off + 1, to)[i] = Data[off + 1 + i - 1]
  <2>1. \A i \in off + 1..to : Data[i] \in Bytes
    BY <1>1, <1>3, <1>4
  <2>2. off + 1 \in Int /\ to \in Int
    BY <1>1, <1>4
  <2> HIDE DEF to
  <2> QED
    BY <2>1, <2>2, SubSeqProperties, SMTT(30)
<1> HIDE DEF to
<1>7. NodeRead(off, n) \in Seq(Bytes)
  BY <1>1, ReadType DEF Kept
<1>8. NodeRead(off, n) = SubSeq(Data, off + 1, to)
  <2>1. CASE off + 1 <= to
    <3>1. to - off \in Nat /\ to - (off + 1) + 1 = to - off
      BY <1>1, <1>4, <2>1
    <3>2. Len(NodeRead(off, n)) = to - off
      BY <1>5, <1>7, <3>1
    <3>3. \A i \in 1..(to - off) : NodeRead(off, n)[i] = SubSeq(Data, off + 1, to)[i]
      <4> TAKE i \in 1..(to - off)
      <4>1. /\ off + i \in 1..size /\ off + 1 + i - 1 = off + i /\ off + i - 1 = (off + i) - 1
        BY <1>1, <1>3, <1>4, <3>1
      <4>2. ByteAt(off + i - 1) = ByteIn(seg0, chunks, off + i - 1)
        BY DEF ByteAt, ByteIn
      <4>3. NodeRead(off, n)[i] = ByteAt(off + i - 1)
        BY <1>5
      <4>4. SubSeq(Data, off + 1, to)[i] = Data[off + i]
        BY <1>6, <3>1, <4>1
      <4>5. Data[off + i] = ByteIn(seg0, chunks, (off + i) - 1)
        BY <1>3, <4>1
      <4> QED
        BY <4>1, <4>2, <4>3, <4>4, <4>5
    <3>4. Len(SubSeq(Data, off + 1, to)) = to - off
      BY <1>6, <2>1, <3>1
    <3> QED
      BY <1>6, <1>7, <3>2, <3>3, <3>4, SeqEqual
  <2>2. CASE ~(off + 1 <= to)
    <3>1. 1..(to - off) = 1..0
      BY <1>1, <1>4, <2>2
    <3>2. Len(NodeRead(off, n)) = 0
      <4>1. DOMAIN NodeRead(off, n) = 1..0
        BY <1>5, <3>1
      <4>2. Len(NodeRead(off, n)) \in Nat /\ DOMAIN NodeRead(off, n) = 1..Len(NodeRead(off, n))
        BY <1>7
      <4> QED
        BY <4>1, <4>2
    <3>3. Len(SubSeq(Data, off + 1, to)) = 0
      BY <1>6, <2>2
    <3> QED
      BY <1>6, <1>7, <3>2, <3>3, SeqEqual
  <2> QED
    BY <2>1, <2>2
<1>9. reply' = Abstract!Piece(Data, off, n)
  BY <1>3, <1>8 DEF Read, Abstract!Piece, off, to
<1>10. /\ desc' = [desc EXCEPT ![f].pos = off + Len(reply')]
       /\ UNCHANGED <<seg0, chunks, size, reach, named, lost>> /\ desc[f].mode \in {"r", "rw"}
  BY DEF Read, off
<1>11. off + Len(reply') \in 0..Top
  BY <1>1, ReadType DEF Read, Kept, off
<1>12. Live' = Live
  BY <1>1, <1>10, <1>11, DescMoves DEF Kept, FileInv, Live
<1>13. NodeRead(0, size)' = NodeRead(0, size)
  BY <1>10 DEF NodeRead, Lesser, Capacity, ByteAt
<1> QED
  BY <1>9, <1>10, <1>12, <1>13 DEF Abstract!Read, Abstract!Moved, Data, off

LEMMA OpenRefines ==
  ASSUME Kept, NEW f \in Fds, NEW mode \in Modes, NEW append \in BOOLEAN,
         NEW trunc \in BOOLEAN, Open(f, mode, append, trunc)
  PROVE  Abstract!Open(f, mode, append, trunc)
<1>1. /\ named /\ Live /\ Live' /\ desc[f] = Closed /\ Opened(f, mode, append)
      /\ reply' = <<>> /\ UNCHANGED <<seg0, reach, named, lost>>
  BY DEF Open, Live
<1>2. Data' = IF trunc /\ mode # "r" THEN <<>> ELSE Data
  <2>1. CASE trunc /\ mode # "r" /\ size > 0
    <3>1. size' = 0
      BY <2>1 DEF Open
    <3>2. Data' = Content(seg0', chunks', 0)
      BY <1>1, <3>1, DataNext DEF Kept
    <3> QED
      BY <2>1, <3>2, NoContent
  <2>2. CASE ~(trunc /\ mode # "r" /\ size > 0)
    <3>1. UNCHANGED <<seg0, size, chunks>>
      BY <2>2 DEF Open
    <3>2. Data' = Data
      BY <1>1, <3>1 DEF Data, NodeRead, Lesser, Capacity, ByteAt
    <3>3. CASE trunc /\ mode # "r"
      <4>1. size = 0
        BY <2>2, <3>3 DEF Kept, FileInv
      <4>2. Data = <<>>
        BY <1>1, <4>1, DataNow, NoContent DEF Kept
      <4> QED
        BY <3>2, <3>3, <4>2
    <3> QED
      BY <3>2, <3>3
  <2> QED
    BY <2>1, <2>2
<1> QED
  BY <1>1, <1>2 DEF Opened, Abstract!Open, Abstract!Closed, Closed, Data

LEMMA CreatedRefines ==
  ASSUME FileInv', Created
  PROVE  Abstract!Created
<1>1. /\ ~named /\ OpenFds = {}
      /\ size' = 0 /\ reach' = 0 /\ named' = TRUE /\ lost' = FALSE /\ reply' = <<>>
  BY DEF Created, Live
<1>2. Live'
  BY <1>1 DEF Live
<1>3. Data' = <<>>
  BY <1>1, <1>2, DataNext, NoContent
<1> QED
  BY <1>1, <1>3 DEF Abstract!Created, Abstract!OpenFds, OpenFds, Abstract!Closed, Closed, Data

LEMMA CreateRefines ==
  ASSUME FileInv', NEW f \in Fds, NEW mode \in Modes, NEW append \in BOOLEAN,
         Create(f, mode, append)
  PROVE  Abstract!Create(f, mode, append)
BY CreatedRefines DEF Create, Opened, Abstract!Create

LEMMA OpenFailsRefines ==
  ASSUME FileInv, FileInv', TruncatingOpenFails \/ CreatingOpenFails
  PROVE  (lost /\ lost') \/ Abstract!TruncatingOpenFails \/ Abstract!CreatingOpenFails
<1>1. CASE TruncatingOpenFails
  <2>1. size' = 0 /\ reply' = <<>> /\ named /\ UNCHANGED <<seg0, reach, named, lost, desc>>
    BY <1>1 DEF TruncatingOpenFails
  <2>2. CASE lost
    BY <2>1, <2>2
  <2>3. CASE ~lost
    <3>1. Data' = <<>>
      BY <2>1, <2>3, DataNext, NoContent DEF Live
    <3> QED
      BY <2>1, <3>1 DEF Abstract!TruncatingOpenFails, Data
  <2> QED
    BY <2>2, <2>3
<1>2. CASE CreatingOpenFails
  BY <1>2, CreatedRefines DEF CreatingOpenFails, Abstract!CreatingOpenFails
<1> QED
  BY <1>1, <1>2

LEMMA OthersRefine ==
  ASSUME Kept, Unlink \/ \E f \in Fds : Close(f) \/ \E p \in 0..Top : Lseek(f, p)
  PROVE  Abstract!Unlink \/ \E f \in Fds : Abstract!Close(f) \/ \E p \in 0..Top : Abstract!Lseek(f, p)
<1>1. CASE Unlink
  <2>1. UNCHANGED <<seg0, size, reach, desc, lost>> /\ named /\ named' = FALSE /\ reply' = <<>>
        /\ OpenFds' = OpenFds
    BY <1>1 DEF Unlink, OpenFds
  <2>2. Data' = IF OpenFds = {} THEN <<>> ELSE Data
    <3>1. CASE OpenFds = {}
      BY <2>1, <3>1 DEF Data, Live
    <3>2. CASE OpenFds # {}
      <4>1. chunks' = chunks /\ Live /\ Live'
        BY <1>1, <2>1, <3>2 DEF Unlink, Live
      <4> QED
        BY <2>1, <3>2, <4>1 DEF Data, NodeRead, Lesser, Capacity, ByteAt
    <3> QED
      BY <3>1, <3>2
  <2> QED
    BY <2>1, <2>2 DEF Abstract!Unlink, Abstract!OpenFds, OpenFds, Abstract!Closed, Closed, Data
<1>2. ASSUME NEW f \in Fds, Close(f) PROVE Abstract!Close(f)
  <2>1. /\ desc[f] # Closed /\ desc' = [desc EXCEPT ![f] = Closed]
        /\ reply' = <<>> /\ UNCHANGED <<seg0, chunks, size, reach, named, lost>>
    BY <1>2 DEF Close
  <2>2. Live
    BY <2>1 DEF Live, OpenFds
  <2>3. NodeRead(0, size)' = NodeRead(0, size)
    BY <2>1 DEF NodeRead, Lesser, Capacity, ByteAt
  <2>4. Live' <=> named \/ \E g \in Fds : desc'[g] # Closed
    BY <2>1 DEF Live, OpenFds
  <2>5. Data' = IF named \/ \E g \in Fds : desc'[g] # Closed THEN Data ELSE <<>>
    BY <2>2, <2>3, <2>4 DEF Data
  <2> QED
    BY <2>1, <2>5 DEF Abstract!Close, Abstract!Closed, Closed, Data
<1>3. ASSUME NEW f \in Fds, NEW p \in 0..Top, Lseek(f, p) PROVE Abstract!Lseek(f, p)
  <2>1. /\ desc[f] # Closed /\ desc' = [desc EXCEPT ![f].pos = p]
        /\ reply' = <<>> /\ UNCHANGED <<seg0, chunks, size, reach, named, lost>>
    BY <1>3 DEF Lseek
  <2>2. Live' = Live
    BY <2>1, DescMoves DEF Kept, FileInv, Live
  <2>3. NodeRead(0, size)' = NodeRead(0, size)
    BY <2>1 DEF NodeRead, Lesser, Capacity, ByteAt
  <2> QED
    BY <2>1, <2>2, <2>3 DEF Abstract!Lseek, Abstract!Moved, Abstract!Closed, Closed
<1> QED
  BY <1>1, <1>2, <1>3
-----------------------------------------------------------------------------
LEMMA InitRefines == Init => Abstract!Init
<1> SUFFICES ASSUME Init PROVE Abstract!Init
  OBVIOUS
<1>1. FileInv /\ Live /\ ~lost
  BY InitFile DEF Init, Live
<1>2. Data \in Seq(Bytes) /\ Len(Data) = size
  BY <1>1, DataNow, ContentIs DEF FileInv
<1> QED
  BY <1>2 DEF Init, Abstract!Init, Abstract!Closed, Closed, Data

LEMMA NextRefines ==
  ASSUME FileInv, FileInv', [Next]_vars
  PROVE  [Abstract!Next]_(Abstract!vars)
<1>1. CASE UNCHANGED vars
  BY <1>1 DEF vars, Abstract!vars, Live, OpenFds, NodeRead, Lesser, Capacity, ByteAt
<1>2. ASSUME NEW f \in Fds, NEW mode \in Modes, NEW append \in BOOLEAN, Create(f, mode, append)
      PROVE  Abstract!Next
  <2>1. TRUE \in BOOLEAN
    OBVIOUS
  <2> QED
    BY <1>2, <2>1, CreateRefines DEF Abstract!Next
<1>3. CASE Replace
  BY <1>3 DEF Replace, Abstract!Next, Abstract!Replace, Abstract!OpenFds, OpenFds, Abstract!Closed, Closed
<1>4. ASSUME lost, lost' PROVE Abstract!Next
  BY <1>4 DEF Abstract!Next, Abstract!Ruined
<1>5. ASSUME NEW f \in Fds, NEW mode \in Modes, NEW append \in BOOLEAN, NEW trunc \in BOOLEAN,
             Open(f, mode, append, trunc)
      PROVE  Abstract!Next
  <2>1. lost' = lost
    BY <1>5 DEF Open
  <2>3. CASE ~lost
    <3>1. Kept
      BY <2>1, <2>3 DEF Kept
    <3>2. Abstract!Open(f, mode, append, trunc)
      BY <1>5, <3>1, OpenRefines
    <3> QED
      BY <3>2 DEF Abstract!Next
  <2> QED
    BY <1>4, <2>1, <2>3
<1>6. ASSUME NEW f \in Fds, NEW n \in 1..MaxBuf, Read(f, n)
      PROVE  Abstract!Next
  <2>1. lost' = lost /\ n \in 0..Top
    BY <1>6 DEF Read
  <2>3. CASE ~lost
    <3>1. Kept
      BY <2>1, <2>3 DEF Kept
    <3>2. Abstract!Read(f, n)
      BY <1>6, <2>1, <3>1, ReadRefines
    <3> QED
      BY <3>2 DEF Abstract!Next
  <2> QED
    BY <1>4, <2>1, <2>3
<1>7. ASSUME NEW f \in Fds, NEW buf \in Buffers, Write(f, buf)
      PROVE  Abstract!Next
  <2>1. lost' = lost
    BY <1>7 DEF Write
  <2>2. buf \in UNION {[1..n -> Bytes] : n \in 1..Top}
    BY DEF Buffers
  <2>3. CASE ~lost
    <3>1. Kept
      BY <2>1, <2>3 DEF Kept
    <3>2. Abstract!Write(f, buf) \/ Abstract!WriteFails(f)
      BY <1>7, <2>2, <3>1, WriteRefines
    <3> QED
      BY <2>2, <3>2 DEF Abstract!Next
  <2> QED
    BY <1>4, <2>1, <2>3
<1>8. ASSUME NEW n \in 0..Top, Truncate(n)
      PROVE  Abstract!Next
  <2>1. lost' = lost
    BY <1>8 DEF Truncate
  <2>3. CASE ~lost
    <3>1. Kept
      BY <2>1, <2>3 DEF Kept
    <3>2. Abstract!Truncate(n)
      BY <1>8, <3>1, TruncateRefines
    <3> QED
      BY <3>2 DEF Abstract!Next
  <2> QED
    BY <1>4, <2>1, <2>3
<1>9. CASE Unlink \/ \E f \in Fds : Close(f) \/ \E p \in 0..Top : Lseek(f, p)
  <2>1. lost' = lost
    BY <1>9 DEF Unlink, Close, Lseek
  <2>2. CASE ~lost
    <3>1. Kept
      BY <2>1, <2>2 DEF Kept
    <3>2. Abstract!Unlink \/ \E f \in Fds : Abstract!Close(f) \/ \E p \in 0..Top : Abstract!Lseek(f, p)
      BY <1>9, <3>1, OthersRefine
    <3> QED
      BY <3>2 DEF Abstract!Next
  <2> QED
    BY <1>4, <2>1, <2>2
<1>10. ASSUME TruncatingOpenFails \/ CreatingOpenFails PROVE Abstract!Next
  BY <1>4, <1>10, OpenFailsRefines DEF Abstract!Next
<1> QED
  BY <1>1, <1>2, <1>3, <1>5, <1>6, <1>7, <1>8, <1>9, <1>10 DEF Next

(***************************************************************************)
(* For all sizes of segments, chunks and buffers, any number of            *)
(* descriptors and any failures of malloc, the calls on a file are those   *)
(* of one byte sequence that its descriptors share.                        *)
(***************************************************************************)
THEOREM FileIsShared == Spec => BytesShared
<1>1. FileInv /\ FileInv' /\ [Next]_vars => [Abstract!Next]_(Abstract!vars)
  BY NextRefines
<1> QED
  BY <1>1, AlwaysFile, InitRefines, PTL DEF Spec, BytesShared, Abstract!Spec
=============================================================================
