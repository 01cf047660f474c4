---------------------------- MODULE KeyInputProof ---------------------------
(***************************************************************************)
(* The ring of peripheral.c is the queue that KeyQueue describes, for a    *)
(* ring of any size and any keyboard, whatever the user and the guest do.  *)
(* Then what KeyStrokesProof needs: lemmas about places of a sequence, and *)
(* the types of the guest's state.                                         *)
(***************************************************************************)
EXTENDS KeyInput, SequenceTheorems, FiniteSetTheorems, TLAPS

AnyEvent == KeyEvent \cup {NoEvent}

\* The invariant: the next free slot is the one behind the last pending event.
RingShape ==
    /\ kbdQueue \in [Slot -> AnyEvent]
    /\ kbdHead \in Slot /\ kbdTail \in Slot
    /\ kbdCount \in 0 .. KBD_QUEUE_CAP
    /\ kbdTail = SlotFrom(kbdHead, kbdCount + 1)

\* What the rest of the system does to the ring.
RingNext == (\E ev \in KeyEvent : Push(ev)) \/ (\E ev \in AnyEvent : Pop(ev))

-----------------------------------------------------------------------------
(***************************************************************************)
(* Slots, and the sequence of the events in them.                          *)
(***************************************************************************)

\* An index moves to the next slot, and from the last one to the first.
LEMMA Advances == \A i \in Slot : Advance(i) = SlotFrom(i, 2)
  BY CapAssumption DEF Slot, Advance, SlotFrom

\* A slot found from another one is a slot.
LEMMA SlotsAreSlots ==
    \A h \in Slot, i \in 1 .. KBD_QUEUE_CAP : SlotFrom(h, i) \in Slot
  BY CapAssumption DEF Slot, SlotFrom

\* A view is a sequence of the events in its slots.
LEMMA ViewSeq ==
    ASSUME NEW q \in [Slot -> AnyEvent], NEW h \in Slot, NEW n \in 0 .. KBD_QUEUE_CAP
    PROVE  /\ View(q, h, n) \in Seq(AnyEvent)
           /\ Len(View(q, h, n)) = n
           /\ \A i \in 1 .. n : View(q, h, n)[i] = q[SlotFrom(h, i)]
  <1>1. n \in Nat
    BY CapAssumption
  <1>2. \A i \in 1 .. n : SlotFrom(h, i) \in Slot
    BY SlotsAreSlots, CapAssumption
  <1>3. View(q, h, n) \in [1 .. n -> AnyEvent]
    BY <1>2 DEF View
  <1>4. QED
    BY <1>1, <1>3 DEF View

\* A new event behind the last one is appended.
LEMMA ViewPut ==
    ASSUME NEW q \in [Slot -> AnyEvent], NEW h \in Slot, NEW n \in 0 .. KBD_QUEUE_CAP - 1,
           NEW ev \in AnyEvent
    PROVE  View([q EXCEPT ![SlotFrom(h, n + 1)] = ev], h, n + 1) = Append(View(q, h, n), ev)
  <1> DEFINE p == [q EXCEPT ![SlotFrom(h, n + 1)] = ev]
             s == View(p, h, n + 1)
             t == Append(View(q, h, n), ev)
  <1>1. SlotFrom(h, n + 1) \in Slot /\ n + 1 \in 0 .. KBD_QUEUE_CAP
    BY SlotsAreSlots, CapAssumption
  <1>2. p \in [Slot -> AnyEvent]
    BY <1>1
  <1>3. s \in Seq(AnyEvent) /\ Len(s) = n + 1
        /\ \A i \in 1 .. n + 1 : s[i] = p[SlotFrom(h, i)]
    <2> HIDE DEF p
    <2> QED BY <1>1, <1>2, ViewSeq
  <1>4. View(q, h, n) \in Seq(AnyEvent) /\ Len(View(q, h, n)) = n
        /\ \A i \in 1 .. n : View(q, h, n)[i] = q[SlotFrom(h, i)]
    BY ViewSeq, CapAssumption
  <1>5. t \in Seq(AnyEvent) /\ Len(t) = n + 1 /\ t[n + 1] = ev
        /\ \A i \in 1 .. n : t[i] = View(q, h, n)[i]
    BY <1>4, AppendProperties
  <1>6. \A i \in 1 .. n : SlotFrom(h, i) \in Slot /\ SlotFrom(h, i) # SlotFrom(h, n + 1)
    BY CapAssumption DEF Slot, SlotFrom
  <1>7. \A x \in Slot : p[x] = IF x = SlotFrom(h, n + 1) THEN ev ELSE q[x]
    BY <1>1
  <1> HIDE DEF p, s, t
  <1>8. s[n + 1] = ev
    BY <1>1, <1>3, <1>7
  <1>9. ASSUME NEW i \in 1 .. n PROVE s[i] = t[i]
    BY <1>3, <1>4, <1>5, <1>6, <1>7
  <1>10. \A i \in 1 .. n + 1 : s[i] = t[i]
    BY <1>5, <1>8, <1>9
  <1>11. s = t
    BY <1>3, <1>5, <1>10, SeqEqual
  <1>12. QED
    BY <1>11 DEF p, s, t

\* Past the oldest event the rest is left.
LEMMA ViewTake ==
    ASSUME NEW q \in [Slot -> AnyEvent], NEW h \in Slot, NEW n \in 1 .. KBD_QUEUE_CAP
    PROVE  /\ View(q, SlotFrom(h, 2), n - 1) = Tail(View(q, h, n))
           /\ View(q, h, n) # <<>>
  <1> DEFINE v == View(q, h, n)
             s == View(q, SlotFrom(h, 2), n - 1)
  <1>1. v \in Seq(AnyEvent) /\ Len(v) = n /\ \A i \in 1 .. n : v[i] = q[SlotFrom(h, i)]
    BY ViewSeq, CapAssumption
  <1>2. SlotFrom(h, 2) \in Slot
    BY CapAssumption DEF Slot, SlotFrom
  <1>3. s \in Seq(AnyEvent) /\ Len(s) = n - 1
        /\ \A i \in 1 .. n - 1 : s[i] = q[SlotFrom(SlotFrom(h, 2), i)]
    BY <1>2, ViewSeq, CapAssumption
  <1>4. v # <<>>
    BY <1>1, EmptySeq
  <1>5. Tail(v) \in Seq(AnyEvent) /\ Len(Tail(v)) = n - 1
        /\ \A i \in 1 .. n - 1 : Tail(v)[i] = v[i + 1]
    BY <1>1, <1>4, HeadTailProperties
  <1>6. \A i \in 1 .. n - 1 : SlotFrom(SlotFrom(h, 2), i) = SlotFrom(h, i + 1)
    BY CapAssumption DEF Slot, SlotFrom
  <1>7. \A i \in 1 .. n - 1 : s[i] = Tail(v)[i]
    BY <1>1, <1>3, <1>5, <1>6
  <1>8. QED
    <2> HIDE DEF s, v
    <2>1. s = Tail(v) BY <1>3, <1>5, <1>7, SeqEqual
    <2>2. QED BY <2>1, <1>4 DEF s, v

-----------------------------------------------------------------------------
(***************************************************************************)
(* The invariant.                                                          *)
(***************************************************************************)

\* Whatever moves touches the ring by a Push or a Pop, or not at all.
LEMMA RingSteps == Next => RingNext \/ UNCHANGED ring
  <1>1. UserNext => RingNext
    BY DEF UserNext, Strike, KeyEvent, RingNext
  <1>2. DriverNext => RingNext \/ UNCHANGED ring
    BY DEF DriverNext, CallGetCode, CallClear, CallDriver, GetCode, Clear, RingNext, AnyEvent
  <1>3. Sdl1Next => RingNext \/ UNCHANGED ring
    BY DEF Sdl1Next, Sdl1Key, Sdl1Unknown, Sdl1CallPump, Sdl1CallPoll, Sdl1Pumped,
           Sdl1Polled, Sdl1Push, Sdl1Get, Sdl1PeekSpins, RingNext, AnyEvent
  <1>4. Sdl2Next => RingNext \/ UNCHANGED ring
    BY DEF Sdl2Next, Sdl2Key, Sdl2Unknown, Sdl2CallPump, Sdl2CallPoll, Sdl2Pumped,
           Sdl2Polled, Sdl2Push, Sdl2Get, RingNext, AnyEvent
  <1>5. QED
    BY <1>1, <1>2, <1>3, <1>4 DEF Next, GuestNext

\* The ring starts in shape.
LEMMA ShapeInit == RingInit => RingShape
  BY CapAssumption DEF RingInit, RingShape, SlotFrom, Slot, AnyEvent

\* A push into a ring that is not full.
LEMMA PushRoom ==
    ASSUME RingShape, NEW ev \in KeyEvent, Push(ev), kbdCount # KBD_QUEUE_CAP
    PROVE  RingShape' /\ Queue!Put(ev)
  <1>1. kbdQueue \in [Slot -> AnyEvent] /\ kbdHead \in Slot /\ ev \in AnyEvent
        /\ kbdTail \in Slot /\ kbdCount \in 0 .. KBD_QUEUE_CAP - 1
        /\ kbdTail = SlotFrom(kbdHead, kbdCount + 1)
    BY CapAssumption DEF RingShape, AnyEvent
  <1>2. kbdQueue' = [kbdQueue EXCEPT ![SlotFrom(kbdHead, kbdCount + 1)] = ev]
        /\ kbdHead' = kbdHead /\ kbdCount' = kbdCount + 1
        /\ kbdTail' = SlotFrom(kbdTail, 2) /\ kbdOverflowed' = kbdOverflowed
    BY <1>1, Advances DEF Push
  <1>3. RingShape'
    <2>1. kbdQueue' \in [Slot -> AnyEvent] /\ kbdHead' \in Slot
          /\ kbdCount' \in 0 .. KBD_QUEUE_CAP
      BY <1>1, <1>2, CapAssumption
    <2>2. SlotFrom(kbdTail, 2) \in Slot
          /\ SlotFrom(kbdTail, 2) = SlotFrom(kbdHead, kbdCount + 2)
      BY <1>1, CapAssumption DEF Slot, SlotFrom
    <2>3. kbdTail' = SlotFrom(kbdHead', kbdCount' + 1)
      BY <1>1, <1>2, <2>2, CapAssumption DEF SlotFrom
    <2>4. QED
      BY <1>2, <2>1, <2>2, <2>3 DEF RingShape
  <1>4. Pending' = Append(Pending, ev)
    BY <1>1, <1>2, ViewPut DEF Pending
  <1>5. Len(Pending) # KBD_QUEUE_CAP
    BY <1>1, ViewSeq, CapAssumption DEF Pending
  <1>6. QED
    BY <1>2, <1>3, <1>4, <1>5 DEF Queue!Put, Queue!Full

\* A push into a full ring gives up the oldest event.
LEMMA PushFull ==
    ASSUME RingShape, NEW ev \in KeyEvent, Push(ev), kbdCount = KBD_QUEUE_CAP
    PROVE  RingShape' /\ Queue!Put(ev)
  <1> DEFINE rest == View(kbdQueue, SlotFrom(kbdHead, 2), KBD_QUEUE_CAP - 1)
  <1>1. kbdQueue \in [Slot -> AnyEvent] /\ kbdHead \in Slot /\ ev \in AnyEvent
        /\ KBD_QUEUE_CAP \in 1 .. KBD_QUEUE_CAP /\ KBD_QUEUE_CAP - 1 \in 0 .. KBD_QUEUE_CAP - 1
    BY CapAssumption DEF RingShape, AnyEvent
  <1>2. kbdTail = kbdHead /\ kbdHead = SlotFrom(SlotFrom(kbdHead, 2), KBD_QUEUE_CAP)
        /\ SlotFrom(kbdHead, 2) \in Slot
        /\ SlotFrom(kbdHead, 2) = SlotFrom(SlotFrom(kbdHead, 2), KBD_QUEUE_CAP + 1)
    BY CapAssumption DEF RingShape, Slot, SlotFrom
  <1>3. kbdQueue' = [kbdQueue EXCEPT ![kbdHead] = ev]
        /\ kbdHead' = SlotFrom(kbdHead, 2) /\ kbdTail' = SlotFrom(kbdHead, 2)
        /\ kbdCount' = KBD_QUEUE_CAP /\ kbdOverflowed' = kbdOverflowed + 1
    BY <1>1, <1>2, Advances DEF Push
  <1>4. RingShape'
    BY <1>1, <1>2, <1>3, CapAssumption DEF RingShape
  <1>5. Pending' = Append(rest, ev)
    <2>1. (KBD_QUEUE_CAP - 1) + 1 = KBD_QUEUE_CAP
      BY CapAssumption
    <2>2. View([kbdQueue EXCEPT ![SlotFrom(SlotFrom(kbdHead, 2), KBD_QUEUE_CAP)] = ev],
               SlotFrom(kbdHead, 2), KBD_QUEUE_CAP) = Append(rest, ev)
      BY <1>1, <1>2, <2>1, ViewPut, ZenonT(40)
    <2>3. QED
      BY <1>2, <1>3, <2>2 DEF Pending
  <1>6. rest = Tail(Pending) /\ Len(Pending) = KBD_QUEUE_CAP
    BY <1>1, ViewTake, ViewSeq, CapAssumption DEF Pending
  <1>7. QED
    BY <1>3, <1>4, <1>5, <1>6 DEF Queue!Put, Queue!Full

\* A read takes the oldest event, or finds nothing and changes nothing.
LEMMA PopTakes ==
    ASSUME RingShape, NEW ev \in AnyEvent, Pop(ev)
    PROVE  RingShape' /\ (Queue!Take \/ UNCHANGED <<Pending, kbdOverflowed>>)
  <1>1. CASE kbdCount = 0
    BY <1>1 DEF Pop, ring, RingShape, Pending
  <1>2. CASE kbdCount # 0
    <2>1. kbdQueue \in [Slot -> AnyEvent] /\ kbdHead \in Slot /\ kbdTail \in Slot
          /\ kbdCount \in 1 .. KBD_QUEUE_CAP /\ kbdTail = SlotFrom(kbdHead, kbdCount + 1)
      BY <1>2, CapAssumption DEF RingShape
    <2>2. kbdQueue' = kbdQueue /\ kbdHead' = SlotFrom(kbdHead, 2)
          /\ kbdCount' = kbdCount - 1 /\ kbdTail' = kbdTail
          /\ kbdOverflowed' = kbdOverflowed
      BY <1>2, <2>1, Advances DEF Pop
    <2>3. SlotFrom(kbdHead, 2) \in Slot
          /\ SlotFrom(kbdHead, kbdCount + 1) = SlotFrom(SlotFrom(kbdHead, 2), kbdCount)
          /\ kbdCount - 1 \in 0 .. KBD_QUEUE_CAP /\ (kbdCount - 1) + 1 = kbdCount
      BY <2>1, CapAssumption DEF Slot, SlotFrom
    <2>4. RingShape'
      BY <2>1, <2>2, <2>3 DEF RingShape
    <2>5. Pending' = Tail(Pending) /\ Pending # <<>>
      BY <2>1, <2>2, ViewTake DEF Pending
    <2>6. QED
      BY <2>2, <2>4, <2>5 DEF Queue!Take
  <1>3. QED
    BY <1>1, <1>2

\* A step of the system keeps the ring in shape and is a step of the queue.
LEMMA RingStep ==
    ASSUME RingShape, [Next]_vars
    PROVE  RingShape' /\ [Queue!Next]_<<Pending, kbdOverflowed>>
  <1>1. CASE RingNext
    <2>1. CASE \E ev \in KeyEvent : Push(ev)
      BY <2>1, PushRoom, PushFull DEF Queue!Next
    <2>2. CASE \E ev \in AnyEvent : Pop(ev)
      BY <2>2, PopTakes DEF Queue!Next
    <2>3. QED
      BY <1>1, <2>1, <2>2 DEF RingNext
  <1>2. CASE UNCHANGED ring
    BY <1>2 DEF ring, RingShape, Pending
  <1>3. QED
    BY <1>1, <1>2, RingSteps DEF vars, ring

-----------------------------------------------------------------------------
\* The ring of peripheral.c is a bounded queue that gives up its oldest event,
\* and g_kbd_overflowed counts what it gave up.
THEOREM RingImplementsQueue == Spec => RingIsQueue
  <1>1. RingInit => RingShape /\ Queue!Init
    <2>1. ASSUME RingInit PROVE Pending = <<>>
      <3>1. RingShape
        BY <2>1, ShapeInit
      <3>2. Pending \in Seq(AnyEvent) /\ Len(Pending) = 0
        BY <2>1, <3>1, ViewSeq DEF RingInit, RingShape, Pending
      <3>3. QED
        BY <3>2, EmptySeq
    <2>2. QED
      BY <2>1, ShapeInit DEF RingInit, Queue!Init
  <1>2. RingShape /\ [Next]_vars => RingShape' /\ [Queue!Next]_<<Pending, kbdOverflowed>>
    BY RingStep
  <1>3. QED
    BY <1>1, <1>2, PTL DEF Spec, Init, RingIsQueue, Queue!Spec

-----------------------------------------------------------------------------
(***************************************************************************)
(* Places.  Nth enumerates a finite set of places in order, and nothing    *)
(* else does; what two sequences hold at two sets of places is the same    *)
(* when an order-preserving map carries one to the other.                  *)
(***************************************************************************)

\* How many of the places P come up to p.
Rank(P, p) == Cardinality({q \in P : q <= p})

\* Ranks grow with the places.
LEMMA RankGrows ==
    ASSUME NEW P \in SUBSET Int, IsFiniteSet(P), NEW p \in Int, NEW q \in P, p < q
    PROVE  /\ Rank(P, p) \in Nat /\ Rank(P, q) \in Nat
           /\ Rank(P, p) < Rank(P, q)
  <1> DEFINE A == {x \in P : x <= p}
             B == {x \in P : x <= q}
  <1>1. IsFiniteSet(B) /\ A \in SUBSET B
    <2>1. B \in SUBSET P OBVIOUS
    <2>2. IsFiniteSet(B) BY <2>1, FS_Subset
    <2>3. ASSUME NEW x \in A PROVE x \in B
      <3>1. x \in Int /\ q \in Int /\ x <= p OBVIOUS
      <3>2. QED BY <3>1
    <2>4. QED BY <2>2, <2>3
  <1>2. A # B /\ IsFiniteSet(A)
    <2>1. q \in B /\ q \notin A OBVIOUS
    <2>2. IsFiniteSet(A) BY <1>1, FS_Subset
    <2>3. QED BY <2>1, <2>2
  <1> HIDE DEF A, B
  <1>3. Cardinality(A) <= Cardinality(B) /\ Cardinality(A) # Cardinality(B)
    BY <1>1, <1>2, FS_Subset
  <1>4. Cardinality(A) \in Nat /\ Cardinality(B) \in Nat
    BY <1>1, <1>2, FS_CardinalityType
  <1>5. QED BY <1>3, <1>4 DEF Rank, A, B

\* A finite set of places is enumerated by Nth.
LEMMA Enumerated ==
    ASSUME NEW P \in SUBSET Int, IsFiniteSet(P)
    PROVE  /\ Cardinality(P) \in Nat
           /\ \A i \in 1 .. Cardinality(P) : Nth(P, i) \in P /\ Rank(P, Nth(P, i)) = i
           /\ \A p \in P : Rank(P, p) \in 1 .. Cardinality(P) /\ Nth(P, Rank(P, p)) = p
  <1> DEFINE c == Cardinality(P)
             f == [p \in P |-> Rank(P, p)]
  <1>1. c \in Nat
    BY FS_CardinalityType
  <1>2. ASSUME NEW p \in P PROVE Rank(P, p) \in 1 .. c
    <2> DEFINE B == {q \in P : q <= p}
    <2>1. B \in SUBSET P /\ p \in B OBVIOUS
    <2> HIDE DEF B
    <2>2. IsFiniteSet(B) /\ Cardinality(B) <= c
      BY <2>1, FS_Subset
    <2>3. Cardinality(B) \in Nat /\ Cardinality(B) # 0
      BY <2>1, <2>2, FS_CardinalityType, FS_EmptySet
    <2>4. QED BY <1>1, <2>2, <2>3 DEF Rank, B
  <1>3. ASSUME NEW p \in P, NEW q \in P, Rank(P, p) = Rank(P, q) PROVE p = q
    <2>1. ~(p < q) /\ ~(q < p)
      BY <1>3, RankGrows
    <2>2. p \in Int /\ q \in Int OBVIOUS
    <2>3. QED BY <2>1, <2>2
  <1>4. f \in Injection(P, 1 .. c)
    <2>1. f \in [P -> 1 .. c] BY <1>2
    <2>2. \A p, q \in P : f[p] = f[q] => p = q BY <1>3
    <2> HIDE DEF f, c
    <2>3. QED BY <2>1, <2>2 DEF Injection, IsInjective
  <1>5. IsFiniteSet(1 .. c) /\ Cardinality(1 .. c) = c
    BY <1>1, FS_Interval
  <1>6. f \in Surjection(P, 1 .. c)
    <2> HIDE DEF f, c
    <2>1. Cardinality(P) = Cardinality(1 .. c) BY <1>5 DEF c
    <2>2. QED BY <1>4, <1>5, <2>1, FS_Injection
  <1>7. \A i \in 1 .. c : \E p \in P : Rank(P, p) = i
    <2>1. \A i \in 1 .. c : \E p \in P : f[p] = i
      <3> HIDE DEF f, c
      <3>1. QED BY <1>6 DEF Surjection
    <2>2. QED BY <2>1
  <1>8. \A i \in 1 .. c : Nth(P, i) \in P /\ Rank(P, Nth(P, i)) = i
    BY <1>7 DEF Nth, Rank
  <1>9. \A p \in P : Nth(P, Rank(P, p)) = p
    BY <1>2, <1>3, <1>8
  <1>10. QED BY <1>1, <1>2, <1>8, <1>9

\* The enumeration is in order.
LEMMA NthGrows ==
    ASSUME NEW P \in SUBSET Int, IsFiniteSet(P),
           NEW i \in 1 .. Cardinality(P), NEW j \in 1 .. Cardinality(P), i < j
    PROVE  Nth(P, i) < Nth(P, j)
  <1>1. Nth(P, i) \in P /\ Nth(P, j) \in P /\ Rank(P, Nth(P, i)) = i /\ Rank(P, Nth(P, j)) = j
        /\ Cardinality(P) \in Nat
    BY Enumerated
  <1>2. Nth(P, i) \in Int /\ Nth(P, j) \in Int BY <1>1
  <1>3. ~(Nth(P, j) < Nth(P, i))
    <2>1. Nth(P, j) < Nth(P, i) => Rank(P, Nth(P, j)) < Rank(P, Nth(P, i))
      BY <1>1, <1>2, RankGrows
    <2>2. QED BY <1>1, <2>1
  <1>4. Nth(P, i) # Nth(P, j) BY <1>1
  <1>5. QED BY <1>2, <1>3, <1>4

\* There is no other way to enumerate a set of places in order.
LEMMA OneEnumeration ==
    ASSUME NEW P \in SUBSET Int, NEW n \in Nat, NEW f \in [1 .. n -> P],
           \A p \in P : \E i \in 1 .. n : f[i] = p,
           \A i, j \in 1 .. n : i < j => f[i] < f[j]
    PROVE  /\ IsFiniteSet(P) /\ Cardinality(P) = n
           /\ \A i \in 1 .. n : Nth(P, i) = f[i]
  <1>1. ASSUME NEW i \in 1 .. n, NEW j \in 1 .. n
        PROVE  (f[j] <= f[i] <=> j <= i) /\ (f[i] = f[j] => i = j)
    <2>1. f[i] \in Int /\ f[j] \in Int OBVIOUS
    <2>2. i < j \/ j < i \/ i = j OBVIOUS
    <2>3. (i < j => f[i] < f[j]) /\ (j < i => f[j] < f[i]) OBVIOUS
    <2>4. QED BY <2>1, <2>2, <2>3
  <1>2. ASSUME NEW m \in 0 .. n, NEW Q \in SUBSET P,
               \A p \in Q : \E j \in 1 .. m : f[j] = p, \A j \in 1 .. m : f[j] \in Q
        PROVE  IsFiniteSet(Q) /\ Cardinality(Q) = m
    <2> DEFINE g == [j \in 1 .. m |-> f[j]]
    <2>1. g \in [1 .. m -> Q] BY <1>2
    <2>2. \A i, j \in 1 .. m : g[i] = g[j] => i = j BY <1>1
    <2>3. \A p \in Q : \E j \in 1 .. m : g[j] = p BY <1>2
    <2> HIDE DEF g
    <2>4. g \in Injection(1 .. m, Q) BY <2>1, <2>2 DEF Injection, IsInjective
    <2>5. g \in Surjection(1 .. m, Q) BY <2>1, <2>3 DEF Surjection
    <2>6. g \in Bijection(1 .. m, Q) BY <2>4, <2>5 DEF Bijection
    <2>7. ExistsBijection(1 .. m, Q) BY <2>6 DEF ExistsBijection
    <2>8. m \in Nat /\ IsFiniteSet(1 .. m) /\ Cardinality(1 .. m) = m BY FS_Interval
    <2>9. QED BY <2>7, <2>8, FS_Bijection
  <1>3. IsFiniteSet(P) /\ Cardinality(P) = n
    <2>1. n \in 0 .. n OBVIOUS
    <2>2. QED BY <1>2, <2>1
  <1>4. ASSUME NEW i \in 1 .. n PROVE Nth(P, i) = f[i]
    <2> DEFINE Q == {q \in P : q <= f[i]}
    <2>1. Q \in SUBSET P /\ i \in 0 .. n OBVIOUS
    <2>2. \A p \in Q : \E j \in 1 .. i : f[j] = p BY <1>1
    <2>3. \A j \in 1 .. i : f[j] \in Q BY <1>1
    <2> HIDE DEF Q
    <2>4. Cardinality(Q) = i BY <1>2, <2>1, <2>2, <2>3
    <2>5. Rank(P, f[i]) = i BY <2>4 DEF Rank, Q
    <2>6. f[i] \in P OBVIOUS
    <2>7. QED BY <1>3, <2>5, <2>6, Enumerated
  <1>5. QED BY <1>3, <1>4

\* A set of places of a finite sequence is finite.
LEMMA PlacesFinite ==
    ASSUME NEW n \in Nat, NEW P \in SUBSET (1 .. n)
    PROVE  /\ P \in SUBSET Int /\ IsFiniteSet(P)
           /\ Cardinality(P) \in Nat /\ Cardinality(P) <= n
  <1>1. IsFiniteSet(1 .. n) /\ Cardinality(1 .. n) = n
    BY FS_Interval
  <1>2. IsFiniteSet(P) /\ Cardinality(P) <= Cardinality(1 .. n)
    BY <1>1, FS_Subset
  <1>3. Cardinality(P) \in Nat
    BY <1>2, FS_CardinalityType
  <1>4. P \in SUBSET Int
    OBVIOUS
  <1>5. QED BY <1>1, <1>2, <1>3, <1>4

\* What is picked from a sequence is a sequence.
LEMMA PickedSeq ==
    ASSUME NEW S, NEW s \in Seq(S), NEW P \in SUBSET (1 .. Len(s))
    PROVE  /\ Picked(s, P) \in Seq(S) /\ Len(Picked(s, P)) = Cardinality(P)
           /\ Cardinality(P) \in Nat /\ Cardinality(P) <= Len(s)
           /\ \A i \in 1 .. Cardinality(P) : Nth(P, i) \in P /\ Picked(s, P)[i] = s[Nth(P, i)]
  <1>1. Len(s) \in Nat
    OBVIOUS
  <1>2. P \in SUBSET Int /\ IsFiniteSet(P) /\ Cardinality(P) \in Nat /\ Cardinality(P) <= Len(s)
    BY <1>1, PlacesFinite
  <1>3. \A i \in 1 .. Cardinality(P) : Nth(P, i) \in P
    BY <1>2, Enumerated
  <1>4. \A p \in P : s[p] \in S
    OBVIOUS
  <1>5. Picked(s, P) \in [1 .. Cardinality(P) -> S]
    BY <1>3, <1>4 DEF Picked
  <1>6. QED BY <1>2, <1>3, <1>5 DEF Picked

\* th carries the elements of s at the places P to the places Q of t, in order.
Carries(th, s, P, t, Q) ==
    /\ th \in [P -> Q]
    /\ \A q \in Q : \E p \in P : th[p] = q
    /\ \A p, q \in P : p < q => th[p] < th[q]
    /\ \A p \in P : t[th[p]] = s[p]

\* The same elements at other places, in the same order.
LEMMA Renumbered ==
    ASSUME NEW P \in SUBSET Int, IsFiniteSet(P), NEW Q \in SUBSET Int,
           NEW th, NEW s, NEW t, Carries(th, s, P, t, Q)
    PROVE  Picked(t, Q) = Picked(s, P)
  <1> DEFINE n == Cardinality(P)
             f == [i \in 1 .. n |-> th[Nth(P, i)]]
  <1>1. n \in Nat
        /\ \A i \in 1 .. n : Nth(P, i) \in P
        /\ \A p \in P : Rank(P, p) \in 1 .. n /\ Nth(P, Rank(P, p)) = p
    BY Enumerated
  <1>2. f \in [1 .. n -> Q]
    BY <1>1 DEF Carries
  <1>3. \A q \in Q : \E i \in 1 .. n : f[i] = q
    <2> TAKE q \in Q
    <2>1. PICK p \in P : th[p] = q
      BY DEF Carries
    <2>2. Rank(P, p) \in 1 .. n /\ Nth(P, Rank(P, p)) = p
      <3> HIDE DEF f
      <3>1. \A x \in P : Rank(P, x) \in 1 .. n /\ Nth(P, Rank(P, x)) = x
        BY Enumerated
      <3>2. QED BY <2>1, <3>1
    <2>3. f[Rank(P, p)] = q
      BY <2>1, <2>2
    <2>4. QED BY <2>2, <2>3
  <1>4. ASSUME NEW i \in 1 .. n, NEW j \in 1 .. n, i < j PROVE f[i] < f[j]
    <2>1. Nth(P, i) < Nth(P, j)
      BY <1>4, NthGrows
    <2>2. QED BY <1>1, <2>1 DEF Carries
  <1>5. \A i \in 1 .. n : t[f[i]] = s[Nth(P, i)]
    BY <1>1 DEF Carries
  <1> HIDE DEF f
  <1>6. Cardinality(Q) = n /\ \A i \in 1 .. n : Nth(Q, i) = f[i]
    <2> HIDE DEF n
    <2>1. \A i, j \in 1 .. n : i < j => f[i] < f[j]
      BY <1>4
    <2>2. QED BY <1>1, <1>2, <1>3, <2>1, OneEnumeration
  <1>7. QED BY <1>5, <1>6 DEF Picked

\* The same elements at the same places.
LEMMA PickedSame ==
    ASSUME NEW P \in SUBSET Int, IsFiniteSet(P), NEW s, NEW t, \A p \in P : t[p] = s[p]
    PROVE  Picked(t, P) = Picked(s, P)
  <1>1. \A i \in 1 .. Cardinality(P) : Nth(P, i) \in P
    BY Enumerated
  <1>2. QED BY <1>1 DEF Picked

\* All of a sequence.
LEMMA PickedAll ==
    ASSUME NEW S, NEW s \in Seq(S)
    PROVE  Picked(s, 1 .. Len(s)) = s
  <1> DEFINE n == Len(s)
             P == 1 .. n
             f == [i \in 1 .. n |-> i]
  <1>1. n \in Nat /\ P \in SUBSET Int
    OBVIOUS
  <1>2. /\ f \in [1 .. n -> P] /\ (\A i \in 1 .. n : f[i] = i)
        /\ \A p \in P : \E i \in 1 .. n : f[i] = p
    OBVIOUS
  <1> HIDE DEF f, P, n
  <1>3. \A i, j \in 1 .. n : i < j => f[i] < f[j]
    BY <1>2
  <1>4. Cardinality(P) = n /\ \A i \in 1 .. n : Nth(P, i) = f[i]
    BY <1>1, <1>2, <1>3, OneEnumeration, ZenonT(40)
  <1>5. Picked(s, P) = [i \in 1 .. n |-> s[i]]
    BY <1>2, <1>4 DEF Picked
  <1>6. QED BY <1>5 DEF P, n

\* One more element, behind the others.
LEMMA PickedNext ==
    ASSUME NEW S, NEW s \in Seq(S), NEW n \in Nat, n + 1 <= Len(s), NEW P \in SUBSET (1 .. n)
    PROVE  Picked(s, P \cup {n + 1}) = Append(Picked(s, P), s[n + 1])
  <1> DEFINE c == Cardinality(P)
             Q == P \cup {n + 1}
             f == [i \in 1 .. c + 1 |-> IF i = c + 1 THEN n + 1 ELSE Nth(P, i)]
  <1>1. Len(s) \in Nat /\ n \in Nat /\ Len(s) \in Nat
    OBVIOUS
  <1>2. P \in SUBSET Int /\ IsFiniteSet(P) /\ c \in Nat
    BY <1>1, PlacesFinite
  <1>3. (\A i \in 1 .. c : Nth(P, i) \in P)
        /\ \A p \in P : Rank(P, p) \in 1 .. c /\ Nth(P, Rank(P, p)) = p
    BY <1>2, Enumerated
  <1>4. Q \in SUBSET Int /\ f \in [1 .. c + 1 -> Q]
    BY <1>1, <1>2, <1>3
  <1>5. \A q \in Q : \E i \in 1 .. c + 1 : f[i] = q
    <2> TAKE q \in Q
    <2>1. CASE q = n + 1
      <3>1. c + 1 \in 1 .. c + 1 /\ f[c + 1] = n + 1 BY <1>2
      <3>2. QED BY <2>1, <3>1
    <2>2. CASE q \in P
      <3>1. Rank(P, q) \in 1 .. c + 1 /\ Rank(P, q) # c + 1 BY <1>2, <1>3, <2>2
      <3>2. f[Rank(P, q)] = q BY <1>3, <2>2, <3>1
      <3>3. QED BY <3>1, <3>2
    <2>3. QED BY <2>1, <2>2
  <1>6. ASSUME NEW i \in 1 .. c + 1, NEW j \in 1 .. c + 1, i < j PROVE f[i] < f[j]
    <2>1. i \in 1 .. c /\ f[i] = Nth(P, i) BY <1>2, <1>6
    <2>2. CASE j = c + 1
      <3>1. Nth(P, i) \in 1 .. n BY <1>3, <2>1
      <3>2. QED BY <1>1, <2>1, <2>2, <3>1
    <2>3. CASE j # c + 1
      <3>1. j \in 1 .. c /\ f[j] = Nth(P, j) BY <1>2, <2>3
      <3>2. Nth(P, i) < Nth(P, j) BY <1>2, <1>6, <2>1, <3>1, NthGrows
      <3>3. QED BY <2>1, <3>1, <3>2
    <2>4. QED BY <2>2, <2>3
  <1>7. \A i \in 1 .. c + 1 : f[i] = IF i = c + 1 THEN n + 1 ELSE Nth(P, i)
    OBVIOUS
  <1>8. Cardinality(Q) = c + 1 /\ \A i \in 1 .. c + 1 : Nth(Q, i) = f[i]
    <2> HIDE DEF f, c, Q
    <2>1. c + 1 \in Nat BY <1>2
    <2>2. QED BY <1>4, <1>5, <1>6, <2>1, OneEnumeration
  <1> HIDE DEF f, Q
  <1>9. Picked(s, P) \in Seq(S) /\ Len(Picked(s, P)) = c
        /\ \A i \in 1 .. c : Picked(s, P)[i] = s[Nth(P, i)]
    <2>1. P \in SUBSET (1 .. Len(s)) BY <1>1
    <2>2. QED BY <2>1, PickedSeq
  <1>10. Picked(s, Q) \in Seq(S) /\ Len(Picked(s, Q)) = c + 1
         /\ \A i \in 1 .. c + 1 : Picked(s, Q)[i] = s[Nth(Q, i)]
    <2>1. Q \in SUBSET (1 .. Len(s)) BY <1>1 DEF Q
    <2>2. QED BY <1>8, <2>1, PickedSeq
  <1>11. s[n + 1] \in S
    BY <1>1
  <1> HIDE DEF c
  <1>12. Append(Picked(s, P), s[n + 1]) \in Seq(S) /\ Len(Append(Picked(s, P), s[n + 1])) = c + 1
         /\ Append(Picked(s, P), s[n + 1])[c + 1] = s[n + 1]
         /\ \A i \in 1 .. c : Append(Picked(s, P), s[n + 1])[i] = Picked(s, P)[i]
    BY <1>9, <1>11, AppendProperties
  <1>13. \A i \in 1 .. c + 1 : Picked(s, Q)[i] = Append(Picked(s, P), s[n + 1])[i]
    <2> TAKE i \in 1 .. c + 1
    <2>1. CASE i = c + 1
      BY <1>7, <1>8, <1>10, <1>12, <2>1
    <2>2. CASE i # c + 1
      <3>1. i \in 1 .. c BY <1>2, <2>2
      <3>2. Nth(Q, i) = Nth(P, i) /\ Nth(P, i) \in P BY <1>3, <1>7, <1>8, <2>2, <3>1
      <3>3. QED BY <1>9, <1>10, <1>12, <3>1, <3>2
    <2>3. QED BY <2>1, <2>2
  <1>14. Picked(s, Q) = Append(Picked(s, P), s[n + 1])
    <2>1. Len(Picked(s, Q)) = Len(Append(Picked(s, P), s[n + 1])) BY <1>10, <1>12
    <2>2. QED BY <1>10, <1>12, <1>13, <2>1, SeqEqual
  <1>15. QED BY <1>14 DEF Q

-----------------------------------------------------------------------------
(***************************************************************************)
(* Type correctness.  Only the driver's program is ever inside a call of   *)
(* the driver.                                                             *)
(***************************************************************************)
Codes == [key : Key, upper : BOOLEAN]

\* g_tcmips_sdl.evt_queue: one slot of the array stays free.
QueueTypes == evtQueue \in Seq(SdlEvent) /\ Len(evtQueue) < QueueSize

\* The driver's program gets codes, the others get events.
GotTypes ==
    /\ library = "driver" => got \in Seq(Codes)
    /\ library # "driver" => got \in Seq(SdlEvent)

\* The state of the guest.
GuestTypes ==
    /\ library \in Libraries /\ guestPc \in GuestLocs
    /\ guestPc \in {"getCode", "clear"} => library = "driver"
    /\ missed \in BOOLEAN /\ shift \in BOOLEAN /\ keyState \subseteq Key
    /\ pushed \in 0 .. MaxPushes
    /\ GotTypes
    /\ QueueTypes

\* The state of the user.
UserTypes == held \subseteq Key /\ typed \in Seq(Stroke)

TypeInv == RingShape /\ kbdOverflowed \in Nat /\ GuestTypes /\ UserTypes

\* The count of lost events stays a number.
LEMMA RingTypes ==
    ASSUME kbdOverflowed \in Nat, RingNext \/ UNCHANGED ring
    PROVE  kbdOverflowed' \in Nat
  BY DEF RingNext, Push, Pop, ring

\* An event names a key; what an empty ring returns does not.
LEMMA EventFields ==
    /\ \A ev \in KeyEvent : ev.key \in Key /\ ev.press \in BOOLEAN /\ ev # NoEvent
    /\ NoEvent.key = "" /\ NoEvent.press = FALSE
  <1>1. NoEvent.key = "" /\ NoEvent.press = FALSE
    BY DEF NoEvent
  <1>2. \A ev \in KeyEvent : ev.key \in Key /\ ev.press \in BOOLEAN
    BY DEF KeyEvent
  <1>3. QED BY <1>1, <1>2, KeyAssumption

\* A key that SDL knows becomes an event of SDL.
LEMMA EventsAreEvents ==
    ASSUME NEW ev \in KeyEvent, NEW mods \in SUBSET ShiftKeys
    PROVE  [type |-> IF ev.press THEN "down" ELSE "up", key |-> ev.key, mods |-> mods] \in SdlEvent
  BY DEF KeyEvent, SdlEvent, EventTypes

\* A queue with a new event is a queue, and shorter than the array it is in.
LEMMA EnqueueTypes ==
    ASSUME QueueTypes, NEW e \in SdlEvent, Enqueue(e) \/ Post(e), missed \in BOOLEAN
    PROVE  QueueTypes' /\ missed' \in BOOLEAN
  <1>1. CASE Len(evtQueue) < QueueSize - 1
    <2>1. evtQueue' = Append(evtQueue, e) /\ missed' = missed
      BY <1>1 DEF Enqueue, Post
    <2>2. Append(evtQueue, e) \in Seq(SdlEvent) /\ Len(Append(evtQueue, e)) = Len(evtQueue) + 1
          /\ Len(evtQueue) \in Nat
      BY AppendProperties DEF QueueTypes
    <2>3. QueueTypes'
      BY <1>1, <2>1, <2>2, KeysAssumption DEF QueueTypes
    <2>4. QED BY <2>1, <2>3, Zenon
  <1>2. CASE ~(Len(evtQueue) < QueueSize - 1)
    <2>1. evtQueue' = evtQueue /\ missed' = TRUE
      BY <1>2 DEF Enqueue, Post
    <2>2. QED BY <2>1 DEF QueueTypes
  <1>3. QED BY <1>1, <1>2

\* The oldest event goes to the program.
LEMMA GiveOldestTypes ==
    ASSUME QueueTypes, got \in Seq(SdlEvent), GiveOldest
    PROVE  QueueTypes' /\ got' \in Seq(SdlEvent)
  <1>1. CASE evtQueue = <<>>
    BY <1>1 DEF GiveOldest, QueueTypes
  <1>2. CASE evtQueue # <<>>
    <2>1. /\ Head(evtQueue) \in SdlEvent
          /\ Tail(evtQueue) \in Seq(SdlEvent) /\ Len(Tail(evtQueue)) = Len(evtQueue) - 1
      BY <1>2, HeadTailProperties DEF QueueTypes
    <2>2. <<Head(evtQueue)>> \in Seq(SdlEvent)
      BY <2>1
    <2>3. got' \in Seq(SdlEvent)
      BY <1>2, <2>2, ConcatProperties DEF GiveOldest, Give
    <2>4. evtQueue' = Tail(evtQueue) /\ QueueSize \in Nat
      BY <1>2, KeysAssumption DEF GiveOldest
    <2>5. QED BY <2>1, <2>3, <2>4 DEF QueueTypes
  <1>3. QED BY <1>1, <1>2

\* A peek at the queue takes events and leaves events.
LEMMA PeepTypes ==
    ASSUME QueueTypes, got \in Seq(SdlEvent),
           NEW P \in SUBSET (1 .. Len(evtQueue)), NEW Q \in SUBSET (1 .. Len(evtQueue)),
           Give(Picked(evtQueue, P)), evtQueue' = Picked(evtQueue, Q)
    PROVE  QueueTypes' /\ got' \in Seq(SdlEvent)
  <1>1. Picked(evtQueue, P) \in Seq(SdlEvent)
        /\ Picked(evtQueue, Q) \in Seq(SdlEvent) /\ Len(Picked(evtQueue, Q)) <= Len(evtQueue)
    BY PickedSeq DEF QueueTypes
  <1>2. Len(evtQueue) \in Nat /\ Len(Picked(evtQueue, Q)) \in Nat /\ QueueSize \in Nat
    BY <1>1, KeysAssumption DEF QueueTypes
  <1>3. QueueTypes'
    BY <1>1, <1>2 DEF QueueTypes
  <1>4. QED BY <1>1, <1>3, ConcatProperties DEF Give

\* What a peek looks at are places of the queue.
LEMMA PlacesOfQueue ==
    ASSUME QueueTypes, NEW n, NEW types
    PROVE  /\ Scanned(n, types) \in SUBSET (1 .. Len(evtQueue))
           /\ Matching(n, types) \in SUBSET (1 .. Len(evtQueue))
           /\ \A P : Others(P) \in SUBSET (1 .. Len(evtQueue))
  BY DEF Scanned, Matching, Others

\* A step of the driver's program keeps the types.
LEMMA DriverTypes ==
    ASSUME GuestTypes, DriverNext
    PROVE  GuestTypes'
  <1>1. CASE CallGetCode \/ CallClear
    BY <1>1 DEF CallGetCode, CallClear, CallDriver, sdlVars, GuestLocs, GuestTypes, GotTypes, QueueTypes
  <1>2. CASE GetCode
    <2>1. PICK ev \in KeyEvent \cup {NoEvent} :
            /\ shift' = IF ev.key \in ShiftKeys THEN ev.press ELSE shift
            /\ IF ev.press THEN Give(<<Code(ev.key, shift')>>) ELSE UNCHANGED got
            /\ guestPc' = IF ev.press \/ ev = NoEvent THEN "app" ELSE "getCode"
      BY <1>2 DEF GetCode
    <2>2. shift' \in BOOLEAN /\ guestPc' \in GuestLocs
      <3>1. ev.press \in BOOLEAN /\ shift \in BOOLEAN
        BY EventFields DEF GuestTypes
      <3>2. shift' \in BOOLEAN
        BY <2>1, <3>1, Zenon
      <3>3. guestPc' \in GuestLocs
        BY <2>1 DEF GuestLocs
      <3>4. QED BY <3>2, <3>3
    <2>3. UNCHANGED <<library, missed, evtQueue, keyState, pushed>> /\ library = "driver"
      BY <1>2 DEF GetCode, sdlVars, GuestTypes
    <2>4. got' \in Seq(Codes)
      <3>1. got \in Seq(Codes)
        BY <2>3 DEF GuestTypes, GotTypes
      <3>2. CASE ev.press
        <4>1. ev.key \in Key
          BY <3>2, EventFields
        <4>2. Code(ev.key, shift') \in Codes
          BY <2>2, <4>1 DEF Code, Codes
        <4>3. <<Code(ev.key, shift')>> \in Seq(Codes)
          BY <4>2
        <4>4. got' = got \o <<Code(ev.key, shift')>>
          BY <2>1, <3>2 DEF Give
        <4>5. QED BY <3>1, <4>3, <4>4, ConcatProperties
      <3>3. CASE ~ev.press
        BY <2>1, <3>1, <3>3
      <3>4. QED BY <3>2, <3>3
    <2>5. QueueTypes'
      BY <2>3 DEF QueueTypes, GuestTypes
    <2>6. QED BY <2>2, <2>3, <2>4, <2>5 DEF GuestTypes, GotTypes
  <1>3. CASE Clear
    <2>1. guestPc' \in {"app", "clear"} /\ missed' \in BOOLEAN /\ library' = library
          /\ library = "driver"
      BY <1>3 DEF Clear, GuestTypes
    <2>2. UNCHANGED <<got, shift, evtQueue, keyState, pushed>>
      BY <1>3 DEF Clear, sdlVars
    <2>3. QED BY <2>1, <2>2 DEF GuestTypes, GuestLocs, GotTypes, QueueTypes
  <1>4. QED BY <1>1, <1>2, <1>3 DEF DriverNext

\* A step of a program with SDL 1.2 keeps the types.
LEMMA Sdl1Types ==
    ASSUME GuestTypes, Sdl1Next
    PROVE  GuestTypes'
  <1>1. library = "sdl1" /\ library' = library /\ shift' = shift
        /\ guestPc' \in {"app", "pump", "poll", "spin"}
    BY DEF Sdl1Next, Sdl1Key, Sdl1Unknown, Sdl1CallPump, Sdl1CallPoll, Sdl1Pumped, Sdl1Polled,
           Sdl1Push, Sdl1Get, Sdl1PeekSpins, SdlGo
  <1>2. QueueTypes /\ got \in Seq(SdlEvent) /\ keyState \subseteq Key /\ missed \in BOOLEAN
        /\ pushed \in 0 .. MaxPushes
    BY <1>1 DEF GuestTypes, GotTypes
  <1> DEFINE Typed == QueueTypes' /\ got' \in Seq(SdlEvent) /\ keyState' \subseteq Key
                      /\ missed' \in BOOLEAN /\ pushed' \in 0 .. MaxPushes
  <1>3. ASSUME NEW pc, Sdl1Key(pc) PROVE Typed
    <2>1. PICK ev \in KeyEvent :
            /\ Enqueue([type |-> IF ev.press THEN "down" ELSE "up", key |-> ev.key,
                        mods |-> keyState \cap ShiftKeys])
            /\ keyState' = IF ev.press THEN keyState \cup {ev.key} ELSE keyState \ {ev.key}
      BY <1>3 DEF Sdl1Key
    <2>2. keyState' \subseteq Key
      BY <1>2, <2>1 DEF KeyEvent
    <2>3. QueueTypes' /\ missed' \in BOOLEAN
      BY <1>2, <2>1, EventsAreEvents, EnqueueTypes
    <2>4. got' = got /\ pushed' = pushed
      BY <1>3 DEF Sdl1Key
    <2>5. QED BY <1>2, <2>2, <2>3, <2>4
  <1>4. ASSUME (\E pc \in {"pump", "poll"} : Sdl1Unknown(pc)) \/ Sdl1CallPump \/ Sdl1CallPoll
               \/ Sdl1Pumped \/ Sdl1PeekSpins
        PROVE  Typed
    <2>1. UNCHANGED <<missed, got, evtQueue, keyState, pushed>>
      BY <1>4 DEF Sdl1Unknown, Sdl1CallPump, Sdl1CallPoll, Sdl1Pumped, Sdl1PeekSpins
    <2>2. QueueTypes'
      BY <1>2, <2>1 DEF QueueTypes
    <2>3. QED BY <1>2, <2>1, <2>2, Zenon
  <1>5. ASSUME Sdl1Polled PROVE Typed
    <2>1. GiveOldest /\ UNCHANGED <<missed, keyState, pushed>>
      BY <1>5 DEF Sdl1Polled
    <2>2. QueueTypes' /\ got' \in Seq(SdlEvent)
      BY <1>2, <2>1, GiveOldestTypes
    <2>3. QED BY <1>2, <2>1, <2>2, Zenon
  <1>6. ASSUME Sdl1Push PROVE Typed
    <2>1. UserEvent \in SdlEvent
      BY DEF UserEvent, SdlEvent, EventTypes
    <2>2. Enqueue(UserEvent) /\ UNCHANGED <<got, keyState>> /\ pushed' = pushed + 1
          /\ pushed < MaxPushes
      BY <1>6 DEF Sdl1Push
    <2>3. pushed' \in 0 .. MaxPushes
      BY <1>2, <2>2, KeysAssumption
    <2>4. QueueTypes' /\ missed' \in BOOLEAN
      BY <1>2, <2>1, <2>2, EnqueueTypes
    <2>5. QED BY <1>2, <2>2, <2>3, <2>4
  <1>7. ASSUME NEW n, NEW types, Sdl1Get(n, types) PROVE Typed
    <2>1. Give(Picked(evtQueue, Matching(n, types)))
          /\ evtQueue' = Picked(evtQueue, Others(Scanned(n, types)))
          /\ missed' \in BOOLEAN /\ UNCHANGED <<keyState, pushed>>
      BY <1>2, <1>7 DEF Sdl1Get
    <2>2. QueueTypes' /\ got' \in Seq(SdlEvent)
      BY <1>2, <2>1, PeepTypes, PlacesOfQueue
    <2>3. QED BY <1>2, <2>1, <2>2
  <1>8. Typed
    <2> HIDE DEF Typed
    <2>1. QED BY <1>3, <1>4, <1>5, <1>6, <1>7 DEF Sdl1Next
  <1>9. QED BY <1>1, <1>8 DEF GuestTypes, GotTypes, Libraries, GuestLocs

\* A step of a program with SDL 2 keeps the types.
LEMMA Sdl2Types ==
    ASSUME GuestTypes, Sdl2Next
    PROVE  GuestTypes'
  <1>1. library = "sdl2" /\ library' = library /\ shift' = shift
        /\ guestPc' \in {"app", "pump", "poll"}
    BY DEF Sdl2Next, Sdl2Key, Sdl2Unknown, Sdl2CallPump, Sdl2CallPoll, Sdl2Pumped, Sdl2Polled,
           Sdl2Push, Sdl2Get, Sdl2Go
  <1>2. QueueTypes /\ got \in Seq(SdlEvent) /\ keyState \subseteq Key /\ missed \in BOOLEAN
        /\ pushed \in 0 .. MaxPushes
    BY <1>1 DEF GuestTypes, GotTypes
  <1> DEFINE Typed == QueueTypes' /\ got' \in Seq(SdlEvent) /\ keyState' \subseteq Key
                      /\ missed' \in BOOLEAN /\ pushed' \in 0 .. MaxPushes
  <1>3. ASSUME NEW pc, Sdl2Key(pc) PROVE Typed
    <2>1. PICK ev \in KeyEvent :
            /\ Post([type |-> IF ev.press THEN "down" ELSE "up", key |-> ev.key, mods |-> {}])
            /\ keyState' = IF ev.press THEN keyState \cup {ev.key} ELSE keyState \ {ev.key}
      BY <1>3 DEF Sdl2Key
    <2>2. keyState' \subseteq Key
      BY <1>2, <2>1 DEF KeyEvent
    <2>3. QueueTypes' /\ missed' \in BOOLEAN
      BY <1>2, <2>1, EventsAreEvents, EnqueueTypes
    <2>4. got' = got /\ pushed' = pushed
      BY <1>3 DEF Sdl2Key
    <2>5. QED BY <1>2, <2>2, <2>3, <2>4
  <1>4. ASSUME (\E pc \in {"pump", "poll"} : Sdl2Unknown(pc)) \/ Sdl2CallPump \/ Sdl2CallPoll
               \/ Sdl2Pumped
        PROVE  Typed
    <2>1. UNCHANGED <<missed, got, evtQueue, keyState, pushed>>
      BY <1>4 DEF Sdl2Unknown, Sdl2CallPump, Sdl2CallPoll, Sdl2Pumped
    <2>2. QueueTypes'
      BY <1>2, <2>1 DEF QueueTypes
    <2>3. QED BY <1>2, <2>1, <2>2, Zenon
  <1>5. ASSUME Sdl2Polled PROVE Typed
    <2>1. GiveOldest /\ UNCHANGED <<missed, keyState, pushed>>
      BY <1>5 DEF Sdl2Polled
    <2>2. QueueTypes' /\ got' \in Seq(SdlEvent)
      BY <1>2, <2>1, GiveOldestTypes
    <2>3. QED BY <1>2, <2>1, <2>2, Zenon
  <1>6. ASSUME Sdl2Push PROVE Typed
    <2>1. UserEvent \in SdlEvent
      BY DEF UserEvent, SdlEvent, EventTypes
    <2>2. Post(UserEvent) /\ UNCHANGED <<got, keyState>> /\ pushed' = pushed + 1
          /\ pushed < MaxPushes
      BY <1>6 DEF Sdl2Push
    <2>3. pushed' \in 0 .. MaxPushes
      BY <1>2, <2>2, KeysAssumption
    <2>4. QueueTypes' /\ missed' \in BOOLEAN
      BY <1>2, <2>1, <2>2, EnqueueTypes
    <2>5. QED BY <1>2, <2>2, <2>3, <2>4
  <1>7. ASSUME NEW n, NEW types, Sdl2Get(n, types) PROVE Typed
    <2>1. Give(Picked(evtQueue, Matching(n, types)))
          /\ evtQueue' = Picked(evtQueue, Others(Matching(n, types)))
          /\ UNCHANGED <<missed, keyState, pushed>>
      BY <1>2, <1>7 DEF Sdl2Get
    <2>2. QueueTypes' /\ got' \in Seq(SdlEvent)
      BY <1>2, <2>1, PeepTypes, PlacesOfQueue
    <2>3. QED BY <1>2, <2>1, <2>2
  <1>8. Typed
    <2> HIDE DEF Typed
    <2>1. QED BY <1>3, <1>4, <1>5, <1>6, <1>7 DEF Sdl2Next
  <1>9. QED BY <1>1, <1>8 DEF GuestTypes, GotTypes, Libraries, GuestLocs

\* So does a stroke.
LEMMA StrikeTypes ==
    ASSUME UserTypes, NEW key \in Key, NEW press \in BOOLEAN, Strike(key, press)
    PROVE  UserTypes'
  <1> DEFINE st == [key |-> key, press |-> press, mods |-> held \cap ShiftKeys,
                    shifted |-> LastShift]
  <1>1. LastShift \in BOOLEAN
    BY DEF LastShift
  <1> HIDE DEF LastShift
  <1>2. st \in Stroke
    BY <1>1 DEF Stroke
  <1>3. typed' = Append(typed, st) /\ held' \subseteq Key
    BY DEF Strike, UserTypes
  <1> HIDE DEF st
  <1>4. QED BY <1>2, <1>3, AppendProperties DEF UserTypes

\* Any step keeps the types.
LEMMA TypeStep == TypeInv /\ [Next]_vars => TypeInv'
  <1> SUFFICES ASSUME TypeInv, [Next]_vars PROVE TypeInv'
    OBVIOUS
  <1>1. RingShape' /\ kbdOverflowed' \in Nat
    BY RingStep, RingSteps, RingTypes DEF TypeInv, vars, ring
  <1>2. CASE UserNext
    <2>1. PICK key \in Key, press \in BOOLEAN : Strike(key, press)
      BY <1>2 DEF UserNext
    <2>2. UserTypes'
      BY <2>1, StrikeTypes DEF TypeInv
    <2>3. GuestTypes'
      BY <2>1 DEF TypeInv, Strike, guestVars, GuestTypes, GotTypes, QueueTypes
    <2>4. QED BY <1>1, <2>2, <2>3 DEF TypeInv
  <1>3. CASE GuestNext
    <2>1. GuestTypes'
      BY <1>3, DriverTypes, Sdl1Types, Sdl2Types DEF GuestNext, TypeInv
    <2>2. UserTypes'
      BY <1>3 DEF GuestNext, TypeInv, UserTypes
    <2>3. QED BY <1>1, <2>1, <2>2 DEF TypeInv
  <1>4. CASE UNCHANGED vars
    <2>1. UNCHANGED guestVars /\ UNCHANGED <<held, typed>>
      BY <1>4 DEF vars
    <2>2. GuestTypes' /\ UserTypes'
      BY <2>1 DEF guestVars, TypeInv, GuestTypes, GotTypes, QueueTypes, UserTypes
    <2>3. QED BY <1>1, <2>2 DEF TypeInv
  <1>5. QED BY <1>2, <1>3, <1>4 DEF Next

\* Every variable starts with its type.
LEMMA TypeStart == Init => TypeInv
  <1> SUFFICES ASSUME Init PROVE TypeInv
    OBVIOUS
  <1>1. RingShape /\ kbdOverflowed \in Nat
    BY ShapeInit DEF Init, RingInit
  <1>2. QueueTypes /\ GotTypes /\ UserTypes
    BY KeysAssumption, EmptySeq DEF Init, QueueTypes, GotTypes, UserTypes
  <1>3. GuestTypes
    <2>1. shift \in BOOLEAN /\ missed \in BOOLEAN
      BY Zenon DEF Init
    <2>2. QED BY <1>2, <2>1, KeysAssumption DEF Init, GuestTypes, Libraries, GuestLocs
  <1>4. QED BY <1>1, <1>2, <1>3 DEF TypeInv

\* Every variable keeps its type, whatever the user strikes and whatever the
\* program calls.
THEOREM KeyTypes == Spec => []TypeOK
  <1>1. TypeInv => TypeOK
    BY DEF TypeInv, RingShape, GuestTypes, UserTypes, TypeOK, RingTypeOK, GotTypes,
           QueueTypes, Codes, AnyEvent
  <1>2. QED BY <1>1, TypeStart, TypeStep, PTL DEF Spec
=============================================================================
