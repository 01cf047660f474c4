--------------------------- MODULE KeyStrokesProof ---------------------------
(***************************************************************************)
(* What becomes of the user's strokes behind the ring, for any keyboard,   *)
(* any sizes of the queues and any program, as long as nothing is lost.    *)
(* The inductive invariant says of each state that the strokes are in two  *)
(* parts: the last ones are what is pending in the ring, and what the      *)
(* library has is what the ones before make of it.                         *)
(***************************************************************************)
EXTENDS KeyInputProof

-----------------------------------------------------------------------------
(***************************************************************************)
(* The strokes that have left the ring.  What the first n strokes leave    *)
(* down, and how they leave Shift; while nothing is lost, what is pending  *)
(* in the ring are the last strokes.                                       *)
(***************************************************************************)
\* The keys that are down after the first n strokes of s.
HeldIn(s, n) ==
    {k \in Key : \E i \in 1 .. n :
        s[i].key = k /\ s[i].press /\ \A j \in i + 1 .. n : s[j].key # k}

\* Whether the last of them that moved a Shift key was a press.
ShiftIn(s, n) ==
    \E i \in 1 .. n :
        s[i].key \in ShiftKeys /\ s[i].press /\ \A j \in i + 1 .. n : s[j].key \notin ShiftKeys

\* How many strokes have left the ring.
Left == Len(typed) - kbdCount

\* The host saw Shift as the strokes before left it.
HistoryInv ==
    /\ held = HeldIn(typed, Len(typed))
    /\ \A i \in 1 .. Len(typed) :
          /\ typed[i].mods = HeldIn(typed, i - 1) \cap ShiftKeys
          /\ typed[i].shifted = ShiftIn(typed, i - 1)

\* What is pending are the strokes that have not left the ring.
LinkInv ==
    kbdOverflowed = 0 =>
        /\ Left \in Nat
        /\ \A i \in 1 .. kbdCount :
              Pending[i].key = typed[Left + i].key /\ Pending[i].press = typed[Left + i].press

\* A record of a stroke has these fields.
LEMMA StrokeFields ==
    \A s \in Stroke : /\ s.key \in Key /\ s.press \in BOOLEAN
                      /\ s.mods \in SUBSET ShiftKeys /\ s.shifted \in BOOLEAN
  BY DEF Stroke

\* The history of n strokes depends on these strokes only.
LEMMA HistorySame ==
    ASSUME NEW s, NEW t, NEW n \in Nat, \A i \in 1 .. n : t[i] = s[i]
    PROVE  HeldIn(t, n) = HeldIn(s, n) /\ ShiftIn(t, n) = ShiftIn(s, n)
  <1>1. \A i \in 1 .. n : \A j \in i + 1 .. n : j \in 1 .. n
    OBVIOUS
  <1>2. HeldIn(t, n) = HeldIn(s, n)
    BY <1>1 DEF HeldIn
  <1>3. ShiftIn(t, n) = ShiftIn(s, n)
    BY <1>1 DEF ShiftIn
  <1>4. QED BY <1>2, <1>3

\* No stroke, no key down.
LEMMA HistoryStart == \A s : HeldIn(s, 0) = {} /\ ShiftIn(s, 0) = FALSE
  BY DEF HeldIn, ShiftIn

\* What one more stroke does to the keys that are down and to Shift.
LEMMA HistoryStep ==
    ASSUME NEW s, NEW n \in Nat, s[n + 1] \in Stroke
    PROVE  /\ s[n + 1].press => HeldIn(s, n + 1) = HeldIn(s, n) \cup {s[n + 1].key}
           /\ ~s[n + 1].press => HeldIn(s, n + 1) = HeldIn(s, n) \ {s[n + 1].key}
           /\ s[n + 1].key \in ShiftKeys => ShiftIn(s, n + 1) = s[n + 1].press
           /\ s[n + 1].key \notin ShiftKeys => ShiftIn(s, n + 1) = ShiftIn(s, n)
  <1>1. n + 1 \in 1 .. n + 1 /\ (\A i \in 1 .. n + 1 : i \in 1 .. n \/ i = n + 1)
        /\ (\A i \in 1 .. n : i \in 1 .. n + 1 /\ n + 1 \in i + 1 .. n + 1)
        /\ (\A i \in 1 .. n : \A j \in i + 1 .. n : j \in i + 1 .. n + 1)
        /\ (\A i \in 1 .. n : \A j \in i + 1 .. n + 1 : j \in i + 1 .. n \/ j = n + 1)
        /\ (\A j \in (n + 1) + 1 .. n + 1 : FALSE)
    OBVIOUS
  <1>2. s[n + 1].key \in Key /\ s[n + 1].press \in BOOLEAN
    BY StrokeFields
  <1> DEFINE H(m) == HeldIn(s, m)
  <1>3. ASSUME NEW k \in Key, k # s[n + 1].key PROVE k \in H(n + 1) <=> k \in H(n)
    <2>1. ASSUME k \in H(n + 1) PROVE k \in H(n)
      BY <1>1, <1>3, <2>1 DEF HeldIn
    <2>2. ASSUME k \in H(n) PROVE k \in H(n + 1)
      BY <1>1, <1>3, <2>2 DEF HeldIn
    <2>3. QED BY <2>1, <2>2
  <1>4. s[n + 1].press => s[n + 1].key \in H(n + 1)
    BY <1>1, <1>2 DEF HeldIn
  <1>5. ~s[n + 1].press => s[n + 1].key \notin H(n + 1)
    BY <1>1 DEF HeldIn
  <1>6. \A m : H(m) \subseteq Key
    BY DEF HeldIn
  <1>7. s[n + 1].key \in ShiftKeys => (ShiftIn(s, n + 1) <=> s[n + 1].press)
    BY <1>1 DEF ShiftIn
  <1>8. s[n + 1].key \notin ShiftKeys => (ShiftIn(s, n + 1) <=> ShiftIn(s, n))
    BY <1>1 DEF ShiftIn
  <1>9. ShiftIn(s, n + 1) \in BOOLEAN /\ ShiftIn(s, n) \in BOOLEAN
    BY DEF ShiftIn
  <1> HIDE DEF H
  <1>10. /\ s[n + 1].press => H(n + 1) = H(n) \cup {s[n + 1].key}
         /\ ~s[n + 1].press => H(n + 1) = H(n) \ {s[n + 1].key}
    BY <1>2, <1>3, <1>4, <1>5, <1>6
  <1>11. /\ s[n + 1].key \in ShiftKeys => ShiftIn(s, n + 1) = s[n + 1].press
         /\ s[n + 1].key \notin ShiftKeys => ShiftIn(s, n + 1) = ShiftIn(s, n)
    BY <1>2, <1>7, <1>8, <1>9, Zenon
  <1>12. QED BY <1>10, <1>11 DEF H

\* What Strike adds to the history.
LEMMA StrikeAdds ==
    ASSUME TypeInv, NEW key \in Key, NEW press \in BOOLEAN, Strike(key, press)
    PROVE  /\ Len(typed) \in Nat /\ Len(typed') = Len(typed) + 1 /\ typed' \in Seq(Stroke)
           /\ \A i \in 1 .. Len(typed) : typed'[i] = typed[i]
           /\ typed'[Len(typed) + 1].key = key /\ typed'[Len(typed) + 1].press = press
           /\ typed'[Len(typed) + 1].mods = held \cap ShiftKeys
           /\ typed'[Len(typed) + 1].shifted = LastShift
  <1> DEFINE st == [key |-> key, press |-> press, mods |-> held \cap ShiftKeys,
                    shifted |-> LastShift]
  <1>1. LastShift \in BOOLEAN
    BY DEF LastShift
  <1> HIDE DEF LastShift
  <1>2. st \in Stroke
    BY <1>1 DEF Stroke
  <1>3. typed' = Append(typed, st) /\ typed \in Seq(Stroke)
    BY DEF Strike, TypeInv, UserTypes
  <1>4. st.key = key /\ st.press = press /\ st.mods = held \cap ShiftKeys
        /\ st.shifted = LastShift
    OBVIOUS
  <1> HIDE DEF st
  <1>5. /\ Len(typed) \in Nat /\ Len(typed') = Len(typed) + 1 /\ typed' \in Seq(Stroke)
        /\ \A i \in 1 .. Len(typed) : typed'[i] = typed[i]
        /\ typed'[Len(typed) + 1] = st
    BY <1>2, <1>3, AppendProperties
  <1>6. QED BY <1>4, <1>5, Zenon

\* What is recorded with a stroke is how the strokes before left the keys.
LEMMA HistoryStrike ==
    ASSUME TypeInv, HistoryInv, NEW key \in Key, NEW press \in BOOLEAN, Strike(key, press)
    PROVE  HistoryInv'
  <1> DEFINE n == Len(typed)
  <1>1. /\ n \in Nat /\ Len(typed') = n + 1 /\ typed' \in Seq(Stroke)
        /\ \A i \in 1 .. n : typed'[i] = typed[i]
        /\ typed'[n + 1].key = key /\ typed'[n + 1].press = press
        /\ typed'[n + 1].mods = held \cap ShiftKeys /\ typed'[n + 1].shifted = LastShift
    BY StrikeAdds
  <1>2. LastShift = ShiftIn(typed, n)
    BY <1>1 DEF LastShift, ShiftIn, TypeInv, UserTypes
  <1> HIDE DEF n, LastShift
  <1>3. ASSUME NEW i \in 1 .. n + 1
        PROVE  HeldIn(typed', i - 1) = HeldIn(typed, i - 1)
               /\ ShiftIn(typed', i - 1) = ShiftIn(typed, i - 1)
    <2>1. i - 1 \in Nat /\ \A j \in 1 .. i - 1 : typed'[j] = typed[j]
      BY <1>1
    <2>2. QED BY <2>1, HistorySame
  <1>4. n + 1 \in 1 .. n + 1 /\ (n + 1) - 1 = n
    BY <1>1
  <1>5. HeldIn(typed', n) = held /\ ShiftIn(typed', n) = LastShift
    BY <1>2, <1>3, <1>4 DEF HistoryInv, n
  <1>6. held' = HeldIn(typed', n + 1)
    <2>1. held' = IF press THEN held \cup {key} ELSE held \ {key}
      BY DEF Strike
    <2>2. typed'[n + 1] \in Stroke
      BY <1>1
    <2>3. /\ press => HeldIn(typed', n + 1) = HeldIn(typed', n) \cup {key}
          /\ ~press => HeldIn(typed', n + 1) = HeldIn(typed', n) \ {key}
      BY <1>1, <2>2, HistoryStep
    <2>4. QED BY <1>5, <2>1, <2>3
  <1>7. ASSUME NEW i \in 1 .. n + 1
        PROVE  typed'[i].mods = HeldIn(typed', i - 1) \cap ShiftKeys
               /\ typed'[i].shifted = ShiftIn(typed', i - 1)
    <2>1. CASE i = n + 1
      BY <1>1, <1>4, <1>5, <2>1
    <2>2. CASE i # n + 1
      <3>1. i \in 1 .. n
        BY <1>1, <2>2
      <3>2. QED BY <1>1, <1>3, <3>1 DEF HistoryInv, n
    <2>3. QED BY <2>1, <2>2
  <1>8. QED BY <1>1, <1>6, <1>7 DEF HistoryInv

\* A stroke goes to the end of the ring.
LEMMA LinkStrike ==
    ASSUME TypeInv, LinkInv, NEW key \in Key, NEW press \in BOOLEAN, Strike(key, press),
           kbdOverflowed' = 0
    PROVE  kbdOverflowed = 0 /\ Left' = Left /\ LinkInv'
  <1> DEFINE ev == [key |-> key, press |-> press]
  <1>1. ev \in KeyEvent /\ Push(ev)
    BY DEF KeyEvent, Strike
  <1>2. RingShape /\ kbdOverflowed \in Nat
    BY DEF TypeInv
  <1>3. kbdCount # KBD_QUEUE_CAP
    BY <1>1, <1>2 DEF Push
  <1>4. kbdOverflowed = 0 /\ kbdCount' = kbdCount + 1 /\ kbdCount \in Nat
    BY <1>1, <1>2, <1>3, CapAssumption DEF Push, RingShape
  <1>5. Queue!Put(ev)
    <2> HIDE DEF ev
    <2>1. QED BY <1>1, <1>2, <1>3, PushRoom
  <1>6. Pending \in Seq(AnyEvent) /\ Len(Pending) = kbdCount /\ ev \in AnyEvent
    BY <1>1, <1>2, ViewSeq DEF Pending, RingShape, AnyEvent
  <1>7. kbdCount < KBD_QUEUE_CAP
    BY <1>2, <1>3, CapAssumption DEF RingShape
  <1>8. Pending' = Append(Pending, ev)
    <2> HIDE DEF ev
    <2>1. QED BY <1>5, <1>6, <1>3 DEF Queue!Put, Queue!Full
  <1>9. /\ \A i \in 1 .. kbdCount : Pending'[i] = Pending[i]
        /\ Pending'[kbdCount + 1] = ev
    <2> HIDE DEF ev
    <2>1. QED BY <1>6, <1>8, AppendProperties
  <1>10. /\ Len(typed) \in Nat /\ Len(typed') = Len(typed) + 1
         /\ \A i \in 1 .. Len(typed) : typed'[i] = typed[i]
         /\ typed'[Len(typed) + 1].key = key /\ typed'[Len(typed) + 1].press = press
    BY StrikeAdds
  <1>11. Left' = Left /\ Left \in Nat
    BY <1>4, <1>10 DEF Left, LinkInv
  <1>12. ASSUME NEW i \in 1 .. kbdCount + 1
         PROVE  Pending'[i].key = typed'[Left + i].key /\ Pending'[i].press = typed'[Left + i].press
    <2>1. CASE i = kbdCount + 1
      <3>1. Left + i = Len(typed) + 1
        BY <1>4, <1>10, <2>1 DEF Left
      <3>2. QED BY <1>9, <1>10, <2>1, <3>1
    <2>2. CASE i # kbdCount + 1
      <3>1. i \in 1 .. kbdCount /\ Left + i \in 1 .. Len(typed)
        BY <1>4, <1>10, <1>11, <2>2 DEF Left
      <3>2. Pending[i].key = typed[Left + i].key /\ Pending[i].press = typed[Left + i].press
        BY <1>4, <3>1 DEF LinkInv
      <3>3. Pending'[i] = Pending[i] /\ typed'[Left + i] = typed[Left + i]
        BY <1>9, <1>10, <3>1
      <3>4. QED BY <3>2, <3>3
    <2>3. QED BY <2>1, <2>2
  <1>13. QED BY <1>4, <1>11, <1>12 DEF LinkInv

\* A read finds the first stroke that has not left the ring, if there is one.
LEMMA LinkPop ==
    ASSUME TypeInv, LinkInv, kbdOverflowed = 0, NEW ev \in AnyEvent, Pop(ev), typed' = typed
    PROVE  /\ kbdOverflowed' = 0 /\ LinkInv' /\ Left \in Nat
           /\ \/ kbdCount = 0 /\ ev = NoEvent /\ kbdCount' = 0 /\ Left' = Left
              \/ /\ kbdCount # 0 /\ ev \in KeyEvent /\ Left' = Left + 1
                 /\ Left + 1 \in 1 .. Len(typed)
                 /\ ev.key = typed[Left + 1].key /\ ev.press = typed[Left + 1].press
  <1>1. RingShape /\ kbdCount \in Nat /\ Len(typed) \in Nat /\ typed \in Seq(Stroke)
    BY CapAssumption DEF TypeInv, RingShape, UserTypes
  <1>2. Left \in Nat
    BY DEF LinkInv
  <1>3. CASE kbdCount = 0
    <2>1. ev = NoEvent /\ UNCHANGED ring
      BY <1>3 DEF Pop
    <2>2. UNCHANGED <<kbdCount, kbdOverflowed, Pending>>
      BY <2>1 DEF ring, Pending
    <2>3. Left' = Left
      BY <2>2 DEF Left
    <2>4. LinkInv'
      BY <1>1, <1>2, <1>3, <2>2, <2>3 DEF LinkInv
    <2>5. QED BY <1>2, <1>3, <2>1, <2>2, <2>3, <2>4
  <1>4. CASE kbdCount # 0
    <2>1. /\ ev = kbdQueue[kbdHead] /\ kbdCount' = kbdCount - 1
          /\ kbdOverflowed' = 0 /\ kbdQueue' = kbdQueue /\ kbdHead' = Advance(kbdHead)
      BY <1>4 DEF Pop
    <2>2. /\ kbdQueue \in [Slot -> AnyEvent] /\ kbdHead \in Slot
          /\ kbdCount \in 1 .. KBD_QUEUE_CAP /\ kbdCount \in 0 .. KBD_QUEUE_CAP
      BY <1>4, CapAssumption DEF TypeInv, RingShape
    <2>3. /\ Pending \in Seq(AnyEvent) /\ Len(Pending) = kbdCount
          /\ \A i \in 1 .. kbdCount : Pending[i] = kbdQueue[SlotFrom(kbdHead, i)]
      BY <2>2, ViewSeq DEF Pending
    <2>4. SlotFrom(kbdHead, 1) = kbdHead
      BY <2>2, CapAssumption DEF SlotFrom, Slot
    <2>5. ev = Pending[1] /\ 1 \in 1 .. kbdCount
      BY <2>1, <2>2, <2>3, <2>4
    <2>6. Pending' = Tail(Pending) /\ Pending # <<>>
      BY <2>1, <2>2, Advances, ViewTake DEF Pending
    <2>7. \A i \in 1 .. kbdCount - 1 : Pending'[i] = Pending[i + 1]
      BY <2>3, <2>6, HeadTailProperties
    <2>8. Left' = Left + 1 /\ Left + 1 \in 1 .. Len(typed)
      BY <1>1, <1>2, <1>4, <2>1 DEF Left
    <2>9. ev.key = typed[Left + 1].key /\ ev.press = typed[Left + 1].press
      BY <2>5 DEF LinkInv
    <2>10. ev \in KeyEvent
      <3>1. typed[Left + 1].key \in Key
        BY <1>1, <2>8, StrokeFields
      <3>2. ev # NoEvent
        BY <2>9, <3>1, KeyAssumption, EventFields
      <3>3. QED BY <3>2 DEF AnyEvent
    <2>11. ASSUME NEW i \in 1 .. kbdCount'
           PROVE  /\ Pending'[i].key = typed'[Left' + i].key
                  /\ Pending'[i].press = typed'[Left' + i].press
      <3>1. i \in 1 .. kbdCount - 1 /\ i + 1 \in 1 .. kbdCount /\ Left' + i = Left + (i + 1)
        BY <1>1, <1>2, <2>1, <2>8
      <3>2. Pending[i + 1].key = typed[Left + (i + 1)].key
            /\ Pending[i + 1].press = typed[Left + (i + 1)].press
        BY <3>1 DEF LinkInv
      <3>3. QED BY <2>7, <3>1, <3>2
    <2>12. Left' \in Nat
      BY <1>2, <2>8
    <2>13. LinkInv'
      BY <2>11, <2>12 DEF LinkInv
    <2>14. QED BY <1>2, <1>4, <2>1, <2>8, <2>9, <2>10, <2>13
  <1>5. QED BY <1>3, <1>4

-----------------------------------------------------------------------------
(***************************************************************************)
(* What a guest step does, whichever port of SDL it is a step of.          *)
(***************************************************************************)
\* The types among which the order of events is kept.
Kinds == {{"down"}, {"up"}} \cup {t \in {{"down", "up"}} : library = "sdl1"}

\* SDL has noted the keys that the strokes it has read left down.
KeyInv ==
    library # "driver" /\ kbdOverflowed = 0 => keyState = HeldIn(typed, Left) \ Unmapped

\* The codes of the strokes, and which of the first n strokes have one.
CodesOf(s) == [i \in DOMAIN s |-> Code(s[i].key, s[i].shifted)]
Downs(s, n) == {i \in 1 .. n : s[i].press}

\* The driver has returned the codes of the strokes it has read.
DriverInv ==
    library = "driver" /\ NothingLost =>
        /\ shift = ShiftIn(typed, Left)
        /\ got = Picked(CodesOf(typed), Downs(typed, Left))

\* What SDL has made of the strokes: delivered, then queued.
Stream == got \o evtQueue
OfTypes(s, T) == {i \in DOMAIN s : s[i].type \in T}

TypeOf(st) == IF st.press THEN "down" ELSE "up"

\* The events of the strokes, and which of the first n strokes arrive.
EventsIn(lib, s) ==
    [i \in DOMAIN s |-> [type |-> TypeOf(s[i]), key |-> s[i].key,
                         mods |-> IF lib = "sdl1" THEN s[i].mods ELSE {}]]
Arrived(s, n, T) == {i \in 1 .. n : s[i].key \notin Unmapped /\ TypeOf(s[i]) \in T}

\* Of each kind, SDL has the events of the strokes it has read.
OrderInv ==
    library # "driver" /\ NothingLost =>
        \A T \in Kinds :
            Picked(Stream, OfTypes(Stream, T))
                = Picked(EventsIn(library, typed), Arrived(typed, Left, T))

\* SDL reads a key it knows, or one it does not know.
SdlRead(ev) ==
    /\ ev.key \notin Unmapped
    /\ Pop(ev)
    /\ Enqueue([type |-> IF ev.press THEN "down" ELSE "up", key |-> ev.key,
                mods |-> IF library = "sdl1" THEN keyState \cap ShiftKeys ELSE {}])
    /\ keyState' = IF ev.press THEN keyState \cup {ev.key} ELSE keyState \ {ev.key}
    /\ UNCHANGED got

SdlSkip(ev) ==
    /\ ev.key \in Unmapped
    /\ Pop(ev)
    /\ UNCHANGED <<missed, got, evtQueue, keyState>>

\* Nothing is pending, or the step does not look.
SdlPass ==
    /\ Pop(NoEvent) \/ UNCHANGED ring
    /\ GiveOldest \/ UNCHANGED <<got, evtQueue>>
    /\ UNCHANGED <<missed, keyState>>

\* The program queues an event of its own.
SdlPost == UNCHANGED <<ring, got, keyState>> /\ Enqueue(UserEvent)

\* Of each kind of event, what is taken is older than what stays.
OlderIn(M, T) ==
    \A p \in M, q \in Others(M) : evtQueue[p].type \in T /\ evtQueue[q].type \in T => p < q

Older(M) == \A T \in Kinds : OlderIn(M, T)

\* The program takes events out of the queue, or some are given up.
SdlPeek ==
    /\ UNCHANGED <<ring, keyState>>
    /\ missed => missed'
    /\ missed' \/ \E M \in SUBSET (1 .. Len(evtQueue)) :
          /\ Older(M)
          /\ Give(Picked(evtQueue, M)) /\ evtQueue' = Picked(evtQueue, Others(M))

\* What a step of a program with SDL does.
SdlDoes ==
    \/ \E ev \in KeyEvent : SdlRead(ev) \/ SdlSkip(ev)
    \/ SdlPass \/ SdlPost \/ SdlPeek

\* The places that are looked at are the first ones.
LEMMA ScannedFirst ==
    ASSUME NEW n \in Nat, NEW types, Len(evtQueue) \in Nat,
           NEW p \in Scanned(n, types), NEW q \in 1 .. Len(evtQueue), q \notin Scanned(n, types)
    PROVE  p < q
  <1> DEFINE A == {j \in 1 .. p - 1 : evtQueue[j].type \in types}
             B == {j \in 1 .. q - 1 : evtQueue[j].type \in types}
  <1>1. p \in 1 .. Len(evtQueue) /\ Cardinality(A) < n /\ ~(Cardinality(B) < n)
    BY DEF Scanned
  <1>2. SUFFICES ASSUME ~(p < q) PROVE FALSE
    OBVIOUS
  <1>3. p - 1 \in Nat /\ q - 1 \in Nat /\ q - 1 <= p - 1
    BY <1>1, <1>2
  <1>4. A \in SUBSET (1 .. p - 1) /\ B \in SUBSET A
    BY <1>3
  <1> HIDE DEF A, B
  <1>5. IsFiniteSet(A) /\ Cardinality(A) \in Nat
    BY <1>3, <1>4, PlacesFinite
  <1>6. IsFiniteSet(B) /\ Cardinality(B) <= Cardinality(A)
    BY <1>4, <1>5, FS_Subset
  <1>7. Cardinality(B) \in Nat
    BY <1>6, FS_CardinalityType
  <1>8. QED BY <1>1, <1>5, <1>6, <1>7

\* Each step of SDL 1.2 is one of these.
LEMMA Sdl1Does ==
    ASSUME GuestTypes, Sdl1Next
    PROVE  SdlDoes
  <1>1. library = "sdl1" /\ Len(evtQueue) \in Nat /\ missed \in BOOLEAN
    BY DEF GuestTypes, QueueTypes, Sdl1Next, Sdl1Key, Sdl1Unknown, Sdl1CallPump, Sdl1CallPoll,
           Sdl1Pumped, Sdl1Polled, Sdl1Push, Sdl1Get, Sdl1PeekSpins, SdlGo
  <1>2. ASSUME NEW pc, Sdl1Key(pc) PROVE SdlDoes
    <2>1. \E ev \in KeyEvent : SdlRead(ev)
      BY <1>1, <1>2 DEF Sdl1Key, SdlRead
    <2>2. QED BY <2>1 DEF SdlDoes
  <1>3. ASSUME NEW pc, Sdl1Unknown(pc) PROVE SdlDoes
    <2>1. \E ev \in KeyEvent : SdlSkip(ev)
      BY <1>3 DEF Sdl1Unknown, SdlSkip
    <2>2. QED BY <2>1 DEF SdlDoes
  <1>4. CASE Sdl1CallPump \/ Sdl1CallPoll \/ Sdl1Pumped \/ Sdl1Polled \/ Sdl1PeekSpins
    <2>1. SdlPass
      BY <1>4 DEF Sdl1CallPump, Sdl1CallPoll, Sdl1Pumped, Sdl1Polled, Sdl1PeekSpins, SdlPass
    <2>2. QED BY <2>1 DEF SdlDoes
  <1>5. CASE Sdl1Push
    BY <1>5 DEF Sdl1Push, SdlPost, SdlDoes
  <1>6. ASSUME NEW n \in 1 .. MaxPeep, NEW types, Sdl1Get(n, types) PROVE SdlDoes
    <2> DEFINE M == Scanned(n, types)
    <2>1. /\ Give(Picked(evtQueue, Matching(n, types)))
          /\ evtQueue' = Picked(evtQueue, Others(M))
          /\ missed' = (missed \/ Matching(n, types) # M)
          /\ UNCHANGED <<ring, keyState>>
      BY <1>6 DEF Sdl1Get
    <2>2. M \in SUBSET (1 .. Len(evtQueue)) /\ n \in Nat
      BY KeysAssumption DEF Scanned
    <2>3. \A p \in M, q \in Others(M) : p < q
      BY <1>1, <2>2, ScannedFirst DEF Others
    <2>4. Older(M)
      BY <2>3 DEF Older, OlderIn
    <2>5. (missed => missed') /\ (missed' \/ Matching(n, types) = M)
      BY <1>1, <2>1
    <2> HIDE DEF M
    <2>6. SdlPeek
      BY <2>1, <2>2, <2>4, <2>5 DEF SdlPeek
    <2>7. QED BY <2>6 DEF SdlDoes
  <1>7. QED
    <2> HIDE DEF SdlDoes
    <2>1. QED BY <1>2, <1>3, <1>4, <1>5, <1>6 DEF Sdl1Next

\* Each step of SDL 2 is one of these.
LEMMA Sdl2Does ==
    ASSUME GuestTypes, Sdl2Next
    PROVE  SdlDoes
  <1>1. library = "sdl2" /\ Len(evtQueue) \in Nat
    BY DEF GuestTypes, QueueTypes, Sdl2Next, Sdl2Key, Sdl2Unknown, Sdl2CallPump, Sdl2CallPoll,
           Sdl2Pumped, Sdl2Polled, Sdl2Push, Sdl2Get, Sdl2Go
  <1>2. ASSUME NEW pc, Sdl2Key(pc) PROVE SdlDoes
    <2>1. \E ev \in KeyEvent : SdlRead(ev)
      BY <1>1, <1>2 DEF Sdl2Key, SdlRead, Post, Enqueue
    <2>2. QED BY <2>1 DEF SdlDoes
  <1>3. ASSUME NEW pc, Sdl2Unknown(pc) PROVE SdlDoes
    <2>1. \E ev \in KeyEvent : SdlSkip(ev)
      BY <1>3 DEF Sdl2Unknown, SdlSkip
    <2>2. QED BY <2>1 DEF SdlDoes
  <1>4. CASE Sdl2CallPump \/ Sdl2CallPoll \/ Sdl2Pumped \/ Sdl2Polled
    <2>1. SdlPass
      BY <1>4 DEF Sdl2CallPump, Sdl2CallPoll, Sdl2Pumped, Sdl2Polled, SdlPass
    <2>2. QED BY <2>1 DEF SdlDoes
  <1>5. CASE Sdl2Push
    BY <1>5 DEF Sdl2Push, SdlPost, SdlDoes, Post, Enqueue
  <1>6. ASSUME NEW n \in 1 .. MaxPeep, NEW types, Sdl2Get(n, types) PROVE SdlDoes
    <2> DEFINE M == Matching(n, types)
    <2>1. /\ Give(Picked(evtQueue, M)) /\ evtQueue' = Picked(evtQueue, Others(M))
          /\ UNCHANGED <<ring, keyState, missed>>
      BY <1>6 DEF Sdl2Get
    <2>2. M \in SUBSET (1 .. Len(evtQueue)) /\ n \in Nat
      BY KeysAssumption DEF Matching, Scanned
    <2>3. ASSUME NEW T \in Kinds, NEW p \in M, NEW q \in Others(M),
                 evtQueue[p].type \in T, evtQueue[q].type \in T
          PROVE  p < q
      <3>1. T = {"down"} \/ T = {"up"}
        BY <1>1 DEF Kinds
      <3>2. evtQueue[q].type = evtQueue[p].type
        BY <2>3, <3>1
      <3>3. p \in Scanned(n, types) /\ evtQueue[p].type \in types
        BY DEF Matching
      <3>4. q \in 1 .. Len(evtQueue) /\ q \notin Scanned(n, types)
        BY <3>2, <3>3 DEF Others, Matching
      <3>5. QED BY <1>1, <2>2, <3>3, <3>4, ScannedFirst
    <2>4. Older(M)
      <3> HIDE DEF M
      <3>1. QED BY <2>3 DEF Older, OlderIn
    <2> HIDE DEF M
    <2>5. SdlPeek
      BY <2>1, <2>2, <2>4 DEF SdlPeek
    <2>6. QED BY <2>5 DEF SdlDoes
  <1>7. QED
    <2> HIDE DEF SdlDoes
    <2>1. QED BY <1>2, <1>3, <1>4, <1>5, <1>6 DEF Sdl2Next

\* A step that leaves the ring alone leaves the strokes that are in it.
LEMMA LinkSame ==
    ASSUME LinkInv, UNCHANGED ring, typed' = typed
    PROVE  LinkInv' /\ kbdOverflowed' = kbdOverflowed /\ Left' = Left
  <1>1. kbdCount' = kbdCount /\ kbdOverflowed' = kbdOverflowed /\ Pending' = Pending
    BY DEF ring, Pending
  <1>2. Left' = Left
    BY <1>1 DEF Left
  <1>3. QED BY <1>1, <1>2 DEF LinkInv

\* A pop leaves the count of what was lost.
LEMMA PopKeeps == \A ev : Pop(ev) => kbdOverflowed' = kbdOverflowed
  BY DEF Pop, ring

\* A stroke leaves the past as it is.
LEMMA StrikeKeeps ==
    ASSUME TypeInv, LinkInv, NEW key \in Key, NEW press \in BOOLEAN, Strike(key, press),
           kbdOverflowed' = 0
    PROVE  /\ kbdOverflowed = 0 /\ Left' = Left /\ Left \in 0 .. Len(typed)
           /\ HeldIn(typed', Left) = HeldIn(typed, Left)
           /\ ShiftIn(typed', Left) = ShiftIn(typed, Left)
           /\ \A i \in 1 .. Left : i \in 1 .. Len(typed) /\ i \in 1 .. Len(typed')
                                   /\ typed'[i] = typed[i]
  <1>1. kbdOverflowed = 0 /\ Left' = Left /\ Left \in Nat
    BY LinkStrike DEF LinkInv
  <1>2. kbdCount \in Nat /\ Len(typed) \in Nat
    BY CapAssumption DEF TypeInv, RingShape, UserTypes
  <1>3. Left \in 0 .. Len(typed)
    BY <1>1, <1>2 DEF Left
  <1>4. Len(typed') = Len(typed) + 1 /\ \A i \in 1 .. Len(typed) : typed'[i] = typed[i]
    BY StrikeAdds
  <1>5. \A i \in 1 .. Left : i \in 1 .. Len(typed) /\ i \in 1 .. Len(typed')
                             /\ typed'[i] = typed[i]
    BY <1>2, <1>3, <1>4
  <1>6. QED BY <1>1, <1>3, <1>5, HistorySame

-----------------------------------------------------------------------------
\* A stroke does not change what SDL has noted of the strokes before.
LEMMA KeyStrike ==
    ASSUME TypeInv, LinkInv, KeyInv, NEW key \in Key, NEW press \in BOOLEAN, Strike(key, press)
    PROVE  KeyInv'
  <1> SUFFICES ASSUME library' # "driver", kbdOverflowed' = 0
               PROVE  keyState' = HeldIn(typed', Left') \ Unmapped
    BY DEF KeyInv
  <1>1. library' = library /\ keyState' = keyState
    BY DEF Strike, guestVars
  <1>2. QED BY <1>1, StrikeKeeps DEF KeyInv

\* g_tcmips_sdl.key_state follows what has left the ring, known keys or not.
LEMMA KeyGuest ==
    ASSUME TypeInv, LinkInv, KeyInv, SdlDoes, typed' = typed, library' = library,
           library # "driver"
    PROVE  KeyInv'
  <1> SUFFICES ASSUME kbdOverflowed' = 0
               PROVE  keyState' = HeldIn(typed, Left') \ Unmapped
    BY DEF KeyInv
  <1> DEFINE H(n) == HeldIn(typed, n)
  <1>1. ASSUME kbdOverflowed = 0 PROVE keyState = H(Left) \ Unmapped
    BY <1>1 DEF KeyInv
  <1>2. typed \in Seq(Stroke)
    BY DEF TypeInv, UserTypes
  <1>3. ASSUME NEW ev \in KeyEvent, Pop(ev)
        PROVE  /\ kbdOverflowed = 0
               /\ ev.press => H(Left') = H(Left) \cup {ev.key}
               /\ ~ev.press => H(Left') = H(Left) \ {ev.key}
    <2>1. kbdOverflowed = 0
      BY <1>3, PopKeeps
    <2>2. ev # NoEvent /\ ev \in AnyEvent
      BY EventFields DEF AnyEvent
    <2>3. Left \in Nat /\ Left' = Left + 1 /\ Left + 1 \in 1 .. Len(typed)
          /\ ev.key = typed[Left + 1].key /\ ev.press = typed[Left + 1].press
      BY <1>3, <2>1, <2>2, LinkPop
    <2>4. typed[Left + 1] \in Stroke
      BY <1>2, <2>3
    <2>5. QED BY <2>1, <2>3, <2>4, HistoryStep
  <1> HIDE DEF H
  <1>4. ASSUME NEW ev \in KeyEvent, SdlRead(ev) PROVE keyState' = H(Left') \ Unmapped
    <2>1. /\ kbdOverflowed = 0
          /\ ev.press => H(Left') = H(Left) \cup {ev.key}
          /\ ~ev.press => H(Left') = H(Left) \ {ev.key}
      BY <1>3, <1>4 DEF SdlRead
    <2>2. ev.key \notin Unmapped
          /\ keyState' = IF ev.press THEN keyState \cup {ev.key} ELSE keyState \ {ev.key}
      BY <1>4 DEF SdlRead
    <2>3. QED BY <1>1, <2>1, <2>2
  <1>5. ASSUME NEW ev \in KeyEvent, SdlSkip(ev) PROVE keyState' = H(Left') \ Unmapped
    <2>1. /\ kbdOverflowed = 0
          /\ ev.press => H(Left') = H(Left) \cup {ev.key}
          /\ ~ev.press => H(Left') = H(Left) \ {ev.key}
      BY <1>3, <1>5 DEF SdlSkip
    <2>2. ev.key \in Unmapped /\ keyState' = keyState
      BY <1>5 DEF SdlSkip
    <2>3. QED BY <1>1, <2>1, <2>2
  <1>6. CASE SdlPass \/ SdlPost \/ SdlPeek
    <2>1. keyState' = keyState /\ (Pop(NoEvent) \/ UNCHANGED ring)
      BY <1>6 DEF SdlPass, SdlPost, SdlPeek
    <2>2. kbdOverflowed = 0 /\ Left' = Left
      <3>1. CASE UNCHANGED ring
        BY <3>1, LinkSame
      <3>2. CASE Pop(NoEvent)
        <4>1. kbdOverflowed = 0 /\ NoEvent \in AnyEvent /\ NoEvent \notin KeyEvent
          BY <3>2, PopKeeps, EventFields DEF AnyEvent
        <4>2. QED BY <3>2, <4>1, LinkPop
      <3>3. QED BY <2>1, <3>1, <3>2
    <2>3. QED BY <1>1, <2>1, <2>2 DEF H
  <1>7. keyState' = H(Left') \ Unmapped
    BY <1>4, <1>5, <1>6 DEF SdlDoes, H
  <1>8. QED BY <1>7 DEF H

-----------------------------------------------------------------------------
\* The codes of the strokes are those of the strokes before, and a new one.
LEMMA DownsGrow ==
    ASSUME NEW n \in Nat, NEW s, s[n + 1].press \in BOOLEAN
    PROVE  /\ s[n + 1].press => Downs(s, n + 1) = Downs(s, n) \cup {n + 1}
           /\ ~s[n + 1].press => Downs(s, n + 1) = Downs(s, n)
           /\ Downs(s, n) \in SUBSET (1 .. n)
  <1>1. \A i : i \in 1 .. n + 1 <=> i \in 1 .. n \/ i = n + 1
    OBVIOUS
  <1>2. QED BY <1>1 DEF Downs

\* Strokes have codes.
LEMMA CodesTypes ==
    ASSUME NEW s \in Seq(Stroke)
    PROVE  /\ CodesOf(s) \in Seq(Codes) /\ Len(CodesOf(s)) = Len(s)
           /\ \A i \in 1 .. Len(s) : CodesOf(s)[i] = Code(s[i].key, s[i].shifted)
  <1>1. \A i \in 1 .. Len(s) : Code(s[i].key, s[i].shifted) \in Codes
    <2> TAKE i \in 1 .. Len(s)
    <2>1. s[i] \in Stroke
      OBVIOUS
    <2>2. s[i].key \in Key
      BY <2>1, StrokeFields
    <2>3. (s[i].shifted /\ s[i].key \in Letters) \in BOOLEAN
      OBVIOUS
    <2>4. QED BY <2>2, <2>3 DEF Code, Codes
  <1>2. DOMAIN s = 1 .. Len(s) /\ Len(s) \in Nat
    OBVIOUS
  <1>3. CodesOf(s) = [i \in 1 .. Len(s) |-> Code(s[i].key, s[i].shifted)]
    BY <1>2 DEF CodesOf
  <1>4. CodesOf(s) \in [1 .. Len(s) -> Codes]
    BY <1>1, <1>3
  <1>5. CodesOf(s) \in Seq(Codes) /\ Len(CodesOf(s)) = Len(s)
    BY <1>2, <1>4
  <1>6. QED BY <1>3, <1>5

\* A stroke does not change what the driver has made of the strokes before.
LEMMA DriverStrike ==
    ASSUME TypeInv, LinkInv, DriverInv, NEW key \in Key, NEW press \in BOOLEAN,
           Strike(key, press)
    PROVE  DriverInv'
  <1> SUFFICES ASSUME library' = "driver", NothingLost'
               PROVE  /\ shift' = ShiftIn(typed', Left')
                      /\ got' = Picked(CodesOf(typed'), Downs(typed', Left'))
    BY DEF DriverInv
  <1>1. UNCHANGED <<library, shift, got, missed>> /\ kbdOverflowed' = 0
    BY DEF Strike, guestVars, NothingLost
  <1>2. /\ kbdOverflowed = 0 /\ Left' = Left /\ Left \in 0 .. Len(typed)
        /\ ShiftIn(typed', Left) = ShiftIn(typed, Left)
        /\ \A i \in 1 .. Left : i \in 1 .. Len(typed) /\ i \in 1 .. Len(typed')
                                /\ typed'[i] = typed[i]
    BY <1>1, StrikeKeeps
  <1>3. shift = ShiftIn(typed, Left) /\ got = Picked(CodesOf(typed), Downs(typed, Left))
    BY <1>1, <1>2 DEF DriverInv, NothingLost
  <1>4. Downs(typed', Left) = Downs(typed, Left) /\ Downs(typed, Left) \in SUBSET (1 .. Left)
    BY <1>2 DEF Downs
  <1>5. \A i \in Downs(typed, Left) : CodesOf(typed')[i] = CodesOf(typed)[i]
    <2>1. typed \in Seq(Stroke) /\ typed' \in Seq(Stroke)
      BY StrikeTypes DEF TypeInv, UserTypes
    <2>2. QED BY <1>2, <1>4, <2>1, CodesTypes
  <1>6. Left \in Nat
    BY <1>2
  <1>7. Downs(typed, Left) \in SUBSET Int /\ IsFiniteSet(Downs(typed, Left))
    BY <1>4, <1>6, PlacesFinite
  <1>8. Picked(CodesOf(typed'), Downs(typed, Left)) = Picked(CodesOf(typed), Downs(typed, Left))
    BY <1>5, <1>7, PickedSame
  <1>9. QED BY <1>1, <1>2, <1>3, <1>4, <1>8

\* The code of a stroke is made with the Shift that the driver has seen, and
\* that is the Shift the user had: a Shift key itself has no upper case.
LEMMA CodeShifted ==
    ASSUME NEW key, NEW before \in BOOLEAN, NEW after \in BOOLEAN,
           key \notin ShiftKeys => after = before
    PROVE  Code(key, after) = Code(key, before)
  <1>1. CASE key \in ShiftKeys
    <2>1. key \notin Letters
      BY <1>1, KeysAssumption
    <2>2. (after /\ key \in Letters) = FALSE /\ (before /\ key \in Letters) = FALSE
      BY <2>1
    <2>3. QED BY <2>2 DEF Code
  <1>2. CASE key \notin ShiftKeys
    BY <1>2
  <1>3. QED BY <1>1, <1>2

\* tcm_keyboard_get_code reads a stroke.
LEMMA DriverReads ==
    ASSUME TypeInv, HistoryInv, LinkInv, DriverInv, library = "driver", NothingLost,
           NEW ev \in KeyEvent, Pop(ev), typed' = typed,
           shift' = IF ev.key \in ShiftKeys THEN ev.press ELSE shift,
           IF ev.press THEN Give(<<Code(ev.key, shift')>>) ELSE UNCHANGED got
    PROVE  /\ shift' = ShiftIn(typed, Left')
           /\ got' = Picked(CodesOf(typed), Downs(typed, Left'))
  <1> DEFINE n == Left
             st == typed[n + 1]
             cs == CodesOf(typed)
             D == Downs(typed, n)
  <1>1. kbdOverflowed = 0 /\ shift = ShiftIn(typed, n) /\ got = Picked(cs, D)
    BY DEF DriverInv, NothingLost
  <1>2. ev # NoEvent /\ ev \in AnyEvent /\ ev.press \in BOOLEAN
    BY EventFields DEF AnyEvent
  <1>3. /\ n \in Nat /\ Left' = n + 1 /\ n + 1 \in 1 .. Len(typed)
        /\ ev.key = st.key /\ ev.press = st.press
    BY <1>1, <1>2, LinkPop
  <1>4. typed \in Seq(Stroke) /\ shift \in BOOLEAN
    BY DEF TypeInv, UserTypes, GuestTypes
  <1>5. st \in Stroke
    BY <1>3, <1>4
  <1>6. /\ st.key \in ShiftKeys => ShiftIn(typed, n + 1) = st.press
        /\ st.key \notin ShiftKeys => ShiftIn(typed, n + 1) = ShiftIn(typed, n)
    BY <1>3, <1>5, HistoryStep
  <1> HIDE DEF n, st
  <1>7. shift' = ShiftIn(typed, n + 1)
    BY <1>1, <1>3, <1>6, Zenon
  <1>8. st.shifted = shift
    <2>1. st.shifted = ShiftIn(typed, (n + 1) - 1) /\ (n + 1) - 1 = n
      BY <1>3 DEF HistoryInv, st
    <2>2. QED BY <1>1, <2>1
  <1>9. cs[n + 1] = Code(ev.key, shift')
    <2>1. cs[n + 1] = Code(st.key, st.shifted)
      BY <1>3, <1>4, CodesTypes DEF st
    <2>2. shift' \in BOOLEAN
      BY <1>2, <1>4, Zenon
    <2>3. st.key \notin ShiftKeys => shift' = shift
      BY <1>3, Zenon
    <2>4. Code(st.key, shift') = Code(st.key, shift)
      BY <1>4, <2>2, <2>3, CodeShifted
    <2>5. QED BY <1>3, <1>8, <2>1, <2>4, Zenon
  <1>10. /\ ev.press => Downs(typed, n + 1) = D \cup {n + 1}
         /\ ~ev.press => Downs(typed, n + 1) = D
         /\ D \in SUBSET (1 .. n)
    BY <1>2, <1>3, DownsGrow DEF st
  <1>11. got' = Picked(cs, Downs(typed, n + 1))
    <2>1. cs \in Seq(Codes) /\ Len(cs) = Len(typed) /\ Len(typed) \in Nat
      BY <1>4, CodesTypes
    <2> HIDE DEF cs, D
    <2>2. CASE ev.press
      <3>1. n \in Nat /\ n + 1 <= Len(cs)
        BY <1>3, <2>1
      <3>2. Picked(cs, D \cup {n + 1}) = Append(Picked(cs, D), cs[n + 1])
        BY <1>10, <2>1, <3>1, PickedNext
      <3>3. Picked(cs, D) \in Seq(Codes)
        <4>1. D \in SUBSET (1 .. Len(cs))
          BY <1>10, <3>1
        <4>2. QED BY <2>1, <4>1, PickedSeq
      <3>4. cs[n + 1] \in Codes
        BY <1>3, <2>1
      <3>5. got' = got \o <<cs[n + 1]>>
        BY <1>9, <2>2 DEF Give
      <3>6. QED BY <1>1, <1>10, <2>2, <3>2, <3>3, <3>4, <3>5, AppendIsConcat
    <2>3. CASE ~ev.press
      BY <1>1, <1>10, <2>3
    <2>4. QED BY <2>2, <2>3
  <1>12. QED BY <1>3, <1>7, <1>11

\* A step of the driver's program keeps to the strokes it has read.
LEMMA DriverGuest ==
    ASSUME TypeInv, HistoryInv, LinkInv, DriverInv, DriverNext, typed' = typed
    PROVE  DriverInv'
  <1> SUFFICES ASSUME library' = "driver", NothingLost'
               PROVE  /\ shift' = ShiftIn(typed, Left')
                      /\ got' = Picked(CodesOf(typed), Downs(typed, Left'))
    BY DEF DriverInv
  <1>1. library = "driver"
    BY DEF DriverNext, CallGetCode, CallClear, CallDriver, GetCode, Clear
  <1>2. CASE UNCHANGED <<ring, missed, shift, got>>
    <2>1. kbdOverflowed' = kbdOverflowed /\ Left' = Left /\ NothingLost
      BY <1>2, LinkSame DEF NothingLost
    <2>2. QED BY <1>1, <1>2, <2>1 DEF DriverInv
  <1>3. ASSUME Pop(NoEvent), UNCHANGED <<missed, shift, got>>
        PROVE  /\ shift' = ShiftIn(typed, Left')
               /\ got' = Picked(CodesOf(typed), Downs(typed, Left'))
    <2>1. kbdOverflowed = 0 /\ NothingLost
      BY <1>3, PopKeeps DEF NothingLost
    <2>2. NoEvent \in AnyEvent /\ NoEvent \notin KeyEvent
      BY EventFields DEF AnyEvent
    <2>3. Left' = Left
      BY <1>3, <2>1, <2>2, LinkPop
    <2>4. QED BY <1>1, <1>3, <2>1, <2>3 DEF DriverInv
  <1>4. CASE CallGetCode \/ CallClear
    BY <1>2, <1>4 DEF CallGetCode, CallClear, CallDriver
  <1>5. CASE GetCode
    <2>1. PICK ev \in KeyEvent \cup {NoEvent} :
            /\ Pop(ev)
            /\ shift' = IF ev.key \in ShiftKeys THEN ev.press ELSE shift
            /\ IF ev.press THEN Give(<<Code(ev.key, shift')>>) ELSE UNCHANGED got
      BY <1>5 DEF GetCode
    <2>2. missed' = missed
      BY <1>5 DEF GetCode
    <2>3. NothingLost
      BY <2>1, <2>2, PopKeeps DEF NothingLost
    <2>4. CASE ev \in KeyEvent
      BY <1>1, <2>1, <2>3, <2>4, DriverReads
    <2>5. CASE ev = NoEvent
      <3>1. "" \notin ShiftKeys
        BY KeysAssumption, KeyAssumption
      <3>2. UNCHANGED <<shift, got>>
        BY <2>1, <2>5, <3>1, EventFields
      <3>3. QED BY <1>3, <2>1, <2>2, <2>5, <3>2
    <2>6. QED BY <2>1, <2>4, <2>5
  <1>6. CASE Clear
    <2>1. PICK ev \in KeyEvent \cup {NoEvent} : Pop(ev) /\ missed' = (missed \/ ev # NoEvent)
      BY <1>6 DEF Clear
    <2>2. ~missed' /\ missed \in BOOLEAN /\ UNCHANGED <<shift, got>>
      BY <1>6 DEF NothingLost, TypeInv, GuestTypes, Clear
    <2>3. ev = NoEvent /\ missed' = missed
      BY <2>1, <2>2, Zenon
    <2>4. QED BY <1>3, <2>1, <2>2, <2>3
  <1>7. QED BY <1>4, <1>5, <1>6 DEF DriverNext

\* Two sequences, one behind the other.
LEMMA Joined ==
    ASSUME NEW S, NEW x \in Seq(S), NEW y \in Seq(S)
    PROVE  /\ x \o y \in Seq(S) /\ Len(x \o y) = Len(x) + Len(y)
           /\ \A i \in 1 .. Len(x) : (x \o y)[i] = x[i]
           /\ \A i \in 1 .. Len(y) : (x \o y)[Len(x) + i] = y[i]
  <1>1. Len(x) \in Nat /\ Len(y) \in Nat
    OBVIOUS
  <1>2. /\ \A i \in 1 .. Len(x) : i \in 1 .. Len(x) + Len(y) /\ i <= Len(x)
        /\ \A i \in 1 .. Len(y) : Len(x) + i \in 1 .. Len(x) + Len(y)
                                  /\ (Len(x) + i) - Len(x) = i /\ ~(Len(x) + i <= Len(x))
    BY <1>1
  <1>3. QED BY <1>2, ConcatProperties

\* Three sequences, one behind the other.
LEMMA JoinedThree ==
    ASSUME NEW S, NEW x \in Seq(S), NEW y \in Seq(S), NEW z \in Seq(S)
    PROVE  LET t == (x \o y) \o z
           IN  /\ t \in Seq(S) /\ Len(t) = Len(x) + Len(y) + Len(z)
               /\ \A i \in 1 .. Len(x) : t[i] = x[i]
               /\ \A i \in 1 .. Len(y) : t[Len(x) + i] = y[i]
               /\ \A i \in 1 .. Len(z) : t[Len(x) + Len(y) + i] = z[i]
  <1> DEFINE u == x \o y
  <1>1. /\ u \in Seq(S) /\ Len(u) = Len(x) + Len(y)
        /\ \A i \in 1 .. Len(x) : u[i] = x[i]
        /\ \A i \in 1 .. Len(y) : u[Len(x) + i] = y[i]
    BY Joined
  <1> HIDE DEF u
  <1>2. /\ u \o z \in Seq(S) /\ Len(u \o z) = Len(u) + Len(z)
        /\ \A i \in 1 .. Len(u) : (u \o z)[i] = u[i]
        /\ \A i \in 1 .. Len(z) : (u \o z)[Len(u) + i] = z[i]
    <2>1. ASSUME NEW v \in Seq(S)
          PROVE  /\ v \o z \in Seq(S) /\ Len(v \o z) = Len(v) + Len(z)
                 /\ \A i \in 1 .. Len(v) : (v \o z)[i] = v[i]
                 /\ \A i \in 1 .. Len(z) : (v \o z)[Len(v) + i] = z[i]
      BY Joined
    <2>2. QED BY <1>1, <2>1
  <1>3. /\ \A i \in 1 .. Len(x) : i \in 1 .. Len(u)
        /\ \A i \in 1 .. Len(y) : Len(x) + i \in 1 .. Len(u)
    <2>1. Len(x) \in Nat /\ Len(y) \in Nat
      OBVIOUS
    <2>2. QED BY <1>1, <2>1
  <1>4. QED BY <1>1, <1>2, <1>3 DEF u

\* Strokes have events.
LEMMA EventsTypes ==
    ASSUME NEW lib, NEW s \in Seq(Stroke)
    PROVE  /\ EventsIn(lib, s) \in Seq(SdlEvent) /\ Len(EventsIn(lib, s)) = Len(s)
           /\ \A i \in 1 .. Len(s) :
                 EventsIn(lib, s)[i] = [type |-> TypeOf(s[i]), key |-> s[i].key,
                                        mods |-> IF lib = "sdl1" THEN s[i].mods ELSE {}]
  <1> DEFINE e(i) == [type |-> TypeOf(s[i]), key |-> s[i].key,
                      mods |-> IF lib = "sdl1" THEN s[i].mods ELSE {}]
  <1>1. \A i \in 1 .. Len(s) : e(i) \in SdlEvent
    <2> TAKE i \in 1 .. Len(s)
    <2>1. s[i].key \in Key /\ s[i].mods \in SUBSET ShiftKeys
      <3>1. s[i] \in Stroke OBVIOUS
      <3>2. QED BY <3>1, StrokeFields
    <2>2. TypeOf(s[i]) \in EventTypes
      BY DEF TypeOf, EventTypes
    <2>3. QED BY <2>1, <2>2 DEF SdlEvent
  <1> HIDE DEF e
  <1>2. DOMAIN s = 1 .. Len(s) /\ Len(s) \in Nat
    OBVIOUS
  <1>3. EventsIn(lib, s) = [i \in 1 .. Len(s) |-> e(i)]
    BY <1>2 DEF EventsIn, e
  <1>4. EventsIn(lib, s) \in [1 .. Len(s) -> SdlEvent]
    BY <1>1, <1>3
  <1>5. EventsIn(lib, s) \in Seq(SdlEvent) /\ Len(EventsIn(lib, s)) = Len(s)
    BY <1>2, <1>4
  <1>6. \A i \in 1 .. Len(s) : EventsIn(lib, s)[i] = e(i)
    BY <1>3
  <1>7. QED BY <1>5, <1>6 DEF e

\* The events of one stroke more.
LEMMA EventsGrow ==
    ASSUME NEW lib, NEW s \in Seq(Stroke), NEW n \in Nat, n + 1 <= Len(s), NEW T
    PROVE  LET old == Picked(EventsIn(lib, s), Arrived(s, n, T))
               new == Picked(EventsIn(lib, s), Arrived(s, n + 1, T))
               counts == s[n + 1].key \notin Unmapped /\ TypeOf(s[n + 1]) \in T
           IN  /\ counts => new = Append(old, EventsIn(lib, s)[n + 1])
               /\ ~counts => new = old
  <1>1. \A i : i \in 1 .. n + 1 <=> i \in 1 .. n \/ i = n + 1
    OBVIOUS
  <1>2. /\ s[n + 1].key \notin Unmapped /\ TypeOf(s[n + 1]) \in T
              => Arrived(s, n + 1, T) = Arrived(s, n, T) \cup {n + 1}
        /\ ~(s[n + 1].key \notin Unmapped /\ TypeOf(s[n + 1]) \in T)
              => Arrived(s, n + 1, T) = Arrived(s, n, T)
        /\ Arrived(s, n, T) \in SUBSET (1 .. n)
    BY <1>1 DEF Arrived
  <1>3. EventsIn(lib, s) \in Seq(SdlEvent) /\ Len(EventsIn(lib, s)) = Len(s)
    BY EventsTypes
  <1>4. Picked(EventsIn(lib, s), Arrived(s, n, T) \cup {n + 1})
            = Append(Picked(EventsIn(lib, s), Arrived(s, n, T)), EventsIn(lib, s)[n + 1])
    BY <1>2, <1>3, PickedNext
  <1>5. QED BY <1>2, <1>4

\* One more event in what SDL has made of the strokes.
LEMMA StreamGrows ==
    ASSUME NEW s \in Seq(SdlEvent), NEW e \in SdlEvent, NEW T
    PROVE  LET t == Append(s, e)
           IN  /\ e.type \in T => Picked(t, OfTypes(t, T)) = Append(Picked(s, OfTypes(s, T)), e)
               /\ e.type \notin T => Picked(t, OfTypes(t, T)) = Picked(s, OfTypes(s, T))
  <1> DEFINE t == Append(s, e)
             n == Len(s)
             P == OfTypes(s, T)
  <1>1. /\ t \in Seq(SdlEvent) /\ Len(t) = n + 1 /\ t[n + 1] = e /\ n \in Nat
        /\ \A i \in 1 .. n : t[i] = s[i]
    BY AppendProperties
  <1>2. DOMAIN s = 1 .. n /\ DOMAIN t = 1 .. n + 1
    BY <1>1
  <1>3. \A i : i \in 1 .. n + 1 <=> i \in 1 .. n \/ i = n + 1
    BY <1>1
  <1> HIDE DEF t, n
  <1>4. /\ e.type \in T => OfTypes(t, T) = P \cup {n + 1}
        /\ e.type \notin T => OfTypes(t, T) = P
        /\ P \in SUBSET (1 .. n)
    BY <1>1, <1>2, <1>3 DEF OfTypes
  <1> HIDE DEF P
  <1>5. P \in SUBSET Int /\ IsFiniteSet(P)
    BY <1>1, <1>4, PlacesFinite
  <1>6. \A p \in P : t[p] = s[p]
    BY <1>1, <1>4
  <1>7. Picked(t, P) = Picked(s, P)
    BY <1>5, <1>6, PickedSame
  <1>8. Picked(t, P \cup {n + 1}) = Append(Picked(t, P), t[n + 1])
    <2>1. n + 1 <= Len(t)
      BY <1>1
    <2>2. QED BY <1>1, <1>4, <2>1, PickedNext
  <1>9. /\ e.type \in T => Picked(t, OfTypes(t, T)) = Append(Picked(s, P), e)
        /\ e.type \notin T => Picked(t, OfTypes(t, T)) = Picked(s, P)
    BY <1>1, <1>4, <1>7, <1>8
  <1>10. QED BY <1>9 DEF t, P

-----------------------------------------------------------------------------
\* Taking out events that are older than those that stay, as far as they are of
\* these types, does not change the order of the events of these types.
LEMMA TakenOut ==
    ASSUME NEW g \in Seq(SdlEvent), evtQueue \in Seq(SdlEvent),
           NEW M \in SUBSET (1 .. Len(evtQueue)), NEW T, OlderIn(M, T)
    PROVE  LET s == g \o evtQueue
               t == (g \o Picked(evtQueue, M)) \o Picked(evtQueue, Others(M))
           IN  Picked(t, OfTypes(t, T)) = Picked(s, OfTypes(s, T))
  <1> DEFINE R == Others(M)
             a == Len(g)
             n == Len(evtQueue)
             m == Cardinality(M)
             r == Cardinality(R)
             s == g \o evtQueue
             t == (g \o Picked(evtQueue, M)) \o Picked(evtQueue, R)
             P == OfTypes(s, T)
             Q == OfTypes(t, T)
             th == [i \in P |-> IF i <= a THEN i
                                ELSE IF i - a \in M THEN a + Rank(M, i - a)
                                ELSE a + m + Rank(R, i - a)]
  <1>1. a \in Nat /\ n \in Nat /\ R \in SUBSET (1 .. n)
    BY DEF Others
  <1>2. /\ M \in SUBSET Int /\ IsFiniteSet(M) /\ m \in Nat
        /\ R \in SUBSET Int /\ IsFiniteSet(R) /\ r \in Nat
    BY <1>1, PlacesFinite
  <1>3. /\ s \in Seq(SdlEvent) /\ Len(s) = a + n
        /\ \A i \in 1 .. a : s[i] = g[i]
        /\ \A i \in 1 .. n : s[a + i] = evtQueue[i]
    BY Joined
  <1>4. /\ Picked(evtQueue, M) \in Seq(SdlEvent) /\ Len(Picked(evtQueue, M)) = m
        /\ \A i \in 1 .. m : Nth(M, i) \in M /\ Picked(evtQueue, M)[i] = evtQueue[Nth(M, i)]
    BY PickedSeq
  <1>5. /\ Picked(evtQueue, R) \in Seq(SdlEvent) /\ Len(Picked(evtQueue, R)) = r
        /\ \A i \in 1 .. r : Nth(R, i) \in R /\ Picked(evtQueue, R)[i] = evtQueue[Nth(R, i)]
    BY <1>1, PickedSeq
  <1> HIDE DEF m, r, R
  <1>6. /\ t \in Seq(SdlEvent) /\ Len(t) = a + m + r
        /\ \A i \in 1 .. a : t[i] = g[i]
        /\ \A i \in 1 .. m : t[a + i] = Picked(evtQueue, M)[i]
        /\ \A i \in 1 .. r : t[a + m + i] = Picked(evtQueue, R)[i]
    <2>1. ASSUME NEW y \in Seq(SdlEvent), NEW z \in Seq(SdlEvent)
          PROVE  /\ (g \o y) \o z \in Seq(SdlEvent)
                 /\ Len((g \o y) \o z) = a + Len(y) + Len(z)
                 /\ \A i \in 1 .. a : ((g \o y) \o z)[i] = g[i]
                 /\ \A i \in 1 .. Len(y) : ((g \o y) \o z)[a + i] = y[i]
                 /\ \A i \in 1 .. Len(z) : ((g \o y) \o z)[a + Len(y) + i] = z[i]
      BY JoinedThree
    <2>2. QED BY <1>4, <1>5, <2>1, ZenonT(40)
  <1> HIDE DEF s, t, a, n
  <1>8. /\ DOMAIN s = 1 .. a + n /\ DOMAIN t = 1 .. a + m + r
        /\ P \in SUBSET (1 .. a + n) /\ Q \in SUBSET (1 .. a + m + r)
        /\ (\A i \in 1 .. a + n : i \in P <=> s[i].type \in T)
        /\ \A i \in 1 .. a + m + r : i \in Q <=> t[i].type \in T
    BY <1>3, <1>6 DEF OfTypes
  \* Where a place of the queue goes.
  <1>9. \A i \in 1 .. a : i \in 1 .. a + m + r /\ t[i] = s[i]
    <2>1. \A i \in 1 .. a : i \in 1 .. a + m /\ i \in 1 .. a + m + r
      BY <1>1, <1>2
    <2>2. QED BY <1>3, <1>6, <2>1
  <1>10. ASSUME NEW p \in M
         PROVE  /\ Rank(M, p) \in 1 .. m /\ a + Rank(M, p) \in 1 .. a + m + r
                /\ t[a + Rank(M, p)] = evtQueue[p]
    <2>1. Rank(M, p) \in 1 .. m /\ Nth(M, Rank(M, p)) = p
      BY <1>2, Enumerated DEF m
    <2>2. a + Rank(M, p) \in 1 .. a + m /\ a + Rank(M, p) \in 1 .. a + m + r
      BY <1>1, <1>2, <2>1
    <2>3. QED BY <1>4, <1>6, <2>1, <2>2
  <1>11. ASSUME NEW p \in R
         PROVE  /\ Rank(R, p) \in 1 .. r /\ a + m + Rank(R, p) \in 1 .. a + m + r
                /\ t[a + m + Rank(R, p)] = evtQueue[p]
    <2>1. Rank(R, p) \in 1 .. r /\ Nth(R, Rank(R, p)) = p
      BY <1>2, Enumerated DEF r
    <2>2. a + m + Rank(R, p) \in 1 .. a + m + r
      BY <1>1, <1>2, <2>1
    <2>3. QED BY <1>5, <1>6, <2>1, <2>2
  <1>12. ASSUME NEW i \in 1 .. a + n, ~(i <= a)
         PROVE  /\ i - a \in 1 .. n /\ (i - a \in M \/ i - a \in R) /\ s[i] = evtQueue[i - a]
    <2>1. i - a \in 1 .. n /\ a + (i - a) = i
      BY <1>1, <1>12
    <2>2. i - a \in M \/ i - a \in R
      BY <2>1 DEF R, Others, n
    <2>3. QED BY <1>3, <2>1, <2>2
  <1> DEFINE to(i) == IF i <= a THEN i ELSE IF i - a \in M THEN a + Rank(M, i - a)
                      ELSE a + m + Rank(R, i - a)
  <1>13. ASSUME NEW i \in 1 .. a + n
         PROVE  to(i) \in 1 .. a + m + r /\ t[to(i)] = s[i]
    <2>1. CASE i <= a
      <3>1. i \in 1 .. a
        BY <1>1, <2>1
      <3>2. QED BY <1>9, <2>1, <3>1
    <2>2. CASE ~(i <= a) /\ i - a \in M
      BY <1>10, <1>12, <2>2
    <2>3. CASE ~(i <= a) /\ i - a \notin M
      BY <1>11, <1>12, <2>3
    <2>4. QED BY <2>1, <2>2, <2>3
  <1>14. \A i \in P : th[i] = to(i)
    OBVIOUS
  <1> HIDE DEF th, to
  <1>15. \A i \in P : th[i] \in Q /\ t[th[i]] = s[i]
    <2> HIDE DEF P, Q
    <2>1. QED BY <1>8, <1>13, <1>14
  <1>16. th \in [P -> Q]
    BY <1>15 DEF th
  <1>17. ASSUME NEW q \in Q PROVE \E p \in P : th[p] = q
    <2> SUFFICES ASSUME NEW i \in 1 .. a + n, to(i) = q PROVE \E p \in P : th[p] = q
      <3>1. q \in 1 .. a + m + r
        BY <1>8
      <3>2. CASE q <= a
        <4>1. q \in 1 .. a + n
          BY <1>1, <3>1, <3>2
        <4>2. QED BY <3>2, <4>1 DEF to
      <3>3. CASE ~(q <= a) /\ q - a <= m
        <4>1. q - a \in 1 .. m
          BY <1>1, <1>2, <3>1, <3>3
        <4>2. Nth(M, q - a) \in M /\ Rank(M, Nth(M, q - a)) = q - a
          BY <1>2, <4>1, Enumerated DEF m
        <4>3. Nth(M, q - a) \in 1 .. n
          BY <4>2 DEF n
        <4>4. a + Nth(M, q - a) \in 1 .. a + n /\ (a + Nth(M, q - a)) - a = Nth(M, q - a)
              /\ ~(a + Nth(M, q - a) <= a) /\ a + (q - a) = q
          BY <1>1, <3>1, <4>3
        <4>5. to(a + Nth(M, q - a)) = q
          BY <4>2, <4>4 DEF to
        <4>6. QED BY <4>4, <4>5
      <3>4. CASE ~(q - a <= m)
        <4> DEFINE k == q - a - m
        <4>1. k \in 1 .. r
          BY <1>1, <1>2, <3>1, <3>4
        <4>2. Nth(R, k) \in R /\ Rank(R, Nth(R, k)) = k
          <5> HIDE DEF k
          <5>1. QED BY <1>2, <4>1, Enumerated DEF r
        <4>3. Nth(R, k) \in 1 .. n /\ Nth(R, k) \notin M
          BY <4>2 DEF n, R, Others
        <4>4. a + Nth(R, k) \in 1 .. a + n /\ (a + Nth(R, k)) - a = Nth(R, k)
              /\ ~(a + Nth(R, k) <= a) /\ a + m + k = q
          <5>1. a + m + k = q
            BY <1>1, <1>2, <3>1
          <5> HIDE DEF k
          <5>2. QED BY <1>1, <4>3, <5>1
        <4>5. to(a + Nth(R, k)) = q
          <5> HIDE DEF k
          <5>1. QED BY <4>2, <4>3, <4>4 DEF to
        <4>6. QED BY <4>4, <4>5
      <3>5. q \in Int /\ a \in Nat
        BY <1>1, <3>1
      <3>6. QED BY <1>1, <1>2, <3>2, <3>3, <3>4, <3>5
    <2>1. t[q].type \in T
      BY <1>8
    <2>2. i \in P
      BY <1>8, <1>13, <2>1
    <2>3. QED BY <1>14, <2>2
  <1>18. ASSUME NEW i \in P, NEW j \in P, i < j PROVE th[i] < th[j]
    <2>1. i \in 1 .. a + n /\ j \in 1 .. a + n /\ s[i].type \in T /\ s[j].type \in T
      BY <1>8
    <2>2. SUFFICES to(i) < to(j)
      BY <1>14
    <2>3. CASE j <= a
      BY <1>1, <1>18, <2>1, <2>3 DEF to
    <2>4. CASE i <= a /\ ~(j <= a)
      <3>1. CASE j - a \in M
        BY <1>1, <1>10, <2>1, <2>4, <3>1 DEF to
      <3>2. CASE j - a \notin M
        <4>1. Rank(R, j - a) \in 1 .. r
          BY <1>11, <1>12, <2>1, <2>4, <3>2
        <4>2. QED BY <1>1, <1>2, <2>1, <2>4, <3>2, <4>1 DEF to
      <3>3. QED BY <3>1, <3>2
    <2>5. CASE ~(i <= a)
      <3>1. ~(j <= a) /\ i - a < j - a
        BY <1>1, <1>18, <2>1, <2>5
      <3>2. /\ i - a \in 1 .. n /\ (i - a \in M \/ i - a \in R) /\ s[i] = evtQueue[i - a]
            /\ j - a \in 1 .. n /\ (j - a \in M \/ j - a \in R) /\ s[j] = evtQueue[j - a]
        BY <1>12, <2>1, <2>5, <3>1
      <3>3. CASE i - a \in M /\ j - a \in M
        <4>1. Rank(M, i - a) < Rank(M, j - a) /\ Rank(M, i - a) \in Nat /\ Rank(M, j - a) \in Nat
          BY <1>2, <3>1, <3>3, RankGrows
        <4>2. QED BY <1>1, <2>5, <3>1, <3>3, <4>1 DEF to
      <3>4. CASE i - a \in M /\ j - a \notin M
        <4>1. Rank(M, i - a) \in 1 .. m /\ Rank(R, j - a) \in 1 .. r
          BY <1>10, <1>11, <3>2, <3>4
        <4>2. QED BY <1>1, <1>2, <2>5, <3>1, <3>4, <4>1 DEF to
      <3>5. CASE i - a \notin M /\ j - a \in M
        <4>1. i - a \in R
          BY <3>2, <3>5
        <4>2. j - a < i - a
          BY <2>1, <3>2, <3>5, <4>1 DEF OlderIn, R
        <4>3. QED BY <1>1, <2>1, <3>1, <4>2
      <3>6. CASE i - a \notin M /\ j - a \notin M
        <4>1. i - a \in R /\ j - a \in R
          BY <3>2, <3>6
        <4>2. Rank(R, i - a) < Rank(R, j - a) /\ Rank(R, i - a) \in Nat /\ Rank(R, j - a) \in Nat
          BY <1>2, <3>1, <4>1, RankGrows
        <4>3. QED BY <1>1, <1>2, <2>5, <3>1, <3>6, <4>2 DEF to
      <3>7. QED BY <3>3, <3>4, <3>5, <3>6
    <2>6. QED BY <2>3, <2>4, <2>5
  <1>19. Carries(th, s, P, t, Q)
    <2> HIDE DEF P, Q
    <2>1. QED BY <1>15, <1>16, <1>17, <1>18 DEF Carries
  <1>20. P \in SUBSET Int /\ IsFiniteSet(P) /\ Q \in SUBSET Int
    <2>1. a + n \in Nat /\ a + m + r \in Nat
      BY <1>1, <1>2
    <2>2. QED BY <1>8, <2>1, PlacesFinite
  <1>21. Picked(t, Q) = Picked(s, P)
    <2> HIDE DEF P, Q
    <2>1. QED BY <1>19, <1>20, Renumbered
  <1>22. QED BY <1>21 DEF s, t, R

\* The events of the types T are those of the first n strokes, in order.
InOrder(lib, stream, s, n, T) ==
    Picked(stream, OfTypes(stream, T)) = Picked(EventsIn(lib, s), Arrived(s, n, T))

\* OrderInv in a state.
LEMMA OrderMeans ==
    OrderInv <=> (library # "driver" /\ NothingLost =>
                     \A T \in Kinds : InOrder(library, Stream, typed, Left, T))
  BY DEF OrderInv, InOrder

\* OrderInv in the next state.
LEMMA OrderMeansNext ==
    OrderInv' <=> (library' # "driver" /\ NothingLost' =>
                      \A T \in Kinds' : InOrder(library', Stream', typed', Left', T))
  BY DEF OrderInv, InOrder

\* No kind of key event is a program's own event.
LEMMA KindsOfKeys == \A T \in Kinds : "user" \notin T
  BY DEF Kinds

\* A stroke does not change the order of the events of the strokes before.
LEMMA OrderStrike ==
    ASSUME TypeInv, LinkInv, OrderInv, NEW key \in Key, NEW press \in BOOLEAN,
           Strike(key, press)
    PROVE  OrderInv'
  <1> SUFFICES ASSUME library' # "driver", NothingLost', NEW T \in Kinds'
               PROVE  InOrder(library', Stream', typed', Left', T)
    BY OrderMeansNext
  <1>1. UNCHANGED <<library, got, evtQueue, missed>> /\ kbdOverflowed' = 0
    BY DEF Strike, guestVars, NothingLost
  <1>2. /\ kbdOverflowed = 0 /\ Left' = Left /\ Left \in 0 .. Len(typed)
        /\ \A i \in 1 .. Left : i \in 1 .. Len(typed) /\ i \in 1 .. Len(typed')
                                /\ typed'[i] = typed[i]
    BY <1>1, StrikeKeeps
  <1>3. Stream' = Stream /\ T \in Kinds
    BY <1>1 DEF Stream, Kinds
  <1>4. InOrder(library, Stream, typed, Left, T)
    BY <1>1, <1>2, <1>3, OrderMeans DEF NothingLost
  <1> DEFINE A == Arrived(typed, Left, T)
  <1>5. Arrived(typed', Left, T) = A /\ A \in SUBSET (1 .. Left)
    BY <1>2 DEF Arrived
  <1>6. typed \in Seq(Stroke) /\ typed' \in Seq(Stroke)
    BY StrikeTypes DEF TypeInv, UserTypes
  <1>7. A \in SUBSET Int /\ IsFiniteSet(A)
    <2>1. Left \in Nat
      BY <1>2
    <2>2. QED BY <1>5, <2>1, PlacesFinite
  <1>8. \A i \in 1 .. Left : EventsIn(library, typed')[i] = EventsIn(library, typed)[i]
    <2> TAKE i \in 1 .. Left
    <2>1. i \in DOMAIN typed /\ i \in DOMAIN typed' /\ typed'[i] = typed[i]
      BY <1>2, <1>6
    <2>2. QED BY <2>1 DEF EventsIn
  <1>9. Picked(EventsIn(library, typed'), A) = Picked(EventsIn(library, typed), A)
    <2> HIDE DEF A
    <2>1. \A i \in A : EventsIn(library, typed')[i] = EventsIn(library, typed)[i]
      BY <1>5, <1>8
    <2>2. QED BY <1>7, <2>1, PickedSame
  <1>10. QED BY <1>1, <1>2, <1>3, <1>4, <1>5, <1>9 DEF InOrder

\* The event that SDL makes of the stroke it reads is the event of that stroke.
LEMMA EventRead ==
    ASSUME TypeInv, HistoryInv, LinkInv, KeyInv, library # "driver", kbdOverflowed = 0,
           NEW ev \in KeyEvent, Pop(ev), typed' = typed
    PROVE  /\ Left \in Nat /\ Left' = Left + 1 /\ Left + 1 <= Len(typed)
           /\ ev.key = typed[Left + 1].key
           /\ (IF ev.press THEN "down" ELSE "up") = TypeOf(typed[Left + 1])
           /\ [type |-> IF ev.press THEN "down" ELSE "up", key |-> ev.key,
               mods |-> IF library = "sdl1" THEN keyState \cap ShiftKeys ELSE {}]
                 = EventsIn(library, typed)[Left + 1]
           /\ EventsIn(library, typed)[Left + 1].type = TypeOf(typed[Left + 1])
  <1>1. ev # NoEvent /\ ev \in AnyEvent
    BY EventFields DEF AnyEvent
  <1>2. Left \in Nat /\ Left' = Left + 1 /\ Left + 1 \in 1 .. Len(typed)
        /\ ev.key = typed[Left + 1].key /\ ev.press = typed[Left + 1].press
    BY <1>1, LinkPop
  <1>3. typed \in Seq(Stroke)
    BY DEF TypeInv, UserTypes
  <1>4. EventsIn(library, typed)[Left + 1]
          = [type |-> TypeOf(typed[Left + 1]), key |-> typed[Left + 1].key,
             mods |-> IF library = "sdl1" THEN typed[Left + 1].mods ELSE {}]
    BY <1>2, <1>3, EventsTypes
  <1>5. keyState \cap ShiftKeys = typed[Left + 1].mods
    <2>1. keyState = HeldIn(typed, Left) \ Unmapped
      BY DEF KeyInv
    <2>2. (Left + 1) - 1 = Left
      BY <1>2
    <2>3. typed[Left + 1].mods = HeldIn(typed, Left) \cap ShiftKeys
      BY <1>2, <2>2 DEF HistoryInv
    <2>4. QED BY <2>1, <2>3, KeysAssumption
  <1>6. (IF ev.press THEN "down" ELSE "up") = TypeOf(typed[Left + 1])
    BY <1>2 DEF TypeOf
  <1>7. Left + 1 <= Len(typed)
    BY <1>2
  <1>8. [type |-> IF ev.press THEN "down" ELSE "up", key |-> ev.key,
         mods |-> IF library = "sdl1" THEN keyState \cap ShiftKeys ELSE {}]
          = EventsIn(library, typed)[Left + 1]
    BY <1>2, <1>4, <1>5, <1>6
  <1>9. EventsIn(library, typed)[Left + 1].type = TypeOf(typed[Left + 1])
    BY <1>4
  <1>10. QED BY <1>2, <1>6, <1>7, <1>8, <1>9

\* A new event goes behind everything SDL has made of the strokes.
LEMMA StreamAppend ==
    ASSUME got \in Seq(SdlEvent), QueueTypes, NEW e \in SdlEvent, Enqueue(e), ~missed',
           got' = got
    PROVE  Stream' = Append(Stream, e) /\ Stream \in Seq(SdlEvent) /\ missed' = missed
  <1>1. evtQueue' = Append(evtQueue, e) /\ missed' = missed
    BY DEF Enqueue
  <1>2. Stream \in Seq(SdlEvent)
    BY ConcatProperties DEF Stream, QueueTypes
  <1>3. got \o Append(evtQueue, e) = Append(got \o evtQueue, e)
    <2>1. evtQueue \in Seq(SdlEvent) /\ <<e>> \in Seq(SdlEvent)
      BY DEF QueueTypes
    <2>2. Append(evtQueue, e) = evtQueue \o <<e>>
      BY <2>1, AppendIsConcat
    <2>3. Append(got \o evtQueue, e) = (got \o evtQueue) \o <<e>>
      BY <1>2, AppendIsConcat DEF Stream
    <2>4. got \o (evtQueue \o <<e>>) = (got \o evtQueue) \o <<e>>
      BY <2>1, ConcatAssociative
    <2>5. QED BY <2>2, <2>3, <2>4
  <1>4. QED BY <1>1, <1>2, <1>3 DEF Stream

\* What is given from the front of the queue stays in the stream.
LEMMA StreamGiven ==
    ASSUME got \in Seq(SdlEvent), QueueTypes, GiveOldest \/ UNCHANGED <<got, evtQueue>>
    PROVE  Stream' = Stream
  <1>1. CASE UNCHANGED <<got, evtQueue>>
    BY <1>1 DEF Stream
  <1>2. CASE GiveOldest /\ evtQueue = <<>>
    BY <1>2 DEF Stream, GiveOldest
  <1>3. CASE GiveOldest /\ evtQueue # <<>>
    <2> DEFINE h == Head(evtQueue)
               t == Tail(evtQueue)
    <2>1. got' = got \o <<h>> /\ evtQueue' = t
      BY <1>3 DEF GiveOldest, Give
    <2>2. evtQueue \in Seq(SdlEvent) /\ h \in SdlEvent /\ t \in Seq(SdlEvent)
          /\ Len(t) = Len(evtQueue) - 1 /\ Len(evtQueue) \in Nat
          /\ \A i \in 1 .. Len(t) : t[i] = evtQueue[i + 1]
      BY <1>3, HeadTailProperties DEF QueueTypes
    <2>3. h = evtQueue[1]
      BY <1>3
    <2> HIDE DEF h, t
    <2>4. <<h>> \in Seq(SdlEvent) /\ Len(<<h>>) = 1 /\ <<h>>[1] = h
      BY <2>2
    <2>5. <<h>> \o t = evtQueue
      <3>1. <<h>> \o t \in Seq(SdlEvent) /\ Len(<<h>> \o t) = 1 + Len(t)
            /\ (<<h>> \o t)[1] = h /\ \A i \in 1 .. Len(t) : (<<h>> \o t)[1 + i] = t[i]
        BY <2>2, <2>4, Joined
      <3>2. \A i \in 1 .. Len(evtQueue) : (<<h>> \o t)[i] = evtQueue[i]
        <4> TAKE i \in 1 .. Len(evtQueue)
        <4>1. CASE i = 1
          BY <2>3, <3>1, <4>1
        <4>2. CASE i # 1
          <5>1. i - 1 \in 1 .. Len(t) /\ 1 + (i - 1) = i /\ (i - 1) + 1 = i
            BY <2>2, <4>2
          <5>2. (<<h>> \o t)[1 + (i - 1)] = t[i - 1] /\ t[i - 1] = evtQueue[(i - 1) + 1]
            BY <2>2, <3>1, <5>1
          <5>3. QED BY <5>1, <5>2
        <4>3. QED BY <4>1, <4>2
      <3>3. Len(<<h>> \o t) = Len(evtQueue)
        BY <2>2, <3>1
      <3>4. QED BY <2>2, <3>1, <3>2, <3>3, SeqEqual
    <2>6. (got \o <<h>>) \o t = got \o (<<h>> \o t)
      BY <2>2, <2>4, ConcatAssociative
    <2>7. QED BY <2>1, <2>5, <2>6 DEF Stream
  <1>4. QED BY <1>1, <1>2, <1>3

\* Whatever a program with SDL does, the events of each kind keep their order.
LEMMA OrderGuest ==
    ASSUME TypeInv, HistoryInv, LinkInv, KeyInv, OrderInv, SdlDoes, typed' = typed,
           library' = library, library # "driver"
    PROVE  OrderInv'
  <1> SUFFICES ASSUME library' # "driver", NothingLost', NEW T \in Kinds'
               PROVE  InOrder(library', Stream', typed', Left', T)
    BY OrderMeansNext
  <1> DEFINE Kept == InOrder(library, Stream', typed, Left', T)
  <1> SUFFICES Kept
    OBVIOUS
  <1>1. T \in Kinds
    BY DEF Kinds
  <1>2. got \in Seq(SdlEvent) /\ QueueTypes /\ typed \in Seq(Stroke) /\ missed \in BOOLEAN
        /\ keyState \subseteq Key
    BY DEF TypeInv, GuestTypes, GotTypes, UserTypes
  <1>3. ~missed' /\ kbdOverflowed' = 0
    BY DEF NothingLost
  <1>4. ASSUME kbdOverflowed = 0, ~missed
        PROVE  InOrder(library, Stream, typed, Left, T)
    BY <1>1, <1>4, OrderMeans DEF NothingLost
  <1>5. ASSUME NEW ev \in KeyEvent, SdlRead(ev) PROVE Kept
    <2> DEFINE e == [type |-> IF ev.press THEN "down" ELSE "up", key |-> ev.key,
                     mods |-> IF library = "sdl1" THEN keyState \cap ShiftKeys ELSE {}]
    <2>1. Pop(ev) /\ Enqueue(e) /\ got' = got /\ ev.key \notin Unmapped
      BY <1>5 DEF SdlRead
    <2>2. kbdOverflowed = 0
      BY <1>3, <2>1, PopKeeps
    <2>3. /\ Left \in Nat /\ Left' = Left + 1 /\ Left + 1 <= Len(typed)
          /\ ev.key = typed[Left + 1].key
          /\ e = EventsIn(library, typed)[Left + 1]
          /\ e.type = TypeOf(typed[Left + 1])
      BY <2>1, <2>2, EventRead
    <2>4. e \in SdlEvent
      <3>1. (IF library = "sdl1" THEN keyState \cap ShiftKeys ELSE {}) \in SUBSET ShiftKeys
        OBVIOUS
      <3>2. QED BY <3>1, EventsAreEvents
    <2> HIDE DEF e
    <2>5. Stream' = Append(Stream, e) /\ Stream \in Seq(SdlEvent) /\ missed' = missed
      BY <1>2, <1>3, <2>1, <2>4, StreamAppend
    <2>6. InOrder(library, Stream, typed, Left, T)
      BY <1>3, <1>4, <2>2, <2>5
    <2>7. /\ e.type \in T => Picked(Stream', OfTypes(Stream', T))
                               = Append(Picked(Stream, OfTypes(Stream, T)), e)
          /\ e.type \notin T => Picked(Stream', OfTypes(Stream', T))
                                  = Picked(Stream, OfTypes(Stream, T))
      BY <2>4, <2>5, StreamGrows
    <2> DEFINE old == Picked(EventsIn(library, typed), Arrived(typed, Left, T))
               new == Picked(EventsIn(library, typed), Arrived(typed, Left + 1, T))
    <2>8. /\ e.type \in T => new = Append(old, e)
          /\ e.type \notin T => new = old
      BY <1>2, <2>1, <2>3, EventsGrow
    <2>9. Picked(Stream, OfTypes(Stream, T)) = old
      BY <2>6 DEF InOrder
    <2>10. Picked(Stream', OfTypes(Stream', T)) = new
      <3> HIDE DEF old, new
      <3>1. QED BY <2>7, <2>8, <2>9
    <2>11. QED BY <2>3, <2>10 DEF InOrder
  <1>6. ASSUME NEW ev \in KeyEvent, SdlSkip(ev) PROVE Kept
    <2>1. Pop(ev) /\ UNCHANGED <<missed, got, evtQueue>> /\ ev.key \in Unmapped
      BY <1>6 DEF SdlSkip
    <2>2. kbdOverflowed = 0 /\ Stream' = Stream
      BY <1>3, <2>1, PopKeeps DEF Stream
    <2>3. /\ Left \in Nat /\ Left' = Left + 1 /\ Left + 1 <= Len(typed)
          /\ ev.key = typed[Left + 1].key
      BY <2>1, <2>2, EventRead
    <2>4. InOrder(library, Stream, typed, Left, T)
      BY <1>3, <1>4, <2>1, <2>2
    <2>5. Picked(EventsIn(library, typed), Arrived(typed, Left + 1, T))
            = Picked(EventsIn(library, typed), Arrived(typed, Left, T))
      BY <1>2, <2>1, <2>3, EventsGrow
    <2>6. QED BY <2>2, <2>3, <2>4, <2>5 DEF InOrder
  <1>7. ASSUME Pop(NoEvent) \/ UNCHANGED ring
        PROVE  kbdOverflowed = 0 /\ Left' = Left
    <2>1. CASE UNCHANGED ring
      BY <1>3, <2>1, LinkSame
    <2>2. CASE Pop(NoEvent)
      <3>1. kbdOverflowed = 0 /\ NoEvent \in AnyEvent /\ NoEvent \notin KeyEvent
        BY <1>3, <2>2, PopKeeps, EventFields DEF AnyEvent
      <3>2. QED BY <2>2, <3>1, LinkPop
    <2>3. QED BY <1>7, <2>1, <2>2
  <1>8. ASSUME SdlPass PROVE Kept
    <2>1. kbdOverflowed = 0 /\ Left' = Left /\ missed' = missed
      BY <1>7, <1>8 DEF SdlPass
    <2>2. Stream' = Stream
      BY <1>2, <1>8, StreamGiven DEF SdlPass
    <2>3. QED BY <1>3, <1>4, <2>1, <2>2
  <1>9. ASSUME SdlPost PROVE Kept
    <2>1. UNCHANGED ring /\ got' = got /\ Enqueue(UserEvent)
      BY <1>9 DEF SdlPost
    <2>2. kbdOverflowed = 0 /\ Left' = Left
      BY <1>7, <2>1
    <2>3. UserEvent \in SdlEvent /\ UserEvent.type = "user"
      BY DEF UserEvent, SdlEvent, EventTypes
    <2>4. Stream' = Append(Stream, UserEvent) /\ Stream \in Seq(SdlEvent) /\ missed' = missed
      BY <1>2, <1>3, <2>1, <2>3, StreamAppend
    <2>5. UserEvent.type \notin T
      BY <1>1, <2>3, KindsOfKeys
    <2>6. Picked(Stream', OfTypes(Stream', T)) = Picked(Stream, OfTypes(Stream, T))
      BY <2>3, <2>4, <2>5, StreamGrows
    <2>7. InOrder(library, Stream, typed, Left, T)
      BY <1>3, <1>4, <2>2, <2>4
    <2>8. QED BY <2>2, <2>6, <2>7 DEF InOrder
  <1>10. ASSUME SdlPeek PROVE Kept
    <2>1. UNCHANGED ring /\ ~missed
      BY <1>3, <1>10 DEF SdlPeek
    <2>2. kbdOverflowed = 0 /\ Left' = Left
      BY <1>7, <2>1
    <2>3. PICK M \in SUBSET (1 .. Len(evtQueue)) :
            /\ Older(M)
            /\ Give(Picked(evtQueue, M)) /\ evtQueue' = Picked(evtQueue, Others(M))
      BY <1>3, <1>10 DEF SdlPeek
    <2>4. OlderIn(M, T)
      BY <1>1, <2>3 DEF Older
    <2>5. Stream' = (got \o Picked(evtQueue, M)) \o Picked(evtQueue, Others(M))
      BY <2>3 DEF Stream, Give
    <2>6. evtQueue \in Seq(SdlEvent)
      BY <1>2 DEF QueueTypes
    <2>7. Picked(Stream', OfTypes(Stream', T)) = Picked(Stream, OfTypes(Stream, T))
      BY <1>2, <2>4, <2>5, <2>6, TakenOut DEF Stream
    <2>8. InOrder(library, Stream, typed, Left, T)
      BY <1>4, <2>1, <2>2
    <2>9. QED BY <2>2, <2>7, <2>8 DEF InOrder
  <1>11. QED
    <2> HIDE DEF Kept
    <2>1. QED BY <1>5, <1>6, <1>8, <1>9, <1>10 DEF SdlDoes

-----------------------------------------------------------------------------
(***************************************************************************)
(* The inductive invariant, and what it says to a user of the keyboard.    *)
(***************************************************************************)
\* The inductive invariant.
InputInv ==
    /\ TypeInv
    /\ HistoryInv
    /\ LinkInv
    /\ KeyInv
    /\ DriverInv
    /\ OrderInv

\* Nothing has been struck, and nothing is known of it.
LEMMA InputStart == Init => InputInv
  <1> SUFFICES ASSUME Init PROVE InputInv
    OBVIOUS
  <1>1. TypeInv
    BY TypeStart
  <1>2. Len(typed) = 0 /\ typed = <<>> /\ Left = 0 /\ kbdCount = 0
    BY DEF Init, RingInit, Left
  <1>3. HeldIn(typed, 0) = {} /\ ShiftIn(typed, 0) = FALSE
    BY HistoryStart
  <1>4. HistoryInv /\ LinkInv /\ KeyInv
    BY <1>2, <1>3 DEF Init, HistoryInv, LinkInv, KeyInv
  <1>5. \A s : Picked(s, {}) = <<>>
    BY FS_EmptySet DEF Picked
  <1>6. Downs(typed, Left) = {} /\ \A T : Arrived(typed, Left, T) = {}
    BY <1>2 DEF Downs, Arrived
  <1>7. got = <<>> /\ evtQueue = <<>> /\ shift = FALSE
    BY DEF Init
  <1>8. DriverInv
    BY <1>2, <1>3, <1>5, <1>6, <1>7 DEF DriverInv
  <1>9. Stream = <<>> /\ \A T : OfTypes(Stream, T) = {}
    BY <1>7 DEF Stream, OfTypes
  <1>10. OrderInv
    BY <1>5, <1>6, <1>9 DEF OrderInv
  <1>11. QED BY <1>1, <1>4, <1>8, <1>10 DEF InputInv

\* Every step keeps the invariant.
LEMMA InputStep == InputInv /\ [Next]_vars => InputInv'
  <1> SUFFICES ASSUME InputInv, [Next]_vars PROVE InputInv'
    OBVIOUS
  <1>1. TypeInv /\ HistoryInv /\ LinkInv /\ KeyInv /\ DriverInv /\ OrderInv
    BY DEF InputInv
  <1>2. TypeInv'
    BY <1>1, TypeStep
  <1>3. CASE UserNext
    <2>1. PICK key \in Key, press \in BOOLEAN : Strike(key, press)
      BY <1>3 DEF UserNext
    <2>2. HistoryInv' /\ KeyInv' /\ DriverInv' /\ OrderInv'
      BY <1>1, <2>1, HistoryStrike, KeyStrike, DriverStrike, OrderStrike
    <2>3. LinkInv'
      <3>1. CASE kbdOverflowed' = 0
        BY <1>1, <2>1, <3>1, LinkStrike
      <3>2. CASE kbdOverflowed' # 0
        BY <3>2 DEF LinkInv
      <3>3. QED BY <3>1, <3>2
    <2>4. QED BY <1>2, <2>2, <2>3 DEF InputInv
  <1>4. ASSUME UNCHANGED <<held, typed>> PROVE HistoryInv'
    BY <1>1, <1>4 DEF HistoryInv
  <1>5. ASSUME typed' = typed, (\E ev \in AnyEvent : Pop(ev)) \/ UNCHANGED ring
        PROVE  LinkInv'
    <2>1. CASE UNCHANGED ring
      BY <1>1, <1>5, <2>1, LinkSame
    <2>2. ASSUME NEW ev \in AnyEvent, Pop(ev) PROVE LinkInv'
      <3>1. CASE kbdOverflowed' = 0
        <4>1. kbdOverflowed = 0
          BY <2>2, <3>1, PopKeeps
        <4>2. QED BY <1>1, <1>5, <2>2, <4>1, LinkPop
      <3>2. CASE kbdOverflowed' # 0
        BY <3>2 DEF LinkInv
      <3>3. QED BY <3>1, <3>2
    <2>3. QED BY <1>5, <2>1, <2>2
  <1>6. CASE DriverNext /\ UNCHANGED <<held, typed>>
    <2>1. library = "driver" /\ library' = library
      BY <1>1, <1>6 DEF DriverNext, CallGetCode, CallClear, CallDriver, GetCode, Clear,
                        TypeInv, GuestTypes
    <2>2. (\E ev \in AnyEvent : Pop(ev)) \/ UNCHANGED ring
      BY <1>6 DEF DriverNext, CallGetCode, CallClear, CallDriver, GetCode, Clear, AnyEvent
    <2>3. DriverInv'
      BY <1>1, <1>6, DriverGuest
    <2>4. KeyInv' /\ OrderInv'
      BY <2>1 DEF KeyInv, OrderInv
    <2>5. QED BY <1>2, <1>4, <1>5, <1>6, <2>2, <2>3, <2>4 DEF InputInv
  <1>7. CASE (Sdl1Next \/ Sdl2Next) /\ UNCHANGED <<held, typed>>
    <2>1. library # "driver" /\ library' = library
      BY <1>7 DEF Sdl1Next, Sdl1Key, Sdl1Unknown, Sdl1CallPump, Sdl1CallPoll, Sdl1Pumped,
           Sdl1Polled, Sdl1Push, Sdl1Get, Sdl1PeekSpins, SdlGo,
           Sdl2Next, Sdl2Key, Sdl2Unknown, Sdl2CallPump, Sdl2CallPoll, Sdl2Pumped, Sdl2Polled,
           Sdl2Push, Sdl2Get, Sdl2Go
    <2>2. SdlDoes
      BY <1>1, <1>7, Sdl1Does, Sdl2Does DEF TypeInv
    <2>3. (\E ev \in AnyEvent : Pop(ev)) \/ UNCHANGED ring
      BY <2>2 DEF SdlDoes, SdlRead, SdlSkip, SdlPass, SdlPost, SdlPeek, AnyEvent
    <2>4. KeyInv' /\ OrderInv'
      BY <1>1, <1>7, <2>1, <2>2, KeyGuest, OrderGuest
    <2>5. DriverInv'
      BY <2>1 DEF DriverInv
    <2>6. QED BY <1>2, <1>4, <1>5, <1>7, <2>3, <2>4, <2>5 DEF InputInv
  <1>8. CASE UNCHANGED vars
    <2>1. UNCHANGED <<ring, library, missed, got, shift, evtQueue, keyState, held, typed>>
      BY <1>8 DEF vars, guestVars
    <2>2. LinkInv' /\ Left' = Left /\ kbdOverflowed' = kbdOverflowed
      BY <1>1, <2>1, LinkSame
    <2>3. KeyInv' /\ DriverInv'
      BY <1>1, <2>1, <2>2 DEF KeyInv, DriverInv, NothingLost
    <2>4. OrderInv'
      BY <1>1, <2>1, <2>2 DEF OrderInv, NothingLost, Stream, Kinds
    <2>5. QED BY <1>2, <1>4, <2>1, <2>2, <2>3, <2>4 DEF InputInv
  <1>9. QED BY <1>3, <1>6, <1>7, <1>8 DEF Next, GuestNext

\* The invariant holds in every state that the system reaches.
LEMMA InputAlways == Spec => []InputInv
  BY InputStart, InputStep, PTL DEF Spec

\* Once the ring is drained, the state of the keys that SDL keeps is the state
\* they are in, whatever SDL's own queue gave up.
THEOREM KeyStateIsTrue == Spec => []KeyStateTracks
  <1>1. InputInv => KeyStateTracks
    <2> SUFFICES ASSUME InputInv, library # "driver", kbdOverflowed = 0, kbdCount = 0
                 PROVE  keyState = held \ Unmapped
      BY DEF KeyStateTracks
    <2>1. Len(typed) \in Nat
      BY DEF InputInv, TypeInv, UserTypes
    <2>2. Left = Len(typed)
      BY <2>1 DEF Left
    <2>3. QED BY <2>2 DEF InputInv, KeyInv, HistoryInv
  <1>2. QED BY <1>1, InputAlways, PTL

\* Whenever tcm_keyboard_get_code is called, it returns the ordinary keys that
\* went down, in order, each with the Shift of the moment it was struck.
THEOREM CodesAsStruck == Spec => []TypedAsStruck
  <1>1. InputInv => TypedAsStruck
    <2> DEFINE P == Downs(typed, Left)
               cs == CodesOf(typed)
               G == {i \in DOMAIN got : got[i].key \in Ordinary}
               R == {i \in 1 .. Left : typed[i].press /\ typed[i].key \in Ordinary}
               th == [i \in G |-> Nth(P, i)]
    <2> SUFFICES ASSUME InputInv, library = "driver", NothingLost
                 PROVE  Picked(got, G) = Picked(cs, R)
      BY DEF TypedAsStruck, CodesOf, Left
    <2>1. typed \in Seq(Stroke) /\ Len(typed) \in Nat /\ kbdCount \in Nat
      BY CapAssumption DEF InputInv, TypeInv, UserTypes, RingShape
    <2>2. Left \in Nat /\ Left <= Len(typed) /\ got = Picked(cs, P)
      BY <2>1 DEF InputInv, LinkInv, NothingLost, DriverInv, Left
    <2>3. cs \in Seq(Codes) /\ Len(cs) = Len(typed)
      BY <2>1, CodesTypes
    <2>4. \A i \in 1 .. Len(typed) : cs[i].key = typed[i].key
      BY <2>1 DEF CodesOf, Code
    <2>5. P \in SUBSET (1 .. Len(cs)) /\ P \in SUBSET Int /\ IsFiniteSet(P)
      <3>1. P \in SUBSET (1 .. Len(typed))
        BY <2>1, <2>2 DEF Downs
      <3> HIDE DEF P
      <3>2. QED BY <2>1, <2>3, <3>1, PlacesFinite
    <2>6. \A p : p \in R <=> p \in P /\ typed[p].key \in Ordinary
      BY DEF Downs
    <2> HIDE DEF P, cs, R
    <2>7. /\ got \in Seq(Codes) /\ Len(got) = Cardinality(P) /\ Cardinality(P) \in Nat
          /\ \A i \in 1 .. Cardinality(P) : Nth(P, i) \in P /\ got[i] = cs[Nth(P, i)]
      BY <2>2, <2>3, <2>5, PickedSeq
    <2>8. \A i \in 1 .. Cardinality(P) : i \in G <=> Nth(P, i) \in R
      <3> TAKE i \in 1 .. Cardinality(P)
      <3>1. Nth(P, i) \in P /\ got[i] = cs[Nth(P, i)] /\ i \in DOMAIN got
        BY <2>7
      <3>2. cs[Nth(P, i)].key = typed[Nth(P, i)].key
        BY <2>3, <2>4, <2>5, <3>1
      <3>3. i \in G <=> got[i].key \in Ordinary
        BY <3>1
      <3>4. QED BY <2>6, <3>1, <3>2, <3>3
    <2>9. G \in SUBSET (1 .. Cardinality(P)) /\ G \in SUBSET Int /\ IsFiniteSet(G)
      <3>1. G \in SUBSET (1 .. Cardinality(P))
        BY <2>7
      <3> HIDE DEF G
      <3>2. QED BY <2>7, <3>1, PlacesFinite
    <2> HIDE DEF G
    <2>10. R \in SUBSET Int
      BY <2>5, <2>6
    <2>11. Carries(th, got, G, cs, R)
      <3>1. th \in [G -> R]
        BY <2>8, <2>9
      <3>2. \A q \in R : \E i \in G : th[i] = q
        <4> TAKE q \in R
        <4>1. q \in P
          BY <2>6
        <4>2. Rank(P, q) \in 1 .. Cardinality(P) /\ Nth(P, Rank(P, q)) = q
          BY <2>5, <4>1, Enumerated
        <4>3. Rank(P, q) \in G
          BY <2>8, <4>2
        <4>4. QED BY <4>2, <4>3
      <3>3. ASSUME NEW i \in G, NEW j \in G, i < j PROVE th[i] < th[j]
        <4>1. Nth(P, i) < Nth(P, j)
          BY <2>5, <2>9, <3>3, NthGrows
        <4>2. QED BY <4>1
      <3>4. \A i \in G : cs[th[i]] = got[i]
        BY <2>7, <2>9
      <3> HIDE DEF th
      <3>5. QED BY <3>1, <3>2, <3>3, <3>4 DEF Carries
    <2> HIDE DEF th
    <2>12. QED BY <2>9, <2>10, <2>11, Renumbered
  <1>2. QED BY <1>1, InputAlways, PTL

\* Each stroke that has left the ring is one event of SDL, in the order struck
\* and with the modifiers of its time, whatever the program polls, peeks at or
\* pushes itself; of SDL 2 that is so for each type of event.
THEOREM EventsInOrder == Spec => []StrokesInOrder
  <1>1. InputInv => StrokesInOrder
    <2> DEFINE events == [i \in DOMAIN typed |-> EventOf(typed[i])]
               arrived(T) == {i \in 1 .. Left :
                                 typed[i].key \notin Unmapped /\ events[i].type \in T}
    <2> SUFFICES ASSUME InputInv, library # "driver", NothingLost, NEW T \in Kinds
                 PROVE  Picked(Stream, OfTypes(Stream, T)) = Picked(events, arrived(T))
      BY DEF StrokesInOrder, Kinds, Stream, OfTypes, Left
    <2>1. events = EventsIn(library, typed)
      BY DEF EventsIn, EventOf, TypeOf
    <2>2. typed \in Seq(Stroke) /\ Len(typed) \in Nat /\ kbdCount \in Nat /\ Left \in Nat
      BY CapAssumption DEF InputInv, TypeInv, UserTypes, RingShape, LinkInv, NothingLost
    <2>3. \A i \in 1 .. Left : i \in 1 .. Len(typed)
      BY <2>2 DEF Left
    <2> HIDE DEF events
    <2>4. \A i \in 1 .. Left : events[i].type = TypeOf(typed[i])
      <3> TAKE i \in 1 .. Left
      <3>1. i \in DOMAIN typed
        BY <2>2, <2>3
      <3>2. EventsIn(library, typed)[i].type = TypeOf(typed[i])
        BY <3>1 DEF EventsIn
      <3>3. QED BY <2>1, <3>2
    <2>5. arrived(T) = Arrived(typed, Left, T)
      BY <2>4 DEF Arrived
    <2> HIDE DEF arrived
    <2>6. QED BY <2>1, <2>5 DEF InputInv, OrderInv
  <1>2. QED BY <1>1, InputAlways, PTL
=============================================================================
