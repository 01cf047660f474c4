--------------------------- MODULE MemfsScanProof ---------------------------
(***************************************************************************)
(* The child lists of MemfsTree and the parent pointers are two views of   *)
(* one forest; directory scans and open directories rest on that.          *)
(***************************************************************************)
EXTENDS MemfsTreeProof, SequenceTheorems

USE SlotsAssumption, FilesAssumption, NoneAssumption

-----------------------------------------------------------------------------
\* Child lists: no entry stands in one twice.
Once(l) == \A i, j \in 1..Len(l) : l[i] = l[j] => i = j
ChildList(l) == l \in Seq(Slots) /\ Once(l)

\* The entries from x on.
From(l, x) == {l[i] : i \in Place(l, x)..Len(l)}

LEMMA PlaceOf ==
  ASSUME NEW l, NEW x \in Elems(l)
  PROVE  Place(l, x) \in 1..Len(l) /\ l[Place(l, x)] = x
BY DEF Elems, Place

LEMMA PlaceIs ==
  ASSUME NEW l, ChildList(l), NEW i \in 1..Len(l)
  PROVE  l[i] \in Elems(l) /\ Place(l, l[i]) = i
<1>1. l[i] \in Elems(l)
  BY DEF Elems
<1> QED
  BY <1>1, PlaceOf DEF ChildList, Once

LEMMA UnlinkedIs ==
  ASSUME NEW l, ChildList(l), NEW c \in Elems(l)
  PROVE  LET u == Unlinked(l, c)
             k == Place(l, c)
         IN  /\ u \in Seq(Slots) /\ Len(u) = Len(l) - 1
             /\ \A i \in 1..Len(u) : u[i] = IF i < k THEN l[i] ELSE l[i+1]
<1> DEFINE k == Place(l, c)
           s == SubSeq(l, 1, k-1)
           t == SubSeq(l, k+1, Len(l))
<1>1. k \in 1..Len(l) /\ l \in Seq(Slots) /\ Len(l) \in Nat
  BY PlaceOf DEF ChildList
<1> HIDE DEF k
<1>2. s \in Seq(Slots) /\ Len(s) = k-1 /\ \A i \in 1..k-1 : s[i] = l[i]
  BY <1>1
<1>3. t \in Seq(Slots) /\ Len(t) = Len(l)-k /\ \A i \in 1..Len(l)-k : t[i] = l[k+i]
  BY <1>1
<1>4. Unlinked(l, c) = s \o t
  BY DEF Unlinked, k
<1> HIDE DEF s, t
<1>0. Len(s) + Len(t) = Len(l) - 1
  BY <1>1, <1>2, <1>3
<1>5. /\ s \o t \in Seq(Slots) /\ Len(s \o t) = Len(l) - 1
      /\ \A i \in 1..Len(l)-1 : (s \o t)[i] = IF i <= k-1 THEN s[i] ELSE t[i-(k-1)]
  <2>1. /\ s \o t \in Seq(Slots)
        /\ Len(s \o t) = Len(s) + Len(t)
        /\ \A i \in 1..Len(s)+Len(t) : (s \o t)[i] = IF i <= Len(s) THEN s[i] ELSE t[i - Len(s)]
    BY <1>2, <1>3, ConcatProperties, ZenonT(40)
  <2> QED
    BY <1>0, <1>2, <2>1
<1>6. \A i \in 1..Len(l)-1 : (s \o t)[i] = IF i < k THEN l[i] ELSE l[i+1]
  <2> TAKE i \in 1..Len(l)-1
  <2>1. CASE i < k
    BY <1>1, <1>2, <1>5, <2>1
  <2>2. CASE ~(i < k)
    <3>1. i-(k-1) \in 1..Len(l)-k /\ k + (i-(k-1)) = i+1
      BY <1>1, <2>2
    <3> QED
      BY <1>1, <1>3, <1>5, <2>2, <3>1
  <2> QED
    BY <2>1, <2>2
<1> QED
  BY <1>4, <1>5, <1>6 DEF k

\* What removing an entry does to a list, and to the rest of a scan.
LEMMA UnlinkedList ==
  ASSUME NEW l, ChildList(l), NEW c
  PROVE  /\ ChildList(Unlinked(l, c))
         /\ Elems(Unlinked(l, c)) = Elems(l) \ {c}
         /\ \A x \in Elems(l) \ {c} : From(Unlinked(l, c), x) = From(l, x) \ {c}
<1>1. CASE c \notin Elems(l)
  <2>1. Unlinked(l, c) = l /\ Elems(l) = Elems(l) \ {c}
    BY <1>1 DEF Unlinked
  <2>2. \A x \in Elems(l) : From(l, x) \subseteq Elems(l)
    <3> SUFFICES ASSUME NEW x \in Elems(l), NEW y \in From(l, x) PROVE y \in Elems(l)
      OBVIOUS
    <3>1. PICK i \in Place(l, x)..Len(l) : y = l[i]
      BY DEF From
    <3>2. Place(l, x) \in 1..Len(l) /\ Len(l) \in Nat
      BY PlaceOf DEF ChildList
    <3> QED
      BY <3>1, <3>2 DEF Elems
  <2> QED
    BY <1>1, <2>1, <2>2
<1>2. CASE c \in Elems(l)
  <2> DEFINE u == Unlinked(l, c)
             k == Place(l, c)
  <2>1. /\ u \in Seq(Slots) /\ Len(u) = Len(l) - 1 /\ Len(l) \in Nat
        /\ \A i \in 1..Len(u) : u[i] = IF i < k THEN l[i] ELSE l[i+1]
        /\ k \in 1..Len(l) /\ l[k] = c
    BY <1>2, UnlinkedIs, PlaceOf DEF ChildList
  <2> HIDE DEF u, k
  <2>2. Once(u)
    BY <2>1 DEF Once, ChildList
  <2>3. \A j \in 1..Len(l) : j # k => l[j] # c /\ l[j] = u[IF j < k THEN j ELSE j-1]
    BY <2>1 DEF Once, ChildList
  <2>4. Elems(u) = Elems(l) \ {c}
    <3>1. ASSUME NEW x \in Elems(u) PROVE x \in Elems(l) \ {c}
      <4>1. PICK i \in 1..Len(u) : x = u[i]
        BY DEF Elems
      <4>2. PICK j \in 1..Len(l) : x = l[j] /\ j # k
        BY <2>1, <4>1
      <4> QED
        BY <2>3, <4>2 DEF Elems
    <3>2. ASSUME NEW x \in Elems(l) \ {c} PROVE x \in Elems(u)
      <4>1. PICK j \in 1..Len(l) : x = l[j] /\ j # k
        BY <2>1 DEF Elems
      <4>2. (IF j < k THEN j ELSE j-1) \in 1..Len(u)
        BY <2>1, <4>1
      <4> QED
        BY <2>3, <4>1, <4>2 DEF Elems
    <3> QED
      BY <3>1, <3>2
  <2>5. ASSUME NEW x \in Elems(l) \ {c} PROVE From(u, x) = From(l, x) \ {c}
    <3> DEFINE p == Place(l, x)
               q == IF p < k THEN p ELSE p-1
    <3>1. p \in 1..Len(l) /\ l[p] = x /\ p # k
      BY <2>1, PlaceOf
    <3> HIDE DEF p
    <3>2. q \in 1..Len(u) /\ u[q] = x
      BY <2>1, <2>3, <3>1
    <3>3. Place(u, x) = q
      BY <2>1, <2>2, <3>2, PlaceIs DEF ChildList
    <3> HIDE DEF q
    <3>4. ASSUME NEW y \in From(u, x) PROVE y \in From(l, x) \ {c}
      <4>1. PICK i \in q..Len(u) : y = u[i]
        BY <3>3 DEF From
      <4>2. PICK j \in p..Len(l) : y = l[j] /\ j # k
        <5>1. CASE i < k
          BY <2>1, <3>1, <3>2, <4>1, <5>1 DEF q
        <5>2. CASE ~(i < k)
          BY <2>1, <3>1, <3>2, <4>1, <5>2 DEF q
        <5> QED
          BY <5>1, <5>2
      <4> QED
        BY <2>3, <3>1, <4>2 DEF From, p
    <3>5. ASSUME NEW y \in From(l, x) \ {c} PROVE y \in From(u, x)
      <4>1. PICK j \in p..Len(l) : y = l[j] /\ j # k
        BY <2>1 DEF From, p
      <4>2. (IF j < k THEN j ELSE j-1) \in q..Len(u)
        BY <2>1, <3>1, <4>1 DEF q
      <4> QED
        BY <2>3, <3>1, <3>3, <4>1, <4>2 DEF From
    <3> QED
      BY <3>4, <3>5
  <2> QED
    BY <2>1, <2>2, <2>4, <2>5 DEF u, ChildList
<1> QED
  BY <1>1, <1>2

\* A new entry comes first: no scan that has begun gets to it.
LEMMA LinkedList ==
  ASSUME NEW l, ChildList(l), NEW c \in Slots \ Elems(l)
  PROVE  /\ ChildList(Link(l, c))
         /\ Elems(Link(l, c)) = Elems(l) \cup {c}
         /\ \A x \in Elems(l) : From(Link(l, c), x) = From(l, x)
<1> DEFINE u == Link(l, c)
<1>1. /\ u \in Seq(Slots) /\ Len(u) = Len(l) + 1 /\ Len(l) \in Nat
      /\ \A i \in 1..Len(u) : u[i] = IF i = 1 THEN c ELSE l[i-1]
  BY DEF Link, ChildList
<1> HIDE DEF u
<1>2. \A j \in 1..Len(l) : l[j] # c /\ l[j] = u[j+1]
  BY <1>1 DEF Elems
<1>3. Once(u)
  <2> SUFFICES ASSUME NEW i \in 1..Len(u), NEW j \in 1..Len(u), u[i] = u[j] PROVE i = j
    BY DEF Once
  <2>1. i # 1 => i-1 \in 1..Len(l) /\ u[i] = l[i-1]
    BY <1>1
  <2>2. j # 1 => j-1 \in 1..Len(l) /\ u[j] = l[j-1]
    BY <1>1
  <2>3. u[1] = c
    BY <1>1
  <2>4. CASE i = 1 \/ j = 1
    BY <1>2, <2>1, <2>2, <2>3, <2>4
  <2>5. CASE i # 1 /\ j # 1
    <3>1. i-1 = j-1
      BY <2>1, <2>2, <2>5 DEF ChildList, Once
    <3> QED
      BY <3>1
  <2> QED
    BY <2>4, <2>5
<1>4. Elems(u) = Elems(l) \cup {c}
  <2>1. \A x \in Elems(u) : x \in Elems(l) \cup {c}
    BY <1>1 DEF Elems
  <2>2. c \in Elems(u)
    BY <1>1 DEF Elems
  <2>3. ASSUME NEW x \in Elems(l) PROVE x \in Elems(u)
    <3>1. PICK j \in 1..Len(l) : x = l[j]
      BY DEF Elems
    <3>2. j+1 \in 1..Len(u)
      BY <1>1, <3>1
    <3>3. x = u[j+1]
      BY <1>2, <3>1
    <3> QED
      BY <3>2, <3>3 DEF Elems
  <2> QED
    BY <2>1, <2>2, <2>3
<1>5. ASSUME NEW x \in Elems(l) PROVE From(u, x) = From(l, x)
  <2> DEFINE p == Place(l, x)
  <2>1. p \in 1..Len(l) /\ l[p] = x
    BY PlaceOf
  <2> HIDE DEF p
  <2>2. Place(u, x) = p+1
    <3>1. p+1 \in 1..Len(u) /\ u[p+1] = x
      BY <1>1, <1>2, <2>1
    <3> QED
      BY <1>1, <1>3, <3>1, PlaceIs DEF ChildList
  <2>3. ASSUME NEW y \in From(u, x) PROVE y \in From(l, x)
    <3>1. PICK i \in p+1..Len(u) : y = u[i]
      BY <2>2 DEF From
    <3>2. i-1 \in p..Len(l) /\ y = l[i-1]
      BY <1>1, <2>1, <3>1
    <3> QED
      BY <3>2 DEF From, p
  <2>4. ASSUME NEW y \in From(l, x) PROVE y \in From(u, x)
    <3>1. PICK j \in p..Len(l) : y = l[j]
      BY DEF From, p
    <3>2. j+1 \in p+1..Len(u) /\ y = u[j+1]
      BY <1>1, <1>2, <2>1, <3>1
    <3> QED
      BY <2>2, <3>2 DEF From
  <2> QED
    BY <2>3, <2>4
<1> QED
  BY <1>1, <1>3, <1>4, <1>5 DEF u, ChildList
-----------------------------------------------------------------------------
\* The child lists K and the parents P are the same tree; just the entries of
\* a directory have names N, and those of one directory differ.
Forest(P, K, N) ==
  /\ P \in [Nodes -> Nodes \cup {None}] /\ P[Root] = None
  /\ K \in [Nodes -> Seq(Slots)] /\ N \in [Nodes -> Names \cup {NoName}]
  /\ \A d \in Nodes : ChildList(K[d])
  /\ \A d \in Nodes, c \in Slots : c \in Elems(K[d]) <=> P[c] = d
  /\ \A c \in Slots : P[c] # None <=> N[c] # NoName
  /\ \A c1, c2 \in Slots : P[c1] # None /\ P[c1] = P[c2] /\ N[c1] = N[c2] => c1 = c2

\* Only a directory has entries, and none of them has been removed.
TreeInv ==
  /\ Forest(parent, kids, name)
  /\ kind[Root] = "dir"
  /\ \A c \in Slots : parent[c] # None => kind[parent[c]] = "dir" /\ ~deleted[c]

\* A scan that was not cut off is due the entries from the one it points to on.
Scanning(K, st) ==
  st.dir # None /\ ~st.cut =>
    IF st.next = None THEN st.due = {}
    ELSE st.next \in Elems(K[st.dir]) /\ st.due = From(K[st.dir], st.next)

ScanInv ==
  /\ streams \in [Dirps -> [dir : Nodes \cup {None}, next : Slots \cup {None},
                            due : SUBSET Slots, cut : BOOLEAN]]
  /\ \A s \in Dirps : Scanning(kids, streams[s])
-----------------------------------------------------------------------------
\* The two changes that every call makes to the tree, and what they do to it.
LEMMA Prune ==
  ASSUME NEW P, NEW K, NEW N, Forest(P, K, N), NEW c \in Slots, NEW d \in Nodes, P[c] = d
  PROVE  Forest([P EXCEPT ![c] = None], [K EXCEPT ![d] = Unlinked(@, c)],
                [N EXCEPT ![c] = NoName])
<1> DEFINE P2 == [P EXCEPT ![c] = None]
           K2 == [K EXCEPT ![d] = Unlinked(@, c)]
           N2 == [N EXCEPT ![c] = NoName]
<1>1. /\ \A x \in Nodes : P2[x] = IF x = c THEN None ELSE P[x]
      /\ \A x \in Nodes : K2[x] = IF x = d THEN Unlinked(K[d], c) ELSE K[x]
      /\ \A x \in Nodes : N2[x] = IF x = c THEN NoName ELSE N[x]
  BY DEF Forest
<1>2. P2 \in [Nodes -> Nodes \cup {None}] /\ N2 \in [Nodes -> Names \cup {NoName}]
  BY DEF Forest
<1>3. /\ ChildList(Unlinked(K[d], c))
      /\ Elems(Unlinked(K[d], c)) = Elems(K[d]) \ {c}
  BY UnlinkedList DEF Forest
<1>4. K2 \in [Nodes -> Seq(Slots)]
  BY <1>3 DEF Forest, ChildList
<1> HIDE DEF P2, K2, N2
<1>5. \A x \in Slots : x \in Nodes /\ x # Root
  BY DEF Nodes
<1>6. P2[Root] = None
  BY <1>1 DEF Forest, Nodes
<1>7. \A x \in Nodes : ChildList(K2[x])
  BY <1>1, <1>3 DEF Forest
<1>8. \A x \in Nodes, y \in Slots : y \in Elems(K2[x]) <=> P2[y] = x
  BY <1>1, <1>3, <1>5 DEF Forest, Nodes
<1>9. \A x \in Slots : P2[x] # None <=> N2[x] # NoName
  BY <1>1, <1>5 DEF Forest
<1>10. \A x, y \in Slots : P2[x] # None /\ P2[x] = P2[y] /\ N2[x] = N2[y] => x = y
  <2> SUFFICES ASSUME NEW x \in Slots, NEW y \in Slots,
                      P2[x] # None, P2[x] = P2[y], N2[x] = N2[y]
               PROVE  x = y
    OBVIOUS
  <2>1. x # c /\ y # c
    BY <1>1, <1>5
  <2>2. P[x] # None /\ P[x] = P[y] /\ N[x] = N[y]
    BY <1>1, <1>5, <2>1
  <2> QED
    BY <2>2 DEF Forest
<1> QED
  BY <1>2, <1>4, <1>6, <1>7, <1>8, <1>9, <1>10 DEF Forest, P2, K2, N2

LEMMA Graft ==
  ASSUME NEW P, NEW K, NEW N, Forest(P, K, N), NEW c \in Slots, P[c] = None,
         NEW d \in Nodes, NEW nm \in Names, \A x \in Slots : P[x] = d => N[x] # nm
  PROVE  Forest([P EXCEPT ![c] = d], [K EXCEPT ![d] = Link(@, c)], [N EXCEPT ![c] = nm])
<1> DEFINE P2 == [P EXCEPT ![c] = d]
           K2 == [K EXCEPT ![d] = Link(@, c)]
           N2 == [N EXCEPT ![c] = nm]
<1>0. d # None /\ nm # NoName
  BY DEF Nodes
<1>1. /\ \A x \in Nodes : P2[x] = IF x = c THEN d ELSE P[x]
      /\ \A x \in Nodes : K2[x] = IF x = d THEN Link(K[d], c) ELSE K[x]
      /\ \A x \in Nodes : N2[x] = IF x = c THEN nm ELSE N[x]
  BY DEF Forest
<1>2. P2 \in [Nodes -> Nodes \cup {None}] /\ N2 \in [Nodes -> Names \cup {NoName}]
  BY DEF Forest
<1>3. /\ ChildList(Link(K[d], c))
      /\ Elems(Link(K[d], c)) = Elems(K[d]) \cup {c}
  BY <1>0, LinkedList DEF Forest
<1>4. K2 \in [Nodes -> Seq(Slots)]
  BY <1>3 DEF Forest, ChildList
<1> HIDE DEF P2, K2, N2
<1>5. \A x \in Slots : x \in Nodes /\ x # Root
  BY DEF Nodes
<1>6. P2[Root] = None
  BY <1>1 DEF Forest, Nodes
<1>7. \A x \in Nodes : ChildList(K2[x])
  BY <1>1, <1>3 DEF Forest
<1>8. \A x \in Nodes, y \in Slots : y \in Elems(K2[x]) <=> P2[y] = x
  BY <1>0, <1>1, <1>3, <1>5 DEF Forest, Nodes
<1>9. \A x \in Slots : P2[x] # None <=> N2[x] # NoName
  BY <1>0, <1>1, <1>5 DEF Forest
<1>10. \A x, y \in Slots : P2[x] # None /\ P2[x] = P2[y] /\ N2[x] = N2[y] => x = y
  <2> SUFFICES ASSUME NEW x \in Slots, NEW y \in Slots,
                      P2[x] # None, P2[x] = P2[y], N2[x] = N2[y]
               PROVE  x = y
    OBVIOUS
  <2>1. \A z \in Slots \ {c} : P2[z] = P[z] /\ N2[z] = N[z] /\ (P[z] = d => N[z] # nm)
    BY <1>1, <1>5
  <2>2. P2[c] = d /\ N2[c] = nm
    BY <1>1, <1>5
  <2>3. CASE x # c /\ y # c
    BY <2>1, <2>3 DEF Forest
  <2>4. CASE x = c \/ y = c
    BY <2>1, <2>2, <2>4
  <2> QED
    BY <2>3, <2>4
<1> QED
  BY <1>2, <1>4, <1>6, <1>7, <1>8, <1>9, <1>10 DEF Forest, P2, K2, N2

\* The same for a scan: Drop is what Lost makes of a stream.
Drop(st, c) ==
  IF c \in st.due THEN [st EXCEPT !.due = @ \ {c}, !.cut = @ \/ st.next = c] ELSE st

Streams == [dir : Nodes \cup {None}, next : Slots \cup {None}, due : SUBSET Slots, cut : BOOLEAN]

LEMMA PruneScan ==
  ASSUME NEW P, NEW K, NEW N, Forest(P, K, N), NEW c \in Slots, NEW d \in Nodes, P[c] = d,
         NEW st \in Streams, Scanning(K, st)
  PROVE  Drop(st, c) \in Streams /\ Scanning([K EXCEPT ![d] = Unlinked(@, c)], Drop(st, c))
<1> DEFINE K2 == [K EXCEPT ![d] = Unlinked(@, c)]
           t == Drop(st, c)
<1>1. /\ t \in Streams /\ t.dir = st.dir /\ t.next = st.next /\ t.due = st.due \ {c}
      /\ t.cut = (st.cut \/ (c \in st.due /\ st.next = c))
  BY DEF Drop, Streams
<1> HIDE DEF t
<1> SUFFICES ASSUME t.dir # None, ~t.cut, t.next # None
             PROVE  t.next \in Elems(K2[t.dir]) /\ t.due = From(K2[t.dir], t.next)
  BY <1>1 DEF Scanning, t
<1> DEFINE l == K[st.dir]
           x == st.next
<1>2. st.dir \in Nodes /\ ChildList(l) /\ x \in Elems(l) /\ st.due = From(l, x)
  BY <1>1 DEF Streams, Scanning, Forest
<1>3. x \in st.due
  <2>1. Place(l, x) \in 1..Len(l) /\ l[Place(l, x)] = x /\ Len(l) \in Nat
    BY <1>2, PlaceOf DEF ChildList
  <2> HIDE DEF l, x
  <2> QED
    BY <1>2, <2>1 DEF From
<1>4. x # c
  BY <1>1, <1>3
<1>5. CASE st.dir = d
  <2>1. K2[d] = Unlinked(l, c)
    BY <1>5 DEF Forest
  <2> QED
    BY <1>1, <1>2, <1>4, <1>5, <2>1, UnlinkedList
<1>6. CASE st.dir # d
  <2>1. K2[st.dir] = l
    BY <1>2, <1>6 DEF Forest
  <2>2. c \notin Elems(l)
    BY <1>2, <1>6 DEF Forest
  <2>3. c \notin From(l, x)
    <3>1. Place(l, x) \in 1..Len(l) /\ Len(l) \in Nat
      BY <1>2, PlaceOf DEF ChildList
    <3> HIDE DEF l, x
    <3> QED
      BY <2>2, <3>1 DEF From, Elems
  <2> QED
    BY <1>1, <1>2, <2>1, <2>3
<1> QED
  BY <1>5, <1>6

LEMMA GraftScan ==
  ASSUME NEW P, NEW K, NEW N, Forest(P, K, N), NEW c \in Slots, P[c] = None,
         NEW d \in Nodes, NEW st \in Streams, Scanning(K, st)
  PROVE  Scanning([K EXCEPT ![d] = Link(@, c)], st)
<1>1. st.dir # None => st.dir \in Nodes
  BY DEF Streams
<1>2. c \notin Elems(K[d])
  BY DEF Forest, Nodes
<1>3. st.dir \in Nodes =>
        [K EXCEPT ![d] = Link(@, c)][st.dir] = IF st.dir = d THEN Link(K[d], c) ELSE K[st.dir]
  BY DEF Forest
<1>4. /\ Elems(Link(K[d], c)) = Elems(K[d]) \cup {c}
      /\ \A x \in Elems(K[d]) : From(Link(K[d], c), x) = From(K[d], x)
  BY <1>2, LinkedList DEF Forest
<1> QED
  BY <1>1, <1>3, <1>4 DEF Scanning
-----------------------------------------------------------------------------
\* What is known of the ancestors of a node.
LEMMA AncestorsLeast ==
  ASSUME NEW n \in Nodes, NEW S \in SUBSET Nodes, n \in S,
         \A m \in S : parent[m] # None => parent[m] \in S
  PROVE  \A a \in Ancestors(n) : a \in S
BY DEF Ancestors

LEMMA AncestorsAre ==
  ASSUME TreeInv, NEW n \in Nodes
  PROVE  /\ n \in Ancestors(n)
         /\ \A a \in Ancestors(n) : a \in Nodes /\ (parent[a] # None => parent[a] \in Ancestors(n))
<1>1. n \in Ancestors(n)
  BY DEF Ancestors
<1>2. ASSUME NEW a \in Ancestors(n), parent[a] # None
      PROVE  parent[a] \in Ancestors(n)
  <2>1. a \in Nodes /\ parent[a] \in Nodes
    BY <1>2 DEF Ancestors, TreeInv, Forest
  <2>2. ASSUME NEW S \in SUBSET Nodes, n \in S,
               \A m \in S : parent[m] # None => parent[m] \in S
        PROVE  parent[a] \in S
    <3>1. a \in S
      BY <2>2 DEF Ancestors
    <3> QED
      BY <1>2, <2>2, <3>1
  <2> QED
    BY <2>1, <2>2 DEF Ancestors
<1>3. \A a \in Ancestors(n) : a \in Nodes
  BY DEF Ancestors
<1> QED
  BY <1>1, <1>2, <1>3

LEMMA AncestorsAreDirs ==
  ASSUME TreeInv, NEW n \in Nodes, NEW a \in Ancestors(n), a # n
  PROVE  kind[a] = "dir" /\ a \in Nodes
<1> DEFINE S == {m \in Nodes : kind[m] = "dir"} \cup {n}
<1>1. \A m \in S : parent[m] # None => parent[m] \in S
  BY DEF TreeInv, Forest, Nodes
<1>2. n \in S /\ S \in SUBSET Nodes
  OBVIOUS
<1>3. a \in S
  <2> HIDE DEF S
  <2> QED
    BY <1>1, <1>2, AncestorsLeast
<1> QED
  BY <1>3

\* A walk does not end in a directory that is its own parent.
LEMMA DirsAre ==
  ASSUME TreeInv, NEW d \in Dirs
  PROVE  /\ d \in Nodes /\ kind[d] = "dir" /\ d # None /\ d \notin Free /\ parent[d] # d
         /\ d # Root => d \in Slots /\ parent[d] \in Nodes
<1>1. d \in Nodes /\ kind[d] = "dir" /\ Root \in Ancestors(d)
  BY DEF Dirs
<1>2. parent[d] # d
  <2> SUFFICES ASSUME parent[d] = d PROVE FALSE
    OBVIOUS
  <2>0. {d} \in SUBSET Nodes /\ \A m \in {d} : parent[m] # None => parent[m] \in {d}
    BY <1>1
  <2>1. \A a \in Ancestors(d) : a \in {d}
    BY <1>1, <2>0, AncestorsLeast
  <2> QED
    BY <1>1, <2>1 DEF TreeInv, Forest, Nodes
<1>3. d # Root => parent[d] # None
  <2> SUFFICES ASSUME d # Root, parent[d] = None PROVE FALSE
    OBVIOUS
  <2>0. {d} \in SUBSET Nodes /\ \A m \in {d} : parent[m] # None => parent[m] \in {d}
    BY <1>1
  <2>1. \A a \in Ancestors(d) : a \in {d}
    BY <1>1, <2>0, AncestorsLeast
  <2> QED
    BY <1>1, <2>1
<1> QED
  BY <1>1, <1>2, <1>3 DEF TreeInv, Forest, Nodes, Free

LEMMA ChildIs ==
  ASSUME TreeInv, NEW d \in Nodes, NEW nm \in Names, NEW n \in Child(d, nm)
  PROVE  n \in Slots /\ n \in Elems(kids[d]) /\ parent[n] = d /\ name[n] = nm
         /\ Child(d, nm) = {n}
<1>1. \A m \in Child(d, nm) : m \in Slots /\ m \in Elems(kids[d]) /\ parent[m] = d /\ name[m] = nm
  BY DEF Child, TreeInv, Forest
<1> QED
  BY <1>1 DEF TreeInv, Forest, Nodes

\* A slot that is free holds no entries and is nobody's entry.
LEMMA FreeNodes ==
  ASSUME TreeInv, NEW n \in Free
  PROVE  kids[n] = <<>> /\ parent[n] = None
<1>1. n \in Slots /\ n \in Nodes /\ parent[n] = None /\ kind[n] # "dir"
  BY DEF Free, TreeInv, Forest, Nodes
<1>2. \A c \in Slots : c \notin Elems(kids[n])
  BY <1>1 DEF TreeInv, Forest, Nodes
<1>3. kids[n] \in Seq(Slots)
  BY <1>1 DEF TreeInv, Forest
<1>4. kids[n] # <<>> => kids[n][1] \in Slots /\ kids[n][1] \in Elems(kids[n])
  BY <1>3 DEF Elems
<1> QED
  BY <1>1, <1>2, <1>4
-----------------------------------------------------------------------------
\* The packed lists hold each of their entries once.
LEMMA OrdersAre ==
  ASSUME NEW S \in SUBSET Slots, NEW l \in Orders(S)
  PROVE  ChildList(l) /\ Elems(l) = S
<1> DEFINE n == Cardinality(S)
<1>1. IsFiniteSet(S) /\ n \in Nat
  BY FS_Subset, FS_CardinalityType
<1> HIDE DEF n
<1>2. l \in [1..n -> S] /\ \A i, j \in 1..n : l[i] = l[j] => i = j
  BY DEF Orders, n
<1>3. l \in Seq(Slots) /\ Len(l) = n
  BY <1>1, <1>2
<1>4. l \in Injection(1..n, S)
  BY <1>2 DEF Injection, IsInjective
<1>5. Cardinality(1..n) = n
  BY <1>1, FS_Interval
<1>6. l \in Surjection(1..n, S)
  BY <1>1, <1>4, <1>5, FS_Injection DEF n
<1>7. \A x \in S : \E i \in 1..n : l[i] = x
  BY <1>6 DEF Surjection
<1> QED
  BY <1>2, <1>3, <1>7 DEF ChildList, Once, Elems

LEMMA InitTree == Init => TreeInv /\ ScanInv
<1> SUFFICES ASSUME Init PROVE TreeInv /\ ScanInv
  OBVIOUS
<1> DEFINE packed == {n \in Slots : parent[n] # None}
           In(d) == {n \in packed : parent[n] = d}
<1>1. /\ parent \in [Nodes -> Nodes \cup {None}] /\ parent[Root] = None
      /\ kind[Root] = "dir"
      /\ \A n \in packed : kind[parent[n]] = "dir"
      /\ name \in [Nodes -> Names \cup {NoName}]
      /\ \A n \in Nodes : name[n] # NoName <=> n \in packed
      /\ \A n, m \in packed : parent[n] = parent[m] /\ name[n] = name[m] => n = m
      /\ kids \in [Nodes -> UNION {Orders(In(d)) : d \in Nodes}]
      /\ \A d \in Nodes : kids[d] \in Orders(In(d))
      /\ deleted = [n \in Nodes |-> FALSE]
      /\ streams = [s \in Dirps |-> Idle]
  BY DEF Init
<1>2. \A d \in Nodes : In(d) \in SUBSET Slots
  OBVIOUS
<1>3. \A d \in Nodes : ChildList(kids[d]) /\ Elems(kids[d]) = In(d)
  BY <1>1, <1>2, OrdersAre
<1>4. kids \in [Nodes -> Seq(Slots)]
  BY <1>1, <1>3 DEF ChildList
<1>5. \A d \in Nodes, c \in Slots : c \in Elems(kids[d]) <=> parent[c] = d
  BY <1>3 DEF Nodes
<1>6. Forest(parent, kids, name)
  BY <1>1, <1>3, <1>4, <1>5 DEF Forest, Nodes
<1>7. TreeInv
  BY <1>1, <1>6 DEF TreeInv, Nodes
<1>8. ScanInv
  BY <1>1 DEF ScanInv, Scanning, Idle
<1> QED
  BY <1>7, <1>8
-----------------------------------------------------------------------------
Good == CountInv /\ TreeInv /\ ScanInv

LEMMA AddTree ==
  ASSUME Good, NEW n \in Slots, NEW k \in Kinds, NEW d \in Dirs, NEW nm \in Names,
         NEW uses \in Nat, Add(n, k, d, nm, uses), UNCHANGED streams
  PROVE  TreeInv' /\ ScanInv'
<1>1. /\ n \in Free /\ n \in Nodes /\ n # Root /\ n # d
      /\ kids[n] = <<>> /\ parent[n] = None /\ d \in Nodes /\ d # None /\ kind[d] = "dir"
  BY DirsAre, FreeNodes DEF Good, Add, Nodes
<1>2. \A x \in Slots : parent[x] = d => name[x] # nm
  BY <1>1 DEF Good, Add, Child, TreeInv, Forest
<1>3. /\ name' = [name EXCEPT ![n] = nm] /\ parent' = [parent EXCEPT ![n] = d]
      /\ kind' = [kind EXCEPT ![n] = k] /\ deleted' = [deleted EXCEPT ![n] = FALSE]
      /\ kids' = [kids EXCEPT ![n] = <<>>, ![d] = Link(kids[d], n)]
  BY DEF Add
<1>4. kids' = [kids EXCEPT ![d] = Link(@, n)]
  BY <1>1, <1>3 DEF Good, TreeInv, Forest
<1>5. Forest(parent, kids, name)
  BY DEF Good, TreeInv
<1>6. Forest(parent', kids', name')
  <2>1. Forest([parent EXCEPT ![n] = d], [kids EXCEPT ![d] = Link(@, n)], [name EXCEPT ![n] = nm])
    BY <1>1, <1>2, <1>5, Graft
  <2> QED
    BY <1>3, <1>4, <2>1
<1>7. \A c \in Slots : parent'[c] # None => kind'[parent'[c]] = "dir" /\ ~deleted'[c]
  <2> TAKE c \in Slots
  <2>1. c \in Nodes /\ Root \in Nodes
    BY DEF Nodes
  <2>2. CASE c = n
    BY <1>1, <1>3, <2>1, <2>2 DEF Good, CountInv, FieldsOK, TreeInv, Forest
  <2>3. CASE c # n
    <3>1. parent'[c] = parent[c] /\ deleted'[c] = deleted[c]
      BY <1>3, <2>1, <2>3 DEF Good, CountInv, FieldsOK, TreeInv, Forest
    <3>2. parent[c] # None => parent[c] \in Nodes /\ kind[parent[c]] = "dir" /\ parent[c] # n
      BY <1>1, <2>1 DEF Good, TreeInv, Forest, Free
    <3> QED
      BY <1>3, <3>1, <3>2 DEF Good, CountInv, FieldsOK, TreeInv
  <2> QED
    BY <2>2, <2>3
<1>8. kind'[Root] = "dir"
  BY <1>1, <1>3 DEF Good, CountInv, FieldsOK, TreeInv, Nodes
<1>9. \A s \in Dirps : Scanning(kids', streams'[s])
  <2> TAKE s \in Dirps
  <2>1. streams[s] \in Streams /\ Scanning(kids, streams[s])
    BY DEF Good, ScanInv, Streams
  <2> QED
    BY <1>1, <1>4, <1>5, <2>1, GraftScan
<1> QED
  BY <1>6, <1>7, <1>8, <1>9 DEF TreeInv, ScanInv, Good

\* An entry goes, with whatever becomes of its node.
LEMMA GoneTree ==
  ASSUME Good, NEW n \in Slots, NEW d \in Nodes, parent[n] = d,
         name' = [name EXCEPT ![n] = NoName], parent' = [parent EXCEPT ![n] = None],
         kids' = [kids EXCEPT ![d] = Unlinked(@, n)], streams' = Lost(n),
         \A x \in Nodes \ {n} : kind'[x] = kind[x] /\ deleted'[x] = deleted[x],
         kind'[n] = kind[n] \/ kids[n] = <<>>
  PROVE  TreeInv' /\ ScanInv'
<1>1. Forest(parent, kids, name)
  BY DEF Good, TreeInv
<1>2. Forest(parent', kids', name')
  BY <1>1, Prune
<1>3. \A c \in Slots : parent'[c] # None => kind'[parent'[c]] = "dir" /\ ~deleted'[c]
  <2> SUFFICES ASSUME NEW c \in Slots, parent'[c] # None
               PROVE  kind'[parent'[c]] = "dir" /\ ~deleted'[c]
    OBVIOUS
  <2>1. c \in Nodes /\ c # n /\ parent'[c] = parent[c]
    BY <1>1 DEF Forest, Nodes
  <2>2. parent[c] \in Nodes /\ kind[parent[c]] = "dir" /\ ~deleted[c] /\ c \in Elems(kids[parent[c]])
    BY <1>1, <2>1 DEF Good, TreeInv, Forest
  <2>3. kids[n] = <<>> => parent[c] # n
    BY <2>2 DEF Elems
  <2> QED
    BY <2>1, <2>2, <2>3
<1>4. kind'[Root] = "dir"
  BY DEF Good, TreeInv, Nodes
<1>5. ASSUME NEW s \in Dirps
      PROVE  streams'[s] \in Streams /\ Scanning(kids', streams'[s])
  <2>1. streams[s] \in Streams /\ Scanning(kids, streams[s])
    BY DEF Good, ScanInv, Streams
  <2>2. streams'[s] = Drop(streams[s], n)
    BY DEF Lost, Drop
  <2> QED
    <3>1. /\ Drop(streams[s], n) \in Streams
          /\ Scanning([kids EXCEPT ![d] = Unlinked(@, n)], Drop(streams[s], n))
      BY <1>1, <2>1, PruneScan
    <3> QED
      BY <2>2, <3>1
<1>6. streams' \in [Dirps -> Streams]
  BY <1>5 DEF Lost
<1> QED
  BY <1>2, <1>3, <1>4, <1>5, <1>6 DEF TreeInv, ScanInv, Streams

LEMMA RmdirTree ==
  ASSUME Good, NEW n, Rmdir(n)
  PROVE  TreeInv' /\ ScanInv'
<1>1. n \in Dirs /\ n # Root
  BY DEF Rmdir
<1>2. n \in Slots /\ parent[n] \in Nodes /\ n \in Nodes
  BY <1>1, DirsAre DEF Good
<1>3. \A x \in Nodes \ {n} : kind'[x] = kind[x] /\ deleted'[x] = deleted[x]
  BY DEF Rmdir, Good, CountInv, FieldsOK
<1> QED
  BY <1>2, <1>3, GoneTree DEF Rmdir

LEMMA UnlinkTree ==
  ASSUME Good, NEW d \in Dirs, NEW nm \in Names, Unlink(d, nm)
  PROVE  TreeInv' /\ ScanInv'
<1>0. d \in Nodes
  BY DEF Dirs
<1>1. PICK n \in Child(d, nm) :
        /\ kind[n] # "dir"
        /\ name' = [name EXCEPT ![n] = NoName]
        /\ parent' = [parent EXCEPT ![n] = None]
        /\ kids' = [kids EXCEPT ![d] = Unlinked(@, n)]
        /\ kind' = kind \/ kind' = [kind EXCEPT ![n] = "file"]
        /\ deleted' = deleted \/ deleted' = [deleted EXCEPT ![n] = TRUE]
        /\ streams' = Lost(n)
  BY DEF Unlink
<1>2. n \in Slots /\ n \in Nodes /\ parent[n] = d
  BY <1>0, ChildIs DEF Good, Nodes
<1>3. \A x \in Nodes \ {n} : kind'[x] = kind[x] /\ deleted'[x] = deleted[x]
  BY <1>1 DEF Good, CountInv, FieldsOK
<1>4. kids[n] = <<>>
  <2>1. \A c \in Slots : c \notin Elems(kids[n])
    BY <1>1, <1>2 DEF Good, TreeInv, Forest, Nodes
  <2>2. kids[n] \in Seq(Slots)
    BY <1>2 DEF Good, TreeInv, Forest
  <2>3. kids[n] # <<>> => kids[n][1] \in Slots /\ kids[n][1] \in Elems(kids[n])
    BY <2>2 DEF Elems
  <2> QED
    BY <2>1, <2>3
<1> QED
  BY <1>0, <1>1, <1>2, <1>3, <1>4, GoneTree
-----------------------------------------------------------------------------
\* Losing the entries of L from a stream.
Without(st, L) ==
  [st EXCEPT !.due = @ \ L, !.cut = @ \/ st.next \in st.due \cap L]

\* rename is up to three of these changes: n goes, what it replaces goes, and n
\* comes again.  What the first two leave:
CutTree(n, d, old, e) ==
  [P |-> [x \in Nodes |-> IF x \in old \cup {n} THEN None ELSE parent[x]],
   K |-> [x \in Nodes |->
            LET l == IF x = d THEN Unlinked(kids[x], n) ELSE kids[x]
            IN  IF x = e THEN Cleared(l, old) ELSE l],
   N |-> [x \in Nodes |-> IF x \in old \cup {n} THEN NoName ELSE name[x]],
   S |-> [s \in Dirps |-> Without(streams[s], {n} \cup old)]]

LEMMA SameStream ==
  ASSUME NEW a \in Streams, NEW b \in Streams, a.dir = b.dir, a.next = b.next,
         a.due = b.due, a.cut <=> b.cut
  PROVE  a = b
<1>1. a.cut \in BOOLEAN /\ b.cut \in BOOLEAN
  BY DEF Streams
<1>2. a.cut = b.cut
  BY <1>1
<1> QED
  BY <1>2 DEF Streams

LEMMA WithoutIs ==
  ASSUME NEW st \in Streams, NEW L \in SUBSET Slots
  PROVE  /\ Without(st, L) \in Streams
         /\ Without(st, L).dir = st.dir /\ Without(st, L).next = st.next
         /\ Without(st, L).due = st.due \ L
         /\ Without(st, L).cut <=> st.cut \/ st.next \in st.due \cap L
BY DEF Without, Streams

LEMMA DropIs ==
  ASSUME NEW st \in Streams, NEW n \in Slots
  PROVE  /\ Drop(st, n) \in Streams
         /\ Drop(st, n).dir = st.dir /\ Drop(st, n).next = st.next
         /\ Drop(st, n).due = st.due \ {n}
         /\ Drop(st, n).cut <=> st.cut \/ (n \in st.due /\ st.next = n)
BY DEF Drop, Streams

LEMMA DropOne ==
  ASSUME NEW st \in Streams, NEW n \in Slots
  PROVE  Without(st, {n}) = Drop(st, n)
<1> DEFINE u == Drop(st, n)
           w == Without(st, {n})
<1>1. /\ u \in Streams /\ u.dir = st.dir /\ u.next = st.next /\ u.due = st.due \ {n}
      /\ u.cut <=> st.cut \/ (n \in st.due /\ st.next = n)
  BY DropIs
<1>2. /\ w \in Streams /\ w.dir = st.dir /\ w.next = st.next /\ w.due = st.due \ {n}
      /\ w.cut <=> st.cut \/ st.next \in st.due \cap {n}
  BY WithoutIs
<1> HIDE DEF u, w
<1>3. w = u
  BY <1>1, <1>2, SameStream
<1> QED
  BY <1>3 DEF u, w

LEMMA DropTwo ==
  ASSUME NEW st \in Streams, NEW n \in Slots, NEW r \in Slots
  PROVE  Without(st, {n, r}) = Drop(Drop(st, n), r)
<1> DEFINE u == Drop(st, n)
           v == Drop(u, r)
           w == Without(st, {n, r})
<1>1. /\ u \in Streams /\ u.dir = st.dir /\ u.next = st.next /\ u.due = st.due \ {n}
      /\ u.cut <=> st.cut \/ (n \in st.due /\ st.next = n)
  BY DropIs
<1> HIDE DEF u
<1>2. /\ v \in Streams /\ v.dir = u.dir /\ v.next = u.next /\ v.due = u.due \ {r}
      /\ v.cut <=> u.cut \/ (r \in u.due /\ u.next = r)
  BY <1>1, DropIs
<1>3. /\ w \in Streams /\ w.dir = st.dir /\ w.next = st.next /\ w.due = st.due \ {n, r}
      /\ w.cut <=> st.cut \/ st.next \in st.due \cap {n, r}
  BY WithoutIs
<1> HIDE DEF v, w
<1>4. w.due = v.due /\ (w.cut <=> v.cut) /\ w.dir = v.dir /\ w.next = v.next
  BY <1>1, <1>2, <1>3
<1>5. w = v
  BY <1>2, <1>3, <1>4, SameStream
<1> QED
  BY <1>5 DEF u, v, w

LEMMA CutIsForest ==
  ASSUME Good, NEW n \in Slots, NEW d \in Nodes, parent[n] = d, NEW e \in Nodes,
         NEW nm2 \in Names, n \notin Child(e, nm2)
  PROVE  LET c == CutTree(n, d, Child(e, nm2), e)
         IN  /\ Forest(c.P, c.K, c.N)
             /\ \A s \in Dirps : c.S[s] \in Streams /\ Scanning(c.K, c.S[s])
<1> DEFINE old == Child(e, nm2)
           c == CutTree(n, d, old, e)
           P1 == [parent EXCEPT ![n] = None]
           K1 == [kids EXCEPT ![d] = Unlinked(@, n)]
           N1 == [name EXCEPT ![n] = NoName]
<1>1. Forest(parent, kids, name) /\ n \in Nodes
  BY DEF Good, TreeInv, Nodes
<1>2. Forest(P1, K1, N1)
  BY <1>1, Prune
<1>3. \A x \in Nodes : /\ P1[x] = (IF x = n THEN None ELSE parent[x])
                       /\ K1[x] = (IF x = d THEN Unlinked(kids[x], n) ELSE kids[x])
                       /\ N1[x] = (IF x = n THEN NoName ELSE name[x])
  BY <1>1 DEF Forest
<1>4. DOMAIN P1 = Nodes /\ DOMAIN K1 = Nodes /\ DOMAIN N1 = Nodes
  BY <1>1 DEF Forest
<1>5. \A s \in Dirps : /\ streams[s] \in Streams
                       /\ Drop(streams[s], n) \in Streams
                       /\ Scanning(K1, Drop(streams[s], n))
  BY <1>1, PruneScan DEF Good, ScanInv, Streams
<1>6. CASE old = {}
  <2>1. c.P = P1 /\ c.N = N1 /\ c.K = K1
    BY <1>3, <1>4, <1>6 DEF CutTree, Cleared, Forest
  <2>2. ASSUME NEW s \in Dirps PROVE c.S[s] = Drop(streams[s], n)
    <3>1. c.S[s] = Without(streams[s], {n} \cup old) /\ {n} \cup old = {n}
      BY <1>6 DEF CutTree
    <3> QED
      BY <1>5, <3>1, DropOne
  <2> QED
    BY <1>2, <1>5, <2>1, <2>2
<1>7. CASE old # {}
  <2>1. PICK r \in old : TRUE
    BY <1>7
  <2>2. r \in Slots /\ parent[r] = e /\ old = {r} /\ r # n /\ r \in Nodes
    BY <2>1, ChildIs DEF Good, Nodes
  <2> DEFINE P2 == [P1 EXCEPT ![r] = None]
             K2 == [K1 EXCEPT ![e] = Unlinked(@, r)]
             N2 == [N1 EXCEPT ![r] = NoName]
  <2>3. P1[r] = e
    BY <1>3, <2>2
  <2> HIDE DEF P1, K1, N1
  <2>4. Forest(P2, K2, N2)
    BY <1>2, <2>2, <2>3, Prune
  <2>5. c.P = P2 /\ c.N = N2
    <3>1. c.P = [x \in Nodes |-> IF x \in {n, r} THEN None ELSE parent[x]]
          /\ c.N = [x \in Nodes |-> IF x \in {n, r} THEN NoName ELSE name[x]]
      BY <2>2 DEF CutTree
    <3>2. /\ \A x \in Nodes : P2[x] = IF x \in {n, r} THEN None ELSE parent[x]
          /\ \A x \in Nodes : N2[x] = IF x \in {n, r} THEN NoName ELSE name[x]
          /\ P2 = [x \in Nodes |-> P2[x]] /\ N2 = [x \in Nodes |-> N2[x]]
      BY <1>3, <1>4, <2>2
    <3> HIDE DEF c, P2, N2
    <3> QED
      BY <3>1, <3>2
  <2>6. c.K = K2
    <3>1. (CHOOSE x \in old : TRUE) = r
      BY <2>2
    <3>2. \A l : Cleared(l, old) = Unlinked(l, r)
      BY <1>7, <3>1 DEF Cleared
    <3>3. c.K = [x \in Nodes |->
                   LET l == IF x = d THEN Unlinked(kids[x], n) ELSE kids[x]
                   IN  IF x = e THEN Unlinked(l, r) ELSE l]
      BY <3>2 DEF CutTree
    <3>4. /\ \A x \in Nodes : K2[x] = IF x = e THEN Unlinked(K1[x], r) ELSE K1[x]
          /\ DOMAIN K2 = Nodes /\ K2 = [x \in Nodes |-> K2[x]]
      BY <1>4
    <3> HIDE DEF c, K2
    <3> QED
      BY <1>3, <3>3, <3>4
  <2>7. ASSUME NEW s \in Dirps PROVE c.S[s] = Drop(Drop(streams[s], n), r)
    <3>1. streams[s] \in Streams
      BY <1>5
    <3>2. c.S[s] = Without(streams[s], {n} \cup old) /\ {n} \cup old = {n, r}
      BY <2>2 DEF CutTree
    <3> QED
      BY <2>2, <3>1, <3>2, DropTwo
  <2>8. ASSUME NEW s \in Dirps
        PROVE  /\ Drop(Drop(streams[s], n), r) \in Streams
               /\ Scanning(K2, Drop(Drop(streams[s], n), r))
    BY <1>2, <1>5, <2>2, <2>3, PruneScan
  <2> QED
    BY <2>4, <2>5, <2>6, <2>7, <2>8
<1> QED
  BY <1>6, <1>7

LEMMA RenameTree ==
  ASSUME Good, NEW d \in Dirs, NEW nm \in Names, NEW e \in Dirs, NEW nm2 \in Names,
         NEW alloc \in BOOLEAN, Rename(d, nm, e, nm2, alloc)
  PROVE  TreeInv' /\ ScanInv'
<1> DEFINE old == Child(e, nm2)
           gone == {r \in old : refs[r] <= 1}
<1>1. PICK n \in Child(d, nm) :
        LET c == CutTree(n, d, old, e)
        IN  /\ CanRename(n, e, old)
            /\ Replaced(old, n, e, nm2, alloc)
            /\ kids' = IF alloc THEN [c.K EXCEPT ![e] = Link(@, n)] ELSE c.K
            /\ streams' = c.S
  BY DEF Rename, CutTree, Without
<1> DEFINE c == CutTree(n, d, old, e)
<1>2. d \in Nodes /\ e \in Nodes /\ kind[e] = "dir" /\ parent[e] # e /\ e # None
  BY DirsAre DEF Good
<1>3. n \in Slots /\ n \in Nodes /\ parent[n] = d /\ n \notin old /\ n # Root
  BY <1>1, <1>2, ChildIs DEF Good, CanRename, Nodes
<1>4. \A r \in old : r \in Slots /\ r \in Nodes /\ parent[r] = e /\ name[r] = nm2 /\ r # e
  BY <1>2, ChildIs DEF Good, Nodes
<1>5. Forest(c.P, c.K, c.N) /\ \A s \in Dirps : c.S[s] \in Streams /\ Scanning(c.K, c.S[s])
  BY <1>2, <1>3, CutIsForest
<1>6. /\ c.P[n] = None
      /\ \A x \in Slots : c.P[x] = e => c.N[x] # nm2
  <2>1. \A x \in Slots : x \notin old \cup {n} /\ parent[x] = e => name[x] # nm2
    BY <1>2 DEF Good, TreeInv, Forest, Child
  <2>2. \A x \in Nodes : c.P[x] = IF x \in old \cup {n} THEN None ELSE parent[x]
    BY DEF CutTree
  <2>3. \A x \in Nodes : c.N[x] = IF x \in old \cup {n} THEN NoName ELSE name[x]
    BY DEF CutTree
  <2> QED
    BY <1>2, <1>3, <2>1, <2>2, <2>3 DEF Nodes
<1>7. /\ parent' = IF alloc THEN [c.P EXCEPT ![n] = e] ELSE c.P
      /\ name' = IF alloc THEN [c.N EXCEPT ![n] = nm2] ELSE c.N
  BY <1>1, <1>3 DEF Replaced, CutTree
<1>8. /\ \A x \in Nodes : kind'[x] = IF x \in gone THEN "file" ELSE kind[x]
      /\ \A x \in Nodes : deleted'[x] = (deleted[x] \/ x \in old \ gone)
      /\ \A r \in old : kind[r] = "dir" => kids[r] = <<>>
  BY <1>1 DEF Replaced, CanRename
<1>9. Forest(parent', kids', name') /\ \A s \in Dirps : Scanning(kids', streams'[s])
  <2> HIDE DEF c
  <2>1. CASE alloc
    <3>1. Forest([c.P EXCEPT ![n] = e], [c.K EXCEPT ![e] = Link(@, n)], [c.N EXCEPT ![n] = nm2])
      BY <1>2, <1>3, <1>5, <1>6, Graft
    <3>2. \A s \in Dirps : Scanning([c.K EXCEPT ![e] = Link(@, n)], c.S[s])
      BY <1>2, <1>3, <1>5, <1>6, GraftScan
    <3>3. kids' = [c.K EXCEPT ![e] = Link(@, n)] /\ streams' = c.S
      BY <1>1, <2>1 DEF c
    <3> QED
      BY <1>7, <2>1, <3>1, <3>2, <3>3
  <2>2. CASE ~alloc
    <3>1. kids' = c.K /\ streams' = c.S
      BY <1>1, <2>2 DEF c
    <3> QED
      BY <1>5, <1>7, <2>2, <3>1
  <2> QED
    BY <2>1, <2>2
<1>10. \A x \in Slots : parent'[x] # None => kind'[parent'[x]] = "dir" /\ ~deleted'[x]
  <2> SUFFICES ASSUME NEW x \in Slots, parent'[x] # None
               PROVE  kind'[parent'[x]] = "dir" /\ ~deleted'[x]
    OBVIOUS
  <2>0. x \in Nodes
    BY DEF Nodes
  <2>1. x \notin old /\ parent'[x] = IF x = n THEN e ELSE parent[x]
    BY <1>1, <2>0 DEF Replaced
  <2>2. ~deleted[x]
    BY <1>2, <1>3, <2>1 DEF Good, TreeInv, Nodes
  <2>3. CASE x = n
    BY <1>2, <1>4, <1>8, <2>0, <2>1, <2>2, <2>3
  <2>4. CASE x # n
    <3>1. parent[x] \in Nodes /\ kind[parent[x]] = "dir" /\ x \in Elems(kids[parent[x]])
      BY <2>0, <2>1, <2>4 DEF Good, TreeInv, Forest
    <3>2. parent[x] \notin old
      BY <1>8, <3>1 DEF Elems
    <3> QED
      BY <1>8, <2>0, <2>1, <2>2, <2>4, <3>1, <3>2
  <2> QED
    BY <2>3, <2>4
<1>11. kind'[Root] = "dir"
  BY <1>4, <1>8 DEF Good, TreeInv, Nodes
<1>12. streams' \in [Dirps -> Streams]
  <2>1. streams' = [s \in Dirps |-> c.S[s]]
    BY <1>1 DEF CutTree
  <2> QED
    BY <1>5, <2>1
<1> QED
  BY <1>9, <1>10, <1>11, <1>12 DEF TreeInv, ScanInv, Streams
-----------------------------------------------------------------------------
\* close gives back no name and no kind: a node that it frees lost its name when
\* it was removed, and only a file has descriptors.
LEMMA CloseKeeps ==
  ASSUME Good, NEW f \in Files, Close(f)
  PROVE  UNCHANGED <<name, kind, parent, kids, streams>>
         /\ \A c \in Slots : deleted'[c] => deleted[c]
<1> DEFINE n == files[f]
<1>1. n \in Slots /\ n \in Nodes /\ kind[n] = "file"
  BY DEF Good, Close, CountInv, ExactCounts, FieldsOK, Users, Nodes
<1>2. CASE refs[n] = 1 /\ deleted[n]
  <2>1. name[n] = NoName
    BY <1>1, <1>2 DEF Good, TreeInv, Forest
  <2>2. /\ name' = [name EXCEPT ![n] = NoName] /\ kind' = [kind EXCEPT ![n] = "file"]
        /\ deleted' = [deleted EXCEPT ![n] = FALSE]
        /\ UNCHANGED <<parent, kids, streams>>
    BY <1>2 DEF Close
  <2> HIDE DEF n
  <2> QED
    BY <1>1, <2>1, <2>2 DEF Good, CountInv, FieldsOK
<1>3. CASE ~(refs[n] = 1 /\ deleted[n])
  BY <1>3 DEF Close
<1> QED
  BY <1>2, <1>3

\* Steps that leave the tree alone.
LEMMA TreeKept ==
  ASSUME Good, UNCHANGED <<name, kind, parent, kids>>,
         \A c \in Slots : deleted'[c] => deleted[c]
  PROVE  TreeInv' /\ (streams' = streams => ScanInv')
BY DEF Good, TreeInv, ScanInv

LEMMA OpendirScan ==
  ASSUME Good, NEW d \in Dirs, Opendir(d)
  PROVE  ScanInv'
<1>1. d \in Nodes /\ kids' = kids
  BY DEF Dirs, Opendir, nodeVars
<1> DEFINE l == kids[d]
           new == [dir |-> d, next |-> IF l = <<>> THEN None ELSE l[1],
                   due |-> Elems(l), cut |-> FALSE]
<1>2. PICK s \in Dirps : streams' = [streams EXCEPT ![s] = new]
  BY DEF Opendir
<1>3. ChildList(l) /\ l \in Seq(Slots)
  BY <1>1 DEF Good, TreeInv, Forest
<1>4. new \in Streams
  BY <1>1, <1>3 DEF Streams, Elems
<1>5. Scanning(kids, new)
  <2>1. CASE l = <<>>
    BY <2>1 DEF Scanning, Elems
  <2>2. CASE l # <<>>
    <3>1. 1 \in 1..Len(l)
      BY <1>3, <2>2
    <3>2. l[1] \in Elems(l) /\ Place(l, l[1]) = 1 /\ l[1] # None
      BY <1>3, <3>1, PlaceIs
    <3>3. Elems(l) = From(l, l[1])
      BY <3>2 DEF Elems, From
    <3> QED
      BY <2>2, <3>2, <3>3 DEF Scanning
  <2> QED
    BY <2>1, <2>2
<1> HIDE DEF new
<1>6. /\ streams' \in [Dirps -> Streams]
      /\ \A t \in Dirps : streams'[t] = IF t = s THEN new ELSE streams[t]
  BY <1>2, <1>4 DEF Good, ScanInv, Streams
<1> QED
  BY <1>1, <1>5, <1>6 DEF Good, ScanInv, Streams

LEMMA ReaddirScan ==
  ASSUME Good, NEW s \in Dirps, Readdir(s)
  PROVE  ScanInv'
<1> DEFINE st == streams[s]
           c  == st.next
           t  == [st EXCEPT !.next = Sibling(c), !.due = IF name[c] = NoName THEN @ ELSE @ \ {c}]
<1>1. st \in Streams /\ st.dir # None /\ c \in Slots /\ c \in Nodes /\ Scanning(kids, st)
  BY DEF Good, ScanInv, Readdir, Streams, Nodes
<1>2. streams' = [streams EXCEPT ![s] = t] /\ kids' = kids
  BY DEF Readdir, nodeVars, Good, ScanInv, Streams
<1>3. Sibling(c) \in Slots \cup {None}
  <2>1. CASE parent[c] = None
    BY <2>1 DEF Sibling
  <2>2. CASE parent[c] # None
    <3>1. /\ kids[parent[c]] \in Seq(Slots) /\ c \in Elems(kids[parent[c]])
      BY <1>1, <2>2 DEF Good, TreeInv, Forest
    <3>2. Place(kids[parent[c]], c) \in 1..Len(kids[parent[c]])
      BY <3>1, PlaceOf
    <3> QED
      BY <2>2, <3>1, <3>2 DEF Sibling
  <2> QED
    BY <2>1, <2>2
<1>4. t \in Streams /\ t.dir = st.dir /\ t.cut = st.cut /\ t.next = Sibling(c)
      /\ t.due = IF name[c] = NoName THEN st.due ELSE st.due \ {c}
  BY <1>1, <1>3 DEF Streams
<1>5. Scanning(kids, t)
  <2> SUFFICES ASSUME ~st.cut PROVE Scanning(kids, t)
    BY <1>4 DEF Scanning
  <2> DEFINE l == kids[st.dir]
             k == Place(l, c)
  <2>1. /\ st.dir \in Nodes /\ ChildList(l) /\ l \in Seq(Slots) /\ c \in Elems(l)
        /\ st.due = From(l, c)
    BY <1>1 DEF Streams, Scanning, Good, TreeInv, Forest
  <2>2. parent[c] = st.dir /\ name[c] # NoName
    BY <1>1, <2>1 DEF Good, TreeInv, Forest
  <2>3. k \in 1..Len(l) /\ l[k] = c /\ Len(l) \in Nat
    BY <2>1, PlaceOf
  <2>4. t.due = {l[i] : i \in k+1..Len(l)}
    <3>1. t.due = {l[i] : i \in k..Len(l)} \ {c}
      BY <1>4, <2>1, <2>2 DEF From
    <3> HIDE DEF k, t
    <3>2. \A i \in k..Len(l) : l[i] = c => i = k
      BY <2>1, <2>3 DEF ChildList, Once
    <3>3. \A x : x \in t.due <=> \E i \in k+1..Len(l) : x = l[i]
      <4> TAKE x
      <4>1. ASSUME x \in t.due PROVE \E i \in k+1..Len(l) : x = l[i]
        <5>1. PICK i \in k..Len(l) : x = l[i] /\ x # c
          BY <3>1, <4>1
        <5>2. i \in k+1..Len(l)
          BY <2>3, <5>1
        <5> QED
          BY <5>1, <5>2
      <4>2. ASSUME NEW i \in k+1..Len(l), x = l[i] PROVE x \in t.due
        <5>1. i \in k..Len(l) /\ i # k
          BY <2>3
        <5> QED
          BY <3>1, <3>2, <4>2, <5>1
      <4> QED
        BY <4>1, <4>2
    <3> QED
      BY <3>3
  <2>5. Sibling(c) = IF k < Len(l) THEN l[k+1] ELSE None
    BY <2>1, <2>2 DEF Sibling, Nodes
  <2>6. CASE k < Len(l)
    <3>1. k+1 \in 1..Len(l)
      BY <2>3, <2>6
    <3>2. l[k+1] \in Elems(l) /\ Place(l, l[k+1]) = k+1
      BY <2>1, <3>1, PlaceIs
    <3>3. t.due = From(l, l[k+1])
      BY <2>4, <3>2 DEF From
    <3>4. l[k+1] # None /\ t.next = l[k+1]
      BY <1>4, <2>1, <2>5, <2>6, <3>1
    <3> HIDE DEF t, k
    <3> QED
      BY <1>4, <3>2, <3>3, <3>4 DEF Scanning
  <2>7. CASE ~(k < Len(l))
    <3>1. t.due = {}
      BY <2>3, <2>4, <2>7
    <3>2. t.next = None
      BY <1>4, <2>5, <2>7
    <3> HIDE DEF t
    <3> QED
      BY <3>1, <3>2 DEF Scanning
  <2> QED
    BY <2>6, <2>7
<1> HIDE DEF t
<1>6. /\ streams' \in [Dirps -> Streams]
      /\ \A u \in Dirps : streams'[u] = IF u = s THEN t ELSE streams[u]
  BY <1>2, <1>4 DEF Good, ScanInv, Streams
<1> QED
  BY <1>2, <1>5, <1>6 DEF Good, ScanInv, Streams

LEMMA ClosedirScan ==
  ASSUME Good, NEW s \in Dirps, Closedir(s)
  PROVE  ScanInv'
<1>1. Idle \in Streams /\ Scanning(kids, Idle)
  BY DEF Idle, Streams, Scanning
<1>2. kids' = kids /\ streams' = [streams EXCEPT ![s] = Idle]
  BY DEF Closedir, nodeVars
<1> QED
  BY <1>1, <1>2 DEF Good, ScanInv, Streams
-----------------------------------------------------------------------------
LEMMA NewTree ==
  ASSUME Good, NEW d \in Dirs, NEW nm \in Names, NEW wantDir \in BOOLEAN,
         Mkdir(d, nm) \/ Symlink(d, nm) \/ OpenNew(d, nm, wantDir)
  PROVE  TreeInv' /\ ScanInv'
<1>1. "dir" \in Kinds /\ "link" \in Kinds /\ "file" \in Kinds
  BY DEF Kinds
<1>2. PICK n \in Slots, k \in Kinds, uses \in Nat :
        Add(n, k, d, nm, uses) /\ UNCHANGED streams
  BY <1>1 DEF Mkdir, Symlink, OpenNew
<1> QED
  BY <1>2, AddTree

LEMMA NextTree == Good /\ [Next]_vars => TreeInv' /\ ScanInv'
<1> SUFFICES ASSUME Good, [Next]_vars PROVE TreeInv' /\ ScanInv'
  OBVIOUS
<1>1. CASE UNCHANGED vars
  BY <1>1, TreeKept DEF vars, nodeVars
<1>2. ASSUME NEW d \in Dirs, NEW nm \in Names, Mkdir(d, nm) \/ Symlink(d, nm)
      PROVE  TreeInv' /\ ScanInv'
  <2>1. TRUE \in BOOLEAN
    OBVIOUS
  <2> QED
    BY <1>2, <2>1, NewTree
<1>3. ASSUME NEW d \in Dirs, NEW nm \in Names, OpenOld(d, nm)
      PROVE  TreeInv' /\ ScanInv'
  BY <1>3, TreeKept DEF OpenOld
<1>4. ASSUME NEW d \in Dirs, Chdir(d)
      PROVE  TreeInv' /\ ScanInv'
  BY <1>4, TreeKept DEF Chdir, nodeVars
<1>5. ASSUME NEW d \in Dirs, Opendir(d)
      PROVE  TreeInv' /\ ScanInv'
  BY <1>5, TreeKept, OpendirScan DEF Opendir, nodeVars
<1>6. ASSUME NEW f \in Files, Close(f)
      PROVE  TreeInv' /\ ScanInv'
  BY <1>6, CloseKeeps, TreeKept
<1>7. ASSUME NEW s \in Dirps, Readdir(s)
      PROVE  TreeInv' /\ ScanInv'
  BY <1>7, TreeKept, ReaddirScan DEF Readdir, nodeVars
<1>8. ASSUME NEW s \in Dirps, Closedir(s)
      PROVE  TreeInv' /\ ScanInv'
  BY <1>8, TreeKept, ClosedirScan DEF Closedir, nodeVars
<1> QED
  BY <1>1, <1>2, <1>3, <1>4, <1>5, <1>6, <1>7, <1>8, NewTree, RmdirTree, UnlinkTree, RenameTree
  DEF Next

LEMMA AlwaysGood == Spec => []Good
<1>1. Init => Good
  BY InitCounts, InitTree DEF Good
<1>2. Good /\ [Next]_vars => Good'
  BY NextCounts, NextTree DEF Good
<1> QED
  BY <1>1, <1>2, PTL DEF Spec

(***************************************************************************)
(* Whatever the sizes of its tables, node_acquire finds no children and no *)
(* parent in the slot that it clears.                                      *)
(***************************************************************************)
THEOREM FreeStaysEmpty == Spec => []FreeIsEmpty
<1>1. Good => FreeIsEmpty
  BY FreeNodes DEF Good, FreeIsEmpty
<1> QED
  BY <1>1, AlwaysGood, PTL

(***************************************************************************)
(* However many streams are open and whatever else is done to the tree, a  *)
(* scan that was not cut off still has before it just the entries that it  *)
(* owes its caller.                                                        *)
(***************************************************************************)
THEOREM ScansAreExact == Spec => []ScanExact
<1>1. Good => ScanExact
  <2> SUFFICES ASSUME Good, NEW s \in Dirps, streams[s].dir # None, ~streams[s].cut
               PROVE  streams[s].due = Ahead(s)
    BY DEF ScanExact
  <2>1. Scanning(kids, streams[s])
    BY DEF Good, ScanInv
  <2> QED
    BY <2>1 DEF Scanning, Ahead, From
<1> QED
  BY <1>1, AlwaysGood, PTL

(***************************************************************************)
(* The fields of the nodes, descriptors and streams keep their types.      *)
(***************************************************************************)
THEOREM TreeTypes == Spec => []TypeOK
<1>1. Init => cwd \in Nodes
  BY DEF Init, Nodes
<1>2. cwd \in Nodes /\ [Next]_vars => (cwd \in Nodes)'
  <2>1. \A d \in Dirs : Chdir(d) => cwd' \in Nodes
    BY DEF Chdir, Dirs
  <2>2. UNCHANGED vars => cwd' = cwd
    BY DEF vars
  <2>3. ASSUME NEW d \in Dirs, NEW nm \in Names,
               \/ Mkdir(d, nm) \/ Symlink(d, nm) \/ Unlink(d, nm) \/ OpenOld(d, nm)
               \/ \E e \in Dirs, nm2 \in Names, alloc \in BOOLEAN : Rename(d, nm, e, nm2, alloc)
               \/ \E wantDir \in BOOLEAN : OpenNew(d, nm, wantDir)
        PROVE  cwd' = cwd
    BY <2>3, ZenonT(40) DEF Mkdir, Symlink, Unlink, OpenOld, Rename, OpenNew
  <2>4. ASSUME NEW d \in Dirs, Rmdir(d) \/ Opendir(d) PROVE cwd' = cwd
    BY <2>4 DEF Rmdir, Opendir
  <2>5. \A f \in Files : Close(f) => cwd' = cwd
    BY DEF Close
  <2>6. \A s \in Dirps : Readdir(s) \/ Closedir(s) => cwd' = cwd
    BY DEF Readdir, Closedir
  <2> QED
    BY <2>1, <2>2, <2>3, <2>4, <2>5, <2>6 DEF Next
<1>3. Good /\ cwd \in Nodes => TypeOK
  BY DEF Good, CountInv, FieldsOK, TreeInv, Forest, ScanInv, TypeOK
<1> QED
  BY <1>1, <1>2, <1>3, AlwaysGood, PTL DEF Spec
-----------------------------------------------------------------------------
\* A step changes no directory above an open one.
LEMMA AboveStays ==
  ASSUME Good, Next, NEW s \in Dirps, streams[s].dir # None,
         NEW a \in Ancestors(streams[s].dir), a # streams[s].dir
  PROVE  parent'[a] = parent[a] /\ name'[a] = name[a]
<1> DEFINE Kept == parent'[a] = parent[a] /\ name'[a] = name[a]
<1>1. a \in Nodes /\ kind[a] = "dir"
  BY AncestorsAreDirs DEF Good, ScanInv
<1>2. HeldBelow(a)
  BY DEF HeldBelow
<1>3. ASSUME NEW d \in Dirs, NEW nm \in Names, NEW wantDir \in BOOLEAN,
             Mkdir(d, nm) \/ Symlink(d, nm) \/ OpenNew(d, nm, wantDir)
      PROVE  Kept
  <2>1. PICK n \in Slots : /\ n \in Free
                           /\ name' = [name EXCEPT ![n] = nm]
                           /\ parent' = [parent EXCEPT ![n] = d]
    BY <1>3 DEF Mkdir, Symlink, OpenNew, Add
  <2> QED
    BY <1>1, <2>1 DEF Free, Good, CountInv, FieldsOK, TreeInv, Forest
<1>4. ASSUME NEW d \in Dirs, Rmdir(d) PROVE Kept
  <2>1. a # d
    BY <1>2, <1>4 DEF Rmdir
  <2> QED
    BY <1>1, <1>4, <2>1 DEF Rmdir, Good, CountInv, FieldsOK, TreeInv, Forest
<1>5. ASSUME NEW d \in Dirs, NEW nm \in Names, Unlink(d, nm) PROVE Kept
  <2>1. PICK n \in Child(d, nm) : /\ kind[n] # "dir"
                                  /\ name' = [name EXCEPT ![n] = NoName]
                                  /\ parent' = [parent EXCEPT ![n] = None]
    BY <1>5 DEF Unlink
  <2> QED
    BY <1>1, <2>1 DEF Good, CountInv, FieldsOK, TreeInv, Forest
<1>6. ASSUME NEW d \in Dirs, NEW nm \in Names, NEW e \in Dirs, NEW nm2 \in Names,
             NEW alloc \in BOOLEAN, Rename(d, nm, e, nm2, alloc)
      PROVE  Kept
  <2>1. PICK n \in Child(d, nm) : /\ CanRename(n, e, Child(e, nm2))
                                  /\ Replaced(Child(e, nm2), n, e, nm2, alloc)
    BY <1>6 DEF Rename
  <2>2. a # n /\ a \notin Child(e, nm2)
    BY <1>1, <1>2, <2>1 DEF CanRename
  <2> QED
    BY <1>1, <2>1, <2>2 DEF Replaced
<1>7. ASSUME NEW f \in Files, Close(f) PROVE Kept
  BY <1>7, CloseKeeps
<1>8. ASSUME NEW d \in Dirs, NEW nm \in Names, OpenOld(d, nm) PROVE Kept
  BY <1>8 DEF OpenOld
<1>9. ASSUME NEW d \in Dirs, Chdir(d) \/ Opendir(d) PROVE Kept
  BY <1>9 DEF Chdir, Opendir, nodeVars
<1>10. ASSUME NEW t \in Dirps, Readdir(t) \/ Closedir(t) PROVE Kept
  BY <1>10 DEF Readdir, Closedir, nodeVars
<1>11. ASSUME NEW d \in Dirs, NEW nm \in Names, Mkdir(d, nm) \/ Symlink(d, nm) PROVE Kept
  <2>1. TRUE \in BOOLEAN
    OBVIOUS
  <2> QED
    BY <1>3, <1>11, <2>1
<1> HIDE DEF Kept
<1>12. Kept
  BY <1>3, <1>4, <1>5, <1>6, <1>7, <1>8, <1>9, <1>10, <1>11 DEF Next
<1> QED
  BY <1>12 DEF Kept

(***************************************************************************)
(* No call moves, renames or removes a directory above an open one, in a   *)
(* tree of any size.                                                       *)
(***************************************************************************)
THEOREM NothingPrunedAbove == Spec => StreamsStayPut
<1>1. Good /\ [Next]_vars =>
        [\A s \in Dirps :
           LET d == streams[s].dir
           IN  d # None /\ streams'[s].dir = d /\ <<parent[d], name[d]>>' = <<parent[d], name[d]>> =>
                 \A a \in Ancestors(d) : parent'[a] = parent[a] /\ name'[a] = name[a]]_vars
  <2> SUFFICES ASSUME Good, Next, NEW s \in Dirps, streams[s].dir # None,
                      streams'[s].dir = streams[s].dir,
                      <<parent[streams[s].dir], name[streams[s].dir]>>'
                        = <<parent[streams[s].dir], name[streams[s].dir]>>,
                      NEW a \in Ancestors(streams[s].dir)
               PROVE  parent'[a] = parent[a] /\ name'[a] = name[a]
    OBVIOUS
  <2>1. CASE a = streams[s].dir
    BY <2>1
  <2>2. CASE a # streams[s].dir
    BY <2>2, AboveStays
  <2> QED
    BY <2>1, <2>2
<1> QED
  BY <1>1, AlwaysGood, PTL DEF Spec, StreamsStayPut
=============================================================================
