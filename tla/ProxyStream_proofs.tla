-------------------------- MODULE ProxyStream_proofs --------------------------
(***************************************************************************)
(* First what push does, for every window, every set of parked chunks and  *)
(* every chunk.  The drain loop is a least fixpoint (Visited), so every    *)
(* fact about it is shown by giving a set that contains the start and is   *)
(* closed under stepping over a parked chunk (VisitedLeast).               *)
(*                                                                         *)
(* Then the safety properties of the downlink, for every stream length,    *)
(* window, tail, channel capacity and number of FEC copies: each follows   *)
(* from IInv, which is inductive.                                          *)
(***************************************************************************)
EXTENDS ProxyStream, Integers, FiniteSetTheorems, WellFoundedInduction, SequenceTheorems, TLAPS

\* A non-empty set of naturals below a bound has a largest element.
LEMMA LargestBounded ==
  ASSUME NEW S, S \subseteq Nat, S # {}, NEW b \in Nat, \A s \in S : s <= b
  PROVE  \E m \in S : \A s \in S : s <= m
<1> DEFINE T == {b - s : s \in S}
<1>1. T \subseteq Nat
  OBVIOUS
<1>2. T # {}
  OBVIOUS
<1>3. PICK x \in T : \A y \in T : <<y, x>> \notin OpToRel(<, Nat)
  <2>1. IsWellFoundedOn(OpToRel(<, Nat), Nat)
    BY NatLessThanWellFounded
  <2> QED BY <1>1, <1>2, <2>1, WFMin
<1>4. \A y \in T : ~ (y < x)
  BY <1>1, <1>3 DEF OpToRel
<1>5. PICK m \in S : x = b - m
  OBVIOUS
<1>6. \A s \in S : s <= m
  <2> TAKE s \in S
  <2>1. ~ (b - s < b - m)
    BY <1>4, <1>5
  <2> QED BY <2>1
<1> QED BY <1>6

-----------------------------------------------------------------------------
(***************************************************************************)
(* The drain loop.                                                         *)
(***************************************************************************)
\* The start is visited, and stepping over a visited parked chunk is too.
LEMMA VisitedClosed ==
  ASSUME NEW P, NEW e
  PROVE  /\ e \in Visited(P, e)
         /\ Closed(P, Visited(P, e))
         /\ Visited(P, e) \subseteq Stops(P, e)
BY DEF Visited, Closed, Stops

\* Nothing else is visited.
LEMMA VisitedLeast ==
  ASSUME NEW P, NEW e, NEW T, T \subseteq Visited(P, e), e \in T, Closed(P, T)
  PROVE  Visited(P, e) \subseteq T
BY DEF Visited

\* The loop stays between its start and the end of the stream, and moves forward.
LEMMA VisitedBounds ==
  ASSUME NEW B \in Nat, NEW P, GoodPending(P, B), NEW e \in Nat, e <= B
  PROVE  /\ \A x \in Visited(P, e) : x \in Nat /\ e <= x /\ x <= B
         /\ \A o \in DOMAIN P : o \in Nat /\ After(P, o) \in Nat /\ o < After(P, o)
<1>1. \A o \in DOMAIN P : o \in Nat /\ After(P, o) \in Nat /\ o < After(P, o) /\ After(P, o) <= B
  <2> TAKE o \in DOMAIN P
  <2>1. o \in Nat /\ P[o] \in Bytes /\ o + Len(P[o]) <= B
    BY DEF GoodPending, InPlace
  <2>2. Len(P[o]) \in Nat /\ Len(P[o]) # 0
    BY <2>1 DEF Bytes, Byte
  <2> QED BY <2>1, <2>2 DEF After
<1>2. \A x \in Stops(P, e) : x \in Nat /\ x <= B
  BY <1>1 DEF Stops
<1> DEFINE T == {x \in Visited(P, e) : e <= x}
<1>3. Visited(P, e) \subseteq Stops(P, e) /\ e \in Visited(P, e) /\ Closed(P, Visited(P, e))
  BY VisitedClosed
<1>4. Closed(P, T)
  <2> SUFFICES ASSUME NEW o \in T \cap DOMAIN P
               PROVE  After(P, o) \in T
    BY DEF Closed
  <2>1. After(P, o) \in Visited(P, e)
    BY <1>3 DEF Closed
  <2>2. e <= After(P, o)
    BY <1>1
  <2> QED BY <2>1, <2>2
<1>5. Visited(P, e) \subseteq T
  <2>1. T \subseteq Visited(P, e) /\ e \in T
    BY <1>3
  <2> QED BY <2>1, <1>4, VisitedLeast
<1> QED BY <1>1, <1>2, <1>3, <1>5

\* The loop stops: the offset it stops at is visited and holds no parked chunk.
LEMMA DrainStops ==
  ASSUME NEW B \in Nat, NEW P, GoodPending(P, B), NEW e \in Nat, e <= B
  PROVE  DrainEnd(P, e) \in Visited(P, e) /\ DrainEnd(P, e) \notin DOMAIN P
<1> DEFINE V == Visited(P, e)
<1>1. V \subseteq Nat /\ V # {} /\ \A x \in V : x <= B
  BY VisitedBounds, VisitedClosed
<1>2. PICK m \in V : \A x \in V : x <= m
  <2> HIDE DEF V
  <2> QED BY <1>1, LargestBounded
<1>3. m \notin DOMAIN P
  <2> SUFFICES ASSUME m \in DOMAIN P PROVE FALSE
    OBVIOUS
  <2>1. After(P, m) \in V /\ m < After(P, m) /\ After(P, m) \in Nat /\ m \in Nat
    BY VisitedBounds, VisitedClosed DEF Closed
  <2>2. After(P, m) <= m
    BY <2>1, <1>2
  <2> QED BY <2>1, <2>2
<1> QED BY <1>3 DEF DrainEnd

\* The bytes between the start and any visited offset are those of drained chunks.
LEMMA DrainTiles ==
  ASSUME NEW B \in Nat, NEW P, GoodPending(P, B), NEW e \in Nat, e <= B
  PROVE  \A x \in Visited(P, e) : \A k \in e .. (x - 1) :
           \E o \in Drained(P, e) : o <= k /\ k < After(P, o)
<1> DEFINE V == Visited(P, e)
           Covered(k) == \E o \in Drained(P, e) : o <= k /\ k < After(P, o)
           T == {x \in V : \A k \in e .. (x - 1) : Covered(k)}
<1>1. /\ \A x \in V : x \in Nat /\ e <= x /\ x <= B
      /\ \A o \in DOMAIN P : o \in Nat /\ After(P, o) \in Nat /\ o < After(P, o)
  BY VisitedBounds
<1>2. e \in V /\ Closed(P, V)
  BY VisitedClosed
<1>3. e \in T
  BY <1>2
<1>4. Closed(P, T)
  <2> SUFFICES ASSUME NEW o \in T \cap DOMAIN P
               PROVE  After(P, o) \in T
    BY DEF Closed
  <2>1. After(P, o) \in V
    BY <1>2 DEF Closed
  <2>2. ASSUME NEW k \in e .. (After(P, o) - 1) PROVE Covered(k)
    <3>1. CASE k < o
      <4>1. k \in e .. (o - 1)
        BY <3>1, <1>1
      <4> QED BY <4>1
    <3>2. CASE ~ (k < o)
      <4>1. o \in Drained(P, e)
        BY DEF Drained
      <4>2. o <= k /\ k < After(P, o)
        BY <3>2, <1>1, <2>2
      <4> QED BY <4>1, <4>2
    <3> QED BY <3>1, <3>2
  <2> QED BY <2>1, <2>2
<1>5. V \subseteq T
  <2>1. T \subseteq V
    OBVIOUS
  <2> QED BY <2>1, <1>3, <1>4, VisitedLeast
<1> QED BY <1>5

\* The visited offsets form a chain: none lies inside a drained chunk.
LEMMA DrainChain ==
  ASSUME NEW B \in Nat, NEW P, GoodPending(P, B), NEW e \in Nat, e <= B
  PROVE  \A x \in Drained(P, e), y \in Visited(P, e) :
           /\ x < y => After(P, x) <= y
           /\ y <= x \/ After(P, x) <= y
<1> DEFINE V == Visited(P, e)
           Comp(y) == \A x \in V : x \in DOMAIN P /\ x < y => After(P, x) <= y
           T == {y \in V : Comp(y)}
<1>1. /\ \A x \in V : x \in Nat /\ e <= x
      /\ \A o \in DOMAIN P : o \in Nat /\ After(P, o) \in Nat /\ o < After(P, o)
  BY VisitedBounds
<1>2. e \in V /\ Closed(P, V)
  BY VisitedClosed
<1>3. ASSUME NEW y \in V, y \in DOMAIN P, Comp(y)
      PROVE  \A x \in V : x <= y \/ After(P, y) <= x
  <2> DEFINE U == {x \in V : x <= y \/ After(P, y) <= x}
  <2>1. e \in U
    BY <1>1, <1>2
  <2>2. Closed(P, U)
    <3> SUFFICES ASSUME NEW x \in U \cap DOMAIN P
                 PROVE  After(P, x) \in U
      BY DEF Closed
    <3>1. After(P, x) \in V
      BY <1>2 DEF Closed
    <3>2. CASE x < y
      BY <3>1, <3>2, <1>3
    <3>3. CASE x = y
      BY <3>1, <3>3, <1>1
    <3>4. CASE After(P, y) <= x
      BY <3>1, <3>4, <1>1, <1>3
    <3> QED BY <3>2, <3>3, <3>4, <1>1
  <2>3. U \subseteq V
    OBVIOUS
  <2>4. V \subseteq U
    BY <2>1, <2>2, <2>3, VisitedLeast
  <2> QED BY <2>4
<1>4. Closed(P, T)
  <2> SUFFICES ASSUME NEW y \in T \cap DOMAIN P
               PROVE  After(P, y) \in T
    BY DEF Closed
  <2>1. After(P, y) \in V
    BY <1>2 DEF Closed
  <2>2. ASSUME NEW x \in V, x \in DOMAIN P, x < After(P, y)
        PROVE  After(P, x) <= After(P, y)
    <3>1. x <= y
      BY <1>1, <1>3, <2>2
    <3>2. CASE x = y
      BY <3>2, <1>1
    <3>3. CASE x < y
      BY <3>3, <2>2, <1>1
    <3> QED BY <3>1, <3>2, <3>3, <1>1
  <2> QED BY <2>1, <2>2
<1>5. V \subseteq T
  <2>1. T \subseteq V /\ e \in T
    BY <1>1, <1>2
  <2> QED BY <2>1, <1>4, VisitedLeast
<1> SUFFICES ASSUME NEW x \in Drained(P, e), NEW y \in V
             PROVE  (x < y => After(P, x) <= y) /\ (y <= x \/ After(P, x) <= y)
  OBVIOUS
<1>6. x \in V /\ x \in DOMAIN P
  BY DEF Drained
<1>7. Comp(x) /\ Comp(y)
  BY <1>5, <1>6
<1> QED BY <1>3, <1>6, <1>7

\* The offset the loop stops at is the largest it visits.
LEMMA DrainEndLargest ==
  ASSUME NEW B \in Nat, NEW P, GoodPending(P, B), NEW e \in Nat, e <= B
  PROVE  \A x \in Visited(P, e) : x <= DrainEnd(P, e)
<1> DEFINE V == Visited(P, e)
           d == DrainEnd(P, e)
           T == {x \in V : x <= d}
<1>1. d \in V /\ d \notin DOMAIN P
  BY DrainStops
<1>2. \A x \in V : x \in Nat /\ e <= x
  BY VisitedBounds
<1>3. e \in V /\ Closed(P, V)
  BY VisitedClosed
<1> HIDE DEF d
<1>4. Closed(P, T)
  <2> SUFFICES ASSUME NEW x \in T \cap DOMAIN P
               PROVE  After(P, x) \in T
    BY DEF Closed
  <2>1. After(P, x) \in V
    BY <1>3 DEF Closed
  <2>2. x \in Drained(P, e)
    BY DEF Drained
  <2>3. x < d
    BY <1>1, <1>2
  <2>4. After(P, x) <= d
    BY <1>1, <2>2, <2>3, DrainChain
  <2> QED BY <2>1, <2>4
<1>5. V \subseteq T
  <2>1. T \subseteq V /\ e \in T
    BY <1>1, <1>2, <1>3
  <2> QED BY <2>1, <1>4, VisitedLeast
<1> QED BY <1>5 DEF d

-----------------------------------------------------------------------------
(***************************************************************************)
(* The parked bytes.                                                       *)
(***************************************************************************)
\* A function on an initial segment of the naturals is a sequence.
LEMMA FunctionIsSeq ==
  ASSUME NEW n \in Nat, NEW S, NEW f \in [1 .. n -> S]
  PROVE  f \in Seq(S) /\ Len(f) = n
OBVIOUS

\* The size of an initial segment.
LEMMA SegmentSize ==
  ASSUME NEW n \in Nat
  PROVE  IsFiniteSet(1 .. n) /\ Cardinality(1 .. n) = n
<1>1. /\ IsFiniteSet(1 .. n)
      /\ Cardinality(1 .. n) = IF 1 > n THEN 0 ELSE n - 1 + 1
  BY FS_Interval
<1> QED BY <1>1

\* A parked byte is an index in a parked chunk.
LEMMA CellsMember ==
  ASSUME NEW P, NEW x
  PROVE  x \in Cells(P) <=> \E o \in DOMAIN P : \E i \in 1 .. Len(P[o]) : x = <<o, i>>
BY DEF Cells

\* There are finitely many parked bytes.
LEMMA CellsFinite ==
  ASSUME NEW B \in Nat, NEW P, GoodPending(P, B)
  PROVE  IsFiniteSet(Cells(P)) /\ Cardinality(Cells(P)) \in Nat
<1>1. Cells(P) \subseteq (0 .. B) \X (0 .. B)
  <2> SUFFICES ASSUME NEW o \in DOMAIN P, NEW i \in 1 .. Len(P[o])
               PROVE  o \in 0 .. B /\ i \in 0 .. B
    BY DEF Cells
  <2>1. o \in Nat /\ Len(P[o]) \in Nat /\ o + Len(P[o]) <= B
    BY DEF GoodPending, InPlace, Bytes, Byte
  <2> QED BY <2>1
<1>2. IsFiniteSet((0 .. B) \X (0 .. B))
  <2>1. IsFiniteSet(0 .. B)
    BY FS_Interval
  <2> QED BY <2>1, FS_Product
<1> QED BY <1>1, <1>2, FS_Subset, FS_CardinalityType

\* The drained bytes are as many as the positions the loop moves over.
LEMMA DrainedCells ==
  ASSUME NEW B \in Nat, NEW P, GoodPending(P, B), NEW e \in Nat, e <= B
  PROVE  LET D == {c \in Cells(P) : c[1] \in Drained(P, e)}
         IN  IsFiniteSet(D) /\ Cardinality(D) = DrainEnd(P, e) - e
<1> DEFINE D   == {c \in Cells(P) : c[1] \in Drained(P, e)}
           end == DrainEnd(P, e)
           f   == [c \in D |-> c[1] + c[2] - 1]
<1>1. end \in Nat /\ e <= end
  BY DrainStops, VisitedBounds
<1>2. \A c \in D : /\ c = <<c[1], c[2]>> /\ c[1] \in Nat /\ c[2] \in Nat /\ c[2] >= 1
                   /\ c[1] + c[2] <= After(P, c[1]) /\ c[1] \in Drained(P, e)
                   /\ e <= c[1] /\ After(P, c[1]) <= end
                   /\ After(P, c[1]) \in Nat
  <2> SUFFICES ASSUME NEW o \in DOMAIN P, NEW i \in 1 .. Len(P[o]), o \in Drained(P, e)
               PROVE  /\ o \in Nat /\ i \in Nat /\ i >= 1 /\ o + i <= After(P, o)
                      /\ e <= o /\ After(P, o) <= end /\ After(P, o) \in Nat
    BY DEF Cells
  <2>1. o \in Nat /\ Len(P[o]) \in Nat
    BY DEF GoodPending, InPlace, Bytes, Byte
  <2>2. i \in Nat /\ i >= 1 /\ o + i <= After(P, o)
    BY <2>1 DEF After
  <2>3. o \in Visited(P, e) /\ After(P, o) \in Visited(P, e)
    BY VisitedClosed DEF Drained, Closed
  <2>4. e <= o /\ After(P, o) \in Nat
    BY <2>3, VisitedBounds
  <2>5. After(P, o) <= end
    BY <2>3, DrainEndLargest
  <2> QED BY <2>1, <2>2, <2>4, <2>5
<1>3. f \in [D -> e .. (end - 1)]
  <2> SUFFICES ASSUME NEW c \in D PROVE c[1] + c[2] - 1 \in e .. (end - 1)
    OBVIOUS
  <2> QED BY <1>1, <1>2
<1>4. \A c, d \in D : f[c] = f[d] => c = d
  <2> SUFFICES ASSUME NEW c \in D, NEW d \in D, f[c] = f[d]
               PROVE  c = d
    OBVIOUS
  <2>1. c[1] + c[2] = d[1] + d[2]
    BY <1>2
  <2>2. ~ (c[1] < d[1])
    <3> SUFFICES ASSUME c[1] < d[1] PROVE FALSE
      OBVIOUS
    <3>1. After(P, c[1]) <= d[1]
      <4>1. c[1] \in Drained(P, e) /\ d[1] \in Visited(P, e)
        BY <1>2 DEF Drained
      <4> QED BY <4>1, DrainChain
    <3> QED BY <3>1, <2>1, <1>2
  <2>3. ~ (d[1] < c[1])
    <3> SUFFICES ASSUME d[1] < c[1] PROVE FALSE
      OBVIOUS
    <3>1. After(P, d[1]) <= c[1]
      <4>1. d[1] \in Drained(P, e) /\ c[1] \in Visited(P, e)
        BY <1>2 DEF Drained
      <4> QED BY <4>1, DrainChain
    <3> QED BY <3>1, <2>1, <1>2
  <2>4. c[1] = d[1] /\ c[2] = d[2]
    BY <2>1, <2>2, <2>3, <1>2
  <2> QED BY <2>4, <1>2
<1>5. \A k \in e .. (end - 1) : \E c \in D : f[c] = k
  <2> TAKE k \in e .. (end - 1)
  <2>1. PICK o \in Drained(P, e) : o <= k /\ k < After(P, o)
    <3>1. end \in Visited(P, e)
      BY DrainStops
    <3> QED BY <3>1, DrainTiles
  <2>2. o \in DOMAIN P /\ o \in Nat /\ Len(P[o]) \in Nat
    BY DEF Drained, GoodPending, InPlace, Bytes, Byte
  <2>3. k - o + 1 \in 1 .. Len(P[o])
    BY <2>1, <2>2, <1>1 DEF After
  <2>4. <<o, k - o + 1>> \in D
    BY <2>2, <2>3 DEF Cells
  <2>5. f[<<o, k - o + 1>>] = k
    BY <2>2, <2>4, <1>1
  <2> QED BY <2>4, <2>5
<1>6. f \in Bijection(D, e .. (end - 1))
  BY <1>3, <1>4, <1>5 DEF Bijection, Injection, Surjection, IsInjective
<1>7. IsFiniteSet(D)
  BY CellsFinite, FS_Subset
<1>8. Cardinality(D) = Cardinality(e .. (end - 1))
  <2>1. ExistsBijection(D, e .. (end - 1))
    BY <1>6 DEF ExistsBijection
  <2> QED BY <2>1, <1>7, FS_Bijection
<1>9. Cardinality(e .. (end - 1)) = end - e
  <2> HIDE DEF end
  <2>1. e \in Int /\ end - 1 \in Int
    BY <1>1
  <2>2. Cardinality(e .. (end - 1)) = IF e > end - 1 THEN 0 ELSE (end - 1) - e + 1
    BY <2>1, FS_Interval
  <2> QED BY <1>1, <2>2
<1> QED BY <1>7, <1>8, <1>9

-----------------------------------------------------------------------------
(***************************************************************************)
(* push.                                                                   *)
(***************************************************************************)
\* What a successful push keeps true and what it makes ready: the bytes from the
\* old expected offset to the new one, in order.
PushResult(r, p, B) ==
  /\ Sound(p.rx, B)
  /\ r.expected <= p.rx.expected
  /\ p.out \in Seq(Byte)
  /\ Len(p.out) = p.rx.expected - r.expected
  /\ \A i \in 1 .. Len(p.out) : p.out[i] = r.expected + i - 1
  /\ Accounted(p.rx) /\ p.rx.buffered_bytes <= MaxBuffered

\* A chunk at the expected offset is consumed with the parked run behind it.
LEMMA ConsumeCorrect ==
  ASSUME NEW B \in Nat, NEW r, Sound(r, B), Accounted(r), r.buffered_bytes <= MaxBuffered,
         NEW c, c.data \in Bytes, c.off = r.expected, InPlace(c.off, c.data, B)
  PROVE  Consume(r, c).ok /\ PushResult(r, Consume(r, c), B)
<1> DEFINE P   == r.pending
           e   == r.expected + Len(c.data)
           end == DrainEnd(P, e)
           D   == Drained(P, e)
           Q   == [o \in DOMAIN P \ D |-> P[o]]
           out == [i \in 1 .. (end - r.expected) |->
                     IF i <= Len(c.data) THEN c.data[i]
                     ELSE DrainByte(P, e, r.expected + i - 1)]
           new == [expected |-> end, pending |-> Q, buffered_bytes |-> r.buffered_bytes - (end - e)]
<1>1. /\ GoodPending(P, B) /\ r.expected \in Nat /\ Len(c.data) \in Nat
      /\ e \in Nat /\ e <= B /\ r.expected <= e
  BY DEF Sound, InPlace, Bytes, Byte
<1>2. end \in Visited(P, e) /\ end \in Nat /\ e <= end /\ end <= B
  <2> HIDE DEF e
  <2> QED BY <1>1, DrainStops, VisitedBounds
<1>3. GoodPending(Q, B)
  BY <1>1 DEF GoodPending
<1>4. \A k \in e .. (end - 1) : DrainByte(P, e, k) = k
  <2> HIDE DEF e
  <2> TAKE k \in e .. (end - 1)
  <2>1. \E o \in Drained(P, e) : o <= k /\ k < After(P, o)
    BY <1>1, <1>2, DrainTiles
  <2> DEFINE o == CHOOSE o \in Drained(P, e) : o <= k /\ k < After(P, o)
  <2>2. o \in Drained(P, e) /\ o <= k /\ k < After(P, o)
    BY <2>1
  <2> HIDE DEF o
  <2>3. o \in DOMAIN P /\ o \in Nat /\ Len(P[o]) \in Nat /\ InPlace(o, P[o], B)
    BY <1>1, <2>2 DEF Drained, GoodPending, Bytes, Byte
  <2>4. k - o + 1 \in 1 .. Len(P[o])
    BY <1>1, <1>2, <2>2, <2>3 DEF After
  <2>5. P[o][k - o + 1] = k
    <3>1. P[o][k - o + 1] = o + (k - o + 1) - 1
      BY <2>3, <2>4 DEF InPlace
    <3> QED BY <3>1, <1>1, <1>2, <2>3
  <2> QED BY <2>5 DEF DrainByte, o
<1>5. \A i \in 1 .. (end - r.expected) : out[i] = r.expected + i - 1
  <2> TAKE i \in 1 .. (end - r.expected)
  <2>1. CASE i <= Len(c.data)
    <3>1. c.data[i] = c.off + i - 1
      BY <1>1, <1>2, <2>1 DEF InPlace
    <3> QED BY <3>1, <2>1
  <2>2. CASE ~ (i <= Len(c.data))
    <3>1. r.expected + i - 1 \in e .. (end - 1)
      BY <1>1, <1>2, <2>2
    <3>2. out[i] = DrainByte(P, e, r.expected + i - 1)
      BY <2>2
    <3> HIDE DEF e, end, out
    <3> QED BY <3>1, <3>2, <1>4
  <2> QED BY <2>1, <2>2
<1>6. out \in Seq(Byte) /\ Len(out) = end - r.expected
  <2> HIDE DEF end, e
  <2>1. end - r.expected \in Nat
    BY <1>1, <1>2
  <2>2. \A i \in 1 .. (end - r.expected) : out[i] \in Byte
    <3> HIDE DEF out
    <3> TAKE i \in 1 .. (end - r.expected)
    <3>1. out[i] = r.expected + i - 1
      BY <1>5
    <3> QED BY <1>1, <2>1, <3>1 DEF Byte
  <2>3. out = [i \in 1 .. (end - r.expected) |-> out[i]]
    OBVIOUS
  <2> HIDE DEF out
  <2>4. out \in [1 .. (end - r.expected) -> Byte]
    BY <2>2, <2>3
  <2> QED BY <2>1, <2>4, FunctionIsSeq
<1>7. r.buffered_bytes - (end - e) = Cardinality(Cells(Q))
  <2> DEFINE C == {x \in Cells(P) : x[1] \in Drained(P, e)}
  <2> HIDE DEF e
  <2>1. IsFiniteSet(C) /\ Cardinality(C) = end - e
    BY <1>1, DrainedCells
  <2>2. Cells(Q) = Cells(P) \ C
    <3>1. DOMAIN Q = DOMAIN P \ Drained(P, e) /\ \A o \in DOMAIN Q : Q[o] = P[o]
      OBVIOUS
    <3> HIDE DEF Q
    <3>2. ASSUME NEW x PROVE x \in Cells(Q) <=> x \in Cells(P) /\ x \notin C
      BY <3>1, CellsMember
    <3> QED BY <3>2
  <2>3. C \cap Cells(P) = C /\ Cells(P) \cap C = C
    OBVIOUS
  <2>4. IsFiniteSet(Cells(P))
    BY <1>1, CellsFinite
  <2>5. Cardinality(Cells(P) \ C) = Cardinality(Cells(P)) - Cardinality(Cells(P) \cap C)
    BY <2>4, FS_Difference
  <2> QED BY <2>1, <2>2, <2>3, <2>5 DEF Accounted
<1>8. r.buffered_bytes - (end - e) <= MaxBuffered
  <2>1. r.buffered_bytes \in Nat
    BY <1>1, CellsFinite DEF Accounted
  <2> HIDE DEF e, end
  <2> QED BY <1>1, <1>2, <2>1, MaxBufferedAssumption
<1>9. Consume(r, c) = [rx |-> new, out |-> out, ok |-> TRUE]
  BY DEF Consume
<1> HIDE DEF e, end, D, Q, out
<1>10. Sound(new, B) /\ r.expected <= new.expected
  BY <1>1, <1>2, <1>3 DEF Sound
<1>11. Accounted(new) /\ new.buffered_bytes <= MaxBuffered
  BY <1>7, <1>8 DEF Accounted
<1> QED BY <1>5, <1>6, <1>9, <1>10, <1>11 DEF PushResult

\* A chunk ahead of the expected offset is parked, or overflows the window.
LEMMA ParkCorrect ==
  ASSUME NEW B \in Nat, NEW r, Sound(r, B), Accounted(r),
         NEW c, c.data \in Bytes, c.off \in Nat, c.off \notin DOMAIN r.pending,
         InPlace(c.off, c.data, B)
  PROVE  /\ Park(r, c).ok => PushResult(r, Park(r, c), B)
         /\ ~ Park(r, c).ok => Sound(Park(r, c).rx, B)
         /\ Park(r, c).rx.expected = r.expected
         /\ Park(r, c).rx.buffered_bytes \in Nat
         /\ Park(r, c).ok \in BOOLEAN
<1> DEFINE P == r.pending
           b == r.buffered_bytes + Len(c.data)
           Q == [o \in DOMAIN P \cup {c.off} |-> IF o = c.off THEN c.data ELSE P[o]]
           N == {c.off} \X (1 .. Len(c.data))
<1>1. /\ GoodPending(P, B) /\ r.expected \in Nat /\ r.expected <= B
      /\ Len(c.data) \in Nat /\ r.buffered_bytes \in Nat
  <2>1. GoodPending(P, B) /\ r.expected \in Nat /\ r.expected <= B
    BY DEF Sound
  <2>2. Len(c.data) \in Nat
    BY DEF Bytes, Byte
  <2>3. r.buffered_bytes \in Nat
    BY <2>1, CellsFinite DEF Accounted
  <2> QED BY <2>1, <2>2, <2>3
<1>2. GoodPending(Q, B)
  BY <1>1 DEF GoodPending
<1>3. Cells(Q) = Cells(P) \cup N
  <2>1. \A o \in DOMAIN P : Q[o] = P[o]
    OBVIOUS
  <2>2. Q[c.off] = c.data /\ DOMAIN Q = DOMAIN P \cup {c.off}
    OBVIOUS
  <2> HIDE DEF Q
  <2> QED BY <2>1, <2>2 DEF Cells
<1>4. Cells(P) \cap N = {}
  BY DEF Cells
<1>5. IsFiniteSet(N) /\ Cardinality(N) = Len(c.data)
  <2>1. IsFiniteSet({c.off}) /\ Cardinality({c.off}) = 1
    BY FS_Singleton
  <2>2. IsFiniteSet(1 .. Len(c.data)) /\ Cardinality(1 .. Len(c.data)) = Len(c.data)
    BY <1>1, SegmentSize
  <2>3. IsFiniteSet(N) /\ Cardinality(N) = 1 * Len(c.data)
    BY <2>1, <2>2, FS_Product
  <2> QED BY <1>1, <2>3
<1>6. b = Cardinality(Cells(Q))
  <2>1. IsFiniteSet(Cells(P))
    BY <1>1, CellsFinite
  <2>2. Cardinality(Cells(P) \cup N)
          = Cardinality(Cells(P)) + Cardinality(N) - Cardinality(Cells(P) \cap N)
    BY <2>1, <1>5, FS_Union
  <2>3. Cardinality(Cells(P) \cap N) = 0
    BY <1>4, FS_EmptySet
  <2> HIDE DEF N, Q
  <2> QED BY <1>1, <1>3, <1>5, <2>2, <2>3 DEF Accounted
<1>7. CASE b > MaxBuffered
  <2>1. Park(r, c) = [rx  |-> [expected |-> r.expected, pending |-> P, buffered_bytes |-> b],
                      out |-> <<>>, ok |-> FALSE]
    BY <1>7 DEF Park
  <2> QED BY <2>1, <1>1 DEF Sound
<1>8. CASE ~ (b > MaxBuffered)
  <2> DEFINE new == [expected |-> r.expected, pending |-> Q, buffered_bytes |-> b]
  <2>1. Park(r, c) = [rx |-> new, out |-> <<>>, ok |-> TRUE]
    BY <1>8 DEF Park
  <2>2. b \in Nat /\ b <= MaxBuffered
    BY <1>1, <1>8, MaxBufferedAssumption
  <2> HIDE DEF Q, b
  <2>3. Sound(new, B) /\ Accounted(new)
    BY <1>1, <1>2, <1>6 DEF Sound, Accounted
  <2> QED BY <1>1, <2>1, <2>2, <2>3 DEF PushResult
<1> QED BY <1>7, <1>8

\* push keeps the receiver sound whatever it is given of the stream, makes ready
\* exactly the bytes its cursor moves over, and counts the parked bytes right.
THEOREM PushCorrect ==
  ASSUME NEW B \in Nat, NEW r, Sound(r, B), Accounted(r), r.buffered_bytes <= MaxBuffered,
         NEW c, c.data \in Bytes, c.off \in Nat, InPlace(c.off, c.data, B)
  PROVE  /\ push(r, c).ok \in BOOLEAN
         /\ push(r, c).ok => PushResult(r, push(r, c), B)
         /\ ~ push(r, c).ok => /\ Sound(push(r, c).rx, B)
                              /\ push(r, c).rx.expected = r.expected
                              /\ push(r, c).rx.buffered_bytes \in Nat
<1>1. PushResult(r, Ignored(r), B) /\ Ignored(r).ok
  <2>1. Ignored(r) = [rx |-> r, out |-> <<>>, ok |-> TRUE]
    BY DEF Ignored
  <2>2. r.expected \in Nat
    BY DEF Sound
  <2> QED BY <2>1, <2>2 DEF PushResult
<1>2. CASE c.off < r.expected
  BY <1>1, <1>2 DEF push, Ignored
<1>3. CASE ~ (c.off < r.expected) /\ c.off = r.expected
  <2>1. push(r, c) = Consume(r, c)
    BY <1>3 DEF push
  <2>2. Consume(r, c).ok = TRUE
    BY DEF Consume
  <2> QED BY <2>1, <2>2, <1>3, ConsumeCorrect
<1>4. CASE ~ (c.off < r.expected) /\ c.off # r.expected /\ c.off \in DOMAIN r.pending
  BY <1>1, <1>4 DEF push, Ignored
<1>5. CASE ~ (c.off < r.expected) /\ c.off # r.expected /\ c.off \notin DOMAIN r.pending
  <2>1. push(r, c) = Park(r, c)
    BY <1>5 DEF push
  <2> QED BY <2>1, <1>5, ParkCorrect
<1> QED BY <1>2, <1>3, <1>4, <1>5

-----------------------------------------------------------------------------
(***************************************************************************)
(* The downlink.                                                           *)
(***************************************************************************)
USE ProxyStreamAssumption, MaxBufferedAssumption

\* Bytes in place stay in place when the stream grows.
LEMMA InPlaceGrows ==
  ASSUME NEW B \in Nat, NEW C \in Nat, B <= C
  PROVE  /\ \A off \in Nat, data \in Bytes : InPlace(off, data, B) => InPlace(off, data, C)
         /\ \A r : Sound(r, B) => Sound(r, C)
<1>1. ASSUME NEW off \in Nat, NEW data \in Bytes, InPlace(off, data, B)
      PROVE  InPlace(off, data, C)
  <2>1. Len(data) \in Nat
    BY DEF Bytes, Byte
  <2> QED BY <1>1, <2>1 DEF InPlace
<1>2. ASSUME NEW r, Sound(r, B) PROVE Sound(r, C)
  <2>1. GoodPending(r.pending, C)
    <3>1. DOMAIN r.pending \subseteq Nat
      BY <1>2 DEF Sound, GoodPending
    <3>2. ASSUME NEW o \in DOMAIN r.pending
          PROVE  r.pending[o] \in Bytes /\ InPlace(o, r.pending[o], C)
      BY <1>1, <1>2, <3>1 DEF Sound, GoodPending
    <3> QED BY <3>1, <3>2 DEF GoodPending
  <2> QED BY <1>2, <2>1 DEF Sound
<1> QED BY <1>1, <1>2

\* A run of consecutive numbers is a sequence of bytes.
LEMMA RunIsBytes ==
  ASSUME NEW n \in Nat \ {0}, NEW a \in Nat
  PROVE  LET run == [i \in 1 .. n |-> a + i - 1]
         IN  run \in Bytes /\ Len(run) = n /\ \A i \in 1 .. n : run[i] = a + i - 1
<1> DEFINE run == [i \in 1 .. n |-> a + i - 1]
<1>1. run \in [1 .. n -> Byte]
  BY DEF Byte
<1>2. run \in Seq(Byte) /\ Len(run) = n
  <2> HIDE DEF run
  <2> QED BY <1>1, FunctionIsSeq
<1>3. run # <<>>
  <2> HIDE DEF run
  <2> QED BY <1>2
<1> QED BY <1>2, <1>3 DEF Bytes

\* The newest n elements of a sequence.
LEMMA LastProperties ==
  ASSUME NEW seq \in Seq(Byte), NEW n \in Nat \ {0}
  PROVE  /\ Last(seq, n) \in Seq(Byte)
         /\ Len(Last(seq, n)) = IF Len(seq) <= n THEN Len(seq) ELSE n
         /\ \A i \in 1 .. Len(Last(seq, n)) :
              Last(seq, n)[i] = seq[Len(seq) - Len(Last(seq, n)) + i]
<1>1. Len(seq) \in Nat
  OBVIOUS
<1>2. CASE Len(seq) <= n
  BY <1>1, <1>2 DEF Last
<1>3. CASE ~ (Len(seq) <= n)
  <2> DEFINE m == Len(seq) - n + 1
             t == SubSeq(seq, m, Len(seq))
  <2>1. m \in Int /\ Len(seq) \in Int /\ m <= Len(seq) /\ m >= 1
    BY <1>1, <1>3
  <2>2. \A i \in m .. Len(seq) : seq[i] \in Byte
    BY <2>1, <1>1, ElementOfSeq
  <2>3. /\ t \in Seq(Byte) /\ Len(t) = Len(seq) - m + 1
        /\ \A i \in 1 .. Len(seq) - m + 1 : t[i] = seq[m + i - 1]
    <3> HIDE DEF m
    <3> QED BY <2>1, <2>2, SubSeqProperties
  <2>4. Last(seq, n) = t
    BY <1>3 DEF Last
  <2>5. Len(t) = n
    BY <2>3, <1>1
  <2>6. \A i \in 1 .. n : t[i] = seq[Len(seq) - n + i]
    BY <2>3, <1>1
  <2> HIDE DEF t
  <2> QED BY <2>3, <2>4, <2>5, <2>6, <1>3
<1> QED BY <1>2, <1>3

-----------------------------------------------------------------------------
\* The invariant holds when a stream has just been opened.
LEMMA InitIInv == Init => IInv
<1> SUFFICES ASSUME Init PROVE IInv
  OBVIOUS
<1> USE DEF Init, Default
<1>1. TypeOK
  BY DEF TypeOK, Byte, Results, Causes
<1>2. ServerInv
  BY DEF ServerInv
<1>3. WireInv
  BY DEF WireInv
<1>4. ClientInv
  <2>1. DOMAIN rx.pending = {}
    OBVIOUS
  <2>2. Sound(rx, read)
    BY <2>1 DEF Sound, GoodPending
  <2>3. Cells(rx.pending) = {}
    BY <2>1 DEF Cells
  <2>4. Accounted(rx)
    BY <2>3, FS_EmptySet DEF Accounted
  <2> QED BY <2>2, <2>4 DEF ClientInv, WindowAccounting
<1> QED BY <1>1, <1>2, <1>3, <1>4 DEF IInv

\* Reading from the target appends to the stream and to its tail.
LEMMA ReadStep ==
  ASSUME IInv, NEW n \in 1 .. MaxData, ServerRead(n)
  PROVE  IInv'
<1> USE DEF IInv
<1> DEFINE plaintext == [i \in 1 .. n |-> read + i - 1]
           all == out_tail \o plaintext
<1>0. n \in Nat \ {0} /\ read \in Nat /\ sent = read /\ out_tail \in Seq(Byte)
  BY DEF TypeOK, ServerInv
<1>1. /\ plaintext \in Bytes /\ Len(plaintext) = n
      /\ \A i \in 1 .. n : plaintext[i] = read + i - 1
  BY <1>0, RunIsBytes
<1>2. /\ read' = read + n /\ sent' = sent + n
      /\ out_tail' = Last(all, ResendBufferBytes)
      /\ down' = down \cup {DATA(sent, plaintext)}
      /\ UNCHANGED <<srv, tabled, input, up, carrier, inbox, registered, rx, delivered, cli, cause>>
  BY DEF ServerRead, Remember, client
<1> HIDE DEF plaintext
<1>3. /\ all \in Seq(Byte) /\ Len(all) = Len(out_tail) + n
      /\ \A i \in 1 .. Len(out_tail) + n :
           all[i] = IF i <= Len(out_tail) THEN out_tail[i] ELSE plaintext[i - Len(out_tail)]
  BY <1>0, <1>1, ConcatProperties DEF Bytes
<1>4. ServerInv'
  <2> DEFINE len == Len(out_tail)
             T   == Last(all, ResendBufferBytes)
  <2>1. len \in Nat /\ len = IF sent <= ResendBufferBytes THEN sent ELSE ResendBufferBytes
    BY <1>0 DEF ServerInv
  <2>2. \A i \in 1 .. len + n : all[i] = sent - len + i - 1
    <3> TAKE i \in 1 .. len + n
    <3>1. CASE i <= len
      BY <3>1, <1>3, <2>1 DEF ServerInv
    <3>2. CASE ~ (i <= len)
      <4>1. i - len \in 1 .. n
        BY <3>2, <2>1, <1>0
      <4>2. plaintext[i - len] = read + (i - len) - 1
        BY <4>1, <1>1
      <4> QED BY <3>2, <4>2, <1>3, <1>0, <2>1
    <3> QED BY <3>1, <3>2
  <2> HIDE DEF all
  <2>3. /\ T \in Seq(Byte) /\ Len(T) = IF len + n <= ResendBufferBytes THEN len + n ELSE ResendBufferBytes
        /\ \A i \in 1 .. Len(T) : T[i] = all[len + n - Len(T) + i]
    <3>1. /\ T \in Seq(Byte)
          /\ Len(T) = IF Len(all) <= ResendBufferBytes THEN Len(all) ELSE ResendBufferBytes
          /\ \A i \in 1 .. Len(T) : T[i] = all[Len(all) - Len(T) + i]
      BY <1>3, LastProperties
    <3> HIDE DEF T, len
    <3>2. Len(all) = len + n
      BY <1>3 DEF len
    <3>3. ASSUME NEW i \in 1 .. Len(T) PROVE T[i] = all[len + n - Len(T) + i]
      <4>1. T[i] = all[Len(all) - Len(T) + i]
        BY <3>1
      <4>2. Len(all) \in Nat /\ Len(T) \in Nat
        BY <1>3, <3>1
      <4> QED BY <4>1, <4>2, <3>2, <2>1, <1>0 DEF len
    <3>4. Len(T) = IF len + n <= ResendBufferBytes THEN len + n ELSE ResendBufferBytes
      BY <3>1, <3>2
    <3> QED BY <3>1, <3>3, <3>4
  <2>4. Len(T) = IF sent + n <= ResendBufferBytes THEN sent + n ELSE ResendBufferBytes
    BY <2>1, <2>3, <1>0
  <2>5. \A i \in 1 .. Len(T) : T[i] = sent + n - Len(T) + i - 1
    <3> TAKE i \in 1 .. Len(T)
    <3> HIDE DEF T, len
    <3>1. Len(T) \in Nat /\ Len(T) <= len + n
      BY <2>1, <2>3, <1>0
    <3>2. len + n - Len(T) + i \in 1 .. len + n
      BY <3>1, <2>1, <1>0
    <3>3. all[len + n - Len(T) + i] = sent - len + (len + n - Len(T) + i) - 1
      BY <3>2, <2>2
    <3> QED BY <2>3, <3>1, <3>3, <2>1, <1>0
  <2> HIDE DEF T
  <2>6. out_tail' = T
    BY <1>2 DEF T
  <2>7. sent' = read' /\ sent' = sent + n
    BY <1>0, <1>2
  <2>8. Len(out_tail') = IF sent' <= ResendBufferBytes THEN sent' ELSE ResendBufferBytes
    BY <2>4, <2>6, <2>7
  <2>9. \A i \in 1 .. Len(out_tail') : out_tail'[i] = sent' - Len(out_tail') + i - 1
    <3> TAKE i \in 1 .. Len(out_tail')
    <3>1. T[i] = sent + n - Len(T) + i - 1
      BY <2>5, <2>6
    <3>2. Len(T) \in Nat
      BY <2>3
    <3> QED BY <3>1, <3>2, <2>6, <2>7, <1>0
  <2> QED BY <2>7, <2>8, <2>9 DEF ServerInv
<1>5. TypeOK'
  <2>1. out_tail' \in Seq(Byte)
    BY <1>2, <1>3, LastProperties
  <2>2. \A f \in down' : f \in DownFrame
    BY <1>0, <1>1, <1>2 DEF TypeOK, DATA, Frame, DownFrame
  <2>3. read' \in Nat /\ sent' \in Nat
    BY <1>0, <1>2
  <2> QED BY <1>2, <2>1, <2>2, <2>3 DEF TypeOK
<1>6. WireInv'
  <2>1. \A f \in DownFrame : FrameInPlace(f) => FrameInPlace(f)'
    <3> SUFFICES ASSUME NEW f \in DownFrame, f.kind = "DATA", InPlace(f.off, f.data, read)
                 PROVE  InPlace(f.off, f.data, read')
      BY DEF FrameInPlace
    <3>1. f.off \in Nat /\ f.data \in Bytes
      BY DEF DownFrame, CLOSE, OPEN_ERR, Frame
    <3>2. read' \in Nat /\ read <= read'
      BY <1>0, <1>2
    <3> QED BY <3>1, <3>2, <1>0, InPlaceGrows
  <2>2. InPlace(sent, plaintext, read')
    BY <1>0, <1>1, <1>2 DEF InPlace
  <2>3. ASSUME NEW f \in down' PROVE FrameInPlace(f)'
    <3>1. CASE f \in down
      BY <3>1, <2>1 DEF WireInv, TypeOK
    <3>2. CASE f \notin down
      <4>1. f = DATA(sent, plaintext)
        BY <3>2, <1>2
      <4>2. f.off = sent /\ f.data = plaintext
        BY <4>1 DEF DATA, Frame
      <4> QED BY <4>2, <2>2 DEF FrameInPlace
    <3> QED BY <3>1, <3>2
  <2>4. ASSUME NEW i \in 1 .. Len(inbox) PROVE FrameInPlace(inbox[i])'
    <3>1. inbox[i] \in DownFrame
      BY ElementOfSeq DEF TypeOK
    <3>2. FrameInPlace(inbox[i])
      BY DEF WireInv
    <3>3. FrameInPlace(inbox[i]) => InPlace(inbox[i].off, inbox[i].data, read') \/ inbox[i].kind # "DATA"
      BY <3>1, <2>1 DEF FrameInPlace
    <3> QED BY <1>2, <3>2, <3>3 DEF FrameInPlace
  <2> QED BY <1>2, <2>3, <2>4 DEF WireInv
<1>7. ClientInv'
  <2>1. Sound(rx, read')
    <3>1. read' \in Nat /\ read <= read'
      BY <1>0, <1>2
    <3> QED BY <3>1, <1>0, InPlaceGrows DEF ClientInv
  <2> QED BY <2>1, <1>2 DEF ClientInv, WindowAccounting
<1> QED BY <1>4, <1>5, <1>6, <1>7

\* The offset of a replayed frame and its index in the tail name the same byte.
LEMMA ReplayArithmetic ==
  ASSUME NEW offset \in Int, NEW total \in Int, NEW len \in Int, NEW hi \in Int,
         NEW lo \in Int, NEW a \in Int, lo = offset - (total - len) + 1 + a
  PROVE  /\ (offset + a) + (hi - lo + 1) = total - len + hi
         /\ \A i \in Int : total - len + (lo + i - 1) - 1 = (offset + a) + i - 1
OBVIOUS

\* A replayed frame carries bytes of the stream at their own offset.
LEMMA ReplayInPlace ==
  ASSUME IInv, NEW offset \in Nat, NEW start, start = resend_range(Len(out_tail), sent, offset),
         start # 0, NEW f \in Replay(out_tail, start, offset)
  PROVE  f \in DownFrame /\ f.kind = "DATA" /\ InPlace(f.off, f.data, read)
<1> DEFINE len == Len(out_tail)
<1>1. /\ sent \in Nat /\ sent = read /\ out_tail \in Seq(Byte) /\ len \in Nat
      /\ \A i \in 1 .. len : out_tail[i] = sent - len + i - 1
  BY DEF IInv, TypeOK, ServerInv
<1>2. len <= sent
  BY <1>1 DEF IInv, ServerInv
<1>3. start = offset - (sent - len) + 1 /\ sent - len <= offset
  BY <1>1, <1>2 DEF resend_range
<1>4. PICK k \in 0 .. (ResendMaxFrames - 1) :
        /\ start + k * MaxData <= len
        /\ f = DATA(offset + k * MaxData,
                    SubSeq(out_tail, start + k * MaxData,
                           IF start + (k + 1) * MaxData - 1 <= len
                           THEN start + (k + 1) * MaxData - 1 ELSE len))
  BY DEF Replay
<1> DEFINE a  == k * MaxData
           lo == start + a
           hi == IF start + (k + 1) * MaxData - 1 <= len
                 THEN start + (k + 1) * MaxData - 1 ELSE len
           data == SubSeq(out_tail, lo, hi)
<1>5. k \in Nat /\ a \in Nat /\ (k + 1) * MaxData = a + MaxData
  OBVIOUS
<1>6. lo \in Nat /\ hi \in Nat /\ 1 <= lo /\ lo <= hi /\ hi <= len /\ start \in Nat
  <2>1. start \in Nat /\ start >= 1
    BY <1>1, <1>2, <1>3
  <2>2. hi = IF start + (a + MaxData) - 1 <= len THEN start + (a + MaxData) - 1 ELSE len
    BY <1>5
  <2>3. start + a <= len
    BY <1>4
  <2> HIDE DEF a, hi
  <2> QED BY <1>1, <1>5, <2>1, <2>2, <2>3
<1>7. f = DATA(offset + a, data)
  BY <1>4
<1> HIDE DEF a, hi
<1>8. /\ data \in Seq(Byte) /\ Len(data) = hi - lo + 1
      /\ \A i \in 1 .. (hi - lo + 1) : data[i] = out_tail[lo + i - 1]
  <2> HIDE DEF lo
  <2>1. \A i \in lo .. hi : out_tail[i] \in Byte
    BY <1>1, <1>6
  <2>2. lo \in Int /\ hi \in Int
    BY <1>6
  <2> QED BY <1>6, <2>1, <2>2, SubSeqProperties
<1>9. data \in Bytes
  <2> HIDE DEF data, lo
  <2>1. Len(data) # 0
    BY <1>6, <1>8
  <2> QED BY <1>8, <2>1 DEF Bytes
<1>10. InPlace(offset + a, data, read)
  <2>0. a \in Nat /\ lo = start + a
    BY <1>5
  <2> HIDE DEF data, lo, len
  <2>1. /\ offset \in Int /\ sent \in Int /\ len \in Int /\ hi \in Int /\ lo \in Int /\ a \in Int
        /\ lo = offset - (sent - len) + 1 + a
    BY <2>0, <1>1, <1>3, <1>6
  <2>2. (offset + a) + Len(data) <= read
    <3>1. (offset + a) + (hi - lo + 1) = sent - len + hi
      BY <2>1, ReplayArithmetic
    <3>2. sent - len + hi <= sent
      BY <1>1, <1>6
    <3> QED BY <3>1, <3>2, <1>1, <1>8
  <2>3. ASSUME NEW i \in 1 .. Len(data) PROVE data[i] = (offset + a) + i - 1
    <3>1. lo + i - 1 \in 1 .. len /\ i \in Int
      BY <1>1, <1>6, <1>8
    <3>2. data[i] = out_tail[lo + i - 1]
      BY <1>8
    <3>3. out_tail[lo + i - 1] = sent - len + (lo + i - 1) - 1
      BY <3>1, <1>1
    <3>4. sent - len + (lo + i - 1) - 1 = (offset + a) + i - 1
      BY <2>1, <3>1, ReplayArithmetic
    <3> QED BY <3>2, <3>3, <3>4
  <2> QED BY <2>2, <2>3 DEF InPlace
<1>11. f.kind = "DATA" /\ f.off = offset + a /\ f.data = data
  BY <1>7 DEF DATA, Frame
<1>12. f \in DownFrame
  BY <1>5, <1>7, <1>9 DEF DATA, Frame, DownFrame
<1> HIDE DEF data
<1> QED BY <1>10, <1>11, <1>12

\* A step of the server that only adds good frames to the wire keeps the invariant.
LEMMA WireGrows ==
  ASSUME IInv, UNCHANGED <<read, sent, out_tail, inbox, rx, delivered, cli, cause, registered>>,
         \A f \in down' : f \in down \/ (f \in DownFrame /\ FrameInPlace(f)),
         srv' \in Results, tabled' \in BOOLEAN, input' \in Seq(UpFrame),
         \A f \in up' : f \in UpFrame, carrier' \in BOOLEAN
  PROVE  IInv'
<1> USE DEF IInv
<1>1. TypeOK'
  BY DEF TypeOK
<1>2. ServerInv'
  BY DEF ServerInv
<1>3. WireInv'
  BY DEF WireInv, FrameInPlace
<1>4. ClientInv'
  BY DEF ClientInv, WindowAccounting
<1> QED BY <1>1, <1>2, <1>3, <1>4

\* A channel keeps its type when its head is taken or a command is put in.
LEMMA InputType ==
  ASSUME IInv
  PROVE  /\ input # <<>> => Tail(input) \in Seq(UpFrame) /\ Head(input) \in UpFrame
         /\ \A cmd \in UpFrame : Append(input, cmd) \in Seq(UpFrame)
BY HeadTailProperties, AppendProperties DEF IInv, TypeOK

\* Every step of the server other than a read.
LEMMA ServerStep ==
  ASSUME IInv,
         \/ ServerResend \/ ServerEof \/ ServerClosed \/ ServerFail
         \/ \E f \in up : handle_frame(f)
         \/ enqueue_data \/ close_session
  PROVE  IInv'
<1>1. /\ srv \in Results /\ tabled \in BOOLEAN /\ input \in Seq(UpFrame)
      /\ \A f \in up : f \in UpFrame
      /\ carrier \in BOOLEAN
  BY DEF IInv, TypeOK
<1>2. /\ CLOSE \in DownFrame /\ OPEN_ERR \in DownFrame /\ CLOSE \in UpFrame
      /\ CLOSE.kind # "DATA" /\ OPEN_ERR.kind # "DATA"
  BY DEF CLOSE, OPEN_ERR, Frame, DownFrame, UpFrame
<1>3. CASE ServerResend
  <2> DEFINE offset == Head(input).off
             start  == resend_range(Len(out_tail), sent, offset)
  <2>1. offset \in Nat /\ input' \in Seq(UpFrame)
    <3>1. Head(input) \in UpFrame /\ Tail(input) \in Seq(UpFrame)
      BY <1>3, InputType DEF ServerResend
    <3>2. \A f \in UpFrame : f.off \in Nat
      BY DEF UpFrame, CLOSE, Frame
    <3> QED BY <1>3, <3>1, <3>2 DEF ServerResend
  <2>2. down' = IF start = 0 THEN down ELSE down \cup Replay(out_tail, start, offset)
    BY <1>3 DEF ServerResend
  <2>3. ASSUME start # 0, NEW g \in Replay(out_tail, start, offset)
        PROVE  g \in DownFrame /\ FrameInPlace(g)
    <3> HIDE DEF start, offset
    <3>1. g \in Replay(out_tail, start, offset)
      OBVIOUS
    <3>2. start = resend_range(Len(out_tail), sent, offset)
      BY DEF start
    <3> QED BY <2>1, <2>3, <3>1, <3>2, ReplayInPlace DEF FrameInPlace
  <2> HIDE DEF start, offset
  <2>4. \A f \in down' : f \in down \/ (f \in DownFrame /\ FrameInPlace(f))
    BY <2>2, <2>3
  <2>5. UNCHANGED <<read, sent, out_tail, srv, tabled, up, carrier,
                    inbox, registered, rx, delivered, cli, cause>>
    BY <1>3 DEF ServerResend, client
  <2> QED BY <1>1, <2>1, <2>4, <2>5, WireGrows
<1>4. ASSUME NEW result \in Results, NEW frames, ServerEnd(result, frames),
             \A f \in frames : f \in {CLOSE, OPEN_ERR}
      PROVE  IInv'
  <2>1. /\ srv' = result /\ tabled' = FALSE /\ input' = <<>> /\ down' = down \cup frames
        /\ UNCHANGED <<read, sent, out_tail, up, carrier, inbox, registered, rx, delivered, cli, cause>>
    BY <1>4 DEF ServerEnd, client
  <2>2. \A f \in down' : f \in down \/ (f \in DownFrame /\ FrameInPlace(f))
    BY <1>2, <1>4, <2>1 DEF FrameInPlace
  <2>3. srv' \in Results /\ input' \in Seq(UpFrame)
    BY <2>1
  <2>4. tabled' \in BOOLEAN /\ carrier' \in BOOLEAN /\ \A g \in up' : g \in UpFrame
    BY <1>1, <2>1
  <2> QED BY <2>1, <2>2, <2>3, <2>4, WireGrows
<1>5. CASE ServerEof
  BY <1>4, <1>5 DEF ServerEof, Results
<1>6. CASE ServerClosed
  BY <1>4, <1>6 DEF ServerClosed, Results
<1>7. CASE ServerFail
  BY <1>4, <1>7 DEF ServerFail, Results
<1>8. ASSUME NEW cmd \in UpFrame, NEW keep \in BOOLEAN, ServerEnqueue(cmd, keep)
      PROVE  input' \in Seq(UpFrame) /\ tabled' \in BOOLEAN
  BY <1>1, <1>8, InputType DEF ServerEnqueue
<1>9. ASSUME NEW f \in up, handle_frame(f) PROVE IInv'
  <2>1. input' \in Seq(UpFrame) /\ tabled' \in BOOLEAN
    <3>1. f \in UpFrame /\ (f.kind = "RESEND") \in BOOLEAN
      BY <1>1
    <3> QED BY <1>8, <1>9, <3>1 DEF handle_frame
  <2>2. /\ up' = up \ {f}
        /\ UNCHANGED <<read, sent, out_tail, srv, down, carrier,
                       inbox, registered, rx, delivered, cli, cause>>
    BY <1>9 DEF handle_frame, client
  <2>3. /\ srv' \in Results /\ carrier' \in BOOLEAN
        /\ \A g \in up' : g \in UpFrame
        /\ \A g \in down' : g \in down
    BY <1>1, <2>2
  <2> QED BY <2>1, <2>2, <2>3, WireGrows
<1>10. CASE close_session
  <2>1. input' \in Seq(UpFrame) /\ tabled' \in BOOLEAN
    BY <1>2, <1>8, <1>10 DEF close_session
  <2>2. UNCHANGED <<read, sent, out_tail, srv, down, up, carrier,
                    inbox, registered, rx, delivered, cli, cause>>
    BY <1>10 DEF close_session, client
  <2>3. /\ srv' \in Results /\ carrier' \in BOOLEAN
        /\ \A g \in up' : g \in UpFrame
        /\ \A g \in down' : g \in down
    BY <1>1, <2>2
  <2> QED BY <2>1, <2>2, <2>3, WireGrows
<1>11. CASE enqueue_data
  <2>1. /\ tabled' = FALSE /\ down' = down \cup {CLOSE}
        /\ UNCHANGED <<read, sent, out_tail, srv, input, up, carrier,
                       inbox, registered, rx, delivered, cli, cause>>
    BY <1>11 DEF enqueue_data, client
  <2>2. \A f \in down' : f \in down \/ (f \in DownFrame /\ FrameInPlace(f))
    BY <1>2, <2>1 DEF FrameInPlace
  <2>3. /\ srv' \in Results /\ tabled' \in BOOLEAN /\ input' \in Seq(UpFrame)
        /\ \A f \in up' : f \in UpFrame
        /\ carrier' \in BOOLEAN
    BY <1>1, <2>1
  <2> QED BY <2>1, <2>2, <2>3, WireGrows
<1> QED BY <1>3, <1>5, <1>6, <1>7, <1>9, <1>10, <1>11

-----------------------------------------------------------------------------
\* The client's channel keeps its contents in place when a frame of the wire is
\* put in and when its head is taken.
LEMMA InboxStep ==
  ASSUME IInv
  PROVE  /\ \A f \in DownFrame : FrameInPlace(f) =>
              /\ Append(inbox, f) \in Seq(DownFrame)
              /\ \A i \in 1 .. Len(Append(inbox, f)) : FrameInPlace(Append(inbox, f)[i])
         /\ inbox # <<>> =>
              /\ Head(inbox) \in DownFrame /\ FrameInPlace(Head(inbox))
              /\ Tail(inbox) \in Seq(DownFrame)
              /\ \A i \in 1 .. Len(Tail(inbox)) : FrameInPlace(Tail(inbox)[i])
<1>1. inbox \in Seq(DownFrame) /\ Len(inbox) \in Nat
  BY DEF IInv, TypeOK
<1>2. \A i \in 1 .. Len(inbox) : FrameInPlace(inbox[i])
  BY DEF IInv, WireInv
<1>3. ASSUME NEW f \in DownFrame, FrameInPlace(f)
      PROVE  /\ Append(inbox, f) \in Seq(DownFrame)
             /\ \A i \in 1 .. Len(Append(inbox, f)) : FrameInPlace(Append(inbox, f)[i])
  <2>1. /\ Append(inbox, f) \in Seq(DownFrame)
        /\ Len(Append(inbox, f)) = Len(inbox) + 1
        /\ \A i \in 1 .. Len(inbox) : Append(inbox, f)[i] = inbox[i]
        /\ Append(inbox, f)[Len(inbox) + 1] = f
    BY <1>1, AppendProperties
  <2>2. ASSUME NEW i \in 1 .. Len(Append(inbox, f)) PROVE FrameInPlace(Append(inbox, f)[i])
    <3>1. CASE i = Len(inbox) + 1
      BY <3>1, <2>1, <1>3
    <3>2. CASE i # Len(inbox) + 1
      <4>1. i \in 1 .. Len(inbox)
        BY <3>2, <2>1, <1>1
      <4> QED BY <4>1, <2>1, <1>2
    <3> QED BY <3>1, <3>2
  <2> QED BY <2>1, <2>2
<1>4. ASSUME inbox # <<>>
      PROVE  /\ Head(inbox) \in DownFrame /\ FrameInPlace(Head(inbox))
             /\ Tail(inbox) \in Seq(DownFrame)
             /\ \A i \in 1 .. Len(Tail(inbox)) : FrameInPlace(Tail(inbox)[i])
  <2>1. /\ Head(inbox) \in DownFrame /\ Tail(inbox) \in Seq(DownFrame)
        /\ Len(Tail(inbox)) = Len(inbox) - 1
        /\ \A i \in 1 .. Len(Tail(inbox)) : Tail(inbox)[i] = inbox[i + 1]
    BY <1>1, <1>4, HeadTailProperties
  <2>2. Len(inbox) >= 1 /\ Head(inbox) = inbox[1]
    BY <1>1, <1>4
  <2>3. FrameInPlace(Head(inbox))
    BY <1>1, <1>2, <2>2
  <2>4. ASSUME NEW i \in 1 .. Len(Tail(inbox)) PROVE FrameInPlace(Tail(inbox)[i])
    <3>1. i + 1 \in 1 .. Len(inbox)
      BY <1>1, <2>1
    <3> QED BY <3>1, <2>1, <1>2
  <2> QED BY <2>1, <2>3, <2>4
<1> QED BY <1>3, <1>4

\* A step that leaves the server and the client's receiver alone.
LEMMA ClientGrows ==
  ASSUME IInv, UNCHANGED <<server, rx, delivered>>,
         \A f \in down' : f \in down,
         inbox' \in Seq(DownFrame), \A i \in 1 .. Len(inbox') : FrameInPlace(inbox'[i]),
         registered' \in BOOLEAN, carrier' \in BOOLEAN, \A f \in up' : f \in UpFrame,
         cli' \in {"open", "closed"}, cli' = "open" => cli = "open", cause' \in Causes
  PROVE  IInv'
<1> USE DEF IInv, server
<1>1. TypeOK'
  BY DEF TypeOK
<1>2. ServerInv'
  BY DEF ServerInv
<1>3. WireInv'
  BY DEF WireInv, FrameInPlace
<1>4. ClientInv'
  BY DEF ClientInv, WindowAccounting
<1> QED BY <1>1, <1>2, <1>3, <1>4

\* Every step of the client and of its carrier other than pushing a chunk.
LEMMA ClientStep ==
  ASSUME IInv,
         \/ \E f \in down : Demultiplex(f)
         \/ \E nudged \in BOOLEAN : CarrierLost(nudged)
         \/ ClientWake \/ ClientClosed \/ HoleStall \/ QuietStall \/ CallerGone
  PROVE  IInv'
<1>1. /\ inbox \in Seq(DownFrame) /\ registered \in BOOLEAN /\ carrier \in BOOLEAN
      /\ cli \in {"open", "closed"} /\ cause \in Causes
      /\ \A f \in up : f \in UpFrame
      /\ \A f \in down : f \in DownFrame /\ FrameInPlace(f)
      /\ \A i \in 1 .. Len(inbox) : FrameInPlace(inbox[i])
  BY DEF IInv, TypeOK, WireInv
<1>2. CLOSE \in DownFrame /\ FrameInPlace(CLOSE) /\ CLOSE \in UpFrame
  BY DEF CLOSE, Frame, DownFrame, UpFrame, FrameInPlace
<1>3. ASSUME NEW event \in DownFrame, FrameInPlace(event), deliver_inbound(event)
      PROVE  /\ inbox' \in Seq(DownFrame) /\ registered' \in BOOLEAN
             /\ \A i \in 1 .. Len(inbox') : FrameInPlace(inbox'[i])
             /\ UNCHANGED <<rx, delivered, cli, cause>>
  <2>1. UNCHANGED <<rx, delivered, cli, cause>> /\ registered' \in BOOLEAN
    BY <1>1, <1>3 DEF deliver_inbound
  <2>2. inbox' = Append(inbox, event) \/ inbox' = inbox
    BY <1>3 DEF deliver_inbound
  <2> QED BY <1>1, <1>3, <2>1, <2>2, InboxStep
<1>4. ASSUME NEW f \in down, Demultiplex(f) PROVE IInv'
  <2>1. UNCHANGED <<server, up, carrier>> /\ down' = down \ {f}
    BY <1>4 DEF Demultiplex
  <2>2. /\ inbox' \in Seq(DownFrame) /\ registered' \in BOOLEAN
        /\ \A i \in 1 .. Len(inbox') : FrameInPlace(inbox'[i])
        /\ UNCHANGED <<rx, delivered, cli, cause>>
    BY <1>1, <1>3, <1>4 DEF Demultiplex
  <2>3. /\ \A g \in down' : g \in down
        /\ \A g \in up' : g \in UpFrame
        /\ carrier' \in BOOLEAN /\ cli' \in {"open", "closed"} /\ cause' \in Causes
        /\ cli' = cli
    BY <1>1, <2>1, <2>2
  <2> QED BY <2>1, <2>2, <2>3, ClientGrows
<1>5. ASSUME NEW nudged \in BOOLEAN, CarrierLost(nudged) PROVE IInv'
  <2>1. UNCHANGED <<server, down, up>> /\ carrier' = FALSE
    BY <1>5 DEF CarrierLost
  <2>2. /\ inbox' \in Seq(DownFrame) /\ registered' \in BOOLEAN
        /\ \A i \in 1 .. Len(inbox') : FrameInPlace(inbox'[i])
        /\ UNCHANGED <<rx, delivered, cli, cause>>
    <3>1. CASE nudged
      BY <1>2, <1>3, <1>5, <3>1 DEF CarrierLost
    <3>2. CASE ~ nudged
      BY <1>1, <1>5, <3>2 DEF CarrierLost, client
    <3> QED BY <3>1, <3>2
  <2>3. /\ \A g \in down' : g \in down
        /\ \A g \in up' : g \in UpFrame
        /\ carrier' \in BOOLEAN /\ cli' \in {"open", "closed"} /\ cause' \in Causes
        /\ cli' = cli
    BY <1>1, <2>1, <2>2
  <2> QED BY <2>1, <2>2, <2>3, ClientGrows
<1>6. CASE ClientWake
  <2>1. UNCHANGED <<server, inbox, registered, rx, delivered, cli, cause, down, carrier>>
    BY <1>6 DEF ClientWake, client
  <2>2. \A g \in up' : g \in UpFrame
    <3>1. Resend(missing_offset(rx)) \in UpFrame
      BY DEF IInv, TypeOK, missing_offset, Resend, Frame, UpFrame
    <3> QED BY <1>1, <1>6, <3>1 DEF ClientWake, AskResend, Uplink
  <2>3. /\ \A g \in down' : g \in down
        /\ inbox' \in Seq(DownFrame) /\ registered' \in BOOLEAN
        /\ \A i \in 1 .. Len(inbox') : FrameInPlace(inbox'[i])
        /\ carrier' \in BOOLEAN /\ cli' \in {"open", "closed"} /\ cause' \in Causes
        /\ cli' = cli
    BY <1>1, <2>1
  <2> QED BY <2>1, <2>2, <2>3, ClientGrows
<1>7. ASSUME NEW why \in Causes, ClientEnd(why), UNCHANGED rx PROVE IInv'
  <2>1. /\ cli' = "closed" /\ cause' = why /\ registered' = FALSE /\ inbox' = <<>>
        /\ UNCHANGED <<server, down, carrier, delivered, rx>>
    BY <1>7 DEF ClientEnd
  <2>2. \A g \in up' : g \in UpFrame
    BY <1>1, <1>2, <1>7 DEF ClientEnd, Uplink
  <2>3. inbox' \in Seq(DownFrame) /\ \A i \in 1 .. Len(inbox') : FrameInPlace(inbox'[i])
    BY <2>1
  <2>4. (\A g \in down' : g \in down) /\ registered' \in BOOLEAN /\ carrier' \in BOOLEAN
    BY <1>1, <2>1
  <2>5. cli' \in {"open", "closed"} /\ cause' \in Causes /\ cli' # "open"
    BY <1>7, <2>1
  <2> QED BY <2>1, <2>2, <2>3, <2>4, <2>5, ClientGrows
<1>8. CASE ClientClosed
  BY <1>7, <1>8 DEF ClientClosed, Causes
<1>9. CASE HoleStall
  BY <1>7, <1>9 DEF HoleStall, Causes
<1>10. CASE QuietStall
  BY <1>7, <1>10 DEF QuietStall, Causes
<1>11. CASE CallerGone
  BY <1>7, <1>11 DEF CallerGone, Causes
<1> QED BY <1>4, <1>5, <1>6, <1>8, <1>9, <1>10, <1>11

\* Pushing a chunk.
LEMMA DataStep ==
  ASSUME IInv, ClientData
  PROVE  IInv'
<1> DEFINE c == Head(inbox)
           p == push(rx, c)
<1>1. cli = "open" /\ inbox # <<>> /\ c.kind = "DATA" /\ rx' = p.rx
  BY DEF ClientData
<1>2. /\ read \in Nat /\ delivered \in Seq(Byte) /\ cause \in Causes
      /\ registered \in BOOLEAN /\ carrier \in BOOLEAN
      /\ \A f \in up : f \in UpFrame
      /\ \A f \in down : f \in DownFrame /\ FrameInPlace(f)
      /\ Sound(rx, read) /\ Len(delivered) = rx.expected
      /\ \A i \in 1 .. Len(delivered) : delivered[i] = i - 1
      /\ Accounted(rx) /\ rx.buffered_bytes <= MaxBuffered
  BY <1>1 DEF IInv, TypeOK, WireInv, ClientInv, WindowAccounting
<1>3. c \in DownFrame /\ FrameInPlace(c) /\ Tail(inbox) \in Seq(DownFrame)
      /\ \A i \in 1 .. Len(Tail(inbox)) : FrameInPlace(Tail(inbox)[i])
  BY <1>1, InboxStep
<1>4. c.off \in Nat /\ c.data \in Bytes /\ InPlace(c.off, c.data, read)
  <2>1. c \in [kind : {"DATA"}, off : Nat, data : Bytes]
    BY <1>1, <1>3 DEF DownFrame, CLOSE, OPEN_ERR, Frame
  <2> QED BY <1>1, <1>3, <2>1 DEF FrameInPlace
<1>5. /\ p.ok \in BOOLEAN
      /\ p.ok => PushResult(rx, p, read)
      /\ ~ p.ok => /\ Sound(p.rx, read) /\ p.rx.expected = rx.expected
                  /\ p.rx.buffered_bytes \in Nat
  BY <1>2, <1>4, PushCorrect
<1>6. CASE p.ok
  <2>0. p.ok <=> TRUE
    BY <1>6
  <2>1. /\ inbox' = Tail(inbox) /\ delivered' = delivered \o p.out /\ AskResend(p.rx)
        /\ UNCHANGED <<server, down, carrier, registered, cli, cause>>
    BY <1>6 DEF ClientData
  <2>2. PushResult(rx, p, read)
    BY <1>5, <1>6
  <2> HIDE DEF p, c
  <2>3. /\ Sound(rx', read) /\ rx'.expected \in Nat /\ rx.expected \in Nat
        /\ p.out \in Seq(Byte) /\ Len(p.out) = rx'.expected - rx.expected
        /\ rx.expected <= rx'.expected
        /\ \A i \in 1 .. Len(p.out) : p.out[i] = rx.expected + i - 1
        /\ Accounted(rx') /\ rx'.buffered_bytes <= MaxBuffered
    BY <1>1, <1>2, <2>2 DEF PushResult, Sound
  <2>4. /\ delivered' \in Seq(Byte) /\ Len(delivered') = rx'.expected
        /\ \A i \in 1 .. Len(delivered') : delivered'[i] = i - 1
    <3>1. /\ delivered' \in Seq(Byte) /\ Len(delivered') = Len(delivered) + Len(p.out)
          /\ \A i \in 1 .. Len(delivered) + Len(p.out) :
               delivered'[i] = IF i <= Len(delivered) THEN delivered[i] ELSE p.out[i - Len(delivered)]
      BY <1>2, <2>1, <2>3, ConcatProperties
    <3>2. Len(delivered') = rx'.expected
      BY <3>1, <1>2, <2>3
    <3>3. ASSUME NEW i \in 1 .. Len(delivered') PROVE delivered'[i] = i - 1
      <4>1. CASE i <= Len(delivered)
        <5>1. i \in 1 .. Len(delivered) /\ i \in 1 .. Len(delivered) + Len(p.out)
          BY <4>1, <3>1, <1>2
        <5>2. delivered'[i] = delivered[i]
          BY <4>1, <5>1, <3>1
        <5>3. delivered[i] = i - 1
          BY <5>1, <1>2
        <5> QED BY <5>2, <5>3
      <4>2. CASE ~ (i <= Len(delivered))
        <5>1. i - Len(delivered) \in 1 .. Len(p.out)
          BY <4>2, <3>1, <1>2, <2>3
        <5>2. p.out[i - Len(delivered)] = rx.expected + (i - Len(delivered)) - 1
          BY <5>1, <2>3
        <5> QED BY <4>2, <5>2, <3>1, <1>2, <2>3
      <4> QED BY <4>1, <4>2
    <3> QED BY <3>1, <3>2, <3>3
  <2>5. \A f \in up' : f \in UpFrame
    <3>1. Resend(missing_offset(p.rx)) \in UpFrame
      BY <1>1, <2>3 DEF missing_offset, Resend, Frame, UpFrame
    <3> QED BY <1>2, <2>1, <3>1 DEF AskResend, Uplink
  <2>6. \A o \in DOMAIN rx'.pending : o \in Nat /\ rx'.pending[o] \in Bytes
    BY <2>3 DEF Sound, GoodPending
  <2>7. rx'.buffered_bytes \in Nat
    BY <1>2, <2>3, CellsFinite DEF Accounted, Sound
  <2>8. UNCHANGED <<read, sent, out_tail, srv, tabled, input>>
    BY <2>1 DEF server
  <2>9. inbox' \in Seq(DownFrame) /\ \A i \in 1 .. Len(inbox') : FrameInPlace(inbox'[i])
    BY <1>3, <2>1
  <2>10. TypeOK'
    BY <2>1, <2>3, <2>4, <2>5, <2>6, <2>7, <2>8, <2>9 DEF IInv, TypeOK
  <2>11. ServerInv'
    BY <2>8 DEF IInv, ServerInv
  <2>12. WireInv'
    BY <2>1, <2>8, <2>9, <1>2 DEF WireInv, FrameInPlace
  <2>13. ClientInv'
    BY <2>3, <2>4, <2>8 DEF ClientInv, WindowAccounting
  <2> QED BY <2>10, <2>11, <2>12, <2>13 DEF IInv
<1>7. CASE ~ p.ok
  <2>1. ClientEnd("overflow")
    BY <1>7 DEF ClientData
  <2>2. /\ cli' = "closed" /\ cause' = "overflow" /\ registered' = FALSE /\ inbox' = <<>>
        /\ UNCHANGED <<read, sent, out_tail, srv, tabled, input, down, carrier, delivered>>
    BY <2>1 DEF ClientEnd, server
  <2>3. Sound(rx', read) /\ rx'.expected = rx.expected /\ rx'.buffered_bytes \in Nat
    BY <1>1, <1>5, <1>7
  <2>4. \A f \in up' : f \in UpFrame
    <3>1. CLOSE \in UpFrame
      BY DEF CLOSE, Frame, UpFrame
    <3> QED BY <1>2, <2>1, <3>1 DEF ClientEnd, Uplink
  <2> HIDE DEF p, c
  <2>5. /\ rx'.expected \in Nat
        /\ \A o \in DOMAIN rx'.pending : o \in Nat /\ rx'.pending[o] \in Bytes
    BY <2>3 DEF Sound, GoodPending
  <2>6. inbox' \in Seq(DownFrame) /\ \A i \in 1 .. Len(inbox') : FrameInPlace(inbox'[i])
    BY <2>2
  <2>7. cli' \in {"open", "closed"} /\ cause' \in Causes /\ cli' # "open"
    BY <2>2 DEF Causes
  <2>8. registered' \in BOOLEAN
    BY <2>2
  <2>9. TypeOK'
    BY <2>2, <2>3, <2>4, <2>5, <2>6, <2>7, <2>8 DEF IInv, TypeOK
  <2>10. ServerInv'
    BY <2>2 DEF IInv, ServerInv
  <2>11. WireInv'
    BY <2>2, <2>6, <1>2 DEF WireInv, FrameInPlace
  <2>12. ClientInv'
    BY <1>2, <2>2, <2>3, <2>7 DEF ClientInv, WindowAccounting
  <2> QED BY <2>9, <2>10, <2>11, <2>12 DEF IInv
<1> QED BY <1>6, <1>7
-----------------------------------------------------------------------------
\* IInv is an invariant of the stream: every step of either end preserves it.
THEOREM StreamInvariant == Spec => []IInv
<1>1. Init => IInv
  BY InitIInv
<1>2. IInv /\ [Next]_vars => IInv'
  <2> SUFFICES ASSUME IInv, [Next]_vars PROVE IInv'
    OBVIOUS
  <2>1. CASE UNCHANGED vars
    <3> USE <2>1 DEF vars, server, client, IInv
    <3>1. TypeOK'
      BY DEF TypeOK
    <3>2. ServerInv'
      BY DEF ServerInv
    <3>3. WireInv'
      BY DEF WireInv, FrameInPlace
    <3>4. ClientInv'
      BY DEF ClientInv, WindowAccounting
    <3> QED BY <3>1, <3>2, <3>3, <3>4
  <2>2. CASE Next
    BY <2>2, ReadStep, ServerStep, ClientStep, DataStep DEF Next
  <2> QED BY <2>1, <2>2
<1> QED BY <1>1, <1>2, PTL DEF Spec

\* Every variable of both ends and every frame on the wire keeps its type; in
\* particular buffered_bytes, a usize in push, is never driven below zero.
THEOREM StreamTypes == Spec => []TypeOK
<1>1. IInv => TypeOK
  BY DEF IInv
<1> QED BY <1>1, StreamInvariant, PTL

\* The bytes written to the caller are a prefix of the bytes read from the
\* target, for any loss, reordering, duplication and replay.
THEOREM StreamIntegrity == Spec => []DeliveredIsPrefix
<1>1. IInv => DeliveredIsPrefix
  BY DEF IInv, ClientInv, Sound, DeliveredIsPrefix
<1> QED BY <1>1, StreamInvariant, PTL

\* The counter of parked bytes is exact and within the reorder window while the
\* stream is open.
THEOREM StreamWindow == Spec => []WindowAccounting
<1>1. IInv => WindowAccounting
  BY DEF IInv, ClientInv
<1> QED BY <1>1, StreamInvariant, PTL

\* A byte within the size of the tail that a receiver asks for can be replayed.
THEOREM StreamResend == Spec => []TailServesHole
<1>1. IInv => TailServesHole
  <2> SUFFICES ASSUME IInv, rx.expected < sent, sent - rx.expected <= ResendBufferBytes
               PROVE  LET start == resend_range(Len(out_tail), sent, rx.expected)
                      IN  start # 0 /\ out_tail[start] = rx.expected
    BY DEF TailServesHole
  <2> DEFINE len == Len(out_tail)
             start == resend_range(len, sent, rx.expected)
  <2>1. /\ sent \in Nat /\ rx.expected \in Nat /\ len \in Nat
        /\ len = IF sent <= ResendBufferBytes THEN sent ELSE ResendBufferBytes
        /\ \A i \in 1 .. len : out_tail[i] = sent - len + i - 1
    BY DEF IInv, TypeOK, ServerInv
  <2> HIDE DEF len
  <2>2. start = rx.expected - (sent - len) + 1 /\ start \in 1 .. len
    BY <2>1 DEF resend_range
  <2>3. out_tail[start] = sent - len + start - 1
    BY <2>1, <2>2
  <2>4. start # 0 /\ out_tail[start] = rx.expected
    <3> HIDE DEF start
    <3> QED BY <2>1, <2>2, <2>3
  <2> QED BY <2>4 DEF len
<1> QED BY <1>1, StreamInvariant, PTL
=============================================================================
