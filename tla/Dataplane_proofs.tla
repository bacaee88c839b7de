-------------------------- MODULE Dataplane_proofs --------------------------
(***************************************************************************)
(* The downlink queue and the dataplane thread, for every number of        *)
(* addresses, sessions, slots and buffers and for every limit of the loop. *)
(***************************************************************************)
EXTENDS Dataplane, FiniteSetTheorems, WellFoundedInduction, SequenceTheorems, TLAPS

-----------------------------------------------------------------------------
(* Numbers. *)

LEMMA MinOfTwo ==
  ASSUME NEW a \in Int, NEW b \in Int
  PROVE  Min({a, b}) = IF a <= b THEN a ELSE b
  BY DEF Min

LEMMA MaxOfTwo ==
  ASSUME NEW a \in Int, NEW b \in Int
  PROVE  Max({a, b}) = IF a >= b THEN a ELSE b
  BY DEF Max

LEMMA MinOfThree ==
  ASSUME NEW a \in Int, NEW b \in Int, NEW d \in Int
  PROVE  /\ Min({a, b, d}) \in {a, b, d}
         /\ Min({a, b, d}) <= a /\ Min({a, b, d}) <= b /\ Min({a, b, d}) <= d
<1>1. \E x \in {a, b, d} : \A y \in {a, b, d} : x =< y
  <2>1. CASE a <= b /\ a <= d
    BY <2>1
  <2>2. CASE b <= a /\ b <= d
    BY <2>2
  <2>3. CASE d <= a /\ d <= b
    BY <2>3
  <2> QED
    BY <2>1, <2>2, <2>3
<1> QED
  BY <1>1 DEF Min

\* A set of naturals has a smallest element, and a largest one if it is bounded.
LEMMA Smallest ==
  ASSUME NEW S, S \subseteq Nat, S # {}
  PROVE  \E m \in S : \A s \in S : m <= s
<1>1. IsWellFoundedOn(OpToRel(<, Nat), Nat)
  BY NatLessThanWellFounded
<1>2. PICK x \in S : \A y \in S : <<y, x>> \notin OpToRel(<, Nat)
  BY <1>1, WFMin
<1>3. \A y \in S : ~(y < x)
  BY <1>2 DEF OpToRel
<1> QED
  BY <1>3

LEMMA MaxIsMember ==
  ASSUME NEW S, NEW b \in Nat, S \subseteq 1 .. b, S # {}
  PROVE  Max(S) \in S /\ \A s \in S : s <= Max(S)
<1> DEFINE T == {b - s : s \in S}
<1>1. T \subseteq Nat /\ T # {}
  <2>1. \A s \in S : b - s \in Nat
    OBVIOUS
  <2> QED
    BY <2>1
<1>2. PICK x \in T : \A y \in T : x <= y
  BY <1>1, Smallest
<1>3. PICK m \in S : x = b - m
  OBVIOUS
<1>4. \A s \in S : m >= s
  <2> TAKE s \in S
  <2>1. x <= b - s
    BY <1>2
  <2> QED
    BY <1>3, <2>1
<1>5. S \subseteq Int
  OBVIOUS
<1> QED
  BY <1>4, <1>5 DEF Max

LEMMA RoutesAreCounted ==
  ASSUME NEW S \in SUBSET Sessions
  PROVE  IsFiniteSet(S) /\ Cardinality(S) \in Nat
<1>1. IsFiniteSet(1 .. Max(Sessions))
  BY QueueAssumption, FS_Interval
<1>2. IsFiniteSet(S)
  BY <1>1, QueueAssumption, FS_Subset
<1> QED
  BY <1>2, FS_CardinalityType

-----------------------------------------------------------------------------
(* Rings. *)

LEMMA RingOfKeys ==
  ASSUME NEW lanes, NEW c
  PROVE  Ring(lanes, c) \in Seq(Keys)
<1> DEFINE times(k) == IF c = "bulk" THEN lanes[k].paths ELSE Min({lanes[k].paths, 1})
           entries(k) == {e \in (1 .. k) \X (1 .. MaxPaths) : e[2] <= times(e[1])}
           upTo(k) == Cardinality(entries(k))
<1>1. \A k \in Nat : upTo(k) \in Nat
  <2> TAKE k \in Nat
  <2>0. IsFiniteSet(1 .. k)
    BY FS_Interval
  <2>3. IsFiniteSet(1 .. MaxPaths)
    BY QueueAssumption, FS_Interval
  <2>1. IsFiniteSet((1 .. k) \X (1 .. MaxPaths))
    BY <2>0, <2>3, FS_Product
  <2>2. entries(k) \subseteq (1 .. k) \X (1 .. MaxPaths)
    OBVIOUS
  <2> HIDE DEF entries
  <2> QED
    BY <2>1, <2>2, FS_Subset, FS_CardinalityType
<1>2. upTo(0) = 0
  <2>1. entries(0) = {}
    OBVIOUS
  <2> HIDE DEF entries
  <2> QED
    BY <2>1, FS_EmptySet
<1> HIDE DEF entries, upTo
<1>3. ASSUME NEW i \in 1 .. upTo(NKeys)
      PROVE  \E k \in Keys : upTo(k - 1) < i /\ i <= upTo(k)
  <2> DEFINE T == {k \in 0 .. NKeys : i <= upTo(k)}
  <2>1. NKeys \in T /\ T \subseteq Nat
    BY <1>1, QueueAssumption
  <2>2. PICK m \in T : \A s \in T : m <= s
    BY <2>1, Smallest
  <2>3. m # 0 /\ m \in Keys
    BY <1>2, <2>2, QueueAssumption DEF Keys
  <2>4. m - 1 \notin T /\ m - 1 \in 0 .. NKeys
    BY <2>2, <2>3, QueueAssumption DEF Keys
  <2>5. upTo(m - 1) < i
    BY <1>1, <2>4
  <2> QED
    BY <2>2, <2>3, <2>5
<1>4. [i \in 1 .. upTo(NKeys) |-> CHOOSE k \in Keys : upTo(k - 1) < i /\ i <= upTo(k)]
        \in [1 .. upTo(NKeys) -> Keys]
  BY <1>3
<1>5. [i \in 1 .. upTo(NKeys) |-> CHOOSE k \in Keys : upTo(k - 1) < i /\ i <= upTo(k)] \in Seq(Keys)
  <2>1. \A n \in Nat : \A f : f \in [1 .. n -> Keys] => f \in Seq(Keys)
    OBVIOUS
  <2>2. upTo(NKeys) \in Nat
    BY <1>1, QueueAssumption
  <2> QED
    BY <1>4, <2>1, <2>2, Zenon
<1>6. Ring(lanes, c) =
        [i \in 1 .. upTo(NKeys) |-> CHOOSE k \in Keys : upTo(k - 1) < i /\ i <= upTo(k)]
  BY DEF Ring, upTo, entries
<1> QED
  BY <1>5, <1>6

-----------------------------------------------------------------------------
(* Lanes and queues. *)

Packet == [of : Nat, n : Nat]
Slot   == [free : Nat, pending : Seq(Packet)]
Lane   == [paths : Nat, slots : [Class -> Slot]]
Queue  == [lanes : [Keys -> Lane], rings : [Class -> Seq(Keys)], cursor : [Class -> Nat]]

\* Every lane has the buffers of its number of paths.
Sized(q) ==
  \A k \in Keys, c \in Class :
    SlotsOf(q, k, c).free + Len(SlotsOf(q, k, c).pending) =
      profile_for_active_paths(q.lanes[k].paths)[c]

\* The lanes of q hold what those of p hold, or the older part of it.
Keeps(q, p) ==
  \A k \in Keys, c \in Class :
    /\ Len(SlotsOf(q, k, c).pending) <= Len(SlotsOf(p, k, c).pending)
    /\ \A i \in 1 .. Len(SlotsOf(q, k, c).pending) :
         SlotsOf(q, k, c).pending[i] = SlotsOf(p, k, c).pending[i]

LEMMA ProfileIsNat ==
  ASSUME NEW n \in Nat, NEW c \in Class
  PROVE  profile_for_active_paths(n)[c] \in Nat
<1> DEFINE x == Min({n, MaxPaths}) * SlotRule[c].perPath
<1>0. SlotRule[c].least \in Nat /\ SlotRule[c].most \in Nat /\ SlotRule[c].perPath \in Nat
  BY QueueAssumption
<1>1. Min({n, MaxPaths}) \in Int
  BY QueueAssumption, MinOfTwo
<1>2. x \in Int
  BY <1>0, <1>1
<1> HIDE DEF x
<1>3. Min({x, SlotRule[c].most}) \in Int
  BY <1>0, <1>2, MinOfTwo
<1>5. \A a \in Nat, b \in Int : Max({a, b}) \in Nat
  BY MaxOfTwo
<1>4. Clamp(x, SlotRule[c].least, SlotRule[c].most) \in Nat
  BY <1>0, <1>3, <1>5 DEF Clamp
<1> QED
  BY <1>4 DEF profile_for_active_paths, x

LEMMA MinPaths ==
  ASSUME NEW n \in Nat
  PROVE  /\ Min({n, MaxPaths}) \in Nat
         /\ Min({Min({n, MaxPaths}), MaxPaths}) = Min({n, MaxPaths})
         /\ profile_for_active_paths(Min({n, MaxPaths})) = profile_for_active_paths(n)
<1>0. MaxPaths \in Nat /\ MaxPaths # 0
  BY QueueAssumption
<1>1. Min({n, MaxPaths}) = IF n <= MaxPaths THEN n ELSE MaxPaths
  BY <1>0, MinOfTwo
<1>2. PICK m : m = Min({n, MaxPaths})
  OBVIOUS
<1>3. m \in Nat /\ (m = 0 <=> n = 0) /\ m <= MaxPaths
  BY <1>0, <1>1, <1>2
<1>4. Min({m, MaxPaths}) = m
  BY <1>0, <1>3, MinOfTwo
<1>5. profile_for_active_paths(m) = profile_for_active_paths(n)
  BY <1>2, <1>3, <1>4 DEF profile_for_active_paths
<1> QED
  BY <1>2, <1>3, <1>4, <1>5

LEMMA ResizeFits ==
  ASSUME NEW s \in Slot, NEW capacity \in Nat
  PROVE  LET r == Resize(s, capacity)
         IN  /\ r \in Slot /\ r.free + Len(r.pending) = capacity
             /\ Len(r.pending) <= Len(s.pending)
             /\ \A i \in 1 .. Len(r.pending) : r.pending[i] = s.pending[i]
<1>1. PICK f \in Nat, p \in Seq(Packet) : f = s.free /\ p = s.pending
  BY DEF Slot
<1>2. PICK len \in Nat : len = Len(p)
  OBVIOUS
<1>3. PICK less : less = Max({f + len - capacity, 0})
  OBVIOUS
<1>4. less = IF f + len - capacity >= 0 THEN f + len - capacity ELSE 0
  BY <1>3, MaxOfTwo
<1>5. PICK free : free = Min({less, f})
  OBVIOUS
<1>6. free = IF less <= f THEN less ELSE f
  BY <1>4, <1>5, MinOfTwo
<1>7. PICK more : more = Max({capacity - (f + len), 0})
  OBVIOUS
<1>8. more = IF capacity - (f + len) >= 0 THEN capacity - (f + len) ELSE 0
  BY <1>7, MaxOfTwo
<1>9. PICK n : n = len - (less - free)
  OBVIOUS
<1>10. n \in 0 .. len /\ f - free + more \in Nat /\ f - free + more + n = capacity
  BY <1>4, <1>6, <1>8, <1>9
<1>11. /\ SubSeq(p, 1, n) \in Seq(Packet) /\ Len(SubSeq(p, 1, n)) = n
       /\ \A i \in 1 .. n : SubSeq(p, 1, n)[i] = p[i]
  BY <1>2, <1>10
<1>12. Resize(s, capacity) = [free |-> f - free + more, pending |-> SubSeq(p, 1, n)]
  <2>1. PICK size : size = s.free + Len(s.pending)
    OBVIOUS
  <2>2. size = f + len
    BY <1>1, <1>2, <2>1
  <2>3. less = Max({size - capacity, 0}) /\ more = Max({capacity - size, 0})
    BY <1>3, <1>7, <2>2
  <2>4. free = Min({less, s.free})
    BY <1>1, <1>5
  <2>5. Resize(s, capacity) = [free |-> s.free - free + more,
                               pending |-> SubSeq(s.pending, 1, Len(s.pending) - (less - free))]
    BY <2>1, <2>3, <2>4 DEF Resize
  <2> QED
    BY <1>1, <1>2, <1>9, <2>5
<1> QED
  BY <1>1, <1>2, <1>10, <1>11, <1>12 DEF Slot

\* r is q with other slots in one class of a lane.
Replaces(r, q, k, c, slots) ==
  /\ r \in Queue /\ \A j \in Keys : r.lanes[j].paths = q.lanes[j].paths
  /\ SlotsOf(r, k, c) = slots
  /\ \A j \in Keys, d \in Class : j # k \/ d # c => SlotsOf(r, j, d) = SlotsOf(q, j, d)

LEMMA WithSlotsIs ==
  ASSUME NEW q \in Queue, NEW k \in Keys, NEW c \in Class, NEW f \in Nat, NEW p \in Seq(Packet)
  PROVE  /\ Replaces(WithSlots(q, k, c, f, p), q, k, c, [free |-> f, pending |-> p])
         /\ WithSlots(q, k, c, f, p).rings = q.rings /\ WithSlots(q, k, c, f, p).cursor = q.cursor
<1>1. PICK s \in Slot : s = [free |-> f, pending |-> p]
  BY DEF Slot
<1>2. PICK lane \in Lane : lane = [q.lanes[k] EXCEPT !.slots[c] = s]
  BY DEF Queue, Lane
<1>3. /\ lane.paths = q.lanes[k].paths /\ lane.slots[c] = s
      /\ \A d \in Class : d # c => lane.slots[d] = q.lanes[k].slots[d]
  BY <1>2 DEF Queue, Lane
<1>4. PICK lanes \in [Keys -> Lane] : lanes = [q.lanes EXCEPT ![k] = lane]
  BY DEF Queue
<1>5. WithSlots(q, k, c, f, p) = [q EXCEPT !.lanes = lanes]
  BY <1>1, <1>2, <1>4 DEF WithSlots
<1>6. PICK r \in Queue : r = WithSlots(q, k, c, f, p) /\ r.lanes = lanes /\ r.rings = q.rings /\ r.cursor = q.cursor
  <2>1. [q EXCEPT !.lanes = lanes] \in Queue
    BY DEF Queue
  <2> QED
    BY <1>5, <2>1 DEF Queue
<1>7. \A j \in Keys : lanes[j] = IF j = k THEN lane ELSE q.lanes[j]
  BY <1>4 DEF Queue
<1>8. SlotsOf(r, k, c) = s /\ \A j \in Keys : r.lanes[j].paths = q.lanes[j].paths
  BY <1>3, <1>6, <1>7 DEF SlotsOf
<1>9. \A j \in Keys, d \in Class : j # k \/ d # c => SlotsOf(r, j, d) = SlotsOf(q, j, d)
  BY <1>3, <1>6, <1>7 DEF SlotsOf
<1> QED
  BY <1>1, <1>6, <1>8, <1>9 DEF Replaces

LEMMA SlotTypes ==
  ASSUME NEW q \in Queue, NEW k \in Keys, NEW c \in Class
  PROVE  /\ SlotsOf(q, k, c) \in Slot /\ SlotsOf(q, k, c).free \in Nat
         /\ SlotsOf(q, k, c).pending \in Seq(Packet) /\ Len(SlotsOf(q, k, c).pending) \in Nat
         /\ q.lanes[k].paths \in Nat
<1>1. q.lanes[k] \in Lane
  BY DEF Queue
<1>2. SlotsOf(q, k, c) \in Slot /\ q.lanes[k].paths \in Nat
  BY <1>1 DEF Lane, SlotsOf
<1>3. SlotsOf(q, k, c).free \in Nat /\ SlotsOf(q, k, c).pending \in Seq(Packet)
  BY <1>2 DEF Slot
<1> QED
  BY <1>2, <1>3

LEMMA KeepsTwice ==
  ASSUME NEW q \in Queue, NEW p \in Queue, NEW r \in Queue, Keeps(q, p), Keeps(p, r)
  PROVE  Keeps(q, r)
<1>1. \A u \in Queue, k \in Keys, c \in Class : Len(SlotsOf(u, k, c).pending) \in Nat
  BY SlotTypes
<1> QED
  BY <1>1 DEF Keeps

LEMMA RebuildIs ==
  ASSUME NEW cursor \in [Class -> Nat], NEW lanes \in [Keys -> Lane]
  PROVE  RebuildRings(cursor, lanes) \in Queue /\ RebuildRings(cursor, lanes).lanes = lanes
<1>1. ASSUME NEW c \in Class
      PROVE  Ring(lanes, c) \in Seq(Keys) /\ Inside(cursor[c], Ring(lanes, c)) \in Nat
  <2>1. PICK ring \in Seq(Keys) : ring = Ring(lanes, c)
    BY RingOfKeys
  <2>2. PICK m : m = Max({Len(ring), 1})
    OBVIOUS
  <2>3. m \in Nat /\ m > 0
    BY <2>2, MaxOfTwo
  <2>4. (cursor[c] % m) \in Nat
    BY <2>3
  <2> QED
    BY <2>1, <2>2, <2>4 DEF Inside
<1> QED
  BY <1>1 DEF RebuildRings, Rings, Queue

\* configure gives the lane of a client the buffers of its paths and leaves the others alone.
LEMMA ConfigureIs ==
  ASSUME NEW q \in Queue, Sized(q), NEW k \in Keys, NEW active \in Nat
  PROVE  LET r == Configure(q, k, active)
         IN  /\ r \in Queue /\ Sized(r) /\ Keeps(r, q)
             /\ r.lanes[k].paths = Min({active, MaxPaths})
             /\ \A j \in Keys : j # k => r.lanes[j] = q.lanes[j]
<1>1. PICK n \in Nat : n = Min({active, MaxPaths})
  BY MinPaths
<1>2. \A u \in Queue, j \in Keys, c \in Class : Len(SlotsOf(u, j, c).pending) \in Nat
  BY SlotTypes
<1>3. CASE q.lanes[k].paths = n
  <2>1. Configure(q, k, active) = q
    BY <1>1, <1>3 DEF Configure
  <2> QED
    BY <1>1, <1>2, <1>3, <2>1 DEF Keeps
<1>4. CASE q.lanes[k].paths # n
  <2>1. PICK slots : slots = [c \in Class |-> Resize(q.lanes[k].slots[c], profile_for_active_paths(n)[c])]
    OBVIOUS
  <2>2. ASSUME NEW c \in Class
        PROVE  /\ slots[c] \in Slot
               /\ slots[c].free + Len(slots[c].pending) = profile_for_active_paths(n)[c]
               /\ Len(slots[c].pending) <= Len(SlotsOf(q, k, c).pending)
               /\ \A i \in 1 .. Len(slots[c].pending) : slots[c].pending[i] = SlotsOf(q, k, c).pending[i]
    <3>1. profile_for_active_paths(n)[c] \in Nat
      BY ProfileIsNat
    <3>2. PICK s \in Slot : s = SlotsOf(q, k, c)
      BY DEF Queue, Lane, SlotsOf
    <3>3. slots[c] = Resize(s, profile_for_active_paths(n)[c])
      BY <2>1, <3>2 DEF SlotsOf
    <3> QED
      BY <3>1, <3>2, <3>3, ResizeFits
  <2>3. PICK lane \in Lane : lane = [paths |-> n, slots |-> slots]
    BY <2>1, <2>2 DEF Lane
  <2>4. PICK lanes \in [Keys -> Lane] : lanes = [q.lanes EXCEPT ![k] = lane]
    BY DEF Queue
  <2>5. Configure(q, k, active) = RebuildRings(q.cursor, lanes)
    BY <1>1, <1>4, <2>1, <2>3, <2>4 DEF Configure
  <2>6. PICK r \in Queue : r = Configure(q, k, active) /\ r.lanes = lanes
    BY <2>5, RebuildIs DEF Queue
  <2>7. /\ r.lanes[k] = lane /\ \A j \in Keys : j # k => r.lanes[j] = q.lanes[j]
    BY <2>4, <2>6 DEF Queue
  <2>8. Sized(r)
    <3> SUFFICES ASSUME NEW j \in Keys, NEW c \in Class
                 PROVE  SlotsOf(r, j, c).free + Len(SlotsOf(r, j, c).pending) =
                          profile_for_active_paths(r.lanes[j].paths)[c]
      BY DEF Sized
    <3>1. CASE j = k
      BY <2>2, <2>3, <2>7, <3>1 DEF SlotsOf
    <3>2. CASE j # k
      BY <2>7, <3>2 DEF Sized, SlotsOf
    <3> QED
      BY <3>1, <3>2
  <2>9. Keeps(r, q)
    <3> SUFFICES ASSUME NEW j \in Keys, NEW c \in Class
                 PROVE  /\ Len(SlotsOf(r, j, c).pending) <= Len(SlotsOf(q, j, c).pending)
                        /\ \A i \in 1 .. Len(SlotsOf(r, j, c).pending) :
                             SlotsOf(r, j, c).pending[i] = SlotsOf(q, j, c).pending[i]
      BY DEF Keeps
    <3>1. CASE j = k
      BY <2>2, <2>3, <2>7, <3>1 DEF SlotsOf
    <3>2. CASE j # k
      BY <1>2, <2>7, <3>2, SMTT(30) DEF SlotsOf
    <3> QED
      BY <3>1, <3>2
  <2> QED
    BY <1>1, <2>3, <2>6, <2>7, <2>8, <2>9
<1> QED
  BY <1>3, <1>4

-----------------------------------------------------------------------------
(* Slots and buffers. *)

Tx == [Class -> Seq(Packet)]

\* Every slot is free or pending, and the pool has a buffer for each pending one and
\* those it retains.
Buffers(utx, ufree, ttx, tfree, p) ==
  /\ utx \in Tx /\ ttx \in Tx /\ ufree \in Nat /\ tfree \in Nat
  /\ p \in [allocated : Nat, retained : Nat]
  /\ ufree + Slots(utx) = UDP_TX_SLOTS /\ tfree + Slots(ttx) = TUN_TX_SLOTS
  /\ p.allocated = p.retained + Slots(utx) + Slots(ttx)
  /\ p.retained <= RETAINED_MAX

BufferInv == Buffers(udpTx, udpFree, tunTx, tunFree, pool)

LEMMA SlotsIsNat ==
  ASSUME NEW tx \in Tx
  PROVE  /\ Slots(tx) \in Nat
         /\ \A c \in Class : Len(tx[c]) \in Nat
  BY DEF Slots, Tx, Class

LEMMA SlotsChange ==
  ASSUME NEW tx \in Tx, NEW c \in Class, NEW s \in Seq(Packet)
  PROVE  /\ [tx EXCEPT ![c] = s] \in Tx
         /\ Slots([tx EXCEPT ![c] = s]) = Slots(tx) - Len(tx[c]) + Len(s)
<1>1. PICK t : t = [tx EXCEPT ![c] = s]
  OBVIOUS
<1>2. /\ tx["latency"] \in Seq(Packet) /\ tx["priority"] \in Seq(Packet) /\ tx["bulk"] \in Seq(Packet)
  BY DEF Tx, Class
<1>3. t \in Tx /\ t[c] = s /\ \A d \in Class : d # c => t[d] = tx[d]
  BY <1>1 DEF Tx
<1>4. PICK x \in Nat, y \in Nat, z \in Nat, n \in Nat :
        x = Len(tx["latency"]) /\ y = Len(tx["priority"]) /\ z = Len(tx["bulk"]) /\ n = Len(s)
  BY <1>2
<1>5. Slots(tx) = x + y + z
  BY <1>4 DEF Slots
<1>6. Slots(t) = Slots(tx) - Len(tx[c]) + Len(s)
  <2>1. CASE c = "latency"
    <3>1. t["latency"] = s /\ t["priority"] = tx["priority"] /\ t["bulk"] = tx["bulk"]
      BY <1>3, <2>1 DEF Class
    <3>2. Slots(t) = n + y + z
      BY <1>4, <3>1 DEF Slots
    <3>3. Len(tx[c]) = x /\ Len(s) = n
      BY <1>4, <2>1
    <3> QED
      BY <1>5, <3>2, <3>3
  <2>2. CASE c = "priority"
    <3>1. t["latency"] = tx["latency"] /\ t["priority"] = s /\ t["bulk"] = tx["bulk"]
      BY <1>3, <2>2 DEF Class
    <3>2. Slots(t) = x + n + z
      BY <1>4, <3>1 DEF Slots
    <3>3. Len(tx[c]) = y /\ Len(s) = n
      BY <1>4, <2>2
    <3> QED
      BY <1>5, <3>2, <3>3
  <2>3. CASE c = "bulk"
    <3>1. t["latency"] = tx["latency"] /\ t["priority"] = tx["priority"] /\ t["bulk"] = s
      BY <1>3, <2>3 DEF Class
    <3>2. Slots(t) = x + y + n
      BY <1>4, <3>1 DEF Slots
    <3>3. Len(tx[c]) = z /\ Len(s) = n
      BY <1>4, <2>3
    <3> QED
      BY <1>5, <3>2, <3>3
  <2> QED
    BY <2>1, <2>2, <2>3 DEF Class
<1> QED
  BY <1>1, <1>3, <1>6

\* What Buffers says, in plain numbers.
LEMMA BufferFacts ==
  ASSUME NEW utx, NEW ufree, NEW ttx, NEW tfree, NEW p, Buffers(utx, ufree, ttx, tfree, p)
  PROVE  /\ utx \in Tx /\ ttx \in Tx /\ p \in [allocated : Nat, retained : Nat]
         /\ ufree \in Nat /\ tfree \in Nat /\ p.allocated \in Nat /\ p.retained \in Nat
         /\ Slots(utx) \in Nat /\ Slots(ttx) \in Nat
         /\ ufree + Slots(utx) = UDP_TX_SLOTS /\ tfree + Slots(ttx) = TUN_TX_SLOTS
         /\ p.allocated = p.retained + Slots(utx) + Slots(ttx)
         /\ p.retained <= RETAINED_MAX /\ RETAINED_MAX \in Nat
<1>1. utx \in Tx /\ ttx \in Tx /\ p \in [allocated : Nat, retained : Nat]
  BY DEF Buffers
<1>2. Slots(utx) \in Nat /\ Slots(ttx) \in Nat
  BY <1>1, SlotsIsNat
<1>3. p.allocated \in Nat /\ p.retained \in Nat
  BY <1>1
<1>4. RETAINED_MAX \in Nat
  BY LoopAssumption DEF PoolCapacity
<1> QED
  BY <1>1, <1>2, <1>3, <1>4 DEF Buffers

\* With Buffers, what the pool can give is what the free slots need.
LEMMA BuffersSuffice ==
  ASSUME NEW utx, NEW ufree, NEW ttx, NEW tfree, NEW p, Buffers(utx, ufree, ttx, tfree, p)
  PROVE  Available(p) = ufree + tfree
<1>1. /\ ufree \in Nat /\ tfree \in Nat /\ p.allocated \in Nat /\ p.retained \in Nat
      /\ Slots(utx) \in Nat /\ Slots(ttx) \in Nat
      /\ ufree + Slots(utx) = UDP_TX_SLOTS /\ tfree + Slots(ttx) = TUN_TX_SLOTS
      /\ p.allocated = p.retained + Slots(utx) + Slots(ttx)
  BY BufferFacts
<1> QED
  BY <1>1 DEF Available, PoolCapacity

LEMMA AcquireIs ==
  ASSUME NEW p \in [allocated : Nat, retained : Nat], NEW n \in Nat
  PROVE  /\ Acquire(p, n) \in [allocated : Nat, retained : Nat]
         /\ Acquire(p, n).allocated - Acquire(p, n).retained = p.allocated - p.retained + n
         /\ Acquire(p, n).retained <= p.retained
<1>1. PICK r : r = Min({n, p.retained})
  OBVIOUS
<1>2. r \in Nat /\ r <= n /\ r <= p.retained
  BY <1>1, MinOfTwo
<1>3. Acquire(p, n) = [allocated |-> p.allocated + (n - r), retained |-> p.retained - r]
  BY <1>1 DEF Acquire
<1>4. p.allocated + (n - r) \in Nat /\ p.retained - r \in Nat
  BY <1>2
<1> QED
  BY <1>2, <1>3, <1>4

LEMMA ReleaseIs ==
  ASSUME NEW p \in [allocated : Nat, retained : Nat], NEW n \in Nat,
         p.retained + n <= p.allocated, p.retained <= RETAINED_MAX
  PROVE  /\ Release(p, n) \in [allocated : Nat, retained : Nat]
         /\ Release(p, n).allocated - Release(p, n).retained = p.allocated - p.retained - n
         /\ Release(p, n).retained <= RETAINED_MAX
<1>0. RETAINED_MAX \in Nat
  BY LoopAssumption DEF PoolCapacity
<1>1. PICK r : r = Min({n, RETAINED_MAX - p.retained})
  OBVIOUS
<1>2. r \in Nat /\ r <= n /\ r <= RETAINED_MAX - p.retained
  BY <1>0, <1>1, MinOfTwo
<1>3. Release(p, n) = [allocated |-> p.allocated - (n - r), retained |-> p.retained + r]
  BY <1>1 DEF Release
<1>4. p.allocated - (n - r) \in Nat /\ p.retained + r \in Nat /\ p.retained + r <= RETAINED_MAX
  BY <1>0, <1>2
<1> QED
  BY <1>2, <1>3, <1>4

\* A packet takes a slot and a buffer; n packets leave theirs.
LEMMA TakeUdp ==
  ASSUME NEW utx, NEW ufree, NEW ttx, NEW tfree, NEW p, Buffers(utx, ufree, ttx, tfree, p),
         NEW c \in Class, NEW n \in Nat, n <= ufree, NEW s \in Seq(Packet), Len(s) = Len(utx[c]) + n
  PROVE  Buffers([utx EXCEPT ![c] = s], ufree - n, ttx, tfree, Acquire(p, n))
<1>1. /\ utx \in Tx /\ ttx \in Tx /\ p \in [allocated : Nat, retained : Nat]
      /\ ufree \in Nat /\ tfree \in Nat /\ p.allocated \in Nat /\ p.retained \in Nat
      /\ Slots(utx) \in Nat /\ Slots(ttx) \in Nat
      /\ ufree + Slots(utx) = UDP_TX_SLOTS /\ tfree + Slots(ttx) = TUN_TX_SLOTS
      /\ p.allocated = p.retained + Slots(utx) + Slots(ttx)
      /\ p.retained <= RETAINED_MAX /\ RETAINED_MAX \in Nat
  BY BufferFacts
<1>2. PICK u : u = [utx EXCEPT ![c] = s]
  OBVIOUS
<1>3. u \in Tx /\ Slots(u) = Slots(utx) - Len(utx[c]) + Len(s)
  BY <1>1, <1>2, SlotsChange
<1>4. Slots(u) \in Nat /\ Len(utx[c]) \in Nat /\ Slots(u) = Slots(utx) + n
  BY <1>1, <1>3, SlotsIsNat
<1>6. PICK a \in [allocated : Nat, retained : Nat] :
        /\ a = Acquire(p, n) /\ a.allocated - a.retained = p.allocated - p.retained + n
        /\ a.retained <= p.retained
  BY <1>1, AcquireIs
<1>7. a.allocated \in Nat /\ a.retained \in Nat
  BY <1>6
<1>8. PICK x \in Nat, y \in Nat, z \in Nat : x = Slots(utx) /\ y = Slots(ttx) /\ z = Slots(u)
  BY <1>1, <1>4
<1>9. PICK pa \in Nat, pr \in Nat, aa \in Nat, ar \in Nat :
        pa = p.allocated /\ pr = p.retained /\ aa = a.allocated /\ ar = a.retained
  BY <1>1, <1>7
<1>10. pa = pr + x + y /\ aa - ar = pa - pr + n /\ z = x + n
  BY <1>1, <1>4, <1>6, <1>8, <1>9
<1>11. ufree - n \in Nat /\ ufree - n + z = ufree + x /\ aa = ar + z + y
  <2>1. ufree \in Nat
    BY <1>1
  <2> QED
    BY <1>10, <2>1
<1>12. ufree - n + Slots(u) = UDP_TX_SLOTS
  BY <1>1, <1>8, <1>11
<1>13. a.allocated = a.retained + Slots(u) + Slots(ttx)
  BY <1>8, <1>9, <1>11
<1>14. a.retained <= RETAINED_MAX
  BY <1>1, <1>6, <1>7
<1>15. ufree - n \in Nat
  BY <1>11
<1>16. Buffers(u, ufree - n, ttx, tfree, a)
  BY <1>1, <1>3, <1>6, <1>12, <1>13, <1>14, <1>15 DEF Buffers
<1> QED
  BY <1>2, <1>6, <1>16

LEMMA TakeTun ==
  ASSUME NEW utx, NEW ufree, NEW ttx, NEW tfree, NEW p, Buffers(utx, ufree, ttx, tfree, p),
         NEW c \in Class, 1 <= tfree, NEW s \in Seq(Packet), Len(s) = Len(ttx[c]) + 1
  PROVE  Buffers(utx, ufree, [ttx EXCEPT ![c] = s], tfree - 1, Acquire(p, 1))
<1>1. /\ utx \in Tx /\ ttx \in Tx /\ p \in [allocated : Nat, retained : Nat]
      /\ ufree \in Nat /\ tfree \in Nat /\ p.allocated \in Nat /\ p.retained \in Nat
      /\ Slots(utx) \in Nat /\ Slots(ttx) \in Nat
      /\ ufree + Slots(utx) = UDP_TX_SLOTS /\ tfree + Slots(ttx) = TUN_TX_SLOTS
      /\ p.allocated = p.retained + Slots(utx) + Slots(ttx)
      /\ p.retained <= RETAINED_MAX /\ RETAINED_MAX \in Nat
  BY BufferFacts
<1>2. PICK u : u = [ttx EXCEPT ![c] = s]
  OBVIOUS
<1>3. u \in Tx /\ Slots(u) = Slots(ttx) - Len(ttx[c]) + Len(s)
  BY <1>1, <1>2, SlotsChange
<1>4. Slots(u) \in Nat /\ Len(ttx[c]) \in Nat /\ Slots(u) = Slots(ttx) + 1
  BY <1>1, <1>3, SlotsIsNat
<1>6. PICK a \in [allocated : Nat, retained : Nat] :
        /\ a = Acquire(p, 1) /\ a.allocated - a.retained = p.allocated - p.retained + 1
        /\ a.retained <= p.retained
  BY <1>1, AcquireIs
<1>7. a.allocated \in Nat /\ a.retained \in Nat
  BY <1>6
<1>8. PICK x \in Nat, y \in Nat, z \in Nat : x = Slots(ttx) /\ y = Slots(utx) /\ z = Slots(u)
  BY <1>1, <1>4
<1>9. PICK pa \in Nat, pr \in Nat, aa \in Nat, ar \in Nat :
        pa = p.allocated /\ pr = p.retained /\ aa = a.allocated /\ ar = a.retained
  BY <1>1, <1>7
<1>10. pa = pr + y + x /\ aa - ar = pa - pr + 1 /\ z = x + 1
  BY <1>1, <1>4, <1>6, <1>8, <1>9
<1>11. tfree - 1 \in Nat /\ tfree - 1 + z = tfree + x /\ aa = ar + y + z
  <2>1. tfree \in Nat
    BY <1>1
  <2> QED
    BY <1>10, <2>1
<1>12. tfree - 1 + Slots(u) = TUN_TX_SLOTS
  BY <1>1, <1>8, <1>11
<1>13. a.allocated = a.retained + Slots(utx) + Slots(u)
  BY <1>8, <1>9, <1>11
<1>14. a.retained <= RETAINED_MAX
  BY <1>1, <1>6, <1>7
<1>15. tfree - 1 \in Nat
  BY <1>11
<1>16. Buffers(utx, ufree, u, tfree - 1, a)
  BY <1>1, <1>3, <1>6, <1>12, <1>13, <1>14, <1>15 DEF Buffers
<1> QED
  BY <1>2, <1>6, <1>16

LEMMA LeaveUdp ==
  ASSUME NEW utx, NEW ufree, NEW ttx, NEW tfree, NEW p, Buffers(utx, ufree, ttx, tfree, p),
         NEW c \in Class, NEW n \in Nat, NEW s \in Seq(Packet), Len(s) + n = Len(utx[c])
  PROVE  Buffers([utx EXCEPT ![c] = s], ufree + n, ttx, tfree, Release(p, n))
<1>1. /\ utx \in Tx /\ ttx \in Tx /\ p \in [allocated : Nat, retained : Nat]
      /\ ufree \in Nat /\ tfree \in Nat /\ p.allocated \in Nat /\ p.retained \in Nat
      /\ Slots(utx) \in Nat /\ Slots(ttx) \in Nat
      /\ ufree + Slots(utx) = UDP_TX_SLOTS /\ tfree + Slots(ttx) = TUN_TX_SLOTS
      /\ p.allocated = p.retained + Slots(utx) + Slots(ttx)
      /\ p.retained <= RETAINED_MAX /\ RETAINED_MAX \in Nat
  BY BufferFacts
<1>2. PICK u : u = [utx EXCEPT ![c] = s]
  OBVIOUS
<1>3. u \in Tx /\ Slots(u) = Slots(utx) - Len(utx[c]) + Len(s)
  BY <1>1, <1>2, SlotsChange
<1>4. Slots(u) \in Nat /\ Len(utx[c]) \in Nat /\ Slots(u) = Slots(utx) - n
  BY <1>1, <1>3, SlotsIsNat
<1>5. p.retained + n <= p.allocated
  BY <1>1, <1>3, <1>4, SMTT(30)
<1>6. PICK a \in [allocated : Nat, retained : Nat] :
        /\ a = Release(p, n) /\ a.allocated - a.retained = p.allocated - p.retained - n
        /\ a.retained <= RETAINED_MAX
  BY <1>1, <1>5, ReleaseIs
<1>7. a.allocated \in Nat /\ a.retained \in Nat
  BY <1>6
<1>8. PICK x \in Nat, y \in Nat, z \in Nat : x = Slots(utx) /\ y = Slots(ttx) /\ z = Slots(u)
  BY <1>1, <1>4
<1>9. PICK pa \in Nat, pr \in Nat, aa \in Nat, ar \in Nat :
        pa = p.allocated /\ pr = p.retained /\ aa = a.allocated /\ ar = a.retained
  BY <1>1, <1>7
<1>10. pa = pr + x + y /\ aa - ar = pa - pr - n /\ z = x - n
  BY <1>1, <1>4, <1>6, <1>8, <1>9
<1>11. ufree + n \in Nat /\ ufree + n + z = ufree + x /\ aa = ar + z + y
  <2>1. ufree \in Nat
    BY <1>1
  <2> QED
    BY <1>10, <2>1
<1>12. ufree + n + Slots(u) = UDP_TX_SLOTS
  BY <1>1, <1>8, <1>11
<1>13. a.allocated = a.retained + Slots(u) + Slots(ttx)
  BY <1>8, <1>9, <1>11
<1>14. a.retained <= RETAINED_MAX
  BY <1>1, <1>6, <1>7
<1>15. ufree + n \in Nat
  BY <1>11
<1>16. Buffers(u, ufree + n, ttx, tfree, a)
  BY <1>1, <1>3, <1>6, <1>12, <1>13, <1>14, <1>15 DEF Buffers
<1> QED
  BY <1>2, <1>6, <1>16

LEMMA LeaveTun ==
  ASSUME NEW utx, NEW ufree, NEW ttx, NEW tfree, NEW p, Buffers(utx, ufree, ttx, tfree, p),
         NEW c \in Class, NEW s \in Seq(Packet), Len(s) + 1 = Len(ttx[c])
  PROVE  Buffers(utx, ufree, [ttx EXCEPT ![c] = s], tfree + 1, Release(p, 1))
<1>1. /\ utx \in Tx /\ ttx \in Tx /\ p \in [allocated : Nat, retained : Nat]
      /\ ufree \in Nat /\ tfree \in Nat /\ p.allocated \in Nat /\ p.retained \in Nat
      /\ Slots(utx) \in Nat /\ Slots(ttx) \in Nat
      /\ ufree + Slots(utx) = UDP_TX_SLOTS /\ tfree + Slots(ttx) = TUN_TX_SLOTS
      /\ p.allocated = p.retained + Slots(utx) + Slots(ttx)
      /\ p.retained <= RETAINED_MAX /\ RETAINED_MAX \in Nat
  BY BufferFacts
<1>2. PICK u : u = [ttx EXCEPT ![c] = s]
  OBVIOUS
<1>3. u \in Tx /\ Slots(u) = Slots(ttx) - Len(ttx[c]) + Len(s)
  BY <1>1, <1>2, SlotsChange
<1>4. Slots(u) \in Nat /\ Len(ttx[c]) \in Nat /\ Slots(u) = Slots(ttx) - 1
  <2>1. Slots(u) \in Nat /\ Len(ttx[c]) \in Nat /\ Len(s) \in Nat
    BY <1>1, <1>3, SlotsIsNat, SMTT(30)
  <2>2. PICK x \in Nat, y \in Nat, z \in Nat : x = Slots(ttx) /\ y = Len(ttx[c]) /\ z = Len(s)
    BY <1>1, <2>1
  <2>3. Slots(u) = x - y + z /\ z + 1 = y
    BY <1>3, <2>2
  <2>4. Slots(u) = x - 1
    BY <2>3
  <2> QED
    BY <2>1, <2>2, <2>4
<1>5. p.retained + 1 <= p.allocated
  BY <1>1, <1>3, <1>4, SMTT(30)
<1>6. PICK a \in [allocated : Nat, retained : Nat] :
        /\ a = Release(p, 1) /\ a.allocated - a.retained = p.allocated - p.retained - 1
        /\ a.retained <= RETAINED_MAX
  BY <1>1, <1>5, ReleaseIs
<1>7. a.allocated \in Nat /\ a.retained \in Nat
  BY <1>6
<1>8. PICK x \in Nat, y \in Nat, z \in Nat : x = Slots(ttx) /\ y = Slots(utx) /\ z = Slots(u)
  BY <1>1, <1>4
<1>9. PICK pa \in Nat, pr \in Nat, aa \in Nat, ar \in Nat :
        pa = p.allocated /\ pr = p.retained /\ aa = a.allocated /\ ar = a.retained
  BY <1>1, <1>7
<1>10. pa = pr + y + x /\ aa - ar = pa - pr - 1 /\ z = x - 1
  BY <1>1, <1>4, <1>6, <1>8, <1>9
<1>11. tfree + 1 \in Nat /\ tfree + 1 + z = tfree + x /\ aa = ar + y + z
  <2>1. tfree \in Nat
    BY <1>1
  <2> QED
    BY <1>10, <2>1
<1>12. tfree + 1 + Slots(u) = TUN_TX_SLOTS
  BY <1>1, <1>8, <1>11
<1>13. a.allocated = a.retained + Slots(utx) + Slots(u)
  BY <1>8, <1>9, <1>11
<1>14. a.retained <= RETAINED_MAX
  BY <1>1, <1>6, <1>7
<1>15. tfree + 1 \in Nat
  BY <1>11
<1>16. Buffers(utx, ufree, u, tfree + 1, a)
  BY <1>1, <1>3, <1>6, <1>12, <1>13, <1>14, <1>15 DEF Buffers
<1> QED
  BY <1>2, <1>6, <1>16

\* No more copies than fit beside the packet itself.
LEMMA CopiesFit ==
  ASSUME BufferInv, CanSend, NEW extra \in Nat
  PROVE  Copies(extra) \in Nat /\ 1 + Copies(extra) <= udpFree
<1>1. udpFree \in Nat /\ tunFree \in Nat /\ Available(pool) = udpFree + tunFree
  BY BuffersSuffice, BufferFacts DEF BufferInv
<1>2. udpFree > 0 /\ FEC_TX_SLOT_RESERVE \in Nat
  BY LoopAssumption DEF CanSend
<1>3. PICK x \in Int, y \in Int : x = udpFree - 1 - FEC_TX_SLOT_RESERVE /\ y = Available(pool) - 1
  BY <1>1, <1>2
<1>4. PICK m : m = Min({extra, x, y})
  OBVIOUS
<1>5. m \in Int /\ m <= x
  <2>1. extra \in Int
    OBVIOUS
  <2>2. Min({extra, x, y}) \in {extra, x, y} /\ Min({extra, x, y}) <= x
    BY <2>1, MinOfThree
  <2> QED
    BY <1>4, <2>1, <2>2
<1>6. Max({0, m}) = IF 0 >= m THEN 0 ELSE m
  BY <1>5, MaxOfTwo
<1>7. Copies(extra) = Max({0, m})
  BY <1>3, <1>4 DEF Copies
<1> QED
  BY <1>1, <1>2, <1>3, <1>5, <1>6, <1>7

LEMMA FirstClassHas ==
  ASSUME NEW tx \in Tx, Pending(tx)
  PROVE  FirstClass(tx) \in Class /\ tx[FirstClass(tx)] # <<>>
<1>1. /\ Classes[1] = "latency" /\ Classes[2] = "priority" /\ Classes[3] = "bulk"
  BY DEF Classes
<1>2. \E c \in Class : tx[c] # <<>> /\ \A i, j \in 1 .. 3 :
                    Classes[i] = c /\ j < i => tx[Classes[j]] = <<>>
  <2>1. CASE tx["latency"] # <<>>
    <3>1. \A i \in 1 .. 3 : Classes[i] = "latency" => i = 1
      BY <1>1
    <3> QED
      BY <2>1, <3>1 DEF Class
  <2>2. CASE tx["latency"] = <<>> /\ tx["priority"] # <<>>
    <3>1. \A i \in 1 .. 3 : Classes[i] = "priority" => i = 2
      BY <1>1
    <3>2. \A i, j \in 1 .. 3 : Classes[i] = "priority" /\ j < i => tx[Classes[j]] = <<>>
      BY <1>1, <2>2, <3>1
    <3> QED
      BY <2>2, <3>2 DEF Class
  <2>3. CASE tx["latency"] = <<>> /\ tx["priority"] = <<>> /\ tx["bulk"] # <<>>
    <3>1. \A i, j \in 1 .. 3 : j < i => tx[Classes[j]] = <<>>
      BY <1>1, <2>3
    <3> QED
      BY <2>3, <3>1 DEF Class
  <2> QED
    BY <2>1, <2>2, <2>3 DEF Pending, Class
<1> QED
  BY <1>2 DEF FirstClass

-----------------------------------------------------------------------------
(* The inductive invariant. *)

\* Every lane has as many paths as its client has routes, up to the limit.
Lanes(h, r, q) ==
  /\ h \in [Sessions -> [key : 0 .. NKeys, ident : Nat]]
  /\ r \in [Keys -> SUBSET Sessions]
  /\ q \in Queue /\ Sized(q)
  /\ \A k \in Keys : q.lanes[k].paths = Min({Cardinality(r[k]), MaxPaths})

LaneInv == Lanes(hot, routes, queue)

\* Commands name sessions and addresses that exist.
Sendable == Commands \cup {None, Shutdown}
CommandInv ==
  /\ load \in Loads
  /\ sender \in [Senders -> Sendable] /\ chan \in Seq(Sendable) /\ held \in Sendable

\* The newest packets that went out, of destinations D.  Destination 0 is the server
\* itself, whose packets are not numbered.
Newer(last, D, top) ==
  /\ last \in [D -> [Class -> Nat]]
  /\ \A d \in D, c \in Class : last[d][c] <= top
  /\ \A c \in Class : last[0][c] = 0

\* A queue of packets to destinations D, in line behind what went out.
Line(s, last, c, D, top) ==
  \A j \in 1 .. Len(s) :
    /\ s[j].of \in D /\ s[j].n <= top /\ (s[j].of = 0 => s[j].n = 0)
    /\ last[s[j].of][c] <= s[j].n
    /\ \A i \in 1 .. j - 1 : s[i].of = s[j].of => s[i].n <= s[j].n

\* What waits in the lane of k, in line behind queue s.
Behind(t, s, last, k, c, top) ==
  \A j \in 1 .. Len(t) :
    /\ t[j].of = k /\ t[j].n <= top /\ last[k][c] <= t[j].n
    /\ \A i \in 1 .. j - 1 : t[i].n <= t[j].n
    /\ \A i \in 1 .. Len(s) : s[i].of = k => s[i].n <= t[j].n

Ends == 0 .. NKeys
Peers == Sessions \cup {0}

DownOrder(utx, q, last, top) ==
  /\ top \in Nat /\ Newer(last, Ends, top)
  /\ \A c \in Class :
       /\ Line(utx[c], last, c, Ends, top)
       /\ \A k \in Keys : Behind(SlotsOf(q, k, c).pending, utx[c], last, k, c, top)
UpOrder(ttx, last, top) ==
  /\ top \in Nat /\ Newer(last, Peers, top)
  /\ \A c \in Class : Line(ttx[c], last, c, Peers, top)

DownInv == DownOrder(udpTx, queue, wireLast, down)
UpInv == UpOrder(tunTx, tunLast, up)

IInv == LaneInv /\ CommandInv /\ BufferInv /\ DownInv /\ UpInv

-----------------------------------------------------------------------------
(* Packets in and out of a lane. *)

\* A queue with as many buffers in each lane as another is sized like it.
LEMMA SizedLike ==
  ASSUME NEW q, NEW r, Sized(q),
         \A k \in Keys : r.lanes[k].paths = q.lanes[k].paths,
         \A k \in Keys, c \in Class :
           SlotsOf(r, k, c).free + Len(SlotsOf(r, k, c).pending) =
             SlotsOf(q, k, c).free + Len(SlotsOf(q, k, c).pending)
  PROVE  Sized(r)
  BY DEF Sized

LEMMA ClearIs ==
  ASSUME NEW q \in Queue, Sized(q), NEW k \in Keys
  PROVE  LET r == Clear(q, k)
         IN  /\ r \in Queue /\ Sized(r) /\ Keeps(r, q)
             /\ \A j \in Keys : r.lanes[j].paths = q.lanes[j].paths
<1>1. PICK slots : slots = [c \in Class |-> [free |-> SlotsOf(q, k, c).free + Len(SlotsOf(q, k, c).pending),
                                             pending |-> <<>>]]
  OBVIOUS
<1>2. ASSUME NEW c \in Class
      PROVE  /\ slots[c] \in Slot /\ slots[c].pending = <<>>
             /\ slots[c].free = SlotsOf(q, k, c).free + Len(SlotsOf(q, k, c).pending)
  <2>1. SlotsOf(q, k, c).free \in Nat /\ Len(SlotsOf(q, k, c).pending) \in Nat
    BY SlotTypes
  <2>2. PICK f \in Nat : f = SlotsOf(q, k, c).free + Len(SlotsOf(q, k, c).pending)
    BY <2>1
  <2>3. slots[c] = [free |-> f, pending |-> <<>>]
    BY <1>1, <2>2
  <2> QED
    BY <2>2, <2>3 DEF Slot
<1>3. PICK lane \in Lane : lane = [q.lanes[k] EXCEPT !.slots = slots]
  BY <1>1, <1>2 DEF Queue, Lane
<1>4. lane.paths = q.lanes[k].paths /\ lane.slots = slots
  BY <1>3 DEF Queue, Lane
<1>5. PICK lanes \in [Keys -> Lane] : lanes = [q.lanes EXCEPT ![k] = lane]
  BY DEF Queue
<1>6. Clear(q, k) = [q EXCEPT !.lanes = lanes]
  BY <1>1, <1>3, <1>5 DEF Clear, SlotsOf
<1>7. PICK r \in Queue : r = Clear(q, k) /\ r.lanes = lanes
  BY <1>5, <1>6 DEF Queue
<1>8. /\ \A j \in Keys : r.lanes[j].paths = q.lanes[j].paths
      /\ \A c \in Class : SlotsOf(r, k, c) = slots[c]
      /\ \A j \in Keys, c \in Class : j # k => SlotsOf(r, j, c) = SlotsOf(q, j, c)
  BY <1>4, <1>5, <1>7 DEF Queue, SlotsOf
<1>9. Sized(r)
  <2>1. ASSUME NEW j \in Keys, NEW c \in Class
        PROVE  SlotsOf(r, j, c).free + Len(SlotsOf(r, j, c).pending) =
                 SlotsOf(q, j, c).free + Len(SlotsOf(q, j, c).pending)
    <3>1. CASE j = k
      <4>1. SlotsOf(q, k, c).free \in Nat /\ Len(SlotsOf(q, k, c).pending) \in Nat
        BY SlotTypes
      <4>2. Len(<<>>) = 0
        OBVIOUS
      <4> QED
        BY <1>2, <1>8, <3>1, <4>1, <4>2
    <3>2. CASE j # k
      BY <1>8, <3>2
    <3> QED
      BY <3>1, <3>2
  <2> QED
    BY <1>8, <2>1, SizedLike
<1>10. Keeps(r, q)
  <2> SUFFICES ASSUME NEW j \in Keys, NEW c \in Class
               PROVE  /\ Len(SlotsOf(r, j, c).pending) <= Len(SlotsOf(q, j, c).pending)
                      /\ \A i \in 1 .. Len(SlotsOf(r, j, c).pending) :
                           SlotsOf(r, j, c).pending[i] = SlotsOf(q, j, c).pending[i]
    BY DEF Keeps
  <2>1. Len(SlotsOf(q, j, c).pending) \in Nat
    BY SlotTypes
  <2>2. CASE j = k
    <3>1. SlotsOf(r, j, c).pending = <<>>
      BY <1>2, <1>8, <2>2
    <3> QED
      BY <2>1, <3>1
  <2>3. CASE j # k
    BY <1>8, <2>1, <2>3
  <2> QED
    BY <2>2, <2>3
<1> QED
  BY <1>7, <1>8, <1>9, <1>10

\* A packet joins its lane, or is dropped.
LEMMA EnqueueIs ==
  ASSUME NEW q \in Queue, Sized(q), NEW k \in Keys, NEW c \in Class, NEW packet \in Packet
  PROVE  LET r == Enqueue(q, k, c, packet)
         IN  \/ r = q
             \/ /\ r \in Queue /\ Sized(r)
                /\ \A j \in Keys : r.lanes[j].paths = q.lanes[j].paths
                /\ SlotsOf(r, k, c).pending = Append(SlotsOf(q, k, c).pending, packet)
                /\ \A j \in Keys, d \in Class : j # k \/ d # c => SlotsOf(r, j, d) = SlotsOf(q, j, d)
<1>1. PICK f \in Nat, p \in Seq(Packet) : f = SlotsOf(q, k, c).free /\ p = SlotsOf(q, k, c).pending
  BY SlotTypes
<1>2. CASE q.lanes[k].paths = 0 \/ f = 0
  BY <1>1, <1>2 DEF Enqueue
<1>3. CASE ~(q.lanes[k].paths = 0 \/ f = 0)
  <2>1. PICK g \in Nat, s \in Seq(Packet) : g = f - 1 /\ s = Append(p, packet)
    <3>1. f - 1 \in Nat /\ Append(p, packet) \in Seq(Packet)
      BY <1>3
    <3> QED
      BY <3>1
  <2>2. Enqueue(q, k, c, packet) = WithSlots(q, k, c, g, s)
    <3>1. Enqueue(q, k, c, packet) =
            WithSlots(q, k, c, SlotsOf(q, k, c).free - 1, Append(SlotsOf(q, k, c).pending, packet))
      BY <1>1, <1>3 DEF Enqueue
    <3> QED
      BY <1>1, <2>1, <3>1
  <2>3. PICK r \in Queue :
          /\ r = Enqueue(q, k, c, packet)
          /\ \A j \in Keys : r.lanes[j].paths = q.lanes[j].paths
          /\ SlotsOf(r, k, c) = [free |-> g, pending |-> s]
          /\ \A j \in Keys, d \in Class : j # k \/ d # c => SlotsOf(r, j, d) = SlotsOf(q, j, d)
    <3>1. Replaces(Enqueue(q, k, c, packet), q, k, c, [free |-> g, pending |-> s])
      BY <2>2, WithSlotsIs
    <3> QED
      BY <3>1 DEF Replaces
  <2>4. Len(s) = Len(p) + 1 /\ Len(p) \in Nat
    BY <2>1
  <2>5. SlotsOf(r, k, c).free + Len(SlotsOf(r, k, c).pending) =
          SlotsOf(q, k, c).free + Len(SlotsOf(q, k, c).pending)
    <3>1. SlotsOf(r, k, c).free = g /\ SlotsOf(r, k, c).pending = s
      BY <2>3
    <3>2. g + Len(s) = f + Len(p)
      BY <2>1, <2>4
    <3> QED
      BY <1>1, <3>1, <3>2
  <2>6. \A j \in Keys, d \in Class :
          SlotsOf(r, j, d).free + Len(SlotsOf(r, j, d).pending) =
            SlotsOf(q, j, d).free + Len(SlotsOf(q, j, d).pending)
    BY <2>3, <2>5
  <2>7. Sized(r)
    BY <2>3, <2>6, SizedLike
  <2> QED
    BY <1>1, <2>1, <2>3, <2>7
<1> QED
  BY <1>2, <1>3

\* A turn that found something is at an address whose lane has a packet.
LEMMA TurnIs ==
  ASSUME NEW q \in Queue, NEW c \in Class, NEW i \in Found(q, c)
  PROVE  /\ Turn(q, c, i) \in Keys /\ SlotsOf(q, Turn(q, c, i), c).pending # <<>>
         /\ (q.cursor[c] + i + 1) % Len(q.rings[c]) \in Nat
<1>1. PICK ring \in Seq(Keys), cur \in Nat, len \in Nat :
        ring = q.rings[c] /\ cur = q.cursor[c] /\ len = Len(ring)
  BY DEF Queue
<1>2. cur < len /\ i \in 0 .. len - 1 /\ SlotsOf(q, Turn(q, c, i), c).pending # <<>>
  BY <1>1 DEF Found
<1>3. ((cur + i) % len) \in 0 .. len - 1 /\ ((cur + i + 1) % len) \in 0 .. len - 1
  BY <1>2
<1>4. ((cur + i) % len) + 1 \in 1 .. len
  BY <1>2, <1>3
<1>5. Turn(q, c, i) = ring[((cur + i) % len) + 1]
  BY <1>1 DEF Turn
<1>6. Turn(q, c, i) \in Keys
  BY <1>1, <1>4, <1>5
<1> QED
  BY <1>1, <1>2, <1>3, <1>6

LEMMA DequeueIs ==
  ASSUME NEW q \in Queue, NEW c \in Class, NEW i \in Found(q, c), NEW k, k = Turn(q, c, i)
  PROVE  Replaces(Dequeue(q, c, i), q, k, c,
                  [free |-> SlotsOf(q, k, c).free, pending |-> Tail(SlotsOf(q, k, c).pending)])
<1>1. k \in Keys /\ SlotsOf(q, k, c).pending # <<>> /\ (q.cursor[c] + i + 1) % Len(q.rings[c]) \in Nat
  BY TurnIs
<1>2. SlotsOf(q, k, c).free \in Nat /\ SlotsOf(q, k, c).pending \in Seq(Packet)
  BY <1>1, SlotTypes
<1>3. PICK f \in Nat, p \in Seq(Packet) : f = SlotsOf(q, k, c).free /\ p = Tail(SlotsOf(q, k, c).pending)
  <2>1. Tail(SlotsOf(q, k, c).pending) \in Seq(Packet)
    BY <1>1, <1>2
  <2> QED
    BY <1>2, <2>1
<1>4. PICK w \in Queue :
        /\ w = WithSlots(q, k, c, f, p) /\ w.rings = q.rings /\ w.cursor = q.cursor
        /\ \A j \in Keys : w.lanes[j].paths = q.lanes[j].paths
        /\ SlotsOf(w, k, c) = [free |-> f, pending |-> p]
        /\ \A j \in Keys, d \in Class : j # k \/ d # c => SlotsOf(w, j, d) = SlotsOf(q, j, d)
  <2>1. PICK x : x = WithSlots(q, k, c, f, p)
    OBVIOUS
  <2>2. Replaces(x, q, k, c, [free |-> f, pending |-> p]) /\ x.rings = q.rings /\ x.cursor = q.cursor
    BY <1>1, <2>1, WithSlotsIs
  <2> QED
    BY <2>1, <2>2 DEF Replaces
<1>5. PICK n \in Nat : n = (q.cursor[c] + i + 1) % Len(q.rings[c])
  BY <1>1
<1>6. Dequeue(q, c, i) = [w EXCEPT !.cursor[c] = n]
  <2>1. Dequeue(q, c, i) = [w EXCEPT !.cursor[c] = (@ + i + 1) % Len(q.rings[c])]
    BY <1>3, <1>4 DEF Dequeue
  <2> QED
    BY <1>4, <1>5, <2>1 DEF Queue
<1>7. PICK cursor \in [Class -> Nat] : cursor = [w.cursor EXCEPT ![c] = n]
  BY DEF Queue
<1>8. PICK r \in Queue : r = Dequeue(q, c, i) /\ r.lanes = w.lanes
  <2>1. Dequeue(q, c, i) = [w EXCEPT !.cursor = cursor]
    BY <1>6, <1>7
  <2>2. [w EXCEPT !.cursor = cursor] \in Queue /\ [w EXCEPT !.cursor = cursor].lanes = w.lanes
    BY DEF Queue
  <2> QED
    BY <2>1, <2>2
<1>9. \A j \in Keys, d \in Class : SlotsOf(r, j, d) = SlotsOf(w, j, d)
  BY <1>8 DEF SlotsOf
<1>10. SlotsOf(r, k, c) = [free |-> SlotsOf(q, k, c).free, pending |-> Tail(SlotsOf(q, k, c).pending)]
  BY <1>1, <1>3, <1>4, <1>9
<1> QED
  BY <1>1, <1>4, <1>8, <1>9, <1>10 DEF Replaces

\* A packet that was taken and whose buffer went back to the lane.
LEMMA RecycleIs ==
  ASSUME NEW q \in Queue, Sized(q), NEW c \in Class, NEW i \in Found(q, c), NEW k, k = Turn(q, c, i)
  PROVE  LET r == Recycle(Dequeue(q, c, i), k, c)
         IN  /\ r \in Queue /\ Sized(r)
             /\ \A j \in Keys : r.lanes[j].paths = q.lanes[j].paths
             /\ SlotsOf(r, k, c).pending = Tail(SlotsOf(q, k, c).pending)
             /\ \A j \in Keys, d \in Class : j # k \/ d # c => SlotsOf(r, j, d) = SlotsOf(q, j, d)
<1>1. k \in Keys /\ SlotsOf(q, k, c).pending # <<>>
  BY TurnIs
<1>2. PICK f \in Nat, p \in Seq(Packet) : f = SlotsOf(q, k, c).free /\ p = SlotsOf(q, k, c).pending
  BY <1>1, SlotTypes
<1>3. PICK w \in Queue :
        /\ w = Dequeue(q, c, i) /\ \A j \in Keys : w.lanes[j].paths = q.lanes[j].paths
        /\ SlotsOf(w, k, c) = [free |-> f, pending |-> Tail(p)]
        /\ \A j \in Keys, d \in Class : j # k \/ d # c => SlotsOf(w, j, d) = SlotsOf(q, j, d)
  <2>1. Replaces(Dequeue(q, c, i), q, k, c, [free |-> f, pending |-> Tail(p)])
    BY <1>2, DequeueIs
  <2> QED
    BY <2>1 DEF Replaces
<1>4. Tail(p) \in Seq(Packet) /\ Len(Tail(p)) = Len(p) - 1 /\ Len(p) \in Nat
  BY <1>1, <1>2
<1>5. Recycle(w, k, c) = WithSlots(w, k, c, f + 1, Tail(p))
  <2>1. SlotsOf(w, k, c).free = f /\ SlotsOf(w, k, c).pending = Tail(p)
    BY <1>3
  <2> QED
    BY <2>1 DEF Recycle
<1>6. PICK g \in Nat, t \in Seq(Packet) : g = f + 1 /\ t = Tail(p)
  <2>1. f + 1 \in Nat
    OBVIOUS
  <2> QED
    BY <1>4, <2>1
<1>7. PICK r \in Queue :
        /\ r = Recycle(w, k, c) /\ \A j \in Keys : r.lanes[j].paths = w.lanes[j].paths
        /\ SlotsOf(r, k, c) = [free |-> g, pending |-> t]
        /\ \A j \in Keys, d \in Class : j # k \/ d # c => SlotsOf(r, j, d) = SlotsOf(w, j, d)
  <2>1. Recycle(w, k, c) = WithSlots(w, k, c, g, t)
    BY <1>5, <1>6
  <2>2. Replaces(Recycle(w, k, c), w, k, c, [free |-> g, pending |-> t])
    BY <1>1, <2>1, WithSlotsIs
  <2> QED
    BY <2>2 DEF Replaces
<1>8. SlotsOf(r, k, c).free = f + 1 /\ SlotsOf(r, k, c).pending = Tail(p)
  BY <1>6, <1>7
<1>9. SlotsOf(r, k, c).free + Len(SlotsOf(r, k, c).pending) = f + Len(p)
  BY <1>4, <1>8
<1>10. \A j \in Keys, d \in Class :
        SlotsOf(r, j, d).free + Len(SlotsOf(r, j, d).pending) =
          SlotsOf(q, j, d).free + Len(SlotsOf(q, j, d).pending)
  BY <1>2, <1>3, <1>7, <1>9
<1>11. Sized(r)
  BY <1>3, <1>7, <1>10, SizedLike
<1> QED
  BY <1>2, <1>3, <1>7, <1>8, <1>11

\* A packet that was taken and put back leaves every lane as it was.
LEMMA RequeueIs ==
  ASSUME NEW q \in Queue, Sized(q), NEW c \in Class, NEW i \in Found(q, c), NEW k, k = Turn(q, c, i)
  PROVE  LET r == RequeueFront(Dequeue(q, c, i), k, c, Head(SlotsOf(q, k, c).pending))
         IN  /\ r \in Queue /\ Sized(r)
             /\ \A j \in Keys : r.lanes[j].paths = q.lanes[j].paths
             /\ \A j \in Keys, d \in Class : SlotsOf(r, j, d).pending = SlotsOf(q, j, d).pending
<1>1. k \in Keys /\ SlotsOf(q, k, c).pending # <<>>
  BY TurnIs
<1>2. PICK f \in Nat, p \in Seq(Packet) : f = SlotsOf(q, k, c).free /\ p = SlotsOf(q, k, c).pending
  BY <1>1, SlotTypes
<1>3. PICK w \in Queue :
        /\ w = Dequeue(q, c, i) /\ \A j \in Keys : w.lanes[j].paths = q.lanes[j].paths
        /\ SlotsOf(w, k, c) = [free |-> f, pending |-> Tail(p)]
        /\ \A j \in Keys, d \in Class : j # k \/ d # c => SlotsOf(w, j, d) = SlotsOf(q, j, d)
  <2>1. Replaces(Dequeue(q, c, i), q, k, c, [free |-> f, pending |-> Tail(p)])
    BY <1>2, DequeueIs
  <2> QED
    BY <2>1 DEF Replaces
<1>4. <<Head(p)>> \o Tail(p) = p
  <2>1. p # <<>>
    BY <1>1, <1>2
  <2> QED
    BY <2>1, HeadTailProperties, ConcatProperties
<1>5. RequeueFront(w, k, c, Head(p)) = WithSlots(w, k, c, f, p)
  <2>1. SlotsOf(w, k, c).free = f /\ SlotsOf(w, k, c).pending = Tail(p)
    BY <1>3
  <2> QED
    BY <1>4, <2>1 DEF RequeueFront
<1>6. PICK r \in Queue :
        /\ r = RequeueFront(w, k, c, Head(p)) /\ \A j \in Keys : r.lanes[j].paths = w.lanes[j].paths
        /\ SlotsOf(r, k, c) = [free |-> f, pending |-> p]
        /\ \A j \in Keys, d \in Class : j # k \/ d # c => SlotsOf(r, j, d) = SlotsOf(w, j, d)
  <2>1. Replaces(RequeueFront(w, k, c, Head(p)), w, k, c, [free |-> f, pending |-> p])
    BY <1>1, <1>5, WithSlotsIs
  <2> QED
    BY <2>1 DEF Replaces
<1>7. SlotsOf(r, k, c).free = f /\ SlotsOf(r, k, c).pending = p
  BY <1>6
<1>8. \A j \in Keys, d \in Class :
        /\ SlotsOf(r, j, d).free = SlotsOf(q, j, d).free
        /\ SlotsOf(r, j, d).pending = SlotsOf(q, j, d).pending
  BY <1>2, <1>3, <1>6, <1>7
<1>9. Sized(r)
  BY <1>3, <1>6, <1>8, SizedLike
<1> QED
  BY <1>2, <1>3, <1>6, <1>8, <1>9

-----------------------------------------------------------------------------
(* The commands of the engine: a lane follows its routes, and keeps the    *)
(* older part of what it holds.                                            *)

LEMMA LaneTypes ==
  ASSUME NEW h, NEW r, NEW q, Lanes(h, r, q)
  PROVE  /\ q \in Queue /\ Sized(q) /\ r \in [Keys -> SUBSET Sessions]
         /\ h \in [Sessions -> [key : 0 .. NKeys, ident : Nat]]
         /\ \A s \in Sessions : h[s].key \in 0 .. NKeys /\ h[s].ident \in Nat
         /\ \A k \in 0 .. NKeys : k # 0 => k \in Keys
<1>1. \A k \in 0 .. NKeys : k # 0 => k \in Keys
  BY QueueAssumption DEF Keys
<1> QED
  BY <1>1 DEF Lanes

LEMMA KeepsItself ==
  ASSUME NEW q \in Queue
  PROVE  Keeps(q, q)
<1>1. \A k \in Keys, c \in Class : Len(SlotsOf(q, k, c).pending) \in Nat
  BY SlotTypes
<1> QED
  BY <1>1 DEF Keeps

LEMMA SyncIs ==
  ASSUME NEW q \in Queue, Sized(q), NEW r \in [Keys -> SUBSET Sessions], NEW k \in 0 .. NKeys
  PROVE  LET p == SyncDownlinkProfile(q, r, k)
         IN  /\ p \in Queue /\ Sized(p) /\ Keeps(p, q)
             /\ k # 0 => p.lanes[k].paths = Min({Cardinality(r[k]), MaxPaths})
             /\ \A j \in Keys : j # k => p.lanes[j].paths = q.lanes[j].paths
<1>1. CASE k = 0
  <2>1. SyncDownlinkProfile(q, r, k) = q
    BY <1>1 DEF SyncDownlinkProfile
  <2> QED
    BY <1>1, <2>1, KeepsItself
<1>2. CASE k # 0
  <2>1. k \in Keys
    BY <1>2, QueueAssumption DEF Keys
  <2>2. PICK n \in Nat : n = Cardinality(r[k])
    BY <2>1, RoutesAreCounted
  <2>3. SyncDownlinkProfile(q, r, k) = Configure(q, k, n)
    BY <1>2, <2>2 DEF SyncDownlinkProfile
  <2> QED
    BY <2>1, <2>2, <2>3, ConfigureIs
<1> QED
  BY <1>1, <1>2

LEMMA RouteChange ==
  ASSUME NEW r \in [Keys -> SUBSET Sessions], NEW k \in Keys, NEW s \in Sessions
  PROVE  /\ Unregister(r, k, s) \in [Keys -> SUBSET Sessions]
         /\ \A j \in Keys : j # k => Unregister(r, k, s)[j] = r[j]
         /\ Register(r, k, s) \in [Keys -> SUBSET Sessions]
         /\ \A j \in Keys : j # k => Register(r, k, s)[j] = r[j]
<1>1. r[k] \ {s} \in SUBSET Sessions /\ {e \in r[k] : WorkerOf[e] # WorkerOf[s]} \cup {s} \in SUBSET Sessions
  OBVIOUS
<1> QED
  BY <1>1 DEF Unregister, Register

\* What a command leaves: a lane follows its routes.
LEMMA LanesFollow ==
  ASSUME NEW h, NEW r, NEW q, Lanes(h, r, q),
         NEW g \in [Sessions -> [key : 0 .. NKeys, ident : Nat]],
         NEW u \in [Keys -> SUBSET Sessions], NEW k \in 0 .. NKeys,
         \A j \in Keys : j # k => u[j] = r[j]
  PROVE  /\ Lanes(g, u, SyncDownlinkProfile(q, u, k))
         /\ Keeps(SyncDownlinkProfile(q, u, k), q)
<1>1. q \in Queue /\ Sized(q)
  BY DEF Lanes
<1>2. PICK p \in Queue :
        /\ p = SyncDownlinkProfile(q, u, k) /\ Sized(p) /\ Keeps(p, q)
        /\ k # 0 => p.lanes[k].paths = Min({Cardinality(u[k]), MaxPaths})
        /\ \A j \in Keys : j # k => p.lanes[j].paths = q.lanes[j].paths
  BY <1>1, SyncIs
<1>3. ASSUME NEW j \in Keys PROVE p.lanes[j].paths = Min({Cardinality(u[j]), MaxPaths})
  <2>1. j # 0
    BY DEF Keys
  <2>2. CASE j = k
    BY <1>2, <2>1, <2>2
  <2>3. CASE j # k
    BY <1>2, <2>3 DEF Lanes
  <2> QED
    BY <2>2, <2>3
<1> QED
  BY <1>2, <1>3 DEF Lanes

LEMMA HotChange ==
  ASSUME NEW h \in [Sessions -> [key : 0 .. NKeys, ident : Nat]], NEW s \in Sessions,
         NEW k \in 0 .. NKeys, NEW n \in Nat
  PROVE  /\ [h EXCEPT ![s].key = k] \in [Sessions -> [key : 0 .. NKeys, ident : Nat]]
         /\ [h EXCEPT ![s].ident = n] \in [Sessions -> [key : 0 .. NKeys, ident : Nat]]
         /\ [h EXCEPT ![s] = [key |-> 0, ident |-> 0]] \in [Sessions -> [key : 0 .. NKeys, ident : Nat]]
<1>1. h[s] \in [key : 0 .. NKeys, ident : Nat]
  OBVIOUS
<1>2. 0 \in 0 .. NKeys
  BY QueueAssumption
<1> QED
  BY <1>1, <1>2

LEMMA EngineStays ==
  ASSUME LaneInv, UNCHANGED qvars
  PROVE  LaneInv' /\ Keeps(queue', queue)
<1>1. queue' = queue /\ routes' = routes /\ hot' = hot
  BY DEF qvars
<1>2. queue \in Queue
  BY DEF LaneInv, Lanes
<1>3. Keeps(queue, queue)
  BY <1>2, KeepsItself
<1> QED
  BY <1>1, <1>3 DEF LaneInv

LEMMA ActivateKeeps ==
  ASSUME LaneInv, NEW s \in Sessions, NEW k \in Keys, ActivateTunnel(s, k)
  PROVE  LaneInv' /\ Keeps(queue', queue)
<1>1. CASE ~Live(s)
  BY <1>1, EngineStays DEF ActivateTunnel
<1>2. CASE Live(s)
  <2>1. /\ queue \in Queue /\ Sized(queue) /\ routes \in [Keys -> SUBSET Sessions]
        /\ hot \in [Sessions -> [key : 0 .. NKeys, ident : Nat]]
    BY LaneTypes DEF LaneInv
  <2>2. PICK old : old = hot[s].key
    OBVIOUS
  <2>3. old \in 0 .. NKeys /\ k \in 0 .. NKeys /\ (old # 0 => old \in Keys)
    <3>1. hot[s].key \in 0 .. NKeys
      BY <2>1
    <3> QED
      BY <2>2, <3>1, QueueAssumption DEF Keys
  <2>4. PICK gone : gone = IF old = 0 THEN routes ELSE Unregister(routes, old, s)
    OBVIOUS
  <2>5. gone \in [Keys -> SUBSET Sessions] /\ \A j \in Keys : j # old => gone[j] = routes[j]
    <3>1. CASE old = 0
      BY <2>1, <2>4, <3>1
    <3>2. CASE old # 0
      BY <2>1, <2>3, <2>4, <3>2, RouteChange
    <3> QED
      BY <3>1, <3>2
  <2>6. PICK r \in [Keys -> SUBSET Sessions] :
          r = Register(gone, k, s) /\ \A j \in Keys : j # k => r[j] = gone[j]
    BY <2>5, RouteChange
  <2>7. PICK q : q = SyncDownlinkProfile(queue, r, old)
    OBVIOUS
  <2>8. /\ routes' = r /\ hot' = [hot EXCEPT ![s].key = k]
        /\ queue' = SyncDownlinkProfile(q, r, k)
    BY <1>2, <2>2, <2>4, <2>6, <2>7 DEF ActivateTunnel
  <2>9. hot' \in [Sessions -> [key : 0 .. NKeys, ident : Nat]]
    BY <2>1, <2>3, <2>8, HotChange
  <2>10. /\ q \in Queue /\ Sized(q) /\ Keeps(q, queue)
         /\ old # 0 => q.lanes[old].paths = Min({Cardinality(r[old]), MaxPaths})
         /\ \A j \in Keys : j # old => q.lanes[j].paths = queue.lanes[j].paths
    BY <2>1, <2>3, <2>7, SyncIs
  <2>11. /\ queue' \in Queue /\ Sized(queue') /\ Keeps(queue', q)
         /\ k # 0 => queue'.lanes[k].paths = Min({Cardinality(r[k]), MaxPaths})
         /\ \A j \in Keys : j # k => queue'.lanes[j].paths = q.lanes[j].paths
    BY <2>3, <2>8, <2>10, SyncIs
  <2>12. Keeps(queue', queue)
    BY <2>1, <2>10, <2>11, KeepsTwice
  <2>13. ASSUME NEW j \in Keys PROVE queue'.lanes[j].paths = Min({Cardinality(r[j]), MaxPaths})
    <3>1. j # 0
      BY DEF Keys
    <3>2. CASE j = k
      BY <2>11, <3>1, <3>2
    <3>3. CASE j # k /\ j = old
      BY <2>10, <2>11, <3>1, <3>3
    <3>4. CASE j # k /\ j # old
      <4>1. r[j] = routes[j]
        BY <2>5, <2>6, <3>4
      <4>2. queue'.lanes[j].paths = queue.lanes[j].paths
        BY <2>10, <2>11, <3>4
      <4> QED
        BY <4>1, <4>2 DEF LaneInv, Lanes
    <3> QED
      BY <3>2, <3>3, <3>4
  <2>14. Lanes(hot', routes', queue')
    BY <2>8, <2>9, <2>11, <2>13 DEF Lanes
  <2> QED
    BY <2>12, <2>14 DEF LaneInv
<1> QED
  BY <1>1, <1>2

LEMMA RemoveTunnelKeeps ==
  ASSUME LaneInv, NEW s \in Sessions, RemoveTunnel(s)
  PROVE  LaneInv' /\ Keeps(queue', queue)
<1>1. CASE ~Live(s) \/ hot[s].key = 0
  BY <1>1, EngineStays DEF RemoveTunnel
<1>2. CASE ~(~Live(s) \/ hot[s].key = 0)
  <2>1. /\ routes \in [Keys -> SUBSET Sessions]
        /\ hot \in [Sessions -> [key : 0 .. NKeys, ident : Nat]]
    BY LaneTypes DEF LaneInv
  <2>2. PICK k : k = hot[s].key
    OBVIOUS
  <2>3. k \in 0 .. NKeys /\ k \in Keys /\ 0 \in 0 .. NKeys
    <3>1. hot[s].key \in 0 .. NKeys
      BY <2>1
    <3> QED
      BY <1>2, <2>2, <3>1, QueueAssumption DEF Keys
  <2>4. PICK r \in [Keys -> SUBSET Sessions] :
          r = Unregister(routes, k, s) /\ \A j \in Keys : j # k => r[j] = routes[j]
    BY <2>1, <2>3, RouteChange
  <2>5. /\ routes' = r /\ hot' = [hot EXCEPT ![s].key = 0]
        /\ queue' = SyncDownlinkProfile(queue, r, k)
    BY <1>2, <2>2, <2>4 DEF RemoveTunnel
  <2>6. hot' \in [Sessions -> [key : 0 .. NKeys, ident : Nat]]
    BY <2>1, <2>3, <2>5, HotChange
  <2> QED
    BY <2>3, <2>4, <2>5, <2>6, LanesFollow DEF LaneInv
<1> QED
  BY <1>1, <1>2

LEMMA RemoveSessionKeeps ==
  ASSUME LaneInv, NEW s \in Sessions, RemoveSession(s)
  PROVE  LaneInv' /\ Keeps(queue', queue)
<1>1. CASE ~Live(s)
  BY <1>1, EngineStays DEF RemoveSession
<1>2. CASE Live(s)
  <2>1. /\ queue \in Queue /\ routes \in [Keys -> SUBSET Sessions]
        /\ hot \in [Sessions -> [key : 0 .. NKeys, ident : Nat]]
    BY LaneTypes DEF LaneInv
  <2>2. PICK k : k = hot[s].key
    OBVIOUS
  <2>3. k \in 0 .. NKeys /\ (k # 0 => k \in Keys)
    <3>1. hot[s].key \in 0 .. NKeys
      BY <2>1
    <3> QED
      BY <2>2, <3>1, QueueAssumption DEF Keys
  <2>4. hot' = [hot EXCEPT ![s] = [key |-> 0, ident |-> 0]]
    BY <1>2 DEF RemoveSession
  <2>5. hot' \in [Sessions -> [key : 0 .. NKeys, ident : Nat]]
    BY <2>1, <2>3, <2>4, HotChange
  <2>6. CASE k = 0
    <3>1. routes' = routes /\ queue' = queue
      BY <1>2, <2>2, <2>6 DEF RemoveSession
    <3> QED
      BY <2>1, <2>5, <3>1, KeepsItself DEF LaneInv, Lanes
  <2>7. CASE k # 0
    <3>1. PICK gone \in [Keys -> SUBSET Sessions] :
            gone = Unregister(routes, k, s) /\ \A j \in Keys : j # k => gone[j] = routes[j]
      BY <2>1, <2>3, <2>7, RouteChange
    <3>2. Fallbacks(s) # {} => Max(Fallbacks(s)) \in Sessions
      <4>1. Fallbacks(s) \subseteq Sessions /\ Fallbacks(s) \subseteq 1 .. Max(Sessions)
        BY QueueAssumption DEF Fallbacks
      <4>2. Fallbacks(s) # {} => Max(Fallbacks(s)) \in Fallbacks(s)
        BY <4>1, QueueAssumption, MaxIsMember
      <4> QED
        BY <4>1, <4>2
    <3>3. PICK r : r = IF gone # routes /\ Fallbacks(s) # {} THEN Register(gone, k, Max(Fallbacks(s)))
                       ELSE gone
      OBVIOUS
    <3>4. r \in [Keys -> SUBSET Sessions] /\ \A j \in Keys : j # k => r[j] = routes[j]
      <4>1. CASE gone # routes /\ Fallbacks(s) # {}
        <5>1. r = Register(gone, k, Max(Fallbacks(s)))
          BY <3>3, <4>1
        <5> QED
          BY <2>3, <2>7, <3>1, <3>2, <4>1, <5>1, RouteChange
      <4>2. CASE ~(gone # routes /\ Fallbacks(s) # {})
        BY <3>1, <3>3, <4>2
      <4> QED
        BY <4>1, <4>2
    <3>5. routes' = r /\ queue' = SyncDownlinkProfile(queue, r, k)
      BY <1>2, <2>2, <2>7, <3>1, <3>3 DEF RemoveSession
    <3> QED
      BY <2>3, <2>5, <3>4, <3>5, LanesFollow DEF LaneInv
  <2> QED
    BY <2>6, <2>7
<1> QED
  BY <1>1, <1>2

LEMMA UpdateEpochKeeps ==
  ASSUME LaneInv, NEW s \in Sessions, NEW ident \in Nat, UpdateEpoch(s, ident)
  PROVE  LaneInv' /\ Keeps(queue', queue)
<1>1. CASE ~Live(s)
  BY <1>1, EngineStays DEF UpdateEpoch
<1>2. CASE Live(s)
  <2>1. /\ queue \in Queue /\ Sized(queue) /\ routes \in [Keys -> SUBSET Sessions]
        /\ hot \in [Sessions -> [key : 0 .. NKeys, ident : Nat]]
        /\ \A k \in Keys : queue.lanes[k].paths = Min({Cardinality(routes[k]), MaxPaths})
    BY DEF LaneInv, Lanes
  <2>2. hot' = [hot EXCEPT ![s].ident = ident] /\ routes' = routes
    BY <1>2 DEF UpdateEpoch
  <2>3. hot' \in [Sessions -> [key : 0 .. NKeys, ident : Nat]]
    <3>1. 0 \in 0 .. NKeys
      BY QueueAssumption
    <3> QED
      BY <2>1, <2>2, <3>1, HotChange
  <2>4. CASE queue' = queue
    BY <2>1, <2>2, <2>3, <2>4, KeepsItself DEF LaneInv, Lanes
  <2>5. CASE hot[s].key # 0 /\ queue' = Clear(queue, hot[s].key)
    <3>1. hot[s].key \in Keys
      <4>1. hot[s].key \in 0 .. NKeys
        BY <2>1
      <4> QED
        BY <2>5, <4>1, QueueAssumption DEF Keys
    <3>2. /\ queue' \in Queue /\ Sized(queue') /\ Keeps(queue', queue)
          /\ \A j \in Keys : queue'.lanes[j].paths = queue.lanes[j].paths
      BY <2>1, <2>5, <3>1, ClearIs
    <3> QED
      BY <2>1, <2>2, <2>3, <3>2 DEF LaneInv, Lanes
  <2> QED
    BY <1>2, <2>4, <2>5 DEF UpdateEpoch
<1> QED
  BY <1>1, <1>2

-----------------------------------------------------------------------------
(* Packets in line. *)

LEMMA PacketTypes ==
  ASSUME NEW s \in Seq(Packet)
  PROVE  Len(s) \in Nat /\ \A i \in 1 .. Len(s) : s[i] \in Packet /\ s[i].of \in Nat /\ s[i].n \in Nat
<1>1. \A i \in 1 .. Len(s) : s[i] \in Packet
  OBVIOUS
<1>2. \A x \in Packet : x.of \in Nat /\ x.n \in Nat
  BY DEF Packet
<1> QED
  BY <1>1, <1>2

\* A sequence with n copies of a packet at its end.
LEMMA CopiesAre ==
  ASSUME NEW s \in Seq(Packet), NEW x \in Packet, NEW n \in Nat
  PROVE  LET t == s \o [i \in 1 .. n |-> x]
         IN  /\ t \in Seq(Packet) /\ Len(t) = Len(s) + n
             /\ \A j \in 1 .. Len(t) : t[j] = IF j <= Len(s) THEN s[j] ELSE x
<1>1. PICK y : y = [i \in 1 .. n |-> x]
  OBVIOUS
<1>2. y \in Seq(Packet) /\ Len(y) = n /\ \A i \in 1 .. n : y[i] = x
  <2>1. y \in [1 .. n -> Packet]
    BY <1>1
  <2>2. \A m \in Nat : \A f : f \in [1 .. m -> Packet] => f \in Seq(Packet) /\ Len(f) = m
    OBVIOUS
  <2>3. y \in Seq(Packet) /\ Len(y) = n
    BY <2>1, <2>2, Zenon
  <2> QED
    BY <1>1, <2>3
<1>3. PICK len \in Nat : len = Len(s)
  OBVIOUS
<1>4. PICK z : z = s \o y
  OBVIOUS
<1>5. z \in Seq(Packet) /\ Len(z) = len + n
  <2>1. z \in Seq(Packet)
    BY <1>2, <1>4, ConcatProperties
  <2>2. Len(z) = Len(s) + Len(y)
    BY <1>2, <1>4, ConcatProperties
  <2> QED
    BY <1>2, <1>3, <2>1, <2>2
<1>6. ASSUME NEW j \in 1 .. len + n PROVE z[j] = IF j <= len THEN s[j] ELSE x
  <2>1. ASSUME j <= len PROVE z[j] = s[j]
    BY <1>2, <1>3, <1>4, <2>1
  <2>2. ASSUME j > len PROVE z[j] = x
    <3>1. j - len \in 1 .. n
      BY <2>2
    <3>2. z[j] = y[j - len]
      BY <1>2, <1>3, <1>4, <2>2
    <3> QED
      BY <1>2, <3>1, <3>2
  <2> QED
    BY <2>1, <2>2
<1> QED
  BY <1>1, <1>3, <1>4, <1>5, <1>6

LEMMA LineCopies ==
  ASSUME NEW s \in Seq(Packet), NEW last, NEW c, NEW D, NEW top, Line(s, last, c, D, top),
         NEW x \in Packet, x.of \in D, x.n <= top, x.of = 0 => x.n = 0, last[x.of][c] <= x.n,
         \A i \in 1 .. Len(s) : s[i].of = x.of => s[i].n <= x.n,
         NEW t \in Seq(Packet), NEW n \in Nat, Len(t) = Len(s) + n,
         \A j \in 1 .. Len(t) : t[j] = IF j <= Len(s) THEN s[j] ELSE x
  PROVE  Line(t, last, c, D, top)
<1>1. Len(s) \in Nat /\ x.n \in Nat
  BY PacketTypes DEF Packet
<1> SUFFICES ASSUME NEW j \in 1 .. Len(t)
             PROVE  /\ t[j].of \in D /\ t[j].n <= top /\ (t[j].of = 0 => t[j].n = 0)
                    /\ last[t[j].of][c] <= t[j].n
                    /\ \A i \in 1 .. j - 1 : t[i].of = t[j].of => t[i].n <= t[j].n
  BY DEF Line
<1>2. CASE j <= Len(s)
  <2>1. j \in 1 .. Len(s) /\ t[j] = s[j]
    BY <1>1, <1>2
  <2>2. \A i \in 1 .. j - 1 : t[i] = s[i]
    BY <1>1, <1>2
  <2> QED
    BY <2>1, <2>2 DEF Line
<1>3. CASE j > Len(s)
  <2>1. t[j] = x
    BY <1>1, <1>3
  <2>2. ASSUME NEW i \in 1 .. j - 1, t[i].of = x.of PROVE t[i].n <= x.n
    <3>1. i \in 1 .. Len(t)
      OBVIOUS
    <3>2. CASE i <= Len(s)
      BY <1>1, <2>2, <3>1, <3>2
    <3>3. CASE i > Len(s)
      BY <1>1, <3>1, <3>3
    <3> QED
      BY <1>1, <3>2, <3>3
  <2> QED
    BY <2>1, <2>2
<1> QED
  BY <1>1, <1>2, <1>3

\* More has been read.
LEMMA LineRaise ==
  ASSUME NEW s \in Seq(Packet), NEW last, NEW c, NEW D, NEW top \in Nat, Line(s, last, c, D, top),
         NEW more \in Nat, top <= more
  PROVE  Line(s, last, c, D, more)
<1>1. \A i \in 1 .. Len(s) : s[i].n \in Nat
  BY PacketTypes
<1> QED
  BY <1>1 DEF Line

LEMMA BehindRaise ==
  ASSUME NEW t \in Seq(Packet), NEW s, NEW last, NEW k, NEW c, NEW top \in Nat,
         Behind(t, s, last, k, c, top), NEW more \in Nat, top <= more
  PROVE  Behind(t, s, last, k, c, more)
<1>1. \A i \in 1 .. Len(t) : t[i].n \in Nat
  BY PacketTypes
<1> QED
  BY <1>1 DEF Behind

LEMMA NewerRaise ==
  ASSUME NEW last, NEW D, NEW top \in Nat, Newer(last, D, top), NEW more \in Nat, top <= more
  PROVE  Newer(last, D, more)
<1>1. \A d \in D, c \in Class : last[d][c] \in Nat
  BY DEF Newer
<1> QED
  BY <1>1 DEF Newer

\* t is what stands after n packets of s have left, and now what went out last to d.
Rest(t, s, n) ==
  /\ Len(t) = Len(s) - n
  /\ \A i \in 1 .. Len(t) : n + i \in 1 .. Len(s) /\ t[i] = s[n + i]
After(now, last, s, n, d, c) ==
  \/ now[d][c] = last[d][c]
  \/ \E i \in 1 .. n : s[i].of = d /\ now[d][c] = s[i].n

LEMMA RestIs ==
  ASSUME NEW s \in Seq(Packet), NEW n \in 0 .. Len(s)
  PROVE  SubSeq(s, n + 1, Len(s)) \in Seq(Packet) /\ Rest(SubSeq(s, n + 1, Len(s)), s, n)
<1>1. PICK len \in Nat : len = Len(s)
  OBVIOUS
<1>2. n + 1 \in Int /\ len \in Int /\ \A i \in n + 1 .. len : s[i] \in Packet
  BY <1>1
<1>3. PICK t : t = SubSeq(s, n + 1, len)
  OBVIOUS
<1>4. /\ t \in Seq(Packet) /\ Len(t) = IF n + 1 <= len THEN len - (n + 1) + 1 ELSE 0
      /\ \A i \in 1 .. len - (n + 1) + 1 : t[i] = s[n + 1 + i - 1]
  BY <1>1, <1>3, SubSeqProperties
<1>5. Len(t) = len - n
  BY <1>1, <1>4
<1>6. ASSUME NEW i \in 1 .. len - n PROVE n + i \in 1 .. len /\ t[i] = s[n + i]
  <2>1. n + 1 + i - 1 = n + i /\ i \in 1 .. len - (n + 1) + 1
    OBVIOUS
  <2>2. t[i] = s[n + 1 + i - 1]
    BY <1>4, <2>1
  <2>3. n + i \in 1 .. len
    BY <1>1
  <2> QED
    BY <2>1, <2>2, <2>3
<1> QED
  BY <1>1, <1>3, <1>4, <1>5, <1>6 DEF Rest

\* Packets leave at the front: what is now the newest is what was, or one of them.
LEMMA LineDrop ==
  ASSUME NEW s \in Seq(Packet), NEW last, NEW c, NEW D, NEW top, Line(s, last, c, D, top),
         NEW n \in 0 .. Len(s), NEW now,
         \A d \in D : After(now, last, s, n, d, c), NEW t \in Seq(Packet), Rest(t, s, n)
  PROVE  Line(t, now, c, D, top)
<1>1. Len(s) \in Nat
  OBVIOUS
<1> USE DEF Rest, After
<1> SUFFICES ASSUME NEW j \in 1 .. Len(t)
             PROVE  /\ t[j].of \in D /\ t[j].n <= top /\ (t[j].of = 0 => t[j].n = 0)
                    /\ now[t[j].of][c] <= t[j].n
                    /\ \A i \in 1 .. j - 1 : t[i].of = t[j].of => t[i].n <= t[j].n
  BY DEF Line
<1>2. n + j \in 1 .. Len(s) /\ t[j] = s[n + j]
  OBVIOUS
<1>3. /\ t[j].of \in D /\ t[j].n <= top /\ (t[j].of = 0 => t[j].n = 0)
      /\ last[t[j].of][c] <= t[j].n
      /\ \A i \in 1 .. (n + j) - 1 : s[i].of = t[j].of => s[i].n <= t[j].n
  <2>1. PICK m \in 1 .. Len(s) : m = n + j /\ s[m] = t[j]
    BY <1>2
  <2>2. /\ s[m].of \in D /\ s[m].n <= top /\ (s[m].of = 0 => s[m].n = 0) /\ last[s[m].of][c] <= s[m].n
        /\ \A i \in 1 .. m - 1 : s[i].of = s[m].of => s[i].n <= s[m].n
    BY DEF Line
  <2> QED
    BY <2>1, <2>2
<1>4. now[t[j].of][c] <= t[j].n
  <2>1. \A i \in 1 .. n : i \in 1 .. (n + j) - 1
    OBVIOUS
  <2> QED
    BY <1>3, <2>1
<1>5. ASSUME NEW i \in 1 .. j - 1, t[i].of = t[j].of PROVE t[i].n <= t[j].n
  <2>1. i \in 1 .. Len(t) /\ n + i \in 1 .. (n + j) - 1
    OBVIOUS
  <2> QED
    BY <1>3, <1>5, <2>1, SMTT(30)
<1> QED
  BY <1>3, <1>4, <1>5

LEMMA BehindDrop ==
  ASSUME NEW s \in Seq(Packet), NEW n \in 0 .. Len(s), NEW last, NEW now, NEW k, NEW c, NEW top,
         NEW w, Behind(w, s, last, k, c, top),
         After(now, last, s, n, k, c), NEW t \in Seq(Packet), Rest(t, s, n)
  PROVE  Behind(w, t, now, k, c, top)
<1> USE DEF Rest, After
<1> SUFFICES ASSUME NEW j \in 1 .. Len(w)
             PROVE  /\ w[j].of = k /\ w[j].n <= top /\ now[k][c] <= w[j].n
                    /\ \A i \in 1 .. j - 1 : w[i].n <= w[j].n
                    /\ \A i \in 1 .. Len(t) : t[i].of = k => t[i].n <= w[j].n
  BY DEF Behind
<1>1. /\ w[j].of = k /\ w[j].n <= top /\ last[k][c] <= w[j].n
      /\ \A i \in 1 .. j - 1 : w[i].n <= w[j].n
      /\ \A i \in 1 .. Len(s) : s[i].of = k => s[i].n <= w[j].n
  BY DEF Behind
<1>2. \A i \in 1 .. n : i \in 1 .. Len(s)
  OBVIOUS
<1>3. now[k][c] <= w[j].n
  BY <1>1, <1>2
<1> QED
  BY <1>1, <1>3

\* What a lane keeps when it loses its newest or its oldest packets is still in line.
LEMMA BehindPart ==
  ASSUME NEW w, NEW s, NEW last, NEW k, NEW c, NEW top, Behind(w, s, last, k, c, top), Len(w) \in Nat,
         NEW t, NEW n \in Nat, Len(t) \in Nat, n + Len(t) <= Len(w), \A i \in 1 .. Len(t) : t[i] = w[n + i]
  PROVE  Behind(t, s, last, k, c, top)
<1> SUFFICES ASSUME NEW j \in 1 .. Len(t)
             PROVE  /\ t[j].of = k /\ t[j].n <= top /\ last[k][c] <= t[j].n
                    /\ \A i \in 1 .. j - 1 : t[i].n <= t[j].n
                    /\ \A i \in 1 .. Len(s) : s[i].of = k => s[i].n <= t[j].n
  BY DEF Behind
<1>1. n + j \in 1 .. Len(w) /\ t[j] = w[n + j]
  OBVIOUS
<1>2. /\ t[j].of = k /\ t[j].n <= top /\ last[k][c] <= t[j].n
      /\ \A i \in 1 .. (n + j) - 1 : w[i].n <= t[j].n
      /\ \A i \in 1 .. Len(s) : s[i].of = k => s[i].n <= t[j].n
  BY <1>1 DEF Behind
<1>3. ASSUME NEW i \in 1 .. j - 1 PROVE t[i].n <= t[j].n
  <2>1. i \in 1 .. Len(t) /\ n + i \in 1 .. (n + j) - 1
    OBVIOUS
  <2> QED
    BY <1>2, <2>1
<1> QED
  BY <1>2, <1>3

\* Copies of a packet join the queue before the lane.
LEMMA BehindCopies ==
  ASSUME NEW w, NEW s \in Seq(Packet), NEW last, NEW k, NEW c, NEW top, Behind(w, s, last, k, c, top),
         NEW x, x.of = k => \A j \in 1 .. Len(w) : x.n <= w[j].n,
         NEW t, \A j \in 1 .. Len(t) : t[j] = IF j <= Len(s) THEN s[j] ELSE x, Len(t) \in Nat
  PROVE  Behind(w, t, last, k, c, top)
<1>1. Len(s) \in Nat
  OBVIOUS
<1>2. ASSUME NEW j \in 1 .. Len(w), NEW i \in 1 .. Len(t), t[i].of = k
      PROVE  t[i].n <= w[j].n
  <2>1. CASE i <= Len(s)
    <3>1. i \in 1 .. Len(s) /\ t[i] = s[i]
      BY <1>1, <2>1
    <3> QED
      BY <1>2, <3>1 DEF Behind
  <2>2. CASE i > Len(s)
    <3>1. t[i] = x
      BY <1>1, <2>2
    <3> QED
      BY <1>2, <3>1
  <2> QED
    BY <1>1, <2>1, <2>2
<1> QED
  BY <1>2 DEF Behind

-----------------------------------------------------------------------------
(* The parts of the invariant under the steps of the thread. *)

LEMMA Initially ==
  ASSUME Init
  PROVE  IInv
<1>1. PICK at \in [Sessions -> 0 .. NKeys] : Joined(at)
  BY DEF Init, QInit
<1>2. /\ hot = [s \in Sessions |-> [key |-> at[s], ident |-> 1]]
      /\ routes = [k \in Keys |-> {s \in Sessions : at[s] = k}]
      /\ queue = RebuildRings([c \in Class |-> 0], [k \in Keys |-> IdleLane(Cardinality(routes[k]))])
  BY <1>1 DEF Joined
<1>3. /\ udpTx = [c \in Class |-> <<>>] /\ udpFree = UDP_TX_SLOTS
      /\ tunTx = [c \in Class |-> <<>>] /\ tunFree = TUN_TX_SLOTS
      /\ pool = [allocated |-> 0, retained |-> 0] /\ down = 0 /\ up = 0
      /\ wireLast = [k \in 0 .. NKeys |-> [c \in Class |-> 0]]
      /\ tunLast = [s \in Sessions \union {0} |-> [c \in Class |-> 0]]
      /\ held = None /\ chan = <<>> /\ sender = [s \in Senders |-> None] /\ load \in Loads
  BY DEF Init, RestInit
<1>4. routes \in [Keys -> SUBSET Sessions] /\ hot \in [Sessions -> [key : 0 .. NKeys, ident : Nat]]
  BY <1>2
<1>5. PICK lanes : lanes = [k \in Keys |-> IdleLane(Cardinality(routes[k]))]
  OBVIOUS
<1>6. ASSUME NEW k \in Keys
      PROVE  /\ lanes[k] \in Lane /\ lanes[k].paths = Min({Cardinality(routes[k]), MaxPaths})
             /\ \A c \in Class : /\ lanes[k].slots[c].pending = <<>>
                                 /\ lanes[k].slots[c].free + Len(lanes[k].slots[c].pending) =
                                      profile_for_active_paths(lanes[k].paths)[c]
  <2>1. PICK n \in Nat : n = Cardinality(routes[k])
    BY <1>4, RoutesAreCounted
  <2>2. PICK m \in Nat : m = Min({n, MaxPaths}) /\ profile_for_active_paths(m) = profile_for_active_paths(n)
    BY MinPaths
  <2>3. PICK slots : slots = [c \in Class |-> [free |-> profile_for_active_paths(n)[c], pending |-> <<>>]]
    OBVIOUS
  <2>4. lanes[k] = [paths |-> m, slots |-> slots]
    BY <1>5, <2>1, <2>2, <2>3 DEF IdleLane
  <2>5. ASSUME NEW c \in Class
        PROVE  /\ slots[c] \in Slot /\ slots[c].pending = <<>>
               /\ slots[c].free + Len(slots[c].pending) = profile_for_active_paths(m)[c]
    <3>1. PICK f \in Nat : f = profile_for_active_paths(n)[c]
      BY ProfileIsNat
    <3>2. slots[c] = [free |-> f, pending |-> <<>>]
      BY <2>3, <3>1
    <3>3. Len(<<>>) = 0 /\ f + 0 = f
      OBVIOUS
    <3> QED
      BY <2>2, <3>1, <3>2, <3>3 DEF Slot
  <2>6. slots \in [Class -> Slot]
    BY <2>3, <2>5
  <2>7. lanes[k] \in Lane /\ lanes[k].paths = m /\ lanes[k].slots = slots
    BY <2>4, <2>6 DEF Lane
  <2>8. m = Min({Cardinality(routes[k]), MaxPaths})
    BY <2>1, <2>2
  <2> QED
    BY <2>5, <2>7, <2>8
<1>7. lanes \in [Keys -> Lane]
  BY <1>5, <1>6
<1>8. [c \in Class |-> 0] \in [Class -> Nat]
  OBVIOUS
<1>9. queue \in Queue /\ queue.lanes = lanes
  BY <1>2, <1>5, <1>7, <1>8, RebuildIs
<1>10. \A k \in Keys, c \in Class : SlotsOf(queue, k, c) = lanes[k].slots[c]
  BY <1>9 DEF SlotsOf
<1>11. LaneInv
  BY <1>4, <1>6, <1>9, <1>10 DEF LaneInv, Lanes, Sized
<1>12. CommandInv
  <2>1. None \in Sendable /\ <<>> \in Seq(Sendable)
    BY DEF Sendable
  <2> QED
    BY <1>3, <2>1 DEF CommandInv
<1>13. BufferInv
  <2>1. udpTx \in Tx /\ tunTx \in Tx
    BY <1>3 DEF Tx
  <2>2. Slots(udpTx) = 0 /\ Slots(tunTx) = 0
    <3>1. Len(<<>>) = 0
      OBVIOUS
    <3> QED
      BY <1>3, <3>1 DEF Slots, Class
  <2>3. pool \in [allocated : Nat, retained : Nat] /\ pool.allocated = 0 /\ pool.retained = 0
    BY <1>3
  <2>4. RETAINED_MAX \in Nat /\ UDP_TX_SLOTS \in Nat /\ TUN_TX_SLOTS \in Nat
    BY LoopAssumption DEF PoolCapacity
  <2> QED
    BY <1>3, <2>1, <2>2, <2>3, <2>4 DEF BufferInv, Buffers
<1>14. Len(<<>>) = 0
  OBVIOUS
<1>15. Newer(wireLast, Ends, down) /\ Newer(tunLast, Peers, up) /\ down \in Nat /\ up \in Nat
  <2>1. 0 \in 0 .. NKeys
    BY QueueAssumption
  <2> QED
    BY <1>3, <2>1 DEF Newer, Ends, Peers
<1>16. DownInv
  <2>1. \A c \in Class : udpTx[c] = <<>> /\ \A k \in Keys : SlotsOf(queue, k, c).pending = <<>>
    <3>1. \A c \in Class : udpTx[c] = <<>>
      BY <1>3
    <3>2. \A c \in Class, k \in Keys : lanes[k].slots[c].pending = <<>>
      BY <1>6
    <3>3. \A c \in Class, k \in Keys : SlotsOf(queue, k, c).pending = <<>>
      BY <1>10, <3>2
    <3> QED
      BY <3>1, <3>3
  <2>2. ASSUME NEW c \in Class PROVE Line(udpTx[c], wireLast, c, Ends, down)
    BY <1>14, <2>1 DEF Line
  <2>3. ASSUME NEW c \in Class, NEW k \in Keys
        PROVE  Behind(SlotsOf(queue, k, c).pending, udpTx[c], wireLast, k, c, down)
    BY <1>14, <2>1 DEF Behind
  <2> QED
    BY <1>15, <2>2, <2>3 DEF DownInv, DownOrder
<1>17. UpInv
  <2>1. \A c \in Class : tunTx[c] = <<>>
    BY <1>3
  <2> QED
    BY <1>14, <1>15, <2>1 DEF UpInv, UpOrder, Line
<1> QED
  BY <1>11, <1>12, <1>13, <1>16, <1>17 DEF IInv

\* A step that touches neither lanes nor slots.
LEMMA QuietKeeps ==
  ASSUME IInv, UNCHANGED <<qvars, udpVars, tunVars, pool, down, up>>
  PROVE  LaneInv' /\ BufferInv' /\ DownInv' /\ UpInv'
<1>1. /\ hot' = hot /\ routes' = routes /\ queue' = queue /\ udpTx' = udpTx /\ udpFree' = udpFree
      /\ wireLast' = wireLast /\ tunTx' = tunTx /\ tunFree' = tunFree /\ tunLast' = tunLast
      /\ pool' = pool /\ down' = down /\ up' = up
  BY DEF qvars, udpVars, tunVars
<1> QED
  BY <1>1 DEF IInv, LaneInv, BufferInv, DownInv, UpInv

\* A lane that keeps the older part of what it holds stays in line.
LEMMA DownKeeps ==
  ASSUME queue \in Queue, queue' \in Queue, DownInv, Keeps(queue', queue), UNCHANGED <<udpTx, wireLast, down>>
  PROVE  DownInv'
<1>1. ASSUME NEW c \in Class, NEW k \in Keys
      PROVE  Behind(SlotsOf(queue', k, c).pending, udpTx[c], wireLast, k, c, down)
  <2>1. PICK w : w = SlotsOf(queue, k, c).pending
    OBVIOUS
  <2>2. PICK t : t = SlotsOf(queue', k, c).pending
    OBVIOUS
  <2>3. Len(w) \in Nat /\ Len(t) \in Nat
    BY <2>1, <2>2, SlotTypes
  <2>4. Len(t) <= Len(w) /\ \A i \in 1 .. Len(t) : t[i] = w[i]
    BY <2>1, <2>2 DEF Keeps
  <2>5. Behind(w, udpTx[c], wireLast, k, c, down)
    BY <2>1 DEF DownInv, DownOrder
  <2>6. 0 + Len(t) <= Len(w) /\ \A i \in 1 .. Len(t) : t[i] = w[0 + i]
    BY <2>3, <2>4
  <2>7. Behind(t, udpTx[c], wireLast, k, c, down)
    BY <2>3, <2>5, <2>6, BehindPart
  <2> QED
    BY <2>2, <2>7
<1> QED
  BY <1>1 DEF DownInv, DownOrder

\* A command of the engine: commands and packets outside the lanes are left alone.
LEMMA EngineKeeps ==
  ASSUME IInv, LaneInv', Keeps(queue', queue), UNCHANGED <<udpVars, tunVars, pool, down, up>>
  PROVE  BufferInv' /\ DownInv' /\ UpInv'
<1>1. /\ udpTx' = udpTx /\ udpFree' = udpFree
      /\ wireLast' = wireLast /\ tunTx' = tunTx /\ tunFree' = tunFree /\ tunLast' = tunLast
      /\ pool' = pool /\ down' = down /\ up' = up
  BY DEF udpVars, tunVars
<1>2. queue \in Queue /\ queue' \in Queue
  BY DEF IInv, LaneInv, Lanes
<1>3. DownInv'
  BY <1>1, <1>2, DownKeeps DEF IInv
<1> QED
  BY <1>1, <1>3 DEF IInv, BufferInv, UpInv

\* send_udp_with_duplicate_priority takes slots and buffers for the packet and its copies.
LEMMA SendUdpIs ==
  ASSUME BufferInv, CanSend, NEW x \in Packet, NEW c \in Class, NEW extra \in Nat, SendUdp(x, c, extra)
  PROVE  /\ Buffers(udpTx', udpFree', tunTx, tunFree, pool') /\ wireLast' = wireLast
         /\ \A d \in Class : d # c => udpTx'[d] = udpTx[d]
         /\ udpTx'[c] \in Seq(Packet)
         /\ \E n \in Nat : Len(udpTx'[c]) = Len(udpTx[c]) + n
         /\ \A j \in 1 .. Len(udpTx'[c]) :
              udpTx'[c][j] = IF j <= Len(udpTx[c]) THEN udpTx[c][j] ELSE x
<1>1. Buffers(udpTx, udpFree, tunTx, tunFree, pool) /\ udpTx \in Tx /\ udpFree \in Nat
  BY BufferFacts DEF BufferInv
<1>2. PICK n \in Nat : n = 1 + Copies(extra) /\ n <= udpFree
  BY CopiesFit
<1>3. udpTx[c] \in Seq(Packet)
  BY <1>1 DEF Tx
<1>4. PICK t : t = udpTx[c] \o [i \in 1 .. n |-> x]
  OBVIOUS
<1>5. /\ t \in Seq(Packet) /\ Len(t) = Len(udpTx[c]) + n
      /\ \A j \in 1 .. Len(t) : t[j] = IF j <= Len(udpTx[c]) THEN udpTx[c][j] ELSE x
  BY <1>3, <1>4, CopiesAre
<1>6. /\ udpTx' = [udpTx EXCEPT ![c] = t] /\ udpFree' = udpFree - n
      /\ pool' = Acquire(pool, n) /\ wireLast' = wireLast
  BY <1>2, <1>4 DEF SendUdp
<1>7. Buffers(udpTx', udpFree', tunTx, tunFree, pool')
  BY <1>1, <1>2, <1>5, <1>6, TakeUdp
<1>8. udpTx'[c] = t /\ \A d \in Class : d # c => udpTx'[d] = udpTx[d]
  BY <1>1, <1>6 DEF Tx
<1> QED
  BY <1>5, <1>6, <1>7, <1>8

\* The server's own packets are not numbered and are always in line.
LEMMA SayKeeps ==
  ASSUME BufferInv, DownInv, Say, UNCHANGED <<tunTx, tunFree, queue, down>>
  PROVE  BufferInv' /\ DownInv'
<1>1. CASE CanSend
  <2>1. PICK x \in Packet : x = [of |-> 0, n |-> 0]
    BY DEF Packet
  <2>2. x.of = 0 /\ x.n = 0
    BY <2>1
  <2>3. "bulk" \in Class /\ FEC_EXTRA_COPIES \in Nat
    BY DEF Class, FEC_EXTRA_COPIES
  <2>4. SendUdp(x, "bulk", FEC_EXTRA_COPIES)
    BY <1>1, <2>1 DEF Say
  <2>5. PICK t \in Seq(Packet), n \in Nat :
          /\ Buffers(udpTx', udpFree', tunTx, tunFree, pool') /\ wireLast' = wireLast
          /\ \A d \in Class : d # "bulk" => udpTx'[d] = udpTx[d]
          /\ udpTx'["bulk"] = t /\ Len(t) = Len(udpTx["bulk"]) + n
          /\ \A j \in 1 .. Len(t) : t[j] = IF j <= Len(udpTx["bulk"]) THEN udpTx["bulk"][j] ELSE x
    BY <1>1, <2>3, <2>4, SendUdpIs
  <2>6. udpTx["bulk"] \in Seq(Packet)
    BY <2>3 DEF BufferInv, Buffers, Tx
  <2>7. down \in Nat /\ Newer(wireLast, Ends, down) /\ Line(udpTx["bulk"], wireLast, "bulk", Ends, down)
    BY <2>3 DEF DownInv, DownOrder
  <2>8. 0 \in Ends /\ wireLast[0]["bulk"] = 0
    <3>1. 0 \in Ends
      BY QueueAssumption DEF Ends
    <3> QED
      BY <2>3, <2>7, <3>1 DEF Newer
  <2>9. \A i \in 1 .. Len(udpTx["bulk"]) : udpTx["bulk"][i].of = x.of => udpTx["bulk"][i].n <= x.n
    BY <2>2, <2>7 DEF Line
  <2>10. x.of \in Ends /\ x.n <= down /\ wireLast[x.of]["bulk"] <= x.n
    BY <2>2, <2>7, <2>8
  <2>11. Line(t, wireLast, "bulk", Ends, down)
    BY <2>2, <2>5, <2>6, <2>7, <2>9, <2>10, LineCopies
  <2>12. ASSUME NEW k \in Keys
         PROVE  Behind(SlotsOf(queue, k, "bulk").pending, t, wireLast, k, "bulk", down)
    <3>1. Behind(SlotsOf(queue, k, "bulk").pending, udpTx["bulk"], wireLast, k, "bulk", down)
      BY <2>3 DEF DownInv, DownOrder
    <3>2. x.of # k
      BY <2>2 DEF Keys
    <3>3. Len(t) \in Nat
      OBVIOUS
    <3> QED
      BY <2>5, <2>6, <3>1, <3>2, <3>3, BehindCopies
  <2>13. ASSUME NEW c \in Class
         PROVE  /\ Line(udpTx'[c], wireLast, c, Ends, down)
                /\ \A k \in Keys : Behind(SlotsOf(queue, k, c).pending, udpTx'[c], wireLast, k, c, down)
    <3>1. CASE c = "bulk"
      BY <2>5, <2>11, <2>12, <3>1
    <3>2. CASE c # "bulk"
      BY <2>5, <3>2 DEF DownInv, DownOrder
    <3> QED
      BY <3>1, <3>2
  <2> QED
    BY <2>5, <2>7, <2>13 DEF BufferInv, DownInv, DownOrder
<1>2. CASE ~CanSend
  <2>1. udpTx' = udpTx /\ udpFree' = udpFree /\ wireLast' = wireLast /\ pool' = pool
    BY <1>2 DEF Say, udpVars
  <2> QED
    BY <2>1 DEF BufferInv, DownInv
<1> QED
  BY <1>1, <1>2

\* A packet of the TUN device is newer than everything before it.
LEMMA TunPacketKeeps ==
  ASSUME IInv, NEW k \in Keys, NEW c \in Class, TunPacket(k, c)
  PROVE  IInv'
<1>1. /\ down' = down + 1 /\ queue' = Enqueue(queue, k, c, [of |-> k, n |-> down + 1])
      /\ UNCHANGED <<hot, routes, chanVars, ioVars, up, load>>
  BY DEF TunPacket, HandleTunPacket
<1>2. queue \in Queue /\ Sized(queue) /\ down \in Nat
  BY DEF IInv, LaneInv, Lanes, DownInv, DownOrder
<1>3. PICK x \in Packet : x = [of |-> k, n |-> down + 1]
  <2>1. k \in Nat /\ down + 1 \in Nat
    BY <1>2 DEF Keys
  <2> QED
    BY <2>1 DEF Packet
<1>4. x.of = k /\ x.n = down + 1
  BY <1>3
<1>5. \/ queue' = queue
      \/ /\ queue' \in Queue /\ Sized(queue')
         /\ \A j \in Keys : queue'.lanes[j].paths = queue.lanes[j].paths
         /\ SlotsOf(queue', k, c).pending = Append(SlotsOf(queue, k, c).pending, x)
         /\ \A j \in Keys, d \in Class : j # k \/ d # c => SlotsOf(queue', j, d) = SlotsOf(queue, j, d)
  BY <1>1, <1>2, <1>3, EnqueueIs
<1>6. /\ udpTx' = udpTx /\ udpFree' = udpFree /\ wireLast' = wireLast
      /\ tunTx' = tunTx /\ tunFree' = tunFree /\ tunLast' = tunLast /\ pool' = pool
      /\ held' = held /\ chan' = chan /\ sender' = sender
      /\ up' = up /\ load' = load /\ hot' = hot /\ routes' = routes
  BY <1>1 DEF ioVars, udpVars, tunVars, chanVars
<1>7. BufferInv' /\ UpInv' /\ CommandInv'
  BY <1>6 DEF IInv, BufferInv, UpInv, CommandInv
<1>8. LaneInv'
  BY <1>5, <1>6 DEF IInv, LaneInv, Lanes
<1>9. down + 1 \in Nat /\ down <= down + 1
  BY <1>2
<1>10. Newer(wireLast, Ends, down + 1)
  BY <1>2, <1>9, NewerRaise DEF IInv, DownInv, DownOrder
<1>11. \A d \in Class : udpTx[d] \in Seq(Packet)
  BY DEF IInv, BufferInv, Buffers, Tx
<1>12. ASSUME NEW d \in Class PROVE Line(udpTx[d], wireLast, d, Ends, down + 1)
  BY <1>2, <1>9, <1>11, LineRaise DEF IInv, DownInv, DownOrder
<1>13. ASSUME NEW d \in Class, NEW j \in Keys
       PROVE  Behind(SlotsOf(queue', j, d).pending, udpTx[d], wireLast, j, d, down + 1)
  <2>1. PICK w \in Seq(Packet) : w = SlotsOf(queue, j, d).pending
    BY <1>2, SlotTypes
  <2>2. Behind(w, udpTx[d], wireLast, j, d, down)
    BY <2>1 DEF IInv, DownInv, DownOrder
  <2>3. Behind(w, udpTx[d], wireLast, j, d, down + 1)
    BY <1>2, <1>9, <2>2, BehindRaise
  <2>4. CASE SlotsOf(queue', j, d).pending = w
    BY <2>3, <2>4
  <2>5. CASE j = k /\ d = c /\ SlotsOf(queue', j, d).pending = Append(w, x)
    <3>1. PICK t : t = Append(w, x)
      OBVIOUS
    <3>2. PICK len \in Nat : len = Len(w)
      OBVIOUS
    <3>3. Len(t) = len + 1 /\ t[len + 1] = x /\ \A i \in 1 .. len : t[i] = w[i]
      BY <3>1, <3>2
    <3>4. ASSUME NEW m \in 1 .. Len(t)
          PROVE  /\ t[m].of = j /\ t[m].n <= down + 1 /\ wireLast[j][d] <= t[m].n
                 /\ \A i \in 1 .. m - 1 : t[i].n <= t[m].n
                 /\ \A i \in 1 .. Len(udpTx[d]) : udpTx[d][i].of = j => udpTx[d][i].n <= t[m].n
      <4>1. CASE m <= len
        <5>1. t[m] = w[m] /\ m \in 1 .. Len(w) /\ \A i \in 1 .. m - 1 : t[i] = w[i]
          BY <3>2, <3>3, <4>1
        <5> QED
          BY <2>3, <5>1 DEF Behind
      <4>2. CASE m > len
        <5>1. m = len + 1 /\ t[m] = x
          BY <3>2, <3>3, <4>2
        <5>2. t[m].of = j /\ t[m].n = down + 1
          BY <1>4, <2>5, <5>1
        <5>3. wireLast[j][d] <= down + 1
          <6>1. j \in Ends
            BY DEF Keys, Ends
          <6> QED
            BY <1>10, <6>1 DEF Newer
        <5>4. ASSUME NEW i \in 1 .. m - 1 PROVE t[i].n <= down + 1
          BY <2>3, <3>2, <3>3, <5>1 DEF Behind
        <5>5. \A i \in 1 .. Len(udpTx[d]) : udpTx[d][i].n <= down + 1
          BY <1>12 DEF Line
        <5> QED
          BY <1>2, <5>2, <5>3, <5>4, <5>5
      <4> QED
        BY <3>2, <3>3, <4>1, <4>2
    <3>5. Behind(t, udpTx[d], wireLast, j, d, down + 1)
      BY <3>4 DEF Behind
    <3> QED
      BY <2>5, <3>1, <3>5
  <2> QED
    BY <1>5, <2>1, <2>4, <2>5
<1>14. DownInv'
  BY <1>1, <1>6, <1>9, <1>10, <1>12, <1>13 DEF DownInv, DownOrder
<1> QED
  BY <1>7, <1>8, <1>14 DEF IInv

\* The drain takes the oldest packet of a lane: it is behind all that was taken before.
LEMMA DrainKeeps ==
  ASSUME IInv, NEW c \in Class, NEW i \in Found(queue, c), NEW extra \in Nat, Drain(c, i, extra)
  PROVE  IInv'
<1>1. PICK k : k = Turn(queue, c, i)
  OBVIOUS
<1>2. queue \in Queue /\ Sized(queue) /\ down \in Nat
  BY DEF IInv, LaneInv, Lanes, DownInv, DownOrder
<1>3. k \in Keys /\ SlotsOf(queue, k, c).pending # <<>>
  BY <1>1, <1>2, TurnIs
<1>4. PICK w \in Seq(Packet) : w = SlotsOf(queue, k, c).pending
  BY <1>2, <1>3, SlotTypes
<1>5. /\ hot' = hot /\ routes' = routes /\ held' = held /\ chan' = chan /\ sender' = sender
      /\ tunTx' = tunTx /\ tunFree' = tunFree /\ tunLast' = tunLast
      /\ down' = down /\ up' = up /\ load' = load
  BY DEF Drain, chanVars, tunVars, inVars
<1>6. UpInv' /\ CommandInv'
  BY <1>5 DEF IInv, UpInv, CommandInv
<1>7. PICK r \in Queue :
        /\ r = Recycle(Dequeue(queue, c, i), k, c) /\ Sized(r)
        /\ \A j \in Keys : r.lanes[j].paths = queue.lanes[j].paths
        /\ SlotsOf(r, k, c).pending = Tail(w)
        /\ \A j \in Keys, d \in Class : j # k \/ d # c => SlotsOf(r, j, d) = SlotsOf(queue, j, d)
  BY <1>1, <1>2, <1>4, RecycleIs
<1>8. w # <<>> /\ Head(w) = w[1] /\ Head(w) \in Packet
  BY <1>3, <1>4
<1>9. /\ Tail(w) \in Seq(Packet) /\ Len(Tail(w)) = Len(w) - 1 /\ Len(w) \in Nat
      /\ \A m \in 1 .. Len(Tail(w)) : Tail(w)[m] = w[1 + m]
  BY <1>8
<1>10. ASSUME NEW s, NEW last, Behind(w, s, last, k, c, down)
       PROVE  Behind(Tail(w), s, last, k, c, down)
  <2>1. Len(Tail(w)) \in Nat /\ 1 + Len(Tail(w)) <= Len(w)
    BY <1>9
  <2> QED
    BY <1>9, <1>10, <2>1, BehindPart
<1>11. CASE /\ queue' = r
            /\ UNCHANGED <<udpVars, pool>>
  <2>1. udpTx' = udpTx /\ udpFree' = udpFree /\ wireLast' = wireLast /\ pool' = pool
    BY <1>11 DEF udpVars
  <2>2. BufferInv' /\ LaneInv'
    BY <1>5, <1>7, <1>11, <2>1 DEF IInv, BufferInv, LaneInv, Lanes
  <2>3. ASSUME NEW d \in Class, NEW j \in Keys
        PROVE  Behind(SlotsOf(r, j, d).pending, udpTx[d], wireLast, j, d, down)
    <3>1. Behind(SlotsOf(queue, j, d).pending, udpTx[d], wireLast, j, d, down)
      BY DEF IInv, DownInv, DownOrder
    <3>2. CASE j = k /\ d = c
      BY <1>4, <1>7, <1>10, <3>1, <3>2
    <3>3. CASE j # k \/ d # c
      BY <1>7, <3>1, <3>3
    <3> QED
      BY <3>2, <3>3
  <2>4. DownInv'
    BY <1>5, <1>11, <2>1, <2>3 DEF IInv, DownInv, DownOrder
  <2> QED
    BY <1>6, <2>2, <2>4 DEF IInv
<1>12. CASE /\ CanSend /\ SendUdp(Head(w), c, extra)
            /\ queue' = r
  <2>1. PICK x \in Packet : x = Head(w)
    BY <1>8
  <2>2. PICK t \in Seq(Packet), n \in Nat :
          /\ Buffers(udpTx', udpFree', tunTx, tunFree, pool') /\ wireLast' = wireLast
          /\ \A d \in Class : d # c => udpTx'[d] = udpTx[d]
          /\ udpTx'[c] = t /\ Len(t) = Len(udpTx[c]) + n
          /\ \A j \in 1 .. Len(t) : t[j] = IF j <= Len(udpTx[c]) THEN udpTx[c][j] ELSE x
    <3>1. SendUdp(x, c, extra) /\ CanSend /\ BufferInv
      BY <1>12, <2>1 DEF IInv
    <3> QED
      BY <3>1, SendUdpIs
  <2>3. BufferInv' /\ LaneInv'
    BY <1>5, <1>7, <1>12, <2>2 DEF IInv, BufferInv, LaneInv, Lanes
  <2>4. udpTx[c] \in Seq(Packet)
    BY DEF IInv, BufferInv, Buffers, Tx
  <2>5. Line(udpTx[c], wireLast, c, Ends, down) /\ Behind(w, udpTx[c], wireLast, k, c, down)
    BY <1>3, <1>4 DEF IInv, DownInv, DownOrder
  <2>6. /\ x.of = k /\ x.n <= down /\ wireLast[k][c] <= x.n
        /\ \A m \in 1 .. Len(udpTx[c]) : udpTx[c][m].of = k => udpTx[c][m].n <= x.n
    <3>1. 1 \in 1 .. Len(w) /\ x = w[1]
      BY <1>8, <1>9, <2>1
    <3> QED
      BY <2>5, <3>1 DEF Behind
  <2>7. x.of \in Ends /\ x.of # 0
    BY <1>3, <2>6 DEF Keys, Ends
  <2>8. Line(t, wireLast, c, Ends, down)
    <3>1. wireLast[x.of][c] <= x.n /\ (x.of = 0 => x.n = 0)
      BY <2>6, <2>7
    <3>2. \A m \in 1 .. Len(udpTx[c]) : udpTx[c][m].of = x.of => udpTx[c][m].n <= x.n
      BY <2>6
    <3> QED
      BY <2>2, <2>4, <2>5, <2>6, <2>7, <3>1, <3>2, LineCopies
  <2>9. ASSUME NEW j \in Keys
        PROVE  Behind(SlotsOf(r, j, c).pending, t, wireLast, j, c, down)
    <3>1. PICK v : v = SlotsOf(r, j, c).pending
      OBVIOUS
    <3>2. Behind(v, udpTx[c], wireLast, j, c, down)
      <4>1. CASE j = k
        BY <1>7, <1>10, <2>5, <3>1, <4>1
      <4>2. CASE j # k
        BY <1>7, <3>1, <4>2 DEF IInv, DownInv, DownOrder
      <4> QED
        BY <4>1, <4>2
    <3>3. x.of = j => \A m \in 1 .. Len(v) : x.n <= v[m].n
      <4> SUFFICES ASSUME x.of = j, NEW m \in 1 .. Len(v) PROVE x.n <= v[m].n
        OBVIOUS
      <4>1. j = k
        BY <2>6
      <4>2. v[m] = w[1 + m] /\ 1 + m \in 1 .. Len(w) /\ 1 \in 1 .. (1 + m) - 1
        <5>1. v = Tail(w)
          BY <1>7, <3>1, <4>1
        <5>2. m \in 1 .. Len(w) - 1
          BY <1>9, <5>1
        <5>3. v[m] = w[1 + m]
          BY <1>9, <5>1
        <5>4. 1 + m \in 1 .. Len(w) /\ 1 \in 1 .. (1 + m) - 1
          BY <1>9, <5>2
        <5> QED
          BY <5>3, <5>4
      <4>3. w[1].n <= w[1 + m].n
        BY <2>5, <4>2 DEF Behind
      <4> QED
        BY <1>8, <2>1, <4>2, <4>3
    <3>4. Len(t) \in Nat
      OBVIOUS
    <3>5. Behind(v, t, wireLast, j, c, down)
      BY <2>2, <2>4, <3>2, <3>3, <3>4, BehindCopies
    <3> QED
      BY <3>1, <3>5
  <2>10. ASSUME NEW d \in Class
         PROVE  /\ Line(udpTx'[d], wireLast, d, Ends, down)
                /\ \A j \in Keys : Behind(SlotsOf(r, j, d).pending, udpTx'[d], wireLast, j, d, down)
    <3>1. CASE d = c
      BY <2>2, <2>8, <2>9, <3>1
    <3>2. CASE d # c
      <4>1. udpTx'[d] = udpTx[d] /\ \A j \in Keys : SlotsOf(r, j, d) = SlotsOf(queue, j, d)
        BY <1>7, <2>2, <3>2
      <4>2. DownOrder(udpTx, queue, wireLast, down)
        BY DEF IInv, DownInv
      <4>3. Line(udpTx[d], wireLast, d, Ends, down)
        BY <4>2 DEF DownOrder
      <4>4. \A j \in Keys : Behind(SlotsOf(queue, j, d).pending, udpTx[d], wireLast, j, d, down)
        BY <4>2 DEF DownOrder
      <4> QED
        BY <4>1, <4>3, <4>4
    <3> QED
      BY <3>1, <3>2
  <2>11. DownInv'
    BY <1>5, <1>12, <2>2, <2>10 DEF IInv, DownInv, DownOrder
  <2> QED
    BY <1>6, <2>3, <2>11 DEF IInv
<1>13. CASE /\ queue' = RequeueFront(Dequeue(queue, c, i), k, c, Head(w))
            /\ UNCHANGED <<udpVars, pool>>
  <2>1. udpTx' = udpTx /\ udpFree' = udpFree /\ wireLast' = wireLast /\ pool' = pool
    BY <1>13 DEF udpVars
  <2>2. /\ queue' \in Queue /\ Sized(queue')
        /\ \A j \in Keys : queue'.lanes[j].paths = queue.lanes[j].paths
        /\ \A j \in Keys, d \in Class : SlotsOf(queue', j, d).pending = SlotsOf(queue, j, d).pending
    BY <1>1, <1>2, <1>4, <1>13, RequeueIs
  <2>3. BufferInv' /\ LaneInv'
    BY <1>5, <2>1, <2>2 DEF IInv, BufferInv, LaneInv, Lanes
  <2>4. DownInv'
    BY <1>5, <2>1, <2>2 DEF IInv, DownInv, DownOrder
  <2> QED
    BY <1>6, <2>3, <2>4 DEF IInv
<1>14. w = queue.lanes[Turn(queue, c, i)].slots[c].pending
  BY <1>1, <1>4 DEF SlotsOf
<1> QED
  BY <1>1, <1>7, <1>11, <1>12, <1>13, <1>14 DEF Drain

-----------------------------------------------------------------------------
(* Datagrams leave. *)

\* Packets of one class have left, and now says which of each destination was the last.
LEMMA PoppedKeeps ==
  ASSUME IInv, NEW c \in Class, NEW n \in 1 .. Len(udpTx[c]),
         udpTx' = [udpTx EXCEPT ![c] = SubSeq(@, n + 1, Len(@))],
         udpFree' = udpFree + n, pool' = Release(pool, n),
         wireLast' \in [Ends -> [Class -> Nat]],
         \A d \in Ends, e \in Class : e # c => wireLast'[d][e] = wireLast[d][e],
         \A d \in Ends : After(wireLast', wireLast, udpTx[c], n, d, c),
         UNCHANGED <<queue, down, tunTx, tunFree>>
  PROVE  BufferInv' /\ DownInv'
<1>1. Buffers(udpTx, udpFree, tunTx, tunFree, pool) /\ udpTx \in Tx
  BY DEF IInv, BufferInv, Buffers
<1>2. PICK s \in Seq(Packet) : s = udpTx[c]
  BY <1>1 DEF Tx
<1>3. n \in 0 .. Len(s) /\ n \in Nat /\ Len(s) \in Nat
  BY <1>2
<1>4. PICK t \in Seq(Packet) : t = SubSeq(s, n + 1, Len(s)) /\ Rest(t, s, n)
  BY <1>3, RestIs
<1>5. udpTx' = [udpTx EXCEPT ![c] = t]
  BY <1>2, <1>4
<1>6. Len(t) + n = Len(udpTx[c])
  BY <1>2, <1>3, <1>4 DEF Rest
<1>7. BufferInv'
  <2>1. Buffers([udpTx EXCEPT ![c] = t], udpFree + n, tunTx, tunFree, Release(pool, n))
    BY <1>1, <1>3, <1>6, LeaveUdp
  <2> QED
    BY <1>5, <2>1 DEF BufferInv
<1>8. udpTx'[c] = t /\ \A e \in Class : e # c => udpTx'[e] = udpTx[e]
  BY <1>1, <1>5 DEF Tx
<1>9. /\ down \in Nat /\ Newer(wireLast, Ends, down) /\ Line(s, wireLast, c, Ends, down)
      /\ \A k \in Keys : Behind(SlotsOf(queue, k, c).pending, s, wireLast, k, c, down)
  BY <1>2 DEF IInv, DownInv, DownOrder
<1>10. PICK now : now = wireLast'
  OBVIOUS
<1>11. \A d \in Ends : After(now, wireLast, s, n, d, c)
  BY <1>2, <1>10
<1>12. Newer(now, Ends, down)
  <2>1. \A i \in 1 .. n : i \in 1 .. Len(s)
    BY <1>3
  <2>2. ASSUME NEW d \in Ends, NEW e \in Class PROVE now[d][e] <= down
    <3>1. CASE now[d][e] = wireLast[d][e]
      BY <1>9, <3>1 DEF Newer
    <3>2. CASE e = c /\ \E i \in 1 .. n : s[i].of = d /\ now[d][c] = s[i].n
      BY <1>9, <2>1, <3>2 DEF Line
    <3> QED
      BY <1>10, <1>11, <3>1, <3>2 DEF After
  <2>3. ASSUME NEW e \in Class PROVE now[0][e] = 0
    <3>1. 0 \in Ends
      BY QueueAssumption DEF Ends
    <3>2. CASE now[0][e] = wireLast[0][e]
      BY <1>9, <3>2 DEF Newer
    <3>3. CASE e = c /\ \E i \in 1 .. n : s[i].of = 0 /\ now[0][c] = s[i].n
      BY <1>9, <2>1, <3>3 DEF Line
    <3> QED
      BY <1>10, <1>11, <3>1, <3>2, <3>3 DEF After
  <2> QED
    BY <1>10, <2>2, <2>3 DEF Newer
<1>13. Line(t, now, c, Ends, down)
  BY <1>3, <1>4, <1>9, <1>11, LineDrop
<1>14. ASSUME NEW k \in Keys
       PROVE  Behind(SlotsOf(queue, k, c).pending, t, now, k, c, down)
  <2>1. k \in Ends
    BY DEF Keys, Ends
  <2>2. Behind(SlotsOf(queue, k, c).pending, s, wireLast, k, c, down)
    BY <1>9
  <2>3. After(now, wireLast, s, n, k, c)
    BY <1>11, <2>1
  <2> QED
    BY <1>3, <1>4, <2>2, <2>3, BehindDrop
<1>15. ASSUME NEW e \in Class
       PROVE  /\ Line(udpTx'[e], wireLast', e, Ends, down)
              /\ \A k \in Keys : Behind(SlotsOf(queue, k, e).pending, udpTx'[e], wireLast', k, e, down)
  <2>1. CASE e = c
    BY <1>8, <1>10, <1>13, <1>14, <2>1
  <2>2. CASE e # c
    <3>1. udpTx'[e] = udpTx[e] /\ \A d \in Ends : wireLast'[d][e] = wireLast[d][e]
      BY <1>8, <2>2
    <3>2. Line(udpTx[e], wireLast, e, Ends, down)
      BY DEF IInv, DownInv, DownOrder
    <3>3. Line(udpTx[e], wireLast', e, Ends, down)
      BY <3>1, <3>2 DEF Line
    <3>4. ASSUME NEW k \in Keys
          PROVE  Behind(SlotsOf(queue, k, e).pending, udpTx[e], wireLast', k, e, down)
      <4>1. Behind(SlotsOf(queue, k, e).pending, udpTx[e], wireLast, k, e, down)
        BY DEF IInv, DownInv, DownOrder
      <4>2. wireLast'[k][e] = wireLast[k][e]
        BY <3>1 DEF Keys, Ends
      <4> QED
        BY <4>1, <4>2 DEF Behind
    <3> QED
      BY <3>1, <3>3, <3>4
  <2> QED
    BY <2>1, <2>2
<1> QED
  BY <1>7, <1>9, <1>10, <1>12, <1>15 DEF DownInv, DownOrder

LEMMA SendMmsgKeeps ==
  ASSUME IInv, SendMmsg, UNCHANGED <<queue, down, tunTx, tunFree>>
  PROVE  BufferInv' /\ DownInv'
<1>1. udpTx \in Tx /\ Pending(udpTx)
  BY DEF IInv, BufferInv, Buffers, SendMmsg
<1>2. PICK c \in Class : c = FirstClass(udpTx) /\ udpTx[c] # <<>>
  BY <1>1, FirstClassHas
<1>3. PICK s \in Seq(Packet) : s = udpTx[c]
  BY <1>1 DEF Tx
<1>4. PICK len \in Nat : len = Len(s) /\ len >= 1
  BY <1>2, <1>3
<1>5. wireLast \in [Ends -> [Class -> Nat]]
  BY DEF IInv, DownInv, DownOrder, Newer
<1>6. ASSUME NEW n \in 1 .. UDP_TX_SLOTS, SentUdp(n) PROVE BufferInv' /\ DownInv'
  <2>1. n \in 1 .. len
    <3>1. n \in 1 .. Min({Len(udpTx[c]), BatchLimit[c]})
      BY <1>2, <1>6 DEF SentUdp
    <3>2. BatchLimit[c] \in Int /\ len \in Int
      BY LoopAssumption
    <3>3. Min({len, BatchLimit[c]}) = IF len <= BatchLimit[c] THEN len ELSE BatchLimit[c]
      BY <3>2, MinOfTwo
    <3>4. PICK m : m = Min({len, BatchLimit[c]})
      OBVIOUS
    <3>5. n \in 1 .. m /\ m \in Int /\ m <= len
      BY <1>3, <1>4, <3>1, <3>2, <3>3, <3>4
    <3> QED
      BY <3>5
  <2>2. PICK gone : gone = SubSeq(udpTx[c], 1, n)
    OBVIOUS
  <2>3. \A i \in 1 .. n : gone[i] = s[i] /\ i \in 1 .. len
    BY <1>3, <1>4, <2>1, <2>2
  <2> DEFINE of(k) == {i \in 1 .. n : gone[i].of = k}
  <2>4. /\ udpTx' = [udpTx EXCEPT ![c] = SubSeq(@, n + 1, Len(@))]
        /\ udpFree' = udpFree + n /\ pool' = Release(pool, n)
    BY <1>2, <1>6 DEF SentUdp, PopUdp
  <2>5. wireLast' = [k \in 0 .. NKeys |-> IF of(k) = {} THEN wireLast[k]
                                          ELSE [wireLast[k] EXCEPT ![c] = gone[Max(of(k))].n]]
    BY <1>2, <1>6, <2>2 DEF SentUdp
  <2>6. ASSUME NEW d \in Ends
        PROVE  /\ wireLast'[d] \in [Class -> Nat]
               /\ \A e \in Class : e # c => wireLast'[d][e] = wireLast[d][e]
               /\ \/ wireLast'[d][c] = wireLast[d][c]
                  \/ \E i \in 1 .. n : udpTx[c][i].of = d /\ wireLast'[d][c] = udpTx[c][i].n
    <3>1. d \in 0 .. NKeys /\ wireLast[d] \in [Class -> Nat]
      BY <1>5 DEF Ends
    <3>2. CASE of(d) = {}
      <4>1. wireLast'[d] = wireLast[d]
        BY <2>5, <3>1, <3>2
      <4> QED
        BY <3>1, <4>1
    <3>3. CASE of(d) # {}
      <4>1. of(d) \subseteq 1 .. n /\ n \in Nat
        OBVIOUS
      <4>2. PICK m \in of(d) : m = Max(of(d))
        BY <3>3, <4>1, MaxIsMember
      <4>3. m \in 1 .. n /\ gone[m].of = d
        BY <4>2
      <4>4. gone[m] = s[m] /\ s[m].n \in Nat
        BY <1>4, <2>3, <4>3, PacketTypes
      <4>5. wireLast'[d] = [wireLast[d] EXCEPT ![c] = s[m].n]
        BY <2>5, <3>1, <3>3, <4>2, <4>4
      <4>6. /\ wireLast'[d] \in [Class -> Nat] /\ wireLast'[d][c] = s[m].n
            /\ \A e \in Class : e # c => wireLast'[d][e] = wireLast[d][e]
        BY <3>1, <4>4, <4>5
      <4> QED
        BY <1>3, <4>3, <4>4, <4>6
    <3> QED
      BY <3>2, <3>3
  <2> HIDE DEF of
  <2>7. wireLast' \in [Ends -> [Class -> Nat]]
    <3>1. PICK f : f = [k \in 0 .. NKeys |-> IF of(k) = {} THEN wireLast[k]
                                          ELSE [wireLast[k] EXCEPT ![c] = gone[Max(of(k))].n]]
      OBVIOUS
    <3>2. \A k \in Ends : f[k] \in [Class -> Nat]
      BY <2>5, <2>6, <3>1
    <3>3. f \in [Ends -> [Class -> Nat]]
      BY <3>1, <3>2 DEF Ends
    <3> QED
      BY <2>5, <3>1, <3>3
  <2>8. n \in 1 .. Len(udpTx[c])
    BY <1>3, <1>4, <2>1
  <2>9. \A d \in Ends, e \in Class : e # c => wireLast'[d][e] = wireLast[d][e]
    BY <2>6
  <2>10. \A d \in Ends : After(wireLast', wireLast, udpTx[c], n, d, c)
    BY <2>6 DEF After
  <2> QED
    BY <2>4, <2>7, <2>8, <2>9, <2>10, PoppedKeeps
<1>7. ASSUME RefusedUdp PROVE BufferInv' /\ DownInv'
  <2>1. /\ udpTx' = [udpTx EXCEPT ![c] = SubSeq(@, 1 + 1, Len(@))]
        /\ udpFree' = udpFree + 1 /\ pool' = Release(pool, 1) /\ wireLast' = wireLast
    BY <1>2, <1>7 DEF RefusedUdp, PopUdp
  <2>2. 1 \in 1 .. Len(udpTx[c])
    BY <1>3, <1>4
  <2>3. \A d \in Ends : After(wireLast', wireLast, udpTx[c], 1, d, c)
    BY <2>1 DEF After
  <2> QED
    BY <1>5, <2>1, <2>2, <2>3, PoppedKeeps
<1> QED
  BY <1>6, <1>7 DEF SendMmsg

-----------------------------------------------------------------------------
(* Packets to the TUN device. *)

LEMMA NewestIs ==
  ASSUME NEW D, NEW last \in [D -> [Class -> Nat]], NEW x \in Packet, x.of \in D, NEW c \in Class
  PROVE  /\ Newest(last, x, c) \in [D -> [Class -> Nat]] /\ Newest(last, x, c)[x.of][c] = x.n
         /\ \A d \in D, e \in Class : d # x.of \/ e # c => Newest(last, x, c)[d][e] = last[d][e]
<1>1. x.n \in Nat /\ last[x.of] \in [Class -> Nat]
  BY DEF Packet
<1>2. PICK f \in [Class -> Nat] : f = [last[x.of] EXCEPT ![c] = x.n]
  BY <1>1
<1>3. f[c] = x.n /\ \A e \in Class : e # c => f[e] = last[x.of][e]
  BY <1>1, <1>2
<1>4. Newest(last, x, c) = [last EXCEPT ![x.of] = f]
  BY <1>2 DEF Newest
<1> QED
  BY <1>3, <1>4

LEMMA NewerNewest ==
  ASSUME NEW D, NEW last, NEW top \in Nat, NEW more \in Nat, top <= more, Newer(last, D, top), 0 \in D,
         NEW x \in Packet, x.of \in D, x.n <= more, x.of = 0 => x.n = 0, NEW c \in Class
  PROVE  Newer(Newest(last, x, c), D, more)
<1>1. PICK now : now = Newest(last, x, c)
  OBVIOUS
<1>2. last \in [D -> [Class -> Nat]]
  BY DEF Newer
<1>3. /\ now \in [D -> [Class -> Nat]] /\ now[x.of][c] = x.n
      /\ \A d \in D, e \in Class : d # x.of \/ e # c => now[d][e] = last[d][e]
  BY <1>1, <1>2, NewestIs
<1>4. Newer(last, D, more)
  BY NewerRaise
<1>5. \A d \in D, e \in Class : now[d][e] <= more
  BY <1>3, <1>4 DEF Newer
<1>6. \A e \in Class : now[0][e] = 0
  BY <1>3, <1>4 DEF Newer
<1> QED
  BY <1>1, <1>3, <1>5, <1>6 DEF Newer

\* write_tun_priority: directly if nothing is pending, behind what is pending otherwise.
LEMMA WriteTunKeeps ==
  ASSUME IInv, NEW x \in Packet, x.of \in Peers, NEW c \in Class, up' \in Nat, up <= up',
         x.n <= up', (x.of = 0 /\ x.n = 0) \/ (x.of # 0 /\ up <= x.n),
         WriteTun(x, c), UNCHANGED <<udpTx, udpFree>>
  PROVE  BufferInv' /\ UpInv'
<1>1. PICK more \in Nat : more = up' /\ up <= more /\ x.n <= more
  OBVIOUS
<1>2. up \in Nat /\ Newer(tunLast, Peers, up) /\ \A d \in Class : Line(tunTx[d], tunLast, d, Peers, up)
  BY DEF IInv, UpInv, UpOrder
<1>3. 0 \in Peers /\ (x.of = 0 => x.n = 0)
  BY DEF Peers
<1>4. Buffers(udpTx, udpFree, tunTx, tunFree, pool) /\ tunTx \in Tx
  BY DEF IInv, BufferInv, Buffers
<1>5. \A d \in Class : tunTx[d] \in Seq(Packet)
  BY <1>4 DEF Tx
<1>6. Newer(tunLast, Peers, more)
  BY <1>1, <1>2, NewerRaise
<1>7. ASSUME NEW d \in Class PROVE Line(tunTx[d], tunLast, d, Peers, more)
  BY <1>1, <1>2, <1>5, LineRaise
<1>8. CASE TunIsIdle /\ tunLast' = Newest(tunLast, x, c) /\ UNCHANGED <<tunTx, tunFree, pool>>
  <2>1. BufferInv'
    BY <1>8 DEF IInv, BufferInv
  <2>2. Newer(Newest(tunLast, x, c), Peers, more)
    BY <1>1, <1>2, <1>3, NewerNewest
  <2>3. \A d \in Class : tunTx'[d] = <<>>
    BY <1>8 DEF TunIsIdle, Pending
  <2>4. Len(<<>>) = 0
    OBVIOUS
  <2>5. \A d \in Class : Line(tunTx'[d], tunLast', d, Peers, more)
    BY <2>3, <2>4 DEF Line
  <2> QED
    BY <1>1, <1>8, <2>1, <2>2, <2>5 DEF UpInv, UpOrder
<1>9. CASE UNCHANGED <<tunTx, tunFree, tunLast, pool>>
  BY <1>1, <1>6, <1>7, <1>9 DEF IInv, BufferInv, UpInv, UpOrder
<1>10. CASE /\ tunFree > 0 /\ tunTx' = [tunTx EXCEPT ![c] = Append(@, x)] /\ tunFree' = tunFree - 1
            /\ pool' = Acquire(pool, 1) /\ tunLast' = tunLast
  <2>1. PICK s \in Seq(Packet) : s = tunTx[c]
    BY <1>5
  <2>2. PICK t \in Seq(Packet) : t = Append(s, x)
    <3>1. Append(s, x) \in Seq(Packet)
      OBVIOUS
    <3> QED
      BY <3>1
  <2>3. /\ Len(t) = Len(s) + 1 /\ Len(s) \in Nat
        /\ \A j \in 1 .. Len(t) : t[j] = IF j <= Len(s) THEN s[j] ELSE x
    BY <2>2
  <2>4. tunTx' = [tunTx EXCEPT ![c] = t]
    BY <1>10, <2>1, <2>2
  <2>5. BufferInv'
    <3>1. 1 <= tunFree
      BY <1>4, <1>10 DEF Buffers
    <3>2. Len(t) = Len(tunTx[c]) + 1
      BY <2>1, <2>3
    <3>3. Buffers(udpTx, udpFree, [tunTx EXCEPT ![c] = t], tunFree - 1, Acquire(pool, 1))
      BY <1>4, <3>1, <3>2, TakeTun
    <3> QED
      BY <1>10, <2>4, <3>3 DEF BufferInv
  <2>6. tunTx'[c] = t /\ \A d \in Class : d # c => tunTx'[d] = tunTx[d]
    BY <1>4, <2>4 DEF Tx
  <2>7. Line(t, tunLast, c, Peers, more)
    <3>1. Line(s, tunLast, c, Peers, more)
      BY <1>7, <2>1
    <3>2. x.n \in Nat
      BY DEF Packet
    <3>3. tunLast[x.of][c] <= x.n
      <4>1. tunLast[x.of][c] \in Nat /\ tunLast[x.of][c] <= up
        BY <1>2 DEF Newer
      <4>2. x.of = 0 => tunLast[x.of][c] = 0
        BY <1>2 DEF Newer
      <4> QED
        BY <1>2, <3>2, <4>1, <4>2
    <3>4. ASSUME NEW i \in 1 .. Len(s), s[i].of = x.of PROVE s[i].n <= x.n
      <4>1. s[i].n <= up /\ (s[i].of = 0 => s[i].n = 0) /\ s[i].n \in Nat
        BY <1>2, <2>1, PacketTypes DEF Line
      <4> QED
        BY <1>2, <3>2, <3>4, <4>1
    <3> QED
      BY <1>1, <1>3, <2>3, <3>1, <3>3, <3>4, LineCopies
  <2>8. \A d \in Class : Line(tunTx'[d], tunLast, d, Peers, more)
    BY <1>7, <2>6, <2>7
  <2> QED
    BY <1>1, <1>6, <1>10, <2>5, <2>8 DEF UpInv, UpOrder
<1> QED
  BY <1>8, <1>9, <1>10 DEF WriteTun, TunQueue, tunVars

\* The oldest pending packet is written, or lost with the device.
LEMMA PopTunKeeps ==
  ASSUME IInv, Pending(tunTx), PopTun, UNCHANGED <<udpTx, udpFree, up>>,
         \/ tunLast' = LET c == FirstClass(tunTx) IN Newest(tunLast, Head(tunTx[c]), c)
         \/ tunLast' = tunLast
  PROVE  BufferInv' /\ UpInv'
<1>1. Buffers(udpTx, udpFree, tunTx, tunFree, pool) /\ tunTx \in Tx
  BY DEF IInv, BufferInv, Buffers
<1>2. PICK c \in Class : c = FirstClass(tunTx) /\ tunTx[c] # <<>>
  BY <1>1, FirstClassHas
<1>3. PICK s \in Seq(Packet) : s = tunTx[c]
  BY <1>1 DEF Tx
<1>4. s # <<>> /\ Len(s) \in Nat /\ 1 \in 0 .. Len(s) /\ 1 \in 1 .. Len(s)
  BY <1>2, <1>3
<1>5. PICK t : t = Tail(s)
  OBVIOUS
<1>6. t \in Seq(Packet) /\ Len(t) = Len(s) - 1 /\ \A i \in 1 .. Len(t) : t[i] = s[1 + i]
  BY <1>4, <1>5
<1>7. Rest(t, s, 1)
  <2>1. \A i \in 1 .. Len(t) : 1 + i \in 1 .. Len(s)
    BY <1>4, <1>6
  <2> QED
    BY <1>6, <2>1 DEF Rest
<1>8. tunTx' = [tunTx EXCEPT ![c] = t] /\ tunFree' = tunFree + 1 /\ pool' = Release(pool, 1)
  BY <1>2, <1>3, <1>5 DEF PopTun
<1>9. BufferInv'
  <2>1. Len(t) + 1 = Len(tunTx[c])
    BY <1>3, <1>4, <1>6
  <2>2. Buffers(udpTx, udpFree, [tunTx EXCEPT ![c] = t], tunFree + 1, Release(pool, 1))
    BY <1>1, <1>6, <2>1, LeaveTun
  <2> QED
    BY <1>8, <2>2 DEF BufferInv
<1>10. tunTx'[c] = t /\ \A d \in Class : d # c => tunTx'[d] = tunTx[d]
  BY <1>1, <1>8 DEF Tx
<1>11. up \in Nat /\ Newer(tunLast, Peers, up) /\ \A d \in Class : Line(tunTx[d], tunLast, d, Peers, up)
  BY DEF IInv, UpInv, UpOrder
<1>12. PICK x \in Packet : x = s[1] /\ x = Head(s)
  BY <1>4
<1>13. x.of \in Peers /\ x.n <= up /\ (x.of = 0 => x.n = 0)
  BY <1>3, <1>4, <1>11, <1>12 DEF Line
<1>14. PICK now : now = tunLast'
  OBVIOUS
<1>15. /\ Newer(now, Peers, up)
       /\ \A d \in Peers : After(now, tunLast, s, 1, d, c)
       /\ \A d \in Peers, e \in Class : e # c => now[d][e] = tunLast[d][e]
  <2>1. CASE now = tunLast
    BY <1>11, <2>1 DEF After
  <2>2. CASE now = Newest(tunLast, x, c)
    <3>1. 0 \in Peers /\ up <= up
      BY <1>11 DEF Peers
    <3>2. Newer(now, Peers, up)
      BY <1>11, <1>13, <2>2, <3>1, NewerNewest
    <3>3. tunLast \in [Peers -> [Class -> Nat]]
      BY <1>11 DEF Newer
    <3>4. /\ now[x.of][c] = x.n
          /\ \A d \in Peers, e \in Class : d # x.of \/ e # c => now[d][e] = tunLast[d][e]
      BY <1>13, <2>2, <3>3, NewestIs
    <3>5. \A d \in Peers : After(now, tunLast, s, 1, d, c)
      BY <1>12, <3>4 DEF After
    <3> QED
      BY <3>2, <3>4, <3>5
  <2> QED
    BY <1>2, <1>3, <1>12, <1>14, <2>1, <2>2
<1>16. Line(t, now, c, Peers, up)
  BY <1>3, <1>4, <1>6, <1>7, <1>11, <1>15, LineDrop
<1>17. ASSUME NEW d \in Class PROVE Line(tunTx'[d], now, d, Peers, up)
  <2>1. CASE d = c
    BY <1>10, <1>16, <2>1
  <2>2. CASE d # c
    <3>1. tunTx'[d] = tunTx[d] /\ Line(tunTx[d], tunLast, d, Peers, up)
      BY <1>10, <1>11, <2>2
    <3> QED
      BY <1>15, <2>2, <3>1 DEF Line
  <2> QED
    BY <2>1, <2>2
<1> QED
  BY <1>9, <1>11, <1>14, <1>15, <1>17 DEF UpInv, UpOrder

-----------------------------------------------------------------------------
(* Commands, and the steps of the thread one by one. *)

LEMMA LoadSpent ==
  ASSUME load \in Loads
  PROVE  /\ load.tun > 0 => [load EXCEPT !.tun = @ - 1] \in Loads
         /\ load.data > 0 => [load EXCEPT !.data = @ - 1] \in Loads
         /\ load.ready > 0 => [load EXCEPT !.ready = @ - 1] \in Loads
         /\ load.commands > 0 => [load EXCEPT !.commands = @ - 1] \in Loads
         /\ load.stops > 0 => [load EXCEPT !.stops = @ - 1] \in Loads
         /\ load.expiries > 0 => [load EXCEPT !.expiries = @ - 1] \in Loads
         /\ load.udpErrors > 0 => [load EXCEPT !.udpErrors = @ - 1] \in Loads
<1>1. \A n \in Nat : n > 0 => n - 1 \in Nat
  OBVIOUS
<1>2. /\ load.tun \in Nat /\ load.data \in Nat /\ load.ready \in Nat /\ load.commands \in Nat
      /\ load.stops \in Nat /\ load.expiries \in Nat /\ load.udpErrors \in Nat
  BY DEF Loads
<1>3. load.tun > 0 => [load EXCEPT !.tun = @ - 1] \in Loads
  BY <1>1, <1>2 DEF Loads
<1>4. load.data > 0 => [load EXCEPT !.data = @ - 1] \in Loads
  BY <1>1, <1>2 DEF Loads
<1>5. load.ready > 0 => [load EXCEPT !.ready = @ - 1] \in Loads
  BY <1>1, <1>2 DEF Loads
<1>6. load.commands > 0 => [load EXCEPT !.commands = @ - 1] \in Loads
  BY <1>1, <1>2 DEF Loads
<1>7. load.stops > 0 => [load EXCEPT !.stops = @ - 1] \in Loads
  BY <1>1, <1>2 DEF Loads
<1>8. load.expiries > 0 => [load EXCEPT !.expiries = @ - 1] \in Loads
  BY <1>1, <1>2 DEF Loads
<1>9. load.udpErrors > 0 => [load EXCEPT !.udpErrors = @ - 1] \in Loads
  BY <1>1, <1>2 DEF Loads
<1> QED
  BY <1>3, <1>4, <1>5, <1>6, <1>7, <1>8, <1>9

LEMMA CommandTypes ==
  ASSUME NEW m \in Sendable
  PROVE  /\ m.op = "activate" => m.s \in Sessions /\ m.k \in Keys
         /\ m.op \in {"deactivate", "close", "epoch", "say", "inject"} => m.s \in Sessions
<1>1. CASE m = None
  <2>1. m.op = "none"
    BY <1>1 DEF None
  <2> QED
    BY <2>1
<1>2. CASE m = Shutdown
  <2>1. m.op = "shutdown"
    BY <1>2 DEF Shutdown
  <2> QED
    BY <2>1
<1>3. CASE m \in [op : {"activate"}, s : Sessions, k : Keys]
  <2>1. m.op = "activate" /\ m.s \in Sessions /\ m.k \in Keys
    BY <1>3
  <2> QED
    BY <2>1
<1>4. CASE m \in [op : {"deactivate", "close", "epoch", "say", "inject"}, s : Sessions]
  <2>1. m.op \in {"deactivate", "close", "epoch", "say", "inject"} /\ m.s \in Sessions
    BY <1>4
  <2> QED
    BY <2>1
<1> QED
  BY <1>1, <1>2, <1>3, <1>4 DEF Sendable, Commands

\* Senders and the queue of commands.
LEMMA SendersKeep ==
  ASSUME IInv, NEW s \in Senders, Count(s) \/ Send(s) \/ BeginShutdown(s)
  PROVE  IInv'
<1>1. UNCHANGED <<qvars, udpVars, tunVars, pool, down, up>> /\ held' = held
  BY DEF Count, Send, BeginShutdown, inVars
<1>2. /\ load \in Loads /\ sender \in [Senders -> Sendable] /\ chan \in Seq(Sendable)
      /\ held \in Sendable /\ None \in Sendable /\ Shutdown \in Sendable
  BY DEF IInv, CommandInv, Sendable
<1>3. CASE Count(s)
  <2>1. PICK m \in load.menu : sender' = [sender EXCEPT ![s] = m]
    BY <1>3 DEF Count
  <2>2. load.menu \subseteq Commands
    BY <1>2 DEF Loads
  <2>3. m \in Sendable
    BY <2>1, <2>2 DEF Sendable
  <2>4. load' \in Loads /\ chan' = chan
    BY <1>2, <1>3, LoadSpent DEF Count
  <2> QED
    BY <1>1, <1>2, <2>1, <2>3, <2>4, QuietKeeps DEF IInv, CommandInv
<1>4. CASE Send(s)
  <2>1. load' = load /\ sender' = [sender EXCEPT ![s] = None]
    BY <1>4 DEF Send, TrySend, inVars
  <2>2. chan' \in Seq(Sendable)
    <3>1. sender[s] \in Sendable
      BY <1>2
    <3>2. Append(chan, sender[s]) \in Seq(Sendable)
      BY <1>2, <3>1
    <3>3. chan' = chan \/ chan' = Append(chan, sender[s])
      BY <1>4 DEF Send, TrySend
    <3> QED
      BY <1>2, <3>2, <3>3
  <2> QED
    BY <1>1, <1>2, <2>1, <2>2, QuietKeeps DEF IInv, CommandInv
<1>5. CASE BeginShutdown(s)
  <2>1. load' \in Loads /\ chan' = chan /\ sender' = [sender EXCEPT ![s] = Shutdown]
    BY <1>2, <1>5, LoadSpent DEF BeginShutdown
  <2> QED
    BY <1>1, <1>2, <2>1, QuietKeeps DEF IInv, CommandInv
<1> QED
  BY <1>3, <1>4, <1>5

LEMMA ReceiveKeeps ==
  ASSUME IInv, NEW where, Receive(where)
  PROVE  IInv'
<1>1. UNCHANGED <<qvars, udpVars, tunVars, pool, down, up>> /\ sender' = sender /\ load' = load
  BY DEF Receive, ioVars, inVars
<1>2. chan \in Seq(Sendable) /\ chan # <<>> /\ held' = Head(chan) /\ chan' = Tail(chan)
  BY DEF IInv, CommandInv, Receive, CommandReady
<1>3. held' \in Sendable /\ chan' \in Seq(Sendable)
  BY <1>2
<1> QED
  BY <1>1, <1>3, QuietKeeps DEF IInv, CommandInv

\* The steps that only move the thread.
LEMMA MovesKeep ==
  ASSUME IInv, UNCHANGED <<qvars, chanVars, udpVars, tunVars, pool, down, up, load>>
  PROVE  IInv'
<1>1. load' = load /\ sender' = sender /\ chan' = chan /\ held' = held
  BY DEF chanVars
<1> QED
  BY <1>1, QuietKeeps DEF IInv, CommandInv

LEMMA TickKeeps ==
  ASSUME IInv, Tick
  PROVE  IInv'
<1>1. UNCHANGED <<udpVars, tunVars, pool, down, up>> /\ UNCHANGED chanVars
  BY DEF Tick, ioVars
<1>2. CASE UNCHANGED <<qvars, load>>
  BY <1>1, <1>2, MovesKeep
<1>3. ASSUME NEW s \in Sessions, load.expiries > 0, RemoveSession(s),
             load' = [load EXCEPT !.expiries = @ - 1]
      PROVE  IInv'
  <2>1. LaneInv' /\ Keeps(queue', queue)
    BY <1>3, RemoveSessionKeeps DEF IInv
  <2>2. BufferInv' /\ DownInv' /\ UpInv'
    BY <1>1, <2>1, EngineKeeps
  <2>3. CommandInv'
    <3>1. load' \in Loads
      BY <1>3, LoadSpent DEF IInv, CommandInv
    <3> QED
      BY <1>1, <3>1 DEF IInv, CommandInv, chanVars
  <2> QED
    BY <2>1, <2>2, <2>3 DEF IInv
<1> QED
  BY <1>2, <1>3 DEF Tick

LEMMA ServerPacket ==
  /\ [of |-> 0, n |-> 0] \in Packet
  /\ [of |-> 0, n |-> 0].of = 0 /\ [of |-> 0, n |-> 0].n = 0
  BY DEF Packet

LEMMA ApplyKeeps ==
  ASSUME IInv, Apply
  PROVE  IInv'
<1>1. OnCommand(held) /\ UNCHANGED <<chan, sender, inVars>> /\ held' = None
  BY DEF Apply
<1>2. CommandInv'
  BY <1>1 DEF IInv, CommandInv, inVars, Sendable
<1>3. held \in Sendable
  BY DEF IInv, CommandInv
<1>4. down' = down /\ up' = up
  BY <1>1 DEF inVars
<1>5. CASE LaneInv' /\ Keeps(queue', queue) /\ UNCHANGED ioVars
  <2>1. UNCHANGED <<udpVars, tunVars, pool, down, up>>
    BY <1>4, <1>5 DEF ioVars
  <2> QED
    BY <1>2, <1>5, <2>1, EngineKeeps DEF IInv
<1>6. CASE held.op = "activate" /\ ActivateTunnel(held.s, held.k) /\ UNCHANGED ioVars
  <2>1. held.s \in Sessions /\ held.k \in Keys
    BY <1>3, <1>6, CommandTypes
  <2>2. LaneInv' /\ Keeps(queue', queue)
    BY <1>6, <2>1, ActivateKeeps DEF IInv
  <2> QED
    BY <1>5, <1>6, <2>2
<1>7. CASE held.op = "deactivate" /\ RemoveTunnel(held.s) /\ UNCHANGED ioVars
  <2>1. held.s \in Sessions
    BY <1>3, <1>7, CommandTypes
  <2>2. LaneInv' /\ Keeps(queue', queue)
    BY <1>7, <2>1, RemoveTunnelKeeps DEF IInv
  <2> QED
    BY <1>5, <1>7, <2>2
<1>8. CASE held.op = "close" /\ RemoveSession(held.s) /\ UNCHANGED ioVars
  <2>1. held.s \in Sessions
    BY <1>3, <1>8, CommandTypes
  <2>2. LaneInv' /\ Keeps(queue', queue)
    BY <1>8, <2>1, RemoveSessionKeeps DEF IInv
  <2> QED
    BY <1>5, <1>8, <2>2
<1>9. CASE held.op = "epoch" /\ UpdateEpoch(held.s, 2) /\ UNCHANGED ioVars
  <2>1. held.s \in Sessions /\ 2 \in Nat
    BY <1>3, <1>9, CommandTypes
  <2>2. LaneInv' /\ Keeps(queue', queue)
    BY <1>9, <2>1, UpdateEpochKeeps DEF IInv
  <2> QED
    BY <1>5, <1>9, <2>2
<1>10. CASE UNCHANGED <<qvars, udpVars, tunVars, pool>>
  <2>1. LaneInv' /\ BufferInv' /\ DownInv' /\ UpInv'
    BY <1>4, <1>10, QuietKeeps
  <2> QED
    BY <1>2, <2>1 DEF IInv
<1>11. CASE Say /\ UNCHANGED <<qvars, tunVars>>
  <2>1. queue' = queue /\ hot' = hot /\ routes' = routes /\ tunTx' = tunTx /\ tunFree' = tunFree /\ tunLast' = tunLast
    BY <1>11 DEF qvars, tunVars
  <2>2. BufferInv' /\ DownInv'
    BY <1>4, <1>11, <2>1, SayKeeps DEF IInv
  <2>3. LaneInv' /\ UpInv'
    BY <1>4, <2>1 DEF IInv, LaneInv, UpInv
  <2> QED
    BY <1>2, <2>2, <2>3 DEF IInv
<1>12. CASE WriteTun([of |-> 0, n |-> 0], "bulk") /\ UNCHANGED <<qvars, udpVars>>
  <2>1. PICK x \in Packet : x = [of |-> 0, n |-> 0] /\ x.of = 0 /\ x.n = 0
    BY ServerPacket
  <2>2. queue' = queue /\ hot' = hot /\ routes' = routes /\ udpTx' = udpTx /\ udpFree' = udpFree /\ wireLast' = wireLast
    BY <1>12 DEF qvars, udpVars
  <2>3. up \in Nat
    BY DEF IInv, UpInv, UpOrder
  <2>4. x.of \in Peers /\ "bulk" \in Class /\ up' \in Nat /\ up <= up' /\ x.n <= up'
    BY <1>4, <2>1, <2>3 DEF Peers, Class
  <2>5. WriteTun(x, "bulk")
    BY <1>12, <2>1
  <2>6. BufferInv' /\ UpInv'
    BY <2>1, <2>2, <2>4, <2>5, WriteTunKeeps
  <2>7. LaneInv' /\ DownInv'
    BY <1>4, <2>2 DEF IInv, LaneInv, DownInv
  <2> QED
    BY <1>2, <2>6, <2>7 DEF IInv
<1> QED
  BY <1>1, <1>6, <1>7, <1>8, <1>9, <1>10, <1>11, <1>12 DEF OnCommand

\* The packet of a client's session that a datagram carries.
LEMMA ClientPacket ==
  ASSUME NEW s \in Nat, NEW m \in Nat
  PROVE  \E x \in Packet : x = [of |-> s, n |-> m] /\ x.of = s /\ x.n = m
<1>1. [of |-> s, n |-> m] \in Packet
  BY DEF Packet
<1> QED
  BY <1>1

LEMMA DatagramKeeps ==
  ASSUME IInv, Datagram
  PROVE  IInv'
<1>1. UNCHANGED <<qvars, chanVars, down>>
  BY DEF Datagram
<1>2. /\ queue' = queue /\ hot' = hot /\ routes' = routes /\ down' = down
      /\ held' = held /\ chan' = chan /\ sender' = sender
  BY <1>1 DEF qvars, chanVars
<1>3. LaneInv'
  BY <1>2 DEF IInv, LaneInv
<1>4. ASSUME load' \in Loads PROVE CommandInv'
  BY <1>2, <1>4 DEF IInv, CommandInv
<1>5. ASSUME NEW s \in Sessions, NEW c \in Class, load.data > 0,
             WriteTun([of |-> s, n |-> up + 1], c), up' = up + 1,
             load' = [load EXCEPT !.data = @ - 1], UNCHANGED udpVars
      PROVE  IInv'
  <2>1. up \in Nat
    BY DEF IInv, UpInv, UpOrder
  <2>2. s \in Nat /\ s # 0
    BY QueueAssumption
  <2>3. up + 1 \in Nat /\ up <= up + 1
    BY <2>1
  <2>4. PICK x \in Packet : x = [of |-> s, n |-> up + 1] /\ x.of = s /\ x.n = up + 1
    BY <2>2, <2>3, ClientPacket
  <2>5. udpTx' = udpTx /\ udpFree' = udpFree /\ wireLast' = wireLast
    BY <1>5 DEF udpVars
  <2>6. x.of \in Peers /\ up' \in Nat /\ up <= up' /\ x.n <= up' /\ x.of # 0 /\ up <= x.n
    BY <1>5, <2>2, <2>3, <2>4 DEF Peers
  <2>7. WriteTun(x, c)
    BY <1>5, <2>4
  <2>8. BufferInv' /\ UpInv'
    BY <2>5, <2>6, <2>7, WriteTunKeeps
  <2>9. DownInv'
    BY <1>2, <2>5 DEF IInv, DownInv
  <2>10. CommandInv'
    BY <1>4, <1>5, LoadSpent DEF IInv, CommandInv
  <2> QED
    BY <1>3, <2>8, <2>9, <2>10 DEF IInv
<1>6. ASSUME load.ready > 0, load' = [load EXCEPT !.ready = @ - 1], Say, UNCHANGED <<tunVars, up>>
      PROVE  IInv'
  <2>1. tunTx' = tunTx /\ tunFree' = tunFree /\ tunLast' = tunLast /\ up' = up
    BY <1>6 DEF tunVars
  <2>2. BufferInv' /\ DownInv'
    BY <1>2, <1>6, <2>1, SayKeeps DEF IInv
  <2>3. UpInv'
    BY <2>1 DEF IInv, UpInv
  <2>4. CommandInv'
    BY <1>4, <1>6, LoadSpent DEF IInv, CommandInv
  <2> QED
    BY <1>3, <2>2, <2>3, <2>4 DEF IInv
<1>7. ASSUME UNCHANGED <<ioVars, up, load>> PROVE IInv'
  <2>1. UNCHANGED <<qvars, chanVars, udpVars, tunVars, pool, down, up, load>>
    BY <1>1, <1>7 DEF ioVars
  <2> QED
    BY <2>1, MovesKeep
<1> QED
  BY <1>5, <1>6, <1>7 DEF Datagram

LEMMA DrainOneKeeps ==
  ASSUME IInv, DrainOne
  PROVE  IInv'
<1>1. PICK c \in Class, extra \in {0, FEC_EXTRA_COPIES} :
        \E i \in FirstTurn(queue, c) : Drain(c, i, extra)
  BY DEF DrainOne
<1>2. PICK i \in FirstTurn(queue, c) : Drain(c, i, extra)
  BY <1>1
<1>3. i \in Found(queue, c) /\ extra \in Nat
  BY <1>1, <1>2 DEF FirstTurn, FEC_EXTRA_COPIES
<1> QED
  BY <1>2, <1>3, DrainKeeps

\* A system call, with the rest left alone.
LEMMA FlushKeeps ==
  ASSUME IInv, SendMmsg, UNCHANGED <<qvars, chanVars, tunVars, down, up>>
  PROVE  IInv'
<1>1. /\ queue' = queue /\ hot' = hot /\ routes' = routes /\ down' = down /\ up' = up
      /\ held' = held /\ chan' = chan /\ sender' = sender
      /\ tunTx' = tunTx /\ tunFree' = tunFree /\ tunLast' = tunLast
  BY DEF qvars, chanVars, tunVars
<1>2. BufferInv' /\ DownInv'
  BY <1>1, SendMmsgKeeps
<1>3. LaneInv' /\ UpInv'
  BY <1>1 DEF IInv, LaneInv, UpInv
<1>4. load' \in Loads
  <2>1. load \in Loads
    BY DEF IInv, CommandInv
  <2> QED
    BY <2>1, LoadSpent DEF SendMmsg, SentUdp, RefusedUdp
<1>5. CommandInv'
  BY <1>1, <1>4 DEF IInv, CommandInv
<1> QED
  BY <1>2, <1>3, <1>5 DEF IInv

LEMMA TunFlushKeeps ==
  ASSUME IInv, FlushTun \/ FlushTunFails
  PROVE  IInv'
<1>1. Pending(tunTx) /\ PopTun /\ UNCHANGED <<qvars, chanVars, udpVars, inVars>>
  BY DEF FlushTun, FlushTunFails
<1>2. /\ queue' = queue /\ hot' = hot /\ routes' = routes /\ down' = down /\ up' = up
      /\ held' = held /\ chan' = chan /\ sender' = sender /\ load' = load
      /\ udpTx' = udpTx /\ udpFree' = udpFree /\ wireLast' = wireLast
  BY <1>1 DEF qvars, chanVars, udpVars, inVars
<1>3. \/ tunLast' = LET c == FirstClass(tunTx) IN Newest(tunLast, Head(tunTx[c]), c)
      \/ tunLast' = tunLast
  BY DEF FlushTun, FlushTunFails
<1>4. BufferInv' /\ UpInv'
  BY <1>1, <1>2, <1>3, PopTunKeeps
<1>5. LaneInv' /\ DownInv' /\ CommandInv'
  BY <1>2 DEF IInv, LaneInv, DownInv, CommandInv
<1> QED
  BY <1>4, <1>5 DEF IInv

LEMMA Inductive ==
  ASSUME IInv, [Next]_vars
  PROVE  IInv'
<1>1. CASE UNCHANGED vars
  <2>1. UNCHANGED <<qvars, chanVars, udpVars, tunVars, pool, down, up, load>>
    BY <1>1 DEF vars, inVars
  <2> QED
    BY <2>1, MovesKeep
<1>2. CASE \E s \in Senders : Count(s) \/ Send(s) \/ BeginShutdown(s)
  BY <1>2, SendersKeep
<1>3. CASE TunArrives
  <2>1. UNCHANGED <<qvars, udpVars, tunVars, pool, down, up>> /\ UNCHANGED chanVars
    BY <1>3 DEF TunArrives
  <2>2. load' \in Loads
    BY <1>3, LoadSpent DEF TunArrives, IInv, CommandInv
  <2>3. CommandInv'
    BY <2>1, <2>2 DEF IInv, CommandInv, chanVars
  <2> QED
    BY <2>1, <2>3, QuietKeeps DEF IInv
<1>4. CASE \/ Leave \/ CommandsDone \/ RecvShutdown \/ UdpRead \/ UdpDone \/ TunRead \/ TunDone
           \/ TunReadFails \/ DrainDone \/ Writable \/ FlushUdpDone \/ FlushTunDone
  <2>1. UNCHANGED <<qvars, chanVars, udpVars, tunVars, pool, down, up, load>>
    BY <1>4 DEF Leave, CommandsDone, RecvShutdown, UdpRead, UdpDone, TunRead, TunDone, TunReadFails,
       DrainDone, Writable, FlushUdpDone, FlushTunDone, ioVars, inVars
  <2> QED
    BY <2>1, MovesKeep
<1>5. CASE RecvFirst \/ RecvNext
  BY <1>5, ReceiveKeeps DEF RecvFirst, RecvNext
<1>6. CASE FlushUdp
  <2>1. SendMmsg /\ UNCHANGED <<qvars, chanVars, tunVars, down, up>>
    BY <1>6 DEF FlushUdp
  <2> QED
    BY <2>1, FlushKeeps
<1>7. CASE UrgentFlush
  <2>1. UNCHANGED <<qvars, chanVars, tunVars, down, up>> /\ (SendMmsg \/ UNCHANGED <<udpVars, pool, load>>)
    BY <1>7 DEF UrgentFlush
  <2>2. UNCHANGED <<udpVars, pool, load>> =>
          UNCHANGED <<qvars, chanVars, udpVars, tunVars, pool, down, up, load>>
    BY <2>1
  <2> QED
    BY <2>1, <2>2, FlushKeeps, MovesKeep
<1>8. CASE FlushAtEnd
  <2>1. UNCHANGED <<qvars, chanVars, tunVars, down, up>> /\ (SendMmsg \/ UNCHANGED <<udpVars, pool, load>>)
    BY <1>8 DEF FlushAtEnd
  <2>2. UNCHANGED <<udpVars, pool, load>> =>
          UNCHANGED <<qvars, chanVars, udpVars, tunVars, pool, down, up, load>>
    BY <2>1
  <2> QED
    BY <2>1, <2>2, FlushKeeps, MovesKeep
<1>9. CASE FlushTun \/ FlushTunFails
  BY <1>9, TunFlushKeeps
<1> QED
  BY <1>1, <1>2, <1>3, <1>4, <1>5, <1>6, <1>7, <1>8, <1>9,
     TickKeeps, ApplyKeeps, DatagramKeeps, TunPacketKeeps, DrainOneKeeps DEF Next, Thread

LEMMA IInvHolds == Spec => []IInv
  BY Initially, Inductive, PTL DEF Spec

-----------------------------------------------------------------------------
\* A lane has exactly the buffers its client's paths give it: configure, clear, the drain
\* and what it puts back neither lose a buffer nor leave packets without a path.
THEOREM LaneBuffersAreKept == Spec => []LaneIsSized
<1>1. ASSUME IInv PROVE LaneIsSized
  <2> SUFFICES ASSUME NEW k \in Keys, NEW c \in Class
               PROVE  queue.lanes[k].slots[c].free + Len(queue.lanes[k].slots[c].pending) =
                        profile_for_active_paths(Cardinality(routes[k]))[c]
    BY DEF LaneIsSized
  <2>1. /\ Sized(queue) /\ routes \in [Keys -> SUBSET Sessions]
        /\ queue.lanes[k].paths = Min({Cardinality(routes[k]), MaxPaths})
    BY <1>1 DEF IInv, LaneInv, Lanes
  <2>2. PICK n \in Nat : n = Cardinality(routes[k])
    BY <2>1, RoutesAreCounted
  <2>3. profile_for_active_paths(queue.lanes[k].paths) = profile_for_active_paths(n)
    BY <2>1, <2>2, MinPaths
  <2> QED
    BY <2>1, <2>2, <2>3 DEF Sized, SlotsOf
<1> QED
  BY <1>1, IInvHolds, PTL

\* Slots and buffers of tokio_io.rs and packet.rs are neither lost nor shared, over blocked,
\* partial and refused writes, copies and drops; a free slot always finds a buffer.
THEOREM SlotsAndBuffersAreKept == Spec => []BuffersAreKept
<1>1. ASSUME IInv PROVE BuffersAreKept
  <2>1. Buffers(udpTx, udpFree, tunTx, tunFree, pool)
    BY <1>1 DEF IInv, BufferInv
  <2>2. /\ udpFree + Slots(udpTx) = UDP_TX_SLOTS /\ tunFree + Slots(tunTx) = TUN_TX_SLOTS
        /\ pool.allocated = pool.retained + Slots(udpTx) + Slots(tunTx)
        /\ udpFree \in Nat /\ tunFree \in Nat
    BY <2>1 DEF Buffers
  <2>3. Available(pool) = udpFree + tunFree
    BY <2>1, BuffersSuffice
  <2>4. udpFree > 0 \/ tunFree > 0 => Available(pool) > 0
    BY <2>2, <2>3
  <2> QED
    BY <2>2, <2>4 DEF BuffersAreKept
<1> QED
  BY <1>1, IInvHolds, PTL

\* Packets of one client and class never overtake each other between the TUN device and the
\* socket, in either direction, over lanes that shrink, copies, refused datagrams and
\* packets put back.
THEOREM PacketsStayInOrder == Spec => []InOrder
<1>1. ASSUME IInv PROVE InOrder
  <2>1. ASSUME NEW c \in Class, NEW k \in Keys
        PROVE  InLine(udpTx[c] \o SlotsOf(queue, k, c).pending, wireLast, c)
    <3>1. PICK s \in Seq(Packet), t \in Seq(Packet) : s = udpTx[c] /\ t = SlotsOf(queue, k, c).pending
      <4>1. udpTx[c] \in Seq(Packet)
        BY <1>1 DEF IInv, BufferInv, Buffers, Tx
      <4>2. SlotsOf(queue, k, c).pending \in Seq(Packet)
        BY <1>1, SlotTypes DEF IInv, LaneInv, Lanes
      <4> QED
        BY <4>1, <4>2
    <3>2. Line(s, wireLast, c, Ends, down) /\ Behind(t, s, wireLast, k, c, down)
      BY <1>1, <3>1 DEF IInv, DownInv, DownOrder
    <3>3. PICK m \in Nat, n \in Nat : m = Len(s) /\ n = Len(t)
      OBVIOUS
    <3>4. PICK z : z = s \o t
      OBVIOUS
    <3>5. z \in Seq(Packet) /\ Len(z) = m + n
      <4>1. z \in Seq(Packet) /\ Len(z) = Len(s) + Len(t)
        BY <3>4, ConcatProperties
      <4> QED
        BY <3>3, <4>1
    <3>6. DOMAIN z = 1 .. m + n
      BY <3>5
    <3>7. \A j \in 1 .. m : z[j] = s[j]
      BY <3>3, <3>4
    <3>8. ASSUME NEW j \in 1 .. m + n, j > m PROVE j - m \in 1 .. n /\ z[j] = t[j - m]
      BY <3>3, <3>4, <3>8
    <3>9. ASSUME NEW j \in 1 .. m + n
          PROVE  /\ wireLast[z[j].of][c] <= z[j].n
                 /\ \A i \in 1 .. j - 1 : z[i].of = z[j].of => z[i].n <= z[j].n
      <4>1. CASE j <= m
        <5>1. j \in 1 .. Len(s) /\ z[j] = s[j] /\ \A i \in 1 .. j - 1 : z[i] = s[i]
          BY <3>3, <3>7, <4>1
        <5> QED
          BY <3>2, <5>1 DEF Line
      <4>2. CASE j > m
        <5>1. PICK p \in 1 .. Len(t) : p = j - m /\ z[j] = t[p]
          BY <3>3, <3>8, <4>2
        <5>2. /\ t[p].of = k /\ wireLast[k][c] <= t[p].n
              /\ \A i \in 1 .. p - 1 : t[i].n <= t[p].n
              /\ \A i \in 1 .. Len(s) : s[i].of = k => s[i].n <= t[p].n
          BY <3>2, <5>1 DEF Behind
        <5>3. ASSUME NEW i \in 1 .. j - 1, z[i].of = z[j].of PROVE z[i].n <= z[j].n
          <6>1. CASE i <= m
            <7>1. i \in 1 .. Len(s) /\ z[i] = s[i]
              BY <3>3, <3>7, <6>1
            <7> QED
              BY <5>1, <5>2, <5>3, <7>1
          <6>2. CASE i > m
            <7>1. i \in 1 .. m + n /\ i - m \in 1 .. p - 1
              BY <5>1, <6>2
            <7>2. z[i] = t[i - m]
              BY <3>8, <6>2, <7>1
            <7> QED
              BY <5>1, <5>2, <7>1, <7>2
          <6> QED
            BY <6>1, <6>2
        <5> QED
          BY <5>1, <5>2, <5>3
      <4> QED
        BY <4>1, <4>2
    <3>10. InLine(z, wireLast, c)
      BY <3>6, <3>9 DEF InLine
    <3> QED
      BY <3>1, <3>4, <3>10
  <2>2. ASSUME NEW c \in Class PROVE InLine(tunTx[c], tunLast, c)
    <3>1. tunTx[c] \in Seq(Packet)
      BY <1>1 DEF IInv, BufferInv, Buffers, Tx
    <3>2. Line(tunTx[c], tunLast, c, Peers, up)
      BY <1>1 DEF IInv, UpInv, UpOrder
    <3> QED
      BY <3>1, <3>2 DEF Line, InLine
  <2> QED
    BY <2>1, <2>2 DEF InOrder, SlotsOf
<1> QED
  BY <1>1, IInvHolds, PTL
=============================================================================
