-------------------------- MODULE ClientParts_proofs --------------------------
(***************************************************************************)
(* Proofs about four parts of the client that share no state: the packet   *)
(* channel (PacketQueue), the replay windows (ReplayWindow), the fetch of  *)
(* credentials (VkAuth) and the TURN allocation (TurnClient).              *)
(***************************************************************************)
EXTENDS PacketQueue, ReplayWindow, VkAuth, TurnClient, TLAPS

-----------------------------------------------------------------------------
(***************************************************************************)
(* The packet channel: NoCrossSession for every capacity and every set of  *)
(* senders.                                                                *)
(*                                                                         *)
(* The epoch a sender loads is the number of resumes so far, and nothing   *)
(* between the load and the receiver's comparison can change it: that is   *)
(* the inductive invariant.  The Notify plays no part in it.               *)
(***************************************************************************)

\* Packets stamped with the session they were sent in.
Stamped == {p \in [epoch : Nat, born : Nat] : p.epoch = p.born}

ChannelInv ==
  /\ epoch \in Nat /\ session = epoch
  /\ queue \in Seq(Stamped)
  /\ stamp \in [Senders -> Stamped]
  /\ returned \in Stamped
  /\ returned # NoPacket => returned.epoch = epoch

\* packet_channel starts with nothing sent.
LEMMA ChannelStarts == packet_channel => ChannelInv
<1> SUFFICES ASSUME packet_channel PROVE ChannelInv
  OBVIOUS
<1>1. NoPacket \in Stamped
  BY PacketQueueAssumption DEF NoPacket, Stamped
<1> QED
  BY <1>1, PacketQueueAssumption DEF packet_channel, ChannelInv

\* Every step of a sender, of the receiver and of its owner keeps the stamps.
LEMMA ChannelKeeps == ChannelInv /\ [ChannelNext]_channelVars => ChannelInv'
<1> SUFFICES ASSUME ChannelInv, [ChannelNext]_channelVars PROVE ChannelInv'
  OBVIOUS
<1> USE DEF ChannelInv
<1>0. NoPacket \in Stamped
  BY PacketQueueAssumption DEF NoPacket, Stamped
<1>1. ASSUME UNCHANGED <<queue, epoch, session, stamp, returned>> PROVE ChannelInv'
  BY <1>1
<1>2. ASSUME NEW s \in Senders, LoadState(s) PROVE ChannelInv'
  <2>1. [epoch |-> epoch, born |-> session] \in Stamped
    BY DEF Stamped
  <2> QED
    BY <1>2, <2>1 DEF LoadState, word
<1>3. ASSUME NEW s \in Senders, Push(s) PROVE ChannelInv'
  <2>1. queue' \in Seq(Stamped)
    <3>1. CASE queue' = Append(queue, stamp[s])
      BY <3>1
    <3>2. CASE Len(queue) = Capacity /\ queue' = Append(Tail(queue), stamp[s])
      <4>1. queue # <<>>
        BY <3>2, PacketQueueAssumption
      <4>2. Tail(queue) \in Seq(Stamped)
        BY <4>1
      <4> QED
        BY <3>2, <4>2
    <3>3. CASE queue' = queue
      BY <3>3
    <3> QED
      BY <1>3, <3>1, <3>2, <3>3 DEF Push
  <2> QED
    BY <1>3, <2>1 DEF Push, word
<1>4. ASSUME Recv PROVE ChannelInv'
  BY <1>4, <1>0 DEF Recv, word
<1>5. ASSUME try_recv PROVE ChannelInv'
  <2>1. CASE queue = <<>>
    BY <1>5, <2>1, <1>1 DEF try_recv, word
  <2>2. CASE queue # <<>>
    <3>1. Tail(queue) \in Seq(Stamped) /\ Head(queue) \in Stamped
      BY <2>2
    <3>2. UNCHANGED <<epoch, session, stamp>> /\ queue' = Tail(queue)
      BY <1>5, <2>2 DEF try_recv, word
    <3>3. CASE active /\ Head(queue).epoch = epoch
      <4>1. returned' = Head(queue)
        BY <1>5, <2>2, <3>3 DEF try_recv, Deliver
      <4> QED
        BY <3>1, <3>2, <3>3, <4>1
    <3>4. CASE ~(active /\ Head(queue).epoch = epoch)
      <4>1. returned' = returned
        BY <1>5, <2>2, <3>4 DEF try_recv
      <4> QED
        BY <3>1, <3>2, <4>1
    <3> QED
      BY <3>3, <3>4
  <2> QED
    BY <2>1, <2>2
<1>6. ASSUME resume PROVE ChannelInv'
  BY <1>6, <1>0 DEF resume
<1>7. ASSUME suspend \/ DropReceiver PROVE ChannelInv'
  BY <1>7, <1>0 DEF suspend, DropReceiver, word
<1>8. ASSUME purge PROVE ChannelInv'
  <2>1. queue' \in Seq(Stamped)
    <3>1. CASE queue = <<>>
      BY <1>8, <3>1 DEF purge
    <3>2. CASE queue # <<>>
      BY <1>8, <3>2 DEF purge
    <3> QED
      BY <3>1, <3>2
  <2> QED
    BY <1>8, <2>1 DEF purge
<1>9. ASSUME NEW p \in Procs, Park(p) \/ Woken(p) PROVE ChannelInv'
  BY <1>9, <1>1 DEF Park, Woken, word
<1>10. ASSUME NEW s \in Senders,
              \/ Send(s) \/ SenderCheck(s) \/ Notify(s) \/ Arm(s)
              \/ Sleep5ms(s) \/ SenderCancelled(s) \/ DropSender(s)
       PROVE  ChannelInv'
  BY <1>10, <1>1
     DEF Send, SenderCheck, Notify, Arm, Sleep5ms, SenderCancelled, DropSender, word
<1>11. ASSUME RecvCheck \/ RecvSenders \/ RecvAbandoned \/ Cancel PROVE ChannelInv'
  BY <1>11, <1>1 DEF RecvCheck, RecvSenders, RecvAbandoned, Cancel, word
<1>12. CASE UNCHANGED channelVars
  BY <1>12, <1>1 DEF channelVars, word
<1>13. Receiver \in Procs /\ Senders \subseteq Procs
  BY DEF Procs
<1> QED
  BY <1>2, <1>3, <1>4, <1>5, <1>6, <1>7, <1>8, <1>9, <1>10, <1>11, <1>12, <1>13
     DEF ChannelNext, SenderStep, ReceiverStep, Owner

\* A packet sent while one TUN was open is never handed out for another one,
\* for every capacity, number of senders and number of resumes.
THEOREM NeverCrossesSessions == ChannelSpec => []NoCrossSession
<1>1. ChannelInv => NoCrossSession
  <2> SUFFICES ASSUME ChannelInv, returned # NoPacket PROVE returned.born = session
    BY DEF NoCrossSession
  <2>1. returned.epoch = returned.born
    BY DEF ChannelInv, Stamped
  <2> QED
    BY <2>1 DEF ChannelInv
<1> QED
  BY <1>1, ChannelStarts, ChannelKeeps, PTL DEF ChannelSpec

-----------------------------------------------------------------------------
(***************************************************************************)
(* The replay windows, for every number space, window and length of a      *)
(* session: both windows let each packet through at most once, take the    *)
(* same decisions, and reject no packet that is merely late or reordered.  *)
(***************************************************************************)
\* Remainders

LEMMA DivMod ==
  ASSUME NEW a \in Int, NEW m \in Nat, m > 0
  PROVE  /\ a \div m \in Int /\ (a % m) \in 0 .. (m - 1)
         /\ a = m * (a \div m) + (a % m)
OBVIOUS

LEMMA ModUnique ==
  ASSUME NEW a \in Int, NEW q \in Int, NEW m \in Nat, NEW r \in 0 .. (m - 1), a = m * q + r
  PROVE  (a % m) = r
OBVIOUS

LEMMA ModShift ==
  ASSUME NEW a \in Int, NEW k \in Int, NEW m \in Nat, m > 0
  PROVE  (a + m * k) % m = (a % m)
<1> DEFINE q == a \div m
           r == (a % m)
<1>1. q \in Int /\ r \in 0 .. (m - 1) /\ a = m * q + r
  BY DivMod
<1> HIDE DEF q, r
<1>2. a + m * k = m * (q + k) + r
  BY <1>1
<1>3. a + m * k \in Int /\ q + k \in Int
  BY <1>1
<1>4. (a + m * k) % m = r
  BY <1>1, <1>2, <1>3, ModUnique
<1> QED
  BY <1>4 DEF r

LEMMA Multiple ==
  ASSUME NEW k \in Int, NEW m \in Nat
  PROVE  (k >= 1 => m * k >= m) /\ (k <= -1 => m * k <= -m) /\ (k >= 2 => m * k >= 2 * m)
         /\ (k <= -2 => m * k <= -(2 * m)) /\ m * k \in Int
OBVIOUS

\* Two numbers with the same remainder that are less than m apart are equal.
LEMMA ModNear ==
  ASSUME NEW a \in Int, NEW b \in Int, NEW m \in Nat, m > 0, (a % m) = (b % m), a - b < m, b - a < m
  PROVE  a = b
<1> DEFINE p == a \div m
           q == b \div m
<1>1. p \in Int /\ q \in Int /\ a = m * p + (a % m) /\ b = m * q + (b % m) /\ (a % m) \in Int
  BY DivMod
<1> HIDE DEF p, q
<1>2. a - b = m * (p - q) /\ p - q \in Int
  BY <1>1
<1>3. ~(p - q >= 1) /\ ~(p - q <= -1)
  BY <1>2, Multiple
<1> QED
  BY <1>1, <1>2, <1>3

LEMMA ModOfMod ==
  ASSUME NEW a \in Int, NEW i \in Int, NEW w \in Nat, w > 0, NEW k \in Nat, k > 0
  PROVE  ((a % (w * k)) + i) % w = (a + i) % w
<1> DEFINE m == w * k
           q == a \div m
<1>1. m \in Nat /\ m > 0
  BY Multiple
<1>2. q \in Int /\ a = m * q + (a % m) /\ (a % m) \in Int
  BY <1>1, DivMod
<1>3. m * q = w * (k * q)
  BY <1>1, <1>2
<1> HIDE DEF m, q
<1>4. a + i = ((a % m) + i) + w * (k * q)
  BY <1>2, <1>3
<1>5. k * q \in Int /\ (a % m) + i \in Int
  BY <1>2
<1>6. (((a % m) + i) + w * (k * q)) % w = ((a % m) + i) % w
  BY <1>5, ModShift
<1> QED
  BY <1>4, <1>6 DEF m

\* Wrapping subtraction.
LEMMA ModDiff ==
  ASSUME NEW a \in Int, NEW b \in Int, NEW m \in Nat, m > 0
  PROVE  /\ 0 <= a - b /\ a - b < m => ((a % m) - (b % m)) % m = a - b
         /\ a - b < 0 /\ -m < a - b => ((a % m) - (b % m)) % m = m + (a - b)
<1> DEFINE p == a \div m
           q == b \div m
<1>1. /\ p \in Int /\ q \in Int /\ a = m * p + (a % m) /\ b = m * q + (b % m)
      /\ (a % m) \in Int /\ (b % m) \in Int
  BY DivMod
<1> HIDE DEF p, q
<1>2. (a % m) - (b % m) = m * (q - p) + (a - b)
  BY <1>1
<1>3. (a % m) - (b % m) = m * (q - p - 1) + (m + (a - b))
  BY <1>1, <1>2
<1>4. ((a % m) - (b % m)) \in Int /\ q - p \in Int /\ q - p - 1 \in Int
  BY <1>1
<1>5. ASSUME 0 <= a - b, a - b < m PROVE ((a % m) - (b % m)) % m = a - b
  <2>1. a - b \in 0 .. (m - 1)
    BY <1>5
  <2> QED
    BY <1>2, <1>4, <2>1, ModUnique
<1>6. ASSUME a - b < 0, -m < a - b PROVE ((a % m) - (b % m)) % m = m + (a - b)
  <2>1. m + (a - b) \in 0 .. (m - 1)
    BY <1>6
  <2> QED
    BY <1>3, <1>4, <2>1, ModUnique
<1> QED
  BY <1>5, <1>6
-----------------------------------------------------------------------------
\* The window divides half the number space.
LEMMA Sizes ==
  ASSUME NEW f \in Firsts
  PROVE  /\ Modulus \in Nat /\ Modulus > 0 /\ Window \in Nat /\ Window > 0 /\ Packets \in Nat
         /\ \E k \in Nat : k > 0 /\ Half = Window * k /\ Modulus = Window * (2 * k)
         /\ Half \in Nat /\ Window <= Half /\ Modulus = 2 * Half
         /\ f \in 0 .. (Modulus - 1)
<1>1. /\ Modulus \in Nat /\ Modulus > 0 /\ Window \in Nat /\ Window > 0 /\ Packets \in Nat
      /\ f \in 0 .. (Modulus - 1) /\ Modulus % (2 * Window) = 0
  BY ReplayWindowAssumption
<1> DEFINE k == Modulus \div (2 * Window)
<1>2. k \in Int /\ Modulus = (2 * Window) * k + 0
  <2>1. 2 * Window \in Nat /\ 2 * Window > 0
    BY <1>1
  <2> QED
    BY <1>1, <2>1, DivMod
<1> HIDE DEF k
<1>3. Modulus = 2 * (Window * k) /\ Modulus = Window * (2 * k) /\ Window * k \in Int
  BY <1>1, <1>2
<1>4. k > 0
  <2>1. CASE k <= -1
    BY <2>1, <1>1, <1>2, <1>3, Multiple
  <2>2. CASE k = 0
    BY <2>2, <1>1, <1>3
  <2> QED
    BY <2>1, <2>2, <1>2
<1>5. Half = Window * k
  BY <1>3 DEF Half
<1>6. Window * k >= Window
  BY <1>1, <1>2, <1>4, Multiple
<1> QED
  BY <1>1, <1>2, <1>3, <1>4, <1>5, <1>6

\* A number less than half the space away from the highest is extended to its own counter,
\* on whichever side of a wrap the two are.
LEMMA ExtendIsNearest ==
  ASSUME NEW f \in Firsts, NEW h \in Nat, NEW t \in Nat, t - h < Half, h - t < Half
  PROVE  Extend(h, t % Modulus) = t
<1> DEFINE e == h - (h % Modulus) + (t % Modulus)
           p == h \div Modulus
           q == t \div Modulus
<1>1. Modulus \in Nat /\ Modulus > 0 /\ Half \in Nat /\ Modulus = 2 * Half
  BY Sizes
<1>2. /\ p \in Int /\ (h % Modulus) \in 0 .. (Modulus - 1) /\ h = Modulus * p + (h % Modulus)
      /\ q \in Int /\ (t % Modulus) \in 0 .. (Modulus - 1) /\ t = Modulus * q + (t % Modulus)
  BY <1>1, DivMod
<1> HIDE DEF p, q
<1>3. e = Modulus * p + (t % Modulus) /\ t - e = Modulus * (q - p) /\ q - p \in Int /\ e \in Int
      /\ h - Modulus < e /\ e < h + Modulus
  BY <1>1, <1>2
<1>4. /\ (q - p >= 1 => t - e >= Modulus) /\ (q - p <= -1 => t - e <= -Modulus)
      /\ (q - p >= 2 => t - e >= 2 * Modulus) /\ (q - p <= -2 => t - e <= -(2 * Modulus))
      /\ (q - p = 0 => t = e) /\ (q - p = 1 => t = e + Modulus) /\ (q - p = -1 => t = e - Modulus)
  <2>1. Modulus * (q - p) = t - e
    BY <1>3
  <2>2. /\ (q - p >= 1 => Modulus * (q - p) >= Modulus) /\ (q - p <= -1 => Modulus * (q - p) <= -Modulus)
        /\ (q - p >= 2 => Modulus * (q - p) >= 2 * Modulus)
        /\ (q - p <= -2 => Modulus * (q - p) <= -(2 * Modulus))
    BY <1>1, <1>3, Multiple
  <2>3. /\ (q - p = 0 => Modulus * (q - p) = 0) /\ (q - p = 1 => Modulus * (q - p) = Modulus)
        /\ (q - p = -1 => Modulus * (q - p) = -Modulus)
    BY <1>1
  <2> QED
    BY <1>1, <1>3, <2>1, <2>2, <2>3
<1>5. Extend(h, t % Modulus) = IF e + Half < h THEN e + Modulus
                               ELSE IF e > h + Half /\ e >= Modulus THEN e - Modulus ELSE e
  BY DEF Extend
<1> HIDE DEF e
<1>6. CASE e + Half < h
  <2>1. q - p = 1
    BY <1>1, <1>3, <1>4, <1>6
  <2> QED
    BY <2>1, <1>4, <1>5, <1>6
<1>7. CASE ~(e + Half < h) /\ e > h + Half
  <2>1. q - p = -1
    BY <1>1, <1>3, <1>4, <1>7
  <2>2. t = e - Modulus
    BY <2>1, <1>4
  <2>3. e >= Modulus
    BY <2>2, <1>1, <1>3
  <2> QED
    BY <2>2, <2>3, <1>5, <1>7
<1>8. CASE ~(e + Half < h) /\ ~(e > h + Half)
  <2>1. q - p = 0
    BY <1>1, <1>3, <1>4, <1>8
  <2> QED
    BY <2>1, <1>4, <1>5, <1>8
<1> QED
  BY <1>6, <1>7, <1>8

-----------------------------------------------------------------------------
\* Bits of counters less than a window apart are different; the server's bit of a wrapped
\* number is the client's bit of its counter.
LEMMA Bits ==
  ASSUME NEW f \in Firsts
  PROVE  /\ \A x, y \in Int : Bit(x) = Bit(y) /\ x - y < Window /\ y - x < Window => x = y
         /\ \A x, i \in Int : Bit((x % Modulus) + i) = Bit(x + i)
         /\ \A x \in Int : Bit(x) \in Int /\ Bit(x % Modulus) = Bit(x) /\ x % Modulus \in 0 .. (Modulus - 1)
<1>1. Window \in Nat /\ Window > 0 /\ Modulus \in Nat /\ Modulus > 0
  BY Sizes
<1>2. ASSUME NEW x \in Int, NEW y \in Int, Bit(x) = Bit(y), x - y < Window, y - x < Window
      PROVE  x = y
  BY <1>1, <1>2, ModNear DEF Bit
<1>3. ASSUME NEW x \in Int, NEW i \in Int PROVE Bit((x % Modulus) + i) = Bit(x + i)
  <2>1. PICK k \in Nat : k > 0 /\ Half = Window * k /\ Modulus = Window * (2 * k)
    BY Sizes
  <2>2. 2 * k \in Nat /\ 2 * k > 0
    BY <2>1
  <2>3. ((x % (Window * (2 * k))) + i) % Window = (x + i) % Window
    BY <1>1, <2>2, ModOfMod
  <2> QED
    BY <2>1, <2>3 DEF Bit
<1>4. ASSUME NEW x \in Int
      PROVE  Bit(x) \in Int /\ Bit(x % Modulus) = Bit(x) /\ x % Modulus \in 0 .. (Modulus - 1)
  <2>1. x % Modulus \in 0 .. (Modulus - 1)
    BY <1>1, DivMod
  <2>2. Bit((x % Modulus) + 0) = Bit(x + 0)
    BY <1>3
  <2>3. (x % Modulus) + 0 = x % Modulus /\ x + 0 = x
    BY <2>1
  <2>4. Bit(x) \in Int
    BY <1>1, DivMod DEF Bit
  <2> QED
    BY <2>1, <2>2, <2>3, <2>4
<1> QED
  BY <1>2, <1>3, <1>4

\* What a window that moves forward remembers.
Kept(seen, h, shift) ==
  IF shift >= Window THEN {} ELSE seen \ {Bit(h + i) : i \in 1 .. shift}

\* Both windows see the packet where it is: ahead of the newest or behind it.
LEMMA Verdicts ==
  ASSUME ReplayInv, newest # -1, NEW c \in Ids, c - newest < Half, newest - c < Half
  PROVE  LET t == first + c
             h == first + newest
         IN  /\ c > newest =>
                  LET S == Kept(client.seen, h, c - newest) \cup {Bit(t)}
                  IN  /\ accept_rtp(client, Seq16(c)) = [w |-> [highest |-> t, seen |-> S], ok |-> TRUE]
                      /\ server_accept(server, Seq16(c))
                           = [w |-> [highest |-> Seq16(c), seen |-> S], ok |-> TRUE]
             /\ c <= newest =>
                  IF newest - c >= Window \/ Bit(t) \in client.seen
                  THEN /\ accept_rtp(client, Seq16(c)) = [w |-> client, ok |-> FALSE]
                       /\ server_accept(server, Seq16(c)) = [w |-> server, ok |-> FALSE]
                  ELSE LET S == client.seen \cup {Bit(t)}
                       IN  /\ accept_rtp(client, Seq16(c)) = [w |-> [highest |-> h, seen |-> S], ok |-> TRUE]
                           /\ server_accept(server, Seq16(c))
                                = [w |-> [highest |-> server.highest, seen |-> S], ok |-> TRUE]
<1> DEFINE t == first + c
           h == first + newest
<1>1. /\ first \in Firsts /\ first \in Nat /\ newest \in Nat /\ c \in Nat
      /\ t \in Nat /\ h \in Nat /\ t = first + c /\ h = first + newest
      /\ Modulus \in Nat /\ Modulus > 0 /\ Half \in Nat /\ Modulus = 2 * Half /\ Window \in Nat
  <2>1. first \in Firsts /\ newest \in -1 .. (Packets - 1)
    BY DEF ReplayInv, ReplayTypeOK
  <2>2. /\ Modulus \in Nat /\ Modulus > 0 /\ Half \in Nat /\ Modulus = 2 * Half /\ Window \in Nat
        /\ Packets \in Nat /\ first \in 0 .. (Modulus - 1)
    BY <2>1, Sizes
  <2> QED
    BY <2>1, <2>2 DEF Ids
<1> HIDE DEF t, h
<1>2. /\ client.highest = h /\ server.highest = h % Modulus /\ Seq16(c) = t % Modulus
      /\ client.seen = server.seen /\ h # -1
  BY <1>1 DEF ReplayInv, AtNewest, Seq16, t, h
<1>3. accept_rtp(client, Seq16(c)) = accept(client, t)
  <2>0. t - h < Half /\ h - t < Half
    BY <1>1
  <2>1. Extend(h, t % Modulus) = t
    BY <1>1, <2>0, ExtendIsNearest
  <2> QED
    BY <1>2, <2>1 DEF accept_rtp
<1>4. /\ Bit(Seq16(c)) = Bit(t)
      /\ \A i \in Int : Bit(server.highest + i) = Bit(h + i)
      /\ h % Modulus \in 0 .. (Modulus - 1)
  <2>1. t \in Int /\ h \in Int
    BY <1>1
  <2>2. Bit(t % Modulus) = Bit(t) /\ h % Modulus \in 0 .. (Modulus - 1)
    BY <2>1, <1>1, Bits
  <2>3. \A i \in Int : Bit((h % Modulus) + i) = Bit(h + i)
    BY <2>1, <1>1, Bits
  <2> QED
    BY <2>2, <2>3, <1>2
<1>5. server.highest # -1
  BY <1>2, <1>4
<1>6. CASE c > newest
  <2>1. t > h /\ t - h = c - newest /\ 0 <= t - h /\ t - h < Modulus
    BY <1>1, <1>6
  <2>2. ((t % Modulus) - (h % Modulus)) % Modulus = c - newest
    <3>1. t \in Int /\ h \in Int
      BY <1>1
    <3>2. ((t % Modulus) - (h % Modulus)) % Modulus = t - h
      <4>1. Modulus \in Nat /\ Modulus > 0 /\ 0 <= t - h /\ t - h < Modulus
        BY <2>1, <1>1
      <4> QED
        BY <3>1, <4>1, ModDiff
    <3> QED
      BY <3>2, <2>1
  <2>3. c - newest # 0 /\ c - newest < Half
    BY <1>1, <1>6
  <2>4. accept(client, t) = Forward(client, t, c - newest)
    BY <1>2, <2>1 DEF accept
  <2>5. server_accept(server, Seq16(c)) = Forward(server, Seq16(c), c - newest)
    BY <1>2, <1>5, <2>2, <2>3 DEF server_accept
  <2>6. {Bit(server.highest + i) : i \in 1 .. (c - newest)} = {Bit(h + i) : i \in 1 .. (c - newest)}
    <3>1. \A i \in 1 .. (c - newest) : Bit(server.highest + i) = Bit(h + i)
      BY <1>1, <1>4
    <3> QED
      BY <3>1, Zenon
  <2>7. Forward(client, t, c - newest)
          = [w |-> [highest |-> t, seen |-> Kept(client.seen, h, c - newest) \cup {Bit(t)}], ok |-> TRUE]
    BY <1>2 DEF Forward, Accept, Kept
  <2>8. Forward(server, Seq16(c), c - newest)
          = [w |-> [highest |-> Seq16(c), seen |-> Kept(client.seen, h, c - newest) \cup {Bit(t)}], ok |-> TRUE]
    BY <1>2, <1>4, <2>6 DEF Forward, Accept, Kept
  <2> QED
    BY <1>1, <1>3, <1>6, <2>4, <2>5, <2>7, <2>8 DEF t, h
<1>7. CASE c <= newest
  <2>1. ~(t > h) /\ h - t = newest - c /\ 0 <= h - t /\ h - t < Modulus
    BY <1>1, <1>7
  <2>2. ((h % Modulus) - (t % Modulus)) % Modulus = newest - c
    <3>1. t \in Int /\ h \in Int
      BY <1>1
    <3>2. ((h % Modulus) - (t % Modulus)) % Modulus = h - t
      BY <3>1, <2>1, <1>1, ModDiff
    <3> QED
      BY <3>2, <2>1
  <2>3. LET forward == ((t % Modulus) - (h % Modulus)) % Modulus
        IN  ~(forward # 0 /\ forward < Half)
    <3>1. CASE c = newest
      <4>1. 0 <= t - h /\ t - h < Modulus /\ t - h = 0
        BY <1>1, <3>1
      <4> QED
        BY <4>1, <1>1, ModDiff
    <3>2. CASE c < newest
      <4>1. t - h < 0 /\ -Modulus < t - h /\ Modulus + (t - h) > Half
        BY <1>1, <3>2
      <4>2. ((t % Modulus) - (h % Modulus)) % Modulus = Modulus + (t - h)
        <5>1. t \in Int /\ h \in Int
          BY <1>1
        <5>2. Modulus \in Nat /\ Modulus > 0
          BY <1>1
        <5>3. t - h < 0 /\ -Modulus < t - h => ((t % Modulus) - (h % Modulus)) % Modulus = Modulus + (t - h)
          BY <5>1, <5>2, ModDiff
        <5> QED
          BY <5>3, <4>1
      <4> QED
        BY <4>1, <4>2, <1>1
    <3> QED
      BY <3>1, <3>2, <1>1, <1>7
  <2>4. accept(client, t) = Behind(client, t, newest - c)
    BY <1>2, <2>1 DEF accept
  <2>5. server_accept(server, Seq16(c)) = Behind(server, Seq16(c), newest - c)
    BY <1>2, <1>5, <2>2, <2>3 DEF server_accept
  <2> QED
    <3>1. CASE newest - c >= Window \/ Bit(t) \in client.seen
      <4>1. Behind(client, t, newest - c) = [w |-> client, ok |-> FALSE]
        BY <3>1 DEF Behind, Reject
      <4>2. Behind(server, Seq16(c), newest - c) = [w |-> server, ok |-> FALSE]
        BY <3>1, <1>2, <1>4 DEF Behind, Reject
      <4> QED
        BY <4>1, <4>2, <3>1, <1>1, <1>3, <1>7, <2>4, <2>5 DEF t, h
    <3>2. CASE ~(newest - c >= Window \/ Bit(t) \in client.seen)
      <4>1. Behind(client, t, newest - c)
              = [w |-> [highest |-> h, seen |-> client.seen \cup {Bit(t)}], ok |-> TRUE]
        BY <3>2, <1>2 DEF Behind, Accept
      <4>2. Behind(server, Seq16(c), newest - c)
              = [w |-> [highest |-> server.highest, seen |-> client.seen \cup {Bit(t)}], ok |-> TRUE]
        BY <3>2, <1>2, <1>4 DEF Behind, Accept
      <4> QED
        BY <4>1, <4>2, <3>2, <1>1, <1>3, <1>7, <2>4, <2>5 DEF t, h
    <3> QED
      BY <3>1, <3>2
<1> QED
  BY <1>1, <1>6, <1>7

LEMMA Initially == ReplayInit => ReplayInv
<1> SUFFICES ASSUME ReplayInit PROVE ReplayInv
  OBVIOUS
<1>1. Packets \in Nat
  BY ReplayWindowAssumption
<1> QED
  BY <1>1 DEF ReplayInit, ReplayInv, ReplayTypeOK, Fresh, AtNewest, BitsAreAccepted, Counted, Empty, Ids

\* One more acceptance of a packet that had none keeps the counts in order.
LEMMA OneMore ==
  ASSUME NEW f \in [Ids -> Nat], NEW c \in Ids, f[c] = 0, \A d \in Ids : f[d] <= 1
  PROVE  LET g == [f EXCEPT ![c] = @ + 1]
         IN  /\ g \in [Ids -> Nat] /\ g[c] = 1
             /\ \A d \in Ids : d # c => g[d] = f[d]
             /\ \A d \in Ids : g[d] <= 1
OBVIOUS

LEMMA BothCounts ==
  ASSUME NEW g \in [Ids -> Nat], NEW x, x = [client |-> g, server |-> g]
  PROVE  x.client = g /\ x.server = g /\ x \in [client : [Ids -> Nat], server : [Ids -> Nat]]
OBVIOUS

LEMMA CountedOnce ==
  ASSUME ReplayInv, NEW c \in Ids, times.client[c] = 0,
         times' = [client |-> Add(times.client, c, TRUE), server |-> Add(times.server, c, TRUE)]
  PROVE  /\ times' \in [client : [Ids -> Nat], server : [Ids -> Nat]]
         /\ times'.client = times'.server /\ times'.client[c] = 1
         /\ \A d \in Ids : d # c => times'.client[d] = times.client[d]
         /\ \A d \in Ids : times'.client[d] <= 1
<1> DEFINE g == [times.client EXCEPT ![c] = @ + 1]
<1>1. /\ times.client \in [Ids -> Nat] /\ times.client = times.server
      /\ \A d \in Ids : times.client[d] <= 1
  BY DEF ReplayInv, ReplayTypeOK, Counted
<1>2. times' = [client |-> g, server |-> g]
  BY <1>1 DEF Add
<1>3. /\ g \in [Ids -> Nat] /\ g[c] = 1 /\ \A d \in Ids : d # c => g[d] = times.client[d]
      /\ \A d \in Ids : g[d] <= 1
  BY <1>1, OneMore
<1> HIDE DEF g
<1>4. times'.client = g /\ times'.server = g /\ times' \in [client : [Ids -> Nat], server : [Ids -> Nat]]
  BY <1>2, <1>3, BothCounts
<1> QED
  BY <1>3, <1>4

LEMMA FirstPacket ==
  ASSUME ReplayInv, OrderedStart, newest = -1, NEW c \in Ids, Arrive(c)
  PROVE  ReplayInv'
<1>1. /\ first \in Firsts /\ first \in Nat /\ first < Modulus /\ Modulus \in Nat /\ Window \in Nat /\ Packets \in Nat
  <2>1. first \in Firsts
    BY DEF ReplayInv, ReplayTypeOK
  <2>2. Modulus \in Nat /\ Window \in Nat /\ Packets \in Nat /\ first \in 0 .. (Modulus - 1)
    BY <2>1, Sizes
  <2> QED
    BY <2>1, <2>2
<1>2. c = 0 /\ Seq16(c) = first /\ newest' = 0 /\ 0 \in Ids /\ first' = first
  <2>1. c = 0 /\ newest' = 0 /\ first' = first
    BY DEF Arrive, Ids
  <2>2. first % Modulus = first /\ first + 0 = first
    BY <1>1
  <2> QED
    BY <2>1, <2>2 DEF Seq16
<1>3. client = Empty /\ server = Empty /\ Empty.highest = -1
  BY DEF ReplayInv, Fresh, Empty
<1>4. /\ client' = [highest |-> first, seen |-> {Bit(first)}]
      /\ server' = [highest |-> first, seen |-> {Bit(first)}]
      /\ times' = [client |-> Add(times.client, c, TRUE), server |-> Add(times.server, c, TRUE)]
  BY <1>2, <1>3 DEF Arrive, accept_rtp, accept, server_accept, Accept
<1>5. times.client[c] = 0
  BY <1>2 DEF ReplayInv, Counted
<1>6. /\ times' \in [client : [Ids -> Nat], server : [Ids -> Nat]]
      /\ times'.client = times'.server /\ times'.client[c] = 1
      /\ \A d \in Ids : d # c => times'.client[d] = times.client[d]
      /\ \A d \in Ids : times'.client[d] <= 1
  BY <1>4, <1>5, CountedOnce
<1>7. Bit(first) \in Int
  BY <1>1, Bits
<1>8. ReplayTypeOK'
  <2>1. 0 \in -1 .. (Packets - 1)
    BY <1>1, <1>2 DEF Ids
  <2>2. [highest |-> first, seen |-> {Bit(first)}] \in [highest : Int, seen : SUBSET Int]
    BY <1>1, <1>7
  <2> QED
    BY <2>1, <2>2, <1>1, <1>2, <1>4, <1>6 DEF ReplayTypeOK
<1>9. Fresh' /\ AtNewest'
  BY <1>1, <1>2, <1>4 DEF Fresh, AtNewest, Seq16
<1>10. BitsAreAccepted'
  <2> SUFFICES ASSUME NEW i \in 0 .. (Window - 1)
               PROVE  Bit(first + 0 - i) \in {Bit(first)} <=> i <= 0 /\ times'.client[0 - i] > 0
    BY <1>2, <1>4 DEF BitsAreAccepted
  <2>1. CASE i = 0
    <3>1. first + 0 - i = first /\ 0 - i = c
      BY <2>1, <1>1, <1>2
    <3> QED
      BY <3>1, <2>1, <1>6
  <2>2. CASE i > 0
    <3>1. first + 0 - i \in Int /\ first \in Int /\ (first + 0 - i) - first < Window
          /\ first - (first + 0 - i) < Window /\ first + 0 - i # first
      BY <2>2, <1>1
    <3>2. Bit(first + 0 - i) # Bit(first)
      BY <3>1, <1>1, Bits
    <3> QED
      BY <3>2, <2>2
  <2> QED
    BY <2>1, <2>2
<1>11. Counted'
  BY <1>2, <1>6 DEF ReplayInv, Counted, Ids
<1> QED
  BY <1>8, <1>9, <1>10, <1>11 DEF ReplayInv

LEMMA Numbers ==
  ASSUME ReplayInv, newest # -1, NEW c \in Ids
  PROVE  /\ first \in Firsts /\ first \in Nat /\ newest \in Nat /\ newest < Packets /\ c \in Nat /\ c < Packets
         /\ Modulus \in Nat /\ Window \in Nat /\ Window > 0 /\ Packets \in Nat /\ Half \in Nat
         /\ client.seen \in SUBSET Int /\ client.seen = server.seen
         /\ client.highest = first + newest /\ server.highest = Seq16(newest)
<1>1. first \in Firsts /\ newest \in -1 .. (Packets - 1)
  BY DEF ReplayInv, ReplayTypeOK
<1>2. /\ Modulus \in Nat /\ Window \in Nat /\ Window > 0 /\ Packets \in Nat /\ Half \in Nat
      /\ first \in 0 .. (Modulus - 1)
  BY <1>1, Sizes
<1>3. client.seen \in SUBSET Int
  BY DEF ReplayInv, ReplayTypeOK
<1>4. client.seen = server.seen /\ client.highest = first + newest /\ server.highest = Seq16(newest)
  BY DEF ReplayInv, AtNewest
<1> QED
  BY <1>1, <1>2, <1>3, <1>4 DEF Ids

\* Which counters a window that moved forward to t still knows.
LEMMA KeptBits ==
  ASSUME NEW f \in Firsts, NEW h \in Int, NEW shift \in Nat, shift > 0, NEW seen,
         NEW i \in 1 .. (Window - 1)
  PROVE  Bit(h + shift - i) \in Kept(seen, h, shift) \cup {Bit(h + shift)}
           <=> i >= shift /\ Bit(h + shift - i) \in seen
<1>1. Window \in Nat
  BY Sizes
<1>2. Bit(h + shift - i) # Bit(h + shift)
  <2>1. h + shift - i \in Int /\ h + shift \in Int /\ h + shift - i # h + shift
        /\ (h + shift - i) - (h + shift) < Window /\ (h + shift) - (h + shift - i) < Window
    BY <1>1
  <2> QED
    BY <2>1, Bits
<1>3. CASE i < shift
  <2>1. shift - i \in 1 .. shift /\ h + (shift - i) = h + shift - i
    BY <1>1, <1>3
  <2>2. Bit(h + shift - i) \in {Bit(h + j) : j \in 1 .. shift}
    BY <2>1
  <2> QED
    BY <1>2, <1>3, <2>2, <1>1 DEF Kept
<1>4. CASE i >= shift
  <2>1. shift < Window
    BY <1>1, <1>4
  <2>2. ASSUME NEW j \in 1 .. shift PROVE Bit(h + j) # Bit(h + shift - i)
    <3>1. h + j \in Int /\ h + shift - i \in Int /\ h + j # h + shift - i
          /\ (h + j) - (h + shift - i) < Window /\ (h + shift - i) - (h + j) < Window
      BY <1>1, <1>4
    <3> QED
      BY <3>1, Bits
  <2>3. Bit(h + shift - i) \notin {Bit(h + j) : j \in 1 .. shift}
    BY <2>2
  <2>4. ~(shift >= Window)
    BY <2>1, <1>1
  <2> QED
    BY <1>2, <1>4, <2>3, <2>4 DEF Kept
<1> QED
  BY <1>1, <1>3, <1>4

LEMMA Ahead ==
  ASSUME ReplayInv, newest # -1, NEW c \in Ids, c > newest, Arrive(c)
  PROVE  ReplayInv'
<1> DEFINE t == first + c
           h == first + newest
           S == Kept(client.seen, h, c - newest) \cup {Bit(t)}
<1>1. /\ first \in Firsts /\ first \in Nat /\ newest \in Nat /\ c \in Nat /\ c < Packets
      /\ Window \in Nat /\ Window > 0 /\ Packets \in Nat /\ client.seen \in SUBSET Int
  BY Numbers
<1>2. c - newest < Half /\ newest - c < Half
  BY DEF Arrive
<1>3. /\ accept_rtp(client, Seq16(c)) = [w |-> [highest |-> t, seen |-> S], ok |-> TRUE]
      /\ server_accept(server, Seq16(c)) = [w |-> [highest |-> Seq16(c), seen |-> S], ok |-> TRUE]
  BY <1>2, Verdicts
<1>4. /\ newest' = c /\ first' = first
      /\ client' = [highest |-> t, seen |-> S] /\ server' = [highest |-> Seq16(c), seen |-> S]
      /\ times' = [client |-> Add(times.client, c, TRUE), server |-> Add(times.server, c, TRUE)]
  BY <1>3 DEF Arrive
<1>5. times.client[c] = 0 /\ \A d \in Ids : d > newest => times.client[d] = 0
  BY DEF ReplayInv, Counted
<1>6. /\ times' \in [client : [Ids -> Nat], server : [Ids -> Nat]]
      /\ times'.client = times'.server /\ times'.client[c] = 1
      /\ \A d \in Ids : d # c => times'.client[d] = times.client[d]
      /\ \A d \in Ids : times'.client[d] <= 1
  BY <1>4, <1>5, CountedOnce
<1>7. ReplayTypeOK'
  <2>1. t \in Int /\ Seq16(c) \in Int /\ Bit(t) \in Int
    BY <1>1, Bits DEF Seq16
  <2>2. S \in SUBSET Int
    BY <2>1, <1>1 DEF Kept
  <2> HIDE DEF t, S
  <2>3. /\ [highest |-> t, seen |-> S] \in [highest : Int, seen : SUBSET Int]
        /\ [highest |-> Seq16(c), seen |-> S] \in [highest : Int, seen : SUBSET Int]
    BY <2>1, <2>2
  <2>4. c \in -1 .. (Packets - 1)
    BY <1>1
  <2> QED
    BY <2>3, <2>4, <1>1, <1>4, <1>6 DEF ReplayTypeOK
<1>8. Fresh' /\ AtNewest'
  BY <1>1, <1>4 DEF Fresh, AtNewest, Seq16
<1>9. BitsAreAccepted'
  <2> SUFFICES ASSUME NEW i \in 0 .. (Window - 1)
               PROVE  Bit(first + c - i) \in S <=> i <= c /\ times'.client[c - i] > 0
    BY <1>4 DEF BitsAreAccepted
  <2>1. CASE i = 0
    <3>1. first + c - i = t /\ c - i = c
      BY <2>1, <1>1
    <3> QED
      BY <3>1, <2>1, <1>1, <1>6
  <2>2. CASE i > 0
    <3>1. h + (c - newest) = t /\ h \in Int /\ c - newest \in Nat /\ c - newest > 0 /\ i \in 1 .. (Window - 1)
      BY <1>1, <2>2
    <3>2. Bit(t - i) \in S <=> i >= c - newest /\ Bit(t - i) \in client.seen
      <4> HIDE DEF h, t
      <4>1. Bit(h + (c - newest) - i) \in Kept(client.seen, h, c - newest) \cup {Bit(h + (c - newest))}
              <=> i >= c - newest /\ Bit(h + (c - newest) - i) \in client.seen
        BY <3>1, <1>1, KeptBits
      <4> QED
        BY <3>1, <4>1
    <3>3. CASE i < c - newest
      <4>1. c - i \in Ids /\ c - i > newest /\ c - i # c
        BY <1>1, <2>2, <3>3 DEF Ids
      <4>2. times'.client[c - i] = 0
        BY <4>1, <1>5, <1>6
      <4>3. ~(i >= c - newest)
        BY <1>1, <3>3
      <4> QED
        <5>1. ~(times'.client[c - i] > 0)
          BY <4>2
        <5>2. first + c - i = t - i
          BY <1>1
        <5> QED
          BY <3>2, <4>3, <5>1, <5>2
    <3>4. CASE i >= c - newest
      <4> DEFINE j == i - (c - newest)
      <4>1. /\ j \in 0 .. (Window - 1) /\ first + newest - j = t - i /\ newest - j = c - i
            /\ (j <= newest <=> i <= c)
        BY <1>1, <3>4
      <4>2. Bit(first + newest - j) \in client.seen <=> j <= newest /\ times.client[newest - j] > 0
        BY <4>1 DEF ReplayInv, BitsAreAccepted
      <4>3. i <= c => times'.client[c - i] = times.client[c - i]
        <5>1. i <= c => c - i \in Ids /\ c - i # c
          BY <1>1, <2>2 DEF Ids
        <5> QED
          BY <5>1, <1>6
      <4> HIDE DEF j
      <4> QED
        BY <3>2, <3>4, <4>1, <4>2, <4>3
    <3> QED
      BY <3>3, <3>4, <1>1
  <2> QED
    BY <2>1, <2>2
<1>10. Counted'
  <2>1. \A d \in Ids : d > c => times'.client[d] = 0
    <3> SUFFICES ASSUME NEW d \in Ids, d > c PROVE times'.client[d] = 0
      OBVIOUS
    <3>1. d > newest /\ d # c
      BY <1>1 DEF Ids
    <3> QED
      BY <3>1, <1>5, <1>6
  <2> QED
    BY <2>1, <1>4, <1>6 DEF Counted
<1> QED
  BY <1>7, <1>8, <1>9, <1>10 DEF ReplayInv

LEMMA Late ==
  ASSUME ReplayInv, newest # -1, NEW c \in Ids, c <= newest, Arrive(c)
  PROVE  ReplayInv'
<1> DEFINE t == first + c
           h == first + newest
           S == client.seen \cup {Bit(t)}
<1>1. /\ first \in Firsts /\ first \in Nat /\ newest \in Nat /\ newest < Packets /\ c \in Nat
      /\ Window \in Nat /\ Window > 0 /\ Packets \in Nat /\ client.seen \in SUBSET Int
      /\ server.highest = Seq16(newest)
  BY Numbers
<1>2. c - newest < Half /\ newest - c < Half
  BY DEF Arrive
<1>3. newest' = newest /\ first' = first
  BY <1>1 DEF Arrive
<1>4. CASE newest - c >= Window \/ Bit(t) \in client.seen
  <2>1. /\ accept_rtp(client, Seq16(c)) = [w |-> client, ok |-> FALSE]
        /\ server_accept(server, Seq16(c)) = [w |-> server, ok |-> FALSE]
    BY <1>2, <1>4, Verdicts
  <2>2. client' = client /\ server' = server
        /\ times' = [client |-> times.client, server |-> times.server]
    BY <2>1 DEF Arrive, Add
  <2>3. times' = times
    BY <2>2 DEF ReplayInv, ReplayTypeOK
  <2> QED
    BY <2>2, <2>3, <1>3 DEF ReplayInv, ReplayTypeOK, Fresh, AtNewest, BitsAreAccepted, Counted, Seq16
<1>5. CASE ~(newest - c >= Window \/ Bit(t) \in client.seen)
  <2>1. /\ accept_rtp(client, Seq16(c)) = [w |-> [highest |-> h, seen |-> S], ok |-> TRUE]
        /\ server_accept(server, Seq16(c)) = [w |-> [highest |-> server.highest, seen |-> S], ok |-> TRUE]
    BY <1>2, <1>5, Verdicts
  <2>2. /\ client' = [highest |-> h, seen |-> S] /\ server' = [highest |-> server.highest, seen |-> S]
        /\ times' = [client |-> Add(times.client, c, TRUE), server |-> Add(times.server, c, TRUE)]
    BY <2>1 DEF Arrive
  <2>3. times.client[c] = 0
    <3> DEFINE k == newest - c
    <3>1. k \in 0 .. (Window - 1) /\ first + newest - k = t /\ newest - k = c /\ k <= newest
      BY <1>1, <1>5
    <3>2. Bit(first + newest - k) \in client.seen <=> k <= newest /\ times.client[newest - k] > 0
      BY <3>1 DEF ReplayInv, BitsAreAccepted
    <3> HIDE DEF k
    <3>3. ~(times.client[c] > 0)
      BY <3>1, <3>2, <1>5
    <3>4. times.client[c] \in Nat
      BY DEF ReplayInv, ReplayTypeOK
    <3> QED
      BY <3>3, <3>4
  <2>4. /\ times' \in [client : [Ids -> Nat], server : [Ids -> Nat]]
        /\ times'.client = times'.server /\ times'.client[c] = 1
        /\ \A d \in Ids : d # c => times'.client[d] = times.client[d]
        /\ \A d \in Ids : times'.client[d] <= 1
    BY <2>2, <2>3, CountedOnce
  <2>5. ReplayTypeOK'
    <3>1. h \in Int /\ server.highest \in Int /\ Bit(t) \in Int
      BY <1>1, Bits DEF ReplayInv, ReplayTypeOK
    <3>2. S \in SUBSET Int
      BY <3>1, <1>1
    <3> HIDE DEF h, S
    <3>3. /\ [highest |-> h, seen |-> S] \in [highest : Int, seen : SUBSET Int]
          /\ [highest |-> server.highest, seen |-> S] \in [highest : Int, seen : SUBSET Int]
      BY <3>1, <3>2
    <3>4. newest \in -1 .. (Packets - 1)
      BY <1>1
    <3> QED
      BY <3>3, <3>4, <1>1, <1>3, <2>2, <2>4 DEF ReplayTypeOK
  <2>6. Fresh' /\ AtNewest'
    BY <1>1, <1>3, <2>2 DEF Fresh, AtNewest, Seq16
  <2>7. BitsAreAccepted'
    <3> SUFFICES ASSUME NEW i \in 0 .. (Window - 1)
                 PROVE  Bit(first + newest - i) \in S <=> i <= newest /\ times'.client[newest - i] > 0
      BY <1>3, <2>2 DEF BitsAreAccepted
    <3>1. CASE i = newest - c
      <4>1. first + newest - i = t /\ newest - i = c /\ i <= newest
        BY <3>1, <1>1
      <4>2. 1 > 0
        OBVIOUS
      <4> QED
        BY <4>1, <4>2, <2>4
    <3>2. CASE i # newest - c
      <4>1. Bit(first + newest - i) # Bit(t)
        <5>1. first + newest - i \in Int /\ t \in Int /\ first + newest - i # t
              /\ (first + newest - i) - t < Window /\ t - (first + newest - i) < Window
          BY <1>1, <1>5, <3>2
        <5> QED
          BY <5>1, <1>1, Bits
      <4>2. Bit(first + newest - i) \in client.seen <=> i <= newest /\ times.client[newest - i] > 0
        BY DEF ReplayInv, BitsAreAccepted
      <4>3. i <= newest => newest - i \in Ids /\ newest - i # c
        BY <1>1, <3>2 DEF Ids
      <4> QED
        BY <4>1, <4>2, <4>3, <2>4
    <3> QED
      BY <3>1, <3>2
  <2>8. Counted'
    <3>1. \A d \in Ids : d > newest => times'.client[d] = 0
      <4> SUFFICES ASSUME NEW d \in Ids, d > newest PROVE times'.client[d] = 0
        OBVIOUS
      <4>1. d # c
        BY <1>1 DEF Ids
      <4>2. times.client[d] = 0
        BY DEF ReplayInv, Counted
      <4> QED
        BY <4>1, <4>2, <2>4
    <3> QED
      BY <3>1, <1>3, <2>4 DEF Counted
  <2> QED
    BY <2>5, <2>6, <2>7, <2>8 DEF ReplayInv
<1> QED
  BY <1>4, <1>5
-----------------------------------------------------------------------------
LEMMA Inductive ==
  ASSUME OrderedStart PROVE ReplayInv /\ [ReplayNext]_replayVars => ReplayInv'
<1> SUFFICES ASSUME ReplayInv, [ReplayNext]_replayVars PROVE ReplayInv'
  OBVIOUS
<1>1. CASE UNCHANGED replayVars
  BY <1>1 DEF replayVars, ReplayInv, ReplayTypeOK, Fresh, AtNewest, BitsAreAccepted, Counted, Seq16
<1>2. ASSUME NEW c \in Ids, Arrive(c) PROVE ReplayInv'
  <2>1. CASE newest = -1
    BY <2>1, <1>2, FirstPacket
  <2>2. CASE newest # -1 /\ c > newest
    BY <2>2, <1>2, Ahead
  <2>3. CASE newest # -1 /\ ~(c > newest)
    <3>1. c <= newest
      BY <2>3, Numbers
    <3> QED
      BY <3>1, <2>3, <1>2, Late
  <2> QED
    BY <2>1, <2>2, <2>3
<1> QED
  BY <1>1, <1>2 DEF ReplayNext

\* Both windows stand at the newest packet that arrived, and the bits within a window of it are
\* exactly the packets let through (ReplayWindow::accept_rtp and ReplayState::accept), for every
\* number space, window size and length of a session that starts with its first packet.
THEOREM WindowInvariant == ASSUME OrderedStart PROVE ReplaySpec => []ReplayInv
<1>1. ReplayInit => ReplayInv
  BY Initially
<1>2. ReplayInv /\ [ReplayNext]_replayVars => ReplayInv'
  BY Inductive
<1> QED
  BY <1>1, <1>2, PTL DEF ReplaySpec

\* No copy of a packet passes the client's window twice, however late it comes and however often
\* its 16-bit number has wrapped (ReplayWindow::accept_rtp).
THEOREM PassesOnce == ASSUME OrderedStart PROVE ReplaySpec => []ClientOnce
<1>1. ReplayInv => ClientOnce
  BY DEF ReplayInv, Counted, ClientOnce
<1> QED
  BY <1>1, WindowInvariant, PTL

\* The client's window on 64-bit counters and the server's on wrapping 16-bit numbers let the
\* same packets through.
THEOREM WindowsAgree == ASSUME OrderedStart PROVE ReplaySpec => []SameVerdict
<1>1. ReplayInv => SameVerdict
  BY DEF ReplayInv, Counted, SameVerdict
<1> QED
  BY <1>1, WindowInvariant, PTL

\* A packet neither window has let through, less than a window late and less than half the
\* numbers ahead, would be let through by both.
THEOREM LateIsNotLost == ASSUME OrderedStart PROVE ReplaySpec => []FreshIsAccepted
<1>1. ReplayInv => FreshIsAccepted
  <2> SUFFICES ASSUME ReplayInv, NEW c \in Ids, c - newest < Half, newest - c < Window,
                      times.client[c] = 0 \/ times.server[c] = 0
               PROVE  accept_rtp(client, Seq16(c)).ok /\ server_accept(server, Seq16(c)).ok
    BY DEF FreshIsAccepted
  <2>1. CASE newest = -1
    <3>1. client.highest = -1 /\ server.highest = -1
      BY <2>1 DEF ReplayInv, Fresh, Empty
    <3> QED
      BY <3>1 DEF accept_rtp, accept, server_accept, Accept
  <2>2. CASE newest # -1
    <3>1. /\ first \in Firsts /\ first \in Nat /\ newest \in Nat /\ c \in Nat
          /\ Window \in Nat /\ Half \in Nat
      BY <2>2, Numbers
    <3>2. newest - c < Half
      <4>1. Window <= Half
        BY <3>1, Sizes
      <4> QED
        BY <4>1, <3>1
    <3>3. CASE c > newest
      BY <2>2, <3>2, <3>3, Verdicts
    <3>4. CASE c <= newest
      <4> DEFINE k == newest - c
      <4>1. k \in 0 .. (Window - 1) /\ first + newest - k = first + c /\ newest - k = c
        BY <3>1, <3>4
      <4>2. Bit(first + newest - k) \in client.seen <=> k <= newest /\ times.client[newest - k] > 0
        BY <2>2, <4>1 DEF ReplayInv, BitsAreAccepted
      <4> HIDE DEF k
      <4>3. times.client[c] = 0
        BY DEF ReplayInv, Counted
      <4>4. Bit(first + c) \notin client.seen
        BY <4>1, <4>2, <4>3
      <4>5. ~(newest - c >= Window)
        BY <3>1
      <4> QED
        BY <2>2, <3>2, <3>4, <4>4, <4>5, Verdicts
    <3> QED
      BY <3>1, <3>3, <3>4
  <2> QED
    BY <2>1, <2>2
<1> QED
  BY <1>1, WindowInvariant, PTL

-----------------------------------------------------------------------------
(***************************************************************************)
(* The web view of a captcha: while a request is open, the channel holds   *)
(* only results that came for it, so none that is taken is late.           *)
(***************************************************************************)
Result == [ok : BOOLEAN, now : BOOLEAN]

\* fetch keeps the fields of Idle.
IsFetch(f) ==
  f = [pc |-> f.pc, by |-> f.by, try |-> f.try, captchas |-> f.captchas, stage |-> f.stage]

WebViewInv ==
  /\ IsFetch(fetch) /\ late = FALSE /\ chan \in Seq(Result)
  /\ fetch.pc = "webview" => \A i \in 1 .. Len(chan) : chan[i].now

\* What every step but OpenWebView does to the request.
Elsewhere(f) == IsFetch(f) /\ f.pc # "webview"

\* Outside the web view the channel may hold results of earlier requests.
LEMMA AwayFromWebView ==
  ASSUME WebViewInv, Elsewhere(fetch'), UNCHANGED <<chan, late>>
  PROVE  WebViewInv'
BY DEF WebViewInv, Elsewhere

LEMMA RequestKept ==
  ASSUME WebViewInv, UNCHANGED <<fetch, chan, late>>
  PROVE  WebViewInv'
BY DEF WebViewInv, IsFetch

LEMMA Returns == Return => Elsewhere(fetch')
BY DEF Return, Idle, Elsewhere, IsFetch

LEMMA Goes ==
  ASSUME WebViewInv, NEW p \in {"calls", "legacy"}, Goto(p)
  PROVE  Elsewhere(fetch')
BY DEF WebViewInv, Goto, Elsewhere, IsFetch

LEMMA NextTries ==
  ASSUME WebViewInv, NextAttempt
  PROVE  Elsewhere(fetch')
<1>1. CASE Return
  BY <1>1, Returns
<1>2. CASE fetch' = [fetch EXCEPT !.pc = "legacy", !.try = @ + 1, !.captchas = 0, !.stage = 0]
  BY <1>2 DEF WebViewInv, Elsewhere, IsFetch
<1> QED
  BY <1>1, <1>2 DEF NextAttempt

LEMMA StageFails ==
  ASSUME WebViewInv, StageFailed
  PROVE  Elsewhere(fetch')
<1>1. CASE Return
  BY <1>1, Returns
<1>2. CASE fetch' = [fetch EXCEPT !.pc = "solve", !.stage = @ + 1]
  BY <1>2 DEF WebViewInv, Elsewhere, IsFetch
<1> QED
  BY <1>1, <1>2 DEF StageFailed, ReturnWait

LEMMA IsSolved ==
  ASSUME WebViewInv, Solved
  PROVE  Elsewhere(fetch')
BY DEF WebViewInv, Solved, Elsewhere, IsFetch

\* The paths of get_credentials: none of them touches the channel.
LEMMA RequestKeeps ==
  ASSUME WebViewInv,
         \/ \E c \in Cohorts : Begin(c)
         \/ Broker \/ CallsPath \/ LegacyStart \/ Anonymous \/ Join \/ Drop \/ Script
  PROVE  WebViewInv'
<1> USE DEF wvVars
<1>0. \A x : IsFetch([fetch EXCEPT !.pc = x]) /\ [fetch EXCEPT !.pc = x].pc = x
  BY DEF WebViewInv, IsFetch
<1>1. ASSUME NEW c \in Cohorts, Begin(c) PROVE WebViewInv'
  <2>1. UNCHANGED <<chan, late>>
    BY <1>1 DEF Begin
  <2>2. CASE fetch' = fetch
    BY <2>1, <2>2, RequestKept
  <2>3. CASE fetch' # fetch
    <3>1. PICK p \in {"broker", "calls", "legacy"} :
            fetch' = [fetch EXCEPT !.by = c, !.try = 1, !.pc = p]
      BY <1>1, <2>3 DEF Begin
    <3>2. Elsewhere(fetch')
      BY <3>1 DEF WebViewInv, Elsewhere, IsFetch
    <3> QED
      BY <2>1, <3>2, AwayFromWebView
  <2> QED
    BY <2>2, <2>3
<1>2. ASSUME Broker PROVE WebViewInv'
  <2>1. Elsewhere(fetch')
    BY <1>2, Returns, Goes DEF Broker
  <2> QED
    BY <1>2, <2>1, AwayFromWebView DEF Broker
<1>3. ASSUME CallsPath PROVE WebViewInv'
  <2>1. CASE fetch' = [fetch EXCEPT !.try = @ + 1] /\ fetch.pc = "calls"
    BY <1>3, <2>1, AwayFromWebView DEF CallsPath, WebViewInv, Elsewhere, IsFetch
  <2>2. CASE Return \/ Goto("legacy")
    <3>1. Elsewhere(fetch')
      BY <2>2, Returns, Goes
    <3> QED
      BY <1>3, <3>1, AwayFromWebView DEF CallsPath
  <2> QED
    BY <1>3, <2>1, <2>2 DEF CallsPath, ReturnGone
<1>4. ASSUME LegacyStart PROVE WebViewInv'
  <2>1. Elsewhere(fetch')
    BY <1>0, <1>4, Returns, NextTries DEF LegacyStart, ReturnGone, Elsewhere
  <2> QED
    BY <1>4, <2>1, AwayFromWebView DEF LegacyStart
<1>5. ASSUME Anonymous PROVE WebViewInv'
  <2>1. CASE fetch' = [fetch EXCEPT !.pc = "solve", !.captchas = @ + 1, !.stage = 1]
    <3>1. Elsewhere(fetch')
      BY <2>1 DEF WebViewInv, Elsewhere, IsFetch
    <3> QED
      BY <1>5, <3>1, AwayFromWebView DEF Anonymous
  <2>2. CASE Return \/ NextAttempt \/ fetch' = [fetch EXCEPT !.pc = "join"]
    <3>1. Elsewhere(fetch')
      BY <1>0, <2>2, Returns, NextTries DEF Elsewhere
    <3> QED
      BY <1>5, <3>1, AwayFromWebView DEF Anonymous
  <2> QED
    BY <1>5, <2>1, <2>2 DEF Anonymous, AskCaptcha, ReturnGone, ReturnWait
<1>6. ASSUME Join PROVE WebViewInv'
  <2>1. Elsewhere(fetch')
    BY <1>6, Returns, NextTries DEF Join
  <2> QED
    BY <1>6, <2>1, AwayFromWebView DEF Join
<1>7. ASSUME Drop PROVE WebViewInv'
  <2>1. Elsewhere(fetch')
    BY <1>7, Returns DEF Drop
  <2> QED
    BY <1>7, <2>1, AwayFromWebView DEF Drop
<1>8. ASSUME Script PROVE WebViewInv'
  <2>1. UNCHANGED <<chan, late>>
    BY <1>8 DEF Script
  <2>2. CASE Solved \/ StageFailed
    <3>1. Elsewhere(fetch')
      BY <2>2, IsSolved, StageFails
    <3> QED
      BY <2>1, <3>1, AwayFromWebView
  <2>3. CASE AttemptsCancelled
    <3>1. PICK s : fetch' = [fetch EXCEPT !.stage = s]
      BY <2>3 DEF AttemptsCancelled
    <3>2. fetch.pc = "solve"
      BY <1>8 DEF Script
    <3>3. Elsewhere(fetch')
      BY <3>1, <3>2 DEF WebViewInv, Elsewhere, IsFetch
    <3> QED
      BY <2>1, <3>3, AwayFromWebView
  <2>4. CASE fetch' = fetch
    BY <2>1, <2>4, RequestKept
  <2> QED
    BY <1>8, <2>2, <2>3, <2>4 DEF Script
<1> QED
  BY <1>1, <1>2, <1>3, <1>4, <1>5, <1>6, <1>7, <1>8

\* Opening a request empties the channel; what is taken while it is open came for it.
LEMMA WebViewKeeps ==
  ASSUME WebViewInv, OpenWebView \/ WebView \/ Answer \/ Forget
  PROVE  WebViewInv'
<1>1. ASSUME OpenWebView PROVE WebViewInv'
  <2>1. chan' = [i \in DOMAIN << >> |-> [<< >>[i] EXCEPT !.now = FALSE]]
    BY <1>1 DEF OpenWebView, Drained
  <2>2. DOMAIN << >> = {}
    OBVIOUS
  <2>3. chan' = << >>
    BY <2>1, <2>2
  <2>4. IsFetch(fetch') /\ late' = late
    BY <1>1 DEF OpenWebView, WebViewInv, IsFetch
  <2> QED
    BY <2>3, <2>4 DEF WebViewInv
<1>2. ASSUME WebView PROVE WebViewInv'
  <2>1. CASE StageFailed /\ UNCHANGED <<chan, late>>
    BY <2>1, StageFails, AwayFromWebView
  <2>2. CASE ReturnWait /\ UNCHANGED <<chan, late>>
    BY <2>2, Returns, AwayFromWebView DEF ReturnWait
  <2>3. CASE /\ chan # <<>> /\ chan' = Tail(chan)
             /\ IF Head(chan).ok
                THEN Solved /\ late' = (late \/ ~Head(chan).now) /\ UNCHANGED lockout
                ELSE StageFailed /\ UNCHANGED late
    <3>1. Tail(chan) \in Seq(Result) /\ Head(chan) = chan[1] /\ 1 \in 1 .. Len(chan)
      BY <2>3 DEF WebViewInv
    <3>2. Head(chan).now
      BY <1>2, <3>1 DEF WebView, WebViewInv
    <3>3. late' = FALSE
      BY <2>3, <3>2 DEF WebViewInv
    <3>4. Elsewhere(fetch')
      BY <2>3, IsSolved, StageFails
    <3> QED
      BY <2>3, <3>1, <3>3, <3>4 DEF WebViewInv, Elsewhere
  <2> QED
    BY <1>2, <2>1, <2>2, <2>3 DEF WebView, WebViewTimeout
<1>3. ASSUME Answer PROVE WebViewInv'
  <2>1. UNCHANGED <<fetch, late>>
    BY <1>3 DEF Answer, fetchVars
  <2>2. PICK ok \in BOOLEAN :
          chan' = IF Len(chan) < 1
                  THEN Append(chan, [ok |-> ok, now |-> fetch.pc = "webview"]) ELSE chan
    BY <1>3 DEF Answer
  <2>3. PICK r : r = [ok |-> ok, now |-> fetch.pc = "webview"]
    OBVIOUS
  <2>4. r \in Result /\ (fetch.pc = "webview" => r.now)
    BY <2>3 DEF Result
  <2>5. CASE chan' = chan
    BY <2>1, <2>5, RequestKept
  <2>6. CASE chan' = Append(chan, r)
    <3>1. chan' \in Seq(Result) /\ Len(chan') = Len(chan) + 1 /\ Len(chan) \in Nat
      BY <2>4, <2>6 DEF WebViewInv
    <3>2. ASSUME NEW i \in 1 .. Len(chan'), fetch.pc = "webview" PROVE chan'[i].now
      <4>1. CASE i = Len(chan) + 1
        BY <2>4, <2>6, <3>1, <3>2, <4>1 DEF WebViewInv
      <4>2. CASE i # Len(chan) + 1
        <5>1. i \in 1 .. Len(chan)
          BY <3>1, <4>2
        <5>2. chan'[i] = chan[i]
          BY <2>4, <2>6, <5>1 DEF WebViewInv
        <5> QED
          BY <3>2, <5>1, <5>2 DEF WebViewInv
      <4> QED
        BY <4>1, <4>2
    <3> QED
      BY <2>1, <3>1, <3>2 DEF WebViewInv, IsFetch
  <2> QED
    BY <2>2, <2>3, <2>5, <2>6
<1>4. ASSUME Forget PROVE WebViewInv'
  BY <1>4, RequestKept DEF Forget, fetchVars
<1> QED
  BY <1>1, <1>2, <1>3, <1>4

LEMMA WebViewInductive == WebViewInv /\ [Next]_vars => WebViewInv'
<1> SUFFICES ASSUME WebViewInv, [Next]_vars PROVE WebViewInv'
  OBVIOUS
<1>1. CASE UNCHANGED vars
  BY <1>1, RequestKept DEF vars, fetchVars, wvVars
<1>2. CASE \/ LockoutEnds \/ Stop \/ FinishCalls \/ Main
  BY <1>2, RequestKept
     DEF LockoutEnds, Stop, FinishCalls, Main, ValidateHashes, Boot, StartCall, Check,
         GroupsEnd, Unwind, Close, fetchVars, wvVars
<1> QED
  BY <1>1, <1>2, RequestKeeps, WebViewKeeps DEF Next, Work

\* A captcha is solved only by a web view result that was submitted while its own request was
\* open (CaptchaSolver::webview), for every number of cohorts, attempts, captchas and web views.
THEOREM LateResultsAreDropped == Spec => []AnswerIsFresh
<1>1. Init => WebViewInv
  BY DEF Init, Idle, WebViewInv, IsFetch
<1>2. WebViewInv => AnswerIsFresh
  BY DEF WebViewInv, AnswerIsFresh
<1> QED
  BY <1>1, <1>2, WebViewInductive, PTL DEF Spec

-----------------------------------------------------------------------------
(***************************************************************************)
(* The allocation at a TURN server.                                        *)
(***************************************************************************)

Operation == {"allocate", "refresh", "permission", "channel", "deallocate"}
TurnState == {"null", "allocating", "ready", "deallocating", "deallocated", "destroying"}
EventKind == {"state", "complete", "relay", "bound", "exhausted", "overflow", "forced"}
AnEvent ==
  [kind : EventKind, what : Operation \cup TurnState \cup {"address", "events", "controls", "destroy"},
   ok : BOOLEAN]

IsCore(c) ==
  /\ c = [state |-> c.state, pending |-> c.pending, controls |-> c.controls, events |-> c.events,
          key |-> c.key, expires |-> c.expires, channel |-> c.channel, failures |-> c.failures,
          timers |-> c.timers, shutting |-> c.shutting, destroyed |-> c.destroyed]
  /\ c.events \in Seq(AnEvent)

IsRequest(p) ==
  p = [op |-> p.op, auth |-> p.auth, sends |-> p.sends, nonces |-> p.nonces, out |-> p.out]

\* The operations that may be pending in a state, each of them once.
Allowed(state) ==
  CASE state = "allocating" -> {"allocate"}
    [] state = "ready" -> Maintenance
    [] state = "deallocating" -> {"deallocate"}
    [] OTHER -> {}

Fits(pending, state) ==
  \A p \in pending : /\ IsRequest(p) /\ p.op \in Allowed(state)
                     /\ \A q \in pending : q.op = p.op => q = p

\* A state in which the driver may end is about to be published.
Announced(c) ==
  \E i \in 1 .. Len(c.events) : c.events[i].kind = "state" /\ Finished(c.events[i].what)

Over == {"deallocated", "destroying"}

\* There is nothing to give back, or it has been given back, or the code gives up.
Settled(c, ok) == ~c.expires \/ Exhausted(c) \/ ok

\* What holds of the core when the give-back was sent or cut short (ok), when anything was sent
\* (sent), and when a final state was published (final).
CoreInv(c, ok, sent, final) ==
  /\ IsCore(c) /\ Fits(c.pending, c.state)
  /\ c.expires \/ (\E p \in c.pending : p.out) => sent
  /\ c.state \in Over \/ final \/ Announced(c) =>
       c.state \in Over \cup {"deallocating"} /\ Settled(c, ok)

IsShared(s) ==
  s = [closing |-> s.closing, terminal |-> s.terminal, sent |-> s.sent, wake |-> s.wake,
       closed |-> s.closed, state |-> s.state, channel |-> s.channel, allocate |-> s.allocate,
       binds |-> s.binds, bind |-> s.bind]

IsDriver(d) ==
  d = [pc |-> d.pc, pump |-> d.pump, late |-> d.late, due |-> d.due, lost |-> d.lost,
       cleanup |-> d.cleanup, cut |-> d.cut, freed |-> d.freed]

IsOwner(o) == o = [pc |-> o.pc, baseline |-> o.baseline]

TurnInv ==
  /\ IsShared(shared) /\ IsDriver(driver) /\ IsOwner(owner)
  /\ CoreInv(core, driver.freed \/ driver.cut, shared.sent, Finished(shared.state))
  /\ driver.pc = "done" => core.destroyed /\ Settled(core, driver.freed \/ driver.cut)
  /\ driver.cut \in BOOLEAN /\ (driver.cut => driver.pc = "done")
  /\ owner.pc = "dial" => driver.pc = "idle"

LEMMA FinalStates ==
  /\ Finished("deallocated") /\ Finished("destroying")
  /\ ~Finished("null") /\ ~Finished("allocating") /\ ~Finished("ready") /\ ~Finished("deallocating")
BY DEF Finished, Rank

-----------------------------------------------------------------------------
\* What the operators on the core make of it

\* d has these parts, and announces an end only where c does or where it is in one.
Becomes(d, c, state, pending, expires, failures) ==
  /\ IsCore(d) /\ d.state = state /\ d.pending = pending /\ d.expires = expires
  /\ d.failures = failures
  /\ Announced(d) => Announced(c) \/ state \in Over

LEMMA PushMakes ==
  ASSUME NEW c, IsCore(c), NEW e \in AnEvent
  PROVE  /\ IsCore(PushEvent(c, e))
         /\ PushEvent(c, e) = [c EXCEPT !.events = PushEvent(c, e).events]
         /\ Announced(PushEvent(c, e)) => Announced(c) \/ (e.kind = "state" /\ Finished(e.what))
<1>1. PICK x : x = Event("overflow", "events", FALSE)
  OBVIOUS
<1>2. x \in AnEvent /\ x.kind # "state"
  BY <1>1 DEF Event, AnEvent, EventKind
<1>3. PICK ev : ev = c.events
  OBVIOUS
<1>4. ev \in Seq(AnEvent) /\ EVENT_CAPACITY \in Nat \ {0}
  BY <1>3, TurnClientAssumption DEF IsCore
<1>5. PICK d : d = PushEvent(c, e)
  OBVIOUS
<1>6. d = [c EXCEPT !.events = IF Len(ev) = EVENT_CAPACITY THEN Append(Tail(ev), x) ELSE Append(ev, e)]
  BY <1>1, <1>3, <1>5 DEF PushEvent
<1>7. PICK fs : fs = IF Len(ev) = EVENT_CAPACITY THEN Append(Tail(ev), x) ELSE Append(ev, e)
  OBVIOUS
<1>8. fs \in Seq(AnEvent)
  BY <1>2, <1>4, <1>7
<1>9. d = [c EXCEPT !.events = fs] /\ d.events = fs /\ IsCore(d)
  BY <1>6, <1>7, <1>8 DEF IsCore
<1>10. \A i \in 1 .. Len(fs) : (\E j \in 1 .. Len(ev) : fs[i] = ev[j]) \/ fs[i] = x \/ fs[i] = e
  <2>1. CASE Len(ev) = EVENT_CAPACITY
    BY <1>2, <1>4, <1>7, <2>1
  <2>2. CASE Len(ev) # EVENT_CAPACITY
    BY <1>4, <1>7, <2>2
  <2> QED
    BY <2>1, <2>2
<1>11. Announced(d) => Announced(c) \/ (e.kind = "state" /\ Finished(e.what))
  BY <1>2, <1>3, <1>9, <1>10 DEF Announced
<1> QED
  BY <1>5, <1>9, <1>11

LEMMA EventMakes ==
  ASSUME NEW c, IsCore(c), NEW kind \in EventKind, kind # "state",
         NEW what \in Operation \cup {"address", "events", "controls", "destroy"},
         NEW good \in BOOLEAN
  PROVE  LET d == PushEvent(c, Event(kind, what, good))
         IN Becomes(d, c, c.state, c.pending, c.expires, c.failures) /\ d.shutting = c.shutting
<1>1. PICK e : e = Event(kind, what, good)
  OBVIOUS
<1>2. e \in AnEvent /\ e.kind # "state"
  BY <1>1 DEF Event, AnEvent, EventKind
<1>3. PICK d : d = PushEvent(c, e)
  OBVIOUS
<1>4. IsCore(d) /\ d = [c EXCEPT !.events = d.events] /\ (Announced(d) => Announced(c))
  BY <1>2, <1>3, PushMakes
<1>5. Becomes(d, c, c.state, c.pending, c.expires, c.failures) /\ d.shutting = c.shutting
  BY <1>4 DEF Becomes, IsCore
<1> QED
  BY <1>1, <1>3, <1>5

LEMMA CompleteMakes ==
  ASSUME NEW c, IsCore(c), NEW op \in Operation, NEW good \in BOOLEAN
  PROVE  LET d == Complete(c, op, good)
         IN Becomes(d, c, c.state, c.pending, c.expires, c.failures) /\ d.shutting = c.shutting
BY EventMakes DEF Complete, EventKind

LEMMA SetStateMakes ==
  ASSUME NEW c, IsCore(c), NEW state \in TurnState
  PROVE  Becomes(SetState(c, state), c, state, c.pending, c.expires, c.failures)
<1>1. CASE c.state = state
  BY <1>1 DEF SetState, Becomes
<1>2. CASE c.state # state
  <2>1. PICK b : b = [c EXCEPT !.state = state]
    OBVIOUS
  <2>2. /\ IsCore(b) /\ b.state = state /\ b.pending = c.pending /\ b.expires = c.expires
        /\ b.failures = c.failures /\ b.events = c.events
    BY <2>1 DEF IsCore
  <2>3. PICK e : e = Event("state", state, TRUE)
    OBVIOUS
  <2>4. e \in AnEvent /\ e.what = state
    BY <2>3 DEF Event, AnEvent, EventKind
  <2>5. PICK d : d = PushEvent(b, e)
    OBVIOUS
  <2>6. /\ IsCore(d) /\ d = [b EXCEPT !.events = d.events]
        /\ Announced(d) => Announced(b) \/ Finished(e.what)
    BY <2>2, <2>4, <2>5, PushMakes
  <2>7. Announced(b) <=> Announced(c)
    BY <2>2 DEF Announced
  <2>8. Becomes(d, c, state, c.pending, c.expires, c.failures)
    <3>1. Finished(state) => state \in Over
      BY FinalStates DEF TurnState, Over
    <3> QED
      BY <2>2, <2>4, <2>6, <2>7, <3>1 DEF Becomes, IsCore
  <2> QED
    BY <1>2, <2>1, <2>3, <2>5, <2>8 DEF SetState
<1> QED
  BY <1>1, <1>2

LEMMA QueueMakes ==
  ASSUME NEW c, IsCore(c), NEW op
  PROVE  Becomes(QueuePacket(c, op), c, c.state, c.pending, c.expires, c.failures)
<1>1. PICK b : b = [c EXCEPT !.controls = Append(Tail(@), op)]
  OBVIOUS
<1>2. PICK d : d = [c EXCEPT !.controls = Append(@, op)]
  OBVIOUS
<1>3. /\ IsCore(b) /\ b.state = c.state /\ b.pending = c.pending /\ b.expires = c.expires
      /\ b.failures = c.failures /\ b.events = c.events
  BY <1>1 DEF IsCore
<1>4. /\ IsCore(d) /\ d.state = c.state /\ d.pending = c.pending /\ d.expires = c.expires
      /\ d.failures = c.failures /\ d.events = c.events
  BY <1>2 DEF IsCore
<1>5. PICK e : e = PushEvent(b, Event("overflow", "controls", FALSE))
  OBVIOUS
<1>6. Becomes(e, b, b.state, b.pending, b.expires, b.failures)
  BY <1>3, <1>5, EventMakes DEF EventKind
<1>7. (Announced(b) <=> Announced(c)) /\ (Announced(d) <=> Announced(c))
  BY <1>3, <1>4 DEF Announced
<1>8. /\ Becomes(e, c, c.state, c.pending, c.expires, c.failures)
      /\ Becomes(d, c, c.state, c.pending, c.expires, c.failures)
  BY <1>3, <1>4, <1>6, <1>7 DEF Becomes
<1>9. QueuePacket(c, op) = e \/ QueuePacket(c, op) = d
  BY <1>1, <1>2, <1>5 DEF QueuePacket
<1> QED
  BY <1>8, <1>9

\* A request is started, or nothing is.
Starting(d, c, op) ==
  \/ Becomes(d, c, c.state, c.pending, c.expires, c.failures)
  \/ \E p : /\ IsRequest(p) /\ p.op = op /\ p.out = FALSE /\ ~HasOperation(c, op)
            /\ Becomes(d, c, c.state, c.pending \cup {p}, c.expires, c.failures)

LEMMA StartMakes ==
  ASSUME NEW c, IsCore(c), NEW op, NEW auth, NEW nonces
  PROVE  Starting(StartOperation(c, op, auth, nonces), c, op)
<1>1. PICK q : q = QueuePacket(c, op)
  OBVIOUS
<1>2. Becomes(q, c, c.state, c.pending, c.expires, c.failures)
  BY <1>1, QueueMakes
<1>3. Becomes(c, c, c.state, c.pending, c.expires, c.failures)
  BY DEF Becomes
<1>4. PICK p : p = [op |-> op, auth |-> auth, sends |-> 1, nonces |-> nonces, out |-> FALSE]
  OBVIOUS
<1>5. IsRequest(p) /\ p.op = op /\ p.out = FALSE
  BY <1>4 DEF IsRequest
<1>6. PICK d : d = [q EXCEPT !.pending = @ \cup {p}]
  OBVIOUS
<1>7. Becomes(d, c, c.state, c.pending \cup {p}, c.expires, c.failures)
  <2>1. /\ IsCore(d) /\ d.state = q.state /\ d.pending = q.pending \cup {p}
        /\ d.expires = q.expires /\ d.failures = q.failures /\ d.events = q.events
    BY <1>2, <1>6 DEF Becomes, IsCore
  <2>2. Announced(d) <=> Announced(q)
    BY <2>1 DEF Announced
  <2> QED
    BY <1>2, <2>1, <2>2 DEF Becomes
<1>8. \/ StartOperation(c, op, auth, nonces) = q \/ StartOperation(c, op, auth, nonces) = c
      \/ StartOperation(c, op, auth, nonces) = d /\ ~HasOperation(c, op)
  BY <1>1, <1>4, <1>6 DEF StartOperation
<1> QED
  BY <1>2, <1>3, <1>5, <1>7, <1>8 DEF Starting

-----------------------------------------------------------------------------
\* The operators keep the invariant of the core

\* An end: nothing is pending, and what the core still knows is settled.
LEMMA EndKeeps ==
  ASSUME NEW c, NEW d, NEW ok, NEW sent, NEW final, NEW state \in Over,
         Becomes(d, c, state, {}, d.expires, d.failures), d.expires => sent, Settled(d, ok)
  PROVE  CoreInv(d, ok, sent, final)
BY DEF CoreInv, Becomes, Fits, Over

\* In a state before the end, nothing but the parts named changes.
LEMMA PartsKeep ==
  ASSUME NEW c, NEW d, NEW ok, NEW sent, NEW final, CoreInv(c, ok, sent, final),
         Becomes(d, c, c.state, c.pending, c.expires, c.failures)
  PROVE  CoreInv(d, ok, sent, final)
BY DEF CoreInv, Becomes, Settled, Exhausted

LEMMA NotOver ==
  ASSUME NEW c, NEW ok, NEW sent, NEW final, CoreInv(c, ok, sent, final),
         c.state \notin Over \cup {"deallocating"}
  PROVE  ~final /\ ~Announced(c)
BY DEF CoreInv

LEMMA StartingKeeps ==
  ASSUME NEW c, NEW d, NEW op, NEW ok, NEW sent, NEW final, CoreInv(c, ok, sent, final),
         Starting(d, c, op), op \in Allowed(c.state)
  PROVE  CoreInv(d, ok, sent, final) /\ d.state = c.state
<1>1. CASE Becomes(d, c, c.state, c.pending, c.expires, c.failures)
  BY <1>1, PartsKeep DEF Becomes
<1>2. CASE ~Becomes(d, c, c.state, c.pending, c.expires, c.failures)
  <2>1. PICK p : /\ IsRequest(p) /\ p.op = op /\ p.out = FALSE /\ ~HasOperation(c, op)
                 /\ Becomes(d, c, c.state, c.pending \cup {p}, c.expires, c.failures)
    BY <1>2 DEF Starting
  <2>2. Fits(d.pending, d.state)
    BY <2>1 DEF CoreInv, Becomes, Fits, HasOperation
  <2>3. d.expires \/ (\E q \in d.pending : q.out) => sent
    BY <2>1 DEF CoreInv, Becomes
  <2>4. Settled(d, ok) <=> Settled(c, ok)
    BY <2>1 DEF Becomes, Settled, Exhausted
  <2> QED
    BY <2>1, <2>2, <2>3, <2>4 DEF CoreInv, Becomes
<1> QED
  BY <1>1, <1>2

LEMMA SettleKeeps ==
  ASSUME NEW c, NEW p \in c.pending, NEW ok, NEW sent, NEW final, CoreInv(c, ok, sent, final)
  PROVE  /\ CoreInv(Settle(c, p), ok, sent, final)
         /\ Settle(c, p).state = c.state /\ Settle(c, p).shutting = c.shutting
         /\ p.op \in Allowed(c.state) /\ \A q \in Settle(c, p).pending : q.op # p.op
<1>1. PICK d : d = Settle(c, p)
  OBVIOUS
<1>2. /\ IsCore(d) /\ d.state = c.state /\ d.pending = c.pending \ {p} /\ d.expires = c.expires
      /\ d.failures = c.failures /\ d.events = c.events /\ d.shutting = c.shutting
  BY <1>1 DEF Settle, CoreInv, IsCore
<1>3. Fits(c.pending, c.state) /\ Fits(d.pending, d.state)
  BY <1>2 DEF CoreInv, Fits
<1>4. p.op \in Allowed(c.state) /\ \A q \in d.pending : q.op # p.op
  BY <1>2, <1>3 DEF Fits
<1>5. (Announced(d) <=> Announced(c)) /\ (Settled(d, ok) <=> Settled(c, ok))
  BY <1>2 DEF Announced, Settled, Exhausted
<1>6. CoreInv(d, ok, sent, final)
  BY <1>2, <1>3, <1>5 DEF CoreInv
<1> QED
  BY <1>1, <1>2, <1>4, <1>6

LEMMA AllowedAreOperations == \A state : Allowed(state) \subseteq Operation
BY DEF Allowed, Operation, Maintenance

\* destroy_allocation
LEMMA DestroyKeeps ==
  ASSUME NEW c, IsCore(c), NEW op \in Operation, NEW ok, NEW sent, NEW final
  PROVE  CoreInv(DestroyAllocation(c, op), ok, sent, final)
<1>1. PICK b : b = Complete(c, op, FALSE)
  OBVIOUS
<1>2. IsCore(b)
  BY <1>1, CompleteMakes DEF Becomes
<1>3. PICK d : d = [b EXCEPT !.controls = <<>>, !.pending = {}, !.channel = FALSE,
                             !.expires = FALSE, !.timers = {}]
  OBVIOUS
<1>4. IsCore(d) /\ d.pending = {} /\ d.expires = FALSE
  BY <1>2, <1>3 DEF IsCore
<1>5. PICK state \in Over : state = IF op = "deallocate" THEN "deallocated" ELSE "destroying"
  BY DEF Over
<1>6. PICK e : e = SetState(d, state)
  OBVIOUS
<1>7. Becomes(e, d, state, {}, FALSE, d.failures)
  BY <1>4, <1>6, SetStateMakes DEF Over, TurnState
<1>8. e.expires = FALSE /\ e.failures = d.failures /\ Settled(e, ok)
  BY <1>7 DEF Becomes, Settled
<1>9. CoreInv(e, ok, sent, final)
  BY <1>7, <1>8, EndKeeps
<1> QED
  BY <1>1, <1>3, <1>5, <1>6, <1>9 DEF DestroyAllocation

\* destroy_after_channel_rebind_exhausted
LEMMA ExhaustedKeeps ==
  ASSUME NEW c, IsCore(c), Exhausted(c), NEW ok, NEW sent, NEW final, c.expires => sent
  PROVE  CoreInv(DestroyAfterRebindExhausted(c), ok, sent, final)
<1>1. PICK b : b = [c EXCEPT !.controls = <<>>, !.pending = {}, !.channel = FALSE,
                             !.timers = @ \cap {"refresh"}]
  OBVIOUS
<1>2. IsCore(b) /\ b.pending = {} /\ b.expires = c.expires /\ b.failures = c.failures
  BY <1>1 DEF IsCore
<1>3. PICK d : d = PushEvent(b, Event("exhausted", "channel", FALSE))
  OBVIOUS
<1>4. IsCore(d) /\ d.pending = {} /\ d.expires = c.expires /\ d.failures = c.failures
  <2>1. "exhausted" \in EventKind /\ "channel" \in Operation
    BY DEF EventKind, Operation
  <2>2. Becomes(d, b, b.state, b.pending, b.expires, b.failures)
    BY <1>2, <1>3, <2>1, EventMakes
  <2> QED
    BY <1>2, <2>2 DEF Becomes
<1>5. PICK e : e = SetState(d, "destroying")
  OBVIOUS
<1>6. Becomes(e, d, "destroying", {}, c.expires, c.failures)
  BY <1>4, <1>5, SetStateMakes DEF TurnState
<1>7. e.expires = c.expires /\ e.failures = c.failures /\ Settled(e, ok)
  BY <1>6 DEF Becomes, Settled, Exhausted
<1>8. CoreInv(e, ok, sent, final)
  BY <1>6, <1>7, EndKeeps DEF Over
<1> QED
  BY <1>1, <1>3, <1>5, <1>8 DEF DestroyAfterRebindExhausted

\* A change of the parts the invariant does not speak of, while the allocation is ready.
LEMMA ReadyKeeps ==
  ASSUME NEW c, NEW d, NEW ok, NEW sent, NEW final, CoreInv(c, ok, sent, final),
         c.state = "ready", IsCore(d), d.state = "ready", d.pending = c.pending,
         d.expires => sent, Announced(d) => Announced(c)
  PROVE  CoreInv(d, ok, sent, final)
<1>1. ~final /\ ~Announced(c)
  BY NotOver DEF Over
<1> QED
  BY <1>1 DEF CoreInv, Over

LEMMA RetryKeeps ==
  ASSUME NEW c, NEW op, NEW ok, NEW sent, NEW final, CoreInv(c, ok, sent, final),
         c.state = "ready"
  PROVE  CoreInv(ScheduleRetry(c, op), ok, sent, final)
<1>1. PICK d : d = IF op = "channel" THEN [c EXCEPT !.failures = @ + 1] ELSE c
  OBVIOUS
<1>2. /\ IsCore(d) /\ d.state = "ready" /\ d.pending = c.pending /\ d.expires = c.expires
      /\ d.events = c.events
  BY <1>1 DEF CoreInv, IsCore
<1>3. c.expires => sent
  BY DEF CoreInv
<1>4. PICK e : e = [d EXCEPT !.timers = @ \cup {op}]
  OBVIOUS
<1>5. /\ IsCore(e) /\ e.state = "ready" /\ e.pending = c.pending /\ e.expires = c.expires
      /\ e.events = c.events
  BY <1>2, <1>4 DEF IsCore
<1>6. Announced(e) <=> Announced(c)
  BY <1>5 DEF Announced
<1>7. CoreInv(e, ok, sent, final)
  BY <1>3, <1>5, <1>6, ReadyKeeps
<1>8. CASE op = "channel" /\ d.failures >= MAX_CHANNEL_MAINTENANCE_FAILURES
  <2>1. Exhausted(d)
    BY <1>8 DEF Exhausted
  <2>2. CoreInv(DestroyAfterRebindExhausted(d), ok, sent, final)
    BY <1>2, <1>3, <2>1, ExhaustedKeeps
  <2> QED
    BY <1>1, <1>8, <2>2 DEF ScheduleRetry
<1>9. CASE ~(op = "channel" /\ d.failures >= MAX_CHANNEL_MAINTENANCE_FAILURES)
  BY <1>1, <1>4, <1>7, <1>9 DEF ScheduleRetry
<1> QED
  BY <1>8, <1>9

\* complete_failure
LEMMA FailureKeeps ==
  ASSUME NEW c, NEW op \in Operation, NEW expired, NEW ok, NEW sent, NEW final,
         CoreInv(c, ok, sent, final)
  PROVE  CoreInv(CompleteFailure(c, op, expired), ok, sent, final)
<1>1. CASE op \in {"refresh", "permission", "channel"} /\ c.state = "ready" /\ c.expires /\ ~expired
  <2>1. PICK d : d = Complete(c, op, FALSE)
    OBVIOUS
  <2>2. IsCore(c)
    BY DEF CoreInv
  <2>3. Becomes(d, c, c.state, c.pending, c.expires, c.failures)
    BY <2>1, <2>2, CompleteMakes
  <2>4. CoreInv(d, ok, sent, final) /\ d.state = "ready"
    BY <1>1, <2>3, PartsKeep DEF Becomes
  <2>5. CoreInv(ScheduleRetry(d, op), ok, sent, final)
    BY <2>4, RetryKeeps
  <2> QED
    BY <1>1, <2>1, <2>5 DEF CompleteFailure
<1>2. CASE ~(op \in {"refresh", "permission", "channel"} /\ c.state = "ready" /\ c.expires /\ ~expired)
  <2>1. CoreInv(DestroyAllocation(c, op), ok, sent, final)
    BY DestroyKeeps DEF CoreInv
  <2> QED
    BY <1>2, <2>1 DEF CompleteFailure
<1> QED
  BY <1>1, <1>2

\* A state that follows another one, before the end: what is pending fits, and an end has been
\* announced only if it was before and all is settled.
LEMMA StateKeeps ==
  ASSUME NEW c, NEW b, NEW d, NEW ok, NEW sent, NEW final, CoreInv(c, ok, sent, final),
         NEW state, Becomes(d, b, state, {}, d.expires, d.failures), state \notin Over,
         b.events = c.events, d.expires => sent,
         \/ c.state \notin Over \cup {"deallocating"}
         \/ state = "deallocating" /\ (Settled(c, ok) => Settled(d, ok))
  PROVE  CoreInv(d, ok, sent, final) /\ d.state = state /\ d.pending = {}
<1>1. Announced(b) <=> Announced(c)
  BY DEF Announced
<1>2. Announced(d) => Announced(c)
  BY <1>1 DEF Becomes
<1>3. IsCore(d) /\ Fits(d.pending, d.state) /\ d.state = state /\ d.pending = {}
  BY DEF Becomes, Fits
<1>4. CASE c.state \notin Over \cup {"deallocating"}
  <2>1. ~final /\ ~Announced(c)
    BY <1>4, NotOver
  <2> QED
    BY <1>2, <1>3, <2>1 DEF CoreInv
<1>5. CASE state = "deallocating" /\ (Settled(c, ok) => Settled(d, ok))
  BY <1>2, <1>3, <1>5 DEF CoreInv
<1> QED
  BY <1>3, <1>4, <1>5

\* The state that follows the allocation.
LEMMA AllocatedKeeps ==
  ASSUME NEW c, NEW d, NEW ok, NEW sent, NEW final, CoreInv(c, ok, sent, final), sent,
         c.state = "allocating", IsCore(d), d.pending = {}, Announced(d) => Announced(c),
         NEW state \in {"deallocating", "ready"}
  PROVE  LET e == SetState(d, state)
         IN CoreInv(e, ok, sent, final) /\ e.state = state /\ e.pending = {}
<1>1. PICK e : e = SetState(d, state)
  OBVIOUS
<1>2. Becomes(e, d, state, {}, d.expires, d.failures)
  BY <1>1, SetStateMakes DEF TurnState
<1>3. state \notin Over /\ c.state \notin Over \cup {"deallocating"}
  BY DEF Over
<1>4. ~final /\ ~Announced(c)
  BY <1>3, NotOver
<1>5. /\ IsCore(e) /\ e.state = state /\ e.pending = {} /\ ~Announced(e)
      /\ Fits(e.pending, e.state)
  BY <1>2, <1>3, <1>4 DEF Becomes, Fits
<1>6. CoreInv(e, ok, sent, final)
  BY <1>3, <1>4, <1>5 DEF CoreInv
<1> QED
  BY <1>1, <1>5, <1>6

\* complete_success
LEMMA SuccessKeeps ==
  ASSUME NEW c, NEW op \in Allowed(c.state), NEW ok, NEW sent, NEW final,
         CoreInv(c, ok, sent, final), sent, \A q \in c.pending : q.op # op
  PROVE  CoreInv(CompleteSuccess(c, op), ok, sent, final)
<1>1. IsCore(c) /\ Fits(c.pending, c.state) /\ op \in Operation
  BY AllowedAreOperations DEF CoreInv
<1>2. CASE op = "allocate"
  <2>1. c.state = "allocating" /\ c.pending = {}
    BY <1>1, <1>2 DEF Allowed, Fits, Maintenance
  <2>2. PICK b : b = [c EXCEPT !.expires = TRUE,
                               !.timers = @ \cup {"refresh", "maintenance", "keepalive"}]
    OBVIOUS
  <2>3. IsCore(b) /\ b.pending = {} /\ b.events = c.events
    BY <1>1, <2>1, <2>2 DEF IsCore
  <2>4. PICK d : d = PushEvent(b, Event("relay", "address", TRUE))
    OBVIOUS
  <2>5. Becomes(d, b, b.state, b.pending, b.expires, b.failures)
    <3>1. "relay" \in EventKind
      BY DEF EventKind
    <3> QED
      BY <2>3, <2>4, <3>1, EventMakes
  <2>6. b.state = "allocating"
    BY <1>1, <2>1, <2>2 DEF IsCore
  <2>7. IsCore(d) /\ d.pending = {} /\ (Announced(d) => Announced(b))
    BY <2>3, <2>5, <2>6 DEF Becomes, Over
  <2>8. ASSUME NEW state \in {"deallocating", "ready"}
        PROVE  LET e == SetState(d, state)
               IN CoreInv(e, ok, sent, final) /\ e.state = state /\ e.pending = {}
    <3>1. Announced(d) => Announced(c)
      BY <2>3, <2>7 DEF Announced
    <3>2. c.state = "allocating" /\ IsCore(d) /\ d.pending = {}
      BY <2>1, <2>7
    <3> QED
      BY <3>1, <3>2, AllocatedKeeps
  <2>9. PICK e : e = SetState(d, "deallocating")
    OBVIOUS
  <2>10. CoreInv(e, ok, sent, final) /\ e.state = "deallocating"
    BY <2>8, <2>9
  <2>11. PICK f : f = StartOperation(e, "deallocate", TRUE, 0)
    OBVIOUS
  <2>12. CoreInv(f, ok, sent, final)
    <3>1. Starting(f, e, "deallocate")
      BY <2>10, <2>11, StartMakes DEF CoreInv
    <3>2. "deallocate" \in Allowed(e.state)
      BY <2>10 DEF Allowed
    <3> QED
      BY <2>10, <3>1, <3>2, StartingKeeps
  <2>13. PICK g : g = SetState(d, "ready")
    OBVIOUS
  <2>14. CoreInv(g, ok, sent, final)
    BY <2>8, <2>13
  <2>15. PICK h : h = Complete(g, op, TRUE)
    OBVIOUS
  <2>16. CoreInv(h, ok, sent, final)
    <3>1. Becomes(h, g, g.state, g.pending, g.expires, g.failures)
      BY <1>1, <2>14, <2>15, CompleteMakes DEF CoreInv
    <3> QED
      BY <2>14, <3>1, PartsKeep
  <2>17. CompleteSuccess(c, op) = f \/ CompleteSuccess(c, op) = h
    BY <1>2, <2>2, <2>4, <2>9, <2>11, <2>13, <2>15 DEF CompleteSuccess
  <2> QED
    BY <2>12, <2>16, <2>17
<1>3. CASE op = "refresh"
  <2>1. c.state = "ready"
    BY <1>3 DEF Allowed
  <2>2. PICK d : d = [c EXCEPT !.expires = TRUE, !.timers = @ \cup {"refresh"}]
    OBVIOUS
  <2>3. IsCore(d) /\ d.state = "ready" /\ d.pending = c.pending /\ d.events = c.events
    BY <1>1, <2>1, <2>2 DEF IsCore
  <2>4. Announced(d) <=> Announced(c)
    BY <2>3 DEF Announced
  <2>5. CoreInv(d, ok, sent, final)
    BY <2>1, <2>3, <2>4, ReadyKeeps
  <2>6. PICK e : e = Complete(d, op, TRUE)
    OBVIOUS
  <2>7. Becomes(e, d, d.state, d.pending, d.expires, d.failures)
    BY <1>1, <2>3, <2>6, CompleteMakes
  <2>8. CoreInv(e, ok, sent, final)
    BY <2>5, <2>7, PartsKeep
  <2> QED
    BY <1>3, <2>2, <2>6, <2>8 DEF CompleteSuccess
<1>4. CASE op = "deallocate"
  <2>1. c.state = "deallocating" /\ c.pending = {}
    BY <1>1, <1>4 DEF Allowed, Fits, Maintenance
  <2>2. PICK b : b = [c EXCEPT !.expires = FALSE, !.timers = @ \ {"refresh"}]
    OBVIOUS
  <2>3. IsCore(b) /\ b.pending = {} /\ b.expires = FALSE
    BY <1>1, <2>1, <2>2 DEF IsCore
  <2>4. PICK d : d = Complete(b, op, TRUE)
    OBVIOUS
  <2>5. IsCore(d) /\ d.pending = {} /\ d.expires = FALSE
    <3>1. Becomes(d, b, b.state, b.pending, b.expires, b.failures)
      BY <1>1, <2>3, <2>4, CompleteMakes
    <3> QED
      BY <2>3, <3>1 DEF Becomes
  <2>6. PICK e : e = SetState(d, "deallocated")
    OBVIOUS
  <2>7. Becomes(e, d, "deallocated", {}, FALSE, d.failures)
    BY <2>5, <2>6, SetStateMakes DEF TurnState
  <2>8. e.expires = FALSE /\ e.failures = d.failures /\ Settled(e, ok)
    BY <2>7 DEF Becomes, Settled
  <2>9. CoreInv(e, ok, sent, final)
    BY <2>7, <2>8, EndKeeps DEF Over
  <2> QED
    BY <1>4, <2>2, <2>4, <2>6, <2>9 DEF CompleteSuccess
<1>5. CASE op = "permission"
  <2>1. PICK e : e = Complete(c, op, TRUE)
    OBVIOUS
  <2>2. Becomes(e, c, c.state, c.pending, c.expires, c.failures)
    BY <1>1, <2>1, CompleteMakes
  <2>3. CoreInv(e, ok, sent, final)
    BY <2>2, PartsKeep
  <2> QED
    BY <1>5, <2>1, <2>3 DEF CompleteSuccess
<1>6. CASE op = "channel"
  <2>1. c.state = "ready"
    BY <1>6 DEF Allowed
  <2>2. PICK b : b = [c EXCEPT !.channel = TRUE, !.failures = 0]
    OBVIOUS
  <2>3. /\ IsCore(b) /\ b.state = "ready" /\ b.pending = c.pending /\ b.events = c.events
        /\ b.expires = c.expires
    BY <1>1, <2>1, <2>2 DEF IsCore
  <2>4. Announced(b) <=> Announced(c)
    BY <2>3 DEF Announced
  <2>5. CoreInv(b, ok, sent, final)
    BY <2>1, <2>3, <2>4, ReadyKeeps
  <2>6. PICK d : d = PushEvent(b, Event("bound", "channel", TRUE))
    OBVIOUS
  <2>7. CoreInv(d, ok, sent, final) /\ IsCore(d)
    <3>1. "bound" \in EventKind /\ "channel" \in Operation
      BY DEF EventKind, Operation
    <3>2. Becomes(d, b, b.state, b.pending, b.expires, b.failures)
      BY <2>3, <2>6, <3>1, EventMakes
    <3> QED
      BY <2>5, <3>2, PartsKeep DEF Becomes
  <2>8. PICK e : e = Complete(d, op, TRUE)
    OBVIOUS
  <2>9. Becomes(e, d, d.state, d.pending, d.expires, d.failures)
    BY <1>1, <2>7, <2>8, CompleteMakes
  <2>10. CoreInv(e, ok, sent, final)
    BY <2>7, <2>9, PartsKeep
  <2> QED
    BY <1>6, <2>2, <2>6, <2>8, <2>10 DEF CompleteSuccess
<1> QED
  BY <1>1, <1>2, <1>3, <1>4, <1>5, <1>6 DEF Operation

\* input_stun
LEMMA InputKeeps ==
  ASSUME NEW c, NEW p \in c.pending, p.out, NEW a, NEW expired, NEW ok, NEW sent, NEW final,
         CoreInv(c, ok, sent, final)
  PROVE  CoreInv(InputStun(c, p, a, expired), ok, sent, final)
<1>1. PICK d : d = Settle(c, p)
  OBVIOUS
<1>2. /\ CoreInv(d, ok, sent, final) /\ d.state = c.state
      /\ p.op \in Allowed(c.state) /\ \A q \in d.pending : q.op # p.op
  BY <1>1, SettleKeeps
<1>3. p.op \in Operation /\ sent /\ IsCore(d)
  BY <1>2, AllowedAreOperations DEF CoreInv
<1>4. CoreInv(CompleteSuccess(d, p.op), ok, sent, final)
  BY <1>2, <1>3, SuccessKeeps
<1>5. CoreInv(CompleteFailure(d, p.op, expired), ok, sent, final)
  BY <1>2, <1>3, FailureKeeps
<1>6. CoreInv(DestroyAllocation(d, p.op), ok, sent, final)
  BY <1>3, DestroyKeeps
<1>7. PICK e : e = [d EXCEPT !.key = TRUE]
  OBVIOUS
<1>8. CoreInv(e, ok, sent, final) /\ e.state = c.state
  <2>1. /\ IsCore(e) /\ e.state = d.state /\ e.pending = d.pending /\ e.events = d.events
        /\ e.expires = d.expires /\ e.failures = d.failures
    BY <1>3, <1>7 DEF IsCore
  <2>2. Announced(e) <=> Announced(d)
    BY <2>1 DEF Announced
  <2>3. Becomes(e, d, d.state, d.pending, d.expires, d.failures)
    BY <2>1, <2>2 DEF Becomes
  <2> QED
    BY <1>2, <2>1, <2>3, PartsKeep
<1>9. PICK f : f = StartOperation(e, p.op, TRUE, p.nonces + 1)
  OBVIOUS
<1>10. CoreInv(f, ok, sent, final)
  <2>1. Starting(f, e, p.op)
    BY <1>8, <1>9, StartMakes DEF CoreInv
  <2> QED
    BY <1>2, <1>8, <2>1, StartingKeeps
<1>11. InputStun(c, p, a, expired) \in
         {c, CompleteSuccess(d, p.op), CompleteFailure(d, p.op, expired),
          DestroyAllocation(d, p.op), f}
  BY <1>1, <1>7, <1>9 DEF InputStun
<1> QED
  BY <1>4, <1>5, <1>6, <1>10, <1>11

\* expire_transactions
LEMMA ExpireOneKeeps ==
  ASSUME NEW c, NEW p \in c.pending, NEW expired, NEW ok, NEW sent, NEW final,
         CoreInv(c, ok, sent, final)
  PROVE  CoreInv(ExpireOne(c, p, expired), ok, sent, final)
<1>1. CASE Stream \/ p.sends >= MAX_TRANSMISSIONS
  <2>1. PICK d : d = Settle(c, p)
    OBVIOUS
  <2>2. CoreInv(d, ok, sent, final) /\ p.op \in Operation
    BY <2>1, SettleKeeps, AllowedAreOperations
  <2>3. CoreInv(CompleteFailure(d, p.op, expired), ok, sent, final)
    BY <2>2, FailureKeeps
  <2> QED
    BY <1>1, <2>1, <2>3 DEF ExpireOne
<1>2. CASE ~(Stream \/ p.sends >= MAX_TRANSMISSIONS)
  <2>1. PICK b : b = QueuePacket(c, p.op)
    OBVIOUS
  <2>2. Becomes(b, c, c.state, c.pending, c.expires, c.failures)
    BY <2>1, QueueMakes DEF CoreInv
  <2>3. PICK q : q = [p EXCEPT !.sends = @ + 1]
    OBVIOUS
  <2>4. IsRequest(p) /\ Fits(c.pending, c.state)
    BY DEF CoreInv, Fits
  <2>5. IsRequest(q) /\ q.op = p.op /\ q.out = p.out
    BY <2>3, <2>4 DEF IsRequest
  <2>6. PICK d : d = [b EXCEPT !.pending = (@ \ {p}) \cup {q}]
    OBVIOUS
  <2>7. /\ IsCore(d) /\ d.state = c.state /\ d.pending = (c.pending \ {p}) \cup {q}
        /\ d.expires = c.expires /\ d.failures = c.failures /\ d.events = b.events
    BY <2>2, <2>6 DEF Becomes, IsCore
  <2>8. Fits(d.pending, d.state)
    BY <2>4, <2>5, <2>7 DEF Fits
  <2>9. d.expires \/ (\E r \in d.pending : r.out) => sent
    BY <2>5, <2>7 DEF CoreInv
  <2>10. Announced(d) => Announced(c) \/ c.state \in Over
    <3>1. Announced(d) <=> Announced(b)
      BY <2>7 DEF Announced
    <3> QED
      BY <2>2, <3>1 DEF Becomes
  <2>11. Settled(d, ok) <=> Settled(c, ok)
    BY <2>7 DEF Settled, Exhausted
  <2>12. CoreInv(d, ok, sent, final)
    BY <2>7, <2>8, <2>9, <2>10, <2>11 DEF CoreInv
  <2> QED
    BY <1>2, <2>1, <2>3, <2>6, <2>12 DEF ExpireOne
<1> QED
  BY <1>1, <1>2

LEMMA ExpireKeeps ==
  ASSUME NEW c, NEW behind, NEW i, NEW expired, NEW ok, NEW sent, NEW final,
         CoreInv(c, ok, sent, final)
  PROVE  CoreInv(Expire(c, behind, i, expired), ok, sent, final)
<1>1. CASE i > Len(behind) \/ ~HasOperation(c, behind[i])
  BY <1>1 DEF Expire
<1>2. CASE ~(i > Len(behind) \/ ~HasOperation(c, behind[i]))
  <2>1. PICK p : p = CHOOSE q \in c.pending : q.op = behind[i]
    OBVIOUS
  <2>2. p \in c.pending
    BY <1>2, <2>1 DEF HasOperation
  <2>3. CoreInv(ExpireOne(c, p, expired), ok, sent, final)
    BY <2>2, ExpireOneKeeps
  <2> QED
    BY <1>2, <2>1, <2>3 DEF Expire
<1> QED
  BY <1>1, <1>2

LEMMA ExpireAllKeeps ==
  ASSUME NEW c, NEW behind, NEW expired, NEW ok, NEW sent, NEW final, CoreInv(c, ok, sent, final)
  PROVE  CoreInv(ExpireTransactions(c, behind, expired), ok, sent, final)
<1>1. PICK d : d = Expire(c, behind, 1, expired)
  OBVIOUS
<1>2. CoreInv(d, ok, sent, final)
  BY <1>1, ExpireKeeps
<1>3. PICK e : e = Expire(d, behind, 2, expired)
  OBVIOUS
<1>4. CoreInv(e, ok, sent, final)
  BY <1>2, <1>3, ExpireKeeps
<1>5. CoreInv(Expire(e, behind, 3, expired), ok, sent, final)
  BY <1>4, ExpireKeeps
<1> QED
  BY <1>1, <1>3, <1>5 DEF ExpireTransactions

\* The maintenance of poll
LEMMA StartDueKeeps ==
  ASSUME NEW c, NEW op \in Maintenance, NEW due, NEW ok, NEW sent, NEW final,
         CoreInv(c, ok, sent, final), c.state = "ready"
  PROVE  LET d == StartDue(c, op, due) IN CoreInv(d, ok, sent, final) /\ d.state = "ready"
<1>1. PICK b : b = [c EXCEPT !.timers = @ \ {op}]
  OBVIOUS
<1>2. CoreInv(b, ok, sent, final) /\ b.state = "ready"
  <2>1. /\ IsCore(b) /\ b.state = "ready" /\ b.pending = c.pending /\ b.events = c.events
        /\ b.expires = c.expires
    BY <1>1 DEF CoreInv, IsCore
  <2>2. (Announced(b) <=> Announced(c)) /\ (b.expires => sent)
    BY <2>1 DEF Announced, CoreInv
  <2> QED
    BY <2>1, <2>2, ReadyKeeps
<1>3. PICK d : d = StartOperation(b, op, TRUE, 0)
  OBVIOUS
<1>4. CoreInv(d, ok, sent, final) /\ d.state = "ready"
  <2>1. Starting(d, b, op)
    BY <1>2, <1>3, StartMakes DEF CoreInv
  <2>2. op \in Allowed(b.state)
    BY <1>2 DEF Allowed
  <2> QED
    BY <1>2, <2>1, <2>2, StartingKeeps
<1>5. StartDue(c, op, due) = d \/ StartDue(c, op, due) = c
  BY <1>1, <1>3 DEF StartDue
<1> QED
  BY <1>4, <1>5

LEMMA MaintainKeeps ==
  ASSUME NEW c, NEW due, NEW ok, NEW sent, NEW final, CoreInv(c, ok, sent, final),
         c.state = "ready"
  PROVE  CoreInv(Maintain(c, due), ok, sent, final)
<1>1. PICK d : d = StartDue(c, "refresh", due)
  OBVIOUS
<1>2. CoreInv(d, ok, sent, final) /\ d.state = "ready"
  BY <1>1, StartDueKeeps DEF Maintenance
<1>3. PICK e : e = StartDue(d, "permission", due)
  OBVIOUS
<1>4. CoreInv(e, ok, sent, final) /\ e.state = "ready"
  BY <1>2, <1>3, StartDueKeeps DEF Maintenance
<1>5. PICK f : f = StartDue(e, "channel", due)
  OBVIOUS
<1>6. CoreInv(f, ok, sent, final) /\ f.state = "ready"
  BY <1>4, <1>5, StartDueKeeps DEF Maintenance
<1>7. PICK g : g = QueuePacket(f, Keepalive)
  OBVIOUS
<1>8. CoreInv(g, ok, sent, final)
  <2>1. Becomes(g, f, f.state, f.pending, f.expires, f.failures)
    BY <1>6, <1>7, QueueMakes DEF CoreInv
  <2> QED
    BY <1>6, <2>1, PartsKeep
<1>9. Maintain(c, due) = f \/ Maintain(c, due) = g
  BY <1>1, <1>3, <1>5, <1>7 DEF Maintain
<1> QED
  BY <1>6, <1>8, <1>9

LEMMA PollKeeps ==
  ASSUME NEW c, NEW behind, NEW due, NEW ok, NEW sent, NEW final, CoreInv(c, ok, sent, final)
  PROVE  CoreInv(Poll(c, behind, due), ok, sent, final)
<1>1. PICK d : d = ExpireTransactions(c, behind, "expiry" \in due)
  OBVIOUS
<1>2. CoreInv(d, ok, sent, final)
  BY <1>1, ExpireAllKeeps
<1>3. PICK e : e = IF ~d.shutting /\ d.state = "ready" /\ "expiry" \in due
                   THEN DestroyAllocation(d, "refresh") ELSE d
  OBVIOUS
<1>4. CoreInv(e, ok, sent, final)
  <2>1. CoreInv(DestroyAllocation(d, "refresh"), ok, sent, final)
    BY <1>2, DestroyKeeps DEF CoreInv, Operation
  <2> QED
    BY <1>2, <1>3, <2>1
<1>5. e.state = "ready" => CoreInv(Maintain(e, due), ok, sent, final)
  BY <1>4, MaintainKeeps
<1>6. Poll(c, behind, due) \in {c, e} \/ (Poll(c, behind, due) = Maintain(e, due) /\ e.state = "ready")
  BY <1>1, <1>3 DEF Poll
<1> QED
  BY <1>4, <1>5, <1>6

\* graceful_shutdown
LEMMA ShutdownStarts ==
  ASSUME NEW c, NEW ok, NEW sent, NEW final, CoreInv(c, ok, sent, final)
  PROVE  CoreInv(GracefulShutdown(c), ok, sent, final)
<1>1. PICK d : d = [c EXCEPT !.shutting = TRUE, !.channel = FALSE, !.controls = <<>>,
                             !.timers = @ \cap {"refresh"}]
  OBVIOUS
<1>2. /\ IsCore(d) /\ d.state = c.state /\ d.pending = c.pending /\ d.expires = c.expires
      /\ d.failures = c.failures /\ d.events = c.events
  BY <1>1 DEF CoreInv, IsCore
<1>3. PICK e : e = [d EXCEPT !.pending = {}]
  OBVIOUS
<1>4. /\ IsCore(e) /\ e.state = c.state /\ e.pending = {} /\ e.expires = c.expires
      /\ e.failures = c.failures /\ e.events = c.events
  BY <1>2, <1>3 DEF IsCore
<1>5. (Announced(d) <=> Announced(c)) /\ (Announced(e) <=> Announced(c))
  BY <1>2, <1>4 DEF Announced
<1>6. CoreInv(d, ok, sent, final)
  <2>1. Becomes(d, c, c.state, c.pending, c.expires, c.failures)
    BY <1>2, <1>5 DEF Becomes
  <2> QED
    BY <2>1, PartsKeep
<1>7. CoreInv(e, ok, sent, final)
  <2>1. Fits(e.pending, e.state)
    BY <1>4 DEF Fits
  <2>2. Settled(e, ok) <=> Settled(c, ok)
    BY <1>4 DEF Settled, Exhausted
  <2> QED
    BY <1>4, <1>5, <2>1, <2>2 DEF CoreInv
<1>8. PICK f : f = SetState(e, "deallocating")
  OBVIOUS
<1>9. PICK g : g = StartOperation(f, "deallocate", TRUE, 0)
  OBVIOUS
<1>10. CASE c.state = "ready" \/ (c.state = "destroying" /\ c.expires)
  <2>1. Becomes(f, e, "deallocating", {}, c.expires, c.failures)
    BY <1>4, <1>8, SetStateMakes DEF TurnState
  <2>2. f.expires = c.expires /\ f.failures = c.failures /\ (c.expires => sent)
    BY <2>1 DEF Becomes, CoreInv
  <2>3. Settled(c, ok) => Settled(f, ok)
    BY <2>2 DEF Settled, Exhausted
  <2>4. CoreInv(f, ok, sent, final) /\ f.state = "deallocating"
    <3>1. "deallocating" \notin Over /\ e.events = c.events
      BY <1>4 DEF Over
    <3>2. Becomes(f, e, "deallocating", {}, f.expires, f.failures) /\ (f.expires => sent)
      BY <2>1, <2>2
    <3> QED
      BY <2>3, <3>1, <3>2, StateKeeps
  <2>5. Starting(g, f, "deallocate") /\ "deallocate" \in Allowed(f.state)
    BY <1>9, <2>4, StartMakes DEF CoreInv, Allowed
  <2>6. CoreInv(g, ok, sent, final)
    BY <2>4, <2>5, StartingKeeps
  <2>7. GracefulShutdown(c) = c \/ GracefulShutdown(c) = g
    BY <1>1, <1>3, <1>8, <1>9, <1>10 DEF GracefulShutdown
  <2> QED
    BY <2>6, <2>7
<1>11. CASE ~(c.state = "ready" \/ (c.state = "destroying" /\ c.expires))
  <2>1. GracefulShutdown(c) \in {c, d, e}
    BY <1>1, <1>3, <1>11 DEF GracefulShutdown
  <2> QED
    BY <1>6, <1>7, <2>1
<1> QED
  BY <1>10, <1>11

\* force_destroy, when all is settled
LEMMA ForceKeeps ==
  ASSUME NEW c, NEW ok, NEW sent, NEW final, NEW was, CoreInv(c, was, sent, final),
         Settled(c, ok), was => ok
  PROVE  LET d == ForceDestroy(c)
         IN CoreInv(d, ok, sent, final) /\ d.destroyed /\ Settled(d, ok)
<1>1. PICK b : b = [c EXCEPT !.destroyed = TRUE, !.controls = <<>>, !.pending = {}]
  OBVIOUS
<1>2. /\ IsCore(b) /\ b.pending = {} /\ b.expires = c.expires /\ b.failures = c.failures
      /\ b.destroyed = TRUE
  BY <1>1 DEF CoreInv, IsCore
<1>3. PICK d : d = SetState(b, "destroying")
  OBVIOUS
<1>4. Becomes(d, b, "destroying", {}, c.expires, c.failures)
  BY <1>2, <1>3, SetStateMakes DEF TurnState
<1>5. IsCore(d) /\ d.state = "destroying" /\ d.pending = {} /\ d.expires = c.expires /\ d.failures = c.failures
  BY <1>4 DEF Becomes
<1>6. PICK e : e = PushEvent(d, Event("forced", "destroy", FALSE))
  OBVIOUS
<1>7. Becomes(e, d, d.state, d.pending, d.expires, d.failures)
  <2>1. "forced" \in EventKind
    BY DEF EventKind
  <2> QED
    BY <1>5, <1>6, <2>1, EventMakes
<1>8. e.expires = c.expires /\ e.failures = c.failures /\ Settled(e, ok)
  BY <1>5, <1>7 DEF Becomes, Settled, Exhausted
<1>9. CoreInv(e, ok, sent, final)
  <2>1. Becomes(e, d, "destroying", {}, e.expires, e.failures)
    BY <1>5, <1>7 DEF Becomes
  <2>2. e.expires => sent
    BY <1>8 DEF CoreInv
  <2> QED
    BY <1>8, <2>1, <2>2, EndKeeps DEF Over
<1>10. e.destroyed = TRUE
  <2>1. d.destroyed = TRUE
    <3>1. CASE b.state = "destroying"
      BY <1>2, <1>3, <3>1 DEF SetState
    <3>2. CASE b.state # "destroying"
      <4>1. PICK x : x = [b EXCEPT !.state = "destroying"]
        OBVIOUS
      <4>2. IsCore(x) /\ x.destroyed = TRUE
        BY <1>2, <4>1 DEF IsCore
      <4>3. Event("state", "destroying", TRUE) \in AnEvent
        BY DEF Event, AnEvent, EventKind, TurnState
      <4>4. d = PushEvent(x, Event("state", "destroying", TRUE))
        BY <1>3, <3>2, <4>1 DEF SetState
      <4>5. d = [x EXCEPT !.events = d.events]
        BY <4>2, <4>3, <4>4, PushMakes
      <4> QED
        BY <4>2, <4>5 DEF IsCore
    <3> QED
      BY <3>1, <3>2
  <2>2. Event("forced", "destroy", FALSE) \in AnEvent
    BY DEF Event, AnEvent, EventKind
  <2>3. e = [d EXCEPT !.events = e.events]
    BY <1>5, <1>6, <2>2, PushMakes
  <2> QED
    BY <1>5, <2>1, <2>3 DEF IsCore
<1>11. CASE c.destroyed
  <2>1. CoreInv(c, ok, sent, final)
    BY DEF CoreInv
  <2> QED
    BY <1>11, <2>1 DEF ForceDestroy
<1>12. CASE ~c.destroyed
  <2>1. ForceDestroy(c) = e
    BY <1>1, <1>3, <1>6, <1>12 DEF ForceDestroy
  <2> QED
    BY <1>8, <1>9, <1>10, <2>1
<1> QED
  BY <1>11, <1>12

-----------------------------------------------------------------------------
\* The actions

\* More has been sent, and what is published had been announced.
LEMMA CoreStays ==
  ASSUME NEW c, NEW ok, NEW sent, NEW final, CoreInv(c, ok, sent, final),
         NEW ok2, NEW sent2, NEW final2, ok => ok2, sent => sent2, final2 => final \/ Announced(c)
  PROVE  CoreInv(c, ok2, sent2, final2)
BY DEF CoreInv, Settled

\* A step of the driver that sends, publishes and ends nothing.
LEMMA DriverKeeps ==
  ASSUME TurnInv, driver.pc \notin {"idle", "done"}, IsShared(shared'),
         shared'.sent = shared.sent, shared'.state = shared.state,
         IsDriver(driver'), driver'.pc \notin {"idle", "done"}, driver'.freed = driver.freed,
         driver'.cut = driver.cut, owner' = owner,
         CoreInv(core', driver.freed \/ driver.cut, shared.sent, Finished(shared.state))
  PROVE  TurnInv'
BY DEF TurnInv

\* A step of the owner.
LEMMA OwnerKeeps ==
  ASSUME TurnInv, driver' = driver, IsShared(shared'),
         shared'.sent = shared.sent, shared'.state = shared.state,
         IsOwner(owner'), owner'.pc # "dial", core.destroyed => core' = core,
         CoreInv(core', driver.freed \/ driver.cut, shared.sent, Finished(shared.state))
  PROVE  TurnInv'
BY DEF TurnInv

LEMMA FailMakes ==
  ASSUME NEW s, IsShared(s)
  PROVE  IsShared(Fail(s)) /\ Fail(s).sent = s.sent /\ Fail(s).state = s.state
<1>1. PICK t : t = [s EXCEPT !.terminal = TRUE, !.wake = @ \/ driver.pc = "wait"]
  OBVIOUS
<1>2. IsShared(t) /\ t.sent = s.sent /\ t.state = s.state
  BY <1>1 DEF IsShared
<1>3. Fail(s) = s \/ Fail(s) = t
  BY <1>1 DEF Fail
<1> QED
  BY <1>2, <1>3

LEMMA CleanupMakes ==
  ASSUME NEW s, IsShared(s)
  PROVE  /\ IsShared(RequestCleanup(s)) /\ RequestCleanup(s).sent = s.sent
         /\ RequestCleanup(s).state = s.state
<1>1. PICK t : t = RequestCleanup(s)
  OBVIOUS
<1>2. IsShared(t) /\ t.sent = s.sent /\ t.state = s.state
  BY <1>1 DEF RequestCleanup, IsShared
<1> QED
  BY <1>1, <1>2

\* The loop ends.
LEMMA LoopEnds ==
  ASSUME TurnInv, driver.pc \notin {"idle", "done"}, NEW c, NEW cut \in BOOLEAN,
         CoreInv(c, driver.freed \/ driver.cut, shared.sent, Finished(shared.state)),
         Settled(c, driver.freed \/ cut), core' = ForceDestroy(c),
         IsDriver(driver'), driver'.pc = "done", driver'.cut = cut, driver'.freed = driver.freed,
         IsShared(shared'), shared'.sent = shared.sent, shared'.state = shared.state, owner' = owner
  PROVE  TurnInv'
<1>1. driver.cut => driver.freed \/ cut
  BY DEF TurnInv
<1>2. PICK ok : ok = (driver.freed \/ cut)
  OBVIOUS
<1>3. PICK was : was = (driver.freed \/ driver.cut)
  OBVIOUS
<1>4. was => ok
  BY <1>1, <1>2, <1>3
<1>5. CoreInv(c, was, shared.sent, Finished(shared.state)) /\ Settled(c, ok)
  BY <1>2, <1>3
<1>6. PICK d : d = ForceDestroy(c)
  OBVIOUS
<1>7. CoreInv(d, ok, shared.sent, Finished(shared.state)) /\ d.destroyed /\ Settled(d, ok)
  BY <1>4, <1>5, <1>6, ForceKeeps
<1>8. /\ CoreInv(core', (driver.freed \/ driver.cut)', shared'.sent, Finished(shared'.state))
      /\ core'.destroyed /\ Settled(core', (driver.freed \/ driver.cut)')
  BY <1>2, <1>6, <1>7
<1> QED
  BY <1>8 DEF TurnInv

LEMMA TopKeeps ==
  ASSUME TurnInv, DriverTop
  PROVE  TurnInv'
<1>1. /\ driver.pc = "top" /\ shared' = shared /\ owner' = owner /\ IsDriver(driver)
      /\ IsShared(shared) /\ driver.cut = driver.cut
      /\ CoreInv(core, driver.freed \/ driver.cut, shared.sent, Finished(shared.state))
  BY DEF TurnInv, DriverTop
<1>2. PICK c : c = Cleanup(core)
  OBVIOUS
<1>3. CoreInv(c, driver.freed \/ driver.cut, shared.sent, Finished(shared.state))
  BY <1>1, <1>2, ShutdownStarts DEF Cleanup
<1>4. CASE ~shared.closing
  <2>1. PICK at : driver' = [driver EXCEPT !.pc = at] /\ at \in {"poll", "wait"}
    BY <1>4 DEF DriverTop, Drive
  <2>2. /\ IsDriver(driver') /\ driver'.pc \in {"poll", "wait"} /\ driver'.freed = driver.freed
        /\ driver'.cut = driver.cut
    BY <1>1, <2>1 DEF IsDriver
  <2>3. core' = core
    BY <1>4 DEF DriverTop
  <2> QED
    BY <1>1, <2>2, <2>3, DriverKeeps
<1>5. ASSUME NEW d, End(d, FALSE), Settled(d, driver.freed \/ FALSE),
             CoreInv(d, driver.freed \/ driver.cut, shared.sent, Finished(shared.state))
      PROVE  TurnInv'
  <2>1. driver' = [driver EXCEPT !.pc = "done", !.cut = FALSE] /\ core' = ForceDestroy(d)
    BY <1>5 DEF End
  <2>2. /\ IsDriver(driver') /\ driver'.pc = "done" /\ driver'.cut = FALSE
        /\ driver'.freed = driver.freed
    BY <1>1, <2>1 DEF IsDriver
  <2> QED
    BY <1>1, <1>5, <2>1, <2>2, LoopEnds
<1>6. ~driver.cut
  BY <1>1 DEF TurnInv
<1>7. CASE shared.closing /\ ~shared.sent
  <2>1. End(core, FALSE)
    BY <1>7 DEF DriverTop
  <2>2. ~core.expires
    BY <1>1, <1>7 DEF CoreInv
  <2>3. Settled(core, driver.freed \/ FALSE)
    BY <2>2 DEF Settled
  <2> QED
    BY <1>1, <1>5, <2>1, <2>3
<1>8. CASE shared.closing /\ shared.sent /\ Finished(shared.state)
  <2>1. End(c, FALSE)
    BY <1>2, <1>8 DEF DriverTop
  <2>2. Settled(c, driver.freed \/ driver.cut)
    BY <1>3, <1>8 DEF CoreInv
  <2>3. Settled(c, driver.freed \/ FALSE)
    BY <1>6, <2>2 DEF Settled
  <2> QED
    BY <1>3, <1>5, <2>1, <2>3
<1>9. CASE shared.closing /\ shared.sent /\ ~Finished(shared.state)
  <2>1. core' = c
    BY <1>2, <1>9 DEF DriverTop
  <2>2. PICK at : driver' = [driver EXCEPT !.cleanup = TRUE, !.pc = at] /\ at \in {"poll", "wait"}
    BY <1>9 DEF DriverTop
  <2>3. /\ IsDriver(driver') /\ driver'.pc \in {"poll", "wait"} /\ driver'.freed = driver.freed
        /\ driver'.cut = driver.cut
    BY <1>1, <2>2 DEF IsDriver
  <2> QED
    BY <1>1, <1>3, <2>1, <2>3, DriverKeeps
<1> QED
  BY <1>4, <1>7, <1>8, <1>9

LEMMA CutKeeps ==
  ASSUME TurnInv, DriverCut
  PROVE  TurnInv'
<1>1. /\ driver.pc = "top" /\ shared' = shared /\ owner' = owner /\ IsDriver(driver)
      /\ IsShared(shared)
      /\ CoreInv(core, driver.freed \/ driver.cut, shared.sent, Finished(shared.state))
  BY DEF TurnInv, DriverCut
<1>2. driver' = [driver EXCEPT !.pc = "done", !.cut = TRUE] /\ core' = ForceDestroy(core)
  BY DEF DriverCut, End
<1>3. /\ IsDriver(driver') /\ driver'.pc = "done" /\ driver'.cut = TRUE
      /\ driver'.freed = driver.freed
  BY <1>1, <1>2 DEF IsDriver
<1>4. Settled(core, driver.freed \/ TRUE)
  BY DEF Settled
<1> QED
  BY <1>1, <1>2, <1>3, <1>4, LoopEnds

LEMMA PumpErrorKeeps ==
  ASSUME TurnInv, driver.pc \in {"send", "events"}, NEW c, PumpError(c), owner' = owner,
         CoreInv(c, driver.freed \/ driver.cut, shared.sent, Finished(shared.state))
  PROVE  TurnInv'
<1>1. IsDriver(driver) /\ IsShared(shared)
  BY DEF TurnInv
<1>2. PICK s : s = Fail(shared)
  OBVIOUS
<1>3. IsShared(s) /\ s.sent = shared.sent /\ s.state = shared.state
  BY <1>1, <1>2, FailMakes
<1>4. shared' = RequestCleanup(s)
  BY <1>2 DEF PumpError
<1>5. IsShared(shared') /\ shared'.sent = shared.sent /\ shared'.state = shared.state
  BY <1>3, <1>4, CleanupMakes
<1>6. CASE shared.sent
  <2>1. driver' = [driver EXCEPT !.pump = TRUE, !.lost = FALSE, !.pc = "top"] /\ core' = c
    BY <1>6 DEF PumpError
  <2>2. /\ IsDriver(driver') /\ driver'.pc = "top" /\ driver'.freed = driver.freed
        /\ driver'.cut = driver.cut
    BY <1>1, <2>1 DEF IsDriver
  <2> QED
    BY <1>5, <2>1, <2>2, DriverKeeps
<1>7. CASE ~shared.sent
  <2>1. /\ driver' = [driver EXCEPT !.pump = TRUE, !.lost = FALSE, !.pc = "done"]
        /\ core' = ForceDestroy(c)
    BY <1>7 DEF PumpError
  <2>2. /\ IsDriver(driver') /\ driver'.pc = "done" /\ driver'.freed = driver.freed
        /\ driver'.cut = driver.cut
    BY <1>1, <2>1 DEF IsDriver
  <2>3. driver.cut \in BOOLEAN
    BY DEF TurnInv
  <2>4. ~c.expires
    BY <1>7 DEF CoreInv
  <2>5. Settled(c, driver.freed \/ driver.cut)
    BY <2>4 DEF Settled
  <2> QED
    BY <1>5, <2>1, <2>2, <2>3, <2>5, LoopEnds
<1> QED
  BY <1>6, <1>7

LEMMA PollStepKeeps ==
  ASSUME TurnInv, DriverPoll
  PROVE  TurnInv'
<1>1. /\ driver.pc = "poll" /\ shared' = shared /\ owner' = owner /\ IsDriver(driver)
      /\ IsShared(shared)
      /\ CoreInv(core, driver.freed \/ driver.cut, shared.sent, Finished(shared.state))
  BY DEF TurnInv, DriverPoll
<1>2. CoreInv(core', driver.freed \/ driver.cut, shared.sent, Finished(shared.state))
  BY <1>1, PollKeeps DEF DriverPoll
<1>3. driver' = [driver EXCEPT !.pc = "send", !.late = <<>>, !.due = {}, !.pump = FALSE]
  BY DEF DriverPoll
<1>4. /\ IsDriver(driver') /\ driver'.pc = "send" /\ driver'.freed = driver.freed
      /\ driver'.cut = driver.cut
  BY <1>1, <1>3 DEF IsDriver
<1> QED
  BY <1>1, <1>2, <1>4, DriverKeeps

LEMMA SendKeeps ==
  ASSUME TurnInv, DriverSend
  PROVE  TurnInv'
<1>1. /\ driver.pc = "send" /\ owner' = owner /\ IsDriver(driver) /\ IsShared(shared)
      /\ CoreInv(core, driver.freed \/ driver.cut, shared.sent, Finished(shared.state))
      /\ IsCore(core) /\ Fits(core.pending, core.state)
  BY DEF TurnInv, DriverSend, CoreInv
<1>2. PICK s : s = (shared.sent \/ core.controls # <<>>)
  OBVIOUS
<1>3. PICK g : g = (driver.freed \/ "deallocate" \in Range(core.controls))
  OBVIOUS
<1>4. shared' = [shared EXCEPT !.sent = s] /\ driver' = [driver EXCEPT !.pc = "events", !.freed = g]
  BY <1>2, <1>3 DEF DriverSend
<1>5. /\ IsShared(shared') /\ shared'.sent = s /\ shared'.state = shared.state
      /\ IsDriver(driver') /\ driver'.pc = "events" /\ driver'.freed = g /\ driver'.cut = driver.cut
  BY <1>1, <1>4 DEF IsShared, IsDriver
<1>6. PICK P : P = {[p EXCEPT !.out = @ \/ p.op \in Range(core.controls)] : p \in core.pending}
  OBVIOUS
<1>7. core' = [core EXCEPT !.controls = <<>>, !.pending = P]
  BY <1>6 DEF DriverSend
<1>8. /\ IsCore(core') /\ core'.state = core.state /\ core'.pending = P
      /\ core'.expires = core.expires /\ core'.failures = core.failures
      /\ core'.events = core.events
  BY <1>1, <1>7 DEF IsCore
<1>9. \A q \in P : \E p \in core.pending :
        /\ q = [p EXCEPT !.out = p.out \/ p.op \in Range(core.controls)]
        /\ IsRequest(q) /\ q.op = p.op
        /\ q.out = (p.out \/ p.op \in Range(core.controls))
  BY <1>1, <1>6 DEF Fits, IsRequest
<1>10. Fits(P, core.state)
  <2> SUFFICES ASSUME NEW q \in P, NEW r \in P
               PROVE  /\ IsRequest(q) /\ q.op \in Allowed(core.state)
                      /\ r.op = q.op => r = q
    BY DEF Fits
  <2>1. PICK p \in core.pending :
          q = [p EXCEPT !.out = p.out \/ p.op \in Range(core.controls)] /\ IsRequest(q) /\ q.op = p.op
    BY <1>9
  <2>2. PICK o \in core.pending :
          r = [o EXCEPT !.out = o.out \/ o.op \in Range(core.controls)] /\ r.op = o.op
    BY <1>9
  <2>3. p.op \in Allowed(core.state) /\ (o.op = p.op => o = p)
    BY <1>1 DEF Fits
  <2> QED
    BY <2>1, <2>2, <2>3
<1>11. core.expires \/ (\E q \in P : q.out) => s
  <2>1. core.controls = <<>> => Range(core.controls) = {}
    BY DEF Range
  <2>2. ASSUME NEW q \in P, q.out PROVE s
    <3>1. PICK p \in core.pending : q.out = (p.out \/ p.op \in Range(core.controls))
      BY <1>9
    <3>2. p.out => shared.sent
      BY <1>1 DEF CoreInv
    <3> QED
      BY <1>2, <2>1, <2>2, <3>1, <3>2
  <2>3. core.expires => s
    BY <1>1, <1>2 DEF CoreInv
  <2> QED
    BY <2>2, <2>3
<1>12. Announced(core') <=> Announced(core)
  BY <1>8 DEF Announced
<1>13. Settled(core, driver.freed \/ driver.cut) => Settled(core', g \/ driver.cut)
  BY <1>3, <1>8 DEF Settled, Exhausted
<1>14. CoreInv(core', g \/ driver.cut, s, Finished(shared.state))
  <2>1. core.state \in Over \/ Finished(shared.state) \/ Announced(core) =>
          core.state \in Over \cup {"deallocating"} /\ Settled(core, driver.freed \/ driver.cut)
    BY <1>1 DEF CoreInv
  <2> QED
    BY <1>8, <1>10, <1>11, <1>12, <1>13, <2>1 DEF CoreInv
<1>15. CoreInv(core', driver'.freed \/ driver'.cut, shared'.sent, Finished(shared'.state))
  BY <1>5, <1>14
<1> QED
  BY <1>1, <1>5, <1>15 DEF TurnInv

LEMMA SendFailsKeeps ==
  ASSUME TurnInv, DriverSendFails
  PROVE  TurnInv'
<1>1. PICK c : c = [core EXCEPT !.controls = Tail(@)]
  OBVIOUS
<1>2. PumpError(c) /\ owner' = owner /\ driver.pc = "send"
  BY <1>1 DEF DriverSendFails
<1>3. CoreInv(core, driver.freed \/ driver.cut, shared.sent, Finished(shared.state)) /\ IsCore(core)
  BY DEF TurnInv, CoreInv
<1>4. /\ IsCore(c) /\ c.state = core.state /\ c.pending = core.pending /\ c.expires = core.expires
      /\ c.failures = core.failures /\ c.events = core.events
  BY <1>1, <1>3 DEF IsCore
<1>5. Announced(c) <=> Announced(core)
  BY <1>4 DEF Announced
<1>6. Becomes(c, core, core.state, core.pending, core.expires, core.failures)
  BY <1>4, <1>5 DEF Becomes
<1>7. CoreInv(c, driver.freed \/ driver.cut, shared.sent, Finished(shared.state))
  BY <1>3, <1>6, PartsKeep
<1> QED
  BY <1>2, <1>7, PumpErrorKeeps

LEMMA PublishMakes ==
  ASSUME NEW s, IsShared(s), NEW e
  PROVE  LET t == Publish(s, e)
         IN IsShared(t) /\ t.sent = s.sent /\ t.state = IF e.kind = "state" THEN e.what ELSE s.state
<1>1. PICK t : t = Publish(s, e)
  OBVIOUS
<1>2. CASE e.kind = "state"
  <2>1. t = [s EXCEPT !.state = e.what, !.channel = @ /\ e.what = "ready"]
    BY <1>1, <1>2 DEF Publish
  <2>2. IsShared(t) /\ t.sent = s.sent /\ t.state = e.what
    BY <2>1 DEF IsShared
  <2> QED
    BY <1>1, <1>2, <2>2
<1>3. CASE e.kind = "complete" /\ e.what = "allocate"
  <2>1. PICK u : u = [s EXCEPT !.allocate = IF e.ok THEN "ok" ELSE "failed"]
    OBVIOUS
  <2>2. IsShared(u) /\ u.sent = s.sent /\ u.state = s.state
    BY <2>1 DEF IsShared
  <2>3. IsShared(Fail(u)) /\ Fail(u).sent = s.sent /\ Fail(u).state = s.state
    BY <2>2, FailMakes
  <2>4. t = u \/ t = Fail(u)
    BY <1>1, <1>3, <2>1 DEF Publish
  <2> QED
    BY <1>1, <1>3, <2>2, <2>3, <2>4
<1>4. CASE e.kind = "complete" /\ e.what = "channel"
  <2>1. t = [s EXCEPT !.binds = @ + 1, !.bind = IF e.ok THEN "ok" ELSE "failed"]
    BY <1>1, <1>4 DEF Publish
  <2>2. IsShared(t) /\ t.sent = s.sent /\ t.state = s.state
    BY <2>1 DEF IsShared
  <2> QED
    BY <1>1, <1>4, <2>2
<1>5. CASE e.kind = "bound"
  <2>1. t = [s EXCEPT !.channel = TRUE]
    BY <1>1, <1>5 DEF Publish
  <2>2. IsShared(t) /\ t.sent = s.sent /\ t.state = s.state
    BY <2>1 DEF IsShared
  <2> QED
    BY <1>1, <1>5, <2>2
<1>6. CASE e.kind \in {"overflow", "forced"}
  <2>1. t = Fail(s)
    BY <1>1, <1>6 DEF Publish
  <2> QED
    BY <1>1, <1>6, <2>1, FailMakes
<1>7. CASE /\ e.kind \notin {"state", "bound", "overflow", "forced"}
           /\ ~(e.kind = "complete" /\ e.what \in {"allocate", "channel"})
  <2>1. t = s
    BY <1>1, <1>7 DEF Publish
  <2> QED
    BY <1>1, <1>7, <2>1
<1> QED
  BY <1>2, <1>3, <1>4, <1>5, <1>6, <1>7

LEMMA EventKeeps ==
  ASSUME TurnInv, DriverEvent
  PROVE  TurnInv'
<1>1. /\ driver.pc = "events" /\ core.events # <<>> /\ owner' = owner
      /\ IsDriver(driver) /\ IsShared(shared)
      /\ CoreInv(core, driver.freed \/ driver.cut, shared.sent, Finished(shared.state))
      /\ IsCore(core)
  BY DEF TurnInv, DriverEvent, CoreInv
<1>2. PICK e : e = Head(core.events)
  OBVIOUS
<1>3. PICK c : c = [core EXCEPT !.events = Tail(@)]
  OBVIOUS
<1>4. PICK ev : ev = core.events
  OBVIOUS
<1>5. ev \in Seq(AnEvent) /\ ev # <<>>
  BY <1>1, <1>4 DEF IsCore
<1>6. /\ Tail(ev) \in Seq(AnEvent) /\ Len(Tail(ev)) = Len(ev) - 1 /\ Len(ev) \in Nat \ {0}
      /\ \A i \in 1 .. Len(Tail(ev)) : Tail(ev)[i] = ev[i + 1] /\ e = ev[1]
      /\ e = ev[1]
  BY <1>2, <1>4, <1>5
<1>7. /\ IsCore(c) /\ c.state = core.state /\ c.pending = core.pending /\ c.expires = core.expires
      /\ c.failures = core.failures /\ c.events = Tail(ev)
  BY <1>1, <1>3, <1>4, <1>6 DEF IsCore
<1>8. Announced(c) => Announced(core)
  <2> SUFFICES ASSUME NEW i \in 1 .. Len(Tail(ev)), Tail(ev)[i].kind = "state", Finished(Tail(ev)[i].what)
               PROVE  Announced(core)
    BY <1>7 DEF Announced
  <2>1. i + 1 \in 1 .. Len(ev) /\ ev[i + 1] = Tail(ev)[i]
    BY <1>6
  <2> QED
    BY <1>4, <2>1 DEF Announced
<1>9. CoreInv(c, driver.freed \/ driver.cut, shared.sent, Finished(shared.state))
  <2>1. Becomes(c, core, core.state, core.pending, core.expires, core.failures)
    BY <1>7, <1>8 DEF Becomes
  <2> QED
    BY <1>1, <2>1, PartsKeep
<1>10. CASE e.kind = "relay" /\ ~core.expires
  <2>1. PumpError(c)
    BY <1>2, <1>3, <1>10 DEF DriverEvent
  <2> QED
    BY <1>1, <1>9, <2>1, PumpErrorKeeps
<1>11. CASE ~(e.kind = "relay" /\ ~core.expires)
  <2>1. /\ core' = c /\ shared' = Publish(shared, e)
        /\ driver' = [driver EXCEPT !.lost = @ \/ Unexpected(e)]
    BY <1>2, <1>3, <1>11 DEF DriverEvent
  <2>2. /\ IsDriver(driver') /\ driver'.pc = "events" /\ driver'.freed = driver.freed
        /\ driver'.cut = driver.cut
    BY <1>1, <2>1 DEF IsDriver
  <2>3. /\ IsShared(shared') /\ shared'.sent = shared.sent
        /\ shared'.state = IF e.kind = "state" THEN e.what ELSE shared.state
    BY <1>1, <2>1, PublishMakes
  <2>4. Finished(shared'.state) => Finished(shared.state) \/ Announced(core)
    <3>1. e.kind = "state" /\ Finished(e.what) => Announced(core)
      BY <1>4, <1>6 DEF Announced
    <3> QED
      BY <2>3, <3>1
  <2>5. c.state \in Over \/ Finished(shared'.state) \/ Announced(c) =>
          c.state \in Over \cup {"deallocating"} /\ Settled(c, driver.freed \/ driver.cut)
    <3>1. Settled(c, driver.freed \/ driver.cut) <=> Settled(core, driver.freed \/ driver.cut)
      BY <1>7 DEF Settled, Exhausted
    <3> QED
      BY <1>1, <1>7, <1>8, <2>4, <3>1 DEF CoreInv
  <2>6. CoreInv(c, driver.freed \/ driver.cut, shared.sent, Finished(shared'.state))
    BY <1>9, <2>5 DEF CoreInv
  <2>7. CoreInv(core', driver'.freed \/ driver'.cut, shared'.sent, Finished(shared'.state))
    BY <2>1, <2>2, <2>3, <2>6
  <2> QED
    BY <1>1, <2>2, <2>3, <2>7 DEF TurnInv
<1> QED
  BY <1>10, <1>11

LEMMA PumpedKeeps ==
  ASSUME TurnInv, DriverPumped
  PROVE  TurnInv'
<1>1. /\ driver.pc = "events" /\ core' = core /\ owner' = owner
      /\ IsDriver(driver) /\ IsShared(shared)
      /\ CoreInv(core, driver.freed \/ driver.cut, shared.sent, Finished(shared.state))
  BY DEF TurnInv, DriverPumped
<1>2. driver' = [driver EXCEPT !.pc = "top", !.lost = FALSE]
  BY DEF DriverPumped
<1>3. /\ IsDriver(driver') /\ driver'.pc = "top" /\ driver'.freed = driver.freed
      /\ driver'.cut = driver.cut
  BY <1>1, <1>2 DEF IsDriver
<1>4. shared' \in {shared, Fail(shared)}
  BY DEF DriverPumped, ReportLoss
<1>5. IsShared(shared') /\ shared'.sent = shared.sent /\ shared'.state = shared.state
  BY <1>1, <1>4, FailMakes
<1> QED
  BY <1>1, <1>3, <1>5, DriverKeeps

LEMMA WokenMakes ==
  ASSUME NEW s, IsShared(s), NEW b
  PROVE  LET t == [s EXCEPT !.wake = b]
         IN IsShared(t) /\ t.sent = s.sent /\ t.state = s.state
<1>1. PICK t : t = [s EXCEPT !.wake = b]
  OBVIOUS
<1>2. IsShared(t) /\ t.sent = s.sent /\ t.state = s.state
  BY <1>1 DEF IsShared
<1> QED
  BY <1>1, <1>2

LEMMA ClosedMakes ==
  ASSUME NEW s, IsShared(s)
  PROVE  LET t == [s EXCEPT !.closed = TRUE]
         IN IsShared(t) /\ t.sent = s.sent /\ t.state = s.state
<1>1. PICK t : t = [s EXCEPT !.closed = TRUE]
  OBVIOUS
<1>2. IsShared(t) /\ t.sent = s.sent /\ t.state = s.state
  BY <1>1 DEF IsShared
<1> QED
  BY <1>1, <1>2

\* The driver goes back to the top of its loop from where it waits.
LEMMA BackToTop ==
  ASSUME TurnInv, driver.pc = "wait", NEW behind, NEW due, NEW pump,
         driver' = [driver EXCEPT !.pc = "top", !.pump = pump, !.late = behind, !.due = due],
         owner' = owner, IsShared(shared'), shared'.sent = shared.sent,
         shared'.state = shared.state,
         CoreInv(core', driver.freed \/ driver.cut, shared.sent, Finished(shared.state))
  PROVE  TurnInv'
<1>1. IsDriver(driver)
  BY DEF TurnInv
<1>2. /\ IsDriver(driver') /\ driver'.pc = "top" /\ driver'.freed = driver.freed
      /\ driver'.cut = driver.cut
  BY <1>1 DEF IsDriver
<1> QED
  BY <1>2, DriverKeeps

LEMMA WakeKeeps ==
  ASSUME TurnInv, DriverWake \/ DriverTimer
  PROVE  TurnInv'
<1>1. /\ IsDriver(driver) /\ IsShared(shared)
      /\ CoreInv(core, driver.freed \/ driver.cut, shared.sent, Finished(shared.state))
  BY DEF TurnInv
<1>2. /\ driver.pc = "wait" /\ core' = core /\ owner' = owner
      /\ shared' = [shared EXCEPT !.wake = FALSE]
  BY DEF DriverWake, DriverTimer
<1>3. IsShared(shared') /\ shared'.sent = shared.sent /\ shared'.state = shared.state
  BY <1>1, <1>2, WokenMakes
<1>4. CASE DriverWake
  <2>1. driver' = [driver EXCEPT !.pc = "top", !.pump = TRUE, !.late = driver.late, !.due = driver.due]
    BY <1>1, <1>4 DEF DriverWake, IsDriver
  <2> QED
    BY <1>1, <1>2, <1>3, <2>1, BackToTop
<1>5. CASE DriverTimer
  <2>1. PICK behind, due :
          driver' = [driver EXCEPT !.pc = "top", !.pump = TRUE, !.late = behind, !.due = due]
    BY <1>5 DEF DriverTimer
  <2> QED
    BY <1>1, <1>2, <1>3, <2>1, BackToTop
<1> QED
  BY <1>4, <1>5

LEMMA InputStepKeeps ==
  ASSUME TurnInv, DriverDatagram \/ DriverFrame
  PROVE  TurnInv'
<1>1. /\ IsDriver(driver) /\ IsShared(shared)
      /\ CoreInv(core, driver.freed \/ driver.cut, shared.sent, Finished(shared.state))
  BY DEF TurnInv
<1>2. PICK p \in core.pending : driver.pc = "wait" /\ Arrives(p)
  BY DEF DriverDatagram, DriverFrame
<1>3. PICK a, expired : Receive(p, a, expired)
  <2>1. (\E a \in Answers(p) : Receive(p, a, FALSE)) \/ (\E a \in Answers(p) : Receive(p, a, TRUE))
          \/ (\E a \in Refusals : Receive(p, a, FALSE)) \/ (\E a \in Unsigned : Receive(p, a, FALSE))
    BY <1>2 DEF Arrives
  <2> QED
    BY <2>1
<1>4. /\ p.out /\ core' = InputStun(core, p, a, expired) /\ shared' = shared /\ owner' = owner
      /\ driver' = [driver EXCEPT !.pc = "top", !.pump = TRUE]
  BY <1>3 DEF Receive
<1>5. CoreInv(core', driver.freed \/ driver.cut, shared.sent, Finished(shared.state))
  BY <1>1, <1>4, InputKeeps
<1>6. driver' = [driver EXCEPT !.pc = "top", !.pump = TRUE, !.late = driver.late, !.due = driver.due]
  BY <1>1, <1>4 DEF IsDriver
<1>7. IsShared(shared') /\ shared'.sent = shared.sent /\ shared'.state = shared.state
  BY <1>1, <1>4
<1>8. driver.pc = "wait" /\ owner' = owner
  BY <1>2, <1>4
<1> QED
  BY <1>5, <1>6, <1>7, <1>8, BackToTop

LEMMA ReceiverKeeps ==
  ASSUME TurnInv, DriverOwnerClosed \/ DriverReceiveFails
  PROVE  TurnInv'
<1>1. /\ IsDriver(driver) /\ IsShared(shared)
      /\ CoreInv(core, driver.freed \/ driver.cut, shared.sent, Finished(shared.state))
  BY DEF TurnInv
<1>2. /\ driver.pc = "wait" /\ core' = core /\ owner' = owner
      /\ shared' \in {shared, RequestCleanup(shared), RequestCleanup(Fail(shared))}
  BY DEF DriverOwnerClosed, DriverReceiveFails
<1>3. IsShared(shared') /\ shared'.sent = shared.sent /\ shared'.state = shared.state
  <2>1. /\ IsShared(Fail(shared)) /\ Fail(shared).sent = shared.sent
        /\ Fail(shared).state = shared.state
    BY <1>1, FailMakes
  <2> QED
    BY <1>1, <1>2, <2>1, CleanupMakes
<1>4. PICK pump : driver' = [driver EXCEPT !.pc = "top", !.pump = pump]
  <2>1. CASE DriverOwnerClosed
    <3>1. driver' = [driver EXCEPT !.pc = "top", !.pump = driver.pump]
      BY <1>1, <2>1 DEF DriverOwnerClosed, Drive, IsDriver
    <3> QED
      BY <3>1
  <2>2. CASE DriverReceiveFails
    BY <2>2 DEF DriverReceiveFails
  <2> QED
    BY <2>1, <2>2
<1>5. driver' = [driver EXCEPT !.pc = "top", !.pump = pump, !.late = driver.late, !.due = driver.due]
  BY <1>1, <1>4 DEF IsDriver
<1> QED
  BY <1>1, <1>2, <1>3, <1>5, BackToTop

LEMMA DialKeeps ==
  ASSUME TurnInv, OwnerDial
  PROVE  TurnInv'
<1>1. /\ owner.pc = "dial" /\ driver.pc = "idle" /\ core' = core /\ shared' = shared
      /\ IsDriver(driver) /\ IsOwner(owner) /\ ~driver.cut
  BY DEF TurnInv, OwnerDial
<1>2. PICK at : owner' = [owner EXCEPT !.pc = at] /\ at \in {"connect", "gone"}
  BY DEF OwnerDial, Own
<1>3. IsOwner(owner') /\ owner'.pc # "dial"
  BY <1>1, <1>2 DEF IsOwner
<1>4. driver' = driver \/ driver' = [driver EXCEPT !.pc = "top"]
  BY DEF OwnerDial, Drive
<1>5. /\ IsDriver(driver') /\ driver'.pc # "done" /\ driver'.freed = driver.freed
      /\ driver'.cut = driver.cut
  BY <1>1, <1>4 DEF IsDriver
<1> QED
  BY <1>1, <1>3, <1>5 DEF TurnInv

\* The owner leaves the core alone.
LEMMA OwnerMoves ==
  ASSUME TurnInv, NEW at, at # "dial", Own(at), driver' = driver, core' = core,
         IsShared(shared'), shared'.sent = shared.sent, shared'.state = shared.state
  PROVE  TurnInv'
<1>1. CoreInv(core, driver.freed \/ driver.cut, shared.sent, Finished(shared.state)) /\ IsOwner(owner)
  BY DEF TurnInv
<1>2. IsOwner(owner') /\ owner'.pc # "dial"
  BY <1>1 DEF IsOwner, Own
<1> QED
  BY <1>1, <1>2, OwnerKeeps

\* The owner starts an operation of the core.
LEMMA OwnerStarts ==
  ASSUME TurnInv, IsOwner(owner'), owner'.pc # "dial", driver' = driver, ~core.destroyed, NEW op,
         op \in Allowed(core.state), core' = StartOperation(core, op, TRUE, 0),
         IsShared(shared'), shared'.sent = shared.sent, shared'.state = shared.state
  PROVE  TurnInv'
<1>1. CoreInv(core, driver.freed \/ driver.cut, shared.sent, Finished(shared.state)) /\ IsCore(core)
  BY DEF TurnInv, CoreInv
<1>2. Starting(core', core, op)
  BY <1>1, StartMakes
<1>3. CoreInv(core', driver.freed \/ driver.cut, shared.sent, Finished(shared.state))
  BY <1>1, <1>2, StartingKeeps
<1> QED
  BY <1>3, OwnerKeeps

LEMMA ConnectKeeps ==
  ASSUME TurnInv, OwnerConnect
  PROVE  TurnInv'
<1>1. /\ driver' = driver /\ IsShared(shared) /\ IsOwner(owner) /\ IsCore(core)
      /\ CoreInv(core, driver.freed \/ driver.cut, shared.sent, Finished(shared.state))
  BY DEF TurnInv, OwnerConnect, CoreInv
<1>2. CASE Open(core) /\ core.state = "null"
  <2>1. PICK d : d = SetState(core, "allocating")
    OBVIOUS
  <2>2. /\ core' = StartOperation(d, "allocate", FALSE, 0) /\ Own("allocating")
        /\ shared' = [shared EXCEPT !.wake = TRUE]
    BY <1>2, <2>1 DEF OwnerConnect
  <2>3. IsShared(shared') /\ shared'.sent = shared.sent /\ shared'.state = shared.state
    BY <1>1, <2>2, WokenMakes
  <2>4. IsOwner(owner') /\ owner'.pc # "dial"
    BY <1>1, <2>2 DEF IsOwner, Own
  <2>5. core.pending = {}
    BY <1>1, <1>2 DEF CoreInv, Fits, Allowed
  <2>6. Becomes(d, core, "allocating", {}, core.expires, core.failures)
    BY <1>1, <2>1, <2>5, SetStateMakes DEF TurnState
  <2>7. Becomes(d, core, "allocating", {}, d.expires, d.failures) /\ d.expires = core.expires
    BY <2>6 DEF Becomes
  <2>8. "allocating" \notin Over /\ core.state \notin Over \cup {"deallocating"}
    BY <1>2 DEF Over
  <2>9. d.expires => shared.sent
    BY <1>1, <2>7 DEF CoreInv
  <2>10. /\ CoreInv(d, driver.freed \/ driver.cut, shared.sent, Finished(shared.state))
         /\ d.state = "allocating"
    BY <1>1, <2>7, <2>8, <2>9, StateKeeps
  <2>11. Starting(core', d, "allocate") /\ "allocate" \in Allowed(d.state)
    BY <2>2, <2>10, StartMakes DEF CoreInv, Allowed
  <2>12. CoreInv(core', driver.freed \/ driver.cut, shared.sent, Finished(shared.state))
    BY <2>10, <2>11, StartingKeeps
  <2>13. ~core.destroyed
    BY <1>2 DEF Open
  <2> QED
    BY <1>1, <2>3, <2>4, <2>12, <2>13, OwnerKeeps
<1>3. CASE ~(Open(core) /\ core.state = "null")
  <2>1. shared' = Fail(shared) /\ Own("leaving") /\ core' = core
    BY <1>3 DEF OwnerConnect
  <2>2. IsShared(shared') /\ shared'.sent = shared.sent /\ shared'.state = shared.state
    BY <1>1, <2>1, FailMakes
  <2> QED
    BY <1>1, <2>1, <2>2, OwnerMoves
<1> QED
  BY <1>2, <1>3

LEMMA BindKeeps ==
  ASSUME TurnInv, OwnerPermit \/ OwnerBind
  PROVE  TurnInv'
<1>1. driver' = driver /\ IsShared(shared) /\ IsOwner(owner)
  BY DEF TurnInv, OwnerPermit, OwnerBind
<1>2. CASE shared' = Fail(shared) /\ Own("leaving") /\ core' = core
  <2>1. IsShared(shared') /\ shared'.sent = shared.sent /\ shared'.state = shared.state
    BY <1>1, <1>2, FailMakes
  <2> QED
    BY <1>1, <1>2, <2>1, OwnerMoves
<1>3. Ready(core) => /\ ~core.destroyed
                     /\ "permission" \in Allowed(core.state) /\ "channel" \in Allowed(core.state)
  BY DEF Ready, Open, Allowed, Maintenance
<1>4. CASE /\ Ready(core) /\ core' = StartOperation(core, "permission", TRUE, 0)
           /\ owner' = [pc |-> "permitted", baseline |-> shared.binds] /\ shared' = shared
  <2>1. IsOwner(owner') /\ owner'.pc # "dial"
    BY <1>4 DEF IsOwner
  <2>2. IsShared(shared') /\ shared'.sent = shared.sent /\ shared'.state = shared.state
    BY <1>1, <1>4
  <2> QED
    BY <1>1, <1>3, <1>4, <2>1, <2>2, OwnerStarts
<1>5. CASE /\ Ready(core) /\ core' = StartOperation(core, "channel", TRUE, 0) /\ Own("binding")
           /\ shared' = [shared EXCEPT !.wake = TRUE]
  <2>1. IsOwner(owner') /\ owner'.pc # "dial"
    BY <1>1, <1>5 DEF IsOwner, Own
  <2>2. IsShared(shared') /\ shared'.sent = shared.sent /\ shared'.state = shared.state
    BY <1>1, <1>5, WokenMakes
  <2> QED
    BY <1>1, <1>3, <1>5, <2>1, <2>2, OwnerStarts
<1> QED
  BY <1>2, <1>4, <1>5 DEF OwnerPermit, OwnerBind

\* The steps of the owner that leave the core alone.
LEMMA WaitKeeps ==
  ASSUME TurnInv,
         \/ OwnerAllocated \/ OwnerBound \/ OwnerSeesEnd \/ OwnerLeaves \/ OwnerCleanup \/ OwnerDrop
  PROVE  TurnInv'
<1>1. driver' = driver /\ core' = core /\ IsShared(shared)
  BY DEF TurnInv, OwnerAllocated, OwnerBound, OwnerSeesEnd, OwnerLeaves, OwnerCleanup, OwnerDrop
<1>2. PICK at \in {"ready", "leaving", "open", "cleanup", "gone"} : Own(at)
  BY DEF OwnerAllocated, OwnerBound, OwnerSeesEnd, OwnerLeaves, OwnerCleanup, OwnerDrop
<1>3. shared' \in {shared, Fail(shared), [shared EXCEPT !.closed = TRUE], RequestCleanup(shared),
                   [RequestCleanup(shared) EXCEPT !.closed = TRUE]}
  BY DEF OwnerAllocated, OwnerBound, OwnerSeesEnd, OwnerLeaves, OwnerCleanup, OwnerDrop
<1>4. IsShared(shared') /\ shared'.sent = shared.sent /\ shared'.state = shared.state
  <2>1. PICK s : s = RequestCleanup(shared)
    OBVIOUS
  <2>2. IsShared(s) /\ s.sent = shared.sent /\ s.state = shared.state
    BY <1>1, <2>1, CleanupMakes
  <2> QED
    BY <1>1, <1>3, <2>1, <2>2, FailMakes, ClosedMakes
<1>5. at # "dial"
  BY <1>2
<1> QED
  BY <1>1, <1>2, <1>4, <1>5, OwnerMoves

LEMMA OwnerShutdownKeeps ==
  ASSUME TurnInv, OwnerShutdown
  PROVE  TurnInv'
<1>1. /\ driver' = driver /\ shared' = shared /\ IsShared(shared) /\ IsOwner(owner)
      /\ CoreInv(core, driver.freed \/ driver.cut, shared.sent, Finished(shared.state))
      /\ core' = GracefulShutdown(core) /\ Own("freed")
  BY DEF TurnInv, OwnerShutdown
<1>2. CoreInv(core', driver.freed \/ driver.cut, shared.sent, Finished(shared.state))
  BY <1>1, ShutdownStarts
<1>3. core.destroyed => core' = core
  BY <1>1 DEF GracefulShutdown
<1>4. IsOwner(owner') /\ owner'.pc # "dial"
  BY <1>1 DEF IsOwner, Own
<1>5. IsShared(shared') /\ shared'.sent = shared.sent /\ shared'.state = shared.state
  BY <1>1
<1> QED
  BY <1>1, <1>2, <1>3, <1>4, <1>5, OwnerKeeps

LEMMA TurnStarts == TurnInit => TurnInv
<1> SUFFICES ASSUME TurnInit PROVE TurnInv
  OBVIOUS
<1>1. IsShared(shared) /\ IsDriver(driver) /\ IsOwner(owner) /\ IsCore(core)
  BY DEF TurnInit, IsShared, IsDriver, IsOwner, IsCore
<1>2. /\ core.state = "null" /\ core.pending = {} /\ core.events = <<>> /\ core.expires = FALSE
      /\ shared.state = "null" /\ driver.pc = "idle" /\ driver.cut = FALSE
  BY DEF TurnInit
<1>3. ~Announced(core) /\ ~Finished(shared.state) /\ core.state \notin Over
  BY <1>2, FinalStates DEF Announced, Over
<1>4. Fits(core.pending, core.state)
  BY <1>2 DEF Fits
<1>5. CoreInv(core, driver.freed \/ driver.cut, shared.sent, Finished(shared.state))
  BY <1>1, <1>2, <1>3, <1>4 DEF CoreInv
<1> QED
  BY <1>1, <1>2, <1>5 DEF TurnInv

LEMMA TurnStepKeeps == TurnInv /\ [TurnNext]_turnVars => TurnInv'
<1> SUFFICES ASSUME TurnInv, [TurnNext]_turnVars PROVE TurnInv'
  OBVIOUS
<1>1. CASE UNCHANGED <<core, shared, driver, owner>>
  <2>1. core' = core /\ shared' = shared /\ driver' = driver /\ owner' = owner
    BY <1>1
  <2> QED
    BY <2>1 DEF TurnInv
<1>2. CASE UNCHANGED turnVars
  BY <1>1, <1>2 DEF turnVars
<1>3. CASE ServerAllocates \/ ServerForgets
  BY <1>1, <1>3 DEF ServerAllocates, ServerForgets
<1>4. CASE Driver
  BY <1>4, TopKeeps, PollStepKeeps, SendKeeps, EventKeeps, PumpedKeeps, WakeKeeps, InputStepKeeps,
     ReceiverKeeps DEF Driver
<1>5. CASE OwnerStep
  BY <1>5, DialKeeps, ConnectKeeps, BindKeeps, WaitKeeps, OwnerShutdownKeeps DEF OwnerStep
<1>6. CASE DriverCut \/ DriverSendFails \/ DriverReceiveFails \/ OwnerLeaves
  BY <1>6, CutKeeps, SendFailsKeeps, ReceiverKeeps, WaitKeeps
<1> QED
  BY <1>2, <1>3, <1>4, <1>5, <1>6 DEF TurnNext

\* When the loop of the driver ends while the core still knows an allocation, the request that
\* gives it back has been sent, however the owner, the driver, its timers and the answers of the
\* server were interleaved and whatever events the ring lost; a cleanup that was cut short and an
\* allocation given up by its channel are excepted (graceful_shutdown, complete_success,
\* driver_loop).
THEOREM AllocationIsReleased == TurnSpec => []ReleasedAtEnd
<1>1. TurnInv => ReleasedAtEnd
  BY DEF TurnInv, ReleasedAtEnd, Settled
<1> QED
  BY <1>1, TurnStarts, TurnStepKeeps, PTL DEF TurnSpec
=============================================================================
