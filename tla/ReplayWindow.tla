---------------------------- MODULE ReplayWindow ----------------------------
(***************************************************************************)
(* The replay protection of a session, in its two implementations:         *)
(*                                                                         *)
(*  - ReplayWindow of rust-client/session.rs extends the 16-bit sequence   *)
(*    number of a packet to a 64-bit counter next to the highest one it    *)
(*    has accepted;                                                        *)
(*  - ReplayState of rust-server/protocol.rs compares 16-bit numbers with  *)
(*    wrapping arithmetic.                                                 *)
(*                                                                         *)
(* Packet c carries the number (first + c) % Modulus.  The network drops,  *)
(* reorders and repeats packets; both windows see the same arrivals.       *)
(* A packet more than half the number space away from the newest one       *)
(* cannot be told apart from one on the other side, so arrivals are        *)
(* limited to that span.                                                   *)
(***************************************************************************)
EXTENDS Integers

CONSTANTS
  Modulus,   \* 2^16, the numbers of a packet
  Window,    \* 16384, the bits of a window
  Packets,   \* packets of a session the model explores
  Firsts,    \* the initial sequence numbers to explore
  OrderedStart  \* no packet overtakes the first one of the session

Half == Modulus \div 2
Ids  == 0 .. (Packets - 1)

ASSUME ReplayWindowAssumption ==
  /\ Modulus \in Nat /\ Window \in Nat \ {0} /\ Packets \in Nat
  /\ Modulus % (2 * Window) = 0
  /\ Firsts \subseteq 0 .. (Modulus - 1) /\ OrderedStart \in BOOLEAN

VARIABLES
  first,    \* initial_sequence
  newest,   \* the newest packet that arrived, -1 before the first one
  client,   \* ReplayWindow: highest (-1 for None) and the set bits of seen
  server,   \* ReplayState: highest (-1 when not initialized) and bitmap
  times     \* how often each window accepted each packet

replayVars == <<first, newest, client, server, times>>

Seq16(c) == (first + c) % Modulus

Empty == [highest |-> -1, seen |-> {}]

ReplayInit ==
  /\ first \in Firsts /\ newest = -1
  /\ client = Empty /\ server = Empty
  /\ times = [client |-> [c \in Ids |-> 0], server |-> [c \in Ids |-> 0]]
-----------------------------------------------------------------------------
Bit(counter) == counter % Window

Accept(w, highest, bits) == [w |-> [highest |-> highest, seen |-> bits], ok |-> TRUE]
Reject(w) == [w |-> w, ok |-> FALSE]

\* A bug the code does not have: the bits stepped over stay set.
ForwardKeepsStale(w, counter, shift) ==
  Accept(w, counter, (IF shift >= Window THEN {} ELSE w.seen) \cup {Bit(counter)})

\* A window that moves forward by shift forgets the bits it steps over.
Forward(w, counter, shift) ==
  LET stepped == {Bit(w.highest + i) : i \in 1 .. shift}
      kept    == IF shift >= Window THEN {} ELSE w.seen \ stepped
  IN  Accept(w, counter, kept \cup {Bit(counter)})

\* A counter that is not ahead: too old, already seen, or late.
Behind(w, counter, age) ==
  IF age >= Window \/ Bit(counter) \in w.seen
  THEN Reject(w)
  ELSE Accept(w, w.highest, w.seen \cup {Bit(counter)})

accept(w, counter) ==
  IF w.highest = -1 THEN Accept(w, counter, {Bit(counter)})
  ELSE IF counter > w.highest THEN Forward(w, counter, counter - w.highest)
  ELSE Behind(w, counter, w.highest - counter)

\* A bug the code does not have: a late number of the last round is not taken back.
ExtendNoBorrow(highest, sequence) ==
  LET extended == highest - (highest % Modulus) + sequence
  IN  IF extended + Half < highest THEN extended + Modulus ELSE extended

\* The counter with this number that is nearest to highest; there is none
\* below zero.
Extend(highest, sequence) ==
  LET extended == highest - (highest % Modulus) + sequence
  IN  IF extended + Half < highest THEN extended + Modulus
      ELSE IF extended > highest + Half /\ extended >= Modulus THEN extended - Modulus
      ELSE extended

accept_rtp(w, sequence) ==
  accept(w, IF w.highest = -1 THEN sequence ELSE Extend(w.highest, sequence))

\* A bug the code does not have: every step forward clears the bitmap.
ServerAcceptForgetful(w, seq) ==
  LET forward == (seq - w.highest) % Modulus
      behind  == (w.highest - seq) % Modulus
  IN  IF w.highest = -1 THEN Accept(w, seq, {Bit(seq)})
      ELSE IF forward # 0 /\ forward < Half THEN Accept(w, seq, {Bit(seq)})
      ELSE Behind(w, seq, behind)

\* ReplayState::accept, with wrapping subtraction.
server_accept(w, seq) ==
  LET forward == (seq - w.highest) % Modulus
      behind  == (w.highest - seq) % Modulus
  IN  IF w.highest = -1 THEN Accept(w, seq, {Bit(seq)})
      ELSE IF forward # 0 /\ forward < Half THEN Forward(w, seq, forward)
      ELSE Behind(w, seq, behind)
-----------------------------------------------------------------------------
Add(counts, c, ok) == IF ok THEN [counts EXCEPT ![c] = @ + 1] ELSE counts

\* A copy of packet c arrives at both windows.
Arrive(c) ==
  LET atClient == accept_rtp(client, Seq16(c))
      atServer == server_accept(server, Seq16(c))
  IN  /\ IF newest = -1 THEN OrderedStart => c = 0
         ELSE c - newest < Half /\ newest - c < Half
      /\ newest' = IF c > newest THEN c ELSE newest
      /\ client' = atClient.w /\ server' = atServer.w
      /\ times' = [client |-> Add(times.client, c, atClient.ok),
                   server |-> Add(times.server, c, atServer.ok)]
      /\ UNCHANGED first

ReplayNext == \E c \in Ids : Arrive(c)

ReplaySpec == ReplayInit /\ [][ReplayNext]_replayVars
-----------------------------------------------------------------------------
\* No copy of a packet is let through twice by the client's window, however
\* late it comes and however often the numbers wrap (ReplayWindow::accept_rtp).
ClientOnce == \A c \in Ids : times.client[c] <= 1

\* The two implementations take the same decisions, so the server's window
\* (ReplayState::accept) lets a packet through at most once as well.
SameVerdict == times.client = times.server

\* A packet that has not been seen, is less than a window late and less than
\* half the numbers ahead would be let through: protection never costs a
\* packet that is merely reordered.
FreshIsAccepted ==
  \A c \in Ids :
    c - newest < Half /\ newest - c < Window
      => /\ times.client[c] = 0 => accept_rtp(client, Seq16(c)).ok
         /\ times.server[c] = 0 => server_accept(server, Seq16(c)).ok
-----------------------------------------------------------------------------
(***************************************************************************)
(* The inductive invariant: both windows stand at the newest packet, and   *)
(* the bits within a window of it are the packets let through.             *)
(***************************************************************************)
ReplayTypeOK ==
  /\ first \in Firsts /\ newest \in -1 .. (Packets - 1)
  /\ client \in [highest : Int, seen : SUBSET Int] /\ server \in [highest : Int, seen : SUBSET Int]
  /\ times \in [client : [Ids -> Nat], server : [Ids -> Nat]]

Fresh == newest = -1 => client = Empty /\ server = Empty

AtNewest ==
  newest # -1 => /\ client.highest = first + newest /\ server.highest = Seq16(newest)
                 /\ client.seen = server.seen

BitsAreAccepted ==
  newest # -1 =>
    \A i \in 0 .. (Window - 1) :
      Bit(first + newest - i) \in client.seen <=> i <= newest /\ times.client[newest - i] > 0

Counted ==
  /\ times.client = times.server
  /\ \A c \in Ids : times.client[c] <= 1 /\ (c > newest => times.client[c] = 0)

ReplayInv == ReplayTypeOK /\ Fresh /\ AtNewest /\ BitsAreAccepted /\ Counted
=============================================================================
