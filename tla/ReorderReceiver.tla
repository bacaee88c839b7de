--------------------------- MODULE ReorderReceiver ---------------------------
(***************************************************************************)
(* The receiving end of a CSQPX2 byte stream (shared/proxy_sequence.rs),   *)
(* as pure operators on the record                                         *)
(*     [expected, pending, buffered_bytes].                                *)
(*                                                                         *)
(* A chunk is [off, data]: the absolute offset of its header and its       *)
(* bytes.  A byte is named by its position in the stream that was sent, so *)
(* a byte that is written at the wrong place can be told apart.            *)
(*                                                                         *)
(* The loop of `push` that drains the parked chunks behind a filled hole   *)
(* is written without recursion: the offsets it visits are the least set   *)
(* that contains the offset it starts from and is closed under stepping    *)
(* over a parked chunk.                                                    *)
(***************************************************************************)
EXTENDS Naturals, Sequences, FiniteSets

CONSTANT MaxBuffered        \* MAX_BUFFERED, the reorder window in bytes

ASSUME MaxBufferedAssumption == MaxBuffered \in Nat

Byte  == Nat
Bytes == Seq(Byte) \ {<<>>}
Chunk == [off : Nat, data : Bytes]

Default == [expected |-> 0, pending |-> [o \in {} |-> <<>>], buffered_bytes |-> 0]

is_waiting(r)     == DOMAIN r.pending # {}
missing_offset(r) == r.expected
-----------------------------------------------------------------------------
(***************************************************************************)
(* The drain loop: while pending has a chunk at the expected offset, step  *)
(* over it.                                                                *)
(***************************************************************************)
After(pending, o)  == o + Len(pending[o])
Stops(pending, e)  == {e} \cup {After(pending, o) : o \in DOMAIN pending}
Closed(pending, T) == \A o \in T \cap DOMAIN pending : After(pending, o) \in T

\* The offsets the loop visits, the last one (where it stops) included.
Visited(pending, e) ==
  {x \in Stops(pending, e) :
     \A T \in SUBSET Stops(pending, e) : e \in T /\ Closed(pending, T) => x \in T}

\* The chunks it takes out of the reorder buffer.
Drained(pending, e) == Visited(pending, e) \cap DOMAIN pending

\* The offset it stops at.
DrainEnd(pending, e) == CHOOSE x \in Visited(pending, e) : x \notin DOMAIN pending

\* A bug the code does not have: a drained chunk is cut at the wrong index.
DrainByteFromStart(pending, e, k) ==
  LET o == CHOOSE o \in Drained(pending, e) : o <= k /\ k < After(pending, o)
  IN  pending[o][1]

\* The byte the loop puts at stream position k.
DrainByte(pending, e, k) ==
  LET o == CHOOSE o \in Drained(pending, e) : o <= k /\ k < After(pending, o)
  IN  pending[o][k - o + 1]
-----------------------------------------------------------------------------
(***************************************************************************)
(* push: the new receiver, the bytes made ready, and whether the stream    *)
(* survives.                                                               *)
(***************************************************************************)
Ignored(r) == [rx |-> r, out |-> <<>>, ok |-> TRUE]

Consume(r, c) ==
  LET e   == r.expected + Len(c.data)
      end == DrainEnd(r.pending, e)
  IN  [rx  |-> [expected |-> end,
                pending  |-> [o \in DOMAIN r.pending \ Drained(r.pending, e) |-> r.pending[o]],
                buffered_bytes |-> r.buffered_bytes - (end - e)],
       out |-> [i \in 1 .. (end - r.expected) |->
                  IF i <= Len(c.data) THEN c.data[i]
                  ELSE DrainByte(r.pending, e, r.expected + i - 1)],
       ok  |-> TRUE]

\* A bug the code does not have: the window counts chunks where it should count bytes.
ParkCountsChunks(r, c) ==
  LET buffered == r.buffered_bytes + 1
      parked   == [o \in DOMAIN r.pending \cup {c.off} |->
                     IF o = c.off THEN c.data ELSE r.pending[o]]
  IN  [rx  |-> [expected |-> r.expected, buffered_bytes |-> buffered,
                pending |-> IF buffered > MaxBuffered THEN r.pending ELSE parked],
       out |-> <<>>, ok |-> buffered <= MaxBuffered]

Park(r, c) ==
  LET buffered == r.buffered_bytes + Len(c.data)
      parked   == [o \in DOMAIN r.pending \cup {c.off} |->
                     IF o = c.off THEN c.data ELSE r.pending[o]]
      Rx(pending) == [expected |-> r.expected, pending |-> pending, buffered_bytes |-> buffered]
  IN  IF buffered > MaxBuffered
      THEN [rx |-> Rx(r.pending), out |-> <<>>, ok |-> FALSE]
      ELSE [rx |-> Rx(parked), out |-> <<>>, ok |-> TRUE]

\* A bug the code does not have: a late duplicate at or before the cursor is consumed again.
PushConsumesLateCopies(r, c) ==
  IF c.off <= r.expected THEN Consume(r, c)
  ELSE IF c.off \in DOMAIN r.pending THEN Ignored(r)
  ELSE Park(r, c)

push(r, c) ==
  IF c.off < r.expected THEN Ignored(r)
  ELSE IF c.off = r.expected THEN Consume(r, c)
  ELSE IF c.off \in DOMAIN r.pending THEN Ignored(r)
  ELSE Park(r, c)
-----------------------------------------------------------------------------
(***************************************************************************)
(* What the receiver keeps true while every chunk it is given carries      *)
(* bytes of the first B of the stream at their own offset.                 *)
(***************************************************************************)
InPlace(off, data, B) ==
  /\ off + Len(data) <= B
  /\ \A i \in 1 .. Len(data) : data[i] = off + i - 1

GoodPending(pending, B) ==
  /\ DOMAIN pending \subseteq Nat
  /\ \A o \in DOMAIN pending : pending[o] \in Bytes /\ InPlace(o, pending[o], B)

\* The parked bytes, one by one: <<offset of the chunk, index in the chunk>>.
Cells(pending) == UNION {{o} \X (1 .. Len(pending[o])) : o \in DOMAIN pending}

Sound(r, B) ==
  /\ r.expected \in Nat /\ r.expected <= B
  /\ GoodPending(r.pending, B)

Accounted(r) == r.buffered_bytes = Cardinality(Cells(r.pending))
=============================================================================
