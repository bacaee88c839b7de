----------------------------- MODULE ProxyStream -----------------------------
(***************************************************************************)
(* The downlink of one opened CSQPX2 stream.                               *)
(*                                                                         *)
(*   target --> run_stream --> carrier --> demultiplexer --> handle_client *)
(*              (server)   <-- RESEND, CLOSE ---------------   (client)    *)
(*                                                                         *)
(* run_stream (rust-server/stream_proxy.rs) cuts what it reads from the    *)
(* target into chunks, remembers the last bytes and replays them on a      *)
(* RESEND request.  handle_client (rust-client/stream_proxy.rs) puts the   *)
(* chunks together with a ReorderReceiver and writes them to the caller.   *)
(* The carrier reorders frames and loses them (a lost frame is one that    *)
(* stays on the wire for ever).  It hands a frame over at most once: the   *)
(* copies selective FEC adds repeat the sequence number of the original,   *)
(* and the session's replay window drops all but the first (ReplayWindow). *)
(*                                                                         *)
(* Deadlines are abstracted to events that may happen whenever the code    *)
(* has them armed.  The uplink uses the same receiver without RESEND; its  *)
(* frames are left out here; its failures are ServerFail and enqueue_data. *)
(***************************************************************************)
EXTENDS ReorderReceiver

CONSTANTS
  StreamLen,          \* bytes the target sends at most (bounds the model)
  MaxData,            \* MAX_DATA, bytes of one DATA frame
  ResendBufferBytes,  \* RESEND_BUFFER_BYTES, bytes of the replay tail
  ResendMaxFrames,    \* RESEND_MAX_FRAMES, frames of one replay
  InboxCap,           \* capacity of the client's per-stream channel
  InputCap            \* capacity of the server's per-stream channel

ASSUME ProxyStreamAssumption ==
  /\ StreamLen \in Nat /\ MaxData \in Nat \ {0}
  /\ ResendBufferBytes \in Nat \ {0} /\ ResendMaxFrames \in Nat \ {0}
  /\ InboxCap \in Nat \ {0} /\ InputCap \in Nat \ {0}

VARIABLES
  read,       \* bytes read from the target
  sent,       \* StreamSequence::offset of the downlink
  out_tail,   \* the bytes a RESEND can replay
  srv,        \* "open" while run_stream runs, then how it ended
  tabled,     \* proxy_streams has the stream
  input,      \* the server's channel of StreamInput
  down, up,   \* frames on the wire
  carrier,    \* the worker the stream is pinned to is registered
  inbox,      \* the client's channel of Inbound
  registered, \* the client's stream map has the stream
  rx,         \* the client's ReorderReceiver
  delivered,  \* bytes written to the caller
  cli,        \* "open" while handle_client runs
  cause       \* why handle_client ended

server == <<read, sent, out_tail, srv, tabled, input>>
client == <<inbox, registered, rx, delivered, cli, cause>>
vars   == <<server, client, down, up, carrier>>

Frame(kind, off, data) == [kind |-> kind, off |-> off, data |-> data]
CLOSE    == Frame("CLOSE", 0, <<>>)
OPEN_ERR == Frame("OPEN_ERR", 0, <<>>)
DATA(off, data) == Frame("DATA", off, data)
Resend(off)     == Frame("RESEND", off, <<>>)

DownFrame == [kind : {"DATA"}, off : Nat, data : Bytes] \cup {CLOSE, OPEN_ERR}
UpFrame   == [kind : {"RESEND"}, off : Nat, data : {<<>>}] \cup {CLOSE}
Results   == {"open", "eof", "closed", "failed"}
Causes    == {"none", "overflow", "hole", "quiet", "remote", "dropped", "caller"}

Init ==
  /\ read = 0 /\ sent = 0 /\ out_tail = <<>>
  /\ srv = "open" /\ tabled = TRUE /\ input = <<>>
  /\ down = {} /\ up = {} /\ carrier = TRUE
  /\ inbox = <<>> /\ registered = TRUE
  /\ rx = Default /\ delivered = <<>>
  /\ cli = "open" /\ cause = "none"
-----------------------------------------------------------------------------
(***************************************************************************)
(* The server: run_stream and handle_frame.                                *)
(***************************************************************************)
Last(seq, n) == IF Len(seq) <= n THEN seq ELSE SubSeq(seq, Len(seq) - n + 1, Len(seq))

\* A bug the code does not have: the tail drops its newest bytes when it is full.
RememberOldest(tail, bytes) ==
  LET all == tail \o bytes
  IN  SubSeq(all, 1, IF Len(all) <= ResendBufferBytes THEN Len(all) ELSE ResendBufferBytes)

\* The replay tail keeps the newest bytes.
Remember(tail, bytes) == Last(tail \o bytes, ResendBufferBytes)

ServerRead(n) ==
  LET plaintext == [i \in 1 .. n |-> read + i - 1]
  IN  /\ srv = "open"
      /\ read + n <= StreamLen
      /\ read' = read + n
      /\ out_tail' = Remember(out_tail, plaintext)
      /\ down' = down \cup {DATA(sent, plaintext)}
      /\ sent' = sent + n
      /\ UNCHANGED <<srv, tabled, input, up, carrier, client>>

\* The index in a tail of length len that offset falls on, 0 when it is out of reach.
resend_range(len, total, offset) ==
  LET oldest == total - len
  IN  IF offset < oldest \/ offset >= total THEN 0 ELSE offset - oldest + 1

\* A bug the code does not have: every replayed frame carries the requested offset.
ReplayAtRequest(tail, start, offset) ==
  {DATA(offset,
        SubSeq(tail, start + k * MaxData,
               IF start + (k + 1) * MaxData - 1 <= Len(tail)
               THEN start + (k + 1) * MaxData - 1 ELSE Len(tail))) :
     k \in {k \in 0 .. (ResendMaxFrames - 1) : start + k * MaxData <= Len(tail)}}

\* The suffix from index start, cut into frames of MaxData bytes.
Replay(tail, start, offset) ==
  {DATA(offset + k * MaxData,
        SubSeq(tail, start + k * MaxData,
               IF start + (k + 1) * MaxData - 1 <= Len(tail)
               THEN start + (k + 1) * MaxData - 1 ELSE Len(tail))) :
     k \in {k \in 0 .. (ResendMaxFrames - 1) : start + k * MaxData <= Len(tail)}}

ServerResend ==
  /\ srv = "open" /\ input # <<>> /\ Head(input).kind = "RESEND"
  /\ input' = Tail(input)
  /\ LET offset == Head(input).off
         start  == resend_range(Len(out_tail), sent, offset)
     IN  down' = IF start = 0 THEN down
                 ELSE down \cup Replay(out_tail, start, offset)
  /\ UNCHANGED <<read, sent, out_tail, srv, tabled, up, carrier, client>>

\* The end of run_stream: leave the table and tell the client.
ServerEnd(result, frames) ==
  /\ srv = "open"
  /\ srv' = result /\ tabled' = FALSE /\ input' = <<>>
  /\ down' = down \cup frames
  /\ UNCHANGED <<read, sent, out_tail, up, carrier, client>>

\* The target closed its side.
ServerEof == ServerEnd("eof", {CLOSE})

\* A Close command, or the channel was dropped and is drained.
ServerClosed ==
  /\ \/ input # <<>> /\ Head(input).kind = "CLOSE"
     \/ input = <<>> /\ ~tabled
  /\ ServerEnd("closed", {CLOSE})

\* A socket error, a full dataplane channel, an uplink overflow or silence.
ServerFail == ServerEnd("failed", {OPEN_ERR, CLOSE})

\* try_send on the stream's channel, by the way of its table entry.  The slots
\* that uplink DATA takes are not modelled, so a channel may be full at any time.
ServerEnqueue(cmd, keep) ==
  \E fits \in BOOLEAN :
    /\ fits => Len(input) < InputCap
    /\ input' = IF fits THEN Append(input, cmd) ELSE input
    /\ tabled' = (keep /\ fits)

\* Frames of a stream that is not in the table change nothing.
handle_frame(f) ==
  /\ carrier /\ f \in up /\ tabled
  /\ up' = up \ {f}
  /\ ServerEnqueue(f, f.kind = "RESEND")
  /\ UNCHANGED <<read, sent, out_tail, srv, down, carrier, client>>

\* A DATA frame of the uplink meets a full channel.
enqueue_data ==
  /\ carrier /\ tabled
  /\ tabled' = FALSE
  /\ down' = down \cup {CLOSE}
  /\ UNCHANGED <<read, sent, out_tail, srv, input, up, carrier, client>>

\* The session of the carrier ended on the server.
close_session ==
  /\ tabled
  /\ ServerEnqueue(CLOSE, FALSE)
  /\ UNCHANGED <<read, sent, out_tail, srv, down, up, carrier, client>>
-----------------------------------------------------------------------------
(***************************************************************************)
(* The client: the demultiplexer and handle_client.                        *)
(***************************************************************************)
\* A full channel drops the stream from the map, so that it ends after the
\* queued prefix.
deliver_inbound(event) ==
  /\ inbox' = IF registered /\ Len(inbox) < InboxCap THEN Append(inbox, event) ELSE inbox
  /\ registered' = (registered /\ Len(inbox) < InboxCap)
  /\ UNCHANGED <<rx, delivered, cli, cause>>

\* Frames of a stream that is not in the map are dropped.
Demultiplex(f) ==
  /\ carrier /\ f \in down /\ registered
  /\ down' = down \ {f}
  /\ deliver_inbound(f)
  /\ UNCHANGED <<server, up, carrier>>

\* unregister: the worker vanished; the nudge is lost when the abort channel is full.
CarrierLost(nudged) ==
  /\ carrier /\ carrier' = FALSE
  /\ IF nudged THEN deliver_inbound(CLOSE) ELSE UNCHANGED client
  /\ UNCHANGED <<server, down, up>>

\* Frames the client hands to its carrier; without one they are refused.
Uplink(frames) == up' = IF carrier THEN up \cup frames ELSE up

\* The top of the loop: ask for the missing suffix, unless the last request
\* is too recent or cannot be queued.
AskResend(r) ==
  \/ is_waiting(r) /\ Uplink({Resend(missing_offset(r))})
  \/ UNCHANGED up

ClientEnd(why) ==
  /\ cli = "open"
  /\ cli' = "closed" /\ cause' = why
  /\ registered' = FALSE /\ inbox' = <<>>
  /\ Uplink({CLOSE})
  /\ UNCHANGED <<server, down, carrier, delivered>>

ClientData ==
  LET c == Head(inbox)
      p == push(rx, c)
  IN  /\ cli = "open" /\ inbox # <<>> /\ c.kind = "DATA"
      /\ rx' = p.rx
      /\ IF p.ok
         THEN /\ inbox' = Tail(inbox)
              /\ delivered' = delivered \o p.out
              /\ AskResend(p.rx)
              /\ UNCHANGED <<server, down, carrier, registered, cli, cause>>
         ELSE ClientEnd("overflow")

\* Any other wake-up of the loop, such as bytes from the caller.
ClientWake ==
  /\ cli = "open" /\ AskResend(rx)
  /\ UNCHANGED <<server, client, down, carrier>>

ClientClosed ==
  /\ UNCHANGED rx
  /\ \/ /\ inbox # <<>> /\ Head(inbox).kind \in {"CLOSE", "OPEN_ERR"}
        /\ ClientEnd("remote")
     \/ /\ inbox = <<>> /\ ~registered
        /\ ClientEnd("dropped")

\* A bug the code does not have: only an open hole arms a deadline.
QuietStallInHoleOnly == is_waiting(rx) /\ ClientEnd("quiet") /\ UNCHANGED rx

\* DATA_HOLE_PATIENCE, DATA_QUIET_TIMEOUT, and the caller leaving.
HoleStall  == is_waiting(rx) /\ ClientEnd("hole") /\ UNCHANGED rx
QuietStall == ClientEnd("quiet") /\ UNCHANGED rx
CallerGone == ClientEnd("caller") /\ UNCHANGED rx
-----------------------------------------------------------------------------
Next ==
  \/ \E n \in 1 .. MaxData : ServerRead(n)
  \/ ServerResend \/ ServerEof \/ ServerClosed \/ ServerFail
  \/ \E f \in up : handle_frame(f)
  \/ enqueue_data \/ close_session
  \/ \E f \in down : Demultiplex(f)
  \/ \E nudged \in BOOLEAN : CarrierLost(nudged)
  \/ ClientData \/ ClientWake \/ ClientClosed
  \/ HoleStall \/ QuietStall \/ CallerGone

Spec == Init /\ [][Next]_vars
-----------------------------------------------------------------------------
\* Types of the state of both ends and of the wire.
TypeOK ==
  /\ read \in Nat /\ sent \in Nat /\ out_tail \in Seq(Byte)
  /\ srv \in Results /\ tabled \in BOOLEAN
  /\ input \in Seq(UpFrame)
  /\ \A f \in down : f \in DownFrame
  /\ \A f \in up : f \in UpFrame
  /\ carrier \in BOOLEAN
  /\ inbox \in Seq(DownFrame) /\ registered \in BOOLEAN
  /\ rx.expected \in Nat /\ rx.buffered_bytes \in Nat
  /\ \A o \in DOMAIN rx.pending : o \in Nat /\ rx.pending[o] \in Bytes
  /\ delivered \in Seq(Byte)
  /\ cli \in {"open", "closed"} /\ cause \in Causes

\* What the caller has been sent is a prefix of what the target sent, byte for
\* byte, whatever the carrier lost, reordered or duplicated and however a
\* replay cut the bytes into chunks again (push, encode_at).
DeliveredIsPrefix ==
  /\ Len(delivered) <= read
  /\ \A i \in 1 .. Len(delivered) : delivered[i] = i - 1

\* buffered_bytes counts the parked bytes exactly and stays within the reorder
\* window while the stream is open, through every drain and every ignored copy:
\* the counter of push never drifts.
WindowAccounting ==
  cli = "open" => Accounted(rx) /\ rx.buffered_bytes <= MaxBuffered

\* While the client waits for a byte that was sent and that the tail is sized to
\* keep, a RESEND request for it finds it: the tail and the cursor of run_stream
\* never lose track of each other.
TailServesHole ==
  cli = "open" /\ is_waiting(rx) /\ rx.expected < sent
               /\ sent - rx.expected <= ResendBufferBytes =>
    LET start == resend_range(Len(out_tail), sent, rx.expected)
    IN  start # 0 /\ out_tail[start] = rx.expected

\* "a single reordered or lost chunk must not kill a healthy stream": the hole
\* patience ends a stream only while bytes that were sent are missing.
HoleResetMeansMissingBytes == cause = "hole" => Len(delivered) < sent
-----------------------------------------------------------------------------
(***************************************************************************)
(* The inductive invariant: every copy of a byte, on either end or on the  *)
(* wire, is at its own place in the stream.                                *)
(***************************************************************************)
ServerInv ==
  /\ sent = read
  /\ Len(out_tail) = IF sent <= ResendBufferBytes THEN sent ELSE ResendBufferBytes
  /\ \A i \in 1 .. Len(out_tail) : out_tail[i] = sent - Len(out_tail) + i - 1

FrameInPlace(f) == f.kind = "DATA" => InPlace(f.off, f.data, read)

WireInv ==
  /\ \A f \in down : FrameInPlace(f)
  /\ \A i \in 1 .. Len(inbox) : FrameInPlace(inbox[i])

ClientInv ==
  /\ Sound(rx, read)
  /\ Len(delivered) = rx.expected
  /\ \A i \in 1 .. Len(delivered) : delivered[i] = i - 1
  /\ WindowAccounting

IInv == TypeOK /\ ServerInv /\ WireInv /\ ClientInv
-----------------------------------------------------------------------------
(***************************************************************************)
(* Fairness: both loops are driven by tokio, which polls a ready task, and *)
(* a quiet deadline fires once its peer is gone and nothing arrives any    *)
(* more.  The carrier owes nothing.                                        *)
(***************************************************************************)
Fairness ==
  /\ WF_vars(ServerResend) /\ WF_vars(ServerClosed)
  /\ WF_vars(ClientData)   /\ WF_vars(ClientClosed)
  /\ WF_vars(srv # "open" /\ QuietStall)
  /\ WF_vars(cli = "closed" /\ ServerFail)

FairSpec == Spec /\ Fairness

\* An end that one side reaches is reached by the other, although the CLOSE frame
\* that announces it may be lost: no ghost outlives a quiet stream.
EndsTogether ==
  /\ srv # "open" ~> cli = "closed"
  /\ cli = "closed" ~> srv # "open"
=============================================================================
