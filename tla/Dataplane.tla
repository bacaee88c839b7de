----------------------------- MODULE Dataplane -----------------------------
(***************************************************************************)
(* The dataplane thread of the server: the loop of run_dataplane           *)
(* (dataplane.rs) over its command queue, the UDP socket and the TUN       *)
(* device, with the transmit slots and the buffer pool of tokio_io.rs and  *)
(* packet.rs, composed with the downlink queue of the engine.              *)
(*                                                                         *)
(* The thread goes through one branch of its biased select!, then flushes  *)
(* what is pending.  The senders of commands and the kernel run beside it. *)
(***************************************************************************)
EXTENDS DownlinkQueue

CONSTANTS
  UDP_TX_SLOTS, TUN_TX_SLOTS, FEC_TX_SLOT_RESERVE, RETAINED_MAX,
  BatchLimit,                   \* class -> datagrams of one sendmmsg
  DOWNLINK_DRAIN_PACKET_LIMIT,
  TUN_RX_DRAIN_BATCH, MAX_RX_PER_PASS, COMMAND_DRAIN_LIMIT, SHUTDOWN_FLUSH_SYSCALLS,
  MAX_CONSECUTIVE_UDP_PASSES,
  TickSpacing,                  \* passes of the loop between two ticks, at least
  command_capacity,
  Senders                       \* threads that send commands

FEC_EXTRA_COPIES == 1
PoolCapacity == UDP_TX_SLOTS + TUN_TX_SLOTS

ASSUME LoopAssumption ==
  /\ TickSpacing > MAX_CONSECUTIVE_UDP_PASSES
  /\ UDP_TX_SLOTS \in Nat \ {0} /\ TUN_TX_SLOTS \in Nat \ {0}
  /\ RETAINED_MAX \in 1 .. PoolCapacity /\ FEC_TX_SLOT_RESERVE \in Nat
  /\ \A c \in Class : BatchLimit[c] \in Nat \ {0}

VARIABLES
  pc, after,     \* where the thread is; where it goes after an urgent flush
  left,          \* what is left of the limit of the loop it is in
  passes, since, \* consecutive_udp_passes; passes since the last tick
  held,          \* the command taken from the queue and not yet applied
  chan, queued,  \* the command channel; queued_commands
  sender,        \* sender -> the command it has counted and not yet sent
  stopping,      \* cancel_token and shutdown_flag
  udpTx, udpFree, tunTx, tunFree,  \* pending slots by class, number of free ones
  pool,          \* PacketPool: allocated and retained buffers
  urgent, tunFatal,
  tunIn,         \* packets waiting in the TUN device
  down, up,      \* packets read from the TUN device, data received so far
  wireLast, tunLast,  \* the newest packet of each key (session) and class that went out
  load           \* what the environment may still do

loopVars == <<pc, after, left, passes, since>>
chanVars == <<held, chan, queued, sender, stopping>>
udpVars == <<udpTx, udpFree, wireLast>>
tunVars == <<tunTx, tunFree, tunFatal, tunLast>>
inVars == <<tunIn, down, up, load>>
vars == <<qvars, loopVars, chanVars, udpVars, tunVars, inVars, pool, urgent>>

None == [op |-> "none"]
Shutdown == [op |-> "shutdown"]
Commands ==
  [op : {"activate"}, s : Sessions, k : Keys] \cup
  [op : {"deactivate", "close", "epoch", "say", "inject"}, s : Sessions]

\* What the environment may do: packets of the TUN device and their kinds; data and READY of
\* clients, other UDP without end; commands and which, shutdowns, sessions that fall silent;
\* errors of the socket and of the device.
Loads ==
  [tun : Nat, kinds : SUBSET (Keys \X Class), data : Nat, ready : Nat, udp : BOOLEAN,
   commands : Nat, menu : SUBSET Commands, stops : Nat, expiries : Nat,
   udpErrors : Nat, tunErrors : Nat]

-----------------------------------------------------------------------------
(* The buffer pool and the transmit slots. *)
Available(p) == p.retained + (PoolCapacity - p.allocated)
Acquire(p, n) ==
  LET r == Min({n, p.retained})
  IN  [allocated |-> p.allocated + (n - r), retained |-> p.retained - r]
\* PacketPool::release keeps up to RETAINED_MAX buffers and frees the others.
Release(p, n) ==
  LET r == Min({n, RETAINED_MAX - p.retained})
  IN  [allocated |-> p.allocated - (n - r), retained |-> p.retained + r]

Pending(tx) == \E c \in Class : tx[c] # <<>>
\* The class that pop_pending_*_tx serves.
FirstClass(tx) == CHOOSE c \in Class : tx[c] # <<>> /\ \A i, j \in 1 .. 3 :
                    Classes[i] = c /\ j < i => tx[Classes[j]] = <<>>

\* send_udp_with_duplicate_priority: the packet, and as many copies as the reserve allows.
CanSend == udpFree > 0 /\ Available(pool) > 0
Copies(extra) ==
  Max({0, Min({extra, udpFree - 1 - FEC_TX_SLOT_RESERVE, Available(pool) - 1})})
SendUdp(packet, c, extra) ==
  LET n == 1 + Copies(extra)
  IN  /\ udpTx' = [udpTx EXCEPT ![c] = @ \o [i \in 1 .. n |-> packet]]
      /\ udpFree' = udpFree - n
      /\ pool' = Acquire(pool, n)
      /\ UNCHANGED wireLast

\* Mutant: only the latency queue is looked at before a direct write.
TunIsIdleForLatency == tunTx["latency"] = <<>>

\* Nothing may overtake what is pending.
TunIsIdle == ~Pending(tunTx)

TunQueue(packet, c) ==
  IF tunFree > 0 /\ Available(pool) > 0
  THEN /\ tunTx' = [tunTx EXCEPT ![c] = Append(@, packet)]
       /\ tunFree' = tunFree - 1
       /\ pool' = Acquire(pool, 1)
       /\ UNCHANGED <<tunFatal, tunLast>>
  ELSE UNCHANGED <<tunVars, pool>>

Newest(last, packet, c) == [last EXCEPT ![packet.of] = [@ EXCEPT ![c] = packet.n]]

\* write_tun_priority: a direct write when nothing is pending, a slot otherwise.
WriteTun(packet, c) ==
  \/ /\ TunIsIdle
     /\ tunLast' = Newest(tunLast, packet, c)
     /\ UNCHANGED <<tunTx, tunFree, tunFatal, pool>>
  \/ TunQueue(packet, c)
  \/ /\ TunIsIdle /\ load.tunErrors > 0
     /\ tunFatal' = TRUE
     /\ UNCHANGED <<tunTx, tunFree, tunLast, pool>>

-----------------------------------------------------------------------------
(* The senders of commands: DataplaneHandle::try_send and shutdown. *)

Count(s) ==
  /\ sender[s] = None /\ load.commands > 0
  /\ queued' = queued + 1
  /\ \E command \in load.menu : sender' = [sender EXCEPT ![s] = command]
  /\ load' = [load EXCEPT !.commands = @ - 1]
  /\ UNCHANGED <<qvars, loopVars, held, chan, stopping, udpVars, tunVars, tunIn, down, up, pool, urgent>>

decrement_queue_len(n) == Max({n - 1, 0})

\* A full queue, or one whose thread has ended, refuses the command.
TrySend(s) ==
  /\ sender[s] # None
  /\ IF pc # "over" /\ Len(chan) < command_capacity
     THEN chan' = Append(chan, sender[s]) /\ UNCHANGED queued
     ELSE queued' = decrement_queue_len(queued) /\ UNCHANGED chan
  /\ sender' = [sender EXCEPT ![s] = None]

Send(s) ==
  /\ TrySend(s)
  /\ UNCHANGED <<qvars, loopVars, held, stopping, udpVars, tunVars, inVars, pool, urgent>>

BeginShutdown(s) ==
  /\ sender[s] = None /\ load.stops > 0
  /\ stopping' = TRUE
  /\ queued' = queued + 1
  /\ sender' = [sender EXCEPT ![s] = Shutdown]
  /\ load' = [load EXCEPT !.stops = @ - 1]
  /\ UNCHANGED <<qvars, loopVars, held, chan, udpVars, tunVars, tunIn, down, up, pool, urgent>>

TunArrives ==
  /\ load.tun > 0 /\ pc # "over"
  /\ tunIn' = tunIn + 1
  /\ load' = [load EXCEPT !.tun = @ - 1]
  /\ UNCHANGED <<qvars, loopVars, chanVars, udpVars, tunVars, down, up, pool, urgent>>

-----------------------------------------------------------------------------
(* The select: earlier branches win. *)
ioVars == <<udpVars, tunVars, pool, urgent>>
CommandReady == chan # <<>>
Go(where, limit) == pc' = where /\ left' = limit /\ UNCHANGED after
Pass(n) == passes' = n /\ since' = Min({since + 1, TickSpacing})

\* The end of the loop: the head of while, the cancelled branch.
Leave ==
  /\ pc = "select" /\ stopping
  /\ Go("end", SHUTDOWN_FLUSH_SYSCALLS)
  /\ UNCHANGED <<qvars, passes, since, chanVars, ioVars, inVars>>

\* The tick comes when the loop waits, or after enough passes; on_tick removes sessions that
\* fell silent.
Tick ==
  /\ pc = "select" /\ ~stopping /\ (since = TickSpacing \/ tunIn = 0)
  /\ passes' = 0 /\ since' = 0
  /\ \/ UNCHANGED <<qvars, load>>
     \/ \E s \in Sessions : /\ load.expiries > 0 /\ Live(s) /\ RemoveSession(s)
                            /\ load' = [load EXCEPT !.expiries = @ - 1]
  /\ Go("flush", 0)
  /\ UNCHANGED <<chanVars, ioVars, tunIn, down, up>>

Receive(where) ==
  /\ pc = where /\ CommandReady /\ (where = "commands" => left > 0)
  /\ held' = Head(chan) /\ chan' = Tail(chan)
  /\ UNCHANGED <<qvars, queued, sender, stopping, ioVars, inVars>>

RecvFirst ==
  /\ ~stopping /\ Receive("select")
  /\ Pass(0) /\ Go("got", COMMAND_DRAIN_LIMIT)
RecvNext == Receive("commands") /\ Go("got", left - 1) /\ UNCHANGED <<passes, since>>
CommandsDone ==
  /\ pc = "commands" /\ (~CommandReady \/ left = 0)
  /\ Go(IF tunFatal THEN "over" ELSE "flush", 0)
  /\ UNCHANGED <<qvars, passes, since, chanVars, ioVars, inVars>>

\* A sender of plain text: it is dropped when there is no slot.
Say ==
  IF CanSend THEN SendUdp([of |-> 0, n |-> 0], "bulk", FEC_EXTRA_COPIES) /\ urgent' = TRUE
  ELSE UNCHANGED <<udpVars, pool, urgent>>

OnCommand(m) ==
  \/ /\ m.op = "activate" /\ ActivateTunnel(m.s, m.k) /\ UNCHANGED ioVars
  \/ /\ m.op = "deactivate" /\ RemoveTunnel(m.s) /\ UNCHANGED ioVars
  \/ /\ m.op = "close" /\ RemoveSession(m.s) /\ UNCHANGED ioVars
  \/ /\ m.op = "epoch" /\ UpdateEpoch(m.s, 2) /\ UNCHANGED ioVars
  \/ /\ m.op = "say"
     /\ IF Live(m.s) THEN Say ELSE UNCHANGED <<udpVars, pool, urgent>>
     /\ UNCHANGED <<qvars, tunVars>>
  \/ /\ m.op = "inject"
     /\ IF Live(m.s) THEN WriteTun([of |-> 0, n |-> 0], "bulk") ELSE UNCHANGED <<tunVars, pool>>
     /\ UNCHANGED <<qvars, udpVars, urgent>>

\* The scope of a PacketSink ends with one system call when something urgent was sent.
ScopeEnds(next) ==
  IF urgent' THEN pc' = "urgent" /\ after' = next ELSE pc' = next /\ UNCHANGED after

Apply ==
  /\ pc = "got" /\ held # Shutdown
  /\ queued' = decrement_queue_len(queued)
  /\ OnCommand(held)
  /\ held' = None
  /\ ScopeEnds("commands")
  /\ UNCHANGED <<left, passes, since, chan, sender, stopping, inVars>>

RecvShutdown ==
  /\ pc = "got" /\ held = Shutdown
  /\ Go("end", SHUTDOWN_FLUSH_SYSCALLS)
  /\ UNCHANGED <<qvars, passes, since, chanVars, ioVars, inVars>>

\* Mutant: UDP is read whenever it can be.
NeverThrottled == FALSE

Throttled == passes >= MAX_CONSECUTIVE_UDP_PASSES

UdpRead ==
  /\ pc = "select" /\ ~stopping /\ ~CommandReady /\ load.udp
  /\ ~Throttled
  /\ Pass(passes + 1) /\ Go("udp", MAX_RX_PER_PASS)
  /\ UNCHANGED <<qvars, chanVars, ioVars, inVars>>

\* One datagram: tunnel data, a READY that is answered, or nothing for this thread to send on.
Datagram ==
  /\ pc = "udp" /\ left > 0 /\ left' = left - 1
  /\ \/ \E s \in Sessions, c \in Class :
          /\ load.data > 0 /\ Live(s) /\ hot[s].key # 0
          /\ WriteTun([of |-> s, n |-> up + 1], c)
          /\ up' = up + 1 /\ load' = [load EXCEPT !.data = @ - 1]
          /\ UNCHANGED <<udpVars, urgent>>
     \/ /\ load.ready > 0 /\ load' = [load EXCEPT !.ready = @ - 1]
        /\ Say /\ UNCHANGED <<tunVars, up>>
     \/ UNCHANGED <<ioVars, up, load>>
  /\ ScopeEnds("udp")
  /\ UNCHANGED <<qvars, passes, since, chanVars, tunIn, down>>

\* The socket is drained, or the pass has its share.
UdpDone ==
  /\ pc = "udp"
  /\ Go(IF tunFatal THEN "over" ELSE "flush", 0)
  /\ UNCHANGED <<qvars, passes, since, chanVars, ioVars, inVars>>

TunRead ==
  /\ pc = "select" /\ ~stopping /\ ~CommandReady /\ tunIn > 0
  /\ Pass(0) /\ Go("tun", TUN_RX_DRAIN_BATCH)
  /\ UNCHANGED <<qvars, chanVars, ioVars, inVars>>

TunPacket(k, c) ==
  /\ pc = "tun" /\ left > 0 /\ tunIn > 0 /\ <<k, c>> \in load.kinds
  /\ tunIn' = tunIn - 1 /\ down' = down + 1
  /\ HandleTunPacket(k, c, [of |-> k, n |-> down + 1])
  /\ Go("tun", left - 1)
  /\ UNCHANGED <<passes, since, chanVars, ioVars, up, load>>

TunDone ==
  /\ pc = "tun" /\ (left = 0 \/ tunIn = 0)
  /\ Go("drain", DOWNLINK_DRAIN_PACKET_LIMIT)
  /\ UNCHANGED <<qvars, passes, since, chanVars, ioVars, inVars>>

TunReadFails ==
  /\ pc = "tun" /\ load.tunErrors > 0
  /\ Go("over", 0)
  /\ UNCHANGED <<qvars, passes, since, chanVars, ioVars, inVars>>

-----------------------------------------------------------------------------
(* drain_downlink: latency before priority before bulk, up to a limit and  *)
(* while there are slots.                                                  *)
Drainable == {i \in 1 .. 3 : Found(queue, Classes[i]) # {}}
DrainMay == left > 0 /\ udpFree > 0 /\ Drainable # {}

Drain(c, i, extra) ==
  LET k == Turn(queue, c, i)
      packet == Head(queue.lanes[k].slots[c].pending)
      rest == Dequeue(queue, c, i)
      striped == IF routes[k] = {} THEN stripe
                 ELSE [stripe EXCEPT ![k][c] = Stripe(k, c).cursor]
  IN  /\ stripe' = striped
      /\ IF Carriers(k, c) = {}  \* stale: no session holds the address any more
         THEN /\ queue' = Recycle(rest, k, c) /\ Go("drain", left - 1)
              /\ UNCHANGED <<udpVars, pool, urgent>>
         ELSE IF CanSend
         THEN /\ SendUdp(packet, c, extra)
              /\ queue' = Recycle(rest, k, c) /\ Go("drain", left - 1)
              /\ urgent' = (urgent \/ c = "latency")
         ELSE /\ queue' = RequeueFront(rest, k, c, packet) /\ Go("drain", 0)
              /\ UNCHANGED <<udpVars, pool, urgent>>
      /\ UNCHANGED <<hot, routes, passes, since, chanVars, tunVars, inVars>>

\* One packet of the first class that has any.
DrainOne ==
  /\ pc = "drain" /\ DrainMay
  /\ \E c \in Class, extra \in {0, FEC_EXTRA_COPIES} :
       /\ c = Classes[Min(Drainable)]
       /\ \E i \in FirstTurn(queue, c) : Drain(c, i, extra)

DrainDone ==
  /\ pc = "drain" /\ ~DrainMay
  /\ UNCHANGED <<qvars, left, passes, since, chanVars, ioVars, inVars>>
  /\ ScopeEnds("flush")

-----------------------------------------------------------------------------
(* flush_udp_tx and flush_tun_tx. *)

\* Mutant: a datagram that the kernel refuses for good keeps its buffer.
ForgetBuffer(n) ==
  LET c == FirstClass(udpTx)
  IN  /\ udpTx' = [udpTx EXCEPT ![c] = SubSeq(@, n + 1, Len(@))]
      /\ udpFree' = udpFree + n
      /\ UNCHANGED pool

\* The first n datagrams leave their slots, and their buffers go back.
PopUdp(n) ==
  LET c == FirstClass(udpTx)
  IN  /\ udpTx' = [udpTx EXCEPT ![c] = SubSeq(@, n + 1, Len(@))]
      /\ udpFree' = udpFree + n
      /\ pool' = Release(pool, n)

\* One sendmmsg: some datagrams go, or the first is refused for good.
SentUdp(n) ==
  LET c == FirstClass(udpTx)
      gone == SubSeq(udpTx[c], 1, n)
      of(k) == {i \in 1 .. n : gone[i].of = k}
  IN  /\ n \in 1 .. Min({Len(udpTx[c]), BatchLimit[c]})
      /\ PopUdp(n)
      /\ wireLast' = [k \in 0 .. NKeys |->
                        IF of(k) = {} THEN wireLast[k]
                        ELSE [wireLast[k] EXCEPT ![c] = gone[Max(of(k))].n]]
      /\ UNCHANGED load

RefusedUdp ==
  /\ load.udpErrors > 0 /\ load' = [load EXCEPT !.udpErrors = @ - 1]
  /\ PopUdp(1) /\ UNCHANGED wireLast

SendMmsg ==
  /\ Pending(udpTx)
  /\ (\E n \in 1 .. UDP_TX_SLOTS : SentUdp(n)) \/ RefusedUdp

FlushUdp ==
  /\ pc = "flush" /\ SendMmsg
  /\ UNCHANGED <<qvars, loopVars, chanVars, tunVars, tunIn, down, up, urgent>>

\* Nothing is left, or the socket would block.
FlushUdpDone ==
  /\ pc = "flush"
  /\ Go("flush_tun", 0)
  /\ UNCHANGED <<qvars, passes, since, chanVars, ioVars, inVars>>

\* URGENCY_FLUSH_SYSCALLS: one system call, which may block.
UrgentFlush ==
  /\ pc = "urgent"
  /\ pc' = after /\ after' = "select" /\ urgent' = FALSE
  /\ SendMmsg \/ UNCHANGED <<udpVars, pool, load>>
  /\ UNCHANGED <<qvars, left, passes, since, chanVars, tunVars, tunIn, down, up>>

FlushAtEnd ==
  /\ pc = "end"
  /\ \/ left > 0 /\ SendMmsg /\ Go("end", left - 1)
     \/ Go("end_tun", 0) /\ UNCHANGED <<udpVars, pool, load>>
  /\ UNCHANGED <<qvars, passes, since, chanVars, tunVars, tunIn, down, up, urgent>>

PopTun ==
  LET c == FirstClass(tunTx)
  IN  /\ tunTx' = [tunTx EXCEPT ![c] = Tail(@)]
      /\ tunFree' = tunFree + 1
      /\ pool' = Release(pool, 1)

FlushTun ==
  /\ pc \in {"flush_tun", "end_tun"} /\ Pending(tunTx) /\ PopTun
  /\ tunLast' = LET c == FirstClass(tunTx) IN Newest(tunLast, Head(tunTx[c]), c)
  /\ UNCHANGED <<qvars, loopVars, chanVars, udpVars, tunFatal, inVars, urgent>>

FlushTunFails ==
  /\ pc \in {"flush_tun", "end_tun"} /\ Pending(tunTx) /\ load.tunErrors > 0
  /\ PopTun /\ tunFatal' = TRUE
  /\ Go("over", 0)
  /\ UNCHANGED <<qvars, passes, since, chanVars, udpVars, tunLast, inVars, urgent>>

FlushTunDone ==
  /\ pc \in {"flush_tun", "end_tun"}
  /\ Go(IF pc = "end_tun" THEN "over" ELSE "select", 0)
  /\ UNCHANGED <<qvars, passes, since, chanVars, ioVars, inVars>>

\* The last branches of the select: something is pending and can be written.
Writable ==
  /\ pc = "select" /\ ~stopping /\ ~CommandReady /\ tunIn = 0
  /\ Pending(udpTx) \/ Pending(tunTx)
  /\ Pass(passes) /\ Go("flush", 0)
  /\ UNCHANGED <<qvars, chanVars, ioVars, inVars>>

-----------------------------------------------------------------------------
RestInit ==
  /\ pc = "select" /\ after = "select" /\ left = 0 /\ passes = 0 /\ since = 0
  /\ held = None /\ chan = <<>> /\ queued = 0 /\ stopping = FALSE
  /\ sender = [s \in Senders |-> None]
  /\ udpTx = [c \in Class |-> <<>>] /\ udpFree = UDP_TX_SLOTS
  /\ tunTx = [c \in Class |-> <<>>] /\ tunFree = TUN_TX_SLOTS
  /\ pool = [allocated |-> 0, retained |-> 0]
  /\ urgent = FALSE /\ tunFatal = FALSE
  /\ tunIn = 0 /\ down = 0 /\ up = 0
  /\ wireLast = [k \in 0 .. NKeys |-> [c \in Class |-> 0]]
  /\ tunLast = [s \in Sessions \union {0} |-> [c \in Class |-> 0]]

Init == QInit /\ RestInit /\ load \in Loads

Thread ==
  \/ Leave \/ Tick \/ RecvFirst \/ RecvNext \/ Apply \/ RecvShutdown \/ CommandsDone
  \/ UdpRead \/ Datagram \/ UdpDone
  \/ TunRead \/ TunDone \/ TunReadFails \/ \E k \in Keys, c \in Class : TunPacket(k, c)
  \/ DrainOne \/ DrainDone
  \/ Writable \/ FlushUdp \/ FlushUdpDone \/ UrgentFlush \/ FlushAtEnd
  \/ FlushTun \/ FlushTunFails \/ FlushTunDone

Next ==
  \/ Thread
  \/ TunArrives
  \/ \E s \in Senders : Count(s) \/ Send(s) \/ BeginShutdown(s)

Spec == Init /\ [][Next]_vars

\* The thread runs; the kernel and the senders promise nothing.
Fairness == WF_vars(Thread)

-----------------------------------------------------------------------------
(* Slots and buffers are neither lost nor shared over blocked, partial and *)
(* refused writes, copies and drops: a free slot always finds a buffer.    *)
Slots(tx) == Len(tx["latency"]) + Len(tx["priority"]) + Len(tx["bulk"])
BuffersAreKept ==
  /\ udpFree + Slots(udpTx) = UDP_TX_SLOTS /\ tunFree + Slots(tunTx) = TUN_TX_SLOTS
  /\ pool.allocated = pool.retained + Slots(udpTx) + Slots(tunTx)
  /\ udpFree > 0 \/ tunFree > 0 => Available(pool) > 0

(* Packets of one client and class never overtake each other, neither on   *)
(* the way from the TUN device through lane and slots to the socket nor on *)
(* the way from the socket to the TUN device (copies follow the original). *)
InLine(seq, last, c) ==
  \A j \in DOMAIN seq :
    /\ last[seq[j].of][c] <= seq[j].n
    /\ \A i \in 1 .. j - 1 : seq[i].of = seq[j].of => seq[i].n <= seq[j].n
InOrder ==
  \A c \in Class :
    /\ \A k \in Keys : InLine(udpTx[c] \o queue.lanes[k].slots[c].pending, wireLast, c)
    /\ InLine(tunTx[c], tunLast, c)

(* However busy the socket is, packets waiting in the TUN device are read, *)
(* as long as a tick is rarer than the passes after which UDP is held back.*)
TunIsServed == []<>(tunIn = 0 \/ pc = "over")

=============================================================================
