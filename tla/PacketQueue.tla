----------------------------- MODULE PacketQueue -----------------------------
(***************************************************************************)
(* The bounded packet channel of rust-client/dispatcher.rs: an ArrayQueue, *)
(* a state word (epoch and QUEUE_ACTIVE) and one Notify on which BOTH ends *)
(* wait: the receiver for a packet, send_awaiting for room.                *)
(*                                                                         *)
(* Senders run on other threads than the receiver, so the loads of a send, *)
(* its push and its notify_one are separate steps.  recv, resume, suspend  *)
(* and the drop of the receiver belong to the task that owns the receiver  *)
(* and exclude each other.                                                 *)
(*                                                                         *)
(* A packet is abstracted to the session of the receiver (the opened TUN)  *)
(* in which its send started.                                              *)
(***************************************************************************)
EXTENDS Naturals, Sequences

CONSTANTS
  Trying,      \* senders that call try_send
  Forcing,     \* senders that call force_send
  Awaiting,    \* senders that call send_awaiting
  Receiver,    \* the task that owns the PacketReceiver
  Capacity,    \* capacity of the ArrayQueue
  MaxEpoch,    \* resumes the model explores
  StartActive  \* packet_channel's argument

Senders == Trying \cup Forcing \cup Awaiting
Procs   == Senders \cup {Receiver}

ASSUME PacketQueueAssumption ==
  /\ Receiver \notin Senders /\ Capacity \in Nat \ {0} /\ MaxEpoch \in Nat
  /\ Trying \cap Awaiting = {} /\ Forcing \cap (Trying \cup Awaiting) = {}
  /\ StartActive \in BOOLEAN

VARIABLES
  queue,          \* packets as [epoch, born]
  epoch, active,  \* the two parts of the state word
  receiver_open,
  senders,        \* the live PacketSender handles
  cancelled,      \* the CancellationToken both ends watch
  permit,         \* Notify: a stored notify_one
  waiters,        \* Notify: the registered futures, oldest first
  fut,            \* Notify: the Notified future of each process
  pc,             \* where each process is
  second,         \* the process is in its second try of the loop
  stamp,          \* the packet a sender is about to push
  session,        \* how often the receiver was resumed
  returned        \* the packet recv handed out, or NoPacket

notify == <<permit, waiters, fut>>
word   == <<epoch, active>>
channelVars == <<queue, word, receiver_open, senders, cancelled, notify, pc, second,
            stamp, session, returned>>

Packet   == [epoch : 0 .. MaxEpoch, born : 0 .. MaxEpoch]
NoPacket == [epoch |-> MaxEpoch + 1, born |-> MaxEpoch + 1]

packet_channel ==
  /\ queue = <<>> /\ epoch = 0 /\ active = StartActive /\ receiver_open = TRUE
  /\ senders = Senders /\ cancelled = FALSE
  /\ permit = FALSE /\ waiters = <<>> /\ fut = [p \in Procs |-> "none"]
  /\ pc = [p \in Procs |-> "idle"] /\ second = [p \in Procs |-> FALSE]
  /\ stamp = [s \in Senders |-> NoPacket]
  /\ session = 0 /\ returned = NoPacket

MoveTo(p, label) == pc' = [pc EXCEPT ![p] = label]
-----------------------------------------------------------------------------
(***************************************************************************)
(* tokio::sync::Notify.  A future counts for notify_waiters from its       *)
(* creation ("armed") and for notify_one once it has been polled           *)
(* ("waiting").  Dropping a future that notify_one chose passes the        *)
(* notification on.                                                        *)
(***************************************************************************)
NotifyOneWith(f) ==
  IF waiters # <<>>
  THEN /\ fut' = [f EXCEPT ![Head(waiters)] = "one"]
       /\ waiters' = Tail(waiters) /\ UNCHANGED permit
  ELSE fut' = f /\ permit' = TRUE /\ UNCHANGED waiters

NotifyWaiters ==
  /\ fut' = [p \in Procs |-> IF fut[p] \in {"armed", "waiting"} THEN "all" ELSE fut[p]]
  /\ waiters' = <<>> /\ UNCHANGED permit

DropFuture(p) ==
  LET f == [fut EXCEPT ![p] = "none"] IN
  IF fut[p] = "one"
  THEN NotifyOneWith(f)
  ELSE /\ fut' = f /\ waiters' = SelectSeq(waiters, LAMBDA q : q # p)
       /\ UNCHANGED permit

\* The first poll of the future: it completes, or it is registered.
Park(p) ==
  /\ pc[p] = "park"
  /\ \/ /\ fut[p] = "all"
        /\ fut' = [fut EXCEPT ![p] = "none"] /\ MoveTo(p, "check")
        /\ UNCHANGED <<permit, waiters>>
     \/ /\ fut[p] = "armed" /\ permit
        /\ fut' = [fut EXCEPT ![p] = "none"] /\ MoveTo(p, "check")
        /\ permit' = FALSE /\ UNCHANGED waiters
     \/ /\ fut[p] = "armed" /\ ~permit
        /\ fut' = [fut EXCEPT ![p] = "waiting"] /\ MoveTo(p, "wait")
        /\ waiters' = Append(waiters, p) /\ UNCHANGED permit
  /\ UNCHANGED <<queue, word, receiver_open, senders, cancelled, second, stamp,
                 session, returned>>

Woken(p) ==
  /\ pc[p] = "wait" /\ fut[p] \in {"one", "all"}
  /\ fut' = [fut EXCEPT ![p] = "none"] /\ MoveTo(p, "check")
  /\ UNCHANGED <<queue, word, receiver_open, senders, cancelled, permit, waiters,
                 second, stamp, session, returned>>
-----------------------------------------------------------------------------
(***************************************************************************)
(* PacketSender.                                                           *)
(***************************************************************************)
\* A caller hands a packet to try_send, force_send or send_awaiting.
Send(s) ==
  /\ s \in senders /\ pc[s] = "idle"
  /\ MoveTo(s, IF s \in Awaiting THEN "check" ELSE "load")
  /\ second' = [second EXCEPT ![s] = FALSE]
  /\ UNCHANGED <<queue, word, receiver_open, senders, cancelled, notify, stamp,
                 session, returned>>

\* The top of send_awaiting's loop.
SenderCheck(s) ==
  /\ pc[s] = "check"
  /\ MoveTo(s, IF cancelled \/ ~active THEN "idle" ELSE "load")
  /\ second' = [second EXCEPT ![s] = FALSE]
  /\ UNCHANGED <<queue, word, receiver_open, senders, cancelled, notify, stamp,
                 session, returned>>

\* Where a failed try leads: try_send and force_send give up, send_awaiting
\* arms a Notified and tries once more before it waits.
Refused(s) ==
  CASE s \notin Awaiting -> "idle"
    [] s \in Awaiting /\ ~second[s] -> "arm"
    [] s \in Awaiting /\ second[s]  -> "park"

\* send_inner: the loads of receiver_open and state.
LoadState(s) ==
  /\ pc[s] = "load"
  /\ \/ receiver_open /\ active /\ MoveTo(s, "push")
     \/ ~(receiver_open /\ active) /\ MoveTo(s, Refused(s))
  /\ stamp' = [stamp EXCEPT ![s] = [epoch |-> epoch, born |-> session]]
  /\ UNCHANGED <<queue, word, receiver_open, senders, cancelled, notify, second,
                 session, returned>>

\* send_inner: push, or force_push, which displaces the oldest packet.
Push(s) ==
  /\ pc[s] = "push"
  /\ LET full == Len(queue) = Capacity IN
     \/ /\ ~full
        /\ queue' = Append(queue, stamp[s]) /\ MoveTo(s, "notify")
     \/ /\ full /\ s \in Forcing
        /\ queue' = Append(Tail(queue), stamp[s]) /\ MoveTo(s, "notify")
     \/ /\ full /\ s \notin Forcing
        /\ MoveTo(s, Refused(s)) /\ UNCHANGED queue
  /\ UNCHANGED <<word, receiver_open, senders, cancelled, notify, second, stamp,
                 session, returned>>

\* A bug the code does not have: only the first packet of a run is announced.
NotifyFirstOnly(s) ==
  /\ pc[s] = "notify"
  /\ MoveTo(s, "idle")
  /\ IF Len(queue) <= 1
     THEN NotifyOneWith([fut EXCEPT ![s] = "none"])
     ELSE fut' = [fut EXCEPT ![s] = "none"] /\ UNCHANGED <<permit, waiters>>
  /\ UNCHANGED <<queue, word, receiver_open, senders, cancelled, second, stamp,
                 session, returned>>

\* send_inner: notify_one after the push; send_awaiting returns Ok and drops
\* the future it armed but never polled.
Notify(s) ==
  /\ pc[s] = "notify"
  /\ MoveTo(s, "idle")
  /\ NotifyOneWith([fut EXCEPT ![s] = "none"])
  /\ UNCHANGED <<queue, word, receiver_open, senders, cancelled, second, stamp,
                 session, returned>>

\* send_awaiting between its two tries.
Arm(s) ==
  /\ pc[s] = "arm"
  /\ \/ /\ receiver_open
        /\ fut' = [fut EXCEPT ![s] = "armed"]
        /\ second' = [second EXCEPT ![s] = TRUE] /\ MoveTo(s, "load")
     \/ /\ ~receiver_open
        /\ MoveTo(s, "idle") /\ UNCHANGED <<fut, second>>
  /\ UNCHANGED <<queue, word, receiver_open, senders, cancelled, permit, waiters,
                 stamp, session, returned>>

\* The 5 ms sleep of send_awaiting's select!, which is biased towards the
\* notification.
Sleep5ms(s) ==
  /\ pc[s] = "wait" /\ fut[s] = "waiting"
  /\ DropFuture(s) /\ MoveTo(s, "check")
  /\ UNCHANGED <<queue, word, receiver_open, senders, cancelled, second, stamp,
                 session, returned>>

\* cancel wins the biased select!.
SenderCancelled(s) ==
  /\ pc[s] = "wait" /\ cancelled
  /\ DropFuture(s) /\ MoveTo(s, "idle")
  /\ UNCHANGED <<queue, word, receiver_open, senders, cancelled, second, stamp,
                 session, returned>>

DropSender(s) ==
  /\ s \in senders /\ pc[s] = "idle"
  /\ senders' = senders \ {s}
  /\ IF senders' = {} THEN NotifyWaiters ELSE UNCHANGED notify
  /\ UNCHANGED <<queue, word, receiver_open, cancelled, pc, second, stamp, session,
                 returned>>
-----------------------------------------------------------------------------
(***************************************************************************)
(* PacketReceiver.                                                         *)
(***************************************************************************)
Recv ==
  /\ pc[Receiver] = "idle"
  /\ returned' = NoPacket /\ MoveTo(Receiver, "check")
  /\ UNCHANGED <<queue, word, receiver_open, senders, cancelled, notify, second,
                 stamp, session>>

\* The top of recv's loop.
RecvCheck ==
  /\ pc[Receiver] = "check"
  /\ MoveTo(Receiver, IF cancelled THEN "idle" ELSE "pop")
  /\ second' = [second EXCEPT ![Receiver] = FALSE]
  /\ UNCHANGED <<queue, word, receiver_open, senders, cancelled, notify, stamp,
                 session, returned>>

\* A packet returned drops the Notified of the second try.
Deliver(packet) ==
  /\ returned' = packet /\ MoveTo(Receiver, "idle")
  /\ fut' = [fut EXCEPT ![Receiver] = "none"]

\* try_recv_inner: pop, and hand out only what was pushed in this epoch.
\* Only the receiver's own task writes the state word, so the load after the
\* pop sees what it saw before.
try_recv ==
  /\ pc[Receiver] = "pop"
  /\ \/ /\ queue = <<>>
        /\ MoveTo(Receiver, "senders") /\ UNCHANGED <<queue, fut, returned>>
     \/ /\ queue # <<>>
        /\ queue' = Tail(queue)
        /\ IF active /\ Head(queue).epoch = epoch
           THEN Deliver(Head(queue))
           ELSE UNCHANGED <<pc, fut, returned>>
  /\ UNCHANGED <<word, receiver_open, senders, cancelled, permit, waiters, second,
                 stamp, session>>

\* recv after a try that found nothing: the load of the sender count, then
\* the Notified, the second try and the wait.
RecvSenders ==
  /\ pc[Receiver] = "senders"
  /\ \/ /\ senders = {}
        /\ MoveTo(Receiver, "idle")
        /\ fut' = [fut EXCEPT ![Receiver] = "none"] /\ UNCHANGED second
     \/ /\ senders # {} /\ ~second[Receiver]
        /\ MoveTo(Receiver, "pop")
        /\ fut' = [fut EXCEPT ![Receiver] = "armed"]
        /\ second' = [second EXCEPT ![Receiver] = TRUE]
     \/ /\ senders # {} /\ second[Receiver]
        /\ MoveTo(Receiver, "park") /\ UNCHANGED <<fut, second>>
  /\ UNCHANGED <<queue, word, receiver_open, senders, cancelled, permit, waiters,
                 stamp, session, returned>>

\* The select! around recv takes another branch and drops the future.
RecvAbandoned ==
  /\ pc[Receiver] = "wait"
  /\ DropFuture(Receiver) /\ MoveTo(Receiver, "idle")
  /\ UNCHANGED <<queue, word, receiver_open, senders, cancelled, second, stamp,
                 session, returned>>

\* A bug the code does not have: a resume that keeps the epoch.
ResumeSameEpoch ==
  /\ pc[Receiver] = "idle" /\ session < MaxEpoch
  /\ epoch' = epoch /\ active' = FALSE
  /\ session' = session + 1 /\ returned' = NoPacket
  /\ MoveTo(Receiver, "resume")
  /\ UNCHANGED <<queue, receiver_open, senders, cancelled, notify, second, stamp>>

\* resume: a new epoch, inactive until the queue is purged.
resume ==
  /\ pc[Receiver] = "idle" /\ session < MaxEpoch
  /\ epoch' = epoch + 1 /\ active' = FALSE
  /\ session' = session + 1 /\ returned' = NoPacket
  /\ MoveTo(Receiver, "resume")
  /\ UNCHANGED <<queue, receiver_open, senders, cancelled, notify, second, stamp>>

suspend ==
  /\ pc[Receiver] = "idle"
  /\ active' = FALSE /\ returned' = NoPacket
  /\ MoveTo(Receiver, "suspend")
  /\ UNCHANGED <<queue, epoch, receiver_open, senders, cancelled, notify, second,
                 stamp, session>>

\* Drop for PacketReceiver.
DropReceiver ==
  /\ pc[Receiver] = "idle"
  /\ receiver_open' = FALSE /\ returned' = NoPacket
  /\ MoveTo(Receiver, "drop")
  /\ UNCHANGED <<queue, word, senders, cancelled, notify, second, stamp, session>>

\* purge pops until it finds the queue empty; then resume activates the
\* epoch, and all three wake everybody.
purge ==
  /\ pc[Receiver] \in {"resume", "suspend", "drop"}
  /\ \/ /\ queue # <<>>
        /\ queue' = Tail(queue) /\ UNCHANGED <<active, notify, pc>>
     \/ /\ queue = <<>>
        /\ active' = (active \/ pc[Receiver] = "resume")
        /\ NotifyWaiters
        /\ MoveTo(Receiver, IF pc[Receiver] = "drop" THEN "gone" ELSE "idle")
        /\ UNCHANGED queue
  /\ UNCHANGED <<epoch, receiver_open, senders, cancelled, second, stamp, session,
                 returned>>

Cancel ==
  /\ ~cancelled /\ cancelled' = TRUE
  /\ UNCHANGED <<queue, word, receiver_open, senders, notify, pc, second, stamp,
                 session, returned>>
-----------------------------------------------------------------------------
SenderStep(s) ==
  \/ SenderCheck(s) \/ LoadState(s) \/ Push(s) \/ Notify(s) \/ Arm(s)
  \/ Park(s) \/ Woken(s) \/ Sleep5ms(s) \/ SenderCancelled(s)

\* recv runs to its end and is called again.
ReceiverStep ==
  \/ Recv \/ RecvCheck \/ try_recv \/ RecvSenders \/ Park(Receiver)
  \/ Woken(Receiver) \/ purge

Owner == resume \/ suspend \/ DropReceiver \/ RecvAbandoned

ChannelNext ==
  \/ \E s \in Senders : Send(s) \/ SenderStep(s) \/ DropSender(s)
  \/ ReceiverStep \/ Owner \/ Cancel

\* The runtime keeps polling every task that can make progress.
Fairness == WF_channelVars(ReceiverStep) /\ \A s \in Senders : WF_channelVars(SenderStep(s))

ChannelSpec == packet_channel /\ [][ChannelNext]_channelVars /\ Fairness
-----------------------------------------------------------------------------
TypeOK ==
  /\ queue \in Seq(Packet) /\ Len(queue) <= Capacity
  /\ epoch \in 0 .. MaxEpoch /\ active \in BOOLEAN /\ receiver_open \in BOOLEAN
  /\ senders \subseteq Senders /\ cancelled \in BOOLEAN /\ permit \in BOOLEAN
  /\ waiters \in Seq(Procs)
  /\ fut \in [Procs -> {"none", "armed", "waiting", "one", "all"}]
  /\ pc \in [Procs -> {"idle", "check", "load", "push", "notify", "arm", "park",
                       "wait", "pop", "senders", "resume", "suspend", "drop", "gone"}]
  /\ second \in [Procs -> BOOLEAN]
  /\ stamp \in [Senders -> Packet \cup {NoPacket}]
  /\ session \in 0 .. MaxEpoch /\ returned \in Packet \cup {NoPacket}

\* A packet whose send saw one opened TUN is never written to the next one,
\* however long the sender's thread stops between the load of the state and
\* the push (send_inner, try_recv_inner, resume).
NoCrossSession == returned # NoPacket => returned.born = session

Asleep(p) == pc[p] = "wait" /\ fut[p] = "waiting"

\* A packet recv would return.
Deliverable == active /\ \E i \in 1 .. Len(queue) : queue[i].epoch = epoch

\* The receiver never sleeps for ever beside a packet it would return: every
\* push is followed by a wake-up that reaches it, although send_awaiting waits
\* on the same Notify and may take the wake-up first (send_awaiting, recv).
ReceiverWakes == []<>(~(Deliverable /\ Asleep(Receiver)) \/ cancelled)

\* What the code does guarantee: the receiver sleeps on beside a packet only
\* while a caller of send_awaiting sleeps too, waiting for room.  A wake-up
\* taken by a caller that then pushes is passed on.
WakeIsPassedOn ==
  []<>(\/ ~(Deliverable /\ Asleep(Receiver)) \/ cancelled
       \/ \E s \in Awaiting : Asleep(s))

=============================================================================
