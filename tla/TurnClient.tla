----------------------------- MODULE TurnClient -----------------------------
(***************************************************************************)
(* A TURN allocation of the client.  NativeCore is the protocol machine    *)
(* (requests, retransmissions, challenges, maintenance) under one lock;    *)
(* the driver task polls it, sends what it queued, publishes its events in *)
(* DriverShared and feeds it what it receives; the owner (run_session)     *)
(* connects, binds the channel, sends, and gives the allocation back.      *)
(* (rust-client/turn_core.rs, turn.rs, turn_stream.rs, stun_codec.rs,      *)
(* turn_endpoint.rs, session.rs)                                           *)
(*                                                                         *)
(* Time is a choice: the driver's timer fires with a set of deadlines that *)
(* have come due.  There is at most one pending request of an operation;   *)
(* the network is the choice of what the driver receives for it: nothing,  *)
(* an answer, or a late answer to an earlier transaction.  Events that are *)
(* only logged, and the completions of Refresh and CreatePermission, which *)
(* nobody waits for, are left out.                                         *)
(***************************************************************************)
EXTENDS Naturals, Sequences, FiniteSets, SequencesExt, FiniteSetsExt

CONSTANTS
  CONTROL_CAPACITY, EVENT_CAPACITY,
  MAX_TRANSMISSIONS, MAX_NONCE_RETRIES, MAX_CHANNEL_MAINTENANCE_FAILURES,
  Scenarios     \* the mode, and the scheme and transport of the URI; how often a maintenance
                \* deadline comes due (ticks), how often the server refuses, finds the nonce
                \* stale or forgets (faults), how many answers nobody signed arrive (forged),
                \* how many sends and receives fail (errors)

ASSUME TurnClientAssumption == CONTROL_CAPACITY \in Nat \ {0} /\ EVENT_CAPACITY \in Nat \ {0}

VARIABLES
  core,         \* Inner of NativeCore
  shared,       \* DriverShared
  driver,       \* locals of driver_loop
  owner,        \* run_session: where it is and what it has observed
  turnServer,   \* the TURN server: whether the allocation exists there
  left          \* the endpoint, and what is left of each bound

turnVars == <<core, shared, driver, owner, turnServer, left>>

SpendOne(k) == left[k] > 0 /\ left' = [left EXCEPT ![k] = @ - 1]

\* resolve_turn_endpoints: the one endpoint of a URI in a mode, or none.
Endpoint(mode, scheme, uri) ==
  CASE mode = "udp" /\ scheme # "turns" /\ uri # "tcp" -> "udp"
    [] mode = "tcp" /\ scheme = "turns" /\ uri # "udp" -> "tls"
    [] mode = "tcp" /\ scheme # "turns" /\ uri # "udp" -> "tcp"
    [] OTHER -> "none"

Stream == Endpoint(left.mode, left.scheme, left.uri) \in {"tcp", "tls"}

Rank(state) ==
  CASE state = "null" -> 0 [] state = "allocating" -> 3 [] state = "ready" -> 4
    [] state = "deallocating" -> 5 [] state = "deallocated" -> 6 [] state = "destroying" -> 7

TurnInit ==
  /\ left \in Scenarios
  /\ core = [state |-> "null", pending |-> {}, controls |-> <<>>, events |-> <<>>,
             key |-> FALSE, expires |-> FALSE, channel |-> FALSE, failures |-> 0,
             timers |-> {}, shutting |-> FALSE, destroyed |-> FALSE]
  /\ shared = [closing |-> FALSE, terminal |-> FALSE, sent |-> FALSE, wake |-> FALSE,
               closed |-> FALSE, state |-> "null", channel |-> FALSE,
               allocate |-> "none", binds |-> 0, bind |-> "none"]
  /\ driver = [pc |-> "idle", pump |-> TRUE, late |-> <<>>, due |-> {}, lost |-> FALSE,
               cleanup |-> FALSE, cut |-> FALSE, freed |-> FALSE]
  /\ owner = [pc |-> "dial", baseline |-> 0]
  /\ turnServer = [live |-> FALSE]

-----------------------------------------------------------------------------
\* NativeCore: what one call under the lock makes of Inner

Event(kind, what, ok) == [kind |-> kind, what |-> what, ok |-> ok]

\* The new event is lost with the oldest one: an overflow takes their place.
PushEvent(c, e) ==
  IF Len(c.events) = EVENT_CAPACITY
  THEN [c EXCEPT !.events = Append(Tail(@), Event("overflow", "events", FALSE))]
  ELSE [c EXCEPT !.events = Append(@, e)]

SetState(c, state) ==
  IF c.state = state THEN c
  ELSE PushEvent([c EXCEPT !.state = state], Event("state", state, TRUE))

Complete(c, op, ok) == PushEvent(c, Event("complete", op, ok))

QueuePacket(c, p) ==
  IF Len(c.controls) = CONTROL_CAPACITY
  THEN LET d == [c EXCEPT !.controls = Append(Tail(@), p)]
       IN PushEvent(d, Event("overflow", "controls", FALSE))
  ELSE [c EXCEPT !.controls = Append(@, p)]

Keepalive == "keepalive"

HasOperation(c, op) == \E p \in c.pending : p.op = op

\* A request is pending as: with credentials or not, how often it was queued, how many
\* challenges it has answered, and whether it ever left the client.
StartOperation(c, op, auth, nonces) ==
  IF HasOperation(c, op)
  THEN IF op = "channel" THEN QueuePacket(c, op) ELSE c
  ELSE IF auth /\ ~c.key THEN c
  ELSE LET p == [op |-> op, auth |-> auth, sends |-> 1, nonces |-> nonces, out |-> FALSE]
       IN [QueuePacket(c, op) EXCEPT !.pending = @ \cup {p}]

\* The request is answered or given up: it is not pending and not queued any more.
Settle(c, p) ==
  [c EXCEPT !.pending = @ \ {p}, !.controls = SelectSeq(@, LAMBDA op : op # p.op)]

DestroyAllocation(c, op) ==
  LET d == [Complete(c, op, FALSE) EXCEPT
              !.controls = <<>>, !.pending = {}, !.channel = FALSE, !.expires = FALSE,
              !.timers = {}]
  IN SetState(d, IF op = "deallocate" THEN "deallocated" ELSE "destroying")

\* The allocation is given up but its expiry is kept, so that it can be deallocated.
DestroyAfterRebindExhausted(c) ==
  LET d == [c EXCEPT !.controls = <<>>, !.pending = {}, !.channel = FALSE,
                     !.timers = @ \cap {"refresh"}]
  IN SetState(PushEvent(d, Event("exhausted", "channel", FALSE)), "destroying")

\* schedule_maintenance_retry and its failure
ScheduleRetry(c, op) ==
  LET d == IF op = "channel" THEN [c EXCEPT !.failures = @ + 1] ELSE c
  IN IF op = "channel" /\ d.failures >= MAX_CHANNEL_MAINTENANCE_FAILURES
     THEN DestroyAfterRebindExhausted(d)
     ELSE [d EXCEPT !.timers = @ \cup {op}]

CompleteFailure(c, op, expired) ==
  IF op \in {"refresh", "permission", "channel"} /\ c.state = "ready" /\ c.expires /\ ~expired
  THEN ScheduleRetry(Complete(c, op, FALSE), op)
  ELSE DestroyAllocation(c, op)

CompleteSuccess(c, op) ==
  CASE op = "allocate" ->
         LET d == PushEvent([c EXCEPT !.expires = TRUE,
                                      !.timers = @ \cup {"refresh", "maintenance", "keepalive"}],
                            Event("relay", "address", TRUE))
         IN IF c.shutting THEN StartOperation(SetState(d, "deallocating"), "deallocate", TRUE, 0)
            ELSE Complete(SetState(d, "ready"), op, TRUE)
    [] op = "refresh" ->
         Complete([c EXCEPT !.expires = TRUE, !.timers = @ \cup {"refresh"}], op, TRUE)
    [] op = "deallocate" ->
         SetState(Complete([c EXCEPT !.expires = FALSE, !.timers = @ \ {"refresh"}], op, TRUE),
                  "deallocated")
    [] op = "permission" -> Complete(c, op, TRUE)
    [] op = "channel" ->
         Complete(PushEvent([c EXCEPT !.channel = TRUE, !.failures = 0],
                            Event("bound", "channel", TRUE)), op, TRUE)

\* response_requires_integrity; the kind "bad" is 400 and 420, "mismatch" is 437, "refused"
\* any other error and a success whose attributes complete_success refuses.
RequiresIntegrity(kind) == kind \in {"success", "refused", "mismatch"}

NonceRetry(p, kind) == kind \in {"challenge", "stale"} /\ p.nonces < MAX_NONCE_RETRIES

\* input_stun for an answer to the pending request p: its kind, whether its integrity is
\* right, and whether its transaction is the pending one.  The fingerprint stands in for
\* the integrity of 437.
InputStun(c, p, a, expired) ==
  LET d == Settle(c, p)
  IN IF ~a.current THEN c
     ELSE IF p.auth /\ RequiresIntegrity(a.kind) /\ ~a.signed /\ a.kind # "mismatch" THEN c
     ELSE IF a.kind = "success"
          THEN IF p.auth THEN CompleteSuccess(d, p.op) ELSE CompleteFailure(d, p.op, expired)
     ELSE IF a.kind = "mismatch" \/ (a.kind = "bad" /\ p.op = "channel")
          THEN DestroyAllocation(d, p.op)
     ELSE IF NonceRetry(p, a.kind)
          THEN StartOperation([d EXCEPT !.key = TRUE], p.op, TRUE, p.nonces + 1)
     ELSE CompleteFailure(d, p.op, expired)

\* expire_transactions for one request whose time has come
ExpireOne(c, p, expired) ==
  IF Stream \/ p.sends >= MAX_TRANSMISSIONS
  THEN CompleteFailure(Settle(c, p), p.op, expired)
  ELSE [QueuePacket(c, p.op) EXCEPT
          !.pending = (@ \ {p}) \cup {[p EXCEPT !.sends = @ + 1]}]

\* The i-th of the operations that are late, if its request is still pending.
Expire(c, late, i, expired) ==
  IF i > Len(late) \/ ~HasOperation(c, late[i]) THEN c
  ELSE ExpireOne(c, CHOOSE p \in c.pending : p.op = late[i], expired)

\* No more than the three operations of the maintenance are ever pending together.
ExpireTransactions(c, late, expired) ==
  Expire(Expire(Expire(c, late, 1, expired), late, 2, expired), late, 3, expired)

\* The maintenance of poll, in its order: refresh, permission, channel, keepalive.
Maintenance == {"refresh", "permission", "channel"}

Starts(c, op, due) ==
  /\ op \in due \/ ("maintenance" \in due /\ op # "refresh")
  /\ ~HasOperation(c, op)

StartDue(c, op, due) ==
  IF Starts(c, op, due) THEN StartOperation([c EXCEPT !.timers = @ \ {op}], op, TRUE, 0) ELSE c

Maintain(c, due) ==
  LET e == StartDue(StartDue(StartDue(c, "refresh", due), "permission", due), "channel", due)
      quiet == \A op \in Maintenance : ~Starts(c, op, due)
  IN IF "keepalive" \in due /\ quiet /\ e.channel THEN QueuePacket(e, Keepalive) ELSE e

\* poll: the requests of the operations late are due for another transmission, the timers in
\* due have run out, "expiry" is the lifetime of the allocation.
Poll(c, late, due) ==
  LET d == ExpireTransactions(c, late, "expiry" \in due)
      e == IF ~d.shutting /\ d.state = "ready" /\ "expiry" \in due
           THEN DestroyAllocation(d, "refresh") ELSE d
  IN IF c.destroyed THEN c
     ELSE IF ~e.shutting /\ e.state = "ready" THEN Maintain(e, due) ELSE e

GracefulShutdown(c) ==
  LET d == [c EXCEPT !.shutting = TRUE, !.channel = FALSE, !.controls = <<>>,
                     !.timers = @ \cap {"refresh"}]
  IN IF c.destroyed \/ c.shutting THEN c
     ELSE IF c.state = "ready" \/ (c.state = "destroying" /\ c.expires)
     THEN StartOperation(SetState([d EXCEPT !.pending = {}], "deallocating"),
                         "deallocate", TRUE, 0)
     ELSE IF c.state = "allocating" THEN d
     ELSE [d EXCEPT !.pending = {}]

ForceDestroy(c) ==
  IF c.destroyed THEN c
  ELSE PushEvent(SetState([c EXCEPT !.destroyed = TRUE, !.controls = <<>>, !.pending = {}],
                          "destroying"), Event("forced", "destroy", FALSE))

\* require_open and require_ready
Open(c) == ~c.destroyed /\ ~c.shutting
Ready(c) == Open(c) /\ c.state = "ready"

-----------------------------------------------------------------------------
\* DriverShared

\* Only the first reason is kept, and none once the allocation is closing.  notify_waiters
\* reaches the driver only where it waits.
Fail(s) ==
  IF s.closing \/ s.terminal THEN s
  ELSE [s EXCEPT !.terminal = TRUE, !.wake = @ \/ driver.pc = "wait"]

RequestCleanup(s) == [s EXCEPT !.closing = TRUE, !.channel = FALSE, !.wake = TRUE]

-----------------------------------------------------------------------------
\* The driver task

Drive(pc) == driver' = [driver EXCEPT !.pc = pc]

\* The loop ends: force_destroy.
End(c, cut) ==
  /\ driver' = [driver EXCEPT !.pc = "done", !.cut = cut]
  /\ core' = ForceDestroy(c)

\* A bug the code does not have: the cleanup is over before it begins.
FinishedEarly(state) == Rank(state) >= Rank("ready")

Finished(state) == Rank(state) >= Rank("deallocated")

\* start_driver_cleanup
Cleanup(c) == IF driver.cleanup THEN c ELSE GracefulShutdown(c)

\* The head of the loop.  The state it looks at is the one last published.
DriverTop ==
  /\ driver.pc = "top"
  /\ IF ~shared.closing
     THEN Drive(IF driver.pump THEN "poll" ELSE "wait") /\ UNCHANGED core
     ELSE IF ~shared.sent THEN End(core, FALSE)
     ELSE IF Finished(shared.state) THEN End(Cleanup(core), FALSE)
     ELSE /\ core' = Cleanup(core)
          /\ driver' = [driver EXCEPT
               !.cleanup = TRUE,
               !.pc = IF driver.pump \/ ~driver.cleanup THEN "poll" ELSE "wait"]
  /\ UNCHANGED <<shared, owner, turnServer, left>>

\* There is no permit of cleanup_limiter, or the cleanup deadline has passed.
DriverCut ==
  /\ driver.pc = "top" /\ shared.closing /\ shared.sent
  /\ SpendOne("errors")
  /\ End(core, TRUE)
  /\ UNCHANGED <<shared, owner, turnServer>>

\* pump_native: poll; then every queued packet is sent; then every event is taken.
DriverPoll ==
  /\ driver.pc = "poll"
  /\ core' = Poll(core, driver.late, driver.due)
  /\ driver' = [driver EXCEPT !.pc = "send", !.late = <<>>, !.due = {}, !.pump = FALSE]
  /\ UNCHANGED <<shared, owner, turnServer, left>>

DriverSend ==
  /\ driver.pc = "send"
  /\ core' = [core EXCEPT !.controls = <<>>,
                          !.pending = {[p EXCEPT !.out = @ \/ p.op \in Range(core.controls)] :
                                         p \in core.pending}]
  /\ shared' = [shared EXCEPT !.sent = @ \/ core.controls # <<>>]
  /\ driver' = [driver EXCEPT !.pc = "events",
                              !.freed = @ \/ "deallocate" \in Range(core.controls)]
  /\ UNCHANGED <<owner, turnServer, left>>

\* The pump fails; the packet it had taken is lost.  The loop goes on if anything was ever
\* sent: the cleanup is tried until its deadline.
PumpError(c) ==
  /\ shared' = RequestCleanup(Fail(shared))
  /\ core' = IF shared.sent THEN c ELSE ForceDestroy(c)
  /\ driver' = [driver EXCEPT !.pump = TRUE, !.lost = FALSE,
                              !.pc = IF shared.sent THEN "top" ELSE "done"]

DriverSendFails ==
  /\ driver.pc = "send" /\ core.controls # <<>>
  /\ SpendOne("errors")
  /\ PumpError([core EXCEPT !.controls = Tail(@)])
  /\ UNCHANGED <<owner, turnServer>>

\* What pump_native does with an event.  Failed maintenance is not the end.
Publish(s, e) ==
  CASE e.kind = "state" ->
         [s EXCEPT !.state = e.what, !.channel = @ /\ e.what = "ready"]
    [] e.kind = "complete" /\ e.what = "allocate" ->
         LET t == [s EXCEPT !.allocate = IF e.ok THEN "ok" ELSE "failed"]
         IN IF e.ok THEN t ELSE Fail(t)
    [] e.kind = "complete" /\ e.what = "channel" ->
         [s EXCEPT !.binds = @ + 1, !.bind = IF e.ok THEN "ok" ELSE "failed"]
    [] e.kind = "bound" -> [s EXCEPT !.channel = TRUE]
    [] e.kind \in {"overflow", "forced"} -> Fail(s)
    [] OTHER -> s

\* unexpected_destroy
Unexpected(e) == e = Event("state", "destroying", TRUE) /\ ~shared.closing

\* pump_native takes one event after the other, and the owner sees what each of them brings.
\* The address in an event must still be the relay of the core, or the pump fails.
DriverEvent ==
  /\ driver.pc = "events" /\ core.events # <<>>
  /\ LET e == Head(core.events)
         c == [core EXCEPT !.events = Tail(@)]
     IN IF e.kind = "relay" /\ ~core.expires THEN PumpError(c)
        ELSE /\ core' = c /\ shared' = Publish(shared, e)
             /\ driver' = [driver EXCEPT !.lost = @ \/ Unexpected(e)]
  /\ UNCHANGED <<owner, turnServer, left>>

\* A bug the code does not have: an unexpected end of the allocation goes unnoticed.
LossUnnoticed(s) == s

\* A loss nobody asked for ends the allocation for its owner.
ReportLoss(s) == IF driver.lost THEN Fail(s) ELSE s

DriverPumped ==
  /\ driver.pc = "events" /\ core.events = <<>>
  /\ shared' = ReportLoss(shared)
  /\ driver' = [driver EXCEPT !.pc = "top", !.lost = FALSE]
  /\ UNCHANGED <<core, owner, turnServer, left>>

DriverWake ==
  /\ driver.pc = "wait" /\ shared.wake
  /\ shared' = [shared EXCEPT !.wake = FALSE]
  /\ driver' = [driver EXCEPT !.pc = "top", !.pump = TRUE]
  /\ UNCHANGED <<core, owner, turnServer, left>>

\* Deadlines have come when the driver looks again, because its timer fired or it was woken:
\* those of requests one by one or together, in the order of the requests, which are made
\* again after a challenge and may be in any; the maintenance timers and the end of the
\* lifetime a bounded number of times.
DriverTimer ==
  /\ driver.pc = "wait"
  /\ \E late \in SetToAllKPermutations({p.op : p \in core.pending}),
        due \in {{}} \cup {{t} : t \in core.timers}
                   \cup {{"expiry"} : t \in {core.expires} \cap {TRUE}} :
       /\ late # <<>> \/ due # {}
       /\ IF due = {} THEN UNCHANGED left ELSE SpendOne("ticks")
       /\ driver' = [driver EXCEPT !.pc = "top", !.pump = TRUE, !.late = late, !.due = due]
  /\ shared' = [shared EXCEPT !.wake = FALSE]
  /\ UNCHANGED <<core, owner, turnServer>>

\* What the server may answer to the request p, by what it is and what the server has.
Answers(p) ==
  LET a(kind, signed) == [kind |-> kind, signed |-> signed, current |-> TRUE]
      late == [kind |-> "success", signed |-> TRUE, current |-> FALSE]
  IN IF ~p.auth THEN {a("challenge", FALSE)}
     ELSE (IF turnServer.live THEN {a("success", TRUE)} ELSE {})
            \cup (IF turnServer.live \/ p.op = "allocate" THEN {} ELSE {a("mismatch", TRUE)})
            \cup (IF ~Stream /\ (p.nonces > 0 \/ p.sends > 1) THEN {late} ELSE {})

\* What it answers when it refuses or finds the nonce stale, and what nobody signed.
Refusals == {[kind |-> k, signed |-> k = "refused", current |-> TRUE] :
               k \in {"stale", "refused", "bad"}}
Unsigned == {[kind |-> k, signed |-> FALSE, current |-> TRUE] :
               k \in {"success", "refused", "mismatch"}}

Receive(p, a, expired) ==
  /\ p.out
  /\ core' = InputStun(core, p, a, expired)
  /\ turnServer' = [turnServer EXCEPT !.live = @ /\ (p.op = "deallocate" => a.kind # "success")]
  /\ driver' = [driver EXCEPT !.pc = "top", !.pump = TRUE]
  /\ UNCHANGED <<shared, owner>>

\* A STUN message for the request p.  The lifetime may have run out unnoticed.
Arrives(p) ==
  \/ \E a \in Answers(p) : Receive(p, a, FALSE) /\ UNCHANGED left
  \/ \E a \in Answers(p) : core.expires /\ Receive(p, a, TRUE) /\ SpendOne("ticks")
  \/ \E a \in Refusals : p.auth /\ Receive(p, a, FALSE) /\ SpendOne("faults")
  \/ \E a \in Unsigned : Receive(p, a, FALSE) /\ SpendOne("forged")

\* The datagram loop empties the socket before it waits for anything else.
DriverDatagram == driver.pc = "wait" /\ ~Stream /\ \E p \in core.pending : Arrives(p)

\* The stream loop reads a frame when nothing else is ready: a wake-up and a receiver that
\* is closed come first.
DriverFrame ==
  /\ driver.pc = "wait" /\ Stream /\ ~shared.wake /\ ~shared.closed
  /\ \E p \in core.pending : Arrives(p)

\* incoming.closed(): the owner has dropped the receiver.  The datagram loop asks only
\* while it is not closing, the stream loop always.
DriverOwnerClosed ==
  /\ driver.pc = "wait" /\ ~shared.wake /\ shared.closed
  /\ Stream \/ ~shared.closing
  /\ shared' = RequestCleanup(shared)
  /\ Drive("top")
  /\ UNCHANGED <<core, owner, turnServer, left>>

\* The socket or the stream fails under the driver.
DriverReceiveFails ==
  /\ driver.pc = "wait"
  /\ SpendOne("errors")
  /\ shared' = IF shared.closing /\ ~Stream THEN shared ELSE RequestCleanup(Fail(shared))
  /\ driver' = [driver EXCEPT !.pc = "top", !.pump = TRUE]
  /\ UNCHANGED <<core, owner, turnServer>>

Driver ==
  \/ DriverTop \/ DriverPoll \/ DriverSend \/ DriverEvent \/ DriverPumped
  \/ DriverWake \/ DriverTimer \/ DriverDatagram \/ DriverFrame
  \/ DriverOwnerClosed

-----------------------------------------------------------------------------
\* The owner: TurnAllocation as run_session uses it

Own(pc) == owner' = [owner EXCEPT !.pc = pc]

\* connect_transport: the endpoint is reached and the driver spawned, or there is none.
OwnerDial ==
  /\ owner.pc = "dial"
  /\ \/ /\ Endpoint(left.mode, left.scheme, left.uri) # "none"
        /\ Drive("top") /\ Own("connect")
     \/ Own("gone") /\ UNCHANGED driver
  /\ UNCHANGED <<core, shared, turnServer, left>>

\* connect, after the driver has been spawned: start_allocation
OwnerConnect ==
  /\ owner.pc = "connect"
  /\ IF Open(core) /\ core.state = "null"
     THEN /\ core' = StartOperation(SetState(core, "allocating"), "allocate", FALSE, 0)
          /\ shared' = [shared EXCEPT !.wake = TRUE]
          /\ Own("allocating")
     ELSE shared' = Fail(shared) /\ Own("leaving") /\ UNCHANGED core
  /\ UNCHANGED <<driver, turnServer, left>>

\* wait_for_allocation
OwnerAllocated ==
  /\ owner.pc = "allocating"
  /\ \/ shared.allocate = "ok" /\ ~shared.terminal /\ shared.state = "ready" /\ Own("ready")
     \/ shared.allocate = "failed" /\ Own("leaving")
     \/ shared.allocate # "failed" /\ shared.terminal /\ Own("leaving")
  /\ UNCHANGED <<core, shared, driver, turnServer, left>>

\* prepare_channel and bind_channel: the number of completions is read first.
OwnerPermit ==
  /\ owner.pc = "ready"
  /\ IF shared.closing \/ shared.terminal \/ ~Ready(core)
     THEN shared' = Fail(shared) /\ Own("leaving") /\ UNCHANGED core
     ELSE /\ core' = StartOperation(core, "permission", TRUE, 0)
          /\ owner' = [pc |-> "permitted", baseline |-> shared.binds]
          /\ UNCHANGED shared
  /\ UNCHANGED <<driver, turnServer, left>>

OwnerBind ==
  /\ owner.pc = "permitted"
  /\ IF Ready(core)
     THEN /\ core' = StartOperation(core, "channel", TRUE, 0)
          /\ shared' = [shared EXCEPT !.wake = TRUE]
          /\ Own("binding")
     ELSE shared' = Fail(shared) /\ Own("leaving") /\ UNCHANGED core
  /\ UNCHANGED <<driver, turnServer, left>>

\* wait_for_completion, then the confirmation of the channel
OwnerBound ==
  /\ owner.pc = "binding"
  /\ LET completed == shared.binds > owner.baseline
     IN \/ completed /\ shared.bind = "failed" /\ Own("leaving")
        \/ completed /\ shared.bind = "ok" /\ ~shared.terminal /\ shared.channel /\ Own("open")
        \/ (completed => shared.bind = "ok") /\ shared.terminal /\ Own("leaving")
  /\ UNCHANGED <<core, shared, driver, turnServer, left>>

\* recv and the sends of the session find the terminal reason; the session drops its
\* receiver, then run_session deallocates.
OwnerSeesEnd ==
  /\ owner.pc = "open" /\ (shared.terminal \/ shared.closing)
  /\ shared' = [shared EXCEPT !.closed = TRUE]
  /\ Own("leaving")
  /\ UNCHANGED <<core, driver, turnServer, left>>

\* The session ends for another reason, a call is cancelled, or a hard timeout passes.
OwnerLeaves ==
  /\ owner.pc \in {"allocating", "ready", "binding", "open"}
  /\ \/ owner.pc # "open" /\ UNCHANGED shared
     \/ owner.pc = "allocating" /\ shared' = Fail(shared)
     \/ owner.pc = "open" /\ shared' = [shared EXCEPT !.closed = TRUE]
  /\ Own("leaving")
  /\ UNCHANGED <<core, driver, turnServer, left>>

\* deallocate, or the drop of an allocation nobody deallocates
OwnerCleanup ==
  /\ owner.pc = "leaving"
  /\ shared' = RequestCleanup(shared)
  /\ Own("cleanup")
  /\ UNCHANGED <<core, driver, turnServer, left>>

OwnerShutdown ==
  /\ owner.pc = "cleanup"
  /\ core' = GracefulShutdown(core)
  /\ Own("freed")
  /\ UNCHANGED <<shared, driver, turnServer, left>>

\* run_session waits for the driver a short time only.
OwnerDrop ==
  /\ owner.pc = "freed"
  /\ shared' = [RequestCleanup(shared) EXCEPT !.closed = TRUE]
  /\ Own("gone")
  /\ UNCHANGED <<core, driver, turnServer, left>>

OwnerStep ==
  \/ OwnerDial \/ OwnerConnect \/ OwnerAllocated \/ OwnerPermit \/ OwnerBind \/ OwnerBound
  \/ OwnerSeesEnd \/ OwnerCleanup \/ OwnerShutdown \/ OwnerDrop

-----------------------------------------------------------------------------
\* The TURN server and the network (external)

\* It makes the allocation when a signed request reaches it, whether or not its answer is
\* received, and may lose it.
ServerAllocates ==
  /\ ~turnServer.live /\ \E p \in core.pending : p.op = "allocate" /\ p.auth /\ p.out
  /\ turnServer' = [live |-> TRUE]
  /\ UNCHANGED <<core, shared, driver, owner, left>>

ServerForgets ==
  /\ turnServer.live /\ driver.pc # "done" /\ SpendOne("faults")
  /\ turnServer' = [turnServer EXCEPT !.live = FALSE]
  /\ UNCHANGED <<core, shared, driver, owner>>

TurnNext ==
  \/ Driver \/ OwnerStep
  \/ DriverCut \/ DriverSendFails \/ DriverReceiveFails \/ OwnerLeaves
  \/ ServerAllocates \/ ServerForgets

\* The tasks run, and time passes also for a driver that is woken again and again.  Nothing is
\* asked of the network, the server, the hard timeouts of the owner or the cleanup deadline.
TurnSpec ==
  /\ TurnInit /\ [][TurnNext]_turnVars
  /\ WF_turnVars(Driver) /\ SF_turnVars(DriverTimer) /\ WF_turnVars(OwnerStep)

-----------------------------------------------------------------------------
\* Properties

Exhausted(c) == c.failures >= MAX_CHANNEL_MAINTENANCE_FAILURES

\* When the driver ends while the core still knows an allocation that has not expired, it
\* has sent the request that gives it back, whether the owner left while the allocation was
\* being made, bound or used; only a cleanup that was cut short, or an allocation given up
\* by its channel, is excepted (graceful_shutdown, complete_success, driver_loop).
ReleasedAtEnd ==
  driver.pc = "done" /\ core.expires /\ ~driver.cut /\ ~Exhausted(core) => driver.freed

\* The same of an allocation whose channel could not be bound again.
ExhaustedIsReleased ==
  driver.pc = "done" /\ core.expires /\ ~driver.cut /\ Exhausted(core) => driver.freed

\* An allocation that is lost under its owner is reported to it: the event, the published
\* state and the terminal reason reach the session (destroy_allocation, pump_native).
LossIsReported ==
  core.state = "destroying" ~> shared.terminal \/ shared.closing

=============================================================================
