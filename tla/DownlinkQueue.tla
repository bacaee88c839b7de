--------------------------- MODULE DownlinkQueue ---------------------------
(***************************************************************************)
(* The downlink queue of the server (downlink_queue.rs) under the route    *)
(* table it follows (tun_device.rs) and the commands of the engine that    *)
(* change both (protocol.rs).  A key is a client's tunnel address, a lane  *)
(* its queue with a fixed number of buffers per class, sized for the paths *)
(* (sessions of the client) the route table holds.                         *)
(*                                                                         *)
(* A registration is written as the session it belongs to: a session has   *)
(* at most one, and it is taken out of the table before the next.          *)
(***************************************************************************)
EXTENDS Integers, Sequences, FiniteSets, FiniteSetsExt

CONSTANTS
  NKeys,     \* tunnel addresses, 1 .. NKeys
  Sessions,  \* numbers: a later session has a larger one
  WorkerOf,  \* worker_id of each session
  SlotRule,  \* class -> [perPath, least, most] of profile_for_active_paths
  MaxPaths,  \* PRIORITY_MAX_SLOTS / PRIORITY_SLOTS_PER_PATH
  Chunk      \* class -> packets sent on one path before the next

Keys == 1 .. NKeys
Classes == <<"latency", "priority", "bulk">>
Class == {"latency", "priority", "bulk"}

ASSUME QueueAssumption ==
  /\ NKeys \in Nat \ {0} /\ MaxPaths \in Nat \ {0}
  /\ Max(Sessions) \in Nat /\ Sessions \subseteq 1 .. Max(Sessions)
  /\ \A c \in Class : /\ Chunk[c] \in Nat \ {0} /\ SlotRule[c].perPath \in Nat
                       /\ SlotRule[c].most \in Nat /\ SlotRule[c].least \in 1 .. SlotRule[c].most

VARIABLES
  hot,     \* session -> [key, ident]: tunnel_ip (0: none) and identity; ident 0: removed
  routes,  \* key -> its endpoints, at most one for a worker
  stripe,  \* key -> class -> LocalStripeCursor of its group
  queue    \* DownlinkQueue: lanes, rings and cursors

qvars == <<hot, routes, stripe, queue>>

-----------------------------------------------------------------------------
Clamp(n, low, high) == Max({low, Min({n, high})})

profile_for_active_paths(n) ==
  [c \in Class |-> IF n = 0 THEN 0
                   ELSE Clamp(Min({n, MaxPaths}) * SlotRule[c].perPath, SlotRule[c].least, SlotRule[c].most)]

\* Mutant: a lane that shrinks gives up free buffers only.
ResizeFreeOnly(slots, capacity) ==
  LET size == slots.free + Len(slots.pending)
  IN  [slots EXCEPT !.free = Max({@ + capacity - size, 0})]

\* PacketSlots::resize: free buffers go first, then the newest packets.
Resize(slots, capacity) ==
  LET size == slots.free + Len(slots.pending)
      less == Max({size - capacity, 0})
      fromFree == Min({less, slots.free})
  IN  [free |-> slots.free - fromFree + Max({capacity - size, 0}),
       pending |-> SubSeq(slots.pending, 1, Len(slots.pending) - (less - fromFree))]

\* The bulk ring holds a key once per path, the others once per client; smaller keys come first.
Ring(lanes, c) ==
  LET times(k) == IF c = "bulk" THEN lanes[k].paths ELSE Min({lanes[k].paths, 1})
      upTo(k) == Cardinality({e \in (1 .. k) \X (1 .. MaxPaths) : e[2] <= times(e[1])})
  IN  [i \in 1 .. upTo(NKeys) |-> CHOOSE k \in Keys : upTo(k - 1) < i /\ i <= upTo(k)]

Rings(lanes) == [c \in Class |-> Ring(lanes, c)]
Inside(cursor, ring) == cursor % Max({Len(ring), 1})

\* rebuild_rings: the cursors are brought into the new rings.
RebuildRings(cursor, lanes) ==
  [lanes |-> lanes, rings |-> Rings(lanes),
   cursor |-> [c \in Class |-> Inside(cursor[c], Ring(lanes, c))]]

Configure(q, k, active) ==
  LET n == Min({active, MaxPaths})
      lane == q.lanes[k]
      profile == profile_for_active_paths(n)
      lanes == [q.lanes EXCEPT ![k] =
                  [paths |-> n, slots |-> [c \in Class |-> Resize(lane.slots[c], profile[c])]]]
  IN  IF lane.paths = n THEN q
      ELSE RebuildRings(q.cursor, lanes)

\* The slots of one class of a lane, and the queue with others in their place.
SlotsOf(q, k, c) == q.lanes[k].slots[c]
WithSlots(q, k, c, free, pending) ==
  [q EXCEPT !.lanes[k].slots[c] = [free |-> free, pending |-> pending]]

Enqueue(q, k, c, packet) ==
  LET slots == SlotsOf(q, k, c)
  IN  IF q.lanes[k].paths = 0 \/ slots.free = 0 THEN q
      ELSE WithSlots(q, k, c, slots.free - 1, Append(slots.pending, packet))

\* The turns of a dequeue round the ring that find a packet.
Turn(q, c, i) == q.rings[c][((q.cursor[c] + i) % Len(q.rings[c])) + 1]
Found(q, c) ==
  IF q.cursor[c] >= Len(q.rings[c]) THEN {}
  ELSE {i \in 0 .. Len(q.rings[c]) - 1 : SlotsOf(q, Turn(q, c, i), c).pending # <<>>}

\* The turn that is taken; a round that finds nothing brings the cursor back to where it was.
FirstTurn(q, c) == {i \in Found(q, c) : \A j \in Found(q, c) : i <= j}
Dequeue(q, c, i) ==
  LET k == Turn(q, c, i)
      slots == SlotsOf(q, k, c)
  IN  [WithSlots(q, k, c, slots.free, Tail(slots.pending))
         EXCEPT !.cursor[c] = (@ + i + 1) % Len(q.rings[c])]

RequeueFront(q, k, c, packet) ==
  WithSlots(q, k, c, SlotsOf(q, k, c).free, <<packet>> \o SlotsOf(q, k, c).pending)

Recycle(q, k, c) == WithSlots(q, k, c, SlotsOf(q, k, c).free + 1, SlotsOf(q, k, c).pending)

Clear(q, k) ==
  [q EXCEPT !.lanes[k].slots =
     [c \in Class |-> [free |-> @[c].free + Len(@[c].pending), pending |-> <<>>]]]

-----------------------------------------------------------------------------
(* The route table. *)
Unregister(r, k, s) == [r EXCEPT ![k] = @ \ {s}]

Register(r, k, s) == [r EXCEPT ![k] = {e \in @ : WorkerOf[e] # WorkerOf[s]} \cup {s}]

FreshStripe == [c \in Class |-> [next |-> 0, left |-> 0, count |-> 0]]

\* A group that loses its last endpoint is dropped with its scheduler.
StripesOf(r) == [k \in Keys |-> IF r[k] = {} THEN FreshStripe ELSE stripe[k]]

\* LocalStripedScheduler::select: the path of the next packet, and the cursor after it.
Stripe(k, c) ==
  LET n == Cardinality(routes[k])
      old == stripe[k][c]
      now == IF old.count = n THEN old ELSE [next |-> 0, left |-> 0, count |-> n]
      left == (IF now.left = 0 THEN Chunk[c] ELSE now.left) - 1
  IN  [path |-> now.next,
       cursor |-> [now EXCEPT !.left = left,
                              !.next = IF left = 0 THEN (@ + 1) % n ELSE @]]

\* send_down_key: the first endpoint from there on whose session still holds the registration.
\* The endpoints of a group are sorted by their workers.
EndpointAt(k, start, i) ==
  CHOOSE e \in routes[k] :
    Cardinality({f \in routes[k] : WorkerOf[f] < WorkerOf[e]}) = (start + i) % Cardinality(routes[k])
Carriers(k, c) ==
  {i \in 0 .. Cardinality(routes[k]) - 1 : hot[EndpointAt(k, Stripe(k, c).path, i)].key = k}
-----------------------------------------------------------------------------
(* The commands of the engine. *)
Live(s) == hot[s].ident # 0
SyncDownlinkProfile(q, r, k) == IF k = 0 THEN q ELSE Configure(q, k, Cardinality(r[k]))

ActivateTunnel(s, k) ==
  IF ~Live(s) THEN UNCHANGED qvars
  ELSE LET old == hot[s].key
           gone == IF old = 0 THEN routes ELSE Unregister(routes, old, s)
           r == Register(gone, k, s)
       IN  /\ routes' = r /\ stripe' = StripesOf(gone)
           /\ hot' = [hot EXCEPT ![s].key = k]
           /\ queue' = SyncDownlinkProfile(SyncDownlinkProfile(queue, r, old), r, k)

RemoveTunnel(s) ==
  IF ~Live(s) \/ hot[s].key = 0 THEN UNCHANGED qvars
  ELSE LET k == hot[s].key
           r == Unregister(routes, k, s)
       IN  /\ routes' = r /\ stripe' = StripesOf(r)
           /\ hot' = [hot EXCEPT ![s].key = 0]
           /\ queue' = SyncDownlinkProfile(queue, r, k)

\* A session that had displaced another of the same worker gives its place back.
Fallbacks(s) ==
  {t \in Sessions \ {s} : Live(t) /\ hot[t] = hot[s] /\ WorkerOf[t] = WorkerOf[s]}

RemoveSession(s) ==
  IF ~Live(s) THEN UNCHANGED qvars
  ELSE LET k == hot[s].key
           gone == Unregister(routes, k, s)
           r == IF gone # routes /\ Fallbacks(s) # {} THEN Register(gone, k, Max(Fallbacks(s)))
                ELSE gone
       IN  /\ hot' = [hot EXCEPT ![s] = [key |-> 0, ident |-> 0]]
           /\ IF k = 0 THEN UNCHANGED <<routes, stripe, queue>>
              ELSE /\ routes' = r /\ stripe' = StripesOf(gone)
                   /\ queue' = SyncDownlinkProfile(queue, r, k)

UpdateEpoch(s, ident) ==
  IF ~Live(s) THEN UNCHANGED qvars
  ELSE /\ hot' = [hot EXCEPT ![s].ident = ident]
       /\ queue' = IF ident # hot[s].ident /\ hot[s].key # 0 THEN Clear(queue, hot[s].key)
                   ELSE queue
       /\ UNCHANGED <<routes, stripe>>

\* handle_tun_packet: a packet from the TUN device joins the lane of its address.
HandleTunPacket(k, c, packet) ==
  /\ queue' = Enqueue(queue, k, c, packet)
  /\ UNCHANGED <<hot, routes, stripe>>

\* A lane with nothing in it.
IdleLane(active) ==
  LET profile == profile_for_active_paths(active)
  IN  [paths |-> Min({active, MaxPaths}),
       slots |-> [c \in Class |-> [free |-> profile[c], pending |-> <<>>]]]

\* A server whose sessions have the tunnels at gives them, none where that is 0.
Joined(at) ==
  /\ hot = [s \in Sessions |-> [key |-> at[s], ident |-> 1]]
  /\ routes = [k \in Keys |-> {s \in Sessions : at[s] = k}]
  /\ \A k \in Keys : \A s, t \in routes[k] : WorkerOf[s] = WorkerOf[t] => s = t
  /\ stripe = [k \in Keys |-> FreshStripe]
  /\ queue = RebuildRings([c \in Class |-> 0], [k \in Keys |-> IdleLane(Cardinality(routes[k]))])

QInit == \E at \in [Sessions -> 0 .. NKeys] : Joined(at)

-----------------------------------------------------------------------------
(* A lane has exactly the buffers its client's paths give it, whatever was  *)
(* queued when sessions came, displaced each other, moved, changed identity *)
(* or went, and whatever the drain took out and put back: none is lost, and *)
(* a client without a path has no packet waiting for its next owner.        *)
LaneIsSized ==
  \A k \in Keys :
    LET lane == queue.lanes[k]
        profile == profile_for_active_paths(Cardinality(routes[k]))
    IN  \A c \in Class : lane.slots[c].free + Len(lane.slots[c].pending) = profile[c]
=============================================================================
