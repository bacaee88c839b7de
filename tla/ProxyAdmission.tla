--------------------------- MODULE ProxyAdmission ---------------------------
(***************************************************************************)
(* The engine of the transparent proxy, which runs in a child process:     *)
(* tproxy::run with its TCP sessions, its UDP flows and associations, and  *)
(* DeviceQuotaRegistry, the quotas they hold leases of.                    *)
(* (rust-server/tproxy.rs)                                                 *)
(*                                                                         *)
(* Bytes are left out: a TCP session is the life of its task, a datagram   *)
(* is the flow it belongs to.  Time is a choice: any wait may time out,    *)
(* any flow or session may have become idle.                               *)
(***************************************************************************)
EXTENDS Naturals, Sequences, FiniteSets, FiniteSetsExt, Functions, TLC

CONSTANTS
  Limits,                        \* the steps of ProxyCapacity: pairs of limits, TCP and UDP
  DEVICE_SESSION_LIMIT, DEVICE_FLOOR,       \* per device, of TCP and of UDP
  NORMAL_BUFFER_LIMITS, JUMBO_BUFFER_LIMITS,            \* of a device and of the whole
  ASSOCIATION_POOL_TARGET, MAX_CONCURRENT_OPENINGS,
  OPENING_PENDING_LIMIT, OPENING_BUFFER_LIMIT,          \* of a queue and of all, in datagrams
  Ips, Sockets                   \* addresses in the tunnel; client sockets, <<ip, n>>

ASSUME ProxyAdmissionAssumption == \A key \in Sockets : key[1] \in Ips

VARIABLES
  active,       \* by_ip: the devices that were seen
  cap,          \* ProxyCapacity
  admission,    \* AdmissionState
  quota,        \* DeviceQuota of each device
  sessions,     \* TCP sessions by session_id: whose, where, in tcp_evictions or evicting
  acceptor,     \* run_tcp: accepting, or inside acquire_tcp_quota
  permit,       \* tcp_capacity_changed
  flows,        \* every UdpFlow that was started, with its response task
  counted,      \* TproxyStats::udp_active
  udp,          \* run_udp: its place, opening queues, openings and refills in flight, pool,
                \* whether the last association failed
  engine,       \* "run", "stop" once cancelled, "over" after release_runtime_state
  load          \* what is left of each bound

avars == <<active, cap, admission, quota, sessions, acceptor, permit, flows, counted, udp,
           engine, load>>

Zero == [tcp |-> 0, udp |-> 0, normal |-> 0, jumbo |-> 0]

\* What a new process starts with.
Fresh ==
  [quota |-> [ip \in Ips |-> Zero], acceptor |-> [pc |-> "accept", ip |-> "none"],
   udp |-> [pc |-> "loop", key |-> <<>>, source |-> "none", opening |-> <<>>, opens |-> {},
            pool |-> 0, refills |-> ASSOCIATION_POOL_TARGET, failed |-> FALSE]]

EngineInit ==
  /\ active = {} /\ cap = Limits[1] /\ admission = Zero /\ quota = Fresh.quota
  /\ sessions = <<>> /\ acceptor = Fresh.acceptor /\ permit = FALSE
  /\ flows = <<>> /\ counted = 0 /\ udp = Fresh.udp /\ engine = "run"

EngineStarts ==
  /\ active' = {} /\ cap' = Limits[1] /\ admission' = Zero /\ quota' = Fresh.quota
  /\ sessions' = <<>> /\ acceptor' = Fresh.acceptor /\ permit' = FALSE
  /\ flows' = <<>> /\ counted' = 0 /\ udp' = Fresh.udp /\ engine' = "run"
  /\ UNCHANGED load

Consume(k) == load[k] > 0 /\ load' = [load EXCEPT ![k] = @ - 1]

-----------------------------------------------------------------------------
\* DeviceQuotaRegistry

\* next_limits and try_expand: the second step at once, the others as memory allows; a
\* value that is already there is no expansion.
Below(a, b) == a.tcp < b.tcp \/ a.udp < b.udp

NextLimits(memory) ==
  IF Below(cap, Limits[2]) THEN Limits[2]
  ELSE IF memory = "plenty" /\ Below(cap, Limits[4]) THEN Limits[4]
  ELSE IF memory # "little" /\ Below(cap, Limits[3]) THEN Limits[3]
  ELSE cap

\* adaptive_device_limit: a fair share of the limit among the devices that use some, never
\* below the floor.
DeviceLimit(kind, ip) ==
  LET users == {i \in active : i = ip \/ quota[i][kind] # 0}
      share == cap[kind] \div Cardinality(users)
  IN Min({DEVICE_SESSION_LIMIT, Max({DEVICE_FLOOR, share})})

Verdict(kind, ip) ==
  IF ip \notin active THEN "inactive"
  ELSE IF quota[ip][kind] >= DeviceLimit(kind, ip) THEN "device"
  ELSE IF admission[kind] >= cap[kind] THEN "global"
  ELSE "ok"

\* A lease is taken and given back in the device and in the whole under one lock.
Take(kind, ip) ==
  /\ quota' = [quota EXCEPT ![ip][kind] = @ + 1]
  /\ admission' = [admission EXCEPT ![kind] = @ + 1]

SaturatingSub(n) == IF n = 0 THEN 0 ELSE n - 1

Give(kind, ip) ==
  /\ quota' = [quota EXCEPT ![ip][kind] = @ - 1]
  /\ admission' = [admission EXCEPT ![kind] = SaturatingSub(@)]

-----------------------------------------------------------------------------
\* TCP

\* accept: the device becomes known; then acquire_tcp_quota.
AcceptTcp(ip) ==
  /\ engine = "run" /\ acceptor.pc = "accept" /\ Consume("tcp")
  /\ active' = active \cup {ip}
  /\ acceptor' = [pc |-> "try", ip |-> ip]
  /\ UNCHANGED <<cap, admission, quota, sessions, permit, flows, counted, udp, engine>>

Admit(ip) ==
  /\ Take("tcp", ip)
  /\ sessions' = Append(sessions, [ip |-> ip, pc |-> "handshake", evicting |-> FALSE])

TryTcp ==
  /\ acceptor.pc = "try"
  /\ LET v == Verdict("tcp", acceptor.ip)
     IN \/ /\ v = "ok" /\ Admit(acceptor.ip)
           /\ acceptor' = [acceptor EXCEPT !.pc = "accept"]
           /\ UNCHANGED cap
        \/ /\ v \in {"inactive", "device"}
           /\ acceptor' = [acceptor EXCEPT !.pc = "accept"]
           /\ UNCHANGED <<cap, admission, quota, sessions>>
        \/ /\ v = "global"
           /\ \E memory \in {"little", "some", "plenty"} :
                /\ cap' = NextLimits(memory)
                /\ acceptor' = [acceptor EXCEPT !.pc = IF cap' = cap THEN "evict" ELSE "try"]
           /\ UNCHANGED <<admission, quota, sessions>>
  /\ UNCHANGED <<active, permit, flows, counted, udp, engine, load>>

\* cancel_oldest_tcp: the oldest that is not being evicted yet; there may be none.
Evictable == {s \in DOMAIN sessions :
                sessions[s].pc \in {"handshake", "relay"} /\ ~sessions[s].evicting}

EvictOldest ==
  /\ acceptor.pc = "evict"
  /\ IF Evictable = {}
     THEN acceptor' = [acceptor EXCEPT !.pc = "accept"] /\ UNCHANGED sessions
     ELSE /\ sessions' = [sessions EXCEPT ![Min(Evictable)].evicting = TRUE]
          /\ acceptor' = [acceptor EXCEPT !.pc = "wait"]
  /\ UNCHANGED <<active, cap, admission, quota, permit, flows, counted, udp, engine, load>>

\* evict_oldest_tcp_and_wait goes on when a lease was dropped, now or at any time before,
\* or after a second; there is one more try.
Evicted ==
  /\ acceptor.pc = "wait"
  /\ permit' = FALSE
  /\ IF Verdict("tcp", acceptor.ip) = "ok" THEN Admit(acceptor.ip)
     ELSE UNCHANGED <<admission, quota, sessions>>
  /\ acceptor' = [acceptor EXCEPT !.pc = "accept"]
  /\ UNCHANGED <<active, cap, flows, counted, udp, engine, load>>

\* handle_tcp_session: the SOCKS5 handshake ends with a relay or with nothing; a relay ends
\* with its streams, by the watchdog, when the session is evicted, or with the engine.
SessionStep(s) ==
  /\ \/ /\ sessions[s].pc = "handshake" /\ ~sessions[s].evicting /\ engine = "run"
        /\ \E place \in {"relay", "closing"} : sessions' = [sessions EXCEPT ![s].pc = place]
     \/ /\ sessions[s].pc = "handshake" /\ (sessions[s].evicting \/ engine = "stop")
        /\ sessions' = [sessions EXCEPT ![s].pc = "closing"]
     \/ /\ sessions[s].pc = "relay"
        /\ sessions' = [sessions EXCEPT ![s].pc = "closing"]
  /\ UNCHANGED <<active, cap, admission, quota, acceptor, permit, flows, counted, udp, engine,
                 load>>

\* TcpQuotaLease::drop: it has left tcp_evictions first, then the counters, then a permit.
SessionEnds(s) ==
  /\ sessions[s].pc = "closing"
  /\ sessions' = [sessions EXCEPT ![s].pc = "over"]
  /\ Give("tcp", sessions[s].ip)
  /\ permit' = TRUE
  /\ UNCHANGED <<active, cap, acceptor, flows, counted, udp, engine, load>>

-----------------------------------------------------------------------------
\* UDP

Mapped == {f \in DOMAIN flows : flows[f].mapped}       \* the map flows of run_udp
FlowsOf(key) == {f \in Mapped : flows[f].key = key}
Latest == Max({0} \cup {flows[f].seen : f \in DOMAIN flows})
Touch(f) == [flows EXCEPT ![f].seen = Latest + 1]

\* Flows leave the map: they are cancelled, their lease and their count go with them.
DropFlows(gone) ==
  /\ flows' = [f \in DOMAIN flows |-> [flows[f] EXCEPT !.mapped = @ /\ f \notin gone]]
  /\ quota' = [ip \in Ips |->
                 [quota[ip] EXCEPT !.udp = @ - Cardinality({f \in gone : flows[f].key[1] = ip})]]
  /\ admission' = [admission EXCEPT !.udp = @ - Cardinality(gone)]
  /\ counted' = counted - Cardinality(gone)

\* The leases of flows and buffers that devices hold.
UdpLeases(kind, ips) ==
  Cardinality({f \in DOMAIN flows :
                 flows[f].key[1] \in ips /\ (flows[f].buffer = kind \/ (kind = "udp" /\ flows[f].mapped))})

\* The pool is filled up with requests for associations.
Refill(u) == [u EXCEPT !.refills = Max({@, ASSOCIATION_POOL_TARGET - u.pool})]

QueuedFor(u, key) == IF key \in DOMAIN u.opening THEN u.opening[key] ELSE 0

\* OpeningBufferPool::acquire
Room(u) == FoldFunction(LAMBDA a, b : a + b, 0, u.opening) < OPENING_BUFFER_LIMIT

\* OpeningQueue::push: a datagram that finds no room is dropped.
Push(u, key) ==
  LET n == QueuedFor(u, key)
  IN [u EXCEPT !.opening = (key :> IF n < OPENING_PENDING_LIMIT /\ Room(u) THEN n + 1 ELSE n) @@ @]

Acquire(u, key, source) == [u EXCEPT !.pc = "acquire", !.key = key, !.source = source]

\* Where the datagram of a client socket without a working flow goes: to the queue of an
\* association that is being opened, nowhere for a while after a failure, nowhere when too
\* many are being opened, to an association of the pool, or to a new one.
Dispatch(u, key) ==
  IF key \in DOMAIN u.opening THEN Push(u, key)
  ELSE IF u.failed \/ Cardinality(DOMAIN u.opening) >= MAX_CONCURRENT_OPENINGS THEN u
  ELSE IF u.pool > 0 THEN Acquire([u EXCEPT !.pool = @ - 1], key, "pool")
  ELSE Refill(Push([u EXCEPT !.opens = @ \cup {key}], key))

\* A datagram of a client; a flow whose response task has ended is stale.
Datagram(key) ==
  /\ engine = "run" /\ udp.pc = "loop" /\ Consume("udp")
  /\ active' = active \cup {key[1]}
  /\ LET live == {f \in FlowsOf(key) : ~flows[f].finished}
     IN IF live # {}
        THEN flows' = Touch(Min(live)) /\ UNCHANGED <<quota, admission, counted, udp>>
        ELSE DropFlows(FlowsOf(key)) /\ udp' = Dispatch(udp, key)
  /\ UNCHANGED <<cap, sessions, acceptor, permit, engine>>

\* UdpFlow::start.  insert would replace a flow of the same socket without counting it.
StartFlow(key) ==
  LET ip == key[1]
      replaced == FlowsOf(key)
  IN /\ flows' = Append([f \in DOMAIN flows |-> [flows[f] EXCEPT !.mapped = @ /\ f \notin replaced]],
                        [key |-> key, mapped |-> TRUE, finished |-> FALSE, buffer |-> "none",
                         seen |-> Latest + 1])
     /\ quota' = [quota EXCEPT ![ip].udp = @ + 1 - Cardinality(replaced)]
     /\ admission' = [admission EXCEPT !.udp = @ + 1 - Cardinality(replaced)]
     /\ counted' = counted + 1

\* evict_oldest_udp_flow
Oldest == {f \in Mapped : \A g \in Mapped : flows[f].seen <= flows[g].seen}

\* A round of acquire_udp_quota.  A flow from the pool is replaced there; a refusal is not.
AcquireUdp ==
  /\ udp.pc = "acquire"
  /\ LET v == Verdict("udp", udp.key[1])
         back == [udp EXCEPT !.pc = "loop", !.key = <<>>]
     IN \/ /\ v = "ok" /\ StartFlow(udp.key)
           /\ udp' = IF udp.source = "pool" THEN Refill(back) ELSE back
           /\ UNCHANGED cap
        \/ /\ v \in {"inactive", "device"}
           /\ udp' = back /\ UNCHANGED <<flows, quota, admission, counted, cap>>
        \/ /\ v = "global"
           /\ \E memory \in {"little", "some", "plenty"} :
                /\ cap' = NextLimits(memory)
                /\ IF cap' # cap THEN UNCHANGED <<flows, quota, admission, counted, udp>>
                   ELSE IF Mapped = {}
                   THEN udp' = back /\ UNCHANGED <<flows, quota, admission, counted>>
                   ELSE (\E f \in Oldest : DropFlows({f})) /\ UNCHANGED udp
  /\ UNCHANGED <<active, sessions, acceptor, permit, engine, load>>

\* The association of a client socket is there, or was refused.
Opened(key, ok) ==
  /\ engine = "run" /\ udp.pc = "loop" /\ key \in udp.opens
  /\ LET u == [udp EXCEPT !.opens = @ \ {key}, !.failed = ~ok,
                          !.opening = Restrict(@, DOMAIN @ \ {key})]
     IN udp' = IF ok THEN Acquire(u, key, "opened") ELSE u
  /\ IF ok THEN UNCHANGED load ELSE Consume("errors")
  /\ UNCHANGED <<active, cap, admission, quota, sessions, acceptor, permit, flows, counted, engine>>

\* An association for the pool; after a failure another is asked for.
Refilled ==
  /\ engine = "run" /\ udp.pc = "loop" /\ udp.refills > 0
  /\ udp' = Refill([udp EXCEPT !.refills = @ - 1,
                               !.pool = Min({ASSOCIATION_POOL_TARGET, @ + 1})])
  /\ UNCHANGED <<active, cap, admission, quota, sessions, acceptor, permit, flows, counted,
                 engine, load>>

\* ASSOCIATION_BACKOFF has passed.
BackoffEnds ==
  /\ udp.pc = "loop" /\ udp.failed
  /\ udp' = [udp EXCEPT !.failed = FALSE]
  /\ UNCHANGED <<active, cap, admission, quota, sessions, acceptor, permit, flows, counted,
                 engine, load>>

\* The sweep, by its timer or after a response task: finished and idle flows go.
Sweep ==
  /\ engine = "run" /\ udp.pc = "loop"
  /\ \E idle \in SUBSET Mapped :
       /\ LET gone == idle \cup {f \in Mapped : flows[f].finished}
          IN gone # {} /\ DropFlows(gone)
  /\ UNCHANGED <<active, cap, sessions, acceptor, permit, udp, engine, load>>

\* relay_responses: a buffer is leased for each datagram; without one it looks again later.
BufferLimit(kind) == IF kind = "normal" THEN NORMAL_BUFFER_LIMITS ELSE JUMBO_BUFFER_LIMITS

ResponseBuffer(f, kind) ==
  /\ flows[f].mapped /\ ~flows[f].finished /\ flows[f].buffer = "none" /\ Consume("replies")
  /\ quota[flows[f].key[1]][kind] < BufferLimit(kind).device
  /\ admission[kind] < BufferLimit(kind).global
  /\ Take(kind, flows[f].key[1])
  /\ flows' = [flows EXCEPT ![f].buffer = kind]
  /\ UNCHANGED <<active, cap, sessions, acceptor, permit, counted, udp, engine>>

ResponseSent(f) ==
  /\ flows[f].buffer # "none"
  /\ Give(flows[f].buffer, flows[f].key[1])
  /\ flows' = [Touch(f) EXCEPT ![f].buffer = "none"]
  /\ UNCHANGED <<active, cap, sessions, acceptor, permit, counted, udp, engine, load>>

\* The response task ends: its flow left the map, its socket failed or was idle.
ResponseEnds(f) ==
  /\ ~flows[f].finished /\ flows[f].buffer = "none"
  /\ flows' = [flows EXCEPT ![f].finished = TRUE]
  /\ UNCHANGED <<active, cap, admission, quota, sessions, acceptor, permit, counted, udp, engine,
                 load>>

-----------------------------------------------------------------------------
\* The end of the engine

Cancel ==
  /\ engine = "run" /\ Consume("stops")
  /\ engine' = "stop"
  /\ UNCHANGED <<active, cap, admission, quota, sessions, acceptor, permit, flows, counted, udp>>

\* A bug the code does not have: the flows of run_udp outlive its loop.
UdpLeaves ==
  /\ engine = "stop" /\ udp.pc = "loop"
  /\ udp' = [udp EXCEPT !.pc = "over", !.opening = <<>>, !.opens = {}, !.refills = 0, !.pool = 0]
  /\ UNCHANGED <<active, cap, admission, quota, sessions, acceptor, permit, flows, counted, engine,
                 load>>

\* run_udp: the flows are drained and every task it spawned is aborted and joined.
UdpEnds ==
  /\ engine = "stop" /\ udp.pc = "loop"
  /\ quota' = [ip \in Ips |-> [k \in DOMAIN Zero |-> quota[ip][k] - UdpLeases(k, {ip})]]
  /\ admission' = [k \in DOMAIN Zero |-> admission[k] - UdpLeases(k, Ips)]
  /\ flows' = [f \in DOMAIN flows |->
                 [flows[f] EXCEPT !.mapped = FALSE, !.finished = TRUE, !.buffer = "none"]]
  /\ counted' = counted - Cardinality(Mapped)
  /\ udp' = [udp EXCEPT !.pc = "over", !.opening = <<>>, !.opens = {}, !.refills = 0, !.pool = 0]
  /\ UNCHANGED <<active, cap, sessions, acceptor, permit, engine, load>>

\* run, after run_tcp has aborted and joined its sessions and run_udp has ended:
\* release_runtime_state.
Release ==
  /\ engine = "stop" /\ acceptor.pc = "accept" /\ udp.pc = "over"
  /\ \A s \in DOMAIN sessions : sessions[s].pc = "over"
  /\ engine' = "over" /\ cap' = Limits[1] /\ admission' = Zero
  /\ UNCHANGED <<active, quota, sessions, acceptor, permit, flows, counted, udp, load>>

Tcp == TryTcp \/ EvictOldest \/ Evicted \/ \E s \in DOMAIN sessions : SessionStep(s) \/ SessionEnds(s)

Udp ==
  \/ AcquireUdp \/ Refilled \/ BackoffEnds \/ UdpEnds \/ Release
  \/ \E key \in Sockets : Opened(key, TRUE) \/ Opened(key, FALSE)
  \/ \E f \in DOMAIN flows : ResponseSent(f)

\* What clients begin, and what follows from it.
Arrival == (\E ip \in Ips : AcceptTcp(ip)) \/ (\E key \in Sockets : Datagram(key))

Work ==
  \/ Tcp \/ Udp \/ Sweep \/ Cancel
  \/ \E f \in DOMAIN flows : ResponseEnds(f) \/ \E kind \in {"normal", "jumbo"} : ResponseBuffer(f, kind)

-----------------------------------------------------------------------------
\* Properties

TcpLeases(ips) == Cardinality({s \in DOMAIN sessions : sessions[s].ip \in ips /\ sessions[s].pc # "over"})

\* The quotas are what is really held: every session, flow and buffer is counted once, with
\* its device and in the whole, from its admission to whichever end it meets, eviction and
\* the end of the engine included (Drop of the leases, release_runtime_state).
CountersAreLeases ==
  /\ admission.tcp = TcpLeases(Ips)
  /\ \A ip \in Ips : quota[ip].tcp = TcpLeases({ip})
  /\ \A k \in {"udp", "normal", "jumbo"} :
       /\ admission[k] = UdpLeases(k, Ips)
       /\ \A ip \in Ips : quota[ip][k] = UdpLeases(k, {ip})

=============================================================================
