---------------------------- MODULE SocksConnect ----------------------------
(***************************************************************************)
(* How a SOCKS5 CONNECT finds a carrier: rust-client/stream_proxy.rs       *)
(* (start, open_tunnel, handle_client), the routing of proxy frames in     *)
(* rust-client/dispatcher.rs and the table of streams of                   *)
(* rust-server/stream_proxy.rs (handle_frame, run_stream, close_session).  *)
(*                                                                         *)
(* A caller's connection is carried by a tunnel generation: a stream id    *)
(* opened over one carrier, a worker's session with the server.  Carriers  *)
(* come and go.  A generation whose carrier does not confirm, or confirms  *)
(* and never delivers, is dropped and another is tried.                    *)
(*                                                                         *)
(* Frames are delivered at most once (ReplayWindow), in any order; a frame *)
(* that is lost is one whose delivery never comes.  The bytes of a stream  *)
(* are the subject of ProxyStream; here a chunk the caller sends is the    *)
(* kind of request it starts and a DATA frame from the server is just      *)
(* that.  OPEN_ERR and CLOSE, which the client treats alike but for the    *)
(* code it reports, are one kind of frame, "end".  Timeouts may strike at  *)
(* any moment.                                                             *)
(***************************************************************************)
EXTENDS Integers, FiniteSets, Sequences

CONSTANTS
  Callers,        \* connections to the local SOCKS5 listener
  Workers,        \* ids of the workers, numbers
  Path,           \* turn_path of each worker, a number
  MaxIncarnations,\* sessions a worker goes through
  MaxIds,         \* stream ids the model can hand out
  OPEN_ATTEMPTS,  \* attempts of one open_tunnel, and generations of a caller
  MaxStreams,     \* --socks5-max-streams, 0 for no cap
  MaxTable,       \* MAX_SESSION_STREAMS and MAX_GLOBAL_STREAMS
  Jobs,           \* CONTROL_TASK_CAPACITY
  Chunks,         \* kinds of request, a subset of {"get", "post"}
  MaxChunks,      \* chunks a caller sends; more than fit in UNPROVEN_UPLINK_CAP
  ParkedCap       \* UNPROVEN_UPLINK_CAP, in chunks

ASSUME SocksConnectAssumption ==
  /\ Workers \subseteq Nat /\ Path \in [Workers -> Nat]
  /\ MaxIncarnations \in Nat /\ MaxIds \in Nat /\ OPEN_ATTEMPTS \in Nat \ {0}
  /\ MaxStreams \in Nat /\ MaxTable \in Nat /\ Jobs \in Nat /\ Chunks \subseteq {"get", "post"}
  /\ MaxChunks \in Nat /\ ParkedCap \in Nat

Ids      == 1 .. MaxIds
Sessions == Workers \X (1 .. MaxIncarnations)
NoRoute  == <<>>

VARIABLES
  \* the dispatcher
  live,        \* workers: the current session of each worker, 0 when none
  incarnation, \* the last incarnation_id of each worker
  routes,      \* proxy_routes: the session a stream is pinned to
  aborts,      \* ids on the proxy_abort channel
  \* the SOCKS5 proxy
  ids,         \* the next stream id
  streams,     \* ids registered for inbound frames
  pc,          \* where handle_client of each caller is
  stream_id,   \* the id of its current generation, 0 before the first
  carrier,     \* the session picked for its OPEN, until that is sent
  attempt,     \* attempt of open_tunnel
  generations, \* generations that were confirmed
  parked,      \* unproven_up
  proven,      \* a DATA frame came back
  \* the wire and the server
  up, down,    \* frames in flight: <<kind, session, id>>
  gone,        \* sessions the server closed
  opening,     \* keys of OPENs between the check and the insertion
  table,       \* proxy_streams: keys <<session, id>>
  tasks,       \* run_stream of each key
  \* history
  spoken,      \* how many chunks the caller sent
  got          \* keys whose data reached the caller

dispatcher == <<live, incarnation, routes, aborts>>
proxy      == <<ids, streams, pc, stream_id, carrier, attempt, generations, parked, proven>>
server     == <<gone, opening, table, tasks>>
history    == <<spoken, got>>
vars       == <<dispatcher, proxy, up, down, server, history>>

Live == {<<w, live[w]>> : w \in {v \in Workers : live[v] # 0}}

Init ==
  /\ live = [w \in Workers |-> 0] /\ incarnation = [w \in Workers |-> 0]
  /\ routes = [i \in Ids |-> NoRoute] /\ aborts = {}
  /\ ids = 1 /\ streams = {}
  /\ pc = [c \in Callers |-> "idle"]
  /\ stream_id = [c \in Callers |-> 0] /\ carrier = [c \in Callers |-> NoRoute]
  /\ attempt = [c \in Callers |-> 0] /\ generations = [c \in Callers |-> 0]
  /\ parked = [c \in Callers |-> <<>>] /\ proven = [c \in Callers |-> FALSE]
  /\ up = {} /\ down = {} /\ gone = {} /\ opening = {} /\ table = {} /\ tasks = [k \in {} |-> "open"]
  /\ spoken = [c \in Callers |-> 0] /\ got = [c \in Callers |-> {}]
-----------------------------------------------------------------------------
(***************************************************************************)
(* The dispatcher's carriers.                                              *)
(***************************************************************************)

\* interleave_turn_paths: the first worker of every path, then the second
\* one of every path, and so on.
Rank(s) == Cardinality({t \in Live : Path[t[1]] = Path[s[1]] /\ t[1] < s[1]})
Before(s, t) == \/ Rank(s) < Rank(t)
                \/ Rank(s) = Rank(t) /\ Path[s[1]] < Path[t[1]]
Carrier(index) == CHOOSE s \in Live : Cardinality({t \in Live : Before(t, s)}) = index

\* A worker's next session is up.
register(w) ==
  /\ live[w] = 0 /\ incarnation[w] < MaxIncarnations
  /\ incarnation' = [incarnation EXCEPT ![w] = @ + 1]
  /\ live' = [live EXCEPT ![w] = incarnation'[w]]
  /\ UNCHANGED <<routes, aborts, proxy, up, down, server, history>>

\* A session ends: the streams pinned to it are reset.
unregister(w) ==
  LET pinned == {i \in Ids : routes[i] = <<w, live[w]>>}
  IN  /\ live[w] # 0
      /\ live' = [live EXCEPT ![w] = 0]
      /\ routes' = [i \in Ids |-> IF i \in pinned THEN NoRoute ELSE routes[i]]
      /\ aborts' = aborts \cup pinned
      /\ UNCHANGED <<incarnation, proxy, up, down, server, history>>

\* The session a route leads to, when it is still registered.
Usable(route) == Live \cap {route}

\* A bug the code does not have: a route goes only when the CLOSE is sent.
SendCloseKeepsRoute(i) ==
  \/ UNCHANGED <<routes, up>>
  \/ \E s \in Usable(routes[i]) :
       /\ routes' = [routes EXCEPT ![i] = NoRoute]
       /\ up' = up \cup {<<"close", s, i>>}

\* send_proxy_frame with a CLOSE: sent if the carrier is there, a packet is
\* free and the queue is open; the route goes in every case.
SendClose(i) ==
  /\ routes' = [routes EXCEPT ![i] = NoRoute]
  /\ \/ UNCHANGED up
     \/ \E s \in Usable(routes[i]) : up' = up \cup {<<"close", s, i>>}

\* send_proxy_frame with DATA, after which the caller's task is at
\* step: when the carrier is gone, no packet is free or the queue is closed,
\* the route goes and the task ends.
SendData(c, i, step) ==
  \/ /\ Usable(routes[i]) # {}
     /\ pc' = [pc EXCEPT ![c] = step]
     /\ UNCHANGED routes
  \/ /\ routes' = [routes EXCEPT ![i] = NoRoute]
     /\ pc' = [pc EXCEPT ![c] = "closing"]
-----------------------------------------------------------------------------
(***************************************************************************)
(* open_tunnel.                                                            *)
(***************************************************************************)

\* The stream is taken out of the map.  deliver_inbound drops what is still
\* to come for it, and the id is not used again.
Remove(i) ==
  /\ streams' = streams \ {i}
  /\ down' = {m \in down : m[3] # i}

Goto(c, step) == pc' = [pc EXCEPT ![c] = step]

\* A connection is accepted, or turned away at the cap.
Accept(c) ==
  /\ pc[c] = "idle" /\ ids <= MaxIds
  /\ IF MaxStreams > 0 /\ Cardinality(streams) >= MaxStreams
     THEN Goto(c, "done") /\ UNCHANGED ids
     ELSE Goto(c, "handshake") /\ ids' = ids + 1
  /\ UNCHANGED <<dispatcher, streams, stream_id, carrier, attempt, generations, parked,
                 proven, up, down, server, history>>

\* read_handshake returns a target, or the connection ends.
Handshake(c) ==
  /\ pc[c] = "handshake"
  /\ \E step \in {"open", "done"} : Goto(c, step)
  /\ UNCHANGED <<dispatcher, ids, streams, stream_id, carrier, attempt, generations, parked,
                 proven, up, down, server, history>>

\* A bug the code does not have: a later attempt keeps the id.
TakeIdOnce(c) ==
  IF stream_id[c] # 0 THEN UNCHANGED <<ids, stream_id>> /\ streams' = streams \cup {stream_id[c]}
  ELSE /\ ids' = ids + 1 /\ streams' = streams \cup {ids}
       /\ stream_id' = [stream_id EXCEPT ![c] = ids]

\* Each attempt has an id of its own.
TakeId(c) ==
  /\ ids' = ids + 1 /\ streams' = streams \cup {ids}
  /\ stream_id' = [stream_id EXCEPT ![c] = ids]

OpenStart(c) ==
  /\ pc[c] = "open" /\ ids <= MaxIds
  /\ TakeId(c) /\ Goto(c, "pick")
  /\ UNCHANGED <<dispatcher, carrier, attempt, generations, parked, proven, up, down, server,
                 history>>

\* send_proxy_open loads the workers and picks one of them ...
OpenPick(c) ==
  /\ pc[c] = "pick"
  /\ IF Live = {} THEN Goto(c, "failed") /\ UNCHANGED carrier
     ELSE /\ carrier' = [carrier EXCEPT ![c] =
                           Carrier((stream_id[c] + attempt[c]) % Cardinality(Live))]
          /\ Goto(c, "bind")
  /\ UNCHANGED <<dispatcher, ids, streams, stream_id, attempt, generations, parked, proven, up,
                 down, server, history>>

\* ... then pins the stream to it and sends.  The session may have ended in
\* between: its queue refuses the frame or takes it for nothing.
OpenSend(c) ==
  LET s == carrier[c]
      i == stream_id[c]
  IN  /\ pc[c] = "bind" /\ carrier' = [carrier EXCEPT ![c] = NoRoute]
      /\ \/ /\ routes' = [routes EXCEPT ![i] = s] /\ Goto(c, "wait")
            /\ up' = IF s \in Live THEN up \cup {<<"open", s, i>>} ELSE up
         \/ /\ routes' = [routes EXCEPT ![i] = NoRoute] /\ Goto(c, "failed")
            /\ UNCHANGED up
      /\ UNCHANGED <<live, incarnation, aborts, ids, streams, stream_id, attempt,
                     generations, parked, proven, down, server, spoken, got>>

\* The attempt is over without a confirmation: drop it and go on with the
\* next one, or give up when they or the budget are used up.
OpenFailed(c) ==
  LET i == stream_id[c]
  IN  /\ pc[c] = "failed"
      /\ Remove(i) /\ SendClose(i)
      /\ attempt' = [attempt EXCEPT ![c] = @ + 1]
      /\ \/ attempt'[c] < OPEN_ATTEMPTS /\ Goto(c, "open")
         \/ Goto(c, "closing")
      /\ UNCHANGED <<live, incarnation, aborts, ids, stream_id, carrier, generations, parked,
                     proven, server, spoken, got>>

OpenTimeout(c) ==
  /\ pc[c] = "wait" /\ Goto(c, "failed")
  /\ UNCHANGED <<dispatcher, ids, streams, stream_id, carrier, attempt, generations, parked,
                 proven, up, down, server, history>>
-----------------------------------------------------------------------------
(***************************************************************************)
(* handle_client.                                                          *)
(***************************************************************************)

replayable(chunks) == chunks = <<>> \/ chunks[1] = "get"

\* The generation is confirmed.  The first one is reported to the caller,
\* who may have left; a later one is sent what was parked, if that may be
\* repeated.
Opened(c) ==
  /\ generations' = [generations EXCEPT ![c] = @ + 1]
  /\ IF generations[c] = 0 \/ ~replayable(parked[c])
     THEN /\ \E step \in {"closing"} \cup (IF generations[c] = 0 THEN {"relay"} ELSE {}) :
               Goto(c, step)
          /\ UNCHANGED <<routes, parked>>
     ELSE /\ parked' = [parked EXCEPT ![c] = <<>>]
          /\ IF parked[c] = <<>>
             THEN Goto(c, "relay") /\ UNCHANGED routes
             ELSE SendData(c, stream_id[c], "relay")

\* The first data of a connection proves its carrier.
Data(c, key) ==
  /\ proven' = [proven EXCEPT ![c] = TRUE]
  /\ parked' = [parked EXCEPT ![c] = <<>>]
  /\ got' = [got EXCEPT ![c] = @ \cup {key}]
  /\ \E step \in {"relay", "closing"} : Goto(c, step)   \* the caller takes it, or has left

\* A frame reaches the receiver of a caller's stream.
Inbound(c, m) ==
  /\ m \in down /\ m[3] = stream_id[c] /\ m[3] \in streams
  /\ down' = down \ {m}
  /\ \/ pc[c] = "wait" /\ m[1] = "ok" /\ Opened(c) /\ UNCHANGED <<proven, got>>
     \/ /\ pc[c] = "wait" /\ m[1] # "ok" /\ Goto(c, "failed")
        /\ UNCHANGED <<generations, parked, proven, routes, got>>
     \/ /\ pc[c] = "relay" /\ m[1] = "data" /\ Data(c, <<m[2], m[3]>>)
        /\ UNCHANGED <<generations, routes>>
     \/ /\ pc[c] = "relay" /\ m[1] = "end" /\ Goto(c, "closing")
        /\ UNCHANGED <<generations, parked, proven, routes, got>>
     \/ /\ pc[c] = "relay" /\ m[1] = "ok"
        /\ UNCHANGED <<pc, generations, parked, proven, routes, got>>
  /\ UNCHANGED <<live, incarnation, aborts, ids, streams, stream_id, carrier, attempt, up, server,
                 spoken>>

\* The carrier's end, or the overflow of the stream's channel, reaches it.
Aborted(c) ==
  /\ stream_id[c] \in aborts /\ stream_id[c] \in streams
  /\ aborts' = aborts \ {stream_id[c]}
  /\ \/ pc[c] = "wait" /\ Goto(c, "failed")
     \/ pc[c] = "relay" /\ Goto(c, "closing")
  /\ UNCHANGED <<live, incarnation, routes, ids, streams, stream_id, carrier, attempt,
                 generations, parked, proven, up, down, server, history>>

\* deliver_inbound finds the channel of the stream full: the frame is lost
\* and the stream is closed after what is queued.
Overflow(c, m) ==
  /\ pc[c] = "relay" /\ m \in down /\ m[3] = stream_id[c] /\ m[3] \in streams
  /\ Remove(m[3]) /\ Goto(c, "closing")
  /\ UNCHANGED <<dispatcher, ids, stream_id, carrier, attempt, generations, parked, proven, up,
                 server, history>>

\* The caller sends a chunk: it goes out at once, and a copy is parked until
\* the carrier is proven.
CallerSpeaks(c, chunk) ==
  LET kept == IF proven[c] THEN parked[c] ELSE Append(parked[c], chunk)
  IN  /\ pc[c] = "relay" /\ spoken[c] < MaxChunks
      /\ spoken' = [spoken EXCEPT ![c] = @ + 1]
      /\ parked' = [parked EXCEPT ![c] = kept]
      /\ SendData(c, stream_id[c], IF Len(kept) > ParkedCap THEN "closing" ELSE "relay")
      /\ UNCHANGED <<live, incarnation, aborts, ids, streams, stream_id, carrier, attempt,
                     generations, proven, up, down, server, got>>

\* The caller closes its side, or the client is shut down.
CallerLeaves(c) ==
  /\ pc[c] = "relay" /\ Goto(c, "closing")
  /\ UNCHANGED <<dispatcher, ids, streams, stream_id, carrier, attempt, generations, parked,
                 proven, up, down, server, history>>

\* A bug the code does not have: the proof timer runs from the first request.
StallOnceSpoken(c) ==
  LET i == stream_id[c]
  IN  /\ pc[c] = "relay" /\ spoken[c] > 0
      /\ IF proven[c] \/ generations[c] >= OPEN_ATTEMPTS
         THEN Goto(c, "closing") /\ UNCHANGED <<routes, streams, attempt, up, down>>
         ELSE /\ Remove(i) /\ SendClose(i)
              /\ attempt' = [attempt EXCEPT ![c] = 0] /\ Goto(c, "open")
      /\ UNCHANGED <<live, incarnation, aborts, ids, stream_id, carrier, generations, parked,
                     proven, server, spoken, got>>

\* Nothing came back in time: a proven connection ends, an unproven one
\* moves to another generation unless it has had them all.
Stall(c) ==
  LET i == stream_id[c]
  IN  /\ pc[c] = "relay"
      /\ IF proven[c] \/ generations[c] >= OPEN_ATTEMPTS
         THEN Goto(c, "closing") /\ UNCHANGED <<routes, streams, attempt, up, down>>
         ELSE /\ Remove(i) /\ SendClose(i)
              /\ attempt' = [attempt EXCEPT ![c] = 0] /\ Goto(c, "open")
      /\ UNCHANGED <<live, incarnation, aborts, ids, stream_id, carrier, generations, parked,
                     proven, server, spoken, got>>

\* The end of handle_client, on every path.
Close(c) ==
  LET i == stream_id[c]
  IN  /\ pc[c] = "closing" /\ Goto(c, "done")
      /\ Remove(i) /\ SendClose(i)
      /\ UNCHANGED <<live, incarnation, aborts, ids, stream_id, carrier, attempt, generations,
                     parked, proven, server, spoken, got>>
-----------------------------------------------------------------------------
(***************************************************************************)
(* The server.                                                             *)
(***************************************************************************)

\* What the server sends is on its way while both ends of the session are
\* there and somebody is registered for it.
Sent(s, kind, i) == IF s \in Live \ gone /\ i \in streams THEN {<<kind, s, i>>} ELSE {}

Full(s) == Cardinality({k \in table : k[1] = s}) >= MaxTable

\* Every frame is handled in a task of its own.  An OPEN is refused when the
\* table is full or the target makes no sense ...
RecvOpen(m) ==
  LET key == <<m[2], m[3]>>
  IN  /\ m \in up /\ m[1] = "open" /\ m[2] \notin gone /\ Cardinality(opening) < Jobs
      /\ up' = up \ {m}
      /\ \/ /\ down' = down \cup Sent(m[2], "end", m[3])
            /\ UNCHANGED opening
         \/ /\ ~Full(m[2]) /\ key \notin table
            /\ opening' = opening \cup {key}
            /\ UNCHANGED down
      /\ UNCHANGED <<dispatcher, proxy, gone, table, tasks, history>>

\* ... and put into the table in a second step, when the table may be full or
\* the session closed by now.
InsertStream(k) ==
  /\ k \in opening /\ opening' = opening \ {k}
  /\ table' = table \cup {k}
  /\ tasks' = [j \in DOMAIN tasks \cup {k} |-> IF j = k THEN "connecting" ELSE tasks[j]]
  /\ UNCHANGED <<dispatcher, proxy, up, down, gone, history>>

\* A CLOSE, which may come before its OPEN.
RecvClose(m) ==
  /\ m \in up /\ m[1] = "close" /\ m[2] \notin gone
  /\ up' = up \ {m} /\ table' = table \ {<<m[2], m[3]>>}
  /\ UNCHANGED <<dispatcher, proxy, down, gone, opening, tasks, history>>

\* run_stream is connected.
Connected(k) ==
  /\ k \in DOMAIN tasks /\ tasks[k] = "connecting"
  /\ tasks' = [tasks EXCEPT ![k] = "open"]
  /\ down' = down \cup Sent(k[1], "ok", k[2])
  /\ UNCHANGED <<dispatcher, proxy, up, gone, opening, table, history>>

\* The target sends.  What it sends later changes nothing more here.
TargetSpeaks(k) ==
  /\ k \in DOMAIN tasks /\ tasks[k] = "open"
  /\ tasks' = [tasks EXCEPT ![k] = "spoken"]
  /\ down' = down \cup Sent(k[1], "data", k[2])
  /\ UNCHANGED <<dispatcher, proxy, up, gone, opening, table, history>>

\* A bug the code does not have: the task leaves its entry behind.
EndTaskKeepsEntry(k) ==
  /\ tasks' = [j \in DOMAIN tasks \ {k} |-> tasks[j]]
  /\ down' = down \cup Sent(k[1], "end", k[2])
  /\ UNCHANGED <<dispatcher, proxy, up, gone, opening, table, history>>

EndTask(k) ==
  /\ tasks' = [j \in DOMAIN tasks \ {k} |-> tasks[j]] /\ table' = table \ {k}
  /\ down' = down \cup Sent(k[1], "end", k[2])
  /\ UNCHANGED <<dispatcher, proxy, up, gone, opening, history>>

\* run_stream ends: it is told to, or its channel is dropped; the target
\* closes; the connection fails or has been quiet for too long.
Told(k)     == k \in DOMAIN tasks \ table /\ tasks[k] # "connecting" /\ EndTask(k)
TargetEnds(k) ==
  k \in DOMAIN tasks /\ tasks[k] # "connecting" /\ EndTask(k)
ConnectFails(k) ==
  k \in DOMAIN tasks /\ tasks[k] = "connecting" /\ EndTask(k)
Expire(k) ==
  k \in DOMAIN tasks /\ tasks[k] # "connecting" /\ EndTask(k)

\* The server forgets a session; what is still on its way to it is dropped.
close_session(s) ==
  /\ s \in Sessions \ gone /\ s[2] <= incarnation[s[1]]
  /\ gone' = gone \cup {s} /\ table' = {k \in table : k[1] # s}
  /\ up' = {m \in up : m[2] # s}
  /\ UNCHANGED <<dispatcher, proxy, down, opening, tasks, history>>

-----------------------------------------------------------------------------
Keys   == DOMAIN tasks

Caller(c) ==
  \/ Handshake(c) \/ OpenStart(c) \/ OpenPick(c) \/ OpenSend(c) \/ OpenFailed(c)
  \/ OpenTimeout(c) \/ Stall(c) \/ Close(c)

Next ==
  \/ \E w \in Workers : register(w) \/ unregister(w)
  \/ \E c \in Callers : Accept(c) \/ Caller(c) \/ Aborted(c) \/ CallerLeaves(c)
  \/ \E c \in Callers, m \in down : Inbound(c, m) \/ Overflow(c, m)
  \/ \E c \in Callers, chunk \in Chunks : CallerSpeaks(c, chunk)
  \/ \E m \in up : RecvOpen(m) \/ RecvClose(m)
  \/ \E k \in opening : InsertStream(k)
  \/ \E k \in Keys : Connected(k) \/ TargetSpeaks(k) \/ Told(k) \/ TargetEnds(k)
                     \/ ConnectFails(k) \/ Expire(k)
  \/ \E s \in Sessions : close_session(s)

Spec == Init /\ [][Next]_vars

\* A caller's task runs on, its timers included; so does each run_stream,
\* whose connect is bounded by a timeout and whose target falls silent at last,
\* so that the quiet deadline is reached.
Fairness ==
  /\ \A c \in Callers : WF_vars(Caller(c))
  /\ \A k \in Sessions \X Ids :
       /\ WF_vars(InsertStream(k)) /\ WF_vars(Connected(k) \/ ConnectFails(k))
       /\ WF_vars(Told(k)) /\ WF_vars(Expire(k))

FairSpec == Spec /\ Fairness
-----------------------------------------------------------------------------
Done == \A c \in Callers : pc[c] = "done"

\* Whatever generations a connection went through, the bytes its caller
\* receives come from one connection to the target (open_tunnel, handle_client).
OneGeneration == \A c \in Callers : Cardinality(got[c]) <= 1

\* When the callers are gone, nothing is registered for them: no inbound
\* channel and no route is left behind on any path.
NothingLeaks == Done => streams = {} /\ \A i \in Ids : routes[i] = NoRoute

\* A caller is not kept waiting for ever: its connection is proven by data or
\* ends, or the model has no stream id left to go on with.
Decided ==
  \A c \in Callers : pc[c] = "handshake" ~> \/ proven[c] \/ pc[c] = "done"
                                            \/ pc[c] = "open" /\ ids > MaxIds

\* What failed attempts leave at the server goes away, also when every CLOSE
\* is lost or overtakes its OPEN (run_stream's quiet timeout).
GhostsEnd == Done ~> [](table = {} /\ opening = {})
=============================================================================
