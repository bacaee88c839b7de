--------------------------- MODULE ServerSessions ---------------------------
(***************************************************************************)
(* Sessions, generations and routes of rust-server: the ProtocolEngine of  *)
(* the dataplane thread, the bounded queue of commands to it, the queue of *)
(* events from it, control_loop and the tasks it spawns, the epoch of each *)
(* device, and the panel handlers that take a password away.               *)
(* (rust-server/protocol.rs, tun_device.rs, dataplane.rs, main.rs,         *)
(* web_panel.rs)                                                           *)
(*                                                                         *)
(* Both queues are filled with try_send.  They are shared with every other *)
(* client, so a send may fail at any moment; losses counts those and the   *)
(* times the lock of the database is not obtained within 5 s.              *)
(* Time is left out: a session or a slot may have been idle for long       *)
(* enough at any moment at which nothing in the model is using it.         *)
(* A behaviour takes its requests and its bounds from one of Scenarios:    *)
(* the hazards are explored each with its own bounds.                      *)
(* The address of a device never changes, so a route group is named by its *)
(* device.  A session has one worker, as it has in the client.             *)
(***************************************************************************)
EXTENDS Naturals, Sequences, FiniteSets, TLC

CONSTANTS
  Devices, Passwords,
  Tasks,        \* control tasks that may run at a time
  Admins,       \* panel requests and janitors that may run at a time
  Scenarios,    \* what a behaviour may contain: the GETCONFs clients send, as
                \* [peer, pw, dev, ep, worker], the other kinds of requests, and
                \* how many packets, changes of passwords, failing sends, timeouts
                \* of idle sessions and slots and failures of the dataplane
  ReadTimesOut  \* whether the database may be too busy to look up an epoch

Requests == UNION {sc.requests : sc \in Scenarios}

\* Workers are numbered from 1; an epoch is <<generation_id, session_salt>>.
ASSUME RequestsAssumption ==
  \A r \in Requests : /\ r.pw \in Passwords /\ r.dev \in Devices
                      /\ r.ep[1] \in Nat /\ r.worker \in Nat \ {0}
ASSUME TasksAssumption == "none" \notin Tasks \cup Admins

VARIABLES
  hot,       \* ProtocolEngine.sessions: id -> [peer, pw, dev, ep, reg, pend]
  routes,    \* ProtocolEngine.routes: device -> {[s, reg, worker]}
  epochs,    \* ProtocolEngine.epochs: device -> epoch
  creds,     \* ProtocolEngine.credentials
  credsnap,  \* CREDENTIALS_SNAPSHOT
  commands,  \* the queue into the dataplane
  events,    \* the queue of ControlEvents out of it
  pub,       \* App.sessions
  face,      \* the Session every id shares: [pw, dev, ep, worker, has]
  slotOf,    \* App.device_epochs: device -> DeviceEpochSlot, 0 for none
  slots,     \* every DeviceEpochSlot there has been: [ep, holder]
  pws, devs, \* App.db: the state of a password; device -> [pw, ep]
  task,      \* what each control task and each admin is doing
  cut,       \* passwords whose removal has been answered with success
  promised,  \* device -> the newest epoch a TUNCONF has been sent for
  registrations,                                  \* ROUTE_REGISTRATION_COUNTER
  scenario, payloads, changes, losses, idles           \* the scenario, what is left of it

engine  == <<hot, routes, epochs, creds>>
control == <<pub, slotOf, slots, pws, devs, task, cut>>
queues  == <<commands, events>>
limits  == <<registrations, scenario, payloads, changes, idles>>
vars    == <<engine, credsnap, queues, control, face, promised, limits, losses>>

-----------------------------------------------------------------------------
\* Epochs: <<generation_id, session_salt>>
NoEpoch == <<0, "">>

\* Of an older generation, or of the same one with another salt.
Behind(ep, other) == ep[1] < other[1] \/ (ep[1] = other[1] /\ ep # other)

\* Anything may follow the state of a device that has never been admitted.
Follows(ep, other) == other = NoEpoch \/ ~Behind(ep, other)

\* F with v under k.
With(F, k, v) == [x \in DOMAIN F \cup {k} |-> IF x = k THEN v ELSE F[x]]

None == "none"
Idle == [pc |-> "idle"]
Sessions == DOMAIN face
ByPeer(p) == {s \in DOMAIN hot : hot[s].peer = p}
Active == {p \in Passwords : pws[p] = "active"}

Init ==
  /\ hot = <<>> /\ routes = [d \in Devices |-> {}] /\ epochs = <<>>
  /\ creds = Passwords /\ credsnap = Passwords
  /\ commands = <<>> /\ events = <<>>
  /\ pub = {} /\ face = <<>>
  /\ slotOf = [d \in Devices |-> 0] /\ slots = <<>>
  /\ pws = [p \in Passwords |-> "active"] /\ devs = <<>>
  /\ task = [t \in Tasks \cup Admins |-> Idle]
  /\ cut = {} /\ promised = [d \in Devices |-> NoEpoch]
  /\ registrations = 0
  /\ \E sc \in Scenarios :
       /\ scenario = sc /\ payloads = sc.payloads /\ changes = sc.changes
       /\ losses = sc.losses /\ idles = sc.idles

-----------------------------------------------------------------------------
\* The two bounded queues

Lose == losses > 0 /\ losses' = losses - 1

\* try_send of several messages, of which a full queue refuses one.
Without(q, i) == SubSeq(q, 1, i - 1) \o SubSeq(q, i + 1, Len(q))

Emit(es) == \/ events' = events \o es /\ UNCHANGED losses
            \/ Lose /\ \E i \in DOMAIN es : events' = events \o Without(es, i)

command(cs) == \/ commands' = commands \o cs /\ UNCHANGED losses
               \/ Lose /\ \E i \in DOMAIN cs : commands' = commands \o Without(cs, i)

\* In the order of their ids: the only member of the set.
Sorted(S) == {q \in [1 .. Cardinality(S) -> S] : \A i, j \in DOMAIN q : i < j => q[i] < q[j]}
ForEach(S, Msg(_)) == {[i \in DOMAIN q |-> Msg(q[i])] : q \in Sorted(S)}

DropSession(s)   == [cmd |-> "drop", s |-> s]
SessionClosed(s) == [ev |-> "closed", s |-> s]

-----------------------------------------------------------------------------
\* RouteGroup

register(group, e) == {c \in group : c.reg # e.reg /\ c.worker # e.worker} \cup {e}
unregister(group, reg) == {c \in group : c.reg # reg}

\* A bug the code does not have: no other session of the worker is looked for.
NoFallback(R, e) == {}

\* remove_slot_with_reason looks for another session of the worker to take over.
Fallback(R, e) ==
  LET C == {c \in DOMAIN hot \ R : /\ hot[c].reg # 0 /\ hot[c].dev = hot[e.s].dev
                                   /\ hot[c].ep = hot[e.s].ep
                                   /\ face[c].worker = face[e.s].worker}
  IN {[s |-> m, reg |-> hot[m].reg, worker |-> e.worker] :
        m \in {m \in C : \A c \in C : c <= m}}

\* A bug the code does not have: nothing takes the removed sessions off their routes.
RoutesKept(R) == routes

\* The routes and the shared sessions once remove_slot_with_reason has removed R.
RoutesWithout(R) ==
  LET regs == {hot[s].reg : s \in R}
  IN [d \in Devices |->
        UNION {IF e.reg \in regs THEN Fallback(R, e) ELSE {e} : e \in routes[d]}]
FaceWithout(R) == [s \in Sessions |-> [face[s] EXCEPT !.has = @ /\ s \notin R]]

remove_slots(R) ==
  /\ hot' = [s \in DOMAIN hot \ R |-> hot[s]]
  /\ routes' = RoutesWithout(R) /\ face' = FaceWithout(R)
  /\ \E closed \in ForEach(R, SessionClosed) : Emit(closed)

-----------------------------------------------------------------------------
\* ProtocolEngine: packets

\* create_legacy_session in place of the sessions of R, and the GETCONF it is for.
create_legacy_session(r, R) ==
  LET s == Cardinality(Sessions) + 1
  IN /\ hot' = With([x \in DOMAIN hot \ R |-> hot[x]], s,
                    [peer |-> r.peer, pw |-> r.pw, dev |-> r.dev, ep |-> r.ep,
                     reg |-> 0, pend |-> FALSE])
     /\ routes' = RoutesWithout(R)
     /\ face' = With(FaceWithout(R), s,
                     [pw |-> r.pw, dev |-> r.dev, ep |-> r.ep, worker |-> 0, has |-> FALSE])
     /\ \E closed \in ForEach(R, SessionClosed) :
          Emit(closed \o <<[ev |-> "created", s |-> s], [ev |-> "getconf", s |-> s, r |-> r]>>)

Packet == payloads > 0 /\ payloads' = payloads - 1
Unseen == UNCHANGED <<epochs, creds, credsnap, commands, control, promised,
                      registrations, scenario, changes, idles>>

\* A GETCONF that opens with a known password, from a peer without a session.
handle_unknown_legacy(r) ==
  /\ Packet /\ ByPeer(r.peer) = {} /\ r.pw \in creds
  /\ create_legacy_session(r, {})
  /\ Unseen

Rejected(h, r) == \/ h.dev # r.dev \/ Behind(r.ep, h.ep)
                  \/ r.dev \in DOMAIN epochs /\ Behind(r.ep, epochs[r.dev])
Processed(h, r) == h.ep = r.ep /\ (r.dev \in DOMAIN epochs => epochs[r.dev] = r.ep)

\* getconf_reconnect_action_hot: Replace.
ReplaceSession(r) ==
  /\ Packet
  /\ \E s \in ByPeer(r.peer) :
       /\ hot[s].pw = r.pw /\ ~Rejected(hot[s], r) /\ ~Processed(hot[s], r)
       /\ create_legacy_session(r, {s})
  /\ Unseen

\* getconf_reconnect_action_hot: Process.
ProcessGetconf(r) ==
  /\ Packet
  /\ \E s \in ByPeer(r.peer) :
       /\ hot[s].pw = r.pw /\ ~Rejected(hot[s], r) /\ Processed(hot[s], r)
       /\ Emit(<<[ev |-> "getconf", s |-> s, r |-> r]>>)
  /\ Unseen /\ UNCHANGED <<hot, routes, face>>

\* DISCONNECT from a client that gives its own device and salt.
Disconnect(s) ==
  /\ Packet /\ "disconnect" \in scenario.kinds
  /\ Emit(<<[ev |-> "disconnect", s |-> s, r |-> face[s]]>>)
  /\ Unseen /\ UNCHANGED <<hot, routes, face>>

\* An IP packet before the tunnel is there.
IngressBeforeTunnel(s) ==
  /\ Packet /\ "ingress" \in scenario.kinds /\ hot[s].reg = 0 /\ ~hot[s].pend
  /\ \/ /\ events' = Append(events, [ev |-> "ingress", s |-> s, r |-> face[s]])
        /\ hot' = [hot EXCEPT ![s].pend = TRUE] /\ UNCHANGED losses
     \/ Lose /\ UNCHANGED <<events, hot>>
  /\ Unseen /\ UNCHANGED <<routes, face>>

-----------------------------------------------------------------------------
\* ProtocolEngine: commands and the clock

Took(c) == commands # <<>> /\ Head(commands).cmd = c /\ commands' = Tail(commands)
CommandOnly == UNCHANGED <<credsnap, control, limits>>

SendPlain ==
  /\ Took("tunconf")
  /\ LET c == Head(commands) IN
       promised' = IF c.s \in DOMAIN hot /\ Behind(promised[c.dev], c.ep)
                   THEN [promised EXCEPT ![c.dev] = c.ep] ELSE promised
  /\ CommandOnly /\ UNCHANGED <<engine, events, face, losses>>

activate_tunnel ==
  /\ Took("activate")
  /\ LET c == Head(commands)
         h == hot[c.s] IN
       IF c.s \notin DOMAIN hot THEN UNCHANGED <<hot, routes, face>>
       ELSE /\ routes' = [routes EXCEPT ![h.dev] =
                 register(unregister(@, h.reg), [s |-> c.s, reg |-> c.reg, worker |-> c.worker])]
            /\ hot'  = [hot EXCEPT ![c.s].reg = c.reg, ![c.s].pend = FALSE]
            /\ face' = [face EXCEPT ![c.s].has = TRUE]
  /\ CommandOnly /\ UNCHANGED <<epochs, creds, events, promised, losses>>

update_epoch ==
  /\ Took("update")
  /\ LET c == Head(commands) IN
       /\ hot' = IF c.s \in DOMAIN hot THEN [hot EXCEPT ![c.s].dev = c.dev, ![c.s].ep = c.ep]
                 ELSE hot
       /\ face' = IF c.s \in DOMAIN hot THEN [face EXCEPT ![c.s].dev = c.dev, ![c.s].ep = c.ep]
                  ELSE face
  /\ CommandOnly /\ UNCHANGED <<routes, epochs, creds, events, promised, losses>>

\* A bug the code does not have: sessions of older generations are left to DropSession.
RetiredBySalt(h, dev, ep) == h.dev = dev /\ h.ep[1] = ep[1] /\ h.ep # ep

session_is_retired_by_epoch(h, dev, ep) == h.dev = dev /\ Behind(h.ep, ep)

SetAuthoritativeEpoch ==
  /\ Took("auth")
  /\ LET c == Head(commands) IN
       /\ remove_slots({s \in DOMAIN hot : session_is_retired_by_epoch(hot[s], c.dev, c.ep)})
       /\ epochs' = With(epochs, c.dev, c.ep)
  /\ CommandOnly /\ UNCHANGED <<creds, promised>>

DisconnectDevice ==
  /\ Took("disconnect")
  /\ LET c == Head(commands) IN
       remove_slots({s \in DOMAIN hot : s = c.s \/ hot[s].dev = c.dev})
  /\ CommandOnly /\ UNCHANGED <<epochs, creds, promised>>

\* A bug the code does not have: sessions are left to DropPassword.
ReplaceCredentialsOnly ==
  /\ Took("credentials") /\ creds' = Head(commands).creds
  /\ CommandOnly /\ UNCHANGED <<hot, routes, face, events, epochs, promised, losses>>

ReplaceCredentials ==
  /\ Took("credentials")
  /\ remove_slots({s \in DOMAIN hot : hot[s].pw \notin Head(commands).creds})
  /\ creds' = Head(commands).creds
  /\ CommandOnly /\ UNCHANGED <<epochs, promised>>

DropOne ==
  /\ Took("drop")
  /\ remove_slots({Head(commands).s} \cap DOMAIN hot)
  /\ CommandOnly /\ UNCHANGED <<epochs, creds, promised>>

DropPassword ==
  /\ Took("password")
  /\ remove_slots({s \in DOMAIN hot : hot[s].pw = Head(commands).pw})
  /\ CommandOnly /\ UNCHANGED <<epochs, creds, promised>>

Expire == idles > 0 /\ idles' = idles - 1
Mentions(x, s) == "s" \in DOMAIN x /\ x.s = s
Unused(s) ==
  /\ \A i \in DOMAIN commands : ~Mentions(commands[i], s)
  /\ \A i \in DOMAIN events : ~Mentions(events[i], s)
  /\ \A t \in Tasks : ~Mentions(task[t], s)
TimeOnly == UNCHANGED <<credsnap, control, registrations, scenario, payloads, changes>>

\* on_tick finds a session that has been idle for too long.
IdleSession ==
  /\ Expire /\ \E s \in DOMAIN hot : Unused(s) /\ remove_slots({s})
  /\ TimeOnly /\ UNCHANGED <<epochs, creds, commands, promised>>

sweep_idle_epochs ==
  /\ Expire
  /\ \E d \in DOMAIN epochs :
       /\ \A s \in DOMAIN hot : hot[s].dev # d
       /\ epochs' = [x \in DOMAIN epochs \ {d} |-> epochs[x]]
  /\ TimeOnly /\ UNCHANGED <<hot, routes, creds, queues, face, promised, losses>>

-----------------------------------------------------------------------------
\* control_loop

Event(e) == events # <<>> /\ Head(events).ev = e /\ events' = Tail(events)
EventOnly == UNCHANGED <<engine, credsnap, commands, face, promised, limits, losses,
                         slotOf, slots, pws, devs, cut>>

SessionCreated ==
  /\ Event("created") /\ pub' = pub \cup {Head(events).s}
  /\ EventOnly /\ UNCHANGED task

Closed ==
  /\ Event("closed") /\ pub' = pub \ {Head(events).s}
  /\ EventOnly /\ UNCHANGED task

\* A payload is handled in a task of its own.
Spawn(t) ==
  /\ task[t] = Idle
  /\ \E e \in {"getconf", "disconnect", "ingress"} :
       /\ Event(e)
       /\ task' = [task EXCEPT ![t] = [pc |-> e, s |-> Head(events).s, r |-> Head(events).r]]
  /\ EventOnly /\ UNCHANGED pub

-----------------------------------------------------------------------------
\* Tasks

Goto(t, k) == task' = [task EXCEPT ![t] = k]
At(t, l)   == task[t].pc = l
Aside      == UNCHANGED <<engine, events, promised, scenario, payloads>>

getconf_credential_access(r) ==
  /\ r.dev \in DOMAIN devs => devs[r.dev].pw \in {None, r.pw}
  /\ r.pw \in Active

device_control_authorized(r) ==
  r.pw \in Active /\ r.dev \in DOMAIN devs /\ devs[r.dev].pw = r.pw

drop_exact_session(s) == command(<<DropSession(s)>>) /\ pub' = pub \ {s}

\* The reply is queued and the session dropped, or the reply fails and the handler
\* returns.
Deny(t) == \/ drop_exact_session(task[t].s)
           \/ Lose /\ UNCHANGED <<commands, pub>>

\* The session is looked up, and the password checked for the first time.
Preliminary(t) ==
  /\ At(t, "getconf")
  /\ IF task[t].s \notin pub THEN Goto(t, Idle) /\ UNCHANGED <<commands, pub, losses>>
     ELSE IF getconf_credential_access(task[t].r)
     THEN Goto(t, [task[t] EXCEPT !.pc = "epoch"]) /\ UNCHANGED <<commands, pub, losses>>
     ELSE Goto(t, Idle) /\ Deny(t)
  /\ Aside /\ UNCHANGED <<credsnap, face, slotOf, slots, pws, devs, cut, registrations, changes, idles>>

\* The default when the database cannot be read.
fresh_device_epoch(d) ==
  {IF d \in DOMAIN devs THEN devs[d].ep ELSE NoEpoch} \cup (IF ReadTimesOut THEN {NoEpoch} ELSE {})

\* lock_device_epoch: an existing slot, or a read of the database for a new one.
EpochLookup(t) ==
  /\ At(t, "epoch")
  /\ LET k == task[t]
         d == k.r.dev IN
       IF slotOf[d] # 0
       THEN Goto(t, [pc |-> "lock", s |-> k.s, r |-> k.r, slot |-> slotOf[d], created |-> FALSE])
       ELSE \E ep \in fresh_device_epoch(d) :
              Goto(t, [pc |-> "insert", s |-> k.s, r |-> k.r, fresh |-> ep])
  /\ Aside /\ UNCHANGED <<credsnap, commands, face, pub, slotOf, slots, pws, devs, cut,
                          registrations, changes, idles, losses>>

\* Another task may have inserted a slot since.
EpochInsert(t) ==
  /\ At(t, "insert")
  /\ LET k == task[t]
         d == k.r.dev
         n == Len(slots) + 1
         Lock(slot, created) == Goto(t, [pc |-> "lock", s |-> k.s, r |-> k.r,
                                         slot |-> slot, created |-> created]) IN
       IF slotOf[d] # 0 THEN Lock(slotOf[d], FALSE) /\ UNCHANGED <<slotOf, slots>>
       ELSE /\ Lock(n, TRUE)
            /\ slots' = Append(slots, [ep |-> k.fresh, holder |-> None])
            /\ slotOf' = [slotOf EXCEPT ![d] = n]
  /\ Aside /\ UNCHANGED <<credsnap, commands, face, pub, pws, devs, cut,
                          registrations, changes, idles, losses>>

\* The lock is taken; current_device_epoch looks whether the slot is still the one
\* in the table.
EpochLock(t) ==
  /\ At(t, "lock") /\ slots[task[t].slot].holder = None
  /\ LET k == task[t] IN
       IF slotOf[k.r.dev] = k.slot
       THEN /\ slots' = [slots EXCEPT ![k.slot].holder = t]
            /\ Goto(t, [k EXCEPT !.pc = "admit"])
       ELSE Goto(t, [pc |-> "epoch", s |-> k.s, r |-> k.r]) /\ UNCHANGED slots
  /\ Aside /\ UNCHANGED <<credsnap, commands, face, pub, slotOf, pws, devs, cut,
                          registrations, changes, idles, losses>>

\* DeviceEpochState::admit: Current or Advanced.
Admits(ep, r) == Follows(r.ep, ep)

\* The lock is kept until the commands are sent.
Admitted(slot, ep) == [slots EXCEPT ![slot].ep = ep]
Unlocked(slot) == [slots EXCEPT ![slot].holder = None]

\* Sessions purge_stale_device_sessions and purge_replaced_worker_sessions remove.
Purged(s, r) ==
  {c \in pub \ {s} : face[c].dev = r.dev /\ (face[c].ep = r.ep => face[c].worker = r.worker)}

\* The part of handle_getconf under db_write, when the request is admitted.
Admit(t) ==
  LET k == task[t]
      r == k.r
      row == [pw |-> r.pw, ep |-> r.ep]
      changed == r.dev \notin DOMAIN devs \/ devs[r.dev] # row
      m(c) == [cmd |-> c, s |-> k.s, dev |-> r.dev, ep |-> r.ep, worker |-> r.worker, reg |-> 0]
  IN /\ slots' = Admitted(k.slot, r.ep)
     /\ face' = [face EXCEPT ![k.s].dev = r.dev, ![k.s].ep = r.ep, ![k.s].worker = r.worker]
     /\ pub' = pub \ Purged(k.s, r)
     /\ \E drops \in ForEach(Purged(k.s, r), DropSession) : command(drops)
     /\ devs' = With(devs, r.dev, row)
     /\ Goto(t, [pc |-> "send", slot |-> k.slot, changed |-> changed,
                 out |-> <<m("update"), m("auth"), m("tunconf"), m("activate")>>])
     /\ UNCHANGED slotOf

\* The request is denied for its password (then a slot made for it goes), or for
\* its generation or salt.
Refuse(t) ==
  LET k == task[t]
      gone == k.created /\ ~getconf_credential_access(k.r)
  IN /\ slots' = Unlocked(k.slot)
     /\ slotOf' = [slotOf EXCEPT ![k.r.dev] = IF gone /\ @ = k.slot THEN 0 ELSE @]
     /\ Deny(t)
     /\ Goto(t, Idle)
     /\ UNCHANGED <<face, devs>>

Decide(t) ==
  /\ At(t, "admit")
  /\ IF getconf_credential_access(task[t].r) /\ Admits(slots[task[t].slot].ep, task[t].r)
     THEN Admit(t) ELSE Refuse(t)
  /\ Aside /\ UNCHANGED <<credsnap, pws, cut, registrations, changes, idles>>

\* db_write does not get the lock; the one of the epoch is let go.
WriteTimeout(t) ==
  /\ At(t, "admit") /\ Lose
  /\ slots' = Unlocked(task[t].slot) /\ Goto(t, Idle)
  /\ Aside /\ UNCHANGED <<credsnap, commands, face, pub, slotOf, pws, devs, cut,
                          registrations, changes, idles>>

\* db_read does not get the lock: a session that sent data too early is dropped.
ReadTimeout(t) ==
  /\ Lose /\ task[t] # Idle /\ Goto(t, Idle)
  /\ \/ At(t, "getconf") /\ UNCHANGED <<commands, pub>>
     \/ At(t, "disconnect") /\ UNCHANGED <<commands, pub>>
     \/ /\ At(t, "ingress") /\ task[t].s \in pub /\ ~face[task[t].s].has
        /\ commands' = Append(commands, DropSession(task[t].s)) /\ pub' = pub \ {task[t].s}
  /\ Aside /\ UNCHANGED <<credsnap, face, slotOf, slots, pws, devs, cut,
                          registrations, changes, idles>>

NewRegistration == registrations + 1

FetchAddRegistration == registrations' = NewRegistration

\* One command after the other, still under the lock; the handler returns at the
\* first that fails, when has_tunnel is set already if that is ActivateTunnel.
SendCommands(t) ==
  /\ At(t, "send")
  /\ LET k == task[t]
         out == [k.out EXCEPT ![4].reg = NewRegistration]
         Tunnel == /\ FetchAddRegistration
                   /\ face' = [face EXCEPT ![out[4].s].has = TRUE] IN
       /\ slots' = Unlocked(k.slot)
       /\ \/ /\ commands' = commands \o out /\ Tunnel /\ UNCHANGED losses
             /\ Goto(t, IF k.changed THEN [pc |-> "refresh", pw |-> None] ELSE Idle)
          \/ \E sent \in 0 .. 3 :
               /\ Lose /\ commands' = commands \o SubSeq(out, 1, sent) /\ Goto(t, Idle)
               /\ IF sent = 3 THEN Tunnel ELSE UNCHANGED <<registrations, face>>
  /\ Aside /\ UNCHANGED <<credsnap, pub, slotOf, pws, devs, cut, changes, idles>>

\* ensure_control_tunnel up to the read of the database.
Ingress(t) ==
  /\ At(t, "ingress")
  /\ LET k == task[t] IN
       IF k.s \notin pub \/ face[k.s].has
       THEN Goto(t, Idle) /\ UNCHANGED <<commands, pub, losses>>
       ELSE IF k.r.dev \in DOMAIN devs
       THEN Goto(t, [k EXCEPT !.pc = "ensure"]) /\ UNCHANGED <<commands, pub, losses>>
       ELSE Goto(t, Idle) /\ drop_exact_session(k.s)
  /\ Aside /\ UNCHANGED <<credsnap, face, slotOf, slots, pws, devs, cut, registrations, changes, idles>>

\* A session without a worker has not been admitted.
ensure_control_tunnel(t) ==
  /\ At(t, "ensure") /\ Goto(t, Idle)
  /\ LET s == task[t].s
         w == face[s].worker IN
       /\ FetchAddRegistration
       /\ \/ /\ w # 0 /\ UNCHANGED <<pub, losses>>
             /\ commands' = Append(commands, [cmd |-> "activate", s |-> s, worker |-> w, reg |-> NewRegistration])
             /\ face' = [face EXCEPT ![s].has = TRUE]
          \/ /\ w # 0 /\ Lose /\ UNCHANGED face
             /\ commands' \in {commands, Append(commands, DropSession(s))} /\ pub' = pub \ {s}
          \/ w = 0 /\ drop_exact_session(s) /\ UNCHANGED face
  /\ Aside /\ UNCHANGED <<credsnap, slotOf, slots, pws, devs, cut, changes, idles>>

\* handle_disconnect up to lock_existing_device_epoch.
DisconnectStart(t) ==
  /\ At(t, "disconnect")
  /\ LET k == task[t]
         d == k.r.dev IN
       Goto(t, IF k.s \in pub /\ device_control_authorized(k.r) /\ slotOf[d] # 0
               THEN [pc |-> "dlock", s |-> k.s, r |-> k.r, slot |-> slotOf[d]] ELSE Idle)
  /\ Aside /\ UNCHANGED <<credsnap, commands, face, pub, slotOf, slots, pws, devs, cut,
                          registrations, changes, idles, losses>>

DisconnectLock(t) ==
  /\ At(t, "dlock") /\ slots[task[t].slot].holder = None
  /\ LET k == task[t] IN
       IF slotOf[k.r.dev] = k.slot
       THEN Goto(t, [k EXCEPT !.pc = "dcheck"]) /\ slots' = [slots EXCEPT ![k.slot].holder = t]
       ELSE /\ Goto(t, IF slotOf[k.r.dev] = 0 THEN Idle ELSE [k EXCEPT !.slot = slotOf[k.r.dev]])
            /\ UNCHANGED slots
  /\ Aside /\ UNCHANGED <<credsnap, commands, face, pub, slotOf, pws, devs, cut,
                          registrations, changes, idles, losses>>

\* disconnect_request_authorized, under the lock of the epoch.
handle_disconnect(t) ==
  /\ At(t, "dcheck") /\ Goto(t, Idle)
  /\ LET k == task[t] IN
       /\ slots' = Unlocked(k.slot)
       /\ \/ /\ device_control_authorized(k.r) /\ slots[k.slot].ep = face[k.s].ep
             /\ commands' = Append(commands, [cmd |-> "disconnect", s |-> k.s, dev |-> k.r.dev])
             /\ pub' = {s \in pub : s # k.s /\ face[s].dev # k.r.dev}
             /\ UNCHANGED losses
          \/ /\ ~(device_control_authorized(k.r) /\ slots[k.slot].ep = face[k.s].ep)
             /\ UNCHANGED <<commands, pub, losses>>
          \/ Lose /\ UNCHANGED <<commands, pub>>
  /\ Aside /\ UNCHANGED <<credsnap, face, slotOf, pws, devs, cut, registrations, changes, idles>>

-----------------------------------------------------------------------------
\* Passwords are taken away

Unbound(p) == [d \in DOMAIN devs |-> [devs[d] EXCEPT !.pw = IF @ = p THEN None ELSE @]]

\* A change of App.db, under its lock.
ChangePassword(a, kind, p, state, bindings, next) ==
  /\ kind \in scenario.kinds /\ task[a] = Idle /\ pws[p] # "gone" /\ changes > 0
  /\ changes' = changes - 1
  /\ pws' = [pws EXCEPT ![p] = state] /\ devs' = bindings
  /\ cut' = cut \ {p}
  /\ Goto(a, next)
  /\ Aside /\ UNCHANGED <<credsnap, commands, face, pub, slotOf, slots, registrations, idles, losses>>

client_delete(a, p) ==
  ChangePassword(a, "delete", p, "gone", Unbound(p), [pc |-> "wait", pw |-> p, reload |-> TRUE])

client_toggle(a, p) ==
  ChangePassword(a, "toggle", p, IF pws[p] = "active" THEN "off" ELSE "active", devs,
                 [pc |-> "wait", pw |-> p, reload |-> TRUE])

client_unbind(a, p) ==
  ChangePassword(a, "unbind", p, pws[p], Unbound(p), [pc |-> "wait", pw |-> p, reload |-> FALSE])

\* The janitor of passwords does not wait for the file.
run_password_janitor_cycle(a, p) ==
  ChangePassword(a, "expire", p, "gone", Unbound(p), [pc |-> "cut", pw |-> p, reload |-> TRUE])

\* wait_for_persistence; the handler gives up when the file cannot be written.
wait_for_persistence(a) ==
  /\ At(a, "wait")
  /\ \/ Goto(a, [task[a] EXCEPT !.pc = "cut"])
     \/ Goto(a, Idle)
  /\ Aside /\ UNCHANGED <<credsnap, commands, face, pub, slotOf, slots, pws, devs, cut,
                          registrations, changes, idles, losses>>

drop_password_sessions(a) ==
  /\ At(a, "cut")
  /\ command(<<[cmd |-> "password", pw |-> task[a].pw]>>)
  /\ pub' = {s \in pub : face[s].pw # task[a].pw}
  /\ Goto(a, IF task[a].reload THEN [pc |-> "refresh", pw |-> task[a].pw] ELSE Idle)
  /\ Aside /\ UNCHANGED <<credsnap, face, slotOf, slots, pws, devs, cut, registrations, changes, idles>>

\* refresh_credentials, of a handler or of handle_getconf: the database is read,
\* the keys derived, and the result published and sent.
build_credentials(a) ==
  /\ At(a, "refresh")
  /\ Goto(a, [pc |-> "publish", pw |-> task[a].pw, creds |-> Active])
  /\ Aside /\ UNCHANGED <<credsnap, commands, face, pub, slotOf, slots, pws, devs, cut,
                          registrations, changes, idles, losses>>

refresh_credentials(a) ==
  /\ At(a, "publish") /\ Goto(a, Idle)
  /\ LET k == task[a] IN
       /\ credsnap' = k.creds
       /\ \/ /\ commands' = Append(commands, [cmd |-> "credentials", creds |-> k.creds])
             /\ cut' = cut \cup ({k.pw} \cap (Passwords \ (k.creds \cup Active))) /\ UNCHANGED losses
          \/ Lose /\ UNCHANGED <<commands, cut>>
  /\ Aside /\ UNCHANGED <<face, pub, slotOf, slots, pws, devs, registrations, changes, idles>>

\* prune_public_sessions: a session that has not been seen for long.
prune_public_sessions ==
  /\ Expire /\ \E s \in pub : Unused(s) /\ drop_exact_session(s)
  /\ Aside /\ UNCHANGED <<credsnap, face, slotOf, slots, pws, devs, task, cut,
                          registrations, changes>>

\* A slot goes when no session has its device and it has not been locked for an
\* hour, which is longer than any task holds on to one.
device_epoch_sweeper ==
  /\ Expire
  /\ \E d \in Devices :
       /\ slotOf[d] # 0 /\ \A s \in pub : face[s].dev # d
       /\ \A t \in Tasks : task[t] # Idle => task[t].pc \in {"refresh", "publish"}
       /\ slotOf' = [slotOf EXCEPT ![d] = 0]
  /\ Aside /\ UNCHANGED <<credsnap, commands, face, pub, slots, pws, devs, task, cut,
                          registrations, changes, losses>>

-----------------------------------------------------------------------------
OnUdp ==
  \/ \E r \in scenario.requests : handle_unknown_legacy(r) \/ ReplaceSession(r) \/ ProcessGetconf(r)
  \/ \E s \in DOMAIN hot : Disconnect(s) \/ IngressBeforeTunnel(s)

OnCommand ==
  \/ SendPlain \/ activate_tunnel \/ update_epoch \/ SetAuthoritativeEpoch
  \/ DisconnectDevice \/ ReplaceCredentials \/ DropOne \/ DropPassword

OnTick == IdleSession \/ sweep_idle_epochs

Task(t) ==
  \/ Preliminary(t) \/ EpochLookup(t) \/ EpochInsert(t) \/ EpochLock(t) \/ Decide(t)
  \/ WriteTimeout(t) \/ ReadTimeout(t) \/ SendCommands(t) \/ Ingress(t) \/ ensure_control_tunnel(t)
  \/ DisconnectStart(t) \/ DisconnectLock(t) \/ handle_disconnect(t)

Admin(a) ==
  \/ \E p \in Passwords : \/ client_delete(a, p) \/ client_toggle(a, p)
                          \/ client_unbind(a, p) \/ run_password_janitor_cycle(a, p)
  \/ wait_for_persistence(a) \/ drop_password_sessions(a)

Next ==
  \/ OnUdp \/ OnCommand \/ OnTick
  \/ SessionCreated \/ Closed \/ prune_public_sessions \/ device_epoch_sweeper
  \/ \E t \in Tasks : Spawn(t) \/ Task(t)
  \/ \E a \in Admins : Admin(a)
  \/ \E a \in Tasks \cup Admins : build_credentials(a) \/ refresh_credentials(a)

Spec == Init /\ [][Next]_vars

-----------------------------------------------------------------------------
Endpoint == [s : Nat, reg : Nat, worker : Nat]
Epoch == {NoEpoch} \cup {r.ep : r \in UNION {sc.requests : sc \in Scenarios}}

\* send_down_endpoint never meets a stale endpoint: a route names a live session of
\* the device under the registration it has, and a worker has one.
RoutesAreLive ==
  \A d \in Devices : \A e \in routes[d] :
    /\ e.s \in DOMAIN hot /\ hot[e.s].dev = d /\ hot[e.s].reg = e.reg
    /\ \A f \in routes[d] : f.worker = e.worker => f = e

\* Once a device has been sent the TUNCONF of a generation, no session of an older
\* one, or of one with another salt, carries its packets, whatever was lost.
NoOlderGeneration ==
  \A d \in Devices : \A e \in routes[d] : Follows(hot[e.s].ep, promised[d])

\* A worker whose session in the current generation is registered has a route: when
\* the session that took over from it goes, it is put back.
CarrierKeepsRoute ==
  \A s \in DOMAIN hot :
    hot[s].reg # 0 /\ hot[s].ep = devs[hot[s].dev].ep
      => \E e \in routes[hot[s].dev] : e.worker = face[s].worker

\* A password whose removal or deactivation was answered with success has no routed
\* session once the engine has taken its commands, although the first of the two
\* commands may have been lost and a GETCONF may have been under way.
RevokedIsCut ==
  commands = <<>> =>
    \A p \in cut : \A s \in DOMAIN hot : hot[s].pw = p => hot[s].reg = 0

-----------------------------------------------------------------------------
(***************************************************************************)
(* The inductive invariant.  Password, device and epoch of a session never *)
(* change, and whatever is under way for it agrees with them; a session    *)
(* with a worker has been admitted.                                        *)
(***************************************************************************)
IsSeq(q) == q \in Seq({q[i] : i \in DOMAIN q})

Peers == {r.peer : r \in Requests}
Hot  == [peer : Peers, pw : Passwords, dev : Devices, ep : Epoch, reg : Nat, pend : BOOLEAN]
Face == [pw : Passwords, dev : Devices, ep : Epoch, worker : Nat, has : BOOLEAN]
Slot == [ep : Epoch, holder : Tasks \cup {None}]
Row  == [pw : Passwords \cup {None}, ep : Epoch]

\* The session s was made for the request r, or for one like it.
Of(s, r) == /\ s \in Sessions /\ r \in Requests
            /\ r.pw = face[s].pw /\ r.dev = face[s].dev /\ r.ep = face[s].ep

SessionOK(s) ==
  /\ hot[s].pw = face[s].pw /\ hot[s].dev = face[s].dev /\ hot[s].ep = face[s].ep
  /\ hot[s].reg # 0 => face[s].worker # 0

CommandOK(c) ==
  /\ c.cmd \in {"update", "auth", "tunconf"}
       => c.s \in Sessions /\ c.dev = face[c.s].dev /\ c.ep = face[c.s].ep
  /\ c.cmd = "activate"
       => c.s \in Sessions /\ face[c.s].worker # 0 /\ c.reg \in Nat \ {0} /\ c.worker \in Nat

EventOK(e) ==
  /\ e.ev = "getconf" => Of(e.s, e.r)
  /\ e.ev \in {"disconnect", "ingress"} => e.s \in Sessions /\ e.r.dev \in Devices

\* What handle_getconf sends at its end; the registration comes last.
OutOK(out) ==
  /\ IsSeq(out) /\ Len(out) = 4
  /\ out[1].cmd = "update" /\ out[2].cmd = "auth" /\ out[3].cmd = "tunconf"
  /\ out[3].dev = out[2].dev /\ out[3].ep = out[2].ep
  /\ \A i \in 1 .. 3 : CommandOK(out[i])
  /\ out[4] = [cmd |-> "activate", s |-> out[3].s, dev |-> out[3].dev, ep |-> out[3].ep,
               worker |-> out[4].worker, reg |-> 0]
  /\ out[4].worker \in Nat /\ face[out[3].s].worker # 0

\* What task t is doing may be k.
TaskOK(t, k) ==
  /\ k.pc \in {"getconf", "epoch", "insert", "lock", "admit"} => Of(k.s, k.r)
  /\ k.pc \in {"disconnect", "ingress", "ensure", "dlock", "dcheck"} => k.s \in Sessions /\ k.r.dev \in Devices
  /\ k.pc = "insert" => k.fresh \in Epoch
  /\ k.pc \in {"lock", "admit", "dlock", "dcheck", "send"} => k.slot \in 1 .. Len(slots)
  /\ k.pc \in {"admit", "send", "dcheck"} => slots[k.slot].holder = t
  /\ k.pc = "admit" => slotOf[k.r.dev] = k.slot
  /\ k.pc = "send" => OutOK(k.out)
  /\ k.pc \in {"getconf", "ingress", "disconnect", "epoch"} => k = [pc |-> k.pc, s |-> k.s, r |-> k.r]
  /\ k.pc \in {"lock", "admit"}
       => k = [pc |-> k.pc, s |-> k.s, r |-> k.r, slot |-> k.slot, created |-> k.created]
  /\ k.pc \in {"dlock", "dcheck"} => k = [pc |-> k.pc, s |-> k.s, r |-> k.r, slot |-> k.slot]
  /\ k.pc = "wait" => k = [pc |-> "wait", pw |-> k.pw, reload |-> k.reload]

FaceOK   == face \in [Sessions -> Face] /\ IsFiniteSet(Sessions) /\ Sessions = 1 .. Cardinality(Sessions)
HotOK    == /\ DOMAIN hot \subseteq Sessions /\ hot \in [DOMAIN hot -> Hot]
            /\ \A s \in DOMAIN hot : SessionOK(s)
RoutesOK == /\ routes \in [Devices -> SUBSET Endpoint]
            /\ \A d \in Devices : \A e \in routes[d] : e.reg # 0
            /\ RoutesAreLive
QueueOK  == IsSeq(commands) /\ \A i \in DOMAIN commands : CommandOK(commands[i])
MailOK   == IsSeq(events) /\ \A i \in DOMAIN events : EventOK(events[i])
TasksOK  == DOMAIN task = Tasks \cup Admins /\ \A t \in Tasks \cup Admins : TaskOK(t, task[t])
SlotsOK  == /\ slots \in Seq(Slot) /\ slotOf \in [Devices -> Nat]
            /\ \A d \in Devices : slotOf[d] <= Len(slots)
            /\ \A d, e \in Devices : slotOf[d] = slotOf[e] /\ slotOf[d] # 0 => d = e
RowsOK   == /\ devs \in [DOMAIN devs -> Row] /\ DOMAIN pws = Passwords
            /\ promised \in [Devices -> Epoch] /\ scenario \in Scenarios
            /\ registrations \in Nat /\ IsFiniteSet(pub)

\* A password that has been cut is not active, and its admitted sessions are gone or about to go.
Cutting ==
  \A p \in cut :
    /\ pws[p] # "active"
    /\ \/ \A s \in DOMAIN hot : hot[s].pw = p => face[s].worker = 0
       \/ \E i \in DOMAIN commands : commands[i].cmd = "credentials" /\ p \notin commands[i].creds

LInv == /\ FaceOK /\ HotOK /\ RoutesOK /\ QueueOK /\ MailOK /\ TasksOK /\ SlotsOK /\ RowsOK
        /\ Cutting

(***************************************************************************)
(* Generations.  What a slot, a row and a request about to make a slot say *)
(* of a device follows what was promised to it and what will be.           *)
(***************************************************************************)
Newest == [d \in Devices |-> IF d \in DOMAIN devs THEN devs[d].ep ELSE NoEpoch]

\* No request withdraws the slot it has made while another one is about to make it again from
\* a row that is out of date.
NoneWithdrawn ==
  \A t, u \in Tasks :
    ~ /\ At(t, "admit") /\ task[t].created /\ ~getconf_credential_access(task[t].r)
      /\ At(u, "insert") /\ task[u].r.dev = task[t].r.dev
      /\ ~Follows(task[u].fresh, Newest[task[u].r.dev])

SlotsFollow == \A d \in Devices : slotOf[d] # 0 => Follows(slots[slotOf[d]].ep, Newest[d])
RereadsFollow ==
  \A t \in Tasks :
    task[t].pc = "insert" => slotOf[task[t].r.dev] # 0 \/ Follows(task[t].fresh, Newest[task[t].r.dev])

Announced(c) == c.cmd = "tunconf" => Follows(Newest[c.dev], c.ep)
PromisedIsOlder == \A d \in Devices : Follows(Newest[d], promised[d])
QueuedIsOlder   == \A i \in DOMAIN commands : Announced(commands[i])
UnsentIsOlder   == \A t \in Tasks : task[t].pc = "send" => Announced(task[t].out[3])

\* An admitted session follows what was promised, and the TUNCONF that is promised next: the
\* sessions before it are retired first.
AdmittedFollow == \A s \in DOMAIN hot : face[s].worker # 0 => Follows(face[s].ep, promised[face[s].dev])
AllFollow(c) == \A s \in DOMAIN hot : face[s].dev = c.dev /\ face[s].worker # 0 => Follows(face[s].ep, c.ep)
RetiredFirst ==
  \A i \in DOMAIN commands :
    commands[i].cmd = "tunconf" =>
      \/ i = 1 /\ AllFollow(commands[i])
      \/ /\ i # 1 /\ commands[i - 1].cmd = "auth"
         /\ commands[i - 1].dev = commands[i].dev /\ commands[i - 1].ep = commands[i].ep

GInv == /\ SlotsFollow /\ RereadsFollow /\ PromisedIsOlder /\ QueuedIsOlder /\ UnsentIsOlder
        /\ AdmittedFollow /\ RetiredFirst

=============================================================================
