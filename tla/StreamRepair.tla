---------------------------- MODULE StreamRepair ----------------------------
(***************************************************************************)
(* The repair of missing streams.  The engine of the server counts the     *)
(* workers of a device that are registered; after a grace period it sends  *)
(* REPAIR for the missing ones on the carriers it still has, repeats it    *)
(* with a higher sequence, and sends ALIVE once nobody is missing.  The    *)
(* readers of the client apply both to the slots of RepairState, and the   *)
(* session of a worker that sees its restart generation change ends and is *)
(* made anew.                                                              *)
(* (rust-server/protocol.rs; rust-client/repair.rs, session.rs, worker.rs) *)
(*                                                                         *)
(* There is one identity (device, generation, salt) and every worker of it *)
(* is desired.  Time is Elapse: every period of the server has run out.    *)
(* It happens when the client has nothing left to do, since the periods    *)
(* are 30 s and more, and a bounded number of times earlier.               *)
(***************************************************************************)
EXTENDS Naturals, FiniteSets, FiniteSetsExt

CONSTANTS
  Workers,      \* ids a worker may have
  None,
  Scenarios     \* desired_count, how many sessions the server forgets while the client
                \* has them (drops), how many fail on the client, how many control
                \* packets are lost, how often the periods run out while the client is
                \* busy (early), how often the server process or the groups of the
                \* client start again (restarts)

ASSUME WorkersAssumption == Workers \subseteq Nat /\ IsFiniteSet(Workers)
ASSUME ScenariosAssumption ==
  /\ Scenarios \subseteq [desired : Nat, drops : Nat, failures : Nat, losses : Nat, early : Nat,
                          restarts : Nat]
  /\ \A s \in Scenarios : 1 .. s.desired \subseteq Workers

STREAM_ALIVE_REPEAT == 2
STREAM_CONTROL_CARRIERS == 3

VARIABLES
  present,      \* workers with a registered session at the server
  round,        \* the StreamRepairRound of the identity, or None
  net,          \* REPAIR and ALIVE under way, one copy per carrier
  pc,           \* worker -> where its session is
  obs,          \* worker -> restart_generation its session has observed
  mark,         \* worker -> last_sequence that mark_ready has loaded
  restart, credential, last, ready,   \* RepairSlot of each worker
  busy,         \* reader -> the command apply_repair is working on, or None
  asked,        \* worker -> REPAIR commands the server has sent that name it
  left          \* what is left of each bound

server  == <<present, round, asked>>
session == <<pc, obs, mark>>
slots   == <<restart, credential, last, ready>>
vars    == <<server, net, session, slots, busy, left>>

Desired == 1 .. left.desired
Spend(k) == left[k] > 0 /\ left' = [left EXCEPT ![k] = @ - 1]

NewRound == [seq |-> 0, missing |-> {}, grace |-> FALSE, sent |-> FALSE, due |-> FALSE,
             alive |-> {}, aliveSent |-> 0, aliveDue |-> TRUE, orphan |-> FALSE]

Zero == [w \in Workers |-> 0]

\* Every worker is registered and listens, and nothing has ever been repaired.
Init ==
  /\ left \in Scenarios
  /\ present = Desired /\ round = None /\ net = {} /\ asked = Zero
  /\ pc = [w \in Workers |-> "wait"] /\ obs = Zero /\ mark = Zero
  /\ restart = Zero /\ credential = Zero /\ last = Zero /\ ready = Zero
  /\ busy = [w \in Workers |-> None]

-----------------------------------------------------------------------------
\* The server

\* repair_payload: a new set of missing workers starts a new round.
NewMissing(r, missing) ==
  IF r.missing = missing THEN r
  ELSE [r EXCEPT !.seq = @ + 1, !.missing = missing, !.grace = FALSE, !.sent = FALSE,
                 !.due = FALSE, !.alive = {}, !.aliveSent = 0]

\* A bug the code does not have: a repair is not repeated.
RepairOnce(r) == r.grace /\ ~r.sent

RepairDue(r) == r.grace /\ (r.sent => r.due)

RepairSent(r) ==
  [r EXCEPT !.seq = IF r.sent THEN @ + 1 ELSE @, !.sent = TRUE, !.due = FALSE]

\* recovered and alive_payload
Recovered(r) ==
  IF r.missing = {} THEN r
  ELSE [r EXCEPT !.alive = r.missing, !.missing = {}, !.aliveDue = TRUE, !.aliveSent = 0,
                 !.sent = FALSE, !.due = FALSE, !.grace = FALSE]
AliveDue(r) == r.alive # {} /\ r.aliveSent < STREAM_ALIVE_REPEAT /\ r.aliveDue
AliveSent(r) == [r EXCEPT !.aliveSent = @ + 1, !.aliveDue = FALSE]

Active(r) == r.missing # {} \/ (r.alive # {} /\ r.aliveSent < STREAM_ALIVE_REPEAT)

\* send_stream_control: a copy on each of the first carriers.
Copies(kind, seq, ids) ==
  {[kind |-> kind, seq |-> seq, ids |-> ids, on |-> c] :
     c \in {w \in present : Cardinality({v \in present : v < w}) < STREAM_CONTROL_CARRIERS}}

\* reconcile_streams: every three seconds, from the sessions there are.
reconcile_streams ==
  LET missing == Desired \ present
      seen == [(IF round = None THEN NewRound ELSE round) EXCEPT !.orphan = FALSE]
      m == NewMissing(seen, missing)
      a == Recovered(seen)
  IN /\ \/ /\ present = {} /\ round # None /\ Active(round) /\ round.orphan
           /\ round' = None /\ UNCHANGED <<net, asked>>
        \/ /\ present # {} /\ missing # {}
           /\ IF RepairDue(m)
              THEN /\ round' = RepairSent(m)
                   /\ net' = net \cup Copies("repair", RepairSent(m).seq, missing)
                   /\ asked' = [w \in Workers |-> asked[w] + IF w \in missing THEN 1 ELSE 0]
              ELSE round' = m /\ UNCHANGED <<net, asked>>
        \/ /\ missing = {}
           /\ IF AliveDue(a)
              THEN /\ round' = AliveSent(a)
                   /\ net' = net \cup Copies("alive", a.seq, a.alive)
              ELSE round' = a /\ UNCHANGED net
           /\ UNCHANGED asked
     /\ UNCHANGED <<present, session, slots, busy, left>>

\* The client has nothing to do but to wait for the network.
Quiet == net = {} /\ \A w \in Workers : pc[w] = "wait" /\ busy[w] = None

Elapse ==
  /\ round # None
  /\ round' = [round EXCEPT !.grace = (@ \/ round.missing # {}), !.due = (@ \/ round.sent),
                            !.aliveDue = TRUE, !.orphan = (present = {})]
  /\ round' # round
  /\ IF Quiet THEN UNCHANGED left ELSE Spend("early")
  /\ UNCHANGED <<present, asked, net, session, slots, busy>>

\* The session of a worker times out at the server or is dropped there.
ServerDrops(w) ==
  /\ w \in present /\ present' = present \ {w}
  /\ IF pc[w] \in {"down", "connect"} THEN UNCHANGED left ELSE Spend("drops")
  /\ UNCHANGED <<round, asked, net, session, slots, busy>>

\* A new process knows neither sessions nor rounds.
ServerRestart ==
  /\ Spend("restarts") /\ present' = {} /\ round' = None
  /\ UNCHANGED <<asked, net, session, slots, busy>>

-----------------------------------------------------------------------------
\* The network

Reading(w) == pc[w] \in {"marked", "check", "arm", "wait"}

Lose == \E m \in net : /\ Spend("losses") /\ net' = net \ {m}
                       /\ UNCHANGED <<server, session, slots, busy>>

\* parse_stream_command and reader_loop.  A session that has gone receives nothing;
\* apply_alive raises ready_sequence of every worker named.
Receive(w) ==
  \E m \in net :
    /\ m.on = w /\ busy[w] = None /\ net' = net \ {m}
    /\ IF Reading(w) /\ m.kind = "repair"
       THEN busy' = [busy EXCEPT ![w] = [seq |-> m.seq, todo |-> m.ids, cur |-> None, won |-> FALSE]]
       ELSE UNCHANGED busy
    /\ ready' = IF Reading(w) /\ m.kind = "alive"
                THEN [v \in Workers |-> IF v \in m.ids THEN Max({ready[v], m.seq}) ELSE ready[v]]
                ELSE ready
    /\ UNCHANGED <<server, session, restart, credential, last, left>>

-----------------------------------------------------------------------------
\* apply_repair, for one worker after the other

Skip(r) == LET rest == busy[r].todo \ {Min(busy[r].todo)}
           IN busy' = [busy EXCEPT ![r] = IF rest = {} THEN None
                                          ELSE [@ EXCEPT !.todo = rest, !.cur = None, !.won = FALSE]]

LoadLast(r) ==
  /\ busy[r] # None /\ busy[r].cur = None
  /\ LET w == Min(busy[r].todo)
     IN IF busy[r].seq <= last[w] THEN Skip(r)
        ELSE busy' = [busy EXCEPT ![r].cur = last[w]]
  /\ UNCHANGED <<server, net, session, slots, left>>

\* A bug the code does not have: last_sequence is stored without comparing it again.
StoreLast(r) ==
  /\ busy[r] # None /\ busy[r].cur # None /\ ~busy[r].won
  /\ LET w == Min(busy[r].todo)
     IN /\ last' = [last EXCEPT ![w] = busy[r].seq]
        /\ busy' = [busy EXCEPT ![r].won = TRUE]
  /\ UNCHANGED <<server, net, session, restart, credential, ready, left>>

CompareExchange(r) ==
  /\ busy[r] # None /\ busy[r].cur # None /\ ~busy[r].won
  /\ LET w == Min(busy[r].todo)
     IN IF last[w] = busy[r].cur
        THEN /\ last' = [last EXCEPT ![w] = busy[r].seq]
             /\ busy' = [busy EXCEPT ![r].won = TRUE]
        ELSE /\ IF busy[r].seq <= last[w] THEN Skip(r)
                ELSE busy' = [busy EXCEPT ![r].cur = last[w]]
             /\ UNCHANGED last
  /\ UNCHANGED <<server, net, session, restart, credential, ready, left>>

NotBack(previous, r) == previous # 0 /\ r < previous

\* The credentials are given up when the previous repair has not brought the worker
\* back; then the generation moves and every waiter is notified.
Bump(r) ==
  /\ busy[r] # None /\ busy[r].won
  /\ LET w == Min(busy[r].todo)
     IN /\ credential' = IF NotBack(busy[r].cur, ready[w])
                         THEN [credential EXCEPT ![w] = @ + 1] ELSE credential
        /\ restart' = [restart EXCEPT ![w] = @ + 1]
        /\ pc' = IF pc[w] = "wait" THEN [pc EXCEPT ![w] = "check"] ELSE pc
        /\ Skip(r)
  /\ UNCHANGED <<server, net, obs, mark, last, ready, left>>

-----------------------------------------------------------------------------
\* The session of a worker

Goto(w, p) == pc' = [pc EXCEPT ![w] = p]
InSession == UNCHANGED <<server, net, slots, busy, left>>

Begin(w) ==
  /\ pc[w] = "down" /\ Goto(w, "connect")
  /\ UNCHANGED <<obs, mark>> /\ InSession

\* GETCONF is answered: the server has the worker.
Registered(w) ==
  /\ pc[w] = "connect" /\ Goto(w, "conf") /\ present' = present \cup {w}
  /\ UNCHANGED <<round, asked, net, obs, mark, slots, busy, left>>

\* mark_ready: load of last_sequence, then store of ready_sequence.
MarkLoad(w) ==
  /\ pc[w] = "conf" /\ Goto(w, "mark") /\ mark' = [mark EXCEPT ![w] = last[w]]
  /\ UNCHANGED <<server, net, obs, slots, busy, left>>

MarkStore(w) ==
  /\ pc[w] = "mark" /\ Goto(w, "marked") /\ ready' = [ready EXCEPT ![w] = mark[w]]
  /\ UNCHANGED <<server, net, obs, mark, restart, credential, last, busy, left>>

\* The reader runs already when the session reads restart_generation.
Observe(w) ==
  /\ pc[w] = "marked" /\ Goto(w, "check") /\ obs' = [obs EXCEPT ![w] = restart[w]]
  /\ UNCHANGED mark /\ InSession

\* changed: the generation is compared, and only then is the waiter made known.
Check(w) ==
  /\ pc[w] = "check" /\ (restart[w] # obs[w] => busy[w] = None)
  /\ Goto(w, IF restart[w] # obs[w] THEN "down" ELSE "arm")
  /\ UNCHANGED <<obs, mark>> /\ InSession

Arm(w) ==
  /\ pc[w] = "arm" /\ Goto(w, "wait")
  /\ UNCHANGED <<obs, mark>> /\ InSession

\* The session ends by itself: the transport, the reader, a stall.
Fail(w) ==
  /\ w \in Desired /\ pc[w] # "down" /\ busy[w] = None /\ Spend("failures")
  /\ Goto(w, "down")
  /\ UNCHANGED <<server, net, obs, mark, slots, busy>>

\* main builds the groups anew, with a new RepairState, after every worker has gone.
Rebuild ==
  /\ \A w \in Desired : pc[w] = "down" /\ busy[w] = None
  /\ Spend("restarts")
  /\ restart' = Zero /\ credential' = Zero /\ last' = Zero /\ ready' = Zero
  /\ UNCHANGED <<server, net, session, busy>>

Session(w) ==
  \/ Begin(w) \/ Registered(w) \/ MarkLoad(w) \/ MarkStore(w) \/ Observe(w)
  \/ Check(w) \/ Arm(w)
Reader(w) == Receive(w) \/ LoadLast(w) \/ CompareExchange(w) \/ Bump(w)

Next ==
  \/ reconcile_streams \/ Elapse \/ ServerRestart \/ Lose \/ Rebuild
  \/ \E w \in Workers : ServerDrops(w) \/ Session(w) \/ Reader(w) \/ Fail(w)

\* Fairness: the server's clock runs, and the tasks of the client are polled.
Spec ==
  /\ Init /\ [][Next]_vars
  /\ WF_vars(reconcile_streams) /\ WF_vars(Elapse)
  /\ \A w \in Workers : WF_vars(Session(w)) /\ WF_vars(Reader(w))

-----------------------------------------------------------------------------
\* A worker whose session the server has forgotten is made to start again, as long as
\* the device has a carrier: lost packets, a wake-up that changed misses and sequences
\* of an earlier process of the server only delay it.
MissingIsRepaired ==
  \A w \in Workers :
    (w \in Desired /\ pc[w] = "wait" /\ w \notin present /\ present # {})
      ~> (pc[w] # "wait" \/ w \in present \/ present = {})

\* A REPAIR that arrives on several carriers, late or again restarts a worker once.
OncePerCommand == \A w \in Workers : restart[w] <= asked[w]

-----------------------------------------------------------------------------
(***************************************************************************)
(* The inductive invariant.  The sequences of the REPAIR commands that     *)
(* name a worker and are under way were all sent, and those a slot has not *)
(* reached leave room for one more restart each.                           *)
(***************************************************************************)
Rounds ==
  [seq : Nat, missing : SUBSET Desired, grace : BOOLEAN, sent : BOOLEAN, due : BOOLEAN,
   alive : SUBSET Desired, aliveSent : Nat, aliveDue : BOOLEAN, orphan : BOOLEAN]
Packets ==
  [kind : {"repair", "alive"}, seq : Nat, ids : (SUBSET Desired) \ {{}}, on : Desired]
Commands ==
  [seq : Nat, todo : (SUBSET Desired) \ {{}}, cur : Nat \cup {None}, won : BOOLEAN]

ScenarioOK ==
  /\ left \in [desired : Nat, drops : Nat, failures : Nat, losses : Nat, early : Nat, restarts : Nat]
  /\ Desired \subseteq Workers
ServerOK == present \subseteq Desired /\ round \in Rounds \cup {None} /\ asked \in [Workers -> Nat]
NetOK == net \subseteq Packets /\ IsFiniteSet(net)
SessionsOK == DOMAIN pc = Workers /\ \A w \in Workers \ Desired : pc[w] = "wait"
SlotsOK == restart \in [Workers -> Nat] /\ last \in [Workers -> Nat]
ReadersOK ==
  /\ busy \in [Workers -> Commands \cup {None}]
  /\ \A r \in Workers : /\ r \notin Desired => busy[r] = None
                        /\ busy[r] # None /\ busy[r].cur # None => busy[r].cur < busy[r].seq
                        /\ busy[r] # None /\ busy[r].cur = None => ~busy[r].won
TypeOK == ScenarioOK /\ ServerOK /\ NetOK /\ SessionsOK /\ SlotsOK /\ ReadersOK

\* Sequences of the commands for w under way, and those its slot has not reached.
Naming(w) == {m \in net : m.kind = "repair" /\ w \in m.ids}
Readers(w) == {r \in Workers : busy[r] # None /\ w \in busy[r].todo}
Sequences(w) == {m.seq : m \in Naming(w)} \cup {busy[r].seq : r \in Readers(w)}
Later(w) == {s \in Sequences(w) : last[w] < s}

\* Readers that have raised last_sequence of w and not yet its generation.
Winners(w) == {r \in Workers : busy[r] # None /\ busy[r].won /\ Min(busy[r].todo) = w}

EverySent == \A w \in Workers : Cardinality(Sequences(w)) <= asked[w]
RoomForLater ==
  \A w \in Workers : restart[w] + Cardinality(Winners(w)) + Cardinality(Later(w)) <= asked[w]

IInv == TypeOK /\ EverySent /\ RoomForLater
=============================================================================
