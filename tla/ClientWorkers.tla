---------------------------- MODULE ClientWorkers ---------------------------
(***************************************************************************)
(* The workers of rust-client: the loop of a worker, the TURN credentials  *)
(* a cohort of workers shares, the hashes (VK calls) they come from, the   *)
(* life of a session from Allocate to its end, who asks for the tunnel     *)
(* configuration, the orderly disconnect, and the loop of main that        *)
(* rebuilds everything below an open SOCKS5 listener.                      *)
(* (rust-client/worker.rs, session.rs, main.rs)                            *)
(*                                                                         *)
(* Delays are left out: a sleeping worker may wake at any moment.  The one *)
(* comparison of times that matters is kept: the two attempts of a leader  *)
(* take 2 * (300 + 350) ms, less than the 2 s a follower waits for it and  *)
(* the 2 s a session may take to stop.                                     *)
(* An error of a session is the class worker_loop puts it in.              *)
(***************************************************************************)
EXTENDS Naturals, Sequences, FiniteSets, SequencesExt

CONSTANTS
  Groups,      \* groups of workers; a group has one worker here
  GroupsPerCred,   \* GROUPS_PER_CREDENTIAL
  MaxHashes,   \* hashes the user may have given
  Cap,         \* WORKERS_PER_CREDENTIAL
  None,
  Scenarios    \* how many hashes there are, how many requests for credentials, failures,
               \* inputs of main and times it rebuilds the groups a behaviour may
               \* contain, and whether main keeps a SOCKS5 listener alive (keep_listener_alive)

Leases == [val : Nat, gen : Nat]                                                \* CredentialLease
Cached == [val : Nat, gen : Nat, attempts : Nat, mismatches : Nat]              \* CachedCredentials

ASSUME BoundsAssumption == {Groups, GroupsPerCred, MaxHashes, Cap} \subseteq Nat \ {0}
ASSUME NoneAssumption == None \notin Leases \cup Cached \cup 1 .. Groups
ASSUME ScenariosAssumption ==
  Scenarios \subseteq [hashes : 1 .. MaxHashes, fetches : Nat, faults : Nat, inputs : Nat,
                       builds : Nat, keep : BOOLEAN]

Workers == 1 .. Groups

VARIABLES
  pc, lease,        \* worker -> where worker_loop is, the CredentialLease it holds
  result,           \* worker -> how its session ended
  cur, blocked,     \* CredentialCache.current and quota_blocked
  generation,       \* CredentialCache.next_generation
  issued,           \* credentials -> the newest value VK has returned
  lock, pacer,      \* holders of GroupCredentials.state and of credential_pacer
  unavailable,      \* hashes with HashAvailability.unavailable
  cancel, paused,
  guard,            \* workers whose ConfigFlightGuard is acquired
  inFlight, sent,   \* config_in_flight, config_sent
  streams,          \* ShutdownState.streams, the latest activity last
  active, completed, plan,   \* ShutdownState, and the streams the leader has left
  acks,             \* streams on which OK:disconnected is under way
  goodbyes,         \* DISCONNECTs handed to a writer since the groups were built
  owed,             \* a stream was ready when the client was told to stop
  used,             \* credentials -> generation -> Allocates made with it
  left              \* what is left of the scenario

caches   == <<cur, blocked, generation, issued, used>>
locks    == <<lock, pacer>>
config   == <<guard, inFlight, sent>>
shutdown == <<streams, active, completed, plan, acks, goodbyes>>
process  == <<unavailable, cancel, paused, owed>>
vars     == <<pc, lease, result, caches, locks, config, shutdown, process, left>>

\* run_groups: the groups go round the hashes, and GroupsPerCred of those that share a
\* hash share its credentials.
HashOf(c) == c[1]
CredOf(w) == LET index == w - 1
             IN <<index % left.hashes, (index \div left.hashes) \div GroupsPerCred>>
Creds == (0 .. MaxHashes - 1) \X (0 .. (Groups - 1) \div GroupsPerCred)

Stopped(w) == cancel \/ HashOf(CredOf(w)) \in unavailable   \* its cancellation_token
Running == {"ready", "lead", "follow"}
AllDone == \A w \in Workers : pc[w] = "done"
Spend(k) == left[k] > 0 /\ left' = [left EXCEPT ![k] = @ - 1]
Goto(w, p) == pc' = [pc EXCEPT ![w] = p]

\* unregister: a stream is registered once.
Without(s, w) == IF Contains(s, w) THEN RemoveAt(s, CHOOSE i \in DOMAIN s : s[i] = w) ELSE s

\* cancel.cancel(), and whether the server ought to hear of it.
CancelAll == cancel' = TRUE /\ owed' = (streams # <<>>)

\* The session is over and forgotten.
Leave(w, p) ==
  /\ Goto(w, p)
  /\ lease' = [lease EXCEPT ![w] = None] /\ result' = [result EXCEPT ![w] = "none"]

Init ==
  /\ pc = [w \in Workers |-> "gate"] /\ lease = [w \in Workers |-> None]
  /\ result = [w \in Workers |-> "none"]
  /\ cur = [c \in Creds |-> None] /\ blocked = [c \in Creds |-> 0]
  /\ generation = [c \in Creds |-> 0] /\ issued = [c \in Creds |-> 0]
  /\ used = [c \in Creds |-> <<>>]
  /\ lock = [c \in Creds |-> None] /\ pacer = None
  /\ unavailable = {} /\ cancel = FALSE /\ paused = FALSE /\ owed = FALSE
  /\ guard = {} /\ inFlight = FALSE /\ sent = FALSE
  /\ streams = <<>> /\ active = FALSE /\ completed = FALSE /\ plan = <<>>
  /\ acks = {} /\ goodbyes = 0
  /\ left \in Scenarios

-----------------------------------------------------------------------------
\* CredentialCache.  A lease matches the current credentials when both the
\* generation and the value are the same.

Matches(c, l) == cur[c] # None /\ cur[c].gen = l.gen /\ cur[c].val = l.val

Exhausted(c) == cur[c] # None /\ cur[c].attempts >= Cap

\* reserve: the lease, or none and exhausted credentials dropped.
CanReserve(c) == cur[c] # None /\ ~Exhausted(c)
reserve(w, c) ==
  /\ CanReserve(c)
  /\ cur' = [cur EXCEPT ![c].attempts = @ + 1]
  /\ lease' = [lease EXCEPT ![w] = [val |-> cur[c].val, gen |-> cur[c].gen]]

\* A bug the code does not have: the generation of the lease is not compared.
ReleaseAny(w, c) ==
  /\ cur' = IF cur[c] # None /\ cur[c].attempts > 0
            THEN [cur EXCEPT ![c].attempts = @ - 1] ELSE cur
  /\ lease' = [lease EXCEPT ![w] = None]

\* release: gives the attempt back to the credentials it was taken from.
release(w, c) ==
  /\ cur' = IF Matches(c, lease[w]) /\ cur[c].attempts > 0
            THEN [cur EXCEPT ![c].attempts = @ - 1] ELSE cur
  /\ lease' = [lease EXCEPT ![w] = None]

\* store: credentials the TURN server has refused are not taken a second time.
Refuses(c, v) == blocked[c] # 0 /\ blocked[c] = v
store(c, v) ==
  /\ blocked' = [blocked EXCEPT ![c] = 0]
  /\ generation' = [generation EXCEPT ![c] = @ + 1]
  /\ cur' = [cur EXCEPT ![c] =
               [val |-> v, gen |-> generation[c] + 1, attempts |-> 0, mismatches |-> 0]]
  /\ used' = [used EXCEPT ![c] = Append(@, 0)]

record_allocation(w, c) ==
  cur' = IF Matches(c, lease[w]) THEN [cur EXCEPT ![c].mismatches = 0] ELSE cur

invalidate(w, c) ==
  /\ cur' = IF Matches(c, lease[w]) THEN [cur EXCEPT ![c] = None] ELSE cur
  /\ UNCHANGED blocked

rotate_after_quota(w, c) ==
  IF Matches(c, lease[w])
  THEN cur' = [cur EXCEPT ![c] = None] /\ blocked' = [blocked EXCEPT ![c] = cur[c].val]
  ELSE UNCHANGED <<cur, blocked>>

retry_after_mismatch(w, c) ==
  /\ cur' = IF ~Matches(c, lease[w]) THEN cur
            ELSE IF cur[c].mismatches = 0 THEN [cur EXCEPT ![c].mismatches = 1]
            ELSE [cur EXCEPT ![c] = None]
  /\ UNCHANGED blocked

-----------------------------------------------------------------------------
\* GroupCredentials::get

\* A bug the code does not have: the gate does not look at the cancellation.
GateHolds(w) ==
  /\ pc[w] = "gate" /\ ~paused
  /\ Goto(w, "get")
  /\ UNCHANGED <<lease, result, caches, locks, config, shutdown, process, left>>

\* The head of worker_loop: the pause gate, which a cancelled client leaves.
Gate(w) ==
  /\ pc[w] = "gate"
  /\ ~paused \/ cancel
  /\ Goto(w, IF paused /\ cancel THEN "done" ELSE "get")
  /\ UNCHANGED <<lease, result, caches, locks, config, shutdown, process, left>>

\* Takes the lock of the cohort; leaves it with a lease or keeps it to ask VK.
Get(w) ==
  LET c == CredOf(w)
  IN /\ pc[w] = "get"
     /\ \/ /\ HashOf(c) \in unavailable
           /\ Goto(w, "done") /\ UNCHANGED <<lease, cur, lock>>
        \/ /\ HashOf(c) \notin unavailable /\ lock[c] = None
           /\ reserve(w, c) /\ Goto(w, "start") /\ UNCHANGED lock
        \/ /\ HashOf(c) \notin unavailable /\ lock[c] = None /\ ~CanReserve(c)
           /\ cur' = [cur EXCEPT ![c] = None]
           /\ lock' = [lock EXCEPT ![c] = w] /\ Goto(w, "pace") /\ UNCHANGED lease
     /\ UNCHANGED <<result, blocked, generation, issued, used, pacer, config, shutdown,
                    process, left>>

\* A bug the code does not have: a worker whose request for credentials failed returns.
GiveUpForGood(w) == Goto(w, "done")

\* get returns None: the loop around it stops when there is no point in going on.
GiveUp(w) == Goto(w, IF Stopped(w) THEN "done" ELSE "get")

\* The other credentials of the client are asked for one at a time.
Pace(w) ==
  LET c == CredOf(w)
  IN /\ pc[w] = "pace"
     /\ \/ /\ Stopped(w)
           /\ lock' = [lock EXCEPT ![c] = None] /\ Goto(w, "done") /\ UNCHANGED pacer
        \/ /\ ~Stopped(w) /\ pacer = None
           /\ pacer' = w /\ Goto(w, "fetch") /\ UNCHANGED lock
     /\ UNCHANGED <<lease, result, caches, config, shutdown, process, left>>

\* VkAuth::get_credentials answers, or the client stops.  Both locks are held.
Fetched(w) ==
  LET c == CredOf(w)
      Unlock == lock' = [lock EXCEPT ![c] = None]
  IN /\ pc[w] = "fetch"
     /\ \/ /\ Stopped(w)
           /\ Unlock /\ pacer' = None /\ Goto(w, "done")
           /\ UNCHANGED <<caches, unavailable, left>>
        \/ /\ Spend("fetches")
           /\ \/ \E v \in {issued[c], issued[c] + 1} \ {0} :
                   /\ issued' = [issued EXCEPT ![c] = v]
                   /\ IF Refuses(c, v)
                      THEN Unlock /\ Goto(w, "refused") /\ UNCHANGED <<cur, blocked, generation, used>>
                      ELSE store(c, v) /\ Goto(w, "stored") /\ UNCHANGED lock
                   /\ UNCHANGED <<pacer, unavailable>>
              \/ Goto(w, "failed") /\ UNCHANGED <<caches, locks, unavailable>>
              \/ /\ unavailable' = unavailable \cup {HashOf(c)}
                 /\ Unlock /\ pacer' = None /\ Goto(w, "done") /\ UNCHANGED caches
     /\ UNCHANGED <<lease, result, config, shutdown, cancel, paused, owed>>

\* The sleep that follows: after new credentials, after an error with both locks
\* held, after refused credentials with credential_pacer alone.
Waited(w) ==
  LET c == CredOf(w)
  IN /\ pc[w] \in {"stored", "failed", "refused"}
     /\ pacer' = None
     /\ lock' = IF lock[c] = w THEN [lock EXCEPT ![c] = None] ELSE lock
     /\ IF pc[w] = "stored" /\ ~Stopped(w)
        THEN reserve(w, c) /\ Goto(w, "start")
        ELSE GiveUp(w) /\ UNCHANGED <<lease, cur>>
     /\ UNCHANGED <<result, blocked, generation, issued, used, config, shutdown, process, left>>

-----------------------------------------------------------------------------
\* The session of a worker

\* WorkerStartPacer and the second look at the pause gate, until run_session has
\* sent allocation_started.
Start(w) ==
  LET c == CredOf(w)
  IN /\ pc[w] = "start"
     /\ \/ /\ ~paused /\ ~cancel
           /\ guard' = IF sent \/ inFlight THEN guard ELSE guard \cup {w}
           /\ inFlight' = (inFlight \/ ~sent)
           /\ \/ /\ used' = [used EXCEPT ![c][lease[w].gen] = @ + 1]
                 /\ Goto(w, "connect") /\ UNCHANGED <<result, cur, lease, left>>
              \/ \* No endpoint for the transport: nothing has been started.
                 /\ lock[c] = None /\ Spend("faults")
                 /\ release(w, c) /\ UNCHANGED used
                 /\ result' = [result EXCEPT ![w] = "error"] /\ Goto(w, "ended")
        \/ /\ cancel /\ lock[c] = None
           /\ release(w, c) /\ Goto(w, "done") /\ UNCHANGED <<result, config, used, left>>
     /\ UNCHANGED <<blocked, generation, issued, locks, sent, shutdown, process>>

\* How a session may end in each of its phases.
Failures(p) ==
  CASE p = "connect" -> {"quota", "auth", "mismatch", "error"}
    [] p = "config"  -> {"auth", "mismatch", "fatal", "error"}
    [] p = "ready"   -> {"repair", "reset", "rebind", "auth", "mismatch", "error"}

\* The session ends with an error; drop of ShutdownRegistration and of the worker.
Fail(w) ==
  /\ pc[w] \in {"connect", "config", "ready"}
  /\ pc[w] = "ready" => ~Stopped(w)
  /\ Spend("faults")
  /\ \E r \in Failures(pc[w]) : result' = [result EXCEPT ![w] = r]
  /\ inFlight' = (inFlight /\ ~(pc[w] = "config" /\ w \in guard))
  /\ streams' = Without(streams, w)
  /\ Goto(w, "ended")
  /\ UNCHANGED <<lease, caches, locks, guard, sent, active, completed, plan, acks,
                 goodbyes, process>>

\* Before the session is registered, a cancelled one ends in its grace period.
Abort(w) ==
  /\ pc[w] \in {"connect", "config"} /\ Stopped(w)
  /\ result' = [result EXCEPT ![w] = "ok"] /\ Goto(w, "ended")
  /\ UNCHANGED <<lease, caches, locks, config, shutdown, process, left>>

\* The TURN server has answered Allocate: worker_loop takes the lock of the cohort to
\* record it, and does not run the session meanwhile.
Allocated(w) ==
  /\ pc[w] = "connect" /\ Goto(w, "record")
  /\ UNCHANGED <<lease, result, caches, locks, config, shutdown, process, left>>

Record(w) ==
  /\ pc[w] = "record" /\ lock[CredOf(w)] = None
  /\ record_allocation(w, CredOf(w))
  /\ Goto(w, "config")
  /\ UNCHANGED <<lease, result, blocked, generation, issued, used, locks, config, shutdown,
                 process, left>>

\* request_configuration answered with TUNCONF or NOCONF; the stream is ready.
Configured(w) ==
  /\ pc[w] = "config"
  /\ \E delivered \in BOOLEAN : sent' = (sent \/ (w \in guard /\ delivered))
  /\ inFlight' = (inFlight /\ w \notin guard)
  /\ streams' = IF active THEN streams ELSE Append(streams, w)
  /\ Goto(w, "ready")
  /\ UNCHANGED <<lease, result, caches, locks, guard, active, completed, plan, acks, goodbyes,
                 process, left>>

\* writer_loop has sent a batch: mark_activity.
Activity(w) ==
  /\ pc[w] \in Running /\ Contains(streams, w) /\ Last(streams) # w
  /\ streams' = Append(Without(streams, w), w)
  /\ UNCHANGED <<pc, lease, result, caches, locks, config, active, completed, plan, acks,
                 goodbyes, process, left>>

-----------------------------------------------------------------------------
\* ShutdownCoordinator

\* A bug the code does not have: the registration is dropped before the request.
RequestUnregistered(w) ==
  LET rest == Without(streams, w)
  IN /\ pc[w] = "ready" /\ Stopped(w)
     /\ IF active
        THEN Goto(w, "follow") /\ UNCHANGED <<active, completed, plan>>
        ELSE /\ active' = TRUE /\ completed' = FALSE /\ plan' = Reverse(rest)
             /\ Goto(w, "lead")
     /\ UNCHANGED <<lease, result, caches, locks, config, streams, acks, goodbyes, process, left>>

\* A cancelled session asks for the disconnect: the first one leads.
RequestDisconnect(w) ==
  /\ pc[w] = "ready" /\ Stopped(w)
  /\ IF active
     THEN Goto(w, "follow") /\ UNCHANGED <<active, completed, plan>>
     ELSE /\ active' = TRUE /\ completed' = FALSE
          /\ plan' = SubSeq(Reverse(streams), 1, IF Len(streams) < 2 THEN Len(streams) ELSE 2)
          /\ Goto(w, "lead")
  /\ UNCHANGED <<lease, result, caches, locks, config, streams, acks, goodbyes, process, left>>

\* The leader hands DISCONNECT to the writer of the next stream, if it still has one.
\* The server answers on the same stream, or the request or the answer is lost.
SendDisconnect(w) ==
  /\ pc[w] = "lead" /\ ~completed /\ plan # <<>>
  /\ plan' = Tail(plan)
  /\ IF pc[Head(plan)] \in Running
     THEN /\ goodbyes' = goodbyes + 1
          /\ acks' \in {acks, acks \cup {Head(plan)}}
     ELSE UNCHANGED <<goodbyes, acks>>
  /\ UNCHANGED <<pc, lease, result, caches, locks, config, streams, active, completed, process,
                 left>>

\* observe_control_response of the reader that receives the answer.
Acknowledged(w) ==
  /\ w \in acks /\ acks' = acks \ {w}
  /\ completed' = (completed \/ (pc[w] \in Running /\ active))
  /\ UNCHANGED <<pc, lease, result, caches, locks, config, streams, active, plan, goodbyes,
                 process, left>>

\* The session task returns: the leader completes, a follower has waited for it.
Disconnected(w) ==
  /\ \/ pc[w] = "lead" /\ (completed \/ plan = <<>>) /\ completed' = TRUE
     \/ pc[w] = "follow" /\ completed /\ UNCHANGED completed
  /\ streams' = Without(streams, w)
  /\ result' = [result EXCEPT ![w] = "ok"] /\ Goto(w, "ended")
  /\ UNCHANGED <<lease, caches, locks, config, active, plan, acks, goodbyes, process, left>>

-----------------------------------------------------------------------------
\* worker_loop after the session

\* drop(config_guard), then the returns and the class of the error.
Ended(w) ==
  /\ pc[w] = "ended"
  /\ guard' = guard \ {w} /\ inFlight' = (inFlight /\ w \notin guard)
  /\ \/ Stopped(w) /\ Leave(w, "done") /\ UNCHANGED <<cancel, owed>>
     \/ ~Stopped(w) /\ paused /\ Leave(w, "gate") /\ UNCHANGED <<cancel, owed>>
     \/ /\ ~Stopped(w) /\ ~paused /\ result[w] = "fatal"
        /\ CancelAll /\ Leave(w, "done")
     \/ /\ ~Stopped(w) /\ ~paused /\ result[w] # "fatal"
        /\ Goto(w, "settle") /\ UNCHANGED <<lease, result, cancel, owed>>
  /\ UNCHANGED <<caches, locks, sent, shutdown, unavailable, paused,
                 left>>

\* What the error means for the credentials, and the sleep before the next session.
Settle(w) ==
  LET c == CredOf(w)
  IN /\ pc[w] = "settle"
     /\ IF result[w] \in {"reset", "auth", "quota", "mismatch"}
        THEN /\ lock[c] = None
             /\ CASE result[w] \in {"reset", "auth"} -> invalidate(w, c)
                  [] result[w] = "quota" -> rotate_after_quota(w, c)
                  [] result[w] = "mismatch" -> retry_after_mismatch(w, c)
        ELSE UNCHANGED <<cur, blocked>>
     /\ Leave(w, IF cancel THEN "done" ELSE "gate")
     /\ UNCHANGED <<generation, issued, used, locks, config, shutdown, process, left>>

\* supervise_worker: a panic before the session is isolated, drops the guards the loop
\* held and starts it again.  A panic of the session is one of its errors.
Panic(w) ==
  LET c == CredOf(w)
  IN /\ pc[w] \in {"fetch", "stored", "failed", "refused", "start"}
     /\ Spend("faults")
     /\ lock' = IF lock[c] = w THEN [lock EXCEPT ![c] = None] ELSE lock
     /\ pacer' = IF pacer = w THEN None ELSE pacer
     /\ guard' = guard \ {w} /\ inFlight' = (inFlight /\ w \notin guard)
     /\ Leave(w, IF cancel THEN "done" ELSE "gate")
     /\ UNCHANGED <<caches, sent, shutdown, process>>

-----------------------------------------------------------------------------
\* main

\* start_control_input: PAUSE, RESUME, STOP, or the end of the channel.
ControlInput ==
  /\ Spend("inputs") /\ ~cancel
  /\ \/ CancelAll /\ UNCHANGED paused
     \/ paused' = ~paused /\ UNCHANGED <<cancel, owed>>
  /\ UNCHANGED <<pc, lease, result, caches, locks, config, shutdown, unavailable>>

\* A signal, or another parent process.
Signalled ==
  /\ Spend("inputs") /\ ~cancel /\ CancelAll
  /\ UNCHANGED <<pc, lease, result, caches, locks, config, shutdown, unavailable, paused>>

\* config_task runs the hook for the configuration it has received; the hook fails.
HookFails ==
  /\ sent /\ Spend("faults") /\ ~cancel /\ CancelAll
  /\ UNCHANGED <<pc, lease, result, caches, locks, config, shutdown, unavailable, paused>>

\* Every group has returned by itself: below an open listener all is built anew.
Rebuild ==
  /\ AllDone /\ ~cancel /\ left.keep
  /\ Spend("builds")
  /\ pc' = [w \in Workers |-> "gate"]
  /\ cur' = [c \in Creds |-> None] /\ blocked' = [c \in Creds |-> 0]
  /\ generation' = [c \in Creds |-> 0] /\ used' = [c \in Creds |-> <<>>]
  /\ unavailable' = {} /\ inFlight' = FALSE /\ sent' = FALSE /\ guard' = {}
  /\ active' = FALSE /\ completed' = FALSE /\ plan' = <<>> /\ acks' = {} /\ goodbyes' = 0
  /\ UNCHANGED <<lease, result, issued, locks, streams, cancel, paused, owed>>

\* Otherwise run stops the rest of the client and returns.
Finish ==
  /\ AllDone /\ ~cancel /\ ~left.keep
  /\ CancelAll
  /\ UNCHANGED <<pc, lease, result, caches, locks, config, shutdown, unavailable, paused, left>>

Worker(w) ==
  \/ Gate(w) \/ Get(w) \/ Pace(w) \/ Fetched(w) \/ Waited(w) \/ Start(w)
  \/ Allocated(w) \/ Record(w) \/ Configured(w) \/ Fail(w) \/ Abort(w)
  \/ RequestDisconnect(w) \/ SendDisconnect(w) \/ Disconnected(w)
  \/ Ended(w) \/ Settle(w)

Next ==
  \/ \E w \in Workers : Worker(w) \/ Activity(w) \/ Acknowledged(w) \/ Panic(w)
  \/ ControlInput \/ Signalled \/ HookFails \/ Rebuild \/ Finish

-----------------------------------------------------------------------------
\* Fairness: the runtime polls every task, and every wait of a worker ends, by an answer
\* or by its timeout.  Nobody has to press STOP and nothing has to fail.
Spec == Init /\ [][Next]_vars /\ \A w \in Workers : WF_vars(Worker(w))

\* What the pool of CredentialPool is here: the leases are those whose session has not
\* been started.
Valid == [c \in Creds |-> cur[c] # None]
Lessees(c, g) ==
  {w \in Workers : CredOf(w) = c /\ pc[w] = "start" /\ lease[w] # None /\ lease[w].gen = g}
Leased == [c \in Creds |-> [g \in 1 .. generation[c] |-> Cardinality(Lessees(c, g))]]

\* The credential cache implements the bounded pool the TURN service is promised: late
\* releases and rotations of an older generation never give room to a newer one, and no
\* set of credentials is used for more than WORKERS_PER_CREDENTIAL allocations.
Pool == INSTANCE CredentialPool WITH
  Cohorts <- Creds, newest <- generation, valid <- Valid, leased <- Leased
PoolSpec == Pool!Spec

\* A worker gives up only when the client stops or the call it depends on is gone:
\* the failure of one hash stops its own groups and no other.
OthersKeepGoing ==
  \A w \in Workers : pc[w] = "done" => cancel \/ HashOf(CredOf(w)) \in unavailable

\* A client that stops while a stream is ready tells the server so before its last
\* worker is gone, whichever session leads and however the sessions end.
SaysGoodbye ==
  AllDone /\ cancel /\ owed /\ unavailable = {} => goodbyes > 0

\* A stopped client ends: no worker stays behind at the pause gate, at a lock another
\* one holds, or waiting for a disconnect nobody leads.
StopEnds == cancel ~> AllDone

\* The server is told to drop the sessions of the device only when the client stops or
\* none of its hashes is left ("the failure of one hash cancels only the groups that
\* belong to it and does not stop working groups of other hashes").
DisconnectMeansStop == goodbyes > 0 => \A w \in Workers : Stopped(w)
-----------------------------------------------------------------------------
(***************************************************************************)
(* The inductive invariant.  The credentials: whoever asks VK holds the    *)
(* lock of a cohort that has none, a lease is never newer than them, and   *)
(* the attempts they count cover every lease and every Allocate.  The      *)
(* goodbye: until it is sent, a stream of the plan or of the coordinator   *)
(* still runs.                                                             *)
(***************************************************************************)
Places == {"gate", "get", "pace", "fetch", "stored", "failed", "refused", "start", "connect",
           "record", "config", "ready", "lead", "follow", "ended", "settle", "done"}

WorkersOK == pc \in [Workers -> Places] /\ lease \in [Workers -> Leases \cup {None}]
CachesOK ==
  /\ cur \in [Creds -> Cached \cup {None}] /\ blocked \in [Creds -> Nat]
  /\ generation \in [Creds -> Nat] /\ issued \in [Creds -> Nat] /\ used \in [Creds -> Seq(Nat)]
LocksOK == lock \in [Creds -> Workers \cup {None}]
ShutdownOK ==
  streams \in Seq(Workers) /\ plan \in Seq(Workers) /\ acks \subseteq Workers /\ goodbyes \in Nat
ScenarioOK ==
  left \in [hashes : 1 .. MaxHashes, fetches : Nat, faults : Nat, inputs : Nat, builds : Nat,
            keep : BOOLEAN]
TypeOK == WorkersOK /\ CachesOK /\ LocksOK /\ ShutdownOK /\ ScenarioOK

Asking == {"pace", "fetch"}
Locked == \A w \in Workers : pc[w] \in Asking \cup {"stored", "failed"} => lock[CredOf(w)] = w
Dropped == \A w \in Workers : pc[w] \in Asking => cur[CredOf(w)] = None

Numbered ==
  \A c \in Creds : /\ Len(used[c]) = generation[c]
                   /\ cur[c] # None => cur[c].gen = generation[c] /\ generation[c] > 0
Lent ==
  \A w \in Workers :
    pc[w] = "start" => lease[w] # None /\ lease[w].gen \in 1 .. generation[CredOf(w)]

Taken(c, g) == Leased[c][g] + used[c][g]
Attempts ==
  \A c \in Creds :
    /\ cur[c] # None => Taken(c, generation[c]) <= cur[c].attempts /\ cur[c].attempts <= Cap
    /\ \A g \in 1 .. generation[c] : Taken(c, g) <= Cap

Registered ==
  /\ \A i \in DOMAIN streams : pc[streams[i]] \in Running
  /\ \A i, j \in DOMAIN streams : streams[i] = streams[j] => i = j
Led == \A w \in Workers : pc[w] \in {"lead", "follow"} => active
Unasked == unavailable = {} /\ ~cancel => ~active /\ ~completed /\ acks = {}
Farewell ==
  cancel /\ owed /\ unavailable = {} /\ goodbyes = 0
    => /\ ~completed /\ acks = {}
       /\ active => plan # <<>> /\ pc[Head(plan)] \in Running
       /\ ~active => streams # <<>>

PoolInv == TypeOK /\ Locked /\ Dropped /\ Numbered /\ Lent /\ Attempts
GoodbyeInv == TypeOK /\ Registered /\ Led /\ Unasked /\ Farewell
IInv == PoolInv /\ GoodbyeInv /\ OthersKeepGoing
=============================================================================
