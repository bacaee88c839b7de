---------------------------- MODULE DbPersistence ----------------------------
(***************************************************************************)
(* The database of rust-server: App.db in memory, the PersistenceQueue,    *)
(* the csqtt-db-writer thread, the SQLite file, and the callers of         *)
(* DatabasePersistence::wait (rust-server/model.rs, web_panel.rs).         *)
(*                                                                         *)
(* A change is made and its snapshot queued under the lock of App.db; the  *)
(* writer takes one update at a time and writes it in a transaction that   *)
(* may fail; a request handler waits for its revision and answers.  The    *)
(* traffic flush reads the counters under the lock and queues them after   *)
(* it has let go of it.                                                    *)
(*                                                                         *)
(* A database is abstracted to the number of structural changes it has     *)
(* seen, the keys (rows of passwords) it holds and one byte counter a row. *)
(***************************************************************************)
EXTENDS Naturals, Sequences

CONSTANTS
  Keys,         \* the passwords of the clients
  Requests,     \* requests of the panel that change the database
  Flushers,     \* tasks that call flush_traffic
  Files,        \* LEGACY_DATABASE_FILES: databases of the retired JSON format
  MaxChanges,   \* structural changes the model explores
  MaxBytes,     \* traffic per key the model explores
  MaxRestarts   \* restarts of the process the model explores

ASSUME DbPersistenceAssumption ==
  /\ MaxChanges \in Nat /\ MaxBytes \in Nat /\ MaxRestarts \in Nat

VARIABLES
  mem,         \* App.db
  disk,        \* what read_database_snapshot would return
  pending,     \* PersistenceQueue.pending: <<[rev, upd], ...>>
  next_revision, processed, successful,
  writer,      \* the csqtt-db-writer thread
  pc,          \* where each request is
  rev,         \* the revision a request waits for
  ver,         \* the change it made
  woken,       \* its Notified future has been notified
  flush,       \* the counters a flusher is about to queue, or Idle
  known,       \* every key there has been: a password is random and never comes back
  spoiled,     \* requests whose snapshot, or a later one, failed to be written
  restarts,
  boot,        \* where load_database is, or "up"
  files,       \* the retired files there are, with the keys each holds
  clash,       \* files whose rows differ from the ones of the same key in SQLite
  legacy,      \* every key a retired file held
  dropped      \* keys that were removed from App.db

queue  == <<pending, next_revision, processed, successful>>
caller == <<pc, rev, ver, woken, spoiled>>
startup == <<boot, files, clash, legacy>>
vars   == <<mem, disk, queue, writer, caller, flush, known, restarts, startup, dropped>>

-----------------------------------------------------------------------------
Snapshot(db)  == [kind |-> "snapshot", db |-> db]
Traffic(rows) == [kind |-> "traffic", rows |-> rows]

\* Where a request is while it waits for its revision.
Waiting == {"wait", "check", "checked", "asleep"}

NoRows == [k \in {} |-> 0]
Idle   == NoRows   \* is_empty: nothing to queue

\* One structural change: rows added, touched or removed.
Changed(db, live) == [ver |-> db.ver + 1, live |-> live,
                      bytes |-> [k \in Keys |-> IF k \in live THEN db.bytes[k] ELSE 0]]

\* The keys of the retired files that have not been removed.
InFiles == UNION {files[f] : f \in DOMAIN files}

Init ==
  /\ \E live \in SUBSET Keys :
       mem = [ver |-> 0, live |-> live, bytes |-> [k \in Keys |-> 0]]
  /\ disk = mem
  /\ files \in UNION {[F -> SUBSET Keys] : F \in SUBSET Files}
  /\ clash \in SUBSET DOMAIN files
  /\ legacy = InFiles /\ known = mem.live \cup legacy /\ dropped = {}
  /\ boot = "load"
  /\ pending = <<>> /\ next_revision = 0 /\ processed = 0 /\ successful = 0
  /\ writer = [at |-> "idle"]
  /\ pc = [c \in Requests |-> "start"]
  /\ rev = [c \in Requests |-> 0] /\ ver = [c \in Requests |-> 0]
  /\ woken = [c \in Requests |-> FALSE] /\ spoiled = {}
  /\ flush = [f \in Flushers |-> Idle]
  /\ restarts = 0

-----------------------------------------------------------------------------
\* PersistenceQueue

submit_snapshot(db) ==
  /\ next_revision' = next_revision + 1
  /\ pending' = <<[rev |-> next_revision + 1, upd |-> Snapshot(db)]>>

\* TrafficSnapshot::merge_from: the rows of both, the newer counters where both have one.
merge_from(older, newer) ==
  [k \in DOMAIN newer \cup DOMAIN older |-> IF k \in DOMAIN newer THEN newer[k] ELSE older[k]]

\* Traffic is merged into a queued traffic update at the back, newer rows first.
submit_traffic(rows) ==
  LET n      == Len(pending)
      merges == n > 0 /\ pending[n].upd.kind = "traffic"
      front  == IF merges THEN SubSeq(pending, 1, n - 1) ELSE pending
      older  == IF merges THEN pending[n].upd.rows ELSE NoRows
  IN /\ next_revision' = next_revision + 1
     /\ pending' = Append(front, [rev |-> next_revision + 1, upd |-> Traffic(merge_from(older, rows))])

-----------------------------------------------------------------------------
\* Changes

\* The keys of App.db become live and its snapshot is submitted, under the lock;
\* the handler then waits for the revision.
ChangeAndWait(c, live) ==
  /\ boot = "up" /\ pc[c] = "start" /\ mem.ver < MaxChanges
  /\ mem' = Changed(mem, live) /\ known' = known \cup live
  /\ dropped' = dropped \cup (mem.live \ live)
  /\ submit_snapshot(Changed(mem, live))
  /\ rev' = [rev EXCEPT ![c] = next_revision + 1]
  /\ ver' = [ver EXCEPT ![c] = mem.ver + 1]
  /\ pc'  = [pc EXCEPT ![c] = "wait"]
  /\ UNCHANGED <<disk, processed, successful, writer, woken, spoiled, flush, restarts, startup>>

\* A new random key; the expired ones go.
clients_create(c) ==
  \E k \in Keys \ known, expired \in SUBSET mem.live :
    ChangeAndWait(c, (mem.live \ expired) \cup {k})

\* client_update, client_toggle and client_unbind: NOT_FOUND without the key.
client_update(c) == mem.live # {} /\ ChangeAndWait(c, mem.live)

client_delete(c) == \E k \in mem.live : ChangeAndWait(c, mem.live \ {k})

settings_post(c) == ChangeAndWait(c, mem.live)

\* local_proxy_create, _update, _delete, _activate, _deactivate and logs_toggle.
local_proxy_update(c) == ChangeAndWait(c, mem.live)

\* A change whose snapshot nobody waits for.
Change(live) ==
  /\ boot = "up" /\ mem.ver < MaxChanges
  /\ mem' = Changed(mem, live) /\ dropped' = dropped \cup (mem.live \ live)
  /\ submit_snapshot(Changed(mem, live))
  /\ UNCHANGED <<disk, processed, successful, writer, caller, flush, known, restarts, startup>>

\* A device is bound, added or moved to another epoch.
handle_getconf == Change(mem.live)

run_password_janitor_cycle == \E k \in mem.live : Change(mem.live \ {k})

\* flush_traffic, under the lock: the traffic of the sessions goes to the rows of
\* their keys, and the absolute counters of those rows are remembered.
FlushRead(f) ==
  /\ boot = "up" /\ flush[f] = Idle
  /\ \E K \in SUBSET mem.live \ {{}} :
       /\ \A k \in K : mem.bytes[k] < MaxBytes
       /\ mem' = [mem EXCEPT !.bytes = [k \in Keys |-> IF k \in K THEN @[k] + 1 ELSE @[k]]]
       /\ flush' = [flush EXCEPT ![f] = [k \in K |-> mem.bytes[k] + 1]]
  /\ UNCHANGED <<disk, queue, writer, caller, known, restarts, startup, dropped>>

\* flush_traffic, after drop(db).
FlushSubmit(f) ==
  /\ flush[f] # Idle
  /\ submit_traffic(flush[f])
  /\ flush' = [flush EXCEPT ![f] = Idle]
  /\ UNCHANGED <<mem, disk, processed, successful, writer, caller, known, restarts, startup, dropped>>

-----------------------------------------------------------------------------
\* database_persistence_worker

\* A bug the code does not have: the newest update is taken first.
TakeNewest ==
  /\ writer.at = "idle" /\ pending # <<>>
  /\ writer' = [at |-> "writing", job |-> pending[Len(pending)]]
  /\ pending' = SubSeq(pending, 1, Len(pending) - 1)
  /\ UNCHANGED <<mem, disk, next_revision, processed, successful, caller, flush, known, restarts, startup, dropped>>

take_pending ==
  /\ writer.at = "idle" /\ pending # <<>>
  /\ writer' = [at |-> "writing", job |-> Head(pending)]
  /\ pending' = Tail(pending)
  /\ UNCHANGED <<mem, disk, next_revision, processed, successful, caller, flush, known, restarts, startup, dropped>>

\* A bug the code does not have: a missing row is inserted.
UpsertTraffic(db, rows) ==
  [db EXCEPT !.live = @ \cup DOMAIN rows,
             !.bytes = [k \in Keys |-> IF k \in DOMAIN rows THEN rows[k] ELSE @[k]]]

\* UPDATE ... WHERE password = ...: a missing row is a no-op.
write_traffic(db, rows) ==
  [db EXCEPT !.bytes = [k \in Keys |-> IF k \in DOMAIN rows \cap db.live THEN rows[k] ELSE @[k]]]

\* The transaction commits.
PersistOk ==
  /\ writer.at = "writing"
  /\ disk' = IF writer.job.upd.kind = "snapshot" THEN writer.job.upd.db
             ELSE write_traffic(disk, writer.job.upd.rows)
  /\ writer' = [at |-> "done", rev |-> writer.job.rev, ok |-> TRUE]
  /\ UNCHANGED <<mem, queue, caller, flush, known, restarts, startup, dropped>>

\* The file cannot be opened or the transaction fails: the update is gone.
PersistFails ==
  /\ writer.at = "writing"
  /\ writer' = [at |-> "done", rev |-> writer.job.rev, ok |-> FALSE]
  /\ spoiled' = spoiled \cup {c \in Requests : /\ writer.job.upd.kind = "snapshot"
                                               /\ pc[c] \in Waiting
                                               /\ rev[c] <= writer.job.rev}
  /\ UNCHANGED <<mem, disk, queue, pc, rev, ver, woken, flush, known, restarts, startup, dropped>>

Larger(a, b) == IF a < b THEN b ELSE a

\* complete, under the lock of the queue.
complete ==
  /\ writer.at = "done"
  /\ processed' = Larger(processed, writer.rev)
  /\ successful' = IF writer.ok THEN Larger(successful, writer.rev) ELSE successful
  /\ writer' = [at |-> "notify"]
  /\ UNCHANGED <<mem, disk, pending, next_revision, caller, flush, known, restarts, startup, dropped>>

\* notify_waiters wakes every Notified future that exists.
notify_waiters ==
  /\ writer.at = "notify"
  /\ woken' = [c \in Requests |-> woken[c] \/ pc[c] \in Waiting \ {"wait"}]
  /\ writer' = [at |-> "idle"]
  /\ UNCHANGED <<mem, disk, queue, pc, rev, ver, spoiled, flush, known, restarts, startup, dropped>>

-----------------------------------------------------------------------------
\* DatabasePersistence::wait and the answer of the handler

\* notified(): from here on notify_waiters reaches the future.
WaitRegister(c) ==
  /\ pc[c] = "wait"
  /\ woken' = [woken EXCEPT ![c] = FALSE]
  /\ pc' = [pc EXCEPT ![c] = "check"]
  /\ UNCHANGED <<mem, disk, queue, writer, rev, ver, spoiled, flush, known, restarts, startup, dropped>>

\* The revisions are read under the lock of the queue.
WaitCheck(c) ==
  /\ pc[c] = "check"
  /\ pc' = [pc EXCEPT ![c] = IF successful >= rev[c] THEN "ok"
                             ELSE IF processed >= rev[c] THEN "error"
                             ELSE "checked"]
  /\ UNCHANGED <<mem, disk, queue, writer, rev, ver, woken, spoiled, flush, known, restarts, startup, dropped>>

\* A bug the code does not have: the future is made here, after the check.
SleepLate(c) ==
  /\ pc[c] = "checked"
  /\ pc' = [pc EXCEPT ![c] = "asleep"]
  /\ woken' = [woken EXCEPT ![c] = FALSE]
  /\ UNCHANGED <<mem, disk, queue, writer, rev, ver, spoiled, flush, known, restarts, startup, dropped>>

\* notified.await
WaitSleep(c) ==
  /\ pc[c] = "checked"
  /\ pc' = [pc EXCEPT ![c] = IF woken[c] THEN "wait" ELSE "asleep"]
  /\ UNCHANGED <<mem, disk, queue, writer, rev, ver, woken, spoiled, flush, known, restarts, startup, dropped>>

WaitWake(c) ==
  /\ pc[c] = "asleep" /\ woken[c]
  /\ pc' = [pc EXCEPT ![c] = "wait"]
  /\ UNCHANGED <<mem, disk, queue, writer, rev, ver, woken, spoiled, flush, known, restarts, startup, dropped>>

\* wait_for_persistence gives up after 15 s.  settings_post never does, so no
\* property below counts on it and it has no fairness.
WaitTimeout(c) ==
  /\ pc[c] \in Waiting
  /\ pc' = [pc EXCEPT ![c] = "timeout"]
  /\ UNCHANGED <<mem, disk, queue, writer, rev, ver, woken, spoiled, flush, known, restarts, startup, dropped>>

\* The process dies at any moment and starts again: the queue is new and the
\* requests in progress are cut off.
Restart ==
  /\ restarts < MaxRestarts /\ restarts' = restarts + 1
  /\ boot' = "load"
  /\ pending' = <<>> /\ next_revision' = 0 /\ processed' = 0 /\ successful' = 0
  /\ writer' = [at |-> "idle"]
  /\ pc' = [c \in Requests |-> IF pc[c] \in Waiting THEN "cut" ELSE pc[c]]
  /\ flush' = [f \in Flushers |-> Idle]
  /\ UNCHANGED <<mem, disk, rev, ver, woken, spoiled, known, files, clash, legacy, dropped>>

-----------------------------------------------------------------------------
\* load_database, before anything of the server runs

Loading == UNCHANGED <<queue, writer, caller, flush, known, restarts, clash, legacy, dropped>>

\* Without retired files the SQLite file is read, and main saves it back.
LoadSqlite ==
  /\ boot = "load" /\ DOMAIN files = {}
  /\ mem' = disk /\ boot' = "up"
  /\ Loading /\ UNCHANGED <<disk, files>>

\* The rows of one file, in one transaction: INSERT ... ON CONFLICT DO NOTHING.
import_legacy_database_rows(f) ==
  disk' = [disk EXCEPT !.live = @ \cup files[f]]

\* Every file is read, then imported. What cannot be read ends the process, and the
\* service manager starts it again.
ImportFile(f) ==
  /\ boot = "load" /\ f \in DOMAIN files
  /\ import_legacy_database_rows(f) /\ UNCHANGED files
  /\ Loading /\ UNCHANGED <<mem, boot>>

\* A bug the code does not have: the files go without a look at what was imported.
VerifyNothing ==
  /\ boot = "load" /\ DOMAIN files # {}
  /\ mem' = disk /\ boot' = "remove"
  /\ Loading /\ UNCHANGED <<disk, files>>

\* The rows are read back and compared; a difference ends the process with the files in place.
verify_legacy_database_rows ==
  /\ boot = "load" /\ DOMAIN files # {} /\ InFiles \subseteq disk.live /\ clash = {}
  /\ mem' = disk /\ boot' = "remove"
  /\ Loading /\ UNCHANGED <<disk, files>>

\* A file that cannot be removed ends the process: the others stay too.
RemoveFile(f) ==
  /\ boot = "remove" /\ f \in DOMAIN files
  /\ \/ /\ files' = [g \in DOMAIN files \ {f} |-> files[g]]
        /\ boot' = IF DOMAIN files = {f} THEN "up" ELSE "remove"
     \/ boot' = "load" /\ UNCHANGED files
  /\ Loading /\ UNCHANGED <<mem, disk>>

Load == \/ LoadSqlite \/ verify_legacy_database_rows
        \/ \E f \in Files : ImportFile(f) \/ RemoveFile(f)

Request(c) == \/ clients_create(c) \/ client_update(c) \/ client_delete(c)
              \/ settings_post(c) \/ local_proxy_update(c)
Writer == take_pending \/ PersistOk \/ PersistFails \/ complete \/ notify_waiters
Wait(c) == WaitRegister(c) \/ WaitCheck(c) \/ WaitSleep(c) \/ WaitWake(c)

Next ==
  \/ handle_getconf \/ run_password_janitor_cycle \/ Writer \/ Restart \/ Load
  \/ \E c \in Requests : Request(c) \/ Wait(c) \/ WaitTimeout(c)
  \/ \E f \in Flushers : FlushRead(f) \/ FlushSubmit(f)

Spec == Init /\ [][Next]_vars

\* The writer thread never ends, and the runtime polls a woken task.
FairSpec == Spec /\ WF_vars(Writer) /\ \A c \in Requests : WF_vars(Wait(c))

-----------------------------------------------------------------------------
\* web_panel.rs: a request that was answered with success is in the file, and a
\* restart finds it there.
AckedIsDurable == \A c \in Requests : pc[c] = "ok" => disk.ver >= ver[c]

\* The same for every request whose own or a later snapshot did not fail: neither
\* superseding queued snapshots nor traffic overtaking them answers too early.
AckedUnlessFailed == \A c \in Requests : pc[c] = "ok" => disk.ver >= ver[c] \/ c \in spoiled

\* A removed key that is still in the file is there because the change that removed
\* it has not been written: write_traffic never brings a key back, even when its
\* counters were read before the removal and are written after it.
RemovedStaysRemoved ==
  boot = "up" => \A k \in disk.live \ mem.live : disk.ver < mem.ver

\* The move from the retired JSON files loses no key and brings none back, wherever the
\* process dies: a key of such a file is in SQLite or still in a file until somebody removes
\* it from App.db, and one that was removed is in no file that a later start would import.
LegacyIsKept ==
  /\ legacy \subseteq disk.live \cup InFiles \cup dropped
  /\ dropped \cap InFiles = {}

\* A wake-up is never lost between the check of the revisions and the sleep: every
\* waiting request is answered without the help of a timeout, or cut off by a restart.
Answered == \A c \in Requests : pc[c] = "wait" ~> pc[c] \in {"ok", "error", "timeout", "cut"}
-----------------------------------------------------------------------------
(***************************************************************************)
(* The inductive invariant behind the three safety properties: what is in  *)
(* the queue and with the writer is in the order of the changes, between   *)
(* the file and App.db.                                                    *)
(***************************************************************************)
Database == [ver : Nat, live : SUBSET Keys, bytes : [Keys -> 0 .. MaxBytes]]
Rows == UNION {[K -> 0 .. MaxBytes] : K \in SUBSET Keys}
Jobs == [rev : Nat, upd : [kind : {"snapshot"}, db : Database] \cup [kind : {"traffic"}, rows : Rows]]
Writers == [at : {"idle", "notify"}] \cup [at : {"writing"}, job : Jobs]
             \cup [at : {"done"}, rev : Nat, ok : BOOLEAN]

TypeOK ==
  /\ mem \in Database /\ disk \in Database
  /\ pending \in Seq(Jobs) /\ writer \in Writers
  /\ next_revision \in Nat /\ processed \in Nat /\ successful \in Nat
  /\ pc \in [Requests -> Waiting \cup {"start", "ok", "error", "timeout", "cut"}]
  /\ rev \in [Requests -> Nat] /\ ver \in [Requests -> Nat]
  /\ woken \in [Requests -> BOOLEAN] /\ spoiled \subseteq Requests
  /\ flush \in [Flushers -> Rows]
  /\ boot \in {"load", "remove", "up"}
  /\ files \in UNION {[F -> SUBSET Keys] : F \in SUBSET Files}
  /\ legacy \subseteq Keys /\ dropped \subseteq Keys

\* The queue is a snapshot, the traffic that came after it, both or neither.
QueueShape ==
  /\ Len(pending) <= 2
  /\ Len(pending) = 2 => pending[1].upd.kind = "snapshot" /\ pending[2].upd.kind = "traffic"

\* Before the server is up nobody uses the database.
QuietStart ==
  boot # "up" => /\ pending = <<>> /\ writer.at = "idle"
                 /\ \A f \in Flushers : flush[f] = Idle
                 /\ \A c \in Requests : pc[c] \notin Waiting

\* A snapshot is being written; one is queued.
Writing == writer.at = "writing" /\ writer.job.upd.kind = "snapshot"
Queued  == pending # <<>> /\ pending[1].upd.kind = "snapshot"

\* A database that is no newer than App.db, and has no key App.db has lost unless it is
\* older; what a retired file held is in it or was removed from App.db.
Older(db) ==
  /\ db.ver <= mem.ver /\ (db.ver = mem.ver => db.live \subseteq mem.live)
  /\ legacy \subseteq db.live \cup dropped

Ordered ==
  boot = "up" =>
    /\ DOMAIN files = {} /\ Older(mem) /\ Older(disk)
    /\ Writing => Older(writer.job.upd.db) /\ disk.ver <= writer.job.upd.db.ver
    /\ Queued => Older(pending[1].upd.db) /\ disk.ver <= pending[1].upd.db.ver
    /\ Writing /\ Queued => writer.job.upd.db.ver <= pending[1].upd.db.ver

Imported ==
  /\ dropped \cap InFiles = {}
  /\ boot # "up" => legacy \subseteq disk.live \cup InFiles \cup dropped
  /\ boot = "remove" => mem = disk /\ InFiles \subseteq disk.live

\* Nothing has a revision that was not given out yet.
Issued ==
  /\ successful <= next_revision
  /\ \A i \in 1 .. Len(pending) : pending[i].rev <= next_revision
  /\ writer.at = "writing" => writer.job.rev <= next_revision
  /\ writer.at = "done" => writer.rev <= next_revision
  /\ \A c \in Requests : pc[c] \in Waiting => rev[c] <= next_revision /\ ver[c] <= mem.ver

\* The change of a waiting request is in the file, or its write has failed, or a snapshot
\* with it is still to be written and no revision as late as its own has succeeded.
Pending(c) ==
  /\ successful < rev[c]
  /\ \/ Writing /\ rev[c] <= writer.job.rev /\ ver[c] <= writer.job.upd.db.ver
     \/ /\ Queued /\ rev[c] <= pending[1].rev /\ ver[c] <= pending[1].upd.db.ver
        /\ writer.at = "writing" => writer.job.rev < rev[c]
        /\ writer.at = "done" => writer.rev < rev[c]

Covered ==
  \A c \in Requests :
    /\ pc[c] = "ok" => ver[c] <= disk.ver \/ c \in spoiled
    /\ pc[c] \in Waiting => ver[c] <= disk.ver \/ c \in spoiled \/ Pending(c)

IInv == TypeOK /\ QueueShape /\ QuietStart /\ Ordered /\ Imported /\ Issued /\ Covered
=============================================================================
