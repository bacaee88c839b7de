------------------------- MODULE ServerParts_proofs -------------------------
(***************************************************************************)
(* Proofs about two parts of the server, which share nothing.              *)
(*                                                                         *)
(* DbPersistence: whatever is queued, superseded, merged, fails or is cut  *)
(* short, an acknowledged change is in the file unless its own write       *)
(* failed, no removed key comes back, and the import of retired files      *)
(* loses none.                                                             *)
(*                                                                         *)
(* TransparentProxy: rules of the kernel lead to the route there is,       *)
(* whatever failed half-way, and the quotas of the engine in the child     *)
(* process are what is held.                                               *)
(***************************************************************************)
EXTENDS DbPersistence, TransparentProxy, Integers, SequenceTheorems, FiniteSetTheorems, TLAPS

-----------------------------------------------------------------------------
\* DbPersistence

USE DbPersistenceAssumption

\* What a snapshot of a changed App.db is, and that it is newer than every other.
LEMMA ChangedDatabase ==
  ASSUME NEW db \in Database, NEW live \in SUBSET Keys
  PROVE  /\ Changed(db, live) \in Database
         /\ Changed(db, live).ver = db.ver + 1 /\ Changed(db, live).live = live
BY DEF Database, Changed

\* A job of the queue is a snapshot or traffic.
LEMMA JobKinds ==
  ASSUME NEW j \in Jobs
  PROVE  /\ j.rev \in Nat /\ j.upd.kind \in {"snapshot", "traffic"}
         /\ j.upd.kind = "snapshot" => j.upd.db \in Database
         /\ j.upd.kind = "traffic" => j.upd.rows \in Rows
BY DEF Jobs

LEMMA SnapshotJob ==
  ASSUME NEW db \in Database, NEW n \in Nat
  PROVE  [rev |-> n, upd |-> Snapshot(db)] \in Jobs
BY DEF Jobs, Snapshot

LEMMA TrafficJob ==
  ASSUME NEW rows \in Rows, NEW n \in Nat
  PROVE  [rev |-> n, upd |-> Traffic(rows)] \in Jobs
BY DEF Jobs, Traffic

\* Merged rows are rows.
LEMMA MergedRows ==
  ASSUME NEW a \in Rows, NEW b \in Rows
  PROVE  merge_from(a, b) \in Rows
<1>1. PICK A \in SUBSET Keys : a \in [A -> 0 .. MaxBytes]
  BY DEF Rows
<1>2. PICK B \in SUBSET Keys : b \in [B -> 0 .. MaxBytes]
  BY DEF Rows
<1>3. merge_from(a, b) \in [A \cup B -> 0 .. MaxBytes]
  BY <1>1, <1>2 DEF merge_from
<1> QED
  BY <1>3 DEF Rows

LEMMA WriterKinds ==
  ASSUME NEW w \in Writers
  PROVE  /\ w.at \in {"idle", "notify", "writing", "done"}
         /\ w.at = "writing" => w.job \in Jobs
         /\ w.at = "done" => w.rev \in Nat /\ w.ok \in BOOLEAN
BY DEF Writers

\* Only the changed keys of the rows there are get other counters.
LEMMA TrafficWritten ==
  ASSUME NEW db \in Database, NEW rows \in Rows
  PROVE  /\ write_traffic(db, rows) \in Database
         /\ write_traffic(db, rows).ver = db.ver /\ write_traffic(db, rows).live = db.live
<1>1. PICK K \in SUBSET Keys : rows \in [K -> 0 .. MaxBytes]
  BY DEF Rows
<1> QED
  BY <1>1 DEF write_traffic, Database

LEMMA Initially == Init => IInv
<1> SUFFICES ASSUME Init PROVE IInv
  OBVIOUS
<1>1. TypeOK
  <2>1. NoRows \in Rows
    <3>1. NoRows \in [{} -> 0 .. MaxBytes]
      BY DEF NoRows
    <3> QED
      BY <3>1 DEF Rows
  <2>2. legacy \subseteq Keys
    BY DEF Init, InFiles
  <2> QED
    BY <2>1, <2>2 DEF Init, TypeOK, Database, Writers, Waiting, Idle
<1>2. QueueShape /\ QuietStart /\ Ordered /\ Imported /\ Issued /\ Covered
  BY DEF Init, QueueShape, QuietStart, Ordered, Imported, Issued, Covered, Waiting
<1> QED
  BY <1>1, <1>2 DEF IInv

-----------------------------------------------------------------------------
\* A change of App.db queues a snapshot newer than everything there is.
LEMMA SubmitSnapshot ==
  ASSUME IInv, boot = "up", NEW live \in SUBSET Keys,
         mem' = Changed(mem, live), dropped' = dropped \cup (mem.live \ live),
         submit_snapshot(Changed(mem, live)),
         UNCHANGED <<disk, processed, successful, writer, woken, spoiled, flush, restarts, startup>>,
         \/ UNCHANGED <<pc, rev, ver>>
         \/ \E c \in Requests :
              /\ pc[c] = "start" /\ pc' = [pc EXCEPT ![c] = "wait"]
              /\ rev' = [rev EXCEPT ![c] = next_revision + 1]
              /\ ver' = [ver EXCEPT ![c] = mem.ver + 1]
  PROVE  IInv'
<1>1. /\ mem \in Database /\ next_revision \in Nat /\ writer \in Writers
      /\ pc \in [Requests -> Waiting \cup {"start", "ok", "error", "timeout", "cut"}]
      /\ rev \in [Requests -> Nat] /\ ver \in [Requests -> Nat]
      /\ mem.ver \in Nat
  BY DEF IInv, TypeOK, Database
<1>2. mem' \in Database /\ mem'.ver = mem.ver + 1 /\ mem'.live = live
  BY <1>1, ChangedDatabase
<1>3. PICK job \in Jobs : /\ pending' = <<job>> /\ job.rev = next_revision + 1
                          /\ job.upd.kind = "snapshot" /\ job.upd.db = mem'
  BY <1>1, <1>2, SnapshotJob DEF Snapshot, submit_snapshot
<1>4. next_revision' = next_revision + 1
  BY DEF submit_snapshot
<1>5. Queued' /\ pending'[1] = job /\ Len(pending') = 1
  BY <1>3 DEF Queued
<1>6. TypeOK'
  <2>1. /\ pc' \in [Requests -> Waiting \cup {"start", "ok", "error", "timeout", "cut"}]
        /\ rev' \in [Requests -> Nat] /\ ver' \in [Requests -> Nat]
    BY <1>1 DEF Waiting
  <2>2. pending' \in Seq(Jobs) /\ dropped' \subseteq Keys
    BY <1>1, <1>3 DEF IInv, TypeOK, Database
  <2> QED
    BY <2>1, <2>2, <1>2, <1>4, <1>1 DEF IInv, TypeOK, startup
<1>7. QueueShape'
  BY <1>5 DEF QueueShape
<1>8. QuietStart'
  BY DEF QuietStart, startup
<1>9. Ordered'
  <2>1. ASSUME NEW d \in Database, Older(d)
        PROVE  /\ d.ver <= mem'.ver /\ (d.ver = mem'.ver => d.live \subseteq mem'.live)
               /\ legacy' \subseteq d.live \cup dropped' /\ d.ver \in Nat
    BY <2>1, <1>1, <1>2 DEF Older, startup, Database
  <2>2. /\ Older(mem) /\ Older(disk) /\ disk \in Database /\ DOMAIN files = {}
        /\ disk.ver <= mem.ver /\ disk.ver \in Nat
    BY DEF IInv, Ordered, TypeOK, Older, Database
  <2>3. Older(mem)'
    BY <2>2, <1>1, <1>2 DEF Older, startup
  <2>4. Writing => writer.job.upd.db \in Database /\ Older(writer.job.upd.db)
                     /\ disk.ver <= writer.job.upd.db.ver
    BY <1>1, WriterKinds, JobKinds DEF IInv, Ordered, Writing
  <2>5. Writing' = Writing
    BY DEF Writing
  <2>6. Older(disk)' /\ DOMAIN files' = {}
    BY <2>1, <2>2 DEF Older, startup
  <2>7. Writing => Older(writer.job.upd.db)' /\ writer'.job.upd.db.ver <= mem'.ver
    BY <2>1, <2>4 DEF Older
  <2>8. disk'.ver <= mem'.ver
    BY <2>2, <1>1, <1>2
  <2> QED
    BY <2>3, <2>4, <2>5, <2>6, <2>7, <2>8, <1>3, <1>5 DEF Ordered, Older
<1>10. Imported'
  BY DEF IInv, Imported, InFiles, Ordered, startup
<1>11. Issued'
  <2>1. /\ successful' <= next_revision'
        /\ \A i \in 1 .. Len(pending') : pending'[i].rev <= next_revision'
        /\ writer.at = "writing" => writer.job.rev <= next_revision'
        /\ writer.at = "done" => writer.rev <= next_revision'
    BY <1>1, <1>3, <1>4, <1>5, WriterKinds, JobKinds DEF IInv, TypeOK, Issued
  <2>2. ASSUME NEW c \in Requests, pc'[c] \in Waiting
        PROVE  rev'[c] <= next_revision' /\ ver'[c] <= mem'.ver
    BY <2>2, <1>1, <1>2, <1>4 DEF IInv, Issued, Waiting
  <2> QED
    BY <2>1, <2>2 DEF Issued
<1>12. Covered'
  <2> SUFFICES ASSUME NEW c \in Requests
               PROVE  /\ pc'[c] = "ok" => ver'[c] <= disk'.ver \/ c \in spoiled'
                      /\ pc'[c] \in Waiting => ver'[c] <= disk'.ver \/ c \in spoiled' \/ Pending(c)'
    BY DEF Covered
  <2>1. CASE pc'[c] = pc[c] /\ rev'[c] = rev[c] /\ ver'[c] = ver[c]
    <3>1. pc'[c] = "ok" => ver'[c] <= disk'.ver \/ c \in spoiled'
      BY <2>1, <1>1, <1>2, <1>3, <1>5 DEF IInv, Covered
    <3>2. pc'[c] \in Waiting => ver'[c] <= disk'.ver \/ c \in spoiled' \/ Pending(c)'
      BY <2>1, <1>1, <1>2, <1>3, <1>5, WriterKinds, JobKinds
         DEF IInv, TypeOK, Covered, Pending, Issued, Writing, Queued, Database
    <3> QED
      BY <3>1, <3>2
  <2>2. CASE pc'[c] = "wait" /\ rev'[c] = next_revision + 1 /\ ver'[c] = mem.ver + 1
    BY <2>2, <1>1, <1>2, <1>3, <1>5, WriterKinds, JobKinds
       DEF IInv, TypeOK, Pending, Issued, Database
  <2> QED
    BY <2>1, <2>2, <1>1
<1> QED
  BY <1>6, <1>7, <1>8, <1>9, <1>10, <1>11, <1>12 DEF IInv

\* The counters of App.db and of a flusher are no part of what is ordered.
LEMMA FlushReads ==
  ASSUME IInv, NEW f \in Flushers, FlushRead(f)
  PROVE  IInv'
<1>1. PICK K \in SUBSET mem.live :
        /\ \A k \in K : mem.bytes[k] < MaxBytes
        /\ mem' = [mem EXCEPT !.bytes = [k \in Keys |-> IF k \in K THEN @[k] + 1 ELSE @[k]]]
        /\ flush' = [flush EXCEPT ![f] = [k \in K |-> mem.bytes[k] + 1]]
  BY DEF FlushRead
<1>2. boot = "up" /\ UNCHANGED <<disk, queue, writer, caller, known, restarts, startup, dropped>>
  BY DEF FlushRead
<1>3. mem \in Database
  BY DEF IInv, TypeOK
<1>4. mem' \in Database /\ mem'.ver = mem.ver /\ mem'.live = mem.live
  BY <1>1, <1>3 DEF Database
<1>5. [k \in K |-> mem.bytes[k] + 1] \in Rows
  <2>1. K \in SUBSET Keys
    BY <1>3 DEF Database
  <2>2. [k \in K |-> mem.bytes[k] + 1] \in [K -> 0 .. MaxBytes]
    BY <1>1, <1>3, <2>1 DEF Database
  <2> QED
    BY <2>1, <2>2 DEF Rows
<1>6. TypeOK'
  BY <1>1, <1>2, <1>4, <1>5 DEF IInv, TypeOK, queue, caller, startup
<1> QED
  BY <1>2, <1>4, <1>6
     DEF IInv, QueueShape, QuietStart, Ordered, Older, Writing, Queued, Imported, InFiles,
         Issued, Covered, Pending, queue, caller, startup

\* The queue as a pair of positions.
LEMMA QueueFacts ==
  ASSUME IInv
  PROVE  /\ pending \in Seq(Jobs) /\ Len(pending) \in 0 .. 2
         /\ \A i \in 1 .. Len(pending) : pending[i] \in Jobs /\ pending[i].rev \in Nat
                                        /\ pending[i].rev <= next_revision
         /\ Len(pending) = 2 => pending[1].upd.kind = "snapshot" /\ pending[2].upd.kind = "traffic"
         /\ next_revision \in Nat
<1>1. /\ pending \in Seq(Jobs) /\ Len(pending) \in Nat /\ Len(pending) <= 2 /\ next_revision \in Nat
  BY DEF IInv, TypeOK, QueueShape
<1>2. Len(pending) = 2 => pending[1].upd.kind = "snapshot" /\ pending[2].upd.kind = "traffic"
  BY <1>1 DEF IInv, QueueShape
<1>3. ASSUME NEW i \in 1 .. Len(pending)
      PROVE  pending[i] \in Jobs /\ pending[i].rev \in Nat /\ pending[i].rev <= next_revision
  <2>1. pending[i] \in Jobs
    BY <1>1
  <2> QED
    BY <2>1, JobKinds DEF IInv, Issued
<1>4. Len(pending) \in 0 .. 2
  <2>1. \A k \in Nat : k <= 2 => k \in 0 .. 2
    OBVIOUS
  <2> QED
    BY <2>1, <1>1, Zenon
<1> QED
  BY <1>1, <1>2, <1>3, <1>4, Zenon

\* Traffic goes behind the snapshot, if there is one.
LEMMA SubmittedTraffic ==
  ASSUME IInv, NEW rows \in Rows, submit_traffic(rows)
  PROVE  /\ pending' \in Seq(Jobs) /\ next_revision' = next_revision + 1
         /\ \A i \in 1 .. Len(pending') : pending'[i].rev <= next_revision'
         /\ QueueShape' /\ Queued' = Queued
         /\ Queued => pending'[1] = pending[1]
<1> DEFINE n == Len(pending)
           merges == n > 0 /\ pending[n].upd.kind = "traffic"
           front == IF merges THEN SubSeq(pending, 1, n - 1) ELSE pending
           older == IF merges THEN pending[n].upd.rows ELSE NoRows
           job == [rev |-> next_revision + 1, upd |-> Traffic(merge_from(older, rows))]
           m == IF merges THEN n - 1 ELSE n
<1>1. /\ pending \in Seq(Jobs) /\ n \in 0 .. 2 /\ next_revision \in Nat
      /\ \A i \in 1 .. n : pending[i] \in Jobs /\ pending[i].rev \in Nat
                            /\ pending[i].rev <= next_revision
      /\ n = 2 => pending[1].upd.kind = "snapshot" /\ pending[2].upd.kind = "traffic"
  BY QueueFacts
<1>2. NoRows \in Rows
  <2>1. NoRows \in [{} -> 0 .. MaxBytes]
    BY DEF NoRows
  <2> QED
    BY <2>1 DEF Rows
<1>3. older \in Rows
  BY <1>1, <1>2, JobKinds
<1>4. job \in Jobs /\ job.upd.kind = "traffic" /\ job.rev = next_revision + 1
  BY <1>1, <1>3, MergedRows, TrafficJob DEF Traffic
<1>5. pending' = Append(front, job) /\ next_revision' = next_revision + 1
  BY DEF submit_traffic
<1>6. /\ front \in Seq(Jobs) /\ Len(front) = m /\ m \in 0 .. 1
      /\ \A i \in 1 .. m : front[i] = pending[i]
  <2>1. CASE merges
    <3>1. /\ SubSeq(pending, 1, n - 1) \in Seq(Jobs)
          /\ Len(SubSeq(pending, 1, n - 1)) = IF 1 <= n - 1 THEN n - 1 - 1 + 1 ELSE 0
          /\ \A i \in 1 .. n - 1 - 1 + 1 : SubSeq(pending, 1, n - 1)[i] = pending[1 + i - 1]
      <4>1. \A i \in 1 .. n - 1 : pending[i] \in Jobs
        BY <1>1
      <4>2. 1 \in Int /\ n - 1 \in Int
        BY <1>1
      <4> QED
        BY <4>1, <4>2, SubSeqProperties
    <3> QED
      BY <3>1, <2>1, <1>1
  <2>2. CASE ~merges
    BY <2>2, <1>1
  <2> QED
    BY <2>1, <2>2
<1>7. n > 0 /\ pending[1].upd.kind = "snapshot" <=> m > 0
  BY <1>1, JobKinds
<1> HIDE DEF job, older, front, m
<1>8. /\ pending' \in Seq(Jobs) /\ Len(pending') = m + 1 /\ pending'[m + 1] = job
      /\ \A i \in 1 .. m : pending'[i] = pending[i]
  BY <1>4, <1>5, <1>6
<1>9. Queued <=> m > 0
  BY <1>1, <1>7 DEF Queued
<1>10. Queued' <=> m > 0
  BY <1>4, <1>6, <1>7, <1>8 DEF Queued
<1>11. QueueShape'
  BY <1>4, <1>6, <1>7, <1>8 DEF QueueShape
<1>12. \A i \in 1 .. Len(pending') : pending'[i].rev <= next_revision'
  <2> SUFFICES ASSUME NEW i \in 1 .. m + 1 PROVE pending'[i].rev <= next_revision'
    BY <1>8
  <2>1. CASE i = m + 1
    BY <2>1, <1>1, <1>4, <1>5, <1>8
  <2>2. CASE i \in 1 .. m
    <3>1. i \in 1 .. n
      BY <2>2, <1>1, <1>6 DEF m
    <3> QED
      BY <3>1, <2>2, <1>1, <1>5, <1>8
  <2> QED
    BY <2>1, <2>2, <1>6
<1> QED
  <2>1. Queued => pending'[1] = pending[1]
    BY <1>6, <1>8, <1>9
  <2>2. Queued' = Queued
    BY <1>9, <1>10 DEF Queued
  <2> QED
    BY <2>1, <2>2, <1>5, <1>8, <1>11, <1>12

LEMMA FlushSubmits ==
  ASSUME IInv, NEW f \in Flushers, FlushSubmit(f)
  PROVE  IInv'
<1>1. /\ flush[f] # Idle /\ submit_traffic(flush[f]) /\ flush' = [flush EXCEPT ![f] = Idle]
      /\ UNCHANGED <<mem, disk, processed, successful, writer, caller, known, restarts, startup, dropped>>
  BY DEF FlushSubmit
<1>2. flush[f] \in Rows /\ boot = "up" /\ next_revision \in Nat
  BY <1>1 DEF IInv, TypeOK, QuietStart
<1>3. /\ pending' \in Seq(Jobs) /\ next_revision' = next_revision + 1
      /\ \A i \in 1 .. Len(pending') : pending'[i].rev <= next_revision'
      /\ QueueShape' /\ Queued' = Queued
      /\ Queued => pending'[1] = pending[1]
  BY <1>1, <1>2, SubmittedTraffic
<1>4. TypeOK'
  <2>1. Idle \in Rows
    <3>1. NoRows \in [{} -> 0 .. MaxBytes]
      BY DEF NoRows
    <3> QED
      BY <3>1 DEF Rows, Idle
  <2>2. flush' \in [Flushers -> Rows]
    BY <2>1, <1>1 DEF IInv, TypeOK
  <2> QED
    BY <2>2, <1>1, <1>3 DEF IInv, TypeOK, caller, startup
<1>5. Ordered' /\ Imported' /\ QuietStart'
  BY <1>1, <1>2, <1>3 DEF IInv, Ordered, Older, Writing, Imported, InFiles, QuietStart, startup
<1>6. Issued'
  BY <1>1, <1>2, <1>3, WriterKinds, JobKinds DEF IInv, TypeOK, Issued, caller
<1>7. Covered'
  BY <1>1, <1>3 DEF IInv, Covered, Pending, Writing, caller
<1> QED
  BY <1>3, <1>4, <1>5, <1>6, <1>7 DEF IInv
-----------------------------------------------------------------------------
\* What is taken is the oldest; the snapshot is never behind anything.
LEMMA Takes ==
  ASSUME IInv, take_pending
  PROVE  IInv'
<1>1. /\ writer.at = "idle" /\ pending # <<>> /\ pending' = Tail(pending)
      /\ writer' = [at |-> "writing", job |-> pending[1]]
      /\ UNCHANGED <<mem, disk, next_revision, processed, successful, caller, flush, known, restarts,
                     startup, dropped>>
  BY DEF take_pending, IInv, TypeOK
<1>2. /\ pending \in Seq(Jobs) /\ Len(pending) \in 1 .. 2 /\ pending[1] \in Jobs
      /\ Len(pending) = 2 => pending[2].upd.kind = "traffic"
  BY <1>1, QueueFacts
<1>3. /\ pending' \in Seq(Jobs) /\ Len(pending') = Len(pending) - 1
      /\ Len(pending') = 1 => pending'[1] = pending[2]
  BY <1>1, <1>2
<1>4. QueueShape' /\ ~Queued'
  <2>1. CASE Len(pending) = 1
    <3>1. pending' = <<>> /\ Len(pending') = 0
      BY <2>1, <1>3
    <3> QED
      BY <3>1 DEF QueueShape, Queued
  <2>2. CASE Len(pending) = 2
    <3>1. pending'[1].upd.kind = "traffic" /\ Len(pending') = 1
      BY <2>2, <1>2, <1>3
    <3> QED
      BY <3>1 DEF QueueShape, Queued
  <2> QED
    BY <2>1, <2>2, <1>2
<1>5. /\ Writing' = Queued /\ writer'.at = "writing" /\ writer'.job = pending[1]
      /\ writer' \in Writers
  BY <1>1, <1>2 DEF Writing, Queued, Writers
<1>6. ~Writing
  BY <1>1 DEF Writing
<1>7. TypeOK' /\ QuietStart'
  BY <1>1, <1>3, <1>5 DEF IInv, TypeOK, QuietStart, caller, startup
<1>8. Ordered' /\ Imported'
  BY <1>1, <1>4, <1>5 DEF IInv, Ordered, Older, Imported, InFiles, startup
<1>9. Issued'
  BY <1>1, <1>2, <1>3, <1>5, QueueFacts DEF IInv, Issued, caller
<1>10. Covered'
  BY <1>1, <1>4, <1>5, <1>6 DEF IInv, Covered, Pending, caller
<1> QED
  BY <1>4, <1>7, <1>8, <1>9, <1>10 DEF IInv

LEMMA PersistsOk ==
  ASSUME IInv, PersistOk
  PROVE  IInv'
<1>1. /\ writer.at = "writing"
      /\ disk' = IF writer.job.upd.kind = "snapshot" THEN writer.job.upd.db
                 ELSE write_traffic(disk, writer.job.upd.rows)
      /\ writer' = [at |-> "done", rev |-> writer.job.rev, ok |-> TRUE]
      /\ UNCHANGED <<mem, queue, caller, flush, known, restarts, startup, dropped>>
  BY DEF PersistOk
<1>2. writer.job \in Jobs /\ disk \in Database /\ mem \in Database /\ boot = "up"
  BY <1>1, WriterKinds DEF IInv, TypeOK, QuietStart
<1>3. /\ disk' \in Database /\ disk.ver \in Nat /\ disk'.ver \in Nat /\ disk.ver <= disk'.ver
      /\ ~Writing => disk'.ver = disk.ver /\ disk'.live = disk.live
      /\ Writing => disk' = writer.job.upd.db
  <2>1. CASE writer.job.upd.kind = "snapshot"
    <3>1. Writing /\ disk' = writer.job.upd.db /\ disk' \in Database
      BY <2>1, <1>1, <1>2, JobKinds DEF Writing
    <3> QED
      BY <3>1, <1>2 DEF IInv, Ordered, Database
  <2>2. CASE writer.job.upd.kind = "traffic"
    <3>1. ~Writing /\ disk' = write_traffic(disk, writer.job.upd.rows) /\ writer.job.upd.rows \in Rows
      BY <2>2, <1>1, <1>2, JobKinds DEF Writing
    <3>2. disk' \in Database /\ disk'.ver = disk.ver /\ disk'.live = disk.live
      BY <3>1, <1>2, TrafficWritten
    <3> QED
      BY <3>1, <3>2, <1>2 DEF Database
  <2> QED
    BY <2>1, <2>2, <1>2, JobKinds
<1>4. writer' \in Writers /\ writer'.at = "done" /\ writer'.rev = writer.job.rev
  BY <1>1, <1>2, JobKinds DEF Writers
<1>5. TypeOK' /\ QueueShape' /\ QuietStart'
  BY <1>1, <1>2, <1>3, <1>4 DEF IInv, TypeOK, QueueShape, QuietStart, queue, caller, startup
<1>6. Ordered'
  <2>1. ~Writing' /\ Queued' = Queued
    BY <1>1, <1>4 DEF Writing, Queued, queue
  <2>2. Older(disk)'
    <3>1. CASE Writing
      BY <3>1, <1>1, <1>2, <1>3 DEF IInv, Ordered, Older, startup
    <3>2. CASE ~Writing
      BY <3>2, <1>1, <1>2, <1>3 DEF IInv, Ordered, Older, startup
    <3> QED
      BY <3>1, <3>2
  <2>3. Queued => disk'.ver <= pending[1].upd.db.ver
    BY <1>2, <1>3 DEF IInv, Ordered
  <2> QED
    BY <2>1, <2>2, <2>3, <1>1, <1>2 DEF IInv, Ordered, Older, queue, startup
<1>7. Imported'
  BY <1>1, <1>2 DEF IInv, Imported, InFiles, startup
<1>8. Issued'
  BY <1>1, <1>4 DEF IInv, Issued, queue, caller
<1>9. Covered'
  <2> SUFFICES ASSUME NEW c \in Requests
               PROVE  /\ pc[c] = "ok" => ver[c] <= disk'.ver \/ c \in spoiled
                      /\ pc[c] \in Waiting => ver[c] <= disk'.ver \/ c \in spoiled \/ Pending(c)'
    BY <1>1 DEF Covered, caller
  <2>1. ver[c] \in Nat /\ rev[c] \in Nat
    BY DEF IInv, TypeOK
  <2>2. ver[c] <= disk.ver => ver[c] <= disk'.ver
    BY <2>1, <1>3
  <2>3. Pending(c) => ver[c] <= disk'.ver \/ Pending(c)'
    BY <1>1, <1>3, <1>4 DEF Pending, Queued, Writing, queue, caller
  <2> QED
    BY <2>2, <2>3 DEF IInv, Covered
<1> QED
  BY <1>5, <1>6, <1>7, <1>8, <1>9 DEF IInv

\* A failed snapshot spoils every request that depended on it.
LEMMA PersistsNot ==
  ASSUME IInv, PersistFails
  PROVE  IInv'
<1>1. /\ writer.at = "writing"
      /\ writer' = [at |-> "done", rev |-> writer.job.rev, ok |-> FALSE]
      /\ spoiled' = spoiled \cup {c \in Requests : /\ writer.job.upd.kind = "snapshot"
                                                   /\ pc[c] \in Waiting
                                                   /\ rev[c] <= writer.job.rev}
      /\ UNCHANGED <<mem, disk, queue, pc, rev, ver, woken, flush, known, restarts, startup, dropped>>
  BY DEF PersistFails
<1>2. writer.job \in Jobs /\ boot = "up"
  BY <1>1, WriterKinds DEF IInv, TypeOK, QuietStart
<1>3. writer' \in Writers /\ writer'.at = "done" /\ writer'.rev = writer.job.rev
  BY <1>1, <1>2, JobKinds DEF Writers
<1>4. TypeOK' /\ QueueShape' /\ QuietStart'
  BY <1>1, <1>2, <1>3 DEF IInv, TypeOK, QueueShape, QuietStart, queue, startup
<1>5. Ordered' /\ Imported'
  BY <1>1, <1>2, <1>3 DEF IInv, Ordered, Older, Writing, Queued, Imported, InFiles, queue, startup
<1>6. Issued'
  BY <1>1, <1>3 DEF IInv, Issued, queue
<1>7. Covered'
  <2> SUFFICES ASSUME NEW c \in Requests, pc[c] \in Waiting, Pending(c), c \notin spoiled'
               PROVE  Pending(c)'
    BY <1>1 DEF IInv, Covered
  <2> QED
    BY <1>1, <1>3 DEF Pending, Queued, Writing, queue
<1> QED
  BY <1>4, <1>5, <1>6, <1>7 DEF IInv

LEMMA Completes ==
  ASSUME IInv, complete
  PROVE  IInv'
<1>1. /\ writer.at = "done" /\ writer' = [at |-> "notify"]
      /\ processed' = Larger(processed, writer.rev)
      /\ successful' = IF writer.ok THEN Larger(successful, writer.rev) ELSE successful
      /\ UNCHANGED <<mem, disk, pending, next_revision, caller, flush, known, restarts, startup, dropped>>
  BY DEF complete
<1>2. writer.rev \in Nat /\ successful \in Nat /\ processed \in Nat /\ boot = "up"
      /\ next_revision \in Nat
  BY <1>1, WriterKinds DEF IInv, TypeOK, QuietStart
<1>3. writer' \in Writers /\ writer'.at = "notify" /\ processed' \in Nat /\ successful' \in Nat
  BY <1>1, <1>2 DEF Writers, Larger
<1>4. TypeOK' /\ QueueShape' /\ QuietStart'
  BY <1>1, <1>2, <1>3 DEF IInv, TypeOK, QueueShape, QuietStart, caller, startup
<1>5. Ordered' /\ Imported'
  BY <1>1, <1>2, <1>3 DEF IInv, Ordered, Older, Writing, Queued, Imported, InFiles, startup
<1>6. Issued'
  BY <1>1, <1>2, <1>3 DEF IInv, Issued, caller, Larger
<1>7. Covered'
  <2> SUFFICES ASSUME NEW c \in Requests, Pending(c) PROVE Pending(c)'
    BY <1>1 DEF IInv, Covered, caller
  <2>1. rev[c] \in Nat
    BY DEF IInv, TypeOK
  <2> QED
    BY <2>1, <1>1, <1>2, <1>3 DEF Pending, Queued, Writing, Larger, caller
<1> QED
  BY <1>4, <1>5, <1>6, <1>7 DEF IInv

LEMMA Notifies ==
  ASSUME IInv, notify_waiters
  PROVE  IInv'
<1>1. /\ writer.at = "notify" /\ writer' = [at |-> "idle"]
      /\ woken' = [c \in Requests |-> woken[c] \/ pc[c] \in Waiting \ {"wait"}]
      /\ UNCHANGED <<mem, disk, queue, pc, rev, ver, spoiled, flush, known, restarts, startup, dropped>>
  BY DEF notify_waiters
<1>2. writer' \in Writers /\ writer'.at = "idle" /\ woken' \in [Requests -> BOOLEAN]
  BY <1>1 DEF Writers, IInv, TypeOK
<1>3. TypeOK' /\ QueueShape' /\ QuietStart'
  BY <1>1, <1>2 DEF IInv, TypeOK, QueueShape, QuietStart, queue, startup
<1>4. Ordered' /\ Imported' /\ Issued' /\ Covered'
  BY <1>1, <1>2 DEF IInv, Ordered, Older, Writing, Queued, Imported, InFiles, Issued, Covered, Pending,
                    queue, startup
<1> QED
  BY <1>3, <1>4 DEF IInv
-----------------------------------------------------------------------------
\* A waiting request moves on: it answers with success only when its revision has succeeded.
LEMMA Waits ==
  ASSUME IInv, NEW c \in Requests, Wait(c) \/ WaitTimeout(c)
  PROVE  IInv'
<1>1. /\ pc[c] \in Waiting
      /\ \E p \in Waiting \cup {"ok", "error", "timeout"} :
           pc' = [pc EXCEPT ![c] = p] /\ (p = "ok" => successful >= rev[c])
      /\ woken' = woken \/ woken' = [woken EXCEPT ![c] = FALSE]
      /\ UNCHANGED <<mem, disk, queue, writer, rev, ver, spoiled, flush, known, restarts, startup, dropped>>
  <2>1. CASE WaitRegister(c)
    BY <2>1 DEF WaitRegister, Waiting
  <2>2. CASE WaitCheck(c)
    <3> DEFINE p == IF successful >= rev[c] THEN "ok"
                    ELSE IF processed >= rev[c] THEN "error" ELSE "checked"
    <3>1. p \in Waiting \cup {"ok", "error", "timeout"} /\ (p = "ok" => successful >= rev[c])
      BY DEF Waiting
    <3>2. pc[c] = "check" /\ pc' = [pc EXCEPT ![c] = p]
      BY <2>2 DEF WaitCheck
    <3> HIDE DEF p
    <3> QED
      BY <2>2, <3>1, <3>2 DEF WaitCheck, Waiting
  <2>3. CASE WaitSleep(c)
    <3> DEFINE p == IF woken[c] THEN "wait" ELSE "asleep"
    <3>1. p \in Waiting \cup {"ok", "error", "timeout"} /\ p # "ok"
      BY DEF Waiting
    <3>2. pc[c] = "checked" /\ pc' = [pc EXCEPT ![c] = p]
      BY <2>3 DEF WaitSleep
    <3> HIDE DEF p
    <3> QED
      BY <2>3, <3>1, <3>2 DEF WaitSleep, Waiting
  <2>4. CASE WaitWake(c)
    BY <2>4 DEF WaitWake, Waiting
  <2>5. CASE WaitTimeout(c)
    BY <2>5 DEF WaitTimeout, Waiting
  <2> QED
    BY <2>1, <2>2, <2>3, <2>4, <2>5 DEF Wait
<1>2. PICK p \in Waiting \cup {"ok", "error", "timeout"} :
        pc' = [pc EXCEPT ![c] = p] /\ (p = "ok" => successful >= rev[c])
  BY <1>1
<1>3. TypeOK'
  BY <1>1, <1>2 DEF IInv, TypeOK, queue, startup
<1>4. \A d \in Requests : d # c => pc'[d] = pc[d]
  BY <1>2 DEF IInv, TypeOK
<1>5. pc'[c] = p
  BY <1>2 DEF IInv, TypeOK
<1>6. QueueShape' /\ QuietStart' /\ Ordered' /\ Imported'
  BY <1>1 DEF IInv, QueueShape, QuietStart, Ordered, Older, Writing, Queued, Imported, InFiles, queue, startup
<1>7. Issued'
  BY <1>1, <1>4 DEF IInv, Issued, queue
<1>8. \A d \in Requests : Pending(d)' = Pending(d)
  BY <1>1 DEF Pending, Writing, Queued, queue
<1>9. Covered'
  <2>1. Pending(c) => successful < rev[c] /\ successful \in Nat /\ rev[c] \in Nat
    BY DEF Pending, IInv, TypeOK
  <2>2. ASSUME NEW d \in Requests, d # c
        PROVE  /\ pc'[d] = "ok" => ver'[d] <= disk'.ver \/ d \in spoiled'
               /\ pc'[d] \in Waiting => ver'[d] <= disk'.ver \/ d \in spoiled' \/ Pending(d)'
    BY <2>2, <1>1, <1>4, <1>8 DEF IInv, Covered
  <2>3. /\ p = "ok" => ver[c] <= disk.ver \/ c \in spoiled
        /\ p \in Waiting => ver[c] <= disk.ver \/ c \in spoiled \/ Pending(c)
    BY <2>1, <1>1, <1>2 DEF IInv, Covered
  <2> QED
    BY <2>2, <2>3, <1>1, <1>5, <1>8 DEF Covered
<1> QED
  BY <1>3, <1>6, <1>7, <1>9 DEF IInv

\* A restart keeps the file; the answers it cuts off are given to nobody.
LEMMA Restarts ==
  ASSUME IInv, Restart
  PROVE  IInv'
<1>1. /\ boot' = "load" /\ pending' = <<>> /\ next_revision' = 0 /\ processed' = 0 /\ successful' = 0
      /\ writer' = [at |-> "idle"]
      /\ pc' = [c \in Requests |-> IF pc[c] \in Waiting THEN "cut" ELSE pc[c]]
      /\ flush' = [f \in Flushers |-> Idle]
      /\ UNCHANGED <<mem, disk, rev, ver, woken, spoiled, known, files, clash, legacy, dropped>>
  BY DEF Restart
<1>2. writer' \in Writers /\ writer'.at = "idle"
  BY <1>1 DEF Writers
<1>3. \A c \in Requests : pc'[c] \notin Waiting /\ (pc'[c] = "ok" => pc[c] = "ok")
  BY <1>1 DEF Waiting
<1>4. TypeOK'
  <2>1. Idle \in Rows
    <3>1. NoRows \in [{} -> 0 .. MaxBytes]
      BY DEF NoRows
    <3> QED
      BY <3>1 DEF Rows, Idle
  <2>2. pc' \in [Requests -> Waiting \cup {"start", "ok", "error", "timeout", "cut"}]
    BY <1>1 DEF IInv, TypeOK
  <2>3. flush' \in [Flushers -> Rows] /\ pending' \in Seq(Jobs)
    BY <2>1, <1>1
  <2> QED
    BY <2>2, <2>3, <1>1, <1>2 DEF IInv, TypeOK
<1>5. QueueShape' /\ QuietStart'
  BY <1>1, <1>2, <1>3 DEF QueueShape, QuietStart
<1>6. Ordered' /\ Imported'
  <2>1. legacy \subseteq disk.live \cup InFiles \cup dropped
    BY DEF IInv, Imported, Ordered, Older, TypeOK
  <2> QED
    BY <2>1, <1>1 DEF IInv, Ordered, Imported, InFiles
<1>7. Issued' /\ Covered'
  BY <1>1, <1>2, <1>3 DEF IInv, Issued, Covered
<1> QED
  BY <1>4, <1>5, <1>6, <1>7 DEF IInv
-----------------------------------------------------------------------------
\* What the retired files hold is a set of keys, and less of it when one is removed.
LEMMA FileFacts ==
  ASSUME IInv
  PROVE  /\ InFiles \subseteq Keys
         /\ \A f \in DOMAIN files : files[f] \subseteq InFiles
         /\ DOMAIN files = {} => InFiles = {}
<1>1. PICK F \in SUBSET Files : files \in [F -> SUBSET Keys]
  BY DEF IInv, TypeOK
<1> QED
  BY <1>1 DEF InFiles

LEMMA Loads ==
  ASSUME IInv, Load
  PROVE  IInv'
<1>1. /\ boot # "up" /\ UNCHANGED <<queue, writer, caller, flush, known, restarts, clash, legacy, dropped>>
      /\ boot' \in {"load", "remove", "up"}
  BY DEF Load, LoadSqlite, verify_legacy_database_rows, ImportFile, RemoveFile, Loading, IInv, TypeOK
<1>2. mem \in Database /\ disk \in Database /\ disk.ver \in Nat
  BY DEF IInv, TypeOK, Database
<1>3. /\ pending = <<>> /\ writer.at = "idle" /\ ~Writing /\ ~Queued
      /\ \A c \in Requests : pc[c] \notin Waiting
  BY <1>1 DEF IInv, QuietStart, Writing, Queued
<1>4. ~Writing' /\ ~Queued'
  BY <1>1, <1>3 DEF Writing, Queued, queue
\* It is enough to look at the file, the retired files and App.db.
<1>5. ASSUME mem' \in Database, disk' \in Database, disk'.ver = disk.ver,
             files' \in UNION {[F -> SUBSET Keys] : F \in SUBSET Files},
             Imported',
             boot' = "up" => mem' = disk' /\ DOMAIN files' = {} /\ legacy \subseteq disk'.live \cup dropped
      PROVE  IInv'
  <2>1. TypeOK'
    BY <1>1, <1>5 DEF IInv, TypeOK, queue, caller
  <2>2. QueueShape' /\ QuietStart'
    BY <1>1, <1>3 DEF IInv, QueueShape, QuietStart, queue, caller
  <2>3. Ordered'
    BY <1>1, <1>2, <1>4, <1>5 DEF Ordered, Older
  <2>4. Issued' /\ Covered'
    BY <1>1, <1>3, <1>5 DEF IInv, Issued, Covered, queue, caller
  <2> QED
    BY <2>1, <2>2, <2>3, <2>4, <1>5 DEF IInv
<1>6. files \in UNION {[F -> SUBSET Keys] : F \in SUBSET Files}
  BY DEF IInv, TypeOK
<1>7. CASE LoadSqlite
  <2>1. /\ boot = "load" /\ DOMAIN files = {} /\ mem' = disk /\ boot' = "up" /\ disk' = disk /\ files' = files
    BY <1>7 DEF LoadSqlite
  <2>2. InFiles = {} /\ InFiles' = InFiles
    BY <2>1, FileFacts DEF InFiles
  <2>3. Imported'
    BY <2>1, <2>2 DEF Imported
  <2>4. legacy \subseteq disk.live \cup dropped
    BY <2>1, <2>2 DEF IInv, Imported
  <2> QED
    BY <1>2, <1>5, <1>6, <2>1, <2>3, <2>4
<1>8. CASE verify_legacy_database_rows
  <2>1. /\ boot = "load" /\ mem' = disk /\ boot' = "remove" /\ disk' = disk /\ files' = files
        /\ InFiles \subseteq disk.live /\ InFiles' = InFiles
    BY <1>8 DEF verify_legacy_database_rows, InFiles
  <2>2. Imported'
    BY <1>1, <2>1 DEF IInv, Imported
  <2> QED
    BY <1>2, <1>5, <1>6, <2>1, <2>2
<1>9. ASSUME NEW f \in Files, ImportFile(f)
      PROVE  IInv'
  <2>1. /\ boot = "load" /\ boot' = "load" /\ mem' = mem /\ files' = files /\ InFiles' = InFiles
        /\ f \in DOMAIN files /\ disk' = [disk EXCEPT !.live = @ \cup files[f]]
    BY <1>9 DEF ImportFile, import_legacy_database_rows, InFiles
  <2>2. files[f] \subseteq Keys
    BY <2>1, FileFacts
  <2>3. disk' \in Database /\ disk'.ver = disk.ver /\ disk.live \subseteq disk'.live
    BY <2>1, <2>2, <1>2 DEF Database
  <2>4. Imported'
    BY <1>1, <2>1, <2>3 DEF IInv, Imported
  <2> QED
    BY <1>2, <1>5, <1>6, <2>1, <2>3, <2>4
<1>10. ASSUME NEW f \in Files, RemoveFile(f)
       PROVE  IInv'
  <2>1. /\ boot = "remove" /\ mem' = mem /\ disk' = disk /\ f \in DOMAIN files
        /\ \/ /\ files' = [g \in DOMAIN files \ {f} |-> files[g]]
              /\ boot' = IF DOMAIN files = {f} THEN "up" ELSE "remove"
           \/ boot' = "load" /\ UNCHANGED files
    BY <1>10 DEF RemoveFile
  <2>2. /\ files' \in UNION {[F -> SUBSET Keys] : F \in SUBSET Files}
        /\ InFiles' \subseteq InFiles /\ (boot' = "up" => DOMAIN files' = {})
    <3>1. PICK F \in SUBSET Files : files \in [F -> SUBSET Keys]
      BY <1>6
    <3>2. CASE files' = [g \in DOMAIN files \ {f} |-> files[g]]
               /\ boot' = IF DOMAIN files = {f} THEN "up" ELSE "remove"
      <4>1. files' \in [F \ {f} -> SUBSET Keys] /\ F \ {f} \in SUBSET Files
        BY <3>1, <3>2
      <4>2. InFiles' \subseteq InFiles
        BY <3>1, <3>2 DEF InFiles
      <4> QED
        BY <3>1, <3>2, <4>1, <4>2
    <3>3. CASE boot' = "load" /\ files' = files
      BY <3>3, <1>6 DEF InFiles
    <3> QED
      BY <2>1, <3>2, <3>3
  <2>3. mem = disk /\ InFiles \subseteq disk.live /\ dropped \cap InFiles = {}
        /\ legacy \subseteq disk.live \cup InFiles \cup dropped
    BY <2>1 DEF IInv, Imported
  <2>4. Imported'
    BY <1>1, <2>1, <2>2, <2>3 DEF Imported
  <2> QED
    BY <1>2, <1>5, <2>1, <2>2, <2>3, <2>4
<1> QED
  BY <1>7, <1>8, <1>9, <1>10 DEF Load
-----------------------------------------------------------------------------
LEMMA Changes ==
  ASSUME IInv, \/ handle_getconf \/ run_password_janitor_cycle
               \/ \E c \in Requests : Request(c)
  PROVE  IInv'
<1>0. mem.live \subseteq Keys
  BY DEF IInv, TypeOK, Database
<1>1. ASSUME NEW live \in SUBSET Keys, Change(live)
      PROVE  IInv'
  BY <1>1, SubmitSnapshot DEF Change, caller
<1>2. ASSUME NEW c \in Requests, NEW live \in SUBSET Keys, ChangeAndWait(c, live)
      PROVE  IInv'
  BY <1>2, SubmitSnapshot DEF ChangeAndWait
<1>3. CASE handle_getconf
  BY <1>0, <1>1, <1>3 DEF handle_getconf
<1>4. CASE run_password_janitor_cycle
  <2>1. PICK k \in mem.live : Change(mem.live \ {k})
    BY <1>4 DEF run_password_janitor_cycle
  <2> QED
    BY <2>1, <1>0, <1>1
<1>5. ASSUME NEW c \in Requests, Request(c)
      PROVE  IInv'
  <2>1. CASE clients_create(c)
    <3>1. PICK k \in Keys \ known, expired \in SUBSET mem.live :
            ChangeAndWait(c, (mem.live \ expired) \cup {k})
      BY <2>1 DEF clients_create
    <3> QED
      BY <3>1, <1>0, <1>2
  <2>2. CASE client_delete(c)
    <3>1. PICK k \in mem.live : ChangeAndWait(c, mem.live \ {k})
      BY <2>2 DEF client_delete
    <3> QED
      BY <3>1, <1>0, <1>2
  <2>3. CASE client_update(c) \/ settings_post(c) \/ local_proxy_update(c)
    BY <2>3, <1>0, <1>2 DEF client_update, settings_post, local_proxy_update
  <2> QED
    BY <1>5, <2>1, <2>2, <2>3 DEF Request
<1> QED
  BY <1>3, <1>4, <1>5

LEMMA Inductive == IInv /\ [Next]_vars => IInv'
<1> SUFFICES ASSUME IInv, [Next]_vars PROVE IInv'
  OBVIOUS
<1>1. CASE Writer
  BY <1>1, Takes, PersistsOk, PersistsNot, Completes, Notifies DEF Writer
<1>2. CASE UNCHANGED vars
  BY <1>2 DEF vars, IInv, TypeOK, QueueShape, QuietStart, Ordered, Older, Writing, Queued, Imported,
              InFiles, Issued, Covered, Pending, queue, caller, startup
<1> QED
  BY <1>1, <1>2, Changes, Restarts, Loads, Waits, FlushReads, FlushSubmits DEF Next

\* The invariant holds in every state, for every set of keys, requests, flushers and files.
THEOREM DatabaseInvariant == Spec => []IInv
BY Initially, Inductive, PTL DEF Spec

\* A request that was answered with success is in the file, whatever superseded, overtook or
\* followed its snapshot and however often the process has restarted since, unless the write
\* of its snapshot or of a later one failed (PersistenceQueue, DatabasePersistence::wait).
THEOREM AcknowledgedIsWritten == Spec => []AckedUnlessFailed
<1>1. IInv => AckedUnlessFailed
  BY DEF IInv, Covered, AckedUnlessFailed, TypeOK, Database
<1> QED
  BY <1>1, DatabaseInvariant, PTL

\* A key that was removed from App.db and is in the file waits there for a newer snapshot:
\* no counters written late bring it back (write_traffic, flush_traffic).
THEOREM NoKeyComesBack == Spec => []RemovedStaysRemoved
<1>1. IInv => RemovedStaysRemoved
  BY DEF IInv, Ordered, Older, RemovedStaysRemoved, TypeOK, Database
<1> QED
  BY <1>1, DatabaseInvariant, PTL

\* The import of the retired files loses no key and brings none back, wherever the process
\* dies (load_database).
THEOREM ImportKeepsKeys == Spec => []LegacyIsKept
<1>1. IInv => LegacyIsKept
  BY FileFacts DEF IInv, Ordered, Older, Imported, LegacyIsKept, TypeOK
<1> QED
  BY <1>1, DatabaseInvariant, PTL

-----------------------------------------------------------------------------
\* The route of the transparent proxy

\* Types of what the route is made of.
Wished == Profiles \cup {"none"}
Run == [profile : Wished, child : {"up", "gone"}, cancel : BOOLEAN,
        dog : {"off", "idle", "look", "repair"}]
MonitorPlaces == {"wait", "read", "probe", "start", "activate", "install", "stop", "clean"}

Rules == [shared : BOOLEAN, port : Nat, level : Nat, late : BOOLEAN, stale : BOOLEAN]
MonitorStates ==
  [pc : MonitorPlaces, timer : BOOLEAN, id : Nat, profile : Wished, attempts : Nat, undo : BOOLEAN]
MainStates == [pc : {"run", "stop", "clean", "exit", "down"}, id : Nat]

RouteTypes ==
  /\ wanted \in Wished
  /\ runs \in Seq(Run) /\ route \in 0 .. Len(runs)
  /\ rules \in Rules /\ monitor \in MonitorStates /\ main \in MainStates

\* proxy_operation keeps the monitor and the end of the server apart.
OneWorks ==
  /\ operation = "monitor" <=> monitor.pc # "wait"
  /\ operation = "main" <=> main.pc \in {"stop", "clean"}

\* Whoever takes a route out of proxy_route holds it until its rules are cleaned, and
\* ACTIVE_RUNTIME names it until then.
Taken ==
  /\ monitor.undo => monitor.pc \in {"stop", "clean"}
  /\ monitor.pc \in {"start", "activate", "install", "stop", "clean"} => route = 0
  /\ monitor.pc \in {"activate", "install", "stop", "clean"} => monitor.id \in 1 .. Len(runs)
  /\ main.pc \in {"stop", "clean"} => main.id \in 1 .. Len(runs) /\ route = 0
  /\ route # 0 => current = route
  /\ monitor.pc \in {"stop", "clean"} /\ ~monitor.undo => current = monitor.id
  /\ main.pc \in {"stop", "clean"} => current = main.id

\* The route of i is the one there is, or is on its way out and not cancelled yet.
Held(i) ==
  \/ i = route
  \/ monitor.pc = "stop" /\ monitor.id = i
  \/ main.pc = "stop" /\ main.id = i

\* A watchdog whose route is not cancelled watches a route that is held.
DogsOfHeld == \A i \in 1 .. Len(runs) : runs[i].dog # "off" /\ ~runs[i].cancel => Held(i)

\* Rules that are not misplaced lead to the route, or to one whose cleanup is to come.
Placed ==
  main.pc \notin {"down", "exit"} /\ ~Misplaced /\ rules.port # 0 =>
    \/ rules.port = route
    \/ monitor.pc \in {"stop", "clean"} /\ monitor.id = rules.port
    \/ main.pc \in {"stop", "clean"} /\ main.id = rules.port

RouteInv == RouteTypes /\ OneWorks /\ Taken /\ DogsOfHeld /\ Placed

\* The runs after one of them changed, or another began.
LEMMA RunChanges ==
  ASSUME NEW i \in 1 .. Len(runs), NEW r \in Run, runs \in Seq(Run), runs' = [runs EXCEPT ![i] = r]
  PROVE  /\ runs' \in Seq(Run) /\ Len(runs') = Len(runs)
         /\ runs'[i] = r /\ \A j \in 1 .. Len(runs) : j # i => runs'[j] = runs[j]
OBVIOUS

LEMMA RunBegins ==
  ASSUME NEW r \in Run, runs \in Seq(Run), runs' = Append(runs, r)
  PROVE  /\ runs' \in Seq(Run) /\ Len(runs') = Len(runs) + 1
         /\ runs'[Len(runs) + 1] = r /\ \A j \in 1 .. Len(runs) : runs'[j] = runs[j]
OBVIOUS

LEMMA RulesCleared == Cleared \in Rules /\ Cleared.port = 0 /\ NoRules \in Rules /\ NoRules.port = 0
BY DEF Cleared, NoRules, Rules

\* The rules that are put in, in whole or in part.
LEMMA RulesInstalled ==
  ASSUME RouteTypes, NEW i \in 1 .. Len(runs), NEW level \in 0 .. Full
  PROVE  /\ Installed(i, level) \in Rules
         /\ Installed(i, level).port = i /\ Installed(i, level).late = runs[i].cancel
<1>1. runs[i].cancel \in BOOLEAN
  <2>1. runs[i] \in Run
    BY DEF RouteTypes
  <2> QED
    BY <2>1 DEF Run
<1>2. level \in Nat /\ i \in Nat
  BY DEF RouteTypes, Full
<1> QED
  BY <1>1, <1>2, RulesCleared DEF Installed, Rules

\* The monitor goes back to its wait, or goes on.
LEMMA MonitorWaits ==
  ASSUME NEW t \in BOOLEAN
  PROVE  /\ [Started EXCEPT !.timer = t] \in MonitorStates
         /\ [Started EXCEPT !.timer = t].pc = "wait" /\ [Started EXCEPT !.timer = t].undo = FALSE
BY DEF Started, MonitorStates, MonitorPlaces, Wished


\* What leaves the route alone.
LEMMA OthersKeep ==
  ASSUME RouteInv, wanted' \in Wished,
         UNCHANGED <<runs, route, rules, current, operation, monitor, main>>
  PROVE  RouteInv'
BY DEF RouteInv, RouteTypes, OneWorks, Taken, DogsOfHeld, Held, Placed, Misplaced

\* The monitor loop.
LEMMA MonitorWakesKeeps ==
  ASSUME RouteInv, MonitorWakes
  PROVE  RouteInv'
<1> USE DEF RouteInv
<1>0. runs \in Seq(Run) /\ Len(runs) \in Nat /\ DOMAIN runs = 1 .. Len(runs)
  BY DEF RouteTypes
<1>1. RouteTypes'
  BY <1>0 DEF RouteTypes, MonitorStates, MonitorPlaces, MainStates, MonitorWakes, Go,
      MonitorUnchanged
<1>2. OneWorks'
  BY <1>0 DEF OneWorks, RouteTypes, MonitorStates, MainStates, MonitorWakes, Go, MonitorUnchanged
<1>3. Taken'
  BY <1>0 DEF Taken, OneWorks, RouteTypes, MonitorStates, MainStates, MonitorWakes, Go,
      MonitorUnchanged
<1>4. DogsOfHeld'
  BY <1>0 DEF DogsOfHeld, Held, Taken, OneWorks, RouteTypes, MonitorStates, MainStates, Run,
      MonitorWakes, Go, MonitorUnchanged
<1>5. Placed'
  BY <1>0 DEF Placed, Misplaced, DogsOfHeld, Held, Taken, OneWorks, RouteTypes, MonitorStates,
      MainStates, Rules, Run, MonitorWakes, Go, MonitorUnchanged
<1> QED
  BY <1>1, <1>2, <1>3, <1>4, <1>5 DEF RouteInv

LEMMA MonitorReadsKeeps ==
  ASSUME RouteInv, MonitorReads
  PROVE  RouteInv'
<1> USE DEF RouteInv
<1>0. runs \in Seq(Run) /\ Len(runs) \in Nat /\ DOMAIN runs = 1 .. Len(runs)
  BY DEF RouteTypes
<1>a. CASE wanted = "none" /\ route = 0
  <2>a. /\ monitor' = [Started EXCEPT !.timer = FALSE] /\ operation' = "free"
        /\ UNCHANGED <<route, runs, wanted, rules, current, main>>
    BY <1>a DEF MonitorReads, WaitFor, Go, MonitorUnchanged
  <2>1. RouteTypes'
    BY <1>0, <1>a, <2>a, MonitorWaits DEF RouteTypes, MonitorStates, MonitorPlaces, MainStates,
        MonitorReads
  <2>2. OneWorks'
    BY <1>0, <1>a, <2>a, MonitorWaits DEF OneWorks, RouteTypes, MonitorStates, MainStates,
        MonitorReads
  <2>3. Taken'
    BY <1>0, <1>a, <2>a, MonitorWaits DEF Taken, OneWorks, RouteTypes, MonitorStates, MainStates,
        MonitorReads
  <2>4. DogsOfHeld'
    BY <1>0, <1>a, <2>a, MonitorWaits DEF DogsOfHeld, Held, Taken, OneWorks, RouteTypes,
        MonitorStates, MainStates, Run, MonitorReads
  <2>5. Placed'
    BY <1>0, <1>a, <2>a, MonitorWaits DEF Placed, Misplaced, DogsOfHeld, Held, Taken, OneWorks,
        RouteTypes, MonitorStates, MainStates, Rules, Run, MonitorReads
  <2> QED
    BY <2>1, <2>2, <2>3, <2>4, <2>5 DEF RouteInv
<1>b. CASE wanted # "none" /\ (route = 0 \/ (Alive(route) /\ runs[route].profile = wanted))
  <2>a. /\ monitor' = [monitor EXCEPT !.pc = "probe", !.profile = wanted]
        /\ UNCHANGED <<route, runs, operation, wanted, rules, current, main>>
    BY <1>b DEF MonitorReads, Alive, Go, MonitorUnchanged
  <2>1. RouteTypes'
    BY <1>0, <2>a DEF RouteTypes, MonitorStates, MonitorPlaces, MainStates, MonitorReads
  <2>2. OneWorks'
    BY <1>0, <2>a DEF OneWorks, RouteTypes, MonitorStates, MainStates, MonitorReads
  <2>3. Taken'
    BY <1>0, <2>a DEF Taken, OneWorks, RouteTypes, MonitorStates, MainStates, MonitorReads
  <2>4. DogsOfHeld'
    BY <1>0, <2>a DEF DogsOfHeld, Held, Taken, OneWorks, RouteTypes, MonitorStates, MainStates,
        Run, MonitorReads
  <2>5. Placed'
    BY <1>0, <2>a DEF Placed, Misplaced, DogsOfHeld, Held, Taken, OneWorks, RouteTypes,
        MonitorStates, MainStates, Rules, Run, MonitorReads
  <2> QED
    BY <2>1, <2>2, <2>3, <2>4, <2>5 DEF RouteInv
<1>c. CASE route # 0 /\ (wanted = "none" \/ (Alive(route) /\ runs[route].profile # wanted))
  <2>a. PICK t \in BOOLEAN : monitor' = [monitor EXCEPT !.pc = "stop", !.id = route, !.timer = t]
    BY <1>c DEF MonitorReads, TakeRoute, Go
  <2>b. route' = 0 /\ UNCHANGED <<runs, operation, wanted, rules, current, main>>
    BY <1>c DEF MonitorReads, TakeRoute, Go, MonitorUnchanged
  <2>c. /\ monitor' \in MonitorStates /\ monitor'.pc = "stop" /\ monitor'.id = route
        /\ monitor'.undo = monitor.undo
    <3>1. monitor \in MonitorStates /\ route \in Nat
      BY <1>0 DEF RouteTypes
    <3> QED
      BY <3>1, <2>a DEF MonitorStates, MonitorPlaces
  <2>1. RouteTypes'
    BY <1>0, <1>c, <2>b, <2>c DEF RouteTypes, MonitorStates, MonitorPlaces, MainStates,
        MonitorReads
  <2>2. OneWorks'
    BY <1>0, <1>c, <2>b, <2>c DEF OneWorks, RouteTypes, MonitorStates, MainStates, MonitorReads
  <2>3. Taken'
    BY <1>0, <1>c, <2>b, <2>c DEF Taken, OneWorks, RouteTypes, MonitorStates, MainStates,
        MonitorReads
  <2>4. DogsOfHeld'
    BY <1>0, <1>c, <2>b, <2>c DEF DogsOfHeld, Held, Taken, OneWorks, RouteTypes, MonitorStates,
        MainStates, Run, MonitorReads
  <2>5. Placed'
    BY <1>0, <1>c, <2>b, <2>c DEF Placed, Misplaced, DogsOfHeld, Held, Taken, OneWorks, RouteTypes,
        MonitorStates, MainStates, Rules, Run, MonitorReads
  <2> QED
    BY <2>1, <2>2, <2>3, <2>4, <2>5 DEF RouteInv
<1>d. CASE wanted # "none" /\ route # 0 /\ ~Alive(route)
  <2>a. route \in 1 .. Len(runs) /\ runs[route] \in Run
    BY <1>0, <1>d DEF RouteTypes
  <2>b. PICK r : r = [runs[route] EXCEPT !.cancel = TRUE]
    OBVIOUS
  <2>c. r \in Run
    BY <2>a, <2>b DEF Run
  <2>d. runs' = [runs EXCEPT ![route] = r]
    BY <1>d, <1>0, <2>a, <2>b DEF MonitorReads
  <2>e. /\ runs' \in Seq(Run) /\ Len(runs') = Len(runs)
        /\ runs'[route] = r /\ \A j \in 1 .. Len(runs) : j # route => runs'[j] = runs[j]
    BY <1>0, <2>a, <2>c, <2>d, RunChanges
  <2>f. /\ monitor' = [monitor EXCEPT !.pc = "stop", !.id = route, !.timer = TRUE]
        /\ route' = 0 /\ UNCHANGED <<operation, wanted, rules, current, main>>
    BY <1>d DEF MonitorReads, TakeRoute, Go, MonitorUnchanged
  <2>g. /\ monitor' \in MonitorStates /\ monitor'.pc = "stop" /\ monitor'.id = route
        /\ monitor'.undo = monitor.undo
    <3>1. monitor \in MonitorStates /\ route \in Nat
      BY <1>0 DEF RouteTypes
    <3> QED
      BY <3>1, <2>f DEF MonitorStates, MonitorPlaces
  <2>h. route' = 0 /\ UNCHANGED <<operation, wanted, rules, current, main>>
    BY <2>f
  <2>1. RouteTypes'
    BY <1>0, <1>d, <2>a, <2>b, <2>c, <2>e, <2>g, <2>h DEF RouteTypes, MonitorStates, MonitorPlaces,
        MainStates, MonitorReads
  <2>2. OneWorks'
    BY <1>0, <1>d, <2>a, <2>b, <2>c, <2>e, <2>g, <2>h DEF OneWorks, RouteTypes, MonitorStates,
        MainStates, MonitorReads
  <2>3. Taken'
    BY <1>0, <1>d, <2>a, <2>b, <2>c, <2>e, <2>g, <2>h DEF Taken, OneWorks, RouteTypes,
        MonitorStates, MainStates, MonitorReads
  <2>4. DogsOfHeld'
    BY <1>0, <1>d, <2>a, <2>b, <2>c, <2>e, <2>g, <2>h DEF DogsOfHeld, Held, Taken, OneWorks,
        RouteTypes, MonitorStates, MainStates, Run, MonitorReads
  <2>5. Placed'
    BY <1>0, <1>d, <2>a, <2>b, <2>c, <2>e, <2>g, <2>h DEF Placed, Misplaced, DogsOfHeld, Held,
        Taken, OneWorks, RouteTypes, MonitorStates, MainStates, Rules, Run, MonitorReads
  <2> QED
    BY <2>1, <2>2, <2>3, <2>4, <2>5 DEF RouteInv
<1> QED
  BY <1>a, <1>b, <1>c, <1>d

LEMMA MonitorProbesKeeps ==
  ASSUME RouteInv, MonitorProbes
  PROVE  RouteInv'
<1> USE DEF RouteInv
<1>0. runs \in Seq(Run) /\ Len(runs) \in Nat /\ DOMAIN runs = 1 .. Len(runs)
  BY DEF RouteTypes
<1>a. CASE ~(route = 0 <=> listening)
  <2>a. /\ monitor' = [Started EXCEPT !.timer = TRUE] /\ operation' = "free"
        /\ UNCHANGED <<route, runs, wanted, rules, current, main>>
    BY <1>a DEF MonitorProbes, WaitFor, Go, MonitorUnchanged
  <2>1. RouteTypes'
    BY <1>0, <2>a, MonitorWaits DEF RouteTypes, MonitorStates, MonitorPlaces, MainStates,
        MonitorProbes
  <2>2. OneWorks'
    BY <1>0, <2>a, MonitorWaits DEF OneWorks, RouteTypes, MonitorStates, MainStates, MonitorProbes
  <2>3. Taken'
    BY <1>0, <2>a, MonitorWaits DEF Taken, OneWorks, RouteTypes, MonitorStates, MainStates,
        MonitorProbes
  <2>4. DogsOfHeld'
    BY <1>0, <2>a, MonitorWaits DEF DogsOfHeld, Held, Taken, OneWorks, RouteTypes, MonitorStates,
        MainStates, Run, MonitorProbes
  <2>5. Placed'
    BY <1>0, <2>a, MonitorWaits DEF Placed, Misplaced, DogsOfHeld, Held, Taken, OneWorks,
        RouteTypes, MonitorStates, MainStates, Rules, Run, MonitorProbes
  <2> QED
    BY <2>1, <2>2, <2>3, <2>4, <2>5 DEF RouteInv
<1>b. CASE ~listening /\ route # 0
  <2>a. /\ monitor' = [monitor EXCEPT !.pc = "stop", !.id = route, !.timer = TRUE]
        /\ route' = 0 /\ UNCHANGED <<runs, operation, wanted, rules, current, main>>
    BY <1>b DEF MonitorProbes, TakeRoute, Go, MonitorUnchanged
  <2>b. route' = 0 /\ UNCHANGED <<runs, operation, wanted, rules, current, main>>
    BY <2>a
  <2>c. /\ monitor' \in MonitorStates /\ monitor'.pc = "stop" /\ monitor'.id = route
        /\ monitor'.undo = monitor.undo
    <3>1. monitor \in MonitorStates /\ route \in Nat
      BY <1>0 DEF RouteTypes
    <3> QED
      BY <3>1, <2>a DEF MonitorStates, MonitorPlaces
  <2>1. RouteTypes'
    BY <1>0, <1>b, <2>b, <2>c DEF RouteTypes, MonitorStates, MonitorPlaces, MainStates,
        MonitorProbes
  <2>2. OneWorks'
    BY <1>0, <1>b, <2>b, <2>c DEF OneWorks, RouteTypes, MonitorStates, MainStates, MonitorProbes
  <2>3. Taken'
    BY <1>0, <1>b, <2>b, <2>c DEF Taken, OneWorks, RouteTypes, MonitorStates, MainStates,
        MonitorProbes
  <2>4. DogsOfHeld'
    BY <1>0, <1>b, <2>b, <2>c DEF DogsOfHeld, Held, Taken, OneWorks, RouteTypes, MonitorStates,
        MainStates, Run, MonitorProbes
  <2>5. Placed'
    BY <1>0, <1>b, <2>b, <2>c DEF Placed, Misplaced, DogsOfHeld, Held, Taken, OneWorks, RouteTypes,
        MonitorStates, MainStates, Rules, Run, MonitorProbes
  <2> QED
    BY <2>1, <2>2, <2>3, <2>4, <2>5 DEF RouteInv
<1>c. CASE listening /\ route = 0
  <2>a. /\ monitor' = [monitor EXCEPT !.pc = "start"]
        /\ UNCHANGED <<route, runs, operation, wanted, rules, current, main>>
    BY <1>c DEF MonitorProbes, Go, MonitorUnchanged
  <2>1. RouteTypes'
    BY <1>0, <1>c, <2>a DEF RouteTypes, MonitorStates, MonitorPlaces, MainStates, MonitorProbes
  <2>2. OneWorks'
    BY <1>0, <1>c, <2>a DEF OneWorks, RouteTypes, MonitorStates, MainStates, MonitorProbes
  <2>3. Taken'
    BY <1>0, <1>c, <2>a DEF Taken, OneWorks, RouteTypes, MonitorStates, MainStates, MonitorProbes
  <2>4. DogsOfHeld'
    BY <1>0, <1>c, <2>a DEF DogsOfHeld, Held, Taken, OneWorks, RouteTypes, MonitorStates,
        MainStates, Run, MonitorProbes
  <2>5. Placed'
    BY <1>0, <1>c, <2>a DEF Placed, Misplaced, DogsOfHeld, Held, Taken, OneWorks, RouteTypes,
        MonitorStates, MainStates, Rules, Run, MonitorProbes
  <2> QED
    BY <2>1, <2>2, <2>3, <2>4, <2>5 DEF RouteInv
<1> QED
  BY <1>a, <1>b, <1>c

\* ProxyRoute::connect: the child, then its rules.
LEMMA ChildStartsKeeps ==
  ASSUME RouteInv, ChildStarts
  PROVE  RouteInv'
<1> USE DEF RouteInv
<1>0. runs \in Seq(Run) /\ Len(runs) \in Nat /\ DOMAIN runs = 1 .. Len(runs)
  BY DEF RouteTypes
<1>a. NewRun("up") \in Run /\ NewRun("up").dog = "off"
  BY DEF NewRun, Run, RouteTypes, MonitorStates
<1>b. /\ runs' \in Seq(Run) /\ Len(runs') = Len(runs) + 1
      /\ runs'[Len(runs) + 1] = NewRun("up") /\ \A j \in 1 .. Len(runs) : runs'[j] = runs[j]
  BY <1>0, <1>a, RunBegins DEF ChildStarts
<1>c. /\ monitor' = [monitor EXCEPT !.pc = "activate", !.id = Len(runs) + 1]
      /\ UNCHANGED <<route, wanted, rules, current, operation, main>>
  BY DEF ChildStarts, Go, MonitorUnchanged
<1>d. monitor' \in MonitorStates
  <2>1. PICK n \in Nat : n = Len(runs) + 1
    BY <1>0
  <2>2. monitor' = [monitor EXCEPT !.pc = "activate", !.id = n]
    BY <1>c, <2>1
  <2> QED
    BY <2>2 DEF RouteTypes, MonitorStates, MonitorPlaces
<1>1. RouteTypes'
  BY <1>0, <1>a, <1>b, <1>c, <1>d DEF RouteTypes, MonitorStates, MonitorPlaces, MainStates,
      ChildStarts
<1>2. OneWorks'
  BY <1>0, <1>a, <1>b, <1>c, <1>d DEF OneWorks, RouteTypes, MonitorStates, MainStates, ChildStarts
<1>3. Taken'
  BY <1>0, <1>a, <1>b, <1>c, <1>d DEF Taken, OneWorks, RouteTypes, MonitorStates, MainStates,
      ChildStarts
<1>4. DogsOfHeld'
  BY <1>0, <1>a, <1>b, <1>c, <1>d DEF DogsOfHeld, Held, Taken, OneWorks, RouteTypes, MonitorStates,
      MainStates, Run, ChildStarts
<1>5. Placed'
  BY <1>0, <1>a, <1>b, <1>c, <1>d DEF Placed, Misplaced, DogsOfHeld, Held, Taken, OneWorks,
      RouteTypes, MonitorStates, MainStates, Rules, Run, ChildStarts
<1> QED
  BY <1>1, <1>2, <1>3, <1>4, <1>5 DEF RouteInv

LEMMA ChildStartFailsKeeps ==
  ASSUME RouteInv, ChildStartFails
  PROVE  RouteInv'
<1> USE DEF RouteInv
<1>0. runs \in Seq(Run) /\ Len(runs) \in Nat /\ DOMAIN runs = 1 .. Len(runs)
  BY DEF RouteTypes
<1>a. NewRun("gone") \in Run /\ NewRun("gone").dog = "off"
  BY DEF NewRun, Run, RouteTypes, MonitorStates
<1>b. UNCHANGED <<route, wanted, rules, current, main>>
  BY DEF ChildStartFails, MonitorUnchanged
<1>c. CASE runs' = Append(runs, NewRun("gone")) /\ Go([monitor EXCEPT !.attempts = @ + 1])
           /\ UNCHANGED operation
  <2>a. /\ runs' \in Seq(Run) /\ Len(runs') = Len(runs) + 1
        /\ runs'[Len(runs) + 1] = NewRun("gone") /\ \A j \in 1 .. Len(runs) : runs'[j] = runs[j]
    BY <1>0, <1>a, <1>c, RunBegins
  <2>b. monitor' = [monitor EXCEPT !.attempts = @ + 1] /\ operation' = operation
    BY <1>c DEF Go
  <2>c. monitor' \in MonitorStates
    BY <2>b DEF RouteTypes, MonitorStates
  <2>1. RouteTypes'
    BY <1>0, <1>a, <1>b, <2>a, <2>b, <2>c DEF RouteTypes, MonitorStates, MonitorPlaces, MainStates,
        ChildStartFails
  <2>2. OneWorks'
    BY <1>0, <1>a, <1>b, <2>a, <2>b, <2>c DEF OneWorks, RouteTypes, MonitorStates, MainStates,
        ChildStartFails
  <2>3. Taken'
    BY <1>0, <1>a, <1>b, <2>a, <2>b, <2>c DEF Taken, OneWorks, RouteTypes, MonitorStates,
        MainStates, ChildStartFails
  <2>4. DogsOfHeld'
    BY <1>0, <1>a, <1>b, <2>a, <2>b, <2>c DEF DogsOfHeld, Held, Taken, OneWorks, RouteTypes,
        MonitorStates, MainStates, Run, ChildStartFails
  <2>5. Placed'
    BY <1>0, <1>a, <1>b, <2>a, <2>b, <2>c DEF Placed, Misplaced, DogsOfHeld, Held, Taken, OneWorks,
        RouteTypes, MonitorStates, MainStates, Rules, Run, ChildStartFails
  <2> QED
    BY <2>1, <2>2, <2>3, <2>4, <2>5 DEF RouteInv
<1>d. CASE WaitFor(TRUE) /\ UNCHANGED runs
  <2>a. monitor' = [Started EXCEPT !.timer = TRUE] /\ operation' = "free" /\ runs' = runs
    BY <1>d DEF WaitFor, Go
  <2>1. RouteTypes'
    BY <1>0, <1>b, <2>a, MonitorWaits DEF RouteTypes, MonitorStates, MonitorPlaces, MainStates,
        ChildStartFails
  <2>2. OneWorks'
    BY <1>0, <1>b, <2>a, MonitorWaits DEF OneWorks, RouteTypes, MonitorStates, MainStates,
        ChildStartFails
  <2>3. Taken'
    BY <1>0, <1>b, <2>a, MonitorWaits DEF Taken, OneWorks, RouteTypes, MonitorStates, MainStates,
        ChildStartFails
  <2>4. DogsOfHeld'
    BY <1>0, <1>b, <2>a, MonitorWaits DEF DogsOfHeld, Held, Taken, OneWorks, RouteTypes,
        MonitorStates, MainStates, Run, ChildStartFails
  <2>5. Placed'
    BY <1>0, <1>b, <2>a, MonitorWaits DEF Placed, Misplaced, DogsOfHeld, Held, Taken, OneWorks,
        RouteTypes, MonitorStates, MainStates, Rules, Run, ChildStartFails
  <2> QED
    BY <2>1, <2>2, <2>3, <2>4, <2>5 DEF RouteInv
<1> QED
  BY <1>c, <1>d DEF ChildStartFails

LEMMA ActivateKeeps ==
  ASSUME RouteInv, Activate
  PROVE  RouteInv'
<1> USE DEF RouteInv
<1>0. runs \in Seq(Run) /\ Len(runs) \in Nat /\ DOMAIN runs = 1 .. Len(runs)
  BY DEF RouteTypes
<1>1. RouteTypes'
  BY <1>0, RulesCleared DEF RouteTypes, MonitorStates, MonitorPlaces, MainStates, Activate, Go,
      MonitorUnchanged
<1>2. OneWorks'
  BY <1>0, RulesCleared DEF OneWorks, RouteTypes, MonitorStates, MainStates, Activate, Go,
      MonitorUnchanged
<1>3. Taken'
  BY <1>0, RulesCleared DEF Taken, OneWorks, RouteTypes, MonitorStates, MainStates, Activate, Go,
      MonitorUnchanged
<1>4. DogsOfHeld'
  BY <1>0, RulesCleared DEF DogsOfHeld, Held, Taken, OneWorks, RouteTypes, MonitorStates,
      MainStates, Run, Activate, Go, MonitorUnchanged
<1>5. Placed'
  BY <1>0, RulesCleared DEF Placed, Misplaced, DogsOfHeld, Held, Taken, OneWorks, RouteTypes,
      MonitorStates, MainStates, Rules, Run, Activate, Go, MonitorUnchanged
<1> QED
  BY <1>1, <1>2, <1>3, <1>4, <1>5 DEF RouteInv

LEMMA RouteReadyKeeps ==
  ASSUME RouteInv, RouteReady
  PROVE  RouteInv'
<1> USE DEF RouteInv
<1>0. runs \in Seq(Run) /\ Len(runs) \in Nat /\ DOMAIN runs = 1 .. Len(runs)
  BY DEF RouteTypes
<1>a. monitor.id \in 1 .. Len(runs) /\ runs[monitor.id] \in Run
  BY <1>0 DEF RouteReady, Taken
<1>b. PICK r : r = [runs[monitor.id] EXCEPT !.dog = "idle"]
  OBVIOUS
<1>c. r \in Run
  BY <1>a, <1>b DEF Run
<1>d. runs' = [runs EXCEPT ![monitor.id] = r]
  BY <1>0, <1>a, <1>b DEF RouteReady
<1>e. /\ runs' \in Seq(Run) /\ Len(runs') = Len(runs)
      /\ runs'[monitor.id] = r /\ \A j \in 1 .. Len(runs) : j # monitor.id => runs'[j] = runs[j]
  BY <1>0, <1>a, <1>c, <1>d, RunChanges
<1>f. /\ monitor' = [Started EXCEPT !.timer = TRUE] /\ rules' = Installed(monitor.id, Full)
      /\ route' = monitor.id /\ current' = monitor.id /\ operation' = "free" /\ UNCHANGED <<wanted, main>>
  BY DEF RouteReady, WaitFor, Go, MonitorUnchanged
<1>g. /\ rules' \in Rules /\ rules'.port = monitor.id
      /\ monitor' \in MonitorStates /\ monitor'.pc = "wait" /\ monitor'.undo = FALSE
  <2>1. Full \in 0 .. Full
    BY DEF Full
  <2>2. rules' \in Rules /\ rules'.port = monitor.id
    BY <1>a, <1>f, <2>1, RulesInstalled
  <2> QED
    BY <1>f, <2>2, MonitorWaits
<1>1. RouteTypes'
  BY <1>0, <1>a, <1>b, <1>c, <1>e, <1>f, <1>g DEF RouteTypes, MonitorStates, MonitorPlaces,
      MainStates, RouteReady
<1>2. OneWorks'
  BY <1>0, <1>a, <1>b, <1>c, <1>e, <1>f, <1>g DEF OneWorks, RouteTypes, MonitorStates, MainStates,
      RouteReady
<1>3. Taken'
  BY <1>0, <1>a, <1>b, <1>c, <1>e, <1>f, <1>g DEF Taken, OneWorks, RouteTypes, MonitorStates,
      MainStates, RouteReady
<1>4. DogsOfHeld'
  BY <1>0, <1>a, <1>b, <1>c, <1>e, <1>f, <1>g DEF DogsOfHeld, Held, Taken, OneWorks, RouteTypes,
      MonitorStates, MainStates, Run, RouteReady
<1>5. Placed'
  BY <1>0, <1>a, <1>b, <1>c, <1>e, <1>f, <1>g DEF Placed, Misplaced, DogsOfHeld, Held, Taken,
      OneWorks, RouteTypes, MonitorStates, MainStates, Rules, Run, RouteReady
<1> QED
  BY <1>1, <1>2, <1>3, <1>4, <1>5 DEF RouteInv

LEMMA ActivateFailsKeeps ==
  ASSUME RouteInv, ActivateFails
  PROVE  RouteInv'
<1> USE DEF RouteInv
<1>0. runs \in Seq(Run) /\ Len(runs) \in Nat /\ DOMAIN runs = 1 .. Len(runs)
  BY DEF RouteTypes
<1>a. PICK level \in 0 .. Full : rules' = Installed(monitor.id, level)
  BY DEF ActivateFails, Full
<1>b. rules' \in Rules /\ rules'.port = monitor.id
  BY <1>a, RulesInstalled DEF ActivateFails, Taken
<1>1. RouteTypes'
  BY <1>0, <1>b DEF RouteTypes, MonitorStates, MonitorPlaces, MainStates, ActivateFails, Go,
      MonitorUnchanged
<1>2. OneWorks'
  BY <1>0, <1>b DEF OneWorks, RouteTypes, MonitorStates, MainStates, ActivateFails, Go,
      MonitorUnchanged
<1>3. Taken'
  BY <1>0, <1>b DEF Taken, OneWorks, RouteTypes, MonitorStates, MainStates, ActivateFails, Go,
      MonitorUnchanged
<1>4. DogsOfHeld'
  BY <1>0, <1>b DEF DogsOfHeld, Held, Taken, OneWorks, RouteTypes, MonitorStates, MainStates, Run,
      ActivateFails, Go, MonitorUnchanged
<1>5. Placed'
  BY <1>0, <1>b DEF Placed, Misplaced, DogsOfHeld, Held, Taken, OneWorks, RouteTypes,
      MonitorStates, MainStates, Rules, Run, ActivateFails, Go, MonitorUnchanged
<1> QED
  BY <1>1, <1>2, <1>3, <1>4, <1>5 DEF RouteInv

\* deactivate: the child, then its rules.
LEMMA MonitorStopsKeeps ==
  ASSUME RouteInv, MonitorStops
  PROVE  RouteInv'
<1> USE DEF RouteInv
<1>0. runs \in Seq(Run) /\ Len(runs) \in Nat /\ DOMAIN runs = 1 .. Len(runs)
  BY DEF RouteTypes
<1>a. monitor.id \in 1 .. Len(runs) /\ runs[monitor.id] \in Run
  BY <1>0 DEF MonitorStops, Taken
<1>b. PICK r : r = [runs[monitor.id] EXCEPT !.cancel = TRUE, !.child = "gone"]
  OBVIOUS
<1>c. r \in Run
  BY <1>a, <1>b DEF Run
<1>d. runs' = [runs EXCEPT ![monitor.id] = r]
  BY <1>0, <1>a, <1>b DEF MonitorStops, StopChild
<1>e. /\ runs' \in Seq(Run) /\ Len(runs') = Len(runs)
      /\ runs'[monitor.id] = r /\ \A j \in 1 .. Len(runs) : j # monitor.id => runs'[j] = runs[j]
  BY <1>0, <1>a, <1>c, <1>d, RunChanges
<1>1. RouteTypes'
  BY <1>0, <1>a, <1>b, <1>c, <1>e DEF RouteTypes, MonitorStates, MonitorPlaces, MainStates,
      MonitorStops, Go, MonitorUnchanged
<1>2. OneWorks'
  BY <1>0, <1>a, <1>b, <1>c, <1>e DEF OneWorks, RouteTypes, MonitorStates, MainStates,
      MonitorStops, Go, MonitorUnchanged
<1>3. Taken'
  BY <1>0, <1>a, <1>b, <1>c, <1>e DEF Taken, OneWorks, RouteTypes, MonitorStates, MainStates,
      MonitorStops, Go, MonitorUnchanged
<1>4. DogsOfHeld'
  BY <1>0, <1>a, <1>b, <1>c, <1>e DEF DogsOfHeld, Held, Taken, OneWorks, RouteTypes, MonitorStates,
      MainStates, Run, MonitorStops, Go, MonitorUnchanged
<1>5. Placed'
  BY <1>0, <1>a, <1>b, <1>c, <1>e DEF Placed, Misplaced, DogsOfHeld, Held, Taken, OneWorks,
      RouteTypes, MonitorStates, MainStates, Rules, Run, MonitorStops, Go, MonitorUnchanged
<1> QED
  BY <1>1, <1>2, <1>3, <1>4, <1>5 DEF RouteInv

LEMMA MonitorCleansKeeps ==
  ASSUME RouteInv, MonitorCleans
  PROVE  RouteInv'
<1> USE DEF RouteInv
<1>0. runs \in Seq(Run) /\ Len(runs) \in Nat /\ DOMAIN runs = 1 .. Len(runs)
  BY DEF RouteTypes
<1>a. /\ monitor' \in MonitorStates /\ monitor'.pc = "wait" /\ monitor'.undo = FALSE
  BY MonitorWaits DEF MonitorCleans, WaitFor, Go, RouteTypes, MonitorStates
<1>b. operation' = "free" /\ UNCHANGED <<runs, route, wanted, main>>
  BY DEF MonitorCleans, WaitFor, MonitorUnchanged
<1>1. RouteTypes'
  BY <1>0, <1>a, <1>b, RulesCleared DEF RouteTypes, MonitorStates, MonitorPlaces, MainStates,
      MonitorCleans, CleanUp
<1>2. OneWorks'
  BY <1>0, <1>a, <1>b, RulesCleared DEF OneWorks, RouteTypes, MonitorStates, MainStates,
      MonitorCleans, CleanUp
<1>3. Taken'
  BY <1>0, <1>a, <1>b, RulesCleared DEF Taken, OneWorks, RouteTypes, MonitorStates, MainStates,
      MonitorCleans, CleanUp
<1>4. DogsOfHeld'
  BY <1>0, <1>a, <1>b, RulesCleared DEF DogsOfHeld, Held, Taken, OneWorks, RouteTypes,
      MonitorStates, MainStates, Run, MonitorCleans, CleanUp
<1>5. Placed'
  BY <1>0, <1>a, <1>b, RulesCleared DEF Placed, Misplaced, DogsOfHeld, Held, Taken, OneWorks,
      RouteTypes, MonitorStates, MainStates, Rules, Run, MonitorCleans, CleanUp
<1> QED
  BY <1>1, <1>2, <1>3, <1>4, <1>5 DEF RouteInv

\* The watchdog of a route.
LEMMA DogTicksKeeps ==
  ASSUME RouteInv, NEW i \in DOMAIN runs, DogTicks(i)
  PROVE  RouteInv'
<1> USE DEF RouteInv
<1>0. runs \in Seq(Run) /\ Len(runs) \in Nat /\ DOMAIN runs = 1 .. Len(runs)
  BY DEF RouteTypes
<1>a. i \in 1 .. Len(runs) /\ runs[i] \in Run
  BY <1>0 DEF DogTicks, Taken
<1>b. PICK r : r = [runs[i] EXCEPT !.dog = "look"]
  OBVIOUS
<1>c. r \in Run
  BY <1>a, <1>b DEF Run
<1>d. runs' = [runs EXCEPT ![i] = r]
  BY <1>0, <1>a, <1>b DEF DogTicks
<1>e. /\ runs' \in Seq(Run) /\ Len(runs') = Len(runs)
      /\ runs'[i] = r /\ \A j \in 1 .. Len(runs) : j # i => runs'[j] = runs[j]
  BY <1>0, <1>a, <1>c, <1>d, RunChanges
<1>1. RouteTypes'
  BY <1>0, <1>a, <1>b, <1>c, <1>e DEF RouteTypes, MonitorStates, MonitorPlaces, MainStates,
      DogTicks, DogUnchanged
<1>2. OneWorks'
  BY <1>0, <1>a, <1>b, <1>c, <1>e DEF OneWorks, RouteTypes, MonitorStates, MainStates, DogTicks,
      DogUnchanged
<1>3. Taken'
  BY <1>0, <1>a, <1>b, <1>c, <1>e DEF Taken, OneWorks, RouteTypes, MonitorStates, MainStates,
      DogTicks, DogUnchanged
<1>4. DogsOfHeld'
  BY <1>0, <1>a, <1>b, <1>c, <1>e DEF DogsOfHeld, Held, Taken, OneWorks, RouteTypes, MonitorStates,
      MainStates, Run, DogTicks, DogUnchanged
<1>5. Placed'
  BY <1>0, <1>a, <1>b, <1>c, <1>e DEF Placed, Misplaced, DogsOfHeld, Held, Taken, OneWorks,
      RouteTypes, MonitorStates, MainStates, Rules, Run, DogTicks, DogUnchanged
<1> QED
  BY <1>1, <1>2, <1>3, <1>4, <1>5 DEF RouteInv

LEMMA DogLooksKeeps ==
  ASSUME RouteInv, NEW i \in DOMAIN runs, DogLooks(i)
  PROVE  RouteInv'
<1> USE DEF RouteInv
<1>0. runs \in Seq(Run) /\ Len(runs) \in Nat /\ DOMAIN runs = 1 .. Len(runs)
  BY DEF RouteTypes
<1>a. i \in 1 .. Len(runs) /\ runs[i] \in Run
  BY <1>0 DEF DogLooks, Taken
<1>b. PICK r : r = [runs[i] EXCEPT !.dog = IF Present(i) THEN "idle" ELSE "repair"]
  OBVIOUS
<1>c. r \in Run
  BY <1>a, <1>b DEF Run
<1>d. runs' = [runs EXCEPT ![i] = r]
  BY <1>0, <1>a, <1>b DEF DogLooks
<1>e. /\ runs' \in Seq(Run) /\ Len(runs') = Len(runs)
      /\ runs'[i] = r /\ \A j \in 1 .. Len(runs) : j # i => runs'[j] = runs[j]
  BY <1>0, <1>a, <1>c, <1>d, RunChanges
<1>1. RouteTypes'
  BY <1>0, <1>a, <1>b, <1>c, <1>e DEF RouteTypes, MonitorStates, MonitorPlaces, MainStates,
      DogLooks, DogUnchanged
<1>2. OneWorks'
  BY <1>0, <1>a, <1>b, <1>c, <1>e DEF OneWorks, RouteTypes, MonitorStates, MainStates, DogLooks,
      DogUnchanged
<1>3. Taken'
  BY <1>0, <1>a, <1>b, <1>c, <1>e DEF Taken, OneWorks, RouteTypes, MonitorStates, MainStates,
      DogLooks, DogUnchanged
<1>4. DogsOfHeld'
  BY <1>0, <1>a, <1>b, <1>c, <1>e DEF DogsOfHeld, Held, Taken, OneWorks, RouteTypes, MonitorStates,
      MainStates, Run, DogLooks, DogUnchanged
<1>5. Placed'
  BY <1>0, <1>a, <1>b, <1>c, <1>e DEF Placed, Misplaced, DogsOfHeld, Held, Taken, OneWorks,
      RouteTypes, MonitorStates, MainStates, Rules, Run, DogLooks, DogUnchanged
<1> QED
  BY <1>1, <1>2, <1>3, <1>4, <1>5 DEF RouteInv

LEMMA DogEndsKeeps ==
  ASSUME RouteInv, NEW i \in DOMAIN runs, DogEnds(i)
  PROVE  RouteInv'
<1> USE DEF RouteInv
<1>0. runs \in Seq(Run) /\ Len(runs) \in Nat /\ DOMAIN runs = 1 .. Len(runs)
  BY DEF RouteTypes
<1>a. i \in 1 .. Len(runs) /\ runs[i] \in Run
  BY <1>0 DEF DogEnds, Taken
<1>b. PICK r : r = [runs[i] EXCEPT !.dog = "off"]
  OBVIOUS
<1>c. r \in Run
  BY <1>a, <1>b DEF Run
<1>d. runs' = [runs EXCEPT ![i] = r]
  BY <1>0, <1>a, <1>b DEF DogEnds
<1>e. /\ runs' \in Seq(Run) /\ Len(runs') = Len(runs)
      /\ runs'[i] = r /\ \A j \in 1 .. Len(runs) : j # i => runs'[j] = runs[j]
  BY <1>0, <1>a, <1>c, <1>d, RunChanges
<1>1. RouteTypes'
  BY <1>0, <1>a, <1>b, <1>c, <1>e DEF RouteTypes, MonitorStates, MonitorPlaces, MainStates,
      DogEnds, DogUnchanged
<1>2. OneWorks'
  BY <1>0, <1>a, <1>b, <1>c, <1>e DEF OneWorks, RouteTypes, MonitorStates, MainStates, DogEnds,
      DogUnchanged
<1>3. Taken'
  BY <1>0, <1>a, <1>b, <1>c, <1>e DEF Taken, OneWorks, RouteTypes, MonitorStates, MainStates,
      DogEnds, DogUnchanged
<1>4. DogsOfHeld'
  BY <1>0, <1>a, <1>b, <1>c, <1>e DEF DogsOfHeld, Held, Taken, OneWorks, RouteTypes, MonitorStates,
      MainStates, Run, DogEnds, DogUnchanged
<1>5. Placed'
  BY <1>0, <1>a, <1>b, <1>c, <1>e DEF Placed, Misplaced, DogsOfHeld, Held, Taken, OneWorks,
      RouteTypes, MonitorStates, MainStates, Rules, Run, DogEnds, DogUnchanged
<1> QED
  BY <1>1, <1>2, <1>3, <1>4, <1>5 DEF RouteInv

LEMMA DogLocksKeeps ==
  ASSUME RouteInv, NEW i \in DOMAIN runs, DogLocks(i)
  PROVE  RouteInv'
<1> USE DEF RouteInv
<1>0. runs \in Seq(Run) /\ Len(runs) \in Nat /\ DOMAIN runs = 1 .. Len(runs)
  BY DEF RouteTypes
<1>1. RouteTypes'
  BY <1>0, RulesCleared DEF RouteTypes, MonitorStates, MonitorPlaces, MainStates, DogLocks,
      DogUnchanged
<1>2. OneWorks'
  BY <1>0, RulesCleared DEF OneWorks, RouteTypes, MonitorStates, MainStates, DogLocks, DogUnchanged
<1>3. Taken'
  BY <1>0, RulesCleared DEF Taken, OneWorks, RouteTypes, MonitorStates, MainStates, DogLocks,
      DogUnchanged
<1>4. DogsOfHeld'
  BY <1>0, RulesCleared DEF DogsOfHeld, Held, Taken, OneWorks, RouteTypes, MonitorStates,
      MainStates, Run, DogLocks, DogUnchanged
<1>5. Placed'
  BY <1>0, RulesCleared DEF Placed, Misplaced, DogsOfHeld, Held, Taken, OneWorks, RouteTypes,
      MonitorStates, MainStates, Rules, Run, DogLocks, DogUnchanged
<1> QED
  BY <1>1, <1>2, <1>3, <1>4, <1>5 DEF RouteInv

LEMMA DogInstallsKeeps ==
  ASSUME RouteInv, NEW i \in DOMAIN runs, DogInstalls(i)
  PROVE  RouteInv'
<1> USE DEF RouteInv
<1>0. runs \in Seq(Run) /\ Len(runs) \in Nat /\ DOMAIN runs = 1 .. Len(runs)
  BY DEF RouteTypes
<1>a. i \in 1 .. Len(runs) /\ runs[i] \in Run
  BY <1>0 DEF DogInstalls, Taken
<1>b. PICK r : r = [runs[i] EXCEPT !.dog = "idle"]
  OBVIOUS
<1>c. r \in Run
  BY <1>a, <1>b DEF Run
<1>d. runs' = [runs EXCEPT ![i] = r]
  BY <1>0, <1>a, <1>b DEF DogInstalls
<1>e. /\ runs' \in Seq(Run) /\ Len(runs') = Len(runs)
      /\ runs'[i] = r /\ \A j \in 1 .. Len(runs) : j # i => runs'[j] = runs[j]
  BY <1>0, <1>a, <1>c, <1>d, RunChanges
<1>f. rules' \in Rules /\ rules'.port = i /\ rules'.late = runs[i].cancel
  BY <1>a, RulesInstalled DEF DogInstalls, Full
<1>1. RouteTypes'
  BY <1>0, <1>a, <1>b, <1>c, <1>e, <1>f DEF RouteTypes, MonitorStates, MonitorPlaces, MainStates,
      DogInstalls, DogUnchanged
<1>2. OneWorks'
  BY <1>0, <1>a, <1>b, <1>c, <1>e, <1>f DEF OneWorks, RouteTypes, MonitorStates, MainStates,
      DogInstalls, DogUnchanged
<1>3. Taken'
  BY <1>0, <1>a, <1>b, <1>c, <1>e, <1>f DEF Taken, OneWorks, RouteTypes, MonitorStates, MainStates,
      DogInstalls, DogUnchanged
<1>4. DogsOfHeld'
  BY <1>0, <1>a, <1>b, <1>c, <1>e, <1>f DEF DogsOfHeld, Held, Taken, OneWorks, RouteTypes,
      MonitorStates, MainStates, Run, DogInstalls, DogUnchanged
<1>5. Placed'
  BY <1>0, <1>a, <1>b, <1>c, <1>e, <1>f DEF Placed, Misplaced, DogsOfHeld, Held, Taken, OneWorks,
      RouteTypes, MonitorStates, MainStates, Rules, Run, DogInstalls, DogUnchanged
<1> QED
  BY <1>1, <1>2, <1>3, <1>4, <1>5 DEF RouteInv

LEMMA DogFailsKeeps ==
  ASSUME RouteInv, NEW i \in DOMAIN runs, DogFails(i)
  PROVE  RouteInv'
<1> USE DEF RouteInv
<1>0. runs \in Seq(Run) /\ Len(runs) \in Nat /\ DOMAIN runs = 1 .. Len(runs)
  BY DEF RouteTypes
<1>a. i \in 1 .. Len(runs) /\ runs[i] \in Run
  BY <1>0 DEF DogFails, Taken
<1>b. PICK r : r = [runs[i] EXCEPT !.dog = "idle"]
  OBVIOUS
<1>c. r \in Run
  BY <1>a, <1>b DEF Run
<1>d. runs' = [runs EXCEPT ![i] = r]
  BY <1>0, <1>a, <1>b DEF DogFails
<1>e. /\ runs' \in Seq(Run) /\ Len(runs') = Len(runs)
      /\ runs'[i] = r /\ \A j \in 1 .. Len(runs) : j # i => runs'[j] = runs[j]
  BY <1>0, <1>a, <1>c, <1>d, RunChanges
<1>f. rules' \in Rules /\ rules'.port = i /\ rules'.late = runs[i].cancel
  BY <1>a, RulesInstalled DEF DogFails, Full
<1>1. RouteTypes'
  BY <1>0, <1>a, <1>b, <1>c, <1>e, <1>f DEF RouteTypes, MonitorStates, MonitorPlaces, MainStates,
      DogFails, DogUnchanged
<1>2. OneWorks'
  BY <1>0, <1>a, <1>b, <1>c, <1>e, <1>f DEF OneWorks, RouteTypes, MonitorStates, MainStates,
      DogFails, DogUnchanged
<1>3. Taken'
  BY <1>0, <1>a, <1>b, <1>c, <1>e, <1>f DEF Taken, OneWorks, RouteTypes, MonitorStates, MainStates,
      DogFails, DogUnchanged
<1>4. DogsOfHeld'
  BY <1>0, <1>a, <1>b, <1>c, <1>e, <1>f DEF DogsOfHeld, Held, Taken, OneWorks, RouteTypes,
      MonitorStates, MainStates, Run, DogFails, DogUnchanged
<1>5. Placed'
  BY <1>0, <1>a, <1>b, <1>c, <1>e, <1>f DEF Placed, Misplaced, DogsOfHeld, Held, Taken, OneWorks,
      RouteTypes, MonitorStates, MainStates, Rules, Run, DogFails, DogUnchanged
<1> QED
  BY <1>1, <1>2, <1>3, <1>4, <1>5 DEF RouteInv

\* The end and the start of the server.
LEMMA ShutdownKeeps ==
  ASSUME RouteInv, Shutdown
  PROVE  RouteInv'
<1> USE DEF RouteInv
<1>0. runs \in Seq(Run) /\ Len(runs) \in Nat /\ DOMAIN runs = 1 .. Len(runs)
  BY DEF RouteTypes
<1>1. RouteTypes'
  BY <1>0 DEF RouteTypes, MonitorStates, MonitorPlaces, MainStates, Shutdown, MainUnchanged
<1>2. OneWorks'
  BY <1>0 DEF OneWorks, RouteTypes, MonitorStates, MainStates, Shutdown, MainUnchanged
<1>3. Taken'
  BY <1>0 DEF Taken, OneWorks, RouteTypes, MonitorStates, MainStates, Shutdown, MainUnchanged
<1>4. DogsOfHeld'
  BY <1>0 DEF DogsOfHeld, Held, Taken, OneWorks, RouteTypes, MonitorStates, MainStates, Run,
      Shutdown, MainUnchanged
<1>5. Placed'
  BY <1>0 DEF Placed, Misplaced, DogsOfHeld, Held, Taken, OneWorks, RouteTypes, MonitorStates,
      MainStates, Rules, Run, Shutdown, MainUnchanged
<1> QED
  BY <1>1, <1>2, <1>3, <1>4, <1>5 DEF RouteInv

LEMMA MainStopsKeeps ==
  ASSUME RouteInv, MainStops
  PROVE  RouteInv'
<1> USE DEF RouteInv
<1>0. runs \in Seq(Run) /\ Len(runs) \in Nat /\ DOMAIN runs = 1 .. Len(runs)
  BY DEF RouteTypes
<1>a. main.id \in 1 .. Len(runs) /\ runs[main.id] \in Run
  BY <1>0 DEF MainStops, Taken
<1>b. PICK r : r = [runs[main.id] EXCEPT !.cancel = TRUE, !.child = "gone"]
  OBVIOUS
<1>c. r \in Run
  BY <1>a, <1>b DEF Run
<1>d. runs' = [runs EXCEPT ![main.id] = r]
  BY <1>0, <1>a, <1>b DEF MainStops, StopChild
<1>e. /\ runs' \in Seq(Run) /\ Len(runs') = Len(runs)
      /\ runs'[main.id] = r /\ \A j \in 1 .. Len(runs) : j # main.id => runs'[j] = runs[j]
  BY <1>0, <1>a, <1>c, <1>d, RunChanges
<1>f. r.cancel
  BY <1>a, <1>b DEF Run
<1>g. /\ main' = [main EXCEPT !.pc = "clean"]
      /\ UNCHANGED <<route, rules, current, operation, monitor, wanted>>
  BY DEF MainStops, MainUnchanged
<1>h. main.pc = "stop"
  BY DEF MainStops
<1>1. RouteTypes'
  BY <1>0, <1>a, <1>c, <1>e, <1>f, <1>g, <1>h DEF RouteTypes, MonitorStates, MonitorPlaces,
      MainStates
<1>2. OneWorks'
  BY <1>0, <1>a, <1>c, <1>e, <1>f, <1>g, <1>h DEF OneWorks, RouteTypes, MonitorStates, MainStates,
      MainStops
<1>3. Taken'
  BY <1>0, <1>a, <1>c, <1>e, <1>f, <1>g, <1>h DEF Taken, OneWorks, RouteTypes, MonitorStates,
      MainStates
<1>4. DogsOfHeld'
  BY <1>0, <1>a, <1>c, <1>e, <1>f, <1>g, <1>h DEF DogsOfHeld, Held, Taken, OneWorks, RouteTypes,
      MonitorStates, MainStates, Run
<1>5. Placed'
  BY <1>0, <1>a, <1>c, <1>e, <1>f, <1>g, <1>h DEF Placed, Misplaced, DogsOfHeld, Held, Taken,
      OneWorks, RouteTypes, MonitorStates, MainStates, Rules, Run
<1> QED
  BY <1>1, <1>2, <1>3, <1>4, <1>5 DEF RouteInv

LEMMA MainCleansKeeps ==
  ASSUME RouteInv, MainCleans
  PROVE  RouteInv'
<1> USE DEF RouteInv
<1>0. runs \in Seq(Run) /\ Len(runs) \in Nat /\ DOMAIN runs = 1 .. Len(runs)
  BY DEF RouteTypes
<1>1. RouteTypes'
  BY <1>0, RulesCleared DEF RouteTypes, MonitorStates, MonitorPlaces, MainStates, MainCleans,
      CleanUp, MainUnchanged
<1>2. OneWorks'
  BY <1>0, RulesCleared DEF OneWorks, RouteTypes, MonitorStates, MainStates, MainCleans, CleanUp,
      MainUnchanged
<1>3. Taken'
  BY <1>0, RulesCleared DEF Taken, OneWorks, RouteTypes, MonitorStates, MainStates, MainCleans,
      CleanUp, MainUnchanged
<1>4. DogsOfHeld'
  BY <1>0, RulesCleared DEF DogsOfHeld, Held, Taken, OneWorks, RouteTypes, MonitorStates,
      MainStates, Run, MainCleans, CleanUp, MainUnchanged
<1>5. Placed'
  BY <1>0, RulesCleared DEF Placed, Misplaced, DogsOfHeld, Held, Taken, OneWorks, RouteTypes,
      MonitorStates, MainStates, Rules, Run, MainCleans, CleanUp, MainUnchanged
<1> QED
  BY <1>1, <1>2, <1>3, <1>4, <1>5 DEF RouteInv

LEMMA DownKeeps ==
  ASSUME RouteInv, Down
  PROVE  RouteInv'
<1> USE DEF RouteInv
<1>0. runs \in Seq(Run) /\ Len(runs) \in Nat /\ DOMAIN runs = 1 .. Len(runs)
  BY DEF RouteTypes
<1>a. ASSUME NEW i \in 1 .. Len(runs), NEW r,
             r = [runs[i] EXCEPT !.cancel = TRUE, !.child = "gone", !.dog = "off"]
      PROVE  r \in Run /\ r.dog = "off"
  <2>1. runs[i] \in Run
    BY <1>0
  <2> QED
    BY <2>1, <1>a DEF Run
<1>b. PICK rs : rs = [i \in 1 .. Len(runs) |->
                       [runs[i] EXCEPT !.cancel = TRUE, !.child = "gone", !.dog = "off"]]
  OBVIOUS
<1>c. rs \in Seq(Run) /\ Len(rs) = Len(runs) /\ \A i \in 1 .. Len(runs) : rs[i].dog = "off"
  <2>1. \A i \in 1 .. Len(runs) : rs[i] \in Run /\ rs[i].dog = "off"
    BY <1>a, <1>b
  <2>2. DOMAIN rs = 1 .. Len(runs) /\ rs = [i \in 1 .. Len(runs) |-> rs[i]]
    BY <1>b
  <2>3. rs \in [1 .. Len(runs) -> Run]
    BY <2>1, <2>2
  <2> QED
    BY <1>0, <2>1, <2>3
<1>d. runs' = rs
  BY <1>0, <1>b DEF Down
<1>f. /\ monitor' = Started /\ main' = [pc |-> "down", id |-> 0] /\ UNCHANGED <<wanted, rules>>
      /\ route' = 0 /\ current' = 0 /\ operation' = "free"
  BY DEF Down
<1>e. Started \in MonitorStates /\ Started.pc = "wait" /\ Started.undo = FALSE
  BY DEF Started, MonitorStates, MonitorPlaces, Wished
<1>1. RouteTypes'
  BY <1>0, <1>c, <1>d, <1>e, <1>f DEF RouteTypes, MonitorStates, MonitorPlaces, MainStates
<1>2. OneWorks'
  BY <1>0, <1>c, <1>d, <1>e, <1>f DEF OneWorks, RouteTypes, MonitorStates, MainStates
<1>3. Taken'
  BY <1>0, <1>c, <1>d, <1>e, <1>f DEF Taken, OneWorks, RouteTypes, MonitorStates, MainStates
<1>4. DogsOfHeld'
  BY <1>0, <1>c, <1>d, <1>e, <1>f DEF DogsOfHeld, Held, Taken, OneWorks, RouteTypes, MonitorStates,
      MainStates, Run
<1>5. Placed'
  BY <1>0, <1>c, <1>d, <1>e, <1>f DEF Placed, Misplaced, DogsOfHeld, Held, Taken, OneWorks,
      RouteTypes, MonitorStates, MainStates, Rules, Run
<1> QED
  BY <1>1, <1>2, <1>3, <1>4, <1>5 DEF RouteInv

LEMMA StartupKeeps ==
  ASSUME RouteInv, Startup
  PROVE  RouteInv'
<1> USE DEF RouteInv
<1>0. runs \in Seq(Run) /\ Len(runs) \in Nat /\ DOMAIN runs = 1 .. Len(runs)
  BY DEF RouteTypes
<1>a. /\ rules' \in Rules
      /\ rules'.port # 0 => rules'.stale
  <2>1. CASE rules' = NoRules
    BY <2>1, RulesCleared
  <2>2. CASE rules' = [rules EXCEPT !.stale = rules.port # 0]
    <3>1. rules' = [shared |-> rules.shared, port |-> rules.port, level |-> rules.level,
                    late |-> rules.late, stale |-> (rules.port # 0)]
      BY <2>2 DEF RouteTypes, Rules
    <3> QED
      BY <3>1 DEF RouteTypes, Rules
  <2> QED
    BY <2>1, <2>2 DEF Startup
<1>b. /\ main' = [pc |-> "run", id |-> 0]
      /\ UNCHANGED <<runs, route, current, operation, monitor, wanted>>
  BY DEF Startup, MainUnchanged
<1>1. RouteTypes'
  BY <1>0, <1>a, <1>b DEF RouteTypes, MonitorStates, MonitorPlaces, MainStates, Startup
<1>2. OneWorks'
  BY <1>0, <1>a, <1>b DEF OneWorks, RouteTypes, MonitorStates, MainStates, Startup
<1>3. Taken'
  BY <1>0, <1>a, <1>b DEF Taken, OneWorks, RouteTypes, MonitorStates, MainStates, Startup
<1>4. DogsOfHeld'
  BY <1>0, <1>a, <1>b DEF DogsOfHeld, Held, Taken, OneWorks, RouteTypes, MonitorStates, MainStates,
      Run, Startup
<1>5. Placed'
  BY <1>0, <1>a, <1>b DEF Placed, Misplaced, DogsOfHeld, Held, Taken, OneWorks, RouteTypes,
      MonitorStates, MainStates, Rules, Run, Startup
<1> QED
  BY <1>1, <1>2, <1>3, <1>4, <1>5 DEF RouteInv

\* What the world does to it.
LEMMA ChildDiesKeeps ==
  ASSUME RouteInv, NEW i \in DOMAIN runs, ChildDies(i)
  PROVE  RouteInv'
<1> USE DEF RouteInv
<1>0. runs \in Seq(Run) /\ Len(runs) \in Nat /\ DOMAIN runs = 1 .. Len(runs)
  BY DEF RouteTypes
<1>a. i \in 1 .. Len(runs) /\ runs[i] \in Run
  BY <1>0 DEF ChildDies, Taken
<1>b. PICK r : r = [runs[i] EXCEPT !.child = "gone"]
  OBVIOUS
<1>c. r \in Run
  BY <1>a, <1>b DEF Run
<1>d. runs' = [runs EXCEPT ![i] = r]
  BY <1>0, <1>a, <1>b DEF ChildDies
<1>e. /\ runs' \in Seq(Run) /\ Len(runs') = Len(runs)
      /\ runs'[i] = r /\ \A j \in 1 .. Len(runs) : j # i => runs'[j] = runs[j]
  BY <1>0, <1>a, <1>c, <1>d, RunChanges
<1>1. RouteTypes'
  BY <1>0, <1>a, <1>b, <1>c, <1>e DEF RouteTypes, MonitorStates, MonitorPlaces, MainStates,
      ChildDies, WorldUnchanged
<1>2. OneWorks'
  BY <1>0, <1>a, <1>b, <1>c, <1>e DEF OneWorks, RouteTypes, MonitorStates, MainStates, ChildDies,
      WorldUnchanged
<1>3. Taken'
  BY <1>0, <1>a, <1>b, <1>c, <1>e DEF Taken, OneWorks, RouteTypes, MonitorStates, MainStates,
      ChildDies, WorldUnchanged
<1>4. DogsOfHeld'
  BY <1>0, <1>a, <1>b, <1>c, <1>e DEF DogsOfHeld, Held, Taken, OneWorks, RouteTypes, MonitorStates,
      MainStates, Run, ChildDies, WorldUnchanged
<1>5. Placed'
  BY <1>0, <1>a, <1>b, <1>c, <1>e DEF Placed, Misplaced, DogsOfHeld, Held, Taken, OneWorks,
      RouteTypes, MonitorStates, MainStates, Rules, Run, ChildDies, WorldUnchanged
<1> QED
  BY <1>1, <1>2, <1>3, <1>4, <1>5 DEF RouteInv

LEMMA ReloadKeeps ==
  ASSUME RouteInv, Reload
  PROVE  RouteInv'
<1> USE DEF RouteInv
<1>0. runs \in Seq(Run) /\ Len(runs) \in Nat /\ DOMAIN runs = 1 .. Len(runs)
  BY DEF RouteTypes
<1>1. RouteTypes'
  BY <1>0 DEF RouteTypes, MonitorStates, MonitorPlaces, MainStates, Reload, NoRules,
      WorldUnchanged, Rules
<1>2. OneWorks'
  BY <1>0 DEF OneWorks, RouteTypes, MonitorStates, MainStates, Reload, NoRules, WorldUnchanged
<1>3. Taken'
  BY <1>0 DEF Taken, OneWorks, RouteTypes, MonitorStates, MainStates, Reload, NoRules,
      WorldUnchanged
<1>4. DogsOfHeld'
  BY <1>0 DEF DogsOfHeld, Held, Taken, OneWorks, RouteTypes, MonitorStates, MainStates, Run,
      Reload, NoRules, WorldUnchanged
<1>5. Placed'
  BY <1>0 DEF Placed, Misplaced, DogsOfHeld, Held, Taken, OneWorks, RouteTypes, MonitorStates,
      MainStates, Rules, Run, Reload, NoRules, WorldUnchanged
<1> QED
  BY <1>1, <1>2, <1>3, <1>4, <1>5 DEF RouteInv

\* All of them.
LEMMA RouteNextKeeps ==
  ASSUME RouteInv, RouteNext
  PROVE  RouteInv'
<1>1. CASE Monitor
  BY <1>1, MonitorWakesKeeps, MonitorReadsKeeps, MonitorProbesKeeps, ChildStartsKeeps, ActivateKeeps,
     RouteReadyKeeps, MonitorStopsKeeps, MonitorCleansKeeps DEF Monitor
<1>2. CASE \E i \in DOMAIN runs : Dog(i) \/ DogFails(i) \/ ChildDies(i)
  BY <1>2, DogTicksKeeps, DogLooksKeeps, DogEndsKeeps, DogLocksKeeps, DogInstallsKeeps, DogFailsKeeps,
     ChildDiesKeeps DEF Dog
<1>3. CASE PanelWrites \/ PanelAnnounces \/ PanelFails \/ PanelAnswers \/ PortFlips
  <2>1. /\ wanted' \in Wished /\ UNCHANGED <<runs, route, rules, current, operation, monitor, main>>
    BY <1>3 DEF PanelWrites, PanelAnnounces, PanelFails, PanelAnswers, PortFlips, PanelUnchanged,
       WorldUnchanged, RouteInv, RouteTypes, Wished
  <2> QED
    BY <2>1, OthersKeep
<1>4. CASE Exit \/ Crash
  BY <1>4, DownKeeps DEF Exit, Crash
<1> QED
  BY <1>1, <1>2, <1>3, <1>4, ChildStartFailsKeeps, ActivateFailsKeeps, ShutdownKeeps, MainStopsKeeps,
     MainCleansKeeps, StartupKeeps, ReloadKeeps DEF RouteNext

\* A child that ends by itself ends like one that dies.
LEMMA ChildExitsKeeps ==
  ASSUME RouteInv, ChildExits
  PROVE  RouteInv'
<1> USE DEF RouteInv
<1>0. runs \in Seq(Run) /\ Len(runs) \in Nat /\ DOMAIN runs = 1 .. Len(runs)
  BY DEF RouteTypes
<1>i. PICK i : i = Len(runs)
  OBVIOUS
<1>a. i \in 1 .. Len(runs) /\ runs[i] \in Run
  BY <1>0, <1>i DEF ChildExits, Serving
<1>b. PICK r : r = [runs[i] EXCEPT !.child = "gone"]
  OBVIOUS
<1>c. r \in Run
  BY <1>a, <1>b DEF Run
<1>d. runs' = [runs EXCEPT ![i] = r]
  BY <1>0, <1>i, <1>a, <1>b DEF ChildExits
<1>e. /\ runs' \in Seq(Run) /\ Len(runs') = Len(runs)
      /\ runs'[i] = r /\ \A j \in 1 .. Len(runs) : j # i => runs'[j] = runs[j]
  BY <1>0, <1>a, <1>c, <1>d, RunChanges
<1>1. RouteTypes'
  BY <1>0, <1>a, <1>b, <1>c, <1>e DEF RouteTypes, MonitorStates, MonitorPlaces, MainStates,
      ChildExits
<1>2. OneWorks'
  BY <1>0, <1>a, <1>b, <1>c, <1>e DEF OneWorks, RouteTypes, MonitorStates, MainStates, ChildExits
<1>3. Taken'
  BY <1>0, <1>a, <1>b, <1>c, <1>e DEF Taken, OneWorks, RouteTypes, MonitorStates, MainStates,
      ChildExits
<1>4. DogsOfHeld'
  BY <1>0, <1>a, <1>b, <1>c, <1>e DEF DogsOfHeld, Held, Taken, OneWorks, RouteTypes, MonitorStates,
      MainStates, Run, ChildExits
<1>5. Placed'
  BY <1>0, <1>a, <1>b, <1>c, <1>e DEF Placed, Misplaced, DogsOfHeld, Held, Taken, OneWorks,
      RouteTypes, MonitorStates, MainStates, Rules, Run, ChildExits
<1> QED
  BY <1>1, <1>2, <1>3, <1>4, <1>5 DEF RouteInv

\* proxy_operation keeps the monitor and the end of the server apart, a route taken out of
\* proxy_route is held until its rules are cleaned, a watchdog that is not cancelled watches a
\* route that is held, and rules lead to such a route (proxy_route.rs connect, deactivate).
THEOREM RouteInvariant == ProxySpec => []RouteInv
<1>1. ProxyInit => RouteInv
  BY MonitorWaits DEF ProxyInit, RouteInit, RouteInv, RouteTypes, OneWorks, Taken, DogsOfHeld, Held, Placed,
     Started, NoRules, Rules, Run, MonitorStates, MonitorPlaces, MainStates, Wished
<1>2. RouteInv /\ [ProxyNext]_proxyVars => RouteInv'
  <2> SUFFICES ASSUME RouteInv, [ProxyNext]_proxyVars PROVE RouteInv'
    OBVIOUS
  <2>1. CASE UNCHANGED rvars
    BY <2>1, OthersKeep DEF rvars, RouteInv, RouteTypes
  <2> QED
    BY <2>1, RouteNextKeeps, ChildExitsKeeps DEF ProxyNext, RouteStep, ChildStep, proxyVars
<1> QED
  BY <1>1, <1>2, PTL DEF ProxySpec

\* While nobody works on the route, rules lead to the route of proxy_route, and without one there
\* are none, but for those of a watchdog that came late or of an earlier server.
THEOREM RulesFollowTheRoute == ProxySpec => []RulesAreOfRoute
<1>1. RouteInv => RulesAreOfRoute
  BY DEF RouteInv, RouteTypes, Rules, Placed, OneWorks, RulesAreOfRoute
<1> QED
  BY <1>1, RouteInvariant, PTL

-----------------------------------------------------------------------------
\* The engine

USE ProxyAdmissionAssumption

\* Types of what the engine keeps.  When a flow was last seen is only compared.
Kinds == {"tcp", "udp", "normal", "jumbo"}
Counters == [Kinds -> Int]
TcpSession == [ip : Ips, pc : {"handshake", "relay", "closing", "over"}, evicting : BOOLEAN]
Flow(stamps) ==
  [key : Sockets, mapped : BOOLEAN, finished : BOOLEAN, buffer : {"none", "normal", "jumbo"},
   seen : stamps]

\* What holds a lease of a kind, for one of the devices ips.
Leased(k, ss, fs, ips) ==
  IF k = "tcp" THEN {s \in DOMAIN ss : ss[s].ip \in ips /\ ss[s].pc # "over"}
  ELSE {f \in DOMAIN fs : fs[f].key[1] \in ips /\ (fs[f].buffer = k \/ (k = "udp" /\ fs[f].mapped))}

Counts(a, q, ss, fs) ==
  \A k \in Kinds : /\ a[k] = Cardinality(Leased(k, ss, fs, Ips))
                   /\ \A ip \in Ips : q[ip][k] = Cardinality(Leased(k, ss, fs, {ip}))

IsFlows(fs) == \E stamps : fs \in Seq(Flow(stamps))

Ledger(a, q, ss, fs) ==
  /\ a \in Counters /\ q \in [Ips -> Counters] /\ ss \in Seq(TcpSession)
  /\ IsFlows(fs)
  /\ Counts(a, q, ss, fs)

\* Whoever acquires does so for a device or a socket there is.
IsUdp(u) ==
  /\ u = [pc |-> u.pc, key |-> u.key, source |-> u.source, opening |-> u.opening,
          opens |-> u.opens, pool |-> u.pool, refills |-> u.refills, failed |-> u.failed]
  /\ u.pc = "acquire" => u.key \in Sockets

Asking ==
  /\ IsUdp(udp)
  /\ acceptor = [pc |-> acceptor.pc, ip |-> acceptor.ip]
  /\ acceptor.pc # "accept" => acceptor.ip \in Ips

\* The flows and the response tasks end with the loop.
Drained ==
  udp.pc = "over" => \A f \in DOMAIN flows : ~flows[f].mapped /\ flows[f].buffer = "none"

AdmissionInv == Ledger(admission, quota, sessions, flows) /\ Asking /\ Drained

\* The property is about these counts.
LEMMA CountsAreLeases == Counts(admission, quota, sessions, flows) => CountersAreLeases
<1> SUFFICES ASSUME Counts(admission, quota, sessions, flows) PROVE CountersAreLeases
  OBVIOUS
<1>1. \A ips : TcpLeases(ips) = Cardinality(Leased("tcp", sessions, flows, ips))
  BY DEF TcpLeases, Leased
<1>2. \A k \in {"udp", "normal", "jumbo"} :
        \A ips : UdpLeases(k, ips) = Cardinality(Leased(k, sessions, flows, ips))
  BY DEF UdpLeases, Leased
<1>3. /\ admission.tcp = TcpLeases(Ips)
      /\ \A ip \in Ips : quota[ip].tcp = TcpLeases({ip})
  BY <1>1 DEF Counts, Kinds
<1>4. ASSUME NEW k \in {"udp", "normal", "jumbo"}
      PROVE  /\ admission[k] = UdpLeases(k, Ips)
             /\ \A ip \in Ips : quota[ip][k] = UdpLeases(k, {ip})
  <2>1. k \in Kinds
    BY DEF Kinds
  <2> QED
    BY <1>2, <2>1 DEF Counts
<1> QED
  BY <1>3, <1>4 DEF CountersAreLeases

LEMMA ZeroIsCounters == Zero \in Counters /\ DOMAIN Zero = Kinds /\ \A k \in Kinds : Zero[k] = 0
<1>1. DOMAIN Zero = Kinds /\ \A k \in Kinds : Zero[k] = 0
  BY DEF Zero, Kinds
<1>2. Zero = [k \in Kinds |-> 0]
  BY <1>1 DEF Zero
<1> QED
  BY <1>1, <1>2 DEF Counters

\* Leases are finitely many.
LEMMA LeasedIsFinite ==
  ASSUME NEW a, NEW q, NEW ss, NEW fs, Ledger(a, q, ss, fs), NEW k \in Kinds, NEW ips
  PROVE  IsFiniteSet(Leased(k, ss, fs, ips)) /\ Cardinality(Leased(k, ss, fs, ips)) \in Nat
<1>1. PICK stamps : fs \in Seq(Flow(stamps))
  BY DEF Ledger, IsFlows
<1>2. ss \in Seq(TcpSession)
  BY DEF Ledger
<1>3. IsFiniteSet(DOMAIN ss) /\ IsFiniteSet(DOMAIN fs)
  <2>1. DOMAIN ss = 1 .. Len(ss) /\ DOMAIN fs = 1 .. Len(fs) /\ Len(ss) \in Int /\ Len(fs) \in Int
    BY <1>1, <1>2
  <2> QED
    BY <2>1, FS_Interval
<1>4. Leased(k, ss, fs, ips) \in SUBSET (DOMAIN ss) \/ Leased(k, ss, fs, ips) \in SUBSET (DOMAIN fs)
  BY DEF Leased
<1> QED
  BY <1>3, <1>4, FS_Subset, FS_CardinalityType

\* What a step does to the counters and to what is held: x, held for a device, is new or is gone;
\* or the flows of a set are gone.
Raised(a, kind) == [a EXCEPT ![kind] = @ + 1]
RaisedFor(q, dev, kind) == [q EXCEPT ![dev][kind] = @ + 1]
Lowered(a, kind) == [a EXCEPT ![kind] = SaturatingSub(@)]
LoweredFor(q, dev, kind) == [q EXCEPT ![dev][kind] = @ - 1]

Gains(kind, dev, x, ss, fs, ts, gs) ==
  \A k \in Kinds, ips \in SUBSET Ips :
    IF k = kind /\ dev \in ips
    THEN /\ x \notin Leased(k, ss, fs, ips)
         /\ Leased(k, ts, gs, ips) = Leased(k, ss, fs, ips) \cup {x}
    ELSE Leased(k, ts, gs, ips) = Leased(k, ss, fs, ips)

Loses(kind, dev, x, ss, fs, ts, gs) ==
  \A k \in Kinds, ips \in SUBSET Ips :
    IF k = kind /\ dev \in ips
    THEN /\ x \in Leased(k, ss, fs, ips)
         /\ Leased(k, ts, gs, ips) = Leased(k, ss, fs, ips) \ {x}
    ELSE Leased(k, ts, gs, ips) = Leased(k, ss, fs, ips)

Fewer(a, gone) == [a EXCEPT !.udp = @ - Cardinality(gone)]
FewerFor(q, fs, gone) ==
  [ip \in Ips |-> [q[ip] EXCEPT !.udp = @ - Cardinality({f \in gone : fs[f].key[1] = ip})]]

LosesFlows(gone, ss, fs, gs) ==
  \A k \in Kinds, ips \in SUBSET Ips :
    Leased(k, ss, gs, ips) = IF k = "udp" THEN Leased(k, ss, fs, ips) \ gone
                             ELSE Leased(k, ss, fs, ips)

\* A lease is taken.
LEMMA LeaseTaken ==
  ASSUME NEW a, NEW q, NEW ss, NEW fs, Ledger(a, q, ss, fs),
         NEW ts \in Seq(TcpSession), NEW gs, IsFlows(gs),
         NEW kind \in Kinds, NEW dev \in Ips, NEW x,
         Gains(kind, dev, x, ss, fs, ts, gs)
  PROVE  Ledger(Raised(a, kind), RaisedFor(q, dev, kind), ts, gs)
<1>0. PICK b, r : b = Raised(a, kind) /\ r = RaisedFor(q, dev, kind)
  OBVIOUS
<1>1. a \in Counters /\ q \in [Ips -> Counters] /\ Counts(a, q, ss, fs)
  BY DEF Ledger
<1>2. /\ b \in Counters /\ b[kind] = a[kind] + 1
      /\ \A k \in Kinds : k # kind => b[k] = a[k]
  BY <1>0, <1>1 DEF Counters, Raised, RaisedFor
<1>3. /\ r \in [Ips -> Counters] /\ r[dev][kind] = q[dev][kind] + 1
      /\ \A ip \in Ips, k \in Kinds : k # kind \/ ip # dev => r[ip][k] = q[ip][k]
  BY <1>0, <1>1 DEF Counters, Raised, RaisedFor
<1>4. ASSUME NEW k \in Kinds, NEW ips \in SUBSET Ips
      PROVE  Cardinality(Leased(k, ts, gs, ips)) =
               IF k = kind /\ dev \in ips THEN Cardinality(Leased(k, ss, fs, ips)) + 1
               ELSE Cardinality(Leased(k, ss, fs, ips))
  <2>1. IsFiniteSet(Leased(k, ss, fs, ips))
    BY LeasedIsFinite
  <2>2. CASE k = kind /\ dev \in ips
    <3>1. PICK H : H = Leased(k, ss, fs, ips)
      OBVIOUS
    <3>2. x \notin H /\ IsFiniteSet(H) /\ Leased(k, ts, gs, ips) = H \cup {x}
      BY <2>1, <2>2, <3>1 DEF Gains
    <3>3. Cardinality(H \cup {x}) = Cardinality(H) + 1
      BY <3>2, FS_AddElement
    <3> QED
      BY <2>2, <3>1, <3>2, <3>3
  <2>3. CASE ~(k = kind /\ dev \in ips)
    BY <2>3 DEF Gains
  <2> QED
    BY <2>2, <2>3
<1>5. \A k \in Kinds : b[k] = Cardinality(Leased(k, ts, gs, Ips))
  BY <1>1, <1>2, <1>4 DEF Counts
<1>6. \A k \in Kinds, ip \in Ips : r[ip][k] = Cardinality(Leased(k, ts, gs, {ip}))
  <2> SUFFICES ASSUME NEW k \in Kinds, NEW ip \in Ips
               PROVE  r[ip][k] = Cardinality(Leased(k, ts, gs, {ip}))
    OBVIOUS
  <2>1. {ip} \in SUBSET Ips /\ (dev \in {ip} <=> ip = dev)
    OBVIOUS
  <2>2. q[ip][k] = Cardinality(Leased(k, ss, fs, {ip}))
    BY <1>1 DEF Counts
  <2> QED
    BY <1>3, <1>4, <2>1, <2>2
<1> QED
  BY <1>0, <1>2, <1>3, <1>5, <1>6 DEF Ledger, Counts

\* A lease is given back: x was held and is not any more.
LEMMA LeaseGiven ==
  ASSUME NEW a, NEW q, NEW ss, NEW fs, Ledger(a, q, ss, fs),
         NEW ts \in Seq(TcpSession), NEW gs, IsFlows(gs),
         NEW kind \in Kinds, NEW dev \in Ips, NEW x,
         Loses(kind, dev, x, ss, fs, ts, gs)
  PROVE  Ledger(Lowered(a, kind), LoweredFor(q, dev, kind), ts, gs)
<1>0. PICK b, r : b = Lowered(a, kind) /\ r = LoweredFor(q, dev, kind)
  OBVIOUS
<1>1. a \in Counters /\ q \in [Ips -> Counters] /\ Counts(a, q, ss, fs)
  BY DEF Ledger
<1>2. ASSUME NEW k \in Kinds, NEW ips \in SUBSET Ips
      PROVE  Cardinality(Leased(k, ts, gs, ips)) =
               IF k = kind /\ dev \in ips THEN Cardinality(Leased(k, ss, fs, ips)) - 1
               ELSE Cardinality(Leased(k, ss, fs, ips))
  <2>1. IsFiniteSet(Leased(k, ss, fs, ips))
    BY LeasedIsFinite
  <2>2. CASE k = kind /\ dev \in ips
    <3>1. PICK H : H = Leased(k, ss, fs, ips)
      OBVIOUS
    <3>2. x \in H /\ IsFiniteSet(H) /\ Leased(k, ts, gs, ips) = H \ {x}
      BY <2>1, <2>2, <3>1 DEF Loses
    <3>3. Cardinality(H \ {x}) = Cardinality(H) - 1
      BY <3>2, FS_RemoveElement
    <3> QED
      BY <2>2, <3>1, <3>2, <3>3
  <2>3. CASE ~(k = kind /\ dev \in ips)
    BY <2>3 DEF Loses
  <2> QED
    BY <2>2, <2>3
<1>3. a[kind] \in Int /\ a[kind] # 0
  <2>1. a[kind] = Cardinality(Leased(kind, ss, fs, Ips)) /\ Ips \in SUBSET Ips
    BY <1>1 DEF Counts
  <2>2. x \in Leased(kind, ss, fs, Ips) /\ IsFiniteSet(Leased(kind, ss, fs, Ips))
    BY <2>1, LeasedIsFinite DEF Loses
  <2>3. Cardinality(Leased(kind, ss, fs, Ips)) # 0
    BY <2>2, FS_EmptySet
  <2> QED
    BY <1>1, <2>1, <2>3 DEF Counters
<1>4. /\ b \in Counters /\ b[kind] = a[kind] - 1
      /\ \A k \in Kinds : k # kind => b[k] = a[k]
  <2>1. SaturatingSub(a[kind]) = a[kind] - 1
    BY <1>3 DEF SaturatingSub
  <2>2. b = [a EXCEPT ![kind] = a[kind] - 1]
    BY <1>0, <2>1 DEF Lowered
  <2> QED
    BY <1>1, <2>2 DEF Counters
<1>5. /\ r \in [Ips -> Counters] /\ r[dev][kind] = q[dev][kind] - 1
      /\ \A ip \in Ips, k \in Kinds : k # kind \/ ip # dev => r[ip][k] = q[ip][k]
  BY <1>0, <1>1 DEF Counters, LoweredFor
<1>6. \A k \in Kinds : b[k] = Cardinality(Leased(k, ts, gs, Ips))
  BY <1>1, <1>2, <1>4 DEF Counts
<1>7. \A k \in Kinds, ip \in Ips : r[ip][k] = Cardinality(Leased(k, ts, gs, {ip}))
  <2> SUFFICES ASSUME NEW k \in Kinds, NEW ip \in Ips
               PROVE  r[ip][k] = Cardinality(Leased(k, ts, gs, {ip}))
    OBVIOUS
  <2>1. {ip} \in SUBSET Ips /\ (dev \in {ip} <=> ip = dev)
    OBVIOUS
  <2>2. q[ip][k] = Cardinality(Leased(k, ss, fs, {ip}))
    BY <1>1 DEF Counts
  <2> QED
    BY <1>2, <1>5, <2>1, <2>2
<1> QED
  BY <1>0, <1>4, <1>5, <1>6, <1>7 DEF Ledger, Counts

\* Nothing held changes.
LEMMA LedgerStays ==
  ASSUME NEW a, NEW q, NEW ss, NEW fs, Ledger(a, q, ss, fs),
         NEW ts \in Seq(TcpSession), NEW gs, IsFlows(gs),
         \A k \in Kinds, ips \in SUBSET Ips : Leased(k, ts, gs, ips) = Leased(k, ss, fs, ips)
  PROVE  Ledger(a, q, ts, gs)
<1>1. \A k \in Kinds : Leased(k, ts, gs, Ips) = Leased(k, ss, fs, Ips)
  OBVIOUS
<1>2. \A k \in Kinds, ip \in Ips : Leased(k, ts, gs, {ip}) = Leased(k, ss, fs, {ip})
  OBVIOUS
<1> QED
  BY <1>1, <1>2 DEF Ledger, Counts


SetUdp(c, n) == [c EXCEPT !["udp"] = n]

LEMMA UdpCounter ==
  ASSUME NEW c \in Counters, NEW n \in Int
  PROVE  /\ SetUdp(c, n) \in Counters /\ SetUdp(c, n)["udp"] = n
         /\ \A k \in Kinds : k # "udp" => SetUdp(c, n)[k] = c[k]
BY DEF Counters, Kinds, SetUdp

\* Leases given back together: of each device those of its flows that are gone.
LEMMA LeasesDropped ==
  ASSUME NEW a, NEW q, NEW ss, NEW fs, Ledger(a, q, ss, fs),
         NEW gs, IsFlows(gs),
         NEW gone, gone \subseteq {f \in DOMAIN fs : fs[f].mapped},
         LosesFlows(gone, ss, fs, gs)
  PROVE  Ledger(Fewer(a, gone), FewerFor(q, fs, gone), ss, gs)
<1>0. PICK b, r : b = Fewer(a, gone) /\ r = FewerFor(q, fs, gone)
  OBVIOUS
<1>1. a \in Counters /\ q \in [Ips -> Counters] /\ Counts(a, q, ss, fs) /\ ss \in Seq(TcpSession)
  BY DEF Ledger
<1>2. PICK stamps : fs \in Seq(Flow(stamps))
  BY DEF Ledger, IsFlows
<1>3. \A f \in DOMAIN fs : fs[f].key[1] \in Ips
  <2>1. \A f \in DOMAIN fs : fs[f] \in Flow(stamps)
    BY <1>2
  <2> QED
    BY <2>1 DEF Flow
<1>4. ASSUME NEW ips \in SUBSET Ips
      PROVE  /\ Cardinality({f \in gone : fs[f].key[1] \in ips}) \in Nat
             /\ Cardinality(Leased("udp", ss, gs, ips)) =
                  Cardinality(Leased("udp", ss, fs, ips))
                    - Cardinality({f \in gone : fs[f].key[1] \in ips})
  <2>1. PICK H : H = Leased("udp", ss, fs, ips)
    OBVIOUS
  <2>2. PICK G : G = {f \in gone : fs[f].key[1] \in ips}
    OBVIOUS
  <2>3. IsFiniteSet(H) /\ Cardinality(H) \in Nat
    BY <2>1, LeasedIsFinite DEF Kinds
  <2>4. H \cap gone = G /\ G \in SUBSET H
    BY <2>1, <2>2 DEF Leased
  <2>5. Cardinality(H \ gone) = Cardinality(H) - Cardinality(G)
    BY <2>3, <2>4, FS_Difference
  <2>6. Cardinality(G) \in Nat
    BY <2>3, <2>4, FS_Subset, FS_CardinalityType
  <2>7. Leased("udp", ss, gs, ips) = H \ gone
    BY <2>1 DEF Kinds, LosesFlows
  <2> QED
    BY <2>1, <2>2, <2>5, <2>6, <2>7
<1>5. /\ b \in Counters /\ b["udp"] = Cardinality(Leased("udp", ss, gs, Ips))
      /\ \A k \in Kinds : k # "udp" => b[k] = a[k]
  <2>1. gone = {f \in gone : fs[f].key[1] \in Ips} /\ Ips \in SUBSET Ips
    BY <1>3
  <2>2. PICK n \in Nat : n = Cardinality(gone)
    BY <1>4, <2>1
  <2>3. a["udp"] = Cardinality(Leased("udp", ss, fs, Ips))
    BY <1>1 DEF Counts, Kinds
  <2>4. Cardinality(Leased("udp", ss, gs, Ips)) = a["udp"] - n
    BY <1>4, <2>1, <2>2, <2>3
  <2>5. b = [a EXCEPT !["udp"] = a["udp"] - n]
    BY <1>0, <2>2 DEF Fewer
  <2> QED
    BY <1>1, <2>4, <2>5 DEF Counters, Kinds
<1>6. ASSUME NEW ip \in Ips
      PROVE  /\ r[ip] \in Counters /\ r[ip]["udp"] = Cardinality(Leased("udp", ss, gs, {ip}))
             /\ \A k \in Kinds : k # "udp" => r[ip][k] = q[ip][k]
  <2>1. {f \in gone : fs[f].key[1] = ip} = {f \in gone : fs[f].key[1] \in {ip}} /\ {ip} \in SUBSET Ips
    OBVIOUS
  <2>2. PICK n \in Nat : n = Cardinality({f \in gone : fs[f].key[1] = ip})
    BY <1>4, <2>1
  <2>3. q[ip]["udp"] = Cardinality(Leased("udp", ss, fs, {ip})) /\ q[ip] \in Counters
    BY <1>1 DEF Counts, Kinds
  <2>4. Cardinality(Leased("udp", ss, gs, {ip})) = q[ip]["udp"] - n
    BY <1>4, <2>1, <2>2, <2>3
  <2>5. r[ip] = SetUdp(q[ip], q[ip]["udp"] - n)
    BY <1>0, <2>2 DEF FewerFor, SetUdp
  <2>6. q[ip]["udp"] - n \in Int
    BY <2>3 DEF Counters, Kinds
  <2>7. PICK m \in Int : m = q[ip]["udp"] - n
    BY <2>6
  <2>8. /\ SetUdp(q[ip], m) \in Counters /\ SetUdp(q[ip], m)["udp"] = m
        /\ \A k \in Kinds : k # "udp" => SetUdp(q[ip], m)[k] = q[ip][k]
    BY <2>3, UdpCounter
  <2>9. r[ip] = SetUdp(q[ip], m) /\ m = Cardinality(Leased("udp", ss, gs, {ip}))
    BY <2>4, <2>5, <2>7
  <2> QED
    BY <2>8, <2>9
<1>7. r \in [Ips -> Counters]
  <2>1. DOMAIN r = Ips /\ r = [ip \in Ips |-> r[ip]]
    BY <1>0 DEF FewerFor
  <2> QED
    BY <1>6, <2>1
<1>8. ASSUME NEW k \in Kinds
      PROVE  /\ b[k] = Cardinality(Leased(k, ss, gs, Ips))
             /\ \A ip \in Ips : r[ip][k] = Cardinality(Leased(k, ss, gs, {ip}))
  <2>1. CASE k = "udp"
    BY <2>1, <1>5, <1>6
  <2>2. CASE k # "udp"
    <3>1. /\ Leased(k, ss, gs, Ips) = Leased(k, ss, fs, Ips)
          /\ \A ip \in Ips : Leased(k, ss, gs, {ip}) = Leased(k, ss, fs, {ip})
      BY <2>2 DEF LosesFlows
    <3>2. b[k] = a[k] /\ \A ip \in Ips : r[ip][k] = q[ip][k]
      BY <1>5, <1>6, <2>2
    <3> QED
      BY <1>1, <3>1, <3>2 DEF Counts
  <2> QED
    BY <2>1, <2>2
<1> QED
  BY <1>0, <1>1, <1>5, <1>7, <1>8 DEF Ledger, Counts

LEMMA FunctionIsSeq ==
  ASSUME NEW n \in Nat, NEW S, NEW g \in [1 .. n -> S]
  PROVE  g \in Seq(S) /\ Len(g) = n
OBVIOUS

\* Flows whose entry in the map, or time, or buffer changes.
Unmapped(fs, gone) == [f \in DOMAIN fs |-> [fs[f] EXCEPT !.mapped = @ /\ f \notin gone]]

LEMMA FlowsUnmapped ==
  ASSUME NEW fs, NEW stamps, fs \in Seq(Flow(stamps)), NEW gone, NEW gs, gs = Unmapped(fs, gone)
  PROVE  /\ gs \in Seq(Flow(stamps)) /\ Len(gs) = Len(fs) /\ DOMAIN gs = DOMAIN fs
         /\ \A f \in DOMAIN fs : /\ gs[f].key = fs[f].key /\ gs[f].buffer = fs[f].buffer
                                 /\ gs[f].mapped = (fs[f].mapped /\ f \notin gone)
<1>1. ASSUME NEW f \in DOMAIN fs
      PROVE  /\ gs[f] \in Flow(stamps)
             /\ gs[f].key = fs[f].key /\ gs[f].buffer = fs[f].buffer
             /\ gs[f].mapped = (fs[f].mapped /\ f \notin gone)
  <2>1. fs[f] \in Flow(stamps)
    OBVIOUS
  <2>2. PICK m \in BOOLEAN : m = (fs[f].mapped /\ f \notin gone)
    OBVIOUS
  <2>3. gs[f] = [fs[f] EXCEPT !.mapped = m]
    BY <2>2 DEF Unmapped
  <2> QED
    BY <2>1, <2>2, <2>3 DEF Flow
<1>2. DOMAIN gs = 1 .. Len(fs) /\ DOMAIN fs = 1 .. Len(fs) /\ Len(fs) \in Nat /\ gs = [f \in 1 .. Len(fs) |-> gs[f]]
  BY DEF Unmapped
<1>3. gs \in [1 .. Len(fs) -> Flow(stamps)]
  BY <1>1, <1>2
<1>4. gs \in Seq(Flow(stamps)) /\ Len(gs) = Len(fs)
  BY <1>2, <1>3
<1> QED
  BY <1>1, <1>2, <1>4

SeenAt(fs, x, v) == [fs EXCEPT ![x].seen = v]

SameFlows(fs, gs) ==
  /\ DOMAIN gs = DOMAIN fs
  /\ \A f \in DOMAIN fs : /\ gs[f].key = fs[f].key /\ gs[f].buffer = fs[f].buffer
                          /\ gs[f].mapped = fs[f].mapped

LEMMA FlowSeen ==
  ASSUME NEW fs, NEW stamps, fs \in Seq(Flow(stamps)), NEW x, NEW v, NEW gs, gs = SeenAt(fs, x, v)
  PROVE  gs \in Seq(Flow(stamps \cup {v})) /\ SameFlows(fs, gs)
<1>1. ASSUME NEW f \in DOMAIN fs
      PROVE  /\ gs[f] \in Flow(stamps \cup {v})
             /\ gs[f].key = fs[f].key /\ gs[f].buffer = fs[f].buffer /\ gs[f].mapped = fs[f].mapped
  <2>1. fs[f] \in Flow(stamps)
    OBVIOUS
  <2>2. gs[f] = fs[f] \/ gs[f] = [fs[f] EXCEPT !.seen = v]
    BY DEF SeenAt
  <2> QED
    BY <2>1, <2>2 DEF Flow
<1>2. DOMAIN fs = 1 .. Len(fs) /\ Len(fs) \in Nat
  OBVIOUS
<1>3. DOMAIN gs = 1 .. Len(fs)
  BY <1>2 DEF SeenAt
<1>4. gs \in Seq(Flow(stamps \cup {v})) /\ Len(gs) = Len(fs)
  <2>1. PICK N \in Nat : N = Len(fs)
    BY <1>2
  <2>2. PICK F : F = Flow(stamps \cup {v})
    OBVIOUS
  <2>3. gs = [f \in 1 .. N |-> gs[f]]
    BY <1>3, <2>1 DEF SeenAt
  <2>4. \A f \in 1 .. N : gs[f] \in F
    BY <1>1, <1>2, <2>1, <2>2
  <2>5. gs \in [1 .. N -> F]
    BY <2>3, <2>4
  <2>6. gs \in Seq(F) /\ Len(gs) = N
    BY <2>5, FunctionIsSeq
  <2> QED
    BY <2>1, <2>2, <2>6
<1> QED
  BY <1>1, <1>2, <1>3, <1>4 DEF SameFlows

BufferAt(fs, x, kind) == [fs EXCEPT ![x].buffer = kind]

Rebuffered(fs, x, kind, gs) ==
  /\ DOMAIN gs = DOMAIN fs
  /\ \A f \in DOMAIN fs : /\ gs[f].key = fs[f].key /\ gs[f].mapped = fs[f].mapped
                          /\ gs[f].buffer = IF f = x THEN kind ELSE fs[f].buffer

LEMMA FlowBuffer ==
  ASSUME NEW fs, NEW stamps, fs \in Seq(Flow(stamps)), NEW x \in DOMAIN fs,
         NEW kind \in {"none", "normal", "jumbo"}, NEW gs, gs = BufferAt(fs, x, kind)
  PROVE  gs \in Seq(Flow(stamps)) /\ Rebuffered(fs, x, kind, gs)
<1>1. fs[x] \in Flow(stamps) /\ DOMAIN fs = 1 .. Len(fs)
  OBVIOUS
<1>2. PICK g : g = [fs[x] EXCEPT !.buffer = kind]
  OBVIOUS
<1>3. g \in Flow(stamps) /\ g.key = fs[x].key /\ g.mapped = fs[x].mapped /\ g.buffer = kind
  BY <1>1, <1>2 DEF Flow
<1>4. gs = [fs EXCEPT ![x] = g]
  BY <1>2 DEF BufferAt
<1>5. gs \in Seq(Flow(stamps)) /\ DOMAIN gs = DOMAIN fs
  BY <1>1, <1>3, <1>4
<1> QED
  BY <1>1, <1>3, <1>4, <1>5 DEF Rebuffered

-----------------------------------------------------------------------------
\* One lemma for each kind of step on the ledger

\* Admit: a session with its lease.
LEMMA AdmitKeeps ==
  ASSUME AdmissionInv, NEW ip \in Ips, Admit(ip), UNCHANGED flows
  PROVE  Ledger(admission, quota, sessions, flows)'
<1>1. Ledger(admission, quota, sessions, flows) /\ sessions \in Seq(TcpSession)
  BY DEF AdmissionInv, Ledger
<1>2. PICK x : x = [ip |-> ip, pc |-> "handshake", evicting |-> FALSE]
  OBVIOUS
<1>3. x \in TcpSession /\ x.ip = ip /\ x.pc # "over"
  BY <1>2 DEF TcpSession
<1>4. PICK ts : ts = Append(sessions, x)
  OBVIOUS
<1>5. /\ ts \in Seq(TcpSession) /\ DOMAIN ts = DOMAIN sessions \cup {Len(ts)}
      /\ Len(ts) \notin DOMAIN sessions /\ ts[Len(ts)] = x
      /\ \A s \in DOMAIN sessions : ts[s] = sessions[s]
  BY <1>1, <1>3, <1>4
<1>6. /\ sessions' = ts /\ flows' = flows
      /\ admission' = Raised(admission, "tcp") /\ quota' = RaisedFor(quota, ip, "tcp")
  BY <1>2, <1>4 DEF Admit, Take, Raised, RaisedFor
<1>7. Gains("tcp", ip, Len(ts), sessions, flows, ts, flows)
  <2>1. PICK n : n = Len(ts)
    OBVIOUS
  <2>2. /\ DOMAIN ts = DOMAIN sessions \cup {n} /\ n \notin DOMAIN sessions
        /\ ts[n].ip = ip /\ ts[n].pc # "over" /\ \A s \in DOMAIN sessions : ts[s] = sessions[s]
    BY <1>3, <1>5, <2>1
  <2> SUFFICES ASSUME NEW k \in Kinds, NEW ips \in SUBSET Ips
               PROVE  IF k = "tcp" /\ ip \in ips
                      THEN /\ n \notin Leased(k, sessions, flows, ips)
                           /\ Leased(k, ts, flows, ips) = Leased(k, sessions, flows, ips) \cup {n}
                      ELSE Leased(k, ts, flows, ips) = Leased(k, sessions, flows, ips)
    BY <2>1 DEF Gains
  <2>3. CASE k = "tcp" /\ ip \in ips
    BY <2>2, <2>3 DEF Leased
  <2>4. CASE k = "tcp" /\ ip \notin ips
    BY <2>2, <2>4 DEF Leased
  <2>5. CASE k # "tcp"
    BY <2>5 DEF Leased
  <2> QED
    BY <2>3, <2>4, <2>5
<1>8. IsFlows(flows)
  BY <1>1 DEF Ledger
<1>9. Ledger(Raised(admission, "tcp"), RaisedFor(quota, ip, "tcp"), ts, flows)
  BY <1>1, <1>5, <1>7, <1>8, LeaseTaken DEF Kinds
<1> QED
  BY <1>6, <1>9

\* TcpQuotaLease::drop
LEMMA SessionEndsKeeps ==
  ASSUME AdmissionInv, NEW s \in DOMAIN sessions, SessionEnds(s)
  PROVE  Ledger(admission, quota, sessions, flows)'
<1>1. Ledger(admission, quota, sessions, flows) /\ sessions \in Seq(TcpSession)
  BY DEF AdmissionInv, Ledger
<1>2. sessions[s] \in TcpSession /\ sessions[s].pc = "closing"
  BY <1>1 DEF SessionEnds
<1>3. PICK x : x = [sessions[s] EXCEPT !.pc = "over"]
  OBVIOUS
<1>4. x \in TcpSession /\ x.ip = sessions[s].ip /\ x.pc = "over" /\ sessions[s].ip \in Ips
  BY <1>2, <1>3 DEF TcpSession
<1>5. PICK ts : ts = [sessions EXCEPT ![s] = x]
  OBVIOUS
<1>6. /\ ts \in Seq(TcpSession) /\ DOMAIN ts = DOMAIN sessions /\ ts[s] = x
      /\ \A t \in DOMAIN sessions : t # s => ts[t] = sessions[t]
  BY <1>1, <1>4, <1>5
<1>7. /\ sessions' = ts /\ flows' = flows
      /\ admission' = Lowered(admission, "tcp") /\ quota' = LoweredFor(quota, sessions[s].ip, "tcp")
  BY <1>3, <1>5 DEF SessionEnds, Give, Lowered, LoweredFor
<1>8. Loses("tcp", sessions[s].ip, s, sessions, flows, ts, flows)
  <2>1. PICK dev : dev = sessions[s].ip
    OBVIOUS
  <2> SUFFICES ASSUME NEW k \in Kinds, NEW ips \in SUBSET Ips
               PROVE  IF k = "tcp" /\ dev \in ips
                      THEN /\ s \in Leased(k, sessions, flows, ips)
                           /\ Leased(k, ts, flows, ips) = Leased(k, sessions, flows, ips) \ {s}
                      ELSE Leased(k, ts, flows, ips) = Leased(k, sessions, flows, ips)
    BY <2>1 DEF Loses
  <2>2. CASE k = "tcp" /\ dev \in ips
    BY <1>2, <1>4, <1>6, <2>1, <2>2 DEF Leased
  <2>3. CASE k = "tcp" /\ dev \notin ips
    BY <1>2, <1>4, <1>6, <2>1, <2>3 DEF Leased
  <2>4. CASE k # "tcp"
    BY <2>4 DEF Leased
  <2> QED
    BY <2>2, <2>3, <2>4
<1>9. IsFlows(flows)
  BY <1>1 DEF Ledger
<1>10. Ledger(Lowered(admission, "tcp"), LoweredFor(quota, sessions[s].ip, "tcp"), ts, flows)
  BY <1>1, <1>4, <1>6, <1>8, <1>9, LeaseGiven DEF Kinds
<1> QED
  BY <1>7, <1>10

\* Flows leave the map.
LEMMA DropFlowsKeeps ==
  ASSUME AdmissionInv, NEW gone, gone \subseteq Mapped, DropFlows(gone), UNCHANGED sessions
  PROVE  /\ Ledger(admission, quota, sessions, flows)'
         /\ DOMAIN flows' = DOMAIN flows
         /\ \A f \in DOMAIN flows : (flows'[f].mapped => flows[f].mapped) /\ flows'[f].buffer = flows[f].buffer
<1>1. Ledger(admission, quota, sessions, flows)
  BY DEF AdmissionInv
<1>2. PICK stamps : flows \in Seq(Flow(stamps))
  BY <1>1 DEF Ledger, IsFlows
<1>3. PICK gs : gs = Unmapped(flows, gone)
  OBVIOUS
<1>4. flows' = gs
  BY <1>3 DEF DropFlows, Unmapped
<1>5. /\ gs \in Seq(Flow(stamps)) /\ DOMAIN gs = DOMAIN flows
      /\ \A f \in DOMAIN flows : /\ gs[f].key = flows[f].key /\ gs[f].buffer = flows[f].buffer
                                 /\ gs[f].mapped = (flows[f].mapped /\ f \notin gone)
  BY <1>2, <1>3, FlowsUnmapped
<1>6. gone \subseteq {f \in DOMAIN flows : flows[f].mapped}
  BY DEF Mapped
<1>7. \A f \in DOMAIN flows : flows[f].buffer # "udp"
  <2>1. \A f \in DOMAIN flows : flows[f] \in Flow(stamps)
    BY <1>2
  <2> QED
    BY <2>1 DEF Flow
<1>8. LosesFlows(gone, sessions, flows, gs)
  <2> SUFFICES ASSUME NEW k \in Kinds, NEW ips \in SUBSET Ips
               PROVE  Leased(k, sessions, gs, ips) =
                        IF k = "udp" THEN Leased(k, sessions, flows, ips) \ gone
                        ELSE Leased(k, sessions, flows, ips)
    BY DEF LosesFlows
  <2>1. CASE k = "udp"
    <3>1. \A f \in DOMAIN flows :
            f \in Leased(k, sessions, gs, ips) <=> f \in Leased(k, sessions, flows, ips) \ gone
      BY <2>1, <1>5, <1>7 DEF Leased
    <3>2. /\ Leased(k, sessions, gs, ips) \subseteq DOMAIN flows
          /\ Leased(k, sessions, flows, ips) \subseteq DOMAIN flows
      BY <2>1, <1>5 DEF Leased
    <3> QED
      BY <2>1, <3>1, <3>2
  <2>2. CASE k # "udp"
    BY <2>2, <1>5 DEF Leased
  <2> QED
    BY <2>1, <2>2
<1>9. /\ admission' = Fewer(admission, gone) /\ quota' = FewerFor(quota, flows, gone)
      /\ sessions' = sessions
  BY DEF DropFlows, Fewer, FewerFor
<1>10. Ledger(Fewer(admission, gone), FewerFor(quota, flows, gone), sessions, gs)
  <2>1. IsFlows(gs)
    BY <1>5 DEF IsFlows
  <2> QED
    BY <1>1, <2>1, <1>6, <1>8, LeasesDropped
<1> QED
  BY <1>4, <1>5, <1>9, <1>10

\* UdpFlow::start: a flow with its lease; flows of the same socket leave the map.
LEMMA StartFlowKeeps ==
  ASSUME AdmissionInv, NEW key \in Sockets, StartFlow(key), UNCHANGED sessions
  PROVE  Ledger(admission, quota, sessions, flows)'
<1>1. Ledger(admission, quota, sessions, flows)
  BY DEF AdmissionInv
<1>2. PICK stamps : flows \in Seq(Flow(stamps))
  BY <1>1 DEF Ledger, IsFlows
<1>3. PICK gone : gone = FlowsOf(key)
  OBVIOUS
<1>4. PICK v : v = Latest + 1
  OBVIOUS
<1>5. PICK x : x = [key |-> key, mapped |-> TRUE, finished |-> FALSE, buffer |-> "none", seen |-> v]
  OBVIOUS
<1>6. PICK gs : gs = Unmapped(flows, gone)
  OBVIOUS
<1>7. PICK S : S = stamps \cup {v}
  OBVIOUS
<1>8. /\ gs \in Seq(Flow(S)) /\ DOMAIN gs = DOMAIN flows
      /\ \A f \in DOMAIN flows : /\ gs[f].key = flows[f].key /\ gs[f].buffer = flows[f].buffer
                                 /\ gs[f].mapped = (flows[f].mapped /\ f \notin gone)
  <2>1. flows \in Seq(Flow(S))
    <3>1. Flow(stamps) \subseteq Flow(S)
      BY <1>7 DEF Flow
    <3> QED
      BY <1>2, <3>1
  <2> QED
    BY <2>1, <1>6, FlowsUnmapped
<1>9. x \in Flow(S) /\ x.key = key /\ x.mapped = TRUE /\ x.buffer = "none"
  BY <1>5, <1>7 DEF Flow
<1>10. PICK hs : hs = Append(gs, x)
  OBVIOUS
<1>11. /\ hs \in Seq(Flow(S)) /\ DOMAIN hs = DOMAIN flows \cup {Len(hs)}
       /\ Len(hs) \notin DOMAIN flows /\ hs[Len(hs)] = x
       /\ \A f \in DOMAIN flows : hs[f] = gs[f]
  BY <1>8, <1>9, <1>10
<1>12. flows' = hs
  BY <1>3, <1>4, <1>5, <1>6, <1>10 DEF StartFlow, Unmapped
<1>13. gone = {f \in DOMAIN flows : flows[f].mapped /\ flows[f].key = key}
  BY <1>3 DEF FlowsOf, Mapped
<1>14. \A f \in DOMAIN flows : flows[f].buffer # "udp"
  <2>1. \A f \in DOMAIN flows : flows[f] \in Flow(stamps)
    BY <1>2
  <2> QED
    BY <2>1 DEF Flow
<1>15. PICK last : last = Len(hs)
  OBVIOUS
<1>16. /\ DOMAIN hs = DOMAIN flows \cup {last} /\ last \notin DOMAIN flows
       /\ hs[last].key = key /\ hs[last].mapped = TRUE /\ hs[last].buffer = "none"
       /\ \A f \in DOMAIN flows : /\ hs[f].key = flows[f].key /\ hs[f].buffer = flows[f].buffer
                                  /\ hs[f].mapped = (flows[f].mapped /\ f \notin gone)
  BY <1>8, <1>9, <1>11, <1>15
<1>17. ASSUME NEW ips \in SUBSET Ips, key[1] \in ips
       PROVE  /\ gone \subseteq Leased("udp", sessions, flows, ips)
              /\ last \notin Leased("udp", sessions, flows, ips)
              /\ Leased("udp", sessions, hs, ips) =
                   (Leased("udp", sessions, flows, ips) \ gone) \cup {last}
  <2>1. gone \subseteq Leased("udp", sessions, flows, ips)
    BY <1>13, <1>17 DEF Leased
  <2>2. last \notin Leased("udp", sessions, flows, ips)
    BY <1>16 DEF Leased
  <2>3. \A f \in DOMAIN flows : f \in Leased("udp", sessions, hs, ips) <=>
                                 f \in Leased("udp", sessions, flows, ips) \ gone
    BY <1>16, <1>14 DEF Leased
  <2>4. last \in Leased("udp", sessions, hs, ips)
    BY <1>16, <1>17 DEF Leased
  <2>5. /\ Leased("udp", sessions, hs, ips) \subseteq DOMAIN flows \cup {last}
        /\ Leased("udp", sessions, flows, ips) \subseteq DOMAIN flows
    BY <1>16 DEF Leased
  <2> QED
    BY <2>1, <2>2, <2>3, <2>4, <2>5
<1>18. ASSUME NEW ips \in SUBSET Ips, key[1] \notin ips
       PROVE  Leased("udp", sessions, hs, ips) = Leased("udp", sessions, flows, ips)
  <2>1. \A f \in DOMAIN flows :
          f \in Leased("udp", sessions, hs, ips) <=> f \in Leased("udp", sessions, flows, ips)
    <3> SUFFICES ASSUME NEW f \in DOMAIN flows
                 PROVE  f \in Leased("udp", sessions, hs, ips) <=>
                          f \in Leased("udp", sessions, flows, ips)
      OBVIOUS
    <3>1. CASE f \in gone
      BY <1>13, <1>14, <1>16, <1>18, <3>1 DEF Leased
    <3>2. CASE f \notin gone
      BY <1>16, <3>2 DEF Leased
    <3> QED
      BY <3>1, <3>2
  <2>2. last \notin Leased("udp", sessions, hs, ips)
    BY <1>16, <1>18 DEF Leased
  <2>3. /\ Leased("udp", sessions, hs, ips) \subseteq DOMAIN flows \cup {last}
        /\ Leased("udp", sessions, flows, ips) \subseteq DOMAIN flows
    BY <1>16 DEF Leased
  <2> QED
    BY <2>1, <2>2, <2>3
<1>19. ASSUME NEW k \in Kinds, k # "udp", NEW ips \in SUBSET Ips
       PROVE  Leased(k, sessions, hs, ips) = Leased(k, sessions, flows, ips)
  <2>1. k # "none"
    BY DEF Kinds
  <2> QED
    BY <1>16, <1>19, <2>1 DEF Leased
<1>20. PICK n : n = Cardinality(gone)
  OBVIOUS
<1>21. ASSUME NEW ips \in SUBSET Ips, key[1] \in ips
       PROVE  /\ n \in Nat /\ Cardinality(Leased("udp", sessions, flows, ips)) \in Nat
              /\ Cardinality(Leased("udp", sessions, hs, ips)) =
                   Cardinality(Leased("udp", sessions, flows, ips)) + 1 - n
  <2>1. PICK H : H = Leased("udp", sessions, flows, ips)
    OBVIOUS
  <2>2. IsFiniteSet(H) /\ Cardinality(H) \in Nat
    BY <1>1, <2>1, LeasedIsFinite DEF Kinds
  <2>3. gone \in SUBSET H /\ gone = H \cap gone /\ last \notin H \ gone
    BY <1>17, <1>21, <2>1
  <2>4. n \in Nat
    BY <1>20, <2>2, <2>3, FS_Subset, FS_CardinalityType
  <2>5. IsFiniteSet(H \ gone) /\ Cardinality(H \ gone) = Cardinality(H) - n
    BY <1>20, <2>2, <2>3, FS_Difference
  <2>6. Cardinality((H \ gone) \cup {last}) = Cardinality(H \ gone) + 1
    BY <2>3, <2>5, FS_AddElement
  <2>7. Leased("udp", sessions, hs, ips) = (H \ gone) \cup {last}
    BY <1>17, <1>21, <2>1
  <2>8. Cardinality((H \ gone) \cup {last}) = Cardinality(H) + 1 - n
    BY <2>2, <2>4, <2>5, <2>6
  <2> QED
    BY <2>1, <2>2, <2>4, <2>7, <2>8
<1>22. PICK ip \in Ips : ip = key[1]
  OBVIOUS
<1>23. admission \in Counters /\ quota \in [Ips -> Counters] /\ sessions \in Seq(TcpSession)
       /\ Counts(admission, quota, sessions, flows)
  BY <1>1 DEF Ledger
<1>24. n \in Nat
  BY <1>21, <1>22
<1>25. /\ admission' \in Counters /\ admission'["udp"] = admission["udp"] + 1 - n
       /\ \A k \in Kinds : k # "udp" => admission'[k] = admission[k]
  <2>1. admission' = SetUdp(admission, admission["udp"] + 1 - n)
    BY <1>3, <1>20 DEF StartFlow, SetUdp
  <2>2. admission["udp"] + 1 - n \in Int
    BY <1>23, <1>24 DEF Counters, Kinds
  <2> QED
    BY <1>23, <2>1, <2>2, UdpCounter
<1>26. /\ quota' \in [Ips -> Counters] /\ quota'[ip]["udp"] = quota[ip]["udp"] + 1 - n
       /\ \A i \in Ips, k \in Kinds : i # ip \/ k # "udp" => quota'[i][k] = quota[i][k]
  <2>1. PICK d : d = SetUdp(quota[ip], quota[ip]["udp"] + 1 - n)
    OBVIOUS
  <2>2. quota' = [quota EXCEPT ![ip] = d]
    BY <1>3, <1>20, <1>22, <2>1 DEF StartFlow, SetUdp
  <2>3. quota[ip]["udp"] + 1 - n \in Int /\ quota[ip] \in Counters
    BY <1>23, <1>24 DEF Counters, Kinds
  <2>4. /\ d \in Counters /\ d["udp"] = quota[ip]["udp"] + 1 - n
        /\ \A k \in Kinds : k # "udp" => d[k] = quota[ip][k]
    BY <2>1, <2>3, UdpCounter
  <2> QED
    BY <1>23, <2>2, <2>4
<1>27. ASSUME NEW k \in Kinds
       PROVE  /\ admission'[k] = Cardinality(Leased(k, sessions, hs, Ips))
              /\ \A i \in Ips : quota'[i][k] = Cardinality(Leased(k, sessions, hs, {i}))
  <2>1. /\ admission[k] = Cardinality(Leased(k, sessions, flows, Ips))
        /\ \A i \in Ips : quota[i][k] = Cardinality(Leased(k, sessions, flows, {i}))
    BY <1>23 DEF Counts
  <2>2. Ips \in SUBSET Ips /\ \A i \in Ips : {i} \in SUBSET Ips
    OBVIOUS
  <2>3. CASE k # "udp"
    BY <1>19, <1>25, <1>26, <2>1, <2>2, <2>3
  <2>4. CASE k = "udp"
    <3>1. admission'["udp"] = Cardinality(Leased("udp", sessions, hs, Ips))
      BY <1>21, <1>22, <1>25, <2>1, <2>2, <2>4
    <3>2. quota'[ip]["udp"] = Cardinality(Leased("udp", sessions, hs, {ip}))
      BY <1>21, <1>22, <1>26, <2>1, <2>2, <2>4
    <3>3. \A i \in Ips : i # ip => quota'[i]["udp"] = Cardinality(Leased("udp", sessions, hs, {i}))
      BY <1>18, <1>22, <1>26, <2>1, <2>2, <2>4
    <3> QED
      BY <2>4, <3>1, <3>2, <3>3
  <2> QED
    BY <2>3, <2>4
<1>28. IsFlows(hs)
  BY <1>11 DEF IsFlows
<1> QED
  BY <1>12, <1>23, <1>25, <1>26, <1>27, <1>28 DEF Ledger, Counts

\* A flow is touched or its response task ends: nothing that is held changes.
LEMMA TouchKeeps ==
  ASSUME AdmissionInv, NEW x, flows' = Touch(x), UNCHANGED <<sessions, admission, quota>>
  PROVE  /\ Ledger(admission, quota, sessions, flows)'
         /\ DOMAIN flows' = DOMAIN flows
         /\ \A f \in DOMAIN flows : flows'[f].mapped = flows[f].mapped /\ flows'[f].buffer = flows[f].buffer
<1>1. Ledger(admission, quota, sessions, flows) /\ sessions \in Seq(TcpSession)
  BY DEF AdmissionInv, Ledger
<1>2. PICK stamps : flows \in Seq(Flow(stamps))
  BY <1>1 DEF Ledger, IsFlows
<1>3. PICK v : v = Latest + 1
  OBVIOUS
<1>4. PICK gs : gs = SeenAt(flows, x, v)
  OBVIOUS
<1>5. flows' = gs
  BY <1>3, <1>4 DEF Touch, SeenAt
<1>6. gs \in Seq(Flow(stamps \cup {v})) /\ SameFlows(flows, gs)
  BY <1>2, <1>4, FlowSeen
<1>7. \A k \in Kinds, ips \in SUBSET Ips : Leased(k, sessions, gs, ips) = Leased(k, sessions, flows, ips)
  BY <1>6 DEF Leased, SameFlows
<1>8. Ledger(admission, quota, sessions, gs)
  <2>1. IsFlows(gs)
    BY <1>6 DEF IsFlows
  <2> QED
    BY <1>1, <1>7, <2>1, LedgerStays
<1> QED
  BY <1>5, <1>6, <1>8 DEF SameFlows

LEMMA ResponseEndsKeeps ==
  ASSUME AdmissionInv, NEW f \in DOMAIN flows, ResponseEnds(f)
  PROVE  AdmissionInv'
<1>1. Ledger(admission, quota, sessions, flows) /\ sessions \in Seq(TcpSession)
  BY DEF AdmissionInv, Ledger
<1>2. PICK stamps : flows \in Seq(Flow(stamps))
  BY <1>1 DEF Ledger, IsFlows
<1>3. PICK g : g = [flows[f] EXCEPT !.finished = TRUE]
  OBVIOUS
<1>4. /\ g \in Flow(stamps) /\ g.key = flows[f].key /\ g.buffer = flows[f].buffer
      /\ g.mapped = flows[f].mapped
  <2>1. flows[f] \in Flow(stamps)
    BY <1>2
  <2> QED
    BY <1>3, <2>1 DEF Flow
<1>5. PICK gs : gs = [flows EXCEPT ![f] = g]
  OBVIOUS
<1>6. flows' = gs /\ UNCHANGED <<sessions, admission, quota, udp, acceptor>>
  BY <1>3, <1>5 DEF ResponseEnds
<1>7. /\ gs \in Seq(Flow(stamps)) /\ DOMAIN gs = DOMAIN flows
      /\ \A h \in DOMAIN flows : /\ gs[h].key = flows[h].key /\ gs[h].buffer = flows[h].buffer
                                 /\ gs[h].mapped = flows[h].mapped
  BY <1>2, <1>4, <1>5
<1>8. \A k \in Kinds, ips \in SUBSET Ips : Leased(k, sessions, gs, ips) = Leased(k, sessions, flows, ips)
  BY <1>7 DEF Leased
<1>9. Ledger(admission, quota, sessions, gs)
  <2>1. IsFlows(gs)
    BY <1>7 DEF IsFlows
  <2> QED
    BY <1>1, <1>8, <2>1, LedgerStays
<1> QED
  BY <1>6, <1>7, <1>9 DEF AdmissionInv, Asking, Drained

\* relay_responses: a buffer is leased, and given back.
LEMMA ResponseBufferKeeps ==
  ASSUME AdmissionInv, NEW f \in DOMAIN flows, NEW kind \in {"normal", "jumbo"}, ResponseBuffer(f, kind)
  PROVE  AdmissionInv'
<1>1. Ledger(admission, quota, sessions, flows) /\ sessions \in Seq(TcpSession)
  BY DEF AdmissionInv, Ledger
<1>2. PICK stamps : flows \in Seq(Flow(stamps))
  BY <1>1 DEF Ledger, IsFlows
<1>3. flows[f].mapped /\ flows[f].buffer = "none" /\ flows[f].key[1] \in Ips
  <2>1. flows[f] \in Flow(stamps)
    BY <1>2
  <2> QED
    BY <2>1 DEF Flow, ResponseBuffer
<1>4. PICK gs : gs = BufferAt(flows, f, kind)
  OBVIOUS
<1>5. gs \in Seq(Flow(stamps)) /\ Rebuffered(flows, f, kind, gs)
  BY <1>2, <1>4, FlowBuffer
<1>6. PICK dev \in Ips : dev = flows[f].key[1]
  BY <1>3
<1>7. /\ flows' = gs /\ admission' = Raised(admission, kind) /\ quota' = RaisedFor(quota, dev, kind)
      /\ UNCHANGED <<sessions, acceptor, udp>>
  BY <1>4, <1>6 DEF ResponseBuffer, Take, Raised, RaisedFor, BufferAt
<1>8. Gains(kind, dev, f, sessions, flows, sessions, gs)
  <2> SUFFICES ASSUME NEW k \in Kinds, NEW ips \in SUBSET Ips
               PROVE  IF k = kind /\ dev \in ips
                      THEN /\ f \notin Leased(k, sessions, flows, ips)
                           /\ Leased(k, sessions, gs, ips) = Leased(k, sessions, flows, ips) \cup {f}
                      ELSE Leased(k, sessions, gs, ips) = Leased(k, sessions, flows, ips)
    BY DEF Gains
  <2>1. kind # "udp" /\ kind # "tcp" /\ k # "none"
    BY DEF Kinds
  <2>2. CASE k = kind /\ dev \in ips
    BY <1>3, <1>5, <1>6, <2>1, <2>2 DEF Leased, Rebuffered
  <2>3. CASE k = kind /\ dev \notin ips
    BY <1>3, <1>5, <1>6, <2>1, <2>3 DEF Leased, Rebuffered
  <2>4. CASE k # kind
    BY <1>3, <1>5, <2>1, <2>4 DEF Leased, Rebuffered
  <2> QED
    BY <2>2, <2>3, <2>4
<1>9. Ledger(Raised(admission, kind), RaisedFor(quota, dev, kind), sessions, gs)
  <2>1. IsFlows(gs) /\ kind \in Kinds
    BY <1>5 DEF IsFlows, Kinds
  <2> QED
    BY <1>1, <1>8, <2>1, LeaseTaken
<1>10. Drained'
  BY <1>3, <1>7 DEF Drained, AdmissionInv
<1> QED
  BY <1>7, <1>9, <1>10 DEF AdmissionInv, Asking

LEMMA ResponseSentKeeps ==
  ASSUME AdmissionInv, NEW f \in DOMAIN flows, ResponseSent(f)
  PROVE  AdmissionInv'
<1>1. Ledger(admission, quota, sessions, flows) /\ sessions \in Seq(TcpSession)
  BY DEF AdmissionInv, Ledger
<1>2. PICK stamps : flows \in Seq(Flow(stamps))
  BY <1>1 DEF Ledger, IsFlows
<1>3. flows[f].buffer \in {"normal", "jumbo"} /\ flows[f].key[1] \in Ips
  <2>1. flows[f] \in Flow(stamps)
    BY <1>2
  <2> QED
    BY <2>1 DEF Flow, ResponseSent
<1>4. PICK v : v = Latest + 1
  OBVIOUS
<1>5. PICK hs : hs = SeenAt(flows, f, v)
  OBVIOUS
<1>6. PICK S : S = stamps \cup {v}
  OBVIOUS
<1>7. hs \in Seq(Flow(S)) /\ SameFlows(flows, hs)
  BY <1>2, <1>5, <1>6, FlowSeen
<1>8. PICK gs : gs = BufferAt(hs, f, "none")
  OBVIOUS
<1>9. gs \in Seq(Flow(S)) /\ Rebuffered(hs, f, "none", gs)
  <2>1. f \in DOMAIN hs
    BY <1>7 DEF SameFlows
  <2> QED
    BY <1>7, <1>8, <2>1, FlowBuffer
<1>10. PICK dev \in Ips : dev = flows[f].key[1]
  BY <1>3
<1>11. PICK kind \in {"normal", "jumbo"} : kind = flows[f].buffer
  BY <1>3
<1>12. /\ flows' = gs /\ admission' = Lowered(admission, kind) /\ quota' = LoweredFor(quota, dev, kind)
       /\ UNCHANGED <<sessions, acceptor, udp>>
  BY <1>4, <1>5, <1>8, <1>10, <1>11 DEF ResponseSent, Give, Lowered, LoweredFor, Touch, SeenAt,
      BufferAt
<1>13. Loses(kind, dev, f, sessions, flows, sessions, gs)
  <2> SUFFICES ASSUME NEW k \in Kinds, NEW ips \in SUBSET Ips
               PROVE  IF k = kind /\ dev \in ips
                      THEN /\ f \in Leased(k, sessions, flows, ips)
                           /\ Leased(k, sessions, gs, ips) = Leased(k, sessions, flows, ips) \ {f}
                      ELSE Leased(k, sessions, gs, ips) = Leased(k, sessions, flows, ips)
    BY DEF Loses
  <2>1. kind # "udp" /\ kind # "tcp" /\ k # "none"
    BY DEF Kinds
  <2>2. /\ DOMAIN gs = DOMAIN flows
        /\ \A h \in DOMAIN flows : /\ gs[h].key = flows[h].key /\ gs[h].mapped = flows[h].mapped
                                   /\ gs[h].buffer = IF h = f THEN "none" ELSE flows[h].buffer
    BY <1>7, <1>9 DEF SameFlows, Rebuffered
  <2>3. CASE k = kind /\ dev \in ips
    BY <1>10, <1>11, <2>1, <2>2, <2>3 DEF Leased
  <2>4. CASE k = kind /\ dev \notin ips
    BY <1>10, <1>11, <2>1, <2>2, <2>4 DEF Leased
  <2>5. CASE k # kind
    BY <1>11, <2>1, <2>2, <2>5 DEF Leased
  <2> QED
    BY <2>3, <2>4, <2>5
<1>14. Ledger(Lowered(admission, kind), LoweredFor(quota, dev, kind), sessions, gs)
  <2>1. IsFlows(gs) /\ kind \in Kinds
    BY <1>9 DEF IsFlows, Kinds
  <2> QED
    BY <1>1, <1>13, <2>1, LeaseGiven
<1>15. Drained'
  BY <1>3, <1>12 DEF Drained, AdmissionInv
<1> QED
  BY <1>12, <1>14, <1>15 DEF AdmissionInv, Asking

\* What ends with the loop of UDP, and at the end of the engine.
LEMMA UdpEndsKeeps ==
  ASSUME AdmissionInv, UdpEnds
  PROVE  AdmissionInv'
<1>1. Ledger(admission, quota, sessions, flows) /\ sessions \in Seq(TcpSession)
      /\ admission \in Counters /\ quota \in [Ips -> Counters] /\ Counts(admission, quota, sessions, flows)
  BY DEF AdmissionInv, Ledger
<1>2. PICK stamps : flows \in Seq(Flow(stamps))
  BY <1>1 DEF Ledger, IsFlows
<1>3. PICK gs : gs = [f \in DOMAIN flows |->
                       [flows[f] EXCEPT !.mapped = FALSE, !.finished = TRUE, !.buffer = "none"]]
  OBVIOUS
<1>4. ASSUME NEW f \in DOMAIN flows
      PROVE  gs[f] \in Flow(stamps) /\ gs[f].mapped = FALSE /\ gs[f].buffer = "none"
  <2>1. flows[f] \in Flow(stamps)
    BY <1>2
  <2>2. gs[f] = [flows[f] EXCEPT !.mapped = FALSE, !.finished = TRUE, !.buffer = "none"]
    BY <1>3
  <2> QED
    BY <2>1, <2>2 DEF Flow
<1>5. gs \in Seq(Flow(stamps)) /\ DOMAIN gs = DOMAIN flows
  <2>1. DOMAIN flows = 1 .. Len(flows) /\ Len(flows) \in Nat
    BY <1>2
  <2>2. DOMAIN gs = DOMAIN flows /\ gs = [f \in DOMAIN flows |-> gs[f]]
    BY <1>3
  <2>3. gs \in [1 .. Len(flows) -> Flow(stamps)]
    BY <1>4, <2>1, <2>2
  <2> QED
    BY <2>1, <2>2, <2>3, FunctionIsSeq
<1>6. ASSUME NEW k \in Kinds, NEW ips
      PROVE  /\ k # "tcp" => Leased(k, sessions, gs, ips) = {} /\ UdpLeases(k, ips) = Cardinality(Leased(k, sessions, flows, ips))
             /\ k = "tcp" => Leased(k, sessions, gs, ips) = Leased(k, sessions, flows, ips) /\ UdpLeases(k, ips) = 0
  <2>1. k # "none"
    BY DEF Kinds
  <2>2. CASE k # "tcp"
    BY <1>4, <1>5, <2>1, <2>2 DEF Leased, UdpLeases
  <2>3. CASE k = "tcp"
    <3>1. \A f \in DOMAIN flows : flows[f].buffer # "tcp"
      <4>1. \A f \in DOMAIN flows : flows[f] \in Flow(stamps)
        BY <1>2
      <4> QED
        BY <4>1 DEF Flow
    <3>2. UdpLeases(k, ips) = Cardinality({})
      <4>1. {f \in DOMAIN flows : flows[f].key[1] \in ips
                /\ (flows[f].buffer = k \/ (k = "udp" /\ flows[f].mapped))} = {}
        BY <2>3, <3>1
      <4> QED
        BY <4>1 DEF UdpLeases
    <3> QED
      BY <2>3, <3>2, FS_EmptySet DEF Leased
  <2> QED
    BY <2>2, <2>3
<1>7. /\ flows' = gs /\ UNCHANGED <<sessions, acceptor>>
      /\ admission' = [k \in Kinds |-> admission[k] - UdpLeases(k, Ips)]
      /\ quota' = [ip \in Ips |-> [k \in Kinds |-> quota[ip][k] - UdpLeases(k, {ip})]]
  BY <1>3, ZeroIsCounters DEF UdpEnds
<1>8. ASSUME NEW k \in Kinds
      PROVE  /\ admission'[k] \in Int /\ admission'[k] = Cardinality(Leased(k, sessions, gs, Ips))
             /\ \A ip \in Ips : /\ quota'[ip][k] \in Int
                                /\ quota'[ip][k] = Cardinality(Leased(k, sessions, gs, {ip}))
  <2>1. /\ admission[k] = Cardinality(Leased(k, sessions, flows, Ips)) /\ admission[k] \in Int
        /\ \A ip \in Ips : quota[ip][k] = Cardinality(Leased(k, sessions, flows, {ip})) /\ quota[ip][k] \in Int
    BY <1>1 DEF Counts, Counters
  <2>2. /\ admission'[k] = admission[k] - UdpLeases(k, Ips)
        /\ \A ip \in Ips : quota'[ip][k] = quota[ip][k] - UdpLeases(k, {ip})
    BY <1>7
  <2>3. CASE k # "tcp"
    <3>1. /\ UdpLeases(k, Ips) = admission[k] /\ Leased(k, sessions, gs, Ips) = {}
          /\ \A ip \in Ips : UdpLeases(k, {ip}) = quota[ip][k] /\ Leased(k, sessions, gs, {ip}) = {}
      BY <1>6, <2>1, <2>3
    <3>2. admission'[k] = admission[k] - admission[k] /\ admission[k] \in Int
      BY <2>1, <2>2, <3>1
    <3>3. \A ip \in Ips : quota'[ip][k] = quota[ip][k] - quota[ip][k] /\ quota[ip][k] \in Int
      BY <2>1, <2>2, <3>1
    <3>4. admission'[k] = 0
      BY <3>2
    <3>5. \A ip \in Ips : quota'[ip][k] = 0
      BY <3>3
    <3>6. Cardinality({}) = 0
      BY FS_EmptySet
    <3>7. admission'[k] \in Int /\ \A ip \in Ips : quota'[ip][k] \in Int
      BY <3>4, <3>5
    <3>8. /\ Cardinality(Leased(k, sessions, gs, Ips)) = 0
          /\ \A ip \in Ips : Cardinality(Leased(k, sessions, gs, {ip})) = 0
      BY <3>1, <3>6
    <3> QED
      BY <3>4, <3>5, <3>7, <3>8
  <2>4. CASE k = "tcp"
    <3>1. /\ UdpLeases(k, Ips) = 0 /\ Leased(k, sessions, gs, Ips) = Leased(k, sessions, flows, Ips)
          /\ \A ip \in Ips : /\ UdpLeases(k, {ip}) = 0
                             /\ Leased(k, sessions, gs, {ip}) = Leased(k, sessions, flows, {ip})
      BY <1>6, <2>4
    <3>2. admission'[k] = admission[k] - 0 /\ \A ip \in Ips : quota'[ip][k] = quota[ip][k] - 0
      BY <2>2, <3>1
    <3>3. admission'[k] = admission[k] /\ \A ip \in Ips : quota'[ip][k] = quota[ip][k]
      <4>1. admission[k] \in Int /\ \A ip \in Ips : quota[ip][k] \in Int
        BY <2>1
      <4>2. admission'[k] = admission[k]
        BY <3>2, <4>1
      <4>3. \A ip \in Ips : quota'[ip][k] = quota[ip][k]
        BY <3>2, <4>1
      <4> QED
        BY <4>2, <4>3
    <3> QED
      BY <2>1, <3>1, <3>3
  <2> QED
    BY <2>3, <2>4
<1>9. admission' \in Counters /\ quota' \in [Ips -> Counters]
  <2>1. \A k \in Kinds : admission[k] - UdpLeases(k, Ips) \in Int
    BY <1>7, <1>8
  <2>2. \A ip \in Ips, k \in Kinds : quota[ip][k] - UdpLeases(k, {ip}) \in Int
    BY <1>7, <1>8
  <2>3. admission' \in Counters
    BY <1>7, <2>1 DEF Counters
  <2>4. quota' \in [Ips -> Counters]
    BY <1>7, <2>2 DEF Counters
  <2> QED
    BY <2>3, <2>4
<1>10. Ledger(admission', quota', sessions, gs)
  <2>1. IsFlows(gs)
    BY <1>5 DEF IsFlows
  <2> QED
    BY <1>1, <1>8, <1>9, <2>1 DEF Ledger, Counts
<1>11. Asking'
  <2>1. PICK u : u = udp'
    OBVIOUS
  <2>2. IsUdp(udp) /\ u = [udp EXCEPT !.pc = "over", !.opening = <<>>, !.opens = {}, !.refills = 0,
                                     !.pool = 0]
    BY <2>1 DEF UdpEnds, AdmissionInv, Asking
  <2>3. u = [pc |-> "over", key |-> udp.key, source |-> udp.source, opening |-> <<>>, opens |-> {},
             pool |-> 0, refills |-> 0, failed |-> udp.failed]
    BY <2>2 DEF IsUdp
  <2>4. IsUdp(u)
    BY <2>3 DEF IsUdp
  <2> QED
    BY <1>7, <2>1, <2>4 DEF Asking, AdmissionInv
<1>12. Drained'
  BY <1>4, <1>5, <1>7 DEF Drained
<1> QED
  BY <1>7, <1>10, <1>11, <1>12 DEF AdmissionInv

LEMMA ReleaseKeeps ==
  ASSUME AdmissionInv, Release
  PROVE  AdmissionInv'
<1>1. Ledger(admission, quota, sessions, flows) /\ Counts(admission, quota, sessions, flows)
  BY DEF AdmissionInv, Ledger
<1>2. admission' = Zero /\ UNCHANGED <<quota, sessions, flows, acceptor, udp>>
  BY DEF Release
<1>3. ASSUME NEW k \in Kinds
      PROVE  Leased(k, sessions, flows, Ips) = {}
  <2>1. k # "none"
    BY DEF Kinds
  <2> QED
    BY <2>1 DEF Leased, Release, Drained, AdmissionInv
<1>4. \A k \in Kinds : Zero[k] = Cardinality(Leased(k, sessions, flows, Ips))
  BY <1>3, ZeroIsCounters, FS_EmptySet
<1>5. Ledger(Zero, quota, sessions, flows)
  BY <1>1, <1>4, ZeroIsCounters DEF Ledger, Counts
<1> QED
  BY <1>2, <1>5 DEF AdmissionInv, Asking, Drained

LEMMA EngineStartsKeeps ==
  ASSUME NEW a, NEW q, NEW ss, NEW fs, a = Zero, q = Fresh.quota, ss = << >>, fs = << >>
  PROVE  Ledger(a, q, ss, fs)
<1>1. /\ q \in [Ips -> Counters] /\ \A ip \in Ips : q[ip] = Zero
  BY ZeroIsCounters DEF Fresh
<1>2. ss \in Seq(TcpSession) /\ fs \in Seq(Flow({}))
  OBVIOUS
<1>3. \A k \in Kinds : \A ips : Leased(k, ss, fs, ips) = {}
  BY DEF Leased
<1> QED
  BY <1>1, <1>2, <1>3, ZeroIsCounters, FS_EmptySet DEF Ledger, Counts, IsFlows

-----------------------------------------------------------------------------
\* The actions of the engine

LEMMA OtherStepKeeps ==
  ASSUME AdmissionInv, Asking', UNCHANGED <<admission, quota, sessions, flows>>,
         udp'.pc = "over" => udp.pc = "over"
  PROVE  AdmissionInv'
BY DEF AdmissionInv, Drained

\* TCP
LEMMA TcpKeeps ==
  ASSUME AdmissionInv, TryTcp \/ Evicted
  PROVE  AdmissionInv'
<1>1. acceptor.ip \in Ips /\ UNCHANGED <<flows, udp>>
  BY DEF TryTcp, Evicted, AdmissionInv, Asking
<1>2. (\E place : acceptor' = [acceptor EXCEPT !.pc = place])
      /\ (Admit(acceptor.ip) \/ UNCHANGED <<admission, quota, sessions>>)
  BY DEF TryTcp, Evicted
<1>3. Ledger(admission, quota, sessions, flows)'
  <2>1. CASE Admit(acceptor.ip)
    BY <1>1, <2>1, AdmitKeeps
  <2>2. CASE UNCHANGED <<admission, quota, sessions>>
    BY <1>1, <2>2 DEF AdmissionInv
  <2> QED
    BY <1>2, <2>1, <2>2
<1>4. acceptor' = [pc |-> acceptor'.pc, ip |-> acceptor.ip] /\ acceptor'.ip = acceptor.ip
  BY <1>2 DEF AdmissionInv, Asking
<1> QED
  BY <1>1, <1>3, <1>4 DEF AdmissionInv, Asking, Drained

\* A session that is marked or moves on keeps its lease.
LEMMA SessionMoves ==
  ASSUME AdmissionInv, NEW ts \in Seq(TcpSession), sessions' = ts, UNCHANGED <<admission, quota, flows, udp>>,
         Asking', DOMAIN ts = DOMAIN sessions,
         \A s \in DOMAIN sessions : /\ ts[s].ip = sessions[s].ip
                                    /\ ts[s].pc = "over" <=> sessions[s].pc = "over"
  PROVE  AdmissionInv'
<1>1. Ledger(admission, quota, sessions, flows) /\ IsFlows(flows)
  BY DEF AdmissionInv, Ledger
<1>2. \A k \in Kinds, ips \in SUBSET Ips : Leased(k, ts, flows, ips) = Leased(k, sessions, flows, ips)
  BY DEF Leased
<1>3. Ledger(admission, quota, ts, flows)
  BY <1>1, <1>2, LedgerStays
<1> QED
  BY <1>3 DEF AdmissionInv, Drained

LEMMA EvictOldestKeeps ==
  ASSUME AdmissionInv, EvictOldest
  PROVE  AdmissionInv'
<1>1. sessions \in Seq(TcpSession)
  BY DEF AdmissionInv, Ledger
<1>2. PICK x : x = Min(Evictable)
  OBVIOUS
<1>3. sessions' = sessions \/ sessions' = [sessions EXCEPT ![x].evicting = TRUE]
  BY <1>2 DEF EvictOldest
<1>4. UNCHANGED <<admission, quota, flows, udp>> /\ \E place : acceptor' = [acceptor EXCEPT !.pc = place]
  BY DEF EvictOldest
<1>5. Asking'
  <2>1. acceptor' = [pc |-> acceptor'.pc, ip |-> acceptor.ip] /\ acceptor'.ip = acceptor.ip
    BY <1>4 DEF AdmissionInv, Asking
  <2> QED
    BY <1>4, <2>1 DEF AdmissionInv, Asking, EvictOldest
<1>6. CASE sessions' = sessions
  BY <1>4, <1>5, <1>6, OtherStepKeeps
<1>7. CASE x \notin DOMAIN sessions /\ sessions' = [sessions EXCEPT ![x].evicting = TRUE]
  <2>1. sessions' = sessions
    BY <1>1, <1>7
  <2> QED
    BY <1>4, <1>5, <2>1, OtherStepKeeps
<1>8. CASE x \in DOMAIN sessions /\ sessions' = [sessions EXCEPT ![x].evicting = TRUE]
  <2>1. PICK t : t = [sessions[x] EXCEPT !.evicting = TRUE]
    OBVIOUS
  <2>2. t \in TcpSession /\ t.ip = sessions[x].ip /\ t.pc = sessions[x].pc
    <3>1. sessions[x] \in TcpSession
      BY <1>1, <1>8
    <3> QED
      BY <2>1, <3>1 DEF TcpSession
  <2>3. PICK ts : ts = [sessions EXCEPT ![x] = t]
    OBVIOUS
  <2>4. sessions' = ts
    BY <1>8, <2>1, <2>3
  <2>5. /\ ts \in Seq(TcpSession) /\ DOMAIN ts = DOMAIN sessions
        /\ \A s \in DOMAIN sessions : ts[s].ip = sessions[s].ip /\ ts[s].pc = sessions[s].pc
    BY <1>1, <1>8, <2>2, <2>3
  <2> QED
    BY <1>4, <1>5, <2>4, <2>5, SessionMoves
<1> QED
  BY <1>3, <1>6, <1>7, <1>8

LEMMA SessionStepKeeps ==
  ASSUME AdmissionInv, NEW s \in DOMAIN sessions, SessionStep(s)
  PROVE  AdmissionInv'
<1>1. sessions \in Seq(TcpSession)
  BY DEF AdmissionInv, Ledger
<1>2. PICK place \in {"relay", "closing"} : sessions' = [sessions EXCEPT ![s].pc = place]
  BY DEF SessionStep
<1>3. sessions[s].pc # "over" /\ UNCHANGED <<admission, quota, flows, udp, acceptor>>
  BY DEF SessionStep
<1>4. PICK t : t = [sessions[s] EXCEPT !.pc = place]
  OBVIOUS
<1>5. t \in TcpSession /\ t.ip = sessions[s].ip /\ t.pc # "over"
  <2>1. sessions[s] \in TcpSession
    BY <1>1
  <2> QED
    BY <1>4, <2>1 DEF TcpSession
<1>6. PICK ts : ts = [sessions EXCEPT ![s] = t]
  OBVIOUS
<1>7. sessions' = ts
  BY <1>2, <1>4, <1>6
<1>8. /\ ts \in Seq(TcpSession) /\ DOMAIN ts = DOMAIN sessions
      /\ \A r \in DOMAIN sessions : /\ ts[r].ip = sessions[r].ip
                                    /\ ts[r].pc = "over" <=> sessions[r].pc = "over"
  BY <1>1, <1>3, <1>5, <1>6
<1>9. Asking'
  BY <1>3 DEF AdmissionInv, Asking
<1> QED
  BY <1>3, <1>7, <1>8, <1>9, SessionMoves

\* UDP
LEMMA AcquireIsUdp ==
  ASSUME NEW v, IsUdp(v), NEW key \in Sockets, NEW source
  PROVE  IsUdp(Acquire(v, key, source)) /\ Acquire(v, key, source).pc = "acquire"
<1>1. PICK w : w = Acquire(v, key, source)
  OBVIOUS
<1>2. w = [pc |-> "acquire", key |-> key, source |-> source, opening |-> v.opening,
           opens |-> v.opens, pool |-> v.pool, refills |-> v.refills, failed |-> v.failed]
  BY <1>1 DEF Acquire, IsUdp
<1>3. IsUdp(w) /\ w.pc = "acquire"
  BY <1>2 DEF IsUdp
<1> QED
  BY <1>1, <1>3

LEMMA DispatchIsUdp ==
  ASSUME NEW u, IsUdp(u), u.pc = "loop", NEW key \in Sockets
  PROVE  IsUdp(Dispatch(u, key)) /\ Dispatch(u, key).pc # "over"
<1>1. ASSUME NEW v, IsUdp(v), NEW o, NEW w, w = [v EXCEPT !.opening = o]
      PROVE  IsUdp(w) /\ w.pc = v.pc
  BY <1>1 DEF IsUdp
<1>2. ASSUME NEW v, IsUdp(v), NEW o, NEW w, w = [v EXCEPT !.opens = o]
      PROVE  IsUdp(w) /\ w.pc = v.pc
  BY <1>2 DEF IsUdp
<1>3. ASSUME NEW v, IsUdp(v), NEW o, NEW w, w = [v EXCEPT !.refills = o]
      PROVE  IsUdp(w) /\ w.pc = v.pc
  BY <1>3 DEF IsUdp
<1>4. ASSUME NEW v, IsUdp(v), NEW o, NEW w, w = [v EXCEPT !.pool = o]
      PROVE  IsUdp(w) /\ w.pc = v.pc
  BY <1>4 DEF IsUdp
<1>5. ASSUME NEW v, IsUdp(v) PROVE IsUdp(Push(v, key)) /\ Push(v, key).pc = v.pc
  <2>1. PICK o : Push(v, key) = [v EXCEPT !.opening = o]
    BY DEF Push
  <2> QED
    BY <1>1, <1>5, <2>1
<1>6. ASSUME NEW v, IsUdp(v) PROVE IsUdp(Refill(v)) /\ Refill(v).pc = v.pc
  <2>1. PICK o : Refill(v) = [v EXCEPT !.refills = o]
    BY DEF Refill
  <2> QED
    BY <1>3, <1>6, <2>1
<1>7. ASSUME NEW v, IsUdp(v)
      PROVE  IsUdp(Acquire(v, key, "pool")) /\ Acquire(v, key, "pool").pc = "acquire"
  BY <1>7, AcquireIsUdp
<1>8. PICK v : v = [u EXCEPT !.pool = @ - 1]
  OBVIOUS
<1>9. PICK w : w = [u EXCEPT !.opens = @ \cup {key}]
  OBVIOUS
<1>10. IsUdp(v) /\ IsUdp(w) /\ v.pc = "loop" /\ w.pc = "loop"
  <2>1. PICK o : v = [u EXCEPT !.pool = o]
    BY <1>8
  <2>2. PICK p : w = [u EXCEPT !.opens = p]
    BY <1>9
  <2>3. IsUdp(v) /\ v.pc = "loop"
    BY <1>4, <2>1
  <2>4. IsUdp(w) /\ w.pc = "loop"
    BY <1>2, <2>2
  <2> QED
    BY <2>3, <2>4
<1>11. \/ Dispatch(u, key) = Push(u, key) \/ Dispatch(u, key) = u
       \/ Dispatch(u, key) = Acquire(v, key, "pool") \/ Dispatch(u, key) = Refill(Push(w, key))
  BY <1>8, <1>9 DEF Dispatch
<1> QED
  BY <1>5, <1>6, <1>7, <1>10, <1>11

LEMMA DatagramKeeps ==
  ASSUME AdmissionInv, NEW key \in Sockets, Datagram(key)
  PROVE  AdmissionInv'
<1>1. IsUdp(udp) /\ udp.pc = "loop" /\ UNCHANGED <<sessions, acceptor>>
  BY DEF Datagram, AdmissionInv, Asking
<1>2. CASE \E x : flows' = Touch(x) /\ UNCHANGED <<quota, admission, udp>>
  <2>1. PICK x : flows' = Touch(x) /\ UNCHANGED <<quota, admission, udp>>
    BY <1>2
  <2>2. Ledger(admission, quota, sessions, flows)'
    BY <1>1, <2>1, TouchKeeps
  <2> QED
    BY <1>1, <2>1, <2>2 DEF AdmissionInv, Asking, Drained
<1>3. CASE DropFlows(FlowsOf(key)) /\ udp' = Dispatch(udp, key)
  <2>1. FlowsOf(key) \subseteq Mapped
    BY DEF FlowsOf
  <2>2. Ledger(admission, quota, sessions, flows)'
    BY <1>1, <1>3, <2>1, DropFlowsKeeps
  <2>3. IsUdp(udp') /\ udp'.pc # "over"
    BY <1>1, <1>3, DispatchIsUdp
  <2> QED
    BY <1>1, <2>2, <2>3 DEF AdmissionInv, Asking, Drained
<1> QED
  BY <1>2, <1>3 DEF Datagram

LEMMA AcquireUdpKeeps ==
  ASSUME AdmissionInv, AcquireUdp
  PROVE  AdmissionInv'
<1>1. IsUdp(udp) /\ udp.pc = "acquire" /\ udp.key \in Sockets /\ UNCHANGED <<sessions, acceptor>>
  BY DEF AcquireUdp, AdmissionInv, Asking, IsUdp
<1>2. PICK back : back = [udp EXCEPT !.pc = "loop", !.key = <<>>]
  OBVIOUS
<1>3. IsUdp(back) /\ back.pc = "loop"
  BY <1>1, <1>2 DEF IsUdp
<1>4. IsUdp(Refill(back)) /\ Refill(back).pc = "loop"
  BY <1>3 DEF IsUdp, Refill
<1>5. IsUdp(udp') /\ udp'.pc # "over"
  <2>1. udp' \in {udp, back, Refill(back)}
    BY <1>2 DEF AcquireUdp
  <2> QED
    BY <1>1, <1>3, <1>4, <2>1
<1>6. \/ StartFlow(udp.key)
      \/ UNCHANGED <<flows, quota, admission>>
      \/ \E f \in Oldest : DropFlows({f})
  BY DEF AcquireUdp
<1>7. Ledger(admission, quota, sessions, flows)'
  <2>1. CASE StartFlow(udp.key)
    BY <1>1, <2>1, StartFlowKeeps
  <2>2. CASE UNCHANGED <<flows, quota, admission>>
    BY <1>1, <2>2 DEF AdmissionInv
  <2>3. CASE \E f \in Oldest : DropFlows({f})
    <3>1. PICK f \in Oldest : DropFlows({f})
      BY <2>3
    <3>2. {f} \subseteq Mapped
      BY <3>1 DEF Oldest
    <3> QED
      BY <1>1, <3>1, <3>2, DropFlowsKeeps
  <2> QED
    BY <1>6, <2>1, <2>2, <2>3
<1> QED
  BY <1>1, <1>5, <1>7 DEF AdmissionInv, Asking, Drained

LEMMA SweepKeeps ==
  ASSUME AdmissionInv, Sweep
  PROVE  AdmissionInv'
<1>1. PICK idle \in SUBSET Mapped : DropFlows(idle \cup {f \in Mapped : flows[f].finished})
  BY DEF Sweep
<1>2. idle \cup {f \in Mapped : flows[f].finished} \subseteq Mapped
  BY <1>1
<1>3. udp.pc = "loop" /\ UNCHANGED <<sessions, acceptor, udp>>
  BY DEF Sweep
<1>4. Ledger(admission, quota, sessions, flows)'
  BY <1>1, <1>2, <1>3, DropFlowsKeeps
<1> QED
  BY <1>3, <1>4 DEF AdmissionInv, Asking, Drained

\* Associations, and what only begins or ends.
LEMMA OpenedKeeps ==
  ASSUME AdmissionInv, NEW key \in Sockets, NEW ok \in BOOLEAN, Opened(key, ok)
  PROVE  AdmissionInv'
<1>1. IsUdp(udp) /\ udp.pc = "loop" /\ UNCHANGED <<admission, quota, sessions, flows, acceptor>>
  BY DEF Opened, AdmissionInv, Asking
<1>2. PICK u : u = [udp EXCEPT !.opens = @ \ {key}, !.failed = ~ok,
                               !.opening = Restrict(@, DOMAIN @ \ {key})]
  OBVIOUS
<1>3. IsUdp(u) /\ u.pc = "loop"
  BY <1>1, <1>2 DEF IsUdp
<1>4. udp' = IF ok THEN Acquire(u, key, "opened") ELSE u
  BY <1>2 DEF Opened
<1>5. IsUdp(Acquire(u, key, "opened")) /\ Acquire(u, key, "opened").pc = "acquire"
  BY <1>3, AcquireIsUdp
<1>6. IsUdp(udp') /\ udp'.pc # "over"
  BY <1>3, <1>4, <1>5
<1>7. Asking'
  BY <1>1, <1>6 DEF Asking, AdmissionInv
<1> QED
  BY <1>1, <1>6, <1>7, OtherStepKeeps

LEMMA RefilledKeeps ==
  ASSUME AdmissionInv, Refilled
  PROVE  AdmissionInv'
<1>1. IsUdp(udp) /\ udp.pc = "loop" /\ UNCHANGED <<admission, quota, sessions, flows, acceptor>>
  BY DEF Refilled, AdmissionInv, Asking
<1>2. PICK u : u = [udp EXCEPT !.refills = @ - 1, !.pool = Min({ASSOCIATION_POOL_TARGET, @ + 1})]
  OBVIOUS
<1>3. IsUdp(u) /\ u.pc = "loop"
  BY <1>1, <1>2 DEF IsUdp
<1>4. udp' = Refill(u)
  BY <1>2 DEF Refilled
<1>5. IsUdp(udp') /\ udp'.pc = "loop"
  BY <1>3, <1>4 DEF IsUdp, Refill
<1>6. Asking'
  BY <1>1, <1>5 DEF Asking, AdmissionInv
<1> QED
  BY <1>1, <1>5, <1>6, OtherStepKeeps

LEMMA QuietStepKeeps ==
  ASSUME AdmissionInv, (\E ip \in Ips : AcceptTcp(ip)) \/ BackoffEnds \/ Cancel
  PROVE  AdmissionInv'
<1>1. UNCHANGED <<admission, quota, sessions, flows>>
  BY DEF AcceptTcp, BackoffEnds, Cancel
<1>2. IsUdp(udp') /\ udp'.pc = udp.pc
  <2>1. CASE udp' = udp
    BY <2>1 DEF AdmissionInv, Asking
  <2>2. CASE udp' = [udp EXCEPT !.failed = FALSE]
    BY <2>2 DEF AdmissionInv, Asking, IsUdp
  <2> QED
    BY <2>1, <2>2 DEF AcceptTcp, BackoffEnds, Cancel
<1>3. acceptor' = acceptor \/ \E ip \in Ips : acceptor' = [pc |-> "try", ip |-> ip]
  BY DEF AcceptTcp, BackoffEnds, Cancel
<1>4. Asking'
  BY <1>2, <1>3 DEF AdmissionInv, Asking
<1> QED
  BY <1>1, <1>2, <1>4, OtherStepKeeps

LEMMA SessionEndsKeepsInv ==
  ASSUME AdmissionInv, NEW s \in DOMAIN sessions, SessionEnds(s)
  PROVE  AdmissionInv'
<1>1. UNCHANGED <<flows, udp, acceptor>>
  BY DEF SessionEnds
<1>2. Ledger(admission, quota, sessions, flows)'
  BY SessionEndsKeeps
<1> QED
  BY <1>1, <1>2 DEF AdmissionInv, Asking, Drained

LEMMA EngineKeeps ==
  ASSUME AdmissionInv, Arrival \/ Work
  PROVE  AdmissionInv'
<1>1. CASE Arrival
  BY <1>1, QuietStepKeeps, DatagramKeeps DEF Arrival
<1>2. CASE Tcp
  BY <1>2, TcpKeeps, EvictOldestKeeps, SessionStepKeeps, SessionEndsKeepsInv DEF Tcp
<1>3. CASE Udp
  <2>1. CASE \E key \in Sockets : Opened(key, TRUE) \/ Opened(key, FALSE)
    BY <2>1, OpenedKeeps
  <2> QED
    BY <1>3, <2>1, AcquireUdpKeeps, RefilledKeeps, QuietStepKeeps, UdpEndsKeeps, ReleaseKeeps,
       ResponseSentKeeps DEF Udp
<1>4. CASE Sweep \/ Cancel
  BY <1>4, SweepKeeps, QuietStepKeeps
<1>5. CASE \E f \in DOMAIN flows : ResponseEnds(f) \/ \E kind \in {"normal", "jumbo"} : ResponseBuffer(f, kind)
  BY <1>5, ResponseEndsKeeps, ResponseBufferKeeps
<1> QED
  BY <1>1, <1>2, <1>3, <1>4, <1>5 DEF Work

\* A new engine owes nothing.
LEMMA FreshEngine ==
  ASSUME NEW a, NEW q, NEW ss, NEW fs, NEW acc, NEW u, a = Zero, q = Fresh.quota, ss = << >>,
         fs = << >>, acc = Fresh.acceptor, u = Fresh.udp
  PROVE  /\ Ledger(a, q, ss, fs) /\ IsUdp(u) /\ u.pc = "loop"
         /\ acc = [pc |-> acc.pc, ip |-> acc.ip] /\ acc.pc = "accept"
<1>1. Ledger(a, q, ss, fs)
  BY EngineStartsKeeps
<1> QED
  BY <1>1 DEF Fresh, IsUdp

\* The counters of the quotas are the leases that are held, in the engine of every child there
\* is, whatever ends a session or a flow (Drop of the leases, release_runtime_state).
THEOREM QuotasAreLeases == ProxySpec => []CountersAreLeases
<1>1. ProxyInit => AdmissionInv
  BY FreshEngine DEF ProxyInit, EngineInit, AdmissionInv, Asking, Drained
<1>2. AdmissionInv /\ [ProxyNext]_proxyVars => AdmissionInv'
  <2> SUFFICES ASSUME AdmissionInv, [ProxyNext]_proxyVars PROVE AdmissionInv'
    OBVIOUS
  <2>1. CASE UNCHANGED avars
    BY <2>1 DEF avars, AdmissionInv, Asking, Drained
  <2>2. CASE EngineStarts
    <3>1. /\ Ledger(admission', quota', sessions', flows') /\ IsUdp(udp') /\ udp'.pc = "loop"
          /\ acceptor' = [pc |-> acceptor'.pc, ip |-> acceptor'.ip] /\ acceptor'.pc = "accept"
      BY <2>2, FreshEngine DEF EngineStarts
    <3> QED
      BY <3>1 DEF AdmissionInv, Asking, Drained
  <2>3. CASE Arrival \/ Work
    BY <2>3, EngineKeeps
  <2> QED
    BY <2>1, <2>2, <2>3 DEF ProxyNext, RouteStep, ChildStep, ChildExits, proxyVars, avars
<1>3. AdmissionInv => CountersAreLeases
  BY CountsAreLeases DEF AdmissionInv, Ledger
<1> QED
  BY <1>1, <1>2, <1>3, PTL DEF ProxySpec

=============================================================================
