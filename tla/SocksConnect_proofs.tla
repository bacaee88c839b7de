------------------------- MODULE SocksConnect_proofs -------------------------
(***************************************************************************)
(* OneGeneration and NothingLeaks for any number of callers, workers,      *)
(* sessions and stream ids.                                                *)
(*                                                                         *)
(* A stream id is handed out once (IdsAreOwned), so the OPEN sent for it   *)
(* is the only one, and everything the server does for the id belongs to   *)
(* the session that OPEN went to (OneKeyPerId).  A caller whose carrier is *)
(* proven stays with its id (ProvenStays): all it ever gets is of one key. *)
(* What is registered belongs to a caller that has not come to the end of  *)
(* handle_client (HeldByCaller).                                           *)
(***************************************************************************)
EXTENDS SocksConnect, FiniteSetTheorems, TLAPS

\* Where a caller's task may have an id registered or a stream pinned.
Holding == {"pick", "bind", "wait", "failed", "relay", "closing"}
Unsent  == {"pick", "bind"}

KeyOf(m) == <<m[2], m[3]>>

\* The keys anything in flight, at the server or at a caller is about.
Used ==
  {KeyOf(m) : m \in {u \in up : u[1] = "open"}} \cup opening \cup DOMAIN tasks
  \cup {KeyOf(m) : m \in down} \cup UNION {got[c] : c \in Callers}

Shape ==
  /\ ids \in Nat /\ ids > 0
  /\ DOMAIN routes = Ids /\ streams \subseteq Ids
  /\ DOMAIN pc = Callers /\ DOMAIN proven = Callers /\ DOMAIN got = Callers
  /\ stream_id \in [Callers -> Nat]

IdsAreOwned ==
  /\ \A c \in Callers : stream_id[c] < ids
  /\ \A c \in Callers : pc[c] \in Unsent => stream_id[c] # 0
  /\ \A c, d \in Callers : c # d /\ stream_id[c] = stream_id[d] => stream_id[c] = 0

OneKeyPerId ==
  /\ \A k \in Used : k = <<k[1], k[2]>> /\ k[2] \in Nat /\ k[2] < ids
  /\ \A k, l \in Used : k[2] = l[2] => k = l
  /\ \A c \in Callers : pc[c] \in Unsent => \A k \in Used : k[2] # stream_id[c]

ProvenStays ==
  \A c \in Callers :
    /\ ~proven[c] => got[c] = {}
    /\ proven[c] => /\ pc[c] \in {"relay", "closing", "done"}
                    /\ \A k \in got[c] : k[2] = stream_id[c]

HeldByCaller ==
  \A i \in Ids : i \in streams \/ routes[i] # NoRoute =>
    \E c \in Callers : stream_id[c] = i /\ pc[c] \in Holding

IInv == Shape /\ IdsAreOwned /\ OneKeyPerId /\ ProvenStays /\ HeldByCaller

-----------------------------------------------------------------------------
(* What the keys in use are made of. *)

LEMMA UsedHas ==
  /\ \A m \in up : m[1] = "open" => <<m[2], m[3]>> \in Used
  /\ opening \subseteq Used /\ DOMAIN tasks \subseteq Used
  /\ \A m \in down : <<m[2], m[3]>> \in Used
  /\ \A c \in Callers : got[c] \subseteq Used
  BY DEF Used, KeyOf

\* A set that has them all has the keys in use after a step.
LEMMA UsedWithin ==
  ASSUME NEW S,
         \A m \in up' : m[1] = "open" => <<m[2], m[3]>> \in S,
         opening' \subseteq S, DOMAIN tasks' \subseteq S,
         \A m \in down' : <<m[2], m[3]>> \in S,
         \A c \in Callers : got'[c] \subseteq S
  PROVE  Used' \subseteq S
  BY DEF Used, KeyOf

\* A step that loses frames, takes or forgets opens and ends tasks uses no new key.
LEMMA UsedShrinks ==
  ASSUME \A m \in up' : m[1] = "open" => m \in up,
         opening' \subseteq opening, DOMAIN tasks' \subseteq DOMAIN tasks,
         down' \subseteq down, UNCHANGED got
  PROVE  Used' \subseteq Used
<1>1. \A m \in up' : m[1] = "open" => <<m[2], m[3]>> \in Used
  BY UsedHas
<1>2. \A m \in down' : <<m[2], m[3]>> \in Used
  BY UsedHas
<1>3. \A c \in Callers : got'[c] \subseteq Used
  BY UsedHas
<1>4. opening' \subseteq Used /\ DOMAIN tasks' \subseteq Used
  BY UsedHas
<1> QED
  BY <1>1, <1>2, <1>3, <1>4, UsedWithin

\* What a server task sends is of its own key.
LEMMA SentKey ==
  ASSUME NEW s, NEW kind, NEW i, NEW m \in Sent(s, kind, i)
  PROVE  m = <<kind, s, i>>
  BY DEF Sent

-----------------------------------------------------------------------------
(* What a step has to leave alone. *)

\* Nobody's claim is lost: a task that stops holding its id has taken it out
\* of the map and out of the routes.
LEMMA HeldKeeps ==
  ASSUME IInv, stream_id' = stream_id,
         \A i \in Ids : i \in streams' \/ routes'[i] # NoRoute
                        => i \in streams \/ routes[i] # NoRoute,
         \A c \in Callers :
           pc[c] \in Holding =>
             \/ pc'[c] \in Holding
             \/ /\ stream_id[c] \notin streams'
                /\ stream_id[c] \in Ids => routes'[stream_id[c]] = NoRoute
  PROVE  HeldByCaller'
<1> SUFFICES ASSUME NEW i \in Ids, i \in streams' \/ routes'[i] # NoRoute
             PROVE  \E c \in Callers : stream_id'[c] = i /\ pc'[c] \in Holding
  BY DEF HeldByCaller, Ids
<1>1. PICK c \in Callers : stream_id[c] = i /\ pc[c] \in Holding
  BY DEF IInv, HeldByCaller
<1> QED
  BY <1>1

\* A step that hands out no id and opens nothing.
LEMMA Keeps ==
  ASSUME IInv, Shape', HeldByCaller', ProvenStays', Used' \subseteq Used,
         ids' = ids, stream_id' = stream_id,
         \A c \in Callers : pc'[c] \in Unsent => pc[c] \in Unsent
  PROVE  IInv'
<1>1. IdsAreOwned'
  BY DEF IInv, IdsAreOwned
<1>2. OneKeyPerId'
  BY DEF IInv, OneKeyPerId
<1> QED
  BY <1>1, <1>2 DEF IInv

\* A step of the dispatcher, the wire or the server.
LEMMA KeepsQuiet ==
  ASSUME IInv, UNCHANGED proxy, UNCHANGED got, Used' \subseteq Used,
         DOMAIN routes' = Ids, \A i \in Ids : routes'[i] # NoRoute => routes[i] # NoRoute
  PROVE  IInv'
<1>1. Shape'
  BY DEF IInv, Shape, proxy
<1>2. HeldByCaller'
  BY HeldKeeps DEF proxy
<1>3. ProvenStays'
  BY DEF IInv, ProvenStays, proxy
<1> QED
  BY <1>1, <1>2, <1>3, Keeps DEF proxy

\* A step of a caller's task within the generation it holds, or out of it.
LEMMA KeepsMove ==
  ASSUME IInv, NEW c \in Callers, NEW step,
         pc' = [pc EXCEPT ![c] = step], step \in Unsent => pc[c] \in Unsent,
         proven' = proven, got' = got, ids' = ids, stream_id' = stream_id,
         proven[c] => step \in {"relay", "closing", "done"},
         streams' \subseteq streams, DOMAIN routes' = Ids,
         \A i \in Ids : routes'[i] # NoRoute => routes[i] # NoRoute,
         pc[c] \in Holding =>
             \/ step \in Holding
             \/ /\ stream_id[c] \notin streams'
                /\ stream_id[c] \in Ids => routes'[stream_id[c]] = NoRoute,
         Used' \subseteq Used
  PROVE  IInv'
<1>1. Shape'
  BY DEF IInv, Shape
<1>2. \A d \in Callers : pc'[d] = IF d = c THEN step ELSE pc[d]
  BY DEF IInv, Shape
<1>3. HeldByCaller'
  BY <1>2, HeldKeeps
<1>4. ProvenStays'
  BY <1>2 DEF IInv, ProvenStays
<1> QED
  BY <1>1, <1>2, <1>3, <1>4, Keeps

-----------------------------------------------------------------------------
(* The dispatcher and the server. *)

LEMMA KeepsCarriers ==
  ASSUME IInv, NEW w \in Workers, register(w) \/ unregister(w)
  PROVE  IInv'
<1>1. UNCHANGED <<proxy, up, down, server, history>>
  BY DEF register, unregister
<1>2. Used' \subseteq Used
  BY <1>1, UsedShrinks DEF server, history
<1>3. DOMAIN routes' = Ids /\ \A i \in Ids : routes'[i] # NoRoute => routes[i] # NoRoute
  BY DEF register, unregister, IInv, Shape
<1> QED
  BY <1>1, <1>2, <1>3, KeepsQuiet DEF history

\* The frame that opens a stream gives its key on.
LEMMA KeepsRecv ==
  ASSUME IInv, NEW m \in up, RecvOpen(m) \/ RecvClose(m)
  PROVE  IInv'
<1>1. UNCHANGED <<dispatcher, proxy, history>>
  BY DEF RecvOpen, RecvClose
<1>2. CASE RecvClose(m)
  <2>1. Used' \subseteq Used
    BY <1>1, <1>2, UsedShrinks DEF RecvClose, history
  <2> QED
    BY <1>1, <2>1, KeepsQuiet DEF dispatcher, history, IInv, Shape
<1>3. CASE RecvOpen(m)
  <2>1. <<m[2], m[3]>> \in Used
    BY <1>3, UsedHas DEF RecvOpen
  <2>2. \A n \in up' : n[1] = "open" => <<n[2], n[3]>> \in Used
    BY <1>3, UsedHas DEF RecvOpen
  <2>3. opening' \subseteq Used /\ DOMAIN tasks' \subseteq Used
    BY <1>3, <2>1, UsedHas DEF RecvOpen
  <2>4. \A n \in down' : <<n[2], n[3]>> \in Used
    <3>1. \A n \in Sent(m[2], "end", m[3]) : n = <<"end", m[2], m[3]>>
      BY SentKey
    <3>2. \A n \in Sent(m[2], "end", m[3]) : <<n[2], n[3]>> \in Used
      BY <2>1, <3>1
    <3> QED
      BY <1>3, <3>2, UsedHas DEF RecvOpen
  <2>5. \A c \in Callers : got'[c] \subseteq Used
    BY <1>1, UsedHas DEF history
  <2>6. Used' \subseteq Used
    BY <2>2, <2>3, <2>4, <2>5, UsedWithin
  <2> QED
    BY <1>1, <2>6, KeepsQuiet DEF dispatcher, history, IInv, Shape
<1> QED
  BY <1>2, <1>3

LEMMA KeepsInsert ==
  ASSUME IInv, NEW k \in opening, InsertStream(k)
  PROVE  IInv'
<1>1. UNCHANGED <<dispatcher, proxy, up, down, history>>
  BY DEF InsertStream
<1>2. opening' \subseteq Used /\ DOMAIN tasks' \subseteq Used
  BY UsedHas DEF InsertStream
<1>3. /\ \A n \in up' : n[1] = "open" => <<n[2], n[3]>> \in Used
      /\ \A n \in down' : <<n[2], n[3]>> \in Used
      /\ \A c \in Callers : got'[c] \subseteq Used
  BY <1>1, UsedHas DEF history
<1>4. Used' \subseteq Used
  BY <1>2, <1>3, UsedWithin
<1> QED
  BY <1>1, <1>4, KeepsQuiet DEF dispatcher, history, IInv, Shape

\* A task of the server says something about its own key, or ends.
LEMMA KeepsTask ==
  ASSUME IInv, NEW k \in Keys,
         Connected(k) \/ TargetSpeaks(k) \/ Told(k) \/ TargetEnds(k) \/ ConnectFails(k) \/ Expire(k)
  PROVE  IInv'
<1>1. /\ UNCHANGED <<dispatcher, proxy, up, opening, history>>
      /\ DOMAIN tasks' \subseteq DOMAIN tasks
      /\ \E kind \in {"ok", "data", "end"} : down' = down \cup Sent(k[1], kind, k[2])
  BY DEF Connected, TargetSpeaks, Told, TargetEnds, ConnectFails, Expire, EndTask, Keys
<1>2. k \in Used /\ k = <<k[1], k[2]>>
  BY UsedHas DEF Keys, IInv, OneKeyPerId
<1>3. \A n \in down' : <<n[2], n[3]>> \in Used
  <2>1. PICK kind \in {"ok", "data", "end"} : down' = down \cup Sent(k[1], kind, k[2])
    BY <1>1
  <2>2. \A n \in Sent(k[1], kind, k[2]) : n = <<kind, k[1], k[2]>>
    BY SentKey
  <2>3. \A n \in Sent(k[1], kind, k[2]) : <<n[2], n[3]>> = k
    BY <1>2, <2>2
  <2> QED
    BY <1>2, <2>1, <2>3, UsedHas
<1>4. /\ \A n \in up' : n[1] = "open" => <<n[2], n[3]>> \in Used
      /\ opening' \subseteq Used /\ DOMAIN tasks' \subseteq Used
      /\ \A c \in Callers : got'[c] \subseteq Used
  BY <1>1, UsedHas DEF history
<1>5. Used' \subseteq Used
  BY <1>3, <1>4, UsedWithin
<1> QED
  BY <1>1, <1>5, KeepsQuiet DEF dispatcher, history, IInv, Shape

LEMMA KeepsCloseSession ==
  ASSUME IInv, NEW s \in Sessions, close_session(s)
  PROVE  IInv'
<1>1. UNCHANGED <<dispatcher, proxy, down, opening, tasks, history>>
  BY DEF close_session
<1>2. Used' \subseteq Used
  BY <1>1, UsedShrinks DEF close_session, history
<1> QED
  BY <1>1, <1>2, KeepsQuiet DEF dispatcher, history, IInv, Shape

-----------------------------------------------------------------------------
(* The caller's task. *)

\* Both ends of a generation: the id is out of the map and out of the routes.
LEMMA Cleared ==
  ASSUME IInv, NEW i, Remove(i), SendClose(i)
  PROVE  /\ streams' \subseteq streams /\ i \notin streams' /\ down' \subseteq down
         /\ DOMAIN routes' = Ids /\ (i \in Ids => routes'[i] = NoRoute)
         /\ \A j \in Ids : routes'[j] # NoRoute => routes[j] # NoRoute
         /\ \A m \in up' : m[1] = "open" => m \in up
<1>1. \A s : <<"close", s, i>>[1] # "open"
  OBVIOUS
<1>2. \A m \in up' : m[1] = "open" => m \in up
  BY <1>1 DEF SendClose
<1> QED
  BY <1>2 DEF Remove, SendClose, IInv, Shape

LEMMA KeepsAccept ==
  ASSUME IInv, NEW c \in Callers, Accept(c)
  PROVE  IInv'
<1>1. /\ UNCHANGED <<dispatcher, streams, stream_id, proven, up, down, server, history>>
      /\ pc[c] = "idle" /\ ids' \in {ids, ids + 1}
      /\ \E step \in {"done", "handshake"} : pc' = [pc EXCEPT ![c] = step]
  BY DEF Accept, Goto
<1>2. PICK step \in {"done", "handshake"} : pc' = [pc EXCEPT ![c] = step]
  BY <1>1
<1>3. Used' \subseteq Used
  BY <1>1, UsedShrinks DEF server, history
<1>4. \A d \in Callers : pc'[d] = IF d = c THEN step ELSE pc[d]
  BY <1>2 DEF IInv, Shape
<1>5. Shape' /\ ids \in Nat /\ ids <= ids'
  BY <1>1, <1>2 DEF IInv, Shape, dispatcher, history
<1>6. IdsAreOwned'
  BY <1>1, <1>4, <1>5 DEF IInv, IdsAreOwned, Unsent, Shape
<1>7. OneKeyPerId'
  BY <1>1, <1>3, <1>4, <1>5 DEF IInv, OneKeyPerId, Unsent, Shape
<1>8. ProvenStays'
  BY <1>1, <1>4 DEF IInv, ProvenStays, history
<1>9. HeldByCaller'
  BY <1>1, <1>4, HeldKeeps DEF Holding, dispatcher
<1> QED
  BY <1>5, <1>6, <1>7, <1>8, <1>9 DEF IInv

\* A new id: nobody has it and nothing is about it.
LEMMA KeepsOpenStart ==
  ASSUME IInv, NEW c \in Callers, OpenStart(c)
  PROVE  IInv'
<1>1. /\ UNCHANGED <<dispatcher, proven, up, down, server, history>>
      /\ pc[c] = "open" /\ ids \in Ids /\ ids' = ids + 1 /\ streams' = streams \cup {ids}
      /\ stream_id' = [stream_id EXCEPT ![c] = ids] /\ pc' = [pc EXCEPT ![c] = "pick"]
  BY DEF OpenStart, TakeId, Goto, IInv, Shape, Ids
<1>2. Used' \subseteq Used
  BY <1>1, UsedShrinks DEF server, history
<1>3. /\ \A d \in Callers : pc'[d] = IF d = c THEN "pick" ELSE pc[d]
      /\ \A d \in Callers : stream_id'[d] = IF d = c THEN ids ELSE stream_id[d]
  BY <1>1 DEF IInv, Shape
<1>4. Shape'
  <2>1. ids' \in Nat /\ ids' > 0
    BY <1>1 DEF IInv, Shape
  <2>3. streams' \subseteq Ids
    BY <1>1 DEF IInv, Shape
  <2>2. stream_id' \in [Callers -> Nat]
    BY <1>1 DEF IInv, Shape
  <2> QED
    BY <1>1, <2>1, <2>2, <2>3 DEF IInv, Shape, dispatcher, history
<1>5. IdsAreOwned'
  BY <1>1, <1>3, <1>4 DEF IInv, IdsAreOwned, Unsent, Shape
<1>6. OneKeyPerId'
  BY <1>1, <1>2, <1>3, <1>4 DEF IInv, OneKeyPerId, Unsent, Shape
<1>7. ProvenStays'
  BY <1>1, <1>3 DEF IInv, ProvenStays, history
<1>8. HeldByCaller'
  <2> SUFFICES ASSUME NEW i \in Ids, i \in streams' \/ routes'[i] # NoRoute
               PROVE  \E d \in Callers : stream_id'[d] = i /\ pc'[d] \in Holding
    BY DEF HeldByCaller, Ids
  <2>1. CASE i = ids
    BY <1>3, <2>1 DEF Holding
  <2>2. CASE i # ids
    <3>1. PICK d \in Callers : stream_id[d] = i /\ pc[d] \in Holding
      BY <1>1, <2>2 DEF IInv, HeldByCaller, dispatcher
    <3>2. d # c
      BY <1>1, <3>1 DEF Holding
    <3> QED
      BY <1>3, <3>1, <3>2
  <2> QED
    BY <2>1, <2>2
<1> QED
  BY <1>4, <1>5, <1>6, <1>7, <1>8 DEF IInv

\* The OPEN of an id: the first and only one, so its key is the id's.
LEMMA KeepsOpenSend ==
  ASSUME IInv, NEW c \in Callers, OpenSend(c)
  PROVE  IInv'
<1> DEFINE i == stream_id[c]
           k == <<carrier[c], i>>
<1>1. /\ UNCHANGED <<ids, streams, stream_id, proven, down, opening, tasks, got>>
      /\ pc[c] = "bind" /\ DOMAIN routes' = Ids
      /\ \A m \in up' : m \in up \/ m = <<"open", carrier[c], i>>
      /\ \A j \in Ids : j # i => routes'[j] = routes[j]
      /\ \E step \in {"wait", "failed"} : pc' = [pc EXCEPT ![c] = step]
  BY DEF OpenSend, Goto, server, IInv, Shape
<1>2. PICK step \in {"wait", "failed"} : pc' = [pc EXCEPT ![c] = step]
  BY <1>1
<1>3. \A d \in Callers : pc'[d] = IF d = c THEN step ELSE pc[d]
  BY <1>2 DEF IInv, Shape
<1>4. Used' \subseteq Used \cup {k}
  <2>1. \A m \in up' : m[1] = "open" => <<m[2], m[3]>> \in Used \cup {k}
    BY <1>1, UsedHas
  <2>2. /\ opening' \subseteq Used \cup {k} /\ DOMAIN tasks' \subseteq Used \cup {k}
        /\ \A m \in down' : <<m[2], m[3]>> \in Used \cup {k}
        /\ \A d \in Callers : got'[d] \subseteq Used \cup {k}
    BY <1>1, UsedHas
  <2> QED
    BY <2>1, <2>2, UsedWithin
<1>5. i \in Nat /\ i # 0 /\ i < ids /\ \A l \in Used : l[2] # i
  BY <1>1 DEF IInv, Shape, IdsAreOwned, OneKeyPerId, Unsent
<1>6. Shape'
  BY <1>1, <1>2 DEF IInv, Shape
<1>7. IdsAreOwned'
  BY <1>1, <1>3 DEF IInv, IdsAreOwned, Unsent
<1>8. OneKeyPerId'
  <2>1. k[1] = carrier[c] /\ k[2] = i
    OBVIOUS
  <2>2. \A l \in Used' : l = k \/ l \in Used
    BY <1>4
  <2> HIDE DEF k
  <2>3. \A l \in Used' : l = <<l[1], l[2]>> /\ l[2] \in Nat /\ l[2] < ids'
    BY <1>1, <1>5, <2>1, <2>2 DEF IInv, OneKeyPerId, k
  <2>4. \A l, n \in Used' : l[2] = n[2] => l = n
    BY <1>5, <2>1, <2>2 DEF IInv, OneKeyPerId
  <2>5. \A d \in Callers : pc'[d] \in Unsent => \A l \in Used' : l[2] # stream_id'[d]
    <3> SUFFICES ASSUME NEW d \in Callers, pc'[d] \in Unsent, NEW l \in Used'
                 PROVE  l[2] # stream_id[d]
      BY <1>1
    <3>1. d # c /\ pc[d] \in Unsent
      BY <1>3 DEF Unsent
    <3>2. stream_id[d] # i
      BY <1>5, <3>1 DEF IInv, IdsAreOwned
    <3> QED
      BY <2>1, <2>2, <3>1, <3>2 DEF IInv, OneKeyPerId
  <2> QED
    BY <2>3, <2>4, <2>5 DEF OneKeyPerId
<1>9. ProvenStays'
  BY <1>1, <1>3 DEF IInv, ProvenStays
<1>10. HeldByCaller'
  <2> SUFFICES ASSUME NEW j \in Ids, j \in streams' \/ routes'[j] # NoRoute
               PROVE  \E d \in Callers : stream_id'[d] = j /\ pc'[d] \in Holding
    BY DEF HeldByCaller, Ids
  <2>1. CASE j = i
    BY <1>1, <1>3, <2>1 DEF Holding
  <2>2. CASE j # i
    <3>1. PICK d \in Callers : stream_id[d] = j /\ pc[d] \in Holding
      BY <1>1, <2>2 DEF IInv, HeldByCaller
    <3> QED
      BY <1>1, <1>3, <2>2, <3>1 DEF Holding
  <2> QED
    BY <2>1, <2>2
<1> QED
  BY <1>6, <1>7, <1>8, <1>9, <1>10 DEF IInv

\* The steps of a task that change nothing but where it is.
LEMMA KeepsWaiting ==
  ASSUME IInv, NEW c \in Callers,
         Handshake(c) \/ OpenPick(c) \/ OpenTimeout(c) \/ Aborted(c) \/ CallerLeaves(c)
  PROVE  IInv'
<1>1. /\ UNCHANGED <<routes, ids, streams, stream_id, proven, up, down, server, history>>
      /\ \/ pc[c] = "handshake" /\ \E step \in {"open", "done"} : pc' = [pc EXCEPT ![c] = step]
         \/ pc[c] = "pick" /\ \E step \in {"failed", "bind"} : pc' = [pc EXCEPT ![c] = step]
         \/ pc[c] = "wait" /\ pc' = [pc EXCEPT ![c] = "failed"]
         \/ pc[c] = "relay" /\ pc' = [pc EXCEPT ![c] = "closing"]
  BY DEF Handshake, OpenPick, OpenTimeout, Aborted, CallerLeaves, Goto, dispatcher
<1>2. PICK step : /\ pc' = [pc EXCEPT ![c] = step]
                  /\ \/ pc[c] = "handshake" /\ step \in {"open", "done"}
                     \/ pc[c] = "pick" /\ step \in {"failed", "bind"}
                     \/ pc[c] = "wait" /\ step = "failed"
                     \/ pc[c] = "relay" /\ step = "closing"
  BY <1>1
<1>3. Used' \subseteq Used
  BY <1>1, UsedShrinks DEF server, history
<1>4. /\ step \in Unsent => pc[c] \in Unsent
      /\ proven[c] => step \in {"relay", "closing", "done"}
      /\ pc[c] \in Holding => step \in Holding
  BY <1>2 DEF Unsent, Holding, IInv, ProvenStays
<1>5. /\ streams' \subseteq streams /\ DOMAIN routes' = Ids
      /\ \A i \in Ids : routes'[i] # NoRoute => routes[i] # NoRoute
      /\ ids' = ids /\ stream_id' = stream_id /\ proven' = proven /\ got' = got
  BY <1>1 DEF IInv, Shape, history
<1> QED
  BY <1>2, <1>3, <1>4, <1>5, KeepsMove

\* The steps that end a generation, or the connection.
LEMMA KeepsEnding ==
  ASSUME IInv, NEW c \in Callers, OpenFailed(c) \/ Stall(c) \/ Close(c)
  PROVE  IInv'
<1>1. /\ UNCHANGED <<ids, stream_id, proven, opening, tasks, got>>
      /\ \/ /\ pc[c] = "relay" /\ pc' = [pc EXCEPT ![c] = "closing"]
            /\ UNCHANGED <<routes, streams, up, down>>
         \/ /\ \/ pc[c] = "failed" /\ \E step \in {"open", "closing"} : pc' = [pc EXCEPT ![c] = step]
               \/ pc[c] = "relay" /\ ~proven[c] /\ pc' = [pc EXCEPT ![c] = "open"]
               \/ pc[c] = "closing" /\ pc' = [pc EXCEPT ![c] = "done"]
            /\ Remove(stream_id[c]) /\ SendClose(stream_id[c])
  BY DEF OpenFailed, Stall, Close, Goto, server
<1>2. PICK step :
        /\ pc' = [pc EXCEPT ![c] = step]
        /\ \/ /\ pc[c] = "relay" /\ step = "closing"
              /\ UNCHANGED <<routes, streams, up, down>>
           \/ /\ \/ pc[c] = "failed" /\ step \in {"open", "closing"}
                 \/ pc[c] = "relay" /\ ~proven[c] /\ step = "open"
                 \/ pc[c] = "closing" /\ step = "done"
              /\ Remove(stream_id[c]) /\ SendClose(stream_id[c])
  BY <1>1
<1>3. /\ step \notin Unsent
      /\ proven[c] => step \in {"relay", "closing", "done"}
  BY <1>2 DEF Unsent, IInv, ProvenStays
<1>4. CASE UNCHANGED <<routes, streams, up, down>> /\ step = "closing"
  <2>1. Used' \subseteq Used
    BY <1>1, <1>4, UsedShrinks
  <2>2. DOMAIN routes' = Ids /\ step \in Holding
    BY <1>4 DEF IInv, Shape, Holding
  <2> QED
    BY <1>1, <1>2, <1>3, <1>4, <2>1, <2>2, KeepsMove
<1>5. CASE Remove(stream_id[c]) /\ SendClose(stream_id[c])
  <2>1. /\ streams' \subseteq streams /\ stream_id[c] \notin streams' /\ down' \subseteq down
        /\ DOMAIN routes' = Ids /\ (stream_id[c] \in Ids => routes'[stream_id[c]] = NoRoute)
        /\ \A j \in Ids : routes'[j] # NoRoute => routes[j] # NoRoute
        /\ \A m \in up' : m[1] = "open" => m \in up
    BY <1>5, Cleared
  <2>2. Used' \subseteq Used
    BY <1>1, <2>1, UsedShrinks
  <2> QED
    BY <1>1, <1>2, <1>3, <2>1, <2>2, KeepsMove
<1> QED
  BY <1>2, <1>4, <1>5

\* A confirmation that arrives, and bytes of the caller that go out or fail to.
LEMMA RouteStaysOrGoes ==
  ASSUME IInv, NEW c \in Callers, NEW step, SendData(c, stream_id[c], step)
  PROVE  /\ DOMAIN routes' = Ids
         /\ \A j \in Ids : routes'[j] # NoRoute => routes[j] # NoRoute
         /\ \E to \in {step, "closing"} : pc' = [pc EXCEPT ![c] = to]
  BY DEF SendData, IInv, Shape

LEMMA KeepsSpeaks ==
  ASSUME IInv, NEW c \in Callers, NEW chunk \in Chunks, CallerSpeaks(c, chunk)
  PROVE  IInv'
<1>1. /\ UNCHANGED <<ids, streams, stream_id, proven, up, down, opening, tasks, got>>
      /\ pc[c] = "relay"
      /\ \E step \in {"closing", "relay"} : SendData(c, stream_id[c], step)
  BY DEF CallerSpeaks, server
<1>2. /\ DOMAIN routes' = Ids
      /\ \A j \in Ids : routes'[j] # NoRoute => routes[j] # NoRoute
      /\ \E step \in {"closing", "relay"} : pc' = [pc EXCEPT ![c] = step]
  BY <1>1, RouteStaysOrGoes
<1>3. PICK step \in {"closing", "relay"} : pc' = [pc EXCEPT ![c] = step]
  BY <1>2
<1>4. Used' \subseteq Used
  BY <1>1, UsedShrinks
<1>5. step \notin Unsent /\ step \in Holding
  BY DEF Unsent, Holding
<1> QED
  BY <1>1, <1>2, <1>3, <1>4, <1>5, KeepsMove

LEMMA KeepsOverflow ==
  ASSUME IInv, NEW c \in Callers, NEW m \in down, Overflow(c, m)
  PROVE  IInv'
<1>1. /\ UNCHANGED <<ids, stream_id, proven, routes, up, opening, tasks, got>>
      /\ pc[c] = "relay" /\ pc' = [pc EXCEPT ![c] = "closing"]
      /\ streams' \subseteq streams /\ down' \subseteq down
  BY DEF Overflow, Remove, Goto, server, dispatcher, history
<1>2. Used' \subseteq Used
  BY <1>1, UsedShrinks
<1>3. "closing" \notin Unsent /\ "closing" \in Holding /\ DOMAIN routes' = Ids
  BY <1>1 DEF Unsent, Holding, IInv, Shape
<1> QED
  BY <1>1, <1>2, <1>3, KeepsMove

\* Data proves the carrier, and is of the key of the id the caller holds.
LEMMA KeepsData ==
  ASSUME IInv, NEW c \in Callers, NEW m \in down, m[3] = stream_id[c], pc[c] = "relay",
         Data(c, <<m[2], m[3]>>), down' = down \ {m},
         UNCHANGED <<ids, streams, stream_id, routes, up, opening, tasks>>
  PROVE  IInv'
<1>1. PICK step \in {"relay", "closing"} : pc' = [pc EXCEPT ![c] = step]
  BY DEF Data, Goto
<1>2. \A d \in Callers : pc'[d] = IF d = c THEN step ELSE pc[d]
  BY <1>1 DEF IInv, Shape
<1> DEFINE k == <<m[2], m[3]>>
<1>3. k \in Used /\ k[2] = stream_id[c]
  BY UsedHas
<1> HIDE DEF k
<1>4. /\ proven' = [proven EXCEPT ![c] = TRUE] /\ got' = [got EXCEPT ![c] = @ \cup {k}]
  BY DEF Data, k
<1>5. /\ \A d \in Callers : proven'[d] <=> (d = c \/ proven[d])
      /\ \A d \in Callers : got'[d] = IF d = c THEN got[d] \cup {k} ELSE got[d]
  BY <1>4 DEF IInv, Shape
<1>6. Used' \subseteq Used
  <2>1. \A d \in Callers : got'[d] \subseteq Used
    BY <1>3, <1>5, UsedHas
  <2>2. /\ \A n \in up' : n[1] = "open" => <<n[2], n[3]>> \in Used
        /\ opening' \subseteq Used /\ DOMAIN tasks' \subseteq Used
        /\ \A n \in down' : <<n[2], n[3]>> \in Used
    BY UsedHas
  <2> QED
    BY <2>1, <2>2, UsedWithin
<1>7. Shape'
  BY <1>1, <1>4 DEF IInv, Shape
<1>8. ProvenStays'
  <2> SUFFICES ASSUME NEW d \in Callers
               PROVE  /\ ~proven'[d] => got'[d] = {}
                      /\ proven'[d] => /\ pc'[d] \in {"relay", "closing", "done"}
                                       /\ \A l \in got'[d] : l[2] = stream_id'[d]
    BY DEF ProvenStays
  <2>1. CASE d = c
    <3>1. \A l \in got[c] : l[2] = stream_id[c]
      BY DEF IInv, ProvenStays
    <3>2. proven'[c] /\ pc'[c] \in {"relay", "closing", "done"}
      BY <1>2, <1>5
    <3>3. \A l \in got'[c] : l[2] = stream_id'[c]
      BY <1>3, <1>5, <3>1
    <3> QED
      BY <2>1, <3>2, <3>3
  <2>2. CASE d # c
    BY <1>2, <1>5, <2>2 DEF IInv, ProvenStays
  <2> QED
    BY <2>1, <2>2
<1>9. HeldByCaller'
  BY <1>2, HeldKeeps DEF Holding
<1> QED
  BY <1>2, <1>6, <1>7, <1>8, <1>9, Keeps DEF Unsent

LEMMA KeepsInbound ==
  ASSUME IInv, NEW c \in Callers, NEW m \in down, Inbound(c, m)
  PROVE  IInv'
<1>1. /\ UNCHANGED <<ids, streams, stream_id, up, opening, tasks>>
      /\ m[3] = stream_id[c] /\ down' = down \ {m}
  BY DEF Inbound, server
<1>2. CASE pc[c] = "relay" /\ m[1] = "data" /\ Data(c, <<m[2], m[3]>>) /\ UNCHANGED routes
  BY <1>1, <1>2, KeepsData
<1>3. CASE UNCHANGED <<pc, proven, routes, got>>
  <2>1. Used' \subseteq Used
    BY <1>1, <1>3, UsedShrinks
  <2>2. Shape'
    BY <1>1, <1>3 DEF IInv, Shape
  <2>3. HeldByCaller' /\ ProvenStays'
    BY <1>1, <1>3 DEF IInv, HeldByCaller, ProvenStays
  <2> QED
    BY <1>1, <1>3, <2>1, <2>2, <2>3, Keeps
<1>4. ASSUME NEW step \in {"failed", "relay", "closing"}, pc' = [pc EXCEPT ![c] = step],
             pc[c] \in {"wait", "relay"}, pc[c] = "relay" => step = "closing",
             UNCHANGED <<proven, got>>,
             DOMAIN routes' = Ids, \A j \in Ids : routes'[j] # NoRoute => routes[j] # NoRoute
      PROVE  IInv'
  <2>1. Used' \subseteq Used
    BY <1>1, <1>4, UsedShrinks
  <2>2. /\ step \notin Unsent /\ step \in Holding
        /\ proven[c] => step \in {"relay", "closing", "done"}
    BY <1>4 DEF Unsent, Holding, IInv, ProvenStays
  <2> QED
    BY <1>1, <1>4, <2>1, <2>2, KeepsMove
<1>5. CASE pc[c] = "wait" /\ m[1] = "ok" /\ Opened(c) /\ UNCHANGED <<proven, got>>
  <2>1. CASE UNCHANGED routes /\ \E step \in {"closing", "relay"} : pc' = [pc EXCEPT ![c] = step]
    BY <1>4, <1>5, <2>1 DEF IInv, Shape
  <2>2. CASE SendData(c, stream_id[c], "relay")
    <3>1. /\ DOMAIN routes' = Ids
          /\ \A j \in Ids : routes'[j] # NoRoute => routes[j] # NoRoute
          /\ \E to \in {"relay", "closing"} : pc' = [pc EXCEPT ![c] = to]
      BY <2>2, RouteStaysOrGoes
    <3> QED
      BY <1>4, <1>5, <3>1
  <2>3. \/ UNCHANGED routes /\ \E step \in {"closing", "relay"} : pc' = [pc EXCEPT ![c] = step]
        \/ SendData(c, stream_id[c], "relay")
    <3>1. CASE generations[c] = 0 \/ ~replayable(parked[c])
      <4>1. UNCHANGED routes /\ \E step \in {"closing"} \cup (IF generations[c] = 0 THEN {"relay"} ELSE {}) :
               Goto(c, step)
        BY <1>5, <3>1 DEF Opened
      <4> QED
        BY <4>1 DEF Goto
    <3>2. CASE ~(generations[c] = 0 \/ ~replayable(parked[c]))
      <4>1. \/ Goto(c, "relay") /\ UNCHANGED routes
            \/ SendData(c, stream_id[c], "relay")
        BY <1>5, <3>2 DEF Opened
      <4> QED
        BY <4>1 DEF Goto
    <3> QED
      BY <3>1, <3>2
  <2> QED
    BY <2>1, <2>2, <2>3
<1>6. CASE /\ UNCHANGED <<proven, routes, got>>
           /\ \/ pc[c] = "wait" /\ pc' = [pc EXCEPT ![c] = "failed"]
              \/ pc[c] = "relay" /\ pc' = [pc EXCEPT ![c] = "closing"]
  BY <1>4, <1>6 DEF IInv, Shape
<1> QED
  BY <1>2, <1>3, <1>5, <1>6 DEF Inbound, Goto

-----------------------------------------------------------------------------
LEMMA Initially == Init => IInv
<1> SUFFICES ASSUME Init PROVE IInv
  OBVIOUS
<1>1. Used = {}
  BY DEF Init, Used
<1>2. Shape
  BY DEF Init, Shape
<1>3. IdsAreOwned
  BY DEF Init, IdsAreOwned, Unsent
<1>4. OneKeyPerId
  BY <1>1 DEF OneKeyPerId
<1>5. ProvenStays
  BY DEF Init, ProvenStays
<1>6. HeldByCaller
  BY DEF Init, HeldByCaller, Ids
<1> QED
  BY <1>2, <1>3, <1>4, <1>5, <1>6 DEF IInv

LEMMA Inductive == IInv /\ [Next]_vars => IInv'
<1> SUFFICES ASSUME IInv, [Next]_vars PROVE IInv'
  OBVIOUS
<1>1. CASE UNCHANGED vars
  <2>1. Used' = Used
    BY <1>1 DEF vars, Used, KeyOf, server, history
  <2>2. Shape' /\ IdsAreOwned' /\ ProvenStays' /\ HeldByCaller'
    BY <1>1 DEF vars, dispatcher, proxy, history, IInv, Shape, IdsAreOwned, ProvenStays, HeldByCaller
  <2>3. OneKeyPerId'
    BY <1>1, <2>1 DEF vars, proxy, IInv, OneKeyPerId
  <2> QED
    BY <2>2, <2>3 DEF IInv
<1>2. ASSUME NEW w \in Workers, register(w) \/ unregister(w) PROVE IInv'
  BY <1>2, KeepsCarriers
<1>3. ASSUME NEW c \in Callers, Accept(c) \/ Caller(c) \/ Aborted(c) \/ CallerLeaves(c) PROVE IInv'
  BY <1>3, KeepsAccept, KeepsWaiting, KeepsOpenStart, KeepsOpenSend, KeepsEnding DEF Caller
<1>4. ASSUME NEW c \in Callers, NEW m \in down, Inbound(c, m) \/ Overflow(c, m) PROVE IInv'
  BY <1>4, KeepsInbound, KeepsOverflow
<1>5. ASSUME NEW c \in Callers, NEW chunk \in Chunks, CallerSpeaks(c, chunk) PROVE IInv'
  BY <1>5, KeepsSpeaks
<1>6. ASSUME NEW m \in up, RecvOpen(m) \/ RecvClose(m) PROVE IInv'
  BY <1>6, KeepsRecv
<1>7. ASSUME NEW k \in opening, InsertStream(k) PROVE IInv'
  BY <1>7, KeepsInsert
<1>8. ASSUME NEW k \in Keys, Connected(k) \/ TargetSpeaks(k) \/ Told(k) \/ TargetEnds(k)
                             \/ ConnectFails(k) \/ Expire(k)
      PROVE  IInv'
  BY <1>8, KeepsTask
<1>9. ASSUME NEW s \in Sessions, close_session(s) PROVE IInv'
  BY <1>9, KeepsCloseSession
<1> QED
  BY <1>1, <1>2, <1>3, <1>4, <1>5, <1>6, <1>7, <1>8, <1>9 DEF Next

LEMMA IInvHolds == Spec => []IInv
  BY Initially, Inductive, PTL DEF Spec

-----------------------------------------------------------------------------
\* The bytes a caller receives come from one connection to the target, however many
\* generations handle_client went through, how their frames were reordered and which
\* sessions came and went.
THEOREM SocksOneGeneration == Spec => []OneGeneration
<1>1. IInv => OneGeneration
  <2> SUFFICES ASSUME IInv, NEW c \in Callers PROVE Cardinality(got[c]) <= 1
    BY DEF OneGeneration
  <2>1. \A k, l \in got[c] : k = l
    BY UsedHas DEF IInv, OneKeyPerId, ProvenStays
  <2>2. CASE got[c] = {}
    BY <2>2, FS_EmptySet
  <2>3. ASSUME NEW k, got[c] = {k} PROVE Cardinality(got[c]) <= 1
    <3>1. Cardinality({k}) = 1
      BY FS_Singleton, Zenon
    <3> QED
      BY <2>3, <3>1
  <2> QED
    BY <2>1, <2>2, <2>3
<1> QED
  BY <1>1, IInvHolds, PTL

\* Once every caller's task has come to its end, by whatever path, the proxy has no
\* stream registered and the dispatcher no stream pinned.
THEOREM SocksNothingLeaks == Spec => []NothingLeaks
<1>1. IInv => NothingLeaks
  <2> SUFFICES ASSUME IInv, Done PROVE streams = {} /\ \A i \in Ids : routes[i] = NoRoute
    BY DEF NothingLeaks
  <2>1. \A i \in Ids : ~(i \in streams \/ routes[i] # NoRoute)
    BY DEF IInv, HeldByCaller, Holding, Done
  <2> QED
    BY <2>1 DEF IInv, Shape
<1> QED
  BY <1>1, IInvHolds, PTL
=============================================================================
