----------------------- MODULE ServerSessions_proofs ------------------------
(***************************************************************************)
(* Proofs about ServerSessions, for every set of devices, passwords, tasks *)
(* and requests and for any number of packets, losses and timeouts.        *)
(***************************************************************************)
EXTENDS ServerSessions, FiniteSetTheorems, TLAPS

-----------------------------------------------------------------------------
\* Sequences of messages

LEMMA AnySeq ==
  ASSUME NEW S, NEW q \in Seq(S)
  PROVE  IsSeq(q) /\ DOMAIN q = 1 .. Len(q) /\ Len(q) \in Nat
<1> DEFINE T == {q[i] : i \in DOMAIN q}
<1>1. Len(q) \in Nat /\ DOMAIN q = 1 .. Len(q) /\ q = [i \in 1 .. Len(q) |-> q[i]]
  OBVIOUS
<1>2. \A i \in 1 .. Len(q) : q[i] \in T
  BY <1>1
<1> HIDE DEF T
<1>3. q \in Seq(T)
  BY <1>1, <1>2
<1> QED
  BY <1>1, <1>3 DEF IsSeq, T

LEMMA Concatenated ==
  ASSUME NEW q, NEW x, IsSeq(q), IsSeq(x)
  PROVE  /\ IsSeq(q \o x) /\ Len(q) \in Nat /\ Len(x) \in Nat /\ Len(q \o x) = Len(q) + Len(x)
         /\ \A i \in DOMAIN q : i \in DOMAIN (q \o x) /\ (q \o x)[i] = q[i]
         /\ \A i \in DOMAIN (q \o x) : \/ i \in DOMAIN q /\ (q \o x)[i] = q[i]
                                       \/ \E j \in DOMAIN x : i = Len(q) + j /\ (q \o x)[i] = x[j]
<1> DEFINE S == {q[i] : i \in DOMAIN q} \cup {x[i] : i \in DOMAIN x}
           y == q \o x
<1>1. q \in Seq(S) /\ x \in Seq(S)
  BY DEF IsSeq
<1> HIDE DEF S
<1>2. /\ Len(q) \in Nat /\ Len(x) \in Nat /\ Len(y) = Len(q) + Len(x) /\ y \in Seq(S)
      /\ DOMAIN q = 1 .. Len(q) /\ DOMAIN x = 1 .. Len(x) /\ DOMAIN y = 1 .. Len(y)
      /\ \A i \in 1 .. Len(y) : y[i] = IF i <= Len(q) THEN q[i] ELSE x[i - Len(q)]
  BY <1>1
<1> HIDE DEF y
<1>3. IsSeq(y)
  BY <1>2, AnySeq
<1>4. \A i \in DOMAIN q : i \in DOMAIN y /\ y[i] = q[i]
  BY <1>2
<1>5. ASSUME NEW i \in DOMAIN y
      PROVE  (i \in DOMAIN q /\ y[i] = q[i]) \/ \E j \in DOMAIN x : i = Len(q) + j /\ y[i] = x[j]
  <2>1. CASE i <= Len(q)
    BY <1>2, <2>1
  <2>2. CASE ~(i <= Len(q))
    <3>1. i - Len(q) \in DOMAIN x /\ i = Len(q) + (i - Len(q)) /\ y[i] = x[i - Len(q)]
      BY <1>2, <2>2
    <3> QED
      BY <3>1
  <2> QED
    BY <2>1, <2>2
<1> QED
  BY <1>2, <1>3, <1>4, <1>5 DEF y

LEMMA Taken ==
  ASSUME NEW q, IsSeq(q), q # <<>>
  PROVE  /\ IsSeq(Tail(q)) /\ 1 \in DOMAIN q /\ Head(q) = q[1]
         /\ \A i \in DOMAIN Tail(q) : i \in Nat /\ i >= 1 /\ i + 1 \in DOMAIN q /\ Tail(q)[i] = q[i + 1]
         /\ \A i \in DOMAIN q : i \in Nat /\ i >= 1 /\ (i # 1 => i - 1 \in DOMAIN Tail(q) /\ Tail(q)[i - 1] = q[i])
<1> DEFINE S == {q[i] : i \in DOMAIN q}
           y == Tail(q)
<1>1. q \in Seq(S)
  BY DEF IsSeq
<1> HIDE DEF S
<1>2. /\ Len(q) \in Nat /\ Len(q) > 0 /\ Len(y) = Len(q) - 1 /\ y \in Seq(S) /\ Head(q) = q[1]
      /\ DOMAIN q = 1 .. Len(q) /\ DOMAIN y = 1 .. Len(y)
      /\ \A i \in 1 .. Len(y) : y[i] = q[i + 1]
  BY <1>1
<1> HIDE DEF y
<1>3. IsSeq(y)
  BY <1>2, AnySeq
<1>4. \A i \in DOMAIN y : i \in Nat /\ i >= 1 /\ i + 1 \in DOMAIN q /\ y[i] = q[i + 1]
  BY <1>2
<1>5. ASSUME NEW i \in DOMAIN q
      PROVE  i \in Nat /\ i >= 1 /\ (i # 1 => i - 1 \in DOMAIN y /\ y[i - 1] = q[i])
  <2>1. i \in Nat /\ i >= 1 /\ i <= Len(q)
    BY <1>2
  <2>2. i # 1 => i - 1 \in DOMAIN y /\ (i - 1) + 1 = i
    BY <1>2, <2>1
  <2> QED
    BY <1>2, <2>1, <2>2
<1> QED
  BY <1>2, <1>3, <1>4, <1>5 DEF y

LEMMA Sub ==
  ASSUME NEW q, IsSeq(q), NEW m \in Nat, NEW n \in Nat, m >= 1, n <= Len(q)
  PROVE  /\ IsSeq(SubSeq(q, m, n))
         /\ \A i \in DOMAIN SubSeq(q, m, n) : i \in Nat /\ i >= 1 /\ i + m - 1 \in DOMAIN q /\ i + m - 1 <= n
                                              /\ SubSeq(q, m, n)[i] = q[i + m - 1]
<1> DEFINE S == {q[i] : i \in DOMAIN q}
           y == SubSeq(q, m, n)
<1>1. q \in Seq(S)
  BY DEF IsSeq
<1> HIDE DEF S
<1>2. /\ Len(q) \in Nat /\ DOMAIN q = 1 .. Len(q) /\ \A i \in 1 .. Len(q) : q[i] \in S
  BY <1>1
<1>3. CASE m <= n
  <2>1. /\ Len(y) = n - m + 1 /\ DOMAIN y = 1 .. (n - m + 1) /\ y \in Seq(S)
        /\ \A i \in 1 .. (n - m + 1) : y[i] = q[i + m - 1]
    BY <1>1, <1>2, <1>3
  <2> HIDE DEF y
  <2>2. IsSeq(y)
    BY <2>1, AnySeq
  <2>3. ASSUME NEW i \in DOMAIN y
        PROVE  i \in Nat /\ i >= 1 /\ i + m - 1 \in DOMAIN q /\ i + m - 1 <= n /\ y[i] = q[i + m - 1]
    <3>1. i \in Nat /\ i >= 1 /\ i <= n - m + 1
      BY <1>3, <2>1
    <3>2. i + m - 1 \in 1 .. Len(q) /\ i + m - 1 <= n
      BY <1>2, <3>1
    <3> QED
      BY <1>2, <2>1, <3>1, <3>2
  <2> QED
    BY <2>2, <2>3 DEF y
<1>4. CASE ~(m <= n)
  <2>1. y = <<>>
    BY <1>1, <1>4
  <2>2. IsSeq(<<>>) /\ DOMAIN (<<>>) = {}
    BY DEF IsSeq
  <2> QED
    BY <2>1, <2>2
<1> QED
  BY <1>3, <1>4

LEMMA Singles ==
  ASSUME NEW a
  PROVE  /\ IsSeq(<<a>>) /\ \A j \in DOMAIN <<a>> : <<a>>[j] = a
         /\ IsSeq(<<>>) /\ DOMAIN (<<>>) = {}
<1>1. <<a>> \in Seq({a}) /\ <<>> \in Seq({a})
  OBVIOUS
<1>2. IsSeq(<<a>>) /\ IsSeq(<<>>)
  BY <1>1, AnySeq
<1> QED
  BY <1>2

LEMMA WithoutOne ==
  ASSUME NEW q, IsSeq(q), NEW i \in DOMAIN q
  PROVE  IsSeq(Without(q, i)) /\ \A j \in DOMAIN Without(q, i) : \E n \in DOMAIN q : Without(q, i)[j] = q[n]
<1> DEFINE a == SubSeq(q, 1, i - 1)
           b == SubSeq(q, i + 1, Len(q))
<1>1. Len(q) \in Nat /\ i \in Nat /\ i >= 1 /\ i <= Len(q)
  BY DEF IsSeq
<1>2. IsSeq(a) /\ \A j \in DOMAIN a : \E n \in DOMAIN q : a[j] = q[n]
  <2>1. i - 1 \in Nat /\ i - 1 <= Len(q)
    BY <1>1
  <2>2. /\ IsSeq(SubSeq(q, 1, i - 1))
        /\ \A j \in DOMAIN SubSeq(q, 1, i - 1) : j + 1 - 1 \in DOMAIN q /\ SubSeq(q, 1, i - 1)[j] = q[j + 1 - 1]
    BY <2>1, Sub
  <2> QED
    BY <2>2
<1>3. IsSeq(b) /\ \A j \in DOMAIN b : \E n \in DOMAIN q : b[j] = q[n]
  <2>1. i + 1 \in Nat /\ i + 1 >= 1
    BY <1>1
  <2>2. /\ IsSeq(SubSeq(q, i + 1, Len(q)))
        /\ \A j \in DOMAIN SubSeq(q, i + 1, Len(q)) :
             j + (i + 1) - 1 \in DOMAIN q /\ SubSeq(q, i + 1, Len(q))[j] = q[j + (i + 1) - 1]
    BY <1>1, <2>1, Sub
  <2> QED
    BY <2>2
<1>4. PICK u, v : u = a /\ v = b
  OBVIOUS
<1> HIDE DEF a, b
<1>5. /\ IsSeq(u \o v)
      /\ \A j \in DOMAIN (u \o v) : \/ j \in DOMAIN u /\ (u \o v)[j] = u[j]
                                    \/ \E n \in DOMAIN v : j = Len(u) + n /\ (u \o v)[j] = v[n]
  BY <1>2, <1>3, <1>4, Concatenated
<1>6. \A j \in DOMAIN (u \o v) : \E n \in DOMAIN q : (u \o v)[j] = q[n]
  BY <1>2, <1>3, <1>4, <1>5
<1> QED
  BY <1>4, <1>5, <1>6 DEF Without, a, b

LEMMA Pairs ==
  ASSUME NEW a, NEW b
  PROVE  IsSeq(<<a, b>>) /\ \A j \in DOMAIN <<a, b>> : <<a, b>>[j] = a \/ <<a, b>>[j] = b
<1>1. <<a, b>> \in Seq({a, b})
  OBVIOUS
<1>2. IsSeq(<<a, b>>)
  BY <1>1, AnySeq
<1> QED
  BY <1>2

\* The messages for a set of sessions.
LEMMA ClosedSeq ==
  ASSUME NEW R, IsFiniteSet(R), NEW es \in ForEach(R, SessionClosed)
  PROVE  IsSeq(es) /\ \A j \in DOMAIN es : es[j].ev = "closed"
<1>1. PICK q \in Sorted(R) : es = [i \in DOMAIN q |-> SessionClosed(q[i])]
  BY DEF ForEach
<1>2. Cardinality(R) \in Nat /\ q \in [1 .. Cardinality(R) -> R]
  BY FS_CardinalityType DEF Sorted
<1> DEFINE S == {SessionClosed(q[i]) : i \in DOMAIN q}
<1>3. es \in [1 .. Cardinality(R) -> S]
  BY <1>1, <1>2
<1> HIDE DEF S
<1>4. es \in Seq(S)
  BY <1>2, <1>3
<1>5. IsSeq(es)
  BY <1>4, AnySeq
<1> QED
  BY <1>1, <1>5 DEF SessionClosed

LEMMA DropsSeq ==
  ASSUME NEW R, IsFiniteSet(R), NEW es \in ForEach(R, DropSession)
  PROVE  IsSeq(es) /\ \A j \in DOMAIN es : es[j].cmd = "drop"
<1>1. PICK q \in Sorted(R) : es = [i \in DOMAIN q |-> DropSession(q[i])]
  BY DEF ForEach
<1>2. Cardinality(R) \in Nat /\ q \in [1 .. Cardinality(R) -> R]
  BY FS_CardinalityType DEF Sorted
<1> DEFINE S == {DropSession(q[i]) : i \in DOMAIN q}
<1>3. es \in [1 .. Cardinality(R) -> S]
  BY <1>1, <1>2
<1> HIDE DEF S
<1>4. es \in Seq(S)
  BY <1>2, <1>3
<1>5. IsSeq(es)
  BY <1>4, AnySeq
<1> QED
  BY <1>1, <1>5 DEF DropSession

\* What a full queue lets through.
LEMMA Emitted ==
  ASSUME NEW es, IsSeq(es), Emit(es)
  PROVE  \E x : /\ IsSeq(x) /\ events' = events \o x
                /\ \A j \in DOMAIN x : \E n \in DOMAIN es : x[j] = es[n]
<1>1. CASE events' = events \o es
  BY <1>1
<1>2. CASE \E i \in DOMAIN es : events' = events \o Without(es, i)
  <2>1. PICK i \in DOMAIN es : events' = events \o Without(es, i)
    BY <1>2
  <2>2. PICK x : x = Without(es, i)
    OBVIOUS
  <2>3. IsSeq(x) /\ \A j \in DOMAIN x : \E n \in DOMAIN es : x[j] = es[n]
    BY <2>2, WithoutOne
  <2> QED
    BY <2>1, <2>2, <2>3
<1> QED
  BY <1>1, <1>2 DEF Emit

LEMMA Commanded ==
  ASSUME NEW cs, IsSeq(cs), command(cs)
  PROVE  \E x : /\ IsSeq(x) /\ commands' = commands \o x
                /\ \A j \in DOMAIN x : \E n \in DOMAIN cs : x[j] = cs[n]
<1>1. CASE commands' = commands \o cs
  BY <1>1
<1>2. CASE \E i \in DOMAIN cs : commands' = commands \o Without(cs, i)
  <2>1. PICK i \in DOMAIN cs : commands' = commands \o Without(cs, i)
    BY <1>2
  <2>2. PICK x : x = Without(cs, i)
    OBVIOUS
  <2>3. IsSeq(x) /\ \A j \in DOMAIN x : \E n \in DOMAIN cs : x[j] = cs[n]
    BY <2>2, WithoutOne
  <2> QED
    BY <2>1, <2>2, <2>3
<1> QED
  BY <1>1, <1>2 DEF command

-----------------------------------------------------------------------------
\* What a session keeps

Grow ==
  /\ Sessions \subseteq Sessions'
  /\ \A s \in Sessions : /\ face'[s].pw = face[s].pw /\ face'[s].dev = face[s].dev
                         /\ face'[s].ep = face[s].ep
                         /\ face[s].worker # 0 => face'[s].worker # 0

LEMMA GrowSame == ASSUME face' = face PROVE Grow
BY DEF Grow, Sessions

LEMMA Stays ==
  ASSUME Grow
  PROVE  /\ \A c : CommandOK(c) => CommandOK(c)'
         /\ \A e : EventOK(e) => EventOK(e)'
         /\ \A s, r : Of(s, r) => Of(s, r)'
         /\ \A o : OutOK(o) => OutOK(o)'
<1>1. ASSUME NEW c, CommandOK(c) PROVE CommandOK(c)'
  BY <1>1 DEF Grow, CommandOK
<1>2. ASSUME NEW s, NEW r, Of(s, r) PROVE Of(s, r)'
  BY <1>2 DEF Grow, Of
<1>3. ASSUME NEW e, EventOK(e) PROVE EventOK(e)'
  BY <1>2, <1>3 DEF Grow, EventOK
<1>4. ASSUME NEW o, OutOK(o) PROVE OutOK(o)'
  <2>1. \A i \in 1 .. 3 : CommandOK(o[i])'
    BY <1>1, <1>4 DEF OutOK
  <2>2. o[3].s \in Sessions
    BY <1>4 DEF OutOK, CommandOK
  <2>3. face'[o[3].s].worker # 0
    BY <1>4, <2>2 DEF OutOK, Grow
  <2> QED
    BY <1>4, <2>1, <2>3 DEF OutOK
<1> QED
  BY <1>1, <1>2, <1>3, <1>4

LEMMA QueueGrows ==
  ASSUME QueueOK, Grow, NEW x, IsSeq(x), commands' = commands \o x, \A j \in DOMAIN x : CommandOK(x[j])'
  PROVE  /\ QueueOK'
         /\ \A i \in DOMAIN commands : i \in DOMAIN commands' /\ commands'[i] = commands[i]
<1>1. PICK q : q = commands /\ IsSeq(q)
  BY DEF QueueOK
<1>2. /\ IsSeq(q \o x)
      /\ \A i \in DOMAIN q : i \in DOMAIN (q \o x) /\ (q \o x)[i] = q[i]
      /\ \A i \in DOMAIN (q \o x) : \/ i \in DOMAIN q /\ (q \o x)[i] = q[i]
                                    \/ \E j \in DOMAIN x : i = Len(q) + j /\ (q \o x)[i] = x[j]
  BY <1>1, Concatenated
<1>3. \A i \in DOMAIN q : CommandOK(q[i])'
  BY <1>1, Stays DEF QueueOK
<1>4. PICK y : y = q \o x
  OBVIOUS
<1>5. commands' = y
  BY <1>1, <1>4
<1>6. \A i \in DOMAIN y : CommandOK(y[i])'
  BY <1>2, <1>3, <1>4
<1>7. IsSeq(y) /\ \A i \in DOMAIN q : i \in DOMAIN y /\ y[i] = q[i]
  BY <1>2, <1>4
<1>8. QueueOK'
  BY <1>5, <1>6, <1>7 DEF QueueOK
<1> QED
  BY <1>1, <1>5, <1>7, <1>8

LEMMA QueueTaken ==
  ASSUME QueueOK, Grow, commands # <<>>, commands' = Tail(commands)
  PROVE  /\ QueueOK' /\ 1 \in DOMAIN commands /\ Head(commands) = commands[1] /\ CommandOK(Head(commands))
         /\ \A i \in DOMAIN commands' : i \in Nat /\ i >= 1 /\ i + 1 \in DOMAIN commands /\ commands'[i] = commands[i + 1]
         /\ \A i \in DOMAIN commands : i \in Nat /\ i >= 1 /\ (i # 1 => i - 1 \in DOMAIN commands' /\ commands'[i - 1] = commands[i])
<1>1. PICK q, y : q = commands /\ y = Tail(commands)
  OBVIOUS
<1>2. /\ IsSeq(y) /\ 1 \in DOMAIN q /\ Head(q) = q[1]
      /\ \A i \in DOMAIN y : i \in Nat /\ i >= 1 /\ i + 1 \in DOMAIN q /\ y[i] = q[i + 1]
      /\ \A i \in DOMAIN q : i \in Nat /\ i >= 1 /\ (i # 1 => i - 1 \in DOMAIN y /\ y[i - 1] = q[i])
  BY <1>1, Taken DEF QueueOK
<1>3. \A i \in DOMAIN q : CommandOK(q[i]) /\ CommandOK(q[i])'
  BY <1>1, Stays DEF QueueOK
<1>4. \A i \in DOMAIN y : CommandOK(y[i])'
  BY <1>2, <1>3
<1>5. commands' = y
  BY <1>1
<1>6. QueueOK'
  BY <1>2, <1>4, <1>5 DEF QueueOK
<1> QED
  BY <1>1, <1>2, <1>3, <1>5, <1>6

LEMMA QueueSame ==
  ASSUME QueueOK, Grow, commands' = commands
  PROVE  QueueOK'
BY Stays DEF QueueOK

LEMMA MailGrows ==
  ASSUME MailOK, Grow, NEW x, IsSeq(x), events' = events \o x, \A j \in DOMAIN x : EventOK(x[j])'
  PROVE  MailOK'
<1>1. PICK q : q = events
  OBVIOUS
<1>2. /\ IsSeq(q \o x)
      /\ \A i \in DOMAIN (q \o x) : \/ i \in DOMAIN q /\ (q \o x)[i] = q[i]
                                    \/ \E j \in DOMAIN x : i = Len(q) + j /\ (q \o x)[i] = x[j]
  BY <1>1, Concatenated DEF MailOK
<1>3. \A i \in DOMAIN q : EventOK(q[i])'
  BY <1>1, Stays DEF MailOK
<1>4. PICK y : y = q \o x
  OBVIOUS
<1>5. events' = y
  BY <1>1, <1>4
<1>6. \A i \in DOMAIN y : EventOK(y[i])'
  BY <1>2, <1>3, <1>4
<1>7. IsSeq(y)
  BY <1>2, <1>4
<1> QED
  BY <1>5, <1>6, <1>7 DEF MailOK

LEMMA MailTaken ==
  ASSUME MailOK, Grow, events # <<>>, events' = Tail(events)
  PROVE  MailOK' /\ EventOK(Head(events))
<1>1. PICK q, y : q = events /\ y = Tail(events)
  OBVIOUS
<1>2. /\ IsSeq(y) /\ 1 \in DOMAIN q /\ Head(q) = q[1]
      /\ \A i \in DOMAIN y : i + 1 \in DOMAIN q /\ y[i] = q[i + 1]
  BY <1>1, Taken DEF MailOK
<1>3. \A i \in DOMAIN q : EventOK(q[i]) /\ EventOK(q[i])'
  BY <1>1, Stays DEF MailOK
<1>4. \A i \in DOMAIN y : EventOK(y[i])'
  BY <1>2, <1>3
<1>5. events' = y
  BY <1>1
<1>6. MailOK'
  BY <1>2, <1>4, <1>5 DEF MailOK
<1> QED
  BY <1>1, <1>2, <1>3, <1>6

LEMMA MailSame ==
  ASSUME MailOK, Grow, events' = events
  PROVE  MailOK'
BY Stays DEF MailOK

-----------------------------------------------------------------------------
\* Sessions and routes

\* What remove_slot_with_reason leaves of the routes.
LEMMA RoutesLeft ==
  ASSUME FaceOK, HotOK, RoutesOK, NEW R
  PROVE  /\ RoutesWithout(R) \in [Devices -> SUBSET Endpoint]
         /\ \A d \in Devices : \A e \in RoutesWithout(R)[d] :
              /\ e.reg # 0 /\ e.s \in DOMAIN hot \ R /\ hot[e.s].dev = d /\ hot[e.s].reg = e.reg
              /\ \A f \in RoutesWithout(R)[d] : f.worker = e.worker => f = e
<1> DEFINE regs == {hot[s].reg : s \in R}
           Of1(f) == IF f.reg \in regs THEN Fallback(R, f) ELSE {f}
           N == RoutesWithout(R)
<1>1. N = [d \in Devices |-> UNION {Of1(f) : f \in routes[d]}]
  BY DEF RoutesWithout
<1> HIDE DEF N
<1>2. ASSUME NEW d \in Devices, NEW f \in routes[d], NEW e \in Of1(f)
      PROVE  /\ e \in Endpoint /\ e.reg # 0 /\ e.s \in DOMAIN hot \ R
             /\ hot[e.s].dev = d /\ hot[e.s].reg = e.reg /\ e.worker = f.worker
  <2>1. /\ f \in Endpoint /\ f.s \in DOMAIN hot /\ hot[f.s].dev = d /\ hot[f.s].reg = f.reg /\ f.reg # 0
    BY DEF RoutesOK, RoutesAreLive
  <2>2. CASE f.reg \in regs
    <3> DEFINE C == {c \in DOMAIN hot \ R : /\ hot[c].reg # 0 /\ hot[c].dev = hot[f.s].dev
                                            /\ hot[c].ep = hot[f.s].ep
                                            /\ face[c].worker = face[f.s].worker}
    <3>1. PICK m \in C : e = [s |-> m, reg |-> hot[m].reg, worker |-> f.worker]
      BY <2>2 DEF Fallback
    <3>2. m \in DOMAIN hot \ R /\ hot[m].reg # 0 /\ hot[m].dev = hot[f.s].dev
      BY <3>1
    <3>3. m \in Nat /\ hot[m].reg \in Nat
      BY <3>2, FS_CardinalityType DEF HotOK, FaceOK, Hot
    <3> HIDE DEF C
    <3> QED
      BY <2>1, <3>1, <3>2, <3>3 DEF Endpoint
  <2>3. CASE f.reg \notin regs
    <3>1. e = f /\ f.s \notin R
      BY <2>1, <2>3
    <3> QED
      BY <2>1, <3>1
  <2> QED
    BY <2>2, <2>3
<1>3. ASSUME NEW f, NEW e \in Of1(f), NEW g \in Of1(f)
      PROVE  e = g
  <2>1. CASE f.reg \in regs
    <3> DEFINE C == {c \in DOMAIN hot \ R : /\ hot[c].reg # 0 /\ hot[c].dev = hot[f.s].dev
                                            /\ hot[c].ep = hot[f.s].ep
                                            /\ face[c].worker = face[f.s].worker}
    <3>1. PICK m \in C : e = [s |-> m, reg |-> hot[m].reg, worker |-> f.worker] /\ \A c \in C : c <= m
      BY <2>1 DEF Fallback
    <3>2. PICK n \in C : g = [s |-> n, reg |-> hot[n].reg, worker |-> f.worker] /\ \A c \in C : c <= n
      BY <2>1 DEF Fallback
    <3>3. m \in Nat /\ n \in Nat
      BY <3>1, <3>2, FS_CardinalityType DEF HotOK, FaceOK
    <3>4. m <= n /\ n <= m
      BY <3>1, <3>2
    <3>5. m = n
      BY <3>3, <3>4
    <3> QED
      BY <3>1, <3>2, <3>5
  <2>2. CASE f.reg \notin regs
    BY <2>2
  <2> QED
    BY <2>1, <2>2
<1> HIDE DEF Of1
<1>4. ASSUME NEW d \in Devices, NEW e \in N[d]
      PROVE  \E f \in routes[d] : e \in Of1(f)
  BY <1>1
<1>5. N \in [Devices -> SUBSET Endpoint]
  <2>1. \A d \in Devices : N[d] \subseteq Endpoint
    BY <1>2, <1>4
  <2> QED
    BY <1>1, <2>1
<1>6. ASSUME NEW d \in Devices, NEW e \in N[d], NEW g \in N[d], g.worker = e.worker
      PROVE  g = e
  <2>1. PICK f \in routes[d] : e \in Of1(f)
    BY <1>4
  <2>2. PICK h \in routes[d] : g \in Of1(h)
    BY <1>4
  <2>3. h.worker = f.worker
    BY <1>2, <1>6, <2>1, <2>2
  <2>4. h = f
    BY <2>3 DEF RoutesOK, RoutesAreLive
  <2> QED
    BY <1>3, <2>1, <2>2, <2>4
<1>7. \A d \in Devices : \A e \in N[d] :
        e.reg # 0 /\ e.s \in DOMAIN hot \ R /\ hot[e.s].dev = d /\ hot[e.s].reg = e.reg
  BY <1>2, <1>4
<1> QED
  BY <1>5, <1>6, <1>7 DEF N

\* The sessions there are keep what they were made with, and stay admitted or not.
Steady ==
  /\ Grow
  /\ \A s \in Sessions : face'[s].worker = face[s].worker
  /\ \A s \in DOMAIN hot' : s \in DOMAIN hot \/ face'[s].worker = 0

\* The sessions of R are removed.
LEMMA FaceLeft ==
  ASSUME FaceOK, NEW R
  PROVE  /\ DOMAIN FaceWithout(R) = Sessions /\ FaceWithout(R) \in [Sessions -> Face]
         /\ \A s \in Sessions : /\ FaceWithout(R)[s].pw = face[s].pw /\ FaceWithout(R)[s].dev = face[s].dev
                                /\ FaceWithout(R)[s].ep = face[s].ep /\ FaceWithout(R)[s].worker = face[s].worker
<1>1. ASSUME NEW f \in Face, NEW b \in BOOLEAN
      PROVE  LET g == [f EXCEPT !.has = @ /\ b] IN
             g \in Face /\ g.pw = f.pw /\ g.dev = f.dev /\ g.ep = f.ep /\ g.worker = f.worker
  BY DEF Face
<1>2. \A s \in Sessions : face[s] \in Face /\ (s \notin R) \in BOOLEAN
  BY DEF FaceOK
<1> QED
  BY <1>1, <1>2 DEF FaceWithout

LEMMA HotLeft ==
  ASSUME FaceOK, HotOK, RoutesOK, NEW R,
         hot' = [s \in DOMAIN hot \ R |-> hot[s]], routes' = RoutesWithout(R), face' = FaceWithout(R)
  PROVE  FaceOK' /\ HotOK' /\ RoutesOK' /\ Steady
<1>1. /\ DOMAIN face' = Sessions /\ face' \in [Sessions -> Face]
      /\ \A s \in Sessions : /\ face'[s].pw = face[s].pw /\ face'[s].dev = face[s].dev
                             /\ face'[s].ep = face[s].ep /\ face'[s].worker = face[s].worker
  BY FaceLeft
<1>2. Sessions' = Sessions
  BY <1>1 DEF Sessions
<1>3. FaceOK'
  BY <1>1, <1>2 DEF FaceOK
<1>4. /\ DOMAIN hot' = DOMAIN hot \ R /\ \A s \in DOMAIN hot' : hot'[s] = hot[s]
      /\ hot' \in [DOMAIN hot' -> Hot]
  BY DEF HotOK
<1>5. HotOK'
  BY <1>1, <1>2, <1>4 DEF HotOK, SessionOK
<1>6. RoutesOK'
  BY <1>4, RoutesLeft DEF RoutesOK, RoutesAreLive
<1>7. Grow
  BY <1>1, <1>2 DEF Grow
<1>8. Steady
  BY <1>1, <1>4, <1>7 DEF Steady
<1> QED
  BY <1>3, <1>5, <1>6, <1>8

LEMMA ClosedMail ==
  ASSUME MailOK, Grow, NEW R, IsFiniteSet(R), \E closed \in ForEach(R, SessionClosed) : Emit(closed)
  PROVE  MailOK'
<1>1. PICK closed \in ForEach(R, SessionClosed) : Emit(closed)
  OBVIOUS
<1>2. IsSeq(closed) /\ \A j \in DOMAIN closed : closed[j].ev = "closed"
  BY ClosedSeq
<1>3. PICK x : /\ IsSeq(x) /\ events' = events \o x
               /\ \A j \in DOMAIN x : \E n \in DOMAIN closed : x[j] = closed[n]
  BY <1>1, <1>2, Emitted, ZenonT(60)
<1>4. \A j \in DOMAIN x : EventOK(x[j])'
  BY <1>2, <1>3 DEF EventOK
<1> QED
  BY <1>3, <1>4, MailGrows

LEMMA SlotsRemoved ==
  ASSUME FaceOK, HotOK, RoutesOK, MailOK, NEW R, R \subseteq DOMAIN hot, remove_slots(R)
  PROVE  /\ FaceOK' /\ HotOK' /\ RoutesOK' /\ MailOK' /\ Steady
         /\ DOMAIN hot' = DOMAIN hot \ R /\ \A s \in DOMAIN hot' : hot'[s] = hot[s]
<1>1. FaceOK' /\ HotOK' /\ RoutesOK' /\ Steady
  BY HotLeft DEF remove_slots
<1>2. IsFiniteSet(R)
  BY FS_Subset DEF HotOK, FaceOK
<1>3. MailOK'
  BY <1>1, <1>2, ClosedMail DEF Steady, remove_slots
<1>4. DOMAIN hot' = DOMAIN hot \ R /\ \A s \in DOMAIN hot' : hot'[s] = hot[s]
  BY DEF remove_slots
<1> QED
  BY <1>1, <1>3, <1>4

LEMMA RegistrySame ==
  ASSUME FaceOK, HotOK, RoutesOK, hot' = hot, routes' = routes, face' = face
  PROVE  FaceOK' /\ HotOK' /\ RoutesOK' /\ Steady
<1>1. Sessions' = Sessions
  BY DEF Sessions
<1>2. FaceOK' /\ HotOK' /\ RoutesOK'
  BY <1>1 DEF FaceOK, HotOK, SessionOK, RoutesOK, RoutesAreLive
<1> QED
  BY <1>2, <1>1, GrowSame DEF Steady, HotOK

\* A session is made, in place of the ones of R.
LEMMA SessionMade ==
  ASSUME FaceOK, HotOK, RoutesOK, MailOK, NEW R, R \subseteq DOMAIN hot, NEW r \in Requests,
         create_legacy_session(r, R)
  PROVE  /\ FaceOK' /\ HotOK' /\ RoutesOK' /\ MailOK' /\ Steady
         /\ \A s \in DOMAIN hot' : s \in DOMAIN hot => hot'[s] = hot[s]
<1> DEFINE n == Cardinality(Sessions)
           nf == [pw |-> r.pw, dev |-> r.dev, ep |-> r.ep, worker |-> 0, has |-> FALSE]
           nh == [peer |-> r.peer, pw |-> r.pw, dev |-> r.dev, ep |-> r.ep, reg |-> 0, pend |-> FALSE]
           hr == [x \in DOMAIN hot \ R |-> hot[x]]
           fr == FaceWithout(R)
<1>1. n \in Nat /\ Sessions = 1 .. n /\ n + 1 \notin Sessions /\ DOMAIN hot \subseteq Sessions
  BY FS_CardinalityType DEF FaceOK, HotOK
<1>2. nf \in Face /\ nh \in Hot
  BY RequestsAssumption DEF Face, Hot, Epoch, Peers, Requests
<1>3. /\ DOMAIN fr = Sessions /\ fr \in [Sessions -> Face]
      /\ \A s \in Sessions : /\ fr[s].pw = face[s].pw /\ fr[s].dev = face[s].dev
                             /\ fr[s].ep = face[s].ep /\ fr[s].worker = face[s].worker
  BY FaceLeft
<1>4. hot' = With(hr, n + 1, nh) /\ face' = With(fr, n + 1, nf) /\ routes' = RoutesWithout(R)
  BY DEF create_legacy_session
<1>5. PICK m, f, g, y, z : m = n + 1 /\ f = fr /\ g = nf /\ y = nh /\ z = hr
  OBVIOUS
<1> HIDE DEF n, nf, nh, hr, fr
<1>7. /\ DOMAIN face' = Sessions \cup {m} /\ face' = [x \in Sessions \cup {m} |-> face'[x]]
      /\ face'[m] = g /\ \A s \in Sessions : face'[s] = f[s]
  <2>1. face' = With(f, m, g)
    BY <1>4, <1>5
  <2>2. DOMAIN f = Sessions
    BY <1>3, <1>5
  <2>3. PICK G : G = With(f, m, g)
    OBVIOUS
  <2>4. /\ DOMAIN G = DOMAIN f \cup {m} /\ G = [x \in DOMAIN f \cup {m} |-> G[x]]
        /\ G[m] = g /\ \A x \in DOMAIN f : x # m => G[x] = f[x]
    BY <2>3 DEF With
  <2> QED
    <3>1. face' = G /\ m \notin Sessions
      BY <1>1, <1>5, <2>1, <2>3
    <3>2. G = [x \in Sessions \cup {m} |-> G[x]]
      BY <2>2, <2>4
    <3>3. \A s \in Sessions : s # m
      BY <3>1
    <3> QED
      BY <2>2, <2>4, <3>1, <3>2, <3>3
<1>8. /\ DOMAIN hot' = (DOMAIN hot \ R) \cup {m} /\ hot' = [x \in (DOMAIN hot \ R) \cup {m} |-> hot'[x]]
      /\ hot'[m] = y /\ \A s \in DOMAIN hot \ R : hot'[s] = hot[s]
  <2>1. hot' = With(z, m, y)
    BY <1>4, <1>5
  <2>2. DOMAIN z = DOMAIN hot \ R /\ \A s \in DOMAIN z : z[s] = hot[s]
    BY <1>5 DEF hr
  <2>3. PICK G : G = With(z, m, y)
    OBVIOUS
  <2>4. /\ DOMAIN G = DOMAIN z \cup {m} /\ G = [x \in DOMAIN z \cup {m} |-> G[x]]
        /\ G[m] = y /\ \A x \in DOMAIN z : x # m => G[x] = z[x]
    BY <2>3 DEF With
  <2> QED
    <3>1. hot' = G /\ m \notin DOMAIN hot
      BY <1>1, <1>5, <2>1, <2>3
    <3>2. G = [x \in (DOMAIN hot \ R) \cup {m} |-> G[x]]
      BY <2>2, <2>4
    <3>3. \A s \in DOMAIN hot : s # m
      BY <3>1
    <3> QED
      BY <2>2, <2>4, <3>1, <3>2, <3>3
<1>9. FaceOK'
  <2>1. Sessions' = Sessions \cup {m}
    BY <1>7 DEF Sessions
  <2>2. IsFiniteSet(Sessions) /\ m \notin Sessions
    BY <1>1, <1>5 DEF FaceOK
  <2>3. IsFiniteSet(Sessions \cup {m}) /\ Cardinality(Sessions \cup {m}) = n + 1
    BY <2>2, FS_AddElement DEF n
  <2>4. Sessions \cup {m} = 1 .. (n + 1)
    BY <1>1, <1>5
  <2>5. face' \in [Sessions \cup {m} -> Face]
    BY <1>2, <1>3, <1>5, <1>7
  <2> QED
    BY <2>1, <2>3, <2>4, <2>5 DEF FaceOK
<1>a. HotOK'
  <2>1. Sessions' = Sessions \cup {m}
    BY <1>7 DEF Sessions
  <2>2. hot' \in [DOMAIN hot' -> Hot]
    BY <1>2, <1>5, <1>8 DEF HotOK
  <2>3. ASSUME NEW s \in DOMAIN hot' PROVE SessionOK(s)'
    <3>1. CASE s = m
      BY <1>5, <1>7, <1>8, <3>1 DEF SessionOK, nf, nh
    <3>2. CASE s # m
      <4>1. s \in DOMAIN hot /\ hot'[s] = hot[s] /\ s \in Sessions /\ face'[s] = f[s] /\ SessionOK(s)
        BY <1>1, <1>7, <1>8, <3>2 DEF HotOK
      <4> QED
        BY <1>3, <1>5, <4>1 DEF SessionOK
    <3> QED
      BY <3>1, <3>2
  <2> QED
    BY <1>1, <1>8, <2>1, <2>2, <2>3 DEF HotOK
<1>b. RoutesOK'
  <2>1. PICK N : N = RoutesWithout(R)
    OBVIOUS
  <2>2. routes' = N
    BY <1>4, <2>1
  <2>3. /\ N \in [Devices -> SUBSET Endpoint]
        /\ \A d \in Devices : \A e \in N[d] :
              /\ e.reg # 0 /\ e.s \in DOMAIN hot \ R /\ hot[e.s].dev = d /\ hot[e.s].reg = e.reg
              /\ \A h \in N[d] : h.worker = e.worker => h = e
    BY <2>1, RoutesLeft
  <2>4. \A d \in Devices : \A e \in N[d] :
          /\ e.reg # 0 /\ e.s \in DOMAIN hot' /\ hot'[e.s].dev = d /\ hot'[e.s].reg = e.reg
    BY <1>8, <2>3
  <2> QED
    BY <2>2, <2>3, <2>4 DEF RoutesOK, RoutesAreLive
<1>c. Grow
  BY <1>3, <1>5, <1>7 DEF Grow, Sessions
<1>d. Steady
  BY <1>1, <1>3, <1>5, <1>7, <1>8, <1>c DEF Steady, nf
<1>e. MailOK'
  <2> DEFINE e1 == [ev |-> "created", s |-> m]
             e2 == [ev |-> "getconf", s |-> m, r |-> r]
  <2>1. PICK closed \in ForEach(R, SessionClosed) : Emit(closed \o <<e1, e2>>)
    BY <1>5 DEF create_legacy_session, n
  <2>2. PICK w : w = <<e1, e2>>
    OBVIOUS
  <2>3. IsFiniteSet(R)
    BY FS_Subset DEF HotOK, FaceOK
  <2>4. IsSeq(closed) /\ \A j \in DOMAIN closed : closed[j].ev = "closed"
    BY <2>3, ClosedSeq
  <2>5. IsSeq(w) /\ \A j \in DOMAIN w : w[j] = e1 \/ w[j] = e2
    BY <2>2, Pairs
  <2>6. PICK es : es = closed \o w
    OBVIOUS
  <2>7. /\ IsSeq(es)
        /\ \A i \in DOMAIN es : \/ i \in DOMAIN closed /\ es[i] = closed[i]
                                \/ \E j \in DOMAIN w : es[i] = w[j]
    BY <2>4, <2>5, <2>6, Concatenated
  <2>8. Emit(es)
    BY <2>1, <2>2, <2>6
  <2>9. PICK x : /\ IsSeq(x) /\ events' = events \o x
                 /\ \A j \in DOMAIN x : \E i \in DOMAIN es : x[j] = es[i]
    BY <2>7, <2>8, Emitted
  <2>a. Of(m, r)'
    <3>1. m \in DOMAIN face' /\ face'[m] = g
      BY <1>7
    <3>2. g.pw = r.pw /\ g.dev = r.dev /\ g.ep = r.ep
      BY <1>5 DEF nf
    <3> QED
      BY <3>1, <3>2 DEF Of, Sessions
  <2>b. EventOK(e1)' /\ EventOK(e2)'
    BY <2>a DEF EventOK
  <2>c. \A i \in DOMAIN closed : EventOK(closed[i])'
    BY <2>4 DEF EventOK
  <2>d. \A i \in DOMAIN es : EventOK(es[i])'
    <3> HIDE DEF e1, e2
    <3> QED
      BY <2>5, <2>7, <2>b, <2>c
  <2>e. \A j \in DOMAIN x : EventOK(x[j])'
    BY <2>9, <2>d
  <2> QED
    BY <2>9, <2>e, <1>c, MailGrows
<1> QED
  BY <1>1, <1>5, <1>8, <1>9, <1>a, <1>b, <1>d, <1>e

\* One session is marked or admitted.
LEMMA FaceChanged ==
  ASSUME FaceOK, HotOK, RoutesOK, hot' = hot, routes' = routes,
         NEW s \in Sessions, NEW g \in Face, face' = [face EXCEPT ![s] = g],
         g.pw = face[s].pw, g.dev = face[s].dev, g.ep = face[s].ep, face[s].worker # 0 => g.worker # 0
  PROVE  /\ FaceOK' /\ HotOK' /\ RoutesOK' /\ Grow
         /\ face'[s] = g /\ \A u \in Sessions : u # s => face'[u] = face[u]
<1>1. DOMAIN face' = Sessions /\ face'[s] = g /\ \A u \in Sessions : u # s => face'[u] = face[u]
  BY DEF Sessions
<1>2. Sessions' = Sessions
  BY <1>1 DEF Sessions
<1>3. face' \in [Sessions -> Face]
  BY <1>1 DEF FaceOK
<1>4. FaceOK'
  BY <1>2, <1>3 DEF FaceOK
<1>5. Grow
  BY <1>1, <1>2 DEF Grow
<1>6. HotOK'
  <2>1. ASSUME NEW u \in DOMAIN hot PROVE SessionOK(u)'
    <3>1. SessionOK(u) /\ u \in Sessions
      BY DEF HotOK
    <3> QED
      BY <1>1, <3>1 DEF SessionOK
  <2> QED
    BY <1>2, <2>1 DEF HotOK
<1>7. RoutesOK'
  BY DEF RoutesOK, RoutesAreLive
<1> QED
  BY <1>1, <1>4, <1>5, <1>6, <1>7

LEMMA FaceMarked ==
  ASSUME FaceOK, HotOK, RoutesOK, hot' = hot, routes' = routes,
         NEW s \in Sessions, face' = [face EXCEPT ![s].has = TRUE]
  PROVE  FaceOK' /\ HotOK' /\ RoutesOK' /\ Steady
<1>1. PICK f \in Face : f = face[s]
  BY DEF FaceOK
<1>2. PICK g : g = [f EXCEPT !.has = TRUE]
  OBVIOUS
<1>3. g \in Face /\ g.pw = face[s].pw /\ g.dev = face[s].dev /\ g.ep = face[s].ep /\ g.worker = face[s].worker
  BY <1>1, <1>2 DEF Face
<1>4. face' = [face EXCEPT ![s] = g]
  BY <1>1, <1>2
<1>5. /\ FaceOK' /\ HotOK' /\ RoutesOK' /\ Grow
      /\ face'[s] = g /\ \A u \in Sessions : u # s => face'[u] = face[u]
  <2>1. face[s].worker # 0 => g.worker # 0
    BY <1>3
  <2> QED
    BY <1>3, <1>4, <2>1, FaceChanged, Zenon
<1>6. Steady
  BY <1>1, <1>3, <1>5 DEF Steady, HotOK
<1> QED
  BY <1>5, <1>6

LEMMA FaceAdmitted ==
  ASSUME FaceOK, HotOK, RoutesOK, hot' = hot, routes' = routes, NEW s, NEW r, Of(s, r),
         face' = [face EXCEPT ![s].dev = r.dev, ![s].ep = r.ep, ![s].worker = r.worker]
  PROVE  /\ FaceOK' /\ HotOK' /\ RoutesOK' /\ Grow /\ face'[s].worker = r.worker
         /\ \A u \in Sessions : u # s => face'[u].worker = face[u].worker
<1>0. s \in Sessions /\ r \in Requests /\ r.pw = face[s].pw /\ r.dev = face[s].dev /\ r.ep = face[s].ep
  BY DEF Of
<1>1. PICK f \in Face : f = face[s]
  BY <1>0 DEF FaceOK
<1>2. PICK g : g = [f EXCEPT !.dev = r.dev, !.ep = r.ep, !.worker = r.worker]
  OBVIOUS
<1>3. g \in Face /\ g.pw = f.pw /\ g.dev = f.dev /\ g.ep = f.ep /\ g.worker = r.worker /\ g.worker # 0
  BY <1>0, <1>1, <1>2, RequestsAssumption DEF Face
<1>4. face' = [face EXCEPT ![s] = g]
  <2>1. /\ DOMAIN face' = Sessions /\ face'[s] = g /\ \A u \in Sessions : u # s => face'[u] = face[u]
        /\ face' = [u \in Sessions |-> face'[u]]
    BY <1>0, <1>1, <1>2 DEF Sessions
  <2> QED
    BY <1>0, <2>1 DEF Sessions
<1>5. /\ FaceOK' /\ HotOK' /\ RoutesOK' /\ Grow
      /\ face'[s] = g /\ \A u \in Sessions : u # s => face'[u] = face[u]
  BY <1>0, <1>1, <1>3, <1>4, FaceChanged
<1> QED
  BY <1>3, <1>5

\* Only pend changes: a packet has come before the tunnel is there.
LEMMA HotPending ==
  ASSUME FaceOK, HotOK, RoutesOK, routes' = routes, face' = face,
         NEW s \in DOMAIN hot, hot' = [hot EXCEPT ![s].pend = TRUE]
  PROVE  /\ FaceOK' /\ HotOK' /\ RoutesOK' /\ Steady
         /\ DOMAIN hot' = DOMAIN hot /\ \A u \in DOMAIN hot : hot'[u].pw = hot[u].pw
<1>1. PICK h \in Hot : h = hot[s]
  BY DEF HotOK
<1>2. PICK g : g = [h EXCEPT !.pend = TRUE]
  OBVIOUS
<1>3. /\ g \in Hot /\ g.pw = h.pw /\ g.dev = h.dev /\ g.ep = h.ep /\ g.reg = h.reg
  BY <1>2 DEF Hot
<1>4. DOMAIN hot' = DOMAIN hot /\ hot'[s] = g /\ \A u \in DOMAIN hot : u # s => hot'[u] = hot[u]
  BY <1>1, <1>2
<1>5. hot' \in [DOMAIN hot' -> Hot]
  BY <1>3, <1>4 DEF HotOK
<1>6. \A u \in DOMAIN hot : /\ hot'[u].pw = hot[u].pw /\ hot'[u].dev = hot[u].dev
                            /\ hot'[u].ep = hot[u].ep /\ hot'[u].reg = hot[u].reg
  BY <1>1, <1>3, <1>4
<1>7. Sessions' = Sessions
  BY DEF Sessions
<1>8. FaceOK'
  BY <1>7 DEF FaceOK
<1>9. HotOK'
  BY <1>4, <1>5, <1>6, <1>7 DEF HotOK, SessionOK
<1>a. RoutesOK'
  BY <1>4, <1>6 DEF RoutesOK, RoutesAreLive
<1>b. Steady
  BY <1>4, GrowSame DEF Steady
<1> QED
  BY <1>4, <1>6, <1>8, <1>9, <1>a, <1>b

\* UpdateEpoch says again what the session was made with.
LEMMA HotUpdated ==
  ASSUME FaceOK, HotOK, update_epoch, CommandOK(Head(commands))
  PROVE  hot' = hot /\ face' = face
<1> DEFINE c == Head(commands)
<1>1. c.s \in Sessions /\ c.dev = face[c.s].dev /\ c.ep = face[c.s].ep
  BY DEF CommandOK, update_epoch, Took
<1>2. CASE c.s \notin DOMAIN hot
  BY <1>2 DEF update_epoch
<1>3. CASE c.s \in DOMAIN hot
  <2>1. PICK s, d, e : s = c.s /\ d = c.dev /\ e = c.ep
    OBVIOUS
  <2>2. PICK f, h : f = face[s] /\ h = hot[s]
    OBVIOUS
  <2>3. f \in Face /\ h \in Hot /\ d = f.dev /\ e = f.ep /\ d = h.dev /\ e = h.ep
    BY <1>1, <1>3, <2>1, <2>2 DEF FaceOK, HotOK, SessionOK
  <2>4. [f EXCEPT !.dev = d, !.ep = e] = f /\ [h EXCEPT !.dev = d, !.ep = e] = h
    BY <2>3 DEF Face, Hot
  <2>5. [face EXCEPT ![s].dev = d, ![s].ep = e] = face
    <3>1. face = [u \in Sessions |-> face[u]] /\ s \in Sessions
      BY <1>1, <2>1 DEF FaceOK
    <3> QED
      BY <2>2, <2>4, <3>1
  <2>6. [hot EXCEPT ![s].dev = d, ![s].ep = e] = hot
    <3>1. hot = [u \in DOMAIN hot |-> hot[u]] /\ s \in DOMAIN hot
      BY <1>3, <2>1 DEF HotOK
    <3> QED
      BY <2>2, <2>4, <3>1
  <2> QED
    BY <1>3, <2>1, <2>5, <2>6 DEF update_epoch
<1> QED
  BY <1>2, <1>3

\* A tunnel is activated.
LEMMA HotActivated ==
  ASSUME FaceOK, HotOK, RoutesOK, NEW s \in DOMAIN hot, NEW reg \in Nat \ {0}, NEW w \in Nat,
         face[s].worker # 0,
         routes' = [routes EXCEPT ![hot[s].dev] =
                      register(unregister(@, hot[s].reg), [s |-> s, reg |-> reg, worker |-> w])],
         hot' = [hot EXCEPT ![s].reg = reg, ![s].pend = FALSE],
         face' = [face EXCEPT ![s].has = TRUE]
  PROVE  /\ FaceOK' /\ HotOK' /\ RoutesOK' /\ Steady
         /\ DOMAIN hot' = DOMAIN hot /\ \A u \in DOMAIN hot : hot'[u].pw = hot[u].pw
<1>1. PICK h \in Hot : h = hot[s]
  BY DEF HotOK
<1>2. PICK g : g = [h EXCEPT !.reg = reg, !.pend = FALSE]
  OBVIOUS
<1>3. g \in Hot /\ g.pw = h.pw /\ g.dev = h.dev /\ g.ep = h.ep /\ g.reg = reg /\ h.dev \in Devices
  BY <1>2 DEF Hot
<1>4. DOMAIN hot' = DOMAIN hot /\ hot'[s] = g /\ \A u \in DOMAIN hot : u # s => hot'[u] = hot[u]
  BY <1>1, <1>2
<1>5. hot' \in [DOMAIN hot' -> Hot]
  BY <1>3, <1>4 DEF HotOK
<1>6. \A u \in DOMAIN hot : /\ hot'[u].pw = hot[u].pw /\ hot'[u].dev = hot[u].dev
                            /\ hot'[u].ep = hot[u].ep
  BY <1>1, <1>3, <1>4
<1>7. PICK x : x = [face EXCEPT ![s].has = TRUE]
  OBVIOUS
<1>8. s \in Sessions
  BY DEF HotOK
<1>9. PICK a, b : a = face[s] /\ b = [a EXCEPT !.has = TRUE]
  OBVIOUS
<1>a. /\ b \in Face /\ b.pw = a.pw /\ b.dev = a.dev /\ b.ep = a.ep /\ b.worker = a.worker
  <2>1. a \in Face
    BY <1>8, <1>9 DEF FaceOK
  <2> QED
    BY <1>9, <2>1 DEF Face
<1>b. /\ DOMAIN face' = Sessions /\ face' \in [Sessions -> Face]
      /\ \A u \in Sessions : /\ face'[u].pw = face[u].pw /\ face'[u].dev = face[u].dev
                             /\ face'[u].ep = face[u].ep /\ face'[u].worker = face[u].worker
  <2>1. DOMAIN face' = Sessions /\ face'[s] = b /\ \A u \in Sessions : u # s => face'[u] = face[u]
    BY <1>8, <1>9 DEF Sessions
  <2> QED
    BY <1>9, <1>a, <2>1 DEF FaceOK
<1>c. Sessions' = Sessions
  BY <1>b DEF Sessions
<1>d. FaceOK'
  BY <1>b, <1>c DEF FaceOK
<1>e. HotOK'
  <2>1. ASSUME NEW u \in DOMAIN hot PROVE SessionOK(u)'
    <3>1. SessionOK(u) /\ u \in Sessions
      BY DEF HotOK
    <3> QED
      BY <1>4, <1>6, <1>b, <3>1 DEF SessionOK
  <2> QED
    BY <1>4, <1>5, <1>c, <2>1 DEF HotOK
<1>f. Steady
  BY <1>4, <1>b, <1>c DEF Steady, Grow
<1>g. RoutesOK'
  <2> DEFINE e == [s |-> s, reg |-> reg, worker |-> w]
             N == register(unregister(routes[h.dev], h.reg), e)
  <2>1. /\ routes' \in [Devices -> SUBSET Endpoint]
        /\ routes'[h.dev] = N /\ \A d \in Devices : d # h.dev => routes'[d] = routes[d]
    <3>1. e \in Endpoint
      BY <1>8, FS_CardinalityType DEF Endpoint, FaceOK
    <3>2. N \subseteq Endpoint
      BY <1>3, <3>1 DEF register, unregister, RoutesOK
    <3> HIDE DEF e
    <3>3. routes' = [routes EXCEPT ![h.dev] = N]
      BY <1>1 DEF e
    <3> HIDE DEF N
    <3> QED
      BY <1>3, <3>2, <3>3 DEF RoutesOK
  <2>2. ASSUME NEW d \in Devices, d # h.dev, NEW c \in routes[d]
        PROVE  c.reg # 0 /\ c.s \in DOMAIN hot' /\ hot'[c.s].dev = d /\ hot'[c.s].reg = c.reg
    <3>1. c.reg # 0 /\ c.s \in DOMAIN hot /\ hot[c.s].dev = d /\ hot[c.s].reg = c.reg
      BY DEF RoutesOK, RoutesAreLive
    <3>2. c.s # s
      BY <1>1, <2>2, <3>1
    <3> QED
      BY <1>4, <3>1, <3>2
  <2>3. ASSUME NEW c \in N
        PROVE  /\ c.reg # 0 /\ c.s \in DOMAIN hot' /\ hot'[c.s].dev = h.dev /\ hot'[c.s].reg = c.reg
               /\ \A f \in N : f.worker = c.worker => f = c
    <3>1. CASE c = e
      <4>1. c.reg # 0 /\ c.s \in DOMAIN hot' /\ hot'[c.s].dev = h.dev /\ hot'[c.s].reg = c.reg
        BY <1>3, <1>4, <3>1
      <4>2. \A f \in N : f.worker = c.worker => f = c
        BY <3>1 DEF register
      <4> QED
        BY <4>1, <4>2
    <3>2. CASE c # e
      <4>1. c \in routes[h.dev] /\ c.reg # h.reg /\ c.worker # w
        BY <3>2 DEF register, unregister
      <4>2. /\ c.reg # 0 /\ c.s \in DOMAIN hot /\ hot[c.s].dev = h.dev /\ hot[c.s].reg = c.reg
            /\ \A f \in routes[h.dev] : f.worker = c.worker => f = c
        BY <1>3, <4>1 DEF RoutesOK, RoutesAreLive
      <4>3. c.s # s
        BY <1>1, <4>1, <4>2
      <4>4. \A f \in N : f = e \/ f \in routes[h.dev]
        BY DEF register, unregister
      <4> QED
        BY <1>4, <4>1, <4>2, <4>3, <4>4
    <3> QED
      BY <3>1, <3>2
  <2> HIDE DEF N, e
  <2>4. ASSUME NEW d \in Devices, NEW c \in routes'[d]
        PROVE  /\ c.reg # 0 /\ c.s \in DOMAIN hot' /\ hot'[c.s].dev = d /\ hot'[c.s].reg = c.reg
               /\ \A f \in routes'[d] : f.worker = c.worker => f = c
    <3>1. CASE d = h.dev
      BY <2>1, <2>3, <2>4, <3>1
    <3>2. CASE d # h.dev
      <4>1. routes'[d] = routes[d]
        BY <2>1, <3>2
      <4>2. \A f \in routes[d] : f.worker = c.worker => f = c
        BY <2>4, <4>1 DEF RoutesOK, RoutesAreLive
      <4> QED
        BY <2>2, <2>4, <3>2, <4>1, <4>2
    <3> QED
      BY <3>1, <3>2
  <2> QED
    BY <2>1, <2>4 DEF RoutesOK, RoutesAreLive
<1> QED
  BY <1>4, <1>6, <1>d, <1>e, <1>f, <1>g

-----------------------------------------------------------------------------
\* Tasks and slots

\* Slots are only added, and one that u holds stays held by u and in the table.
Holds(u) ==
  /\ \A i \in 1 .. Len(slots) : slots[i].holder = u => slots'[i].holder = u
  /\ At(u, "admit") => slotOf'[task[u].r.dev] = slotOf[task[u].r.dev]
MoreSlots == Len(slots) \in Nat /\ Len(slots') \in Nat /\ Len(slots) <= Len(slots')

LEMMA TaskStays ==
  ASSUME NEW u, NEW k, k = task[u], TaskOK(u, k), Grow, MoreSlots, Holds(u)
  PROVE  TaskOK(u, k)'
<1>1. /\ k.pc \in {"getconf", "epoch", "insert", "lock", "admit"} => Of(k.s, k.r)'
      /\ k.pc \in {"disconnect", "ingress", "ensure", "dlock", "dcheck"} => k.s \in Sessions' /\ k.r.dev \in Devices
      /\ k.pc = "send" => OutOK(k.out)'
  <2>1. k.pc \in {"getconf", "epoch", "insert", "lock", "admit"} => Of(k.s, k.r)'
    BY Stays DEF TaskOK
  <2>2. k.pc = "send" => OutOK(k.out)'
    BY Stays DEF TaskOK
  <2>3. k.pc \in {"disconnect", "ingress", "ensure", "dlock", "dcheck"} => k.s \in Sessions' /\ k.r.dev \in Devices
    BY DEF TaskOK, Grow
  <2> QED
    BY <2>1, <2>2, <2>3
<1>2. /\ k.pc \in {"lock", "admit", "dlock", "dcheck", "send"} => k.slot \in 1 .. Len(slots')
      /\ k.pc \in {"admit", "send", "dcheck"} => slots'[k.slot].holder = u
      /\ k.pc = "admit" => slotOf'[k.r.dev] = k.slot
  <2>1. k.pc \in {"lock", "admit", "dlock", "dcheck", "send"} => k.slot \in 1 .. Len(slots)
    BY DEF TaskOK
  <2>2. k.pc \in {"lock", "admit", "dlock", "dcheck", "send"} => k.slot \in 1 .. Len(slots')
    BY <2>1 DEF MoreSlots
  <2>3. k.pc \in {"admit", "send", "dcheck"} => slots'[k.slot].holder = u
    BY <2>1 DEF TaskOK, Holds
  <2>4. k.pc = "admit" => slotOf'[k.r.dev] = k.slot
    BY DEF TaskOK, Holds, At
  <2> QED
    BY <2>2, <2>3, <2>4
<1> QED
  BY <1>1, <1>2 DEF TaskOK

LEMMA TasksMove ==
  ASSUME TasksOK, Grow, MoreSlots, NEW t \in Tasks \cup Admins, NEW k, Goto(t, k), TaskOK(t, k)',
         \A u \in Tasks \cup Admins : u # t => Holds(u)
  PROVE  TasksOK'
<1>1. DOMAIN task' = Tasks \cup Admins /\ task'[t] = k /\ \A u \in Tasks \cup Admins : u # t => task'[u] = task[u]
  BY DEF Goto, TasksOK
<1>2. ASSUME NEW u \in Tasks \cup Admins PROVE TaskOK(u, task[u])'
  <2>1. CASE u = t
    BY <1>1, <2>1
  <2>2. CASE u # t
    <3>1. PICK x : x = task[u]
      OBVIOUS
    <3>2. TaskOK(u, x)
      BY <3>1 DEF TasksOK
    <3>3. TaskOK(u, x)'
      BY <2>2, <3>1, <3>2, TaskStays
    <3> QED
      BY <1>1, <2>2, <3>1, <3>3
  <2> QED
    BY <2>1, <2>2
<1> QED
  BY <1>1, <1>2 DEF TasksOK

LEMMA TasksSame ==
  ASSUME TasksOK, Grow, MoreSlots, task' = task, \A u \in Tasks \cup Admins : Holds(u)
  PROVE  TasksOK'
<1>1. ASSUME NEW u \in Tasks \cup Admins PROVE TaskOK(u, task[u])'
  <2>1. PICK x : x = task[u]
    OBVIOUS
  <2>2. TaskOK(u, x)
    BY <2>1 DEF TasksOK
  <2>3. TaskOK(u, x)'
    BY <2>1, <2>2, TaskStays
  <2> QED
    BY <2>1, <2>3
<1> QED
  BY <1>1 DEF TasksOK

LEMMA SlotsSame ==
  ASSUME SlotsOK, slots' = slots, slotOf' = slotOf
  PROVE  SlotsOK' /\ MoreSlots /\ \A u : Holds(u)
<1>1. Len(slots) \in Nat
  BY DEF SlotsOK
<1>2. MoreSlots /\ \A u : Holds(u)
  BY <1>1 DEF MoreSlots, Holds
<1> QED
  BY <1>2 DEF SlotsOK

LEMMA AtRest == ASSUME NEW t PROVE TaskOK(t, Idle)'
BY DEF TaskOK, Idle

\* A lock is taken or given back: only one slot changes, and it keeps or changes its epoch.
LEMMA SlotChanged ==
  ASSUME SlotsOK, NEW i \in 1 .. Len(slots), NEW x \in Slot, slots' = [slots EXCEPT ![i] = x],
         slotOf' = slotOf
  PROVE  /\ SlotsOK' /\ MoreSlots /\ Len(slots') = Len(slots) /\ slots'[i] = x
         /\ \A j \in 1 .. Len(slots) : j # i => slots'[j] = slots[j]
         /\ \A u : (slots[i].holder = u => x.holder = u) => Holds(u)
<1>1. /\ Len(slots) \in Nat /\ DOMAIN slots = 1 .. Len(slots) /\ slots \in Seq(Slot)
  BY DEF SlotsOK
<1>2. slots' \in Seq(Slot) /\ Len(slots') = Len(slots) /\ slots'[i] = x
      /\ \A j \in 1 .. Len(slots) : j # i => slots'[j] = slots[j]
  BY <1>1
<1>3. SlotsOK'
  BY <1>2 DEF SlotsOK
<1>4. MoreSlots
  BY <1>1, <1>2 DEF MoreSlots
<1>5. ASSUME NEW u, slots[i].holder = u => x.holder = u PROVE Holds(u)
  BY <1>2, <1>5 DEF Holds
<1> QED
  BY <1>2, <1>3, <1>4, <1>5

LEMMA SlotUnlocked ==
  ASSUME SlotsOK, NEW t, NEW i \in 1 .. Len(slots), slots[i].holder = t, slots' = Unlocked(i), slotOf' = slotOf
  PROVE  SlotsOK' /\ MoreSlots /\ \A u : u # t => Holds(u)
<1>1. slots[i] \in Slot
  BY DEF SlotsOK
<1>2. PICK y \in Slot : y = slots[i]
  BY <1>1
<1>3. PICK x : x = [y EXCEPT !.holder = None]
  OBVIOUS
<1>4. x \in Slot
  BY <1>3 DEF Slot
<1>5. slots' = [slots EXCEPT ![i] = x]
  BY <1>2, <1>3 DEF Unlocked
<1>6. SlotsOK' /\ MoreSlots /\ \A u : (slots[i].holder = u => x.holder = u) => Holds(u)
  BY <1>4, <1>5, SlotChanged
<1> QED
  BY <1>6

-----------------------------------------------------------------------------
\* Passwords that have been cut

KeepsCredentials ==
  \A i \in DOMAIN commands :
    commands[i].cmd = "credentials" => \E j \in DOMAIN commands' : commands'[j] = commands[i]

\* No session of a password that has been cut is admitted.
LEMMA CutStays ==
  ASSUME Cutting, cut' \subseteq cut, KeepsCredentials,
         \A p \in cut' : pws'[p] = pws[p],
         \A s \in DOMAIN hot' : hot'[s].pw \in cut' /\ face'[s].worker # 0 =>
            s \in DOMAIN hot /\ hot[s].pw = hot'[s].pw /\ face[s].worker # 0
  PROVE  Cutting'
<1>1. ASSUME NEW p \in cut' PROVE pws'[p] # "active"
  BY DEF Cutting
<1>2. ASSUME NEW p \in cut', \A s \in DOMAIN hot : hot[s].pw = p => face[s].worker = 0
      PROVE  \A s \in DOMAIN hot' : hot'[s].pw = p => face'[s].worker = 0
  BY <1>2
<1>3. ASSUME NEW p \in cut', \E i \in DOMAIN commands : commands[i].cmd = "credentials" /\ p \notin commands[i].creds
      PROVE  \E i \in DOMAIN commands' : commands'[i].cmd = "credentials" /\ p \notin commands'[i].creds
  <2>1. PICK i \in DOMAIN commands : commands[i].cmd = "credentials" /\ p \notin commands[i].creds
    BY <1>3
  <2>2. PICK j \in DOMAIN commands' : commands'[j] = commands[i]
    BY <2>1 DEF KeepsCredentials
  <2> QED
    BY <2>1, <2>2
<1>4. ASSUME NEW p \in cut
      PROVE  \/ \A s \in DOMAIN hot : hot[s].pw = p => face[s].worker = 0
             \/ \E i \in DOMAIN commands : commands[i].cmd = "credentials" /\ p \notin commands[i].creds
  BY DEF Cutting
<1> QED
  BY <1>1, <1>2, <1>3, <1>4 DEF Cutting

LEMMA CutSteady ==
  ASSUME Cutting, HotOK, Steady, cut' = cut, pws' = pws, KeepsCredentials,
         \A s \in DOMAIN hot' : s \in DOMAIN hot => hot'[s].pw = hot[s].pw
  PROVE  Cutting'
<1>1. \A s \in DOMAIN hot' : hot'[s].pw \in cut' /\ face'[s].worker # 0 =>
            s \in DOMAIN hot /\ hot[s].pw = hot'[s].pw /\ face[s].worker # 0
  BY DEF Steady, HotOK
<1> QED
  BY <1>1, CutStays

-----------------------------------------------------------------------------
\* Messages are queued

LEMMA OneMailed ==
  ASSUME MailOK, Grow, NEW e, EventOK(e)', Emit(<<e>>)
  PROVE  MailOK'
<1>1. PICK q : q = <<e>>
  OBVIOUS
<1>2. IsSeq(q) /\ \A j \in DOMAIN q : q[j] = e
  BY <1>1, Singles
<1>3. PICK x : /\ IsSeq(x) /\ events' = events \o x
               /\ \A j \in DOMAIN x : \E n \in DOMAIN q : x[j] = q[n]
  <2>1. Emit(q)
    BY <1>1
  <2> QED
    BY <1>2, <2>1, Emitted
<1>4. \A j \in DOMAIN x : EventOK(x[j])'
  BY <1>2, <1>3
<1> QED
  BY <1>3, <1>4, MailGrows

LEMMA SomeQueued ==
  ASSUME QueueOK, Grow, NEW x, IsSeq(x), commands' = commands \o x, \A j \in DOMAIN x : CommandOK(x[j])'
  PROVE  QueueOK' /\ KeepsCredentials
<1>1. QueueOK' /\ \A i \in DOMAIN commands : i \in DOMAIN commands' /\ commands'[i] = commands[i]
  BY QueueGrows
<1> QED
  BY <1>1 DEF KeepsCredentials

LEMMA OneQueued ==
  ASSUME QueueOK, Grow, NEW c, CommandOK(c)', commands' = Append(commands, c)
  PROVE  QueueOK' /\ KeepsCredentials /\ \E j \in DOMAIN commands' : commands'[j] = c
<1>1. PICK q : q = commands /\ IsSeq(q)
  BY DEF QueueOK
<1>2. PICK x : x = <<c>>
  OBVIOUS
<1>3. IsSeq(x) /\ (\A j \in DOMAIN x : x[j] = c) /\ 1 \in DOMAIN x
  BY <1>2, Singles
<1>4. PICK S : q \in Seq(S) /\ c \in S
  <2>1. PICK S : S = {q[i] : i \in DOMAIN q} \cup {c}
    OBVIOUS
  <2> QED
    <3>1. PICK U : U = {q[i] : i \in DOMAIN q}
      OBVIOUS
    <3>2. q \in Seq(U) /\ S = U \cup {c}
      BY <1>1, <2>1, <3>1 DEF IsSeq
    <3> QED
      BY <3>2
<1>5. Append(q, c) = q \o x
  BY <1>2, <1>4
<1>6. commands' = commands \o x
  BY <1>1, <1>5
<1>7. QueueOK' /\ KeepsCredentials
  BY <1>3, <1>6, SomeQueued
<1>8. Append(q, c)[Len(q) + 1] = c /\ Len(q) + 1 \in DOMAIN Append(q, c)
  BY <1>4
<1>9. PICK y : y = Append(q, c)
  OBVIOUS
<1>a. commands' = y /\ y[Len(q) + 1] = c /\ Len(q) + 1 \in DOMAIN y
  BY <1>1, <1>8, <1>9
<1> QED
  BY <1>7, <1>a

LEMMA ListQueued ==
  ASSUME QueueOK, Grow, NEW cs, IsSeq(cs), command(cs), \A j \in DOMAIN cs : CommandOK(cs[j])'
  PROVE  QueueOK' /\ KeepsCredentials
<1>1. PICK x : /\ IsSeq(x) /\ commands' = commands \o x
               /\ \A j \in DOMAIN x : \E n \in DOMAIN cs : x[j] = cs[n]
  BY Commanded
<1>2. \A j \in DOMAIN x : CommandOK(x[j])'
  BY <1>1
<1> QED
  BY <1>1, <1>2, SomeQueued

LEMMA DropQueued ==
  ASSUME QueueOK, Grow, NEW s, command(<<DropSession(s)>>)
  PROVE  QueueOK' /\ KeepsCredentials
<1>1. PICK c, q : c = DropSession(s) /\ q = <<c>>
  OBVIOUS
<1>2. IsSeq(q) /\ \A j \in DOMAIN q : q[j] = c
  BY <1>1, Singles
<1>3. CommandOK(c)'
  BY <1>1 DEF CommandOK, DropSession
<1>4. \A j \in DOMAIN q : CommandOK(q[j])'
  BY <1>2, <1>3
<1> QED
  BY <1>1, <1>2, <1>4, ListQueued

LEMMA NothingQueued ==
  ASSUME QueueOK, Grow, commands' = commands
  PROVE  QueueOK' /\ KeepsCredentials
BY QueueSame DEF KeepsCredentials

LEMMA OneTaken ==
  ASSUME QueueOK, Grow, NEW c, Took(c)
  PROVE  /\ QueueOK' /\ CommandOK(Head(commands)) /\ Head(commands).cmd = c
         /\ c # "credentials" => KeepsCredentials
<1>1. /\ QueueOK' /\ Head(commands) = commands[1] /\ CommandOK(Head(commands))
      /\ \A i \in DOMAIN commands : i # 1 => i - 1 \in DOMAIN commands' /\ commands'[i - 1] = commands[i]
  BY QueueTaken DEF Took
<1> QED
  BY <1>1 DEF Took, KeepsCredentials

LEMMA DropsQueued ==
  ASSUME QueueOK, Grow, NEW R, IsFiniteSet(R), \E drops \in ForEach(R, DropSession) : command(drops)
  PROVE  QueueOK' /\ KeepsCredentials
<1>1. PICK drops \in ForEach(R, DropSession) : command(drops)
  OBVIOUS
<1>2. IsSeq(drops) /\ \A j \in DOMAIN drops : drops[j].cmd = "drop"
  BY DropsSeq
<1>3. \A j \in DOMAIN drops : CommandOK(drops[j])'
  BY <1>2 DEF CommandOK
<1> QED
  BY <1>1, <1>2, <1>3, ListQueued

-----------------------------------------------------------------------------
\* The steps of the engine

LEMMA ControlSame ==
  ASSUME TasksOK, SlotsOK, RowsOK, Grow, UNCHANGED <<control, scenario>>,
         registrations' = registrations, promised' = promised
  PROVE  TasksOK' /\ SlotsOK' /\ RowsOK'
<1>1. UNCHANGED <<pub, slotOf, slots, pws, devs, task, cut, scenario>>
  BY DEF control
<1>2. SlotsOK' /\ MoreSlots /\ \A u : Holds(u)
  BY <1>1, SlotsSame
<1>3. TasksOK'
  BY <1>1, <1>2, TasksSame
<1>4. RowsOK'
  BY <1>1 DEF RowsOK
<1> QED
  BY <1>2, <1>3, <1>4

\* A packet makes a session.
LEMMA PacketMakes ==
  ASSUME LInv, NEW r \in Requests, NEW R, R \subseteq DOMAIN hot, create_legacy_session(r, R), Unseen
  PROVE  LInv'
<1>1. /\ FaceOK' /\ HotOK' /\ RoutesOK' /\ MailOK' /\ Steady
      /\ \A s \in DOMAIN hot' : s \in DOMAIN hot => hot'[s] = hot[s]
  BY SessionMade DEF LInv
<1>2. /\ UNCHANGED <<control, scenario>> /\ registrations' = registrations /\ promised' = promised
      /\ commands' = commands /\ cut' = cut /\ pws' = pws
  BY DEF Unseen, control
<1>3. TasksOK' /\ SlotsOK' /\ RowsOK'
  BY <1>1, <1>2, ControlSame DEF LInv, Steady
<1>4. QueueOK' /\ KeepsCredentials
  BY <1>1, <1>2, NothingQueued DEF LInv, Steady
<1>5. Cutting'
  BY <1>1, <1>2, <1>4, CutSteady DEF LInv
<1> QED
  BY <1>1, <1>3, <1>4, <1>5 DEF LInv

\* A packet of a session is handed on.
LEMMA PacketTells ==
  ASSUME LInv, NEW e, EventOK(e), Emit(<<e>>), Unseen, UNCHANGED <<hot, routes, face>>
  PROVE  LInv'
<1>1. FaceOK' /\ HotOK' /\ RoutesOK' /\ Steady /\ Grow
  BY RegistrySame DEF LInv, Steady
<1>2. /\ UNCHANGED <<control, scenario>> /\ registrations' = registrations /\ promised' = promised
      /\ commands' = commands /\ cut' = cut /\ pws' = pws
  BY DEF Unseen, control
<1>3. TasksOK' /\ SlotsOK' /\ RowsOK'
  BY <1>1, <1>2, ControlSame DEF LInv
<1>4. QueueOK' /\ KeepsCredentials
  BY <1>1, <1>2, NothingQueued DEF LInv
<1>5. Cutting'
  BY <1>1, <1>2, <1>4, CutSteady DEF LInv
<1>6. EventOK(e)'
  BY <1>1, Stays
<1>7. MailOK'
  BY <1>1, <1>6, OneMailed DEF LInv
<1> QED
  BY <1>1, <1>3, <1>4, <1>5, <1>7 DEF LInv

LEMMA StepIngress ==
  ASSUME LInv, NEW s \in DOMAIN hot, IngressBeforeTunnel(s)
  PROVE  LInv'
<1>1. /\ UNCHANGED <<control, scenario>> /\ registrations' = registrations /\ promised' = promised
      /\ commands' = commands /\ cut' = cut /\ pws' = pws /\ routes' = routes /\ face' = face
  BY DEF IngressBeforeTunnel, Unseen, control
<1>2. /\ FaceOK' /\ HotOK' /\ RoutesOK' /\ Steady /\ Grow
      /\ \A u \in DOMAIN hot' : u \in DOMAIN hot => hot'[u].pw = hot[u].pw
  <2>1. CASE hot' = hot
    BY <1>1, <2>1, RegistrySame DEF LInv, Steady
  <2>2. CASE hot' = [hot EXCEPT ![s].pend = TRUE]
    BY <1>1, <2>2, HotPending DEF LInv, Steady
  <2> QED
    BY <2>1, <2>2 DEF IngressBeforeTunnel
<1>3. TasksOK' /\ SlotsOK' /\ RowsOK'
  BY <1>1, <1>2, ControlSame DEF LInv
<1>4. QueueOK' /\ KeepsCredentials
  BY <1>1, <1>2, NothingQueued DEF LInv
<1>5. Cutting'
  BY <1>1, <1>2, <1>4, CutSteady DEF LInv
<1>6. MailOK'
  <2>1. CASE events' = events
    BY <1>2, <2>1, MailSame DEF LInv
  <2>2. CASE events' = Append(events, [ev |-> "ingress", s |-> s, r |-> face[s]])
    <3>1. PICK q, x : q = events /\ x = [ev |-> "ingress", s |-> s, r |-> face[s]] /\ IsSeq(q)
      BY DEF LInv, MailOK
    <3>2. PICK S : q \in Seq(S) /\ x \in S
      <4>1. PICK S : S = {q[i] : i \in DOMAIN q} \cup {x}
        OBVIOUS
      <4> QED
        BY <3>1, <4>1 DEF IsSeq
    <3>3. PICK y : y = <<x>>
      OBVIOUS
    <3>4. Append(q, x) = q \o y
      BY <3>2, <3>3
    <3>5. events' = events \o y
      BY <2>2, <3>1, <3>4
    <3>6. EventOK(x)
      <4>1. x.ev = "ingress" /\ x.s = s /\ x.r = face[s]
        BY <3>1
      <4>2. s \in Sessions /\ face[s].dev \in Devices
        BY DEF LInv, HotOK, FaceOK, Face
      <4> QED
        BY <4>1, <4>2 DEF EventOK
    <3>7. EventOK(x)'
      BY <1>2, <3>6, Stays
    <3>8. IsSeq(y) /\ \A j \in DOMAIN y : y[j] = x
      BY <3>3, Singles
    <3>9. \A j \in DOMAIN y : EventOK(y[j])'
      BY <3>7, <3>8
    <3> QED
      BY <1>2, <3>5, <3>8, <3>9, MailGrows DEF LInv
  <2> QED
    BY <2>1, <2>2 DEF IngressBeforeTunnel
<1> QED
  BY <1>2, <1>3, <1>4, <1>5, <1>6 DEF LInv

LEMMA StepUdp == ASSUME LInv, OnUdp PROVE LInv'
<1>1. scenario.requests \subseteq Requests
  BY DEF LInv, RowsOK, Requests
<1>2. ASSUME NEW r \in Requests, handle_unknown_legacy(r) PROVE LInv'
  <2>1. PICK R : R = {}
    OBVIOUS
  <2>2. create_legacy_session(r, R) /\ Unseen /\ R \subseteq DOMAIN hot
    BY <1>2, <2>1 DEF handle_unknown_legacy
  <2> QED
    BY <2>2, PacketMakes
<1>3. ASSUME NEW r \in Requests, ReplaceSession(r) PROVE LInv'
  <2>1. PICK s \in ByPeer(r.peer) : create_legacy_session(r, {s})
    BY <1>3 DEF ReplaceSession
  <2>2. PICK R : R = {s}
    OBVIOUS
  <2>3. create_legacy_session(r, R) /\ Unseen /\ R \subseteq DOMAIN hot
    BY <1>3, <2>1, <2>2 DEF ReplaceSession, ByPeer
  <2> QED
    BY <2>3, PacketMakes
<1>4. ASSUME NEW r \in Requests, ProcessGetconf(r) PROVE LInv'
  <2>1. PICK s \in ByPeer(r.peer) : /\ hot[s].pw = r.pw /\ ~Rejected(hot[s], r) /\ Processed(hot[s], r)
                                    /\ Emit(<<[ev |-> "getconf", s |-> s, r |-> r]>>)
    BY <1>4 DEF ProcessGetconf
  <2>2. PICK e : e = [ev |-> "getconf", s |-> s, r |-> r]
    OBVIOUS
  <2>3. s \in DOMAIN hot /\ s \in Sessions /\ SessionOK(s)
    BY <2>1 DEF ByPeer, LInv, HotOK
  <2>4. Of(s, r)
    BY <2>1, <2>3 DEF Of, SessionOK, Rejected, Processed
  <2>5. EventOK(e)
    BY <2>2, <2>4 DEF EventOK
  <2>6. Emit(<<e>>) /\ Unseen /\ UNCHANGED <<hot, routes, face>>
    BY <1>4, <2>1, <2>2 DEF ProcessGetconf
  <2> QED
    BY <2>5, <2>6, PacketTells
<1>5. ASSUME NEW s \in DOMAIN hot, Disconnect(s) PROVE LInv'
  <2>1. PICK e : e = [ev |-> "disconnect", s |-> s, r |-> face[s]]
    OBVIOUS
  <2>2. e.ev = "disconnect" /\ e.s = s /\ e.r = face[s] /\ s \in Sessions /\ face[s].dev \in Devices
    BY <2>1 DEF LInv, HotOK, FaceOK, Face
  <2>3. EventOK(e)
    BY <2>2 DEF EventOK
  <2>4. Emit(<<e>>) /\ Unseen /\ UNCHANGED <<hot, routes, face>>
    BY <1>5, <2>1 DEF Disconnect
  <2> QED
    BY <2>3, <2>4, PacketTells
<1> QED
  BY <1>1, <1>2, <1>3, <1>4, <1>5, StepIngress DEF OnUdp

\* The parts of the invariant once the engine has taken a command and removed the sessions of R.
LEMMA CommandRemoves ==
  ASSUME LInv, NEW c, Took(c), NEW R, R \subseteq DOMAIN hot, remove_slots(R), CommandOnly,
         promised' = promised,
         c = "credentials" => \A s \in DOMAIN hot : hot[s].pw \notin Head(commands).creds => s \in R
  PROVE  LInv'
<1>1. /\ FaceOK' /\ HotOK' /\ RoutesOK' /\ MailOK' /\ Steady /\ Grow
      /\ DOMAIN hot' = DOMAIN hot \ R /\ \A s \in DOMAIN hot' : hot'[s] = hot[s]
  BY SlotsRemoved DEF LInv, Steady
<1>2. /\ UNCHANGED <<control, scenario>> /\ registrations' = registrations /\ cut' = cut /\ pws' = pws
  BY DEF CommandOnly, control, limits
<1>3. TasksOK' /\ SlotsOK' /\ RowsOK'
  BY <1>1, <1>2, ControlSame DEF LInv
<1>4. QueueOK' /\ (c # "credentials" => KeepsCredentials)
  BY <1>1, OneTaken DEF LInv
<1>5. CASE c # "credentials"
  <2>1. Cutting'
    BY <1>1, <1>2, <1>4, <1>5, CutSteady DEF LInv
  <2> QED
    BY <1>1, <1>3, <1>4, <2>1 DEF LInv
<1>6. CASE c = "credentials"
  <2>1. /\ Head(commands) = commands[1]
        /\ \A i \in DOMAIN commands : i # 1 => i - 1 \in DOMAIN commands' /\ commands'[i - 1] = commands[i]
    BY <1>1, QueueTaken DEF LInv, Took
  <2>2. ASSUME NEW p \in cut'
        PROVE  /\ pws'[p] # "active"
               /\ \/ \A s \in DOMAIN hot' : hot'[s].pw = p => face'[s].worker = 0
                  \/ \E i \in DOMAIN commands' : commands'[i].cmd = "credentials" /\ p \notin commands'[i].creds
    <3>1. p \in cut /\ pws'[p] # "active"
      BY <1>2, <2>2 DEF LInv, Cutting
    <3>2. CASE \A s \in DOMAIN hot : hot[s].pw = p => face[s].worker = 0
      BY <1>1, <3>1, <3>2 DEF Steady, LInv, HotOK
    <3>3. CASE \E i \in DOMAIN commands : commands[i].cmd = "credentials" /\ p \notin commands[i].creds
      <4>1. PICK i \in DOMAIN commands : commands[i].cmd = "credentials" /\ p \notin commands[i].creds
        BY <3>3
      <4>2. CASE i = 1
        <5>1. \A s \in DOMAIN hot : hot[s].pw = p => s \in R
          BY <1>6, <2>1, <4>1, <4>2
        <5> QED
          BY <1>1, <3>1, <5>1
      <4>3. CASE i # 1
        BY <2>1, <3>1, <4>1, <4>3
      <4> QED
        BY <4>2, <4>3
    <3> QED
      BY <3>1, <3>2, <3>3 DEF LInv, Cutting
  <2>3. Cutting'
    BY <2>2 DEF Cutting
  <2> QED
    BY <1>1, <1>3, <1>4, <2>3 DEF LInv
<1> QED
  BY <1>5, <1>6

LEMMA StepSendPlain == ASSUME LInv, SendPlain PROVE LInv'
<1>1. /\ UNCHANGED <<hot, routes, face, events>> /\ UNCHANGED <<pub, slotOf, slots, pws, devs, task, cut>>
      /\ scenario' = scenario /\ registrations' = registrations
  BY DEF SendPlain, CommandOnly, engine, control, limits
<1>2. FaceOK' /\ HotOK' /\ RoutesOK' /\ Steady /\ Grow
  BY <1>1, RegistrySame DEF LInv, Steady
<1>3. PICK c : c = "tunconf"
  OBVIOUS
<1>4. Took(c)
  BY <1>3 DEF SendPlain
<1>5. QueueOK' /\ KeepsCredentials /\ CommandOK(Head(commands)) /\ Head(commands).cmd = "tunconf"
  BY <1>2, <1>3, <1>4, OneTaken DEF LInv
<1>6. SlotsOK' /\ MoreSlots /\ \A u : Holds(u)
  BY <1>1, SlotsSame DEF LInv
<1>7. TasksOK'
  BY <1>1, <1>2, <1>6, TasksSame DEF LInv
<1>8. RowsOK'
  <2>1. Head(commands).dev \in Devices /\ Head(commands).ep \in Epoch
    <3>1. PICK s, f : s = Head(commands).s /\ f = face[s] /\ s \in Sessions
                      /\ Head(commands).dev = f.dev /\ Head(commands).ep = f.ep
      BY <1>5 DEF CommandOK
    <3>2. f \in Face
      BY <3>1 DEF LInv, FaceOK
    <3> QED
      BY <3>1, <3>2 DEF Face
  <2>2. promised' \in [Devices -> Epoch]
    BY <2>1 DEF SendPlain, LInv, RowsOK
  <2> QED
    BY <1>1, <2>2 DEF LInv, RowsOK
<1>9. Cutting'
  BY <1>1, <1>2, <1>5, CutSteady DEF LInv
<1>a. MailOK'
  BY <1>1, <1>2, MailSame DEF LInv
<1> QED
  BY <1>2, <1>5, <1>6, <1>7, <1>8, <1>9, <1>a DEF LInv

LEMMA StepActivate == ASSUME LInv, activate_tunnel PROVE LInv'
<1>1. /\ UNCHANGED <<control, scenario>> /\ registrations' = registrations /\ promised' = promised
      /\ cut' = cut /\ pws' = pws /\ events' = events
  BY DEF activate_tunnel, CommandOnly, control, limits
<1>2. PICK m : m = "activate"
  OBVIOUS
<1>3. Took(m)
  BY <1>2 DEF activate_tunnel
<1>4. PICK c : c = Head(commands)
  OBVIOUS
<1>5. CommandOK(c) /\ c.cmd = "activate"
  BY <1>2, <1>3, <1>4, Taken DEF LInv, QueueOK, Took
<1>6. c.s \in Sessions /\ face[c.s].worker # 0 /\ c.reg \in Nat \ {0} /\ c.worker \in Nat
  BY <1>5 DEF CommandOK
<1>7. /\ FaceOK' /\ HotOK' /\ RoutesOK' /\ Steady /\ Grow
      /\ \A u \in DOMAIN hot' : u \in DOMAIN hot => hot'[u].pw = hot[u].pw
  <2>1. CASE c.s \notin DOMAIN hot
    <3>1. UNCHANGED <<hot, routes, face>>
      BY <1>4, <2>1 DEF activate_tunnel
    <3> QED
      BY <3>1, RegistrySame DEF LInv, Steady
  <2>2. CASE c.s \in DOMAIN hot
    <3>1. PICK s, reg, w : s = c.s /\ reg = c.reg /\ w = c.worker
      OBVIOUS
    <3>2. /\ routes' = [routes EXCEPT ![hot[s].dev] =
                          register(unregister(@, hot[s].reg), [s |-> s, reg |-> reg, worker |-> w])]
          /\ hot' = [hot EXCEPT ![s].reg = reg, ![s].pend = FALSE]
          /\ face' = [face EXCEPT ![s].has = TRUE]
      BY <1>4, <2>2, <3>1 DEF activate_tunnel
    <3>3. s \in DOMAIN hot /\ face[s].worker # 0 /\ reg \in Nat \ {0} /\ w \in Nat
      BY <1>6, <2>2, <3>1
    <3>4. /\ FaceOK' /\ HotOK' /\ RoutesOK' /\ Steady
          /\ DOMAIN hot' = DOMAIN hot /\ \A u \in DOMAIN hot : hot'[u].pw = hot[u].pw
      BY <3>2, <3>3, HotActivated DEF LInv
    <3> QED
      BY <3>4 DEF Steady
  <2> QED
    BY <2>1, <2>2
<1>8. QueueOK' /\ KeepsCredentials
  BY <1>2, <1>3, <1>7, OneTaken DEF LInv
<1>9. TasksOK' /\ SlotsOK' /\ RowsOK'
  BY <1>1, <1>7, ControlSame DEF LInv
<1>a. Cutting'
  BY <1>1, <1>7, <1>8, CutSteady DEF LInv
<1>b. MailOK'
  BY <1>1, <1>7, MailSame DEF LInv
<1> QED
  BY <1>7, <1>8, <1>9, <1>a, <1>b DEF LInv

LEMMA StepUpdate == ASSUME LInv, update_epoch PROVE LInv'
<1>1. /\ UNCHANGED <<control, scenario>> /\ registrations' = registrations /\ promised' = promised
      /\ cut' = cut /\ pws' = pws /\ events' = events /\ routes' = routes
  BY DEF update_epoch, CommandOnly, control, limits
<1>2. PICK m : m = "update"
  OBVIOUS
<1>3. Took(m)
  BY <1>2 DEF update_epoch
<1>4. CommandOK(Head(commands))
  BY <1>2, <1>3, Taken DEF LInv, QueueOK, Took
<1>5. hot' = hot /\ face' = face
  BY <1>4, HotUpdated DEF LInv
<1>6. FaceOK' /\ HotOK' /\ RoutesOK' /\ Steady /\ Grow
  BY <1>1, <1>5, RegistrySame DEF LInv, Steady
<1>7. QueueOK' /\ KeepsCredentials
  BY <1>2, <1>3, <1>6, OneTaken DEF LInv
<1>8. TasksOK' /\ SlotsOK' /\ RowsOK'
  BY <1>1, <1>6, ControlSame DEF LInv
<1>9. Cutting'
  BY <1>1, <1>5, <1>6, <1>7, CutSteady DEF LInv
<1>a. MailOK'
  BY <1>1, <1>6, MailSame DEF LInv
<1> QED
  BY <1>6, <1>7, <1>8, <1>9, <1>a DEF LInv

LEMMA StepCommand == ASSUME LInv, OnCommand PROVE LInv'
<1>1. CASE SetAuthoritativeEpoch
  <2>1. PICK m, R : m = "auth" /\ R = {s \in DOMAIN hot : session_is_retired_by_epoch(hot[s], Head(commands).dev, Head(commands).ep)}
    OBVIOUS
  <2>2. Took(m) /\ m # "credentials" /\ R \subseteq DOMAIN hot /\ remove_slots(R) /\ CommandOnly /\ promised' = promised
    BY <1>1, <2>1 DEF SetAuthoritativeEpoch
  <2> QED
    BY <2>2, CommandRemoves
<1>2. CASE DisconnectDevice
  <2>1. PICK m, R : m = "disconnect" /\ R = {s \in DOMAIN hot : s = Head(commands).s \/ hot[s].dev = Head(commands).dev}
    OBVIOUS
  <2>2. Took(m) /\ m # "credentials" /\ R \subseteq DOMAIN hot /\ remove_slots(R) /\ CommandOnly /\ promised' = promised
    BY <1>2, <2>1 DEF DisconnectDevice
  <2> QED
    BY <2>2, CommandRemoves
<1>3. CASE ReplaceCredentials
  <2>1. PICK m, R : m = "credentials" /\ R = {s \in DOMAIN hot : hot[s].pw \notin Head(commands).creds}
    OBVIOUS
  <2>2. Took(m) /\ R \subseteq DOMAIN hot /\ remove_slots(R) /\ CommandOnly /\ promised' = promised
    BY <1>3, <2>1 DEF ReplaceCredentials
  <2>3. \A s \in DOMAIN hot : hot[s].pw \notin Head(commands).creds => s \in R
    BY <2>1
  <2> QED
    BY <2>2, <2>3, CommandRemoves
<1>4. CASE DropOne
  <2>1. PICK m, R : m = "drop" /\ R = {Head(commands).s} \cap DOMAIN hot
    OBVIOUS
  <2>2. Took(m) /\ m # "credentials" /\ R \subseteq DOMAIN hot /\ remove_slots(R) /\ CommandOnly /\ promised' = promised
    BY <1>4, <2>1 DEF DropOne
  <2> QED
    BY <2>2, CommandRemoves
<1>5. CASE DropPassword
  <2>1. PICK m, R : m = "password" /\ R = {s \in DOMAIN hot : hot[s].pw = Head(commands).pw}
    OBVIOUS
  <2>2. Took(m) /\ m # "credentials" /\ R \subseteq DOMAIN hot /\ remove_slots(R) /\ CommandOnly /\ promised' = promised
    BY <1>5, <2>1 DEF DropPassword
  <2> QED
    BY <2>2, CommandRemoves
<1> QED
  BY <1>1, <1>2, <1>3, <1>4, <1>5, StepSendPlain, StepActivate, StepUpdate DEF OnCommand

LEMMA StepTick == ASSUME LInv, OnTick PROVE LInv'
<1>1. CASE IdleSession
  <2>1. PICK s \in DOMAIN hot : remove_slots({s})
    BY <1>1 DEF IdleSession
  <2>2. PICK R : R = {s}
    OBVIOUS
  <2>3. /\ FaceOK' /\ HotOK' /\ RoutesOK' /\ MailOK' /\ Steady /\ Grow
        /\ \A u \in DOMAIN hot' : hot'[u] = hot[u]
    BY <2>1, <2>2, SlotsRemoved DEF LInv, Steady
  <2>4. /\ UNCHANGED <<control, scenario>> /\ registrations' = registrations /\ cut' = cut /\ pws' = pws
        /\ promised' = promised /\ commands' = commands
    BY <1>1 DEF IdleSession, TimeOnly, control
  <2>5. TasksOK' /\ SlotsOK' /\ RowsOK'
    BY <2>3, <2>4, ControlSame DEF LInv
  <2>6. QueueOK' /\ KeepsCredentials
    BY <2>3, <2>4, NothingQueued DEF LInv
  <2>7. Cutting'
    BY <2>3, <2>4, <2>6, CutSteady DEF LInv
  <2> QED
    BY <2>3, <2>5, <2>6, <2>7 DEF LInv
<1>2. CASE sweep_idle_epochs
  <2>1. /\ UNCHANGED <<control, scenario>> /\ registrations' = registrations /\ cut' = cut /\ pws' = pws
        /\ promised' = promised /\ commands' = commands /\ events' = events /\ UNCHANGED <<hot, routes, face>>
    BY <1>2 DEF sweep_idle_epochs, TimeOnly, control, queues
  <2>2. FaceOK' /\ HotOK' /\ RoutesOK' /\ Steady /\ Grow
    BY <2>1, RegistrySame DEF LInv, Steady
  <2>3. TasksOK' /\ SlotsOK' /\ RowsOK'
    BY <2>1, <2>2, ControlSame DEF LInv
  <2>4. QueueOK' /\ KeepsCredentials
    BY <2>1, <2>2, NothingQueued DEF LInv
  <2>5. Cutting'
    BY <2>1, <2>2, <2>4, CutSteady DEF LInv
  <2>6. MailOK'
    BY <2>1, <2>2, MailSame DEF LInv
  <2> QED
    BY <2>2, <2>3, <2>4, <2>5, <2>6 DEF LInv
<1> QED
  BY <1>1, <1>2 DEF OnTick

-----------------------------------------------------------------------------
\* The steps of control_loop and of its tasks

\* A step of a task that changes no session, no row and no password.
LEMMA Turn ==
  ASSUME LInv, UNCHANGED <<hot, routes, face, events, promised, scenario, pws, devs, cut>>,
         registrations' \in Nat, IsFiniteSet(pub'),
         NEW t \in Tasks \cup Admins, NEW k, Goto(t, k), TaskOK(t, k)',
         SlotsOK', MoreSlots, \A u \in Tasks \cup Admins : u # t => Holds(u),
         QueueOK', KeepsCredentials
  PROVE  LInv'
<1>1. FaceOK' /\ HotOK' /\ RoutesOK' /\ Steady /\ Grow
  BY RegistrySame DEF LInv, Steady
<1>2. TasksOK'
  BY <1>1, TasksMove DEF LInv
<1>3. RowsOK'
  BY DEF LInv, RowsOK
<1>4. Cutting'
  BY <1>1, CutSteady DEF LInv
<1>5. MailOK'
  BY <1>1, MailSame DEF LInv
<1> QED
  BY <1>1, <1>2, <1>3, <1>4, <1>5 DEF LInv

\* ... which sends nothing and leaves the slots alone.
LEMMA QuietTurn ==
  ASSUME LInv, UNCHANGED <<hot, routes, face, events, promised, scenario, pws, devs, cut>>,
         UNCHANGED <<pub, commands, slots, slotOf, registrations>>,
         NEW t \in Tasks \cup Admins, NEW k, Goto(t, k), TaskOK(t, k)'
  PROVE  LInv'
<1>1. SlotsOK' /\ MoreSlots /\ \A u : Holds(u)
  BY SlotsSame DEF LInv
<1>2. QueueOK' /\ KeepsCredentials
  BY GrowSame, NothingQueued DEF LInv
<1>3. registrations' \in Nat /\ IsFiniteSet(pub')
  BY DEF LInv, RowsOK
<1> QED
  BY <1>1, <1>2, <1>3, Turn

LEMMA Denied ==
  ASSUME LInv, face' = face, NEW s, drop_exact_session(s) \/ UNCHANGED <<commands, pub>>
  PROVE  QueueOK' /\ KeepsCredentials /\ IsFiniteSet(pub')
<1>1. CASE drop_exact_session(s)
  <2>1. QueueOK' /\ KeepsCredentials
    BY <1>1, GrowSame, DropQueued DEF LInv, drop_exact_session
  <2>2. IsFiniteSet(pub')
    BY <1>1, FS_Subset DEF LInv, RowsOK, drop_exact_session
  <2> QED
    BY <2>1, <2>2
<1>2. CASE UNCHANGED <<commands, pub>>
  <2>1. QueueOK' /\ KeepsCredentials
    BY <1>2, GrowSame, NothingQueued DEF LInv
  <2>2. IsFiniteSet(pub')
    BY <1>2 DEF LInv, RowsOK
  <2> QED
    BY <2>1, <2>2
<1> QED
  BY <1>1, <1>2

LEMMA StepLoop ==
  ASSUME LInv, SessionCreated \/ Closed \/ \E t \in Tasks : Spawn(t)
  PROVE  LInv'
<1>1. /\ UNCHANGED <<hot, routes, face, promised, scenario, pws, devs, cut>>
      /\ UNCHANGED <<commands, slots, slotOf, registrations>>
      /\ events # <<>> /\ events' = Tail(events)
  BY DEF SessionCreated, Closed, Spawn, EventOnly, Event, engine, limits
<1>2. FaceOK' /\ HotOK' /\ RoutesOK' /\ Steady /\ Grow
  BY <1>1, RegistrySame DEF LInv, Steady
<1>3. MailOK' /\ EventOK(Head(events))
  BY <1>1, <1>2, MailTaken DEF LInv
<1>4. QueueOK' /\ KeepsCredentials
  BY <1>1, <1>2, NothingQueued DEF LInv
<1>5. SlotsOK' /\ MoreSlots /\ \A u : Holds(u)
  BY <1>1, SlotsSame DEF LInv
<1>6. Cutting'
  BY <1>1, <1>2, <1>4, CutSteady DEF LInv
<1>7. IsFiniteSet(pub')
  <2>1. PICK s : pub' = pub \/ pub' = pub \cup {s} \/ pub' = pub \ {s}
    BY DEF SessionCreated, Closed, Spawn
  <2>2. IsFiniteSet(pub)
    BY DEF LInv, RowsOK
  <2> QED
    BY <2>1, <2>2, FS_AddElement, FS_Subset
<1>8. RowsOK'
  BY <1>1, <1>7 DEF LInv, RowsOK
<1>9. TasksOK'
  <2>1. CASE task' = task
    BY <1>2, <1>5, <2>1, TasksSame DEF LInv
  <2>2. CASE \E t \in Tasks : Spawn(t)
    <3>1. PICK t \in Tasks : Spawn(t)
      BY <2>2
    <3>2. PICK e \in {"getconf", "disconnect", "ingress"} :
            Event(e) /\ task' = [task EXCEPT ![t] = [pc |-> e, s |-> Head(events).s, r |-> Head(events).r]]
      BY <3>1 DEF Spawn
    <3>3. PICK m : m = Head(events)
      OBVIOUS
    <3>4. PICK k : k = [pc |-> e, s |-> m.s, r |-> m.r]
      OBVIOUS
    <3>5. m.ev = e /\ EventOK(m) /\ EventOK(m)'
      BY <1>2, <1>3, <3>2, <3>3, Stays DEF Event
    <3>6. k.pc = e /\ k.s = m.s /\ k.r = m.r /\ k = [pc |-> k.pc, s |-> k.s, r |-> k.r]
      BY <3>4
    <3>7. TaskOK(t, k)'
      BY <3>5, <3>6 DEF TaskOK, EventOK
    <3>8. Goto(t, k)
      BY <3>2, <3>3, <3>4 DEF Goto
    <3> QED
      BY <1>2, <1>5, <3>7, <3>8, TasksMove DEF LInv
  <2> QED
    BY <2>1, <2>2 DEF SessionCreated, Closed
<1> QED
  BY <1>2, <1>3, <1>4, <1>5, <1>6, <1>8, <1>9 DEF LInv

LEMMA StepPreliminary == ASSUME LInv, NEW t \in Tasks, Preliminary(t) PROVE LInv'
<1>1. /\ UNCHANGED <<hot, routes, face, events, promised, scenario, pws, devs, cut>>
      /\ UNCHANGED <<slots, slotOf, registrations>>
  BY DEF Preliminary, Aside, engine
<1>2. PICK k : k = task[t]
  OBVIOUS
<1>3. TaskOK(t, k) /\ k.pc = "getconf"
  BY <1>2 DEF LInv, TasksOK, Preliminary, At
<1>4. PICK n : n = [pc |-> "epoch", s |-> k.s, r |-> k.r]
  OBVIOUS
<1>5. n = [k EXCEPT !.pc = "epoch"]
  <2>1. k = [pc |-> k.pc, s |-> k.s, r |-> k.r]
    BY <1>3 DEF TaskOK
  <2> QED
    BY <1>4, <2>1
<1>6. TaskOK(t, n)'
  <2>1. Of(k.s, k.r)'
    BY <1>1, <1>3, GrowSame, Stays DEF TaskOK
  <2>2. n.pc = "epoch" /\ n.s = k.s /\ n.r = k.r /\ n = [pc |-> n.pc, s |-> n.s, r |-> n.r]
    BY <1>4
  <2> QED
    BY <2>1, <2>2 DEF TaskOK
<1>7. \E x \in {n, Idle} : Goto(t, x) /\ TaskOK(t, x)'
  BY <1>2, <1>5, <1>6, AtRest DEF Preliminary
<1>8. QueueOK' /\ KeepsCredentials /\ IsFiniteSet(pub')
  <2>1. PICK s : s = task[t].s
    OBVIOUS
  <2>2. drop_exact_session(s) \/ UNCHANGED <<commands, pub>>
    BY <2>1 DEF Preliminary, Deny
  <2> QED
    BY <1>1, <2>2, Denied
<1>9. SlotsOK' /\ MoreSlots /\ \A u : Holds(u)
  BY <1>1, SlotsSame DEF LInv
<1>a. registrations' \in Nat
  BY <1>1 DEF LInv, RowsOK
<1>b. PICK x : Goto(t, x) /\ TaskOK(t, x)'
  BY <1>7
<1> QED
  BY <1>1, <1>8, <1>9, <1>a, <1>b, Turn

LEMMA StepLookup == ASSUME LInv, NEW t \in Tasks, EpochLookup(t) PROVE LInv'
<1>1. /\ UNCHANGED <<hot, routes, face, events, promised, scenario, pws, devs, cut>>
      /\ UNCHANGED <<pub, commands, slots, slotOf, registrations>>
  BY DEF EpochLookup, Aside, engine
<1>2. PICK k : k = task[t]
  OBVIOUS
<1>3. TaskOK(t, k) /\ k.pc = "epoch"
  BY <1>2 DEF LInv, TasksOK, EpochLookup, At
<1>4. Of(k.s, k.r) /\ Of(k.s, k.r)' /\ k.r.dev \in Devices
  BY <1>1, <1>3, GrowSame, Stays, RequestsAssumption DEF TaskOK, Of
<1>5. CASE slotOf[k.r.dev] # 0
  <2>1. PICK i : i = slotOf[k.r.dev]
    OBVIOUS
  <2>2. PICK n : n = [pc |-> "lock", s |-> k.s, r |-> k.r, slot |-> i, created |-> FALSE]
    OBVIOUS
  <2>3. Goto(t, n)
    BY <1>2, <1>5, <2>1, <2>2 DEF EpochLookup
  <2>4. i \in 1 .. Len(slots')
    BY <1>1, <1>4, <1>5, <2>1 DEF LInv, SlotsOK
  <2>5. /\ n.pc = "lock" /\ n.s = k.s /\ n.r = k.r /\ n.slot = i
        /\ n = [pc |-> n.pc, s |-> n.s, r |-> n.r, slot |-> n.slot, created |-> n.created]
    BY <2>2
  <2>6. TaskOK(t, n)'
    BY <1>4, <2>4, <2>5 DEF TaskOK
  <2> QED
    BY <1>1, <2>3, <2>6, QuietTurn
<1>6. CASE slotOf[k.r.dev] = 0
  <2>1. PICK ep \in fresh_device_epoch(k.r.dev) : Goto(t, [pc |-> "insert", s |-> k.s, r |-> k.r, fresh |-> ep])
    BY <1>2, <1>6 DEF EpochLookup
  <2>2. ep \in Epoch
    BY <2>1 DEF fresh_device_epoch, LInv, RowsOK, Row, Epoch
  <2>3. PICK n : n = [pc |-> "insert", s |-> k.s, r |-> k.r, fresh |-> ep]
    OBVIOUS
  <2>4. Goto(t, n)
    BY <2>1, <2>3
  <2>5. n.pc = "insert" /\ n.s = k.s /\ n.r = k.r /\ n.fresh = ep
    BY <2>3
  <2>6. TaskOK(t, n)'
    BY <1>4, <2>2, <2>5 DEF TaskOK
  <2> QED
    BY <1>1, <2>4, <2>6, QuietTurn
<1> QED
  BY <1>5, <1>6

LEMMA StepInsert == ASSUME LInv, NEW t \in Tasks, EpochInsert(t) PROVE LInv'
<1>1. /\ UNCHANGED <<hot, routes, face, events, promised, scenario, pws, devs, cut>>
      /\ UNCHANGED <<pub, commands, registrations>>
  BY DEF EpochInsert, Aside, engine
<1>2. PICK k : k = task[t]
  OBVIOUS
<1>3. TaskOK(t, k) /\ k.pc = "insert"
  BY <1>2 DEF LInv, TasksOK, EpochInsert, At
<1>4. Of(k.s, k.r) /\ Of(k.s, k.r)' /\ k.r.dev \in Devices
  BY <1>1, <1>3, GrowSame, Stays, RequestsAssumption DEF TaskOK, Of
<1>5. CASE slotOf[k.r.dev] # 0
  <2>1. PICK i : i = slotOf[k.r.dev]
    OBVIOUS
  <2>2. PICK n : n = [pc |-> "lock", s |-> k.s, r |-> k.r, slot |-> i, created |-> FALSE]
    OBVIOUS
  <2>3. Goto(t, n) /\ slotOf' = slotOf /\ slots' = slots
    BY <1>2, <1>5, <2>1, <2>2 DEF EpochInsert
  <2>4. i \in 1 .. Len(slots')
    BY <1>4, <1>5, <2>1, <2>3 DEF LInv, SlotsOK
  <2>5. /\ n.pc = "lock" /\ n.s = k.s /\ n.r = k.r /\ n.slot = i
        /\ n = [pc |-> n.pc, s |-> n.s, r |-> n.r, slot |-> n.slot, created |-> n.created]
    BY <2>2
  <2>6. TaskOK(t, n)'
    BY <1>4, <2>4, <2>5 DEF TaskOK
  <2> QED
    BY <1>1, <2>3, <2>6, QuietTurn
<1>6. CASE slotOf[k.r.dev] = 0
  <2>1. PICK i, d : i = Len(slots) + 1 /\ d = k.r.dev
    OBVIOUS
  <2>2. PICK n, x : /\ n = [pc |-> "lock", s |-> k.s, r |-> k.r, slot |-> i, created |-> TRUE]
                    /\ x = [ep |-> k.fresh, holder |-> None]
    OBVIOUS
  <2>3. Goto(t, n) /\ slotOf' = [slotOf EXCEPT ![d] = i] /\ slots' = Append(slots, x)
    BY <1>2, <1>6, <2>1, <2>2 DEF EpochInsert
  <2>4. x \in Slot
    BY <1>3, <2>2 DEF TaskOK, Slot
  <2>5. /\ Len(slots) \in Nat /\ slots' \in Seq(Slot) /\ Len(slots') = Len(slots) + 1 /\ slots'[i] = x
        /\ \A j \in 1 .. Len(slots) : slots'[j] = slots[j]
    BY <2>1, <2>3, <2>4 DEF LInv, SlotsOK
  <2>6. /\ slotOf' \in [Devices -> Nat] /\ slotOf'[d] = i /\ i \in Nat /\ i # 0
        /\ \A e \in Devices : e # d => slotOf'[e] = slotOf[e]
    BY <1>4, <2>1, <2>3, <2>5 DEF LInv, SlotsOK
  <2>7. \A e \in Devices : slotOf[e] \in Nat /\ slotOf[e] <= Len(slots)
    BY DEF LInv, SlotsOK
  <2>8. SlotsOK'
    <3>1. \A e \in Devices : slotOf'[e] <= Len(slots')
      BY <2>1, <2>5, <2>6, <2>7
    <3>2. \A e, f \in Devices : slotOf'[e] = slotOf'[f] /\ slotOf'[e] # 0 => e = f
      <4>1. \A e \in Devices : e # d => slotOf'[e] # i
        BY <2>1, <2>5, <2>6, <2>7
      <4> QED
        BY <2>6, <4>1 DEF LInv, SlotsOK
    <3> QED
      BY <2>5, <2>6, <3>1, <3>2 DEF SlotsOK
  <2>9. MoreSlots
    BY <2>5 DEF MoreSlots
  <2>a. ASSUME NEW u \in Tasks \cup Admins PROVE Holds(u)
    <3>1. PICK y : y = task[u]
      OBVIOUS
    <3>2. TaskOK(u, y)
      BY <3>1 DEF LInv, TasksOK
    <3>3. ASSUME At(u, "admit") PROVE slotOf'[y.r.dev] = slotOf[y.r.dev]
      <4>1. y.pc = "admit" /\ y.slot \in 1 .. Len(slots) /\ slotOf[y.r.dev] = y.slot /\ y.r.dev \in Devices
        BY <3>1, <3>2, <3>3, RequestsAssumption DEF At, TaskOK, Of
      <4>2. slotOf[y.r.dev] # 0
        BY <2>5, <4>1
      <4>3. y.r.dev # d
        BY <1>6, <2>1, <4>2
      <4> QED
        BY <2>6, <4>1, <4>3
    <3> QED
      BY <2>5, <3>1, <3>3 DEF Holds
  <2>b. /\ n.pc = "lock" /\ n.s = k.s /\ n.r = k.r /\ n.slot = i
        /\ n = [pc |-> n.pc, s |-> n.s, r |-> n.r, slot |-> n.slot, created |-> n.created]
    BY <2>2
  <2>c. i \in 1 .. Len(slots')
    BY <2>1, <2>5
  <2>d. TaskOK(t, n)'
    BY <1>4, <2>b, <2>c DEF TaskOK
  <2>e. QueueOK' /\ KeepsCredentials
    BY <1>1, GrowSame, NothingQueued DEF LInv
  <2>f. registrations' \in Nat /\ IsFiniteSet(pub')
    BY <1>1 DEF LInv, RowsOK
  <2> QED
    BY <1>1, <2>3, <2>8, <2>9, <2>a, <2>d, <2>e, <2>f, Turn
<1> QED
  BY <1>5, <1>6

\* A task takes the lock of a slot that is still the one in the table, as next.
LEMMA StepLocked ==
  ASSUME LInv, NEW t \in Tasks, NEW k, k = task[t], NEW n,
         UNCHANGED <<hot, routes, face, events, promised, scenario, pws, devs, cut>>,
         UNCHANGED <<pub, commands, slotOf, registrations>>,
         k.slot \in 1 .. Len(slots), slots[k.slot].holder = None,
         slots' = [slots EXCEPT ![k.slot].holder = t], Goto(t, n),
         n = [k EXCEPT !.pc = n.pc], TaskOK(t, k),
         \/ k.pc = "lock" /\ n.pc = "admit" /\ slotOf[k.r.dev] = k.slot
         \/ k.pc = "dlock" /\ n.pc = "dcheck"
  PROVE  LInv'
<1>1. PICK i : i = k.slot
  OBVIOUS
<1>2. PICK y \in Slot : y = slots[i]
  BY <1>1 DEF LInv, SlotsOK
<1>3. PICK x : x = [y EXCEPT !.holder = t]
  OBVIOUS
<1>4. x \in Slot /\ x.holder = t
  BY <1>2, <1>3 DEF Slot
<1>5. slots' = [slots EXCEPT ![i] = x] /\ i \in 1 .. Len(slots)
  BY <1>1, <1>2, <1>3
<1>6. /\ SlotsOK' /\ MoreSlots /\ Len(slots') = Len(slots) /\ slots'[i] = x
      /\ \A u : (slots[i].holder = u => x.holder = u) => Holds(u)
  <2>1. SlotsOK /\ slotOf' = slotOf
    BY DEF LInv
  <2> QED
    BY <1>4, <1>5, <2>1, SlotChanged, ZenonT(60)
<1>7. \A u \in Tasks \cup Admins : Holds(u)
  <2>1. \A u \in Tasks \cup Admins : slots[i].holder # u
    BY <1>1, TasksAssumption DEF None
  <2> QED
    BY <1>6, <2>1
<1>8. TaskOK(t, n)'
  <2>1. CASE k.pc = "lock"
    <3>1. k = [pc |-> k.pc, s |-> k.s, r |-> k.r, slot |-> k.slot, created |-> k.created]
      BY <2>1 DEF TaskOK
    <3>2. /\ n.pc = "admit" /\ n.s = k.s /\ n.r = k.r /\ n.slot = k.slot /\ n.created = k.created
          /\ n = [pc |-> n.pc, s |-> n.s, r |-> n.r, slot |-> n.slot, created |-> n.created]
          /\ slotOf[k.r.dev] = k.slot
      BY <2>1, <3>1
    <3>3. Of(k.s, k.r)'
      BY <2>1, GrowSame, Stays DEF TaskOK
    <3>4. n.slot \in 1 .. Len(slots') /\ slots'[n.slot].holder = t /\ slotOf'[n.r.dev] = n.slot
      BY <1>1, <1>4, <1>5, <1>6, <3>2
    <3> QED
      BY <3>2, <3>3, <3>4 DEF TaskOK
  <2>2. CASE k.pc = "dlock"
    <3>1. k = [pc |-> k.pc, s |-> k.s, r |-> k.r, slot |-> k.slot]
      BY <2>2 DEF TaskOK
    <3>2. /\ n.pc = "dcheck" /\ n.s = k.s /\ n.r = k.r /\ n.slot = k.slot
          /\ n = [pc |-> n.pc, s |-> n.s, r |-> n.r, slot |-> n.slot]
      BY <2>2, <3>1
    <3>3. k.s \in Sessions' /\ k.r.dev \in Devices
      BY <2>2 DEF TaskOK, Sessions
    <3>4. n.slot \in 1 .. Len(slots') /\ slots'[n.slot].holder = t
      BY <1>1, <1>4, <1>5, <1>6, <3>2
    <3> QED
      BY <3>2, <3>3, <3>4 DEF TaskOK
  <2> QED
    BY <2>1, <2>2
<1>9. QueueOK' /\ KeepsCredentials
  BY GrowSame, NothingQueued DEF LInv
<1>a. registrations' \in Nat /\ IsFiniteSet(pub')
  BY DEF LInv, RowsOK
<1> QED
  BY <1>6, <1>7, <1>8, <1>9, <1>a, Turn

LEMMA StepLock == ASSUME LInv, NEW t \in Tasks, EpochLock(t) PROVE LInv'
<1>1. /\ UNCHANGED <<hot, routes, face, events, promised, scenario, pws, devs, cut>>
      /\ UNCHANGED <<pub, commands, slotOf, registrations>>
  BY DEF EpochLock, Aside, engine
<1>2. PICK k : k = task[t]
  OBVIOUS
<1>3. TaskOK(t, k) /\ k.pc = "lock" /\ slots[k.slot].holder = None
  BY <1>2 DEF LInv, TasksOK, EpochLock, At
<1>4. k.slot \in 1 .. Len(slots) /\ k = [pc |-> k.pc, s |-> k.s, r |-> k.r, slot |-> k.slot, created |-> k.created]
  BY <1>3 DEF TaskOK
<1>5. CASE slotOf[k.r.dev] = k.slot
  <2>1. PICK n : n = [k EXCEPT !.pc = "admit"]
    OBVIOUS
  <2>2. n.pc = "admit" /\ n = [k EXCEPT !.pc = n.pc]
    BY <1>4, <2>1
  <2>3. Goto(t, n) /\ slots' = [slots EXCEPT ![k.slot].holder = t]
    BY <1>2, <1>5, <2>1 DEF EpochLock
  <2> QED
    BY <1>1, <1>2, <1>3, <1>4, <1>5, <2>2, <2>3, StepLocked
<1>6. CASE slotOf[k.r.dev] # k.slot
  <2>1. PICK n : n = [pc |-> "epoch", s |-> k.s, r |-> k.r]
    OBVIOUS
  <2>2. Goto(t, n) /\ slots' = slots
    BY <1>2, <1>6, <2>1 DEF EpochLock
  <2>3. Of(k.s, k.r)'
    BY <1>1, <1>3, GrowSame, Stays DEF TaskOK
  <2>4. n.pc = "epoch" /\ n.s = k.s /\ n.r = k.r /\ n = [pc |-> n.pc, s |-> n.s, r |-> n.r]
    BY <2>1
  <2>5. TaskOK(t, n)'
    BY <2>3, <2>4 DEF TaskOK
  <2> QED
    BY <1>1, <2>2, <2>5, QuietTurn
<1> QED
  BY <1>5, <1>6

LEMMA StepDisconnectLock == ASSUME LInv, NEW t \in Tasks, DisconnectLock(t) PROVE LInv'
<1>1. /\ UNCHANGED <<hot, routes, face, events, promised, scenario, pws, devs, cut>>
      /\ UNCHANGED <<pub, commands, slotOf, registrations>>
  BY DEF DisconnectLock, Aside, engine
<1>2. PICK k : k = task[t]
  OBVIOUS
<1>3. TaskOK(t, k) /\ k.pc = "dlock" /\ slots[k.slot].holder = None
  BY <1>2 DEF LInv, TasksOK, DisconnectLock, At
<1>4. k.slot \in 1 .. Len(slots) /\ k = [pc |-> k.pc, s |-> k.s, r |-> k.r, slot |-> k.slot] /\ k.r.dev \in Devices
  BY <1>3 DEF TaskOK
<1>5. CASE slotOf[k.r.dev] = k.slot
  <2>1. PICK n : n = [k EXCEPT !.pc = "dcheck"]
    OBVIOUS
  <2>2. n.pc = "dcheck" /\ n = [k EXCEPT !.pc = n.pc]
    BY <1>4, <2>1
  <2>3. Goto(t, n) /\ slots' = [slots EXCEPT ![k.slot].holder = t]
    BY <1>2, <1>5, <2>1 DEF DisconnectLock
  <2> QED
    BY <1>1, <1>2, <1>3, <1>4, <2>2, <2>3, StepLocked
<1>6. CASE slotOf[k.r.dev] # k.slot /\ slotOf[k.r.dev] # 0
  <2>1. PICK i : i = slotOf[k.r.dev]
    OBVIOUS
  <2>2. PICK n : n = [k EXCEPT !.slot = i]
    OBVIOUS
  <2>3. Goto(t, n) /\ slots' = slots
    BY <1>2, <1>6, <2>1, <2>2 DEF DisconnectLock
  <2>4. i \in 1 .. Len(slots')
    BY <1>4, <1>6, <2>1, <2>3 DEF LInv, SlotsOK
  <2>5. k.s \in Sessions'
    BY <1>1, <1>3 DEF TaskOK, Sessions
  <2>6. n.pc = "dlock" /\ n.s = k.s /\ n.r = k.r /\ n.slot = i /\ n = [pc |-> n.pc, s |-> n.s, r |-> n.r, slot |-> n.slot]
    BY <1>3, <1>4, <2>2
  <2>7. TaskOK(t, n)'
    BY <1>4, <2>4, <2>5, <2>6 DEF TaskOK
  <2> QED
    BY <1>1, <2>3, <2>7, QuietTurn
<1>7. CASE slotOf[k.r.dev] # k.slot /\ slotOf[k.r.dev] = 0
  <2>1. PICK n : n = Idle
    OBVIOUS
  <2>2. Goto(t, n) /\ slots' = slots
    BY <1>2, <1>7, <2>1 DEF DisconnectLock
  <2>3. TaskOK(t, n)'
    BY <2>1, AtRest
  <2> QED
    BY <1>1, <2>2, <2>3, QuietTurn
<1> QED
  BY <1>5, <1>6, <1>7

LEMMA StepRefuse ==
  ASSUME LInv, NEW t \in Tasks, At(t, "admit"), Refuse(t), Aside,
         UNCHANGED <<credsnap, pws, cut, registrations, changes, idles>>
  PROVE  LInv'
<1>1. UNCHANGED <<hot, routes, face, events, promised, scenario, pws, devs, cut, registrations>>
  BY DEF Refuse, Aside, engine
<1>2. PICK k : k = task[t]
  OBVIOUS
<1>3. TaskOK(t, k) /\ k.pc = "admit"
  BY <1>2 DEF LInv, TasksOK, At
<1>4. PICK i, d : i = k.slot /\ d = k.r.dev
  OBVIOUS
<1>5. i \in 1 .. Len(slots) /\ slots[i].holder = t /\ slotOf[d] = i /\ d \in Devices
  BY <1>3, <1>4, RequestsAssumption DEF TaskOK, Of
<1>6. slots' = Unlocked(i) /\ \E z \in {0, slotOf[d]} : slotOf' = [slotOf EXCEPT ![d] = z]
  BY <1>2, <1>4 DEF Refuse
<1>7. PICK y \in Slot : y = slots[i]
  BY <1>5 DEF LInv, SlotsOK
<1>8. PICK x : x = [y EXCEPT !.holder = None]
  OBVIOUS
<1>9. x \in Slot /\ slots' = [slots EXCEPT ![i] = x]
  BY <1>6, <1>7, <1>8 DEF Slot, Unlocked
<1>a. /\ Len(slots) \in Nat /\ slots' \in Seq(Slot) /\ Len(slots') = Len(slots)
      /\ \A j \in 1 .. Len(slots) : j # i => slots'[j] = slots[j]
  BY <1>5, <1>9 DEF LInv, SlotsOK
<1>b. MoreSlots
  BY <1>a DEF MoreSlots
<1>c. PICK z \in {0, slotOf[d]} : slotOf' = [slotOf EXCEPT ![d] = z]
  BY <1>6
<1>d. /\ slotOf' \in [Devices -> Nat] /\ slotOf'[d] \in {0, slotOf[d]}
      /\ \A e \in Devices : e # d => slotOf'[e] = slotOf[e]
  BY <1>5, <1>c DEF LInv, SlotsOK
<1>e. SlotsOK'
  <2>1. \A e \in Devices : slotOf'[e] = 0 \/ slotOf'[e] = slotOf[e]
    BY <1>d
  <2>2. \A e \in Devices : slotOf'[e] <= Len(slots')
    BY <1>a, <2>1 DEF LInv, SlotsOK
  <2>3. \A e, f \in Devices : slotOf'[e] = slotOf'[f] /\ slotOf'[e] # 0 => e = f
    BY <2>1 DEF LInv, SlotsOK
  <2> QED
    BY <1>a, <1>d, <2>2, <2>3 DEF SlotsOK
<1>f. ASSUME NEW u \in Tasks \cup Admins, u # t PROVE Holds(u)
  <2>1. PICK v : v = task[u]
    OBVIOUS
  <2>2. TaskOK(u, v)
    BY <2>1 DEF LInv, TasksOK
  <2>3. ASSUME At(u, "admit") PROVE slotOf'[v.r.dev] = slotOf[v.r.dev]
    <3>1. /\ v.pc = "admit" /\ slots[v.slot].holder = u /\ slotOf[v.r.dev] = v.slot /\ v.r.dev \in Devices
      BY <2>1, <2>2, <2>3, RequestsAssumption DEF At, TaskOK, Of
    <3>2. v.r.dev # d
      BY <1>5, <1>f, <3>1
    <3> QED
      BY <1>d, <3>1, <3>2
  <2>4. \A j \in 1 .. Len(slots) : slots[j].holder = u => slots'[j].holder = u
    BY <1>5, <1>a, <1>f
  <2> QED
    BY <2>1, <2>3, <2>4 DEF Holds
<1>g. PICK n : n = Idle
  OBVIOUS
<1>h. Goto(t, n) /\ TaskOK(t, n)'
  BY <1>g, AtRest DEF Refuse
<1>i. QueueOK' /\ KeepsCredentials /\ IsFiniteSet(pub')
  <2>1. PICK s : s = task[t].s
    OBVIOUS
  <2>2. drop_exact_session(s) \/ UNCHANGED <<commands, pub>>
    BY <2>1 DEF Refuse, Deny
  <2> QED
    BY <1>1, <2>2, Denied
<1>j. registrations' \in Nat
  BY <1>1 DEF LInv, RowsOK
<1> QED
  BY <1>1, <1>b, <1>e, <1>f, <1>h, <1>i, <1>j, Turn

\* What handle_getconf is to send.
LEMMA OutMade ==
  ASSUME NEW s, NEW r, Of(s, r)', face'[s].worker = r.worker, NEW o,
         o = <<[cmd |-> "update", s |-> s, dev |-> r.dev, ep |-> r.ep, worker |-> r.worker, reg |-> 0],
               [cmd |-> "auth", s |-> s, dev |-> r.dev, ep |-> r.ep, worker |-> r.worker, reg |-> 0],
               [cmd |-> "tunconf", s |-> s, dev |-> r.dev, ep |-> r.ep, worker |-> r.worker, reg |-> 0],
               [cmd |-> "activate", s |-> s, dev |-> r.dev, ep |-> r.ep, worker |-> r.worker, reg |-> 0]>>
  PROVE  OutOK(o)'
<1>1. PICK a, b, c, d : /\ a = [cmd |-> "update", s |-> s, dev |-> r.dev, ep |-> r.ep, worker |-> r.worker, reg |-> 0]
                        /\ b = [cmd |-> "auth", s |-> s, dev |-> r.dev, ep |-> r.ep, worker |-> r.worker, reg |-> 0]
                        /\ c = [cmd |-> "tunconf", s |-> s, dev |-> r.dev, ep |-> r.ep, worker |-> r.worker, reg |-> 0]
                        /\ d = [cmd |-> "activate", s |-> s, dev |-> r.dev, ep |-> r.ep, worker |-> r.worker, reg |-> 0]
  OBVIOUS
<1>2. o = <<a, b, c, d>>
  BY <1>1
<1>3. o[1] = a /\ o[2] = b /\ o[3] = c /\ o[4] = d /\ Len(o) = 4 /\ o \in Seq({a, b, c, d})
  BY <1>2
<1>4. IsSeq(o)
  BY <1>3, AnySeq
<1>5. s \in Sessions' /\ r.dev = face'[s].dev /\ r.ep = face'[s].ep /\ r.worker \in Nat /\ face'[s].worker # 0
  BY RequestsAssumption DEF Of
<1>6. CommandOK(a)' /\ CommandOK(b)' /\ CommandOK(c)'
  BY <1>1, <1>5 DEF CommandOK
<1>7. \A i \in 1 .. 3 : CommandOK(o[i])'
  <2>1. \A i \in 1 .. 3 : i = 1 \/ i = 2 \/ i = 3
    OBVIOUS
  <2> QED
    BY <1>3, <1>6, <2>1
<1>8. /\ o[1].cmd = "update" /\ o[2].cmd = "auth" /\ o[3].cmd = "tunconf"
      /\ o[3].dev = o[2].dev /\ o[3].ep = o[2].ep /\ o[3].s = s
      /\ o[4] = [cmd |-> "activate", s |-> o[3].s, dev |-> o[3].dev, ep |-> o[3].ep, worker |-> o[4].worker, reg |-> 0]
      /\ o[4].worker = r.worker
  BY <1>1, <1>3
<1> QED
  BY <1>3, <1>4, <1>5, <1>7, <1>8 DEF OutOK

LEMMA StepAdmit ==
  ASSUME LInv, NEW t \in Tasks, At(t, "admit"), Admit(t), Aside, getconf_credential_access(task[t].r),
         UNCHANGED <<credsnap, pws, cut, registrations, changes, idles>>
  PROVE  LInv'
<1>1. UNCHANGED <<hot, routes, events, promised, scenario, pws, cut, registrations, slotOf>>
  BY DEF Admit, Aside, engine
<1>2. PICK k : k = task[t]
  OBVIOUS
<1>3. TaskOK(t, k) /\ k.pc = "admit"
  BY <1>2 DEF LInv, TasksOK, At
<1>4. PICK i, s, r : i = k.slot /\ s = k.s /\ r = k.r
  OBVIOUS
<1>5. i \in 1 .. Len(slots) /\ slots[i].holder = t /\ Of(s, r)
  BY <1>3, <1>4 DEF TaskOK
<1>6. r \in Requests /\ r.dev \in Devices /\ r.pw \in Passwords /\ r.ep \in Epoch /\ s \in Sessions
  BY <1>5, RequestsAssumption DEF Of, Epoch, Requests
<1>7. /\ FaceOK' /\ HotOK' /\ RoutesOK' /\ Grow /\ face'[s].worker = r.worker
      /\ \A u \in Sessions : u # s => face'[u].worker = face[u].worker
  <2>1. face' = [face EXCEPT ![s].dev = r.dev, ![s].ep = r.ep, ![s].worker = r.worker]
    BY <1>2, <1>4 DEF Admit
  <2> QED
    BY <1>1, <1>5, <2>1, FaceAdmitted DEF LInv
<1>8. PICK y \in Slot : y = slots[i]
  BY <1>5 DEF LInv, SlotsOK
<1>9. PICK x : x = [y EXCEPT !.ep = r.ep]
  OBVIOUS
<1>a. x \in Slot /\ x.holder = slots[i].holder /\ slots' = [slots EXCEPT ![i] = x]
  BY <1>2, <1>4, <1>6, <1>8, <1>9 DEF Slot, Admit, Admitted
<1>b. /\ SlotsOK' /\ MoreSlots /\ Len(slots') = Len(slots) /\ slots'[i] = x
      /\ \A u : Holds(u)
  <2>1. SlotsOK /\ slotOf' = slotOf
    BY <1>1 DEF LInv
  <2> QED
    BY <1>5, <1>a, <2>1, SlotChanged, ZenonT(60)
<1>c. PICK o, ch : /\ o = <<[cmd |-> "update", s |-> s, dev |-> r.dev, ep |-> r.ep, worker |-> r.worker, reg |-> 0],
                            [cmd |-> "auth", s |-> s, dev |-> r.dev, ep |-> r.ep, worker |-> r.worker, reg |-> 0],
                            [cmd |-> "tunconf", s |-> s, dev |-> r.dev, ep |-> r.ep, worker |-> r.worker, reg |-> 0],
                            [cmd |-> "activate", s |-> s, dev |-> r.dev, ep |-> r.ep, worker |-> r.worker, reg |-> 0]>>
                   /\ Goto(t, [pc |-> "send", slot |-> i, changed |-> ch, out |-> o])
  BY <1>2, <1>4 DEF Admit
<1>d. OutOK(o)'
  <2>1. Of(s, r)'
    BY <1>5, <1>7, Stays
  <2> QED
    BY <1>7, <1>c, <2>1, OutMade
<1>e. PICK n : n = [pc |-> "send", slot |-> i, changed |-> ch, out |-> o]
  OBVIOUS
<1>f. Goto(t, n) /\ TaskOK(t, n)'
  <2>1. n.pc = "send" /\ n.slot = i /\ n.out = o
    BY <1>e
  <2>2. i \in 1 .. Len(slots') /\ slots'[i].holder = t
    BY <1>5, <1>a, <1>b
  <2> QED
    BY <1>c, <1>d, <1>e, <2>1, <2>2 DEF TaskOK
<1>g. TasksOK'
  BY <1>7, <1>b, <1>f, TasksMove DEF LInv
<1>h. PICK R : R = Purged(s, r)
  OBVIOUS
<1>i. IsFiniteSet(pub) /\ R \subseteq pub
  BY <1>h DEF LInv, RowsOK, Purged
<1>j. QueueOK' /\ KeepsCredentials /\ IsFiniteSet(pub')
  <2>1. IsFiniteSet(R) /\ IsFiniteSet(pub \ R)
    BY <1>i, FS_Subset
  <2>2. pub' = pub \ R /\ \E drops \in ForEach(R, DropSession) : command(drops)
    BY <1>2, <1>4, <1>h DEF Admit
  <2> QED
    BY <1>7, <2>1, <2>2, DropsQueued DEF LInv
<1>k. RowsOK'
  <2>1. PICK row : row = [pw |-> r.pw, ep |-> r.ep]
    OBVIOUS
  <2>2. row \in Row
    BY <1>6, <2>1 DEF Row
  <2>3. devs' = With(devs, r.dev, row)
    BY <1>2, <1>4, <2>1 DEF Admit
  <2>4. devs' \in [DOMAIN devs' -> Row]
    BY <2>2, <2>3 DEF With, LInv, RowsOK
  <2> QED
    BY <1>1, <1>j, <2>4 DEF LInv, RowsOK
<1>l. Cutting'
  <2>1. r.pw \notin cut
    BY <1>2, <1>4 DEF LInv, Cutting, getconf_credential_access, Active
  <2>2. \A u \in DOMAIN hot' : hot'[u].pw \in cut' /\ face'[u].worker # 0 =>
           u \in DOMAIN hot /\ hot[u].pw = hot'[u].pw /\ face[u].worker # 0
    <3>1. s \in DOMAIN hot => hot[s].pw = r.pw
      BY <1>5 DEF Of, LInv, HotOK, SessionOK
    <3> QED
      BY <1>1, <1>7, <2>1, <3>1 DEF LInv, HotOK
  <2> QED
    BY <1>1, <1>j, <2>2, CutStays DEF LInv
<1>m. MailOK'
  BY <1>1, <1>7, MailSame DEF LInv
<1> QED
  BY <1>7, <1>b, <1>g, <1>j, <1>k, <1>l, <1>m DEF LInv

LEMMA StepDecide == ASSUME LInv, NEW t \in Tasks, Decide(t) PROVE LInv'
<1>1. CASE getconf_credential_access(task[t].r) /\ Admits(slots[task[t].slot].ep, task[t].r)
  <2>1. At(t, "admit") /\ Admit(t) /\ Aside /\ UNCHANGED <<credsnap, pws, cut, registrations, changes, idles>>
    BY <1>1 DEF Decide
  <2> QED
    BY <1>1, <2>1, StepAdmit
<1>2. CASE ~(getconf_credential_access(task[t].r) /\ Admits(slots[task[t].slot].ep, task[t].r))
  <2>1. At(t, "admit") /\ Refuse(t) /\ Aside /\ UNCHANGED <<credsnap, pws, cut, registrations, changes, idles>>
    BY <1>2 DEF Decide
  <2> QED
    BY <2>1, StepRefuse
<1> QED
  BY <1>1, <1>2

LEMMA StepWriteTimeout == ASSUME LInv, NEW t \in Tasks, WriteTimeout(t) PROVE LInv'
<1>1. /\ UNCHANGED <<hot, routes, face, events, promised, scenario, pws, devs, cut>>
      /\ UNCHANGED <<pub, commands, slotOf, registrations>>
  BY DEF WriteTimeout, Aside, engine
<1>2. PICK k, i : k = task[t] /\ i = k.slot
  OBVIOUS
<1>3. TaskOK(t, k) /\ k.pc = "admit"
  BY <1>2 DEF LInv, TasksOK, At, WriteTimeout
<1>4. i \in 1 .. Len(slots) /\ slots[i].holder = t /\ slots' = Unlocked(i)
  BY <1>2, <1>3 DEF TaskOK, WriteTimeout
<1>5. SlotsOK' /\ MoreSlots /\ \A u : u # t => Holds(u)
  BY <1>1, <1>4, SlotUnlocked DEF LInv
<1>6. PICK n : n = Idle
  OBVIOUS
<1>7. Goto(t, n) /\ TaskOK(t, n)'
  BY <1>6, AtRest DEF WriteTimeout
<1>8. QueueOK' /\ KeepsCredentials
  BY <1>1, GrowSame, NothingQueued DEF LInv
<1>9. registrations' \in Nat /\ IsFiniteSet(pub')
  BY <1>1 DEF LInv, RowsOK
<1> QED
  BY <1>1, <1>5, <1>7, <1>8, <1>9, Turn

LEMMA StepReadTimeout == ASSUME LInv, NEW t \in Tasks, ReadTimeout(t) PROVE LInv'
<1>1. /\ UNCHANGED <<hot, routes, face, events, promised, scenario, pws, devs, cut>>
      /\ UNCHANGED <<slots, slotOf, registrations>>
  BY DEF ReadTimeout, Aside, engine
<1>2. PICK n : n = Idle
  OBVIOUS
<1>3. Goto(t, n) /\ TaskOK(t, n)'
  BY <1>2, AtRest DEF ReadTimeout
<1>4. SlotsOK' /\ MoreSlots /\ \A u : Holds(u)
  BY <1>1, SlotsSame DEF LInv
<1>5. QueueOK' /\ KeepsCredentials /\ IsFiniteSet(pub')
  <2>1. CASE UNCHANGED <<commands, pub>>
    BY <1>1, <2>1, Denied
  <2>2. CASE commands' = Append(commands, DropSession(task[t].s)) /\ pub' = pub \ {task[t].s}
    <3>1. PICK c : c = DropSession(task[t].s)
      OBVIOUS
    <3>2. CommandOK(c)'
      BY <3>1 DEF CommandOK, DropSession
    <3>3. QueueOK' /\ KeepsCredentials
      BY <1>1, <2>2, <3>1, <3>2, GrowSame, OneQueued DEF LInv
    <3>4. IsFiniteSet(pub')
      BY <2>2, FS_Subset DEF LInv, RowsOK
    <3> QED
      BY <3>3, <3>4
  <2> QED
    BY <2>1, <2>2 DEF ReadTimeout
<1>6. registrations' \in Nat
  BY <1>1 DEF LInv, RowsOK
<1> QED
  BY <1>1, <1>3, <1>4, <1>5, <1>6, Turn

\* The commands of handle_getconf, once its registration has a number.
LEMMA OutSent ==
  ASSUME NEW o, OutOK(o), NEW n \in Nat, n # 0, NEW p, DOMAIN p = 1 .. 4,
         p[1] = o[1], p[2] = o[2], p[3] = o[3],
         p[4].cmd = "activate", p[4].s = o[4].s, p[4].worker = o[4].worker, p[4].reg = n
  PROVE  p[4].s \in Sessions /\ \A j \in DOMAIN p : CommandOK(p[j])
<1>1. CommandOK(o[1]) /\ CommandOK(o[2]) /\ CommandOK(o[3]) /\ o[3].cmd = "tunconf"
  BY DEF OutOK
<1>2. PICK x, z : x = o[4] /\ z = o[3]
  OBVIOUS
<1>3. x = [cmd |-> "activate", s |-> z.s, dev |-> z.dev, ep |-> z.ep, worker |-> x.worker, reg |-> 0]
      /\ x.worker \in Nat /\ face[z.s].worker # 0
  BY <1>2 DEF OutOK
<1>4. x.s = z.s /\ z.s \in Sessions
  BY <1>1, <1>2, <1>3 DEF CommandOK
<1>5. CommandOK(p[4])
  BY <1>2, <1>3, <1>4 DEF CommandOK
<1>6. \A j \in 1 .. 4 : j = 1 \/ j = 2 \/ j = 3 \/ j = 4
  OBVIOUS
<1> QED
  BY <1>1, <1>2, <1>4, <1>5, <1>6

LEMMA StepSend == ASSUME LInv, NEW t \in Tasks, SendCommands(t) PROVE LInv'
<1>1. UNCHANGED <<hot, routes, events, promised, scenario, pws, devs, cut, pub, slotOf>>
  BY DEF SendCommands, Aside, engine
<1>2. PICK k, i, o : k = task[t] /\ i = k.slot /\ o = k.out
  OBVIOUS
<1>3. TaskOK(t, k) /\ k.pc = "send"
  BY <1>2 DEF LInv, TasksOK, At, SendCommands
<1>4. i \in 1 .. Len(slots) /\ slots[i].holder = t /\ slots' = Unlocked(i) /\ OutOK(o)
  BY <1>2, <1>3 DEF TaskOK, SendCommands
<1>5. SlotsOK' /\ MoreSlots /\ \A u : u # t => Holds(u)
  BY <1>1, <1>4, SlotUnlocked DEF LInv
<1>6. PICK n : n = registrations + 1
  OBVIOUS
<1>7. n \in Nat /\ n # 0 /\ registrations \in Nat
  BY <1>6 DEF LInv, RowsOK
<1>8. PICK p : p = [o EXCEPT ![4].reg = n]
  OBVIOUS
<1>9. /\ IsSeq(p) /\ Len(p) = 4 /\ p[4].s \in Sessions
      /\ \A j \in DOMAIN p : CommandOK(p[j])
  <2>1. PICK x : x = o[4]
    OBVIOUS
  <2>2. PICK y : y = [x EXCEPT !.reg = n]
    OBVIOUS
  <2>3. p = [o EXCEPT ![4] = y]
    BY <1>8, <2>1, <2>2
  <2>4. x = [cmd |-> "activate", s |-> x.s, dev |-> x.dev, ep |-> x.ep, worker |-> x.worker, reg |-> 0]
    BY <1>4, <2>1 DEF OutOK
  <2>5. y.cmd = "activate" /\ y.s = x.s /\ y.worker = x.worker /\ y.reg = n
    BY <2>2, <2>4
  <2>6. o \in Seq({o[j] : j \in DOMAIN o}) /\ Len(o) = 4 /\ DOMAIN o = 1 .. 4
    BY <1>4 DEF OutOK, IsSeq
  <2>7. PICK S : o \in Seq(S) /\ y \in S
    <3>1. PICK T : T = {o[j] : j \in DOMAIN o} /\ o \in Seq(T)
      BY <2>6
    <3>2. o \in Seq(T \cup {y}) /\ y \in T \cup {y}
      BY <3>1
    <3> QED
      BY <3>2
  <2>8. DOMAIN p = 1 .. 4 /\ p[4] = y /\ p[1] = o[1] /\ p[2] = o[2] /\ p[3] = o[3]
    BY <2>3, <2>6
  <2>9. p \in Seq(S) /\ Len(p) = 4
    <3>1. PICK c : c = 4
      OBVIOUS
    <3>2. c \in 1 .. Len(o) /\ p = [o EXCEPT ![c] = y]
      BY <2>3, <2>6, <3>1
    <3>3. p \in Seq(S) /\ Len(p) = Len(o)
      BY <2>7, <3>2
    <3>4. Len(o) = 4
      BY <2>6
    <3> QED
      BY <3>3, <3>4
  <2>a. IsSeq(p)
    BY <2>9, AnySeq
  <2>b. p[4].s \in Sessions /\ \A j \in DOMAIN p : CommandOK(p[j])
    BY <1>4, <1>7, <2>1, <2>5, <2>8, OutSent
  <2> QED
    BY <2>9, <2>a, <2>b
<1>a. PICK s : s = p[4].s
  OBVIOUS
<1>b. /\ registrations' \in Nat
      /\ face' = face \/ face' = [face EXCEPT ![s].has = TRUE]
      /\ \/ commands' = commands \o p
         \/ \E sent \in 0 .. 3 : commands' = commands \o SubSeq(p, 1, sent)
      /\ \E m \in {Idle, [pc |-> "refresh", pw |-> None]} : Goto(t, m)
  BY <1>2, <1>6, <1>7, <1>8, <1>a DEF SendCommands, FetchAddRegistration, NewRegistration
<1>c. FaceOK' /\ HotOK' /\ RoutesOK' /\ Steady /\ Grow
  <2>1. CASE face' = face
    BY <1>1, <2>1, RegistrySame DEF LInv, Steady
  <2>2. CASE face' = [face EXCEPT ![s].has = TRUE]
    BY <1>1, <1>9, <1>a, <2>2, FaceMarked DEF LInv, Steady
  <2> QED
    BY <1>b, <2>1, <2>2
<1>d. \E x : /\ IsSeq(x) /\ commands' = commands \o x
             /\ \A j \in DOMAIN x : \E q \in DOMAIN p : x[j] = p[q]
  <2>1. CASE commands' = commands \o p
    BY <1>9, <2>1
  <2>2. CASE \E sent \in 0 .. 3 : commands' = commands \o SubSeq(p, 1, sent)
    <3>1. PICK sent \in 0 .. 3 : commands' = commands \o SubSeq(p, 1, sent)
      BY <2>2
    <3>2. PICK x : x = SubSeq(p, 1, sent)
      OBVIOUS
    <3>3. sent \in Nat /\ sent <= Len(p)
      BY <1>9
    <3>4. IsSeq(x) /\ \A j \in DOMAIN x : \E q \in DOMAIN p : x[j] = p[q]
      <4>1. PICK S : p \in Seq(S)
        BY <1>9 DEF IsSeq
      <4>2. CASE sent = 0
        <5>1. x = <<>>
          BY <3>2, <4>1, <4>2
        <5> QED
          BY <5>1, Singles
      <4>3. CASE sent # 0
        <5>1. x \in Seq(S) /\ DOMAIN x = 1 .. sent /\ \A j \in 1 .. sent : x[j] = p[j] /\ j \in DOMAIN p
          BY <3>2, <3>3, <4>1, <4>3
        <5>2. IsSeq(x)
          BY <5>1, AnySeq
        <5> QED
          BY <5>1, <5>2
      <4> QED
        BY <4>2, <4>3
    <3> QED
      BY <3>1, <3>2, <3>4
  <2> QED
    BY <1>b, <2>1, <2>2
<1>e. QueueOK' /\ KeepsCredentials
  <2>1. PICK x : /\ IsSeq(x) /\ commands' = commands \o x
                 /\ \A j \in DOMAIN x : \E q \in DOMAIN p : x[j] = p[q]
    BY <1>d
  <2>2. \A q \in DOMAIN p : CommandOK(p[q])'
    BY <1>9, <1>c, Stays
  <2>3. \A j \in DOMAIN x : CommandOK(x[j])'
    BY <2>1, <2>2
  <2> QED
    BY <1>c, <2>1, <2>3, SomeQueued DEF LInv
<1>f. PICK m : Goto(t, m) /\ m \in {Idle, [pc |-> "refresh", pw |-> None]}
  BY <1>b
<1>g. TaskOK(t, m)'
  <2>1. m.pc = "idle" \/ m.pc = "refresh"
    BY <1>f DEF Idle
  <2> QED
    BY <2>1 DEF TaskOK
<1>h. TasksOK'
  BY <1>5, <1>c, <1>f, <1>g, TasksMove DEF LInv
<1>i. RowsOK'
  BY <1>1, <1>b DEF LInv, RowsOK
<1>j. Cutting'
  BY <1>1, <1>c, <1>e, CutSteady DEF LInv
<1>k. MailOK'
  BY <1>1, <1>c, MailSame DEF LInv
<1> QED
  BY <1>5, <1>c, <1>e, <1>h, <1>i, <1>j, <1>k DEF LInv

LEMMA StepIngressTask == ASSUME LInv, NEW t \in Tasks, Ingress(t) PROVE LInv'
<1>1. /\ UNCHANGED <<hot, routes, face, events, promised, scenario, pws, devs, cut>>
      /\ UNCHANGED <<slots, slotOf, registrations>>
  BY DEF Ingress, Aside, engine
<1>2. PICK k : k = task[t]
  OBVIOUS
<1>3. TaskOK(t, k) /\ k.pc = "ingress"
  BY <1>2 DEF LInv, TasksOK, At, Ingress
<1>4. k = [pc |-> k.pc, s |-> k.s, r |-> k.r] /\ k.s \in Sessions /\ k.r.dev \in Devices
  BY <1>3 DEF TaskOK
<1>5. PICK n : n = [k EXCEPT !.pc = "ensure"]
  OBVIOUS
<1>6. TaskOK(t, n)'
  <2>1. n.pc = "ensure" /\ n.s = k.s /\ n.r = k.r
    BY <1>4, <1>5
  <2>2. k.s \in Sessions'
    BY <1>1, <1>4 DEF Sessions
  <2> QED
    BY <1>4, <2>1, <2>2 DEF TaskOK
<1>7. \E x \in {n, Idle} : Goto(t, x) /\ TaskOK(t, x)'
  BY <1>2, <1>5, <1>6, AtRest DEF Ingress
<1>8. PICK x : Goto(t, x) /\ TaskOK(t, x)'
  BY <1>7
<1>9. QueueOK' /\ KeepsCredentials /\ IsFiniteSet(pub')
  <2>1. PICK s : s = k.s
    OBVIOUS
  <2>2. drop_exact_session(s) \/ UNCHANGED <<commands, pub>>
    BY <1>2, <2>1 DEF Ingress
  <2> QED
    BY <1>1, <2>2, Denied
<1>a. SlotsOK' /\ MoreSlots /\ \A u : Holds(u)
  BY <1>1, SlotsSame DEF LInv
<1>b. registrations' \in Nat
  BY <1>1 DEF LInv, RowsOK
<1> QED
  BY <1>1, <1>8, <1>9, <1>a, <1>b, Turn

LEMMA StepEnsure == ASSUME LInv, NEW t \in Tasks, ensure_control_tunnel(t) PROVE LInv'
<1>1. UNCHANGED <<hot, routes, events, promised, scenario, pws, devs, cut, slots, slotOf>>
  BY DEF ensure_control_tunnel, Aside, engine
<1>2. PICK k, s, w, n : k = task[t] /\ s = k.s /\ w = face[s].worker /\ n = registrations + 1
  OBVIOUS
<1>3. TaskOK(t, k) /\ k.pc = "ensure"
  BY <1>2 DEF LInv, TasksOK, At, ensure_control_tunnel
<1>4. s \in Sessions /\ w \in Nat /\ n \in Nat \ {0} /\ registrations' = n
  <2>1. s \in Sessions
    BY <1>2, <1>3 DEF TaskOK
  <2>2. face[s] \in Face
    BY <2>1 DEF LInv, FaceOK
  <2> QED
    BY <1>2, <2>1, <2>2 DEF Face, LInv, RowsOK, ensure_control_tunnel, FetchAddRegistration, NewRegistration
<1>5. SlotsOK' /\ MoreSlots /\ \A u : Holds(u)
  BY <1>1, SlotsSame DEF LInv
<1>6. PICK x : x = Idle
  OBVIOUS
<1>7. Goto(t, x) /\ TaskOK(t, x)'
  BY <1>6, AtRest DEF ensure_control_tunnel
<1>8. CASE face' = face
  <2>1. QueueOK' /\ KeepsCredentials /\ IsFiniteSet(pub')
    <3>1. CASE w # 0 /\ UNCHANGED <<pub, losses>>
               /\ commands' = Append(commands, [cmd |-> "activate", s |-> s, worker |-> w, reg |-> n])
      <4>1. PICK c : c = [cmd |-> "activate", s |-> s, worker |-> w, reg |-> n]
        OBVIOUS
      <4>2. c.cmd = "activate" /\ c.s = s /\ c.worker = w /\ c.reg = n
        BY <4>1
      <4>3. CommandOK(c)'
        BY <1>2, <1>4, <1>8, <3>1, <4>2 DEF CommandOK, Sessions
      <4> QED
        BY <1>8, <3>1, <4>1, <4>3, GrowSame, OneQueued DEF LInv, RowsOK
    <3>2. CASE commands' \in {commands, Append(commands, DropSession(s))} /\ pub' = pub \ {s}
      <4>1. IsFiniteSet(pub')
        BY <3>2, FS_Subset DEF LInv, RowsOK
      <4>2. CASE commands' = commands
        BY <1>8, <4>1, <4>2, GrowSame, NothingQueued DEF LInv
      <4>3. CASE commands' = Append(commands, DropSession(s))
        <5>1. PICK c : c = DropSession(s)
          OBVIOUS
        <5>2. CommandOK(c)'
          BY <5>1 DEF CommandOK, DropSession
        <5> QED
          BY <1>8, <4>1, <4>3, <5>1, <5>2, GrowSame, OneQueued DEF LInv
      <4> QED
        BY <3>2, <4>2, <4>3
    <3>3. CASE drop_exact_session(s)
      BY <1>8, <3>3, Denied
    <3> QED
      BY <1>2, <3>1, <3>2, <3>3 DEF ensure_control_tunnel, NewRegistration
  <2> QED
    BY <1>1, <1>4, <1>5, <1>7, <1>8, <2>1, Turn
<1>9. CASE face' # face
  <2>1. /\ w # 0 /\ pub' = pub /\ face' = [face EXCEPT ![s].has = TRUE]
        /\ commands' = Append(commands, [cmd |-> "activate", s |-> s, worker |-> w, reg |-> n])
    BY <1>2, <1>9 DEF ensure_control_tunnel, NewRegistration
  <2>2. FaceOK' /\ HotOK' /\ RoutesOK' /\ Steady /\ Grow
    BY <1>1, <1>4, <2>1, FaceMarked DEF LInv, Steady
  <2>3. QueueOK' /\ KeepsCredentials
    <3>1. PICK c : c = [cmd |-> "activate", s |-> s, worker |-> w, reg |-> n]
      OBVIOUS
    <3>2. c.cmd = "activate" /\ c.s = s /\ c.worker = w /\ c.reg = n
      BY <3>1
    <3>3. CommandOK(c)
      BY <1>2, <1>4, <2>1, <3>2 DEF CommandOK
    <3>4. CommandOK(c)'
      BY <2>2, <3>3, Stays
    <3> QED
      BY <2>1, <2>2, <3>1, <3>4, OneQueued DEF LInv
  <2>4. TasksOK'
    BY <1>5, <1>7, <2>2, TasksMove DEF LInv
  <2>5. RowsOK'
    BY <1>1, <1>4, <2>1 DEF LInv, RowsOK
  <2>6. Cutting'
    BY <1>1, <2>2, <2>3, CutSteady DEF LInv
  <2>7. MailOK'
    BY <1>1, <2>2, MailSame DEF LInv
  <2> QED
    BY <1>5, <2>2, <2>3, <2>4, <2>5, <2>6, <2>7 DEF LInv
<1> QED
  BY <1>8, <1>9

LEMMA StepDisconnectStart == ASSUME LInv, NEW t \in Tasks, DisconnectStart(t) PROVE LInv'
<1>1. /\ UNCHANGED <<hot, routes, face, events, promised, scenario, pws, devs, cut>>
      /\ UNCHANGED <<pub, commands, slots, slotOf, registrations>>
  BY DEF DisconnectStart, Aside, engine
<1>2. PICK k, i : k = task[t] /\ i = slotOf[k.r.dev]
  OBVIOUS
<1>3. TaskOK(t, k) /\ k.pc = "disconnect"
  BY <1>2 DEF LInv, TasksOK, At, DisconnectStart
<1>4. k.s \in Sessions /\ k.r.dev \in Devices
  BY <1>3 DEF TaskOK
<1>5. PICK n : n = [pc |-> "dlock", s |-> k.s, r |-> k.r, slot |-> i]
  OBVIOUS
<1>6. CASE i # 0
  <2>1. n.pc = "dlock" /\ n.s = k.s /\ n.r = k.r /\ n.slot = i /\ n = [pc |-> n.pc, s |-> n.s, r |-> n.r, slot |-> n.slot]
    BY <1>5
  <2>2. i \in 1 .. Len(slots')
    BY <1>1, <1>2, <1>4, <1>6 DEF LInv, SlotsOK
  <2>3. k.s \in Sessions'
    BY <1>1, <1>4 DEF Sessions
  <2>4. TaskOK(t, n)'
    BY <1>4, <2>1, <2>2, <2>3 DEF TaskOK
  <2>5. \E x \in {n, Idle} : Goto(t, x) /\ TaskOK(t, x)'
    BY <1>2, <1>5, <2>4, AtRest DEF DisconnectStart
  <2>6. PICK x : Goto(t, x) /\ TaskOK(t, x)'
    BY <2>5
  <2> QED
    BY <1>1, <2>6, QuietTurn
<1>7. CASE i = 0
  <2>1. PICK x : x = Idle
    OBVIOUS
  <2>2. Goto(t, x) /\ TaskOK(t, x)'
    BY <1>2, <1>7, <2>1, AtRest DEF DisconnectStart
  <2> QED
    BY <1>1, <2>2, QuietTurn
<1> QED
  BY <1>6, <1>7

LEMMA StepDisconnect == ASSUME LInv, NEW t \in Tasks, handle_disconnect(t) PROVE LInv'
<1>1. UNCHANGED <<hot, routes, face, events, promised, scenario, pws, devs, cut, slotOf, registrations>>
  BY DEF handle_disconnect, Aside, engine
<1>2. PICK k, i : k = task[t] /\ i = k.slot
  OBVIOUS
<1>3. TaskOK(t, k) /\ k.pc = "dcheck"
  BY <1>2 DEF LInv, TasksOK, At, handle_disconnect
<1>4. i \in 1 .. Len(slots) /\ slots[i].holder = t /\ slots' = Unlocked(i)
  BY <1>2, <1>3 DEF TaskOK, handle_disconnect
<1>5. SlotsOK' /\ MoreSlots /\ \A u : u # t => Holds(u)
  BY <1>1, <1>4, SlotUnlocked DEF LInv
<1>6. PICK n : n = Idle
  OBVIOUS
<1>7. Goto(t, n) /\ TaskOK(t, n)'
  BY <1>6, AtRest DEF handle_disconnect
<1>8. QueueOK' /\ KeepsCredentials /\ IsFiniteSet(pub')
  <2>1. CASE UNCHANGED <<commands, pub>>
    BY <1>1, <2>1, Denied
  <2>2. CASE /\ commands' = Append(commands, [cmd |-> "disconnect", s |-> k.s, dev |-> k.r.dev])
             /\ pub' = {s \in pub : s # k.s /\ face[s].dev # k.r.dev}
    <3>1. PICK c : c = [cmd |-> "disconnect", s |-> k.s, dev |-> k.r.dev]
      OBVIOUS
    <3>2. c.cmd = "disconnect"
      BY <3>1
    <3>3. CommandOK(c)'
      BY <3>2 DEF CommandOK
    <3>4. QueueOK' /\ KeepsCredentials
      BY <1>1, <2>2, <3>1, <3>3, GrowSame, OneQueued DEF LInv
    <3>5. IsFiniteSet(pub) /\ pub' \subseteq pub
      BY <2>2 DEF LInv, RowsOK
    <3>6. IsFiniteSet(pub')
      BY <3>5, FS_Subset
    <3> QED
      BY <3>4, <3>6
  <2> QED
    BY <1>2, <2>1, <2>2 DEF handle_disconnect
<1>9. registrations' \in Nat
  BY <1>1 DEF LInv, RowsOK
<1> QED
  BY <1>1, <1>5, <1>7, <1>8, <1>9, Turn

LEMMA StepTask == ASSUME LInv, NEW t \in Tasks, Task(t) PROVE LInv'
BY StepPreliminary, StepLookup, StepInsert, StepLock, StepDecide, StepWriteTimeout, StepReadTimeout,
   StepSend, StepIngressTask, StepEnsure, StepDisconnectStart, StepDisconnectLock, StepDisconnect DEF Task

-----------------------------------------------------------------------------
\* The steps of the panel and the janitors

LEMMA StepChange ==
  ASSUME LInv, NEW a \in Admins, NEW kind, NEW p \in Passwords, NEW state, NEW bindings, NEW next,
         ChangePassword(a, kind, p, state, bindings, next),
         bindings = devs \/ bindings = Unbound(p),
         next.pc = "cut" \/ (next.pc = "wait" /\ next = [pc |-> "wait", pw |-> next.pw, reload |-> next.reload])
  PROVE  LInv'
<1>1. /\ UNCHANGED <<hot, routes, face, events, promised, scenario, registrations>>
      /\ UNCHANGED <<pub, commands, slots, slotOf>>
  BY DEF ChangePassword, Aside, engine
<1>2. FaceOK' /\ HotOK' /\ RoutesOK' /\ Steady /\ Grow
  BY <1>1, RegistrySame DEF LInv, Steady
<1>3. SlotsOK' /\ MoreSlots /\ \A u : Holds(u)
  BY <1>1, SlotsSame DEF LInv
<1>4. QueueOK' /\ KeepsCredentials
  BY <1>1, <1>2, NothingQueued DEF LInv
<1>5. MailOK'
  BY <1>1, <1>2, MailSame DEF LInv
<1>6. TaskOK(a, next)'
  BY DEF TaskOK
<1>7. TasksOK'
  BY <1>2, <1>3, <1>6, TasksMove DEF LInv, ChangePassword
<1>8. RowsOK'
  <2>1. devs' = devs \/ devs' = Unbound(p)
    BY DEF ChangePassword
  <2>2. Unbound(p) \in [DOMAIN devs -> Row]
    <3>1. ASSUME NEW x \in Row PROVE [x EXCEPT !.pw = IF @ = p THEN None ELSE @] \in Row
      BY DEF Row
    <3> QED
      BY <3>1 DEF Unbound, LInv, RowsOK
  <2>3. devs' \in [DOMAIN devs' -> Row]
    BY <2>1, <2>2 DEF LInv, RowsOK
  <2>4. DOMAIN pws' = Passwords
    BY DEF ChangePassword, LInv, RowsOK
  <2> QED
    BY <1>1, <2>3, <2>4 DEF LInv, RowsOK
<1>9. Cutting'
  <2>1. cut' = cut \ {p} /\ \A q \in cut' : pws'[q] = pws[q]
    BY DEF ChangePassword, LInv, RowsOK
  <2> QED
    BY <1>1, <1>4, <2>1, CutStays DEF LInv
<1> QED
  BY <1>2, <1>3, <1>4, <1>5, <1>7, <1>8, <1>9 DEF LInv

LEMMA StepAdmin == ASSUME LInv, NEW a \in Admins, Admin(a) PROVE LInv'
<1>1. ASSUME NEW p \in Passwords, client_delete(a, p) PROVE LInv'
  <2>1. PICK kind, state, bindings, n :
          /\ kind = "delete" /\ state = "gone" /\ bindings = Unbound(p)
          /\ n = [pc |-> "wait", pw |-> p, reload |-> TRUE]
    OBVIOUS
  <2>2. ChangePassword(a, kind, p, state, bindings, n)
    BY <1>1, <2>1 DEF client_delete
  <2>3. n.pc = "wait" /\ n = [pc |-> "wait", pw |-> n.pw, reload |-> n.reload]
    BY <2>1
  <2> QED
    BY <2>1, <2>2, <2>3, StepChange
<1>2. ASSUME NEW p \in Passwords, client_toggle(a, p) PROVE LInv'
  <2>1. PICK kind, state, bindings, n :
          /\ kind = "toggle" /\ state = (IF pws[p] = "active" THEN "off" ELSE "active") /\ bindings = devs
          /\ n = [pc |-> "wait", pw |-> p, reload |-> TRUE]
    OBVIOUS
  <2>2. ChangePassword(a, kind, p, state, bindings, n)
    BY <1>2, <2>1 DEF client_toggle
  <2>3. n.pc = "wait" /\ n = [pc |-> "wait", pw |-> n.pw, reload |-> n.reload]
    BY <2>1
  <2> QED
    BY <2>1, <2>2, <2>3, StepChange
<1>3. ASSUME NEW p \in Passwords, client_unbind(a, p) PROVE LInv'
  <2>1. PICK kind, state, bindings, n :
          /\ kind = "unbind" /\ state = pws[p] /\ bindings = Unbound(p)
          /\ n = [pc |-> "wait", pw |-> p, reload |-> FALSE]
    OBVIOUS
  <2>2. ChangePassword(a, kind, p, state, bindings, n)
    BY <1>3, <2>1 DEF client_unbind
  <2>3. n.pc = "wait" /\ n = [pc |-> "wait", pw |-> n.pw, reload |-> n.reload]
    BY <2>1
  <2> QED
    BY <2>1, <2>2, <2>3, StepChange
<1>4. ASSUME NEW p \in Passwords, run_password_janitor_cycle(a, p) PROVE LInv'
  <2>1. PICK kind, state, bindings, n :
          /\ kind = "expire" /\ state = "gone" /\ bindings = Unbound(p)
          /\ n = [pc |-> "cut", pw |-> p, reload |-> TRUE]
    OBVIOUS
  <2>2. ChangePassword(a, kind, p, state, bindings, n)
    BY <1>4, <2>1 DEF run_password_janitor_cycle
  <2>3. n.pc = "cut"
    BY <2>1
  <2> QED
    BY <2>1, <2>2, <2>3, StepChange
<1>5. CASE wait_for_persistence(a)
  <2>1. /\ UNCHANGED <<hot, routes, face, events, promised, scenario, pws, devs, cut>>
        /\ UNCHANGED <<pub, commands, slots, slotOf, registrations>>
    BY <1>5 DEF wait_for_persistence, Aside, engine
  <2>2. PICK k : k = task[a]
    OBVIOUS
  <2>3. TaskOK(a, k) /\ k.pc = "wait"
    BY <1>5, <2>2 DEF LInv, TasksOK, At, wait_for_persistence
  <2>4. k = [pc |-> "wait", pw |-> k.pw, reload |-> k.reload]
    BY <2>3 DEF TaskOK
  <2>5. PICK n : n = [k EXCEPT !.pc = "cut"]
    OBVIOUS
  <2>6. n.pc = "cut"
    BY <2>4, <2>5
  <2>7. TaskOK(a, n)'
    BY <2>6 DEF TaskOK
  <2>8. \E x \in {n, Idle} : Goto(a, x) /\ TaskOK(a, x)'
    BY <1>5, <2>2, <2>5, <2>7, AtRest DEF wait_for_persistence
  <2>9. PICK x : Goto(a, x) /\ TaskOK(a, x)'
    BY <2>8
  <2> QED
    BY <2>1, <2>9, QuietTurn
<1>6. CASE drop_password_sessions(a)
  <2>1. /\ UNCHANGED <<hot, routes, face, events, promised, scenario, pws, devs, cut>>
        /\ UNCHANGED <<slots, slotOf, registrations>>
    BY <1>6 DEF drop_password_sessions, Aside, engine
  <2>2. SlotsOK' /\ MoreSlots /\ \A u : Holds(u)
    BY <2>1, SlotsSame DEF LInv
  <2>3. PICK n : n = [pc |-> "refresh", pw |-> task[a].pw]
    OBVIOUS
  <2>4. n.pc = "refresh"
    BY <2>3
  <2>5. TaskOK(a, n)'
    BY <2>4 DEF TaskOK
  <2>6. \E x \in {n, Idle} : Goto(a, x) /\ TaskOK(a, x)'
    BY <1>6, <2>3, <2>5, AtRest DEF drop_password_sessions
  <2>7. PICK x : Goto(a, x) /\ TaskOK(a, x)'
    BY <2>6
  <2>8. QueueOK' /\ KeepsCredentials
    <3>1. PICK c, q : c = [cmd |-> "password", pw |-> task[a].pw] /\ q = <<c>>
      OBVIOUS
    <3>2. IsSeq(q) /\ \A j \in DOMAIN q : q[j] = c
      BY <3>1, Singles
    <3>3. c.cmd = "password"
      BY <3>1
    <3>4. CommandOK(c)'
      BY <3>3 DEF CommandOK
    <3>5. command(q) /\ \A j \in DOMAIN q : CommandOK(q[j])'
      BY <1>6, <3>1, <3>2, <3>4 DEF drop_password_sessions
    <3> QED
      BY <2>1, <3>2, <3>5, GrowSame, ListQueued DEF LInv
  <2>9. registrations' \in Nat /\ IsFiniteSet(pub')
    <3>1. IsFiniteSet(pub) /\ pub' \subseteq pub /\ registrations' \in Nat
      BY <1>6, <2>1 DEF LInv, RowsOK, drop_password_sessions
    <3> QED
      BY <3>1, FS_Subset
  <2> QED
    BY <2>1, <2>2, <2>7, <2>8, <2>9, Turn
<1> QED
  BY <1>1, <1>2, <1>3, <1>4, <1>5, <1>6 DEF Admin

LEMMA StepBuild == ASSUME LInv, NEW a \in Tasks \cup Admins, build_credentials(a) PROVE LInv'
<1>1. /\ UNCHANGED <<hot, routes, face, events, promised, scenario, pws, devs, cut>>
      /\ UNCHANGED <<pub, commands, slots, slotOf, registrations>>
  BY DEF build_credentials, Aside, engine
<1>2. PICK n : n = [pc |-> "publish", pw |-> task[a].pw, creds |-> Active]
  OBVIOUS
<1>3. n.pc = "publish"
  BY <1>2
<1>4. Goto(a, n) /\ TaskOK(a, n)'
  BY <1>2, <1>3 DEF TaskOK, build_credentials
<1> QED
  BY <1>1, <1>4, QuietTurn

LEMMA StepRefresh == ASSUME LInv, NEW a \in Tasks \cup Admins, refresh_credentials(a) PROVE LInv'
<1>1. UNCHANGED <<hot, routes, face, events, promised, scenario, pws, devs, pub, slots, slotOf, registrations>>
  BY DEF refresh_credentials, Aside, engine
<1>2. PICK n : n = Idle
  OBVIOUS
<1>3. Goto(a, n) /\ TaskOK(a, n)'
  BY <1>2, AtRest DEF refresh_credentials
<1>4. CASE UNCHANGED <<commands, cut>>
  BY <1>1, <1>3, <1>4, QuietTurn
<1>5. CASE /\ commands' = Append(commands, [cmd |-> "credentials", creds |-> task[a].creds])
           /\ cut' = cut \cup ({task[a].pw} \cap (Passwords \ (task[a].creds \cup Active)))
  <2>1. PICK cr, p : cr = task[a].creds /\ p = task[a].pw
    OBVIOUS
  <2>2. PICK c : c = [cmd |-> "credentials", creds |-> cr]
    OBVIOUS
  <2>3. c.cmd = "credentials" /\ c.creds = cr
    BY <2>2
  <2>4. FaceOK' /\ HotOK' /\ RoutesOK' /\ Steady /\ Grow
    BY <1>1, RegistrySame DEF LInv, Steady
  <2>5. SlotsOK' /\ MoreSlots /\ \A u : Holds(u)
    BY <1>1, SlotsSame DEF LInv
  <2>6. TasksOK'
    BY <1>3, <2>4, <2>5, TasksMove DEF LInv
  <2>7. CommandOK(c)'
    BY <2>3 DEF CommandOK
  <2>8. QueueOK' /\ KeepsCredentials /\ \E j \in DOMAIN commands' : commands'[j] = c
    BY <1>5, <2>1, <2>2, <2>4, <2>7, OneQueued DEF LInv
  <2>9. MailOK'
    BY <1>1, <2>4, MailSame DEF LInv
  <2>a. RowsOK'
    BY <1>1 DEF LInv, RowsOK
  <2>b. Cutting'
    <3>1. ASSUME NEW q \in cut
          PROVE  /\ pws'[q] # "active"
                 /\ \/ \A s \in DOMAIN hot' : hot'[s].pw = q => face'[s].worker = 0
                    \/ \E i \in DOMAIN commands' : commands'[i].cmd = "credentials" /\ q \notin commands'[i].creds
      <4>1. /\ pws[q] # "active"
            /\ \/ \A s \in DOMAIN hot : hot[s].pw = q => face[s].worker = 0
               \/ \E i \in DOMAIN commands : commands[i].cmd = "credentials" /\ q \notin commands[i].creds
        BY <3>1 DEF LInv, Cutting
      <4>2. CASE \A s \in DOMAIN hot : hot[s].pw = q => face[s].worker = 0
        BY <1>1, <4>1, <4>2
      <4>3. CASE \E i \in DOMAIN commands : commands[i].cmd = "credentials" /\ q \notin commands[i].creds
        <5>1. PICK i \in DOMAIN commands : commands[i].cmd = "credentials" /\ q \notin commands[i].creds
          BY <4>3
        <5>2. PICK j \in DOMAIN commands' : commands'[j] = commands[i]
          BY <2>8, <5>1 DEF KeepsCredentials
        <5> QED
          BY <1>1, <4>1, <5>1, <5>2
      <4> QED
        BY <4>1, <4>2, <4>3
    <3>2. ASSUME NEW q \in cut', q \notin cut
          PROVE  /\ pws'[q] # "active"
                 /\ \E i \in DOMAIN commands' : commands'[i].cmd = "credentials" /\ q \notin commands'[i].creds
      <4>1. q \in Passwords /\ q \notin cr /\ pws'[q] # "active"
        BY <1>1, <1>5, <2>1, <3>2 DEF Active
      <4> QED
        BY <2>3, <2>8, <4>1
    <3> QED
      BY <3>1, <3>2 DEF Cutting
  <2> QED
    BY <2>4, <2>5, <2>6, <2>8, <2>9, <2>a, <2>b DEF LInv
<1> QED
  BY <1>4, <1>5 DEF refresh_credentials

LEMMA StepPrune == ASSUME LInv, prune_public_sessions PROVE LInv'
<1>1. /\ UNCHANGED <<hot, routes, face, events, promised, scenario, pws, devs, cut>>
      /\ UNCHANGED <<slots, slotOf, registrations, task>>
  BY DEF prune_public_sessions, Aside, engine
<1>2. FaceOK' /\ HotOK' /\ RoutesOK' /\ Steady /\ Grow
  BY <1>1, RegistrySame DEF LInv, Steady
<1>3. SlotsOK' /\ MoreSlots /\ \A u : Holds(u)
  BY <1>1, SlotsSame DEF LInv
<1>4. PICK s : drop_exact_session(s)
  BY DEF prune_public_sessions
<1>5. QueueOK' /\ KeepsCredentials /\ IsFiniteSet(pub')
  BY <1>1, <1>4, Denied
<1>6. TasksOK'
  BY <1>1, <1>2, <1>3, TasksSame DEF LInv
<1>7. RowsOK'
  BY <1>1, <1>5 DEF LInv, RowsOK
<1>8. Cutting'
  BY <1>1, <1>2, <1>5, CutSteady DEF LInv
<1>9. MailOK'
  BY <1>1, <1>2, MailSame DEF LInv
<1> QED
  BY <1>2, <1>3, <1>5, <1>6, <1>7, <1>8, <1>9 DEF LInv

LEMMA StepSweep == ASSUME LInv, device_epoch_sweeper PROVE LInv'
<1>1. /\ UNCHANGED <<hot, routes, face, events, promised, scenario, pws, devs, cut>>
      /\ UNCHANGED <<pub, commands, slots, registrations, task>>
  BY DEF device_epoch_sweeper, Aside, engine
<1>2. FaceOK' /\ HotOK' /\ RoutesOK' /\ Steady /\ Grow
  BY <1>1, RegistrySame DEF LInv, Steady
<1>3. PICK d \in Devices : /\ slotOf' = [slotOf EXCEPT ![d] = 0]
                           /\ \A t \in Tasks : task[t] # Idle => task[t].pc \in {"refresh", "publish"}
  BY DEF device_epoch_sweeper
<1>4. slotOf' \in [Devices -> Nat] /\ \A e \in Devices : slotOf'[e] = 0 \/ slotOf'[e] = slotOf[e]
  BY <1>3 DEF LInv, SlotsOK
<1>5. SlotsOK' /\ MoreSlots
  <2>1. Len(slots) \in Nat /\ slots' = slots
    BY <1>1 DEF LInv, SlotsOK
  <2>2. \A e \in Devices : slotOf'[e] <= Len(slots')
    BY <1>4, <2>1 DEF LInv, SlotsOK
  <2>3. \A e, f \in Devices : slotOf'[e] = slotOf'[f] /\ slotOf'[e] # 0 => e = f
    BY <1>4 DEF LInv, SlotsOK
  <2> QED
    BY <1>4, <2>1, <2>2, <2>3 DEF LInv, SlotsOK, MoreSlots
<1>6. ASSUME NEW u \in Tasks \cup Admins PROVE Holds(u)
  <2>1. ~At(u, "admit")
    <3>1. CASE u \in Tasks
      BY <1>3, <3>1 DEF At, Idle
    <3>2. CASE u \notin Tasks
      <4>1. PICK k : k = task[u]
        OBVIOUS
      <4>2. TaskOK(u, k)
        BY <4>1 DEF LInv, TasksOK
      <4>3. ASSUME k.pc = "admit" PROVE FALSE
        <5>1. k.slot \in 1 .. Len(slots) /\ slots[k.slot].holder = u
          BY <4>2, <4>3 DEF TaskOK
        <5>2. slots[k.slot] \in Slot
          BY <5>1 DEF LInv, SlotsOK
        <5>3. u \in Tasks \cup {None}
          BY <5>1, <5>2 DEF Slot
        <5> QED
          BY <3>2, <5>3, TasksAssumption DEF None
      <4> QED
        BY <4>1, <4>3 DEF At
    <3> QED
      BY <3>1, <3>2
  <2> QED
    BY <1>1, <2>1 DEF Holds
<1>7. TasksOK'
  BY <1>1, <1>2, <1>5, <1>6, TasksSame DEF LInv
<1>8. QueueOK' /\ KeepsCredentials
  BY <1>1, <1>2, NothingQueued DEF LInv
<1>9. RowsOK'
  BY <1>1 DEF LInv, RowsOK
<1>a. Cutting'
  BY <1>1, <1>2, <1>8, CutSteady DEF LInv
<1>b. MailOK'
  BY <1>1, <1>2, MailSame DEF LInv
<1> QED
  BY <1>2, <1>5, <1>7, <1>8, <1>9, <1>a, <1>b DEF LInv

-----------------------------------------------------------------------------
LEMMA InitiallyLInv == ASSUME Init PROVE LInv
<1>1. /\ hot = <<>> /\ routes = [d \in Devices |-> {}] /\ commands = <<>> /\ events = <<>>
      /\ pub = {} /\ face = <<>> /\ slotOf = [d \in Devices |-> 0] /\ slots = <<>>
      /\ pws = [p \in Passwords |-> "active"] /\ devs = <<>>
      /\ task = [t \in Tasks \cup Admins |-> Idle]
      /\ cut = {} /\ promised = [d \in Devices |-> NoEpoch] /\ registrations = 0 /\ scenario \in Scenarios
  BY DEF Init
<1>2. IsSeq(<<>>) /\ DOMAIN (<<>>) = {}
  BY Singles
<1>3. Sessions = {} /\ IsFiniteSet({}) /\ Cardinality({}) = 0 /\ {} = 1 .. 0
  BY <1>1, <1>2, FS_EmptySet DEF Sessions
<1>4. FaceOK
  <2>1. face \in [{} -> Face]
    BY <1>1
  <2> QED
    BY <1>3, <2>1 DEF FaceOK
<1>5. HotOK
  <2>1. hot \in [{} -> Hot] /\ DOMAIN hot = {}
    BY <1>1
  <2> QED
    BY <1>3, <2>1 DEF HotOK
<1>6. RoutesOK
  BY <1>1 DEF RoutesOK, RoutesAreLive
<1>7. QueueOK /\ MailOK
  BY <1>1, <1>2 DEF QueueOK, MailOK
<1>8. TasksOK
  <2>1. ASSUME NEW t \in Tasks \cup Admins PROVE TaskOK(t, task[t])
    BY <1>1 DEF TaskOK, Idle
  <2> QED
    BY <1>1, <2>1 DEF TasksOK
<1>9. SlotsOK
  BY <1>1 DEF SlotsOK
<1>a. RowsOK
  <2>1. devs \in [{} -> Row] /\ DOMAIN devs = {}
    BY <1>1
  <2> QED
    BY <1>1, <1>3, <2>1 DEF RowsOK, Epoch
<1>b. Cutting
  BY <1>1 DEF Cutting
<1> QED
  BY <1>4, <1>5, <1>6, <1>7, <1>8, <1>9, <1>a, <1>b DEF LInv

LEMMA NothingHappens == ASSUME LInv, UNCHANGED vars PROVE LInv'
<1>1. /\ UNCHANGED <<hot, routes, face, events, commands, control, scenario>>
      /\ registrations' = registrations /\ promised' = promised /\ cut' = cut /\ pws' = pws
  BY DEF vars, engine, queues, control, limits
<1>2. FaceOK' /\ HotOK' /\ RoutesOK' /\ Steady /\ Grow
  BY <1>1, RegistrySame DEF LInv, Steady
<1>3. TasksOK' /\ SlotsOK' /\ RowsOK'
  BY <1>1, <1>2, ControlSame DEF LInv
<1>4. QueueOK' /\ KeepsCredentials
  BY <1>1, <1>2, NothingQueued DEF LInv
<1>5. Cutting'
  BY <1>1, <1>2, <1>4, CutSteady DEF LInv
<1>6. MailOK'
  BY <1>1, <1>2, MailSame DEF LInv
<1> QED
  BY <1>2, <1>3, <1>4, <1>5, <1>6 DEF LInv

LEMMA EveryStep == ASSUME LInv, [Next]_vars PROVE LInv'
BY StepUdp, StepCommand, StepTick, StepLoop, StepTask, StepAdmin, StepBuild, StepRefresh,
   StepPrune, StepSweep, NothingHappens DEF Next

\* The engine, the control tasks and what lies in the queues between them always agree about the
\* sessions there are: in particular what a session was made with never changes under the messages
\* that are on their way to it (rust-server/protocol.rs, ProtocolEngine and handle_getconf).
THEOREM SessionInvariant == Spec => []LInv
<1>1. Init => LInv
  BY InitiallyLInv
<1>2. LInv /\ [Next]_vars => LInv'
  BY EveryStep
<1> QED
  BY <1>1, <1>2, PTL DEF Spec

\* No route names a session that is gone, another registration or another device, and no worker has
\* two routes, whatever sessions are replaced, dropped, retired or fall back to one another
\* (remove_slot_with_reason and activate_tunnel).
THEOREM RoutesStayLive == Spec => []RoutesAreLive
<1>1. LInv => RoutesAreLive
  BY DEF LInv, RoutesOK
<1> QED
  BY <1>1, SessionInvariant, PTL

\* A password that was taken away with success has no routed session once the engine has taken its
\* commands (refresh_credentials, ReplaceCredentials), whatever was admitted in between.
THEOREM RevokedStaysCut == Spec => []RevokedIsCut
<1>1. LInv => RevokedIsCut
  <2> SUFFICES ASSUME LInv, commands = <<>>, NEW p \in cut, NEW s \in DOMAIN hot, hot[s].pw = p
               PROVE  hot[s].reg = 0
    BY DEF RevokedIsCut
  <2>1. face[s].worker = 0
    BY Singles DEF LInv, Cutting
  <2> QED
    BY <2>1 DEF LInv, HotOK, SessionOK
<1> QED
  BY <1>1, SessionInvariant, PTL

-----------------------------------------------------------------------------
\* Generations

LEMMA EpochsAreNumbered == ASSUME NEW e \in Epoch PROVE e[1] \in Nat
<1>1. e = NoEpoch \/ \E r \in Requests : e = r.ep
  BY DEF Epoch, Requests
<1>2. NoEpoch[1] = 0
  BY DEF NoEpoch
<1> QED
  BY <1>1, <1>2, RequestsAssumption

LEMMA FollowsItself == ASSUME NEW e \in Epoch PROVE Follows(e, e)
<1>1. e[1] \in Nat
  BY EpochsAreNumbered
<1> QED
  BY <1>1 DEF Follows, Behind

LEMMA FollowsOn ==
  ASSUME NEW a \in Epoch, NEW b \in Epoch, NEW c \in Epoch, Follows(a, b), Follows(b, c)
  PROVE  Follows(a, c)
<1>1. a[1] \in Nat /\ b[1] \in Nat /\ c[1] \in Nat
  BY EpochsAreNumbered
<1>2. CASE b = NoEpoch
  <2>1. b[1] = 0
    BY <1>2 DEF NoEpoch
  <2>2. c = NoEpoch
    BY <1>1, <1>2, <2>1 DEF Follows, Behind
  <2> QED
    BY <2>2 DEF Follows
<1>3. CASE b # NoEpoch
  BY <1>1, <1>3 DEF Follows, Behind
<1> QED
  BY <1>2, <1>3

LEMMA NewestIsEpoch == ASSUME RowsOK, NEW d \in Devices PROVE Newest[d] \in Epoch
BY DEF Newest, RowsOK, Row, Epoch

\* What a step may leave as it was.
AdmittedSame ==
  \A s \in DOMAIN hot' :
    face'[s].worker # 0 =>
      /\ s \in DOMAIN hot /\ face[s].worker # 0
      /\ face'[s].dev = face[s].dev /\ face'[s].ep = face[s].ep
SlotsKeep ==
  \A d \in Devices : slotOf'[d] # 0 => /\ slotOf[d] = slotOf'[d]
                                       /\ slots'[slotOf[d]].ep = slots[slotOf[d]].ep
TasksKeep ==
  \A u \in Tasks :
    /\ task'[u].pc = "insert" => task'[u] = task[u] /\ (slotOf[task[u].r.dev] # 0 => slotOf'[task[u].r.dev] # 0)
    /\ task'[u].pc = "send" => task'[u] = task[u]
QueueKeeps ==
  \A i \in DOMAIN commands' :
    commands'[i].cmd = "tunconf" =>
      /\ i \in DOMAIN commands /\ commands[i] = commands'[i]
      /\ i # 1 => commands[i - 1] = commands'[i - 1]

LEMMA AdmittedStay ==
  ASSUME HotOK, Steady
  PROVE  AdmittedSame
BY DEF HotOK, Steady, Grow, AdmittedSame

LEMMA SlotsStay ==
  ASSUME SlotsFollow, Newest' = Newest, SlotsKeep
  PROVE  SlotsFollow'
<1>1. ASSUME NEW d \in Devices, slotOf'[d] # 0 PROVE Follows(slots'[slotOf'[d]].ep, Newest'[d])
  BY <1>1 DEF SlotsFollow, SlotsKeep
<1> QED
  BY <1>1 DEF SlotsFollow

LEMMA RereadsStay ==
  ASSUME RereadsFollow, Newest' = Newest, TasksKeep
  PROVE  RereadsFollow'
<1>1. ASSUME NEW u \in Tasks, task'[u].pc = "insert"
      PROVE  slotOf'[task'[u].r.dev] # 0 \/ Follows(task'[u].fresh, Newest'[task'[u].r.dev])
  BY <1>1 DEF RereadsFollow, TasksKeep
<1> QED
  BY <1>1 DEF RereadsFollow

LEMMA UnsentStays ==
  ASSUME UnsentIsOlder, Newest' = Newest, TasksKeep
  PROVE  UnsentIsOlder'
<1>1. ASSUME NEW u \in Tasks, task'[u].pc = "send" PROVE Announced(task[u].out[3])'
  <2>1. PICK c : c = task[u].out[3]
    OBVIOUS
  <2>2. Announced(c) /\ task'[u].out[3] = c
    BY <1>1, <2>1 DEF UnsentIsOlder, TasksKeep
  <2>3. Announced(c)'
    BY <2>2 DEF Announced
  <2> QED
    BY <2>2, <2>3 DEF Announced
<1> QED
  BY <1>1 DEF UnsentIsOlder

LEMMA QueuedStays ==
  ASSUME QueuedIsOlder, Newest' = Newest, QueueKeeps
  PROVE  QueuedIsOlder'
<1>1. ASSUME NEW i \in DOMAIN commands', commands'[i].cmd = "tunconf"
      PROVE  Follows(Newest'[commands'[i].dev], commands'[i].ep)
  BY <1>1 DEF QueuedIsOlder, QueueKeeps, Announced
<1> QED
  BY <1>1 DEF QueuedIsOlder, Announced

LEMMA AdmittedStays ==
  ASSUME AdmittedFollow, AdmittedSame, promised' = promised
  PROVE  AdmittedFollow'
<1>1. ASSUME NEW s \in DOMAIN hot', face'[s].worker # 0 PROVE Follows(face'[s].ep, promised'[face'[s].dev])
  BY <1>1 DEF AdmittedFollow, AdmittedSame
<1> QED
  BY <1>1 DEF AdmittedFollow

LEMMA AllStay ==
  ASSUME AdmittedSame, NEW c, AllFollow(c)
  PROVE  AllFollow(c)'
<1>1. ASSUME NEW s \in DOMAIN hot', face'[s].dev = c.dev, face'[s].worker # 0 PROVE Follows(face'[s].ep, c.ep)
  BY <1>1 DEF AllFollow, AdmittedSame
<1> QED
  BY <1>1 DEF AllFollow

LEMMA RetiredStays ==
  ASSUME RetiredFirst, AdmittedSame, QueueKeeps
  PROVE  RetiredFirst'
<1>1. ASSUME NEW i \in DOMAIN commands', commands'[i].cmd = "tunconf", i = 1
      PROVE  AllFollow(commands[i])'
  <2>1. PICK c : c = commands[i]
    OBVIOUS
  <2>2. AllFollow(c) /\ commands'[i] = c
    BY <1>1, <2>1 DEF RetiredFirst, QueueKeeps
  <2>3. AllFollow(c)'
    BY <2>2, AllStay
  <2> QED
    BY <2>2, <2>3 DEF AllFollow
<1>2. ASSUME NEW i \in DOMAIN commands', commands'[i].cmd = "tunconf", i # 1
      PROVE  /\ commands'[i - 1].cmd = "auth" /\ commands'[i - 1].dev = commands'[i].dev
             /\ commands'[i - 1].ep = commands'[i].ep
  BY <1>2 DEF RetiredFirst, QueueKeeps
<1> QED
  BY <1>1, <1>2 DEF RetiredFirst

LEMMA GenerationsStay ==
  ASSUME GInv, Newest' = Newest, SlotsKeep, TasksKeep, promised' = promised, AdmittedSame, QueueKeeps
  PROVE  GInv'
<1>1. SlotsFollow' /\ RereadsFollow' /\ UnsentIsOlder' /\ QueuedIsOlder' /\ AdmittedFollow' /\ RetiredFirst'
  BY SlotsStay, RereadsStay, UnsentStays, QueuedStays, AdmittedStays, RetiredStays DEF GInv
<1>2. PromisedIsOlder'
  BY DEF GInv, PromisedIsOlder
<1> QED
  BY <1>1, <1>2 DEF GInv

LEMMA QueueIsSame == ASSUME commands' = commands PROVE QueueKeeps
BY DEF QueueKeeps

LEMMA OthersQueued ==
  ASSUME QueueOK, NEW x, IsSeq(x), commands' = commands \o x, \A j \in DOMAIN x : x[j].cmd # "tunconf"
  PROVE  QueueKeeps
<1>1. PICK q : q = commands /\ IsSeq(q)
  BY DEF QueueOK
<1>2. PICK y : y = q \o x
  OBVIOUS
<1>3. /\ \A i \in DOMAIN q : i \in DOMAIN y /\ y[i] = q[i]
      /\ \A i \in DOMAIN y : i \in DOMAIN q \/ \E j \in DOMAIN x : y[i] = x[j]
  BY <1>1, <1>2, Concatenated
<1>4. DOMAIN q = 1 .. Len(q) /\ Len(q) \in Nat
  BY <1>1 DEF IsSeq
<1>5. commands' = y
  BY <1>1, <1>2
<1>6. ASSUME NEW i \in DOMAIN y, y[i].cmd = "tunconf"
      PROVE  i \in DOMAIN q /\ q[i] = y[i] /\ (i # 1 => q[i - 1] = y[i - 1])
  <2>1. i \in DOMAIN q
    BY <1>3, <1>6
  <2>2. i # 1 => i - 1 \in DOMAIN q
    BY <1>4, <2>1
  <2> QED
    BY <1>3, <2>1, <2>2
<1> QED
  BY <1>1, <1>5, <1>6 DEF QueueKeeps

LEMMA OneOther ==
  ASSUME QueueOK, NEW c, c.cmd # "tunconf", commands' = Append(commands, c)
  PROVE  QueueKeeps
<1>1. PICK q : q = commands /\ IsSeq(q)
  BY DEF QueueOK
<1>2. PICK x : x = <<c>>
  OBVIOUS
<1>3. IsSeq(x) /\ \A j \in DOMAIN x : x[j] = c
  BY <1>2, Singles
<1>4. PICK S : q \in Seq(S) /\ c \in S
  <2>1. PICK U : U = {q[i] : i \in DOMAIN q}
    OBVIOUS
  <2>2. q \in Seq(U)
    BY <1>1, <2>1 DEF IsSeq
  <2>3. q \in Seq(U \cup {c})
    BY <2>2
  <2> QED
    BY <2>3
<1>5. Append(q, c) = q \o x
  BY <1>2, <1>4
<1>6. commands' = commands \o x
  BY <1>1, <1>5
<1> QED
  BY <1>3, <1>6, OthersQueued

LEMMA ListOther ==
  ASSUME QueueOK, NEW cs, IsSeq(cs), command(cs), \A j \in DOMAIN cs : cs[j].cmd # "tunconf"
  PROVE  QueueKeeps
<1>1. PICK x : /\ IsSeq(x) /\ commands' = commands \o x
               /\ \A j \in DOMAIN x : \E n \in DOMAIN cs : x[j] = cs[n]
  BY Commanded, ZenonT(60)
<1>2. \A j \in DOMAIN x : x[j].cmd # "tunconf"
  BY <1>1
<1> QED
  BY <1>1, <1>2, OthersQueued

LEMMA OneCommanded ==
  ASSUME QueueOK, NEW c, c.cmd # "tunconf", command(<<c>>)
  PROVE  QueueKeeps
<1>1. PICK q : q = <<c>>
  OBVIOUS
<1>2. IsSeq(q) /\ \A j \in DOMAIN q : q[j] = c
  BY <1>1, Singles
<1>3. command(q) /\ \A j \in DOMAIN q : q[j].cmd # "tunconf"
  BY <1>1, <1>2
<1> QED
  BY <1>2, <1>3, ListOther

\* The session is dropped, or nothing is sent.
LEMMA DropOther ==
  ASSUME QueueOK, NEW s, drop_exact_session(s) \/ commands' = commands
  PROVE  QueueKeeps
<1>1. CASE drop_exact_session(s)
  <2>1. PICK c : c = DropSession(s)
    OBVIOUS
  <2>2. c.cmd = "drop" /\ command(<<c>>)
    BY <1>1, <2>1 DEF DropSession, drop_exact_session
  <2> QED
    BY <2>2, OneCommanded
<1> QED
  BY <1>1, QueueIsSame

LEMMA ControlKept ==
  ASSUME UNCHANGED <<slots, slotOf, devs, task>>
  PROVE  Newest' = Newest /\ SlotsKeep /\ TasksKeep
BY DEF Newest, SlotsKeep, TasksKeep

\* The engine takes a command: every TUNCONF moves on with the one before it.
LEMMA QueueMoves ==
  ASSUME LInv, GInv, Grow, Newest' = Newest, commands # <<>>, commands' = Tail(commands)
  PROVE  /\ QueuedIsOlder' /\ 1 \in DOMAIN commands /\ Head(commands) = commands[1]
         /\ \A i \in DOMAIN commands' :
              commands'[i].cmd = "tunconf" =>
                \/ /\ i = 1 /\ commands[1].cmd = "auth" /\ commands[1].dev = commands'[i].dev
                   /\ commands[1].ep = commands'[i].ep
                \/ /\ i # 1 /\ commands'[i - 1].cmd = "auth" /\ commands'[i - 1].dev = commands'[i].dev
                   /\ commands'[i - 1].ep = commands'[i].ep
<1>1. /\ 1 \in DOMAIN commands /\ Head(commands) = commands[1]
      /\ \A i \in DOMAIN commands' : i \in Nat /\ i >= 1 /\ i + 1 \in DOMAIN commands /\ commands'[i] = commands[i + 1]
      /\ \A i \in DOMAIN commands : i \in Nat /\ i >= 1 /\ (i # 1 => i - 1 \in DOMAIN commands' /\ commands'[i - 1] = commands[i])
  BY QueueTaken DEF LInv
<1>2. DOMAIN commands = 1 .. Len(commands) /\ Len(commands) \in Nat
  BY DEF LInv, QueueOK, IsSeq
<1>3. ASSUME NEW i \in DOMAIN commands', commands'[i].cmd = "tunconf"
      PROVE  \/ /\ i = 1 /\ commands[1].cmd = "auth" /\ commands[1].dev = commands'[i].dev
                /\ commands[1].ep = commands'[i].ep
             \/ /\ i # 1 /\ commands'[i - 1].cmd = "auth" /\ commands'[i - 1].dev = commands'[i].dev
                /\ commands'[i - 1].ep = commands'[i].ep
  <2>1. i \in Nat /\ i >= 1 /\ i + 1 \in DOMAIN commands /\ commands[i + 1] = commands'[i] /\ i + 1 # 1 /\ (i + 1) - 1 = i
    BY <1>1
  <2>2. commands[i].cmd = "auth" /\ commands[i].dev = commands[i + 1].dev /\ commands[i].ep = commands[i + 1].ep
    BY <1>3, <2>1 DEF GInv, RetiredFirst
  <2>3. i \in DOMAIN commands
    BY <1>2, <2>1
  <2> QED
    BY <1>1, <2>1, <2>2, <2>3
<1>4. QueuedIsOlder'
  <2>1. ASSUME NEW i \in DOMAIN commands', commands'[i].cmd = "tunconf"
        PROVE  Follows(Newest'[commands'[i].dev], commands'[i].ep)
    <3>1. i + 1 \in DOMAIN commands /\ commands'[i] = commands[i + 1]
      BY <1>1
    <3> QED
      BY <2>1, <3>1 DEF GInv, QueuedIsOlder, Announced
  <2> QED
    BY <2>1 DEF QueuedIsOlder, Announced
<1> QED
  BY <1>1, <1>3, <1>4

\* ... one that retires nothing.
LEMMA OtherTaken ==
  ASSUME LInv, GInv, Steady, UNCHANGED <<slots, slotOf, devs, task>>, promised' = promised,
         NEW m, Took(m), m # "auth"
  PROVE  GInv'
<1>1. Newest' = Newest /\ SlotsKeep /\ TasksKeep /\ AdmittedSame
  BY ControlKept, AdmittedStay DEF LInv
<1>2. /\ QueuedIsOlder' /\ commands[1].cmd # "auth"
      /\ \A i \in DOMAIN commands' :
           commands'[i].cmd = "tunconf" =>
             \/ i = 1 /\ commands[1].cmd = "auth"
             \/ /\ i # 1 /\ commands'[i - 1].cmd = "auth" /\ commands'[i - 1].dev = commands'[i].dev
                /\ commands'[i - 1].ep = commands'[i].ep
  BY <1>1, QueueMoves DEF Took, Steady
<1>3. RetiredFirst'
  BY <1>2 DEF RetiredFirst
<1>4. SlotsFollow' /\ RereadsFollow' /\ UnsentIsOlder' /\ AdmittedFollow'
  BY <1>1, SlotsStay, RereadsStay, UnsentStays, AdmittedStays DEF GInv
<1>5. PromisedIsOlder'
  BY <1>1 DEF GInv, PromisedIsOlder
<1> QED
  BY <1>2, <1>3, <1>4, <1>5 DEF GInv

LEMMA QueueLeft ==
  ASSUME LInv, GInv, Steady, UNCHANGED <<slots, slotOf, devs, task>>, promised' = promised, commands' = commands
  PROVE  GInv'
<1>1. Newest' = Newest /\ SlotsKeep /\ TasksKeep /\ AdmittedSame /\ QueueKeeps
  BY ControlKept, AdmittedStay, QueueIsSame DEF LInv
<1> QED
  BY <1>1, GenerationsStay

LEMMA UdpSteady ==
  ASSUME LInv, OnUdp
  PROVE  Steady /\ UNCHANGED <<slots, slotOf, devs, task>> /\ promised' = promised /\ commands' = commands
<1>1. scenario.requests \subseteq Requests
  BY DEF LInv, RowsOK, Requests
<1>2. ASSUME NEW r \in Requests, NEW R, R \subseteq DOMAIN hot, create_legacy_session(r, R) PROVE Steady
  BY <1>2, SessionMade DEF LInv
<1>3. ASSUME NEW r \in Requests, handle_unknown_legacy(r) PROVE Steady
  <2>1. PICK R : R = {}
    OBVIOUS
  <2>2. create_legacy_session(r, R) /\ R \subseteq DOMAIN hot
    BY <1>3, <2>1 DEF handle_unknown_legacy
  <2> QED
    BY <1>2, <2>2
<1>4. ASSUME NEW r \in Requests, ReplaceSession(r) PROVE Steady
  <2>1. PICK s \in ByPeer(r.peer) : create_legacy_session(r, {s})
    BY <1>4 DEF ReplaceSession
  <2>2. PICK R : R = {s}
    OBVIOUS
  <2>3. create_legacy_session(r, R) /\ R \subseteq DOMAIN hot
    BY <2>1, <2>2 DEF ByPeer
  <2> QED
    BY <1>2, <2>3
<1>5. ASSUME UNCHANGED <<hot, routes, face>> PROVE Steady
  BY <1>5, RegistrySame DEF LInv
<1>6. ASSUME NEW s \in DOMAIN hot, IngressBeforeTunnel(s) PROVE Steady
  <2>1. routes' = routes /\ face' = face
    BY <1>6 DEF IngressBeforeTunnel
  <2>2. CASE hot' = [hot EXCEPT ![s].pend = TRUE]
    BY <2>1, <2>2, HotPending DEF LInv
  <2>3. CASE hot' = hot
    BY <1>5, <2>1, <2>3
  <2> QED
    BY <1>6, <2>2, <2>3 DEF IngressBeforeTunnel
<1>7. ASSUME NEW r \in Requests, ProcessGetconf(r) PROVE Steady
  BY <1>5, <1>7 DEF ProcessGetconf
<1>8. ASSUME NEW s \in DOMAIN hot, Disconnect(s) PROVE Steady
  BY <1>5, <1>8 DEF Disconnect
<1>9. Steady
  BY <1>1, <1>3, <1>4, <1>6, <1>7, <1>8 DEF OnUdp
<1>a. Unseen
  BY DEF OnUdp, handle_unknown_legacy, ReplaceSession, ProcessGetconf, Disconnect, IngressBeforeTunnel
<1> QED
  BY <1>9, <1>a DEF Unseen, control

LEMMA TickSteady ==
  ASSUME LInv, OnTick
  PROVE  Steady /\ UNCHANGED <<slots, slotOf, devs, task>> /\ promised' = promised /\ commands' = commands
<1>1. CASE IdleSession
  <2>1. PICK s \in DOMAIN hot : remove_slots({s})
    BY <1>1 DEF IdleSession
  <2>2. PICK R : R = {s}
    OBVIOUS
  <2>3. Steady
    BY <2>1, <2>2, SlotsRemoved DEF LInv
  <2> QED
    BY <1>1, <2>3 DEF IdleSession, TimeOnly, control
<1>2. CASE sweep_idle_epochs
  <2>1. Steady
    BY <1>2, RegistrySame DEF LInv, sweep_idle_epochs
  <2> QED
    BY <1>2, <2>1 DEF sweep_idle_epochs, TimeOnly, control, queues
<1> QED
  BY <1>1, <1>2 DEF OnTick

\* The engine removes the sessions a generation retires, before it is announced.
LEMMA GensAuthoritative == ASSUME LInv, GInv, SetAuthoritativeEpoch PROVE GInv'
<1>1. PICK c, R : /\ c = Head(commands)
                  /\ R = {s \in DOMAIN hot : session_is_retired_by_epoch(hot[s], c.dev, c.ep)}
  OBVIOUS
<1>2. /\ R \subseteq DOMAIN hot /\ remove_slots(R) /\ promised' = promised
      /\ UNCHANGED <<slots, slotOf, devs, task>> /\ commands # <<>> /\ commands' = Tail(commands)
  BY <1>1 DEF SetAuthoritativeEpoch, CommandOnly, control, Took
<1>3. Steady /\ DOMAIN hot' = DOMAIN hot \ R
  BY <1>2, SlotsRemoved DEF LInv
<1>4. Newest' = Newest /\ SlotsKeep /\ TasksKeep /\ AdmittedSame
  BY <1>2, <1>3, ControlKept, AdmittedStay DEF LInv
<1>5. /\ QueuedIsOlder' /\ c = commands[1]
      /\ \A i \in DOMAIN commands' :
           commands'[i].cmd = "tunconf" =>
             \/ i = 1 /\ commands[1].dev = commands'[i].dev /\ commands[1].ep = commands'[i].ep
             \/ /\ i # 1 /\ commands'[i - 1].cmd = "auth" /\ commands'[i - 1].dev = commands'[i].dev
                /\ commands'[i - 1].ep = commands'[i].ep
  BY <1>1, <1>2, <1>3, <1>4, QueueMoves DEF Steady
<1>6. ASSUME NEW s \in DOMAIN hot', face'[s].dev = c.dev, face'[s].worker # 0 PROVE Follows(face'[s].ep, c.ep)
  <2>1. s \in DOMAIN hot /\ s \notin R /\ face[s].dev = face'[s].dev /\ face[s].ep = face'[s].ep
    BY <1>3, <1>4, <1>6 DEF AdmittedSame
  <2>2. SessionOK(s)
    BY <2>1 DEF LInv, HotOK
  <2>3. ~Behind(face[s].ep, c.ep)
    BY <1>1, <1>6, <2>1, <2>2 DEF session_is_retired_by_epoch, SessionOK
  <2> QED
    BY <2>1, <2>3 DEF Follows
<1>7. RetiredFirst'
  <2>1. ASSUME NEW i \in DOMAIN commands', commands[1].dev = commands'[i].dev, commands[1].ep = commands'[i].ep
        PROVE  AllFollow(commands[i])'
    BY <1>5, <1>6, <2>1 DEF AllFollow
  <2> QED
    BY <1>5, <2>1 DEF RetiredFirst
<1>8. SlotsFollow' /\ RereadsFollow' /\ UnsentIsOlder' /\ AdmittedFollow'
  BY <1>2, <1>4, SlotsStay, RereadsStay, UnsentStays, AdmittedStays DEF GInv
<1>9. PromisedIsOlder'
  BY <1>2, <1>4 DEF GInv, PromisedIsOlder
<1> QED
  BY <1>5, <1>7, <1>8, <1>9 DEF GInv

\* TUNCONF is sent: a generation is promised.
LEMMA GensPromised == ASSUME LInv, GInv, SendPlain PROVE GInv'
<1>1. PICK c : c = Head(commands)
  OBVIOUS
<1>2. /\ UNCHANGED <<hot, routes, face>> /\ UNCHANGED <<slots, slotOf, devs, task>>
      /\ commands # <<>> /\ commands' = Tail(commands) /\ c.cmd = "tunconf"
      /\ promised' = promised \/ promised' = [promised EXCEPT ![c.dev] = c.ep]
  BY <1>1 DEF SendPlain, CommandOnly, control, engine, Took
<1>3. Steady
  BY <1>2, RegistrySame DEF LInv
<1>4. Newest' = Newest /\ SlotsKeep /\ TasksKeep
  BY <1>2, ControlKept
<1>5. /\ QueuedIsOlder' /\ 1 \in DOMAIN commands /\ c = commands[1]
      /\ \A i \in DOMAIN commands' :
           commands'[i].cmd = "tunconf" =>
             \/ i = 1 /\ commands[1].cmd = "auth"
             \/ /\ i # 1 /\ commands'[i - 1].cmd = "auth" /\ commands'[i - 1].dev = commands'[i].dev
                /\ commands'[i - 1].ep = commands'[i].ep
  BY <1>1, <1>2, <1>3, <1>4, QueueMoves DEF Steady
<1>6. AllFollow(c) /\ Follows(Newest[c.dev], c.ep)
  BY <1>2, <1>5 DEF GInv, RetiredFirst, QueuedIsOlder, Announced
<1>7. promised \in [Devices -> Epoch]
  BY DEF LInv, RowsOK
<1>8. PromisedIsOlder'
  <2>1. ASSUME NEW d \in Devices PROVE Follows(Newest'[d], promised'[d])
    <3>1. Follows(Newest[d], promised[d])
      BY DEF GInv, PromisedIsOlder
    <3> QED
      BY <1>2, <1>4, <1>6, <1>7, <3>1
  <2> QED
    BY <2>1 DEF PromisedIsOlder
<1>9. AdmittedFollow'
  <2>1. ASSUME NEW s \in DOMAIN hot, face[s].worker # 0 PROVE Follows(face[s].ep, promised'[face[s].dev])
    <3>1. face[s].dev \in Devices
      BY DEF LInv, HotOK, FaceOK, Face
    <3>2. Follows(face[s].ep, promised[face[s].dev])
      BY <2>1 DEF GInv, AdmittedFollow
    <3>3. face[s].dev = c.dev => Follows(face[s].ep, c.ep)
      BY <1>6, <2>1 DEF AllFollow
    <3> QED
      BY <1>2, <1>7, <3>1, <3>2, <3>3
  <2> QED
    BY <1>2, <2>1 DEF AdmittedFollow
<1>a. RetiredFirst'
  BY <1>2, <1>5 DEF RetiredFirst
<1>b. SlotsFollow' /\ RereadsFollow' /\ UnsentIsOlder'
  BY <1>4, SlotsStay, RereadsStay, UnsentStays DEF GInv
<1> QED
  BY <1>5, <1>8, <1>9, <1>a, <1>b DEF GInv


LEMMA GensCommand == ASSUME LInv, GInv, OnCommand PROVE GInv'
<1>1. ASSUME NEW m, Took(m), m # "auth", NEW R, R \subseteq DOMAIN hot, remove_slots(R), CommandOnly,
             promised' = promised
      PROVE  GInv'
  <2>1. Steady
    BY <1>1, SlotsRemoved DEF LInv
  <2>2. UNCHANGED <<slots, slotOf, devs, task>>
    BY <1>1 DEF CommandOnly, control
  <2> QED
    BY <1>1, <2>1, <2>2, OtherTaken
<1>2. CASE DisconnectDevice
  <2>1. PICK m, R : m = "disconnect" /\ R = {s \in DOMAIN hot : s = Head(commands).s \/ hot[s].dev = Head(commands).dev}
    OBVIOUS
  <2>2. Took(m) /\ m # "auth" /\ R \subseteq DOMAIN hot /\ remove_slots(R) /\ CommandOnly /\ promised' = promised
    BY <1>2, <2>1 DEF DisconnectDevice
  <2> QED
    BY <1>1, <2>2
<1>3. CASE ReplaceCredentials
  <2>1. PICK m, R : m = "credentials" /\ R = {s \in DOMAIN hot : hot[s].pw \notin Head(commands).creds}
    OBVIOUS
  <2>2. Took(m) /\ m # "auth" /\ R \subseteq DOMAIN hot /\ remove_slots(R) /\ CommandOnly /\ promised' = promised
    BY <1>3, <2>1 DEF ReplaceCredentials
  <2> QED
    BY <1>1, <2>2
<1>4. CASE DropOne
  <2>1. PICK m, R : m = "drop" /\ R = {Head(commands).s} \cap DOMAIN hot
    OBVIOUS
  <2>2. Took(m) /\ m # "auth" /\ R \subseteq DOMAIN hot /\ remove_slots(R) /\ CommandOnly /\ promised' = promised
    BY <1>4, <2>1 DEF DropOne
  <2> QED
    BY <1>1, <2>2
<1>5. CASE DropPassword
  <2>1. PICK m, R : m = "password" /\ R = {s \in DOMAIN hot : hot[s].pw = Head(commands).pw}
    OBVIOUS
  <2>2. Took(m) /\ m # "auth" /\ R \subseteq DOMAIN hot /\ remove_slots(R) /\ CommandOnly /\ promised' = promised
    BY <1>5, <2>1 DEF DropPassword
  <2> QED
    BY <1>1, <2>2
<1>6. CASE update_epoch
  <2>1. PICK m : m = "update" /\ m # "auth"
    OBVIOUS
  <2>2. /\ Took(m) /\ UNCHANGED <<slots, slotOf, devs, task>> /\ promised' = promised /\ routes' = routes
    BY <1>6, <2>1 DEF update_epoch, CommandOnly, control
  <2>3. CommandOK(Head(commands))
    BY <2>2, Taken DEF LInv, QueueOK, Took
  <2>4. hot' = hot /\ face' = face
    BY <1>6, <2>3, HotUpdated DEF LInv
  <2>5. Steady
    BY <2>2, <2>4, RegistrySame DEF LInv
  <2> QED
    BY <2>1, <2>2, <2>5, OtherTaken
<1>7. CASE activate_tunnel
  <2>1. PICK m, c : m = "activate" /\ m # "auth" /\ c = Head(commands)
    OBVIOUS
  <2>2. Took(m) /\ UNCHANGED <<slots, slotOf, devs, task>> /\ promised' = promised
    BY <1>7, <2>1 DEF activate_tunnel, CommandOnly, control
  <2>3. CommandOK(c) /\ c.cmd = "activate"
    BY <2>1, <2>2, Taken DEF LInv, QueueOK, Took
  <2>4. CASE c.s \notin DOMAIN hot
    <3>1. UNCHANGED <<hot, routes, face>>
      BY <1>7, <2>1, <2>4 DEF activate_tunnel
    <3>2. Steady
      BY <3>1, RegistrySame DEF LInv
    <3> QED
      BY <2>1, <2>2, <3>2, OtherTaken
  <2>5. CASE c.s \in DOMAIN hot
    <3>1. PICK s, reg, w : s = c.s /\ reg = c.reg /\ w = c.worker
      OBVIOUS
    <3>2. /\ routes' = [routes EXCEPT ![hot[s].dev] =
                          register(unregister(@, hot[s].reg), [s |-> s, reg |-> reg, worker |-> w])]
          /\ hot' = [hot EXCEPT ![s].reg = reg, ![s].pend = FALSE]
          /\ face' = [face EXCEPT ![s].has = TRUE]
      BY <1>7, <2>1, <2>5, <3>1 DEF activate_tunnel
    <3>3. s \in DOMAIN hot /\ face[s].worker # 0 /\ reg \in Nat \ {0} /\ w \in Nat
      BY <2>3, <2>5, <3>1 DEF CommandOK
    <3>4. Steady
      BY <3>2, <3>3, HotActivated DEF LInv
    <3> QED
      BY <2>1, <2>2, <3>4, OtherTaken
  <2> QED
    BY <2>4, <2>5
<1> QED
  BY <1>2, <1>3, <1>4, <1>5, <1>6, <1>7, GensAuthoritative, GensPromised DEF OnCommand

\* A task goes on without asking for an epoch or admitting anyone.
LEMMA TaskTurns ==
  ASSUME LInv, GInv, Newest' = Newest, promised' = promised, AdmittedSame, SlotsKeep, QueueKeeps,
         slotOf' = slotOf, NEW t \in Tasks \cup Admins, NEW k, Goto(t, k), k.pc \notin {"insert", "send"}
  PROVE  GInv'
<1>1. DOMAIN task = Tasks \cup Admins
  BY DEF LInv, TasksOK
<1>2. task'[t] = k /\ \A u \in Tasks \cup Admins : u # t => task'[u] = task[u]
  BY <1>1 DEF Goto
<1>3. TasksKeep
  BY <1>2 DEF TasksKeep
<1> QED
  BY <1>3, GenerationsStay

LEMMA SessionsSame == ASSUME hot' = hot, face' = face PROVE AdmittedSame
BY DEF AdmittedSame

LEMMA SlotsLeft ==
  ASSUME UNCHANGED <<slots, slotOf>>
  PROVE  SlotsKeep
BY DEF SlotsKeep

LEMMA RowsLeft == ASSUME devs' = devs PROVE Newest' = Newest
BY DEF Newest

\* A lock is taken or given back.
LEMMA HolderChanged ==
  ASSUME SlotsOK, NEW i \in 1 .. Len(slots), NEW h, slots' = [slots EXCEPT ![i].holder = h], slotOf' = slotOf
  PROVE  SlotsKeep
<1>1. slots \in Seq(Slot) /\ DOMAIN slots = 1 .. Len(slots) /\ slotOf \in [Devices -> Nat]
  BY DEF SlotsOK
<1>2. PICK y \in Slot : y = slots[i]
  BY <1>1
<1>3. PICK x : x = [y EXCEPT !.holder = h]
  OBVIOUS
<1>4. x.ep = y.ep
  BY <1>3 DEF Slot
<1>5. slots' = [slots EXCEPT ![i] = x]
  BY <1>2, <1>3
<1>6. \A j \in 1 .. Len(slots) : slots'[j].ep = slots[j].ep
  BY <1>1, <1>2, <1>4, <1>5
<1>7. \A d \in Devices : slotOf[d] # 0 => slotOf[d] \in 1 .. Len(slots)
  BY <1>1 DEF SlotsOK
<1> QED
  BY <1>6, <1>7 DEF SlotsKeep

\* The steps of a task that ask for no epoch and admit nobody.
LEMMA GensQuiet ==
  ASSUME LInv, GInv, NEW t \in Tasks, UNCHANGED <<hot, face, devs, promised, slotOf>>, SlotsKeep, QueueKeeps,
         NEW k, Goto(t, k), k.pc \notin {"insert", "send"}
  PROVE  GInv'
<1>1. Newest' = Newest /\ AdmittedSame
  BY RowsLeft, SessionsSame
<1> QED
  BY <1>1, TaskTurns

LEMMA GensPreliminary == ASSUME LInv, GInv, NEW t \in Tasks, Preliminary(t) PROVE GInv'
<1>1. UNCHANGED <<hot, face, devs, promised, slotOf, slots>>
  BY DEF Preliminary, Aside, engine
<1>2. PICK k : k = task[t]
  OBVIOUS
<1>3. TaskOK(t, k) /\ k.pc = "getconf"
  BY <1>2 DEF LInv, TasksOK, At, Preliminary
<1>4. PICK n : n = [k EXCEPT !.pc = "epoch"]
  OBVIOUS
<1>5. n.pc = "epoch" /\ Idle.pc = "idle"
  <2>1. k = [pc |-> k.pc, s |-> k.s, r |-> k.r]
    BY <1>3 DEF TaskOK
  <2> QED
    BY <1>4, <2>1 DEF Idle
<1>6. PICK m : Goto(t, m) /\ m \in {n, Idle}
  BY <1>2, <1>4 DEF Preliminary
<1>7. QueueKeeps
  <2>1. PICK s : s = task[t].s
    OBVIOUS
  <2>2. drop_exact_session(s) \/ commands' = commands
    BY <2>1 DEF Preliminary, Deny
  <2> QED
    BY <2>2, DropOther DEF LInv
<1> QED
  BY <1>1, <1>5, <1>6, <1>7, SlotsLeft, GensQuiet

LEMMA GensLock == ASSUME LInv, GInv, NEW t \in Tasks, EpochLock(t) \/ DisconnectLock(t) PROVE GInv'
<1>1. UNCHANGED <<hot, face, devs, promised, slotOf, commands>>
  BY DEF EpochLock, DisconnectLock, Aside, engine
<1>2. PICK k : k = task[t]
  OBVIOUS
<1>3. TaskOK(t, k) /\ k.pc \in {"lock", "dlock"}
  BY <1>2 DEF LInv, TasksOK, At, EpochLock, DisconnectLock
<1>4. PICK i : i = k.slot /\ i \in 1 .. Len(slots)
  BY <1>3 DEF TaskOK
<1>5. SlotsKeep
  <2>1. CASE slots' = slots
    BY <1>1, <2>1, SlotsLeft
  <2>2. CASE slots' = [slots EXCEPT ![i].holder = t]
    BY <1>1, <1>4, <2>2, HolderChanged DEF LInv
  <2> QED
    BY <1>2, <1>4, <2>1, <2>2 DEF EpochLock, DisconnectLock
<1>6. \E m : Goto(t, m) /\ m.pc \notin {"insert", "send"}
  <2>1. CASE EpochLock(t)
    <3>1. k = [pc |-> k.pc, s |-> k.s, r |-> k.r, slot |-> k.slot, created |-> k.created]
      BY <1>2, <1>3, <2>1 DEF EpochLock, At, TaskOK
    <3>2. PICK n, o : n = [k EXCEPT !.pc = "admit"] /\ o = [pc |-> "epoch", s |-> k.s, r |-> k.r]
      OBVIOUS
    <3>3. n.pc = "admit" /\ o.pc = "epoch"
      BY <3>1, <3>2
    <3>4. Goto(t, n) \/ Goto(t, o)
      BY <1>2, <2>1, <3>2 DEF EpochLock
    <3> QED
      BY <3>3, <3>4
  <2>2. CASE DisconnectLock(t)
    <3>1. k = [pc |-> k.pc, s |-> k.s, r |-> k.r, slot |-> k.slot] /\ k.pc = "dlock"
      BY <1>2, <1>3, <2>2 DEF DisconnectLock, At, TaskOK
    <3>2. PICK n, o : n = [k EXCEPT !.pc = "dcheck"] /\ o = [k EXCEPT !.slot = slotOf[k.r.dev]]
      OBVIOUS
    <3>3. n.pc = "dcheck" /\ o.pc = "dlock" /\ Idle.pc = "idle"
      BY <3>1, <3>2 DEF Idle
    <3>4. Goto(t, n) \/ Goto(t, o) \/ Goto(t, Idle)
      BY <1>2, <2>2, <3>2 DEF DisconnectLock
    <3> QED
      BY <3>3, <3>4
  <2> QED
    BY <2>1, <2>2
<1> QED
  BY <1>1, <1>5, <1>6, QueueIsSame, GensQuiet

LEMMA GensTimeout == ASSUME LInv, GInv, NEW t \in Tasks, WriteTimeout(t) \/ ReadTimeout(t) PROVE GInv'
<1>1. UNCHANGED <<hot, face, devs, promised, slotOf>> /\ Goto(t, Idle)
  BY DEF WriteTimeout, ReadTimeout, Aside, engine
<1>2. PICK k, i, n : k = task[t] /\ i = k.slot /\ n = Idle
  OBVIOUS
<1>3. Goto(t, n) /\ n.pc = "idle"
  BY <1>1, <1>2 DEF Idle
<1>4. SlotsKeep
  <2>1. CASE WriteTimeout(t)
    <3>1. i \in 1 .. Len(slots)
      BY <1>2, <2>1 DEF WriteTimeout, At, LInv, TasksOK, TaskOK
    <3>2. slots' = [slots EXCEPT ![i].holder = None]
      BY <1>2, <2>1 DEF WriteTimeout, Unlocked
    <3> QED
      BY <1>1, <3>1, <3>2, HolderChanged DEF LInv
  <2>2. CASE ReadTimeout(t)
    BY <1>1, <2>2, SlotsLeft DEF ReadTimeout
  <2> QED
    BY <2>1, <2>2
<1>5. QueueKeeps
  <2>1. CASE commands' = commands
    BY <2>1, QueueIsSame
  <2>2. CASE commands' = Append(commands, DropSession(task[t].s))
    <3>1. PICK c : c = DropSession(task[t].s)
      OBVIOUS
    <3>2. c.cmd = "drop" /\ commands' = Append(commands, c)
      BY <2>2, <3>1 DEF DropSession
    <3> QED
      BY <3>2, OneOther DEF LInv
  <2> QED
    BY <2>1, <2>2 DEF WriteTimeout, ReadTimeout
<1> QED
  BY <1>1, <1>3, <1>4, <1>5, GensQuiet

LEMMA GensIngress == ASSUME LInv, GInv, NEW t \in Tasks, Ingress(t) PROVE GInv'
<1>1. UNCHANGED <<hot, face, devs, promised, slotOf, slots>>
  BY DEF Ingress, Aside, engine
<1>2. PICK k : k = task[t]
  OBVIOUS
<1>3. TaskOK(t, k) /\ k.pc = "ingress"
  BY <1>2 DEF LInv, TasksOK, At, Ingress
<1>4. PICK n : n = [k EXCEPT !.pc = "ensure"]
  OBVIOUS
<1>5. n.pc = "ensure" /\ Idle.pc = "idle"
  <2>1. k = [pc |-> k.pc, s |-> k.s, r |-> k.r]
    BY <1>3 DEF TaskOK
  <2> QED
    BY <1>4, <2>1 DEF Idle
<1>6. PICK m : Goto(t, m) /\ m \in {n, Idle}
  BY <1>2, <1>4 DEF Ingress
<1>7. QueueKeeps
  <2>1. PICK s : s = task[t].s
    OBVIOUS
  <2>2. drop_exact_session(s) \/ commands' = commands
    BY <2>1 DEF Ingress
  <2> QED
    BY <2>2, DropOther DEF LInv
<1> QED
  BY <1>1, <1>5, <1>6, <1>7, SlotsLeft, GensQuiet

LEMMA GensEnsure == ASSUME LInv, GInv, NEW t \in Tasks, ensure_control_tunnel(t) PROVE GInv'
<1>1. UNCHANGED <<hot, routes, devs, promised, slotOf, slots>> /\ Goto(t, Idle)
  BY DEF ensure_control_tunnel, Aside, engine
<1>2. PICK s, n : s = task[t].s /\ n = Idle
  OBVIOUS
<1>3. s \in Sessions
  BY <1>2 DEF LInv, TasksOK, TaskOK, At, ensure_control_tunnel
<1>4. Goto(t, n) /\ n.pc = "idle"
  BY <1>1, <1>2 DEF Idle
<1>5. Steady
  <2>1. CASE face' = face
    BY <1>1, <2>1, RegistrySame DEF LInv
  <2>2. CASE face' = [face EXCEPT ![s].has = TRUE]
    BY <1>1, <1>3, <2>2, FaceMarked DEF LInv
  <2> QED
    BY <1>2, <2>1, <2>2 DEF ensure_control_tunnel
<1>6. QueueKeeps
  <2>1. CASE drop_exact_session(s) \/ commands' = commands
    BY <2>1, DropOther DEF LInv
  <2>2. CASE \E c : c.cmd # "tunconf" /\ commands' = Append(commands, c)
    BY <2>2, OneOther DEF LInv
  <2>3. ASSUME NEW w, NEW reg, commands' = Append(commands, [cmd |-> "activate", s |-> s, worker |-> w, reg |-> reg])
        PROVE  \E c : c.cmd # "tunconf" /\ commands' = Append(commands, c)
    <3>1. PICK c : c = [cmd |-> "activate", s |-> s, worker |-> w, reg |-> reg]
      OBVIOUS
    <3>2. c.cmd # "tunconf" /\ commands' = Append(commands, c)
      BY <2>3, <3>1
    <3> QED
      BY <3>2
  <2>4. ASSUME commands' = Append(commands, DropSession(s))
        PROVE  \E c : c.cmd # "tunconf" /\ commands' = Append(commands, c)
    <3>1. PICK c : c = DropSession(s)
      OBVIOUS
    <3>2. c.cmd # "tunconf" /\ commands' = Append(commands, c)
      BY <2>4, <3>1 DEF DropSession
    <3> QED
      BY <3>2
  <2>5. \/ drop_exact_session(s) \/ commands' = commands
        \/ commands' = Append(commands, DropSession(s))
        \/ \E w, reg : commands' = Append(commands, [cmd |-> "activate", s |-> s, worker |-> w, reg |-> reg])
    BY <1>2 DEF ensure_control_tunnel
  <2> QED
    BY <2>1, <2>2, <2>3, <2>4, <2>5
<1>7. AdmittedSame /\ Newest' = Newest /\ SlotsKeep
  BY <1>1, <1>5, AdmittedStay, RowsLeft, SlotsLeft DEF LInv
<1> QED
  BY <1>1, <1>4, <1>6, <1>7, TaskTurns

LEMMA GensDisconnect ==
  ASSUME LInv, GInv, NEW t \in Tasks, DisconnectStart(t) \/ handle_disconnect(t)
  PROVE  GInv'
<1>1. UNCHANGED <<hot, face, devs, promised, slotOf>>
  BY DEF DisconnectStart, handle_disconnect, Aside, engine
<1>2. PICK k, i : k = task[t] /\ i = k.slot
  OBVIOUS
<1>3. \E m : Goto(t, m) /\ m.pc \notin {"insert", "send"}
  <2>1. PICK n : n = [pc |-> "dlock", s |-> k.s, r |-> k.r, slot |-> slotOf[k.r.dev]]
    OBVIOUS
  <2>2. n.pc = "dlock" /\ Idle.pc = "idle"
    BY <2>1 DEF Idle
  <2>3. Goto(t, n) \/ Goto(t, Idle)
    BY <1>2, <2>1 DEF DisconnectStart, handle_disconnect
  <2> QED
    BY <2>2, <2>3
<1>4. SlotsKeep
  <2>1. CASE DisconnectStart(t)
    BY <1>1, <2>1, SlotsLeft DEF DisconnectStart
  <2>2. CASE handle_disconnect(t)
    <3>1. i \in 1 .. Len(slots)
      BY <1>2, <2>2 DEF handle_disconnect, At, LInv, TasksOK, TaskOK
    <3>2. slots' = [slots EXCEPT ![i].holder = None]
      BY <1>2, <2>2 DEF handle_disconnect, Unlocked
    <3> QED
      BY <1>1, <3>1, <3>2, HolderChanged DEF LInv
  <2> QED
    BY <2>1, <2>2
<1>5. QueueKeeps
  <2>1. PICK c : c = [cmd |-> "disconnect", s |-> k.s, dev |-> k.r.dev]
    OBVIOUS
  <2>2. c.cmd # "tunconf"
    BY <2>1
  <2>3. commands' = commands \/ commands' = Append(commands, c)
    BY <1>2, <2>1 DEF DisconnectStart, handle_disconnect
  <2> QED
    BY <2>2, <2>3, QueueIsSame, OneOther DEF LInv
<1> QED
  BY <1>1, <1>3, <1>4, <1>5, GensQuiet

LEMMA GensLoop ==
  ASSUME LInv, GInv, SessionCreated \/ Closed \/ \E t \in Tasks : Spawn(t)
  PROVE  GInv'
<1>1. UNCHANGED <<hot, routes, face, devs, promised, slotOf, slots, commands>>
  BY DEF SessionCreated, Closed, Spawn, EventOnly, engine
<1>2. CASE task' = task
  <2>1. Steady
    BY <1>1, RegistrySame DEF LInv
  <2> QED
    BY <1>1, <1>2, <2>1, QueueLeft
<1>3. ASSUME NEW t \in Tasks, Spawn(t) PROVE GInv'
  <2>1. PICK e \in {"getconf", "disconnect", "ingress"} :
          task' = [task EXCEPT ![t] = [pc |-> e, s |-> Head(events).s, r |-> Head(events).r]]
    BY <1>3 DEF Spawn
  <2>2. PICK n : n = [pc |-> e, s |-> Head(events).s, r |-> Head(events).r]
    OBVIOUS
  <2>3. n.pc \notin {"insert", "send"} /\ Goto(t, n)
    BY <2>1, <2>2 DEF Goto
  <2> QED
    BY <1>1, <2>3, SlotsLeft, QueueIsSame, GensQuiet
<1> QED
  BY <1>2, <1>3 DEF SessionCreated, Closed

\* The epoch of a device is looked up, and read anew if it has no slot.
LEMMA GensLookup ==
  ASSUME LInv, GInv, ReadTimesOut = FALSE, NEW t \in Tasks, EpochLookup(t)
  PROVE  GInv'
<1>1. UNCHANGED <<hot, face, devs, promised, slotOf, slots, commands>>
  BY DEF EpochLookup, Aside, engine
<1>2. PICK k, d : k = task[t] /\ d = k.r.dev
  OBVIOUS
<1>3. TaskOK(t, k) /\ k.pc = "epoch"
  BY <1>2 DEF LInv, TasksOK, At, EpochLookup
<1>4. d \in Devices
  BY <1>2, <1>3, RequestsAssumption DEF TaskOK, Of
<1>5. CASE slotOf[d] # 0
  <2>1. PICK n : n = [pc |-> "lock", s |-> k.s, r |-> k.r, slot |-> slotOf[d], created |-> FALSE]
    OBVIOUS
  <2>2. Goto(t, n) /\ n.pc = "lock"
    BY <1>2, <1>5, <2>1 DEF EpochLookup
  <2> QED
    BY <1>1, <2>2, SlotsLeft, QueueIsSame, GensQuiet
<1>6. CASE slotOf[d] = 0
  <2>1. PICK n : n = [pc |-> "insert", s |-> k.s, r |-> k.r, fresh |-> Newest[d]]
    OBVIOUS
  <2>2. Goto(t, n)
    <3>1. fresh_device_epoch(d) = {Newest[d]}
      BY <1>4 DEF fresh_device_epoch, Newest
    <3>2. \E ep \in fresh_device_epoch(d) : Goto(t, [pc |-> "insert", s |-> k.s, r |-> k.r, fresh |-> ep])
      BY <1>2, <1>6 DEF EpochLookup
    <3> QED
      BY <2>1, <3>1, <3>2
  <2>3. n.pc = "insert" /\ n.r.dev = d /\ n.fresh = Newest[d]
    BY <1>2, <2>1
  <2>4. task'[t] = n /\ \A u \in Tasks : u # t => task'[u] = task[u]
    BY <2>2 DEF Goto, LInv, TasksOK
  <2>5. Newest' = Newest /\ AdmittedSame /\ SlotsKeep /\ QueueKeeps
    BY <1>1, RowsLeft, SessionsSame, SlotsLeft, QueueIsSame
  <2>6. Follows(Newest[d], Newest[d])
    BY <1>4, NewestIsEpoch, FollowsItself DEF LInv
  <2>7. RereadsFollow'
    <3>1. ASSUME NEW u \in Tasks, task'[u].pc = "insert"
          PROVE  slotOf'[task'[u].r.dev] # 0 \/ Follows(task'[u].fresh, Newest'[task'[u].r.dev])
      <4>1. CASE u = t
        BY <2>3, <2>4, <2>5, <2>6, <4>1
      <4>2. CASE u # t
        BY <1>1, <2>4, <2>5, <3>1, <4>2 DEF GInv, RereadsFollow
      <4> QED
        BY <4>1, <4>2
    <3> QED
      BY <3>1 DEF RereadsFollow
  <2>8. UnsentIsOlder'
    <3>1. ASSUME NEW u \in Tasks, task'[u].pc = "send" PROVE Announced(task[u].out[3])'
      <4>1. PICK c : c = task[u].out[3]
        OBVIOUS
      <4>2. u # t /\ task'[u] = task[u]
        BY <2>3, <2>4, <3>1
      <4>3. Announced(c)
        BY <3>1, <4>1, <4>2 DEF GInv, UnsentIsOlder
      <4> QED
        BY <2>5, <4>1, <4>2, <4>3 DEF Announced
    <3> QED
      BY <3>1 DEF UnsentIsOlder
  <2>9. SlotsFollow' /\ QueuedIsOlder' /\ AdmittedFollow' /\ RetiredFirst'
    BY <1>1, <2>5, SlotsStay, QueuedStays, AdmittedStays, RetiredStays DEF GInv
  <2>a. PromisedIsOlder'
    BY <1>1, <2>5 DEF GInv, PromisedIsOlder
  <2> QED
    BY <2>7, <2>8, <2>9, <2>a DEF GInv
<1> QED
  BY <1>5, <1>6

\* A slot is made from what was read.
LEMMA GensInsert == ASSUME LInv, GInv, NEW t \in Tasks, EpochInsert(t) PROVE GInv'
<1>1. UNCHANGED <<hot, face, devs, promised, commands>>
  BY DEF EpochInsert, Aside, engine
<1>2. PICK k, d, n : k = task[t] /\ d = k.r.dev /\ n = Len(slots) + 1
  OBVIOUS
<1>3. TaskOK(t, k) /\ k.pc = "insert"
  BY <1>2 DEF LInv, TasksOK, At, EpochInsert
<1>4. d \in Devices
  BY <1>2, <1>3, RequestsAssumption DEF TaskOK, Of
<1>5. PICK m : Goto(t, m) /\ m.pc = "lock"
  <2>1. PICK x, y : /\ x = [pc |-> "lock", s |-> k.s, r |-> k.r, slot |-> slotOf[d], created |-> FALSE]
                    /\ y = [pc |-> "lock", s |-> k.s, r |-> k.r, slot |-> n, created |-> TRUE]
    OBVIOUS
  <2>2. x.pc = "lock" /\ y.pc = "lock"
    BY <2>1
  <2>3. Goto(t, x) \/ Goto(t, y)
    BY <1>2, <2>1 DEF EpochInsert
  <2> QED
    BY <2>2, <2>3
<1>6. CASE slotOf[d] # 0
  <2>1. UNCHANGED <<slotOf, slots>>
    BY <1>2, <1>6 DEF EpochInsert
  <2> QED
    BY <1>1, <1>5, <2>1, SlotsLeft, QueueIsSame, GensQuiet
<1>7. CASE slotOf[d] = 0
  <2>1. PICK x : x = [ep |-> k.fresh, holder |-> None]
    OBVIOUS
  <2>2. slots' = Append(slots, x) /\ slotOf' = [slotOf EXCEPT ![d] = n] /\ x.ep = k.fresh
    BY <1>2, <1>7, <2>1 DEF EpochInsert
  <2>3. slots \in Seq(Slot) /\ Len(slots) \in Nat /\ slotOf \in [Devices -> Nat] /\ x \in Slot
    BY <1>3, <2>1 DEF LInv, SlotsOK, TaskOK, Slot
  <2>4. slots'[n] = x /\ \A j \in 1 .. Len(slots) : slots'[j] = slots[j]
    BY <1>2, <2>2, <2>3
  <2>5. slotOf'[d] = n /\ n # 0 /\ \A e \in Devices : e # d => slotOf'[e] = slotOf[e]
    BY <1>2, <1>4, <2>2, <2>3
  <2>6. Newest' = Newest /\ AdmittedSame /\ QueueKeeps
    BY <1>1, RowsLeft, SessionsSame, QueueIsSame
  <2>7. Follows(k.fresh, Newest[d])
    BY <1>2, <1>3, <1>7 DEF GInv, RereadsFollow
  <2>8. SlotsFollow'
    <3>1. ASSUME NEW e \in Devices, slotOf'[e] # 0 PROVE Follows(slots'[slotOf'[e]].ep, Newest'[e])
      <4>1. CASE e = d
        BY <2>2, <2>4, <2>5, <2>6, <2>7, <4>1
      <4>2. CASE e # d
        <5>1. slotOf'[e] = slotOf[e] /\ slotOf[e] \in 1 .. Len(slots)
          BY <2>3, <2>5, <3>1, <4>2 DEF LInv, SlotsOK
        <5> QED
          BY <2>4, <2>6, <3>1, <5>1 DEF GInv, SlotsFollow
      <4> QED
        BY <4>1, <4>2
    <3> QED
      BY <3>1 DEF SlotsFollow
  <2>9. TasksKeep
    <3>1. task'[t] = m /\ \A u \in Tasks : u # t => task'[u] = task[u]
      BY <1>5 DEF Goto, LInv, TasksOK
    <3>2. ASSUME NEW u \in Tasks, task'[u].pc = "insert"
          PROVE  task'[u] = task[u] /\ (slotOf[task[u].r.dev] # 0 => slotOf'[task[u].r.dev] # 0)
      <4>1. PICK v, e : v = task[u] /\ e = v.r.dev
        OBVIOUS
      <4>2. task'[u] = v /\ v.pc = "insert" /\ TaskOK(u, v)
        BY <1>5, <3>1, <3>2, <4>1 DEF LInv, TasksOK
      <4>3. e \in Devices
        BY <4>1, <4>2, RequestsAssumption DEF TaskOK, Of
      <4>4. slotOf[e] # 0 => slotOf'[e] # 0
        BY <2>5, <4>3
      <4> QED
        BY <4>1, <4>2, <4>4
    <3>3. ASSUME NEW u \in Tasks, task'[u].pc = "send" PROVE task'[u] = task[u]
      BY <1>5, <3>1, <3>3
    <3> QED
      BY <3>2, <3>3 DEF TasksKeep
  <2>a. RereadsFollow' /\ UnsentIsOlder' /\ QueuedIsOlder' /\ AdmittedFollow' /\ RetiredFirst'
    BY <1>1, <2>6, <2>9, RereadsStay, UnsentStays, QueuedStays, AdmittedStays, RetiredStays DEF GInv
  <2>b. PromisedIsOlder'
    BY <1>1, <2>6 DEF GInv, PromisedIsOlder
  <2> QED
    BY <2>8, <2>a, <2>b DEF GInv
<1> QED
  BY <1>6, <1>7

\* The request is denied; a slot made for it is withdrawn, which no one is about to make again.
LEMMA GensRefuse ==
  ASSUME LInv, GInv, NoneWithdrawn, NEW t \in Tasks, At(t, "admit"), Refuse(t), Aside
  PROVE  GInv'
<1>1. UNCHANGED <<hot, face, devs, promised>>
  BY DEF Refuse, Aside, engine
<1>2. PICK k, i, d, n : k = task[t] /\ i = k.slot /\ d = k.r.dev /\ n = Idle
  OBVIOUS
<1>3. TaskOK(t, k) /\ k.pc = "admit" /\ Goto(t, n) /\ n.pc = "idle"
  BY <1>2 DEF LInv, TasksOK, At, Refuse, Idle
<1>4. i \in 1 .. Len(slots) /\ slotOf[d] = i /\ d \in Devices
  BY <1>2, <1>3, RequestsAssumption DEF TaskOK, Of
<1>5. slots' = [slots EXCEPT ![i].holder = None]
  BY <1>2 DEF Refuse, Unlocked
<1>6. QueueKeeps
  <2>1. PICK s : s = task[t].s
    OBVIOUS
  <2>2. drop_exact_session(s) \/ commands' = commands
    BY <2>1 DEF Refuse, Deny
  <2> QED
    BY <2>2, DropOther DEF LInv
<1>7. slotOf \in [Devices -> Nat]
  BY DEF LInv, SlotsOK
<1>8. CASE ~(k.created /\ ~getconf_credential_access(k.r))
  <2>1. slotOf' = slotOf
    <3>1. slotOf' = [slotOf EXCEPT ![d] = slotOf[d]]
      BY <1>2, <1>8 DEF Refuse
    <3> QED
      BY <1>4, <1>7, <3>1
  <2>2. SlotsKeep
    BY <1>4, <1>5, <2>1, HolderChanged DEF LInv
  <2> QED
    BY <1>1, <1>3, <1>6, <2>1, <2>2, GensQuiet
<1>9. CASE k.created /\ ~getconf_credential_access(k.r)
  <2>1. slotOf' = [slotOf EXCEPT ![d] = 0]
    BY <1>2, <1>4, <1>9 DEF Refuse
  <2>2. slotOf'[d] = 0 /\ \A e \in Devices : e # d => slotOf'[e] = slotOf[e]
    BY <1>4, <1>7, <2>1
  <2>3. SlotsKeep
    <3>1. slots \in Seq(Slot) /\ DOMAIN slots = 1 .. Len(slots) /\ slots[i] \in Slot
      BY <1>4 DEF LInv, SlotsOK
    <3>2. ASSUME NEW e \in Devices, slotOf'[e] # 0
          PROVE  slotOf[e] = slotOf'[e] /\ slots'[slotOf[e]].ep = slots[slotOf[e]].ep
      <4>1. e # d /\ slotOf'[e] = slotOf[e] /\ slotOf[e] \in 1 .. Len(slots)
        BY <1>7, <2>2, <3>2 DEF LInv, SlotsOK
      <4>2. slotOf[e] # i
        BY <1>4, <3>2, <4>1 DEF LInv, SlotsOK
      <4> QED
        BY <1>5, <3>1, <4>1, <4>2
    <3> QED
      BY <3>2 DEF SlotsKeep
  <2>4. Newest' = Newest /\ AdmittedSame
    BY <1>1, RowsLeft, SessionsSame
  <2>5. task'[t] = n /\ \A u \in Tasks : u # t => task'[u] = task[u]
    BY <1>3 DEF Goto, LInv, TasksOK
  <2>6. RereadsFollow'
    <3>1. ASSUME NEW u \in Tasks, task'[u].pc = "insert"
          PROVE  slotOf'[task'[u].r.dev] # 0 \/ Follows(task'[u].fresh, Newest'[task'[u].r.dev])
      <4>1. PICK v, e : v = task[u] /\ e = v.r.dev
        OBVIOUS
      <4>2. u # t /\ task'[u] = v /\ v.pc = "insert" /\ TaskOK(u, v)
        BY <1>3, <2>5, <3>1, <4>1 DEF LInv, TasksOK
      <4>3. e \in Devices
        BY <4>1, <4>2, RequestsAssumption DEF TaskOK, Of
      <4>4. CASE e = d
        <5>1. At(t, "admit") /\ task[t].created /\ ~getconf_credential_access(task[t].r)
          BY <1>2, <1>9
        <5>2. At(u, "insert") /\ task[u].r.dev = task[t].r.dev
          BY <1>2, <4>1, <4>2, <4>4 DEF At
        <5>3. Follows(v.fresh, Newest[e])
          BY <4>1, <5>1, <5>2 DEF NoneWithdrawn
        <5> QED
          BY <2>4, <4>1, <4>2, <5>3
      <4>5. CASE e # d
        <5>1. slotOf[e] # 0 \/ Follows(v.fresh, Newest[e])
          BY <4>1, <4>2 DEF GInv, RereadsFollow
        <5> QED
          BY <2>2, <2>4, <4>1, <4>2, <4>3, <4>5, <5>1
      <4> QED
        BY <4>4, <4>5
    <3> QED
      BY <3>1 DEF RereadsFollow
  <2>7. UnsentIsOlder'
    <3>1. ASSUME NEW u \in Tasks, task'[u].pc = "send" PROVE Announced(task[u].out[3])'
      <4>1. PICK c : c = task[u].out[3]
        OBVIOUS
      <4>2. task'[u] = task[u]
        BY <1>3, <2>5, <3>1
      <4>3. Announced(c)
        BY <3>1, <4>1, <4>2 DEF GInv, UnsentIsOlder
      <4> QED
        BY <2>4, <4>1, <4>2, <4>3 DEF Announced
    <3> QED
      BY <3>1 DEF UnsentIsOlder
  <2>8. SlotsFollow' /\ QueuedIsOlder' /\ AdmittedFollow' /\ RetiredFirst'
    BY <1>1, <1>6, <2>3, <2>4, SlotsStay, QueuedStays, AdmittedStays, RetiredStays DEF GInv
  <2>9. PromisedIsOlder'
    BY <1>1, <2>4 DEF GInv, PromisedIsOlder
  <2> QED
    BY <2>6, <2>7, <2>8, <2>9 DEF GInv
<1> QED
  BY <1>8, <1>9

\* The row of a device advances: what was announced is still older.
LEMMA NewestAdvances ==
  ASSUME LInv, NEW d \in Devices, NEW n \in Epoch, Follows(n, Newest[d]), Newest' = [Newest EXCEPT ![d] = n]
  PROVE  /\ \A e \in Devices, x \in Epoch : Follows(Newest[e], x) => Follows(Newest'[e], x)
         /\ \A c : CommandOK(c) /\ Announced(c) => Announced(c)'
<1>1. Newest'[d] = n /\ \A e \in Devices : e # d => Newest'[e] = Newest[e]
  BY DEF Newest
<1>2. ASSUME NEW e \in Devices, NEW x \in Epoch, Follows(Newest[e], x) PROVE Follows(Newest'[e], x)
  <2>1. CASE e = d
    <3>1. Newest[d] \in Epoch
      BY NewestIsEpoch DEF LInv
    <3>2. Follows(n, x)
      BY <1>2, <2>1, <3>1, FollowsOn
    <3> QED
      BY <1>1, <2>1, <3>2
  <2> QED
    BY <1>1, <1>2, <2>1
<1>3. ASSUME NEW c, CommandOK(c), Announced(c) PROVE Announced(c)'
  <2>1. CASE c.cmd = "tunconf"
    <3>1. c.s \in Sessions /\ c.dev = face[c.s].dev /\ c.ep = face[c.s].ep
      BY <1>3, <2>1 DEF CommandOK
    <3>2. c.dev \in Devices /\ c.ep \in Epoch
      BY <3>1 DEF LInv, FaceOK, Face
    <3>3. Follows(Newest'[c.dev], c.ep)
      BY <1>2, <1>3, <2>1, <3>2 DEF Announced
    <3> QED
      BY <3>3 DEF Announced
  <2> QED
    BY <2>1 DEF Announced
<1> QED
  BY <1>2, <1>3

\* The request is admitted: its epoch follows that of the slot, and so everything before it.
LEMMA GensAdmit ==
  ASSUME LInv, GInv, NEW t \in Tasks, At(t, "admit"), Admit(t), Aside,
         Admits(slots[task[t].slot].ep, task[t].r)
  PROVE  GInv'
<1>1. UNCHANGED <<hot, routes, promised, slotOf>>
  BY DEF Admit, Aside, engine
<1>2. PICK k, i, s, r, d : k = task[t] /\ i = k.slot /\ s = k.s /\ r = k.r /\ d = r.dev
  OBVIOUS
<1>3. TaskOK(t, k) /\ k.pc = "admit"
  BY <1>2 DEF LInv, TasksOK, At
<1>4. i \in 1 .. Len(slots) /\ slotOf[d] = i /\ Of(s, r)
  BY <1>2, <1>3 DEF TaskOK
<1>5. r \in Requests /\ d \in Devices /\ r.ep \in Epoch /\ s \in Sessions /\ face[s].dev = d /\ face[s].ep = r.ep
  BY <1>2, <1>4, RequestsAssumption DEF Of, Epoch, Requests
<1>6. PICK n : n = r.ep
  OBVIOUS
<1>7. slots \in Seq(Slot) /\ DOMAIN slots = 1 .. Len(slots) /\ slotOf \in [Devices -> Nat] /\ slots[i] \in Slot
  BY <1>4 DEF LInv, SlotsOK
<1>8. Follows(n, Newest[d])
  <2>1. Follows(n, slots[i].ep) /\ Follows(slots[i].ep, Newest[d])
    BY <1>2, <1>4, <1>5, <1>6, <1>7 DEF Admits, GInv, SlotsFollow
  <2>2. slots[i].ep \in Epoch /\ Newest[d] \in Epoch
    BY <1>5, <1>7, NewestIsEpoch DEF Slot, LInv
  <2> QED
    BY <1>5, <1>6, <2>1, <2>2, FollowsOn
<1>9. Newest' = [Newest EXCEPT ![d] = n]
  <2>1. PICK row : row = [pw |-> r.pw, ep |-> r.ep]
    OBVIOUS
  <2>2. row.ep = n /\ devs' = With(devs, d, row)
    BY <1>2, <1>6, <2>1 DEF Admit
  <2>3. /\ DOMAIN devs' = DOMAIN devs \cup {d} /\ devs'[d] = row
        /\ \A e \in DOMAIN devs : e # d => devs'[e] = devs[e]
    BY <2>2 DEF With
  <2>4. \A e \in Devices : Newest'[e] = IF e = d THEN n ELSE Newest[e]
    BY <2>2, <2>3 DEF Newest
  <2> QED
    BY <2>4 DEF Newest
<1>a. /\ \A e \in Devices, x \in Epoch : Follows(Newest[e], x) => Follows(Newest'[e], x)
      /\ \A c : CommandOK(c) /\ Announced(c) => Announced(c)'
  BY <1>5, <1>6, <1>8, <1>9, NewestAdvances
<1>b. Newest'[d] = n /\ \A e \in Devices : e # d => Newest'[e] = Newest[e]
  BY <1>5, <1>9 DEF Newest
<1>c. /\ Grow /\ face'[s].worker = r.worker
      /\ \A u \in Sessions : u # s => face'[u].worker = face[u].worker
  <2>1. face' = [face EXCEPT ![s].dev = r.dev, ![s].ep = r.ep, ![s].worker = r.worker]
    BY <1>2 DEF Admit
  <2> QED
    BY <1>1, <1>4, <2>1, FaceAdmitted DEF LInv
<1>d. QueueKeeps
  <2>1. PICK R : R = Purged(s, r)
    OBVIOUS
  <2>2. IsFiniteSet(R)
    BY <2>1, FS_Subset DEF LInv, RowsOK, Purged
  <2>3. PICK drops \in ForEach(R, DropSession) : command(drops)
    BY <1>2, <2>1 DEF Admit
  <2>4. IsSeq(drops) /\ \A j \in DOMAIN drops : drops[j].cmd = "drop"
    BY <2>2, DropsSeq
  <2> QED
    BY <2>3, <2>4, ListOther DEF LInv
<1>e. PICK o, ch : /\ o = <<[cmd |-> "update", s |-> s, dev |-> r.dev, ep |-> r.ep, worker |-> r.worker, reg |-> 0],
                            [cmd |-> "auth", s |-> s, dev |-> r.dev, ep |-> r.ep, worker |-> r.worker, reg |-> 0],
                            [cmd |-> "tunconf", s |-> s, dev |-> r.dev, ep |-> r.ep, worker |-> r.worker, reg |-> 0],
                            [cmd |-> "activate", s |-> s, dev |-> r.dev, ep |-> r.ep, worker |-> r.worker, reg |-> 0]>>
                   /\ Goto(t, [pc |-> "send", slot |-> i, changed |-> ch, out |-> o])
  BY <1>2 DEF Admit
<1>f. PICK m : m = [pc |-> "send", slot |-> i, changed |-> ch, out |-> o]
  OBVIOUS
<1>g. /\ task'[t] = m /\ m.pc = "send" /\ m.out = o /\ o[3].cmd = "tunconf" /\ o[3].dev = d /\ o[3].ep = n
      /\ \A u \in Tasks : u # t => task'[u] = task[u]
  <2>1. Goto(t, m) /\ m.pc = "send" /\ m.out = o
    BY <1>e, <1>f
  <2>2. o[3] = [cmd |-> "tunconf", s |-> s, dev |-> r.dev, ep |-> r.ep, worker |-> r.worker, reg |-> 0]
    BY <1>e
  <2>3. o[3].cmd = "tunconf" /\ o[3].dev = d /\ o[3].ep = n
    BY <1>2, <1>6, <2>2
  <2>4. task'[t] = m /\ \A u \in Tasks : u # t => task'[u] = task[u]
    BY <2>1 DEF Goto, LInv, TasksOK
  <2> QED
    BY <2>1, <2>3, <2>4
<1>h. SlotsFollow'
  <2>1. PICK x : x = [slots[i] EXCEPT !.ep = n]
    OBVIOUS
  <2>2. slots' = [slots EXCEPT ![i] = x] /\ x.ep = n
    BY <1>2, <1>6, <1>7, <2>1 DEF Admit, Admitted, Slot
  <2>3. ASSUME NEW e \in Devices, slotOf'[e] # 0 PROVE Follows(slots'[slotOf'[e]].ep, Newest'[e])
    <3>1. CASE e = d
      <4>1. slots'[slotOf'[e]] = x
        BY <1>1, <1>4, <1>7, <2>2, <3>1
      <4>2. Follows(n, n)
        BY <1>5, <1>6, FollowsItself
      <4> QED
        BY <1>b, <2>2, <3>1, <4>1, <4>2
    <3>2. CASE e # d
      <4>1. slotOf'[e] = slotOf[e] /\ slotOf[e] \in 1 .. Len(slots) /\ slotOf[e] # i
        BY <1>1, <1>4, <1>5, <1>7, <2>3, <3>2 DEF LInv, SlotsOK
      <4>2. slots'[slotOf[e]] = slots[slotOf[e]]
        BY <1>7, <2>2, <4>1
      <4> QED
        BY <1>1, <1>b, <2>3, <3>2, <4>1, <4>2 DEF GInv, SlotsFollow
    <3> QED
      BY <3>1, <3>2
  <2> QED
    BY <2>3 DEF SlotsFollow
<1>i. RereadsFollow'
  <2>1. ASSUME NEW u \in Tasks, task'[u].pc = "insert"
        PROVE  slotOf'[task'[u].r.dev] # 0 \/ Follows(task'[u].fresh, Newest'[task'[u].r.dev])
    <3>1. PICK v, e : v = task[u] /\ e = v.r.dev
      OBVIOUS
    <3>2. task'[u] = v /\ v.pc = "insert" /\ TaskOK(u, v)
      BY <1>g, <2>1, <3>1 DEF LInv, TasksOK
    <3>3. e \in Devices
      BY <3>1, <3>2, RequestsAssumption DEF TaskOK, Of
    <3>4. CASE e = d
      <4>1. slotOf'[e] # 0
        BY <1>1, <1>4, <3>4
      <4> QED
        BY <3>1, <3>2, <4>1
    <3>5. CASE e # d
      <4>1. slotOf[e] # 0 \/ Follows(v.fresh, Newest[e])
        BY <3>1, <3>2 DEF GInv, RereadsFollow
      <4> QED
        BY <1>1, <1>b, <3>1, <3>2, <3>3, <3>5, <4>1
    <3> QED
      BY <3>4, <3>5
  <2> QED
    BY <2>1 DEF RereadsFollow
<1>j. UnsentIsOlder'
  <2>1. ASSUME NEW u \in Tasks, task'[u].pc = "send" PROVE Announced(task[u].out[3])'
    <3>1. CASE u = t
      <4>1. Follows(Newest'[d], n)
        BY <1>5, <1>6, <1>b, FollowsItself
      <4>2. PICK c : c = o[3]
        OBVIOUS
      <4>3. task'[u].out[3] = c /\ c.dev = d /\ c.ep = n
        BY <1>g, <3>1, <4>2
      <4>4. Announced(c)'
        BY <4>1, <4>3 DEF Announced
      <4> QED
        BY <4>3, <4>4 DEF Announced
    <3>2. CASE u # t
      <4>1. PICK c : c = task[u].out[3]
        OBVIOUS
      <4>2. task'[u] = task[u] /\ task[u].pc = "send"
        BY <1>g, <2>1, <3>2
      <4>3. CommandOK(c) /\ Announced(c)
        <5>1. PICK p : p = task[u].out
          OBVIOUS
        <5>2. OutOK(p)
          BY <4>2, <5>1 DEF LInv, TasksOK, TaskOK
        <5>3. CommandOK(p[3])
          BY <5>2 DEF OutOK
        <5>4. Announced(c)
          BY <4>1, <4>2 DEF GInv, UnsentIsOlder
        <5> QED
          BY <4>1, <5>1, <5>3, <5>4
      <4>4. Announced(c)'
        BY <1>a, <4>3
      <4> QED
        BY <4>1, <4>2, <4>4 DEF Announced
    <3> QED
      BY <3>1, <3>2
  <2> QED
    BY <2>1 DEF UnsentIsOlder
<1>k. \A j \in DOMAIN commands' : commands'[j].cmd = "tunconf" =>
        /\ j \in DOMAIN commands /\ commands[j] = commands'[j]
        /\ CommandOK(commands[j]) /\ Announced(commands[j])
  BY <1>d DEF QueueKeeps, GInv, QueuedIsOlder, LInv, QueueOK
<1>l. QueuedIsOlder'
  <2>1. ASSUME NEW j \in DOMAIN commands', commands'[j].cmd = "tunconf"
        PROVE  Follows(Newest'[commands'[j].dev], commands'[j].ep)
    <3>1. PICK c : c = commands[j]
      OBVIOUS
    <3>2. commands'[j] = c /\ CommandOK(c) /\ Announced(c)
      BY <1>k, <2>1, <3>1
    <3>3. Announced(c)'
      BY <1>a, <3>2
    <3> QED
      BY <2>1, <3>2, <3>3 DEF Announced
  <2> QED
    BY <2>1 DEF QueuedIsOlder, Announced
<1>m. PromisedIsOlder'
  BY <1>1, <1>a DEF GInv, PromisedIsOlder, LInv, RowsOK
<1>n. \A x \in Epoch : Follows(Newest[d], x) => Follows(n, x)
  BY <1>5, <1>a, <1>b
<1>o. ASSUME NEW u \in DOMAIN hot', face'[u].worker # 0, u # s
      PROVE  u \in DOMAIN hot /\ face[u].worker # 0 /\ face'[u].dev = face[u].dev /\ face'[u].ep = face[u].ep
  BY <1>1, <1>c, <1>o DEF LInv, HotOK, Grow
<1>p. face'[s].dev = d /\ face'[s].ep = n
  BY <1>5, <1>6, <1>c DEF Grow
<1>q. AdmittedFollow'
  <2>1. ASSUME NEW u \in DOMAIN hot', face'[u].worker # 0 PROVE Follows(face'[u].ep, promised'[face'[u].dev])
    <3>1. CASE u = s
      <4>1. Follows(Newest[d], promised[d]) /\ promised[d] \in Epoch
        BY <1>5 DEF GInv, PromisedIsOlder, LInv, RowsOK
      <4> QED
        BY <1>1, <1>n, <1>p, <3>1, <4>1
    <3>2. CASE u # s
      BY <1>1, <1>o, <2>1, <3>2 DEF GInv, AdmittedFollow
    <3> QED
      BY <3>1, <3>2
  <2> QED
    BY <2>1 DEF AdmittedFollow
<1>r. RetiredFirst'
  <2>1. ASSUME NEW j \in DOMAIN commands', commands'[j].cmd = "tunconf", j = 1
        PROVE  AllFollow(commands[j])'
    <3>1. PICK c : c = commands[j]
      OBVIOUS
    <3>2. commands'[j] = c /\ CommandOK(c) /\ Announced(c) /\ AllFollow(c) /\ c.cmd = "tunconf"
      BY <1>k, <2>1, <3>1 DEF GInv, RetiredFirst
    <3>3. c.ep \in Epoch
      BY <3>2 DEF CommandOK, LInv, FaceOK, Face
    <3>4. ASSUME NEW u \in DOMAIN hot', face'[u].dev = c.dev, face'[u].worker # 0 PROVE Follows(face'[u].ep, c.ep)
      <4>1. CASE u = s
        <5>1. Follows(Newest[d], c.ep)
          BY <1>p, <3>2, <3>4, <4>1 DEF Announced
        <5> QED
          BY <1>n, <1>p, <3>3, <4>1, <5>1
      <4>2. CASE u # s
        BY <1>o, <3>2, <3>4, <4>2 DEF AllFollow
      <4> QED
        BY <4>1, <4>2
    <3> QED
      BY <3>2, <3>4 DEF AllFollow
  <2>2. ASSUME NEW j \in DOMAIN commands', commands'[j].cmd = "tunconf", j # 1
        PROVE  /\ commands'[j - 1].cmd = "auth" /\ commands'[j - 1].dev = commands'[j].dev
               /\ commands'[j - 1].ep = commands'[j].ep
    BY <1>d, <2>2 DEF GInv, RetiredFirst, QueueKeeps
  <2> QED
    BY <2>1, <2>2 DEF RetiredFirst
<1> QED
  BY <1>h, <1>i, <1>j, <1>l, <1>m, <1>q, <1>r DEF GInv


\* A TUNCONF is queued right behind the command that retires the sessions before it.
LEMMA QueueExtended ==
  ASSUME LInv, GInv, AdmittedSame, Newest' = Newest, NEW x, IsSeq(x), commands' = commands \o x,
         \A j \in DOMAIN x : x[j].cmd = "tunconf" =>
           /\ j # 1 /\ x[j - 1].cmd = "auth" /\ x[j - 1].dev = x[j].dev /\ x[j - 1].ep = x[j].ep
           /\ Announced(x[j])
  PROVE  QueuedIsOlder' /\ RetiredFirst'
<1>1. PICK q, y : q = commands /\ y = q \o x
  OBVIOUS
<1>2. IsSeq(q) /\ commands' = y
  BY <1>1 DEF LInv, QueueOK
<1>3. /\ IsSeq(y) /\ Len(q) \in Nat /\ Len(x) \in Nat /\ Len(y) = Len(q) + Len(x)
      /\ \A i \in DOMAIN q : i \in DOMAIN y /\ y[i] = q[i]
      /\ \A i \in DOMAIN y : \/ i \in DOMAIN q /\ y[i] = q[i]
                             \/ \E j \in DOMAIN x : i = Len(q) + j /\ y[i] = x[j]
  <2>1. /\ IsSeq(q \o x) /\ Len(q) \in Nat /\ Len(x) \in Nat /\ Len(q \o x) = Len(q) + Len(x)
        /\ \A i \in DOMAIN q : i \in DOMAIN (q \o x) /\ (q \o x)[i] = q[i]
        /\ \A i \in DOMAIN (q \o x) : \/ i \in DOMAIN q /\ (q \o x)[i] = q[i]
                                      \/ \E j \in DOMAIN x : i = Len(q) + j /\ (q \o x)[i] = x[j]
    BY <1>2, Concatenated
  <2> QED
    BY <1>1, <2>1, Zenon
<1>4. DOMAIN q = 1 .. Len(q) /\ DOMAIN x = 1 .. Len(x) /\ DOMAIN y = 1 .. Len(y)
  BY <1>2, <1>3 DEF IsSeq
<1>5. ASSUME NEW i \in DOMAIN y, y[i].cmd = "tunconf", i \in DOMAIN q
      PROVE  /\ Announced(y[i]) /\ (i = 1 => AllFollow(y[i]))
             /\ i # 1 => y[i - 1].cmd = "auth" /\ y[i - 1].dev = y[i].dev /\ y[i - 1].ep = y[i].ep
  <2>1. y[i] = q[i] /\ (i # 1 => i - 1 \in DOMAIN q /\ y[i - 1] = q[i - 1])
    BY <1>3, <1>4, <1>5
  <2> QED
    BY <1>1, <1>5, <2>1 DEF GInv, QueuedIsOlder, RetiredFirst
<1>6. ASSUME NEW i \in DOMAIN y, y[i].cmd = "tunconf", i \notin DOMAIN q
      PROVE  /\ Announced(y[i]) /\ i # 1
             /\ y[i - 1].cmd = "auth" /\ y[i - 1].dev = y[i].dev /\ y[i - 1].ep = y[i].ep
  <2>1. PICK j \in DOMAIN x : i = Len(q) + j /\ y[i] = x[j]
    BY <1>3, <1>6
  <2>2. j # 1 /\ x[j - 1].cmd = "auth" /\ x[j - 1].dev = x[j].dev /\ x[j - 1].ep = x[j].ep /\ Announced(x[j])
    BY <1>6, <2>1
  <2>3. i - 1 \in DOMAIN y /\ i - 1 \notin DOMAIN q /\ i # 1
    BY <1>3, <1>4, <2>1, <2>2
  <2>4. PICK l \in DOMAIN x : i - 1 = Len(q) + l /\ y[i - 1] = x[l]
    BY <1>3, <2>3
  <2>5. l = j - 1
    BY <1>3, <1>4, <2>1, <2>4
  <2> QED
    BY <2>1, <2>2, <2>3, <2>4, <2>5
<1>7. ASSUME NEW c, Announced(c) PROVE Announced(c)'
  BY <1>7 DEF Announced
<1>8. \A i \in DOMAIN y : y[i].cmd = "tunconf" => Announced(y[i])'
  BY <1>5, <1>6, <1>7
<1>9. QueuedIsOlder'
  BY <1>2, <1>8 DEF QueuedIsOlder, Announced
<1>a. \A i \in DOMAIN y : y[i].cmd = "tunconf" /\ i = 1 => i \notin DOMAIN q \/ AllFollow(y[i])'
  BY <1>5, AllStay
<1>b. ASSUME NEW i \in DOMAIN y, y[i].cmd = "tunconf"
      PROVE  \/ i = 1 /\ AllFollow(y[i])'
             \/ i # 1 /\ y[i - 1].cmd = "auth" /\ y[i - 1].dev = y[i].dev /\ y[i - 1].ep = y[i].ep
  BY <1>5, <1>6, <1>a, <1>b
<1>c. RetiredFirst'
  BY <1>2, <1>b DEF RetiredFirst, AllFollow
<1> QED
  BY <1>9, <1>c

\* Some of what handle_getconf sends, from the front.
LEMMA Prefixes ==
  ASSUME NEW p, IsSeq(p), NEW n \in Nat, n <= Len(p)
  PROVE  \E x : /\ x = SubSeq(p, 1, n) /\ IsSeq(x)
                /\ \A j \in DOMAIN x : j \in DOMAIN p /\ j \in Nat /\ x[j] = p[j]
<1>0. PICK x : x = SubSeq(p, 1, n)
  OBVIOUS
<1>1. PICK S : p \in Seq(S)
  BY DEF IsSeq
<1>2. CASE n = 0
  <2>1. x = <<>>
    BY <1>0, <1>1, <1>2
  <2> QED
    BY <1>0, <2>1, Singles
<1>3. CASE n # 0
  <2>1. x \in Seq(S) /\ DOMAIN x = 1 .. n /\ \A j \in 1 .. n : x[j] = p[j] /\ j \in DOMAIN p
    BY <1>0, <1>1, <1>3
  <2>2. IsSeq(x)
    BY <2>1, AnySeq
  <2>3. \A j \in DOMAIN x : j \in DOMAIN p /\ j \in Nat /\ x[j] = p[j]
    BY <2>1
  <2> QED
    BY <1>0, <2>2, <2>3
<1> QED
  BY <1>2, <1>3

LEMMA FourSent ==
  ASSUME NEW p, DOMAIN p = 1 .. 4, \E S : p \in [1 .. 4 -> S]
  PROVE  IsSeq(p) /\ Len(p) = 4
<1>0. p = [j \in 1 .. 4 |-> p[j]]
  OBVIOUS
<1>1. PICK T : T = {p[j] : j \in 1 .. 4}
  OBVIOUS
<1>2. \A j \in 1 .. 4 : p[j] \in T
  BY <1>1
<1>3. PICK n \in Nat : n = 4
  OBVIOUS
<1>4. p = [j \in 1 .. n |-> p[j]]
  BY <1>0, <1>3
<1>5. p \in Seq(T) /\ Len(p) = n
  BY <1>2, <1>3, <1>4
<1> QED
  BY <1>3, <1>5, AnySeq

LEMMA GensSend == ASSUME LInv, GInv, NEW t \in Tasks, SendCommands(t) PROVE GInv'
<1>1. UNCHANGED <<hot, routes, promised, devs, slotOf>>
  BY DEF SendCommands, Aside, engine
<1>2. PICK k, i, o, n : k = task[t] /\ i = k.slot /\ o = k.out /\ n = registrations + 1
  OBVIOUS
<1>3. TaskOK(t, k) /\ k.pc = "send"
  BY <1>2 DEF LInv, TasksOK, At, SendCommands
<1>4. i \in 1 .. Len(slots) /\ slots' = [slots EXCEPT ![i].holder = None] /\ OutOK(o)
  BY <1>2, <1>3 DEF TaskOK, SendCommands, Unlocked
<1>5. PICK p : p = [o EXCEPT ![4].reg = n]
  OBVIOUS
<1>6. /\ IsSeq(p) /\ Len(p) = 4 /\ p[1] = o[1] /\ p[2] = o[2] /\ p[3] = o[3]
      /\ p[4].cmd = "activate" /\ p[4].s = o[3].s
  <2>1. PICK x : x = o[4]
    OBVIOUS
  <2>2. PICK y : y = [x EXCEPT !.reg = n]
    OBVIOUS
  <2>3. p = [o EXCEPT ![4] = y]
    BY <1>5, <2>1, <2>2
  <2>4. x = [cmd |-> "activate", s |-> o[3].s, dev |-> o[3].dev, ep |-> o[3].ep, worker |-> x.worker, reg |-> 0]
    BY <1>4, <2>1 DEF OutOK
  <2>5. y.cmd = "activate" /\ y.s = o[3].s
    BY <2>2, <2>4
  <2>6. IsSeq(p) /\ Len(p) = 4 /\ p[1] = o[1] /\ p[2] = o[2] /\ p[3] = o[3] /\ p[4] = y
    <3>1. DOMAIN o = 1 .. 4
      BY <1>4 DEF OutOK, IsSeq
    <3>2. DOMAIN p = 1 .. 4 /\ p[1] = o[1] /\ p[2] = o[2] /\ p[3] = o[3] /\ p[4] = y
      BY <2>3, <3>1
    <3>3. \E S : p \in [1 .. 4 -> S]
      <4>1. PICK T : T = {o[j] : j \in 1 .. 4}
        OBVIOUS
      <4>2. o \in [1 .. 4 -> T \cup {y}]
        <5>1. o \in Seq({o[j] : j \in DOMAIN o}) /\ Len(o) = 4
          BY <1>4 DEF OutOK, IsSeq
        <5> QED
          BY <3>1, <4>1, <5>1
      <4>3. p \in [1 .. 4 -> T \cup {y}]
        BY <2>3, <4>2
      <4> QED
        BY <4>3
    <3>4. IsSeq(p) /\ Len(p) = 4
      BY <3>2, <3>3, FourSent, Zenon
    <3> QED
      BY <3>2, <3>4
  <2> QED
    BY <2>5, <2>6
<1>7. PICK s : s = p[4].s
  OBVIOUS
<1>8. /\ face' = face \/ face' = [face EXCEPT ![s].has = TRUE]
      /\ \/ commands' = commands \o p
         \/ \E sent \in 0 .. 3 : commands' = commands \o SubSeq(p, 1, sent)
      /\ \E m \in {Idle, [pc |-> "refresh", pw |-> None]} : Goto(t, m)
  BY <1>2, <1>5, <1>7 DEF SendCommands, FetchAddRegistration, NewRegistration
<1>9. AdmittedSame
  <2>1. s \in Sessions
    BY <1>4, <1>6, <1>7 DEF OutOK, CommandOK
  <2>2. CASE face' = face
    BY <1>1, <2>2, SessionsSame
  <2>3. CASE face' = [face EXCEPT ![s].has = TRUE]
    <3>1. Steady
      BY <1>1, <2>1, <2>3, FaceMarked DEF LInv
    <3> QED
      BY <3>1, AdmittedStay DEF LInv
  <2> QED
    BY <1>8, <2>2, <2>3
<1>a. Newest' = Newest /\ SlotsKeep
  BY <1>1, <1>4, RowsLeft, HolderChanged DEF LInv
<1>b. TasksKeep
  <2>1. PICK m : Goto(t, m) /\ m \in {Idle, [pc |-> "refresh", pw |-> None]}
    BY <1>8
  <2>2. m.pc = "idle" \/ m.pc = "refresh"
    BY <2>1 DEF Idle
  <2>3. task'[t] = m /\ \A u \in Tasks : u # t => task'[u] = task[u]
    BY <2>1 DEF Goto, LInv, TasksOK
  <2> QED
    BY <1>1, <2>2, <2>3 DEF TasksKeep
<1>c. PICK x : IsSeq(x) /\ commands' = commands \o x /\ \A j \in DOMAIN x : j \in DOMAIN p /\ j \in Nat /\ x[j] = p[j]
  <2>1. CASE commands' = commands \o p
    <3>1. DOMAIN p = 1 .. 4
      BY <1>6 DEF IsSeq
    <3>2. \A j \in DOMAIN p : j \in DOMAIN p /\ j \in Nat /\ p[j] = p[j]
      BY <3>1
    <3> QED
      BY <1>6, <2>1, <3>2, Zenon
  <2>2. CASE \E sent \in 0 .. 3 : commands' = commands \o SubSeq(p, 1, sent)
    <3>1. PICK sent \in 0 .. 3 : commands' = commands \o SubSeq(p, 1, sent)
      BY <2>2
    <3>2. sent \in Nat /\ sent <= Len(p) /\ IsSeq(p)
      BY <1>6
    <3>3. PICK z : /\ z = SubSeq(p, 1, sent) /\ IsSeq(z)
                   /\ \A j \in DOMAIN z : j \in DOMAIN p /\ j \in Nat /\ z[j] = p[j]
      BY <3>2, Prefixes, Zenon
    <3>4. commands' = commands \o z
      BY <3>1, <3>3
    <3> QED
      BY <3>3, <3>4, Zenon
  <2> QED
    BY <1>8, <2>1, <2>2
<1>d. ASSUME NEW j \in DOMAIN x, x[j].cmd = "tunconf"
      PROVE  /\ j # 1 /\ x[j - 1].cmd = "auth" /\ x[j - 1].dev = x[j].dev /\ x[j - 1].ep = x[j].ep
             /\ Announced(x[j])
  <2>1. j \in 1 .. 4 /\ x[j] = p[j]
    BY <1>6, <1>c DEF IsSeq
  <2>2. /\ p[1].cmd = "update" /\ p[2].cmd = "auth" /\ p[2].dev = p[3].dev /\ p[2].ep = p[3].ep
    BY <1>4, <1>6 DEF OutOK
  <2>3. j = 1 \/ j = 2 \/ j = 3 \/ j = 4
    BY <2>1
  <2>4. j = 3
    BY <1>6, <1>d, <2>1, <2>2, <2>3
  <2>5. DOMAIN x = 1 .. Len(x) /\ Len(x) \in Nat
    BY <1>c DEF IsSeq
  <2>6. j - 1 = 2 /\ 2 \in DOMAIN x
    BY <2>4, <2>5
  <2>7. x[2] = p[2]
    BY <1>c, <2>6
  <2>8. Announced(p[3])
    BY <1>2, <1>3, <1>6 DEF GInv, UnsentIsOlder
  <2> QED
    BY <2>1, <2>2, <2>4, <2>6, <2>7, <2>8
<1>e. QueuedIsOlder' /\ RetiredFirst'
  BY <1>9, <1>a, <1>c, <1>d, QueueExtended
<1>f. SlotsFollow' /\ RereadsFollow' /\ UnsentIsOlder' /\ AdmittedFollow'
  BY <1>1, <1>9, <1>a, <1>b, SlotsStay, RereadsStay, UnsentStays, AdmittedStays DEF GInv
<1>g. PromisedIsOlder'
  BY <1>1, <1>a DEF GInv, PromisedIsOlder
<1> QED
  BY <1>e, <1>f, <1>g DEF GInv


\* The panel and the janitors
LEMMA GensChange ==
  ASSUME LInv, GInv, NEW a \in Admins, NEW p \in Passwords,
         \/ client_delete(a, p) \/ client_toggle(a, p) \/ client_unbind(a, p) \/ run_password_janitor_cycle(a, p)
  PROVE  GInv'
<1>1. PICK kind, state, bindings, n : /\ ChangePassword(a, kind, p, state, bindings, n)
                                      /\ bindings = devs \/ bindings = Unbound(p)
                                      /\ n.pc \in {"wait", "cut"}
  <2>1. CASE client_delete(a, p)
    BY <2>1 DEF client_delete
  <2>2. CASE client_toggle(a, p)
    BY <2>2 DEF client_toggle
  <2>3. CASE client_unbind(a, p)
    BY <2>3 DEF client_unbind
  <2>4. CASE run_password_janitor_cycle(a, p)
    BY <2>4 DEF run_password_janitor_cycle
  <2> QED
    BY <2>1, <2>2, <2>3, <2>4
<1>2. UNCHANGED <<hot, face, promised, commands, slots, slotOf>> /\ Goto(a, n) /\ devs' = bindings
  BY <1>1 DEF ChangePassword, Aside, engine
<1>3. Newest' = Newest
  <2>1. ASSUME NEW x \in Row, NEW b PROVE [x EXCEPT !.pw = b].ep = x.ep
    BY DEF Row
  <2>2. ASSUME devs' = Unbound(p), NEW d \in DOMAIN devs PROVE devs'[d].ep = devs[d].ep
    <3>1. PICK x \in Row : x = devs[d]
      BY DEF LInv, RowsOK
    <3>2. devs'[d] = [x EXCEPT !.pw = IF @ = p THEN None ELSE @]
      BY <2>2, <3>1 DEF Unbound
    <3>3. PICK b : b = IF x.pw = p THEN None ELSE x.pw
      OBVIOUS
    <3>4. devs'[d] = [x EXCEPT !.pw = b]
      BY <3>2, <3>3
    <3> QED
      BY <2>1, <3>1, <3>4
  <2>3. DOMAIN devs' = DOMAIN devs /\ \A d \in DOMAIN devs : devs'[d].ep = devs[d].ep
    BY <1>1, <1>2, <2>2 DEF Unbound
  <2> QED
    BY <2>3 DEF Newest
<1> QED
  BY <1>1, <1>2, <1>3, SessionsSame, SlotsLeft, QueueIsSame, TaskTurns

LEMMA GensAdmin == ASSUME LInv, GInv, NEW a \in Admins, Admin(a) PROVE GInv'
<1>1. CASE wait_for_persistence(a)
  <2>1. UNCHANGED <<hot, face, promised, commands, devs, slots, slotOf>>
    BY <1>1 DEF wait_for_persistence, Aside, engine
  <2>2. PICK k : k = task[a]
    OBVIOUS
  <2>3. k = [pc |-> "wait", pw |-> k.pw, reload |-> k.reload]
    BY <1>1, <2>2 DEF wait_for_persistence, At, LInv, TasksOK, TaskOK
  <2>4. PICK n : n = [k EXCEPT !.pc = "cut"]
    OBVIOUS
  <2>5. n.pc = "cut" /\ Idle.pc = "idle"
    BY <2>3, <2>4 DEF Idle
  <2>6. Goto(a, n) \/ Goto(a, Idle)
    BY <1>1, <2>2, <2>4 DEF wait_for_persistence
  <2>7. PICK m : Goto(a, m) /\ m.pc \notin {"insert", "send"}
    BY <2>5, <2>6
  <2> QED
    BY <2>1, <2>7, SessionsSame, RowsLeft, SlotsLeft, QueueIsSame, TaskTurns
<1>2. CASE drop_password_sessions(a)
  <2>1. UNCHANGED <<hot, face, promised, devs, slots, slotOf>>
    BY <1>2 DEF drop_password_sessions, Aside, engine
  <2>2. PICK c, n : c = [cmd |-> "password", pw |-> task[a].pw] /\ n = [pc |-> "refresh", pw |-> task[a].pw]
    OBVIOUS
  <2>3. c.cmd = "password" /\ n.pc = "refresh" /\ Idle.pc = "idle"
    BY <2>2 DEF Idle
  <2>4. command(<<c>>) /\ (Goto(a, n) \/ Goto(a, Idle))
    BY <1>2, <2>2 DEF drop_password_sessions
  <2>5. PICK m : Goto(a, m) /\ m.pc \notin {"insert", "send"}
    BY <2>3, <2>4
  <2>6. QueueKeeps
    BY <2>3, <2>4, OneCommanded DEF LInv
  <2> QED
    BY <2>1, <2>5, <2>6, SessionsSame, RowsLeft, SlotsLeft, TaskTurns
<1> QED
  BY <1>1, <1>2, GensChange DEF Admin

LEMMA GensCredentials ==
  ASSUME LInv, GInv, NEW a \in Tasks \cup Admins, build_credentials(a) \/ refresh_credentials(a)
  PROVE  GInv'
<1>1. UNCHANGED <<hot, face, promised, devs, slots, slotOf>>
  BY DEF build_credentials, refresh_credentials, Aside, engine
<1>2. PICK m : Goto(a, m) /\ m.pc \notin {"insert", "send"}
  <2>1. PICK n : n = [pc |-> "publish", pw |-> task[a].pw, creds |-> Active]
    OBVIOUS
  <2>2. n.pc = "publish" /\ Idle.pc = "idle"
    BY <2>1 DEF Idle
  <2>3. Goto(a, n) \/ Goto(a, Idle)
    BY <2>1 DEF build_credentials, refresh_credentials
  <2> QED
    BY <2>2, <2>3
<1>3. QueueKeeps
  <2>1. PICK c : c = [cmd |-> "credentials", creds |-> task[a].creds]
    OBVIOUS
  <2>2. c.cmd = "credentials"
    BY <2>1
  <2>3. commands' = commands \/ commands' = Append(commands, c)
    BY <2>1 DEF build_credentials, refresh_credentials
  <2> QED
    BY <2>2, <2>3, QueueIsSame, OneOther DEF LInv
<1> QED
  BY <1>1, <1>2, <1>3, SessionsSame, RowsLeft, SlotsLeft, TaskTurns

LEMMA GensPrune == ASSUME LInv, GInv, prune_public_sessions PROVE GInv'
<1>1. UNCHANGED <<hot, face, promised, devs, slots, slotOf, task>>
  BY DEF prune_public_sessions, Aside, engine
<1>2. PICK s : drop_exact_session(s)
  BY DEF prune_public_sessions
<1>3. QueueKeeps
  BY <1>2, DropOther DEF LInv
<1> QED
  BY <1>1, <1>3, SessionsSame, ControlKept, GenerationsStay

\* A slot is swept while nobody is about to make one: what is read next is the row.
LEMMA GensSweep == ASSUME LInv, GInv, device_epoch_sweeper PROVE GInv'
<1>1. UNCHANGED <<hot, face, promised, devs, slots, task, commands>>
  BY DEF device_epoch_sweeper, Aside, engine
<1>2. PICK d \in Devices : slotOf' = [slotOf EXCEPT ![d] = 0]
  BY DEF device_epoch_sweeper
<1>3. \A t \in Tasks : task[t] # Idle => task[t].pc \in {"refresh", "publish"}
  BY DEF device_epoch_sweeper
<1>4. Idle.pc = "idle"
  BY DEF Idle
<1>5. \A t \in Tasks : task[t].pc \notin {"insert", "send"}
  BY <1>3, <1>4
<1>6. TasksKeep
  BY <1>1, <1>5 DEF TasksKeep
<1>7. SlotsKeep
  BY <1>1, <1>2 DEF SlotsKeep, LInv, SlotsOK
<1> QED
  BY <1>1, <1>6, <1>7, SessionsSame, RowsLeft, QueueIsSame, GenerationsStay

LEMMA InitiallyGInv == ASSUME Init PROVE GInv
<1>1. /\ hot = <<>> /\ commands = <<>> /\ slotOf = [d \in Devices |-> 0] /\ devs = <<>>
      /\ task = [t \in Tasks \cup Admins |-> Idle] /\ promised = [d \in Devices |-> NoEpoch]
  BY DEF Init
<1>2. DOMAIN (<<>>) = {}
  BY Singles
<1>3. \A t \in Tasks : task[t].pc = "idle"
  BY <1>1 DEF Idle
<1>4. SlotsFollow /\ RereadsFollow /\ UnsentIsOlder
  BY <1>1, <1>3 DEF SlotsFollow, RereadsFollow, UnsentIsOlder
<1>5. PromisedIsOlder
  BY <1>1 DEF PromisedIsOlder, Follows
<1>6. QueuedIsOlder /\ RetiredFirst /\ AdmittedFollow
  BY <1>1, <1>2 DEF QueuedIsOlder, RetiredFirst, AdmittedFollow
<1> QED
  BY <1>4, <1>5, <1>6 DEF GInv

LEMMA GensTask ==
  ASSUME LInv, GInv, NoneWithdrawn, ReadTimesOut = FALSE, NEW t \in Tasks, Task(t)
  PROVE  GInv'
<1>1. CASE Decide(t)
  <2>1. At(t, "admit") /\ Aside
    BY <1>1 DEF Decide
  <2>2. \/ Admit(t) /\ Admits(slots[task[t].slot].ep, task[t].r)
        \/ Refuse(t)
    BY <1>1 DEF Decide
  <2> QED
    BY <2>1, <2>2, GensAdmit, GensRefuse
<1> QED
  BY <1>1, GensPreliminary, GensLookup, GensInsert, GensLock, GensTimeout, GensSend, GensIngress, GensEnsure,
     GensDisconnect DEF Task

LEMMA GensEveryStep ==
  ASSUME LInv, GInv, NoneWithdrawn, ReadTimesOut = FALSE, [Next]_vars
  PROVE  GInv'
<1>1. CASE OnUdp
  <2>1. Steady /\ UNCHANGED <<slots, slotOf, devs, task>> /\ promised' = promised /\ commands' = commands
    BY <1>1, UdpSteady
  <2> QED
    BY <2>1, QueueLeft
<1>2. CASE OnTick
  <2>1. Steady /\ UNCHANGED <<slots, slotOf, devs, task>> /\ promised' = promised /\ commands' = commands
    BY <1>2, TickSteady
  <2> QED
    BY <2>1, QueueLeft
<1>3. CASE UNCHANGED vars
  <2>1. UNCHANGED <<hot, routes, face, promised, devs, slots, slotOf, task, commands>>
    BY <1>3 DEF vars, engine, queues, control
  <2> QED
    BY <2>1, SessionsSame, ControlKept, QueueIsSame, GenerationsStay
<1> QED
  BY <1>1, <1>2, <1>3, GensCommand, GensLoop, GensTask, GensAdmin, GensCredentials, GensPrune, GensSweep DEF Next

\* Generations never go back.  Once a device has been sent the TUNCONF of a generation, no session of
\* an older one, or of the same one with another salt, is on a route of the device: DeviceEpochState,
\* SetAuthoritativeEpoch ahead of the TUNCONF, and the lock a handler keeps until its commands are
\* sent see to it (handle_getconf, lock_device_epoch), whatever was lost.  It takes a database that
\* answers in time, and that no slot is withdrawn while another request is about to make it again
\* from a row it read before.
THEOREM NoOlderIsRouted ==
  ASSUME ReadTimesOut = FALSE
  PROVE  Spec /\ []NoneWithdrawn => []NoOlderGeneration
<1>1. Init => GInv
  BY InitiallyGInv
<1>2. LInv /\ NoneWithdrawn /\ GInv /\ [Next]_vars => GInv'
  BY GensEveryStep
<1>3. LInv /\ GInv => NoOlderGeneration
  <2> SUFFICES ASSUME LInv, GInv, NEW d \in Devices, NEW e \in routes[d]
               PROVE  Follows(hot[e.s].ep, promised[d])
    BY DEF NoOlderGeneration
  <2>1. e.s \in DOMAIN hot /\ hot[e.s].dev = d /\ hot[e.s].reg # 0
    BY DEF LInv, RoutesOK, RoutesAreLive
  <2>2. face[e.s].worker # 0 /\ face[e.s].dev = d /\ face[e.s].ep = hot[e.s].ep
    BY <2>1 DEF LInv, HotOK, SessionOK
  <2> QED
    BY <2>1, <2>2 DEF GInv, AdmittedFollow
<1> QED
  BY <1>1, <1>2, <1>3, SessionInvariant, PTL DEF Spec
=============================================================================
