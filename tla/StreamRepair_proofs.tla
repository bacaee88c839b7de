------------------------ MODULE StreamRepair_proofs -------------------------
(***************************************************************************)
(* Proofs about StreamRepair, for every set of workers and every scenario: *)
(* a worker is restarted at most once for a REPAIR that names it, on       *)
(* however many carriers it arrives and whatever starts again.             *)
(***************************************************************************)
EXTENDS StreamRepair, FiniteSetTheorems, FunctionTheorems, WellFoundedInduction, NaturalsInduction,
        TLAPS

-----------------------------------------------------------------------------
\* Sets

LEMMA MinIn ==
  ASSUME NEW S, S \subseteq Nat, S # {}
  PROVE  Min(S) \in S
<1> DEFINE R == OpToRel(<, Nat)
<1>1. IsWellFoundedOn(R, Nat)
  BY NatLessThanWellFounded
<1>2. PICK x \in S : \A y \in S : ~(<<y, x>> \in R)
  BY <1>1, WFMin
<1>3. \A y \in Nat : <<y, x>> \in R <=> y < x
  BY DEF OpToRel
<1>4. x \in S /\ \A y \in S : y \in Nat /\ x \in Nat /\ ~(y < x)
  BY <1>2, <1>3, Zenon
<1>5. \A y \in S : x =< y
  BY <1>4
<1> QED
  BY <1>4, <1>5 DEF Min

LEMMA FieldsFinite ==
  ASSUME NEW f, IsFiniteSet(DOMAIN f)
  PROVE  IsFiniteSet({f[x] : x \in DOMAIN f})
<1> DEFINE T == {f[x] : x \in DOMAIN f}
           g == [x \in DOMAIN f |-> f[x]]
<1>1. g \in [DOMAIN f -> T] /\ \A t \in T : \E x \in DOMAIN f : g[x] = t
  OBVIOUS
<1>2. g \in Surjection(DOMAIN f, T)
  BY <1>1 DEF Surjection
<1> QED
  BY <1>2, FS_Surjection

LEMMA SequencesFinite ==
  ASSUME TypeOK, NEW w
  PROVE  /\ IsFiniteSet(Sequences(w)) /\ Cardinality(Sequences(w)) \in Nat
         /\ IsFiniteSet(Later(w)) /\ Cardinality(Later(w)) \in Nat
         /\ Cardinality(Later(w)) <= Cardinality(Sequences(w))
         /\ IsFiniteSet(Winners(w)) /\ Cardinality(Winners(w)) \in Nat
<1> DEFINE f == [m \in Naming(w) |-> m.seq]
           g == [r \in Readers(w) |-> busy[r].seq]
<1>1. IsFiniteSet(Naming(w)) /\ IsFiniteSet(Readers(w)) /\ IsFiniteSet(Winners(w))
  <2>1. IsFiniteSet(net) /\ IsFiniteSet(Workers)
    BY WorkersAssumption DEF TypeOK, NetOK
  <2> QED
    BY <2>1, FS_Subset DEF Naming, Readers, Winners
<1>2. IsFiniteSet({f[m] : m \in Naming(w)}) /\ IsFiniteSet({g[r] : r \in Readers(w)})
  <2>1. DOMAIN f = Naming(w) /\ DOMAIN g = Readers(w)
    OBVIOUS
  <2> HIDE DEF f, g
  <2> QED
    BY <1>1, <2>1, FieldsFinite
<1>3. Sequences(w) = {f[m] : m \in Naming(w)} \cup {g[r] : r \in Readers(w)}
  BY DEF Sequences
<1> HIDE DEF f, g
<1>4. IsFiniteSet(Sequences(w))
  BY <1>2, <1>3, FS_Union
<1>5. Later(w) \in SUBSET Sequences(w)
  BY DEF Later
<1> QED
  BY <1>1, <1>4, <1>5, FS_Subset, FS_CardinalityType

-----------------------------------------------------------------------------
\* What a step leaves alone

Spends == {"drops", "failures", "losses", "early", "restarts"}

LEMMA Spending ==
  ASSUME ScenarioOK, left' = left \/ \E k \in Spends : Spend(k)
  PROVE  ScenarioOK' /\ Desired' = Desired
<1>1. left \in [desired : Nat, drops : Nat, failures : Nat, losses : Nat, early : Nat, restarts : Nat]
  BY DEF ScenarioOK
<1>2. ASSUME NEW k \in Spends, Spend(k)
      PROVE  left' \in [desired : Nat, drops : Nat, failures : Nat, losses : Nat, early : Nat, restarts : Nat]
             /\ left'.desired = left.desired
  <2>1. CASE k = "drops"
    BY <1>1, <1>2, <2>1 DEF Spend
  <2>2. CASE k = "failures"
    BY <1>1, <1>2, <2>2 DEF Spend
  <2>3. CASE k = "losses"
    BY <1>1, <1>2, <2>3 DEF Spend
  <2>4. CASE k = "early"
    BY <1>1, <1>2, <2>4 DEF Spend
  <2>5. CASE k = "restarts"
    BY <1>1, <1>2, <2>5 DEF Spend
  <2> QED
    BY <2>1, <2>2, <2>3, <2>4, <2>5 DEF Spends
<1> QED
  BY <1>1, <1>2 DEF ScenarioOK, Desired

LEMMA Frame == ASSUME TypeOK, [Next]_vars PROVE ScenarioOK' /\ Desired' = Desired
<1>1. left' = left \/ \E k \in Spends : Spend(k)
  <2> HIDE DEF Spend
  <2>1. \A k : k \in Spends <=> k \in {"drops", "failures", "losses", "early", "restarts"}
    BY DEF Spends
  <2>2. CASE UNCHANGED vars
    BY <2>2 DEF vars
  <2>3. ASSUME NEW w \in Workers, ServerDrops(w) \/ Session(w) \/ Reader(w) \/ Fail(w)
        PROVE  left' = left \/ Spend("drops") \/ Spend("failures")
    BY <2>3 DEF ServerDrops, Session, Begin, Registered, MarkLoad, MarkStore, Observe, Check, Arm,
      InSession, Reader, Receive, LoadLast, CompareExchange, Bump, Fail
  <2>4. CASE reconcile_streams \/ Elapse \/ ServerRestart \/ Lose \/ Rebuild
    BY <2>1, <2>4 DEF reconcile_streams, Elapse, ServerRestart, Lose, Rebuild
  <2> QED
    BY <2>1, <2>2, <2>3, <2>4 DEF Next
<1> QED
  BY <1>1, Spending DEF TypeOK

LEMMA SequencesNat ==
  ASSUME TypeOK, NEW w
  PROVE  Sequences(w) \subseteq Nat
<1>1. \A m \in net : m.seq \in Nat
  BY DEF TypeOK, NetOK, Packets
<1>2. \A r \in Workers : busy[r] # None => busy[r].seq \in Nat
  BY DEF TypeOK, ReadersOK, Commands
<1> QED
  BY <1>1, <1>2 DEF Sequences, Naming, Readers

\* What the invariant says of a worker stays true when its sets shrink.
LEMMA Fewer ==
  ASSUME IInv, NEW w \in Workers, asked'[w] = asked[w], restart'[w] = restart[w],
         Sequences(w)' \subseteq Sequences(w), Later(w)' \subseteq Later(w), Winners(w)' \subseteq Winners(w)
  PROVE  /\ Cardinality(Sequences(w)') <= asked'[w]
         /\ restart'[w] + Cardinality(Winners(w)') + Cardinality(Later(w)') <= asked'[w]
<1>1. TypeOK /\ restart[w] \in Nat /\ asked[w] \in Nat
  BY DEF IInv, TypeOK, SlotsOK, ServerOK
<1>3. /\ IsFiniteSet(Sequences(w)) /\ Cardinality(Sequences(w)) \in Nat
      /\ IsFiniteSet(Later(w)) /\ Cardinality(Later(w)) \in Nat
      /\ IsFiniteSet(Winners(w)) /\ Cardinality(Winners(w)) \in Nat
  BY <1>1, SequencesFinite
<1>4. /\ Cardinality(Sequences(w)') <= Cardinality(Sequences(w))
      /\ Cardinality(Later(w)') <= Cardinality(Later(w))
      /\ Cardinality(Winners(w)') <= Cardinality(Winners(w))
  BY <1>3, FS_Subset
<1>5. /\ Cardinality(Sequences(w)') \in Nat /\ Cardinality(Later(w)') \in Nat
      /\ Cardinality(Winners(w)') \in Nat
  BY <1>3, FS_Subset, FS_CardinalityType
<1>6. /\ Cardinality(Sequences(w)) <= asked[w]
      /\ restart[w] + Cardinality(Winners(w)) + Cardinality(Later(w)) <= asked[w]
  BY DEF IInv, EverySent, RoomForLater
<1> QED
  BY <1>1, <1>3, <1>4, <1>5, <1>6

\* A sequence the slot has now reached pays for one more winner.
LEMMA Trade ==
  ASSUME IInv, NEW w \in Workers, UNCHANGED asked, restart'[w] = restart[w], NEW s \in Later(w), NEW r,
         Sequences(w)' \subseteq Sequences(w), Later(w)' \subseteq Later(w) \ {s},
         Winners(w)' \subseteq Winners(w) \cup {r}
  PROVE  /\ Cardinality(Sequences(w)') <= asked'[w]
         /\ restart'[w] + Cardinality(Winners(w)') + Cardinality(Later(w)') <= asked'[w]
<1>1. TypeOK /\ restart[w] \in Nat /\ asked[w] \in Nat
  BY DEF IInv, TypeOK, SlotsOK, ServerOK
<1>2. /\ IsFiniteSet(Sequences(w)) /\ Cardinality(Sequences(w)) \in Nat
      /\ IsFiniteSet(Later(w)) /\ Cardinality(Later(w)) \in Nat
      /\ IsFiniteSet(Winners(w)) /\ Cardinality(Winners(w)) \in Nat
  BY <1>1, SequencesFinite
<1>3. Cardinality(Later(w)') \in Nat /\ Cardinality(Later(w)') <= Cardinality(Later(w)) - 1
  <2>1. IsFiniteSet(Later(w) \ {s}) /\ Cardinality(Later(w) \ {s}) = Cardinality(Later(w)) - 1
    BY <1>2, FS_RemoveElement
  <2> QED
    BY <2>1, FS_Subset, FS_CardinalityType
<1>4. Cardinality(Winners(w)') \in Nat /\ Cardinality(Winners(w)') <= Cardinality(Winners(w)) + 1
  <2>1. IsFiniteSet(Winners(w) \cup {r}) /\ Cardinality(Winners(w) \cup {r}) <= Cardinality(Winners(w)) + 1
    <3>1. /\ IsFiniteSet(Winners(w) \cup {r})
          /\ Cardinality(Winners(w) \cup {r}) = IF r \in Winners(w) THEN Cardinality(Winners(w))
                                               ELSE Cardinality(Winners(w)) + 1
      BY <1>2, FS_AddElement
    <3> QED
      BY <1>2, <3>1
  <2>2. Cardinality(Winners(w)') \in Nat /\ Cardinality(Winners(w)') <= Cardinality(Winners(w) \cup {r})
    BY <2>1, FS_Subset, FS_CardinalityType
  <2>3. Cardinality(Winners(w) \cup {r}) \in Nat
    BY <2>1, FS_CardinalityType
  <2> QED
    BY <1>2, <2>1, <2>2, <2>3
<1>5. Cardinality(Sequences(w)') \in Nat /\ Cardinality(Sequences(w)') <= Cardinality(Sequences(w))
  BY <1>2, FS_Subset, FS_CardinalityType
<1>6. /\ Cardinality(Sequences(w)) <= asked[w]
      /\ restart[w] + Cardinality(Winners(w)) + Cardinality(Later(w)) <= asked[w]
  BY DEF IInv, EverySent, RoomForLater
<1> QED
  BY <1>1, <1>2, <1>3, <1>4, <1>5, <1>6

\* A step that sends no REPAIR and starts nobody again: fewer sequences are under way, and fewer
\* readers are about to move a generation.
LEMMA QuietStep ==
  ASSUME IInv, TypeOK', UNCHANGED <<asked, last, restart>>,
         \A w \in Workers : Sequences(w)' \subseteq Sequences(w) /\ Winners(w)' \subseteq Winners(w)
  PROVE  IInv'
<1>1. ASSUME NEW w \in Workers PROVE Later(w)' \subseteq Later(w)
  BY DEF Later
<1> QED
  BY <1>1, Fewer DEF IInv, EverySent, RoomForLater

LEMMA Shrinks ==
  ASSUME NEW w \in Workers,
         \A m \in net' : m \in net \/ m.kind = "alive",
         \A r \in Workers : busy'[r] # None /\ w \in busy'[r].todo => busy'[r].seq \in Sequences(w),
         \A r \in Workers : busy'[r] # None /\ busy'[r].won => busy'[r] = busy[r]
  PROVE  Sequences(w)' \subseteq Sequences(w) /\ Winners(w)' \subseteq Winners(w)
<1>1. ASSUME NEW m \in Naming(w)' PROVE m.seq \in Sequences(w)
  <2>1. m \in net' /\ m.kind = "repair" /\ w \in m.ids
    BY DEF Naming
  <2>2. m \in Naming(w)
    BY <2>1 DEF Naming
  <2> QED
    BY <2>2 DEF Sequences
<1>2. \A r \in Readers(w)' : busy'[r].seq \in Sequences(w)
  BY DEF Readers
<1>3. Sequences(w)' = {m.seq : m \in Naming(w)'} \cup {busy'[r].seq : r \in Readers(w)'}
  BY DEF Sequences
<1>4. Winners(w)' \subseteq Winners(w)
  BY DEF Winners
<1> QED
  BY <1>1, <1>2, <1>3, <1>4

LEMMA ReadersKeep ==
  ASSUME NEW w \in Workers, NEW r \in Workers, busy[r] # None, w \in busy[r].todo
  PROVE  busy[r].seq \in Sequences(w)
BY DEF Sequences, Readers

\* Nothing but the server, the sessions or the network moves.
LEMMA ElsewhereStep ==
  ASSUME IInv, TypeOK', UNCHANGED <<asked, last, restart, busy>>,
         \A m \in net' : m \in net \/ m.kind = "alive"
  PROVE  IInv'
<1>1. ASSUME NEW w \in Workers
      PROVE  Sequences(w)' \subseteq Sequences(w) /\ Winners(w)' \subseteq Winners(w)
  BY Shrinks, ReadersKeep
<1> QED
  BY <1>1, QuietStep

-----------------------------------------------------------------------------
\* The command a reader is working on

LEMMA CommandFields ==
  ASSUME NEW k \in Commands
  PROVE  /\ k.seq \in Nat /\ k.todo \in (SUBSET Desired) \ {{}}
         /\ k.cur \in Nat \cup {None} /\ k.won \in BOOLEAN
BY DEF Commands

LEMMA CommandCur ==
  ASSUME NEW k \in Commands, NEW n \in Nat
  PROVE  /\ [k EXCEPT !.cur = n] \in Commands /\ [k EXCEPT !.cur = n].seq = k.seq
         /\ [k EXCEPT !.cur = n].todo = k.todo /\ [k EXCEPT !.cur = n].cur = n
         /\ [k EXCEPT !.cur = n].won = k.won
BY DEF Commands

LEMMA CommandWon ==
  ASSUME NEW k \in Commands
  PROVE  /\ [k EXCEPT !.won = TRUE] \in Commands /\ [k EXCEPT !.won = TRUE].seq = k.seq
         /\ [k EXCEPT !.won = TRUE].todo = k.todo /\ [k EXCEPT !.won = TRUE].cur = k.cur
BY DEF Commands

LEMMA CommandRest ==
  ASSUME NEW k \in Commands, NEW T \in (SUBSET Desired) \ {{}}
  PROVE  LET j == [k EXCEPT !.todo = T, !.cur = None, !.won = FALSE]
         IN  j \in Commands /\ j.seq = k.seq /\ j.todo = T /\ j.cur = None /\ ~j.won
BY DEF Commands

\* What busy[r] may be.
Right(k) ==
  k # None => /\ k \in Commands
              /\ k.cur # None => k.cur < k.seq
              /\ k.cur = None => ~k.won

LEMMA ReaderSet ==
  ASSUME TypeOK, NEW r \in Desired, NEW k, Right(k), busy' = [busy EXCEPT ![r] = k], Desired' = Desired
  PROVE  /\ ReadersOK' /\ busy'[r] = k
         /\ \A q \in Workers : q # r => busy'[q] = busy[q]
<1>1. /\ busy \in [Workers -> Commands \cup {None}] /\ r \in Workers /\ k \in Commands \cup {None}
      /\ \A q \in Workers : q \notin Desired => busy[q] = None
  BY DEF TypeOK, ReadersOK, ScenarioOK, Right
<1>2. busy' \in [Workers -> Commands \cup {None}] /\ busy'[r] = k
      /\ \A q \in Workers : q # r => busy'[q] = busy[q]
  BY <1>1
<1>3. Commands' = Commands
  BY DEF Commands
<1>4. ASSUME NEW q \in Workers
      PROVE  /\ q \notin Desired' => busy'[q] = None
             /\ busy'[q] # None /\ busy'[q].cur # None => busy'[q].cur < busy'[q].seq
             /\ busy'[q] # None /\ busy'[q].cur = None => ~busy'[q].won
  <2>1. CASE q = r
    BY <1>2, <2>1 DEF Right
  <2>2. CASE q # r
    BY <1>2, <2>2 DEF TypeOK, ReadersOK
  <2> QED
    BY <2>1, <2>2
<1> QED
  BY <1>2, <1>3, <1>4 DEF ReadersOK

LEMMA Working ==
  ASSUME TypeOK, NEW r \in Workers, busy[r] # None
  PROVE  /\ r \in Desired /\ busy[r] \in Commands /\ Right(busy[r])
         /\ Min(busy[r].todo) \in busy[r].todo /\ Min(busy[r].todo) \in Workers
<1>1. r \in Desired /\ busy[r] \in Commands /\ Right(busy[r])
  BY DEF TypeOK, ReadersOK, Right
<1>2. busy[r].todo \in (SUBSET Desired) \ {{}} /\ Desired \subseteq Workers
  BY <1>1 DEF TypeOK, ScenarioOK, Commands
<1>3. busy[r].todo \subseteq Nat /\ busy[r].todo # {}
  BY <1>2, WorkersAssumption
<1>4. Min(busy[r].todo) \in busy[r].todo
  BY <1>3, MinIn
<1> QED
  BY <1>1, <1>2, <1>4

\* A reader that goes on to the next worker.
LEMMA SkipFacts ==
  ASSUME TypeOK, NEW r \in Workers, busy[r] # None, Skip(r)
  PROVE  \E k : /\ busy' = [busy EXCEPT ![r] = k] /\ Right(k)
                /\ k # None => k.seq = busy[r].seq /\ k.todo \subseteq busy[r].todo /\ ~k.won
<1> DEFINE rest == busy[r].todo \ {Min(busy[r].todo)}
           k == IF rest = {} THEN None ELSE [busy[r] EXCEPT !.todo = rest, !.cur = None, !.won = FALSE]
<1>1. busy' = [busy EXCEPT ![r] = k]
  BY DEF Skip
<1>2. busy[r] \in Commands
  BY Working
<1>3. rest \subseteq busy[r].todo /\ busy[r].todo \in SUBSET Desired
  BY <1>2 DEF Commands
<1> HIDE DEF rest
<1>4. CASE rest = {}
  BY <1>1, <1>4 DEF Right
<1>5. CASE rest # {}
  <2>1. rest \in (SUBSET Desired) \ {{}}
    BY <1>3, <1>5
  <2>2. /\ k \in Commands /\ k.seq = busy[r].seq /\ k.todo = rest /\ k.cur = None /\ ~k.won
    BY <1>2, <1>5, <2>1, CommandRest
  <2> HIDE DEF k
  <2> QED
    BY <1>1, <1>3, <2>2 DEF Right
<1> QED
  BY <1>4, <1>5

\* A reader that moves on without having won.
LEMMA ReaderStep ==
  ASSUME IInv, TypeOK', NEW r \in Desired, NEW k, Right(k), busy[r] # None,
         busy' = [busy EXCEPT ![r] = k], Desired' = Desired,
         k # None => k.seq = busy[r].seq /\ k.todo \subseteq busy[r].todo /\ ~k.won,
         net' = net, UNCHANGED <<asked, last, restart>>
  PROVE  IInv'
<1>0. TypeOK /\ r \in Workers
  BY DEF IInv, TypeOK, ScenarioOK
<1>1. busy'[r] = k /\ \A q \in Workers : q # r => busy'[q] = busy[q]
  BY <1>0, ReaderSet
<1>2. ASSUME NEW w \in Workers
      PROVE  Sequences(w)' \subseteq Sequences(w) /\ Winners(w)' \subseteq Winners(w)
  <2>1. \A q \in Workers : busy'[q] # None /\ w \in busy'[q].todo => busy'[q].seq \in Sequences(w)
    BY <1>0, <1>1, ReadersKeep
  <2>2. \A q \in Workers : busy'[q] # None /\ busy'[q].won => busy'[q] = busy[q]
    BY <1>0, <1>1
  <2> QED
    BY <2>1, <2>2, Shrinks
<1> QED
  BY <1>2, QuietStep

-----------------------------------------------------------------------------
\* Types, part by part

LEMMA ServerSame ==
  ASSUME TypeOK, Desired' = Desired, present' \subseteq Desired, UNCHANGED asked,
         round' = round \/ round' = None
  PROVE  ServerOK'
BY DEF TypeOK, ServerOK, Rounds

LEMMA NetSame ==
  ASSUME TypeOK, Desired' = Desired, net' \subseteq net
  PROVE  NetOK'
<1>1. IsFiniteSet(net')
  BY FS_Subset DEF TypeOK, NetOK
<1> QED
  BY <1>1 DEF TypeOK, NetOK, Packets

LEMMA SessionsSame ==
  ASSUME TypeOK, Desired' = Desired, NEW w \in Desired, NEW p,
         pc' = pc \/ pc' = [pc EXCEPT ![w] = p]
  PROVE  SessionsOK'
BY DEF TypeOK, SessionsOK

LEMMA PlacesSame ==
  ASSUME TypeOK, Desired' = Desired, pc' = pc
  PROVE  SessionsOK'
BY DEF TypeOK, SessionsOK

LEMMA ReadersSame ==
  ASSUME TypeOK, Desired' = Desired, busy' = busy
  PROVE  ReadersOK'
BY DEF TypeOK, ReadersOK, Commands

LEMMA SlotsSame ==
  ASSUME TypeOK, restart' = restart, last' = last
  PROVE  SlotsOK'
BY DEF TypeOK, SlotsOK

-----------------------------------------------------------------------------
\* The steps

\* The sessions of the client, the network and what the server forgets.
LEMMA PlainSteps ==
  ASSUME IInv, ScenarioOK', Desired' = Desired, NEW w,
         \/ w \in Workers /\ (ServerDrops(w) \/ Session(w) \/ Fail(w))
         \/ Lose \/ ServerRestart
  PROVE  IInv'
<1>0. TypeOK
  BY DEF IInv
<1>1. UNCHANGED <<asked, last, restart, busy>> /\ net' \subseteq net
  BY DEF ServerDrops, Session, Begin, Registered, MarkLoad, MarkStore, Observe, Check, Arm, InSession,
    Fail, Lose, ServerRestart, server, session, slots
<1>2. present' \subseteq Desired /\ (round' = round \/ round' = None)
  <2>1. CASE w \in Workers /\ Registered(w)
    <3>1. w \in Desired
      BY <1>0, <2>1 DEF Registered, TypeOK, SessionsOK
    <3> QED
      BY <1>0, <2>1, <3>1 DEF Registered, TypeOK, ServerOK
  <2>2. CASE ~(w \in Workers /\ Registered(w))
    BY <1>0, <2>2 DEF ServerDrops, Session, Begin, MarkLoad, MarkStore, Observe, Check, Arm, InSession,
      Fail, Lose, ServerRestart, server, TypeOK, ServerOK
  <2> QED
    BY <2>1, <2>2
<1>3. SessionsOK'
  <2>1. CASE ServerDrops(w) \/ Lose \/ ServerRestart
    BY <1>0, <2>1, PlacesSame DEF ServerDrops, Lose, ServerRestart, session
  <2>2. CASE w \in Workers /\ (Session(w) \/ Fail(w))
    <3>1. w \in Desired
      BY <1>0, <2>2 DEF Session, Begin, Registered, MarkLoad, MarkStore, Observe, Check, Arm, Fail,
        TypeOK, SessionsOK
    <3>2. \E p : pc' = [pc EXCEPT ![w] = p]
      BY <2>2 DEF Session, Begin, Registered, MarkLoad, MarkStore, Observe, Check, Arm, Fail, Goto
    <3> QED
      BY <1>0, <3>1, <3>2, SessionsSame
  <2> QED
    BY <2>1, <2>2
<1>4. TypeOK'
  BY <1>0, <1>1, <1>2, <1>3, ServerSame, NetSame, SlotsSame, ReadersSame DEF TypeOK
<1> QED
  BY <1>1, <1>4, ElsewhereStep

LEMMA StutterStep ==
  ASSUME IInv, ScenarioOK', Desired' = Desired, UNCHANGED vars
  PROVE  IInv'
<1>1. UNCHANGED <<present, asked, round, net, last, restart, busy, pc>> /\ TypeOK
  BY DEF IInv, vars, server, session, slots
<1>2. present' \subseteq Desired
  BY <1>1 DEF TypeOK, ServerOK
<1>3. TypeOK'
  BY <1>1, <1>2, ServerSame, NetSame, SlotsSame, ReadersSame, PlacesSame DEF TypeOK
<1> QED
  BY <1>1, <1>3, ElsewhereStep

\* The periods of the server run out.
LEMMA ElapseStep ==
  ASSUME IInv, ScenarioOK', Desired' = Desired, Elapse
  PROVE  IInv'
<1>1. TypeOK /\ UNCHANGED <<present, asked, net, last, restart, busy, pc>>
  BY DEF IInv, Elapse, session, slots
<1>2. round \in Rounds
  BY <1>1 DEF Elapse, TypeOK, ServerOK
<1>3. round' \in Rounds
  BY <1>2 DEF Elapse, Rounds
<1>4. ServerOK'
  BY <1>1, <1>3 DEF TypeOK, ServerOK, Rounds
<1>5. TypeOK'
  BY <1>1, <1>4, NetSame, SlotsSame, ReadersSame, PlacesSame DEF TypeOK
<1> QED
  BY <1>1, <1>5, ElsewhereStep

\* main builds the groups anew: sequences its slots had reached count again.
LEMMA RebuildStep ==
  ASSUME IInv, ScenarioOK', Desired' = Desired, Rebuild
  PROVE  IInv'
<1>1. TypeOK /\ UNCHANGED <<present, round, asked, net, busy, pc>> /\ restart' = Zero /\ last' = Zero
  BY DEF IInv, Rebuild, session, server
<1>2. present' \subseteq Desired
  BY <1>1 DEF TypeOK, ServerOK
<1>3. SlotsOK'
  BY <1>1 DEF SlotsOK, Zero
<1>4. TypeOK'
  BY <1>1, <1>2, <1>3, ServerSame, NetSame, ReadersSame, PlacesSame DEF TypeOK
<1>5. \A r \in Workers : busy[r] = None
  BY <1>1 DEF Rebuild, TypeOK, ReadersOK
<1>6. ASSUME NEW w \in Workers
      PROVE  /\ Cardinality(Sequences(w)') <= asked'[w]
             /\ restart'[w] + Cardinality(Winners(w)') + Cardinality(Later(w)') <= asked'[w]
  <2>1. Sequences(w)' = Sequences(w)
    BY <1>1 DEF Sequences, Naming, Readers
  <2>2. Winners(w)' = {}
    BY <1>1, <1>5 DEF Winners
  <2>3. Cardinality(Winners(w)') = 0
    BY <2>2, FS_EmptySet
  <2>4. restart'[w] = 0
    BY <1>1 DEF Zero
  <2>5. /\ Cardinality(Sequences(w)') \in Nat /\ Cardinality(Later(w)') \in Nat
        /\ Cardinality(Later(w)') <= Cardinality(Sequences(w)')
    <3>1. IsFiniteSet(Sequences(w)')
      BY <1>1, <2>1, SequencesFinite
    <3>2. Later(w)' \in SUBSET Sequences(w)'
      BY DEF Later
    <3> QED
      BY <3>1, <3>2, FS_Subset, FS_CardinalityType
  <2>6. Cardinality(Sequences(w)) <= asked[w] /\ asked[w] \in Nat
    BY <1>1 DEF IInv, EverySent, TypeOK, ServerOK
  <2> QED
    BY <1>1, <2>1, <2>3, <2>4, <2>5, <2>6
<1> QED
  BY <1>4, <1>6 DEF IInv, EverySent, RoomForLater

\* A REPAIR moves from the network to its reader.
LEMMA ReceiveStep ==
  ASSUME IInv, ScenarioOK', Desired' = Desired, NEW r \in Workers, Receive(r)
  PROVE  IInv'
<1>0. TypeOK /\ UNCHANGED <<present, round, asked, pc, last, restart>>
  BY DEF IInv, Receive, server, session
<1>1. PICK m \in net :
        /\ m.on = r /\ busy[r] = None /\ net' = net \ {m}
        /\ IF Reading(r) /\ m.kind = "repair"
           THEN busy' = [busy EXCEPT ![r] = [seq |-> m.seq, todo |-> m.ids, cur |-> None, won |-> FALSE]]
           ELSE UNCHANGED busy
  BY DEF Receive
<1>2. m \in Packets
  BY <1>0 DEF TypeOK, NetOK
<1>3. present' \subseteq Desired
  BY <1>0 DEF TypeOK, ServerOK
<1>4. CASE Reading(r) /\ m.kind = "repair"
  <2> DEFINE k == [seq |-> m.seq, todo |-> m.ids, cur |-> None, won |-> FALSE]
  <2>1. r \in Desired /\ k \in Commands /\ k.seq = m.seq /\ k.todo = m.ids /\ k.cur = None /\ ~k.won
    BY <1>1, <1>2 DEF Packets, Commands
  <2>2. busy' = [busy EXCEPT ![r] = k]
    BY <1>1, <1>4
  <2> HIDE DEF k
  <2>3. Right(k)
    BY <2>1 DEF Right
  <2>4. ReadersOK' /\ busy'[r] = k /\ \A q \in Workers : q # r => busy'[q] = busy[q]
    BY <1>0, <2>1, <2>2, <2>3, ReaderSet
  <2>5. TypeOK'
    BY <1>0, <1>1, <1>3, <2>4, ServerSame, NetSame, SlotsSame, PlacesSame DEF TypeOK
  <2>6. ASSUME NEW w \in Workers
        PROVE  Sequences(w)' \subseteq Sequences(w) /\ Winners(w)' \subseteq Winners(w)
    <3>1. w \in m.ids => m.seq \in Sequences(w)
      BY <1>4 DEF Sequences, Naming
    <3>2. \A q \in Workers : busy'[q] # None /\ w \in busy'[q].todo => busy'[q].seq \in Sequences(w)
      BY <2>1, <2>4, <3>1, ReadersKeep
    <3>3. \A q \in Workers : busy'[q] # None /\ busy'[q].won => busy'[q] = busy[q]
      BY <2>1, <2>4
    <3> QED
      BY <1>1, <3>2, <3>3, Shrinks
  <2> QED
    BY <1>0, <2>5, <2>6, QuietStep
<1>5. CASE ~(Reading(r) /\ m.kind = "repair")
  <2>1. busy' = busy
    BY <1>1, <1>5
  <2>2. TypeOK'
    BY <1>0, <1>1, <1>3, <2>1, ServerSame, NetSame, SlotsSame, PlacesSame, ReadersSame DEF TypeOK
  <2> QED
    BY <1>0, <1>1, <2>1, <2>2, ElsewhereStep
<1> QED
  BY <1>4, <1>5

\* A reader looks at last_sequence, or fails to raise it.
LEMMA LooksStep ==
  ASSUME IInv, ScenarioOK', Desired' = Desired, NEW r \in Workers, busy[r] # None, ~busy[r].won,
         UNCHANGED <<present, round, asked, pc, last, restart, net>>,
         NEW w \in Workers,
         IF busy[r].seq <= last[w] THEN Skip(r) ELSE busy' = [busy EXCEPT ![r].cur = last[w]]
  PROVE  IInv'
<1>0. TypeOK /\ last[w] \in Nat
  BY DEF IInv, TypeOK, SlotsOK
<1>1. r \in Desired /\ busy[r] \in Commands
  BY <1>0, Working
<1>2. present' \subseteq Desired
  BY <1>0 DEF TypeOK, ServerOK
<1>3. \E k : /\ busy' = [busy EXCEPT ![r] = k] /\ Right(k)
             /\ k # None => k.seq = busy[r].seq /\ k.todo \subseteq busy[r].todo /\ ~k.won
  <2>1. CASE busy[r].seq <= last[w]
    BY <1>0, <2>1, SkipFacts
  <2>2. CASE ~(busy[r].seq <= last[w])
    <3> DEFINE k == [busy[r] EXCEPT !.cur = last[w]]
    <3>1. busy' = [busy EXCEPT ![r] = k]
      BY <2>2
    <3>2. k \in Commands /\ k.seq = busy[r].seq /\ k.todo = busy[r].todo /\ k.cur = last[w] /\ k.won = busy[r].won
      BY <1>0, <1>1, CommandCur
    <3>3. last[w] < busy[r].seq
      BY <1>0, <1>1, <2>2, CommandFields
    <3> HIDE DEF k
    <3>4. Right(k)
      BY <3>2, <3>3 DEF Right
    <3> QED
      BY <3>1, <3>2, <3>4
  <2> QED
    BY <2>1, <2>2
<1>4. ReadersOK'
  BY <1>0, <1>1, <1>3, ReaderSet
<1>5. TypeOK'
  BY <1>0, <1>2, <1>4, ServerSame, NetSame, SlotsSame, PlacesSame DEF TypeOK
<1> QED
  BY <1>1, <1>3, <1>5, ReaderStep

LEMMA LoadStep ==
  ASSUME IInv, ScenarioOK', Desired' = Desired, NEW r \in Workers, LoadLast(r)
  PROVE  IInv'
<1>1. /\ busy[r] # None /\ busy[r].cur = None
      /\ UNCHANGED <<present, round, asked, pc, last, restart, net>>
      /\ IF busy[r].seq <= last[Min(busy[r].todo)] THEN Skip(r)
         ELSE busy' = [busy EXCEPT ![r].cur = last[Min(busy[r].todo)]]
  BY DEF LoadLast, server, session, slots
<1>2. ~busy[r].won /\ Min(busy[r].todo) \in Workers
  BY <1>1, Working DEF IInv, TypeOK, ReadersOK
<1> QED
  BY <1>1, <1>2, LooksStep

\* The reader that raises last_sequence: its sequence was one the slot had not reached.
LEMMA WinsStep ==
  ASSUME IInv, ScenarioOK', Desired' = Desired, NEW r \in Workers, NEW w \in Workers,
         busy[r] # None, busy[r].cur # None, w \in busy[r].todo, last[w] = busy[r].cur,
         w = Min(busy[r].todo),
         last' = [last EXCEPT ![w] = busy[r].seq], busy' = [busy EXCEPT ![r].won = TRUE],
         UNCHANGED <<present, round, asked, pc, restart, net>>
  PROVE  IInv'
<1>0. TypeOK /\ last \in [Workers -> Nat]
  BY DEF IInv, TypeOK, SlotsOK
<1>1. r \in Desired /\ busy[r] \in Commands /\ Right(busy[r])
  BY <1>0, Working
<1> DEFINE k == [busy[r] EXCEPT !.won = TRUE]
           s == busy[r].seq
<1>2. k \in Commands /\ k.seq = s /\ k.todo = busy[r].todo /\ k.cur = busy[r].cur
  BY <1>1, CommandWon
<1>3. busy' = [busy EXCEPT ![r] = k]
  OBVIOUS
<1>4. s \in Nat /\ last[w] < s
  BY <1>1, CommandFields DEF Right
<1>5. s \in Sequences(w)
  BY ReadersKeep
<1> HIDE DEF k
<1>6. Right(k)
  BY <1>1, <1>2 DEF Right
<1>7. ReadersOK' /\ busy'[r] = k /\ \A q \in Workers : q # r => busy'[q] = busy[q]
  BY <1>0, <1>1, <1>3, <1>6, ReaderSet
<1>8. last'[w] = s /\ \A v \in Workers : v # w => last'[v] = last[v]
  BY <1>0
<1> HIDE DEF s
<1>9. TypeOK'
  <2>1. SlotsOK'
    BY <1>0, <1>4 DEF TypeOK, SlotsOK, s
  <2>2. present' \subseteq Desired
    BY <1>0 DEF TypeOK, ServerOK
  <2> QED
    BY <1>0, <1>7, <2>1, <2>2, ServerSame, NetSame, PlacesSame DEF TypeOK
<1>10. ASSUME NEW v \in Workers
       PROVE  /\ Cardinality(Sequences(v)') <= asked'[v]
              /\ restart'[v] + Cardinality(Winners(v)') + Cardinality(Later(v)') <= asked'[v]
  <2>1. Sequences(v)' \subseteq Sequences(v)
    <3>1. Naming(v)' = Naming(v)
      BY DEF Naming
    <3>2. \A q \in Readers(v)' : busy'[q].seq \in Sequences(v)
      <4> SUFFICES ASSUME NEW q \in Readers(v)' PROVE busy'[q].seq \in Sequences(v)
        OBVIOUS
      <4>1. q \in Workers /\ busy'[q] # None /\ v \in busy'[q].todo
        BY DEF Readers
      <4>2. CASE q = r
        BY <1>2, <1>7, <4>1, <4>2, ReadersKeep DEF s
      <4>3. CASE q # r
        BY <1>7, <4>1, <4>3, ReadersKeep
      <4> QED
        BY <4>2, <4>3
    <3>3. \A m \in Naming(v) : m.seq \in Sequences(v)
      BY DEF Sequences
    <3>4. Sequences(v)' = {m.seq : m \in Naming(v)'} \cup {busy'[q].seq : q \in Readers(v)'}
      BY DEF Sequences
    <3> QED
      BY <3>1, <3>2, <3>3, <3>4
  <2>2. Winners(v)' \subseteq Winners(v) \cup {r}
    BY <1>7 DEF Winners
  <2>3. v # w => Winners(v)' \subseteq Winners(v)
    <3>1. r \in Winners(v)' => v = w
      BY <1>2, <1>7 DEF Winners
    <3> QED
      BY <2>2, <3>1
  <2>4. CASE v # w
    <3>1. Later(v)' \subseteq Later(v)
      BY <1>8, <2>1, <2>4 DEF Later
    <3> QED
      BY <2>1, <2>3, <2>4, <3>1, Fewer
  <2>5. CASE v = w
    <3>1. s \in Later(v)
      BY <1>4, <1>5, <2>5 DEF Later
    <3>2. Later(v)' \subseteq Later(v) \ {s}
      <4> SUFFICES ASSUME NEW t \in Later(v)' PROVE t \in Later(v) /\ t # s
        OBVIOUS
      <4>1. t \in Sequences(v) /\ s < t
        BY <1>8, <2>1, <2>5 DEF Later
      <4>2. t \in Nat
        BY <1>0, <4>1, SequencesNat
      <4> QED
        BY <1>0, <1>4, <2>5, <4>1, <4>2 DEF Later
    <3> QED
      BY <2>1, <2>2, <3>1, <3>2, Trade
  <2> QED
    BY <2>4, <2>5
<1> QED
  BY <1>9, <1>10 DEF IInv, EverySent, RoomForLater

LEMMA CompareStep ==
  ASSUME IInv, ScenarioOK', Desired' = Desired, NEW r \in Workers, CompareExchange(r)
  PROVE  IInv'
<1> DEFINE w == Min(busy[r].todo)
<1>1. /\ busy[r] # None /\ busy[r].cur # None /\ ~busy[r].won
      /\ UNCHANGED <<present, round, asked, pc, restart, net>>
      /\ IF last[w] = busy[r].cur
         THEN /\ last' = [last EXCEPT ![w] = busy[r].seq]
              /\ busy' = [busy EXCEPT ![r].won = TRUE]
         ELSE /\ IF busy[r].seq <= last[w] THEN Skip(r)
                 ELSE busy' = [busy EXCEPT ![r].cur = last[w]]
              /\ UNCHANGED last
  BY DEF CompareExchange, server, session
<1>2. w \in busy[r].todo /\ w \in Workers /\ w = Min(busy[r].todo)
  BY <1>1, Working DEF IInv
<1> HIDE DEF w
<1>3. CASE last[w] = busy[r].cur
  BY <1>1, <1>2, <1>3, WinsStep
<1>4. CASE last[w] # busy[r].cur
  BY <1>1, <1>2, <1>4, LooksStep
<1> QED
  BY <1>3, <1>4

\* A winner that has moved the generation is no longer one.
LEMMA Moved ==
  ASSUME IInv, NEW w \in Workers, UNCHANGED asked, restart'[w] = restart[w] + 1, NEW r \in Winners(w),
         Sequences(w)' \subseteq Sequences(w), Later(w)' \subseteq Later(w),
         Winners(w)' \subseteq Winners(w) \ {r}
  PROVE  /\ Cardinality(Sequences(w)') <= asked'[w]
         /\ restart'[w] + Cardinality(Winners(w)') + Cardinality(Later(w)') <= asked'[w]
<1>1. TypeOK /\ restart[w] \in Nat /\ asked[w] \in Nat
  BY DEF IInv, TypeOK, SlotsOK, ServerOK
<1>2. /\ IsFiniteSet(Sequences(w)) /\ Cardinality(Sequences(w)) \in Nat
      /\ IsFiniteSet(Later(w)) /\ Cardinality(Later(w)) \in Nat
      /\ IsFiniteSet(Winners(w)) /\ Cardinality(Winners(w)) \in Nat
  BY <1>1, SequencesFinite
<1>3. Cardinality(Winners(w)') \in Nat /\ Cardinality(Winners(w)') <= Cardinality(Winners(w)) - 1
  <2>1. IsFiniteSet(Winners(w) \ {r}) /\ Cardinality(Winners(w) \ {r}) = Cardinality(Winners(w)) - 1
    BY <1>2, FS_RemoveElement
  <2> QED
    BY <2>1, FS_Subset, FS_CardinalityType
<1>4. /\ Cardinality(Sequences(w)') \in Nat /\ Cardinality(Sequences(w)') <= Cardinality(Sequences(w))
      /\ Cardinality(Later(w)') \in Nat /\ Cardinality(Later(w)') <= Cardinality(Later(w))
  BY <1>2, FS_Subset, FS_CardinalityType
<1>5. /\ Cardinality(Sequences(w)) <= asked[w]
      /\ restart[w] + Cardinality(Winners(w)) + Cardinality(Later(w)) <= asked[w]
  BY DEF IInv, EverySent, RoomForLater
<1> QED
  BY <1>1, <1>2, <1>3, <1>4, <1>5

\* The winner moves the generation of its worker and goes on to the next.
LEMMA BumpStep ==
  ASSUME IInv, ScenarioOK', Desired' = Desired, NEW r \in Workers, Bump(r)
  PROVE  IInv'
<1>a. PICK w : w = Min(busy[r].todo)
  OBVIOUS
<1>0. TypeOK /\ restart \in [Workers -> Nat]
  BY DEF IInv, TypeOK, SlotsOK
<1>1. /\ busy[r] # None /\ busy[r].won /\ Skip(r)
      /\ restart' = [restart EXCEPT ![w] = @ + 1]
      /\ pc' = IF pc[w] = "wait" THEN [pc EXCEPT ![w] = "check"] ELSE pc
      /\ UNCHANGED <<present, round, asked, last, net>>
  BY <1>a DEF Bump, server
<1>2. /\ w \in busy[r].todo /\ w \in Workers /\ w \in Desired /\ w = Min(busy[r].todo)
      /\ r \in Desired
  <2>1. busy[r].todo \in (SUBSET Desired) \ {{}}
    BY <1>0, <1>1, Working, CommandFields
  <2> QED
    BY <1>0, <1>1, <1>a, <2>1, Working
<1>3. r \in Winners(w)
  BY <1>1, <1>2 DEF Winners
<1>4. PICK k : /\ busy' = [busy EXCEPT ![r] = k] /\ Right(k)
               /\ k # None => k.seq = busy[r].seq /\ k.todo \subseteq busy[r].todo /\ ~k.won
  BY <1>0, <1>1, SkipFacts
<1>5. ReadersOK' /\ busy'[r] = k /\ \A q \in Workers : q # r => busy'[q] = busy[q]
  BY <1>0, <1>2, <1>4, ReaderSet
<1>6. restart' \in [Workers -> Nat] /\ restart'[w] = restart[w] + 1
      /\ \A v \in Workers : v # w => restart'[v] = restart[v]
  BY <1>0, <1>1, <1>2
<1>7. TypeOK'
  <2>1. SlotsOK'
    BY <1>0, <1>1, <1>6 DEF TypeOK, SlotsOK
  <2>2. present' \subseteq Desired
    BY <1>0, <1>1 DEF TypeOK, ServerOK
  <2>3. SessionsOK'
    BY <1>0, <1>1, <1>2, SessionsSame
  <2> QED
    BY <1>0, <1>1, <1>5, <2>1, <2>2, <2>3, ServerSame, NetSame DEF TypeOK
<1>8. ASSUME NEW v \in Workers
      PROVE  /\ Sequences(v)' \subseteq Sequences(v) /\ Winners(v)' \subseteq Winners(v)
             /\ Later(v)' \subseteq Later(v)
  <2>1. \A q \in Workers : busy'[q] # None /\ v \in busy'[q].todo => busy'[q].seq \in Sequences(v)
    BY <1>1, <1>4, <1>5, ReadersKeep
  <2>2. \A q \in Workers : busy'[q] # None /\ busy'[q].won => busy'[q] = busy[q]
    BY <1>4, <1>5
  <2>3. Sequences(v)' \subseteq Sequences(v) /\ Winners(v)' \subseteq Winners(v)
    BY <1>1, <2>1, <2>2, Shrinks
  <2> QED
    BY <1>1, <2>3 DEF Later
<1>9. Winners(w)' \subseteq Winners(w) \ {r}
  <2>1. r \notin Winners(w)'
    BY <1>4, <1>5 DEF Winners
  <2> QED
    BY <1>2, <1>8, <2>1
<1>10. ASSUME NEW v \in Workers
       PROVE  /\ Cardinality(Sequences(v)') <= asked'[v]
              /\ restart'[v] + Cardinality(Winners(v)') + Cardinality(Later(v)') <= asked'[v]
  <2>1. CASE v = w
    BY <1>1, <1>2, <1>3, <1>6, <1>8, <1>9, <2>1, Moved
  <2>2. CASE v # w
    BY <1>1, <1>6, <1>8, <2>2, Fewer
  <2> QED
    BY <2>1, <2>2
<1> QED
  BY <1>7, <1>10 DEF IInv, EverySent, RoomForLater

-----------------------------------------------------------------------------
\* The server sends

LEMMA RoundTypes ==
  ASSUME NEW q \in Rounds, NEW missing \in SUBSET Desired
  PROVE  /\ NewMissing(q, missing) \in Rounds /\ Recovered(q) \in Rounds
         /\ RepairSent(q) \in Rounds /\ AliveSent(q) \in Rounds
         /\ [q EXCEPT !.orphan = FALSE] \in Rounds
<1>1. NewMissing(q, missing) \in Rounds
  <2>1. ASSUME NEW n \in Nat
        PROVE  [q EXCEPT !.seq = n, !.missing = missing, !.grace = FALSE, !.sent = FALSE,
                         !.due = FALSE, !.alive = {}, !.aliveSent = 0] \in Rounds
    BY DEF Rounds
  <2>2. q.seq + 1 \in Nat
    BY DEF Rounds
  <2> QED
    BY <2>1, <2>2 DEF NewMissing
<1>2. Recovered(q) \in Rounds
  BY DEF Recovered, Rounds
<1>3. RepairSent(q) \in Rounds
  <2>1. ASSUME NEW n \in Nat
        PROVE  [q EXCEPT !.seq = n, !.sent = TRUE, !.due = FALSE] \in Rounds
    BY DEF Rounds
  <2>2. (IF q.sent THEN q.seq + 1 ELSE q.seq) \in Nat
    BY DEF Rounds
  <2> QED
    BY <2>1, <2>2 DEF RepairSent
<1>4. AliveSent(q) \in Rounds
  <2>1. ASSUME NEW n \in Nat
        PROVE  [q EXCEPT !.aliveSent = n, !.aliveDue = FALSE] \in Rounds
    BY DEF Rounds
  <2>2. q.aliveSent + 1 \in Nat
    BY DEF Rounds
  <2> QED
    BY <2>1, <2>2 DEF AliveSent
<1>5. [q EXCEPT !.orphan = FALSE] \in Rounds
  BY DEF Rounds
<1> QED
  BY <1>1, <1>2, <1>3, <1>4, <1>5

LEMMA CopiesAre ==
  ASSUME TypeOK, NEW kind \in {"repair", "alive"}, NEW seq \in Nat, NEW ids \in (SUBSET Desired) \ {{}}
  PROVE  /\ Copies(kind, seq, ids) \subseteq Packets /\ IsFiniteSet(Copies(kind, seq, ids))
         /\ \A p \in Copies(kind, seq, ids) : p.kind = kind /\ p.seq = seq /\ p.ids = ids
<1> DEFINE C == {w \in present : Cardinality({v \in present : v < w}) < STREAM_CONTROL_CARRIERS}
           f == [c \in C |-> [kind |-> kind, seq |-> seq, ids |-> ids, on |-> c]]
<1>1. C \subseteq Desired /\ C \subseteq Workers
  BY DEF TypeOK, ServerOK, ScenarioOK
<1>2. IsFiniteSet(C)
  BY <1>1, WorkersAssumption, FS_Subset
<1>3. Copies(kind, seq, ids) = {[kind |-> kind, seq |-> seq, ids |-> ids, on |-> c] : c \in C}
  BY DEF Copies
<1> HIDE DEF C
<1>4. Copies(kind, seq, ids) = {f[c] : c \in DOMAIN f} /\ DOMAIN f = C
  BY <1>3
<1>5. IsFiniteSet(Copies(kind, seq, ids))
  <2> HIDE DEF f
  <2> QED
    BY <1>2, <1>4, FieldsFinite
<1>6. ASSUME NEW p \in Copies(kind, seq, ids)
      PROVE  p \in Packets /\ p.kind = kind /\ p.seq = seq /\ p.ids = ids
  <2>1. PICK c \in C : p = [kind |-> kind, seq |-> seq, ids |-> ids, on |-> c]
    BY <1>3
  <2> QED
    BY <1>1, <2>1 DEF Packets
<1> QED
  BY <1>5, <1>6

LEMMA NetGrows ==
  ASSUME TypeOK, Desired' = Desired, NEW kind \in {"repair", "alive"}, NEW seq \in Nat,
         NEW ids \in (SUBSET Desired) \ {{}}, net' = net \cup Copies(kind, seq, ids)
  PROVE  NetOK'
<1>1. Copies(kind, seq, ids) \subseteq Packets /\ IsFiniteSet(Copies(kind, seq, ids))
  BY CopiesAre
<1>2. net \subseteq Packets /\ IsFiniteSet(net)
  BY DEF TypeOK, NetOK
<1>3. IsFiniteSet(net')
  BY <1>1, <1>2, FS_Union
<1> QED
  BY <1>1, <1>2, <1>3 DEF NetOK, Packets

\* A new sequence is paid for by the command that brings it.
LEMMA Granted ==
  ASSUME IInv, NEW w \in Workers, asked'[w] = asked[w] + 1, restart'[w] = restart[w], NEW s,
         Sequences(w)' \subseteq Sequences(w) \cup {s}, Later(w)' \subseteq Later(w) \cup {s},
         Winners(w)' \subseteq Winners(w)
  PROVE  /\ Cardinality(Sequences(w)') <= asked'[w]
         /\ restart'[w] + Cardinality(Winners(w)') + Cardinality(Later(w)') <= asked'[w]
<1>1. TypeOK /\ restart[w] \in Nat /\ asked[w] \in Nat
  BY DEF IInv, TypeOK, SlotsOK, ServerOK
<1>2. /\ IsFiniteSet(Sequences(w)) /\ Cardinality(Sequences(w)) \in Nat
      /\ IsFiniteSet(Later(w)) /\ Cardinality(Later(w)) \in Nat
      /\ IsFiniteSet(Winners(w)) /\ Cardinality(Winners(w)) \in Nat
  BY <1>1, SequencesFinite
<1>3. ASSUME NEW S, NEW T, IsFiniteSet(S), T \subseteq S \cup {s}
      PROVE  Cardinality(T) \in Nat /\ Cardinality(T) <= Cardinality(S) + 1
  <2>1. Cardinality(S) \in Nat
    BY <1>3, FS_CardinalityType
  <2>2. /\ IsFiniteSet(S \cup {s})
        /\ Cardinality(S \cup {s}) = IF s \in S THEN Cardinality(S) ELSE Cardinality(S) + 1
    BY <1>3, FS_AddElement
  <2>3. IsFiniteSet(T) /\ Cardinality(T) <= Cardinality(S \cup {s})
    BY <1>3, <2>2, FS_Subset
  <2>4. Cardinality(T) \in Nat
    BY <2>3, FS_CardinalityType
  <2> QED
    BY <2>1, <2>2, <2>3, <2>4
<1>4. /\ Cardinality(Sequences(w)') \in Nat /\ Cardinality(Sequences(w)') <= Cardinality(Sequences(w)) + 1
      /\ Cardinality(Later(w)') \in Nat /\ Cardinality(Later(w)') <= Cardinality(Later(w)) + 1
  BY <1>2, <1>3
<1>5. Cardinality(Winners(w)') \in Nat /\ Cardinality(Winners(w)') <= Cardinality(Winners(w))
  BY <1>2, FS_Subset, FS_CardinalityType
<1>6. /\ Cardinality(Sequences(w)) <= asked[w]
      /\ restart[w] + Cardinality(Winners(w)) + Cardinality(Later(w)) <= asked[w]
  BY DEF IInv, EverySent, RoomForLater
<1> QED
  BY <1>1, <1>2, <1>4, <1>5, <1>6

\* A REPAIR is sent for the missing workers.
LEMMA SendStep ==
  ASSUME IInv, TypeOK', NEW seq \in Nat, NEW ids \in (SUBSET Desired) \ {{}},
         net' = net \cup Copies("repair", seq, ids),
         asked' = [w \in Workers |-> asked[w] + IF w \in ids THEN 1 ELSE 0],
         UNCHANGED <<last, restart, busy>>
  PROVE  IInv'
<1>0. TypeOK /\ asked \in [Workers -> Nat]
  BY DEF IInv, TypeOK, ServerOK
<1>1. \A p \in Copies("repair", seq, ids) : p.seq = seq /\ p.ids = ids
  <2>1. PICK kind \in {"repair", "alive"} : kind = "repair"
    OBVIOUS
  <2>2. \A p \in Copies(kind, seq, ids) : p.kind = kind /\ p.seq = seq /\ p.ids = ids
    BY <1>0, CopiesAre
  <2> QED
    BY <2>1, <2>2
<1>2. ASSUME NEW w \in Workers
      PROVE  /\ Winners(w)' = Winners(w)
             /\ Sequences(w)' \subseteq Sequences(w) \cup {seq}
             /\ w \notin ids => Sequences(w)' \subseteq Sequences(w)
             /\ Later(w)' \subseteq Later(w) \cup {seq}
             /\ w \notin ids => Later(w)' \subseteq Later(w)
  <2>1. Winners(w)' = Winners(w) /\ Readers(w)' = Readers(w)
    BY DEF Winners, Readers
  <2>2. \A p \in Naming(w)' : p \in Naming(w) \/ (p.seq = seq /\ w \in ids)
    BY <1>1 DEF Naming
  <2>3. Sequences(w)' = {p.seq : p \in Naming(w)'} \cup {busy[r].seq : r \in Readers(w)}
    BY <2>1 DEF Sequences
  <2>4. Sequences(w) = {p.seq : p \in Naming(w)} \cup {busy[r].seq : r \in Readers(w)}
    BY DEF Sequences
  <2>5. \A t \in Sequences(w)' : t \in Sequences(w) \/ (t = seq /\ w \in ids)
    BY <2>2, <2>3, <2>4
  <2>6. \A t \in Later(w)' : t \in Later(w) \/ (t = seq /\ w \in ids)
    BY <2>5 DEF Later
  <2> QED
    BY <2>1, <2>5, <2>6
<1>3. ASSUME NEW w \in Workers
      PROVE  /\ Cardinality(Sequences(w)') <= asked'[w]
             /\ restart'[w] + Cardinality(Winners(w)') + Cardinality(Later(w)') <= asked'[w]
  <2>1. CASE w \in ids
    <3>1. asked'[w] = asked[w] + 1
      BY <2>1
    <3> QED
      BY <1>2, <3>1, Granted
  <2>2. CASE w \notin ids
    <3>1. asked'[w] = asked[w]
      BY <1>0, <2>2
    <3> QED
      BY <1>2, <2>2, <3>1, Fewer
  <2> QED
    BY <2>1, <2>2
<1> QED
  BY <1>3 DEF IInv, EverySent, RoomForLater

LEMMA ReconcileStep ==
  ASSUME IInv, ScenarioOK', Desired' = Desired, reconcile_streams
  PROVE  IInv'
<1> DEFINE missing == Desired \ present
           seen == [(IF round = None THEN NewRound ELSE round) EXCEPT !.orphan = FALSE]
           m == NewMissing(seen, missing)
           a == Recovered(seen)
<1>0. TypeOK /\ UNCHANGED <<present, pc, restart, last, busy>>
  BY DEF IInv, reconcile_streams, session, slots
<1>1. seen \in Rounds /\ missing \in SUBSET Desired
  <2>1. NewRound \in Rounds
    BY DEF NewRound, Rounds
  <2>2. (IF round = None THEN NewRound ELSE round) \in Rounds
    BY <1>0, <2>1 DEF TypeOK, ServerOK
  <2> QED
    BY <2>2, RoundTypes
<1> HIDE DEF seen
<1>2. m \in Rounds /\ a \in Rounds /\ RepairSent(m) \in Rounds /\ AliveSent(a) \in Rounds
  BY <1>1, RoundTypes
<1>3. RepairSent(m).seq \in Nat /\ a.seq \in Nat /\ a.alive \in SUBSET Desired
  BY <1>2 DEF Rounds
<1>4. \/ round' = None /\ UNCHANGED <<net, asked>>
      \/ /\ missing # {} /\ round' = RepairSent(m)
         /\ net' = net \cup Copies("repair", RepairSent(m).seq, missing)
         /\ asked' = [w \in Workers |-> asked[w] + IF w \in missing THEN 1 ELSE 0]
      \/ round' = m /\ UNCHANGED <<net, asked>>
      \/ /\ a.alive # {} /\ round' = AliveSent(a)
         /\ net' = net \cup Copies("alive", a.seq, a.alive)
         /\ UNCHANGED asked
      \/ round' = a /\ UNCHANGED <<net, asked>>
  BY DEF reconcile_streams, AliveDue, seen
<1>5. ASSUME round' \in Rounds \cup {None}, asked' \in [Workers -> Nat], NetOK'
      PROVE  TypeOK'
  <2>1. ServerOK'
    BY <1>0, <1>5 DEF TypeOK, ServerOK, Rounds
  <2> QED
    BY <1>0, <1>5, <2>1, SlotsSame, ReadersSame, PlacesSame DEF TypeOK
<1>6. asked \in [Workers -> Nat]
  BY <1>0 DEF TypeOK, ServerOK
<1> HIDE DEF m, a, missing
<1>7. CASE round' \in {None, m, a} /\ UNCHANGED <<net, asked>>
  <2>1. NetOK'
    BY <1>0, <1>7, NetSame
  <2>2. TypeOK'
    BY <1>2, <1>5, <1>6, <1>7, <2>1
  <2> QED
    BY <1>0, <1>7, <2>2, ElsewhereStep
<1>8. CASE /\ missing # {} /\ round' = RepairSent(m)
           /\ net' = net \cup Copies("repair", RepairSent(m).seq, missing)
           /\ asked' = [w \in Workers |-> asked[w] + IF w \in missing THEN 1 ELSE 0]
  <2>1. PICK seq \in Nat : seq = RepairSent(m).seq
    BY <1>3
  <2>2. PICK ids \in (SUBSET Desired) \ {{}} : ids = missing
    BY <1>1, <1>8
  <2>3. NetOK'
    BY <1>0, <1>8, <2>1, <2>2, NetGrows
  <2>4. asked' \in [Workers -> Nat]
    BY <1>6, <1>8
  <2>5. TypeOK'
    BY <1>2, <1>5, <1>8, <2>3, <2>4
  <2> QED
    BY <1>0, <1>8, <2>1, <2>2, <2>5, SendStep
<1>9. CASE /\ a.alive # {} /\ round' = AliveSent(a)
           /\ net' = net \cup Copies("alive", a.seq, a.alive)
           /\ UNCHANGED asked
  <2>1. PICK seq \in Nat : seq = a.seq
    BY <1>3
  <2>2. PICK ids \in (SUBSET Desired) \ {{}} : ids = a.alive
    BY <1>3, <1>9
  <2>3. NetOK'
    BY <1>0, <1>9, <2>1, <2>2, NetGrows
  <2>4. TypeOK'
    BY <1>2, <1>5, <1>6, <1>9, <2>3
  <2>5. \A p \in net' : p \in net \/ p.kind = "alive"
    BY <1>0, <1>9, <2>1, <2>2, CopiesAre
  <2> QED
    BY <1>0, <1>9, <2>4, <2>5, ElsewhereStep
<1> QED
  BY <1>4, <1>7, <1>8, <1>9

-----------------------------------------------------------------------------
\* The theorems

LEMMA Initially == Init => IInv
<1> SUFFICES ASSUME Init PROVE IInv
  OBVIOUS
<1>1. /\ left \in Scenarios /\ present = Desired /\ round = None /\ net = {} /\ asked = Zero
      /\ pc = [w \in Workers |-> "wait"] /\ restart = Zero /\ last = Zero
      /\ busy = [w \in Workers |-> None]
  BY DEF Init
<1>2. Zero \in [Workers -> Nat]
  BY DEF Zero
<1>3. ScenarioOK
  BY <1>1, ScenariosAssumption DEF ScenarioOK, Desired
<1>4. TypeOK
  <2>1. ServerOK /\ SlotsOK /\ SessionsOK /\ ReadersOK
    BY <1>1, <1>2 DEF ServerOK, SlotsOK, SessionsOK, ReadersOK
  <2>2. NetOK
    BY <1>1, FS_EmptySet DEF NetOK
  <2> QED
    BY <1>3, <2>1, <2>2 DEF TypeOK
<1>5. ASSUME NEW w \in Workers
      PROVE  /\ Cardinality(Sequences(w)) <= asked[w]
             /\ restart[w] + Cardinality(Winners(w)) + Cardinality(Later(w)) <= asked[w]
  <2>1. Naming(w) = {} /\ Readers(w) = {} /\ Winners(w) = {}
    BY <1>1 DEF Naming, Readers, Winners
  <2>2. Sequences(w) = {} /\ Later(w) = {}
    BY <2>1 DEF Sequences, Later
  <2>3. Cardinality(Sequences(w)) = 0 /\ Cardinality(Later(w)) = 0 /\ Cardinality(Winners(w)) = 0
    BY <2>1, <2>2, FS_EmptySet
  <2>4. restart[w] = 0 /\ asked[w] = 0
    BY <1>1 DEF Zero
  <2> QED
    BY <2>3, <2>4
<1> QED
  BY <1>4, <1>5 DEF IInv, EverySent, RoomForLater

LEMMA Inductive == IInv /\ [Next]_vars => IInv'
<1> SUFFICES ASSUME IInv, [Next]_vars PROVE IInv'
  OBVIOUS
<1>1. ScenarioOK' /\ Desired' = Desired
  BY Frame DEF IInv
<1>2. CASE reconcile_streams
  BY <1>1, <1>2, ReconcileStep
<1>3. CASE Elapse
  BY <1>1, <1>3, ElapseStep
<1>4. CASE Rebuild
  BY <1>1, <1>4, RebuildStep
<1>5. CASE ServerRestart \/ Lose
  BY <1>1, <1>5, PlainSteps
<1>6. ASSUME NEW w \in Workers, ServerDrops(w) \/ Session(w) \/ Fail(w)
      PROVE  IInv'
  BY <1>1, <1>6, PlainSteps
<1>7. ASSUME NEW w \in Workers, Reader(w)
      PROVE  IInv'
  BY <1>1, <1>7, ReceiveStep, LoadStep, CompareStep, BumpStep DEF Reader
<1>8. CASE UNCHANGED vars
  BY <1>1, <1>8, StutterStep
<1> QED
  BY <1>2, <1>3, <1>4, <1>5, <1>6, <1>7, <1>8 DEF Next

\* The sequences of the REPAIR commands under way that a slot has not reached leave room for
\* one more restart each: the inductive invariant of RepairState and of the rounds of the server.
THEOREM RepairInvariant == Spec => []IInv
<1>1. Init => IInv
  BY Initially
<1>2. IInv /\ [Next]_vars => IInv'
  BY Inductive
<1> QED
  BY <1>1, <1>2, PTL DEF Spec

\* A REPAIR that arrives on several carriers, late or again restarts a worker once: apply_repair
\* moves its generation at most as often as the server has sent a command that names it.
THEOREM RestartedOncePerCommand == Spec => []OncePerCommand
<1>1. IInv => OncePerCommand
  <2> SUFFICES ASSUME IInv, NEW w \in Workers PROVE restart[w] <= asked[w]
    BY DEF OncePerCommand
  <2>1. TypeOK /\ restart[w] \in Nat /\ asked[w] \in Nat
    BY DEF IInv, TypeOK, SlotsOK, ServerOK
  <2>2. Cardinality(Later(w)) \in Nat /\ Cardinality(Winners(w)) \in Nat
    BY <2>1, SequencesFinite
  <2>3. restart[w] + Cardinality(Winners(w)) + Cardinality(Later(w)) <= asked[w]
    BY DEF IInv, RoomForLater
  <2> QED
    BY <2>1, <2>2, <2>3
<1> QED
  BY <1>1, RepairInvariant, PTL
=============================================================================
