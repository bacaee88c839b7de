------------------------ MODULE ClientWorkers_proofs ------------------------
(***************************************************************************)
(* Proofs about ClientWorkers, for every number of groups, of hashes and   *)
(* of groups that share credentials, and every scenario: the credential    *)
(* cache implements the bounded pool of CredentialPool, one hash's failure *)
(* stops no other hash's workers, and a client that stops says goodbye.    *)
(***************************************************************************)
EXTENDS ClientWorkers, FiniteSetTheorems, SequenceTheorems, TLAPS

-----------------------------------------------------------------------------
\* Workers, cohorts and scenarios

LEMMA DivFacts ==
  ASSUME NEW a \in Nat, NEW b \in Nat, b > 0
  PROVE  a \div b \in Nat /\ (a % b) \in 0 .. (b - 1) /\ a = b * (a \div b) + (a % b)
OBVIOUS

LEMMA ProductGrows ==
  ASSUME NEW b \in Nat, b > 0, NEW k \in Int
  PROVE  (k >= 1 => b * k >= b) /\ b * k \in Int /\ (k >= 0 => b * k >= k)
OBVIOUS

LEMMA DivSmaller ==
  ASSUME NEW a \in Nat, NEW b \in Nat, b > 0
  PROVE  a \div b <= a
<1> DEFINE q == a \div b
<1>1. q \in Nat /\ a = b * q + (a % b) /\ (a % b) \in Nat
  BY DivFacts
<1> HIDE DEF q
<1>2. b * q >= q /\ b * q \in Int
  BY <1>1, ProductGrows
<1>3. q <= a
  BY <1>1, <1>2
<1> QED
  BY <1>3 DEF q

LEMMA DivMonotone ==
  ASSUME NEW a \in Nat, NEW d \in Nat, a <= d, NEW b \in Nat, b > 0
  PROVE  a \div b <= d \div b
<1> DEFINE p == a \div b
           q == d \div b
<1>1. /\ p \in Nat /\ a = b * p + (a % b) /\ (a % b) \in 0 .. (b - 1)
      /\ q \in Nat /\ d = b * q + (d % b) /\ (d % b) \in 0 .. (b - 1)
  BY DivFacts
<1> HIDE DEF p, q
<1>2. b * p - b * q = b * (p - q) /\ p - q \in Int
  BY <1>1
<1>3. ~(p - q >= 1)
  <2>1. p - q >= 1 => b * (p - q) >= b
    BY <1>2, ProductGrows
  <2> QED
    BY <1>1, <1>2, <2>1
<1>4. p <= q
  BY <1>1, <1>3
<1> QED
  BY <1>4 DEF p, q

LEMMA Constants ==
  /\ Groups \in Nat /\ Groups > 0 /\ GroupsPerCred \in Nat /\ GroupsPerCred > 0
  /\ MaxHashes \in Nat /\ MaxHashes > 0 /\ Cap \in Nat /\ Cap > 0
  /\ None \notin Leases /\ None \notin Cached /\ None \notin Workers
<1>1. {Groups, GroupsPerCred, MaxHashes, Cap} \subseteq Nat \ {0}
  BY BoundsAssumption
<1> QED
  BY <1>1, NoneAssumption DEF Workers

LEMMA CredTyped == ASSUME TypeOK, NEW w \in Workers PROVE CredOf(w) \in Creds
<1> DEFINE n == left.hashes
           index == w - 1
<1>1. n \in 1 .. MaxHashes
  BY DEF TypeOK, ScenarioOK, CachesOK
<1>2. index \in 0 .. (Groups - 1)
  BY Constants DEF Workers
<1> HIDE DEF n, index
<1>3. n \in Nat /\ n > 0 /\ index \in Nat /\ Groups - 1 \in Nat
  BY <1>1, <1>2, Constants
<1>4. (index % n) \in 0 .. MaxHashes - 1
  BY <1>1, <1>3, DivFacts, Constants
<1>5. index \div n \in Nat /\ index \div n <= Groups - 1
  BY <1>2, <1>3, DivFacts, DivSmaller, Constants
<1>6. (index \div n) \div GroupsPerCred \in 0 .. ((Groups - 1) \div GroupsPerCred)
  <2>1. (index \div n) \div GroupsPerCred <= (Groups - 1) \div GroupsPerCred
    BY <1>3, <1>5, DivMonotone, Constants
  <2>2. (index \div n) \div GroupsPerCred \in Nat /\ (Groups - 1) \div GroupsPerCred \in Nat
    BY <1>3, <1>5, DivFacts, Constants
  <2> QED
    BY <2>1, <2>2
<1>7. CredOf(w) = <<index % n, (index \div n) \div GroupsPerCred>>
  BY DEF CredOf, n, index
<1> QED
  BY <1>4, <1>6, <1>7 DEF Creds

\* No step changes how many hashes there are.
LEMMA Spending ==
  ASSUME TypeOK, Spend("fetches") \/ Spend("faults") \/ Spend("inputs") \/ Spend("builds") \/ left' = left
  PROVE  /\ left'.hashes = left.hashes
         /\ ScenarioOK'
<1>0. left \in [hashes : 1 .. MaxHashes, fetches : Nat, faults : Nat, inputs : Nat,
                builds : Nat, keep : BOOLEAN]
  BY DEF TypeOK, ScenarioOK, CachesOK
<1>1. CASE Spend("fetches")
  BY <1>0, <1>1 DEF Spend, ScenarioOK
<1>2. CASE Spend("faults")
  BY <1>0, <1>2 DEF Spend, ScenarioOK
<1>3. CASE Spend("inputs")
  BY <1>0, <1>3 DEF Spend, ScenarioOK
<1>4. CASE Spend("builds")
  BY <1>0, <1>4 DEF Spend, ScenarioOK
<1>5. CASE left' = left
  BY <1>0, <1>5 DEF ScenarioOK
<1> QED
  BY <1>1, <1>2, <1>3, <1>4, <1>5
-----------------------------------------------------------------------------
\* Counting the leases

LEMMA LesseesFinite ==
  ASSUME NEW c, NEW g
  PROVE  IsFiniteSet(Lessees(c, g)) /\ Cardinality(Lessees(c, g)) \in Nat
<1>1. IsFiniteSet(Workers)
  BY Constants, FS_Interval DEF Workers
<1>2. Lessees(c, g) \subseteq Workers
  BY DEF Lessees
<1> QED
  BY <1>1, <1>2, FS_Subset, FS_CardinalityType

LEMMA LeasedTyped ==
  ASSUME TypeOK
  PROVE  /\ \A c \in Creds : \A g \in 1 .. generation[c] : Leased[c][g] \in Nat
         /\ \A c \in Creds : Leased[c] \in [1 .. generation[c] -> Nat]
         /\ Leased = [c \in Creds |-> Leased[c]]
<1>1. \A c \in Creds : Leased[c] = [g \in 1 .. generation[c] |-> Cardinality(Lessees(c, g))]
  BY DEF Leased
<1>2. \A c, g : Cardinality(Lessees(c, g)) \in Nat
  BY LesseesFinite
<1>3. Leased = [c \in Creds |-> Leased[c]]
  BY DEF Leased
<1>4. ASSUME NEW c \in Creds PROVE Leased[c] \in [1 .. generation[c] -> Nat]
  <2>1. [g \in 1 .. generation[c] |-> Cardinality(Lessees(c, g))] \in [1 .. generation[c] -> Nat]
    BY <1>2, Zenon
  <2> QED
    BY <1>1, <2>1, Zenon
<1>5. ASSUME NEW c \in Creds, NEW g \in 1 .. generation[c] PROVE Leased[c][g] \in Nat
  BY <1>4
<1> QED
  BY <1>3, <1>4, <1>5

LEMMA OneLess ==
  ASSUME NEW a \in Nat, NEW b \in Nat, NEW k \in Nat, NEW x, x = a \/ x = a - 1, a + b <= k
  PROVE  x + b <= k
OBVIOUS

LEMMA OneEntry ==
  ASSUME NEW S, NEW f, f = [d \in S |-> f[d]], NEW h, h = [d \in S |-> h[d]], NEW c \in S,
         \A d \in S : d # c => h[d] = f[d]
  PROVE  h = [f EXCEPT ![c] = h[c]]
OBVIOUS

\* CredOf is a function of the number of hashes alone.
LEMMA SameCred ==
  ASSUME left'.hashes = left.hashes, NEW w
  PROVE  CredOf(w)' = CredOf(w)
BY DEF CredOf

LEMMA SameLeases ==
  ASSUME TypeOK, left'.hashes = left.hashes, generation' = generation,
         \A w \in Workers : /\ pc'[w] = "start" <=> pc[w] = "start"
                            /\ pc[w] = "start" => lease'[w] = lease[w]
  PROVE  Leased' = Leased
<1>1. ASSUME NEW c, NEW g PROVE Lessees(c, g)' = Lessees(c, g)
  <2>1. \A w \in Workers : CredOf(w)' = CredOf(w)
    BY SameCred
  <2> QED
    BY <2>1 DEF Lessees
<1> QED
  BY <1>1 DEF Leased

LEMMA OneMoreLease ==
  ASSUME TypeOK, left'.hashes = left.hashes, generation' = generation,
         NEW w \in Workers, NEW c \in Creds, c = CredOf(w), NEW l, l # None, l.gen \in 1 .. generation[c],
         pc[w] # "start", pc'[w] = "start", lease'[w] = l,
         \A x \in Workers : x # w => pc'[x] = pc[x] /\ lease'[x] = lease[x]
  PROVE  Leased' = [Leased EXCEPT ![c][l.gen] = @ + 1]
<1>0. \A x \in Workers : CredOf(x)' = CredOf(x)
  BY SameCred
<1>1. Lessees(c, l.gen)' = Lessees(c, l.gen) \cup {w} /\ w \notin Lessees(c, l.gen)
  BY <1>0 DEF Lessees
<1>2. ASSUME NEW d, NEW g, d # c \/ g # l.gen PROVE Lessees(d, g)' = Lessees(d, g)
  BY <1>0, <1>2 DEF Lessees
<1>3. Cardinality(Lessees(c, l.gen)') = Cardinality(Lessees(c, l.gen)) + 1
  <2> DEFINE old == Lessees(c, l.gen)
             new == Lessees(c, l.gen)'
  <2>1. IsFiniteSet(old) /\ new = old \cup {w} /\ w \notin old
    BY <1>1, LesseesFinite
  <2> HIDE DEF old, new
  <2>2. Cardinality(new) = Cardinality(old) + 1
    BY <2>1, FS_AddElement
  <2> QED
    BY <2>2 DEF old, new
<1>4. Leased' = [d \in Creds |-> [g \in 1 .. generation[d] |-> Cardinality(Lessees(d, g)')]]
  BY DEF Leased
<1>5. \A d \in Creds : \A g \in 1 .. generation[d] :
        Cardinality(Lessees(d, g)')
          = IF d = c /\ g = l.gen THEN Cardinality(Lessees(d, g)) + 1 ELSE Cardinality(Lessees(d, g))
  BY <1>2, <1>3
<1>6. \A d \in Creds : \A g \in 1 .. generation[d] :
        /\ Leased'[d][g] = Cardinality(Lessees(d, g)') /\ Leased[d][g] = Cardinality(Lessees(d, g))
  BY <1>4 DEF Leased
<1>7. /\ Leased = [d \in Creds |-> Leased[d]] /\ Leased' = [d \in Creds |-> Leased'[d]]
      /\ \A d \in Creds : /\ Leased[d] = [g \in 1 .. generation[d] |-> Leased[d][g]]
                          /\ Leased'[d] = [g \in 1 .. generation[d] |-> Leased'[d][g]]
  BY <1>4 DEF Leased
<1>8. Leased' = [Leased EXCEPT ![c] = [Leased[c] EXCEPT ![l.gen] = Leased'[c][l.gen]]]
  <2>1. \A d \in Creds : \A g \in 1 .. generation[d] : d # c \/ g # l.gen => Leased'[d][g] = Leased[d][g]
    BY <1>5, <1>6
  <2>2. Leased'[c] = [Leased[c] EXCEPT ![l.gen] = Leased'[c][l.gen]]
    <3>1. /\ Leased[c] = [g \in 1 .. generation[c] |-> Leased[c][g]]
          /\ Leased'[c] = [g \in 1 .. generation[c] |-> Leased'[c][g]]
      BY <1>7
    <3>2. \A g \in 1 .. generation[c] : g # l.gen => Leased'[c][g] = Leased[c][g]
      BY <2>1
    <3> DEFINE old == Leased[c]
               new == Leased'[c]
               S == 1 .. generation[c]
    <3>3. /\ old = [g \in S |-> old[g]] /\ new = [g \in S |-> new[g]] /\ l.gen \in S
          /\ \A g \in S : g # l.gen => new[g] = old[g]
      BY <3>1, <3>2
    <3> HIDE DEF old, new, S
    <3>4. new = [old EXCEPT ![l.gen] = new[l.gen]]
      BY <3>3, OneEntry
    <3> QED
      BY <3>4 DEF old, new
  <2>3. \A d \in Creds : d # c => Leased'[d] = Leased[d]
    <3> SUFFICES ASSUME NEW d \in Creds, d # c PROVE Leased'[d] = Leased[d]
      OBVIOUS
    <3> DEFINE old == Leased[d]
               new == Leased'[d]
               S == 1 .. generation[d]
    <3>1. old = [g \in S |-> old[g]] /\ new = [g \in S |-> new[g]]
      BY <1>7
    <3>2. \A g \in S : new[g] = old[g]
      BY <2>1
    <3> HIDE DEF old, new, S
    <3>3. new = old
      BY <3>1, <3>2
    <3> QED
      BY <3>3 DEF old, new
  <2>4. Leased' = [Leased EXCEPT ![c] = Leased'[c]]
    <3> DEFINE old == Leased
               new == Leased'
    <3>1. /\ old = [d \in Creds |-> old[d]] /\ new = [d \in Creds |-> new[d]]
          /\ \A d \in Creds : d # c => new[d] = old[d]
      BY <1>7, <2>3
    <3> HIDE DEF old, new
    <3>2. new = [old EXCEPT ![c] = new[c]]
      BY <3>1, OneEntry
    <3> QED
      BY <3>2 DEF old, new
  <2> QED
    BY <2>2, <2>4
<1> QED
  BY <1>5, <1>6, <1>8

LEMMA OneLeaseLess ==
  ASSUME TypeOK, left'.hashes = left.hashes, generation' = generation,
         NEW w \in Workers, NEW c \in Creds, c = CredOf(w), lease[w] # None,
         NEW n \in 1 .. generation[c], lease[w].gen = n,
         pc[w] = "start", pc'[w] # "start",
         \A x \in Workers : x # w => pc'[x] = pc[x] /\ lease'[x] = lease[x]
  PROVE  Leased' = [Leased EXCEPT ![c][n] = @ - 1] /\ Leased[c][n] > 0
<1>0. \A x \in Workers : CredOf(x)' = CredOf(x)
  BY SameCred
<1>1. Lessees(c, n)' = Lessees(c, n) \ {w} /\ w \in Lessees(c, n)
  BY <1>0 DEF Lessees
<1>2. ASSUME NEW d, NEW g, d # c \/ g # n PROVE Lessees(d, g)' = Lessees(d, g)
  BY <1>0, <1>2 DEF Lessees
<1>3. Cardinality(Lessees(c, n)') = Cardinality(Lessees(c, n)) - 1 /\ Cardinality(Lessees(c, n)) > 0
  <2>1. Cardinality(Lessees(c, n) \ {w}) = Cardinality(Lessees(c, n)) - 1
    <3>1. w \in Lessees(c, n) /\ IsFiniteSet(Lessees(c, n))
      BY <1>1, LesseesFinite
    <3> HIDE DEF Lessees
    <3> QED
      BY <3>1, FS_RemoveElement
  <2>2. Cardinality(Lessees(c, n)) # 0 /\ Cardinality(Lessees(c, n)) \in Nat
    BY <1>1, LesseesFinite, FS_EmptySet
  <2> QED
    BY <1>1, <2>1, <2>2
<1>4. Leased' = [d \in Creds |-> [g \in 1 .. generation[d] |-> Cardinality(Lessees(d, g)')]]
  BY DEF Leased
<1>5. \A d \in Creds : \A g \in 1 .. generation[d] :
        Cardinality(Lessees(d, g)')
          = IF d = c /\ g = n THEN Cardinality(Lessees(d, g)) - 1 ELSE Cardinality(Lessees(d, g))
  BY <1>2, <1>3
<1>6. \A d \in Creds : \A g \in 1 .. generation[d] :
        /\ Leased'[d][g] = Cardinality(Lessees(d, g)') /\ Leased[d][g] = Cardinality(Lessees(d, g))
  BY <1>4 DEF Leased
<1>7. /\ Leased = [d \in Creds |-> Leased[d]] /\ Leased' = [d \in Creds |-> Leased'[d]]
      /\ \A d \in Creds : /\ Leased[d] = [g \in 1 .. generation[d] |-> Leased[d][g]]
                          /\ Leased'[d] = [g \in 1 .. generation[d] |-> Leased'[d][g]]
  BY <1>4 DEF Leased
<1>8. Leased' = [Leased EXCEPT ![c] = [Leased[c] EXCEPT ![n] = Leased'[c][n]]]
  <2>1. \A d \in Creds : \A g \in 1 .. generation[d] : d # c \/ g # n => Leased'[d][g] = Leased[d][g]
    BY <1>5, <1>6
  <2>2. Leased'[c] = [Leased[c] EXCEPT ![n] = Leased'[c][n]]
    <3>1. /\ Leased[c] = [g \in 1 .. generation[c] |-> Leased[c][g]]
          /\ Leased'[c] = [g \in 1 .. generation[c] |-> Leased'[c][g]]
      BY <1>7
    <3>2. \A g \in 1 .. generation[c] : g # n => Leased'[c][g] = Leased[c][g]
      BY <2>1
    <3> DEFINE old == Leased[c]
               new == Leased'[c]
               S == 1 .. generation[c]
    <3>3. /\ old = [g \in S |-> old[g]] /\ new = [g \in S |-> new[g]] /\ n \in S
          /\ \A g \in S : g # n => new[g] = old[g]
      BY <3>1, <3>2
    <3> HIDE DEF old, new, S
    <3>4. new = [old EXCEPT ![n] = new[n]]
      BY <3>3, OneEntry
    <3> QED
      BY <3>4 DEF old, new
  <2>3. \A d \in Creds : d # c => Leased'[d] = Leased[d]
    <3> SUFFICES ASSUME NEW d \in Creds, d # c PROVE Leased'[d] = Leased[d]
      OBVIOUS
    <3> DEFINE old == Leased[d]
               new == Leased'[d]
               S == 1 .. generation[d]
    <3>1. old = [g \in S |-> old[g]] /\ new = [g \in S |-> new[g]]
      BY <1>7
    <3>2. \A g \in S : new[g] = old[g]
      BY <2>1
    <3> HIDE DEF old, new, S
    <3>3. new = old
      BY <3>1, <3>2
    <3> QED
      BY <3>3 DEF old, new
  <2>4. Leased' = [Leased EXCEPT ![c] = Leased'[c]]
    <3> DEFINE old == Leased
               new == Leased'
    <3>1. /\ old = [d \in Creds |-> old[d]] /\ new = [d \in Creds |-> new[d]]
          /\ \A d \in Creds : d # c => new[d] = old[d]
      BY <1>7, <2>3
    <3> HIDE DEF old, new
    <3>2. new = [old EXCEPT ![c] = new[c]]
      BY <3>1, OneEntry
    <3> QED
      BY <3>2 DEF old, new
  <2> QED
    BY <2>2, <2>4
<1> QED
  BY <1>3, <1>5, <1>6, <1>8

\* Nobody holds a lease on credentials that have just been stored.
LEMMA NewLeases ==
  ASSUME TypeOK, Lent, left'.hashes = left.hashes, NEW c \in Creds,
         generation' = [generation EXCEPT ![c] = @ + 1],
         \A w \in Workers : /\ pc'[w] = "start" <=> pc[w] = "start"
                            /\ pc[w] = "start" => lease'[w] = lease[w]
  PROVE  /\ Leased' = [Leased EXCEPT ![c] = Pool!WithNew(@, generation[c])]
         /\ Leased'[c][generation[c] + 1] = 0
<1>0. \A x \in Workers : CredOf(x)' = CredOf(x) /\ CredOf(x) \in Creds
  BY SameCred, CredTyped
<1>1. ASSUME NEW d, NEW g PROVE Lessees(d, g)' = Lessees(d, g)
  BY <1>0 DEF Lessees
<1>2. generation \in [Creds -> Nat]
  BY DEF TypeOK, ScenarioOK, CachesOK
<1>3. Lessees(c, generation[c] + 1) = {}
  BY <1>0, <1>2 DEF Lessees, Lent
<1>4. Cardinality(Lessees(c, generation[c] + 1)) = 0
  BY <1>3, FS_EmptySet
<1>5. Leased' = [d \in Creds |-> [g \in 1 .. generation'[d] |-> Cardinality(Lessees(d, g))]]
  BY <1>1 DEF Leased
<1>6. [g \in 1 .. generation'[c] |-> Cardinality(Lessees(c, g))] = Pool!WithNew(Leased[c], generation[c])
  <2>1. generation'[c] = generation[c] + 1 /\ generation[c] \in Nat
    BY <1>2
  <2>2. Leased[c] = [g \in 1 .. generation[c] |-> Cardinality(Lessees(c, g))]
    BY DEF Leased
  <2>3. \A g \in 1 .. generation[c] + 1 : g > generation[c] => g = generation[c] + 1
    BY <2>1
  <2> QED
    BY <1>4, <2>1, <2>2, <2>3 DEF Pool!WithNew
<1>7. \A d \in Creds : d # c => [g \in 1 .. generation'[d] |-> Cardinality(Lessees(d, g))] = Leased[d]
  BY <1>2 DEF Leased
<1>8. Leased = [d \in Creds |-> Leased[d]]
  BY DEF Leased
<1>9. Leased'[c][generation[c] + 1] = 0
  <2>1. generation'[c] = generation[c] + 1 /\ generation[c] + 1 \in 1 .. generation[c] + 1
    BY <1>2
  <2> QED
    BY <1>4, <1>5, <2>1
<1>10. Leased' = [d \in Creds |-> Leased'[d]]
  BY <1>5
<1>11. Leased'[c] = Pool!WithNew(Leased[c], generation[c]) /\ \A d \in Creds : d # c => Leased'[d] = Leased[d]
  BY <1>5, <1>6, <1>7
<1>12. Leased' = [Leased EXCEPT ![c] = Leased'[c]]
  BY <1>8, <1>10, <1>11, OneEntry, Zenon
<1> QED
  BY <1>9, <1>11, <1>12
-----------------------------------------------------------------------------
\* Types

LEMMA AsFunction ==
  ASSUME NEW t \in Seq(Nat)
  PROVE  t = [i \in 1 .. Len(t) |-> t[i]]
OBVIOUS

LEMMA Appended ==
  ASSUME NEW s \in Seq(Nat)
  PROVE  /\ Append(s, 0) \in Seq(Nat) /\ Len(Append(s, 0)) = Len(s) + 1
         /\ Append(s, 0)[Len(s) + 1] = 0 /\ Append(s, 0) = Pool!WithNew(s, Len(s))
<1>1. /\ Append(s, 0) \in Seq(Nat) /\ Len(Append(s, 0)) = Len(s) + 1
      /\ \A i \in 1 .. Len(s) : Append(s, 0)[i] = s[i]
      /\ Append(s, 0)[Len(s) + 1] = 0
  BY AppendProperties
<1>2. Append(s, 0) = [i \in 1 .. Len(s) + 1 |-> Append(s, 0)[i]]
  <2>1. Append(s, 0) = [i \in 1 .. Len(Append(s, 0)) |-> Append(s, 0)[i]]
    BY <1>1, AsFunction, Zenon
  <2> QED
    BY <1>1, <2>1, Zenon
<1>3. \A i \in 1 .. Len(s) + 1 : Append(s, 0)[i] = IF i > Len(s) THEN 0 ELSE s[i]
  <2>1. Len(s) \in Nat
    OBVIOUS
  <2>2. \A i \in 1 .. Len(s) + 1 : IF i > Len(s) THEN i = Len(s) + 1 ELSE i \in 1 .. Len(s)
    BY <2>1
  <2> QED
    BY <1>1, <2>2
<1>4. Append(s, 0) = [i \in 1 .. Len(s) + 1 |-> IF i > Len(s) THEN 0 ELSE s[i]]
  BY <1>2, <1>3
<1> QED
  BY <1>1, <1>4 DEF Pool!WithNew

LEMMA CountedUp ==
  ASSUME NEW s \in Seq(Nat), NEW k \in 1 .. Len(s)
  PROVE  /\ [s EXCEPT ![k] = @ + 1] \in Seq(Nat) /\ Len([s EXCEPT ![k] = @ + 1]) = Len(s)
         /\ \A i \in 1 .. Len(s) : [s EXCEPT ![k] = @ + 1][i] = IF i = k THEN s[i] + 1 ELSE s[i]
<1>1. s[k] + 1 \in Nat
  OBVIOUS
<1>2. [s EXCEPT ![k] = s[k] + 1] \in Seq(Nat) /\ Len([s EXCEPT ![k] = s[k] + 1]) = Len(s)
  BY <1>1, ExceptSeq
<1> QED
  BY <1>2

\* What every step of a worker does to the places, the leases and the scenario.
LEMMA Frame ==
  ASSUME PoolInv, [Next]_vars
  PROVE  ScenarioOK' /\ left'.hashes = left.hashes
<1>0. TypeOK
  BY DEF PoolInv
<1>1. \/ Spend("fetches") \/ Spend("faults") \/ Spend("inputs") \/ Spend("builds") \/ left' = left
  <2>1. CASE UNCHANGED vars
    BY <2>1 DEF vars
  <2>2. ASSUME NEW w \in Workers, Worker(w) \/ Activity(w) \/ Acknowledged(w) \/ Panic(w)
        PROVE  \/ Spend("fetches") \/ Spend("faults") \/ Spend("inputs") \/ Spend("builds") \/ left' = left
    <3> HIDE DEF Spend
    <3> QED
      BY <2>2 DEF Worker, Gate, Get, Pace, Fetched, Waited, Start, Allocated, Record, Configured,
        Fail, Abort, RequestDisconnect, SendDisconnect, Disconnected, Ended, Settle, Activity,
        Acknowledged, Panic
  <2>3. CASE ControlInput \/ Signalled \/ HookFails \/ Rebuild \/ Finish
    BY <2>3 DEF ControlInput, Signalled, HookFails, Rebuild, Finish
  <2> QED
    BY <2>1, <2>2, <2>3 DEF Next
<1> QED
  BY <1>0, <1>1, Spending

LEMMA WorkersTyped ==
  ASSUME PoolInv, [Next]_vars
  PROVE  WorkersOK'
<1>1. pc \in [Workers -> Places] /\ lease \in [Workers -> Leases \cup {None}] /\ TypeOK
  BY DEF PoolInv, TypeOK, WorkersOK
<1>2. CASE UNCHANGED vars
  BY <1>1, <1>2 DEF vars, WorkersOK
<1>3. ASSUME NEW w \in Workers, Worker(w) \/ Activity(w) \/ Acknowledged(w) \/ Panic(w)
      PROVE  pc' \in [Workers -> Places]
  BY <1>1, <1>3 DEF Worker, Gate, Get, Pace, Fetched, Waited, GiveUp, Start, Allocated, Record, Configured,
    Fail, Abort, RequestDisconnect, SendDisconnect, Disconnected, Ended, Settle, Activity,
    Acknowledged, Panic, Goto, Leave, Places
<1>4. ASSUME NEW w \in Workers, Worker(w) \/ Activity(w) \/ Acknowledged(w) \/ Panic(w)
      PROVE  lease' \in [Workers -> Leases \cup {None}]
  <2>1. CASE lease' = lease
    BY <1>1, <2>1
  <2>2. CASE lease' = [lease EXCEPT ![w] = None]
    BY <1>1, <2>2
  <2>3. CASE reserve(w, CredOf(w))
    <3> DEFINE c == CredOf(w)
    <3>1. cur[c] \in Cached
      BY <1>1, <2>3, CredTyped DEF TypeOK, CachesOK, reserve, CanReserve
    <3>2. [val |-> cur[c].val, gen |-> cur[c].gen] \in Leases
      BY <3>1 DEF Leases, Cached
    <3>3. lease' = [lease EXCEPT ![w] = [val |-> cur[c].val, gen |-> cur[c].gen]]
      BY <2>3 DEF reserve
    <3> QED
      BY <1>1, <3>2, <3>3
  <2>4. lease' = lease \/ lease' = [lease EXCEPT ![w] = None] \/ reserve(w, CredOf(w))
    <3> HIDE DEF reserve
    <3> QED
      BY <1>4 DEF Worker, Gate, Get, Pace, Fetched, Waited, Start, Allocated, Record, Configured,
        Fail, Abort, RequestDisconnect, SendDisconnect, Disconnected, Ended, Settle, Activity,
        Acknowledged, Panic, Leave, release
  <2> QED
    BY <2>1, <2>2, <2>3, <2>4
<1>5. CASE ControlInput \/ Signalled \/ HookFails \/ Rebuild \/ Finish
  BY <1>1, <1>5 DEF ControlInput, Signalled, HookFails, Rebuild, Finish, WorkersOK, Places
<1> QED
  BY <1>2, <1>3, <1>4, <1>5 DEF Next, WorkersOK

LEMMA LocksTyped ==
  ASSUME PoolInv, [Next]_vars
  PROVE  LocksOK'
<1>1. lock \in [Creds -> Workers \cup {None}]
  BY DEF PoolInv, TypeOK, LocksOK
<1>2. CASE UNCHANGED vars
  BY <1>1, <1>2 DEF vars, locks, LocksOK
<1>3. ASSUME NEW w \in Workers, Worker(w) \/ Activity(w) \/ Acknowledged(w) \/ Panic(w)
      PROVE  LocksOK'
  BY <1>1, <1>3 DEF Worker, Gate, Get, Pace, Fetched, Waited, Start, Allocated, Record, Configured,
    Fail, Abort, RequestDisconnect, SendDisconnect, Disconnected, Ended, Settle, Activity,
    Acknowledged, Panic, locks, LocksOK
<1>5. CASE ControlInput \/ Signalled \/ HookFails \/ Rebuild \/ Finish
  BY <1>1, <1>5 DEF ControlInput, Signalled, HookFails, Rebuild, Finish, locks, LocksOK
<1> QED
  BY <1>2, <1>3, <1>5 DEF Next

LEMMA WithoutTyped ==
  ASSUME NEW s \in Seq(Workers), NEW w
  PROVE  Without(s, w) \in Seq(Workers)
<1>1. ASSUME NEW i \in 1 .. Len(s) PROVE RemoveAt(s, i) \in Seq(Workers)
  <2>1. SubSeq(s, 1, i - 1) \in Seq(Workers) /\ SubSeq(s, i + 1, Len(s)) \in Seq(Workers)
    <3>1. Len(s) \in Nat /\ \A j \in 1 .. Len(s) : s[j] \in Workers
      OBVIOUS
    <3> QED
      BY <3>1, SubSeqProperties
  <2> QED
    BY <2>1 DEF RemoveAt
<1>2. CASE Contains(s, w)
  <2>1. \E i \in DOMAIN s : s[i] = w
    BY <1>2 DEF Contains
  <2>2. (CHOOSE i \in DOMAIN s : s[i] = w) \in 1 .. Len(s)
    BY <2>1
  <2> QED
    BY <1>1, <1>2, <2>2 DEF Without
<1> QED
  BY <1>2 DEF Without

LEMMA ShutdownTyped ==
  ASSUME PoolInv, [Next]_vars
  PROVE  ShutdownOK'
<1>1. /\ streams \in Seq(Workers) /\ plan \in Seq(Workers) /\ acks \subseteq Workers /\ goodbyes \in Nat
  BY DEF PoolInv, TypeOK, ShutdownOK
<1>2. CASE UNCHANGED shutdown
  BY <1>1, <1>2 DEF shutdown, ShutdownOK
<1>3. \A w \in Workers : Without(streams, w) \in Seq(Workers)
  BY <1>1, WithoutTyped
<1>4. \A w \in Workers : \A s \in Seq(Workers) : Append(s, w) \in Seq(Workers)
  OBVIOUS
<1>5. ASSUME NEW w \in Workers, Configured(w) \/ Activity(w) \/ Fail(w) \/ Disconnected(w)
      PROVE  ShutdownOK'
  <2> HIDE DEF Without
  <2> QED
    BY <1>1, <1>3, <1>4, <1>5 DEF Configured, Activity, Fail, Disconnected, ShutdownOK
<1>6. ASSUME NEW w \in Workers, RequestDisconnect(w)
      PROVE  ShutdownOK'
  <2> DEFINE r == Reverse(streams)
             k == IF Len(streams) < 2 THEN Len(streams) ELSE 2
  <2>1. Len(streams) \in Nat /\ k \in 0 .. Len(streams)
    BY <1>1
  <2>2. \A i \in 1 .. Len(streams) : r[i] \in Workers
    <3> SUFFICES ASSUME NEW i \in 1 .. Len(streams) PROVE r[i] \in Workers
      OBVIOUS
    <3>1. Len(streams) - i + 1 \in 1 .. Len(streams) /\ r[i] = streams[(Len(streams) - i) + 1]
      BY <2>1 DEF Reverse
    <3> QED
      BY <1>1, <3>1
  <2>3. 1 \in Int /\ k \in Int /\ \A i \in 1 .. k : r[i] \in Workers
    BY <2>1, <2>2
  <2> HIDE DEF r, k
  <2>4. SubSeq(r, 1, k) \in Seq(Workers)
    BY <2>3, SubSeqProperties
  <2>5. plan' = plan \/ plan' = SubSeq(r, 1, k)
    BY <1>6 DEF RequestDisconnect, r, k
  <2> QED
    BY <1>1, <1>6, <2>4, <2>5 DEF RequestDisconnect, ShutdownOK
<1>7. ASSUME NEW w \in Workers, SendDisconnect(w)
      PROVE  ShutdownOK'
  <2>1. plan # <<>> /\ plan' = Tail(plan)
    BY <1>7 DEF SendDisconnect
  <2>2. Head(plan) \in Workers /\ Tail(plan) \in Seq(Workers)
    BY <1>1, <2>1, HeadTailProperties
  <2>3. goodbyes' \in Nat /\ acks' \subseteq Workers /\ streams' = streams
    BY <1>1, <1>7, <2>2 DEF SendDisconnect
  <2> QED
    BY <1>1, <2>1, <2>2, <2>3 DEF ShutdownOK
<1>8. ASSUME NEW w \in Workers, Acknowledged(w)
      PROVE  ShutdownOK'
  BY <1>1, <1>8 DEF Acknowledged, ShutdownOK
<1>9. CASE Rebuild
  BY <1>1, <1>9 DEF Rebuild, ShutdownOK
<1>10. ASSUME NEW w \in Workers, Worker(w) \/ Activity(w) \/ Acknowledged(w) \/ Panic(w)
       PROVE  \/ Configured(w) \/ Activity(w) \/ Fail(w) \/ Disconnected(w) \/ RequestDisconnect(w)
              \/ SendDisconnect(w) \/ Acknowledged(w) \/ UNCHANGED shutdown
  BY <1>10 DEF Worker, Gate, Get, Pace, Fetched, Waited, Start, Allocated, Record, Abort, Ended, Settle,
    Panic
<1>11. CASE ControlInput \/ Signalled \/ HookFails \/ Finish
  BY <1>2, <1>11 DEF ControlInput, Signalled, HookFails, Finish
<1>12. CASE UNCHANGED vars
  BY <1>2, <1>12 DEF vars
<1> QED
  BY <1>2, <1>5, <1>6, <1>7, <1>8, <1>9, <1>10, <1>11, <1>12 DEF Next

LEMMA CachedFields ==
  ASSUME NEW r \in Cached
  PROVE  /\ LET x == [r EXCEPT !.attempts = @ + 1]
            IN  x \in Cached /\ x.gen = r.gen /\ x.val = r.val /\ x.attempts = r.attempts + 1
         /\ r.attempts > 0 =>
              LET x == [r EXCEPT !.attempts = @ - 1]
              IN  x \in Cached /\ x.gen = r.gen /\ x.val = r.val /\ x.attempts = r.attempts - 1
         /\ \A m \in Nat :
              LET x == [r EXCEPT !.mismatches = m]
              IN  x \in Cached /\ x.gen = r.gen /\ x.val = r.val /\ x.attempts = r.attempts
         /\ r.gen \in Nat /\ r.val \in Nat /\ r.attempts \in Nat
<1>1. \A m \in Nat :
              LET x == [r EXCEPT !.mismatches = m]
              IN  x \in Cached /\ x.gen = r.gen /\ x.val = r.val /\ x.attempts = r.attempts
  BY DEF Cached
<1>2. LET x == [r EXCEPT !.attempts = @ + 1]
      IN  x \in Cached /\ x.gen = r.gen /\ x.val = r.val /\ x.attempts = r.attempts + 1
  BY DEF Cached
<1>3. r.attempts > 0 =>
        LET x == [r EXCEPT !.attempts = @ - 1]
        IN  x \in Cached /\ x.gen = r.gen /\ x.val = r.val /\ x.attempts = r.attempts - 1
  BY DEF Cached
<1> QED
  BY <1>1, <1>2, <1>3 DEF Cached
-----------------------------------------------------------------------------
\* The steps of the pool: what a change of the cache does to the pool and to the counts.

PoolStep == [Pool!Next]_<<generation, Valid, Leased, used>>

LEMMA CountTyped ==
  ASSUME TypeOK, Numbered, NEW c \in Creds
  PROVE  /\ generation[c] \in Nat /\ used[c] \in Seq(Nat) /\ Len(used[c]) = generation[c]
         /\ \A g \in 1 .. generation[c] : Leased[c][g] \in Nat /\ used[c][g] \in Nat
         /\ Leased[c] \in [1 .. generation[c] -> Nat]
         /\ cur[c] # None => /\ cur[c] \in Cached /\ cur[c].attempts \in Nat
                             /\ cur[c].gen = generation[c] /\ generation[c] \in 1 .. generation[c]
<1>1. generation[c] \in Nat /\ used[c] \in Seq(Nat) /\ Len(used[c]) = generation[c]
  BY DEF TypeOK, CachesOK, Numbered
<1>2. \A g \in 1 .. generation[c] : used[c][g] \in Nat
  BY <1>1
<1>3. cur[c] # None => cur[c] \in Cached /\ cur[c].attempts \in Nat
  BY DEF TypeOK, CachesOK, Cached
<1>4. cur[c] # None => cur[c].gen = generation[c] /\ generation[c] \in 1 .. generation[c]
  BY <1>1 DEF Numbered
<1> QED
  BY <1>1, <1>2, <1>3, <1>4, LeasedTyped

LEMMA PoolStutters ==
  ASSUME TypeOK, Numbered, Attempts, generation' = generation, used' = used, Leased' = Leased,
         \A d \in Creds : /\ cur'[d] = None <=> cur[d] = None
                          /\ cur[d] # None => /\ cur'[d].gen = cur[d].gen
                                              /\ cur'[d].attempts = cur[d].attempts
  PROVE  Numbered' /\ Attempts' /\ PoolStep
<1>1. Valid' = Valid
  BY DEF Valid
<1>2. Numbered'
  BY DEF Numbered
<1>3. Attempts'
  BY DEF Attempts, Taken
<1> QED
  BY <1>1, <1>2, <1>3 DEF PoolStep

LEMMA PoolGivesUp ==
  ASSUME TypeOK, Numbered, Attempts, generation' = generation, used' = used, Leased' = Leased,
         NEW c \in Creds, cur'[c] = None, \A d \in Creds : d # c => cur'[d] = cur[d]
  PROVE  Numbered' /\ Attempts' /\ PoolStep
<1>1. CASE cur[c] = None
  <2>1. \A d \in Creds : cur'[d] = cur[d]
    BY <1>1
  <2> QED
    BY <2>1, PoolStutters
<1>2. CASE cur[c] # None
  <2>1. Valid' = [Valid EXCEPT ![c] = FALSE] /\ Valid[c]
    BY <1>2 DEF Valid
  <2>2. Pool!GiveUp(c)
    BY <2>1 DEF Pool!GiveUp
  <2>3. Numbered'
    BY DEF Numbered
  <2>4. Attempts'
    BY DEF Attempts, Taken
  <2> QED
    BY <2>2, <2>3, <2>4 DEF PoolStep, Pool!Next
<1> QED
  BY <1>1, <1>2

LEMMA PoolLeases ==
  ASSUME TypeOK, Numbered, Attempts, generation' = generation, used' = used,
         NEW c \in Creds, cur[c] # None, cur[c].attempts < Cap,
         Leased' = [Leased EXCEPT ![c][generation[c]] = @ + 1],
         cur'[c] # None, cur'[c].gen = cur[c].gen, cur'[c].attempts = cur[c].attempts + 1,
         \A d \in Creds : d # c => cur'[d] = cur[d]
  PROVE  Numbered' /\ Attempts' /\ PoolStep
<1> DEFINE n == generation[c]
<1>1. /\ n \in Nat /\ n \in 1 .. n /\ Leased[c][n] \in Nat /\ used[c][n] \in Nat
      /\ cur[c].attempts \in Nat /\ Cap \in Nat /\ cur[c].gen = n
      /\ Leased[c] \in [1 .. n -> Nat] /\ \A g \in 1 .. n : used[c][g] \in Nat
  BY CountTyped, Constants
<1>2. Leased[c][n] + used[c][n] <= cur[c].attempts
      /\ \A g \in 1 .. n : Leased[c][g] + used[c][g] <= Cap
  BY DEF Attempts, Taken
<1>3. /\ Leased'[c] = [Leased[c] EXCEPT ![n] = @ + 1]
      /\ \A d \in Creds : d # c => Leased'[d] = Leased[d]
  BY LeasedTyped
<1>4. Pool!Lease(c)
  <2>1. Valid' = Valid /\ Valid[c]
    BY DEF Valid
  <2>2. Leased[c][n] + used[c][n] < Cap
    BY <1>1, <1>2
  <2> QED
    BY <2>1, <2>2 DEF Pool!Lease
<1>5. Numbered'
  BY DEF Numbered
<1>6. Attempts'
  <2>1. Leased'[c][n] = Leased[c][n] + 1 /\ \A g \in 1 .. n : g # n => Leased'[c][g] = Leased[c][g]
    BY <1>1, <1>3
  <2> DEFINE new == Leased'[c]
             old == Leased[c]
             uses == used[c]
             a == cur[c].attempts
             b == cur'[c].attempts
  <2>0. /\ n \in Nat /\ old[n] \in Nat /\ uses[n] \in Nat /\ a \in Nat /\ Cap \in Nat
        /\ old[n] + uses[n] <= a /\ new[n] = old[n] + 1 /\ a < Cap /\ b = a + 1
        /\ \A g \in 1 .. n : old[g] + uses[g] <= Cap /\ (g # n => new[g] = old[g])
    BY <1>1, <1>2, <2>1
  <2> HIDE DEF new, old, uses, a, b, n
  <2>9. new[n] + uses[n] <= b /\ b <= Cap /\ new[n] + uses[n] <= Cap
    BY <2>0
  <2>2. Leased'[c][n] + used[c][n] <= cur'[c].attempts /\ cur'[c].attempts <= Cap
    BY <2>9 DEF new, uses, b
  <2>10. ASSUME NEW g \in 1 .. n PROVE new[g] + uses[g] <= Cap
    BY <2>0, <2>9
  <2>3. \A g \in 1 .. n : Leased'[c][g] + used[c][g] <= Cap
    BY <2>10 DEF new, uses
  <2>4. \A d \in Creds : d # c =>
          /\ cur'[d] # None => Leased'[d][generation[d]] + used[d][generation[d]] <= cur'[d].attempts
                               /\ cur'[d].attempts <= Cap
          /\ \A g \in 1 .. generation[d] : Leased'[d][g] + used[d][g] <= Cap
    BY <1>3 DEF Attempts, Taken
  <2> QED
    BY <2>2, <2>3, <2>4 DEF Attempts, Taken, n
<1> QED
  BY <1>4, <1>5, <1>6 DEF PoolStep, Pool!Next

LEMMA PoolUses ==
  ASSUME TypeOK, Numbered, Attempts, generation' = generation, cur' = cur,
         NEW c \in Creds, NEW n \in 1 .. generation[c],
         Leased' = [Leased EXCEPT ![c][n] = @ - 1], Leased[c][n] > 0,
         used' = [used EXCEPT ![c][n] = @ + 1]
  PROVE  Numbered' /\ Attempts' /\ PoolStep
<1>1. /\ generation[c] \in Nat /\ used[c] \in Seq(Nat) /\ Len(used[c]) = generation[c]
      /\ \A g \in 1 .. generation[c] : Leased[c][g] \in Nat /\ used[c][g] \in Nat
      /\ Leased[c] \in [1 .. generation[c] -> Nat]
  BY CountTyped
<1>2. /\ Leased'[c] = [Leased[c] EXCEPT ![n] = @ - 1]
      /\ \A d \in Creds : d # c => Leased'[d] = Leased[d]
  BY LeasedTyped
<1>3. /\ used'[c] = [used[c] EXCEPT ![n] = @ + 1]
      /\ \A d \in Creds : d # c => used'[d] = used[d]
  BY DEF TypeOK, CachesOK
<1>4. Len(used'[c]) = Len(used[c])
  BY <1>1, <1>3, CountedUp
<1>5. \A g \in 1 .. generation[c] : Leased'[c][g] + used'[c][g] = Leased[c][g] + used[c][g]
  <2>1. \A g \in 1 .. generation[c] : used'[c][g] = IF g = n THEN used[c][g] + 1 ELSE used[c][g]
    <3> DEFINE uses == used[c]
               m == generation[c]
    <3>1. uses \in Seq(Nat) /\ Len(uses) = m /\ n \in 1 .. m /\ used'[c] = [uses EXCEPT ![n] = @ + 1]
      BY <1>1, <1>3
    <3> HIDE DEF uses, m
    <3>2. \A g \in 1 .. m : [uses EXCEPT ![n] = @ + 1][g] = IF g = n THEN uses[g] + 1 ELSE uses[g]
      BY <3>1, CountedUp
    <3> QED
      BY <3>1, <3>2 DEF uses, m
  <2>2. \A g \in 1 .. generation[c] : Leased'[c][g] = IF g = n THEN Leased[c][g] - 1 ELSE Leased[c][g]
    BY <1>1, <1>2
  <2> DEFINE old == Leased[c]
             new == Leased'[c]
             uses == used[c]
             used2 == used'[c]
             m == generation[c]
  <2>3. /\ \A g \in 1 .. m : old[g] \in Nat /\ uses[g] \in Nat
        /\ \A g \in 1 .. m : used2[g] = IF g = n THEN uses[g] + 1 ELSE uses[g]
        /\ \A g \in 1 .. m : new[g] = IF g = n THEN old[g] - 1 ELSE old[g]
    BY <1>1, <2>1, <2>2
  <2> HIDE DEF old, new, uses, used2, m
  <2>4. \A g \in 1 .. m : new[g] + used2[g] = old[g] + uses[g]
    BY <2>3
  <2> QED
    BY <2>4 DEF old, new, uses, used2, m
<1>6. Numbered'
  BY <1>3, <1>4 DEF Numbered
<1>7. Attempts'
  <2>1. \A d \in Creds : \A g \in 1 .. generation[d] : Leased'[d][g] + used'[d][g] = Leased[d][g] + used[d][g]
    BY <1>2, <1>3, <1>5
  <2>2. \A d \in Creds : cur[d] # None => generation[d] \in 1 .. generation[d]
    BY CountTyped
  <2> QED
    BY <2>1, <2>2 DEF Attempts, Taken
<1>8. Pool!Use(c, n)
  <2>1. Valid' = Valid
    BY DEF Valid
  <2> QED
    BY <2>1 DEF Pool!Use
<1> QED
  BY <1>6, <1>7, <1>8 DEF PoolStep, Pool!Next

LEMMA PoolTakesBack ==
  ASSUME TypeOK, Numbered, Attempts, generation' = generation, used' = used,
         NEW c \in Creds, NEW n \in 1 .. generation[c],
         Leased' = [Leased EXCEPT ![c][n] = @ - 1], Leased[c][n] > 0,
         \A d \in Creds : d # c => cur'[d] = cur[d],
         \/ cur'[c] = cur[c]
         \/ /\ cur[c] # None /\ cur'[c] # None /\ cur[c].gen = n
            /\ cur'[c].gen = cur[c].gen /\ cur'[c].attempts = cur[c].attempts - 1
  PROVE  Numbered' /\ Attempts' /\ PoolStep
<1>1. /\ generation[c] \in Nat /\ Cap \in Nat
      /\ \A g \in 1 .. generation[c] : Leased[c][g] \in Nat /\ used[c][g] \in Nat
      /\ Leased[c] \in [1 .. generation[c] -> Nat]
      /\ cur[c] # None => /\ cur[c].attempts \in Nat /\ cur[c].gen = generation[c]
                          /\ generation[c] \in 1 .. generation[c]
  BY CountTyped, Constants
<1>2. /\ Leased'[c] = [Leased[c] EXCEPT ![n] = @ - 1]
      /\ \A d \in Creds : d # c => Leased'[d] = Leased[d]
  BY LeasedTyped
<1>3. \A g \in 1 .. generation[c] : Leased'[c][g] = IF g = n THEN Leased[c][g] - 1 ELSE Leased[c][g]
  BY <1>1, <1>2
<1>4. Numbered'
  BY DEF Numbered
<1>5. Attempts'
  <2>1. \A g \in 1 .. generation[c] : Leased'[c][g] + used[c][g] <= Cap
    <3>1. \A g \in 1 .. generation[c] : Leased[c][g] + used[c][g] <= Cap
      BY DEF Attempts, Taken
    <3>2. ASSUME NEW g \in 1 .. generation[c] PROVE Leased'[c][g] + used[c][g] <= Cap
      BY <1>1, <1>3, <3>1, OneLess
    <3> QED
      BY <3>2
  <2>2. cur'[c] # None => Leased'[c][generation[c]] + used[c][generation[c]] <= cur'[c].attempts
                          /\ cur'[c].attempts <= Cap
    <3>1. cur[c] # None => Leased[c][generation[c]] + used[c][generation[c]] <= cur[c].attempts
                           /\ cur[c].attempts <= Cap
      BY DEF Attempts, Taken
    <3>2. cur[c] # None => Leased'[c][generation[c]] = IF generation[c] = n THEN Leased[c][generation[c]] - 1
                                                        ELSE Leased[c][generation[c]]
      BY <1>1, <1>3
    <3>3. CASE cur'[c] = cur[c]
      BY <3>1, <3>2, <3>3, <1>1, OneLess
    <3>4. CASE /\ cur[c] # None /\ cur'[c] # None /\ cur[c].gen = n
               /\ cur'[c].gen = cur[c].gen /\ cur'[c].attempts = cur[c].attempts - 1
      BY <3>1, <3>2, <3>4, <1>1
    <3> QED
      BY <3>3, <3>4
  <2>3. \A d \in Creds : d # c =>
          /\ cur'[d] # None => Leased'[d][generation[d]] + used[d][generation[d]] <= cur'[d].attempts
                               /\ cur'[d].attempts <= Cap
          /\ \A g \in 1 .. generation[d] : Leased'[d][g] + used[d][g] <= Cap
    BY <1>2 DEF Attempts, Taken
  <2> QED
    BY <2>1, <2>2, <2>3 DEF Attempts, Taken
<1>6. Pool!Return(c, n)
  <2>1. Valid' = Valid
    BY DEF Valid
  <2> QED
    BY <2>1 DEF Pool!Return
<1> QED
  BY <1>4, <1>5, <1>6 DEF PoolStep, Pool!Next

LEMMA PoolRenews ==
  ASSUME TypeOK, Numbered, Attempts, NEW c \in Creds, cur[c] = None,
         generation' = [generation EXCEPT ![c] = @ + 1],
         used' = [used EXCEPT ![c] = Append(@, 0)],
         Leased' = [Leased EXCEPT ![c] = Pool!WithNew(@, generation[c])],
         Leased'[c][generation[c] + 1] = 0,
         cur'[c] # None, cur'[c].gen = generation[c] + 1, cur'[c].attempts = 0,
         \A d \in Creds : d # c => cur'[d] = cur[d]
  PROVE  Numbered' /\ Attempts' /\ PoolStep
<1> DEFINE n == generation[c]
<1>1. /\ n \in Nat /\ used[c] \in Seq(Nat) /\ Len(used[c]) = n /\ Cap \in Nat
      /\ \A g \in 1 .. n : Leased[c][g] \in Nat /\ used[c][g] \in Nat
  BY CountTyped, Constants
<1>2. /\ generation'[c] = n + 1 /\ \A d \in Creds : d # c => generation'[d] = generation[d]
      /\ used'[c] = Append(used[c], 0) /\ \A d \in Creds : d # c => used'[d] = used[d]
  BY DEF TypeOK, CachesOK
<1>3. /\ Leased'[c] = Pool!WithNew(Leased[c], n) /\ \A d \in Creds : d # c => Leased'[d] = Leased[d]
  BY LeasedTyped
<1>4. /\ Len(used'[c]) = n + 1 /\ used'[c][n + 1] = 0 /\ used'[c] = Pool!WithNew(used[c], n)
  BY <1>1, <1>2, Appended
<1>5. Numbered'
  <2>1. Len(used'[c]) = generation'[c] /\ cur'[c].gen = generation'[c] /\ generation'[c] > 0
    BY <1>1, <1>2, <1>4
  <2>2. \A d \in Creds : d # c => /\ Len(used'[d]) = generation'[d]
                                  /\ cur'[d] # None => cur'[d].gen = generation'[d] /\ generation'[d] > 0
    BY <1>2 DEF Numbered
  <2> QED
    BY <2>1, <2>2 DEF Numbered
<1>6. Attempts'
  <2>1. Leased'[c][generation'[c]] + used'[c][generation'[c]] = 0
    BY <1>2, <1>4
  <2>2. \A g \in 1 .. n : Leased'[c][g] = Leased[c][g] /\ used'[c][g] = used[c][g]
    BY <1>1, <1>3, <1>4 DEF Pool!WithNew
  <2>3. \A g \in 1 .. n : Leased[c][g] + used[c][g] <= Cap
    BY DEF Attempts, Taken
  <2>4. \A g \in 1 .. generation'[c] : g \in 1 .. n \/ g = generation'[c]
    BY <1>1, <1>2
  <2>5. \A g \in 1 .. generation'[c] : Leased'[c][g] + used'[c][g] <= Cap
    BY <1>1, <2>1, <2>2, <2>3, <2>4
  <2>6. Leased'[c][generation'[c]] + used'[c][generation'[c]] <= cur'[c].attempts /\ cur'[c].attempts <= Cap
    <3>1. 0 <= 0 /\ 0 <= Cap
      BY <1>1
    <3> QED
      BY <2>1, <3>1, Zenon
  <2>7. \A d \in Creds : d # c =>
          /\ cur'[d] # None => Leased'[d][generation'[d]] + used'[d][generation'[d]] <= cur'[d].attempts
                               /\ cur'[d].attempts <= Cap
          /\ \A g \in 1 .. generation'[d] : Leased'[d][g] + used'[d][g] <= Cap
    BY <1>2, <1>3 DEF Attempts, Taken
  <2> QED
    BY <2>5, <2>6, <2>7 DEF Attempts, Taken
<1>7. Pool!Renew(c)
  <2>1. Valid' = [Valid EXCEPT ![c] = TRUE] /\ ~Valid[c]
    <3>1. /\ Valid = [d \in Creds |-> Valid[d]] /\ Valid' = [d \in Creds |-> Valid'[d]]
          /\ \A d \in Creds : Valid[d] = (cur[d] # None) /\ Valid'[d] = (cur'[d] # None)
      BY Zenon DEF Valid
    <3>2. \A d \in Creds : d # c => Valid'[d] = Valid[d]
      BY <3>1, Zenon
    <3>3. Valid' = [Valid EXCEPT ![c] = Valid'[c]]
      BY <3>1, <3>2, OneEntry, Zenon
    <3> QED
      BY <3>1, <3>3, Zenon
  <2>2. used' = [used EXCEPT ![c] = Pool!WithNew(@, generation[c])]
    BY <1>2, <1>4
  <2> QED
    BY <2>1, <2>2 DEF Pool!Renew
<1> QED
  BY <1>5, <1>6, <1>7 DEF PoolStep, Pool!Next

LEMMA PoolRebuilds ==
  ASSUME TypeOK, Numbered, Rebuild
  PROVE  Numbered' /\ Attempts' /\ PoolStep
<1>1. \A c \in Creds : generation'[c] = 0 /\ cur'[c] = None /\ used'[c] = <<>>
  BY DEF Rebuild
<1>2. \A c \in Creds : \A g : Lessees(c, g) = {}
  BY DEF Rebuild, AllDone, Lessees
<1>3. \A c \in Creds : \A g \in 1 .. generation[c] : Leased[c][g] = 0
  BY <1>2, FS_EmptySet DEF Leased
<1>4. Leased' = [c \in Creds |-> <<>>]
  <2>1. ASSUME NEW c \in Creds PROVE [g \in 1 .. generation'[c] |-> Cardinality(Lessees(c, g)')] = <<>>
    <3>1. 1 .. generation'[c] = {}
      BY <1>1
    <3> QED
      BY <3>1
  <2>2. Leased' = [c \in Creds |-> [g \in 1 .. generation'[c] |-> Cardinality(Lessees(c, g)')]]
    BY DEF Leased
  <2> QED
    BY <2>1, <2>2
<1>5. Valid' = [c \in Creds |-> FALSE]
  BY <1>1 DEF Valid
<1>6. Pool!Rebuild
  BY <1>3, <1>4, <1>5 DEF Rebuild, Pool!Rebuild
<1>7. Numbered'
  BY <1>1 DEF Numbered
<1>8. Attempts'
  BY <1>1 DEF Attempts
<1> QED
  BY <1>6, <1>7, <1>8 DEF PoolStep, Pool!Next
-----------------------------------------------------------------------------
\* Every step keeps the invariant of the pool.

Holding == Asking \cup {"stored", "failed"}
Kept == CachesOK /\ Locked /\ Dropped /\ Numbered /\ Lent /\ Attempts

LEMMA Cohorts ==
  ASSUME TypeOK, left'.hashes = left.hashes
  PROVE  \A x \in Workers : CredOf(x)' = CredOf(x) /\ CredOf(x) \in Creds
BY SameCred, CredTyped

\* No lock but w's changes hands.
Released(w) == \A d \in Creds : lock'[d] = lock[d] \/ lock[d] = w

LEMMA Moves ==
  ASSUME TypeOK, NEW w \in Workers, NEW p, pc' = [pc EXCEPT ![w] = p]
  PROVE  pc'[w] = p /\ \A x \in Workers : x # w => pc'[x] = pc[x]
BY DEF TypeOK, WorkersOK

LEMMA Releases ==
  ASSUME TypeOK, NEW w \in Workers,
         \/ lock' = lock
         \/ lock[CredOf(w)] = w /\ lock' = [lock EXCEPT ![CredOf(w)] = None]
  PROVE  Released(w)
BY CredTyped DEF TypeOK, LocksOK, Released

LEMMA OtherLeases ==
  ASSUME TypeOK, NEW w \in Workers, NEW l, lease' = [lease EXCEPT ![w] = l]
  PROVE  lease'[w] = l /\ \A x \in Workers : x # w => lease'[x] = lease[x]
BY DEF TypeOK, WorkersOK

\* A worker that asks for nothing any more may have given its lock back.
LEMMA LockedKept ==
  ASSUME TypeOK, Locked, left'.hashes = left.hashes, NEW w \in Workers, pc'[w] \notin Holding,
         \A x \in Workers : x # w => pc'[x] = pc[x], Released(w)
  PROVE  Locked'
<1>1. \A x \in Workers : CredOf(x)' = CredOf(x) /\ CredOf(x) \in Creds
  BY Cohorts
<1>3. ASSUME NEW x \in Workers, pc'[x] \in Holding PROVE lock'[CredOf(x)] = x
  <2>1. pc[x] \in Holding /\ x # w
    BY <1>3
  <2>2. lock[CredOf(x)] = x
    BY <2>1 DEF Locked, Holding
  <2> QED
    BY <1>1, <2>1, <2>2 DEF Released
<1> QED
  BY <1>1, <1>3 DEF Locked, Holding

LEMMA DroppedKept ==
  ASSUME TypeOK, Dropped, left'.hashes = left.hashes,
         \A x \in Workers : pc'[x] \in Asking => pc[x] \in Asking,
         \A d \in Creds : cur[d] = None => cur'[d] = None
  PROVE  Dropped'
<1>1. \A x \in Workers : CredOf(x)' = CredOf(x) /\ CredOf(x) \in Creds
  BY Cohorts
<1> QED
  BY <1>1 DEF Dropped

LEMMA LentKept ==
  ASSUME TypeOK, Lent, left'.hashes = left.hashes, generation' = generation,
         \A x \in Workers : pc'[x] = "start" => pc[x] = "start" /\ lease'[x] = lease[x]
  PROVE  Lent'
<1>1. \A x \in Workers : CredOf(x)' = CredOf(x) /\ CredOf(x) \in Creds
  BY Cohorts
<1> QED
  BY <1>1 DEF Lent

\* A step of one worker that neither takes nor gives back a lease, a lock or credentials.
LEMMA Elsewhere ==
  ASSUME PoolInv, left'.hashes = left.hashes, UNCHANGED <<cur, generation, used>>, CachesOK',
         NEW w \in Workers, pc'[w] \notin Holding, pc'[w] # "start", pc[w] # "start",
         \A x \in Workers : x # w => pc'[x] = pc[x], Released(w),
         \A x \in Workers : x # w => lease'[x] = lease[x]
  PROVE  Kept' /\ PoolStep
<1>1. /\ TypeOK /\ Locked /\ Dropped /\ Numbered /\ Lent /\ Attempts
      /\ cur' = cur /\ generation' = generation /\ used' = used
  BY DEF PoolInv
<1>3. \A x \in Workers : /\ pc'[x] = "start" <=> pc[x] = "start"
                         /\ pc[x] = "start" => lease'[x] = lease[x]
                         /\ pc'[x] \in Asking => pc[x] \in Asking
  BY DEF Holding
<1>4. Leased' = Leased
  BY <1>1, <1>3, SameLeases
<1>5. Numbered' /\ Attempts' /\ PoolStep
  BY <1>1, <1>4, PoolStutters
<1>6. Locked'
  BY <1>1, LockedKept
<1>7. Dropped'
  BY <1>1, <1>3, DroppedKept
<1>8. Lent'
  BY <1>1, <1>3, LentKept
<1> QED
  BY <1>5, <1>6, <1>7, <1>8 DEF Kept

LEMMA CachesKept == ASSUME PoolInv, UNCHANGED caches PROVE CachesOK' /\ UNCHANGED <<cur, generation, used>>
BY DEF PoolInv, TypeOK, CachesOK, caches

\* reserve gives one more lease on the current credentials.
LEMMA Reserves ==
  ASSUME PoolInv, left'.hashes = left.hashes, NEW w \in Workers, pc[w] # "start",
         reserve(w, CredOf(w)), pc' = [pc EXCEPT ![w] = "start"],
         UNCHANGED <<blocked, generation, issued, used>>, Released(w)
  PROVE  Kept' /\ PoolStep
<1> DEFINE c == CredOf(w)
           l == [val |-> cur[c].val, gen |-> cur[c].gen]
<1>1. /\ TypeOK /\ Locked /\ Dropped /\ Numbered /\ Lent /\ Attempts
  BY DEF PoolInv
<1>2. c \in Creds /\ \A x \in Workers : CredOf(x)' = CredOf(x) /\ CredOf(x) \in Creds
  BY <1>1, Cohorts
<1>3. /\ pc \in [Workers -> Places] /\ lease \in [Workers -> Leases \cup {None}]
      /\ cur \in [Creds -> Cached \cup {None}] /\ generation \in [Creds -> Nat]
  BY <1>1 DEF TypeOK, WorkersOK, CachesOK
<1>4. /\ cur[c] # None /\ cur[c] \in Cached /\ ~(cur[c].attempts >= Cap)
      /\ cur' = [cur EXCEPT ![c] = [cur[c] EXCEPT !.attempts = @ + 1]]
      /\ lease' = [lease EXCEPT ![w] = l]
  BY <1>2, <1>3 DEF reserve, CanReserve, Exhausted
<1>5. cur[c].gen = generation[c] /\ generation[c] \in 1 .. generation[c] /\ cur[c].attempts \in Nat
  BY <1>1, <1>2, <1>4, CountTyped
<1>6. l \in Leases /\ l # None /\ l.gen = generation[c]
  <2>1. l \in Leases
    BY <1>4 DEF Leases, Cached
  <2> QED
    BY <1>5, <2>1, Constants
<1> HIDE DEF l, c
<1>7. /\ pc'[w] = "start" /\ lease'[w] = l
      /\ \A x \in Workers : x # w => pc'[x] = pc[x] /\ lease'[x] = lease[x]
  BY <1>3, <1>4
<1>8. Leased' = [Leased EXCEPT ![c][generation[c]] = @ + 1]
  <2>1. Leased' = [Leased EXCEPT ![c][l.gen] = @ + 1]
    BY <1>1, <1>2, <1>5, <1>6, <1>7, OneMoreLease DEF c
  <2> QED
    BY <2>1, <1>6
<1>9. /\ cur'[c] \in Cached /\ cur'[c] # None /\ cur'[c].gen = cur[c].gen
      /\ cur'[c].attempts = cur[c].attempts + 1 /\ \A d \in Creds : d # c => cur'[d] = cur[d]
  <2>1. cur'[c] = [cur[c] EXCEPT !.attempts = @ + 1] /\ \A d \in Creds : d # c => cur'[d] = cur[d]
    BY <1>2, <1>3, <1>4
  <2> QED
    BY <1>4, <2>1, CachedFields, Constants
<1>10. Numbered' /\ Attempts' /\ PoolStep
  <2>1. cur[c].attempts < Cap
    BY <1>4, <1>5, Constants
  <2> QED
    BY <1>1, <1>2, <1>4, <1>8, <1>9, <2>1, PoolLeases
<1>11. Locked'
  <2>1. "start" \notin Holding
    BY DEF Holding, Asking
  <2> QED
    BY <1>1, <1>7, <2>1, LockedKept
<1>12. Dropped'
  BY <1>1, <1>3, <1>4, <1>7, <1>9, DroppedKept DEF Asking
<1>13. Lent'
  <2>1. \A x \in Workers : pc'[x] = "start" => lease'[x] # None /\ lease'[x].gen \in 1 .. generation[CredOf(x)]
    BY <1>1, <1>5, <1>6, <1>7 DEF Lent, c
  <2> QED
    BY <1>2, <2>1 DEF Lent
<1>14. CachesOK'
  <2>1. cur' \in [Creds -> Cached \cup {None}]
    BY <1>3, <1>4, <1>9
  <2> QED
    BY <1>1, <2>1 DEF TypeOK, CachesOK
<1> QED
  BY <1>10, <1>11, <1>12, <1>13, <1>14 DEF Kept

LEMMA GateStep == ASSUME PoolInv, [Next]_vars, NEW w \in Workers, Gate(w) PROVE Kept' /\ PoolStep
<1>1. PICK p \in {"done", "get"} : pc' = [pc EXCEPT ![w] = p]
  BY DEF Gate, Goto
<1>2. p \notin Holding /\ p # "start"
  BY DEF Holding, Asking
<1>3. TypeOK /\ left'.hashes = left.hashes /\ UNCHANGED caches /\ pc[w] # "start" /\ lock' = lock
      /\ lease' = lease
  BY Frame DEF PoolInv, Gate, locks
<1>6. CachesOK' /\ UNCHANGED <<cur, generation, used>>
  BY <1>3, CachesKept
<1>4. pc'[w] = p /\ \A x \in Workers : x # w => pc'[x] = pc[x]
  BY <1>1, <1>3, Moves
<1>5. Released(w)
  BY <1>3, Releases
<1> QED
  BY <1>2, <1>3, <1>4, <1>5, <1>6, Elsewhere

LEMMA GetStep == ASSUME PoolInv, [Next]_vars, NEW w \in Workers, Get(w) PROVE Kept' /\ PoolStep
<1> DEFINE c == CredOf(w)
<1>1. left'.hashes = left.hashes
  BY Frame
<1>2. CASE pc' = [pc EXCEPT ![w] = "done"] /\ UNCHANGED <<lease, cur, lock>>
  <2>1. "done" \notin Holding /\ "done" # "start" /\ TypeOK /\ pc[w] # "start" /\ UNCHANGED caches
    BY <1>2 DEF Holding, Asking, PoolInv, Get, caches
  <2>2. pc'[w] = "done" /\ \A x \in Workers : x # w => pc'[x] = pc[x]
    BY <1>2, <2>1, Moves
  <2>3. Released(w)
    BY <1>2, <2>1, Releases
  <2>4. CachesOK' /\ UNCHANGED <<cur, generation, used>>
    BY <1>2, <2>1, CachesKept
  <2> QED
    BY <1>1, <1>2, <2>1, <2>2, <2>3, <2>4, Elsewhere
<1>3. CASE reserve(w, c) /\ pc' = [pc EXCEPT ![w] = "start"] /\ lock' = lock
  <2>1. TypeOK /\ pc[w] # "start" /\ UNCHANGED <<blocked, generation, issued, used>>
    BY DEF PoolInv, Get
  <2>2. Released(w)
    BY <1>3, <2>1, Releases
  <2> QED
    BY <1>1, <1>3, <2>1, <2>2, Reserves
<1>4. CASE /\ lock[c] = None /\ cur' = [cur EXCEPT ![c] = None]
           /\ lock' = [lock EXCEPT ![c] = w] /\ pc' = [pc EXCEPT ![w] = "pace"] /\ lease' = lease
  <2>1. /\ TypeOK /\ Locked /\ Dropped /\ Numbered /\ Lent /\ Attempts
        /\ blocked' = blocked /\ generation' = generation /\ issued' = issued /\ used' = used
        /\ pc[w] = "get"
    BY DEF PoolInv, Get
  <2>2. /\ pc \in [Workers -> Places] /\ lock \in [Creds -> Workers \cup {None}]
        /\ cur \in [Creds -> Cached \cup {None}]
    BY <2>1 DEF TypeOK, WorkersOK, LocksOK, CachesOK
  <2>3. c \in Creds /\ \A x \in Workers : CredOf(x)' = CredOf(x) /\ CredOf(x) \in Creds
    BY <1>1, <2>1, Cohorts
  <2> HIDE DEF c
  <2>4. pc'[w] = "pace" /\ \A x \in Workers : x # w => pc'[x] = pc[x]
    BY <1>4, <2>2
  <2>5. cur'[c] = None /\ \A d \in Creds : d # c => cur'[d] = cur[d]
    BY <1>4, <2>2, <2>3
  <2>6. Leased' = Leased
    BY <1>1, <1>4, <2>1, <2>4, SameLeases
  <2>7. Numbered' /\ Attempts' /\ PoolStep
    BY <2>1, <2>3, <2>5, <2>6, PoolGivesUp
  <2>8. Lent'
    BY <1>1, <1>4, <2>1, <2>4, LentKept
  <2>9. Locked'
    <3>1. \A x \in Workers : x # w /\ pc'[x] \in Holding => lock[CredOf(x)] = x
      BY <2>1, <2>4 DEF Locked, Holding
    <3>2. \A x \in Workers : x # w /\ pc'[x] \in Holding => CredOf(x) # c
      BY <3>1, <1>4, Constants
    <3>3. \A x \in Workers : pc'[x] \in Holding => lock'[CredOf(x)] = x
      BY <1>4, <2>2, <2>3, <3>1, <3>2 DEF c
    <3> QED
      BY <2>3, <3>3 DEF Locked, Holding
  <2>10. Dropped'
    <3>1. \A x \in Workers : pc'[x] \in Asking => cur'[CredOf(x)] = None
      BY <2>1, <2>3, <2>4, <2>5 DEF Dropped, c
    <3> QED
      BY <2>3, <3>1 DEF Dropped
  <2>11. CachesOK'
    BY <1>4, <2>1, <2>2 DEF TypeOK, CachesOK
  <2> QED
    BY <2>7, <2>8, <2>9, <2>10, <2>11 DEF Kept
<1> HIDE DEF c
<1>5. Get(w) => \/ pc' = [pc EXCEPT ![w] = "done"] /\ UNCHANGED <<lease, cur, lock>>
                \/ reserve(w, c) /\ pc' = [pc EXCEPT ![w] = "start"] /\ lock' = lock
                \/ /\ lock[c] = None /\ cur' = [cur EXCEPT ![c] = None]
                   /\ lock' = [lock EXCEPT ![c] = w] /\ pc' = [pc EXCEPT ![w] = "pace"] /\ lease' = lease
  BY DEF Get, Goto, c
<1> QED
  BY <1>2, <1>3, <1>4, <1>5

\* A worker that asks VK keeps asking, with the same lock and nothing to lease.
LEMMA KeepsAsking ==
  ASSUME PoolInv, left'.hashes = left.hashes, UNCHANGED caches,
         NEW w \in Workers, pc[w] \in Asking, NEW p \in {"fetch", "failed"},
         pc' = [pc EXCEPT ![w] = p], lock' = lock, lease' = lease
  PROVE  Kept' /\ PoolStep
<1>1. /\ TypeOK /\ Locked /\ Dropped /\ Numbered /\ Lent /\ Attempts
      /\ cur' = cur /\ blocked' = blocked /\ generation' = generation /\ issued' = issued /\ used' = used
  BY DEF PoolInv, caches
<1>2. pc \in [Workers -> Places] /\ \A x \in Workers : CredOf(x)' = CredOf(x) /\ CredOf(x) \in Creds
  BY <1>1, Cohorts DEF TypeOK, WorkersOK
<1>3. pc'[w] = p /\ \A x \in Workers : x # w => pc'[x] = pc[x]
  BY <1>2
<1>4. Leased' = Leased
  BY <1>1, <1>3, SameLeases DEF Asking
<1>5. Numbered' /\ Attempts' /\ PoolStep
  BY <1>1, <1>4, PoolStutters
<1>6. Locked'
  <2>1. \A x \in Workers : pc'[x] \in Holding => lock[CredOf(x)] = x
    BY <1>1, <1>3 DEF Locked, Holding
  <2> QED
    BY <1>2, <2>1 DEF Locked, Holding
<1>7. Dropped'
  BY <1>1, <1>3, DroppedKept
<1>8. Lent'
  BY <1>1, <1>3, LentKept
<1>9. CachesOK'
  BY <1>1 DEF TypeOK, CachesOK
<1> QED
  BY <1>5, <1>6, <1>7, <1>8, <1>9 DEF Kept

LEMMA PaceStep == ASSUME PoolInv, [Next]_vars, NEW w \in Workers, Pace(w) PROVE Kept' /\ PoolStep
<1>1. left'.hashes = left.hashes
  BY Frame
<1>2. pc[w] = "pace" /\ lock[CredOf(w)] = w /\ lease' = lease /\ UNCHANGED caches
  BY DEF Pace, PoolInv, Locked, Asking
<1>3. CASE pc' = [pc EXCEPT ![w] = "done"] /\ lock' = [lock EXCEPT ![CredOf(w)] = None]
  <2>1. "done" \notin Holding /\ "done" # "start" /\ TypeOK /\ pc[w] # "start"
    BY <1>2 DEF Holding, Asking, PoolInv
  <2>2. pc'[w] = "done" /\ \A x \in Workers : x # w => pc'[x] = pc[x]
    BY <1>3, <2>1, Moves
  <2>3. Released(w)
    BY <1>2, <1>3, <2>1, Releases
  <2>4. CachesOK' /\ UNCHANGED <<cur, generation, used>>
    BY <1>2, <2>1, CachesKept
  <2> QED
    BY <1>1, <1>2, <2>1, <2>2, <2>3, <2>4, Elsewhere
<1>4. CASE pc' = [pc EXCEPT ![w] = "fetch"] /\ lock' = lock
  BY <1>1, <1>2, <1>4, KeepsAsking DEF Asking
<1> QED
  BY <1>3, <1>4 DEF Pace, Goto

\* A session that is under way: neither leases nor locks.
LEMMA SessionStep ==
  ASSUME PoolInv, [Next]_vars, NEW w \in Workers,
         \/ Allocated(w) \/ Configured(w) \/ Fail(w) \/ Abort(w) \/ RequestDisconnect(w)
         \/ Disconnected(w) \/ Ended(w)
  PROVE  Kept' /\ PoolStep
<1>1. PICK p \in {"record", "ready", "ended", "follow", "lead", "done", "gate", "settle"} :
        pc' = [pc EXCEPT ![w] = p]
  BY DEF Allocated, Configured, Fail, Abort, RequestDisconnect, Disconnected, Ended, Goto, Leave
<1>2. p \notin Holding /\ p # "start"
  BY DEF Holding, Asking
<1>3. TypeOK /\ left'.hashes = left.hashes
  BY Frame DEF PoolInv
<1>4. UNCHANGED caches /\ lock' = lock /\ pc[w] # "start"
  BY DEF Allocated, Configured, Fail, Abort, RequestDisconnect, Disconnected, Ended, locks
<1>5. lease' = lease \/ lease' = [lease EXCEPT ![w] = None]
  BY DEF Allocated, Configured, Fail, Abort, RequestDisconnect, Disconnected, Ended, Leave
<1>6. \A x \in Workers : x # w => lease'[x] = lease[x]
  BY <1>3, <1>5, OtherLeases
<1>7. pc'[w] = p /\ \A x \in Workers : x # w => pc'[x] = pc[x]
  BY <1>1, <1>3, Moves
<1>8. Released(w)
  BY <1>3, <1>4, Releases
<1>9. CachesOK' /\ UNCHANGED <<cur, generation, used>>
  BY <1>4, CachesKept
<1> QED
  BY <1>2, <1>3, <1>4, <1>6, <1>7, <1>8, <1>9, Elsewhere

LEMMA StillStep ==
  ASSUME PoolInv, left'.hashes = left.hashes, UNCHANGED <<pc, lease, lock, caches>>
  PROVE  Kept' /\ PoolStep
<1>1. /\ TypeOK /\ Locked /\ Dropped /\ Numbered /\ Lent /\ Attempts
      /\ pc' = pc /\ lease' = lease /\ lock' = lock
      /\ CachesOK' /\ cur' = cur /\ generation' = generation /\ used' = used
  BY CachesKept DEF PoolInv
<1>2. \A x \in Workers : CredOf(x)' = CredOf(x) /\ CredOf(x) \in Creds
  BY <1>1, Cohorts
<1>3. Leased' = Leased
  BY <1>1, SameLeases
<1>4. Numbered' /\ Attempts' /\ PoolStep
  BY <1>1, <1>3, PoolStutters
<1>5. Locked'
  BY <1>1, <1>2 DEF Locked
<1>6. Dropped'
  BY <1>1, DroppedKept
<1>7. Lent'
  BY <1>1, LentKept
<1> QED
  BY <1>1, <1>4, <1>5, <1>6, <1>7 DEF Kept

LEMMA FetchedStep == ASSUME PoolInv, [Next]_vars, NEW w \in Workers, Fetched(w) PROVE Kept' /\ PoolStep
<1> DEFINE c == CredOf(w)
           Unlock == lock' = [lock EXCEPT ![c] = None]
<1>1. /\ TypeOK /\ Locked /\ Dropped /\ Numbered /\ Lent /\ Attempts
      /\ left'.hashes = left.hashes /\ pc[w] = "fetch" /\ lease' = lease
  BY Frame DEF PoolInv, Fetched
<1>2. c \in Creds /\ \A x \in Workers : CredOf(x)' = CredOf(x) /\ CredOf(x) \in Creds
  BY <1>1, Cohorts
<1>3. lock[c] = w /\ cur[c] = None
  BY <1>1 DEF Locked, Dropped, Asking
<1>4. /\ pc \in [Workers -> Places] /\ lock \in [Creds -> Workers \cup {None}]
      /\ cur \in [Creds -> Cached \cup {None}] /\ blocked \in [Creds -> Nat]
      /\ generation \in [Creds -> Nat] /\ issued \in [Creds -> Nat] /\ used \in [Creds -> Seq(Nat)]
  BY <1>1 DEF TypeOK, WorkersOK, LocksOK, CachesOK
<1>5. ASSUME NEW p \in {"done", "refused"}, pc' = [pc EXCEPT ![w] = p], Unlock, CachesOK',
             UNCHANGED <<cur, generation, used>>
      PROVE  Kept' /\ PoolStep
  <2>1. p \notin Holding /\ p # "start" /\ pc[w] # "start"
    BY <1>1 DEF Holding, Asking
  <2>2. pc'[w] = p /\ \A x \in Workers : x # w => pc'[x] = pc[x]
    BY <1>1, <1>5, Moves
  <2>3. Released(w)
    BY <1>1, <1>3, <1>5, Releases
  <2> QED
    BY <1>1, <1>5, <2>1, <2>2, <2>3, Elsewhere
<1>6. CASE pc' = [pc EXCEPT ![w] = "failed"] /\ UNCHANGED <<caches, locks>>
  BY <1>1, <1>6, KeepsAsking DEF Asking, locks
<1>7. ASSUME NEW v \in Nat, issued' = [issued EXCEPT ![c] = v], store(c, v),
             pc' = [pc EXCEPT ![w] = "stored"], lock' = lock
      PROVE  Kept' /\ PoolStep
  <2> DEFINE r == [val |-> v, gen |-> generation[c] + 1, attempts |-> 0, mismatches |-> 0]
  <2>1. r \in Cached /\ r # None /\ r.gen = generation[c] + 1 /\ r.attempts = 0
    <3>1. r \in Cached
      BY <1>2, <1>4 DEF Cached
    <3> QED
      BY <3>1, Constants
  <2>2. /\ cur' = [cur EXCEPT ![c] = r] /\ generation' = [generation EXCEPT ![c] = @ + 1]
        /\ used' = [used EXCEPT ![c] = Append(@, 0)] /\ blocked' = [blocked EXCEPT ![c] = 0]
    BY <1>7 DEF store
  <2> HIDE DEF r, c
  <2>3. cur'[c] = r /\ \A d \in Creds : d # c => cur'[d] = cur[d]
    BY <1>2, <1>4, <2>2
  <2>4. pc'[w] = "stored" /\ \A x \in Workers : x # w => pc'[x] = pc[x]
    BY <1>1, <1>7, Moves
  <2>5. /\ Leased' = [Leased EXCEPT ![c] = Pool!WithNew(@, generation[c])]
        /\ Leased'[c][generation[c] + 1] = 0
    BY <1>1, <1>2, <2>2, <2>4, NewLeases
  <2>6. Numbered' /\ Attempts' /\ PoolStep
    BY <1>1, <1>2, <1>3, <2>1, <2>2, <2>3, <2>5, PoolRenews
  <2>7. Locked'
    <3>1. \A x \in Workers : pc'[x] \in Holding => lock[CredOf(x)] = x
      BY <1>1, <2>4 DEF Locked, Holding, Asking
    <3> QED
      BY <1>2, <1>7, <3>1 DEF Locked, Holding
  <2>8. Dropped'
    <3>1. \A x \in Workers : pc'[x] \in Asking => x # w /\ pc[x] \in Asking
      BY <2>4 DEF Asking
    <3>2. \A x \in Workers : pc'[x] \in Asking => CredOf(x) # c
      BY <1>1, <1>3, <3>1 DEF Locked
    <3>3. \A x \in Workers : pc'[x] \in Asking => cur'[CredOf(x)] = None
      BY <1>1, <1>2, <2>3, <3>1, <3>2 DEF Dropped
    <3> QED
      BY <1>2, <3>3 DEF Dropped
  <2>9. Lent'
    <3>1. \A d \in Creds : generation[d] \in Nat /\ generation'[d] \in Nat /\ generation[d] <= generation'[d]
      BY <1>2, <1>4, <2>2
    <3>2. ASSUME NEW x \in Workers, pc'[x] = "start"
          PROVE  lease'[x] # None /\ lease'[x].gen \in 1 .. generation'[CredOf(x)]
      <4>1. lease'[x] # None /\ lease'[x].gen \in 1 .. generation[CredOf(x)]
        BY <1>1, <2>4, <3>2 DEF Lent
      <4> QED
        BY <1>2, <3>1, <4>1
    <3> QED
      BY <1>2, <3>2 DEF Lent
  <2>10. CachesOK'
    <3>1. cur' \in [Creds -> Cached \cup {None}] /\ blocked' \in [Creds -> Nat]
          /\ generation' \in [Creds -> Nat] /\ issued' \in [Creds -> Nat]
      BY <1>2, <1>4, <1>7, <2>1, <2>2
    <3>2. used' \in [Creds -> Seq(Nat)]
      BY <1>2, <1>4, <2>2, Appended
    <3> QED
      BY <3>1, <3>2 DEF CachesOK
  <2> QED
    BY <2>6, <2>7, <2>8, <2>9, <2>10 DEF Kept
<1>8. CASE pc' = [pc EXCEPT ![w] = "done"] /\ Unlock /\ UNCHANGED caches
  <2>1. CachesOK' /\ UNCHANGED <<cur, generation, used>>
    BY <1>8, CachesKept
  <2> QED
    BY <1>5, <1>8, <2>1
<1>9. ASSUME NEW v \in {issued[c], issued[c] + 1} \ {0}, issued' = [issued EXCEPT ![c] = v],
             IF Refuses(c, v)
             THEN Unlock /\ pc' = [pc EXCEPT ![w] = "refused"] /\ UNCHANGED <<cur, blocked, generation, used>>
             ELSE store(c, v) /\ pc' = [pc EXCEPT ![w] = "stored"] /\ UNCHANGED lock
      PROVE  Kept' /\ PoolStep
  <2>1. v \in Nat
    BY <1>2, <1>4
  <2>2. CASE Refuses(c, v)
    <3>1. CachesOK'
      BY <1>2, <1>4, <1>9, <2>1, <2>2 DEF CachesOK
    <3> QED
      BY <1>5, <1>9, <2>2, <3>1
  <2>3. CASE ~Refuses(c, v)
    BY <1>7, <1>9, <2>1, <2>3
  <2> QED
    BY <2>2, <2>3
<1>10. \/ pc' = [pc EXCEPT ![w] = "done"] /\ Unlock /\ UNCHANGED caches
       \/ pc' = [pc EXCEPT ![w] = "failed"] /\ UNCHANGED <<caches, locks>>
       \/ \E v \in {issued[c], issued[c] + 1} \ {0} :
            /\ issued' = [issued EXCEPT ![c] = v]
            /\ IF Refuses(c, v)
               THEN Unlock /\ pc' = [pc EXCEPT ![w] = "refused"] /\ UNCHANGED <<cur, blocked, generation, used>>
               ELSE store(c, v) /\ pc' = [pc EXCEPT ![w] = "stored"] /\ UNCHANGED lock
  BY Zenon DEF Fetched, Goto
<1> QED
  BY <1>6, <1>8, <1>9, <1>10

LEMMA WaitedStep == ASSUME PoolInv, [Next]_vars, NEW w \in Workers, Waited(w) PROVE Kept' /\ PoolStep
<1> DEFINE c == CredOf(w)
<1>1. /\ TypeOK /\ left'.hashes = left.hashes /\ pc[w] # "start"
      /\ UNCHANGED <<blocked, generation, issued, used>>
  BY Frame DEF PoolInv, Waited
<1>2. Released(w)
  BY <1>1, Releases DEF Waited
<1>3. CASE reserve(w, c) /\ pc' = [pc EXCEPT ![w] = "start"]
  BY <1>1, <1>2, <1>3, Reserves
<1>4. ASSUME NEW p \in {"done", "get"}, pc' = [pc EXCEPT ![w] = p], UNCHANGED <<lease, cur>>
      PROVE  Kept' /\ PoolStep
  <2>1. p \notin Holding /\ p # "start"
    BY DEF Holding, Asking
  <2>2. pc'[w] = p /\ \A x \in Workers : x # w => pc'[x] = pc[x]
    BY <1>1, <1>4, Moves
  <2>3. CachesOK' /\ UNCHANGED <<cur, generation, used>>
    BY <1>1, <1>4, CachesKept DEF caches
  <2> QED
    BY <1>1, <1>2, <1>4, <2>1, <2>2, <2>3, Elsewhere
<1> QED
  BY <1>3, <1>4, Zenon DEF Waited, GiveUp, Goto

\* A lease ends without an Allocate; release or the drop of the worker gives it back.
LEMMA GivesBack ==
  ASSUME PoolInv, left'.hashes = left.hashes, NEW w \in Workers, pc[w] = "start",
         pc'[w] \notin Holding, pc'[w] # "start", \A x \in Workers : x # w => pc'[x] = pc[x],
         \A x \in Workers : x # w => lease'[x] = lease[x], Released(w),
         UNCHANGED <<blocked, generation, issued, used>>, cur' = cur \/ release(w, CredOf(w))
  PROVE  Kept' /\ PoolStep
<1>1. TypeOK /\ Locked /\ Dropped /\ Numbered /\ Lent /\ Attempts
  BY DEF PoolInv
<1>2. \A x \in Workers : CredOf(x)' = CredOf(x) /\ CredOf(x) \in Creds
  BY <1>1, Cohorts
<1>3. PICK c \in Creds : c = CredOf(w)
  BY <1>2
<1>4. lease[w] # None /\ lease[w].gen \in 1 .. generation[c]
  BY <1>1, <1>3 DEF Lent
<1>5. PICK n \in 1 .. generation[c] : n = lease[w].gen
  BY <1>4
<1>6. Leased' = [Leased EXCEPT ![c][n] = @ - 1] /\ Leased[c][n] > 0
  BY <1>1, <1>3, <1>4, <1>5, OneLeaseLess
<1>7. cur \in [Creds -> Cached \cup {None}]
  BY <1>1 DEF TypeOK, CachesOK
<1>8. /\ \A d \in Creds : d # c => cur'[d] = cur[d]
      /\ \/ cur'[c] = cur[c]
         \/ /\ cur[c] # None /\ cur'[c] # None /\ cur[c].gen = n /\ cur'[c] \in Cached
            /\ cur'[c].gen = cur[c].gen /\ cur'[c].attempts = cur[c].attempts - 1
      /\ cur' \in [Creds -> Cached \cup {None}]
  <2>1. CASE cur' = cur
    BY <1>7, <2>1
  <2>2. CASE /\ cur[c] # None /\ cur[c].gen = lease[w].gen /\ cur[c].attempts > 0
             /\ cur' = [cur EXCEPT ![c] = [cur[c] EXCEPT !.attempts = @ - 1]]
    <3>1. cur[c] \in Cached
      BY <1>7, <2>2
    <3> DEFINE r == [cur[c] EXCEPT !.attempts = @ - 1]
    <3>2. r \in Cached /\ r # None /\ r.gen = cur[c].gen /\ r.attempts = cur[c].attempts - 1
      BY <2>2, <3>1, CachedFields, Constants
    <3> HIDE DEF r
    <3>3. cur' = [cur EXCEPT ![c] = r]
      BY <2>2 DEF r
    <3>4. cur'[c] = r /\ \A d \in Creds : d # c => cur'[d] = cur[d]
      BY <1>7, <3>3
    <3>5. cur' \in [Creds -> Cached \cup {None}]
      BY <1>7, <3>2, <3>3
    <3> QED
      BY <1>5, <2>2, <3>2, <3>4, <3>5
  <2> QED
    BY <1>3, <2>1, <2>2 DEF release, Matches
<1>9. Numbered' /\ Attempts' /\ PoolStep
  BY <1>1, <1>6, <1>8, PoolTakesBack
<1>10. Locked'
  BY <1>1, LockedKept
<1>11. Dropped'
  <2>1. \A d \in Creds : cur[d] = None => cur'[d] = None
    BY <1>8
  <2>2. \A x \in Workers : pc'[x] \in Asking => pc[x] \in Asking
    BY DEF Holding
  <2> QED
    BY <1>1, <2>1, <2>2, DroppedKept
<1>12. Lent'
  BY <1>1, LentKept
<1>13. CachesOK'
  BY <1>1, <1>8 DEF TypeOK, CachesOK
<1> QED
  BY <1>9, <1>10, <1>11, <1>12, <1>13 DEF Kept

LEMMA StartStep == ASSUME PoolInv, [Next]_vars, NEW w \in Workers, Start(w) PROVE Kept' /\ PoolStep
<1>1. /\ TypeOK /\ Locked /\ Dropped /\ Numbered /\ Lent /\ Attempts /\ left'.hashes = left.hashes
      /\ pc[w] = "start" /\ lock' = lock /\ UNCHANGED <<blocked, generation, issued>>
  BY Frame DEF PoolInv, Start, locks
<1>2. Released(w)
  BY <1>1, Releases
<1>3. ASSUME NEW p \in {"ended", "done"}, pc' = [pc EXCEPT ![w] = p], release(w, CredOf(w)), used' = used
      PROVE  Kept' /\ PoolStep
  <2>1. p \notin Holding /\ p # "start"
    BY DEF Holding, Asking
  <2>2. pc'[w] = p /\ \A x \in Workers : x # w => pc'[x] = pc[x]
    BY <1>1, <1>3, Moves
  <2>3. \A x \in Workers : x # w => lease'[x] = lease[x]
    BY <1>1, <1>3, OtherLeases DEF release
  <2> QED
    BY <1>1, <1>2, <1>3, <2>1, <2>2, <2>3, GivesBack
<1>4. CASE /\ used' = [used EXCEPT ![CredOf(w)][lease[w].gen] = @ + 1]
           /\ pc' = [pc EXCEPT ![w] = "connect"] /\ cur' = cur /\ lease' = lease
  <2>1. \A x \in Workers : CredOf(x)' = CredOf(x) /\ CredOf(x) \in Creds
    BY <1>1, Cohorts
  <2>2. PICK c \in Creds : c = CredOf(w)
    BY <2>1
  <2>3. lease[w] # None /\ lease[w].gen \in 1 .. generation[c]
    BY <1>1, <2>2 DEF Lent
  <2>4. PICK n \in 1 .. generation[c] : n = lease[w].gen
    BY <2>3
  <2>5. pc'[w] = "connect" /\ \A x \in Workers : x # w => pc'[x] = pc[x]
    BY <1>1, <1>4, Moves
  <2>6. Leased' = [Leased EXCEPT ![c][n] = @ - 1] /\ Leased[c][n] > 0
    BY <1>1, <1>4, <2>2, <2>3, <2>4, <2>5, OneLeaseLess
  <2>7. used' = [used EXCEPT ![c][n] = @ + 1]
    BY <1>4, <2>2, <2>4
  <2>8. Numbered' /\ Attempts' /\ PoolStep
    BY <1>1, <1>4, <2>6, <2>7, PoolUses
  <2>9. "connect" \notin Holding
    BY DEF Holding, Asking
  <2>10. Locked'
    BY <1>1, <1>2, <2>5, <2>9, LockedKept
  <2>11. Dropped'
    BY <1>1, <1>4, <2>5, <2>9, DroppedKept DEF Holding
  <2>12. Lent'
    BY <1>1, <1>4, <2>5, LentKept
  <2>13. CachesOK'
    <3>1. used[c] \in Seq(Nat) /\ Len(used[c]) = generation[c] /\ used \in [Creds -> Seq(Nat)]
      BY <1>1 DEF TypeOK, CachesOK, Numbered
    <3>2. [used[c] EXCEPT ![n] = @ + 1] \in Seq(Nat)
      BY <2>4, <3>1, CountedUp
    <3>3. used' = [used EXCEPT ![c] = [used[c] EXCEPT ![n] = @ + 1]]
      BY <2>7, <3>1
    <3>4. used' \in [Creds -> Seq(Nat)]
      BY <3>1, <3>2, <3>3
    <3> QED
      BY <1>1, <1>4, <3>4 DEF TypeOK, CachesOK
  <2> QED
    BY <2>8, <2>10, <2>11, <2>12, <2>13 DEF Kept
<1>5. \/ /\ used' = [used EXCEPT ![CredOf(w)][lease[w].gen] = @ + 1]
         /\ pc' = [pc EXCEPT ![w] = "connect"] /\ cur' = cur /\ lease' = lease
      \/ pc' = [pc EXCEPT ![w] = "ended"] /\ release(w, CredOf(w)) /\ used' = used
      \/ pc' = [pc EXCEPT ![w] = "done"] /\ release(w, CredOf(w)) /\ used' = used
  BY Zenon DEF Start, Goto
<1> QED
  BY <1>3, <1>4, <1>5

\* What the end of a session means for the credentials: they are given up or kept as they are.
LEMMA CacheStep ==
  ASSUME PoolInv, left'.hashes = left.hashes, NEW w \in Workers, pc[w] # "start",
         pc'[w] \notin Holding, pc'[w] # "start", \A x \in Workers : x # w => pc'[x] = pc[x],
         \A x \in Workers : x # w => lease'[x] = lease[x], lock' = lock,
         UNCHANGED <<generation, issued, used>>, blocked' \in [Creds -> Nat],
         NEW c \in Creds,
         \/ cur' = cur \/ cur' = [cur EXCEPT ![c] = None]
         \/ \E m \in Nat : cur[c] # None /\ cur' = [cur EXCEPT ![c].mismatches = m]
  PROVE  Kept' /\ PoolStep
<1>1. TypeOK /\ Locked /\ Dropped /\ Numbered /\ Lent /\ Attempts
  BY DEF PoolInv
<1>2. cur \in [Creds -> Cached \cup {None}]
  BY <1>1 DEF TypeOK, CachesOK
<1>3. \A x \in Workers : /\ pc'[x] = "start" <=> pc[x] = "start"
                         /\ pc[x] = "start" => lease'[x] = lease[x]
                         /\ pc'[x] \in Asking => pc[x] \in Asking
  BY DEF Holding
<1>4. Leased' = Leased
  BY <1>1, <1>3, SameLeases
<1>5. /\ Numbered' /\ Attempts' /\ PoolStep
      /\ cur' \in [Creds -> Cached \cup {None}]
      /\ \A d \in Creds : cur[d] = None => cur'[d] = None
  <2>1. CASE cur' = cur
    BY <1>1, <1>2, <1>4, <2>1, PoolStutters
  <2>2. CASE cur' = [cur EXCEPT ![c] = None]
    <3>1. cur'[c] = None /\ \A d \in Creds : d # c => cur'[d] = cur[d]
      BY <1>2, <2>2
    <3>2. cur' \in [Creds -> Cached \cup {None}]
      BY <1>2, <2>2
    <3> QED
      BY <1>1, <1>4, <3>1, <3>2, PoolGivesUp
  <2>3. ASSUME NEW m \in Nat, cur[c] # None, cur' = [cur EXCEPT ![c].mismatches = m]
        PROVE  /\ Numbered' /\ Attempts' /\ PoolStep
               /\ cur' \in [Creds -> Cached \cup {None}]
               /\ \A d \in Creds : cur[d] = None => cur'[d] = None
    <3> DEFINE r == [cur[c] EXCEPT !.mismatches = m]
    <3>1. cur[c] \in Cached
      BY <1>2, <2>3
    <3>2. r \in Cached /\ r # None /\ r.gen = cur[c].gen /\ r.attempts = cur[c].attempts
      <4>1. PICK q \in Cached : q = cur[c]
        BY <3>1
      <4>2. LET x == [q EXCEPT !.mismatches = m]
            IN  x \in Cached /\ x.gen = q.gen /\ x.attempts = q.attempts
        BY CachedFields
      <4>3. r \in Cached /\ r.gen = cur[c].gen /\ r.attempts = cur[c].attempts
        BY <4>1, <4>2
      <4> HIDE DEF r
      <4>4. None \notin Cached
        BY Constants
      <4> QED
        BY <4>3, <4>4
    <3>3. cur' = [cur EXCEPT ![c] = r]
      BY <2>3
    <3> HIDE DEF r
    <3>4. cur'[c] = r /\ \A d \in Creds : d # c => cur'[d] = cur[d]
      BY <1>2, <3>3
    <3>5. cur' \in [Creds -> Cached \cup {None}]
      BY <1>2, <3>2, <3>3
    <3>6. \A d \in Creds : /\ cur'[d] = None <=> cur[d] = None
                           /\ cur[d] # None => cur'[d].gen = cur[d].gen /\ cur'[d].attempts = cur[d].attempts
      BY <2>3, <3>2, <3>4
    <3> QED
      BY <1>1, <1>4, <3>5, <3>6, PoolStutters
  <2> QED
    BY <2>1, <2>2, <2>3
<1>6. Locked'
  <2>1. Released(w)
    BY DEF Released
  <2> QED
    BY <1>1, <2>1, LockedKept
<1>7. Dropped'
  BY <1>1, <1>3, <1>5, DroppedKept
<1>8. Lent'
  BY <1>1, <1>3, LentKept
<1>9. CachesOK'
  BY <1>1, <1>5 DEF TypeOK, CachesOK
<1> QED
  BY <1>5, <1>6, <1>7, <1>8, <1>9 DEF Kept

LEMMA RecordStep == ASSUME PoolInv, [Next]_vars, NEW w \in Workers, Record(w) PROVE Kept' /\ PoolStep
<1>1. /\ TypeOK /\ left'.hashes = left.hashes /\ pc[w] # "start" /\ lock' = lock /\ lease' = lease
      /\ UNCHANGED <<blocked, generation, issued, used>> /\ pc' = [pc EXCEPT ![w] = "config"]
  BY Frame DEF PoolInv, Record, Goto, locks
<1>2. "config" \notin Holding /\ "config" # "start"
  BY DEF Holding, Asking
<1>3. pc'[w] = "config" /\ \A x \in Workers : x # w => pc'[x] = pc[x]
  BY <1>1, Moves
<1>4. PICK c \in Creds : c = CredOf(w)
  BY <1>1, CredTyped
<1>5. cur' = cur \/ \E m \in Nat : cur[c] # None /\ cur' = [cur EXCEPT ![c].mismatches = m]
  BY <1>4 DEF Record, record_allocation, Matches
<1>6. blocked' \in [Creds -> Nat]
  BY <1>1 DEF TypeOK, CachesOK
<1> QED
  BY <1>1, <1>2, <1>3, <1>5, <1>6, CacheStep

LEMMA SettleStep == ASSUME PoolInv, [Next]_vars, NEW w \in Workers, Settle(w) PROVE Kept' /\ PoolStep
<1>1. /\ TypeOK /\ left'.hashes = left.hashes /\ pc[w] # "start" /\ lock' = lock
      /\ UNCHANGED <<generation, issued, used>> /\ lease' = [lease EXCEPT ![w] = None]
  BY Frame DEF PoolInv, Settle, Leave, locks
<1>2. PICK p \in {"done", "gate"} : pc' = [pc EXCEPT ![w] = p]
  BY DEF Settle, Leave, Goto
<1>3. p \notin Holding /\ p # "start"
  BY DEF Holding, Asking
<1>4. pc'[w] = p /\ \A x \in Workers : x # w => pc'[x] = pc[x]
  BY <1>1, <1>2, Moves
<1>5. \A x \in Workers : x # w => lease'[x] = lease[x]
  BY <1>1, OtherLeases
<1>6. PICK c \in Creds : c = CredOf(w)
  BY <1>1, CredTyped
<1>7. cur \in [Creds -> Cached \cup {None}] /\ blocked \in [Creds -> Nat]
  BY <1>1 DEF TypeOK, CachesOK
<1>8. \/ invalidate(w, c) \/ rotate_after_quota(w, c) \/ retry_after_mismatch(w, c)
      \/ UNCHANGED <<cur, blocked>>
  BY <1>6 DEF Settle
<1>9. \/ cur' = cur \/ cur' = [cur EXCEPT ![c] = None]
      \/ cur[c] # None /\ cur' = [cur EXCEPT ![c].mismatches = 1]
  BY <1>8, Zenon DEF invalidate, rotate_after_quota, retry_after_mismatch, Matches
<1>10. \/ cur' = cur \/ cur' = [cur EXCEPT ![c] = None]
       \/ \E m \in Nat : cur[c] # None /\ cur' = [cur EXCEPT ![c].mismatches = m]
  <2>1. 1 \in Nat
    OBVIOUS
  <2> QED
    BY <1>9, <2>1, Zenon
<1>11. blocked' = blocked \/ (cur[c] # None /\ blocked' = [blocked EXCEPT ![c] = cur[c].val])
  BY <1>8, Zenon DEF invalidate, rotate_after_quota, retry_after_mismatch, Matches
<1>12. blocked' \in [Creds -> Nat]
  <2>1. cur[c] # None => cur[c].val \in Nat
    BY <1>7 DEF Cached
  <2> QED
    BY <1>7, <1>11, <2>1
<1> QED
  BY <1>1, <1>3, <1>4, <1>5, <1>10, <1>12, CacheStep

LEMMA PanicStep == ASSUME PoolInv, [Next]_vars, NEW w \in Workers, Panic(w) PROVE Kept' /\ PoolStep
<1>1. /\ TypeOK /\ left'.hashes = left.hashes /\ UNCHANGED caches /\ lease' = [lease EXCEPT ![w] = None]
  BY Frame DEF PoolInv, Panic, Leave
<1>2. PICK p \in {"done", "gate"} : pc' = [pc EXCEPT ![w] = p]
  BY DEF Panic, Leave, Goto
<1>3. p \notin Holding /\ p # "start"
  BY DEF Holding, Asking
<1>4. pc'[w] = p /\ \A x \in Workers : x # w => pc'[x] = pc[x]
  BY <1>1, <1>2, Moves
<1>5. \A x \in Workers : x # w => lease'[x] = lease[x]
  BY <1>1, OtherLeases
<1>6. Released(w)
  BY <1>1, Releases DEF Panic
<1>7. CachesOK' /\ UNCHANGED <<cur, generation, used>>
  BY <1>1, CachesKept
<1>8. CASE pc[w] = "start"
  <2>1. UNCHANGED <<blocked, generation, issued, used>> /\ cur' = cur
    BY <1>1 DEF caches
  <2> QED
    BY <1>1, <1>3, <1>4, <1>5, <1>6, <1>8, <2>1, GivesBack
<1>9. CASE pc[w] # "start"
  BY <1>1, <1>3, <1>4, <1>5, <1>6, <1>7, <1>9, Elsewhere
<1> QED
  BY <1>8, <1>9

LEMMA RebuildStep == ASSUME PoolInv, [Next]_vars, Rebuild PROVE Kept' /\ PoolStep
<1>1. TypeOK /\ Numbered
  BY DEF PoolInv
<1>2. Numbered' /\ Attempts' /\ PoolStep
  BY <1>1, PoolRebuilds
<1>3. \A x \in Workers : pc'[x] = "gate"
  BY DEF Rebuild
<1>4. Locked' /\ Dropped' /\ Lent'
  BY <1>3 DEF Locked, Dropped, Lent, Asking
<1>5. CachesOK'
  BY <1>1 DEF Rebuild, TypeOK, CachesOK
<1> QED
  BY <1>2, <1>4, <1>5 DEF Kept

LEMMA PoolInductive == ASSUME PoolInv, [Next]_vars PROVE PoolInv' /\ PoolStep
<1>1. WorkersOK' /\ LocksOK' /\ ShutdownOK' /\ ScenarioOK' /\ left'.hashes = left.hashes
  BY WorkersTyped, LocksTyped, ShutdownTyped, Frame
<1>2. Kept' /\ PoolStep
  <2>1. CASE UNCHANGED vars
    BY <1>1, <2>1, StillStep DEF vars, locks
  <2>2. ASSUME NEW w \in Workers, Worker(w) PROVE Kept' /\ PoolStep
    <3>1. CASE SendDisconnect(w)
      BY <1>1, <3>1, StillStep DEF SendDisconnect, locks
    <3>2. CASE \/ Allocated(w) \/ Configured(w) \/ Fail(w) \/ Abort(w) \/ RequestDisconnect(w)
               \/ Disconnected(w) \/ Ended(w)
      BY <3>2, SessionStep
    <3> QED
      BY <2>2, <3>1, <3>2, GateStep, GetStep, PaceStep, FetchedStep, WaitedStep, StartStep, RecordStep,
         SettleStep DEF Worker
  <2>3. ASSUME NEW w \in Workers, Activity(w) \/ Acknowledged(w) PROVE Kept' /\ PoolStep
    BY <1>1, <2>3, StillStep DEF Activity, Acknowledged, locks
  <2>4. CASE ControlInput \/ Signalled \/ HookFails \/ Finish
    BY <1>1, <2>4, StillStep DEF ControlInput, Signalled, HookFails, Finish, locks
  <2> QED
    BY <2>1, <2>2, <2>3, <2>4, PanicStep, RebuildStep DEF Next
<1> QED
  BY <1>1, <1>2 DEF Kept, PoolInv, TypeOK

LEMMA PoolInitially == Init => PoolInv /\ Pool!Init
<1> SUFFICES ASSUME Init PROVE PoolInv /\ Pool!Init
  OBVIOUS
<1>1. left \in [hashes : 1 .. MaxHashes, fetches : Nat, faults : Nat, inputs : Nat, builds : Nat,
                keep : BOOLEAN]
  BY ScenariosAssumption DEF Init
<1>2. TypeOK
  BY <1>1 DEF Init, TypeOK, WorkersOK, CachesOK, LocksOK, ShutdownOK, ScenarioOK, Places
<1>3. \A c \in Creds : generation[c] = 0 /\ cur[c] = None /\ used[c] = <<>>
  BY DEF Init
<1>4. Locked /\ Dropped /\ Numbered /\ Lent /\ Attempts
  BY <1>3 DEF Init, Locked, Dropped, Numbered, Lent, Attempts, Asking
<1>5. Leased = [c \in Creds |-> <<>>]
  <2>1. ASSUME NEW c \in Creds PROVE [g \in 1 .. generation[c] |-> Cardinality(Lessees(c, g))] = <<>>
    <3>1. 1 .. generation[c] = {}
      BY <1>3
    <3> QED
      BY <3>1
  <2> QED
    BY <2>1 DEF Leased
<1>6. Valid = [c \in Creds |-> FALSE]
  BY <1>3 DEF Valid
<1> QED
  BY <1>2, <1>4, <1>5, <1>6 DEF PoolInv, Pool!Init, Init

\* Whoever asks VK for credentials holds the lock of a cohort that has none, no lease is newer than
\* the credentials, and the attempts counted for them cover all leases and Allocate requests, for
\* every number of groups, hashes and groups per credentials (GroupCredentials and CredentialCache).
THEOREM PoolInvariant == Spec => []PoolInv
<1>1. Init => PoolInv
  BY PoolInitially
<1>2. PoolInv /\ [Next]_vars => PoolInv'
  BY PoolInductive
<1> QED
  BY <1>1, <1>2, PTL DEF Spec

\* The credential cache implements CredentialPool: one set of credentials at a time, never more
\* than WORKERS_PER_CREDENTIAL leases and Allocate requests on one, and no lease on one that was
\* given up (CredentialCache::reserve, release, store, invalidate, rotate_after_quota).
THEOREM CredentialsArePooled == Spec => PoolSpec
<1>1. Init => Pool!Init
  BY PoolInitially
<1>2. PoolInv /\ [Next]_vars => [Pool!Next]_Pool!vars
  BY PoolInductive DEF PoolStep, Pool!vars
<1> QED
  BY <1>1, <1>2, PoolInvariant, PTL DEF Spec, PoolSpec, Pool!Spec

\* Allocate requests made with one set of credentials.
WithinCap == \A c \in Creds : \A g \in 1 .. generation[c] : used[c][g] <= Cap

\* No set of credentials is used for more than WORKERS_PER_CREDENTIAL Allocate requests, the ones
\* that were rotated away included.
THEOREM AllocatesAreBounded == Spec => []WithinCap
<1>1. PoolInv => WithinCap
  <2> SUFFICES ASSUME PoolInv, NEW c \in Creds, NEW g \in 1 .. generation[c] PROVE used[c][g] <= Cap
    BY DEF WithinCap
  <2>1. TypeOK /\ Numbered /\ Leased[c][g] + used[c][g] <= Cap
    BY DEF PoolInv, Attempts, Taken
  <2>2. Leased[c][g] \in Nat /\ used[c][g] \in Nat /\ Cap \in Nat
    BY <2>1, CountTyped, Constants
  <2> QED
    BY <2>1, <2>2
<1> QED
  BY <1>1, PoolInvariant, PTL
-----------------------------------------------------------------------------
\* The failure of one hash stops its own workers only.

LEMMA KeepGoing == ASSUME PoolInv, OthersKeepGoing, [Next]_vars PROVE OthersKeepGoing'
<1>1. TypeOK /\ left'.hashes = left.hashes
  BY Frame DEF PoolInv
<1>2. pc \in [Workers -> Places] /\ \A x \in Workers : CredOf(x)' = CredOf(x)
  BY <1>1, Cohorts DEF TypeOK, WorkersOK
<1>3. CASE Rebuild
  BY <1>3 DEF Rebuild, OthersKeepGoing
<1>4. CASE ~Rebuild
  <2>1. (cancel => cancel') /\ unavailable \subseteq unavailable'
    <3>1. CASE UNCHANGED vars
      BY <3>1 DEF vars, process
    <3>2. ASSUME NEW w \in Workers, Worker(w) \/ Activity(w) \/ Acknowledged(w) \/ Panic(w)
          PROVE  (cancel => cancel') /\ unavailable \subseteq unavailable'
      <4>1. CASE Fetched(w)
        <5>1. cancel' = cancel
          BY <4>1 DEF Fetched
        <5>2. unavailable' = unavailable \/ unavailable' = unavailable \cup {HashOf(CredOf(w))}
          BY <4>1 DEF Fetched
        <5> QED
          BY <5>1, <5>2
      <4>2. CASE Ended(w)
        <5>1. cancel' = cancel \/ cancel' = TRUE
          BY <4>2 DEF Ended, CancelAll
        <5>2. unavailable' = unavailable
          BY <4>2 DEF Ended
        <5> QED
          BY <5>1, <5>2
      <4>3. CASE ~Fetched(w) /\ ~Ended(w)
        <5>1. UNCHANGED process
          BY <3>2, <4>3 DEF Worker, Gate, Get, Pace, Waited, Start, Allocated, Record, Configured,
            Fail, Abort, RequestDisconnect, SendDisconnect, Disconnected, Settle, Activity,
            Acknowledged, Panic
        <5> QED
          BY <5>1 DEF process
      <4> QED
        BY <4>1, <4>2, <4>3
    <3>3. CASE ControlInput \/ Signalled \/ HookFails \/ Finish
      BY <3>3 DEF ControlInput, Signalled, HookFails, Finish, CancelAll
    <3> QED
      BY <1>4, <3>1, <3>2, <3>3 DEF Next
  <2>2. ASSUME NEW x \in Workers, pc'[x] = "done", pc[x] # "done"
        PROVE  cancel' \/ HashOf(CredOf(x)) \in unavailable'
    <3>1. CASE UNCHANGED pc
      BY <2>2, <3>1
    <3>2. ASSUME NEW w \in Workers, Worker(w) \/ Panic(w)
          PROVE  cancel' \/ HashOf(CredOf(x)) \in unavailable'
      <4>1. PICK p : pc' = [pc EXCEPT ![w] = p] \/ pc' = pc
        BY <3>2 DEF Worker, Gate, Get, Pace, Fetched, Waited, GiveUp, Start, Allocated, Record, Configured,
          Fail, Abort, RequestDisconnect, SendDisconnect, Disconnected, Ended, Settle, Panic, Goto, Leave
      <4>2. x = w /\ pc' # pc
        BY <1>2, <2>2, <4>1
      <4> HIDE DEF HashOf
      <4>3. CASE Gate(w) \/ Get(w) \/ Pace(w) \/ Waited(w) \/ Settle(w) \/ Panic(w) \/ Start(w)
        <5>1. \A q : pc' = [pc EXCEPT ![w] = q] => q = "done"
          BY <1>2, <2>2, <4>2
        <5>2. cancel' = cancel /\ unavailable' = unavailable
          BY <4>3 DEF Gate, Get, Pace, Waited, Settle, Panic, Start, process
        <5>3. CASE Gate(w)
          BY <5>1, <5>2, <5>3 DEF Gate, Goto
        <5>4. CASE Get(w)
          BY <4>2, <5>1, <5>2, <5>4 DEF Get, Goto
        <5>5. CASE Pace(w)
          BY <4>2, <5>1, <5>2, <5>5 DEF Pace, Goto, Stopped
        <5>6. CASE Waited(w)
          BY <4>2, <5>1, <5>2, <5>6 DEF Waited, GiveUp, Goto, Stopped
        <5>7. CASE Settle(w) \/ Panic(w)
          BY <4>2, <5>1, <5>2, <5>7 DEF Settle, Panic, Leave, Goto
        <5>8. CASE Start(w)
          BY <4>2, <5>1, <5>2, <5>8 DEF Start, Goto
        <5> QED
          BY <4>3, <5>3, <5>4, <5>5, <5>6, <5>7, <5>8
      <4>4. CASE Fetched(w)
        BY <1>2, <2>2, <4>2, <4>4 DEF Fetched, Goto, Stopped
      <4>5. CASE Ended(w)
        BY <1>2, <2>2, <4>2, <4>5 DEF Ended, Goto, Leave, Stopped, CancelAll
      <4>6. CASE \/ Allocated(w) \/ Record(w) \/ Configured(w) \/ Fail(w) \/ Abort(w)
                 \/ RequestDisconnect(w) \/ SendDisconnect(w) \/ Disconnected(w)
        BY <1>2, <2>2, <4>2, <4>6 DEF Allocated, Record, Configured, Fail, Abort, RequestDisconnect,
          SendDisconnect, Disconnected, Goto
      <4> QED
        BY <3>2, <4>3, <4>4, <4>5, <4>6 DEF Worker
    <3>3. ASSUME NEW w \in Workers, Activity(w) \/ Acknowledged(w) PROVE UNCHANGED pc
      BY <3>3 DEF Activity, Acknowledged
    <3>4. CASE ControlInput \/ Signalled \/ HookFails \/ Finish \/ UNCHANGED vars
      BY <3>1, <3>4 DEF ControlInput, Signalled, HookFails, Finish, vars
    <3> QED
      BY <1>4, <3>1, <3>2, <3>3, <3>4 DEF Next
  <2> QED
    BY <1>2, <2>1, <2>2 DEF OthersKeepGoing
<1> QED
  BY <1>3, <1>4

\* A worker gives up for good only when the client stops or the call its hash stands for is gone
\* (worker_loop, GroupCredentials::get), however errors, panics and rotations interleave.
THEOREM OneHashStopsItself == Spec => []OthersKeepGoing
<1>1. Init => OthersKeepGoing
  BY DEF Init, OthersKeepGoing
<1>2. PoolInv /\ OthersKeepGoing /\ [Next]_vars => OthersKeepGoing'
  BY KeepGoing
<1> QED
  BY <1>1, <1>2, PoolInvariant, PTL DEF Spec
-----------------------------------------------------------------------------
\* The goodbye of a client that stops.

LEMMA WithoutOne ==
  ASSUME NEW s \in Seq(Workers), NEW k \in 1 .. Len(s)
  PROVE  /\ RemoveAt(s, k) \in Seq(Workers) /\ Len(RemoveAt(s, k)) = Len(s) - 1
         /\ \A i \in 1 .. Len(s) - 1 : RemoveAt(s, k)[i] = IF i < k THEN s[i] ELSE s[i + 1]
<1> DEFINE a == SubSeq(s, 1, k - 1)
           b == SubSeq(s, k + 1, Len(s))
<1>0. Len(s) \in Nat /\ \A j \in 1 .. Len(s) : s[j] \in Workers
  OBVIOUS
<1>1. a \in Seq(Workers) /\ Len(a) = k - 1 /\ \A i \in 1 .. k - 1 : a[i] = s[i]
  <2>1. 1 \in Int /\ k - 1 \in Int /\ \A j \in 1 .. k - 1 : s[j] \in Workers
    BY <1>0
  <2>2. /\ a \in Seq(Workers) /\ Len(a) = IF 1 <= k - 1 THEN k - 1 - 1 + 1 ELSE 0
        /\ \A i \in 1 .. k - 1 - 1 + 1 : a[i] = s[1 + i - 1]
    BY <2>1, SubSeqProperties
  <2> HIDE DEF a
  <2> QED
    BY <1>0, <2>2
<1>2. b \in Seq(Workers) /\ Len(b) = Len(s) - k /\ \A i \in 1 .. Len(s) - k : b[i] = s[k + i]
  <2>1. k + 1 \in Int /\ Len(s) \in Int /\ \A j \in k + 1 .. Len(s) : s[j] \in Workers
    BY <1>0
  <2>2. /\ b \in Seq(Workers) /\ Len(b) = IF k + 1 <= Len(s) THEN Len(s) - (k + 1) + 1 ELSE 0
        /\ \A i \in 1 .. Len(s) - (k + 1) + 1 : b[i] = s[k + 1 + i - 1]
    BY <2>1, SubSeqProperties
  <2> HIDE DEF b
  <2> QED
    BY <1>0, <2>2
<1> HIDE DEF a, b
<1>3. RemoveAt(s, k) = a \o b
  BY DEF RemoveAt, a, b
<1>4. /\ a \o b \in Seq(Workers) /\ Len(a \o b) = Len(s) - 1
      /\ \A i \in 1 .. Len(s) - 1 : (a \o b)[i] = IF i <= Len(a) THEN a[i] ELSE b[i - Len(a)]
  <2>1. /\ a \o b \in Seq(Workers) /\ Len(a \o b) = Len(a) + Len(b)
        /\ \A i \in 1 .. Len(a) + Len(b) : (a \o b)[i] = IF i <= Len(a) THEN a[i] ELSE b[i - Len(a)]
    BY <1>1, <1>2, ConcatProperties
  <2>2. Len(a) + Len(b) = Len(s) - 1
    BY <1>0, <1>1, <1>2
  <2> QED
    BY <2>1, <2>2
<1>5. ASSUME NEW i \in 1 .. Len(s) - 1
      PROVE  (a \o b)[i] = IF i < k THEN s[i] ELSE s[i + 1]
  <2>1. CASE i < k
    BY <1>0, <1>1, <1>4, <2>1
  <2>2. CASE ~(i < k)
    <3>1. ~(i <= Len(a)) /\ i - Len(a) = i - (k - 1) /\ i - (k - 1) \in 1 .. Len(s) - k
          /\ k + (i - (k - 1)) = i + 1
      BY <1>0, <1>1, <2>2
    <3>2. (a \o b)[i] = b[i - (k - 1)] /\ b[i - (k - 1)] = s[k + (i - (k - 1))]
      BY <1>2, <1>4, <3>1
    <3> QED
      BY <2>2, <3>1, <3>2
  <2> QED
    BY <2>1, <2>2
<1> QED
  BY <1>3, <1>4, <1>5

LEMMA WithoutFacts ==
  ASSUME NEW s \in Seq(Workers), NEW w, \A i, j \in DOMAIN s : s[i] = s[j] => i = j
  PROVE  LET t == Without(s, w)
         IN  /\ t \in Seq(Workers)
             /\ \A i \in DOMAIN t : t[i] # w /\ \E j \in DOMAIN s : t[i] = s[j]
             /\ \A i, j \in DOMAIN t : t[i] = t[j] => i = j
             /\ (\A i \in DOMAIN s : s[i] # w) => t = s
<1>0. Len(s) \in Nat /\ DOMAIN s = 1 .. Len(s)
  OBVIOUS
<1>1. CASE Contains(s, w)
  <2> DEFINE k == CHOOSE i \in DOMAIN s : s[i] = w
             t == RemoveAt(s, k)
  <2>1. k \in 1 .. Len(s) /\ s[k] = w
    BY <1>0, <1>1 DEF Contains
  <2> HIDE DEF k
  <2>2. t \in Seq(Workers) /\ Len(t) = Len(s) - 1
        /\ \A i \in 1 .. Len(s) - 1 : t[i] = IF i < k THEN s[i] ELSE s[i + 1]
    BY <2>1, WithoutOne
  <2>3. Without(s, w) = t
    BY <1>1 DEF Without, k
  <2> HIDE DEF t
  <2>4. DOMAIN t = 1 .. Len(s) - 1
    BY <2>2
  <2> DEFINE old(i) == IF i < k THEN i ELSE i + 1
  <2>5. \A i \in 1 .. Len(s) - 1 : old(i) \in DOMAIN s /\ old(i) # k /\ t[i] = s[old(i)]
    BY <1>0, <2>1, <2>2
  <2>6. \A i, j \in 1 .. Len(s) - 1 : old(i) = old(j) => i = j
    BY <1>0, <2>1
  <2>7. k \in DOMAIN s
    BY <1>0, <2>1
  <2> HIDE DEF old
  <2>8. \A i \in DOMAIN t : t[i] # w /\ \E j \in DOMAIN s : t[i] = s[j]
    BY <2>1, <2>4, <2>5, <2>7
  <2>9. \A i, j \in DOMAIN t : t[i] = t[j] => i = j
    BY <2>4, <2>5, <2>6
  <2> QED
    BY <2>1, <2>2, <2>3, <2>7, <2>8, <2>9
<1>2. CASE ~Contains(s, w)
  <2>1. Without(s, w) = s
    BY <1>2 DEF Without
  <2>2. \A i \in DOMAIN s : s[i] # w
    BY <1>0, <1>2 DEF Contains
  <2> QED
    BY <2>1, <2>2
<1> QED
  BY <1>1, <1>2

\* A step that leaves the coordinator alone: no worker starts or stops to run, and a client that
\* is told to stop owes a goodbye exactly when a stream is ready.
LEMMA Outside ==
  ASSUME GoodbyeInv, TypeOK', UNCHANGED shutdown,
         \A x \in Workers : pc'[x] = pc[x] \/ (pc'[x] \notin Running /\ pc[x] \notin Running),
         unavailable \subseteq unavailable',
         \/ cancel' = cancel /\ owed' = owed
         \/ ~cancel /\ (owed' => streams # <<>>)
  PROVE  GoodbyeInv'
<1>1. streams' = streams /\ active' = active /\ completed' = completed /\ plan' = plan
      /\ acks' = acks /\ goodbyes' = goodbyes
  BY DEF shutdown
<1>2. streams \in Seq(Workers) /\ plan \in Seq(Workers)
  BY DEF GoodbyeInv, TypeOK, ShutdownOK
<1>3. \A x \in Workers : pc'[x] \in Running <=> pc[x] \in Running
  OBVIOUS
<1>4. \A x \in Workers : pc'[x] \in {"lead", "follow"} => pc[x] \in {"lead", "follow"}
  BY DEF Running
<1>5. Registered'
  <2>1. \A i \in DOMAIN streams : streams[i] \in Workers
    BY <1>2
  <2> QED
    BY <1>1, <1>3, <2>1 DEF GoodbyeInv, Registered
<1>6. Led'
  BY <1>1, <1>4 DEF GoodbyeInv, Led
<1>7. unavailable' = {} => unavailable = {}
  OBVIOUS
<1>8. Unasked'
  BY <1>1, <1>7 DEF GoodbyeInv, Unasked
<1>9. Farewell'
  <2>1. plan # <<>> => Head(plan) \in Workers
    BY <1>2, HeadTailProperties
  <2>2. CASE cancel' = cancel /\ owed' = owed
    BY <1>1, <1>3, <1>7, <2>1, <2>2 DEF GoodbyeInv, Farewell
  <2>3. CASE ~cancel /\ (owed' => streams # <<>>)
    BY <1>1, <1>7, <2>3 DEF GoodbyeInv, Farewell, Unasked
  <2> QED
    BY <2>2, <2>3
<1> QED
  BY <1>5, <1>6, <1>8, <1>9 DEF GoodbyeInv

LEMMA OutsideMoves ==
  ASSUME TypeOK, NEW w \in Workers, NEW p, pc[w] \notin Running, p \notin Running,
         pc' = [pc EXCEPT ![w] = p]
  PROVE  \A x \in Workers : pc'[x] = pc[x] \/ (pc'[x] \notin Running /\ pc[x] \notin Running)
BY Moves

\* The steps of a worker without a running stream.
LEMMA OutsideSteps ==
  ASSUME GoodbyeInv, TypeOK', NEW w \in Workers,
         \/ Gate(w) \/ Get(w) \/ Pace(w) \/ Fetched(w) \/ Waited(w) \/ Start(w) \/ Allocated(w)
         \/ Record(w) \/ Abort(w) \/ Ended(w) \/ Settle(w) \/ Panic(w)
  PROVE  GoodbyeInv'
<1>0. TypeOK
  BY DEF GoodbyeInv
<1>1. UNCHANGED shutdown
  BY DEF Gate, Get, Pace, Fetched, Waited, Start, Allocated, Record, Abort, Ended, Settle, Panic
<1>2. unavailable \subseteq unavailable'
  BY DEF Gate, Get, Pace, Fetched, Waited, Start, Allocated, Record, Abort, Ended, Settle, Panic, process
<1>3. \/ cancel' = cancel /\ owed' = owed
      \/ ~cancel /\ (owed' => streams # <<>>)
  <2>1. CASE Ended(w)
    BY <2>1 DEF Ended, CancelAll, Stopped
  <2> QED
    BY <2>1 DEF Gate, Get, Pace, Fetched, Waited, Start, Allocated, Record, Abort, Settle, Panic, process
<1>4. pc[w] \notin Running
  BY DEF Gate, Get, Pace, Fetched, Waited, Start, Allocated, Record, Abort, Ended, Settle, Panic, Running
<1>5. \E p \in Places \ Running : pc' = [pc EXCEPT ![w] = p]
  <2>1. {"get", "done", "start", "pace", "fetch", "refused", "stored", "failed", "connect", "ended",
         "record", "config", "settle", "gate"} \subseteq Places \ Running
    BY DEF Places, Running
  <2>2. CASE Gate(w) \/ Get(w) \/ Pace(w) \/ Fetched(w)
    BY <2>1, <2>2 DEF Gate, Get, Pace, Fetched, Goto
  <2>3. CASE Waited(w) \/ Start(w)
    BY <2>1, <2>3 DEF Waited, GiveUp, Start, Goto
  <2>4. CASE Allocated(w) \/ Record(w) \/ Abort(w)
    BY <2>1, <2>4 DEF Allocated, Record, Abort, Goto
  <2>5. CASE Ended(w) \/ Settle(w) \/ Panic(w)
    BY <2>1, <2>5 DEF Ended, Settle, Panic, Leave, Goto
  <2> QED
    BY <2>2, <2>3, <2>4, <2>5
<1>6. \A x \in Workers : pc'[x] = pc[x] \/ (pc'[x] \notin Running /\ pc[x] \notin Running)
  BY <1>0, <1>4, <1>5, OutsideMoves
<1> QED
  BY <1>1, <1>2, <1>3, <1>6, Outside

\* main, except when it builds the groups anew.
LEMMA MainSteps ==
  ASSUME GoodbyeInv, TypeOK', ControlInput \/ Signalled \/ HookFails \/ Finish \/ UNCHANGED vars
  PROVE  GoodbyeInv'
<1>1. UNCHANGED shutdown /\ pc' = pc /\ unavailable \subseteq unavailable'
  BY DEF ControlInput, Signalled, HookFails, Finish, vars, process
<1>2. \/ cancel' = cancel /\ owed' = owed
      \/ ~cancel /\ (owed' => streams # <<>>)
  BY DEF ControlInput, Signalled, HookFails, Finish, CancelAll, vars, process
<1> QED
  BY <1>1, <1>2, Outside

\* A stream that is ready is registered unless the disconnect is under way already.
LEMMA ConfiguredStep ==
  ASSUME GoodbyeInv, TypeOK', NEW w \in Workers, Configured(w)
  PROVE  GoodbyeInv'
<1>0. TypeOK /\ streams \in Seq(Workers) /\ plan \in Seq(Workers)
  BY DEF GoodbyeInv, TypeOK, ShutdownOK
<1>1. /\ pc[w] = "config" /\ pc' = [pc EXCEPT ![w] = "ready"]
      /\ active' = active /\ completed' = completed /\ plan' = plan /\ acks' = acks
      /\ goodbyes' = goodbyes /\ unavailable' = unavailable /\ cancel' = cancel /\ owed' = owed
      /\ streams' = IF active THEN streams ELSE Append(streams, w)
  BY DEF Configured, Goto, process
<1>2. pc'[w] = "ready" /\ \A x \in Workers : x # w => pc'[x] = pc[x]
  BY <1>0, <1>1, Moves
<1>3. "config" \notin Running /\ "ready" \in Running /\ "ready" \notin {"lead", "follow"}
  BY DEF Running
<1>4. \A x \in Workers : pc[x] \in Running => pc'[x] \in Running
  BY <1>2, <1>3
<1>5. \A i \in DOMAIN streams : streams[i] \in Workers /\ streams[i] # w /\ pc[streams[i]] \in Running
  BY <1>0, <1>1, <1>3 DEF GoodbyeInv, Registered
<1>6. Registered'
  <2>1. CASE active
    BY <1>1, <1>4, <1>5, <2>1 DEF GoodbyeInv, Registered
  <2>2. CASE ~active
    <3>1. streams' = Append(streams, w)
      BY <1>1, <2>2
    <3>2. /\ Len(streams) \in Nat /\ DOMAIN streams = 1 .. Len(streams)
          /\ DOMAIN streams' = 1 .. Len(streams) + 1 /\ streams'[Len(streams) + 1] = w
          /\ \A i \in 1 .. Len(streams) : streams'[i] = streams[i]
      BY <1>0, <3>1
    <3>3. \A i \in DOMAIN streams' : i \in DOMAIN streams \/ i = Len(streams) + 1
      BY <3>2
    <3>4. \A i \in DOMAIN streams' : pc'[streams'[i]] \in Running
      BY <1>2, <1>3, <1>4, <1>5, <3>2, <3>3
    <3>5. \A i, j \in DOMAIN streams' : streams'[i] = streams'[j] => i = j
      BY <1>5, <3>2, <3>3 DEF GoodbyeInv, Registered
    <3> QED
      BY <3>4, <3>5 DEF Registered
  <2> QED
    BY <2>1, <2>2
<1>7. Led'
  BY <1>1, <1>2, <1>3 DEF GoodbyeInv, Led
<1>8. Unasked'
  BY <1>1 DEF GoodbyeInv, Unasked
<1>9. Farewell'
  <2>1. plan # <<>> => Head(plan) \in Workers
    BY <1>0, HeadTailProperties
  <2>2. Append(streams, w) # <<>>
    BY <1>0
  <2> QED
    BY <1>1, <1>4, <2>1, <2>2 DEF GoodbyeInv, Farewell
<1> QED
  BY <1>6, <1>7, <1>8, <1>9 DEF GoodbyeInv

LEMMA Removed ==
  ASSUME GoodbyeInv, NEW w \in Workers, streams' = Without(streams, w),
         \A x \in Workers : x # w => pc'[x] = pc[x]
  PROVE  /\ Registered'
         /\ pc[w] \notin Running => streams' = streams
<1>1. streams \in Seq(Workers) /\ \A i, j \in DOMAIN streams : streams[i] = streams[j] => i = j
  BY DEF GoodbyeInv, TypeOK, ShutdownOK, Registered
<1>2. \A i \in DOMAIN streams : streams[i] \in Workers /\ pc[streams[i]] \in Running
  BY <1>1 DEF GoodbyeInv, Registered
<1> DEFINE t == Without(streams, w)
<1>3. /\ \A i \in DOMAIN t : t[i] # w /\ \E j \in DOMAIN streams : t[i] = streams[j]
      /\ \A i, j \in DOMAIN t : t[i] = t[j] => i = j
      /\ (\A i \in DOMAIN streams : streams[i] # w) => t = streams
  BY <1>1, WithoutFacts
<1>4. streams' = t
  OBVIOUS
<1> HIDE DEF t
<1>5. Registered'
  BY <1>2, <1>3, <1>4 DEF Registered
<1> QED
  BY <1>2, <1>3, <1>4, <1>5

\* A stream that breaks is removed; a stopped client does not lose a ready one this way.
LEMMA FailStep ==
  ASSUME GoodbyeInv, TypeOK', NEW w \in Workers, Fail(w)
  PROVE  GoodbyeInv'
<1>0. TypeOK /\ plan \in Seq(Workers)
  BY DEF GoodbyeInv, TypeOK, ShutdownOK
<1>1. /\ pc[w] \in {"connect", "config", "ready"} /\ pc' = [pc EXCEPT ![w] = "ended"]
      /\ pc[w] = "ready" => ~cancel
      /\ active' = active /\ completed' = completed /\ plan' = plan /\ acks' = acks
      /\ goodbyes' = goodbyes /\ unavailable' = unavailable /\ cancel' = cancel /\ owed' = owed
      /\ streams' = Without(streams, w)
  BY DEF Fail, Goto, process, Stopped
<1>2. pc'[w] = "ended" /\ \A x \in Workers : x # w => pc'[x] = pc[x]
  BY <1>0, <1>1, Moves
<1>3. Registered' /\ (pc[w] \notin Running => streams' = streams)
  BY <1>1, <1>2, Removed
<1>4. Led'
  BY <1>1, <1>2 DEF GoodbyeInv, Led
<1>5. Unasked'
  BY <1>1 DEF GoodbyeInv, Unasked
<1>6. Farewell'
  <2>1. plan # <<>> => Head(plan) \in Workers
    BY <1>0, HeadTailProperties
  <2>2. cancel => pc[w] \notin Running
    BY <1>1 DEF Running
  <2> QED
    BY <1>1, <1>2, <1>3, <2>1, <2>2 DEF GoodbyeInv, Farewell
<1> QED
  BY <1>3, <1>4, <1>5, <1>6 DEF GoodbyeInv

LEMMA ActivityStep ==
  ASSUME GoodbyeInv, TypeOK', NEW w \in Workers, Activity(w)
  PROVE  GoodbyeInv'
<1>0. TypeOK /\ streams \in Seq(Workers)
      /\ \A i, j \in DOMAIN streams : streams[i] = streams[j] => i = j
  BY DEF GoodbyeInv, TypeOK, ShutdownOK, Registered
<1>1. /\ pc[w] \in Running /\ pc' = pc
      /\ active' = active /\ completed' = completed /\ plan' = plan /\ acks' = acks
      /\ goodbyes' = goodbyes /\ unavailable' = unavailable /\ cancel' = cancel /\ owed' = owed
      /\ streams' = Append(Without(streams, w), w)
  BY DEF Activity, process
<1> DEFINE t == Without(streams, w)
<1>2. /\ t \in Seq(Workers)
      /\ \A i \in DOMAIN t : t[i] # w /\ \E j \in DOMAIN streams : t[i] = streams[j]
      /\ \A i, j \in DOMAIN t : t[i] = t[j] => i = j
  BY <1>0, WithoutFacts
<1>3. streams' = Append(t, w)
  BY <1>1
<1> HIDE DEF t
<1>4. \A i \in DOMAIN t : pc[t[i]] \in Running
  BY <1>2 DEF GoodbyeInv, Registered
<1>5. /\ Len(t) \in Nat /\ DOMAIN t = 1 .. Len(t)
      /\ DOMAIN streams' = 1 .. Len(t) + 1 /\ streams'[Len(t) + 1] = w
      /\ \A i \in 1 .. Len(t) : streams'[i] = t[i]
  BY <1>2, <1>3
<1>6. \A i \in DOMAIN streams' : i \in DOMAIN t \/ i = Len(t) + 1
  BY <1>5
<1>7. Registered'
  <2>1. \A i \in DOMAIN streams' : pc'[streams'[i]] \in Running
    BY <1>1, <1>4, <1>5, <1>6
  <2>2. \A i, j \in DOMAIN streams' : streams'[i] = streams'[j] => i = j
    BY <1>2, <1>5, <1>6
  <2> QED
    BY <2>1, <2>2 DEF Registered
<1>8. streams' # <<>>
  BY <1>2, <1>3
<1>9. Led' /\ Unasked' /\ Farewell'
  BY <1>1, <1>8 DEF GoodbyeInv, Led, Unasked, Farewell
<1> QED
  BY <1>7, <1>9 DEF GoodbyeInv

\* The leader plans for the streams of the coordinator, the one of the latest activity first.
LEMMA RequestStep ==
  ASSUME GoodbyeInv, TypeOK', NEW w \in Workers, RequestDisconnect(w)
  PROVE  GoodbyeInv'
<1>0. TypeOK /\ streams \in Seq(Workers) /\ plan \in Seq(Workers)
  BY DEF GoodbyeInv, TypeOK, ShutdownOK
<1>1. /\ pc[w] = "ready" /\ streams' = streams /\ acks' = acks /\ goodbyes' = goodbyes
      /\ unavailable' = unavailable /\ cancel' = cancel /\ owed' = owed
      /\ cancel \/ unavailable # {}
  BY DEF RequestDisconnect, Stopped, process
<1>2. \E p \in {"lead", "follow"} : pc' = [pc EXCEPT ![w] = p]
  BY DEF RequestDisconnect, Goto
<1>3. pc'[w] \in {"lead", "follow"} /\ \A x \in Workers : x # w => pc'[x] = pc[x]
  BY <1>0, <1>2, Moves
<1>4. \A x \in Workers : pc[x] \in Running => pc'[x] \in Running
  BY <1>3 DEF Running
<1>5. active' /\ (active => completed' = completed /\ plan' = plan)
  BY DEF RequestDisconnect
<1>6. \A i \in DOMAIN streams : streams[i] \in Workers /\ pc[streams[i]] \in Running
  BY <1>0 DEF GoodbyeInv, Registered
<1>7. Registered'
  BY <1>1, <1>4, <1>6 DEF GoodbyeInv, Registered
<1>8. Led' /\ Unasked'
  BY <1>1, <1>5 DEF Led, Unasked
<1>9. Farewell'
  <2>1. CASE active
    <3>1. plan # <<>> => Head(plan) \in Workers
      BY <1>0, HeadTailProperties
    <3> QED
      BY <1>1, <1>4, <1>5, <2>1, <3>1 DEF GoodbyeInv, Farewell
  <2>2. CASE ~active
    <3>1. ~completed' /\ plan' = SubSeq(Reverse(streams), 1, IF Len(streams) < 2 THEN Len(streams) ELSE 2)
      BY <2>2 DEF RequestDisconnect
    <3>2. ASSUME streams # <<>> PROVE plan' # <<>> /\ pc'[Head(plan')] \in Running
      <4> DEFINE r == Reverse(streams)
                 n == IF Len(streams) < 2 THEN Len(streams) ELSE 2
      <4>1. Len(streams) \in Nat /\ Len(streams) >= 1 /\ Len(streams) \in DOMAIN streams
        BY <1>0, <3>2
      <4>2. r \in Seq(Workers) /\ Len(r) = Len(streams) /\ r[1] = streams[Len(streams)]
        BY <1>0, <4>1 DEF Reverse
      <4>3. 1 \in 1 .. Len(r) /\ n \in 1 .. Len(r)
        BY <4>1, <4>2
      <4>4. plan' = SubSeq(r, 1, n)
        BY <3>1
      <4> HIDE DEF r, n
      <4>5. Head(plan') = r[1] /\ Len(plan') = n
        BY <4>2, <4>3, <4>4, HeadTailOfSubSeq, SubSeqProperties
      <4>6. plan' # <<>>
        BY <4>3, <4>5
      <4> QED
        BY <1>4, <1>6, <4>1, <4>2, <4>5, <4>6
    <3> QED
      BY <1>1, <1>5, <2>2, <3>1, <3>2 DEF GoodbyeInv, Farewell
  <2> QED
    BY <2>1, <2>2
<1> QED
  BY <1>7, <1>8, <1>9 DEF GoodbyeInv

\* Before the first DISCONNECT is handed over, the stream the plan begins with runs.
LEMMA SendStep ==
  ASSUME GoodbyeInv, TypeOK', NEW w \in Workers, SendDisconnect(w)
  PROVE  GoodbyeInv'
<1>1. /\ pc[w] = "lead" /\ pc' = pc /\ streams' = streams /\ active' = active
      /\ completed' = completed /\ unavailable' = unavailable /\ cancel' = cancel /\ owed' = owed
  BY DEF SendDisconnect, process
<1>2. active
  BY <1>1 DEF GoodbyeInv, Led
<1>3. goodbyes \in Nat
  BY DEF GoodbyeInv, TypeOK, ShutdownOK
<1>4. Registered' /\ Led'
  BY <1>1 DEF GoodbyeInv, Registered, Led
<1>5. Unasked'
  BY <1>1, <1>2 DEF GoodbyeInv, Unasked
<1>6. Farewell'
  <2>1. CASE pc[Head(plan)] \in Running
    <3>1. goodbyes' = goodbyes + 1
      BY <2>1 DEF SendDisconnect
    <3> QED
      BY <1>3, <3>1 DEF Farewell
  <2>2. CASE pc[Head(plan)] \notin Running
    <3>1. goodbyes' = goodbyes
      BY <2>2 DEF SendDisconnect
    <3> QED
      BY <1>1, <1>2, <2>2, <3>1 DEF GoodbyeInv, Farewell
  <2> QED
    BY <2>1, <2>2
<1> QED
  BY <1>4, <1>5, <1>6 DEF GoodbyeInv

LEMMA AcknowledgedStep ==
  ASSUME GoodbyeInv, TypeOK', NEW w \in Workers, Acknowledged(w)
  PROVE  GoodbyeInv'
<1>1. /\ acks # {} /\ pc' = pc /\ streams' = streams /\ active' = active /\ plan' = plan
      /\ goodbyes' = goodbyes /\ unavailable' = unavailable /\ cancel' = cancel /\ owed' = owed
  BY DEF Acknowledged, process
<1>2. Registered' /\ Led' /\ Unasked' /\ Farewell'
  BY <1>1 DEF GoodbyeInv, Registered, Led, Unasked, Farewell
<1> QED
  BY <1>2 DEF GoodbyeInv

\* The leader does not return before it has sent a DISCONNECT, nor a follower before the leader.
LEMMA DisconnectedStep ==
  ASSUME GoodbyeInv, TypeOK', NEW w \in Workers, Disconnected(w)
  PROVE  GoodbyeInv'
<1>0. TypeOK
  BY DEF GoodbyeInv
<1>1. /\ pc' = [pc EXCEPT ![w] = "ended"] /\ streams' = Without(streams, w) /\ active' = active
      /\ plan' = plan /\ goodbyes' = goodbyes /\ unavailable' = unavailable /\ cancel' = cancel
      /\ owed' = owed /\ pc[w] \in {"lead", "follow"} /\ (completed \/ plan = <<>>)
  BY DEF Disconnected, Goto, process
<1>2. pc'[w] = "ended" /\ \A x \in Workers : x # w => pc'[x] = pc[x]
  BY <1>0, <1>1, Moves
<1>3. active
  BY <1>1 DEF GoodbyeInv, Led
<1>4. Registered'
  BY <1>1, <1>2, Removed
<1>5. Led' /\ Unasked' /\ Farewell'
  BY <1>1, <1>2, <1>3 DEF GoodbyeInv, Led, Unasked, Farewell
<1> QED
  BY <1>4, <1>5 DEF GoodbyeInv

LEMMA AnewStep ==
  ASSUME GoodbyeInv, TypeOK', Rebuild
  PROVE  GoodbyeInv'
<1>0. streams \in Seq(Workers)
  BY DEF GoodbyeInv, TypeOK, ShutdownOK
<1>1. /\ pc' = [x \in Workers |-> "gate"] /\ streams' = streams /\ ~active' /\ ~completed'
      /\ acks' = {} /\ cancel' = cancel /\ ~cancel
  BY DEF Rebuild
<1>2. "done" \notin Running /\ "gate" \notin {"lead", "follow"}
  BY DEF Running
<1>3. \A i \in DOMAIN streams : FALSE
  BY <1>0, <1>2 DEF GoodbyeInv, Registered, Rebuild, AllDone
<1>4. Registered'
  BY <1>1, <1>3 DEF Registered
<1>5. Led' /\ Unasked' /\ Farewell'
  BY <1>1, <1>2 DEF Led, Unasked, Farewell
<1> QED
  BY <1>4, <1>5 DEF GoodbyeInv

\* Until the goodbye is sent, a stream of the plan or of the coordinator still runs.
LEMMA GoodbyeInductive == ASSUME GoodbyeInv, TypeOK', [Next]_vars PROVE GoodbyeInv'
<1>1. ASSUME NEW w \in Workers, Worker(w) PROVE GoodbyeInv'
  BY <1>1, OutsideSteps, ConfiguredStep, FailStep, RequestStep, SendStep, DisconnectedStep DEF Worker
<1> QED
  BY <1>1, MainSteps, AnewStep, OutsideSteps, ActivityStep, AcknowledgedStep DEF Next

\* A client that is told to stop while a stream is ready has handed DISCONNECT to a writer before
\* its last worker is gone, whichever session leads, whichever streams break and whatever answers
\* are lost, as long as no hash was given up (ShutdownCoordinator, run_session).
THEOREM StopIsAnnounced == Spec => []SaysGoodbye
<1>1. Init => GoodbyeInv
  <2> SUFFICES ASSUME Init PROVE GoodbyeInv
    OBVIOUS
  <2>1. TypeOK
    BY PoolInitially DEF PoolInv
  <2>2. Registered /\ Led /\ Unasked /\ Farewell
    BY DEF Init, Registered, Led, Unasked, Farewell
  <2> QED
    BY <2>1, <2>2 DEF GoodbyeInv
<1>2. PoolInv => TypeOK
  BY DEF PoolInv
<1>3. GoodbyeInv /\ TypeOK' /\ [Next]_vars => GoodbyeInv'
  BY GoodbyeInductive
<1>4. GoodbyeInv => SaysGoodbye
  <2> SUFFICES ASSUME GoodbyeInv, AllDone, cancel, owed, unavailable = {}, goodbyes = 0 PROVE FALSE
    BY DEF SaysGoodbye, GoodbyeInv, TypeOK, ShutdownOK
  <2>1. streams \in Seq(Workers) /\ plan \in Seq(Workers) /\ "done" \notin Running
    BY DEF GoodbyeInv, TypeOK, ShutdownOK, Running
  <2>2. CASE active
    <3>1. plan # <<>> /\ pc[Head(plan)] \in Running
      BY <2>2 DEF GoodbyeInv, Farewell
    <3>2. Head(plan) \in Workers
      BY <2>1, <3>1, HeadTailProperties
    <3> QED
      BY <2>1, <3>1, <3>2 DEF AllDone
  <2>3. CASE ~active
    <3>1. streams # <<>>
      BY <2>3 DEF GoodbyeInv, Farewell
    <3>2. 1 \in DOMAIN streams /\ streams[1] \in Workers
      BY <2>1, <3>1
    <3> QED
      BY <2>1, <3>2 DEF AllDone, GoodbyeInv, Registered
  <2> QED
    BY <2>2, <2>3
<1> QED
  BY <1>1, <1>2, <1>3, <1>4, PoolInvariant, PTL DEF Spec
=============================================================================
