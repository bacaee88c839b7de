--------------------------- MODULE CredentialPool ---------------------------
(***************************************************************************)
(* What the client promises the TURN service about credentials: each       *)
(* cohort of workers uses one set of them at a time, the number of         *)
(* Allocate requests made with one set is bounded, and a set that was      *)
(* given up is never leased again.                                         *)
(***************************************************************************)
EXTENDS Naturals

CONSTANTS Cohorts,
          Cap      \* WORKERS_PER_CREDENTIAL

VARIABLES
  newest,   \* cohort -> how many sets of credentials it has had
  valid,    \* cohort -> whether the newest may still be leased
  leased,   \* cohort -> set -> leases taken that have not been used yet
  used      \* cohort -> set -> Allocate requests made with it

vars == <<newest, valid, leased, used>>

Init ==
  /\ newest = [c \in Cohorts |-> 0] /\ valid = [c \in Cohorts |-> FALSE]
  /\ leased = [c \in Cohorts |-> <<>>] /\ used = [c \in Cohorts |-> <<>>]

WithNew(f, n) == [g \in 1 .. n + 1 |-> IF g > n THEN 0 ELSE f[g]]

\* New credentials replace the ones that were given up.
Renew(c) ==
  /\ ~valid[c]
  /\ newest' = [newest EXCEPT ![c] = @ + 1] /\ valid' = [valid EXCEPT ![c] = TRUE]
  /\ leased' = [leased EXCEPT ![c] = WithNew(@, newest[c])]
  /\ used' = [used EXCEPT ![c] = WithNew(@, newest[c])]

GiveUp(c) ==
  /\ valid[c] /\ valid' = [valid EXCEPT ![c] = FALSE]
  /\ UNCHANGED <<newest, leased, used>>

\* Only the newest set is leased; its leases and requests together stay within Cap.
Lease(c) ==
  /\ valid[c] /\ leased[c][newest[c]] + used[c][newest[c]] < Cap
  /\ leased' = [leased EXCEPT ![c][newest[c]] = @ + 1]
  /\ UNCHANGED <<newest, valid, used>>

\* A lease ends in a request or is returned, whatever became of its set.
Use(c, g) ==
  /\ leased[c][g] > 0
  /\ leased' = [leased EXCEPT ![c][g] = @ - 1] /\ used' = [used EXCEPT ![c][g] = @ + 1]
  /\ UNCHANGED <<newest, valid>>

Return(c, g) ==
  /\ leased[c][g] > 0
  /\ leased' = [leased EXCEPT ![c][g] = @ - 1]
  /\ UNCHANGED <<newest, valid, used>>

\* The client builds its groups anew once no lease is left.
Rebuild ==
  /\ \A c \in Cohorts : \A g \in 1 .. newest[c] : leased[c][g] = 0
  /\ newest' = [c \in Cohorts |-> 0] /\ valid' = [c \in Cohorts |-> FALSE]
  /\ leased' = [c \in Cohorts |-> <<>>] /\ used' = [c \in Cohorts |-> <<>>]

Next ==
  \/ \E c \in Cohorts : \/ Renew(c) \/ GiveUp(c) \/ Lease(c)
                        \/ \E g \in 1 .. newest[c] : Use(c, g) \/ Return(c, g)
  \/ Rebuild

Spec == Init /\ [][Next]_vars
=============================================================================
