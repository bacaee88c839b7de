-------------------------- MODULE MCServerSessions --------------------------
(* Instances of ServerSessions: what the clients send and what goes wrong. *)
EXTENDS ServerSessions

Getconf(peer, pw, ep, worker) ==
  [peer |-> peer, pw |-> pw, dev |-> "d", ep |-> ep, worker |-> worker]

Scenario(sent, kinds, n, cs, ls, is) ==
  [requests |-> sent, kinds |-> kinds, payloads |-> n, changes |-> cs, losses |-> ls,
   idles |-> is]

\* A device starts, its worker moves to another address, and from there it starts
\* again in the next generation.
First  == Getconf(1, "p", <<1, "a">>, 1)
Moved  == Getconf(2, "p", <<1, "a">>, 1)
Second == Getconf(2, "p", <<2, "b">>, 1)

\* Concurrent requests of two generations; the password is taken away under them;
\* sessions, epochs and slots that time out.
FourScenarios == {
  Scenario({First, Moved, Second}, {"disconnect", "ingress"}, 3, 0, 1, 0),
  Scenario({First, Second}, {"ingress", "delete", "toggle", "unbind", "expire"}, 2, 1, 1, 0),
  Scenario({First, Moved, Second}, {"disconnect"}, 2, 0, 1, 1),
  Scenario({First, Second}, {"ingress"}, 2, 0, 0, 2)}

\* Control tasks are interchangeable.
TaskSymmetry == Permutations(Tasks)
=============================================================================
