-------------------------- MODULE MCClientWorkers ---------------------------
\* Two groups on one hash or on two, each kind of trouble with bounds of its own.
EXTENDS ClientWorkers

Scenario(h, f, e, i, b, k) ==
  [hashes |-> h, fetches |-> f, faults |-> e, inputs |-> i, builds |-> b, keep |-> k]
MCScenarios ==
  UNION {{Scenario(h, 2, 1, 1, 0, TRUE), Scenario(h, 2, 0, 2, 1, TRUE)} : h \in 1 .. MaxHashes}
    \cup {Scenario(1, 2, 3, 0, 0, FALSE), Scenario(2, 3, 2, 0, 0, FALSE)}

=============================================================================
