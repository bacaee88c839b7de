--------------------------- MODULE MCStreamRepair ---------------------------
\* Two or three workers and the troubles of a repair, a few at a time.
EXTENDS StreamRepair

Scenario(n, d, f, l, e, r) ==
  [desired |-> n, drops |-> d, failures |-> f, losses |-> l, early |-> e, restarts |-> r]

\* A stream is lost again while it is being repaired; packets are lost; the server starts
\* again and knows nobody until a session of the client fails; two carriers bring the
\* same command.
MCScenarios ==
  {Scenario(2, 2, 0, 0, 1, 0), Scenario(2, 1, 1, 1, 0, 0), Scenario(2, 1, 1, 0, 0, 1),
   Scenario(3, 1, 0, 1, 0, 0)}
=============================================================================
