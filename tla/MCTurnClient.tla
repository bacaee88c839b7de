---------------------------- MODULE MCTurnClient ----------------------------
\* One allocation over datagrams or a stream, with the troubles it can meet a few at a time.
EXTENDS TurnClient

Scenario(uri, ticks, faults, forged, errors) ==
  [mode |-> uri[1], scheme |-> uri[2], uri |-> uri[3],
   ticks |-> ticks, faults |-> faults, forged |-> forged, errors |-> errors]

Udp == <<"udp", "turn", "none">>
Tcp == <<"tcp", "turn", "tcp">>
Tls == <<"tcp", "turns", "none">>

\* Maintenance that fails until the channel is given up; a server that refuses, finds the
\* nonce stale or forgets; answers nobody signed; a socket that fails; a URI that does not
\* fit the mode.
MCScenarios ==
  {Scenario(Udp, 1, 0, 0, 0), Scenario(Udp, 0, 1, 1, 0),
   Scenario(Tcp, 1, 0, 0, 0), Scenario(Tls, 0, 1, 0, 1),
   Scenario(<<"udp", "turns", "none">>, 0, 0, 0, 0)}
=============================================================================
