------------------------- MODULE MCTransparentProxy -------------------------
EXTENDS TransparentProxy

Pair(t, u) == [tcp |-> t, udp |-> u]
Buffers(d, g) == [device |-> d, global |-> g]

MCLimits == <<Pair(1, 1), Pair(2, 2), Pair(2, 2), Pair(2, 2)>>
MCBuffers == Buffers(1, 1)
MCRuntimeIds == 1 .. 5
MCIps == {"a", "b"}
MCSockets == {<<"a", 1>>, <<"a", 2>>, <<"b", 1>>}

\* What may happen in a behaviour: requests of the panel, commands and starts that fail, the
\* SOCKS5 server going and coming, children dying, reloads of the firewall, ends of the server;
Route(e, f, fl, d, r, x) ==
  [edits |-> e, failures |-> f, flips |-> fl, deaths |-> d, reloads |-> r, ends |-> x]
\* TCP connections, datagrams, answers, associations refused, an end of the engine.
Traffic(t, u, a, e, s) == [tcp |-> t, udp |-> u, replies |-> a, errors |-> e, stops |-> s]

Quiet == Traffic(0, 0, 0, 0, 0)

Scenarios ==
  {<<"none", Route(2, 1, 0, 0, 0, 0), Quiet>>, <<"none", Route(2, 0, 1, 1, 0, 0), Quiet>>,
   <<"none", Route(1, 0, 0, 0, 1, 1), Quiet>>, <<"p", Route(2, 0, 0, 0, 1, 0), Quiet>>,
   <<"none", Route(1, 1, 0, 0, 0, 1), Quiet>>, <<"none", Route(1, 1, 0, 1, 0, 0), Quiet>>,
   <<"p", Route(0, 0, 0, 0, 0, 0), Traffic(3, 0, 0, 0, 0)>>,
   <<"p", Route(0, 0, 0, 0, 0, 0), Traffic(0, 3, 0, 1, 0)>>,
   <<"p", Route(0, 0, 0, 0, 0, 0), Traffic(1, 1, 0, 0, 1)>>,
   <<"p", Route(0, 0, 0, 0, 0, 0), Traffic(0, 1, 1, 0, 1)>>}

MCInit == ProxyInit /\ \E s \in Scenarios : wanted = s[1] /\ left = s[2] /\ load = s[3]
MCSpec == MCInit /\ [][ProxyNext]_proxyVars /\ Fairness
=============================================================================
