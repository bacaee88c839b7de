---------------------------- MODULE MCDataplane ----------------------------
EXTENDS Dataplane, TLC

MCWorkers == <<1, 1, 2>>
Rule(p, l, m) == [perPath |-> p, least |-> l, most |-> m]
ByClass(l, p, b) == [c \in Class |-> IF c = "latency" THEN l ELSE IF c = "priority" THEN p ELSE b]
MCSlotRule == ByClass(Rule(0, 1, 1), Rule(1, 1, 2), Rule(1, 1, 2))
MCChunk == ByClass(1, 2, 2)
MCBatch == ByClass(1, 1, 2)

\* Parts of a load.
Tun(n, kinds) == [tun |-> n, kinds |-> kinds]
Udp(data, ready, endless) == [data |-> data, ready |-> ready, udp |-> endless]
Control(n, menu, stops, expiries) ==
  [commands |-> n, menu |-> menu, stops |-> stops, expiries |-> expiries]
Errors(udp, tun) == [udpErrors |-> udp, tunErrors |-> tun]

Activate(s, k) == [op |-> "activate", s |-> s, k |-> k]
On(op, s) == [op |-> op, s |-> s]
Changes == {On("close", 1), On("epoch", 1), On("close", 2), Activate(3, 2)}
Moves == {Activate(1, 1), Activate(2, 1), Activate(3, 1), On("close", 2), On("deactivate", 1)}

Bulk == {<<1, "bulk">>, <<2, "bulk">>}
Mixed == {<<1, "latency">>, <<1, "priority">>, <<1, "bulk">>}
Quiet == Control(0, {}, 0, 0)
Talk == {On("say", 1), On("inject", 1)}

Scenarios ==
  {<<<<1, 0, 0>>, Tun(1, {<<1, "bulk">>}) @@ Udp(0, 0, FALSE) @@ Control(2, Moves, 0, 1) @@ Errors(0, 0)>>,
   <<<<1, 2, 1>>, Tun(3, Bulk) @@ Udp(0, 0, FALSE) @@ Control(1, Changes, 0, 0) @@ Errors(0, 0)>>,
   <<<<1, 0, 0>>, Tun(1, {<<1, "bulk">>}) @@ Udp(3, 0, TRUE) @@ Quiet @@ Errors(0, 1)>>,
   <<<<1, 0, 0>>, Tun(3, Mixed) @@ Udp(0, 0, FALSE) @@ Quiet @@ Errors(1, 0)>>,
   <<<<1, 0, 0>>, Tun(0, {}) @@ Udp(0, 1, TRUE) @@ Control(3, Talk, 1, 0) @@ Errors(0, 0)>>}

MCInit == RestInit /\ \E s \in Scenarios : Joined(s[1]) /\ load = s[2]
MCSpec == MCInit /\ [][Next]_vars /\ Fairness
=============================================================================
