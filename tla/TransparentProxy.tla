-------------------------- MODULE TransparentProxy --------------------------
(***************************************************************************)
(* The transparent proxy of the server as a whole: the route that the      *)
(* server keeps (LocalProxy) and the engine in the child process of that   *)
(* route (ProxyAdmission).  A child starts with an empty engine; clients   *)
(* reach it while the rules of the kernel lead to it; it is killed with    *)
(* whatever it holds, and ends by itself when it is told to or when the    *)
(* server is gone.                                                         *)
(* (rust-server/main.rs run_tproxy_child, proxy_route.rs, tproxy.rs)       *)
(***************************************************************************)
EXTENDS LocalProxy, ProxyAdmission

proxyVars == <<rvars, avars>>

\* The child that serves: of the latest runtime id, as long as the process is there.
Serving == runs # <<>> /\ runs[Len(runs)].child = "up"
Reached == Serving /\ rules.port = Len(runs) /\ rules.shared

ProxyInit == RouteInit /\ EngineInit

\* run_tproxy_child: a new process, with nothing of the one before it.
RouteStep ==
  /\ RouteNext
  /\ IF Len(runs') > Len(runs) THEN EngineStarts ELSE UNCHANGED avars

\* Clients reach the child through the rules; what it has begun it goes on with.
ChildStep ==
  /\ UNCHANGED rvars
  /\ \/ Reached /\ Arrival
     \/ Serving /\ Work

\* The engine has ended, and with it the process.
ChildExits ==
  /\ Serving /\ engine = "over"
  /\ runs' = [runs EXCEPT ![Len(runs)].child = "gone"]
  /\ UNCHANGED <<wanted, trigger, health, listening, route, rules, current, lock, operation,
                 monitor, main, panel, left, avars>>

ProxyNext == RouteStep \/ ChildStep \/ ChildExits

Fairness == RouteFairness

ProxySpec == ProxyInit /\ [][ProxyNext]_proxyVars

=============================================================================
