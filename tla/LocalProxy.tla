----------------------------- MODULE LocalProxy -----------------------------
(***************************************************************************)
(* The route of the transparent proxy in the server: the monitor loop that *)
(* brings the setting, the SOCKS5 server, the child process and the        *)
(* interception rules of the kernel into line, the watchdog of each route, *)
(* the requests of the panel, and the start and the end of the server.     *)
(* (rust-server/main.rs local_proxy_monitor_loop, proxy_route.rs,          *)
(* web_panel.rs, the handlers of the local proxy)                          *)
(*                                                                         *)
(* A profile is what makes two configurations differ.  Delays are left     *)
(* out, and with them the strikes that choose them: the monitor waits for  *)
(* its timer or only for the trigger.                                      *)
(***************************************************************************)
EXTENDS Naturals, Sequences, FiniteSets, FiniteSetsExt

CONSTANTS
  Profiles,                 \* configurations of the SOCKS5 server
  TPROXY_START_ATTEMPTS,
  RuntimeIds                \* bound: the runtime ids a behaviour can reach

VARIABLES
  wanted,       \* the active profile in the database, or "none"
  trigger,      \* proxy_trigger
  health,       \* proxy_health_error is None
  listening,    \* the SOCKS5 server accepts connections
  runs,         \* every child so far by runtime id, over all starts of the server: profile,
                \* process, cancel, and the watchdog of its route
  route,        \* proxy_route: a runtime id, 0 for None
  rules,        \* interception: the policy rule, the port it leads to and how many of the
                \* four rules of it; late, put there for a route that had been cancelled;
                \* stale, left over when the cleanup at the start was cut short
  current,      \* ACTIVE_RUNTIME
  lock,         \* POLICY_LOCK: the runtime id it is held for, 0 when it is free
  operation,    \* proxy_operation: its holder or "free"
  monitor,      \* local_proxy_monitor_loop
  main,         \* the end of the server: where, and the route it took
  panel,        \* where a request of the panel is
  left          \* what is left of each bound

rvars == <<wanted, trigger, health, listening, runs, route, rules, current, lock, operation,
           monitor, main, panel, left>>

Spend(k) == left[k] > 0 /\ left' = [left EXCEPT ![k] = @ - 1]

NoRules == [shared |-> FALSE, port |-> 0, level |-> 0, late |-> FALSE, stale |-> FALSE]

Full == 4

Started == [pc |-> "wait", timer |-> TRUE, id |-> 0, profile |-> "none", attempts |-> 0,
            undo |-> FALSE]

\* wanted is what the database holds.
RouteInit ==
  /\ wanted \in Profiles \cup {"none"}
  /\ trigger = FALSE /\ health = TRUE /\ listening = TRUE
  /\ runs = <<>> /\ route = 0 /\ rules = NoRules /\ current = 0
  /\ lock = 0 /\ operation = "free"
  /\ monitor = Started /\ main = [pc |-> "run", id |-> 0]
  /\ panel = "idle"

Up == main.pc # "down"

Alive(i) == i # 0 /\ ~runs[i].cancel /\ runs[i].child = "up"

-----------------------------------------------------------------------------
\* The rules of the kernel

\* tproxy_interception_present: the two mangle rules and the policy rule.
Present(i) == rules.port = i /\ rules.level >= 2 /\ rules.shared

\* add_tproxy_shared_rules, and cleanup_stale_tproxy_rules, with which add_tproxy_rules begins
Cleared == [NoRules EXCEPT !.shared = TRUE]

\* The rules are put in one after the other: all of them, or those before one that fails.
Installed(i, level) == [Cleared EXCEPT !.port = i, !.level = level, !.late = runs[i].cancel]

-----------------------------------------------------------------------------
\* The monitor loop

MonitorUnchanged == UNCHANGED <<wanted, listening, main, panel>>

Go(m) == monitor' = m
WaitFor(timer) == Go([Started EXCEPT !.timer = timer]) /\ operation' = "free"

MonitorWakes ==
  /\ Up /\ monitor.pc = "wait" /\ operation = "free"
  /\ \/ trigger /\ trigger' = FALSE
     \/ monitor.timer /\ UNCHANGED trigger
  /\ operation' = "monitor"
  /\ Go([monitor EXCEPT !.pc = "read"])
  /\ UNCHANGED <<health, runs, route, rules, current, lock, left>> /\ MonitorUnchanged

\* The route is taken out, to be deactivated.
TakeRoute(timer) ==
  /\ route' = 0
  /\ Go([monitor EXCEPT !.pc = "stop", !.id = route, !.timer = timer])
  /\ UNCHANGED operation

\* The setting against the route.  is_alive cancels a route whose child is gone.
MonitorReads ==
  /\ Up /\ monitor.pc = "read"
  /\ health' = (health \/ wanted = "none")
  /\ \/ wanted = "none" /\ route = 0 /\ WaitFor(FALSE) /\ UNCHANGED <<route, runs>>
     \/ wanted = "none" /\ route # 0 /\ TakeRoute(FALSE) /\ UNCHANGED runs
     \/ /\ wanted # "none"
        /\ \/ /\ route = 0 \/ (Alive(route) /\ runs[route].profile = wanted)
              /\ Go([monitor EXCEPT !.pc = "probe", !.profile = wanted])
              /\ UNCHANGED <<route, operation, runs>>
           \/ /\ route # 0 /\ Alive(route) /\ runs[route].profile # wanted
              /\ TakeRoute(TRUE) /\ UNCHANGED runs
           \/ /\ route # 0 /\ ~Alive(route)
              /\ TakeRoute(TRUE) /\ runs' = [runs EXCEPT ![route].cancel = TRUE]
  /\ UNCHANGED <<trigger, rules, current, lock, left>> /\ MonitorUnchanged

\* port_is_listening
MonitorProbes ==
  /\ Up /\ monitor.pc = "probe"
  /\ health' = IF route = 0 THEN health /\ listening ELSE listening
  /\ \/ listening /\ route # 0 /\ WaitFor(TRUE) /\ UNCHANGED route
     \/ ~listening /\ route # 0 /\ TakeRoute(TRUE)
     \/ ~listening /\ route = 0 /\ WaitFor(TRUE) /\ UNCHANGED route
     \/ /\ listening /\ route = 0
        /\ Go([monitor EXCEPT !.pc = "start"]) /\ UNCHANGED <<route, operation>>
  /\ UNCHANGED <<trigger, runs, rules, current, lock, left>> /\ MonitorUnchanged

NewRun(child) == [profile |-> monitor.profile, child |-> child, cancel |-> FALSE, dog |-> "off"]

\* ProxyRoute::connect: the SOCKS5 server is asked for an association, then a child is
\* started; when its port is taken, another with the next runtime id.
ChildStarts ==
  /\ Up /\ monitor.pc = "start"
  /\ runs' = Append(runs, NewRun("up"))
  /\ Go([monitor EXCEPT !.pc = "activate", !.id = Len(runs) + 1])
  /\ UNCHANGED <<trigger, health, route, rules, current, lock, operation, left>> /\ MonitorUnchanged

ChildStartFails ==
  /\ Up /\ monitor.pc = "start" /\ Spend("failures")
  /\ \/ /\ runs' = Append(runs, NewRun("gone"))
        /\ monitor.attempts + 1 < TPROXY_START_ATTEMPTS
        /\ Go([monitor EXCEPT !.attempts = @ + 1])
        /\ UNCHANGED <<health, operation>>
     \/ health' = FALSE /\ WaitFor(TRUE) /\ UNCHANGED runs
  /\ UNCHANGED <<trigger, route, rules, current, lock>> /\ MonitorUnchanged

\* activate_tproxy, under POLICY_LOCK
Activate ==
  /\ Up /\ monitor.pc = "activate" /\ lock = 0
  /\ lock' = monitor.id /\ rules' = Cleared
  /\ Go([monitor EXCEPT !.pc = "install"])
  /\ UNCHANGED <<trigger, health, runs, route, current, operation, left>> /\ MonitorUnchanged

\* ... and with it the route is there and has a watchdog.
RouteReady ==
  /\ Up /\ monitor.pc = "install"
  /\ rules' = Installed(monitor.id, Full) /\ current' = monitor.id /\ lock' = 0
  /\ route' = monitor.id /\ health' = TRUE
  /\ runs' = [runs EXCEPT ![monitor.id].dog = "idle"]
  /\ WaitFor(TRUE)
  /\ UNCHANGED <<trigger, left>> /\ MonitorUnchanged

\* A command fails: the child is stopped and what was put in is taken out again.
ActivateFails ==
  /\ Up /\ monitor.pc = "install" /\ Spend("failures")
  /\ \E level \in 0 .. Full - 1 : rules' = Installed(monitor.id, level)
  /\ lock' = 0
  /\ Go([monitor EXCEPT !.pc = "stop", !.timer = TRUE, !.undo = TRUE])
  /\ UNCHANGED <<trigger, health, runs, route, current, operation>> /\ MonitorUnchanged

\* deactivate: the token, then the child, killed and waited for;
StopChild(i) == runs' = [runs EXCEPT ![i].cancel = TRUE, ![i].child = "gone"]

\* then the rules, if they are still this route's.
\* A bug the code does not have: also after an activation that failed.
CleanUpOwn(i, undo) ==
  /\ lock = 0
  /\ rules' = IF current = i THEN NoRules ELSE rules
  /\ current' = IF current = i THEN 0 ELSE current

CleanUp(i, undo) ==
  /\ lock = 0
  /\ rules' = IF undo \/ current = i THEN NoRules ELSE rules
  /\ current' = IF ~undo /\ current = i THEN 0 ELSE current

MonitorStops ==
  /\ Up /\ monitor.pc = "stop"
  /\ StopChild(monitor.id)
  /\ Go([monitor EXCEPT !.pc = "clean"])
  /\ UNCHANGED <<trigger, health, route, rules, current, lock, operation, left>> /\ MonitorUnchanged

MonitorCleans ==
  /\ Up /\ monitor.pc = "clean"
  /\ CleanUp(monitor.id, monitor.undo)
  /\ health' = (health /\ ~monitor.undo)
  /\ WaitFor(monitor.timer)
  /\ UNCHANGED <<trigger, runs, route, lock, left>> /\ MonitorUnchanged

Monitor ==
  \/ MonitorWakes \/ MonitorReads \/ MonitorProbes \/ ChildStarts \/ Activate \/ RouteReady
  \/ MonitorStops \/ MonitorCleans

-----------------------------------------------------------------------------
\* The watchdog of a route

DogUnchanged ==
  UNCHANGED <<wanted, trigger, health, listening, route, current, operation, monitor, main, panel>>

\* Its timer, which is a minute away again after every look: a route that was cancelled
\* meanwhile gets no other.
DogTicks(i) ==
  /\ Up /\ runs[i].dog = "idle" /\ ~runs[i].cancel
  /\ runs' = [runs EXCEPT ![i].dog = "look"]
  /\ UNCHANGED <<rules, lock, left>> /\ DogUnchanged

\* A bug the code does not have: the rules of any port will do.
DogLooksAtAny(i) ==
  /\ Up /\ runs[i].dog = "look"
  /\ runs' = [runs EXCEPT ![i].dog = IF rules.port # 0 THEN "idle" ELSE "repair"]
  /\ UNCHANGED <<rules, lock, left>> /\ DogUnchanged

\* It looks whether the rules are there, without the lock.
DogLooks(i) ==
  /\ Up /\ runs[i].dog = "look"
  /\ runs' = [runs EXCEPT ![i].dog = IF Present(i) THEN "idle" ELSE "repair"]
  /\ UNCHANGED <<rules, lock, left>> /\ DogUnchanged

DogEnds(i) ==
  /\ Up /\ runs[i].dog = "idle" /\ runs[i].cancel
  /\ runs' = [runs EXCEPT ![i].dog = "off"]
  /\ UNCHANGED <<rules, lock, left>> /\ DogUnchanged

\* If not, it puts them in again, whatever has become of its route meanwhile.
DogLocks(i) ==
  /\ Up /\ runs[i].dog = "repair" /\ lock = 0
  /\ lock' = i /\ rules' = Cleared
  /\ UNCHANGED <<runs, left>> /\ DogUnchanged

DogInstalls(i) ==
  /\ Up /\ runs[i].dog = "repair" /\ lock = i
  /\ rules' = Installed(i, Full) /\ lock' = 0
  /\ runs' = [runs EXCEPT ![i].dog = "idle"]
  /\ UNCHANGED left /\ DogUnchanged

DogFails(i) ==
  /\ Up /\ runs[i].dog = "repair" /\ lock = i /\ Spend("failures")
  /\ \E level \in 0 .. Full - 1 : rules' = Installed(i, level)
  /\ lock' = 0
  /\ runs' = [runs EXCEPT ![i].dog = "idle"]
  /\ DogUnchanged

Dog(i) == DogTicks(i) \/ DogLooks(i) \/ DogEnds(i) \/ DogLocks(i) \/ DogInstalls(i)

-----------------------------------------------------------------------------
\* The panel: local_proxy_activate, _deactivate, _update and _delete of the active profile

PanelUnchanged ==
  UNCHANGED <<health, listening, runs, route, rules, current, lock, operation, monitor, main>>

PanelWrites ==
  /\ Up /\ panel = "idle" /\ Spend("edits")
  /\ wanted' \in Profiles \cup {"none"}
  /\ panel' = "saving"
  /\ UNCHANGED trigger /\ PanelUnchanged

\* notify_one: the trigger is kept for a monitor that is busy.
PanelAnnounces ==
  /\ Up /\ panel = "saving"
  /\ trigger' = TRUE
  /\ panel' = "waiting"
  /\ UNCHANGED <<wanted, left>> /\ PanelUnchanged

\* wait_for_persistence fails: the request ends, the setting stays as it is in memory.
PanelFails ==
  /\ Up /\ panel = "saving" /\ Spend("failures")
  /\ panel' = "idle"
  /\ UNCHANGED <<wanted, trigger>> /\ PanelUnchanged

\* wait_proxy_route_applied: by what it sees of the route and its health, or too late.
PanelAnswers ==
  /\ Up /\ panel = "waiting"
  /\ panel' = "idle"
  /\ UNCHANGED <<wanted, trigger, left>> /\ PanelUnchanged

-----------------------------------------------------------------------------
\* The end and the start of the server

MainUnchanged == UNCHANGED <<wanted, trigger, health, listening, panel>>

Shutdown ==
  /\ main.pc = "run" /\ operation = "free" /\ Spend("ends")
  /\ operation' = IF route = 0 THEN "free" ELSE "main"
  /\ main' = [pc |-> IF route = 0 THEN "exit" ELSE "stop", id |-> route]
  /\ route' = 0
  /\ UNCHANGED <<runs, rules, current, lock, monitor>> /\ MainUnchanged

MainStops ==
  /\ main.pc = "stop"
  /\ StopChild(main.id)
  /\ main' = [main EXCEPT !.pc = "clean"]
  /\ UNCHANGED <<route, rules, current, lock, operation, monitor, left>> /\ MainUnchanged

MainCleans ==
  /\ main.pc = "clean"
  /\ CleanUp(main.id, FALSE)
  /\ main' = [main EXCEPT !.pc = "exit"] /\ operation' = "free"
  /\ UNCHANGED <<runs, route, lock, monitor, left>> /\ MainUnchanged

\* The process ends, also by a crash, with every task where it is; its children go with it,
\* the rules stay.
Down ==
  /\ main' = [pc |-> "down", id |-> 0]
  /\ runs' = [i \in DOMAIN runs |-> [runs[i] EXCEPT !.cancel = TRUE, !.child = "gone", !.dog = "off"]]
  /\ route' = 0 /\ current' = 0 /\ lock' = 0 /\ operation' = "free"
  /\ monitor' = Started /\ trigger' = FALSE /\ health' = TRUE
  /\ panel' = "idle"
  /\ UNCHANGED <<wanted, listening, rules>>

Exit == main.pc = "exit" /\ Down /\ UNCHANGED left
Crash == main.pc \in {"run", "stop", "clean"} /\ Spend("ends") /\ Down

\* cleanup_orphaned_policy has one second.
Startup ==
  /\ main.pc = "down"
  /\ main' = [pc |-> "run", id |-> 0]
  /\ \/ rules' = NoRules /\ UNCHANGED left
     \/ Spend("failures") /\ rules' = [rules EXCEPT !.stale = rules.port # 0]
  /\ UNCHANGED <<runs, route, current, lock, operation, monitor>> /\ MainUnchanged

-----------------------------------------------------------------------------
\* The world (external)

WorldUnchanged ==
  UNCHANGED <<wanted, trigger, health, route, current, lock, operation, monitor, main, panel>>

PortFlips ==
  /\ Spend("flips") /\ listening' = ~listening
  /\ UNCHANGED <<runs, rules>> /\ WorldUnchanged

ChildDies(i) ==
  /\ runs[i].child = "up" /\ Spend("deaths")
  /\ runs' = [runs EXCEPT ![i].child = "gone"]
  /\ UNCHANGED <<listening, rules>> /\ WorldUnchanged

\* The firewall is reloaded: the rules of its tables are gone.
Reload ==
  /\ rules.port # 0 /\ lock = 0 /\ Spend("reloads")
  /\ rules' = [NoRules EXCEPT !.shared = rules.shared]
  /\ UNCHANGED <<listening, runs>> /\ WorldUnchanged

RouteNext ==
  \/ Monitor \/ ChildStartFails \/ ActivateFails
  \/ \E i \in DOMAIN runs : Dog(i) \/ DogFails(i) \/ ChildDies(i)
  \/ PanelWrites \/ PanelAnnounces \/ PanelFails \/ PanelAnswers
  \/ Shutdown \/ MainStops \/ MainCleans \/ Exit \/ Crash \/ Startup
  \/ PortFlips \/ Reload

\* The tasks of a server that runs go on; a watchdog looks again and again.
RouteFairness ==
  /\ WF_rvars(Monitor) /\ WF_rvars(PanelAnnounces)
  /\ WF_rvars(MainStops) /\ WF_rvars(MainCleans) /\ WF_rvars(Exit) /\ WF_rvars(Startup)
  /\ \A i \in RuntimeIds : WF_rvars(i \in DOMAIN runs /\ Dog(i))

-----------------------------------------------------------------------------
\* Properties

\* Rules that a watchdog put in for a route that had gone, or that an earlier server left.
Misplaced == rules.late \/ rules.stale

\* Traffic is intercepted only for the route there is: while nobody works on it, rules lead
\* to the route of proxy_route, and without a route there are none, whatever failed half-way
\* (connect, deactivate, cleanup_shared_policy).
RulesAreOfRoute ==
  main.pc = "run" /\ monitor.pc = "wait" /\ lock = 0 /\ ~Misplaced
    => rules.port \in {0, route}

\* A route whose rules vanish gets them back, also from a watchdog of an older route that
\* replaced them with its own (spawn_rule_watchdog).
RulesComeBack == (route # 0 /\ ~Present(route)) ~> (route = 0 \/ Present(route))

=============================================================================
