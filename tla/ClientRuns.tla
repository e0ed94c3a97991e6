------------------------------- MODULE ClientRuns -------------------------------
(***************************************************************************)
(* The runs of the client and what they do to the system (runner.rs,         *)
(* tunnel/native_handler.rs of ostp-client; linux.rs, windows.rs and         *)
(* windows_route.rs of ostp-tun): run_client_core starts run after run, a     *)
(* run starts a bridge, a proxy and a TUN task, and the TUN task takes the   *)
(* default route for a device and gives it back.  The process may be killed  *)
(* at any step.  macOS differs from Linux in the commands only.              *)
(***************************************************************************)
EXTENDS Naturals, FiniteSets

CONSTANTS
  Runs,         \* bound: 1..n, the last of them has no failures
  Defaults      \* default routes a system may have: sets of [dest, via, metric]

VARIABLES
  setup,        \* what the client was started with: platform, kill_switch, defaults
  asked,        \* an explicit shutdown was requested
  core,         \* run_client_core: where it is, in which run, the task it saw end
  told,         \* the runs whose shutdown watch fired
  task,         \* per run: bridge and proxy, "none", "on", "ok", "err"
  tun,          \* per run: the step of the TUN task, and the gateway it found
  device,       \* the runs whose tasks hold the TUN device
  routes,       \* the routing table: [dest, via, metric]
  later         \* Windows: commands given to a thread nobody waits for

clientRuns == <<setup, asked, core, told, task, tun, device, routes, later>>

Route(dest, via, metric) == [dest |-> dest, via |-> via, metric |-> metric]
NoRoute == Route("none", "none", 0)
Linux == setup.platform = "linux"
Last == CHOOSE r \in Runs : \A q \in Runs : q <= r

(* Runs are numbered from 1.  A system has finitely many default routes, no   *)
(* two of one metric, through gateways of its own.                            *)
Valid ==
  /\ Runs \subseteq Nat \ {0} /\ \E n \in Runs : Runs = 1..n
  /\ \A routing \in Defaults :
       /\ IsFiniteSet(routing)
       /\ \A r \in routing : r = Route("default", r.via, r.metric) /\ r.metric \in Nat
                              /\ r.via \notin {"tun", "blackhole"}
       /\ \A r, q \in routing : r.metric = q.metric => r = q

Init ==
  /\ setup \in [platform : {"linux", "windows"}, kill_switch : BOOLEAN, defaults : Defaults]
  /\ asked = FALSE /\ core = [at |-> "check", run |-> 1, saw |-> "none"]
  /\ told = {} /\ task = [r \in Runs |-> [bridge |-> "none", proxy |-> "none"]]
  /\ tun = [r \in Runs |-> [at |-> "none", gateway |-> NoRoute]]
  /\ device = {} /\ routes = setup.defaults /\ later = {}

--------------------------------------------------------------------------------
(* run_client_core and run_client_once.                                      *)

System == <<device, routes, later>>
Resolve(works) ==
  /\ core.at = "check" /\ ~asked /\ (works \/ core.run < Last)
  /\ IF works
       THEN /\ core' = [core EXCEPT !.at = "once", !.saw = "none"]
            /\ task' = [task EXCEPT ![core.run] = [bridge |-> "on", proxy |-> "on"]]
            /\ tun' = [tun EXCEPT ![core.run].at = "prepare"]
       ELSE core' = [core EXCEPT !.at = "waiting"] /\ UNCHANGED <<task, tun>>
  /\ UNCHANGED <<setup, asked, told, System>>

StateOf(r, t) == IF t # "tun" THEN task[r][t]
                 ELSE CASE tun[r].at \in {"ok", "err"} -> tun[r].at [] OTHER -> "on"

(* Mutant: a run ends without telling its tasks.                             *)
NoticedUntold ==
  /\ core.at = "once" /\ asked
  /\ core' = [core EXCEPT !.at = "joining"]
  /\ UNCHANGED <<setup, asked, told, task, tun, System>>
(* The select of run_client_once.  An error leaves it at once: the other      *)
(* tasks are told to stop and not waited for.  Otherwise they are, and the   *)
(* task that was seen to end is waited for again, which panics.              *)
Noticed ==
  /\ core.at = "once"
  /\ told' = told \cup {core.run}
  /\ \/ /\ asked
        /\ core' = [core EXCEPT !.at = "joining"]
     \/ \E t \in {"bridge", "proxy", "tun"} :
          \/ /\ StateOf(core.run, t) = "err"
             /\ core' = [core EXCEPT !.at = IF asked THEN "done" ELSE "waiting"]
          \/ /\ StateOf(core.run, t) = "ok"
             /\ core' = [core EXCEPT !.at = "joining", !.saw = t]
  /\ UNCHANGED <<setup, asked, task, tun, System>>

Over(r, t) == StateOf(r, t) \in {"ok", "err"}
Before(t) == CASE t = "bridge" -> {} [] t = "proxy" -> {"bridge"} [] t = "tun" -> {"bridge", "proxy"}
               [] OTHER -> {"bridge", "proxy", "tun"}
Joined ==
  /\ core.at = "joining"
  /\ \A t \in Before(core.saw) : Over(core.run, t)
  /\ core' = [core EXCEPT !.at = IF core.saw # "none" THEN "panicked"
                                 ELSE IF asked THEN "done" ELSE "waiting"]
  /\ UNCHANGED <<setup, asked, told, task, tun, System>>

(* Mutant: the backoff only ends when asked to.                              *)
WaitedUntilAsked ==
  /\ core.at = "waiting" /\ asked
  /\ core' = [core EXCEPT !.at = "done"]
  /\ UNCHANGED <<setup, asked, told, task, tun, System>>
(* The backoff, 1 to 30 s; a shutdown ends it.                               *)
Waited ==
  /\ core.at = "waiting"
  /\ IF asked THEN core' = [core EXCEPT !.at = "done"]
     ELSE core.run < Last /\ core' = [core EXCEPT !.at = "check", !.run = @ + 1]
  /\ UNCHANGED <<setup, asked, told, task, tun, System>>

Checked ==
  /\ core.at = "check" /\ asked
  /\ core' = [core EXCEPT !.at = "done"]
  /\ UNCHANGED <<setup, asked, told, task, tun, System>>

Ask == ~asked /\ asked' = TRUE /\ UNCHANGED <<setup, core, told, task, tun, System>>

(* The bridge stops for the command a shutdown sends it as well as for the    *)
(* watch.  The last run of the model has no failure of its own.              *)
TaskEnds(r, t) ==
  /\ task[r][t] = "on"
  /\ \/ (r \in told \/ (t = "bridge" /\ asked /\ r = core.run)) /\ task' = [task EXCEPT ![r][t] = "ok"]
     \/ r < Last /\ task' = [task EXCEPT ![r][t] = "err"]
  /\ UNCHANGED <<setup, asked, core, told, tun, System>>

Core == Noticed \/ Joined \/ Waited \/ Checked \/ (\E works \in BOOLEAN : Resolve(works))

--------------------------------------------------------------------------------
(* The TUN task: one operating system command per step.                      *)

TunStep(r) == UNCHANGED <<setup, asked, core, told, task>>
Goes(r, at) == tun' = [tun EXCEPT ![r].at = at]

(* ip route add refuses a second route of the same destination and metric;   *)
(* ip route del takes the one of the lowest metric.  Windows purges first.   *)
Added(new) == IF Linux /\ \E r \in routes : r.dest = new.dest /\ r.metric = new.metric
              THEN routes ELSE routes \cup {new}
Purged(dest) == {r \in routes : r.dest # dest}
Best(rs) == {r \in rs : \A q \in rs : r.metric <= q.metric}
Deleted(rs) == IF rs = {} THEN routes ELSE routes \ {CHOOSE r \in Best(rs) : TRUE}
OutOfTun == {r \in routes : r.dest = "default" /\ r.via \notin {"tun", "blackhole"}}

(* The prompt, the names: refused or not resolved.                           *)
Prepare(r) ==
  /\ tun[r].at = "prepare"
  /\ \/ Goes(r, IF Linux THEN "device" ELSE "routes")
     \/ r < Last /\ Goes(r, "err")
  /\ TunStep(r) /\ UNCHANGED System

(* Linux has one opener of the device; Windows opens the adapter again, or    *)
(* fails after five attempts.                                                *)
Create(r) ==
  /\ tun[r].at = "device"
  /\ \/ /\ device = {} \/ ~Linux
        /\ device' = device \cup {r}
        /\ Goes(r, IF Linux THEN "routes" ELSE "default")
     \/ (device # {} \/ r < Last) /\ Goes(r, "err") /\ UNCHANGED device
  /\ TunStep(r) /\ UNCHANGED <<routes, later>>

(* The bypass of the server and of the excluded addresses.                   *)
Bypass(r) ==
  /\ tun[r].at = "routes"
  /\ IF OutOfTun = {}
       THEN Goes(r, IF Linux THEN "up" ELSE "err") /\ UNCHANGED routes
       ELSE LET gateway == CHOOSE g \in Best(OutOfTun) : TRUE IN
            /\ tun' = [tun EXCEPT ![r] = [at |-> IF Linux THEN "default" ELSE "device",
                                          gateway |-> gateway]]
            /\ routes' = IF Linux THEN Added(Route("server", gateway.via, 0))
                         ELSE Purged("server") \cup {Route("server", gateway.via, 1)}
  /\ TunStep(r) /\ UNCHANGED <<device, later>>

Default(r) ==
  /\ tun[r].at = "default" /\ Goes(r, "original")
  /\ routes' = Added(Route("default", "tun", IF Linux THEN 0 ELSE 5))
  /\ TunStep(r) /\ UNCHANGED <<device, later>>

(* Mutant: the deletion names a metric the route has not.                    *)
OriginalOfOtherMetric(r) ==
  /\ tun[r].at = "original" /\ Goes(r, "up")
  /\ routes' = IF setup.kill_switch /\ Linux THEN Deleted({g \in OutOfTun : g.metric > 0}) ELSE routes
  /\ TunStep(r) /\ UNCHANGED <<device, later>>
(* The kill switch.                                                          *)
Original(r) ==
  /\ tun[r].at = "original" /\ Goes(r, "up")
  /\ IF setup.kill_switch /\ Linux
       THEN routes' = Deleted({g \in OutOfTun : g.via = tun[r].gateway.via}) /\ UNCHANGED later
       ELSE /\ later' = IF setup.kill_switch THEN later \cup {[run |-> r, op |-> "block"]} ELSE later
            /\ UNCHANGED routes
  /\ TunStep(r) /\ UNCHANGED device

(* Told to stop, or one of the five tasks ended: the device was removed, the *)
(* netstack stopped.  None of them is aborted, they keep the device.         *)
Leave(r) ==
  /\ tun[r].at = "up" /\ (r \in told \/ r < Last) /\ Goes(r, "leaving")
  /\ TunStep(r) /\ UNCHANGED System

(* Mutant: the server route goes before the default route.                   *)
DropServerFirst(r) ==
  /\ tun[r].at = "leaving" /\ Goes(r, "bare")
  /\ routes' = {d \in routes : d.dest # "server"}
  /\ TunStep(r) /\ UNCHANGED <<device, later>>
(* Drop of the route guard.                                                  *)
DropDefault(r) ==
  /\ tun[r].at = "leaving" /\ Goes(r, "bare")
  /\ IF Linux THEN routes' = Deleted({d \in routes : d.dest = "default" /\ d.via = "tun"})
              ELSE UNCHANGED routes
  /\ TunStep(r) /\ UNCHANGED <<device, later>>

DropServer(r) ==
  /\ tun[r].at = "bare" /\ Goes(r, "last")
  /\ routes' = {d \in routes : d.dest # "server" \/ (~Linux /\ d.via # tun[r].gateway.via)}
  /\ TunStep(r) /\ UNCHANGED <<device, later>>

(* Mutant: the original default route is not put back.                       *)
NotReinstated(r) == routes
Reinstated(r) == IF tun[r].gateway = NoRoute THEN routes
                 ELSE Added(Route("default", tun[r].gateway.via, 0))
Restore(r) ==
  /\ tun[r].at = "last" /\ Goes(r, "ok")
  /\ IF setup.kill_switch /\ Linux
       THEN routes' = Reinstated(r) /\ UNCHANGED later
       ELSE /\ later' = IF setup.kill_switch THEN later \cup {[run |-> r, op |-> "unblock"]} ELSE later
            /\ UNCHANGED routes
  /\ TunStep(r) /\ UNCHANGED device

Tun(r) == \/ Prepare(r) \/ Create(r) \/ Bypass(r) \/ Default(r) \/ Original(r)
          \/ Leave(r) \/ DropDefault(r) \/ DropServer(r) \/ Restore(r)

Later(c) ==
  /\ c \in later /\ later' = later \ {c}
  /\ LET block == Route("default", "blackhole", 10)
     IN routes' = IF c.op = "block" THEN routes \cup {block} ELSE routes \ {block}
  /\ UNCHANGED <<setup, asked, core, told, task, tun, device>>

(* What a process leaves when it is gone: the device and its routes are not.  *)
Left == routes' = {r \in routes : r.via # "tun"}
Gone == device' = {} /\ later' = {} /\ Left

(* The tasks of an earlier run let go of the device: nothing makes them.     *)
Release(r) ==
  /\ r \in device /\ tun[r].at = "ok" /\ device' = device \ {r}
  /\ IF device' = {} THEN Left ELSE UNCHANGED routes
  /\ UNCHANGED <<setup, asked, core, told, task, tun, later>>

Exit ==
  /\ core.at \in {"done", "panicked"} /\ \A r \in Runs : tun[r].at \in {"none", "ok", "err"}
  /\ core' = [core EXCEPT !.at = "exited"] /\ Gone
  /\ UNCHANGED <<setup, asked, told, task, tun>>

Killed ==
  /\ core.at \notin {"exited", "killed"}
  /\ core' = [core EXCEPT !.at = "killed"] /\ Gone
  /\ tun' = [r \in Runs |-> [tun[r] EXCEPT !.at = IF @ = "up" THEN "cut" ELSE "ok"]]
  /\ task' = [r \in Runs |-> [bridge |-> "ok", proxy |-> "ok"]]
  /\ UNCHANGED <<setup, asked, told>>

Next == \/ Core \/ Ask \/ Exit \/ Killed
        \/ \E r \in Runs : TaskEnds(r, "bridge") \/ TaskEnds(r, "proxy") \/ Tun(r) \/ Release(r)
        \/ \E c \in later : Later(c)

--------------------------------------------------------------------------------
(* On Linux, whenever the default route leads into the tunnel, the server is  *)
(* reached past it: the packets of the tunnel never enter the tunnel.        *)
ServerOutsideTunnel ==
  Linux /\ Route("default", "tun", 0) \in routes => \E r \in routes : r.dest = "server"

(* On Linux, once the client stopped as it was asked to, the way out of the   *)
(* system is the one it found, and nothing of its own is left.               *)
RoutesRestored ==
  Linux /\ core.at = "exited" =>
    /\ {r.via : r \in routes} = {r.via : r \in setup.defaults}
    /\ \A r \in routes : r.dest = "default"

(* On Linux the kill switch leaves one way out, the tunnel, and none when the *)
(* process is killed under it ("block traffic if VPN drops").                *)
KillSwitchBlocks ==
  Linux /\ setup.kill_switch /\ Cardinality(setup.defaults) = 1
    /\ (\E r \in Runs : tun[r].at \in {"up", "cut"} /\ tun[r].gateway # NoRoute) => OutOfTun = {}

(* A shutdown ends the client, wherever it is: in a run, in one that failed,  *)
(* in the wait for the next.                                                 *)
StopsWhenAsked == asked ~> core.at \in {"done", "panicked", "exited", "killed"}

(* A run that failed is followed by another.                                 *)
ComesBack == (core.at = "waiting" /\ core.run < Last) ~> (core.at # "waiting")

(* "Only an explicit shutdown request stops this loop."                      *)
OnlyShutdownStops == core.at \in {"done", "panicked"} => asked

(* "a full clean restart (... fresh TUN/proxy)": no earlier run has the       *)
(* device when the next one creates it.                                      *)
FreshTun == \A r \in Runs : tun[r].at = "device" => device = {}

(* The routes: the server past the tunnel, everything else by the kill switch *)
(* into it, and as they were found when the tunnel is gone.                   *)
RoutesSound == ServerOutsideTunnel /\ KillSwitchBlocks /\ RoutesRestored

(* The loop of runs goes on until it is asked to stop, and then stops.        *)
RunsGoOn == ComesBack /\ StopsWhenAsked
================================================================================
