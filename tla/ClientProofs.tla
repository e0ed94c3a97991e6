------------------------------ MODULE ClientProofs ------------------------------
(* The flows of the client and the routes of its runs are sound, for every    *)
(* value of the constants of the parts.                                       *)
EXTENDS ClientParts, Sequences, FiniteSets, Functions, FiniteSetTheorems, SequenceTheorems, NaturalsInduction,
         WellFoundedInduction, TLAPS

--------------------------------------------------------------------------------
(* The routes.                                                                *)

TunRoute == Runs!Route("default", "tun", 0)
Vias(some) == {r.via : r \in some}

(* What may be a way out of the system: a default route through one of the    *)
(* gateways it had.                                                           *)
WayOut == [dest : {"default"}, via : Vias(setup.defaults), metric : Nat]

CoreSteps == {"check", "once", "joining", "waiting", "done", "panicked", "exited", "killed"}
TunSteps ==
  {"none", "prepare", "device", "routes", "default", "original", "up", "leaving", "bare", "last",
   "ok", "err", "cut"}

RoutesTyped ==
  /\ setup.defaults \in Defaults
  /\ core \in [at : CoreSteps, run : AllRuns, saw : {"none", "bridge", "proxy", "tun"}]
  /\ tun \in [AllRuns -> [at : TunSteps, gateway : WayOut \cup {Runs!NoRoute}]]
  /\ device \subseteq AllRuns /\ later = {}

(* A TUN task that has the device has it alone, and it keeps it.              *)
InTun == {"routes", "default", "original", "up", "leaving", "bare", "last"}
Holding ==
  /\ \A r \in AllRuns : tun[r].at \in InTun => device = {r}
  /\ \A r \in AllRuns : tun[r].at \in {"none", "prepare", "device", "routes"} =>
       tun[r].gateway = Runs!NoRoute

(* A run begins with a task of its own; nothing happens in a process that is  *)
(* no more.                                                                   *)
Phases ==
  /\ core.at \notin {"exited", "killed"} => \A r \in AllRuns : r > core.run => tun[r].at = "none"
  /\ core.at = "check" => tun[core.run].at = "none"
  /\ core.at = "exited" => \A r \in AllRuns : tun[r].at \in {"none", "ok", "err"}
  /\ core.at = "killed" => device = {} /\ \A r \in AllRuns : tun[r].at \in {"ok", "cut"}
  /\ core.at # "killed" => \A r \in AllRuns : tun[r].at # "cut"

(* What is in the routing table, and while which step.                        *)
Table ==
  /\ \A d \in routes : d \in WayOut \/ d = TunRoute \/ d.dest = "server"
  /\ \A d, e \in routes : d.dest = "default" /\ e.dest = "default" /\ d.metric = e.metric => d = e
  /\ TunRoute \in routes =>
       \E r \in AllRuns : tun[r].at \in {"original", "up", "leaving"} /\ tun[r].gateway # Runs!NoRoute
  /\ (\E d \in routes : d.dest = "server") /\ core.at # "killed" =>
       \E r \in AllRuns : tun[r].at \in {"default", "original", "up", "leaving", "bare"}

(* The gateways of the system are those it had, and what a kill switch took   *)
(* away its task knows.                                                       *)
Whole == Vias(Runs!OutOfTun) = Vias(setup.defaults)
Lacking(gateway) ==
  /\ Vias(Runs!OutOfTun) \cup {gateway.via} = Vias(setup.defaults)
  /\ \A d \in Runs!OutOfTun : d.metric # 0
Blocking(r) == setup.kill_switch /\ tun[r].gateway # Runs!NoRoute

Stage(r) ==
  /\ tun[r].at \in {"routes", "default", "original"} => Whole
  /\ tun[r].at \in {"default", "original"} =>
       tun[r].gateway \in Runs!OutOfTun /\ \A d \in Runs!OutOfTun : tun[r].gateway.metric <= d.metric
  /\ tun[r].at \in {"default", "original", "up", "leaving"} /\ tun[r].gateway # Runs!NoRoute =>
       \E d \in routes : d.dest = "server"
  /\ tun[r].at \in {"up", "leaving", "bare", "last"} =>
       IF Blocking(r) THEN Lacking(tun[r].gateway) ELSE Whole

Resting == core.at # "killed" /\ (\A r \in AllRuns : tun[r].at \notin InTun) => Whole

(* A system with one way out has no other, and none under the kill switch.    *)
OneWayOut ==
  (\E d \in setup.defaults : setup.defaults = {d}) =>
    /\ \A d, e \in Runs!OutOfTun : d = e
    /\ \A r \in AllRuns : tun[r].at \in {"up", "leaving", "bare", "last", "cut"} /\ Blocking(r) =>
         Runs!OutOfTun = {}

RoutesInv ==
  RoutesTyped /\ Holding /\ Phases /\ Table /\ (\A r \in AllRuns : Stage(r)) /\ Resting /\ OneWayOut

LEMMA LastRun ==
  ASSUME Runs!Valid
  PROVE  /\ AllRuns \subseteq Nat \ {0} /\ 1 \in AllRuns /\ Runs!Last \in AllRuns
         /\ \A r \in AllRuns : r <= Runs!Last /\ (r < Runs!Last => r + 1 \in AllRuns)
<1>1. PICK n \in AllRuns : AllRuns = 1..n
  BY DEF Runs!Valid
<1>2. n \in Nat \ {0}
  BY DEF Runs!Valid
<1>3. \A r \in AllRuns : r <= n
  BY <1>1, <1>2
<1>4. Runs!Last \in AllRuns /\ \A q \in AllRuns : q <= Runs!Last
  BY <1>3 DEF Runs!Last
<1>5. Runs!Last = n
  BY <1>1, <1>2, <1>3, <1>4
<1> QED BY <1>1, <1>2, <1>4, <1>5

LEMMA WaysFound ==
  ASSUME Runs!Valid, setup.defaults \in Defaults
  PROVE  /\ setup.defaults \subseteq WayOut /\ IsFiniteSet(setup.defaults)
         /\ \A d \in WayOut : d.dest = "default" /\ d.via \notin {"tun", "blackhole"} /\ d # Runs!NoRoute
         /\ \A d, e \in setup.defaults : d.metric = e.metric => d = e
<1> DEFINE D == setup.defaults
<1>0. Runs!IsFiniteSet(D) <=> IsFiniteSet(D)
  BY DEF Runs!IsFiniteSet, IsFiniteSet
<1>1. /\ IsFiniteSet(D)
      /\ \A r \in D : r = Runs!Route("default", r.via, r.metric) /\ r.metric \in Nat
                      /\ r.via \notin {"tun", "blackhole"}
      /\ \A r, q \in D : r.metric = q.metric => r = q
  BY <1>0 DEF Runs!Valid
<1>2. \A r \in D : r \in WayOut
  <2> TAKE r \in D
  <2>1. r.via \in Vias(setup.defaults)
    BY DEF Vias
  <2>2. r.dest = "default" /\ r = [dest |-> "default", via |-> r.via, metric |-> r.metric]
    BY <1>1 DEF Runs!Route
  <2> QED BY <1>1, <2>1, <2>2 DEF WayOut
<1>3. \A v \in Vias(D) : v \notin {"tun", "blackhole"}
  BY <1>1 DEF Vias
<1>4. \A d \in WayOut : d.dest = "default" /\ d.via \in Vias(D)
  BY DEF WayOut
<1>5. Runs!NoRoute.dest = "none"
  BY DEF Runs!NoRoute, Runs!Route
<1> QED BY <1>1, <1>2, <1>3, <1>4, <1>5

(* The ways out of the tunnel are the routes through a gateway.               *)
LEMMA WaysAre ==
  ASSUME Runs!Valid, setup.defaults \in Defaults,
         \A d \in routes : d \in WayOut \/ d = TunRoute \/ d.dest = "server"
  PROVE  /\ Runs!OutOfTun = routes \cap WayOut
         /\ \A d \in routes : d.dest = "default" => d \in WayOut \/ d = TunRoute
         /\ TunRoute \notin WayOut /\ TunRoute.dest = "default" /\ TunRoute.metric = 0
<1>1. \A d \in WayOut : d.dest = "default" /\ d.via \notin {"tun", "blackhole"}
  BY WaysFound
<1>2. TunRoute.via = "tun" /\ TunRoute.dest = "default" /\ TunRoute.metric = 0
  BY DEF TunRoute, Runs!Route
<1>3. TunRoute \notin WayOut
  BY <1>1, <1>2
<1>4. \A d \in routes : d.dest = "default" => d \in WayOut \/ d = TunRoute
  OBVIOUS
<1>5. Runs!OutOfTun \subseteq routes \cap WayOut
  BY <1>2, <1>4 DEF Runs!OutOfTun
<1>6. routes \cap WayOut \subseteq Runs!OutOfTun
  BY <1>1 DEF Runs!OutOfTun
<1> QED BY <1>2, <1>3, <1>4, <1>5, <1>6

LEMMA WaysAreThen ==
  ASSUME Runs!Valid, setup.defaults \in Defaults, setup' = setup,
         \A d \in routes' : d \in WayOut \/ d = TunRoute \/ d.dest = "server"
  PROVE  Runs!OutOfTun' = routes' \cap WayOut
<1>1. \A d \in WayOut : d.dest = "default" /\ d.via \notin {"tun", "blackhole"}
  BY WaysFound
<1>2. TunRoute.via = "tun" /\ TunRoute.dest = "default"
  BY DEF TunRoute, Runs!Route
<1>3. Runs!OutOfTun' \subseteq routes' \cap WayOut
  BY <1>2 DEF Runs!OutOfTun
<1>4. routes' \cap WayOut \subseteq Runs!OutOfTun'
  BY <1>1 DEF Runs!OutOfTun
<1> QED BY <1>3, <1>4

LEMMA RoutesInvInit ==
  ASSUME Runs!Valid, Runs!Init, Runs!Linux
  PROVE  RoutesInv
<1> DEFINE D == setup.defaults
<1>1. /\ D \in Defaults /\ routes = D /\ device = {} /\ later = {}
      /\ core = [at |-> "check", run |-> 1, saw |-> "none"]
      /\ tun = [r \in AllRuns |-> [at |-> "none", gateway |-> Runs!NoRoute]]
  BY DEF Runs!Init
<1>2. /\ D \subseteq WayOut /\ \A d, e \in D : d.metric = e.metric => d = e
      /\ \A d \in WayOut : d.dest = "default"
  BY <1>1, WaysFound
<1>3. /\ Runs!OutOfTun = D /\ TunRoute \notin D
  BY <1>1, <1>2, WaysAre
<1>4. RoutesTyped
  <2>1. core \in [at : CoreSteps, run : AllRuns, saw : {"none", "bridge", "proxy", "tun"}]
    BY <1>1, LastRun DEF CoreSteps
  <2>2. tun \in [AllRuns -> [at : TunSteps, gateway : WayOut \cup {Runs!NoRoute}]]
    BY <1>1 DEF TunSteps
  <2> QED BY <1>1, <2>1, <2>2 DEF RoutesTyped
<1>5. \A r \in AllRuns : tun[r].at = "none" /\ tun[r].gateway = Runs!NoRoute
  BY <1>1
<1>6. Holding
  BY <1>5 DEF Holding, InTun
<1>7. Phases
  BY <1>1, <1>5, LastRun DEF Phases
<1>8. Table
  <2>1. \A d \in routes : d.dest # "server"
    BY <1>1, <1>2
  <2> QED BY <1>1, <1>2, <1>3, <2>1 DEF Table
<1>9. (\A r \in AllRuns : Stage(r)) /\ Resting
  BY <1>3, <1>5 DEF Stage, Resting, Whole
<1>10. OneWayOut
  BY <1>3, <1>5 DEF OneWayOut
<1> QED BY <1>4, <1>6, <1>7, <1>8, <1>9, <1>10 DEF RoutesInv

(* The loop of the runs goes on, and the system with it.                      *)
LEMMA CoreMoves ==
  ASSUME RoutesInv, UNCHANGED <<setup, device, routes, later>>, tun' = tun, core.at # "killed",
         core' \in [at : CoreSteps, run : AllRuns, saw : {"none", "bridge", "proxy", "tun"}], Phases'
  PROVE  RoutesInv'
<1>1. WayOut' = WayOut /\ Runs!OutOfTun' = Runs!OutOfTun /\ Whole' = Whole
  BY DEF WayOut, Vias, Runs!OutOfTun, Whole
<1>2. RoutesTyped'
  BY <1>1 DEF RoutesInv, RoutesTyped, Runs!NoRoute, Runs!Route
<1>3. Holding' /\ Table'
  BY <1>1 DEF RoutesInv, Holding, Table, TunRoute, Runs!NoRoute, Runs!Route
<1>4. \A r \in AllRuns : Stage(r)'
  BY <1>1 DEF RoutesInv, Stage, Blocking, Lacking, Vias, Runs!NoRoute, Runs!Route
<1>5. Resting' /\ OneWayOut'
  BY <1>1 DEF RoutesInv, Resting, OneWayOut, Blocking, Runs!NoRoute, Runs!Route
<1> QED BY <1>2, <1>3, <1>4, <1>5 DEF RoutesInv

LEMMA CoreOnly ==
  ASSUME Runs!Valid, RoutesInv,
         \/ Runs!Noticed \/ Runs!Joined \/ Runs!Waited \/ Runs!Checked \/ Runs!Ask \/ Runs!Resolve(FALSE)
         \/ \E r \in AllRuns, t \in {"bridge", "proxy"} : Runs!TaskEnds(r, t)
  PROVE  RoutesInv'
<1> DEFINE CoreType == [at : CoreSteps, run : AllRuns, saw : {"none", "bridge", "proxy", "tun"}]
<1>1. core \in CoreType /\ core.at \in CoreSteps /\ core.run \in AllRuns
  BY DEF RoutesInv, RoutesTyped
<1>2. AllRuns \subseteq Nat /\ Runs!Last \in AllRuns /\ \A r \in AllRuns : r < Runs!Last => r + 1 \in AllRuns
  BY LastRun
<1>3. UNCHANGED <<setup, device, routes, later, tun>>
  BY DEF Runs!Noticed, Runs!Joined, Runs!Waited, Runs!Checked, Runs!Ask, Runs!Resolve, Runs!TaskEnds,
         Runs!System
<1>4. CASE Runs!Ask \/ \E r \in AllRuns, t \in {"bridge", "proxy"} : Runs!TaskEnds(r, t)
  <2>1. core' = core
    BY <1>4 DEF Runs!Ask, Runs!TaskEnds
  <2>2. CASE core.at # "killed"
    BY <1>1, <1>3, <2>1, <2>2, CoreMoves DEF RoutesInv, Phases
  <2>3. CASE core.at = "killed"
    <3>1. WayOut' = WayOut /\ Runs!OutOfTun' = Runs!OutOfTun
      BY <1>3 DEF WayOut, Vias, Runs!OutOfTun
    <3>2. RoutesTyped' /\ Holding' /\ Phases' /\ Table'
      BY <1>3, <2>1, <3>1 DEF RoutesInv, RoutesTyped, Holding, Phases, Table, TunRoute, Runs!NoRoute, Runs!Route
    <3>3. (\A r \in AllRuns : Stage(r)') /\ Resting' /\ OneWayOut'
      BY <1>3, <2>1, <3>1 DEF RoutesInv, Stage, Resting, OneWayOut, Blocking, Lacking, Whole, Vias, Runs!NoRoute, Runs!Route
    <3> QED BY <3>2, <3>3 DEF RoutesInv
  <2> QED BY <2>2, <2>3
<1>5. CASE ~(Runs!Ask \/ \E r \in AllRuns, t \in {"bridge", "proxy"} : Runs!TaskEnds(r, t))
  <2>1. \E at \in {"joining", "waiting", "done", "panicked"}, saw \in {"none", "bridge", "proxy", "tun"} :
          core' = [core EXCEPT !.at = at, !.saw = saw]
        \/ Runs!Waited
    <3>1. core = [core EXCEPT !.saw = core.saw] /\ core.saw \in {"none", "bridge", "proxy", "tun"}
      BY <1>1
    <3>2. \A at : [core EXCEPT !.at = at] = [core EXCEPT !.at = at, !.saw = core.saw]
      BY <1>1
    <3>3. CASE Runs!Noticed
      BY <3>1, <3>2, <3>3, ZenonT(40) DEF Runs!Noticed
    <3>4. CASE Runs!Joined
      BY <3>1, <3>2, <3>4 DEF Runs!Joined
    <3>5. CASE Runs!Checked
      BY <3>1, <3>2, <3>5 DEF Runs!Checked
    <3>6. CASE Runs!Resolve(FALSE)
      BY <3>1, <3>2, <3>6, ZenonT(40) DEF Runs!Resolve
    <3> QED BY <1>5, <3>3, <3>4, <3>5, <3>6
  <2>2. core.at \in {"check", "once", "joining", "waiting"}
    BY <1>5 DEF Runs!Noticed, Runs!Joined, Runs!Waited, Runs!Checked, Runs!Resolve
  <2>3. CASE ~Runs!Waited
    <3>1. PICK at \in {"joining", "waiting", "done", "panicked"}, saw \in {"none", "bridge", "proxy", "tun"} :
            core' = [core EXCEPT !.at = at, !.saw = saw]
      BY <2>1, <2>3
    <3>2. core' \in CoreType /\ core'.at = at /\ core'.run = core.run
      BY <1>1, <3>1 DEF CoreSteps
    <3>3. Phases'
      BY <1>3, <2>2, <3>2 DEF RoutesInv, Phases
    <3> QED BY <1>3, <2>2, <3>2, <3>3, CoreMoves
  <2>4. CASE Runs!Waited
    <3>1. CASE asked
      <4>1. core' = [core EXCEPT !.at = "done"]
        BY <2>4, <3>1 DEF Runs!Waited
      <4>2. core' \in CoreType /\ core'.at = "done" /\ core'.run = core.run
        BY <1>1, <4>1 DEF CoreSteps
      <4>3. Phases'
        BY <1>3, <2>2, <4>2 DEF RoutesInv, Phases
      <4> QED BY <1>3, <2>2, <4>2, <4>3, CoreMoves
    <3>2. CASE ~asked
      <4>1. core' = [core EXCEPT !.at = "check", !.run = core.run + 1] /\ core.run < Runs!Last
        BY <2>4, <3>2 DEF Runs!Waited
      <4>2. core' \in CoreType /\ core'.at = "check" /\ core'.run = core.run + 1 /\ core.run + 1 \in AllRuns
        BY <1>1, <1>2, <4>1 DEF CoreSteps
      <4>3. \A r \in AllRuns : r > core.run => tun[r].at = "none"
        BY <2>2 DEF RoutesInv, Phases
      <4>4. core.run + 1 > core.run /\ \A r \in AllRuns : r > core.run + 1 => r > core.run
        <5>1. \A a, b \in Nat : a + 1 > a /\ (b > a + 1 => b > a)
          OBVIOUS
        <5>2. core.run \in Nat /\ \A r \in AllRuns : r \in Nat
          BY <1>1, <1>2
        <5> QED BY <5>1, <5>2
      <4>5. Phases'
        BY <1>3, <2>2, <4>2, <4>3, <4>4 DEF RoutesInv, Phases
      <4> QED BY <1>3, <2>2, <4>2, <4>5, CoreMoves
    <3> QED BY <3>1, <3>2
  <2> QED BY <2>3, <2>4
<1> QED BY <1>4, <1>5

(* A run starts: its TUN task was never there.                                *)
LEMMA RunStarts ==
  ASSUME Runs!Valid, RoutesInv, Runs!Resolve(TRUE)
  PROVE  RoutesInv'
<1> DEFINE r == core.run
<1>1. /\ core.at = "check" /\ core' = [core EXCEPT !.at = "once", !.saw = "none"]
      /\ tun' = [tun EXCEPT ![r].at = "prepare"]
      /\ UNCHANGED <<setup, device, routes, later>>
  BY DEF Runs!Resolve, Runs!System
<1>2. /\ core \in [at : CoreSteps, run : AllRuns, saw : {"none", "bridge", "proxy", "tun"}]
      /\ tun \in [AllRuns -> [at : TunSteps, gateway : WayOut \cup {Runs!NoRoute}]]
      /\ r \in AllRuns
  BY DEF RoutesInv, RoutesTyped
<1>3. /\ core' \in [at : CoreSteps, run : AllRuns, saw : {"none", "bridge", "proxy", "tun"}]
      /\ core'.at = "once" /\ core'.run = r
  BY <1>1, <1>2 DEF CoreSteps
<1>4. tun[r].at = "none" /\ tun[r].gateway = Runs!NoRoute
  BY <1>1, <1>2 DEF RoutesInv, Phases, Holding
<1>5. /\ tun' \in [AllRuns -> [at : TunSteps, gateway : WayOut \cup {Runs!NoRoute}]]
      /\ tun'[r].at = "prepare" /\ tun'[r].gateway = tun[r].gateway
      /\ \A q \in AllRuns \ {r} : tun'[q] = tun[q]
  BY <1>1, <1>2 DEF TunSteps
<1>6. /\ WayOut' = WayOut /\ Runs!OutOfTun' = Runs!OutOfTun /\ Whole' = Whole
      /\ Runs!NoRoute' = Runs!NoRoute /\ TunRoute' = TunRoute
  BY <1>1 DEF WayOut, Vias, Runs!OutOfTun, Whole, Runs!NoRoute, Runs!Route, TunRoute
<1> HIDE DEF r
<1>7. RoutesTyped'
  BY <1>1, <1>3, <1>5, <1>6 DEF RoutesInv, RoutesTyped
<1>8. Holding'
  BY <1>1, <1>4, <1>5, <1>6 DEF RoutesInv, Holding, InTun
<1>9. Phases'
  <2>1. \A q \in AllRuns : q > r => tun[q].at = "none" /\ q # r
    BY <1>1, <1>2, LastRun DEF RoutesInv, Phases, r
  <2> QED BY <1>1, <1>3, <1>5, <2>1 DEF RoutesInv, Phases
<1>10. Table'
  BY <1>1, <1>4, <1>5, <1>6 DEF RoutesInv, Table
<1>11. \A q \in AllRuns : Stage(q)'
  <2> SUFFICES ASSUME NEW q \in AllRuns PROVE Stage(q)'
    OBVIOUS
  <2>1. CASE q = r
    BY <1>5, <2>1 DEF Stage
  <2>2. CASE q # r
    <3>1. tun'[q] = tun[q] /\ Stage(q)
      BY <1>5, <2>2 DEF RoutesInv
    <3> QED BY <1>1, <1>6, <3>1 DEF Stage, Blocking, Lacking, Vias
  <2> QED BY <2>1, <2>2
<1>12. Resting'
  BY <1>1, <1>3, <1>4, <1>5, <1>6 DEF RoutesInv, Resting, InTun
<1>13. OneWayOut'
  BY <1>1, <1>4, <1>5, <1>6 DEF RoutesInv, OneWayOut, Blocking
<1> QED BY <1>7, <1>8, <1>9, <1>10, <1>11, <1>12, <1>13 DEF RoutesInv

(* The TUN task of a run takes a step.                                        *)
TunMoves(r, at, gateway) ==
  /\ UNCHANGED <<setup, core, later>>
  /\ tun' = [tun EXCEPT ![r] = [at |-> at, gateway |-> gateway]]

LEMMA TunGoes ==
  ASSUME RoutesInv, NEW r \in AllRuns, NEW at, Runs!TunStep(r), Runs!Goes(r, at), later' = later
  PROVE  TunMoves(r, at, tun[r].gateway)
<1>1. tun[r] \in [at : TunSteps, gateway : WayOut \cup {Runs!NoRoute}]
  BY DEF RoutesInv, RoutesTyped
<1>2. [tun[r] EXCEPT !.at = at] = [at |-> at, gateway |-> tun[r].gateway]
  BY <1>1
<1>3. tun' = [tun EXCEPT ![r] = [tun[r] EXCEPT !.at = at]]
  BY DEF Runs!Goes
<1> QED BY <1>2, <1>3 DEF TunMoves, Runs!TunStep

LEMMA TunMoved ==
  ASSUME Runs!Valid, RoutesInv, NEW r \in AllRuns, NEW at \in TunSteps \ {"none", "cut"},
         NEW gateway \in WayOut \cup {Runs!NoRoute}, TunMoves(r, at, gateway),
         tun[r].at \notin {"none", "ok", "err", "cut"}, device' \subseteq AllRuns
  PROVE  /\ RoutesTyped' /\ Phases' /\ core.at \notin {"exited", "killed"}
         /\ tun'[r].at = at /\ tun'[r].gateway = gateway
         /\ \A q \in AllRuns \ {r} : tun'[q] = tun[q]
         /\ WayOut' = WayOut /\ Runs!NoRoute' = Runs!NoRoute /\ TunRoute' = TunRoute
<1>1. tun \in [AllRuns -> [at : TunSteps, gateway : WayOut \cup {Runs!NoRoute}]]
  BY DEF RoutesInv, RoutesTyped
<1>2. /\ tun' \in [AllRuns -> [at : TunSteps, gateway : WayOut \cup {Runs!NoRoute}]]
      /\ tun'[r].at = at /\ tun'[r].gateway = gateway
      /\ \A q \in AllRuns \ {r} : tun'[q] = tun[q]
  BY <1>1 DEF TunMoves
<1>3. WayOut' = WayOut /\ Runs!NoRoute' = Runs!NoRoute /\ TunRoute' = TunRoute
  BY DEF TunMoves, WayOut, Vias, Runs!NoRoute, Runs!Route, TunRoute
<1>4. core' = core /\ setup' = setup /\ later' = later
  BY DEF TunMoves
<1>5. core.at \notin {"exited", "killed"}
  BY DEF RoutesInv, Phases
<1>6. RoutesTyped'
  BY <1>2, <1>3, <1>4 DEF RoutesInv, RoutesTyped
<1>7. Phases'
  <2>1. \A q \in AllRuns : q > core.run => tun[q].at = "none" /\ q # r
    BY <1>5 DEF RoutesInv, Phases
  <2>2. core.at = "check" => core.run # r /\ tun[core.run].at = "none"
    BY DEF RoutesInv, Phases
  <2>3. core.run \in AllRuns
    BY DEF RoutesInv, RoutesTyped
  <2>4. core.at # "killed" => \A q \in AllRuns : tun[q].at # "cut"
    BY DEF RoutesInv, Phases
  <2> QED BY <1>2, <1>4, <1>5, <2>1, <2>2, <2>3, <2>4 DEF Phases
<1> QED BY <1>2, <1>3, <1>5, <1>6, <1>7

(* A step of the task that has the device.                                    *)
LEMMA Inside ==
  ASSUME Runs!Valid, RoutesInv, NEW r \in AllRuns, NEW at \in InTun \ {"routes"},
         NEW gateway \in WayOut \cup {Runs!NoRoute}, TunMoves(r, at, gateway),
         tun[r].at \in InTun, device' = device, Table', Stage(r)',
         (\E d \in setup.defaults : setup.defaults = {d}) =>
           /\ \A d, e \in Runs!OutOfTun' : d = e
           /\ at \in {"up", "leaving", "bare", "last"} /\ Blocking(r)' => Runs!OutOfTun' = {}
  PROVE  RoutesInv'
<1>1. device = {r} /\ device \subseteq AllRuns
  BY DEF RoutesInv, Holding, RoutesTyped
<1>2. /\ RoutesTyped' /\ Phases' /\ core.at \notin {"exited", "killed"}
      /\ tun'[r].at = at /\ tun'[r].gateway = gateway
      /\ \A q \in AllRuns \ {r} : tun'[q] = tun[q]
      /\ WayOut' = WayOut /\ Runs!NoRoute' = Runs!NoRoute
  BY <1>1, TunMoved DEF InTun, TunSteps
<1>3. \A q \in AllRuns \ {r} : tun[q].at \notin InTun /\ tun[q].at # "cut"
  BY <1>1, <1>2 DEF RoutesInv, Holding, Phases
<1>4. Holding'
  BY <1>1, <1>2, <1>3 DEF RoutesInv, Holding, InTun
<1>5. \A q \in AllRuns : Stage(q)'
  <2> SUFFICES ASSUME NEW q \in AllRuns \ {r} PROVE Stage(q)'
    OBVIOUS
  <2>1. tun'[q].at \notin InTun
    BY <1>2, <1>3
  <2> QED BY <2>1 DEF Stage, InTun
<1>6. Resting'
  BY <1>2 DEF Resting
<1>7. OneWayOut'
  <2>1. setup' = setup
    BY DEF TunMoves
  <2>2. \A q \in AllRuns \ {r} : tun'[q].at \notin {"up", "leaving", "bare", "last", "cut"}
    BY <1>2, <1>3 DEF InTun
  <2> QED BY <1>2, <2>1, <2>2 DEF OneWayOut, InTun
<1> QED BY <1>2, <1>4, <1>5, <1>6, <1>7 DEF RoutesInv

LEMMA PrepareStep ==
  ASSUME Runs!Valid, Runs!Linux, RoutesInv, NEW r \in AllRuns, Runs!Prepare(r) \/ Runs!Create(r)
  PROVE  RoutesInv'
<1>1. UNCHANGED <<setup, core, later, routes>> /\ tun[r].at \in {"prepare", "device"}
  BY DEF Runs!Prepare, Runs!Create, Runs!TunStep, Runs!System
<1>2. \E at \in {"device", "routes", "err"} :
        /\ Runs!Goes(r, at) /\ Runs!TunStep(r)
        /\ IF at = "routes" THEN device = {} /\ device' = {r} ELSE device' = device
  BY DEF Runs!Prepare, Runs!Create, Runs!System
<1>3. PICK at \in {"device", "routes", "err"} :
        /\ Runs!Goes(r, at) /\ Runs!TunStep(r)
        /\ IF at = "routes" THEN device = {} /\ device' = {r} ELSE device' = device
  BY <1>2
<1>4. tun[r].gateway = Runs!NoRoute /\ TunMoves(r, at, Runs!NoRoute)
  BY <1>1, <1>3, TunGoes DEF RoutesInv, Holding
<1>5. device' \subseteq AllRuns
  BY <1>3 DEF RoutesInv, RoutesTyped
<1>6. /\ RoutesTyped' /\ Phases' /\ core.at \notin {"exited", "killed"}
      /\ tun'[r].at = at /\ tun'[r].gateway = Runs!NoRoute
      /\ \A q \in AllRuns \ {r} : tun'[q] = tun[q]
      /\ WayOut' = WayOut /\ Runs!NoRoute' = Runs!NoRoute /\ TunRoute' = TunRoute
  BY <1>1, <1>4, <1>5, TunMoved DEF TunSteps
<1>7. /\ Runs!OutOfTun' = Runs!OutOfTun /\ Whole' = Whole
  BY <1>1 DEF Runs!OutOfTun, Whole, Vias
<1>8. Holding'
  <2>1. \A q \in AllRuns : tun[q].at \in InTun => device = {q} /\ q # r
    BY <1>1 DEF RoutesInv, Holding, InTun
  <2> QED BY <1>3, <1>6, <2>1 DEF RoutesInv, Holding, InTun
<1>9. Table'
  BY <1>1, <1>6 DEF RoutesInv, Table
<1>10. Resting'
  <2>1. (\A q \in AllRuns : tun'[q].at \notin InTun) => \A q \in AllRuns : tun[q].at \notin InTun
    BY <1>1, <1>6 DEF InTun
  <2> QED BY <1>1, <1>6, <1>7, <2>1 DEF RoutesInv, Resting
<1>11. \A q \in AllRuns : Stage(q)'
  <2> SUFFICES ASSUME NEW q \in AllRuns PROVE Stage(q)'
    OBVIOUS
  <2>1. CASE q = r
    <3>1. CASE at = "routes"
      <4>1. \A p \in AllRuns : tun[p].at \notin InTun
        BY <1>3, <3>1 DEF RoutesInv, Holding
      <4>2. Whole'
        BY <1>6, <1>7, <4>1 DEF RoutesInv, Resting
      <4> QED BY <1>6, <2>1, <3>1, <4>2 DEF Stage
    <3>2. CASE at # "routes"
      BY <1>6, <2>1, <3>2 DEF Stage
    <3> QED BY <3>1, <3>2
  <2>2. CASE q # r
    <3>1. tun'[q] = tun[q] /\ Stage(q)
      BY <1>6, <2>2 DEF RoutesInv
    <3> QED BY <1>1, <1>6, <1>7, <3>1 DEF Stage, Blocking, Lacking, Vias
  <2> QED BY <2>1, <2>2
<1>12. OneWayOut'
  BY <1>1, <1>6, <1>7 DEF RoutesInv, OneWayOut, Blocking
<1> QED BY <1>6, <1>8, <1>9, <1>10, <1>11, <1>12 DEF RoutesInv

LEMMA Least ==
  ASSUME NEW S \in SUBSET Nat, S # {}
  PROVE  \E n \in S : \A m \in S : n <= m
<1>1. PICK n \in S : \A m \in S : ~(<<m, n>> \in OpToRel(<, Nat))
  BY NatLessThanWellFounded, WFMin
<1>2. ASSUME NEW m \in S PROVE n <= m
  <2>1. m \in Nat /\ n \in Nat /\ <<m, n>> \in Nat \X Nat
    OBVIOUS
  <2>2. <<m, n>> \notin {pair \in Nat \X Nat : pair[1] < pair[2]}
    BY <1>1 DEF OpToRel
  <2>3. ~(m < n)
    BY <2>1, <2>2
  <2> QED BY <2>1, <2>3
<1> QED BY <1>2

(* There is a best of some ways.                                              *)
LEMMA BestWay ==
  ASSUME NEW some \in SUBSET WayOut, some # {}
  PROVE  /\ Runs!Best(some) # {} /\ Runs!Best(some) \subseteq some
         /\ \A b \in Runs!Best(some), d \in some : b.metric <= d.metric
<1> DEFINE metrics == {d.metric : d \in some}
<1>1. \A d \in WayOut : d.metric \in Nat
  BY DEF WayOut
<1>2. metrics \in SUBSET Nat /\ metrics # {}
  BY <1>1
<1>3. PICK n \in metrics : \A m \in metrics : n <= m
  <2> HIDE DEF metrics
  <2> QED BY <1>2, Least
<1>4. PICK b \in some : b.metric = n
  BY <1>3
<1>5. \A d \in some : d.metric \in metrics
  OBVIOUS
<1>6. b \in Runs!Best(some)
  BY <1>3, <1>4, <1>5 DEF Runs!Best
<1> QED BY <1>6 DEF Runs!Best

(* Who has the device is alone in the table.                                  *)
LEMMA Sole ==
  ASSUME RoutesInv, NEW r \in AllRuns, tun[r].at \in InTun
  PROVE  /\ device = {r} /\ tun[r] \in [at : TunSteps, gateway : WayOut \cup {Runs!NoRoute}]
         /\ \A q \in AllRuns : q # r => tun[q].at \notin InTun
         /\ TunRoute \in routes => tun[r].at \in {"original", "up", "leaving"} /\ tun[r].gateway # Runs!NoRoute
         /\ (\E d \in routes : d.dest = "server") =>
              tun[r].at \in {"default", "original", "up", "leaving", "bare"}
         /\ setup.defaults \in Defaults /\ Stage(r)
<1>1. device = {r} /\ \A q \in AllRuns : q # r => tun[q].at \notin InTun
  BY DEF RoutesInv, Holding
<1>2. core.at # "killed"
  BY DEF RoutesInv, Phases, InTun
<1> QED BY <1>1, <1>2 DEF RoutesInv, RoutesTyped, Table, InTun

LEMMA BypassStep ==
  ASSUME Runs!Valid, Runs!Linux, RoutesInv, NEW r \in AllRuns, Runs!Bypass(r)
  PROVE  RoutesInv'
<1>1. tun[r].at = "routes" /\ Runs!TunStep(r) /\ UNCHANGED <<device, later>>
  BY DEF Runs!Bypass
<1>2. /\ TunRoute \notin routes /\ \A d \in routes : d.dest # "server"
      /\ Whole /\ setup.defaults \in Defaults /\ tun[r].gateway = Runs!NoRoute
  BY <1>1, Sole DEF InTun, Stage, RoutesInv, Holding
<1>3. Runs!OutOfTun = routes \cap WayOut /\ \A d \in WayOut : d.dest = "default" /\ d # Runs!NoRoute
  BY <1>2, WaysAre, WaysFound DEF RoutesInv, Table
<1>4. setup' = setup /\ WayOut' = WayOut /\ Runs!NoRoute' = Runs!NoRoute /\ TunRoute' = TunRoute
  BY <1>1 DEF Runs!TunStep, WayOut, Vias, Runs!NoRoute, Runs!Route, TunRoute
<1>5. CASE Runs!OutOfTun = {}
  <2>1. Runs!Goes(r, "up") /\ routes' = routes
    BY <1>5 DEF Runs!Bypass, Runs!Linux
  <2>2. TunMoves(r, "up", Runs!NoRoute)
    BY <1>1, <1>2, <2>1, TunGoes
  <2>3. tun'[r].at = "up" /\ tun'[r].gateway = Runs!NoRoute
    BY <1>1, <2>2, TunMoved, Sole DEF InTun, TunSteps, RoutesInv, RoutesTyped
  <2>4. Runs!OutOfTun' = {} /\ Whole'
    BY <1>2, <1>4, <1>5, <2>1 DEF Runs!OutOfTun, Whole, Vias
  <2>5. Table'
    BY <1>2, <1>4, <2>1 DEF RoutesInv, Table
  <2>6. Stage(r)'
    BY <1>4, <2>3, <2>4 DEF Stage, Blocking
  <2> QED BY <1>1, <2>2, <2>4, <2>5, <2>6, Inside DEF InTun
<1>6. CASE Runs!OutOfTun # {}
  <2> DEFINE gateway == CHOOSE g \in Runs!Best(Runs!OutOfTun) : TRUE
             bypass  == Runs!Route("server", gateway.via, 0)
  <2>1. /\ gateway \in Runs!OutOfTun /\ gateway \in WayOut /\ gateway # Runs!NoRoute
        /\ \A d \in Runs!OutOfTun : gateway.metric <= d.metric
    BY <1>3, <1>6, BestWay
  <2>2. /\ tun' = [tun EXCEPT ![r] = [at |-> "default", gateway |-> gateway]]
        /\ routes' = Runs!Added(bypass)
    BY <1>6 DEF Runs!Bypass, Runs!Linux
  <2>3. bypass.dest = "server" /\ bypass \notin WayOut /\ bypass # TunRoute
    BY <1>3 DEF Runs!Route, TunRoute
  <2> HIDE DEF gateway, bypass
  <2>4. routes' = routes \cup {bypass}
    BY <1>2, <2>2, <2>3 DEF Runs!Added
  <2>5. TunMoves(r, "default", gateway)
    BY <1>1, <2>2 DEF TunMoves, Runs!TunStep
  <2>6. tun'[r].at = "default" /\ tun'[r].gateway = gateway
    BY <1>1, <2>1, <2>5, TunMoved, Sole DEF InTun, TunSteps, RoutesInv, RoutesTyped
  <2>7. \A d \in routes' : d \in WayOut \/ d = TunRoute \/ d.dest = "server"
    BY <2>3, <2>4 DEF RoutesInv, Table
  <2>8. Runs!OutOfTun' = Runs!OutOfTun
    BY <1>2, <1>3, <1>4, <2>3, <2>4, <2>7, WaysAreThen
  <2>9. Table'
    <3>1. \A d, e \in routes' : d.dest = "default" /\ e.dest = "default" => d \in routes /\ e \in routes
      BY <2>3, <2>4
    <3>2. TunRoute \notin routes'
      BY <1>2, <2>3, <2>4
    <3> QED BY <1>4, <2>6, <2>7, <3>1, <3>2 DEF RoutesInv, Table
  <2>10. Stage(r)'
    BY <1>2, <1>4, <2>1, <2>3, <2>4, <2>6, <2>8 DEF Stage, Whole, Vias
  <2>11. (\E d \in setup.defaults : setup.defaults = {d}) => \A d, e \in Runs!OutOfTun' : d = e
    BY <2>8 DEF RoutesInv, OneWayOut
  <2> QED BY <1>1, <2>1, <2>5, <2>9, <2>10, <2>11, Inside DEF InTun
<1> QED BY <1>5, <1>6

LEMMA DefaultStep ==
  ASSUME Runs!Valid, Runs!Linux, RoutesInv, NEW r \in AllRuns, Runs!Default(r)
  PROVE  RoutesInv'
<1>1. /\ tun[r].at = "default" /\ Runs!TunStep(r) /\ UNCHANGED <<device, later>>
      /\ Runs!Goes(r, "original") /\ routes' = Runs!Added(TunRoute)
  BY DEF Runs!Default, Runs!Linux, TunRoute
<1>2. /\ TunRoute \notin routes /\ Whole /\ setup.defaults \in Defaults
      /\ tun[r].gateway \in Runs!OutOfTun /\ \A d \in Runs!OutOfTun : tun[r].gateway.metric <= d.metric
      /\ tun[r].gateway \in WayOut \cup {Runs!NoRoute}
  BY <1>1, Sole DEF InTun, Stage
<1>3. /\ Runs!OutOfTun = routes \cap WayOut /\ \A d \in WayOut : d.dest = "default" /\ d # Runs!NoRoute
      /\ TunRoute \notin WayOut /\ TunRoute.dest = "default" /\ TunRoute.metric = 0
  BY <1>2, WaysAre, WaysFound DEF RoutesInv, Table
<1>4. setup' = setup /\ WayOut' = WayOut /\ Runs!NoRoute' = Runs!NoRoute /\ TunRoute' = TunRoute
  BY <1>1 DEF Runs!TunStep, WayOut, Vias, Runs!NoRoute, Runs!Route, TunRoute
<1>5. \/ routes' = routes
      \/ routes' = routes \cup {TunRoute} /\ \A d \in routes : ~(d.dest = "default" /\ d.metric = 0)
  BY <1>1, <1>3 DEF Runs!Added
<1>6. TunMoves(r, "original", tun[r].gateway)
  BY <1>1, TunGoes
<1>7. tun'[r].at = "original" /\ tun'[r].gateway = tun[r].gateway
  BY <1>1, <1>2, <1>6, TunMoved DEF TunSteps, RoutesInv, RoutesTyped
<1>8. \A d \in routes' : d \in WayOut \/ d = TunRoute \/ d.dest = "server"
  BY <1>5 DEF RoutesInv, Table
<1>9. Runs!OutOfTun' = Runs!OutOfTun
  BY <1>2, <1>3, <1>4, <1>5, <1>8, WaysAreThen
<1>10. tun[r].gateway # Runs!NoRoute /\ \E d \in routes : d.dest = "server"
  BY <1>1, <1>2, <1>3, Sole DEF InTun, Stage
<1>11. Table'
  <2>1. \A d, e \in routes' : d.dest = "default" /\ e.dest = "default" /\ d.metric = e.metric => d = e
    BY <1>3, <1>5 DEF RoutesInv, Table
  <2> QED BY <1>4, <1>7, <1>8, <1>10, <2>1 DEF Table
<1>12. Stage(r)'
  BY <1>2, <1>4, <1>5, <1>7, <1>9, <1>10 DEF Stage, Whole, Vias
<1>13. (\E d \in setup.defaults : setup.defaults = {d}) => \A d, e \in Runs!OutOfTun' : d = e
  BY <1>9 DEF RoutesInv, OneWayOut
<1> QED BY <1>1, <1>2, <1>6, <1>11, <1>12, <1>13, Inside DEF InTun

(* The kill switch takes away the way the task found, and no other.           *)
LEMMA OriginalStep ==
  ASSUME Runs!Valid, Runs!Linux, RoutesInv, NEW r \in AllRuns, Runs!Original(r)
  PROVE  RoutesInv'
<1> DEFINE gateway == tun[r].gateway
           some    == {g \in Runs!OutOfTun : g.via = gateway.via}
<1>1. /\ tun[r].at = "original" /\ Runs!TunStep(r) /\ device' = device
      /\ Runs!Goes(r, "up")
      /\ IF setup.kill_switch THEN routes' = Runs!Deleted(some) /\ later' = later
         ELSE later' = later /\ routes' = routes
  BY DEF Runs!Original, Runs!Linux
<1>2. /\ Whole /\ setup.defaults \in Defaults
      /\ gateway \in Runs!OutOfTun /\ \A d \in Runs!OutOfTun : gateway.metric <= d.metric
      /\ gateway \in WayOut \cup {Runs!NoRoute}
  BY <1>1, Sole DEF InTun, Stage
<1>3. /\ Runs!OutOfTun = routes \cap WayOut /\ TunRoute \notin WayOut
      /\ \A d \in WayOut : d.dest = "default" /\ d # Runs!NoRoute /\ d.metric \in Nat
  BY <1>2, WaysAre, WaysFound DEF RoutesInv, Table, WayOut
<1>4. setup' = setup /\ WayOut' = WayOut /\ Runs!NoRoute' = Runs!NoRoute /\ TunRoute' = TunRoute
  BY <1>1 DEF Runs!TunStep, WayOut, Vias, Runs!NoRoute, Runs!Route, TunRoute
<1>5. TunMoves(r, "up", gateway)
  BY <1>1, TunGoes
<1>6. tun'[r].at = "up" /\ tun'[r].gateway = gateway /\ gateway' = gateway
  BY <1>1, <1>2, <1>5, TunMoved DEF TunSteps, RoutesInv, RoutesTyped
<1>7. gateway # Runs!NoRoute /\ \E d \in routes : d.dest = "server"
  BY <1>1, <1>2, <1>3, Sole DEF InTun, Stage
<1>8. routes' = IF setup.kill_switch THEN routes \ {gateway} ELSE routes
  <2>1. \A d, e \in Runs!OutOfTun : d.metric = e.metric => d = e
    BY <1>3 DEF RoutesInv, Table
  <2>2. some \in SUBSET WayOut /\ gateway \in some
    BY <1>2, <1>3
  <2>3. \A b \in Runs!Best(some) : b \in some /\ b.metric <= gateway.metric
    BY <2>2, BestWay
  <2>4. Runs!Best(some) # {}
    BY <2>2, BestWay
  <2>5. \A b \in Runs!Best(some) : b = gateway
    <3> TAKE b \in Runs!Best(some)
    <3>1. b \in Runs!OutOfTun /\ b.metric <= gateway.metric /\ gateway.metric <= b.metric
      BY <1>2, <2>3
    <3>2. b.metric \in Nat /\ gateway.metric \in Nat
      BY <1>2, <1>3, <3>1
    <3>3. b.metric = gateway.metric
      BY <3>1, <3>2
    <3> QED BY <1>2, <2>1, <3>1, <3>3
  <2>6. (CHOOSE b \in Runs!Best(some) : TRUE) = gateway
    BY <2>4, <2>5
  <2>7. some # {}
    BY <2>2
  <2> HIDE DEF some, gateway
  <2> QED BY <1>1, <2>6, <2>7 DEF Runs!Deleted
<1> HIDE DEF gateway, some
<1>9. \A d \in routes' : d \in WayOut \/ d = TunRoute \/ d.dest = "server"
  BY <1>8 DEF RoutesInv, Table
<1>10. Runs!OutOfTun' = IF setup.kill_switch THEN Runs!OutOfTun \ {gateway} ELSE Runs!OutOfTun
  BY <1>2, <1>3, <1>4, <1>8, <1>9, WaysAreThen
<1>11. Table'
  <2>1. \A d, e \in routes' : d.dest = "default" /\ e.dest = "default" /\ d.metric = e.metric => d = e
    BY <1>8 DEF RoutesInv, Table
  <2> QED BY <1>4, <1>6, <1>7, <1>9, <2>1 DEF Table
<1>12. \E d \in routes' : d.dest = "server"
  BY <1>2, <1>3, <1>7, <1>8
<1>13. IF setup.kill_switch THEN Lacking(gateway)' ELSE Whole'
  <2>1. CASE setup.kill_switch
    <3>1. \A d \in Runs!OutOfTun : d.metric \in Nat /\ gateway.metric \in Nat
      BY <1>2, <1>3
    <3>2. \A d \in Runs!OutOfTun' : d \in Runs!OutOfTun /\ d # gateway
      BY <1>10, <2>1
    <3>3. \A d \in Runs!OutOfTun' : d.metric # 0
      <4> TAKE d \in Runs!OutOfTun'
      <4>1. d \in routes /\ gateway \in routes /\ d.dest = "default" /\ gateway.dest = "default"
        BY <1>2, <1>3, <3>2
      <4>2. d.metric # gateway.metric
        BY <3>2, <4>1 DEF RoutesInv, Table
      <4>3. gateway.metric <= d.metric /\ d.metric \in Nat /\ gateway.metric \in Nat
        BY <1>2, <3>1, <3>2
      <4> QED BY <4>2, <4>3
    <3>4. Vias(Runs!OutOfTun)' \cup {gateway.via} = Vias(setup.defaults)
      <4>1. Vias(Runs!OutOfTun)' = {d.via : d \in Runs!OutOfTun'}
        BY DEF Vias
      <4>2. Vias(setup.defaults) = {d.via : d \in Runs!OutOfTun}
        BY <1>2 DEF Whole, Vias
      <4>3. Runs!OutOfTun = Runs!OutOfTun' \cup {gateway}
        BY <1>2, <1>10, <2>1
      <4>4. {d.via : d \in Runs!OutOfTun' \cup {gateway}} = {d.via : d \in Runs!OutOfTun'} \cup {gateway.via}
        OBVIOUS
      <4> QED BY <4>1, <4>2, <4>3, <4>4
    <3> QED BY <1>4, <1>6, <2>1, <3>3, <3>4 DEF Lacking, Vias
  <2>2. CASE ~setup.kill_switch
    BY <1>2, <1>4, <1>10, <2>2 DEF Whole, Vias
  <2> QED BY <2>1, <2>2
<1>14. Stage(r)'
  BY <1>4, <1>6, <1>7, <1>12, <1>13 DEF Stage, Blocking, Lacking
<1>15. (\E d \in setup.defaults : setup.defaults = {d}) =>
         /\ \A d, e \in Runs!OutOfTun' : d = e
         /\ Blocking(r)' => Runs!OutOfTun' = {}
  <2>1. (\E d \in setup.defaults : setup.defaults = {d}) => \A d, e \in Runs!OutOfTun : d = e
    BY DEF RoutesInv, OneWayOut
  <2> QED BY <1>2, <1>4, <1>6, <1>10, <2>1 DEF Blocking
<1> QED BY <1>1, <1>2, <1>5, <1>11, <1>14, <1>15, Inside DEF InTun

LEMMA LeaveStep ==
  ASSUME Runs!Valid, Runs!Linux, RoutesInv, NEW r \in AllRuns, Runs!Leave(r)
  PROVE  RoutesInv'
<1>1. /\ tun[r].at = "up" /\ Runs!TunStep(r) /\ UNCHANGED <<device, routes, later>>
      /\ Runs!Goes(r, "leaving")
  BY DEF Runs!Leave, Runs!System
<1>2. tun[r].gateway \in WayOut \cup {Runs!NoRoute} /\ Stage(r)
  BY <1>1, Sole DEF InTun
<1>3. TunMoves(r, "leaving", tun[r].gateway)
  BY <1>1, TunGoes
<1>4. /\ tun'[r].at = "leaving" /\ tun'[r].gateway = tun[r].gateway
      /\ WayOut' = WayOut /\ Runs!NoRoute' = Runs!NoRoute /\ TunRoute' = TunRoute
      /\ \A q \in AllRuns \ {r} : tun'[q] = tun[q]
  BY <1>1, <1>2, <1>3, TunMoved DEF TunSteps, RoutesInv, RoutesTyped
<1>5. Runs!OutOfTun' = Runs!OutOfTun /\ setup' = setup
  BY <1>1 DEF Runs!OutOfTun, Runs!TunStep
<1>6. Table'
  BY <1>1, <1>4 DEF RoutesInv, Table
<1>7. Stage(r)'
  BY <1>1, <1>2, <1>4, <1>5 DEF Stage, Blocking, Lacking, Whole, Vias
<1>8. (\E d \in setup.defaults : setup.defaults = {d}) =>
         /\ \A d, e \in Runs!OutOfTun' : d = e
         /\ Blocking(r)' => Runs!OutOfTun' = {}
  BY <1>1, <1>4, <1>5 DEF RoutesInv, OneWayOut, Blocking
<1> QED BY <1>1, <1>2, <1>3, <1>6, <1>7, <1>8, Inside DEF InTun

LEMMA DropDefaultStep ==
  ASSUME Runs!Valid, Runs!Linux, RoutesInv, NEW r \in AllRuns, Runs!DropDefault(r)
  PROVE  RoutesInv'
<1> DEFINE some == {d \in routes : d.dest = "default" /\ d.via = "tun"}
<1>1. /\ tun[r].at = "leaving" /\ Runs!TunStep(r) /\ UNCHANGED <<device, later>>
      /\ Runs!Goes(r, "bare") /\ routes' = Runs!Deleted(some)
  BY DEF Runs!DropDefault, Runs!Linux
<1>2. tun[r].gateway \in WayOut \cup {Runs!NoRoute} /\ Stage(r) /\ setup.defaults \in Defaults
  BY <1>1, Sole DEF InTun
<1>3. /\ Runs!OutOfTun = routes \cap WayOut /\ TunRoute \notin WayOut
      /\ \A d \in WayOut : d.dest = "default" /\ d.via # "tun"
      /\ TunRoute.dest = "default" /\ TunRoute.via = "tun" /\ TunRoute.metric = 0
  BY <1>2, WaysAre, WaysFound DEF RoutesInv, Table, TunRoute, Runs!Route
<1>4. routes' = routes \ {TunRoute}
  <2>1. \A d \in routes : d.dest = "default" => d \in WayOut \/ d = TunRoute
    BY <1>2, WaysAre DEF RoutesInv, Table
  <2>2. some = IF TunRoute \in routes THEN {TunRoute} ELSE {}
    BY <1>3, <2>1
  <2>3. CASE TunRoute \in routes
    <3>1. some = {TunRoute}
      BY <2>2, <2>3
    <3>2. Runs!Best(some) = {TunRoute}
      BY <1>3, <3>1 DEF Runs!Best
    <3> HIDE DEF some
    <3> QED BY <1>1, <3>1, <3>2 DEF Runs!Deleted
  <2>4. CASE TunRoute \notin routes
    <3>1. some = {}
      BY <2>2, <2>4
    <3> HIDE DEF some
    <3> QED BY <1>1, <2>4, <3>1 DEF Runs!Deleted
  <2> QED BY <2>3, <2>4
<1>5. TunMoves(r, "bare", tun[r].gateway)
  BY <1>1, TunGoes
<1>6. /\ tun'[r].at = "bare" /\ tun'[r].gateway = tun[r].gateway
      /\ WayOut' = WayOut /\ Runs!NoRoute' = Runs!NoRoute /\ TunRoute' = TunRoute
      /\ \A q \in AllRuns \ {r} : tun'[q] = tun[q]
  BY <1>1, <1>2, <1>5, TunMoved DEF TunSteps, RoutesInv, RoutesTyped
<1>7. setup' = setup /\ \A d \in routes' : d \in WayOut \/ d = TunRoute \/ d.dest = "server"
  BY <1>1, <1>4 DEF RoutesInv, Table, Runs!TunStep
<1>8. Runs!OutOfTun' = Runs!OutOfTun
  BY <1>2, <1>3, <1>4, <1>7, WaysAreThen
<1>9. Table'
  <2>1. \A d, e \in routes' : d.dest = "default" /\ e.dest = "default" /\ d.metric = e.metric => d = e
    BY <1>4 DEF RoutesInv, Table
  <2>2. TunRoute \notin routes'
    BY <1>4
  <2> QED BY <1>6, <1>7, <2>1, <2>2 DEF Table
<1>10. Stage(r)'
  BY <1>1, <1>2, <1>6, <1>7, <1>8 DEF Stage, Blocking, Lacking, Whole, Vias
<1>11. (\E d \in setup.defaults : setup.defaults = {d}) =>
         /\ \A d, e \in Runs!OutOfTun' : d = e
         /\ Blocking(r)' => Runs!OutOfTun' = {}
  BY <1>1, <1>6, <1>7, <1>8 DEF RoutesInv, OneWayOut, Blocking
<1> QED BY <1>1, <1>2, <1>5, <1>9, <1>10, <1>11, Inside DEF InTun

LEMMA DropServerStep ==
  ASSUME Runs!Valid, Runs!Linux, RoutesInv, NEW r \in AllRuns, Runs!DropServer(r)
  PROVE  RoutesInv'
<1>1. /\ tun[r].at = "bare" /\ Runs!TunStep(r) /\ UNCHANGED <<device, later>>
      /\ Runs!Goes(r, "last") /\ routes' = {d \in routes : d.dest # "server"}
  BY DEF Runs!DropServer, Runs!Linux
<1>2. /\ tun[r].gateway \in WayOut \cup {Runs!NoRoute} /\ Stage(r) /\ setup.defaults \in Defaults
      /\ TunRoute \notin routes
  BY <1>1, Sole DEF InTun
<1>3. Runs!OutOfTun = routes \cap WayOut /\ \A d \in WayOut : d.dest = "default"
  BY <1>2, WaysAre, WaysFound DEF RoutesInv, Table
<1>5. TunMoves(r, "last", tun[r].gateway)
  BY <1>1, TunGoes
<1>6. /\ tun'[r].at = "last" /\ tun'[r].gateway = tun[r].gateway
      /\ WayOut' = WayOut /\ Runs!NoRoute' = Runs!NoRoute /\ TunRoute' = TunRoute
      /\ \A q \in AllRuns \ {r} : tun'[q] = tun[q]
  BY <1>1, <1>2, <1>5, TunMoved DEF TunSteps, RoutesInv, RoutesTyped
<1>7. setup' = setup /\ \A d \in routes' : d \in WayOut \/ d = TunRoute \/ d.dest = "server"
  BY <1>1 DEF RoutesInv, Table, Runs!TunStep
<1>8. Runs!OutOfTun' = Runs!OutOfTun
  BY <1>1, <1>2, <1>3, <1>7, WaysAreThen
<1>9. Table'
  <2>1. \A d, e \in routes' : d.dest = "default" /\ e.dest = "default" /\ d.metric = e.metric => d = e
    BY <1>1 DEF RoutesInv, Table
  <2>2. TunRoute \notin routes' /\ \A d \in routes' : d.dest # "server"
    BY <1>1, <1>2
  <2> QED BY <1>6, <1>7, <2>1, <2>2 DEF Table
<1>10. Stage(r)'
  BY <1>1, <1>2, <1>6, <1>7, <1>8 DEF Stage, Blocking, Lacking, Whole, Vias
<1>11. (\E d \in setup.defaults : setup.defaults = {d}) =>
         /\ \A d, e \in Runs!OutOfTun' : d = e
         /\ Blocking(r)' => Runs!OutOfTun' = {}
  BY <1>1, <1>6, <1>7, <1>8 DEF RoutesInv, OneWayOut, Blocking
<1> QED BY <1>1, <1>2, <1>5, <1>9, <1>10, <1>11, Inside DEF InTun

LEMMA RestoreStep ==
  ASSUME Runs!Valid, Runs!Linux, RoutesInv, NEW r \in AllRuns, Runs!Restore(r)
  PROVE  RoutesInv'
<1> DEFINE gateway == tun[r].gateway
           new     == Runs!Route("default", gateway.via, 0)
<1>1. /\ tun[r].at = "last" /\ Runs!TunStep(r) /\ device' = device
      /\ Runs!Goes(r, "ok") /\ later' = later
      /\ routes' = IF Blocking(r) THEN Runs!Added(new) ELSE routes
  BY DEF Runs!Restore, Runs!Linux, Runs!Reinstated, Blocking
<1>2. /\ gateway \in WayOut \cup {Runs!NoRoute} /\ Stage(r) /\ setup.defaults \in Defaults
      /\ TunRoute \notin routes /\ \A d \in routes : d.dest # "server"
      /\ device = {r} /\ device' \subseteq AllRuns /\ \A q \in AllRuns : q # r => tun[q].at \notin InTun
  BY <1>1, Sole DEF InTun
<1>3. /\ Runs!OutOfTun = routes \cap WayOut
      /\ \A d \in routes : d.dest = "default" => d \in WayOut
      /\ \A d \in WayOut : d.dest = "default" /\ d # Runs!NoRoute /\ d.via \in Vias(setup.defaults)
  BY <1>2, WaysAre, WaysFound DEF RoutesInv, Table, WayOut
<1>4. TunMoves(r, "ok", gateway)
  BY <1>1, TunGoes
<1>5. /\ RoutesTyped' /\ Phases' /\ core.at \notin {"exited", "killed"}
      /\ tun'[r].at = "ok" /\ \A q \in AllRuns \ {r} : tun'[q] = tun[q]
      /\ WayOut' = WayOut /\ Runs!NoRoute' = Runs!NoRoute /\ TunRoute' = TunRoute
  BY <1>1, <1>2, <1>4, TunMoved DEF TunSteps
<1>6. setup' = setup /\ IF Blocking(r) THEN Lacking(gateway) ELSE Whole
  BY <1>1, <1>2 DEF Stage, Runs!TunStep
<1>7. IF Blocking(r) THEN /\ new \in WayOut /\ new.via = gateway.via
                          /\ routes' = routes \cup {new}
                          /\ \A d \in routes : d.dest = "default" => d.metric # 0
      ELSE routes' = routes
  <2>1. CASE Blocking(r)
    <3>1. gateway \in WayOut
      BY <1>2, <2>1 DEF Blocking
    <3>2. new \in WayOut /\ new.via = gateway.via /\ new.dest = "default" /\ new.metric = 0
      BY <1>3, <3>1 DEF WayOut, Runs!Route
    <3>3. \A d \in routes : d.dest = "default" => d.metric # 0
      BY <1>3, <1>6, <2>1 DEF Lacking
    <3>4. routes' = Runs!Added(new)
      BY <1>1, <2>1
    <3> HIDE DEF new, gateway
    <3>5. routes' = routes \cup {new}
      BY <3>2, <3>3, <3>4 DEF Runs!Added
    <3> QED BY <2>1, <3>2, <3>3, <3>5
  <2>2. CASE ~Blocking(r)
    BY <1>1, <2>2
  <2> QED BY <2>1, <2>2
<1> HIDE DEF new, gateway
<1>8. \A d \in routes' : d \in WayOut /\ d.dest = "default"
  BY <1>2, <1>3, <1>7 DEF RoutesInv, Table
<1>9. Runs!OutOfTun' = IF Blocking(r) THEN Runs!OutOfTun \cup {new} ELSE Runs!OutOfTun
  <2>1. Runs!OutOfTun' = routes' \cap WayOut
    BY <1>2, <1>6, <1>8, WaysAreThen
  <2> QED BY <1>3, <1>7, <2>1
<1>10. Table'
  <2>1. \A d, e \in routes' : d.dest = "default" /\ e.dest = "default" /\ d.metric = e.metric => d = e
    <3>1. CASE Blocking(r)
      <4>1. new.metric = 0
        BY DEF new, Runs!Route
      <4> QED BY <1>3, <1>7, <3>1, <4>1 DEF RoutesInv, Table
    <3>2. CASE ~Blocking(r)
      BY <1>7, <3>2 DEF RoutesInv, Table
    <3> QED BY <3>1, <3>2
  <2>2. TunRoute \notin routes'
    <3>1. TunRoute \notin WayOut
      BY <1>2, WaysAre DEF RoutesInv, Table
    <3> QED BY <1>8, <3>1
  <2>3. \A d \in routes' : d.dest # "server"
    BY <1>8
  <2> QED BY <1>5, <1>8, <2>1, <2>2, <2>3 DEF Table
<1>11. Whole'
  <2>1. CASE Blocking(r)
    <3>1. Vias(Runs!OutOfTun)' = {d.via : d \in Runs!OutOfTun'}
      BY DEF Vias
    <3>2. {d.via : d \in Runs!OutOfTun \cup {new}} = {d.via : d \in Runs!OutOfTun} \cup {new.via}
      OBVIOUS
    <3>3. Vias(Runs!OutOfTun)' = Vias(Runs!OutOfTun) \cup {gateway.via}
      BY <1>7, <1>9, <2>1, <3>1, <3>2 DEF Vias
    <3>4. Vias(setup.defaults)' = Vias(setup.defaults)
      BY <1>6 DEF Vias
    <3> QED BY <1>6, <2>1, <3>3, <3>4 DEF Whole, Lacking
  <2>2. CASE ~Blocking(r)
    BY <1>6, <1>9, <2>2 DEF Whole, Vias
  <2> QED BY <2>1, <2>2
<1>12. Holding'
  BY <1>1, <1>2, <1>5 DEF RoutesInv, Holding, InTun
<1>13. \A q \in AllRuns : Stage(q)'
  <2> SUFFICES ASSUME NEW q \in AllRuns PROVE Stage(q)'
    OBVIOUS
  <2>1. tun'[q].at \notin InTun
    BY <1>2, <1>5 DEF InTun
  <2> QED BY <2>1 DEF Stage, InTun
<1>14. Resting'
  BY <1>11 DEF Resting
<1>15. OneWayOut'
  <2> SUFFICES ASSUME \E d \in setup.defaults : setup.defaults = {d}
               PROVE  /\ \A d, e \in Runs!OutOfTun' : d = e
                      /\ \A q \in AllRuns : tun'[q].at \notin {"up", "leaving", "bare", "last", "cut"}
    BY <1>6 DEF OneWayOut
  <2>1. Blocking(r) => Runs!OutOfTun = {}
    BY <1>1 DEF RoutesInv, OneWayOut
  <2>2. \A d, e \in Runs!OutOfTun : d = e
    BY DEF RoutesInv, OneWayOut
  <2>3. \A q \in AllRuns : tun'[q].at \notin {"up", "leaving", "bare", "last", "cut"}
    BY <1>2, <1>5 DEF RoutesInv, Phases, InTun
  <2> QED BY <1>9, <2>1, <2>2, <2>3
<1> QED BY <1>5, <1>10, <1>12, <1>13, <1>14, <1>15 DEF RoutesInv

(* What the process leaves when no task is in the tunnel is the table as it is. *)
LEMMA Quiet ==
  ASSUME Runs!Valid, RoutesInv, \A r \in AllRuns : tun[r].at \notin InTun,
         core.at # "killed", setup' = setup, tun' = tun, later' = {}, device' \subseteq AllRuns,
         routes' = routes \/ Runs!Left,
         core' \in [at : CoreSteps, run : AllRuns, saw : {"none", "bridge", "proxy", "tun"}], Phases'
  PROVE  RoutesInv'
<1>1. /\ setup.defaults \in Defaults
      /\ \A d \in routes : d \in WayOut \/ d = TunRoute \/ d.dest = "server"
  BY DEF RoutesInv, RoutesTyped, Table
<1>2. \A d \in WayOut : d.via # "tun"
  BY <1>1, WaysFound
<1>3. \A d \in routes : d \in WayOut
  BY <1>1 DEF RoutesInv, Table, InTun
<1>4. routes' = routes
  BY <1>2, <1>3 DEF Runs!Left
<1>5. /\ WayOut' = WayOut /\ Runs!OutOfTun' = Runs!OutOfTun /\ Whole' = Whole
      /\ Runs!NoRoute' = Runs!NoRoute /\ TunRoute' = TunRoute
  BY <1>4 DEF WayOut, Vias, Runs!OutOfTun, Whole, Runs!NoRoute, Runs!Route, TunRoute
<1>6. RoutesTyped' /\ Holding'
  BY <1>5 DEF RoutesInv, RoutesTyped, Holding
<1>7. Table'
  BY <1>4, <1>5 DEF RoutesInv, Table
<1>8. \A r \in AllRuns : Stage(r)'
  BY DEF Stage, InTun
<1>9. Resting' /\ OneWayOut'
  BY <1>5 DEF RoutesInv, Resting, OneWayOut, Blocking
<1> QED BY <1>6, <1>7, <1>8, <1>9 DEF RoutesInv

LEMMA ReleaseStep ==
  ASSUME Runs!Valid, RoutesInv, NEW r \in AllRuns, Runs!Release(r)
  PROVE  RoutesInv'
<1>1. /\ r \in device /\ tun[r].at = "ok" /\ device' = device \ {r}
      /\ routes' = routes \/ Runs!Left
      /\ UNCHANGED <<setup, core, tun, later>>
  BY DEF Runs!Release
<1>2. /\ \A q \in AllRuns : tun[q].at \notin InTun
      /\ core.at # "killed" /\ later = {} /\ device \subseteq AllRuns
  BY <1>1 DEF RoutesInv, RoutesTyped, Holding, Phases, InTun
<1>3. Phases'
  BY <1>1, <1>2 DEF RoutesInv, Phases
<1> QED BY <1>1, <1>2, <1>3, Quiet DEF RoutesInv, RoutesTyped

LEMMA ExitStep ==
  ASSUME Runs!Valid, RoutesInv, Runs!Exit
  PROVE  RoutesInv'
<1>1. /\ core.at \in {"done", "panicked"} /\ \A r \in AllRuns : tun[r].at \in {"none", "ok", "err"}
      /\ core' = [core EXCEPT !.at = "exited"] /\ Runs!Left /\ device' = {} /\ later' = {}
      /\ UNCHANGED <<setup, tun>>
  BY DEF Runs!Exit, Runs!Gone
<1>2. /\ core' \in [at : CoreSteps, run : AllRuns, saw : {"none", "bridge", "proxy", "tun"}]
      /\ core'.at = "exited"
  BY <1>1 DEF RoutesInv, RoutesTyped, CoreSteps
<1>3. Phases'
  BY <1>1, <1>2 DEF Phases
<1>4. \A r \in AllRuns : tun[r].at \notin InTun
  BY <1>1 DEF InTun
<1> QED BY <1>1, <1>2, <1>3, <1>4, Quiet

(* The process is killed, with the routes as they are but those into the      *)
(* device.                                                                    *)
LEMMA KilledStep ==
  ASSUME Runs!Valid, RoutesInv, Runs!Killed
  PROVE  RoutesInv'
<1>1. /\ core' = [core EXCEPT !.at = "killed"] /\ setup' = setup
      /\ routes' = {d \in routes : d.via # "tun"} /\ device' = {} /\ later' = {}
      /\ tun' = [r \in AllRuns |-> [tun[r] EXCEPT !.at = IF @ = "up" THEN "cut" ELSE "ok"]]
  BY DEF Runs!Killed, Runs!Gone, Runs!Left
<1>2. /\ core' \in [at : CoreSteps, run : AllRuns, saw : {"none", "bridge", "proxy", "tun"}]
      /\ core'.at = "killed" /\ core.at # "killed"
  BY <1>1 DEF RoutesInv, RoutesTyped, CoreSteps, Runs!Killed
<1>3. /\ WayOut' = WayOut /\ Runs!NoRoute' = Runs!NoRoute /\ TunRoute' = TunRoute
      /\ setup.defaults \in Defaults
  BY <1>1 DEF WayOut, Vias, Runs!NoRoute, Runs!Route, TunRoute, RoutesInv, RoutesTyped
<1>4. ASSUME NEW r \in AllRuns
      PROVE  /\ tun'[r] \in [at : TunSteps, gateway : WayOut \cup {Runs!NoRoute}]
             /\ tun'[r].at = IF tun[r].at = "up" THEN "cut" ELSE "ok"
             /\ tun'[r].gateway = tun[r].gateway
  <2>1. tun[r] \in [at : TunSteps, gateway : WayOut \cup {Runs!NoRoute}]
    BY DEF RoutesInv, RoutesTyped
  <2>2. tun'[r] = [tun[r] EXCEPT !.at = IF tun[r].at = "up" THEN "cut" ELSE "ok"]
    BY <1>1
  <2> QED BY <2>1, <2>2 DEF TunSteps
<1>5. RoutesTyped'
  <2>1. tun' = [r \in AllRuns |-> tun'[r]]
    BY <1>1
  <2>2. tun' \in [AllRuns -> [at : TunSteps, gateway : WayOut \cup {Runs!NoRoute}]]
    BY <1>4, <2>1
  <2> QED BY <1>1, <1>2, <1>3, <2>2 DEF RoutesTyped
<1>6. Holding'
  BY <1>4 DEF Holding, InTun
<1>7. Phases'
  BY <1>1, <1>2, <1>4 DEF Phases
<1>8. TunRoute \notin routes'
  BY <1>1 DEF TunRoute, Runs!Route
<1>9. Table'
  BY <1>1, <1>2, <1>3, <1>8 DEF RoutesInv, Table
<1>10. (\A r \in AllRuns : Stage(r)') /\ Resting'
  BY <1>2, <1>4 DEF Stage, Resting
<1>11. Runs!OutOfTun' = Runs!OutOfTun
  BY <1>1 DEF Runs!OutOfTun
<1>12. OneWayOut'
  <2> SUFFICES ASSUME \E d \in setup.defaults : setup.defaults = {d}
               PROVE  /\ \A d, e \in Runs!OutOfTun' : d = e
                      /\ \A r \in AllRuns : tun'[r].at = "cut" /\ Blocking(r)' => Runs!OutOfTun' = {}
    BY <1>1, <1>4 DEF OneWayOut
  <2>1. \A r \in AllRuns : tun'[r].at = "cut" /\ Blocking(r)' => tun[r].at = "up" /\ Blocking(r)
    BY <1>1, <1>3, <1>4 DEF Blocking
  <2> QED BY <1>11, <2>1 DEF RoutesInv, OneWayOut
<1> QED BY <1>5, <1>6, <1>7, <1>9, <1>10, <1>12 DEF RoutesInv

--------------------------------------------------------------------------------
(* What the invariant says of the routes.                                     *)

LEMMA RoutesFollow ==
  ASSUME Runs!Valid, Runs!Linux, RoutesInv
  PROVE  Runs!RoutesSound
<1>0. setup.defaults \in Defaults
  BY DEF RoutesInv, RoutesTyped
<1>1. Runs!ServerOutsideTunnel
  <2>1. CASE TunRoute \in routes
    <3>1. PICK r \in AllRuns : tun[r].at \in {"original", "up", "leaving"} /\ tun[r].gateway # Runs!NoRoute
      BY <2>1 DEF RoutesInv, Table
    <3>2. Stage(r)
      BY DEF RoutesInv
    <3>3. \E d \in routes : d.dest = "server"
      BY <3>1, <3>2 DEF Stage
    <3> QED BY <3>3 DEF Runs!ServerOutsideTunnel
  <2>2. CASE TunRoute \notin routes
    BY <2>2 DEF Runs!ServerOutsideTunnel, TunRoute
  <2> QED BY <2>1, <2>2
<1>2. Runs!KillSwitchBlocks
  <2> SUFFICES ASSUME setup.kill_switch, Runs!Cardinality(setup.defaults) = 1,
                      NEW r \in AllRuns, tun[r].at \in {"up", "cut"}, tun[r].gateway # Runs!NoRoute
               PROVE  Runs!OutOfTun = {}
    BY DEF Runs!KillSwitchBlocks
  <2>1. Cardinality(setup.defaults) = 1
    BY DEF Runs!Cardinality, Runs!IsFiniteSet, Cardinality, IsFiniteSet
  <2>2. IsFiniteSet(setup.defaults)
    BY <1>0, WaysFound
  <2>3. \E d : setup.defaults = {d}
    BY <2>1, <2>2, FS_Singleton
  <2>4. \E d \in setup.defaults : setup.defaults = {d}
    BY <2>3
  <2> QED BY <2>4 DEF RoutesInv, OneWayOut, Blocking
<1>3. Runs!RoutesRestored
  <2> SUFFICES ASSUME core.at = "exited"
               PROVE  /\ {d.via : d \in routes} = {d.via : d \in setup.defaults}
                      /\ \A d \in routes : d.dest = "default"
    BY DEF Runs!RoutesRestored
  <2>1. \A r \in AllRuns : tun[r].at \in {"none", "ok", "err"}
    BY DEF RoutesInv, Phases
  <2>2. Whole
    BY <2>1 DEF RoutesInv, Resting, InTun
  <2>3. \A d \in routes : d \in WayOut
    BY <2>1 DEF RoutesInv, Table
  <2>4. Runs!OutOfTun = routes /\ \A d \in WayOut : d.dest = "default"
    BY <1>0, <2>3, WaysAre, WaysFound
  <2> QED BY <2>2, <2>3, <2>4 DEF Whole, Vias
<1> QED BY <1>1, <1>2, <1>3 DEF Runs!RoutesSound

(* The invariant is one of Linux: Windows has no such promises.               *)
RoutesKept == Runs!Linux => RoutesInv

LEMMA RoutesKeptNext ==
  ASSUME Runs!Valid, RoutesKept, [PartsNext]_partsVars
  PROVE  RoutesKept'
<1> SUFFICES ASSUME Runs!Linux' PROVE RoutesInv'
  BY DEF RoutesKept
<1>1. CASE UNCHANGED clientRuns
  <2>1. Runs!Linux /\ RoutesInv
    BY <1>1 DEF clientRuns, Runs!Linux, RoutesKept
  <2>2. UNCHANGED <<setup, device, routes, later, tun, core>>
    BY <1>1 DEF clientRuns
  <2>3. WayOut' = WayOut /\ Runs!OutOfTun' = Runs!OutOfTun /\ Runs!NoRoute' = Runs!NoRoute /\ TunRoute' = TunRoute
    BY <2>2 DEF WayOut, Vias, Runs!OutOfTun, Runs!NoRoute, Runs!Route, TunRoute
  <2>4. RoutesTyped' /\ Holding' /\ Phases' /\ Table'
    BY <2>1, <2>2, <2>3 DEF RoutesInv, RoutesTyped, Holding, Phases, Table
  <2>5. (\A r \in AllRuns : Stage(r)') /\ Resting' /\ OneWayOut'
    BY <2>1, <2>2, <2>3 DEF RoutesInv, Stage, Resting, OneWayOut, Blocking, Lacking, Whole, Vias
  <2> QED BY <2>4, <2>5 DEF RoutesInv
<1>2. CASE Runs!Next
  <2>1. setup' = setup
    BY <1>2 DEF Runs!Next, Runs!Core, Runs!Resolve, Runs!Noticed, Runs!Joined, Runs!Waited, Runs!Checked,
           Runs!Ask, Runs!Exit, Runs!Killed, Runs!TaskEnds, Runs!Tun, Runs!Prepare, Runs!Create,
           Runs!Bypass, Runs!Default, Runs!Original, Runs!Leave, Runs!DropDefault, Runs!DropServer,
           Runs!Restore, Runs!TunStep, Runs!Release, Runs!Later
  <2>2. Runs!Linux /\ RoutesInv /\ later = {}
    BY <2>1 DEF Runs!Linux, RoutesKept, RoutesInv, RoutesTyped
  <2>3. CASE Runs!Core \/ Runs!Ask \/ \E r \in AllRuns, t \in {"bridge", "proxy"} : Runs!TaskEnds(r, t)
    <3>1. CASE Runs!Resolve(TRUE)
      BY <2>2, <3>1, RunStarts
    <3>2. CASE ~Runs!Resolve(TRUE)
      <4>1. Runs!Core => Runs!Noticed \/ Runs!Joined \/ Runs!Waited \/ Runs!Checked \/ Runs!Resolve(FALSE)
        <5>1. (\E works \in BOOLEAN : Runs!Resolve(works)) => Runs!Resolve(TRUE) \/ Runs!Resolve(FALSE)
          OBVIOUS
        <5> QED BY <3>2, <5>1, Zenon DEF Runs!Core
      <4> QED BY <2>2, <2>3, <4>1, CoreOnly
    <3> QED BY <3>1, <3>2
  <2>4. ASSUME NEW r \in AllRuns, Runs!Tun(r)
        PROVE  RoutesInv'
    BY <2>2, <2>4, PrepareStep, BypassStep, DefaultStep, OriginalStep, LeaveStep, DropDefaultStep,
       DropServerStep, RestoreStep, Zenon DEF Runs!Tun
  <2>5. ASSUME NEW r \in AllRuns, Runs!Release(r)
        PROVE  RoutesInv'
    BY <2>2, <2>5, ReleaseStep
  <2>6. CASE Runs!Exit \/ Runs!Killed
    BY <2>2, <2>6, ExitStep, KilledStep
  <2>7. ~(\E c \in later : Runs!Later(c))
    BY <2>2
  <2>8. (\E r \in AllRuns : Runs!TaskEnds(r, "bridge") \/ Runs!TaskEnds(r, "proxy")) =>
          \E r \in AllRuns, t \in {"bridge", "proxy"} : Runs!TaskEnds(r, t)
    OBVIOUS
  <2> QED BY <1>2, <2>3, <2>4, <2>5, <2>6, <2>7, <2>8, Zenon DEF Runs!Next
<1> QED BY <1>1, <1>2 DEF PartsNext, partsVars

(* The server is reached past the tunnel whenever the default route leads     *)
(* into it, the kill switch leaves no other way out of a system with one,     *)
(* also when the process is killed, and what a client that stopped leaves are *)
(* the ways out it found: for any number of runs and any default routes, with *)
(* every command of every task in any order with the steps of the loop        *)
(* (ostp-tun linux.rs, native_handler.rs, runner.rs).                         *)
THEOREM RoutesAreSound == PartsSpec => []RoutesSound
<1> USE ClientAssumption
<1>1. PartsInit => RoutesKept
  BY RoutesInvInit DEF PartsInit, RoutesKept
<1>2. RoutesKept /\ [PartsNext]_partsVars => RoutesKept'
  BY RoutesKeptNext
<1>3. RoutesKept => RoutesSound
  <2>1. ~Runs!Linux => Runs!RoutesSound
    BY DEF Runs!RoutesSound, Runs!ServerOutsideTunnel, Runs!KillSwitchBlocks, Runs!RoutesRestored
  <2> QED BY <2>1, RoutesFollow DEF RoutesKept, RoutesSound
<1> QED BY <1>1, <1>2, <1>3, PTL DEF PartsSpec

--------------------------------------------------------------------------------
(* The flows of the device.                                                   *)

SessionRecord ==
  [task : {"none", "opening", "open", "ended"}, way : {"none", "direct", "proxied"}, queue : Seq(Remotes),
   first : Remotes \cup {"none"}, rules : Choices \cup {Flows!NoRules}]
ConnRecord ==
  [at : {"none", "sniffing", "decided", "connecting", "copying", "ended"}, way : {"none", "direct", "proxied"},
   rules : Choices \cup {Flows!NoRules}, read : Nat, hello : BOOLEAN]

FlowsTyped ==
  /\ matcher \in Choices
  /\ session \in [Sockets -> SessionRecord] /\ lost \in [Sockets -> Nat]
  /\ conn \in [Conns -> ConnRecord] /\ out \in [Conns -> Seq(Nat)]

(* A session has the way of its first datagram, and its socket has lost none; *)
(* one datagram is lost with the entry of a session that ended.               *)
Settled(s) ==
  /\ lost[s] <= 1
  /\ session[s].task # "none" =>
       session[s].way = Flows!UdpWay(session[s].rules, s, session[s].first) /\ lost[s] = 0

(* What left last left the session it says, which is open still.              *)
LeftOpen ==
  left # Flows!NoDatagram =>
    left.from \in Sockets /\ session[left.from].task = "open" /\ left.way = session[left.from].way

(* A connection has no way until its first bytes were looked at, and keeps    *)
(* the one it got.                                                            *)
Decided(c) ==
  /\ conn[c].at \in {"none", "sniffing", "decided"} => conn[c].way = "none"
  /\ conn[c].way # "none" => conn[c].way = Flows!TcpWay(c)
  /\ conn[c].at \in {"decided", "connecting"} => conn[c].read \in {0, 1}
  /\ conn[c].at = "copying" => out[c] = [i \in 1..conn[c].read |-> i]

FlowsInv ==
  FlowsTyped /\ (\A s \in Sockets : Settled(s)) /\ LeftOpen /\ (\A c \in Conns : Decided(c))

LEMMA FlowsInvInit ==
  ASSUME Flows!Init
  PROVE  FlowsInv
<1>1. /\ session = [s \in Sockets |-> Flows!NoSession] /\ lost = [s \in Sockets |-> 0]
      /\ conn = [c \in Conns |-> Flows!NoConn] /\ out = [c \in Conns |-> <<>>]
      /\ matcher \in Choices /\ left = Flows!NoDatagram
  BY DEF Flows!Init
<1>2. Flows!NoSession \in SessionRecord /\ Flows!NoSession.task = "none"
  BY DEF Flows!NoSession, SessionRecord
<1>3. Flows!NoConn \in ConnRecord /\ Flows!NoConn.at = "none" /\ Flows!NoConn.way = "none"
  BY DEF Flows!NoConn, ConnRecord
<1>4. FlowsTyped
  BY <1>1, <1>2, <1>3 DEF FlowsTyped
<1>5. \A s \in Sockets : Settled(s)
  <2> TAKE s \in Sockets
  <2>1. session[s].task = "none" /\ lost[s] = 0
    BY <1>1, <1>2
  <2> QED BY <2>1 DEF Settled
<1>6. LeftOpen
  BY <1>1 DEF LeftOpen
<1>7. \A c \in Conns : Decided(c)
  BY <1>1, <1>3 DEF Decided
<1> QED BY <1>4, <1>5, <1>6, <1>7 DEF FlowsInv

(* What happens to one session is nothing to the others.                      *)
LEMMA SessionMoves ==
  ASSUME FlowsInv, UNCHANGED <<matcher, owner, conn, target, out>>,
         session' \in [Sockets -> SessionRecord], lost' \in [Sockets -> Nat],
         \A s \in Sockets : Settled(s)', LeftOpen'
  PROVE  FlowsInv'
<1>1. FlowsTyped'
  BY DEF FlowsInv, FlowsTyped, SessionRecord, ConnRecord, Flows!NoRules
<1>2. \A c \in Conns : Decided(c)'
  BY DEF FlowsInv, Decided, Flows!TcpWay, Flows!ExcludedProcess, Flows!MatchDomain, Flows!MatchIp
<1> QED BY <1>1, <1>2 DEF FlowsInv

LEMMA OneSession ==
  ASSUME FlowsInv, NEW s \in Sockets, NEW new \in SessionRecord,
         UNCHANGED <<matcher, owner, conn, target, out>>,
         session' = [session EXCEPT ![s] = new],
         lost' \in [Sockets -> Nat], \A q \in Sockets \ {s} : lost'[q] = lost[q], lost'[s] <= 1,
         new.task # "none" => new.way = Flows!UdpWay(new.rules, s, new.first) /\ lost'[s] = 0,
         \/ left' = Flows!NoDatagram
         \/ new.task = "open" /\ left'.from = s /\ left'.way = new.way
  PROVE  FlowsInv'
<1>1. session \in [Sockets -> SessionRecord]
  BY DEF FlowsInv, FlowsTyped
<1>2. session' \in [Sockets -> SessionRecord]
  BY <1>1
<1>3. /\ session'[s] = new
      /\ \A q \in Sockets \ {s} : session'[q] = session[q] /\ lost'[q] = lost[q]
  BY <1>1
<1>4. \A q \in Sockets : Settled(q)'
  <2> SUFFICES ASSUME NEW q \in Sockets PROVE Settled(q)'
    OBVIOUS
  <2>1. CASE q = s
    BY <1>3, <2>1 DEF Settled, Flows!UdpWay, Flows!MatchIp, Flows!ExcludedProcess
  <2>2. CASE q # s
    <3>1. Settled(q) /\ session'[q] = session[q] /\ lost'[q] = lost[q]
      BY <1>3, <2>2 DEF FlowsInv
    <3> QED BY <3>1 DEF Settled, Flows!UdpWay, Flows!MatchIp, Flows!ExcludedProcess
  <2> QED BY <2>1, <2>2
<1>5. LeftOpen'
  <2>1. Flows!NoDatagram' = Flows!NoDatagram
    BY DEF Flows!NoDatagram
  <2> QED BY <1>3, <2>1 DEF LeftOpen
<1> QED BY <1>2, <1>4, <1>5, SessionMoves

LEMMA SessionEnds ==
  ASSUME FlowsInv, NEW s \in Sockets, Flows!Ended(s), Flows!TaskStep(s), session[s].task # "none"
  PROVE  FlowsInv'
<1> DEFINE new == IF nat = "runs" THEN [session[s] EXCEPT !.task = "ended", !.queue = <<>>]
                  ELSE Flows!NoSession
<1>1. session' = [session EXCEPT ![s] = new]
  BY DEF Flows!Ended
<1>2. /\ left' = Flows!NoDatagram /\ UNCHANGED <<matcher, owner, lost, conn, target, out>>
  BY DEF Flows!TaskStep, Flows!tcpVars
<1>3. session[s] \in SessionRecord /\ lost \in [Sockets -> Nat]
  BY DEF FlowsInv, FlowsTyped
<1>4. Settled(s)
  BY DEF FlowsInv
<1>5. lost' = lost /\ lost \in [Sockets -> Nat]
  BY <1>2, <1>3
<1>6. /\ new \in SessionRecord
      /\ nat = "runs" => /\ new.task = "ended" /\ new.way = session[s].way
                         /\ new.first = session[s].first /\ new.rules = session[s].rules
      /\ nat # "runs" => new.task = "none"
  <2>1. CASE nat = "runs"
    <3>1. new = [session[s] EXCEPT !.task = "ended", !.queue = <<>>]
      BY <2>1
    <3>2. <<>> \in Seq(Remotes)
      OBVIOUS
    <3> QED BY <1>3, <2>1, <3>1, <3>2 DEF SessionRecord
  <2>2. CASE nat # "runs"
    <3>1. new = Flows!NoSession
      BY <2>2
    <3> QED BY <2>2, <3>1 DEF SessionRecord, Flows!NoSession
  <2> QED BY <2>1, <2>2
<1>7. lost[s] <= 1 /\ (new.task # "none" => new.way = Flows!UdpWay(new.rules, s, new.first) /\ lost[s] = 0)
  BY <1>4, <1>6 DEF Settled
<1> HIDE DEF new
<1> QED BY <1>1, <1>2, <1>5, <1>6, <1>7, OneSession

LEMMA PacketStep ==
  ASSUME Flows!Valid, FlowsInv, NEW s \in Sockets, NEW to \in Remotes, Flows!Packet(s, to)
  PROVE  FlowsInv'
<1>1. /\ left' = Flows!NoDatagram /\ UNCHANGED <<matcher, owner, conn, target, out>>
  BY DEF Flows!Packet, Flows!tcpVars
<1>2. /\ session \in [Sockets -> SessionRecord] /\ lost \in [Sockets -> Nat] /\ matcher \in Choices
      /\ session[s] \in SessionRecord /\ lost[s] \in Nat /\ Settled(s)
  BY DEF FlowsInv, FlowsTyped
<1>3. CASE session[s].task = "none"
  <2> DEFINE way == Flows!UdpWay(matcher, s, to)
             new == [task |-> "opening", way |-> way, queue |-> <<to>>, first |-> to, rules |-> matcher]
  <2>1. session' = [session EXCEPT ![s] = new] /\ lost' = [lost EXCEPT ![s] = 0]
    BY <1>3 DEF Flows!Packet
  <2>2. way \in {"direct", "proxied"}
    BY DEF Flows!UdpWay
  <2>3. new \in SessionRecord /\ new.way = Flows!UdpWay(new.rules, s, new.first)
    BY <1>2, <2>2 DEF SessionRecord
  <2>4. lost' \in [Sockets -> Nat] /\ lost'[s] = 0 /\ lost'[s] <= 1 /\ \A q \in Sockets \ {s} : lost'[q] = lost[q]
    BY <1>2, <2>1
  <2> HIDE DEF new
  <2> QED BY <1>1, <2>1, <2>3, <2>4, OneSession
<1>4. CASE session[s].task = "ended"
  <2>1. session' = [session EXCEPT ![s] = Flows!NoSession] /\ lost' = [lost EXCEPT ![s] = 1]
    BY <1>2, <1>4 DEF Flows!Packet, Flows!Dropped, Settled
  <2>2. Flows!NoSession \in SessionRecord /\ Flows!NoSession.task = "none"
    BY DEF SessionRecord, Flows!NoSession
  <2>3. lost' \in [Sockets -> Nat] /\ lost'[s] = 1 /\ lost'[s] <= 1 /\ \A q \in Sockets \ {s} : lost'[q] = lost[q]
    BY <1>2, <2>1
  <2> QED BY <1>1, <2>1, <2>2, <2>3, OneSession
<1>5. CASE session[s].task \in {"opening", "open"}
  <2> DEFINE queue == IF Len(session[s].queue) < QueueMax THEN Append(session[s].queue, to)
                      ELSE session[s].queue
             new   == [session[s] EXCEPT !.queue = queue]
  <2>1. session' = [session EXCEPT ![s] = new] /\ lost' = lost
    BY <1>5 DEF Flows!Packet
  <2>2. queue \in Seq(Remotes)
    BY <1>2 DEF SessionRecord
  <2>3. /\ new \in SessionRecord /\ new.task = session[s].task /\ new.way = session[s].way
        /\ new.first = session[s].first /\ new.rules = session[s].rules
    <3> HIDE DEF queue
    <3> QED BY <1>2, <2>2 DEF SessionRecord
  <2> HIDE DEF new
  <2>5. lost[s] <= 1 /\ (new.task # "none" => new.way = Flows!UdpWay(new.rules, s, new.first) /\ lost[s] = 0)
    BY <1>2, <2>3 DEF Settled
  <2> QED BY <1>1, <1>2, <2>1, <2>3, <2>5, OneSession
<1> QED BY <1>2, <1>3, <1>4, <1>5 DEF SessionRecord

LEMMA SessionServes ==
  ASSUME FlowsInv, NEW s \in Sockets, Flows!Opened(s) \/ Flows!Sends(s)
  PROVE  FlowsInv'
<1>1. UNCHANGED <<matcher, owner, lost, conn, target, out>> /\ session[s].task \in {"opening", "open"}
  BY DEF Flows!Opened, Flows!Sends, Flows!TaskStep, Flows!tcpVars
<1>2. /\ session \in [Sockets -> SessionRecord] /\ session[s] \in SessionRecord
      /\ lost \in [Sockets -> Nat] /\ lost[s] \in Nat /\ Settled(s)
  BY DEF FlowsInv, FlowsTyped
<1>4. CASE Flows!Opened(s)
  <2> DEFINE new == [session[s] EXCEPT !.task = "open"]
  <2>1. session' = [session EXCEPT ![s] = new] /\ left' = Flows!NoDatagram
    BY <1>4 DEF Flows!Opened, Flows!TaskStep
  <2>2. /\ new \in SessionRecord /\ new.way = session[s].way
        /\ new.first = session[s].first /\ new.rules = session[s].rules
    BY <1>2 DEF SessionRecord
  <2> HIDE DEF new
  <2>3. lost[s] <= 1 /\ new.way = Flows!UdpWay(new.rules, s, new.first) /\ lost[s] = 0
    BY <1>1, <1>2, <2>2 DEF Settled
  <2> QED BY <1>1, <1>2, <2>1, <2>2, <2>3, OneSession
<1>5. CASE Flows!Sends(s)
  <2> DEFINE new == [session[s] EXCEPT !.queue = Tail(session[s].queue)]
  <2>1. /\ session' = [session EXCEPT ![s] = new] /\ session[s].queue # <<>> /\ session[s].task = "open"
        /\ left' = [from |-> s, to |-> Head(session[s].queue), way |-> session[s].way]
    BY <1>5 DEF Flows!Sends
  <2>2. Tail(session[s].queue) \in Seq(Remotes)
    BY <1>2, <2>1 DEF SessionRecord
  <2>3. /\ new \in SessionRecord /\ new.way = session[s].way /\ new.task = session[s].task
        /\ new.first = session[s].first /\ new.rules = session[s].rules
    BY <1>2, <2>2 DEF SessionRecord
  <2> HIDE DEF new
  <2>4. lost[s] <= 1 /\ new.way = Flows!UdpWay(new.rules, s, new.first) /\ lost[s] = 0
    BY <1>1, <1>2, <2>3 DEF Settled
  <2>5. left'.from = s /\ left'.way = new.way
    BY <2>1, <2>3
  <2> QED BY <1>1, <1>2, <2>1, <2>3, <2>4, <2>5, OneSession
<1> QED BY <1>4, <1>5

(* The entries of closed sessions go.                                         *)
LEMMA CleanupStep ==
  ASSUME FlowsInv, Flows!Cleanup \/ Flows!NatEnds
  PROVE  FlowsInv'
<1>1. /\ left' = Flows!NoDatagram /\ UNCHANGED <<matcher, owner, lost, conn, target, out>>
      /\ session' = [s \in Sockets |-> IF session[s].task = "ended" THEN Flows!NoSession ELSE session[s]]
  BY DEF Flows!Cleanup, Flows!NatEnds, Flows!tcpVars
<1>2. session \in [Sockets -> SessionRecord] /\ lost \in [Sockets -> Nat]
  BY DEF FlowsInv, FlowsTyped
<1>3. Flows!NoSession \in SessionRecord /\ Flows!NoSession.task = "none"
  BY DEF SessionRecord, Flows!NoSession
<1>4. session' \in [Sockets -> SessionRecord]
  BY <1>1, <1>2, <1>3
<1>5. \A s \in Sockets : Settled(s)'
  <2> SUFFICES ASSUME NEW s \in Sockets PROVE Settled(s)'
    OBVIOUS
  <2>1. Settled(s) /\ lost'[s] = lost[s] /\ (session'[s] = session[s] \/ session'[s] = Flows!NoSession)
    BY <1>1 DEF FlowsInv
  <2> QED BY <1>1, <1>3, <2>1 DEF Settled, Flows!UdpWay, Flows!MatchIp, Flows!ExcludedProcess
<1>6. LeftOpen'
  BY <1>1 DEF LeftOpen, Flows!NoDatagram
<1> QED BY <1>1, <1>2, <1>4, <1>5, <1>6, SessionMoves

LEMMA OneConn ==
  ASSUME FlowsInv, NEW c \in Conns, NEW new \in ConnRecord,
         UNCHANGED <<matcher, owner, session, left, lost, target>>,
         conn' = [conn EXCEPT ![c] = new],
         out' \in [Conns -> Seq(Nat)], \A d \in Conns \ {c} : out'[d] = out[d],
         Decided(c)'
  PROVE  FlowsInv'
<1>1. conn \in [Conns -> ConnRecord]
  BY DEF FlowsInv, FlowsTyped
<1>2. conn' \in [Conns -> ConnRecord] /\ \A d \in Conns \ {c} : conn'[d] = conn[d]
  BY <1>1
<1>3. FlowsTyped'
  BY <1>2 DEF FlowsInv, FlowsTyped, SessionRecord, ConnRecord, Flows!NoRules
<1>4. \A s \in Sockets : Settled(s)'
  BY DEF FlowsInv, Settled, Flows!UdpWay, Flows!MatchIp, Flows!ExcludedProcess
<1>5. LeftOpen'
  BY DEF FlowsInv, LeftOpen, Flows!NoDatagram
<1>6. \A d \in Conns : Decided(d)'
  <2> SUFFICES ASSUME NEW d \in Conns \ {c} PROVE Decided(d)'
    OBVIOUS
  <2>1. Decided(d) /\ conn'[d] = conn[d] /\ out'[d] = out[d]
    BY <1>2 DEF FlowsInv
  <2> QED BY <2>1 DEF Decided, Flows!TcpWay, Flows!ExcludedProcess, Flows!MatchDomain, Flows!MatchIp
<1> QED BY <1>3, <1>4, <1>5, <1>6 DEF FlowsInv

(* Until it is connected nothing of a connection was passed on.               *)
LEMMA ConnOpens ==
  ASSUME FlowsInv, NEW c \in Conns,
         Flows!Accept(c) \/ Flows!Sniffed(c) \/ Flows!Connect(c)
  PROVE  FlowsInv'
<1>1. /\ UNCHANGED <<matcher, owner, session, left, lost, target, out>>
      /\ conn[c].at \in {"none", "sniffing", "decided"}
  BY DEF Flows!Accept, Flows!Sniffed, Flows!Connect, Flows!TcpStep, Flows!natVars
<1>2. /\ conn \in [Conns -> ConnRecord] /\ conn[c] \in ConnRecord /\ matcher \in Choices
      /\ out \in [Conns -> Seq(Nat)] /\ Decided(c)
  BY DEF FlowsInv, FlowsTyped
<1>3. CASE Flows!Accept(c)
  <2> DEFINE new == [conn[c] EXCEPT !.at = "sniffing", !.rules = matcher]
  <2>1. conn' = [conn EXCEPT ![c] = new] /\ conn[c].at = "none"
    BY <1>2, <1>3 DEF Flows!Accept
  <2>2. new \in ConnRecord /\ new.at = "sniffing" /\ new.way = conn[c].way
    BY <1>2 DEF ConnRecord
  <2> HIDE DEF new
  <2>3. conn'[c] = new
    BY <1>2, <2>1
  <2>4. Decided(c)'
    BY <1>2, <2>1, <2>2, <2>3 DEF Decided
  <2> QED BY <1>1, <1>2, <2>1, <2>2, <2>4, OneConn
<1>4. CASE Flows!Sniffed(c)
  <2>1. PICK read \in {0, 1} : \E whole \in BOOLEAN :
          conn' = [conn EXCEPT ![c].at = "decided", ![c].read = read, ![c].hello = whole /\ read = 1]
    BY <1>4 DEF Flows!Sniffed
  <2>2. PICK whole \in BOOLEAN :
          conn' = [conn EXCEPT ![c].at = "decided", ![c].read = read, ![c].hello = whole /\ read = 1]
    BY <2>1
  <2> DEFINE hello == whole /\ read = 1
             new   == [conn[c] EXCEPT !.at = "decided", !.read = read, !.hello = hello]
  <2>3. conn' = [conn EXCEPT ![c] = new]
    BY <1>2, <2>2
  <2>4. hello \in BOOLEAN
    OBVIOUS
  <2>8. read \in {0, 1} /\ read \in Nat
    BY <2>1
  <2> HIDE DEF hello
  <2>5. new \in ConnRecord /\ new.at = "decided" /\ new.way = conn[c].way /\ new.read = read
    BY <1>2, <2>4, <2>8 DEF ConnRecord
  <2> HIDE DEF new
  <2>6. conn'[c] = new
    BY <1>2, <2>3
  <2>7. Decided(c)'
    BY <1>1, <1>2, <2>5, <2>6, <2>8 DEF Decided
  <2> QED BY <1>1, <1>2, <2>3, <2>5, <2>7, OneConn
<1>5. CASE Flows!Connect(c)
  <2> DEFINE way == Flows!TcpWay(c)
             new == [conn[c] EXCEPT !.at = "connecting", !.way = way]
  <2>1. conn' = [conn EXCEPT ![c] = new] /\ conn[c].at = "decided"
    BY <1>2, <1>5 DEF Flows!Connect
  <2>2. way \in {"direct", "proxied"}
    BY DEF Flows!TcpWay
  <2> HIDE DEF way
  <2>3. /\ new \in ConnRecord /\ new.at = "connecting" /\ new.way = way /\ new.read = conn[c].read
        /\ new.rules = conn[c].rules /\ new.hello = conn[c].hello
    BY <1>2, <2>2 DEF ConnRecord
  <2> HIDE DEF new
  <2>4. conn'[c] = new
    BY <1>2, <2>1
  <2>5. Flows!TcpWay(c)' = way
    BY <1>1, <2>3, <2>4 DEF way, Flows!TcpWay, Flows!ExcludedProcess, Flows!MatchDomain, Flows!MatchIp
  <2>6. Decided(c)'
    BY <1>2, <2>1, <2>3, <2>4, <2>5 DEF Decided
  <2> QED BY <1>1, <1>2, <2>1, <2>3, <2>6, OneConn
<1> QED BY <1>3, <1>4, <1>5

LEMMA ConnCopies ==
  ASSUME FlowsInv, NEW c \in Conns,
         Flows!Connected(c) \/ Flows!ConnectFails(c) \/ Flows!Copy(c) \/ Flows!TcpEnds(c)
  PROVE  FlowsInv'
<1>1. /\ UNCHANGED <<matcher, owner, session, left, lost, target>>
      /\ conn[c].at \in {"connecting", "copying"}
  BY DEF Flows!Connected, Flows!ConnectFails, Flows!Copy, Flows!TcpEnds, Flows!TcpStep, Flows!natVars
<1>2. /\ conn \in [Conns -> ConnRecord] /\ conn[c] \in ConnRecord
      /\ out \in [Conns -> Seq(Nat)] /\ Decided(c)
  BY DEF FlowsInv, FlowsTyped
<1>3. ASSUME NEW at \in {"copying", "ended"}, NEW read \in Nat,
             conn' = [conn EXCEPT ![c] = [conn[c] EXCEPT !.at = at, !.read = read]],
             out' \in [Conns -> Seq(Nat)], \A d \in Conns \ {c} : out'[d] = out[d],
             at = "copying" => out'[c] = [i \in 1..read |-> i]
      PROVE  FlowsInv'
  <2> DEFINE new == [conn[c] EXCEPT !.at = at, !.read = read]
  <2>1. /\ new \in ConnRecord /\ new.at = at /\ new.way = conn[c].way /\ new.read = read
        /\ new.rules = conn[c].rules /\ new.hello = conn[c].hello
    BY <1>2 DEF ConnRecord
  <2>2. conn' = [conn EXCEPT ![c] = new]
    BY <1>3
  <2> HIDE DEF new
  <2>3. conn'[c] = new
    BY <1>2, <2>2
  <2>4. Flows!TcpWay(c)' = Flows!TcpWay(c)
    BY <1>1, <2>1, <2>3 DEF Flows!TcpWay, Flows!ExcludedProcess, Flows!MatchDomain, Flows!MatchIp
  <2>5. Decided(c)'
    BY <1>2, <1>3, <2>1, <2>3, <2>4 DEF Decided
  <2> QED BY <1>1, <1>3, <2>1, <2>2, <2>5, OneConn
<1>4. conn[c] = [conn[c] EXCEPT !.read = conn[c].read] /\ conn[c].read \in Nat
  BY <1>2 DEF ConnRecord
<1>5. \A at : [conn[c] EXCEPT !.at = at] = [conn[c] EXCEPT !.at = at, !.read = conn[c].read]
  BY <1>2 DEF ConnRecord
<1>6. CASE Flows!ConnectFails(c) \/ Flows!TcpEnds(c)
  <2>1. conn' = [conn EXCEPT ![c] = [conn[c] EXCEPT !.at = "ended"]] /\ out' = out
    BY <1>6 DEF Flows!ConnectFails, Flows!TcpEnds
  <2>2. conn' = [conn EXCEPT ![c] = [conn[c] EXCEPT !.at = "ended", !.read = conn[c].read]]
    BY <1>5, <2>1
  <2> QED BY <1>2, <1>3, <1>4, <2>1, <2>2
<1>7. CASE Flows!Connected(c)
  <2>1. /\ conn' = [conn EXCEPT ![c] = [conn[c] EXCEPT !.at = "copying"]]
        /\ out' = [out EXCEPT ![c] = Flows!Replayed(c)] /\ conn[c].at = "connecting"
    BY <1>7 DEF Flows!Connected
  <2>2. conn' = [conn EXCEPT ![c] = [conn[c] EXCEPT !.at = "copying", !.read = conn[c].read]]
    BY <1>5, <2>1
  <2>3. conn[c].read \in {0, 1}
    BY <1>2, <2>1 DEF Decided
  <2>4. Flows!Replayed(c) \in Seq(Nat) /\ Flows!Replayed(c) = [i \in 1..conn[c].read |-> i]
    BY <2>3 DEF Flows!Replayed
  <2>5. out' \in [Conns -> Seq(Nat)] /\ out'[c] = Flows!Replayed(c) /\ \A d \in Conns \ {c} : out'[d] = out[d]
    BY <1>2, <2>1, <2>4
  <2> QED BY <1>3, <1>4, <2>2, <2>4, <2>5
<1>8. CASE Flows!Copy(c)
  <2> DEFINE read == conn[c].read + 1
             more == Append(out[c], read)
  <2>1. /\ conn' = [conn EXCEPT ![c].read = read] /\ out' = [out EXCEPT ![c] = more]
        /\ conn[c].at = "copying"
    BY <1>8 DEF Flows!Copy
  <2>2. read \in Nat /\ more \in Seq(Nat)
    BY <1>2, <1>4
  <2>3. conn' = [conn EXCEPT ![c] = [conn[c] EXCEPT !.at = "copying", !.read = read]]
    <3> HIDE DEF read
    <3>1. [conn[c] EXCEPT !.read = read] = [conn[c] EXCEPT !.at = "copying", !.read = read]
      BY <1>2, <2>1 DEF ConnRecord
    <3> QED BY <2>1, <3>1
  <2>4. more = [i \in 1..read |-> i]
    <3>1. out[c] = [i \in 1..conn[c].read |-> i] /\ conn[c].read \in Nat
      BY <1>2, <1>4, <2>1 DEF Decided
    <3> QED BY <3>1
  <2> HIDE DEF read, more
  <2>5. out' \in [Conns -> Seq(Nat)] /\ out'[c] = more /\ \A d \in Conns \ {c} : out'[d] = out[d]
    BY <1>2, <2>1, <2>2
  <2> QED BY <1>3, <2>2, <2>3, <2>4, <2>5
<1> QED BY <1>6, <1>7, <1>8

LEMMA FlowsInvNext ==
  ASSUME Flows!Valid, FlowsInv, Flows!Next
  PROVE  FlowsInv'
<1>1. CASE Flows!Reload
  <2>1. matcher' \in Choices /\ UNCHANGED <<owner, session, left, lost, conn, target, out>>
    BY <1>1 DEF Flows!Reload, Flows!natVars, Flows!tcpVars
  <2>2. FlowsTyped'
    BY <2>1 DEF FlowsInv, FlowsTyped, SessionRecord, ConnRecord, Flows!NoRules
  <2>3. (\A s \in Sockets : Settled(s)') /\ LeftOpen'
    BY <2>1 DEF FlowsInv, Settled, LeftOpen, Flows!NoDatagram, Flows!UdpWay, Flows!MatchIp, Flows!ExcludedProcess
  <2>4. \A c \in Conns : Decided(c)'
    BY <2>1 DEF FlowsInv, Decided, Flows!TcpWay, Flows!ExcludedProcess, Flows!MatchDomain, Flows!MatchIp
  <2> QED BY <2>2, <2>3, <2>4 DEF FlowsInv
<1>2. ASSUME NEW s \in Sockets, Flows!Udp(s)
      PROVE  FlowsInv'
  <2>1. ASSUME Flows!OpenFails(s) \/ Flows!SendFails(s) \/ Flows!Idle(s) \/ Flows!AssociationEnds(s)
               \/ Flows!ChannelCloses(s)
        PROVE  FlowsInv'
    <3>1. Flows!Ended(s) /\ Flows!TaskStep(s) /\ session[s].task # "none"
      BY <2>1 DEF Flows!OpenFails, Flows!SendFails, Flows!Idle, Flows!AssociationEnds, Flows!ChannelCloses
    <3> QED BY <3>1, SessionEnds
  <2>2. ASSUME Flows!Opened(s) \/ Flows!Sends(s)
        PROVE  FlowsInv'
    BY <2>2, SessionServes
  <2>3. ASSUME NEW to \in Remotes, Flows!Packet(s, to)
        PROVE  FlowsInv'
    BY <2>3, PacketStep
  <2> QED BY <1>2, <2>1, <2>2, <2>3, Zenon DEF Flows!Udp
<1>3. ASSUME NEW c \in Conns, Flows!Tcp(c)
      PROVE  FlowsInv'
  BY <1>3, ConnOpens, ConnCopies, Zenon DEF Flows!Tcp
<1> QED BY <1>1, <1>2, <1>3, CleanupStep, Zenon DEF Flows!Next, Flows!UdpNext, Flows!TcpNext

LEMMA FlowsFollow ==
  ASSUME FlowsInv
  PROVE  Flows!FlowsSound
<1>1. Flows!SteadySocketsFollowTheRules
  <2> SUFFICES ASSUME left # Flows!NoDatagram, session[left.from].first = left.to
               PROVE  left.way = "direct" <=>
                        Flows!ExcludedFor(session[left.from].rules, owner[left.from], left.to)
    BY DEF Flows!SteadySocketsFollowTheRules
  <2>1. left.from \in Sockets /\ session[left.from].task = "open" /\ left.way = session[left.from].way
    BY DEF FlowsInv, LeftOpen
  <2>2. left.way = Flows!UdpWay(session[left.from].rules, left.from, left.to)
    BY <2>1 DEF FlowsInv, Settled
  <2> QED BY <2>2 DEF Flows!UdpWay, Flows!MatchIp, Flows!ExcludedProcess, Flows!ExcludedFor
<1>2. Flows!OneDatagramLost
  BY DEF FlowsInv, Settled, Flows!OneDatagramLost
<1>3. Flows!ConnectionsFollowTheRules
  <2> SUFFICES ASSUME NEW c \in Conns, conn[c].way # "none"
               PROVE  conn[c].way = "direct" <=>
                        \/ conn[c].hello /\ target[c] \in conn[c].rules.names
                        \/ Flows!ExcludedFor(conn[c].rules, owner[c], target[c])
    BY DEF Flows!ConnectionsFollowTheRules
  <2>1. conn[c].way = Flows!TcpWay(c)
    BY DEF FlowsInv, Decided
  <2> QED BY <2>1 DEF Flows!TcpWay, Flows!ExcludedProcess, Flows!MatchDomain, Flows!MatchIp, Flows!ExcludedFor
<1>4. Flows!BytesInOrder
  BY DEF FlowsInv, Decided, Flows!BytesInOrder
<1> QED BY <1>1, <1>2, <1>3, <1>4 DEF Flows!FlowsSound

--------------------------------------------------------------------------------
(* The local proxy.                                                           *)

Tokens ==
  [kind : {"connect", "associate", "datagram", "close"}, place : {"in", "out", "nowhere", "any"}]
  \cup [kind : {"payload"}, text : STRING]

Answers ==
  {"no_authentication", "command_not_supported", "address_not_supported", "ok",
   "400", "431", "502", "504", "refused", "unreachable"}

EntryRecord ==
  [at : {"first", "greeting", "request", "header", "connecting", "open", "association", "ended"},
   header : Seq(STRING), direct : BOOLEAN, excluded : BOOLEAN]

LpTyped ==
  /\ script \in Scripts /\ said \in 0..Len(Lp!Words) /\ inbox \in Seq(STRING)
  /\ entry \in EntryRecord
  /\ heard \in Seq(Answers) /\ tunnel \in Seq(Tokens) /\ remote \in Seq(Tokens)

(* The proxy has read the words before those in the inbox; an application     *)
(* that waits for the answer says nothing after its request until then.       *)
Read == said - Len(inbox)
Unread ==
  /\ Read \in Nat /\ inbox = SubSeq(Lp!Words, Read + 1, said)
  /\ script.want # "GET" /\ "ok" \notin Lp!Range(heard) => said <= Len(script.words)

(* What is heard before the answer.                                           *)
Polite == heard \in {<<>>, <<"no_authentication">>}

Unasked == entry.header = <<>> /\ tunnel = <<>> /\ remote = <<>> /\ Polite
Directed == IF entry.excluded \/ script.place = "out" THEN entry.direct ELSE ~entry.direct /\ script.place = "in"
Consumes == IF script.want = "GET" THEN Read ELSE Read - Len(script.words)
Text(n) == Lp!Payloads(SubSeq(Lp!Wanted, 1, n))
Asked == <<Lp!Word("connect", script.place)>>

LpStage ==
  /\ entry.at \in {"first", "greeting"} => Read = 0 /\ Unasked /\ heard = <<>>
  /\ entry.at = "greeting" => inbox # <<>> /\ script.lang = "socks"
  /\ entry.at = "request" => Read = 1 /\ script.lang = "socks" /\ Unasked
  /\ entry.at = "header" =>
       /\ entry.header = SubSeq(Lp!Words, 1, Read) /\ script.lang = "http"
       /\ tunnel = <<>> /\ remote = <<>> /\ Polite
  /\ entry.at = "connecting" =>
       /\ script.want # "udp" /\ Directed /\ Polite
       /\ remote = <<>> /\ tunnel = IF entry.direct THEN <<>> ELSE Asked
       /\ IF script.want = "GET" THEN entry.header = SubSeq(Lp!Words, 1, Read)
          ELSE Read = Len(script.words)
  /\ entry.at = "open" =>
       /\ script.want # "udp" /\ Directed /\ Consumes \in Nat
       /\ IF entry.direct THEN tunnel = <<>> /\ remote = Text(Consumes)
          ELSE tunnel = Asked \o Text(Consumes) /\ remote = <<>>
  /\ entry.at = "association" => script.want = "udp"

(* What left the proxy for one that asked for a connection, and what it says  *)
(* of the way it took.                                                        *)
Carried ==
  script.want # "udp" =>
    \E n \in 0..Len(Lp!Wanted) :
      \/ tunnel = <<>> /\ remote = Text(n) /\ (n # 0 => entry.excluded \/ script.place = "out")
      \/ /\ tunnel \in {Asked \o Text(n), Append(Asked \o Text(n), Lp!Word("close", "any"))}
         /\ remote = <<>> /\ ~entry.excluded /\ script.place = "in"

LpInv == LpTyped /\ Unread /\ LpStage /\ Carried /\ (script.want = "udp" => Lp!OneWay) /\ Lp!Truthful

LEMMA TheScript ==
  ASSUME Lp!Valid, LpTyped
  PROVE  /\ script.words \in Seq(STRING) /\ script.after \in Seq(STRING) /\ Lp!Words \in Seq(STRING)
         /\ Len(script.words) >= 2 /\ Len(Lp!Words) = Len(script.words) + Len(script.after)
         /\ Lp!Wanted \in Seq(STRING) /\ script.place \in {"in", "out", "nowhere"}
         /\ \A i \in 1..Len(script.words) : Lp!Words[i] = script.words[i]
         /\ \A i \in 1..Len(script.after) : Lp!Words[Len(script.words) + i] = script.after[i]
         /\ Lp!Words[1] = script.words[1]
         /\ IF script.words[1] = "hello"
            THEN script.lang = "socks" /\ script.want \notin {"GET", "nonsense"} /\ Len(script.words) = 2
            ELSE /\ script.lang = "http" /\ script.want \notin {"connect", "udp"} /\ script.place # "nowhere"
                 /\ script.want # "GET" => \A n \in 1..Len(script.words) :
                      Lp!HeaderOver(SubSeq(script.words, 1, n)) => n = Len(script.words)
<1> DEFINE words == script.words
           after == script.after
<1>1. script \in Scripts
  BY DEF LpTyped
<1>2. words \in Seq(STRING) /\ after \in Seq(STRING) /\ Len(words) >= 2 /\ script.place \in {"in", "out", "nowhere"}
  BY <1>1 DEF Lp!Valid
<1>3. IF script.words[1] = "hello"
      THEN script.lang = "socks" /\ script.want \notin {"GET", "nonsense"} /\ Len(script.words) = 2
      ELSE /\ script.lang = "http" /\ script.want \notin {"connect", "udp"} /\ script.place # "nowhere"
           /\ script.want # "GET" => \A n \in 1..Len(script.words) :
                Lp!HeaderOver(SubSeq(script.words, 1, n)) => n = Len(script.words)
  BY <1>1, Zenon DEF Lp!Valid
<1>4. Lp!Words = words \o after
  BY DEF Lp!Words
<1> HIDE DEF words, after
<1>5. /\ words \o after \in Seq(STRING) /\ Len(words \o after) = Len(words) + Len(after)
      /\ \A i \in 1..Len(words) : (words \o after)[i] = words[i]
      /\ \A i \in 1..Len(after) : (words \o after)[Len(words) + i] = after[i]
      /\ 1 \in 1..Len(words)
  BY <1>2
<1>6. Lp!Wanted \in Seq(STRING)
  BY <1>2, <1>4, <1>5 DEF Lp!Wanted, after
<1> QED BY <1>2, <1>3, <1>4, <1>5, <1>6 DEF words, after

LEMMA PayloadsAre ==
  ASSUME NEW w \in Seq(STRING)
  PROVE  /\ Lp!Payloads(w) \in Seq(Tokens) /\ Len(Lp!Payloads(w)) = Len(w)
         /\ \A i \in 1..Len(w) : Lp!Payloads(w)[i] = Lp!Payload(w[i]) /\ Lp!Payload(w[i]).kind = "payload"
<1>1. \A t \in STRING : Lp!Payload(t) \in Tokens /\ Lp!Payload(t).kind = "payload"
  BY DEF Lp!Payload, Tokens
<1>2. Lp!Payloads(w) = [i \in 1..Len(w) |-> Lp!Payload(w[i])]
  BY DEF Lp!Payloads
<1>3. Len(w) \in Nat /\ \A i \in 1..Len(w) : w[i] \in STRING
  OBVIOUS
<1> DEFINE n == Len(w)
           p == Lp!Payloads(w)
<1>4. p \in [1..n -> Tokens] /\ \A i \in 1..n : p[i] = Lp!Payload(w[i])
  BY <1>1, <1>2, <1>3
<1>5. \A i \in 1..n : Lp!Payload(w[i]).kind = "payload"
  BY <1>1, <1>3
<1> HIDE DEF n, p
<1>6. p \in Seq(Tokens)
  BY <1>3, <1>4, SeqDef DEF n
<1>7. Len(p) = n
  BY <1>3, <1>4, <1>6, LenProperties DEF n
<1> QED BY <1>4, <1>5, <1>6, <1>7 DEF n, p

(* What is written is tokens, on whichever side.                              *)
LEMMA Carriable ==
  ASSUME NEW s \in Seq(Tokens), NEW t \in Seq(Tokens)
  PROVE  s \o t \in Seq(Tokens) /\ <<>> \in Seq(Tokens)
<1>1. s \o t \in Seq(Tokens)
  BY ConcatProperties
<1>2. <<>> \in Seq(Tokens)
  BY EmptySeq
<1> QED BY <1>1, <1>2

LEMMA PayloadsJoin ==
  ASSUME NEW w \in Seq(STRING), NEW n \in 0..Len(w), NEW m \in n..Len(w)
  PROVE  /\ Lp!Payloads(SubSeq(w, 1, n)) \o Lp!Payloads(SubSeq(w, n + 1, m)) = Lp!Payloads(SubSeq(w, 1, m))
         /\ Lp!Payloads(SubSeq(w, 1, 0)) = <<>>
<1> DEFINE a == SubSeq(w, 1, n)
           b == SubSeq(w, n + 1, m)
           c == SubSeq(w, 1, m)
<1>0. n \in Nat /\ m \in Nat /\ n <= m /\ m <= Len(w) /\ Len(w) \in Nat
  OBVIOUS
<1>1. /\ a \in Seq(STRING) /\ Len(a) = n /\ \A i \in 1..n : a[i] = w[i]
      /\ b \in Seq(STRING) /\ Len(b) = m - n /\ \A i \in 1..(m - n) : b[i] = w[n + i]
      /\ c \in Seq(STRING) /\ Len(c) = m /\ \A i \in 1..m : c[i] = w[i]
  BY <1>0
<1>2. SubSeq(w, 1, 0) \in Seq(STRING) /\ Len(SubSeq(w, 1, 0)) = 0
  OBVIOUS
<1> HIDE DEF a, b, c
<1> DEFINE pa == Lp!Payloads(a)
           pb == Lp!Payloads(b)
           pc == Lp!Payloads(c)
<1>3. /\ pa \in Seq(Tokens) /\ Len(pa) = n /\ \A i \in 1..n : pa[i] = Lp!Payload(w[i])
      /\ pb \in Seq(Tokens) /\ Len(pb) = m - n /\ \A i \in 1..(m - n) : pb[i] = Lp!Payload(w[n + i])
      /\ pc \in Seq(Tokens) /\ Len(pc) = m /\ \A i \in 1..m : pc[i] = Lp!Payload(w[i])
  <2>1. pa \in Seq(Tokens) /\ Len(pa) = n /\ \A i \in 1..n : pa[i] = Lp!Payload(w[i])
    BY <1>1, PayloadsAre
  <2>2. pb \in Seq(Tokens) /\ Len(pb) = m - n /\ \A i \in 1..(m - n) : pb[i] = Lp!Payload(w[n + i])
    BY <1>1, PayloadsAre
  <2>3. pc \in Seq(Tokens) /\ Len(pc) = m /\ \A i \in 1..m : pc[i] = Lp!Payload(w[i])
    BY <1>1, PayloadsAre, ZenonT(40)
  <2> QED BY <2>1, <2>2, <2>3
<1> HIDE DEF pa, pb, pc
<1>4. /\ pa \o pb \in Seq(Tokens) /\ Len(pa \o pb) = m
      /\ \A i \in 1..m : (pa \o pb)[i] = IF i <= n THEN pa[i] ELSE pb[i - n]
  <2>1. /\ pa \o pb \in Seq(Tokens) /\ Len(pa \o pb) = Len(pa) + Len(pb)
        /\ \A i \in 1..(Len(pa) + Len(pb)) : (pa \o pb)[i] = IF i <= Len(pa) THEN pa[i] ELSE pb[i - Len(pa)]
    BY <1>3, ConcatProperties
  <2>2. Len(pa) + Len(pb) = m
    BY <1>0, <1>3
  <2> QED BY <1>3, <2>1, <2>2
<1>5. \A i \in 1..m : (pa \o pb)[i] = pc[i]
  <2> TAKE i \in 1..m
  <2>1. CASE i <= n
    BY <1>0, <1>3, <1>4, <2>1
  <2>2. CASE ~(i <= n)
    <3>1. i - n \in 1..(m - n) /\ n + (i - n) = i
      BY <1>0, <2>2
    <3>2. (pa \o pb)[i] = pb[i - n]
      BY <1>0, <1>4, <2>2
    <3> QED BY <1>3, <3>1, <3>2
  <2> QED BY <2>1, <2>2
<1>6. pa \o pb = pc
  BY <1>3, <1>4, <1>5, SeqEqual
<1>7. Lp!Payloads(SubSeq(w, 1, 0)) \in Seq(Tokens) /\ Len(Lp!Payloads(SubSeq(w, 1, 0))) = 0
  BY <1>2, PayloadsAre
<1>8. Lp!Payloads(SubSeq(w, 1, 0)) = <<>>
  BY <1>7
<1> QED BY <1>6, <1>8 DEF a, b, c, pa, pb, pc

LEMMA AskedIs ==
  ASSUME Lp!Valid, LpTyped
  PROVE  /\ Asked \in Seq(Tokens) /\ Lp!Word("close", "any") \in Tokens
         /\ Asked \o <<>> = Asked /\ Asked # <<>>
<1>1. script.place \in {"in", "out", "nowhere"}
  BY TheScript
<1>2. Lp!Word("connect", script.place) \in Tokens /\ Lp!Word("close", "any") \in Tokens
  BY <1>1 DEF Lp!Word, Tokens
<1>3. Asked \in Seq(Tokens) /\ Asked # <<>>
  BY <1>2 DEF Asked
<1> QED BY <1>2, <1>3, ConcatEmptySeq

LEMMA TextIs ==
  ASSUME Lp!Valid, LpTyped, NEW n \in 0..Len(Lp!Wanted)
  PROVE  Text(n) \in Seq(Tokens) /\ Text(0) = <<>>
         /\ \A i \in DOMAIN Text(n) : Text(n)[i].kind = "payload"
<1>1. Lp!Wanted \in Seq(STRING)
  BY TheScript
<1>2. SubSeq(Lp!Wanted, 1, n) \in Seq(STRING)
  BY <1>1
<1>3. Text(n) \in Seq(Tokens) /\ \A i \in 1..Len(Text(n)) : Text(n)[i].kind = "payload"
  BY <1>2, PayloadsAre DEF Text
<1>4. Text(0) = <<>>
  <2>1. 0 \in 0..Len(Lp!Wanted)
    BY <1>1
  <2> QED BY <1>1, <2>1, PayloadsJoin DEF Text
<1> QED BY <1>3, <1>4, LenProperties

(* What Carried says is what the properties ask.                              *)
LEMMA CarriedMeans ==
  ASSUME Lp!Valid, LpTyped, Carried
  PROVE  Lp!InOrder /\ (script.want # "udp" => Lp!OneWay)
<1>1. CASE script.want = "udp"
  BY <1>1 DEF Lp!InOrder
<1>2. CASE script.want # "udp"
  <2>1. PICK n \in 0..Len(Lp!Wanted) :
          \/ tunnel = <<>> /\ remote = Text(n) /\ (n # 0 => entry.excluded \/ script.place = "out")
          \/ /\ tunnel \in {Asked \o Text(n), Append(Asked \o Text(n), Lp!Word("close", "any"))}
             /\ remote = <<>> /\ ~entry.excluded /\ script.place = "in"
    BY <1>2 DEF Carried
  <2>2. Lp!InOrder
    BY <2>1 DEF Lp!InOrder, Text, Asked
  <2>3. CASE tunnel = <<>> /\ remote = Text(n) /\ (n # 0 => entry.excluded \/ script.place = "out")
    <3>1. CASE n = 0
      <4>1. remote = <<>>
        BY <2>3, <3>1, TextIs
      <4> QED BY <2>2, <2>3, <4>1 DEF Lp!OneWay
    <3>2. CASE n # 0
      <4>1. \A i \in DOMAIN remote : remote[i].kind = "payload"
        BY <2>3, TextIs
      <4> QED BY <2>2, <2>3, <3>2, <4>1 DEF Lp!OneWay
    <3> QED BY <3>1, <3>2
  <2>4. CASE /\ tunnel \in {Asked \o Text(n), Append(Asked \o Text(n), Lp!Word("close", "any"))}
             /\ remote = <<>> /\ ~entry.excluded /\ script.place = "in"
    <3> DEFINE call == Asked
               text  == Text(n)
               close == Lp!Word("close", "any")
    <3>1. /\ call \in Seq(Tokens) /\ close \in Tokens /\ text \in Seq(Tokens)
          /\ \A i \in DOMAIN text : text[i].kind = "payload"
      BY AskedIs, TextIs
    <3>2. /\ Len(call) = 1 /\ call[1].place = "in" /\ close.kind = "close"
      BY <2>4 DEF Asked, Lp!Word
    <3> HIDE DEF call, text, close
    <3> DEFINE all == call \o text
    <3>3. /\ all \in Seq(Tokens) /\ Len(all) = 1 + Len(text) /\ Len(text) \in Nat
          /\ \A i \in 1..Len(all) : all[i] = IF i <= 1 THEN call[i] ELSE text[i - 1]
      <4>1. Len(text) \in Nat
        BY <3>1, LenProperties
      <4>2. /\ all \in Seq(Tokens) /\ Len(all) = Len(call) + Len(text)
            /\ \A i \in 1..(Len(call) + Len(text)) :
                  all[i] = IF i <= Len(call) THEN call[i] ELSE text[i - Len(call)]
        BY <3>1, ConcatProperties
      <4> HIDE DEF all
      <4> QED BY <3>2, <4>1, <4>2
    <3>4. \A i \in 1..Len(all) : all[i].place = "in" \/ all[i].kind = "payload"
      <4> SUFFICES ASSUME NEW i \in 1..Len(all) PROVE all[i].place = "in" \/ all[i].kind = "payload"
        OBVIOUS
      <4>1. i = 1 \/ i - 1 \in 1..Len(text)
        BY <3>3
      <4>2. CASE i = 1
        BY <3>2, <3>3, <4>2
      <4>3. CASE i # 1 /\ i - 1 \in 1..Len(text)
        <5>1. i - 1 \in DOMAIN text
          BY <3>1, <4>3, LenProperties
        <5>2. all[i] = text[i - 1]
          BY <3>3, <4>3
        <5> QED BY <3>1, <5>1, <5>2
      <4> QED BY <4>1, <4>2, <4>3
    <3>5. tunnel = all \/ tunnel = Append(all, close)
      BY <2>4 DEF all, call, text, close
    <3> HIDE DEF all
    <3>6. \A i \in DOMAIN tunnel : tunnel[i].kind \in {"connect", "datagram"} => tunnel[i].place = "in"
      <4>1. CASE tunnel = all
        BY <3>3, <3>4, <4>1, LenProperties
      <4>2. CASE tunnel = Append(all, close)
        <5>1. /\ tunnel \in Seq(Tokens) /\ Len(tunnel) = Len(all) + 1 /\ tunnel[Len(all) + 1] = close
              /\ \A i \in 1..Len(all) : tunnel[i] = all[i]
          BY <3>1, <3>3, <4>2, AppendProperties
        <5>2. DOMAIN tunnel = 1..(Len(all) + 1) /\ Len(all) \in Nat
          BY <3>3, <5>1, LenProperties
        <5>3. \A i \in DOMAIN tunnel : i \in 1..Len(all) \/ i = Len(all) + 1
          BY <5>2
        <5> QED BY <3>2, <3>4, <5>1, <5>3
      <4> QED BY <3>5, <4>1, <4>2
    <3>7. Lp!OneWay
      BY <2>4, <3>6 DEF Lp!OneWay
    <3> QED BY <2>2, <3>7
  <2> QED BY <2>1, <2>3, <2>4
<1> QED BY <1>1, <1>2

LEMMA ScriptStays ==
  ASSUME script' = script
  PROVE  /\ Lp!Words' = Lp!Words /\ Lp!Wanted' = Lp!Wanted /\ Asked' = Asked
         /\ \A n : Text(n)' = Text(n)
<1>1. Lp!Words' = Lp!Words /\ Lp!Wanted' = Lp!Wanted
  BY DEF Lp!Words, Lp!Wanted
<1>2. Asked' = Asked
  BY DEF Asked, Lp!Word
<1>3. \A n : Text(n)' = Text(n)
  BY <1>1 DEF Text, Lp!Payloads, Lp!Payload
<1> QED BY <1>1, <1>2, <1>3

(* An application is told nothing untrue before the answer, and one answer.   *)
LEMMA PoliteIs ==
  ASSUME Polite
  PROVE  /\ heard \in Seq(Answers) /\ Len(heard) \in Nat /\ DOMAIN heard = 1..Len(heard) /\ Len(heard) <= 1
         /\ \A i \in 1..Len(heard) : heard[i] = "no_authentication"
<1> DEFINE greeted == "no_authentication"
<1>1. greeted \in Answers
  BY DEF Answers
<1>2. heard = <<>> \/ heard = <<greeted>>
  BY DEF Polite
<1> HIDE DEF greeted
<1>3. CASE heard = <<>>
  <2>1. heard \in Seq(Answers) /\ Len(heard) = 0
    BY <1>3, EmptySeq
  <2> QED BY <2>1, LenProperties
<1>4. CASE heard = <<greeted>>
  <2>1. heard \in Seq(Answers) /\ Len(heard) = 1 /\ heard[1] = greeted
    BY <1>1, <1>4
  <2> QED BY <2>1, LenProperties DEF greeted
<1> QED BY <1>2, <1>3, <1>4

LEMMA PoliteIsTruthful ==
  ASSUME Polite
  PROVE  Lp!Truthful /\ "ok" \notin Lp!Range(heard) /\ heard \in Seq(Answers)
<1> QED BY PoliteIs DEF Lp!Truthful, Lp!Range

LEMMA OneAnswer ==
  ASSUME Polite, NEW a \in Answers, heard' = Append(heard, a),
         a = "ok" => script'.want # "GET" /\ (connect' = "ok" \/ script'.want = "udp")
  PROVE  Lp!Truthful' /\ heard' \in Seq(Answers) /\ (a = "ok" => "ok" \in Lp!Range(heard)')
<1> DEFINE h == heard'
<1>1. /\ heard \in Seq(Answers) /\ Len(heard) \in Nat /\ Len(heard) <= 1
      /\ \A i \in 1..Len(heard) : heard[i] = "no_authentication"
  BY PoliteIs
<1>2. h = Append(heard, a)
  OBVIOUS
<1>3. /\ h \in Seq(Answers) /\ Len(h) = Len(heard) + 1 /\ h[Len(heard) + 1] = a
      /\ \A i \in 1..Len(heard) : h[i] = heard[i]
  BY <1>1, <1>2, AppendProperties
<1> HIDE DEF h
<1>4. DOMAIN h = 1..(Len(heard) + 1)
  BY <1>3, LenProperties
<1>5. \A i \in DOMAIN h : h[i] = "no_authentication" \/ (i = Len(heard) + 1 /\ h[i] = a)
  <2>1. \A i \in DOMAIN h : i \in 1..Len(heard) \/ i = Len(heard) + 1
    BY <1>1, <1>4
  <2> QED BY <1>1, <1>3, <2>1
<1>6. \A i, j \in DOMAIN h : i # j => "no_authentication" \in {h[i], h[j]}
  BY <1>5
<1>7. "ok" \in {h[i] : i \in DOMAIN h} <=> a = "ok"
  <2>1. Len(heard) + 1 \in DOMAIN h
    BY <1>1, <1>4
  <2> QED BY <1>3, <1>5, <2>1
<1> QED BY <1>3, <1>6, <1>7 DEF h, Lp!Truthful, Lp!Range

LEMMA LpInvInit ==
  ASSUME Lp!Valid, Lp!Init
  PROVE  LpInv
<1>1. PICK excluded \in BOOLEAN :
        entry = [at |-> "first", header |-> <<>>, direct |-> excluded, excluded |-> excluded]
  BY DEF Lp!Init
<1>2. /\ script \in Scripts /\ said = 0 /\ inbox = <<>>
      /\ heard = <<>> /\ tunnel = <<>> /\ remote = <<>>
  BY DEF Lp!Init
<1>3. entry \in EntryRecord /\ entry.at = "first" /\ entry.header = <<>>
  BY <1>1 DEF EntryRecord
<1>4. script.words \in Seq(STRING) /\ script.after \in Seq(STRING) /\ Len(script.words) >= 2
  BY <1>2 DEF Lp!Valid
<1>5. Lp!Words \in Seq(STRING) /\ Len(Lp!Words) \in Nat
  <2> DEFINE words == script.words
             after == script.after
  <2>1. Lp!Words = words \o after
    BY DEF Lp!Words
  <2> HIDE DEF words, after
  <2>2. words \o after \in Seq(STRING)
    BY <1>4, ConcatProperties DEF words, after
  <2> QED BY <2>1, <2>2, LenProperties
<1>6. LpTyped
  BY <1>2, <1>3, <1>5 DEF LpTyped
<1>7. Read = 0
  <2>1. Len(inbox) = 0
    BY <1>2, EmptySeq
  <2>2. said = 0
    BY <1>2
  <2> QED BY <2>1, <2>2 DEF Read
<1>8. Unread
  <2>1. SubSeq(Lp!Words, 1, 0) = <<>>
    BY SubSeqEmpty
  <2>2. 0 <= Len(script.words)
    BY <1>4
  <2> QED BY <1>2, <1>7, <2>1, <2>2 DEF Unread
<1>9. Polite
  BY <1>2 DEF Polite
<1>10. LpStage
  BY <1>2, <1>3, <1>7, <1>9 DEF LpStage, Unasked
<1>11. Carried
  <2>1. 0 \in 0..Len(Lp!Wanted) /\ Text(0) = <<>>
    <3>1. Len(Lp!Wanted) \in Nat
      BY <1>6, TheScript
    <3>2. 0 \in 0..Len(Lp!Wanted)
      BY <3>1
    <3> QED BY <1>6, <3>2, TextIs
  <2> QED BY <1>2, <2>1 DEF Carried
<1>12. Lp!OneWay /\ Lp!Truthful
  BY <1>2, <1>9, PoliteIsTruthful DEF Lp!OneWay
<1> QED BY <1>6, <1>8, <1>10, <1>11, <1>12 DEF LpInv

(* The proxy reads some of the words it has not read.                         *)
LEMMA Reads ==
  ASSUME Lp!Valid, LpTyped, Unread, NEW k \in 0..Len(inbox),
         inbox' = SubSeq(inbox, k + 1, Len(inbox)), said' = said, script' = script,
         "ok" \in Lp!Range(heard) => "ok" \in Lp!Range(heard)'
  PROVE  /\ Unread' /\ Read' = Read + k /\ Read' \in Nat /\ inbox' \in Seq(STRING)
         /\ SubSeq(inbox, 1, k) = SubSeq(Lp!Words, Read + 1, Read + k) /\ Read + k <= said
<1> DEFINE w == Lp!Words
           n == Len(inbox)
           r == Read
<1>1. w \in Seq(STRING) /\ inbox \in Seq(STRING) /\ said \in 0..Len(w)
  BY TheScript DEF LpTyped
<1>2. /\ n \in Nat /\ k \in Nat /\ k <= n /\ r \in Nat /\ said \in Nat /\ said <= Len(w) /\ Len(w) \in Nat
      /\ r + n = said
  BY <1>1 DEF Read, Unread
<1>3. inbox = SubSeq(w, r + 1, said)
  BY DEF Unread
<1>4. Lp!Words' = w
  BY ScriptStays
<1> HIDE DEF w, r
<1>5. \A i \in 1..n : inbox[i] = w[r + i]
  BY <1>1, <1>2, <1>3
<1>6. /\ inbox' \in Seq(STRING) /\ Len(inbox') = n - k
      /\ \A i \in 1..(n - k) : inbox'[i] = w[r + k + i]
  BY <1>1, <1>2, <1>5
<1>7. /\ SubSeq(w, r + k + 1, said) \in Seq(STRING) /\ Len(SubSeq(w, r + k + 1, said)) = n - k
      /\ \A i \in 1..(n - k) : SubSeq(w, r + k + 1, said)[i] = w[r + k + i]
  BY <1>1, <1>2
<1>8. inbox' = SubSeq(w, r + k + 1, said)
  BY <1>6, <1>7, SeqEqual
<1>9. Read' = r + k /\ r + k \in Nat
  <2>1. Read' = said - (n - k)
    BY <1>6 DEF Read
  <2> HIDE DEF n
  <2> QED BY <1>2, <2>1
<1>10. Unread'
  BY <1>4, <1>8, <1>9 DEF Unread
<1>11. SubSeq(inbox, 1, k) = SubSeq(w, r + 1, r + k)
  <2>1. /\ SubSeq(inbox, 1, k) \in Seq(STRING) /\ Len(SubSeq(inbox, 1, k)) = k
        /\ \A i \in 1..k : SubSeq(inbox, 1, k)[i] = w[r + i]
    BY <1>1, <1>2, <1>5
  <2>2. /\ SubSeq(w, r + 1, r + k) \in Seq(STRING) /\ Len(SubSeq(w, r + 1, r + k)) = k
        /\ \A i \in 1..k : SubSeq(w, r + 1, r + k)[i] = w[r + i]
    BY <1>1, <1>2
  <2> QED BY <2>1, <2>2, SeqEqual
<1>12. r + k <= said
  BY <1>2
<1> QED BY <1>6, <1>9, <1>10, <1>11, <1>12 DEF w, r

(* An application that ended keeps what it heard and what left the proxy.     *)
LEMMA LpEnds ==
  ASSUME Lp!Valid, LpInv, UNCHANGED <<script, said>>, inbox' \in Seq(STRING), Unread',
         entry' = [entry EXCEPT !.at = "ended"],
         heard' \in Seq(Answers), Lp!Truthful', tunnel' \in Seq(Tokens), remote' \in Seq(Tokens),
         Carried', script.want = "udp" => Lp!OneWay'
  PROVE  LpInv'
<1>1. Lp!Words' = Lp!Words
  BY ScriptStays
<1>2. entry' \in EntryRecord /\ entry'.at = "ended"
  BY DEF LpInv, LpTyped, EntryRecord
<1>3. LpTyped'
  BY <1>1, <1>2 DEF LpInv, LpTyped, EntryRecord
<1>4. LpStage'
  BY <1>2 DEF LpStage
<1> QED BY <1>3, <1>4 DEF LpInv

LEMMA CarriedStays ==
  ASSUME UNCHANGED <<script, tunnel, remote>>, entry'.excluded = entry.excluded
  PROVE  Carried' = Carried /\ Lp!OneWay' = Lp!OneWay
<1>1. Carried' = Carried
  BY ScriptStays DEF Carried, Lp!Word
<1>2. Lp!OneWay' = Lp!OneWay
  BY DEF Lp!OneWay
<1> QED BY <1>1, <1>2

(* It goes away or is closed, and nothing more is sent or said.               *)
LEMMA EndsQuietly ==
  ASSUME Lp!Valid, LpInv, UNCHANGED <<script, said, inbox, tunnel, remote, connect>>, Lp!Ends(<<>>)
  PROVE  LpInv'
<1>1. heard \in Seq(Answers) /\ inbox \in Seq(STRING) /\ tunnel \in Seq(Tokens) /\ remote \in Seq(Tokens)
  BY DEF LpInv, LpTyped
<1>2. heard' = heard /\ entry' = [entry EXCEPT !.at = "ended"]
  BY <1>1, ConcatEmptySeq DEF Lp!Ends
<1>3. entry'.excluded = entry.excluded
  BY <1>2 DEF LpInv, LpTyped
<1>4. Carried' /\ (script.want = "udp" => Lp!OneWay')
  BY <1>3, CarriedStays DEF LpInv
<1>5. Unread' /\ Lp!Truthful'
  BY <1>2, ScriptStays DEF LpInv, Unread, Read, Lp!Truthful, Lp!Range
<1> QED BY <1>1, <1>2, <1>4, <1>5, LpEnds

LEMMA SaysStep ==
  ASSUME Lp!Valid, LpInv, Lp!Says
  PROVE  LpInv'
<1> DEFINE w == Lp!Words
           next == w[said + 1]
<1>1. /\ said < Len(w) /\ said' = said + 1 /\ inbox' = Append(inbox, next) /\ script' = script
      /\ said < Len(script.words) \/ script.want = "GET" \/ "ok" \in Lp!Range(heard)
      /\ UNCHANGED <<entry, heard, tunnel, remote, connect>>
  <2>1. inbox' = Append(inbox, w[said']) /\ said' = said + 1
    BY DEF Lp!Says
  <2> QED BY <2>1 DEF Lp!Says
<1>2. /\ w \in Seq(STRING) /\ inbox \in Seq(STRING) /\ said \in 0..Len(w) /\ Read \in Nat
      /\ inbox = SubSeq(w, Read + 1, said) /\ Len(script.words) \in Nat
  <2>1. LpTyped
    BY DEF LpInv
  <2>2. w \in Seq(STRING) /\ Len(script.words) \in Nat
    <3>1. w \in Seq(STRING) /\ script.words \in Seq(STRING)
      BY <2>1, TheScript
    <3> QED BY <3>1, LenProperties
  <2>3. inbox \in Seq(STRING) /\ said \in 0..Len(w)
    BY <2>1 DEF LpTyped
  <2>4. Read \in Nat /\ inbox = SubSeq(w, Read + 1, said)
    BY DEF LpInv, Unread
  <2> QED BY <2>2, <2>3, <2>4
<1>3. said \in Nat /\ Len(w) \in Nat /\ Len(inbox) \in Nat /\ Read <= said /\ said + 1 \in 1..Len(w)
      /\ said' \in 0..Len(w)
  <2>1. Len(w) \in Nat /\ Len(inbox) \in Nat
    BY <1>2
  <2>2. said \in Nat /\ said + 1 \in 1..Len(w)
    BY <1>1, <1>2, <2>1
  <2> QED BY <1>1, <1>2, <2>1, <2>2 DEF Read
<1>4. Lp!Words' = w
  BY <1>1, ScriptStays
<1>5. next \in STRING
  BY <1>2, <1>3, ElementOfSeq
<1> HIDE DEF w, next
<1>6. inbox' \in Seq(STRING) /\ Len(inbox') = Len(inbox) + 1 /\ inbox' # <<>>
  BY <1>1, <1>2, <1>5, AppendProperties
<1>7. Read' = Read
  <2>1. Read' = (said + 1) - (Len(inbox) + 1)
    BY <1>1, <1>6 DEF Read
  <2>2. said \in Nat /\ Len(inbox) \in Nat
    BY <1>3
  <2> QED BY <2>1, <2>2 DEF Read
<1>8. inbox' = SubSeq(w, Read + 1, said + 1)
  <2>1. Read + 1 \in 1..Len(w) /\ said + 1 \in (Read + 1)..Len(w) /\ (said + 1) - 1 = said
    BY <1>2, <1>3
  <2>2. SubSeq(w, Read + 1, said + 1) = SubSeq(w, Read + 1, (said + 1) - 1) \o <<w[said + 1]>>
    BY <1>2, <2>1, SubSeqRecursiveSecond
  <2>3. inbox' = inbox \o <<next>>
    BY <1>1, <1>2, <1>5, AppendIsConcat
  <2> QED BY <1>2, <2>1, <2>2, <2>3 DEF next
<1>9. Unread'
  <2>1. script.want # "GET" /\ "ok" \notin Lp!Range(heard) => said + 1 <= Len(script.words)
    BY <1>1, <1>2, <1>3
  <2> QED BY <1>1, <1>2, <1>4, <1>7, <1>8, <2>1 DEF Unread, Lp!Range
<1>10. LpTyped'
  BY <1>1, <1>3, <1>4, <1>6 DEF LpInv, LpTyped
<1>11. LpStage'
  <2>1. Unasked' = Unasked /\ Directed' = Directed /\ Polite' = Polite /\ Consumes' = Consumes
    BY <1>1, <1>7 DEF Unasked, Directed, Polite, Consumes
  <2>2. Asked' = Asked /\ \A n : Text(n)' = Text(n)
    BY <1>1, ScriptStays
  <2>3. Text(Consumes)' = Text(Consumes)
    BY <1>1, <2>1 DEF Text, Lp!Wanted, Lp!Words, Lp!Payloads, Lp!Payload
  <2> QED BY <1>1, <1>4, <1>6, <1>7, <2>1, <2>2, <2>3 DEF LpInv, LpStage, w
<1>12. Carried' /\ (script'.want = "udp" => Lp!OneWay') /\ Lp!Truthful'
  BY <1>1, CarriedStays DEF LpInv, Lp!Truthful, Lp!Range
<1> QED BY <1>9, <1>10, <1>11, <1>12 DEF LpInv

LEMMA FirstStep ==
  ASSUME Lp!Valid, LpInv, Lp!First
  PROVE  LpInv'
<1>1. /\ entry.at = "first" /\ inbox # <<>>
      /\ UNCHANGED <<script, said, inbox, heard, tunnel, remote, connect>>
      /\ entry' = [entry EXCEPT !.at = IF Head(inbox) = "hello" THEN "greeting" ELSE "header"]
  BY DEF Lp!First
<1>2. LpTyped /\ entry \in EntryRecord /\ inbox \in Seq(STRING) /\ said \in 0..Len(Lp!Words)
  BY DEF LpInv, LpTyped
<1>3. /\ entry' \in EntryRecord /\ entry'.header = entry.header /\ entry'.excluded = entry.excluded
      /\ entry'.at = IF Head(inbox) = "hello" THEN "greeting" ELSE "header"
  BY <1>1, <1>2 DEF EntryRecord
<1>4. Read = 0 /\ Unasked /\ heard = <<>>
  BY <1>1 DEF LpInv, LpStage
<1>5. script.words[1] = Head(inbox)
  <2> DEFINE w == Lp!Words
  <2>1. w \in Seq(STRING) /\ w[1] = script.words[1]
    BY <1>2, TheScript
  <2>2. inbox = SubSeq(w, 1, said)
    <3>1. inbox = SubSeq(w, Read + 1, said)
      BY DEF LpInv, Unread
    <3> QED BY <1>4, <3>1
  <2>3. said \in Nat /\ Len(inbox) \in Nat
    BY <1>2, LenProperties, <2>1
  <2> HIDE DEF w
  <2>4. said = Len(inbox) /\ Len(inbox) >= 1
    <3>1. said - Len(inbox) = 0
      BY <1>4 DEF Read
    <3>2. Len(inbox) # 0
      BY <1>1, <1>2, EmptySeq
    <3> QED BY <2>3, <3>1, <3>2
  <2>5. inbox[1] = w[1]
    BY <1>2, <2>1, <2>2, <2>3, <2>4 DEF w
  <2> QED BY <1>2, <2>1, <2>4, <2>5, HeadTailProperties
<1>6. script.lang = IF Head(inbox) = "hello" THEN "socks" ELSE "http"
  BY <1>2, <1>5, TheScript
<1>7. Lp!Words' = Lp!Words /\ Read' = Read /\ Unread' = Unread /\ Polite' = Polite /\ Unasked' = Unasked
  BY <1>1, <1>3, ScriptStays DEF Read, Unread, Lp!Range, Polite, Unasked
<1>8. LpTyped'
  BY <1>1, <1>3, <1>7 DEF LpInv, LpTyped
<1>9. SubSeq(Lp!Words, 1, 0) = <<>>
  BY SubSeqEmpty
<1>10. LpStage'
  <2>1. entry'.header = <<>> /\ tunnel' = <<>> /\ remote' = <<>> /\ Polite'
    BY <1>1, <1>3, <1>4, <1>7 DEF Unasked
  <2>2. Unasked' /\ Read' = 0 /\ heard' = <<>>
    BY <1>1, <1>4, <1>7
  <2>3. CASE Head(inbox) = "hello"
    BY <1>1, <1>3, <1>6, <2>2, <2>3 DEF LpStage
  <2>4. CASE Head(inbox) # "hello"
    <3>1. entry'.at = "header" /\ script'.lang = "http"
      BY <1>1, <1>3, <1>6, <2>4
    <3>2. entry'.header = SubSeq(Lp!Words, 1, Read)'
      BY <1>7, <1>9, <2>1, <2>2
    <3> QED BY <2>1, <3>1, <3>2 DEF LpStage
  <2> QED BY <2>3, <2>4
<1>11. Carried' /\ (script'.want = "udp" => Lp!OneWay') /\ Lp!Truthful'
  BY <1>1, <1>3, CarriedStays DEF LpInv, Lp!Truthful, Lp!Range
<1> QED BY <1>7, <1>8, <1>10, <1>11 DEF LpInv

LEMMA GreetingStep ==
  ASSUME Lp!Valid, LpInv, Lp!Greeting
  PROVE  LpInv'
<1>1. /\ entry.at = "greeting" /\ entry' = [entry EXCEPT !.at = "request"]
      /\ inbox' = Tail(inbox) /\ heard' = Append(heard, "no_authentication")
      /\ UNCHANGED <<script, said, tunnel, remote, connect>>
  BY DEF Lp!Greeting
<1>2. LpTyped /\ Unread /\ entry \in EntryRecord /\ inbox \in Seq(STRING)
  BY DEF LpInv, LpTyped
<1>3. /\ Read = 0 /\ Unasked /\ heard = <<>> /\ inbox # <<>> /\ script.lang = "socks"
  BY <1>1 DEF LpInv, LpStage
<1>4. /\ entry' \in EntryRecord /\ entry'.header = entry.header /\ entry'.excluded = entry.excluded
      /\ entry'.at = "request"
  <2>1. entry' = [entry EXCEPT !.at = "request"]
    BY <1>1
  <2> QED BY <1>2, <2>1 DEF EntryRecord
<1>5. heard' = <<"no_authentication">>
  BY <1>1, <1>3
<1>6. Polite'
  BY <1>5 DEF Polite
<1>7. Lp!Truthful' /\ heard' \in Seq(Answers)
  <2> DEFINE greeted == "no_authentication"
  <2>1. greeted \in Answers /\ greeted # "ok" /\ heard' = Append(heard, greeted) /\ Polite
    BY <1>1, <1>3 DEF Answers, Unasked
  <2> HIDE DEF greeted
  <2> QED BY <2>1, OneAnswer
<1>8. 1 \in 0..Len(inbox) /\ inbox' = SubSeq(inbox, 1 + 1, Len(inbox))
  <2>1. Len(inbox) \in Nat /\ Len(inbox) # 0
    BY <1>2, <1>3, EmptySeq, LenProperties
  <2>2. Tail(inbox) = SubSeq(inbox, 2, Len(inbox))
    BY <1>2, <1>3, TailIsSubSeq
  <2> QED BY <1>1, <2>1, <2>2
<1>9. "ok" \notin Lp!Range(heard)
  BY <1>3 DEF Lp!Range
<1>10. Unread' /\ Read' = 1 /\ inbox' \in Seq(STRING)
  <2> DEFINE k == 1
  <2>1. /\ k \in 0..Len(inbox) /\ inbox' = SubSeq(inbox, k + 1, Len(inbox))
        /\ said' = said /\ script' = script
    BY <1>1, <1>8
  <2>2. "ok" \in Lp!Range(heard) => "ok" \in Lp!Range(heard)'
    BY <1>9
  <2> HIDE DEF k
  <2>3. Unread' /\ Read' = Read + k /\ inbox' \in Seq(STRING)
    BY <1>2, <2>1, <2>2, Reads
  <2> QED BY <1>3, <2>3 DEF k
<1>11. LpTyped'
  BY <1>1, <1>4, <1>7, <1>10, ScriptStays DEF LpInv, LpTyped
<1>12. LpStage'
  BY <1>1, <1>3, <1>4, <1>6, <1>10 DEF LpStage, Unasked
<1>13. Carried' /\ (script'.want = "udp" => Lp!OneWay')
  <2>1. UNCHANGED <<script, tunnel, remote>> /\ entry'.excluded = entry.excluded
    BY <1>1, <1>4
  <2>2. Carried' = Carried /\ Lp!OneWay' = Lp!OneWay
    BY <2>1, CarriedStays
  <2> QED BY <2>1, <2>2 DEF LpInv
<1> QED BY <1>7, <1>10, <1>11, <1>12, <1>13 DEF LpInv

(* It is told that nothing comes of what it asked, and no more.               *)
LEMMA EndsSaying ==
  ASSUME Lp!Valid, LpInv, Polite, NEW a \in Answers, a # "ok", Lp!Ends(<<a>>),
         UNCHANGED <<script, said, tunnel, remote>>, inbox' \in Seq(STRING), Unread'
  PROVE  LpInv'
<1>1. LpTyped /\ heard \in Seq(Answers)
  BY DEF LpInv, LpTyped
<1>2. entry' = [entry EXCEPT !.at = "ended"] /\ heard' = heard \o <<a>>
  BY DEF Lp!Ends
<1>3. heard' = Append(heard, a)
  BY <1>1, <1>2, AppendIsConcat
<1>4. Lp!Truthful' /\ heard' \in Seq(Answers)
  BY <1>3, OneAnswer
<1>5. entry'.excluded = entry.excluded
  BY <1>1, <1>2 DEF LpTyped, EntryRecord
<1>6. Carried' = Carried /\ Lp!OneWay' = Lp!OneWay
  BY <1>5, CarriedStays
<1>7. /\ Carried' /\ (script.want = "udp" => Lp!OneWay')
      /\ tunnel' \in Seq(Tokens) /\ remote' \in Seq(Tokens)
  BY <1>6 DEF LpInv, LpTyped
<1> QED BY <1>2, <1>4, <1>7, LpEnds

(* Nothing but the stage and the answers changed.                             *)
LEMMA NothingSent ==
  ASSUME Lp!Valid, LpTyped, script.want # "udp", UNCHANGED script,
         IF entry'.direct THEN tunnel' = <<>> ELSE tunnel' = Asked,
         remote' = <<>>, ~entry'.direct => ~entry'.excluded /\ script.place = "in"
  PROVE  Carried' /\ tunnel' \in Seq(Tokens) /\ remote' \in Seq(Tokens)
<1>1. 0 \in 0..Len(Lp!Wanted)
  <2>1. Lp!Wanted \in Seq(STRING)
    BY TheScript
  <2>2. Len(Lp!Wanted) \in Nat
    BY <2>1, LenProperties
  <2> QED BY <2>2
<1>2. Text(0) = <<>>
  BY <1>1, TextIs
<1>3. Asked \in Seq(Tokens) /\ Asked \o <<>> = Asked
  BY AskedIs
<1>4. Lp!Wanted' = Lp!Wanted /\ Asked' = Asked /\ Text(0)' = Text(0)
  BY ScriptStays
<1>5. \/ tunnel' = <<>> /\ remote' = Text(0)'
      \/ tunnel' = Asked' \o Text(0)' /\ remote' = <<>> /\ ~entry'.excluded /\ script'.place = "in"
  BY <1>2, <1>3, <1>4
<1>6. Carried'
  BY <1>1, <1>4, <1>5 DEF Carried
<1>7. <<>> \in Seq(Tokens)
  BY EmptySeq
<1> QED BY <1>3, <1>6, <1>7

(* The bridge is asked, or the target.                                        *)
LEMMA Dials ==
  ASSUME Lp!Valid, LpInv, Polite, tunnel = <<>>, NEW header \in Seq(STRING), Lp!Dial(header),
         UNCHANGED <<script, said>>, remote = <<>>, remote' = <<>>,
         inbox' \in Seq(STRING), Unread',
         script.want # "udp", script.place # "nowhere",
         IF script.want = "GET" THEN header = SubSeq(Lp!Words, 1, Read') ELSE Read' = Len(script.words)
  PROVE  LpInv'
<1>1. LpTyped /\ entry \in EntryRecord /\ script.place \in {"in", "out"}
  <2>1. LpTyped
    BY DEF LpInv
  <2> QED BY <2>1, TheScript DEF LpTyped
<1>2. /\ entry' = [entry EXCEPT !.at = "connecting", !.header = header, !.direct = Lp!Bypasses(script.place)]
      /\ tunnel' = IF Lp!Bypasses(script.place) THEN tunnel ELSE Append(tunnel, Lp!Word("connect", script.place))
      /\ heard' = heard
  BY DEF Lp!Dial
<1>3. Lp!Bypasses(script.place) \in BOOLEAN
  BY <1>1 DEF Lp!Bypasses, EntryRecord
<1>4. /\ entry'.at = "connecting" /\ entry'.header = header /\ entry'.excluded = entry.excluded
      /\ entry'.direct = Lp!Bypasses(script.place) /\ entry' \in EntryRecord
  <2> DEFINE b == Lp!Bypasses(script.place)
  <2>1. b \in BOOLEAN /\ entry' = [entry EXCEPT !.at = "connecting", !.header = header, !.direct = b]
    BY <1>2, <1>3
  <2> HIDE DEF b
  <2>2. /\ entry'.at = "connecting" /\ entry'.header = header /\ entry'.excluded = entry.excluded
        /\ entry'.direct = b /\ entry' \in EntryRecord
    BY <1>1, <2>1 DEF EntryRecord
  <2> QED BY <2>2 DEF b
<1>5. Directed'
  BY <1>1, <1>4 DEF Directed, Lp!Bypasses
<1>6. tunnel' = IF entry'.direct THEN <<>> ELSE Asked
  BY <1>2, <1>4 DEF Asked
<1>7. ~entry'.direct => ~entry'.excluded /\ script.place = "in"
  BY <1>5 DEF Directed
<1>8. Carried' /\ tunnel' \in Seq(Tokens) /\ remote' \in Seq(Tokens)
  BY <1>1, <1>6, <1>7, NothingSent
<1>9. Lp!Words' = Lp!Words /\ Asked' = Asked
  BY ScriptStays
<1>10. LpTyped'
  BY <1>2, <1>4, <1>8, <1>9 DEF LpInv, LpTyped
<1>11. LpStage'
  <2>1. Polite' /\ script'.want # "udp"
    BY <1>2 DEF Polite
  <2>2. IF script'.want = "GET" THEN entry'.header = SubSeq(Lp!Words, 1, Read)' ELSE (Read = Len(script.words))'
    BY <1>4, <1>9
  <2>3. tunnel' = IF entry'.direct THEN <<>> ELSE Asked'
    BY <1>6, <1>9
  <2> QED BY <1>4, <1>5, <2>1, <2>2, <2>3 DEF LpStage
<1>12. Lp!Truthful'
  <2>1. "ok" \notin Lp!Range(heard)
    BY PoliteIsTruthful
  <2> QED BY <1>2, <2>1 DEF LpInv, Lp!Truthful, Lp!Range
<1> QED BY <1>8, <1>10, <1>11, <1>12 DEF LpInv

LEMMA RequestStep ==
  ASSUME Lp!Valid, LpInv, Lp!Request
  PROVE  LpInv'
<1>1. /\ entry.at = "request" /\ inbox # <<>> /\ inbox' = Tail(inbox)
      /\ UNCHANGED <<script, said, remote>>
  BY DEF Lp!Request
<1>2. LpTyped /\ Unread /\ entry \in EntryRecord /\ inbox \in Seq(STRING)
  BY DEF LpInv, LpTyped
<1>3. Read = 1 /\ Unasked /\ script.lang = "socks"
  BY <1>1 DEF LpInv, LpStage
<1>4. Polite /\ tunnel = <<>> /\ remote = <<>> /\ entry.header = <<>>
  BY <1>3 DEF Unasked
<1>5. "ok" \notin Lp!Range(heard)
  BY <1>4, PoliteIsTruthful
<1>6. 1 \in 0..Len(inbox) /\ inbox' = SubSeq(inbox, 1 + 1, Len(inbox))
  <2>1. Len(inbox) \in Nat /\ Len(inbox) # 0
    BY <1>1, <1>2, EmptySeq, LenProperties
  <2>2. Tail(inbox) = SubSeq(inbox, 2, Len(inbox))
    BY <1>1, <1>2, TailIsSubSeq
  <2> QED BY <1>1, <2>1, <2>2
<1>7. Unread' /\ Read' = 2 /\ inbox' \in Seq(STRING)
  <2> DEFINE k == 1
  <2>1. /\ k \in 0..Len(inbox) /\ inbox' = SubSeq(inbox, k + 1, Len(inbox))
        /\ said' = said /\ script' = script
    BY <1>1, <1>6
  <2>2. "ok" \in Lp!Range(heard) => "ok" \in Lp!Range(heard)'
    BY <1>5
  <2> HIDE DEF k
  <2>3. Unread' /\ Read' = Read + k /\ inbox' \in Seq(STRING)
    BY <1>2, <2>1, <2>2, Reads
  <2> QED BY <1>3, <2>3 DEF k
<1>8. Len(script.words) = 2 /\ script.want # "GET"
  BY <1>2, <1>3, TheScript
<1>9. ASSUME NEW a \in Answers, a # "ok", Lp!Ends(<<a>>), UNCHANGED tunnel
      PROVE  LpInv'
  BY <1>1, <1>4, <1>7, <1>9, EndsSaying
<1>10. CASE Lp!Ends(<<"command_not_supported">>) /\ UNCHANGED tunnel
  <2> DEFINE a == "command_not_supported"
  <2>1. a \in Answers /\ a # "ok" /\ Lp!Ends(<<a>>)
    BY <1>10 DEF Answers
  <2> HIDE DEF a
  <2> QED BY <1>9, <1>10, <2>1
<1>11. CASE Lp!Ends(<<"address_not_supported">>) /\ UNCHANGED tunnel
  <2> DEFINE a == "address_not_supported"
  <2>1. a \in Answers /\ a # "ok" /\ Lp!Ends(<<a>>)
    BY <1>11 DEF Answers
  <2> HIDE DEF a
  <2> QED BY <1>9, <1>11, <2>1
<1>12. CASE script.want = "connect" /\ script.place # "nowhere" /\ Lp!Dial(<<>>)
  <2> DEFINE header == <<>>
  <2>1. header \in Seq(STRING) /\ Lp!Dial(header)
    BY <1>12, EmptySeq
  <2>2. /\ UNCHANGED <<script, said>> /\ remote' = <<>> /\ script.want # "udp" /\ script.want # "GET"
        /\ Read' = Len(script.words)
    BY <1>1, <1>4, <1>7, <1>8, <1>12
  <2> HIDE DEF header
  <2> QED BY <1>4, <1>7, <1>12, <2>1, <2>2, Dials
<1>13. CASE /\ script.want = "udp"
            /\ entry' = [entry EXCEPT !.at = "association"]
            /\ heard' = Append(heard, "ok")
            /\ tunnel' = Append(tunnel, Lp!Word("associate", "any"))
            /\ UNCHANGED connect
  <2>1. entry' \in EntryRecord /\ entry'.at = "association"
    <3>1. entry' = [entry EXCEPT !.at = "association"]
      BY <1>13
    <3> QED BY <1>2, <3>1 DEF EntryRecord
  <2>2. Lp!Truthful' /\ heard' \in Seq(Answers)
    <3> DEFINE a == "ok"
    <3>1. a \in Answers /\ heard' = Append(heard, a) /\ script'.want = "udp" /\ script'.want # "GET"
      BY <1>1, <1>13 DEF Answers
    <3> HIDE DEF a
    <3> QED BY <1>4, <3>1, OneAnswer
  <2>3. tunnel' \in Seq(Tokens) /\ Lp!OneWay'
    <3> DEFINE opened == Lp!Word("associate", "any")
    <3>1. opened \in Tokens /\ opened.kind = "associate"
      BY DEF Lp!Word, Tokens
    <3>2. tunnel' = <<opened>>
      BY <1>4, <1>13
    <3> HIDE DEF opened
    <3>3. tunnel' \in Seq(Tokens) /\ \A i \in DOMAIN tunnel' : tunnel'[i].kind = "associate"
      BY <3>1, <3>2
    <3>4. remote' = <<>>
      BY <1>1, <1>4
    <3> QED BY <3>3, <3>4 DEF Lp!OneWay
  <2>4. LpTyped'
    BY <1>1, <1>7, <2>1, <2>2, <2>3, ScriptStays DEF LpInv, LpTyped
  <2>5. LpStage' /\ Carried'
    BY <1>1, <1>13, <2>1 DEF LpStage, Carried
  <2> QED BY <1>7, <2>2, <2>3, <2>4, <2>5 DEF LpInv
<1> QED BY <1>10, <1>11, <1>12, <1>13 DEF Lp!Request

LEMMA HeaderStep ==
  ASSUME Lp!Valid, LpInv, Lp!HeaderRead
  PROVE  LpInv'
<1> DEFINE w == Lp!Words
<1>1. /\ entry.at = "header" /\ inbox # <<>> /\ UNCHANGED <<script, said, remote>>
  BY DEF Lp!HeaderRead
<1>2. LpTyped /\ Unread /\ entry \in EntryRecord /\ inbox \in Seq(STRING) /\ said \in 0..Len(w)
  BY DEF LpInv, LpTyped
<1>3. /\ entry.header = SubSeq(w, 1, Read) /\ script.lang = "http" /\ tunnel = <<>> /\ remote = <<>> /\ Polite
  BY <1>1 DEF LpInv, LpStage
<1>4. PICK n \in DOMAIN inbox :
        LET header == entry.header \o SubSeq(inbox, 1, n) IN
        /\ inbox' = SubSeq(inbox, n + 1, Len(inbox))
        /\ \/ /\ Lp!HeaderOver(header) /\ script.want # "nonsense"
              /\ Lp!Dial(header)
           \/ /\ Lp!HeaderOver(header) /\ script.want = "nonsense"
              /\ Lp!Ends(<<"400">>) /\ UNCHANGED <<tunnel, connect>>
           \/ /\ ~Lp!HeaderOver(header) /\ Len(header) > HeaderMax
              /\ Lp!Ends(<<"431">>) /\ UNCHANGED <<tunnel, connect>>
           \/ /\ ~Lp!HeaderOver(header) /\ Len(header) <= HeaderMax
              /\ entry' = [entry EXCEPT !.header = header]
              /\ UNCHANGED <<heard, tunnel, connect>>
  BY Zenon DEF Lp!HeaderRead
<1> DEFINE header == entry.header \o SubSeq(inbox, 1, n)
<1>5. n \in 1..Len(inbox) /\ n \in 0..Len(inbox) /\ inbox' = SubSeq(inbox, n + 1, Len(inbox))
  <2>1. DOMAIN inbox = 1..Len(inbox) /\ Len(inbox) \in Nat
    BY <1>2, LenProperties
  <2> QED BY <1>4, <2>1
<1>6. "ok" \notin Lp!Range(heard)
  BY <1>3, PoliteIsTruthful
<1>7. /\ Unread' /\ Read' = Read + n /\ Read' \in Nat /\ inbox' \in Seq(STRING)
      /\ SubSeq(inbox, 1, n) = SubSeq(w, Read + 1, Read + n) /\ Read + n <= said
  <2>1. said' = said /\ script' = script
    BY <1>1
  <2>2. "ok" \in Lp!Range(heard) => "ok" \in Lp!Range(heard)'
    BY <1>6
  <2> QED BY <1>2, <1>5, <2>1, <2>2, Reads
<1>8. w \in Seq(STRING) /\ Len(w) \in Nat /\ Read \in Nat /\ said \in Nat /\ said <= Len(w)
  <2>1. w \in Seq(STRING)
    BY <1>2, TheScript
  <2>2. Len(w) \in Nat /\ Read \in Nat
    BY <1>2, <2>1, LenProperties DEF Unread
  <2> QED BY <1>2, <2>1, <2>2
<1>9. header = SubSeq(w, 1, Read + n) /\ header \in Seq(STRING)
  <2> DEFINE r == Read
             m == Read + n
  <2>1. r \in 0..Len(w) /\ m \in r..Len(w) /\ 1 \in 1..(Len(w) + 1) /\ r \in (1 - 1)..Len(w)
    <3>1. n \in Nat /\ m <= said
      BY <1>5, <1>7
    <3>2. Len(w) \in Nat /\ r \in Nat /\ said \in Nat /\ said <= Len(w)
      BY <1>8
    <3> HIDE DEF w, r
    <3> QED BY <3>1, <3>2 DEF r
  <2>2. header = SubSeq(w, 1, r) \o SubSeq(w, r + 1, m)
    BY <1>3, <1>7
  <2> HIDE DEF w, r, m
  <2>3. SubSeq(w, 1, r) \o SubSeq(w, r + 1, m) = SubSeq(w, 1, m)
    <3> DEFINE one == 1
    <3>1. one \in 1..(Len(w) + 1) /\ r \in (one - 1)..Len(w)
      BY <2>1
    <3> HIDE DEF one
    <3>2. SubSeq(w, one, r) \o SubSeq(w, r + 1, m) = SubSeq(w, one, m)
      BY <1>8, <2>1, <3>1, ConcatAdjacentSubSeq
    <3> QED BY <3>2 DEF one
  <2>4. SubSeq(w, 1, m) \in Seq(STRING)
    BY <1>8, <2>1
  <2> HIDE DEF header
  <2>5. header = SubSeq(w, 1, m) /\ header \in Seq(STRING)
    BY <2>2, <2>3, <2>4
  <2> QED BY <2>5 DEF m, r
<1>10. ASSUME NEW a \in Answers, a # "ok", Lp!Ends(<<a>>), UNCHANGED tunnel
       PROVE  LpInv'
  BY <1>1, <1>3, <1>7, <1>10, EndsSaying
<1>11. CASE Lp!Ends(<<"400">>) /\ UNCHANGED tunnel
  <2> DEFINE a == "400"
  <2>1. a \in Answers /\ a # "ok" /\ Lp!Ends(<<a>>)
    BY <1>11 DEF Answers
  <2> HIDE DEF a
  <2> QED BY <1>10, <1>11, <2>1
<1>12. CASE Lp!Ends(<<"431">>) /\ UNCHANGED tunnel
  <2> DEFINE a == "431"
  <2>1. a \in Answers /\ a # "ok" /\ Lp!Ends(<<a>>)
    BY <1>12 DEF Answers
  <2> HIDE DEF a
  <2> QED BY <1>10, <1>12, <2>1
<1>13. script.want # "udp" /\ script.place # "nowhere"
  BY <1>2, <1>3, TheScript
<1>14. CASE Lp!HeaderOver(header) /\ Lp!Dial(header)
  <2>1. script.want # "GET" => Read + n = Len(script.words)
    <3> SUFFICES ASSUME script.want # "GET" PROVE Read + n = Len(script.words)
      OBVIOUS
    <3> DEFINE words == script.words
               m == Read + n
               front == SubSeq(words, 1, m)
    <3>1. said <= Len(words)
      BY <1>2, <1>6 DEF Unread
    <3>2. /\ words \in Seq(STRING) /\ \A i \in 1..Len(words) : w[i] = words[i]
          /\ \A k \in 1..Len(words) : Lp!HeaderOver(SubSeq(words, 1, k)) => k = Len(words)
      BY <1>2, <1>3, TheScript
    <3>3. Len(words) \in Nat /\ m \in 1..Len(words) /\ m \in 1..Len(w)
      <4>1. Len(words) \in Nat
        BY <3>2, LenProperties
      <4>2. Read + n >= 1 /\ Read + n <= said /\ Read + n \in Nat
        BY <1>5, <1>7, <1>8
      <4> HIDE DEF words
      <4> QED BY <1>8, <3>1, <4>1, <4>2
    <3> HIDE DEF words, m, w
    <3>4. front = SubSeq(w, 1, m)
      <4>1. /\ front \in Seq(STRING) /\ Len(front) = m /\ \A i \in 1..m : front[i] = words[i]
        BY <3>2, <3>3
      <4>2. /\ SubSeq(w, 1, m) \in Seq(STRING) /\ Len(SubSeq(w, 1, m)) = m
            /\ \A i \in 1..m : SubSeq(w, 1, m)[i] = w[i]
        BY <1>8, <3>3
      <4>3. \A i \in 1..m : front[i] = SubSeq(w, 1, m)[i]
        BY <3>2, <3>3, <4>1, <4>2
      <4> HIDE DEF front
      <4> QED BY <4>1, <4>2, <4>3, SeqEqual
    <3>5. front = header
      BY <1>9, <3>4 DEF m
    <3>6. Lp!HeaderOver(front)
      BY <1>14, <3>5
    <3>7. m = Len(words)
      BY <3>2, <3>3, <3>6
    <3> QED BY <3>7 DEF m, words
  <2>2. IF script.want = "GET" THEN header = SubSeq(w, 1, Read') ELSE Read' = Len(script.words)
    BY <1>7, <1>9, <2>1
  <2>3. UNCHANGED <<script, said>> /\ remote = <<>> /\ remote' = <<>>
    BY <1>1, <1>3
  <2> HIDE DEF header
  <2> QED BY <1>3, <1>7, <1>9, <1>13, <1>14, <2>2, <2>3, Dials
<1>15. CASE entry' = [entry EXCEPT !.header = header] /\ UNCHANGED <<heard, tunnel, connect>>
  <2>1. /\ entry' \in EntryRecord /\ entry'.at = "header" /\ entry'.header = header
        /\ entry'.excluded = entry.excluded
    <3> HIDE DEF header
    <3> QED BY <1>1, <1>2, <1>9, <1>15 DEF EntryRecord
  <2>2. Lp!Words' = w
    BY <1>1, ScriptStays
  <2>3. LpTyped'
    BY <1>1, <1>7, <1>15, <2>1, <2>2 DEF LpInv, LpTyped
  <2>4. LpStage'
    <3>1. entry'.header = SubSeq(Lp!Words, 1, Read)'
      BY <1>7, <1>9, <2>1, <2>2
    <3>2. Polite' /\ tunnel' = <<>> /\ remote' = <<>> /\ script'.lang = "http"
      BY <1>1, <1>3, <1>15 DEF Polite
    <3> QED BY <2>1, <3>1, <3>2 DEF LpStage
  <2>5. Carried' /\ (script'.want = "udp" => Lp!OneWay') /\ Lp!Truthful'
    <3>1. UNCHANGED <<script, tunnel, remote>> /\ entry'.excluded = entry.excluded
      BY <1>1, <1>15, <2>1
    <3>2. Carried' = Carried /\ Lp!OneWay' = Lp!OneWay
      BY <3>1, CarriedStays
    <3> QED BY <1>1, <1>15, <3>2 DEF LpInv, Lp!Truthful, Lp!Range
  <2> QED BY <1>7, <2>3, <2>4, <2>5 DEF LpInv
<1> QED
  <2> HIDE DEF header
  <2>1. \/ /\ Lp!HeaderOver(header) /\ script.want # "nonsense"
           /\ Lp!Dial(header)
        \/ /\ Lp!HeaderOver(header) /\ script.want = "nonsense"
           /\ Lp!Ends(<<"400">>) /\ UNCHANGED <<tunnel, connect>>
        \/ /\ ~Lp!HeaderOver(header) /\ Len(header) > HeaderMax
           /\ Lp!Ends(<<"431">>) /\ UNCHANGED <<tunnel, connect>>
        \/ /\ ~Lp!HeaderOver(header) /\ Len(header) <= HeaderMax
           /\ entry' = [entry EXCEPT !.header = header]
           /\ UNCHANGED <<heard, tunnel, connect>>
    BY <1>4 DEF header
  <2> QED BY <1>11, <1>12, <1>14, <1>15, <2>1

LEMMA OutcomeStep ==
  ASSUME Lp!Valid, LpInv, Lp!Outcome
  PROVE  LpInv'
<1>1. entry.at = "connecting" /\ UNCHANGED <<script, said, inbox, entry, heard, tunnel, remote>>
  BY DEF Lp!Outcome
<1>2. Polite
  BY <1>1 DEF LpInv, LpStage
<1>3. Lp!Truthful'
  <2>1. "ok" \notin Lp!Range(heard)
    BY <1>2, PoliteIsTruthful
  <2> QED BY <1>1, <2>1 DEF LpInv, Lp!Truthful, Lp!Range
<1>4. Lp!Words' = Lp!Words /\ Read' = Read /\ Unread' = Unread
  BY <1>1, ScriptStays DEF Read, Unread, Lp!Range
<1>5. LpTyped'
  BY <1>1, <1>4 DEF LpInv, LpTyped
<1>6. LpStage'
  <2>1. Directed' = Directed /\ Polite' = Polite /\ Asked' = Asked
    BY <1>1 DEF Directed, Polite, Asked, Lp!Word
  <2> QED BY <1>1, <1>4, <2>1 DEF LpInv, LpStage
<1>7. Carried' /\ (script'.want = "udp" => Lp!OneWay')
  BY <1>1, CarriedStays DEF LpInv
<1> QED BY <1>3, <1>4, <1>5, <1>6, <1>7 DEF LpInv

LEMMA NotConnectedStep ==
  ASSUME Lp!Valid, LpInv, Lp!NotConnected
  PROVE  LpInv'
<1>1. entry.at = "connecting" /\ UNCHANGED <<script, said, inbox, tunnel, remote, connect>> /\ Lp!Ends(Lp!Failure)
  BY DEF Lp!NotConnected
<1>2. Polite /\ inbox \in Seq(STRING) /\ heard \in Seq(Answers)
  BY <1>1 DEF LpInv, LpStage, LpTyped
<1>3. CASE Lp!Failure = <<>>
  BY <1>1, <1>3, EndsQuietly
<1>4. CASE Lp!Failure # <<>>
  <2>1. PICK a \in {"refused", "unreachable", "504", "502"} : Lp!Failure = <<a>>
    BY <1>4 DEF Lp!Failure
  <2>2. a \in Answers /\ a # "ok"
    BY DEF Answers
  <2>3. "ok" \notin Lp!Range(heard)
    BY <1>2, PoliteIsTruthful
  <2>4. Unread
    BY DEF LpInv
  <2>5. Lp!Words' = Lp!Words /\ Read' = Read
    BY <1>1, ScriptStays DEF Read
  <2>6. Unread'
    BY <1>1, <2>3, <2>4, <2>5 DEF Unread
  <2>7. Lp!Ends(<<a>>)
    BY <1>1, <2>1
  <2> QED BY <1>1, <1>2, <2>2, <2>6, <2>7, EndsSaying
<1> QED BY <1>3, <1>4

(* What was read and not sent yet is what the target wants next.              *)
LEMMA ConsumesIs ==
  ASSUME Lp!Valid, LpTyped, Unread, Consumes \in Nat
  PROVE  Consumes \in 0..Len(Lp!Wanted)
<1>1. LpTyped /\ said \in 0..Len(Lp!Words) /\ inbox \in Seq(STRING)
  BY DEF LpTyped
<1>2. /\ script.words \in Seq(STRING) /\ script.after \in Seq(STRING) /\ Lp!Words \in Seq(STRING)
      /\ Len(Lp!Words) = Len(script.words) + Len(script.after)
  BY <1>1, TheScript
<1>3. Len(script.words) \in Nat /\ Len(script.after) \in Nat /\ Len(Lp!Words) \in Nat /\ Len(inbox) \in Nat
  BY <1>1, <1>2, LenProperties
<1>4. Read <= Len(Lp!Words) /\ Read \in Nat
  <2>1. Read = said - Len(inbox) /\ Read \in Nat
    BY DEF Read, Unread
  <2> QED BY <1>1, <1>3, <2>1
<1>5. CASE script.want = "GET"
  BY <1>3, <1>4, <1>5 DEF Consumes, Lp!Wanted
<1>6. CASE script.want # "GET"
  <2>1. Consumes = Read - Len(script.words) /\ Lp!Wanted = script.after
    BY <1>6 DEF Consumes, Lp!Wanted
  <2>2. Len(Lp!Words) = Len(script.words) + Len(script.after)
    BY <1>2
  <2>3. Consumes <= Len(script.after)
    <3> DEFINE l == Len(script.words)
               a == Len(script.after)
               all == Len(Lp!Words)
    <3>1. l \in Nat /\ a \in Nat /\ all = l + a /\ Read <= all /\ Read \in Nat /\ Consumes = Read - l
      BY <1>3, <1>4, <2>1, <2>2
    <3> HIDE DEF l, a, all
    <3>2. Consumes <= a
      BY <3>1
    <3> QED BY <3>2 DEF a
  <2> QED BY <1>3, <2>1, <2>3
<1> QED BY <1>5, <1>6

LEMMA ConnectedStep ==
  ASSUME Lp!Valid, LpInv, Lp!Connected
  PROVE  LpInv'
<1>1. /\ entry.at = "connecting" /\ connect = "ok" /\ entry' = [entry EXCEPT !.at = "open"]
      /\ heard' = heard \o Lp!Opening
      /\ tunnel' = (IF entry.direct THEN tunnel ELSE tunnel \o Lp!Payloads(Lp!Consumed))
      /\ remote' = (IF entry.direct THEN remote \o Lp!Payloads(Lp!Consumed) ELSE remote)
      /\ UNCHANGED <<script, said, inbox, connect>>
  BY DEF Lp!Connected
<1>2. LpTyped /\ Unread /\ entry \in EntryRecord /\ inbox \in Seq(STRING) /\ heard \in Seq(Answers)
  BY DEF LpInv, LpTyped
<1>3. /\ script.want # "udp" /\ Directed /\ Polite
      /\ remote = <<>> /\ tunnel = IF entry.direct THEN <<>> ELSE Asked
      /\ IF script.want = "GET" THEN entry.header = SubSeq(Lp!Words, 1, Read)
         ELSE Read = Len(script.words)
  BY <1>1 DEF LpInv, LpStage
<1>4. /\ entry' \in EntryRecord /\ entry'.at = "open" /\ entry'.direct = entry.direct
      /\ entry'.excluded = entry.excluded
  <2>1. entry' = [entry EXCEPT !.at = "open"]
    BY <1>1
  <2> QED BY <1>2, <2>1 DEF EntryRecord
<1>5. Read \in Nat /\ Len(script.words) \in Nat
  <2>1. script.words \in Seq(STRING)
    BY <1>2, TheScript
  <2> QED BY <1>2, <2>1, LenProperties DEF Unread
<1>6. Consumes \in Nat /\ (script.want # "GET" => Consumes = 0)
  <2>1. CASE script.want = "GET"
    BY <1>5, <2>1 DEF Consumes
  <2>2. CASE script.want # "GET"
    <3>1. Consumes = Read - Read
      BY <1>3, <2>2 DEF Consumes
    <3> QED BY <1>5, <3>1
  <2> QED BY <2>1, <2>2
<1>7. Consumes \in 0..Len(Lp!Wanted)
  BY <1>2, <1>6, ConsumesIs
<1>8. Lp!Payloads(Lp!Consumed) = Text(Consumes)
  <2>1. CASE script.want = "GET"
    BY <1>3, <2>1 DEF Lp!Consumed, Text, Consumes, Lp!Wanted
  <2>2. CASE script.want # "GET"
    <3>1. Lp!Consumed = <<>> /\ Consumes = 0
      BY <1>6, <2>2 DEF Lp!Consumed
    <3>2. Text(0) = <<>>
      BY <1>2, <1>6, <1>7, <2>2, TextIs
    <3>3. Lp!Payloads(<<>>) = <<>>
      BY DEF Lp!Payloads
    <3> QED BY <3>1, <3>2, <3>3
  <2> QED BY <2>1, <2>2
<1>9. Text(Consumes) \in Seq(Tokens) /\ Asked \in Seq(Tokens)
  BY <1>2, <1>7, TextIs, AskedIs
<1>10. IF entry.direct THEN tunnel' = <<>> /\ remote' = Text(Consumes)
       ELSE tunnel' = Asked \o Text(Consumes) /\ remote' = <<>>
  <2>1. CASE entry.direct
    BY <1>1, <1>3, <1>8, <1>9, <2>1, ConcatEmptySeq
  <2>2. CASE ~entry.direct
    BY <1>1, <1>3, <1>8, <2>2
  <2> QED BY <2>1, <2>2
<1>11. /\ Lp!Words' = Lp!Words /\ Lp!Wanted' = Lp!Wanted /\ Asked' = Asked
       /\ Read' = Read /\ Consumes' = Consumes
  BY <1>1, ScriptStays DEF Read, Consumes
<1>12. Text(Consumes)' = Text(Consumes)
  BY <1>1, <1>11 DEF Text, Lp!Payloads, Lp!Payload
<1>13. tunnel' \in Seq(Tokens) /\ remote' \in Seq(Tokens)
  BY <1>9, <1>10, Carriable
<1>14. Directed'
  BY <1>1, <1>3, <1>4 DEF Directed
<1>15. Carried'
  <2>1. CASE entry.direct
    <3>1. entry'.excluded \/ script'.place = "out"
      BY <1>1, <1>3, <1>4, <2>1 DEF Directed
    <3> QED BY <1>7, <1>10, <1>11, <1>12, <2>1, <3>1 DEF Carried, Text
  <2>2. CASE ~entry.direct
    <3>1. ~entry'.excluded /\ script'.place = "in"
      BY <1>1, <1>3, <1>4, <2>2 DEF Directed
    <3> QED BY <1>7, <1>10, <1>11, <1>12, <2>2, <3>1 DEF Carried, Text
  <2> QED BY <2>1, <2>2
<1>16. LpStage'
  <2>1. IF entry'.direct THEN tunnel' = <<>> /\ remote' = Text(Consumes)'
        ELSE tunnel' = Asked' \o Text(Consumes)' /\ remote' = <<>>
    BY <1>4, <1>10, <1>11, <1>12
  <2>2. script'.want # "udp" /\ Consumes' \in Nat
    BY <1>1, <1>3, <1>6, <1>11
  <2> QED BY <1>4, <1>14, <2>1, <2>2 DEF LpStage
<1>17. Lp!Truthful' /\ heard' \in Seq(Answers) /\ ("ok" \in Lp!Range(heard) => "ok" \in Lp!Range(heard)')
  <2>0. "ok" \notin Lp!Range(heard)
    BY <1>3, PoliteIsTruthful
  <2>1. CASE script.want = "GET"
    <3>1. heard' = heard
      BY <1>1, <1>2, <2>1, ConcatEmptySeq DEF Lp!Opening
    <3> QED BY <1>1, <1>2, <2>0, <3>1 DEF LpInv, Lp!Truthful, Lp!Range
  <2>2. CASE script.want # "GET"
    <3> DEFINE a == "ok"
    <3>1. heard' = heard \o <<a>> /\ a \in Answers
      BY <1>1, <2>2 DEF Lp!Opening, Answers
    <3>2. connect' = "ok" /\ script'.want # "GET"
      BY <1>1, <2>2
    <3> HIDE DEF a
    <3>3. heard' = Append(heard, a)
      BY <1>2, <3>1, AppendIsConcat
    <3>4. Lp!Truthful' /\ heard' \in Seq(Answers)
      BY <1>3, <3>1, <3>2, <3>3, OneAnswer
    <3> QED BY <2>0, <3>4
  <2> QED BY <2>1, <2>2
<1>18. Unread'
  BY <1>1, <1>2, <1>11, <1>17 DEF Unread
<1>19. LpTyped'
  BY <1>1, <1>2, <1>4, <1>11, <1>13, <1>17 DEF LpTyped
<1> QED BY <1>1, <1>3, <1>15, <1>16, <1>17, <1>18, <1>19 DEF LpInv

(* The unread words are the next of those the target wants.                   *)
LEMMA WantsMore ==
  ASSUME Lp!Valid, LpTyped, Unread, Consumes \in Nat
  PROVE  /\ Consumes + Len(inbox) \in 0..Len(Lp!Wanted)
         /\ Text(Consumes) \o Lp!Payloads(inbox) = Text(Consumes + Len(inbox))
<1> DEFINE w == Lp!Words
           r == Read
<1>1. /\ w \in Seq(STRING) /\ script.words \in Seq(STRING) /\ script.after \in Seq(STRING)
      /\ Len(w) = Len(script.words) + Len(script.after) /\ inbox \in Seq(STRING)
      /\ \A i \in 1..Len(script.after) : w[Len(script.words) + i] = script.after[i]
      /\ said \in 0..Len(w)
  BY TheScript DEF LpTyped
<1>2. /\ Len(w) \in Nat /\ Len(script.words) \in Nat /\ Len(script.after) \in Nat /\ Len(inbox) \in Nat
      /\ said \in Nat /\ said <= Len(w)
  <2>1. Len(w) \in Nat /\ Len(script.words) \in Nat /\ Len(script.after) \in Nat /\ Len(inbox) \in Nat
    BY <1>1, LenProperties
  <2>2. said \in 0..Len(w)
    BY <1>1
  <2> HIDE DEF w
  <2> QED BY <2>1, <2>2
<1>3. r \in Nat /\ r + Len(inbox) = said /\ inbox = SubSeq(w, r + 1, said) /\ r <= said
  <2>1. r = said - Len(inbox) /\ r \in Nat
    BY DEF Read, Unread
  <2>2. inbox = SubSeq(w, r + 1, said)
    BY DEF Unread
  <2>3. Len(inbox) \in Nat /\ said \in Nat
    BY <1>2
  <2> HIDE DEF w, r
  <2>4. r + Len(inbox) = said /\ r <= said
    BY <2>1, <2>3
  <2> QED BY <2>1, <2>2, <2>4
<1> HIDE DEF w, r
<1>4. CASE script.want = "GET"
  <2>1. Consumes = r /\ Lp!Wanted = w
    BY <1>4 DEF Consumes, Lp!Wanted, r, w
  <2>2. r \in 0..Len(w) /\ said \in r..Len(w)
    BY <1>2, <1>3
  <2>3. Lp!Payloads(SubSeq(w, 1, r)) \o Lp!Payloads(SubSeq(w, r + 1, said)) = Lp!Payloads(SubSeq(w, 1, said))
    BY <1>1, <2>2, PayloadsJoin
  <2>4. Consumes + Len(inbox) = said
    BY <1>3, <2>1
  <2>5. said \in 0..Len(w)
    BY <1>2
  <2> QED BY <1>3, <2>1, <2>3, <2>4, <2>5 DEF Text
<1>5. CASE script.want # "GET"
  <2> DEFINE l == Len(script.words)
             a == script.after
             c == Consumes
             m == c + Len(inbox)
  <2>1. c = r - l /\ Lp!Wanted = a /\ c \in Nat
    BY <1>5 DEF Consumes, Lp!Wanted, r
  <2>2. l \in Nat /\ Len(a) \in Nat /\ Len(w) = l + Len(a)
    BY <1>1, <1>2
  <2>3. a \in Seq(STRING) /\ \A i \in 1..Len(a) : w[l + i] = a[i]
    BY <1>1
  <2> HIDE DEF l, a, c
  <2>4. m = said - l /\ r = c + l /\ m \in Nat /\ c <= m /\ m <= Len(a)
    <3>1. said = r + Len(inbox)
      BY <1>3
    <3> QED BY <1>2, <1>3, <2>1, <2>2, <3>1
  <2> HIDE DEF m
  <2>5. c \in 0..Len(a) /\ m \in c..Len(a)
    BY <2>1, <2>2, <2>4
  <2>6. inbox = SubSeq(a, c + 1, m)
    <3>1. /\ SubSeq(w, r + 1, said) \in Seq(STRING) /\ Len(SubSeq(w, r + 1, said)) = said - r
          /\ \A i \in 1..(said - r) : SubSeq(w, r + 1, said)[i] = w[r + i]
      <4>1. r \in Nat /\ r <= said /\ said \in Nat /\ said <= Len(w) /\ Len(w) \in Nat
        BY <1>2, <1>3
      <4>2. w \in Seq(STRING)
        BY <1>1
      <4> QED BY <4>1, <4>2
    <3>2. /\ SubSeq(a, c + 1, m) \in Seq(STRING) /\ Len(SubSeq(a, c + 1, m)) = m - c
          /\ \A i \in 1..(m - c) : SubSeq(a, c + 1, m)[i] = a[c + i]
      BY <2>1, <2>2, <2>3, <2>4
    <3>3. m - c = said - r
      BY <1>2, <1>3, <2>1, <2>2, <2>4
    <3>4. \A i \in 1..(m - c) : w[r + i] = a[c + i]
      <4> TAKE i \in 1..(m - c)
      <4>1. c + i \in 1..Len(a) /\ l + (c + i) = r + i
        BY <2>1, <2>2, <2>4
      <4> QED BY <2>3, <4>1
    <3>5. \A i \in 1..(m - c) : SubSeq(w, r + 1, said)[i] = SubSeq(a, c + 1, m)[i]
      BY <3>1, <3>2, <3>3, <3>4
    <3>6. SubSeq(w, r + 1, said) = SubSeq(a, c + 1, m)
      BY <3>1, <3>2, <3>3, <3>5, SeqEqual
    <3> QED BY <1>3, <3>6
  <2>7. Lp!Payloads(SubSeq(a, 1, c)) \o Lp!Payloads(SubSeq(a, c + 1, m)) = Lp!Payloads(SubSeq(a, 1, m))
    BY <2>3, <2>5, PayloadsJoin
  <2>8. m \in 0..Len(a)
    BY <2>2, <2>4
  <2>9. Text(c) \o Lp!Payloads(inbox) = Text(m) /\ m \in 0..Len(Lp!Wanted)
    BY <2>1, <2>6, <2>7, <2>8 DEF Text
  <2> QED BY <2>9 DEF m, c
<1> QED BY <1>4, <1>5

LEMMA ForwardStep ==
  ASSUME Lp!Valid, LpInv, Lp!Forward
  PROVE  LpInv'
<1> DEFINE c == Consumes
           m == Consumes + Len(inbox)
           words == Lp!Payloads(inbox)
<1>1. /\ entry.at = "open" /\ inbox' = <<>>
      /\ tunnel' = (IF entry.direct THEN tunnel ELSE tunnel \o words)
      /\ remote' = (IF entry.direct THEN remote \o words ELSE remote)
      /\ UNCHANGED <<script, said, entry, heard, connect>>
  BY DEF Lp!Forward
<1>2. LpTyped /\ Unread /\ inbox \in Seq(STRING) /\ entry \in EntryRecord
  BY DEF LpInv, LpTyped
<1>3. /\ script.want # "udp" /\ Directed /\ Consumes \in Nat
      /\ IF entry.direct THEN tunnel = <<>> /\ remote = Text(c)
         ELSE tunnel = Asked \o Text(c) /\ remote = <<>>
  BY <1>1 DEF LpInv, LpStage
<1>4. m \in 0..Len(Lp!Wanted) /\ c \in 0..Len(Lp!Wanted) /\ Text(c) \o words = Text(m)
  BY <1>2, <1>3, WantsMore, ConsumesIs
<1>5. Len(inbox) \in Nat /\ Read \in Nat
  BY <1>2, LenProperties DEF Unread
<1>6. Unread' /\ Read' = Read + Len(inbox) /\ inbox' \in Seq(STRING)
  <2> DEFINE k == Len(inbox)
  <2>1. SubSeq(inbox, k + 1, k) = <<>>
    BY <1>5, SubSeqEmpty
  <2>2. k \in 0..Len(inbox) /\ inbox' = SubSeq(inbox, k + 1, Len(inbox)) /\ said' = said /\ script' = script
    BY <1>1, <1>5, <2>1
  <2>3. "ok" \in Lp!Range(heard) => "ok" \in Lp!Range(heard)'
    BY <1>1 DEF Lp!Range
  <2> HIDE DEF k
  <2>4. Unread' /\ Read' = Read + k /\ inbox' \in Seq(STRING)
    BY <1>2, <2>2, <2>3, Reads
  <2> QED BY <2>4 DEF k
<1>7. Consumes' = m
  <2>1. CASE script.want = "GET"
    BY <1>1, <1>6, <2>1 DEF Consumes
  <2>2. CASE script.want # "GET"
    <3>1. Len(script.words) \in Nat
      <4>1. script.words \in Seq(STRING)
        BY <1>2, TheScript
      <4> QED BY <4>1, LenProperties
    <3>2. Consumes' = (Read + Len(inbox)) - Len(script.words) /\ Consumes = Read - Len(script.words)
      <4>1. script' = script /\ Read' = Read + Len(inbox)
        BY <1>1, <1>6
      <4>2. Consumes' = Read' - Len(script.words)
        BY <2>2, <4>1 DEF Consumes
      <4>3. Consumes = Read - Len(script.words)
        BY <2>2 DEF Consumes
      <4> QED BY <4>1, <4>2, <4>3
    <3> QED BY <1>5, <3>1, <3>2
  <2> QED BY <2>1, <2>2
<1> HIDE DEF c, m, words
<1>8. /\ Text(c) \in Seq(Tokens) /\ Text(m) \in Seq(Tokens) /\ Asked \in Seq(Tokens) /\ words \in Seq(Tokens)
  <2>1. Text(c) \in Seq(Tokens) /\ Text(m) \in Seq(Tokens) /\ Asked \in Seq(Tokens)
    BY <1>2, <1>4, TextIs, AskedIs
  <2>2. words \in Seq(Tokens)
    BY <1>2, PayloadsAre DEF words
  <2> QED BY <2>1, <2>2
<1>9. IF entry.direct THEN tunnel' = <<>> /\ remote' = Text(m)
      ELSE tunnel' = Asked \o Text(m) /\ remote' = <<>>
  <2>1. CASE entry.direct
    BY <1>1, <1>3, <1>4, <2>1
  <2>2. CASE ~entry.direct
    <3>1. (Asked \o Text(c)) \o words = Asked \o (Text(c) \o words)
      BY <1>8, ConcatAssociative, SMTT(30)
    <3> QED BY <1>1, <1>3, <1>4, <2>2, <3>1
  <2> QED BY <2>1, <2>2
<1>10. tunnel' \in Seq(Tokens) /\ remote' \in Seq(Tokens)
  BY <1>8, <1>9, Carriable
<1>11. Lp!Words' = Lp!Words /\ Lp!Wanted' = Lp!Wanted /\ Asked' = Asked /\ Text(m)' = Text(m)
  BY <1>1, ScriptStays, <1>7, <1>6 DEF Text, Lp!Payloads, Lp!Payload, m
<1>12. Carried'
  <2>1. CASE entry.direct
    <3>1. entry'.excluded \/ script'.place = "out"
      BY <1>1, <1>3, <2>1 DEF Directed
    <3> QED BY <1>4, <1>9, <1>11, <2>1, <3>1 DEF Carried, Text
  <2>2. CASE ~entry.direct
    <3>1. ~entry'.excluded /\ script'.place = "in"
      BY <1>1, <1>3, <2>2 DEF Directed
    <3> QED BY <1>4, <1>9, <1>11, <2>2, <3>1 DEF Carried, Text
  <2> QED BY <2>1, <2>2
<1>13. LpStage'
  <2>1. Directed' /\ script'.want # "udp"
    BY <1>1, <1>3 DEF Directed
  <2>2. Consumes' \in Nat
    BY <1>4, <1>7 DEF m
  <2>3. Text(Consumes)' = Text(m)
    BY <1>7, <1>11 DEF Text, Lp!Payloads, Lp!Payload
  <2>4. IF entry'.direct THEN tunnel' = <<>> /\ remote' = Text(Consumes)'
        ELSE tunnel' = Asked' \o Text(Consumes)' /\ remote' = <<>>
    BY <1>1, <1>9, <1>11, <2>3
  <2>5. entry'.at = "open"
    BY <1>1
  <2> QED BY <2>1, <2>2, <2>4, <2>5 DEF LpStage
<1>14. LpTyped'
  BY <1>1, <1>2, <1>6, <1>10, <1>11 DEF LpTyped
<1>15. Lp!Truthful'
  BY <1>1 DEF LpInv, Lp!Truthful, Lp!Range
<1> QED BY <1>1, <1>3, <1>6, <1>12, <1>13, <1>14, <1>15 DEF LpInv

LEMMA HangupStep ==
  ASSUME Lp!Valid, LpInv, Lp!Hangup
  PROVE  LpInv'
<1> DEFINE n == Consumes
           close == Lp!Word("close", "any")
<1>1. /\ entry.at = "open" /\ Lp!Ends(<<>>)
      /\ tunnel' = (IF entry.direct THEN tunnel ELSE Append(tunnel, close))
      /\ UNCHANGED <<script, said, inbox, remote, connect>>
  BY DEF Lp!Hangup
<1>2. CASE entry.direct
  <2>1. tunnel' = tunnel
    BY <1>1, <1>2
  <2> QED BY <1>1, <2>1, EndsQuietly
<1>3. CASE ~entry.direct
  <2>1. LpTyped /\ Unread /\ heard \in Seq(Answers) /\ inbox \in Seq(STRING) /\ entry \in EntryRecord
    BY DEF LpInv, LpTyped
  <2>2. /\ script.want # "udp" /\ Directed /\ Consumes \in Nat
        /\ tunnel = Asked \o Text(Consumes) /\ remote = <<>>
    BY <1>1, <1>3 DEF LpInv, LpStage
  <2>3. Consumes \in 0..Len(Lp!Wanted)
    BY <2>1, <2>2, ConsumesIs
  <2>4. ~entry.excluded /\ script.place = "in"
    BY <1>3, <2>2 DEF Directed
  <2>5. heard' = heard /\ entry' = [entry EXCEPT !.at = "ended"]
    BY <1>1, <2>1, ConcatEmptySeq DEF Lp!Ends
  <2>6. entry'.excluded = entry.excluded
    BY <2>1, <2>5 DEF EntryRecord
  <2>7. Lp!Wanted' = Lp!Wanted /\ Asked' = Asked /\ (\A k : Text(k)' = Text(k)) /\ Lp!Words' = Lp!Words
    BY <1>1, ScriptStays
  <2>8. tunnel' \in Seq(Tokens)
    <3>1. close \in Tokens /\ tunnel \in Seq(Tokens)
      BY <2>1, AskedIs DEF LpTyped
    <3> HIDE DEF close
    <3> QED BY <1>1, <1>3, <3>1, AppendProperties
  <2>9. Carried'
    <3>1. tunnel' = Append(Asked \o Text(n), close) /\ remote' = <<>>
      BY <1>1, <1>3, <2>2
    <3>2. \E k \in 0..Len(Lp!Wanted) :
            tunnel' = Append(Asked \o Text(k), close) /\ remote' = <<>> /\ ~entry'.excluded /\ script'.place = "in"
      BY <1>1, <2>3, <2>4, <2>6, <3>1
    <3> QED BY <2>7, <3>2 DEF Carried, Lp!Word
  <2>10. remote' \in Seq(Tokens) /\ inbox' \in Seq(STRING) /\ heard' \in Seq(Answers)
    BY <1>1, <2>1, <2>5 DEF LpTyped
  <2>11. Unread' /\ Lp!Truthful'
    BY <1>1, <2>5, <2>7 DEF LpInv, Unread, Read, Lp!Truthful, Lp!Range
  <2> QED BY <1>1, <2>2, <2>5, <2>8, <2>9, <2>10, <2>11, LpEnds
<1> QED BY <1>2, <1>3

(* A datagram goes the way of its place and of the program.                   *)
LEMMA DatagramStep ==
  ASSUME Lp!Valid, LpInv, Lp!Datagram
  PROVE  LpInv'
<1>1. entry.at = "association" /\ UNCHANGED <<script, said, inbox, entry, heard, connect>>
  BY DEF Lp!Datagram
<1>2. LpTyped /\ script.want = "udp" /\ Lp!OneWay
  BY <1>1 DEF LpInv, LpStage
<1>3. tunnel \in Seq(Tokens) /\ remote \in Seq(Tokens)
  BY <1>2 DEF LpTyped
<1>4. \/ UNCHANGED <<tunnel, remote>>
      \/ \E place \in {"in", "out"} :
           IF Lp!Bypasses(place)
           THEN remote' = Append(remote, Lp!Word("datagram", place)) /\ UNCHANGED tunnel
           ELSE tunnel' = Append(tunnel, Lp!Word("datagram", place)) /\ UNCHANGED remote
  BY DEF Lp!Datagram
<1>5. tunnel' \in Seq(Tokens) /\ remote' \in Seq(Tokens) /\ Lp!OneWay'
  <2>1. CASE UNCHANGED <<tunnel, remote>>
    BY <1>1, <1>2, <1>3, <2>1 DEF Lp!OneWay
  <2>2. ASSUME NEW place \in {"in", "out"}, Lp!Bypasses(place),
               remote' = Append(remote, Lp!Word("datagram", place)), UNCHANGED tunnel
        PROVE  tunnel' \in Seq(Tokens) /\ remote' \in Seq(Tokens) /\ Lp!OneWay'
    <3> DEFINE new == Lp!Word("datagram", place)
    <3>1. new \in Tokens /\ new.kind = "datagram" /\ (entry.excluded \/ new.place = "out")
      BY <2>2 DEF Lp!Word, Tokens, Lp!Bypasses
    <3>2. remote' = Append(remote, new)
      BY <2>2
    <3> HIDE DEF new
    <3>3. /\ remote' \in Seq(Tokens) /\ Len(remote') = Len(remote) + 1 /\ remote'[Len(remote) + 1] = new
          /\ \A i \in 1..Len(remote) : remote'[i] = remote[i]
      BY <1>3, <3>1, <3>2, AppendProperties
    <3>4. \A i \in DOMAIN remote' : (i \in DOMAIN remote /\ remote'[i] = remote[i]) \/ remote'[i] = new
      <4>1. DOMAIN remote' = 1..(Len(remote) + 1) /\ DOMAIN remote = 1..Len(remote) /\ Len(remote) \in Nat
        BY <1>3, <3>3, LenProperties
      <4>2. \A i \in DOMAIN remote' : i \in 1..Len(remote) \/ i = Len(remote) + 1
        BY <4>1
      <4> QED BY <3>3, <4>1, <4>2
    <3>5. Lp!OneWay'
      BY <1>1, <1>2, <2>2, <3>1, <3>4 DEF Lp!OneWay
    <3> QED BY <1>3, <2>2, <3>3, <3>5
  <2>3. ASSUME NEW place \in {"in", "out"}, ~Lp!Bypasses(place),
               tunnel' = Append(tunnel, Lp!Word("datagram", place)), UNCHANGED remote
        PROVE  tunnel' \in Seq(Tokens) /\ remote' \in Seq(Tokens) /\ Lp!OneWay'
    <3> DEFINE new == Lp!Word("datagram", place)
    <3>1. new \in Tokens /\ ~entry.excluded /\ new.place = "in"
      BY <2>3 DEF Lp!Word, Tokens, Lp!Bypasses
    <3>2. tunnel' = Append(tunnel, new)
      BY <2>3
    <3> HIDE DEF new
    <3>3. /\ tunnel' \in Seq(Tokens) /\ Len(tunnel') = Len(tunnel) + 1 /\ tunnel'[Len(tunnel) + 1] = new
          /\ \A i \in 1..Len(tunnel) : tunnel'[i] = tunnel[i]
      BY <1>3, <3>1, <3>2, AppendProperties
    <3>4. \A i \in DOMAIN tunnel' : (i \in DOMAIN tunnel /\ tunnel'[i] = tunnel[i]) \/ tunnel'[i] = new
      <4>1. DOMAIN tunnel' = 1..(Len(tunnel) + 1) /\ DOMAIN tunnel = 1..Len(tunnel) /\ Len(tunnel) \in Nat
        BY <1>3, <3>3, LenProperties
      <4>2. \A i \in DOMAIN tunnel' : i \in 1..Len(tunnel) \/ i = Len(tunnel) + 1
        BY <4>1
      <4> QED BY <3>3, <4>1, <4>2
    <3>5. Lp!OneWay'
      BY <1>1, <1>2, <2>3, <3>1, <3>4 DEF Lp!OneWay
    <3> QED BY <1>3, <2>3, <3>3, <3>5
  <2> QED BY <1>4, <2>1, <2>2, <2>3
<1>6. Lp!Words' = Lp!Words /\ Read' = Read /\ Unread'
  BY <1>1, ScriptStays DEF LpInv, Read, Unread, Lp!Range
<1>7. LpTyped'
  BY <1>1, <1>2, <1>5, <1>6 DEF LpTyped
<1>8. LpStage' /\ Carried'
  BY <1>1, <1>2 DEF LpStage, Carried
<1>9. Lp!Truthful'
  BY <1>1 DEF LpInv, Lp!Truthful, Lp!Range
<1> QED BY <1>5, <1>6, <1>7, <1>8, <1>9 DEF LpInv

(* Steps that change nothing of this.                                         *)
LEMMA LpQuiet ==
  ASSUME LpInv, UNCHANGED <<script, said, inbox, entry, heard, tunnel, remote, connect>>
  PROVE  LpInv'
<1>1. LpTyped' = LpTyped
  BY DEF LpTyped, Lp!Words
<1>2. Lp!Words' = Lp!Words /\ Read' = Read /\ Asked' = Asked /\ Polite' = Polite
  BY ScriptStays DEF Read, Polite
<1>3. Unread' = Unread /\ Consumes' = Consumes
  BY <1>2 DEF Unread, Lp!Range, Consumes
<1>4. Text(Consumes)' = Text(Consumes)
  BY <1>2, <1>3 DEF Text, Lp!Wanted, Lp!Payloads, Lp!Payload
<1>5. Unasked' = Unasked /\ Directed' = Directed
  BY <1>2 DEF Unasked, Directed
<1>6. LpStage' = LpStage
  BY <1>2, <1>3, <1>4, <1>5 DEF LpStage
<1>7. Carried' = Carried /\ Lp!OneWay' = Lp!OneWay
  BY CarriedStays
<1>8. Lp!Truthful' = Lp!Truthful
  BY DEF Lp!Truthful, Lp!Range
<1> QED BY <1>1, <1>3, <1>6, <1>7, <1>8 DEF LpInv

LEMMA LpInvNext ==
  ASSUME Lp!Valid, LpInv, Lp!Next
  PROVE  LpInv'
<1>1. CASE Lp!Says
  BY <1>1, SaysStep
<1>2. CASE Lp!Leaves
  BY <1>2, EndsQuietly DEF Lp!Leaves
<1>3. CASE Lp!First
  BY <1>3, FirstStep
<1>4. CASE Lp!Greeting
  BY <1>4, GreetingStep
<1>5. CASE Lp!Request
  BY <1>5, RequestStep
<1>6. CASE Lp!HeaderRead
  BY <1>6, HeaderStep
<1>7. CASE Lp!Outcome
  BY <1>7, OutcomeStep
<1>8. CASE Lp!Connected
  BY <1>8, ConnectedStep
<1>9. CASE Lp!NotConnected
  BY <1>9, NotConnectedStep
<1>10. CASE Lp!Forward
  BY <1>10, ForwardStep
<1>11. CASE Lp!Hangup
  BY <1>11, HangupStep
<1>12. CASE Lp!Closed
  BY <1>12, EndsQuietly DEF Lp!Closed
<1>13. CASE Lp!Datagram
  BY <1>13, DatagramStep
<1>14. CASE Lp!AssociationEnds
  BY <1>14, EndsQuietly DEF Lp!AssociationEnds
<1>15. CASE \E family \in {4, 6} : Lp!ReaderEnds(family)
  BY <1>15, LpQuiet DEF Lp!ReaderEnds
<1> QED BY <1>1, <1>2, <1>3, <1>4, <1>5, <1>6, <1>7, <1>8, <1>9, <1>10, <1>11, <1>12, <1>13, <1>14,
           <1>15 DEF Lp!Next, Lp!Task

(* Everything that leaves through the device or the proxy goes the way of the *)
(* exclusions, in order and from its first byte.                              *)
FlowsKept == FlowsInv /\ LpInv

LEMMA FlowsKeptNext ==
  ASSUME FlowsKept, [PartsNext]_partsVars
  PROVE  FlowsKept'
<1> USE ClientAssumption
<1>1. ASSUME UNCHANGED tunFlows
      PROVE  FlowsInv'
  BY <1>1 DEF tunFlows, FlowsKept, FlowsInv, FlowsTyped, Settled, LeftOpen, Decided, SessionRecord, ConnRecord,
              Flows!UdpWay, Flows!TcpWay, Flows!MatchIp, Flows!MatchDomain, Flows!ExcludedProcess, Flows!ExcludedFor
<1>2. ASSUME UNCHANGED localProxy
      PROVE  LpInv'
  BY <1>2, LpQuiet DEF localProxy, FlowsKept
<1>3. CASE Flows!Next /\ UNCHANGED <<clientRuns, localProxy>>
  BY <1>2, <1>3, FlowsInvNext DEF FlowsKept
<1>4. CASE Runs!Next /\ UNCHANGED <<tunFlows, localProxy>>
  BY <1>1, <1>2, <1>4 DEF FlowsKept
<1>5. CASE Lp!Next /\ UNCHANGED <<tunFlows, clientRuns>>
  BY <1>1, <1>5, LpInvNext DEF FlowsKept
<1>6. CASE UNCHANGED partsVars
  BY <1>1, <1>2, <1>6 DEF FlowsKept, partsVars
<1> QED BY <1>3, <1>4, <1>5, <1>6 DEF PartsNext

(* TunFlows, LocalProxy: a flow of the device and a connection of the proxy   *)
(* go the way the exclusions in force ask, which does not change under them;  *)
(* what leaves is what came, in order and from its first byte; and what an    *)
(* application is told about its connection is true.                          *)
THEOREM FlowsAreSound == PartsSpec => []FlowsSound
<1> USE ClientAssumption
<1>1. PartsInit => FlowsKept
  BY FlowsInvInit, LpInvInit DEF PartsInit, FlowsKept
<1>2. FlowsKept /\ [PartsNext]_partsVars => FlowsKept'
  BY FlowsKeptNext
<1>3. FlowsKept => FlowsSound
  <2> SUFFICES ASSUME FlowsKept PROVE FlowsSound
    OBVIOUS
  <2>1. Flows!FlowsSound
    BY FlowsFollow DEF FlowsKept
  <2>2. LpTyped /\ Carried /\ (script.want = "udp" => Lp!OneWay) /\ Lp!Truthful
    BY DEF FlowsKept, LpInv
  <2>3. Lp!InOrder /\ (script.want # "udp" => Lp!OneWay)
    BY <2>2, CarriedMeans
  <2> QED BY <2>1, <2>2, <2>3 DEF FlowsSound, Lp!ProxySound
<1> QED BY <1>1, <1>2, <1>3, PTL DEF PartsSpec
================================================================================
