----------------------------- MODULE BridgeProofs -----------------------------
(***************************************************************************)
(* No stop of the tunnel is forgotten, and the system proxy goes with the    *)
(* tunnel, for every bound on the command queue.                             *)
(***************************************************************************)
EXTENDS Bridge, TLAPS

(* The fields the proof is about.                                             *)
HasFields(b) ==
  /\ {"running", "guard", "stops", "sysproxy"} \subseteq DOMAIN b
  /\ b.running \in BOOLEAN /\ b.guard \in BOOLEAN /\ b.sysproxy \in BOOLEAN
  /\ b.stops \in Nat

(* A tunnel that is up holds its guard, and outside proxy mode the system     *)
(* proxy is only ever on through that guard.                                  *)
Sound(b) ==
  /\ HasFields(b)
  /\ b.running => b.guard
  /\ config.mode # "proxy" /\ b.sysproxy => b.guard

(* What a bridge owes its host: to be up, or the stops it has reported.       *)
Owed(b) == (IF b.running THEN 1 ELSE 0) + b.stops

(* From b to c the proxy is not left on behind a tunnel that went down.       *)
ProxyKept(b, c) == c.sysproxy => c.running \/ (b.sysproxy /\ ~b.running)

Settles(b, c) == Sound(c) /\ Owed(c) = Owed(b) /\ ProxyKept(b, c)

(* The inductive invariant.                                                   *)
Supervised ==
  /\ Sound(bridge)
  /\ ~alive => ~bridge.sysproxy
  /\ config.host = "runner" =>
       cmds \in Seq({"Toggle"}) /\ (alive => Owed(bridge) + Len(cmds) = 1)

--------------------------------------------------------------------------------
(* The transformations of the bridge.                                         *)

LEMMA FirstIsSound ==
  /\ Sound(FirstBridge)
  /\ FirstBridge.running = FALSE /\ FirstBridge.stops = 0
BY DEF FirstBridge, NewBridge, Sound, HasFields

LEMMA FirstCommand == <<"Toggle">> \in Seq({"Toggle"}) /\ Len(<<"Toggle">>) = 1
<1>1. "Toggle" \in {"Toggle"}
  OBVIOUS
<1>2. <<"Toggle">> \in Seq({"Toggle"})
  BY <1>1
<1> QED BY <1>2

LEMMA SettlesTwice ==
  ASSUME NEW b, NEW c, NEW d, Settles(b, c), Settles(c, d)
  PROVE  Settles(b, d)
BY DEF Settles, ProxyKept

LEMMA SettlesItself ==
  ASSUME NEW b, Sound(b)
  PROVE  Settles(b, b)
BY DEF Settles, ProxyKept

LEMMA UnguardedIs ==
  ASSUME NEW b, HasFields(b)
  PROVE  /\ HasFields(Unguarded(b))
         /\ Unguarded(b).running = b.running /\ Unguarded(b).stops = b.stops
         /\ Unguarded(b).guard = FALSE
         /\ Unguarded(b).sysproxy = (b.sysproxy /\ ~b.guard)
<1>1. /\ Unguarded(b).running = b.running /\ Unguarded(b).stops = b.stops
      /\ Unguarded(b).guard = FALSE
      /\ Unguarded(b).sysproxy = (b.sysproxy /\ ~b.guard)
  BY DEF HasFields, Unguarded
<1>2. HasFields(Unguarded(b))
  BY DEF HasFields, Unguarded
<1> QED BY <1>1, <1>2

LEMMA StopSettles ==
  ASSUME NEW b, Sound(b), b.running
  PROVE  Settles(b, Stop(b)) /\ Settles(b, CutOff(b))
<1>1. HasFields(b) /\ b.guard
  BY DEF Sound
<1>2. /\ CutOff(b).running = FALSE /\ CutOff(b).stops = b.stops + 1
      /\ CutOff(b).sysproxy = FALSE /\ CutOff(b).guard = b.guard
  BY <1>1 DEF HasFields, CutOff
<1>3. DOMAIN CutOff(b) = DOMAIN b
  BY DEF CutOff
<1> DEFINE u == Unguarded(b)
<1>4. /\ HasFields(u) /\ u.stops = b.stops
      /\ u.guard = FALSE /\ u.sysproxy = FALSE
  BY <1>1, UnguardedIs
<1>5. /\ Stop(b).running = FALSE /\ Stop(b).stops = b.stops + 1
      /\ Stop(b).sysproxy = FALSE /\ Stop(b).guard = FALSE
      /\ DOMAIN Stop(b) = DOMAIN u
  <2>1. Stop(b) = [u EXCEPT !.running = FALSE, !.receivers = "none", !.stops = @ + 1,
                            !.works = FALSE, !.known = FALSE]
    BY DEF Stop
  <2> HIDE DEF u
  <2> QED BY <1>4, <2>1 DEF HasFields
<1>6. b.stops \in Nat
  BY <1>1 DEF HasFields
<1>7. HasFields(CutOff(b)) /\ HasFields(Stop(b))
  <2> HIDE DEF u
  <2>1. {"running", "guard", "stops", "sysproxy"} \subseteq DOMAIN CutOff(b)
    BY <1>1, <1>3, Zenon DEF HasFields
  <2>2. {"running", "guard", "stops", "sysproxy"} \subseteq DOMAIN Stop(b)
    BY <1>4, <1>5, Zenon DEF HasFields
  <2>3. b.stops + 1 \in Nat /\ b.guard \in BOOLEAN
    BY <1>1, <1>6 DEF HasFields
  <2> QED BY <1>2, <1>5, <2>1, <2>2, <2>3, Zenon DEF HasFields
<1>8. Sound(CutOff(b)) /\ Sound(Stop(b))
  BY <1>2, <1>5, <1>7 DEF Sound
<1> QED BY <1>2, <1>5, <1>6, <1>8 DEF Settles, ProxyKept, Owed

LEMMA NewPathSettles ==
  ASSUME NEW b, Sound(b)
  PROVE  Settles(b, Swapped(b)) /\ Settles(b, Reconnected(b))
<1>1. HasFields(b)
  BY DEF Sound
<1>2. HasFields(Swapped(b)) /\ HasFields(Reconnected(b))
  BY <1>1 DEF HasFields, Swapped, Reconnected
<1>3. /\ Swapped(b).running = b.running /\ Swapped(b).stops = b.stops
      /\ Swapped(b).guard = b.guard /\ Swapped(b).sysproxy = b.sysproxy
  BY <1>1 DEF HasFields, Swapped
<1>4. /\ Reconnected(b).running = b.running /\ Reconnected(b).stops = b.stops
      /\ Reconnected(b).guard = b.guard /\ Reconnected(b).sysproxy = b.sysproxy
  BY <1>1 DEF HasFields, Reconnected
<1> QED BY <1>2, <1>3, <1>4 DEF Settles, Sound, ProxyKept, Owed

(* A start adds what the bridge owes: the tunnel, or the report of its stop.  *)
LEMMA StartOwes ==
  ASSUME NEW b, Sound(b), ~b.running, NEW shaken \in BOOLEAN
  PROVE  /\ Sound(Start(b, shaken))
         /\ Owed(Start(b, shaken)) = Owed(b) + 1
         /\ ProxyKept(b, Start(b, shaken))
<1> HasFields(b) /\ b.stops \in Nat
  BY DEF Sound, HasFields
<1>1. CASE shaken
  <2> DEFINE r == Reconnected(b)
  <2>1. HasFields(r) /\ r.stops = b.stops
    BY NewPathSettles, <1>1 DEF Settles, Sound, Reconnected, HasFields
  <2> HIDE DEF r
  <2>2. Start(b, shaken) = [r EXCEPT !.running = TRUE, !.guard = TRUE, !.sysproxy = ~b.guard,
                            !.migration = IF @ = "none" THEN "none" ELSE "answered"]
    BY <1>1 DEF Start, r
  <2>3. HasFields(Start(b, shaken))
    BY <2>1, <2>2 DEF HasFields
  <2>4. /\ Start(b, shaken).running = TRUE /\ Start(b, shaken).guard = TRUE
        /\ Start(b, shaken).stops = b.stops
    BY <2>1, <2>2 DEF HasFields
  <2> QED BY <2>3, <2>4 DEF Sound, ProxyKept, Owed
<1>2. CASE ~shaken
  <2> DEFINE u == Unguarded(b)
  <2>1. /\ HasFields(u) /\ u.running = FALSE /\ u.stops = b.stops /\ u.guard = FALSE
        /\ u.sysproxy = (b.sysproxy /\ ~b.guard)
    BY UnguardedIs DEF Sound, HasFields
  <2> HIDE DEF u
  <2>2. Start(b, shaken) = [u EXCEPT !.stops = @ + 1]
    BY <1>2 DEF Start, u
  <2>3. HasFields(Start(b, shaken))
    BY <2>1, <2>2 DEF HasFields
  <2>4. /\ Start(b, shaken).running = FALSE /\ Start(b, shaken).guard = FALSE
        /\ Start(b, shaken).stops = b.stops + 1
        /\ Start(b, shaken).sysproxy => b.sysproxy /\ ~b.guard
    BY <2>1, <2>2 DEF HasFields
  <2>5. config.mode # "proxy" => ~Start(b, shaken).sysproxy
    BY <2>4 DEF Sound
  <2>6. Sound(Start(b, shaken))
    BY <2>3, <2>4, <2>5 DEF Sound
  <2>7. Owed(Start(b, shaken)) = Owed(b) + 1
    BY <2>4 DEF Owed
  <2> QED BY <2>4, <2>6, <2>7 DEF ProxyKept
<1> QED BY <1>1, <1>2

LEMMA ToggledSound ==
  ASSUME NEW b, Sound(b), NEW shaken \in BOOLEAN
  PROVE  Sound(Toggled(b, shaken)) /\ ProxyKept(b, Toggled(b, shaken))
<1>1. CASE b.running
  BY <1>1, StopSettles DEF Toggled, Settles
<1>2. CASE ~b.running
  BY <1>2, StartOwes DEF Toggled
<1> QED BY <1>1, <1>2

LEMMA KeepaliveSettles ==
  ASSUME NEW b, Sound(b), b.running, NEW force, NEW opened, NEW shaken
  PROVE  Settles(b, Keepalive(b, force, opened, shaken))
BY StopSettles, NewPathSettles, SettlesItself DEF Keepalive

LEMMA NetworkMovedSettles ==
  ASSUME NEW b, Sound(b), NEW opened, NEW shaken
  PROVE  Settles(b, NetworkMoved(b, opened, shaken))
<1> DEFINE unmoved == [b EXCEPT !.migration = "none"]
<1>1. Settles(b, unmoved) /\ Settles(b, [unmoved EXCEPT !.silence = Silent])
  BY DEF Settles, Sound, ProxyKept, Owed, HasFields, Silences, Silent
<1>2. Settles(b, Swapped(unmoved)) /\ Settles(b, Reconnected(unmoved))
  <2>1. Sound(unmoved)
    BY <1>1 DEF Settles
  <2> HIDE DEF unmoved
  <2> QED BY <1>1, <2>1, NewPathSettles, SettlesTwice
<1> HIDE DEF unmoved
<1>3. \/ NetworkMoved(b, opened, shaken) = b
      \/ NetworkMoved(b, opened, shaken) = Swapped(unmoved)
      \/ NetworkMoved(b, opened, shaken) = Reconnected(unmoved)
      \/ NetworkMoved(b, opened, shaken) = [unmoved EXCEPT !.silence = Silent]
  BY DEF NetworkMoved, unmoved
<1> QED BY <1>1, <1>2, <1>3, SettlesItself

(* The parts of metrics_tick, each of which leaves a running bridge running   *)
(* unless the keepalive stops it.                                             *)
LEMMA MetricsSettles ==
  ASSUME NEW b, Sound(b), NEW gap
  PROVE  /\ Settles(b, GaveUp(Woken(b, gap)))
         /\ Settles(b, Settled(b))
         /\ GaveUp(Woken(b, gap)).running = b.running
<1>1. Settles(b, Settled(b))
  BY DEF Settles, Sound, ProxyKept, Owed, HasFields, Settled
<1>2. Settles(b, Woken(b, gap)) /\ Woken(b, gap).running = b.running
  BY DEF Settles, Sound, ProxyKept, Owed, HasFields, Woken
<1>3. ASSUME NEW c, Sound(c)
      PROVE  Settles(c, GaveUp(c)) /\ GaveUp(c).running = c.running
  BY <1>3 DEF Settles, Sound, ProxyKept, Owed, HasFields, GaveUp, Lost
<1>4. Sound(Woken(b, gap))
  BY <1>2 DEF Settles
<1> QED BY <1>1, <1>2, <1>3, <1>4, SettlesTwice

LEMMA TriedSettles ==
  ASSUME NEW b, Sound(b), b.running, NEW opened, NEW shaken
  PROVE  Settles(b, Tried(b, opened, shaken))
<1> DEFINE k == Keepalive(b, TRUE, opened, shaken)
<1>1. Settles(b, k)
  BY KeepaliveSettles
<1> HIDE DEF k
<1>2. Settles(k, [k EXCEPT !.forced = IF k.silence = Recent THEN "no" ELSE @])
  BY <1>1 DEF Settles, Sound, ProxyKept, Owed, HasFields
<1>3. Tried(b, opened, shaken) = [k EXCEPT !.forced = IF k.silence = Recent THEN "no" ELSE @]
  BY DEF Tried, k
<1> QED BY <1>1, <1>2, <1>3, SettlesTwice

--------------------------------------------------------------------------------
(* The steps.                                                                 *)

(* What every step owes the proof: the invariant, and the proxy given up with *)
(* the tunnel.                                                                *)
Released == bridge'.sysproxy => \/ bridge'.running
                                \/ bridge.sysproxy /\ ~bridge.running /\ alive'
                                \/ ~alive /\ alive'

Accounted == Supervised' /\ Released

(* A step of the loop that settles the bridge and takes no command.           *)
LEMMA SettlingStep ==
  ASSUME Supervised, Settles(bridge, bridge'), UNCHANGED <<config, cmds, alive>>,
         alive \/ ~bridge'.sysproxy
  PROVE  Accounted
BY DEF Supervised, Settles, Sound, Owed, ProxyKept, Accounted, Released

(* A step that leaves the four fields of the bridge alone.                    *)
LEMMA IndifferentStep ==
  ASSUME Supervised, Sound(bridge'), UNCHANGED <<config, cmds, alive>>,
         bridge'.running = bridge.running, bridge'.stops = bridge.stops,
         bridge'.sysproxy = bridge.sysproxy
  PROVE  Accounted
<1>1. Owed(bridge') = Owed(bridge)
  BY DEF Owed
<1>2. Supervised'
  <2>1. /\ config' = config /\ cmds' = cmds
        /\ alive' <=> alive
        /\ bridge'.sysproxy <=> bridge.sysproxy
    OBVIOUS
  <2>2. Owed(bridge') + Len(cmds') = Owed(bridge) + Len(cmds)
    BY <1>1, <2>1
  <2>3. ~alive' => ~bridge'.sysproxy
    BY <2>1, Zenon DEF Supervised
  <2>4. config'.host = "runner" =>
          cmds' \in Seq({"Toggle"}) /\ (alive' => Owed(bridge') + Len(cmds') = 1)
    BY <2>1, <2>2, Zenon DEF Supervised
  <2> QED BY <2>1, <2>3, <2>4, Zenon DEF Supervised, Sound
<1>3. Released
  BY Zenon DEF Supervised, Released
<1> QED BY <1>2, <1>3 DEF Accounted

LEMMA CommandSteps ==
  ASSUME Supervised, (\E shaken \in BOOLEAN : HandleToggle(shaken)) \/ HandleNetworkChanged
  PROVE  Accounted
<1>1. ASSUME NEW shaken \in BOOLEAN, HandleToggle(shaken)
      PROVE  Accounted
  <2>1. Sound(bridge') /\ ProxyKept(bridge, bridge')
    BY <1>1, ToggledSound DEF Supervised, HandleToggle
  <2>2. ASSUME config.host = "runner"
        PROVE  cmds' \in Seq({"Toggle"}) /\ Owed(bridge') + Len(cmds') = 1
    <3>1. cmds \in Seq({"Toggle"}) /\ Owed(bridge) + Len(cmds) = 1
      BY <1>1, <2>2 DEF Supervised, HandleToggle
    <3>2. cmds' \in Seq({"Toggle"}) /\ Len(cmds') = Len(cmds) - 1 /\ Len(cmds) > 0
      BY <1>1, <3>1 DEF HandleToggle
    <3>3. bridge.stops \in Nat
      BY DEF Supervised, Sound, HasFields
    <3>4. ~bridge.running /\ Owed(bridge) = 0
      BY <3>1, <3>2, <3>3 DEF Owed
    <3>5. Owed(bridge') = 1
      BY <1>1, <3>4, StartOwes DEF Supervised, HandleToggle, Toggled
    <3> QED BY <3>1, <3>2, <3>4, <3>5
  <2>3. alive /\ alive' = alive /\ config' = config
    BY <1>1 DEF HandleToggle
  <2>4. Supervised'
    BY <2>1, <2>2, <2>3, Zenon DEF Supervised, Sound
  <2>5. Released
    BY <2>1, <2>3, Zenon DEF Released, ProxyKept
  <2> QED BY <2>4, <2>5 DEF Accounted
<1>2. ASSUME HandleNetworkChanged
      PROVE  Accounted
  <2>1. PICK started \in Shakes, opened \in Opens, shaken \in Shakes :
          bridge' = NetworkMoved(IF Drained(cmds) = <<>> THEN bridge ELSE Toggled(bridge, started),
                                 opened, shaken)
    BY <1>2 DEF HandleNetworkChanged
  <2> DEFINE b == IF Drained(cmds) = <<>> THEN bridge ELSE Toggled(bridge, started)
  <2>2. started \in BOOLEAN
    BY DEF Shakes
  <2>3. Sound(b) /\ ProxyKept(bridge, b)
    BY <2>2, ToggledSound DEF Supervised, ProxyKept
  <2> HIDE DEF b
  <2>4. Settles(b, bridge')
    BY <2>1, <2>3, NetworkMovedSettles DEF b
  <2>5. ProxyKept(bridge, bridge') /\ Sound(bridge')
    BY <2>3, <2>4 DEF Settles, ProxyKept
  <2>6. config.host # "runner"
    <3> SUFFICES ASSUME config.host = "runner" PROVE FALSE
      OBVIOUS
    <3>1. cmds \in Seq({"Toggle"}) /\ cmds # <<>> /\ Head(cmds) = "NetworkChanged"
      BY <1>2 DEF Supervised, HandleNetworkChanged
    <3>2. Head(cmds) \in {"Toggle"}
      BY <3>1
    <3> QED BY <3>1, <3>2
  <2>7. alive /\ alive' = alive /\ config' = config
    BY <1>2 DEF HandleNetworkChanged
  <2>8. Supervised'
    BY <2>5, <2>6, <2>7, Zenon DEF Supervised, Sound
  <2>9. Released
    BY <2>5, <2>7, Zenon DEF Released, ProxyKept
  <2> QED BY <2>8, <2>9 DEF Accounted
<1> QED BY <1>1, <1>2

LEMMA LoopSteps ==
  ASSUME Supervised,
         Heard \/ ReceiversEnded \/ MetricsTick \/ \E shaken \in BOOLEAN : KeepaliveTick(shaken)
  PROVE  Accounted
<1> Sound(bridge)
  BY DEF Supervised
<1>1. CASE Heard
  <2>1. Settles(bridge, bridge')
    BY <1>1 DEF Heard, Settles, Sound, HasFields, Owed, ProxyKept
  <2> QED BY <1>1, <2>1, SettlingStep DEF Heard, SessionOnly
<1>2. CASE ReceiversEnded
  <2> DEFINE ended == [bridge EXCEPT !.receivers = "none"]
  <2>1. Settles(bridge, ended) /\ Sound(ended) /\ ended.running
    BY <1>2 DEF ReceiversEnded, Settles, Sound, HasFields, Owed, ProxyKept
  <2> HIDE DEF ended
  <2>2. bridge' = ended \/ bridge' = Swapped(ended) \/ bridge' = CutOff(ended)
    BY <1>2 DEF ReceiversEnded, ended
  <2>3. Settles(bridge, bridge')
    BY <2>1, <2>2, NewPathSettles, StopSettles, SettlesTwice
  <2> QED BY <1>2, <2>3, SettlingStep DEF ReceiversEnded, SessionOnly
<1>3. CASE MetricsTick
  <2>1. PICK gap, due, opened, shaken :
          bridge' = Settled(IF /\ GaveUp(Woken(bridge, gap)).running
                               /\ GaveUp(Woken(bridge, gap)).forced # "no" /\ (due \/ gap)
                            THEN Tried(GaveUp(Woken(bridge, gap)), opened, shaken)
                            ELSE GaveUp(Woken(bridge, gap)))
    BY <1>3 DEF MetricsTick
  <2> DEFINE b == GaveUp(Woken(bridge, gap))
             c == IF b.running /\ b.forced # "no" /\ (due \/ gap)
                  THEN Tried(b, opened, shaken) ELSE b
  <2>2. Settles(bridge, b)
    BY MetricsSettles
  <2>3. Sound(b)
    BY <2>2 DEF Settles
  <2> HIDE DEF b
  <2>4. Settles(b, c) /\ Sound(c)
    BY <2>3, TriedSettles, SettlesItself DEF Settles
  <2>5. bridge' = Settled(c)
    BY <2>1 DEF b
  <2> HIDE DEF c
  <2>6. Settles(bridge, bridge')
    BY <2>2, <2>4, <2>5, MetricsSettles, SettlesTwice
  <2> QED BY <1>3, <2>6, SettlingStep DEF MetricsTick, SessionOnly
<1>4. ASSUME NEW shaken \in BOOLEAN, KeepaliveTick(shaken)
      PROVE  Accounted
  <2>1. PICK opened : bridge' = Ticked(Keepalive(bridge, FALSE, opened, shaken))
    BY <1>4 DEF KeepaliveTick
  <2> DEFINE k == Keepalive(bridge, FALSE, opened, shaken)
  <2>2. Settles(bridge, k)
    BY <1>4, KeepaliveSettles DEF KeepaliveTick
  <2> HIDE DEF k
  <2>3. Settles(k, Ticked(k))
    BY <2>2 DEF Ticked, Settles, Sound, HasFields, Owed, ProxyKept
  <2>4. Settles(bridge, bridge')
    BY <2>1, <2>2, <2>3, SettlesTwice DEF k
  <2> QED BY <1>4, <2>4, SettlingStep DEF KeepaliveTick, SessionOnly
<1> QED BY <1>1, <1>2, <1>3, <1>4

LEMMA HostSteps ==
  ASSUME Supervised, Retry \/ NotifyNetworkChanged \/ Shutdown \/ TaskFails \/ Respawn \/ Exit
  PROVE  Accounted
<1> Sound(bridge) /\ HasFields(bridge)
  BY DEF Supervised, Sound
<1>1. CASE Retry
  <2>1. /\ Sound(bridge') /\ bridge'.sysproxy = bridge.sysproxy
        /\ bridge'.running = bridge.running /\ Owed(bridge') = Owed(bridge) - 1
    BY <1>1 DEF Retry, Sound, HasFields, Owed
  <2>2. config.host = "runner" =>
          cmds' \in Seq({"Toggle"}) /\ Len(cmds') = Len(cmds) + 1 /\ Len(cmds) \in Nat
    BY <1>1 DEF Supervised, Retry
  <2>3. Owed(bridge) \in Nat
    BY DEF Owed, HasFields
  <2>4. config.host = "runner" /\ Owed(bridge) + Len(cmds) = 1 => Owed(bridge') + Len(cmds') = 1
    BY <2>1, <2>2, <2>3
  <2>5. alive /\ alive' = alive /\ config' = config
    BY <1>1 DEF Retry
  <2>6. Supervised'
    BY <2>1, <2>2, <2>4, <2>5, Zenon DEF Supervised, Sound
  <2>7. Released
    BY <2>1, <2>5, Zenon DEF Released
  <2> QED BY <2>6, <2>7 DEF Accounted
<1>2. CASE NotifyNetworkChanged
  <2>1. /\ config.host # "runner" /\ config' = config /\ bridge' = bridge
        /\ alive /\ alive' = alive
    BY <1>2 DEF NotifyNetworkChanged
  <2>2. Supervised'
    BY <2>1, Zenon DEF Supervised, Sound
  <2>3. Released
    BY <2>1, Zenon DEF Released
  <2> QED BY <2>2, <2>3 DEF Accounted
<1>3. CASE Shutdown \/ TaskFails
  <2>1. bridge' = bridge /\ UNCHANGED <<config, cmds, alive>>
    BY <1>3 DEF Shutdown, TaskFails
  <2> QED BY <2>1, IndifferentStep DEF Sound
<1>4. CASE Respawn
  <2>1. /\ ~alive /\ alive' = TRUE /\ config' = config
        /\ bridge' = FirstBridge /\ cmds' = <<"Toggle">>
    BY <1>4 DEF Respawn
  <2>2. Sound(bridge')
    BY <2>1, FirstIsSound DEF Sound
  <2>3. Owed(bridge') + Len(cmds') = 1 /\ cmds' \in Seq({"Toggle"})
    <3>1. Owed(bridge') = 0
      BY <2>1, FirstIsSound DEF Owed
    <3>2. Len(cmds') = 1 /\ cmds' \in Seq({"Toggle"})
      BY <2>1, FirstCommand, Zenon
    <3> QED BY <3>1, <3>2
  <2>4. Supervised'
    BY <2>1, <2>2, <2>3, Zenon DEF Supervised, Sound
  <2>5. Released
    BY <2>1, Zenon DEF Released
  <2> QED BY <2>4, <2>5 DEF Accounted
<1>5. CASE Exit
  <2> DEFINE u == Unguarded(bridge)
  <2>1. HasFields(u) /\ u.guard = FALSE /\ (u.sysproxy => bridge.sysproxy /\ ~bridge.guard)
    BY UnguardedIs DEF HasFields
  <2> HIDE DEF u
  <2>2. bridge' = [u EXCEPT !.running = FALSE, !.receivers = "none", !.works = FALSE,
                            !.known = FALSE, !.sysproxy = @ /\ config.mode # "proxy"]
    BY <1>5 DEF Exit, u
  <2>3. /\ bridge'.running = FALSE /\ bridge'.guard = FALSE /\ bridge'.stops \in Nat
        /\ bridge'.sysproxy \in BOOLEAN
        /\ bridge'.sysproxy => u.sysproxy /\ config.mode # "proxy"
        /\ {"running", "guard", "stops", "sysproxy"} \subseteq DOMAIN bridge'
    BY <2>1, <2>2 DEF HasFields
  <2>4. ~bridge'.sysproxy
    BY <2>1, <2>3 DEF Sound
  <2>5. Sound(bridge')
    BY <2>3, <2>4 DEF Sound, HasFields
  <2>6. alive' = FALSE /\ config' = config /\ cmds' = cmds
    BY <1>5 DEF Exit
  <2>7. Supervised'
    BY <2>4, <2>5, <2>6, Zenon DEF Supervised, Sound
  <2>8. Released
    BY <2>4, Zenon DEF Released
  <2> QED BY <2>7, <2>8 DEF Accounted
<1> QED BY <1>1, <1>2, <1>3, <1>4, <1>5

LEMMA WorldSteps ==
  ASSUME Supervised, Trouble \/ StormEnds \/ Clocks
  PROVE  Accounted
<1> Sound(bridge) /\ HasFields(bridge)
  BY DEF Supervised, Sound
<1>1. CASE Trouble
  <2>1. /\ bridge'.running = bridge.running /\ bridge'.stops = bridge.stops
        /\ bridge'.sysproxy = bridge.sysproxy /\ bridge'.guard = bridge.guard
        /\ DOMAIN bridge' = DOMAIN bridge
    BY <1>1 DEF Trouble, HasFields
  <2>2. Sound(bridge')
    BY <2>1 DEF Sound, HasFields
  <2> QED BY <1>1, <2>1, <2>2, IndifferentStep DEF Trouble
<1>2. CASE StormEnds
  BY <1>2, IndifferentStep DEF StormEnds
<1>3. CASE Clocks
  <2>1. /\ bridge'.running = bridge.running /\ bridge'.stops = bridge.stops
        /\ bridge'.sysproxy = bridge.sysproxy /\ bridge'.guard = bridge.guard
        /\ DOMAIN bridge' = DOMAIN bridge
    BY <1>3 DEF Clocks, SilenceGrows, MoveDeadline, BackoffEnds, ReconnectOverdue, HasFields
  <2>2. Sound(bridge')
    BY <2>1 DEF Sound, HasFields
  <2>3. UNCHANGED <<config, cmds, alive>>
    BY <1>3 DEF Clocks, SilenceGrows, MoveDeadline, BackoffEnds, ReconnectOverdue, SessionOnly
  <2> QED BY <2>1, <2>2, <2>3, IndifferentStep
<1> QED BY <1>1, <1>2, <1>3

--------------------------------------------------------------------------------
LEMMA SupervisedAlways == Spec => [](Supervised) /\ [][Accounted]_vars
<1>1. Init => Supervised
  <2> SUFFICES ASSUME Init PROVE Supervised
    OBVIOUS
  <2>1. bridge = FirstBridge /\ alive = TRUE
    BY DEF Init
  <2>2. config.host = "runner" => cmds = <<"Toggle">>
    BY DEF Init
  <2>3. Sound(bridge) /\ Owed(bridge) = 0
    BY <2>1, FirstIsSound DEF Owed
  <2>4. config.host = "runner" => cmds \in Seq({"Toggle"}) /\ Owed(bridge) + Len(cmds) = 1
    <3> SUFFICES ASSUME config.host = "runner"
                 PROVE  cmds \in Seq({"Toggle"}) /\ Owed(bridge) + Len(cmds) = 1
      OBVIOUS
    <3>1. Len(cmds) = 1 /\ cmds \in Seq({"Toggle"})
      BY <2>2, FirstCommand, Zenon
    <3> QED BY <2>3, <3>1
  <2> QED BY <2>1, <2>3, <2>4, Zenon DEF Supervised
<1>2. Supervised /\ [Next]_vars => Supervised' /\ [Accounted]_vars
  <2> SUFFICES ASSUME Supervised, [Next]_vars
               PROVE  Supervised' /\ [Accounted]_vars
    OBVIOUS
  <2>1. CASE Next
    BY <2>1, CommandSteps, LoopSteps, HostSteps, WorldSteps
       DEF Next, BridgeStep, Host, Accounted
  <2>2. CASE UNCHANGED vars
    <3>1. /\ config' = config /\ bridge' = bridge /\ cmds' = cmds /\ alive' = alive
      BY <2>2 DEF vars
    <3> QED BY <2>2, <3>1, Zenon DEF Supervised, Sound
  <2> QED BY <2>1, <2>2
<1> QED BY <1>1, <1>2, PTL DEF Spec

(* Under the runner a live bridge is up or exactly one retry of it is on its  *)
(* way, whatever stopped it.                                                  *)
THEOREM NoStopForgotten == Spec => []UpOrRetrying
<1>1. Supervised => UpOrRetrying
  BY DEF Supervised, UpOrRetrying, Owed
<1> QED BY <1>1, SupervisedAlways, PTL

(* The step that brings the tunnel down takes the system proxy off, and none  *)
(* puts it back without a tunnel.                                             *)
THEOREM ProxyReleased == Spec => ProxyNeverOutlivesTunnel
<1>1. [Accounted]_vars =>
        [bridge'.sysproxy => \/ bridge'.running
                             \/ bridge.sysproxy /\ ~bridge.running /\ alive'
                             \/ ~alive /\ alive']_vars
  BY DEF Accounted, Released
<1> QED BY <1>1, SupervisedAlways, PTL DEF ProxyNeverOutlivesTunnel
================================================================================
