--------------------------------- MODULE Bridge ---------------------------------
(***************************************************************************)
(* The client bridge as a supervisor (ostp-client/src/bridge.rs): how it     *)
(* starts the tunnel, notices that the server went silent, moves the session *)
(* to a new socket, reconnects, resumes after a suspend, gives up, and what   *)
(* its host (the headless runner of runner.rs, the Android SDK of ostp-jni)  *)
(* does when it stops.  What the streams see of a reconnect is in Streams,   *)
(* what a moved session does to the retransmission in Arq.                   *)
(*                                                                           *)
(* The mux sessions are one session here: they share the server, the path    *)
(* and every decision below.  Durations are the classes the code compares    *)
(* them with.                                                                *)
(***************************************************************************)
EXTENDS Integers, Sequences

CONSTANTS
  Hosts,      \* the programs that drive a bridge: "runner", "android"
  QueueMax    \* bound: commands waiting in the bridge's channel

ASSUME HostsAssumption == Hosts \subseteq {"runner", "android"}
ASSUME QueueAssumption == QueueMax \in Nat \ {0, 1}

VARIABLES
  config,    \* what the run was started with: host, mode, kill_switch, uot
  bridge,    \* the Bridge, the session it holds and the system proxy
  cmds,      \* bridge_rx: commands waiting
  alive,     \* Bridge::run has not returned
  stopping,  \* "no", "restart" (a task of the run failed), "shutdown" (asked)
  link,      \* "up": a socket opened now reaches the server
  stormy     \* the network, the server and the machine may still cause trouble

vars == <<config, bridge, cmds, alive, stopping, link, stormy>>

(* Time since last_valid_recv: under 3 s, up to STALL_MIGRATE_AFTER (10 s),   *)
(* up to the reconnect (25 s), up to the hard timeout (180 s), beyond it.    *)
Silences == 0..4
Recent  == 0
Stalled == 2
Silent  == 3
Lost    == 4

NewBridge == [
  running   |-> FALSE,   \* with it, sessions_opt is Some
  receivers |-> "none",  \* udp_rx_opt: "open", or "closed" once every sender ended
  migration |-> "none",  \* else "waiting", "late" (past its deadline) or "answered"
  backoff   |-> "none",  \* migration_failed_at within 30 s; "ticked": a keepalive passed
  silence   |-> Recent,
  forced    |-> "no",    \* forced_reconnect_pending; "overdue" after 45 s
  guard     |-> FALSE,   \* proxy_guard is Some
  stops     |-> 0,       \* TunnelStopped events the host has not acted on
  sysproxy  |-> FALSE,   \* the system proxy points at the local listener
  works     |-> FALSE,   \* the socket of the session reaches the server
  known     |-> FALSE]   \* the server holds the session

(* In proxy mode run_client_once holds a guard of its own: the system proxy   *)
(* is on before the first connection.                                         *)
Configs == {c \in [host : Hosts, mode : {"proxy", "tun"}, kill_switch : BOOLEAN, uot : BOOLEAN] :
              c.host = "android" => c.mode = "tun"}
FirstBridge == [NewBridge EXCEPT !.sysproxy = (config.mode = "proxy")]

Init ==
  /\ config \in Configs
  /\ bridge = FirstBridge
  /\ IF config.host = "runner" THEN cmds = <<"Toggle">>
                               ELSE cmds \in {<<"Toggle">>, <<"NetworkChanged", "Toggle">>}
  /\ alive = TRUE /\ stopping = "no"
  /\ link \in {"up", "down"} /\ stormy = TRUE

--------------------------------------------------------------------------------
(* What an attempt may come to.  A UDP connect may succeed without a network; *)
(* a handshake may fail on a working one (its answer lost, every repeat of    *)
(* the payload is dropped by the replay cache).                               *)

Opens == CASE link = "up" /\ ~stormy      -> {TRUE}
           [] link = "down" /\ config.uot -> {FALSE}
           [] OTHER                       -> BOOLEAN
Shakes == IF link = "up" THEN BOOLEAN ELSE {FALSE}

(* The server answers on the socket of the session.                          *)
Answering == bridge.running /\ bridge.receivers = "open"
             /\ bridge.works /\ bridge.known /\ link = "up"

(* Dropping the guard turns the system proxy off.                            *)
Unguarded(b) == [b EXCEPT !.guard = FALSE, !.sysproxy = @ /\ ~b.guard]

(* Mutant: the guard outlives the stop.                                       *)
StopGuarded(b) == [b EXCEPT !.running = FALSE, !.receivers = "none", !.stops = @ + 1,
                            !.works = FALSE, !.known = FALSE]

(* Every orderly stop: the session and the guard go, the host is told.  A     *)
(* move in progress, its backoff and a pending reconnect stay behind.         *)
Stop(b) == [Unguarded(b) EXCEPT !.running = FALSE, !.receivers = "none", !.stops = @ + 1,
                                !.works = FALSE, !.known = FALSE]

(* Mutant: the host is not told.                                              *)
CutOffUntold(b) == [b EXCEPT !.running = FALSE, !.receivers = "none", !.sysproxy = FALSE,
                             !.works = FALSE, !.known = FALSE]

(* The stop of handle_inbound_udp: it turns the system proxy off itself and   *)
(* does not touch the guard.                                                  *)
CutOff(b) == [b EXCEPT !.running = FALSE, !.receivers = "none", !.stops = @ + 1,
                       !.sysproxy = FALSE, !.works = FALSE, !.known = FALSE]

(* start_migration: new sockets, same session.                               *)
Swapped(b) == [b EXCEPT !.receivers = "open", !.works = (link = "up"), !.migration = "waiting"]

(* Mutant: no backoff after an unanswered move.                               *)
MovesAtOnce(b, opened) == opened

(* try_migrate: not within the backoff, and only if a connection opens.       *)
Moves(b, opened) == b.backoff = "none" /\ opened

(* New sessions replace the old ones.                                        *)
Reconnected(b) == [b EXCEPT !.receivers = "open", !.works = TRUE, !.known = TRUE,
                            !.silence = Recent]

(* ToggleTunnel.  The new guard is made before the old one is dropped; a move *)
(* left over from before the stop now counts as answered.                     *)
Start(b, shaken) ==
  IF shaken
  THEN [Reconnected(b) EXCEPT !.running = TRUE, !.guard = TRUE, !.sysproxy = ~b.guard,
                              !.migration = IF @ = "none" THEN "none" ELSE "answered"]
  ELSE [Unguarded(b) EXCEPT !.stops = @ + 1]

Toggled(b, shaken) == IF b.running THEN Stop(b) ELSE Start(b, shaken)

(* handle_keepalive, past its pings: a move in progress is left alone, a new  *)
(* one is tried first, then the hard timeout, then the reconnect.             *)
Relocates(b, force, opened) ==
  b.migration = "none" /\ (force \/ b.silence >= Stalled) /\ Moves(b, opened)
GivesUp(b, force) ==
  b.migration = "none" /\ ~force /\ b.silence = Lost /\ ~config.kill_switch
Redials(b, force, opened) ==
  /\ b.migration = "none" /\ (force \/ b.silence >= Silent)
  /\ ~Relocates(b, force, opened) /\ ~GivesUp(b, force)

Keepalive(b, force, opened, shaken) ==
  CASE Relocates(b, force, opened) -> Swapped(b)
    [] ~Relocates(b, force, opened) /\ GivesUp(b, force) -> Stop(b)
    [] Redials(b, force, opened) /\ shaken -> Reconnected(b)
    [] OTHER -> b

(* NetworkChanged: drop a move in progress, then move, else reconnect.       *)
NetworkMoved(b, opened, shaken) ==
  LET unmoved == [b EXCEPT !.migration = "none"]
  IN  CASE ~b.running                  -> b
        [] b.running /\ Moves(b, opened) -> Swapped(unmoved)
        [] OTHER -> IF shaken THEN Reconnected(unmoved)
                              ELSE [unmoved EXCEPT !.silence = Silent]

(* Mutant: a move past its deadline stays in progress.                        *)
SettledIfAnswered(b) ==
  IF b.running /\ b.migration = "answered" THEN [b EXCEPT !.migration = "none", !.backoff = "none"]
                                           ELSE b

(* check_migration.                                                           *)
Settled(b) ==
  CASE b.running /\ b.migration = "answered" -> [b EXCEPT !.migration = "none", !.backoff = "none"]
    [] b.running /\ b.migration = "late"     -> [b EXCEPT !.migration = "none", !.backoff = "fresh"]
    [] OTHER -> b

--------------------------------------------------------------------------------
(* The branches of Bridge::run.                                               *)

SessionOnly == UNCHANGED <<config, cmds, alive, stopping, link, stormy>>

(* handle_inbound_udp, an authenticated datagram.                             *)
Heard ==
  /\ alive /\ Answering
  /\ bridge' = [bridge EXCEPT !.silence = Recent,
                              !.migration = IF @ = "none" THEN "none" ELSE "answered"]
  /\ SessionOnly

(* handle_inbound_udp, every receiver ended.                                  *)
ReceiversEnded ==
  /\ alive /\ bridge.running /\ bridge.receivers = "closed"
  /\ \E opened \in Opens :
       LET ended == [bridge EXCEPT !.receivers = "none"]
       IN  bridge' = CASE bridge.migration # "none" -> ended
                       [] bridge.migration = "none" /\ Moves(bridge, opened) -> Swapped(ended)
                       [] OTHER -> CutOff(ended)
  /\ SessionOnly

HandleToggle(shaken) ==
  /\ alive /\ cmds # <<>> /\ Head(cmds) = "Toggle"
  /\ bridge.running => ~shaken
  /\ shaken \in Shakes
  /\ bridge' = Toggled(bridge, shaken)
  /\ cmds' = Tail(cmds)
  /\ UNCHANGED <<config, alive, stopping, link, stormy>>

(* A burst of NetworkChanged counts once; another command met while draining *)
(* the burst is handled before the move.                                      *)
Drained(q) ==
  LET others == {i \in DOMAIN q : q[i] # "NetworkChanged"}
  IN  IF others = {} THEN <<>>
      ELSE SubSeq(q, CHOOSE i \in others : \A j \in others : i <= j, Len(q))

HandleNetworkChanged ==
  /\ alive /\ cmds # <<>> /\ Head(cmds) = "NetworkChanged"
  /\ LET rest == Drained(cmds)
     IN  \E started \in Shakes, opened \in Opens, shaken \in Shakes :
           /\ bridge' = NetworkMoved(IF rest = <<>> THEN bridge ELSE Toggled(bridge, started),
                                     opened, shaken)
           /\ cmds' = IF rest = <<>> THEN <<>> ELSE Tail(rest)
  /\ UNCHANGED <<config, alive, stopping, link, stormy>>

(* metrics_tick: a gap in the wall clock is a suspend, which asks for a       *)
(* reconnect and tries it at once; later tries are 3 s apart; an overdue one  *)
(* is handed to the stall path by forging an hour of silence; the try counts  *)
(* as a success when something was heard in the last 3 s; then                *)
(* check_migration.                                                           *)
Woken(b, gap) == IF gap /\ b.running THEN [b EXCEPT !.forced = "pending"] ELSE b

GaveUp(b) ==
  IF b.forced = "overdue"
  THEN [b EXCEPT !.forced = "no", !.silence = Lost,
                 !.migration = IF @ = "answered" THEN "waiting" ELSE @]
  ELSE b

Tried(b, opened, shaken) ==
  LET k == Keepalive(b, TRUE, opened, shaken)
  IN  [k EXCEPT !.forced = IF k.silence = Recent THEN "no" ELSE @]

MetricsTick ==
  /\ alive
  /\ \E gap \in (IF stormy THEN BOOLEAN ELSE {FALSE}), due \in BOOLEAN,
        opened \in Opens, shaken \in Shakes :
       LET b == GaveUp(Woken(bridge, gap))
       IN  bridge' = Settled(IF b.running /\ b.forced # "no" /\ (due \/ gap)
                             THEN Tried(b, opened, shaken) ELSE b)
  /\ SessionOnly

Ticked(b) == [b EXCEPT !.backoff = IF @ = "fresh" THEN "ticked" ELSE @]

KeepaliveTick(shaken) ==
  /\ alive /\ bridge.running
  /\ shaken \in Shakes
  /\ \E opened \in Opens :
       /\ shaken => Redials(bridge, FALSE, opened)
       /\ bridge' = Ticked(Keepalive(bridge, FALSE, opened, shaken))
  /\ SessionOnly

(* Bridge::run returns, on the shutdown watch or on a Shutdown command; the   *)
(* runner's own guard goes with its run.                                      *)
Exit ==
  /\ alive /\ stopping # "no"
  /\ alive' = FALSE
  /\ bridge' = [Unguarded(bridge) EXCEPT !.running = FALSE, !.receivers = "none",
                                         !.works = FALSE, !.known = FALSE,
                                         !.sysproxy = @ /\ config.mode # "proxy"]
  /\ UNCHANGED <<config, cmds, stopping, link, stormy>>

--------------------------------------------------------------------------------
(* The host.                                                                  *)

(* runner.rs: five seconds after a TunnelStopped it toggles the tunnel.      *)
Retry ==
  /\ config.host = "runner" /\ alive /\ bridge.stops > 0
  /\ bridge' = [bridge EXCEPT !.stops = @ - 1]
  /\ cmds' = Append(cmds, "Toggle")
  /\ UNCHANGED <<config, alive, stopping, link, stormy>>

(* ostp-jni: the system reported another network.                            *)
NotifyNetworkChanged ==
  /\ config.host = "android" /\ alive /\ stormy /\ Len(cmds) < QueueMax
  /\ cmds' = Append(cmds, "NetworkChanged")
  /\ UNCHANGED <<config, bridge, alive, stopping, link, stormy>>

Shutdown ==
  /\ stopping # "shutdown"
  /\ stopping' = "shutdown"
  /\ UNCHANGED <<config, bridge, cmds, alive, link, stormy>>

(* run_client_once ends when the proxy or the TUN task fails; run_client_core *)
(* then starts a new one.                                                     *)
TaskFails ==
  /\ config.host = "runner" /\ alive /\ stopping = "no" /\ stormy
  /\ stopping' = "restart"
  /\ UNCHANGED <<config, bridge, cmds, alive, link, stormy>>

Respawn ==
  /\ ~alive /\ stopping = "restart"
  /\ bridge' = FirstBridge
  /\ cmds' = <<"Toggle">> /\ alive' = TRUE /\ stopping' = "no"
  /\ UNCHANGED <<config, link, stormy>>

--------------------------------------------------------------------------------
(* The network, the server and the clocks.                                    *)

(* Trouble: the link goes or comes, the path of the socket dies (a handoff,   *)
(* a NAT, a censor), a TCP carrier is reset, the server evicts the session or *)
(* restarts.                                                                  *)
Trouble ==
  /\ stormy
  /\ \/ /\ link' = (IF link = "up" THEN "down" ELSE "up")
        /\ bridge' = [bridge EXCEPT !.works = FALSE]
     \/ bridge' = [bridge EXCEPT !.works = FALSE] /\ UNCHANGED link
     \/ bridge' = [bridge EXCEPT !.known = FALSE] /\ UNCHANGED link
     \/ /\ config.uot /\ bridge.receivers = "open"
        /\ bridge' = [bridge EXCEPT !.works = FALSE, !.receivers = "closed"]
        /\ UNCHANGED link
  /\ UNCHANGED <<config, cmds, alive, stopping, stormy>>

StormEnds == stormy /\ stormy' = FALSE /\ UNCHANGED <<config, bridge, cmds, alive, stopping, link>>

(* A ping goes out on every keepalive and a working path answers within one   *)
(* round trip: silence outgrows its first class, and a move its deadline,     *)
(* only while the server is not answering.                                    *)
SilenceGrows ==
  /\ bridge.running /\ bridge.silence < Lost
  /\ Answering => bridge.silence = Recent
  /\ bridge' = [bridge EXCEPT !.silence = @ + 1]
  /\ SessionOnly

MoveDeadline ==
  /\ bridge.migration = "waiting" /\ ~Answering
  /\ bridge' = [bridge EXCEPT !.migration = "late"]
  /\ SessionOnly

(* The backoff of 30 s outlasts a keepalive interval.                        *)
BackoffEnds ==
  /\ bridge.backoff = "ticked" \/ (bridge.backoff = "fresh" /\ ~bridge.running)
  /\ bridge' = [bridge EXCEPT !.backoff = "none"]
  /\ SessionOnly

ReconnectOverdue ==
  /\ bridge.forced = "pending"
  /\ bridge' = [bridge EXCEPT !.forced = "overdue"]
  /\ SessionOnly

Clocks == SilenceGrows \/ MoveDeadline \/ BackoffEnds \/ ReconnectOverdue

--------------------------------------------------------------------------------
BridgeStep ==
  \/ Heard \/ ReceiversEnded \/ HandleNetworkChanged \/ MetricsTick \/ Exit
  \/ \E shaken \in BOOLEAN : HandleToggle(shaken) \/ KeepaliveTick(shaken)
Host == Retry \/ NotifyNetworkChanged \/ Shutdown \/ TaskFails \/ Respawn
Next == BridgeStep \/ Host \/ Trouble \/ StormEnds \/ Clocks

Spec == Init /\ [][Next]_vars

(* Every branch of the loop is served, the host's timers fire, clocks run,    *)
(* and a handshake that can succeed and is tried again and again does.        *)
FairSpec ==
  /\ Spec
  /\ WF_vars(Heard) /\ WF_vars(ReceiversEnded) /\ WF_vars(HandleNetworkChanged)
  /\ WF_vars(MetricsTick) /\ WF_vars(Exit) /\ WF_vars(Retry) /\ WF_vars(Respawn)
  /\ WF_vars(\E shaken \in BOOLEAN : HandleToggle(shaken))
  /\ WF_vars(\E shaken \in BOOLEAN : KeepaliveTick(shaken))
  /\ SF_vars(HandleToggle(TRUE)) /\ SF_vars(KeepaliveTick(TRUE))
  /\ WF_vars(SilenceGrows) /\ WF_vars(MoveDeadline)
  /\ WF_vars(BackoffEnds) /\ WF_vars(ReconnectOverdue)

--------------------------------------------------------------------------------
(* Properties.                                                                *)

(* The variables have their types; at most one stop waits for the host, and   *)
(* the command channel keeps its bound.                                       *)
TypeOK ==
  /\ config \in Configs
  /\ bridge \in [running : BOOLEAN, receivers : {"none", "open", "closed"},
                 migration : {"none", "waiting", "late", "answered"},
                 backoff : {"none", "fresh", "ticked"}, silence : Silences,
                 forced : {"no", "pending", "overdue"}, guard : BOOLEAN, stops : 0..1,
                 sysproxy : BOOLEAN, works : BOOLEAN, known : BOOLEAN]
  /\ cmds \in Seq({"Toggle", "NetworkChanged"}) /\ Len(cmds) <= QueueMax
  /\ alive \in BOOLEAN /\ stopping \in {"no", "restart", "shutdown"}
  /\ link \in {"up", "down"} /\ stormy \in BOOLEAN

(* Under the runner a tunnel is up or exactly one retry of it is on its way:  *)
(* no stop is forgotten, and no toggle meant to start a tunnel finds one up   *)
(* and stops it.                                                              *)
UpOrRetrying ==
  config.host = "runner" /\ alive =>
    (IF bridge.running THEN 1 ELSE 0) + bridge.stops + Len(cmds) = 1

(* However the tunnel goes down (a stop, the hard timeout, a closed carrier   *)
(* within the backoff, the end or the restart of a run), the step that brings  *)
(* it down takes the system proxy off, and none puts it back: only before its  *)
(* first connection does a run leave the proxy on without a tunnel behind it.  *)
ProxyNeverOutlivesTunnel ==
  [][bridge'.sysproxy => \/ bridge'.running
                         \/ bridge.sysproxy /\ ~bridge.running /\ alive'
                         \/ ~alive /\ alive']_vars

(* Once the trouble is over and the network works, the runner gets the tunnel *)
(* up and it stays up: silence is noticed, a move that cannot be answered     *)
(* gives way to a reconnect, a stopped tunnel is started again.               *)
Recovers ==
  (config.host = "runner" /\ <>[](~stormy /\ link = "up"))
    => <>[](Answering \/ stopping = "shutdown")

(* Cut off for good with the kill switch off, the client does not keep the    *)
(* machine's traffic in a dead tunnel: it stops, whatever it was busy with.   *)
ReleasesWhenCutOff ==
  (~config.kill_switch /\ <>[](~stormy /\ link = "down")) => <>[]~bridge.running

--------------------------------------------------------------------------------
(* What the documentation says and the code does not do.                      *)

(* specification.md 9.7: the tunnel stops on its own "unless the kill switch   *)
(* is enabled, in which case it retries indefinitely rather than falling      *)
(* open".  So with the kill switch on only the host brings it down.           *)
KillSwitchHolds ==
  [][config.kill_switch /\ bridge.running /\ ~bridge'.running => stopping # "no"]_vars
================================================================================
