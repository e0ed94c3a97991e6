-------------------------------- MODULE Desktop --------------------------------
(***************************************************************************)
(* The desktop application and its privileged helper                         *)
(* (ostp-gui/src-tauri/src/lib.rs, ostp-gui/src/main.js,                      *)
(* ostp-tun-helper/src/main.rs): the window invokes commands, which take the *)
(* tunnel under one lock; a tunnel is a core inside the application (proxy    *)
(* mode) or one in a helper process on the other end of a socket (TUN mode). *)
(* A line written to that socket counts as read by the application.          *)
(***************************************************************************)
EXTENDS Naturals, Sequences

CONSTANTS Tunnels   \* bound: 1..n, the tunnels started; one call of each kind waits

VARIABLES
  window,     \* appState, and whether it polls
  calls,      \* commands invoked that wait for the lock
  lock,       \* the command that has it, its step and the tunnel it is about
  answers,    \* on their way to the window
  held,       \* AppState: the tunnel, or 0
  kind,       \* per tunnel: "none", "proxy", "helper"
  client,     \* run_client_core: "none", "running", "told", "closing", "over", "dropped"
  loops,      \* its bridge and local proxy: "none", "on", "closing", "deaf", "over"
  port,       \* the tunnel whose proxy listens at the local address, or 0
  connection, \* connection_state: 0 off, 1 connecting, 2 connected
  helper,     \* the process: "none", "launched", "listening", "serving", "leaving", "gone"
  wire,       \* commands on their way to it, "eof" at the end
  ticker,     \* its status task: the state last sent, New, or Off
  shown       \* HelperPipeState.connection_state

desktop == <<window, calls, lock, answers, held, kind, client, loops, port, connection, helper,
             wire, ticker, shown>>

States == 0..2
New == 99
Off == 100
Free == [op |-> "none", at |-> "free", tunnel |-> 0]
All(v) == [t \in Tunnels |-> v]
Unused == {t \in Tunnels : kind[t] = "none"}
Next1 == CHOOSE t \in Unused : \A u \in Unused : t <= u

Init ==
  /\ window = [state |-> "disconnected", polls |-> FALSE]
  /\ calls = {} /\ lock = Free /\ answers = {} /\ held = 0
  /\ kind = All("none") /\ client = All("none") /\ loops = All("none") /\ port = 0
  /\ connection = All(0) /\ helper = All("none") /\ wire = All(<<>>)
  /\ ticker = All(Off) /\ shown = All(0)

--------------------------------------------------------------------------------
(* The window.                                                               *)

Application == <<lock, held, kind>>
Cores == <<client, loops, port, connection>>
Helpers == <<helper, wire, ticker, shown>>
Disconnected == [state |-> "disconnected", polls |-> FALSE]

Asked(op) == op \in calls \/ lock.op = op \/ \E a \in answers : a.op = op

(* handleToggle, up to its await.                                            *)
Toggle ==
  /\ IF window.state # "disconnected"
       THEN /\ ~Asked("stop") /\ window' = Disconnected
            /\ calls' = calls \cup {"stop"}
       ELSE /\ ~Asked("start")
            /\ window' = [window EXCEPT !.state = "connecting"]
            /\ calls' = calls \cup {"start"}
  /\ UNCHANGED <<answers, Application, Cores, Helpers>>

(* handleToggle after start_tunnel.                                          *)
Started(a) ==
  /\ a \in answers /\ a.op = "start" /\ answers' = answers \ {a}
  /\ window' = IF a.code = "ok" THEN [window EXCEPT !.polls = TRUE] ELSE Disconnected
  /\ UNCHANGED <<calls, Application, Cores, Helpers>>

Poll ==
  /\ window.polls /\ ~Asked("status")
  /\ calls' = calls \cup {"status"}
  /\ UNCHANGED <<window, answers, Application, Cores, Helpers>>

Says(code) == CASE code = 0 -> Disconnected
                [] code = 1 -> [window EXCEPT !.state = "connecting"]
                [] code = 2 -> [window EXCEPT !.state = "connected"]
(* Mutant: an answer is shown although the window no longer asks.             *)
PolledAnyway(a) ==
  /\ a \in answers /\ a.op = "status" /\ answers' = answers \ {a}
  /\ window' = Says(a.code)
  /\ UNCHANGED <<calls, Application, Cores, Helpers>>

(* poll, after its await: the timer may be gone.                             *)
Polled(a) ==
  /\ a \in answers /\ a.op = "status" /\ answers' = answers \ {a}
  /\ window' = IF window.polls THEN Says(a.code) ELSE window
  /\ UNCHANGED <<calls, Application, Cores, Helpers>>

Window == Toggle \/ Poll \/ \E a \in answers : Started(a) \/ Polled(a)

--------------------------------------------------------------------------------
(* The commands, one at a time.                                              *)

Takes(op) == lock = Free /\ op \in calls /\ calls' = calls \ {op}
Answer(op, code) == answers' = answers \cup {[op |-> op, code |-> code]}
Told(t) == IF client[t] = "running" THEN [client EXCEPT ![t] = "told"] ELSE client

Status ==
  /\ Takes("status")
  /\ Answer("status", CASE held = 0 -> 0
                        [] held # 0 /\ kind[held] = "proxy" ->
                             IF client[held] = "over" THEN 0 ELSE connection[held]
                        [] OTHER -> shown[held])
  /\ UNCHANGED <<window, Application, Cores, Helpers>>

(* The form changed while connected.  An in-process core takes it at once.    *)
Reload ==
  /\ window.state = "connected" /\ lock = Free
  /\ held # 0 /\ kind[held] = "helper" /\ wire[held] = <<>>
  /\ wire' = [wire EXCEPT ![held] = <<"reload">>]
  /\ UNCHANGED <<window, calls, answers, Application, Cores, helper, ticker, shown>>

(* stop_tunnel and the head of start_tunnel: the shutdown is sent; a helper   *)
(* gets the command.                                                         *)
(* Mutant: a helper is let go of without the command to stop.                 *)
TakeUntold(op) ==
  /\ op \in {"start", "stop"} /\ Takes(op)
  /\ lock' = [op |-> op, at |-> IF held = 0 THEN "clear" ELSE kind[held], tunnel |-> held]
  /\ held' = 0
  /\ client' = IF held # 0 /\ kind[held] = "proxy" THEN Told(held) ELSE client
  /\ shown' = IF held = 0 THEN shown ELSE [shown EXCEPT ![held] = 0]
  /\ UNCHANGED <<window, answers, kind, loops, port, connection, helper, wire, ticker>>

Take(op) ==
  /\ op \in {"start", "stop"} /\ Takes(op)
  /\ lock' = [op |-> op, at |-> IF held = 0 THEN "clear" ELSE kind[held], tunnel |-> held]
  /\ held' = 0
  /\ client' = IF held # 0 /\ kind[held] = "proxy" THEN Told(held) ELSE client
  /\ wire' = IF held # 0 /\ kind[held] = "helper" THEN [wire EXCEPT ![held] = Append(@, "stop")]
                                                  ELSE wire
  /\ shown' = IF held = 0 THEN shown ELSE [shown EXCEPT ![held] = 0]
  /\ UNCHANGED <<window, answers, kind, loops, port, connection, helper, ticker>>

(* handle.abort(): a core that was not polled since the shutdown was sent     *)
(* goes without passing it on, and the channel its tasks listen to closes    *)
(* without a value.  Their loops take that for a wake-up, for ever.          *)
Abort ==
  /\ lock.at = "proxy" /\ lock' = [lock EXCEPT !.at = "clear"]
  /\ client' = [client EXCEPT ![lock.tunnel] = IF @ = "over" THEN @ ELSE "dropped"]
  /\ loops' = [loops EXCEPT ![lock.tunnel] =
                 IF client[lock.tunnel] = "told" /\ @ = "on" THEN "deaf" ELSE @]
  /\ UNCHANGED <<window, calls, answers, held, kind, port, connection, Helpers>>

(* The sender is dropped, at once or 1.2 s later: the task that pumps the     *)
(* socket ends, and with it the connection.                                  *)
Hangup ==
  /\ lock.at = "helper" /\ lock' = [lock EXCEPT !.at = "clear"]
  /\ wire' = [wire EXCEPT ![lock.tunnel] = Append(@, "eof")]
  /\ UNCHANGED <<window, calls, answers, held, kind, Cores, helper, ticker, shown>>

Stopped ==
  /\ lock.at = "clear" /\ lock.op = "stop" /\ lock' = Free
  /\ UNCHANGED <<window, calls, answers, held, kind, Cores, Helpers>>

(* The configuration, the driver or the consent may be missing.              *)
Fails ==
  /\ lock.at = "clear" /\ lock.op = "start" /\ lock' = Free
  /\ Answer("start", "error")
  /\ UNCHANGED <<window, calls, held, kind, Cores, Helpers>>

StartProxy ==
  /\ lock.at = "clear" /\ lock.op = "start" /\ Unused # {} /\ lock' = Free
  /\ held' = Next1 /\ kind' = [kind EXCEPT ![Next1] = "proxy"]
  /\ client' = [client EXCEPT ![Next1] = "running"]
  /\ connection' = [connection EXCEPT ![Next1] = 1]
  /\ Answer("start", "ok")
  /\ UNCHANGED <<window, calls, loops, port, Helpers>>

Launch ==
  /\ lock.at = "clear" /\ lock.op = "start" /\ Unused # {}
  /\ lock' = [op |-> "start", at |-> "connecting", tunnel |-> Next1]
  /\ kind' = [kind EXCEPT ![Next1] = "helper"]
  /\ helper' = [helper EXCEPT ![Next1] = "launched"]
  /\ UNCHANGED <<window, calls, answers, held, Cores, wire, ticker, shown>>

Connected ==
  /\ lock.at = "connecting" /\ helper[lock.tunnel] = "listening"
  /\ lock' = Free /\ held' = lock.tunnel
  /\ helper' = [helper EXCEPT ![lock.tunnel] = "serving"]
  /\ wire' = [wire EXCEPT ![lock.tunnel] = <<"start">>]
  /\ shown' = [shown EXCEPT ![lock.tunnel] = 1]
  /\ Answer("start", "ok")
  /\ UNCHANGED <<window, calls, kind, Cores, ticker>>

(* 60 s.  The helper may still come: the user was asked for consent.         *)
(* Mutant: the wait for a helper ends only when it has failed.                *)
TimesOutIfGone ==
  /\ lock.at = "connecting" /\ helper[lock.tunnel] = "gone"
  /\ lock' = Free /\ Answer("start", "error")
  /\ UNCHANGED <<window, calls, held, kind, Cores, Helpers>>

TimesOut ==
  /\ lock.at = "connecting" /\ helper[lock.tunnel] \in {"launched", "gone"}
  /\ lock' = Free /\ Answer("start", "error")
  /\ UNCHANGED <<window, calls, held, kind, Cores, Helpers>>

Command == \/ Status \/ Reload \/ Take("start") \/ Take("stop") \/ Abort \/ Hangup \/ Stopped
           \/ Fails \/ StartProxy \/ Launch \/ Connected \/ TimesOut

--------------------------------------------------------------------------------
(* A core and its tasks, wherever they run.                                  *)

AppState == <<window, calls, lock, answers, held, kind>>

(* A run binds the local address, or fails and is tried again.               *)
Runs(t) ==
  /\ client[t] = "running" /\ loops[t] = "none" /\ port = 0
  /\ loops' = [loops EXCEPT ![t] = "on"] /\ port' = t
  /\ UNCHANGED <<AppState, client, connection, Helpers>>

(* The bridge reports its state; 0 also when an attempt failed.  Nobody reads *)
(* what it reports once the application let go of the tunnel.                *)
Reports(t) ==
  /\ held = t /\ client[t] = "running" /\ loops[t] = "on"
  /\ \E s \in States \ {connection[t]} : connection' = [connection EXCEPT ![t] = s]
  /\ UNCHANGED <<AppState, client, loops, port, Helpers>>

(* The core passes the shutdown on, waits for the tasks and returns.         *)
Passes(t) ==
  /\ client[t] = "told" /\ client' = [client EXCEPT ![t] = "closing"]
  /\ loops' = [loops EXCEPT ![t] = IF @ = "on" THEN "closing" ELSE "over"]
  /\ UNCHANGED <<AppState, port, connection, Helpers>>

Closes(t) ==
  /\ loops[t] = "closing" /\ loops' = [loops EXCEPT ![t] = "over"]
  /\ port' = IF port = t THEN 0 ELSE port
  /\ connection' = [connection EXCEPT ![t] = 0]
  /\ UNCHANGED <<AppState, client, Helpers>>

Returns(t) ==
  /\ client[t] = "closing" /\ loops[t] = "over"
  /\ client' = [client EXCEPT ![t] = "over"]
  /\ UNCHANGED <<AppState, loops, port, connection, Helpers>>

Core(t) == Passes(t) \/ Closes(t) \/ Returns(t)

--------------------------------------------------------------------------------
(* The helper process.                                                       *)

(* It may be refused, or find its port taken.                                *)
Listens(t) ==
  /\ helper[t] = "launched"
  /\ \E up \in BOOLEAN : helper' = [helper EXCEPT ![t] = IF up THEN "listening" ELSE "gone"]
  /\ UNCHANGED <<AppState, Cores, wire, ticker, shown>>

(* Nobody connects within 60 s; an application that is waiting does.         *)
(* Mutant: a helper nobody connects to waits for ever.                        *)
Never(t) == FALSE
GivesUp(t) == helper[t] = "listening" /\ lock.tunnel # t
Unclaimed(t) ==
  /\ GivesUp(t) /\ helper' = [helper EXCEPT ![t] = "gone"]
  /\ UNCHANGED <<AppState, Cores, wire, ticker, shown>>

Reads(t) ==
  /\ helper[t] = "serving" /\ wire[t] # <<>>
  /\ LET cmd == Head(wire[t]) IN
     /\ wire' = [wire EXCEPT ![t] = Tail(@)]
     /\ client' = CASE cmd = "start" -> [client EXCEPT ![t] = "running"]
                    [] cmd \in {"stop", "eof"} -> Told(t)
                    [] OTHER -> client
     /\ ticker' = [ticker EXCEPT ![t] = CASE cmd = "start" -> New
                                          [] cmd \in {"stop", "eof"} -> Off
                                          [] OTHER -> @]
     /\ shown' = IF held = t /\ cmd \in {"start", "reload"} THEN [shown EXCEPT ![t] = 1] ELSE shown
     /\ helper' = [helper EXCEPT ![t] = IF cmd = "eof" THEN "leaving" ELSE @]
  /\ UNCHANGED <<AppState, loops, port, connection>>

(* Every second: the state, if it is another one.                            *)
Tick(t) ==
  /\ helper[t] = "serving" /\ held = t /\ ticker[t] \notin {Off, connection[t]}
  /\ ticker' = [ticker EXCEPT ![t] = connection[t]]
  /\ shown' = [shown EXCEPT ![t] = connection[t]]
  /\ UNCHANGED <<AppState, Cores, helper, wire>>

(* exit(0) 800 ms after the end of the connection, or a kill: what the        *)
(* process held is free.                                                     *)
Ends(t) ==
  /\ helper[t] \in {"serving", "leaving"}
  /\ helper' = [helper EXCEPT ![t] = "gone"]
  /\ client' = [client EXCEPT ![t] = IF @ = "none" THEN "none" ELSE "dropped"]
  /\ loops' = [loops EXCEPT ![t] = IF @ = "none" THEN "none" ELSE "over"]
  /\ port' = IF port = t THEN 0 ELSE port
  /\ shown' = [shown EXCEPT ![t] = 0]
  /\ ticker' = [ticker EXCEPT ![t] = Off]
  /\ wire' = [wire EXCEPT ![t] = <<>>] /\ connection' = [connection EXCEPT ![t] = 0]
  /\ UNCHANGED AppState

Leaves(t) == helper[t] = "leaving" /\ Ends(t)

Next == \/ Window \/ Command
        \/ \E t \in Tunnels : \/ Runs(t) \/ Reports(t) \/ Core(t)
                              \/ Listens(t) \/ Unclaimed(t) \/ Reads(t) \/ Tick(t)
                              \/ Ends(t)

--------------------------------------------------------------------------------
(* No core is forgotten: a helper whose tunnel the application let go of has  *)
(* been told to stop, or will read it.                                       *)
DroppedIsTold ==
  \A t \in Tunnels : helper[t] = "serving" /\ client[t] = "running" /\ held # t =>
    \E i \in DOMAIN wire[t] : wire[t][i] \in {"stop", "eof"}

(* A privileged process does not outlive its tunnel, nor one that was given up *)
(* on before it came.                                                        *)
HelpersEnd ==
  \A t \in Tunnels :
    (helper[t] \in {"listening", "serving", "leaving"} /\ held # t /\ lock.tunnel # t)
      ~> (helper[t] = "gone")

(* The lock is not held for ever, whatever becomes of the helper: the window  *)
(* can always stop the tunnel.                                               *)
CallsReturn == (lock # Free) ~> (lock = Free)

(* Once there is no tunnel the window says so, whatever answers were on their *)
(* way to it.                                                                *)
WindowSettles ==
  <>[](held = 0 /\ lock.op # "start" /\ "start" \notin calls) => <>[](window.state = "disconnected")

(* "Tear down any existing tunnel before starting a fresh one": the bridge and *)
(* the local proxy of a tunnel that was let go of end.                       *)
OldTunnelEnds ==
  \A t \in Tunnels :
    (loops[t] \in {"on", "deaf"} /\ held # t /\ lock.tunnel # t) ~> (loops[t] \notin {"on", "deaf"})

(* "So UI polling doesn't see 0 and flip back to disconnected": a tunnel that  *)
(* is up is shown as connected.                                              *)
WindowFollows ==
  \A t \in Tunnels : <>[](held = t /\ client[t] = "running" /\ connection[t] = 2)
                       => <>[](window.state = "connected")

(* "seamless hot-reload": the application knows the state of the tunnel that   *)
(* a helper runs.                                                            *)
ShownFollows ==
  \A t \in Tunnels, s \in States :
    <>[](held = t /\ kind[t] = "helper" /\ client[t] = "running" /\ connection[t] = s)
      => <>[](shown[t] = s)

(* Nothing of a tunnel that is over stays: no core that was not told, no      *)
(* helper, no call that holds the lock, no window that still shows it.        *)
DesktopSettles == []DroppedIsTold /\ HelpersEnd /\ CallsReturn /\ WindowSettles
================================================================================
