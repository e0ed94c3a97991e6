-------------------------------- MODULE Streams --------------------------------
(***************************************************************************)
(* The life of the proxied connections, from the local application to the  *)
(* target: the SOCKS/HTTP proxy and the bridge of the client               *)
(* (ostp-client/src/tunnel/proxy.rs, bridge.rs), and the server loop with  *)
(* its relay tasks (ostp-server/src/lib.rs, relay.rs).  Each of them is a  *)
(* process of its own; they talk over queues.                              *)
(*                                                                         *)
(* A connection is named by its stream id: ids are not used again while    *)
(* the model runs (the proxy hands out 65535 of them in turn).  Below the  *)
(* bridge and the server loop lies one OSTP session at a time (no          *)
(* multiplexing over several), a reliable ordered channel each way (Arq);  *)
(* a reconnect replaces the session and what the old one had under way may *)
(* still arrive at the server, or not.  Payloads are chunks, numbered per  *)
(* connection and direction; an association's datagrams are chunks too.    *)
(* Queues have no capacity here: who waits at a full one sends later.      *)
(***************************************************************************)
EXTENDS Naturals, Sequences, FiniteSets, SequencesExt

CONSTANTS
  Tcp, Udp,        \* the stream ids: CONNECT and UDP ASSOCIATE
  ChunkMax,        \* bound: chunks per connection and direction
  SessionMax,      \* bound: sessions, numbered in the order of the reconnects
  Hasty,           \* connections whose target may speak or close before the
                   \* server loop has seen the result of the connect
  Impatient,       \* connections whose connect timeout may expire
  Mortal           \* sessions the dispatcher may drop

Streams == Tcp \cup Udp
Sessions == 1..SessionMax

ASSUME StreamsAssumption == /\ Tcp \cap Udp = {}
                            /\ Hasty \subseteq Tcp /\ Impatient \subseteq Tcp
                            /\ 0 \notin Streams
ASSUME StreamBoundsAssumption == /\ ChunkMax \in Nat /\ SessionMax \in Nat \ {0}
                                 /\ Mortal \subseteq Sessions

VARIABLES
  \* the proxy: its tasks, its table, its inboxes
  phase,           \* idle, accepted, connecting, open, or ended: by itself (ended)
                   \* or by a Close of the server (finished) or of a reset (reset)
  active_streams, rx,
  \* the bridge
  proxy_events,    \* proxy to bridge
  to_proxy,        \* bridge to proxy; stream id 0 is the reset of all streams
  current,         \* the session in use, the last one while there is none
  running,         \* whether there is one
  \* the sessions
  up, down,        \* messages under way: up per session, down of the current one
  \* the server loop and its tasks
  live,            \* the sessions the dispatcher has
  remotes,         \* streams with a RemoteState
  session_of,      \* the session a stream was opened on at the server, 0 before
  task,            \* the connect task of a stream: none, routing, done
  reader,          \* its reader task: none, reading, ended
  stream_rx, connect_rx,
  backpressure,    \* sessions with an entry in session_backpressure
  \* history
  produced, delivered,  \* chunks read from the target, written to the application
  consumed, uploaded    \* chunks read from the application, written to the target

proxyVars  == <<phase, active_streams, rx>>
bridgeVars == <<proxy_events, to_proxy, current, running>>
linkVars   == <<up, down>>
loopVars   == <<live, remotes, session_of, stream_rx, connect_rx, backpressure>>
taskVars   == <<task, reader>>
countVars  == <<produced, delivered, consumed, uploaded>>
vars == <<proxyVars, bridgeVars, linkVars, loopVars, taskVars, countVars>>

--------------------------------------------------------------------------------

Msg(c, kind) == [stream |-> c, kind |-> kind, n |-> 0]
Chunk(c, n)  == [stream |-> c, kind |-> "Data", n |-> n]
Ended(c) == phase[c] \in {"ended", "finished", "reset"}

Init ==
  /\ phase = [c \in Streams |-> "idle"]
  /\ active_streams = {}
  /\ rx = [c \in Streams |-> <<>>]
  /\ proxy_events = <<>> /\ to_proxy = <<>> /\ current = 1 /\ running = TRUE
  /\ up = [s \in Sessions |-> <<>>] /\ down = <<>>
  /\ live = {1} /\ remotes = {} /\ session_of = [c \in Streams |-> 0]
  /\ task = [c \in Streams |-> "none"] /\ reader = [c \in Streams |-> "none"]
  /\ stream_rx = <<>> /\ connect_rx = <<>> /\ backpressure = {}
  /\ produced = [c \in Streams |-> 0] /\ delivered = [c \in Streams |-> <<>>]
  /\ consumed = [c \in Streams |-> 0] /\ uploaded = [c \in Streams |-> <<>>]

--------------------------------------------------------------------------------
(* The proxy: one task per local connection.                                  *)

Accept(c) ==
  /\ phase[c] = "idle"
  /\ phase' = [phase EXCEPT ![c] = "accepted"]
  /\ active_streams' = active_streams \cup {c}
  /\ UNCHANGED <<rx, bridgeVars, linkVars, loopVars, taskVars, countVars>>

(* The application named its target; an association is open at once.          *)
Request(c) ==
  /\ phase[c] = "accepted"
  /\ phase' = [phase EXCEPT ![c] = IF c \in Tcp THEN "connecting" ELSE "open"]
  /\ proxy_events' = Append(proxy_events, Msg(c, IF c \in Tcp THEN "Connect" ELSE "UdpAssociate"))
  /\ UNCHANGED <<active_streams, rx, to_proxy, current, running, linkVars, loopVars, taskVars, countVars>>

(* The application went away before it named one.                             *)
GiveUp(c) ==
  /\ phase[c] = "accepted"
  /\ phase' = [phase EXCEPT ![c] = "ended"]
  /\ UNCHANGED <<active_streams, rx, bridgeVars, linkVars, loopVars, taskVars, countVars>>

(* The first message decides the connect, whatever it is: anything but        *)
(* ConnectOk fails it, and the server is told nothing.                        *)
Answer(m) == IF m.kind = "ConnectOk" THEN "open" ELSE "ended"

ConnectResult(c) ==
  /\ phase[c] = "connecting"
  /\ rx[c] # <<>>
  /\ phase' = [phase EXCEPT ![c] = Answer(Head(rx[c]))]
  /\ rx' = [rx EXCEPT ![c] = Tail(@)]
  /\ UNCHANGED <<active_streams, bridgeVars, linkVars, loopVars, taskVars, countVars>>

ConnectTimeout(c) ==
  /\ phase[c] = "connecting" /\ c \in Impatient
  /\ phase' = [phase EXCEPT ![c] = "ended"]
  /\ UNCHANGED <<active_streams, rx, bridgeVars, linkVars, loopVars, taskVars, countVars>>

LocalData(c) ==
  /\ phase[c] = "open"
  /\ consumed[c] < ChunkMax
  /\ consumed' = [consumed EXCEPT ![c] = @ + 1]
  /\ proxy_events' = Append(proxy_events, Chunk(c, consumed'[c]))
  /\ UNCHANGED <<proxyVars, to_proxy, current, running, linkVars, loopVars, taskVars, produced, delivered, uploaded>>

(* The application closes, or cannot be written to.  An association ends      *)
(* without a word.                                                            *)
(* Mutant: a connection does too.                                             *)
FarewellNone(c) == <<>>

Farewell(c) == IF c \in Tcp THEN <<Msg(c, "Close")>> ELSE <<>>

LocalEnd(c) ==
  /\ phase[c] = "open"
  /\ phase' = [phase EXCEPT ![c] = "ended"]
  /\ proxy_events' = proxy_events \o Farewell(c)
  /\ UNCHANGED <<active_streams, rx, to_proxy, current, running, linkVars, loopVars, taskVars, countVars>>

Deliver(c) ==
  /\ phase[c] = "open"
  /\ rx[c] # <<>>
  /\ LET m == Head(rx[c]) IN
       /\ phase' = [phase EXCEPT ![c] = CASE m.kind = "Close" -> "finished"
                                          [] m.kind \in {"Error", "Reset"} -> "reset"
                                          [] OTHER -> @]
       /\ delivered' = [delivered EXCEPT ![c] = IF m.kind = "Data" THEN Append(@, m.n) ELSE @]
  /\ rx' = [rx EXCEPT ![c] = Tail(@)]
  /\ UNCHANGED <<active_streams, bridgeVars, linkVars, loopVars, taskVars, produced, consumed, uploaded>>

(* The entry of a task that ended goes when the loop hears of it.             *)
Unlist(c) ==
  /\ Ended(c) /\ c \in active_streams
  /\ active_streams' = active_streams \ {c}
  /\ UNCHANGED <<phase, rx, bridgeVars, linkVars, loopVars, taskVars, countVars>>

(* The proxy loop hands a message to its stream, or the reset to all of them. *)
ProxyLoop ==
  /\ to_proxy # <<>>
  /\ to_proxy' = Tail(to_proxy)
  /\ LET m == Head(to_proxy) IN
       IF m.stream = 0
       THEN /\ rx' = [c \in Streams |-> IF c \in active_streams /\ ~Ended(c)
                                        THEN Append(rx[c], Msg(c, "Reset")) ELSE rx[c]]
            /\ active_streams' = {}
       ELSE IF m.stream \in active_streams
       THEN IF Ended(m.stream)
            THEN active_streams' = active_streams \ {m.stream} /\ rx' = rx
            ELSE rx' = [rx EXCEPT ![m.stream] = Append(@, m)] /\ UNCHANGED active_streams
       ELSE UNCHANGED <<rx, active_streams>>
  /\ UNCHANGED <<phase, proxy_events, current, running, linkVars, loopVars, taskVars, countVars>>

--------------------------------------------------------------------------------
(* The bridge.                                                                *)

BridgeSend ==
  /\ running /\ proxy_events # <<>>
  /\ proxy_events' = Tail(proxy_events)
  /\ up' = [up EXCEPT ![current] = Append(@, Head(proxy_events))]
  /\ UNCHANGED <<proxyVars, to_proxy, current, running, down, loopVars, taskVars, countVars>>

BridgeReceive ==
  /\ running /\ down # <<>>
  /\ down' = Tail(down)
  /\ to_proxy' = Append(to_proxy, Head(down))
  /\ UNCHANGED <<proxyVars, proxy_events, current, running, up, loopVars, taskVars, countVars>>

(* Every stream is to end.                                                    *)
ResetStreams == Append(to_proxy, Msg(0, "Close"))

(* A new session after a change of network.                                   *)
NewSession ==
  /\ current < SessionMax
  /\ current' = current + 1
  /\ live' = live \cup {current'}
  /\ down' = <<>> /\ running' = TRUE

NetworkChanged ==
  /\ running /\ NewSession
  /\ to_proxy' = ResetStreams
  /\ UNCHANGED <<proxyVars, proxy_events, up, remotes, session_of, stream_rx, connect_rx,
                 backpressure, taskVars, countVars>>

(* A new session after a silence: what the proxy had sent meanwhile is thrown *)
(* away, and its connects are refused.                                        *)
BackgroundReconnect ==
  /\ running /\ NewSession
  /\ \E order \in SetToSeqs({i \in DOMAIN proxy_events : proxy_events[i].kind = "Connect"}) :
       /\ \A i, j \in DOMAIN order : i < j => order[i] < order[j]
       /\ to_proxy' = ResetStreams \o
            [i \in DOMAIN order |-> Msg(proxy_events[order[i]].stream, "Error")]
  /\ proxy_events' = <<>>
  /\ UNCHANGED <<proxyVars, up, remotes, session_of, stream_rx, connect_rx,
                 backpressure, taskVars, countVars>>

(* The tunnel is stopped, and started again.                                  *)
Stop ==
  /\ running /\ current < SessionMax
  /\ running' = FALSE
  /\ to_proxy' = ResetStreams
  /\ down' = <<>>
  /\ UNCHANGED <<proxyVars, proxy_events, current, up, loopVars, taskVars, countVars>>

Start ==
  /\ ~running /\ NewSession
  /\ UNCHANGED <<proxyVars, proxy_events, to_proxy, up, remotes, session_of, stream_rx, connect_rx,
                 backpressure, taskVars, countVars>>

(* What an abandoned session had under way is lost.                           *)
LoseOld(s) ==
  /\ (s # current \/ ~running) /\ up[s] # <<>>
  /\ up' = [up EXCEPT ![s] = <<>>]
  /\ UNCHANGED <<proxyVars, bridgeVars, down, loopVars, taskVars, countVars>>

--------------------------------------------------------------------------------
(* The server.                                                                *)

(* send_relay_to_stream: nothing leaves for a session the dispatcher dropped, *)
(* and nobody reads what is sent on a session the client left.                *)
SendDown(c, kind, n) ==
  down' = IF session_of[c] \in live /\ session_of[c] = current /\ running
          THEN Append(down, [stream |-> c, kind |-> kind, n |-> n]) ELSE down

(* The table of the server is keyed by session and stream.                    *)
(* Mutant: by the stream alone.                                               *)
KnownAnywhere(c, s) == c \in remotes

Known(c, s) == c \in remotes /\ session_of[c] = s

(* handle_relay_message.  A connect is routed by a task of its own.           *)
ServerReceive(s) ==
  /\ s \in live /\ up[s] # <<>>
  /\ up' = [up EXCEPT ![s] = Tail(@)]
  /\ LET m == Head(up[s])
         c == m.stream
     IN  \/ /\ m.kind = "Connect"
            /\ task' = [task EXCEPT ![c] = "routing"]
            /\ session_of' = [session_of EXCEPT ![c] = s]
            /\ UNCHANGED <<down, remotes, reader, uploaded>>
         \/ /\ m.kind = "UdpAssociate"
            /\ session_of' = [session_of EXCEPT ![c] = s]
            /\ remotes' = remotes \cup {c}
            /\ reader' = [reader EXCEPT ![c] = "reading"]
            /\ down' = IF s = current /\ running THEN Append(down, Msg(c, "ConnectOk")) ELSE down
            /\ UNCHANGED <<task, uploaded>>
         \/ /\ m.kind = "UdpAssociate" \* no socket
            /\ UNCHANGED <<down, remotes, session_of, taskVars, uploaded>>
         \/ /\ m.kind = "Data"
            /\ uploaded' = [uploaded EXCEPT ![c] = IF Known(c, s) THEN Append(@, m.n) ELSE @]
            /\ UNCHANGED <<down, remotes, session_of, taskVars>>
         \/ /\ m.kind = "Close"
            /\ remotes' = IF Known(c, s) THEN remotes \ {c} ELSE remotes
            /\ UNCHANGED <<down, session_of, taskVars, uploaded>>
  /\ UNCHANGED <<proxyVars, bridgeVars, live, stream_rx, connect_rx, backpressure,
                 produced, delivered, consumed>>

(* The connect task: it creates the headroom entry of the session, starts the *)
(* reader, and then reports.                                                  *)
(* Mutant: the entry is made for the stream.                                  *)
HeadroomOfStream(c) == backpressure \cup {c}

Headroom(c) == backpressure \cup {session_of[c]}

Routed(c) ==
  /\ task[c] = "routing"
  /\ task' = [task EXCEPT ![c] = "done"]
  /\ reader' = [reader EXCEPT ![c] = "reading"]
  /\ backpressure' = Headroom(c)
  /\ connect_rx' = Append(connect_rx, Msg(c, "ConnectOk"))
  /\ UNCHANGED <<proxyVars, bridgeVars, linkVars, live, remotes, session_of, stream_rx, countVars>>

RouteFailed(c) ==
  /\ task[c] = "routing"
  /\ task' = [task EXCEPT ![c] = "done"]
  /\ connect_rx' = Append(connect_rx, Msg(c, "Error"))
  /\ UNCHANGED <<proxyVars, bridgeVars, linkVars, live, remotes, session_of, stream_rx, backpressure,
                 reader, countVars>>

(* The server loop has seen the result of the connect.                        *)
Reported(c) == \A i \in DOMAIN connect_rx : connect_rx[i].stream # c

(* The reader's cancel_tx is gone; the reader may see what its target sent    *)
(* before it sees that.                                                       *)
Cancelled(c) == Reported(c) /\ c \notin remotes

MaySpeak(c) == reader[c] = "reading" /\ (c \in Hasty \/ Reported(c))

ReaderData(c) ==
  /\ MaySpeak(c) /\ produced[c] < ChunkMax
  /\ produced' = [produced EXCEPT ![c] = @ + 1]
  /\ stream_rx' = Append(stream_rx, Chunk(c, produced'[c]))
  /\ UNCHANGED <<proxyVars, bridgeVars, linkVars, live, remotes, session_of, connect_rx, backpressure,
                 taskVars, delivered, consumed, uploaded>>

(* Mutant: the end overtakes what was read before it.                         *)
EofFirst(c) == <<Msg(c, "Close")>> \o stream_rx

Eof(c) == Append(stream_rx, Msg(c, "Close"))

ReaderEof(c) ==
  /\ MaySpeak(c) /\ c \in Tcp
  /\ reader' = [reader EXCEPT ![c] = "ended"]
  /\ stream_rx' = Eof(c)
  /\ UNCHANGED <<proxyVars, bridgeVars, linkVars, live, remotes, session_of, connect_rx, backpressure,
                 task, countVars>>

ReaderCancelled(c) ==
  /\ reader[c] = "reading" /\ Cancelled(c)
  /\ reader' = [reader EXCEPT ![c] = "ended"]
  /\ UNCHANGED <<proxyVars, bridgeVars, linkVars, loopVars, task, countVars>>

(* The server loop passes on what the readers read; an empty read is the end. *)
(* Mutant: the end of the target is not passed on.                            *)
EndPassedQuietly(m) == m.kind = "Close" /\ down' = down

EndPassed(m) == m.kind = "Close" /\ SendDown(m.stream, "Close", 0)

ServerStream ==
  /\ stream_rx # <<>>
  /\ stream_rx' = Tail(stream_rx)
  /\ LET m == Head(stream_rx) IN
       \/ EndPassed(m) /\ remotes' = remotes \ {m.stream}
       \/ m.kind = "Data" /\ SendDown(m.stream, "Data", m.n) /\ UNCHANGED remotes
  /\ UNCHANGED <<proxyVars, bridgeVars, up, live, session_of, connect_rx, backpressure, taskVars, countVars>>

ServerConnect ==
  /\ connect_rx # <<>>
  /\ connect_rx' = Tail(connect_rx)
  /\ LET m == Head(connect_rx) IN
       /\ remotes' = IF m.kind = "ConnectOk" THEN remotes \cup {m.stream} ELSE remotes
       /\ SendDown(m.stream, m.kind, 0)
  /\ UNCHANGED <<proxyVars, bridgeVars, up, live, session_of, stream_rx, backpressure, taskVars, countVars>>

OfSession(D) == {c \in Streams : session_of[c] \in D}

(* handle_tick: publish the headroom of every session, drop the sessions the  *)
(* dispatcher finds doomed, send the frames that are due and release what the *)
(* dropped sessions held; a frame that cannot be sent skips the release.      *)
Tick(D, sendFails) ==
  /\ D \subseteq live \cap Mortal
  /\ live' = live \ D
  /\ IF sendFails
     THEN backpressure' = backpressure \cup live /\ UNCHANGED remotes
     ELSE /\ backpressure' = (backpressure \cup live) \ D
          /\ remotes' = remotes \ OfSession(D)
  /\ UNCHANGED <<proxyVars, bridgeVars, linkVars, session_of, stream_rx, connect_rx, taskVars, countVars>>

(* on_datagram drops the session of a key that was deleted or is over its     *)
(* limit; the server loop is not told.                                        *)
DatagramDrop(s) ==
  /\ s \in live \cap Mortal
  /\ live' = live \ {s}
  /\ UNCHANGED <<proxyVars, bridgeVars, linkVars, remotes, session_of, stream_rx, connect_rx,
                 backpressure, taskVars, countVars>>

--------------------------------------------------------------------------------

Proxy == \/ \E c \in Streams : \/ Accept(c) \/ Request(c) \/ GiveUp(c)
                               \/ ConnectResult(c) \/ ConnectTimeout(c)
                               \/ LocalData(c) \/ LocalEnd(c) \/ Deliver(c) \/ Unlist(c)
         \/ ProxyLoop

Bridge == \/ BridgeSend \/ BridgeReceive \/ NetworkChanged \/ BackgroundReconnect
          \/ Stop \/ Start \/ \E s \in Sessions : LoseOld(s)

Relay == \E c \in Streams : \/ Routed(c) \/ RouteFailed(c)
                            \/ ReaderData(c) \/ ReaderEof(c) \/ ReaderCancelled(c)

Loop == \/ ServerStream \/ ServerConnect
        \/ \E s \in Sessions : ServerReceive(s) \/ DatagramDrop(s)
        \/ \E D \in SUBSET Sessions, sendFails \in BOOLEAN : Tick(D, sendFails)

Next == Proxy \/ Bridge \/ Relay \/ Loop

Spec == Init /\ [][Next]_vars

(* Every queue is served, every task runs, and a connect comes to an end.     *)
(* Applications, targets and timeouts owe nothing.                            *)
Fairness ==
  /\ WF_vars(ProxyLoop) /\ WF_vars(BridgeSend) /\ WF_vars(BridgeReceive)
  /\ WF_vars(ServerStream) /\ WF_vars(ServerConnect)
  /\ WF_vars(Tick({}, FALSE))
  /\ \A s \in Sessions : WF_vars(ServerReceive(s))
  /\ \A c \in Streams : /\ WF_vars(ConnectResult(c)) /\ WF_vars(Deliver(c)) /\ WF_vars(Unlist(c))
                        /\ WF_vars(Routed(c) \/ RouteFailed(c)) /\ WF_vars(ReaderCancelled(c))

--------------------------------------------------------------------------------
(* Properties.                                                                *)

Message == [stream : Streams \cup {0}, n : Nat,
            kind : {"Connect", "UdpAssociate", "Data", "Close", "ConnectOk", "Error", "Reset"}]

(* The variables have their types.                                            *)
TypeOK ==
  /\ phase \in [Streams -> {"idle", "accepted", "connecting", "open", "ended", "finished", "reset"}]
  /\ active_streams \subseteq Streams /\ remotes \subseteq Streams
  /\ \A c \in Streams : rx[c] \in Seq(Message)
  /\ \A q \in {proxy_events, to_proxy, down, stream_rx, connect_rx} : q \in Seq(Message)
  /\ \A s \in Sessions : up[s] \in Seq(Message)
  /\ current \in Sessions /\ running \in BOOLEAN /\ live \subseteq Sessions /\ backpressure \subseteq Sessions
  /\ session_of \in [Streams -> Sessions \cup {0}]
  /\ task \in [Streams -> {"none", "routing", "done"}]
  /\ reader \in [Streams -> {"none", "reading", "ended"}]
  /\ produced \in [Streams -> 0..ChunkMax] /\ consumed \in [Streams -> 0..ChunkMax]

Numbered(seq) == \A i \in DOMAIN seq : seq[i] = i

(* What an application receives is what its target sent, from the first chunk *)
(* on, without a hole or a chunk twice, and the target gets the application's *)
(* chunks the same way: through every queue, over resets, reconnects and      *)
(* dropped sessions.                                                          *)
PayloadsInOrder == \A c \in Streams : Numbered(delivered[c]) /\ Numbered(uploaded[c])

(* A connection the server closed towards the application is complete: every  *)
(* chunk its target sent was written before.                                  *)
CloseIsComplete == \A c \in Streams : phase[c] = "finished" => Len(delivered[c]) = produced[c]

(* What a connection carries, over every queue and session.                    *)
ConnectionsFaithful == TypeOK /\ PayloadsInOrder /\ CloseIsComplete

(* A TCP connection whose application is done with it ends up holding no      *)
(* RemoteState and no reader on the server, and never again.                  *)
Released(c) == c \notin remotes /\ reader[c] # "reading"
EndedStreamsReleased == \A c \in Tcp : <>[](Ended(c) => Released(c))

(* When the target closes, the application's connection ends too.             *)
TargetCloseEndsStream == \A c \in Streams : (reader[c] = "ended" /\ phase[c] = "open") ~> Ended(c)

(* "Sequencing of a given proxied connection is implicit in the order of its  *)
(* Connect/Data/Close messages": on its way to the client nothing of a        *)
(* connection precedes its ConnectOk.                                         *)
ConnectOkComesFirst ==
  \A i, j \in DOMAIN down :
    down[i].stream = down[j].stream /\ down[j].kind = "ConnectOk" => j <= i
================================================================================
