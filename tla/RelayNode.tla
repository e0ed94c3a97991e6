------------------------------ MODULE RelayNode --------------------------------
(* The relay node (relay_node.rs): a pipe from clients to one upstream        *)
(* server.  A UDP client has a session, one upstream socket and one task that *)
(* reads the answers; a listener's task looks the client up, checks the cap   *)
(* and the admission rate, opens the socket, enters the session and starts    *)
(* the reader, with an await between any two of these.  A TCP connection is   *)
(* counted while it is spliced.                                               *)
EXTENDS Naturals, FiniteSets

CONSTANTS
  Listeners,    \* possible listen addresses
  Peers,        \* client addresses
  Conns,        \* TCP connections
  MaxSessions,  \* MAX_UDP_SESSIONS, scaled down
  MaxTcp,       \* MAX_TCP_CONNECTIONS, scaled down
  Burst,        \* NEW_SESSION_RATE, scaled down
  MaxOpened     \* bound: upstream sockets ever opened

(* The constants of a real instance.                                          *)
Valid ==
  /\ {MaxSessions, MaxTcp, Burst} \subseteq Nat \ {0} /\ MaxOpened \in Nat
  /\ IsFiniteSet(Listeners) /\ IsFiniteSet(Conns)

VARIABLES
  sessions,  \* client -> its upstream socket, as entered in the table
  quiet,     \* clients not heard for UDP_SESSION_IDLE
  task,      \* task of each configured listener -> [at, peer, sock]
  sockets,   \* open upstream socket -> [peer, reader]
  opened,    \* history: sockets opened so far
  tokens,    \* AdmissionLimiter
  live,      \* connections counted
  conn       \* connection -> "new", "admitted", "connecting", "spliced", "ended", "failed"
             \* or "closed"

udpVars == <<sessions, quiet, task, sockets, opened, tokens>>
tcpVars == <<live, conn>>
relayVars == <<udpVars, tcpVars>>

Receiving == [at |-> "recv", peer |-> "none", sock |-> 0]

Init ==
  /\ sessions = [p \in {} |-> 0] /\ quiet = {} /\ sockets = [s \in {} |-> Receiving] /\ opened = 0
  /\ \E L \in (SUBSET Listeners) \ {{}} : task = [l \in L |-> Receiving]
  /\ tokens = Burst
  /\ live = 0 /\ conn = [c \in Conns |-> "new"]

Without(f, S) == [x \in DOMAIN f \ S |-> f[x]]
With(f, x, v) == [y \in DOMAIN f \cup {x} |-> IF y = x THEN v ELSE f[y]]

--------------------------------------------------------------------------------
(* A listener's task                                                          *)

Goes(l, at, p, s) == task' = [task EXCEPT ![l] = [at |-> at, peer |-> p, sock |-> s]]

(* A known client's datagram is passed on; the session counts as alive.       *)
Receive(l, p) ==
  /\ task[l].at = "recv"
  /\ IF p \in DOMAIN sessions
     THEN quiet' = quiet \ {p} /\ UNCHANGED task
     ELSE Goes(l, "new", p, 0) /\ UNCHANGED quiet
  /\ UNCHANGED <<sessions, sockets, opened, tokens, tcpVars>>

(* Mutant: one session over the cap.                                          *)
RoomOffByOne == Cardinality(DOMAIN sessions) <= MaxSessions

Room == Cardinality(DOMAIN sessions) < MaxSessions

CheckCap(l) ==
  /\ task[l].at = "new"
  /\ Goes(l, IF Room THEN "admit" ELSE "recv", task[l].peer, 0)
  /\ UNCHANGED <<sessions, quiet, sockets, opened, tokens, tcpVars>>

(* Mutant: a bucket that is empty admits one more.                            *)
AdmitOneMore(l) ==
  /\ task[l].at = "admit"
  /\ IF tokens + 1 >= 1 THEN tokens' = tokens - 1 /\ Goes(l, "open", task[l].peer, 0)
     ELSE Goes(l, "recv", "none", 0) /\ UNCHANGED tokens
  /\ UNCHANGED <<sessions, quiet, sockets, opened, tcpVars>>

Admit(l) ==
  /\ task[l].at = "admit"
  /\ IF tokens >= 1 THEN tokens' = tokens - 1 /\ Goes(l, "open", task[l].peer, 0)
     ELSE Goes(l, "recv", "none", 0) /\ UNCHANGED tokens
  /\ UNCHANGED <<sessions, quiet, sockets, opened, tcpVars>>

(* new_upstream_socket: resolves, binds and connects, or fails.               *)
Open(l) ==
  /\ task[l].at = "open"
  /\ \/ Goes(l, "recv", "none", 0) /\ UNCHANGED <<sockets, opened>>
     \/ /\ opened < MaxOpened /\ opened' = opened + 1
        /\ sockets' = With(sockets, opened', [peer |-> task[l].peer, reader |-> "none"])
        /\ Goes(l, "insert", task[l].peer, opened')
  /\ UNCHANGED <<sessions, quiet, tokens, tcpVars>>

(* Mutant: the reader runs before the session is in the table.                *)
EnterLate(l) ==
  \/ /\ task[l].at = "insert" /\ Goes(l, "spawn", task[l].peer, task[l].sock)
     /\ sockets' = [sockets EXCEPT ![task[l].sock].reader = "reading"] /\ UNCHANGED <<sessions, quiet>>
  \/ /\ task[l].at = "spawn" /\ Goes(l, "recv", "none", 0)
     /\ sessions' = With(sessions, task[l].peer, task[l].sock) /\ quiet' = quiet \ {task[l].peer}
     /\ UNCHANGED sockets

(* The session is entered and the first datagram sent, then the reader        *)
(* started: a reader that ends at once takes its own session out.             *)
Enter(l) ==
  \/ /\ task[l].at = "insert" /\ Goes(l, "spawn", task[l].peer, task[l].sock)
     /\ sessions' = With(sessions, task[l].peer, task[l].sock) /\ quiet' = quiet \ {task[l].peer}
     /\ UNCHANGED sockets
  \/ /\ task[l].at = "spawn" /\ Goes(l, "recv", "none", 0)
     /\ sockets' = [sockets EXCEPT ![task[l].sock].reader = "reading"] /\ UNCHANGED <<sessions, quiet>>

Establish(l) == Enter(l) /\ UNCHANGED <<opened, tokens, tcpVars>>

--------------------------------------------------------------------------------
(* The readers, the sweep and the clock                                       *)

(* An answer goes to the client; whichever session it has now is alive.       *)
Reply(s) ==
  /\ sockets[s].reader = "reading" /\ sockets[s].peer \in DOMAIN sessions
  /\ quiet' = quiet \ {sockets[s].peer}
  /\ UNCHANGED <<sessions, task, sockets, opened, tokens, tcpVars>>

(* A receive or send error ends the reader.                                   *)
Fail(s) ==
  /\ sockets[s].reader = "reading" /\ sockets' = [sockets EXCEPT ![s].reader = "ending"]
  /\ UNCHANGED <<sessions, quiet, task, opened, tokens, tcpVars>>

Removed(p) == sessions' = Without(sessions, {p}) /\ quiet' = quiet \ {p}

ReaderEnds(s) ==
  /\ sockets[s].reader = "ending" /\ Removed(sockets[s].peer)
  /\ sockets' = Without(sockets, {s})
  /\ UNCHANGED <<task, opened, tokens, tcpVars>>

GoesQuiet(p) ==
  /\ p \in DOMAIN sessions \ quiet /\ quiet' = quiet \cup {p}
  /\ UNCHANGED <<sessions, task, sockets, opened, tokens, tcpVars>>

(* The sweep takes idle sessions out of the table.  The reader has a handle   *)
(* of its own on the socket and goes on.                                      *)
Sweep ==
  /\ quiet # {} /\ sessions' = Without(sessions, quiet) /\ quiet' = {}
  /\ UNCHANGED <<task, sockets, opened, tokens, tcpVars>>

Refill ==
  /\ tokens < Burst /\ tokens' = tokens + 1
  /\ UNCHANGED <<sessions, quiet, task, sockets, opened, tcpVars>>

--------------------------------------------------------------------------------
(* TCP                                                                        *)

(* A listener's task checks the count and raises it in two steps; it accepts  *)
(* one connection at a time.                                                  *)
Accept(c) ==
  /\ conn[c] = "new"
  /\ Cardinality({d \in Conns : conn[d] = "admitted"}) < Cardinality(DOMAIN task)
  /\ conn' = [conn EXCEPT ![c] = IF live >= MaxTcp THEN "closed" ELSE "admitted"]
  /\ UNCHANGED <<live, udpVars>>

CountIn(c) ==
  /\ conn[c] = "admitted" /\ conn' = [conn EXCEPT ![c] = "connecting"] /\ live' = live + 1
  /\ UNCHANGED udpVars

(* splice_tcp: the upstream answers, refuses or lets the time run out; later  *)
(* either side ends.                                                          *)
Splice(c) ==
  /\ \/ conn[c] = "connecting" /\ conn' \in {[conn EXCEPT ![c] = x] : x \in {"spliced", "failed"}}
     \/ conn[c] = "spliced" /\ conn' = [conn EXCEPT ![c] = "ended"]
  /\ UNCHANGED <<live, udpVars>>

(* Mutant: a connection that was never spliced is not counted out.            *)
CountedOutSpliced(c) == live' = IF conn[c] = "ended" THEN live - 1 ELSE live

CountedOut(c) == live' = live - 1

Ends(c) ==
  /\ conn[c] \in {"ended", "failed"} /\ CountedOut(c) /\ conn' = [conn EXCEPT ![c] = "closed"]
  /\ UNCHANGED udpVars

--------------------------------------------------------------------------------
UdpNext ==
  \/ \E l \in DOMAIN task :
       (\E p \in Peers : Receive(l, p)) \/ CheckCap(l) \/ Admit(l) \/ Open(l) \/ Establish(l)
  \/ \E s \in DOMAIN sockets : Reply(s) \/ Fail(s) \/ ReaderEnds(s)
  \/ \E p \in Peers : GoesQuiet(p)
  \/ Sweep \/ Refill

TcpNext == \E c \in Conns : Accept(c) \/ CountIn(c) \/ Splice(c) \/ Ends(c)

Next == UdpNext \/ TcpNext

Spec == Init /\ [][Next]_relayVars

--------------------------------------------------------------------------------
(* The variables have their types.                                            *)
TypeOK ==
  /\ DOMAIN sessions \subseteq Peers /\ quiet \subseteq DOMAIN sessions
  /\ DOMAIN sockets \subseteq 1..opened /\ tokens \in 0..Burst /\ live \in 0..Cardinality(Conns)

(* The cap is checked before several awaits and the session entered after     *)
(* them: each listener's task can be one session late, and no more.           *)
SessionsBounded == Cardinality(DOMAIN sessions) <= MaxSessions + Cardinality(DOMAIN task) - 1

(* A session in the table can be answered: its socket is open and a reader    *)
(* runs or is about to, so a client is never left with a session whose        *)
(* datagrams go up and whose answers nobody passes down.                      *)
SessionsAnswered ==
  \A p \in DOMAIN sessions :
    /\ sessions[p] \in DOMAIN sockets /\ sockets[sessions[p]].peer = p
    /\ sockets[sessions[p]].reader = "none" => \E l \in DOMAIN task : task[l].sock = sessions[p]

(* The count is that of the connections being served, however they end, and   *)
(* exceeds the cap by less than the number of listeners.                      *)
LiveMatches ==
  /\ live <= MaxTcp + Cardinality(DOMAIN task) - 1
  /\ live = Cardinality({c \in Conns : conn[c] \in {"connecting", "spliced", "ended", "failed"}})

(* "Dropping the entry closes the upstream socket, which ends that session's  *)
(* reader task": an upstream socket belongs to a session or to a task that is *)
(* entering one, so the cap bounds sockets and tasks.                         *)
SocketsAreSessions ==
  \A s \in DOMAIN sockets :
    \/ \E p \in DOMAIN sessions : sessions[p] = s
    \/ \E l \in DOMAIN task : task[l].sock = s
    \/ sockets[s].reader = "ending"

(* The table and the count are those of the sessions the relay answers.       *)
RelaySound == SessionsBounded /\ SessionsAnswered /\ LiveMatches
================================================================================
