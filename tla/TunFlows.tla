-------------------------------- MODULE TunFlows --------------------------------
(***************************************************************************)
(* Which way the traffic of the TUN device takes (tunnel/native_handler.rs,  *)
(* tunnel/udp_nat.rs, tunnel/exclusion.rs of ostp-client): through the local *)
(* proxy into the tunnel, or past it when an exclusion matches.  A UDP        *)
(* session belongs to a socket of a program, whatever it sends to; a TCP     *)
(* connection is decided once, by its program, its first bytes, its target.  *)
(***************************************************************************)
EXTENDS Naturals, Sequences, FiniteSets

CONSTANTS
  Sockets,     \* UDP sockets of programs: the sources the NAT sees
  Conns,       \* TCP connections
  Remotes,     \* the addresses they talk to
  Programs,    \* programs that own a socket or a connection
  Choices,     \* exclusions the user may choose: [ips, names, programs]
  QueueMax     \* the channel of a session

VARIABLES
  matcher,     \* the ExclusionMatcher in force, replaced by a reload
  owner,       \* who owns a socket or a connection, fixed
  nat,         \* "runs", or "gone" once the netstack ended
  session,     \* per socket: its entry in the NAT and the task that serves it
  left,        \* the datagram that left last
  lost,        \* datagrams lost to a session that was closed, since it closed
  conn,        \* per connection: how far its task is
  target,      \* where a connection goes, fixed
  out          \* the chunks of the program that a connection has passed on

(* Exclusions name addresses, names and programs there are.                   *)
Valid == Choices \subseteq [ips : SUBSET Remotes, names : SUBSET Remotes, programs : SUBSET Programs]

natVars == <<nat, session, left, lost>>
tcpVars == <<conn, target, out>>
tunFlows == <<matcher, owner, natVars, tcpVars>>

NoRules == [ips |-> {}, names |-> {}, programs |-> {}]
NoSession == [task |-> "none", way |-> "none", queue |-> <<>>, first |-> "none", rules |-> NoRules]
NoConn == [at |-> "none", way |-> "none", rules |-> NoRules, read |-> 0, hello |-> FALSE]
NoDatagram == [from |-> "none"]

Init ==
  /\ matcher \in Choices
  /\ owner \in [Sockets \cup Conns -> Programs]
  /\ nat = "runs" /\ session = [s \in Sockets |-> NoSession]
  /\ left = NoDatagram /\ lost = [s \in Sockets |-> 0]
  /\ conn = [c \in Conns |-> NoConn] /\ target \in [Conns -> Remotes]
  /\ out = [c \in Conns |-> <<>>]

(* The watch channel of the exclusions: flows that are decided stay as they   *)
(* are.                                                                      *)
Reload ==
  /\ matcher' \in Choices \ {matcher}
  /\ UNCHANGED <<owner, natVars, tcpVars>>

--------------------------------------------------------------------------------
(* The matcher: a suffix of the name, a network, a part of the program's name. *)
MatchDomain(rules, host) == host \in rules.names
MatchIp(rules, ip) == ip \in rules.ips
ExcludedProcess(rules, f) == owner[f] \in rules.programs

--------------------------------------------------------------------------------
(* UDP: run_udp_nat and one task per session.                                *)

(* Mutant: the process rules are forgotten for datagrams.                    *)
UdpWayByAddress(rules, s, to) == IF to \in rules.ips THEN "direct" ELSE "proxied"
UdpWay(rules, s, to) ==
  IF MatchIp(rules, to) \/ ExcludedProcess(rules, s) THEN "direct" ELSE "proxied"

(* Mutant: the entry of a closed session waits for the cleanup.              *)
KeptUntilCleanup(s) == UNCHANGED session
(* The entry of a closed session is dropped with the datagram that finds it.  *)
Dropped(s) == session' = [session EXCEPT ![s] = NoSession]

Packet(s, to) ==
  /\ nat = "runs"
  /\ CASE session[s].task = "none" ->
            /\ session' = [session EXCEPT ![s] =
                 [task |-> "opening", way |-> UdpWay(matcher, s, to), queue |-> <<to>>,
                  first |-> to, rules |-> matcher]]
            /\ lost' = [lost EXCEPT ![s] = 0]
       [] session[s].task = "ended" ->
            /\ lost' = [lost EXCEPT ![s] = IF @ < 2 THEN @ + 1 ELSE @]
            /\ Dropped(s)
       [] OTHER -> /\ session' = [session EXCEPT ![s].queue =
                                    IF Len(@) < QueueMax THEN Append(@, to) ELSE @]
                   /\ UNCHANGED lost
  /\ left' = NoDatagram
  /\ UNCHANGED <<matcher, owner, nat, tcpVars>>

(* The task ends and with it the channel: in the NAT its entry is closed.    *)
Ended(s) == session' = [session EXCEPT ![s] =
              IF nat = "runs" THEN [@ EXCEPT !.task = "ended", !.queue = <<>>] ELSE NoSession]
TaskStep(s) == /\ left' = NoDatagram
               /\ UNCHANGED <<matcher, owner, nat, lost, tcpVars>>

Opened(s) ==
  /\ session[s].task = "opening"
  /\ session' = [session EXCEPT ![s].task = "open"] /\ TaskStep(s)

(* bind, or the local proxy: refused, or closed during the association.      *)
OpenFails(s) == session[s].task = "opening" /\ Ended(s) /\ TaskStep(s)

Sends(s) ==
  /\ session[s].task = "open" /\ session[s].queue # <<>>
  /\ left' = [from |-> s, to |-> Head(session[s].queue), way |-> session[s].way]
  /\ session' = [session EXCEPT ![s].queue = Tail(@)]
  /\ UNCHANGED <<matcher, owner, nat, lost, tcpVars>>

(* A bypass session ends with a send that fails.                             *)
SendFails(s) ==
  /\ session[s].task = "open" /\ session[s].way = "direct" /\ session[s].queue # <<>>
  /\ Ended(s) /\ TaskStep(s)

(* Mutant: a session has no idle timeout.                                    *)
NeverIdle(s) == FALSE
(* 300 s without a datagram either way.  Only the proxied session has it.    *)
IdleOut(s) == session[s].way = "proxied"
Idle(s) ==
  /\ session[s].task = "open" /\ session[s].queue = <<>> /\ IdleOut(s)
  /\ Ended(s) /\ TaskStep(s)

(* The TCP connection of the association is closed by the local proxy.       *)
AssociationEnds(s) ==
  /\ session[s].task = "open" /\ session[s].way = "proxied"
  /\ Ended(s) /\ TaskStep(s)

(* recv() yields None once the NAT dropped the sender.                       *)
ChannelCloses(s) ==
  /\ nat = "gone" /\ session[s].task = "open" /\ session[s].queue = <<>>
  /\ Ended(s) /\ TaskStep(s)

Cleanup ==
  /\ nat = "runs"
  /\ session' = [s \in Sockets |-> IF session[s].task = "ended" THEN NoSession ELSE session[s]]
  /\ left' = NoDatagram
  /\ UNCHANGED <<matcher, owner, nat, lost, tcpVars>>

(* The netstack ends: run_udp_nat returns and drops the senders.             *)
NatEnds ==
  /\ nat = "runs" /\ nat' = "gone"
  /\ session' = [s \in Sockets |-> IF session[s].task = "ended" THEN NoSession ELSE session[s]]
  /\ left' = NoDatagram
  /\ UNCHANGED <<matcher, owner, lost, tcpVars>>

Udp(s) == \/ \E r \in Remotes : Packet(s, r)
          \/ Opened(s) \/ OpenFails(s) \/ Sends(s) \/ SendFails(s)
          \/ Idle(s) \/ AssociationEnds(s) \/ ChannelCloses(s)
UdpNext == Reload \/ Cleanup \/ NatEnds \/ \E s \in Sockets : Udp(s)

--------------------------------------------------------------------------------
(* TCP: the task of a connection.  The program writes chunks 1, 2, ...       *)

(* Mutant: only a named connection is decided by its rules.                  *)
TcpWayOnceNamed(c) ==
  LET rules == conn[c].rules
  IN IF \/ ExcludedProcess(rules, c)
        \/ IF conn[c].hello THEN MatchDomain(rules, target[c]) ELSE MatchIp(rules, target[c])
     THEN "direct" ELSE "proxied"
TcpWay(c) ==
  LET rules == conn[c].rules
  IN IF \/ ExcludedProcess(rules, c)
        \/ conn[c].hello /\ MatchDomain(rules, target[c])
        \/ MatchIp(rules, target[c]) THEN "direct" ELSE "proxied"

TcpStep == UNCHANGED <<matcher, owner, natVars, target>>

Accept(c) ==
  /\ conn[c].at = "none"
  /\ conn' = [conn EXCEPT ![c].at = "sniffing", ![c].rules = matcher]
  /\ UNCHANGED out /\ TcpStep

(* The first read, or 100 ms without one: a program that waits for its peer.  *)
(* The name is found when the hello came whole.                              *)
Sniffed(c) ==
  /\ conn[c].at = "sniffing"
  /\ \E read \in {0, 1}, whole \in BOOLEAN :
       conn' = [conn EXCEPT ![c].at = "decided", ![c].read = read,
                            ![c].hello = whole /\ read = 1]
  /\ UNCHANGED out /\ TcpStep

Connect(c) ==
  /\ conn[c].at = "decided"
  /\ conn' = [conn EXCEPT ![c].at = "connecting", ![c].way = TcpWay(c)]
  /\ UNCHANGED out /\ TcpStep

(* Mutant: the bytes read to find the name are lost.                         *)
NothingReplayed(c) == <<>>
(* What was sniffed goes out first, then both directions are copied.         *)
Replayed(c) == IF conn[c].read = 1 THEN <<1>> ELSE <<>>
Connected(c) ==
  /\ conn[c].at = "connecting"
  /\ conn' = [conn EXCEPT ![c].at = "copying"]
  /\ out' = [out EXCEPT ![c] = Replayed(c)]
  /\ TcpStep

(* Refused, or no answer within 10 s: there is no other way.                 *)
ConnectFails(c) ==
  /\ conn[c].at = "connecting"
  /\ conn' = [conn EXCEPT ![c].at = "ended"]
  /\ UNCHANGED out /\ TcpStep

Copy(c) ==
  /\ conn[c].at = "copying" /\ conn[c].read < 2
  /\ conn' = [conn EXCEPT ![c].read = @ + 1]
  /\ out' = [out EXCEPT ![c] = Append(@, conn[c].read + 1)]
  /\ TcpStep

TcpEnds(c) ==
  /\ conn[c].at = "copying"
  /\ conn' = [conn EXCEPT ![c].at = "ended"]
  /\ UNCHANGED out /\ TcpStep

Tcp(c) == Accept(c) \/ Sniffed(c) \/ Connect(c) \/ Connected(c) \/ ConnectFails(c) \/ Copy(c) \/ TcpEnds(c)
TcpNext == Reload \/ \E c \in Conns : Tcp(c)

Next == UdpNext \/ TcpNext

--------------------------------------------------------------------------------
ExcludedFor(rules, program, to) == to \in rules.ips \/ program \in rules.programs

(* A UDP socket that keeps to one remote, under the exclusions it began with, *)
(* is sent past the tunnel exactly when its remote or its program is          *)
(* excluded: what is not excluded is never sent in the clear.                *)
SteadySocketsFollowTheRules ==
  left # NoDatagram /\ session[left.from].first = left.to =>
    (left.way = "direct" <=> ExcludedFor(session[left.from].rules, owner[left.from], left.to))

(* Every datagram goes the way its own remote and program call for.          *)
DatagramsFollowTheRules ==
  left # NoDatagram =>
    (left.way = "direct" <=> ExcludedFor(session[left.from].rules, owner[left.from], left.to))

(* A session that ended costs its socket one datagram: the next one opens a   *)
(* new session, long before the cleanup that runs once a minute.             *)
OneDatagramLost == \A s \in Sockets : lost[s] <= 1

(* A connection leaves the tunnel only for an exclusion the user made, found  *)
(* by the name it asked for, its address or its program.                     *)
ConnectionsFollowTheRules ==
  \A c \in Conns : conn[c].way # "none" =>
    LET rules == conn[c].rules
        named == conn[c].hello /\ target[c] \in rules.names
    IN conn[c].way = "direct" <=> named \/ ExcludedFor(rules, owner[c], target[c])

(* The bytes of the program arrive in order, the sniffed ones included, once. *)
BytesInOrder ==
  \A c \in Conns : conn[c].at = "copying" => out[c] = [i \in 1..conn[c].read |-> i]

(* A session whose program went quiet is closed, with its socket and task     *)
(* (the session of a proxied flow; a bypass session has no idle timeout).    *)
Quiet(s) == session[s].task \in {"none", "ended"} \/ session[s].queue # <<>>
ProxiedSessionsEnd == \A s \in Sockets : []<>(session[s].way # "direct" => Quiet(s))
SessionsEnd == \A s \in Sockets : []<>Quiet(s)

(* A flow goes the way of its rules, complete from its first byte.            *)
FlowsSound ==
  /\ SteadySocketsFollowTheRules /\ OneDatagramLost
  /\ ConnectionsFollowTheRules /\ BytesInOrder
================================================================================
