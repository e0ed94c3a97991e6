--------------------------------- MODULE Egress --------------------------------
(* How the server reaches a target (router.rs, outbound.rs, and the UDP       *)
(* associations of relay.rs): the resolver, the outbound rules, the upstream  *)
(* proxy, and the addresses of a direct connection tried in turn.  A          *)
(* connection takes the configuration of the moment it begins, an association *)
(* that of the moment it was opened; an administrator replaces it meanwhile.  *)
EXTENDS Naturals, Sequences, FiniteSets, SequencesExt

CONSTANTS
  Names, Ips,  \* hosts a client asks for: names and addresses
  Loopback,    \* the addresses that are this machine
  Configs,     \* outbound configurations: [enabled, protocol, rules, default]
  Candidates,  \* what a name may resolve to: sequences of [family, answers]
  MaxTcp, MaxUdp, \* bounds: connections, datagrams sent
  MaxPut       \* bound: configurations put in force

Hosts == Names \cup Ips

OutboundRule ==
  [protocol : STRING, domains : SUBSET Names, cidrs : SUBSET Ips, action : {"direct", "proxy", "block"}]
OutboundConfig ==
  [enabled : BOOLEAN, protocol : STRING, rules : Seq(OutboundRule), default : {"direct", "proxy", "block"}]

Addresses == [family : {4, 6}, answers : {"yes", "no", "never"}]

Valid ==
  /\ Hosts # {} /\ Loopback \subseteq Ips /\ Names \cap Ips = {} /\ "proxy" \notin Hosts
  /\ Configs # {} /\ Configs \subseteq OutboundConfig /\ Candidates \subseteq Seq(Addresses)

VARIABLES
  config, puts,
  tcp,       \* the connection being made
  begun,     \* connections so far
  udp,       \* the association: [at, cfg, proxy]
  sent,      \* datagrams sent so far
  arrived,   \* what waits at its socket
  replies,   \* what the client was given
  left       \* history: what left the server, and how

configVars == <<config, puts>>
tcpVars == <<tcp, begun>>
udpVars == <<udp, sent, arrived, replies>>
egressVars == <<configVars, tcpVars, udpVars, left>>

NoTcp == [at |-> "idle", cfg |-> CHOOSE c \in Configs : TRUE, host |-> CHOOSE h \in Hosts : TRUE, addresses |-> <<>>,
          seconds |-> 0, resolved |-> <<>>]

Init ==
  /\ config \in Configs /\ puts = 0
  /\ tcp = NoTcp /\ begun = 0
  /\ udp = [at |-> "closed", cfg |-> config, proxy |-> FALSE, dual |-> FALSE]
  /\ sent = 0 /\ arrived = {} /\ replies = {} /\ left = {}

(* PUT of the outbound rules: the proxy and the default stay.*)
Put(c) ==
  /\ puts < MaxPut /\ puts' = puts + 1 /\ config' = [config EXCEPT !.rules = c.rules]
  /\ UNCHANGED <<tcpVars, udpVars, left>>

--------------------------------------------------------------------------------
(* The rules                                                                  *)

(* match_domain_rule, match_ip_rule: a name matches no network.               *)
Applies(r, host) == (r.domains = {} /\ r.cidrs = {}) \/ host \in r.domains \/ host \in r.cidrs

(* A rule without a protocol, here "any", is for both.                        *)
Hits(c, host, protocol) ==
  {i \in DOMAIN c.rules : c.rules[i].protocol \in {"any", protocol} /\ Applies(c.rules[i], host)}

(* select_outbound_action                                                     *)
Action(c, host, protocol) ==
  IF Hits(c, host, protocol) = {} THEN c.default
  ELSE c.rules[CHOOSE i \in Hits(c, host, protocol) : \A j \in Hits(c, host, protocol) : i <= j].action

Leaves(protocol, via, host, c) == left' = left \cup {[protocol |-> protocol, via |-> via, host |-> host, cfg |-> c]}

--------------------------------------------------------------------------------
(* Connections                                                                *)

TcpTo(t) == tcp' = t /\ UNCHANGED <<configVars, begun, udpVars>>
Fails == TcpTo([tcp EXCEPT !.at = "failed"]) /\ UNCHANGED left

(* route_tcp takes the configuration before it asks the resolver.             *)
Begin(host) ==
  /\ tcp.at \in {"idle", "open", "failed"} /\ begun < MaxTcp /\ begun' = begun + 1
  /\ tcp' = [NoTcp EXCEPT !.at = IF host \in Names THEN "name" ELSE "address", !.cfg = config, !.host = host]
  /\ UNCHANGED <<configVars, udpVars, left>>

(* A rewritten name becomes an address; any other stays a name when the proxy *)
(* may carry it.                                                              *)
Becomes(ip) == TcpTo([tcp EXCEPT !.at = "address", !.host = ip]) /\ UNCHANGED left

Resolve ==
  /\ tcp.at = "name"
  /\ \/ Fails                                              \* blocked
     \/ \E ip \in Ips : Becomes(ip)                        \* a rewrite
     \/ ~tcp.cfg.enabled /\ \E ip \in Ips \ Loopback : Becomes(ip)
     \/ TcpTo([tcp EXCEPT !.at = "address"]) /\ UNCHANGED left

(* The server itself is always reached directly.                              *)
ToItself ==
  /\ tcp.at = "address" /\ tcp.host \in Loopback
  /\ Leaves("tcp", "itself", tcp.host, tcp.cfg) /\ TcpTo([tcp EXCEPT !.at = "open"])

(* Mutant: what cannot be proxied goes out directly.                          *)
DirectAnyway(c, host, protocol) ==
  ~c.enabled \/ Action(c, host, protocol) = "direct" \/ c.protocol \notin {"socks5", "http"}

Directly(c, host, protocol) == ~c.enabled \/ Action(c, host, protocol) = "direct"

(* A proxy of a kind nobody knows is an error, not a direct connection.       *)
ToProxy ==
  /\ tcp.at = "address" /\ tcp.host \notin Loopback /\ ~Directly(tcp.cfg, tcp.host, "tcp")
  /\ \/ Fails
     \/ /\ Action(tcp.cfg, tcp.host, "tcp") = "proxy" /\ tcp.cfg.protocol \in {"socks5", "http"}
        /\ Leaves("tcp", "proxy", tcp.host, tcp.cfg) /\ TcpTo([tcp EXCEPT !.at = tcp.cfg.protocol])

(* socks5_negotiate_auth: the method the proxy chose, and whether it took the *)
(* credentials.                                                               *)
Negotiated(method, taken) == method = "none" \/ (method = "password" /\ taken)

Socks5Auth ==
  /\ tcp.at = "socks5"
  /\ \E method \in {"none", "password", "refused"}, taken \in BOOLEAN :
       IF Negotiated(method, taken) THEN TcpTo([tcp EXCEPT !.at = "request"]) /\ UNCHANGED left ELSE Fails

(* connect_via_socks5                                                         *)
Socks5 ==
  /\ tcp.at = "request"
  /\ \/ Fails
     \/ TcpTo([tcp EXCEPT !.at = "open"]) /\ UNCHANGED left

(* connect_via_http                                                           *)
Http ==
  /\ tcp.at = "http"
  /\ \/ Fails
     \/ TcpTo([tcp EXCEPT !.at = "open"]) /\ UNCHANGED left

(* Mutant: the addresses in the order of the resolver.                        *)
AsResolved(addresses) == {addresses}

(* prefer_ipv4_first, a stable sort: the one sequence it leaves.              *)
Preferred(addresses) ==
  {[i \in DOMAIN addresses |-> addresses[order[i]]] :
     order \in {o \in SetToSeqs(DOMAIN addresses) : \A i, j \in DOMAIN addresses : i < j =>
                  \/ addresses[o[i]].family = 4 /\ addresses[o[j]].family = 6
                  \/ addresses[o[i]].family = addresses[o[j]].family /\ o[i] < o[j]}}

ToTarget ==
  /\ tcp.at = "address" /\ tcp.host \notin Loopback /\ Directly(tcp.cfg, tcp.host, "tcp")
  /\ Leaves("tcp", "direct", tcp.host, tcp.cfg)
  /\ \/ TcpTo([tcp EXCEPT !.at = "failed"])              \* not resolved
     \/ \E s \in Candidates : \E addresses \in Preferred(s) :
          TcpTo([tcp EXCEPT !.at = "try", !.addresses = addresses, !.resolved = s])

PerAddress == 3
Overall == 10

(* One address: it answers, refuses, or is waited for.                        *)
Try ==
  /\ tcp.at = "try" /\ UNCHANGED left
  /\ IF tcp.addresses = <<>> \/ tcp.seconds >= Overall THEN TcpTo([tcp EXCEPT !.at = "failed"])
     ELSE LET a == Head(tcp.addresses) IN
          IF a.answers = "yes" THEN TcpTo([tcp EXCEPT !.at = "open"])
          ELSE TcpTo([tcp EXCEPT !.addresses = Tail(@), !.seconds = IF a.answers = "no" THEN @ ELSE @ + PerAddress])

--------------------------------------------------------------------------------
(* The association                                                            *)

UdpTo(u) == udp' = u /\ UNCHANGED <<configVars, tcpVars>>

(* connect_udp_via_socks5: negotiated as above, then granted or not.          *)
ProxyGives ==
  {given \in BOOLEAN : \E method \in {"none", "password", "refused"}, taken, granted \in BOOLEAN :
                         given <=> Negotiated(method, taken) /\ granted}

(* route_udp_associate: the name of the protocol is compared as it is         *)
(* written.  Without a proxy the association is opened all the same.  The     *)
(* socket is of both families unless the server is bound to an address.       *)
Associate ==
  /\ udp.at = "closed" /\ sent < MaxUdp
  /\ \E given \in ProxyGives, dual \in BOOLEAN :
       UdpTo([at |-> "open", cfg |-> config, dual |-> dual,
            proxy |-> config.enabled /\ config.protocol = "socks5" /\ given])
  /\ UNCHANGED <<sent, arrived, replies, left>>

(* A reply as the socket reports it: an IPv4 address on a socket of both      *)
(* families is a mapped one.                                                  *)
Reply(source, host) == [source |-> source, host |-> host, mapped |-> udp.dual]

(* Mutant: without a proxy a datagram goes out directly.                      *)
ViaWhatThereIs(host) ==
  IF Action(udp.cfg, host, "udp") = "proxy" /\ udp.proxy THEN "proxy"
  ELSE IF udp.cfg.enabled /\ Action(udp.cfg, host, "udp") = "block" THEN "none" ELSE "direct"

(* UdpSessionRouter::send_to: nothing that the rules send through the proxy   *)
(* goes out without it.                                                       *)
Via(host) ==
  IF Directly(udp.cfg, host, "udp") THEN "direct"
  ELSE IF Action(udp.cfg, host, "udp") = "proxy" /\ udp.proxy THEN "proxy" ELSE "none"

Send(host) ==
  /\ udp.at = "open" /\ sent < MaxUdp /\ sent' = sent + 1
  /\ IF Via(host) = "none" THEN UNCHANGED <<arrived, left>>
     ELSE /\ Leaves("udp", Via(host), host, udp.cfg)
          /\ arrived' = arrived \cup {Reply(IF Via(host) = "proxy" THEN "proxy" ELSE host, host)}
  /\ UdpTo(udp) /\ UNCHANGED replies

(* Mutant: the source is passed on as the socket reports it.                  *)
NotCleaned(r) == [from |-> r.source, mapped |-> r.mapped, wrapped |-> r.source = "proxy", host |-> r.host]

(* clean_ipv6_mapped_v4                                                       *)
Cleaned(r) == [from |-> r.source, mapped |-> FALSE, wrapped |-> r.source = "proxy", host |-> r.host]

Receives(r, given) ==
  /\ udp.at = "open" /\ r \in arrived /\ arrived' = arrived \ {r}
  /\ replies' = replies \cup given
  /\ UdpTo(udp) /\ UNCHANGED <<sent, left>>

(* The task of an association waits on the socket itself ...                  *)
ReceiveDirect(r) == Receives(r, {Cleaned(r)})

(* ... and, with a proxy, on the same socket for answers of the proxy, where  *)
(* anything from another address is dropped.                                  *)
ReceiveProxied(r) ==
  /\ udp.proxy
  /\ Receives(r, IF r.source = "proxy" /\ ~r.mapped
                 THEN {[from |-> r.host, mapped |-> FALSE, wrapped |-> FALSE, host |-> r.host]} ELSE {})

(* Close of the stream.                                                       *)
Dissociate ==
  /\ udp.at = "open" /\ arrived' = {} /\ replies' = {} /\ UdpTo([udp EXCEPT !.at = "closed", !.proxy = FALSE])
  /\ UNCHANGED <<sent, left>>

--------------------------------------------------------------------------------
Next ==
  \/ \E c \in Configs : Put(c)
  \/ \E h \in Hosts : Begin(h)
  \/ Resolve \/ ToItself \/ ToProxy \/ Socks5Auth \/ Socks5 \/ Http \/ ToTarget \/ Try
  \/ Associate \/ (\E h \in Hosts : Send(h)) \/ Dissociate
  \/ \E r \in arrived : ReceiveDirect(r) \/ ReceiveProxied(r)

Spec == Init /\ [][Next]_egressVars

--------------------------------------------------------------------------------
Decides(c, i, host, protocol) ==
  /\ i \in Hits(c, host, protocol) /\ \A j \in 1..(i - 1) : j \notin Hits(c, host, protocol)

(* "A rule that says proxy must never be satisfied by sending in the clear":  *)
(* what left directly was not meant for the proxy, nor blocked, by the first  *)
(* rule that matches it, whatever kind of proxy is configured and whether or  *)
(* not it could be reached.                                                   *)
NeverInTheClear ==
  \A l \in left : l.via = "direct" /\ l.cfg.enabled =>
    \/ \E i \in DOMAIN l.cfg.rules : Decides(l.cfg, i, l.host, l.protocol) /\ l.cfg.rules[i].action = "direct"
    \/ l.cfg.default = "direct" /\ \A i \in DOMAIN l.cfg.rules : ~Decides(l.cfg, i, l.host, l.protocol)

(* A target that rules for every protocol treat alike is not reached from two *)
(* addresses, TCP through the proxy and UDP from the server or the other way. *)
OneExit ==
  \A k, l \in left :
    /\ k.cfg = l.cfg /\ k.host = l.host /\ k.protocol = "tcp" /\ l.protocol = "udp"
    /\ \A i \in DOMAIN k.cfg.rules : k.cfg.rules[i].protocol = "any"
    => k.via \in {l.via, "itself"}

(* A reply that comes without a proxy carries the address the client sent to. *)
RepliesAreFromTheTarget == ~udp.proxy => \A r \in replies : r.from = r.host /\ ~r.mapped /\ ~r.wrapped

(* The same of every reply: also with a proxy, whose answers and the direct   *)
(* ones arrive at one socket.                                                 *)
RepliesAreTheirs == \A r \in replies : r.from = r.host /\ ~r.mapped /\ ~r.wrapped

(* An IPv4 address that answers is reached, whatever addresses come before it *)
(* in the answer of the resolver, unless three of its own family hang.        *)
ReachesTheOthers ==
  LET v4(reply) == {i \in DOMAIN tcp.resolved : tcp.resolved[i] = [family |-> 4, answers |-> reply]} IN
  tcp.at = "failed" /\ Cardinality(v4("never")) < 3 => v4("yes") = {}

(* A target is reached the way its rule says, if it can be, and answers itself. *)
EgressSound == NeverInTheClear /\ OneExit /\ RepliesAreFromTheTarget /\ ReachesTheOthers
================================================================================
