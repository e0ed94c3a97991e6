------------------------------- MODULE TcpFront --------------------------------
(* The server's TCP side: the listeners that tell OSTP from everything else   *)
(* on the same port (transport/sniff.rs), the admission limits                *)
(* (transport/limiter.rs, the pending semaphore) and the UoT connections with *)
(* the table through which the server loop answers them (transport/uot.rs,    *)
(* relay.rs).                                                                 *)
(*                                                                            *)
(* A connection is a small number.  What its bytes say is chosen as they      *)
(* arrive, one action per await of its task; the awaits of one task never     *)
(* overlap, those of different tasks interleave freely.                       *)
EXTENDS Naturals, FiniteSets

CONSTANTS
  Conns,        \* the connections of the run, accepted in ascending order
  Addresses,    \* socket addresses connections come from; one may come again
  Loopback,     \* the addresses of the local web server
  Clients,      \* client addresses that web server may report
  Listeners,    \* records: required (the https port, bound only with a
                \* certificate), tls, decoy, panel, subscription
  MaxConns,     \* MAX_CONNS, scaled down
  MaxPending    \* MAX_PENDING, scaled down

(* The constants of a real instance.                                         *)
Valid ==
  /\ Conns \subseteq Nat \ {0} /\ Loopback \subseteq Addresses
  /\ MaxConns \in Nat \ {0} /\ MaxPending \in Nat \ {0}
  /\ \A l \in Listeners : l.decoy \in {"NotFound", "Proxy"} /\ (l.required => l.tls)

VARIABLES
  stage,     \* where the task of a connection stands
  from,      \* its peer address
  port,      \* its listener
  via_tls,   \* whether the server ended its TLS
  permits,   \* the connections that hold a permit of "pending"
  charged,   \* history: the addresses the connection was counted against
  windows,   \* limiter: connections counted per address in its current window
  tcp_map    \* peer address -> the connection whose queue is in the table, or 0

frontVars == <<stage, from, port, via_tls, permits, charged, windows, tcp_map>>

Limited == (Addresses \ Loopback) \cup Clients
Classifying == {"first", "handshake", "dispatch", "head"}

Init ==
  /\ stage = [c \in Conns |-> "new"]
  /\ from = [c \in Conns |-> CHOOSE a \in Addresses : TRUE]
  /\ port = [c \in Conns |-> CHOOSE l \in Listeners : TRUE]
  /\ via_tls = [c \in Conns |-> FALSE]
  /\ permits = {}
  /\ charged = [c \in Conns |-> {}]
  /\ windows = [a \in Limited |-> 0]
  /\ tcp_map = [a \in Addresses |-> 0]

Goes(c, where) == stage' = [stage EXCEPT ![c] = where]
(* Mutant: the permit goes with the task, not with its classification.        *)
ReleasedLate(c) == permits' = permits
Released(c) == permits' = permits \ {c}

(* ConnLimiter::check_at within a window; the count stops mattering, and      *)
(* here growing, one past the budget.                                         *)
Counted(a) == windows' = [windows EXCEPT ![a] = IF @ > MaxConns THEN @ ELSE @ + 1]
Admitted(a) == windows[a] + 1 <= MaxConns

(* A window ends: its next connection starts it anew, and a sweep may drop it *)
(* before.                                                                    *)
WindowEnds(a) ==
  /\ windows[a] > 0
  /\ windows' = [windows EXCEPT ![a] = 0]
  /\ UNCHANGED <<stage, from, port, via_tls, permits, charged, tcp_map>>

(* Mutant: one permit too many.                                               *)
HasPermitOneMore == Cardinality(permits) <= MaxPending
HasPermit == Cardinality(permits) < MaxPending

(* serve_listener: the address limit, then a permit, or the connection is     *)
(* dropped.  Loopback peers are not limited here.  The address may be that of *)
(* an older connection whose end the server has not noticed.                  *)
Accept(c, a, l) ==
  /\ stage[c] = "new" /\ \A d \in Conns : d < c => stage[d] # "new"
  /\ from' = [from EXCEPT ![c] = a] /\ port' = [port EXCEPT ![c] = l]
  /\ LET limited == a \notin Loopback
         served  == (limited => Admitted(a)) /\ HasPermit
     IN  /\ IF limited THEN Counted(a) ELSE UNCHANGED windows
         /\ charged' = [charged EXCEPT ![c] = {a} \ Loopback]
         /\ Goes(c, IF served THEN "first" ELSE "closed")
         /\ permits' = IF served THEN permits \cup {c} ELSE permits
  /\ UNCHANGED <<via_tls, tcp_map>>

(* The peer closes or says nothing until the deadline all stages of the       *)
(* classification share; a TLS handshake may also fail.                       *)
Expire(c) ==
  /\ stage[c] \in Classifying
  /\ Goes(c, "closed") /\ Released(c)
  /\ UNCHANGED <<from, port, via_tls, charged, windows, tcp_map>>

(* A connection that is neither OSTP nor an answered request.  Its task keeps *)
(* the permit: a bare 404 ends at once, a splice lasts as long as its ends.   *)
ToDecoy(c) ==
  IF port[c].decoy = "Proxy" THEN Goes(c, "spliced") /\ UNCHANGED permits
  ELSE Goes(c, "closed") /\ Released(c)

(* handle_tcp_connection: the queue enters the table under the peer address,  *)
(* over whatever was there.                                                   *)
ToUot(c) ==
  /\ Goes(c, "uot") /\ Released(c)
  /\ tcp_map' = [tcp_map EXCEPT ![from[c]] = c]

(* dispatch, by the first byte.                                               *)
Routed(c, class) ==
  \/ class = "uot" /\ ToUot(c)
  \/ class = "tls" /\ ToDecoy(c) /\ UNCHANGED tcp_map
  \/ class = "http" /\ Goes(c, "head") /\ UNCHANGED <<permits, tcp_map>>

(* Mutant: the https port refuses only requests.                              *)
RefusedRequest(c, class) == port[c].required /\ class = "http"
Refused(c, class) == port[c].required /\ class # "tls"
EndsTls(c, class) == class = "tls" /\ port[c].tls

(* handle_conn: the https port closes everything but TLS, TLS is ended once.  *)
FirstByte(c, class) ==
  /\ stage[c] = "first"
  /\ \/ Refused(c, class) /\ Goes(c, "closed") /\ Released(c) /\ UNCHANGED tcp_map
     \/ EndsTls(c, class) /\ Goes(c, "handshake") /\ UNCHANGED <<permits, tcp_map>>
     \/ ~Refused(c, class) /\ ~EndsTls(c, class) /\ Routed(c, class)
  /\ UNCHANGED <<from, port, via_tls, charged, windows>>

Handshake(c) ==
  /\ stage[c] = "handshake"
  /\ Goes(c, "dispatch") /\ via_tls' = [via_tls EXCEPT ![c] = TRUE]
  /\ UNCHANGED <<from, port, permits, charged, windows, tcp_map>>

Dispatch(c, class) ==
  /\ stage[c] = "dispatch"
  /\ Routed(c, class)
  /\ UNCHANGED <<from, port, via_tls, charged, windows>>

(* Mutant: the listener decides, not the connection.                          *)
PrivateByPort(c) == port[c].tls \/ from[c] \in Loopback
(* Whether a subscription may be answered on this connection.                 *)
Private(c) == via_tls[c] \/ from[c] \in Loopback

(* route_http, a complete head that is no upgrade: a subscription, the panel  *)
(* or the decoy.                                                              *)
Request(c, asks) ==
  /\ stage[c] = "head"
  /\ \/ asks = "subscription" /\ port[c].subscription /\ Private(c)
        /\ Goes(c, "subscribed") /\ Released(c)
     \/ asks = "panel" /\ port[c].panel /\ Goes(c, "panel") /\ Released(c)
     \/ ~(asks = "subscription" /\ port[c].subscription /\ Private(c))
        /\ ~(asks = "panel" /\ port[c].panel)
        /\ ToDecoy(c)
  /\ UNCHANGED <<from, port, via_tls, charged, windows, tcp_map>>

(* Mutant: the header is believed whoever sends it.                           *)
ForwardedByAnyone(c, via) == via \in Clients
(* Only the local web server may name the client ("via", or none).         *)
Forwarded(c, via) == via \in Clients /\ from[c] \in Loopback

(* route_http, an upgrade: a client named by the web server is limited now.   *)
Upgrade(c, via) ==
  /\ stage[c] = "head"
  /\ IF Forwarded(c, via)
     THEN /\ Counted(via) /\ charged' = [charged EXCEPT ![c] = @ \cup {via}]
          /\ IF Admitted(via) THEN ToUot(c)
             ELSE Goes(c, "closed") /\ Released(c) /\ UNCHANGED tcp_map
     ELSE ToUot(c) /\ UNCHANGED <<windows, charged>>
  /\ UNCHANGED <<from, port, via_tls>>

(* The queue of a connection is closed for its writer once the table holds it *)
(* no more.                                                                   *)
Deaf(c) == stage[c] = "uot" /\ tcp_map[from[c]] # c
(* Mutant: both halves are joined: the reader is waited for.                  *)
UotEndsJoined(c) ==
  /\ stage[c] = "uot" /\ ~Deaf(c)
  /\ Goes(c, "ending")
  /\ UNCHANGED <<from, port, via_tls, permits, charged, windows, tcp_map>>
(* One half of a UoT connection ends: the client closes or is idle too long,  *)
(* or the connection is deaf.  The task drops the other half, then waits for  *)
(* the table.                                                                 *)
UotEnds(c) ==
  /\ stage[c] = "uot"
  /\ Goes(c, "ending")
  /\ UNCHANGED <<from, port, via_tls, permits, charged, windows, tcp_map>>

(* Mutant: the entry is only removed after another connection replaced it.    *)
KeptOwn(c) == [tcp_map EXCEPT ![from[c]] = IF @ = c THEN @ ELSE 0]
(* The entry is removed by address, whoever's it is by now.                   *)
Cleared(c) == [tcp_map EXCEPT ![from[c]] = 0]

UotGone(c) ==
  /\ stage[c] = "ending"
  /\ Goes(c, "closed") /\ tcp_map' = Cleared(c)
  /\ UNCHANGED <<from, port, via_tls, permits, charged, windows>>

(* A splice to the decoy's or the panel's server ends, a subscription is sent.*)
Served(c) ==
  /\ stage[c] \in {"spliced", "panel", "subscribed"}
  /\ Goes(c, "closed") /\ Released(c)
  /\ UNCHANGED <<from, port, via_tls, charged, windows, tcp_map>>

Classes == {"uot", "tls", "http"}

Next ==
  \/ \E a \in Limited : WindowEnds(a)
  \/ \E c \in Conns :
       \/ \E a \in Addresses, l \in Listeners : Accept(c, a, l)
       \/ Expire(c) \/ Handshake(c) \/ UotEnds(c) \/ UotGone(c) \/ Served(c)
       \/ \E class \in Classes : FirstByte(c, class) \/ Dispatch(c, class)
       \/ \E asks \in {"subscription", "panel", "other"} : Request(c, asks)
       \/ \E via \in Clients \cup {"none"} : Upgrade(c, via)

Spec == Init /\ [][Next]_frontVars

(* The classification has a deadline; a queue that left the table is closed   *)
(* at once for its writer, and a task that ended takes the table's lock.      *)
Fairness ==
  \A c \in Conns : /\ WF_frontVars(Expire(c)) /\ WF_frontVars(UotGone(c))
                   /\ WF_frontVars(Deaf(c) /\ UotEnds(c))

FairSpec == Spec /\ Fairness

--------------------------------------------------------------------------------
(* The variables have their types.                                            *)
TypeOK ==
  /\ stage \in [Conns -> Classifying \cup
       {"new", "spliced", "panel", "subscribed", "uot", "ending", "closed"}]
  /\ permits \subseteq Conns /\ Cardinality(permits) <= MaxPending
  /\ windows \in [Limited -> 0..(MaxConns + 1)]
  /\ tcp_map \in [Addresses -> Conns \cup {0}]

(* A permit is held by the connections being classified and by those spliced  *)
(* to the decoy, by no tunnel, panel or finished one: what MAX_PENDING bounds. *)
PermitsMatch == permits = {c \in Conns : stage[c] \in Classifying \cup {"spliced"}}

(* Every entry of the table is a connection whose task still runs: however    *)
(* connections of one address replace one another, none is left behind.       *)
NoStaleQueue ==
  \A a \in Addresses : tcp_map[a] # 0 =>
    from[tcp_map[a]] = a /\ stage[tcp_map[a]] \in {"uot", "ending"}

(* A connection the server cannot answer, because a newer or an older one of  *)
(* its address took its entry away, does not stay open as if it were alive.   *)
NoDeafConnection == \A c \in Conns : Deaf(c) ~> stage[c] = "closed"

(* By whichever way a tunnel came, it was counted against one address: the    *)
(* one it came from, or the client its local web server named (or none).      *)
CountedOnce ==
  \A c \in Conns : stage[c] = "uot" =>
    IF from[c] \in Loopback THEN charged[c] \subseteq Clients /\ Cardinality(charged[c]) <= 1
    ELSE charged[c] = {from[c]}

(* A subscription, whose token is a credential, is sent only where the server *)
(* itself or a web server on its machine ended the TLS.                       *)
CredentialsStayPrivate ==
  \A c \in Conns : stage[c] = "subscribed" => via_tls[c] \/ from[c] \in Loopback

(* The https port carries nothing that did not come through TLS.              *)
HttpsIsTls ==
  \A c \in Conns : port[c].required /\ stage[c] \in {"uot", "panel", "subscribed"} => via_tls[c]

(* What the front keeps however connections come and end: permits, entries of *)
(* the table and counts match the connections that are there, and nothing     *)
(* private leaves without TLS.                                                *)
FrontSound ==
  PermitsMatch /\ NoStaleQueue /\ CountedOnce /\ CredentialsStayPrivate /\ HttpsIsTls
================================================================================
