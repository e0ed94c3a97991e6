------------------------------ MODULE UdpReplies -------------------------------
(* The server's UDP sockets, one per listen address, and the choice of the    *)
(* one that answers a client (transport/udp.rs UdpSockets; the receiving      *)
(* tasks of run_server_loop).  The replies are the server loop's, which sends *)
(* to the address a session was last heard from.                              *)
(* A socket is [family, scope], a client address [family, loopback, mapped]:  *)
(* a mapped address is an IPv4 client heard on a dual-stack IPv6 socket.      *)
EXTENDS Naturals, Sequences, FiniteSets

CONSTANTS
  Locals,       \* the bound addresses, in the order of "listen"
  Clients,      \* client addresses
  MaxRemembered \* MAX_REMEMBERED_PEERS, scaled down

(* The constants of a real instance.                                         *)
Valid ==
  /\ Locals \in Seq([family : {4, 6}, scope : {"any", "loopback", "public"}])
  /\ MaxRemembered \in Nat \ {0}

VARIABLES
  reply_via,  \* client address -> index of the socket that last received from it
  heard       \* history: the same without the bound

udpVars == <<reply_via, heard>>

Indices == DOMAIN Locals

(* The canonical family of an address: a mapped IPv4 address is IPv4.         *)
Family(p) == IF p.mapped THEN 4 ELSE p.family

(* What the kernel delivers: the socket's own family (an IPv6 wildcard takes  *)
(* IPv4 clients too, as mapped addresses), loopback clients to loopback       *)
(* sockets and others to the others, and everything to a wildcard.            *)
Hears(i, p) ==
  /\ p.family = Locals[i].family
  /\ p.mapped => Locals[i].scope = "any"
  /\ Locals[i].scope = "any" \/ (Locals[i].scope = "loopback") = p.loopback

(* Mutant: any socket of the family will do.                                  *)
CanReachOfFamily(i, p) == Locals[i].family = Family(p)

(* pick_socket: same family, and loopback only for loopback.                  *)
CanReach(i, p) ==
  /\ Locals[i].family = Family(p)
  /\ Locals[i].scope = "any" \/ (Locals[i].scope = "loopback") = p.loopback

Picked(p) == {i \in Indices : CanReach(i, p) /\ \A j \in 1..(i - 1) : ~CanReach(j, p)}

SocketFor(p) == IF p \in DOMAIN reply_via THEN {reply_via[p]} ELSE Picked(p)

Init == reply_via = [p \in {} |-> 0] /\ heard = [p \in {} |-> 0]

(* Mutant: the table is never dropped.                                        *)
RememberedAll(p) == DOMAIN reply_via

(* A full table is dropped before a new client enters it.                     *)
Remembered(p) ==
  IF Cardinality(DOMAIN reply_via) >= MaxRemembered /\ p \notin DOMAIN reply_via
  THEN {} ELSE DOMAIN reply_via

Entered(table, kept, p, i) == [q \in kept \cup {p} |-> IF q = p THEN i ELSE table[q]]

Received(i, p) ==
  /\ Hears(i, p)
  /\ reply_via' = Entered(reply_via, Remembered(p), p, i)
  /\ heard' = [q \in DOMAIN heard \cup {p} |-> IF q = p THEN i ELSE heard[q]]

Next == \E i \in Indices, p \in Clients : Received(i, p)

Spec == Init /\ [][Next]_udpVars

--------------------------------------------------------------------------------
(* The variables have their types and the table stays within its bound.       *)
TypeOK ==
  /\ DOMAIN reply_via \subseteq DOMAIN heard /\ DOMAIN heard \subseteq Clients
  /\ \A p \in DOMAIN heard : heard[p] \in Indices
  /\ Cardinality(DOMAIN reply_via) <= MaxRemembered

(* A client that was heard on a socket of its own family is answered, through *)
(* a socket that can send to it, and through the very socket it last wrote    *)
(* to while it is remembered or while no other could be meant: also right     *)
(* after the full table was dropped under it.                                 *)
RepliesReach ==
  \A p \in DOMAIN heard : ~p.mapped =>
    /\ SocketFor(p) # {}
    /\ \A i \in SocketFor(p) : Hears(i, p)
    /\ p \in DOMAIN reply_via \/ Cardinality({i \in Indices : Hears(i, p)}) = 1
         => SocketFor(p) = {heard[p]}

(* "Until then replies use the fallback choice, which is right for every      *)
(* single-address-per-family setup": a client only one socket can hear is     *)
(* answered through it.                                                       *)
FallbackIsRight ==
  \A p \in DOMAIN heard :
    Cardinality({i \in Indices : Hears(i, p)}) = 1 => SocketFor(p) = {heard[p]}
================================================================================
