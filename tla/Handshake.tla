------------------------------- MODULE Handshake -------------------------------
(* How a client opens a session: perform_handshake_with_id of                 *)
(* ostp-client/src/bridge.rs against on_datagram of the dispatcher.  One call *)
(* walks the addresses of the server, with a machine of its own for each, but *)
(* all of them send one payload (time, session id, access key), which the     *)
(* replay cache of the server knows again.  Datagrams are lost, repeated and  *)
(* late; something on the path may answer in the server's place.              *)
EXTENDS Naturals, Sequences, FiniteSets, SequencesExt

CONSTANTS
  Calls,             \* 1..n, the calls of the bridge, in this order
  Resolved,          \* what the name of the server may resolve to
  Attempts,          \* attempt_limit: 6 over UDP, 1 over TCP
  FallbackAttempts   \* 4

Valid == Calls \subseteq Nat \ {0} /\ {Attempts, FallbackAttempts} \subseteq Nat
         /\ \A addrs \in Resolved : addrs \in Seq(Range(addrs))

VARIABLES
  transport,      \* "udp" or "uot"
  dial,           \* the call under way
  tried,          \* the sockets opened so far, in order
  frames,         \* handshakes on the wire, for ever
  replies,        \* what the server answered, and to which socket
  replay_cache,   \* payloads
  opened          \* sessions the server opened: payload and machine

handshake == <<transport, dial, tried, frames, replies, replay_cache, opened>>
wire == <<frames, replies, replay_cache, opened>>

Limit == IF transport = "uot" THEN 1 ELSE Attempts

Init ==
  /\ transport \in {"udp", "uot"}
  /\ dial = [at |-> "idle", call |-> 0, addrs |-> <<>>, nat64 |-> FALSE, via |-> "direct",
               attempt |-> 0, limit |-> 0]
  /\ tried = <<>>
  /\ frames = {} /\ replies = {} /\ replay_cache = {} /\ opened = {}

Machine == <<dial.call, dial.addrs>>
Socket == [call |-> dial.call, addrs |-> dial.addrs, via |-> dial.via]
Frame == [payload |-> dial.call, machine |-> Machine, socket |-> Socket]

--------------------------------------------------------------------------------
(* The client.                                                                *)

IsV4(a) == a.family = 4

(* Mutant: in the order of the resolver.                                      *)
AsResolved(addrs) == {addrs}
(* A stable sort: the one sequence it may return.                             *)
V4First(addrs) ==
  {[i \in DOMAIN addrs |-> addrs[order[i]]] :
     order \in {o \in SetToSeqs(DOMAIN addrs) : \A i, j \in DOMAIN addrs : i < j =>
                  IF IsV4(addrs[o[i]]) = IsV4(addrs[o[j]]) THEN o[i] < o[j] ELSE IsV4(addrs[o[i]])}}

Start ==
  /\ dial.at \in {"idle", "failed"} /\ dial.call + 1 \in Calls
  /\ \E addrs \in UNION {V4First(found) : found \in Resolved} :
       dial' = [at |-> IF addrs = <<>> THEN "failed" ELSE "opening", call |-> dial.call + 1,
                  addrs |-> addrs, nat64 |-> FALSE, via |-> "direct",
                  attempt |-> 0, limit |-> Limit]
  /\ UNCHANGED <<transport, tried, wire>>

OnWithNext ==
  LET rest == Tail(dial.addrs) IN
  [dial EXCEPT !.at = IF rest = <<>> THEN "failed" ELSE "opening", !.addrs = rest,
                 !.via = "direct", !.attempt = 0, !.limit = Limit]

(* Mutant: every address that fails is tried over NAT64 again.                *)
FallbackEach(limit) ==
  IF IsV4(Head(dial.addrs)) /\ dial.via = "direct"
    THEN [dial EXCEPT !.at = "opening", !.via = "nat64", !.nat64 = TRUE, !.attempt = 0,
                        !.limit = limit]
    ELSE OnWithNext
(* NAT64 is tried once in a call, for the first IPv4 address that fails.      *)
Fallback(limit) ==
  IF IsV4(Head(dial.addrs)) /\ ~dial.nat64
    THEN [dial EXCEPT !.at = "opening", !.via = "nat64", !.nat64 = TRUE, !.attempt = 0,
                        !.limit = limit]
    ELSE OnWithNext

Opened ==
  /\ dial.at = "opening"
  /\ dial' = [dial EXCEPT !.at = "sending"]
  /\ tried' = Append(tried, [call |-> dial.call, addr |-> Head(dial.addrs), via |-> dial.via])
  /\ UNCHANGED <<transport, wire>>

OpenFails ==
  /\ dial.at = "opening"
  /\ dial' = IF dial.via = "direct" THEN Fallback(Limit) ELSE OnWithNext
  /\ UNCHANGED <<transport, tried, wire>>

(* Twice over UDP; the server drops the second copy.                          *)
Send ==
  /\ dial.at = "sending"
  /\ frames' = frames \cup {Frame}
  /\ dial' = [dial EXCEPT !.at = "waiting"]
  /\ UNCHANGED <<transport, tried, replies, replay_cache, opened>>

(* Nothing came in time, or the socket reported an error.                     *)
Unanswered ==
  /\ dial.at = "waiting"
  /\ dial' = IF dial.attempt + 1 < dial.limit
                 THEN [dial EXCEPT !.at = "sending", !.attempt = @ + 1]
               ELSE Fallback(FallbackAttempts)
  /\ UNCHANGED <<transport, tried, wire>>

(* The first datagram on the socket is the answer or ends the address.        *)
(* Mutant: whatever it is.                                                    *)
AnyDatagram(datagram) == TRUE
Validates(datagram) == datagram = Machine

Answered(datagram) ==
  /\ dial.at = "waiting"
  /\ dial' = IF Validates(datagram) THEN [dial EXCEPT !.at = "done"] ELSE OnWithNext
  /\ UNCHANGED <<transport, tried, wire>>

FromServer == \E a \in replies : a.socket = Socket /\ Answered(a.machine)
FromElsewhere == Answered(<<0, <<>>>>)

(* The session ends and the bridge connects again.                            *)
Gone ==
  /\ dial.at = "done"
  /\ dial' = [dial EXCEPT !.at = "idle"]
  /\ UNCHANGED <<transport, tried, wire>>

--------------------------------------------------------------------------------
(* The server.                                                                *)

(* Mutant: a handshake is known by its datagram instead of its payload.       *)
UnseenFrame(f) == [payload |-> f.payload, machine |-> f.machine] \notin opened
Unseen(f) == f.payload \notin replay_cache

Accept(f) ==
  /\ Unseen(f)
  /\ replay_cache' = replay_cache \cup {f.payload}
  /\ opened' = opened \cup {[payload |-> f.payload, machine |-> f.machine]}
  /\ replies' = replies \cup {[machine |-> f.machine, socket |-> f.socket]}
  /\ UNCHANGED <<transport, dial, tried, frames>>

(* The user is over its limit: the payload is remembered all the same.        *)
Refuse(f) ==
  /\ Unseen(f)
  /\ replay_cache' = replay_cache \cup {f.payload}
  /\ UNCHANGED <<transport, dial, tried, frames, replies, opened>>

Next ==
  \/ Start \/ Opened \/ OpenFails \/ Send \/ Unanswered \/ FromServer \/ FromElsewhere \/ Gone
  \/ \E f \in frames : Accept(f) \/ Refuse(f)

Spec == Init /\ [][Next]_handshake

--------------------------------------------------------------------------------
TypeOK ==
  /\ dial.at \in {"idle", "opening", "sending", "waiting", "done", "failed"}
  /\ dial.call \in Calls \cup {0}
  /\ replay_cache \subseteq Calls

(* A client that reports a session shares its keys with one of the server.    *)
Agreement == dial.at = "done" => [payload |-> dial.call, machine |-> Machine] \in opened

(* However many addresses, copies and repeats a call sends, and however late  *)
(* they come, the server opens one session for it at most: what a lost answer *)
(* leaves behind is one session, not one for each address.                    *)
OneSessionPerCall == \A s, t \in opened : s.payload = t.payload => s = t

(* No IPv6 address is waited for before the IPv4 addresses, and NAT64 is      *)
(* tried once in a call.                                                      *)
InOrder ==
  \A i, j \in DOMAIN tried : i < j /\ tried[i].call = tried[j].call =>
    /\ IsV4(tried[j].addr) => IsV4(tried[i].addr)
    /\ ~(tried[i].via = "nat64" /\ tried[j].via = "nat64")

(* A handshake ends in one session of both sides, or in none of the client,   *)
(* after no more waiting than the order of the addresses allows.              *)
HandshakeSound == Agreement /\ OneSessionPerCall /\ InOrder
================================================================================
