------------------------------- MODULE MCServer --------------------------------
(* The parts of the server that share no state, side by side: every behaviour *)
(* is one of one part, chosen in the initial state.                           *)
EXTENDS ServerParts

VARIABLES part,
  hello, sent_data, peer_machines, last_addr, idle, closed, highest, addr_to_session,
  replay_cache, roaming_tokens, trial_tokens, user_keys, connections, traffic, age, accepted,
  evicted

(* Sockets of both families, with and without a scope of their own.           *)
Sockets ==
  <<[family |-> 4, scope |-> "loopback"], [family |-> 4, scope |-> "public"],
    [family |-> 6, scope |-> "any"]>>

UdpAddresses ==
  {[family |-> 4, loopback |-> TRUE, mapped |-> FALSE],
   [family |-> 4, loopback |-> FALSE, mapped |-> FALSE],
   [family |-> 6, loopback |-> FALSE, mapped |-> FALSE],
   [family |-> 6, loopback |-> FALSE, mapped |-> TRUE]}

(* A bare listener, one with TLS and the https port.                          *)
Ports ==
  {[required |-> FALSE, tls |-> FALSE, decoy |-> "NotFound", panel |-> FALSE, subscription |-> TRUE],
   [required |-> FALSE, tls |-> TRUE, decoy |-> "Proxy", panel |-> FALSE, subscription |-> TRUE],
   [required |-> TRUE, tls |-> TRUE, decoy |-> "Proxy", panel |-> TRUE, subscription |-> TRUE]}

Edit(op, user, meta) == [op |-> op, user |-> user, meta |-> meta]

EditPlans ==
  {{Edit("create", "b", "limited"), Edit("panel", "a", "free"), Edit("add", "b", "free")},
   {Edit("update", "a", "limited"), Edit("dns", "a", "free"), Edit("remove", "a", "free")},
   {Edit("bulk", "b", "limited"), Edit("delete", "a", "absent")},
   {Edit("config", "a", "free"), Edit("update", "a", "limited"), Edit("rename", "a", "free")},
   {Edit("rules", "a", "free"), Edit("dns", "a", "free"), Edit("panel", "a", "free")}}

Users == INSTANCE Dispatcher WITH
  Sids <- {"s1", "s2"}, Keys <- {"alice", "bob"}, Addrs <- {"a1"}, None <- "none",
  KeyOf <- [s \in {"s1", "s2"} |-> IF s = "s1" THEN "alice" ELSE "bob"],
  MaxSessions <- 1, DriftLimit <- 1, SessionTimeout <- 1, ReplayCacheMax <- 1, RoamingBurst <- 1,
  TrialBurst <- 1, TrafficLimit <- 1, SendMax <- 1, Limited <- {"alice"}, Administered <- {"alice"},
  sent <- sent_data, access_keys <- user_keys

usersVars == <<hello, sent_data, peer_machines, last_addr, idle, closed, highest, addr_to_session,
  replay_cache, roaming_tokens, trial_tokens, user_keys, connections, traffic, age, accepted,
  evicted>>
vars == <<part, repliesVars, frontVars, settingsVars, relayVars, certVars, usersVars, carrier>>

Parts == {"replies", "front", "settings", "udp relay", "tcp relay", "certificates", "users",
  "carrier"}

(* A part that does not run stays in one initial state of its own.            *)
Init ==
  /\ part \in Parts
  /\ PartsInit
  /\ part # "settings" =>
       plan = {Edit("bulk", "b", "limited"), Edit("delete", "a", "absent")} /\ ~file.comments
  /\ part \notin {"udp relay", "tcp relay"} =>
       DOMAIN task = {"a"}
  /\ Users!Init
  /\ part # "carrier" =>
       wrap = "plain" /\ peer = "server"

Next ==
  /\ UNCHANGED part
  /\ \/ /\ part = "replies" /\ Replies!Next
        /\ UNCHANGED <<frontVars, settingsVars, relayVars, certVars, usersVars, carrier>>
     \/ /\ part = "front" /\ Front!Next
        /\ UNCHANGED <<repliesVars, settingsVars, relayVars, certVars, usersVars, carrier>>
     \/ /\ part = "settings" /\ Config!Next
        /\ UNCHANGED <<repliesVars, frontVars, relayVars, certVars, usersVars, carrier>>
     \/ /\ part = "udp relay" /\ Relay!UdpNext
        /\ UNCHANGED <<repliesVars, frontVars, settingsVars, certVars, usersVars, carrier>>
     \/ /\ part = "tcp relay" /\ Relay!TcpNext
        /\ UNCHANGED <<repliesVars, frontVars, settingsVars, certVars, usersVars, carrier>>
     \/ /\ part = "certificates" /\ Certs!Next
        /\ UNCHANGED <<repliesVars, frontVars, settingsVars, relayVars, usersVars, carrier>>
     \/ /\ part = "users" /\ Users!Next
        /\ UNCHANGED <<repliesVars, frontVars, settingsVars, relayVars, certVars, carrier>>
     \/ /\ part = "carrier" /\ Uot!Next
        /\ UNCHANGED <<repliesVars, frontVars, settingsVars, relayVars, certVars, usersVars>>

(* The fairness of each part, in the behaviours where it runs.                *)
Fairness ==
  /\ \A c \in {1, 2} : /\ WF_frontVars(part = "front" /\ Front!Expire(c))
                       /\ WF_frontVars(part = "front" /\ Front!UotGone(c))
                       /\ WF_frontVars(part = "front" /\ Front!Deaf(c) /\ Front!UotEnds(c))
  /\ WF_settingsVars(part = "settings" /\ Config!Poll)
  /\ WF_settingsVars(part = "settings" /\ Config!ReadAgain)
  /\ WF_settingsVars(part = "settings" /\ Config!Apply)
  /\ WF_certVars(part = "certificates" /\ Certs!Watch)
  /\ \A r \in {"watch", "renewal"} : WF_certVars(part = "certificates" /\ Certs!Reloading(r))
  /\ WF_usersVars(part = "users" /\ Users!OnTick)
  /\ WF_usersVars(part = "users" /\ Users!Elapse)
  /\ WF_carrier(part = "carrier" /\ (Uot!WrapTls \/ Uot!HttpUpgrade \/ Uot!Fails \/ Uot!JunkFrames))
  /\ WF_carrier(part = "carrier" /\ (Uot!Write \/ Uot!WriteRest \/ Uot!WriteFails \/ Uot!Shutdown))
  /\ WF_carrier(part = "carrier" /\ (Uot!TakeFrame \/ Uot!Read \/ Uot!ReadEnds \/ Uot!ReaderLetsGo))
  /\ WF_carrier(part = "carrier" /\ (Uot!ServerWrite \/ Uot!ServerWriteFails))
  /\ WF_carrier(part = "carrier" /\ (Uot!ServerRead \/ Uot!ServerTakes \/ Uot!ServerReadEnds))

Spec == Init /\ [][Next]_vars /\ Fairness

(* TcpFront, UotCarrier: no connection stays open that cannot be answered, and*)
(* a carrier that the client dropped ends on both sides.                      *)
ConnectionsEnd ==
  /\ part = "front" => Front!NoDeafConnection
  /\ part = "carrier" => Uot!DroppedCarrierEnds

(* Dispatcher: a session is not kept for a client that is gone, and whatever  *)
(* the management API does, a user is never shown more sessions than it has.  *)
DeadSessionsReleased ==
  /\ part = "users" => Users!DeadSessionsReleased
  /\ [](part = "users" => Users!NeverOvercounted)

(* The variables of every part have their types.                              *)
TypeOK ==
  /\ part = "replies" => Replies!TypeOK
  /\ part = "front" => Front!TypeOK
  /\ part = "settings" => Config!TypeOK
  /\ part \in {"udp relay", "tcp relay"} => Relay!TypeOK
  /\ part = "certificates" => Certs!TypeOK
  /\ part = "users" => Users!TypeOK
  /\ part = "carrier" => Uot!TypeOK

(* Settings, Certificates: the users of the file and a renewed pair are those *)
(* the server ends up with.                                                   *)
WhatIsOnDiskIsServed ==
  /\ part = "settings" => Config!Settles
  /\ part = "certificates" => Certs!PickedUp
================================================================================
