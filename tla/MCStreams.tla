------------------------------- MODULE MCStreams -------------------------------
(* Streams for as long as one session lasts: without what replaces, stops or  *)
(* drops it, and without applications that lose patience (MCSafety has them). *)
EXTENDS Streams

OneSession ==
  \/ \E c \in Streams :
       \/ Accept(c) \/ Request(c) \/ GiveUp(c) \/ ConnectResult(c)
       \/ LocalData(c) \/ LocalEnd(c) \/ Deliver(c) \/ Unlist(c)
  \/ ProxyLoop \/ BridgeSend \/ BridgeReceive
  \/ Relay
  \/ ServerStream \/ ServerConnect
  \/ \E s \in Sessions : ServerReceive(s)
  \/ \E D \in SUBSET Sessions, sendFails \in BOOLEAN : Tick(D, sendFails)

OneSessionSpec == Init /\ [][OneSession]_vars /\ Fairness
================================================================================
