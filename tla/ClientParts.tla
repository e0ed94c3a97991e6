------------------------------ MODULE ClientParts ------------------------------
(* Three parts of the client that share no state, side by side: the flows of  *)
(* the TUN device, the local proxy, and the runs with the routes they change. *)
(* A step of the whole is a step of one of them.                              *)
EXTENDS Naturals

CONSTANTS
  Sockets, Conns, Remotes, Programs, Choices, QueueMax,             \* TunFlows
  AllRuns, Defaults,                                                \* ClientRuns
  Scripts, HeaderMax, Datagrams                                     \* LocalProxy

VARIABLES
  matcher, owner, nat, session, left, lost, conn, target, out,
  setup, asked, core, told, task, tun, device, routes, later,
  script, said, inbox, entry, heard, tunnel, remote, connect, readers, sent

Flows == INSTANCE TunFlows

Runs == INSTANCE ClientRuns WITH Runs <- AllRuns

Lp == INSTANCE LocalProxy

(* The constants are those of real instances.                                 *)
ASSUME ClientAssumption == Flows!Valid /\ Runs!Valid /\ Lp!Valid

tunFlows == <<matcher, owner, nat, session, left, lost, conn, target, out>>
clientRuns == <<setup, asked, core, told, task, tun, device, routes, later>>
localProxy == <<script, said, inbox, entry, heard, tunnel, remote, connect, readers, sent>>
partsVars == <<tunFlows, clientRuns, localProxy>>

PartsInit == Flows!Init /\ Runs!Init /\ Lp!Init

PartsNext ==
  \/ Flows!Next /\ UNCHANGED <<clientRuns, localProxy>>
  \/ Runs!Next /\ UNCHANGED <<tunFlows, localProxy>>
  \/ Lp!Next /\ UNCHANGED <<tunFlows, clientRuns>>

PartsSpec == PartsInit /\ [][PartsNext]_partsVars

--------------------------------------------------------------------------------
(* TunFlows, LocalProxy: whatever an application sends, through the device or *)
(* to the proxy, goes the way of the exclusions, in order and from its first  *)
(* byte, and what it is told is true.                                         *)
FlowsSound == Flows!FlowsSound /\ Lp!ProxySound

(* ClientRuns: the routes of the machine.                                     *)
RoutesSound == Runs!RoutesSound
================================================================================
