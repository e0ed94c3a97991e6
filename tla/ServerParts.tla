------------------------------ MODULE ServerParts ------------------------------
(* Six parts of the server that share no state, side by side: the sockets     *)
(* that answer UDP clients, the TCP front, a carrier of datagrams over TCP,   *)
(* the relay node, the certificates and the settings.  A step of the whole is *)
(* a step of one of them.                                                     *)
EXTENDS Naturals

CONSTANTS
  Locals, UdpClients, MaxRemembered,                                \* UdpReplies
  Conns, Addresses, Loopback, Clients, FrontListeners, MaxConns, MaxPending, \* TcpFront
  Listeners, Peers, RelayConns, MaxSessions, MaxTcp, Burst, MaxOpened,       \* RelayNode
  MaxUp, MaxDown,                                                   \* UotCarrier
  MaxIssued,                                                        \* Certificates
  EditUsers, Plans                                                  \* Settings

VARIABLES
  reply_via, heard,
  stage, from, port, via_tls, permits, charged, windows, tcp_map,
  sessions, quiet, task, sockets, opened, tokens, live, conn,
  cert_file, key_file, issued, due, lock_file, stale, broke, at, tries, challenges, answers,
  resolver, current, loaded, reloading, overlapped,
  plan, access_keys, user_stats, dns_memory, file, mtime, last_mtime, reload, content, running,
  phase, held, crossed,
  wrap, peer, uot_stage, handle, given, tx_out, writer, reader, acc, tx_in, got, note, up, down,
  up_end, down_end, server, queue, answered, rx, delivered

Replies == INSTANCE UdpReplies WITH Clients <- UdpClients

Front == INSTANCE TcpFront WITH Listeners <- FrontListeners

Uot == INSTANCE UotCarrier WITH stage <- uot_stage

Relay == INSTANCE RelayNode WITH Conns <- RelayConns

Certs == INSTANCE Certificates

Config == INSTANCE Settings WITH Users <- EditUsers

(* The constants are those of real instances.                                 *)
ASSUME ServerAssumption ==
  Replies!Valid /\ Front!Valid /\ Uot!Valid /\ Relay!Valid /\ Certs!Valid /\ Config!Valid

repliesVars == <<reply_via, heard>>
frontVars == <<stage, from, port, via_tls, permits, charged, windows, tcp_map>>
relayVars == <<sessions, quiet, task, sockets, opened, tokens, live, conn>>
certVars == <<cert_file, key_file, issued, due, lock_file, stale, broke, at, tries, challenges,
  answers, resolver, current, loaded, reloading, overlapped>>
settingsVars == <<plan, access_keys, user_stats, dns_memory, file, mtime, last_mtime, reload,
  content, running, phase, held, crossed>>
carrier == <<wrap, peer, uot_stage, handle, given, tx_out, writer, reader, acc, tx_in, got, note,
  up, down, up_end, down_end, server, queue, answered, rx, delivered>>
partsVars == <<repliesVars, frontVars, carrier, relayVars, certVars, settingsVars>>

PartsInit ==
  Replies!Init /\ Front!Init /\ Uot!Init /\ Relay!Init /\ Certs!Init /\ Config!Init

PartsNext ==
  \/ Replies!Next /\ UNCHANGED <<frontVars, carrier, relayVars, certVars, settingsVars>>
  \/ Front!Next /\ UNCHANGED <<repliesVars, carrier, relayVars, certVars, settingsVars>>
  \/ Uot!Next /\ UNCHANGED <<repliesVars, frontVars, relayVars, certVars, settingsVars>>
  \/ Relay!Next /\ UNCHANGED <<repliesVars, frontVars, carrier, certVars, settingsVars>>
  \/ Certs!Next /\ UNCHANGED <<repliesVars, frontVars, carrier, relayVars, settingsVars>>
  \/ Config!Next /\ UNCHANGED <<repliesVars, frontVars, carrier, relayVars, certVars>>

PartsSpec == PartsInit /\ [][PartsNext]_partsVars

--------------------------------------------------------------------------------
(* RelayNode: the table of the relay answers its clients and is bounded, and  *)
(* the count of TCP connections is that of those it serves.                   *)
RelaySound == Relay!RelaySound

(* Certificates: one renewal, answered challenges, pairs.                     *)
CertificatesSound == Certs!CertificatesSound

(* UdpReplies, TcpFront: a UDP client is answered through a socket that       *)
(* reaches it, and the TCP front keeps its permits, its table, its counts and *)
(* its privacy.                                                               *)
TransportsSound == Replies!RepliesReach /\ Front!FrontSound

(* UotCarrier: frames whole and in order, and only foreign bytes are called   *)
(* foreign.                                                                   *)
CarrierSound == Uot!CarrierSound

(* Settings: the file keeps every edit that met no other, and nothing is made *)
(* up of half a file.                                                         *)
EditsKept == Config!EditsKept
================================================================================
