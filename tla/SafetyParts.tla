------------------------------ MODULE SafetyParts ------------------------------
(* Ten parts that share no state, side by side: the reassembly of             *)
(* fragments, the handshake, the congestion controller of a sender, the       *)
(* traffic counters, the DNS resolver, its activity file, the way out of the  *)
(* server, its front ends, the configuration file and the web server in       *)
(* front.  A step of the whole is a step of one of them.                      *)
EXTENDS Naturals

CONSTANTS
  Keys, Datagrams, Layouts, ReasmTimeout, SweepEvery, MaxGroups, MaxUnits, MinReuse, \* Reassembly
  Calls, Resolved, Attempts, FallbackAttempts,                                       \* Handshake
  Mtu, InitialPackets, MinPackets, MaxPackets, Admitted, InitialRtt, MinRttExpiry,   \* Congestion
  LossTolerance, LossWindow, BurstTicks, MaxFrames, MaxAge, MaxEvents,
  Users, MaxBytes,                                                                   \* Traffic
  DnsNames, Targets, LocalNames, Applied, Lists, DnsClients, MaxAsked, MaxApplies, MaxUpdates, \* Dns
  Recorders, MaxRecorded, MaxCleared,                                                \* DnsActivity
  HostNames, Ips, Loopback, Outbounds, Candidates, MaxTcp, MaxUdp, MaxPut,           \* Egress
  Sections,                                                                          \* Frontends
  OldFiles, NewKeys, MaxCommands,                                                    \* ConfigFile
  Machines, SiteLayouts, Domains, OldDomain, SitePaths, MaxInstalls                  \* WebServer

VARIABLES
  groups, since_sweep, forwarded, sending,
  transport, dial, tried, frames, replies, replay_cache, opened,
  cwnd, ssthresh, cc_phase, min_rtt, min_age, srtt, losses, loss_age, tokens, refill_age,
  sent_history, reports, isolated, sampled, released, allowed, events,
  process, keys, user_stats, inodes, file, tmp, writers, promised, spoiled,
  settings, rewrites, filter, cache, list_file, fresh, apply, update, began, mingled, asked,
  query, in_force,
  total, log, dirty, recorded, recording, entry, writing, body, counters_tmp, saved, cleared,
  crowded,
  outbound, puts, tcp, begun, udp, sent, arrived, answers, left,
  cfg, startup, cert, acceptor, held, queue, api, renewing,
  config_file, backup, fallback, unit, command, noted, known, replaced, unsafe, accepted, edits,
  installed, layout, config, certs, disk, serving, manifest, job, told, before, killed, installs

Fragments == INSTANCE Reassembly

Hs == INSTANCE Handshake

Cc == INSTANCE Congestion WITH phase <- cc_phase, frames <- sent_history

Bytes == INSTANCE Traffic

Resolver == INSTANCE Dns WITH Names <- DnsNames, Clients <- DnsClients

Activity == INSTANCE DnsActivity WITH tmp <- counters_tmp

Out == INSTANCE Egress WITH
  Names <- HostNames, Configs <- Outbounds, config <- outbound, replies <- answers

Fronting == INSTANCE Frontends WITH Configs <- Sections, phase <- startup

Store == INSTANCE ConfigFile WITH file <- config_file, commands <- edits

Sites == INSTANCE WebServer WITH
  Layouts <- SiteLayouts, Routes <- SitePaths, MaxCommands <- MaxInstalls, commands <- installs

(* The constants are those of real instances.                                 *)
ASSUME SafetyAssumption ==
  /\ Fragments!Valid /\ Hs!Valid /\ Cc!Valid /\ Resolver!Valid /\ Out!Valid
  /\ Fronting!Valid /\ Store!Valid /\ Sites!Valid

reassembly == <<groups, since_sweep, forwarded, sending>>
handshake == <<transport, dial, tried, frames, replies, replay_cache, opened>>
congestion == <<cwnd, ssthresh, cc_phase, min_rtt, min_age, srtt, losses, loss_age, tokens,
  refill_age, sent_history, reports, isolated, sampled, released, allowed, events>>
traffic == <<process, keys, user_stats, inodes, file, tmp, writers, promised, spoiled>>
resolverVars == <<settings, rewrites, filter, cache, list_file, fresh, apply, update, began,
  mingled, asked, query, in_force>>
activityVars == <<total, log, dirty, recorded, recording, entry, writing, body, counters_tmp,
  saved, cleared, crowded>>
egressVars == <<outbound, puts, tcp, begun, udp, sent, arrived, answers, left>>
exitVars == <<resolverVars, activityVars, egressVars>>
frontends == <<cfg, startup, cert, acceptor, held, queue, api, renewing>>
configFiles == <<config_file, backup, fallback, unit, command, noted, known, replaced, unsafe,
  accepted, edits>>
web == <<installed, layout, config, certs, disk, serving, manifest, job, told, before, killed,
  installs>>
partsVars == <<reassembly, handshake, congestion, traffic, exitVars, frontends, configFiles, web>>

PartsInit ==
  /\ Fragments!Init /\ Hs!Init /\ Cc!Init /\ Bytes!Init
  /\ Resolver!Init /\ Activity!Init /\ Out!Init /\ Fronting!Init /\ Store!Init
  /\ Sites!Init

PartsNext ==
  \/ Fragments!Next /\ UNCHANGED <<handshake, congestion, traffic, exitVars, frontends, configFiles, web>>
  \/ Hs!Next /\ UNCHANGED <<reassembly, congestion, traffic, exitVars, frontends, configFiles, web>>
  \/ Cc!Next /\ UNCHANGED <<reassembly, handshake, traffic, exitVars, frontends, configFiles, web>>
  \/ Bytes!Next /\ UNCHANGED <<reassembly, handshake, congestion, exitVars, frontends, configFiles, web>>
  \/ Fronting!Next /\ UNCHANGED <<reassembly, handshake, congestion, traffic, exitVars, configFiles, web>>
  \/ Store!Next /\ UNCHANGED <<reassembly, handshake, congestion, traffic, exitVars, frontends, web>>
  \/ Sites!Next /\ UNCHANGED <<reassembly, handshake, congestion, traffic, exitVars, frontends, configFiles>>
  \/ /\ UNCHANGED <<reassembly, handshake, congestion, traffic, frontends, configFiles, web>>
     /\ \/ Resolver!Next /\ UNCHANGED <<activityVars, egressVars>>
        \/ Activity!Next /\ UNCHANGED <<resolverVars, egressVars>>
        \/ Out!Next /\ UNCHANGED <<resolverVars, activityVars>>

PartsSpec == PartsInit /\ [][PartsNext]_partsVars

--------------------------------------------------------------------------------
(* Reassembly: datagrams come out whole.                                      *)
DatagramsWhole == Fragments!DatagramsWhole

(* Handshake: one session of both sides, or none of the client.               *)
HandshakeSound == Hs!HandshakeSound

(* Congestion: the window, slow start, the samples and the pace.              *)
CongestionSound == Cc!CongestionSound

(* Traffic: what was counted survives restarts.                               *)
TrafficSound == Bytes!TrafficSound

(* Dns, DnsActivity, Egress: answers follow rules that were in force, what    *)
(* was counted reaches the file, and targets are reached the way their rule   *)
(* says.                                                                      *)
ExitSound == Resolver!DnsSound /\ Activity!CountersSaved /\ Out!EgressSound

(* Frontends: links lead where they say, challenges are answered, and nothing *)
(* goes out in the clear.                                                     *)
FrontendsSound == Fronting!FrontendsSound

(* ConfigFile: the configuration survives its commands, and a migration says  *)
(* what goes.                                                                 *)
ConfigSound == Store!ConfigSound

(* WebServer: a web server gets its site whole, or nothing, and nothing is    *)
(* forgotten.                                                                 *)
SiteSound == Sites!SiteSound
================================================================================
