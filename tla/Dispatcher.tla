------------------------------ MODULE Dispatcher ------------------------------
(***************************************************************************)
(* The session table of ostp-server/src/dispatcher.rs: which datagram      *)
(* belongs to which session, which address a session is on, how a          *)
(* handshake becomes a session once and only once, and how a session ends. *)
(*                                                                         *)
(* A session is named by its 32-bit id, drawn at random by the client for  *)
(* each handshake: one id is one handshake payload, and two handshakes     *)
(* never draw the same id (an assumption of this model).  The clients are  *)
(* external: each sends one handshake and then numbered datagrams, from    *)
(* any address, and the network delivers each of them at any later time,   *)
(* any number of times, or never; what it cannot do is change the address  *)
(* a datagram comes from.  The session's ProtocolMachine is the one of Arq *)
(* and keeps here only the highest nonce it authenticated and whether the  *)
(* client's Close reached it.  Time passes in units of which a handshake   *)
(* lives DriftLimit and a silent session SessionTimeout; ages saturate.    *)
(***************************************************************************)
EXTENDS Naturals, Sequences, FiniteSets

CONSTANTS
  Sids, Keys, Addrs, None,
  KeyOf,                 \* the access key the client of each session id holds
  MaxSessions,           \* MAX_SESSIONS
  DriftLimit,            \* 300 s
  SessionTimeout,        \* 600 s
  ReplayCacheMax,        \* REPLAY_CACHE_MAX
  RoamingBurst,          \* ceiling of roaming_tokens
  TrialBurst,            \* TRIAL_RATE, ceiling of trial_tokens
  TrafficLimit,          \* limit_bytes, in datagrams
  SendMax,               \* bound: datagrams each client sends
  Limited,               \* the keys that have a traffic limit
  Administered           \* the keys the management API acts on

ASSUME SessionsAssumption == /\ KeyOf \in [Sids -> Keys]
                             /\ None \notin Sids \cup Addrs
                             /\ Limited \subseteq Keys /\ Administered \subseteq Keys
ASSUME BoundsAssumption ==
  /\ {MaxSessions, ReplayCacheMax, RoamingBurst, TrialBurst, TrafficLimit} \subseteq Nat \ {0}
  /\ DriftLimit \in Nat /\ SessionTimeout \in Nat /\ SendMax \in Nat

VARIABLES
  \* the clients and the network
  hello,            \* the address the handshake of a session id is sent from, or None
  sent,             \* the data datagrams a client sent: address, and whether it is a Close
  \* the dispatcher
  peer_machines,    \* the ids of the sessions that exist
  last_addr, idle, closed, highest,   \* their PeerState; idle is the time since last_seen
  addr_to_session,
  replay_cache,
  roaming_tokens, trial_tokens,
  access_keys, connections, traffic,  \* shared with the management API
  \* the clock, and history
  age,              \* time since the timestamp of a handshake
  accepted,         \* how often a handshake was accepted
  evicted           \* the replay cache overflowed once

clientVars == <<hello, sent>>
peerVars   == <<last_addr, idle, closed, highest>>
tableVars  == <<peer_machines, peerVars, addr_to_session>>
tokenVars  == <<roaming_tokens, trial_tokens>>
userVars   == <<access_keys, connections, traffic>>
cacheVars  == <<replay_cache, age, accepted, evicted>>
vars == <<clientVars, tableVars, tokenVars, userVars, cacheVars>>

--------------------------------------------------------------------------------

Min2(a, b) == IF a < b THEN a ELSE b
Less(n) == IF n = 0 THEN 0 ELSE n - 1

KeyValid(s) == KeyOf[s] \in access_keys
OverLimit(k) == k \in Limited /\ traffic[k] >= TrafficLimit
SessionsOf(k) == {s \in peer_machines : KeyOf[s] = k}

(* What on_tick looks for, and on_datagram in the session it found.           *)
Doomed(s) == closed[s] \/ idle[s] > SessionTimeout \/ ~KeyValid(s) \/ OverLimit(KeyOf[s])

(* Mutant: sessions are never released for being silent.                      *)
ExpiredNeverIdle == {s \in peer_machines : closed[s] \/ ~KeyValid(s) \/ OverLimit(KeyOf[s])}

Expired == {s \in peer_machines : Doomed(s)}

Init ==
  /\ hello = [s \in Sids |-> None]
  /\ sent = [s \in Sids |-> <<>>]
  /\ peer_machines = {}
  /\ last_addr = [s \in Sids |-> None]
  /\ idle = [s \in Sids |-> 0]
  /\ closed = [s \in Sids |-> FALSE]
  /\ highest = [s \in Sids |-> 0]
  /\ addr_to_session = [a \in Addrs |-> None]
  /\ replay_cache = {}
  /\ roaming_tokens = RoamingBurst
  /\ trial_tokens = TrialBurst
  /\ access_keys = Keys
  /\ connections = [k \in Keys |-> 0]
  /\ traffic = [k \in Keys |-> 0]
  /\ age = [s \in Sids |-> 0]
  /\ accepted = [s \in Sids |-> 0]
  /\ evicted = FALSE

--------------------------------------------------------------------------------
(* The clients.                                                               *)

SendHandshake(s, a) ==
  /\ hello[s] = None
  /\ hello' = [hello EXCEPT ![s] = a]
  /\ UNCHANGED <<sent, tableVars, tokenVars, userVars, cacheVars>>

(* A client whose handshake was answered sends, from wherever it is; its      *)
(* Close is its last datagram.                                                *)
SendData(s, a, isClose) ==
  /\ accepted[s] > 0
  /\ Len(sent[s]) < SendMax
  /\ \A n \in DOMAIN sent[s] : ~sent[s][n].isClose
  /\ sent' = [sent EXCEPT ![s] = Append(@, [from |-> a, isClose |-> isClose])]
  /\ UNCHANGED <<hello, tableVars, tokenVars, userVars, cacheVars>>

--------------------------------------------------------------------------------
(* The server.                                                                *)

(* drop_session for every session of D: each leaves the table, takes its      *)
(* address out of the index, whoever the index names there, and one           *)
(* connection off its user's count.                                           *)
(* Mutant: the address stays in the index.                                    *)
DropKeepsAddress(D) ==
  /\ peer_machines' = peer_machines \ D
  /\ addr_to_session' = addr_to_session
  /\ connections' = [k \in Keys |->
       LET gone == Cardinality({s \in D : KeyOf[s] = k})
       IN  IF gone > connections[k] THEN 0 ELSE connections[k] - gone]

(* Mutant: the connection count is left alone.                                *)
DropUncounted(D) ==
  /\ peer_machines' = peer_machines \ D
  /\ addr_to_session' = [a \in Addrs |->
       IF \E s \in D : last_addr[s] = a THEN None ELSE addr_to_session[a]]
  /\ connections' = connections

Drop(D) ==
  /\ peer_machines' = peer_machines \ D
  /\ addr_to_session' = [a \in Addrs |->
       IF \E s \in D : last_addr[s] = a THEN None ELSE addr_to_session[a]]
  /\ connections' = [k \in Keys |->
       LET gone == Cardinality({s \in D : KeyOf[s] = k})
       IN  IF gone > connections[k] THEN 0 ELSE connections[k] - gone]

(* The fast path: the index names s for this address and the header, read     *)
(* with the key of s, names s.                                                *)
Indexed(a, s) == s \in peer_machines /\ addr_to_session[a] = s

(* The session a data datagram of s from a is taken for: s, or none.  Off the *)
(* fast path every existing session is tried, at the cost of a token.         *)
Recognised(a, s) == s \in peer_machines /\ (addr_to_session[a] = s \/ roaming_tokens > 0)
ChargeRoaming(a, s) == roaming_tokens' = IF Indexed(a, s) THEN roaming_tokens
                                                          ELSE Less(roaming_tokens)

(* The address moves with a datagram that raised the highest nonce the        *)
(* machine authenticated.                                                     *)
Raises(s, n) == ~closed[s] /\ n > highest[s]

(* Mutant: it moves with any datagram.                                        *)
MoveAlways(s, a, n) ==
  IF last_addr[s] # a /\ ~closed[s]
  THEN /\ last_addr' = [last_addr EXCEPT ![s] = a]
       /\ addr_to_session' = [addr_to_session EXCEPT ![last_addr[s]] = None, ![a] = s]
  ELSE UNCHANGED <<last_addr, addr_to_session>>

MoveAddress(s, a, n) ==
  IF last_addr[s] # a /\ Raises(s, n)
  THEN /\ last_addr' = [last_addr EXCEPT ![s] = a]
       /\ addr_to_session' = [addr_to_session EXCEPT ![last_addr[s]] = None, ![a] = s]
  ELSE UNCHANGED <<last_addr, addr_to_session>>

(* The bytes of k grow by one datagram; past the limit the count does not     *)
(* matter.                                                                    *)
Count(k) == traffic' = [traffic EXCEPT ![k] = IF k \in Limited THEN Min2(@ + 1, TrafficLimit) ELSE @]

(* on_datagram, for the n-th datagram of an existing session.                 *)
SessionDatagram(s, n) ==
  LET a == sent[s][n].from IN
  /\ Recognised(a, s)
  /\ ChargeRoaming(a, s)
  /\ IF ~KeyValid(s) \/ OverLimit(KeyOf[s])
     THEN /\ Drop({s})
          /\ UNCHANGED <<peerVars, traffic>>
     ELSE /\ Count(KeyOf[s])
          /\ MoveAddress(s, a, n)
          /\ highest' = [highest EXCEPT ![s] = IF Raises(s, n) THEN n ELSE @]
          /\ closed' = [closed EXCEPT ![s] = @ \/ sent[s][n].isClose]
          /\ idle' = [idle EXCEPT ![s] = IF last_addr'[s] = a THEN 0 ELSE @]
          /\ UNCHANGED <<peer_machines, connections>>
  /\ UNCHANGED <<clientVars, trial_tokens, access_keys, cacheVars>>

(* on_datagram, for a datagram no session is recognised in: it is tried as a  *)
(* handshake with every key, and is none.                                     *)
TriedInVain ==
  /\ roaming_tokens' = Less(roaming_tokens)
  /\ trial_tokens' = Less(trial_tokens)
  /\ UNCHANGED <<clientVars, tableVars, userVars, cacheVars>>

UnrecognisedDatagram(s, n) == ~Recognised(sent[s][n].from, s) /\ TriedInVain

Stray == TriedInVain

(* A handshake is a candidate while its timestamp is within the drift and its *)
(* payload is not in the replay cache; the cache makes room when it is full.  *)
(* Mutant: one unit more of drift is tolerated than the cache remembers.      *)
FreshOneTooLong(s) == age[s] <= DriftLimit + 1 /\ s \notin replay_cache

Fresh(s) == age[s] <= DriftLimit /\ s \notin replay_cache

Retained == {s \in replay_cache : age[s] <= DriftLimit}
Room(cache) ==
  IF Cardinality(replay_cache) < ReplayCacheMax THEN cache = replay_cache
  ELSE IF Cardinality(Retained) < ReplayCacheMax THEN cache = Retained
  ELSE \E oldest \in Retained : /\ \A s \in Retained : age[s] <= age[oldest]
                                /\ cache = Retained \ {oldest}

(* Mutant: one session too many.                                              *)
TableOverfull == Cardinality(peer_machines) > MaxSessions

TableFull == Cardinality(peer_machines) >= MaxSessions

(* A handshake becomes a session on the address it came from.                 *)
Open(s) ==
  /\ peer_machines' = peer_machines \cup {s}
  /\ last_addr' = [last_addr EXCEPT ![s] = hello[s]]
  /\ idle' = [idle EXCEPT ![s] = 0]
  /\ closed' = [closed EXCEPT ![s] = FALSE]
  /\ highest' = [highest EXCEPT ![s] = 0]
  /\ addr_to_session' = [addr_to_session EXCEPT ![hello[s]] = s]
  /\ connections' = [connections EXCEPT ![KeyOf[s]] = @ + 1]
  /\ accepted' = [accepted EXCEPT ![s] = @ + 1]

(* on_datagram, for a handshake; bound: after its second acceptance it is not *)
(* delivered again.                                                           *)
Handshake(s) ==
  /\ hello[s] # None /\ accepted[s] < 2
  /\ roaming_tokens' = Less(roaming_tokens)
  /\ trial_tokens' = Less(trial_tokens)
  /\ IF trial_tokens > 0 /\ KeyValid(s) /\ Fresh(s)
     THEN \E cache \in SUBSET replay_cache :
            /\ Room(cache)
            /\ evicted' = (evicted \/ Retained \ cache # {})
            /\ IF TableFull
               THEN replay_cache' = cache /\ UNCHANGED <<tableVars, connections, accepted>>
               ELSE /\ replay_cache' = cache \cup {s}
                    /\ IF OverLimit(KeyOf[s])
                       THEN UNCHANGED <<tableVars, connections, accepted>>
                       ELSE Open(s)
     ELSE UNCHANGED <<tableVars, connections, replay_cache, accepted, evicted>>
  /\ UNCHANGED <<clientVars, access_keys, traffic, age>>

(* outbound_to_session, which does not look at the limit.                     *)
OutboundToSession(s) ==
  /\ s \in peer_machines /\ ~closed[s]
  /\ Count(KeyOf[s])
  /\ UNCHANGED <<clientVars, tableVars, tokenVars, access_keys, connections, cacheVars>>

(* on_tick, without the retransmissions of the machines that stay.            *)
OnTick ==
  /\ replay_cache' = Retained
  /\ Drop(Expired)
  /\ UNCHANGED <<clientVars, peerVars, tokenVars, access_keys, traffic, age, accepted, evicted>>

--------------------------------------------------------------------------------
(* The management API and the clock.                                          *)

Forget(k) == /\ connections' = [connections EXCEPT ![k] = 0]
             /\ traffic' = [traffic EXCEPT ![k] = 0]
             /\ UNCHANGED <<clientVars, tableVars, tokenVars, cacheVars>>

DeleteUser(k) == k \in access_keys /\ access_keys' = access_keys \ {k} /\ Forget(k)
CreateUser(k) == k \notin access_keys /\ access_keys' = access_keys \cup {k} /\ Forget(k)
ResetStats(k) == k \in access_keys /\ access_keys' = access_keys /\ Forget(k)

(* A token is regenerated long before a unit of time has passed.              *)
Regenerate ==
  /\ roaming_tokens' = Min2(roaming_tokens + 1, RoamingBurst)
  /\ trial_tokens' = Min2(trial_tokens + 1, TrialBurst)
  /\ UNCHANGED <<clientVars, tableVars, userVars, cacheVars>>

Elapse ==
  /\ age' = [s \in Sids |-> IF hello[s] = None THEN 0 ELSE Min2(age[s] + 1, DriftLimit + 2)]
  /\ idle' = [s \in Sids |-> IF s \in peer_machines THEN Min2(idle[s] + 1, SessionTimeout + 1)
                                                    ELSE idle[s]]
  /\ roaming_tokens' = RoamingBurst
  /\ trial_tokens' = TrialBurst
  /\ UNCHANGED <<clientVars, peer_machines, last_addr, closed, highest, addr_to_session,
                 userVars, replay_cache, accepted, evicted>>

Client == \E s \in Sids, a \in Addrs :
            SendHandshake(s, a) \/ \E isClose \in BOOLEAN : SendData(s, a, isClose)

OnDatagram == \/ \E s \in Sids : \/ Handshake(s)
                                 \/ \E n \in DOMAIN sent[s] : \/ SessionDatagram(s, n)
                                                              \/ UnrecognisedDatagram(s, n)
              \/ Stray

Admin == \E k \in Administered : DeleteUser(k) \/ CreateUser(k) \/ ResetStats(k)

Next == \/ Client
        \/ OnDatagram
        \/ \E s \in Sids : OutboundToSession(s)
        \/ OnTick
        \/ Admin
        \/ Regenerate \/ Elapse

Spec == Init /\ [][Next]_vars

(* The 10 ms tick of the server loop fires for ever, and time passes.         *)
FairSpec == Spec /\ WF_vars(OnTick) /\ WF_vars(Elapse)

--------------------------------------------------------------------------------
(* Properties.                                                                *)

(* The variables have their types, and the table its size limit.              *)
TypeOK ==
  /\ hello \in [Sids -> Addrs \cup {None}]
  /\ sent \in [Sids -> Seq([from : Addrs, isClose : BOOLEAN])]
  /\ peer_machines \subseteq Sids /\ Cardinality(peer_machines) <= MaxSessions
  /\ last_addr \in [Sids -> Addrs \cup {None}]
  /\ idle \in [Sids -> Nat] /\ highest \in [Sids -> Nat] /\ closed \in [Sids -> BOOLEAN]
  /\ addr_to_session \in [Addrs -> Sids \cup {None}]
  /\ replay_cache \subseteq Sids
  /\ roaming_tokens \in Nat /\ trial_tokens \in Nat
  /\ access_keys \subseteq Keys
  /\ connections \in [Keys -> Nat] /\ traffic \in [Keys -> Nat]
  /\ age \in [Sids -> Nat] /\ accepted \in [Sids -> 0..2] /\ evicted \in BOOLEAN

(* The address index never leads astray: an address it names a session for is *)
(* the address that session is on, whatever the order of handshakes, moves    *)
(* and ends that used the address (addr_to_session against peer_machines).    *)
(* A handshake accepted twice while its session lives, which takes an         *)
(* overflow of the replay cache, can leave a stale entry.                     *)
IndexSound ==
  evicted \/ \A a \in Addrs : addr_to_session[a] # None =>
    /\ addr_to_session[a] \in peer_machines
    /\ last_addr[addr_to_session[a]] = a

(* A session answers to the address its client sent the newest datagram from  *)
(* of those that arrived: late and repeated datagrams of an older path do not *)
(* turn it back.                                                              *)
NewestPathWins ==
  \A s \in peer_machines :
    last_addr[s] = IF highest[s] = 0 THEN hello[s] ELSE sent[s][highest[s]].from

(* A handshake payload opens one session in its life, however often the       *)
(* network repeats it and whatever happened to the session it opened: the     *)
(* drift limit and the purge of the replay cache leave no moment between      *)
(* them.  Only an overflow of the cache can break this.                       *)
OneSessionPerHandshake == evicted \/ \A s \in Sids : accepted[s] <= 1

(* "connections" of a user is the number of its sessions alive right now      *)
(* (UserStats); the sessions of a deleted user are dropped before they count. *)
ConnectionsCountSessions == \A k \in access_keys : connections[k] = Cardinality(SessionsOf(k))

(* What the management API leaves of it: a user is never shown more sessions  *)
(* than it has.  A session opened twice after an overflow of the cache counts *)
(* twice.                                                                     *)
NeverOvercounted == evicted \/ \A k \in Keys : connections[k] <= Cardinality(SessionsOf(k))

(* A session is not kept for a client that went away, closed it, lost its key *)
(* or used up its traffic: again and again, it is gone or fit to live.        *)
DeadSessionsReleased == \A s \in Sids : []<>(s \notin peer_machines \/ ~Doomed(s))

(* The only session on an address: its datagrams from there cost no trial     *)
(* token and are not taken for handshakes.  "Existing sessions (fast path     *)
(* above) and roaming are unaffected" by the gate on handshakes.              *)
Alone(s) == \A t \in peer_machines : last_addr[t] = last_addr[s] => t = s
TrialsAreForStrangers ==
  [][\A s \in peer_machines : \A n \in DOMAIN sent[s] :
       sent[s][n].from = last_addr[s] /\ Alone(s) => ~UnrecognisedDatagram(s, n)]_vars
================================================================================
