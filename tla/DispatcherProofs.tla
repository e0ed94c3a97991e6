--------------------------- MODULE DispatcherProofs ---------------------------
(***************************************************************************)
(* Proofs about Dispatcher, for any number of sessions, addresses, keys    *)
(* and any size of the tables.                                             *)
(***************************************************************************)
EXTENDS Dispatcher, FiniteSetTheorems, TLAPS

Datagrams == [from : Addrs, isClose : BOOLEAN]

(* The part of TypeOK the proofs need.                                        *)
Typed ==
  /\ hello \in [Sids -> Addrs \cup {None}]
  /\ sent \in [Sids -> Seq(Datagrams)]
  /\ peer_machines \subseteq Sids
  /\ last_addr \in [Sids -> Addrs \cup {None}]
  /\ highest \in [Sids -> Nat]
  /\ addr_to_session \in [Addrs -> Sids \cup {None}]
  /\ replay_cache \subseteq Sids
  /\ age \in [Sids -> Nat] /\ accepted \in [Sids -> Nat] /\ evicted \in BOOLEAN

(* A datagram comes from an address.                                          *)
LEMMA FromIsAddress ==
  ASSUME Typed, NEW s \in Sids, NEW n \in DOMAIN sent[s]
  PROVE  sent[s][n].from \in Addrs /\ n \in Nat \ {0}
<1>1. sent[s] \in Seq(Datagrams)
  BY DEF Typed
<1>2. sent[s][n] \in Datagrams /\ n \in Nat \ {0}
  BY <1>1
<1> QED BY <1>2 DEF Datagrams

(* Types are kept: one step for each action.                                  *)
LEMMA TypedStep == Typed /\ [Next]_vars => Typed'
<1> SUFFICES ASSUME Typed, [Next]_vars PROVE Typed'
  OBVIOUS
<1> USE SessionsAssumption, BoundsAssumption
<1>1. ASSUME NEW s \in Sids, NEW a \in Addrs, SendHandshake(s, a) PROVE Typed'
  BY <1>1 DEF Typed, SendHandshake, tableVars, peerVars, cacheVars
<1>2. ASSUME NEW s \in Sids, NEW a \in Addrs, NEW c \in BOOLEAN, SendData(s, a, c) PROVE Typed'
  <2>1. sent' \in [Sids -> Seq(Datagrams)]
    <3>1. [from |-> a, isClose |-> c] \in Datagrams
      BY DEF Datagrams
    <3>2. sent[s] \in Seq(Datagrams)
      BY DEF Typed
    <3>3. Append(sent[s], [from |-> a, isClose |-> c]) \in Seq(Datagrams)
      BY <3>1, <3>2
    <3> QED BY <1>2, <3>3 DEF Typed, SendData
  <2> QED BY <1>2, <2>1 DEF Typed, SendData, tableVars, peerVars, cacheVars
<1>3. ASSUME NEW s \in Sids, Handshake(s) PROVE Typed'
  <2>1. hello' = hello /\ sent' = sent /\ age' = age
    BY <1>3 DEF Handshake, clientVars
  <2>2. CASE UNCHANGED <<tableVars, connections, replay_cache, accepted, evicted>>
    BY <2>1, <2>2 DEF Typed, tableVars, peerVars
  <2>3. ASSUME NEW cache \in SUBSET replay_cache,
               evicted' = (evicted \/ Retained \ cache # {}),
               TableFull, replay_cache' = cache, UNCHANGED <<tableVars, connections, accepted>>
        PROVE  Typed'
    BY <2>1, <2>3 DEF Typed, tableVars, peerVars
  <2>4. ASSUME NEW cache \in SUBSET replay_cache,
               evicted' = (evicted \/ Retained \ cache # {}),
               replay_cache' = cache \cup {s}, UNCHANGED <<tableVars, connections, accepted>>
        PROVE  Typed'
    BY <2>1, <2>4 DEF Typed, tableVars, peerVars
  <2>5. ASSUME NEW cache \in SUBSET replay_cache,
               evicted' = (evicted \/ Retained \ cache # {}),
               replay_cache' = cache \cup {s}, Open(s)
        PROVE  Typed'
    BY <1>3, <2>1, <2>5 DEF Typed, Open, Handshake
  <2> QED BY <1>3, <2>2, <2>3, <2>4, <2>5 DEF Handshake
<1>4. ASSUME NEW s \in Sids, NEW n \in DOMAIN sent[s], SessionDatagram(s, n) PROVE Typed'
  <2> DEFINE a == sent[s][n].from
  <2>1. a \in Addrs /\ n \in Nat
    BY FromIsAddress
  <2>2. UNCHANGED <<clientVars, cacheVars>> /\ s \in peer_machines
    BY <1>4 DEF SessionDatagram, Recognised
  <2>3. CASE ~KeyValid(s) \/ OverLimit(KeyOf[s])
    BY <1>4, <2>2, <2>3 DEF SessionDatagram, Drop, Typed, peerVars, clientVars, cacheVars
  <2>4. CASE ~(~KeyValid(s) \/ OverLimit(KeyOf[s]))
    <3>1. /\ MoveAddress(s, a, n)
          /\ highest' = [highest EXCEPT ![s] = IF Raises(s, n) THEN n ELSE @]
          /\ peer_machines' = peer_machines
      BY <1>4, <2>4 DEF SessionDatagram
    <3>2. last_addr' \in [Sids -> Addrs \cup {None}] /\ addr_to_session' \in [Addrs -> Sids \cup {None}]
      BY <2>1, <3>1 DEF MoveAddress, Typed
    <3> QED BY <2>1, <2>2, <3>1, <3>2 DEF Typed, clientVars, cacheVars
  <2> QED BY <2>3, <2>4
<1>5. CASE TriedInVain
  BY <1>5 DEF Typed, TriedInVain, clientVars, tableVars, peerVars, cacheVars
<1>6. ASSUME NEW s \in Sids, OutboundToSession(s) PROVE Typed'
  BY <1>6 DEF Typed, OutboundToSession, clientVars, tableVars, peerVars, cacheVars
<1>7. CASE OnTick
  BY <1>7 DEF Typed, OnTick, Drop, Retained, clientVars, peerVars
<1>8. ASSUME NEW k \in Keys, Forget(k) PROVE Typed'
  BY <1>8 DEF Typed, Forget, clientVars, tableVars, peerVars, cacheVars
<1>9. CASE Regenerate
  BY <1>9 DEF Typed, Regenerate, clientVars, tableVars, peerVars, cacheVars
<1>10. CASE Elapse
  <2>1. age' \in [Sids -> Nat]
    BY <1>10 DEF Typed, Elapse, Min2
  <2> QED BY <1>10, <2>1 DEF Typed, Elapse, clientVars
<1>11. CASE UNCHANGED vars
  BY <1>11 DEF Typed, vars, clientVars, tableVars, peerVars, cacheVars
<1> QED BY <1>1, <1>2, <1>3, <1>4, <1>5, <1>6, <1>7, <1>8, <1>9, <1>10, <1>11
        DEF Next, Client, OnDatagram, Stray, UnrecognisedDatagram, Admin,
            DeleteUser, CreateUser, ResetStats

LEMMA TypedAlways == Spec => []Typed
<1>1. Init => Typed
  <2> SUFFICES ASSUME Init PROVE Typed
    OBVIOUS
  <2>1. sent \in [Sids -> Seq(Datagrams)]
    <3>1. <<>> \in Seq(Datagrams)
      OBVIOUS
    <3> QED BY <3>1 DEF Init
  <2> QED BY <2>1, SessionsAssumption DEF Init, Typed
<1> QED BY <1>1, TypedStep, PTL DEF Spec

--------------------------------------------------------------------------------
(* What keeps a handshake from opening a second session: it was accepted from *)
(* an address, and until the cache overflows an accepted handshake is in the  *)
(* cache or too old.  Every session was accepted once.                        *)

Remembered ==
  \A s \in Sids : /\ accepted[s] <= 1
                  /\ accepted[s] = 1 => s \in replay_cache \/ age[s] > DriftLimit

Known ==
  /\ \A s \in peer_machines : accepted[s] > 0
  /\ \A s \in Sids : accepted[s] > 0 => hello[s] # None

Once == Known /\ (~evicted => Remembered)

(* Room is made without losing a handshake that could still be accepted,      *)
(* unless the eviction is recorded.                                           *)
LEMMA RoomKeepsFresh ==
  ASSUME NEW cache \in SUBSET replay_cache, evicted' = (evicted \/ Retained \ cache # {}), ~evicted'
  PROVE  ~evicted /\ \A s \in replay_cache : s \in cache \/ ~(age[s] <= DriftLimit)
BY DEF Retained

(* A session that is opened before the cache overflowed is a new one.         *)
LEMMA OpensOnce ==
  ASSUME Typed, Once, NEW s \in Sids, Fresh(s), ~evicted
  PROVE  accepted[s] = 0 /\ s \notin peer_machines
<1>1. accepted[s] # 1
  BY BoundsAssumption DEF Once, Remembered, Fresh, Typed
<1>2. accepted[s] = 0
  BY <1>1 DEF Once, Remembered, Typed
<1> QED BY <1>2 DEF Once, Known

LEMMA OnceStands ==
  ASSUME Once, UNCHANGED <<peer_machines, accepted, hello, replay_cache, age, evicted>>
  PROVE  Once'
BY DEF Once, Known, Remembered

LEMMA OnceStep == Typed /\ Once /\ [Next]_vars => Once'
<1> SUFFICES ASSUME Typed, Once, [Next]_vars PROVE Once'
  OBVIOUS
<1> USE SessionsAssumption, BoundsAssumption
<1>1. ASSUME NEW s \in Sids, NEW a \in Addrs, SendHandshake(s, a) PROVE Once'
  BY <1>1 DEF Typed, Once, Known, Remembered, SendHandshake, tableVars, cacheVars
<1>2. ASSUME NEW s \in Sids, NEW a \in Addrs, NEW c \in BOOLEAN, SendData(s, a, c) PROVE Once'
  BY <1>2, OnceStands DEF SendData, tableVars, cacheVars
<1>3. ASSUME NEW s \in Sids, Handshake(s) PROVE Once'
  <2>1. hello' = hello /\ age' = age /\ hello[s] # None
    BY <1>3 DEF Handshake, clientVars
  <2>2. CASE UNCHANGED <<tableVars, connections, replay_cache, accepted, evicted>>
    BY <2>1, <2>2, OnceStands DEF tableVars
  <2>3. ASSUME NEW cache \in SUBSET replay_cache,
               evicted' = (evicted \/ Retained \ cache # {}),
               replay_cache' = cache \/ replay_cache' = cache \cup {s},
               UNCHANGED <<tableVars, accepted>>
        PROVE  Once'
    <3>1. Known'
      BY <2>1, <2>3 DEF Once, Known, tableVars
    <3>2. ASSUME ~evicted' PROVE Remembered'
      <4>1. ~evicted /\ \A t \in replay_cache : t \in cache \/ ~(age[t] <= DriftLimit)
        BY <2>3, <3>2, RoomKeepsFresh
      <4>2. Remembered /\ accepted' = accepted /\ age' = age
        BY <2>1, <2>3, <4>1 DEF Once
      <4>3. \A t \in Sids : t \in replay_cache => t \in replay_cache' \/ age[t] > DriftLimit
        BY <2>3, <4>1 DEF Typed
      <4> QED BY <4>2, <4>3 DEF Remembered
    <3> QED BY <3>1, <3>2 DEF Once
  <2>4. ASSUME NEW cache \in SUBSET replay_cache,
               evicted' = (evicted \/ Retained \ cache # {}),
               replay_cache' = cache \cup {s}, Open(s), Fresh(s)
        PROVE  Once'
    <3>1. Known'
      BY <2>1, <2>4 DEF Typed, Once, Known, Open
    <3>2. ASSUME ~evicted' PROVE Remembered'
      <4>1. ~evicted /\ \A t \in replay_cache : t \in cache \/ ~(age[t] <= DriftLimit)
        BY <2>4, <3>2, RoomKeepsFresh
      <4>2. accepted[s] = 0
        BY <2>4, <4>1, OpensOnce
      <4>3. accepted' = [accepted EXCEPT ![s] = accepted[s] + 1]
        BY <2>4 DEF Open
      <4>4. Remembered
        BY <4>1 DEF Once
      <4> SUFFICES ASSUME NEW t \in Sids
                   PROVE  /\ accepted'[t] <= 1
                          /\ accepted'[t] = 1 => t \in replay_cache' \/ age[t] > DriftLimit
        BY <2>1 DEF Remembered
      <4>5. CASE t = s
        BY <2>4, <4>2, <4>3, <4>5 DEF Typed
      <4>6. CASE t # s
        <5>1. accepted'[t] = accepted[t]
          BY <4>3, <4>6 DEF Typed
        <5>2. t \in replay_cache => t \in replay_cache' \/ age[t] > DriftLimit
          BY <2>4, <4>1 DEF Typed
        <5> QED BY <4>4, <5>1, <5>2 DEF Remembered
      <4> QED BY <4>5, <4>6
    <3> QED BY <3>1, <3>2 DEF Once
  <2> QED BY <1>3, <2>2, <2>3, <2>4 DEF Handshake
<1>4. ASSUME NEW s \in Sids, NEW n \in DOMAIN sent[s], SessionDatagram(s, n) PROVE Once'
  <2>1. peer_machines' \subseteq peer_machines
    BY <1>4 DEF SessionDatagram, Drop
  <2> QED BY <1>4, <2>1 DEF Once, Known, Remembered, SessionDatagram, clientVars, cacheVars
<1>5. CASE TriedInVain
  BY <1>5, OnceStands DEF TriedInVain, clientVars, tableVars, cacheVars
<1>6. ASSUME NEW s \in Sids, OutboundToSession(s) PROVE Once'
  BY <1>6, OnceStands DEF OutboundToSession, clientVars, tableVars, cacheVars
<1>7. CASE OnTick
  BY <1>7 DEF Typed, Once, Known, Remembered, OnTick, Drop, Retained, clientVars
<1>8. ASSUME NEW k \in Keys, Forget(k) PROVE Once'
  BY <1>8, OnceStands DEF Forget, clientVars, tableVars, cacheVars
<1>9. CASE Regenerate
  BY <1>9, OnceStands DEF Regenerate, clientVars, tableVars, cacheVars
<1>10. CASE Elapse
  BY <1>10 DEF Typed, Once, Known, Remembered, Elapse, Min2, clientVars
<1>11. CASE UNCHANGED vars
  BY <1>11, OnceStands DEF vars, clientVars, tableVars, cacheVars
<1> QED BY <1>1, <1>2, <1>3, <1>4, <1>5, <1>6, <1>7, <1>8, <1>9, <1>10, <1>11
        DEF Next, Client, OnDatagram, Stray, UnrecognisedDatagram, Admin,
            DeleteUser, CreateUser, ResetStats

(* However often the network repeats it, a handshake opens one session, for   *)
(* any drift limit and any capacity of the replay cache that was not          *)
(* exceeded.                                                                  *)
THEOREM HandshakesOpenOnce == Spec => []OneSessionPerHandshake
<1>1. Init => Once
  BY DEF Init, Once, Known, Remembered
<1>2. Once => OneSessionPerHandshake
  BY DEF Once, Remembered, OneSessionPerHandshake
<1> QED BY <1>1, <1>2, OnceStep, TypedAlways, PTL DEF Spec

--------------------------------------------------------------------------------
(* The address index.                                                         *)

LEMMA IndexStands ==
  ASSUME IndexSound, UNCHANGED <<peer_machines, last_addr, addr_to_session>>, evicted => evicted'
  PROVE  IndexSound'
BY DEF IndexSound

(* Dropping sessions takes their addresses out, so what the index still names *)
(* is alive.                                                                  *)
LEMMA DropKeepsIndex ==
  ASSUME Typed, IndexSound, NEW D \in SUBSET Sids, Drop(D), last_addr' = last_addr, evicted' = evicted
  PROVE  IndexSound'
<1> SUFFICES ASSUME ~evicted, NEW a \in Addrs, addr_to_session'[a] # None
             PROVE  /\ addr_to_session'[a] \in peer_machines'
                    /\ last_addr[addr_to_session'[a]] = a
  BY DEF IndexSound
<1>1. addr_to_session'[a] = addr_to_session[a] /\ \A s \in D : last_addr[s] # a
  BY DEF Drop
<1>2. addr_to_session[a] \in peer_machines /\ last_addr[addr_to_session[a]] = a
  BY <1>1 DEF IndexSound
<1> QED BY <1>1, <1>2 DEF Drop

LEMMA MoveKeepsIndex ==
  ASSUME Typed, IndexSound, NEW s \in peer_machines, NEW a \in Addrs, NEW n, MoveAddress(s, a, n),
         peer_machines' = peer_machines, evicted' = evicted
  PROVE  IndexSound'
<1> USE SessionsAssumption
<1>1. CASE UNCHANGED <<last_addr, addr_to_session>>
  BY <1>1 DEF IndexSound
<1>2. CASE ~UNCHANGED <<last_addr, addr_to_session>>
  <2>1. /\ last_addr[s] # a
        /\ last_addr' = [last_addr EXCEPT ![s] = a]
        /\ addr_to_session' = [addr_to_session EXCEPT ![last_addr[s]] = None, ![a] = s]
    BY <1>2 DEF MoveAddress
  <2> SUFFICES ASSUME ~evicted, NEW b \in Addrs, addr_to_session'[b] # None
               PROVE  addr_to_session'[b] \in peer_machines /\ last_addr'[addr_to_session'[b]] = b
    BY DEF IndexSound
  <2>2. CASE b = a
    BY <2>1, <2>2 DEF Typed
  <2>3. CASE b # a
    <3>1. b # last_addr[s] /\ addr_to_session'[b] = addr_to_session[b]
      BY <2>1, <2>3 DEF Typed
    <3>2. addr_to_session[b] \in peer_machines /\ last_addr[addr_to_session[b]] = b
      BY <3>1 DEF IndexSound
    <3> QED BY <2>1, <3>1, <3>2 DEF Typed
  <2> QED BY <2>2, <2>3
<1> QED BY <1>1, <1>2

LEMMA OpenKeepsIndex ==
  ASSUME Typed, IndexSound, NEW s \in Sids, Open(s), s \notin peer_machines, hello[s] # None, ~evicted
  PROVE  IndexSound'
<1> USE SessionsAssumption
<1> DEFINE h == hello[s]
<1>1. h \in Addrs
  BY DEF Typed
<1>2. /\ peer_machines' = peer_machines \cup {s}
      /\ last_addr' = [last_addr EXCEPT ![s] = h]
      /\ addr_to_session' = [addr_to_session EXCEPT ![h] = s]
  BY DEF Open
<1> SUFFICES ASSUME NEW b \in Addrs, addr_to_session'[b] # None
             PROVE  addr_to_session'[b] \in peer_machines' /\ last_addr'[addr_to_session'[b]] = b
  BY DEF IndexSound
<1>3. CASE b = h
  BY <1>1, <1>2, <1>3 DEF Typed
<1>4. CASE b # h
  <2>1. addr_to_session'[b] = addr_to_session[b]
    BY <1>2, <1>4 DEF Typed
  <2>2. addr_to_session[b] \in peer_machines /\ last_addr[addr_to_session[b]] = b
    BY <2>1 DEF IndexSound
  <2> QED BY <1>2, <2>1, <2>2 DEF Typed
<1> QED BY <1>3, <1>4

(* An address the index names a session for is the address that session is    *)
(* on: for any sessions, any addresses they share, in any order.              *)
THEOREM IndexIsSound == Spec => []IndexSound
<1>1. Init => IndexSound
  BY DEF Init, IndexSound
<1>2. Typed /\ Once /\ IndexSound /\ [Next]_vars => IndexSound'
  <2> SUFFICES ASSUME Typed, Once, IndexSound, [Next]_vars PROVE IndexSound'
    OBVIOUS
  <2>1. ASSUME NEW s \in Sids, Handshake(s) PROVE IndexSound'
    <3>1. hello[s] # None
      BY <2>1 DEF Handshake
    <3>2. CASE UNCHANGED <<tableVars, connections, replay_cache, accepted, evicted>>
      BY <3>2, IndexStands DEF tableVars, peerVars
    <3>3. ASSUME NEW cache \in SUBSET replay_cache,
                 evicted' = (evicted \/ Retained \ cache # {}), UNCHANGED tableVars
          PROVE  IndexSound'
      BY <3>3, IndexStands DEF tableVars, peerVars
    <3>4. ASSUME NEW cache \in SUBSET replay_cache,
                 evicted' = (evicted \/ Retained \ cache # {}), Open(s), Fresh(s)
          PROVE  IndexSound'
      <4>1. CASE evicted'
        BY <4>1 DEF IndexSound
      <4>2. CASE ~evicted'
        <5>1. ~evicted
          BY <3>4, <4>2
        <5> QED BY <3>1, <3>4, <5>1, OpensOnce, OpenKeepsIndex
      <4> QED BY <4>1, <4>2
    <3> QED BY <2>1, <3>2, <3>3, <3>4 DEF Handshake
  <2>2. ASSUME NEW s \in Sids, NEW n \in DOMAIN sent[s], SessionDatagram(s, n) PROVE IndexSound'
    <3>1. sent[s][n].from \in Addrs /\ s \in peer_machines /\ evicted' = evicted
      BY <2>2, FromIsAddress DEF SessionDatagram, Recognised, cacheVars
    <3>2. CASE Drop({s}) /\ UNCHANGED peerVars
      BY <3>1, <3>2, DropKeepsIndex DEF peerVars
    <3>3. CASE MoveAddress(s, sent[s][n].from, n) /\ UNCHANGED peer_machines
      BY <3>1, <3>3, MoveKeepsIndex
    <3> QED BY <2>2, <3>2, <3>3 DEF SessionDatagram
  <2>3. CASE OnTick
    <3>1. Expired \in SUBSET Sids
      BY DEF Expired, Typed
    <3> QED BY <2>3, <3>1, DropKeepsIndex DEF OnTick, peerVars
  <2>4. CASE UNCHANGED <<peer_machines, last_addr, addr_to_session>> /\ UNCHANGED evicted
    BY <2>4, IndexStands
  <2> QED BY <2>1, <2>2, <2>3, <2>4
          DEF Next, Client, SendHandshake, SendData, OnDatagram, Stray, UnrecognisedDatagram,
              TriedInVain, OutboundToSession, Admin, DeleteUser, CreateUser, ResetStats, Forget,
              Regenerate, Elapse, vars, tableVars, peerVars, cacheVars
<1>3. Init => Once
  BY DEF Init, Once, Known, Remembered
<1> QED BY <1>1, <1>2, <1>3, OnceStep, TypedAlways, PTL DEF Spec

--------------------------------------------------------------------------------
(* The address a session answers to.                                          *)

Newest == /\ NewestPathWins
          /\ \A s \in Sids : highest[s] = 0 \/ highest[s] \in DOMAIN sent[s]

LEMMA NewestStands ==
  ASSUME Newest, peer_machines' \subseteq peer_machines, UNCHANGED <<last_addr, highest, hello, sent>>
  PROVE  Newest'
BY DEF Newest, NewestPathWins

LEMMA NewestSendData ==
  ASSUME Typed, Newest, NEW s \in Sids, NEW a \in Addrs, NEW c \in BOOLEAN, SendData(s, a, c)
  PROVE  Newest'
<1>1. /\ sent' = [sent EXCEPT ![s] = Append(sent[s], [from |-> a, isClose |-> c])]
      /\ UNCHANGED <<peer_machines, last_addr, highest, hello>>
  BY DEF SendData, tableVars, peerVars
<1>2. ASSUME NEW t \in Sids, NEW n \in DOMAIN sent[t]
      PROVE  n \in DOMAIN sent'[t] /\ sent'[t][n] = sent[t][n]
  <2>1. CASE t # s
    BY <1>1, <2>1 DEF Typed
  <2>2. CASE t = s
    <3>1. sent[s] \in Seq(Datagrams) /\ sent'[s] = Append(sent[s], [from |-> a, isClose |-> c])
      BY <1>1 DEF Typed
    <3> QED BY <1>2, <2>2, <3>1
  <2> QED BY <2>1, <2>2
<1> QED BY <1>1, <1>2 DEF Newest, NewestPathWins, Typed

LEMMA NewestSessionDatagram ==
  ASSUME Typed, Newest, NEW s \in Sids, NEW n \in DOMAIN sent[s], SessionDatagram(s, n)
  PROVE  Newest'
<1> DEFINE a == sent[s][n].from
<1>1. UNCHANGED <<hello, sent>> /\ n \in Nat \ {0}
  BY FromIsAddress DEF SessionDatagram, clientVars
<1>2. CASE Drop({s}) /\ UNCHANGED peerVars
  BY <1>1, <1>2, NewestStands DEF Drop, peerVars
<1>3. CASE /\ MoveAddress(s, a, n)
           /\ highest' = [highest EXCEPT ![s] = IF Raises(s, n) THEN n ELSE @]
           /\ UNCHANGED peer_machines
  <2>1. CASE Raises(s, n)
    <3>1. last_addr' = [last_addr EXCEPT ![s] = a]
      BY <1>3, <2>1 DEF MoveAddress, Typed
    <3> QED BY <1>1, <1>3, <2>1, <3>1 DEF Newest, NewestPathWins, Typed
  <2>2. CASE ~Raises(s, n)
    <3>1. last_addr' = last_addr /\ highest' = highest
      BY <1>3, <2>2 DEF MoveAddress, Typed
    <3> QED BY <1>1, <1>3, <3>1, NewestStands
  <2> QED BY <2>1, <2>2
<1> QED BY <1>2, <1>3 DEF SessionDatagram

(* A session answers to the address its client sent the newest datagram from  *)
(* of those that arrived, for any number of addresses and any order in which  *)
(* the network delivers and repeats the datagrams.                            *)
THEOREM NewestPathAlwaysWins == Spec => []NewestPathWins
<1>1. Init => Newest
  BY DEF Init, Newest, NewestPathWins
<1>2. Typed /\ Once /\ Newest /\ [Next]_vars => Newest'
  <2> SUFFICES ASSUME Typed, Once, Newest, [Next]_vars PROVE Newest'
    OBVIOUS
  <2>1. ASSUME NEW s \in Sids, NEW a \in Addrs, SendHandshake(s, a) PROVE Newest'
    <3>1. hello[s] = None /\ hello' = [hello EXCEPT ![s] = a]
          /\ UNCHANGED <<peer_machines, last_addr, highest, sent>>
      BY <2>1 DEF SendHandshake, tableVars, peerVars
    <3>2. s \notin peer_machines
      BY <3>1 DEF Once, Known
    <3> QED BY <3>1, <3>2 DEF Typed, Newest, NewestPathWins
  <2>2. ASSUME NEW s \in Sids, Handshake(s) PROVE Newest'
    <3>1. UNCHANGED <<hello, sent>>
      BY <2>2 DEF Handshake, clientVars
    <3>2. CASE UNCHANGED tableVars
      BY <3>1, <3>2, NewestStands DEF tableVars, peerVars
    <3>3. CASE Open(s)
      BY <3>1, <3>3 DEF Typed, Newest, NewestPathWins, Open
    <3> QED BY <2>2, <3>2, <3>3 DEF Handshake
  <2>3. CASE OnTick
    BY <2>3, NewestStands DEF OnTick, Drop, clientVars, peerVars
  <2>4. CASE UNCHANGED <<peer_machines, last_addr, highest, hello, sent>>
    BY <2>4, NewestStands
  <2> QED BY <2>1, <2>2, <2>3, <2>4, NewestSendData, NewestSessionDatagram
          DEF Next, Client, OnDatagram, Stray, UnrecognisedDatagram,
              TriedInVain, OutboundToSession, Admin, DeleteUser, CreateUser, ResetStats, Forget,
              Regenerate, Elapse, vars, clientVars, tableVars, peerVars
<1>3. Init => Once
  BY DEF Init, Once, Known, Remembered
<1>4. Newest => NewestPathWins
  BY DEF Newest
<1> QED BY <1>1, <1>2, <1>3, <1>4, OnceStep, TypedAlways, PTL DEF Spec

--------------------------------------------------------------------------------
(* The count of a user's sessions: it equals their number while the           *)
(* management API does not act, and is never above it.                        *)

Faithful(k) == /\ connections[k] <= Cardinality(SessionsOf(k))
               /\ Administered = {} => connections[k] = Cardinality(SessionsOf(k))

Counted ==
  /\ IsFiniteSet(peer_machines)
  /\ connections \in [Keys -> Nat]
  /\ ~evicted => \A k \in Keys : Faithful(k)

KnownKeys == access_keys \subseteq Keys

LEMMA CountStands ==
  ASSUME Counted, UNCHANGED <<peer_machines, connections>>, evicted => evicted'
  PROVE  Counted'
BY DEF Counted, Faithful, SessionsOf

(* Dropping sessions takes as many off each user's count as it drops.         *)
LEMMA DropCounts ==
  ASSUME Counted, NEW D \in SUBSET peer_machines, Drop(D), evicted' = evicted
  PROVE  Counted'
<1> DEFINE gone(k) == {s \in D : KeyOf[s] = k}
           left(k) == IF Cardinality(gone(k)) > connections[k] THEN 0
                      ELSE connections[k] - Cardinality(gone(k))
<1>1. peer_machines' = peer_machines \ D /\ connections' = [k \in Keys |-> left(k)]
  BY DEF Drop
<1>2. IsFiniteSet(peer_machines) /\ IsFiniteSet(D) /\ IsFiniteSet(peer_machines')
  BY <1>1, FS_Subset DEF Counted
<1>3. ASSUME NEW k \in Keys
      PROVE  /\ IsFiniteSet(SessionsOf(k)) /\ IsFiniteSet(gone(k))
             /\ Cardinality(gone(k)) \in Nat /\ Cardinality(SessionsOf(k)) \in Nat
             /\ SessionsOf(k)' = SessionsOf(k) \ gone(k)
             /\ gone(k) \subseteq SessionsOf(k)
  <2>1. SessionsOf(k) \in SUBSET peer_machines /\ gone(k) \in SUBSET D
    BY DEF SessionsOf
  <2>2. IsFiniteSet(SessionsOf(k)) /\ IsFiniteSet(gone(k))
    BY <1>2, <2>1, FS_Subset
  <2>3. SessionsOf(k)' = SessionsOf(k) \ gone(k) /\ gone(k) \subseteq SessionsOf(k)
    BY <1>1 DEF SessionsOf
  <2> HIDE DEF gone
  <2> QED BY <2>2, <2>3, FS_CardinalityType
<1> HIDE DEF gone
<1>4. connections' \in [Keys -> Nat]
  <2>1. \A k \in Keys : left(k) \in Nat
    BY <1>3 DEF Counted
  <2> QED BY <1>1, <2>1
<1>5. ASSUME ~evicted', NEW k \in Keys
      PROVE  Faithful(k)'
  <2>1. Faithful(k) /\ connections[k] \in Nat
    BY <1>5 DEF Counted
  <2>2. Cardinality(SessionsOf(k) \ gone(k)) =
          Cardinality(SessionsOf(k)) - Cardinality(SessionsOf(k) \cap gone(k))
    BY <1>3, FS_Difference
  <2>3. SessionsOf(k) \cap gone(k) = gone(k)
    BY <1>3
  <2>4. Cardinality(gone(k)) <= Cardinality(SessionsOf(k))
    BY <1>3, FS_Subset
  <2>5. Cardinality(SessionsOf(k)') = Cardinality(SessionsOf(k)) - Cardinality(gone(k))
    BY <1>3, <2>2, <2>3
  <2>6. connections'[k] = left(k)
    BY <1>1
  <2>7. connections'[k] <= Cardinality(SessionsOf(k)')
    BY <1>3, <2>1, <2>4, <2>5, <2>6 DEF Faithful
  <2>8. ASSUME Administered = {} PROVE connections'[k] = Cardinality(SessionsOf(k)')
    BY <1>3, <2>1, <2>4, <2>5, <2>6, <2>8 DEF Faithful
  <2> QED BY <2>7, <2>8 DEF Faithful, SessionsOf
<1> QED BY <1>2, <1>4, <1>5 DEF Counted

LEMMA OpenCounts ==
  ASSUME Counted, NEW s \in Sids, Open(s), s \notin peer_machines, ~evicted
  PROVE  Counted'
<1>1. /\ peer_machines' = peer_machines \cup {s}
      /\ connections' = [connections EXCEPT ![KeyOf[s]] = connections[KeyOf[s]] + 1]
      /\ KeyOf[s] \in Keys
  BY SessionsAssumption DEF Open
<1>2. IsFiniteSet(peer_machines) /\ IsFiniteSet(peer_machines')
  BY <1>1, FS_AddElement DEF Counted
<1>3. connections' \in [Keys -> Nat]
  BY <1>1 DEF Counted
<1>4. ASSUME NEW k \in Keys
      PROVE  Faithful(k)'
  <2>1. Faithful(k) /\ connections[k] \in Nat /\ Cardinality(SessionsOf(k)) \in Nat
    BY <1>2, FS_Subset, FS_CardinalityType DEF Counted, SessionsOf
  <2>2. CASE k = KeyOf[s]
    <3>1. SessionsOf(k)' = SessionsOf(k) \cup {s} /\ s \notin SessionsOf(k)
      BY <1>1, <2>2 DEF SessionsOf
    <3>2. IsFiniteSet(SessionsOf(k))
      BY <1>2, FS_Subset DEF SessionsOf
    <3>3. Cardinality(SessionsOf(k) \cup {s}) = Cardinality(SessionsOf(k)) + 1
      BY <3>1, <3>2, FS_AddElement
    <3>4. connections'[k] = connections[k] + 1
      BY <1>1, <2>2 DEF Counted
    <3> QED BY <2>1, <3>1, <3>3, <3>4 DEF Faithful, SessionsOf
  <2>3. CASE k # KeyOf[s]
    <3>1. SessionsOf(k)' = SessionsOf(k)
      BY <1>1, <2>3 DEF SessionsOf
    <3>2. connections'[k] = connections[k]
      BY <1>1, <2>3 DEF Counted
    <3> QED BY <2>1, <3>1, <3>2 DEF Faithful, SessionsOf
  <2> QED BY <2>2, <2>3
<1> QED BY <1>2, <1>3, <1>4 DEF Counted

LEMMA InitCounts == Init => Counted
<1> SUFFICES ASSUME Init PROVE Counted
  OBVIOUS
<1>1. peer_machines = {} /\ IsFiniteSet(peer_machines) /\ connections = [k \in Keys |-> 0]
  BY FS_EmptySet DEF Init
<1>2. \A k \in Keys : SessionsOf(k) = {} /\ Cardinality(SessionsOf(k)) = 0
  BY <1>1, FS_EmptySet DEF SessionsOf
<1> QED BY <1>1, <1>2 DEF Counted, Faithful

LEMMA CountedStep == Typed /\ Once /\ Counted /\ [Next]_vars => Counted'
<1> SUFFICES ASSUME Typed, Once, Counted, [Next]_vars PROVE Counted'
  OBVIOUS
<1>1. ASSUME NEW s \in Sids, Handshake(s) PROVE Counted'
  <2>1. CASE UNCHANGED <<tableVars, connections, replay_cache, accepted, evicted>>
    BY <2>1, CountStands DEF tableVars
  <2>2. ASSUME NEW cache \in SUBSET replay_cache,
               evicted' = (evicted \/ Retained \ cache # {}),
               UNCHANGED <<tableVars, connections>>
        PROVE  Counted'
    BY <2>2, CountStands DEF tableVars
  <2>3. ASSUME NEW cache \in SUBSET replay_cache,
               evicted' = (evicted \/ Retained \ cache # {}), Open(s), Fresh(s)
        PROVE  Counted'
    <3>1. CASE evicted
      <4>1. evicted' /\ KeyOf[s] \in Keys
        BY <2>3, <3>1, SessionsAssumption
      <4>2. IsFiniteSet(peer_machines') /\ connections' \in [Keys -> Nat]
        BY <2>3, <4>1, FS_AddElement DEF Counted, Open
      <4> QED BY <4>1, <4>2 DEF Counted
    <3>2. CASE ~evicted
      BY <2>3, <3>2, OpensOnce, OpenCounts
    <3> QED BY <3>1, <3>2
  <2> QED BY <1>1, <2>1, <2>2, <2>3 DEF Handshake
<1>2. ASSUME NEW s \in Sids, NEW n \in DOMAIN sent[s], SessionDatagram(s, n) PROVE Counted'
  <2>1. s \in peer_machines /\ evicted' = evicted
    BY <1>2 DEF SessionDatagram, Recognised, cacheVars
  <2>2. CASE Drop({s})
    BY <2>1, <2>2, DropCounts
  <2>3. CASE UNCHANGED <<peer_machines, connections>>
    BY <2>1, <2>3, CountStands
  <2> QED BY <1>2, <2>2, <2>3 DEF SessionDatagram
<1>3. CASE OnTick
  <2>1. Expired \in SUBSET peer_machines
    BY DEF Expired
  <2> QED BY <1>3, <2>1, DropCounts DEF OnTick
<1>4. CASE UNCHANGED <<peer_machines, connections, evicted>>
  BY <1>4, CountStands
<1>5. ASSUME NEW k \in Keys, Administered # {}, Forget(k) PROVE Counted'
  <2>1. /\ connections' = [connections EXCEPT ![k] = 0]
        /\ peer_machines' = peer_machines /\ evicted' = evicted
    BY <1>5 DEF Forget, tableVars, cacheVars
  <2>2. \A j \in Keys : SessionsOf(j)' = SessionsOf(j) /\ Cardinality(SessionsOf(j)) \in Nat
    BY <2>1, FS_Subset, FS_CardinalityType DEF Counted, SessionsOf
  <2>3. IsFiniteSet(peer_machines') /\ connections' \in [Keys -> Nat]
    BY <2>1 DEF Counted
  <2>4. ASSUME ~evicted', NEW j \in Keys PROVE Faithful(j)'
    <3>1. connections'[j] = (IF j = k THEN 0 ELSE connections[j]) /\ Faithful(j)
      BY <2>1, <2>4 DEF Counted
    <3>2. connections'[j] <= Cardinality(SessionsOf(j)')
      BY <2>2, <3>1 DEF Faithful
    <3> QED BY <1>5, <3>2 DEF Faithful, SessionsOf
  <2> QED BY <2>3, <2>4 DEF Counted
<1>6. CASE Admin
  BY <1>5, <1>6, SessionsAssumption DEF Admin, DeleteUser, CreateUser, ResetStats
<1> QED BY <1>1, <1>2, <1>3, <1>4, <1>6
        DEF Next, Client, SendHandshake, SendData, OnDatagram, Stray, UnrecognisedDatagram,
            TriedInVain, OutboundToSession, Regenerate, Elapse, vars, tableVars, userVars,
            cacheVars

(* Whatever the management API does, a user is never shown more sessions than *)
(* it has, until the replay cache overflows: an API that forgets the count of *)
(* living sessions leaves it too low, and ends never take it below zero.      *)
THEOREM CountNeverTooHigh == Spec => []NeverOvercounted
<1>1. Init => Once
  BY DEF Init, Once, Known, Remembered
<1>2. Counted => NeverOvercounted
  BY DEF Counted, Faithful, NeverOvercounted
<1> QED BY <1>1, <1>2, InitCounts, CountedStep, OnceStep, TypedAlways, PTL DEF Spec

(* Without the management API, "connections" of a user is the number of its   *)
(* living sessions, however sessions open, time out, close or exceed their    *)
(* limit, until the replay cache overflows: a handshake that is accepted      *)
(* again while its session lives is counted twice.                            *)
THEOREM CountIsOfSessions ==
  ASSUME Administered = {}
  PROVE  Spec => [](evicted \/ ConnectionsCountSessions)
<1>1. Init => Once /\ KnownKeys
  BY DEF Init, KnownKeys, Once, Known, Remembered
<1>2. KnownKeys /\ [Next]_vars => KnownKeys'
  <2> SUFFICES ASSUME [Next]_vars PROVE access_keys' = access_keys
    BY DEF KnownKeys
  <2>1. ASSUME NEW s \in Sids, NEW n \in DOMAIN sent[s], SessionDatagram(s, n)
        PROVE  access_keys' = access_keys
    BY <2>1 DEF SessionDatagram
  <2>2. ASSUME NEW s \in Sids, Handshake(s) PROVE access_keys' = access_keys
    BY <2>2 DEF Handshake
  <2>3. ~Admin
    BY DEF Admin
  <2> QED BY <2>1, <2>2, <2>3
          DEF Next, Client, SendHandshake, SendData, OnDatagram, Stray, UnrecognisedDatagram,
              TriedInVain, OutboundToSession, OnTick, Regenerate, Elapse, vars, userVars
<1>3. Counted /\ KnownKeys => evicted \/ ConnectionsCountSessions
  BY DEF Counted, Faithful, KnownKeys, ConnectionsCountSessions
<1> QED BY <1>1, <1>2, <1>3, InitCounts, CountedStep, OnceStep, TypedAlways, PTL DEF Spec
================================================================================
