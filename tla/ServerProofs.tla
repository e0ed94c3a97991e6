----------------------------- MODULE ServerProofs ------------------------------
(* The parts of the server that share no state, each for every value of its   *)
(* constants: the relay node, the certificates, the sockets that answer UDP   *)
(* clients, the TCP front, the configuration file and its writers, and a      *)
(* carrier of datagrams over TCP.  Each has an inductive invariant of its own.*)
EXTENDS ServerParts, Integers, Sequences, FiniteSets, FiniteSetTheorems, SequenceTheorems,
  WellFoundedInduction, TLAPS

--------------------------------------------------------------------------------
(* The relay node.                                                            *)

Ats == {"recv", "new", "admit", "open", "insert", "spawn"}
TaskRecord(n) == [at : Ats, peer : Peers \cup {"none"}, sock : 0..n]
SocketRecord == [peer : Peers \cup {"none"}, reader : {"none", "reading", "ending"}]

RelayTyped ==
  /\ opened \in Nat /\ tokens \in 0..Burst
  /\ DOMAIN task \subseteq Listeners /\ DOMAIN task # {}
  /\ task \in [DOMAIN task -> TaskRecord(opened)]
  /\ DOMAIN sessions \subseteq Peers /\ IsFiniteSet(DOMAIN sessions) /\ quiet \subseteq DOMAIN sessions
  /\ sessions \in [DOMAIN sessions -> 1..opened]
  /\ DOMAIN sockets \subseteq 1..opened
  /\ sockets \in [DOMAIN sockets -> SocketRecord]

(* A task owns the socket it opened until its reader runs.                    *)
Owned ==
  /\ \A l \in DOMAIN task : task[l].at # "recv" => task[l].peer \in Peers
  /\ \A l \in DOMAIN task :
       IF task[l].at \in {"insert", "spawn"}
       THEN /\ task[l].sock \in DOMAIN sockets
            /\ sockets[task[l].sock].peer = task[l].peer /\ sockets[task[l].sock].reader = "none"
       ELSE task[l].sock = 0
  /\ \A l, k \in DOMAIN task : l # k /\ task[l].sock # 0 => task[l].sock # task[k].sock

Answerable ==
  \A p \in DOMAIN sessions :
    /\ sessions[p] \in DOMAIN sockets /\ sockets[sessions[p]].peer = p
    /\ sockets[sessions[p]].reader = "none" =>
         \E l \in DOMAIN task : task[l].sock = sessions[p] /\ task[l].at = "spawn"

(* The listeners past the check of the cap that have entered no session yet.  *)
Late == {l \in DOMAIN task : task[l].at \in {"admit", "open", "insert"}}

Capped == Cardinality(DOMAIN sessions) + Cardinality(Late) <= MaxSessions + Cardinality(DOMAIN task) - 1

Held == {c \in RelayConns : conn[c] \in {"connecting", "spliced", "ended", "failed"}}
Admitted == {c \in RelayConns : conn[c] = "admitted"}

TcpCounted ==
  /\ conn \in [RelayConns -> {"new", "admitted", "connecting", "spliced", "ended", "failed", "closed"}]
  /\ live = Cardinality(Held)
  /\ live + Cardinality(Admitted) <= MaxTcp + Cardinality(DOMAIN task) - 1

RelayInv == RelayTyped /\ Owned /\ Answerable /\ Capped /\ TcpCounted

(* The instance counts as this module does.                                   *)
LEMMA RelayCounts == \A S : Relay!Cardinality(S) = Cardinality(S) /\ Relay!IsFiniteSet(S) = IsFiniteSet(S)
BY DEF Cardinality, Relay!Cardinality, IsFiniteSet, Relay!IsFiniteSet

(* The constants of a real relay.                                             *)
LEMMA RelayConstants ==
  ASSUME Relay!Valid
  PROVE  /\ {MaxSessions, MaxTcp, Burst} \subseteq Nat \ {0} /\ MaxOpened \in Nat
         /\ IsFiniteSet(Listeners) /\ IsFiniteSet(RelayConns)
BY RelayCounts DEF Relay!Valid

LEMMA RelayWith ==
  ASSUME NEW f, NEW x, NEW v
  PROVE  /\ DOMAIN Relay!With(f, x, v) = DOMAIN f \cup {x} /\ Relay!With(f, x, v)[x] = v
         /\ \A y \in DOMAIN f : y # x => Relay!With(f, x, v)[y] = f[y]
BY DEF Relay!With

LEMMA RelayWithTyped ==
  ASSUME NEW f, NEW x, NEW T, NEW v \in T, f \in [DOMAIN f -> T]
  PROVE  Relay!With(f, x, v) \in [DOMAIN Relay!With(f, x, v) -> T]
BY DEF Relay!With

LEMMA RelayWithout ==
  ASSUME NEW f, NEW S
  PROVE  /\ DOMAIN Relay!Without(f, S) = DOMAIN f \ S
         /\ \A y \in DOMAIN f \ S : Relay!Without(f, S)[y] = f[y]
BY DEF Relay!Without

LEMMA RelayWithoutTyped ==
  ASSUME NEW f, NEW S, NEW T, f \in [DOMAIN f -> T]
  PROVE  Relay!Without(f, S) \in [DOMAIN Relay!Without(f, S) -> T]
BY DEF Relay!Without

(* The fields of a relay's records.                                           *)
LEMMA RelayFields ==
  ASSUME RelayTyped
  PROVE  /\ \A l \in DOMAIN task : task[l].at \in Ats /\ task[l].peer \in Peers \cup {"none"} /\ task[l].sock \in 0..opened
         /\ \A s \in DOMAIN sockets : /\ sockets[s] \in SocketRecord /\ sockets[s].peer \in Peers \cup {"none"}
                                     /\ sockets[s].reader \in {"none", "reading", "ending"}
BY DEF RelayTyped, TaskRecord, SocketRecord

(* A step of one listener's task.                                             *)
LEMMA TaskMoves ==
  ASSUME RelayTyped, NEW l \in DOMAIN task, NEW a, NEW p, NEW s, Relay!Goes(l, a, p, s)
  PROVE  /\ DOMAIN task' = DOMAIN task
         /\ task'[l] = [at |-> a, peer |-> p, sock |-> s]
         /\ \A k \in DOMAIN task : k # l => task'[k] = task[k]
BY DEF RelayTyped, Relay!Goes

LEMMA TasksTyped ==
  ASSUME RelayTyped, NEW l \in DOMAIN task, NEW a \in Ats,
         NEW p \in Peers \cup {"none"}, opened' \in Nat, opened <= opened', NEW s \in 0..opened', Relay!Goes(l, a, p, s)
  PROVE  task' \in [DOMAIN task' -> TaskRecord(opened')]
<1>1. opened \in Nat /\ 0..opened \subseteq 0..opened'
  BY DEF RelayTyped
<1>2. TaskRecord(opened) \subseteq TaskRecord(opened')
  BY <1>1 DEF TaskRecord
<1>3. task \in [DOMAIN task -> TaskRecord(opened')]
  BY <1>2 DEF RelayTyped
<1>4. [at |-> a, peer |-> p, sock |-> s] \in TaskRecord(opened')
  BY DEF TaskRecord
<1> QED BY <1>3, <1>4 DEF Relay!Goes

(* A reader's state changes.                                                  *)
LEMMA SocketsTyped ==
  ASSUME RelayTyped, NEW s \in DOMAIN sockets, NEW r \in {"reading", "ending"},
         sockets' = [sockets EXCEPT ![s].reader = r]
  PROVE  sockets' \in [DOMAIN sockets' -> SocketRecord] /\ DOMAIN sockets' = DOMAIN sockets
<1>1. [sockets[s] EXCEPT !.reader = r] \in SocketRecord
  BY DEF RelayTyped, SocketRecord
<1>2. sockets' = [sockets EXCEPT ![s] = [sockets[s] EXCEPT !.reader = r]]
  OBVIOUS
<1> QED BY <1>1, <1>2 DEF RelayTyped

(* Types of a relay are kept.                                                 *)
LEMMA RelayTypedStep ==
  ASSUME Relay!Valid, RelayTyped, Owned, Relay!UdpNext
  PROVE  RelayTyped'
<1>0. /\ opened \in Nat /\ 0 \in 0..opened /\ tokens \in 0..Burst /\ Burst \in Nat
      /\ sessions \in [DOMAIN sessions -> 1..opened] /\ IsFiniteSet(DOMAIN sessions)
      /\ sockets \in [DOMAIN sockets -> SocketRecord] /\ DOMAIN sockets \subseteq 1..opened
  BY RelayConstants DEF RelayTyped
<1>1. ASSUME NEW l \in DOMAIN task, NEW a \in Ats, NEW p \in Peers \cup {"none"}, Relay!Goes(l, a, p, 0),
             UNCHANGED <<sessions, sockets, opened>>, quiet' \subseteq quiet, tokens' \in 0..Burst
      PROVE  RelayTyped'
  <2>1. DOMAIN task' = DOMAIN task
    BY <1>1, TaskMoves
  <2>2. task' \in [DOMAIN task' -> TaskRecord(opened')]
    <3>1. opened' \in Nat /\ opened <= opened' /\ 0 \in 0..opened'
      BY <1>0, <1>1
    <3> QED BY <1>1, <3>1, TasksTyped
  <2> QED BY <1>1, <2>1, <2>2 DEF RelayTyped
<1>2. ASSUME NEW l \in DOMAIN task, NEW p \in Peers, Relay!Receive(l, p) PROVE RelayTyped'
  <2>1. UNCHANGED <<sessions, sockets, opened, tokens>>
    BY <1>2 DEF Relay!Receive
  <2>2. CASE UNCHANGED task /\ quiet' \subseteq quiet
    BY <2>1, <2>2 DEF RelayTyped
  <2>3. CASE Relay!Goes(l, "new", p, 0) /\ UNCHANGED quiet
    <3>1. "new" \in Ats /\ p \in Peers \cup {"none"} /\ tokens' \in 0..Burst
      BY <1>0, <2>1 DEF Ats
    <3> QED BY <1>1, <2>1, <2>3, <3>1
  <2> QED BY <1>2, <2>2, <2>3 DEF Relay!Receive
<1>3. ASSUME NEW l \in DOMAIN task, Relay!CheckCap(l) PROVE RelayTyped'
  <2>1. /\ UNCHANGED <<sessions, sockets, opened, tokens, quiet>> /\ task[l].peer \in Peers \cup {"none"}
        /\ "admit" \in Ats /\ "recv" \in Ats
    BY <1>3, RelayFields DEF Relay!CheckCap, Ats
  <2>2. Relay!Goes(l, "admit", task[l].peer, 0) \/ Relay!Goes(l, "recv", task[l].peer, 0)
    BY <1>3 DEF Relay!CheckCap
  <2> QED BY <1>0, <1>1, <2>1, <2>2
<1>4. ASSUME NEW l \in DOMAIN task, Relay!Admit(l) PROVE RelayTyped'
  <2>1. /\ UNCHANGED <<sessions, sockets, opened, quiet>> /\ task[l].peer \in Peers \cup {"none"}
        /\ "open" \in Ats /\ "recv" \in Ats
    BY <1>4, RelayFields DEF Relay!Admit, Ats
  <2>2. Relay!Goes(l, "open", task[l].peer, 0) \/ Relay!Goes(l, "recv", "none", 0)
    BY <1>4 DEF Relay!Admit
  <2>3. tokens' \in 0..Burst
    BY <1>0, <1>4 DEF Relay!Admit
  <2> QED BY <1>1, <2>1, <2>2, <2>3
<1>5. ASSUME NEW l \in DOMAIN task, Relay!Open(l) PROVE RelayTyped'
  <2>1. UNCHANGED <<sessions, quiet, tokens>>
    BY <1>5 DEF Relay!Open
  <2>2. CASE Relay!Goes(l, "recv", "none", 0) /\ UNCHANGED <<sockets, opened>>
    BY <1>0, <1>1, <2>1, <2>2 DEF Ats
  <2>3. CASE /\ opened' = opened + 1 /\ Relay!Goes(l, "insert", task[l].peer, opened')
             /\ sockets' = Relay!With(sockets, opened', [peer |-> task[l].peer, reader |-> "none"])
    <3>1. task[l].peer \in Peers \cup {"none"} /\ [peer |-> task[l].peer, reader |-> "none"] \in SocketRecord
      BY RelayFields DEF SocketRecord
    <3>2. opened' \in 1..opened' /\ opened' \in 0..opened' /\ 1..opened \subseteq 1..opened' /\ opened' \in Nat /\ opened <= opened'
      BY <1>0, <2>3
    <3>3. task' \in [DOMAIN task' -> TaskRecord(opened')] /\ DOMAIN task' = DOMAIN task
      BY <2>3, <3>1, <3>2, TasksTyped, TaskMoves DEF Ats
    <3>4. DOMAIN sockets' = DOMAIN sockets \cup {opened'} /\ sockets' \in [DOMAIN sockets' -> SocketRecord]
      BY <1>0, <2>3, <3>1, RelayWith, RelayWithTyped
    <3>5. sessions' \in [DOMAIN sessions' -> 1..opened']
      BY <1>0, <2>1, <3>2
    <3> QED BY <1>0, <2>1, <3>2, <3>3, <3>4, <3>5 DEF RelayTyped
  <2> QED BY <1>5, <2>2, <2>3 DEF Relay!Open
<1>6. ASSUME NEW l \in DOMAIN task, Relay!Establish(l) PROVE RelayTyped'
  <2>1. UNCHANGED <<opened, tokens>> /\ task[l].at \in {"insert", "spawn"}
    BY <1>6 DEF Relay!Establish, Relay!Enter
  <2>2. task[l].peer \in Peers /\ task[l].sock \in DOMAIN sockets /\ task[l].sock \in 1..opened
        /\ task[l].sock \in 0..opened'
    BY <1>0, <2>1 DEF Owned
  <2>3. CASE /\ Relay!Goes(l, "spawn", task[l].peer, task[l].sock) /\ UNCHANGED sockets
             /\ sessions' = Relay!With(sessions, task[l].peer, task[l].sock) /\ quiet' = quiet \ {task[l].peer}
    <3>1. DOMAIN task' = DOMAIN task
      BY <2>3, TaskMoves
    <3>2. task' \in [DOMAIN task' -> TaskRecord(opened')]
      BY <1>0, <2>1, <2>2, <2>3, TasksTyped DEF Ats
    <3>3. DOMAIN sessions' = DOMAIN sessions \cup {task[l].peer} /\ sessions' \in [DOMAIN sessions' -> 1..opened]
      <4>1. DOMAIN sessions' = DOMAIN sessions \cup {task[l].peer}
        BY <2>3 DEF Relay!With
      <4>2. Relay!With(sessions, task[l].peer, task[l].sock)
              \in [DOMAIN Relay!With(sessions, task[l].peer, task[l].sock) -> 1..opened]
        BY <1>0, <2>2, RelayWithTyped
      <4> QED BY <2>3, <4>1, <4>2
    <3>4. IsFiniteSet(DOMAIN sessions')
      BY <1>0, <3>3, FS_AddElement
    <3> QED BY <2>1, <2>2, <2>3, <3>1, <3>2, <3>3, <3>4 DEF RelayTyped
  <2>4. CASE /\ Relay!Goes(l, "recv", "none", 0) /\ UNCHANGED <<sessions, quiet>>
             /\ sockets' = [sockets EXCEPT ![task[l].sock].reader = "reading"]
    <3>1. DOMAIN task' = DOMAIN task
      BY <2>4, TaskMoves
    <3>2. task' \in [DOMAIN task' -> TaskRecord(opened')]
      <4>1. "recv" \in Ats /\ "none" \in Peers \cup {"none"} /\ opened' \in Nat /\ opened <= opened' /\ 0 \in 0..opened'
        BY <1>0, <2>1 DEF Ats
      <4> QED BY <2>4, <4>1, TasksTyped
    <3>3. sockets' \in [DOMAIN sockets' -> SocketRecord] /\ DOMAIN sockets' = DOMAIN sockets
      BY <2>2, <2>4, SocketsTyped
    <3> QED BY <2>1, <2>4, <3>1, <3>2, <3>3 DEF RelayTyped
  <2> QED BY <1>6, <2>3, <2>4 DEF Relay!Establish, Relay!Enter
<1>7. ASSUME NEW s \in DOMAIN sockets, Relay!Reply(s) PROVE RelayTyped'
  BY <1>7 DEF Relay!Reply, RelayTyped
<1>8. ASSUME NEW s \in DOMAIN sockets, Relay!Fail(s) PROVE RelayTyped'
  <2>1. sockets' \in [DOMAIN sockets' -> SocketRecord] /\ DOMAIN sockets' = DOMAIN sockets
    BY <1>8, SocketsTyped DEF Relay!Fail
  <2> QED BY <1>8, <2>1 DEF Relay!Fail, RelayTyped
<1>9. ASSUME NEW s \in DOMAIN sockets, Relay!ReaderEnds(s) PROVE RelayTyped'
  <2>1. /\ sessions' = Relay!Without(sessions, {sockets[s].peer}) /\ quiet' = quiet \ {sockets[s].peer}
        /\ sockets' = Relay!Without(sockets, {s}) /\ UNCHANGED <<task, opened, tokens>>
    BY <1>9 DEF Relay!ReaderEnds, Relay!Removed
  <2>2. /\ DOMAIN sessions' = DOMAIN sessions \ {sockets[s].peer} /\ DOMAIN sockets' = DOMAIN sockets \ {s}
        /\ sessions' \in [DOMAIN sessions' -> 1..opened] /\ sockets' \in [DOMAIN sockets' -> SocketRecord]
    BY <1>0, <2>1, RelayWithout, RelayWithoutTyped
  <2>3. IsFiniteSet(DOMAIN sessions')
    BY <1>0, <2>2, FS_RemoveElement
  <2> QED BY <2>1, <2>2, <2>3 DEF RelayTyped
<1>10. ASSUME NEW p \in Peers, Relay!GoesQuiet(p) PROVE RelayTyped'
  BY <1>10 DEF Relay!GoesQuiet, RelayTyped
<1>11. CASE Relay!Sweep
  <2>1. sessions' = Relay!Without(sessions, quiet) /\ quiet' = {} /\ UNCHANGED <<task, sockets, opened, tokens>>
    BY <1>11 DEF Relay!Sweep
  <2>2. DOMAIN sessions' = DOMAIN sessions \ quiet /\ sessions' \in [DOMAIN sessions' -> 1..opened]
    BY <1>0, <2>1, RelayWithout, RelayWithoutTyped
  <2>3. IsFiniteSet(DOMAIN sessions')
    BY <1>0, <2>2, FS_Subset
  <2> QED BY <2>1, <2>2, <2>3 DEF RelayTyped
<1>12. CASE Relay!Refill
  BY <1>0, <1>12 DEF Relay!Refill, RelayTyped
<1> QED BY <1>2, <1>3, <1>4, <1>5, <1>6, <1>7, <1>8, <1>9, <1>10, <1>11, <1>12 DEF Relay!UdpNext

(* A task's socket is its own until its reader runs, and open till then.      *)
LEMMA OwnedStep ==
  ASSUME RelayTyped, Owned, Relay!UdpNext
  PROVE  Owned'
<1>0. /\ opened \in Nat /\ DOMAIN sockets \subseteq 1..opened
      /\ sockets \in [DOMAIN sockets -> SocketRecord]
  BY DEF RelayTyped
<1>1. ASSUME NEW l \in DOMAIN task, NEW a \in {"recv", "new", "admit", "open"}, NEW p, a = "recv" \/ p \in Peers,
             Relay!Goes(l, a, p, 0), UNCHANGED sockets
      PROVE  Owned'
  <2>1. /\ DOMAIN task' = DOMAIN task /\ task'[l] = [at |-> a, peer |-> p, sock |-> 0]
        /\ \A k \in DOMAIN task : k # l => task'[k] = task[k]
    BY <1>1, TaskMoves
  <2> QED BY <1>1, <2>1 DEF Owned
<1>2. ASSUME NEW l \in DOMAIN task, NEW p \in Peers, Relay!Receive(l, p) PROVE Owned'
  BY <1>1, <1>2 DEF Relay!Receive, Owned
<1>3. ASSUME NEW l \in DOMAIN task, Relay!CheckCap(l) \/ Relay!Admit(l) PROVE Owned'
  <2>1. UNCHANGED sockets /\ task[l].peer \in Peers
    BY <1>3 DEF Relay!CheckCap, Relay!Admit, Owned
  <2>2. \/ Relay!Goes(l, "admit", task[l].peer, 0) \/ Relay!Goes(l, "recv", task[l].peer, 0)
        \/ Relay!Goes(l, "open", task[l].peer, 0) \/ Relay!Goes(l, "recv", "none", 0)
    BY <1>3 DEF Relay!CheckCap, Relay!Admit
  <2> QED BY <1>1, <2>1, <2>2
<1>4. ASSUME NEW l \in DOMAIN task, Relay!Open(l) PROVE Owned'
  <2>1. CASE Relay!Goes(l, "recv", "none", 0) /\ UNCHANGED sockets
    BY <1>1, <2>1
  <2>2. CASE /\ opened' = opened + 1 /\ Relay!Goes(l, "insert", task[l].peer, opened')
             /\ sockets' = Relay!With(sockets, opened', [peer |-> task[l].peer, reader |-> "none"])
    <3>1. /\ DOMAIN task' = DOMAIN task /\ task'[l] = [at |-> "insert", peer |-> task[l].peer, sock |-> opened']
          /\ \A k \in DOMAIN task : k # l => task'[k] = task[k]
      BY <2>2, TaskMoves
    <3>2. opened' \notin DOMAIN sockets /\ opened' # 0 /\ \A k \in DOMAIN task : task[k].sock # opened'
      BY <1>0, <2>2, RelayFields
    <3>3. /\ DOMAIN sockets' = DOMAIN sockets \cup {opened'} /\ sockets'[opened'] = [peer |-> task[l].peer, reader |-> "none"]
          /\ \A s \in DOMAIN sockets : sockets'[s] = sockets[s]
      BY <2>2, <3>2 DEF Relay!With
    <3>4. task[l].peer \in Peers
      BY <1>4 DEF Relay!Open, Owned
    <3> QED BY <3>1, <3>2, <3>3, <3>4 DEF Owned
  <2> QED BY <1>4, <2>1, <2>2 DEF Relay!Open
<1>5. ASSUME NEW l \in DOMAIN task, Relay!Establish(l) PROVE Owned'
  <2>1. CASE task[l].at = "insert" /\ Relay!Goes(l, "spawn", task[l].peer, task[l].sock) /\ UNCHANGED sockets
    <3>1. /\ DOMAIN task' = DOMAIN task /\ task'[l] = [at |-> "spawn", peer |-> task[l].peer, sock |-> task[l].sock]
          /\ \A k \in DOMAIN task : k # l => task'[k] = task[k]
      BY <2>1, TaskMoves
    <3> QED BY <2>1, <3>1 DEF Owned
  <2>2. CASE /\ task[l].at = "spawn" /\ Relay!Goes(l, "recv", "none", 0)
             /\ sockets' = [sockets EXCEPT ![task[l].sock].reader = "reading"]
    <3>1. /\ DOMAIN task' = DOMAIN task /\ task'[l] = [at |-> "recv", peer |-> "none", sock |-> 0]
          /\ \A k \in DOMAIN task : k # l => task'[k] = task[k]
      BY <2>2, TaskMoves
    <3>2. task[l].sock \in DOMAIN sockets /\ \A k \in DOMAIN task : k # l => task[k].sock # task[l].sock
      BY <1>0, <2>2 DEF Owned
    <3>3. DOMAIN sockets' = DOMAIN sockets /\ \A s \in DOMAIN sockets : s # task[l].sock => sockets'[s] = sockets[s]
      BY <2>2
    <3> QED BY <2>2, <3>1, <3>2, <3>3 DEF Owned
  <2> QED BY <1>5, <2>1, <2>2 DEF Relay!Establish, Relay!Enter
<1>6. ASSUME NEW s \in DOMAIN sockets, Relay!Fail(s) PROVE Owned'
  <2>1. /\ task' = task /\ sockets[s].reader = "reading" /\ DOMAIN sockets' = DOMAIN sockets
        /\ \A x \in DOMAIN sockets : x # s => sockets'[x] = sockets[x]
    BY <1>6 DEF Relay!Fail
  <2>2. \A l \in DOMAIN task : task[l].at \in {"insert", "spawn"} => task[l].sock # s
    BY <2>1 DEF Owned
  <2> QED BY <2>1, <2>2 DEF Owned
<1>7. ASSUME NEW s \in DOMAIN sockets, Relay!ReaderEnds(s) PROVE Owned'
  <2>1. task' = task /\ sockets[s].reader = "ending" /\ sockets' = Relay!Without(sockets, {s})
    BY <1>7 DEF Relay!ReaderEnds
  <2>2. DOMAIN sockets' = DOMAIN sockets \ {s} /\ \A x \in DOMAIN sockets \ {s} : sockets'[x] = sockets[x]
    BY <2>1, RelayWithout
  <2>3. \A l \in DOMAIN task : task[l].at \in {"insert", "spawn"} => task[l].sock # s
    BY <2>1 DEF Owned
  <2> QED BY <2>1, <2>2, <2>3 DEF Owned
<1>8. CASE UNCHANGED <<task, sockets>>
  BY <1>8 DEF Owned
<1> QED BY <1>2, <1>3, <1>4, <1>5, <1>6, <1>7, <1>8 DEF Relay!UdpNext, Relay!Reply, Relay!GoesQuiet, Relay!Sweep, Relay!Refill

(* A session's socket stays open and gets its reader.                         *)
LEMMA AnswerableStep ==
  ASSUME RelayTyped, Owned, Answerable, Relay!UdpNext
  PROVE  Answerable'
<1>0. /\ opened \in Nat /\ DOMAIN sockets \subseteq 1..opened
      /\ sockets \in [DOMAIN sockets -> SocketRecord]
  BY DEF RelayTyped
<1>1. ASSUME NEW l \in DOMAIN task, NEW a, NEW p, task[l].at # "spawn", Relay!Goes(l, a, p, 0), UNCHANGED <<sessions, sockets>>
      PROVE  Answerable'
  <2>1. DOMAIN task' = DOMAIN task /\ \A k \in DOMAIN task : k # l => task'[k] = task[k]
    BY <1>1, TaskMoves
  <2> QED BY <1>1, <2>1 DEF Answerable
<1>2. CASE UNCHANGED <<task, sessions, sockets>>
  BY <1>2 DEF Answerable
<1>3. ASSUME NEW l \in DOMAIN task, NEW p \in Peers, Relay!Receive(l, p) PROVE Answerable'
  <2>1. UNCHANGED <<sessions, sockets>> /\ task[l].at # "spawn" /\ (UNCHANGED task \/ Relay!Goes(l, "new", p, 0))
    BY <1>3 DEF Relay!Receive
  <2> QED BY <1>1, <1>2, <2>1
<1>4. ASSUME NEW l \in DOMAIN task, Relay!Open(l) PROVE Answerable'
  <2>1. task[l].at = "open" /\ sessions' = sessions
    BY <1>4 DEF Relay!Open
  <2>2. CASE Relay!Goes(l, "recv", "none", 0) /\ UNCHANGED sockets
    BY <1>1, <2>1, <2>2
  <2>3. CASE /\ opened' = opened + 1 /\ Relay!Goes(l, "insert", task[l].peer, opened')
             /\ sockets' = Relay!With(sockets, opened', [peer |-> task[l].peer, reader |-> "none"])
    <3>1. DOMAIN task' = DOMAIN task /\ \A k \in DOMAIN task : k # l => task'[k] = task[k]
      BY <2>3, TaskMoves
    <3>2. opened' \notin DOMAIN sockets
      BY <1>0, <2>3
    <3>3. DOMAIN sockets \subseteq DOMAIN sockets' /\ \A s \in DOMAIN sockets : sockets'[s] = sockets[s]
      BY <2>3, <3>2 DEF Relay!With
    <3> QED BY <2>1, <3>1, <3>3 DEF Answerable
  <2> QED BY <1>4, <2>2, <2>3 DEF Relay!Open
<1>5. ASSUME NEW l \in DOMAIN task, Relay!Establish(l) PROVE Answerable'
  <2>1. CASE /\ task[l].at = "insert" /\ Relay!Goes(l, "spawn", task[l].peer, task[l].sock) /\ UNCHANGED sockets
             /\ sessions' = Relay!With(sessions, task[l].peer, task[l].sock)
    <3>1. /\ DOMAIN task' = DOMAIN task /\ task'[l] = [at |-> "spawn", peer |-> task[l].peer, sock |-> task[l].sock]
          /\ \A k \in DOMAIN task : k # l => task'[k] = task[k]
      BY <2>1, TaskMoves
    <3>2. task[l].sock \in DOMAIN sockets /\ sockets[task[l].sock].peer = task[l].peer
      BY <2>1 DEF Owned
    <3>3. /\ DOMAIN sessions' = DOMAIN sessions \cup {task[l].peer} /\ sessions'[task[l].peer] = task[l].sock
          /\ \A p \in DOMAIN sessions : p # task[l].peer => sessions'[p] = sessions[p]
      BY <2>1 DEF Relay!With
    <3>4. ASSUME NEW p \in DOMAIN sessions', p # task[l].peer
          PROVE  /\ sessions'[p] \in DOMAIN sockets' /\ sockets'[sessions'[p]].peer = p
                 /\ sockets'[sessions'[p]].reader = "none" =>
                      \E k \in DOMAIN task' : task'[k].sock = sessions'[p] /\ task'[k].at = "spawn"
      BY <2>1, <3>1, <3>3, <3>4 DEF Answerable
    <3>5. /\ sessions'[task[l].peer] \in DOMAIN sockets' /\ sockets'[sessions'[task[l].peer]].peer = task[l].peer
          /\ task'[l].sock = sessions'[task[l].peer] /\ task'[l].at = "spawn" /\ l \in DOMAIN task'
      BY <2>1, <3>1, <3>2, <3>3
    <3> QED BY <3>4, <3>5 DEF Answerable
  <2>2. CASE /\ task[l].at = "spawn" /\ Relay!Goes(l, "recv", "none", 0) /\ UNCHANGED sessions
             /\ sockets' = [sockets EXCEPT ![task[l].sock].reader = "reading"]
    <3>1. DOMAIN task' = DOMAIN task /\ \A k \in DOMAIN task : k # l => task'[k] = task[k]
      BY <2>2, TaskMoves
    <3>2. /\ DOMAIN sockets' = DOMAIN sockets /\ \A s \in DOMAIN sockets : s # task[l].sock => sockets'[s] = sockets[s]
          /\ \A s \in DOMAIN sockets : sockets'[s].peer = sockets[s].peer
          /\ task[l].sock \in DOMAIN sockets => sockets'[task[l].sock].reader = "reading"
      BY <1>0, <2>2 DEF SocketRecord
    <3> QED BY <2>2, <3>1, <3>2 DEF Answerable
  <2> QED BY <1>5, <2>1, <2>2 DEF Relay!Establish, Relay!Enter
<1>6. ASSUME NEW s \in DOMAIN sockets, Relay!Fail(s) PROVE Answerable'
  <2>1. UNCHANGED <<task, sessions>> /\ sockets' = [sockets EXCEPT ![s].reader = "ending"]
    BY <1>6 DEF Relay!Fail
  <2>2. /\ DOMAIN sockets' = DOMAIN sockets /\ \A x \in DOMAIN sockets : x # s => sockets'[x] = sockets[x]
        /\ sockets'[s].peer = sockets[s].peer /\ sockets'[s].reader = "ending"
    BY <1>0, <2>1 DEF SocketRecord
  <2> QED BY <2>1, <2>2 DEF Answerable
<1>7. ASSUME NEW s \in DOMAIN sockets, Relay!ReaderEnds(s) PROVE Answerable'
  <2>1. task' = task /\ sockets' = Relay!Without(sockets, {s}) /\ sessions' = Relay!Without(sessions, {sockets[s].peer})
    BY <1>7 DEF Relay!ReaderEnds, Relay!Removed
  <2>2. /\ DOMAIN sockets' = DOMAIN sockets \ {s} /\ \A x \in DOMAIN sockets \ {s} : sockets'[x] = sockets[x]
        /\ DOMAIN sessions' = DOMAIN sessions \ {sockets[s].peer}
        /\ \A p \in DOMAIN sessions \ {sockets[s].peer} : sessions'[p] = sessions[p]
    BY <2>1, RelayWithout
  <2>3. \A p \in DOMAIN sessions \ {sockets[s].peer} : sessions[p] # s
    BY DEF Answerable
  <2> SUFFICES ASSUME NEW p \in DOMAIN sessions \ {sockets[s].peer}
      PROVE  /\ sessions'[p] \in DOMAIN sockets' /\ sockets'[sessions'[p]].peer = p
             /\ sockets'[sessions'[p]].reader = "none" =>
                  \E k \in DOMAIN task' : task'[k].sock = sessions'[p] /\ task'[k].at = "spawn"
    BY <2>2 DEF Answerable
  <2>4. sessions'[p] = sessions[p] /\ sessions[p] \in DOMAIN sockets \ {s} /\ sockets'[sessions[p]] = sockets[sessions[p]]
    BY <2>2, <2>3 DEF Answerable
  <2> QED BY <2>1, <2>2, <2>4 DEF Answerable
<1>8. CASE Relay!Sweep
  <2>1. UNCHANGED <<task, sockets>> /\ sessions' = Relay!Without(sessions, quiet)
    BY <1>8 DEF Relay!Sweep
  <2>2. DOMAIN sessions' = DOMAIN sessions \ quiet /\ \A p \in DOMAIN sessions \ quiet : sessions'[p] = sessions[p]
    BY <2>1, RelayWithout
  <2> QED BY <2>1, <2>2 DEF Answerable
<1>9. ASSUME Relay!Refill \/ (\E s \in DOMAIN sockets : Relay!Reply(s)) \/ \E p \in Peers : Relay!GoesQuiet(p)
      PROVE  Answerable'
  BY <1>2, <1>9 DEF Relay!Reply, Relay!GoesQuiet, Relay!Refill
<1>10. ASSUME NEW l \in DOMAIN task,
              (\E p \in Peers : Relay!Receive(l, p)) \/ Relay!CheckCap(l) \/ Relay!Admit(l) \/ Relay!Open(l) \/ Relay!Establish(l)
       PROVE  Answerable'
  <2>1. CASE Relay!CheckCap(l) \/ Relay!Admit(l)
    <3>1. UNCHANGED <<sessions, sockets>> /\ task[l].at # "spawn"
      BY <2>1 DEF Relay!CheckCap, Relay!Admit
    <3>2. PICK a, q : Relay!Goes(l, a, q, 0)
      BY <2>1 DEF Relay!CheckCap, Relay!Admit
    <3> QED BY <1>1, <3>1, <3>2
  <2> QED BY <1>3, <1>4, <1>5, <1>10, <2>1
<1> QED BY <1>6, <1>7, <1>8, <1>9, <1>10 DEF Relay!UdpNext

(* Each listener's task may be one session late.                              *)
LEMMA CappedStep ==
  ASSUME Relay!Valid, RelayTyped, RelayTyped', Owned, Capped, Relay!UdpNext
  PROVE  Capped'
<1>0. /\ IsFiniteSet(DOMAIN task) /\ IsFiniteSet(Late) /\ Cardinality(Late) <= Cardinality(DOMAIN task)
      /\ Cardinality(Late) \in Nat /\ Cardinality(DOMAIN task) \in Nat /\ Cardinality(DOMAIN sessions) \in Nat
      /\ IsFiniteSet(DOMAIN sessions) /\ MaxSessions \in Nat
  <2>1. IsFiniteSet(DOMAIN task) /\ IsFiniteSet(DOMAIN sessions) /\ MaxSessions \in Nat
    BY FS_Subset, RelayConstants DEF RelayTyped
  <2>2. Late \in SUBSET DOMAIN task
    BY DEF Late
  <2> QED BY <2>1, <2>2, FS_Subset, FS_CardinalityType
<1>1. ASSUME DOMAIN task' = DOMAIN task, Late' \subseteq Late, DOMAIN sessions' \subseteq DOMAIN sessions
      PROVE  Capped'
  <2>1. Cardinality(Late') <= Cardinality(Late) /\ Cardinality(Late') \in Nat
    BY <1>0, <1>1, FS_Subset, FS_CardinalityType
  <2>2. Cardinality(DOMAIN sessions') <= Cardinality(DOMAIN sessions) /\ Cardinality(DOMAIN sessions') \in Nat
    BY <1>0, <1>1, FS_Subset, FS_CardinalityType
  <2>3. Cardinality(Late') + Cardinality(DOMAIN sessions') <= Cardinality(Late) + Cardinality(DOMAIN sessions)
    BY <1>0, <2>1, <2>2
  <2> QED BY <1>0, <1>1, <2>1, <2>2, <2>3 DEF Capped
<1>2. ASSUME NEW l \in DOMAIN task, NEW a, NEW p, NEW s, Relay!Goes(l, a, p, s)
      PROVE  /\ DOMAIN task' = DOMAIN task
             /\ a \notin {"admit", "open", "insert"} => Late' = Late \ {l}
             /\ l \in Late => Late' \subseteq Late
             /\ Late' \subseteq DOMAIN task
  <2>1. /\ DOMAIN task' = DOMAIN task /\ task'[l].at = a
        /\ \A k \in DOMAIN task : k # l => task'[k] = task[k]
    <3>1. task'[l] = [at |-> a, peer |-> p, sock |-> s] /\ DOMAIN task' = DOMAIN task
          /\ \A k \in DOMAIN task : k # l => task'[k] = task[k]
      BY <1>2, TaskMoves
    <3> QED BY <3>1
  <2> QED BY <2>1 DEF Late
<1>3. ASSUME NEW l \in DOMAIN task, NEW p \in Peers, Relay!Receive(l, p) PROVE Capped'
  <2>1. sessions' = sessions /\ (task' = task \/ Relay!Goes(l, "new", p, 0))
    BY <1>3 DEF Relay!Receive
  <2>2. CASE task' = task
    BY <1>1, <2>1, <2>2 DEF Late
  <2>3. CASE Relay!Goes(l, "new", p, 0)
    BY <1>1, <1>2, <2>1, <2>3
  <2> QED BY <2>1, <2>2, <2>3
<1>4. ASSUME NEW l \in DOMAIN task, Relay!CheckCap(l) PROVE Capped'
  <2>1. sessions' = sessions
    BY <1>4 DEF Relay!CheckCap
  <2>2. CASE ~Relay!Room
    BY <1>1, <1>2, <1>4, <2>1, <2>2 DEF Relay!CheckCap
  <2>3. CASE Relay!Room
    <3>1. Cardinality(DOMAIN sessions) < MaxSessions
      BY <2>3, RelayCounts DEF Relay!Room
    <3>2. DOMAIN task' = DOMAIN task /\ Late' \subseteq DOMAIN task
      BY <1>2, <1>4 DEF Relay!CheckCap
    <3>3. Cardinality(Late') <= Cardinality(DOMAIN task) /\ Cardinality(Late') \in Nat
      BY <1>0, <3>2, FS_Subset, FS_CardinalityType
    <3> QED BY <1>0, <2>1, <3>1, <3>2, <3>3 DEF Capped
  <2> QED BY <2>2, <2>3
<1>5. ASSUME NEW l \in DOMAIN task, Relay!Admit(l) \/ Relay!Open(l) PROVE Capped'
  <2>1. sessions' = sessions /\ l \in Late
    BY <1>5 DEF Relay!Admit, Relay!Open, Late
  <2>2. \E a, p, s : Relay!Goes(l, a, p, s)
    BY <1>5 DEF Relay!Admit, Relay!Open
  <2> QED BY <1>1, <1>2, <2>1, <2>2
<1>6. ASSUME NEW l \in DOMAIN task, Relay!Establish(l) PROVE Capped'
  <2>1. CASE /\ task[l].at = "insert" /\ Relay!Goes(l, "spawn", task[l].peer, task[l].sock)
             /\ sessions' = Relay!With(sessions, task[l].peer, task[l].sock)
    <3>1. DOMAIN task' = DOMAIN task /\ Late' = Late \ {l} /\ l \in Late
      BY <1>2, <2>1 DEF Late
    <3>2. Cardinality(Late') = Cardinality(Late) - 1 /\ Cardinality(Late') \in Nat
      BY <1>0, <3>1, FS_RemoveElement, FS_CardinalityType
    <3>3. DOMAIN sessions' = DOMAIN sessions \cup {task[l].peer}
      BY <2>1 DEF Relay!With
    <3>4. Cardinality(DOMAIN sessions') <= Cardinality(DOMAIN sessions) + 1 /\ Cardinality(DOMAIN sessions') \in Nat
      <4>1. IsFiniteSet(DOMAIN sessions \cup {task[l].peer})
            /\ Cardinality(DOMAIN sessions \cup {task[l].peer}) =
                 IF task[l].peer \in DOMAIN sessions THEN Cardinality(DOMAIN sessions) ELSE Cardinality(DOMAIN sessions) + 1
        BY <1>0, FS_AddElement
      <4> QED BY <1>0, <3>3, <4>1
    <3>5. Cardinality(DOMAIN sessions') + Cardinality(Late') <= Cardinality(DOMAIN sessions) + Cardinality(Late)
      BY <1>0, <3>2, <3>4
    <3> QED BY <1>0, <3>1, <3>2, <3>4, <3>5 DEF Capped
  <2>2. CASE Relay!Goes(l, "recv", "none", 0) /\ UNCHANGED sessions
    BY <1>1, <1>2, <2>2
  <2> QED BY <1>6, <2>1, <2>2 DEF Relay!Establish, Relay!Enter
<1>7. ASSUME task' = task, DOMAIN sessions' \subseteq DOMAIN sessions PROVE Capped'
  BY <1>1, <1>7 DEF Late
<1>8. ASSUME NEW s \in DOMAIN sockets, Relay!Reply(s) \/ Relay!Fail(s) \/ Relay!ReaderEnds(s) PROVE Capped'
  BY <1>7, <1>8 DEF Relay!Reply, Relay!Fail, Relay!ReaderEnds, Relay!Removed, Relay!Without
<1>9. CASE Relay!Sweep \/ Relay!Refill \/ \E p \in Peers : Relay!GoesQuiet(p)
  BY <1>7, <1>9 DEF Relay!Sweep, Relay!Refill, Relay!GoesQuiet, Relay!Without
<1> QED BY <1>3, <1>4, <1>5, <1>6, <1>8, <1>9 DEF Relay!UdpNext

(* A connection is counted from its task's second step to its last.           *)
LEMMA CountedStep ==
  ASSUME Relay!Valid, RelayTyped, TcpCounted, Relay!TcpNext
  PROVE  TcpCounted'
<1>0. /\ IsFiniteSet(Held) /\ IsFiniteSet(Admitted) /\ task' = task
      /\ live \in Nat /\ Cardinality(Held) \in Nat /\ Cardinality(Admitted) \in Nat /\ Cardinality(DOMAIN task) \in Nat
      /\ MaxTcp \in Nat
      /\ live = Cardinality(Held) /\ live + Cardinality(Admitted) <= MaxTcp + Cardinality(DOMAIN task) - 1
  <2>1. Held \in SUBSET RelayConns /\ Admitted \in SUBSET RelayConns /\ DOMAIN task \in SUBSET Listeners
    BY DEF Held, Admitted, RelayTyped
  <2>2. IsFiniteSet(Held) /\ IsFiniteSet(Admitted) /\ IsFiniteSet(DOMAIN task) /\ MaxTcp \in Nat
    BY <2>1, RelayConstants, FS_Subset
  <2>3. task' = task
    BY DEF Relay!TcpNext, Relay!Accept, Relay!CountIn, Relay!Splice, Relay!Ends, Relay!udpVars
  <2> QED BY <2>2, <2>3, FS_CardinalityType DEF TcpCounted
<1>1. PICK c \in RelayConns : Relay!Accept(c) \/ Relay!CountIn(c) \/ Relay!Splice(c) \/ Relay!Ends(c)
  BY DEF Relay!TcpNext
<1>2. conn \in [RelayConns -> {"new", "admitted", "connecting", "spliced", "ended", "failed", "closed"}]
  BY DEF TcpCounted
<1>3. SUFFICES /\ conn' \in [RelayConns -> {"new", "admitted", "connecting", "spliced", "ended", "failed", "closed"}]
               /\ live' = Cardinality(Held')
               /\ live' + Cardinality(Admitted') <= MaxTcp + Cardinality(DOMAIN task) - 1
  BY <1>0 DEF TcpCounted
<1>4. CASE Relay!Accept(c)
  <2>1. /\ conn[c] = "new" /\ live' = live
        /\ conn' = [conn EXCEPT ![c] = IF live >= MaxTcp THEN "closed" ELSE "admitted"]
    BY <1>4 DEF Relay!Accept
  <2>2. Cardinality(Admitted) < Cardinality(DOMAIN task)
    BY <1>4, RelayCounts DEF Relay!Accept, Admitted
  <2>3. Held' = Held
    BY <1>2, <2>1 DEF Held
  <2>4. CASE live >= MaxTcp
    <3>1. Admitted' = Admitted
      BY <1>2, <2>1, <2>4 DEF Admitted
    <3> QED BY <1>0, <1>2, <2>1, <2>3, <2>4, <3>1
  <2>5. CASE ~(live >= MaxTcp)
    <3>1. Admitted' = Admitted \cup {c} /\ c \notin Admitted
      BY <1>2, <2>1, <2>5 DEF Admitted
    <3>2. Cardinality(Admitted') = Cardinality(Admitted) + 1
      BY <1>0, <3>1, FS_AddElement
    <3>3. live + Cardinality(Admitted) + 1 <= MaxTcp + Cardinality(DOMAIN task) - 1
      BY <1>0, <2>2, <2>5
    <3> QED BY <1>0, <1>2, <2>1, <2>3, <2>5, <3>2, <3>3
  <2> QED BY <2>4, <2>5
<1>5. CASE Relay!CountIn(c)
  <2>1. conn[c] = "admitted" /\ conn' = [conn EXCEPT ![c] = "connecting"] /\ live' = live + 1
    BY <1>5 DEF Relay!CountIn
  <2>2. Held' = Held \cup {c} /\ c \notin Held /\ Admitted' = Admitted \ {c} /\ c \in Admitted
    BY <1>2, <2>1 DEF Held, Admitted
  <2>3. Cardinality(Held') = Cardinality(Held) + 1 /\ Cardinality(Admitted') = Cardinality(Admitted) - 1
    BY <1>0, <2>2, FS_AddElement, FS_RemoveElement
  <2> QED BY <1>0, <1>2, <2>1, <2>3
<1>6. CASE Relay!Splice(c)
  <2>1. /\ live' = live /\ conn[c] \in {"connecting", "spliced"}
        /\ \E x \in {"spliced", "failed", "ended"} : conn' = [conn EXCEPT ![c] = x]
    BY <1>6 DEF Relay!Splice
  <2>2. Held' = Held /\ Admitted' = Admitted
    BY <1>2, <2>1 DEF Held, Admitted
  <2> QED BY <1>0, <1>2, <2>1, <2>2
<1>7. CASE Relay!Ends(c)
  <2>1. conn[c] \in {"ended", "failed"} /\ conn' = [conn EXCEPT ![c] = "closed"] /\ live' = live - 1
    BY <1>7 DEF Relay!Ends, Relay!CountedOut
  <2>2. Held' = Held \ {c} /\ c \in Held /\ Admitted' = Admitted
    BY <1>2, <2>1 DEF Held, Admitted
  <2>3. Cardinality(Held') = Cardinality(Held) - 1
    BY <1>0, <2>2, FS_RemoveElement
  <2> QED BY <1>0, <1>2, <2>1, <2>2, <2>3
<1> QED BY <1>1, <1>4, <1>5, <1>6, <1>7

(* The UDP side leaves the count of connections alone.                        *)
LEMMA UdpKeepsCount ==
  ASSUME RelayTyped, TcpCounted, Relay!UdpNext
  PROVE  TcpCounted' /\ DOMAIN task' = DOMAIN task
<1>1. UNCHANGED <<live, conn>>
  BY DEF Relay!UdpNext, Relay!Receive, Relay!CheckCap, Relay!Admit, Relay!Open, Relay!Establish, Relay!Reply,
         Relay!Fail, Relay!ReaderEnds, Relay!GoesQuiet, Relay!Sweep, Relay!Refill, Relay!tcpVars
<1>2. DOMAIN task' = DOMAIN task
  BY DEF Relay!UdpNext, Relay!Receive, Relay!CheckCap, Relay!Admit, Relay!Open, Relay!Establish, Relay!Enter, Relay!Reply,
         Relay!Fail, Relay!ReaderEnds, Relay!GoesQuiet, Relay!Sweep, Relay!Refill, Relay!Goes
<1> QED BY <1>1, <1>2 DEF TcpCounted, Held, Admitted

LEMMA RelayInvInit ==
  ASSUME Relay!Valid, Relay!Init
  PROVE  RelayInv
<1>1. PICK L \in (SUBSET Listeners) \ {{}} : task = [l \in L |-> [at |-> "recv", peer |-> "none", sock |-> 0]]
  BY DEF Relay!Init, Relay!Receiving
<1>2. /\ DOMAIN sessions = {} /\ quiet = {} /\ DOMAIN sockets = {} /\ opened = 0 /\ tokens = Burst
      /\ sessions = [p \in {} |-> 0] /\ sockets = [s \in {} |-> Relay!Receiving]
      /\ live = 0 /\ conn = [c \in RelayConns |-> "new"]
  BY DEF Relay!Init
<1>3. /\ {MaxSessions, MaxTcp, Burst} \subseteq Nat \ {0} /\ IsFiniteSet(L) /\ Cardinality(L) \in Nat \ {0}
      /\ DOMAIN task = L
  <2>1. IsFiniteSet(L) /\ L # {}
    BY RelayConstants, FS_Subset
  <2> QED BY <1>1, <2>1, RelayConstants, FS_EmptySet, FS_CardinalityType
<1>4. RelayTyped
  <2>1. [at |-> "recv", peer |-> "none", sock |-> 0] \in TaskRecord(0)
    BY DEF TaskRecord, Ats
  <2>2. task \in [DOMAIN task -> TaskRecord(0)]
    BY <1>1, <2>1
  <2>3. IsFiniteSet(DOMAIN sessions) /\ opened \in Nat /\ tokens \in 0..Burst /\ DOMAIN task \subseteq Listeners /\ DOMAIN task # {}
    BY <1>1, <1>2, <1>3, FS_EmptySet
  <2>4. sessions \in [DOMAIN sessions -> 1..opened] /\ sockets \in [DOMAIN sockets -> SocketRecord]
    BY <1>2
  <2> QED BY <1>2, <2>2, <2>3, <2>4 DEF RelayTyped
<1>5. Owned /\ Answerable
  BY <1>1, <1>2 DEF Owned, Answerable
<1>6. Capped
  <2>1. Late = {} /\ DOMAIN sessions = {}
    BY <1>1, <1>2 DEF Late
  <2>2. Cardinality({}) = 0
    BY FS_EmptySet
  <2> QED BY <1>3, <2>1, <2>2 DEF Capped
<1>7. TcpCounted
  <2>1. Held = {} /\ Admitted = {}
    BY <1>2 DEF Held, Admitted
  <2>2. Cardinality({}) = 0
    BY FS_EmptySet
  <2> QED BY <1>2, <1>3, <2>1, <2>2 DEF TcpCounted
<1> QED BY <1>4, <1>5, <1>6, <1>7 DEF RelayInv

LEMMA RelayInvStep ==
  ASSUME Relay!Valid, RelayInv, Relay!Next \/ UNCHANGED relayVars
  PROVE  RelayInv'
<1>0. RelayTyped /\ Owned /\ Answerable /\ Capped /\ TcpCounted
  BY DEF RelayInv
<1>1. CASE Relay!UdpNext
  <2>1. RelayTyped'
    BY <1>0, <1>1, RelayTypedStep
  <2>2. Owned'
    BY <1>0, <1>1, OwnedStep
  <2>3. Answerable'
    BY <1>0, <1>1, AnswerableStep
  <2>4. Capped'
    BY <1>0, <1>1, <2>1, CappedStep
  <2>5. TcpCounted'
    BY <1>0, <1>1, UdpKeepsCount
  <2> QED BY <2>1, <2>2, <2>3, <2>4, <2>5 DEF RelayInv
<1>2. CASE Relay!TcpNext
  <2>1. TcpCounted'
    BY <1>0, <1>2, CountedStep
  <2>2. UNCHANGED <<sessions, quiet, task, sockets, opened, tokens>>
    BY <1>2 DEF Relay!TcpNext, Relay!Accept, Relay!CountIn, Relay!Splice, Relay!Ends, Relay!udpVars
  <2>3. RelayTyped'
    BY <1>0, <2>2 DEF RelayTyped
  <2>4. Owned' /\ Answerable'
    BY <1>0, <2>2 DEF Owned, Answerable
  <2>5. Capped'
    BY <1>0, <2>2 DEF Capped, Late
  <2> QED BY <2>1, <2>3, <2>4, <2>5 DEF RelayInv
<1>3. CASE UNCHANGED relayVars
  <2>1. RelayTyped'
    BY <1>0, <1>3 DEF relayVars, RelayTyped
  <2>2. Owned' /\ Answerable'
    BY <1>0, <1>3 DEF relayVars, Owned, Answerable
  <2>3. Capped' /\ TcpCounted'
    BY <1>0, <1>3 DEF relayVars, Capped, Late, TcpCounted, Held, Admitted
  <2> QED BY <2>1, <2>2, <2>3 DEF RelayInv
<1> QED BY <1>1, <1>2, <1>3 DEF Relay!Next

(* What the invariant says of the table and the count.                        *)
LEMMA RelayInvSound ==
  ASSUME Relay!Valid, RelayInv
  PROVE  RelaySound
<1>0. RelayTyped /\ Capped /\ Answerable /\ TcpCounted
  BY DEF RelayInv
<1>1. /\ IsFiniteSet(DOMAIN task) /\ Cardinality(DOMAIN task) \in Nat /\ Cardinality(DOMAIN sessions) \in Nat
      /\ Cardinality(Late) \in Nat /\ Cardinality(Admitted) \in Nat /\ Cardinality(Held) \in Nat
      /\ MaxSessions \in Nat /\ MaxTcp \in Nat
  <2>1. IsFiniteSet(DOMAIN task) /\ IsFiniteSet(DOMAIN sessions)
    BY <1>0, RelayConstants, FS_Subset DEF RelayTyped
  <2>2. Late \in SUBSET DOMAIN task /\ Admitted \in SUBSET RelayConns /\ Held \in SUBSET RelayConns
    BY DEF Late, Admitted, Held
  <2>3. IsFiniteSet(Late) /\ IsFiniteSet(Admitted) /\ IsFiniteSet(Held)
    BY <2>1, <2>2, RelayConstants, FS_Subset
  <2> QED BY <2>1, <2>3, RelayConstants, FS_CardinalityType
<1>2. Relay!SessionsBounded
  <2>1. Cardinality(DOMAIN sessions) <= MaxSessions + Cardinality(DOMAIN task) - 1
    BY <1>0, <1>1 DEF Capped
  <2> QED BY <2>1, RelayCounts DEF Relay!SessionsBounded
<1>3. Relay!SessionsAnswered
  BY <1>0 DEF Answerable, Relay!SessionsAnswered
<1>4. Relay!LiveMatches
  <2>1. live = Cardinality(Held) /\ live <= MaxTcp + Cardinality(DOMAIN task) - 1
    BY <1>0, <1>1 DEF TcpCounted
  <2> QED BY <2>1, RelayCounts DEF Relay!LiveMatches, Held
<1> QED BY <1>2, <1>3, <1>4 DEF RelaySound, Relay!RelaySound

(* The relay's table never holds more sessions than its cap and one for each  *)
(* further listener, every session in it has an open socket with a reader, or *)
(* one about to start, and the count of TCP connections is that of those      *)
(* served, whatever the order of its tasks (relay_node.rs).                   *)
THEOREM RelayTableIsSound == PartsSpec => []RelaySound
<1>1. PartsInit => RelayInv
  BY ServerAssumption, RelayInvInit DEF PartsInit
<1>2. RelayInv /\ [PartsNext]_partsVars => RelayInv'
  BY ServerAssumption, RelayInvStep DEF PartsNext, partsVars
<1>3. RelayInv => RelaySound
  BY ServerAssumption, RelayInvSound
<1> QED BY <1>1, <1>2, <1>3, PTL DEF PartsSpec

--------------------------------------------------------------------------------
(* The certificates.                                                          *)

CertSteps ==
  {"down", "idle", "lock", "remove", "preflight", "order", "writekey", "writecert", "unlock", "reload"}
Pair == [cert : Nat, key : Nat]
ReloadRecord == [at : {"idle", "stat", "cert", "key", "swap", "note"}, seen : Pair, cert : Nat, key : Nat]

CertTyped ==
  /\ cert_file \in 0..MaxIssued /\ key_file \in 0..MaxIssued /\ issued \in 1..MaxIssued
  /\ lock_file \in Certs!Issuers \cup {"none"} /\ broke \in BOOLEAN
  /\ at \in [Certs!Issuers -> CertSteps]
  /\ challenges \subseteq Certs!Issuers /\ answers \subseteq {"service"}
  /\ resolver \in {"on", "off"}
  /\ reloading \in [Certs!Reloaders -> ReloadRecord]

(* The lock is of whoever issues, as long as none was taken for stale.        *)
Locked == ~broke => \A i \in Certs!Issuing : lock_file = i

Challenged == \A i \in Certs!Issuers : at[i] = "order" => i \in challenges

(* What is served and what is about to be is a pair, and the files are there  *)
(* while anything serves or loads them.                                       *)
Paired ==
  /\ resolver = "on" => current.cert = current.key /\ current.cert # 0
  /\ resolver = "on" => cert_file # 0 /\ key_file # 0
  /\ \A r \in Certs!Reloaders :
       /\ reloading[r].at # "idle" => cert_file # 0 /\ key_file # 0
       /\ reloading[r].at = "swap" => reloading[r].cert = reloading[r].key /\ reloading[r].key # 0

(* The renewal task's part of the service's state.                            *)
InMemory ==
  /\ answers # {} => at["service"] = "order"
  /\ reloading["renewal"].at # "idle" => at["service"] = "reload"

CertInv == CertTyped /\ Locked /\ Challenged /\ Paired /\ InMemory

--------------------------------------------------------------------------------
(* The sockets that answer UDP clients.                                       *)

RepliesInv ==
  /\ DOMAIN reply_via \subseteq DOMAIN heard /\ DOMAIN heard \subseteq UdpClients
  /\ IsFiniteSet(DOMAIN reply_via) /\ Cardinality(DOMAIN reply_via) <= MaxRemembered
  /\ \A p \in DOMAIN heard : heard[p] \in Replies!Indices /\ Replies!Hears(heard[p], p)
  /\ \A p \in DOMAIN reply_via : reply_via[p] = heard[p]

--------------------------------------------------------------------------------
(* The TCP front.                                                             *)

Stages == {"new", "spliced", "panel", "subscribed", "uot", "ending", "closed"} \cup Front!Classifying

FrontTyped ==
  /\ stage \in [Conns -> Stages] /\ via_tls \in [Conns -> BOOLEAN]
  /\ DOMAIN from = Conns /\ DOMAIN port = Conns /\ DOMAIN charged = Conns /\ DOMAIN tcp_map = Addresses
  /\ \A c \in Conns : stage[c] # "new" => from[c] \in Addresses /\ port[c] \in FrontListeners
  /\ \A a \in Addresses : tcp_map[a] \in Conns \cup {0}

(* While a connection is classified it is counted against its peer alone.     *)
Charged == \A c \in Conns : stage[c] \in Front!Classifying => charged[c] = {from[c]} \ Loopback

(* Past the handshake TLS was ended, and on the https port nothing else is.   *)
ThroughTls ==
  /\ \A c \in Conns : stage[c] = "dispatch" => via_tls[c]
  /\ \A c \in Conns : stage[c] = "head" /\ port[c].required => via_tls[c]

FrontInv ==
  /\ FrontTyped /\ Charged /\ ThroughTls
  /\ Front!PermitsMatch /\ Front!NoStaleQueue /\ Front!CountedOnce
  /\ Front!CredentialsStayPrivate /\ Front!HttpsIsTls

LEMMA RepliesCounts == \A S : Replies!Cardinality(S) = Cardinality(S)
BY DEF Cardinality, Replies!Cardinality

LEMMA RepliesConstants ==
  ASSUME Replies!Valid
  PROVE  /\ Locals \in Seq([family : {4, 6}, scope : {"any", "loopback", "public"}]) /\ MaxRemembered \in Nat \ {0}
         /\ Replies!Indices = 1..Len(Locals) /\ Len(Locals) \in Nat
BY DEF Replies!Valid, Replies!Indices

(* A nonempty set of naturals has a least element.                            *)
LEMMA Least ==
  ASSUME NEW S \in SUBSET Nat, S # {}
  PROVE  \E n \in S : \A m \in S : n <= m
<1>1. \E n \in S : \A m \in S : ~(<<m, n>> \in OpToRel(<, Nat))
  BY NatLessThanWellFounded, WFMin
<1>2. PICK n \in S : \A m \in S : ~(<<m, n>> \in OpToRel(<, Nat))
  BY <1>1
<1>3. ASSUME NEW m \in S PROVE n <= m
  <2>1. m \in Nat /\ n \in Nat /\ <<m, n>> \in Nat \X Nat
    OBVIOUS
  <2>2. <<m, n>> \notin {ss \in Nat \X Nat : ss[1] < ss[2]}
    BY <1>2 DEF OpToRel
  <2>3. ~(m < n)
    BY <2>1, <2>2
  <2> QED BY <2>1, <2>3
<1> QED BY <1>3

LEMMA RepliesInvInit ==
  ASSUME Replies!Valid, Replies!Init
  PROVE  RepliesInv
BY RepliesConstants, FS_EmptySet DEF Replies!Init, RepliesInv

LEMMA RepliesInvStep ==
  ASSUME Replies!Valid, RepliesInv, Replies!Next \/ UNCHANGED repliesVars
  PROVE  RepliesInv'
<1>1. CASE UNCHANGED repliesVars
  BY <1>1 DEF repliesVars, RepliesInv
<1>2. ASSUME NEW i \in Replies!Indices, NEW p \in UdpClients, Replies!Received(i, p) PROVE RepliesInv'
  <2>1. /\ Replies!Hears(i, p)
        /\ reply_via' = [q \in Replies!Remembered(p) \cup {p} |-> IF q = p THEN i ELSE reply_via[q]]
        /\ heard' = [q \in DOMAIN heard \cup {p} |-> IF q = p THEN i ELSE heard[q]]
    BY <1>2 DEF Replies!Received, Replies!Entered
  <2>2. /\ Replies!Remembered(p) \subseteq DOMAIN reply_via /\ IsFiniteSet(Replies!Remembered(p))
        /\ p \in Replies!Remembered(p) \/ Cardinality(Replies!Remembered(p)) < MaxRemembered
        /\ Cardinality(Replies!Remembered(p)) <= MaxRemembered /\ Cardinality(Replies!Remembered(p)) \in Nat
    BY RepliesConstants, RepliesCounts, FS_EmptySet, FS_CardinalityType DEF RepliesInv, Replies!Remembered
  <2>3. DOMAIN reply_via' = Replies!Remembered(p) \cup {p} /\ DOMAIN heard' = DOMAIN heard \cup {p}
    BY <2>1
  <2>4. IsFiniteSet(DOMAIN reply_via') /\ Cardinality(DOMAIN reply_via') <= MaxRemembered
    <3>1. IsFiniteSet(Replies!Remembered(p) \cup {p})
          /\ Cardinality(Replies!Remembered(p) \cup {p}) =
               IF p \in Replies!Remembered(p) THEN Cardinality(Replies!Remembered(p)) ELSE Cardinality(Replies!Remembered(p)) + 1
      BY <2>2, FS_AddElement
    <3> QED BY <2>2, <2>3, <3>1, RepliesConstants
  <2>5. \A q \in DOMAIN heard' : heard'[q] \in Replies!Indices /\ Replies!Hears(heard'[q], q)
    BY <2>1, <2>3 DEF RepliesInv
  <2>6. \A q \in DOMAIN reply_via' : reply_via'[q] = heard'[q]
    BY <2>1, <2>2, <2>3 DEF RepliesInv
  <2>7. Replies!Indices' = Replies!Indices /\ \A j, q : Replies!Hears(j, q)' = Replies!Hears(j, q)
    BY DEF Replies!Indices, Replies!Hears
  <2> QED BY <2>2, <2>3, <2>4, <2>5, <2>6 DEF RepliesInv, Replies!Indices, Replies!Hears
<1> QED BY <1>1, <1>2 DEF Replies!Next

(* The choice for a client that is not remembered: the first of the sockets   *)
(* that can reach it.                                                         *)
LEMMA PickedOne ==
  ASSUME Replies!Valid, NEW p, NEW k \in Replies!Indices, Replies!CanReach(k, p)
  PROVE  Replies!Picked(p) # {} /\ \A i \in Replies!Picked(p) : i \in Replies!Indices /\ Replies!CanReach(i, p)
<1> DEFINE S == {i \in Replies!Indices : Replies!CanReach(i, p)}
<1>1. S \in SUBSET Nat /\ S # {}
  BY RepliesConstants
<1>2. PICK n \in S : \A m \in S : n <= m
  BY <1>1, Least
<1>3. n \in Replies!Picked(p)
  BY <1>2, RepliesConstants DEF Replies!Picked
<1> QED BY <1>3 DEF Replies!Picked

LEMMA RepliesInvSound ==
  ASSUME Replies!Valid, RepliesInv
  PROVE  Replies!RepliesReach
<1> SUFFICES ASSUME NEW p \in DOMAIN heard, ~p.mapped
             PROVE  /\ Replies!SocketFor(p) # {}
                    /\ \A i \in Replies!SocketFor(p) : Replies!Hears(i, p)
                    /\ p \in DOMAIN reply_via \/ Replies!Cardinality({i \in Replies!Indices : Replies!Hears(i, p)}) = 1
                         => Replies!SocketFor(p) = {heard[p]}
  BY DEF Replies!RepliesReach
<1>1. heard[p] \in Replies!Indices /\ Replies!Hears(heard[p], p)
  BY DEF RepliesInv
<1>2. \A i : Replies!Hears(i, p) <=> Replies!CanReach(i, p)
  BY DEF Replies!Hears, Replies!CanReach, Replies!Family
<1>3. CASE p \in DOMAIN reply_via
  BY <1>1, <1>3 DEF RepliesInv, Replies!SocketFor
<1>4. CASE p \notin DOMAIN reply_via
  <2>1. /\ Replies!Picked(p) # {} /\ Replies!SocketFor(p) = Replies!Picked(p)
        /\ \A i \in Replies!Picked(p) : i \in Replies!Indices /\ Replies!Hears(i, p)
    BY <1>1, <1>2, <1>4, PickedOne DEF Replies!SocketFor
  <2>2. ASSUME Replies!Cardinality({i \in Replies!Indices : Replies!Hears(i, p)}) = 1
        PROVE  Replies!Picked(p) = {heard[p]}
    <3> DEFINE S == {i \in Replies!Indices : Replies!Hears(i, p)}
    <3>1. Cardinality(S) = 1
      BY <2>2, RepliesCounts
    <3>2. IsFiniteSet(S)
      <4>1. S \in SUBSET (1..Len(Locals)) /\ IsFiniteSet(1..Len(Locals))
        BY RepliesConstants, FS_Interval
      <4> QED BY <4>1, FS_Subset
    <3> HIDE DEF S
    <3>3. PICK x : S = {x}
      BY <3>1, <3>2, FS_Singleton
    <3> QED BY <1>1, <2>1, <3>3 DEF S
  <2> QED BY <1>4, <2>1, <2>2
<1> QED BY <1>3, <1>4

LEMMA FrontCounts == \A S : Front!Cardinality(S) = Cardinality(S)
BY DEF Cardinality, Front!Cardinality

LEMMA FrontConstants ==
  ASSUME Front!Valid
  PROVE  /\ Conns \subseteq Nat \ {0} /\ 0 \notin Conns /\ Loopback \subseteq Addresses
         /\ \A l \in FrontListeners : l.required => l.tls
BY DEF Front!Valid

LEMMA FrontInvInit ==
  ASSUME Front!Valid, Front!Init
  PROVE  FrontInv
<1>1. /\ stage = [c \in Conns |-> "new"] /\ DOMAIN from = Conns /\ DOMAIN port = Conns
      /\ via_tls = [c \in Conns |-> FALSE] /\ permits = {} /\ charged = [c \in Conns |-> {}]
      /\ tcp_map = [a \in Addresses |-> 0]
  BY DEF Front!Init
<1>2. FrontTyped
  BY <1>1 DEF FrontTyped, Stages
<1>3. Charged /\ ThroughTls
  BY <1>1 DEF Charged, ThroughTls, Front!Classifying
<1>4. Front!PermitsMatch /\ Front!NoStaleQueue
  BY <1>1 DEF Front!PermitsMatch, Front!NoStaleQueue, Front!Classifying
<1>5. Front!CountedOnce /\ Front!CredentialsStayPrivate /\ Front!HttpsIsTls
  BY <1>1 DEF Front!CountedOnce, Front!CredentialsStayPrivate, Front!HttpsIsTls
<1> QED BY <1>2, <1>3, <1>4, <1>5 DEF FrontInv

(* What one connection has to show: every property of the front but that of   *)
(* the table speaks of one connection at a time.                              *)
Kept(st, fr, po, tls, ch) ==
  /\ st # "new" => fr \in Addresses /\ po \in FrontListeners
  /\ st \in Front!Classifying => ch = {fr} \ Loopback
  /\ st = "dispatch" => tls
  /\ st \in {"head", "uot", "panel", "subscribed"} /\ po.required => tls
  /\ st = "uot" => IF fr \in Loopback THEN ch \subseteq Clients /\ Cardinality(ch) <= 1 ELSE ch = {fr}
  /\ st = "subscribed" => tls \/ fr \in Loopback

LEMMA KeptIs ==
  /\ (\A c \in Conns : Kept(stage[c], from[c], port[c], via_tls[c], charged[c])) <=>
       /\ \A c \in Conns : stage[c] # "new" => from[c] \in Addresses /\ port[c] \in FrontListeners
       /\ Charged /\ ThroughTls /\ Front!CountedOnce /\ Front!CredentialsStayPrivate /\ Front!HttpsIsTls
BY FrontCounts DEF Kept, Charged, ThroughTls, Front!CountedOnce, Front!CredentialsStayPrivate, Front!HttpsIsTls

(* The table, and the shape of the variables.                                 *)
Tabled ==
  /\ stage \in [Conns -> Stages] /\ via_tls \in [Conns -> BOOLEAN]
  /\ DOMAIN from = Conns /\ DOMAIN port = Conns /\ DOMAIN charged = Conns /\ DOMAIN tcp_map = Addresses
  /\ \A a \in Addresses : tcp_map[a] \in Conns \cup {0}
  /\ Front!PermitsMatch /\ Front!NoStaleQueue

AllKept == \A c \in Conns : Kept(stage[c], from[c], port[c], via_tls[c], charged[c])

LEMMA FrontInvIs == FrontInv <=> Tabled /\ AllKept
BY KeptIs DEF FrontInv, FrontTyped, Tabled, AllKept

(* A step of one connection's task leaves the others as they are.             *)
LEMMA OthersKept ==
  ASSUME Tabled, AllKept, NEW c \in Conns,
         \A d \in Conns \ {c} : /\ stage'[d] = stage[d] /\ from'[d] = from[d] /\ port'[d] = port[d]
                               /\ via_tls'[d] = via_tls[d] /\ charged'[d] = charged[d],
         Kept(stage'[c], from'[c], port'[c], via_tls'[c], charged'[c])
  PROVE  AllKept'
<1> SUFFICES ASSUME NEW d \in Conns PROVE Kept(stage'[d], from'[d], port'[d], via_tls'[d], charged'[d])
  BY DEF AllKept, Kept
<1> QED BY DEF AllKept, Kept

(* A connection that changes its stage, and its permit with it.               *)
LEMMA Passes ==
  ASSUME Front!Valid, Tabled, NEW c \in Conns, NEW s \in Stages, Front!Goes(c, s),
         stage[c] \notin {"uot", "ending"}, s \notin {"uot", "ending"},
         permits' = IF s \in Front!Classifying \cup {"spliced"} THEN permits \cup {c} ELSE permits \ {c},
         from' = from \/ (stage[c] = "new" /\ \A d \in Conns \ {c} : from'[d] = from[d]), DOMAIN from' = Conns,
         DOMAIN port' = Conns, DOMAIN charged' = Conns, via_tls' \in [Conns -> BOOLEAN], tcp_map' = tcp_map
  PROVE  Tabled'
<1>1. /\ stage' \in [Conns -> Stages] /\ stage'[c] = s /\ \A d \in Conns \ {c} : stage'[d] = stage[d]
  BY DEF Tabled, Front!Goes
<1>2. Front!PermitsMatch'
  BY <1>1 DEF Tabled, Front!PermitsMatch, Front!Classifying
<1>3. Front!NoStaleQueue'
  <2> SUFFICES ASSUME NEW a \in Addresses, tcp_map[a] # 0
               PROVE  from'[tcp_map[a]] = a /\ stage'[tcp_map[a]] \in {"uot", "ending"}
    BY DEF Front!NoStaleQueue
  <2>1. tcp_map[a] \in Conns /\ from[tcp_map[a]] = a /\ stage[tcp_map[a]] \in {"uot", "ending"}
    BY DEF Tabled, Front!NoStaleQueue
  <2> QED BY <1>1, <2>1
<1> QED BY <1>1, <1>2, <1>3 DEF Tabled

(* A connection enters the table.                                             *)
LEMMA Enters ==
  ASSUME Front!Valid, Tabled, NEW c \in Conns, Front!ToUot(c), from[c] \in Addresses,
         from' = from, DOMAIN port' = Conns, DOMAIN charged' = Conns, via_tls' \in [Conns -> BOOLEAN]
  PROVE  Tabled'
<1>1. /\ stage' \in [Conns -> Stages] /\ stage'[c] = "uot" /\ \A d \in Conns \ {c} : stage'[d] = stage[d]
      /\ permits' = permits \ {c} /\ tcp_map' = [tcp_map EXCEPT ![from[c]] = c]
  BY DEF Tabled, Front!ToUot, Front!Goes, Front!Released, Stages
<1>2. Front!PermitsMatch'
  BY <1>1 DEF Tabled, Front!PermitsMatch, Front!Classifying
<1>3. Front!NoStaleQueue'
  <2> SUFFICES ASSUME NEW a \in Addresses, tcp_map'[a] # 0
               PROVE  from[tcp_map'[a]] = a /\ stage'[tcp_map'[a]] \in {"uot", "ending"}
    BY DEF Front!NoStaleQueue
  <2>1. CASE a = from[c]
    BY <1>1, <2>1 DEF Tabled
  <2>2. CASE a # from[c]
    <3>1. tcp_map'[a] = tcp_map[a]
      BY <1>1, <2>2 DEF Tabled
    <3>2. tcp_map[a] \in Conns /\ from[tcp_map[a]] = a /\ stage[tcp_map[a]] \in {"uot", "ending"}
      BY <3>1 DEF Tabled, Front!NoStaleQueue
    <3> QED BY <1>1, <3>1, <3>2
  <2> QED BY <2>1, <2>2
<1>4. DOMAIN tcp_map' = Addresses /\ \A a \in Addresses : tcp_map'[a] \in Conns \cup {0}
  BY <1>1 DEF Tabled
<1> QED BY <1>1, <1>2, <1>3, <1>4 DEF Tabled

(* The same for both: a step that changes nothing of a connection but its     *)
(* stage and its permit.                                                      *)
LEMMA Moves ==
  ASSUME Front!Valid, Tabled, AllKept, NEW c \in Conns, NEW s \in Stages, Front!Goes(c, s),
         stage[c] \notin {"uot", "ending"}, s \notin {"uot", "ending"},
         permits' = IF s \in Front!Classifying \cup {"spliced"} THEN permits \cup {c} ELSE permits \ {c},
         UNCHANGED <<from, port, via_tls, charged, tcp_map>>,
         Kept(s, from[c], port[c], via_tls[c], charged[c])
  PROVE  Tabled' /\ AllKept'
<1>1. Tabled'
  <2>1. from' = from /\ DOMAIN from' = Conns /\ DOMAIN port' = Conns /\ DOMAIN charged' = Conns /\ via_tls' \in [Conns -> BOOLEAN]
        /\ tcp_map' = tcp_map
    BY DEF Tabled
  <2> QED BY <2>1, Passes
<1>2. AllKept'
  <2>1. stage'[c] = s /\ \A d \in Conns \ {c} : stage'[d] = stage[d]
    BY DEF Tabled, Front!Goes
  <2>2. Kept(stage'[c], from'[c], port'[c], via_tls'[c], charged'[c])
    BY <2>1
  <2>3. \A d \in Conns \ {c} : /\ stage'[d] = stage[d] /\ from'[d] = from[d] /\ port'[d] = port[d]
                               /\ via_tls'[d] = via_tls[d] /\ charged'[d] = charged[d]
    BY <2>1
  <2> QED BY <2>2, <2>3, OthersKept
<1> QED BY <1>1, <1>2

(* A connection being classified that is closed, or goes to the decoy.        *)
LEMMA Closes ==
  ASSUME Front!Valid, Tabled, AllKept, NEW c \in Conns, Front!Goes(c, "closed"), Front!Released(c),
         stage[c] \in Front!Classifying \cup {"spliced", "panel", "subscribed"},
         UNCHANGED <<from, port, via_tls, charged, tcp_map>>
  PROVE  Tabled' /\ AllKept'
<1>1. /\ "closed" \in Stages /\ "closed" \notin Front!Classifying \cup {"spliced"} /\ permits' = permits \ {c}
      /\ stage[c] \notin {"uot", "ending"}
  BY DEF Stages, Front!Classifying, Front!Released
<1>2. Kept("closed", from[c], port[c], via_tls[c], charged[c])
  <2>1. Kept(stage[c], from[c], port[c], via_tls[c], charged[c]) /\ stage[c] # "new"
    BY DEF AllKept, Front!Classifying
  <2> QED BY <2>1 DEF Kept, Front!Classifying
<1> QED BY <1>1, <1>2, Moves

LEMMA Decoyed ==
  ASSUME Front!Valid, Tabled, AllKept, NEW c \in Conns, Front!ToDecoy(c), stage[c] \in Front!Classifying,
         UNCHANGED <<from, port, via_tls, charged, tcp_map>>
  PROVE  Tabled' /\ AllKept'
<1>1. CASE Front!Goes(c, "closed") /\ Front!Released(c)
  BY <1>1, Closes
<1>2. CASE Front!Goes(c, "spliced") /\ UNCHANGED permits
  <2>1. c \in permits
    BY DEF Tabled, Front!PermitsMatch
  <2>2. /\ "spliced" \in Stages /\ stage[c] \notin {"uot", "ending"}
        /\ permits' = IF "spliced" \in Front!Classifying \cup {"spliced"} THEN permits \cup {c} ELSE permits \ {c}
    BY <1>2, <2>1 DEF Stages, Front!Classifying
  <2>3. Kept("spliced", from[c], port[c], via_tls[c], charged[c])
    <3>1. Kept(stage[c], from[c], port[c], via_tls[c], charged[c]) /\ stage[c] # "new"
      BY DEF AllKept, Front!Classifying
    <3> QED BY <3>1 DEF Kept, Front!Classifying
  <2> QED BY <1>2, <2>2, <2>3, Moves
<1> QED BY <1>1, <1>2 DEF Front!ToDecoy

(* A connection that was found to be a tunnel.                                *)
LEMMA Tunnelled ==
  ASSUME Front!Valid, Tabled, AllKept, NEW c \in Conns, Front!ToUot(c), stage[c] \in Front!Classifying,
         UNCHANGED <<from, port, via_tls>>, DOMAIN charged' = Conns, \A d \in Conns \ {c} : charged'[d] = charged[d],
         port[c].required => via_tls[c],
         charged' = charged \/ (from[c] \in Loopback /\ charged'[c] \subseteq Clients /\ Cardinality(charged'[c]) <= 1)
  PROVE  Tabled' /\ AllKept'
<1>1. Kept(stage[c], from[c], port[c], via_tls[c], charged[c]) /\ stage[c] # "new"
  BY DEF AllKept, Front!Classifying
<1>2. from[c] \in Addresses /\ port[c] \in FrontListeners /\ charged[c] = {from[c]} \ Loopback
  BY <1>1 DEF Kept
<1>3. Tabled'
  <2>1. DOMAIN port' = Conns /\ via_tls' \in [Conns -> BOOLEAN] /\ from' = from
    BY DEF Tabled
  <2> QED BY <1>2, <2>1, Enters
<1>4. Kept("uot", from[c], port[c], via_tls[c], charged'[c])
  <2>1. Cardinality({}) = 0
    BY FS_EmptySet
  <2>2. IF from[c] \in Loopback THEN charged'[c] \subseteq Clients /\ Cardinality(charged'[c]) <= 1 ELSE charged'[c] = {from[c]}
    <3>1. CASE from[c] \in Loopback /\ charged' = charged
      <4>1. charged'[c] = {}
        BY <1>2, <3>1
      <4> QED BY <2>1, <3>1, <4>1
    <3> QED BY <1>2, <3>1
  <2> QED BY <1>2, <2>2 DEF Kept, Front!Classifying
<1>5. stage'[c] = "uot" /\ \A d \in Conns \ {c} : stage'[d] = stage[d]
  BY DEF Tabled, Front!ToUot, Front!Goes
<1>6. Kept(stage'[c], from'[c], port'[c], via_tls'[c], charged'[c])
  BY <1>4, <1>5
<1>7. \A d \in Conns \ {c} : /\ stage'[d] = stage[d] /\ from'[d] = from[d] /\ port'[d] = port[d]
                             /\ via_tls'[d] = via_tls[d] /\ charged'[d] = charged[d]
  BY <1>5
<1>8. AllKept'
  BY <1>6, <1>7, OthersKept
<1> QED BY <1>3, <1>8

(* dispatch, on a connection that TLS was ended on where it had to be.        *)
LEMMA RoutedKeeps ==
  ASSUME Front!Valid, Tabled, AllKept, NEW c \in Conns, NEW class \in Front!Classes, Front!Routed(c, class),
         stage[c] \in Front!Classifying, port[c].required => via_tls[c], UNCHANGED <<from, port, via_tls, charged>>
  PROVE  Tabled' /\ AllKept'
<1>1. CASE Front!ToUot(c)
  <2>1. /\ DOMAIN charged' = Conns /\ \A d \in Conns \ {c} : charged'[d] = charged[d]
        /\ charged' = charged \/ (from[c] \in Loopback /\ charged'[c] \subseteq Clients /\ Cardinality(charged'[c]) <= 1)
    BY DEF Tabled
  <2> QED BY <1>1, <2>1, Tunnelled
<1>2. CASE Front!ToDecoy(c) /\ UNCHANGED tcp_map
  BY <1>2, Decoyed
<1>3. CASE Front!Goes(c, "head") /\ UNCHANGED <<permits, tcp_map>>
  <2>1. c \in permits
    BY DEF Tabled, Front!PermitsMatch
  <2>2. /\ "head" \in Stages /\ stage[c] \notin {"uot", "ending"}
        /\ permits' = IF "head" \in Front!Classifying \cup {"spliced"} THEN permits \cup {c} ELSE permits \ {c}
    BY <1>3, <2>1 DEF Stages, Front!Classifying
  <2>3. Kept("head", from[c], port[c], via_tls[c], charged[c])
    <3>1. Kept(stage[c], from[c], port[c], via_tls[c], charged[c]) /\ stage[c] # "new"
      BY DEF AllKept, Front!Classifying
    <3> QED BY <3>1 DEF Kept, Front!Classifying
  <2> QED BY <1>3, <2>2, <2>3, Moves
<1> QED BY <1>1, <1>2, <1>3 DEF Front!Routed

(* Each action of the front.                                                  *)
LEMMA FrontStep ==
  ASSUME Front!Valid, Tabled, AllKept, Front!Next
  PROVE  Tabled' /\ AllKept'
<1>0. \A c \in Conns : Kept(stage[c], from[c], port[c], via_tls[c], charged[c])
  BY DEF AllKept
<1>1. ASSUME NEW a \in Front!Limited, Front!WindowEnds(a) PROVE Tabled' /\ AllKept'
  BY <1>1 DEF Front!WindowEnds, Tabled, AllKept, Kept, Front!PermitsMatch, Front!NoStaleQueue
<1>2. ASSUME NEW c \in Conns, NEW a \in Addresses, NEW l \in FrontListeners, Front!Accept(c, a, l) PROVE Tabled' /\ AllKept'
  <2>1. /\ stage[c] = "new" /\ from' = [from EXCEPT ![c] = a] /\ port' = [port EXCEPT ![c] = l]
        /\ charged' = [charged EXCEPT ![c] = {a} \ Loopback] /\ via_tls' = via_tls /\ tcp_map' = tcp_map
        /\ \/ Front!Goes(c, "first") /\ permits' = permits \cup {c}
           \/ Front!Goes(c, "closed") /\ permits' = permits
    BY <1>2 DEF Front!Accept
  <2>2. PICK s \in {"first", "closed"} : /\ Front!Goes(c, s)
                                         /\ permits' = IF s = "first" THEN permits \cup {c} ELSE permits
    BY <2>1
  <2>3. c \notin permits
    BY <2>1 DEF Tabled, Front!PermitsMatch, Front!Classifying
  <2>4. /\ from'[c] = a /\ port'[c] = l /\ charged'[c] = {a} \ Loopback
        /\ \A d \in Conns \ {c} : from'[d] = from[d] /\ port'[d] = port[d] /\ charged'[d] = charged[d]
        /\ DOMAIN from' = Conns /\ DOMAIN port' = Conns /\ DOMAIN charged' = Conns /\ via_tls' \in [Conns -> BOOLEAN]
    BY <2>1 DEF Tabled
  <2>5. Tabled'
    <3>1. /\ s \in Stages /\ s \notin {"uot", "ending"} /\ stage[c] \notin {"uot", "ending"}
          /\ permits' = IF s \in Front!Classifying \cup {"spliced"} THEN permits \cup {c} ELSE permits \ {c}
      BY <2>1, <2>2, <2>3 DEF Stages, Front!Classifying
    <3>2. from' = from \/ (stage[c] = "new" /\ \A d \in Conns \ {c} : from'[d] = from[d])
      BY <2>1, <2>4
    <3> QED BY <2>1, <2>2, <2>4, <3>1, <3>2, Passes
  <2>6. stage'[c] = s /\ \A d \in Conns \ {c} : stage'[d] = stage[d]
    BY <2>2 DEF Tabled, Front!Goes
  <2>7. Kept(stage'[c], from'[c], port'[c], via_tls'[c], charged'[c])
    BY <2>4, <2>6 DEF Kept, Front!Classifying
  <2>8. \A d \in Conns \ {c} : /\ stage'[d] = stage[d] /\ from'[d] = from[d] /\ port'[d] = port[d]
                               /\ via_tls'[d] = via_tls[d] /\ charged'[d] = charged[d]
    BY <2>1, <2>4, <2>6
  <2>9. AllKept'
    BY <2>7, <2>8, OthersKept
  <2> QED BY <2>5, <2>9
<1>3. ASSUME NEW c \in Conns, Front!Expire(c) PROVE Tabled' /\ AllKept'
  <2>1. /\ Front!Goes(c, "closed") /\ Front!Released(c) /\ UNCHANGED <<from, port, via_tls, charged, tcp_map>>
        /\ stage[c] \in Front!Classifying \cup {"spliced", "panel", "subscribed"}
    BY <1>3 DEF Front!Expire
  <2> QED BY <2>1, Closes
<1>4. ASSUME NEW c \in Conns, NEW class \in Front!Classes, Front!FirstByte(c, class) PROVE Tabled' /\ AllKept'
  <2>0. stage[c] = "first" /\ UNCHANGED <<from, port, via_tls, charged>> /\ stage[c] \in Front!Classifying
    BY <1>4 DEF Front!FirstByte, Front!Classifying
  <2>1. CASE Front!Goes(c, "closed") /\ Front!Released(c) /\ UNCHANGED tcp_map
    BY <2>0, <2>1, Closes
  <2>2. CASE Front!Goes(c, "handshake") /\ UNCHANGED <<permits, tcp_map>>
    <3>1. c \in permits
      BY <2>0 DEF Tabled, Front!PermitsMatch
    <3>2. /\ "handshake" \in Stages /\ "handshake" \notin {"uot", "ending"} /\ stage[c] \notin {"uot", "ending"}
          /\ permits' = IF "handshake" \in Front!Classifying \cup {"spliced"} THEN permits \cup {c} ELSE permits \ {c}
      BY <2>0, <2>2, <3>1 DEF Stages, Front!Classifying
    <3>3. Kept("handshake", from[c], port[c], via_tls[c], charged[c])
      BY <1>0, <2>0 DEF Kept, Front!Classifying
    <3> QED BY <2>0, <2>2, <3>2, <3>3, Moves
  <2>3. CASE ~Front!Refused(c, class) /\ ~Front!EndsTls(c, class) /\ Front!Routed(c, class)
    <3>1. port[c] \in FrontListeners
      BY <1>0, <2>0 DEF Kept
    <3>2. port[c].required => via_tls[c]
      BY <2>3, <3>1, FrontConstants DEF Front!Refused, Front!EndsTls
    <3> QED BY <2>0, <2>3, <3>2, RoutedKeeps
  <2> QED BY <1>4, <2>1, <2>2, <2>3 DEF Front!FirstByte
<1>5. ASSUME NEW c \in Conns, Front!Handshake(c) PROVE Tabled' /\ AllKept'
  <2>1. /\ stage[c] = "handshake" /\ Front!Goes(c, "dispatch") /\ via_tls' = [via_tls EXCEPT ![c] = TRUE]
        /\ UNCHANGED <<from, port, permits, charged, tcp_map>>
    BY <1>5 DEF Front!Handshake
  <2>2. c \in permits
    BY <2>1 DEF Tabled, Front!PermitsMatch, Front!Classifying
  <2>3. /\ via_tls' \in [Conns -> BOOLEAN] /\ via_tls'[c] = TRUE /\ \A d \in Conns \ {c} : via_tls'[d] = via_tls[d]
        /\ stage'[c] = "dispatch" /\ \A d \in Conns \ {c} : stage'[d] = stage[d]
    BY <2>1 DEF Tabled, Front!Goes
  <2>4. Tabled'
    <3>1. /\ "dispatch" \in Stages /\ "dispatch" \notin {"uot", "ending"} /\ stage[c] \notin {"uot", "ending"}
          /\ permits' = IF "dispatch" \in Front!Classifying \cup {"spliced"} THEN permits \cup {c} ELSE permits \ {c}
          /\ from' = from /\ DOMAIN from' = Conns /\ DOMAIN port' = Conns /\ DOMAIN charged' = Conns
      BY <2>1, <2>2 DEF Tabled, Stages, Front!Classifying
    <3> QED BY <2>1, <2>3, <3>1, Passes
  <2>5. Kept(stage'[c], from'[c], port'[c], via_tls'[c], charged'[c])
    BY <1>0, <2>1, <2>3 DEF Kept, Front!Classifying
  <2>6. \A d \in Conns \ {c} : /\ stage'[d] = stage[d] /\ from'[d] = from[d] /\ port'[d] = port[d]
                               /\ via_tls'[d] = via_tls[d] /\ charged'[d] = charged[d]
    BY <2>1, <2>3
  <2>7. AllKept'
    BY <2>5, <2>6, OthersKept
  <2> QED BY <2>4, <2>7
<1>6. ASSUME NEW c \in Conns, NEW class \in Front!Classes, Front!Dispatch(c, class) PROVE Tabled' /\ AllKept'
  <2>1. /\ stage[c] = "dispatch" /\ stage[c] \in Front!Classifying /\ Front!Routed(c, class)
        /\ UNCHANGED <<from, port, via_tls, charged>>
    BY <1>6 DEF Front!Dispatch, Front!Classifying
  <2>2. port[c].required => via_tls[c]
    BY <1>0, <2>1 DEF Kept
  <2> QED BY <2>1, <2>2, RoutedKeeps
<1>7. ASSUME NEW c \in Conns, NEW asks, Front!Request(c, asks) PROVE Tabled' /\ AllKept'
  <2>0. stage[c] = "head" /\ UNCHANGED <<from, port, via_tls, charged, tcp_map>> /\ stage[c] \in Front!Classifying
    BY <1>7 DEF Front!Request, Front!Classifying
  <2>1. ASSUME NEW s \in {"subscribed", "panel"}, Front!Goes(c, s), Front!Released(c), s = "subscribed" => Front!Private(c)
        PROVE  Tabled' /\ AllKept'
    <3>1. /\ s \in Stages /\ s \notin {"uot", "ending"} /\ stage[c] \notin {"uot", "ending"}
          /\ permits' = IF s \in Front!Classifying \cup {"spliced"} THEN permits \cup {c} ELSE permits \ {c}
      BY <2>0, <2>1 DEF Stages, Front!Classifying, Front!Released
    <3>2. Kept(s, from[c], port[c], via_tls[c], charged[c])
      BY <1>0, <2>0, <2>1 DEF Kept, Front!Classifying, Front!Private
    <3> QED BY <2>0, <2>1, <3>1, <3>2, Moves
  <2>2. CASE Front!ToDecoy(c)
    BY <2>0, <2>2, Decoyed
  <2> QED BY <1>7, <2>1, <2>2 DEF Front!Request
<1>8. ASSUME NEW c \in Conns, NEW via, Front!Upgrade(c, via) PROVE Tabled' /\ AllKept'
  <2>0. stage[c] = "head" /\ UNCHANGED <<from, port, via_tls>> /\ stage[c] \in Front!Classifying
    BY <1>8 DEF Front!Upgrade, Front!Classifying
  <2>1. port[c].required => via_tls[c]
    BY <1>0, <2>0 DEF Kept
  <2>2. CASE ~Front!Forwarded(c, via)
    <3>1. Front!ToUot(c) /\ charged' = charged
      BY <1>8, <2>2 DEF Front!Upgrade
    <3>2. /\ DOMAIN charged' = Conns /\ \A d \in Conns \ {c} : charged'[d] = charged[d]
          /\ charged' = charged \/ (from[c] \in Loopback /\ charged'[c] \subseteq Clients /\ Cardinality(charged'[c]) <= 1)
      BY <3>1 DEF Tabled
    <3> QED BY <2>0, <2>1, <3>1, <3>2, Tunnelled
  <2>3. CASE Front!Forwarded(c, via)
    <3>1. via \in Clients /\ from[c] \in Loopback /\ charged' = [charged EXCEPT ![c] = @ \cup {via}]
      BY <1>8, <2>3 DEF Front!Upgrade, Front!Forwarded
    <3>2. charged[c] = {}
      BY <1>0, <2>0, <3>1 DEF Kept
    <3>3. /\ DOMAIN charged' = Conns /\ charged'[c] = {via} /\ \A d \in Conns \ {c} : charged'[d] = charged[d]
      BY <3>1, <3>2 DEF Tabled
    <3>4. charged'[c] \subseteq Clients /\ Cardinality(charged'[c]) <= 1
      <4>1. Cardinality({via}) = 1
        BY FS_Singleton
      <4> QED BY <3>1, <3>3, <4>1
    <3>5. CASE Front!ToUot(c)
      BY <2>0, <2>1, <3>1, <3>3, <3>4, <3>5, Tunnelled
    <3>6. CASE Front!Goes(c, "closed") /\ Front!Released(c) /\ UNCHANGED tcp_map
      <4>1. /\ "closed" \in Stages /\ "closed" \notin {"uot", "ending"} /\ stage[c] \notin {"uot", "ending"}
            /\ permits' = IF "closed" \in Front!Classifying \cup {"spliced"} THEN permits \cup {c} ELSE permits \ {c}
            /\ from' = from /\ DOMAIN from' = Conns /\ DOMAIN port' = Conns /\ via_tls' \in [Conns -> BOOLEAN] /\ tcp_map' = tcp_map
        BY <2>0, <3>6 DEF Tabled, Stages, Front!Classifying, Front!Released
      <4>2. Tabled'
        BY <3>3, <3>6, <4>1, Passes
      <4>3. stage'[c] = "closed" /\ \A d \in Conns \ {c} : stage'[d] = stage[d]
        BY <3>6 DEF Tabled, Front!Goes
      <4>4. Kept(stage'[c], from'[c], port'[c], via_tls'[c], charged'[c])
        BY <1>0, <2>0, <4>3 DEF Kept, Front!Classifying
      <4>5. \A d \in Conns \ {c} : /\ stage'[d] = stage[d] /\ from'[d] = from[d] /\ port'[d] = port[d]
                                   /\ via_tls'[d] = via_tls[d] /\ charged'[d] = charged[d]
        BY <2>0, <3>3, <4>3
      <4>6. AllKept'
        BY <4>4, <4>5, OthersKept
      <4> QED BY <4>2, <4>6
    <3> QED BY <1>8, <2>3, <3>5, <3>6 DEF Front!Upgrade
  <2> QED BY <2>2, <2>3
<1>9. ASSUME NEW c \in Conns, Front!UotEnds(c) \/ Front!UotGone(c) PROVE Tabled' /\ AllKept'
  <2>1. PICK s \in {"ending", "closed"} :
          /\ Front!Goes(c, s) /\ UNCHANGED <<from, port, via_tls, permits, charged>>
          /\ \/ s = "ending" /\ stage[c] = "uot" /\ UNCHANGED tcp_map
             \/ s = "closed" /\ stage[c] = "ending" /\ tcp_map' = [tcp_map EXCEPT ![from[c]] = 0]
    <3>1. CASE Front!UotEnds(c)
      <4>1. /\ Front!Goes(c, "ending") /\ UNCHANGED <<from, port, via_tls, permits, charged>>
            /\ stage[c] = "uot" /\ UNCHANGED tcp_map
        BY <3>1 DEF Front!UotEnds
      <4> QED BY <4>1
    <3>2. CASE Front!UotGone(c)
      <4>1. /\ Front!Goes(c, "closed") /\ UNCHANGED <<from, port, via_tls, permits, charged>>
            /\ stage[c] = "ending" /\ tcp_map' = [tcp_map EXCEPT ![from[c]] = 0]
        BY <3>2 DEF Front!UotGone, Front!Cleared
      <4> QED BY <4>1
    <3> QED BY <1>9, <3>1, <3>2
  <2>2. /\ stage' \in [Conns -> Stages] /\ stage'[c] = s /\ \A d \in Conns \ {c} : stage'[d] = stage[d]
    BY <2>1 DEF Tabled, Front!Goes, Stages
  <2>3. Front!PermitsMatch'
    BY <2>1, <2>2 DEF Tabled, Front!PermitsMatch, Front!Classifying
  <2>4. Front!NoStaleQueue'
    <3> SUFFICES ASSUME NEW a \in Addresses, tcp_map'[a] # 0
                 PROVE  from[tcp_map'[a]] = a /\ stage'[tcp_map'[a]] \in {"uot", "ending"}
      BY <2>1 DEF Front!NoStaleQueue
    <3>1. tcp_map'[a] = tcp_map[a] /\ (s = "closed" => a # from[c])
      BY <2>1 DEF Tabled
    <3>2. tcp_map[a] \in Conns /\ from[tcp_map[a]] = a /\ stage[tcp_map[a]] \in {"uot", "ending"}
      BY <3>1 DEF Tabled, Front!NoStaleQueue
    <3> QED BY <2>1, <2>2, <3>1, <3>2
  <2>5. Tabled'
    BY <2>1, <2>2, <2>3, <2>4 DEF Tabled
  <2>6. Kept(stage'[c], from'[c], port'[c], via_tls'[c], charged'[c])
    BY <1>0, <2>1, <2>2 DEF Kept, Front!Classifying
  <2>7. \A d \in Conns \ {c} : /\ stage'[d] = stage[d] /\ from'[d] = from[d] /\ port'[d] = port[d]
                               /\ via_tls'[d] = via_tls[d] /\ charged'[d] = charged[d]
    BY <2>1, <2>2
  <2>8. AllKept'
    BY <2>6, <2>7, OthersKept
  <2> QED BY <2>5, <2>8
<1>10. ASSUME NEW c \in Conns, Front!Served(c) PROVE Tabled' /\ AllKept'
  <2>1. /\ Front!Goes(c, "closed") /\ Front!Released(c) /\ UNCHANGED <<from, port, via_tls, charged, tcp_map>>
        /\ stage[c] \in Front!Classifying \cup {"spliced", "panel", "subscribed"}
    BY <1>10 DEF Front!Served
  <2> QED BY <2>1, Closes
<1> QED BY <1>1, <1>2, <1>3, <1>4, <1>5, <1>6, <1>7, <1>8, <1>9, <1>10 DEF Front!Next

LEMMA FrontInvStep ==
  ASSUME Front!Valid, FrontInv, Front!Next \/ UNCHANGED frontVars
  PROVE  FrontInv'
<1>1. Tabled /\ AllKept
  BY FrontInvIs
<1>2. CASE Front!Next
  <2>1. Tabled' /\ AllKept'
    BY <1>1, <1>2, FrontStep
  <2>2. (FrontInv <=> Tabled /\ AllKept)'
    BY FrontInvIs, PTL
  <2> QED BY <2>1, <2>2
<1>3. CASE UNCHANGED frontVars
  BY <1>3 DEF frontVars, FrontInv, FrontTyped, Charged, ThroughTls, Front!PermitsMatch, Front!NoStaleQueue,
              Front!CountedOnce, Front!CredentialsStayPrivate, Front!HttpsIsTls
<1> QED BY <1>2, <1>3

(* A UDP client is answered through a socket that reaches it, the one it last *)
(* wrote to while it is remembered (udp.rs); on the TCP side permits, table   *)
(* and counts match the connections, and no subscription and no tunnel of the *)
(* https port goes without TLS (sniff.rs, limiter.rs, uot.rs).                *)
THEOREM TransportsAreSound == PartsSpec => []TransportsSound
<1>1. PartsInit => RepliesInv /\ FrontInv
  BY ServerAssumption, RepliesInvInit, FrontInvInit DEF PartsInit
<1>2. RepliesInv /\ [PartsNext]_partsVars => RepliesInv'
  BY ServerAssumption, RepliesInvStep DEF PartsNext, partsVars
<1>3. FrontInv /\ [PartsNext]_partsVars => FrontInv'
  BY ServerAssumption, FrontInvStep DEF PartsNext, partsVars
<1>4. RepliesInv /\ FrontInv => TransportsSound
  BY ServerAssumption, RepliesInvSound DEF TransportsSound, FrontInv, Front!FrontSound
<1> QED BY <1>1, <1>2, <1>3, <1>4, PTL DEF PartsSpec

--------------------------------------------------------------------------------
(* The certificates: the proofs.                                              *)

LEMMA CertCounts == \A S : Certs!Cardinality(S) = Cardinality(S)
BY DEF Cardinality, Certs!Cardinality

LEMMA CertInvInit ==
  ASSUME Certs!Valid, Certs!Init
  PROVE  CertInv
<1>1. MaxIssued \in Nat \ {0}
  BY DEF Certs!Valid
<1>2. Certs!Idle \in ReloadRecord /\ Certs!Idle.at = "idle"
  BY DEF Certs!Idle, ReloadRecord, Pair
<1>3. CertTyped
  <2>1. at \in [Certs!Issuers -> CertSteps]
    BY DEF Certs!Init, CertSteps, Certs!Issuers
  <2>2. reloading \in [Certs!Reloaders -> ReloadRecord]
    BY <1>2 DEF Certs!Init
  <2>3. /\ cert_file \in 0..MaxIssued /\ key_file \in 0..MaxIssued /\ issued \in 1..MaxIssued
        /\ lock_file \in Certs!Issuers \cup {"none"} /\ broke \in BOOLEAN
        /\ challenges \subseteq Certs!Issuers /\ answers \subseteq {"service"} /\ resolver \in {"on", "off"}
    <3>1. /\ cert_file = 0 /\ key_file = 0 /\ issued = 1 /\ lock_file = "none" /\ broke = FALSE
          /\ challenges = {} /\ answers = {} /\ resolver = "off"
      BY DEF Certs!Init
    <3>2. 0 \in 0..MaxIssued /\ 1 \in 1..MaxIssued
      BY <1>1
    <3>3. broke \in BOOLEAN
      BY <3>1
    <3> QED BY <3>1, <3>2, <3>3
  <2> QED BY <2>1, <2>2, <2>3 DEF CertTyped
<1>4. Locked /\ Challenged
  BY DEF Certs!Init, Locked, Challenged, Certs!Issuing, Certs!Issuers
<1>5. Paired /\ InMemory
  BY <1>2 DEF Certs!Init, Paired, InMemory, Certs!Reloaders
<1> QED BY <1>3, <1>4, <1>5 DEF CertInv

(* The steps of one issuer.                                                   *)
LEMMA Issuers ==
  ASSUME CertTyped, NEW i \in Certs!Issuers, NEW s \in CertSteps, Certs!Goes(i, s)
  PROVE  /\ at' \in [Certs!Issuers -> CertSteps] /\ at'[i] = s
         /\ \A j \in Certs!Issuers : j # i => at'[j] = at[j]
BY DEF CertTyped, Certs!Goes

(* A record of a reload keeps its type.                                       *)
LEMMA ReloadTyped ==
  ASSUME CertTyped, NEW r \in Certs!Reloaders, NEW rec \in ReloadRecord, Certs!Reload(r, rec)
  PROVE  /\ reloading' \in [Certs!Reloaders -> ReloadRecord] /\ reloading'[r] = rec
         /\ \A q \in Certs!Reloaders : q # r => reloading'[q] = reloading[q]
BY DEF CertTyped, Certs!Reload

(* An issuer that takes a step from one place to another.                     *)
LEMMA IssuerSteps ==
  ASSUME CertInv, NEW i \in Certs!Issuers, NEW s \in CertSteps, Certs!Goes(i, s),
         UNCHANGED <<cert_file, key_file, issued, resolver, current, reloading>>,
         lock_file' \in Certs!Issuers \cup {"none"}, broke' \in BOOLEAN,
         challenges' \subseteq Certs!Issuers, answers' \subseteq {"service"},
         Locked',
         s = "order" => i \in challenges', \A j \in Certs!Issuers : j # i /\ j \in challenges => j \in challenges',
         i = "service" => at[i] # "reload",
         i = "service" => (answers' # {} => s = "order"), i # "service" => answers' \subseteq answers
  PROVE  CertInv'
<1>0. CertTyped /\ Challenged /\ Paired /\ InMemory
  BY DEF CertInv
<1>1. /\ at' \in [Certs!Issuers -> CertSteps] /\ at'[i] = s
      /\ \A j \in Certs!Issuers : j # i => at'[j] = at[j]
  BY <1>0, Issuers
<1>2. CertTyped'
  BY <1>0, <1>1 DEF CertTyped
<1>3. Challenged'
  BY <1>0, <1>1 DEF Challenged
<1>4. Paired'
  BY <1>0 DEF Paired
<1>5. InMemory'
  BY <1>0, <1>1 DEF InMemory, Certs!Issuers
<1> QED BY <1>2, <1>3, <1>4, <1>5 DEF CertInv

(* The lock as long as nobody takes or leaves it.                             *)
LEMMA LockedStays ==
  ASSUME CertInv, NEW i \in Certs!Issuers, NEW s \in CertSteps, Certs!Goes(i, s),
         s \in {"preflight", "order", "writekey", "writecert", "unlock"} => i \in Certs!Issuing, UNCHANGED <<lock_file, broke>>
  PROVE  Locked'
<1>1. /\ at'[i] = s /\ \A j \in Certs!Issuers : j # i => at'[j] = at[j]
  BY Issuers DEF CertInv
<1> QED BY <1>1 DEF CertInv, Locked, Certs!Issuing

(* Nobody else issues while the lock is not of another, as long as no lock    *)
(* was broken.                                                                *)
LEMMA LockedAlone ==
  ASSUME CertInv, ~broke, NEW i \in Certs!Issuers, lock_file = "none" \/ i \in Certs!Issuing
  PROVE  \A j \in Certs!Issuing : j = i
BY DEF CertInv, Locked, Certs!Issuing, Certs!Issuers

(* The lock and what is done under it.                                        *)
LEMMA IssuanceStep ==
  ASSUME Certs!Valid, CertInv, NEW i \in Certs!Issuers,
         \/ Certs!TakeLock(i) \/ Certs!RemoveStale(i) \/ Certs!Preflight(i) \/ Certs!Order(i)
         \/ (Certs!Asks(i) /\ at[i] = "idle")
  PROVE  CertInv'
<1>0. /\ CertTyped /\ Locked /\ Challenged /\ InMemory
      /\ lock_file \in Certs!Issuers \cup {"none"} /\ broke \in BOOLEAN /\ challenges \subseteq Certs!Issuers
      /\ answers \subseteq {"service"} /\ (answers # {} => at["service"] = "order")
  BY DEF CertInv, CertTyped, InMemory
<1>1. CASE Certs!Asks(i)
  <2>1. /\ at[i] = "idle" /\ "lock" \in CertSteps /\ Certs!Goes(i, "lock")
        /\ UNCHANGED <<cert_file, key_file, issued, resolver, current, reloading, lock_file, broke, challenges, answers>>
    BY <1>1 DEF Certs!Asks, CertSteps, Certs!diskVars, Certs!storeVars, Certs!servedVars, Certs!reloadVars
  <2>2. Locked'
    BY <2>1, LockedStays
  <2> QED BY <1>0, <2>1, <2>2, IssuerSteps
<1>2. CASE Certs!TakeLock(i)
  <2>1. /\ at[i] = "lock" /\ UNCHANGED <<cert_file, key_file, issued, resolver, current, reloading, broke, challenges, answers>>
    BY <1>2 DEF Certs!TakeLock, Certs!CreateNew, Certs!diskVars, Certs!storeVars, Certs!servedVars, Certs!reloadVars
  <2>2. CASE lock_file = "none" /\ lock_file' = i /\ Certs!Goes(i, "preflight")
    <3>1. "preflight" \in CertSteps
      BY DEF CertSteps
    <3>2. at'[i] = "preflight" /\ \A j \in Certs!Issuers : j # i => at'[j] = at[j]
      BY <1>0, <2>2, <3>1, Issuers
    <3>3. ~broke => Certs!Issuing = {}
      BY <1>0, <2>2 DEF Locked, Certs!Issuing, Certs!Issuers
    <3>4. Locked'
      BY <2>1, <2>2, <3>2, <3>3 DEF Locked, Certs!Issuing
    <3> QED BY <1>0, <2>1, <2>2, <3>1, <3>4, IssuerSteps
  <2>3. CASE UNCHANGED lock_file /\ (Certs!Goes(i, "remove") \/ Certs!Goes(i, "idle"))
    <3>1. PICK s \in {"remove", "idle"} : Certs!Goes(i, s)
      BY <2>3
    <3>2. s \in CertSteps /\ s # "order"
      BY DEF CertSteps
    <3>3. Locked'
      BY <2>1, <2>3, <3>1, <3>2, LockedStays
    <3> QED BY <1>0, <2>1, <2>3, <3>1, <3>2, <3>3, IssuerSteps
  <2> QED BY <1>2, <2>2, <2>3 DEF Certs!TakeLock, Certs!CreateNew
<1>3. CASE Certs!RemoveStale(i)
  <2>1. /\ at[i] = "remove" /\ lock_file' = "none" /\ broke' = TRUE
        /\ UNCHANGED <<cert_file, key_file, issued, resolver, current, reloading, challenges, answers>>
    BY <1>3 DEF Certs!RemoveStale, Certs!diskVars, Certs!storeVars, Certs!servedVars, Certs!reloadVars
  <2>2. PICK s \in {"lock", "idle"} : Certs!Goes(i, s)
    BY <1>3 DEF Certs!RemoveStale
  <2>3. s \in CertSteps /\ s # "order" /\ Locked'
    BY <2>1 DEF CertSteps, Locked
  <2> QED BY <1>0, <2>1, <2>2, <2>3, IssuerSteps
<1>4. CASE Certs!Preflight(i)
  <2>1. /\ at[i] = "preflight" /\ i \in Certs!Issuing
        /\ UNCHANGED <<cert_file, key_file, issued, resolver, current, reloading, lock_file, broke>>
    BY <1>4 DEF Certs!Preflight, Certs!Issuing, Certs!diskVars, Certs!lockVars, Certs!servedVars, Certs!reloadVars
  <2>2. CASE Certs!Put(i) /\ Certs!Goes(i, "order")
    <3>1. "order" \in CertSteps /\ challenges' = challenges \cup {i} /\ answers' = answers \cup ({i} \cap {"service"})
      BY <2>2 DEF CertSteps, Certs!Put
    <3>2. Locked'
      BY <2>1, <2>2, <3>1, LockedStays
    <3>3. i # "service" => answers' \subseteq answers
      BY <3>1
    <3>4. challenges' \subseteq Certs!Issuers /\ answers' \subseteq {"service"} /\ i \in challenges'
          /\ \A j \in Certs!Issuers : j # i /\ j \in challenges => j \in challenges'
      BY <1>0, <3>1
    <3> QED BY <1>0, <2>1, <2>2, <3>1, <3>2, <3>3, <3>4, IssuerSteps
  <2>3. CASE Certs!Goes(i, "unlock") /\ UNCHANGED <<challenges, answers>>
    <3>1. "unlock" \in CertSteps
      BY DEF CertSteps
    <3>2. Locked'
      BY <2>1, <2>3, <3>1, LockedStays
    <3> QED BY <1>0, <2>1, <2>3, <3>1, <3>2, IssuerSteps
  <2> QED BY <1>4, <2>2, <2>3 DEF Certs!Preflight, Certs!storeVars
<1>5. CASE Certs!Order(i)
  <2>1. /\ at[i] = "order" /\ i \in Certs!Issuing /\ challenges' = challenges \ {i} /\ answers' = answers \ {i}
        /\ UNCHANGED <<cert_file, key_file, issued, resolver, current, reloading, lock_file, broke>>
    BY <1>5 DEF Certs!Order, Certs!Issuing, Certs!diskVars, Certs!lockVars, Certs!servedVars, Certs!reloadVars
  <2>2. PICK s \in {"writekey", "unlock"} : Certs!Goes(i, s)
    BY <1>5 DEF Certs!Order, Certs!Goes
  <2>3. s \in CertSteps /\ s # "order"
    BY DEF CertSteps
  <2>4. Locked'
    BY <2>1, <2>2, <2>3, LockedStays
  <2>5. /\ challenges' \subseteq Certs!Issuers /\ answers' \subseteq {"service"}
        /\ \A j \in Certs!Issuers : j # i /\ j \in challenges => j \in challenges'
        /\ (i = "service" => answers' = {}) /\ (i # "service" => answers' \subseteq answers)
    BY <1>0, <2>1
  <2> QED BY <1>0, <2>1, <2>2, <2>3, <2>4, <2>5, IssuerSteps
<1> QED BY <1>1, <1>2, <1>3, <1>4, <1>5

(* The files, and the lock after them.                                        *)
LEMMA WriteStep ==
  ASSUME Certs!Valid, CertInv, NEW i \in Certs!Issuers, Certs!WriteKey(i) \/ Certs!WriteCert(i) \/ Certs!Unlock(i)
  PROVE  CertInv'
<1>0. /\ CertTyped /\ Locked /\ Challenged /\ Paired /\ InMemory /\ MaxIssued \in Nat \ {0}
  BY DEF CertInv, Certs!Valid
<1>1. CASE Certs!WriteKey(i) \/ Certs!WriteCert(i)
  <2>1. PICK s \in {"writecert", "unlock"} :
          /\ Certs!Goes(i, s) /\ i \in Certs!Issuing /\ at[i] # "reload" /\ at[i] # "order"
          /\ UNCHANGED <<lock_file, broke, challenges, answers, resolver, current, reloading>>
    BY <1>1 DEF Certs!WriteKey, Certs!WriteCert, Certs!Issuing, Certs!lockVars, Certs!storeVars, Certs!servedVars, Certs!reloadVars
  <2>2. /\ cert_file' \in 0..MaxIssued /\ key_file' \in 0..MaxIssued /\ issued' \in 1..MaxIssued
        /\ (cert_file # 0 /\ key_file # 0) => (cert_file' # 0 /\ key_file' # 0)
    BY <1>0, <1>1 DEF Certs!WriteKey, Certs!WriteCert, CertTyped
  <2>3. s \in CertSteps
    BY DEF CertSteps
  <2>4. Locked'
    BY <2>1, <2>3, LockedStays
  <2>5. at' \in [Certs!Issuers -> CertSteps] /\ at'[i] = s /\ \A j \in Certs!Issuers : j # i => at'[j] = at[j]
    BY <1>0, <2>1, <2>3, Issuers
  <2>6. CertTyped'
    BY <1>0, <2>1, <2>2, <2>5 DEF CertTyped
  <2>7. Challenged' /\ InMemory'
    BY <1>0, <2>1, <2>5 DEF Challenged, InMemory, Certs!Issuers
  <2>8. Paired'
    BY <1>0, <2>1, <2>2 DEF Paired
  <2> QED BY <2>4, <2>6, <2>7, <2>8 DEF CertInv
<1>2. CASE Certs!Unlock(i)
  <2>1. /\ at[i] = "unlock" /\ i \in Certs!Issuing /\ lock_file' = "none"
        /\ UNCHANGED <<cert_file, key_file, issued, broke, challenges, answers, resolver, current>>
    BY <1>2 DEF Certs!Unlock, Certs!Issuing, Certs!diskVars, Certs!storeVars, Certs!servedVars
  <2>2. PICK s \in {"reload", "idle"} : Certs!Goes(i, s)
    BY <1>2 DEF Certs!Unlock
  <2>3. /\ s \in CertSteps /\ s # "order"
        /\ s \notin {"preflight", "order", "writekey", "writecert", "unlock"}
    BY DEF CertSteps
  <2>4. at' \in [Certs!Issuers -> CertSteps] /\ at'[i] = s /\ \A j \in Certs!Issuers : j # i => at'[j] = at[j]
    BY <1>0, <2>2, <2>3, Issuers
  <2>5. Locked'
    <3>1. ~broke => \A j \in Certs!Issuing : j = i
      BY <2>1, LockedAlone
    <3>2. ~broke => \A j \in Certs!Issuers : j \notin Certs!Issuing'
      BY <2>3, <2>4, <3>1 DEF Certs!Issuing
    <3> QED BY <2>1, <3>2 DEF Locked, Certs!Issuing
  <2>6. Challenged'
    BY <1>0, <2>1, <2>3, <2>4 DEF Challenged
  <2>7. CASE i = "service" /\ resolver = "on" /\ ~due
    <3>1. /\ Certs!Goes(i, "reload") /\ reloading' = [reloading EXCEPT !["renewal"].at = "stat"]
      BY <1>2, <2>7 DEF Certs!Unlock
    <3>2. "renewal" \in Certs!Reloaders /\ reloading["renewal"] \in ReloadRecord
      BY <1>0 DEF CertTyped, Certs!Reloaders
    <3>3. [reloading["renewal"] EXCEPT !.at = "stat"] \in ReloadRecord /\ [reloading["renewal"] EXCEPT !.at = "stat"].at = "stat"
      BY <3>2 DEF ReloadRecord
    <3>4. reloading' = [reloading EXCEPT !["renewal"] = [reloading["renewal"] EXCEPT !.at = "stat"]]
      BY <3>1
    <3>5. /\ reloading' \in [Certs!Reloaders -> ReloadRecord] /\ reloading'["renewal"].at = "stat"
          /\ \A q \in Certs!Reloaders : q # "renewal" => reloading'[q] = reloading[q]
      BY <1>0, <3>2, <3>3, <3>4 DEF CertTyped
    <3>6. CertTyped'
      BY <1>0, <2>1, <2>4, <3>5 DEF CertTyped
    <3>7. Paired'
      BY <1>0, <2>1, <2>7, <3>5 DEF Paired
    <3>8. at'["service"] = "reload" /\ answers' = {}
      <4>1. at["service"] = "unlock" /\ answers' = answers /\ "service" \in Certs!Issuers /\ "reload" \in CertSteps
        BY <2>1, <2>7 DEF Certs!Issuers, CertSteps
      <4>2. at'["service"] = "reload"
        BY <1>0, <2>7, <3>1, <4>1, Issuers
      <4> QED BY <1>0, <4>1, <4>2 DEF InMemory
    <3>9. InMemory'
      BY <3>8 DEF InMemory
    <3> QED BY <2>5, <2>6, <3>6, <3>7, <3>9 DEF CertInv
  <2>8. CASE ~(i = "service" /\ resolver = "on" /\ ~due)
    <3>1. reloading' = reloading
      BY <1>2, <2>8 DEF Certs!Unlock, Certs!reloadVars
    <3>2. CertTyped' /\ Paired'
      BY <1>0, <2>1, <2>4, <3>1 DEF CertTyped, Paired
    <3>3. InMemory'
      BY <1>0, <2>1, <2>4, <3>1 DEF InMemory, Certs!Issuers
    <3> QED BY <2>5, <2>6, <3>2, <3>3 DEF CertInv
  <2> QED BY <2>7, <2>8
<1> QED BY <1>1, <1>2

(* The steps of a reload.                                                     *)
LEMMA ReloadStep ==
  ASSUME Certs!Valid, CertInv, NEW r \in Certs!Reloaders, Certs!Reloading(r)
  PROVE  CertInv'
<1>0. /\ CertTyped /\ Locked /\ Challenged /\ Paired /\ InMemory
      /\ reloading[r] \in ReloadRecord /\ cert_file \in Nat /\ key_file \in Nat /\ Certs!Idle \in ReloadRecord
      /\ Certs!Idle.at = "idle"
  <2>1. Certs!Idle \in ReloadRecord /\ Certs!Idle.at = "idle"
    BY DEF Certs!Idle, ReloadRecord, Pair
  <2>2. 0..MaxIssued \subseteq Nat
    BY DEF Certs!Valid
  <2> QED BY <2>1, <2>2 DEF CertInv, CertTyped
<1>1. /\ reloading[r].at # "idle" /\ cert_file # 0 /\ key_file # 0
      /\ UNCHANGED <<cert_file, key_file, issued, lock_file, broke, challenges, answers, resolver>>
  <2>1. reloading[r].at # "idle" /\ UNCHANGED <<cert_file, key_file, issued, lock_file, broke, challenges, answers, resolver>>
    BY DEF Certs!Reloading, Certs!StatFiles, Certs!ReadCert, Certs!ReadKey, Certs!Swap, Certs!Note, Certs!Step,
           Certs!diskVars, Certs!lockVars, Certs!storeVars, Certs!servedVars
  <2> QED BY <1>0, <2>1 DEF Paired
<1>2. ASSUME NEW rec \in ReloadRecord, Certs!Reload(r, rec), at' = at \/ (r = "renewal" /\ rec.at = "idle" /\ Certs!Goes("service", "idle")),
             rec.at = "swap" => rec.cert = rec.key /\ rec.key # 0, rec.at # "idle" => at' = at,
             current' = current \/ (current'.cert = current'.key /\ current'.cert # 0)
      PROVE  CertInv'
  <2>1. /\ reloading' \in [Certs!Reloaders -> ReloadRecord] /\ reloading'[r] = rec
        /\ \A q \in Certs!Reloaders : q # r => reloading'[q] = reloading[q]
    BY <1>0, <1>2, ReloadTyped
  <2>2. CASE at' = at
    <3>1. CertTyped'
      BY <1>0, <1>1, <2>1, <2>2 DEF CertTyped
    <3>2. Locked' /\ Challenged'
      BY <1>0, <1>1, <2>2 DEF Locked, Challenged, Certs!Issuing
    <3>3. Paired'
      BY <1>0, <1>1, <1>2, <2>1 DEF Paired
    <3>4. InMemory'
      BY <1>0, <1>1, <1>2, <2>1, <2>2 DEF InMemory, Certs!Reloaders
    <3> QED BY <3>1, <3>2, <3>3, <3>4 DEF CertInv
  <2>3. CASE r = "renewal" /\ rec.at = "idle" /\ Certs!Goes("service", "idle")
    <3>0. "service" \in Certs!Issuers /\ "idle" \in CertSteps
      BY DEF Certs!Issuers, CertSteps
    <3>1. /\ at' \in [Certs!Issuers -> CertSteps] /\ at'["service"] = "idle"
          /\ \A j \in Certs!Issuers : j # "service" => at'[j] = at[j]
      BY <1>0, <2>3, <3>0, Issuers
    <3>2. at["service"] = "reload" /\ answers = {}
      BY <1>0, <1>1, <2>3 DEF InMemory
    <3>3. CertTyped'
      BY <1>0, <1>1, <2>1, <3>1 DEF CertTyped
    <3>4. Locked' /\ Challenged'
      BY <1>0, <1>1, <3>1 DEF Locked, Challenged, Certs!Issuing
    <3>5. Paired'
      BY <1>0, <1>1, <1>2, <2>1 DEF Paired
    <3>6. InMemory'
      BY <1>1, <2>1, <2>3, <3>2 DEF InMemory
    <3> QED BY <3>3, <3>4, <3>5, <3>6 DEF CertInv
  <2> QED BY <1>2, <2>2, <2>3
<1>3. CASE Certs!StatFiles(r)
  <2>1. /\ Certs!Reload(r, [reloading[r] EXCEPT !.at = "cert", !.seen = Certs!Disk]) /\ at' = at /\ current' = current
    BY <1>3 DEF Certs!StatFiles, Certs!servedVars
  <2>2. /\ [reloading[r] EXCEPT !.at = "cert", !.seen = Certs!Disk] \in ReloadRecord
        /\ [reloading[r] EXCEPT !.at = "cert", !.seen = Certs!Disk].at = "cert"
    BY <1>0 DEF ReloadRecord, Pair, Certs!Disk
  <2> QED BY <1>2, <2>1, <2>2
<1>4. CASE Certs!ReadCert(r)
  <2>1. /\ Certs!Reload(r, [reloading[r] EXCEPT !.at = "key", !.cert = cert_file]) /\ at' = at /\ current' = current
    BY <1>4 DEF Certs!ReadCert, Certs!servedVars
  <2>2. /\ [reloading[r] EXCEPT !.at = "key", !.cert = cert_file] \in ReloadRecord
        /\ [reloading[r] EXCEPT !.at = "key", !.cert = cert_file].at = "key"
    BY <1>0 DEF ReloadRecord
  <2> QED BY <1>2, <2>1, <2>2
<1>5. CASE Certs!ReadKey(r)
  <2>0. current' = current
    BY <1>5 DEF Certs!ReadKey, Certs!servedVars
  <2>1. CASE Certs!Matches(r)
    <3>1. /\ Certs!Reload(r, [reloading[r] EXCEPT !.at = "swap", !.key = key_file]) /\ at' = at /\ reloading[r].cert = key_file
      BY <1>5, <2>1 DEF Certs!ReadKey, Certs!Matches
    <3>2. /\ [reloading[r] EXCEPT !.at = "swap", !.key = key_file] \in ReloadRecord
          /\ [reloading[r] EXCEPT !.at = "swap", !.key = key_file].at = "swap"
          /\ [reloading[r] EXCEPT !.at = "swap", !.key = key_file].cert = key_file
          /\ [reloading[r] EXCEPT !.at = "swap", !.key = key_file].key = key_file
      BY <1>0, <3>1 DEF ReloadRecord
    <3> QED BY <1>1, <1>2, <2>0, <3>1, <3>2
  <2>2. CASE ~Certs!Matches(r)
    <3>1. Certs!Reload(r, Certs!Idle) /\ (at' = at \/ (r = "renewal" /\ Certs!Goes("service", "idle")))
      BY <1>5, <2>2 DEF Certs!ReadKey, Certs!NotLoaded, Certs!Finish
    <3> QED BY <1>0, <1>2, <2>0, <3>1
  <2> QED BY <2>1, <2>2
<1>6. CASE Certs!Swap(r)
  <2>1. /\ reloading[r].at = "swap" /\ current' = [cert |-> reloading[r].cert, key |-> reloading[r].key] /\ at' = at
        /\ Certs!Reload(r, [reloading[r] EXCEPT !.at = "note"])
    BY <1>6 DEF Certs!Swap, Certs!Step
  <2>2. [reloading[r] EXCEPT !.at = "note"] \in ReloadRecord /\ [reloading[r] EXCEPT !.at = "note"].at = "note"
    BY <1>0 DEF ReloadRecord
  <2>3. current'.cert = current'.key /\ current'.cert # 0
    BY <1>0, <2>1 DEF Paired
  <2> QED BY <1>2, <2>1, <2>2, <2>3
<1>7. CASE Certs!Note(r)
  <2>1. /\ Certs!Reload(r, Certs!Idle) /\ current' = current /\ (at' = at \/ (r = "renewal" /\ Certs!Goes("service", "idle")))
    BY <1>7 DEF Certs!Note, Certs!Finish
  <2> QED BY <1>0, <1>2, <2>1
<1> QED BY <1>3, <1>4, <1>5, <1>6, <1>7 DEF Certs!Reloading

(* The service starts, stops and is killed, and so is the command.            *)
LEMMA LifeStep ==
  ASSUME Certs!Valid, CertInv, Certs!Start \/ Certs!Stop \/ \E i \in Certs!Issuers : Certs!Kill(i)
  PROVE  CertInv'
<1>0. /\ CertTyped /\ Locked /\ Challenged /\ Paired /\ InMemory /\ MaxIssued \in Nat \ {0}
      /\ "service" \in Certs!Issuers /\ {"idle", "down"} \subseteq CertSteps
      /\ Certs!Idle \in ReloadRecord /\ Certs!Idle.at = "idle"
  BY DEF CertInv, Certs!Valid, Certs!Issuers, CertSteps, Certs!Idle, ReloadRecord, Pair
<1>1. CASE Certs!Start
  <2>1. /\ at["service"] = "down" /\ Certs!Goes("service", "idle")
        /\ UNCHANGED <<issued, lock_file, broke, challenges, answers, reloading>>
    BY <1>1 DEF Certs!Start, Certs!Running, Certs!lockVars, Certs!storeVars, Certs!reloadVars
  <2>2. /\ at' \in [Certs!Issuers -> CertSteps] /\ at'["service"] = "idle"
        /\ \A j \in Certs!Issuers : j # "service" => at'[j] = at[j]
    BY <1>0, <2>1, Issuers
  <2>3. /\ cert_file' \in 0..MaxIssued /\ key_file' \in 0..MaxIssued /\ cert_file' # 0 /\ key_file' # 0
        /\ resolver' \in {"on", "off"} /\ (resolver' = "on" => current'.cert = current'.key /\ current'.cert # 0)
    BY <1>0, <1>1 DEF Certs!Start, Certs!Started, CertTyped
  <2>4. CertTyped'
    BY <1>0, <2>1, <2>2, <2>3 DEF CertTyped
  <2>5. Locked' /\ Challenged'
    BY <1>0, <2>1, <2>2 DEF Locked, Challenged, Certs!Issuing
  <2>6. Paired'
    BY <1>0, <2>1, <2>3 DEF Paired
  <2>7. InMemory'
    BY <1>0, <2>1 DEF InMemory
  <2> QED BY <2>4, <2>5, <2>6, <2>7 DEF CertInv
<1>2. ASSUME UNCHANGED <<cert_file, key_file, issued, broke>>, Certs!Goes("service", "down"), Certs!ServiceGone,
             UNCHANGED lock_file \/ (lock_file' = "none" /\ "service" \in Certs!Issuing)
      PROVE  CertInv'
  <2>1. /\ answers' = {} /\ challenges' = challenges /\ resolver' = "off"
        /\ reloading' = [r \in Certs!Reloaders |-> Certs!Idle]
    BY <1>2 DEF Certs!ServiceGone
  <2>2. /\ at' \in [Certs!Issuers -> CertSteps] /\ at'["service"] = "down"
        /\ \A j \in Certs!Issuers : j # "service" => at'[j] = at[j]
    BY <1>0, <1>2, Issuers
  <2>3. \A r \in Certs!Reloaders : reloading'[r].at = "idle"
    BY <1>0, <2>1
  <2>4. CertTyped'
    BY <1>0, <1>2, <2>1, <2>2 DEF CertTyped
  <2>5. Locked'
    <3>1. CASE UNCHANGED lock_file
      BY <1>0, <1>2, <2>2, <3>1 DEF Locked, Certs!Issuing
    <3>2. CASE "service" \in Certs!Issuing
      <4>1. ~broke => \A j \in Certs!Issuing : j = "service"
        BY <1>0, <3>2, LockedAlone
      <4> QED BY <1>2, <2>2, <4>1 DEF Locked, Certs!Issuing
    <3> QED BY <1>2, <3>1, <3>2
  <2>6. Challenged'
    BY <1>0, <2>1, <2>2 DEF Challenged
  <2>7. Paired'
    BY <2>1, <2>3 DEF Paired
  <2>8. InMemory'
    BY <2>1, <2>3 DEF InMemory, Certs!Reloaders
  <2> QED BY <2>4, <2>5, <2>6, <2>7, <2>8 DEF CertInv
<1>3. CASE Certs!Stop
  <2>1. /\ UNCHANGED <<cert_file, key_file, issued, broke>> /\ Certs!Goes("service", "down") /\ Certs!ServiceGone
        /\ UNCHANGED lock_file \/ (lock_file' = "none" /\ "service" \in Certs!Issuing)
    BY <1>0, <1>3 DEF Certs!Stop, Certs!diskVars, Certs!Issuing
  <2> QED BY <1>2, <2>1
<1>4. CASE Certs!Kill("service")
  <2>1. /\ UNCHANGED <<cert_file, key_file, issued, broke, lock_file>> /\ Certs!Goes("service", "down") /\ Certs!ServiceGone
    BY <1>4 DEF Certs!Kill, Certs!diskVars, Certs!lockVars
  <2> QED BY <1>2, <2>1
<1>5. CASE Certs!Kill("cli")
  <2>1. /\ Certs!Goes("cli", "idle") /\ "cli" \in Certs!Issuers
        /\ UNCHANGED <<cert_file, key_file, issued, broke, lock_file, challenges, answers, resolver, current, reloading>>
    BY <1>5 DEF Certs!Kill, Certs!diskVars, Certs!lockVars, Certs!storeVars, Certs!servedVars, Certs!reloadVars, Certs!Issuers
  <2>2. Locked'
    BY <1>0, <2>1, LockedStays
  <2>3. /\ lock_file' \in Certs!Issuers \cup {"none"} /\ broke' \in BOOLEAN /\ challenges' \subseteq Certs!Issuers /\ answers' \subseteq {"service"}
    BY <1>0, <2>1 DEF CertTyped
  <2> QED BY <1>0, <2>1, <2>2, <2>3, IssuerSteps
<1> QED BY <1>1, <1>3, <1>4, <1>5 DEF Certs!Issuers

LEMMA CertInvStep ==
  ASSUME Certs!Valid, CertInv, Certs!Next \/ UNCHANGED certVars
  PROVE  CertInv'
<1>0. CertTyped /\ Locked /\ Challenged /\ Paired /\ InMemory
  BY DEF CertInv
<1>1. CASE Certs!RenewalTask \/ Certs!Renew
  <2>1. PICK i \in Certs!Issuers : Certs!Asks(i) /\ at[i] = "idle"
    BY <1>1 DEF Certs!RenewalTask, Certs!Renew, Certs!Asks, Certs!Issuers
  <2> QED BY <2>1, IssuanceStep
<1>2. CASE Certs!GrowsStale \/ Certs!NearsExpiry
  <2>1. UNCHANGED <<cert_file, key_file, issued, lock_file, broke, at, challenges, answers, resolver, current, reloading>>
    BY <1>2 DEF Certs!GrowsStale, Certs!NearsExpiry, Certs!diskVars, Certs!lockVars, Certs!storeVars, Certs!servedVars, Certs!reloadVars
  <2> QED BY <1>0, <2>1 DEF CertInv, CertTyped, Locked, Challenged, Paired, InMemory, Certs!Issuing
<1>3. CASE Certs!Watch
  <2>1. /\ resolver = "on" /\ Certs!Reload("watch", [Certs!Idle EXCEPT !.at = "stat"]) /\ "watch" \in Certs!Reloaders
        /\ UNCHANGED <<cert_file, key_file, issued, lock_file, broke, at, challenges, answers, resolver, current>>
    BY <1>3 DEF Certs!Watch, Certs!diskVars, Certs!lockVars, Certs!storeVars, Certs!servedVars, Certs!Reloaders
  <2>2. [Certs!Idle EXCEPT !.at = "stat"] \in ReloadRecord /\ [Certs!Idle EXCEPT !.at = "stat"].at = "stat"
    BY DEF Certs!Idle, ReloadRecord, Pair
  <2>3. /\ reloading' \in [Certs!Reloaders -> ReloadRecord] /\ reloading'["watch"].at = "stat"
        /\ \A q \in Certs!Reloaders : q # "watch" => reloading'[q] = reloading[q]
    BY <1>0, <2>1, <2>2, ReloadTyped
  <2>4. CertTyped' /\ Paired'
    BY <1>0, <2>1, <2>3 DEF CertTyped, Paired
  <2>5. Locked' /\ Challenged'
    BY <1>0, <2>1 DEF Locked, Challenged, Certs!Issuing
  <2>6. InMemory'
    BY <1>0, <2>1, <2>3 DEF InMemory, Certs!Reloaders
  <2> QED BY <2>4, <2>5, <2>6 DEF CertInv
<1>4. CASE UNCHANGED certVars
  BY <1>0, <1>4 DEF certVars, CertInv, CertTyped, Locked, Challenged, Paired, InMemory, Certs!Issuing
<1>5. CASE \E i \in Certs!Issuers :
             Certs!TakeLock(i) \/ Certs!RemoveStale(i) \/ Certs!Preflight(i) \/ Certs!Order(i)
  BY <1>5, IssuanceStep
<1>6. CASE \E i \in Certs!Issuers : Certs!WriteKey(i) \/ Certs!WriteCert(i) \/ Certs!Unlock(i)
  BY <1>6, WriteStep
<1>7. CASE \E r \in Certs!Reloaders : Certs!Reloading(r)
  BY <1>7, ReloadStep
<1>8. CASE Certs!Start \/ Certs!Stop \/ \E i \in Certs!Issuers : Certs!Kill(i)
  BY <1>8, LifeStep
<1> QED BY <1>1, <1>2, <1>3, <1>4, <1>5, <1>6, <1>7, <1>8 DEF Certs!Next

LEMMA CertInvSound ==
  ASSUME CertInv
  PROVE  CertificatesSound
<1>1. Certs!OneIssuance
  <2> SUFFICES ASSUME ~broke PROVE Certs!Cardinality(Certs!Issuing) <= 1
    BY DEF Certs!OneIssuance
  <2>1. \A i, j \in Certs!Issuing : i = j
    BY DEF CertInv, Locked
  <2>2. Certs!Issuing = {} \/ \E i : Certs!Issuing = {i}
    BY <2>1
  <2>3. Cardinality(Certs!Issuing) <= 1
    <3>1. CASE Certs!Issuing = {}
      <4>1. Cardinality({}) = 0
        BY FS_EmptySet
      <4> QED BY <3>1, <4>1
    <3>2. CASE \E i : Certs!Issuing = {i}
      <4>1. PICK i : Certs!Issuing = {i}
        BY <3>2
      <4>2. Cardinality({i}) = 1
        BY FS_Singleton
      <4> QED BY <4>1, <4>2
    <3> QED BY <2>2, <3>1, <3>2
  <2> QED BY <2>3, CertCounts
<1>2. Certs!ChallengeAnswered
  BY DEF CertInv, Challenged, Certs!ChallengeAnswered, Certs!Answered
<1>3. Certs!ServesAPair
  BY DEF CertInv, Paired, Certs!ServesAPair
<1> QED BY <1>1, <1>2, <1>3 DEF CertificatesSound, Certs!CertificatesSound

(* As long as no lock had to be taken for stale, one issuance runs at a time; *)
(* a challenge is answered from when the CA is told of it; and what TLS       *)
(* serves is always a certificate with its own key, through renewals, kills,  *)
(* restarts and reloads in any order (tls/mod.rs, tls/acme.rs, cert_cmd.rs).  *)
THEOREM CertificatesAreSound == PartsSpec => []CertificatesSound
<1>1. PartsInit => CertInv
  BY ServerAssumption, CertInvInit DEF PartsInit
<1>2. CertInv /\ [PartsNext]_partsVars => CertInv'
  BY ServerAssumption, CertInvStep DEF PartsNext, partsVars
<1>3. CertInv => CertificatesSound
  BY CertInvSound
<1> QED BY <1>1, <1>2, <1>3, PTL DEF PartsSpec

--------------------------------------------------------------------------------
(* The settings.                                                              *)

EditPhases == {"new", "stats", "save", "put", "truncate", "fill", "refill", "restart", "done", "failed"}
FileRecord ==
  [state : {"whole", "torn", "null"}, keys : [EditUsers -> Config!Metas], api : {"first", "panel", "config"},
   dns : {"first", "dns"}, rules : {"first", "rules"}, comments : BOOLEAN]

SettingsTyped ==
  /\ plan \subseteq Config!EditRecord
  /\ phase \in [plan -> EditPhases] /\ held \in [plan -> FileRecord]
  /\ file \in FileRecord /\ content \in FileRecord
  /\ access_keys \in [EditUsers -> Config!Metas] /\ dns_memory \in {"first", "dns"}

(* The section of an edit in a file is the one it wrote.                      *)
Shows(e, f) ==
  /\ e.op \in {"panel", "config"} => f.api = e.op
  /\ e.op = "dns" => f.dns = "dns"
  /\ e.op = "rules" => f.rules = "rules"

(* One of a panel setting and a whole file replaces the other.                *)
Rivals(e, x) == {x.op, e.op} \subseteq {"panel", "config"}
Alone(e) == \A x \in plan \ {e} : ~Rivals(e, x)

(* Two edits that have both read the file crossed each other.                 *)
Crossed == \A x, y \in Config!Open : x # y => x \in crossed

(* What a finished edit wrote is in the file, and in whatever is about to be  *)
(* written over it.                                                           *)
Lasting ==
  \A e \in plan \ crossed : phase[e] \in {"restart", "done"} /\ Alone(e) =>
    /\ file.state = "whole" => Shows(e, file)
    /\ \A x \in Config!Open : held[x].state = "whole" => Shows(e, held[x])

(* The steps that some edits do not have.                                     *)
Suits(op, p) ==
  /\ p \in {"stats", "save"} => op \notin Config!Command \cup {"config"}
  /\ p \in {"stats", "put"} => op # "dns"

(* An edit holds its own change, that of DNS once it took the resolver's.     *)
Holding ==
  /\ \A e \in Config!Open : held[e].state = "whole" /\ (e.op = "dns" => phase[e] \in {"fill", "refill"}) =>
       Shows(e, held[e])
  /\ \A e \in plan : e.op = "dns" /\ phase[e] \in {"save", "truncate", "fill", "refill"} => dns_memory = "dns"
  /\ \A e \in plan : Suits(e.op, phase[e])

RulesDone == \E x \in plan : x.op = "rules" /\ phase[x] = "done"

(* Where nothing crossed, the file is torn only while it is written.          *)
Explained ==
  /\ file.state # "whole" => RulesDone \/ \E x \in plan : phase[x] = "fill"
  /\ \A x \in plan : phase[x] # "refill"
  /\ \A x \in Config!Open : held[x].state # "whole" => x.op = "rules" \/ RulesDone
Accounted == crossed = {} => Explained

SettingsInv == SettingsTyped /\ Crossed /\ Lasting /\ Holding /\ Accounted

LEMMA SettingsInvInit ==
  ASSUME Config!Valid, Config!Init
  PROVE  SettingsInv
<1>1. Config!Blank \in FileRecord
  BY DEF Config!Blank, FileRecord, Config!Metas
<1>2. file \in FileRecord /\ file.state = "whole" /\ file.dns = "first"
  <2>1. PICK c \in BOOLEAN : file = [Config!Blank EXCEPT !.keys = [u \in EditUsers |-> "free"], !.comments = c]
    BY DEF Config!Init
  <2> QED BY <2>1 DEF Config!Blank, FileRecord, Config!Metas
<1>3. SettingsTyped
  BY <1>1, <1>2 DEF SettingsTyped, Config!Init, Config!Valid, EditPhases, FileRecord
<1>4. \A e \in plan : phase[e] = "new"
  BY DEF Config!Init
<1> QED BY <1>2, <1>3, <1>4 DEF SettingsInv, Crossed, Lasting, Holding, Accounted, Explained, RulesDone, Config!Open, Suits

(* An edit that neither reads nor writes the file goes on.                    *)
LEMMA EditPasses ==
  ASSUME SettingsInv, SettingsTyped', UNCHANGED <<plan, file, held, crossed>>,
         \A x \in plan :
           \/ phase'[x] = phase[x]
           \/ phase[x] \in {"new", "stats", "save"} /\ phase'[x] \in {"stats", "save", "failed"}
           \/ phase[x] = "put" /\ phase'[x] = "truncate" /\ x.op # "dns",
         \A x \in plan : x.op = "dns" /\ phase'[x] \in {"save", "truncate", "fill", "refill"} => dns_memory' = "dns",
         \A x \in plan : Suits(x.op, phase'[x])
  PROVE  SettingsInv'
<1>1. Config!Open' = Config!Open
  BY DEF Config!Open
<1>2. Crossed' /\ Lasting'
  BY <1>1 DEF SettingsInv, Crossed, Lasting, Alone, Rivals, Shows
<1>3. Holding'
  BY <1>1 DEF SettingsInv, Holding, Shows, Config!Open, Config!Command
<1>4. RulesDone => RulesDone'
  BY DEF RulesDone
<1>5. Accounted'
  <2> SUFFICES ASSUME crossed = {} PROVE Explained'
    BY DEF Accounted
  <2>1. Explained
    BY DEF SettingsInv, Accounted
  <2>2. \A x \in plan : phase'[x] # "refill" /\ (phase[x] = "fill" => phase'[x] = "fill")
    BY <2>1 DEF Explained
  <2> QED BY <1>1, <1>4, <2>1, <2>2 DEF Explained
<1> QED BY <1>2, <1>3, <1>5 DEF SettingsInv

(* An edit reads the file and holds what it makes of it: nothing of a file    *)
(* that is none, and every section but its own as it was.                     *)
LEMMA EditOpens ==
  ASSUME SettingsInv, NEW e \in plan, NEW f \in FileRecord, NEW p \in {"put", "truncate"},
         phase[e] \in {"new", "save"}, e.op = "dns" => phase[e] = "save" /\ p = "truncate",
         phase' = [phase EXCEPT ![e] = p], held' = [held EXCEPT ![e] = f],
         crossed' = Config!Crossing(e),
         UNCHANGED <<plan, file, content, access_keys, dns_memory>>,
         f.state = "whole" =>
           /\ file.state = "whole" /\ (e.op # "dns" => Shows(e, f))
           /\ \A x \in plan \ {e} : Shows(x, file) /\ ~Rivals(x, e) => Shows(x, f),
         f.state # "whole" => e.op = "rules" \/ file.state # "whole"
  PROVE  SettingsInv'
<1>0. SettingsTyped /\ Crossed /\ Lasting /\ Holding /\ Accounted
  BY DEF SettingsInv
<1>1. SettingsTyped'
  BY <1>0 DEF SettingsTyped, EditPhases
<1>2. Config!Open' = Config!Open \cup {e} /\ e \notin Config!Open
  BY <1>0 DEF Config!Open, SettingsTyped
<1>3. crossed \subseteq crossed' /\ (Config!Open # {} => Config!Open \cup {e} \subseteq crossed')
  BY DEF Config!Crossing
<1>4. Crossed'
  BY <1>0, <1>2, <1>3 DEF Crossed
<1>5. \A x \in plan : x # e => phase'[x] = phase[x] /\ held'[x] = held[x]
  BY <1>0 DEF SettingsTyped
<1>6. phase'[e] = p /\ held'[e] = f
  BY <1>0 DEF SettingsTyped
<1>7. Lasting'
  <2> SUFFICES ASSUME NEW d \in plan, d \notin crossed', phase'[d] \in {"restart", "done"}, Alone(d)
               PROVE  /\ file.state = "whole" => Shows(d, file)
                      /\ \A x \in Config!Open' : held'[x].state = "whole" => Shows(d, held'[x])
    BY DEF Lasting, Alone, Rivals, Shows
  <2>1. d # e /\ d \notin crossed /\ phase[d] \in {"restart", "done"}
    BY <1>3, <1>5, <1>6
  <2>2. /\ file.state = "whole" => Shows(d, file)
        /\ \A x \in Config!Open : held[x].state = "whole" => Shows(d, held[x])
    BY <1>0, <2>1 DEF Lasting
  <2>3. ~Rivals(d, e)
    BY <2>1 DEF Alone, Rivals
  <2>4. f.state = "whole" => Shows(d, f)
    BY <2>1, <2>2, <2>3
  <2>5. \A x \in Config!Open : x # e /\ held'[x] = held[x]
    BY <1>2, <1>5 DEF Config!Open
  <2> QED BY <1>2, <1>6, <2>2, <2>4, <2>5
<1>8. Holding'
  <2>1. \A x \in Config!Open' : held'[x].state = "whole" /\ (x.op = "dns" => phase'[x] \in {"fill", "refill"}) => Shows(x, held'[x])
    BY <1>0, <1>2, <1>5, <1>6 DEF Holding, Config!Open
  <2>2. \A x \in plan : x.op = "dns" /\ phase'[x] \in {"save", "truncate", "fill", "refill"} => dns_memory = "dns"
    BY <1>0, <1>5, <1>6 DEF Holding
  <2>3. \A x \in plan : Suits(x.op, phase'[x])
    BY <1>0, <1>5, <1>6 DEF Holding, Suits
  <2> QED BY <2>1, <2>2, <2>3 DEF Holding, Shows
<1>9. Accounted'
  <2> SUFFICES ASSUME crossed' = {} PROVE Explained'
    BY DEF Accounted
  <2>1. crossed = {} /\ Config!Open = {}
    BY <1>3
  <2>2. Explained
    BY <1>0, <2>1 DEF Accounted
  <2>3. \A x \in plan : phase[x] # "fill" /\ phase'[x] # "refill"
    BY <1>5, <1>6, <2>1, <2>2 DEF Config!Open, Explained
  <2>4. RulesDone => RulesDone'
    BY <1>5 DEF RulesDone
  <2>5. file.state # "whole" => RulesDone'
    BY <2>2, <2>3, <2>4 DEF Explained
  <2> QED BY <1>2, <1>6, <2>1, <2>3, <2>5 DEF Explained
<1> QED BY <1>1, <1>4, <1>7, <1>8, <1>9 DEF SettingsInv

(* The edits that read the file, and what they make of it.                    *)
LEMMA EditReads ==
  ASSUME SettingsInv, NEW e \in plan, Config!ReadFile(e) \/ Config!GetConfig(e) \/ Config!Load(e)
  PROVE  SettingsInv'
<1>0. SettingsTyped /\ Crossed /\ Lasting /\ Holding /\ Accounted
  BY DEF SettingsInv
<1>1. e.op \in Config!ApiUser \cup Config!Command \cup {"dns", "rules", "config"} /\ e.user \in EditUsers
  BY <1>0 DEF SettingsTyped, Config!EditRecord
<1>2. file \in FileRecord
  BY <1>0 DEF SettingsTyped
<1>3. ASSUME phase[e] \in {"save", "new"}, phase' = [phase EXCEPT ![e] = "failed"],
             UNCHANGED <<plan, file, content, access_keys, dns_memory, held, crossed>>
      PROVE  SettingsInv'
  <2>1. SettingsTyped'
    BY <1>0, <1>3 DEF SettingsTyped, EditPhases
  <2>2. \A x \in plan : phase'[x] = phase[x] \/ (x = e /\ phase'[x] = "failed")
    BY <1>0, <1>3 DEF SettingsTyped
  <2>3. /\ \A x \in plan : x.op = "dns" /\ phase'[x] \in {"save", "truncate", "fill", "refill"} => dns_memory' = "dns"
        /\ \A x \in plan : Suits(x.op, phase'[x])
    BY <1>0, <1>3, <2>2 DEF Holding, Suits
  <2> QED BY <1>3, <2>1, <2>2, <2>3, EditPasses
<1>4. CASE Config!ReadFile(e) /\ Config!Readable(e)
  <2> DEFINE f == Config!Edited(e)
  <2>1. phase[e] = "save" /\ phase' = [phase EXCEPT ![e] = "truncate"] /\ held' = [held EXCEPT ![e] = f]
        /\ crossed' = Config!Crossing(e) /\ UNCHANGED <<plan, file, content, access_keys, dns_memory>>
    BY <1>4 DEF Config!ReadFile, Config!Moved, Config!memoryVars, Config!reloadVars, Config!fileVars
  <2>2. e.op \notin Config!Command \cup {"config"}
    BY <1>0, <2>1 DEF Holding, Suits
  <2>3. CASE e.op # "rules"
    <3>1. f = [file EXCEPT !.comments = FALSE]
      BY <2>3 DEF Config!Edited
    <3>2. /\ f \in FileRecord /\ f.state = file.state /\ f.api = file.api /\ f.dns = file.dns /\ f.rules = file.rules
      BY <1>2, <3>1 DEF FileRecord
    <3>3. \A x : Shows(x, file) => Shows(x, f)
      BY <3>2 DEF Shows
    <3>4. e.op # "dns" => Shows(e, f)
      BY <2>2, <2>3 DEF Shows, Config!Command
    <3> HIDE DEF f
    <3> QED BY <2>1, <2>3, <3>2, <3>3, <3>4, EditOpens
  <2>4. CASE e.op = "rules" /\ file.state = "whole" /\ ~file.comments
    <3>1. f = [file EXCEPT !.rules = "rules"]
      BY <2>4 DEF Config!Edited
    <3>2. /\ f \in FileRecord /\ f.state = file.state /\ f.api = file.api /\ f.dns = file.dns /\ f.rules = "rules"
      BY <1>2, <3>1 DEF FileRecord
    <3>3. \A x : Shows(x, file) => Shows(x, f)
      BY <3>2 DEF Shows
    <3>4. Shows(e, f)
      BY <2>4, <3>2 DEF Shows
    <3> HIDE DEF f
    <3> QED BY <2>1, <2>4, <3>2, <3>3, <3>4, EditOpens
  <2>5. CASE e.op = "rules" /\ ~(file.state = "whole" /\ ~file.comments)
    <3>1. f = [Config!Blank EXCEPT !.state = "null"]
      BY <2>5 DEF Config!Edited
    <3>2. f \in FileRecord /\ f.state = "null"
      BY <3>1, ZenonT(40) DEF FileRecord, Config!Blank, Config!Metas
    <3> HIDE DEF f
    <3> QED BY <2>1, <2>5, <3>2, EditOpens
  <2> QED BY <2>3, <2>4, <2>5
<1>5. CASE Config!ReadFile(e) /\ ~Config!Readable(e)
  <2>1. phase[e] = "save" /\ phase' = [phase EXCEPT ![e] = "failed"]
        /\ UNCHANGED <<plan, file, content, access_keys, dns_memory, held, crossed>>
    BY <1>5 DEF Config!ReadFile, Config!Moved, Config!memoryVars, Config!reloadVars, Config!fileVars
  <2> QED BY <1>3, <2>1
<1>6. CASE Config!GetConfig(e)
  <2> DEFINE g == [file EXCEPT !.api = e.op]
             f == [g EXCEPT !.comments = FALSE]
  <2>1. g \in FileRecord /\ g.state = file.state /\ g.api = e.op /\ g.dns = file.dns /\ g.rules = file.rules
    BY <1>2, <1>6 DEF FileRecord, Config!GetConfig
  <2>2. f \in FileRecord /\ f.state = file.state /\ f.api = e.op /\ f.dns = file.dns /\ f.rules = file.rules
    BY <2>1 DEF FileRecord
  <2>3. f = [file EXCEPT !.api = e.op, !.comments = FALSE]
    BY <1>2 DEF FileRecord
  <2> HIDE DEF f, g
  <2>4. phase[e] = "new" /\ phase' = [phase EXCEPT ![e] = "put"] /\ held' = [held EXCEPT ![e] = f]
        /\ crossed' = Config!Crossing(e) /\ UNCHANGED <<plan, file, content, access_keys, dns_memory>>
        /\ e.op = "config" /\ file.state = "whole"
    BY <1>6, <2>3 DEF Config!GetConfig, Config!Moved, Config!memoryVars, Config!reloadVars, Config!fileVars
  <2>5. \A x \in plan : Shows(x, file) /\ ~Rivals(x, e) => Shows(x, f)
    BY <2>2, <2>4 DEF Shows, Rivals
  <2>6. Shows(e, f)
    BY <2>2, <2>4 DEF Shows
  <2> QED BY <2>2, <2>4, <2>5, <2>6, EditOpens
<1>7. CASE Config!Load(e) /\ file.state = "whole" /\ Config!Changed(e) # {}
  <2>1. PICK g \in Config!Changed(e) : held' = [held EXCEPT ![e] = [g EXCEPT !.comments = FALSE]]
    BY <1>7 DEF Config!Load
  <2>2. phase[e] = "new" /\ e.op \in Config!Command /\ phase' = [phase EXCEPT ![e] = "truncate"]
        /\ crossed' = Config!Crossing(e) /\ UNCHANGED <<plan, file, content, access_keys, dns_memory>>
    BY <1>7 DEF Config!Load, Config!Moved, Config!memoryVars, Config!reloadVars, Config!fileVars
  <2>3. \A k \in EditUsers, meta \in Config!Metas : [file.keys EXCEPT ![k] = meta] \in [EditUsers -> Config!Metas]
    BY <1>2 DEF FileRecord
  <2>4. \A keys \in [EditUsers -> Config!Metas] :
          LET h == [file EXCEPT !.keys = keys]
          IN h \in FileRecord /\ h.state = file.state /\ h.api = file.api /\ h.dns = file.dns /\ h.rules = file.rules
    BY <1>2 DEF FileRecord
  <2>5. /\ g \in FileRecord /\ g.state = file.state /\ g.dns = file.dns /\ g.rules = file.rules
        /\ IF e.op = "panel" THEN g.api = "panel" ELSE g.api = file.api
    <3>1. CASE e.op \in {"add", "remove"}
      <4>1. PICK meta \in Config!Metas : g = [file EXCEPT !.keys = [file.keys EXCEPT ![e.user] = meta]]
        BY <1>2, <2>1, <3>1 DEF Config!Changed, Config!UserAdd, Config!UserRemove, Config!Metas, FileRecord
      <4> QED BY <1>1, <2>3, <2>4, <3>1, <4>1
    <3>2. CASE e.op = "rename"
      BY <1>2, <2>1, <3>2 DEF Config!Changed, Config!UserRename
    <3>3. CASE e.op = "panel"
      BY <1>2, <2>1, <3>3 DEF Config!Changed, Config!PanelSet, FileRecord
    <3> QED BY <2>2, <3>1, <3>2, <3>3 DEF Config!Command
  <2> DEFINE f == [g EXCEPT !.comments = FALSE]
  <2>6. f \in FileRecord /\ f.state = g.state /\ f.api = g.api /\ f.dns = g.dns /\ f.rules = g.rules
    BY <2>5 DEF FileRecord
  <2>7. held' = [held EXCEPT ![e] = f]
    BY <2>1
  <2> HIDE DEF f
  <2>8. \A x \in plan : Shows(x, file) /\ ~Rivals(x, e) => Shows(x, f)
    BY <2>5, <2>6 DEF Shows, Rivals
  <2>9. Shows(e, f)
    BY <2>2, <2>5, <2>6 DEF Shows, Config!Command
  <2>10. e.op # "dns"
    BY <2>2 DEF Config!Command
  <2> QED BY <1>7, <2>2, <2>5, <2>6, <2>7, <2>8, <2>9, <2>10, EditOpens
<1>8. CASE Config!Load(e) /\ ~(file.state = "whole" /\ Config!Changed(e) # {})
  <2>1. phase[e] = "new" /\ phase' = [phase EXCEPT ![e] = "failed"]
        /\ UNCHANGED <<plan, file, content, access_keys, dns_memory, held, crossed>>
    BY <1>8 DEF Config!Load, Config!Moved, Config!memoryVars, Config!reloadVars, Config!fileVars
  <2> QED BY <1>3, <2>1
<1> QED BY <1>4, <1>5, <1>6, <1>7, <1>8

(* The file is cut to nothing; what follows it is now final.                  *)
LEMMA EditTruncates ==
  ASSUME SettingsInv, NEW e \in plan, Config!Truncate(e)
  PROVE  SettingsInv'
<1>0. SettingsTyped /\ Crossed /\ Lasting /\ Holding /\ Accounted
  BY DEF SettingsInv
<1> DEFINE w == Config!Written(e)
<1>1. phase[e] = "truncate" /\ phase' = [phase EXCEPT ![e] = "fill"] /\ held' = [held EXCEPT ![e] = w]
      /\ file' = [file EXCEPT !.state = "torn"] /\ UNCHANGED <<plan, content, access_keys, dns_memory, crossed>>
  BY DEF Config!Truncate, Config!Moved, Config!memoryVars, Config!reloadVars
<1>2. held[e] \in FileRecord /\ file \in FileRecord
  BY <1>0 DEF SettingsTyped
<1>3. /\ w \in FileRecord /\ w.state = held[e].state /\ w.api = held[e].api /\ w.rules = held[e].rules
      /\ w.dns = IF e.op = "dns" THEN dns_memory ELSE held[e].dns
  <2>1. e.op \in Config!ApiUser \cup Config!Command \cup {"dns", "rules", "config"}
    BY <1>0 DEF SettingsTyped, Config!EditRecord
  <2>2. CASE e.op \in Config!ApiUser
    <3>1. w = [held[e] EXCEPT !.keys = access_keys]
      BY <2>2 DEF Config!Written, Config!ApiUser
    <3>2. access_keys \in [EditUsers -> Config!Metas] /\ e.op # "dns"
      BY <1>0, <2>2 DEF SettingsTyped, Config!ApiUser
    <3> QED BY <1>2, <3>1, <3>2 DEF FileRecord
  <2>3. CASE e.op = "dns"
    <3>1. w = [held[e] EXCEPT !.dns = dns_memory]
      BY <2>3 DEF Config!Written, Config!ApiUser
    <3>2. dns_memory \in {"first", "dns"}
      BY <1>0 DEF SettingsTyped
    <3> QED BY <1>2, <2>3, <3>1, <3>2 DEF FileRecord
  <2>4. CASE e.op \notin Config!ApiUser /\ e.op # "dns"
    <3>1. w = held[e]
      BY <2>4 DEF Config!Written
    <3> QED BY <1>2, <2>4, <3>1
  <2> QED BY <2>2, <2>3, <2>4
<1> HIDE DEF w
<1>4. file' \in FileRecord /\ file'.state = "torn"
  BY <1>1, <1>2 DEF FileRecord
<1>5. SettingsTyped'
  BY <1>0, <1>1, <1>3, <1>4 DEF SettingsTyped, EditPhases
<1>6. Config!Open' = Config!Open /\ e \in Config!Open
  BY <1>0, <1>1 DEF Config!Open, SettingsTyped
<1>7. Crossed'
  BY <1>0, <1>1, <1>6 DEF Crossed
<1>8. phase'[e] = "fill" /\ held'[e] = w
      /\ \A x \in plan : x # e => phase'[x] = phase[x] /\ held'[x] = held[x]
  BY <1>0, <1>1 DEF SettingsTyped
<1>9. e.op = "dns" => w.dns = "dns"
  BY <1>0, <1>1, <1>3 DEF Holding
<1>10. \A x : Shows(x, held[e]) => Shows(x, w)
  BY <1>3, <1>9 DEF Shows
<1>11. Lasting'
  <2> SUFFICES ASSUME NEW d \in plan, d \notin crossed, phase'[d] \in {"restart", "done"}, Alone(d),
                      NEW x \in Config!Open, held'[x].state = "whole"
               PROVE  Shows(d, held'[x])
    BY <1>1, <1>4, <1>6 DEF Lasting, Alone, Rivals, Shows
  <2>1. phase[d] \in {"restart", "done"}
    BY <1>8
  <2>2. x \in plan
    BY DEF Config!Open
  <2>3. held[x].state = "whole" => Shows(d, held[x])
    BY <1>0, <2>1 DEF Lasting
  <2> QED BY <1>3, <1>8, <1>10, <2>2, <2>3
<1>12. Holding'
  <2>1. w.state = "whole" => Shows(e, w)
    <3>1. e.op # "dns" /\ held[e].state = "whole" => Shows(e, held[e])
      BY <1>0, <1>6 DEF Holding
    <3>2. e.op = "dns" => Shows(e, w)
      BY <1>9 DEF Shows
    <3> QED BY <1>3, <1>10, <3>1, <3>2
  <2>2. \A x \in Config!Open : held'[x].state = "whole" /\ (x.op = "dns" => phase'[x] \in {"fill", "refill"}) => Shows(x, held'[x])
    BY <1>0, <1>8, <2>1 DEF Holding, Config!Open
  <2>3. \A x \in plan : x.op = "dns" /\ phase'[x] \in {"save", "truncate", "fill", "refill"} => dns_memory = "dns"
    BY <1>0, <1>1, <1>8 DEF Holding
  <2>4. \A x \in plan : Suits(x.op, phase'[x])
    BY <1>0, <1>8 DEF Holding, Suits
  <2> QED BY <1>1, <1>6, <2>2, <2>3, <2>4 DEF Holding, Shows, Config!Command
<1>13. Accounted'
  <2> SUFFICES ASSUME crossed = {} PROVE Explained'
    BY <1>1 DEF Accounted
  <2>1. Explained
    BY <1>0 DEF Accounted
  <2>2. RulesDone => RulesDone'
    BY <1>1, <1>8 DEF RulesDone
  <2>3. \A x \in Config!Open : held'[x].state # "whole" => held[x].state # "whole"
    BY <1>3, <1>8 DEF Config!Open
  <2>4. \E x \in plan : phase'[x] = "fill"
    BY <1>8
  <2>5. \A x \in plan : phase'[x] # "refill"
    BY <1>8, <2>1 DEF Explained
  <2> QED BY <1>1, <1>6, <2>1, <2>2, <2>3, <2>4, <2>5 DEF Explained
<1> QED BY <1>5, <1>7, <1>11, <1>12, <1>13 DEF SettingsInv

(* An edit that writes is finished; one that met no other leaves none behind  *)
(* that holds an older file.                                                  *)
LEMMA EditFills ==
  ASSUME SettingsInv, NEW e \in plan, Config!Fill(e)
  PROVE  SettingsInv'
<1>0. SettingsTyped /\ Crossed /\ Lasting /\ Holding /\ Accounted
  BY DEF SettingsInv
<1>1. /\ phase[e] \in {"fill", "refill"}
      /\ phase' = [x \in plan |-> IF x = e THEN IF e.op = "panel" THEN "restart" ELSE "done"
                                  ELSE IF phase[x] = "fill" THEN "refill" ELSE phase[x]]
      /\ UNCHANGED <<plan, content, access_keys, dns_memory, held, crossed>>
  BY DEF Config!Fill, Config!memoryVars, Config!reloadVars
<1>2. file' = held[e] \/ (phase[e] = "refill" /\ file' = [held[e] EXCEPT !.state = "torn"])
  BY DEF Config!Fill
<1>3. held[e] \in FileRecord
  BY <1>0 DEF SettingsTyped
<1>4. file' \in FileRecord /\ (file'.state = "whole" => file' = held[e])
  BY <1>2, <1>3 DEF FileRecord
<1>5. SettingsTyped'
  BY <1>0, <1>1, <1>4 DEF SettingsTyped, EditPhases
<1>6. Config!Open' = Config!Open \ {e} /\ e \in Config!Open
  BY <1>0, <1>1 DEF Config!Open, SettingsTyped
<1>7. Crossed'
  BY <1>0, <1>1, <1>6 DEF Crossed
<1>8. \A x \in plan : x # e => phase'[x] = phase[x] \/ (phase[x] = "fill" /\ phase'[x] = "refill")
  BY <1>1
<1>9. phase'[e] \in {"restart", "done"}
  BY <1>1
<1>10. Lasting'
  <2> SUFFICES ASSUME NEW d \in plan, d \notin crossed, phase'[d] \in {"restart", "done"}, Alone(d)
               PROVE  /\ file'.state = "whole" => Shows(d, file')
                      /\ \A x \in Config!Open \ {e} : held[x].state = "whole" => Shows(d, held[x])
    BY <1>1, <1>6 DEF Lasting, Alone, Rivals, Shows
  <2>1. CASE d = e
    <3>1. Config!Open \ {e} = {}
      BY <1>0, <1>6, <2>1 DEF Crossed
    <3>2. held[e].state = "whole" => Shows(e, held[e])
      BY <1>0, <1>1, <1>6 DEF Holding
    <3> QED BY <1>4, <2>1, <3>1, <3>2
  <2>2. CASE d # e
    <3>1. phase[d] \in {"restart", "done"}
      BY <1>8, <2>2
    <3>2. \A x \in Config!Open : held[x].state = "whole" => Shows(d, held[x])
      BY <1>0, <3>1 DEF Lasting
    <3> QED BY <1>4, <1>6, <3>2
  <2> QED BY <2>1, <2>2
<1>11. Holding'
  <2>1. \A x \in Config!Open \ {e} : held[x].state = "whole" /\ (x.op = "dns" => phase'[x] \in {"fill", "refill"}) => Shows(x, held[x])
    BY <1>0, <1>8 DEF Holding, Config!Open
  <2>2. \A x \in plan : x.op = "dns" /\ phase'[x] \in {"save", "truncate", "fill", "refill"} => dns_memory = "dns"
    BY <1>0, <1>8, <1>9 DEF Holding
  <2>3. \A x \in plan : Suits(x.op, phase'[x])
    BY <1>0, <1>8, <1>9 DEF Holding, Suits
  <2> QED BY <1>1, <1>6, <2>1, <2>2, <2>3 DEF Holding, Shows, Config!Command
<1>12. Accounted'
  <2> SUFFICES ASSUME crossed = {} PROVE Explained'
    BY <1>1 DEF Accounted
  <2>1. Explained
    BY <1>0 DEF Accounted
  <2>2. Config!Open = {e}
    BY <1>0, <1>6 DEF Crossed
  <2>3. \A x \in plan : x # e => phase'[x] = phase[x]
    BY <1>8, <2>2 DEF Config!Open
  <2>4. RulesDone => RulesDone'
    BY <1>1, <2>3 DEF RulesDone
  <2>5. file' = held[e]
    BY <1>2, <2>1 DEF Explained
  <2>6. e.op = "rules" => RulesDone'
    BY <1>1 DEF RulesDone
  <2>7. file'.state # "whole" => RulesDone'
    BY <2>1, <2>2, <2>4, <2>5, <2>6 DEF Explained
  <2>8. \A x \in plan : phase'[x] # "refill"
    BY <1>9, <2>1, <2>3 DEF Explained
  <2> QED BY <1>1, <1>6, <2>2, <2>7, <2>8 DEF Explained
<1> QED BY <1>5, <1>7, <1>10, <1>11, <1>12 DEF SettingsInv

(* A restart ends the handlers that run; what they were doing counts as met.  *)
LEMMA EditRestarts ==
  ASSUME SettingsInv, NEW e \in plan, Config!Restart(e)
  PROVE  SettingsInv'
<1>0. SettingsTyped /\ Crossed /\ Lasting /\ Holding /\ Accounted
  BY DEF SettingsInv
<1> DEFINE Ends(x) == x.op \notin Config!Command \cup {"config"} /\ phase[x] # "new"
<1>1. /\ phase[e] = "restart"
      /\ phase' = [x \in plan |-> IF x = e THEN "done"
                     ELSE IF Ends(x) THEN IF phase[x] = "done" THEN "done" ELSE "failed"
                     ELSE phase[x]]
      /\ crossed' = crossed \cup {x \in Config!Open : x.op \notin Config!Command}
      /\ access_keys' = file.keys /\ dns_memory' = file.dns /\ content' = Config!Blank
      /\ UNCHANGED <<plan, file, held>>
  BY DEF Config!Restart, Config!fileVars
<1>2. Config!Blank \in FileRecord
  BY DEF Config!Blank, FileRecord, Config!Metas
<1>3. SettingsTyped'
  BY <1>0, <1>1, <1>2 DEF SettingsTyped, EditPhases, FileRecord
<1>4. \A x \in plan : x # e => phase'[x] = phase[x] \/ (Ends(x) /\ phase'[x] = "failed")
  BY <1>1
<1>5. phase'[e] = "done"
  BY <1>1
<1>6. Config!Open' \subseteq Config!Open /\ \A x \in Config!Open' : x \in plan /\ x # e /\ phase'[x] = phase[x]
  BY <1>1, <1>4, <1>5 DEF Config!Open
<1>7. crossed \subseteq crossed'
  BY <1>1
<1> HIDE DEF Ends
<1>8. Crossed'
  BY <1>0, <1>6, <1>7 DEF Crossed
<1>9. Lasting'
  <2> SUFFICES ASSUME NEW d \in plan, d \notin crossed, phase'[d] \in {"restart", "done"}, Alone(d)
               PROVE  /\ file.state = "whole" => Shows(d, file)
                      /\ \A x \in Config!Open' : held[x].state = "whole" => Shows(d, held[x])
    BY <1>1, <1>7 DEF Lasting, Alone, Rivals, Shows
  <2>1. phase[d] \in {"restart", "done"}
    BY <1>1, <1>4
  <2> QED BY <1>0, <1>6, <2>1 DEF Lasting
<1>10. Holding'
  <2>1. \A x \in Config!Open' : held[x].state = "whole" /\ (x.op = "dns" => phase'[x] \in {"fill", "refill"}) => Shows(x, held[x])
    BY <1>0, <1>6 DEF Holding
  <2>2. \A x \in plan : x.op = "dns" => phase'[x] \notin {"save", "truncate", "fill", "refill"}
    BY <1>1 DEF Ends, Config!Command
  <2>3. \A x \in plan : Suits(x.op, phase'[x])
    BY <1>0, <1>4, <1>5 DEF Holding, Suits
  <2> QED BY <1>1, <2>1, <2>2, <2>3 DEF Holding, Shows, Config!Command
<1>11. Accounted'
  <2> SUFFICES ASSUME crossed' = {} PROVE Explained'
    BY DEF Accounted
  <2>1. crossed = {} /\ \A x \in Config!Open : x.op \in Config!Command
    BY <1>1
  <2>2. Explained
    BY <1>0, <2>1 DEF Accounted
  <2>3. RulesDone => RulesDone'
    <3>1. \A x \in plan : phase[x] = "done" => phase'[x] = "done"
      BY <1>1
    <3> QED BY <1>1, <3>1 DEF RulesDone
  <2>4. \A x \in plan : phase[x] = "fill" => phase'[x] = "fill"
    BY <1>1, <1>4, <2>1 DEF Ends, Config!Open
  <2>5. \A x \in plan : phase'[x] # "refill"
    BY <1>4, <1>5, <2>2 DEF Explained
  <2> QED BY <1>1, <1>6, <2>2, <2>3, <2>4, <2>5 DEF Explained
<1> QED BY <1>3, <1>8, <1>9, <1>10, <1>11 DEF SettingsInv

LEMMA SettingsInvStep ==
  ASSUME SettingsInv, Config!Next \/ UNCHANGED settingsVars
  PROVE  SettingsInv'
<1>0. SettingsTyped /\ Holding
  BY DEF SettingsInv
<1> USE DEF Config!Moved, Config!memoryVars, Config!reloadVars, Config!fileVars, Config!editVars
<1>1. ASSUME NEW e \in plan, Config!ApplyKeys(e) \/ Config!ApplyStats(e) \/ Config!ApplyDns(e) \/ Config!ApplyRules(e)
      PROVE  SettingsInv'
  <2>1. e \in Config!EditRecord
    BY <1>0 DEF SettingsTyped
  <2>2. UNCHANGED <<plan, file, content, held, crossed>>
    BY <1>1 DEF Config!ApplyKeys, Config!ApplyStats, Config!ApplyDns, Config!ApplyRules
  <2>3. PICK p \in {"stats", "save", "failed"} : phase' = [phase EXCEPT ![e] = p]
    BY <1>1 DEF Config!ApplyKeys, Config!ApplyStats, Config!ApplyDns, Config!ApplyRules
  <2>4. phase[e] \in {"new", "stats"}
    BY <1>1 DEF Config!ApplyKeys, Config!ApplyStats, Config!ApplyDns, Config!ApplyRules
  <2>5. access_keys' \in [EditUsers -> Config!Metas]
    BY <1>0, <1>1, <2>1 DEF SettingsTyped, Config!ApplyKeys, Config!ApplyStats, Config!ApplyDns, Config!ApplyRules,
      Config!EditRecord
  <2>6. dns_memory' = dns_memory \/ dns_memory' = "dns"
    BY <1>1 DEF Config!ApplyKeys, Config!ApplyStats, Config!ApplyDns, Config!ApplyRules
  <2>7. e.op = "dns" /\ phase'[e] = "save" => dns_memory' = "dns"
    <3>2. e.op = "dns" /\ Config!ApplyDns(e) => dns_memory' = "dns"
      BY DEF Config!ApplyDns
    <3>3. e.op = "dns" => ~Config!ApplyKeys(e) /\ ~Config!ApplyRules(e)
      BY DEF Config!ApplyKeys, Config!ApplyRules, Config!ApiUser
    <3>4. e.op = "dns" => ~Config!ApplyStats(e)
      BY <1>0 DEF Config!ApplyStats, Holding, Suits
    <3> QED BY <1>1, <3>2, <3>3, <3>4
  <2>8. e.op \notin Config!Command \cup {"config"}
    BY <1>0, <1>1 DEF Config!ApplyKeys, Config!ApplyStats, Config!ApplyDns, Config!ApplyRules, Config!ApiUser,
      Config!Command, Holding, Suits
  <2>9. SettingsTyped'
    BY <1>0, <2>2, <2>3, <2>5, <2>6 DEF SettingsTyped, EditPhases
  <2>10. phase'[e] = p /\ \A x \in plan : x # e => phase'[x] = phase[x]
    BY <1>0, <2>3 DEF SettingsTyped
  <2>11. \A x \in plan : x.op = "dns" /\ phase'[x] \in {"save", "truncate", "fill", "refill"} => dns_memory' = "dns"
    BY <1>0, <2>6, <2>7, <2>10 DEF Holding
  <2>12. \A x \in plan : Suits(x.op, phase'[x])
    <3>1. p = "stats" => e.op # "dns"
      BY <1>0, <1>1, <2>10 DEF Config!ApplyKeys, Config!ApplyStats, Config!ApplyDns, Config!ApplyRules, Config!ApiUser,
        SettingsTyped
    <3> QED BY <1>0, <2>8, <2>10, <3>1 DEF Holding, Suits
  <2> QED BY <2>2, <2>4, <2>9, <2>10, <2>11, <2>12, EditPasses
<1>2. ASSUME NEW e \in plan, Config!PutConfig(e)
      PROVE  SettingsInv'
  <2>1. phase[e] = "put" /\ phase' = [phase EXCEPT ![e] = "truncate"]
        /\ UNCHANGED <<plan, access_keys, dns_memory, file, content, held, crossed>>
    BY <1>2 DEF Config!PutConfig
  <2>2. e.op # "dns"
    BY <1>0, <2>1 DEF Holding, Suits
  <2>3. SettingsTyped'
    BY <1>0, <2>1 DEF SettingsTyped, EditPhases
  <2>4. phase'[e] = "truncate" /\ \A x \in plan : x # e => phase'[x] = phase[x]
    BY <1>0, <2>1 DEF SettingsTyped
  <2>5. \A x \in plan : x.op = "dns" /\ phase'[x] \in {"save", "truncate", "fill", "refill"} => dns_memory' = "dns"
    BY <1>0, <2>1, <2>2, <2>4 DEF Holding
  <2>6. \A x \in plan : Suits(x.op, phase'[x])
    BY <1>0, <2>4 DEF Holding, Suits
  <2> QED BY <2>1, <2>2, <2>3, <2>4, <2>5, <2>6, EditPasses
<1>3. ASSUME UNCHANGED <<plan, dns_memory, file, held, crossed, phase>>, content' \in {content, file},
             access_keys' \in {access_keys, content.keys}
      PROVE  SettingsInv'
  <2>1. content.keys \in [EditUsers -> Config!Metas]
    BY <1>0 DEF SettingsTyped, FileRecord
  <2>2. SettingsTyped'
    BY <1>0, <1>3, <2>1 DEF SettingsTyped
  <2> QED BY <1>0, <1>3, <2>2, EditPasses DEF Holding
<1>4. CASE Config!Poll \/ Config!ReadAgain \/ Config!Apply
  BY <1>3, <1>4 DEF Config!Poll, Config!ReadAgain, Config!Apply
<1>5. CASE UNCHANGED settingsVars
  BY <1>3, <1>5 DEF settingsVars
<1> QED BY <1>1, <1>2, <1>4, <1>5, EditReads, EditTruncates, EditFills, EditRestarts DEF Config!Next

LEMMA SettingsInvSound ==
  ASSUME SettingsInv
  PROVE  EditsKept
<1>0. SettingsTyped /\ Lasting /\ Accounted
  BY DEF SettingsInv
<1>1. Config!CompletedEditsStay
  <2> SUFFICES ASSUME NEW e \in plan, e \notin crossed, phase[e] = "done", file.state = "whole",
                      {x \in plan \ {e} : {x.op, e.op} \subseteq {"panel", "config"}} = {}
               PROVE  Config!OwnSection(e) = e.op
    BY DEF Config!CompletedEditsStay
  <2>1. Alone(e)
    BY DEF Alone, Rivals
  <2>2. Shows(e, file)
    BY <1>0, <2>1 DEF Lasting
  <2> QED BY <2>2 DEF Shows, Config!OwnSection
<1>2. Config!NothingMadeUp
  BY <1>0 DEF Accounted, Explained, RulesDone, Config!NothingMadeUp, Config!AtRest
<1> QED BY <1>1, <1>2 DEF EditsKept, Config!EditsKept

(* Whatever the API's handlers, the commands and the reloader do to the one   *)
(* configuration file, with no lock between them: an edit that met no other   *)
(* between its read and its write stays in the file through all later ones,   *)
(* and half of a file is never taken for a configuration (api.rs,             *)
(* manage_cmd.rs, panel_cmd.rs, cert_cmd.rs, lib.rs).                         *)
THEOREM EditsAreKept == PartsSpec => []EditsKept
<1>1. PartsInit => SettingsInv
  BY ServerAssumption, SettingsInvInit DEF PartsInit
<1>2. SettingsInv /\ [PartsNext]_partsVars => SettingsInv'
  BY SettingsInvStep DEF PartsNext, partsVars
<1>3. SettingsInv => EditsKept
  BY SettingsInvSound
<1> QED BY <1>1, <1>2, <1>3, PTL DEF PartsSpec

--------------------------------------------------------------------------------
(* A carrier.                                                                 *)

PieceRecord == [frame : Nat, last : BOOLEAN]

(* What one side writes, one frame after the other, cut anywhere.             *)
Nth(j) == Uot!Piece(j \div 2, j % 2 = 1)
Sliced(s, o) == \A i \in 1..Len(s) : s[i] = Nth((o + i) - 1)
Numbered(s, b) == \A i \in 1..Len(s) : s[i] = b + i

CarrierTyped ==
  /\ peer \in {"server", "page", "silent"} /\ uot_stage \in {"tls", "upgrading", "junk", "open", "failed"}
  /\ writer \in {"idle", "head", "done"} /\ reader \in {"run", "done"} /\ server \in {"none", "run", "done"}
  /\ given \in 0..MaxUp /\ answered \in 0..MaxDown
  /\ acc \in Seq(PieceRecord) /\ down \in Seq(PieceRecord) /\ up \in Seq(PieceRecord) /\ rx \in Seq(PieceRecord)
  /\ got \in Seq(Nat) /\ tx_in \in Seq(Nat) /\ tx_out \in Seq(Nat) /\ queue \in Seq(Nat) /\ delivered \in Seq(Nat)

(* Before it is open nothing went either way but the answer to the upgrade.   *)
Opening ==
  /\ uot_stage # "open" =>
       /\ given = 0 /\ tx_out = <<>> /\ up = <<>> /\ rx = <<>> /\ delivered = <<>>
       /\ acc = <<>> /\ tx_in = <<>> /\ got = <<>> /\ ~note
  /\ uot_stage \in {"tls", "upgrading", "junk"} => writer = "idle" /\ reader = "run"
  /\ uot_stage = "failed" => reader = "done"
  /\ uot_stage = "tls" => server = "none" /\ down = <<>>
  /\ server = "none" => answered = 0 /\ queue = <<>>

(* The queues hold the last datagrams that were given.                        *)
Queued ==
  /\ Len(tx_out) <= given /\ Numbered(tx_out, given - Len(tx_out))
  /\ Len(queue) <= answered /\ Numbered(queue, answered - Len(queue))
  /\ writer = "head" => tx_out # <<>> /\ tx_out[1] = 1

(* How many pieces the writer has put into the stream, junk or not.           *)
Put == 2 * ((given - Len(tx_out)) + 1) + (IF writer = "head" THEN 1 ELSE 0)

(* What the server read and what is on its way continue what it delivered.    *)
UpFollows ==
  /\ Numbered(delivered, 0)
  /\ server # "done" =>
       \E o \in {0, 2 * (Len(delivered) + 1)} :
         /\ o = 0 => delivered = <<>>
         /\ Sliced(rx, o) /\ Sliced(up, o + Len(rx))
         /\ writer # "done" => (o + Len(rx)) + Len(up) = Put

(* What the client read and what is on its way continue what it was handed;   *)
(* the head of the answer to the upgrade stands for the second piece of a     *)
(* frame.                                                                     *)
DownAt == IF uot_stage \in {"tls", "upgrading"} THEN 1 ELSE 2 * ((Len(got) + Len(tx_in)) + 1)
DownFollows ==
  /\ Numbered(got, 0) /\ Numbered(tx_in, Len(got))
  /\ peer # "page" /\ reader = "run" =>
       /\ Sliced(acc, DownAt) /\ Sliced(down, DownAt + Len(acc))
       /\ server = "none" => down = <<>>
       /\ server = "run" => (DownAt + Len(acc)) + Len(down) = 2 * ((answered - Len(queue)) + 1)

(* A middlebox sends one page and hangs up.                                   *)
Interfered ==
  /\ peer = "page" =>
       /\ server = "none" /\ uot_stage \notin {"tls", "upgrading"}
       /\ Len(acc) + Len(down) <= 1 /\ (~down_end => acc = <<>> /\ down = <<>>)
  /\ note => reader = "done" /\ (peer = "page" \/ \A i \in 1..Len(acc) : ~acc[i].last)

CarrierInv == CarrierTyped /\ Opening /\ Queued /\ UpFollows /\ DownFollows /\ Interfered

LEMMA NthIs ==
  ASSUME NEW n \in Nat
  PROVE  /\ Nth(2 * n) = Uot!Piece(n, FALSE) /\ Nth(2 * n + 1) = Uot!Piece(n, TRUE)
         /\ Uot!Piece(n, FALSE) \in PieceRecord /\ Uot!Piece(n, TRUE) \in PieceRecord
<1>1. (2 * n) \div 2 = n /\ (2 * n) % 2 = 0 /\ (2 * n + 1) \div 2 = n /\ (2 * n + 1) % 2 = 1
  OBVIOUS
<1>2. Uot!Piece(n, FALSE) \in PieceRecord /\ Uot!Piece(n, TRUE) \in PieceRecord
  BY DEF Uot!Piece, PieceRecord
<1>3. Nth(2 * n) = Uot!Piece(n, FALSE)
  <2>1. Nth(2 * n) = Uot!Piece((2 * n) \div 2, (2 * n) % 2 = 1)
    BY DEF Nth
  <2>2. (2 * n) \div 2 = n /\ ((2 * n) % 2 = 1) = FALSE
    BY <1>1
  <2> QED BY <2>1, <2>2
<1>4. Nth(2 * n + 1) = Uot!Piece(n, TRUE)
  <2>1. Nth(2 * n + 1) = Uot!Piece((2 * n + 1) \div 2, (2 * n + 1) % 2 = 1)
    BY DEF Nth
  <2>2. (2 * n + 1) \div 2 = n /\ ((2 * n + 1) % 2 = 1) = TRUE
    BY <1>1
  <2> QED BY <2>1, <2>2
<1> QED BY <1>2, <1>3, <1>4

(* What was cut is joined again.                                              *)
LEMMA SlicesJoin ==
  ASSUME NEW s \in Seq(PieceRecord), NEW t \in Seq(PieceRecord), NEW o \in Nat,
         Sliced(s, o), Sliced(t, o + Len(s))
  PROVE  s \o t \in Seq(PieceRecord) /\ Len(s \o t) = Len(s) + Len(t) /\ Sliced(s \o t, o)
<1> DEFINE n == Len(s)
           k == Len(t)
           st == s \o t
<1>1. n \in Nat /\ k \in Nat
  OBVIOUS
<1>2. st \in Seq(PieceRecord) /\ Len(st) = n + k
      /\ \A i \in 1..(n + k) : st[i] = IF i <= n THEN s[i] ELSE t[i - n]
  BY ConcatProperties
<1>3. /\ \A i \in 1..n : s[i] = Nth((o + i) - 1)
      /\ \A i \in 1..k : t[i] = Nth(((o + n) + i) - 1)
  BY DEF Sliced
<1> HIDE DEF n, k, st
<1>4. ASSUME NEW i \in 1..(n + k) PROVE st[i] = Nth((o + i) - 1)
  <2>1. CASE i <= n
    <3>1. i \in 1..n
      BY <1>1, <2>1
    <3>2. st[i] = s[i]
      BY <1>2, <2>1
    <3> QED BY <1>3, <3>1, <3>2
  <2>2. CASE ~(i <= n)
    <3>1. i - n \in 1..k /\ ((o + n) + (i - n)) - 1 = (o + i) - 1
      BY <1>1, <2>2
    <3> QED BY <1>2, <1>3, <2>2, <3>1
  <2> QED BY <2>1, <2>2
<1> QED BY <1>2, <1>4 DEF Sliced, n, k, st

LEMMA SlicesCut ==
  ASSUME NEW s \in Seq(PieceRecord), NEW o \in Nat, Sliced(s, o), NEW k \in 0..Len(s)
  PROVE  /\ SubSeq(s, 1, k) \in Seq(PieceRecord) /\ Len(SubSeq(s, 1, k)) = k /\ Sliced(SubSeq(s, 1, k), o)
         /\ SubSeq(s, k + 1, Len(s)) \in Seq(PieceRecord) /\ Len(SubSeq(s, k + 1, Len(s))) = Len(s) - k
         /\ Sliced(SubSeq(s, k + 1, Len(s)), o + k)
<1> DEFINE n == Len(s)
           a == SubSeq(s, 1, k)
           b == SubSeq(s, k + 1, n)
<1>1. n \in Nat /\ k \in Nat /\ k <= n
  OBVIOUS
<1>2. /\ a \in Seq(PieceRecord) /\ Len(a) = k /\ \A i \in 1..k : a[i] = s[i]
      /\ b \in Seq(PieceRecord) /\ Len(b) = n - k /\ \A i \in 1..(n - k) : b[i] = s[k + i]
  BY <1>1
<1>3. \A i \in 1..n : s[i] = Nth((o + i) - 1)
  BY DEF Sliced
<1> HIDE DEF n, a, b
<1>4. ASSUME NEW i \in 1..k PROVE a[i] = Nth((o + i) - 1)
  <2>1. i \in 1..n /\ a[i] = s[i]
    BY <1>1, <1>2
  <2> QED BY <1>3, <2>1
<1>5. ASSUME NEW i \in 1..(n - k) PROVE b[i] = Nth(((o + k) + i) - 1)
  <2>1. k + i \in 1..n /\ (o + (k + i)) - 1 = ((o + k) + i) - 1
    BY <1>1
  <2> QED BY <1>2, <1>3, <2>1
<1> QED BY <1>2, <1>4, <1>5 DEF Sliced, n, a, b

LEMMA SlicesEmpty ==
  ASSUME NEW o
  PROVE  <<>> \in Seq(PieceRecord) /\ Len(<<>>) = 0 /\ Sliced(<<>>, o)
<1>1. Len(<<>>) = 0 /\ <<>> \in Seq(PieceRecord)
  BY EmptySeq
<1> QED BY <1>1 DEF Sliced

LEMMA SliceOne ==
  ASSUME NEW s \in Seq(PieceRecord), NEW o \in Nat, Sliced(s, o), NEW p \in PieceRecord, p = Nth(o + Len(s))
  PROVE  Append(s, p) \in Seq(PieceRecord) /\ Len(Append(s, p)) = Len(s) + 1 /\ Sliced(Append(s, p), o)
<1> DEFINE n == Len(s)
           t == Append(s, p)
<1>1. n \in Nat
  OBVIOUS
<1>2. t \in Seq(PieceRecord) /\ Len(t) = n + 1 /\ t[n + 1] = p /\ \A i \in 1..n : t[i] = s[i]
  OBVIOUS
<1>3. (\A i \in 1..n : s[i] = Nth((o + i) - 1)) /\ p = Nth(o + n)
  BY DEF Sliced
<1> HIDE DEF n, t
<1>4. ASSUME NEW i \in 1..(n + 1) PROVE t[i] = Nth((o + i) - 1)
  <2>1. CASE i \in 1..n
    BY <1>2, <1>3, <2>1
  <2>2. CASE i = n + 1
    <3>1. (o + i) - 1 = o + n
      BY <1>1, <2>2
    <3> QED BY <1>2, <1>3, <2>2, <3>1
  <2> QED BY <1>1, <2>1, <2>2
<1> QED BY <1>2, <1>4 DEF Sliced, n, t

(* The two pieces of a frame.                                                 *)
LEMMA FrameSliced ==
  ASSUME NEW n \in Nat
  PROVE  Uot!Pieces(n) \in Seq(PieceRecord) /\ Len(Uot!Pieces(n)) = 2 /\ Sliced(Uot!Pieces(n), 2 * n)
<1> DEFINE a == Uot!Piece(n, FALSE)
           b == Uot!Piece(n, TRUE)
           p == Uot!Pieces(n)
<1>1. a = Nth(2 * n) /\ b = Nth(2 * n + 1) /\ a \in PieceRecord /\ b \in PieceRecord
  BY NthIs
<1>2. p = <<a, b>>
  BY DEF Uot!Pieces
<1> HIDE DEF a, b, p
<1>3. p \in Seq(PieceRecord) /\ Len(p) = 2 /\ p[1] = a /\ p[2] = b
  BY <1>1, <1>2
<1>4. ASSUME NEW i \in 1..2 PROVE p[i] = Nth((2 * n + i) - 1)
  <2>1. CASE i = 1
    <3>1. (2 * n + i) - 1 = 2 * n
      BY <2>1
    <3> QED BY <1>1, <1>3, <2>1, <3>1
  <2>2. CASE i = 2
    <3>1. (2 * n + i) - 1 = 2 * n + 1
      BY <2>2
    <3> QED BY <1>1, <1>3, <2>2, <3>1
  <2> QED BY <2>1, <2>2
<1> QED BY <1>3, <1>4 DEF Sliced, p

LEMMA FrameFollows ==
  ASSUME NEW s \in Seq(PieceRecord), NEW o \in Nat, Sliced(s, o), NEW n \in Nat, o + Len(s) = 2 * n
  PROVE  /\ s \o Uot!Pieces(n) \in Seq(PieceRecord) /\ Len(s \o Uot!Pieces(n)) = Len(s) + 2
         /\ Sliced(s \o Uot!Pieces(n), o)
<1> DEFINE p == Uot!Pieces(n)
<1>1. p \in Seq(PieceRecord) /\ Len(p) = 2 /\ Sliced(p, o + Len(s))
  BY FrameSliced
<1> HIDE DEF p
<1>2. s \o p \in Seq(PieceRecord) /\ Len(s \o p) = Len(s) + Len(p) /\ Sliced(s \o p, o)
  BY <1>1, SlicesJoin
<1> QED BY <1>1, <1>2 DEF p

(* What starts with a whole frame, and what does not.                         *)
LEMMA FrameAtHead ==
  ASSUME NEW s \in Seq(PieceRecord), NEW n \in Nat, Sliced(s, 2 * n)
  PROVE  IF Uot!Complete(s)
         THEN /\ Len(s) >= 2 /\ s[1].frame = n
              /\ SubSeq(s, 3, Len(s)) \in Seq(PieceRecord) /\ Len(SubSeq(s, 3, Len(s))) = Len(s) - 2
              /\ Sliced(SubSeq(s, 3, Len(s)), 2 * (n + 1))
         ELSE Len(s) <= 1 /\ \A i \in 1..Len(s) : ~s[i].last
<1> DEFINE l == Len(s)
<1>1. l \in Nat
  OBVIOUS
<1>2. /\ l >= 1 => s[1] = Uot!Piece(n, FALSE)
      /\ l >= 2 => s[2] = Uot!Piece(n, TRUE)
  <2>1. l >= 1 => s[1] = Nth((2 * n + 1) - 1)
    BY <1>1 DEF Sliced
  <2>2. l >= 2 => s[2] = Nth((2 * n + 2) - 1)
    BY <1>1 DEF Sliced
  <2>3. (2 * n + 1) - 1 = 2 * n /\ (2 * n + 2) - 1 = 2 * n + 1
    OBVIOUS
  <2> QED BY <2>1, <2>2, <2>3, NthIs
<1>3. /\ l >= 1 => s[1].frame = n /\ ~s[1].last
      /\ l >= 2 => s[2].last
  BY <1>2 DEF Uot!Piece
<1>4. Uot!Complete(s) <=> l >= 2
  BY <1>1, <1>3 DEF Uot!Complete
<1>5. CASE l >= 2
  <2> DEFINE k == 2
  <2>1. k \in 0..Len(s) /\ 2 * n \in Nat
    BY <1>5
  <2>2. k = 2
    OBVIOUS
  <2> HIDE DEF k
  <2>3. /\ SubSeq(s, k + 1, Len(s)) \in Seq(PieceRecord) /\ Len(SubSeq(s, k + 1, Len(s))) = Len(s) - k
        /\ Sliced(SubSeq(s, k + 1, Len(s)), 2 * n + k)
    BY <2>1, SlicesCut
  <2>4. k + 1 = 3 /\ 2 * n + k = 2 * (n + 1)
    BY <2>2
  <2>5. /\ SubSeq(s, 3, Len(s)) \in Seq(PieceRecord) /\ Len(SubSeq(s, 3, Len(s))) = Len(s) - 2
        /\ Sliced(SubSeq(s, 3, Len(s)), 2 * (n + 1))
    BY <2>2, <2>3, <2>4
  <2> QED BY <1>3, <1>4, <1>5, <2>5
<1>6. CASE ~(l >= 2)
  <2>1. l <= 1 /\ \A i \in 1..l : i = 1
    BY <1>1, <1>6
  <2> QED BY <1>3, <1>4, <1>6, <2>1
<1> QED BY <1>5, <1>6

(* Queues of numbers.                                                         *)
LEMMA NumbersEmpty ==
  ASSUME NEW b
  PROVE  <<>> \in Seq(Nat) /\ Len(<<>>) = 0 /\ Numbered(<<>>, b)
<1>1. Len(<<>>) = 0 /\ <<>> \in Seq(Nat)
  BY EmptySeq
<1> QED BY <1>1 DEF Numbered

LEMMA NumbersGrow ==
  ASSUME NEW s \in Seq(Nat), NEW b \in Nat, Numbered(s, b), NEW x \in Nat, x = b + (Len(s) + 1)
  PROVE  Append(s, x) \in Seq(Nat) /\ Len(Append(s, x)) = Len(s) + 1 /\ Numbered(Append(s, x), b)
<1> DEFINE n == Len(s)
           t == Append(s, x)
<1>1. n \in Nat
  OBVIOUS
<1>2. t \in Seq(Nat) /\ Len(t) = n + 1 /\ t[n + 1] = x /\ \A i \in 1..n : t[i] = s[i]
  OBVIOUS
<1>3. (\A i \in 1..n : s[i] = b + i) /\ x = b + (n + 1)
  BY DEF Numbered
<1> HIDE DEF n, t
<1>4. ASSUME NEW i \in 1..(n + 1) PROVE t[i] = b + i
  <2>1. CASE i \in 1..n
    BY <1>2, <1>3, <2>1
  <2>2. CASE i = n + 1
    BY <1>2, <1>3, <2>2
  <2> QED BY <1>1, <2>1, <2>2
<1> QED BY <1>2, <1>4 DEF Numbered, n, t

LEMMA NumbersTaken ==
  ASSUME NEW s \in Seq(Nat), s # <<>>, NEW b \in Nat, Numbered(s, b)
  PROVE  /\ Tail(s) \in Seq(Nat) /\ Len(s) >= 1 /\ Len(Tail(s)) = Len(s) - 1 /\ Numbered(Tail(s), b + 1)
         /\ s[1] = b + 1
<1> DEFINE n == Len(s)
           t == Tail(s)
<1>1. n \in Nat /\ n >= 1
  BY EmptySeq
<1>2. t \in Seq(Nat) /\ Len(t) = n - 1 /\ \A i \in 1..(n - 1) : t[i] = s[i + 1]
  <2>1. t \in Seq(Nat) /\ Len(t) = n - 1 /\ \A i \in 1..Len(t) : t[i] = s[i + 1]
    BY HeadTailProperties
  <2> QED BY <2>1
<1>3. \A i \in 1..n : s[i] = b + i
  BY DEF Numbered
<1> HIDE DEF n, t
<1>4. ASSUME NEW i \in 1..(n - 1) PROVE t[i] = (b + 1) + i
  <2>1. i + 1 \in 1..n /\ b + (i + 1) = (b + 1) + i
    BY <1>1
  <2> QED BY <1>2, <1>3, <2>1
<1>5. s[1] = b + 1
  BY <1>1, <1>3
<1> QED BY <1>1, <1>2, <1>4, <1>5 DEF Numbered, n, t

LEMMA SlicesTail ==
  ASSUME NEW s \in Seq(PieceRecord), NEW o \in Nat, Sliced(s, o), Len(s) >= 1
  PROVE  Tail(s) \in Seq(PieceRecord) /\ Len(Tail(s)) = Len(s) - 1 /\ Sliced(Tail(s), o + 1)
<1> DEFINE n == Len(s)
           t == Tail(s)
<1>1. n \in Nat /\ n >= 1 /\ s # <<>>
  BY EmptySeq
<1>2. t \in Seq(PieceRecord) /\ Len(t) = n - 1 /\ \A i \in 1..(n - 1) : t[i] = s[i + 1]
  <2>1. t \in Seq(PieceRecord) /\ Len(t) = n - 1 /\ \A i \in 1..Len(t) : t[i] = s[i + 1]
    BY <1>1, HeadTailProperties
  <2> QED BY <2>1
<1>3. \A i \in 1..n : s[i] = Nth((o + i) - 1)
  BY DEF Sliced
<1> HIDE DEF n, t
<1>4. ASSUME NEW i \in 1..(n - 1) PROVE t[i] = Nth(((o + 1) + i) - 1)
  <2>1. i + 1 \in 1..n /\ (o + (i + 1)) - 1 = ((o + 1) + i) - 1
    BY <1>1
  <2> QED BY <1>2, <1>3, <2>1
<1> QED BY <1>2, <1>4 DEF Sliced, n, t

(* The lengths are numbers, and a sequence is empty when its length is.       *)
LEMMA CarrierLengths ==
  ASSUME CarrierTyped
  PROVE  /\ Len(acc) \in Nat /\ Len(down) \in Nat /\ Len(up) \in Nat /\ Len(rx) \in Nat
         /\ Len(got) \in Nat /\ Len(tx_in) \in Nat /\ Len(tx_out) \in Nat /\ Len(queue) \in Nat /\ Len(delivered) \in Nat
         /\ MaxUp \in Nat /\ MaxDown \in Nat /\ given \in Nat /\ answered \in Nat
<1>1. MaxUp \in Nat /\ MaxDown \in Nat
  BY ServerAssumption DEF Uot!Valid
<1> QED BY <1>1 DEF CarrierTyped

LEMMA CarrierInvInit ==
  ASSUME Uot!Init
  PROVE  CarrierInv
<1> DEFINE e == <<>>
<1>1. /\ e \in Seq(PieceRecord) /\ e \in Seq(Nat) /\ Len(e) = 0
      /\ \A o \in Nat : Sliced(e, o) /\ Numbered(e, o)
  BY SlicesEmpty, NumbersEmpty
<1>2. /\ tx_out = e /\ acc = e /\ tx_in = e /\ got = e /\ up = e /\ down = e /\ queue = e /\ rx = e /\ delivered = e
      /\ given = 0 /\ answered = 0 /\ writer = "idle" /\ reader = "run" /\ note = FALSE
      /\ peer \in {"server", "page", "silent"} /\ uot_stage \in {"tls", "junk"} /\ server \in {"none", "run"}
      /\ peer = "page" => server = "none" /\ uot_stage = "junk"
      /\ uot_stage = "tls" => server = "none"
  BY DEF Uot!Init
<1>3. MaxUp \in Nat /\ MaxDown \in Nat
  BY ServerAssumption DEF Uot!Valid
<1>4. Opening /\ (writer = "head" => FALSE) /\ (note => FALSE)
      /\ (peer = "page" => server = "none" /\ uot_stage \notin {"tls", "upgrading"} /\ acc = <<>> /\ down = <<>>)
  BY <1>2 DEF Opening
<1> HIDE DEF e
<1>5. CarrierTyped
  BY <1>1, <1>2, <1>3 DEF CarrierTyped
<1>6. Queued
  BY <1>1, <1>2 DEF Queued
<1>7. UpFollows
  <2>1. Numbered(delivered, 0) /\ Sliced(rx, 2) /\ Sliced(up, 2 + Len(rx)) /\ (2 + Len(rx)) + Len(up) = Put
        /\ 2 = 2 * (Len(delivered) + 1)
    BY <1>1, <1>2 DEF Put
  <2> QED BY <2>1 DEF UpFollows
<1>8. DownFollows
  BY <1>1, <1>2 DEF DownFollows, DownAt
<1>9. Interfered
  <2>1. Len(acc) + Len(down) <= 1
    BY <1>1, <1>2
  <2> QED BY <1>4, <2>1 DEF Interfered
<1> QED BY <1>4, <1>5, <1>6, <1>7, <1>8, <1>9 DEF CarrierInv

(* The steps that open a carrier.                                             *)
LEMMA CarrierOpens ==
  ASSUME CarrierInv, Uot!WrapTls \/ Uot!Answer \/ Uot!Fails
  PROVE  CarrierInv'
<1>1. CarrierTyped /\ Opening /\ Queued /\ UpFollows /\ DownFollows /\ Interfered
  BY DEF CarrierInv
<1>2. /\ UNCHANGED <<peer, given, tx_out, acc, tx_in, got, note, up, queue, answered, rx, delivered, down_end>>
      /\ uot_stage \in {"tls", "upgrading"}
  BY DEF Uot!WrapTls, Uot!Answer, Uot!Fails, Uot!streams, Uot!clientVars, Uot!serverVars
<1>3. /\ peer # "page" /\ reader = "run" /\ ~note /\ writer = "idle"
      /\ server = "none" => down = <<>>
      /\ acc = <<>> /\ tx_in = <<>> /\ got = <<>> /\ up = <<>> /\ rx = <<>> /\ delivered = <<>> /\ tx_out = <<>> /\ given = 0
      /\ server = "none" => answered = 0 /\ queue = <<>>
  BY <1>1, <1>2 DEF Opening, Interfered, DownFollows
<1>e. server' # "done" => server # "done"
  BY <1>1, <1>2 DEF Opening, Uot!WrapTls, Uot!Answer, Uot!Fails, Uot!serverVars
<1>4. Queued' /\ UpFollows'
  <2>1. CASE writer' = writer
    <3>1. Put' = Put
      BY <1>2, <2>1 DEF Put
    <3> QED BY <1>1, <1>2, <1>e, <2>1, <3>1 DEF Queued, UpFollows
  <2>2. CASE writer' = "done"
    BY <1>1, <1>2, <1>e, <2>2 DEF Queued, UpFollows
  <2> QED BY <2>1, <2>2 DEF Uot!WrapTls, Uot!Answer, Uot!Fails, Uot!clientVars
<1>5. CASE Uot!WrapTls
  <2>1. /\ uot_stage = "tls" /\ uot_stage' \in {"upgrading", "open"} /\ server = "none" /\ server' \in {"none", "run"}
        /\ UNCHANGED <<down, reader, writer>>
    BY <1>1, <1>5 DEF Uot!WrapTls, Uot!streams, Opening
  <2>2. CarrierTyped' /\ Opening' /\ Interfered'
    BY <1>1, <1>2, <1>3, <2>1 DEF CarrierTyped, Opening, Interfered
  <2>3. DownFollows'
    <3> DEFINE e == <<>>
    <3>1. /\ e \in Seq(PieceRecord) /\ e \in Seq(Nat) /\ Len(e) = 0
          /\ \A o \in Nat : Sliced(e, o) /\ Numbered(e, o)
      BY SlicesEmpty, NumbersEmpty
    <3>2. acc' = e /\ down' = e /\ got' = e /\ tx_in' = e /\ queue' = e /\ answered' = 0
      BY <1>2, <1>3, <2>1
    <3> HIDE DEF e
    <3>3. DownAt' \in {1, 2} /\ (uot_stage' = "open" => DownAt' = 2) /\ uot_stage' \in {"upgrading", "open"}
      BY <2>1, <3>1, <3>2 DEF DownAt
    <3>4. /\ Sliced(acc', DownAt') /\ Sliced(down', DownAt' + Len(acc')) /\ Numbered(got', 0) /\ Numbered(tx_in', Len(got'))
          /\ Len(acc') = 0 /\ Len(down') = 0 /\ Len(queue') = 0
      BY <3>1, <3>2, <3>3
    <3>5. server' = "run" => uot_stage' = "open"
      BY <2>1, <1>5 DEF Uot!WrapTls
    <3>6. server' = "none" => down' = <<>>
      BY <1>2, <1>3, <2>1
    <3>7. server' = "run" => (DownAt' + Len(acc')) + Len(down') = 2 * ((answered' - Len(queue')) + 1)
      BY <3>2, <3>3, <3>4, <3>5
    <3> QED BY <3>4, <3>6, <3>7 DEF DownFollows
  <2> QED BY <1>4, <2>2, <2>3 DEF CarrierInv
<1>6. CASE Uot!Answer
  <2>1. /\ uot_stage = "upgrading" /\ uot_stage' = "upgrading" /\ server = "none" /\ server' = "run"
        /\ down' = Append(down, Uot!UpgradeHead) /\ UNCHANGED <<reader, writer>>
    BY <1>6 DEF Uot!Answer, Uot!clientVars
  <2>2. /\ down' \in Seq(PieceRecord) /\ Len(down') = 1 /\ Sliced(down', 1)
    <3> DEFINE e == <<>>
               p == Uot!UpgradeHead
               n == 0
    <3>1. e \in Seq(PieceRecord) /\ Len(e) = 0 /\ Sliced(e, 1)
      BY SlicesEmpty
    <3>2. n \in Nat /\ 2 * n + 1 = 1
      OBVIOUS
    <3>3. p = Uot!Piece(n, TRUE)
      BY DEF Uot!UpgradeHead
    <3>4. down' = Append(e, p)
      BY <1>3, <2>1
    <3> HIDE DEF e, p, n
    <3>5. p \in PieceRecord /\ p = Nth(1 + Len(e)) /\ 1 \in Nat
      <4>1. Nth(2 * n + 1) = Uot!Piece(n, TRUE) /\ Uot!Piece(n, TRUE) \in PieceRecord
        BY <3>2, NthIs
      <4>2. 2 * n + 1 = 1 + Len(e)
        BY <3>1, <3>2
      <4> QED BY <3>3, <4>1, <4>2
    <3>6. Append(e, p) \in Seq(PieceRecord) /\ Len(Append(e, p)) = Len(e) + 1 /\ Sliced(Append(e, p), 1)
      BY <3>1, <3>5, SliceOne
    <3> QED BY <3>1, <3>4, <3>6
  <2>3. CarrierTyped' /\ Opening' /\ Interfered'
    BY <1>1, <1>2, <1>3, <2>1, <2>2 DEF CarrierTyped, Opening, Interfered
  <2>4. DownFollows'
    <3> DEFINE e == <<>>
    <3>1. /\ e \in Seq(PieceRecord) /\ e \in Seq(Nat) /\ Len(e) = 0
          /\ \A o \in Nat : Sliced(e, o) /\ Numbered(e, o)
      BY SlicesEmpty, NumbersEmpty
    <3>2. acc' = e /\ got' = e /\ tx_in' = e /\ queue' = e /\ answered' = 0
      BY <1>2, <1>3, <2>1
    <3> HIDE DEF e
    <3>3. DownAt' = 1
      BY <2>1 DEF DownAt
    <3>4. /\ Sliced(acc', DownAt') /\ Sliced(down', DownAt' + Len(acc')) /\ Numbered(got', 0) /\ Numbered(tx_in', Len(got'))
          /\ (DownAt' + Len(acc')) + Len(down') = 2 * ((answered' - Len(queue')) + 1)
      BY <2>2, <3>1, <3>2, <3>3
    <3> QED BY <2>1, <3>4 DEF DownFollows
  <2> QED BY <1>4, <2>3, <2>4 DEF CarrierInv
<1>7. CASE Uot!Fails
  <2>1. uot_stage' = "failed" /\ reader' = "done" /\ writer' = "done" /\ UNCHANGED <<down, server>>
    BY <1>7 DEF Uot!Fails, Uot!serverVars
  <2>2. CarrierTyped' /\ Opening' /\ Interfered'
    BY <1>1, <1>2, <1>3, <2>1 DEF CarrierTyped, Opening, Interfered
  <2>3. DownFollows'
    BY <1>1, <1>2, <2>1 DEF DownFollows
  <2> QED BY <1>4, <2>2, <2>3 DEF CarrierInv
<1> QED BY <1>5, <1>6, <1>7

LEMMA CarrierUpgraded ==
  ASSUME CarrierInv, Uot!HttpUpgrade
  PROVE  CarrierInv'
<1>1. CarrierTyped /\ Opening /\ Queued /\ UpFollows /\ DownFollows /\ Interfered
  BY DEF CarrierInv
<1>2. /\ UNCHANGED <<peer, given, tx_out, writer, reader, tx_in, got, note, up, queue, answered, rx, delivered, server, down_end>>
      /\ uot_stage = "upgrading" /\ uot_stage' = "open"
  BY DEF Uot!HttpUpgrade, Uot!serverVars
<1>3. /\ peer # "page" /\ reader = "run" /\ ~note /\ writer = "idle"
      /\ acc = <<>> /\ tx_in = <<>> /\ got = <<>>
      /\ server = "none" => down = <<>>
      /\ server = "none" => answered = 0 /\ queue = <<>>
  BY <1>1, <1>2 DEF Opening, Interfered, DownFollows
<1>4. PICK k \in 1..Len(down) : acc' = Tail(SubSeq(down, 1, k)) /\ down' = SubSeq(down, k + 1, Len(down))
  BY DEF Uot!HttpUpgrade, Uot!Behind, Uot!Reads, Uot!Left
<1>5. Len(down) \in Nat /\ k \in Nat /\ k >= 1 /\ k <= Len(down) /\ down \in Seq(PieceRecord)
  BY <1>1, <1>4 DEF CarrierTyped
<1>6. Len(acc) = 0 /\ Len(got) = 0 /\ Len(tx_in) = 0
  BY <1>3, EmptySeq
<1>7. DownAt = 1 /\ DownAt' = 2
  BY <1>2, <1>6 DEF DownAt
<1>8. Sliced(down, 1)
  BY <1>1, <1>3, <1>6, <1>7 DEF DownFollows
<1>9. /\ acc' \in Seq(PieceRecord) /\ Len(acc') = k - 1 /\ Sliced(acc', 2)
      /\ down' \in Seq(PieceRecord) /\ Len(down') = Len(down) - k /\ Sliced(down', 2 + (k - 1))
  <2> DEFINE a == SubSeq(down, 1, k)
             b == SubSeq(down, k + 1, Len(down))
  <2>1. a \in Seq(PieceRecord) /\ Len(a) = k /\ Sliced(a, 1)
        /\ b \in Seq(PieceRecord) /\ Len(b) = Len(down) - k /\ Sliced(b, 1 + k)
    BY <1>5, <1>8, SlicesCut
  <2>2. acc' = Tail(a) /\ down' = b
    BY <1>4
  <2> HIDE DEF a, b
  <2>3. Tail(a) \in Seq(PieceRecord) /\ Len(Tail(a)) = k - 1 /\ Sliced(Tail(a), 1 + 1)
    BY <1>5, <2>1, SlicesTail
  <2>4. 1 + 1 = 2 /\ 1 + k = 2 + (k - 1)
    BY <1>5
  <2> QED BY <2>1, <2>2, <2>3, <2>4
<1>10. CarrierTyped' /\ Opening' /\ Interfered'
  BY <1>1, <1>2, <1>3, <1>9 DEF CarrierTyped, Opening, Interfered
<1>11. Queued' /\ UpFollows'
  BY <1>1, <1>2 DEF Queued, UpFollows, Put
<1>12. DownFollows'
  <2>1. Numbered(got', 0) /\ Numbered(tx_in', Len(got'))
    BY <1>1, <1>2 DEF DownFollows
  <2>2. Sliced(acc', DownAt') /\ Sliced(down', DownAt' + Len(acc'))
    BY <1>7, <1>9
  <2>3. server' # "none"
    <3>1. server = "none" => Len(down) = 0
      BY <1>3, EmptySeq
    <3> QED BY <1>2, <1>5, <3>1
  <2>4. server' = "run" => (DownAt' + Len(acc')) + Len(down') = 2 * ((answered' - Len(queue')) + 1)
    <3>1. server' = "run" => (1 + 0) + Len(down) = 2 * ((answered - Len(queue)) + 1)
      BY <1>1, <1>2, <1>3, <1>6, <1>7 DEF DownFollows
    <3>2. (2 + (k - 1)) + (Len(down) - k) = (1 + 0) + Len(down)
      BY <1>5
    <3>3. answered' = answered /\ queue' = queue
      BY <1>2
    <3> QED BY <1>7, <1>9, <3>1, <3>2, <3>3
  <2> QED BY <2>1, <2>2, <2>3, <2>4 DEF DownFollows
<1> QED BY <1>10, <1>11, <1>12 DEF CarrierInv

LEMMA CarrierJunk ==
  ASSUME CarrierInv, Uot!JunkFrames
  PROVE  CarrierInv'
<1>1. CarrierTyped /\ Opening /\ Queued /\ UpFollows /\ DownFollows /\ Interfered
  BY DEF CarrierInv
<1>2. /\ UNCHANGED <<peer, given, tx_out, writer, reader, acc, tx_in, got, note, down, queue, answered, rx, delivered, server, down_end>>
      /\ uot_stage = "junk" /\ uot_stage' = "open" /\ (up' = up \/ up' = up \o Uot!Pieces(0))
  BY DEF Uot!JunkFrames, Uot!serverVars
<1>3. /\ reader = "run" /\ ~note /\ writer = "idle" /\ up = <<>> /\ rx = <<>> /\ delivered = <<>> /\ tx_out = <<>> /\ given = 0
  BY <1>1, <1>2 DEF Opening
<1> DEFINE n == 0
<1>4. n \in Nat /\ 2 * n = 0 /\ 0 \in Nat
  OBVIOUS
<1>5. up' = up \/ up' = up \o Uot!Pieces(n)
  BY <1>2
<1> HIDE DEF n
<1>6. Len(up) = 0 /\ Len(rx) = 0 /\ Len(delivered) = 0 /\ Len(tx_out) = 0 /\ Sliced(up, 0) /\ Sliced(rx, 0)
  BY <1>3, <1>4, SlicesEmpty
<1>7. CASE up' = up \o Uot!Pieces(n)
  <2>1. up' \in Seq(PieceRecord) /\ Len(up') = 2 /\ Sliced(up', 0)
    <3>1. up \in Seq(PieceRecord) /\ 0 + Len(up) = 2 * n
      BY <1>1, <1>4, <1>6 DEF CarrierTyped
    <3>2. up \o Uot!Pieces(n) \in Seq(PieceRecord) /\ Len(up \o Uot!Pieces(n)) = Len(up) + 2 /\ Sliced(up \o Uot!Pieces(n), 0)
      BY <1>4, <1>6, <3>1, FrameFollows
    <3> QED BY <1>6, <1>7, <3>2
  <2>2. CarrierTyped' /\ Opening' /\ Interfered'
    BY <1>1, <1>2, <2>1 DEF CarrierTyped, Opening, Interfered
  <2>3. Queued'
    BY <1>1, <1>2 DEF Queued
  <2>4. DownFollows'
    BY <1>1, <1>2 DEF DownFollows, DownAt
  <2>5. UpFollows'
    <3>1. Numbered(delivered', 0)
      BY <1>1, <1>2 DEF UpFollows
    <3>2. Sliced(rx', 0) /\ Sliced(up', 0 + Len(rx')) /\ (0 + Len(rx')) + Len(up') = Put' /\ delivered' = <<>>
      <4>1. Put' = 2
        BY <1>2, <1>3, <1>6 DEF Put
      <4>2. rx' = rx /\ delivered' = delivered
        BY <1>2
      <4>3. Len(rx') = 0 /\ Sliced(rx', 0) /\ delivered' = <<>>
        BY <1>3, <1>6, <4>2
      <4> QED BY <2>1, <4>1, <4>3
    <3> QED BY <3>1, <3>2 DEF UpFollows
  <2> QED BY <2>2, <2>3, <2>4, <2>5 DEF CarrierInv
<1>8. CASE up' = up
  BY <1>1, <1>2, <1>8 DEF CarrierInv, CarrierTyped, Opening, Interfered, Queued, DownFollows, DownAt, UpFollows, Put
<1> QED BY <1>5, <1>7, <1>8

(* Steps of the bridge.                                                       *)
LEMMA CarrierSends ==
  ASSUME CarrierInv, Uot!Send
  PROVE  CarrierInv'
<1>1. CarrierTyped /\ Opening /\ Queued /\ UpFollows /\ DownFollows /\ Interfered
  BY DEF CarrierInv
<1>2. /\ UNCHANGED <<peer, uot_stage, writer, reader, acc, tx_in, got, note, up, down, queue, answered, rx, delivered, server, down_end>>
      /\ uot_stage = "open" /\ given < MaxUp /\ given' = given + 1 /\ tx_out' = Append(tx_out, given')
  BY DEF Uot!Send, Uot!Open, Uot!serverVars, Uot!streams
<1>3. given \in Nat /\ Len(tx_out) \in Nat /\ Len(tx_out) <= given /\ tx_out \in Seq(Nat) /\ MaxUp \in Nat
  BY <1>1, CarrierLengths DEF CarrierTyped, Queued
<1>4. /\ tx_out' \in Seq(Nat) /\ Len(tx_out') = Len(tx_out) + 1 /\ Numbered(tx_out', given - Len(tx_out))
      /\ given' - Len(tx_out') = given - Len(tx_out)
  <2> DEFINE b == given - Len(tx_out)
             x == given'
             t == tx_out
  <2>1. b \in Nat /\ x \in Nat /\ x = b + (Len(t) + 1) /\ t \in Seq(Nat) /\ Numbered(t, b) /\ tx_out' = Append(t, x)
    BY <1>1, <1>2, <1>3 DEF Queued
  <2> HIDE DEF b, x, t
  <2>2. Append(t, x) \in Seq(Nat) /\ Len(Append(t, x)) = Len(t) + 1 /\ Numbered(Append(t, x), b)
    BY <2>1, NumbersGrow
  <2>3. tx_out' \in Seq(Nat) /\ Len(tx_out') = Len(tx_out) + 1 /\ Numbered(tx_out', given - Len(tx_out))
    BY <2>1, <2>2 DEF b, t
  <2> QED BY <1>2, <1>3, <2>3
<1>5. writer' = "head" => tx_out' # <<>> /\ tx_out'[1] = 1
  <2>1. writer = "head" => Len(tx_out) >= 1 /\ tx_out[1] = 1
    BY <1>1, EmptySeq DEF Queued, CarrierTyped
  <2>2. Len(tx_out) >= 1 => tx_out'[1] = tx_out[1] /\ Len(tx_out') >= 1
    BY <1>2, <1>3
  <2>3. Len(tx_out') >= 1 => tx_out' # <<>>
    BY <1>4, EmptySeq
  <2> QED BY <1>2, <2>1, <2>2, <2>3
<1>6. Put' = Put
  BY <1>2, <1>4 DEF Put
<1>7. CarrierTyped' /\ Opening' /\ Interfered'
  BY <1>1, <1>2, <1>3, <1>4 DEF CarrierTyped, Opening, Interfered
<1>8. Queued'
  BY <1>1, <1>2, <1>3, <1>4, <1>5 DEF Queued
<1>9. UpFollows' /\ DownFollows'
  BY <1>1, <1>2, <1>6 DEF UpFollows, DownFollows, DownAt
<1> QED BY <1>7, <1>8, <1>9 DEF CarrierInv

LEMMA CarrierReceives ==
  ASSUME CarrierInv, Uot!Recv
  PROVE  CarrierInv'
<1>1. CarrierTyped /\ Opening /\ Queued /\ UpFollows /\ DownFollows /\ Interfered
  BY DEF CarrierInv
<1>2. /\ UNCHANGED <<peer, uot_stage, given, tx_out, writer, reader, acc, note, up, down, queue, answered, rx, delivered, server, down_end>>
      /\ tx_in # <<>> /\ got' = Append(got, tx_in[1]) /\ tx_in' = Tail(tx_in)
  BY DEF Uot!Recv, Uot!serverVars, Uot!streams
<1>3. Len(got) \in Nat /\ Len(tx_in) \in Nat /\ got \in Seq(Nat) /\ tx_in \in Seq(Nat)
  BY <1>1, CarrierLengths DEF CarrierTyped
<1>4. uot_stage = "open"
  BY <1>1, <1>2 DEF Opening
<1>5. /\ got' \in Seq(Nat) /\ Len(got') = Len(got) + 1 /\ Numbered(got', 0)
      /\ tx_in' \in Seq(Nat) /\ Len(tx_in') = Len(tx_in) - 1 /\ Len(tx_in) >= 1 /\ Numbered(tx_in', Len(got'))
  <2> DEFINE b == Len(got)
             x == tx_in[1]
             t == tx_in
             g == got
             z == 0
  <2>1. Numbered(t, b) /\ Numbered(g, z) /\ t # <<>> /\ t \in Seq(Nat) /\ g \in Seq(Nat) /\ b = Len(g) /\ z = 0 /\ b \in Nat /\ z \in Nat
    BY <1>1, <1>2, <1>3 DEF DownFollows
  <2>2. got' = Append(g, x) /\ tx_in' = Tail(t) /\ x = t[1]
    BY <1>2
  <2> HIDE DEF b, x, t, g, z
  <2>3. /\ Tail(t) \in Seq(Nat) /\ Len(t) >= 1 /\ Len(Tail(t)) = Len(t) - 1 /\ Numbered(Tail(t), b + 1)
        /\ t[1] = b + 1
    BY <2>1, NumbersTaken
  <2>4. x \in Nat /\ x = z + (Len(g) + 1)
    BY <2>1, <2>2, <2>3
  <2>5. Append(g, x) \in Seq(Nat) /\ Len(Append(g, x)) = Len(g) + 1 /\ Numbered(Append(g, x), z)
    BY <2>1, <2>4, NumbersGrow
  <2>6. Len(got') = b + 1
    BY <2>1, <2>2, <2>5
  <2> QED BY <2>1, <2>2, <2>3, <2>5, <2>6 DEF t, g
<1>6. DownAt' = DownAt
  BY <1>2, <1>3, <1>4, <1>5 DEF DownAt
<1>7. CarrierTyped' /\ Opening' /\ Interfered'
  BY <1>1, <1>2, <1>4, <1>5 DEF CarrierTyped, Opening, Interfered
<1>8. Queued' /\ UpFollows'
  BY <1>1, <1>2 DEF Queued, UpFollows, Put
<1>9. DownFollows'
  BY <1>1, <1>2, <1>5, <1>6 DEF DownFollows
<1> QED BY <1>7, <1>8, <1>9 DEF CarrierInv

LEMMA CarrierDropped ==
  ASSUME CarrierInv, Uot!Drop
  PROVE  CarrierInv'
<1>1. UNCHANGED <<peer, uot_stage, given, tx_out, writer, reader, acc, tx_in, got, note, up, down, queue, answered, rx, delivered, server, down_end>>
  BY DEF Uot!Drop, Uot!serverVars, Uot!streams
<1> QED BY <1>1 DEF CarrierInv, CarrierTyped, Opening, Interfered, Queued, DownFollows, DownAt, UpFollows, Put

(* Steps of the client's writer.                                              *)
LEMMA CarrierWrites ==
  ASSUME CarrierInv, Uot!Write
  PROVE  CarrierInv'
<1>1. CarrierTyped /\ Opening /\ Queued /\ UpFollows /\ DownFollows /\ Interfered
  BY DEF CarrierInv
<1>2. /\ UNCHANGED <<peer, uot_stage, given, reader, acc, tx_in, got, note, down, queue, answered, rx, delivered, server, down_end>>
      /\ uot_stage = "open" /\ writer = "idle" /\ tx_out # <<>>
  BY DEF Uot!Write, Uot!Open, Uot!serverVars
<1>3. \/ /\ tx_out[1] = 1 /\ writer' = "head" /\ up' = Append(up, Uot!Piece(1, FALSE)) /\ tx_out' = tx_out
      \/ up' = up \o Uot!Pieces(tx_out[1]) /\ tx_out' = Tail(tx_out) /\ writer' = writer
  BY DEF Uot!Write, Uot!Cuts
<1>4. /\ given \in Nat /\ Len(tx_out) \in Nat /\ Len(tx_out) <= given /\ tx_out \in Seq(Nat) /\ up \in Seq(PieceRecord)
      /\ Len(up) \in Nat /\ Len(rx) \in Nat /\ Len(delivered) \in Nat
  BY <1>1, CarrierLengths DEF CarrierTyped, Queued
<1>5. /\ Tail(tx_out) \in Seq(Nat) /\ Len(tx_out) >= 1 /\ Len(Tail(tx_out)) = Len(tx_out) - 1
      /\ tx_out[1] = (given - Len(tx_out)) + 1 /\ Numbered(Tail(tx_out), (given - Len(tx_out)) + 1)
  <2> DEFINE b == given - Len(tx_out)
             t == tx_out
  <2>1. b \in Nat /\ t \in Seq(Nat) /\ t # <<>> /\ Numbered(t, b)
    BY <1>1, <1>2, <1>4 DEF Queued
  <2> HIDE DEF b, t
  <2>2. Tail(t) \in Seq(Nat) /\ Len(t) >= 1 /\ Len(Tail(t)) = Len(t) - 1 /\ Numbered(Tail(t), b + 1) /\ t[1] = b + 1
    BY <2>1, NumbersTaken
  <2> QED BY <2>2 DEF b, t
<1> DEFINE m == tx_out[1]
<1>6. m \in Nat /\ Put = 2 * m
  BY <1>2, <1>4, <1>5 DEF Put
<1>7. ASSUME NEW o \in Nat, Sliced(rx, o), Sliced(up, o + Len(rx)), (o + Len(rx)) + Len(up) = Put
      PROVE  Sliced(up', o + Len(rx)) /\ (o + Len(rx)) + Len(up') = Put'
  <2> DEFINE q == o + Len(rx)
             s == up
  <2>1. q \in Nat /\ s \in Seq(PieceRecord) /\ Len(s) \in Nat /\ Sliced(s, q) /\ q + Len(s) = 2 * m
    BY <1>4, <1>6, <1>7
  <2>2. CASE tx_out[1] = 1 /\ writer' = "head" /\ up' = Append(up, Uot!Piece(1, FALSE)) /\ tx_out' = tx_out
    <3> DEFINE p == Uot!Piece(m, FALSE)
    <3>1. p \in PieceRecord /\ p = Nth(2 * m)
      BY <1>6, NthIs
    <3>2. up' = Append(s, p)
      BY <2>2
    <3>3. Put' = 2 * m + 1
      <4>1. writer' = "head" /\ given' = given /\ tx_out' = tx_out
        BY <1>2, <2>2
      <4> QED BY <1>4, <1>5, <4>1 DEF Put
    <3> HIDE DEF p, q, s, m
    <3>4. p = Nth(q + Len(s))
      BY <2>1, <3>1
    <3>5. Append(s, p) \in Seq(PieceRecord) /\ Len(Append(s, p)) = Len(s) + 1 /\ Sliced(Append(s, p), q)
      BY <2>1, <3>1, <3>4, SliceOne
    <3>6. Len(up') = Len(s) + 1 /\ Sliced(up', q) /\ q + Len(up') = Put'
      BY <1>6, <2>1, <3>2, <3>3, <3>5
    <3> QED BY <3>6 DEF q
  <2>3. CASE up' = up \o Uot!Pieces(tx_out[1]) /\ tx_out' = Tail(tx_out) /\ writer' = writer
    <3>1. Put' = 2 * m + 2
      BY <1>2, <1>4, <1>5, <2>3 DEF Put
    <3>2. up' = s \o Uot!Pieces(m)
      BY <2>3
    <3> HIDE DEF q, s, m
    <3>3. s \o Uot!Pieces(m) \in Seq(PieceRecord) /\ Len(s \o Uot!Pieces(m)) = Len(s) + 2 /\ Sliced(s \o Uot!Pieces(m), q)
      BY <1>6, <2>1, FrameFollows
    <3>4. Len(up') = Len(s) + 2 /\ Sliced(up', q)
      BY <3>2, <3>3
    <3>5. q + Len(up') = Put'
      BY <1>6, <2>1, <3>1, <3>4
    <3> QED BY <3>4, <3>5 DEF q
  <2> QED BY <1>3, <2>2, <2>3
<1>8. up' \in Seq(PieceRecord)
  <2> DEFINE p == Uot!Piece(1, FALSE)
  <2>1. p \in PieceRecord
    BY DEF Uot!Piece, PieceRecord
  <2>2. Uot!Pieces(m) \in Seq(PieceRecord)
    BY <1>6, FrameSliced
  <2> HIDE DEF m, p
  <2>3. Append(up, p) \in Seq(PieceRecord)
    BY <1>4, <2>1
  <2>4. up \o Uot!Pieces(m) \in Seq(PieceRecord)
    BY <1>4, <2>2, ConcatProperties
  <2> QED BY <1>3, <2>3, <2>4 DEF m, p
<1>9. /\ tx_out' \in Seq(Nat) /\ Len(tx_out') <= given' /\ Numbered(tx_out', given' - Len(tx_out'))
      /\ (writer' = "head" => tx_out' # <<>> /\ tx_out'[1] = 1) /\ writer' \in {"idle", "head"}
  <2>1. CASE tx_out[1] = 1 /\ writer' = "head" /\ tx_out' = tx_out
    BY <1>1, <1>2, <1>4, <2>1 DEF Queued
  <2>2. CASE tx_out' = Tail(tx_out) /\ writer' = writer
    <3>1. given - Len(Tail(tx_out)) = (given - Len(tx_out)) + 1 /\ Len(Tail(tx_out)) <= given
      BY <1>4, <1>5
    <3> QED BY <1>2, <1>5, <2>2, <3>1
  <2> QED BY <1>3, <2>1, <2>2
<1>10. CarrierTyped' /\ Opening' /\ Interfered'
  BY <1>1, <1>2, <1>8, <1>9 DEF CarrierTyped, Opening, Interfered
<1>11. Queued'
  BY <1>1, <1>2, <1>9 DEF Queued
<1>12. DownFollows'
  BY <1>1, <1>2 DEF DownFollows, DownAt
<1>13. UpFollows'
  <2>1. Numbered(delivered', 0)
    BY <1>1, <1>2 DEF UpFollows
  <2>2. CASE server # "done"
    <3>1. PICK o \in {0, 2 * (Len(delivered) + 1)} :
            /\ o = 0 => delivered = <<>>
            /\ Sliced(rx, o) /\ Sliced(up, o + Len(rx)) /\ (o + Len(rx)) + Len(up) = Put
      BY <1>1, <1>2, <2>2 DEF UpFollows
    <3>2. o \in Nat
      BY <1>4
    <3>3. Sliced(up', o + Len(rx)) /\ (o + Len(rx)) + Len(up') = Put'
      BY <1>7, <3>1, <3>2
    <3>4. o \in {0, 2 * (Len(delivered') + 1)} /\ (o = 0 => delivered' = <<>>) /\ Sliced(rx', o)
          /\ Sliced(up', o + Len(rx')) /\ (o + Len(rx')) + Len(up') = Put'
      BY <1>2, <3>1, <3>3
    <3> QED BY <2>1, <3>4 DEF UpFollows
  <2>3. CASE server = "done"
    BY <1>2, <2>1, <2>3 DEF UpFollows
  <2> QED BY <2>2, <2>3
<1> QED BY <1>10, <1>11, <1>12, <1>13 DEF CarrierInv

LEMMA CarrierWritesRest ==
  ASSUME CarrierInv, Uot!WriteRest
  PROVE  CarrierInv'
<1>1. CarrierTyped /\ Opening /\ Queued /\ UpFollows /\ DownFollows /\ Interfered
  BY DEF CarrierInv
<1>2. /\ UNCHANGED <<peer, uot_stage, given, reader, acc, tx_in, got, note, down, queue, answered, rx, delivered, server, down_end>>
      /\ writer = "head" /\ writer' = "idle" /\ up' = Append(up, Uot!Piece(1, TRUE)) /\ tx_out' = Tail(tx_out)
  BY DEF Uot!WriteRest, Uot!serverVars
<1>3. uot_stage = "open"
  BY <1>1, <1>2 DEF Opening, Queued
<1>4. /\ given \in Nat /\ Len(tx_out) \in Nat /\ Len(tx_out) <= given /\ tx_out \in Seq(Nat) /\ up \in Seq(PieceRecord)
      /\ Len(up) \in Nat /\ Len(rx) \in Nat /\ Len(delivered) \in Nat /\ tx_out # <<>> /\ tx_out[1] = 1
  BY <1>1, <1>2, CarrierLengths DEF CarrierTyped, Queued
<1>5. /\ Tail(tx_out) \in Seq(Nat) /\ Len(tx_out) >= 1 /\ Len(Tail(tx_out)) = Len(tx_out) - 1
      /\ tx_out[1] = (given - Len(tx_out)) + 1 /\ Numbered(Tail(tx_out), (given - Len(tx_out)) + 1)
  <2> DEFINE b == given - Len(tx_out)
             t == tx_out
  <2>1. b \in Nat /\ t \in Seq(Nat) /\ t # <<>> /\ Numbered(t, b)
    BY <1>1, <1>4 DEF Queued
  <2> HIDE DEF b, t
  <2>2. Tail(t) \in Seq(Nat) /\ Len(t) >= 1 /\ Len(Tail(t)) = Len(t) - 1 /\ Numbered(Tail(t), b + 1) /\ t[1] = b + 1
    BY <2>1, NumbersTaken
  <2> QED BY <2>2 DEF b, t
<1>6. given - Len(tx_out) = 0 /\ Put = 3 /\ Len(tx_out') = Len(tx_out) - 1 /\ given' - Len(tx_out') = 1 /\ Put' = 4
  <2>1. given - Len(tx_out) = 0
    <3>1. given \in Nat /\ Len(tx_out) \in Nat /\ 1 = (given - Len(tx_out)) + 1
      BY <1>4, <1>5
    <3> QED BY <3>1
  <2>2. Len(tx_out') = Len(tx_out) - 1 /\ given' = given
    BY <1>2, <1>5
  <2>3. given' - Len(tx_out') = 1
    BY <1>4, <2>1, <2>2
  <2> QED BY <1>2, <2>1, <2>2, <2>3 DEF Put
<1> DEFINE p == Uot!Piece(1, TRUE)
<1>7. p \in PieceRecord /\ p = Nth(3)
  <2> DEFINE k == 1
  <2>1. k \in Nat /\ 2 * k + 1 = 3 /\ k = 1
    OBVIOUS
  <2> HIDE DEF k
  <2>2. Nth(2 * k + 1) = Uot!Piece(k, TRUE) /\ Uot!Piece(k, TRUE) \in PieceRecord
    BY <2>1, NthIs
  <2> QED BY <2>1, <2>2
<1>8. up' = Append(up, p)
  BY <1>2
<1> HIDE DEF p
<1>9. up' \in Seq(PieceRecord) /\ Len(up') = Len(up) + 1
  BY <1>4, <1>7, <1>8
<1>10. CarrierTyped' /\ Opening' /\ Interfered'
  BY <1>1, <1>2, <1>3, <1>5, <1>9 DEF CarrierTyped, Opening, Interfered
<1>11. Queued'
  <2>1. Len(tx_out') <= given' /\ Numbered(tx_out', given' - Len(tx_out'))
    BY <1>2, <1>4, <1>5, <1>6
  <2> QED BY <1>1, <1>2, <2>1 DEF Queued
<1>12. DownFollows'
  BY <1>1, <1>2 DEF DownFollows, DownAt
<1>13. UpFollows'
  <2>1. Numbered(delivered', 0)
    BY <1>1, <1>2 DEF UpFollows
  <2>2. CASE server # "done"
    <3>1. PICK o \in {0, 2 * (Len(delivered) + 1)} :
            /\ o = 0 => delivered = <<>>
            /\ Sliced(rx, o) /\ Sliced(up, o + Len(rx)) /\ (o + Len(rx)) + Len(up) = 3
      BY <1>1, <1>2, <1>6, <2>2 DEF UpFollows
    <3>2. o \in Nat /\ o + Len(rx) \in Nat
      BY <1>4
    <3> DEFINE q == o + Len(rx)
               s == up
    <3>3. q \in Nat /\ s \in Seq(PieceRecord) /\ Len(s) \in Nat /\ Sliced(s, q) /\ q + Len(s) = 3 /\ up' = Append(s, p)
      BY <1>4, <1>8, <3>1, <3>2
    <3> HIDE DEF q, s
    <3>4. p = Nth(q + Len(s))
      BY <1>7, <3>3
    <3>5. Sliced(Append(s, p), q)
      BY <1>7, <3>3, <3>4, SliceOne
    <3>6. Sliced(up', o + Len(rx))
      BY <3>3, <3>5 DEF q
    <3>7. (o + Len(rx)) + Len(up') = Put'
      BY <1>4, <1>6, <1>9, <3>1, <3>2
    <3>8. o \in {0, 2 * (Len(delivered') + 1)} /\ (o = 0 => delivered' = <<>>) /\ Sliced(rx', o)
          /\ Sliced(up', o + Len(rx')) /\ (o + Len(rx')) + Len(up') = Put'
      BY <1>2, <3>1, <3>6, <3>7
    <3> QED BY <2>1, <3>8 DEF UpFollows
  <2>3. CASE server = "done"
    BY <1>2, <2>1, <2>3 DEF UpFollows
  <2> QED BY <2>2, <2>3
<1> QED BY <1>10, <1>11, <1>12, <1>13 DEF CarrierInv

LEMMA CarrierWriterEnds ==
  ASSUME CarrierInv, Uot!WriteFails \/ Uot!Shutdown
  PROVE  CarrierInv'
<1>1. CarrierTyped /\ Opening /\ Queued /\ UpFollows /\ DownFollows /\ Interfered
  BY DEF CarrierInv
<1>2. /\ UNCHANGED <<peer, uot_stage, given, reader, acc, tx_in, got, note, up, down, queue, answered, rx, delivered, server, down_end>>
      /\ uot_stage = "open" /\ writer' = "done" /\ (tx_out' = tx_out \/ tx_out' = <<>>)
  BY DEF Uot!WriteFails, Uot!Shutdown, Uot!Open, Uot!serverVars
<1>3. given \in Nat /\ Len(tx_out) \in Nat
  BY <1>1, CarrierLengths
<1>4. tx_out' \in Seq(Nat) /\ Len(tx_out') <= given' /\ Numbered(tx_out', given' - Len(tx_out'))
  <2>1. CASE tx_out' = tx_out
    BY <1>1, <1>2, <2>1 DEF CarrierTyped, Queued
  <2>2. CASE tx_out' = <<>>
    <3> DEFINE b == given' - Len(tx_out')
    <3>1. tx_out' \in Seq(Nat) /\ Len(tx_out') = 0
      BY <2>2, EmptySeq
    <3>2. Numbered(tx_out', b)
      <4> HIDE DEF b
      <4> QED BY <2>2, NumbersEmpty
    <3> QED BY <1>2, <1>3, <3>1, <3>2
  <2> QED BY <1>2, <2>1, <2>2
<1>5. CarrierTyped' /\ Opening' /\ Interfered'
  BY <1>1, <1>2, <1>4 DEF CarrierTyped, Opening, Interfered
<1>6. Queued' /\ UpFollows' /\ DownFollows'
  BY <1>1, <1>2, <1>4 DEF Queued, UpFollows, DownFollows, DownAt
<1> QED BY <1>5, <1>6 DEF CarrierInv

(* Steps of the client's reader.                                              *)
LEMMA CarrierReads ==
  ASSUME CarrierInv, Uot!Read
  PROVE  CarrierInv'
<1>1. CarrierTyped /\ Opening /\ Queued /\ UpFollows /\ DownFollows /\ Interfered
  BY DEF CarrierInv
<1>2. /\ UNCHANGED <<peer, uot_stage, given, tx_out, writer, reader, tx_in, got, note, up, queue, answered, rx, delivered, server, down_end>>
      /\ uot_stage = "open" /\ reader = "run"
  BY DEF Uot!Read, Uot!Open, Uot!serverVars
<1>3. PICK k \in 1..Len(down) : acc' = acc \o SubSeq(down, 1, k) /\ down' = SubSeq(down, k + 1, Len(down))
  BY DEF Uot!Read, Uot!Reads, Uot!Left
<1>4. /\ acc \in Seq(PieceRecord) /\ down \in Seq(PieceRecord) /\ Len(acc) \in Nat /\ Len(down) \in Nat
      /\ k \in Nat /\ k >= 1 /\ k <= Len(down) /\ DownAt \in Nat /\ DownAt' = DownAt
      /\ Len(got) \in Nat /\ Len(tx_in) \in Nat /\ answered \in Nat /\ Len(queue) \in Nat
  BY <1>1, <1>2, <1>3, CarrierLengths DEF CarrierTyped, DownAt
<1> DEFINE a == SubSeq(down, 1, k)
           b == SubSeq(down, k + 1, Len(down))
           s == acc
           d == down
           q == DownAt
<1>5. a \in Seq(PieceRecord) /\ Len(a) = k /\ b \in Seq(PieceRecord) /\ Len(b) = Len(d) - k
  BY <1>4
<1>6. acc' = s \o a /\ down' = b /\ s \in Seq(PieceRecord) /\ Len(s) \in Nat /\ Len(d) \in Nat /\ q \in Nat /\ d = down /\ s = acc
      /\ a = SubSeq(d, 1, k) /\ b = SubSeq(d, k + 1, Len(d)) /\ d \in Seq(PieceRecord) /\ q = DownAt
  BY <1>3, <1>4
<1> HIDE DEF a, b, s, d, q
<1>7. acc' \in Seq(PieceRecord) /\ Len(acc') = Len(s) + k /\ down' \in Seq(PieceRecord) /\ Len(down') = Len(d) - k
  BY <1>5, <1>6, ConcatProperties
<1>8. CarrierTyped' /\ Opening'
  BY <1>1, <1>2, <1>7 DEF CarrierTyped, Opening
<1>9. Interfered'
  <2>1. peer = "page" => Len(acc') + Len(down') <= 1
    <3>1. peer = "page" => Len(s) + Len(d) <= 1
      BY <1>1, <1>6 DEF Interfered
    <3>2. k \in Nat /\ Len(s) \in Nat /\ Len(d) \in Nat
      BY <1>4, <1>6
    <3>3. Len(acc') + Len(down') = Len(s) + Len(d)
      BY <1>7, <3>2
    <3> QED BY <3>1, <3>3
  <2>2. peer = "page" => down_end /\ server = "none"
    <3>1. Len(down) # 0
      BY <1>4
    <3>2. down # <<>>
      BY <3>1, EmptySeq
    <3> QED BY <1>1, <3>2 DEF Interfered
  <2>3. ~note
    BY <1>1, <1>2 DEF Interfered
  <2>4. peer = "page" => uot_stage \notin {"tls", "upgrading"}
    BY <1>1 DEF Interfered
  <2> QED BY <1>2, <2>1, <2>2, <2>3, <2>4 DEF Interfered
<1>10. Queued' /\ UpFollows'
  BY <1>1, <1>2 DEF Queued, UpFollows, Put
<1>11. DownFollows'
  <2>1. Numbered(got', 0) /\ Numbered(tx_in', Len(got'))
    BY <1>1, <1>2 DEF DownFollows
  <2>2. ASSUME peer # "page" PROVE Sliced(acc', DownAt') /\ Sliced(down', DownAt' + Len(acc'))
    <3>1. Sliced(s, q) /\ Sliced(d, q + Len(s)) /\ q + Len(s) \in Nat
      BY <1>1, <1>2, <1>4, <2>2 DEF DownFollows, s, d, q
    <3>2. Sliced(a, q + Len(s)) /\ Sliced(b, (q + Len(s)) + k)
      <4> DEFINE j == q + Len(s)
      <4>1. j \in Nat /\ Sliced(d, j) /\ k \in 0..Len(d)
        BY <1>4, <1>6, <3>1
      <4> HIDE DEF j
      <4>2. Sliced(SubSeq(d, 1, k), j) /\ Sliced(SubSeq(d, k + 1, Len(d)), j + k)
        BY <1>6, <4>1, SlicesCut
      <4> QED BY <1>6, <4>2 DEF j
    <3>3. Sliced(s \o a, q)
      BY <1>5, <1>6, <3>1, <3>2, SlicesJoin
    <3>4. DownAt' = q /\ q + Len(acc') = (q + Len(s)) + k
      BY <1>4, <1>6, <1>7
    <3> QED BY <1>6, <3>2, <3>3, <3>4
  <2>3. peer # "page" /\ server = "none" => down = <<>>
    BY <1>1, <1>2 DEF DownFollows
  <2>4. Len(down) # 0
    BY <1>4
  <2>5. down # <<>>
    BY <2>4, EmptySeq
  <2>6. peer # "page" /\ server = "run" => (DownAt' + Len(acc')) + Len(down') = 2 * ((answered' - Len(queue')) + 1)
    <3>1. peer # "page" /\ server = "run" => (q + Len(s)) + Len(d) = 2 * ((answered - Len(queue)) + 1)
      BY <1>1, <1>2 DEF DownFollows, q, s, d
    <3>2. (q + (Len(s) + k)) + (Len(d) - k) = (q + Len(s)) + Len(d) /\ DownAt' = q /\ answered' = answered /\ queue' = queue
      BY <1>2, <1>4, <1>6
    <3> QED BY <1>7, <3>1, <3>2
  <2> QED BY <1>2, <2>1, <2>2, <2>3, <2>5, <2>6 DEF DownFollows
<1> QED BY <1>8, <1>9, <1>10, <1>11 DEF CarrierInv

LEMMA CarrierTakesFrame ==
  ASSUME CarrierInv, Uot!TakeFrame
  PROVE  CarrierInv'
<1>1. CarrierTyped /\ Opening /\ Queued /\ UpFollows /\ DownFollows /\ Interfered
  BY DEF CarrierInv
<1>2. /\ UNCHANGED <<peer, uot_stage, given, tx_out, writer, got, note, up, down, queue, answered, rx, delivered, server, down_end>>
      /\ uot_stage = "open" /\ reader = "run" /\ Uot!Complete(acc) /\ acc' = SubSeq(acc, 3, Len(acc))
  BY DEF Uot!TakeFrame, Uot!Open, Uot!serverVars, Uot!streams
<1>3. \/ tx_in' = Append(tx_in, acc[1].frame) /\ reader' = reader
      \/ reader' = "done" /\ tx_in' = tx_in
  BY DEF Uot!TakeFrame
<1>4. /\ acc \in Seq(PieceRecord) /\ down \in Seq(PieceRecord) /\ Len(acc) \in Nat /\ Len(down) \in Nat /\ tx_in \in Seq(Nat)
      /\ Len(got) \in Nat /\ Len(tx_in) \in Nat /\ answered \in Nat /\ Len(queue) \in Nat /\ Len(acc) >= 2
  BY <1>1, <1>2, CarrierLengths DEF CarrierTyped, Uot!Complete
<1>5. peer # "page" /\ ~note
  <2>1. peer = "page" => Len(acc) + Len(down) <= 1
    BY <1>1 DEF Interfered
  <2> QED BY <1>1, <1>2, <1>4, <2>1 DEF Interfered
<1> DEFINE n == (Len(got) + Len(tx_in)) + 1
<1>6. n \in Nat /\ DownAt = 2 * n
  BY <1>2, <1>4 DEF DownAt
<1>7. Sliced(acc, 2 * n) /\ Sliced(down, 2 * n + Len(acc)) /\ (server = "none" => down = <<>>)
      /\ (server = "run" => (2 * n + Len(acc)) + Len(down) = 2 * ((answered - Len(queue)) + 1))
  BY <1>1, <1>2, <1>5, <1>6 DEF DownFollows
<1>8. /\ acc[1].frame = n
      /\ acc' \in Seq(PieceRecord) /\ Len(acc') = Len(acc) - 2 /\ Sliced(acc', 2 * (n + 1))
  <2> HIDE DEF n
  <2>1. IF Uot!Complete(acc)
        THEN /\ Len(acc) >= 2 /\ acc[1].frame = n
             /\ SubSeq(acc, 3, Len(acc)) \in Seq(PieceRecord) /\ Len(SubSeq(acc, 3, Len(acc))) = Len(acc) - 2
             /\ Sliced(SubSeq(acc, 3, Len(acc)), 2 * (n + 1))
        ELSE Len(acc) <= 1 /\ \A i \in 1..Len(acc) : ~acc[i].last
    BY <1>4, <1>6, <1>7, FrameAtHead
  <2> QED BY <1>2, <2>1
<1>9. Interfered' /\ Queued' /\ UpFollows'
  BY <1>1, <1>2, <1>5 DEF Interfered, Queued, UpFollows, Put
<1>10. CASE tx_in' = Append(tx_in, acc[1].frame) /\ reader' = reader
  <2>1. tx_in' \in Seq(Nat) /\ Len(tx_in') = Len(tx_in) + 1 /\ Numbered(tx_in', Len(got))
    <3> DEFINE t == tx_in
               b == Len(got)
    <3>1. t \in Seq(Nat) /\ b \in Nat /\ Numbered(t, b) /\ n = b + (Len(t) + 1) /\ tx_in' = Append(t, n)
      BY <1>1, <1>4, <1>8, <1>10 DEF DownFollows
    <3> HIDE DEF t, b, n
    <3>2. Append(t, n) \in Seq(Nat) /\ Len(Append(t, n)) = Len(t) + 1 /\ Numbered(Append(t, n), b)
      BY <1>6, <3>1, NumbersGrow
    <3> QED BY <3>1, <3>2 DEF t, b
  <2>2. DownAt' = 2 * (n + 1) /\ 2 * (n + 1) + Len(acc') = 2 * n + Len(acc)
    <3>1. DownAt' = 2 * ((Len(got) + (Len(tx_in) + 1)) + 1)
      BY <1>2, <2>1 DEF DownAt
    <3> QED BY <1>4, <1>8, <3>1
  <2>3. CarrierTyped' /\ Opening'
    BY <1>1, <1>2, <1>8, <1>10, <2>1 DEF CarrierTyped, Opening
  <2>4. DownFollows'
    <3>1. Sliced(acc', DownAt') /\ Sliced(down', DownAt' + Len(acc'))
          /\ (server' = "run" => (DownAt' + Len(acc')) + Len(down') = 2 * ((answered' - Len(queue')) + 1))
      BY <1>2, <1>7, <1>8, <2>2
    <3> QED BY <1>1, <1>2, <1>7, <2>1, <3>1 DEF DownFollows
  <2> QED BY <1>9, <2>3, <2>4 DEF CarrierInv
<1>11. CASE reader' = "done" /\ tx_in' = tx_in
  BY <1>1, <1>2, <1>8, <1>9, <1>11 DEF CarrierInv, CarrierTyped, Opening, DownFollows
<1> QED BY <1>3, <1>10, <1>11

LEMMA CarrierReaderEnds ==
  ASSUME CarrierInv, Uot!ReadEnds \/ Uot!ReaderLetsGo
  PROVE  CarrierInv'
<1>1. CarrierTyped /\ Opening /\ Queued /\ UpFollows /\ DownFollows /\ Interfered
  BY DEF CarrierInv
<1>2. /\ UNCHANGED <<peer, uot_stage, given, tx_out, writer, acc, tx_in, got, up, down, queue, answered, rx, delivered, server, down_end>>
      /\ uot_stage = "open" /\ reader = "run" /\ reader' = "done" /\ ~Uot!Complete(acc)
  BY DEF Uot!ReadEnds, Uot!ReaderLetsGo, Uot!Open, Uot!serverVars, Uot!streams
<1>3. peer = "page" \/ \A i \in 1..Len(acc) : ~acc[i].last
  <2> SUFFICES ASSUME peer # "page" PROVE \A i \in 1..Len(acc) : ~acc[i].last
    OBVIOUS
  <2> DEFINE n == (Len(got) + Len(tx_in)) + 1
  <2>1. n \in Nat /\ DownAt = 2 * n /\ acc \in Seq(PieceRecord)
    BY <1>1, <1>2, CarrierLengths DEF CarrierTyped, DownAt
  <2>2. Sliced(acc, 2 * n)
    BY <1>1, <1>2, <2>1 DEF DownFollows
  <2> HIDE DEF n
  <2>3. IF Uot!Complete(acc)
        THEN /\ Len(acc) >= 2 /\ acc[1].frame = n
             /\ SubSeq(acc, 3, Len(acc)) \in Seq(PieceRecord) /\ Len(SubSeq(acc, 3, Len(acc))) = Len(acc) - 2
             /\ Sliced(SubSeq(acc, 3, Len(acc)), 2 * (n + 1))
        ELSE Len(acc) <= 1 /\ \A i \in 1..Len(acc) : ~acc[i].last
    BY <2>1, <2>2, FrameAtHead
  <2> QED BY <1>2, <2>3
<1>4. CarrierTyped' /\ Opening'
  BY <1>1, <1>2 DEF CarrierTyped, Opening
<1>5. Interfered'
  BY <1>1, <1>2, <1>3 DEF Interfered
<1>6. Queued' /\ UpFollows' /\ DownFollows'
  BY <1>1, <1>2 DEF Queued, UpFollows, DownFollows, Put
<1> QED BY <1>4, <1>5, <1>6 DEF CarrierInv

(* Steps of the server.                                                       *)
LEMMA CarrierAsked ==
  ASSUME CarrierInv, Uot!Ask
  PROVE  CarrierInv'
<1>1. CarrierTyped /\ Opening /\ Queued /\ UpFollows /\ DownFollows /\ Interfered
  BY DEF CarrierInv
<1>2. /\ UNCHANGED <<peer, uot_stage, given, tx_out, writer, reader, acc, tx_in, got, note, up, down, rx, delivered, server, down_end>>
      /\ server = "run" /\ answered < MaxDown /\ answered' = answered + 1 /\ queue' = Append(queue, answered')
  BY DEF Uot!Ask, Uot!clientVars, Uot!streams
<1>3. answered \in Nat /\ Len(queue) \in Nat /\ Len(queue) <= answered /\ queue \in Seq(Nat) /\ MaxDown \in Nat
  BY <1>1, CarrierLengths DEF CarrierTyped, Queued
<1>4. /\ queue' \in Seq(Nat) /\ Len(queue') = Len(queue) + 1 /\ Numbered(queue', answered - Len(queue))
      /\ answered' - Len(queue') = answered - Len(queue)
  <2> DEFINE b == answered - Len(queue)
             x == answered'
             t == queue
  <2>1. b \in Nat /\ x \in Nat /\ x = b + (Len(t) + 1) /\ t \in Seq(Nat) /\ Numbered(t, b) /\ queue' = Append(t, x)
    BY <1>1, <1>2, <1>3 DEF Queued
  <2> HIDE DEF b, x, t
  <2>2. Append(t, x) \in Seq(Nat) /\ Len(Append(t, x)) = Len(t) + 1 /\ Numbered(Append(t, x), b)
    BY <2>1, NumbersGrow
  <2>3. queue' \in Seq(Nat) /\ Len(queue') = Len(queue) + 1 /\ Numbered(queue', answered - Len(queue))
    BY <2>1, <2>2 DEF b, t
  <2> QED BY <1>2, <1>3, <2>3
<1>5. CarrierTyped' /\ Opening' /\ Interfered'
  BY <1>1, <1>2, <1>3, <1>4 DEF CarrierTyped, Opening, Interfered
<1>6. Queued' /\ UpFollows'
  BY <1>1, <1>2, <1>3, <1>4 DEF Queued, UpFollows, Put
<1>7. DownFollows'
  BY <1>1, <1>2, <1>4 DEF DownFollows, DownAt
<1> QED BY <1>5, <1>6, <1>7 DEF CarrierInv

LEMMA CarrierAnswered ==
  ASSUME CarrierInv, Uot!ServerWrite
  PROVE  CarrierInv'
<1>1. CarrierTyped /\ Opening /\ Queued /\ UpFollows /\ DownFollows /\ Interfered
  BY DEF CarrierInv
<1>2. /\ UNCHANGED <<peer, uot_stage, given, tx_out, writer, reader, acc, tx_in, got, note, up, answered, rx, delivered, server, down_end>>
      /\ server = "run" /\ queue # <<>> /\ queue' = Tail(queue)
      /\ \/ down' = down \o Uot!Pieces(queue[1])
         \/ down' = down /\ reader = "done"
  BY DEF Uot!ServerWrite, Uot!clientVars, Uot!Gone
<1>3. /\ answered \in Nat /\ Len(queue) \in Nat /\ Len(queue) <= answered /\ queue \in Seq(Nat)
      /\ acc \in Seq(PieceRecord) /\ down \in Seq(PieceRecord) /\ Len(acc) \in Nat /\ Len(down) \in Nat
      /\ Len(got) \in Nat /\ Len(tx_in) \in Nat /\ DownAt \in Nat
  BY <1>1, CarrierLengths DEF CarrierTyped, Queued, DownAt
<1>4. /\ Tail(queue) \in Seq(Nat) /\ Len(queue) >= 1 /\ Len(Tail(queue)) = Len(queue) - 1
      /\ queue[1] = (answered - Len(queue)) + 1 /\ Numbered(Tail(queue), (answered - Len(queue)) + 1)
  <2> DEFINE b == answered - Len(queue)
             t == queue
  <2>1. b \in Nat /\ t \in Seq(Nat) /\ t # <<>> /\ Numbered(t, b)
    BY <1>1, <1>2, <1>3 DEF Queued
  <2> HIDE DEF b, t
  <2>2. Tail(t) \in Seq(Nat) /\ Len(t) >= 1 /\ Len(Tail(t)) = Len(t) - 1 /\ Numbered(Tail(t), b + 1) /\ t[1] = b + 1
    BY <2>1, NumbersTaken
  <2> QED BY <2>2 DEF b, t
<1>5. Len(queue') = Len(queue) - 1 /\ answered' - Len(queue') = (answered - Len(queue)) + 1 /\ Len(queue') <= answered'
  <2>1. Len(queue') = Len(queue) - 1 /\ answered' = answered
    BY <1>2, <1>4
  <2> QED BY <1>3, <2>1
<1>6. peer # "page"
  BY <1>1, <1>2 DEF Interfered
<1> DEFINE m == queue[1]
           d == down
<1>7. m \in Nat /\ m = (answered - Len(queue)) + 1 /\ d \in Seq(PieceRecord) /\ Len(d) \in Nat /\ d = down
  BY <1>3, <1>4
<1>8. down' = d \o Uot!Pieces(m) \/ (down' = d /\ reader = "done")
  BY <1>2
<1>9. DownAt' = DownAt
  BY <1>2 DEF DownAt
<1> HIDE DEF m, d
<1>10. down' \in Seq(PieceRecord)
  <2>1. Uot!Pieces(m) \in Seq(PieceRecord)
    BY <1>7, FrameSliced
  <2>2. d \o Uot!Pieces(m) \in Seq(PieceRecord)
    BY <1>7, <2>1, ConcatProperties
  <2> QED BY <1>7, <1>8, <2>2
<1>11. uot_stage # "tls"
  BY <1>1, <1>2 DEF Opening
<1>12. CarrierTyped' /\ Opening' /\ Interfered'
  BY <1>1, <1>2, <1>4, <1>6, <1>10, <1>11 DEF CarrierTyped, Opening, Interfered
<1>13. Queued'
  <2>1. Numbered(queue', answered' - Len(queue'))
    BY <1>2, <1>4, <1>5
  <2> QED BY <1>1, <1>2, <1>5, <2>1 DEF Queued
<1>14. UpFollows'
  BY <1>1, <1>2 DEF UpFollows, Put
<1>15. DownFollows'
  <2>1. Numbered(got', 0) /\ Numbered(tx_in', Len(got'))
    BY <1>1, <1>2 DEF DownFollows
  <2>2. CASE reader = "run"
    <3>1. Sliced(acc, DownAt) /\ Sliced(d, DownAt + Len(acc)) /\ (DownAt + Len(acc)) + Len(d) = 2 * m
      <4>1. Sliced(acc, DownAt) /\ Sliced(down, DownAt + Len(acc))
            /\ (DownAt + Len(acc)) + Len(down) = 2 * ((answered - Len(queue)) + 1)
        BY <1>1, <1>2, <1>6, <2>2 DEF DownFollows
      <4> QED BY <1>7, <4>1
    <3> DEFINE q == DownAt + Len(acc)
    <3>2. q \in Nat /\ Sliced(d, q) /\ q + Len(d) = 2 * m
      BY <1>3, <3>1
    <3>3. q = DownAt + Len(acc)
      OBVIOUS
    <3> HIDE DEF q
    <3>4. d \o Uot!Pieces(m) \in Seq(PieceRecord) /\ Len(d \o Uot!Pieces(m)) = Len(d) + 2 /\ Sliced(d \o Uot!Pieces(m), q)
      BY <1>7, <3>2, FrameFollows
    <3>5. down' = d \o Uot!Pieces(m)
      BY <1>8, <2>2
    <3>6. Len(down') = Len(d) + 2 /\ Sliced(down', q)
      BY <3>4, <3>5
    <3>7. q + Len(down') = 2 * ((answered' - Len(queue')) + 1)
      <4>1. (answered' - Len(queue')) = m
        BY <1>5, <1>7
      <4> QED BY <1>7, <3>2, <3>6, <4>1, SMTT(30)
    <3>8. acc' = acc /\ DownAt' = DownAt /\ server' = "run" /\ reader' = reader
      BY <1>2, <1>9
    <3>9. Sliced(acc', DownAt') /\ Sliced(down', DownAt' + Len(acc'))
          /\ (DownAt' + Len(acc')) + Len(down') = 2 * ((answered' - Len(queue')) + 1)
      BY <3>1, <3>3, <3>6, <3>7, <3>8
    <3> QED BY <2>1, <3>8, <3>9 DEF DownFollows
  <2>3. CASE reader # "run"
    BY <1>2, <2>1, <2>3 DEF DownFollows
  <2> QED BY <2>2, <2>3
<1> QED BY <1>12, <1>13, <1>14, <1>15 DEF CarrierInv

LEMMA CarrierCloses ==
  ASSUME CarrierInv, Uot!ServerReadEnds \/ Uot!ServerWriteFails \/ Uot!Idle
  PROVE  CarrierInv'
<1>1. CarrierTyped /\ Opening /\ Queued /\ UpFollows /\ DownFollows /\ Interfered
  BY DEF CarrierInv
<1>2. server = "run" /\ Uot!Closes
  BY DEF Uot!ServerReadEnds, Uot!ServerWriteFails, Uot!Idle
<1>3. /\ UNCHANGED <<peer, uot_stage, given, tx_out, writer, reader, acc, tx_in, got, note, up, answered, delivered>>
      /\ server' = "done" /\ down_end' = TRUE
      /\ queue' = <<>> /\ rx' = <<>>
  BY <1>2 DEF Uot!Closes, Uot!clientVars
<1>4. PICK k \in 0..Len(down) : down' = SubSeq(down, 1, k)
  BY <1>2 DEF Uot!Closes, Uot!Reads
<1>5. /\ answered \in Nat /\ down \in Seq(PieceRecord) /\ Len(acc) \in Nat /\ Len(down) \in Nat /\ DownAt \in Nat
  BY <1>1, CarrierLengths DEF CarrierTyped, DownAt
<1> DEFINE d == down
           a == SubSeq(d, 1, k)
<1>6. k \in 0..Len(d) /\ d \in Seq(PieceRecord) /\ down' = a /\ a \in Seq(PieceRecord) /\ d = down /\ a = SubSeq(d, 1, k)
  BY <1>4, <1>5
<1> HIDE DEF d, a
<1>7. queue' \in Seq(Nat) /\ Len(queue') = 0 /\ rx' \in Seq(PieceRecord) /\ \A b : Numbered(queue', b)
  <2>1. Len(queue') = 0 /\ queue' \in Seq(Nat) /\ rx' \in Seq(PieceRecord)
    BY <1>3, EmptySeq
  <2> QED BY <2>1 DEF Numbered
<1>8. peer # "page" /\ uot_stage # "tls"
  BY <1>1, <1>2 DEF Interfered, Opening
<1>9. CarrierTyped' /\ Opening' /\ Interfered'
  BY <1>1, <1>3, <1>6, <1>7, <1>8 DEF CarrierTyped, Opening, Interfered
<1>10. Queued'
  <2>1. Len(queue') <= answered' /\ Numbered(queue', answered' - Len(queue'))
    BY <1>3, <1>5, <1>7
  <2> QED BY <1>1, <1>3, <2>1 DEF Queued
<1>11. UpFollows'
  BY <1>1, <1>3 DEF UpFollows
<1>12. DownFollows'
  <2>1. Numbered(got', 0) /\ Numbered(tx_in', Len(got')) /\ DownAt' = DownAt
    BY <1>1, <1>3 DEF DownFollows, DownAt
  <2>2. ASSUME reader = "run" PROVE Sliced(acc', DownAt') /\ Sliced(down', DownAt' + Len(acc'))
    <3> DEFINE q == DownAt + Len(acc)
    <3>1. Sliced(acc, DownAt) /\ Sliced(d, q) /\ q \in Nat
      BY <1>1, <1>5, <1>8, <2>2 DEF DownFollows, d
    <3>2. Sliced(a, q)
      <4> HIDE DEF q
      <4> QED BY <1>6, <3>1, SlicesCut
    <3> QED BY <1>3, <1>6, <2>1, <3>1, <3>2
  <2> QED BY <1>3, <2>1, <2>2 DEF DownFollows
<1> QED BY <1>9, <1>10, <1>11, <1>12 DEF CarrierInv

LEMMA CarrierServerReads ==
  ASSUME CarrierInv, Uot!ServerRead
  PROVE  CarrierInv'
<1>1. CarrierTyped /\ Opening /\ Queued /\ UpFollows /\ DownFollows /\ Interfered
  BY DEF CarrierInv
<1>2. /\ UNCHANGED <<peer, uot_stage, given, tx_out, writer, reader, acc, tx_in, got, note, down, queue, answered, delivered, server, down_end>>
      /\ server = "run"
  BY DEF Uot!ServerRead, Uot!clientVars
<1>3. PICK k \in 1..Len(up) : rx' = rx \o SubSeq(up, 1, k) /\ up' = SubSeq(up, k + 1, Len(up))
  BY DEF Uot!ServerRead
<1>4. /\ rx \in Seq(PieceRecord) /\ up \in Seq(PieceRecord) /\ Len(rx) \in Nat /\ Len(up) \in Nat
      /\ k \in Nat /\ k >= 1 /\ k <= Len(up) /\ Len(delivered) \in Nat
  BY <1>1, <1>3, CarrierLengths DEF CarrierTyped
<1>5. uot_stage = "open"
  <2>1. Len(up) # 0
    BY <1>4
  <2>2. up # <<>>
    BY <2>1, EmptySeq
  <2> QED BY <1>1, <2>2 DEF Opening
<1> DEFINE a == SubSeq(up, 1, k)
           b == SubSeq(up, k + 1, Len(up))
           s == rx
           d == up
<1>6. a \in Seq(PieceRecord) /\ Len(a) = k /\ b \in Seq(PieceRecord) /\ Len(b) = Len(d) - k
  BY <1>4
<1>7. rx' = s \o a /\ up' = b /\ s \in Seq(PieceRecord) /\ Len(s) \in Nat /\ Len(d) \in Nat /\ d = up /\ s = rx
      /\ a = SubSeq(d, 1, k) /\ b = SubSeq(d, k + 1, Len(d)) /\ d \in Seq(PieceRecord) /\ k \in 0..Len(d)
  BY <1>3, <1>4
<1> HIDE DEF a, b, s, d
<1>8. rx' \in Seq(PieceRecord) /\ Len(rx') = Len(s) + k /\ up' \in Seq(PieceRecord) /\ Len(up') = Len(d) - k
  BY <1>6, <1>7, ConcatProperties
<1>9. CarrierTyped' /\ Opening' /\ Interfered'
  BY <1>1, <1>2, <1>5, <1>8 DEF CarrierTyped, Opening, Interfered
<1>10. Queued' /\ DownFollows'
  BY <1>1, <1>2 DEF Queued, DownFollows, DownAt
<1>11. UpFollows'
  <2>1. Numbered(delivered', 0)
    BY <1>1, <1>2 DEF UpFollows
  <2>2. PICK o \in {0, 2 * (Len(delivered) + 1)} :
          /\ o = 0 => delivered = <<>>
          /\ Sliced(rx, o) /\ Sliced(up, o + Len(rx)) /\ (writer # "done" => (o + Len(rx)) + Len(up) = Put)
    BY <1>1, <1>2 DEF UpFollows
  <2>3. o \in Nat /\ Sliced(s, o) /\ Sliced(d, o + Len(s)) /\ o + Len(s) \in Nat
    BY <1>4, <1>7, <2>2
  <2>4. Sliced(a, o + Len(s)) /\ Sliced(b, (o + Len(s)) + k)
    <3> DEFINE j == o + Len(s)
    <3>1. j \in Nat /\ Sliced(d, j)
      BY <2>3
    <3> HIDE DEF j
    <3>2. Sliced(SubSeq(d, 1, k), j) /\ Sliced(SubSeq(d, k + 1, Len(d)), j + k)
      BY <1>7, <3>1, SlicesCut
    <3> QED BY <1>7, <3>2 DEF j
  <2>5. Sliced(s \o a, o)
    BY <1>6, <1>7, <2>3, <2>4, SlicesJoin
  <2>6. o + Len(rx') = (o + Len(s)) + k /\ (o + Len(rx')) + Len(up') = (o + Len(s)) + Len(d)
    <3>1. Len(s) \in Nat /\ Len(d) \in Nat /\ k \in Nat /\ o \in Nat
      BY <1>4, <1>7, <2>3
    <3> QED BY <1>8, <3>1
  <2>7. Put' = Put
    BY <1>2 DEF Put
  <2>8. Sliced(rx', o) /\ Sliced(up', o + Len(rx'))
    BY <1>7, <2>4, <2>5, <2>6
  <2>9. writer' # "done" => (o + Len(rx')) + Len(up') = Put'
    BY <1>2, <1>7, <2>2, <2>6, <2>7
  <2>10. o \in {0, 2 * (Len(delivered') + 1)} /\ (o = 0 => delivered' = <<>>)
    BY <1>2, <2>2
  <2> QED BY <2>1, <2>8, <2>9, <2>10 DEF UpFollows
<1> QED BY <1>9, <1>10, <1>11 DEF CarrierInv

LEMMA CarrierServerTakes ==
  ASSUME CarrierInv, Uot!ServerTakes
  PROVE  CarrierInv'
<1>1. CarrierTyped /\ Opening /\ Queued /\ UpFollows /\ DownFollows /\ Interfered
  BY DEF CarrierInv
<1>2. /\ UNCHANGED <<peer, uot_stage, given, tx_out, writer, reader, acc, tx_in, got, note, up, down, queue, answered, server, down_end>>
      /\ server = "run" /\ Uot!Complete(rx) /\ rx' = SubSeq(rx, 3, Len(rx))
      /\ delivered' = IF rx[1].frame > 0 THEN Append(delivered, rx[1].frame) ELSE delivered
  BY DEF Uot!ServerTakes, Uot!clientVars, Uot!streams, Uot!Dispatched
<1>3. rx \in Seq(PieceRecord) /\ Len(rx) \in Nat /\ Len(up) \in Nat /\ delivered \in Seq(Nat) /\ Len(delivered) \in Nat /\ Len(rx) >= 2
  BY <1>1, <1>2, CarrierLengths DEF CarrierTyped, Uot!Complete
<1>4. uot_stage = "open"
  <2>1. rx # <<>>
    BY <1>3, EmptySeq
  <2> QED BY <1>1, <2>1 DEF Opening
<1>5. Interfered' /\ Queued' /\ DownFollows'
  BY <1>1, <1>2 DEF Interfered, Queued, DownFollows, DownAt
<1>6. Put' = Put
  BY <1>2 DEF Put
<1>7. PICK o \in {0, 2 * (Len(delivered) + 1)} :
        /\ o = 0 => delivered = <<>>
        /\ Sliced(rx, o) /\ Sliced(up, o + Len(rx)) /\ (writer # "done" => (o + Len(rx)) + Len(up) = Put)
  BY <1>1, <1>2 DEF UpFollows
<1> DEFINE n == IF o = 0 THEN 0 ELSE Len(delivered) + 1
<1>8. n \in Nat /\ o = 2 * n
  BY <1>3, <1>7
<1>9. /\ rx[1].frame = n
      /\ rx' \in Seq(PieceRecord) /\ Len(rx') = Len(rx) - 2 /\ Sliced(rx', 2 * (n + 1))
  <2>1. Sliced(rx, 2 * n)
    BY <1>7, <1>8
  <2> HIDE DEF n
  <2>2. IF Uot!Complete(rx)
        THEN /\ Len(rx) >= 2 /\ rx[1].frame = n
             /\ SubSeq(rx, 3, Len(rx)) \in Seq(PieceRecord) /\ Len(SubSeq(rx, 3, Len(rx))) = Len(rx) - 2
             /\ Sliced(SubSeq(rx, 3, Len(rx)), 2 * (n + 1))
        ELSE Len(rx) <= 1 /\ \A i \in 1..Len(rx) : ~rx[i].last
    BY <1>3, <1>8, <2>1, FrameAtHead
  <2> QED BY <1>2, <2>2
<1>10. delivered' \in Seq(Nat) /\ Len(delivered') = n /\ Numbered(delivered', 0)
  <2>1. CASE o = 0
    <3>1. n = 0 /\ delivered' = delivered /\ Len(delivered) = 0
      BY <1>2, <1>7, <1>9, <2>1, EmptySeq
    <3> QED BY <1>1, <1>3, <3>1 DEF UpFollows
  <2>2. CASE o # 0
    <3>1. n = Len(delivered) + 1 /\ delivered' = Append(delivered, n)
      BY <1>2, <1>3, <1>9, <2>2
    <3> DEFINE g == delivered
               z == 0
    <3>2. g \in Seq(Nat) /\ z \in Nat /\ Numbered(g, z) /\ n = z + (Len(g) + 1) /\ delivered' = Append(g, n) /\ z = 0
      BY <1>1, <1>3, <3>1 DEF UpFollows
    <3>3. g = delivered
      OBVIOUS
    <3> HIDE DEF n, g, z
    <3>4. Append(g, n) \in Seq(Nat) /\ Len(Append(g, n)) = Len(g) + 1 /\ Numbered(Append(g, n), z)
      BY <1>8, <3>2, NumbersGrow
    <3> QED BY <1>3, <3>1, <3>2, <3>3, <3>4
  <2> QED BY <2>1, <2>2
<1> HIDE DEF n
<1>11. CarrierTyped' /\ Opening'
  BY <1>1, <1>2, <1>4, <1>9, <1>10 DEF CarrierTyped, Opening
<1>12. UpFollows'
  <2> DEFINE p == 2 * (n + 1)
  <2>1. p # 0 /\ p = 2 * (Len(delivered') + 1) /\ p + Len(rx') = o + Len(rx)
    BY <1>3, <1>8, <1>9, <1>10
  <2>2. Sliced(rx', p) /\ Sliced(up', p + Len(rx'))
    BY <1>2, <1>7, <1>9, <2>1
  <2>3. writer' # "done" => (p + Len(rx')) + Len(up') = Put'
    BY <1>2, <1>6, <1>7, <2>1
  <2> HIDE DEF p
  <2> QED BY <1>10, <2>1, <2>2, <2>3 DEF UpFollows
<1> QED BY <1>5, <1>11, <1>12 DEF CarrierInv

(* A middlebox answers.                                                       *)
LEMMA CarrierInterfered ==
  ASSUME CarrierInv, Uot!Interferes
  PROVE  CarrierInv'
<1>1. CarrierTyped /\ Opening /\ Queued /\ UpFollows /\ DownFollows /\ Interfered
  BY DEF CarrierInv
<1>2. /\ UNCHANGED <<peer, uot_stage, given, tx_out, writer, reader, acc, tx_in, got, note, up, queue, answered, rx, delivered, server>>
      /\ peer = "page" /\ ~down_end /\ down' = <<Uot!Page>> /\ down_end' = TRUE
  BY DEF Uot!Interferes, Uot!clientVars, Uot!serverVars
<1>3. acc = <<>> /\ uot_stage \notin {"tls", "upgrading"}
  BY <1>1, <1>2 DEF Interfered
<1>4. Len(acc) = 0
  BY <1>3, EmptySeq
<1> DEFINE p == Uot!Page
<1>5. p \in PieceRecord
  BY DEF Uot!Page, Uot!Piece, PieceRecord
<1>6. down' = <<p>>
  BY <1>2
<1> HIDE DEF p
<1>7. down' \in Seq(PieceRecord) /\ Len(down') = 1
  BY <1>5, <1>6
<1>8. CarrierTyped' /\ Opening'
  BY <1>1, <1>2, <1>3, <1>7 DEF CarrierTyped, Opening
<1>9. Interfered'
  <2>1. Len(acc') + Len(down') <= 1
    BY <1>2, <1>4, <1>7
  <2> QED BY <1>1, <1>2, <2>1 DEF Interfered
<1>10. Queued' /\ UpFollows' /\ DownFollows'
  BY <1>1, <1>2 DEF Queued, UpFollows, DownFollows, DownAt, Put
<1> QED BY <1>8, <1>9, <1>10 DEF CarrierInv

LEMMA CarrierInvStep ==
  ASSUME CarrierInv, PartsNext \/ UNCHANGED partsVars
  PROVE  CarrierInv'
<1>1. CASE UNCHANGED carrier
  BY <1>1 DEF carrier, CarrierInv, CarrierTyped, Opening, Interfered, Queued, DownFollows, DownAt, UpFollows, Put
<1>2. CASE Uot!Next
  <2>1. CASE Uot!WrapTls \/ Uot!Answer \/ Uot!Fails
    BY <2>1, CarrierOpens
  <2>2. CASE Uot!HttpUpgrade
    BY <2>2, CarrierUpgraded
  <2>3. CASE Uot!JunkFrames
    BY <2>3, CarrierJunk
  <2>4. CASE Uot!Send
    BY <2>4, CarrierSends
  <2>5. CASE Uot!Recv
    BY <2>5, CarrierReceives
  <2>6. CASE Uot!Drop
    BY <2>6, CarrierDropped
  <2>7. CASE Uot!Write
    BY <2>7, CarrierWrites
  <2>8. CASE Uot!WriteRest
    BY <2>8, CarrierWritesRest
  <2>9. CASE Uot!WriteFails \/ Uot!Shutdown
    BY <2>9, CarrierWriterEnds
  <2>10. CASE Uot!TakeFrame
    BY <2>10, CarrierTakesFrame
  <2>11. CASE Uot!Read
    BY <2>11, CarrierReads
  <2>12. CASE Uot!ReadEnds \/ Uot!ReaderLetsGo
    BY <2>12, CarrierReaderEnds
  <2>13. CASE Uot!Ask
    BY <2>13, CarrierAsked
  <2>14. CASE Uot!ServerWrite
    BY <2>14, CarrierAnswered
  <2>15. CASE Uot!ServerReadEnds \/ Uot!ServerWriteFails \/ Uot!Idle
    BY <2>15, CarrierCloses
  <2>16. CASE Uot!ServerRead
    BY <2>16, CarrierServerReads
  <2>17. CASE Uot!ServerTakes
    BY <2>17, CarrierServerTakes
  <2>18. CASE Uot!Interferes
    BY <2>18, CarrierInterfered
  <2> QED BY <1>2, <2>1, <2>2, <2>3, <2>4, <2>5, <2>6, <2>7, <2>8, <2>9, <2>10, <2>11, <2>12, <2>13, <2>14, <2>15, <2>16, <2>17, <2>18
          DEF Uot!Next, Uot!ClientSteps, Uot!ServerSteps
<1> QED BY <1>1, <1>2 DEF PartsNext, partsVars

LEMMA CarrierInvSound ==
  ASSUME CarrierInv
  PROVE  CarrierSound
<1>1. CarrierTyped /\ Opening /\ Queued /\ UpFollows /\ DownFollows /\ Interfered
  BY DEF CarrierInv
<1>2. got \in Seq(Nat) /\ tx_in \in Seq(Nat) /\ delivered \in Seq(Nat) /\ Len(got) \in Nat /\ Len(tx_in) \in Nat /\ Len(delivered) \in Nat
      /\ acc \in Seq(PieceRecord)
  BY <1>1, CarrierLengths DEF CarrierTyped
<1>3. Uot!InOrder(delivered)
  <2>1. \A i \in 1..Len(delivered) : delivered[i] = 0 + i
    BY <1>1 DEF UpFollows, Numbered
  <2>2. DOMAIN delivered = 1..Len(delivered)
    BY <1>2
  <2>3. \A i \in DOMAIN delivered : delivered[i] = i
    BY <2>1, <2>2
  <2> QED BY <2>3 DEF Uot!InOrder
<1>4. Uot!InOrder(got \o tx_in)
  <2> DEFINE n == Len(got)
             k == Len(tx_in)
             gt == got \o tx_in
  <2>1. n \in Nat /\ k \in Nat /\ (\A i \in 1..n : got[i] = 0 + i) /\ (\A i \in 1..k : tx_in[i] = n + i)
    BY <1>1, <1>2 DEF DownFollows, Numbered
  <2>2. DOMAIN gt = 1..(n + k) /\ \A i \in 1..(n + k) : gt[i] = IF i <= n THEN got[i] ELSE tx_in[i - n]
    <3>1. gt \in Seq(Nat) /\ Len(gt) = n + k /\ \A i \in 1..(n + k) : gt[i] = IF i <= n THEN got[i] ELSE tx_in[i - n]
      BY <1>2, ConcatProperties
    <3> HIDE DEF gt
    <3>2. DOMAIN gt = 1..Len(gt)
      BY <3>1
    <3> QED BY <3>1, <3>2
  <2> HIDE DEF n, k
  <2>3. ASSUME NEW i \in 1..(n + k) PROVE gt[i] = i
    <3>1. CASE i <= n
      <4>1. i \in 1..n
        BY <2>1, <3>1
      <4> QED BY <2>1, <2>2, <3>1, <4>1
    <3>2. CASE ~(i <= n)
      <4>1. i - n \in 1..k /\ n + (i - n) = i
        BY <2>1, <3>2
      <4> QED BY <2>1, <2>2, <3>2, <4>1
    <3> QED BY <3>1, <3>2
  <2> QED BY <2>2, <2>3 DEF Uot!InOrder
<1>5. Uot!OnlyForeign
  <2>1. DOMAIN acc = 1..Len(acc)
    BY <1>2
  <2> QED BY <1>1, <2>1 DEF Uot!OnlyForeign, Interfered
<1> QED BY <1>3, <1>4, <1>5 DEF CarrierSound, Uot!CarrierSound, Uot!FramesInOrder

(* Frames come out whole and in order at both ends of a carrier, wherever the *)
(* stream is cut, and only a middlebox, or a server that closed within a      *)
(* frame, is reported as foreign.                                             *)
THEOREM CarriersAreSound == PartsSpec => []CarrierSound
<1>1. PartsInit => CarrierInv
  BY CarrierInvInit DEF PartsInit
<1>2. CarrierInv /\ [PartsNext]_partsVars => CarrierInv'
  BY CarrierInvStep
<1>3. CarrierInv => CarrierSound
  BY CarrierInvSound
<1> QED BY <1>1, <1>2, <1>3, PTL DEF PartsSpec
================================================================================
