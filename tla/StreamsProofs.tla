----------------------------- MODULE StreamsProofs -----------------------------
(* Both ends of a connection get what the other sent, in order and without a  *)
(* hole, and a connection the server closed is complete: for any number of    *)
(* connections, sessions and chunks.                                          *)
(*                                                                            *)
(* A queue is read as the set of places its messages of a connection take in  *)
(* the order they were sent: a chunk takes the place of its number, what      *)
(* opens a connection takes place 0 and the Close of the target takes the     *)
(* place after the last chunk there can be.  The places in the queues from    *)
(* sender to receiver lie one behind the other (order), and what is missing   *)
(* between them is missing for good (no hole).                                *)
EXTENDS Streams, FiniteSetTheorems, TLAPS

--------------------------------------------------------------------------------
(* Places.                                                                    *)

UpKinds   == {"Connect", "UdpAssociate", "Data"}
DownKinds == {"Data", "Close"}

Place(m) == IF m.kind = "Close" THEN ChunkMax + 1 ELSE m.n

Counts(c, K, m) == m.stream = c /\ m.kind \in K
Spots(c, K, q) == {i \in DOMAIN q : Counts(c, K, q[i])}
Places(c, K, q) == {Place(q[i]) : i \in Spots(c, K, q)}
Rising(c, K, q) == \A i, j \in Spots(c, K, q) : i < j => Place(q[i]) < Place(q[j])

Below(S, T) == \A x \in S, y \in T : x < y

--------------------------------------------------------------------------------
(* Types, finer than TypeOK: which messages a queue may hold.                 *)

Sign(S, K) == [stream : S, kind : K, n : {0}]
DataOf(S) == [stream : S, kind : {"Data"}, n : 1..ChunkMax]

UpMessage == Sign(Tcp, {"Connect", "Close"}) \cup Sign(Udp, {"UdpAssociate"}) \cup DataOf(Streams)
ReaderMessage == Sign(Tcp, {"Close"}) \cup DataOf(Streams)
ConnectMessage == Sign(Tcp, {"ConnectOk", "Error"})
DownMessage == ReaderMessage \cup ConnectMessage \cup Sign(Udp, {"ConnectOk"})
ProxyMessage == DownMessage \cup {Msg(0, "Close")}
RxMessage(c) == {m \in DownMessage : m.stream = c} \cup {Msg(c, "Reset")}

QueuesTyped ==
  /\ rx \in [Streams -> Seq(Message)]
  /\ \A c \in Streams : rx[c] \in Seq(RxMessage(c))
  /\ proxy_events \in Seq(UpMessage) /\ to_proxy \in Seq(ProxyMessage)
  /\ up \in [Sessions -> Seq(UpMessage)] /\ down \in Seq(DownMessage)
  /\ stream_rx \in Seq(ReaderMessage) /\ connect_rx \in Seq(ConnectMessage)
  /\ delivered \in [Streams -> Seq(Nat)] /\ uploaded \in [Streams -> Seq(Nat)]

StateTyped ==
  /\ phase \in [Streams -> {"idle", "accepted", "connecting", "open", "ended", "finished", "reset"}]
  /\ active_streams \subseteq Streams /\ remotes \subseteq Streams
  /\ current \in Sessions /\ running \in BOOLEAN
  /\ live \subseteq 1..current /\ backpressure \subseteq Sessions
  /\ session_of \in [Streams -> 0..current]
  /\ task \in [Streams -> {"none", "routing", "done"}] /\ \A c \in Udp : task[c] = "none"
  /\ reader \in [Streams -> {"none", "reading", "ended"}]
  /\ produced \in [Streams -> 0..ChunkMax] /\ consumed \in [Streams -> 0..ChunkMax]

Typed == QueuesTyped /\ StateTyped

--------------------------------------------------------------------------------
(* From the application to the target.                                        *)

Waiting(c) == Places(c, UpKinds, proxy_events)
Wire(c) == [s \in Sessions |-> Places(c, UpKinds, up[s])]

(* The session what is sent goes on, 0 while there is none.                   *)
Now == IF running THEN current ELSE 0

RisingUp(c) == /\ Rising(c, UpKinds, proxy_events)
               /\ \A s \in Sessions : Rising(c, UpKinds, up[s])

(* W waits in the proxy's queue, O[s] is under way on session s; n chunks are *)
(* consumed, k uploaded; h is the session that opened c.                      *)
UpOrdered(W, O, n, k, h, cur) ==
  /\ k <= n /\ W \subseteq 0..n /\ \A s \in Sessions : O[s] \subseteq 0..n
  /\ \A s \in Sessions : Below(O[s], W) /\ (s > cur => O[s] = {})
  /\ \A s, t \in Sessions : s < t => Below(O[s], O[t])
  /\ h # 0 => /\ \A x \in W : k < x
              /\ \A s \in Sessions : \A x \in O[s] : 0 < x
              /\ \A x \in O[h] : k < x

(* Session s takes the chunks of c, or will when what opens c arrives; the    *)
(* first place it still wants.                                                *)
Takes(O, h, c, R, s) == 0 \in O[s] \/ (h = s /\ c \in R)
Wanted(k, h, s) == IF h = s THEN k + 1 ELSE 0

UpWhole(W, O, n, k, h, c, R, now) ==
  /\ 0 \in W => 0..n \subseteq W
  /\ \A s \in Sessions : Takes(O, h, c, R, s) =>
       /\ \A x \in O[s] : Wanted(k, h, s)..x \subseteq O[s]
       /\ s = now => Wanted(k, h, s)..n \subseteq O[s] \cup W

Upward(W, O, n, k, h, cur, c, R, now) == UpOrdered(W, O, n, k, h, cur) /\ UpWhole(W, O, n, k, h, c, R, now)

Carried(c) ==
  Upward(Waiting(c), Wire(c), consumed[c], Len(uploaded[c]), session_of[c], current, c, remotes, Now)

--------------------------------------------------------------------------------
(* From the target to the application.                                        *)

InRx(c) == Places(c, DownKinds, rx[c])
InProxy(c) == Places(c, DownKinds, to_proxy)
InDown(c) == Places(c, DownKinds, down)
InLoop(c) == Places(c, DownKinds, stream_rx)

RisingDown(c) == /\ Rising(c, DownKinds, rx[c]) /\ Rising(c, DownKinds, to_proxy)
                 /\ Rising(c, DownKinds, down) /\ Rising(c, DownKinds, stream_rx)

(* What the server loop sends for c reaches the bridge.                       *)
Heard(c) == session_of[c] \in live /\ session_of[c] = current /\ running

(* How far the way of c goes on: not at all, to its task, to the bridge, to   *)
(* the server loop.                                                           *)
Reach(c) == IF Ended(c) THEN 0 ELSE IF c \notin active_streams THEN 1 ELSE IF ~Heard(c) THEN 2 ELSE 3

(* The places there can be: the chunks after the d delivered ones up to the p *)
(* produced ones, and the end of the target if the reader ended.              *)
Ending(c) == IF reader[c] = "ended" THEN {ChunkMax + 1} ELSE {}

Flow(d, R, T, W, X, p, E, g) ==
  /\ d <= p
  /\ R \cup T \cup W \cup X \subseteq ((d + 1)..p) \cup E
  /\ Below(R, T) /\ Below(R, W) /\ Below(R, X) /\ Below(T, W) /\ Below(T, X) /\ Below(W, X)
  /\ g >= 1 => \A x \in R : \A k \in (d + 1)..p : k < x => k \in R
  /\ g >= 2 => \A x \in T : \A k \in (d + 1)..p : k < x => k \in R \cup T
  /\ g >= 2 => \A x \in W : \A k \in (d + 1)..p : k < x => k \in R \cup T \cup W
  /\ g >= 3 => (d + 1)..p \subseteq R \cup T \cup W \cup X

DownFlow(c) ==
  /\ RisingDown(c)
  /\ Flow(Len(delivered[c]), InRx(c), InProxy(c), InDown(c), InLoop(c), produced[c], Ending(c), Reach(c))
  /\ phase[c] = "finished" => Len(delivered[c]) = produced[c] /\ reader[c] = "ended"

--------------------------------------------------------------------------------
(* How a connection opens.                                                    *)

Confirms(c, q) == Places(c, {"ConnectOk"}, q) # {}
Reports(c) == Places(c, {"ConnectOk", "Error"}, connect_rx)

(* The server loop has handled the result of the connect, once and for all.   *)
Settled(c) == task[c] = "done" /\ Reports(c) = {}

(* The bridge has nothing of a connection that named no target yet.           *)
Unasked(c) ==
  phase[c] \in {"idle", "accepted"} =>
    /\ Waiting(c) = {} /\ consumed[c] = 0 /\ session_of[c] = 0
    /\ \A s \in Sessions : Wire(c)[s] = {}

(* Nor has the server of one it did not hear of.                              *)
Unheard(c) ==
  session_of[c] = 0 => /\ task[c] = "none" /\ reader[c] = "none" /\ produced[c] = 0
                       /\ uploaded[c] = <<>> /\ c \notin remotes

(* A connect reports once.                                                    *)
OneReport(c) ==
  /\ Rising(c, {"ConnectOk", "Error"}, connect_rx)
  /\ Reports(c) # {} => task[c] = "done"
  /\ task[c] = "routing" => reader[c] = "none"

(* What is open, was settled before.                                          *)
OpenSettled(c) ==
  c \in Tcp /\ (\/ Confirms(c, rx[c]) \/ Confirms(c, to_proxy) \/ Confirms(c, down)
                \/ phase[c] = "open" \/ consumed[c] > 0) => Settled(c)

Uplink(c) == Unasked(c) /\ RisingUp(c) /\ Carried(c) /\ Numbered(uploaded[c])
Opens(c) == Unheard(c) /\ OneReport(c) /\ OpenSettled(c)
Downlink(c) == DownFlow(c) /\ Numbered(delivered[c])

Inv == Typed /\ \A c \in Streams : Uplink(c) /\ Opens(c) /\ Downlink(c)

--------------------------------------------------------------------------------
(* Queues and places.                                                         *)

LEMMA EmptyPlaces ==
  ASSUME NEW c, NEW K
  PROVE  Places(c, K, <<>>) = {} /\ Rising(c, K, <<>>)
BY DEF Places, Spots, Rising

(* The head of a queue takes the first place in it.                           *)
LEMMA HeadPlaces ==
  ASSUME NEW c, NEW K, NEW M, NEW q \in Seq(M), q # <<>>, Rising(c, K, q)
  PROVE  /\ Rising(c, K, Tail(q))
         /\ \A x : x \in Places(c, K, q) <=>
                     x \in Places(c, K, Tail(q)) \/ (Counts(c, K, Head(q)) /\ x = Place(Head(q)))
         /\ \A x \in Places(c, K, Tail(q)) : Counts(c, K, Head(q)) => Place(Head(q)) < x
<1> DEFINE r == Tail(q)
<1>1. /\ Len(q) \in Nat \ {0} /\ Head(q) = q[1]
      /\ DOMAIN q = 1..Len(q) /\ DOMAIN r = 1..(Len(q) - 1)
      /\ \A i \in DOMAIN r : r[i] = q[i + 1]
  OBVIOUS
<1>2. \A i : i \in Spots(c, K, r) <=> i \in 1..(Len(q) - 1) /\ (i + 1) \in Spots(c, K, q)
  BY <1>1 DEF Spots
<1>3. \A i \in Spots(c, K, q) : i = 1 \/ ((i - 1) \in Spots(c, K, r) /\ r[i - 1] = q[i])
  BY <1>1, <1>2 DEF Spots
<1>4. 1 \in Spots(c, K, q) <=> Counts(c, K, Head(q))
  BY <1>1 DEF Spots
<1>5. Rising(c, K, r)
  BY <1>1, <1>2 DEF Rising
<1>6. \A x \in Places(c, K, r) :
        \E j \in Spots(c, K, q) : 1 < j /\ x = Place(q[j])
  <2> SUFFICES ASSUME NEW i \in Spots(c, K, r)
               PROVE  \E j \in Spots(c, K, q) : 1 < j /\ Place(r[i]) = Place(q[j])
    BY DEF Places
  <2> QED BY <1>1, <1>2 DEF Spots
<1>7. \A j \in Spots(c, K, q) : 1 < j => Place(q[j]) \in Places(c, K, r)
  BY <1>1, <1>3 DEF Places, Spots
<1>8. \A x \in Places(c, K, r) : x \in Places(c, K, q)
  BY <1>6 DEF Places
<1>9. \A x \in Places(c, K, q) : x \in Places(c, K, r) \/ (1 \in Spots(c, K, q) /\ x = Place(q[1]))
  BY <1>1, <1>7 DEF Places, Spots
<1>10. Counts(c, K, Head(q)) => Place(Head(q)) \in Places(c, K, q)
  BY <1>1, <1>4 DEF Places
<1>11. \A x \in Places(c, K, r) : Counts(c, K, Head(q)) => Place(Head(q)) < x
  BY <1>1, <1>4, <1>6 DEF Rising
<1>12. \A x : x \in Places(c, K, q) <=>
                x \in Places(c, K, r) \/ (Counts(c, K, Head(q)) /\ x = Place(Head(q)))
  BY <1>1, <1>4, <1>8, <1>9, <1>10
<1> QED BY <1>5, <1>11, <1>12

LEMMA HeadCounts ==
  ASSUME NEW c, NEW K, NEW M, NEW q \in Seq(M), q # <<>>, Rising(c, K, q), Counts(c, K, Head(q))
  PROVE  /\ Rising(c, K, Tail(q))
         /\ Places(c, K, q) = Places(c, K, Tail(q)) \cup {Place(Head(q))}
         /\ \A x \in Places(c, K, Tail(q)) : Place(Head(q)) < x
BY HeadPlaces, Zenon

LEMMA HeadPasses ==
  ASSUME NEW c, NEW K, NEW M, NEW q \in Seq(M), q # <<>>, Rising(c, K, q), ~Counts(c, K, Head(q))
  PROVE  Rising(c, K, Tail(q)) /\ Places(c, K, q) = Places(c, K, Tail(q))
<1>1. Rising(c, K, Tail(q)) /\ \A x : x \in Places(c, K, q) <=> x \in Places(c, K, Tail(q))
  BY HeadPlaces, Zenon
<1> QED BY <1>1

(* What is appended takes a place of its own.                                 *)
LEMMA LastPlaces ==
  ASSUME NEW c, NEW K, NEW M, NEW q \in Seq(M), NEW m
  PROVE  /\ Counts(c, K, m) => Places(c, K, Append(q, m)) = Places(c, K, q) \cup {Place(m)}
         /\ ~Counts(c, K, m) => Places(c, K, Append(q, m)) = Places(c, K, q)
         /\ Rising(c, K, q) /\ (Counts(c, K, m) => \A x \in Places(c, K, q) : x < Place(m))
              => Rising(c, K, Append(q, m))
<1> DEFINE r == Append(q, m)
<1>1. /\ Len(q) \in Nat /\ DOMAIN q = 1..Len(q) /\ DOMAIN r = 1..(Len(q) + 1)
      /\ r[Len(q) + 1] = m /\ \A i \in DOMAIN q : r[i] = q[i]
  OBVIOUS
<1>2. \A i : i \in Spots(c, K, r) <=> i \in Spots(c, K, q) \/ (i = Len(q) + 1 /\ Counts(c, K, m))
  BY <1>1 DEF Spots
<1>3. \A i \in Spots(c, K, q) : r[i] = q[i] /\ i < Len(q) + 1
  BY <1>1 DEF Spots
<1>4. \A x \in Places(c, K, q) : x \in Places(c, K, r)
  BY <1>2, <1>3 DEF Places
<1>5. \A x \in Places(c, K, r) : x \in Places(c, K, q) \/ (Counts(c, K, m) /\ x = Place(m))
  BY <1>1, <1>2, <1>3 DEF Places
<1>6. Counts(c, K, m) => Place(m) \in Places(c, K, r)
  BY <1>1, <1>2 DEF Places
<1>7. ASSUME Rising(c, K, q), Counts(c, K, m) => \A x \in Places(c, K, q) : x < Place(m)
      PROVE  Rising(c, K, r)
  <2> SUFFICES ASSUME NEW i \in Spots(c, K, r), NEW j \in Spots(c, K, r), i < j
               PROVE  Place(r[i]) < Place(r[j])
    BY DEF Rising
  <2>1. CASE j \in Spots(c, K, q)
    BY <1>1, <1>2, <1>3, <1>7, <2>1 DEF Rising, Spots
  <2>2. CASE j = Len(q) + 1 /\ Counts(c, K, m)
    <3>1. i \in Spots(c, K, q)
      BY <1>1, <1>2, <2>2
    <3>2. Place(q[i]) \in Places(c, K, q)
      BY <3>1 DEF Places
    <3>3. Place(q[i]) < Place(m)
      BY <1>7, <2>2, <3>2
    <3> QED BY <1>1, <1>3, <2>2, <3>1, <3>3
  <2> QED BY <1>2, <2>1, <2>2
<1> QED BY <1>4, <1>5, <1>6, <1>7

LEMMA LastCounts ==
  ASSUME NEW c, NEW K, NEW M, NEW q \in Seq(M), NEW m, Rising(c, K, q), Counts(c, K, m),
         \A x \in Places(c, K, q) : x < Place(m)
  PROVE  Rising(c, K, Append(q, m)) /\ Places(c, K, Append(q, m)) = Places(c, K, q) \cup {Place(m)}
BY LastPlaces

LEMMA LastPasses ==
  ASSUME NEW c, NEW K, NEW M, NEW q \in Seq(M), NEW m, Rising(c, K, q), ~Counts(c, K, m)
  PROVE  Rising(c, K, Append(q, m)) /\ Places(c, K, Append(q, m)) = Places(c, K, q)
BY LastPlaces

(* Messages that do not count take no place.                                  *)
LEMMA QuietPlaces ==
  ASSUME NEW c, NEW K, NEW M, NEW q \in Seq(M), NEW N, NEW s \in Seq(N),
         \A i \in DOMAIN s : ~Counts(c, K, s[i])
  PROVE  /\ Places(c, K, q \o s) = Places(c, K, q)
         /\ Rising(c, K, q) => Rising(c, K, q \o s)
<1> DEFINE r == q \o s
<1>1. /\ Len(q) \in Nat /\ Len(s) \in Nat /\ DOMAIN q = 1..Len(q)
      /\ DOMAIN s = 1..Len(s) /\ DOMAIN r = 1..(Len(q) + Len(s))
      /\ \A i \in DOMAIN r : r[i] = IF i <= Len(q) THEN q[i] ELSE s[i - Len(q)]
  OBVIOUS
<1>2. \A i \in DOMAIN r : i > Len(q) => (i - Len(q)) \in DOMAIN s
  BY <1>1
<1>3. Spots(c, K, r) = Spots(c, K, q) /\ \A i \in Spots(c, K, q) : r[i] = q[i]
  BY <1>1, <1>2 DEF Spots
<1>4. \A x : x \in Places(c, K, r) <=> x \in Places(c, K, q)
  BY <1>3 DEF Places
<1>5. ASSUME Rising(c, K, q) PROVE Rising(c, K, r)
  <2> SUFFICES ASSUME NEW i \in Spots(c, K, r), NEW j \in Spots(c, K, r), i < j
               PROVE  Place(r[i]) < Place(r[j])
    BY DEF Rising
  <2>1. /\ i \in Spots(c, K, q) /\ j \in Spots(c, K, q)
        /\ r[i] = q[i] /\ r[j] = q[j]
    BY <1>3
  <2>2. Place(q[i]) < Place(q[j])
    BY <1>5, <2>1 DEF Rising
  <2> QED BY <2>1, <2>2
<1> QED BY <1>4, <1>5

--------------------------------------------------------------------------------
(* Messages.                                                                  *)

LEMMA UpMessages ==
  /\ \A c \in Tcp : Msg(c, "Connect") \in UpMessage /\ Msg(c, "Close") \in UpMessage
  /\ \A c \in Udp : Msg(c, "UdpAssociate") \in UpMessage
  /\ \A c \in Streams : \A n \in 1..ChunkMax : Chunk(c, n) \in UpMessage
  /\ \A m \in UpMessage :
       /\ m.stream \in Streams /\ m.kind \in {"Connect", "UdpAssociate", "Data", "Close"}
       /\ m.kind = "Connect" => m.stream \in Tcp /\ m.n = 0
       /\ m.kind = "UdpAssociate" => m.stream \in Udp /\ m.n = 0
       /\ m.kind = "Data" => m.n \in 1..ChunkMax
BY DEF UpMessage, Sign, DataOf, Msg, Chunk, Streams

LEMMA DownMessages ==
  /\ \A c \in Tcp : /\ Msg(c, "Close") \in ReaderMessage
                    /\ Msg(c, "ConnectOk") \in ConnectMessage /\ Msg(c, "Error") \in ConnectMessage
  /\ \A c \in Udp : Msg(c, "ConnectOk") \in DownMessage
  /\ \A c \in Streams : \A n \in 1..ChunkMax : Chunk(c, n) \in ReaderMessage
  /\ ReaderMessage \subseteq DownMessage /\ ConnectMessage \subseteq DownMessage
  /\ DownMessage \subseteq ProxyMessage /\ Msg(0, "Close") \in ProxyMessage
BY DEF ReaderMessage, ConnectMessage, DownMessage, ProxyMessage, Sign, DataOf, Msg, Chunk, Streams

LEMMA DownFields ==
  /\ \A m \in ConnectMessage :
       /\ m.stream \in Tcp /\ m.kind \in {"ConnectOk", "Error"} /\ m.n = 0
       /\ m = [stream |-> m.stream, kind |-> m.kind, n |-> 0]
  /\ \A m \in ReaderMessage :
       /\ m.stream \in Streams /\ m.kind \in {"Data", "Close"}
       /\ m.kind = "Data" => m.n \in 1..ChunkMax /\ m = [stream |-> m.stream, kind |-> "Data", n |-> m.n]
       /\ m.kind = "Close" => m.stream \in Tcp /\ m = [stream |-> m.stream, kind |-> "Close", n |-> 0]
  /\ \A m \in DownMessage :
       /\ m.stream \in Streams /\ m.kind \in {"Data", "Close", "ConnectOk", "Error"}
       /\ m.kind = "Data" => m.n \in 1..ChunkMax
  /\ \A m \in ProxyMessage : m.stream \in Streams \/ m.stream = 0
<1>1. \A m \in ConnectMessage :
       /\ m.stream \in Tcp /\ m.kind \in {"ConnectOk", "Error"} /\ m.n = 0
       /\ m = [stream |-> m.stream, kind |-> m.kind, n |-> 0]
  BY DEF ConnectMessage, Sign
<1>2. \A m \in ReaderMessage :
       /\ m.stream \in Streams /\ m.kind \in {"Data", "Close"}
       /\ m.kind = "Data" => m.n \in 1..ChunkMax /\ m = [stream |-> m.stream, kind |-> "Data", n |-> m.n]
       /\ m.kind = "Close" => m.stream \in Tcp /\ m = [stream |-> m.stream, kind |-> "Close", n |-> 0]
  BY DEF ReaderMessage, Sign, DataOf, Streams
<1>3. \A m \in DownMessage :
       /\ m.stream \in Streams /\ m.kind \in {"Data", "Close", "ConnectOk", "Error"}
       /\ m.kind = "Data" => m.n \in 1..ChunkMax
  BY <1>1, <1>2 DEF DownMessage, Sign, Streams
<1>4. \A m \in ProxyMessage : m.stream \in Streams \/ m.stream = 0
  BY <1>3 DEF ProxyMessage, Msg
<1> QED BY <1>1, <1>2, <1>3, <1>4

LEMMA InboxMessages ==
  /\ \A c \in Streams : Msg(c, "Reset") \in RxMessage(c)
  /\ \A m \in ProxyMessage : m.stream # 0 => m.stream \in Streams /\ m \in RxMessage(m.stream)
  /\ \A c \in Streams : \A m \in RxMessage(c) :
       /\ m.stream = c /\ m.kind \in {"Data", "Close", "ConnectOk", "Error", "Reset"}
       /\ m.kind = "Data" => m.n \in 1..ChunkMax
BY DownFields, StreamsAssumption DEF RxMessage, ProxyMessage, Msg

LEMMA MessagesAreMessages ==
  /\ UpMessage \subseteq Message /\ ReaderMessage \subseteq Message /\ ConnectMessage \subseteq Message
  /\ DownMessage \subseteq Message /\ ProxyMessage \subseteq Message
  /\ \A c \in Streams : RxMessage(c) \subseteq Message
<1>1. \A K \in SUBSET {"Connect", "UdpAssociate", "Data", "Close", "ConnectOk", "Error", "Reset"} :
        \A S \in SUBSET (Streams \cup {0}) : Sign(S, K) \subseteq Message
  <2> SUFFICES ASSUME NEW K \in SUBSET {"Connect", "UdpAssociate", "Data", "Close", "ConnectOk", "Error", "Reset"},
                      NEW S \in SUBSET (Streams \cup {0}), NEW m \in Sign(S, K)
               PROVE  m \in Message
    OBVIOUS
  <2>1. /\ m = [stream |-> m.stream, kind |-> m.kind, n |-> m.n]
        /\ m.stream \in S /\ m.kind \in K /\ m.n = 0
    BY DEF Sign
  <2>2. m.stream \in Streams \cup {0} /\ m.n \in Nat
        /\ m.kind \in {"Connect", "UdpAssociate", "Data", "Close", "ConnectOk", "Error", "Reset"}
    BY <2>1
  <2> QED BY <2>1, <2>2 DEF Message
<1>2. DataOf(Streams) \subseteq Message
  BY StreamBoundsAssumption DEF DataOf, Message
<1>3. Tcp \in SUBSET (Streams \cup {0}) /\ Udp \in SUBSET (Streams \cup {0})
  BY DEF Streams
<1>4. UpMessage \subseteq Message
  BY <1>1, <1>2, <1>3 DEF UpMessage
<1>5. ReaderMessage \subseteq Message /\ ConnectMessage \subseteq Message
  BY <1>1, <1>2, <1>3 DEF ReaderMessage, ConnectMessage
<1>6. DownMessage \subseteq Message
  BY <1>1, <1>3, <1>5 DEF DownMessage
<1>7. ProxyMessage \subseteq Message
  BY <1>6 DEF ProxyMessage, Msg, Message
<1>8. \A c \in Streams : RxMessage(c) \subseteq Message
  BY <1>6 DEF RxMessage, Msg, Message
<1> QED BY <1>4, <1>5, <1>6, <1>7, <1>8

(* Which messages count, and their places.                                    *)
LEMMA UpCounts ==
  ASSUME NEW c, NEW m \in UpMessage
  PROVE  /\ Counts(c, UpKinds, m) <=> m.stream = c /\ m.kind # "Close"
         /\ Counts(c, UpKinds, m) => /\ Place(m) = m.n /\ m.n \in Nat
                                     /\ m.n = 0 <=> m.kind # "Data"
BY UpMessages, StreamBoundsAssumption DEF Counts, UpKinds, Place

LEMMA DownCounts ==
  ASSUME NEW c, NEW m, m.kind = "Data" => m.n \in 1..ChunkMax
  PROVE  /\ Counts(c, DownKinds, m) <=> m.stream = c /\ m.kind \in {"Data", "Close"}
         /\ Counts(c, DownKinds, m) /\ m.kind = "Data" => Place(m) = m.n /\ m.n \in 1..ChunkMax
         /\ Counts(c, DownKinds, m) /\ m.kind = "Close" => Place(m) = ChunkMax + 1
BY StreamBoundsAssumption DEF Counts, DownKinds, Place

--------------------------------------------------------------------------------
(* Types.                                                                     *)

LEMMA TypedInit == Init => Typed
<1> SUFFICES ASSUME Init PROVE Typed
  OBVIOUS
<1>1. QueuesTyped
  BY DEF Init, QueuesTyped
<1>2. StateTyped
  BY StreamBoundsAssumption DEF Init, StateTyped, Sessions, Streams
<1> QED BY <1>1, <1>2 DEF Typed

LEMMA SessionsAreInts == Sessions \subseteq Nat \ {0} /\ \A s \in Sessions : s <= SessionMax
BY StreamBoundsAssumption DEF Sessions

LEMMA ProxyStateTyped ==
  ASSUME StateTyped, Proxy
  PROVE  StateTyped'
<1>1. CASE ProxyLoop
  BY <1>1 DEF ProxyLoop, StateTyped, proxyVars, bridgeVars, linkVars, loopVars, taskVars, countVars
<1>2. ASSUME NEW c \in Streams, Accept(c) PROVE StateTyped'
  BY <1>2 DEF Accept, StateTyped, bridgeVars, linkVars, loopVars, taskVars, countVars
<1>3. ASSUME NEW c \in Streams, Request(c) PROVE StateTyped'
  BY <1>3 DEF Request, StateTyped, linkVars, loopVars, taskVars, countVars
<1>4. ASSUME NEW c \in Streams, GiveUp(c) \/ ConnectTimeout(c) PROVE StateTyped'
  BY <1>4 DEF GiveUp, ConnectTimeout, StateTyped, bridgeVars, linkVars, loopVars, taskVars, countVars
<1>5. ASSUME NEW c \in Streams, ConnectResult(c) PROVE StateTyped'
  BY <1>5 DEF ConnectResult, Answer, StateTyped, bridgeVars, linkVars, loopVars, taskVars, countVars
<1>6. ASSUME NEW c \in Streams, LocalData(c) PROVE StateTyped'
  <2>1. consumed' \in [Streams -> 0..ChunkMax]
    BY <1>6, StreamBoundsAssumption DEF LocalData, StateTyped
  <2> QED BY <1>6, <2>1 DEF LocalData, StateTyped, proxyVars, linkVars, loopVars, taskVars
<1>7. ASSUME NEW c \in Streams, LocalEnd(c) PROVE StateTyped'
  BY <1>7 DEF LocalEnd, StateTyped, linkVars, loopVars, taskVars, countVars
<1>8. ASSUME NEW c \in Streams, Deliver(c) PROVE StateTyped'
  BY <1>8 DEF Deliver, StateTyped, bridgeVars, linkVars, loopVars, taskVars
<1>9. ASSUME NEW c \in Streams, Unlist(c) PROVE StateTyped'
  BY <1>9 DEF Unlist, StateTyped, bridgeVars, linkVars, loopVars, taskVars, countVars
<1> QED BY <1>1, <1>2, <1>3, <1>4, <1>5, <1>6, <1>7, <1>8, <1>9 DEF Proxy

LEMMA BridgeStateTyped ==
  ASSUME StateTyped, Bridge
  PROVE  StateTyped'
<1>1. CASE BridgeSend \/ BridgeReceive \/ Stop \/ \E s \in Sessions : LoseOld(s)
  BY <1>1 DEF BridgeSend, BridgeReceive, Stop, LoseOld, StateTyped,
              proxyVars, bridgeVars, linkVars, loopVars, taskVars, countVars
<1>2. CASE NetworkChanged \/ BackgroundReconnect \/ Start
  <2>1. /\ NewSession /\ UNCHANGED <<proxyVars, remotes, session_of, backpressure, taskVars, countVars>>
    BY <1>2 DEF NetworkChanged, BackgroundReconnect, Start
  <2>2. current' \in Sessions /\ current' = current + 1 /\ current \in Nat
    BY <2>1, StreamBoundsAssumption DEF NewSession, StateTyped, Sessions
  <2>3. live' \subseteq 1..current' /\ running' \in BOOLEAN
    BY <2>1, <2>2 DEF NewSession, StateTyped
  <2>4. session_of' \in [Streams -> 0..current']
    BY <2>1, <2>2 DEF StateTyped, loopVars
  <2> QED BY <2>1, <2>2, <2>3, <2>4 DEF StateTyped, proxyVars, taskVars, countVars
<1> QED BY <1>1, <1>2 DEF Bridge

LEMMA RelayStateTyped ==
  ASSUME StateTyped, \A c \in Streams : Unheard(c), Relay
  PROVE  StateTyped'
<1>1. ASSUME NEW c \in Streams, Routed(c) PROVE StateTyped'
  <2>1. session_of[c] \in 0..current /\ session_of[c] # 0 /\ c \notin Udp
    BY <1>1 DEF Routed, StateTyped, Unheard
  <2>2. session_of[c] \in Sessions
    BY <2>1, StreamBoundsAssumption DEF StateTyped, Sessions
  <2> QED BY <1>1, <2>1, <2>2
             DEF Routed, Headroom, StateTyped, proxyVars, bridgeVars, linkVars, countVars
<1>2. ASSUME NEW c \in Streams, RouteFailed(c) PROVE StateTyped'
  <2>1. c \notin Udp
    BY <1>2 DEF RouteFailed, StateTyped
  <2> QED BY <2>1, <1>2 DEF RouteFailed, StateTyped, proxyVars, bridgeVars, linkVars, countVars
<1>3. ASSUME NEW c \in Streams, ReaderData(c) PROVE StateTyped'
  <2>1. produced' \in [Streams -> 0..ChunkMax]
    BY <1>3, StreamBoundsAssumption DEF ReaderData, StateTyped
  <2> QED BY <1>3, <2>1 DEF ReaderData, StateTyped, proxyVars, bridgeVars, linkVars, taskVars
<1>4. ASSUME NEW c \in Streams, ReaderEof(c) \/ ReaderCancelled(c) PROVE StateTyped'
  BY <1>4 DEF ReaderEof, ReaderCancelled, StateTyped, proxyVars, bridgeVars, linkVars, loopVars, countVars
<1> QED BY <1>1, <1>2, <1>3, <1>4 DEF Relay

(* The head of the queue of a session.                                        *)
LEMMA UpHead ==
  ASSUME Typed, NEW s \in Sessions, up[s] # <<>>
  PROVE  /\ up[s] \in Seq(UpMessage) /\ Head(up[s]) \in UpMessage /\ Tail(up[s]) \in Seq(UpMessage)
         /\ Head(up[s]).stream \in Streams
<1>1. up[s] \in Seq(UpMessage)
  BY DEF Typed, QueuesTyped
<1>2. Head(up[s]) \in UpMessage /\ Tail(up[s]) \in Seq(UpMessage)
  BY <1>1
<1> QED BY <1>1, <1>2, UpMessages

LEMMA LoopStateTyped ==
  ASSUME Typed, Loop
  PROVE  StateTyped'
<1> USE DEF Typed
<1>1. CASE ServerStream
  BY <1>1 DEF ServerStream, EndPassed, StateTyped, proxyVars, bridgeVars, taskVars, countVars
<1>2. CASE ServerConnect
  <2>1. Head(connect_rx) \in ConnectMessage
    BY <1>2 DEF ServerConnect, QueuesTyped
  <2>2. Head(connect_rx).stream \in Streams
    BY <2>1, DownFields DEF Streams
  <2> QED BY <1>2, <2>2 DEF ServerConnect, StateTyped, proxyVars, bridgeVars, taskVars, countVars
<1>3. ASSUME NEW s \in Sessions, ServerReceive(s) PROVE StateTyped'
  <2> DEFINE m == Head(up[s])
  <2>1. m \in UpMessage /\ m.stream \in Streams /\ s \in live /\ s \in 0..current
    BY <1>3, UpHead, StreamBoundsAssumption DEF ServerReceive, StateTyped, Sessions
  <2>2. m.kind = "Connect" => m.stream \in Tcp /\ m.stream \notin Udp
    BY <2>1, UpMessages, StreamsAssumption
  <2>3. UNCHANGED <<proxyVars, current, running, live, backpressure, produced, consumed>>
    BY <1>3 DEF ServerReceive, bridgeVars
  <2>4. session_of' \in [Streams -> 0..current']
    BY <1>3, <2>1, <2>3 DEF ServerReceive, StateTyped
  <2>5. /\ task' = task \/ (m.kind = "Connect" /\ task' = [task EXCEPT ![m.stream] = "routing"])
        /\ reader' = reader \/ reader' = [reader EXCEPT ![m.stream] = "reading"]
        /\ remotes' \subseteq remotes \cup {m.stream}
    BY <1>3 DEF ServerReceive, taskVars
  <2>6. task' \in [Streams -> {"none", "routing", "done"}] /\ \A c \in Udp : task'[c] = "none"
    BY <2>1, <2>2, <2>5 DEF StateTyped, Streams
  <2>7. reader' \in [Streams -> {"none", "reading", "ended"}] /\ remotes' \subseteq Streams
    BY <2>1, <2>5 DEF StateTyped
  <2> QED BY <2>3, <2>4, <2>6, <2>7 DEF StateTyped, proxyVars
<1>4. ASSUME NEW s \in Sessions, DatagramDrop(s) PROVE StateTyped'
  BY <1>4 DEF DatagramDrop, StateTyped, proxyVars, bridgeVars, taskVars, countVars
<1>5. ASSUME NEW D \in SUBSET Sessions, NEW sendFails \in BOOLEAN, Tick(D, sendFails) PROVE StateTyped'
  <2>1. live \subseteq Sessions
    BY StreamBoundsAssumption DEF StateTyped, Sessions
  <2> QED BY <1>5, <2>1 DEF Tick, StateTyped, proxyVars, bridgeVars, taskVars, countVars
<1> QED BY <1>1, <1>2, <1>3, <1>4, <1>5 DEF Loop

LEMMA StateTypedStep ==
  ASSUME Typed, \A c \in Streams : Unheard(c), [Next]_vars
  PROVE  StateTyped'
<1>1. CASE UNCHANGED vars
  BY <1>1 DEF Typed, StateTyped, vars, proxyVars, bridgeVars, linkVars, loopVars, taskVars, countVars
<1> QED BY <1>1, ProxyStateTyped, BridgeStateTyped, RelayStateTyped, LoopStateTyped DEF Next, Typed

LEMMA HeadTail == ASSUME NEW M, NEW q \in Seq(M), q # <<>>
                  PROVE  Head(q) \in M /\ Tail(q) \in Seq(M)
OBVIOUS

LEMMA Appended == ASSUME NEW M, NEW q \in Seq(M), NEW m \in M PROVE Append(q, m) \in Seq(M)
OBVIOUS

LEMMA Listed == ASSUME NEW M, NEW n \in Nat, NEW E \in [1..n -> M] PROVE E \in Seq(M)
OBVIOUS

LEMMA ProxyQueuesTyped ==
  ASSUME Typed, Proxy
  PROVE  QueuesTyped'
<1> USE DEF Typed
<1>1. CASE ProxyLoop
  <2> DEFINE m == Head(to_proxy)
  <2>1. m \in ProxyMessage /\ Tail(to_proxy) \in Seq(ProxyMessage)
    BY <1>1, HeadTail DEF ProxyLoop, QueuesTyped
  <2>2. ASSUME NEW c \in Streams
        PROVE  \/ rx'[c] = rx[c] \/ rx'[c] = Append(rx[c], Msg(c, "Reset"))
               \/ (m.stream = c /\ rx'[c] = Append(rx[c], m))
    <3>1. CASE m.stream = 0
      BY <1>1, <3>1 DEF ProxyLoop
    <3>2. CASE m.stream # 0
      BY <1>1, <3>2 DEF ProxyLoop, QueuesTyped
    <3> QED BY <3>1, <3>2
  <2>3. ASSUME NEW c \in Streams PROVE rx'[c] \in Seq(RxMessage(c))
    <3>1. rx[c] \in Seq(RxMessage(c)) /\ Msg(c, "Reset") \in RxMessage(c)
      BY InboxMessages DEF QueuesTyped
    <3>2. m.stream = c => m \in RxMessage(c)
      BY <2>1, InboxMessages, StreamsAssumption
    <3> QED BY <2>2, <3>1, <3>2
  <2>4. ASSUME NEW c \in Streams PROVE rx'[c] \in Seq(Message)
    BY <2>3, MessagesAreMessages
  <2>5. rx' = [c \in Streams |-> rx'[c]]
    BY <1>1 DEF ProxyLoop, QueuesTyped
  <2>6. rx' \in [Streams -> Seq(Message)]
    BY <2>4, <2>5
  <2>7. UNCHANGED <<proxy_events, up, down, stream_rx, connect_rx, delivered, uploaded>> /\ to_proxy' = Tail(to_proxy)
    BY <1>1 DEF ProxyLoop, linkVars, loopVars, countVars
  <2> QED BY <2>1, <2>3, <2>6, <2>7 DEF QueuesTyped
<1>2. ASSUME NEW c \in Streams, Accept(c) \/ GiveUp(c) \/ ConnectTimeout(c) \/ Unlist(c) PROVE QueuesTyped'
  BY <1>2 DEF Accept, GiveUp, ConnectTimeout, Unlist, QueuesTyped, bridgeVars, linkVars, loopVars, countVars
<1>3. ASSUME NEW c \in Streams, Request(c) \/ LocalData(c) \/ LocalEnd(c) PROVE QueuesTyped'
  <2>1. proxy_events' \in Seq(UpMessage)
    <3>1. proxy_events \in Seq(UpMessage)
      BY DEF QueuesTyped
    <3>2. CASE Request(c)
      <4>1. Msg(c, IF c \in Tcp THEN "Connect" ELSE "UdpAssociate") \in UpMessage
        BY UpMessages DEF Streams
      <4> QED BY <3>1, <3>2, <4>1 DEF Request
    <3>3. CASE LocalData(c)
      <4>1. consumed'[c] \in 1..ChunkMax
        BY <3>3, StreamBoundsAssumption DEF LocalData, StateTyped
      <4>2. Chunk(c, consumed'[c]) \in UpMessage
        BY <4>1, UpMessages
      <4> QED BY <3>1, <3>3, <4>2 DEF LocalData
    <3>4. CASE LocalEnd(c)
      <4>1. Farewell(c) \in Seq(UpMessage)
        BY UpMessages DEF Farewell
      <4> QED BY <3>1, <3>4, <4>1 DEF LocalEnd
    <3> QED BY <1>3, <3>2, <3>3, <3>4
  <2>2. UNCHANGED <<rx, to_proxy, linkVars, stream_rx, connect_rx, delivered, uploaded>>
    BY <1>3 DEF Request, LocalData, LocalEnd, proxyVars, loopVars, countVars
  <2> QED BY <2>1, <2>2 DEF QueuesTyped, linkVars
<1>4. ASSUME NEW c \in Streams, ConnectResult(c) \/ Deliver(c) PROVE QueuesTyped'
  <2>1. rx[c] # <<>> /\ rx' = [rx EXCEPT ![c] = Tail(@)]
    BY <1>4 DEF ConnectResult, Deliver
  <2>2. Head(rx[c]) \in RxMessage(c) /\ Tail(rx[c]) \in Seq(RxMessage(c)) /\ Tail(rx[c]) \in Seq(Message)
    BY <2>1, HeadTail DEF QueuesTyped
  <2>3. rx' \in [Streams -> Seq(Message)] /\ \A d \in Streams : rx'[d] \in Seq(RxMessage(d))
    BY <2>1, <2>2 DEF QueuesTyped
  <2>4. UNCHANGED <<bridgeVars, linkVars, stream_rx, connect_rx, uploaded>>
    BY <1>4 DEF ConnectResult, Deliver, loopVars, countVars
  <2>5. delivered' \in [Streams -> Seq(Nat)]
    <3>1. CASE ConnectResult(c)
      BY <3>1 DEF ConnectResult, countVars, QueuesTyped
    <3>2. CASE Deliver(c)
      <4>1. Head(rx[c]).kind = "Data" => Head(rx[c]).n \in Nat
        BY <2>2, InboxMessages
      <4> QED BY <3>2, <4>1 DEF Deliver, QueuesTyped
    <3> QED BY <1>4, <3>1, <3>2
  <2> QED BY <2>3, <2>4, <2>5 DEF QueuesTyped, bridgeVars, linkVars
<1> QED BY <1>1, <1>2, <1>3, <1>4 DEF Proxy

LEMMA Refusals ==
  ASSUME Typed, BackgroundReconnect
  PROVE  \E E \in Seq(ConnectMessage) :
           to_proxy' = ResetStreams \o E /\ \A i \in DOMAIN E : E[i].kind = "Error"
<1> DEFINE I == {i \in DOMAIN proxy_events : proxy_events[i].kind = "Connect"}
<1>1. PICK order \in SetToSeqs(I) :
        to_proxy' = ResetStreams \o [i \in DOMAIN order |-> Msg(proxy_events[order[i]].stream, "Error")]
  BY DEF BackgroundReconnect
<1> DEFINE E == [i \in DOMAIN order |-> Msg(proxy_events[order[i]].stream, "Error")]
<1>2. order \in [1..Cardinality(I) -> I]
  BY DEF SetToSeqs
<1>3. Cardinality(I) \in Nat
  <2>1. IsFiniteSet(1..Len(proxy_events))
    BY FS_Interval DEF Typed, QueuesTyped
  <2>2. I \subseteq 1..Len(proxy_events)
    BY DEF Typed, QueuesTyped
  <2> QED BY <2>1, <2>2, FS_Subset, FS_CardinalityType
<1>4. \A i \in DOMAIN order : E[i] \in ConnectMessage /\ E[i].kind = "Error"
  <2> SUFFICES ASSUME NEW i \in DOMAIN order
               PROVE  Msg(proxy_events[order[i]].stream, "Error") \in ConnectMessage
    BY DEF Msg
  <2>1. order[i] \in I
    BY <1>2
  <2>2. proxy_events[order[i]] \in UpMessage /\ proxy_events[order[i]].kind = "Connect"
    BY <2>1 DEF Typed, QueuesTyped
  <2> QED BY <2>2, UpMessages, DownMessages
<1>5. E \in Seq(ConnectMessage)
  <2>1. DOMAIN order = 1..Cardinality(I)
    BY <1>2
  <2>2. E \in [1..Cardinality(I) -> ConnectMessage]
    BY <1>4, <2>1
  <2> QED BY <1>3, <2>2, Listed
<1> QED BY <1>1, <1>4, <1>5

LEMMA BridgeQueuesTyped ==
  ASSUME Typed, Bridge
  PROVE  QueuesTyped'
<1> USE DEF Typed
<1>1. CASE BridgeSend
  <2>1. Head(proxy_events) \in UpMessage /\ Tail(proxy_events) \in Seq(UpMessage)
    BY <1>1, HeadTail DEF BridgeSend, QueuesTyped
  <2> QED BY <1>1, <2>1 DEF BridgeSend, QueuesTyped, StateTyped, proxyVars, loopVars, countVars
<1>2. CASE BridgeReceive
  <2>1. Head(down) \in DownMessage /\ Tail(down) \in Seq(DownMessage)
    BY <1>2, HeadTail DEF BridgeReceive, QueuesTyped
  <2>2. Head(down) \in ProxyMessage
    BY <2>1, DownMessages
  <2> QED BY <1>2, <2>1, <2>2 DEF BridgeReceive, QueuesTyped, proxyVars, loopVars, countVars
<1>3. ResetStreams \in Seq(ProxyMessage)
  BY DownMessages DEF ResetStreams, QueuesTyped
<1>4. CASE NetworkChanged \/ Stop \/ Start
  <2>1. /\ to_proxy' = ResetStreams \/ to_proxy' = to_proxy
        /\ down' = <<>> \/ down' = down
    BY <1>4 DEF NetworkChanged, Stop, Start, NewSession
  <2>2. UNCHANGED <<rx, proxy_events, up, stream_rx, connect_rx, delivered, uploaded>>
        /\ to_proxy \in Seq(ProxyMessage) /\ <<>> \in Seq(DownMessage)
    BY <1>4 DEF QueuesTyped, NetworkChanged, Stop, Start, proxyVars, loopVars, countVars
  <2> QED BY <1>3, <2>1, <2>2 DEF QueuesTyped
<1>5. CASE BackgroundReconnect
  <2>1. PICK E \in Seq(ConnectMessage) : to_proxy' = ResetStreams \o E
    BY <1>5, Refusals
  <2>2. E \in Seq(ProxyMessage)
    BY DownMessages
  <2>3. to_proxy' \in Seq(ProxyMessage)
    BY <1>3, <2>1, <2>2
  <2> QED BY <1>5, <2>3 DEF BackgroundReconnect, NewSession, QueuesTyped, proxyVars, countVars
<1>6. ASSUME NEW s \in Sessions, LoseOld(s) PROVE QueuesTyped'
  BY <1>6 DEF LoseOld, QueuesTyped, proxyVars, bridgeVars, loopVars, countVars
<1> QED BY <1>1, <1>2, <1>4, <1>5, <1>6 DEF Bridge

LEMMA RelayQueuesTyped ==
  ASSUME Typed, Relay
  PROVE  QueuesTyped'
<1> USE DEF Typed
<1>1. ASSUME NEW c \in Streams, Routed(c) \/ RouteFailed(c) PROVE QueuesTyped'
  <2>1. c \in Tcp
    BY <1>1 DEF Routed, RouteFailed, StateTyped, Streams
  <2>2. Msg(c, "ConnectOk") \in ConnectMessage /\ Msg(c, "Error") \in ConnectMessage
    BY <2>1, DownMessages
  <2>3. connect_rx' \in Seq(ConnectMessage)
    <3>1. connect_rx \in Seq(ConnectMessage)
      BY DEF QueuesTyped
    <3> QED BY <1>1, <2>2, <3>1, Appended DEF Routed, RouteFailed
  <2>4. UNCHANGED <<rx, proxy_events, to_proxy, up, down, stream_rx, delivered, uploaded>>
    BY <1>1 DEF Routed, RouteFailed, proxyVars, bridgeVars, linkVars, countVars
  <2> QED BY <2>3, <2>4 DEF QueuesTyped
<1>2. ASSUME NEW c \in Streams, ReaderData(c) PROVE QueuesTyped'
  <2>1. produced'[c] \in 1..ChunkMax
    BY <1>2, StreamBoundsAssumption DEF ReaderData, StateTyped
  <2>2. Chunk(c, produced'[c]) \in ReaderMessage
    BY <2>1, DownMessages
  <2> QED BY <1>2, <2>2 DEF ReaderData, QueuesTyped, proxyVars, bridgeVars, linkVars
<1>3. ASSUME NEW c \in Streams, ReaderEof(c) PROVE QueuesTyped'
  BY <1>3, DownMessages DEF ReaderEof, Eof, QueuesTyped, proxyVars, bridgeVars, linkVars, countVars
<1>4. ASSUME NEW c \in Streams, ReaderCancelled(c) PROVE QueuesTyped'
  BY <1>4 DEF ReaderCancelled, QueuesTyped, proxyVars, bridgeVars, linkVars, loopVars, countVars
<1> QED BY <1>1, <1>2, <1>3, <1>4 DEF Relay

LEMMA LoopQueuesTyped ==
  ASSUME Typed, Loop
  PROVE  QueuesTyped'
<1> USE DEF Typed
<1>1. CASE ServerStream
  <2> DEFINE m == Head(stream_rx)
  <2>1. m \in ReaderMessage /\ m \in DownMessage /\ Tail(stream_rx) \in Seq(ReaderMessage)
    BY <1>1, HeadTail, DownMessages DEF ServerStream, QueuesTyped
  <2>2. down' = down \/ down' = Append(down, m)
    BY <1>1, <2>1, DownFields DEF ServerStream, EndPassed, SendDown
  <2>3. down' \in Seq(DownMessage) /\ stream_rx' \in Seq(ReaderMessage)
    <3>1. down \in Seq(DownMessage)
      BY DEF QueuesTyped
    <3> QED BY <1>1, <2>1, <2>2, <3>1, Appended DEF ServerStream
  <2>4. UNCHANGED <<rx, proxy_events, to_proxy, up, connect_rx, delivered, uploaded>>
    BY <1>1 DEF ServerStream, proxyVars, bridgeVars, countVars
  <2> QED BY <2>3, <2>4 DEF QueuesTyped
<1>2. CASE ServerConnect
  <2> DEFINE m == Head(connect_rx)
  <2>1. m \in ConnectMessage /\ m \in DownMessage /\ Tail(connect_rx) \in Seq(ConnectMessage)
    BY <1>2, HeadTail, DownMessages DEF ServerConnect, QueuesTyped
  <2>2. down' = down \/ down' = Append(down, m)
    BY <1>2, <2>1, DownFields DEF ServerConnect, SendDown
  <2>3. down' \in Seq(DownMessage) /\ connect_rx' \in Seq(ConnectMessage)
    <3>1. down \in Seq(DownMessage)
      BY DEF QueuesTyped
    <3> QED BY <1>2, <2>1, <2>2, <3>1, Appended DEF ServerConnect
  <2>4. UNCHANGED <<rx, proxy_events, to_proxy, up, stream_rx, delivered, uploaded>>
    BY <1>2 DEF ServerConnect, proxyVars, bridgeVars, countVars
  <2> QED BY <2>3, <2>4 DEF QueuesTyped
<1>3. ASSUME NEW s \in Sessions, ServerReceive(s) PROVE QueuesTyped'
  <2> DEFINE m == Head(up[s])
  <2>1. m \in UpMessage /\ m.stream \in Streams /\ Tail(up[s]) \in Seq(UpMessage)
    BY <1>3, UpHead DEF ServerReceive
  <2>2. UNCHANGED <<proxyVars, proxy_events, to_proxy, stream_rx, connect_rx, delivered>>
        /\ up' = [up EXCEPT ![s] = Tail(@)]
    BY <1>3 DEF ServerReceive, bridgeVars
  <2>3. down' = down \/ (m.stream \in Udp /\ down' = Append(down, Msg(m.stream, "ConnectOk")))
    BY <1>3, <2>1, UpMessages DEF ServerReceive
  <2>4. down' \in Seq(DownMessage)
    <3>1. down \in Seq(DownMessage)
      BY DEF QueuesTyped
    <3>2. m.stream \in Udp => Msg(m.stream, "ConnectOk") \in DownMessage
      BY DownMessages
    <3> QED BY <2>3, <3>1, <3>2
  <2>5. uploaded' = uploaded \/ uploaded' = [uploaded EXCEPT ![m.stream] = @]
        \/ (m.kind = "Data" /\ uploaded' = [uploaded EXCEPT ![m.stream] = Append(@, m.n)])
    BY <1>3 DEF ServerReceive
  <2>6. uploaded' \in [Streams -> Seq(Nat)]
    <3>1. uploaded \in [Streams -> Seq(Nat)]
      BY DEF QueuesTyped
    <3>2. m.kind = "Data" => Append(uploaded[m.stream], m.n) \in Seq(Nat)
      BY <2>1, <3>1, UpMessages
    <3> QED BY <2>1, <2>5, <3>1, <3>2
  <2> QED BY <2>1, <2>2, <2>4, <2>6 DEF QueuesTyped, proxyVars
<1>4. ASSUME NEW s \in Sessions, DatagramDrop(s) PROVE QueuesTyped'
  BY <1>4 DEF DatagramDrop, QueuesTyped, proxyVars, bridgeVars, linkVars, countVars
<1>5. ASSUME NEW D \in SUBSET Sessions, NEW sendFails \in BOOLEAN, Tick(D, sendFails) PROVE QueuesTyped'
  BY <1>5 DEF Tick, QueuesTyped, proxyVars, bridgeVars, linkVars, countVars
<1> QED BY <1>1, <1>2, <1>3, <1>4, <1>5 DEF Loop

(* Every step keeps the types.                                                *)
LEMMA TypedStep ==
  ASSUME Typed, \A c \in Streams : Unheard(c), [Next]_vars
  PROVE  Typed'
<1>1. CASE UNCHANGED vars
  BY <1>1 DEF Typed, QueuesTyped, StateTyped, vars, proxyVars, bridgeVars, linkVars, loopVars, taskVars, countVars
<1>2. QueuesTyped'
  BY <1>1, ProxyQueuesTyped, BridgeQueuesTyped, RelayQueuesTyped, LoopQueuesTyped DEF Next, Typed
<1> QED BY <1>2, StateTypedStep DEF Typed

LEMMA TypedTypeOK == Typed => TypeOK
<1> SUFFICES ASSUME Typed PROVE TypeOK
  OBVIOUS
<1>1. /\ \A c \in Streams : rx[c] \in Seq(Message)
      /\ \A q \in {proxy_events, to_proxy, down, stream_rx, connect_rx} : q \in Seq(Message)
      /\ \A s \in Sessions : up[s] \in Seq(Message)
  BY MessagesAreMessages DEF Typed, QueuesTyped
<1>2. live \subseteq Sessions /\ session_of \in [Streams -> Sessions \cup {0}]
  BY StreamBoundsAssumption DEF Typed, StateTyped, Sessions
<1> QED BY <1>1, <1>2 DEF Typed, StateTyped, TypeOK

--------------------------------------------------------------------------------
(* What a step does to the places on the way up.                              *)

(* A message of the application is the last.                                  *)
LEMMA UpAppend ==
  ASSUME NEW W, NEW O, NEW n \in Nat, NEW k \in Nat, NEW cur \in Sessions, NEW h \in 0..cur,
         NEW c, NEW R, NEW now, Upward(W, O, n, k, h, cur, c, R, now)
  PROVE  Upward(W \cup {n + 1}, O, n + 1, k, h, cur, c, R, now)
<1> USE DEF Upward
<1>1. UpOrdered(W \cup {n + 1}, O, n + 1, k, h, cur)
  BY SessionsAreInts DEF UpOrdered, Below
<1>2. ASSUME NEW s \in Sessions, Takes(O, h, c, R, s)
      PROVE  /\ \A x \in O[s] : Wanted(k, h, s)..x \subseteq O[s]
             /\ s = now => Wanted(k, h, s)..(n + 1) \subseteq O[s] \cup (W \cup {n + 1})
  <2>1. Wanted(k, h, s) \in Nat
    BY DEF Wanted
  <2> QED BY <1>2, <2>1 DEF UpWhole
<1>3. 0 \in W \cup {n + 1} => 0..(n + 1) \subseteq W \cup {n + 1}
  BY DEF UpWhole
<1> QED BY <1>1, <1>2, <1>3 DEF UpWhole

(* The first waiting message goes out on the session in use.                  *)
LEMMA UpSend ==
  ASSUME NEW W, NEW O, NEW n \in Nat, NEW k \in Nat, NEW cur \in Sessions, NEW h \in 0..cur,
         NEW c, NEW R, Upward(W, O, n, k, h, cur, c, R, cur),
         NEW x, NEW V, W = V \cup {x}, \A y \in V : x < y,
         NEW P, \A s \in Sessions : s # cur => P[s] = O[s], P[cur] = O[cur] \cup {x}
  PROVE  Upward(V, P, n, k, h, cur, c, R, cur)
<1> USE DEF Upward
<1>1. Sessions \subseteq Nat /\ x \in Nat /\ x <= n /\ V \subseteq Nat /\ x \notin V /\ 0 \notin V
      /\ \A s \in Sessions : O[s] \subseteq Nat
  BY SessionsAreInts DEF UpOrdered
<1>2. UpOrdered(V, P, n, k, h, cur)
  <2>1. /\ k <= n /\ V \subseteq 0..n /\ \A s \in Sessions : P[s] \subseteq 0..n
    BY DEF UpOrdered
  <2>2. \A s \in Sessions : Below(P[s], V) /\ (s > cur => P[s] = {})
    BY <1>1 DEF UpOrdered, Below
  <2>3. \A s, t \in Sessions : s < t => Below(P[s], P[t])
    <3> SUFFICES ASSUME NEW s \in Sessions, NEW t \in Sessions, s < t PROVE Below(P[s], P[t])
      OBVIOUS
    <3>1. Below(O[s], O[t]) /\ Below(O[s], W) /\ (s > cur => O[s] = {}) /\ (t > cur => O[t] = {})
      BY DEF UpOrdered
    <3> QED BY <1>1, <3>1 DEF Below
  <2>4. h # 0 => /\ \A y \in V : k < y
                 /\ \A s \in Sessions : \A y \in P[s] : 0 < y
                 /\ \A y \in P[h] : k < y
    <3>1. h # 0 => h \in Sessions
      BY StreamBoundsAssumption DEF Sessions
    <3> QED BY <1>1, <3>1 DEF UpOrdered
  <2> QED BY <2>1, <2>2, <2>3, <2>4 DEF UpOrdered
<1>3. ASSUME NEW s \in Sessions, Takes(P, h, c, R, s)
      PROVE  /\ \A y \in P[s] : Wanted(k, h, s)..y \subseteq P[s]
             /\ s = cur => Wanted(k, h, s)..n \subseteq P[s] \cup V
  <2>0. Wanted(k, h, s) \in Nat
    BY DEF Wanted
  <2>1. CASE s # cur
    BY <1>3, <2>1 DEF UpWhole, Takes
  <2>2. CASE s = cur /\ x = 0
    <3>1. 0..n \subseteq W /\ h = 0
      BY <2>2 DEF UpWhole, UpOrdered
    <3>2. O[cur] = {}
      BY <1>1, <2>2 DEF UpOrdered, Below
    <3>3. P[cur] = {0} /\ Wanted(k, h, cur) = 0
      BY <2>2, <3>1, <3>2, SessionsAreInts DEF Wanted
    <3> QED BY <2>2, <3>1, <3>3
  <2>3. CASE s = cur /\ x # 0
    <3>1. Takes(O, h, c, R, cur)
      BY <1>3, <2>3 DEF Takes
    <3>2. /\ \A y \in O[cur] : Wanted(k, h, cur)..y \subseteq O[cur]
          /\ Wanted(k, h, cur)..n \subseteq O[cur] \cup W
      BY <3>1 DEF UpWhole
    <3>3. Wanted(k, h, cur)..n \subseteq P[cur] \cup V
      BY <3>2
    <3>4. Wanted(k, h, cur)..x \subseteq P[cur]
      BY <1>1, <2>0, <2>3, <3>3
    <3>5. \A y \in P[cur] : Wanted(k, h, cur)..y \subseteq P[cur]
      BY <3>2, <3>4
    <3> QED BY <2>3, <3>3, <3>5
  <2> QED BY <2>1, <2>2, <2>3
<1> QED BY <1>1, <1>2, <1>3 DEF UpWhole

(* A session that is not in use loses what it holds.                          *)
LEMMA UpLose ==
  ASSUME NEW W, NEW O, NEW n \in Nat, NEW k \in Nat, NEW cur \in Sessions, NEW h \in 0..cur,
         NEW c, NEW R, NEW now, Upward(W, O, n, k, h, cur, c, R, now),
         NEW l \in Sessions, l # now, NEW P, \A s \in Sessions : s # l => P[s] = O[s], P[l] = {}
  PROVE  Upward(W, P, n, k, h, cur, c, R, now)
<1> USE DEF Upward
<1>1. UpOrdered(W, P, n, k, h, cur)
  <2>1. h # 0 => h \in Sessions
    BY StreamBoundsAssumption DEF Sessions
  <2>2. \A s \in Sessions : P[s] \subseteq O[s]
    OBVIOUS
  <2> QED BY <2>1, <2>2 DEF UpOrdered, Below
<1>2. ASSUME NEW s \in Sessions, Takes(P, h, c, R, s)
      PROVE  /\ \A y \in P[s] : Wanted(k, h, s)..y \subseteq P[s]
             /\ s = now => Wanted(k, h, s)..n \subseteq P[s] \cup W
  <2>1. CASE s = l
    BY <2>1
  <2>2. CASE s # l
    BY <1>2, <2>2 DEF UpWhole, Takes
  <2> QED BY <2>1, <2>2
<1> QED BY <1>2, <1>1 DEF UpWhole

(* The session in use is given up, for none or for the next.                  *)
LEMMA UpReconnect ==
  ASSUME NEW W, NEW O, NEW n \in Nat, NEW k \in Nat, NEW cur \in Sessions, NEW h \in 0..cur,
         NEW c, NEW R, NEW now, Upward(W, O, n, k, h, cur, c, R, now),
         NEW V, V = W \/ V = {}
  PROVE  /\ Upward(V, O, n, k, h, cur, c, R, 0)
         /\ Upward(V, O, n, k, h, cur + 1, c, R, cur + 1)
<1> USE DEF Upward
<1>1. UpOrdered(V, O, n, k, h, cur) /\ UpOrdered(V, O, n, k, h, cur + 1)
  <2>1. V \subseteq W /\ \A s \in Sessions : s \in Nat /\ (s > cur + 1 => s > cur)
    BY SessionsAreInts
  <2>2. \A s \in Sessions : Below(O[s], V)
    BY <2>1 DEF UpOrdered, Below
  <2> QED BY <2>1, <2>2 DEF UpOrdered
<1>2. UpWhole(V, O, n, k, h, c, R, 0)
  BY SessionsAreInts DEF UpWhole
<1>3. cur + 1 \in Sessions => ~Takes(O, h, c, R, cur + 1)
  BY SessionsAreInts DEF UpOrdered, Takes
<1>4. UpWhole(V, O, n, k, h, c, R, cur + 1)
  BY <1>3 DEF UpWhole
<1> QED BY <1>1, <1>2, <1>4

(* A stream loses its RemoteState, or gets it before it sent anything.        *)
LEMMA UpRemotes ==
  ASSUME NEW W, NEW O, NEW n \in Nat, NEW k \in Nat, NEW cur \in Sessions, NEW h \in 0..cur,
         NEW c, NEW R, NEW now, Upward(W, O, n, k, h, cur, c, R, now),
         NEW Q, c \in Q => c \in R \/ (n = 0 /\ h # 0)
  PROVE  Upward(W, O, n, k, h, cur, c, Q, now)
<1> USE DEF Upward
<1>1. CASE c \in Q => c \in R
  BY <1>1 DEF UpWhole, Takes
<1>2. CASE n = 0 /\ h # 0
  <2>1. W = {} /\ \A s \in Sessions : O[s] = {}
    BY <1>2 DEF UpOrdered
  <2>2. \A s \in Sessions : Takes(O, h, c, Q, s) => Wanted(k, h, s)..n = {}
    BY <1>2, <2>1 DEF Takes, Wanted
  <2> QED BY <2>1, <2>2 DEF UpWhole
<1> QED BY <1>1, <1>2

(* The server takes what opens c off session s.                               *)
LEMMA UpOpen ==
  ASSUME NEW W, NEW O, NEW n \in Nat, NEW cur \in Sessions,
         NEW c, NEW R, NEW now, Upward(W, O, n, 0, 0, cur, c, R, now),
         NEW s \in Sessions, NEW P, \A t \in Sessions : t # s => P[t] = O[t],
         O[s] = P[s] \cup {0}, \A y \in P[s] : 0 < y, NEW Q
  PROVE  Upward(W, P, n, 0, s, cur, c, Q, now)
<1> USE DEF Upward
<1>1. /\ \A t \in Sessions : \A y \in P[t] : 0 < y
      /\ \A y \in W : 0 < y
  BY SessionsAreInts DEF UpOrdered, Below
<1>2. \A t \in Sessions : P[t] \subseteq O[t]
  OBVIOUS
<1>3. UpOrdered(W, P, n, 0, s, cur)
  BY <1>1, <1>2 DEF UpOrdered, Below
<1>4. ASSUME NEW t \in Sessions, Takes(P, s, c, Q, t)
      PROVE  /\ \A y \in P[t] : Wanted(0, s, t)..y \subseteq P[t]
             /\ t = now => Wanted(0, s, t)..n \subseteq P[t] \cup W
  <2>1. t = s /\ Wanted(0, s, t) = 1
    BY <1>1, <1>4 DEF Takes, Wanted
  <2>2. /\ \A y \in O[s] : 0..y \subseteq O[s]
        /\ s = now => 0..n \subseteq O[s] \cup W
    BY SessionsAreInts DEF UpWhole, Takes, Wanted
  <2>3. \A y \in P[s] : y \in Nat /\ y \in O[s]
    BY DEF UpOrdered
  <2> QED BY <2>1, <2>2, <2>3
<1> QED BY <1>1, <1>3, <1>4 DEF UpWhole

(* It takes something off a session it takes nothing of c from.               *)
LEMMA UpIgnore ==
  ASSUME NEW W, NEW O, NEW n \in Nat, NEW k \in Nat, NEW cur \in Sessions, NEW h \in 0..cur,
         NEW c, NEW R, NEW now, Upward(W, O, n, k, h, cur, c, R, now),
         NEW s \in Sessions, ~(h = s /\ c \in R),
         NEW P, \A t \in Sessions : t # s => P[t] = O[t],
         P[s] \subseteq O[s], \A y \in P[s] : 0 < y
  PROVE  Upward(W, P, n, k, h, cur, c, R, now)
<1> USE DEF Upward
<1>1. \A t \in Sessions : P[t] \subseteq O[t]
  OBVIOUS
<1>2. UpOrdered(W, P, n, k, h, cur)
  <2>1. h # 0 => h \in Sessions
    BY StreamBoundsAssumption DEF Sessions
  <2> QED BY <1>1, <2>1 DEF UpOrdered, Below
<1>3. \A t \in Sessions : Takes(P, h, c, R, t) => t # s /\ Takes(O, h, c, R, t)
  BY DEF Takes
<1> QED BY <1>2, <1>3 DEF UpWhole

(* It takes the next chunk of c.                                              *)
LEMMA UpTake ==
  ASSUME NEW W, NEW O, NEW n \in Nat, NEW k \in Nat, NEW cur \in Sessions, NEW h \in 0..cur,
         NEW c, NEW R, NEW now, Upward(W, O, n, k, h, cur, c, R, now),
         h # 0, c \in R, NEW x, NEW P, \A t \in Sessions : t # h => P[t] = O[t],
         O[h] = P[h] \cup {x}, \A y \in P[h] : x < y
  PROVE  x = k + 1 /\ Upward(W, P, n, x, h, cur, c, R, now)
<1> USE DEF Upward
<1>1. h \in Sessions
  BY StreamBoundsAssumption DEF Sessions
<1>2. Takes(O, h, c, R, h) /\ Wanted(k, h, h) = k + 1
  BY DEF Takes, Wanted
<1>3. /\ \A y \in O[h] : (k + 1)..y \subseteq O[h]
      /\ h = now => (k + 1)..n \subseteq O[h] \cup W
  BY <1>1, <1>2 DEF UpWhole
<1>4. x \in Nat /\ x <= n /\ k < x /\ O[h] \subseteq Nat
  BY <1>1 DEF UpOrdered
<1>5. x = k + 1
  <2>1. k + 1 \in O[h]
    BY <1>3, <1>4
  <2> QED BY <1>4, <2>1
<1>6. \A t \in Sessions : P[t] \subseteq O[t]
  OBVIOUS
<1>7. Below(O[h], W)
  BY <1>1 DEF UpOrdered
<1>8. UpOrdered(W, P, n, x, h, cur)
  BY <1>1, <1>4, <1>5, <1>6, <1>7 DEF UpOrdered, Below
<1>9. ASSUME NEW t \in Sessions, Takes(P, h, c, R, t)
      PROVE  /\ \A y \in P[t] : Wanted(x, h, t)..y \subseteq P[t]
             /\ t = now => Wanted(x, h, t)..n \subseteq P[t] \cup W
  <2>1. CASE t = h
    <3>1. Wanted(x, h, t) = x + 1
      BY <2>1 DEF Wanted
    <3> QED BY <1>3, <1>4, <1>5, <2>1, <3>1
  <2>2. CASE t # h
    BY <1>9, <2>2 DEF UpWhole, Takes, Wanted
  <2> QED BY <2>1, <2>2
<1> QED BY <1>5, <1>8, <1>9 DEF UpWhole

--------------------------------------------------------------------------------
(* What a step does to the places on the way down.                            *)

(* The way gets shorter, the reader ends.                                     *)
LEMMA FlowShortens ==
  ASSUME NEW d \in Nat, NEW p \in Nat, NEW R, NEW T, NEW W, NEW X, NEW E, NEW g \in 0..3,
         Flow(d, R, T, W, X, p, E, g), NEW F, E \subseteq F, NEW f \in 0..g
  PROVE  Flow(d, R, T, W, X, p, F, f)
<1>1. g >= 1 \/ f < 1
  OBVIOUS
<1> QED BY DEF Flow

(* Nothing was produced: there is nothing under way.                          *)
LEMMA FlowFresh ==
  ASSUME NEW R, NEW T, NEW W, NEW X, NEW g, Flow(0, R, T, W, X, 0, {}, g), NEW f \in 0..3
  PROVE  Flow(0, R, T, W, X, 0, {}, f)
BY DEF Flow

(* What comes behind the break is lost.                                       *)
LEMMA FlowLoses ==
  ASSUME NEW d \in Nat, NEW p \in Nat, NEW R, NEW T, NEW W, NEW X, NEW E, NEW g \in 0..3,
         Flow(d, R, T, W, X, p, E, g), NEW f \in 0..g,
         NEW Q \in SUBSET R, NEW S \in SUBSET T, NEW V \in SUBSET W, NEW Y \in SUBSET X,
         f >= 1 => Q = R, f >= 2 => S = T /\ (V = W \/ V = {}), f < 3
  PROVE  Flow(d, Q, S, V, Y, p, E, f)
<1>1. /\ d <= p /\ Q \cup S \cup V \cup Y \subseteq ((d + 1)..p) \cup E
      /\ Below(Q, S) /\ Below(Q, V) /\ Below(Q, Y) /\ Below(S, V) /\ Below(S, Y) /\ Below(V, Y)
  BY DEF Flow, Below
<1>2. f >= 1 => \A x \in Q : \A k \in (d + 1)..p : k < x => k \in Q
  BY DEF Flow
<1>3. f >= 2 => \A x \in S : \A k \in (d + 1)..p : k < x => k \in Q \cup S
  BY DEF Flow
<1>4. f >= 2 => \A x \in V : \A k \in (d + 1)..p : k < x => k \in Q \cup S \cup V
  BY DEF Flow
<1> QED BY <1>1, <1>2, <1>3, <1>4 DEF Flow

(* A message moves from one queue to the next.                                *)
LEMMA FlowMoves ==
  ASSUME NEW d \in Nat, NEW p \in Nat, p <= ChunkMax, NEW R, NEW T, NEW W, NEW X, NEW E, E \subseteq {ChunkMax + 1},
         NEW g \in 0..3, NEW x, NEW Q, \A y \in Q : x < y
  PROVE  /\ Flow(d, R, Q \cup {x}, W, X, p, E, g) /\ g >= 2 => Flow(d, R \cup {x}, Q, W, X, p, E, g)
         /\ Flow(d, R, T, Q \cup {x}, X, p, E, g) => Flow(d, R, T \cup {x}, Q, X, p, E, g)
         /\ Flow(d, R, T, W, Q \cup {x}, p, E, g) /\ g >= 3 => Flow(d, R, T, W \cup {x}, Q, p, E, g)
<1>0. \A y \in ((d + 1)..p) \cup E : y \in Nat
  BY StreamBoundsAssumption
<1>1. ASSUME Flow(d, R, Q \cup {x}, W, X, p, E, g), g >= 2 PROVE Flow(d, R \cup {x}, Q, W, X, p, E, g)
  <2>1. x \in Nat /\ Q \subseteq Nat /\ R \subseteq Nat /\ W \subseteq Nat /\ X \subseteq Nat
    BY <1>0, <1>1 DEF Flow
  <2>2. /\ d <= p /\ (R \cup {x}) \cup Q \cup W \cup X \subseteq ((d + 1)..p) \cup E
        /\ Below(R \cup {x}, Q) /\ Below(R \cup {x}, W) /\ Below(R \cup {x}, X)
        /\ Below(Q, W) /\ Below(Q, X) /\ Below(W, X)
    BY <1>1 DEF Flow, Below
  <2>3. g >= 1 => \A y \in R \cup {x} : \A k \in (d + 1)..p : k < y => k \in R \cup {x}
    BY <1>1, <2>1 DEF Flow
  <2>4. g >= 2 => \A y \in Q : \A k \in (d + 1)..p : k < y => k \in (R \cup {x}) \cup Q
    BY <1>1, <2>1 DEF Flow
  <2>5. g >= 2 => \A y \in W : \A k \in (d + 1)..p : k < y => k \in (R \cup {x}) \cup Q \cup W
    BY <1>1, <2>1 DEF Flow
  <2>6. g >= 3 => (d + 1)..p \subseteq (R \cup {x}) \cup Q \cup W \cup X
    BY <1>1 DEF Flow
  <2> QED BY <2>2, <2>3, <2>4, <2>5, <2>6 DEF Flow
<1>2. ASSUME Flow(d, R, T, Q \cup {x}, X, p, E, g) PROVE Flow(d, R, T \cup {x}, Q, X, p, E, g)
  <2>1. x \in Nat /\ Q \subseteq Nat /\ R \subseteq Nat /\ T \subseteq Nat /\ X \subseteq Nat
    BY <1>0, <1>2 DEF Flow
  <2>2. /\ d <= p /\ R \cup (T \cup {x}) \cup Q \cup X \subseteq ((d + 1)..p) \cup E
        /\ Below(R, T \cup {x}) /\ Below(R, Q) /\ Below(R, X)
        /\ Below(T \cup {x}, Q) /\ Below(T \cup {x}, X) /\ Below(Q, X)
    BY <1>2 DEF Flow, Below
  <2>3. g >= 1 => \A y \in R : \A k \in (d + 1)..p : k < y => k \in R
    BY <1>2 DEF Flow
  <2>4. g >= 2 => \A y \in T \cup {x} : \A k \in (d + 1)..p : k < y => k \in R \cup (T \cup {x})
    BY <1>2, <2>1 DEF Flow
  <2>5. g >= 2 => \A y \in Q : \A k \in (d + 1)..p : k < y => k \in R \cup (T \cup {x}) \cup Q
    BY <1>2, <2>1 DEF Flow
  <2>6. g >= 3 => (d + 1)..p \subseteq R \cup (T \cup {x}) \cup Q \cup X
    BY <1>2 DEF Flow
  <2> QED BY <2>2, <2>3, <2>4, <2>5, <2>6 DEF Flow
<1>3. ASSUME Flow(d, R, T, W, Q \cup {x}, p, E, g), g >= 3 PROVE Flow(d, R, T, W \cup {x}, Q, p, E, g)
  <2>1. x \in Nat /\ Q \subseteq Nat /\ R \subseteq Nat /\ T \subseteq Nat /\ W \subseteq Nat
    BY <1>0, <1>3 DEF Flow
  <2>2. /\ d <= p /\ R \cup T \cup (W \cup {x}) \cup Q \subseteq ((d + 1)..p) \cup E
        /\ Below(R, T) /\ Below(R, W \cup {x}) /\ Below(R, Q)
        /\ Below(T, W \cup {x}) /\ Below(T, Q) /\ Below(W \cup {x}, Q)
    BY <1>3 DEF Flow, Below
  <2>3. \A k \in (d + 1)..p : k < x => k \in R \cup T \cup (W \cup {x})
    BY <1>3, <2>1 DEF Flow
  <2>4. \A y \in W \cup {x} : \A k \in (d + 1)..p : k < y => k \in R \cup T \cup (W \cup {x})
    BY <1>3, <2>3 DEF Flow
  <2>5. (d + 1)..p \subseteq R \cup T \cup (W \cup {x}) \cup Q
    BY <1>3 DEF Flow
  <2> QED BY <1>3, <2>2, <2>4, <2>5 DEF Flow
<1> QED BY <1>1, <1>2, <1>3

(* The reader reads a chunk, or the end.                                      *)
LEMMA FlowReads ==
  ASSUME NEW d \in Nat, NEW p \in Nat, p <= ChunkMax, NEW R, NEW T, NEW W, NEW X, NEW g \in 0..3,
         Flow(d, R, T, W, X, p, {}, g)
  PROVE  /\ \A x \in X : x <= p
         /\ Flow(d, R, T, W, X \cup {p + 1}, p + 1, {}, g)
         /\ Flow(d, R, T, W, X \cup {ChunkMax + 1}, p, {ChunkMax + 1}, g)
<1>1. /\ d <= p /\ \A x \in R \cup T \cup W \cup X : x \in (d + 1)..p
      /\ Below(R, T) /\ Below(R, W) /\ Below(R, X) /\ Below(T, W) /\ Below(T, X) /\ Below(W, X)
  BY DEF Flow
<1>2. ASSUME NEW m \in Nat, p < m
      PROVE  Below(R, X \cup {m}) /\ Below(T, X \cup {m}) /\ Below(W, X \cup {m})
  BY <1>1, <1>2 DEF Below
<1>3. Flow(d, R, T, W, X \cup {p + 1}, p + 1, {}, g)
  <2>1. d <= p + 1 /\ R \cup T \cup W \cup (X \cup {p + 1}) \subseteq ((d + 1)..(p + 1)) \cup {}
    BY <1>1
  <2>2. \A x \in R \cup T \cup W : \A k \in (d + 1)..(p + 1) : k < x => k \in (d + 1)..p
    BY <1>1
  <2>3. g >= 3 => (d + 1)..(p + 1) \subseteq R \cup T \cup W \cup (X \cup {p + 1})
    BY DEF Flow
  <2> QED BY <1>1, <1>2, <2>1, <2>2, <2>3 DEF Flow
<1>4. Flow(d, R, T, W, X \cup {ChunkMax + 1}, p, {ChunkMax + 1}, g)
  <2>1. R \cup T \cup W \cup (X \cup {ChunkMax + 1}) \subseteq ((d + 1)..p) \cup {ChunkMax + 1}
    BY <1>1
  <2>2. p < ChunkMax + 1 /\ ChunkMax + 1 \in Nat
    BY StreamBoundsAssumption
  <2> QED BY <1>1, <1>2, <2>1, <2>2 DEF Flow
<1> QED BY <1>1, <1>3, <1>4

(* The application gets the next chunk.                                       *)
LEMMA FlowDelivers ==
  ASSUME NEW d \in Nat, NEW p \in Nat, NEW Q, NEW T, NEW W, NEW X, NEW E, E \subseteq {ChunkMax + 1},
         NEW g \in 1..3, NEW x, x \in 1..ChunkMax, \A y \in Q : x < y,
         NEW R, R = Q \cup {x}, Flow(d, R, T, W, X, p, E, g)
  PROVE  x = d + 1 /\ Flow(x, Q, T, W, X, p, E, g)
<1>1. x \in (d + 1)..p
  BY StreamBoundsAssumption DEF Flow
<1>2. x = d + 1
  BY <1>1 DEF Flow
<1>3. Q \cup T \cup W \cup X \subseteq ((x + 1)..p) \cup E
  <2>1. Below(R, T) /\ Below(R, W) /\ Below(R, X)
    BY DEF Flow
  <2>2. \A y \in Q \cup T \cup W \cup X : x < y
    BY <2>1 DEF Below
  <2>3. \A y \in Q \cup T \cup W \cup X : y \in ((d + 1)..p) \cup E
    BY DEF Flow
  <2> QED BY <1>1, <2>2, <2>3
<1>4. Below(Q, T) /\ Below(Q, W) /\ Below(Q, X) /\ Below(T, W) /\ Below(T, X) /\ Below(W, X)
  BY DEF Flow, Below
<1>5. \A k \in (x + 1)..p : k \in (d + 1)..p /\ k # x
  BY <1>1
<1> QED BY <1>1, <1>2, <1>3, <1>4, <1>5 DEF Flow

(* It gets the end: there is nothing else to come.                            *)
LEMMA FlowEnds ==
  ASSUME NEW d \in Nat, NEW p \in Nat, p <= ChunkMax, NEW Q, NEW T, NEW W, NEW X, NEW E,
         NEW g \in 1..3, \A y \in Q : ChunkMax + 1 < y,
         Flow(d, Q \cup {ChunkMax + 1}, T, W, X, p, E, g)
  PROVE  d = p /\ E # {}
<1>1. ChunkMax + 1 \in E
  BY StreamBoundsAssumption DEF Flow
<1>2. ASSUME d # p PROVE FALSE
  <2>1. d + 1 \in (d + 1)..p /\ d + 1 < ChunkMax + 1
    BY <1>2, StreamBoundsAssumption DEF Flow
  <2>2. d + 1 \in Q \cup {ChunkMax + 1}
    BY <2>1 DEF Flow
  <2> QED BY <2>1, <2>2, StreamBoundsAssumption
<1> QED BY <1>1, <1>2

--------------------------------------------------------------------------------
(* The way up, step by step.                                                  *)

LEMMA UpTypes ==
  ASSUME Typed, NEW c \in Streams
  PROVE  /\ consumed[c] \in Nat /\ Len(uploaded[c]) \in Nat
         /\ current \in Sessions /\ session_of[c] \in 0..current
         /\ proxy_events \in Seq(UpMessage)
         /\ \A s \in Sessions : up[s] \in Seq(UpMessage) /\ Wire(c)[s] = Places(c, UpKinds, up[s])
BY StreamBoundsAssumption DEF Typed, QueuesTyped, StateTyped, Wire

LEMMA UpTypesNext ==
  ASSUME Typed', NEW c \in Streams
  PROVE  /\ consumed'[c] \in Nat /\ Len(uploaded'[c]) \in Nat
         /\ current' \in Sessions /\ session_of'[c] \in 0..current'
         /\ proxy_events' \in Seq(UpMessage)
         /\ \A s \in Sessions : up'[s] \in Seq(UpMessage) /\ Wire(c)'[s] = Places(c, UpKinds, up'[s])
BY StreamBoundsAssumption DEF Typed, QueuesTyped, StateTyped, Wire

(* What the application does not touch.                                       *)
LEMMA UplinkStands ==
  ASSUME NEW c \in Streams, Uplink(c), UNCHANGED <<proxy_events, up, current, running, session_of, consumed, uploaded>>,
         c \in remotes' <=> c \in remotes, phase'[c] \in {"idle", "accepted"} => phase[c] \in {"idle", "accepted"}
  PROVE  Uplink(c)'
<1>1. Waiting(c)' = Waiting(c) /\ Wire(c)' = Wire(c) /\ Now' = Now
  BY DEF Waiting, Wire, Now
<1>2. RisingUp(c)' /\ Unasked(c)' /\ Numbered(uploaded[c])'
  BY <1>1 DEF Uplink, RisingUp, Unasked
<1>3. Carried(c)'
  BY <1>1 DEF Uplink, Carried, Upward, UpWhole, Takes
<1> QED BY <1>2, <1>3 DEF Uplink

LEMMA UpAsk ==
  ASSUME NEW O, \A s \in Sessions : O[s] = {}, NEW cur, NEW c, NEW R, NEW now
  PROVE  Upward({0}, O, 0, 0, 0, cur, c, R, now)
<1>1. \A s \in Sessions : ~Takes(O, 0, c, R, s)
  BY SessionsAreInts DEF Takes
<1> QED BY <1>1 DEF Upward, UpOrdered, UpWhole, Below

(* The application's own messages.                                            *)
LEMMA UplinkSpoken ==
  ASSUME NEW c \in Streams, Typed, Typed', Uplink(c), Unheard(c),
         NEW d \in Streams, Request(d) \/ LocalData(d) \/ LocalEnd(d)
  PROVE  Uplink(c)'
<1>1. UNCHANGED <<up, current, running, session_of, remotes, uploaded>>
  BY DEF Request, LocalData, LocalEnd, linkVars, loopVars, countVars
<1>2. Wire(c)' = Wire(c) /\ Now' = Now
  BY <1>1 DEF Wire, Now
<1>3. phase'[c] \in {"idle", "accepted"} => phase'[c] = phase[c] /\ c # d
  BY SMTT(30) DEF Request, LocalData, LocalEnd, Typed, StateTyped, proxyVars
<1>4. CASE \E m \in UpMessage : proxy_events' = Append(proxy_events, m) /\ m.stream # c /\ UNCHANGED consumed[c]
  <2>1. Waiting(c)' = Waiting(c) /\ (Rising(c, UpKinds, proxy_events) => Rising(c, UpKinds, proxy_events'))
    BY <1>4, UpTypes, LastPlaces DEF Waiting, Counts
  <2> QED BY <1>1, <1>2, <1>3, <1>4, <2>1 DEF Uplink, RisingUp, Carried, Unasked
<1>5. CASE c = d /\ Request(c)
  <2> DEFINE m == Msg(c, IF c \in Tcp THEN "Connect" ELSE "UdpAssociate")
  <2>1. Waiting(c) = {} /\ consumed[c] = 0 /\ session_of[c] = 0 /\ \A s \in Sessions : Wire(c)[s] = {}
    BY <1>5 DEF Request, Uplink, Unasked
  <2>2. m \in UpMessage /\ m.stream = c /\ m.kind # "Close" /\ m.n = 0
    BY UpMessages DEF Streams, Msg
  <2>3. Counts(c, UpKinds, m) /\ Place(m) = 0
    BY <2>2, UpCounts
  <2>4. Waiting(c)' = {0} /\ Rising(c, UpKinds, proxy_events')
    BY <1>5, <2>1, <2>3, UpTypes, LastPlaces DEF Request, Waiting, Uplink, RisingUp
  <2>5. consumed'[c] = 0 /\ Len(uploaded'[c]) = 0 /\ session_of'[c] = 0
    BY <1>1, <1>5, <2>1 DEF Request, countVars, Unheard
  <2>6. Carried(c)'
    BY <1>2, <2>1, <2>4, <2>5, UpAsk, ZenonT(40) DEF Carried
  <2> QED BY <1>1, <1>3, <1>5, <2>4, <2>6 DEF Uplink, RisingUp, Unasked
<1>6. CASE c = d /\ LocalData(c)
  <2> DEFINE n == consumed[c] + 1
             m == Chunk(c, n)
  <2>1. consumed'[c] = n /\ n \in 1..ChunkMax
    BY <1>6, StreamBoundsAssumption DEF LocalData, Typed, StateTyped
  <2>2. m \in UpMessage /\ m.stream = c /\ m.kind # "Close" /\ m.n = n
    BY <2>1, UpMessages DEF Chunk
  <2>3. Counts(c, UpKinds, m) /\ Place(m) = n
    BY <2>2, UpCounts
  <2>4. \A x \in Waiting(c) : x < n
    BY UpTypes DEF Uplink, Carried, Upward, UpOrdered
  <2>5. Waiting(c)' = Waiting(c) \cup {n} /\ Rising(c, UpKinds, proxy_events')
    BY <1>6, <2>1, <2>3, <2>4, UpTypes, LastPlaces DEF LocalData, Waiting, Uplink, RisingUp
  <2>6. Carried(c)'
    BY <1>1, <1>2, <2>1, <2>5, UpTypes, UpAppend DEF Uplink, Carried
  <2> QED BY <1>1, <1>3, <1>6, <2>5, <2>6 DEF Uplink, RisingUp, Unasked
<1>7. CASE LocalEnd(d)
  <2>1. \A i \in DOMAIN Farewell(d) : ~Counts(c, UpKinds, Farewell(d)[i])
    BY DEF Farewell, Counts, UpKinds, Msg
  <2>2. Farewell(d) \in Seq(UpMessage)
    BY UpMessages DEF Farewell
  <2>3. Waiting(c)' = Waiting(c) /\ (Rising(c, UpKinds, proxy_events) => Rising(c, UpKinds, proxy_events'))
    BY <1>7, <2>1, <2>2, UpTypes, QuietPlaces DEF LocalEnd, Waiting
  <2>4. consumed' = consumed
    BY <1>7 DEF LocalEnd, countVars
  <2>5. RisingUp(c)' /\ Unasked(c)'
    BY <1>1, <1>2, <1>3, <2>3, <2>4 DEF Uplink, RisingUp, Unasked
  <2>6. Carried(c)'
    BY <1>1, <1>2, <2>3, <2>4 DEF Uplink, Carried
  <2> QED BY <1>1, <2>5, <2>6 DEF Uplink
<1>8. ASSUME c # d, Request(d) \/ LocalData(d)
      PROVE  \E m \in UpMessage : proxy_events' = Append(proxy_events, m) /\ m.stream # c /\ UNCHANGED consumed[c]
  <2>1. CASE Request(d)
    <3>1. Msg(d, IF d \in Tcp THEN "Connect" ELSE "UdpAssociate") \in UpMessage
      BY UpMessages DEF Streams
    <3> QED BY <1>8, <2>1, <3>1 DEF Request, Msg, countVars
  <2>2. CASE LocalData(d)
    <3>1. consumed'[d] \in 1..ChunkMax
      BY <2>2, StreamBoundsAssumption DEF LocalData, Typed, StateTyped
    <3>2. Chunk(d, consumed'[d]) \in UpMessage
      BY <3>1, UpMessages
    <3> QED BY <1>8, <2>2, <3>2 DEF LocalData, Chunk
  <2> QED BY <1>8, <2>1, <2>2
<1> QED BY <1>4, <1>5, <1>6, <1>7, <1>8

LEMMA UplinkSent ==
  ASSUME NEW c \in Streams, Typed, Typed', Uplink(c), BridgeSend
  PROVE  Uplink(c)'
<1> DEFINE m == Head(proxy_events)
<1>1. /\ UNCHANGED <<phase, current, running, session_of, remotes, consumed, uploaded>>
      /\ Now = current /\ Now' = current /\ proxy_events # <<>> /\ proxy_events' = Tail(proxy_events)
  BY DEF BridgeSend, Now, proxyVars, loopVars, countVars
<1>2. /\ up'[current] = Append(up[current], m)
      /\ \A s \in Sessions : s # current => up'[s] = up[s]
  BY DEF BridgeSend, Typed, QueuesTyped, StateTyped
<1>3. m \in UpMessage
  BY <1>1, UpTypes, HeadTail
<1>4. /\ Rising(c, UpKinds, proxy_events') /\ Rising(c, UpKinds, up[current])
      /\ Counts(c, UpKinds, m) => /\ Waiting(c) = Waiting(c)' \cup {Place(m)}
                                  /\ \A x \in Waiting(c)' : Place(m) < x
      /\ ~Counts(c, UpKinds, m) => Waiting(c)' = Waiting(c)
  <2>1. proxy_events \in Seq(UpMessage) /\ Rising(c, UpKinds, proxy_events) /\ Rising(c, UpKinds, up[current])
    BY UpTypes DEF Uplink, RisingUp
  <2>2. Waiting(c)' = Places(c, UpKinds, Tail(proxy_events)) /\ Waiting(c) = Places(c, UpKinds, proxy_events)
    BY <1>1 DEF Waiting
  <2>3. /\ Rising(c, UpKinds, Tail(proxy_events))
        /\ Counts(c, UpKinds, m) => /\ Places(c, UpKinds, proxy_events) = Places(c, UpKinds, Tail(proxy_events)) \cup {Place(m)}
                                    /\ \A x \in Places(c, UpKinds, Tail(proxy_events)) : Place(m) < x
        /\ ~Counts(c, UpKinds, m) => Places(c, UpKinds, proxy_events) = Places(c, UpKinds, Tail(proxy_events))
    BY <1>1, <2>1, HeadCounts, HeadPasses
  <2> QED BY <1>1, <2>1, <2>2, <2>3
<1>5. /\ Counts(c, UpKinds, m) => Wire(c)'[current] = Wire(c)[current] \cup {Place(m)}
      /\ ~Counts(c, UpKinds, m) => Wire(c)'[current] = Wire(c)[current]
      /\ (Counts(c, UpKinds, m) => \A x \in Wire(c)[current] : x < Place(m)) => Rising(c, UpKinds, up'[current])
  <2>1. up[current] \in Seq(UpMessage) /\ Rising(c, UpKinds, up[current]) /\ current \in Sessions
    BY <1>4, UpTypes
  <2>2. /\ Wire(c)[current] = Places(c, UpKinds, up[current])
        /\ Wire(c)'[current] = Places(c, UpKinds, Append(up[current], m))
    BY <1>2, <2>1, UpTypes, UpTypesNext
  <2> QED BY <1>2, <2>1, <2>2, LastPlaces
<1>6. \A s \in Sessions : s # current => Wire(c)'[s] = Wire(c)[s] /\ Rising(c, UpKinds, up'[s])
  BY <1>2, UpTypes, UpTypesNext DEF Uplink, RisingUp
<1>7. CASE Counts(c, UpKinds, m)
  <2>1. Waiting(c) # {} /\ Below(Wire(c)[current], Waiting(c)) /\ Place(m) \in Waiting(c)
    BY <1>4, <1>7, UpTypes DEF Uplink, Carried, Upward, UpOrdered
  <2>2. RisingUp(c)'
    <3>1. Rising(c, UpKinds, up'[current])
      BY <1>5, <2>1 DEF Below
    <3> QED BY <1>4, <1>6, <3>1 DEF RisingUp
  <2>3. Upward(Waiting(c), Wire(c), consumed[c], Len(uploaded[c]), session_of[c], current, c, remotes, current)
    BY <1>1 DEF Uplink, Carried
  <2>4. Upward(Waiting(c)', Wire(c)', consumed[c], Len(uploaded[c]), session_of[c], current, c, remotes, current)
    <3> DEFINE V == Waiting(c)'
               P == Wire(c)'
    <3>1. /\ Waiting(c) = V \cup {Place(m)} /\ \A y \in V : Place(m) < y
          /\ \A s \in Sessions : s # current => P[s] = Wire(c)[s]
          /\ P[current] = Wire(c)[current] \cup {Place(m)}
      BY <1>4, <1>5, <1>6, <1>7
    <3>2. consumed[c] \in Nat /\ Len(uploaded[c]) \in Nat /\ current \in Sessions /\ session_of[c] \in 0..current
      BY UpTypes
    <3> HIDE DEF V, P
    <3>3. Upward(V, P, consumed[c], Len(uploaded[c]), session_of[c], current, c, remotes, current)
      BY <2>3, <3>1, <3>2, UpSend
    <3> QED BY <3>3 DEF V, P
  <2>5. Carried(c)'
    BY <1>1, <2>4 DEF Carried
  <2>6. Unasked(c)'
    BY <1>1, <2>1 DEF Uplink, Unasked
  <2> QED BY <1>1, <2>2, <2>5, <2>6 DEF Uplink
<1>8. CASE ~Counts(c, UpKinds, m)
  <2>1. RisingUp(c)'
    <3>1. Rising(c, UpKinds, up'[current])
      BY <1>5, <1>8
    <3> QED BY <1>4, <1>6, <3>1 DEF RisingUp
  <2>2. Waiting(c)' = Waiting(c) /\ \A s \in Sessions : Wire(c)'[s] = Wire(c)[s]
    BY <1>4, <1>5, <1>6, <1>8
  <2>3. Wire(c)' = Wire(c)
    BY <2>2 DEF Wire
  <2>4. Carried(c)' /\ Unasked(c)'
    BY <1>1, <2>2, <2>3 DEF Uplink, Carried, Unasked
  <2> QED BY <1>1, <2>1, <2>4 DEF Uplink
<1> QED BY <1>7, <1>8

LEMMA UplinkReconnected ==
  ASSUME NEW c \in Streams, Typed, Typed', Uplink(c), NetworkChanged \/ BackgroundReconnect \/ Start \/ Stop
  PROVE  Uplink(c)'
<1>1. /\ UNCHANGED <<phase, up, session_of, remotes, consumed, uploaded>>
      /\ proxy_events' = proxy_events \/ proxy_events' = <<>>
      /\ (current' = current + 1 /\ Now' = current + 1) \/ (current' = current /\ Now' = 0)
  BY DEF NetworkChanged, BackgroundReconnect, Start, Stop, NewSession, Now, proxyVars, loopVars, countVars
<1>2. Wire(c)' = Wire(c)
  BY <1>1 DEF Wire
<1>3. (Waiting(c)' = Waiting(c) \/ Waiting(c)' = {}) /\ Rising(c, UpKinds, proxy_events')
  BY <1>1, EmptyPlaces DEF Waiting, Uplink, RisingUp
<1>4. Carried(c)'
  <2>1. /\ Upward(Waiting(c), Wire(c), consumed[c], Len(uploaded[c]), session_of[c], current, c, remotes, Now)
        /\ consumed[c] \in Nat /\ Len(uploaded[c]) \in Nat /\ current \in Sessions /\ session_of[c] \in 0..current
    BY UpTypes DEF Uplink, Carried
  <2> DEFINE V == Waiting(c)'
  <2>2. V = Waiting(c) \/ V = {}
    BY <1>3
  <2> HIDE DEF V
  <2>3. /\ Upward(V, Wire(c), consumed[c], Len(uploaded[c]), session_of[c], current, c, remotes, 0)
        /\ Upward(V, Wire(c), consumed[c], Len(uploaded[c]), session_of[c], current + 1, c, remotes, current + 1)
    BY <2>1, <2>2, UpReconnect
  <2> QED BY <1>1, <1>2, <2>3 DEF Carried, V
<1> QED BY <1>1, <1>2, <1>3, <1>4 DEF Uplink, RisingUp, Unasked

LEMMA UplinkLost ==
  ASSUME NEW c \in Streams, Typed, Typed', Uplink(c), NEW l \in Sessions, LoseOld(l)
  PROVE  Uplink(c)'
<1>1. /\ UNCHANGED <<phase, proxy_events, current, running, session_of, remotes, consumed, uploaded>>
      /\ Now' = Now /\ l # Now
  BY SessionsAreInts DEF LoseOld, Now, proxyVars, bridgeVars, loopVars, countVars
<1>2. up'[l] = <<>> /\ \A s \in Sessions : s # l => up'[s] = up[s]
  BY DEF LoseOld, Typed, QueuesTyped
<1>3. Wire(c)'[l] = {} /\ \A s \in Sessions : s # l => Wire(c)'[s] = Wire(c)[s]
  BY <1>2, UpTypes, UpTypesNext, EmptyPlaces
<1>4. RisingUp(c)'
  BY <1>1, <1>2, EmptyPlaces DEF Uplink, RisingUp
<1>5. Waiting(c)' = Waiting(c)
  BY <1>1 DEF Waiting
<1>6. Carried(c)'
  <2> DEFINE P == Wire(c)'
  <2>1. P[l] = {} /\ \A s \in Sessions : s # l => P[s] = Wire(c)[s]
    BY <1>3
  <2>2. Upward(Waiting(c), Wire(c), consumed[c], Len(uploaded[c]), session_of[c], current, c, remotes, Now)
    BY DEF Uplink, Carried
  <2>3. consumed[c] \in Nat /\ Len(uploaded[c]) \in Nat /\ current \in Sessions /\ session_of[c] \in 0..current
    BY UpTypes
  <2> HIDE DEF P
  <2>4. Upward(Waiting(c), P, consumed[c], Len(uploaded[c]), session_of[c], current, c, remotes, Now)
    BY <1>1, <2>1, <2>2, <2>3, UpLose
  <2> QED BY <1>1, <1>5, <2>4 DEF Carried, P
<1>7. Unasked(c)'
  BY <1>1, <1>3, <1>5 DEF Uplink, Unasked
<1> QED BY <1>1, <1>4, <1>6, <1>7 DEF Uplink

(* Tables of the server loop that shrink, and a connect that succeeded.       *)
LEMMA UplinkRemotes ==
  ASSUME NEW c \in Streams, Typed, Typed', Uplink(c),
         UNCHANGED <<phase, proxy_events, up, current, running, session_of, consumed, uploaded>>,
         c \in remotes' => c \in remotes \/ (consumed[c] = 0 /\ session_of[c] # 0)
  PROVE  Uplink(c)'
<1>1. Waiting(c)' = Waiting(c) /\ Wire(c)' = Wire(c) /\ Now' = Now
  BY DEF Waiting, Wire, Now
<1>2. Carried(c)'
  <2>1. Upward(Waiting(c), Wire(c), consumed[c], Len(uploaded[c]), session_of[c], current, c, remotes, Now)
    BY DEF Uplink, Carried
  <2>2. consumed[c] \in Nat /\ Len(uploaded[c]) \in Nat /\ current \in Sessions /\ session_of[c] \in 0..current
    BY UpTypes
  <2>3. Upward(Waiting(c), Wire(c), consumed[c], Len(uploaded[c]), session_of[c], current, c, remotes', Now)
    BY <2>1, <2>2, UpRemotes
  <2> QED BY <1>1, <2>3 DEF Carried
<1> QED BY <1>1, <1>2 DEF Uplink, RisingUp, Unasked

(* What the server takes off a session.                                       *)
LEMMA UplinkReceived ==
  ASSUME NEW c \in Streams, Typed, Typed', Uplink(c), Unheard(c), NEW s \in Sessions, ServerReceive(s)
  PROVE  Uplink(c)'
<1> DEFINE m == Head(up[s])
<1>1. /\ UNCHANGED <<phase, proxy_events, current, running, consumed>> /\ Now' = Now
      /\ up[s] # <<>> /\ up'[s] = Tail(up[s]) /\ \A t \in Sessions : t # s => up'[t] = up[t]
  BY DEF ServerReceive, Now, proxyVars, bridgeVars, Typed, QueuesTyped
<1>2. m \in UpMessage /\ m.stream \in Streams
  BY <1>1, UpHead
<1>3. /\ Rising(c, UpKinds, up'[s])
      /\ Counts(c, UpKinds, m) => /\ Wire(c)[s] = Wire(c)'[s] \cup {Place(m)}
                                  /\ \A x \in Wire(c)'[s] : Place(m) < x
      /\ ~Counts(c, UpKinds, m) => Wire(c)'[s] = Wire(c)[s]
  <2>1. up[s] \in Seq(UpMessage) /\ Rising(c, UpKinds, up[s])
    BY UpTypes DEF Uplink, RisingUp
  <2>2. Wire(c)[s] = Places(c, UpKinds, up[s]) /\ Wire(c)'[s] = Places(c, UpKinds, Tail(up[s]))
    BY <1>1, UpTypes, UpTypesNext
  <2>3. up[s] # <<>>
    BY <1>1
  <2>4. CASE Counts(c, UpKinds, m)
    <3>1. /\ Rising(c, UpKinds, Tail(up[s]))
          /\ Places(c, UpKinds, up[s]) = Places(c, UpKinds, Tail(up[s])) \cup {Place(m)}
          /\ \A x \in Places(c, UpKinds, Tail(up[s])) : Place(m) < x
      BY <2>1, <2>3, <2>4, HeadCounts
    <3> QED BY <1>1, <2>2, <2>4, <3>1
  <2>5. CASE ~Counts(c, UpKinds, m)
    <3>1. /\ Rising(c, UpKinds, Tail(up[s]))
          /\ Places(c, UpKinds, up[s]) = Places(c, UpKinds, Tail(up[s]))
      BY <2>1, <2>3, <2>5, HeadPasses
    <3> QED BY <1>1, <2>2, <2>5, <3>1
  <2> QED BY <2>4, <2>5
<1>4. \A t \in Sessions : t # s => Wire(c)'[t] = Wire(c)[t]
  BY <1>1, UpTypes, UpTypesNext
<1>5. RisingUp(c)' /\ Waiting(c)' = Waiting(c)
  BY <1>1, <1>3 DEF Uplink, RisingUp, Waiting
<1>6. CASE ~Counts(c, UpKinds, m)
  <2>1. /\ session_of'[c] = session_of[c] /\ uploaded'[c] = uploaded[c]
        /\ c \in remotes' => c \in remotes
    <3>1. m.stream # c \/ m.kind = "Close"
      BY <1>2, <1>6, UpCounts
    <3>2. /\ session_of' = session_of \/ (m.kind # "Close" /\ session_of' = [session_of EXCEPT ![m.stream] = s])
          /\ \/ uploaded' = uploaded
             \/ m.kind # "Close" /\ \E u : uploaded' = [uploaded EXCEPT ![m.stream] = u]
          /\ remotes' \subseteq remotes \/ (m.kind # "Close" /\ remotes' = remotes \cup {m.stream})
      BY DEF ServerReceive
    <3> QED BY <1>2, <3>1, <3>2, ZenonT(40) DEF Typed, QueuesTyped, StateTyped
  <2>2. Wire(c)' = Wire(c)
    BY <1>3, <1>4, <1>6 DEF Wire
  <2>3. Carried(c)'
    <3>1. Upward(Waiting(c), Wire(c), consumed[c], Len(uploaded[c]), session_of[c], current, c, remotes, Now)
      BY DEF Uplink, Carried
    <3>2. consumed[c] \in Nat /\ Len(uploaded[c]) \in Nat /\ current \in Sessions /\ session_of[c] \in 0..current
      BY UpTypes
    <3>3. Upward(Waiting(c), Wire(c), consumed[c], Len(uploaded[c]), session_of[c], current, c, remotes', Now)
      BY <2>1, <3>1, <3>2, UpRemotes
    <3> QED BY <1>1, <1>5, <2>1, <2>2, <3>3 DEF Carried
  <2> QED BY <1>1, <1>5, <2>1, <2>2, <2>3 DEF Uplink, Unasked
<1>7. CASE Counts(c, UpKinds, m)
  <2>1. m.stream = c /\ Place(m) = m.n /\ m.n \in Nat /\ m.kind # "Close" /\ (m.n = 0 <=> m.kind # "Data")
    BY <1>2, <1>7, UpCounts
  <2>2. Unasked(c)'
    <3>1. Wire(c)[s] # {}
      BY <1>3, <1>7
    <3> QED BY <1>1, <3>1 DEF Uplink, Unasked
  <2>3. /\ Upward(Waiting(c), Wire(c), consumed[c], Len(uploaded[c]), session_of[c], current, c, remotes, Now)
        /\ consumed[c] \in Nat /\ Len(uploaded[c]) \in Nat /\ current \in Sessions /\ session_of[c] \in 0..current
    BY UpTypes DEF Uplink, Carried
  <2> DEFINE P == Wire(c)'
  <2>0. /\ \A t \in Sessions : t # s => P[t] = Wire(c)[t]
        /\ Wire(c)[s] = P[s] \cup {m.n} /\ \A y \in P[s] : m.n < y
    BY <1>3, <1>4, <1>7, <2>1
  <2> HIDE DEF P
  <2>4. CASE m.kind # "Data"
    <3>1. m.n = 0 /\ 0 \in Wire(c)[s] /\ \A y \in P[s] : 0 < y
      BY <2>0, <2>1, <2>4
    <3>2. session_of[c] = 0
      BY <2>3, <3>1, UpTypes DEF Upward, UpOrdered
    <3>3. uploaded[c] = <<>> /\ Len(uploaded[c]) = 0 /\ c \notin remotes
      BY <3>2 DEF Unheard
    <3>4. uploaded'[c] = uploaded[c]
      BY <2>1, <2>4 DEF ServerReceive
    <3>5. CASE session_of'[c] = s
      <4>1. Upward(Waiting(c), P, consumed[c], 0, s, current, c, remotes', Now)
        BY <2>0, <2>3, <3>1, <3>2, <3>3, UpOpen
      <4>2. Carried(c)'
        BY <1>1, <1>5, <3>3, <3>4, <3>5, <4>1 DEF Carried, P
      <4> QED BY <1>5, <2>2, <3>4, <4>2 DEF Uplink
    <3>6. CASE session_of'[c] = session_of[c] /\ remotes' = remotes
      <4>1. Upward(Waiting(c), P, consumed[c], Len(uploaded[c]), session_of[c], current, c, remotes, Now)
        <5>1. P[s] \subseteq Wire(c)[s]
          BY <2>0
        <5>2. ~(session_of[c] = s /\ c \in remotes)
          BY <3>3
        <5> DEFINE O == Wire(c)
                   n == consumed[c]
                   k == Len(uploaded[c])
                   h == session_of[c]
        <5>3. /\ Upward(Waiting(c), O, n, k, h, current, c, remotes, Now)
              /\ n \in Nat /\ k \in Nat /\ current \in Sessions /\ h \in 0..current
              /\ \A t \in Sessions : t # s => P[t] = O[t]
              /\ P[s] \subseteq O[s] /\ \A y \in P[s] : 0 < y
              /\ ~(h = s /\ c \in remotes)
          BY <2>0, <2>3, <3>1, <5>1, <5>2
        <5> HIDE DEF O, n, k, h
        <5>4. Upward(Waiting(c), P, n, k, h, current, c, remotes, Now)
          BY <5>3, UpIgnore
        <5> QED BY <5>4 DEF n, k, h
      <4>2. Carried(c)'
        BY <1>1, <1>5, <3>4, <3>6, <4>1 DEF Carried, P
      <4> QED BY <1>5, <2>2, <3>4, <4>2 DEF Uplink
    <3>7. session_of'[c] = s \/ (session_of'[c] = session_of[c] /\ remotes' = remotes)
      <4>1. \/ session_of' = [session_of EXCEPT ![m.stream] = s]
            \/ session_of' = session_of /\ remotes' = remotes
        BY <2>1, <2>4 DEF ServerReceive
      <4> QED BY <2>1, <4>1 DEF Typed, StateTyped
    <3> QED BY <3>5, <3>6, <3>7
  <2>5. CASE m.kind = "Data"
    <3>1. /\ session_of' = session_of /\ remotes' = remotes /\ m.n # 0
          /\ uploaded'[c] = IF Known(c, s) THEN Append(uploaded[c], m.n) ELSE uploaded[c]
      BY <2>1, <2>5 DEF ServerReceive, Typed, QueuesTyped
    <3>2. CASE Known(c, s)
      <4>1. session_of[c] = s /\ s # 0 /\ c \in remotes
        BY <3>2, SessionsAreInts DEF Known
      <4>2. /\ m.n = Len(uploaded[c]) + 1
            /\ Upward(Waiting(c), P, consumed[c], m.n, s, current, c, remotes, Now)
        <5>1. /\ \A t \in Sessions : t # session_of[c] => P[t] = Wire(c)[t]
              /\ Wire(c)[session_of[c]] = P[session_of[c]] \cup {m.n}
              /\ \A y \in P[session_of[c]] : m.n < y
          BY <2>0, <4>1
        <5>2. /\ m.n = Len(uploaded[c]) + 1
              /\ Upward(Waiting(c), P, consumed[c], m.n, session_of[c], current, c, remotes, Now)
          <6> DEFINE O == Wire(c)
                     n == consumed[c]
                     k == Len(uploaded[c])
                     h == session_of[c]
                     x == m.n
          <6>1. /\ Upward(Waiting(c), O, n, k, h, current, c, remotes, Now)
                /\ n \in Nat /\ k \in Nat /\ current \in Sessions /\ h \in 0..current /\ h # 0 /\ c \in remotes
                /\ \A t \in Sessions : t # h => P[t] = O[t]
                /\ O[h] = P[h] \cup {x} /\ \A y \in P[h] : x < y
            BY <2>3, <4>1, <5>1
          <6> HIDE DEF O, n, k, h, x
          <6>2. x = k + 1 /\ Upward(Waiting(c), P, n, x, h, current, c, remotes, Now)
            BY <6>1, UpTake
          <6> QED BY <6>2 DEF n, k, h, x
        <5> QED BY <4>1, <5>2
      <4>3. uploaded'[c] = Append(uploaded[c], m.n) /\ Len(uploaded'[c]) = m.n /\ Numbered(uploaded'[c])
        <5>1. uploaded[c] \in Seq(Nat) /\ Numbered(uploaded[c])
          BY DEF Uplink, Typed, QueuesTyped
        <5>2. uploaded'[c] = Append(uploaded[c], m.n)
          BY <3>1, <3>2
        <5> QED BY <4>2, <5>1, <5>2 DEF Numbered
      <4>4. Carried(c)'
        BY <1>1, <1>5, <3>1, <4>1, <4>2, <4>3 DEF Carried, P
      <4> QED BY <1>5, <2>2, <4>3, <4>4 DEF Uplink
    <3>3. CASE ~Known(c, s)
      <4>1. P[s] \subseteq Wire(c)[s] /\ \A y \in P[s] : 0 < y
        <5>1. \A y \in Wire(c)[s] : y \in Nat
          BY <2>3 DEF Upward, UpOrdered
        <5> QED BY <2>0, <2>1, <5>1
      <4>2. Upward(Waiting(c), P, consumed[c], Len(uploaded[c]), session_of[c], current, c, remotes, Now)
        BY <2>0, <2>3, <3>3, <4>1, UpIgnore, ZenonT(40) DEF Known
      <4>3. Carried(c)'
        BY <1>1, <1>5, <3>1, <3>3, <4>2 DEF Carried, P
      <4> QED BY <1>5, <2>2, <3>1, <3>3, <4>3 DEF Uplink
    <3> QED BY <3>2, <3>3
  <2> QED BY <2>4, <2>5
<1> QED BY <1>6, <1>7

--------------------------------------------------------------------------------
(* The way down, step by step.                                                *)

LEMMA DownTypes ==
  ASSUME Typed, NEW c \in Streams
  PROVE  /\ Len(delivered[c]) \in Nat /\ produced[c] \in Nat /\ produced[c] <= ChunkMax
         /\ rx[c] \in Seq(RxMessage(c)) /\ to_proxy \in Seq(ProxyMessage)
         /\ down \in Seq(DownMessage) /\ stream_rx \in Seq(ReaderMessage)
         /\ Ending(c) \subseteq {ChunkMax + 1} /\ Reach(c) \in 0..3
BY StreamBoundsAssumption DEF Typed, QueuesTyped, StateTyped, Ending, Reach

(* The messages of a queue that count.                                        *)
LEMMA DownKindsCount ==
  ASSUME NEW c \in Streams
  PROVE  /\ \A m \in ReaderMessage : Counts(c, DownKinds, m) <=> m.stream = c
         /\ \A m \in ConnectMessage : ~Counts(c, DownKinds, m)
         /\ \A d \in Streams \cup {0} : \A k \in {"ConnectOk", "Error", "Reset"} : ~Counts(c, DownKinds, Msg(d, k))
         /\ ~Counts(c, DownKinds, Msg(0, "Close"))
         /\ \A m \in RxMessage(c) : Counts(c, DownKinds, m) <=> m.kind \in {"Data", "Close"}
         /\ \A m : m.stream # c => ~Counts(c, DownKinds, m)
<1>1. \A m \in ReaderMessage : Counts(c, DownKinds, m) <=> m.stream = c
  BY DownFields DEF Counts, DownKinds
<1>2. \A m \in ConnectMessage : ~Counts(c, DownKinds, m)
  BY DownFields DEF Counts, DownKinds
<1>3. \A m \in RxMessage(c) : Counts(c, DownKinds, m) <=> m.kind \in {"Data", "Close"}
  BY InboxMessages DEF Counts, DownKinds
<1>4. ~Counts(c, DownKinds, Msg(0, "Close"))
  BY StreamsAssumption DEF Counts, Msg
<1> QED BY <1>1, <1>2, <1>3, <1>4 DEF Counts, DownKinds, Msg

LEMMA ReachShortens ==
  ASSUME NEW c \in Streams, Ended(c) => Ended(c)', c \in active_streams' => c \in active_streams, Heard(c)' => Heard(c)
  PROVE  Reach(c)' \in 0..Reach(c)
BY DEF Reach

(* Nothing of c moves.                                                        *)
LEMMA DownlinkStands ==
  ASSUME NEW c \in Streams, Typed, Downlink(c),
         UNCHANGED <<to_proxy, down, stream_rx>>, UNCHANGED <<rx[c], delivered[c], produced[c]>>,
         reader[c] = "ended" => reader'[c] = "ended", Reach(c)' \in 0..Reach(c),
         phase'[c] = "finished" => phase[c] = "finished"
  PROVE  Downlink(c)'
<1>1. InRx(c)' = InRx(c) /\ InProxy(c)' = InProxy(c) /\ InDown(c)' = InDown(c) /\ InLoop(c)' = InLoop(c)
  BY DEF InRx, InProxy, InDown, InLoop
<1>2. Ending(c) \subseteq Ending(c)'
  BY DEF Ending
<1>3. Flow(Len(delivered[c]), InRx(c), InProxy(c), InDown(c), InLoop(c), produced[c], Ending(c)', Reach(c)')
  BY <1>2, DownTypes, FlowShortens DEF Downlink, DownFlow
<1> QED BY <1>1, <1>3 DEF Downlink, DownFlow, RisingDown

(* A connection begins: nothing was sent.                                     *)
LEMMA DownlinkFresh ==
  ASSUME NEW c \in Streams, Typed, Downlink(c), session_of[c] = 0, Unheard(c),
         UNCHANGED <<to_proxy, stream_rx>>, UNCHANGED <<rx[c], delivered[c], produced[c]>>,
         Places(c, DownKinds, down') = InDown(c), Rising(c, DownKinds, down'),
         reader'[c] # "ended", Reach(c)' \in 0..3, phase'[c] # "finished"
  PROVE  Downlink(c)'
<1>1. InRx(c)' = InRx(c) /\ InProxy(c)' = InProxy(c) /\ InDown(c)' = InDown(c) /\ InLoop(c)' = InLoop(c)
  BY DEF InRx, InProxy, InDown, InLoop
<1>2. produced[c] = 0 /\ Ending(c) = {} /\ Ending(c)' = {}
  BY DEF Unheard, Ending
<1>3. Len(delivered[c]) = 0
  BY <1>2, DownTypes DEF Downlink, DownFlow, Flow
<1>4. Flow(0, InRx(c), InProxy(c), InDown(c), InLoop(c), 0, {}, Reach(c))
  BY <1>2, <1>3 DEF Downlink, DownFlow
<1>5. Flow(0, InRx(c), InProxy(c), InDown(c), InLoop(c), 0, {}, Reach(c)')
  BY <1>4, FlowFresh
<1> QED BY <1>1, <1>2, <1>3, <1>5 DEF Downlink, DownFlow, RisingDown

(* What is not a chunk or an end may be added to the queues.                  *)
LEMMA DownlinkQuiet ==
  ASSUME NEW c \in Streams, Typed, Downlink(c),
         Places(c, DownKinds, to_proxy') = InProxy(c), Rising(c, DownKinds, to_proxy'),
         Places(c, DownKinds, down') \in {InDown(c), {}}, Rising(c, DownKinds, down'),
         Places(c, DownKinds, stream_rx') = InLoop(c), Rising(c, DownKinds, stream_rx'),
         Places(c, DownKinds, rx'[c]) = InRx(c), Rising(c, DownKinds, rx'[c]),
         UNCHANGED <<delivered[c], produced[c], reader[c]>>, Reach(c)' \in 0..Reach(c),
         Places(c, DownKinds, down') = InDown(c) \/ Reach(c)' < 3,
         phase'[c] = "finished" => phase[c] = "finished"
  PROVE  Downlink(c)'
<1>1. InRx(c)' = InRx(c) /\ InProxy(c)' = InProxy(c) /\ InLoop(c)' = InLoop(c)
      /\ (InDown(c)' = InDown(c) \/ (InDown(c)' = {} /\ Reach(c)' < 3))
  BY DEF InRx, InProxy, InDown, InLoop
<1>2. Ending(c) = Ending(c)'
  BY DEF Ending
<1>3. Flow(Len(delivered[c]), InRx(c), InProxy(c), InDown(c), InLoop(c), produced[c], Ending(c), Reach(c))
  BY DEF Downlink, DownFlow
<1>4. Flow(Len(delivered[c]), InRx(c), InProxy(c), InDown(c), InLoop(c), produced[c], Ending(c), Reach(c)')
  BY <1>3, DownTypes, FlowShortens
<1>5. Reach(c)' < 3 => Flow(Len(delivered[c]), InRx(c), InProxy(c), {}, InLoop(c), produced[c], Ending(c), Reach(c)')
  BY <1>3, DownTypes, FlowLoses
<1>6. RisingDown(c)'
  BY DEF RisingDown
<1> QED BY <1>1, <1>2, <1>4, <1>5, <1>6 DEF Downlink, DownFlow

(* A task of the proxy takes a message out of its inbox.                      *)
LEMMA DownlinkTaken ==
  ASSUME NEW c \in Streams, Typed, Typed', Downlink(c), NEW d \in Streams, ConnectResult(d) \/ Deliver(d)
  PROVE  Downlink(c)'
<1>1. /\ UNCHANGED <<to_proxy, down, stream_rx, produced, reader, active_streams>> /\ Heard(c)' = Heard(c)
      /\ rx[d] # <<>> /\ rx' = [rx EXCEPT ![d] = Tail(@)]
  BY DEF ConnectResult, Deliver, bridgeVars, linkVars, loopVars, taskVars, countVars, Heard
<1>2. Ending(c)' = Ending(c)
  BY <1>1 DEF Ending
<1>3. CASE c # d
  <2>1. UNCHANGED <<rx[c], delivered[c], phase[c]>>
    BY <1>1, <1>3, ZenonT(60) DEF ConnectResult, Deliver, countVars, Typed, QueuesTyped, StateTyped
  <2>2. Reach(c)' \in 0..Reach(c)
    BY <1>1, <2>1, ReachShortens DEF Ended
  <2> QED BY <1>1, <2>1, <2>2, DownlinkStands
<1>4. CASE c = d
  <2> DEFINE m == Head(rx[c])
             Q == Places(c, DownKinds, Tail(rx[c]))
  <2>1. m \in RxMessage(c) /\ rx'[c] = Tail(rx[c]) /\ rx[c] # <<>>
    BY <1>1, <1>4, DownTypes, HeadTail DEF Typed, QueuesTyped
  <2>2. /\ InProxy(c)' = InProxy(c) /\ InDown(c)' = InDown(c) /\ InLoop(c)' = InLoop(c) /\ InRx(c)' = Q
        /\ InRx(c) = Places(c, DownKinds, rx[c]) /\ Rising(c, DownKinds, rx[c])
    BY <1>1, <2>1 DEF InProxy, InDown, InLoop, InRx, Downlink, DownFlow, RisingDown
  <2>3. Rising(c, DownKinds, Tail(rx[c]))
    BY <2>1, <2>2, DownTypes, HeadPlaces
  <2>4. RisingDown(c)'
    BY <1>1, <2>1, <2>3 DEF Downlink, DownFlow, RisingDown
  <2>5. Flow(Len(delivered[c]), InRx(c), InProxy(c), InDown(c), InLoop(c), produced[c], Ending(c), Reach(c))
    BY DEF Downlink, DownFlow
  <2>6. phase[c] \in {"connecting", "open"} /\ Reach(c) \in 1..3
    BY <1>4 DEF ConnectResult, Deliver, Reach, Ended
  <2>7. CASE ~Counts(c, DownKinds, m)
    <3>1. m.kind \notin {"Data", "Close"}
      BY <2>1, <2>7, DownKindsCount
    <3>2. UNCHANGED delivered[c] /\ phase'[c] # "finished"
      BY <1>4, <3>1, ZenonT(60) DEF ConnectResult, Deliver, Answer, countVars, Typed, QueuesTyped, StateTyped
    <3>3. Q = InRx(c)
      BY <2>1, <2>2, <2>7, DownTypes, HeadPasses
    <3>4. Reach(c)' \in 0..Reach(c)
      BY <1>1, <2>6, ReachShortens DEF Ended
    <3>5. Flow(Len(delivered[c]), InRx(c), InProxy(c), InDown(c), InLoop(c), produced[c], Ending(c), Reach(c)')
      BY <2>5, <3>4, DownTypes, FlowShortens
    <3> QED BY <1>1, <1>2, <2>2, <2>4, <3>2, <3>3, <3>5 DEF Downlink, DownFlow
  <2>8. CASE Counts(c, DownKinds, m)
    <3>1. m.kind \in {"Data", "Close"} /\ (m.kind = "Data" => m.n \in 1..ChunkMax)
      BY <2>1, <2>8, DownKindsCount, InboxMessages
    <3>2. InRx(c) = Q \cup {Place(m)} /\ \A y \in Q : Place(m) < y
      <4>1. rx[c] \in Seq(RxMessage(c)) /\ rx[c] # <<>> /\ Rising(c, DownKinds, rx[c])
        BY <2>1, <2>2, DownTypes
      <4>2. /\ Places(c, DownKinds, rx[c]) = Places(c, DownKinds, Tail(rx[c])) \cup {Place(m)}
         /\ \A y \in Places(c, DownKinds, Tail(rx[c])) : Place(m) < y
        BY <2>8, <4>1, HeadCounts, ZenonT(40)
      <4> QED BY <2>1, <2>2, <4>2
    <3>3. CASE ConnectResult(c)
      <4>1. phase'[c] = "ended" /\ UNCHANGED delivered[c]
        BY <3>1, <3>3 DEF ConnectResult, Answer, countVars, Typed, StateTyped
      <4>2. Reach(c)' = 0
        BY <4>1 DEF Reach, Ended
      <4>3. Q \subseteq InRx(c)
        BY <3>2
      <4>4. Flow(Len(delivered[c]), Q, InProxy(c), InDown(c), InLoop(c), produced[c], Ending(c), 0)
        <5> DEFINE dd == Len(delivered[c])
                   R == InRx(c)
                   T == InProxy(c)
                   W == InDown(c)
                   X == InLoop(c)
                   p == produced[c]
                   E == Ending(c)
                   g == Reach(c)
                   x == Place(m)
        <5>1. /\ dd \in Nat /\ p \in Nat /\ p <= ChunkMax /\ E \subseteq {ChunkMax + 1} /\ g \in 1..3
              /\ R = Q \cup {x} /\ Q \subseteq R /\ \A y \in Q : x < y
              /\ Flow(dd, R, T, W, X, p, E, g)
          BY <2>5, <2>6, <3>2, DownTypes
        <5> HIDE DEF dd, R, T, W, X, p, E, g, x, Q, m
        <5>2. Flow(dd, Q, T, W, X, p, E, 0)
          BY <5>1, FlowLoses
        <5> QED BY <5>2 DEF dd, R, T, W, X, p, E, g, x
      <4> QED BY <1>1, <1>2, <2>2, <2>4, <4>1, <4>2, <4>4 DEF Downlink, DownFlow
    <3>4. CASE Deliver(c) /\ m.kind = "Data"
      <4>1. delivered'[c] = Append(delivered[c], m.n) /\ phase'[c] = phase[c]
        <5>1. /\ delivered' = [delivered EXCEPT ![c] = Append(@, m.n)]
              /\ phase' = [phase EXCEPT ![c] = @]
          BY <1>4, <3>4 DEF Deliver
        <5> QED BY <5>1 DEF Typed, QueuesTyped, StateTyped
      <4>2. Reach(c)' = Reach(c) /\ phase'[c] # "finished"
        BY <1>1, <2>6, <4>1 DEF Reach, Ended
      <4>3. Place(m) = m.n
        BY <3>1, <3>4 DEF Place
      <4>4. m.n = Len(delivered[c]) + 1
            /\ Flow(m.n, Q, InProxy(c), InDown(c), InLoop(c), produced[c], Ending(c), Reach(c))
        <5> DEFINE dd == Len(delivered[c])
                   R == InRx(c)
                   T == InProxy(c)
                   W == InDown(c)
                   X == InLoop(c)
                   p == produced[c]
                   E == Ending(c)
                   g == Reach(c)
                   x == Place(m)
        <5>1. /\ dd \in Nat /\ p \in Nat /\ p <= ChunkMax /\ E \subseteq {ChunkMax + 1} /\ g \in 1..3
              /\ R = Q \cup {x} /\ Q \subseteq R /\ \A y \in Q : x < y
              /\ x \in 1..ChunkMax /\ m.n = x
              /\ Flow(dd, R, T, W, X, p, E, g)
          BY <2>5, <2>6, <3>1, <3>2, <3>4, <4>3, DownTypes
        <5> HIDE DEF dd, R, T, W, X, p, E, g, x, Q, m
        <5>2. x = dd + 1 /\ Flow(x, Q, T, W, X, p, E, g)
          <6>1. /\ dd \in Nat /\ p \in Nat /\ E \subseteq {ChunkMax + 1} /\ g \in 1..3 /\ x \in 1..ChunkMax
                /\ \A y \in Q : x < y
                /\ R = Q \cup {x} /\ Flow(dd, R, T, W, X, p, E, g)
            BY <5>1
          <6> QED BY <6>1, FlowDelivers
        <5>3. m.n = x
          BY <5>1
        <5> QED BY <5>2, <5>3 DEF dd, R, T, W, X, p, E, g, x
      <4>5. delivered[c] \in Seq(Nat) /\ Numbered(delivered[c])
        BY DEF Downlink, Typed, QueuesTyped
      <4>6. Len(delivered'[c]) = m.n /\ Numbered(delivered'[c])
        BY <4>1, <4>4, <4>5 DEF Numbered
      <4> QED BY <1>1, <1>2, <2>2, <2>4, <4>2, <4>4, <4>6 DEF Downlink, DownFlow
    <3>5. CASE Deliver(c) /\ m.kind = "Close"
      <4>1. delivered'[c] = delivered[c] /\ phase'[c] = "finished"
        <5>1. /\ delivered' = [delivered EXCEPT ![c] = @]
              /\ phase' = [phase EXCEPT ![c] = "finished"]
          BY <1>4, <3>5 DEF Deliver
        <5> QED BY <5>1 DEF Typed, QueuesTyped, StateTyped
      <4>2. Reach(c)' = 0
        BY <4>1 DEF Reach, Ended
      <4>3. Place(m) = ChunkMax + 1
        BY <3>5 DEF Place
      <4>4. Len(delivered[c]) = produced[c] /\ Ending(c) # {}
        <5> DEFINE dd == Len(delivered[c])
                   R == InRx(c)
                   T == InProxy(c)
                   W == InDown(c)
                   X == InLoop(c)
                   p == produced[c]
                   E == Ending(c)
                   g == Reach(c)
                   x == Place(m)
        <5>1. /\ dd \in Nat /\ p \in Nat /\ p <= ChunkMax /\ E \subseteq {ChunkMax + 1} /\ g \in 1..3
              /\ R = Q \cup {x} /\ Q \subseteq R /\ \A y \in Q : x < y
              /\ x = ChunkMax + 1
              /\ Flow(dd, R, T, W, X, p, E, g)
          BY <2>5, <2>6, <3>2, <4>3, DownTypes
        <5> HIDE DEF dd, R, T, W, X, p, E, g, x, Q, m
        <5>2. dd = p /\ E # {}
          BY <5>1, FlowEnds
        <5> QED BY <5>2 DEF dd, R, T, W, X, p, E, g, x
      <4>5. reader[c] = "ended"
        BY <4>4 DEF Ending
      <4>6. Q \subseteq InRx(c)
        BY <3>2
      <4>7. Flow(Len(delivered[c]), Q, InProxy(c), InDown(c), InLoop(c), produced[c], Ending(c), 0)
        <5> DEFINE dd == Len(delivered[c])
                   R == InRx(c)
                   T == InProxy(c)
                   W == InDown(c)
                   X == InLoop(c)
                   p == produced[c]
                   E == Ending(c)
                   g == Reach(c)
                   x == Place(m)
        <5>1. /\ dd \in Nat /\ p \in Nat /\ p <= ChunkMax /\ E \subseteq {ChunkMax + 1} /\ g \in 1..3
              /\ R = Q \cup {x} /\ Q \subseteq R /\ \A y \in Q : x < y
              /\ Flow(dd, R, T, W, X, p, E, g)
          BY <2>5, <2>6, <3>2, DownTypes
        <5> HIDE DEF dd, R, T, W, X, p, E, g, x, Q, m
        <5>2. Flow(dd, Q, T, W, X, p, E, 0)
          BY <5>1, FlowLoses
        <5> QED BY <5>2 DEF dd, R, T, W, X, p, E, g, x
      <4> QED BY <1>1, <1>2, <2>2, <2>4, <4>1, <4>2, <4>4, <4>5, <4>7 DEF Downlink, DownFlow
    <3> QED BY <1>4, <3>1, <3>3, <3>4, <3>5
  <2> QED BY <2>7, <2>8
<1> QED BY <1>3, <1>4

(* The proxy loop hands a message on.                                         *)
LEMMA DownlinkHanded ==
  ASSUME NEW c \in Streams, Typed, Typed', Downlink(c), ProxyLoop
  PROVE  Downlink(c)'
<1> DEFINE m == Head(to_proxy)
           Q == Places(c, DownKinds, Tail(to_proxy))
<1>1. /\ UNCHANGED <<phase, down, stream_rx, produced, delivered, reader>> /\ Heard(c)' = Heard(c)
      /\ to_proxy # <<>> /\ to_proxy' = Tail(to_proxy)
  BY DEF ProxyLoop, linkVars, loopVars, taskVars, countVars, Heard
<1>2. m \in ProxyMessage
  BY <1>1, DownTypes, HeadTail
<1>3. /\ InDown(c)' = InDown(c) /\ InLoop(c)' = InLoop(c) /\ InProxy(c)' = Q /\ InProxy(c) = Places(c, DownKinds, to_proxy)
      /\ Rising(c, DownKinds, to_proxy) /\ Ending(c)' = Ending(c)
      /\ Rising(c, DownKinds, rx[c]) /\ InRx(c) = Places(c, DownKinds, rx[c])
      /\ Rising(c, DownKinds, down') /\ Rising(c, DownKinds, stream_rx')
  BY <1>1 DEF InProxy, InDown, InLoop, InRx, Downlink, DownFlow, RisingDown, Ending
<1>4. Rising(c, DownKinds, Tail(to_proxy))
  BY <1>1, <1>3, DownTypes, HeadPlaces
<1>5. Flow(Len(delivered[c]), InRx(c), InProxy(c), InDown(c), InLoop(c), produced[c], Ending(c), Reach(c))
  BY DEF Downlink, DownFlow
<1>6. CASE ~Counts(c, DownKinds, m)
  <2>1. Q = InProxy(c)
    BY <1>1, <1>3, <1>6, DownTypes, HeadPasses
  <2>2. \/ rx'[c] = rx[c]
        \/ \E r : rx'[c] = Append(rx[c], r) /\ ~Counts(c, DownKinds, r)
    <3>1. CASE m.stream = 0
      <4>1. rx'[c] = rx[c] \/ rx'[c] = Append(rx[c], Msg(c, "Reset"))
        BY <3>1 DEF ProxyLoop
      <4> QED BY <4>1, DownKindsCount
    <3>2. CASE m.stream # 0
      <4>1. rx' = rx \/ rx' = [rx EXCEPT ![m.stream] = Append(@, m)]
        BY <3>2 DEF ProxyLoop
      <4> QED BY <1>6, <4>1 DEF Typed, QueuesTyped
    <3> QED BY <3>1, <3>2
  <2>3. Places(c, DownKinds, rx'[c]) = InRx(c) /\ Rising(c, DownKinds, rx'[c])
    <3>1. rx[c] \in Seq(RxMessage(c))
      BY DownTypes
    <3>2. CASE rx'[c] = rx[c]
      BY <1>3, <3>2
    <3>3. CASE \E r : rx'[c] = Append(rx[c], r) /\ ~Counts(c, DownKinds, r)
      BY <1>3, <3>1, <3>3, LastPasses
    <3> QED BY <2>2, <3>2, <3>3
  <2>4. Reach(c)' \in 0..Reach(c)
    BY <1>1, ReachShortens DEF ProxyLoop, Ended
  <2>5. Places(c, DownKinds, down') = InDown(c) /\ Places(c, DownKinds, stream_rx') = InLoop(c)
    BY <1>1 DEF InDown, InLoop
  <2> QED BY <1>1, <1>3, <1>4, <2>1, <2>3, <2>4, <2>5, DownlinkQuiet
<1>7. CASE Counts(c, DownKinds, m)
  <2>1. m.stream = c /\ c # 0
    BY <1>7, StreamsAssumption DEF Counts
  <2>2. InProxy(c) = Q \cup {Place(m)} /\ \A y \in Q : Place(m) < y
    <3>1. to_proxy \in Seq(ProxyMessage) /\ to_proxy # <<>> /\ Rising(c, DownKinds, to_proxy)
      BY <1>1, <1>3, DownTypes
    <3>2. /\ Places(c, DownKinds, to_proxy) = Places(c, DownKinds, Tail(to_proxy)) \cup {Place(m)}
       /\ \A y \in Places(c, DownKinds, Tail(to_proxy)) : Place(m) < y
      BY <1>7, <3>1, HeadCounts, ZenonT(40)
    <3> QED BY <1>1, <1>3, <3>2
  <2>3. CASE c \in active_streams /\ ~Ended(c)
    <3>1. rx'[c] = Append(rx[c], m) /\ active_streams' = active_streams
      BY <2>1, <2>3 DEF ProxyLoop, Typed, QueuesTyped
    <3>2. \A x \in InRx(c) : x < Place(m)
      BY <1>5, <2>2 DEF Flow, Below
    <3>3. Rising(c, DownKinds, rx'[c]) /\ InRx(c)' = InRx(c) \cup {Place(m)}
      <4>1. Rising(c, DownKinds, Append(rx[c], m))
            /\ Places(c, DownKinds, Append(rx[c], m)) = Places(c, DownKinds, rx[c]) \cup {Place(m)}
        BY <1>3, <1>7, <3>2, DownTypes, LastCounts
      <4> QED BY <3>1, <4>1 DEF InRx
    <3>4. Reach(c)' = Reach(c) /\ Reach(c) >= 2
      BY <1>1, <2>3, <3>1 DEF Reach, Ended
    <3>5. Flow(Len(delivered[c]), InRx(c) \cup {Place(m)}, Q, InDown(c), InLoop(c), produced[c], Ending(c), Reach(c))
      BY <1>5, <2>2, <3>4, DownTypes, FlowMoves
    <3> QED BY <1>1, <1>3, <1>4, <3>3, <3>4, <3>5 DEF Downlink, DownFlow, RisingDown
  <2>4. CASE ~(c \in active_streams /\ ~Ended(c))
    <3>1. rx'[c] = rx[c] /\ c \notin active_streams'
      BY <2>1, <2>4 DEF ProxyLoop
    <3>2. Reach(c)' \in 0..Reach(c) /\ Reach(c)' <= 1
      BY <1>1, <2>4, <3>1 DEF Reach, Ended
    <3>3. Q \subseteq InProxy(c)
      BY <2>2
    <3>4. Flow(Len(delivered[c]), InRx(c), Q, InDown(c), InLoop(c), produced[c], Ending(c), Reach(c)')
      BY <1>5, <3>2, <3>3, DownTypes, FlowLoses, SMTT(30)
    <3>5. InRx(c)' = InRx(c) /\ Rising(c, DownKinds, rx'[c])
      BY <1>3, <3>1 DEF InRx
    <3> QED BY <1>1, <1>3, <1>4, <3>4, <3>5 DEF Downlink, DownFlow, RisingDown
  <2> QED BY <2>3, <2>4
<1> QED BY <1>6, <1>7

(* The bridge passes a message to the proxy.                                  *)
LEMMA DownlinkBridged ==
  ASSUME NEW c \in Streams, Typed, Typed', Downlink(c), BridgeReceive
  PROVE  Downlink(c)'
<1> DEFINE m == Head(down)
           Q == Places(c, DownKinds, Tail(down))
<1>1. /\ UNCHANGED <<phase, rx, active_streams, stream_rx, produced, delivered, reader>> /\ Heard(c)' = Heard(c)
      /\ down # <<>> /\ down' = Tail(down) /\ to_proxy' = Append(to_proxy, m)
  BY DEF BridgeReceive, proxyVars, loopVars, taskVars, countVars, Heard
<1>2. /\ InDown(c)' = Q /\ InDown(c) = Places(c, DownKinds, down) /\ InProxy(c) = Places(c, DownKinds, to_proxy)
      /\ Rising(c, DownKinds, down) /\ Rising(c, DownKinds, to_proxy) /\ Ending(c)' = Ending(c)
      /\ Rising(c, DownKinds, rx'[c]) /\ Rising(c, DownKinds, stream_rx')
      /\ InRx(c)' = InRx(c) /\ InLoop(c)' = InLoop(c)
  BY <1>1 DEF InProxy, InDown, InLoop, InRx, Downlink, DownFlow, RisingDown, Ending
<1>3. Rising(c, DownKinds, Tail(down))
  BY <1>1, <1>2, DownTypes, HeadPlaces
<1>4. Flow(Len(delivered[c]), InRx(c), InProxy(c), InDown(c), InLoop(c), produced[c], Ending(c), Reach(c))
  BY DEF Downlink, DownFlow
<1>5. Reach(c)' = Reach(c)
  BY <1>1 DEF Reach, Ended
<1>6. CASE ~Counts(c, DownKinds, m)
  <2>1. Q = InDown(c)
    BY <1>1, <1>2, <1>6, DownTypes, HeadPasses
  <2>2. Places(c, DownKinds, to_proxy') = InProxy(c) /\ Rising(c, DownKinds, to_proxy')
    BY <1>1, <1>2, <1>6, DownTypes, LastPasses
  <2>3. InProxy(c)' = InProxy(c)
    BY <2>2 DEF InProxy
  <2> QED BY <1>1, <1>2, <1>3, <1>4, <1>5, <2>1, <2>2, <2>3 DEF Downlink, DownFlow, RisingDown
<1>7. CASE Counts(c, DownKinds, m)
  <2>1. InDown(c) = Q \cup {Place(m)} /\ \A y \in Q : Place(m) < y
    <3>1. down \in Seq(DownMessage) /\ down # <<>> /\ Rising(c, DownKinds, down)
      BY <1>1, <1>2, DownTypes
    <3>2. /\ Places(c, DownKinds, down) = Places(c, DownKinds, Tail(down)) \cup {Place(m)}
       /\ \A y \in Places(c, DownKinds, Tail(down)) : Place(m) < y
      BY <1>7, <3>1, HeadCounts, ZenonT(40)
    <3> QED BY <1>1, <1>2, <3>2
  <2>2. \A x \in InProxy(c) : x < Place(m)
    BY <1>4, <2>1 DEF Flow, Below
  <2>3. Rising(c, DownKinds, to_proxy') /\ InProxy(c)' = InProxy(c) \cup {Place(m)}
    <3>1. Rising(c, DownKinds, Append(to_proxy, m))
          /\ Places(c, DownKinds, Append(to_proxy, m)) = Places(c, DownKinds, to_proxy) \cup {Place(m)}
      BY <1>2, <1>7, <2>2, DownTypes, LastCounts
    <3> QED BY <1>1, <1>2, <3>1 DEF InProxy
  <2>4. Flow(Len(delivered[c]), InRx(c), InProxy(c) \cup {Place(m)}, Q, InLoop(c), produced[c], Ending(c), Reach(c))
    BY <1>4, <2>1, DownTypes, FlowMoves
  <2> QED BY <1>1, <1>2, <1>3, <1>5, <2>3, <2>4 DEF Downlink, DownFlow, RisingDown
<1> QED BY <1>6, <1>7

(* A reconnect and a stop lose what is on the wire and send resets.           *)
LEMMA DownlinkReconnected ==
  ASSUME NEW c \in Streams, Typed, Typed', Downlink(c), NetworkChanged \/ BackgroundReconnect \/ Start \/ Stop
  PROVE  Downlink(c)'
<1>1. /\ UNCHANGED <<phase, rx, active_streams, stream_rx, produced, delivered, reader>> /\ down' = <<>>
      /\ ~Heard(c)'
  <2>1. /\ UNCHANGED <<phase, rx, active_streams, stream_rx, produced, delivered, reader, session_of>> /\ down' = <<>>
        /\ current' = current + 1 \/ running' = FALSE
    BY DEF NetworkChanged, BackgroundReconnect, Start, Stop, NewSession, proxyVars, loopVars, taskVars, countVars
  <2>2. session_of[c] \in 0..current /\ current \in Nat
    BY StreamBoundsAssumption DEF Typed, StateTyped, Sessions
  <2> QED BY <2>1, <2>2 DEF Heard
<1>2. Places(c, DownKinds, down') = {} /\ Rising(c, DownKinds, down')
  BY <1>1, EmptyPlaces
<1>3. /\ Rising(c, DownKinds, to_proxy) /\ InProxy(c) = Places(c, DownKinds, to_proxy)
      /\ Rising(c, DownKinds, rx'[c]) /\ Rising(c, DownKinds, stream_rx')
      /\ Places(c, DownKinds, rx'[c]) = InRx(c) /\ Places(c, DownKinds, stream_rx') = InLoop(c)
  BY <1>1 DEF InRx, InProxy, InLoop, Downlink, DownFlow, RisingDown
<1>4. /\ Places(c, DownKinds, ResetStreams) = InProxy(c) /\ Rising(c, DownKinds, ResetStreams)
      /\ ResetStreams \in Seq(ProxyMessage)
  <2>1. to_proxy \in Seq(ProxyMessage) /\ Msg(0, "Close") \in ProxyMessage /\ ~Counts(c, DownKinds, Msg(0, "Close"))
    BY DownTypes, DownMessages, DownKindsCount
  <2> QED BY <1>3, <2>1, LastPasses DEF ResetStreams
<1>5. Places(c, DownKinds, to_proxy') = InProxy(c) /\ Rising(c, DownKinds, to_proxy')
  <2>1. CASE BackgroundReconnect
    <3>1. PICK E \in Seq(ConnectMessage) : to_proxy' = ResetStreams \o E
      BY <2>1, Refusals
    <3>2. \A i \in DOMAIN E : ~Counts(c, DownKinds, E[i])
      BY DownKindsCount
    <3> QED BY <1>4, <3>1, <3>2, QuietPlaces
  <2>2. CASE NetworkChanged \/ Start \/ Stop
    BY <1>3, <1>4, <2>2 DEF NetworkChanged, Start, Stop
  <2> QED BY <2>1, <2>2
<1>6. Reach(c)' \in 0..Reach(c) /\ Reach(c)' < 3
  BY <1>1 DEF Reach, Ended
<1> QED BY <1>1, <1>2, <1>3, <1>5, <1>6, DownlinkQuiet

(* A reader reads.                                                            *)
LEMMA DownlinkRead ==
  ASSUME NEW c \in Streams, Typed, Typed', Downlink(c), NEW d \in Streams, ReaderData(d) \/ ReaderEof(d)
  PROVE  Downlink(c)'
<1>1. UNCHANGED <<phase, rx, active_streams, to_proxy, down, delivered>> /\ Heard(c)' = Heard(c)
  BY DEF ReaderData, ReaderEof, proxyVars, bridgeVars, linkVars, countVars, Heard
<1>2. Reach(c)' = Reach(c)
  BY <1>1 DEF Reach, Ended
<1>3. /\ Rising(c, DownKinds, stream_rx) /\ InLoop(c) = Places(c, DownKinds, stream_rx)
      /\ Rising(c, DownKinds, rx'[c]) /\ Rising(c, DownKinds, to_proxy') /\ Rising(c, DownKinds, down')
      /\ InRx(c)' = InRx(c) /\ InProxy(c)' = InProxy(c) /\ InDown(c)' = InDown(c)
      /\ stream_rx \in Seq(ReaderMessage)
  BY <1>1, DownTypes DEF InRx, InProxy, InDown, InLoop, Downlink, DownFlow, RisingDown
<1>4. Flow(Len(delivered[c]), InRx(c), InProxy(c), InDown(c), InLoop(c), produced[c], Ending(c), Reach(c))
  BY DEF Downlink, DownFlow
<1>5. PICK m : stream_rx' = Append(stream_rx, m) /\ m.stream = d
               /\ \/ ReaderData(d) /\ m = Chunk(d, produced[d] + 1)
                  \/ ReaderEof(d) /\ m = Msg(d, "Close")
  <2>1. CASE ReaderData(d)
    <3>1. produced'[d] = produced[d] + 1
      BY <2>1 DEF ReaderData, Typed, StateTyped
    <3> QED BY <2>1, <3>1 DEF ReaderData, Chunk
  <2>2. CASE ReaderEof(d)
    BY <2>2 DEF ReaderEof, Eof, Msg
  <2> QED BY <2>1, <2>2
<1>6. CASE c # d
  <2>1. produced'[c] = produced[c] /\ reader'[c] = reader[c]
    BY <1>6 DEF ReaderData, ReaderEof, taskVars, countVars, Typed, StateTyped
  <2>2. ~Counts(c, DownKinds, m)
    BY <1>5, <1>6 DEF Counts
  <2>3. Rising(c, DownKinds, stream_rx') /\ Places(c, DownKinds, stream_rx') = InLoop(c)
    BY <1>3, <1>5, <2>2, LastPasses
  <2>4. InLoop(c)' = InLoop(c) /\ Ending(c)' = Ending(c)
    BY <2>1, <2>3 DEF InLoop, Ending
  <2> QED BY <1>1, <1>2, <1>3, <1>4, <2>1, <2>3, <2>4 DEF Downlink, DownFlow, RisingDown
<1>7. CASE c = d
  <2>1. reader[c] = "reading" /\ Ending(c) = {} /\ phase'[c] # "finished"
    BY <1>1, <1>7 DEF ReaderData, ReaderEof, MaySpeak, Ending, Downlink, DownFlow
  <2>2. /\ \A x \in InLoop(c) : x <= produced[c]
        /\ Flow(Len(delivered[c]), InRx(c), InProxy(c), InDown(c), InLoop(c) \cup {produced[c] + 1},
                produced[c] + 1, {}, Reach(c))
        /\ Flow(Len(delivered[c]), InRx(c), InProxy(c), InDown(c), InLoop(c) \cup {ChunkMax + 1},
                produced[c], {ChunkMax + 1}, Reach(c))
    BY <1>4, <2>1, DownTypes, FlowReads
  <2>3. CASE ReaderData(d) /\ m = Chunk(d, produced[d] + 1)
    <3>1. produced'[c] = produced[c] + 1 /\ reader'[c] = "reading"
      BY <1>7, <2>1, <2>3 DEF ReaderData, taskVars, Typed, StateTyped
    <3>2. Counts(c, DownKinds, m) /\ Place(m) = produced[c] + 1
      BY <1>7, <2>3 DEF Counts, DownKinds, Chunk, Place
    <3>3. \A x \in InLoop(c) : x < Place(m)
      <4>1. InLoop(c) \subseteq Nat
        BY <1>4, <2>1, DownTypes DEF Flow
      <4> QED BY <2>2, <3>2, <4>1, DownTypes
    <3>4. Rising(c, DownKinds, stream_rx') /\ Places(c, DownKinds, stream_rx') = InLoop(c) \cup {Place(m)}
      BY <1>3, <1>5, <3>2, <3>3, LastCounts
    <3>5. InLoop(c)' = InLoop(c) \cup {produced[c] + 1} /\ Ending(c)' = {}
      BY <3>1, <3>2, <3>4 DEF InLoop, Ending
    <3> QED BY <1>1, <1>2, <1>3, <2>1, <2>2, <3>1, <3>4, <3>5 DEF Downlink, DownFlow, RisingDown
  <2>4. CASE ReaderEof(d) /\ m = Msg(d, "Close")
    <3>1. produced'[c] = produced[c] /\ reader'[c] = "ended"
      BY <1>7, <2>1, <2>4 DEF ReaderEof, countVars, Typed, StateTyped
    <3>2. Counts(c, DownKinds, m) /\ Place(m) = ChunkMax + 1
      BY <1>7, <2>4 DEF Counts, DownKinds, Msg, Place
    <3>3. \A x \in InLoop(c) : x < Place(m)
      <4>1. InLoop(c) \subseteq Nat
        BY <1>4, <2>1, DownTypes DEF Flow
      <4> QED BY <2>2, <3>2, <4>1, DownTypes, StreamBoundsAssumption
    <3>4. Rising(c, DownKinds, stream_rx') /\ Places(c, DownKinds, stream_rx') = InLoop(c) \cup {Place(m)}
      BY <1>3, <1>5, <3>2, <3>3, LastCounts
    <3>5. InLoop(c)' = InLoop(c) \cup {ChunkMax + 1} /\ Ending(c)' = {ChunkMax + 1}
      BY <3>1, <3>2, <3>4 DEF InLoop, Ending
    <3> QED BY <1>1, <1>2, <1>3, <2>1, <2>2, <3>1, <3>4, <3>5 DEF Downlink, DownFlow, RisingDown
  <2> QED BY <1>5, <2>3, <2>4
<1> QED BY <1>6, <1>7

(* The server loop passes on what was read, if its session is heard.          *)
LEMMA DownlinkStreamed ==
  ASSUME NEW c \in Streams, Typed, Typed', Downlink(c), ServerStream
  PROVE  Downlink(c)'
<1> DEFINE m == Head(stream_rx)
           Q == Places(c, DownKinds, Tail(stream_rx))
<1>1. /\ UNCHANGED <<phase, rx, active_streams, to_proxy, produced, delivered, reader>> /\ Heard(c)' = Heard(c)
      /\ stream_rx # <<>> /\ stream_rx' = Tail(stream_rx)
  BY DEF ServerStream, EndPassed, proxyVars, bridgeVars, taskVars, countVars, Heard
<1>2. /\ InLoop(c)' = Q /\ InLoop(c) = Places(c, DownKinds, stream_rx) /\ InDown(c) = Places(c, DownKinds, down)
      /\ Rising(c, DownKinds, stream_rx) /\ Rising(c, DownKinds, down) /\ Ending(c)' = Ending(c)
      /\ Rising(c, DownKinds, rx'[c]) /\ Rising(c, DownKinds, to_proxy')
      /\ InRx(c)' = InRx(c) /\ InProxy(c)' = InProxy(c) /\ Reach(c)' = Reach(c)
  BY <1>1 DEF InProxy, InDown, InLoop, InRx, Downlink, DownFlow, RisingDown, Ending, Reach, Ended
<1>3. Rising(c, DownKinds, Tail(stream_rx)) /\ m \in ReaderMessage
  BY <1>1, <1>2, DownTypes, HeadPlaces, HeadTail
<1>4. Flow(Len(delivered[c]), InRx(c), InProxy(c), InDown(c), InLoop(c), produced[c], Ending(c), Reach(c))
  BY DEF Downlink, DownFlow
<1>5. /\ down' = down \/ down' = Append(down, m)
      /\ m.stream = c => down' = IF Heard(c) THEN Append(down, m) ELSE down
  BY <1>3, DownFields DEF ServerStream, EndPassed, SendDown, Heard
<1>6. CASE ~Counts(c, DownKinds, m)
  <2>1. Q = InLoop(c)
    BY <1>1, <1>2, <1>6, DownTypes, HeadPasses
  <2>2. Places(c, DownKinds, down') = InDown(c) /\ Rising(c, DownKinds, down')
    <3>1. CASE down' = down
      BY <1>2, <3>1
    <3>2. CASE down' = Append(down, m)
      BY <1>2, <1>6, <3>2, DownTypes, LastPasses
    <3> QED BY <1>5, <3>1, <3>2
  <2>3. InDown(c)' = InDown(c)
    BY <2>2 DEF InDown
  <2> QED BY <1>1, <1>2, <1>3, <1>4, <2>1, <2>2, <2>3 DEF Downlink, DownFlow, RisingDown
<1>7. CASE Counts(c, DownKinds, m)
  <2>1. InLoop(c) = Q \cup {Place(m)} /\ \A y \in Q : Place(m) < y
    <3>1. stream_rx \in Seq(ReaderMessage) /\ stream_rx # <<>> /\ Rising(c, DownKinds, stream_rx)
      BY <1>1, <1>2, DownTypes
    <3>2. /\ Places(c, DownKinds, stream_rx) = Places(c, DownKinds, Tail(stream_rx)) \cup {Place(m)}
          /\ \A y \in Places(c, DownKinds, Tail(stream_rx)) : Place(m) < y
      BY <1>7, <3>1, HeadCounts, ZenonT(40)
    <3> QED BY <1>1, <1>2, <3>2
  <2>2. m.stream = c
    BY <1>7 DEF Counts
  <2>3. CASE Heard(c)
    <3>1. down' = Append(down, m)
      BY <1>5, <2>2, <2>3
    <3>2. \A x \in InDown(c) : x < Place(m)
      BY <1>4, <2>1 DEF Flow, Below
    <3>3. Rising(c, DownKinds, down') /\ InDown(c)' = InDown(c) \cup {Place(m)}
      <4>1. Rising(c, DownKinds, Append(down, m))
            /\ Places(c, DownKinds, Append(down, m)) = Places(c, DownKinds, down) \cup {Place(m)}
        BY <1>2, <1>7, <3>2, DownTypes, LastCounts
      <4> QED BY <1>2, <3>1, <4>1 DEF InDown
    <3>4. Flow(Len(delivered[c]), InRx(c), InProxy(c), InDown(c) \cup {Place(m)}, Q, produced[c], Ending(c), Reach(c))
      <4>1. CASE Reach(c) >= 3
        BY <1>4, <2>1, <4>1, DownTypes, FlowMoves
      <4>2. CASE Reach(c) \in 0..1
        BY <1>4, <2>1, <4>2, DownTypes DEF Flow, Below
      <4>3. Reach(c) # 2
        BY <2>3 DEF Reach
      <4> QED BY <4>1, <4>2, <4>3, DownTypes
    <3> QED BY <1>1, <1>2, <1>3, <3>3, <3>4 DEF Downlink, DownFlow, RisingDown
  <2>4. CASE ~Heard(c)
    <3>1. down' = down /\ Reach(c) < 3
      BY <1>5, <2>2, <2>4 DEF Reach
    <3>2. Q \subseteq InLoop(c)
      BY <2>1
    <3>3. Flow(Len(delivered[c]), InRx(c), InProxy(c), InDown(c), Q, produced[c], Ending(c), Reach(c))
      BY <1>4, <3>1, <3>2, DownTypes, FlowLoses
    <3>4. InDown(c)' = InDown(c) /\ Rising(c, DownKinds, down')
      BY <1>2, <3>1 DEF InDown
    <3> QED BY <1>1, <1>2, <1>3, <3>3, <3>4 DEF Downlink, DownFlow, RisingDown
  <2> QED BY <2>3, <2>4
<1> QED BY <1>6, <1>7

(* The server loop reports a connect.                                         *)
LEMMA DownlinkConnected ==
  ASSUME NEW c \in Streams, Typed, Typed', Downlink(c), ServerConnect
  PROVE  Downlink(c)'
<1> DEFINE m == Head(connect_rx)
<1>1. /\ UNCHANGED <<phase, rx, active_streams, to_proxy, stream_rx, produced, delivered, reader>> /\ Heard(c)' = Heard(c)
      /\ m \in ConnectMessage
  BY HeadTail DEF ServerConnect, proxyVars, bridgeVars, taskVars, countVars, Heard, Typed, QueuesTyped
<1>2. down' = down \/ down' = Append(down, m)
  BY <1>1, DownFields DEF ServerConnect, SendDown
<1>3. /\ Places(c, DownKinds, to_proxy') = InProxy(c) /\ Rising(c, DownKinds, to_proxy')
      /\ Places(c, DownKinds, stream_rx') = InLoop(c) /\ Rising(c, DownKinds, stream_rx')
      /\ Places(c, DownKinds, rx'[c]) = InRx(c) /\ Rising(c, DownKinds, rx'[c])
      /\ Places(c, DownKinds, down) = InDown(c) /\ Rising(c, DownKinds, down)
  BY <1>1 DEF InProxy, InDown, InLoop, InRx, Downlink, DownFlow, RisingDown
<1>4. Places(c, DownKinds, down') = InDown(c) /\ Rising(c, DownKinds, down')
  <2>1. ~Counts(c, DownKinds, m)
    BY <1>1, DownKindsCount
  <2>2. CASE down' = down
    BY <1>3, <2>2
  <2>3. CASE down' = Append(down, m)
    BY <1>3, <2>1, <2>3, DownTypes, LastPasses
  <2> QED BY <1>2, <2>2, <2>3
<1>5. Reach(c)' \in 0..Reach(c)
  BY <1>1, ReachShortens DEF Ended
<1> QED BY <1>1, <1>3, <1>4, <1>5, DownlinkQuiet

(* What a session delivers next.                                              *)
LEMMA WireHead ==
  ASSUME NEW c, NEW s \in Sessions, up[s] \in Seq(UpMessage), up[s] # <<>>, Rising(c, UpKinds, up[s]),
         Counts(c, UpKinds, Head(up[s]))
  PROVE  Places(c, UpKinds, up[s]) = Places(c, UpKinds, Tail(up[s])) \cup {Place(Head(up[s]))}
<1>1. /\ Rising(c, UpKinds, Tail(up[s]))
      /\ Places(c, UpKinds, up[s]) = Places(c, UpKinds, Tail(up[s])) \cup {Place(Head(up[s]))}
  BY HeadCounts, ZenonT(40)
<1> QED BY <1>1

(* What opens a connection arrives once.                                      *)
LEMMA OpensNew ==
  ASSUME NEW c \in Streams, Typed, Uplink(c), NEW s \in Sessions, up[s] # <<>>,
         Head(up[s]).stream = c, Head(up[s]).kind \in {"Connect", "UdpAssociate"}
  PROVE  session_of[c] = 0 /\ Waiting(c) \subseteq 1..consumed[c] /\ phase[c] \notin {"idle", "accepted"}
<1> DEFINE m == Head(up[s])
<1>1. m \in UpMessage
  BY UpHead
<1>2. Counts(c, UpKinds, m) /\ Place(m) = 0
  BY <1>1, UpCounts
<1>3. up[s] \in Seq(UpMessage) /\ Rising(c, UpKinds, up[s]) /\ Wire(c)[s] = Places(c, UpKinds, up[s])
  BY UpTypes DEF Uplink, RisingUp
<1>4. Places(c, UpKinds, up[s]) = Places(c, UpKinds, Tail(up[s])) \cup {Place(m)}
  BY <1>2, <1>3, WireHead
<1>5. 0 \in Wire(c)[s]
  BY <1>2, <1>3, <1>4
<1>6. UpOrdered(Waiting(c), Wire(c), consumed[c], Len(uploaded[c]), session_of[c], current)
  BY DEF Uplink, Carried, Upward
<1>7. session_of[c] = 0
  BY <1>5, <1>6 DEF UpOrdered
<1>8. Waiting(c) \subseteq 1..consumed[c]
  BY <1>5, <1>6, UpTypes DEF UpOrdered, Below
<1>9. phase[c] \notin {"idle", "accepted"}
  BY <1>5 DEF Uplink, Unasked
<1> QED BY <1>7, <1>8, <1>9

(* The server learns of a connection.                                         *)
LEMMA DownlinkReceived ==
  ASSUME NEW c \in Streams, Typed, Typed', Uplink(c), Unheard(c), Downlink(c),
         NEW s \in Sessions, ServerReceive(s)
  PROVE  Downlink(c)'
<1> DEFINE m == Head(up[s])
<1>1. /\ UNCHANGED <<phase, rx, active_streams, to_proxy, stream_rx, produced, delivered, live, current, running>>
      /\ m \in UpMessage /\ m.stream \in Streams /\ up[s] # <<>>
  BY UpHead DEF ServerReceive, proxyVars, bridgeVars, countVars
<1>2. down' = down \/ down' = Append(down, Msg(m.stream, "ConnectOk"))
  BY DEF ServerReceive
<1>3. /\ Places(c, DownKinds, to_proxy') = InProxy(c) /\ Rising(c, DownKinds, to_proxy')
      /\ Places(c, DownKinds, stream_rx') = InLoop(c) /\ Rising(c, DownKinds, stream_rx')
      /\ Places(c, DownKinds, rx'[c]) = InRx(c) /\ Rising(c, DownKinds, rx'[c])
      /\ Places(c, DownKinds, down) = InDown(c) /\ Rising(c, DownKinds, down)
  BY <1>1 DEF InProxy, InDown, InLoop, InRx, Downlink, DownFlow, RisingDown
<1>4. Places(c, DownKinds, down') = InDown(c) /\ Rising(c, DownKinds, down')
  <2>1. ~Counts(c, DownKinds, Msg(m.stream, "ConnectOk"))
    BY DEF Counts, DownKinds, Msg
  <2>2. CASE down' = down
    BY <1>3, <2>2
  <2>3. CASE down' = Append(down, Msg(m.stream, "ConnectOk"))
    BY <1>3, <2>1, <2>3, DownTypes, LastPasses
  <2> QED BY <1>2, <2>2, <2>3
<1>5. CASE m.stream = c /\ m.kind \in {"Connect", "UdpAssociate"}
  <2>1. session_of[c] = 0
    BY <1>1, <1>5, OpensNew
  <2>2. reader'[c] # "ended" /\ phase'[c] # "finished"
    <3>1. reader[c] = "none" /\ phase[c] # "finished"
      BY <2>1 DEF Unheard, Downlink, DownFlow
    <3>2. reader' = reader \/ reader' = [reader EXCEPT ![m.stream] = "reading"]
      BY DEF ServerReceive, taskVars
    <3> QED BY <1>1, <1>5, <3>1, <3>2, SMTT(30) DEF Typed, StateTyped
  <2>3. Reach(c)' \in 0..3
    BY DEF Reach
  <2> QED BY <1>1, <1>4, <2>1, <2>2, <2>3, DownlinkFresh
<1>6. CASE ~(m.stream = c /\ m.kind \in {"Connect", "UdpAssociate"})
  <2>1. session_of'[c] = session_of[c] /\ reader'[c] = reader[c]
    <3>1. \/ UNCHANGED <<session_of, reader>>
          \/ /\ m.kind \in {"Connect", "UdpAssociate"} /\ session_of' = [session_of EXCEPT ![m.stream] = s]
             /\ reader' = reader \/ reader' = [reader EXCEPT ![m.stream] = "reading"]
      BY DEF ServerReceive, taskVars
    <3> QED BY <1>6, <3>1 DEF Typed, StateTyped
  <2>2. Reach(c)' \in 0..Reach(c)
    BY <1>1, <2>1, ReachShortens DEF Ended, Heard
  <2> QED BY <1>1, <1>3, <1>4, <2>1, <2>2, DownlinkQuiet
<1> QED BY <1>5, <1>6

(* Every step keeps what is on its way to the application.                    *)
LEMMA DownlinkStep ==
  ASSUME Inv, Typed', NEW c \in Streams, Next
  PROVE  Downlink(c)'
<1>0. /\ Typed /\ Uplink(c) /\ Unheard(c) /\ OneReport(c) /\ Downlink(c)
      /\ phase[c] = "idle" => session_of[c] = 0
  BY DEF Inv, Opens, Uplink, Unasked
<1>1. ASSUME NEW d \in Streams, Accept(d) PROVE Downlink(c)'
  <2>1. UNCHANGED <<rx, to_proxy, down, stream_rx, produced, delivered, reader>> /\ Heard(c)' = Heard(c)
    BY <1>1 DEF Accept, bridgeVars, linkVars, loopVars, taskVars, countVars, Heard
  <2>2. CASE c # d
    <3>1. phase'[c] = phase[c] /\ (c \in active_streams' <=> c \in active_streams)
      BY <1>1, <2>2 DEF Accept
    <3>2. Reach(c)' \in 0..Reach(c)
      BY <2>1, <3>1, ReachShortens DEF Ended
    <3> QED BY <1>0, <2>1, <3>1, <3>2, DownlinkStands
  <2>3. CASE c = d
    <3>1. session_of[c] = 0 /\ phase'[c] = "accepted"
      BY <1>0, <1>1, <2>3 DEF Accept, Typed, StateTyped
    <3>2. reader'[c] # "ended" /\ Reach(c)' \in 0..3
      BY <1>0, <2>1, <3>1 DEF Unheard, Reach
    <3>3. Places(c, DownKinds, down') = InDown(c) /\ Rising(c, DownKinds, down')
      BY <1>0, <2>1 DEF InDown, Downlink, DownFlow, RisingDown
    <3> QED BY <1>0, <2>1, <3>1, <3>2, <3>3, DownlinkFresh
  <2> QED BY <2>2, <2>3
<1>2. ASSUME NEW d \in Streams, Request(d) \/ GiveUp(d) \/ ConnectTimeout(d) \/ LocalEnd(d) PROVE Downlink(c)'
  <2>1. /\ UNCHANGED <<active_streams, rx, to_proxy, down, stream_rx, produced, delivered, reader>> /\ Heard(c)' = Heard(c)
        /\ phase'[c] = phase[c] \/ phase'[c] \in {"connecting", "open", "ended"}
        /\ phase[c] \in {"ended", "finished", "reset"} => phase'[c] = phase[c]
    BY <1>2 DEF Request, GiveUp, ConnectTimeout, LocalEnd, bridgeVars, linkVars, loopVars, taskVars, countVars, Heard,
                Typed, StateTyped
  <2>2. Reach(c)' \in 0..Reach(c)
    BY <2>1, ReachShortens DEF Ended
  <2> QED BY <1>0, <2>1, <2>2, DownlinkStands
<1>3. ASSUME NEW d \in Streams, LocalData(d) \/ Unlist(d) PROVE Downlink(c)'
  <2>1. /\ UNCHANGED <<phase, rx, to_proxy, down, stream_rx, produced, delivered, reader>> /\ Heard(c)' = Heard(c)
        /\ active_streams' \subseteq active_streams
    BY <1>3 DEF LocalData, Unlist, proxyVars, bridgeVars, linkVars, loopVars, taskVars, countVars, Heard
  <2>2. Reach(c)' \in 0..Reach(c)
    BY <2>1, ReachShortens DEF Ended
  <2> QED BY <1>0, <2>1, <2>2, DownlinkStands
<1>4. CASE Proxy
  BY <1>0, <1>1, <1>2, <1>3, <1>4, DownlinkTaken, DownlinkHanded DEF Proxy
<1>5. CASE BridgeSend \/ \E s \in Sessions : LoseOld(s) \/ DatagramDrop(s)
  <2>1. /\ UNCHANGED <<phase, active_streams, rx, to_proxy, down, stream_rx, produced, delivered, reader>>
        /\ Heard(c)' => Heard(c)
    BY <1>5 DEF BridgeSend, LoseOld, DatagramDrop, proxyVars, bridgeVars, linkVars, loopVars, taskVars, countVars, Heard
  <2>2. Reach(c)' \in 0..Reach(c)
    BY <2>1, ReachShortens DEF Ended
  <2> QED BY <1>0, <2>1, <2>2, DownlinkStands
<1>6. CASE \E D \in SUBSET Sessions, sendFails \in BOOLEAN : Tick(D, sendFails)
  <2>1. /\ UNCHANGED <<phase, active_streams, rx, to_proxy, down, stream_rx, produced, delivered, reader>>
        /\ Heard(c)' => Heard(c)
    BY <1>6 DEF Tick, proxyVars, bridgeVars, linkVars, taskVars, countVars, Heard
  <2>2. Reach(c)' \in 0..Reach(c)
    BY <2>1, ReachShortens DEF Ended
  <2> QED BY <1>0, <2>1, <2>2, DownlinkStands
<1>7. ASSUME NEW d \in Streams, Routed(d) \/ RouteFailed(d) \/ ReaderCancelled(d) PROVE Downlink(c)'
  <2>1. /\ UNCHANGED <<phase, active_streams, rx, to_proxy, down, stream_rx, produced, delivered>> /\ Heard(c)' = Heard(c)
    BY <1>7 DEF Routed, RouteFailed, ReaderCancelled, proxyVars, bridgeVars, linkVars, loopVars, countVars, Heard
  <2>2. reader[c] = "ended" => reader'[c] = "ended"
    BY <1>0, <1>7, ZenonT(40) DEF Routed, RouteFailed, ReaderCancelled, OneReport, Typed, StateTyped
  <2>3. Reach(c)' \in 0..Reach(c)
    BY <2>1, ReachShortens DEF Ended
  <2> QED BY <1>0, <2>1, <2>2, <2>3, DownlinkStands
<1>8. CASE Bridge
  BY <1>0, <1>5, <1>8, DownlinkBridged, DownlinkReconnected DEF Bridge
<1>9. CASE Relay
  BY <1>0, <1>7, <1>9, DownlinkRead DEF Relay
<1>10. CASE Loop
  BY <1>0, <1>5, <1>6, <1>10, DownlinkStreamed, DownlinkConnected, DownlinkReceived DEF Loop
<1> QED BY <1>4, <1>8, <1>9, <1>10 DEF Next

--------------------------------------------------------------------------------
(* How a connection opens, step by step.                                      *)

LEMMA UnheardStep ==
  ASSUME Inv, Typed', NEW c \in Streams, Next
  PROVE  Unheard(c)'
<1>0. Typed /\ Uplink(c) /\ Unheard(c) /\ OneReport(c)
  BY DEF Inv, Opens
<1>1. CASE Proxy
  BY <1>0, <1>1 DEF Proxy, Accept, Request, GiveUp, ConnectResult, ConnectTimeout, LocalData, LocalEnd, Deliver, Unlist,
                    ProxyLoop, loopVars, taskVars, countVars, Unheard
<1>2. CASE Bridge
  BY <1>0, <1>2 DEF Bridge, BridgeSend, BridgeReceive, NetworkChanged, BackgroundReconnect, Stop, Start, LoseOld,
                    loopVars, taskVars, countVars, Unheard
<1>3. CASE Relay
  BY <1>0, <1>3 DEF Relay, Routed, RouteFailed, ReaderData, ReaderEof, ReaderCancelled, MaySpeak,
                    loopVars, taskVars, countVars, Unheard, Typed, StateTyped
<1>4. CASE ServerStream
  BY <1>0, <1>4 DEF ServerStream, EndPassed, taskVars, countVars, Unheard
<1>5. CASE ServerConnect
  <2> DEFINE m == Head(connect_rx)
  <2>1. UNCHANGED <<session_of, task, reader, produced, uploaded>> /\ remotes' \subseteq remotes \cup {m.stream}
        /\ connect_rx # <<>>
    BY <1>5 DEF ServerConnect, taskVars, countVars
  <2>2. m.stream = c => session_of[c] # 0
    <3>1. connect_rx \in Seq(ConnectMessage) /\ 1 \in DOMAIN connect_rx /\ m = connect_rx[1] /\ m \in ConnectMessage
      BY <1>0, <2>1 DEF Typed, QueuesTyped
    <3>2. m.stream = c => Reports(c) # {}
      BY <3>1, DownFields DEF Reports, Places, Spots, Counts
    <3> QED BY <1>0, <3>2 DEF OneReport, Unheard
  <2> QED BY <1>0, <2>1, <2>2 DEF Unheard
<1>6. ASSUME NEW s \in Sessions, ServerReceive(s) PROVE Unheard(c)'
  <2> DEFINE m == Head(up[s])
  <2>1. s # 0 /\ m \in UpMessage /\ m.stream \in Streams
    BY <1>0, <1>6, UpHead, SessionsAreInts DEF ServerReceive
  <2>2. CASE session_of'[c] # 0
    BY <2>2 DEF Unheard
  <2>3. CASE session_of'[c] = 0
    <3>1. session_of[c] = 0
      BY <1>0, <1>6, <2>1, <2>3, SMTT(30) DEF ServerReceive, Typed, StateTyped
    <3>2. m.stream # c \/ (UNCHANGED <<task, reader, remotes>>) \/ (m.kind = "Close")
      BY <1>0, <1>6, <2>1, <2>3, ZenonT(40) DEF ServerReceive, Typed, StateTyped, taskVars
    <3>3. task'[c] = task[c] /\ reader'[c] = reader[c] /\ (c \in remotes' => c \in remotes)
      <4>1. /\ task' = task \/ (m.kind = "Connect" /\ task' = [task EXCEPT ![m.stream] = "routing"])
            /\ reader' = reader \/ (m.kind = "UdpAssociate" /\ reader' = [reader EXCEPT ![m.stream] = "reading"])
            /\ remotes' \subseteq remotes \/ (m.kind = "UdpAssociate" /\ remotes' = remotes \cup {m.stream})
        BY <1>6 DEF ServerReceive, taskVars
      <4> QED BY <1>0, <3>2, <4>1 DEF Typed, StateTyped
    <3>4. uploaded'[c] = uploaded[c]
      <4>1. \/ uploaded' = uploaded
            \/ uploaded' = [uploaded EXCEPT ![m.stream] = IF Known(m.stream, s) THEN Append(@, m.n) ELSE @]
        BY <1>6 DEF ServerReceive
      <4>2. ~Known(c, s)
        BY <2>1, <3>1 DEF Known
      <4> QED BY <1>0, <4>1, <4>2 DEF Typed, QueuesTyped
    <3>5. produced' = produced
      BY <1>6 DEF ServerReceive
    <3> QED BY <1>0, <3>1, <3>3, <3>4, <3>5 DEF Unheard
  <2> QED BY <2>2, <2>3
<1>7. ASSUME NEW s \in Sessions, DatagramDrop(s) PROVE Unheard(c)'
  BY <1>0, <1>7 DEF DatagramDrop, taskVars, countVars, Unheard
<1>8. ASSUME NEW D \in SUBSET Sessions, NEW sendFails \in BOOLEAN, Tick(D, sendFails) PROVE Unheard(c)'
  BY <1>0, <1>8 DEF Tick, taskVars, countVars, Unheard
<1> QED BY <1>1, <1>2, <1>3, <1>4, <1>5, <1>6, <1>7, <1>8 DEF Next, Loop

(* Who is connected at the server was settled before anything is consumed.    *)
LEMMA ConnectedEarly ==
  ASSUME Typed, NEW c \in Streams, Opens(c), connect_rx # <<>>, Head(connect_rx).stream = c
  PROVE  /\ c \in Tcp /\ task[c] = "done" /\ ~Settled(c) /\ consumed[c] = 0 /\ session_of[c] # 0
<1>1. connect_rx \in Seq(ConnectMessage) /\ 1 \in DOMAIN connect_rx /\ Head(connect_rx) = connect_rx[1]
      /\ Head(connect_rx) \in ConnectMessage
  BY DEF Typed, QueuesTyped
<1>2. c \in Tcp
  BY <1>1, DownFields
<1>3. Reports(c) # {}
  BY <1>1, DownFields DEF Reports, Places, Spots, Counts
<1>4. task[c] = "done" /\ ~Settled(c)
  BY <1>3 DEF Opens, OneReport, Settled
<1>5. session_of[c] # 0
  BY <1>4 DEF Opens, Unheard
<1>6. consumed[c] \in Nat /\ ~(consumed[c] > 0)
  BY <1>2, <1>4, UpTypes DEF Opens, OpenSettled
<1> QED BY <1>2, <1>4, <1>5, <1>6

(* Every step keeps what is on its way to the target.                         *)
LEMMA UplinkStep ==
  ASSUME Inv, Typed', NEW c \in Streams, Next
  PROVE  Uplink(c)'
<1>0. Typed /\ Uplink(c) /\ Unheard(c) /\ Opens(c)
  BY DEF Inv, Opens
<1>1. ASSUME NEW d \in Streams,
             Accept(d) \/ GiveUp(d) \/ ConnectResult(d) \/ ConnectTimeout(d) \/ Deliver(d) \/ Unlist(d)
      PROVE  Uplink(c)'
  <2>1. /\ UNCHANGED <<proxy_events, up, current, running, session_of, consumed, uploaded, remotes>>
        /\ phase'[c] \in {"idle", "accepted"} => phase[c] \in {"idle", "accepted"}
    BY <1>0, <1>1, SMTT(30) DEF Accept, GiveUp, ConnectResult, Answer, ConnectTimeout, Deliver, Unlist,
                      bridgeVars, linkVars, loopVars, countVars, Typed, StateTyped
  <2> QED BY <1>0, <2>1, UplinkStands
<1>2. ASSUME NEW d \in Streams, Request(d) \/ LocalData(d) \/ LocalEnd(d) PROVE Uplink(c)'
  BY <1>0, <1>2, UplinkSpoken
<1>3. CASE ProxyLoop \/ BridgeReceive
  <2>1. UNCHANGED <<phase, proxy_events, up, current, running, session_of, consumed, uploaded, remotes>>
    BY <1>3 DEF ProxyLoop, BridgeReceive, proxyVars, linkVars, loopVars, countVars
  <2> QED BY <1>0, <2>1, UplinkStands
<1>4. CASE Proxy
  BY <1>1, <1>2, <1>3, <1>4 DEF Proxy
<1>5. CASE Bridge
  BY <1>0, <1>3, <1>5, UplinkSent, UplinkReconnected, UplinkLost DEF Bridge
<1>6. CASE Relay
  <2>1. UNCHANGED <<phase, proxy_events, up, current, running, session_of, consumed, uploaded, remotes>>
    BY <1>6 DEF Relay, Routed, RouteFailed, ReaderData, ReaderEof, ReaderCancelled,
                proxyVars, bridgeVars, linkVars, loopVars, countVars
  <2> QED BY <1>0, <2>1, UplinkStands
<1>7. CASE ServerStream
  <2>1. UNCHANGED <<phase, proxy_events, up, current, running, session_of, consumed, uploaded>>
        /\ remotes' \subseteq remotes
    BY <1>7 DEF ServerStream, proxyVars, bridgeVars, countVars
  <2> QED BY <1>0, <2>1, UplinkRemotes
<1>8. CASE ServerConnect
  <2>1. UNCHANGED <<phase, proxy_events, up, current, running, session_of, consumed, uploaded>>
        /\ remotes' \subseteq remotes \cup {Head(connect_rx).stream} /\ connect_rx # <<>>
    BY <1>8 DEF ServerConnect, proxyVars, bridgeVars, countVars
  <2>2. c \in remotes' => c \in remotes \/ (consumed[c] = 0 /\ session_of[c] # 0)
    BY <1>0, <2>1, ConnectedEarly
  <2> QED BY <1>0, <2>1, <2>2, UplinkRemotes
<1>9. ASSUME NEW D \in SUBSET Sessions, NEW sendFails \in BOOLEAN, Tick(D, sendFails) PROVE Uplink(c)'
  <2>1. UNCHANGED <<phase, proxy_events, up, current, running, session_of, consumed, uploaded>>
        /\ remotes' \subseteq remotes
    BY <1>9 DEF Tick, proxyVars, bridgeVars, linkVars, countVars
  <2> QED BY <1>0, <2>1, UplinkRemotes
<1>10. ASSUME NEW s \in Sessions, DatagramDrop(s) PROVE Uplink(c)'
  <2>1. UNCHANGED <<phase, proxy_events, up, current, running, session_of, consumed, uploaded, remotes>>
    BY <1>10 DEF DatagramDrop, proxyVars, bridgeVars, linkVars, countVars
  <2> QED BY <1>0, <2>1, UplinkStands
<1>11. CASE Loop
  BY <1>0, <1>7, <1>8, <1>9, <1>10, <1>11, UplinkReceived DEF Loop
<1> QED BY <1>4, <1>5, <1>6, <1>11 DEF Next


LEMMA OneReportStep ==
  ASSUME Inv, Typed', NEW c \in Streams, Next
  PROVE  OneReport(c)'
<1> DEFINE K == {"ConnectOk", "Error"}
<1>0. Typed /\ Uplink(c) /\ Opens(c) /\ OneReport(c) /\ Unheard(c) /\ connect_rx \in Seq(ConnectMessage)
      /\ task \in [Streams -> {"none", "routing", "done"}] /\ reader \in [Streams -> {"none", "reading", "ended"}]
  BY DEF Inv, Opens, Typed, QueuesTyped, StateTyped
<1>1. CASE UNCHANGED <<connect_rx, task, reader>>
  BY <1>0, <1>1 DEF OneReport, Reports
<1>2. CASE Proxy \/ Bridge \/ ServerStream \/ (\E s \in Sessions : DatagramDrop(s))
           \/ (\E D \in SUBSET Sessions, sendFails \in BOOLEAN : Tick(D, sendFails))
  <2>1. UNCHANGED <<connect_rx, task, reader>>
    BY <1>2 DEF Proxy, Accept, Request, GiveUp, ConnectResult, ConnectTimeout, LocalData, LocalEnd, Deliver, Unlist,
                ProxyLoop, Bridge, BridgeSend, BridgeReceive, NetworkChanged, BackgroundReconnect, Stop, Start,
                LoseOld, ServerStream, DatagramDrop, Tick, loopVars, taskVars
  <2> QED BY <1>1, <2>1
<1>3. ASSUME NEW d \in Streams, ReaderData(d) \/ ReaderEof(d) \/ ReaderCancelled(d) PROVE OneReport(c)'
  <2>1. UNCHANGED <<connect_rx, task>> /\ (reader[c] = "none" => reader'[c] = "none")
    BY <1>0, <1>3 DEF ReaderData, ReaderEof, ReaderCancelled, MaySpeak, loopVars, taskVars
  <2> QED BY <1>0, <2>1 DEF OneReport, Reports
<1>4. ASSUME NEW d \in Streams, Routed(d) \/ RouteFailed(d) PROVE OneReport(c)'
  <2> PICK kind \in {"ConnectOk", "Error"} : connect_rx' = Append(connect_rx, Msg(d, kind))
    BY <1>4 DEF Routed, RouteFailed
  <2>1. task[d] = "routing" /\ task'[d] = "done" /\ \A e \in Streams : e # d => task'[e] = task[e] /\ reader'[e] = reader[e]
    BY <1>0, <1>4 DEF Routed, RouteFailed
  <2>2. CASE c # d
    <3>1. ~Counts(c, K, Msg(d, kind))
      BY <2>2 DEF Counts, Msg
    <3>2. Rising(c, K, connect_rx)
      BY <1>0 DEF OneReport
    <3>3. Rising(c, K, Append(connect_rx, Msg(d, kind)))
          /\ Places(c, K, Append(connect_rx, Msg(d, kind))) = Places(c, K, connect_rx)
      BY <1>0, <3>1, <3>2, LastPasses
    <3> QED BY <1>0, <2>1, <2>2, <3>3 DEF OneReport, Reports
  <2>3. CASE c = d
    <3>1. Counts(c, K, Msg(d, kind))
      BY <2>3 DEF Counts, Msg
    <3>2. Rising(c, K, connect_rx) /\ Places(c, K, connect_rx) = {}
      BY <1>0, <2>1, <2>3 DEF OneReport, Reports
    <3>3. Rising(c, K, Append(connect_rx, Msg(d, kind)))
      BY <1>0, <3>1, <3>2, LastCounts
    <3> QED BY <2>1, <2>3, <3>3 DEF OneReport
  <2> QED BY <2>2, <2>3
<1>5. CASE Relay
  BY <1>3, <1>4, <1>5 DEF Relay
<1>6. CASE ServerConnect
  <2>1. UNCHANGED <<task, reader>> /\ connect_rx # <<>> /\ connect_rx' = Tail(connect_rx)
    BY <1>6 DEF ServerConnect, taskVars
  <2>2. Rising(c, K, connect_rx)
    BY <1>0 DEF OneReport
  <2>3. Rising(c, K, Tail(connect_rx)) /\ Places(c, K, Tail(connect_rx)) \subseteq Places(c, K, connect_rx)
    <3>1. connect_rx \in Seq(ConnectMessage) /\ connect_rx # <<>> /\ Rising(c, K, connect_rx)
      BY <1>0, <2>1, <2>2
    <3>2. CASE Counts(c, K, Head(connect_rx))
      <4>1. /\ Rising(c, K, Tail(connect_rx))
            /\ Places(c, K, connect_rx) = Places(c, K, Tail(connect_rx)) \cup {Place(Head(connect_rx))}
        BY <3>1, <3>2, HeadCounts, ZenonT(40)
      <4> QED BY <4>1
    <3>3. CASE ~Counts(c, K, Head(connect_rx))
      BY <3>1, <3>3, HeadPasses
    <3> QED BY <3>2, <3>3
  <2> QED BY <1>0, <2>1, <2>3 DEF OneReport, Reports
<1>7. ASSUME NEW s \in Sessions, ServerReceive(s) PROVE OneReport(c)'
  <2> DEFINE m == Head(up[s])
  <2>1. connect_rx' = connect_rx /\ up[s] # <<>> /\ m \in UpMessage
    BY <1>0, <1>7, UpHead DEF ServerReceive
  <2>2. \/ UNCHANGED <<task, reader>>
        \/ m.kind = "Connect" /\ task' = [task EXCEPT ![m.stream] = "routing"] /\ reader' = reader
        \/ m.kind = "UdpAssociate" /\ task' = task /\ reader' = [reader EXCEPT ![m.stream] = "reading"]
    BY <1>7 DEF ServerReceive, taskVars
  <2>3. CASE m.stream = c /\ m.kind \in {"Connect", "UdpAssociate"}
    <3>1. task[c] = "none" /\ reader[c] = "none"
      <4>1. session_of[c] = 0
        BY <1>0, <2>1, <2>3, OpensNew
      <4> QED BY <1>0, <4>1 DEF Unheard
    <3>2. task'[c] = "routing" => reader'[c] = "none"
      BY <1>0, <2>2, <2>3, <3>1
    <3>3. Reports(c) = {}
      BY <1>0, <3>1 DEF OneReport
    <3> QED BY <1>0, <2>1, <3>2, <3>3 DEF OneReport, Reports
  <2>4. CASE ~(m.stream = c /\ m.kind \in {"Connect", "UdpAssociate"})
    <3>1. task'[c] = task[c] /\ reader'[c] = reader[c]
      BY <1>0, <2>2, <2>4
    <3> QED BY <1>0, <2>1, <3>1 DEF OneReport, Reports
  <2> QED BY <2>3, <2>4
<1> QED BY <1>2, <1>5, <1>6, <1>7 DEF Next, Loop

(* Where a confirmation may come from.                                        *)
LEMMA ConfirmsIff ==
  ASSUME NEW c, NEW q
  PROVE  Confirms(c, q) <=> \E i \in DOMAIN q : q[i].stream = c /\ q[i].kind = "ConnectOk"
BY DEF Confirms, Places, Spots, Counts

LEMMA ConfirmsTail ==
  ASSUME NEW c, NEW M, NEW q \in Seq(M), q # <<>>
  PROVE  /\ Confirms(c, Tail(q)) => Confirms(c, q)
         /\ Head(q).stream = c /\ Head(q).kind = "ConnectOk" => Confirms(c, q)
<1> DEFINE r == Tail(q)
<1>1. /\ 1 \in DOMAIN q /\ Head(q) = q[1]
      /\ \A i \in DOMAIN r : (i + 1) \in DOMAIN q /\ r[i] = q[i + 1]
  OBVIOUS
<1>2. Confirms(c, r) <=> \E i \in DOMAIN r : r[i].stream = c /\ r[i].kind = "ConnectOk"
  BY ConfirmsIff
<1>3. Confirms(c, q) <=> \E i \in DOMAIN q : q[i].stream = c /\ q[i].kind = "ConnectOk"
  BY ConfirmsIff
<1> QED BY <1>1, <1>2, <1>3

LEMMA ConfirmsLast ==
  ASSUME NEW c, NEW M, NEW q \in Seq(M), NEW m, Confirms(c, Append(q, m))
  PROVE  Confirms(c, q) \/ (m.stream = c /\ m.kind = "ConnectOk")
<1> DEFINE r == Append(q, m)
<1>1. DOMAIN q = 1..Len(q) /\ DOMAIN r = 1..(Len(q) + 1) /\ Len(q) \in Nat
      /\ r[Len(q) + 1] = m /\ \A i \in DOMAIN q : r[i] = q[i]
  OBVIOUS
<1>2. PICK i \in DOMAIN r : r[i].stream = c /\ r[i].kind = "ConnectOk"
  BY ConfirmsIff
<1>3. CASE i \in DOMAIN q
  BY <1>1, <1>2, <1>3, ConfirmsIff
<1>4. CASE i = Len(q) + 1
  BY <1>1, <1>2, <1>4
<1> QED BY <1>1, <1>3, <1>4

LEMMA ConfirmsNothing ==
  ASSUME NEW c
  PROVE  ~Confirms(c, <<>>)
BY EmptyPlaces DEF Confirms

(* What is settled remains so: a stream connects once.                        *)
LEMMA SettledStep ==
  ASSUME Inv, Typed', NEW c \in Streams, Next, Settled(c)
  PROVE  Settled(c)'
<1> DEFINE K == {"ConnectOk", "Error"}
<1>0. Typed /\ Uplink(c) /\ Opens(c) /\ OneReport(c) /\ Unheard(c) /\ connect_rx \in Seq(ConnectMessage)
      /\ task \in [Streams -> {"none", "routing", "done"}] /\ task[c] = "done" /\ Places(c, K, connect_rx) = {}
      /\ Rising(c, K, connect_rx)
  BY DEF Inv, Opens, OneReport, Typed, QueuesTyped, StateTyped, Settled, Reports
<1>1. CASE UNCHANGED <<connect_rx, task>>
  BY <1>1 DEF Settled, Reports
<1>2. CASE Proxy \/ Bridge \/ ServerStream \/ (\E s \in Sessions : DatagramDrop(s))
           \/ (\E D \in SUBSET Sessions, sendFails \in BOOLEAN : Tick(D, sendFails))
  <2>1. UNCHANGED <<connect_rx, task>>
    BY <1>2 DEF Proxy, Accept, Request, GiveUp, ConnectResult, ConnectTimeout, LocalData, LocalEnd, Deliver, Unlist,
                ProxyLoop, Bridge, BridgeSend, BridgeReceive, NetworkChanged, BackgroundReconnect, Stop, Start,
                LoseOld, ServerStream, DatagramDrop, Tick, loopVars, taskVars
  <2> QED BY <1>1, <2>1
<1>3. ASSUME NEW d \in Streams, ReaderData(d) \/ ReaderEof(d) \/ ReaderCancelled(d) PROVE Settled(c)'
  <2>1. UNCHANGED <<connect_rx, task>>
    BY <1>3 DEF ReaderData, ReaderEof, ReaderCancelled, MaySpeak, loopVars, taskVars
  <2> QED BY <1>1, <2>1
<1>4. ASSUME NEW d \in Streams, Routed(d) \/ RouteFailed(d) PROVE Settled(c)'
  <2> PICK kind \in {"ConnectOk", "Error"} : connect_rx' = Append(connect_rx, Msg(d, kind))
    BY <1>4 DEF Routed, RouteFailed
  <2>1. task[d] = "routing" /\ \A e \in Streams : e # d => task'[e] = task[e]
    BY <1>0, <1>4 DEF Routed, RouteFailed
  <2>2. ~Counts(c, K, Msg(d, kind))
    BY <1>0, <2>1 DEF Counts, Msg
  <2>3. Places(c, K, Append(connect_rx, Msg(d, kind))) = Places(c, K, connect_rx)
    BY <1>0, <2>2, LastPasses
  <2> QED BY <1>0, <2>1, <2>3 DEF Settled, Reports
<1>5. CASE Relay
  BY <1>3, <1>4, <1>5 DEF Relay
<1>6. CASE ServerConnect
  <2>1. task' = task /\ connect_rx # <<>> /\ connect_rx' = Tail(connect_rx)
    BY <1>6 DEF ServerConnect, taskVars
  <2>2. \A x \in Places(c, K, Tail(connect_rx)) : x \in Places(c, K, connect_rx)
    BY <1>0, <2>1, HeadPlaces
  <2> QED BY <1>0, <2>1, <2>2 DEF Settled, Reports
<1>7. ASSUME NEW s \in Sessions, ServerReceive(s) PROVE Settled(c)'
  <2> DEFINE m == Head(up[s])
  <2>1. connect_rx' = connect_rx /\ up[s] # <<>> /\ m \in UpMessage
    BY <1>0, <1>7, UpHead DEF ServerReceive
  <2>2. task' = task \/ (m.kind = "Connect" /\ task' = [task EXCEPT ![m.stream] = "routing"])
    BY <1>7 DEF ServerReceive, taskVars
  <2>3. ~(m.stream = c /\ m.kind = "Connect")
    <3> SUFFICES ASSUME m.stream = c, m.kind = "Connect" PROVE FALSE
      OBVIOUS
    <3>1. session_of[c] = 0
      BY <1>0, <2>1, OpensNew
    <3> QED BY <1>0, <3>1 DEF Unheard
  <2>4. task'[c] = task[c]
    BY <1>0, <2>2, <2>3
  <2> QED BY <1>0, <2>1, <2>4 DEF Settled, Reports
<1> QED BY <1>2, <1>5, <1>6, <1>7 DEF Next, Loop

(* Nothing opens that was not settled before.                                 *)
Opening(c) == \/ Confirms(c, rx[c]) \/ Confirms(c, to_proxy) \/ Confirms(c, down)
              \/ phase[c] = "open" \/ consumed[c] > 0

LEMMA OpenSettledKept ==
  ASSUME Inv, Typed', NEW c \in Streams, Next, c \in Tcp /\ Opening(c)' => Opening(c) \/ Settled(c)'
  PROVE  OpenSettled(c)'
BY SettledStep DEF Inv, Opens, OpenSettled, Opening

LEMMA OpenSettledStep ==
  ASSUME Inv, Typed', NEW c \in Streams, Next
  PROVE  OpenSettled(c)'
<1>0. /\ Typed /\ Uplink(c) /\ Opens(c) /\ OneReport(c)
      /\ rx \in [Streams -> Seq(Message)] /\ rx[c] \in Seq(RxMessage(c)) /\ to_proxy \in Seq(ProxyMessage)
      /\ down \in Seq(DownMessage) /\ connect_rx \in Seq(ConnectMessage)
      /\ phase \in [Streams -> {"idle", "accepted", "connecting", "open", "ended", "finished", "reset"}]
  BY DEF Inv, Opens, Typed, QueuesTyped, StateTyped
<1> SUFFICES ASSUME c \in Tcp, Opening(c)' PROVE Opening(c) \/ Settled(c)'
  BY OpenSettledKept
<1>1. CASE UNCHANGED <<rx, to_proxy, down, consumed>> /\ (phase'[c] = "open" => phase[c] = "open")
  BY <1>1 DEF Opening
<1>2. ASSUME NEW d \in Streams, \/ Accept(d) \/ Request(d) \/ GiveUp(d) \/ ConnectTimeout(d) \/ LocalEnd(d) \/ Unlist(d)
      PROVE  Opening(c)
  <2>1. UNCHANGED <<rx, to_proxy, down, consumed>> /\ (phase'[c] = "open" => phase[c] = "open")
    BY <1>0, <1>2, StreamsAssumption DEF Accept, Request, GiveUp, ConnectTimeout, LocalEnd, Unlist, bridgeVars, linkVars, countVars
  <2> QED BY <2>1 DEF Opening
<1>3. ASSUME NEW d \in Streams, LocalData(d) PROVE Opening(c)
  <2>1. UNCHANGED <<phase, rx, to_proxy, down>> /\ (consumed'[c] = consumed[c] \/ phase[c] = "open")
    BY <1>0, <1>3 DEF LocalData, proxyVars, linkVars, Typed, StateTyped
  <2> QED BY <2>1 DEF Opening
<1>4. ASSUME NEW d \in Streams, ConnectResult(d) \/ Deliver(d) PROVE Opening(c)
  <2>1. UNCHANGED <<to_proxy, down, consumed>> /\ rx[d] # <<>> /\ rx' = [rx EXCEPT ![d] = Tail(@)]
    BY <1>4 DEF ConnectResult, Deliver, bridgeVars, linkVars, countVars
  <2>2. CASE c # d
    <3>1. rx'[c] = rx[c] /\ phase'[c] = phase[c]
      BY <1>0, <1>4, <2>1, <2>2 DEF ConnectResult, Deliver
    <3> QED BY <2>1, <3>1 DEF Opening
  <2>3. CASE c = d
    <3>1. rx'[c] = Tail(rx[c]) /\ rx[c] # <<>>
      BY <1>0, <2>1, <2>3
    <3>2. Confirms(c, rx'[c]) => Confirms(c, rx[c])
      BY <1>0, <3>1, ConfirmsTail
    <3>3. phase'[c] = "open" => phase[c] = "open" \/ Confirms(c, rx[c])
      <4>1. CASE Deliver(d)
        BY <1>0, <2>3, <4>1 DEF Deliver
      <4>2. CASE ConnectResult(d)
        <5>1. phase'[c] = Answer(Head(rx[c]))
          BY <1>0, <2>3, <4>2 DEF ConnectResult
        <5>2. Head(rx[c]) \in RxMessage(c)
          BY <1>0, <3>1, HeadTail
        <5>3. Head(rx[c]).stream = c
          BY <5>2, InboxMessages
        <5>4. Head(rx[c]).kind = "ConnectOk" => Confirms(c, rx[c])
          BY <1>0, <3>1, <5>3, ConfirmsTail
        <5> QED BY <5>1, <5>4 DEF Answer
      <4> QED BY <1>4, <4>1, <4>2
    <3> QED BY <2>1, <3>2, <3>3 DEF Opening
  <2> QED BY <2>2, <2>3
<1>5. CASE ProxyLoop
  <2> DEFINE m == Head(to_proxy)
  <2>1. UNCHANGED <<phase, down, consumed>> /\ to_proxy # <<>> /\ to_proxy' = Tail(to_proxy)
    BY <1>5 DEF ProxyLoop, linkVars, countVars
  <2>2. \/ rx'[c] = rx[c]
        \/ rx'[c] = Append(rx[c], Msg(c, "Reset"))
        \/ m.stream = c /\ rx'[c] = Append(rx[c], m)
    <3>1. CASE m.stream = 0
      BY <1>5, <3>1 DEF ProxyLoop
    <3>2. CASE m.stream # 0
      <4>1. rx' = rx \/ rx' = [rx EXCEPT ![m.stream] = Append(@, m)]
        BY <1>5, <3>2 DEF ProxyLoop
      <4> QED BY <1>0, <4>1
    <3> QED BY <3>1, <3>2
  <2>3. Confirms(c, rx'[c]) => Confirms(c, rx[c]) \/ (m.stream = c /\ m.kind = "ConnectOk")
    <3>1. CASE rx'[c] = rx[c]
      BY <3>1
    <3>2. CASE rx'[c] = Append(rx[c], Msg(c, "Reset"))
      <4>1. Msg(c, "Reset").kind # "ConnectOk"
        BY DEF Msg
      <4> QED BY <1>0, <3>2, <4>1, ConfirmsLast
    <3>3. CASE m.stream = c /\ rx'[c] = Append(rx[c], m)
      BY <1>0, <3>3, ConfirmsLast
    <3> QED BY <2>2, <3>1, <3>2, <3>3
  <2>4. /\ Confirms(c, to_proxy') => Confirms(c, to_proxy)
        /\ m.stream = c /\ m.kind = "ConnectOk" => Confirms(c, to_proxy)
    BY <1>0, <2>1, ConfirmsTail
  <2> QED BY <2>1, <2>3, <2>4 DEF Opening
<1>6. CASE Proxy
  BY <1>2, <1>3, <1>4, <1>5, <1>6 DEF Proxy
<1>7. CASE BridgeSend \/ \E s \in Sessions : LoseOld(s)
  <2>1. UNCHANGED <<phase, rx, to_proxy, down, consumed>>
    BY <1>7 DEF BridgeSend, LoseOld, proxyVars, bridgeVars, countVars
  <2> QED BY <2>1 DEF Opening
<1>8. CASE BridgeReceive
  <2>1. UNCHANGED <<phase, rx, consumed>> /\ down # <<>> /\ down' = Tail(down) /\ to_proxy' = Append(to_proxy, Head(down))
    BY <1>8 DEF BridgeReceive, proxyVars, countVars
  <2>2. /\ Confirms(c, down') => Confirms(c, down)
        /\ Head(down).stream = c /\ Head(down).kind = "ConnectOk" => Confirms(c, down)
    BY <1>0, <2>1, ConfirmsTail
  <2>3. Confirms(c, to_proxy') => Confirms(c, to_proxy) \/ (Head(down).stream = c /\ Head(down).kind = "ConnectOk")
    BY <1>0, <2>1, ConfirmsLast
  <2> QED BY <2>1, <2>2, <2>3 DEF Opening
<1>9. CASE NetworkChanged \/ BackgroundReconnect \/ Start \/ Stop
  <2>1. UNCHANGED <<phase, rx, consumed>> /\ down' = <<>>
    BY <1>9 DEF NetworkChanged, BackgroundReconnect, Start, Stop, NewSession, proxyVars, countVars
  <2>2. Confirms(c, ResetStreams) => Confirms(c, to_proxy)
    <3>1. Msg(0, "Close").kind # "ConnectOk"
      BY DEF Msg
    <3> QED BY <1>0, <3>1, ConfirmsLast DEF ResetStreams
  <2>3. Confirms(c, to_proxy') => Confirms(c, to_proxy)
    <3>1. CASE BackgroundReconnect
      <4>1. PICK E \in Seq(ConnectMessage) : to_proxy' = ResetStreams \o E /\ \A i \in DOMAIN E : E[i].kind = "Error"
        BY <1>0, <3>1, Refusals
      <4>2. \A i \in DOMAIN E : ~Counts(c, {"ConnectOk"}, E[i])
        BY <4>1 DEF Counts
      <4>3. ResetStreams \in Seq(ProxyMessage)
        BY <1>0, DownMessages DEF ResetStreams
      <4>4. Places(c, {"ConnectOk"}, ResetStreams \o E) = Places(c, {"ConnectOk"}, ResetStreams)
        BY <4>2, <4>3, QuietPlaces
      <4> QED BY <2>2, <4>1, <4>4 DEF Confirms
    <3>2. CASE NetworkChanged \/ Start \/ Stop
      BY <2>2, <3>2 DEF NetworkChanged, Start, Stop
    <3> QED BY <1>9, <3>1, <3>2
  <2>4. ~Confirms(c, down')
    BY <2>1, ConfirmsNothing
  <2> QED BY <2>1, <2>3, <2>4 DEF Opening
<1>10. CASE Bridge
  BY <1>7, <1>8, <1>9, <1>10 DEF Bridge
<1>11. CASE Relay
  <2>1. UNCHANGED <<phase, rx, to_proxy, down, consumed>>
    BY <1>11 DEF Relay, Routed, RouteFailed, ReaderData, ReaderEof, ReaderCancelled,
                 proxyVars, bridgeVars, linkVars, countVars
  <2> QED BY <2>1 DEF Opening
<1>12. ASSUME UNCHANGED <<phase, rx, to_proxy, consumed>>, NEW m, down' = down \/ down' = Append(down, m),
              ~(m.stream = c /\ m.kind = "ConnectOk")
       PROVE  Opening(c)
  <2>1. Confirms(c, down') => Confirms(c, down)
    <3>1. CASE down' = down
      BY <3>1
    <3>2. CASE down' = Append(down, m)
      BY <1>0, <1>12, <3>2, ConfirmsLast
    <3> QED BY <1>12, <3>1, <3>2
  <2> QED BY <1>12, <2>1 DEF Opening
<1>13. CASE ServerStream
  <2> DEFINE m == Head(stream_rx)
  <2>1. UNCHANGED <<phase, rx, to_proxy, consumed>> /\ m.kind \in {"Data", "Close"}
    BY <1>13 DEF ServerStream, EndPassed, proxyVars, bridgeVars, countVars
  <2>2. PICK r : /\ down' = down \/ down' = Append(down, r)
                 /\ r.kind \in {"Data", "Close"}
    BY <1>13 DEF ServerStream, EndPassed, SendDown
  <2> QED BY <1>12, <2>1, <2>2
<1>14. CASE ServerConnect
  <2> DEFINE m == Head(connect_rx)
  <2>1. UNCHANGED <<phase, rx, to_proxy, consumed, task>> /\ connect_rx # <<>> /\ connect_rx' = Tail(connect_rx)
    BY <1>14 DEF ServerConnect, proxyVars, bridgeVars, taskVars, countVars
  <2>2. m \in ConnectMessage /\ m = [stream |-> m.stream, kind |-> m.kind, n |-> 0]
    BY <1>0, <2>1, HeadTail, DownFields
  <2>3. down' = down \/ down' = Append(down, m)
    BY <1>14, <2>2 DEF ServerConnect, SendDown
  <2>4. CASE m.stream # c
    BY <1>12, <2>1, <2>3, <2>4
  <2>5. CASE m.stream = c
    <3> DEFINE K == {"ConnectOk", "Error"}
               q == connect_rx
    <3>1. q \in Seq(ConnectMessage) /\ q # <<>> /\ Rising(c, K, q) /\ Counts(c, K, Head(q))
      BY <1>0, <2>1, <2>2, <2>5, DownFields DEF OneReport, Counts
    <3>2. \A i \in DOMAIN Tail(q) : Tail(q)[i] \in ConnectMessage
      BY <1>0, <2>1, HeadTail
    <3>3. Place(Head(q)) = 0 /\ \A x \in Places(c, K, Tail(q)) : x = 0
      BY <2>2, <3>2, DownFields DEF Place, Places, Spots
    <3> HIDE DEF q, K
    <3>4. \A x \in Places(c, K, Tail(q)) : Place(Head(q)) < x
      BY <3>1, HeadCounts
    <3>5. Places(c, K, Tail(q)) = {}
      BY <3>3, <3>4
    <3>6. task[c] = "done"
      BY <1>0, <2>1, <2>5, ConnectedEarly
    <3> QED BY <2>1, <3>5, <3>6 DEF Settled, Reports, q, K
  <2> QED BY <2>4, <2>5
<1>15. ASSUME NEW s \in Sessions, ServerReceive(s) PROVE Opening(c)
  <2> DEFINE m == Head(up[s])
  <2>1. UNCHANGED <<phase, rx, to_proxy, consumed>> /\ m \in UpMessage
    BY <1>0, <1>15, UpHead DEF ServerReceive, proxyVars, bridgeVars
  <2>2. down' = down \/ (m.kind = "UdpAssociate" /\ down' = Append(down, Msg(m.stream, "ConnectOk")))
    BY <1>15 DEF ServerReceive
  <2>3. CASE down' = down
    BY <2>1, <2>3 DEF Opening
  <2>4. CASE m.kind = "UdpAssociate" /\ down' = Append(down, Msg(m.stream, "ConnectOk"))
    <3>1. m.stream # c
      BY <2>1, <2>4, UpMessages, StreamsAssumption
    <3>2. Msg(m.stream, "ConnectOk").stream # c
      BY <3>1 DEF Msg
    <3> QED BY <1>12, <2>1, <2>4, <3>2
  <2> QED BY <2>2, <2>3, <2>4
<1>16. ASSUME NEW s \in Sessions, DatagramDrop(s) PROVE Opening(c)
  BY <1>16 DEF DatagramDrop, Opening, proxyVars, bridgeVars, linkVars, countVars
<1>17. ASSUME NEW D \in SUBSET Sessions, NEW sendFails \in BOOLEAN, Tick(D, sendFails) PROVE Opening(c)
  BY <1>17 DEF Tick, Opening, proxyVars, bridgeVars, linkVars, countVars
<1>18. CASE Loop
  BY <1>13, <1>14, <1>15, <1>16, <1>17, <1>18 DEF Loop
<1> QED BY <1>6, <1>10, <1>11, <1>18 DEF Next

--------------------------------------------------------------------------------
(* The theorem.                                                               *)

LEMMA InvInit == Init => Inv
<1> SUFFICES ASSUME Init PROVE Inv
  OBVIOUS
<1>1. Typed
  BY TypedInit
<1>2. ASSUME NEW c \in Streams PROVE Uplink(c) /\ Opens(c) /\ Downlink(c)
  <2>1. /\ Waiting(c) = {} /\ RisingUp(c) /\ \A s \in Sessions : Wire(c)[s] = {}
        /\ Reports(c) = {} /\ Rising(c, {"ConnectOk", "Error"}, connect_rx)
        /\ InRx(c) = {} /\ InProxy(c) = {} /\ InDown(c) = {} /\ InLoop(c) = {} /\ RisingDown(c)
        /\ ~Confirms(c, rx[c]) /\ ~Confirms(c, to_proxy) /\ ~Confirms(c, down)
    BY EmptyPlaces DEF Init, Waiting, Wire, RisingUp, Reports, InRx, InProxy, InDown, InLoop, RisingDown, Confirms
  <2>2. /\ phase[c] = "idle" /\ consumed[c] = 0 /\ uploaded[c] = <<>> /\ produced[c] = 0 /\ delivered[c] = <<>>
        /\ session_of[c] = 0 /\ task[c] = "none" /\ reader[c] = "none" /\ remotes = {}
    BY DEF Init
  <2>3. Len(uploaded[c]) = 0 /\ Len(delivered[c]) = 0 /\ Numbered(uploaded[c]) /\ Numbered(delivered[c])
    BY <2>2 DEF Numbered
  <2>4. Carried(c)
    BY <2>1, <2>2, <2>3 DEF Carried, Upward, UpOrdered, UpWhole, Takes, Below
  <2>5. Downlink(c)
    <3>1. Reach(c) \in 0..2
      BY <1>1, <2>2 DEF Reach, Ended, Heard, Init
    <3>2. Ending(c) = {}
      BY <2>2 DEF Ending
    <3> QED BY <2>1, <2>2, <2>3, <3>1, <3>2 DEF Downlink, DownFlow, Flow, Below
  <2>6. Opens(c)
    BY <2>1, <2>2 DEF Opens, Unheard, OneReport, OpenSettled
  <2> QED BY <2>1, <2>2, <2>3, <2>4, <2>5, <2>6 DEF Uplink, Unasked
<1> QED BY <1>1, <1>2 DEF Inv

LEMMA InvStep == Inv /\ [Next]_vars => Inv'
<1> SUFFICES ASSUME Inv, [Next]_vars PROVE Inv'
  OBVIOUS
<1>1. Typed'
  BY TypedStep DEF Inv, Opens
<1>2. CASE Next
  <2>1. ASSUME NEW c \in Streams PROVE (Uplink(c) /\ Opens(c) /\ Downlink(c))'
    BY <1>1, <1>2, UplinkStep, UnheardStep, OneReportStep, OpenSettledStep, DownlinkStep DEF Opens
  <2> QED BY <1>1, <2>1 DEF Inv
<1>3. CASE UNCHANGED vars
  <2>1. ASSUME NEW c \in Streams PROVE (Uplink(c) /\ Opens(c) /\ Downlink(c))'
    <3> USE <1>3 DEF vars, proxyVars, bridgeVars, linkVars, loopVars, taskVars, countVars
    <3>1. Uplink(c) /\ Opens(c) /\ Downlink(c)
      BY DEF Inv
    <3>2. Uplink(c)'
      BY <3>1 DEF Uplink, Unasked, RisingUp, Carried, Waiting, Wire, Now
    <3>3. Opens(c)'
      BY <3>1 DEF Opens, Unheard, OneReport, OpenSettled, Settled, Reports
    <3>4. Downlink(c)'
      BY <3>1 DEF Downlink, DownFlow, RisingDown, InRx, InProxy, InDown, InLoop, Ending, Reach, Ended, Heard
    <3> QED BY <3>2, <3>3, <3>4
  <2> QED BY <1>1, <2>1 DEF Inv
<1> QED BY <1>2, <1>3

(* A connection the server closed is complete: its Close is behind every      *)
(* chunk in every queue, and what a queue lost before it was lost with it.    *)
LEMMA InvFaithful == Inv => ConnectionsFaithful
BY TypedTypeOK DEF Inv, Uplink, Downlink, DownFlow, ConnectionsFaithful, PayloadsInOrder, CloseIsComplete

(* Through the proxy, the bridge, any number of sessions one after the other, *)
(* the server loop and its relay tasks: the target gets the chunks of the     *)
(* application in order and without a hole, the application those of the      *)
(* target, and a connection that was closed by the server is complete.        *)
THEOREM ConnectionsAreFaithful == Spec => []ConnectionsFaithful
<1>1. Init => Inv
  BY InvInit
<1>2. Inv /\ [Next]_vars => Inv'
  BY InvStep
<1>3. Inv => ConnectionsFaithful
  BY InvFaithful
<1> QED BY <1>1, <1>2, <1>3, PTL DEF Spec

================================================================================
