----------------------------- MODULE SafetyProofs ------------------------------
(* Parts that share no state, each for every value of its constants: the      *)
(* handshake, the reassembly of fragments, the congestion controller, the     *)
(* traffic counters, the DNS resolver and its activity file, and the way out  *)
(* of the server.  Each has an inductive invariant of its own.                *)
EXTENDS SafetyParts, Integers, Sequences, FiniteSets, FiniteSetTheorems, WellFoundedInduction, SequenceTheorems, TLAPS

--------------------------------------------------------------------------------
(* The handshake.                                                             *)

Found == UNION {Hs!Range(addrs) : addrs \in Resolved}
Vias == {"direct", "nat64"}
DialRecord ==
  [at : {"idle", "opening", "sending", "waiting", "done", "failed"}, call : Nat, addrs : Seq(Found),
   nat64 : BOOLEAN, via : Vias, attempt : Nat, limit : Nat]

TriedRecord == [call : Nat, addr : Found, via : Vias]

Sorted(addrs) == \A i, j \in DOMAIN addrs : i < j /\ Hs!IsV4(addrs[j]) => Hs!IsV4(addrs[i])

Dialled ==
  /\ dial \in DialRecord
  /\ dial.at \in {"opening", "sending", "waiting", "done"} => dial.addrs # <<>> /\ dial.call # 0
  /\ Sorted(dial.addrs)
  /\ dial.via = "nat64" => dial.nat64
  /\ tried \in Seq(TriedRecord)

(* What the server opened is known by its payload, and what it answered is    *)
(* open.                                                                      *)
Known ==
  /\ \A f \in frames : f.payload = f.socket.call
  /\ \A a \in replies : [payload |-> a.socket.call, machine |-> a.machine] \in opened
  /\ \A s \in opened : s.payload \in replay_cache

(* What this call has tried: once an IPv6 address, no IPv4 address is left;   *)
(* once NAT64, it is not to be tried again.                                   *)
Behind ==
  \A i \in DOMAIN tried :
    /\ tried[i].call <= dial.call
    /\ tried[i].call = dial.call =>
         /\ ~Hs!IsV4(tried[i].addr) => \A j \in DOMAIN dial.addrs : ~Hs!IsV4(dial.addrs[j])
         /\ tried[i].via = "nat64" => dial.nat64 /\ ~(dial.at = "opening" /\ dial.via = "nat64")

HandshakeInv == Dialled /\ Known /\ Behind /\ HandshakeSound

LEMMA HandshakeInvInit ==
  ASSUME Hs!Valid, Hs!Init
  PROVE  HandshakeInv
<1>1. dial \in DialRecord /\ dial.at = "idle" /\ dial.addrs = <<>> /\ dial.via = "direct"
  BY DEF Hs!Init, DialRecord, Vias
<1>2. Dialled
  BY <1>1 DEF Dialled, Sorted, Hs!Init
<1>3. Known /\ Behind /\ HandshakeSound
  BY <1>1 DEF Hs!Init, Known, Behind, HandshakeSound, Hs!HandshakeSound, Hs!Agreement, Hs!OneSessionPerCall, Hs!InOrder
<1> QED BY <1>2, <1>3 DEF HandshakeInv

(* The sort is one, and finds the same addresses.                             *)
LEMMA V4FirstSorts ==
  ASSUME NEW S, NEW found \in Seq(S), NEW addrs \in Hs!V4First(found)
  PROVE  addrs \in Seq(S) /\ Sorted(addrs)
<1>1. PICK o \in Hs!SetToSeqs(DOMAIN found) :
        /\ addrs = [i \in DOMAIN found |-> found[o[i]]]
        /\ \A i, j \in DOMAIN found : i < j =>
             IF Hs!IsV4(found[o[i]]) = Hs!IsV4(found[o[j]]) THEN o[i] < o[j] ELSE Hs!IsV4(found[o[i]])
  BY DEF Hs!V4First
<1>2. PICK n \in Nat : DOMAIN found = 1..n
  OBVIOUS
<1>3. Hs!Cardinality(DOMAIN found) = n
  <2>1. Cardinality(1..n) = n
    BY FS_Interval
  <2> QED BY <1>2, <2>1 DEF Cardinality, Hs!Cardinality
<1>4. o \in [1..n -> DOMAIN found]
  BY <1>1, <1>3 DEF Hs!SetToSeqs
<1>5. addrs \in Seq(S)
  BY <1>1, <1>2, <1>4
<1>6. Sorted(addrs)
  BY <1>1, <1>2, <1>4, ZenonT(40) DEF Sorted, Hs!IsV4
<1> QED BY <1>5, <1>6

(* The call goes on, with the address it has or with the next one.            *)

LEMMA TailSorted ==
  ASSUME NEW S, NEW addrs \in Seq(S), addrs # <<>>, Sorted(addrs)
  PROVE  /\ Tail(addrs) \in Seq(S) /\ Sorted(Tail(addrs)) /\ Head(addrs) = addrs[1] /\ 1 \in DOMAIN addrs
         /\ \A j \in DOMAIN Tail(addrs) : j + 1 \in DOMAIN addrs /\ Tail(addrs)[j] = addrs[j + 1]
BY DEF Sorted

(* The call goes on with the address it has or the one behind it, and over    *)
(* NAT64 only if it has not been there.                                       *)
LEMMA DialGoesOn ==
  ASSUME Dialled, Behind, UNCHANGED tried, dial' \in DialRecord, dial'.call = dial.call, dial.addrs # <<>>,
         dial'.addrs = dial.addrs \/ dial'.addrs = Tail(dial.addrs),
         dial'.at \in {"opening", "sending", "waiting", "done"} => dial'.addrs # <<>> /\ dial.call # 0,
         dial'.via = "nat64" => dial'.nat64, dial.nat64 => dial'.nat64,
         dial'.at = "opening" /\ dial'.via = "nat64" => ~dial.nat64
  PROVE  Dialled' /\ Behind'
<1>1. dial.addrs \in Seq(Found) /\ Sorted(dial.addrs)
  BY DEF Dialled, DialRecord
<1>2. Sorted(dial'.addrs)
  BY <1>1, TailSorted
<1>3. Dialled'
  BY <1>2 DEF Dialled
<1>4. \A i \in DOMAIN tried : tried[i].call = dial.call /\ ~Hs!IsV4(tried[i].addr) =>
        \A j \in DOMAIN dial'.addrs : ~Hs!IsV4(dial'.addrs[j])
  <2> SUFFICES ASSUME NEW i \in DOMAIN tried, tried[i].call = dial.call, ~Hs!IsV4(tried[i].addr),
                      NEW j \in DOMAIN dial'.addrs
               PROVE  ~Hs!IsV4(dial'.addrs[j])
    OBVIOUS
  <2>1. \A m \in DOMAIN dial.addrs : ~Hs!IsV4(dial.addrs[m])
    BY DEF Behind
  <2>2. \E m \in DOMAIN dial.addrs : dial'.addrs[j] = dial.addrs[m]
    <3>1. CASE dial'.addrs = dial.addrs
      BY <3>1
    <3>2. CASE dial'.addrs = Tail(dial.addrs)
      <4>1. j \in DOMAIN Tail(dial.addrs)
        BY <3>2
      <4>2. \A k \in DOMAIN Tail(dial.addrs) : k + 1 \in DOMAIN dial.addrs /\ Tail(dial.addrs)[k] = dial.addrs[k + 1]
        BY <1>1, TailSorted
      <4> QED BY <3>2, <4>1, <4>2
    <3> QED BY <3>1, <3>2
  <2> QED BY <2>1, <2>2
<1>5. Behind'
  BY <1>4 DEF Behind
<1> QED BY <1>3, <1>5

(* What the step of a call that only goes on keeps.                           *)
LEMMA CallKeeps ==
  ASSUME HandshakeInv, UNCHANGED <<tried, frames, replies, replay_cache, opened>>, Dialled', Behind',
         Hs!Agreement'
  PROVE  HandshakeInv'
BY DEF HandshakeInv, Known, HandshakeSound, Hs!HandshakeSound, Hs!OneSessionPerCall, Hs!InOrder

LEMMA OnWithNextDial ==
  ASSUME Hs!Valid, Dialled, dial.addrs # <<>>, dial.call # 0
  PROVE  /\ Hs!OnWithNext \in DialRecord
         /\ Hs!OnWithNext.call = dial.call /\ Hs!OnWithNext.addrs = Tail(dial.addrs)
         /\ Hs!OnWithNext.at \in {"failed", "opening"}
         /\ Hs!OnWithNext.at = "opening" => Hs!OnWithNext.addrs # <<>>
         /\ Hs!OnWithNext.via = "direct" /\ Hs!OnWithNext.nat64 = dial.nat64
<1>1. Hs!Limit \in Nat /\ 0 \in Nat
  BY DEF Hs!Limit, Hs!Valid
<1>2. Tail(dial.addrs) \in Seq(Found)
  BY DEF Dialled, DialRecord
<1> QED BY <1>1, <1>2 DEF Hs!OnWithNext, Dialled, DialRecord, Vias

LEMMA FallbackDial ==
  ASSUME Hs!Valid, Dialled, dial.addrs # <<>>, dial.call # 0, NEW limit \in Nat
  PROVE  LET d == Hs!Fallback(limit) IN
         /\ d \in DialRecord /\ d.call = dial.call
         /\ d.addrs = dial.addrs \/ d.addrs = Tail(dial.addrs)
         /\ d.at \in {"failed", "opening"} /\ (d.at = "opening" => d.addrs # <<>>)
         /\ d.via = "nat64" => d.nat64
         /\ dial.nat64 => d.nat64
         /\ d.via = "nat64" => ~dial.nat64
<1>1. CASE Hs!IsV4(Head(dial.addrs)) /\ ~dial.nat64
  BY <1>1 DEF Hs!Fallback, Dialled, DialRecord, Vias
<1>2. CASE ~(Hs!IsV4(Head(dial.addrs)) /\ ~dial.nat64)
  BY <1>2, OnWithNextDial DEF Hs!Fallback
<1> QED BY <1>1, <1>2

LEMMA CallSteps ==
  ASSUME Hs!Valid, HandshakeInv,
         Hs!OpenFails \/ Hs!Unanswered \/ Hs!FromServer \/ Hs!FromElsewhere \/ Hs!Gone
  PROVE  HandshakeInv'
<1>0. Dialled /\ Behind /\ Known /\ Hs!Agreement
  BY DEF HandshakeInv, HandshakeSound, Hs!HandshakeSound
<1>1. UNCHANGED <<tried, frames, replies, replay_cache, opened>>
  BY DEF Hs!OpenFails, Hs!Unanswered, Hs!FromServer, Hs!FromElsewhere, Hs!Answered, Hs!Gone, Hs!wire
<1>2. dial.addrs # <<>> /\ dial.call # 0
  BY <1>0 DEF Dialled, Hs!OpenFails, Hs!Unanswered, Hs!FromServer, Hs!FromElsewhere, Hs!Answered, Hs!Gone
<1>3. Hs!Limit \in Nat /\ FallbackAttempts \in Nat
  BY DEF Hs!Limit, Hs!Valid
<1>4. ASSUME dial' = Hs!OnWithNext \/ dial' = Hs!Fallback(Hs!Limit) \/ dial' = Hs!Fallback(FallbackAttempts)
      PROVE  Dialled' /\ Behind' /\ Hs!Agreement'
  <2>1. dial'.at # "done"
    BY <1>0, <1>2, <1>3, <1>4, OnWithNextDial, FallbackDial
  <2>2. Dialled' /\ Behind'
    <3>1. CASE dial' = Hs!OnWithNext
      BY <1>0, <1>1, <1>2, <3>1, OnWithNextDial, DialGoesOn
    <3>2. ASSUME NEW limit \in Nat, dial' = Hs!Fallback(limit)
          PROVE  Dialled' /\ Behind'
      BY <1>0, <1>1, <1>2, <3>2, FallbackDial, DialGoesOn
    <3> QED BY <1>3, <1>4, <3>1, <3>2
  <2> QED BY <2>1, <2>2 DEF Hs!Agreement
<1>5. ASSUME NEW at \in {"sending", "done", "idle"}, NEW n \in Nat,
             dial' = [[dial EXCEPT !.at = at] EXCEPT !.attempt = n]
      PROVE  Dialled' /\ Behind'
  <2>1. /\ dial' \in DialRecord /\ dial'.call = dial.call /\ dial'.addrs = dial.addrs
        /\ dial'.via = dial.via /\ dial'.nat64 = dial.nat64 /\ dial'.at = at
    BY <1>0, <1>5 DEF Dialled, DialRecord
  <2> QED BY <1>0, <1>1, <1>2, <2>1, DialGoesOn DEF Dialled
<1>6. dial.attempt \in Nat /\ dial = [dial EXCEPT !.attempt = dial.attempt]
  BY <1>0 DEF Dialled, DialRecord
<1>7. CASE Hs!OpenFails
  <2>1. dial' = Hs!OnWithNext \/ dial' = Hs!Fallback(Hs!Limit)
    BY <1>7 DEF Hs!OpenFails
  <2> QED BY <1>1, <1>4, <2>1, CallKeeps
<1>8. CASE Hs!Unanswered
  <2>1. CASE dial' = Hs!Fallback(FallbackAttempts)
    BY <1>1, <1>4, <2>1, CallKeeps
  <2>2. CASE dial' = [dial EXCEPT !.at = "sending", !.attempt = dial.attempt + 1]
    <3>1. dial'.at = "sending" /\ dial.attempt + 1 \in Nat
      BY <1>0, <1>6, <2>2 DEF Dialled, DialRecord
    <3>2. Dialled' /\ Behind'
      BY <1>5, <2>2, <3>1
    <3> QED BY <1>1, <3>1, <3>2, CallKeeps DEF Hs!Agreement
  <2> QED BY <1>8, <2>1, <2>2 DEF Hs!Unanswered
<1>9. ASSUME NEW datagram, Hs!Answered(datagram),
             datagram = Hs!Machine => [payload |-> dial.call, machine |-> Hs!Machine] \in opened
      PROVE  HandshakeInv'
  <2>1. CASE dial' = Hs!OnWithNext
    BY <1>1, <1>4, <2>1, CallKeeps
  <2>2. CASE datagram = Hs!Machine /\ dial' = [dial EXCEPT !.at = "done"]
    <3>1. dial' = [[dial EXCEPT !.at = "done"] EXCEPT !.attempt = dial.attempt]
      BY <1>0, <2>2 DEF Dialled, DialRecord
    <3>2. Dialled' /\ Behind'
      BY <1>5, <1>6, <3>1
    <3>3. dial'.call = dial.call /\ dial'.addrs = dial.addrs
      BY <1>0, <2>2 DEF Dialled, DialRecord
    <3>4. Hs!Agreement'
      BY <1>1, <1>9, <2>2, <3>3 DEF Hs!Agreement, Hs!Machine
    <3> QED BY <1>1, <3>2, <3>4, CallKeeps
  <2> QED BY <1>9, <2>1, <2>2 DEF Hs!Answered, Hs!Validates
<1>10. CASE Hs!FromServer
  <2>1. PICK a \in replies : a.socket = Hs!Socket /\ Hs!Answered(a.machine)
    BY <1>10 DEF Hs!FromServer
  <2>2. a.socket.call = dial.call
    BY <2>1 DEF Hs!Socket
  <2> QED BY <1>0, <1>9, <2>1, <2>2 DEF Known
<1>11. CASE Hs!FromElsewhere
  <2>1. <<0, <<>>>> # Hs!Machine
    BY <1>2 DEF Hs!Machine
  <2> QED BY <1>9, <1>11, <2>1 DEF Hs!FromElsewhere
<1>12. CASE Hs!Gone
  <2>1. dial' = [[dial EXCEPT !.at = "idle"] EXCEPT !.attempt = dial.attempt] /\ dial'.at = "idle"
    BY <1>0, <1>12 DEF Dialled, DialRecord, Hs!Gone
  <2>2. Dialled' /\ Behind'
    BY <1>5, <1>6, <2>1
  <2> QED BY <1>1, <2>1, <2>2, CallKeeps DEF Hs!Agreement
<1> QED BY <1>7, <1>8, <1>10, <1>11, <1>12

(* A call begins: what was tried before belongs to earlier ones.              *)
LEMMA StartStep ==
  ASSUME Hs!Valid, HandshakeInv, Hs!Start
  PROVE  HandshakeInv'
<1>0. Dialled /\ Behind
  BY DEF HandshakeInv
<1>1. PICK addrs \in UNION {Hs!V4First(found) : found \in Resolved} :
        dial' = [at |-> IF addrs = <<>> THEN "failed" ELSE "opening", call |-> dial.call + 1,
                   addrs |-> addrs, nat64 |-> FALSE, via |-> "direct", attempt |-> 0, limit |-> Hs!Limit]
  BY DEF Hs!Start
<1>a. PICK found \in Resolved : addrs \in Hs!V4First(found)
  OBVIOUS
<1>2. found \in Seq(Found)
  <2>1. found \in Seq(Hs!Range(found)) /\ Hs!Range(found) \subseteq Found
    BY DEF Hs!Valid, Found
  <2> QED BY <2>1
<1>3. addrs \in Seq(Found) /\ Sorted(addrs)
  BY <1>a, <1>2, V4FirstSorts
<1>4. Hs!Limit \in Nat
  BY DEF Hs!Limit, Hs!Valid
<1>5. dial.call \in Nat
  BY <1>0 DEF Dialled, DialRecord
<1>6. dial' \in DialRecord
  BY <1>1, <1>3, <1>4, <1>5 DEF DialRecord, Vias
<1>7. Dialled'
  BY <1>0, <1>1, <1>3, <1>5, <1>6 DEF Dialled, Hs!Start
<1>8. UNCHANGED <<tried, frames, replies, replay_cache, opened>>
  BY DEF Hs!Start, Hs!wire
<1>9. Behind'
  <2>0. tried \in Seq(TriedRecord)
    BY <1>0 DEF Dialled
  <2>a. \A i \in DOMAIN tried : tried[i] \in TriedRecord
    BY <2>0
  <2>1. \A i \in DOMAIN tried : tried[i].call \in Nat /\ tried[i].call <= dial.call
    BY <1>0, <2>a DEF Behind, TriedRecord
  <2>2. dial'.call = dial.call + 1
    BY <1>1
  <2>3. \A i \in DOMAIN tried : tried[i].call <= dial'.call /\ tried[i].call # dial'.call
    BY <1>5, <2>1, <2>2
  <2> QED BY <1>0, <1>8, <2>3 DEF Behind
<1>10. Hs!Agreement'
  BY <1>1 DEF Hs!Agreement
<1> QED BY <1>7, <1>8, <1>9, <1>10, CallKeeps

(* A socket opens: the address is the next of a sorted list.                  *)
LEMMA OpenedStep ==
  ASSUME Hs!Valid, HandshakeInv, Hs!Opened
  PROVE  HandshakeInv'
<1>0. Dialled /\ Behind /\ Known /\ Hs!OneSessionPerCall /\ Hs!InOrder
  BY DEF HandshakeInv, HandshakeSound, Hs!HandshakeSound
<1>1. /\ dial.at = "opening" /\ dial' = [dial EXCEPT !.at = "sending"]
      /\ dial.addrs # <<>> /\ dial.call # 0 /\ dial \in DialRecord
      /\ UNCHANGED <<frames, replies, replay_cache, opened>>
  BY <1>0 DEF Hs!Opened, Hs!wire, Dialled
<1>2. /\ dial.addrs \in Seq(Found) /\ Sorted(dial.addrs) /\ dial.call \in Nat /\ dial.via \in Vias
      /\ dial' \in DialRecord /\ dial'.at = "sending" /\ dial'.call = dial.call /\ dial'.addrs = dial.addrs
      /\ dial'.via = dial.via /\ dial'.nat64 = dial.nat64
  BY <1>0, <1>1 DEF Dialled, DialRecord
<1> DEFINE new == [call |-> dial.call, addr |-> Head(dial.addrs), via |-> dial.via]
<1>4. new \in TriedRecord /\ tried' = Append(tried, new)
  BY <1>1, <1>2 DEF Hs!Opened, TriedRecord
<1>5. tried \in Seq(TriedRecord)
  BY <1>0 DEF Dialled
<1>6. /\ tried' \in Seq(TriedRecord)
      /\ DOMAIN tried' = DOMAIN tried \cup {Len(tried) + 1} /\ Len(tried) + 1 \notin DOMAIN tried
      /\ tried'[Len(tried) + 1] = new
      /\ \A i \in DOMAIN tried : tried'[i] = tried[i] /\ i < Len(tried) + 1
      /\ DOMAIN tried \subseteq Nat /\ Len(tried) + 1 \in Nat
  BY <1>4, <1>5
<1>3. Dialled'
  BY <1>0, <1>1, <1>2, <1>6 DEF Dialled
<1> HIDE DEF new
<1>7. new.call = dial.call /\ new.addr = dial.addrs[1] /\ new.via = dial.via /\ 1 \in DOMAIN dial.addrs
  BY <1>1, <1>2, TailSorted DEF new
<1>8. ~Hs!IsV4(dial.addrs[1]) => \A j \in DOMAIN dial.addrs : ~Hs!IsV4(dial.addrs[j])
  BY <1>2 DEF Sorted
<1>9. Behind'
  <2>1. \A i \in DOMAIN tried :
          /\ tried[i].call <= dial.call
          /\ tried[i].call = dial.call =>
               /\ ~Hs!IsV4(tried[i].addr) => \A j \in DOMAIN dial.addrs : ~Hs!IsV4(dial.addrs[j])
               /\ tried[i].via = "nat64" => dial.nat64
    BY <1>0 DEF Behind
  <2>2. /\ new.call <= dial.call
        /\ ~Hs!IsV4(new.addr) => \A j \in DOMAIN dial.addrs : ~Hs!IsV4(dial.addrs[j])
        /\ new.via = "nat64" => dial.nat64
    BY <1>0, <1>2, <1>7, <1>8 DEF Dialled
  <2>3. \A i \in DOMAIN tried' :
          /\ tried'[i].call <= dial.call
          /\ tried'[i].call = dial.call =>
               /\ ~Hs!IsV4(tried'[i].addr) => \A j \in DOMAIN dial.addrs : ~Hs!IsV4(dial.addrs[j])
               /\ tried'[i].via = "nat64" => dial.nat64
    BY <1>6, <2>1, <2>2
  <2> QED BY <1>2, <1>6, <2>3 DEF Behind
<1>10. Hs!InOrder'
  <2> SUFFICES ASSUME NEW i \in DOMAIN tried', NEW j \in DOMAIN tried', i < j, tried'[i].call = tried'[j].call
               PROVE  /\ Hs!IsV4(tried'[j].addr) => Hs!IsV4(tried'[i].addr)
                      /\ ~(tried'[i].via = "nat64" /\ tried'[j].via = "nat64")
    BY DEF Hs!InOrder, Hs!IsV4
  <2>1. i \in DOMAIN tried /\ tried'[i] = tried[i]
    BY <1>6
  <2>2. CASE j \in DOMAIN tried
    BY <1>0, <1>6, <2>1, <2>2 DEF Hs!InOrder
  <2>3. CASE j = Len(tried) + 1
    <3>1. tried[i].call = dial.call /\ tried'[j] = new
      BY <1>6, <1>7, <2>1, <2>3
    <3>2. Hs!IsV4(dial.addrs[1]) => Hs!IsV4(tried[i].addr)
      BY <1>0, <1>7, <2>1, <3>1 DEF Behind
    <3>3. ~(tried[i].via = "nat64" /\ dial.via = "nat64")
      BY <1>0, <1>1, <2>1, <3>1 DEF Behind
    <3> QED BY <1>7, <2>1, <3>1, <3>2, <3>3
  <2> QED BY <1>6, <2>2, <2>3
<1>11. Known' /\ Hs!OneSessionPerCall' /\ Hs!Agreement'
  BY <1>0, <1>1, <1>2 DEF Known, Hs!OneSessionPerCall, Hs!Agreement
<1> QED BY <1>3, <1>9, <1>10, <1>11 DEF HandshakeInv, HandshakeSound, Hs!HandshakeSound

(* What is on the wire moves, and the server.                                 *)
LEMMA WireSteps ==
  ASSUME Hs!Valid, HandshakeInv,
         Hs!Send \/ \E f \in frames : Hs!Accept(f) \/ Hs!Refuse(f)
  PROVE  HandshakeInv'
<1>0. Dialled /\ Behind /\ Known /\ Hs!Agreement /\ Hs!OneSessionPerCall /\ Hs!InOrder
  BY DEF HandshakeInv, HandshakeSound, Hs!HandshakeSound
<1>1. CASE Hs!Send
  <2>1. /\ dial.at = "sending" /\ dial' = [dial EXCEPT !.at = "waiting"] /\ frames' = frames \cup {Hs!Frame}
        /\ UNCHANGED <<tried, replies, replay_cache, opened>>
        /\ dial.addrs # <<>> /\ dial.call # 0
    BY <1>0, <1>1 DEF Hs!Send, Dialled
  <2>2. /\ dial' \in DialRecord /\ dial'.at = "waiting" /\ dial'.call = dial.call /\ dial'.addrs = dial.addrs
        /\ dial'.via = dial.via /\ dial'.nat64 = dial.nat64
    BY SMTT(40), <1>0, <2>1 DEF Dialled, DialRecord
  <2>3. Dialled' /\ Behind'
    BY <1>0, <2>1, <2>2, DialGoesOn DEF Dialled
  <2>4. Hs!Frame.payload = Hs!Frame.socket.call
    BY DEF Hs!Frame, Hs!Socket
  <2>5. Known' /\ Hs!OneSessionPerCall' /\ Hs!InOrder' /\ Hs!Agreement'
    BY <1>0, <2>1, <2>2, <2>4 DEF Known, Hs!OneSessionPerCall, Hs!InOrder, Hs!Agreement
  <2> QED BY <2>3, <2>5 DEF HandshakeInv, HandshakeSound, Hs!HandshakeSound
<1>2. ASSUME NEW f \in frames, Hs!Accept(f) \/ Hs!Refuse(f)
      PROVE  HandshakeInv'
  <2>1. UNCHANGED <<dial, tried, frames>> /\ f.payload \notin replay_cache /\ replay_cache' = replay_cache \cup {f.payload}
    BY <1>2 DEF Hs!Accept, Hs!Refuse, Hs!Unseen
  <2>2. Dialled' /\ Behind' /\ Hs!InOrder'
    BY <1>0, <2>1 DEF Dialled, Behind, Hs!InOrder
  <2>3. CASE Hs!Refuse(f)
    BY <1>0, <2>1, <2>2, <2>3 DEF Hs!Refuse, HandshakeInv, Known, HandshakeSound, Hs!HandshakeSound, Hs!Agreement,
      Hs!OneSessionPerCall, Hs!Machine
  <2>4. CASE Hs!Accept(f)
    <3> DEFINE s0 == [payload |-> f.payload, machine |-> f.machine]
               a0 == [machine |-> f.machine, socket |-> f.socket]
    <3>1. opened' = opened \cup {s0} /\ replies' = replies \cup {a0}
      BY <2>4 DEF Hs!Accept
    <3>2. s0.payload = f.payload /\ [payload |-> a0.socket.call, machine |-> a0.machine] = s0
      BY <1>0 DEF Known
    <3> HIDE DEF s0, a0
    <3>3. Known'
      BY <1>0, <2>1, <3>1, <3>2 DEF Known
    <3>4. \A s \in opened : s.payload # s0.payload
      BY <1>0, <2>1, <3>2 DEF Known
    <3>5. Hs!OneSessionPerCall'
      BY <1>0, <3>1, <3>4 DEF Hs!OneSessionPerCall
    <3>6. Hs!Agreement'
      BY <1>0, <2>1, <3>1 DEF Hs!Agreement, Hs!Machine
    <3> QED BY <2>2, <3>3, <3>5, <3>6 DEF HandshakeInv, HandshakeSound, Hs!HandshakeSound
  <2> QED BY <1>2, <2>3, <2>4
<1> QED BY <1>1, <1>2

LEMMA HandshakeInvStep ==
  ASSUME Hs!Valid, HandshakeInv, Hs!Next \/ UNCHANGED handshake
  PROVE  HandshakeInv'
<1>1. CASE UNCHANGED handshake
  BY <1>1 DEF handshake, HandshakeInv, Dialled, Known, Behind, HandshakeSound, Hs!HandshakeSound, Hs!Agreement,
    Hs!OneSessionPerCall, Hs!InOrder, Hs!Machine
<1>2. CASE Hs!Next
  BY <1>2, StartStep, OpenedStep, CallSteps, WireSteps DEF Hs!Next
<1> QED BY <1>1, <1>2

(* However many addresses, copies, repeats and answers of others a call       *)
(* meets, and however late: a client that reports a session shares it with    *)
(* the server, the server opens one for a call at most, no IPv6 address is    *)
(* waited for before an IPv4 one, and NAT64 is tried once                     *)
(* (perform_handshake_with_id of bridge.rs, on_datagram of the dispatcher).   *)
THEOREM HandshakesAreSound == PartsSpec => []HandshakeSound
<1>1. PartsInit => HandshakeInv
  BY SafetyAssumption, HandshakeInvInit DEF PartsInit
<1>2. HandshakeInv /\ [PartsNext]_partsVars => HandshakeInv'
  BY SafetyAssumption, HandshakeInvStep DEF PartsNext, partsVars
<1>3. HandshakeInv => HandshakeSound
  BY DEF HandshakeInv
<1> QED BY <1>1, <1>2, <1>3, PTL DEF PartsSpec

--------------------------------------------------------------------------------
(* The reassembly of fragments.                                               *)

Numbers == Datagrams \cup {CHOOSE d \in Datagrams : \A e \in Datagrams : d <= e}
SendingRecord == [datagram : Numbers, layout : Layouts, age : Nat]
Part == [len : Nat \ {0}, of : Numbers]
GroupRecord == [parts : UNION {[O -> Part] : O \in SUBSET Nat}, total_len : Nat, age : 0..ReasmTimeout]

ReassemblyTyped ==
  /\ groups \in [DOMAIN groups -> GroupRecord] /\ DOMAIN groups \subseteq Keys /\ IsFiniteSet(DOMAIN groups)
  /\ since_sweep \in 0..SweepEvery
  /\ sending \in [Keys -> SendingRecord]

(* A group is of the datagram s that is on its way.                           *)
Fits(g, s) ==
  /\ \A o \in DOMAIN g.parts :
       g.parts[o].of = s.datagram /\ \E f \in s.layout : f.off = o /\ f.len = g.parts[o].len
  /\ g.total_len # 0 => \E f \in s.layout : ~f.more /\ g.total_len = f.off + f.len

(* A group that outlived its datagram goes with the next frame.               *)
Fresh ==
  \A k \in DOMAIN groups :
    Fits(groups[k], sending[k]) \/ (groups[k].age = ReasmTimeout /\ since_sweep = SweepEvery)

(* Groups age with their senders, and no frame lets an old one live.          *)
Aged ==
  \A k \in DOMAIN groups :
    /\ sending[k].age <= groups[k].age \/ groups[k].age = ReasmTimeout
    /\ since_sweep = SweepEvery \/ sending[k].age <= ReasmTimeout + since_sweep

Waiting(g) == g.total_len # 0 => \E u \in 0..(g.total_len - 1) : Fragments!Covers(g, u) = {}

(* What was handed over is of a sender that has not gone on.                  *)
HandedOver ==
  forwarded # Fragments!Nothing =>
    /\ forwarded.key \in Keys /\ sending[forwarded.key].age = 0
    /\ \A u \in DOMAIN forwarded.units : forwarded.units[u] = sending[forwarded.key].datagram

ReassemblyInv ==
  /\ ReassemblyTyped /\ Fresh /\ Aged /\ HandedOver
  /\ Cardinality(DOMAIN groups) <= MaxGroups
  /\ \A k \in DOMAIN groups : Waiting(groups[k])

LEMMA FragmentsCount == \A S : Fragments!Cardinality(S) = Cardinality(S)
BY DEF Cardinality, Fragments!Cardinality

LEMMA ReassemblyConstants ==
  ASSUME Fragments!Valid
  PROVE  /\ ReasmTimeout \in Nat \ {0} /\ SweepEvery \in Nat \ {0} /\ MaxGroups \in Nat \ {0} /\ MaxUnits \in Nat \ {0}
         /\ MinReuse \in Nat /\ MinReuse >= ReasmTimeout + SweepEvery
         /\ \A pieces \in Layouts : \A f \in pieces :
              /\ f.off \in Nat /\ f.len \in Nat \ {0} /\ f.more \in BOOLEAN
              /\ ~f.more => \A g \in pieces : g.off + g.len <= f.off + f.len
BY DEF Fragments!Valid

LEMMA ReassemblyInvInit ==
  ASSUME Fragments!Valid, Fragments!Init
  PROVE  ReassemblyInv
<1>1. groups = [k \in {} |-> Fragments!NewGroup] /\ DOMAIN groups = {} /\ since_sweep = 0 /\ forwarded = Fragments!Nothing
  BY DEF Fragments!Init, Fragments!NoGroups
<1>2. sending \in [Keys -> SendingRecord]
  <2>1. \A k \in Keys : sending[k] \in SendingRecord
    BY DEF Fragments!Init, SendingRecord, Numbers
  <2>2. sending = [k \in Keys |-> sending[k]]
    BY DEF Fragments!Init
  <2> QED BY <2>1, <2>2
<1>3. IsFiniteSet(DOMAIN groups) /\ Cardinality(DOMAIN groups) = 0
  BY <1>1, FS_EmptySet
<1>4. ReassemblyTyped
  BY <1>1, <1>2, <1>3, ReassemblyConstants DEF ReassemblyTyped
<1>5. Fresh /\ Aged /\ HandedOver /\ \A k \in DOMAIN groups : Waiting(groups[k])
  BY <1>1 DEF Fresh, Aged, HandedOver
<1> QED BY <1>3, <1>4, <1>5, ReassemblyConstants DEF ReassemblyInv

(* A set of groups that a frame has left.                                     *)
Remaining(gs) ==
  /\ DOMAIN gs \subseteq DOMAIN groups /\ gs = [j \in DOMAIN gs |-> groups[j]]
  /\ \A j \in DOMAIN gs : Fits(groups[j], sending[j]) /\ (since_sweep = SweepEvery => groups[j].age < ReasmTimeout)

LEMMA SweptRemains ==
  ASSUME Fragments!Valid, ReassemblyInv
  PROVE  Remaining(Fragments!Swept)
<1>0. /\ groups \in [DOMAIN groups -> GroupRecord] /\ since_sweep \in 0..SweepEvery /\ SweepEvery \in Nat \ {0}
      /\ ReasmTimeout \in Nat
      /\ \A k \in DOMAIN groups : groups[k].age \in 0..ReasmTimeout
  BY ReassemblyConstants DEF ReassemblyInv, ReassemblyTyped, GroupRecord
<1>1. CASE since_sweep < SweepEvery
  <2>1. Fragments!Swept = groups /\ since_sweep # SweepEvery
    BY <1>0, <1>1 DEF Fragments!Swept
  <2> QED BY <1>0, <2>1 DEF Remaining, ReassemblyInv, Fresh
<1>2. CASE ~(since_sweep < SweepEvery)
  <2> DEFINE kept == {j \in DOMAIN groups : groups[j].age < ReasmTimeout}
  <2>1. Fragments!Swept = [k \in kept |-> groups[k]]
    BY <1>2 DEF Fragments!Swept
  <2>2. \A j \in kept : groups[j].age < ReasmTimeout /\ Fits(groups[j], sending[j])
    BY <1>0 DEF ReassemblyInv, Fresh
  <2>3. DOMAIN Fragments!Swept = kept
    BY <2>1
  <2> QED BY <2>1, <2>2, <2>3 DEF Remaining
<1> QED BY <1>1, <1>2

LEMMA WithoutRemains ==
  ASSUME NEW gs, Remaining(gs), NEW k
  PROVE  Remaining(Fragments!Without(gs, k)) /\ DOMAIN Fragments!Without(gs, k) = DOMAIN gs \ {k}
<1>1. DOMAIN Fragments!Without(gs, k) = DOMAIN gs \ {k}
  BY DEF Fragments!Without
<1>2. \A j \in DOMAIN gs \ {k} : Fragments!Without(gs, k)[j] = groups[j]
  BY DEF Fragments!Without, Remaining
<1>3. Fragments!Without(gs, k) = [j \in DOMAIN Fragments!Without(gs, k) |-> groups[j]]
  BY <1>1, <1>2 DEF Fragments!Without
<1> QED BY <1>1, <1>3 DEF Remaining

(* There is room for the group of a fragment.                                 *)
LEMMA RoomRemains ==
  ASSUME Fragments!Valid, ReassemblyInv, NEW gs, Remaining(gs), NEW k, NEW r \in Fragments!RoomFor(gs, k)
  PROVE  /\ Remaining(r) /\ IsFiniteSet(DOMAIN r \cup {k})
         /\ Cardinality(DOMAIN r \cup {k}) <= MaxGroups
<1>0. /\ IsFiniteSet(DOMAIN groups) /\ DOMAIN gs \subseteq DOMAIN groups /\ Cardinality(DOMAIN groups) <= MaxGroups
      /\ MaxGroups \in Nat \ {0}
  BY ReassemblyConstants DEF ReassemblyInv, ReassemblyTyped, Remaining
<1>1. IsFiniteSet(DOMAIN gs) /\ Cardinality(DOMAIN gs) <= MaxGroups /\ Cardinality(DOMAIN gs) \in Nat
  <2>1. IsFiniteSet(DOMAIN gs) /\ Cardinality(DOMAIN gs) <= Cardinality(DOMAIN groups)
    BY <1>0, FS_Subset
  <2>2. Cardinality(DOMAIN gs) \in Nat /\ Cardinality(DOMAIN groups) \in Nat
    BY <1>0, <2>1, FS_CardinalityType
  <2> QED BY <1>0, <2>1, <2>2
<1>2. CASE k \in DOMAIN gs /\ r = gs
  <2>1. DOMAIN r \cup {k} = DOMAIN gs
    BY <1>2
  <2> QED BY <1>1, <1>2, <2>1
<1>3. CASE k \notin DOMAIN gs /\ Cardinality(DOMAIN gs) < MaxGroups /\ r = gs
  <2>1. IsFiniteSet(DOMAIN gs \cup {k}) /\ Cardinality(DOMAIN gs \cup {k}) = Cardinality(DOMAIN gs) + 1
    BY <1>1, <1>3, FS_AddElement
  <2> QED BY <1>0, <1>1, <1>3, <2>1
<1>4. CASE k \notin DOMAIN gs /\ \E j \in DOMAIN gs : r = Fragments!Without(gs, j)
  <2>1. PICK j \in DOMAIN gs : r = Fragments!Without(gs, j)
    BY <1>4
  <2>2. Remaining(r) /\ DOMAIN r = DOMAIN gs \ {j}
    BY <2>1, WithoutRemains
  <2>3. IsFiniteSet(DOMAIN r) /\ Cardinality(DOMAIN r) = Cardinality(DOMAIN gs) - 1
    BY <1>1, <2>2, FS_RemoveElement
  <2>4. IsFiniteSet(DOMAIN r \cup {k}) /\ Cardinality(DOMAIN r \cup {k}) = Cardinality(DOMAIN r) + 1
    BY <1>4, <2>2, <2>3, FS_AddElement
  <2> QED BY <1>1, <2>2, <2>3, <2>4
<1>5. (k \in DOMAIN gs \/ Cardinality(DOMAIN gs) < MaxGroups) => r = gs
  BY FragmentsCount DEF Fragments!RoomFor
<1>6. ~(k \in DOMAIN gs \/ Cardinality(DOMAIN gs) < MaxGroups) => \E j \in DOMAIN gs : r = Fragments!Without(gs, j)
  BY FragmentsCount DEF Fragments!RoomFor
<1> QED BY <1>2, <1>3, <1>4, <1>5, <1>6

LEMMA Least ==
  ASSUME NEW S \in SUBSET Nat, S # {}
  PROVE  \E n \in S : \A m \in S : n <= m
<1>1. \E n \in S : \A m \in S : ~(<<m, n>> \in OpToRel(<, Nat))
  BY NatLessThanWellFounded, WFMin
<1>2. PICK n \in S : \A m \in S : ~(<<m, n>> \in OpToRel(<, Nat))
  BY <1>1
<1>3. ASSUME NEW m \in S PROVE n <= m
  <2>1. m \in Nat /\ n \in Nat /\ <<m, n>> \in Nat \X Nat
    OBVIOUS
  <2>2. <<m, n>> \notin {pair \in Nat \X Nat : pair[1] < pair[2]}
    BY <1>2 DEF OpToRel
  <2>3. ~(m < n)
    BY <2>1, <2>2
  <2> QED BY <2>1, <2>3
<1> QED BY <1>3

LEMMA Greatest ==
  ASSUME NEW u \in Nat, NEW S \in SUBSET (0..u), S # {}
  PROVE  \E n \in S : \A m \in S : m <= n
<1> DEFINE T == {u - m : m \in S}
<1>1. T \in SUBSET Nat /\ T # {}
  <2>1. \A m \in S : u - m \in Nat
    OBVIOUS
  <2>2. \A t \in T : t \in Nat
    BY <2>1
  <2> QED BY <2>2
<1>2. PICK t \in T : \A w \in T : t <= w
  BY <1>1, Least
<1>3. PICK n \in S : t = u - n
  OBVIOUS
<1>4. \A m \in S : u - n <= u - m
  BY <1>2, <1>3
<1> QED BY <1>4

(* A fragment that fits makes a group of the same datagram.                   *)
LEMMA InsertedFits ==
  ASSUME Fragments!Valid, NEW s \in SendingRecord, NEW g \in GroupRecord, Fits(g, s), NEW f \in s.layout
  PROVE  LET new == Fragments!Inserted(g, f, s.datagram) IN
         new \in GroupRecord /\ Fits(new, s) /\ new.age = g.age
<1> DEFINE new == Fragments!Inserted(g, f, s.datagram)
           parts == [o \in DOMAIN g.parts \cup {f.off} |->
                       IF o = f.off THEN [len |-> f.len, of |-> s.datagram] ELSE g.parts[o]]
<1>1. /\ f.off \in Nat /\ f.len \in Nat \ {0} /\ f.more \in BOOLEAN /\ s.datagram \in Numbers
      /\ s.layout \in Layouts
  BY ReassemblyConstants DEF SendingRecord
<1>2. PICK O \in SUBSET Nat : g.parts \in [O -> Part]
  BY DEF GroupRecord
<1>3. parts \in [O \cup {f.off} -> Part]
  BY <1>1, <1>2 DEF Part
<1>4. g.total_len \in Nat /\ g.age \in 0..ReasmTimeout /\ f.off + f.len \in Nat
  BY <1>1 DEF GroupRecord
<1>5. /\ new.parts = parts /\ new.age = g.age
      /\ new.total_len = IF f.more THEN g.total_len ELSE f.off + f.len
      /\ new = [parts |-> parts, total_len |-> IF f.more THEN g.total_len ELSE f.off + f.len, age |-> g.age]
  <2>1. new = [[g EXCEPT !.parts = parts] EXCEPT !.total_len = IF f.more THEN @ ELSE f.off + f.len]
    BY DEF Fragments!Inserted
  <2>2. g = [parts |-> g.parts, total_len |-> g.total_len, age |-> g.age]
    BY DEF GroupRecord
  <2> HIDE DEF new, parts
  <2>3. [g EXCEPT !.parts = parts] = [parts |-> parts, total_len |-> g.total_len, age |-> g.age]
    BY <2>2
  <2> QED BY <2>1, <2>3
<1>6. O \cup {f.off} \in SUBSET Nat
  BY <1>1
<1>7. parts \in UNION {[P -> Part] : P \in SUBSET Nat}
  BY <1>3, <1>6
<1>8. new \in GroupRecord
  BY <1>4, <1>5, <1>7 DEF GroupRecord
<1>9. ASSUME NEW o \in DOMAIN parts
      PROVE  parts[o].of = s.datagram /\ \E h \in s.layout : h.off = o /\ h.len = parts[o].len
  <2>1. CASE o = f.off
    BY <2>1
  <2>2. CASE o # f.off
    <3>1. o \in DOMAIN g.parts /\ parts[o] = g.parts[o]
      BY <2>2
    <3> QED BY <3>1 DEF Fits
  <2> QED BY <2>1, <2>2
<1>10. new.total_len # 0 => \E h \in s.layout : ~h.more /\ new.total_len = h.off + h.len
  BY <1>1, <1>5 DEF Fits
<1> HIDE DEF new, parts
<1>11. Fits(new, s)
  BY <1>5, <1>9, <1>10 DEF Fits
<1> QED BY <1>5, <1>8, <1>11 DEF new

(* What is not complete misses a unit below its end.                          *)
LEMMA IncompleteWaits ==
  ASSUME Fragments!Valid, NEW s \in SendingRecord, NEW g \in GroupRecord, Fits(g, s), ~Fragments!Complete(g)
  PROVE  Waiting(g)
<1> SUFFICES ASSUME g.total_len # 0
             PROVE  \E u \in 0..(g.total_len - 1) : Fragments!Covers(g, u) = {}
  BY DEF Waiting
<1>1. s.layout \in Layouts /\ g.total_len \in Nat \ {0}
  BY DEF SendingRecord, GroupRecord
<1>2. PICK O \in SUBSET Nat : g.parts \in [O -> Part]
  BY DEF GroupRecord
<1>3. PICK e \in s.layout : ~e.more /\ g.total_len = e.off + e.len
  BY DEF Fits
<1>4. \A o \in DOMAIN g.parts : o \in Nat /\ g.parts[o].len \in Nat \ {0} /\ o + g.parts[o].len <= g.total_len
  <2> SUFFICES ASSUME NEW o \in DOMAIN g.parts
               PROVE  o \in Nat /\ g.parts[o].len \in Nat \ {0} /\ o + g.parts[o].len <= g.total_len
    OBVIOUS
  <2>1. o \in Nat /\ g.parts[o] \in Part
    BY <1>2
  <2>2. PICK f \in s.layout : f.off = o /\ f.len = g.parts[o].len
    BY DEF Fits
  <2>3. f.off + f.len <= e.off + e.len
    BY <1>1, <1>3, ReassemblyConstants
  <2> QED BY <1>3, <2>1, <2>2, <2>3 DEF Part
<1>5. CASE 0 \notin DOMAIN g.parts
  <2>1. Fragments!Covers(g, 0) = {}
    BY <1>4, <1>5 DEF Fragments!Covers
  <2>2. 0 \in 0..(g.total_len - 1)
    BY <1>1
  <2> QED BY <2>1, <2>2
<1>6. CASE \E u \in 0..(g.total_len - 1) : ~(Fragments!Covers(g, u) # {})
  BY <1>6
<1>7. CASE \E o \in DOMAIN g.parts : o # 0 /\ Fragments!Covers(g, o - 1) = {}
  <2>1. PICK o \in DOMAIN g.parts : o # 0 /\ Fragments!Covers(g, o - 1) = {}
    BY <1>7
  <2>2. o - 1 \in 0..(g.total_len - 1)
    BY <1>1, <1>4, <2>1
  <2> QED BY <2>1, <2>2
<1> QED BY <1>5, <1>6, <1>7 DEF Fragments!Complete

(* A datagram is put together from its own fragments.                         *)
LEMMA StitchedOwn ==
  ASSUME Fragments!Valid, NEW s \in SendingRecord, NEW g \in GroupRecord, Fits(g, s), Fragments!Complete(g)
  PROVE  \A u \in DOMAIN Fragments!Stitched(g) : Fragments!Stitched(g)[u] = s.datagram
<1> SUFFICES ASSUME NEW u \in 0..(g.total_len - 1)
             PROVE  Fragments!Stitched(g)[u] = s.datagram
  BY DEF Fragments!Stitched
<1>1. u \in Nat /\ Fragments!Covers(g, u) # {}
  BY DEF Fragments!Complete
<1>2. PICK O \in SUBSET Nat : g.parts \in [O -> Part]
  BY DEF GroupRecord
<1>3. Fragments!Covers(g, u) \in SUBSET (0..u)
  <2>1. \A o \in DOMAIN g.parts : o \in Nat
    BY <1>2
  <2>2. \A o \in Fragments!Covers(g, u) : o \in Nat /\ o <= u
    BY <2>1 DEF Fragments!Covers
  <2> QED BY <1>1, <2>2
<1>4. \E o \in Fragments!Covers(g, u) : \A p \in Fragments!Covers(g, u) : p <= o
  BY <1>1, <1>3, Greatest
<1> DEFINE top == CHOOSE o \in Fragments!Covers(g, u) : \A p \in Fragments!Covers(g, u) : p <= o
<1>5. top \in Fragments!Covers(g, u)
  BY <1>4
<1>6. top \in DOMAIN g.parts
  BY <1>5 DEF Fragments!Covers
<1>7. Fragments!Stitched(g)[u] = g.parts[top].of
  BY DEF Fragments!Stitched
<1> HIDE DEF top
<1> QED BY <1>6, <1>7 DEF Fits

(* A frame has come: groups of the swept table are left, and at most one that *)
(* fits its datagram is new.                                                  *)
LEMMA FrameKeeps ==
  ASSUME Fragments!Valid, ReassemblyInv, NEW gs, Remaining(gs),
         groups' \in [DOMAIN groups' -> GroupRecord], DOMAIN groups' \subseteq Keys, IsFiniteSet(DOMAIN groups'),
         \A j \in DOMAIN groups' :
           \/ j \in DOMAIN gs /\ groups'[j] = gs[j]
           \/ Fits(groups'[j], sending[j]) /\ Waiting(groups'[j]) /\ sending'[j].age = 0,
         Fragments!Sweeps, sending' \in [Keys -> SendingRecord],
         \A j \in Keys : /\ sending'[j].datagram = sending[j].datagram /\ sending'[j].layout = sending[j].layout
                         /\ sending'[j].age = sending[j].age \/ sending'[j].age = 0
  PROVE  ReassemblyTyped' /\ Fresh' /\ Aged' /\ \A k \in DOMAIN groups' : Waiting(groups'[k])
<1>0. /\ groups \in [DOMAIN groups -> GroupRecord] /\ DOMAIN groups \subseteq Keys
      /\ since_sweep \in 0..SweepEvery /\ SweepEvery \in Nat \ {0} /\ ReasmTimeout \in Nat \ {0}
      /\ sending \in [Keys -> SendingRecord]
  BY ReassemblyConstants DEF ReassemblyInv, ReassemblyTyped
<1>1. /\ since_sweep' \in 0..SweepEvery /\ since_sweep' # SweepEvery
      /\ IF since_sweep = SweepEvery THEN since_sweep' = 0 ELSE since_sweep' = since_sweep
  BY <1>0 DEF Fragments!Sweeps
<1>2. ReassemblyTyped'
  BY <1>1 DEF ReassemblyTyped
<1>3. \A j \in DOMAIN gs : /\ j \in DOMAIN groups /\ gs[j] = groups[j] /\ Fits(groups[j], sending[j])
                           /\ since_sweep = SweepEvery => groups[j].age < ReasmTimeout
  BY DEF Remaining
<1>4. \A j \in DOMAIN groups : /\ groups[j].age \in 0..ReasmTimeout /\ sending[j].age \in Nat
  BY <1>0 DEF GroupRecord, SendingRecord
<1>5. \A j \in DOMAIN groups' : groups'[j].age \in 0..ReasmTimeout
  BY DEF GroupRecord
<1>6. Fresh'
  <2> SUFFICES ASSUME NEW j \in DOMAIN groups'
               PROVE  Fits(groups'[j], sending'[j])
    BY DEF Fresh
  <2>1. Fits(groups'[j], sending[j])
    BY <1>3
  <2> QED BY <2>1 DEF Fits
<1>7. Aged'
  <2> SUFFICES ASSUME NEW j \in DOMAIN groups'
               PROVE  /\ sending'[j].age <= groups'[j].age \/ groups'[j].age = ReasmTimeout
                      /\ sending'[j].age <= ReasmTimeout + since_sweep'
    BY DEF Aged
  <2>1. CASE sending'[j].age = 0
    BY <1>0, <1>1, <1>5, <2>1
  <2>2. CASE sending'[j].age # 0
    <3>1. j \in DOMAIN groups /\ groups'[j] = groups[j] /\ (since_sweep = SweepEvery => groups[j].age < ReasmTimeout)
      BY <1>3, <2>2
    <3>2. sending'[j].age = sending[j].age
      BY <1>0, <2>2, <3>1
    <3>3. /\ sending[j].age <= groups[j].age \/ groups[j].age = ReasmTimeout
          /\ since_sweep = SweepEvery \/ sending[j].age <= ReasmTimeout + since_sweep
      BY <3>1 DEF ReassemblyInv, Aged
    <3> QED BY <1>0, <1>1, <1>4, <3>1, <3>2, <3>3
  <2> QED BY <2>1, <2>2
<1>8. \A j \in DOMAIN groups' : Waiting(groups'[j])
  BY <1>3 DEF ReassemblyInv
<1> QED BY <1>2, <1>6, <1>7, <1>8

LEMMA RemainingTyped ==
  ASSUME ReassemblyInv, NEW gs, Remaining(gs)
  PROVE  /\ gs \in [DOMAIN gs -> GroupRecord] /\ DOMAIN gs \subseteq Keys /\ IsFiniteSet(DOMAIN gs)
         /\ Cardinality(DOMAIN gs) <= MaxGroups
<1>1. /\ groups \in [DOMAIN groups -> GroupRecord] /\ DOMAIN groups \subseteq Keys /\ IsFiniteSet(DOMAIN groups)
      /\ DOMAIN gs \subseteq DOMAIN groups /\ gs = [j \in DOMAIN gs |-> groups[j]]
      /\ Cardinality(DOMAIN groups) <= MaxGroups
  BY DEF ReassemblyInv, ReassemblyTyped, Remaining
<1>2. gs \in [DOMAIN gs -> GroupRecord]
  BY <1>1
<1>3. IsFiniteSet(DOMAIN gs) /\ Cardinality(DOMAIN gs) <= Cardinality(DOMAIN groups)
  BY <1>1, FS_Subset
<1>4. Cardinality(DOMAIN gs) <= MaxGroups
  <2>1. Cardinality(DOMAIN gs) \in Nat /\ Cardinality(DOMAIN groups) \in Nat
    BY <1>1, <1>3, FS_CardinalityType
  <2> QED BY <1>1, <1>3, <2>1, SafetyAssumption, ReassemblyConstants
<1> QED BY <1>1, <1>2, <1>3, <1>4

LEMMA FragmentStep ==
  ASSUME Fragments!Valid, ReassemblyInv, NEW k \in Keys, NEW f \in UNION Layouts, Fragments!Fragment(k, f)
  PROVE  ReassemblyInv'
<1>0. sending \in [Keys -> SendingRecord] /\ ReasmTimeout \in Nat
  BY ReassemblyConstants DEF ReassemblyInv, ReassemblyTyped
<1>1. sending[k] \in SendingRecord /\ f \in sending[k].layout
  BY <1>0 DEF Fragments!Fragment
<1>2. PICK gs \in Fragments!RoomFor(Fragments!Swept, k) :
        LET old == IF k \in DOMAIN gs THEN gs[k] ELSE Fragments!NewGroup
            new == Fragments!Inserted(old, f, sending[k].datagram)
        IN IF f.off + f.len > MaxUnits
             THEN groups' = Fragments!Without(gs, k) /\ forwarded' = Fragments!Nothing
           ELSE IF Fragments!Complete(new)
             THEN groups' = Fragments!Without(gs, k) /\ forwarded' = [key |-> k, units |-> Fragments!Stitched(new)]
           ELSE /\ groups' = [j \in DOMAIN gs \cup {k} |-> IF j = k THEN new ELSE gs[j]]
                /\ forwarded' = Fragments!Nothing
  BY DEF Fragments!Fragment
<1> DEFINE old == IF k \in DOMAIN gs THEN gs[k] ELSE Fragments!NewGroup
           new == Fragments!Inserted(old, f, sending[k].datagram)
<1>3. /\ Remaining(gs) /\ IsFiniteSet(DOMAIN gs \cup {k}) /\ Cardinality(DOMAIN gs \cup {k}) <= MaxGroups
  BY <1>2, SweptRemains, RoomRemains
<1>4. gs \in [DOMAIN gs -> GroupRecord] /\ DOMAIN gs \subseteq Keys /\ IsFiniteSet(DOMAIN gs)
  BY <1>3, RemainingTyped
<1>5. old \in GroupRecord /\ Fits(old, sending[k])
  <2>1. CASE k \in DOMAIN gs
    BY <1>3, <1>4, <2>1 DEF Remaining
  <2>2. CASE k \notin DOMAIN gs
    <3>1. old = [parts |-> <<>>, total_len |-> 0, age |-> 0]
      BY <2>2 DEF Fragments!NewGroup
    <3>2. <<>> \in [{} -> Part] /\ {} \in SUBSET Nat
      OBVIOUS
    <3>3. <<>> \in UNION {[O -> Part] : O \in SUBSET Nat}
      BY <3>2
    <3>4. old \in GroupRecord
      <4>1. 0 \in Nat /\ 0 \in 0..ReasmTimeout
        BY <1>0
      <4>2. \A p \in UNION {[O -> Part] : O \in SUBSET Nat} :
              [parts |-> p, total_len |-> 0, age |-> 0] \in GroupRecord
        BY <4>1 DEF GroupRecord
      <4> HIDE DEF old
      <4> QED BY <3>1, <3>3, <4>2
    <3>5. Fits(old, sending[k])
      BY <3>1 DEF Fits
    <3> QED BY <3>4, <3>5
  <2> QED BY <2>1, <2>2
<1>6. new \in GroupRecord /\ Fits(new, sending[k])
  BY <1>1, <1>5, InsertedFits
<1>7. ~Fragments!Complete(new) => Waiting(new)
  BY <1>1, <1>6, IncompleteWaits
<1>8. Fragments!Complete(new) => \A u \in DOMAIN Fragments!Stitched(new) : Fragments!Stitched(new)[u] = sending[k].datagram
  BY <1>1, <1>6, StitchedOwn
<1> HIDE DEF old, new
<1>9. Fragments!Sweeps /\ sending' = [sending EXCEPT ![k].age = 0]
  BY DEF Fragments!Fragment
<1>10. /\ sending' \in [Keys -> SendingRecord] /\ sending'[k].age = 0
       /\ \A j \in Keys : /\ sending'[j].datagram = sending[j].datagram /\ sending'[j].layout = sending[j].layout
                          /\ sending'[j].age = sending[j].age \/ sending'[j].age = 0
  <2>1. sending' = [sending EXCEPT ![k] = [sending[k] EXCEPT !.age = 0]]
    BY <1>9
  <2>2. [sending[k] EXCEPT !.age = 0] \in SendingRecord
    BY <1>1 DEF SendingRecord
  <2>3. /\ [sending[k] EXCEPT !.age = 0].age = 0 /\ [sending[k] EXCEPT !.age = 0].datagram = sending[k].datagram
        /\ [sending[k] EXCEPT !.age = 0].layout = sending[k].layout
    BY <1>1 DEF SendingRecord
  <2> HIDE <1>9
  <2> QED BY <1>0, <2>1, <2>2, <2>3
<1>11. CASE groups' = Fragments!Without(gs, k)
  <2>1. Remaining(groups') /\ DOMAIN groups' = DOMAIN gs \ {k}
    BY <1>3, <1>11, WithoutRemains
  <2>2. /\ groups' \in [DOMAIN groups' -> GroupRecord] /\ DOMAIN groups' \subseteq Keys /\ IsFiniteSet(DOMAIN groups')
        /\ Cardinality(DOMAIN groups') <= MaxGroups
    BY <2>1, RemainingTyped
  <2>3. ReassemblyTyped' /\ Fresh' /\ Aged' /\ \A j \in DOMAIN groups' : Waiting(groups'[j])
    BY <1>9, <1>10, <2>1, <2>2, FrameKeeps
  <2>4. \/ forwarded' = Fragments!Nothing
        \/ Fragments!Complete(new) /\ forwarded' = [key |-> k, units |-> Fragments!Stitched(new)]
    BY <1>2 DEF new, old
  <2>5. HandedOver'
    BY <1>8, <1>10, <2>4 DEF HandedOver, Fragments!Nothing
  <2> QED BY <2>2, <2>3, <2>5 DEF ReassemblyInv
<1>12. CASE /\ groups' = [j \in DOMAIN gs \cup {k} |-> IF j = k THEN new ELSE gs[j]]
            /\ ~Fragments!Complete(new) /\ forwarded' = Fragments!Nothing
  <2>1. /\ DOMAIN groups' = DOMAIN gs \cup {k} /\ groups'[k] = new
        /\ \A j \in DOMAIN gs : j # k => groups'[j] = gs[j]
        /\ groups' \in [DOMAIN groups' -> GroupRecord] /\ DOMAIN groups' \subseteq Keys
    BY <1>4, <1>6, <1>12
  <2>2. \A j \in DOMAIN groups' :
           \/ j \in DOMAIN gs /\ groups'[j] = gs[j]
           \/ Fits(groups'[j], sending[j]) /\ Waiting(groups'[j]) /\ sending'[j].age = 0
    BY <1>6, <1>7, <1>10, <1>12, <2>1
  <2>3. ReassemblyTyped' /\ Fresh' /\ Aged' /\ \A j \in DOMAIN groups' : Waiting(groups'[j])
    BY <1>3, <1>9, <1>10, <2>1, <2>2, FrameKeeps
  <2>4. HandedOver'
    BY <1>12 DEF HandedOver
  <2> QED BY <1>3, <2>1, <2>3, <2>4 DEF ReassemblyInv
<1> QED BY <1>2, <1>11, <1>12 DEF new, old

LEMMA PassThroughStep ==
  ASSUME Fragments!Valid, ReassemblyInv, Fragments!PassThrough
  PROVE  ReassemblyInv'
<1>1. groups' = Fragments!Swept /\ Fragments!Sweeps /\ forwarded' = Fragments!Nothing /\ sending' = sending
  BY DEF Fragments!PassThrough
<1>2. Remaining(groups')
  BY <1>1, SweptRemains
<1>3. /\ groups' \in [DOMAIN groups' -> GroupRecord] /\ DOMAIN groups' \subseteq Keys /\ IsFiniteSet(DOMAIN groups')
      /\ Cardinality(DOMAIN groups') <= MaxGroups
  BY <1>2, RemainingTyped
<1>4. sending' \in [Keys -> SendingRecord]
  BY <1>1 DEF ReassemblyInv, ReassemblyTyped
<1>5. ReassemblyTyped' /\ Fresh' /\ Aged' /\ \A j \in DOMAIN groups' : Waiting(groups'[j])
  BY <1>1, <1>2, <1>3, <1>4, FrameKeeps
<1>6. HandedOver'
  BY <1>1 DEF HandedOver
<1> QED BY <1>3, <1>5, <1>6 DEF ReassemblyInv

(* The identification comes again: what is left of it is old by now.          *)
LEMMA ReuseStep ==
  ASSUME Fragments!Valid, ReassemblyInv, NEW k \in Keys, Fragments!Reuse(k)
  PROVE  ReassemblyInv'
<1>0. /\ ReasmTimeout \in Nat \ {0} /\ SweepEvery \in Nat \ {0} /\ MinReuse \in Nat /\ MinReuse >= ReasmTimeout + SweepEvery
      /\ groups \in [DOMAIN groups -> GroupRecord] /\ DOMAIN groups \subseteq Keys
      /\ since_sweep \in 0..SweepEvery /\ sending \in [Keys -> SendingRecord]
  BY ReassemblyConstants DEF ReassemblyInv, ReassemblyTyped
<1>1. PICK l \in Layouts, d \in Datagrams : sending' = [sending EXCEPT ![k] = [datagram |-> d, layout |-> l, age |-> 0]]
  BY DEF Fragments!Reuse
<1>2. sending[k].age >= MinReuse /\ UNCHANGED <<groups, since_sweep, forwarded>>
  BY DEF Fragments!Reuse
<1>3. /\ sending'[k].age = 0 /\ \A j \in Keys : j # k => sending'[j] = sending[j]
      /\ sending' \in [Keys -> SendingRecord]
  <2>1. [datagram |-> d, layout |-> l, age |-> 0] \in SendingRecord
    BY DEF SendingRecord, Numbers
  <2> QED BY <1>0, <1>1, <2>1
<1>4. ReassemblyTyped'
  BY <1>2, <1>3 DEF ReassemblyInv, ReassemblyTyped
<1>5. \A j \in DOMAIN groups : groups[j].age \in 0..ReasmTimeout /\ sending[j].age \in Nat
  BY <1>0 DEF GroupRecord, SendingRecord
<1>6. k \in DOMAIN groups => groups[k].age = ReasmTimeout /\ since_sweep = SweepEvery
  <2> SUFFICES ASSUME k \in DOMAIN groups
               PROVE  groups[k].age = ReasmTimeout /\ since_sweep = SweepEvery
    OBVIOUS
  <2>1. /\ sending[k].age <= groups[k].age \/ groups[k].age = ReasmTimeout
        /\ since_sweep = SweepEvery \/ sending[k].age <= ReasmTimeout + since_sweep
    BY DEF ReassemblyInv, Aged
  <2> QED BY <1>0, <1>2, <1>5, <2>1
<1>7. Fresh'
  BY <1>0, <1>2, <1>3, <1>6 DEF ReassemblyInv, Fresh
<1>8. Aged'
  BY <1>0, <1>2, <1>3, <1>5, <1>6 DEF ReassemblyInv, Aged
<1>9. HandedOver'
  <2> SUFFICES ASSUME forwarded # Fragments!Nothing
               PROVE  /\ forwarded.key \in Keys /\ sending'[forwarded.key].age = 0
                      /\ \A u \in DOMAIN forwarded.units : forwarded.units[u] = sending'[forwarded.key].datagram
    BY <1>2 DEF HandedOver, Fragments!Nothing
  <2>1. /\ forwarded.key \in Keys /\ sending[forwarded.key].age = 0
        /\ \A u \in DOMAIN forwarded.units : forwarded.units[u] = sending[forwarded.key].datagram
    BY DEF ReassemblyInv, HandedOver
  <2>2. forwarded.key # k
    BY <1>0, <1>2, <2>1
  <2> QED BY <1>3, <2>1, <2>2
<1>10. Cardinality(DOMAIN groups') <= MaxGroups /\ \A j \in DOMAIN groups' : Waiting(groups'[j])
  BY <1>2 DEF ReassemblyInv
<1> QED BY <1>4, <1>7, <1>8, <1>9, <1>10 DEF ReassemblyInv

LEMMA TickStep ==
  ASSUME Fragments!Valid, ReassemblyInv, Fragments!Tick
  PROVE  ReassemblyInv'
<1>0. /\ ReasmTimeout \in Nat \ {0} /\ SweepEvery \in Nat \ {0} /\ MinReuse \in Nat
      /\ groups \in [DOMAIN groups -> GroupRecord] /\ DOMAIN groups \subseteq Keys /\ IsFiniteSet(DOMAIN groups)
      /\ since_sweep \in 0..SweepEvery /\ sending \in [Keys -> SendingRecord]
  BY ReassemblyConstants DEF ReassemblyInv, ReassemblyTyped
<1>1. /\ groups' = [k \in DOMAIN groups |-> [groups[k] EXCEPT !.age = IF @ < ReasmTimeout THEN @ + 1 ELSE @]]
      /\ since_sweep' = IF since_sweep < SweepEvery THEN since_sweep + 1 ELSE since_sweep
      /\ sending' = [k \in Keys |-> [sending[k] EXCEPT !.age = IF @ < MinReuse THEN @ + 1 ELSE @]]
      /\ forwarded' = Fragments!Nothing
  BY DEF Fragments!Tick
<1>2. ASSUME NEW g \in GroupRecord
      PROVE  LET h == [g EXCEPT !.age = IF @ < ReasmTimeout THEN @ + 1 ELSE @] IN
             /\ h \in GroupRecord /\ h.parts = g.parts /\ h.total_len = g.total_len
             /\ h.age = IF g.age < ReasmTimeout THEN g.age + 1 ELSE g.age
             /\ g.age \in 0..ReasmTimeout
  <2>1. g.age \in 0..ReasmTimeout /\ (IF g.age < ReasmTimeout THEN g.age + 1 ELSE g.age) \in 0..ReasmTimeout
    BY <1>0 DEF GroupRecord
  <2>2. \A a \in 0..ReasmTimeout : /\ [g EXCEPT !.age = a] \in GroupRecord /\ [g EXCEPT !.age = a].parts = g.parts
                                   /\ [g EXCEPT !.age = a].total_len = g.total_len /\ [g EXCEPT !.age = a].age = a
    BY DEF GroupRecord
  <2> QED BY <2>1, <2>2
<1>3. ASSUME NEW s \in SendingRecord
      PROVE  LET t == [s EXCEPT !.age = IF @ < MinReuse THEN @ + 1 ELSE @] IN
             /\ t \in SendingRecord /\ t.datagram = s.datagram /\ t.layout = s.layout
             /\ t.age <= s.age + 1 /\ s.age \in Nat /\ t.age \in Nat
  BY <1>0 DEF SendingRecord
<1>4. /\ DOMAIN groups' = DOMAIN groups
      /\ \A k \in DOMAIN groups : /\ groups'[k] \in GroupRecord /\ groups'[k].parts = groups[k].parts
                                  /\ groups'[k].total_len = groups[k].total_len /\ groups[k].age \in 0..ReasmTimeout
                                  /\ groups'[k].age = IF groups[k].age < ReasmTimeout THEN groups[k].age + 1 ELSE groups[k].age
  BY <1>0, <1>1, <1>2
<1>5. \A k \in Keys : /\ sending'[k] \in SendingRecord /\ sending'[k].datagram = sending[k].datagram
                      /\ sending'[k].layout = sending[k].layout /\ sending'[k].age <= sending[k].age + 1
                      /\ sending[k].age \in Nat /\ sending'[k].age \in Nat
  BY <1>0, <1>1, <1>3
<1>6. since_sweep' \in 0..SweepEvery /\ (since_sweep = SweepEvery => since_sweep' = SweepEvery)
      /\ (since_sweep' # SweepEvery => since_sweep' = since_sweep + 1)
  <2>1. since_sweep \in Int /\ SweepEvery \in Int /\ 0 <= since_sweep /\ since_sweep <= SweepEvery
    BY <1>0
  <2>2. CASE since_sweep < SweepEvery
    BY <1>1, <2>1, <2>2
  <2>3. CASE since_sweep = SweepEvery
    BY <1>1, <2>1, <2>3
  <2> QED BY <2>1, <2>2, <2>3
<1>7. ReassemblyTyped'
  <2>1. groups' \in [DOMAIN groups' -> GroupRecord]
    BY <1>1, <1>4
  <2>2. sending' \in [Keys -> SendingRecord]
    BY <1>1, <1>5
  <2> QED BY <1>0, <1>4, <1>6, <2>1, <2>2 DEF ReassemblyTyped
<1>8. Fresh'
  <2> SUFFICES ASSUME NEW k \in DOMAIN groups
               PROVE  Fits(groups'[k], sending'[k]) \/ (groups'[k].age = ReasmTimeout /\ since_sweep' = SweepEvery)
    BY <1>4 DEF Fresh
  <2>1. CASE Fits(groups[k], sending[k])
    BY <1>0, <1>4, <1>5, <2>1 DEF Fits
  <2>2. CASE groups[k].age = ReasmTimeout /\ since_sweep = SweepEvery
    BY <1>0, <1>4, <1>6, <2>2
  <2> QED BY <2>1, <2>2 DEF ReassemblyInv, Fresh
<1>9. Aged'
  <2> SUFFICES ASSUME NEW k \in DOMAIN groups
               PROVE  /\ sending'[k].age <= groups'[k].age \/ groups'[k].age = ReasmTimeout
                      /\ since_sweep' = SweepEvery \/ sending'[k].age <= ReasmTimeout + since_sweep'
    BY <1>4 DEF Aged
  <2>1. /\ sending[k].age <= groups[k].age \/ groups[k].age = ReasmTimeout
        /\ since_sweep = SweepEvery \/ sending[k].age <= ReasmTimeout + since_sweep
    BY DEF ReassemblyInv, Aged
  <2>2. /\ sending'[k].age <= sending[k].age + 1 /\ sending[k].age \in Nat /\ sending'[k].age \in Nat
        /\ groups[k].age \in 0..ReasmTimeout
        /\ groups'[k].age = IF groups[k].age < ReasmTimeout THEN groups[k].age + 1 ELSE groups[k].age
    BY <1>0, <1>4, <1>5
  <2>3. sending'[k].age <= groups'[k].age \/ groups'[k].age = ReasmTimeout
    BY <1>0, <2>1, <2>2
  <2>4. since_sweep' = SweepEvery \/ sending'[k].age <= ReasmTimeout + since_sweep'
    BY <1>0, <1>6, <2>1, <2>2
  <2> QED BY <2>3, <2>4
<1>10. \A k \in DOMAIN groups' : Waiting(groups'[k])
  BY <1>4 DEF ReassemblyInv, Waiting, Fragments!Covers
<1>11. HandedOver' /\ Cardinality(DOMAIN groups') <= MaxGroups
  BY <1>1, <1>4 DEF ReassemblyInv, HandedOver
<1> QED BY <1>7, <1>8, <1>9, <1>10, <1>11 DEF ReassemblyInv

LEMMA ReassemblyInvStep ==
  ASSUME Fragments!Valid, ReassemblyInv, Fragments!Next \/ UNCHANGED reassembly
  PROVE  ReassemblyInv'
<1>1. CASE UNCHANGED reassembly
  BY <1>1 DEF reassembly, ReassemblyInv, ReassemblyTyped, Fresh, Aged, HandedOver
<1>2. CASE Fragments!Next
  BY <1>2, FragmentStep, PassThroughStep, ReuseStep, TickStep DEF Fragments!Next
<1> QED BY <1>1, <1>2

LEMMA ReassemblyInvSound ==
  ASSUME ReassemblyInv
  PROVE  DatagramsWhole
<1>1. Fragments!GroupsBounded
  BY FragmentsCount DEF ReassemblyInv, Fragments!GroupsBounded
<1>2. Fragments!Unmixed
  BY DEF ReassemblyInv, HandedOver, Fragments!Unmixed
<1>3. Fragments!NothingCompleteWaits
  BY DEF ReassemblyInv, Waiting, Fragments!NothingCompleteWaits
<1> QED BY <1>1, <1>2, <1>3 DEF DatagramsWhole, Fragments!DatagramsWhole

(* Whatever fragments come, in any order, twice, overlapping, or not at all:  *)
(* a datagram that is handed over is of its own fragments, though its         *)
(* identification was used before; none that is complete is kept; and the     *)
(* table keeps within its cap (ostp-client/src/tunnel/ip_reasm.rs).  That a   *)
(* sender waits longer than the timeout and a sweep before it uses an         *)
(* identification again is assumed of it, and needed.                         *)
THEOREM DatagramsAreWhole == PartsSpec => []DatagramsWhole
<1>1. PartsInit => ReassemblyInv
  BY SafetyAssumption, ReassemblyInvInit DEF PartsInit
<1>2. ReassemblyInv /\ [PartsNext]_partsVars => ReassemblyInv'
  BY SafetyAssumption, ReassemblyInvStep DEF PartsNext, partsVars
<1>3. ReassemblyInv => DatagramsWhole
  BY ReassemblyInvSound
<1> QED BY <1>1, <1>2, <1>3, PTL DEF PartsSpec

--------------------------------------------------------------------------------
(* The congestion controller.                                                 *)

FrameRecord == [age : Nat, retries : {0, 1}, again : BOOLEAN, copies : {1, 2}, moved : BOOLEAN]

WindowTyped ==
  /\ cwnd \in Int /\ Cc!Floor <= cwnd /\ cwnd <= Cc!Ceiling
  /\ min_rtt \in Nat \ {0} /\ srtt \in Int
  /\ losses \in Nat /\ loss_age \in Nat
  /\ tokens \in Int /\ refill_age \in Nat /\ released \in Nat /\ allowed \in Int

(* A frame that is measured went out once, on the path of now.                *)
HistoryClear ==
  /\ sent_history \in Seq(FrameRecord)
  /\ \A i \in DOMAIN sent_history : sent_history[i].retries = 0 => ~Cc!Ambiguous(sent_history[i])
  /\ sampled = "clean"

(* The losses that slow start counts were reported within its window.         *)
LossesReported ==
  /\ reports \in Seq(Nat) /\ Len(reports) <= LossTolerance
  /\ ~isolated
  /\ cc_phase = "slow_start" /\ loss_age <= LossWindow =>
       losses < LossTolerance /\ losses <= Len(reports) /\ \A i \in 1..losses : reports[i] <= loss_age

(* No queue builds in slow start.                                             *)
QueueEmpty == cc_phase = "slow_start" => srtt < 2 * min_rtt

(* What was released in this tick came out of one burst.                      *)
FromOneBurst ==
  /\ released * Mtu <= allowed
  /\ released # 0 => refill_age = 0 /\ tokens + released * Mtu <= allowed

CongestionInv == WindowTyped /\ HistoryClear /\ LossesReported /\ QueueEmpty /\ FromOneBurst

LEMMA CongestionConstants ==
  ASSUME Cc!Valid
  PROVE  /\ {Mtu, MinPackets, InitialRtt, LossTolerance} \subseteq Nat \ {0}
         /\ {InitialPackets, MaxPackets, Admitted, MinRttExpiry, LossWindow, BurstTicks, MaxFrames, MaxAge} \subseteq Nat
         /\ MinPackets <= InitialPackets /\ InitialPackets <= MaxPackets
         /\ Cc!Floor \in Nat \ {0} /\ Cc!Ceiling \in Nat /\ Cc!Floor <= InitialPackets * Mtu
         /\ InitialPackets * Mtu <= Cc!Ceiling /\ InitialPackets * Mtu \in Nat
<1>1. /\ Mtu \in Nat \ {0} /\ MinPackets \in Nat \ {0} /\ InitialPackets \in Nat /\ MaxPackets \in Nat
      /\ MinPackets <= InitialPackets /\ InitialPackets <= MaxPackets
  BY DEF Cc!Valid
<1>2. \A a, b \in Nat, m \in Nat \ {0} : a <= b => a * m <= b * m /\ a * m \in Nat /\ b * m \in Nat
  OBVIOUS
<1>3. MinPackets * Mtu \in Nat \ {0}
  BY <1>1
<1> QED BY <1>1, <1>2, <1>3 DEF Cc!Valid, Cc!Floor, Cc!Ceiling

LEMMA Products ==
  /\ \A a, b \in Nat : a * b \in Nat
  /\ \A a \in Nat, b \in Nat \ {0} : a \div b \in Nat
  /\ \A a, b \in Int : (a + 1) * b = a * b + b
  /\ \A a, b \in Int : a * b \in Int
OBVIOUS

LEMMA CongestionInvInit ==
  ASSUME Cc!Valid, Cc!Init
  PROVE  CongestionInv
<1>1. InitialRtt * Cc!Tick \in Nat \ {0}
  BY CongestionConstants DEF Cc!Tick
<1>2. cc_phase = "slow_start" /\ srtt = 0 /\ losses = 0 /\ loss_age = 0
  BY DEF Cc!Init
<1>a. refill_age = 0 /\ released = 0 /\ allowed = 0
  BY DEF Cc!Init
<1>c. sent_history = <<>> /\ sampled = "clean"
  BY DEF Cc!Init
<1>d. reports = <<>>
  BY DEF Cc!Init
<1>b. ~isolated
  BY Zenon DEF Cc!Init
<1> DEFINE initial == InitialPackets * Mtu
           rtt == InitialRtt * Cc!Tick
<1>3. initial \in Nat /\ Cc!Floor <= initial /\ initial <= Cc!Ceiling /\ rtt \in Nat \ {0}
  BY <1>1, CongestionConstants
<1>4. cwnd = initial /\ tokens = initial /\ min_rtt = rtt
  BY DEF Cc!Init
<1> HIDE DEF initial, rtt
<1>5. LossTolerance \in Nat \ {0} /\ Mtu \in Nat \ {0}
  BY CongestionConstants
<1>6. WindowTyped
  BY <1>2, <1>a, <1>3, <1>4 DEF WindowTyped
<1>7. HistoryClear
  BY <1>c DEF HistoryClear
<1>8. LossesReported
  BY <1>2, <1>d, <1>b, <1>5 DEF LossesReported
<1>9. QueueEmpty
  BY <1>2, <1>3, <1>4 DEF QueueEmpty
<1>10. FromOneBurst
  BY <1>a, <1>5 DEF FromOneBurst
<1> QED BY <1>6, <1>7, <1>8, <1>9, <1>10 DEF CongestionInv

(* The pace, for the tokens there are.                                        *)
LEMMA BurstTyped ==
  ASSUME Cc!Valid, WindowTyped
  PROVE  /\ Cc!Available \in Int /\ Cc!Burst \in Int /\ Cc!Available <= Cc!Burst
         /\ refill_age = 0 => Cc!Available <= tokens
<1>1. Cc!Rate \in Int
  <2>1. cwnd * Cc!Tick \in Nat /\ min_rtt \in Nat \ {0}
    BY CongestionConstants DEF WindowTyped, Cc!Tick
  <2> QED BY <2>1, Products DEF Cc!Rate
<1>2. Cc!Rate * BurstTicks \in Int /\ refill_age * Cc!Rate \in Int /\ 4 * Mtu \in Int
  BY <1>1, CongestionConstants, Products DEF WindowTyped
<1>3. Cc!Burst \in Int
  BY <1>2 DEF Cc!Burst, Cc!Larger
<1>4. tokens \in Int
  BY DEF WindowTyped
<1>5. refill_age = 0 => refill_age * Cc!Rate = 0
  BY <1>1
<1> HIDE DEF Cc!Rate
<1> QED BY <1>2, <1>3, <1>4, <1>5 DEF Cc!Available, Cc!Smaller

(* Frames go out, with tokens or without.                                     *)
LEMMA SendSteps ==
  ASSUME Cc!Valid, CongestionInv, Cc!Send \/ Cc!SendUngated \/ Cc!SendControl
  PROVE  CongestionInv'
<1>0. WindowTyped /\ HistoryClear /\ LossesReported /\ QueueEmpty /\ FromOneBurst /\ Mtu \in Nat \ {0}
  BY CongestionConstants DEF CongestionInv
<1>1. /\ UNCHANGED <<cwnd, cc_phase, losses, loss_age>>
      /\ UNCHANGED <<min_rtt, srtt, reports, isolated, sampled>>
  BY DEF Cc!Send, Cc!SendUngated, Cc!SendControl, Cc!window, Cc!estimate
<1>2. \E again \in BOOLEAN : sent_history' = Append(sent_history, Cc!Frame(again))
  BY DEF Cc!Send, Cc!SendUngated, Cc!SendControl
<1>3. HistoryClear'
  <2>1. PICK again \in BOOLEAN : sent_history' = Append(sent_history, Cc!Frame(again))
    BY <1>2
  <2>2. Cc!Frame(again) \in FrameRecord /\ ~Cc!Ambiguous(Cc!Frame(again))
    BY DEF Cc!Frame, Cc!Ambiguous, FrameRecord
  <2>3. sent_history \in Seq(FrameRecord)
    BY <1>0 DEF HistoryClear
  <2>4. sent_history' \in Seq(FrameRecord)
    BY <2>1, <2>2, <2>3
  <2>5. \A i \in DOMAIN sent_history' :
          \/ i \in DOMAIN sent_history /\ sent_history'[i] = sent_history[i]
          \/ sent_history'[i] = Cc!Frame(again)
    BY <2>1, <2>2, <2>3
  <2>6. \A i \in DOMAIN sent_history' : sent_history'[i].retries = 0 => ~Cc!Ambiguous(sent_history'[i])
    BY <1>0, <2>2, <2>5 DEF HistoryClear
  <2> QED BY <1>0, <1>1, <2>4, <2>6 DEF HistoryClear, Cc!Ambiguous
<1>4. LossesReported' /\ QueueEmpty'
  BY <1>0, <1>1 DEF LossesReported, QueueEmpty
<1>5. CASE Cc!SendControl
  <2>1. UNCHANGED <<tokens, refill_age, released, allowed>>
    BY <1>5 DEF Cc!SendControl, Cc!bucket
  <2>2. WindowTyped' /\ FromOneBurst'
    BY <1>0, <1>1, <2>1 DEF WindowTyped, FromOneBurst, Cc!Floor, Cc!Ceiling
  <2> QED BY <1>3, <1>4, <2>2 DEF CongestionInv
<1>6. CASE Cc!Send \/ Cc!SendUngated
  <2>1. tokens' = Cc!Available - Mtu /\ refill_age' = 0
    BY <1>6 DEF Cc!Send, Cc!SendUngated, Cc!ConsumePacing
  <2>2. /\ Cc!Available \in Int /\ Cc!Burst \in Int /\ Cc!Available <= Cc!Burst
        /\ refill_age = 0 => Cc!Available <= tokens
    BY <1>0, BurstTyped
  <2>3. /\ released \in Nat /\ tokens \in Int /\ allowed \in Int /\ released * Mtu \in Int
        /\ (released + 1) * Mtu = released * Mtu + Mtu
    BY <1>0, Products DEF WindowTyped
  <2>4. \/ released' = released /\ allowed' = allowed
        \/ /\ Cc!Available >= Mtu /\ released' = released + 1
           /\ allowed' = IF released = 0 THEN Cc!Burst ELSE allowed
    BY <1>6 DEF Cc!Send, Cc!SendUngated, Cc!Admits
  <2>5. tokens' \in Int /\ refill_age' \in Nat /\ released' \in Nat /\ allowed' \in Int
    BY <1>0, <2>1, <2>2, <2>3, <2>4
  <2>6. WindowTyped'
    BY <1>0, <1>1, <2>5 DEF WindowTyped, Cc!Floor, Cc!Ceiling
  <2>7. FromOneBurst'
    <3>1. /\ released * Mtu <= allowed
          /\ released # 0 => refill_age = 0 /\ tokens + released * Mtu <= allowed
      BY <1>0 DEF FromOneBurst
    <3>2. CASE released' = released /\ allowed' = allowed
      <4>1. released # 0 => tokens' + released * Mtu <= allowed
        BY <1>0, <2>1, <2>2, <2>3, <3>1
      <4> QED BY <2>1, <3>1, <3>2, <4>1 DEF FromOneBurst
    <3>3. CASE /\ Cc!Available >= Mtu /\ released' = released + 1
               /\ allowed' = IF released = 0 THEN Cc!Burst ELSE allowed
      <4>1. CASE released = 0
        <5>1. released' * Mtu = Mtu /\ released' * Mtu <= allowed' /\ tokens' + released' * Mtu <= allowed'
          BY <1>0, <2>1, <2>2, <3>3, <4>1
        <5> QED BY <2>1, <5>1 DEF FromOneBurst
      <4>2. CASE released # 0
        <5>1. Cc!Available <= tokens /\ tokens + released * Mtu <= allowed
          BY <2>2, <3>1, <4>2
        <5>2. released' * Mtu = released * Mtu + Mtu /\ allowed' = allowed
          BY <2>3, <3>3, <4>2
        <5> DEFINE earlier == released * Mtu
                   later == released' * Mtu
        <5>3. earlier \in Int /\ later = earlier + Mtu /\ tokens + earlier <= allowed
          BY <2>3, <5>1, <5>2
        <5> HIDE DEF earlier, later
        <5>4. later <= allowed' /\ tokens' + later <= allowed'
          BY <1>0, <2>1, <2>2, <2>3, <3>3, <5>1, <5>2, <5>3
        <5> QED BY <2>1, <5>4 DEF FromOneBurst, later
      <4> QED BY <4>1, <4>2
    <3> QED BY <2>4, <3>2, <3>3
  <2> QED BY <1>3, <1>4, <2>6, <2>7 DEF CongestionInv
<1> QED BY <1>5, <1>6

(* The window after an acknowledgement or a loss.                             *)
LEMMA WindowMoves ==
  ASSUME Cc!Valid, WindowTyped
  PROVE  /\ Cc!Halved(cwnd) \in Int /\ Cc!Floor <= Cc!Halved(cwnd) /\ Cc!Halved(cwnd) <= Cc!Ceiling
         /\ \A w \in Int : Cc!Floor <= w =>
              Cc!Clamped(w) \in Int /\ Cc!Floor <= Cc!Clamped(w) /\ Cc!Clamped(w) <= Cc!Ceiling
         /\ LET l == Cc!Larger((cwnd * 8) \div 10, Cc!Floor) IN l \in Int /\ Cc!Floor <= l /\ l <= Cc!Ceiling
         /\ LET l == Cc!Larger((cwnd * 7) \div 10, Cc!Floor) IN l \in Int /\ Cc!Floor <= l /\ l <= Cc!Ceiling
<1>1. Cc!Floor \in Nat \ {0} /\ Cc!Ceiling \in Nat /\ Cc!Floor <= Cc!Ceiling
  <2>1. /\ Cc!Floor \in Nat \ {0} /\ Cc!Ceiling \in Nat /\ Cc!Floor <= InitialPackets * Mtu
        /\ InitialPackets * Mtu <= Cc!Ceiling /\ InitialPackets * Mtu \in Nat
    BY CongestionConstants
  <2> DEFINE initial == InitialPackets * Mtu
  <2>2. initial \in Nat /\ Cc!Floor <= initial /\ initial <= Cc!Ceiling
    BY <2>1
  <2> HIDE DEF initial
  <2> QED BY <2>1, <2>2
<1>2. cwnd \in Int /\ Cc!Floor <= cwnd /\ cwnd <= Cc!Ceiling
  BY DEF WindowTyped
<1>3. /\ (cwnd \div 2) \in Int /\ cwnd \div 2 <= cwnd
      /\ ((cwnd * 8) \div 10) \in Int /\ (cwnd * 8) \div 10 <= cwnd
      /\ ((cwnd * 7) \div 10) \in Int /\ (cwnd * 7) \div 10 <= cwnd
  BY <1>1, <1>2
<1> QED BY <1>1, <1>2, <1>3 DEF Cc!Halved, Cc!Clamped, Cc!Larger, Cc!Smaller

LEMMA GrowthKeeps ==
  ASSUME Cc!Valid, WindowTyped, QueueEmpty, NEW bytes \in Nat, Cc!GrowWindow(bytes),
         srtt' \in Int, min_rtt' \in Nat \ {0}
  PROVE  /\ cwnd' \in Int /\ Cc!Floor <= cwnd' /\ cwnd' <= Cc!Ceiling
         /\ QueueEmpty' /\ (cc_phase' = "slow_start" => cc_phase = "slow_start")
<1>1. cwnd \in Int /\ Cc!Floor <= cwnd /\ Cc!Floor \in Nat \ {0} /\ Mtu \in Nat
  BY CongestionConstants DEF WindowTyped
<1>2. Cc!Halved(cwnd) \in Int /\ Cc!Floor <= Cc!Halved(cwnd)
  BY WindowMoves
<1>3. cwnd + bytes \in Int /\ Cc!Floor <= cwnd + bytes
  BY <1>1
<1>4. cwnd + (bytes * Mtu) \div cwnd \in Int /\ Cc!Floor <= cwnd + (bytes * Mtu) \div cwnd
  <2>1. bytes * Mtu \in Nat /\ cwnd \in Nat \ {0}
    BY <1>1, Products
  <2>2. (bytes * Mtu) \div cwnd \in Nat
    BY <2>1, Products
  <2> QED BY <1>1, <2>2
<1>5. \E w \in Int : Cc!Floor <= w /\ cwnd' = Cc!Clamped(w)
  BY <1>1, <1>2, <1>3, <1>4 DEF Cc!GrowWindow
<1>6. cwnd' \in Int /\ Cc!Floor <= cwnd' /\ cwnd' <= Cc!Ceiling
  BY <1>5, WindowMoves
<1>7. cc_phase' = "slow_start" => cc_phase = "slow_start" /\ ~Cc!Inflated(2)
  BY DEF Cc!GrowWindow, Cc!QueueBuilds
<1>8. QueueEmpty'
  <2>1. SUFFICES ASSUME cc_phase' = "slow_start"
                 PROVE  srtt' < 2 * min_rtt'
    BY DEF QueueEmpty
  <2>2. ~(srtt' > 0 /\ srtt' >= 2 * min_rtt')
    BY <1>7, <2>1 DEF Cc!Inflated
  <2> DEFINE now == srtt'
             twice == 2 * min_rtt'
  <2>3. now \in Int
    OBVIOUS
  <2>5. twice \in Int /\ 0 < twice
    <3>1. \A m \in Nat \ {0} : 2 * m \in Int /\ 0 < 2 * m
      OBVIOUS
    <3>2. min_rtt' \in Nat \ {0}
      OBVIOUS
    <3> QED BY <3>1, <3>2
  <2>6. ~(now > 0 /\ now >= twice)
    BY <2>2
  <2> HIDE DEF now, twice
  <2>4. now < twice
    BY <2>3, <2>5, <2>6
  <2> QED BY <2>4 DEF now, twice
<1> QED BY <1>6, <1>7, <1>8

LEMMA LeftOver ==
  ASSUME HistoryClear, NEW gone, sent_history' \in Cc!Without(gone), sampled' = "clean"
  PROVE  HistoryClear'
<1>1. PICK order \in Cc!SetToSeqs(DOMAIN sent_history \ gone) :
        sent_history' = [n \in DOMAIN order |-> sent_history[order[n]]]
  BY DEF Cc!Without
<1>2. sent_history \in Seq(FrameRecord) /\ IsFiniteSet(DOMAIN sent_history)
  <2>1. sent_history \in Seq(FrameRecord) /\ DOMAIN sent_history = 1..Len(sent_history) /\ Len(sent_history) \in Nat
    BY DEF HistoryClear
  <2> QED BY <2>1, FS_Interval
<1>3. Cc!Cardinality(DOMAIN sent_history \ gone) \in Nat
  <2>1. \A S : Cc!Cardinality(S) = Cardinality(S)
    BY DEF Cardinality, Cc!Cardinality
  <2>2. IsFiniteSet(DOMAIN sent_history \ gone)
    BY <1>2, FS_Subset
  <2> QED BY <2>1, <2>2, FS_CardinalityType
<1>4. order \in [1..Cc!Cardinality(DOMAIN sent_history \ gone) -> DOMAIN sent_history \ gone]
  BY <1>1 DEF Cc!SetToSeqs
<1>5. \A n \in DOMAIN order : order[n] \in DOMAIN sent_history
  BY <1>4
<1>6. sent_history' \in Seq(FrameRecord)
  <2>1. PICK n \in Nat : n = Cc!Cardinality(DOMAIN sent_history \ gone)
    BY <1>3
  <2>2. DOMAIN order = 1..n
    BY <1>4, <2>1
  <2>3. \A i \in DOMAIN sent_history : sent_history[i] \in FrameRecord
    BY <1>2
  <2>4. \A i \in 1..n : sent_history[order[i]] \in FrameRecord
    BY <1>5, <2>2, <2>3
  <2>5. sent_history' = [i \in 1..n |-> sent_history[order[i]]]
    BY <1>1, <2>2
  <2>6. sent_history' \in [1..n -> FrameRecord]
    BY <2>4, <2>5
  <2>7. n \in Nat
    BY <2>1
  <2>8. \A h : h \in [1..n -> FrameRecord] => h \in Seq(FrameRecord)
    BY <2>7
  <2> QED BY <2>6, <2>8
<1>7. \A i \in DOMAIN sent_history' : sent_history'[i].retries = 0 => ~Cc!Ambiguous(sent_history'[i])
  BY <1>1, <1>5 DEF HistoryClear
<1> QED BY <1>6, <1>7 DEF HistoryClear, Cc!Ambiguous

(* The quickest of the frames that are measured.                              *)
Quickest(acked) ==
  CHOOSE i \in Cc!Measurable(acked) :
    \A k \in Cc!Measurable(acked) : sent_history[i].age <= sent_history[k].age

LEMMA QuickestIsMeasured ==
  ASSUME HistoryClear, NEW acked \in SUBSET DOMAIN sent_history, Cc!Measurable(acked) # {}
  PROVE  /\ Quickest(acked) \in Cc!Measurable(acked)
         /\ sent_history[Quickest(acked)].age \in Nat
         /\ ~Cc!Ambiguous(sent_history[Quickest(acked)])
<1> DEFINE clear == Cc!Measurable(acked)
           ages == {sent_history[i].age : i \in clear}
<1>1. /\ clear \subseteq DOMAIN sent_history
      /\ \A i \in clear : sent_history[i].retries = 0
  BY DEF Cc!Measurable
<1>2. \A i \in clear : sent_history[i].age \in Nat
  <2>1. \A i \in DOMAIN sent_history : sent_history[i] \in FrameRecord
    BY DEF HistoryClear
  <2> QED BY <1>1, <2>1 DEF FrameRecord
<1> HIDE DEF clear
<1>3. ages \in SUBSET Nat /\ ages # {}
  <2>1. clear # {}
    BY DEF clear
  <2> QED BY <1>2, <2>1
<1>4. PICK age \in ages : \A other \in ages : age <= other
  BY <1>3, Least
<1>5. \E i \in clear : \A k \in clear : sent_history[i].age <= sent_history[k].age
  BY <1>4
<1>6. Quickest(acked) \in clear
  BY <1>5 DEF Quickest, clear
<1>7. ~Cc!Ambiguous(sent_history[Quickest(acked)])
  BY <1>1, <1>6 DEF HistoryClear
<1> QED BY <1>2, <1>6, <1>7 DEF clear

(* An acknowledgement, with a measure or without.                             *)
LEMMA AckStep ==
  ASSUME Cc!Valid, CongestionInv, Cc!AckArrives
  PROVE  CongestionInv'
<1>0. WindowTyped /\ HistoryClear /\ LossesReported /\ QueueEmpty /\ FromOneBurst /\ Mtu \in Nat \ {0}
  BY CongestionConstants DEF CongestionInv
<1>1. PICK acked \in SUBSET DOMAIN sent_history :
        /\ \/ Cc!OnAckNoRtt(Mtu * Cc!Cardinality(acked)) /\ UNCHANGED sampled
           \/ /\ Cc!Measurable(acked) # {}
              /\ Cc!OnAck(Mtu * Cc!Cardinality(acked), (sent_history[Quickest(acked)].age + 1) * Cc!Tick)
              /\ sampled' = IF Cc!Ambiguous(sent_history[Quickest(acked)]) THEN "ambiguous" ELSE sampled
        /\ sent_history' \in Cc!Without(acked)
        /\ UNCHANGED <<losses, loss_age, Cc!bucket, reports, isolated, released, allowed>>
  BY DEF Cc!AckArrives, Quickest
<1>2. UNCHANGED <<losses, loss_age, tokens, refill_age, reports, isolated, released, allowed>>
  BY <1>1 DEF Cc!bucket
<1> DEFINE bytes == Mtu * Cc!Cardinality(acked)
<1>3. bytes \in Nat
  <2>1. sent_history \in Seq(FrameRecord)
    BY <1>0 DEF HistoryClear
  <2>2. DOMAIN sent_history = 1..Len(sent_history) /\ Len(sent_history) \in Nat
    BY <2>1
  <2>6. IsFiniteSet(1..Len(sent_history))
    BY <2>2, FS_Interval
  <2>3. IsFiniteSet(acked)
    BY <2>2, <2>6, FS_Subset
  <2>4. Cc!Cardinality(acked) = Cardinality(acked)
    BY DEF Cardinality, Cc!Cardinality
  <2>5. Cc!Cardinality(acked) \in Nat
    BY <2>3, <2>4, FS_CardinalityType
  <2> QED BY <1>0, <2>5, Products
<1>4. /\ Cc!GrowWindow(bytes) /\ sampled' = "clean"
      /\ srtt' \in Int /\ min_rtt' \in Nat \ {0}
  <2>1. srtt \in Int /\ min_rtt \in Nat \ {0} /\ sampled = "clean"
    BY <1>0 DEF WindowTyped, HistoryClear
  <2>2. CASE Cc!OnAckNoRtt(bytes) /\ UNCHANGED sampled
    BY <2>1, <2>2 DEF Cc!OnAckNoRtt, Cc!estimate
  <2>3. CASE /\ Cc!Measurable(acked) # {}
             /\ Cc!OnAck(bytes, (sent_history[Quickest(acked)].age + 1) * Cc!Tick)
             /\ sampled' = IF Cc!Ambiguous(sent_history[Quickest(acked)]) THEN "ambiguous" ELSE sampled
    <3> DEFINE age == sent_history[Quickest(acked)].age
               rtt == (age + 1) * Cc!Tick
    <3>1. age \in Nat /\ ~Cc!Ambiguous(sent_history[Quickest(acked)])
      BY <1>0, <1>1, <2>3, QuickestIsMeasured
    <3>2. Cc!GrowWindow(bytes) /\ Cc!UpdateRtt(rtt)
      BY <2>3 DEF Cc!OnAck
    <3>3. sampled' = "clean"
      BY <2>1, <2>3, <3>1
    <3> HIDE DEF age
    <3>4. rtt \in Nat \ {0}
      BY <3>1 DEF Cc!Tick
    <3> HIDE DEF rtt, bytes
    <3>5. srtt' \in Int
      BY <2>1, <3>2, <3>4 DEF Cc!UpdateRtt, Cc!Filtered
    <3>6. min_rtt' \in Nat \ {0}
      BY <2>1, <3>2, <3>4 DEF Cc!UpdateRtt
    <3> QED BY <3>2, <3>3, <3>5, <3>6
  <2> QED BY <1>1, <2>2, <2>3
<1> HIDE DEF bytes
<1>5. /\ cwnd' \in Int /\ Cc!Floor <= cwnd' /\ cwnd' <= Cc!Ceiling
      /\ QueueEmpty' /\ (cc_phase' = "slow_start" => cc_phase = "slow_start")
  BY <1>0, <1>3, <1>4, GrowthKeeps
<1>6. WindowTyped'
  BY <1>0, <1>2, <1>4, <1>5 DEF WindowTyped, Cc!Floor, Cc!Ceiling
<1>7. HistoryClear'
  BY <1>0, <1>1, <1>4, LeftOver
<1>8. LossesReported'
  BY <1>0, <1>2, <1>5 DEF LossesReported
<1>9. FromOneBurst'
  BY <1>0, <1>2 DEF FromOneBurst
<1> QED BY <1>5, <1>6, <1>7, <1>8, <1>9 DEF CongestionInv

(* Frames that are sent again are not measured.                               *)
LEMMA AgainKeeps ==
  ASSUME HistoryClear, sampled' = sampled, DOMAIN sent_history' = DOMAIN sent_history,
         sent_history' \in Seq(FrameRecord),
         \A i \in DOMAIN sent_history :
           \/ sent_history'[i] = sent_history[i]
           \/ sent_history'[i] = Cc!Again(sent_history[i])
  PROVE  HistoryClear'
<1>1. \A i \in DOMAIN sent_history : sent_history[i] \in FrameRecord
  BY DEF HistoryClear
<1>2. \A i \in DOMAIN sent_history : Cc!Again(sent_history[i]).retries = 1
  BY <1>1 DEF Cc!Again, FrameRecord
<1>3. \A i \in DOMAIN sent_history' : sent_history'[i].retries = 0 => sent_history'[i] = sent_history[i]
  BY <1>2
<1>4. \A i \in DOMAIN sent_history' : sent_history'[i].retries = 0 => ~Cc!Ambiguous(sent_history'[i])
  BY <1>3 DEF HistoryClear
<1> QED BY <1>4 DEF HistoryClear, Cc!Ambiguous

LEMMA AgainTyped ==
  ASSUME Cc!Valid, NEW frame \in FrameRecord
  PROVE  Cc!Again(frame) \in FrameRecord /\ Cc!Moved(frame) \in FrameRecord
<1>1. MaxAge \in Nat
  BY CongestionConstants
<1> QED BY <1>1 DEF Cc!Again, Cc!Moved, FrameRecord

(* A report goes in front of those that are remembered.                       *)
LEMMA Remembered ==
  ASSUME reports \in Seq(Nat), LossTolerance \in Nat \ {0},
         reports' = SubSeq(<< 0 >> \o reports, 1, Cc!Smaller(Len(reports) + 1, LossTolerance))
  PROVE  /\ reports' \in Seq(Nat) /\ Len(reports') <= LossTolerance
         /\ Len(reports') <= Len(reports) + 1
         /\ Len(reports') = LossTolerance \/ Len(reports') = Len(reports) + 1
         /\ \A i \in 1..Len(reports') : reports'[i] = IF i = 1 THEN 0 ELSE reports[i - 1]
<1> DEFINE all == <<0>> \o reports
           most == Cc!Smaller(Len(reports) + 1, LossTolerance)
<1>1. Len(reports) \in Nat /\ <<0>> \in Seq(Nat) /\ Len(<<0>>) = 1
  OBVIOUS
<1>2. /\ most \in Nat \ {0} /\ most <= LossTolerance /\ most <= Len(reports) + 1
      /\ most = LossTolerance \/ most = Len(reports) + 1
  BY <1>1 DEF Cc!Smaller
<1>3. /\ all \in Seq(Nat) /\ Len(all) = Len(reports) + 1
      /\ \A i \in 1..Len(reports) + 1 : all[i] = IF i <= 1 THEN <<0>>[i] ELSE reports[i - 1]
  BY <1>1, ConcatProperties
<1> HIDE DEF all, most
<1>4. \A i \in 1..most : all[i] \in Nat
  BY <1>1, <1>2, <1>3
<1>5. /\ SubSeq(all, 1, most) \in Seq(Nat) /\ Len(SubSeq(all, 1, most)) = most
      /\ \A i \in 1..most : SubSeq(all, 1, most)[i] = all[i]
  BY <1>2, <1>4, SubSeqProperties
<1>6. reports' = SubSeq(all, 1, most)
  BY DEF all, most
<1>7. \A i \in 1..most : all[i] = IF i = 1 THEN 0 ELSE reports[i - 1]
  <2>1. \A i \in 1..most : i \in 1..Len(reports) + 1 /\ (i <= 1 <=> i = 1)
    BY <1>1, <1>2
  <2>2. <<0>>[1] = 0
    OBVIOUS
  <2> QED BY <1>3, <2>1, <2>2
<1> QED BY <1>2, <1>5, <1>6, <1>7

(* A loss: the window shrinks, and slow start ends for one too many.          *)
LEMMA LossKeeps ==
  ASSUME Cc!Valid, CongestionInv, Cc!OnLoss
  PROVE  WindowTyped' /\ LossesReported' /\ QueueEmpty' /\ FromOneBurst' /\ sampled' = sampled
<1>0. /\ WindowTyped /\ LossesReported /\ QueueEmpty /\ FromOneBurst
      /\ LossTolerance \in Nat \ {0} /\ LossWindow \in Nat
  BY CongestionConstants DEF CongestionInv
<1>1. UNCHANGED <<min_rtt, srtt, tokens, refill_age, sampled, released, allowed>>
  BY DEF Cc!OnLoss, Cc!estimate, Cc!bucket
<1>2. reports' = SubSeq(<<0>> \o reports, 1, Cc!Smaller(Len(reports) + 1, LossTolerance))
  BY DEF Cc!OnLoss
<1>3. reports \in Seq(Nat) /\ Len(reports) \in Nat
  BY <1>0 DEF LossesReported
<1>4. /\ reports' \in Seq(Nat) /\ Len(reports') <= LossTolerance
      /\ Len(reports') <= Len(reports) + 1
      /\ Len(reports') = LossTolerance \/ Len(reports') = Len(reports) + 1
      /\ \A i \in 1..Len(reports') : reports'[i] = IF i = 1 THEN 0 ELSE reports[i - 1]
  BY <1>0, <1>2, <1>3, Remembered
<1>5. cwnd' \in Int /\ Cc!Floor <= cwnd' /\ cwnd' <= Cc!Ceiling
  BY <1>0, WindowMoves DEF Cc!OnLoss
<1>6. losses \in Nat /\ loss_age \in Nat /\ ~isolated
  BY <1>0 DEF WindowTyped, LossesReported
<1>7. CASE cc_phase # "slow_start"
  <2>1. UNCHANGED <<cc_phase, losses, loss_age, isolated>>
    BY <1>7 DEF Cc!OnLoss
  <2>2. LossesReported' /\ QueueEmpty'
    BY <1>4, <1>6, <1>7, <2>1 DEF LossesReported, QueueEmpty
  <2> QED BY <1>0, <1>1, <1>5, <1>6, <2>1, <2>2 DEF WindowTyped, FromOneBurst, Cc!Floor, Cc!Ceiling
<1>8. CASE cc_phase = "slow_start"
  <2>1. losses' = Cc!Counted + 1 /\ loss_age' = IF loss_age > LossWindow THEN 0 ELSE loss_age
    BY <1>8 DEF Cc!OnLoss
  <2>2. /\ Cc!Counted \in Nat /\ Cc!Counted < LossTolerance /\ Cc!Counted <= Len(reports)
        /\ \A i \in 1..Cc!Counted : reports[i] <= loss_age'
        /\ loss_age' \in Nat /\ loss_age' <= LossWindow
    <3>1. CASE loss_age > LossWindow
      <4>1. Cc!Counted = 0 /\ loss_age' = 0
        BY <2>1, <3>1 DEF Cc!Counted
      <4> QED BY <1>0, <1>3, <4>1
    <3>2. CASE ~(loss_age > LossWindow)
      <4>1. Cc!Counted = losses /\ loss_age' = loss_age /\ loss_age <= LossWindow
        BY <1>0, <1>6, <2>1, <3>2 DEF Cc!Counted
      <4>2. losses < LossTolerance /\ losses <= Len(reports) /\ \A i \in 1..losses : reports[i] <= loss_age
        BY <1>0, <1>8, <4>1 DEF LossesReported
      <4> QED BY <1>6, <4>1, <4>2
    <3> QED BY <3>1, <3>2
  <2>3. losses' \in Nat /\ losses' <= LossTolerance /\ losses' <= Len(reports')
    BY <1>0, <1>3, <1>4, <2>1, <2>2
  <2>4. \A i \in 1..losses' : reports'[i] <= loss_age'
    <3>1. SUFFICES ASSUME NEW i \in 1..losses' PROVE reports'[i] <= loss_age'
      OBVIOUS
    <3>2. i \in 1..Len(reports') /\ reports'[i] = IF i = 1 THEN 0 ELSE reports[i - 1]
      BY <1>3, <1>4, <2>3
    <3>3. i # 1 => i - 1 \in 1..Cc!Counted
      BY <2>1, <2>2
    <3> QED BY <2>2, <3>2, <3>3
  <2>5. WindowTyped' /\ FromOneBurst'
    BY <1>0, <1>1, <1>5, <2>2, <2>3 DEF WindowTyped, FromOneBurst, Cc!Floor, Cc!Ceiling
  <2>6. CASE losses' >= LossTolerance
    <3>1. cc_phase' = "probe"
      BY <1>8, <2>6 DEF Cc!OnLoss
    <3>2. losses' = LossTolerance /\ Len(reports') = LossTolerance
      BY <1>0, <1>3, <1>4, <2>3, <2>6
    <3>3. \A i \in DOMAIN reports' : reports'[i] <= LossWindow
      <4>1. SUFFICES ASSUME NEW i \in DOMAIN reports' PROVE reports'[i] <= LossWindow
        OBVIOUS
      <4>2. i \in 1..losses' /\ reports'[i] \in Nat
        BY <1>4, <3>2
      <4>3. reports'[i] <= loss_age'
        BY <2>4, <4>2
      <4> QED BY <1>0, <2>2, <4>2, <4>3
    <3>4. Cc!Sustained(reports')
      BY <3>2, <3>3 DEF Cc!Sustained
    <3>5. isolated' = ~Cc!Sustained(reports')
      BY <1>8, <2>6 DEF Cc!OnLoss
    <3>6. ~isolated'
      BY <3>4, <3>5, Zenon
    <3>7. LossesReported' /\ QueueEmpty'
      BY <1>4, <3>1, <3>6 DEF LossesReported, QueueEmpty
    <3> QED BY <1>1, <2>5, <3>7
  <2>7. CASE ~(losses' >= LossTolerance)
    <3>1. UNCHANGED <<cc_phase, isolated>>
      BY <1>8, <2>7 DEF Cc!OnLoss
    <3>2. losses' < LossTolerance
      BY <1>0, <2>3, <2>7
    <3>3. LossesReported'
      BY <1>4, <1>6, <2>3, <2>4, <3>1, <3>2 DEF LossesReported
    <3>4. QueueEmpty'
      BY <1>0, <1>1, <3>1 DEF QueueEmpty
    <3> QED BY <1>1, <2>5, <3>3, <3>4
  <2> QED BY <2>6, <2>7
<1> QED BY <1>7, <1>8

LEMMA NackStep ==
  ASSUME Cc!Valid, CongestionInv, Cc!NackArrives
  PROVE  CongestionInv'
<1>1. WindowTyped' /\ LossesReported' /\ QueueEmpty' /\ FromOneBurst' /\ sampled' = sampled
  BY LossKeeps DEF Cc!NackArrives
<1>2. HistoryClear
  BY DEF CongestionInv
<1>3. HistoryClear'
  <2>1. CASE UNCHANGED sent_history
    BY <1>1, <1>2, <2>1 DEF HistoryClear, Cc!Ambiguous
  <2>2. CASE \E i \in DOMAIN sent_history : sent_history' = [sent_history EXCEPT ![i] = Cc!Again(@)]
    <3>1. PICK i \in DOMAIN sent_history : sent_history' = [sent_history EXCEPT ![i] = Cc!Again(@)]
      BY <2>2
    <3>2. sent_history \in Seq(FrameRecord) /\ sent_history[i] \in FrameRecord
      BY <1>2 DEF HistoryClear
    <3>3. Cc!Again(sent_history[i]) \in FrameRecord
      BY <3>2, AgainTyped
    <3>4. sent_history' \in Seq(FrameRecord) /\ DOMAIN sent_history' = DOMAIN sent_history
      BY <3>1, <3>2, <3>3
    <3>5. \A k \in DOMAIN sent_history :
            sent_history'[k] = sent_history[k] \/ sent_history'[k] = Cc!Again(sent_history[k])
      BY <3>1
    <3> QED BY <1>1, <1>2, <3>4, <3>5, AgainKeeps
  <2> QED BY <2>1, <2>2 DEF Cc!NackArrives
<1> QED BY <1>1, <1>3 DEF CongestionInv

LEMMA RetransmitStep ==
  ASSUME Cc!Valid, CongestionInv, Cc!Retransmit
  PROVE  CongestionInv'
<1>0. WindowTyped /\ HistoryClear /\ LossesReported /\ QueueEmpty /\ FromOneBurst
  BY DEF CongestionInv
<1>1. PICK due \in SUBSET DOMAIN sent_history :
        sent_history' = [i \in DOMAIN sent_history |->
                           IF i \in due THEN Cc!Again(sent_history[i]) ELSE sent_history[i]]
  BY DEF Cc!Retransmit
<1>2. /\ UNCHANGED <<cwnd, cc_phase, losses, loss_age>>
      /\ UNCHANGED <<min_rtt, srtt, tokens, refill_age, reports, isolated, sampled, released, allowed>>
  BY DEF Cc!Retransmit, Cc!window, Cc!estimate, Cc!bucket
<1>3. /\ DOMAIN sent_history' = DOMAIN sent_history
      /\ \A i \in DOMAIN sent_history :
           sent_history'[i] = sent_history[i] \/ sent_history'[i] = Cc!Again(sent_history[i])
  BY <1>1
<1>4. sent_history' \in Seq(FrameRecord)
  <2>1. sent_history \in Seq(FrameRecord)
    BY <1>0 DEF HistoryClear
  <2>2. \A i \in DOMAIN sent_history : sent_history[i] \in FrameRecord
    BY <2>1
  <2>3. \A i \in DOMAIN sent_history : Cc!Again(sent_history[i]) \in FrameRecord
    BY <2>2, AgainTyped
  <2>4. sent_history' \in [DOMAIN sent_history -> FrameRecord]
    BY <1>1, <2>2, <2>3
  <2>5. DOMAIN sent_history = 1..Len(sent_history) /\ Len(sent_history) \in Nat
    BY <2>1
  <2> QED BY <2>4, <2>5
<1>5. HistoryClear'
  BY <1>0, <1>2, <1>3, <1>4, AgainKeeps
<1>6. WindowTyped' /\ LossesReported' /\ QueueEmpty' /\ FromOneBurst'
  BY <1>0, <1>2 DEF WindowTyped, LossesReported, QueueEmpty, FromOneBurst, Cc!Floor, Cc!Ceiling
<1> QED BY <1>5, <1>6 DEF CongestionInv

(* Another path: what was sent on the one before is not measured.             *)
LEMMA PathChangeStep ==
  ASSUME Cc!Valid, CongestionInv, Cc!PathChange
  PROVE  CongestionInv'
<1>0. HistoryClear
  BY DEF CongestionInv
<1>1. sent_history' = [i \in DOMAIN sent_history |-> Cc!Moved(sent_history[i])] /\ sampled' = sampled
  BY DEF Cc!PathChange
<1>2. cc_phase' = "slow_start" /\ srtt' = 0 /\ losses' = 0 /\ loss_age' = 0
  BY DEF Cc!PathChange, Cc!Fresh
<1>3. refill_age' = 0 /\ released' = 0 /\ allowed' = 0 /\ reports' = <<>>
  BY DEF Cc!PathChange, Cc!Fresh
<1>4. ~isolated'
  BY Zenon DEF Cc!PathChange, Cc!Fresh
<1> DEFINE initial == InitialPackets * Mtu
           rtt == InitialRtt * Cc!Tick
<1>5. /\ initial \in Nat /\ Cc!Floor <= initial /\ initial <= Cc!Ceiling /\ rtt \in Nat \ {0}
      /\ LossTolerance \in Nat \ {0} /\ Mtu \in Nat \ {0}
  BY CongestionConstants DEF Cc!Tick
<1>6. cwnd' = initial /\ tokens' = initial /\ min_rtt' = rtt
  BY DEF Cc!PathChange, Cc!Fresh
<1> HIDE DEF initial, rtt
<1>7. WindowTyped'
  BY <1>2, <1>3, <1>5, <1>6 DEF WindowTyped, Cc!Floor, Cc!Ceiling
<1>8. HistoryClear'
  <2>1. sent_history \in Seq(FrameRecord) /\ \A i \in DOMAIN sent_history : sent_history[i] \in FrameRecord
    BY <1>0 DEF HistoryClear
  <2>2. \A i \in DOMAIN sent_history : Cc!Moved(sent_history[i]) \in FrameRecord
    BY <2>1, AgainTyped
  <2>3. sent_history' \in [DOMAIN sent_history -> FrameRecord]
    BY <1>1, <2>2
  <2>4. DOMAIN sent_history = 1..Len(sent_history) /\ Len(sent_history) \in Nat
    BY <2>1
  <2>5. sent_history' \in Seq(FrameRecord)
    BY <2>3, <2>4
  <2>6. \A i \in DOMAIN sent_history' : sent_history'[i].retries = 0 => ~Cc!Ambiguous(sent_history'[i])
    <3>1. SUFFICES ASSUME NEW i \in DOMAIN sent_history, sent_history'[i].retries = 0
                   PROVE  ~Cc!Ambiguous(sent_history'[i])
      BY <2>3
    <3> DEFINE frame == sent_history[i]
    <3>2. frame \in FrameRecord /\ sent_history'[i] = Cc!Moved(frame)
      BY <1>1, <2>1
    <3>3. frame.retries = 0 => ~Cc!Ambiguous(frame)
      BY <1>0 DEF HistoryClear
    <3> HIDE DEF frame
    <3>4. ~frame.again /\ Cc!Moved(frame) = [frame EXCEPT !.moved = TRUE]
      BY <3>1, <3>2 DEF Cc!Moved, FrameRecord
    <3>5. frame.retries = 0 /\ ~(frame.copies > 1)
      BY <3>1, <3>2, <3>3, <3>4 DEF FrameRecord, Cc!Ambiguous
    <3> QED BY <3>2, <3>4, <3>5 DEF FrameRecord, Cc!Ambiguous
  <2>7. sampled' = "clean"
    BY <1>0, <1>1 DEF HistoryClear
  <2> QED BY <2>5, <2>6, <2>7 DEF HistoryClear, Cc!Ambiguous
<1>9. LossesReported'
  BY <1>2, <1>3, <1>4, <1>5 DEF LossesReported
<1>10. QueueEmpty'
  BY <1>2, <1>5, <1>6 DEF QueueEmpty
<1>11. FromOneBurst'
  BY <1>3, <1>5 DEF FromOneBurst
<1> QED BY <1>7, <1>8, <1>9, <1>10, <1>11 DEF CongestionInv

(* Time passes: the losses that count, and what was reported, grow old alike. *)
LEMMA ElapseStep ==
  ASSUME Cc!Valid, CongestionInv, Cc!Elapse
  PROVE  CongestionInv'
<1>0. /\ WindowTyped /\ HistoryClear /\ LossesReported /\ QueueEmpty
      /\ LossTolerance \in Nat \ {0} /\ Mtu \in Nat \ {0}
      /\ LossWindow \in Nat /\ MaxAge \in Nat
  BY CongestionConstants DEF CongestionInv
<1>1. sent_history' = [i \in DOMAIN sent_history |->
                         [sent_history[i] EXCEPT !.age = Cc!Older(sent_history[i].age, MaxAge)]]
  BY DEF Cc!Elapse
<1>2. UNCHANGED <<cwnd, cc_phase, losses, min_rtt, srtt, tokens, isolated, sampled>>
  BY DEF Cc!Elapse
<1>3. /\ loss_age' = Cc!Older(loss_age, LossWindow + 1) /\ refill_age' = Cc!Older(refill_age, MaxAge)
      /\ released' = 0 /\ allowed' = 0
  BY DEF Cc!Elapse
<1>4. reports' = [i \in DOMAIN reports |-> Cc!Older(reports[i], LossWindow + 1)]
  BY DEF Cc!Elapse
<1>5. \A age, most \in Nat :
        /\ Cc!Older(age, most) \in Nat /\ Cc!Older(age, most) <= age + 1
        /\ Cc!Older(age, most) < most => Cc!Older(age, most) = age + 1
  BY DEF Cc!Older, Cc!Smaller
<1>6. WindowTyped'
  <2>1. loss_age' \in Nat /\ refill_age' \in Nat
    BY <1>0, <1>3, <1>5 DEF WindowTyped
  <2> QED BY <1>0, <1>2, <1>3, <2>1 DEF WindowTyped, Cc!Floor, Cc!Ceiling
<1>7. HistoryClear'
  <2>1. sent_history \in Seq(FrameRecord) /\ \A i \in DOMAIN sent_history : sent_history[i] \in FrameRecord
    BY <1>0 DEF HistoryClear
  <2>2. \A frame \in FrameRecord :
          LET older == [frame EXCEPT !.age = Cc!Older(frame.age, MaxAge)]
          IN /\ older \in FrameRecord /\ older.retries = frame.retries
             /\ older.copies = frame.copies /\ older.moved = frame.moved /\ older.again = frame.again
    BY <1>0, <1>5 DEF FrameRecord
  <2>3. sent_history' \in [DOMAIN sent_history -> FrameRecord]
    BY <1>1, <2>1, <2>2
  <2>4. DOMAIN sent_history = 1..Len(sent_history) /\ Len(sent_history) \in Nat
    BY <2>1
  <2>5. sent_history' \in Seq(FrameRecord)
    BY <2>3, <2>4
  <2>6. \A i \in DOMAIN sent_history' : sent_history'[i].retries = 0 => ~Cc!Ambiguous(sent_history'[i])
    <3>1. SUFFICES ASSUME NEW i \in DOMAIN sent_history, sent_history'[i].retries = 0
                   PROVE  ~Cc!Ambiguous(sent_history'[i])
      BY <2>3
    <3>2. /\ sent_history'[i].retries = sent_history[i].retries
          /\ sent_history'[i].copies = sent_history[i].copies
          /\ sent_history'[i].moved = sent_history[i].moved
          /\ sent_history'[i].again = sent_history[i].again
      BY <1>1, <2>1, <2>2
    <3>3. ~Cc!Ambiguous(sent_history[i])
      BY <1>0, <3>1, <3>2 DEF HistoryClear
    <3> QED BY <3>2, <3>3 DEF Cc!Ambiguous
  <2> QED BY <1>0, <1>2, <2>5, <2>6 DEF HistoryClear, Cc!Ambiguous
<1>8. LossesReported'
  <2>1. reports \in Seq(Nat) /\ Len(reports) <= LossTolerance /\ ~isolated
    BY <1>0 DEF LossesReported
  <2>2. LossWindow + 1 \in Nat /\ losses \in Nat /\ loss_age \in Nat
    BY <1>0 DEF WindowTyped
  <2>3. reports' \in [1..Len(reports) -> Nat] /\ Len(reports) \in Nat
    <3>1. DOMAIN reports = 1..Len(reports) /\ Len(reports) \in Nat /\ \A i \in DOMAIN reports : reports[i] \in Nat
      BY <2>1
    <3>2. \A i \in DOMAIN reports : Cc!Older(reports[i], LossWindow + 1) \in Nat
      BY <1>5, <2>2, <3>1
    <3> QED BY <1>4, <3>1, <3>2
  <2>4. reports' \in Seq(Nat) /\ Len(reports') = Len(reports)
    BY <2>3
  <2>5. ~isolated'
    BY <1>2, <2>1
  <2>6. ASSUME cc_phase' = "slow_start", loss_age' <= LossWindow
        PROVE  losses' < LossTolerance /\ losses' <= Len(reports') /\ \A i \in 1..losses' : reports'[i] <= loss_age'
    <3>1. loss_age' = loss_age + 1 /\ loss_age <= LossWindow
      <4>1. Cc!Older(loss_age, LossWindow + 1) < LossWindow + 1
        BY <1>3, <1>5, <2>2, <2>6, <1>0
      <4>2. loss_age' = loss_age + 1
        BY <1>3, <1>5, <2>2, <4>1
      <4> QED BY <1>0, <2>2, <2>6, <4>2
    <3>2. losses < LossTolerance /\ losses <= Len(reports) /\ \A i \in 1..losses : reports[i] <= loss_age
      BY <1>0, <1>2, <2>6, <3>1 DEF LossesReported
    <3>3. ASSUME NEW i \in 1..losses PROVE reports'[i] <= loss_age'
      <4>1. i \in DOMAIN reports /\ reports[i] \in Nat /\ reports[i] <= loss_age
        BY <2>1, <2>2, <3>2
      <4>2. reports'[i] = Cc!Older(reports[i], LossWindow + 1)
        BY <1>4, <4>1
      <4>3. reports'[i] \in Nat /\ reports'[i] <= reports[i] + 1
        BY <1>5, <2>2, <4>1, <4>2
      <4> QED BY <2>2, <3>1, <4>1, <4>3
    <3> QED BY <1>2, <2>4, <3>2, <3>3
  <2> QED BY <2>1, <2>4, <2>5, <2>6 DEF LossesReported
<1>9. QueueEmpty'
  BY <1>0, <1>2 DEF QueueEmpty
<1>10. FromOneBurst'
  BY <1>0, <1>3 DEF FromOneBurst
<1> QED BY <1>6, <1>7, <1>8, <1>9, <1>10 DEF CongestionInv

LEMMA CongestionInvStep ==
  ASSUME Cc!Valid, CongestionInv, Cc!Next \/ UNCHANGED congestion
  PROVE  CongestionInv'
<1>1. CASE UNCHANGED congestion
  <2>1. /\ UNCHANGED <<cwnd, cc_phase, min_rtt, srtt, losses, loss_age, tokens, refill_age>>
        /\ UNCHANGED <<sent_history, reports, isolated, sampled, released, allowed>>
    BY <1>1 DEF congestion
  <2> QED BY <2>1 DEF CongestionInv, WindowTyped, HistoryClear, LossesReported, QueueEmpty, FromOneBurst,
        Cc!Floor, Cc!Ceiling, Cc!Ambiguous
<1>2. CASE Cc!Next
  BY <1>2, SendSteps, AckStep, NackStep, RetransmitStep, PathChangeStep, ElapseStep DEF Cc!Next
<1> QED BY <1>1, <1>2

LEMMA CongestionInvSound ==
  ASSUME Cc!Valid, CongestionInv
  PROVE  CongestionSound
<1>1. Cc!WindowBounded
  <2>1. cwnd \in Int /\ Cc!Floor <= cwnd /\ cwnd <= Cc!Ceiling /\ Cc!Floor \in Int /\ Cc!Ceiling \in Int
    BY CongestionConstants DEF CongestionInv, WindowTyped
  <2> QED BY <2>1 DEF Cc!WindowBounded
<1>2. Cc!SlowStartEnds
  BY DEF CongestionInv, LossesReported, QueueEmpty, Cc!SlowStartEnds
<1>3. Cc!SamplesAreClear
  BY DEF CongestionInv, HistoryClear, Cc!SamplesAreClear
<1>4. Cc!Paced
  BY DEF CongestionInv, FromOneBurst, Cc!Paced
<1> QED BY <1>1, <1>2, <1>3, <1>4 DEF CongestionSound, Cc!CongestionSound

(* For any limits, and whatever is acknowledged, lost, sent again or moved to *)
(* another path: the window keeps between its floor and its ceiling; slow     *)
(* start ends over a queue, and for losses only when as many as are tolerated *)
(* came within the window; no sample is of a frame that went out twice or     *)
(* another way; and a tick releases one burst at most                         *)
(* (ostp-core/src/congestion.rs as protocol.rs drives it).                    *)
THEOREM CongestionIsSound == PartsSpec => []CongestionSound
<1>1. PartsInit => CongestionInv
  BY SafetyAssumption, CongestionInvInit DEF PartsInit
<1>2. CongestionInv /\ [PartsNext]_partsVars => CongestionInv'
  BY SafetyAssumption, CongestionInvStep DEF PartsNext, partsVars
<1>3. CongestionInv => CongestionSound
  BY SafetyAssumption, CongestionInvSound
<1> QED BY <1>1, <1>2, <1>3, PTL DEF PartsSpec

--------------------------------------------------------------------------------
(* The traffic counters.                                                      *)

Tally == UNION {[S -> Nat] : S \in SUBSET Users}
InodeRecord == [whole : BOOLEAN, counters : Tally]
WriterRecord == [at : {"idle", "open", "write", "rename"}, body : Tally, inode : 0..4]

(* No inode has both names.                                                   *)
TrafficTyped ==
  /\ process \in {"up", "stopping", "down"} /\ keys \subseteq Users
  /\ user_stats \in Tally
  /\ inodes \in [Bytes!Inodes -> InodeRecord]
  /\ file \in 0..4 /\ tmp \in 0..4 /\ (file = tmp => file = 0)
  /\ writers \in [Bytes!Writers -> WriterRecord]
  /\ promised \in [Users -> Nat]

(* Two write at a time only after a stop that met a periodic write.           *)
Alone ==
  /\ process = "up" => writers["final"].at = "idle"
  /\ process = "stopping" /\ ~spoiled => writers["periodic"].at = "idle"
  /\ process = "down" => \A w \in Bytes!Writers : writers[w].at = "idle"
  /\ \A w \in Bytes!Writers : writers[w].at \in {"idle", "open"} => writers[w].inode = 0

(* A writer that is alone has the temporary file, and what it is about to     *)
(* rename is what it wrote.                                                   *)
InPlace(w) ==
  /\ writers[w].at \in {"write", "rename"} => tmp # 0 /\ writers[w].inode = tmp
  /\ writers[w].at = "rename" => inodes[tmp].whole /\ inodes[tmp].counters = writers[w].body

Placed ==
  /\ process = "up" => InPlace("periodic")
  /\ process = "stopping" /\ ~spoiled => InPlace("final")

(* Who is in the config has a counter, and nothing is owed to anyone else.    *)
Enrolled ==
  process # "down" => DOMAIN user_stats = keys /\ \A u \in Users \ keys : promised[u] = 0

(* A periodic write is behind the counters.  The last one has them all, or    *)
(* has brought them to the file.                                              *)
Copied ==
  /\ process = "up" /\ writers["periodic"].at # "idle" =>
       /\ keys \subseteq DOMAIN writers["periodic"].body
       /\ \A u \in keys : writers["periodic"].body[u] <= user_stats[u]
  /\ process = "stopping" /\ ~spoiled =>
       IF writers["final"].at # "idle" THEN writers["final"].body = user_stats
       ELSE \A u \in Users : Bytes!Counted(user_stats, u) <= Bytes!Counted(Bytes!Saved, u)

TrafficInv == TrafficTyped /\ Alone /\ Placed /\ Enrolled /\ Copied /\ TrafficSound

LEMMA Tallies ==
  \A c : c \in Tally <=> DOMAIN c \subseteq Users /\ c \in [DOMAIN c -> Nat]
BY DEF Tally

LEMMA CountedTyped ==
  /\ \A c \in Tally : \A u : Bytes!Counted(c, u) \in Nat
  /\ Bytes!Nobody \in Tally /\ \A u : Bytes!Counted(Bytes!Nobody, u) = 0
<1>1. \A c \in Tally : \A u : Bytes!Counted(c, u) \in Nat
  BY Tallies DEF Bytes!Counted
<1>2. DOMAIN Bytes!Nobody = {} /\ Bytes!Nobody \in [{} -> Nat]
  BY DEF Bytes!Nobody
<1>3. Bytes!Nobody \in Tally
  BY <1>2, Tallies
<1> QED BY <1>1, <1>2, <1>3 DEF Bytes!Counted

LEMMA SavedTyped ==
  ASSUME TrafficTyped
  PROVE  Bytes!Saved \in Tally
<1>1. file # 0 => inodes[file].counters \in Tally
  BY DEF TrafficTyped, Bytes!Inodes, InodeRecord
<1> QED BY <1>1, CountedTyped DEF Bytes!Saved

LEMMA TrafficInvInit ==
  ASSUME Bytes!Init
  PROVE  TrafficInv
<1>1. process = "up" /\ keys = Users /\ user_stats = [u \in Users |-> 0] /\ file = 0 /\ tmp = 0
  BY DEF Bytes!Init
<1>2. promised = [u \in Users |-> 0]
  BY DEF Bytes!Init
<1>3. \A w \in Bytes!Writers : writers[w] = Bytes!Idle
  BY DEF Bytes!Init
<1>4. Bytes!Idle \in WriterRecord /\ Bytes!Idle.at = "idle" /\ Bytes!Idle.inode = 0
  BY CountedTyped DEF Bytes!Idle, WriterRecord
<1>5. TrafficTyped
  <2>1. Bytes!Half \in InodeRecord
    BY CountedTyped DEF Bytes!Half, InodeRecord
  <2>2. inodes \in [Bytes!Inodes -> InodeRecord]
    BY <2>1 DEF Bytes!Init
  <2>3. writers \in [Bytes!Writers -> WriterRecord]
    BY <1>4 DEF Bytes!Init
  <2>4. user_stats \in Tally
    BY <1>1, Tallies
  <2> QED BY <1>1, <1>2, <2>2, <2>3, <2>4 DEF TrafficTyped
<1>6. "periodic" \in Bytes!Writers /\ "final" \in Bytes!Writers
  BY DEF Bytes!Writers
<1>7. Alone
  BY <1>1, <1>3, <1>4, <1>6 DEF Alone
<1>8. Placed
  BY <1>1, <1>3, <1>4, <1>6 DEF Placed, InPlace
<1>9. Enrolled
  BY <1>1 DEF Enrolled
<1>10. Copied
  BY <1>1, <1>3, <1>4, <1>6 DEF Copied
<1>11. TrafficSound
  <2>1. \A u \in Users : promised[u] = 0 /\ Bytes!Counted(user_stats, u) = 0
    BY <1>1, <1>2 DEF Bytes!Counted
  <2>2. \A u : Bytes!Counted(Bytes!Saved, u) = 0
    BY <1>1, CountedTyped DEF Bytes!Saved
  <2> QED BY <1>1, <2>1, <2>2 DEF TrafficSound, Bytes!TrafficSound, Bytes!FileSound, Bytes!NoFreshStart
<1> QED BY <1>5, <1>7, <1>8, <1>9, <1>10, <1>11 DEF TrafficInv

(* What is known of a step, conjunct by conjunct.                             *)
LEMMA TrafficFacts ==
  ASSUME TrafficInv
  PROVE  /\ TrafficTyped /\ Alone /\ Placed /\ Enrolled /\ Copied
         /\ Bytes!FileSound /\ Bytes!NoFreshStart
         /\ "periodic" \in Bytes!Writers /\ "final" \in Bytes!Writers
         /\ \A w \in Bytes!Writers : w = "periodic" \/ w = "final"
         /\ \A w \in Bytes!Writers : writers[w] \in WriterRecord
BY DEF TrafficInv, TrafficTyped, TrafficSound, Bytes!TrafficSound, Bytes!Writers

(* A byte is counted.                                                         *)
LEMMA CountStep ==
  ASSUME TrafficInv, NEW u \in Users, Bytes!Count(u)
  PROVE  TrafficInv'
<1>1. process = "up" /\ u \in keys /\ user_stats' = [user_stats EXCEPT ![u] = @ + 1]
  BY DEF Bytes!Count
<1>2. /\ UNCHANGED <<process, keys, inodes, file, tmp>>
      /\ UNCHANGED <<writers, promised, spoiled>>
  BY DEF Bytes!Count, Bytes!files, Bytes!history
<1>3. DOMAIN user_stats = keys /\ user_stats \in [keys -> Nat] /\ keys \subseteq Users
  BY <1>1, TrafficFacts, Tallies DEF TrafficTyped, Enrolled
<1>4. /\ DOMAIN user_stats' = keys /\ user_stats' \in [keys -> Nat]
      /\ \A v \in keys : user_stats[v] <= user_stats'[v]
  BY <1>1, <1>3
<1>5. TrafficTyped'
  <2>1. user_stats' \in Tally
    BY <1>3, <1>4, Tallies
  <2> QED BY <1>2, <2>1, TrafficFacts DEF TrafficTyped, Bytes!Inodes, Bytes!Writers
<1>6. Alone' /\ Placed'
  BY <1>2, TrafficFacts DEF Alone, Placed, InPlace, Bytes!Writers
<1>7. Enrolled'
  BY <1>1, <1>2, <1>4, TrafficFacts DEF Enrolled
<1>8. Copied'
  <2>1. SUFFICES ASSUME writers["periodic"].at # "idle"
                 PROVE  /\ keys \subseteq DOMAIN writers["periodic"].body
                        /\ \A v \in keys : writers["periodic"].body[v] <= user_stats'[v]
    BY <1>1, <1>2 DEF Copied
  <2>2. /\ keys \subseteq DOMAIN writers["periodic"].body
        /\ \A v \in keys : writers["periodic"].body[v] <= user_stats[v]
    BY <1>1, <2>1, TrafficFacts DEF Copied
  <2>3. writers["periodic"].body \in Tally
    BY TrafficFacts DEF WriterRecord
  <2>4. \A v \in keys : writers["periodic"].body[v] \in Nat
    BY <2>2, <2>3, Tallies
  <2> QED BY <1>3, <1>4, <2>2, <2>4
<1>9. Bytes!FileSound'
  BY <1>2, TrafficFacts DEF Bytes!FileSound, Bytes!Saved, Bytes!Counted, Bytes!Nobody
<1>10. Bytes!NoFreshStart'
  <2>1. ASSUME ~spoiled', NEW v \in keys
        PROVE  promised[v] <= user_stats'[v]
    <3>1. promised[v] <= user_stats[v]
      BY <1>1, <1>2, <1>3, <2>1, TrafficFacts DEF Bytes!NoFreshStart, Bytes!Counted
    <3>2. promised[v] \in Nat
      BY <1>3, TrafficFacts DEF TrafficTyped
    <3> QED BY <1>3, <1>4, <3>1, <3>2
  <2> QED BY <1>2, <1>4, <2>1 DEF Bytes!NoFreshStart, Bytes!Counted
<1> QED BY <1>5, <1>6, <1>7, <1>8, <1>9, <1>10 DEF TrafficInv, TrafficSound, Bytes!TrafficSound

(* A user leaves.                                                             *)
LEMMA RemoveStep ==
  ASSUME TrafficInv, NEW u \in Users, Bytes!Remove(u)
  PROVE  TrafficInv'
<1>1. /\ process = "up" /\ u \in keys /\ keys' = keys \ {u}
      /\ user_stats' = [v \in DOMAIN user_stats \ {u} |-> user_stats[v]]
      /\ promised' = [promised EXCEPT ![u] = 0]
  BY DEF Bytes!Remove
<1>2. /\ UNCHANGED <<process, inodes, file, tmp>>
      /\ UNCHANGED <<writers, spoiled>>
  BY DEF Bytes!Remove, Bytes!files
<1>3. /\ DOMAIN user_stats = keys /\ user_stats \in [keys -> Nat] /\ keys \subseteq Users
      /\ promised \in [Users -> Nat] /\ \A v \in Users \ keys : promised[v] = 0
  BY <1>1, TrafficFacts, Tallies DEF TrafficTyped, Enrolled
<1>4. /\ DOMAIN user_stats' = keys' /\ user_stats' \in [keys' -> Nat]
      /\ \A v \in keys' : v \in keys /\ user_stats'[v] = user_stats[v]
  BY <1>1, <1>3
<1>a. /\ promised' \in [Users -> Nat] /\ promised'[u] = 0
      /\ \A v \in Users : v # u => promised'[v] = promised[v]
  BY <1>1, <1>3
<1>5. TrafficTyped'
  <2>1. user_stats' \in Tally
    BY <1>1, <1>3, <1>4, Tallies
  <2> QED BY <1>1, <1>2, <1>a, <2>1, TrafficFacts DEF TrafficTyped, Bytes!Inodes, Bytes!Writers
<1>6. Alone' /\ Placed'
  BY <1>2, TrafficFacts DEF Alone, Placed, InPlace, Bytes!Writers
<1>7. Enrolled'
  BY <1>1, <1>3, <1>4, <1>a DEF Enrolled
<1>8. Copied'
  BY <1>1, <1>2, <1>4, TrafficFacts DEF Copied
<1>9. Bytes!FileSound'
  <2>1. \A v : Bytes!Counted(Bytes!Saved, v) \in Nat
    BY SavedTyped, CountedTyped, TrafficFacts
  <2>2. Bytes!Saved' = Bytes!Saved
    BY <1>2 DEF Bytes!Saved, Bytes!Nobody
  <2>3. ASSUME ~spoiled', NEW v \in Users
        PROVE  promised'[v] <= Bytes!Counted(Bytes!Saved, v)
    <3>1. promised[v] <= Bytes!Counted(Bytes!Saved, v)
      BY <1>2, <2>3, TrafficFacts DEF Bytes!FileSound
    <3> QED BY <1>a, <2>1, <3>1
  <2>4. ~spoiled' => (file' # 0 => inodes'[file'].whole)
    BY <1>2, TrafficFacts DEF Bytes!FileSound
  <2> QED BY <2>2, <2>3, <2>4 DEF Bytes!FileSound, Bytes!Counted
<1>10. Bytes!NoFreshStart'
  <2>1. ASSUME ~spoiled', NEW v \in keys'
        PROVE  promised'[v] <= user_stats'[v]
    <3>1. promised[v] <= user_stats[v]
      BY <1>1, <1>2, <1>3, <2>1, TrafficFacts DEF Bytes!NoFreshStart, Bytes!Counted
    <3> QED BY <1>1, <1>3, <1>4, <1>a, <2>1, <3>1
  <2> QED BY <1>2, <1>4, <2>1 DEF Bytes!NoFreshStart, Bytes!Counted
<1> QED BY <1>5, <1>6, <1>7, <1>8, <1>9, <1>10 DEF TrafficInv, TrafficSound, Bytes!TrafficSound

(* A write begins with a copy of the counters.                                *)
LEMMA BeginWrites ==
  ASSUME TrafficTyped, NEW w \in Bytes!Writers, Bytes!Begin(w)
  PROVE  /\ writers' \in [Bytes!Writers -> WriterRecord]
         /\ writers'[w] = [at |-> "open", body |-> user_stats, inode |-> 0]
         /\ \A v \in Bytes!Writers : v # w => writers'[v] = writers[v]
<1>1. user_stats \in Tally /\ writers \in [Bytes!Writers -> WriterRecord]
  BY DEF TrafficTyped
<1>2. [at |-> "open", body |-> user_stats, inode |-> 0] \in WriterRecord
  BY <1>1 DEF WriterRecord
<1> QED BY <1>1, <1>2 DEF Bytes!Begin

LEMMA StatsTickStep ==
  ASSUME TrafficInv, Bytes!StatsTick
  PROVE  TrafficInv'
<1>1. process = "up" /\ Bytes!Begin("periodic")
  BY DEF Bytes!StatsTick
<1>2. /\ UNCHANGED <<process, keys, user_stats, inodes, file, tmp>>
      /\ UNCHANGED <<promised, spoiled>>
  BY DEF Bytes!StatsTick, Bytes!files, Bytes!history
<1>3. /\ writers' \in [Bytes!Writers -> WriterRecord]
      /\ writers'["periodic"] = [at |-> "open", body |-> user_stats, inode |-> 0]
      /\ writers'["final"] = writers["final"]
  BY <1>1, BeginWrites, TrafficFacts
<1>4. TrafficTyped'
  BY <1>2, <1>3, TrafficFacts DEF TrafficTyped, Bytes!Inodes, Bytes!Writers
<1>5. Alone'
  BY <1>1, <1>2, <1>3, TrafficFacts DEF Alone, Bytes!Writers
<1>6. Placed'
  BY <1>1, <1>2, <1>3 DEF Placed, InPlace
<1>7. Enrolled'
  BY <1>2, TrafficFacts DEF Enrolled
<1>8. Copied'
  <2>1. DOMAIN user_stats = keys /\ user_stats \in [keys -> Nat]
    BY <1>1, TrafficFacts, Tallies DEF TrafficTyped, Enrolled
  <2> QED BY <1>1, <1>2, <1>3, <2>1 DEF Copied
<1>9. Bytes!FileSound' /\ Bytes!NoFreshStart'
  BY <1>2, TrafficFacts DEF Bytes!FileSound, Bytes!NoFreshStart, Bytes!Saved, Bytes!Counted, Bytes!Nobody
<1> QED BY <1>4, <1>5, <1>6, <1>7, <1>8, <1>9 DEF TrafficInv, TrafficSound, Bytes!TrafficSound

(* A stop begins the last write.                                              *)
LEMMA StopStep ==
  ASSUME TrafficInv, Bytes!Stop
  PROVE  TrafficInv'
<1>1. process = "up" /\ process' = "stopping" /\ Bytes!Begin("final")
  BY DEF Bytes!Stop, Bytes!FinalWrite
<1>2. /\ UNCHANGED <<keys, user_stats, inodes, file, tmp>>
      /\ UNCHANGED promised
  BY DEF Bytes!Stop, Bytes!files
<1>3. /\ writers' \in [Bytes!Writers -> WriterRecord]
      /\ writers'["final"] = [at |-> "open", body |-> user_stats, inode |-> 0]
      /\ writers'["periodic"] = writers["periodic"]
  BY <1>1, BeginWrites, TrafficFacts
<1>s. spoiled' = (spoiled \/ writers["periodic"].at # "idle")
  BY DEF Bytes!Stop
<1>a. ~spoiled' => ~spoiled /\ writers["periodic"].at = "idle"
  BY <1>s, Zenon
<1>4. TrafficTyped'
  BY <1>1, <1>2, <1>3, TrafficFacts DEF TrafficTyped, Bytes!Inodes, Bytes!Writers
<1>5. Alone'
  BY <1>1, <1>3, <1>a, TrafficFacts DEF Alone, Bytes!Writers
<1>6. Placed'
  BY <1>1, <1>3 DEF Placed, InPlace
<1>7. Enrolled'
  BY <1>1, <1>2, TrafficFacts DEF Enrolled
<1>8. Copied'
  BY <1>1, <1>2, <1>3 DEF Copied
<1>9. Bytes!FileSound'
  BY <1>2, <1>a, TrafficFacts DEF Bytes!FileSound, Bytes!Saved, Bytes!Counted, Bytes!Nobody
<1>10. Bytes!NoFreshStart'
  BY <1>1, <1>2, <1>a, TrafficFacts DEF Bytes!NoFreshStart, Bytes!Counted
<1> QED BY <1>4, <1>5, <1>6, <1>7, <1>8, <1>9, <1>10 DEF TrafficInv, TrafficSound, Bytes!TrafficSound

(* The process is gone, after its writes.                                     *)
LEMMA ExitStep ==
  ASSUME TrafficInv, Bytes!Exit
  PROVE  TrafficInv'
<1>1. /\ process = "stopping" /\ process' = "down"
      /\ \A w \in Bytes!Writers : writers[w].at = "idle"
      /\ promised' = [u \in Users |-> Bytes!Counted(user_stats, u)]
      /\ user_stats' = Bytes!Nobody
  BY DEF Bytes!Exit
<1>2. /\ UNCHANGED <<keys, inodes, file, tmp>>
      /\ UNCHANGED <<writers, spoiled>>
  BY DEF Bytes!Exit, Bytes!files
<1>3. promised' \in [Users -> Nat] /\ user_stats' \in Tally
  <2>1. \A u : Bytes!Counted(user_stats, u) \in Nat
    BY CountedTyped, TrafficFacts DEF TrafficTyped
  <2> QED BY <1>1, <2>1, CountedTyped
<1>4. TrafficTyped'
  BY <1>1, <1>2, <1>3, TrafficFacts DEF TrafficTyped, Bytes!Inodes, Bytes!Writers
<1>5. Alone'
  BY <1>1, <1>2, TrafficFacts DEF Alone, Bytes!Writers
<1>6. Placed' /\ Enrolled' /\ Copied' /\ Bytes!NoFreshStart'
  BY <1>1 DEF Placed, Enrolled, Copied, Bytes!NoFreshStart
<1>7. Bytes!FileSound'
  <2>1. Bytes!Saved' = Bytes!Saved
    BY <1>2 DEF Bytes!Saved, Bytes!Nobody
  <2>2. ASSUME ~spoiled', NEW u \in Users
        PROVE  promised'[u] <= Bytes!Counted(Bytes!Saved, u)
    BY <1>1, <1>2, <2>2, TrafficFacts DEF Copied
  <2>3. ~spoiled' => (file' # 0 => inodes'[file'].whole)
    BY <1>2, TrafficFacts DEF Bytes!FileSound
  <2> QED BY <2>1, <2>2, <2>3 DEF Bytes!FileSound, Bytes!Counted
<1> QED BY <1>4, <1>5, <1>6, <1>7 DEF TrafficInv, TrafficSound, Bytes!TrafficSound

LEMMA CrashStep ==
  ASSUME TrafficInv, Bytes!Crash
  PROVE  TrafficInv'
<1>1. /\ process' = "down" /\ writers' = [w \in Bytes!Writers |-> Bytes!Idle]
      /\ user_stats' = Bytes!Nobody
  BY DEF Bytes!Crash
<1>2. /\ UNCHANGED <<keys, inodes, file, tmp>>
      /\ UNCHANGED <<promised, spoiled>>
  BY DEF Bytes!Crash, Bytes!files, Bytes!history
<1>3. Bytes!Idle \in WriterRecord /\ Bytes!Idle.at = "idle" /\ Bytes!Idle.inode = 0
  BY CountedTyped DEF Bytes!Idle, WriterRecord
<1>4. TrafficTyped'
  BY <1>1, <1>2, <1>3, TrafficFacts, CountedTyped DEF TrafficTyped, Bytes!Inodes, Bytes!Writers
<1>5. Alone'
  BY <1>1, <1>3 DEF Alone, Bytes!Writers
<1>6. Placed' /\ Enrolled' /\ Copied' /\ Bytes!NoFreshStart'
  BY <1>1 DEF Placed, Enrolled, Copied, Bytes!NoFreshStart
<1>7. Bytes!FileSound'
  BY <1>2, TrafficFacts DEF Bytes!FileSound, Bytes!Saved, Bytes!Counted, Bytes!Nobody
<1> QED BY <1>4, <1>5, <1>6, <1>7 DEF TrafficInv, TrafficSound, Bytes!TrafficSound

(* A start reads back what is in the file, for who is in the config.          *)
LEMMA StartsStep ==
  ASSUME TrafficInv, Bytes!Start
  PROVE  TrafficInv'
<1>1. process = "down" /\ process' = "up"
  BY DEF Bytes!Start
<1>2. PICK users \in SUBSET Users :
        /\ keys' = users /\ user_stats' = [u \in users |-> Bytes!Counted(Bytes!Saved, u)]
        /\ promised' = [u \in Users |-> IF u \notin users THEN 0
                                        ELSE IF spoiled THEN Bytes!Counted(Bytes!Saved, u) ELSE promised[u]]
  BY DEF Bytes!Start, Bytes!Restored
<1>3. /\ UNCHANGED <<inodes, file, tmp>>
      /\ UNCHANGED <<writers, spoiled>>
  BY DEF Bytes!Start, Bytes!files
<1>4. \A u : Bytes!Counted(Bytes!Saved, u) \in Nat
  BY SavedTyped, CountedTyped, TrafficFacts
<1>5. /\ DOMAIN user_stats' = keys' /\ user_stats' \in [keys' -> Nat] /\ keys' \subseteq Users
      /\ user_stats' \in Tally
  BY <1>2, <1>4, Tallies
<1>6. promised \in [Users -> Nat]
  BY TrafficFacts DEF TrafficTyped
<1>7. promised' \in [Users -> Nat] /\ \A u \in Users \ keys' : promised'[u] = 0
  BY <1>2, <1>4, <1>6
<1>8. TrafficTyped'
  BY <1>1, <1>3, <1>5, <1>7, TrafficFacts DEF TrafficTyped, Bytes!Inodes, Bytes!Writers
<1>9. \A w \in Bytes!Writers : writers[w].at = "idle"
  BY <1>1, TrafficFacts DEF Alone
<1>10. Alone' /\ Placed'
  BY <1>1, <1>3, <1>9, TrafficFacts DEF Alone, Placed, InPlace, Bytes!Writers
<1>11. Enrolled'
  BY <1>5, <1>7 DEF Enrolled
<1>12. Copied'
  BY <1>1, <1>3, <1>9, TrafficFacts DEF Copied
<1>13. Bytes!FileSound'
  <2>1. Bytes!Saved' = Bytes!Saved
    BY <1>3 DEF Bytes!Saved, Bytes!Nobody
  <2>2. ASSUME ~spoiled', NEW u \in Users
        PROVE  promised'[u] <= Bytes!Counted(Bytes!Saved, u)
    <3>1. promised[u] <= Bytes!Counted(Bytes!Saved, u)
      BY <1>3, <2>2, TrafficFacts DEF Bytes!FileSound
    <3>2. ~spoiled
      BY <1>3, <2>2
    <3>3. promised'[u] = 0 \/ promised'[u] = promised[u]
      BY <1>2, <3>2
    <3> QED BY <1>4, <1>6, <3>1, <3>3
  <2>3. ~spoiled' => (file' # 0 => inodes'[file'].whole)
    BY <1>3, TrafficFacts DEF Bytes!FileSound
  <2> QED BY <2>1, <2>2, <2>3 DEF Bytes!FileSound, Bytes!Counted
<1>14. Bytes!NoFreshStart'
  <2>1. ASSUME ~spoiled', NEW u \in keys'
        PROVE  promised'[u] <= user_stats'[u]
    <3>1. ~spoiled /\ u \in Users
      BY <1>3, <1>5, <2>1
    <3>2. promised[u] <= Bytes!Counted(Bytes!Saved, u)
      BY <3>1, TrafficFacts DEF Bytes!FileSound
    <3>3. promised'[u] = promised[u] /\ user_stats'[u] = Bytes!Counted(Bytes!Saved, u)
      BY <1>2, <2>1, <3>1
    <3> QED BY <3>2, <3>3
  <2> QED BY <1>5, <2>1 DEF Bytes!NoFreshStart, Bytes!Counted
<1> QED BY <1>8, <1>10, <1>11, <1>12, <1>13, <1>14 DEF TrafficInv, TrafficSound, Bytes!TrafficSound

(* Who writes: the periodic writer while the server is up, and the last one   *)
(* alone unless the stop was spoiled.                                         *)
LEMMA WhoWrites ==
  ASSUME TrafficInv, NEW w \in Bytes!Writers, writers[w].at # "idle"
  PROVE  /\ process \in {"up", "stopping"}
         /\ process = "up" => w = "periodic" /\ InPlace("periodic") /\ writers["final"].inode = 0
         /\ process = "stopping" /\ ~spoiled =>
              w = "final" /\ InPlace("final") /\ writers["periodic"].inode = 0
<1>1. process \in {"up", "stopping", "down"}
  BY TrafficFacts DEF TrafficTyped
<1> QED BY <1>1, TrafficFacts DEF Alone, Placed

LEMMA FreeIsFree ==
  ASSUME TrafficTyped, tmp = 0
  PROVE  Bytes!Free \in 1..4 /\ Bytes!Free # file
<1> DEFINE taken == {file, tmp} \cup {writers[w].inode : w \in Bytes!Writers}
<1>1. taken = {file, tmp, writers["periodic"].inode, writers["final"].inode}
  BY DEF Bytes!Writers
<1>2. \A a, b, c : \E i \in 1..4 : i # a /\ i # b /\ i # c
  <2>1. 1 \in 1..4 /\ 2 \in 1..4 /\ 3 \in 1..4 /\ 4 \in 1..4
    OBVIOUS
  <2> QED BY <2>1
<1>3. \E i \in 1..4 : i # file /\ i # writers["periodic"].inode /\ i # writers["final"].inode
  BY <1>2
<1>4. \E i \in 1..4 : i \notin taken
  BY <1>1, <1>3
<1>5. Bytes!Free \in 1..4 /\ Bytes!Free \notin taken
  BY <1>4 DEF Bytes!Free, Bytes!Inodes
<1> QED BY <1>5

LEMMA OpenStep ==
  ASSUME TrafficInv, NEW w \in Bytes!Writers, Bytes!Open(w)
  PROVE  TrafficInv'
<1>1. /\ writers[w].at = "open" /\ tmp' = (IF tmp = 0 THEN Bytes!Free ELSE tmp)
      /\ inodes' = [inodes EXCEPT ![tmp'] = Bytes!Half]
  BY DEF Bytes!Open
<1>2. /\ UNCHANGED <<process, keys, user_stats, file>>
      /\ UNCHANGED <<promised, spoiled>>
  BY DEF Bytes!Open, Bytes!history
<1>3. file \in 0..4 /\ tmp \in 0..4 /\ (file = tmp => file = 0)
  BY TrafficFacts DEF TrafficTyped
<1>4. tmp' \in 1..4 /\ tmp' # file
  BY <1>1, <1>3, FreeIsFree, TrafficFacts
<1>5. /\ writers' \in [Bytes!Writers -> WriterRecord]
      /\ writers'[w].at = "write" /\ writers'[w].body = writers[w].body /\ writers'[w].inode = tmp'
      /\ \A v \in Bytes!Writers : v # w => writers'[v] = writers[v]
  <2>1. writers' = [writers EXCEPT ![w] = [writers[w] EXCEPT !.at = "write", !.inode = tmp']]
    BY DEF Bytes!Open
  <2>2. writers \in [Bytes!Writers -> WriterRecord] /\ writers[w] \in WriterRecord
    BY TrafficFacts DEF TrafficTyped
  <2> DEFINE opened_by == [writers[w] EXCEPT !.at = "write", !.inode = tmp']
  <2>3. /\ opened_by \in WriterRecord
        /\ opened_by.at = "write" /\ opened_by.body = writers[w].body /\ opened_by.inode = tmp'
    <3>1. opened_by = [at |-> "write", body |-> writers[w].body, inode |-> tmp']
      <4> DEFINE marked == [writers[w] EXCEPT !.at = "write"]
      <4>1. marked = [at |-> "write", body |-> writers[w].body, inode |-> writers[w].inode]
        BY <2>2 DEF WriterRecord
      <4>2. opened_by = [marked EXCEPT !.inode = tmp']
        OBVIOUS
      <4> HIDE DEF marked, opened_by
      <4> QED BY <4>1, <4>2
    <3>2. writers[w].body \in Tally /\ tmp' \in 0..4
      BY <1>4, <2>2 DEF WriterRecord
    <3> HIDE DEF opened_by
    <3>3. opened_by \in WriterRecord
      BY <3>1, <3>2 DEF WriterRecord
    <3> QED BY <3>1, <3>3
  <2> HIDE DEF opened_by
  <2>4. writers' = [writers EXCEPT ![w] = opened_by]
    BY <2>1 DEF opened_by
  <2> QED BY <2>2, <2>3, <2>4
<1>6. /\ process \in {"up", "stopping"}
      /\ process = "up" => w = "periodic" /\ InPlace("periodic") /\ writers["final"].inode = 0
      /\ process = "stopping" /\ ~spoiled => w = "final" /\ InPlace("final") /\ writers["periodic"].inode = 0
  BY <1>1, WhoWrites
<1>7. TrafficTyped'
  <2>1. Bytes!Half \in InodeRecord
    BY CountedTyped DEF Bytes!Half, InodeRecord
  <2>2. inodes' \in [Bytes!Inodes -> InodeRecord]
    BY <1>1, <1>4, <2>1, TrafficFacts DEF TrafficTyped
  <2> QED BY <1>2, <1>4, <1>5, <2>2, TrafficFacts DEF TrafficTyped, Bytes!Inodes, Bytes!Writers
<1>8. Alone'
  BY <1>1, <1>2, <1>5, <1>6, TrafficFacts DEF Alone, Bytes!Writers
<1>9. Placed'
  BY <1>2, <1>4, <1>5, <1>6 DEF Placed, InPlace
<1>10. Enrolled'
  BY <1>2, TrafficFacts DEF Enrolled
<1>11. Bytes!Saved' = Bytes!Saved
  BY <1>1, <1>2, <1>3, <1>4, TrafficFacts DEF Bytes!Saved, Bytes!Nobody, TrafficTyped, Bytes!Inodes
<1>12. Copied'
  BY <1>1, <1>2, <1>5, <1>6, TrafficFacts DEF Copied
<1>13. Bytes!FileSound'
  <2>1. file # 0 => inodes'[file] = inodes[file]
    BY <1>1, <1>3, <1>4, TrafficFacts DEF TrafficTyped, Bytes!Inodes
  <2> QED BY <1>2, <1>11, <2>1, TrafficFacts DEF Bytes!FileSound, Bytes!Counted
<1>14. Bytes!NoFreshStart'
  BY <1>2, TrafficFacts DEF Bytes!NoFreshStart, Bytes!Counted
<1> QED BY <1>7, <1>8, <1>9, <1>10, <1>12, <1>13, <1>14 DEF TrafficInv, TrafficSound, Bytes!TrafficSound

(* The bytes are in the file, unless another had it open.                     *)
LEMMA WriteStep ==
  ASSUME TrafficInv, NEW w \in Bytes!Writers, Bytes!Write(w)
  PROVE  TrafficInv'
<1>1. writers[w].at = "write" /\ writers' = [writers EXCEPT ![w].at = "rename"]
  BY DEF Bytes!Write
<1>2. /\ UNCHANGED <<process, keys, user_stats, file, tmp>>
      /\ UNCHANGED <<promised, spoiled>>
  BY DEF Bytes!Write, Bytes!history
<1>3. PICK content : /\ inodes' = [inodes EXCEPT ![writers[w].inode] = content]
                     /\ content \in {Bytes!Body(w), Bytes!Half}
                     /\ writers[Bytes!Other(w)].inode # writers[w].inode => content = Bytes!Body(w)
  BY DEF Bytes!Write
<1>4. file \in 0..4 /\ tmp \in 0..4 /\ (file = tmp => file = 0)
  BY TrafficFacts DEF TrafficTyped
<1>5. /\ writers' \in [Bytes!Writers -> WriterRecord]
      /\ writers'[w].at = "rename" /\ writers'[w].body = writers[w].body /\ writers'[w].inode = writers[w].inode
      /\ \A v \in Bytes!Writers : v # w => writers'[v] = writers[v]
  <2>1. writers' = [writers EXCEPT ![w] = [writers[w] EXCEPT !.at = "rename"]]
    BY <1>1
  <2>2. writers \in [Bytes!Writers -> WriterRecord] /\ writers[w] \in WriterRecord
    BY TrafficFacts DEF TrafficTyped
  <2> DEFINE written_by == [writers[w] EXCEPT !.at = "rename"]
  <2>3. /\ written_by \in WriterRecord /\ written_by.at = "rename"
        /\ written_by.body = writers[w].body /\ written_by.inode = writers[w].inode
    BY <2>2 DEF WriterRecord
  <2> HIDE DEF written_by
  <2>4. writers' = [writers EXCEPT ![w] = written_by]
    BY <2>1 DEF written_by
  <2> QED BY <2>2, <2>3, <2>4
<1>6. /\ process \in {"up", "stopping"}
      /\ process = "up" => w = "periodic" /\ InPlace("periodic") /\ writers["final"].inode = 0
      /\ process = "stopping" /\ ~spoiled => w = "final" /\ InPlace("final") /\ writers["periodic"].inode = 0
  BY <1>1, WhoWrites
<1>7. process = "up" \/ ~spoiled =>
        /\ tmp # 0 /\ tmp # file /\ writers[w].inode = tmp
        /\ content = Bytes!Body(w)
        /\ inodes'[tmp] = Bytes!Body(w) /\ (file # 0 => inodes'[file] = inodes[file])
  <2>1. SUFFICES ASSUME process = "up" \/ ~spoiled
                 PROVE  /\ tmp # 0 /\ tmp # file /\ writers[w].inode = tmp
                        /\ content = Bytes!Body(w)
                        /\ inodes'[tmp] = Bytes!Body(w) /\ (file # 0 => inodes'[file] = inodes[file])
    OBVIOUS
  <2>2. InPlace(w) /\ writers[Bytes!Other(w)].inode = 0
    BY <1>6, <2>1 DEF Bytes!Other
  <2>3. tmp # 0 /\ writers[w].inode = tmp
    BY <1>1, <2>2 DEF InPlace
  <2>4. content = Bytes!Body(w)
    BY <1>3, <2>2, <2>3
  <2>5. inodes \in [1..4 -> InodeRecord]
    BY TrafficFacts DEF TrafficTyped, Bytes!Inodes
  <2> QED BY <1>3, <1>4, <2>3, <2>4, <2>5
<1>8. TrafficTyped'
  <2>1. Bytes!Half \in InodeRecord /\ Bytes!Body(w) \in InodeRecord
    BY CountedTyped, TrafficFacts DEF Bytes!Half, Bytes!Body, InodeRecord, WriterRecord
  <2>2. inodes' \in [Bytes!Inodes -> InodeRecord]
    BY <1>3, <2>1, TrafficFacts DEF TrafficTyped
  <2> QED BY <1>2, <1>5, <2>2, TrafficFacts DEF TrafficTyped, Bytes!Inodes, Bytes!Writers
<1>9. Alone'
  BY <1>1, <1>2, <1>5, <1>6, TrafficFacts DEF Alone, Bytes!Writers
<1>10. Placed'
  <2>1. Bytes!Body(w).whole /\ Bytes!Body(w).counters = writers[w].body
    BY DEF Bytes!Body
  <2> QED BY <1>2, <1>5, <1>6, <1>7, <2>1 DEF Placed, InPlace
<1>11. Enrolled'
  BY <1>2, TrafficFacts DEF Enrolled
<1>12. ~spoiled => Bytes!Saved' = Bytes!Saved
  BY <1>2, <1>7 DEF Bytes!Saved, Bytes!Nobody
<1>13. Copied'
  BY <1>1, <1>2, <1>5, <1>6, TrafficFacts DEF Copied
<1>14. Bytes!FileSound'
  BY <1>2, <1>7, <1>12, TrafficFacts DEF Bytes!FileSound, Bytes!Counted
<1>15. Bytes!NoFreshStart'
  BY <1>2, TrafficFacts DEF Bytes!NoFreshStart, Bytes!Counted
<1> QED BY <1>8, <1>9, <1>10, <1>11, <1>13, <1>14, <1>15 DEF TrafficInv, TrafficSound, Bytes!TrafficSound

(* A writer is done, with what it wrote or without.                           *)
LEMMA DoneWrites ==
  ASSUME TrafficTyped, NEW w \in Bytes!Writers, Bytes!Done(w)
  PROVE  /\ writers' \in [Bytes!Writers -> WriterRecord]
         /\ writers'[w].at = "idle" /\ writers'[w].inode = 0
         /\ \A v \in Bytes!Writers : v # w => writers'[v] = writers[v]
<1>1. Bytes!Idle \in WriterRecord /\ Bytes!Idle.at = "idle" /\ Bytes!Idle.inode = 0
  BY CountedTyped DEF Bytes!Idle, WriterRecord
<1>2. writers \in [Bytes!Writers -> WriterRecord] /\ writers' = [writers EXCEPT ![w] = Bytes!Idle]
  BY DEF TrafficTyped, Bytes!Done
<1> QED BY <1>1, <1>2

LEMMA WriteFailsStep ==
  ASSUME TrafficInv, NEW w \in Bytes!Writers, Bytes!WriteFails(w)
  PROVE  TrafficInv'
<1>1. writers[w].at = "write" /\ Bytes!Done(w)
  BY DEF Bytes!WriteFails, Bytes!GivesUp
<1>2. UNCHANGED <<process, keys, user_stats, inodes, file, tmp, promised>>
  BY DEF Bytes!WriteFails, Bytes!files
<1>s. spoiled' = (spoiled \/ w = "final")
  BY DEF Bytes!WriteFails
<1>3. ~spoiled' => ~spoiled /\ w # "final"
  BY <1>s, Zenon
<1>4. /\ writers' \in [Bytes!Writers -> WriterRecord]
      /\ writers'[w].at = "idle" /\ writers'[w].inode = 0
      /\ \A v \in Bytes!Writers : v # w => writers'[v] = writers[v]
  BY <1>1, DoneWrites, TrafficFacts
<1>5. /\ process \in {"up", "stopping"}
      /\ process = "up" => w = "periodic" /\ InPlace("periodic") /\ writers["final"].inode = 0
      /\ process = "stopping" /\ ~spoiled => w = "final" /\ InPlace("final") /\ writers["periodic"].inode = 0
  BY <1>1, WhoWrites
<1>6. TrafficTyped'
  BY <1>2, <1>4, TrafficFacts DEF TrafficTyped, Bytes!Inodes, Bytes!Writers
<1>7. Alone'
  BY <1>1, <1>2, <1>3, <1>4, <1>5, TrafficFacts DEF Alone, Bytes!Writers
<1>8. Placed'
  BY <1>2, <1>3, <1>4, <1>5 DEF Placed, InPlace
<1>9. Enrolled'
  BY <1>2, TrafficFacts DEF Enrolled
<1>10. Copied'
  BY <1>2, <1>3, <1>4, <1>5 DEF Copied
<1>11. Bytes!FileSound' /\ Bytes!NoFreshStart'
  BY <1>2, <1>3, TrafficFacts DEF Bytes!FileSound, Bytes!NoFreshStart, Bytes!Saved, Bytes!Counted, Bytes!Nobody
<1> QED BY <1>6, <1>7, <1>8, <1>9, <1>10, <1>11 DEF TrafficInv, TrafficSound, Bytes!TrafficSound

(* What was written has the name of the stats file.                           *)
LEMMA RenameStep ==
  ASSUME TrafficInv, NEW w \in Bytes!Writers, Bytes!Rename(w)
  PROVE  TrafficInv'
<1>1. writers[w].at = "rename" /\ Bytes!Done(w)
  BY DEF Bytes!Rename
<1>2. UNCHANGED <<process, keys, user_stats, inodes>>
  BY DEF Bytes!Rename
<1>s. spoiled' = (spoiled /\ (tmp = 0 \/ process # "up"))
  BY DEF Bytes!Rename
<1>3. process # "up" /\ ~spoiled' => ~spoiled
  BY <1>s, Zenon
<1>4. /\ writers' \in [Bytes!Writers -> WriterRecord]
      /\ writers'[w].at = "idle" /\ writers'[w].inode = 0
      /\ \A v \in Bytes!Writers : v # w => writers'[v] = writers[v]
  BY <1>1, DoneWrites, TrafficFacts
<1>5. /\ process \in {"up", "stopping"}
      /\ process = "up" => w = "periodic" /\ InPlace("periodic") /\ writers["final"].inode = 0
      /\ process = "stopping" /\ ~spoiled => w = "final" /\ InPlace("final") /\ writers["periodic"].inode = 0
  BY <1>1, WhoWrites
<1>6. /\ DOMAIN user_stats = keys /\ user_stats \in [keys -> Nat] /\ keys \subseteq Users
      /\ promised \in [Users -> Nat] /\ \A u \in Users \ keys : promised[u] = 0
      /\ file \in 0..4 /\ tmp \in 0..4 /\ (file = tmp => file = 0)
  BY <1>5, TrafficFacts, Tallies DEF TrafficTyped, Enrolled
<1> DEFINE text == writers[w].body
<1>7. text \in Tally /\ DOMAIN text \subseteq Users /\ text \in [DOMAIN text -> Nat]
  BY TrafficFacts, Tallies DEF WriterRecord
<1>8. \/ tmp = 0 /\ UNCHANGED <<file, tmp, promised>>
      \/ /\ tmp # 0 /\ file' = tmp /\ tmp' = 0
         /\ promised' = [u \in Users |-> IF u \in DOMAIN text \cap DOMAIN user_stats
                                         THEN text[u] ELSE promised[u]]
  BY DEF Bytes!Rename
<1>9. process = "up" \/ ~spoiled =>
        /\ tmp # 0 /\ inodes[tmp].whole /\ inodes[tmp].counters = text
        /\ keys \subseteq DOMAIN text /\ \A u \in keys : text[u] <= user_stats[u]
  <2>1. CASE process = "up"
    <3>1. w = "periodic" /\ InPlace(w)
      BY <1>5, <2>1
    <3>2. tmp # 0 /\ inodes[tmp].whole /\ inodes[tmp].counters = text
      BY <1>1, <3>1 DEF InPlace
    <3>3. keys \subseteq DOMAIN text /\ \A u \in keys : text[u] <= user_stats[u]
      BY <1>1, <2>1, <3>1, TrafficFacts DEF Copied
    <3> QED BY <3>2, <3>3
  <2>2. CASE process = "stopping" /\ ~spoiled
    <3>1. w = "final" /\ InPlace(w)
      BY <1>5, <2>2
    <3>2. tmp # 0 /\ inodes[tmp].whole /\ inodes[tmp].counters = text
      BY <1>1, <3>1 DEF InPlace
    <3>3. text = user_stats
      BY <1>1, <2>2, <3>1, TrafficFacts DEF Copied
    <3> QED BY <1>6, <3>2, <3>3
  <2> QED BY <1>5, <2>1, <2>2
<1> HIDE DEF text
<1>10. /\ promised' \in [Users -> Nat] /\ \A u \in Users \ keys : promised'[u] = 0
       /\ file' \in 0..4 /\ tmp' \in 0..4 /\ (file' = tmp' => file' = 0)
  BY <1>6, <1>7, <1>8
<1>11. process = "up" \/ ~spoiled =>
         /\ file' # 0 /\ inodes'[file'].whole /\ inodes'[file'].counters = text
         /\ \A u \in keys : promised'[u] = text[u]
  BY <1>2, <1>6, <1>8, <1>9
<1>12. process = "up" \/ ~spoiled => Bytes!Saved' = text
  BY <1>11 DEF Bytes!Saved
<1>13. process = "up" \/ ~spoiled' => process = "up" \/ ~spoiled
  BY <1>3
<1>14. TrafficTyped'
  BY <1>2, <1>4, <1>10, TrafficFacts DEF TrafficTyped, Bytes!Inodes, Bytes!Writers
<1>15. Alone'
  BY <1>1, <1>2, <1>3, <1>4, <1>5, TrafficFacts DEF Alone, Bytes!Writers
<1>16. Placed'
  BY <1>2, <1>3, <1>4, <1>5 DEF Placed, InPlace
<1>17. Enrolled'
  BY <1>2, <1>6, <1>10 DEF Enrolled
<1>18. Copied'
  <2>1. CASE process = "up"
    BY <1>2, <1>4, <1>5, <2>1 DEF Copied
  <2>2. CASE process = "stopping"
    <3>1. SUFFICES ASSUME ~spoiled', NEW u \in Users
                   PROVE  Bytes!Counted(user_stats, u) <= Bytes!Counted(Bytes!Saved', u)
      BY <1>2, <1>4, <1>5, <2>2, <1>3 DEF Copied, Bytes!Counted
    <3>2. ~spoiled
      BY <1>3, <2>2, <3>1
    <3>3. text = user_stats
      BY <1>1, <1>5, <2>2, <3>2, TrafficFacts DEF Copied, text
    <3>4. Bytes!Saved' = user_stats /\ Bytes!Counted(user_stats, u) \in Nat
      BY <1>7, <1>12, <3>2, <3>3, CountedTyped
    <3> QED BY <3>4
  <2> QED BY <1>5, <2>1, <2>2
<1>19. Bytes!FileSound'
  <2>1. ASSUME ~spoiled', NEW u \in Users
        PROVE  promised'[u] <= Bytes!Counted(text, u)
    <3>1. u \in keys => u \in DOMAIN text /\ promised'[u] = text[u] /\ text[u] \in Nat
      BY <1>5, <1>7, <1>9, <1>11, <1>13, <2>1
    <3>2. u \notin keys => promised'[u] = 0 /\ Bytes!Counted(text, u) \in Nat
      BY <1>7, <1>10, CountedTyped
    <3> QED BY <3>1, <3>2 DEF Bytes!Counted
  <2>2. ~spoiled' => Bytes!Saved' = text /\ inodes'[file'].whole
    BY <1>3, <1>11, <1>12
  <2> QED BY <2>1, <2>2 DEF Bytes!FileSound, Bytes!Counted
<1>20. Bytes!NoFreshStart'
  <2>1. ASSUME ~spoiled', NEW u \in keys
        PROVE  promised'[u] <= user_stats[u]
    BY <1>3, <1>9, <1>11, <2>1
  <2> QED BY <1>2, <1>6, <2>1 DEF Bytes!NoFreshStart, Bytes!Counted
<1> QED BY <1>14, <1>15, <1>16, <1>17, <1>18, <1>19, <1>20 DEF TrafficInv, TrafficSound, Bytes!TrafficSound

LEMMA TrafficInvStep ==
  ASSUME TrafficInv, Bytes!Next \/ UNCHANGED traffic
  PROVE  TrafficInv'
<1>1. CASE UNCHANGED traffic
  <2>1. /\ UNCHANGED <<process, keys, user_stats, inodes, file>>
        /\ UNCHANGED <<tmp, writers, promised, spoiled>>
    BY <1>1 DEF traffic
  <2>2. TrafficTyped' /\ Alone' /\ Placed' /\ Enrolled'
    BY <2>1, TrafficFacts DEF TrafficTyped, Alone, Placed, InPlace, Enrolled, Bytes!Inodes, Bytes!Writers
  <2>3. Copied' /\ Bytes!FileSound' /\ Bytes!NoFreshStart'
    BY <2>1, TrafficFacts DEF Copied, Bytes!FileSound, Bytes!NoFreshStart, Bytes!Saved, Bytes!Counted, Bytes!Nobody
  <2> QED BY <2>2, <2>3 DEF TrafficInv, TrafficSound, Bytes!TrafficSound
<1>2. CASE \E u \in Users : Bytes!Count(u) \/ Bytes!Remove(u)
  BY <1>2, CountStep, RemoveStep
<1>3. CASE \E w \in Bytes!Writers : Bytes!Open(w) \/ Bytes!Write(w) \/ Bytes!WriteFails(w) \/ Bytes!Rename(w)
  BY <1>3, OpenStep, WriteStep, WriteFailsStep, RenameStep
<1>4. CASE Bytes!StatsTick \/ Bytes!Stop \/ Bytes!Exit \/ Bytes!Crash \/ Bytes!Start
  BY <1>4, StatsTickStep, StopStep, ExitStep, CrashStep, StartsStep
<1> QED BY <1>1, <1>2, <1>3, <1>4 DEF Bytes!Next

(* Whatever crashes between the truncation, the write and the rename, and     *)
(* whoever leaves the config meanwhile: a start reads a whole file, takes no  *)
(* counter back below what a completed write or a clean stop kept, and brings *)
(* no one back who left.  Excepted is a stop that met a periodic write of its *)
(* own temporary file, or failed to write, until a write of the next process  *)
(* completes (ostp-server/src/lib.rs).                                        *)
THEOREM TrafficIsSound == PartsSpec => []TrafficSound
<1>1. PartsInit => TrafficInv
  BY TrafficInvInit DEF PartsInit
<1>2. TrafficInv /\ [PartsNext]_partsVars => TrafficInv'
  BY TrafficInvStep DEF PartsNext, partsVars
<1>3. TrafficInv => TrafficSound
  BY DEF TrafficInv
<1> QED BY <1>1, <1>2, <1>3, PTL DEF PartsSpec

--------------------------------------------------------------------------------
(* The activity file.                                                         *)

Contents == [total : Nat, log : SUBSET Nat]

ActivityTyped ==
  /\ dirty \in BOOLEAN /\ crowded \in BOOLEAN
  /\ recording \in [Recorders -> {"idle", "dirty", "push"}]
  /\ writing \in [Activity!Writers -> {"idle", "counters", "dirty", "swap", "body", "write", "rename"}]
  /\ DOMAIN body = Activity!Writers

AtTheFile(w) == writing[w] \in {"body", "write", "rename"}

(* What was counted is known to be missing from the file.                     *)
Unwritten == dirty \/ (\E r \in Recorders : recording[r] = "dirty") \/ writing["clear"] = "dirty"

(* A writer that is alone carries the counters to the file, unless something  *)
(* was counted since it read them.                                            *)
Carried ==
  /\ \A v, w \in Activity!Writers : AtTheFile(v) /\ AtTheFile(w) => v = w
  /\ \/ Unwritten
     \/ /\ \A w \in Activity!Writers :
             /\ writing[w] = "write" => body[w].total = total
             /\ writing[w] = "rename" => counters_tmp.total = total
        /\ (\A w \in Activity!Writers : ~AtTheFile(w)) => saved.total = total

ActivityInv == ActivityTyped /\ (~crowded => Carried)

LEMMA ActivityInvInit ==
  ASSUME Activity!Init
  PROVE  ActivityInv
<1>1. ActivityTyped
  BY DEF Activity!Init, ActivityTyped
<1>2. Carried
  BY DEF Activity!Init, Carried, AtTheFile, Activity!Empty
<1> QED BY <1>1, <1>2 DEF ActivityInv

(* Where a writer goes.                                                       *)
LEMMA WriterGoes ==
  ASSUME ActivityTyped, NEW w \in Activity!Writers, NEW p, Activity!To(w, p)
  PROVE  writing'[w] = p /\ (\A v \in Activity!Writers : v # w => writing'[v] = writing[v])
         /\ DOMAIN writing' = Activity!Writers
BY DEF ActivityTyped, Activity!To

LEMMA RecordingStep ==
  ASSUME ActivityInv, NEW r \in Recorders, Activity!Count(r) \/ Activity!MarkDirty(r) \/ Activity!Push(r)
  PROVE  ActivityInv'
<1> USE DEF Activity!fileVars
<1>1. ActivityTyped'
  BY DEF ActivityInv, ActivityTyped, Activity!Count, Activity!MarkDirty, Activity!Push
<1>2. UNCHANGED <<writing, body, counters_tmp, saved, crowded>>
  BY DEF Activity!Count, Activity!MarkDirty, Activity!Push
<1>3. ASSUME ~crowded, Carried
      PROVE  Carried'
  <2>1. CASE Activity!Count(r)
    <3>1. recording'[r] = "dirty"
      BY <2>1 DEF Activity!Count, ActivityInv, ActivityTyped
    <3> QED BY <1>2, <1>3, <3>1 DEF Carried, Unwritten, AtTheFile
  <2>2. CASE Activity!MarkDirty(r)
    BY <1>2, <1>3, <2>2 DEF Activity!MarkDirty, Carried, Unwritten, AtTheFile
  <2>3. CASE Activity!Push(r)
    <3>1. \A s \in Recorders : recording[s] = "dirty" => recording'[s] = "dirty"
      BY <2>3 DEF Activity!Push, ActivityInv, ActivityTyped
    <3>2. UNCHANGED <<total, dirty>>
      BY <2>3 DEF Activity!Push
    <3> QED BY <1>2, <1>3, <3>1, <3>2 DEF Carried, Unwritten, AtTheFile
  <2> QED BY <2>1, <2>2, <2>3
<1> QED BY <1>1, <1>2, <1>3 DEF ActivityInv

LEMMA ClearStep ==
  ASSUME ActivityInv, Activity!ClearLog \/ Activity!ClearCounters \/ Activity!ClearMarks
  PROVE  ActivityInv'
<1> USE DEF Activity!recordVars
<1>1. /\ UNCHANGED <<recording, body, counters_tmp, saved, crowded>>
      /\ writing["clear"] \in {"idle", "counters", "dirty"}
      /\ dirty' \in BOOLEAN /\ (dirty => dirty')
  BY DEF Activity!ClearLog, Activity!ClearCounters, Activity!ClearMarks, Activity!At, ActivityInv, ActivityTyped
<1>2. /\ "clear" \in Activity!Writers /\ DOMAIN writing' = Activity!Writers
      /\ writing'["clear"] \in {"counters", "dirty", "swap"}
      /\ \A v \in Activity!Writers : v # "clear" => writing'[v] = writing[v]
  BY WriterGoes DEF Activity!ClearLog, Activity!ClearCounters, Activity!ClearMarks, ActivityInv, Activity!Writers
<1>3. ActivityTyped'
  BY <1>1, <1>2 DEF ActivityInv, ActivityTyped, Activity!To, Activity!ClearLog, Activity!ClearCounters, Activity!ClearMarks
<1>4. \A v \in Activity!Writers : AtTheFile(v)' <=> AtTheFile(v)
  BY <1>1, <1>2 DEF AtTheFile
<1>5. \A v \in Activity!Writers : AtTheFile(v) => writing'[v] = writing[v]
  BY <1>1, <1>2 DEF AtTheFile
<1>6. Unwritten' \/ (UNCHANGED total /\ ~Unwritten)
  <2>1. CASE Activity!ClearLog
    BY <1>1, <2>1 DEF Activity!ClearLog, Activity!At, Unwritten
  <2>2. CASE Activity!ClearCounters
    <3>1. writing'["clear"] = "dirty"
      BY <2>2, <1>2, WriterGoes DEF Activity!ClearCounters, ActivityInv
    <3> QED BY <3>1 DEF Unwritten
  <2>3. CASE Activity!ClearMarks
    BY <2>3 DEF Activity!ClearMarks, Unwritten
  <2> QED BY <2>1, <2>2, <2>3
<1>7. ASSUME ~crowded, Carried
      PROVE  Carried'
  <2>1. \A v, w \in Activity!Writers : AtTheFile(v)' /\ AtTheFile(w)' => v = w
    BY <1>4, <1>7 DEF Carried
  <2>2. ASSUME ~Unwritten, UNCHANGED total
        PROVE  /\ \A w \in Activity!Writers :
                    /\ writing'[w] = "write" => body'[w].total = total'
                    /\ writing'[w] = "rename" => counters_tmp'.total = total'
               /\ (\A w \in Activity!Writers : ~AtTheFile(w)') => saved'.total = total'
    BY <1>1, <1>2, <1>4, <1>5, <1>7, <2>2 DEF Carried, AtTheFile
  <2> QED BY <1>6, <2>1, <2>2 DEF Carried
<1> QED BY <1>1, <1>3, <1>7 DEF ActivityInv

LEMMA SwapStep ==
  ASSUME ActivityInv, NEW w \in Activity!Writers, Activity!Begins(w) \/ Activity!Swap(w)
  PROVE  ActivityInv'
<1> USE DEF Activity!recordVars
<1>1. UNCHANGED <<total, recording, body, counters_tmp, saved>>
  BY DEF Activity!Begins, Activity!Swap, Activity!At
<1>2. /\ writing[w] \in {"idle", "swap"} /\ DOMAIN writing' = Activity!Writers
      /\ writing'[w] \in {"swap", "idle", "body"}
      /\ \A v \in Activity!Writers : v # w => writing'[v] = writing[v]
  BY WriterGoes DEF Activity!Begins, Activity!Swap, Activity!At, ActivityInv
<1>3. ActivityTyped'
  BY <1>1, <1>2 DEF ActivityInv, ActivityTyped, Activity!To, Activity!Begins, Activity!Swap
<1>4. CASE UNCHANGED <<dirty, crowded>> /\ writing'[w] # "body"
  <2>1. \A v \in Activity!Writers : AtTheFile(v)' <=> AtTheFile(v)
    BY <1>2, <1>4 DEF AtTheFile
  <2>2. Unwritten' <=> Unwritten
    <3>1. writing'["clear"] = "dirty" <=> writing["clear"] = "dirty"
      BY <1>2 DEF Activity!Writers
    <3> QED BY <1>1, <1>4, <3>1 DEF Unwritten
  <2>3. \A v \in Activity!Writers : /\ writing'[v] = "write" => writing[v] = "write"
                                    /\ writing'[v] = "rename" => writing[v] = "rename"
    BY <1>2, <1>4
  <2>4. Carried => Carried'
    BY <1>1, <2>1, <2>2, <2>3 DEF Carried
  <2> QED BY <1>3, <1>4, <2>4 DEF ActivityInv
<1>5. CASE writing'[w] = "body" /\ crowded' = ~Activity!Alone(w)
  <2>1. SUFFICES ASSUME ~crowded'
                 PROVE  Carried'
    BY <1>3 DEF ActivityInv
  <2>2. \A v \in Activity!Writers : v # w => ~AtTheFile(v)'
    BY <1>2, <1>5, <2>1 DEF Activity!Alone, AtTheFile
  <2>3. AtTheFile(w)'
    BY <1>5 DEF AtTheFile
  <2>4. \A v \in Activity!Writers : writing'[v] \notin {"write", "rename"}
    BY <1>5, <2>2 DEF AtTheFile
  <2> QED BY <2>2, <2>3, <2>4 DEF Carried
<1> QED
  <2>1. CASE Activity!Begins(w)
    <3>1. writing'[w] = "swap"
      BY <2>1, WriterGoes DEF Activity!Begins, ActivityInv
    <3> QED BY <1>4, <2>1, <3>1 DEF Activity!Begins
  <2>2. CASE Activity!Swap(w)
    <3>1. CASE dirty
      <4>1. writing'[w] = "body"
        BY <2>2, <3>1, WriterGoes DEF Activity!Swap, ActivityInv
      <4> QED BY <1>5, <2>2, <3>1, <4>1 DEF Activity!Swap
    <3>2. CASE ~dirty
      <4>1. writing'[w] = "idle"
        BY <2>2, <3>2, WriterGoes DEF Activity!Swap, ActivityInv
      <4> QED BY <1>4, <2>2, <3>2, <4>1 DEF Activity!Swap
    <3> QED BY <3>1, <3>2
  <2> QED BY <2>1, <2>2

(* The one writer at the file.                                                *)
LEMMA FileStep ==
  ASSUME ActivityInv, NEW w \in Activity!Writers, Activity!Body(w) \/ Activity!Write(w) \/ Activity!Rename(w)
  PROVE  ActivityInv'
<1> USE DEF Activity!recordVars
<1>1. UNCHANGED <<total, recording, crowded>> /\ AtTheFile(w)
  BY DEF Activity!Body, Activity!Write, Activity!Rename, Activity!At, AtTheFile
<1>2. /\ DOMAIN writing' = Activity!Writers /\ writing'[w] \in {"write", "rename", "idle"}
      /\ \A v \in Activity!Writers : v # w => writing'[v] = writing[v]
  BY WriterGoes DEF Activity!Body, Activity!Write, Activity!Rename, ActivityInv
<1>3. dirty' \in BOOLEAN /\ (dirty => dirty') /\ DOMAIN body' = Activity!Writers
  BY DEF Activity!Body, Activity!Write, Activity!Rename, Activity!Kept, ActivityInv, ActivityTyped
<1>4. ActivityTyped'
  BY <1>1, <1>2, <1>3 DEF ActivityInv, ActivityTyped, Activity!To, Activity!Body, Activity!Write, Activity!Rename
<1>5. SUFFICES ASSUME ~crowded, Carried
               PROVE  Carried'
  BY <1>1, <1>4 DEF ActivityInv
<1>6. \A v \in Activity!Writers : v # w => ~AtTheFile(v)'
  BY <1>1, <1>2, <1>5 DEF Carried, AtTheFile
<1>7. Unwritten => Unwritten'
  <2>1. writing["clear"] = "dirty" => writing'["clear"] = "dirty"
    BY <1>1, <1>2 DEF AtTheFile, Activity!Writers
  <2> QED BY <1>1, <1>3, <2>1 DEF Unwritten
<1>8. SUFFICES ASSUME ~Unwritten', ~Unwritten
               PROVE  /\ writing'[w] = "write" => body'[w].total = total
                      /\ writing'[w] = "rename" => counters_tmp'.total = total
                      /\ writing'[w] = "idle" => saved'.total = total
  BY <1>1, <1>2, <1>6, <1>7 DEF Carried, AtTheFile
<1>9. CASE Activity!Body(w)
  <2>1. writing'[w] = "write"
    BY <1>9, WriterGoes DEF Activity!Body, ActivityInv
  <2>2. body'[w].total = total
    BY <1>9 DEF Activity!Body, ActivityInv, ActivityTyped
  <2> QED BY <2>1, <2>2
<1>10. CASE Activity!Write(w)
  <2>1. CASE counters_tmp' = body[w] /\ Activity!To(w, "rename")
    <3>1. writing[w] = "write" /\ writing'[w] = "rename"
      BY <1>10, <2>1, WriterGoes DEF Activity!Write, Activity!At, ActivityInv
    <3> QED BY <1>5, <1>8, <2>1, <3>1 DEF Carried
  <2>2. CASE Activity!Kept
    BY <1>8, <2>2 DEF Unwritten, Activity!Kept
  <2> QED BY <1>10, <2>1, <2>2 DEF Activity!Write
<1>11. CASE Activity!Rename(w)
  <2>1. CASE Activity!ToRename
    <3>1. writing[w] = "rename" /\ writing'[w] = "idle" /\ saved' = counters_tmp
      BY <1>11, <2>1, WriterGoes DEF Activity!Rename, Activity!At, ActivityInv
    <3> QED BY <1>5, <1>8, <3>1 DEF Carried
  <2>2. CASE ~Activity!ToRename
    BY <1>8, <1>11, <2>2 DEF Unwritten, Activity!Kept, Activity!Rename
  <2> QED BY <2>1, <2>2
<1> QED BY <1>9, <1>10, <1>11

LEMMA ActivityInvStep ==
  ASSUME ActivityInv, Activity!Next \/ UNCHANGED activityVars
  PROVE  ActivityInv'
<1>1. CASE UNCHANGED activityVars
  BY <1>1 DEF activityVars, ActivityInv, ActivityTyped, Carried, Unwritten, AtTheFile
<1>2. CASE Activity!Next
  BY <1>2, RecordingStep, ClearStep, SwapStep, FileStep DEF Activity!Next
<1> QED BY <1>1, <1>2

--------------------------------------------------------------------------------
(* The DNS resolver: what replaces its rules.                                 *)

WriterPhases == {"idle", "filter", "rewrites", "settings", "clear", "begin", "download", "build", "done"}
RuleWriter == [at : WriterPhases, s : Applied, filter : SUBSET DnsNames]

RulesTyped ==
  /\ settings \in Applied /\ filter \in SUBSET DnsNames /\ list_file \in Lists
  /\ apply \in [1..MaxApplies -> RuleWriter] /\ update \in [0..MaxApplies -> RuleWriter]
  /\ mingled \in BOOLEAN

Still(w) == w.at \in {"idle", "done"}

(* At most one call of `apply` or `update_lists` is under way.                *)
OneAtOnce ==
  /\ \A i, j \in 1..MaxApplies : Still(apply[i]) \/ Still(apply[j]) \/ i = j
  /\ \A i, j \in 0..MaxApplies : Still(update[i]) \/ Still(update[j]) \/ i = j
  /\ \A i \in 1..MaxApplies, j \in 0..MaxApplies : Still(apply[i]) \/ Still(update[j])

Follow(s) == filter = Resolver!Built(s) /\ rewrites = s.rewrites

(* How far the rules follow the settings at each step of the one under way.   *)
ApplyHalfway(w) ==
  /\ w.at = "filter" => w.filter = Resolver!Built(w.s)
  /\ w.at \in {"rewrites", "settings"} => filter = Resolver!Built(w.s)
  /\ w.at = "settings" => rewrites = w.s.rewrites
  /\ w.at = "clear" => Follow(settings)

UpdateHalfway(w) ==
  /\ ~Still(w) => rewrites = settings.rewrites
  /\ w.at \in {"download", "build"} => w.s = settings
  /\ w.at = "filter" => w.filter = Resolver!Built(settings)
  /\ w.at = "clear" => Follow(settings)

AllStill == (\A i \in 1..MaxApplies : Still(apply[i])) /\ (\A j \in 0..MaxApplies : Still(update[j]))

Halfway ==
  /\ \A i \in 1..MaxApplies : ApplyHalfway(apply[i])
  /\ \A j \in 0..MaxApplies : UpdateHalfway(update[j])
  /\ AllStill => Follow(settings)

RulesInv == RulesTyped /\ (~mingled => OneAtOnce /\ Halfway)

LEMMA NoWriterTyped ==
  ASSUME Resolver!Valid
  PROVE  Resolver!NoWriter \in RuleWriter /\ Resolver!NoWriter.at = "idle"
<1>1. (CHOOSE s \in Applied : TRUE) \in Applied
  BY DEF Resolver!Valid
<1> QED BY <1>1 DEF Resolver!NoWriter, RuleWriter, WriterPhases

LEMMA BuiltTyped ==
  ASSUME Resolver!Valid, NEW s \in Applied, list_file \in Lists
  PROVE  Resolver!Built(s) \in SUBSET DnsNames
BY DEF Resolver!Valid, Resolver!Settings, Resolver!Built

LEMMA RulesInvInit ==
  ASSUME Resolver!Valid, Resolver!Init
  PROVE  RulesInv
<1>1. /\ settings \in Applied /\ list_file \in Lists /\ Follow(settings) /\ mingled = FALSE
      /\ apply = [i \in 1..MaxApplies |-> Resolver!NoWriter] /\ update = [i \in 0..MaxApplies |-> Resolver!NoWriter]
  BY DEF Resolver!Init, Follow
<1>2. RulesTyped
  BY <1>1, NoWriterTyped, BuiltTyped DEF RulesTyped, Follow
<1>3. /\ \A i \in 1..MaxApplies : apply[i] = Resolver!NoWriter
      /\ \A j \in 0..MaxApplies : update[j] = Resolver!NoWriter
  BY <1>1
<1>4. OneAtOnce
  BY <1>3, NoWriterTyped DEF OneAtOnce, Still
<1>5. Halfway
  BY <1>1, <1>3, NoWriterTyped DEF Halfway, ApplyHalfway, UpdateHalfway, Still
<1> QED BY <1>2, <1>4, <1>5 DEF RulesInv

(* Nothing is being replaced, as the module says it.                          *)
LEMMA BusyFact ==
  ASSUME RulesTyped
  PROVE  Resolver!Busy <=> ~AllStill
BY DEF RulesTyped, Resolver!Busy, Resolver!UnderWay, AllStill, Still

(* A step of a call of `apply`, or of one of `update_lists`, moves no other.  *)
LEMMA ApplyAlone ==
  ASSUME RulesTyped, OneAtOnce, NEW i \in 1..MaxApplies, ~Still(apply[i])
  PROVE  /\ \A j \in 1..MaxApplies : j # i => Still(apply[j])
         /\ \A j \in 0..MaxApplies : Still(update[j])
BY DEF OneAtOnce

LEMMA UpdateAlone ==
  ASSUME RulesTyped, OneAtOnce, NEW i \in 0..MaxApplies, ~Still(update[i])
  PROVE  /\ \A j \in 1..MaxApplies : Still(apply[j])
         /\ \A j \in 0..MaxApplies : j # i => Still(update[j])
BY DEF OneAtOnce

(* What is left to show when one call is under way after the step.            *)
LEMMA OneApplies ==
  ASSUME NEW i \in 1..MaxApplies,
         \A j \in 1..MaxApplies : j # i => Still(apply[j])', \A j \in 0..MaxApplies : Still(update[j])',
         ApplyHalfway(apply[i])', Still(apply[i])' => Follow(settings)'
  PROVE  OneAtOnce' /\ Halfway'
BY DEF OneAtOnce, Halfway, AllStill, Still, ApplyHalfway, UpdateHalfway

LEMMA OneUpdates ==
  ASSUME NEW i \in 0..MaxApplies,
         \A j \in 1..MaxApplies : Still(apply[j])', \A j \in 0..MaxApplies : j # i => Still(update[j])',
         UpdateHalfway(update[i])', Still(update[i])' => Follow(settings)'
  PROVE  OneAtOnce' /\ Halfway'
BY DEF OneAtOnce, Halfway, AllStill, Still, ApplyHalfway, UpdateHalfway

(* A step of a call only moves it on.                                         *)
LEMMA ApplyMoves ==
  ASSUME RulesTyped, NEW i \in 1..MaxApplies, NEW p \in WriterPhases, apply' = [apply EXCEPT ![i].at = p]
  PROVE  /\ apply' \in [1..MaxApplies -> RuleWriter]
         /\ apply'[i].at = p /\ apply'[i].s = apply[i].s /\ apply'[i].filter = apply[i].filter
         /\ \A j \in 1..MaxApplies : j # i => apply'[j] = apply[j]
<1> DEFINE w == [apply[i] EXCEPT !.at = p]
<1>1. apply[i] \in RuleWriter
  BY DEF RulesTyped
<1>2. w \in RuleWriter /\ w.at = p /\ w.s = apply[i].s /\ w.filter = apply[i].filter
  BY <1>1 DEF RuleWriter
<1>3. apply' = [apply EXCEPT ![i] = w]
  OBVIOUS
<1> HIDE DEF w
<1> QED BY <1>2, <1>3 DEF RulesTyped

LEMMA UpdateMoves ==
  ASSUME RulesTyped, NEW i \in 0..MaxApplies, NEW p \in WriterPhases, update' = [update EXCEPT ![i].at = p]
  PROVE  /\ update' \in [0..MaxApplies -> RuleWriter]
         /\ update'[i].at = p /\ update'[i].s = update[i].s /\ update'[i].filter = update[i].filter
         /\ \A j \in 0..MaxApplies : j # i => update'[j] = update[j]
<1> DEFINE w == [update[i] EXCEPT !.at = p]
<1>1. update[i] \in RuleWriter
  BY DEF RulesTyped
<1>2. w \in RuleWriter /\ w.at = p /\ w.s = update[i].s /\ w.filter = update[i].filter
  BY <1>1 DEF RuleWriter
<1>3. update' = [update EXCEPT ![i] = w]
  OBVIOUS
<1> HIDE DEF w
<1> QED BY <1>2, <1>3 DEF RulesTyped

LEMMA ApplyBeginsStep ==
  ASSUME Resolver!Valid, RulesInv, NEW i \in 1..MaxApplies, NEW s \in Applied, Resolver!ApplyBegins(i, s)
  PROVE  RulesInv'
<1> USE DEF Resolver!ruleVars
<1>0. RulesTyped
  BY DEF RulesInv
<1> DEFINE w == [at |-> "filter", s |-> s, filter |-> Resolver!Built(s)]
<1>1. UNCHANGED <<settings, rewrites, filter, list_file, update>> /\ mingled' = Resolver!Busy
  BY DEF Resolver!ApplyBegins
<1>2. w \in RuleWriter /\ apply' = [apply EXCEPT ![i] = w]
  BY <1>0, BuiltTyped DEF Resolver!ApplyBegins, Resolver!BuiltAtApply, RuleWriter, WriterPhases, RulesTyped
<1>3. w.at = "filter" /\ w.filter = Resolver!Built(w.s)
  OBVIOUS
<1> HIDE DEF w
<1>4. apply' \in [1..MaxApplies -> RuleWriter] /\ apply'[i] = w /\ \A j \in 1..MaxApplies : j # i => apply'[j] = apply[j]
  BY <1>0, <1>2 DEF RulesTyped
<1>5. RulesTyped'
  <2>1. Resolver!Busy \in BOOLEAN
    BY Zenon DEF Resolver!Busy
  <2> QED BY <1>0, <1>1, <1>4, <2>1 DEF RulesTyped
<1>6. ASSUME ~mingled'
      PROVE  OneAtOnce' /\ Halfway'
  <2>1. AllStill
    BY <1>0, <1>1, <1>6, BusyFact
  <2>2. ApplyHalfway(apply[i])' /\ ~Still(apply[i])'
    BY <1>1, <1>3, <1>4 DEF ApplyHalfway, Resolver!Built, Still
  <2>3. /\ \A j \in 1..MaxApplies : j # i => Still(apply[j])'
        /\ \A j \in 0..MaxApplies : Still(update[j])'
    BY <1>1, <1>4, <2>1 DEF AllStill, Still
  <2> QED BY <2>2, <2>3, OneApplies
<1> QED BY <1>5, <1>6 DEF RulesInv

LEMMA ApplyStep ==
  ASSUME Resolver!Valid, RulesInv, NEW i \in 1..MaxApplies,
         Resolver!ApplyFilter(i) \/ Resolver!ApplyRewrites(i) \/ Resolver!ApplySettings(i)
  PROVE  RulesInv'
<1>0. RulesTyped
  BY DEF RulesInv
<1>1. UNCHANGED <<list_file, update, mingled>> /\ ~Still(apply[i])
  BY DEF Resolver!ApplyFilter, Resolver!ApplyRewrites, Resolver!ApplySettings, Still
<1>2. apply[i] \in RuleWriter
  BY <1>0 DEF RulesTyped
<1>3. /\ settings' \in Applied /\ filter' \in SUBSET DnsNames
      /\ apply' \in [1..MaxApplies -> RuleWriter] /\ ~Still(apply[i])'
      /\ \A j \in 1..MaxApplies : j # i => apply'[j] = apply[j]
      /\ OneAtOnce /\ Halfway => ApplyHalfway(apply[i])'
  <2>1. CASE Resolver!ApplyFilter(i)
    <3>1. /\ apply[i].at = "filter" /\ filter' = apply[i].filter /\ UNCHANGED settings
          /\ apply' = [apply EXCEPT ![i].at = "rewrites"]
      BY <2>1 DEF Resolver!ApplyFilter
    <3>2. /\ apply' \in [1..MaxApplies -> RuleWriter] /\ apply'[i].at = "rewrites" /\ apply'[i].s = apply[i].s
          /\ \A j \in 1..MaxApplies : j # i => apply'[j] = apply[j]
      BY <1>0, <3>1, ApplyMoves DEF WriterPhases
    <3>3. Halfway => ApplyHalfway(apply[i])'
      BY <1>1, <3>1, <3>2 DEF Halfway, ApplyHalfway, Resolver!Built
    <3> QED BY <1>0, <1>2, <3>1, <3>2, <3>3 DEF Still, RuleWriter, RulesTyped
  <2>2. CASE Resolver!ApplyRewrites(i)
    <3>1. /\ apply[i].at = "rewrites" /\ rewrites' = apply[i].s.rewrites /\ UNCHANGED <<settings, filter>>
          /\ apply' = [apply EXCEPT ![i].at = "settings"]
      BY <2>2 DEF Resolver!ApplyRewrites
    <3>2. /\ apply' \in [1..MaxApplies -> RuleWriter] /\ apply'[i].at = "settings" /\ apply'[i].s = apply[i].s
          /\ \A j \in 1..MaxApplies : j # i => apply'[j] = apply[j]
      BY <1>0, <3>1, ApplyMoves DEF WriterPhases
    <3>3. Halfway => ApplyHalfway(apply[i])'
      BY <1>1, <3>1, <3>2 DEF Halfway, ApplyHalfway, Resolver!Built
    <3> QED BY <1>0, <3>1, <3>2, <3>3 DEF Still, RulesTyped
  <2>3. CASE Resolver!ApplySettings(i)
    <3>1. /\ apply[i].at = "settings" /\ settings' = apply[i].s /\ UNCHANGED <<rewrites, filter>>
          /\ apply' = [apply EXCEPT ![i].at = "clear"]
      BY <2>3 DEF Resolver!ApplySettings
    <3>2. /\ apply' \in [1..MaxApplies -> RuleWriter] /\ apply'[i].at = "clear" /\ apply'[i].s = apply[i].s
          /\ \A j \in 1..MaxApplies : j # i => apply'[j] = apply[j]
      BY <1>0, <3>1, ApplyMoves DEF WriterPhases
    <3>3. Halfway => ApplyHalfway(apply[i])'
      BY <1>1, <3>1, <3>2 DEF Halfway, ApplyHalfway, Follow, Resolver!Built
    <3> QED BY <1>0, <1>2, <3>1, <3>2, <3>3 DEF Still, RuleWriter, RulesTyped
  <2> QED BY <2>1, <2>2, <2>3
<1>4. RulesTyped'
  BY <1>0, <1>1, <1>3 DEF RulesTyped
<1>5. ASSUME ~mingled'
      PROVE  OneAtOnce' /\ Halfway'
  <2>1. OneAtOnce /\ Halfway
    BY <1>1, <1>5 DEF RulesInv
  <2>2. /\ \A j \in 1..MaxApplies : j # i => Still(apply[j])'
        /\ \A j \in 0..MaxApplies : Still(update[j])'
    BY <1>0, <1>1, <1>3, <2>1, ApplyAlone DEF Still
  <2> QED BY <1>3, <2>1, <2>2, OneApplies
<1> QED BY <1>4, <1>5 DEF RulesInv

(* A call that ends follows, and leaves at most its own update under way.     *)
LEMMA ApplyClearStep ==
  ASSUME Resolver!Valid, RulesInv, NEW i \in 1..MaxApplies, Resolver!ApplyClear(i)
  PROVE  RulesInv'
<1> USE DEF Resolver!ruleVars
<1>0. RulesTyped /\ i \in 0..MaxApplies
  BY DEF RulesInv, Resolver!Valid
<1> DEFINE w == [Resolver!NoWriter EXCEPT !.at = "done"]
<1>1. UNCHANGED <<settings, rewrites, filter, list_file, mingled>> /\ apply[i].at = "clear"
  BY DEF Resolver!ApplyClear
<1>2. w \in RuleWriter /\ w.at = "done" /\ apply' = [apply EXCEPT ![i] = w]
  BY NoWriterTyped DEF Resolver!ApplyClear, RuleWriter, WriterPhases
<1> HIDE DEF w
<1>3. apply' \in [1..MaxApplies -> RuleWriter] /\ apply'[i] = w /\ \A j \in 1..MaxApplies : j # i => apply'[j] = apply[j]
  BY <1>0, <1>2 DEF RulesTyped
<1>4. /\ update' \in [0..MaxApplies -> RuleWriter]
      /\ update'[i] = update[i] \/ update'[i].at = "begin"
      /\ \A j \in 0..MaxApplies : j # i => update'[j] = update[j]
  <2>1. CASE update' = update
    BY <1>0, <2>1 DEF RulesTyped
  <2>2. CASE update' = [update EXCEPT ![i].at = "begin"]
    BY <1>0, <2>2, UpdateMoves DEF WriterPhases
  <2> QED BY <2>1, <2>2 DEF Resolver!ApplyClear
<1>5. RulesTyped'
  BY <1>0, <1>1, <1>3, <1>4 DEF RulesTyped
<1>6. ASSUME ~mingled'
      PROVE  OneAtOnce' /\ Halfway'
  <2>1. OneAtOnce /\ Halfway /\ Follow(settings)
    BY <1>1, <1>6 DEF RulesInv, Halfway, ApplyHalfway
  <2>2. /\ \A j \in 1..MaxApplies : j # i => Still(apply[j])
        /\ \A j \in 0..MaxApplies : Still(update[j])
    BY <1>0, <1>1, <2>1, ApplyAlone DEF Still
  <2>3. Follow(settings)'
    BY <1>1, <2>1 DEF Follow, Resolver!Built
  <2>4. UpdateHalfway(update[i])'
    BY <1>0, <1>4, <2>2, <2>3 DEF UpdateHalfway, Still, Follow
  <2>5. \A j \in 1..MaxApplies : Still(apply[j])'
    BY <1>2, <1>3, <2>2 DEF Still
  <2>6. \A j \in 0..MaxApplies : j # i => Still(update[j])'
    BY <1>4, <2>2 DEF Still
  <2> QED BY <1>0, <2>3, <2>4, <2>5, <2>6, OneUpdates
<1> QED BY <1>5, <1>6 DEF RulesInv

LEMMA TimerStep ==
  ASSUME Resolver!Valid, RulesInv, Resolver!TimerUpdates
  PROVE  RulesInv'
<1> USE DEF Resolver!ruleVars
<1>0. RulesTyped /\ 0 \in 0..MaxApplies
  BY DEF RulesInv, Resolver!Valid
<1>1. /\ UNCHANGED <<settings, rewrites, filter, list_file, apply>> /\ mingled' = (mingled \/ Resolver!Busy)
      /\ update' = [update EXCEPT ![0].at = "begin"] /\ Still(update[0])
  BY DEF Resolver!TimerUpdates, Still
<1>2. /\ update' \in [0..MaxApplies -> RuleWriter] /\ update'[0].at = "begin"
      /\ \A j \in 0..MaxApplies : j # 0 => update'[j] = update[j]
  BY <1>0, <1>1, UpdateMoves DEF WriterPhases
<1>3. RulesTyped'
  BY <1>0, <1>1, <1>2, BusyFact DEF RulesTyped
<1>4. ASSUME ~mingled'
      PROVE  OneAtOnce' /\ Halfway'
  <2>1. AllStill /\ Follow(settings)
    BY <1>0, <1>1, <1>4, BusyFact DEF RulesInv, Halfway
  <2>2. UpdateHalfway(update[0])' /\ ~Still(update[0])'
    BY <1>1, <1>2, <2>1 DEF UpdateHalfway, Still, Follow
  <2>3. /\ \A j \in 1..MaxApplies : Still(apply[j])'
        /\ \A j \in 0..MaxApplies : j # 0 => Still(update[j])'
    BY <1>1, <1>2, <2>1 DEF AllStill, Still
  <2> QED BY <1>0, <2>2, <2>3, OneUpdates
<1> QED BY <1>3, <1>4 DEF RulesInv

(* What a step of an update leaves to show.                                   *)
LEMMA UpdateGoes ==
  ASSUME RulesInv, RulesTyped', NEW i \in 0..MaxApplies, ~Still(update[i]), UNCHANGED <<apply, mingled>>,
         \A j \in 0..MaxApplies : j # i => update'[j] = update[j],
         UpdateHalfway(update[i]) => UpdateHalfway(update[i])' /\ (Still(update[i])' => Follow(settings)')
  PROVE  RulesInv'
<1>1. ASSUME ~mingled'
      PROVE  OneAtOnce' /\ Halfway'
  <2>1. OneAtOnce /\ UpdateHalfway(update[i]) /\ RulesTyped
    BY <1>1 DEF RulesInv, Halfway
  <2>2. /\ \A j \in 1..MaxApplies : Still(apply[j])'
        /\ \A j \in 0..MaxApplies : j # i => Still(update[j])'
    BY <2>1, UpdateAlone DEF Still
  <2> QED BY <2>1, <2>2, OneUpdates
<1> QED BY <1>1 DEF RulesInv

LEMMA UpdateBeginsStep ==
  ASSUME Resolver!Valid, RulesInv, NEW i \in 0..MaxApplies, Resolver!UpdateBegins(i)
  PROVE  RulesInv'
<1> USE DEF Resolver!ruleVars
<1>0. RulesTyped
  BY DEF RulesInv
<1>1. UNCHANGED <<settings, rewrites, filter, list_file, apply, mingled>> /\ update[i].at = "begin"
  BY DEF Resolver!UpdateBegins
<1> DEFINE u == [Resolver!NoWriter EXCEPT !.at = "download"]
<1> DEFINE w == [u EXCEPT !.s = settings]
<1>2. u \in RuleWriter /\ u.at = "download"
  BY NoWriterTyped DEF RuleWriter, WriterPhases
<1>u. update' = [update EXCEPT ![i] = w]
  BY DEF Resolver!UpdateBegins
<1> HIDE DEF u
<1>3. w \in RuleWriter /\ w.at = "download" /\ w.s = settings
  BY <1>0, <1>2 DEF RuleWriter, RulesTyped
<1> HIDE DEF w
<1>4. /\ update' \in [0..MaxApplies -> RuleWriter] /\ update'[i] = w
      /\ \A j \in 0..MaxApplies : j # i => update'[j] = update[j]
  BY <1>0, <1>u, <1>3 DEF RulesTyped
<1>5. RulesTyped'
  BY <1>0, <1>1, <1>4 DEF RulesTyped
<1>6. UpdateHalfway(update[i]) => UpdateHalfway(update[i])' /\ ~Still(update[i])'
  BY <1>1, <1>3, <1>4 DEF UpdateHalfway, Still
<1> QED BY <1>1, <1>4, <1>5, <1>6, UpdateGoes DEF Still

LEMMA DownloadStep ==
  ASSUME Resolver!Valid, RulesInv, NEW i \in 0..MaxApplies, Resolver!Download(i)
  PROVE  RulesInv'
<1> USE DEF Resolver!ruleVars
<1>0. RulesTyped
  BY DEF RulesInv
<1>1. /\ UNCHANGED <<settings, rewrites, filter, apply, mingled>> /\ update[i].at = "download"
      /\ update' = [update EXCEPT ![i].at = "build"] /\ (list_file' = list_file \/ list_file' \in Lists)
  BY DEF Resolver!Download
<1>2. /\ update' \in [0..MaxApplies -> RuleWriter] /\ update'[i].at = "build" /\ update'[i].s = update[i].s
      /\ \A j \in 0..MaxApplies : j # i => update'[j] = update[j]
  BY <1>0, <1>1, UpdateMoves DEF WriterPhases
<1>3. RulesTyped'
  BY <1>0, <1>1, <1>2 DEF RulesTyped
<1>4. UpdateHalfway(update[i]) => UpdateHalfway(update[i])' /\ ~Still(update[i])'
  BY <1>1, <1>2 DEF UpdateHalfway, Still
<1> QED BY <1>1, <1>2, <1>3, <1>4, UpdateGoes DEF Still

LEMMA UpdateBuildsStep ==
  ASSUME Resolver!Valid, RulesInv, NEW i \in 0..MaxApplies, Resolver!UpdateBuilds(i)
  PROVE  RulesInv'
<1> USE DEF Resolver!ruleVars
<1>0. RulesTyped /\ update[i] \in RuleWriter
  BY DEF RulesInv, RulesTyped
<1>1. UNCHANGED <<settings, rewrites, filter, list_file, apply, mingled>> /\ update[i].at = "build"
  BY DEF Resolver!UpdateBuilds
<1> DEFINE u == [update[i] EXCEPT !.at = "filter"]
<1> DEFINE w == [u EXCEPT !.filter = Resolver!Built(update[i].s)]
<1>2. u \in RuleWriter /\ u.at = "filter" /\ u.s = update[i].s
  BY <1>0 DEF RuleWriter, WriterPhases
<1>u. update' = [update EXCEPT ![i] = w]
  BY <1>0 DEF Resolver!UpdateBuilds, RulesTyped
<1>b. update[i].s \in Applied /\ Resolver!Built(update[i].s) \in SUBSET DnsNames
  BY <1>0, BuiltTyped DEF RuleWriter, RulesTyped
<1> HIDE DEF u
<1>3. w \in RuleWriter /\ w.at = "filter" /\ w.s = update[i].s /\ w.filter = Resolver!Built(update[i].s)
  BY <1>b, <1>2 DEF RuleWriter
<1> HIDE DEF w
<1>4. /\ update' \in [0..MaxApplies -> RuleWriter] /\ update'[i] = w
      /\ \A j \in 0..MaxApplies : j # i => update'[j] = update[j]
  BY <1>0, <1>u, <1>3 DEF RulesTyped
<1>5. RulesTyped'
  BY <1>0, <1>1, <1>4 DEF RulesTyped
<1>6. UpdateHalfway(update[i]) => UpdateHalfway(update[i])' /\ ~Still(update[i])'
  BY <1>1, <1>3, <1>4 DEF UpdateHalfway, Still, Resolver!Built
<1> QED BY <1>1, <1>4, <1>5, <1>6, UpdateGoes DEF Still

LEMMA UpdateFilterStep ==
  ASSUME Resolver!Valid, RulesInv, NEW i \in 0..MaxApplies, Resolver!UpdateFilter(i)
  PROVE  RulesInv'
<1>0. RulesTyped /\ update[i] \in RuleWriter
  BY DEF RulesInv, RulesTyped
<1>1. /\ UNCHANGED <<settings, rewrites, list_file, apply, mingled>> /\ update[i].at = "filter"
      /\ filter' = update[i].filter /\ update' = [update EXCEPT ![i].at = "clear"]
  BY DEF Resolver!UpdateFilter
<1>2. /\ update' \in [0..MaxApplies -> RuleWriter] /\ update'[i].at = "clear"
      /\ \A j \in 0..MaxApplies : j # i => update'[j] = update[j]
  BY <1>0, <1>1, UpdateMoves DEF WriterPhases
<1>3. RulesTyped'
  BY <1>0, <1>1, <1>2 DEF RulesTyped, RuleWriter
<1>4. UpdateHalfway(update[i]) => UpdateHalfway(update[i])' /\ ~Still(update[i])'
  BY <1>1, <1>2 DEF UpdateHalfway, Still, Follow, Resolver!Built
<1> QED BY <1>1, <1>2, <1>3, <1>4, UpdateGoes DEF Still

LEMMA UpdateClearStep ==
  ASSUME Resolver!Valid, RulesInv, NEW i \in 0..MaxApplies, Resolver!UpdateClear(i)
  PROVE  RulesInv'
<1> USE DEF Resolver!ruleVars
<1>0. RulesTyped
  BY DEF RulesInv
<1> DEFINE w == [Resolver!NoWriter EXCEPT !.at = "done"]
<1>1. UNCHANGED <<settings, rewrites, filter, list_file, apply, mingled>> /\ update[i].at = "clear"
  BY DEF Resolver!UpdateClear
<1>2. w \in RuleWriter /\ w.at = "done" /\ update' = [update EXCEPT ![i] = w]
  BY NoWriterTyped DEF Resolver!UpdateClear, RuleWriter, WriterPhases
<1> HIDE DEF w
<1>3. /\ update' \in [0..MaxApplies -> RuleWriter] /\ update'[i] = w
      /\ \A j \in 0..MaxApplies : j # i => update'[j] = update[j]
  BY <1>0, <1>2 DEF RulesTyped
<1>4. RulesTyped'
  BY <1>0, <1>1, <1>3 DEF RulesTyped
<1>5. UpdateHalfway(update[i]) => UpdateHalfway(update[i])' /\ Follow(settings)'
  BY <1>1, <1>2, <1>3 DEF UpdateHalfway, Still, Follow, Resolver!Built
<1> QED BY <1>1, <1>3, <1>4, <1>5, UpdateGoes DEF Still

LEMMA RulesUntouched ==
  ASSUME RulesInv, UNCHANGED <<settings, rewrites, filter, list_file, apply, update, mingled>>
  PROVE  RulesInv'
<1>1. RulesTyped'
  BY DEF RulesInv, RulesTyped
<1>2. OneAtOnce /\ Halfway => OneAtOnce' /\ Halfway'
  BY DEF OneAtOnce, Halfway, AllStill, Still, ApplyHalfway, UpdateHalfway, Follow, Resolver!Built
<1> QED BY <1>1, <1>2 DEF RulesInv

--------------------------------------------------------------------------------
(* The DNS resolver: what answers a question.                                 *)

QueryPhases == {"idle", "explain", "handle", "filter", "lookup", "upstream", "store", "verdict", "done"}
Outcomes == {"none", "by name", "blocked", "not ours", "local", "failed", "cloaked", "answered"}

QueryRecord ==
  [at : QueryPhases, name : DnsNames, by : {"packet", "name"}, s : Resolver!Settings,
   filter : SUBSET DnsNames, cached : BOOLEAN, outcome : Outcomes]

Asking(q) == q.at \notin {"idle", "done"}

Permitted(name, seen) ==
  \/ \E f \in seen : ~f.on
  \/ /\ \E f \in seen : name \notin f.services
     /\ \E f \in seen : ({name} \cup Targets[name]) \cap f.rules = {}

Judged(q, seen) == q.name \notin q.s.services \cup q.filter /\ \E f \in seen : f.rules = q.filter

(* The settings and the filter a question goes by were in force during it.    *)
GoesBy(q, seen) ==
  /\ \E f \in seen : f.on = q.s.enabled /\ f.services = q.s.services
  /\ q.at = "filter" => q.s.enabled /\ q.name \notin q.s.services
  /\ q.at \in {"lookup", "upstream", "store", "verdict"} => ~q.s.enabled \/ Judged(q, seen)

QueryFollows(q, seen) ==
  /\ Asking(q) => Resolver!InForce \in seen /\ GoesBy(q, seen)
  /\ q.outcome = "answered" => q.at = "done" /\ Permitted(q.name, seen)

QueriesInv ==
  /\ query \in [DnsClients -> QueryRecord] /\ DOMAIN in_force = DnsClients
  /\ \A c \in DnsClients : QueryFollows(query[c], in_force[c])

LEMMA NoQueryTyped ==
  ASSUME Resolver!Valid
  PROVE  /\ Resolver!NoQuery \in QueryRecord
         /\ Resolver!NoQuery.at = "idle" /\ Resolver!NoQuery.outcome = "none"
<1>1. /\ (CHOOSE s \in Applied : TRUE) \in Resolver!Settings
      /\ (CHOOSE n \in DnsNames : TRUE) \in DnsNames
  BY DEF Resolver!Valid
<1> QED BY <1>1 DEF Resolver!NoQuery, QueryRecord, QueryPhases, Outcomes

LEMMA QueriesInvInit ==
  ASSUME Resolver!Valid, Resolver!Init
  PROVE  QueriesInv
<1>1. query = [c \in DnsClients |-> Resolver!NoQuery] /\ in_force = [c \in DnsClients |-> {}]
  BY DEF Resolver!Init
<1> QED BY <1>1, NoQueryTyped DEF QueriesInv, QueryFollows, Asking

(* What is put in force is noted for every question being answered.           *)
LEMMA NotedFollows ==
  ASSUME QueriesInv, UNCHANGED query, Resolver!Noted
  PROVE  QueriesInv'
<1>1. DOMAIN in_force' = DnsClients
  BY DEF Resolver!Noted
<1>2. ASSUME NEW c \in DnsClients
      PROVE  QueryFollows(query[c], in_force[c])'
  <2>1. CASE Asking(query[c])
    <3>1. in_force'[c] = in_force[c] \cup {Resolver!InForce'}
      BY <2>1 DEF Resolver!Noted, Asking
    <3>2. GoesBy(query[c], in_force[c]) /\ query[c].outcome # "answered"
      BY <2>1 DEF QueriesInv, QueryFollows, Asking
    <3>3. GoesBy(query[c], in_force[c])'
      BY <3>1, <3>2 DEF GoesBy, Judged
    <3> QED BY <3>1, <3>2, <3>3 DEF QueryFollows
  <2>2. CASE ~Asking(query[c])
    <3>1. in_force'[c] = in_force[c]
      BY <2>2 DEF Resolver!Noted, Asking
    <3> QED BY <2>2, <3>1 DEF QueriesInv, QueryFollows, Asking, Permitted
  <2> QED BY <2>1, <2>2
<1> QED BY <1>1, <1>2 DEF QueriesInv

LEMMA QueriesUntouched ==
  ASSUME QueriesInv, UNCHANGED <<settings, filter, query, in_force>>
  PROVE  QueriesInv'
BY DEF QueriesInv, QueryFollows, Asking, GoesBy, Judged, Permitted, Resolver!InForce

(* One question moves on.                                                     *)
LEMMA QueryGoes ==
  ASSUME QueriesInv, NEW c \in DnsClients, NEW q \in QueryRecord, query' = [query EXCEPT ![c] = q],
         UNCHANGED <<settings, filter, in_force>>, QueryFollows(q, in_force[c])
  PROVE  QueriesInv'
<1>1. query' \in [DnsClients -> QueryRecord] /\ query'[c] = q /\ \A d \in DnsClients : d # c => query'[d] = query[d]
  BY DEF QueriesInv
<1>2. ASSUME NEW d \in DnsClients
      PROVE  QueryFollows(query[d], in_force[d])'
  BY <1>1 DEF QueriesInv, QueryFollows, Asking, GoesBy, Judged, Permitted, Resolver!InForce
<1> QED BY <1>1, <1>2 DEF QueriesInv

LEMMA QueryEnds ==
  ASSUME Resolver!Valid, QueriesInv, NEW c \in DnsClients, NEW outcome \in Outcomes, Resolver!Ends(c, outcome),
         outcome = "answered" => Permitted(query[c].name, in_force[c])
  PROVE  QueriesInv'
<1> USE DEF Resolver!ruleVars
<1> DEFINE q1 == [Resolver!NoQuery EXCEPT !.at = "done"]
           q2 == [q1 EXCEPT !.name = query[c].name]
           q3 == [q2 EXCEPT !.outcome = outcome]
<1>1. query' = [query EXCEPT ![c] = q3] /\ UNCHANGED <<settings, filter, in_force>>
  BY DEF Resolver!Ends, Resolver!Answering
<1>2. q1 \in QueryRecord /\ q1.at = "done"
  BY NoQueryTyped DEF QueryRecord, QueryPhases
<1> HIDE DEF q1
<1>3. query[c].name \in DnsNames
  BY DEF QueriesInv, QueryRecord
<1>4. q2 \in QueryRecord /\ q2.at = "done" /\ q2.name = query[c].name
  BY <1>2, <1>3 DEF QueryRecord
<1> HIDE DEF q2
<1>5. q3 \in QueryRecord /\ q3.at = "done" /\ q3.name = query[c].name /\ q3.outcome = outcome
  BY <1>4 DEF QueryRecord
<1> HIDE DEF q3
<1>6. QueryFollows(q3, in_force[c])
  BY <1>5 DEF QueryFollows, Asking
<1> QED BY <1>1, <1>5, <1>6, QueryGoes

LEMMA QueryMoves ==
  ASSUME QueriesInv, NEW c \in DnsClients, Asking(query[c]), NEW at \in QueryPhases, Resolver!Goes(c, at),
         at \notin {"idle", "done"},
         at = "filter" => query[c].s.enabled /\ query[c].name \notin query[c].s.services,
         at \in {"lookup", "upstream", "store", "verdict"} => ~query[c].s.enabled \/ Judged(query[c], in_force[c])
  PROVE  QueriesInv'
<1> USE DEF Resolver!ruleVars
<1> DEFINE q == [query[c] EXCEPT !.at = at]
<1>1. query' = [query EXCEPT ![c] = q] /\ UNCHANGED <<settings, filter, in_force>>
  BY DEF Resolver!Goes, Resolver!Answering
<1>2. query[c] \in QueryRecord /\ QueryFollows(query[c], in_force[c])
  BY DEF QueriesInv
<1>3. /\ q \in QueryRecord /\ q.at = at /\ q.name = query[c].name /\ q.s = query[c].s
      /\ q.filter = query[c].filter /\ q.outcome = query[c].outcome
  BY <1>2 DEF QueryRecord
<1> HIDE DEF q
<1>4. QueryFollows(q, in_force[c])
  BY <1>2, <1>3 DEF QueryFollows, Asking, GoesBy, Judged
<1> QED BY <1>1, <1>3, <1>4, QueryGoes

LEMMA AsksStep ==
  ASSUME Resolver!Valid, RulesTyped, QueriesInv, NEW c \in DnsClients, NEW n \in DnsNames,
         NEW by \in {"packet", "name"}, Resolver!Asks(c, n, by)
  PROVE  QueriesInv'
<1> USE DEF Resolver!ruleVars
<1> DEFINE to == IF by = "name" THEN "explain" ELSE "handle"
           q1 == [Resolver!NoQuery EXCEPT !.name = n]
           q2 == [q1 EXCEPT !.by = by]
           q3 == [q2 EXCEPT !.s = settings]
           q4 == [q3 EXCEPT !.at = to]
<1>1. /\ query' = [query EXCEPT ![c] = q4] /\ in_force' = [in_force EXCEPT ![c] = {Resolver!InForce}]
      /\ UNCHANGED <<settings, filter>>
  BY DEF Resolver!Asks
<1>2. q1 \in QueryRecord /\ q1.outcome = "none"
  BY NoQueryTyped DEF QueryRecord
<1> HIDE DEF q1
<1>3. q2 \in QueryRecord /\ q2.outcome = "none"
  BY <1>2 DEF QueryRecord
<1> HIDE DEF q2
<1>4. q3 \in QueryRecord /\ q3.outcome = "none" /\ q3.s = settings
  BY <1>3 DEF QueryRecord, RulesTyped, Resolver!Valid
<1> HIDE DEF q3
<1>5. to \in {"explain", "handle"}
  OBVIOUS
<1> HIDE DEF to
<1>6. q4 \in QueryRecord /\ q4.outcome = "none" /\ q4.s = settings /\ q4.at \in {"explain", "handle"}
  BY <1>4, <1>5 DEF QueryRecord, QueryPhases
<1> HIDE DEF q4
<1>7. /\ query' \in [DnsClients -> QueryRecord] /\ query'[c] = q4
      /\ DOMAIN in_force' = DnsClients /\ in_force'[c] = {Resolver!InForce}
      /\ \A d \in DnsClients : d # c => query'[d] = query[d] /\ in_force'[d] = in_force[d]
  BY <1>1, <1>6 DEF QueriesInv
<1>8. QueryFollows(query[c], in_force[c])'
  BY <1>1, <1>6, <1>7 DEF QueryFollows, GoesBy, Resolver!InForce
<1>9. \A d \in DnsClients : d # c => QueryFollows(query[d], in_force[d])'
  BY <1>1, <1>7 DEF QueriesInv, QueryFollows, Asking, GoesBy, Judged, Permitted, Resolver!InForce
<1> QED BY <1>7, <1>8, <1>9 DEF QueriesInv

LEMMA ExplainStep ==
  ASSUME Resolver!Valid, RulesTyped, QueriesInv, NEW c \in DnsClients, Resolver!Explain(c)
  PROVE  QueriesInv'
<1> USE DEF Resolver!ruleVars
<1>1. CASE \E outcome \in {"by name", "blocked"} : Resolver!Ends(c, outcome)
  BY <1>1, QueryEnds DEF Outcomes
<1>2. CASE Resolver!Answering(c, [query[c] EXCEPT !.at = "handle", !.s = settings])
  <2> DEFINE q1 == [query[c] EXCEPT !.at = "handle"]
             q2 == [q1 EXCEPT !.s = settings]
  <2>1. query' = [query EXCEPT ![c] = q2] /\ UNCHANGED <<settings, filter, in_force>>
    BY <1>2 DEF Resolver!Answering
  <2>2. query[c] \in QueryRecord /\ QueryFollows(query[c], in_force[c]) /\ query[c].at = "explain"
    BY DEF QueriesInv, Resolver!Explain
  <2>3. q1 \in QueryRecord /\ q1.at = "handle" /\ q1.outcome = query[c].outcome
    BY <2>2 DEF QueryRecord, QueryPhases
  <2> HIDE DEF q1
  <2>4. q2 \in QueryRecord /\ q2.at = "handle" /\ q2.outcome = query[c].outcome /\ q2.s = settings
    BY <2>3 DEF QueryRecord, RulesTyped, Resolver!Valid
  <2> HIDE DEF q2
  <2>5. Resolver!InForce \in in_force[c] /\ query[c].outcome # "answered"
    BY <2>2 DEF QueryFollows, Asking
  <2>6. GoesBy(q2, in_force[c])
    BY <2>4, <2>5 DEF GoesBy, Resolver!InForce
  <2>7. QueryFollows(q2, in_force[c])
    BY <2>4, <2>5, <2>6 DEF QueryFollows
  <2> QED BY <2>1, <2>4, <2>7, QueryGoes
<1> QED BY <1>1, <1>2 DEF Resolver!Explain

LEMMA HandleStep ==
  ASSUME Resolver!Valid, QueriesInv, NEW c \in DnsClients, Resolver!Handle(c)
  PROVE  QueriesInv'
<1>1. CASE \E outcome \in {"not ours", "local", "blocked"} : Resolver!Ends(c, outcome)
  BY <1>1, QueryEnds DEF Outcomes
<1>a. Asking(query[c])
  BY DEF Resolver!Handle, Asking
<1>2. CASE ~query[c].s.enabled /\ Resolver!Goes(c, "lookup")
  BY <1>a, <1>2, QueryMoves DEF QueryPhases
<1>3. CASE query[c].s.enabled /\ query[c].name \notin query[c].s.services /\ Resolver!Goes(c, "filter")
  BY <1>a, <1>3, QueryMoves DEF QueryPhases
<1> QED BY <1>1, <1>2, <1>3 DEF Resolver!Handle, Resolver!Refuses

LEMMA JudgeNameStep ==
  ASSUME Resolver!Valid, RulesTyped, QueriesInv, NEW c \in DnsClients, Resolver!JudgeName(c)
  PROVE  QueriesInv'
<1> USE DEF Resolver!ruleVars
<1>1. CASE Resolver!Ends(c, "blocked")
  BY <1>1, QueryEnds DEF Outcomes
<1>2. CASE /\ query[c].name \notin filter
           /\ Resolver!Answering(c, [query[c] EXCEPT !.at = "lookup", !.filter = filter])
  <2> DEFINE q1 == [query[c] EXCEPT !.at = "lookup"]
             q2 == [q1 EXCEPT !.filter = filter]
  <2>1. query' = [query EXCEPT ![c] = q2] /\ UNCHANGED <<settings, filter, in_force>>
    BY <1>2 DEF Resolver!Answering
  <2>2. query[c] \in QueryRecord /\ QueryFollows(query[c], in_force[c]) /\ query[c].at = "filter"
    BY DEF QueriesInv, Resolver!JudgeName
  <2>3. /\ q1 \in QueryRecord /\ q1.at = "lookup" /\ q1.outcome = query[c].outcome
        /\ q1.s = query[c].s /\ q1.name = query[c].name
    BY <2>2 DEF QueryRecord, QueryPhases
  <2> HIDE DEF q1
  <2>4. /\ q2 \in QueryRecord /\ q2.at = "lookup" /\ q2.outcome = query[c].outcome
        /\ q2.s = query[c].s /\ q2.name = query[c].name /\ q2.filter = filter
    BY <2>3 DEF QueryRecord, RulesTyped
  <2> HIDE DEF q2
  <2>5. /\ Resolver!InForce \in in_force[c] /\ query[c].outcome # "answered"
        /\ GoesBy(query[c], in_force[c])
    BY <2>2 DEF QueryFollows, Asking
  <2>6. Judged(q2, in_force[c])
    BY <1>2, <2>2, <2>4, <2>5 DEF Judged, GoesBy, Resolver!InForce
  <2>7. GoesBy(q2, in_force[c])
    BY <2>4, <2>5, <2>6 DEF GoesBy
  <2>8. QueryFollows(q2, in_force[c])
    BY <2>4, <2>5, <2>7 DEF QueryFollows
  <2> QED BY <2>1, <2>4, <2>8, QueryGoes
<1> QED BY <1>1, <1>2 DEF Resolver!JudgeName

LEMMA LookupStep ==
  ASSUME Resolver!Valid, RulesTyped, QueriesInv, NEW c \in DnsClients, Resolver!Lookup(c)
  PROVE  QueriesInv'
<1> USE DEF Resolver!ruleVars
<1> DEFINE t  == [query[c].s EXCEPT !.cache_size = settings.cache_size]
           q0 == [query[c] EXCEPT !.s = t]
           q1 == [q0 EXCEPT !.cached = TRUE]
           q2 == [q1 EXCEPT !.at = "verdict"]
           q3 == [q0 EXCEPT !.at = "upstream"]
<1>1. /\ query' = [query EXCEPT ![c] = q2] \/ query' = [query EXCEPT ![c] = q3]
      /\ UNCHANGED <<settings, filter, in_force>>
  BY DEF Resolver!Lookup, Resolver!Answering
<1>2. query[c] \in QueryRecord /\ QueryFollows(query[c], in_force[c]) /\ query[c].at = "lookup"
  BY DEF QueriesInv, Resolver!Lookup
<1>3. query[c].s \in Resolver!Settings /\ settings.cache_size \in Nat
  BY <1>2 DEF QueryRecord, RulesTyped, Resolver!Valid, Resolver!Settings
<1>4. t \in Resolver!Settings /\ t.enabled = query[c].s.enabled /\ t.services = query[c].s.services
  BY <1>3 DEF Resolver!Settings
<1> HIDE DEF t
<1>5. /\ q0 \in QueryRecord /\ q0.name = query[c].name /\ q0.filter = query[c].filter
      /\ q0.outcome = query[c].outcome /\ q0.s = t
  BY <1>2, <1>4 DEF QueryRecord
<1> HIDE DEF q0
<1>6. /\ q1 \in QueryRecord /\ q1.name = query[c].name /\ q1.filter = query[c].filter
      /\ q1.outcome = query[c].outcome /\ q1.s = t
  BY <1>5 DEF QueryRecord
<1> HIDE DEF q1
<1>7. /\ q2 \in QueryRecord /\ q2.name = query[c].name /\ q2.filter = query[c].filter
      /\ q2.outcome = query[c].outcome /\ q2.s = t /\ q2.at = "verdict"
  BY <1>6 DEF QueryRecord, QueryPhases
<1>8. /\ q3 \in QueryRecord /\ q3.name = query[c].name /\ q3.filter = query[c].filter
      /\ q3.outcome = query[c].outcome /\ q3.s = t /\ q3.at = "upstream"
  BY <1>5 DEF QueryRecord, QueryPhases
<1> HIDE DEF q2, q3
<1>9. /\ Resolver!InForce \in in_force[c] /\ query[c].outcome # "answered"
      /\ GoesBy(query[c], in_force[c])
  BY <1>2 DEF QueryFollows, Asking
<1>10. GoesBy(q2, in_force[c]) /\ GoesBy(q3, in_force[c])
  BY <1>2, <1>4, <1>7, <1>8, <1>9 DEF GoesBy, Judged
<1>11. QueryFollows(q2, in_force[c]) /\ QueryFollows(q3, in_force[c])
  BY <1>7, <1>8, <1>9, <1>10 DEF QueryFollows
<1> QED BY <1>1, <1>7, <1>8, <1>11, QueryGoes

LEMMA UpstreamStep ==
  ASSUME Resolver!Valid, QueriesInv, NEW c \in DnsClients, Resolver!Upstream(c) \/ Resolver!Store(c)
  PROVE  QueriesInv'
<1>1. CASE Resolver!Ends(c, Resolver!Unresolved(c))
  <2>1. Resolver!Unresolved(c) \in Outcomes /\ Resolver!Unresolved(c) # "answered"
    BY DEF Resolver!Unresolved, Outcomes
  <2> QED BY <1>1, <2>1, QueryEnds
<1>2. CASE \E at \in {"store", "verdict"} : Resolver!Goes(c, at) /\ query[c].at \in {"upstream", "store"}
  <2>1. Asking(query[c]) /\ query[c].at \in {"upstream", "store"}
    BY <1>2 DEF Asking
  <2>2. ~query[c].s.enabled \/ Judged(query[c], in_force[c])
    BY <2>1 DEF QueriesInv, QueryFollows, GoesBy
  <2> QED BY <1>2, <2>1, <2>2, QueryMoves DEF QueryPhases
<1> QED BY <1>1, <1>2 DEF Resolver!Upstream, Resolver!Store

LEMMA VerdictStep ==
  ASSUME Resolver!Valid, QueriesInv, NEW c \in DnsClients, Resolver!Verdict(c)
  PROVE  QueriesInv'
<1>1. CASE \E outcome \in {"cloaked", "blocked"} : Resolver!Ends(c, outcome)
  BY <1>1, QueryEnds DEF Outcomes
<1>2. CASE (~query[c].s.enabled \/ Resolver!Cloaked(c) = {}) /\ Resolver!Ends(c, "answered")
  <2>1. query[c].at = "verdict"
    BY DEF Resolver!Verdict
  <2>2. GoesBy(query[c], in_force[c])
    BY <2>1 DEF QueriesInv, QueryFollows, Asking
  <2>3. ~query[c].s.enabled => Permitted(query[c].name, in_force[c])
    <3>1. PICK f \in in_force[c] : f.on = query[c].s.enabled
      BY <2>2 DEF GoesBy
    <3>2. ~query[c].s.enabled => ~f.on
      BY <3>1, Zenon
    <3> QED BY <3>2 DEF Permitted
  <2>4. ASSUME Resolver!Cloaked(c) = {}, Judged(query[c], in_force[c])
        PROVE  Permitted(query[c].name, in_force[c])
    <3>1. \E f \in in_force[c] : query[c].name \notin f.services
      BY <2>2, <2>4 DEF GoesBy, Judged
    <3>2. \E f \in in_force[c] : ({query[c].name} \cup Targets[query[c].name]) \cap f.rules = {}
      BY <2>4 DEF Judged, Resolver!Cloaked
    <3> QED BY <3>1, <3>2 DEF Permitted
  <2>5. Permitted(query[c].name, in_force[c])
    BY <1>2, <2>1, <2>2, <2>3, <2>4 DEF GoesBy
  <2> QED BY <1>2, <2>5, QueryEnds DEF Outcomes
<1> QED BY <1>1, <1>2 DEF Resolver!Verdict

DnsInv == RulesInv /\ QueriesInv

LEMMA ReplacingStep ==
  ASSUME Resolver!Valid, DnsInv,
         \/ \E i \in 1..MaxApplies :
              \/ \E s \in Applied : Resolver!ApplyBegins(i, s)
              \/ Resolver!ApplyFilter(i) \/ Resolver!ApplyRewrites(i) \/ Resolver!ApplySettings(i)
              \/ Resolver!ApplyClear(i)
         \/ Resolver!TimerUpdates \/ Resolver!ListAges
         \/ \E i \in 0..MaxApplies :
              \/ Resolver!UpdateBegins(i) \/ Resolver!Download(i) \/ Resolver!UpdateBuilds(i)
              \/ Resolver!UpdateFilter(i) \/ Resolver!UpdateClear(i)
  PROVE  DnsInv'
<1> USE DEF DnsInv, Resolver!ruleVars, Resolver!queryVars
<1>1. RulesInv'
  <2>1. CASE Resolver!ListAges
    BY <2>1, RulesUntouched DEF Resolver!ListAges
  <2> QED BY <2>1, ApplyBeginsStep, ApplyStep, ApplyClearStep, TimerStep, UpdateBeginsStep, DownloadStep,
             UpdateBuildsStep, UpdateFilterStep, UpdateClearStep
<1>2. QueriesInv'
  <2>1. CASE UNCHANGED query /\ Resolver!Noted
    BY <2>1, NotedFollows
  <2>2. CASE UNCHANGED <<settings, filter, query, in_force>>
    BY <2>2, QueriesUntouched
  <2> QED BY <2>1, <2>2 DEF Resolver!ApplyBegins, Resolver!ApplyFilter, Resolver!ApplyRewrites,
             Resolver!ApplySettings, Resolver!ApplyClear, Resolver!TimerUpdates, Resolver!ListAges,
             Resolver!UpdateBegins, Resolver!Download, Resolver!UpdateBuilds, Resolver!UpdateFilter,
             Resolver!UpdateClear
<1> QED BY <1>1, <1>2

LEMMA AnsweringStep ==
  ASSUME Resolver!Valid, DnsInv, NEW c \in DnsClients,
         \/ \E n \in DnsNames, by \in {"packet", "name"} : Resolver!Asks(c, n, by)
         \/ Resolver!Explain(c) \/ Resolver!Handle(c) \/ Resolver!JudgeName(c) \/ Resolver!Lookup(c)
         \/ Resolver!Upstream(c) \/ Resolver!Store(c) \/ Resolver!Verdict(c)
  PROVE  DnsInv'
<1>1. QueriesInv'
  BY AsksStep, ExplainStep, HandleStep, JudgeNameStep, LookupStep, UpstreamStep, VerdictStep DEF DnsInv, RulesInv
<1>2. UNCHANGED <<settings, rewrites, filter, list_file, apply, update, mingled>>
  BY ZenonT(40) DEF Resolver!Asks, Resolver!Explain, Resolver!Handle, Resolver!JudgeName, Resolver!Lookup, Resolver!Upstream,
         Resolver!Store, Resolver!Verdict, Resolver!Ends, Resolver!Goes, Resolver!Answering,
         Resolver!ruleVars, Resolver!writerVars
<1> QED BY <1>1, <1>2, RulesUntouched DEF DnsInv

LEMMA DnsInvStep ==
  ASSUME Resolver!Valid, DnsInv, Resolver!Next \/ UNCHANGED resolverVars
  PROVE  DnsInv'
<1>1. CASE UNCHANGED resolverVars
  BY <1>1, RulesUntouched, QueriesUntouched DEF resolverVars, DnsInv
<1>2. CASE Resolver!Next
  <2>1. DOMAIN apply = 1..MaxApplies /\ DOMAIN update = 0..MaxApplies
    BY DEF DnsInv, RulesInv, RulesTyped
  <2> QED BY <1>2, <2>1, ReplacingStep, AnsweringStep DEF Resolver!Next
<1> QED BY <1>1, <1>2

LEMMA DnsInvSound ==
  ASSUME DnsInv
  PROVE  Resolver!DnsSound
<1>1. Resolver!AnsweredByTheRules
  BY DEF DnsInv, QueriesInv, QueryFollows, Permitted, Resolver!AnsweredByTheRules
<1>2. Resolver!RulesFollow
  BY BusyFact DEF DnsInv, RulesInv, Halfway, Follow, Resolver!RulesFollow
<1> QED BY <1>1, <1>2 DEF Resolver!DnsSound

--------------------------------------------------------------------------------
(* The way out of the server.                                                 *)

TcpPhases == {"idle", "name", "address", "socks5", "request", "http", "try", "open", "failed"}
TcpRecord ==
  [at : TcpPhases, cfg : Out!OutboundConfig, host : Out!Hosts, addresses : Seq(Out!Addresses),
   seconds : Nat, resolved : Seq(Out!Addresses)]
UdpRecord == [at : {"open", "closed"}, cfg : Out!OutboundConfig, dual : BOOLEAN, proxy : BOOLEAN]

EgressTyped == outbound \in Out!OutboundConfig /\ tcp \in TcpRecord /\ udp \in UdpRecord

(* What left, left the way the rules of its configuration say.                *)
AsRuled(l) ==
  /\ l.cfg \in Out!OutboundConfig
  /\ \/ l.via = "direct" /\ Out!Directly(l.cfg, l.host, l.protocol)
     \/ /\ l.via = "proxy" /\ ~Out!Directly(l.cfg, l.host, l.protocol)
        /\ Out!Action(l.cfg, l.host, l.protocol) = "proxy"
     \/ l.via = "itself" /\ l.protocol = "tcp"

(* Every address once, the IPv4 ones first.                                   *)
Ordering(order, found) ==
  /\ order \in [DOMAIN found -> DOMAIN found]
  /\ \A i, j \in DOMAIN found : order[i] = order[j] => i = j
  /\ \A x \in DOMAIN found : \E i \in DOMAIN found : order[i] = x
  /\ \A i, j \in DOMAIN found : i < j /\ found[order[j]].family = 4 => found[order[i]].family = 4

Hung(order, found, k) == {x \in DOMAIN found : found[x].answers = "never" /\ \E i \in 1..k : order[i] = x}

(* The first k addresses of the order were tried, and each that hung cost its *)
(* seconds.                                                                   *)
Tried(t, order, k) ==
  /\ Ordering(order, t.resolved) /\ k \in 0..Len(t.resolved) /\ Len(t.addresses) + k = Len(t.resolved)
  /\ \A i \in 1..Len(t.addresses) : t.addresses[i] = t.resolved[order[i + k]]
  /\ \A i \in 1..k : t.resolved[order[i]].answers # "yes"
  /\ t.seconds = 3 * Cardinality(Hung(order, t.resolved, k))

Trying ==
  /\ tcp.at = "try" => \E order \in [DOMAIN tcp.resolved -> DOMAIN tcp.resolved], k \in Nat : Tried(tcp, order, k)
  /\ tcp.at \notin {"try", "open", "failed"} => tcp.resolved = <<>> /\ tcp.seconds = 0

(* An association without a proxy meets only what its targets sent.           *)
Association ==
  /\ udp.at = "closed" => arrived = {} /\ answers = {} /\ ~udp.proxy
  /\ ~udp.proxy => \A r \in arrived : r.source = r.host
  /\ \A r \in arrived : r.host \in Out!Hosts
  /\ Out!RepliesAreFromTheTarget

EgressInv ==
  EgressTyped /\ (\A l \in left : AsRuled(l)) /\ Trying /\ Association /\ Out!ReachesTheOthers

LEMMA NoTcpTyped ==
  ASSUME Out!Valid
  PROVE  Out!NoTcp \in TcpRecord /\ Out!NoTcp.at = "idle" /\ Out!NoTcp.resolved = <<>> /\ Out!NoTcp.seconds = 0
<1>1. (CHOOSE c \in Outbounds : TRUE) \in Out!OutboundConfig /\ (CHOOSE h \in Out!Hosts : TRUE) \in Out!Hosts
  BY DEF Out!Valid
<1> QED BY <1>1 DEF Out!NoTcp, TcpRecord, TcpPhases

LEMMA EgressInvInit ==
  ASSUME Out!Valid, Out!Init
  PROVE  EgressInv
<1>1. /\ outbound \in Out!OutboundConfig /\ tcp = Out!NoTcp /\ udp \in UdpRecord /\ udp.at = "closed" /\ udp.proxy = FALSE
      /\ arrived = {} /\ answers = {} /\ left = {}
  BY DEF Out!Init, Out!Valid, UdpRecord
<1>2. EgressTyped /\ Trying
  BY <1>1, NoTcpTyped DEF EgressTyped, Trying
<1>3. Association
  BY <1>1 DEF Association, Out!RepliesAreFromTheTarget
<1>4. Out!ReachesTheOthers
  BY <1>1, NoTcpTyped DEF Out!ReachesTheOthers
<1> QED BY <1>1, <1>2, <1>3, <1>4 DEF EgressInv

(* The sort leaves such an order.                                             *)
LEMMA PreferredOrders ==
  ASSUME NEW found \in Seq(Out!Addresses), NEW sorted \in Out!Preferred(found)
  PROVE  /\ sorted \in Seq(Out!Addresses) /\ Len(sorted) = Len(found)
         /\ \E order \in [DOMAIN found -> DOMAIN found] :
              Ordering(order, found) /\ \A i \in DOMAIN found : sorted[i] = found[order[i]]
<1>1. PICK o \in Out!SetToSeqs(DOMAIN found) :
        /\ sorted = [i \in DOMAIN found |-> found[o[i]]]
        /\ \A i, j \in DOMAIN found : i < j =>
             \/ found[o[i]].family = 4 /\ found[o[j]].family = 6
             \/ found[o[i]].family = found[o[j]].family /\ o[i] < o[j]
  BY DEF Out!Preferred
<1>2. PICK n \in Nat : DOMAIN found = 1..n /\ n = Len(found)
  OBVIOUS
<1>3. Cardinality(1..n) = n /\ IsFiniteSet(1..n)
  BY FS_Interval
<1>4. Out!Cardinality(DOMAIN found) = n
  BY <1>2, <1>3 DEF Cardinality, Out!Cardinality
<1>5. o \in [1..n -> 1..n] /\ \A i, j \in 1..n : i # j => o[i] # o[j]
  BY <1>2, <1>4 DEF Out!SetToSeqs
<1>6. \A x \in 1..n : \E i \in 1..n : o[i] = x
  <2>1. SUFFICES ASSUME NEW x \in 1..n, \A i \in 1..n : o[i] # x
                 PROVE  FALSE
    BY SMTT(40)
  <2>2. o \in [1..n -> (1..n) \ {x}]
    BY <1>5, <2>1
  <2>3. IsFiniteSet((1..n) \ {x}) /\ Cardinality((1..n) \ {x}) < Cardinality(1..n)
    <3>1. IsFiniteSet((1..n) \ {x}) /\ Cardinality((1..n) \ {x}) = Cardinality(1..n) - 1
      <4> DEFINE whole == 1..n
      <4>1. x \in whole /\ IsFiniteSet(whole)
        BY <1>3, <2>1
      <4> HIDE DEF whole
      <4>2. IsFiniteSet(whole \ {x}) /\ Cardinality(whole \ {x}) = Cardinality(whole) - 1
        BY <4>1, FS_RemoveElement
      <4> QED BY <4>2 DEF whole
    <3> QED BY <1>2, <1>3, <3>1
  <2>4. \E i, j \in 1..n : i # j /\ o[i] = o[j]
    BY <1>3, <2>2, <2>3, FS_PigeonHole
  <2> QED BY <1>5, <2>4
<1>7. Ordering(o, found)
  BY <1>1, <1>2, <1>5, <1>6 DEF Ordering
<1>8. sorted \in Seq(Out!Addresses) /\ Len(sorted) = Len(found) /\ \A i \in DOMAIN found : sorted[i] = found[o[i]]
  BY <1>1, <1>2, <1>5
<1> QED BY <1>2, <1>5, <1>7, <1>8

(* The first rule that matches decides, or the default does.                  *)
LEMMA ActionDecided ==
  ASSUME NEW c \in Out!OutboundConfig, NEW host, NEW protocol
  PROVE  \/ /\ \E i \in DOMAIN c.rules :
                 Out!Decides(c, i, host, protocol) /\ Out!Action(c, host, protocol) = c.rules[i].action
         \/ /\ Out!Action(c, host, protocol) = c.default
            /\ \A i \in DOMAIN c.rules : ~Out!Decides(c, i, host, protocol)
<1> DEFINE H == Out!Hits(c, host, protocol)
<1>1. c.rules \in Seq(Out!OutboundRule)
  BY DEF Out!OutboundConfig
<1>2. H \in SUBSET (DOMAIN c.rules) /\ H \in SUBSET Nat /\ \A i \in H : i >= 1
  BY <1>1 DEF Out!Hits
<1>3. CASE H = {}
  BY <1>3 DEF Out!Action, Out!Decides
<1>4. CASE H # {}
  <2>1. \E i \in H : \A j \in H : i <= j
    BY <1>2, <1>4, Least
  <2> DEFINE first == CHOOSE i \in H : \A j \in H : i <= j
  <2>2. first \in H /\ \A j \in H : first <= j
    BY <2>1
  <2>3. Out!Action(c, host, protocol) = c.rules[first].action
    BY <1>4 DEF Out!Action
  <2> HIDE DEF first
  <2>4. \A j \in 1..(first - 1) : j \notin H
    BY <1>2, <2>2
  <2>5. Out!Decides(c, first, host, protocol)
    BY <2>2, <2>4 DEF Out!Decides
  <2> QED BY <1>2, <2>2, <2>3, <2>5
<1> QED BY <1>3, <1>4

(* Rules for every protocol hit TCP and UDP alike.                            *)
LEMMA ActionAlike ==
  ASSUME NEW c \in Out!OutboundConfig, NEW host, \A i \in DOMAIN c.rules : c.rules[i].protocol = "any"
  PROVE  Out!Action(c, host, "tcp") = Out!Action(c, host, "udp")
<1> DEFINE First(hits) == IF hits = {} THEN c.default
                          ELSE c.rules[CHOOSE i \in hits : \A j \in hits : i <= j].action
<1>1. Out!Hits(c, host, "tcp") = Out!Hits(c, host, "udp")
  BY DEF Out!Hits
<1>2. /\ Out!Action(c, host, "tcp") = First(Out!Hits(c, host, "tcp"))
      /\ Out!Action(c, host, "udp") = First(Out!Hits(c, host, "udp"))
  BY Zenon DEF Out!Action
<1> HIDE DEF First
<1> QED BY <1>1, <1>2, Zenon

LEMMA LeftSound ==
  ASSUME \A l \in left : AsRuled(l)
  PROVE  Out!NeverInTheClear /\ Out!OneExit
<1>1. ASSUME NEW l \in left, l.via = "direct", l.cfg.enabled
      PROVE  \/ \E i \in DOMAIN l.cfg.rules :
                  Out!Decides(l.cfg, i, l.host, l.protocol) /\ l.cfg.rules[i].action = "direct"
             \/ l.cfg.default = "direct" /\ \A i \in DOMAIN l.cfg.rules : ~Out!Decides(l.cfg, i, l.host, l.protocol)
  <2>1. l.cfg \in Out!OutboundConfig /\ Out!Action(l.cfg, l.host, l.protocol) = "direct"
    BY <1>1 DEF AsRuled, Out!Directly
  <2> QED BY <2>1, ActionDecided
<1>2. ASSUME NEW k \in left, NEW l \in left, k.cfg = l.cfg, k.host = l.host, k.protocol = "tcp", l.protocol = "udp",
             \A i \in DOMAIN k.cfg.rules : k.cfg.rules[i].protocol = "any"
      PROVE  k.via \in {l.via, "itself"}
  <2>1. Out!Action(k.cfg, k.host, "tcp") = Out!Action(k.cfg, k.host, "udp")
    BY <1>2, ActionAlike DEF AsRuled
  <2>2. Out!Directly(k.cfg, k.host, "tcp") <=> Out!Directly(l.cfg, l.host, "udp")
    BY <1>2, <2>1 DEF Out!Directly
  <2> QED BY <1>2, <2>2 DEF AsRuled
<1> QED BY <1>1, <1>2 DEF Out!NeverInTheClear, Out!OneExit

(* A step of the connection leaves the association alone.                     *)
LEMMA TcpGoes ==
  ASSUME EgressInv, UNCHANGED <<outbound, udp, arrived, answers>>, tcp' \in TcpRecord,
         \A l \in left' : AsRuled(l), Trying', Out!ReachesTheOthers'
  PROVE  EgressInv'
<1>1. EgressTyped'
  BY DEF EgressInv, EgressTyped
<1>2. Association'
  BY DEF EgressInv, Association, Out!RepliesAreFromTheTarget
<1> QED BY <1>1, <1>2 DEF EgressInv

(* No address is tried yet.                                                   *)
LEMMA TcpGoesPlainly ==
  ASSUME EgressInv, UNCHANGED <<outbound, udp, arrived, answers>>, tcp' \in TcpRecord,
         tcp'.at # "try", tcp'.resolved = <<>>, tcp'.seconds = 0, \A l \in left' : AsRuled(l)
  PROVE  EgressInv'
<1>1. Trying'
  BY DEF Trying
<1>2. Out!ReachesTheOthers'
  BY DEF Out!ReachesTheOthers
<1> QED BY <1>1, <1>2, TcpGoes

LEMMA BeginStep ==
  ASSUME Out!Valid, EgressInv, NEW host \in Out!Hosts, Out!Begin(host)
  PROVE  EgressInv'
<1> USE DEF Out!configVars, Out!udpVars
<1> DEFINE to == IF host \in HostNames THEN "name" ELSE "address"
           t1 == [Out!NoTcp EXCEPT !.at = to]
           t2 == [t1 EXCEPT !.cfg = outbound]
           t3 == [t2 EXCEPT !.host = host]
<1>1. tcp' = t3 /\ UNCHANGED <<outbound, udp, arrived, answers, left>>
  BY DEF Out!Begin
<1>2. to \in {"name", "address"}
  OBVIOUS
<1> HIDE DEF to
<1>3. t1 \in TcpRecord /\ t1.at = to /\ t1.resolved = <<>> /\ t1.seconds = 0
  BY <1>2, NoTcpTyped DEF TcpRecord, TcpPhases
<1> HIDE DEF t1
<1>4. t2 \in TcpRecord /\ t2.at = to /\ t2.resolved = <<>> /\ t2.seconds = 0
  BY <1>3 DEF TcpRecord, EgressInv, EgressTyped
<1> HIDE DEF t2
<1>5. t3 \in TcpRecord /\ t3.at = to /\ t3.resolved = <<>> /\ t3.seconds = 0
  BY <1>4 DEF TcpRecord
<1> HIDE DEF t3
<1>6. \A l \in left' : AsRuled(l)
  BY <1>1 DEF EgressInv
<1> QED BY <1>1, <1>2, <1>5, <1>6, TcpGoesPlainly

(* A step on the way, before any address is tried.                            *)
LEMMA TcpMoves ==
  ASSUME EgressInv, NEW at \in TcpPhases \ {"try"}, tcp.at \notin {"try", "open", "failed"},
         tcp' = [tcp EXCEPT !.at = at], UNCHANGED <<outbound, udp, arrived, answers>>,
         \A l \in left' : AsRuled(l)
  PROVE  EgressInv'
<1>1. tcp \in TcpRecord /\ tcp.resolved = <<>> /\ tcp.seconds = 0
  BY DEF EgressInv, EgressTyped, Trying
<1>2. tcp' \in TcpRecord /\ tcp'.at # "try" /\ tcp'.resolved = <<>> /\ tcp'.seconds = 0
  BY <1>1 DEF TcpRecord, TcpPhases
<1> QED BY <1>2, TcpGoesPlainly

LEMMA ResolveStep ==
  ASSUME Out!Valid, EgressInv, Out!Resolve
  PROVE  EgressInv'
<1> USE DEF Out!configVars, Out!udpVars, Out!TcpTo
<1>1. tcp.at = "name" /\ UNCHANGED <<outbound, udp, arrived, answers, left>>
  BY DEF Out!Resolve, Out!Fails, Out!Becomes
<1>2. \A l \in left' : AsRuled(l)
  BY <1>1 DEF EgressInv
<1>3. CASE \E at \in {"failed", "address"} : tcp' = [tcp EXCEPT !.at = at]
  BY <1>1, <1>2, <1>3, TcpMoves DEF TcpPhases
<1>4. CASE \E ip \in Ips : Out!Becomes(ip)
  <2>1. PICK ip \in Ips : Out!Becomes(ip)
    BY <1>4
  <2> DEFINE t1 == [tcp EXCEPT !.at = "address"]
             t2 == [t1 EXCEPT !.host = ip]
  <2>2. tcp' = t2
    BY <2>1 DEF Out!Becomes
  <2>3. tcp \in TcpRecord /\ tcp.resolved = <<>> /\ tcp.seconds = 0
    BY <1>1 DEF EgressInv, EgressTyped, Trying
  <2>4. t1 \in TcpRecord /\ t1.at = "address" /\ t1.resolved = <<>> /\ t1.seconds = 0
    BY <2>3 DEF TcpRecord, TcpPhases
  <2> HIDE DEF t1
  <2>5. t2 \in TcpRecord /\ t2.at = "address" /\ t2.resolved = <<>> /\ t2.seconds = 0
    BY <2>4 DEF TcpRecord, Out!Hosts
  <2> HIDE DEF t2
  <2> QED BY <1>1, <1>2, <2>2, <2>5, TcpGoesPlainly
<1> QED BY <1>3, <1>4 DEF Out!Resolve, Out!Fails

(* What leaves as its configuration says keeps what left as it said.          *)
LEMMA LeavesAsRuled ==
  ASSUME EgressInv, NEW protocol, NEW via, NEW host, NEW c \in Out!OutboundConfig, Out!Leaves(protocol, via, host, c),
         \/ via = "direct" /\ Out!Directly(c, host, protocol)
         \/ via = "proxy" /\ ~Out!Directly(c, host, protocol) /\ Out!Action(c, host, protocol) = "proxy"
         \/ via = "itself" /\ protocol = "tcp"
  PROVE  \A l \in left' : AsRuled(l)
<1> DEFINE new == [protocol |-> protocol, via |-> via, host |-> host, cfg |-> c]
<1>1. AsRuled(new)
  BY DEF AsRuled
<1>2. left' = left \cup {new}
  BY DEF Out!Leaves
<1> QED BY <1>1, <1>2 DEF EgressInv

LEMMA OnTheWayStep ==
  ASSUME Out!Valid, EgressInv, Out!ToItself \/ Out!ToProxy \/ Out!Socks5Auth \/ Out!Socks5 \/ Out!Http
  PROVE  EgressInv'
<1> USE DEF Out!configVars, Out!udpVars, Out!TcpTo, Out!Fails
<1>0. \A l \in left : AsRuled(l)
  BY DEF EgressInv
<1>c. tcp.cfg \in Out!OutboundConfig
  BY DEF EgressInv, EgressTyped, TcpRecord
<1>1. tcp.at \in {"address", "socks5", "request", "http"} /\ UNCHANGED <<outbound, udp, arrived, answers>>
  BY DEF Out!ToItself, Out!ToProxy, Out!Socks5Auth, Out!Socks5, Out!Http
<1>2. \A l \in left' : AsRuled(l)
  <2>1. CASE UNCHANGED left
    BY <1>0, <2>1
  <2>2. CASE Out!ToItself
    BY <1>c, <2>2, LeavesAsRuled DEF Out!ToItself
  <2>3. CASE /\ ~Out!Directly(tcp.cfg, tcp.host, "tcp") /\ Out!Action(tcp.cfg, tcp.host, "tcp") = "proxy"
             /\ Out!Leaves("tcp", "proxy", tcp.host, tcp.cfg)
    BY <1>c, <2>3, LeavesAsRuled
  <2> QED BY <2>1, <2>2, <2>3 DEF Out!ToProxy, Out!Socks5Auth, Out!Socks5, Out!Http
<1>3. \E at \in TcpPhases \ {"try"} : tcp' = [tcp EXCEPT !.at = at]
  BY DEF TcpPhases, Out!ToItself, Out!ToProxy, Out!Socks5Auth, Out!Socks5, Out!Http
<1> QED BY <1>1, <1>2, <1>3, TcpMoves

(* One more address of the order costs its seconds, or nothing.               *)
LEMMA HungGoesOn ==
  ASSUME NEW found \in Seq(Out!Addresses), NEW order, Ordering(order, found), NEW k \in Nat, k < Len(found)
  PROVE  /\ Cardinality(Hung(order, found, k)) \in Nat
         /\ Cardinality(Hung(order, found, k + 1)) =
              IF found[order[k + 1]].answers = "never" THEN Cardinality(Hung(order, found, k)) + 1
              ELSE Cardinality(Hung(order, found, k))
<1> DEFINE H == Hung(order, found, k)
           x == order[k + 1]
<1>1. PICK n \in Nat : DOMAIN found = 1..n /\ n = Len(found)
  OBVIOUS
<1>2. order \in [1..n -> 1..n] /\ k + 1 \in 1..n /\ x \in 1..n
  BY SMTT(40), <1>1 DEF Ordering
<1>3. IsFiniteSet(H) /\ Cardinality(H) \in Nat
  <2>1. H \in SUBSET (1..n) /\ IsFiniteSet(1..n)
    BY <1>1, FS_Interval DEF Hung
  <2> QED BY <2>1, FS_Subset, FS_CardinalityType
<1>4. x \notin H
  <2>1. SUFFICES ASSUME x \in H PROVE FALSE
    OBVIOUS
  <2>2. PICK i \in 1..k : order[i] = x
    BY <2>1 DEF Hung
  <2>3. i \in 1..n /\ k + 1 \in 1..n /\ i # k + 1
    BY <1>1, <1>2
  <2> QED BY <1>1, <2>2, <2>3 DEF Ordering
<1>5. Hung(order, found, k + 1) = IF found[x].answers = "never" THEN H \cup {x} ELSE H
  <2>1. \A y : (\E i \in 1..(k + 1) : order[i] = y) <=> (\E i \in 1..k : order[i] = y) \/ y = x
    OBVIOUS
  <2> QED BY <1>1, <1>2, <2>1 DEF Hung
<1> HIDE DEF x
<1>6. Cardinality(H \cup {x}) = Cardinality(H) + 1
  BY <1>3, <1>4, FS_AddElement
<1> QED BY <1>3, <1>5, <1>6 DEF x

LEMMA HungAtFirst ==
  ASSUME NEW order, NEW found
  PROVE  Cardinality(Hung(order, found, 0)) = 0
<1>1. Hung(order, found, 0) = {}
  BY DEF Hung
<1> QED BY <1>1, FS_EmptySet

LEMMA ToTargetStep ==
  ASSUME Out!Valid, EgressInv, Out!ToTarget
  PROVE  EgressInv'
<1> USE DEF Out!configVars, Out!udpVars, Out!TcpTo
<1>1. /\ tcp.at = "address" /\ tcp \in TcpRecord /\ tcp.seconds = 0 /\ tcp.cfg \in Out!OutboundConfig
      /\ UNCHANGED <<outbound, udp, arrived, answers>>
  BY ZenonT(60) DEF Out!ToTarget, EgressInv, EgressTyped, Trying, TcpRecord
<1>2. \A l \in left' : AsRuled(l)
  BY <1>1, LeavesAsRuled DEF Out!ToTarget
<1>3. CASE tcp' = [tcp EXCEPT !.at = "failed"]
  BY <1>1, <1>2, <1>3, TcpMoves DEF TcpPhases
<1>4. CASE \E found \in Candidates : \E sorted \in Out!Preferred(found) :
             tcp' = [tcp EXCEPT !.at = "try", !.addresses = sorted, !.resolved = found]
  <2>p. PICK found \in Candidates : \E sorted \in Out!Preferred(found) :
          tcp' = [tcp EXCEPT !.at = "try", !.addresses = sorted, !.resolved = found]
    BY <1>4
  <2>1. PICK sorted \in Out!Preferred(found) :
          tcp' = [tcp EXCEPT !.at = "try", !.addresses = sorted, !.resolved = found]
    BY <2>p
  <2>2. found \in Seq(Out!Addresses)
    BY DEF Out!Valid
  <2>3. sorted \in Seq(Out!Addresses) /\ Len(sorted) = Len(found)
    BY <2>2, PreferredOrders
  <2>4. PICK order \in [DOMAIN found -> DOMAIN found] :
          Ordering(order, found) /\ \A i \in DOMAIN found : sorted[i] = found[order[i]]
    BY <2>2, PreferredOrders
  <2> DEFINE t1 == [tcp EXCEPT !.at = "try"]
             t2 == [t1 EXCEPT !.addresses = sorted]
             t3 == [t2 EXCEPT !.resolved = found]
  <2>5. tcp' = t3
    BY <2>1
  <2>6. t1 \in TcpRecord /\ t1.at = "try" /\ t1.seconds = 0
    BY <1>1 DEF TcpRecord, TcpPhases
  <2> HIDE DEF t1
  <2>7. t2 \in TcpRecord /\ t2.at = "try" /\ t2.seconds = 0 /\ t2.addresses = sorted
    BY <2>3, <2>6 DEF TcpRecord
  <2> HIDE DEF t2
  <2>8. t3 \in TcpRecord /\ t3.at = "try" /\ t3.seconds = 0 /\ t3.addresses = sorted /\ t3.resolved = found
    BY <2>2, <2>7 DEF TcpRecord
  <2> HIDE DEF t3
  <2>9. Tried(t3, order, 0)
    <3>1. \A i \in 1..Len(sorted) : sorted[i] = found[order[i + 0]]
      BY <2>2, <2>3, <2>4
    <3>2. 0 \in 0..Len(found) /\ Len(sorted) + 0 = Len(found) /\ 3 * Cardinality(Hung(order, found, 0)) = 0
      BY <2>2, <2>3, HungAtFirst
    <3> QED BY <2>4, <2>8, <3>1, <3>2 DEF Tried
  <2>10. Trying' /\ Out!ReachesTheOthers'
    BY <2>4, <2>5, <2>8, <2>9 DEF Trying, Out!ReachesTheOthers
  <2> QED BY <1>1, <1>2, <2>5, <2>8, <2>10, TcpGoes
<1> QED BY ZenonT(60), <1>3, <1>4 DEF Out!ToTarget

(* No IPv4 address that answers is left behind by fewer than three that hang. *)
LEMMA NoneLeftBehind ==
  ASSUME NEW t \in TcpRecord, NEW order, NEW k \in Nat, Tried(t, order, k),
         t.addresses = <<>> \/ t.seconds >= 10,
         NEW x \in DOMAIN t.resolved, t.resolved[x].family = 4, t.resolved[x].answers = "yes"
  PROVE  Cardinality({i \in DOMAIN t.resolved : t.resolved[i] = [family |-> 4, answers |-> "never"]}) >= 3
<1> DEFINE found == t.resolved
           N == {i \in DOMAIN found : found[i] = [family |-> 4, answers |-> "never"]}
           H == Hung(order, found, k)
<1>1. found \in Seq(Out!Addresses)
  BY DEF TcpRecord
<1> HIDE DEF found
<1>2. PICK n \in Nat : DOMAIN found = 1..n /\ n = Len(found)
  BY <1>1
<1>3. PICK i \in 1..n : order[i] = x
  BY <1>2 DEF Tried, Ordering, found
<1>4. k < i /\ k < n
  BY <1>2, <1>3 DEF Tried, found
<1>5. Len(t.addresses) # 0 /\ t.seconds >= 10
  BY <1>2, <1>4 DEF Tried, found, TcpRecord
<1>6. t.seconds = 3 * Cardinality(H) /\ Cardinality(H) \in Nat
  BY <1>1, <1>2, <1>4, HungGoesOn DEF Tried, found
<1>7. Cardinality(H) >= 3
  BY <1>5, <1>6
<1>8. H \subseteq N
  <2>1. SUFFICES ASSUME NEW y \in H
                 PROVE  y \in N
    OBVIOUS
  <2>2. PICK j \in 1..k : order[j] = y
    BY <2>1 DEF Hung
  <2>3. y \in DOMAIN found /\ found[y].answers = "never" /\ found[y] \in Out!Addresses
    BY <1>1, <2>1 DEF Hung
  <2>4. found[y].family = 4
    <3>1. j \in 1..n /\ j < i
      BY <1>2, <1>3, <1>4, <2>2
    <3>2. Ordering(order, found)
      BY DEF Tried, found
    <3>3. found[order[i]].family = 4
      BY <1>3 DEF found
    <3> QED BY ZenonT(60), <1>2, <1>3, <2>2, <3>1, <3>2, <3>3 DEF Ordering
  <2>5. found[y] = [family |-> 4, answers |-> "never"]
    BY <2>3, <2>4 DEF Out!Addresses
  <2> QED BY <2>3, <2>5
<1>9. IsFiniteSet(N)
  <2>1. N \in SUBSET (1..n) /\ IsFiniteSet(1..n)
    BY <1>2, FS_Interval
  <2> QED BY <2>1, FS_Subset
<1>10. Cardinality(H) <= Cardinality(N) /\ Cardinality(N) \in Nat
  BY <1>8, <1>9, FS_Subset, FS_CardinalityType
<1> QED BY <1>6, <1>7, <1>10 DEF found

LEMMA NoCardinality ==
  ASSUME NEW S
  PROVE  Out!Cardinality(S) = Cardinality(S)
BY DEF Out!Cardinality, Cardinality

(* The attempts end: with an answer, or when none is left, or no time.        *)
LEMMA TriesEnd ==
  ASSUME EgressInv, NEW at \in {"open", "failed"}, tcp.at = "try", tcp' = [tcp EXCEPT !.at = at],
         at = "failed" => tcp.addresses = <<>> \/ tcp.seconds >= 10,
         UNCHANGED <<outbound, udp, arrived, answers, left>>
  PROVE  EgressInv'
<1>1. tcp \in TcpRecord /\ \A l \in left' : AsRuled(l)
  BY DEF EgressInv, EgressTyped
<1>2. tcp' \in TcpRecord /\ tcp'.at = at /\ tcp'.resolved = tcp.resolved
  BY <1>1 DEF TcpRecord, TcpPhases
<1>3. Trying'
  BY <1>2 DEF Trying
<1>4. Out!ReachesTheOthers'
  <2>1. CASE at = "open"
    BY <1>2, <2>1 DEF Out!ReachesTheOthers
  <2>2. CASE at = "failed"
    <3> DEFINE V4(reply) == {i \in DOMAIN tcp.resolved : tcp.resolved[i] = [family |-> 4, answers |-> reply]}
    <3>1. PICK order \in [DOMAIN tcp.resolved -> DOMAIN tcp.resolved], k \in Nat : Tried(tcp, order, k)
      BY DEF EgressInv, Trying
    <3>2. ASSUME NEW x \in V4("yes")
          PROVE  Cardinality(V4("never")) >= 3
      <4>1. x \in DOMAIN tcp.resolved /\ tcp.resolved[x].family = 4 /\ tcp.resolved[x].answers = "yes"
        BY <3>2
      <4> QED BY SMTT(40), <1>1, <2>2, <3>1, <4>1, NoneLeftBehind
    <3>3. IsFiniteSet(V4("never"))
      <4>1. PICK n \in Nat : DOMAIN tcp.resolved = 1..n
        BY SMTT(40), <1>1 DEF TcpRecord
      <4>2. V4("never") \in SUBSET (1..n)
        BY <4>1
      <4>3. IsFiniteSet(1..n)
        BY FS_Interval
      <4> HIDE DEF V4
      <4> QED BY <4>2, <4>3, FS_Subset
    <3>4. Cardinality(V4("never")) \in Nat
      BY <3>3, FS_CardinalityType
    <3>5. Out!Cardinality(V4("never")) < 3 => V4("yes") = {}
      <4> HIDE DEF V4
      <4> QED BY <3>2, <3>4, NoCardinality
    <3> QED BY <1>2, <3>5 DEF Out!ReachesTheOthers
  <2> QED BY <2>1, <2>2
<1> QED BY <1>1, <1>2, <1>3, <1>4, TcpGoes

LEMMA TryStep ==
  ASSUME Out!Valid, EgressInv, Out!Try
  PROVE  EgressInv'
<1> USE DEF Out!configVars, Out!udpVars, Out!TcpTo
<1>1. tcp.at = "try" /\ UNCHANGED <<outbound, udp, arrived, answers, left>>
  BY DEF Out!Try
<1>2. CASE tcp.addresses = <<>> \/ tcp.seconds >= Out!Overall
  BY <1>1, <1>2, TriesEnd DEF Out!Try, Out!Overall
<1>3. CASE ~(tcp.addresses = <<>> \/ tcp.seconds >= Out!Overall) /\ Head(tcp.addresses).answers = "yes"
  BY <1>1, <1>3, TriesEnd DEF Out!Try
<1>4. CASE ~(tcp.addresses = <<>> \/ tcp.seconds >= Out!Overall) /\ Head(tcp.addresses).answers # "yes"
  <2> DEFINE a == Head(tcp.addresses)
             later == IF a.answers = "no" THEN tcp.seconds ELSE tcp.seconds + 3
             t1 == [tcp EXCEPT !.addresses = Tail(tcp.addresses)]
             t2 == [t1 EXCEPT !.seconds = later]
  <2>1. tcp \in TcpRecord /\ tcp.addresses \in Seq(Out!Addresses) /\ tcp.addresses # <<>> /\ tcp.seconds \in Nat
    BY <1>4 DEF EgressInv, EgressTyped, TcpRecord
  <2>2. tcp' = t2
    BY <1>1, <1>4, <2>1 DEF Out!Try, Out!PerAddress, TcpRecord
  <2>3. a = tcp.addresses[1] /\ a \in Out!Addresses /\ a.answers \in {"no", "never"}
    <3>1. a = tcp.addresses[1] /\ a \in Out!Addresses /\ a.answers # "yes"
      BY <1>4, <2>1
    <3> HIDE DEF a
    <3> QED BY <3>1 DEF Out!Addresses
  <2>4. /\ Tail(tcp.addresses) \in Seq(Out!Addresses) /\ Len(Tail(tcp.addresses)) = Len(tcp.addresses) - 1
        /\ \A i \in 1..(Len(tcp.addresses) - 1) : Tail(tcp.addresses)[i] = tcp.addresses[i + 1]
        /\ Len(tcp.addresses) >= 1
    BY <2>1
  <2>5. /\ t1 \in TcpRecord /\ t1.at = "try" /\ t1.resolved = tcp.resolved /\ t1.addresses = Tail(tcp.addresses)
        /\ later \in Nat
    <3>1. later \in Nat
      BY <2>1
    <3>2. DOMAIN tcp = {"at", "cfg", "host", "addresses", "seconds", "resolved"}
      BY <2>1 DEF TcpRecord
    <3>3. t1.at = "try" /\ t1.resolved = tcp.resolved /\ t1.addresses = Tail(tcp.addresses)
      BY <1>1, <3>2
    <3>4. t1 \in TcpRecord
      BY <2>1, <2>4 DEF TcpRecord
    <3> QED BY <3>1, <3>3, <3>4
  <2> HIDE DEF t1, later
  <2>6. /\ t2 \in TcpRecord /\ t2.at = "try" /\ t2.resolved = tcp.resolved /\ t2.addresses = Tail(tcp.addresses)
        /\ t2.seconds = later
    BY <2>5 DEF TcpRecord
  <2> HIDE DEF t2, a
  <2>7. PICK order \in [DOMAIN tcp.resolved -> DOMAIN tcp.resolved], k \in Nat : Tried(tcp, order, k)
    BY <1>1 DEF EgressInv, Trying
  <2>8. tcp.resolved \in Seq(Out!Addresses) /\ Len(tcp.resolved) \in Nat
    BY <2>1 DEF TcpRecord
  <2>9. k < Len(tcp.resolved) /\ k + 1 \in 0..Len(tcp.resolved) /\ a = tcp.resolved[order[k + 1]]
    BY <2>3, <2>4, <2>7, <2>8 DEF Tried
  <2>10. later = 3 * Cardinality(Hung(order, tcp.resolved, k + 1))
    <3>1. tcp.seconds = 3 * Cardinality(Hung(order, tcp.resolved, k)) /\ Ordering(order, tcp.resolved)
      BY <2>7 DEF Tried
    <3>2. /\ Cardinality(Hung(order, tcp.resolved, k)) \in Nat
          /\ Cardinality(Hung(order, tcp.resolved, k + 1)) =
               IF a.answers = "never" THEN Cardinality(Hung(order, tcp.resolved, k)) + 1
               ELSE Cardinality(Hung(order, tcp.resolved, k))
      BY <2>8, <2>9, <3>1, HungGoesOn
    <3> QED BY <2>3, <3>1, <3>2 DEF later
  <2>11. Tried(t2, order, k + 1)
    <3>1. Ordering(order, tcp.resolved) /\ Len(tcp.addresses) + k = Len(tcp.resolved)
      BY <2>7 DEF Tried
    <3>2. \A i \in 1..(Len(tcp.addresses) - 1) : Tail(tcp.addresses)[i] = tcp.resolved[order[i + (k + 1)]]
      <4>1. TAKE i \in 1..(Len(tcp.addresses) - 1)
      <4>2. i + 1 \in 1..Len(tcp.addresses) /\ (i + 1) + k = i + (k + 1)
        BY SMTT(40), <2>4
      <4>3. tcp.addresses[i + 1] = tcp.resolved[order[(i + 1) + k]]
        BY <2>7, <4>2 DEF Tried
      <4> QED BY <2>4, <4>2, <4>3
    <3>3. \A i \in 1..(k + 1) : tcp.resolved[order[i]].answers # "yes"
      <4>1. TAKE i \in 1..(k + 1)
      <4>2. i \in 1..k \/ i = k + 1
        OBVIOUS
      <4> QED BY <2>3, <2>7, <2>9, <4>2 DEF Tried
    <3>4. Len(Tail(tcp.addresses)) + (k + 1) = Len(tcp.resolved)
      BY <2>4, <3>1
    <3> QED BY <2>4, <2>6, <2>9, <2>10, <3>1, <3>2, <3>3, <3>4 DEF Tried
  <2>12. Trying' /\ Out!ReachesTheOthers'
    BY <2>2, <2>6, <2>7, <2>11 DEF Trying, Out!ReachesTheOthers
  <2>13. \A l \in left' : AsRuled(l)
    BY <1>1 DEF EgressInv
  <2> QED BY <1>1, <2>2, <2>6, <2>12, <2>13, TcpGoes
<1> QED BY <1>2, <1>3, <1>4

(* A step of the association, or of the configuration, leaves the connection  *)
(* alone.                                                                     *)
LEMMA UdpGoes ==
  ASSUME EgressInv, UNCHANGED tcp, outbound' \in Out!OutboundConfig, udp' \in UdpRecord,
         \A l \in left' : AsRuled(l), Association'
  PROVE  EgressInv'
<1>1. EgressTyped'
  BY DEF EgressInv, EgressTyped
<1>2. Trying'
  BY DEF EgressInv, Trying
<1>3. Out!ReachesTheOthers'
  BY DEF EgressInv, Out!ReachesTheOthers
<1> QED BY <1>1, <1>2, <1>3 DEF EgressInv

LEMMA PutStep ==
  ASSUME Out!Valid, EgressInv, NEW c \in Outbounds, Out!Put(c)
  PROVE  EgressInv'
<1> USE DEF Out!tcpVars, Out!udpVars
<1>1. outbound' = [outbound EXCEPT !.rules = c.rules] /\ UNCHANGED <<tcp, udp, arrived, answers, left>>
  BY DEF Out!Put
<1>2. outbound' \in Out!OutboundConfig
  BY <1>1 DEF Out!Valid, Out!OutboundConfig, EgressInv, EgressTyped
<1>3. (\A l \in left' : AsRuled(l)) /\ Association'
  BY <1>1 DEF EgressInv, Association, Out!RepliesAreFromTheTarget
<1> QED BY <1>1, <1>2, <1>3, UdpGoes DEF EgressInv, EgressTyped

LEMMA AssociateStep ==
  ASSUME Out!Valid, EgressInv, Out!Associate
  PROVE  EgressInv'
<1> USE DEF Out!configVars, Out!tcpVars, Out!UdpTo
<1>1. udp.at = "closed" /\ UNCHANGED <<tcp, outbound, arrived, answers, left>>
  BY DEF Out!Associate
<1>2. PICK given \in Out!ProxyGives, dual \in BOOLEAN :
        udp' = [at |-> "open", cfg |-> outbound, dual |-> dual,
                proxy |-> outbound.enabled /\ outbound.protocol = "socks5" /\ given]
  BY DEF Out!Associate
<1>7. given \in BOOLEAN
  BY <1>2, Zenon DEF Out!ProxyGives
<1>8. outbound \in Out!OutboundConfig /\ outbound.enabled \in BOOLEAN
  BY DEF EgressInv, EgressTyped, Out!OutboundConfig
<1>3. outbound \in Out!OutboundConfig /\ outbound.enabled \in BOOLEAN /\ given \in BOOLEAN
  BY <1>7, <1>8
<1>4. udp' \in UdpRecord /\ udp'.at = "open"
  BY <1>2, <1>3 DEF UdpRecord
<1>5. Association'
  BY <1>1, <1>4 DEF EgressInv, Association, Out!RepliesAreFromTheTarget
<1>6. \A l \in left' : AsRuled(l)
  BY <1>1 DEF EgressInv
<1> QED BY <1>1, <1>3, <1>4, <1>5, <1>6, UdpGoes

LEMMA SendStep ==
  ASSUME Out!Valid, EgressInv, NEW host \in Out!Hosts, Out!Send(host)
  PROVE  EgressInv'
<1> USE DEF Out!configVars, Out!tcpVars, Out!UdpTo
<1>1. udp.at = "open" /\ UNCHANGED <<tcp, outbound, udp, answers>>
  BY DEF Out!Send
<1>2. udp \in UdpRecord /\ udp.cfg \in Out!OutboundConfig
  BY DEF EgressInv, EgressTyped, UdpRecord
<1>3. CASE UNCHANGED <<arrived, left>>
  BY <1>1, <1>2, <1>3, UdpGoes DEF EgressInv, EgressTyped, Association, Out!RepliesAreFromTheTarget
<1>4. CASE /\ Out!Via(host) # "none" /\ Out!Leaves("udp", Out!Via(host), host, udp.cfg)
           /\ arrived' = arrived \cup {Out!Reply(IF Out!Via(host) = "proxy" THEN "proxy" ELSE host, host)}
  <2>1. \A l \in left' : AsRuled(l)
    BY <1>2, <1>4, LeavesAsRuled DEF Out!Via
  <2>2. ~udp.proxy => Out!Via(host) # "proxy"
    BY DEF Out!Via
  <2> DEFINE r == Out!Reply(IF Out!Via(host) = "proxy" THEN "proxy" ELSE host, host)
  <2>3. r.host = host /\ (~udp.proxy => r.source = host)
    BY <2>2 DEF Out!Reply
  <2> HIDE DEF r
  <2>4. arrived' = arrived \cup {r}
    BY <1>4 DEF r
  <2>5. Association'
    BY <1>1, <2>3, <2>4 DEF EgressInv, Association, Out!RepliesAreFromTheTarget
  <2> QED BY <1>1, <1>2, <2>1, <2>5, UdpGoes DEF EgressInv, EgressTyped
<1> QED BY <1>3, <1>4 DEF Out!Send

LEMMA ReceiveStep ==
  ASSUME Out!Valid, EgressInv, NEW r \in arrived, Out!ReceiveDirect(r) \/ Out!ReceiveProxied(r)
  PROVE  EgressInv'
<1> USE DEF Out!configVars, Out!tcpVars, Out!UdpTo
<1>1. /\ udp.at = "open" /\ UNCHANGED <<tcp, outbound, udp, left>>
      /\ arrived' = arrived \ {r}
  BY DEF Out!ReceiveDirect, Out!ReceiveProxied, Out!Receives
<1>2. ASSUME ~udp.proxy
      PROVE  \A a \in answers' : a.from = a.host /\ ~a.mapped /\ ~a.wrapped
  <2>1. answers' = answers \cup {Out!Cleaned(r)}
    BY <1>2 DEF Out!ReceiveDirect, Out!ReceiveProxied, Out!Receives
  <2>2. r.source = r.host /\ r.host # "proxy"
    BY <1>2 DEF EgressInv, Association, Out!Valid
  <2>3. /\ Out!Cleaned(r).from = Out!Cleaned(r).host /\ ~Out!Cleaned(r).mapped
        /\ ~Out!Cleaned(r).wrapped
    BY <2>2 DEF Out!Cleaned
  <2> QED BY <1>2, <2>1, <2>3 DEF EgressInv, Association, Out!RepliesAreFromTheTarget
<1>3. Association'
  BY <1>1, <1>2 DEF EgressInv, Association, Out!RepliesAreFromTheTarget
<1> QED BY <1>1, <1>3, UdpGoes DEF EgressInv, EgressTyped

LEMMA DissociateStep ==
  ASSUME Out!Valid, EgressInv, Out!Dissociate
  PROVE  EgressInv'
<1> USE DEF Out!configVars, Out!tcpVars, Out!UdpTo
<1> DEFINE u1 == [udp EXCEPT !.at = "closed"]
           u2 == [u1 EXCEPT !.proxy = FALSE]
<1>1. udp' = u2 /\ UNCHANGED <<tcp, outbound, left>> /\ arrived' = {} /\ answers' = {}
  BY DEF Out!Dissociate
<1>2. u1 \in UdpRecord
  BY DEF EgressInv, EgressTyped, UdpRecord
<1> HIDE DEF u1
<1>3. u2 \in UdpRecord /\ u2.proxy = FALSE
  BY <1>2 DEF UdpRecord
<1> HIDE DEF u2
<1>4. Association'
  BY <1>1, <1>3 DEF Association, Out!RepliesAreFromTheTarget
<1> QED BY <1>1, <1>3, <1>4, UdpGoes DEF EgressInv, EgressTyped

LEMMA EgressInvStep ==
  ASSUME Out!Valid, EgressInv, Out!Next \/ UNCHANGED egressVars
  PROVE  EgressInv'
<1>1. CASE UNCHANGED egressVars
  <2>1. UNCHANGED <<outbound, tcp, udp, arrived, answers, left>>
    BY <1>1 DEF egressVars
  <2> QED BY <2>1, UdpGoes DEF EgressInv, EgressTyped, Association, Out!RepliesAreFromTheTarget
<1>2. CASE \/ \E c \in Outbounds : Out!Put(c)
           \/ \E h \in Out!Hosts : Out!Begin(h)
  BY <1>2, PutStep, BeginStep
<1>3. CASE \/ Out!Resolve \/ Out!ToItself \/ Out!ToProxy \/ Out!Socks5Auth \/ Out!Socks5 \/ Out!Http
           \/ Out!ToTarget \/ Out!Try
  BY <1>3, ResolveStep, OnTheWayStep, ToTargetStep, TryStep
<1>4. CASE \/ Out!Associate \/ (\E h \in Out!Hosts : Out!Send(h)) \/ Out!Dissociate
           \/ \E r \in arrived : Out!ReceiveDirect(r) \/ Out!ReceiveProxied(r)
  BY <1>4, AssociateStep, SendStep, DissociateStep, ReceiveStep
<1> QED BY <1>1, <1>2, <1>3, <1>4 DEF Out!Next

--------------------------------------------------------------------------------
ExitInv == ActivityInv /\ DnsInv /\ EgressInv

LEMMA ExitInvSound ==
  ASSUME ExitInv
  PROVE  ExitSound
<1>1. Resolver!DnsSound
  BY DnsInvSound DEF ExitInv
<1>2. Activity!CountersSaved
  BY DEF ExitInv, ActivityInv, Activity!CountersSaved, Activity!Quiet, Carried, Unwritten, AtTheFile, Activity!Writers
<1>3. Out!EgressSound
  BY LeftSound DEF ExitInv, EgressInv, Association, Out!EgressSound
<1> QED BY <1>1, <1>2, <1>3 DEF ExitSound

(* The server lets out what its rules let out, and writes down what it        *)
(* counted.  A DNS answer was permitted by settings and a filter that were in *)
(* force during the question, however `apply` and `update_lists` overlap it   *)
(* and each other, and from the cache too; rules that were not replaced two   *)
(* at once are those of the settings and the list on disk (ostp-dns).  The    *)
(* counters on disk are those in memory when the flag is down.  What left     *)
(* directly was meant to by the first rule that matches, TCP and UDP alike,   *)
(* a reply carries the address the client sent to, and an IPv4 address that   *)
(* answers is reached unless three of its family hang (outbound.rs,           *)
(* router.rs).                                                                *)
THEOREM ExitIsSound == PartsSpec => []ExitSound
<1>1. PartsInit => ExitInv
  BY SafetyAssumption, ActivityInvInit, RulesInvInit, QueriesInvInit, EgressInvInit DEF PartsInit, ExitInv, DnsInv
<1>2. ExitInv /\ [PartsNext]_partsVars => ExitInv'
  <2> SUFFICES ASSUME ExitInv, [PartsNext]_partsVars
               PROVE  ExitInv'
    OBVIOUS
  <2>1. Activity!Next \/ UNCHANGED activityVars
    BY DEF PartsNext, partsVars, exitVars
  <2>2. Resolver!Next \/ UNCHANGED resolverVars
    BY DEF PartsNext, partsVars, exitVars
  <2>3. Out!Next \/ UNCHANGED egressVars
    BY DEF PartsNext, partsVars, exitVars
  <2> QED BY <2>1, <2>2, <2>3, SafetyAssumption, ActivityInvStep, DnsInvStep, EgressInvStep DEF ExitInv
<1>3. ExitInv => ExitSound
  BY ExitInvSound
<1> QED BY <1>1, <1>2, <1>3, PTL DEF PartsSpec
================================================================================
