----------------------------- MODULE SetupProofs -------------------------------
(* What an installation is set up with, each for every value of its           *)
(* constants: the front ends a server section asks for, the configuration     *)
(* file through the commands that write it, and the sites in the web server   *)
(* of the machine.  Each has an inductive invariant of its own.               *)
EXTENDS SafetyParts, Integers, Sequences, FiniteSets, FiniteSetTheorems, SequenceTheorems, TLAPS

--------------------------------------------------------------------------------
(* The front ends.                                                            *)

(* What may stand at an address, and what the server loop may have to bind.   *)
Held == {"free", "other", "web server", "sniff", "https", "http", "responder", "api"}
Ports == {"listen", "443", "8443"}
Entries == (Ports \X {"sniff", "https"}) \cup {<<"80", "http">>, <<"responder", "responder">>}

FrontTyped ==
  /\ cfg \in Sections /\ startup \in {"new", "refused", "starting", "up"} /\ api \in {"off", "spawned", "listening"}
  /\ cert \in {"none", "placeholder", "issued"} /\ acceptor \in BOOLEAN /\ renewing \in BOOLEAN
  /\ held \in [Fronting!Addresses -> Held] /\ queue \in Seq(Entries)

(* A start took a section that is accepted, and binds all of the queue.       *)
Begun ==
  /\ startup \in {"new", "refused"} => ~acceptor /\ api = "off" /\ ~renewing
  /\ startup \in {"starting", "up"} => Fronting!TlsValid /\ Fronting!SubscriptionValid
  /\ startup # "starting" => queue = <<>>
  /\ acceptor => cfg.tls
  /\ api # "off" => cfg.api
  /\ renewing => Fronting!Acme

(* Where a web server fronts, it has the public ports; nobody but who serves  *)
(* the challenges binds 80 and the responder's port; the API listens with     *)
(* credentials.                                                               *)
Places ==
  /\ IF Fronting!Builtin THEN \A a \in Fronting!Addresses : held[a] # "web server"
     ELSE held["443"] = "web server" /\ held["80"] = "web server"
  /\ held["80"] \in {"free", "other", "web server", "http"} /\ held["responder"] \in {"free", "responder"}
  /\ \A a \in Fronting!Addresses : held[a] = "api" => cfg.credentials

(* Who answers the challenges is there, or will be bound.                     *)
Awaits(e) == \E i \in 1..Len(queue) : queue[i] = e
Expected ==
  renewing =>
    IF Fronting!Builtin THEN held["80"] \in {"http", "other"} \/ Awaits(<<"80", "http">>)
    ELSE held["responder"] = "responder" \/ Awaits(<<"responder", "responder">>)

FrontInv == FrontTyped /\ Begun /\ Places /\ Expected

LEMMA SectionIs ==
  ASSUME cfg \in Sections
  PROVE  /\ cfg.tls \in BOOLEAN /\ cfg.domain \in BOOLEAN /\ cfg.files \in BOOLEAN /\ cfg.sub \in BOOLEAN
         /\ cfg.api \in BOOLEAN /\ cfg.credentials \in BOOLEAN
         /\ cfg.frontend \in {"builtin", "nginx", "apache", "caddy"} /\ cfg.cert \in {"none", "acme", "manual"}
         /\ cfg.ws \in Seq(STRING) /\ cfg.path \in Seq(STRING) /\ cfg.webpath \in Seq(STRING)
         /\ cfg.bind \in {"api", "listen", "443", "8443"} /\ cfg.fallback \in {"off", "listen", "443", "8443"}
<1>1. \A c \in Sections :
        /\ {c.tls, c.domain, c.files, c.sub, c.api, c.credentials} \subseteq BOOLEAN
        /\ c.frontend \in {"builtin", "nginx", "apache", "caddy"} /\ c.cert \in {"none", "acme", "manual"}
        /\ {c.ws, c.path, c.webpath} \subseteq Seq(STRING)
        /\ c.bind \in {"api", "listen", "443", "8443"} /\ c.fallback \in {"off", "listen", "443", "8443"}
  BY SafetyAssumption, Zenon DEF Fronting!Valid
<1> QED BY <1>1, Zenon

(* A path of a section, and the segments that are added to one or are its     *)
(* default.                                                                   *)
Segments == STRING \cup {"token", "panel", "x", "s", "q"}

LEMMA WiderSeq ==
  ASSUME NEW S, NEW T, S \subseteq T, NEW p \in Seq(S)
  PROVE  p \in Seq(T)
<1>1. Len(p) \in Nat /\ DOMAIN p = 1..Len(p) /\ \A i \in 1..Len(p) : p[i] \in S
  OBVIOUS
<1>2. p = [i \in 1..Len(p) |-> p[i]]
  OBVIOUS
<1> DEFINE n == Len(p)
<1>3. p \in [1..n -> T]
  BY <1>1, <1>2
<1> HIDE DEF n
<1> QED BY <1>1, <1>3, SeqDef DEF n

LEMMA PathsAre ==
  ASSUME cfg \in Sections
  PROVE  cfg.ws \in Seq(Segments) /\ cfg.path \in Seq(Segments) /\ cfg.webpath \in Seq(Segments)
<1> DEFINE S == STRING
           T == Segments
<1>1. S \subseteq T
  BY DEF Segments
<1>2. cfg.ws \in Seq(S) /\ cfg.path \in Seq(S) /\ cfg.webpath \in Seq(S)
  BY SectionIs, Zenon
<1> HIDE DEF S, T
<1> QED
  <2>1. cfg.ws \in Seq(T) /\ cfg.path \in Seq(T) /\ cfg.webpath \in Seq(T)
    BY <1>1, <1>2, WiderSeq
  <2> QED BY <2>1 DEF T

LEMMA FrontInvInit ==
  ASSUME Fronting!Init
  PROVE  FrontInv
<1>1. /\ cfg \in Sections /\ startup = "new" /\ cert \in {"none", "issued"} /\ acceptor = FALSE
      /\ api = "off" /\ renewing = FALSE
  BY DEF Fronting!Init
<1>2. queue = <<>> /\ queue \in Seq(Entries)
  <2>1. queue = <<>>
    BY DEF Fronting!Init
  <2> QED BY <2>1
<1>3. PICK taken \in SUBSET {"443", "80"} :
        held = [a \in Fronting!Addresses |->
                 IF a \in {"443", "80"} /\ ~Fronting!Builtin THEN "web server"
                 ELSE IF a \in taken THEN "other" ELSE "free"]
  BY DEF Fronting!Init
<1>4. held \in [Fronting!Addresses -> Held] /\ Places
  BY <1>3 DEF Held, Places, Fronting!Addresses
<1>5. FrontTyped /\ Begun /\ Expected
  BY <1>1, <1>2, <1>4, Zenon DEF FrontTyped, Begun, Expected
<1> QED BY <1>4, <1>5 DEF FrontInv

LEMMA ConcatHolds ==
  ASSUME NEW s \in Seq(Entries), NEW t \in Seq(Entries)
  PROVE  /\ s \o t \in Seq(Entries)
         /\ \A i \in 1..Len(s) : \E j \in 1..Len(s \o t) : (s \o t)[j] = s[i]
         /\ \A i \in 1..Len(t) : \E j \in 1..Len(s \o t) : (s \o t)[j] = t[i]
<1> DEFINE st == s \o t
<1>1. st \in Seq(Entries) /\ Len(st) = Len(s) + Len(t)
      /\ \A i \in 1..(Len(s) + Len(t)) : st[i] = IF i <= Len(s) THEN s[i] ELSE t[i - Len(s)]
  BY ConcatProperties
<1>2. Len(s) \in Nat /\ Len(t) \in Nat
  OBVIOUS
<1> HIDE DEF st
<1>3. ASSUME NEW i \in 1..Len(s) PROVE \E j \in 1..Len(st) : st[j] = s[i]
  <2>1. i \in 1..Len(st) /\ i \in 1..(Len(s) + Len(t)) /\ i <= Len(s)
    BY <1>1, <1>2
  <2> QED BY <1>1, <2>1
<1>4. ASSUME NEW i \in 1..Len(t) PROVE \E j \in 1..Len(st) : st[j] = t[i]
  <2> DEFINE j == Len(s) + i
  <2>1. j \in 1..Len(st) /\ j \in 1..(Len(s) + Len(t)) /\ ~(j <= Len(s)) /\ j - Len(s) = i
    BY <1>1, <1>2
  <2> HIDE DEF j
  <2>2. st[j] = t[i]
    BY <1>1, <2>1
  <2> QED BY <2>1, <2>2
<1> QED BY <1>1, <1>3, <1>4 DEF st

(* What a start has to bind.                                                  *)
LEMMA ListenersAre ==
  ASSUME cfg \in Sections, NEW ends
  PROVE  /\ Fronting!Listeners(ends) \in Seq(Entries)
         /\ cfg.tls /\ Fronting!Builtin /\ cfg.domain =>
              \E i \in 1..Len(Fronting!Listeners(ends)) : Fronting!Listeners(ends)[i] = <<"80", "http">>
         /\ Fronting!Responder =>
              \E i \in 1..Len(Fronting!Listeners(ends)) : Fronting!Listeners(ends)[i] = <<"responder", "responder">>
<1> DEFINE e80 == <<"80", "http">>
           er == <<"responder", "responder">>
           e443 == <<"443", "https">>
           l == Fronting!TcpListen
           A == [i \in DOMAIN l |-> <<l[i], "sniff">>]
           B == IF cfg.tls /\ Fronting!Builtin /\ ends THEN <<e443>> ELSE <<>>
           C == IF cfg.tls /\ Fronting!Builtin /\ cfg.domain THEN <<e80>> ELSE <<>>
           D == IF Fronting!Responder THEN <<er>> ELSE <<>>
           all == Fronting!Listeners(ends)
<1>1. all = ((A \o B) \o C) \o D
  BY DEF Fronting!Listeners
<1>2. l \in Seq(Ports)
  <2> DEFINE a == "listen"
             b == cfg.fallback
  <2>1. a \in Ports /\ (Fronting!FallbackListens => b \in Ports)
    BY SectionIs DEF Ports, Fronting!FallbackListens
  <2>2. l = <<a>> \o (IF Fronting!FallbackListens THEN <<b>> ELSE <<>>)
    BY DEF Fronting!TcpListen
  <2> HIDE DEF a, b, l
  <2>3. <<a>> \in Seq(Ports) /\ (IF Fronting!FallbackListens THEN <<b>> ELSE <<>>) \in Seq(Ports)
    BY <2>1
  <2> QED BY <2>2, <2>3, ConcatProperties
<1>3. e80 \in Entries /\ er \in Entries /\ e443 \in Entries /\ \A p \in Ports : <<p, "sniff">> \in Entries
  BY DEF Entries, Ports
<1>4. A \in Seq(Entries)
  <2> HIDE DEF l
  <2>1. DOMAIN l = 1..Len(l) /\ Len(l) \in Nat /\ \A i \in 1..Len(l) : l[i] \in Ports
    BY <1>2
  <2>2. A \in [1..Len(l) -> Entries]
    BY <1>3, <2>1
  <2> HIDE DEF A
  <2> QED BY <2>1, <2>2
<1> HIDE DEF e80, er, e443, A, l
<1>5. B \in Seq(Entries) /\ C \in Seq(Entries) /\ D \in Seq(Entries)
  BY <1>3
<1>6. /\ cfg.tls /\ Fronting!Builtin /\ cfg.domain => Len(C) = 1 /\ C[1] = e80
      /\ Fronting!Responder => Len(D) = 1 /\ D[1] = er
  OBVIOUS
<1> DEFINE AB == A \o B
           ABC == AB \o C
<1>7. all = ABC \o D
  BY <1>1
<1> HIDE DEF B, C, D, all
<1>8. AB \in Seq(Entries)
  BY <1>4, <1>5, ConcatHolds
<1> HIDE DEF AB
<1>9. ABC \in Seq(Entries) /\ \A i \in 1..Len(C) : \E j \in 1..Len(ABC) : ABC[j] = C[i]
  <2>1. /\ AB \o C \in Seq(Entries)
        /\ \A i \in 1..Len(AB) : \E j \in 1..Len(AB \o C) : (AB \o C)[j] = AB[i]
        /\ \A i \in 1..Len(C) : \E j \in 1..Len(AB \o C) : (AB \o C)[j] = C[i]
    BY <1>5, <1>8, ConcatHolds
  <2> QED BY <2>1, Zenon
<1> HIDE DEF ABC
<1>10. all \in Seq(Entries)
       /\ (\A i \in 1..Len(ABC) : \E j \in 1..Len(all) : all[j] = ABC[i])
       /\ (\A i \in 1..Len(D) : \E j \in 1..Len(all) : all[j] = D[i])
  <2>1. /\ ABC \o D \in Seq(Entries)
        /\ \A i \in 1..Len(ABC) : \E j \in 1..Len(ABC \o D) : (ABC \o D)[j] = ABC[i]
        /\ \A i \in 1..Len(D) : \E j \in 1..Len(ABC \o D) : (ABC \o D)[j] = D[i]
    BY <1>5, <1>9, ConcatHolds
  <2> QED BY <1>7, <2>1, Zenon
<1>11. /\ cfg.tls /\ Fronting!Builtin /\ cfg.domain => \E j \in 1..Len(all) : all[j] = e80
       /\ Fronting!Responder => \E j \in 1..Len(all) : all[j] = er
  <2>1. 1 \in 1..1
    OBVIOUS
  <2> QED BY SMTT(40), <1>6, <1>9, <1>10, <2>1
<1> QED BY <1>10, <1>11 DEF all, e80, er

LEMMA FrontStart ==
  ASSUME FrontInv, Fronting!Start
  PROVE  FrontInv'
<1>1. FrontTyped /\ Begun /\ Places
  BY DEF FrontInv
<1>2. startup = "new" /\ startup' = "starting" /\ Fronting!TlsValid /\ Fronting!SubscriptionValid
      /\ api' = (IF cfg.api THEN "spawned" ELSE "off") /\ renewing' = Fronting!Acme /\ UNCHANGED <<cfg, held>>
  BY DEF Fronting!Start
<1>3. PICK prepared \in Fronting!PrepareTls :
        cert' = prepared[1] /\ acceptor' = prepared[2] /\ queue' = Fronting!Listeners(prepared[2])
  BY DEF Fronting!Start
<1>4. cert' \in {"none", "placeholder", "issued"} /\ acceptor' \in BOOLEAN /\ (acceptor' => cfg.tls)
  <2>1. CASE ~cfg.tls \/ Fronting!CertSource = "none"
    <3>1. prepared = <<cert, FALSE>>
      BY <2>1 DEF Fronting!PrepareTls
    <3> QED BY <1>1, <1>3, <3>1 DEF FrontTyped
  <2>2. CASE ~(~cfg.tls \/ Fronting!CertSource = "none")
    <3>1. cfg.tls
      BY <1>1, <2>2, SectionIs DEF FrontTyped
    <3>2. prepared \in {<<cert, TRUE>>, <<cert, FALSE>>, <<"placeholder", TRUE>>, <<"none", FALSE>>}
      BY <2>2 DEF Fronting!PrepareTls
    <3>3. prepared[1] \in {cert, "placeholder", "none"} /\ prepared[2] \in BOOLEAN
      <4>1. CASE prepared = <<cert, TRUE>>
        BY <4>1
      <4>2. CASE prepared = <<cert, FALSE>>
        BY <4>2
      <4>3. CASE prepared = <<"placeholder", TRUE>>
        BY <4>3
      <4>4. CASE prepared = <<"none", FALSE>>
        BY <4>4
      <4> QED BY <3>2, <4>1, <4>2, <4>3, <4>4
    <3> QED BY <1>1, <1>3, <3>1, <3>3 DEF FrontTyped
  <2> QED BY <2>1, <2>2
<1>5. /\ queue' \in Seq(Entries)
      /\ cfg.tls /\ Fronting!Builtin /\ cfg.domain => \E i \in 1..Len(queue') : queue'[i] = <<"80", "http">>
      /\ Fronting!Responder => \E i \in 1..Len(queue') : queue'[i] = <<"responder", "responder">>
  BY <1>1, <1>3, ListenersAre DEF FrontTyped
<1>6. cfg.tls \in BOOLEAN /\ cfg.domain \in BOOLEAN /\ cfg.api \in BOOLEAN
  BY <1>1, SectionIs DEF FrontTyped
<1>7. Fronting!Acme \in BOOLEAN /\ Fronting!Acme' = Fronting!Acme /\ Fronting!Builtin' = Fronting!Builtin
  BY <1>2, <1>6 DEF Fronting!Acme, Fronting!CertSource, Fronting!Builtin
<1>8. FrontTyped'
  BY <1>1, <1>2, <1>4, <1>5, <1>7 DEF FrontTyped
<1>9. Begun'
  <2>1. Fronting!TlsValid' /\ Fronting!SubscriptionValid'
    BY <1>2 DEF Fronting!TlsValid, Fronting!SubscriptionValid, Fronting!Under, Fronting!Panel, Fronting!CertSource,
            Fronting!NeedsDomain, Fronting!Overlaps
  <2>2. (api' # "off" => cfg'.api) /\ (renewing' => Fronting!Acme') /\ (acceptor' => cfg'.tls)
    BY <1>2, <1>4, <1>7
  <2> QED BY <1>2, <2>1, <2>2 DEF Begun
<1>10. Places'
  BY <1>1, <1>2, <1>7 DEF Places
<1>11. Expected'
  <2>1. renewing' => cfg.tls /\ Fronting!CertSource = "acme"
    BY <1>2 DEF Fronting!Acme
  <2>2. renewing' => cfg.domain
    BY <1>2, <2>1, <1>6 DEF Fronting!TlsValid, Fronting!NeedsDomain
  <2>3. renewing' /\ ~Fronting!Builtin => Fronting!Responder
    BY <1>2 DEF Fronting!Responder
  <2> QED BY <1>5, <1>7, <2>1, <2>2, <2>3 DEF Expected, Awaits
<1> QED BY <1>8, <1>9, <1>10, <1>11 DEF FrontInv

LEMMA FrontBind ==
  ASSUME FrontInv, Fronting!Bind
  PROVE  FrontInv'
<1>1. FrontTyped /\ Begun /\ Places /\ Expected
  BY DEF FrontInv
<1> DEFINE e == queue[1]
<1>2. startup = "starting" /\ queue # <<>> /\ queue' = Tail(queue)
      /\ held' = (IF held[e[1]] = "free" THEN [held EXCEPT ![e[1]] = e[2]] ELSE held)
      /\ UNCHANGED <<cfg, startup, cert, acceptor, api, renewing>>
  BY DEF Fronting!Bind
<1>3. /\ queue' \in Seq(Entries) /\ e \in Entries
      /\ \A i \in 1..Len(queue) : i = 1 \/ \E j \in 1..Len(queue') : queue'[j] = queue[i]
  <2> DEFINE q == queue
             t == Tail(q)
  <2>1. q \in Seq(Entries) /\ q # <<>> /\ queue' = t
    BY <1>1, <1>2 DEF FrontTyped
  <2>2. Len(q) \in Nat /\ Len(q) >= 1 /\ q[1] \in Entries
    <3> HIDE DEF q
    <3>1. Len(q) \in Nat /\ Len(q) # 0
      BY <2>1, EmptySeq
    <3> QED BY <2>1, <3>1
  <2>3. t \in Seq(Entries) /\ Len(t) = Len(q) - 1 /\ \A i \in 1..Len(t) : t[i] = q[i + 1]
    BY <2>1, HeadTailProperties
  <2> HIDE DEF q, t
  <2>4. ASSUME NEW i \in 1..Len(q), i # 1 PROVE \E j \in 1..Len(t) : t[j] = q[i]
    <3>1. i - 1 \in 1..Len(t) /\ (i - 1) + 1 = i
      BY <2>2, <2>3, <2>4
    <3> QED BY <2>3, <3>1
  <2> QED BY <2>1, <2>2, <2>3, <2>4 DEF q
<1>4. /\ e[1] \in {"listen", "443", "80", "8443", "responder"} /\ e[2] \in {"sniff", "https", "http", "responder"}
      /\ e[1] = "80" => e[2] = "http"
      /\ e[1] = "responder" => e[2] = "responder"
  <2> HIDE DEF e
  <2>1. CASE e \in Ports \X {"sniff", "https"}
    BY <2>1 DEF Ports
  <2>2. CASE e \in {<<"80", "http">>, <<"responder", "responder">>}
    BY <2>2
  <2> QED BY <1>3, <2>1, <2>2 DEF Entries
<1>5. /\ Fronting!Builtin' = Fronting!Builtin /\ Fronting!Acme' = Fronting!Acme
      /\ (Fronting!TlsValid /\ Fronting!SubscriptionValid => Fronting!TlsValid' /\ Fronting!SubscriptionValid')
  BY <1>2 DEF Fronting!TlsValid, Fronting!SubscriptionValid, Fronting!Under, Fronting!Panel, Fronting!CertSource,
            Fronting!NeedsDomain, Fronting!Overlaps, Fronting!Builtin, Fronting!Acme
<1> HIDE DEF e
<1>6. /\ held' \in [Fronting!Addresses -> Held]
      /\ \A a \in Fronting!Addresses :
           held'[a] = IF a = e[1] /\ held[a] = "free" THEN e[2] ELSE held[a]
      /\ {e[1], "80", "443", "responder"} \subseteq Fronting!Addresses
  BY <1>1, <1>2, <1>4 DEF FrontTyped, Held, Fronting!Addresses
<1>7. FrontTyped'
  BY <1>1, <1>2, <1>3, <1>6 DEF FrontTyped
<1>8. Begun'
  BY <1>1, <1>2, <1>5 DEF Begun
<1>9. Places'
  <2>1. Fronting!Builtin => \A a \in Fronting!Addresses : held'[a] # "web server"
    BY ZenonT(60), <1>1, <1>4, <1>6 DEF Places
  <2>2. ~Fronting!Builtin => held'["443"] = "web server" /\ held'["80"] = "web server"
    BY <1>1, <1>4, <1>6 DEF Places
  <2>3. held'["80"] \in {"free", "other", "web server", "http"} /\ held'["responder"] \in {"free", "responder"}
    BY <1>1, <1>4, <1>6 DEF Places
  <2>4. \A a \in Fronting!Addresses : held'[a] = "api" => cfg'.credentials
    BY <1>1, <1>2, <1>4, <1>6 DEF Places
  <2> QED BY ZenonT(60), <1>5, <2>1, <2>2, <2>3, <2>4 DEF Places
<1>10. Expected'
  <2>1. ASSUME NEW x, Awaits(x) PROVE e = x \/ Awaits(x)'
    <3>1. PICK i \in 1..Len(queue) : queue[i] = x
      BY <2>1 DEF Awaits
    <3>2. CASE i = 1
      BY <3>1, <3>2 DEF e
    <3>3. CASE i # 1
      BY <1>3, <3>1, <3>3 DEF Awaits
    <3> QED BY <3>2, <3>3
  <2>2. CASE Fronting!Builtin /\ renewing
    <3> DEFINE x == <<"80", "http">>
    <3>1. held["80"] \in {"http", "other"} \/ Awaits(x)
      BY <1>1, <2>2 DEF Expected
    <3>2. held["80"] \in {"http", "other"} => held'["80"] \in {"http", "other"}
      BY <1>6
    <3>3. e = x => held'["80"] \in {"http", "other"}
      <4>1. e = x => e[1] = "80" /\ e[2] = "http"
        OBVIOUS
      <4>2. held["80"] \in {"free", "other", "http"}
        BY <1>1, <1>6, <2>2 DEF Places
      <4> QED BY <1>6, <4>1, <4>2
    <3> HIDE DEF x
    <3>4. held'["80"] \in {"http", "other"} \/ Awaits(x)'
      BY <2>1, <3>1, <3>2, <3>3
    <3> QED BY <1>2, <1>5, <2>2, <3>4 DEF Expected, x
  <2>3. CASE ~Fronting!Builtin /\ renewing
    <3> DEFINE x == <<"responder", "responder">>
    <3>1. held["responder"] = "responder" \/ Awaits(x)
      BY <1>1, <2>3 DEF Expected
    <3>2. held["responder"] = "responder" => held'["responder"] = "responder"
      BY <1>6
    <3>3. e = x => held'["responder"] = "responder"
      <4>1. e = x => e[1] = "responder" /\ e[2] = "responder"
        OBVIOUS
      <4>2. held["responder"] \in {"free", "responder"}
        BY <1>1 DEF Places
      <4> QED BY <1>6, <4>1, <4>2
    <3> HIDE DEF x
    <3>4. held'["responder"] = "responder" \/ Awaits(x)'
      BY <2>1, <3>1, <3>2, <3>3
    <3> QED BY <1>2, <1>5, <2>3, <3>4 DEF Expected, x
  <2>4. CASE ~renewing
    BY <1>2, <2>4 DEF Expected
  <2> QED BY <2>2, <2>3, <2>4
<1> QED BY <1>7, <1>8, <1>9, <1>10 DEF FrontInv

LEMMA FrontApi ==
  ASSUME FrontInv, Fronting!StartApi
  PROVE  FrontInv'
<1>1. FrontTyped /\ Begun /\ Places /\ Expected
  BY DEF FrontInv
<1>2. api = "spawned" /\ UNCHANGED <<cfg, startup, cert, acceptor, queue, renewing>>
      /\ \/ cfg.credentials /\ held[cfg.bind] = "free" /\ api' = "listening" /\ held' = [held EXCEPT ![cfg.bind] = "api"]
         \/ api' = "off" /\ held' = held
  BY DEF Fronting!StartApi, Fronting!HasCredentials
<1>3. cfg.bind \in {"api", "listen", "443", "8443"}
  BY <1>1, SectionIs DEF FrontTyped
<1>4. /\ Fronting!Builtin' = Fronting!Builtin /\ Fronting!Acme' = Fronting!Acme
      /\ (Fronting!TlsValid /\ Fronting!SubscriptionValid => Fronting!TlsValid' /\ Fronting!SubscriptionValid')
  BY <1>2 DEF Fronting!TlsValid, Fronting!SubscriptionValid, Fronting!Under, Fronting!Panel, Fronting!CertSource,
            Fronting!NeedsDomain, Fronting!Overlaps, Fronting!Builtin, Fronting!Acme
<1>5. Begun'
  BY <1>1, <1>2, <1>4 DEF Begun
<1>6. CASE api' = "off" /\ held' = held
  <2>1. FrontTyped' /\ Places' /\ Expected'
    BY <1>1, <1>2, <1>4, <1>6 DEF FrontTyped, Places, Expected, Awaits
  <2> QED BY <1>5, <2>1 DEF FrontInv
<1>7. CASE cfg.credentials /\ held[cfg.bind] = "free" /\ api' = "listening" /\ held' = [held EXCEPT ![cfg.bind] = "api"]
  <2>1. /\ held' \in [Fronting!Addresses -> Held]
        /\ \A a \in Fronting!Addresses : held'[a] = IF a = cfg.bind THEN "api" ELSE held[a]
        /\ {"80", "443", "responder"} \subseteq Fronting!Addresses
    BY <1>1, <1>3, <1>7 DEF FrontTyped, Held, Fronting!Addresses
  <2>2. held'["80"] = held["80"] /\ held'["responder"] = held["responder"]
        /\ (held["443"] = "web server" => held'["443"] = "web server")
    BY <1>3, <1>7, <2>1
  <2>3. FrontTyped'
    BY <1>1, <1>2, <1>7, <2>1 DEF FrontTyped
  <2>4. Places'
    BY ZenonT(60), <1>1, <1>2, <1>4, <1>7, <2>1, <2>2 DEF Places
  <2>5. Expected'
    BY <1>1, <1>2, <1>4, <2>2 DEF Expected, Awaits
  <2> QED BY <1>5, <2>3, <2>4, <2>5 DEF FrontInv
<1> QED BY <1>2, <1>6, <1>7

LEMMA FrontInvStep ==
  ASSUME FrontInv, PartsNext \/ UNCHANGED partsVars
  PROVE  FrontInv'
<1>1. FrontTyped /\ Begun /\ Places /\ Expected
  BY DEF FrontInv
<1>2. ASSUME UNCHANGED <<cfg, acceptor, held, queue, api, renewing>>,
             startup' = startup \/ startup' \in {"refused", "up"},
             startup' = "refused" => startup \in {"new", "refused"}, startup' = "up" => startup \in {"starting", "up"} /\ queue = <<>>,
             cert' \in {"none", "placeholder", "issued"}
      PROVE  FrontInv'
  <2>1. /\ Fronting!Builtin' = Fronting!Builtin /\ Fronting!Acme' = Fronting!Acme
        /\ (Fronting!TlsValid /\ Fronting!SubscriptionValid => Fronting!TlsValid' /\ Fronting!SubscriptionValid')
    BY <1>2 DEF Fronting!TlsValid, Fronting!SubscriptionValid, Fronting!Under, Fronting!Panel, Fronting!CertSource,
            Fronting!NeedsDomain, Fronting!Overlaps, Fronting!Builtin, Fronting!Acme
  <2>2. FrontTyped' /\ Begun' /\ Places' /\ Expected'
    BY ZenonT(60), <1>1, <1>2, <2>1 DEF FrontTyped, Begun, Places, Expected, Awaits
  <2> QED BY <2>2 DEF FrontInv
<1>3. CASE UNCHANGED frontends
  <2>1. UNCHANGED <<cfg, startup, cert, acceptor, held, queue, api, renewing>>
    BY <1>3 DEF frontends
  <2>2. cert' \in {"none", "placeholder", "issued"} /\ (startup' = "up" => queue = <<>>) /\ startup' = startup
    BY <1>1, <2>1 DEF FrontTyped, Begun
  <2> QED BY <1>2, <2>1, <2>2
<1>4. CASE Fronting!Refuse
  BY <1>1, <1>2, <1>4 DEF Fronting!Refuse, FrontTyped
<1>5. CASE Fronting!Up
  BY <1>1, <1>2, <1>5 DEF Fronting!Up, FrontTyped
<1>6. CASE Fronting!Renewed
  BY <1>1, <1>2, <1>6 DEF Fronting!Renewed, Begun
<1> QED BY <1>3, <1>4, <1>5, <1>6, FrontStart, FrontBind, FrontApi DEF PartsNext, partsVars, Fronting!Next

(* Paths.                                                                     *)
LEMMA PrefixIs ==
  ASSUME NEW S, NEW p \in Seq(S), NEW q \in Seq(S)
  PROVE  Fronting!IsPrefix(p, q) <=> Len(p) <= Len(q) /\ \A i \in 1..Len(p) : p[i] = q[i]
<1>1. Len(p) \in Nat /\ Len(q) \in Nat
  OBVIOUS
<1>2. CASE ~(Len(p) <= Len(q))
  BY <1>2 DEF Fronting!IsPrefix
<1>3. CASE Len(p) <= Len(q)
  <2> DEFINE a == SubSeq(p, 1, Len(p))
             b == SubSeq(q, 1, Len(p))
  <2>1. /\ a \in Seq(S) /\ Len(a) = Len(p) /\ \A i \in 1..Len(p) : a[i] = p[i]
        /\ b \in Seq(S) /\ Len(b) = Len(p) /\ \A i \in 1..Len(p) : b[i] = q[i]
    BY <1>1, <1>3
  <2>2. Fronting!IsPrefix(p, q) <=> a = b
    BY <1>3 DEF Fronting!IsPrefix
  <2> HIDE DEF a, b
  <2>3. (\A i \in 1..Len(a) : a[i] = b[i]) => a = b
    BY <2>1, SeqEqual
  <2>4. a = b => \A i \in 1..Len(p) : p[i] = q[i]
    BY <2>1
  <2>5. (\A i \in 1..Len(p) : p[i] = q[i]) => a = b
    BY <2>1, <2>3
  <2> QED BY <1>3, <2>2, <2>4, <2>5
<1> QED BY <1>2, <1>3

(* One segment more.                                                          *)
LEMMA OneMore ==
  ASSUME NEW S, NEW p \in Seq(S), NEW q \in Seq(S), NEW s \in S
  PROVE  /\ q \o <<s>> \in Seq(S)
         /\ Fronting!Under(q \o <<s>>, q) /\ Fronting!IsPrefix(q, q \o <<s>>)
         /\ Fronting!Under(q \o <<s>>, p) => p = q \/ Fronting!Under(q, p)
<1> DEFINE qs == q \o <<s>>
<1>1. Len(p) \in Nat /\ Len(q) \in Nat
  OBVIOUS
<1>2. /\ qs \in Seq(S) /\ Len(qs) = Len(q) + 1 /\ \A i \in 1..Len(q) : qs[i] = q[i]
  <2> DEFINE t == <<s>>
  <2>1. t \in Seq(S) /\ Len(t) = 1
    OBVIOUS
  <2> HIDE DEF t
  <2>2. /\ q \o t \in Seq(S) /\ Len(q \o t) = Len(q) + Len(t)
        /\ \A i \in 1..(Len(q) + Len(t)) : (q \o t)[i] = IF i <= Len(q) THEN q[i] ELSE t[i - Len(q)]
    BY <2>1, ConcatProperties
  <2>3. \A i \in 1..Len(q) : i \in 1..(Len(q) + Len(t)) /\ i <= Len(q)
    BY <1>1, <2>1
  <2>4. q \o t \in Seq(S) /\ Len(q \o t) = Len(q) + 1 /\ \A i \in 1..Len(q) : (q \o t)[i] = q[i]
    BY <2>1, <2>2, <2>3
  <2> QED BY <2>4 DEF t
<1> HIDE DEF qs
<1>3. Fronting!IsPrefix(q, qs)
  <2>1. Len(q) <= Len(qs) /\ \A i \in 1..Len(q) : q[i] = qs[i]
    BY <1>1, <1>2
  <2> QED BY <1>2, <2>1, PrefixIs
<1>4. q # qs
  BY <1>1, <1>2
<1>5. Fronting!Under(qs, q)
  BY <1>3, <1>4 DEF Fronting!Under, Fronting!IsStrictPrefix
<1>6. ASSUME Fronting!Under(qs, p), p # q PROVE Fronting!Under(q, p)
  <2>1. Fronting!IsPrefix(p, qs) /\ p # qs
    BY <1>6 DEF Fronting!Under, Fronting!IsStrictPrefix
  <2>2. Len(p) <= Len(qs) /\ \A i \in 1..Len(p) : p[i] = qs[i]
    BY <1>2, <2>1, PrefixIs
  <2>3. Len(p) # Len(qs)
    <3> SUFFICES ASSUME Len(p) = Len(qs) PROVE FALSE
      OBVIOUS
    <3>1. p = qs
      BY <1>2, <2>2, SeqEqual
    <3> QED BY <2>1, <3>1
  <2>4. Len(p) <= Len(q)
    BY <1>1, <1>2, <2>2, <2>3
  <2>5. \A i \in 1..Len(p) : p[i] = q[i]
    BY <1>1, <1>2, <2>2, <2>4
  <2>6. Fronting!IsPrefix(p, q)
    BY <2>4, <2>5, PrefixIs
  <2> QED BY <1>6, <2>6 DEF Fronting!Under, Fronting!IsStrictPrefix
<1> QED BY <1>2, <1>3, <1>5, <1>6 DEF qs

(* A request of the internet over TLS, as the port 443 answers it.            *)
LEMMA AnsweredAt443 ==
  ASSUME FrontInv, Fronting!Reachable, NEW kind, NEW path
  PROVE  LET q == Fronting!Request("internet", TRUE, kind, path) IN
         /\ Fronting!Builtin =>
              \E context \in {"sniff", "https"} :
                held["443"] = context /\ Fronting!At("443", q) = Fronting!Dispatch(q, context, TRUE)
         /\ ~Fronting!Builtin =>
              /\ kind # "ostp" /\ (path = cfg.ws \/ Fronting!Wants(path)) =>
                   Fronting!At("443", q) = Fronting!Dispatch([from |-> "local", tls |-> FALSE, kind |-> kind, path |-> path], "sniff", FALSE)
              /\ kind # "ostp" /\ ~(path = cfg.ws \/ Fronting!Wants(path)) /\ cfg.api /\ Fronting!Under(path, Fronting!Panel) /\ api = "listening" =>
                   Fronting!At("443", q) = "panel"
<1> DEFINE q == Fronting!Request("internet", TRUE, kind, path)
<1>1. FrontTyped /\ Begun /\ Places
  BY DEF FrontInv
<1>2. /\ Fronting!Builtin => acceptor /\ held["443"] \in {"sniff", "https"}
      /\ ~Fronting!Builtin => held["443"] = "web server" /\ held["listen"] = "sniff"
  BY <1>1 DEF Fronting!Reachable, Places, Fronting!Addresses
<1>3. q = [from |-> "internet", tls |-> TRUE, kind |-> kind, path |-> path]
  BY DEF Fronting!Request
<1> HIDE DEF q
<1>4. q.tls = TRUE /\ q.kind = kind /\ q.path = path
  BY <1>3
<1>5. Fronting!Local(q) = [from |-> "local", tls |-> FALSE, kind |-> kind, path |-> path]
  BY <1>4 DEF Fronting!Local, Fronting!Request
<1>6. CASE Fronting!Builtin
  <2>1. Fronting!At("443", q) = Fronting!HandleConn(q, held["443"])
    BY <1>2, <1>6 DEF Fronting!At
  <2>2. Fronting!HandleConn(q, held["443"]) = Fronting!Dispatch(q, held["443"], q.tls)
    BY <1>2, <1>4, <1>6 DEF Fronting!HandleConn
  <2> QED BY <1>2, <1>4, <1>6, <2>1, <2>2 DEF q
<1>7. CASE ~Fronting!Builtin
  <2>1. Fronting!At("443", q) = Fronting!WebServer(q)
    BY <1>2, <1>7 DEF Fronting!At
  <2>2. ASSUME kind # "ostp", path = cfg.ws \/ Fronting!Wants(path)
        PROVE  Fronting!At("443", q) = Fronting!Dispatch(Fronting!Local(q), "sniff", FALSE)
    <3>1. Fronting!WebServer(q) = Fronting!HandleConn(Fronting!Local(q), "sniff")
      BY <1>2, <1>4, <1>7, <2>2 DEF Fronting!WebServer
    <3>2. Fronting!Local(q).tls = FALSE
      BY <1>5
    <3>3. Fronting!HandleConn(Fronting!Local(q), "sniff") = Fronting!Dispatch(Fronting!Local(q), "sniff", FALSE)
      BY <3>2 DEF Fronting!HandleConn
    <3> QED BY <2>1, <3>1, <3>3
  <2>3. ASSUME kind # "ostp", ~(path = cfg.ws \/ Fronting!Wants(path)), cfg.api,
               Fronting!Under(path, Fronting!Panel), api = "listening"
        PROVE  Fronting!At("443", q) = "panel"
    BY <1>4, <2>1, <2>3 DEF Fronting!WebServer
  <2> QED BY <1>5, <1>7, <2>2, <2>3 DEF q
<1> QED BY <1>6, <1>7 DEF q

LEMMA LinksLeadThere ==
  ASSUME FrontInv
  PROVE  Fronting!LinksLead
<1>1. FrontTyped /\ Begun /\ Places
  BY DEF FrontInv
<1> SUFFICES ASSUME Fronting!Reachable
             PROVE  /\ \A l \in Fronting!ShareLinks : l.kind = "tls" => Fronting!At("443", Fronting!Dial(l)) = "session"
                    /\ \A url \in Fronting!SubscriptionUrl :
                         Fronting!At("443", Fronting!Request("internet", TRUE, "get", url)) = "subscription"
  BY DEF Fronting!LinksLead
<1>2. cfg.tls /\ startup = "up" /\ Fronting!TlsValid
  BY <1>1 DEF Fronting!Reachable, Begun
<1>3. cfg.ws # <<>>
  BY <1>2 DEF Fronting!TlsValid
<1>4. ASSUME NEW l \in Fronting!ShareLinks, l.kind = "tls"
      PROVE  Fronting!At("443", Fronting!Dial(l)) = "session"
  <2>1. l = [kind |-> "tls", path |-> IF Fronting!Builtin THEN <<>> ELSE cfg.ws]
    BY <1>4 DEF Fronting!ShareLinks
  <2>2. CASE Fronting!Builtin
    <3> DEFINE p == l.path
    <3>1. p = <<>>
      BY <2>1, <2>2
    <3>2. Fronting!Dial(l) = Fronting!Request("internet", TRUE, "ostp", <<>>)
      BY <3>1 DEF Fronting!Dial
    <3> DEFINE q == Fronting!Request("internet", TRUE, "ostp", <<>>)
    <3>3. PICK context \in {"sniff", "https"} : Fronting!At("443", q) = Fronting!Dispatch(q, context, TRUE)
      BY <2>2, AnsweredAt443
    <3>4. q.kind = "ostp"
      BY DEF Fronting!Request
    <3> HIDE DEF q
    <3>5. Fronting!Dispatch(q, context, TRUE) = "session"
      BY <3>4 DEF Fronting!Dispatch
    <3> QED BY <3>2, <3>3, <3>5 DEF q
  <2>3. CASE ~Fronting!Builtin
    <3>1. l.path = cfg.ws
      BY <2>1, <2>3
    <3>2. Fronting!Dial(l) = Fronting!Request("internet", TRUE, "upgrade", cfg.ws)
      BY <1>3, <3>1 DEF Fronting!Dial
    <3> DEFINE q == [from |-> "local", tls |-> FALSE, kind |-> "upgrade", path |-> cfg.ws]
    <3>3. Fronting!At("443", Fronting!Dial(l)) = Fronting!Dispatch(q, "sniff", FALSE)
      BY <2>3, <3>2, AnsweredAt443
    <3>4. q.kind = "upgrade" /\ q.path = cfg.ws
      OBVIOUS
    <3> HIDE DEF q
    <3>5. Fronting!Dispatch(q, "sniff", FALSE) = "session"
      BY <1>2, <3>4 DEF Fronting!Dispatch, Fronting!UpgradeOf
    <3> QED BY <3>3, <3>5
  <2> QED BY <2>2, <2>3
<1>5. ASSUME NEW url \in Fronting!SubscriptionUrl
      PROVE  Fronting!At("443", Fronting!Request("internet", TRUE, "get", url)) = "subscription"
  <2>1. cfg.sub /\ cfg.domain /\ url = cfg.path \o <<"token">>
    BY <1>5 DEF Fronting!SubscriptionUrl
  <2>2. Fronting!Serves
    BY <1>2, <2>1 DEF Fronting!Serves, Fronting!TlsLink
  <2>3. Fronting!Under(url, cfg.path)
    <3> DEFINE p == cfg.path
               s == "token"
    <3>1. p \in Seq(Segments)
      BY <1>1, PathsAre DEF FrontTyped
    <3>2. s \in Segments
      BY DEF Segments
    <3>3. url = p \o <<s>>
      BY <2>1, Zenon
    <3> HIDE DEF p, s
    <3>4. Fronting!Under(p \o <<s>>, p)
      BY <3>1, <3>2, OneMore
    <3> QED BY <3>3, <3>4, Zenon DEF p
  <2>4. Fronting!Wants(url)
    BY <2>2, <2>3 DEF Fronting!Wants
  <2>5. CASE Fronting!Builtin
    <3> DEFINE q == Fronting!Request("internet", TRUE, "get", url)
    <3>1. PICK context \in {"sniff", "https"} : Fronting!At("443", q) = Fronting!Dispatch(q, context, TRUE)
      BY <2>5, AnsweredAt443
    <3>2. q.kind = "get" /\ q.path = url
      BY DEF Fronting!Request
    <3> HIDE DEF q
    <3>3. Fronting!Dispatch(q, context, TRUE) = "subscription"
      BY <2>4, <3>2 DEF Fronting!Dispatch, Fronting!UpgradeOf, Fronting!Private
    <3> QED BY <3>1, <3>3 DEF q
  <2>6. CASE ~Fronting!Builtin
    <3> DEFINE q == [from |-> "local", tls |-> FALSE, kind |-> "get", path |-> url]
    <3>1. Fronting!At("443", Fronting!Request("internet", TRUE, "get", url)) = Fronting!Dispatch(q, "sniff", FALSE)
      BY <2>4, <2>6, AnsweredAt443
    <3>2. q.kind = "get" /\ q.path = url /\ q.from = "local"
      OBVIOUS
    <3> HIDE DEF q
    <3>3. Fronting!Dispatch(q, "sniff", FALSE) = "subscription"
      BY <2>4, <3>2 DEF Fronting!Dispatch, Fronting!UpgradeOf, Fronting!Private
    <3> QED BY <3>1, <3>3
  <2> QED BY <2>5, <2>6
<1> QED BY <1>4, <1>5

LEMMA PanelLeadsThere ==
  ASSUME FrontInv
  PROVE  Fronting!PanelLeads
<1>1. FrontTyped /\ Begun /\ Places
  BY DEF FrontInv
<1> SUFFICES ASSUME Fronting!Reachable, api = "listening", held["443"] # "sniff", NEW s \in {"x", "s", "q"}
             PROVE  Fronting!At("443", Fronting!Request("internet", TRUE, "get", Fronting!Panel \o <<s>>)) = "panel"
  BY DEF Fronting!PanelLeads
<1>2. cfg.tls /\ startup = "up" /\ Fronting!TlsValid /\ Fronting!SubscriptionValid /\ cfg.api
  BY <1>1 DEF Fronting!Reachable, Begun
<1> DEFINE panel == Fronting!Panel
           page == panel \o <<s>>
           sub == cfg.path
           ws == cfg.ws
<1>3. /\ panel \in Seq(Segments) /\ sub \in Seq(Segments) /\ ws \in Seq(Segments)
      /\ s \in Segments
  <2> DEFINE e == "panel"
             t == <<e>>
  <2>1. e \in Segments /\ s \in Segments
    BY DEF Segments
  <2>2. cfg.webpath \in Seq(Segments) /\ cfg.path \in Seq(Segments) /\ cfg.ws \in Seq(Segments)
    BY <1>1, PathsAre DEF FrontTyped
  <2>3. t \in Seq(Segments)
    <3> HIDE DEF e
    <3> QED BY <2>1
  <2>4. panel = IF cfg.webpath = <<>> THEN t ELSE cfg.webpath
    BY Zenon DEF Fronting!Panel
  <2> HIDE DEF panel, t, e
  <2>5. panel \in Seq(Segments)
    BY <2>2, <2>3, <2>4
  <2> QED BY <2>1, <2>2, <2>5
<1>4. ws # panel /\ ~Fronting!Under(ws, panel)
  BY <1>2 DEF Fronting!TlsValid
<1>5. cfg.sub => ~Fronting!Overlaps(sub, panel)
  BY <1>2 DEF Fronting!SubscriptionValid
<1>6. cfg.sub => sub # panel /\ ~Fronting!Under(panel, sub)
  BY <1>5 DEF Fronting!Overlaps
<1> HIDE DEF panel, sub, ws
<1>7. /\ Fronting!Under(page, panel) /\ Fronting!IsPrefix(panel, page)
      /\ Fronting!Under(page, sub) => sub = panel \/ Fronting!Under(panel, sub)
  BY <1>3, OneMore
<1>8. page # ws
  BY <1>4, <1>7
<1>9. ~Fronting!Wants(page)
  <2>1. Fronting!Wants(page) => cfg.sub /\ Fronting!Under(page, sub)
    BY DEF Fronting!Wants, Fronting!Serves, sub
  <2> QED BY <1>6, <1>7, <2>1
<1> HIDE DEF page
<1> DEFINE q == Fronting!Request("internet", TRUE, "get", page)
<1>10. CASE Fronting!Builtin
  <2>1. PICK context \in {"sniff", "https"} :
          held["443"] = context /\ Fronting!At("443", q) = Fronting!Dispatch(q, context, TRUE)
    BY <1>10, AnsweredAt443
  <2>2. context = "https"
    BY <2>1
  <2>3. q.kind = "get" /\ q.path = page
    BY DEF Fronting!Request
  <2>4. Fronting!Matches(page)
    BY <1>7 DEF Fronting!Matches, panel
  <2> HIDE DEF q
  <2>5. Fronting!Dispatch(q, context, TRUE) = "panel"
    BY <1>2, <1>9, <2>2, <2>3, <2>4 DEF Fronting!Dispatch, Fronting!UpgradeOf, Fronting!PanelRoute
  <2> QED BY <2>1, <2>5 DEF q, page, panel
<1>11. CASE ~Fronting!Builtin
  <2>1. Fronting!At("443", q) = "panel"
    BY <1>2, <1>7, <1>8, <1>9, <1>11, AnsweredAt443 DEF panel, ws
  <2> QED BY <2>1 DEF page, panel
<1> QED BY <1>10, <1>11

LEMMA FrontInvSound ==
  ASSUME FrontInv
  PROVE  FrontendsSound
<1>1. FrontTyped /\ Begun /\ Places /\ Expected
  BY DEF FrontInv
<1>2. Fronting!NothingInTheClear
  <2> SUFFICES ASSUME NEW a \in Fronting!Addresses, NEW q \in Fronting!Requests, ~q.tls
               PROVE  Fronting!At(a, q) \notin {"subscription", "panel", "bad gateway"}
    BY DEF Fronting!NothingInTheClear
  <2>1. q.from = "internet"
    BY DEF Fronting!Requests, Fronting!Request
  <2>2. Fronting!HandleConn(q, "sniff") \notin {"subscription", "panel", "bad gateway"}
    BY <2>1 DEF Fronting!HandleConn, Fronting!Dispatch, Fronting!Private
  <2>3. Fronting!HandleConn(q, "https") = "closed" /\ Fronting!WebServer(q) = "other"
    BY DEF Fronting!HandleConn, Fronting!WebServer
  <2> QED BY <2>2, <2>3 DEF Fronting!At
<1>3. Fronting!LinksAgree
  BY DEF Fronting!LinksAgree, Fronting!Document, Fronting!ShareLinks, Fronting!TlsLink, Fronting!LinkPath
<1>4. Fronting!ChallengesAnswered
  <2> SUFFICES ASSUME startup = "up", renewing, held["80"] # "other"
               PROVE  Fronting!ChallengeAnswered
    BY DEF Fronting!ChallengesAnswered
  <2>1. \A x : ~Awaits(x)
    <3>1. Len(queue) = 0
      BY <1>1, EmptySeq DEF Begun
    <3> QED BY <3>1 DEF Awaits
  <2>2. IF Fronting!Builtin THEN held["80"] = "http" ELSE held["responder"] = "responder" /\ held["80"] = "web server"
    BY <1>1, <2>1 DEF Expected, Places
  <2> QED BY <2>2 DEF Fronting!ChallengeAnswered
<1>5. Fronting!PanelAsksWho
  BY <1>1 DEF Places, Fronting!PanelAsksWho
<1> QED BY <1>2, <1>3, <1>4, <1>5, LinksLeadThere, PanelLeadsThere DEF FrontendsSound, Fronting!FrontendsSound

(* Whatever section is accepted and whichever ports are taken when the server *)
(* starts: where the public port leads to it, a link that is handed out opens *)
(* a session, a subscription's URL its document and a page of the panel the   *)
(* panel, neither is answered in the clear, and a challenge is answered where *)
(* certificates are renewed (config.rs, lib.rs, transport/sniff.rs).          *)
THEOREM FrontendsAreSound == PartsSpec => []FrontendsSound
<1>1. PartsInit => FrontInv
  BY FrontInvInit DEF PartsInit
<1>2. FrontInv /\ [PartsNext]_partsVars => FrontInv'
  BY FrontInvStep
<1>3. FrontInv => FrontendsSound
  BY FrontInvSound
<1> QED BY <1>1, <1>2, <1>3, PTL DEF PartsSpec

--------------------------------------------------------------------------------
(* The configuration file.                                                    *)

Modes == {"server", "client", "relay"}
Fielded(f) == f = [x \in Store!Fields |-> f[x]]

(* A file that can be read, and what may be there instead.                    *)
Readable(f) ==
  /\ Fielded(f) /\ f.is = "file" /\ f.mode \in Modes
  /\ f.stamp \in Nat /\ f.tagged \in BOOLEAN /\ f.modular \in BOOLEAN
  /\ f.modular => f.mode = "client" /\ f.stamp = 0 /\ f.keys = {}
Stored(f) == f \in {Store!Absent, Store!Torn} \/ Readable(f)

LEMMA FieldsAre ==
  Store!Fields = {"is", "mode", "tagged", "stamp", "keys", "modular", "servers", "default", "group",
                  "old", "nulls", "tls", "sub"}
  BY DEF Store!Fields, Store!Absent, Store!File

LEMMA HasFields ==
  ASSUME NEW f, Fielded(f)
  PROVE  /\ DOMAIN f = Store!Fields
         /\ {"is", "mode", "tagged", "stamp", "keys", "modular", "servers", "default", "group",
             "old", "nulls", "tls", "sub"} \subseteq DOMAIN f
  BY FieldsAre DEF Fielded

LEMMA FileIs ==
  ASSUME NEW mode \in Modes, NEW ks
  PROVE  LET f == Store!File(mode, ks) IN
         /\ Readable(f) /\ f.mode = mode /\ f.tagged = TRUE /\ f.modular = FALSE /\ f.keys = ks
<1> DEFINE f == Store!File(mode, ks)
<1>1. Fielded(f)
  BY FieldsAre DEF Fielded, Store!File
<1>2. /\ f.is = "file" /\ f.mode = mode /\ f.stamp = 2 /\ f.tagged = TRUE /\ f.modular = FALSE
      /\ f.keys = ks
  BY DEF Store!File, Store!CurrentVersion
<1> HIDE DEF f
<1>3. Readable(f)
  <2>1. f.stamp \in Nat
    BY <1>2
  <2>2. f.tagged \in BOOLEAN /\ f.modular \in BOOLEAN /\ ~f.modular
    BY <1>2, Zenon
  <2> QED BY <1>1, <1>2, <2>1, <2>2, Zenon DEF Readable
<1> QED BY <1>2, <1>3 DEF f

(* What the wizard, init and import write for a client.                       *)
LEMMA OldClientIs ==
  ASSUME NEW ks
  PROVE  Readable([Store!File("client", ks) EXCEPT !.old = TRUE])
<1> DEFINE g == Store!File("client", ks)
           f == [g EXCEPT !.old = TRUE]
<1>1. Readable(g) /\ g.modular = FALSE
  BY FileIs DEF Modes
<1> HIDE DEF g
<1>2. Fielded(f)
  BY <1>1 DEF Fielded, Readable
<1>3. f.is = g.is /\ f.mode = g.mode /\ f.stamp = g.stamp /\ f.tagged = g.tagged /\ f.modular = g.modular
  BY <1>1, HasFields DEF Readable
<1> HIDE DEF f
<1>4. Readable(f)
  BY <1>1, <1>2, <1>3 DEF Readable
<1> QED BY <1>4 DEF f, g

(* A command that edits a file changes its keys, tls or sub.                  *)
LEMMA EditedIs ==
  ASSUME NEW f, NEW v, Readable(f)
  PROVE  /\ f.modular = FALSE => LET g == [f EXCEPT !.keys = v] IN
              /\ Readable(g) /\ g.keys = v /\ g.servers = f.servers /\ g.mode = f.mode /\ g.tagged = f.tagged
              /\ g.modular = f.modular /\ g.tls = f.tls /\ g.sub = f.sub
         /\ LET g == [f EXCEPT !.tls = v] IN Readable(g) /\ g.keys = f.keys /\ g.servers = f.servers
         /\ LET g == [f EXCEPT !.sub = v] IN Readable(g) /\ g.keys = f.keys /\ g.servers = f.servers
<1>0. Fielded(f) /\ f.is = "file" /\ f.mode \in Modes /\ f.stamp \in Nat /\ f.tagged \in BOOLEAN
      /\ f.modular \in BOOLEAN /\ (f.modular => f.mode = "client" /\ f.stamp = 0 /\ f.keys = {})
  BY DEF Readable
<1>1. {"is", "mode", "tagged", "stamp", "keys", "modular", "servers", "default", "group",
       "old", "nulls", "tls", "sub"} \subseteq DOMAIN f
  BY <1>0, HasFields
<1>2. f.modular = FALSE => LET g == [f EXCEPT !.keys = v] IN
              /\ Readable(g) /\ g.keys = v /\ g.servers = f.servers /\ g.mode = f.mode /\ g.tagged = f.tagged
              /\ g.modular = f.modular /\ g.tls = f.tls /\ g.sub = f.sub
  <2> DEFINE g == [f EXCEPT !.keys = v]
  <2>1. Fielded(g)
    BY <1>0 DEF Fielded
  <2>2. /\ g.is = f.is /\ g.mode = f.mode /\ g.stamp = f.stamp /\ g.tagged = f.tagged
        /\ g.modular = f.modular /\ g.keys = v /\ g.servers = f.servers /\ g.tls = f.tls /\ g.sub = f.sub
    BY <1>1
  <2> HIDE DEF g
  <2>3. f.modular = FALSE => Readable(g)
    BY <1>0, <2>1, <2>2 DEF Readable
  <2> QED BY <2>2, <2>3 DEF g
<1>3. LET g == [f EXCEPT !.tls = v] IN Readable(g) /\ g.keys = f.keys /\ g.servers = f.servers
  <2> DEFINE g == [f EXCEPT !.tls = v]
  <2>1. Fielded(g)
    BY <1>0 DEF Fielded
  <2>2. /\ g.is = f.is /\ g.mode = f.mode /\ g.stamp = f.stamp /\ g.tagged = f.tagged
        /\ g.modular = f.modular /\ g.keys = f.keys /\ g.servers = f.servers
    BY <1>1
  <2> HIDE DEF g
  <2>3. Readable(g)
    BY <1>0, <2>1, <2>2 DEF Readable
  <2> QED BY <2>2, <2>3 DEF g
<1>4. LET g == [f EXCEPT !.sub = v] IN Readable(g) /\ g.keys = f.keys /\ g.servers = f.servers
  <2> DEFINE g == [f EXCEPT !.sub = v]
  <2>1. Fielded(g)
    BY <1>0 DEF Fielded
  <2>2. /\ g.is = f.is /\ g.mode = f.mode /\ g.stamp = f.stamp /\ g.tagged = f.tagged
        /\ g.modular = f.modular /\ g.keys = f.keys /\ g.servers = f.servers
    BY <1>1
  <2> HIDE DEF g
  <2>3. Readable(g)
    BY <1>0, <2>1, <2>2 DEF Readable
  <2> QED BY <2>2, <2>3 DEF g
<1> QED BY <1>2, <1>3, <1>4

LEMMA NothingThere ==
  ASSUME NEW f \in {Store!Absent, Store!Torn}
  PROVE  f.is \in {"absent", "torn"} /\ Store!KeysIn(f) = {}
<1>1. f.keys = {} /\ f.servers = <<>> /\ f.is \in {"absent", "torn"}
  BY DEF Store!Absent, Store!Torn, Store!File
<1>2. Store!ToSet(f.servers) = {}
  BY <1>1 DEF Store!ToSet
<1> QED BY <1>1, <1>2 DEF Store!KeysIn

--------------------------------------------------------------------------------
(* The migration.                                                             *)

(* A step leaves what it is not about, and a client of 0.3.x is flat          *)
(* afterwards.                                                                *)
LEMMA StepLeaves ==
  ASSUME NEW f, NEW kind \in Modes, NEW from \in {0, 1}, Fielded(f)
  PROVE  LET g == Store!Step(f, kind, from) IN
         /\ Fielded(g) /\ g.is = f.is /\ g.mode = f.mode /\ g.stamp = f.stamp /\ g.tagged = f.tagged
         /\ g.tls = f.tls /\ g.sub = f.sub
         /\ IF kind = "client" /\ from = 0
            THEN g.modular = FALSE /\ g.keys = Store!Primary(f) /\ g.servers = <<>>
            ELSE g.modular = f.modular /\ g.keys = f.keys /\ g.servers = f.servers
<1>1. {"is", "mode", "tagged", "stamp", "keys", "modular", "servers", "default", "group",
       "old", "nulls", "tls", "sub"} \subseteq DOMAIN f
  BY HasFields
<1>2. CASE kind = "client" /\ from = 0
  <2> DEFINE g == Store!ModularToFlat(f)
  <2>1. Store!Step(f, kind, from) = g
    BY <1>2 DEF Store!Step
  <2>2. Fielded(g)
    BY DEF Fielded, Store!ModularToFlat
  <2>3. /\ g.is = f.is /\ g.mode = f.mode /\ g.stamp = f.stamp /\ g.tagged = f.tagged
        /\ g.tls = f.tls /\ g.sub = f.sub
        /\ g.modular = FALSE /\ g.keys = Store!Primary(f) /\ g.servers = <<>>
    BY <1>1 DEF Store!ModularToFlat
  <2> HIDE DEF g
  <2> QED BY <1>2, <2>1, <2>2, <2>3
<1>3. CASE ~(kind = "client" /\ from = 0)
  <2> DEFINE h == [f EXCEPT !.old = FALSE]
  <2>1. Store!Step(f, kind, from) = h \/ Store!Step(f, kind, from) = f
    BY <1>3 DEF Store!Step, Store!DropRemoved, Store!RelayDropAuth
  <2>2. Fielded(h)
    BY DEF Fielded
  <2>3. /\ h.is = f.is /\ h.mode = f.mode /\ h.stamp = f.stamp /\ h.tagged = f.tagged
        /\ h.tls = f.tls /\ h.sub = f.sub
        /\ h.modular = f.modular /\ h.keys = f.keys /\ h.servers = f.servers
    BY <1>1
  <2> HIDE DEF h
  <2> QED BY <1>3, <2>1, <2>2, <2>3
<1> QED BY <1>2, <1>3

LEMMA KindIs ==
  ASSUME NEW f, Readable(f)
  PROVE  Store!DetectKind(f) = f.mode
<1>1. CASE f.mode = "server"
  BY <1>1 DEF Store!DetectKind, Store!Has
<1>2. CASE f.mode = "relay"
  BY <1>2 DEF Store!DetectKind, Store!Has
<1>3. CASE f.mode = "client"
  BY <1>3 DEF Store!DetectKind, Store!Has
<1> QED BY <1>1, <1>2, <1>3 DEF Readable, Modes

(* What is written at the end of a migration.                                 *)
Stamped(g, kind) ==
  Store!StripNulls([g EXCEPT !.mode = kind, !.tagged = TRUE, !.stamp = Store!CurrentVersion])

LEMMA StampedFielded ==
  ASSUME NEW g, NEW kind, Fielded(g)
  PROVE  Fielded(Stamped(g, kind))
<1> DEFINE h == [g EXCEPT !.mode = kind, !.tagged = TRUE, !.stamp = Store!CurrentVersion]
           n == [h EXCEPT !.nulls = FALSE]
<1>1. Fielded(h)
  BY DEF Fielded
<1>2. Stamped(g, kind) = n
  BY DEF Stamped, Store!StripNulls
<1> HIDE DEF h
<1>3. Fielded(n)
  BY <1>1 DEF Fielded
<1> QED BY <1>2, <1>3

LEMMA StampedIs ==
  ASSUME NEW g, NEW kind, Fielded(g)
  PROVE  /\ Stamped(g, kind).is = g.is /\ Stamped(g, kind).mode = kind /\ Stamped(g, kind).tagged = TRUE
         /\ Stamped(g, kind).stamp = 2 /\ Stamped(g, kind).nulls = FALSE
         /\ Stamped(g, kind).modular = g.modular /\ Stamped(g, kind).keys = g.keys
         /\ Stamped(g, kind).servers = g.servers
         /\ Stamped(g, kind).tls = g.tls /\ Stamped(g, kind).sub = g.sub
<1> DEFINE h == [g EXCEPT !.mode = kind, !.tagged = TRUE, !.stamp = Store!CurrentVersion]
           n == [h EXCEPT !.nulls = FALSE]
<1>1. {"is", "mode", "tagged", "stamp", "keys", "modular", "servers", "default", "group",
       "old", "nulls", "tls", "sub"} \subseteq DOMAIN g
  BY HasFields
<1>2. /\ Fielded(h) /\ h.is = g.is /\ h.mode = kind /\ h.tagged = TRUE /\ h.stamp = 2
      /\ h.modular = g.modular /\ h.keys = g.keys /\ h.servers = g.servers /\ h.tls = g.tls /\ h.sub = g.sub
  <2>1. Fielded(h)
    BY DEF Fielded
  <2>2. /\ h.is = g.is /\ h.mode = kind /\ h.tagged = TRUE /\ h.stamp = 2
        /\ h.modular = g.modular /\ h.keys = g.keys /\ h.servers = g.servers /\ h.tls = g.tls /\ h.sub = g.sub
    BY <1>1 DEF Store!CurrentVersion
  <2> QED BY SMTT(40), <2>1, <2>2
<1>4. Stamped(g, kind) = n
  BY DEF Stamped, Store!StripNulls
<1> HIDE DEF h
<1>5. Fielded(n)
  BY <1>2 DEF Fielded
<1>6. {"is", "mode", "tagged", "stamp", "keys", "modular", "servers", "default", "group",
       "old", "nulls", "tls", "sub"} \subseteq DOMAIN h
  BY <1>2, HasFields
<1>7. /\ n.is = h.is /\ n.mode = h.mode /\ n.tagged = h.tagged /\ n.stamp = h.stamp /\ n.nulls = FALSE
      /\ n.modular = h.modular /\ n.keys = h.keys /\ n.servers = h.servers /\ n.tls = h.tls /\ n.sub = h.sub
  BY <1>6
<1> HIDE DEF n
<1>9. /\ Fielded(n) /\ n.is = g.is /\ n.mode = kind /\ n.tagged = TRUE /\ n.stamp = 2 /\ n.nulls = FALSE
      /\ n.modular = g.modular /\ n.keys = g.keys /\ n.servers = g.servers /\ n.tls = g.tls /\ n.sub = g.sub
  BY <1>2, <1>5, <1>7
<1> QED BY <1>4, <1>9

LEMMA StampedSame ==
  ASSUME NEW g, Fielded(g), g.tagged = TRUE, g.stamp = 2, g.nulls = FALSE
  PROVE  Stamped(g, g.mode) = g
<1> DEFINE h == [g EXCEPT !.mode = g.mode, !.tagged = TRUE, !.stamp = Store!CurrentVersion]
<1>1. h = g
  BY HasFields DEF Store!CurrentVersion, Fielded
<1>2. [g EXCEPT !.nulls = FALSE] = g
  BY HasFields DEF Fielded
<1>3. Stamped(g, g.mode) = [h EXCEPT !.nulls = FALSE]
  BY DEF Stamped, Store!StripNulls
<1> HIDE DEF h
<1> QED BY <1>1, <1>2, <1>3

LEMMA MigratedIs ==
  ASSUME NEW f, Readable(f), Store!DetectVersion(f) <= 2
  PROVE  LET m == Store!Migrated(f) IN
         /\ Readable(m) /\ m.tagged = TRUE /\ m.stamp = 2 /\ m.nulls = FALSE
         /\ Store!KeysIn(f) \subseteq Store!KeysIn(m) \cup Store!Dropped(f)
         /\ Store!Accepts(f) => Store!Accepts(m)
<1> DEFINE m == Store!Migrated(f)
           g == Store!From(0, f, f)
           h == Store!From(1, f, g)
<1>0. Fielded(f) /\ f.is = "file" /\ f.mode \in Modes /\ f.stamp \in Nat /\ f.tagged \in BOOLEAN
      /\ f.modular \in BOOLEAN /\ (f.modular => f.mode = "client" /\ f.stamp = 0 /\ f.keys = {})
  BY DEF Readable
<1>1. Store!DetectKind(f) = f.mode
  BY KindIs
<1>2. Store!DetectVersion(f) = IF f.stamp # 0 THEN f.stamp ELSE IF f.modular THEN 0 ELSE 1
  BY DEF Store!DetectVersion
<1>3. /\ Fielded(g) /\ g.is = "file" /\ g.mode = f.mode /\ g.tls = f.tls /\ g.sub = f.sub
      /\ g.modular = FALSE
      /\ IF f.modular THEN g.keys = Store!Primary(f) /\ g.servers = <<>>
         ELSE g.keys = f.keys /\ g.servers = f.servers
  <2>1. CASE f.modular
    <3>1. g = Store!Step(f, "client", 0)
      BY <1>0, <1>1, <1>2, <2>1 DEF Store!From
    <3> HIDE DEF g
    <3> QED BY <1>0, <2>1, <3>1, StepLeaves DEF Modes
  <2>2. CASE ~f.modular
    <3>1. g = f
      BY <1>0, <1>2, <2>2 DEF Store!From
    <3> HIDE DEF g
    <3> QED BY <1>0, <2>2, <3>1
  <2> QED BY <1>0, <2>1, <2>2
<1> HIDE DEF g
<1>4. /\ Fielded(h) /\ h.is = "file" /\ h.mode = f.mode /\ h.tls = f.tls /\ h.sub = f.sub
      /\ h.modular = FALSE /\ h.keys = g.keys /\ h.servers = g.servers
  <2> DEFINE k == Store!Step(g, f.mode, 1)
  <2>1. h = k \/ h = g
    BY <1>1 DEF Store!From
  <2> HIDE DEF h
  <2>2. /\ Fielded(k) /\ k.is = g.is /\ k.mode = g.mode /\ k.tls = g.tls /\ k.sub = g.sub
        /\ k.modular = g.modular /\ k.keys = g.keys /\ k.servers = g.servers
    <3> DEFINE one == 1
    <3>1. one \in {0, 1} /\ one # 0
      OBVIOUS
    <3> HIDE DEF one
    <3>2. LET e == Store!Step(g, f.mode, one) IN
            /\ Fielded(e) /\ e.is = g.is /\ e.mode = g.mode /\ e.tls = g.tls /\ e.sub = g.sub
            /\ e.modular = g.modular /\ e.keys = g.keys /\ e.servers = g.servers
      <4> DEFINE kind == f.mode
      <4>1. kind \in Modes
        BY <1>0
      <4> HIDE DEF kind
      <4>2. LET e == Store!Step(g, kind, one) IN
              /\ Fielded(e) /\ e.is = g.is /\ e.mode = g.mode /\ e.stamp = g.stamp /\ e.tagged = g.tagged
              /\ e.tls = g.tls /\ e.sub = g.sub
              /\ IF kind = "client" /\ one = 0
                 THEN e.modular = FALSE /\ e.keys = Store!Primary(g) /\ e.servers = <<>>
                 ELSE e.modular = g.modular /\ e.keys = g.keys /\ e.servers = g.servers
        BY <1>3, <3>1, <4>1, StepLeaves, Zenon
      <4>3. LET e == Store!Step(g, kind, one) IN
              /\ Fielded(e) /\ e.is = g.is /\ e.mode = g.mode
              /\ e.tls = g.tls /\ e.sub = g.sub
              /\ e.modular = g.modular /\ e.keys = g.keys /\ e.servers = g.servers
        BY <3>1, <4>2, Zenon
      <4> QED BY <4>3 DEF kind
    <3> QED BY <3>2 DEF one
  <2> HIDE DEF k
  <2>3. CASE h = k
    BY <1>3, <2>2, <2>3
  <2>4. CASE h = g
    BY <1>3, <2>4
  <2> QED BY <2>1, <2>3, <2>4
<1> HIDE DEF h
<1>5. m = Stamped(h, f.mode)
  BY <1>1 DEF Store!Migrated, Stamped, g, h
<1> HIDE DEF m
<1>6. /\ Fielded(m) /\ m.is = "file" /\ m.mode = f.mode /\ m.tagged = TRUE /\ m.stamp = 2 /\ m.nulls = FALSE
      /\ m.modular = FALSE /\ m.keys = h.keys /\ m.servers = h.servers /\ m.tls = f.tls /\ m.sub = f.sub
  <2> DEFINE kind == f.mode
             e == Stamped(h, kind)
  <2> HIDE DEF kind
  <2>1. /\ Fielded(e) /\ e.is = h.is /\ e.mode = kind /\ e.tagged = TRUE /\ e.stamp = 2 /\ e.nulls = FALSE
        /\ e.modular = h.modular /\ e.keys = h.keys /\ e.servers = h.servers /\ e.tls = h.tls /\ e.sub = h.sub
    <3>1. Fielded(h)
      BY <1>4
    <3>2. /\ Stamped(h, kind).is = h.is /\ Stamped(h, kind).mode = kind /\ Stamped(h, kind).tagged = TRUE
          /\ Stamped(h, kind).stamp = 2 /\ Stamped(h, kind).nulls = FALSE
          /\ Stamped(h, kind).modular = h.modular /\ Stamped(h, kind).keys = h.keys
          /\ Stamped(h, kind).servers = h.servers
          /\ Stamped(h, kind).tls = h.tls /\ Stamped(h, kind).sub = h.sub
      BY <3>1, StampedIs
    <3>3. Fielded(Stamped(h, kind))
      BY <3>1, StampedFielded
    <3> QED BY <3>2, <3>3
  <2>2. m = e
    BY <1>5 DEF kind
  <2> HIDE DEF e
  <2> QED BY <1>4, <2>1, <2>2 DEF kind
<1>7. Readable(m)
  <2>1. m.stamp \in Nat
    BY <1>6
  <2>2. m.tagged \in BOOLEAN /\ m.modular \in BOOLEAN /\ ~m.modular
    BY <1>6, Zenon
  <2> QED BY <1>0, <1>6, <2>1, <2>2, Zenon DEF Readable
<1>8. Store!KeysIn(f) \subseteq Store!KeysIn(m) \cup Store!Dropped(f)
  <2>1. CASE f.modular
    <3>1. m.keys = Store!Primary(f) /\ f.keys = {}
      BY <1>0, <1>3, <1>4, <1>6, <2>1
    <3> QED BY <2>1, <3>1 DEF Store!KeysIn, Store!Dropped
  <2>2. CASE ~f.modular
    <3>1. m.keys = f.keys /\ m.servers = f.servers
      BY <1>3, <1>4, <1>6, <2>2
    <3> QED BY <3>1 DEF Store!KeysIn
  <2> QED BY <1>0, <2>1, <2>2
<1>9. Store!Accepts(f) => Store!Accepts(m)
  <2> SUFFICES ASSUME Store!Accepts(f) PROVE Store!Accepts(m)
    OBVIOUS
  <2>1. ~f.modular /\ Store!Validate(f)
    BY DEF Store!Accepts
  <2>2. m.keys = f.keys
    BY <1>3, <1>4, <1>6, <2>1
  <2>3. Store!Validate(m)
    BY <1>6, <2>1, <2>2 DEF Store!Validate
  <2> QED BY <1>6, <2>3 DEF Store!Accepts
<1> QED BY <1>6, <1>7, <1>8, <1>9 DEF m

(* A file that was migrated is as it would be migrated.                       *)
LEMMA Settled ==
  ASSUME NEW m, Readable(m), m.tagged = TRUE, m.stamp = 2, m.nulls = FALSE
  PROVE  Store!UpToDate(m)
<1>1. Store!DetectKind(m) = m.mode
  BY KindIs
<1>2. Store!DetectVersion(m) = 2
  BY DEF Store!DetectVersion
<1>3. Store!From(1, m, Store!From(0, m, m)) = m
  BY <1>2 DEF Store!From
<1>4. Store!Migrated(m) = Stamped(m, m.mode)
  BY <1>1, <1>3 DEF Store!Migrated, Stamped
<1>5. Store!Migrated(m) = m
  <2>1. Stamped(m, m.mode) = m
    BY StampedSame DEF Readable
  <2> QED BY <1>4, <2>1
<1> QED BY <1>5 DEF Store!UpToDate

--------------------------------------------------------------------------------
Gone == noted \cup replaced

StoreTyped ==
  /\ Stored(config_file) /\ Stored(backup) /\ Stored(fallback) /\ unsafe \in BOOLEAN
  /\ DOMAIN command = {"at", "out", "to", "safe", "unit"}
  /\ command.at \in {"done", "copy", "copied", "truncate", "fill"} /\ command.to \in {"config", "fallback"}

(* What a command is about to write keeps every key there is, as far as       *)
(* nobody said that it goes, and is accepted where what it replaces is; a     *)
(* command that keeps a copy has it before it truncates.                      *)
Writing ==
  command.at # "done" =>
    /\ Readable(command.out)
    /\ accepted => Store!Accepts(command.out)
    /\ command.to = "config" => known \subseteq Store!KeysIn(command.out) \cup Gone
    /\ command.at \in {"copy", "copied"} => config_file.is = "file" /\ command.to = "config"
    /\ command.at = "truncate" /\ command.to = "config" /\ command.safe =>
         known \subseteq Store!KeysIn(backup) \cup Gone

StillRuns == accepted /\ config_file.is = "file" => Store!Accepts(config_file)

StoreInv ==
  StoreTyped /\ Writing /\ StillRuns /\ Store!NoKeyLost /\ Store!UnitHasItsFile /\ Store!UnitReads

LEMMA StoreInvInit ==
  ASSUME Store!Init
  PROVE  StoreInv
<1>1. /\ config_file \in OldFiles \cup {Store!Absent} /\ backup = Store!Absent /\ fallback = Store!Absent
      /\ unit = "none" /\ command = Store!Done /\ known = Store!KeysIn(config_file)
      /\ unsafe = FALSE /\ accepted = FALSE
  BY DEF Store!Init
<1>2. /\ DOMAIN command = {"at", "out", "to", "safe", "unit"} /\ command.at = "done" /\ command.to = "config"
  BY <1>1 DEF Store!Done
<1>3. Stored(config_file) /\ Stored(backup) /\ Stored(fallback)
  <2>1. ASSUME NEW f \in OldFiles PROVE Readable(f)
    BY SafetyAssumption, Zenon DEF Store!Valid, Readable, Fielded, Modes
  <2> QED BY <1>1, <2>1 DEF Stored
<1>4. StoreTyped
  BY <1>1, <1>2, <1>3, Zenon DEF StoreTyped
<1>5. Writing /\ StillRuns
  BY <1>1, <1>2 DEF Writing, StillRuns
<1>6. Store!NoKeyLost /\ Store!UnitHasItsFile /\ Store!UnitReads
  BY <1>1 DEF Store!NoKeyLost, Store!UnitHasItsFile, Store!UnitReads
<1> QED BY <1>4, <1>5, <1>6 DEF StoreInv

(* A command that begins: what it must see to.                                *)
LEMMA BeginKeeps ==
  ASSUME StoreInv, NEW where \in {"copy", "truncate"}, NEW out, NEW to \in {"config", "fallback"},
         NEW safe, NEW registers,
         Store!Begin(where, out, to, safe, registers), UNCHANGED Store!untouched, UNCHANGED known,
         Readable(out), known \cap Gone \subseteq Gone',
         to = "config" => known \subseteq Store!KeysIn(out) \cup Gone',
         accepted' => Store!Accepts(out) /\ (config_file.is = "file" => Store!Accepts(config_file)),
         where = "copy" => config_file.is = "file" /\ to = "config",
         where = "truncate" => ~safe
  PROVE  StoreInv'
<1>1. /\ StoreTyped /\ Store!NoKeyLost /\ Store!UnitHasItsFile /\ Store!UnitReads
  BY DEF StoreInv
<1>2. UNCHANGED <<config_file, backup, fallback, unit, unsafe>>
  BY DEF Store!untouched
<1>3. command' = [at |-> where, out |-> out, to |-> to, safe |-> safe, unit |-> registers]
  BY DEF Store!Begin
<1>4. /\ DOMAIN command' = {"at", "out", "to", "safe", "unit"} /\ command'.at = where /\ command'.out = out
      /\ command'.to = to /\ command'.safe = safe
  BY <1>3
<1>5. StoreTyped'
  BY <1>1, <1>2, <1>4, Zenon DEF StoreTyped
<1>6. Writing'
  BY <1>2, <1>4 DEF Writing
<1>7. StillRuns'
  BY <1>2 DEF StillRuns
<1>8. (Store!NoKeyLost)'
  BY <1>1, <1>2 DEF Store!NoKeyLost, Gone
<1>9. (Store!UnitHasItsFile)' /\ (Store!UnitReads)'
  BY <1>1, <1>2 DEF Store!UnitHasItsFile, Store!UnitReads
<1> QED BY <1>5, <1>6, <1>7, <1>8, <1>9 DEF StoreInv

(* setup, init and import.                                                    *)
LEMMA ReplaceKeeps ==
  ASSUME StoreInv, NEW out, NEW to \in {"config", "fallback"}, NEW registers,
         Readable(out), Store!Replace(out, to, registers)
  PROVE  StoreInv'
<1>1. /\ Store!Begin("truncate", out, to, FALSE, registers)
      /\ replaced' = IF to = "config" THEN known ELSE replaced
      /\ accepted' = FALSE /\ UNCHANGED Store!untouched /\ UNCHANGED noted /\ UNCHANGED known
  BY DEF Store!Replace
<1>2. known \cap Gone \subseteq Gone' /\ (to = "config" => known \subseteq Gone')
  BY <1>1 DEF Gone
<1> QED BY <1>1, <1>2, BeginKeeps

LEMMA NewFilesKeep ==
  ASSUME StoreInv, Store!SetupAny \/ Store!InitFile \/ Store!Import
  PROVE  StoreInv'
<1>1. ASSUME NEW out, Readable(out), Store!Setup(out) PROVE StoreInv'
  BY <1>1, ReplaceKeeps DEF Store!Setup
<1>2. ASSUME Store!SetupAny PROVE StoreInv'
  <2>1. PICK k \in NewKeys :
          \/ Store!Setup(Store!WizardClient({})) \/ Store!Setup(Store!WizardClient({k}))
          \/ Store!Setup(Store!WizardServer({k})) \/ Store!Setup(Store!WizardPanel(NewKeys))
          \/ Store!Setup(Store!WizardRelay)
    BY <1>2 DEF Store!SetupAny
  <2>2. ASSUME NEW ks PROVE Readable(Store!WizardClient(ks)) /\ Readable(Store!WizardServer(ks))
    BY OldClientIs, FileIs DEF Modes, Store!WizardClient, Store!WizardServer
  <2>3. Readable(Store!WizardPanel(NewKeys)) /\ Readable(Store!WizardRelay)
    BY <2>2, FileIs DEF Modes, Store!WizardPanel, Store!WizardRelay
  <2> QED BY <1>1, <2>1, <2>2, <2>3
<1>3. ASSUME Store!InitFile PROVE StoreInv'
  <2>1. PICK mode \in {"server", "relay", "client"}, k \in NewKeys :
          Store!Replace(Store!InitTemplate(mode, k), "config", FALSE)
    BY <1>3 DEF Store!InitFile
  <2>2. Readable(Store!InitTemplate(mode, k))
    <3>1. CASE mode = "server"
      BY <3>1, FileIs DEF Modes, Store!InitTemplate
    <3>2. CASE mode = "relay"
      BY <3>2, FileIs DEF Modes, Store!InitTemplate
    <3>3. CASE mode = "client"
      BY <3>3, OldClientIs DEF Store!InitTemplate
    <3> QED BY <3>1, <3>2, <3>3
  <2> QED BY <2>1, <2>2, ReplaceKeeps
<1>4. ASSUME Store!Import PROVE StoreInv'
  <2>1. PICK k \in NewKeys :
          Store!Replace([Store!File("client", {k}) EXCEPT !.old = TRUE], "config", FALSE)
    BY <1>4 DEF Store!Import
  <2> QED BY <2>1, OldClientIs, ReplaceKeeps
<1> QED BY <1>2, <1>3, <1>4

(* generate-key, cert, sub and panel: the file that is there, changed.        *)
LEMMA EditKeeps ==
  ASSUME StoreInv, NEW where \in {"copy", "truncate"}, NEW out, NEW safe,
         Store!Begin(where, out, "config", safe, FALSE), UNCHANGED Store!untouched,
         UNCHANGED <<noted, known, replaced>>, accepted' = Store!Accepts(config_file),
         config_file.is = "file", where = "truncate" => ~safe, Readable(out),
         Store!KeysIn(config_file) \subseteq Store!KeysIn(out),
         Store!Accepts(config_file) => Store!Accepts(out)
  PROVE  StoreInv'
<1>1. Gone' = Gone
  BY DEF Gone
<1>2. known \subseteq Store!KeysIn(config_file) \cup Gone
  BY DEF StoreInv, Store!NoKeyLost, Gone
<1>3. known \subseteq Store!KeysIn(out) \cup Gone'
  BY <1>1, <1>2
<1>4. known \cap Gone \subseteq Gone'
  BY <1>1
<1>5. UNCHANGED known
  OBVIOUS
<1>6. accepted' => Store!Accepts(out) /\ (config_file.is = "file" => Store!Accepts(config_file))
  OBVIOUS
<1> DEFINE to == "config"
           registers == FALSE
<1>7. to \in {"config", "fallback"} /\ (where = "copy" => config_file.is = "file" /\ to = "config")
  OBVIOUS
<1>8. Store!Begin(where, out, to, safe, registers)
  OBVIOUS
<1> HIDE DEF to, registers
<1> QED BY <1>3, <1>4, <1>5, <1>6, <1>7, <1>8, BeginKeeps

LEMMA ReadIs ==
  ASSUME StoreInv, config_file.is = "file"
  PROVE  Readable(config_file)
  BY NothingThere DEF StoreInv, StoreTyped, Stored

LEMMA GenerateKeyKeeps ==
  ASSUME StoreInv, Store!GenerateKey
  PROVE  StoreInv'
<1>1. /\ config_file.is = "file" /\ config_file.mode = "server"
      /\ accepted' = Store!Accepts(config_file)
      /\ UNCHANGED Store!untouched /\ UNCHANGED <<noted, known, replaced>>
  BY DEF Store!GenerateKey
<1>2. PICK k \in NewKeys :
        Store!Begin("truncate", [config_file EXCEPT !.keys = @ \cup {k}], "config", FALSE, FALSE)
  BY DEF Store!GenerateKey
<1> DEFINE f == config_file
           ks == f.keys \cup {k}
           g == [f EXCEPT !.keys = ks]
<1>3. Store!Begin("truncate", g, "config", FALSE, FALSE)
  BY <1>2
<1>4. Readable(f) /\ f.modular = FALSE
  BY <1>1, ReadIs DEF Readable
<1> HIDE DEF f, ks
<1>5. /\ Readable(g) /\ g.keys = ks /\ g.servers = f.servers /\ g.mode = f.mode /\ g.tagged = f.tagged
      /\ g.modular = f.modular /\ g.tls = f.tls /\ g.sub = f.sub
  BY <1>4, EditedIs
<1> HIDE DEF g
<1>6. ks # {} /\ f.keys \subseteq ks
  BY DEF ks
<1>7. Store!KeysIn(f) \subseteq Store!KeysIn(g)
  BY <1>5, <1>6 DEF Store!KeysIn
<1>8. f.mode = "server"
  BY <1>1 DEF f
<1>9. Store!Accepts(f) => Store!Accepts(g)
  BY <1>5, <1>6, <1>8 DEF Store!Accepts, Store!Validate, Readable
<1> QED BY <1>1, <1>3, <1>5, <1>7, <1>9, EditKeeps DEF f

LEMMA EditsKeep ==
  ASSUME StoreInv, Store!CertIssue \/ Store!SubSwitch
  PROVE  StoreInv'
<1>1. ASSUME NEW out, NEW copied \in BOOLEAN, Store!Edit(out, copied),
             Readable(config_file) => Readable(out) /\ out.keys = config_file.keys /\ out.servers = config_file.servers
      PROVE  StoreInv'
  <2>1. /\ config_file.is = "file" /\ accepted' = Store!Accepts(config_file)
        /\ UNCHANGED Store!untouched /\ UNCHANGED <<noted, known, replaced>> /\ Store!Accepts(out)
        /\ Store!Begin(IF copied THEN "copy" ELSE "truncate", out, "config", copied, FALSE)
    BY <1>1 DEF Store!Edit, Store!EditAccepted
  <2>2. Readable(out) /\ Store!KeysIn(out) = Store!KeysIn(config_file)
    BY <1>1, <2>1, ReadIs DEF Store!KeysIn
  <2> DEFINE where == IF copied THEN "copy" ELSE "truncate"
  <2>3. where \in {"copy", "truncate"} /\ (where = "truncate" => ~copied)
    OBVIOUS
  <2>4. Store!Begin(where, out, "config", copied, FALSE)
    BY <2>1
  <2> HIDE DEF where
  <2> QED BY <2>1, <2>2, <2>3, <2>4, EditKeeps
<1>2. ASSUME Store!CertIssue PROVE StoreInv'
  <2>1. PICK copied \in BOOLEAN : Store!Edit([config_file EXCEPT !.tls = TRUE], copied)
    BY <1>2 DEF Store!CertIssue
  <2> DEFINE g == [config_file EXCEPT !.tls = TRUE]
  <2>2. Readable(config_file) => Readable(g) /\ g.keys = config_file.keys /\ g.servers = config_file.servers
    BY EditedIs
  <2> QED BY <1>1, <2>1, <2>2
<1>3. ASSUME Store!SubSwitch PROVE StoreInv'
  <2>1. PICK on \in BOOLEAN : Store!Edit([config_file EXCEPT !.sub = on], TRUE)
    BY <1>3 DEF Store!SubSwitch
  <2> DEFINE g == [config_file EXCEPT !.sub = on]
  <2>2. Readable(config_file) => Readable(g) /\ g.keys = config_file.keys /\ g.servers = config_file.servers
    BY EditedIs
  <2> QED BY <1>1, <2>1, <2>2
<1> QED BY <1>2, <1>3

LEMMA MigrateKeeps ==
  ASSUME StoreInv, Store!Migrate
  PROVE  StoreInv'
<1> DEFINE m == Store!Migrated(config_file)
<1>1. /\ config_file.is = "file" /\ accepted' = Store!Accepts(config_file)
      /\ Store!DetectVersion(config_file) <= Store!CurrentVersion
      /\ UNCHANGED Store!untouched /\ UNCHANGED <<known, replaced>>
      /\ Store!Begin(Store!MigrateFirst, m, "config", TRUE, FALSE)
      /\ noted' = noted \cup Store!Dropped(config_file)
  BY DEF Store!Migrate
<1>2. Readable(config_file) /\ Store!DetectVersion(config_file) <= 2
  BY <1>1, ReadIs DEF Store!CurrentVersion
<1>3. /\ Readable(m) /\ Store!KeysIn(config_file) \subseteq Store!KeysIn(m) \cup Store!Dropped(config_file)
      /\ Store!Accepts(config_file) => Store!Accepts(m)
  BY <1>2, MigratedIs
<1> HIDE DEF m
<1>4. known \subseteq Store!KeysIn(config_file) \cup Gone
  BY <1>1 DEF StoreInv, Store!NoKeyLost, Gone
<1>5. Gone' = Gone \cup Store!Dropped(config_file)
  BY <1>1 DEF Gone
<1>6. known \subseteq Store!KeysIn(m) \cup Gone' /\ known \cap Gone \subseteq Gone'
  BY <1>3, <1>4, <1>5
<1>7. Store!Begin("copy", m, "config", TRUE, FALSE)
  BY <1>1 DEF Store!MigrateFirst
<1> QED BY <1>1, <1>3, <1>6, <1>7, BeginKeeps

--------------------------------------------------------------------------------
(* The steps of a write.                                                      *)

(* What a step of the command that only goes on leaves.                       *)
LEMMA GotoIs ==
  ASSUME StoreTyped, NEW where, Store!Goto(where)
  PROVE  /\ DOMAIN command' = {"at", "out", "to", "safe", "unit"} /\ command'.at = where
         /\ command'.out = command.out /\ command'.to = command.to /\ command'.safe = command.safe
<1>1. command' = [command EXCEPT !.at = where] /\ DOMAIN command = {"at", "out", "to", "safe", "unit"}
  BY DEF Store!Goto, StoreTyped
<1> QED BY <1>1

LEMMA CopyKeeps ==
  ASSUME StoreInv, Store!Copy \/ Store!Copied
  PROVE  StoreInv'
<1>0. StoreTyped /\ Writing /\ StillRuns /\ Store!NoKeyLost /\ Store!UnitHasItsFile /\ Store!UnitReads
  BY DEF StoreInv
<1>1. /\ command.at \in {"copy", "copied"} /\ UNCHANGED <<config_file, fallback, unit>>
      /\ UNCHANGED <<noted, known, replaced, unsafe, accepted>>
      /\ (backup' = Store!Torn \/ backup' = config_file)
      /\ \/ command.at = "copy" /\ Store!Goto("copied")
         \/ command.at = "copied" /\ Store!Goto("truncate") /\ backup' = config_file
  BY DEF Store!Copy, Store!Copied, Store!at, Store!histories
<1>2. /\ Readable(command.out) /\ (accepted => Store!Accepts(command.out))
      /\ known \subseteq Store!KeysIn(command.out) \cup Gone
      /\ config_file.is = "file" /\ command.to = "config"
  BY <1>0, <1>1 DEF Writing
<1>3. /\ DOMAIN command' = {"at", "out", "to", "safe", "unit"} /\ command'.at \in {"copied", "truncate"}
      /\ (command'.at = "truncate" => backup' = config_file)
      /\ command'.out = command.out /\ command'.to = command.to /\ command'.safe = command.safe
  BY <1>0, <1>1, GotoIs
<1>4. StoreTyped'
  <2>1. Stored(backup')
    BY <1>0, <1>1 DEF StoreTyped, Stored
  <2> QED BY <1>0, <1>1, <1>3, <2>1 DEF StoreTyped
<1>5. known \subseteq Store!KeysIn(config_file) \cup Gone
  BY <1>0, <1>2 DEF Store!NoKeyLost, Gone
<1>6. Gone' = Gone
  BY <1>1 DEF Gone
<1>7. Writing'
  BY <1>1, <1>2, <1>3, <1>5, <1>6 DEF Writing
<1>8. StillRuns' /\ (Store!UnitHasItsFile)' /\ (Store!UnitReads)'
  BY <1>0, <1>1 DEF StillRuns, Store!UnitHasItsFile, Store!UnitReads
<1>9. (Store!NoKeyLost)'
  BY <1>1, <1>5 DEF Store!NoKeyLost, Gone
<1> QED BY <1>4, <1>7, <1>8, <1>9 DEF StoreInv

LEMMA TruncateKeeps ==
  ASSUME StoreInv, Store!Truncate
  PROVE  StoreInv'
<1>0. StoreTyped /\ Writing /\ StillRuns /\ Store!NoKeyLost /\ Store!UnitHasItsFile /\ Store!UnitReads
  BY DEF StoreInv
<1>1. /\ command.at = "truncate" /\ Store!Goto("fill")
      /\ IF command.to = "config" THEN config_file' = Store!Torn /\ UNCHANGED fallback
         ELSE fallback' = Store!Torn /\ UNCHANGED config_file
      /\ unsafe' = (unsafe \/ (command.to = "config" /\ ~command.safe /\ config_file.is = "file"))
      /\ UNCHANGED <<backup, unit, noted, known, replaced, accepted>>
  BY DEF Store!Truncate, Store!at
<1>2. /\ Readable(command.out) /\ (accepted => Store!Accepts(command.out))
      /\ command.to = "config" => known \subseteq Store!KeysIn(command.out) \cup Gone
      /\ command.to = "config" /\ command.safe => known \subseteq Store!KeysIn(backup) \cup Gone
  BY <1>0, <1>1 DEF Writing
<1>3. /\ DOMAIN command' = {"at", "out", "to", "safe", "unit"} /\ command'.at = "fill"
      /\ command'.out = command.out /\ command'.to = command.to /\ command'.safe = command.safe
  BY <1>0, <1>1, GotoIs
<1>4. Store!Torn.is = "torn" /\ Store!KeysIn(Store!Torn) = {}
  <2>1. Store!Torn.is = "torn"
    BY DEF Store!Torn, Store!File
  <2> QED BY <2>1, NothingThere
<1>5. StoreTyped'
  <2>1. Stored(config_file') /\ Stored(fallback')
    BY <1>0, <1>1 DEF StoreTyped, Stored
  <2>2. unsafe' \in BOOLEAN
    BY <1>1
  <2> QED BY <1>0, <1>1, <1>3, <2>1, <2>2 DEF StoreTyped
<1>6. Gone' = Gone
  BY <1>1 DEF Gone
<1>7. Writing'
  BY <1>1, <1>2, <1>3, <1>6 DEF Writing
<1>8. StillRuns' /\ (Store!UnitHasItsFile)' /\ (Store!UnitReads)'
  BY <1>0, <1>1, <1>4 DEF StillRuns, Store!UnitHasItsFile, Store!UnitReads
<1>9. (Store!NoKeyLost)'
  <2>1. CASE command.to = "config"
    <3>1. config_file'.is = "torn" /\ Store!KeysIn(config_file') = {}
      BY <1>1, <1>4, <2>1
    <3>2. ASSUME ~unsafe' PROVE known \subseteq Store!KeysIn(backup) \cup Gone
      <4>1. CASE command.safe
        BY <1>2, <2>1, <4>1
      <4>2. CASE ~command.safe
        <5>1. ~unsafe /\ config_file.is # "file"
          BY <1>1, <2>1, <3>2, <4>2
        <5>2. Store!KeysIn(config_file) = {}
          BY <1>0, <5>1, NothingThere DEF StoreTyped, Stored, Readable
        <5> QED BY <1>0, <5>1, <5>2 DEF Store!NoKeyLost, Gone
      <4> QED BY <4>1, <4>2
    <3> QED BY <1>1, <3>1, <3>2 DEF Store!NoKeyLost, Gone
  <2>2. CASE command.to # "config"
    BY <1>0, <1>1, <2>2 DEF Store!NoKeyLost
  <2> QED BY <2>1, <2>2
<1> QED BY <1>5, <1>7, <1>8, <1>9 DEF StoreInv

LEMMA DoneIs ==
  Store!Done.at = "done" /\ Store!Done.to = "config" /\ DOMAIN Store!Done = {"at", "out", "to", "safe", "unit"}
  BY DEF Store!Done

LEMMA FillKeeps ==
  ASSUME StoreInv, Store!Fill
  PROVE  StoreInv'
<1>0. StoreTyped /\ Writing /\ StillRuns /\ Store!NoKeyLost /\ Store!UnitHasItsFile /\ Store!UnitReads
  BY DEF StoreInv
<1>1. /\ command.at = "fill" /\ command' = Store!Done
      /\ IF command.to = "config" THEN config_file' = command.out /\ UNCHANGED fallback
         ELSE fallback' = command.out /\ UNCHANGED config_file
      /\ unit' = (IF command.unit THEN command.to ELSE unit)
      /\ known' = (IF command.to = "config" THEN known \cup command.out.keys ELSE known)
      /\ unsafe' = (unsafe /\ command.to # "config")
      /\ UNCHANGED <<backup, noted, replaced, accepted>>
  BY DEF Store!Fill, Store!at, Store!RegisterSystemd
<1>2. /\ Readable(command.out) /\ (accepted => Store!Accepts(command.out))
      /\ command.to = "config" => known \subseteq Store!KeysIn(command.out) \cup Gone
  BY <1>0, <1>1 DEF Writing
<1>3. command.out.is = "file" /\ command.to \in {"config", "fallback"}
  BY <1>0, <1>2 DEF Readable, StoreTyped
<1>4. /\ DOMAIN command' = {"at", "out", "to", "safe", "unit"} /\ command'.at = "done"
      /\ command'.to = "config"
  BY <1>1, DoneIs
<1>5. StoreTyped'
  <2>1. Stored(config_file') /\ Stored(fallback')
    BY <1>0, <1>1, <1>2 DEF StoreTyped, Stored
  <2>2. unsafe' \in BOOLEAN
    BY <1>1
  <2> QED BY <1>0, <1>1, <1>4, <2>1, <2>2 DEF StoreTyped
<1>6. Writing'
  BY <1>4 DEF Writing
<1>7. StillRuns'
  BY <1>0, <1>1, <1>2 DEF StillRuns
<1>8. (Store!UnitHasItsFile)' /\ (Store!UnitReads)'
  BY <1>0, <1>1, <1>3 DEF Store!UnitHasItsFile, Store!UnitReads
<1>9. (Store!NoKeyLost)'
  <2>1. CASE command.to = "config"
    <3>1. known' \subseteq Store!KeysIn(config_file') \cup Gone
      BY <1>1, <1>2, <2>1 DEF Store!KeysIn
    <3> QED BY <1>1, <3>1 DEF Store!NoKeyLost, Gone
  <2>2. CASE command.to # "config"
    BY <1>0, <1>1, <2>2 DEF Store!NoKeyLost
  <2> QED BY <2>1, <2>2
<1> QED BY <1>5, <1>6, <1>7, <1>8, <1>9 DEF StoreInv

LEMMA FailsKeeps ==
  ASSUME StoreInv, Store!Fails
  PROVE  StoreInv'
<1>0. StoreTyped /\ Writing /\ StillRuns /\ Store!NoKeyLost /\ Store!UnitHasItsFile /\ Store!UnitReads
  BY DEF StoreInv
<1>1. /\ command' = Store!Done /\ UNCHANGED <<config_file, backup, fallback, unit>>
      /\ UNCHANGED <<noted, known, replaced, unsafe, accepted>>
  BY DEF Store!Fails, Store!histories
<1>2. /\ DOMAIN command' = {"at", "out", "to", "safe", "unit"} /\ command'.at = "done"
      /\ command'.to = "config"
  BY <1>1, DoneIs
<1>3. StoreTyped'
  BY <1>0, <1>1, <1>2 DEF StoreTyped
<1>4. Writing' /\ StillRuns'
  BY <1>0, <1>1, <1>2 DEF Writing, StillRuns
<1>5. (Store!NoKeyLost)' /\ (Store!UnitHasItsFile)' /\ (Store!UnitReads)'
  BY <1>0, <1>1 DEF Store!NoKeyLost, Store!UnitHasItsFile, Store!UnitReads
<1> QED BY <1>3, <1>4, <1>5 DEF StoreInv

LEMMA RestoreKeeps ==
  ASSUME StoreInv, Store!Restore
  PROVE  StoreInv'
<1>0. StoreTyped /\ Writing /\ StillRuns /\ Store!NoKeyLost /\ Store!UnitHasItsFile /\ Store!UnitReads
  BY DEF StoreInv
<1>1. /\ command.at = "done" /\ config_file = Store!Torn /\ backup.is = "file" /\ config_file' = backup
      /\ replaced' = (IF unsafe THEN known ELSE replaced) /\ accepted' = FALSE
      /\ UNCHANGED <<backup, fallback, unit, command, noted, known, unsafe>>
  BY DEF Store!Restore, Store!Idle
<1>2. StoreTyped'
  BY <1>0, <1>1 DEF StoreTyped
<1>3. Writing' /\ StillRuns'
  BY <1>1 DEF Writing, StillRuns
<1>4. (Store!UnitHasItsFile)' /\ (Store!UnitReads)'
  BY <1>0, <1>1 DEF Store!UnitHasItsFile, Store!UnitReads
<1>5. (Store!NoKeyLost)'
  <2>1. Store!KeysIn(config_file) = {}
    BY <1>1, NothingThere
  <2>2. known \subseteq Store!KeysIn(backup) \cup noted' \cup replaced'
    BY <1>0, <1>1, <2>1 DEF Store!NoKeyLost
  <2> QED BY <1>1, <2>2 DEF Store!NoKeyLost
<1> QED BY <1>2, <1>3, <1>4, <1>5 DEF StoreInv

LEMMA StoreInvStep ==
  ASSUME StoreInv, [PartsNext]_partsVars
  PROVE  StoreInv'
<1>1. CASE Store!Next
  BY <1>1, NewFilesKeep, GenerateKeyKeeps, EditsKeep, MigrateKeeps, CopyKeeps, TruncateKeeps, FillKeeps,
     FailsKeeps, RestoreKeeps DEF Store!Next
<1>2. CASE UNCHANGED configFiles
  <2>1. UNCHANGED <<config_file, backup, fallback, unit, command, noted, known, replaced, unsafe, accepted>>
    BY <1>2 DEF configFiles
  <2>2. StoreTyped' /\ Writing' /\ StillRuns'
    BY <2>1 DEF StoreInv, StoreTyped, Writing, StillRuns, Gone
  <2>3. (Store!NoKeyLost)' /\ (Store!UnitHasItsFile)' /\ (Store!UnitReads)'
    BY <2>1 DEF StoreInv, Store!NoKeyLost, Store!UnitHasItsFile, Store!UnitReads
  <2> QED BY <2>2, <2>3 DEF StoreInv
<1> QED BY <1>1, <1>2 DEF PartsNext, partsVars

LEMMA StoreInvSound ==
  ASSUME StoreInv
  PROVE  ConfigSound
<1>1. Store!MigrationSettles
  <2> SUFFICES ASSUME config_file.is = "file", Store!DetectVersion(config_file) <= Store!CurrentVersion
               PROVE  /\ Store!UpToDate(Store!Migrated(config_file))
                      /\ Store!DetectKind(config_file) = config_file.mode
                      /\ Store!Accepts(config_file) => Store!Accepts(Store!Migrated(config_file))
    BY DEF Store!MigrationSettles
  <2>1. Readable(config_file) /\ Store!DetectVersion(config_file) <= 2
    BY ReadIs DEF Store!CurrentVersion
  <2> DEFINE m == Store!Migrated(config_file)
  <2>2. /\ Readable(m) /\ m.tagged = TRUE /\ m.stamp = 2 /\ m.nulls = FALSE
        /\ Store!Accepts(config_file) => Store!Accepts(m)
    BY <2>1, MigratedIs
  <2> HIDE DEF m
  <2>3. Store!UpToDate(m)
    BY <2>2, Settled
  <2> QED BY <2>1, <2>2, <2>3, KindIs DEF m
<1>2. Store!EditsKeepItRunning
  BY DEF StoreInv, StillRuns, Store!EditsKeepItRunning
<1> QED BY <1>1, <1>2 DEF StoreInv, ConfigSound, Store!ConfigSound

(* Whatever files of three schema versions there were and whichever commands  *)
(* follow, each failing or killed at any step: a migration settles and takes  *)
(* no file the program accepted away from it, an edit keeps what is accepted  *)
(* accepted, no key or server goes that no migration named and no new file    *)
(* replaced, or it is still in the copy, and the registered service reads a   *)
(* file that was written (main.rs, migrate.rs).                               *)
THEOREM ConfigsAreSound == PartsSpec => []ConfigSound
<1>1. PartsInit => StoreInv
  BY StoreInvInit DEF PartsInit
<1>2. StoreInv /\ [PartsNext]_partsVars => StoreInv'
  BY StoreInvStep
<1>3. StoreInv => ConfigSound
  BY StoreInvSound
<1> QED BY <1>1, <1>2, <1>3, PTL DEF PartsSpec

--------------------------------------------------------------------------------
(* The web server in front: lists of operations.                              *)

Testing == Sites!Op("test", <<>>)
Reloading == Sites!Op("reload", <<>>)
Remaining(ops) == {ops[i] : i \in 1..Len(ops)}

(* The operations of a list differ.                                           *)
Apart(ops) == \A i, j \in 1..Len(ops) : ops[i] = ops[j] => i = j

(* A reload is the last of them and no other.                                 *)
Ends(ops) == \A i \in 1..Len(ops) : ops[i] = Reloading <=> i = Len(ops)

Ordered(ops, S) == ops \in Seq(S) /\ Apart(ops) /\ Ends(ops)

LEMMA NoneRemain == Remaining(<<>>) = {}
  BY EmptySeq DEF Remaining

(* What the next operation leaves to do.                                      *)
LEMMA TailOrdered ==
  ASSUME NEW S, NEW ops, Ordered(ops, S), ops # <<>>
  PROVE  /\ Head(ops) \in S /\ Ordered(Tail(ops), S)
         /\ Head(ops) \in Remaining(ops) /\ Remaining(ops) \subseteq S
         /\ Remaining(Tail(ops)) = Remaining(ops) \ {Head(ops)}
         /\ Reloading \in Remaining(ops)
         /\ Head(ops) = Reloading => Tail(ops) = <<>>
<1> DEFINE t == Tail(ops)
<1>1. /\ ops \in Seq(S) /\ Len(ops) \in Nat \ {0} /\ Head(ops) = ops[1]
      /\ t \in Seq(S) /\ Len(t) = Len(ops) - 1 /\ \A i \in 1..Len(t) : t[i] = ops[i + 1]
  BY HeadTailProperties, EmptySeq DEF Ordered
<1> HIDE DEF t
<1>2. \A i \in 1..Len(ops) : ops[i] \in S
  BY <1>1, ElementOfSeq
<1>3. Head(ops) \in S /\ Head(ops) \in Remaining(ops) /\ Remaining(ops) \subseteq S
  BY <1>1, <1>2 DEF Remaining
<1>4. Apart(t)
  <2> SUFFICES ASSUME NEW i \in 1..Len(t), NEW j \in 1..Len(t), t[i] = t[j]
               PROVE  i = j
    BY DEF Apart
  <2>1. i + 1 \in 1..Len(ops) /\ j + 1 \in 1..Len(ops) /\ ops[i + 1] = ops[j + 1]
    BY <1>1
  <2> QED BY <2>1 DEF Ordered, Apart
<1>5. Ends(t)
  <2> SUFFICES ASSUME NEW i \in 1..Len(t)
               PROVE  t[i] = Reloading <=> i = Len(t)
    BY DEF Ends
  <2>1. i + 1 \in 1..Len(ops) /\ t[i] = ops[i + 1] /\ (i = Len(t) <=> i + 1 = Len(ops))
    BY <1>1
  <2> QED BY <2>1 DEF Ordered, Ends
<1>6. Remaining(t) \subseteq Remaining(ops) \ {Head(ops)}
  <2> SUFFICES ASSUME NEW i \in 1..Len(t)
               PROVE  t[i] \in Remaining(ops) /\ t[i] # Head(ops)
    BY DEF Remaining
  <2>1. i + 1 \in 1..Len(ops) /\ 1 \in 1..Len(ops) /\ i + 1 # 1 /\ t[i] = ops[i + 1]
    BY <1>1
  <2> QED BY <1>1, <2>1 DEF Remaining, Ordered, Apart
<1>7. Remaining(ops) \ {Head(ops)} \subseteq Remaining(t)
  <2> SUFFICES ASSUME NEW i \in 1..Len(ops), ops[i] # Head(ops)
               PROVE  ops[i] \in Remaining(t)
    BY DEF Remaining
  <2>1. i - 1 \in 1..Len(t) /\ t[i - 1] = ops[i]
    BY <1>1
  <2> QED BY <2>1 DEF Remaining
<1>8. Reloading \in Remaining(ops)
  <2>1. Len(ops) \in 1..Len(ops)
    BY <1>1
  <2>2. ops[Len(ops)] = Reloading
    BY <2>1 DEF Ordered, Ends
  <2> QED BY <2>1, <2>2 DEF Remaining
<1>9. Head(ops) = Reloading => t = <<>>
  <2>1. 1 \in 1..Len(ops)
    BY <1>1
  <2>2. Head(ops) = Reloading => Len(ops) = 1
    BY <1>1, <2>1 DEF Ordered, Ends
  <2> QED BY <1>1, <2>2, EmptySeq
<1> QED BY <1>1, <1>3, <1>4, <1>5, <1>6, <1>7, <1>8, <1>9 DEF t, Ordered

(* A list of writes, the test and the reload.                                 *)
LEMMA ThenReload ==
  ASSUME NEW S, NEW ops \in Seq(S), Apart(ops), Testing \notin Remaining(ops), Reloading \notin Remaining(ops),
         Testing \in S, Reloading \in S
  PROVE  LET all == ops \o <<Testing, Reloading>> IN
         Ordered(all, S) /\ Remaining(all) = Remaining(ops) \cup {Testing, Reloading}
<1> DEFINE end == <<Testing, Reloading>>
           all == ops \o end
<1>1. end \in Seq(S) /\ Len(end) = 2 /\ end[1] = Testing /\ end[2] = Reloading /\ Len(ops) \in Nat
  BY SMTT(40), LenProperties
<1>0. Testing # Reloading
  BY DEF Testing, Reloading, Sites!Op
<1> HIDE DEF end
<1>2. /\ all \in Seq(S) /\ Len(all) = Len(ops) + 2
      /\ \A i \in 1..Len(ops) + 2 : all[i] = IF i <= Len(ops) THEN ops[i] ELSE end[i - Len(ops)]
  <2>1. /\ all \in Seq(S) /\ Len(all) = Len(ops) + Len(end)
        /\ \A i \in 1..Len(ops) + Len(end) : all[i] = IF i <= Len(ops) THEN ops[i] ELSE end[i - Len(ops)]
    BY <1>1, ConcatProperties
  <2> HIDE DEF all
  <2> QED BY <1>1, <2>1
<1> HIDE DEF all
<1>3. /\ \A i \in 1..Len(ops) : all[i] = ops[i] /\ ops[i] \in Remaining(ops)
      /\ all[Len(ops) + 1] = Testing /\ all[Len(ops) + 2] = Reloading
      /\ \A i \in 1..Len(all) : i \in 1..Len(ops) \/ i = Len(ops) + 1 \/ i = Len(ops) + 2
  <2>1. \A i \in 1..Len(ops) : all[i] = ops[i]
    BY SMTT(40), <1>1, <1>2
  <2>2. \A i \in 1..Len(ops) : ops[i] \in Remaining(ops)
    BY DEF Remaining
  <2>3. all[Len(ops) + 1] = Testing /\ all[Len(ops) + 2] = Reloading
    BY SMTT(40), <1>1, <1>2
  <2>4. \A i \in 1..Len(all) : i \in 1..Len(ops) \/ i = Len(ops) + 1 \/ i = Len(ops) + 2
    BY SMTT(40), <1>1, <1>2
  <2> QED BY <2>1, <2>2, <2>3, <2>4
<1>4. Apart(all)
  <2> SUFFICES ASSUME NEW i \in 1..Len(all), NEW j \in 1..Len(all), all[i] = all[j]
               PROVE  i = j
    BY DEF Apart
  <2>1. CASE i \in 1..Len(ops) /\ j \in 1..Len(ops)
    BY <1>3, <2>1 DEF Apart
  <2>2. CASE i \notin 1..Len(ops) \/ j \notin 1..Len(ops)
    <3>1. \A k \in 1..Len(ops) : all[k] # Testing /\ all[k] # Reloading
      BY <1>3
    <3> QED BY SMTT(40), <1>0, <1>1, <1>3, <2>2, <3>1
  <2> QED BY <2>1, <2>2
<1>5. Ends(all)
  <2> SUFFICES ASSUME NEW i \in 1..Len(all)
               PROVE  all[i] = Reloading <=> i = Len(all)
    BY DEF Ends
  <2>1. CASE i \in 1..Len(ops)
    BY SMTT(40), <1>1, <1>2, <1>3, <2>1
  <2>2. CASE i \notin 1..Len(ops)
    BY SMTT(40), <1>0, <1>1, <1>2, <1>3, <2>2
  <2> QED BY <2>1, <2>2
<1>6. Remaining(all) = Remaining(ops) \cup {Testing, Reloading}
  <2>1. \A i \in 1..Len(all) : all[i] \in Remaining(ops) \cup {Testing, Reloading}
    BY <1>3
  <2>2. Len(ops) + 1 \in 1..Len(all) /\ Len(ops) + 2 \in 1..Len(all) /\ \A i \in 1..Len(ops) : i \in 1..Len(all)
    BY <1>1, <1>2
  <2>3. Testing \in Remaining(all) /\ Reloading \in Remaining(all)
    BY <1>3, <2>2 DEF Remaining
  <2>4. \A i \in 1..Len(ops) : ops[i] \in Remaining(all)
    BY <1>3, <2>2 DEF Remaining
  <2> QED BY <2>1, <2>3, <2>4 DEF Remaining
<1> QED BY <1>2, <1>4, <1>5, <1>6 DEF Ordered, all, end

LEMMA ListOfOne ==
  ASSUME NEW S, NEW a \in S
  PROVE  <<a>> \in Seq(S) /\ Apart(<<a>>) /\ Remaining(<<a>>) = {a}
<1>1. <<a>> \in Seq(S) /\ Len(<<a>>) = 1 /\ <<a>>[1] = a
  BY LenProperties
<1> QED BY <1>1 DEF Apart, Remaining

LEMMA ListOfTwo ==
  ASSUME NEW S, NEW a \in S, NEW b \in S, a # b
  PROVE  <<a, b>> \in Seq(S) /\ Apart(<<a, b>>) /\ Remaining(<<a, b>>) = {a, b}
<1> DEFINE s == <<a, b>>
<1>1. s \in Seq(S) /\ Len(s) = 2 /\ s[1] = a /\ s[2] = b
  BY LenProperties
<1> HIDE DEF s
<1>2. Apart(s)
  BY <1>1 DEF Apart
<1>3. Remaining(s) = {a, b}
  BY <1>1 DEF Remaining
<1> QED BY <1>1, <1>2, <1>3 DEF s

LEMMA ListOfFive ==
  ASSUME NEW S, NEW a \in S, NEW b \in S, NEW c \in S, NEW d \in S, NEW e \in S,
         a # b, a # c, a # d, a # e, b # c, b # d, b # e, c # d, c # e, d # e
  PROVE  LET s == <<a, b, c, d, e>> IN
         s \in Seq(S) /\ Apart(s) /\ Remaining(s) = {a, b, c, d, e}
<1> DEFINE s == <<a, b, c, d, e>>
<1>1. s \in Seq(S) /\ Len(s) = 5 /\ s[1] = a /\ s[2] = b /\ s[3] = c /\ s[4] = d /\ s[5] = e
  BY LenProperties
<1> HIDE DEF s
<1>2. \A i \in 1..Len(s) : i = 1 \/ i = 2 \/ i = 3 \/ i = 4 \/ i = 5
  BY <1>1
<1>3. Apart(s)
  BY <1>1, <1>2 DEF Apart
<1>4. Remaining(s) = {a, b, c, d, e}
  BY <1>1, <1>2 DEF Remaining
<1> QED BY <1>1, <1>3, <1>4 DEF s

--------------------------------------------------------------------------------
(* What an install does.                                                      *)

Kinds == {"available", "enabled", "oldavailable", "oldenabled", "confd", "apache", "a2", "caddy"}
Fronted == {"nginx", "apache", "caddy"}

(* The operations of an install that change a file.                           *)
Writes(c) ==
  CASE c.frontend = "nginx" ->
         IF layout = "sites"
         THEN {Sites!Op("site", <<c.domain, "available">>), Sites!Op("link", <<c.domain, "enabled">>),
               Sites!Op("unlink", <<c.domain, "oldenabled">>), Sites!Op("remove", <<c.domain, "oldavailable">>),
               Sites!Op("remove", <<c.domain, "confd">>)}
         ELSE {Sites!Op("site", <<c.domain, "confd">>)}
    [] c.frontend = "apache" ->
         IF layout = "sites"
         THEN {Sites!Op("site", <<c.domain, "apache">>), Sites!Op("enable", <<c.domain, "a2">>)}
         ELSE {Sites!Op("site", <<c.domain, "apache">>)}
    [] c.frontend = "caddy" ->
         {Sites!Op("site", <<c.domain, "caddy">>), Sites!Op("import", <<Sites!Global, "import">>)}
Plan(c) == Writes(c) \cup {Testing, Reloading}

LEMMA OpsDiffer ==
  ASSUME NEW w1, NEW w2, NEW p1, NEW p2
  PROVE  /\ Sites!Op(w1, p1).what = w1 /\ Sites!Op(w1, p1).place = p1
         /\ Sites!Op(w1, p1) = Sites!Op(w2, p2) <=> w1 = w2 /\ p1 = p2
  BY DEF Sites!Op

LEMMA WritesAre ==
  ASSUME NEW c, c.frontend \in Fronted
  PROVE  \A o \in Writes(c) : o # Testing /\ o # Reloading
<1>1. CASE c.frontend = "nginx"
  BY <1>1, OpsDiffer DEF Writes, Testing, Reloading
<1>2. CASE c.frontend = "apache"
  BY <1>2, OpsDiffer DEF Writes, Testing, Reloading
<1>3. CASE c.frontend = "caddy"
  BY <1>3, OpsDiffer DEF Writes, Testing, Reloading
<1> QED BY <1>1, <1>2, <1>3 DEF Fronted

LEMMA OneThenOne ==
  ASSUME NEW S, NEW a \in S, NEW b \in S, a # b
  PROVE  LET s == <<a>> \o <<b>> IN s \in Seq(S) /\ Apart(s) /\ Remaining(s) = {a, b}
<1> DEFINE x == <<a>>
           y == <<b>>
           s == x \o y
<1>1. x \in Seq(S) /\ Len(x) = 1 /\ x[1] = a /\ y \in Seq(S) /\ Len(y) = 1 /\ y[1] = b
  BY LenProperties
<1> HIDE DEF x, y
<1>2. /\ s \in Seq(S) /\ Len(s) = Len(x) + Len(y)
      /\ \A i \in 1..Len(x) + Len(y) : s[i] = IF i <= Len(x) THEN x[i] ELSE y[i - Len(x)]
  BY SMTT(40), <1>1, ConcatProperties
<1> HIDE DEF s
<1>3. Len(s) = 2 /\ s[1] = a /\ s[2] = b
  BY <1>1, <1>2
<1>4. Apart(s)
  BY <1>3 DEF Apart
<1>5. Remaining(s) = {a, b}
  BY <1>3 DEF Remaining
<1> QED BY <1>2, <1>4, <1>5 DEF s, x, y

LEMMA WritesListed ==
  ASSUME NEW c, c.frontend \in Fronted,
         NEW ops \in Seq(Plan(c)), Apart(ops), Remaining(ops) = Writes(c)
  PROVE  LET all == ops \o <<Testing, Reloading>> IN Ordered(all, Plan(c)) /\ Remaining(all) = Plan(c)
<1>1. Testing \in Plan(c) /\ Reloading \in Plan(c) /\ Testing \notin Writes(c) /\ Reloading \notin Writes(c)
  BY WritesAre DEF Plan
<1> QED BY ZenonT(60), <1>1, ThenReload DEF Plan

LEMMA InstallIs ==
  ASSUME NEW c, c.frontend \in Fronted
  PROVE  Ordered(Sites!Install(c), Plan(c)) /\ Remaining(Sites!Install(c)) = Plan(c)
<1> DEFINE d == c.domain
<1>0. Writes(c) \subseteq Plan(c)
  BY DEF Plan
<1>1. CASE c.frontend = "nginx" /\ layout = "sites"
  <2> DEFINE o1 == Sites!Op("site", <<d, "available">>)
             o2 == Sites!Op("link", <<d, "enabled">>)
             o3 == Sites!Op("unlink", <<d, "oldenabled">>)
             o4 == Sites!Op("remove", <<d, "oldavailable">>)
             o5 == Sites!Op("remove", <<d, "confd">>)
             ops == <<o1, o2, o3, o4, o5>>
  <2>1. Sites!Install(c) = ops \o <<Testing, Reloading>>
    BY <1>1 DEF Sites!Install, Sites!NginxInstall, Testing, Reloading
  <2>2. Writes(c) = {o1, o2, o3, o4, o5}
    BY <1>1 DEF Writes
  <2>3. /\ o1 # o2 /\ o1 # o3 /\ o1 # o4 /\ o1 # o5 /\ o2 # o3 /\ o2 # o4 /\ o2 # o5
        /\ o3 # o4 /\ o3 # o5 /\ o4 # o5
    BY OpsDiffer
  <2> HIDE DEF o1, o2, o3, o4, o5
  <2>4. ops \in Seq(Plan(c)) /\ Apart(ops) /\ Remaining(ops) = Writes(c)
    BY <1>0, <2>2, <2>3, ListOfFive
  <2> HIDE DEF ops
  <2> QED BY <2>1, <2>4, WritesListed
<1>2. CASE c.frontend = "nginx" /\ layout # "sites"
  <2> DEFINE o1 == Sites!Op("site", <<d, "confd">>)
             ops == <<o1>>
  <2>1. Sites!Install(c) = ops \o <<Testing, Reloading>>
    BY <1>2 DEF Sites!Install, Sites!NginxInstall, Testing, Reloading
  <2>2. Writes(c) = {o1}
    BY <1>2 DEF Writes
  <2> HIDE DEF o1
  <2>4. ops \in Seq(Plan(c)) /\ Apart(ops) /\ Remaining(ops) = Writes(c)
    BY <1>0, <2>2, ListOfOne
  <2> HIDE DEF ops
  <2> QED BY <2>1, <2>4, WritesListed
<1>3. CASE c.frontend = "apache" /\ layout = "sites"
  <2> DEFINE o1 == Sites!Op("site", <<d, "apache">>)
             o2 == Sites!Op("enable", <<d, "a2">>)
             ops == <<o1>> \o <<o2>>
  <2>1. Sites!Install(c) = ops \o <<Testing, Reloading>>
    BY <1>3 DEF Sites!Install, Sites!ApacheInstall, Testing, Reloading
  <2>2. Writes(c) = {o1, o2} /\ o1 # o2
    BY <1>3, OpsDiffer DEF Writes
  <2> HIDE DEF o1, o2
  <2>4. ops \in Seq(Plan(c)) /\ Apart(ops) /\ Remaining(ops) = Writes(c)
    BY <1>0, <2>2, OneThenOne
  <2> HIDE DEF ops
  <2> QED BY <2>1, <2>4, WritesListed
<1>4. CASE c.frontend = "apache" /\ layout # "sites"
  <2> DEFINE o1 == Sites!Op("site", <<d, "apache">>)
             ops == <<o1>>
  <2>1. Writes(c) = {o1}
    BY <1>4 DEF Writes
  <2>2. Sites!Install(c) = (ops \o <<>>) \o <<Testing, Reloading>>
    BY <1>4 DEF Sites!Install, Sites!ApacheInstall, Testing, Reloading
  <2> HIDE DEF o1
  <2>4. ops \in Seq(Plan(c)) /\ Apart(ops) /\ Remaining(ops) = Writes(c)
    BY <1>0, <2>1, ListOfOne
  <2> HIDE DEF ops
  <2>5. ops \o <<>> = ops
    BY <2>4, ConcatEmptySeq
  <2> QED BY <2>2, <2>4, <2>5, WritesListed
<1>5. CASE c.frontend = "caddy"
  <2> DEFINE o1 == Sites!Op("site", <<d, "caddy">>)
             o2 == Sites!Op("import", <<Sites!Global, "import">>)
             ops == <<o1, o2>>
  <2>1. Sites!Install(c) = ops \o <<Testing, Reloading>>
    BY <1>5 DEF Sites!Install, Sites!CaddyInstall, Testing, Reloading
  <2>2. Writes(c) = {o1, o2} /\ o1 # o2
    BY <1>5, OpsDiffer DEF Writes
  <2> HIDE DEF o1, o2
  <2>4. ops \in Seq(Plan(c)) /\ Apart(ops) /\ Remaining(ops) = Writes(c)
    BY <1>0, <2>2, ListOfTwo
  <2> HIDE DEF ops
  <2> QED BY <2>1, <2>4, WritesListed
<1> QED BY <1>1, <1>2, <1>3, <1>4, <1>5 DEF Fronted

(* Which operation changes which file.                                        *)
LEMMA WritesPlaces ==
  ASSUME NEW c, c.frontend \in Fronted, c.domain \in Domains, NEW o \in Writes(c)
  PROVE  LET d == c.domain IN
         /\ o.place \in Sites!Places
         /\ o.what \in {"site", "link", "unlink", "remove", "enable", "import"}
         /\ o.what = "site" => o.place \in {<<d, "available">>, <<d, "confd">>, <<d, "apache">>, <<d, "caddy">>}
         /\ o.what = "link" => o.place = <<d, "enabled">> /\ layout = "sites"
         /\ o.what = "unlink" => o.place = <<d, "oldenabled">>
         /\ o.what = "remove" => o.place \in {<<d, "oldavailable">>, <<d, "confd">>}
         /\ o.what = "enable" => o.place = <<d, "a2">> /\ c.frontend = "apache"
         /\ o.what = "import" => o.place = <<Sites!Global, "import">>
<1> DEFINE d == c.domain
<1>0. /\ \A k \in Kinds : <<d, k>> \in Sites!Places
      /\ <<Sites!Global, "import">> \in Sites!Places
  BY DEF Sites!Places, Kinds
<1>1. CASE c.frontend = "nginx" /\ layout = "sites"
  BY <1>0, <1>1, OpsDiffer DEF Writes, Kinds
<1>2. CASE c.frontend = "nginx" /\ layout # "sites"
  BY <1>0, <1>2, OpsDiffer DEF Writes, Kinds
<1>3. CASE c.frontend = "apache"
  BY <1>0, <1>3, OpsDiffer DEF Writes, Kinds
<1>4. CASE c.frontend = "caddy"
  BY <1>0, <1>4, OpsDiffer DEF Writes, Kinds
<1> QED BY <1>1, <1>2, <1>3, <1>4 DEF Fronted

LEMMA WritesApart ==
  ASSUME NEW c, c.frontend \in Fronted, NEW o1 \in Writes(c), NEW o2 \in Writes(c), o1.place = o2.place
  PROVE  o1 = o2
<1>1. CASE c.frontend = "nginx" /\ layout = "sites"
  BY <1>1, OpsDiffer DEF Writes
<1>2. CASE c.frontend = "nginx" /\ layout # "sites"
  BY <1>2, OpsDiffer DEF Writes
<1>3. CASE c.frontend = "apache"
  BY <1>3, OpsDiffer DEF Writes
<1>4. CASE c.frontend = "caddy"
  BY <1>4, OpsDiffer DEF Writes
<1> QED BY <1>1, <1>2, <1>3, <1>4 DEF Fronted

(* The files that are OSTP's: those written, and the link to one.             *)
LEMMA OwnedIs ==
  ASSUME NEW c, c.frontend \in Fronted
  PROVE  Sites!Owned(c) = {o.place : o \in {x \in Writes(c) : x.what \in {"site", "link"}}}
<1> DEFINE ops == Sites!Install(c)
<1>1. Remaining(ops) = Plan(c) /\ ops \in Seq(Plan(c))
  BY InstallIs DEF Ordered
<1>2. DOMAIN ops = 1..Len(ops)
  BY <1>1, LenProperties
<1>3. Testing.what \notin {"site", "link"} /\ Reloading.what \notin {"site", "link"}
  BY OpsDiffer DEF Testing, Reloading
<1>4. Sites!Owned(c) = {ops[i].place : i \in {j \in 1..Len(ops) : ops[j].what \in {"site", "link"}}}
  BY <1>2 DEF Sites!Owned
<1> HIDE DEF ops
<1>5. \A i \in 1..Len(ops) : ops[i].what \in {"site", "link"} => ops[i] \in Writes(c)
  BY <1>1, <1>3 DEF Remaining, Plan
<1>6. \A o \in Writes(c) : \E i \in 1..Len(ops) : ops[i] = o
  BY <1>1 DEF Remaining, Plan
<1> QED BY <1>4, <1>5, <1>6

LEMMA SameInstall ==
  ASSUME NEW c1, NEW c2, c1.frontend = c2.frontend, c1.domain = c2.domain
  PROVE  Sites!Owned(c1) = Sites!Owned(c2)
<1>1. Sites!Install(c1) = Sites!Install(c2)
  BY DEF Sites!Install
<1> QED BY <1>1 DEF Sites!Owned

--------------------------------------------------------------------------------
(* The invariant.                                                             *)

OursIs(content) == content.is \in {"site", "link", "block", "half"}

(* Only a layout with enabled sites has links of nginx.                       *)
Linked(files) ==
  /\ DOMAIN files = Sites!Places
  /\ \A d \in Domains : files[<<d, "enabled">>] \in {Sites!Absent, Sites!Link, Sites!Foreign}
  /\ layout # "sites" =>
       \A d \in Domains : files[<<d, "enabled">>] # Sites!Link /\ files[<<d, "oldenabled">>] # Sites!Link

SiteTyped ==
  /\ layout \in {"sites", "confd"} /\ installed \subseteq Fronted /\ DOMAIN serving = installed
  /\ DOMAIN config = {"frontend", "domain", "routes"}
  /\ config.frontend \in installed \cup {"builtin"} /\ config.routes \subseteq SitePaths
  /\ config.frontend # "builtin" => config.domain \in Domains
  /\ config.frontend \in {"nginx", "apache"} => config.domain \in certs
  /\ Linked(disk) /\ Linked(before)
  /\ told \subseteq SitePaths /\ manifest.kind # "builtin"
  /\ DOMAIN job = {"at", "ops", "changes"} /\ job.at \in {"idle", "run", "failed"}
  /\ DOMAIN job.changes = {"created", "modified", "removed", "owned", "site", "import"}

(* The manifest lists the file, or an import block, or an apache site; of     *)
(* those it names the last, and the certificates tell of the others.          *)
Named(p) ==
  \/ p \in manifest.files
  \/ p[2] = "import" /\ manifest.import
  \/ p[2] = "a2" /\ (manifest.site = p[1] \/ \E d \in certs : d # p[1])
Listed(files) == ~killed => \A p \in Sites!Places : OursIs(files[p]) => Named(p)

Olds == job.changes.modified \cup job.changes.removed

(* What a command changed it can take back.                                   *)
Restorable ==
  /\ \A old \in Olds : old[2] = before[old[1]]
  /\ \A p \in job.changes.created : before[p] = Sites!Absent
  /\ \A p \in Sites!Places :
       \/ disk[p] = before[p] \/ p \in job.changes.created
       \/ \E old \in Olds : old[1] = p
       \/ p = <<job.changes.site, "a2">>

Working ==
  /\ config.frontend # "builtin" /\ Listed(before) /\ Restorable
  /\ job.changes.site # Sites!Global => job.changes.site = config.domain /\ config.frontend = "apache"

(* What is left to do is on files as they were.                               *)
Untouched(p) == disk[p] = before[p] /\ \A old \in job.changes.removed : old[1] # p

Did(o) ==
  /\ o.what = "site" => disk[o.place] = Sites!Text(config) /\ o.place \in job.changes.owned
  /\ o.what = "link" => disk[o.place] = Sites!Link /\ o.place \in job.changes.owned
  /\ o.what = "unlink" => disk[o.place] # Sites!Link
  /\ o.what = "remove" => disk[o.place].is # "site"
  /\ o.what = "enable" => disk[o.place] = Sites!Link
  /\ o.what = "import" => disk[o.place] = Sites!Block

(* Every file of OSTP's is in the manifest or will be.                        *)
Accounted ==
  ~killed => \A p \in Sites!Places : OursIs(disk[p]) =>
    \/ Named(p) \/ p \in job.changes.created \cup job.changes.owned
    \/ p[2] = "import" /\ job.changes.import
    \/ p = <<job.changes.site, "a2">>

Running ==
  /\ Ordered(job.ops, Plan(config))
  /\ \A o \in Writes(config) : IF o \in Remaining(job.ops) THEN Untouched(o.place) ELSE Did(o)
  /\ Reloading \notin Remaining(job.ops) =>
       serving[config.frontend] = Sites!Effective(config.frontend, disk)
  /\ \A old \in job.changes.removed : old[1] \in Sites!Places /\ disk[old[1]] = Sites!Absent
  /\ Accounted

(* The web server in front has loaded what its files say, if the last install *)
(* was recorded.                                                              *)
InFront ==
  config.frontend # "builtin" /\ told # SitePaths =>
    \A p \in Sites!Owned(config) : disk[p].is = "site" =>
      [domain |-> config.domain, routes |-> disk[p].routes] \in serving[config.frontend]

OwnedListed ==
  told = {} /\ manifest.kind = config.frontend =>
    \A p \in Sites!Owned(config) : OursIs(disk[p]) => p \in manifest.files

Resting ==
  /\ Listed(disk) /\ OwnedListed /\ InFront
  /\ Sites!LeftAsItWas /\ Sites!OneBlockPerName /\ Sites!ForwardedOrTold

SiteInv ==
  /\ SiteTyped
  /\ job.at # "idle" => Working
  /\ job.at = "run" => Running
  /\ job.at = "idle" => Resting

LEMMA ContentsAre ==
  ASSUME NEW r
  PROVE  /\ Sites!Absent.is = "absent" /\ Sites!Link.is = "link" /\ Sites!Foreign.is = "foreign"
         /\ Sites!Half.is = "half" /\ Sites!Block.is = "block" /\ Sites!Site(r).is = "site" /\ Sites!Site(r).routes = r
  BY DEF Sites!Absent, Sites!Link, Sites!Foreign, Sites!Half, Sites!Block, Sites!Site

(* What earlier versions left.                                                *)
LEMMA LeftoversAre ==
  ASSUME NEW files \in Sites!Leftovers(OldDomain)
  PROVE  /\ DOMAIN files = Sites!Places
         /\ \A p \in Sites!Places : files[p] \in {Sites!Absent, Sites!Link, Sites!Foreign, Sites!Site({})}
         /\ \A d \in Domains : files[<<d, "enabled">>] \in {Sites!Absent, Sites!Foreign}
<1> DEFINE With(f) == [p \in Sites!Places |-> IF p \in DOMAIN f THEN f[p] ELSE Sites!Absent]
           f1 == [p \in {} |-> Sites!Absent]
           f2 == [p \in {<<OldDomain, "oldavailable">>, <<OldDomain, "oldenabled">>} |->
                    IF p[2] = "oldenabled" THEN Sites!Link ELSE Sites!Site({})]
           f3 == [p \in {<<OldDomain, "confd">>} |-> Sites!Site({})]
           f4 == [p \in {<<OldDomain, "enabled">>, <<OldDomain, "oldavailable">>} |-> Sites!Foreign]
<1>0. \A d \in Domains : <<d, "enabled">> \in Sites!Places
  BY DEF Sites!Places
<1>1. files \in {With(f1), With(f2), With(f3), With(f4)}
  BY ZenonT(60) DEF Sites!Leftovers
<1>2. CASE files = With(f1)
  BY <1>0, <1>2
<1>3. CASE files = With(f2)
  <2>1. \A d : <<d, "enabled">> \notin DOMAIN f2
    OBVIOUS
  <2>2. \A p \in DOMAIN f2 : f2[p] \in {Sites!Link, Sites!Site({})}
    OBVIOUS
  <2> HIDE DEF f2
  <2> QED BY <1>0, <1>3, <2>1, <2>2
<1>4. CASE files = With(f3)
  <2>1. \A d : <<d, "enabled">> \notin DOMAIN f3
    OBVIOUS
  <2>2. \A p \in DOMAIN f3 : f3[p] = Sites!Site({})
    OBVIOUS
  <2> HIDE DEF f3
  <2> QED BY <1>0, <1>4, <2>1, <2>2
<1>5. CASE files = With(f4)
  <2>2. \A p \in DOMAIN f4 : f4[p] = Sites!Foreign
    OBVIOUS
  <2> HIDE DEF f4
  <2> QED BY <1>0, <1>5, <2>2
<1> QED BY <1>1, <1>2, <1>3, <1>4, <1>5

LEMMA SiteInvInit ==
  ASSUME Sites!Init
  PROVE  SiteInv
<1>0. Sites!Valid
  BY SafetyAssumption
<1>1. /\ installed \in Machines /\ layout \in SiteLayouts
      /\ config = [frontend |-> "builtin", domain |-> Sites!Global, routes |-> {}]
      /\ disk \in Sites!Leftovers(OldDomain)
      /\ layout = "confd" \/ "nginx" \notin installed => \A p \in Sites!Places : disk[p] = Sites!Absent
      /\ serving = [k \in installed |-> Sites!Effective(k, disk)]
      /\ job = Sites!NoJob /\ told = {} /\ before = disk /\ ~killed
  BY DEF Sites!Init
<1>2. /\ manifest.files = {p \in Sites!Places : disk[p] \in {Sites!Link, Sites!Site({})}}
      /\ manifest.kind \in {"none", "nginx"}
  BY DEF Sites!Init, Sites!NoManifest
<1>3. job.at = "idle" /\ DOMAIN job = {"at", "ops", "changes"}
      /\ DOMAIN job.changes = {"created", "modified", "removed", "owned", "site", "import"}
  BY <1>1 DEF Sites!NoJob, Sites!NoChanges
<1>4. config.frontend = "builtin" /\ config.routes = {} /\ DOMAIN config = {"frontend", "domain", "routes"}
  BY <1>1
<1>5. Linked(disk)
  <2>1. \A d \in Domains : <<d, "enabled">> \in Sites!Places /\ <<d, "oldenabled">> \in Sites!Places
    BY DEF Sites!Places
  <2>2. layout # "sites" => layout = "confd"
    BY <1>0, <1>1 DEF Sites!Valid
  <2>3. Sites!Absent # Sites!Link
    BY ContentsAre
  <2> QED BY <1>1, <2>1, <2>2, <2>3, LeftoversAre DEF Linked
<1>6. SiteTyped
  <2>1. installed \subseteq Fronted
    BY <1>0, <1>1 DEF Sites!Valid, Fronted
  <2>2. layout \in {"sites", "confd"}
    BY <1>0, <1>1 DEF Sites!Valid
  <2> QED BY <1>1, <1>2, <1>3, <1>4, <1>5, <2>1, <2>2 DEF SiteTyped
<1>7. Listed(disk)
  <2>1. \A p \in Sites!Places : OursIs(disk[p]) => p \in manifest.files
    BY <1>1, <1>2, LeftoversAre, ContentsAre DEF OursIs
  <2> QED BY <2>1 DEF Listed, Named
<1>8. OwnedListed /\ InFront /\ Sites!LeftAsItWas /\ Sites!OneBlockPerName /\ Sites!ForwardedOrTold
  BY <1>1, <1>2, <1>4 DEF OwnedListed, InFront, Sites!LeftAsItWas, Sites!OneBlockPerName, Sites!ForwardedOrTold
<1> QED BY <1>3, <1>6, <1>7, <1>8 DEF SiteInv, Resting

--------------------------------------------------------------------------------
(* The operations of an install.                                              *)

(* One operation o on the file of its place, which leaves changes ch.         *)
StepBy(o, ch) ==
  /\ job' = [job EXCEPT !.ops = Tail(@), !.changes = ch]
  /\ DOMAIN ch = {"created", "modified", "removed", "owned", "site", "import"}
  /\ DOMAIN disk' = Sites!Places /\ \A p \in Sites!Places : p # o.place => disk'[p] = disk[p]
  /\ UNCHANGED <<installed, layout, config, certs, manifest, told, before, killed, installs, serving>>

(* What it notes of the file it found, to take it back.                       *)
Notes(o, ch) ==
  /\ job.changes.created \subseteq ch.created
  /\ \A p \in ch.created : p \in job.changes.created \/ (p = o.place /\ disk[p] = Sites!Absent)
  /\ Olds \subseteq ch.modified \cup ch.removed
  /\ \A old \in ch.modified \cup ch.removed : old \in Olds \/ old = <<o.place, disk[o.place]>>
  /\ \A old \in ch.removed : old \in job.changes.removed \/ (old[1] = o.place /\ disk'[o.place] = Sites!Absent)
  /\ \/ disk'[o.place] = disk[o.place] \/ o.place \in ch.created
     \/ \E old \in ch.modified \cup ch.removed : old[1] = o.place
     \/ o.place = <<ch.site, "a2">>
  /\ \/ ch.site = job.changes.site
     \/ ch.site = config.domain /\ config.frontend = "apache"

(* What it lists of the file it leaves, for the manifest.                     *)
Enters(o, ch) ==
  /\ job.changes.owned \subseteq ch.owned
  /\ job.changes.import => ch.import
  /\ OursIs(disk'[o.place]) =>
       \/ disk'[o.place] = disk[o.place] \/ o.place \in ch.created \cup ch.owned
       \/ o.place[2] = "import" /\ ch.import
       \/ o.place = <<ch.site, "a2">>

Says(o, ch) == Notes(o, ch) /\ Enters(o, ch)

LEMMA NoGlobalSite ==
  ASSUME NEW p \in Sites!Places
  PROVE  p # <<Sites!Global, "a2">>
<1>1. Sites!Global \notin Domains
  BY SafetyAssumption DEF Sites!Valid
<1> QED BY <1>1 DEF Sites!Places

LEMMA RestorableKept ==
  ASSUME Working, NEW o, NEW ch, o.place \in Sites!Places, disk[o.place] = before[o.place],
         before' = before, \A p \in Sites!Places : p # o.place => disk'[p] = disk[p],
         Notes(o, ch), job'.changes = ch
  PROVE  Restorable' /\ \A p \in Sites!Places :
           p = <<job.changes.site, "a2">> => p = <<ch.site, "a2">>
<1>1. \A p \in Sites!Places : p = <<job.changes.site, "a2">> => p = <<ch.site, "a2">>
  <2> SUFFICES ASSUME NEW p \in Sites!Places, p = <<job.changes.site, "a2">>
               PROVE  p = <<ch.site, "a2">>
    OBVIOUS
  <2>1. job.changes.site # Sites!Global
    BY NoGlobalSite
  <2>2. job.changes.site = config.domain
    BY <2>1 DEF Working
  <2> QED BY <2>2 DEF Notes
<1>2. before' = before /\ \A p \in Sites!Places : p # o.place => disk'[p] = disk[p]
  OBVIOUS
<1>3. Olds' = ch.modified \cup ch.removed
  BY DEF Olds
<1>4. \A old \in Olds' : old[2] = before'[old[1]]
  <2> SUFFICES ASSUME NEW old \in ch.modified \cup ch.removed
               PROVE  old[2] = before[old[1]]
    BY <1>2, <1>3
  <2>1. CASE old \in Olds
    BY <2>1 DEF Working, Restorable
  <2>2. CASE old = <<o.place, disk[o.place]>>
    BY <2>2
  <2> QED BY <2>1, <2>2 DEF Notes
<1>5. \A p \in ch.created : before'[p] = Sites!Absent
  BY <1>2 DEF Notes, Working, Restorable
<1>6. \A p \in Sites!Places :
        \/ disk'[p] = before'[p] \/ p \in ch.created
        \/ \E old \in Olds' : old[1] = p
        \/ p = <<ch.site, "a2">>
  <2> SUFFICES ASSUME NEW p \in Sites!Places
               PROVE  \/ disk'[p] = before[p] \/ p \in ch.created
                      \/ \E old \in Olds' : old[1] = p
                      \/ p = <<ch.site, "a2">>
    BY <1>2
  <2>1. CASE p = o.place
    BY <1>3, <2>1 DEF Notes
  <2>2. CASE p # o.place
    <3>1. disk'[p] = disk[p]
      BY <1>2, <2>2
    <3>2. \/ disk[p] = before[p] \/ p \in job.changes.created
          \/ \E old \in Olds : old[1] = p
          \/ p = <<job.changes.site, "a2">>
      BY DEF Working, Restorable
    <3>3. job.changes.created \subseteq ch.created /\ Olds \subseteq Olds'
      BY <1>3 DEF Notes
    <3> QED BY <1>1, <3>1, <3>2, <3>3
  <2> QED BY <2>1, <2>2
<1>7. Restorable'
  BY <1>4, <1>5, <1>6 DEF Restorable
<1> QED BY <1>1, <1>7

LEMMA StepKeeps ==
  ASSUME SiteInv, job.at = "run", job.ops # <<>>, NEW o \in Writes(config), o = Head(job.ops), NEW ch,
         StepBy(o, ch), Says(o, ch), Did(o)', Linked(disk)'
  PROVE  SiteInv'
<1>0. /\ SiteTyped /\ Working /\ Running
      /\ config.frontend \in Fronted /\ config.domain \in Domains
  BY DEF SiteInv, SiteTyped, Working, Fronted
<1>1. /\ UNCHANGED <<installed, layout, config, certs, manifest, told, before, killed, installs, serving>>
      /\ \A p \in Sites!Places : p # o.place => disk'[p] = disk[p]
  BY DEF StepBy
<1>2. job'.at = "run" /\ job'.ops = Tail(job.ops) /\ job'.changes = ch /\ DOMAIN job' = {"at", "ops", "changes"}
  BY <1>0 DEF StepBy, SiteTyped
<1>3. /\ Ordered(Tail(job.ops), Plan(config)) /\ o \in Remaining(job.ops)
      /\ Remaining(Tail(job.ops)) = Remaining(job.ops) \ {o}
      /\ Reloading \in Remaining(job.ops)
  BY <1>0, TailOrdered DEF Running
<1>4. \A x \in Writes(config) : x.place \in Sites!Places /\ (x.place = o.place => x = o)
  BY SMTT(40), <1>0, WritesPlaces, WritesApart
<1>5. Untouched(o.place) /\ disk[o.place] = before[o.place]
  BY <1>0, <1>3 DEF Running, Untouched
<1>6. SiteTyped'
  <2>1. Linked(before)'
    BY <1>0, <1>1 DEF SiteTyped, Linked
  <2>2. DOMAIN ch = {"created", "modified", "removed", "owned", "site", "import"}
    BY DEF StepBy
  <2> QED BY <1>0, <1>1, <1>2, <2>1, <2>2 DEF SiteTyped
<1>7. Restorable' /\ \A p \in Sites!Places : p = <<job.changes.site, "a2">> => p = <<ch.site, "a2">>
  BY <1>0, <1>1, <1>2, <1>4, <1>5, RestorableKept DEF Says
<1>8. Working'
  <2>1. Listed(before)'
    BY SMTT(40), <1>0, <1>1 DEF Working, Listed, Named
  <2>2. ch.site # Sites!Global => ch.site = config.domain /\ config.frontend = "apache"
    BY <1>0 DEF Says, Notes, Enters, Working
  <2> QED BY <1>0, <1>1, <1>2, <1>7, <2>1, <2>2 DEF Working
<1>9. \A x \in Writes(config) :
        IF x \in Remaining(Tail(job.ops)) THEN Untouched(x.place)' ELSE Did(x)'
  <2> SUFFICES ASSUME NEW x \in Writes(config), x # o
               PROVE  IF x \in Remaining(job.ops) THEN Untouched(x.place)' ELSE Did(x)'
    BY <1>3
  <2>1. x.place # o.place /\ disk'[x.place] = disk[x.place]
    BY <1>1, <1>4
  <2>2. CASE x \in Remaining(job.ops)
    <3>1. Untouched(x.place)
      BY <1>0, <2>2 DEF Running
    <3>2. disk'[x.place] = before'[x.place]
      BY <1>1, <2>1, <3>1 DEF Untouched
    <3>3. \A old \in ch.removed : old[1] # x.place
      BY <2>1, <3>1 DEF Untouched, Says, Notes, Enters
    <3> QED BY SMTT(40), <1>2, <2>2, <3>2, <3>3 DEF Untouched
  <2>3. CASE x \notin Remaining(job.ops)
    <3>1. Did(x)
      BY <1>0, <2>3 DEF Running
    <3>2. Sites!Text(config)' = Sites!Text(config) /\ job.changes.owned \subseteq ch.owned
      BY <1>1 DEF Sites!Text, Sites!NginxVhost, Sites!ApacheVhost, Sites!CaddySite, Says, Notes, Enters
    <3> QED BY <1>2, <2>1, <2>3, <3>1, <3>2 DEF Did
  <2> QED BY <2>2, <2>3
<1>10. Reloading \in Remaining(Tail(job.ops))
  BY <1>0, <1>3, WritesAre
<1>11. \A old \in ch.removed : old[1] \in Sites!Places /\ disk'[old[1]] = Sites!Absent
  <2> SUFFICES ASSUME NEW old \in ch.removed
               PROVE  old[1] \in Sites!Places /\ disk'[old[1]] = Sites!Absent
    OBVIOUS
  <2>1. CASE old[1] = o.place /\ disk'[o.place] = Sites!Absent
    BY <1>4, <2>1
  <2>2. CASE old \in job.changes.removed
    <3>1. old[1] \in Sites!Places /\ disk[old[1]] = Sites!Absent /\ old[1] # o.place
      BY <1>0, <1>5, <2>2 DEF Running, Untouched
    <3> QED BY <1>1, <3>1
  <2> QED BY <2>1, <2>2 DEF Says, Notes, Enters
<1>12. Accounted'
  <2> SUFFICES ASSUME ~killed, NEW p \in Sites!Places, OursIs(disk'[p])
               PROVE  \/ Named(p) \/ p \in ch.created \cup ch.owned
                      \/ p[2] = "import" /\ ch.import
                      \/ p = <<ch.site, "a2">>
    BY <1>1, <1>2 DEF Accounted, Named, OursIs
  <2>1. disk'[p] = disk[p] => \/ Named(p) \/ p \in job.changes.created \cup job.changes.owned
                              \/ p[2] = "import" /\ job.changes.import
                              \/ p = <<job.changes.site, "a2">>
    BY <1>0 DEF Running, Accounted
  <2>2. /\ job.changes.created \cup job.changes.owned \subseteq ch.created \cup ch.owned
        /\ job.changes.import => ch.import
    BY DEF Says, Notes, Enters
  <2>3. CASE disk'[p] = disk[p]
    BY <1>7, <2>1, <2>2, <2>3
  <2>4. CASE disk'[p] # disk[p]
    <3>1. p = o.place
      BY <1>1, <2>4
    <3> QED BY <2>4, <3>1 DEF Says, Notes, Enters
  <2> QED BY <2>3, <2>4
<1>13. Running'
  <2>1. Plan(config)' = Plan(config) /\ Writes(config)' = Writes(config)
    BY <1>1 DEF Plan, Writes
  <2>2. Ordered(job.ops, Plan(config))'
    BY <1>2, <1>3, <2>1
  <2>3. \A x \in Writes(config)' : IF x \in Remaining(job.ops)' THEN Untouched(x.place)' ELSE Did(x)'
    BY <1>2, <1>9, <2>1 DEF Remaining
  <2>4. Reloading \in Remaining(job.ops)'
    BY <1>2, <1>10 DEF Remaining
  <2> QED BY <1>2, <1>11, <1>12, <2>1, <2>2, <2>3, <2>4 DEF Running
<1> QED BY <1>2, <1>6, <1>8, <1>13 DEF SiteInv

(* The head of the list.                                                      *)
LEMMA HeadIs ==
  ASSUME SiteInv, NEW what \in {"site", "link", "unlink", "remove", "enable", "import"}, Sites!Runs(what),
         NEW o, o = Head(job.ops)
  PROVE  /\ job.at = "run" /\ job.ops # <<>> /\ o \in Writes(config) /\ o.what = what
         /\ o.place \in Sites!Places /\ config.frontend \in Fronted /\ config.domain \in Domains
         /\ Sites!Next1 = o /\ disk[o.place] = before[o.place]
<1>1. job.at = "run" /\ job.ops # <<>> /\ o.what = what /\ Sites!Next1 = o
  BY DEF Sites!Runs, Sites!Next1
<1>2. SiteTyped /\ Working /\ Running /\ config.frontend \in Fronted /\ config.domain \in Domains
  BY <1>1 DEF SiteInv, SiteTyped, Working, Fronted
<1>3. o \in Plan(config) /\ o \in Remaining(job.ops)
  BY <1>1, <1>2, TailOrdered DEF Running
<1>4. Testing.what = "test" /\ Reloading.what = "reload"
  BY OpsDiffer DEF Testing, Reloading
<1>5. o \in Writes(config)
  BY <1>1, <1>3, <1>4 DEF Plan
<1>6. o.place \in Sites!Places
  BY <1>2, <1>5, WritesPlaces
<1>7. disk[o.place] = before[o.place]
  BY <1>2, <1>3, <1>5 DEF Running, Untouched
<1> QED BY <1>1, <1>2, <1>5, <1>6, <1>7

LEMMA NotedIs ==
  ASSUME SiteTyped, NEW place
  PROVE  LET n == Sites!Noted(place) IN
         /\ DOMAIN n = {"created", "modified", "removed", "owned", "site", "import"}
         /\ n.removed = job.changes.removed /\ n.owned = job.changes.owned
         /\ n.site = job.changes.site /\ n.import = job.changes.import
         /\ IF disk[place] = Sites!Absent
            THEN n.created = job.changes.created \cup {place} /\ n.modified = job.changes.modified
            ELSE n.created = job.changes.created
                 /\ n.modified = job.changes.modified \cup {<<place, disk[place]>>}
  BY DEF SiteTyped, Sites!Noted

LEMMA OwnedToo ==
  ASSUME NEW n, NEW v, DOMAIN n = {"created", "modified", "removed", "owned", "site", "import"}
  PROVE  LET ch == [n EXCEPT !.owned = @ \cup {v}] IN
         /\ DOMAIN ch = {"created", "modified", "removed", "owned", "site", "import"}
         /\ ch.created = n.created /\ ch.modified = n.modified /\ ch.removed = n.removed
         /\ ch.owned = n.owned \cup {v} /\ ch.site = n.site /\ ch.import = n.import
  OBVIOUS

(* Nothing but a link is written where a link goes.                           *)
LEMMA LinkedKept ==
  ASSUME SiteTyped, NEW o, DOMAIN disk' = Sites!Places, layout' = layout,
         \A p \in Sites!Places : p # o.place => disk'[p] = disk[p],
         \A d \in Domains : o.place = <<d, "enabled">> =>
           disk'[o.place] \in {Sites!Absent, Sites!Link} /\ (disk'[o.place] = Sites!Link => layout = "sites"),
         \A d \in Domains : o.place = <<d, "oldenabled">> => disk'[o.place] # Sites!Link
  PROVE  Linked(disk)'
<1>1. \A d \in Domains : <<d, "enabled">> \in Sites!Places /\ <<d, "oldenabled">> \in Sites!Places
  BY DEF Sites!Places
<1>2. Linked(disk)
  BY DEF SiteTyped
<1>3. \A d \in Domains : disk'[<<d, "enabled">>] \in {Sites!Absent, Sites!Link, Sites!Foreign}
  BY ZenonT(60), <1>1, <1>2 DEF Linked
<1>4. layout # "sites" => \A d \in Domains : disk'[<<d, "enabled">>] # Sites!Link
  BY ZenonT(60), <1>1, <1>2 DEF Linked
<1>5. layout # "sites" => \A d \in Domains : disk'[<<d, "oldenabled">>] # Sites!Link
  BY <1>1, <1>2 DEF Linked
<1> QED BY <1>3, <1>4, <1>5 DEF Linked

LEMMA PutIs ==
  ASSUME SiteTyped, NEW place \in Sites!Places, NEW content, Sites!Put(place, content)
  PROVE  /\ DOMAIN disk' = Sites!Places /\ disk'[place] = content
         /\ \A p \in Sites!Places : p # place => disk'[p] = disk[p]
  BY DEF SiteTyped, Linked, Sites!Put

LEMMA TextIs == Sites!Text(config).is = "site"
  BY ContentsAre DEF Sites!Text

LEMMA SameText ==
  ASSUME config' = config
  PROVE  Sites!Text(config)' = Sites!Text(config)
  BY DEF Sites!Text, Sites!NginxVhost, Sites!ApacheVhost, Sites!CaddySite

(* A command that keeps what it found of a file, and takes nothing away.      *)
LEMMA AddsAre ==
  ASSUME NEW o, NEW ch,
         ch.removed = job.changes.removed, ch.site = job.changes.site, ch.import = job.changes.import,
         ch.owned = job.changes.owned \cup {o.place},
         \/ /\ disk[o.place] = Sites!Absent
            /\ ch.created = job.changes.created \cup {o.place} /\ ch.modified = job.changes.modified
         \/ /\ ch.created = job.changes.created
            /\ ch.modified = job.changes.modified \cup {<<o.place, disk[o.place]>>}
         \/ /\ disk'[o.place] = disk[o.place]
            /\ ch.created = job.changes.created /\ ch.modified = job.changes.modified
  PROVE  Says(o, ch)
<1>1. /\ job.changes.created \subseteq ch.created /\ job.changes.owned \subseteq ch.owned
      /\ \A p \in ch.created : p \in job.changes.created \/ (p = o.place /\ disk[p] = Sites!Absent)
      /\ o.place \in ch.created \cup ch.owned
  OBVIOUS
<1>2. /\ Olds \subseteq ch.modified \cup ch.removed
      /\ \A old \in ch.modified \cup ch.removed : old \in Olds \/ old = <<o.place, disk[o.place]>>
  BY DEF Olds
<1>3. \/ disk'[o.place] = disk[o.place] \/ o.place \in ch.created
      \/ \E old \in ch.modified \cup ch.removed : old[1] = o.place
  <2>1. <<o.place, disk[o.place]>>[1] = o.place
    OBVIOUS
  <2>2. CASE ch.modified = job.changes.modified \cup {<<o.place, disk[o.place]>>}
    BY <2>1, <2>2, Zenon
  <2>3. CASE ch.modified # job.changes.modified \cup {<<o.place, disk[o.place]>>}
    BY <2>3
  <2> QED BY <2>2, <2>3
<1> QED BY <1>1, <1>2, <1>3 DEF Says, Notes, Enters

LEMMA WriteSiteKeeps ==
  ASSUME SiteInv, Sites!WriteSite
  PROVE  SiteInv'
<1>o. PICK o : o = Head(job.ops)
  OBVIOUS
<1>1. /\ job.at = "run" /\ job.ops # <<>> /\ o \in Writes(config) /\ o.what = "site"
      /\ o.place \in Sites!Places /\ config.frontend \in Fronted /\ config.domain \in Domains
      /\ Sites!Next1 = o /\ disk[o.place] = before[o.place] /\ SiteTyped
  BY <1>o, HeadIs DEF Sites!WriteSite, SiteInv
<1>c. PICK ch : ch = [Sites!Noted(o.place) EXCEPT !.owned = @ \cup {o.place}]
  OBVIOUS
<1>2. /\ Sites!Put(o.place, Sites!Text(config)) /\ job' = [job EXCEPT !.ops = Tail(@), !.changes = ch]
      /\ UNCHANGED <<installed, layout, config, certs, manifest, told, before, killed, installs, serving>>
  BY <1>1, <1>c DEF Sites!WriteSite, Sites!Continue, Sites!kept
<1>3. /\ DOMAIN disk' = Sites!Places /\ disk'[o.place] = Sites!Text(config)
      /\ \A p \in Sites!Places : p # o.place => disk'[p] = disk[p]
  BY <1>1, <1>2, PutIs
<1>4. /\ DOMAIN ch = {"created", "modified", "removed", "owned", "site", "import"}
      /\ ch.removed = job.changes.removed /\ ch.owned = job.changes.owned \cup {o.place}
      /\ ch.site = job.changes.site /\ ch.import = job.changes.import
      /\ IF disk[o.place] = Sites!Absent
         THEN ch.created = job.changes.created \cup {o.place} /\ ch.modified = job.changes.modified
         ELSE ch.created = job.changes.created
              /\ ch.modified = job.changes.modified \cup {<<o.place, disk[o.place]>>}
  BY <1>1, <1>c, NotedIs, OwnedToo
<1>5. StepBy(o, ch)
  BY <1>2, <1>3, <1>4 DEF StepBy
<1>6. Says(o, ch)
  BY <1>4, AddsAre DEF Olds
<1>7. Did(o)'
  <2>1. job'.changes = ch /\ config' = config
    BY <1>1, <1>2 DEF SiteTyped
  <2>2. Sites!Text(config)' = Sites!Text(config)
    BY <2>1, SameText
  <2> QED BY <1>1, <1>3, <1>4, <2>1, <2>2 DEF Did
<1>8. Linked(disk)'
  <2>1. o.place \in {<<config.domain, k>> : k \in {"available", "confd", "apache", "caddy"}}
    BY <1>1, WritesPlaces
  <2>2. \A d : o.place # <<d, "enabled">> /\ o.place # <<d, "oldenabled">>
    BY <2>1
  <2> QED BY SMTT(40), <1>1, <1>2, <1>3, <2>2, LinkedKept
<1> QED BY <1>o, <1>1, <1>5, <1>6, <1>7, <1>8, StepKeeps

LEMMA SymlinkKeeps ==
  ASSUME SiteInv, Sites!Symlink
  PROVE  SiteInv'
<1>o. PICK o : o = Head(job.ops)
  OBVIOUS
<1>1. /\ job.at = "run" /\ job.ops # <<>> /\ o \in Writes(config) /\ o.what = "link"
      /\ o.place \in Sites!Places /\ config.frontend \in Fronted /\ config.domain \in Domains
      /\ Sites!Next1 = o /\ disk[o.place] = before[o.place] /\ SiteTyped
  BY <1>o, HeadIs DEF Sites!Symlink, SiteInv
<1>c. PICK ch : ch = [job.changes EXCEPT !.owned = @ \cup {o.place},
                                         !.created = IF disk[o.place] = Sites!Link THEN @ ELSE @ \cup {o.place}]
  OBVIOUS
<1>2. /\ Sites!Put(o.place, Sites!Link) /\ job' = [job EXCEPT !.ops = Tail(@), !.changes = ch]
      /\ disk[o.place] # Sites!Foreign
      /\ UNCHANGED <<installed, layout, config, certs, manifest, told, before, killed, installs, serving>>
  BY <1>1, <1>c DEF Sites!Symlink, Sites!Continue, Sites!kept
<1>3. /\ DOMAIN disk' = Sites!Places /\ disk'[o.place] = Sites!Link
      /\ \A p \in Sites!Places : p # o.place => disk'[p] = disk[p]
  BY <1>1, <1>2, PutIs
<1>4. /\ DOMAIN ch = {"created", "modified", "removed", "owned", "site", "import"}
      /\ ch.removed = job.changes.removed /\ ch.owned = job.changes.owned \cup {o.place}
      /\ ch.site = job.changes.site /\ ch.import = job.changes.import /\ ch.modified = job.changes.modified
      /\ IF disk[o.place] = Sites!Link THEN ch.created = job.changes.created
         ELSE ch.created = job.changes.created \cup {o.place}
  BY <1>1, <1>c DEF SiteTyped
<1>0. o.place = <<config.domain, "enabled">> /\ layout = "sites"
  BY <1>1, WritesPlaces
<1>9. disk[o.place] \in {Sites!Absent, Sites!Link}
  BY <1>0, <1>1, <1>2 DEF SiteTyped, Linked
<1>5. StepBy(o, ch)
  BY <1>2, <1>3, <1>4 DEF StepBy
<1>6. Says(o, ch)
  BY <1>3, <1>4, <1>9, AddsAre DEF Olds
<1>7. Did(o)'
  <2>1. job'.changes = ch /\ config' = config
    BY <1>1, <1>2 DEF SiteTyped
  <2> QED BY <1>1, <1>3, <1>4, <2>1 DEF Did
<1>8. Linked(disk)'
  <2>2. \A d : o.place # <<d, "oldenabled">>
    BY <1>0
  <2> QED BY <1>0, <1>1, <1>2, <1>3, <2>2, LinkedKept
<1> QED BY <1>o, <1>1, <1>5, <1>6, <1>7, <1>8, StepKeeps

(* A removal keeps what it took away.                                         *)
LEMMA TakesAre ==
  ASSUME NEW o, NEW ch, disk'[o.place] = Sites!Absent,
         ch.created = job.changes.created /\ ch.modified = job.changes.modified,
         ch.owned = job.changes.owned /\ ch.site = job.changes.site /\ ch.import = job.changes.import,
         ch.removed = job.changes.removed \cup {<<o.place, disk[o.place]>>}
  PROVE  Says(o, ch)
<1>1. <<o.place, disk[o.place]>>[1] = o.place
  OBVIOUS
<1>2. /\ Olds \subseteq ch.modified \cup ch.removed
      /\ \A old \in ch.modified \cup ch.removed : old \in Olds \/ old = <<o.place, disk[o.place]>>
      /\ \A old \in ch.removed : old \in job.changes.removed \/ old = <<o.place, disk[o.place]>>
      /\ \E old \in ch.modified \cup ch.removed : old[1] = o.place
  BY <1>1 DEF Olds
<1>3. ~OursIs(disk'[o.place])
  BY ContentsAre DEF OursIs
<1> QED BY <1>1, <1>2, <1>3 DEF Says, Notes, Enters

LEMMA RemoveKeeps ==
  ASSUME SiteInv, Sites!RemoveLink \/ Sites!RemoveOld
  PROVE  SiteInv'
<1>o. PICK o : o = Head(job.ops)
  OBVIOUS
<1>1. /\ job.at = "run" /\ job.ops # <<>> /\ o \in Writes(config) /\ o.what \in {"unlink", "remove"}
      /\ o.place \in Sites!Places /\ config.frontend \in Fronted /\ config.domain \in Domains
      /\ Sites!Next1 = o /\ disk[o.place] = before[o.place] /\ SiteTyped
  BY <1>o, HeadIs DEF Sites!RemoveLink, Sites!RemoveOld, SiteInv
<1>p. o.place \in {<<config.domain, k>> : k \in {"oldenabled", "oldavailable", "confd"}}
  BY <1>1, WritesPlaces
<1>2. /\ UNCHANGED <<installed, layout, config, certs, manifest, told, before, killed, installs, serving>>
      /\ \/ /\ Sites!Put(o.place, Sites!Absent) /\ Sites!Continue(Sites!Taken(o.place))
         \/ /\ disk' = disk /\ Sites!Continue(job.changes)
            /\ o.what = "unlink" => disk[o.place] # Sites!Link
            /\ o.what = "remove" => disk[o.place].is # "site"
  <2>1. CASE Sites!RemoveLink
    BY <1>1, <2>1 DEF Sites!RemoveLink, Sites!kept, Sites!Runs
  <2>2. CASE Sites!RemoveOld
    BY <1>1, <2>2 DEF Sites!RemoveOld, Sites!kept, Sites!Runs
  <2> QED BY <2>1, <2>2
<1>3. CASE Sites!Put(o.place, Sites!Absent) /\ Sites!Continue(Sites!Taken(o.place))
  <2>c. PICK ch : ch = Sites!Taken(o.place)
    OBVIOUS
  <2>1. /\ DOMAIN ch = {"created", "modified", "removed", "owned", "site", "import"}
        /\ ch.created = job.changes.created /\ ch.modified = job.changes.modified
        /\ ch.owned = job.changes.owned /\ ch.site = job.changes.site /\ ch.import = job.changes.import
        /\ ch.removed = job.changes.removed \cup {<<o.place, disk[o.place]>>}
    BY <1>1, <2>c DEF SiteTyped, Sites!Taken
  <2>2. /\ DOMAIN disk' = Sites!Places /\ disk'[o.place] = Sites!Absent
        /\ \A p \in Sites!Places : p # o.place => disk'[p] = disk[p]
    BY <1>1, <1>3, PutIs
  <2>3. StepBy(o, ch)
    BY <1>2, <1>3, <2>c, <2>1, <2>2 DEF StepBy, Sites!Continue
  <2>4. Says(o, ch)
    BY <2>1, <2>2, TakesAre
  <2>5. Did(o)'
    BY <1>1, <2>2, ContentsAre DEF Did
  <2>6. Linked(disk)'
    <3>1. \A d : o.place # <<d, "enabled">>
      BY <1>p
    <3> QED BY SMTT(40), <1>1, <1>2, <2>2, <3>1, LinkedKept, ContentsAre
  <2> QED BY <1>o, <1>1, <2>3, <2>4, <2>5, <2>6, StepKeeps
<1>4. CASE ~(Sites!Put(o.place, Sites!Absent) /\ Sites!Continue(Sites!Taken(o.place)))
  <2>c. PICK ch : ch = job.changes
    OBVIOUS
  <2>1. /\ disk' = disk /\ job' = [job EXCEPT !.ops = Tail(@), !.changes = ch]
        /\ o.what = "unlink" => disk'[o.place] # Sites!Link
        /\ o.what = "remove" => disk'[o.place].is # "site"
    BY <1>2, <1>4, <2>c DEF Sites!Continue
  <2>2. DOMAIN ch = {"created", "modified", "removed", "owned", "site", "import"} /\ DOMAIN disk = Sites!Places
    BY <1>1, <2>c DEF SiteTyped, Linked
  <2>3. StepBy(o, ch)
    BY <1>2, <2>1, <2>2 DEF StepBy
  <2>4. Says(o, ch)
    BY <2>c, <2>1 DEF Says, Notes, Enters, Olds
  <2>5. Did(o)'
    BY <1>1, <2>1 DEF Did
  <2>6. Linked(disk)'
    BY <1>1, <1>2, <2>1 DEF SiteTyped, Linked
  <2> QED BY <1>o, <1>1, <2>3, <2>4, <2>5, <2>6, StepKeeps
<1> QED BY <1>3, <1>4

LEMMA A2ensiteKeeps ==
  ASSUME SiteInv, Sites!A2ensite
  PROVE  SiteInv'
<1>o. PICK o : o = Head(job.ops)
  OBVIOUS
<1>1. /\ job.at = "run" /\ job.ops # <<>> /\ o \in Writes(config) /\ o.what = "enable"
      /\ o.place \in Sites!Places /\ config.frontend \in Fronted /\ config.domain \in Domains
      /\ Sites!Next1 = o /\ disk[o.place] = before[o.place] /\ SiteTyped
  BY <1>o, HeadIs DEF Sites!A2ensite, SiteInv
<1>0. o.place = <<config.domain, "a2">> /\ config.frontend = "apache"
  BY <1>1, WritesPlaces
<1>c. PICK ch : ch = [job.changes EXCEPT !.site = o.place[1]]
  OBVIOUS
<1>2. /\ Sites!Put(o.place, Sites!Link) /\ job' = [job EXCEPT !.ops = Tail(@), !.changes = ch]
      /\ UNCHANGED <<installed, layout, config, certs, manifest, told, before, killed, installs, serving>>
  BY <1>1, <1>c DEF Sites!A2ensite, Sites!Continue, Sites!kept
<1>3. /\ DOMAIN disk' = Sites!Places /\ disk'[o.place] = Sites!Link
      /\ \A p \in Sites!Places : p # o.place => disk'[p] = disk[p]
  BY <1>1, <1>2, PutIs
<1>4. /\ DOMAIN ch = {"created", "modified", "removed", "owned", "site", "import"}
      /\ ch.created = job.changes.created /\ ch.modified = job.changes.modified
      /\ ch.owned = job.changes.owned /\ ch.removed = job.changes.removed
      /\ ch.import = job.changes.import /\ ch.site = config.domain
  <2>1. o.place[1] = config.domain
    BY <1>0
  <2> QED BY <1>1, <1>c, <2>1 DEF SiteTyped
<1>5. StepBy(o, ch)
  BY <1>2, <1>3, <1>4 DEF StepBy
<1>6. Says(o, ch)
  BY <1>0, <1>4 DEF Says, Notes, Enters, Olds
<1>7. Did(o)'
  BY <1>1, <1>3 DEF Did
<1>8. Linked(disk)'
  <2>2. \A d : o.place # <<d, "oldenabled">> /\ o.place # <<d, "enabled">>
    BY <1>0
  <2> QED BY <1>1, <1>2, <1>3, <2>2, LinkedKept
<1> QED BY <1>o, <1>1, <1>5, <1>6, <1>7, <1>8, StepKeeps

LEMMA ImportKeeps ==
  ASSUME SiteInv, Sites!Import
  PROVE  SiteInv'
<1>o. PICK o : o = Head(job.ops)
  OBVIOUS
<1>1. /\ job.at = "run" /\ job.ops # <<>> /\ o \in Writes(config) /\ o.what = "import"
      /\ o.place \in Sites!Places /\ config.frontend \in Fronted /\ config.domain \in Domains
      /\ Sites!Next1 = o /\ disk[o.place] = before[o.place] /\ SiteTyped
  BY <1>o, HeadIs DEF Sites!Import, SiteInv
<1>0. o.place = <<Sites!Global, "import">>
  BY <1>1, WritesPlaces
<1>c. PICK ch : ch = IF disk[o.place] = Sites!Block THEN job.changes
                     ELSE [job.changes EXCEPT !.modified = @ \cup {<<o.place, disk[o.place]>>}, !.import = TRUE]
  OBVIOUS
<1>2. /\ Sites!Put(o.place, Sites!Block) /\ job' = [job EXCEPT !.ops = Tail(@), !.changes = ch]
      /\ UNCHANGED <<installed, layout, config, certs, manifest, told, before, killed, installs, serving>>
  BY <1>1, <1>c DEF Sites!Import, Sites!Continue, Sites!kept
<1>3. /\ DOMAIN disk' = Sites!Places /\ disk'[o.place] = Sites!Block
      /\ \A p \in Sites!Places : p # o.place => disk'[p] = disk[p]
  BY <1>1, <1>2, PutIs
<1>4. DOMAIN ch = {"created", "modified", "removed", "owned", "site", "import"}
  BY <1>1, <1>c DEF SiteTyped
<1>5. StepBy(o, ch)
  BY <1>2, <1>3, <1>4 DEF StepBy
<1>6. Says(o, ch)
  <2>1. CASE disk[o.place] = Sites!Block
    BY <1>3, <1>c, <2>1 DEF Says, Notes, Enters, Olds
  <2>2. CASE disk[o.place] # Sites!Block
    <3> DEFINE chm == [job.changes EXCEPT !.modified = @ \cup {<<o.place, disk[o.place]>>}]
    <3>1. /\ ch.created = job.changes.created /\ ch.removed = job.changes.removed
          /\ ch.owned = job.changes.owned /\ ch.site = job.changes.site
          /\ ch.modified = job.changes.modified \cup {<<o.place, disk[o.place]>>}
      BY <1>1, <1>c, <2>2 DEF SiteTyped
    <3>2. ch.import
      BY <1>1, <1>c, <2>2, Zenon DEF SiteTyped
    <3>3. /\ Olds \subseteq ch.modified \cup ch.removed
          /\ \A old \in ch.modified \cup ch.removed : old \in Olds \/ old = <<o.place, disk[o.place]>>
      BY <3>1 DEF Olds
    <3>4. \E old \in ch.modified \cup ch.removed : old[1] = o.place
      <4>1. <<o.place, disk[o.place]>>[1] = o.place
        OBVIOUS
      <4> QED BY <3>1, <4>1
    <3>5. o.place[2] = "import"
      BY <1>0
    <3> QED BY <3>1, <3>2, <3>3, <3>4, <3>5 DEF Says, Notes, Enters
  <2> QED BY <2>1, <2>2
<1>7. Did(o)'
  BY <1>1, <1>3 DEF Did
<1>8. Linked(disk)'
  <2>2. \A d : o.place # <<d, "oldenabled">> /\ o.place # <<d, "enabled">>
    BY <1>0
  <2> QED BY <1>1, <1>2, <1>3, <2>2, LinkedKept
<1> QED BY <1>o, <1>1, <1>5, <1>6, <1>7, <1>8, StepKeeps

--------------------------------------------------------------------------------
(* The test, the reload, and what fails.                                      *)

LEMMA SameEffective ==
  ASSUME UNCHANGED <<layout, config, disk>>
  PROVE  Sites!Effective(config.frontend, disk)' = Sites!Effective(config.frontend, disk)
  BY DEF Sites!Effective

LEMMA NoWriteKeeps ==
  ASSUME SiteInv, job.at = "run", job.ops # <<>>, Head(job.ops) \in {Testing, Reloading},
         Sites!Continue(job.changes), DOMAIN serving' = installed,
         UNCHANGED <<installed, layout, config, certs, manifest, told, before, killed, installs, disk>>,
         Head(job.ops) = Reloading => serving'[config.frontend] = Sites!Effective(config.frontend, disk)
  PROVE  SiteInv'
<1>0. SiteTyped /\ Working /\ Running /\ config.frontend \in Fronted
  BY DEF SiteInv, SiteTyped, Working, Fronted
<1>1. job'.at = "run" /\ job'.ops = Tail(job.ops) /\ job'.changes = job.changes /\ DOMAIN job' = {"at", "ops", "changes"}
  BY <1>0 DEF SiteTyped, Sites!Continue
<1>2. /\ Ordered(Tail(job.ops), Plan(config)) /\ Reloading \in Remaining(job.ops)
      /\ Remaining(Tail(job.ops)) = Remaining(job.ops) \ {Head(job.ops)}
  BY <1>0, TailOrdered DEF Running
<1>3. SiteTyped'
  BY <1>0, <1>1 DEF SiteTyped, Linked
<1>4. Working'
  <2>1. Listed(before)'
    BY <1>0 DEF Working, Listed, Named
  <2>2. Restorable'
    BY <1>0, <1>1 DEF Working, Restorable, Olds
  <2> QED BY <1>0, <1>1, <2>1, <2>2 DEF Working
<1>5. Running'
  <2>1. Plan(config)' = Plan(config) /\ Writes(config)' = Writes(config)
    BY DEF Plan, Writes
  <2>2. Ordered(job.ops, Plan(config))'
    BY <1>1, <1>2, <2>1
  <2>3. \A o \in Writes(config)' : IF o \in Remaining(job.ops)' THEN Untouched(o.place)' ELSE Did(o)'
    <3> SUFFICES ASSUME NEW o \in Writes(config)
                 PROVE  IF o \in Remaining(job.ops)' THEN Untouched(o.place)' ELSE Did(o)'
      BY <2>1
    <3>1. o \in Remaining(job.ops)' <=> o \in Remaining(job.ops)
      <4>1. o # Testing /\ o # Reloading
        BY <1>0, WritesAre
      <4>2. Remaining(job.ops)' = Remaining(Tail(job.ops))
        BY <1>1 DEF Remaining
      <4> QED BY <1>2, <4>1, <4>2
    <3>2. Untouched(o.place) => Untouched(o.place)'
      BY <1>1 DEF Untouched
    <3>3. Did(o) => Did(o)'
      <4>1. Sites!Text(config)' = Sites!Text(config)
        BY SameText
      <4> QED BY <1>1, <4>1 DEF Did
    <3> QED BY <1>0, <3>1, <3>2, <3>3 DEF Running
  <2>4. Reloading \notin Remaining(job.ops)' =>
          (serving[config.frontend])' = Sites!Effective(config.frontend, disk)'
    <3>1. Remaining(job.ops)' = Remaining(Tail(job.ops))
      BY <1>1 DEF Remaining
    <3>2. Reloading \notin Remaining(job.ops)' => Head(job.ops) = Reloading
      BY <1>2, <3>1
    <3> QED BY <3>2, SameEffective
  <2>5. \A old \in job'.changes.removed : old[1] \in Sites!Places /\ disk'[old[1]] = Sites!Absent
    BY <1>0, <1>1 DEF Running
  <2>6. Accounted'
    BY <1>0, <1>1 DEF Running, Accounted, Named
  <2> QED BY <2>2, <2>3, <2>4, <2>5, <2>6 DEF Running
<1> QED BY <1>1, <1>3, <1>4, <1>5 DEF SiteInv

LEMMA TestKeeps ==
  ASSUME SiteInv, Sites!ConfigTest
  PROVE  SiteInv'
<1>0. SiteTyped /\ Working /\ Running /\ config.frontend \in Fronted /\ config.domain \in Domains
  BY DEF SiteInv, SiteTyped, Working, Fronted, Sites!ConfigTest, Sites!Runs
<1>1. job.at = "run" /\ job.ops # <<>> /\ Head(job.ops).what = "test"
  BY DEF Sites!ConfigTest, Sites!Runs, Sites!Next1
<1>2. Head(job.ops) \in Plan(config)
  BY <1>0, <1>1, TailOrdered DEF Running
<1>3. Head(job.ops) \in {Testing, Reloading}
  BY <1>0, <1>1, <1>2, WritesPlaces DEF Plan
<1>4. Head(job.ops) # Reloading
  BY <1>1, OpsDiffer DEF Reloading
<1> QED BY SMTT(40), <1>0, <1>1, <1>3, <1>4, NoWriteKeeps DEF Sites!ConfigTest, Sites!kept, SiteTyped

LEMMA ReloadKeeps ==
  ASSUME SiteInv, Sites!Reload
  PROVE  SiteInv'
<1>0. SiteTyped /\ Working /\ Running /\ config.frontend \in Fronted /\ config.domain \in Domains
  BY DEF SiteInv, SiteTyped, Working, Fronted, Sites!Reload, Sites!Runs
<1>1. job.at = "run" /\ job.ops # <<>> /\ Head(job.ops).what = "reload"
  BY DEF Sites!Reload, Sites!Runs, Sites!Next1
<1>2. Head(job.ops) \in Plan(config)
  BY <1>0, <1>1, TailOrdered DEF Running
<1>3. Head(job.ops) \in {Testing, Reloading}
  BY <1>0, <1>1, <1>2, WritesPlaces DEF Plan
<1>4. DOMAIN serving' = installed /\ serving'[config.frontend] = Sites!Effective(config.frontend, disk)
  <2>1. config.frontend \in DOMAIN serving
    BY <1>0 DEF SiteTyped, Working
  <2> QED BY <1>0, <2>1 DEF Sites!Reload, SiteTyped
<1> QED BY <1>1, <1>3, <1>4, NoWriteKeeps DEF Sites!Reload, Sites!kept

LEMMA CommandFailsKeeps ==
  ASSUME SiteTyped, Working, job'.at = "failed", DOMAIN job' = {"at", "ops", "changes"},
         DOMAIN job'.changes = {"created", "modified", "removed", "owned", "site", "import"},
         job'.changes.site = job.changes.site, Restorable', Linked(disk)',
         UNCHANGED <<installed, layout, config, certs, manifest, told, before, killed, installs, serving>>
  PROVE  SiteInv'
<1>1. Linked(before)'
  BY DEF SiteTyped, Linked
<1>2. SiteTyped'
  BY <1>1 DEF SiteTyped
<1>3. Listed(before)'
  BY DEF Working, Listed, Named
<1>4. Working'
  BY <1>3 DEF Working
<1> QED BY <1>2, <1>4 DEF SiteInv

LEMMA StepFailsKeeps ==
  ASSUME SiteInv, Sites!StepFails
  PROVE  SiteInv'
<1>1. /\ job.at = "run" /\ job' = [job EXCEPT !.at = "failed"]
      /\ UNCHANGED <<installed, layout, config, certs, manifest, told, before, killed, installs, serving, disk>>
  BY DEF Sites!StepFails, Sites!kept
<1>2. SiteTyped /\ Working
  BY <1>1 DEF SiteInv
<1>3. job'.at = "failed" /\ DOMAIN job' = {"at", "ops", "changes"} /\ job'.changes = job.changes
  BY <1>1, <1>2 DEF SiteTyped
<1>4. Restorable'
  BY <1>1, <1>2, <1>3 DEF Working, Restorable, Olds
<1>5. Linked(disk)'
  BY <1>1, <1>2 DEF SiteTyped, Linked
<1>6. DOMAIN job'.changes = {"created", "modified", "removed", "owned", "site", "import"}
  BY <1>2, <1>3 DEF SiteTyped
<1> QED BY <1>1, <1>2, <1>3, <1>4, <1>5, <1>6, CommandFailsKeeps

LEMMA WriteBreaksKeeps ==
  ASSUME SiteInv, Sites!WriteBreaks
  PROVE  SiteInv'
<1>o. PICK o : o = Head(job.ops)
  OBVIOUS
<1>1. /\ job.at = "run" /\ job.ops # <<>> /\ o \in Writes(config) /\ o.what = "site"
      /\ o.place \in Sites!Places /\ config.frontend \in Fronted /\ config.domain \in Domains
      /\ Sites!Next1 = o /\ disk[o.place] = before[o.place] /\ SiteTyped /\ Working
  BY <1>o, HeadIs DEF Sites!WriteBreaks, SiteInv
<1>c. PICK ch : ch = Sites!Noted(o.place)
  OBVIOUS
<1>2. /\ Sites!Put(o.place, Sites!Half) /\ job' = [job EXCEPT !.at = "failed", !.changes = ch]
      /\ UNCHANGED <<installed, layout, config, certs, manifest, told, before, killed, installs, serving>>
  BY <1>1, <1>c DEF Sites!WriteBreaks, Sites!kept
<1>3. /\ DOMAIN disk' = Sites!Places /\ disk'[o.place] = Sites!Half
      /\ \A p \in Sites!Places : p # o.place => disk'[p] = disk[p]
  BY <1>1, <1>2, PutIs
<1>4. /\ DOMAIN ch = {"created", "modified", "removed", "owned", "site", "import"}
      /\ ch.removed = job.changes.removed
      /\ ch.site = job.changes.site
      /\ IF disk[o.place] = Sites!Absent
         THEN ch.created = job.changes.created \cup {o.place} /\ ch.modified = job.changes.modified
         ELSE ch.created = job.changes.created
              /\ ch.modified = job.changes.modified \cup {<<o.place, disk[o.place]>>}
  BY <1>1, <1>c, NotedIs
<1>5. job'.at = "failed" /\ DOMAIN job' = {"at", "ops", "changes"} /\ job'.changes = ch
  BY <1>1, <1>2 DEF SiteTyped
<1>6. Notes(o, ch)
  <2>1. <<o.place, disk[o.place]>>[1] = o.place
    OBVIOUS
  <2>2. CASE disk[o.place] = Sites!Absent
    BY <1>4, <2>2 DEF Notes, Olds
  <2>3. CASE disk[o.place] # Sites!Absent
    <3>1. \E old \in ch.modified \cup ch.removed : old[1] = o.place
      BY ZenonT(60), <1>4, <2>1, <2>3
    <3> QED BY <1>4, <2>3, <3>1 DEF Notes, Olds
  <2> QED BY <2>2, <2>3
<1>7. Restorable'
  BY <1>1, <1>2, <1>3, <1>5, <1>6, RestorableKept
<1>8. Linked(disk)'
  <2>1. o.place \in {<<config.domain, k>> : k \in {"available", "confd", "apache", "caddy"}}
    BY <1>1, WritesPlaces
  <2>2. \A d : o.place # <<d, "enabled">> /\ o.place # <<d, "oldenabled">>
    BY <2>1
  <2> QED BY <1>1, <1>2, <1>3, <2>2, LinkedKept
<1> QED BY <1>1, <1>2, <1>4, <1>5, <1>7, <1>8, CommandFailsKeeps

--------------------------------------------------------------------------------
(* The end of a command.                                                      *)

LEMMA AllAreTold ==
  ASSUME SiteTyped', job'.at = "idle", told' = SitePaths, Listed(disk)', Sites!LeftAsItWas'
  PROVE  SiteInv'
<1>1. SitePaths # {}
  BY SafetyAssumption DEF Sites!Valid
<1>2. OwnedListed' /\ InFront' /\ Sites!OneBlockPerName'
  BY <1>1 DEF OwnedListed, InFront, Sites!OneBlockPerName
<1>3. Sites!ForwardedOrTold'
  BY DEF SiteTyped, Sites!ForwardedOrTold
<1> QED BY <1>2, <1>3 DEF SiteInv, Resting

LEMMA NoJobIs ==
  ASSUME job' = Sites!NoJob
  PROVE  /\ job'.at = "idle" /\ DOMAIN job' = {"at", "ops", "changes"}
         /\ DOMAIN job'.changes = {"created", "modified", "removed", "owned", "site", "import"}
  BY DEF Sites!NoJob, Sites!NoChanges

(* Each file is again what it was, or an apache site that is disabled.        *)
LEMMA UndoneIs ==
  ASSUME Working, NEW p \in Sites!Places
  PROVE  \/ Sites!Undone(p) = before[p]
         \/ p = <<job.changes.site, "a2">> /\ Sites!Undone(p) = Sites!Absent
<1> DEFINE was == {old \in Olds : old[1] = p}
<1>1. Sites!Undone(p) =
        IF was # {} THEN (CHOOSE old \in was : TRUE)[2]
        ELSE IF p \in job.changes.created \/ p = <<job.changes.site, "a2">> THEN Sites!Absent
        ELSE disk[p]
  BY DEF Sites!Undone, Sites!Undo, Olds
<1>2. CASE was # {}
  <2>1. PICK old : old = CHOOSE x \in was : TRUE
    OBVIOUS
  <2>2. old \in was
    BY <1>2, <2>1
  <2>3. old \in Olds /\ old[1] = p
    BY <2>2
  <2>4. old[2] = before[p]
    BY <2>3 DEF Working, Restorable
  <2> QED BY <1>1, <1>2, <2>1, <2>4
<1>3. CASE was = {}
  <2>1. \A old \in Olds : old[1] # p
    BY <1>3
  <2>2. disk[p] = before[p] \/ p \in job.changes.created \/ p = <<job.changes.site, "a2">>
    BY <2>1 DEF Working, Restorable
  <2>3. p \in job.changes.created => before[p] = Sites!Absent
    BY DEF Working, Restorable
  <2> HIDE DEF was
  <2> QED BY <1>1, <1>3, <2>2, <2>3
<1> QED BY <1>2, <1>3

LEMMA RollbackKeeps ==
  ASSUME SiteInv, Sites!Rollback
  PROVE  SiteInv'
<1>1. /\ job.at = "failed" /\ disk' = [p \in Sites!Places |-> Sites!Undone(p)]
      /\ job' = Sites!NoJob /\ told' = SitePaths
      /\ UNCHANGED <<installed, layout, config, certs, manifest, before, killed, installs>>
  BY DEF Sites!Rollback
<1>2. DOMAIN serving' = DOMAIN serving
  BY DEF Sites!Rollback
<1>3. SiteTyped /\ Working
  BY <1>1 DEF SiteInv
<1>4. \A p \in Sites!Places :
        disk'[p] = before[p] \/ ((\E d : p = <<d, "a2">>) /\ disk'[p] = Sites!Absent)
  <2> SUFFICES ASSUME NEW p \in Sites!Places
               PROVE  disk'[p] = before[p] \/ ((\E d : p = <<d, "a2">>) /\ disk'[p] = Sites!Absent)
    OBVIOUS
  <2>1. disk'[p] = Sites!Undone(p)
    BY <1>1
  <2> QED BY <1>3, <2>1, UndoneIs
<1>5. Linked(disk)'
  <2>1. \A d \in Domains : <<d, "enabled">> \in Sites!Places /\ <<d, "oldenabled">> \in Sites!Places
    BY DEF Sites!Places
  <2>2. \A d \in Domains : /\ disk'[<<d, "enabled">>] = before[<<d, "enabled">>]
                           /\ disk'[<<d, "oldenabled">>] = before[<<d, "oldenabled">>]
    BY <1>4, <2>1
  <2>3. DOMAIN disk' = Sites!Places /\ Linked(before) /\ layout' = layout
    BY <1>1, <1>3 DEF SiteTyped
  <2> HIDE DEF Sites!Places
  <2> QED BY <2>2, <2>3 DEF Linked
<1>6. Linked(before)'
  BY <1>1, <1>3 DEF SiteTyped, Linked
<1>7. SiteTyped'
  BY <1>1, <1>2, <1>3, <1>5, <1>6, NoJobIs DEF SiteTyped
<1>8. Listed(disk)'
  <2> SUFFICES ASSUME ~killed, NEW p \in Sites!Places, OursIs(disk'[p])
               PROVE  Named(p)'
    BY <1>1 DEF Listed, OursIs
  <2>1. disk'[p] = before[p]
    BY <1>4, ContentsAre DEF OursIs
  <2>2. Named(p)
    BY <1>3, <2>1 DEF Working, Listed
  <2> QED BY <1>1, <2>2 DEF Named
<1>9. Sites!LeftAsItWas'
  BY <1>1, <1>4 DEF Sites!LeftAsItWas
<1> QED BY <1>1, <1>7, <1>8, <1>9, NoJobIs, AllAreTold

(* Killed, or without a manifest that can be written.                         *)
LEMMA KilledKeeps ==
  ASSUME SiteInv, Sites!Kill \/ Sites!RecordFails
  PROVE  SiteInv'
<1>1. /\ job' = Sites!NoJob /\ told' = SitePaths /\ before' = disk /\ killed'
      /\ UNCHANGED <<installed, layout, config, certs, disk, serving, manifest, installs>>
  BY ZenonT(60) DEF Sites!Kill, Sites!RecordFails
<1>2. SiteTyped
  BY DEF SiteInv
<1>3. Linked(disk)' /\ Linked(before)'
  BY <1>1, <1>2 DEF SiteTyped, Linked
<1>4. SiteTyped'
  BY <1>1, <1>2, <1>3, NoJobIs DEF SiteTyped
<1>5. Listed(disk)'
  BY <1>1 DEF Listed
<1>6. Sites!LeftAsItWas'
  BY <1>1 DEF Sites!LeftAsItWas
<1> QED BY <1>1, <1>4, <1>5, <1>6, NoJobIs, AllAreTold

LEMMA UninstallKeeps ==
  ASSUME SiteInv, Sites!Uninstall
  PROVE  SiteInv'
<1>1. /\ job.at = "idle" /\ manifest' = Sites!NoManifest /\ told' = SitePaths /\ before' = disk'
      /\ disk' = [p \in Sites!Places |->
                    IF p \in manifest.files \/ p = <<manifest.site, "a2">>
                       \/ (manifest.import /\ p[2] = "import") THEN Sites!Absent ELSE disk[p]]
      /\ UNCHANGED <<installed, layout, config, certs, job, killed>>
  BY DEF Sites!Uninstall, Sites!Idle
<1>2. DOMAIN serving' = DOMAIN serving
  BY DEF Sites!Uninstall
<1>3. SiteTyped /\ Resting
  BY <1>1 DEF SiteInv
<1>4. \A p \in Sites!Places :
        \/ disk'[p] = Sites!Absent
        \/ /\ disk'[p] = disk[p] /\ p \notin manifest.files /\ p # <<manifest.site, "a2">>
           /\ ~(manifest.import /\ p[2] = "import")
  <2> SUFFICES ASSUME NEW p \in Sites!Places
               PROVE  \/ disk'[p] = Sites!Absent
                      \/ /\ disk'[p] = disk[p] /\ p \notin manifest.files /\ p # <<manifest.site, "a2">>
                         /\ ~(manifest.import /\ p[2] = "import")
    OBVIOUS
  <2>1. disk'[p] = IF p \in manifest.files \/ p = <<manifest.site, "a2">>
                      \/ (manifest.import /\ p[2] = "import") THEN Sites!Absent ELSE disk[p]
    BY <1>1
  <2> QED BY <2>1, Zenon
<1>5. Linked(disk)'
  <2>1. \A d \in Domains : <<d, "enabled">> \in Sites!Places /\ <<d, "oldenabled">> \in Sites!Places
    BY DEF Sites!Places
  <2>2. \A p \in Sites!Places : disk'[p] \in {Sites!Absent, disk[p]}
    BY <1>4
  <2>3. DOMAIN disk' = Sites!Places /\ Linked(disk) /\ layout' = layout
    BY <1>1, <1>3 DEF SiteTyped
  <2>4. Sites!Absent # Sites!Link
    BY ContentsAre
  <2> QED BY <2>1, <2>2, <2>3, <2>4 DEF Linked
<1>6. Linked(before)'
  BY <1>1, <1>5 DEF Linked
<1>7. SiteTyped'
  <2>1. manifest'.kind # "builtin"
    BY <1>1 DEF Sites!NoManifest
  <2> QED BY <1>1, <1>2, <1>3, <1>5, <1>6, <2>1 DEF SiteTyped
<1>8. Listed(disk)'
  <2> SUFFICES ASSUME ~killed, NEW p \in Sites!Places, OursIs(disk'[p])
               PROVE  Named(p)'
    BY <1>1 DEF Listed, OursIs
  <2>1. /\ disk'[p] = disk[p] /\ p \notin manifest.files /\ p # <<manifest.site, "a2">>
        /\ ~(manifest.import /\ p[2] = "import")
    BY <1>4, ContentsAre DEF OursIs
  <2>2. Named(p)
    BY <1>3, <2>1 DEF Resting, Listed
  <2>3. p = <<p[1], p[2]>>
    BY DEF Sites!Places
  <2>4. p[2] = "a2" /\ \E d \in certs : d # p[1]
    BY ZenonT(60), <2>1, <2>2, <2>3 DEF Named
  <2> QED BY <1>1, <2>4 DEF Named
<1>9. Sites!LeftAsItWas'
  BY <1>1 DEF Sites!LeftAsItWas
<1> QED BY <1>1, <1>7, <1>8, <1>9, AllAreTold

--------------------------------------------------------------------------------
(* An install that is recorded.                                               *)

(* The files of a domain that a web server loads.                             *)
Enabled(kind, files, d) ==
  CASE kind = "nginx" -> {files[<<d, "confd">>]}
         \cup (IF files[<<d, "enabled">>] = Sites!Link THEN {files[<<d, "available">>]} ELSE {})
         \cup (IF files[<<d, "oldenabled">>] = Sites!Link THEN {files[<<d, "oldavailable">>]} ELSE {})
    [] kind = "apache" -> IF layout = "confd" \/ files[<<d, "a2">>] = Sites!Link
                          THEN {files[<<d, "apache">>]} ELSE {}
    [] kind = "caddy" -> IF files[<<Sites!Global, "import">>] = Sites!Block
                         THEN {files[<<d, "caddy">>]} ELSE {}

LEMMA EffectiveIs ==
  ASSUME NEW kind, NEW files
  PROVE  Sites!Effective(kind, files) =
           UNION {{[domain |-> d, routes |-> c.routes] :
                     c \in {x \in Enabled(kind, files, d) : x.is = "site"}} : d \in Domains}
  BY DEF Sites!Effective, Enabled

LEMMA Loads ==
  ASSUME NEW kind, NEW files, NEW d \in Domains, NEW c \in Enabled(kind, files, d), c.is = "site"
  PROVE  [domain |-> d, routes |-> c.routes] \in Sites!Effective(kind, files)
<1>1. [domain |-> d, routes |-> c.routes] \in
        {[domain |-> d, routes |-> x.routes] : x \in {y \in Enabled(kind, files, d) : y.is = "site"}}
  OBVIOUS
<1> QED BY <1>1, EffectiveIs

LEMMA Loaded ==
  ASSUME NEW kind, NEW files, NEW s \in Sites!Effective(kind, files)
  PROVE  s.domain \in Domains /\ \E c \in Enabled(kind, files, s.domain) :
           c.is = "site" /\ s = [domain |-> s.domain, routes |-> c.routes]
<1>1. PICK d \in Domains : s \in
        {[domain |-> d, routes |-> x.routes] : x \in {y \in Enabled(kind, files, d) : y.is = "site"}}
  BY EffectiveIs
<1>2. PICK c \in Enabled(kind, files, d) : c.is = "site" /\ s = [domain |-> d, routes |-> c.routes]
  BY <1>1
<1>3. s.domain = d
  BY <1>2
<1> QED BY <1>2, <1>3

(* When every operation is done, the web server loads the one site.           *)
LEMMA Installed ==
  ASSUME SiteTyped, config.frontend \in Fronted, config.domain \in Domains,
         \A o \in Writes(config) : Did(o)
  PROVE  /\ \E o \in Writes(config) : o.what = "site"
         /\ \A o \in Writes(config) : o.what = "site" =>
              Sites!Text(config) \in Enabled(config.frontend, disk, config.domain)
         /\ config.frontend = "nginx" =>
              \A c \in Enabled("nginx", disk, config.domain) : c.is = "site" => c = Sites!Text(config)
<1> DEFINE d == config.domain
           text == Sites!Text(config)
<1> HIDE DEF text
<1>0. \A w, p : Sites!Op(w, p) \in Writes(config) =>
        /\ w = "site" => disk[p] = text
        /\ w = "link" => disk[p] = Sites!Link
        /\ w = "unlink" => disk[p] # Sites!Link
        /\ w = "remove" => disk[p].is # "site"
        /\ w = "enable" => disk[p] = Sites!Link
        /\ w = "import" => disk[p] = Sites!Block
  BY OpsDiffer DEF Did, text
<1>1. CASE config.frontend = "nginx" /\ layout = "sites"
  <2>1. /\ Sites!Op("site", <<d, "available">>) \in Writes(config) /\ Sites!Op("link", <<d, "enabled">>) \in Writes(config)
        /\ Sites!Op("unlink", <<d, "oldenabled">>) \in Writes(config) /\ Sites!Op("remove", <<d, "confd">>) \in Writes(config)
    BY <1>1 DEF Writes
  <2>2. /\ disk[<<d, "available">>] = text /\ disk[<<d, "enabled">>] = Sites!Link
        /\ disk[<<d, "oldenabled">>] # Sites!Link /\ disk[<<d, "confd">>].is # "site"
    BY <1>0, <2>1
  <2>3. Enabled("nginx", disk, d) = {disk[<<d, "confd">>], text}
    BY <2>2 DEF Enabled
  <2>4. \E o \in Writes(config) : o.what = "site"
    BY <2>1, OpsDiffer
  <2> QED BY <1>1, <2>2, <2>3, <2>4 DEF text
<1>2. CASE config.frontend = "nginx" /\ layout # "sites"
  <2>1. Sites!Op("site", <<d, "confd">>) \in Writes(config)
    BY <1>2 DEF Writes
  <2>2. disk[<<d, "confd">>] = text
    BY <1>0, <2>1
  <2>3. disk[<<d, "enabled">>] # Sites!Link /\ disk[<<d, "oldenabled">>] # Sites!Link
    BY <1>2 DEF SiteTyped, Linked
  <2>4. Enabled("nginx", disk, d) = {text}
    BY <2>2, <2>3 DEF Enabled
  <2>5. \E o \in Writes(config) : o.what = "site"
    BY <2>1, OpsDiffer
  <2> QED BY <1>2, <2>4, <2>5 DEF text
<1>3. CASE config.frontend = "apache"
  <2>1. Sites!Op("site", <<d, "apache">>) \in Writes(config)
    BY <1>3 DEF Writes
  <2>2. layout # "confd" => Sites!Op("enable", <<d, "a2">>) \in Writes(config)
    BY <1>3 DEF Writes, SiteTyped
  <2>3. disk[<<d, "apache">>] = text /\ (layout # "confd" => disk[<<d, "a2">>] = Sites!Link)
    BY <1>0, <2>1, <2>2
  <2>4. Enabled("apache", disk, d) = {text}
    BY <2>3 DEF Enabled
  <2>5. \E o \in Writes(config) : o.what = "site"
    BY <2>1, OpsDiffer
  <2> QED BY <1>3, <2>4, <2>5 DEF text
<1>4. CASE config.frontend = "caddy"
  <2>1. /\ Sites!Op("site", <<d, "caddy">>) \in Writes(config)
        /\ Sites!Op("import", <<Sites!Global, "import">>) \in Writes(config)
    BY <1>4 DEF Writes
  <2>2. disk[<<d, "caddy">>] = text /\ disk[<<Sites!Global, "import">>] = Sites!Block
    BY <1>0, <2>1
  <2>3. Enabled("caddy", disk, d) = {text}
    BY <2>2 DEF Enabled
  <2>4. \E o \in Writes(config) : o.what = "site"
    BY <2>1, OpsDiffer
  <2> QED BY <1>4, <2>3, <2>4 DEF text
<1> QED BY <1>1, <1>2, <1>3, <1>4 DEF Fronted

LEMMA OwnedStays ==
  ASSUME layout' = layout, config'.frontend = config.frontend, config'.domain = config.domain
  PROVE  Sites!Owned(config)' = Sites!Owned(config)
<1>1. Sites!Install(config)' = Sites!Install(config)
  BY DEF Sites!Install, Sites!NginxInstall, Sites!ApacheInstall, Sites!CaddyInstall
<1> QED BY <1>1 DEF Sites!Owned

LEMMA TextForwards ==
  ASSUME config.frontend \in Fronted
  PROVE  config.routes \subseteq Sites!Text(config).routes
<1>1. CASE config.frontend = "nginx"
  BY <1>1, ContentsAre DEF Sites!Text, Sites!NginxVhost
<1>2. CASE config.frontend = "apache"
  BY <1>2, ContentsAre DEF Sites!Text, Sites!ApacheVhost
<1>3. CASE config.frontend = "caddy"
  BY <1>3, ContentsAre DEF Sites!Text, Sites!CaddySite
<1> QED BY <1>1, <1>2, <1>3 DEF Fronted

LEMMA RecordKeeps ==
  ASSUME SiteInv, Sites!Record
  PROVE  SiteInv'
<1> DEFINE ch == job.changes
           d == config.domain
<1>1. /\ job.at = "run" /\ job.ops = <<>> /\ job' = Sites!NoJob /\ told' = {} /\ before' = disk
      /\ manifest' = [kind |-> config.frontend, files |-> Sites!Tracked(ch),
                      site |-> IF ch.site # Sites!Global THEN ch.site ELSE manifest.site,
                      import |-> Sites!ImportTracked(ch)]
      /\ UNCHANGED <<installed, layout, config, certs, disk, serving, killed, installs>>
  BY DEF Sites!Record
<1>2. SiteTyped /\ Working /\ Running /\ config.frontend \in Fronted /\ d \in Domains
  BY <1>1 DEF SiteInv, SiteTyped, Working, Fronted
<1>3. /\ manifest'.kind = config.frontend /\ manifest'.files = Sites!Tracked(ch)
      /\ manifest'.site = IF ch.site # Sites!Global THEN ch.site ELSE manifest.site
      /\ manifest'.import = Sites!ImportTracked(ch)
  BY <1>1
<1>4. /\ \A o \in Writes(config) : Did(o)
      /\ serving[config.frontend] = Sites!Effective(config.frontend, disk)
  <2>1. Remaining(job.ops) = {}
    BY <1>1, NoneRemain
  <2> QED BY <1>2, <2>1 DEF Running
<1>5. SiteTyped'
  <2>1. Linked(disk)' /\ Linked(before)'
    BY <1>1, <1>2 DEF SiteTyped, Linked
  <2>2. manifest'.kind # "builtin"
    BY <1>2, <1>3 DEF Working
  <2> QED BY <1>1, <1>2, <2>1, <2>2, NoJobIs DEF SiteTyped
<1>6. \A p \in Sites!Places : OursIs(disk[p]) => \A old \in ch.removed : old[1] # p
  BY <1>2, ContentsAre DEF Running, OursIs
<1>7. \A p \in Sites!Places :
        OursIs(disk[p]) /\ (p \in manifest.files \/ p \in ch.created \cup ch.owned) => p \in manifest'.files
  <2> SUFFICES ASSUME NEW p \in Sites!Places, OursIs(disk[p]), p \in manifest.files \/ p \in ch.created \cup ch.owned
               PROVE  p \in Sites!Tracked(ch)
    BY <1>3
  <2>1. p \notin {old[1] : old \in ch.removed}
    BY <1>6
  <2>2. disk[p] # Sites!Absent
    BY ContentsAre DEF OursIs
  <2> QED BY <2>1, <2>2 DEF Sites!Tracked
<1>8. Listed(disk)'
  <2> SUFFICES ASSUME ~killed, NEW p \in Sites!Places, OursIs(disk[p])
               PROVE  Named(p)'
    BY <1>1 DEF Listed, OursIs
  <2>0. certs' = certs
    BY <1>1
  <2>1. CASE p \in manifest.files \/ p \in ch.created \cup ch.owned
    BY <1>7, <2>1 DEF Named
  <2>2. CASE p[2] = "import" /\ (manifest.import \/ ch.import)
    <3>1. Sites!ImportTracked(ch)
      BY <2>2 DEF Sites!ImportTracked
    <3>2. manifest'.import
      BY <1>3, <3>1, Zenon
    <3> QED BY <2>2, <3>2 DEF Named
  <2>3. CASE p[2] = "a2" /\ \E e \in certs : e # p[1]
    BY <2>0, <2>3 DEF Named
  <2>4. CASE p[2] = "a2" /\ manifest.site = p[1] /\ ~\E e \in certs : e # p[1]
    <3>1. CASE ch.site = Sites!Global
      BY <1>3, <2>4, <3>1 DEF Named
    <3>2. CASE ch.site # Sites!Global
      <4>1. ch.site = d /\ d \in certs
        BY <1>2, <3>2 DEF Working, SiteTyped
      <4>2. ch.site = p[1]
        BY <2>4, <4>1
      <4> QED BY <1>3, <2>4, <3>2, <4>2 DEF Named
    <3> QED BY <3>1, <3>2
  <2>5. CASE p = <<ch.site, "a2">>
    <3>1. ch.site # Sites!Global
      BY <2>5, NoGlobalSite
    <3>2. p[1] = ch.site /\ p[2] = "a2"
      BY <2>5
    <3> QED BY <1>3, <3>1, <3>2 DEF Named
  <2> QED BY <1>2, <2>1, <2>2, <2>3, <2>4, <2>5 DEF Running, Accounted, Named
<1>9. /\ \E o \in Writes(config) : o.what = "site"
      /\ \A o \in Writes(config) : o.what = "site" =>
           Sites!Text(config) \in Enabled(config.frontend, disk, d)
      /\ config.frontend = "nginx" =>
           \A c \in Enabled("nginx", disk, d) : c.is = "site" => c = Sites!Text(config)
  BY <1>2, <1>4, Installed
<1>10. Sites!Owned(config)' = Sites!Owned(config)
  BY <1>1, OwnedStays
<1>11. \A p \in Sites!Owned(config) : \E o \in Writes(config) : o.place = p /\ o.what \in {"site", "link"}
  BY <1>2, OwnedIs
<1>12. OwnedListed'
  <2> SUFFICES ASSUME NEW p \in Sites!Owned(config), OursIs(disk[p])
               PROVE  p \in manifest'.files
    BY <1>1, <1>10 DEF OwnedListed, OursIs
  <2>1. PICK o \in Writes(config) : o.place = p /\ o.what \in {"site", "link"}
    BY <1>11
  <2>2. p \in ch.owned /\ p \in Sites!Places
    BY <1>2, <1>4, <2>1, WritesPlaces DEF Did
  <2> QED BY <1>7, <2>2
<1>13. [domain |-> d, routes |-> Sites!Text(config).routes] \in serving[config.frontend]
  BY SMTT(40), <1>2, <1>4, <1>9, TextIs, Loads
<1>14. InFront'
  <2> SUFFICES ASSUME NEW p \in Sites!Owned(config), disk[p].is = "site"
               PROVE  [domain |-> d, routes |-> disk[p].routes] \in serving[config.frontend]
    BY <1>1, <1>10 DEF InFront
  <2>1. PICK o \in Writes(config) : o.place = p /\ o.what \in {"site", "link"}
    BY <1>11
  <2>2. disk[p] = Sites!Text(config)
    BY <1>4, <2>1, ContentsAre DEF Did
  <2> QED BY <1>13, <2>2
<1>15. Sites!LeftAsItWas'
  BY <1>1 DEF Sites!LeftAsItWas
<1>16. Sites!OneBlockPerName'
  <2> SUFFICES ASSUME config.frontend = "nginx", NEW a \in serving["nginx"], NEW b \in serving["nginx"],
                      a.domain = d, b.domain = d
               PROVE  a = b
    BY <1>1 DEF Sites!OneBlockPerName
  <2>1. a \in Sites!Effective("nginx", disk) /\ b \in Sites!Effective("nginx", disk)
    BY <1>4
  <2>2. PICK c \in Enabled("nginx", disk, d) : c.is = "site" /\ a = [domain |-> d, routes |-> c.routes]
    BY <2>1, Loaded
  <2>3. PICK e \in Enabled("nginx", disk, d) : e.is = "site" /\ b = [domain |-> d, routes |-> e.routes]
    BY <2>1, Loaded
  <2> QED BY <1>9, <2>2, <2>3
<1>17. Sites!ForwardedOrTold'
  <2> SUFFICES ASSUME NEW r \in config.routes
               PROVE  \E s \in serving[config.frontend] : s.domain = d /\ r \in s.routes
    BY <1>1 DEF Sites!ForwardedOrTold
  <2>1. r \in Sites!Text(config).routes
    BY <1>2, TextForwards
  <2> QED BY <1>13, <2>1
<1> QED BY <1>1, <1>5, <1>8, <1>12, <1>14, <1>15, <1>16, <1>17, NoJobIs DEF SiteInv, Resting

--------------------------------------------------------------------------------
(* The start of a command.                                                    *)

(* A saved configuration: of a web server that is installed, with the         *)
(* certificate its site names.                                                *)
Saved ==
  /\ DOMAIN config' = {"frontend", "domain", "routes"}
  /\ config'.frontend \in installed \cup {"builtin"} /\ config'.routes \subseteq SitePaths
  /\ config'.frontend # "builtin" => config'.domain \in Domains
  /\ config'.frontend \in {"nginx", "apache"} => config'.domain \in certs'
  /\ before' = disk /\ certs \subseteq certs'
  /\ UNCHANGED <<installed, layout, disk, serving, manifest, killed>>

LEMMA SavedTyped ==
  ASSUME SiteTyped, Saved, told' \subseteq SitePaths, job'.at \in {"idle", "run", "failed"},
         DOMAIN job' = {"at", "ops", "changes"},
         DOMAIN job'.changes = {"created", "modified", "removed", "owned", "site", "import"}
  PROVE  SiteTyped'
<1>1. Linked(disk)' /\ Linked(before)'
  BY DEF SiteTyped, Saved, Linked
<1> QED BY <1>1 DEF SiteTyped, Saved

LEMMA ListedKept ==
  ASSUME Saved, Listed(disk)
  PROVE  Listed(disk)' /\ Listed(before)'
<1>1. ASSUME NEW p, Named(p)
      PROVE  Named(p)'
  BY <1>1 DEF Named, Saved
<1> QED BY <1>1 DEF Saved, Listed

LEMMA StartKeeps ==
  ASSUME SiteTyped, Listed(disk), Saved, told' = told, config'.frontend # "builtin",
         Sites!Run(Sites!Install(config'))
  PROVE  SiteInv'
<1>1. /\ job'.at = "run" /\ job'.ops = Sites!Install(config') /\ job'.changes = Sites!NoChanges
      /\ DOMAIN job' = {"at", "ops", "changes"}
  BY DEF Sites!Run
<1>2. /\ DOMAIN job'.changes = {"created", "modified", "removed", "owned", "site", "import"}
      /\ job'.changes.created = {} /\ job'.changes.modified = {} /\ job'.changes.removed = {}
      /\ job'.changes.site = Sites!Global
  BY <1>1 DEF Sites!NoChanges
<1>3. SiteTyped'
  BY <1>1, <1>2, SavedTyped DEF SiteTyped
<1>4. Listed(disk)' /\ Listed(before)'
  BY ListedKept
<1>5. disk' = before'
  BY DEF Saved
<1>6. Restorable'
  BY <1>2, <1>5 DEF Restorable, Olds
<1>7. Working'
  BY <1>2, <1>4, <1>6 DEF Working
<1>8. Running'
  <2>0. config'.frontend \in Fronted
    BY DEF SiteTyped, Saved
  <2>1. Plan(config)' = Plan(config') /\ Writes(config)' = Writes(config')
    BY DEF Saved, Plan, Writes
  <2>2. Ordered(job.ops, Plan(config))' /\ Remaining(job.ops)' = Plan(config')
    <3>1. Ordered(Sites!Install(config'), Plan(config')) /\ Remaining(Sites!Install(config')) = Plan(config')
      BY <2>0, InstallIs
    <3> QED BY <1>1, <2>1, <3>1 DEF Remaining
  <2>3. \A o \in Writes(config)' : IF o \in Remaining(job.ops)' THEN Untouched(o.place)' ELSE Did(o)'
    <3>1. \A o \in Writes(config)' : o \in Remaining(job.ops)'
      BY <2>1, <2>2 DEF Plan
    <3>2. \A p : Untouched(p)'
      BY <1>2, <1>5 DEF Untouched
    <3> QED BY <3>1, <3>2
  <2>4. Reloading \in Remaining(job.ops)'
    BY <2>2 DEF Plan
  <2>5. Accounted'
    BY <1>4 DEF Listed, Accounted
  <2>6. \A old \in job'.changes.removed : old[1] \in Sites!Places /\ disk'[old[1]] = Sites!Absent
    BY <1>2
  <2> QED BY <2>2, <2>3, <2>4, <2>5, <2>6 DEF Running
<1> QED BY <1>1, <1>3, <1>7, <1>8 DEF SiteInv

LEMMA IssueKeeps ==
  ASSUME SiteInv, NEW d \in Domains, NEW kind \in Sites!ChooseFrontend, Sites!Issue(d, kind)
  PROVE  SiteInv'
<1>1. /\ job.at = "idle" /\ config' = [config EXCEPT !.frontend = kind, !.domain = d] /\ before' = disk
      /\ kind = "builtin" => UNCHANGED <<job, certs>> /\ told' = {}
      /\ kind # "builtin" => /\ Sites!Run(Sites!Install(config')) /\ told' = told
                             /\ certs' = IF kind = "caddy" THEN certs ELSE certs \cup {d}
      /\ UNCHANGED <<installed, layout, disk, serving, manifest, killed>>
  BY DEF Sites!Issue, Sites!Idle, Sites!Save
<1>2. SiteTyped /\ Resting
  BY <1>1 DEF SiteInv
<1>3. config'.frontend = kind /\ config'.domain = d /\ config'.routes = config.routes
      /\ DOMAIN config' = {"frontend", "domain", "routes"}
  BY <1>1, <1>2 DEF SiteTyped
<1>4. certs \subseteq certs' /\ (kind \in {"nginx", "apache"} => d \in certs')
  BY <1>1
<1>5. Saved
  BY SMTT(40), <1>1, <1>2, <1>3, <1>4 DEF SiteTyped, Saved, Sites!ChooseFrontend
<1>6. CASE kind # "builtin"
  BY <1>1, <1>2, <1>3, <1>5, <1>6, StartKeeps DEF Resting
<1>7. CASE kind = "builtin"
  <2>1. SiteTyped'
    BY <1>1, <1>2, <1>5, <1>7, SavedTyped DEF SiteTyped
  <2>2. Listed(disk)'
    BY <1>2, <1>5, ListedKept DEF Resting
  <2>3. OwnedListed' /\ InFront' /\ Sites!OneBlockPerName' /\ Sites!ForwardedOrTold'
    BY <1>1, <1>2, <1>3, <1>7 DEF SiteTyped, OwnedListed, InFront, Sites!OneBlockPerName, Sites!ForwardedOrTold
  <2>4. Sites!LeftAsItWas'
    BY <1>1 DEF Sites!LeftAsItWas
  <2> QED BY <1>1, <1>7, <2>1, <2>2, <2>3, <2>4 DEF SiteInv, Resting
<1> QED BY <1>6, <1>7

(* A path switched without the site: what is new is forwarded already, or     *)
(* told.                                                                      *)
LEMMA SwitchKeeps ==
  ASSUME SiteInv, job.at = "idle", NEW route \in SitePaths, NEW on \in BOOLEAN,
         config' = Sites!Toggled(route, on), before' = disk,
         UNCHANGED <<installed, layout, certs, disk, serving, manifest, killed, job>>,
         \/ told' = Sites!Advised(route, on)
         \/ told' = told /\ route \in config.routes
  PROVE  SiteInv'
<1>0. SiteTyped /\ Resting
  BY DEF SiteInv
<1>1. config'.frontend = config.frontend /\ config'.domain = config.domain
      /\ config'.routes \subseteq config.routes \cup (IF on THEN {route} ELSE {})
      /\ config'.routes \subseteq SitePaths
      /\ DOMAIN config' = {"frontend", "domain", "routes"}
  BY <1>0 DEF SiteTyped, Sites!Toggled
<1>2. Saved
  BY <1>0, <1>1 DEF SiteTyped, Saved
<1>3. told \subseteq told' /\ told' \subseteq SitePaths
  BY <1>0 DEF SiteTyped, Sites!Advised
<1>4. SiteTyped'
  BY <1>0, <1>2, <1>3, SavedTyped DEF SiteTyped
<1>5. Listed(disk)'
  BY <1>0, <1>2, ListedKept DEF Resting
<1>6. Sites!Owned(config)' = Sites!Owned(config)
  BY <1>1, OwnedStays
<1>7. OwnedListed'
  BY <1>0, <1>1, <1>3, <1>6 DEF Resting, OwnedListed
<1>8. InFront'
  BY <1>0, <1>1, <1>3, <1>6 DEF Resting, InFront
<1>9. Sites!LeftAsItWas'
  BY DEF Sites!LeftAsItWas
<1>10. Sites!OneBlockPerName'
  BY <1>0, <1>1, <1>3 DEF Resting, Sites!OneBlockPerName
<1>11. Sites!ForwardedOrTold'
  <2> SUFFICES ASSUME config.frontend # "builtin", NEW r \in config'.routes, r \notin told'
               PROVE  \/ \E s \in serving[config.frontend] : s.domain = config.domain /\ r \in s.routes
                      \/ \E p \in manifest.files \ Sites!Owned(config) : r \in disk[p].routes
    BY <1>1, <1>6 DEF Sites!ForwardedOrTold
  <2>1. CASE r \in config.routes
    <3>1. r \notin told
      BY <1>3
    <3> QED BY <1>0, <2>1, <3>1 DEF Resting, Sites!ForwardedOrTold
  <2>2. CASE r \notin config.routes
    <3>1. r = route /\ on
      BY <1>1, <2>2
    <3>2. Sites!VhostForwards(r)
      BY <2>2, <3>1 DEF Sites!Advised
    <3>3. PICK p \in manifest.files : disk[p].is = "site" /\ r \in disk[p].routes
      BY <3>2 DEF Sites!VhostForwards
    <3>4. CASE p \in Sites!Owned(config)
      <4>1. told # SitePaths
        BY <1>3, <3>1
      <4>2. [domain |-> config.domain, routes |-> disk[p].routes] \in serving[config.frontend]
        BY <1>0, <3>3, <3>4, <4>1 DEF Resting, InFront
      <4> QED BY <3>3, <4>2
    <3>5. CASE p \notin Sites!Owned(config)
      BY <3>3, <3>5
    <3> QED BY <3>4, <3>5
  <2> QED BY <2>1, <2>2
<1> QED BY <1>4, <1>5, <1>7, <1>8, <1>9, <1>10, <1>11 DEF SiteInv, Resting

LEMMA SetKeeps ==
  ASSUME SiteInv, NEW on \in BOOLEAN, NEW vhost \in BOOLEAN,
         Sites!PanelChange(on, vhost) \/ Sites!SubChange(on, vhost)
  PROVE  SiteInv'
<1>1. PICK route \in SitePaths :
        /\ job.at = "idle" /\ config' = Sites!Toggled(route, on) /\ before' = disk
        /\ UNCHANGED <<installed, layout, certs, disk, serving, manifest, killed>>
        /\ \/ Sites!Run(Sites!Install(config')) /\ told' = told /\ config.frontend # "builtin"
           \/ /\ job' = job
              /\ \/ told' = Sites!Advised(route, on)
                 \/ told' = told /\ route \in config.routes
  <2>1. CASE Sites!PanelChange(on, vhost)
    BY <2>1 DEF Sites!PanelChange, Sites!Idle, Sites!Save, Sites!settled
  <2>2. CASE Sites!SubChange(on, vhost)
    <3>1. "sub" \in SitePaths
      BY SafetyAssumption DEF Sites!Valid
    <3> QED BY <2>2, <3>1 DEF Sites!SubChange, Sites!Idle, Sites!Save, Sites!settled
  <2> QED BY <2>1, <2>2
<1>2. CASE job' = job /\ (told' = Sites!Advised(route, on) \/ (told' = told /\ route \in config.routes))
  BY <1>1, <1>2, SwitchKeeps
<1>3. CASE Sites!Run(Sites!Install(config')) /\ told' = told /\ config.frontend # "builtin"
  <2>1. SiteTyped /\ Resting
    BY <1>1 DEF SiteInv
  <2>2. config'.frontend = config.frontend /\ config'.domain = config.domain
        /\ config'.routes \subseteq SitePaths /\ DOMAIN config' = {"frontend", "domain", "routes"}
    BY <1>1, <2>1 DEF SiteTyped, Sites!Toggled
  <2>3. Saved
    BY <1>1, <2>1, <2>2 DEF SiteTyped, Saved
  <2> QED BY <1>3, <2>1, <2>2, <2>3, StartKeeps DEF Resting
<1> QED BY <1>1, <1>2, <1>3

LEMMA SiteInvStep ==
  ASSUME SiteInv, [PartsNext]_partsVars
  PROVE  SiteInv'
<1>1. CASE Sites!Next
  <2>1. ASSUME NEW d \in Domains, NEW kind \in Sites!ChooseFrontend, Sites!Issue(d, kind)
        PROVE  SiteInv'
    BY <2>1, IssueKeeps
  <2>2. ASSUME NEW on \in BOOLEAN, NEW vhost \in BOOLEAN, Sites!PanelChange(on, vhost) \/ Sites!SubChange(on, vhost)
        PROVE  SiteInv'
    BY <2>2, SetKeeps
  <2> QED BY <1>1, <2>1, <2>2, WriteSiteKeeps, WriteBreaksKeeps, SymlinkKeeps, RemoveKeeps, A2ensiteKeeps,
             ImportKeeps, TestKeeps, ReloadKeeps, StepFailsKeeps, RollbackKeeps, RecordKeeps, KilledKeeps,
             UninstallKeeps DEF Sites!Next
<1>2. CASE UNCHANGED web
  <2>1. UNCHANGED <<installed, layout, config, certs, disk, serving, manifest, job, told, before, killed>>
    BY <1>2 DEF web
  <2>2. SiteTyped' /\ (job.at # "idle" => Working')
    BY <2>1 DEF SiteInv, SiteTyped, Linked, Working, Listed, Named, Restorable, Olds
  <2>3. job.at = "run" => Running'
    <3> SUFFICES ASSUME Running
                 PROVE  Running'
      BY DEF SiteInv
    <3>1. Plan(config)' = Plan(config) /\ Writes(config)' = Writes(config) /\ Remaining(job.ops)' = Remaining(job.ops)
      BY <2>1 DEF Plan, Writes, Remaining
    <3>2. Sites!Text(config)' = Sites!Text(config) /\ Sites!Effective(config.frontend, disk)' = Sites!Effective(config.frontend, disk)
      BY <2>1, SameText, SameEffective
    <3>3. \A o : (Untouched(o.place)' <=> Untouched(o.place)) /\ (Did(o)' <=> Did(o))
      BY <2>1, <3>2 DEF Untouched, Did
    <3>4. Ordered(job.ops, Plan(config))'
      BY <2>1, <3>1 DEF Running
    <3>5. Accounted'
      BY <2>1 DEF Running, Accounted, Named
    <3> QED BY <2>1, <3>1, <3>2, <3>3, <3>4, <3>5 DEF Running
  <2>4. job.at = "idle" => Resting'
    <3> SUFFICES ASSUME Resting
                 PROVE  Resting'
      BY DEF SiteInv
    <3>1. Sites!Owned(config)' = Sites!Owned(config)
      BY <2>1, OwnedStays
    <3>2. Listed(disk)' /\ OwnedListed' /\ InFront'
      BY <2>1, <3>1 DEF Resting, Listed, Named, OwnedListed, InFront
    <3>3. Sites!LeftAsItWas' /\ Sites!OneBlockPerName' /\ Sites!ForwardedOrTold'
      BY <2>1, <3>1 DEF Resting, Sites!LeftAsItWas, Sites!OneBlockPerName, Sites!ForwardedOrTold
    <3> QED BY <3>2, <3>3 DEF Resting
  <2> QED BY <2>1, <2>2, <2>3, <2>4 DEF SiteInv
<1> QED BY <1>1, <1>2 DEF PartsNext, partsVars

LEMMA SiteInvSound ==
  ASSUME SiteInv
  PROVE  SiteSound
<1>1. Sites!NothingForgotten
  <2> SUFFICES ASSUME job.at = "idle", NEW p \in Sites!Places, OursIs(disk[p])
               PROVE  \/ p \in manifest.files
                      \/ p[2] = "import" /\ (manifest.import \/ killed)
                      \/ p[2] = "a2" /\ (killed \/ manifest.site = p[1] \/ certs # {p[1]})
                      \/ killed /\ ~(told = {} /\ manifest.kind = config.frontend /\ p \in Sites!Owned(config))
    BY DEF Sites!NothingForgotten, Sites!Ours, OursIs
  <2>1. Resting
    BY DEF SiteInv
  <2>2. CASE killed
    BY <2>1, <2>2 DEF Resting, OwnedListed
  <2>3. CASE ~killed
    <3>1. Named(p)
      BY <2>1, <2>3 DEF Resting, Listed
    <3> QED BY <3>1, Zenon DEF Named
  <2> QED BY <2>2, <2>3
<1>2. Sites!LeftAsItWas /\ Sites!OneBlockPerName /\ Sites!ForwardedOrTold
  BY DEF SiteInv, Resting, Running, Working, Sites!LeftAsItWas, Sites!OneBlockPerName, Sites!ForwardedOrTold
<1> QED BY <1>1, <1>2 DEF SiteSound, Sites!SiteSound

(* Whatever web servers a machine has, whatever earlier versions left there,  *)
(* and whichever commands follow, each failing or killed at any step: a       *)
(* command that fails leaves every file as it was but an apache site          *)
(* disabled, everything OSTP added is in the manifest unless a command was    *)
(* killed, an install of nginx leaves one site of a name, and a path of the   *)
(* configuration is forwarded, told of, or in a site that stayed behind       *)
(* (webserver.rs, cert_cmd.rs, panel_cmd.rs, sub_cmd.rs).                     *)
THEOREM SitesAreSound == PartsSpec => []SiteSound
<1>1. PartsInit => SiteInv
  BY SiteInvInit DEF PartsInit
<1>2. SiteInv /\ [PartsNext]_partsVars => SiteInv'
  BY SiteInvStep
<1>3. SiteInv => SiteSound
  BY SiteInvSound
<1> QED BY <1>1, <1>2, <1>3, PTL DEF PartsSpec
================================================================================
