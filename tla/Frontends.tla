------------------------------- MODULE Frontends -------------------------------
(* From config.json to an answer: what of a server section is accepted        *)
(* (ostp-client/src/config.rs), which listeners a start binds and with what   *)
(* context (ostp/src/main.rs, ostp-server/src/lib.rs), which links are handed *)
(* out, and which service answers a request (transport/sniff.rs, tls/,        *)
(* subscription.rs).                                                          *)
(*                                                                            *)
(* A URL path is a sequence of segments.  443 is the public port.             *)
EXTENDS Sequences, SequencesExt

CONSTANT Configs    \* server sections: [tls, frontend, ws, cert, domain, files, sub, path,
                    \* include, webpath, api, credentials, bind, fallback]

(* A listener that serves the challenges has its port for itself.             *)
Valid ==
  \A c \in Configs :
    /\ {c.tls, c.domain, c.files, c.sub, c.api, c.credentials} \subseteq BOOLEAN
    /\ c.frontend \in {"builtin", "nginx", "apache", "caddy"} /\ c.cert \in {"none", "acme", "manual"}
    /\ {c.ws, c.path, c.webpath} \subseteq Seq(STRING)
    /\ c.bind \in {"api", "listen", "443", "8443"} /\ c.fallback \in {"off", "listen", "443", "8443"}

VARIABLES
  cfg,        \* the section the start reads
  phase,      \* "new", "refused", "starting" or "up"
  cert,       \* the pair on disk: "none", "placeholder", "issued"
  acceptor,   \* whether this process ends TLS
  held,       \* address -> what listens there: "free", "other", "web server" or ours
  queue,      \* listeners the server loop still has to bind: <<address, context>>
  api,        \* "off", "spawned" or "listening"
  renewing    \* the renewal task runs

frontends == <<cfg, phase, cert, acceptor, held, queue, api, renewing>>

Builtin == cfg.frontend = "builtin"
Addresses == {"listen", "443", "80", "8443", "responder", "api"}

(* A certificate may be there; 443 and 80 may be taken, and a web server that *)
(* fronts OSTP has both.                                                      *)
Init ==
  /\ cfg \in Configs /\ phase = "new"
  /\ cert \in IF cfg.cert = "none" THEN {"none"} ELSE {"none", "issued"}
  /\ acceptor = FALSE
  /\ \E taken \in SUBSET {"443", "80"} :
       held = [a \in Addresses |->
                 IF a \in {"443", "80"} /\ ~Builtin THEN "web server"
                 ELSE IF a \in taken THEN "other" ELSE "free"]
  /\ queue = <<>> /\ api = "off" /\ renewing = FALSE

--------------------------------------------------------------------------------
(* Validation.                                                                *)

Panel == IF cfg.webpath = <<>> THEN <<"panel">> ELSE cfg.webpath
Under(path, prefix) == IsStrictPrefix(prefix, path)

CertSource == IF cfg.frontend = "caddy" THEN "none" ELSE cfg.cert

(* Mutant: what an ACME certificate is for is not asked.                      *)
NoName == TRUE
NeedsDomain == cfg.domain
TlsValid ==
  cfg.tls =>
    /\ cfg.ws # <<>>
    /\ ~Under(cfg.ws, <<".well-known">>)
    /\ cfg.ws # Panel /\ ~Under(cfg.ws, Panel)
    /\ CASE CertSource = "acme" -> NeedsDomain
         [] CertSource = "manual" -> cfg.files
         [] CertSource = "none" -> TRUE

(* Mutant: only the same path is in the way.                                  *)
SamePath(p, other) == other = p
Overlaps(p, other) == other = p \/ Under(other, p) \/ Under(p, other)
SubscriptionValid ==
  cfg.sub =>
    /\ cfg.tls /\ cfg.domain
    /\ ~IsPrefix(<<".well-known">>, cfg.path)
    /\ \A other \in {cfg.ws, Panel} : ~Overlaps(cfg.path, other)
    /\ cfg.include # {}

(* The listen address of an enabled fallback is one more listener.            *)
FallbackListens == cfg.fallback \notin {"off", "listen"}
TcpListen == <<"listen">> \o (IF FallbackListens THEN <<cfg.fallback>> ELSE <<>>)

--------------------------------------------------------------------------------
(* The start.                                                                 *)

Acme == cfg.tls /\ CertSource = "acme"
(* The link over TLS, and the upgrade path that a web server needs.           *)
(* Mutant: no path.                                                           *)
LinkWithoutPath == <<>>
LinkPath == IF Builtin THEN <<>> ELSE cfg.ws
TlsLink == IF cfg.tls /\ cfg.domain THEN {[kind |-> "tls", path |-> LinkPath]} ELSE {}
Serves == cfg.sub /\ TlsLink # {}

(* A pair of certificate files, which may not load, or for ACME a placeholder *)
(* that may not be writable.                                                  *)
PrepareTls ==
  IF ~cfg.tls \/ CertSource = "none" THEN {<<cert, FALSE>>}
  ELSE IF cert # "none" THEN {<<cert, TRUE>>, <<cert, FALSE>>}
  ELSE IF CertSource = "manual" THEN {<<cert, FALSE>>}
  ELSE {<<"placeholder", TRUE>>, <<"none", FALSE>>}

(* Mutant: challenges are answered where OSTP has port 80.                    *)
ResponderOnBuiltin == Acme /\ Builtin
Responder == Acme /\ ~Builtin

Listeners(ends) ==
  [i \in DOMAIN TcpListen |-> <<TcpListen[i], "sniff">>]
  \o (IF cfg.tls /\ Builtin /\ ends THEN <<<<"443", "https">>>> ELSE <<>>)
  \o (IF cfg.tls /\ Builtin /\ cfg.domain THEN <<<<"80", "http">>>> ELSE <<>>)
  \o (IF Responder THEN <<<<"responder", "responder">>>> ELSE <<>>)

Refuse ==
  /\ phase = "new" /\ ~(TlsValid /\ SubscriptionValid)
  /\ phase' = "refused"
  /\ UNCHANGED <<cfg, cert, acceptor, held, queue, api, renewing>>

Start ==
  /\ phase = "new" /\ TlsValid /\ SubscriptionValid
  /\ \E prepared \in PrepareTls :
       cert' = prepared[1] /\ acceptor' = prepared[2] /\ queue' = Listeners(prepared[2])
  /\ api' = IF cfg.api THEN "spawned" ELSE "off"
  /\ renewing' = Acme
  /\ phase' = "starting"
  /\ UNCHANGED <<cfg, held>>

Bind ==
  /\ phase = "starting" /\ queue # <<>>
  /\ LET at == queue[1][1]
     IN held' = IF held[at] = "free" THEN [held EXCEPT ![at] = queue[1][2]] ELSE held
  /\ queue' = Tail(queue)
  /\ UNCHANGED <<cfg, phase, cert, acceptor, api, renewing>>

Up ==
  /\ phase = "starting" /\ queue = <<>>
  /\ phase' = "up"
  /\ UNCHANGED <<cfg, cert, acceptor, held, queue, api, renewing>>

(* A task of its own, beside the server loop; its address may be one of       *)
(* those.                                                                     *)
(* Mutant: the panel comes up for anyone who reaches it.                      *)
NoneNeeded == TRUE
HasCredentials == cfg.credentials
StartApi ==
  /\ api = "spawned"
  /\ IF HasCredentials /\ held[cfg.bind] = "free"
     THEN api' = "listening" /\ held' = [held EXCEPT ![cfg.bind] = "api"]
     ELSE api' = "off" /\ UNCHANGED held
  /\ UNCHANGED <<cfg, phase, cert, acceptor, queue, renewing>>

--------------------------------------------------------------------------------
(* Who answers.  A request: from the internet or from this machine, in TLS or *)
(* not, OSTP's own bytes, an upgrade or a page of a path.                     *)

Request(from, tls, kind, path) == [from |-> from, tls |-> tls, kind |-> kind, path |-> path]

Wants(path) == Serves /\ Under(path, cfg.path)
(* Mutant: over plain text too.                                               *)
Anyhow(q, via_tls) == TRUE
Private(q, via_tls) == via_tls \/ q.from = "local"
Matches(path) == IsPrefix(Panel, path)
PanelRoute == cfg.api
UpgradeOf(q) == q.kind = "upgrade" /\ cfg.tls /\ q.path = cfg.ws

Dispatch(q, context, via_tls) ==
  IF q.kind = "ostp" \/ UpgradeOf(q) THEN "session"
  ELSE IF Wants(q.path) /\ Private(q, via_tls) THEN "subscription"
  ELSE IF context = "https" /\ PanelRoute /\ Matches(q.path)
  THEN IF api = "listening" THEN "panel" ELSE "bad gateway"
  ELSE "decoy"

HandleConn(q, context) ==
  IF context = "https" /\ ~q.tls THEN "closed"
  ELSE IF q.tls /\ ~acceptor THEN "decoy"
  ELSE Dispatch(q, context, q.tls)

(* nginx, apache or caddy with the site that `ostp` writes: it ends TLS.      *)
Local(q) == Request("local", FALSE, q.kind, q.path)
WebServer(q) ==
  IF ~q.tls \/ q.kind = "ostp" THEN "other"
  ELSE IF q.path = cfg.ws \/ Wants(q.path) THEN HandleConn(Local(q), held["listen"])
  ELSE IF cfg.api /\ Under(q.path, Panel) /\ api = "listening" THEN "panel" ELSE "other"

At(address, q) ==
  CASE held[address] \in {"sniff", "https"} -> HandleConn(q, held[address])
    [] held[address] = "web server" -> WebServer(q)
    [] held[address] = "http" -> "redirect"
    [] OTHER -> "other"

(* HTTP-01 asks port 80.                                                      *)
ChallengeAnswered ==
  \/ held["80"] = "http"
  \/ held["80"] = "web server" /\ held["responder"] = "responder"

Renewed ==
  /\ renewing /\ cert # "issued" /\ ChallengeAnswered
  /\ cert' = "issued"
  /\ UNCHANGED <<cfg, phase, acceptor, held, queue, api, renewing>>

Next == Refuse \/ Start \/ Bind \/ Up \/ StartApi \/ Renewed

Spec == Init /\ [][Next]_frontends

--------------------------------------------------------------------------------
(* What is handed out: `ostp links`, and the document of a subscription.      *)

ShareLinks ==
  (IF cfg.tls /\ cfg.domain THEN {[kind |-> "tls", path |-> IF Builtin THEN <<>> ELSE cfg.ws]} ELSE {})
  \cup {[kind |-> "udp", path |-> <<>>]}
SubscriptionUrl == IF cfg.sub /\ cfg.tls /\ cfg.domain THEN {cfg.path \o <<"token">>} ELSE {}
Document == {l \in TlsLink \cup {[kind |-> "udp", path |-> <<>>]} : l.kind \in cfg.include}

(* How a client uses a link.                                                  *)
Dial(l) ==
  IF l.path = <<>> THEN Request("internet", TRUE, "ostp", <<>>)
  ELSE Request("internet", TRUE, "upgrade", l.path)

Pages == {p \o <<s>> : p \in {cfg.path, Panel, <<>>}, s \in {"token", "x", "s", "q"}}
Requests ==
  {Request(f, t, k, p) : f \in {"internet"}, t \in BOOLEAN, k \in {"get", "upgrade"}, p \in Pages \cup {cfg.ws, Panel}}

--------------------------------------------------------------------------------
TypeOK ==
  /\ phase \in {"new", "refused", "starting", "up"}
  /\ cert \in {"none", "placeholder", "issued"}
  /\ api \in {"off", "spawned", "listening"}
  /\ \A a \in Addresses :
       held[a] \in {"free", "other", "web server", "sniff", "https", "http", "responder", "api"}

(* 443 leads to this server: it ends TLS there, or a web server in front of a *)
(* listener of this server does.                                              *)
Reachable ==
  /\ phase = "up" /\ cfg.tls
  /\ \/ acceptor /\ held["443"] \in {"sniff", "https"}
     \/ held["443"] = "web server" /\ held["listen"] = "sniff"

(* A link that is handed out leads to a session, a subscription's URL to its  *)
(* document, whatever paths the administrator chose.                          *)
LinksLead ==
  Reachable =>
    /\ \A l \in ShareLinks : l.kind = "tls" => At("443", Dial(l)) = "session"
    /\ \A url \in SubscriptionUrl : At("443", Request("internet", TRUE, "get", url)) = "subscription"

(* Every page of the panel is the panel's, where it is served.                *)
PanelLeads ==
  Reachable /\ api = "listening" /\ held["443"] # "sniff" =>
    \A s \in {"x", "s", "q"} : At("443", Request("internet", TRUE, "get", Panel \o <<s>>)) = "panel"

(* A subscription's token and the panel are never answered in the clear.      *)
NothingInTheClear ==
  phase = "up" =>
    \A a \in Addresses, q \in Requests :
      ~q.tls => At(a, q) \notin {"subscription", "panel", "bad gateway"}

(* A subscription hands out what `ostp links` prints.                         *)
LinksAgree == phase = "up" /\ Serves => Document = {l \in ShareLinks : l.kind \in cfg.include}

(* Where certificates are renewed, the challenge is answered once the         *)
(* listeners are up, unless another program has port 80.                      *)
ChallengesAnswered ==
  phase = "up" /\ renewing /\ held["80"] # "other" => ChallengeAnswered

(* The panel, which controls the server, is never up without a sign-in.       *)
PanelAsksWho == \A a \in Addresses : held[a] = "api" => cfg.credentials

FrontendsSound ==
  LinksLead /\ PanelLeads /\ NothingInTheClear /\ LinksAgree /\ ChallengesAnswered /\ PanelAsksWho
================================================================================
