------------------------------- MODULE MCSafety --------------------------------
(* Parts of which only safety is asked, side by side: every behaviour is one  *)
(* of one part, chosen in the initial state.                                  *)
EXTENDS Streams, SafetyParts

VARIABLE part

Cut(off, len, more) == [off |-> off, len |-> len, more |-> more]

Cuts ==
  {{Cut(0, 1, TRUE), Cut(1, 1, TRUE), Cut(2, 1, FALSE)}, {Cut(0, 2, TRUE), Cut(1, 2, FALSE)},
   {Cut(0, 2, TRUE), Cut(2, 2, FALSE)}}

Addr(id, family) == [id |-> id, family |-> family]
Names == {<<Addr(1, 6), Addr(2, 4)>>, <<Addr(1, 4), Addr(2, 4)>>}

Computers == {{"nginx"}, {"apache"}, {"nginx", "caddy"}}

OldFile(mode, names, tagged, old, nulls, stamp) ==
  [is |-> "file", mode |-> mode, tagged |-> tagged, stamp |-> stamp, keys |-> names, modular |-> FALSE,
   servers |-> <<>>, default |-> "none", group |-> "none", old |-> old, nulls |-> nulls, tls |-> FALSE, sub |-> FALSE]
Modular(servers, default, group) ==
  [OldFile("client", {}, FALSE, FALSE, TRUE, 0) EXCEPT !.modular = TRUE, !.servers = servers, !.default = default, !.group = group]
Old == {Modular(<<"a", "b">>, "group", "b"), Modular(<<"a", "b">>, "none", "none"), Modular(<<>>, "none", "none"),
        OldFile("client", {"a"}, TRUE, TRUE, FALSE, 0), OldFile("relay", {}, FALSE, TRUE, FALSE, 0),
        OldFile("server", {"a"}, FALSE, FALSE, TRUE, 0), OldFile("server", {"a"}, TRUE, FALSE, FALSE, 3)}

Section(f, ws, domain, sub, path, webpath, panel, signin, decoy) ==
  [tls |-> TRUE, frontend |-> f[1], ws |-> ws, cert |-> f[2], domain |-> domain, files |-> TRUE, sub |-> sub, path |-> path,
   include |-> {"tls", "udp"}, webpath |-> webpath, api |-> panel, credentials |-> signin, bind |-> "api", fallback |-> decoy]
Fronts == {<<"builtin", "acme">>, <<"builtin", "manual">>, <<"nginx", "acme">>, <<"caddy", "acme">>}
Plain == Section(<<"builtin", "none">>, <<"ws">>, TRUE, FALSE, <<"sub">>, <<>>, FALSE, FALSE, "off")
ServerSections ==
  {Section(f, ws, TRUE, TRUE, p, wp, TRUE, TRUE, fb) :
     f \in Fronts, ws \in {<<"ws">>, <<"panel", "w">>, <<"sub", "w">>, <<".well-known", "w">>},
     p \in {<<"sub">>, <<"panel", "s">>, <<"m">>, <<".well-known">>}, wp \in {<<>>, <<"m">>, <<"sub", "q">>},
     fb \in {"off", "443", "8443"}}
  \cup {[Section(f, <<"ws">>, d, s, <<"sub">>, <<>>, a, c, "off") EXCEPT !.files = fi, !.tls = t, !.bind = b] :
     f \in Fronts \cup {<<"builtin", "none">>}, d \in BOOLEAN, s \in BOOLEAN, a \in BOOLEAN, c \in BOOLEAN,
     fi \in BOOLEAN, t \in BOOLEAN, b \in {"api", "443"}}

Choice(enabled, lists, rules, services, rewritten) ==
  [enabled |-> enabled, intercept |-> ~enabled, lists |-> lists, rules |-> rules, services |-> services,
   rewrites |-> rewritten, cache_size |-> 1]

DnsOff == Choice(FALSE, FALSE, {}, {}, {})
DnsWithLists == Choice(TRUE, TRUE, {}, {}, {"nas.ostp"})
DnsWithRules == Choice(TRUE, FALSE, {"ads"}, {"nas.ostp"}, {})

CnameOfAds == [n \in {"cdn", "ads", "nas.ostp"} |-> IF n = "cdn" THEN {"ads"} ELSE {}]
DnsChoices == {DnsOff, DnsWithLists, DnsWithRules}
Downloads == {{}, {"ads"}}

Outbound(enabled, protocol, rules, default) ==
  [enabled |-> enabled, protocol |-> protocol, rules |-> rules, default |-> default]
Rule(protocol, domains, cidrs, action) ==
  [protocol |-> protocol, domains |-> domains, cidrs |-> cidrs, action |-> action]
Address(family, reply) == [family |-> family, answers |-> reply]

Routes ==
  {Outbound(FALSE, "socks5", <<>>, "proxy"),
   Outbound(TRUE, "socks5", <<Rule("any", {"site"}, {}, "direct"), Rule("any", {}, {}, "proxy")>>, "direct"),
   Outbound(TRUE, "http", <<Rule("udp", {}, {"1.2.3.4"}, "block"), Rule("any", {}, {"1.2.3.4"}, "direct")>>, "proxy"),
   Outbound(TRUE, "SOCKS5", <<>>, "proxy")}
Resolutions ==
  {<<Address(6, "never"), Address(6, "never"), Address(6, "never"), Address(6, "never"), Address(4, "yes")>>,
   <<Address(6, "yes"), Address(4, "no")>>, <<Address(4, "never"), Address(4, "yes")>>, <<Address(6, "never")>>}

safetyVars == <<part, vars, partsVars>>

Parts == {"streams", "fragments", "handshake", "traffic", "web server", "config", "frontends",
  "dns", "dns activity", "egress", "congestion"}

(* A part that does not run stays in one initial state of its own; what can   *)
(* be fixed before the parts begin is.                                        *)
SafetyInit ==
  /\ part \in Parts
  /\ Init
  /\ list_file = {} /\ fresh = FALSE /\ settings = DnsWithLists
  /\ part # "handshake" =>
       transport = "udp"
  /\ part # "egress" =>
       outbound \in {o \in Routes : o.protocol = "http"}
  /\ part # "frontends" =>
       cfg = Plain
  /\ part # "config" =>
       config_file = Modular(<<"a", "b">>, "group", "b")
  /\ part # "web server" =>
       installed = {"apache"} /\ layout = "sites"
  /\ PartsInit
  /\ part # "fragments" =>
       \A k \in {"k", "l"} : sending[k].layout = {Cut(0, 2, TRUE), Cut(1, 2, FALSE)}
  /\ part # "frontends" =>
       cert = "none" /\ held["443"] = "free" /\ held["80"] = "free"

SafetyNext ==
  /\ UNCHANGED part
  /\ \/ /\ part = "streams" /\ Next /\ UNCHANGED partsVars
     \/ /\ part = "fragments" /\ Fragments!Next
        /\ UNCHANGED <<vars, handshake, congestion, traffic, exitVars, frontends, configFiles, web>>
     \/ /\ part = "handshake" /\ Hs!Next
        /\ UNCHANGED <<vars, reassembly, congestion, traffic, exitVars, frontends, configFiles, web>>
     \/ /\ part = "congestion" /\ Cc!Next
        /\ UNCHANGED <<vars, reassembly, handshake, traffic, exitVars, frontends, configFiles, web>>
     \/ /\ part = "traffic" /\ Bytes!Next
        /\ UNCHANGED <<vars, reassembly, handshake, congestion, exitVars, frontends, configFiles, web>>
     \/ /\ part = "frontends" /\ Fronting!Next
        /\ UNCHANGED <<vars, reassembly, handshake, congestion, traffic, exitVars, configFiles, web>>
     \/ /\ UNCHANGED <<vars, reassembly, handshake, congestion, traffic, frontends, configFiles, web>>
        /\ \/ /\ part = "dns" /\ Resolver!Next
              /\ UNCHANGED <<activityVars, egressVars>>
           \/ /\ part = "dns activity" /\ Activity!Next
              /\ UNCHANGED <<resolverVars, egressVars>>
           \/ /\ part = "egress" /\ Out!Next
              /\ UNCHANGED <<resolverVars, activityVars>>
     \/ /\ part = "config" /\ Store!Next
        /\ UNCHANGED <<vars, reassembly, handshake, congestion, traffic, exitVars, frontends, web>>
     \/ /\ part = "web server" /\ Sites!Next
        /\ UNCHANGED <<vars, reassembly, handshake, congestion, traffic, exitVars, frontends, configFiles>>

SafetySpec == SafetyInit /\ [][SafetyNext]_safetyVars
================================================================================
