------------------------------- MODULE MCClient --------------------------------
(* The parts of the client that share no state, side by side: every behaviour *)
(* is one of one part, chosen in the initial state.                           *)
EXTENDS ClientParts

VARIABLES part,
  window, calls, lock, answers, held, kind, client, loops, port, connection, helper, wire,
  ticker, shown

Exclude(ips, names, programs) == [ips |-> ips, names |-> names, programs |-> programs]

Exclusions == {Exclude({}, {}, {}), Exclude({"x"}, {"y"}, {}), Exclude({}, {}, {"p"})}

Way(via, metric) == [dest |-> "default", via |-> via, metric |-> metric]

Routings == {{Way("gw", 0)}, {Way("gw", 100), Way("gw2", 600)}}

Gui == INSTANCE Desktop WITH
  Tunnels <- {1}

(* What local applications want of the proxy.                                 *)
Script(lang, want, place, words, after) ==
  [lang |-> lang, want |-> want, place |-> place, words |-> words, after |-> after]
Socks == {Script("socks", want, place, <<"hello", "request">>, <<"early", "late">>) :
            want \in {"connect", "udp", "bind"}, place \in {"in", "out", "nowhere"}}
Http == {Script("http", "CONNECT", place, <<"line", "blank">>, <<"a", "b">>) : place \in {"in", "out"}}
        \cup {Script("http", "nonsense", "in", <<"line", "blank">>, <<>>)}
        \cup {Script("http", "GET", "out", <<"line", "field", "blank">>, <<"body", "last_chunk">>)}
Page == Script("http", "GET", "in", <<"line", "field", "blank">>, <<"body", "last_chunk">>)

Wishes == Socks \cup Http \cup {Page}

desktop == <<window, calls, lock, answers, held, kind, client, loops, port, connection, helper,
  wire, ticker, shown>>
vars == <<part, tunFlows, clientRuns, desktop, localProxy>>

Parts == {"udp flows", "tcp flows", "runs", "desktop", "local proxy"}

(* A part that does not run stays in one initial state of its own.            *)
Init ==
  /\ part \in Parts
  /\ PartsInit
  /\ part \notin {"udp flows", "tcp flows"} =>
       owner = [s |-> "p", c |-> "p"] /\ target = [c |-> "x"] /\ matcher = Exclude({}, {}, {})
  /\ part # "runs" =>
       setup = [platform |-> "linux", kill_switch |-> FALSE, defaults |-> {Way("gw", 0)}]
  /\ Gui!Init
  /\ part # "local proxy" =>
       script = Page /\ ~entry.excluded

Next ==
  /\ UNCHANGED part
  /\ \/ /\ part = "udp flows" /\ Flows!UdpNext
        /\ UNCHANGED <<clientRuns, desktop, localProxy>>
     \/ /\ part = "tcp flows" /\ Flows!TcpNext
        /\ UNCHANGED <<clientRuns, desktop, localProxy>>
     \/ /\ part = "runs" /\ Runs!Next
        /\ UNCHANGED <<tunFlows, desktop, localProxy>>
     \/ /\ part = "desktop" /\ Gui!Next
        /\ UNCHANGED <<tunFlows, clientRuns, localProxy>>
     \/ /\ part = "local proxy" /\ Lp!Next
        /\ UNCHANGED <<tunFlows, clientRuns, desktop>>

(* The fairness of each part, in the behaviours where it runs.                *)
Fairness ==
  /\ WF_tunFlows(part = "udp flows" /\ Flows!Idle("s"))
  /\ WF_tunFlows(part = "udp flows" /\ Flows!Sends("s"))
  /\ WF_tunFlows(part = "udp flows" /\ Flows!Opened("s"))
  /\ WF_clientRuns(part = "runs" /\ Runs!Core)
  /\ \A r \in 1..2 : /\ WF_clientRuns(part = "runs" /\ Runs!Tun(r))
                   /\ WF_clientRuns(part = "runs" /\ Runs!TaskEnds(r, "bridge"))
                   /\ WF_clientRuns(part = "runs" /\ Runs!TaskEnds(r, "proxy"))
  /\ WF_desktop(part = "desktop" /\ Gui!Command)
  /\ SF_desktop(part = "desktop" /\ Gui!Status)
  /\ SF_desktop(part = "desktop" /\ Gui!Take("start"))
  /\ SF_desktop(part = "desktop" /\ Gui!Take("stop"))
  /\ WF_desktop(part = "desktop" /\ Gui!Poll)
  /\ WF_desktop(part = "desktop" /\ \E a \in answers : Gui!Started(a) \/ Gui!Polled(a))
  /\ WF_desktop(part = "desktop" /\ Gui!Runs(1))
  /\ WF_desktop(part = "desktop" /\ Gui!Core(1))
  /\ WF_desktop(part = "desktop" /\ Gui!Unclaimed(1))
  /\ WF_desktop(part = "desktop" /\ Gui!Reads(1))
  /\ WF_desktop(part = "desktop" /\ Gui!Tick(1))
  /\ WF_desktop(part = "desktop" /\ Gui!Leaves(1))
  /\ \A family \in {4, 6} : WF_localProxy(part = "local proxy" /\ Lp!ReaderEnds(family))

Spec == Init /\ [][Next]_vars /\ Fairness

(* TunFlows, LocalProxy: an idle session of the tunnel ends, and so do the    *)
(* direct sockets of an association.                                          *)
IdleEnds ==
  /\ part \in {"udp flows", "tcp flows"} => Flows!ProxiedSessionsEnd
  /\ part = "local proxy" => Lp!ReadersEnd

(* ClientRuns: runs follow each other until a shutdown.                       *)
RunsGoOn == part = "runs" => Runs!RunsGoOn

(* Desktop: nothing of a tunnel that is over stays.                           *)
DesktopSettles == part = "desktop" => Gui!DesktopSettles
================================================================================
