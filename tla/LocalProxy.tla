------------------------------ MODULE LocalProxy -------------------------------
(* One connection of a local application to the SOCKS5/HTTP proxy, from its   *)
(* first byte to its end: handle_proxy_client, handle_udp_associate and the   *)
(* direct connections of ostp-client/src/tunnel/proxy.rs.  (Streams has what  *)
(* the connections, the bridge and the server do together.)  The application  *)
(* writes tokens, which TCP may hand over one by one or together; a read of   *)
(* an HTTP header takes as many as there are, or fewer.                       *)
EXTENDS Naturals, Sequences, Functions

CONSTANTS
  Scripts,     \* what an application may want: see Script
  HeaderMax,   \* bound: tokens of a header, 8192 bytes in the code
  Datagrams    \* bound: datagrams of an association

(* lang: socks or http.  want: connect, udp or another command for SOCKS5;    *)
(* CONNECT, GET or nonsense for HTTP.  place: where the target lies for the   *)
(* exclusions: in, out, or nowhere (an address type the proxy does not know). *)
Script(lang, want, place, words, after) ==
  [lang |-> lang, want |-> want, place |-> place, words |-> words, after |-> after]

VARIABLES
  script,     \* what this application wants
  said,       \* how many of its words it has written
  inbox,      \* words the proxy has not read
  entry,      \* the task: [at, header, direct, excluded]
  heard,      \* answers written to the application
  tunnel,     \* events sent to the bridge
  remote,     \* words written to the target of a direct connection
  connect,    \* what became of the connect: none, pending, ok, refused, lost
  readers,    \* direct UDP sockets with a reader: families
  sent        \* datagrams so far

(* A SOCKS5 application writes a greeting and a request; one that speaks HTTP  *)
(* a header, which ends with an empty line and, unless a body may follow, has  *)
(* no other, and names a place there is.                                      *)
HeaderOver(words) == words[Len(words)] \in {"blank", "last_chunk"}
Valid ==
  /\ HeaderMax \in Nat /\ Datagrams \in Nat
  /\ \A s \in Scripts :
       /\ s = Script(s.lang, s.want, s.place, s.words, s.after)
       /\ s.words \in Seq(STRING) /\ s.after \in Seq(STRING) /\ Len(s.words) >= 2
       /\ s.place \in {"in", "out", "nowhere"}
       /\ IF s.words[1] = "hello"
            THEN s.lang = "socks" /\ s.want \notin {"GET", "nonsense"} /\ Len(s.words) = 2
            ELSE /\ s.lang = "http" /\ s.want \notin {"connect", "udp"} /\ s.place # "nowhere"
                 /\ s.want # "GET" => \A n \in 1..Len(s.words) :
                                       HeaderOver(SubSeq(s.words, 1, n)) => n = Len(s.words)

localProxy == <<script, said, inbox, entry, heard, tunnel, remote, connect, readers, sent>>

Init ==
  /\ script \in Scripts
  /\ said = 0 /\ inbox = <<>>
  /\ \E excluded \in BOOLEAN :
       entry = [at |-> "first", header |-> <<>>, direct |-> excluded, excluded |-> excluded]
  /\ heard = <<>> /\ tunnel = <<>> /\ remote = <<>>
  /\ connect = "none" /\ readers = {} /\ sent = 0

(* What leaves the proxy that is not a word of the application, and for where. *)
Word(kind, place) == [kind |-> kind, place |-> place]
Payload(text) == [kind |-> "payload", text |-> text]
Payloads(words) == [i \in DOMAIN words |-> Payload(words[i])]
Words == script.words \o script.after
Live == entry.at # "ended"

--------------------------------------------------------------------------------
(* The application.  One that asked for a tunnel waits for the answer, one    *)
(* that asked for a page does not.                                            *)
Says ==
  /\ Live /\ said < Len(Words)
  /\ said < Len(script.words) \/ script.want = "GET" \/ "ok" \in Range(heard)
  /\ said' = said + 1
  /\ inbox' = Append(inbox, Words[said'])
  /\ UNCHANGED <<script, entry, heard, tunnel, remote, connect, readers, sent>>

Ends(answers) ==
  /\ entry' = [entry EXCEPT !.at = "ended"]
  /\ heard' = heard \o answers

(* It goes away, or stops in the middle of a word.                            *)
Leaves ==
  /\ entry.at \in {"first", "greeting", "request", "header"}
  /\ Ends(<<>>)
  /\ UNCHANGED <<script, said, inbox, tunnel, remote, connect, readers, sent>>

--------------------------------------------------------------------------------
(* The request.                                                               *)

First ==
  /\ entry.at = "first" /\ inbox # <<>>
  /\ entry' = [entry EXCEPT !.at = IF Head(inbox) = "hello" THEN "greeting" ELSE "header"]
  /\ UNCHANGED <<script, said, inbox, heard, tunnel, remote, connect, readers, sent>>

Greeting ==
  /\ entry.at = "greeting"
  /\ inbox' = Tail(inbox)
  /\ entry' = [entry EXCEPT !.at = "request"]
  /\ heard' = Append(heard, "no_authentication")
  /\ UNCHANGED <<script, said, tunnel, remote, connect, readers, sent>>

(* A target of the exclusions goes direct, and everything of an excluded      *)
(* program does.                                                              *)
(* Mutant: the program does not matter.                                       *)
BypassesTarget(place) == place = "out"
Bypasses(place) == entry.excluded \/ place = "out"

(* The bridge is asked, or the target itself.                                 *)
Dial(header) ==
  /\ entry' = [entry EXCEPT !.at = "connecting", !.header = header, !.direct = Bypasses(script.place)]
  /\ connect' = "pending"
  /\ tunnel' = IF Bypasses(script.place) THEN tunnel ELSE Append(tunnel, Word("connect", script.place))
  /\ UNCHANGED heard

Request ==
  /\ entry.at = "request" /\ inbox # <<>>
  /\ inbox' = Tail(inbox)
  /\ \/ /\ script.want \notin {"connect", "udp"}
        /\ Ends(<<"command_not_supported">>) /\ UNCHANGED <<tunnel, connect>>
     \/ /\ script.want \in {"connect", "udp"} /\ script.place = "nowhere"
        /\ Ends(<<"address_not_supported">>) /\ UNCHANGED <<tunnel, connect>>
     \/ /\ script.want = "connect" /\ script.place # "nowhere"
        /\ Dial(<<>>)
     \/ /\ script.want = "udp" /\ script.place # "nowhere"
        /\ entry' = [entry EXCEPT !.at = "association"]
        /\ heard' = Append(heard, "ok")
        /\ tunnel' = Append(tunnel, Word("associate", "any"))
        /\ UNCHANGED connect
  /\ UNCHANGED <<script, said, remote, readers, sent>>

(* The header is over when a read ends with an empty line.                    *)
HeaderRead ==
  /\ entry.at = "header" /\ inbox # <<>>
  /\ \E n \in DOMAIN inbox :
       LET header == entry.header \o SubSeq(inbox, 1, n) IN
       /\ inbox' = SubSeq(inbox, n + 1, Len(inbox))
       /\ \/ /\ HeaderOver(header) /\ script.want # "nonsense"
             /\ Dial(header)
          \/ /\ HeaderOver(header) /\ script.want = "nonsense"
             /\ Ends(<<"400">>) /\ UNCHANGED <<tunnel, connect>>
          \/ /\ ~HeaderOver(header) /\ Len(header) > HeaderMax
             /\ Ends(<<"431">>) /\ UNCHANGED <<tunnel, connect>>
          \/ /\ ~HeaderOver(header) /\ Len(header) <= HeaderMax
             /\ entry' = [entry EXCEPT !.header = header]
             /\ UNCHANGED <<heard, tunnel, connect>>
  /\ UNCHANGED <<script, said, remote, readers, sent>>

--------------------------------------------------------------------------------
(* The connect.                                                               *)

(* What the server or the target says, or that it says nothing in time.       *)
Outcome ==
  /\ entry.at = "connecting" /\ connect = "pending"
  /\ \E o \in {"ok", "refused", "dropped", "timeout"} :
       (entry.direct => o \in {"ok", "refused"}) /\ connect' = o
  /\ UNCHANGED <<script, said, inbox, entry, heard, tunnel, remote, readers, sent>>

Failure ==
  IF entry.direct THEN <<>>    \* the connection is closed without an answer
  ELSE IF script.lang = "socks" THEN <<IF connect = "dropped" THEN "refused" ELSE "unreachable">>
  ELSE <<IF connect = "timeout" THEN "504" ELSE "502">>

(* A page's request goes to the target as the application wrote it; who asked *)
(* for a tunnel is told that it is there.                                     *)
(* Mutant: who asked for a page is told, too.                                 *)
OpeningForAll == <<"ok">>
Opening == IF script.want = "GET" THEN <<>> ELSE <<"ok">>

(* Mutant: the consumed request is lost.                                      *)
NothingFirst == <<>>
Consumed == IF script.want = "GET" THEN entry.header ELSE <<>>

Connected ==
  /\ entry.at = "connecting" /\ connect = "ok"
  /\ entry' = [entry EXCEPT !.at = "open"]
  /\ heard' = heard \o Opening
  /\ tunnel' = IF entry.direct THEN tunnel ELSE tunnel \o Payloads(Consumed)
  /\ remote' = IF entry.direct THEN remote \o Payloads(Consumed) ELSE remote
  /\ UNCHANGED <<script, said, inbox, connect, readers, sent>>

NotConnected ==
  /\ entry.at = "connecting" /\ connect \in {"refused", "dropped", "timeout"}
  /\ Ends(Failure)
  /\ UNCHANGED <<script, said, inbox, tunnel, remote, connect, readers, sent>>

--------------------------------------------------------------------------------
(* The open connection.                                                       *)

Forward ==
  /\ entry.at = "open" /\ inbox # <<>>
  /\ inbox' = <<>>
  /\ tunnel' = IF entry.direct THEN tunnel ELSE tunnel \o Payloads(inbox)
  /\ remote' = IF entry.direct THEN remote \o Payloads(inbox) ELSE remote
  /\ UNCHANGED <<script, said, entry, heard, connect, readers, sent>>

(* The application closes, or its connection breaks.                          *)
Hangup ==
  /\ entry.at = "open"
  /\ Ends(<<>>)
  /\ tunnel' = IF entry.direct THEN tunnel ELSE Append(tunnel, Word("close", "any"))
  /\ UNCHANGED <<script, said, inbox, remote, connect, readers, sent>>

(* The server, the target or the proxy ended it; what was not read is lost.   *)
Closed ==
  /\ entry.at = "open"
  /\ Ends(<<>>)
  /\ UNCHANGED <<script, said, inbox, tunnel, remote, connect, readers, sent>>

--------------------------------------------------------------------------------
(* The association.                                                           *)

(* A datagram for the tunnel, one to a target of the exclusions (whose socket *)
(* is opened with the first of its family), or one that is dropped: too       *)
(* short, a fragment, of an unknown address type, or to a name that does not  *)
(* resolve.                                                                   *)
Datagram ==
  /\ entry.at = "association" /\ sent < Datagrams
  /\ sent' = sent + 1
  /\ \/ /\ \E place \in {"in", "out"}, family \in {4, 6} :
             IF Bypasses(place)
             THEN /\ readers' = readers \cup {family}
                  /\ remote' = Append(remote, Word("datagram", place)) /\ UNCHANGED tunnel
             ELSE /\ tunnel' = Append(tunnel, Word("datagram", place))
                  /\ UNCHANGED <<remote, readers>>
     \/ UNCHANGED <<tunnel, remote, readers>>
  /\ UNCHANGED <<script, said, inbox, entry, heard, connect>>

(* The TCP connection of the association ends, or the stream is closed.       *)
AssociationEnds ==
  /\ entry.at = "association"
  /\ Ends(<<>>)
  /\ UNCHANGED <<script, said, inbox, tunnel, remote, connect, readers, sent>>

(* A reader's cancellation is dropped with the association.                   *)
(* Mutant: it is not.                                                         *)
NeverCancelled == FALSE
Cancelled == ~Live

ReaderEnds(family) ==
  /\ family \in readers /\ Cancelled
  /\ readers' = readers \ {family}
  /\ UNCHANGED <<script, said, inbox, entry, heard, tunnel, remote, connect, sent>>

Task == First \/ Greeting \/ Request \/ HeaderRead \/ Outcome \/ Connected \/ NotConnected
        \/ Forward \/ Hangup \/ Closed
Next ==
  \/ Says \/ Leaves \/ Task \/ Datagram \/ AssociationEnds
  \/ \E family \in {4, 6} : ReaderEnds(family)

Fairness == \A family \in {4, 6} : WF_localProxy(ReaderEnds(family))
Spec == Init /\ [][Next]_localProxy /\ Fairness

--------------------------------------------------------------------------------
TypeOK ==
  /\ entry.at \in {"first", "greeting", "request", "header", "connecting", "open", "association",
                  "ended"}
  /\ said \in 0..Len(Words) /\ sent \in 0..Datagrams
  /\ readers \subseteq {4, 6}

(* However TCP cuts it, what reaches the other end is what the application    *)
(* wrote for it, in order and from its first word: after the request of one   *)
(* that asked for a tunnel, with the request of one that asked for a page.    *)
(* It goes out directly, or through the bridge between the one connect and    *)
(* the one close.                                                             *)
Wanted == IF script.want = "GET" THEN Words ELSE script.after
InOrder ==
  script.want # "udp" =>
    \E n \in 0..Len(Wanted) :
      LET text == Payloads(SubSeq(Wanted, 1, n))
          opened == <<Word("connect", script.place)>> \o text
      IN \/ tunnel = <<>> /\ remote = text
         \/ tunnel \in {opened, Append(opened, Word("close", "any"))} /\ remote = <<>>

(* An excluded program sends nothing into the tunnel, not even a name, and    *)
(* nobody else's traffic leaves beside it unless its target is excluded.      *)
OneWay ==
  /\ \A i \in DOMAIN tunnel : tunnel[i].kind \in {"connect", "datagram"} =>
       ~entry.excluded /\ tunnel[i].place = "in"
  /\ \A i \in DOMAIN remote : remote[i].kind = "datagram" => entry.excluded \/ remote[i].place = "out"
  /\ \A i \in DOMAIN remote : remote[i].kind = "payload" => entry.excluded \/ script.place = "out"

(* The application hears one answer at most, a success only of a connection   *)
(* that stands, and one that asked for a page hears no success but the page.  *)
Truthful ==
  /\ \A i, j \in DOMAIN heard : i # j => "no_authentication" \in {heard[i], heard[j]}
  /\ "ok" \in Range(heard) => connect = "ok" \/ script.want = "udp"
  /\ script.want = "GET" => "ok" \notin Range(heard)

(* The direct sockets of an association that ended do not stay.               *)
ReadersEnd == ~Live ~> readers = {}

(* A local connection goes one way, in order, and hears the truth about it.   *)
ProxySound == InOrder /\ OneWay /\ Truthful
================================================================================
