------------------------------ MODULE UotCarrier -------------------------------
(* One connection that carries datagrams over TCP, plain, in TLS or behind an *)
(* HTTP upgrade: the client's tasks (ostp-client/src/transport/mod.rs, tls.rs)*)
(* and the server's (ostp-server/src/transport/uot.rs), with a TCP that cuts  *)
(* frames anywhere, and a peer that may be a middlebox.                       *)
(*                                                                            *)
(* A frame is two pieces, its length with the head of its data, and the rest; *)
(* the bytes of a middlebox form no frame.                                    *)
EXTENDS Naturals, Sequences

CONSTANTS
  MaxUp, MaxDown    \* bounds: datagrams each way

Valid == MaxUp \in Nat /\ MaxDown \in Nat

VARIABLES
  wrap,       \* "plain", "fragmented", "tls" or "upgrade"
  peer,       \* "server", "page" (a middlebox that answers) or "silent" (one that does not)
  stage,      \* the client: "tls", "upgrading", "junk", "open" or "failed"
  handle,     \* the bridge holds the Transport
  given,      \* datagrams the bridge gave it
  tx_out,     \* the writer's queue
  writer,     \* "idle", "head" (the first frame is cut), or "done"
  reader,     \* "run" or "done"
  acc,        \* pieces the client read
  tx_in,      \* datagrams for the bridge
  got,        \* history: what the bridge received
  note,       \* a foreign answer was reported
  up, down,   \* pieces in the stream, each way
  up_end,     \* the client ended its side
  down_end,   \* the peer ended its side
  server,     \* "none", "run" or "done"
  queue,      \* datagrams the server loop wants to send on this connection
  answered,   \* datagrams it asked for
  rx,         \* pieces the server read
  delivered   \* history: what reached the server loop

clientVars == <<stage, handle, given, tx_out, writer, reader, acc, tx_in, got, note>>
serverVars == <<server, queue, answered, rx, delivered>>
streams == <<up, down, up_end, down_end>>
carrier == <<wrap, peer, clientVars, serverVars, streams>>

Piece(n, last) == [frame |-> n, last |-> last]
UpgradeHead == Piece(0, TRUE)  \* the head of the answer to the upgrade
Page == Piece(0, FALSE)        \* what a middlebox answers
Pieces(n) == <<Piece(n, FALSE), Piece(n, TRUE)>>

Init ==
  /\ wrap \in {"plain", "fragmented", "tls", "upgrade"} /\ peer \in {"server", "page", "silent"}
  /\ wrap \in {"fragmented", "upgrade"} => peer = "server"
  /\ wrap = "tls" => peer # "page"
  /\ stage = IF wrap \in {"tls", "upgrade"} THEN "tls" ELSE "junk"
  /\ handle = TRUE /\ given = 0 /\ tx_out = <<>> /\ writer = "idle" /\ reader = "run"
  /\ acc = <<>> /\ tx_in = <<>> /\ got = <<>> /\ note = FALSE
  /\ up = <<>> /\ down = <<>> /\ up_end = FALSE /\ down_end = FALSE
  /\ server = IF peer = "server" /\ wrap \in {"plain", "fragmented"} THEN "run" ELSE "none"
  /\ queue = <<>> /\ answered = 0 /\ rx = <<>> /\ delivered = <<>>

Reads(k) == SubSeq(down, 1, k)
Left(k) == SubSeq(down, k + 1, Len(down))
Open == stage = "open"

--------------------------------------------------------------------------------
(* Opening: TLS, the upgrade, junk.                                           *)

WrapTls ==
  /\ stage = "tls"
  /\ stage' = IF wrap = "upgrade" THEN "upgrading" ELSE "open"
  /\ server' = IF peer = "server" /\ wrap = "tls" THEN "run" ELSE server
  /\ UNCHANGED <<wrap, peer, streams, handle, given, tx_out, writer, reader, acc, tx_in, got, note, queue, answered, rx, delivered>>

Answer ==
  /\ stage = "upgrading" /\ server = "none" /\ ~up_end
  /\ server' = "run" /\ down' = Append(down, UpgradeHead)
  /\ UNCHANGED <<wrap, peer, clientVars, queue, answered, rx, delivered, up, up_end, down_end>>

(* What came behind the head of the answer is the start of the stream.        *)
(* Mutant: it is not kept.                                                    *)
NothingBehind(pieces) == <<>>
Behind(pieces) == Tail(pieces)
HttpUpgrade ==
  /\ stage = "upgrading"
  /\ \E k \in 1..Len(down) : acc' = Behind(Reads(k)) /\ down' = Left(k)
  /\ stage' = "open"
  /\ UNCHANGED <<wrap, peer, serverVars, handle, given, tx_out, writer, reader, tx_in, got, note, up, up_end, down_end>>

(* No TLS, no answer in time, or another one than 101: the stream is dropped. *)
Fails ==
  /\ stage \in {"tls", "upgrading"}
  /\ stage' = "failed" /\ handle' = FALSE /\ writer' = "done" /\ reader' = "done"
  /\ up_end' = TRUE
  /\ UNCHANGED <<wrap, peer, serverVars, given, tx_out, acc, tx_in, got, note, up, down, down_end>>

(* Junk is written directly, before the first frame of the queue.             *)
JunkFrames ==
  /\ stage = "junk"
  /\ \E count \in 0..1 : up' = IF count = 1 THEN up \o Pieces(0) ELSE up
  /\ stage' = "open"
  /\ UNCHANGED <<wrap, peer, serverVars, handle, given, tx_out, writer, reader, acc, tx_in, got, note, down, up_end, down_end>>

--------------------------------------------------------------------------------
(* The client's end.                                                         *)

Send ==
  /\ Open /\ handle /\ writer # "done" /\ given < MaxUp
  /\ given' = given + 1 /\ tx_out' = Append(tx_out, given')
  /\ UNCHANGED <<wrap, peer, serverVars, streams, stage, handle, writer, reader, acc, tx_in, got, note>>

Recv ==
  /\ handle /\ tx_in # <<>>
  /\ got' = Append(got, tx_in[1]) /\ tx_in' = Tail(tx_in)
  /\ UNCHANGED <<wrap, peer, serverVars, streams, stage, handle, given, tx_out, writer, reader, acc, note>>

(* The bridge lets go: a reconnect, a stop, or it heard that it is closed.    *)
Drop ==
  /\ Open /\ handle
  /\ handle' = FALSE
  /\ UNCHANGED <<wrap, peer, serverVars, streams, stage, given, tx_out, writer, reader, acc, tx_in, got, note>>

(* Only the first frame is cut, with pauses between.                          *)
Cuts == wrap = "fragmented" /\ tx_out[1] = 1
Write ==
  /\ Open /\ writer = "idle" /\ tx_out # <<>>
  /\ IF Cuts THEN writer' = "head" /\ up' = Append(up, Piece(1, FALSE)) /\ UNCHANGED tx_out
     ELSE up' = up \o Pieces(tx_out[1]) /\ tx_out' = Tail(tx_out) /\ UNCHANGED writer
  /\ UNCHANGED <<wrap, peer, serverVars, stage, handle, given, reader, acc, tx_in, got, note, down, up_end, down_end>>

WriteRest ==
  /\ writer = "head"
  /\ up' = Append(up, Piece(1, TRUE)) /\ tx_out' = Tail(tx_out) /\ writer' = "idle"
  /\ UNCHANGED <<wrap, peer, serverVars, stage, handle, given, reader, acc, tx_in, got, note, down, up_end, down_end>>

(* The peer has closed.                                                       *)
WriteFails ==
  /\ Open /\ writer # "done" /\ down_end /\ (tx_out # <<>> \/ writer = "head")
  /\ writer' = "done" /\ up_end' = TRUE /\ tx_out' = <<>>
  /\ UNCHANGED <<wrap, peer, serverVars, stage, handle, given, reader, acc, tx_in, got, note, up, down, down_end>>

Shutdown ==
  /\ Open /\ writer = "idle" /\ ~handle /\ tx_out = <<>>
  /\ writer' = "done" /\ up_end' = TRUE
  /\ UNCHANGED <<wrap, peer, serverVars, stage, handle, given, tx_out, reader, acc, tx_in, got, note, up, down, down_end>>

(* Mutant: a length is enough.                                                *)
HasLength(pieces) == pieces # <<>> /\ ~pieces[1].last /\ pieces[1].frame > 0
Complete(pieces) == Len(pieces) > 1 /\ pieces[2].last

TakeFrame ==
  /\ Open /\ reader = "run" /\ Complete(acc)
  /\ IF handle THEN tx_in' = Append(tx_in, acc[1].frame) /\ UNCHANGED reader
     ELSE reader' = "done" /\ UNCHANGED tx_in
  /\ acc' = SubSeq(acc, 3, Len(acc))
  /\ UNCHANGED <<wrap, peer, serverVars, streams, stage, handle, given, tx_out, writer, got, note>>

Read ==
  /\ Open /\ reader = "run" /\ ~Complete(acc) /\ down # <<>>
  /\ \E k \in 1..Len(down) : acc' = acc \o Reads(k) /\ down' = Left(k)
  /\ UNCHANGED <<wrap, peer, serverVars, stage, handle, given, tx_out, writer, reader, tx_in, got, note, up, up_end, down_end>>

ReadEnds ==
  /\ Open /\ reader = "run" /\ ~Complete(acc) /\ down = <<>> /\ down_end
  /\ reader' = "done" /\ note' = (acc # <<>>)
  /\ UNCHANGED <<wrap, peer, serverVars, streams, stage, handle, given, tx_out, writer, acc, tx_in, got>>

(* The reader has the other half: it does not wait for a silent peer.         *)
(* Mutant: it does.                                                           *)
WaitsForPeer == FALSE
Watches == ~handle
ReaderLetsGo ==
  /\ Open /\ reader = "run" /\ ~Complete(acc) /\ Watches
  /\ reader' = "done"
  /\ UNCHANGED <<wrap, peer, serverVars, streams, stage, handle, given, tx_out, writer, acc, tx_in, got, note>>

--------------------------------------------------------------------------------
(* The server's end.                                                          *)

(* A datagram for this address: an answer, or of a session whose last         *)
(* connection had the same address.                                           *)
Ask ==
  /\ server = "run" /\ answered < MaxDown
  /\ answered' = answered + 1 /\ queue' = Append(queue, answered')
  /\ UNCHANGED <<wrap, peer, clientVars, streams, server, rx, delivered>>

(* A client that let go of both halves is not there any more.                *)
Gone == reader = "done" /\ writer = "done"

ServerWrite ==
  /\ server = "run" /\ queue # <<>>
  /\ down' = IF Gone THEN down ELSE down \o Pieces(queue[1])
  /\ queue' = Tail(queue)
  /\ UNCHANGED <<wrap, peer, clientVars, server, answered, rx, delivered, up, up_end, down_end>>

(* Mutant: until both directions are through.                                 *)
JoinBoth == Gone /\ queue # <<>>
EitherEnds == TRUE
Closes ==
  /\ server' = "done" /\ down_end' = TRUE
  /\ \E k \in 0..Len(down) : down' = Reads(k)  \* cut, perhaps within a frame
  /\ queue' = <<>> /\ rx' = <<>>
  /\ UNCHANGED <<wrap, peer, clientVars, answered, delivered, up, up_end>>

ServerRead ==
  /\ server = "run" /\ ~Complete(rx) /\ up # <<>>
  /\ \E k \in 1..Len(up) : rx' = rx \o SubSeq(up, 1, k) /\ up' = SubSeq(up, k + 1, Len(up))
  /\ UNCHANGED <<wrap, peer, clientVars, server, queue, answered, delivered, down, up_end, down_end>>

(* The dispatcher knows junk by its marker.                                   *)
Dispatched(frame) == frame > 0
ServerTakes ==
  /\ server = "run" /\ Complete(rx)
  /\ delivered' = IF Dispatched(rx[1].frame) THEN Append(delivered, rx[1].frame) ELSE delivered
  /\ rx' = SubSeq(rx, 3, Len(rx))
  /\ UNCHANGED <<wrap, peer, clientVars, streams, server, queue, answered>>

ServerReadEnds ==
  /\ server = "run" /\ ~Complete(rx) /\ up = <<>> /\ up_end /\ EitherEnds
  /\ Closes

ServerWriteFails == server = "run" /\ queue # <<>> /\ Gone /\ Closes

(* No whole frame for IDLE_TIMEOUT.                                           *)
Idle ==
  /\ server = "run" /\ ~Complete(rx) /\ up = <<>>
  /\ Closes

(* A middlebox answers for the server and hangs up.                           *)
Interferes ==
  /\ peer = "page" /\ ~down_end /\ up # <<>>
  /\ down' = <<Page>> /\ down_end' = TRUE
  /\ UNCHANGED <<wrap, peer, clientVars, serverVars, up, up_end>>

--------------------------------------------------------------------------------
ClientSteps ==
  \/ HttpUpgrade \/ Write \/ WriteRest \/ WriteFails \/ Shutdown
  \/ TakeFrame \/ Read \/ ReadEnds \/ ReaderLetsGo
ServerSteps == ServerWrite \/ ServerRead \/ ServerTakes \/ ServerReadEnds \/ ServerWriteFails

Next ==
  \/ Answer \/ WrapTls \/ Fails \/ JunkFrames \/ Send \/ Recv \/ Drop \/ Ask \/ Idle \/ Interferes
  \/ ClientSteps \/ ServerSteps

Spec == Init /\ [][Next]_carrier

(* Ready tasks run.                                                           *)
Fairness ==
  /\ WF_carrier(WrapTls \/ HttpUpgrade \/ Fails \/ JunkFrames)
  /\ WF_carrier(Write \/ WriteRest \/ WriteFails \/ Shutdown)
  /\ WF_carrier(TakeFrame \/ Read \/ ReadEnds \/ ReaderLetsGo)
  /\ WF_carrier(ServerWrite \/ ServerWriteFails)
  /\ WF_carrier(ServerRead \/ ServerTakes \/ ServerReadEnds)

--------------------------------------------------------------------------------
TypeOK ==
  /\ stage \in {"tls", "upgrading", "junk", "open", "failed"} /\ writer \in {"idle", "head", "done"}
  /\ reader \in {"run", "done"} /\ server \in {"none", "run", "done"}
  /\ given \in 0..MaxUp /\ answered \in 0..MaxDown

InOrder(frames) == \A i \in DOMAIN frames : frames[i] = i

(* Frames come out whole and in order on both sides, wherever the stream and  *)
(* the upgrade cut them.                                                      *)
FramesInOrder == InOrder(got \o tx_in) /\ InOrder(delivered)

(* An answer is reported as foreign only when a middlebox gave it, or the      *)
(* server closed within a frame.                                              *)
OnlyForeign == note => peer = "page" \/ \A i \in DOMAIN acc : ~acc[i].last

CarrierSound == FramesInOrder /\ OnlyForeign

(* A carrier that the bridge let go of ends on both sides, whether or not the *)
(* peer ever says anything.                                                   *)
Ended == reader = "done" /\ writer = "done" /\ server # "run"
DroppedCarrierEnds == ~handle ~> Ended
================================================================================
