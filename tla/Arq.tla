---------------------------------- MODULE Arq ----------------------------------
(***************************************************************************)
(* The selective-repeat ARQ of ostp-core/src/protocol.rs: two              *)
(* ProtocolMachines, both past the handshake, exchanging datagrams over a  *)
(* network that loses, duplicates, reorders and damages them.              *)
(*                                                                         *)
(* Every datagram a machine builds (data or control) consumes the next     *)
(* send nonce, so frame n of p is sent[p][n + 1] for ever.  The network    *)
(* may deliver a frame that was put on the wire at any later time, any     *)
(* number of times, damaged or intact, or never: no variable is needed for *)
(* it.  Timers are guards: an elapsed/not elapsed test is a choice of the  *)
(* step, which covers every clock.  What the frames carry is opaque, and   *)
(* congestion control only bounds the retransmissions of a tick            *)
(* (RetransmitBudget).                                                     *)
(***************************************************************************)
EXTENDS Integers, Sequences, FiniteSets

CONSTANTS
  Initiator, Responder,  \* NoiseRole of the two machines
  NonceLimit,            \* nonces are 0..NonceLimit-1 (u64 in the code)
  FrameLimit,            \* bound: frames each machine builds
  SendLimit,             \* bound: data frames each application sends
  MaxReorder,            \* max_reorder: how far ahead of expected a frame is accepted
  MaxReorderBuffer,      \* max_reorder_buffer: frames held out of order
  MaxSentHistory,        \* max_sent_history: frames kept for retransmission
  MaxRetries,            \* max_retries
  RetransmitBudget,      \* cc.retransmit_budget(): frames one tick may resend
  MaxRanges,             \* MAX_RANGES of build_ack_payload
  RetryMax,              \* saturation of the u8 retry counter
  Mobile, Closers        \* the machines whose callers report path changes, or close

Peers == {Initiator, Responder}
Nonce == 0..(NonceLimit - 1)

ASSUME RolesAssumption == Initiator # Responder
ASSUME LimitsAssumption ==
  /\ NonceLimit \in Nat
  /\ FrameLimit \in [Peers -> 0..NonceLimit]
  /\ SendLimit \in [Peers -> Nat]
  /\ {MaxReorder, MaxReorderBuffer, MaxSentHistory, MaxRetries,
      MaxRanges} \subseteq Nat \ {0}
  /\ RetransmitBudget \in Nat
  /\ RetryMax \in Nat /\ RetryMax >= MaxRetries + 3
  /\ Mobile \subseteq Peers /\ Closers \subseteq Peers

VARIABLES
  state,                 \* OstpState of each machine
  sent,                  \* frames built so far; send_nonce is Len(sent[p])
  sent_history,          \* the frames still held for retransmission
  expected_recv_nonce,
  reorder_buffer,        \* nonces of the frames held out of order
  ack_pending,
  highest_authenticated, \* highest_authenticated_recv_nonce, -1 for None
  \* history variables: what the callers and the wire saw
  released,              \* nonces of the actions handed to the caller, in order
  skipped,               \* nonces jumped over by gap recovery
  discarded,             \* nonces released by gap recovery whose actions an Err dropped
  gave_up,               \* frames dropped from sent_history by the zombie eviction
  overflowed             \* frames dropped from sent_history by its cap

recvVars == <<expected_recv_nonce, reorder_buffer, released, skipped, discarded>>
sendVars == <<sent, sent_history, gave_up, overflowed>>
vars == <<state, ack_pending, recvVars, highest_authenticated, sendVars>>

--------------------------------------------------------------------------------
(* Frames.  An Ack carries the nonces its ranges cover, a Nack the nonce it   *)
(* asks for.                                                                  *)

DataFrame   == [kind |-> "Data"]
CloseFrame  == [kind |-> "Close"]
AckFrame(S) == [kind |-> "Ack", acked |-> S]
NackFrame(n) == [kind |-> "Nack", missing |-> n]

Frame ==      [kind : {"Data", "Close"}]
         \cup [kind : {"Ack"}, acked : SUBSET Nonce]
         \cup [kind : {"Nack"}, missing : 0..NonceLimit]

Other(p) == IF p = Initiator THEN Responder ELSE Initiator
FrameOf(p, n) == sent[p][n + 1]
SendNonce(p) == Len(sent[p])
Retransmittable(p, n) == FrameOf(p, n).kind \in {"Data", "Close"}

(* <<from, from + 1, ..., to - 1>>: a contiguous run of nonces in sequence.   *)
(* Mutant: the drain stops one frame short.                                   *)
RunShort(from, to) == [i \in 1..(to - from - 1) |-> from + i - 1]
Run(from, to) == [i \in 1..(to - from) |-> from + i - 1]

(* Draining buf from nonce "from" stops at "to", the first nonce not held.    *)
DrainsTo(buf, from, to) ==
  /\ from <= to
  /\ from..(to - 1) \subseteq buf
  /\ to \notin buf

(* The nonces an Ack built now covers: all below expected, and the last       *)
(* MaxRanges - 1 runs held out of order (or the first run, which takes the    *)
(* place of the cumulative range as long as nothing was released).            *)
(* Mutant: the cumulative range includes the expected nonce.                  *)
AckedOneTooMany(expected, buf) == (0..expected) \cup buf

AckedNonces(expected, buf) ==
  LET starts   == {m \in buf : m - 1 \notin buf}
      above(m) == Cardinality({s \in starts : s > m})
      first(m) == Cardinality({s \in starts : s <= m}) = 1
  IN  (0..(expected - 1)) \cup
      {m \in buf : above(m) < MaxRanges - 1 \/ (expected = 0 /\ first(m))}

--------------------------------------------------------------------------------
(* Sending.  The history maps the nonces of the frames p still holds to       *)
(* SentFrames: the retry counter, and for the properties the number of times  *)
(* the frame was put on the wire.  Only retransmittable frames are counted,   *)
(* the retries of a control frame are never read.                             *)

SentFrame == [retries : 0..RetryMax, sends : 1..RetryMax]
FreshFrame == [retries |-> 0, sends |-> 1]

Capped(n) == IF n > RetryMax THEN RetryMax ELSE n

(* Mutant: the retry is not charged.                                          *)
ResendUncharged(frame) == [frame EXCEPT !.sends = Capped(@ + 1)]

Resend(frame) ==
  [retries |-> Capped(frame.retries + 1), sends |-> Capped(frame.sends + 1)]

(* push_sent_frame appends to the history, which keeps its newest frames.     *)
Newest(S) == {n \in S : Cardinality({m \in S : m > n}) < MaxSentHistory}
NewNonces(p, frames) == SendNonce(p)..(SendNonce(p) + Len(frames) - 1)

Pushed(p, history, frames) ==
  [n \in Newest(DOMAIN history \cup NewNonces(p, frames)) |->
     IF n \in DOMAIN history THEN history[n] ELSE FreshFrame]

(* p builds "frames", whose nonces are the next ones, and sends them; its     *)
(* history was "history" before.                                              *)
Emit(p, history, frames) ==
  LET pushed == Pushed(p, history, frames)
  IN  /\ SendNonce(p) + Len(frames) <= FrameLimit[p]
      /\ sent' = [sent EXCEPT ![p] = @ \o frames]
      /\ sent_history' = [sent_history EXCEPT ![p] = pushed]
      /\ overflowed' = [overflowed EXCEPT ![p] =
           @ \cup ((DOMAIN history \cup NewNonces(p, frames)) \ DOMAIN pushed)]

Init ==
  /\ state = [p \in Peers |-> "Established"]
  /\ sent = [p \in Peers |-> <<>>]
  /\ sent_history = [p \in Peers |-> <<>>]
  /\ expected_recv_nonce = [p \in Peers |-> 0]
  /\ reorder_buffer = [p \in Peers |-> {}]
  /\ ack_pending = [p \in Peers |-> FALSE]
  /\ highest_authenticated = [p \in Peers |-> -1]
  /\ released = [p \in Peers |-> <<>>]
  /\ skipped = [p \in Peers |-> {}]
  /\ discarded = [p \in Peers |-> {}]
  /\ gave_up = [p \in Peers |-> {}]
  /\ overflowed = [p \in Peers |-> {}]

(* on_event(Outbound): only an Established machine sends application data.    *)
DataSent(p) == Cardinality({i \in DOMAIN sent[p] : sent[p][i].kind = "Data"})

Outbound(p) ==
  /\ state[p] = "Established"
  /\ DataSent(p) < SendLimit[p]
  /\ Emit(p, sent_history[p], <<DataFrame>>)
  /\ UNCHANGED <<state, ack_pending, recvVars, highest_authenticated, gave_up>>

(* on_event(Close): Established starts the close handshake, a second Close    *)
(* gives it up.                                                               *)
StartClose(p) ==
  /\ p \in Closers
  /\ state[p] = "Established"
  /\ state' = [state EXCEPT ![p] = "Closing"]
  /\ Emit(p, sent_history[p], <<CloseFrame>>)
  /\ UNCHANGED <<ack_pending, recvVars, highest_authenticated, gave_up>>

ForceClose(p) ==
  /\ p \in Closers
  /\ state[p] = "Closing"
  /\ state' = [state EXCEPT ![p] = "Closed"]
  /\ UNCHANGED <<ack_pending, recvVars, highest_authenticated, sendVars>>

(* on_path_change: every unacknowledged frame becomes due, counts as resent   *)
(* once, and an Ack is owed.                                                  *)
(* Mutant: every path change charges one more retry.                          *)
ChargedDue(frame) == [frame EXCEPT !.retries = Capped(@ + 1)]
Due(frame) == [frame EXCEPT !.retries = 1]

PathChange(p) ==
  /\ p \in Mobile
  /\ sent_history' = [sent_history EXCEPT ![p] =
       [n \in DOMAIN @ |-> IF Retransmittable(p, n) THEN Due(@[n]) ELSE @[n]]]
  /\ ack_pending' = [ack_pending EXCEPT ![p] = TRUE]
  /\ UNCHANGED <<state, recvVars, highest_authenticated, sent, gave_up, overflowed>>

--------------------------------------------------------------------------------
(* Receiving.  recover_stalled_gap runs first: when later frames are held and *)
(* the gap timer has elapsed, the sequence jumps from expected to "resume",   *)
(* the lowest nonce held, and drains up to "base".  Otherwise both are the    *)
(* expected nonce.                                                            *)
AfterGapRecovery(p, resume, base) ==
  \/ resume = expected_recv_nonce[p] /\ base = resume
  \/ /\ resume \in reorder_buffer[p]
     /\ \A m \in reorder_buffer[p] : resume <= m
     /\ DrainsTo(reorder_buffer[p], resume, base)

Recovered(p, resume) == resume # expected_recv_nonce[p]

(* What stays out of order once the sequence stands at n.  Mutant: released   *)
(* frames stay in the buffer.                                                 *)
BeyondUndrained(buf, n) == buf
Beyond(buf, n) == {m \in buf : m > n}

InWindow(base, n) == n \in base..(base + MaxReorder)

(* Mutant: the expected nonce is left one past the drained run.               *)
AdvanceOneTooFar(p, resume, to, buf) ==
  /\ expected_recv_nonce' = [expected_recv_nonce EXCEPT ![p] = to + 1]
  /\ reorder_buffer' = [reorder_buffer EXCEPT ![p] = buf]
  /\ released' = [released EXCEPT ![p] = @ \o Run(resume, to)]
  /\ UNCHANGED <<skipped, discarded>>

(* The sequence advances to "to", handing over the run that starts at         *)
(* "resume"; "buf" is what is left out of order.                              *)
Advance(p, resume, to, buf) ==
  /\ expected_recv_nonce' = [expected_recv_nonce EXCEPT ![p] = to]
  /\ reorder_buffer' = [reorder_buffer EXCEPT ![p] = buf]
  /\ released' = [released EXCEPT ![p] = @ \o Run(resume, to)]
  /\ skipped' = [skipped EXCEPT ![p] =
       @ \cup (expected_recv_nonce[p]..(resume - 1))]
  /\ UNCHANGED discarded

(* A nonce already passed: an Ack at once, before the frame is decrypted.     *)
RecvDuplicate(p, n, resume, base) ==
  LET buf == Beyond(reorder_buffer[p], base)
      ack == <<AckFrame(AckedNonces(base, buf))>>
  IN  /\ n < base
      /\ Advance(p, resume, base, buf)
      /\ ack_pending' = [ack_pending EXCEPT ![p] = FALSE]
      /\ Emit(p, sent_history[p], ack)
      /\ UNCHANGED <<state, highest_authenticated, gave_up>>

(* A nonce too far ahead: a Nack at once, before the frame is decrypted.      *)
RecvBeyondWindow(p, n, resume, base) ==
  LET nack == <<NackFrame(base)>>
  IN  /\ n > base + MaxReorder
      /\ Advance(p, resume, base, Beyond(reorder_buffer[p], base))
      /\ ack_pending' = [ack_pending EXCEPT ![p] = @ \/ Recovered(p, resume)]
      /\ Emit(p, sent_history[p], nack)
      /\ UNCHANGED <<state, highest_authenticated, gave_up>>

(* A nonce in the window whose datagram was damaged on the way: decryption    *)
(* fails, and the ? in handle_data_inbound drops what gap recovery released.  *)
RecvDamaged(p, n, resume, base) ==
  /\ InWindow(base, n)
  /\ expected_recv_nonce' = [expected_recv_nonce EXCEPT ![p] = base]
  /\ reorder_buffer' = [reorder_buffer EXCEPT ![p] = Beyond(@, base)]
  /\ skipped' = [skipped EXCEPT ![p] =
       @ \cup (expected_recv_nonce[p]..(resume - 1))]
  /\ discarded' = [discarded EXCEPT ![p] = @ \cup (resume..(base - 1))]
  /\ ack_pending' = [ack_pending EXCEPT ![p] = @ \/ Recovered(p, resume)]
  /\ UNCHANGED <<state, released, highest_authenticated, sendVars>>

(* The history after the frame f of the peer: an Ack drops what it covers, a  *)
(* Nack resends the frame it asks for, if p still holds it.                   *)
(* Mutant: a selective acknowledgment is taken for a cumulative one.          *)
CumulativeHistoryAfter(p, f) ==
  [m \in {m \in DOMAIN sent_history[p] :
            f.kind = "Ack" => \A a \in f.acked : a < m} |-> sent_history[p][m]]

HistoryAfter(p, f) ==
  [m \in DOMAIN sent_history[p] \ (IF f.kind = "Ack" THEN f.acked ELSE {}) |->
     IF f.kind = "Nack" /\ m = f.missing /\ Retransmittable(p, m)
     THEN Resend(sent_history[p][m]) ELSE sent_history[p][m]]

(* Frame n joins the reorder buffer if it is next or there is room.  Mutant:  *)
(* the room is checked after the insertion.                                   *)
StoredLate(p, n, base) ==
  LET held == Beyond(reorder_buffer[p], base)
  IN  IF n = base \/ Cardinality(held) <= MaxReorderBuffer THEN held \cup {n} ELSE held

Stored(p, n, base) ==
  LET held == Beyond(reorder_buffer[p], base)
  IN  IF n = base \/ Cardinality(held) < MaxReorderBuffer THEN held \cup {n} ELSE held

(* Mutant: the last authenticated nonce is taken for the highest.             *)
LastNonce(highest, n) == n
Raised(highest, n) == IF n > highest THEN n ELSE highest

(* A nonce in the window that decrypts.  The frame acts on p at once, in or   *)
(* out of order; its action is released in order.  A gap costs a Nack when    *)
(* the Nack cooldown is over, and an owed Ack goes when its delay is over.    *)
RecvFrame(p, n, resume, base) ==
  LET f    == FrameOf(Other(p), n)
      buf  == Stored(p, n, base)
      owed == ack_pending[p] \/ Recovered(p, resume) \/ f.kind \in {"Data", "Close"}
  IN  /\ InWindow(base, n)
      /\ highest_authenticated' = [highest_authenticated EXCEPT ![p] = Raised(@, n)]
      /\ state' = [state EXCEPT ![p] = IF f.kind = "Close" THEN "Closed" ELSE @]
      /\ \E to \in base..NonceLimit :
           /\ DrainsTo(buf, base, to)
           /\ Advance(p, resume, to, Beyond(buf, to))
           /\ \E nack \in {<<>>, <<NackFrame(to)>>},
                 ack  \in {<<>>, <<AckFrame(AckedNonces(to, Beyond(buf, to)))>>} :
                /\ nack # <<>> => n # base
                /\ ack # <<>> => owed
                /\ ack_pending' = [ack_pending EXCEPT ![p] = owed /\ ack = <<>>]
                /\ Emit(p, HistoryAfter(p, f), nack \o ack)
      /\ UNCHANGED gave_up

(* on_event(Inbound) in Established: frame n of the other side arrives.  In   *)
(* Closing and Closed handle_inbound answers Noop: nothing changes.           *)
Inbound(p, n) ==
  /\ state[p] = "Established"
  /\ n < SendNonce(Other(p))
  /\ \E resume, base \in 0..NonceLimit :
       /\ AfterGapRecovery(p, resume, base)
       /\ \/ RecvDuplicate(p, n, resume, base)
          \/ RecvBeyondWindow(p, n, resume, base)
          \/ RecvDamaged(p, n, resume, base)
          \/ RecvFrame(p, n, resume, base)

--------------------------------------------------------------------------------
(* on_event(Tick): flush an owed Ack, evict zombies, resend expired frames    *)
(* oldest first within the budget, charging a retry only to those resent.     *)

Oldest(S) == {n \in S : Cardinality({m \in S : m < n}) < RetransmitBudget}

Zombies(p) ==
  {n \in DOMAIN sent_history[p] :
     Retransmittable(p, n) /\ sent_history[p][n].retries > MaxRetries + 2}

(* The Ack a tick builds: none when none is owed or its delay has not passed; *)
(* owed with nothing to report, the debt is cancelled.                        *)
TickAck(p, frames, owed) ==
  LET covered == AckedNonces(expected_recv_nonce[p], reorder_buffer[p])
  IN  \/ frames = <<>> /\ owed = ack_pending[p]
      \/ ack_pending[p] /\ covered = {} /\ frames = <<>> /\ ~owed
      \/ ack_pending[p] /\ covered # {} /\ frames = <<AckFrame(covered)>> /\ ~owed

Tick(p) ==
  /\ state[p] \in {"Established", "Closing"}
  /\ \E frames \in {<<>>, <<AckFrame(AckedNonces(expected_recv_nonce[p], reorder_buffer[p]))>>},
        owed \in BOOLEAN :
       LET pushed  == Pushed(p, sent_history[p], frames)
           new     == NewNonces(p, frames)
           zombies == Zombies(p) \cap DOMAIN pushed
           live    == {n \in DOMAIN pushed \ (zombies \cup new) : Retransmittable(p, n)}
       IN  /\ TickAck(p, frames, owed)
           /\ ack_pending' = [ack_pending EXCEPT ![p] = owed]
           /\ SendNonce(p) + Len(frames) <= FrameLimit[p]
           /\ sent' = [sent EXCEPT ![p] = @ \o frames]
           /\ gave_up' = [gave_up EXCEPT ![p] = @ \cup zombies]
           /\ overflowed' = [overflowed EXCEPT ![p] =
                @ \cup ((DOMAIN sent_history[p] \cup new) \ DOMAIN pushed)]
           /\ \E due \in SUBSET live :
                sent_history' = [sent_history EXCEPT ![p] =
                  [n \in DOMAIN pushed \ zombies |->
                     IF n \in Oldest(due) THEN Resend(pushed[n]) ELSE pushed[n]]]
  /\ UNCHANGED <<state, recvVars, highest_authenticated>>

--------------------------------------------------------------------------------
Next ==
  \E p \in Peers :
    \/ Outbound(p) \/ StartClose(p) \/ ForceClose(p) \/ PathChange(p) \/ Tick(p)
    \/ \E n \in Nonce : Inbound(p, n)

Spec == Init /\ [][Next]_vars

(* Both callers tick their machines for as long as they run (dispatcher       *)
(* on_tick every 10 ms, bridge retransmit timer); nothing else is certain.    *)
FairSpec == Spec /\ \A p \in Peers : WF_vars(Tick(p))

--------------------------------------------------------------------------------
(* Properties.                                                                *)

Received(p) == (0..(expected_recv_nonce[p] - 1)) \cup reorder_buffer[p]
ReleasedSet(p) == {released[p][i] : i \in DOMAIN released[p]}

SendTypeOK ==
  /\ sent \in [Peers -> Seq(Frame)]
  /\ sent_history = [p \in Peers |-> sent_history[p]]
  /\ gave_up \in [Peers -> SUBSET Nonce]
  /\ overflowed \in [Peers -> SUBSET Nonce]
  /\ \A p \in Peers :
       /\ SendNonce(p) <= FrameLimit[p]
       /\ sent_history[p] \in [DOMAIN sent_history[p] -> SentFrame]
       /\ DOMAIN sent_history[p] \subseteq 0..(SendNonce(p) - 1)

RecvTypeOK ==
  /\ expected_recv_nonce \in [Peers -> 0..NonceLimit]
  /\ reorder_buffer \in [Peers -> SUBSET Nonce]
  /\ released \in [Peers -> Seq(Nonce)]
  /\ skipped \in [Peers -> SUBSET Nonce]
  /\ discarded \in [Peers -> SUBSET Nonce]

(* The variables keep their types, and a machine holds for retransmission     *)
(* only frames it built.                                                      *)
TypeOK ==
  /\ SendTypeOK
  /\ RecvTypeOK
  /\ state \in [Peers -> {"Established", "Closing", "Closed"}]
  /\ ack_pending \in [Peers -> BOOLEAN]
  /\ highest_authenticated \in [Peers -> Nonce \cup {-1}]

(* Delivery to the application is in order and at most once, whatever the     *)
(* network repeats or reorders and however often gap recovery jumps: the      *)
(* actions handed to the caller carry strictly increasing nonces, all below   *)
(* the expected one.                                                          *)
InOrderAtMostOnce ==
  \A p \in Peers :
    /\ \A i, j \in DOMAIN released[p] : i < j => released[p][i] < released[p][j]
    /\ \A i \in DOMAIN released[p] : released[p][i] < expected_recv_nonce[p]

(* Nothing the receiver moved past disappears: a nonce below the expected one *)
(* was released, jumped over by gap recovery, or thrown away with an Err      *)
(* right after gap recovery, and exactly one of the three.                    *)
PassedIsAccountedFor ==
  \A p \in Peers :
    /\ 0..(expected_recv_nonce[p] - 1) = ReleasedSet(p) \cup skipped[p] \cup discarded[p]
    /\ ReleasedSet(p) \cap (skipped[p] \cup discarded[p]) = {}
    /\ skipped[p] \cap discarded[p] = {}

(* The reorder buffer holds only frames the peer sent that lie strictly       *)
(* ahead of the expected nonce and inside the window, and no more than its    *)
(* capacity: a stale entry would never drain and would be skipped to later.   *)
ReorderWindow ==
  \A p \in Peers :
    /\ \A m \in reorder_buffer[p] :
         /\ expected_recv_nonce[p] < m
         /\ m <= expected_recv_nonce[p] + MaxReorder
         /\ m < SendNonce(Other(p))
    /\ expected_recv_nonce[p] <= SendNonce(Other(p))
    /\ Cardinality(reorder_buffer[p]) <= MaxReorderBuffer

(* An Ack never claims a frame its sender neither holds nor has moved past,   *)
(* however late it arrives: the peer forgets what it covers.                  *)
AcksTruthful ==
  \A p \in Peers : \A i \in DOMAIN sent[p] :
    sent[p][i].kind = "Ack" => sent[p][i].acked \subseteq Received(p)

(* Custody: a frame leaves its sender's history only when the receiver has    *)
(* it or moved past it, when its retries ran out, or when the history         *)
(* overflowed.  No acknowledgment, retransmission or tick loses a frame.      *)
Custody ==
  \A p \in Peers : \A n \in 0..(SendNonce(p) - 1) :
    \/ n \in DOMAIN sent_history[p]
    \/ n \in Received(Other(p))
    \/ n \in gave_up[p] \cup overflowed[p]

(* The zombie eviction gives a frame up only after it went on the wire        *)
(* max_retries + 3 times: no retry is charged for a transmission that never   *)
(* happened, not even across a path change.                                   *)
NoPhantomRetries ==
  [][\A p \in Peers : \A n \in gave_up'[p] \ gave_up[p] :
       sent_history[p][n].sends >= MaxRetries + 3]_vars

(* What moves a session to a new address is a new highest authenticated       *)
(* nonce: only a frame p never held before can raise it, so no replay, of a   *)
(* released, skipped or still buffered frame, does.                           *)
OnlyFreshFramesProvePath ==
  [][\A p \in Peers : highest_authenticated'[p] # highest_authenticated[p] =>
       /\ highest_authenticated'[p] > highest_authenticated[p]
       /\ highest_authenticated'[p] \notin Received(p)]_vars

(* Delivery: in order, at most once, accounted for and within the window.      *)
Delivery == InOrderAtMostOnce /\ PassedIsAccountedFor /\ ReorderWindow

(* Once the path stays, retransmission ends: a data or close frame does not   *)
(* stay in the history of a machine that keeps ticking, because it is         *)
(* acknowledged or its retries run out.  The peer's gap recovery relies on it.*)
RetransmissionEnds ==
  <>[][\A p \in Mobile : ~PathChange(p)]_vars =>
  \A p \in Peers : \A n \in Nonce :
    (n \in DOMAIN sent_history[p] /\ Retransmittable(p, n))
      ~> (n \notin DOMAIN sent_history[p] \/ state[p] = "Closed")

--------------------------------------------------------------------------------
(* What the documentation says and the code does not do.                      *)

(* specification.md 9.4: gap recovery "delivers everything contiguous from    *)
(* there".  Not when the frame that triggered it fails to decrypt.            *)
GapRecoveryDelivers == \A p \in Peers : discarded[p] = {}
================================================================================
