------------------------------ MODULE Congestion ------------------------------
(* The congestion controller of one sender (ostp-core/src/congestion.rs), as  *)
(* ProtocolMachine drives it (protocol.rs): what it is told of frames that go *)
(* out, come back acknowledged or are reported missing, on a path that may be *)
(* replaced under it.                                                         *)
(*                                                                            *)
(* Sizes are in bytes of a small MTU, times in eighths of a tick, so that the *)
(* integer filters of RFC 6298 have something to divide.  The counter of the  *)
(* bytes in flight decides nothing (no caller asks can_send) and is left out, *)
(* as is RTTVAR, which only enters the RTO of Arq.                            *)
EXTENDS Integers, Sequences, FiniteSets, SequencesExt

CONSTANTS
  Mtu, InitialPackets, MinPackets, MaxPackets,
  Admitted,          \* the least window of the callers (16 packets)
  InitialRtt,        \* ticks
  MinRttExpiry, LossTolerance, LossWindow,
  BurstTicks,        \* PACING_BURST
  MaxFrames, MaxAge, MaxEvents  \* bounds: frames in the history, ticks that are counted, steps

Valid == /\ {Mtu, MinPackets, InitialRtt, LossTolerance} \subseteq Nat \ {0}
         /\ {InitialPackets, MaxPackets, Admitted, MinRttExpiry, LossWindow, BurstTicks,
             MaxFrames, MaxAge, MaxEvents} \subseteq Nat
         /\ MinPackets <= InitialPackets /\ InitialPackets <= MaxPackets

VARIABLES
  cwnd, ssthresh,
  phase,         \* "slow_start" or "probe"
  min_rtt, min_age,
  srtt,          \* 0 before the first sample
  losses, loss_age,      \* slow_start_losses and the age of their window
  tokens, refill_age,    \* the pacing bucket
  frames,        \* sent_history
  reports,       \* history: ages of the last losses reported on this path
  isolated,      \* history: slow start was left for fewer losses than are tolerated
  sampled,       \* history: "ambiguous" once a sample was
  released, allowed,     \* history: frames admitted in this tick, and the burst at the first
  events

estimate == <<min_rtt, min_age, srtt>>
window == <<cwnd, ssthresh, phase, losses, loss_age>>
bucket == <<tokens, refill_age>>
congestion == <<window, estimate, bucket, frames, reports, isolated, sampled, released, allowed, events>>

Tick == 8
Larger(a, b) == IF a > b THEN a ELSE b
Smaller(a, b) == IF a < b THEN a ELSE b
Floor == MinPackets * Mtu
Ceiling == MaxPackets * Mtu
Unbounded == 2 * Ceiling     \* u64::MAX

Fresh ==
  /\ cwnd' = InitialPackets * Mtu /\ ssthresh' = Unbounded /\ phase' = "slow_start"
  /\ min_rtt' = InitialRtt * Tick /\ min_age' = 0 /\ srtt' = 0
  /\ losses' = 0 /\ loss_age' = 0
  /\ tokens' = InitialPackets * Mtu /\ refill_age' = 0
  /\ reports' = <<>> /\ isolated' = FALSE /\ released' = 0 /\ allowed' = 0

Init ==
  /\ cwnd = InitialPackets * Mtu /\ ssthresh = Unbounded /\ phase = "slow_start"
  /\ min_rtt = InitialRtt * Tick /\ min_age = 0 /\ srtt = 0
  /\ losses = 0 /\ loss_age = 0
  /\ tokens = InitialPackets * Mtu /\ refill_age = 0
  /\ frames = <<>> /\ reports = <<>> /\ isolated = FALSE /\ sampled = "clean"
  /\ released = 0 /\ allowed = 0 /\ events = 0

--------------------------------------------------------------------------------
(* Pacing.                                                                    *)

Rate == (cwnd * Tick) \div min_rtt   \* bytes per tick
Burst == Larger(Rate * BurstTicks, 4 * Mtu)

(* Mutant: an idle sender saves up.                                           *)
SavedUp == tokens + refill_age * Rate
Available == Smaller(tokens + refill_age * Rate, Burst)

CwndPackets == Larger(cwnd \div Mtu, MinPackets)
InFlight == Cardinality({i \in DOMAIN frames : frames[i].again})
Admits == InFlight < Smaller(Larger(CwndPackets, Admitted), MaxPackets) /\ Available >= Mtu

Frame(again) == [age |-> 0, retries |-> 0, again |-> again, copies |-> 1, moved |-> FALSE]

ConsumePacing == tokens' = Available - Mtu /\ refill_age' = 0

(* A frame of the application: both gates are asked.                          *)
Send ==
  /\ Admits /\ Len(frames) < MaxFrames
  /\ frames' = Append(frames, Frame(TRUE))
  /\ ConsumePacing
  /\ released' = released + 1
  /\ allowed' = IF released = 0 THEN Burst ELSE allowed
  /\ UNCHANGED <<window, estimate, reports, isolated, sampled>>

(* KeepAlive and Close pay, but are not held back.                            *)
SendUngated ==
  /\ Len(frames) < MaxFrames
  /\ frames' = Append(frames, Frame(TRUE))
  /\ ConsumePacing
  /\ UNCHANGED <<window, estimate, reports, isolated, sampled, released, allowed>>

(* Acks and Nacks have a nonce, and are neither paid for nor sent again.      *)
SendControl ==
  /\ Len(frames) < MaxFrames
  /\ frames' = Append(frames, Frame(FALSE))
  /\ UNCHANGED <<window, estimate, bucket, reports, isolated, sampled, released, allowed>>

--------------------------------------------------------------------------------
(* Acknowledgements.                                                          *)

(* Mutant: the age of any frame is a round trip.                              *)
OfAnyFrame(acked) == acked
Measurable(acked) == {i \in acked : frames[i].retries = 0}

Filtered(rtt) == IF srtt = 0 THEN rtt ELSE srtt - srtt \div 8 + rtt \div 8
UpdateRtt(rtt) ==
  /\ srtt' = Filtered(rtt)
  /\ IF rtt < min_rtt \/ min_age >= MinRttExpiry
     THEN min_rtt' = rtt /\ min_age' = 0
     ELSE UNCHANGED <<min_rtt, min_age>>

(* SRTT is so many times the least RTT.                                       *)
Inflated(times) == srtt' > 0 /\ srtt' >= times * min_rtt'

(* Mutant: only losses count.                                                 *)
LossesOnly == FALSE
QueueBuilds == Inflated(2)

Clamped(bytes) == Smaller(bytes, Ceiling)
(* Mutant: half of what there was.                                            *)
HalfOf(bytes) == bytes \div 2
Halved(bytes) == Larger(bytes \div 2, Floor)

GrowWindow(bytes) ==
  \/ /\ Inflated(4)
     /\ cwnd' = Clamped(Halved(cwnd)) /\ ssthresh' = Halved(cwnd) /\ phase' = "probe"
  \/ /\ ~Inflated(4) /\ phase = "slow_start" /\ QueueBuilds
     /\ cwnd' = Clamped(cwnd) /\ ssthresh' = cwnd /\ phase' = "probe"
  \/ /\ ~Inflated(4) /\ phase = "slow_start" /\ ~QueueBuilds
     /\ cwnd' = Clamped(cwnd + bytes)
     /\ phase' = IF cwnd + bytes >= ssthresh THEN "probe" ELSE phase
     /\ UNCHANGED ssthresh
  \/ /\ ~Inflated(4) /\ phase = "probe"
     /\ cwnd' = Clamped(cwnd + (bytes * Mtu) \div cwnd)
     /\ UNCHANGED <<ssthresh, phase>>

(* What is left, in its order.                                                *)
Without(gone) ==
  {[n \in DOMAIN left |-> frames[left[n]]] :
     left \in {s \in SetToSeqs(DOMAIN frames \ gone) : \A n, m \in DOMAIN s : n < m => s[n] < s[m]}}

(* Whether the answer could be to another copy than the last, or to one that  *)
(* went another way.                                                          *)
Ambiguous(frame) == frame.copies > 1 \/ (frame.moved /\ frame.again)

OnAckNoRtt(bytes) == UNCHANGED estimate /\ GrowWindow(bytes)
OnAck(bytes, rtt) == UpdateRtt(rtt) /\ GrowWindow(bytes)

AckArrives ==
  \E acked \in SUBSET DOMAIN frames \ {{}} :
    LET clear == Measurable(acked)
        least == CHOOSE i \in clear : \A k \in clear : frames[i].age <= frames[k].age
        bytes == Mtu * Cardinality(acked)
    IN /\ IF clear = {} THEN OnAckNoRtt(bytes) /\ UNCHANGED sampled
          ELSE /\ OnAck(bytes, (frames[least].age + 1) * Tick)
               /\ sampled' = IF Ambiguous(frames[least]) THEN "ambiguous" ELSE sampled
       /\ frames' \in Without(acked)
       /\ UNCHANGED <<losses, loss_age, bucket, reports, isolated, released, allowed>>

--------------------------------------------------------------------------------
(* Losses.                                                                    *)

(* Mutant: every loss of the session counts.                                  *)
CountAll == losses
Counted == IF loss_age > LossWindow THEN 0 ELSE losses

Sustained(ages) == Len(ages) = LossTolerance /\ \A i \in DOMAIN ages : ages[i] <= LossWindow

OnLoss ==
  /\ reports' = SubSeq(<<0>> \o reports, 1, Smaller(Len(reports) + 1, LossTolerance))
  /\ UNCHANGED <<estimate, bucket, sampled, released, allowed>>
  /\ IF phase = "slow_start"
     THEN /\ losses' = Counted + 1
          /\ loss_age' = IF loss_age > LossWindow THEN 0 ELSE loss_age
          /\ IF losses' >= LossTolerance
             THEN /\ ssthresh' = cwnd \div 2 /\ cwnd' = Halved(cwnd)
                  /\ phase' = "probe" /\ isolated' = ~Sustained(reports')
             ELSE cwnd' = Larger((cwnd * 8) \div 10, Floor) /\ UNCHANGED <<ssthresh, phase, isolated>>
     ELSE /\ cwnd' = Larger((cwnd * 7) \div 10, Floor)
          /\ UNCHANGED <<ssthresh, phase, losses, loss_age, isolated>>

(* Mutant: the age starts again, and the frame looks as if sent once.         *)
SameFrame(frame) == [frame EXCEPT !.age = 0, !.copies = 2]
Again(frame) == [frame EXCEPT !.age = 0, !.retries = 1, !.copies = 2]

(* A Nack, for a frame that is in the history or for one that is not.         *)
NackArrives ==
  /\ OnLoss
  /\ \/ \E i \in DOMAIN frames : frames' = [frames EXCEPT ![i] = Again(@)]
     \/ UNCHANGED frames

RetransmitBudget == Smaller(Larger(CwndPackets \div 4, 2), 64)
Retransmit ==
  \E due \in SUBSET {i \in DOMAIN frames : frames[i].again} :
    /\ due # {} /\ Cardinality(due) <= RetransmitBudget
    /\ frames' = [i \in DOMAIN frames |-> IF i \in due THEN Again(frames[i]) ELSE frames[i]]
    /\ UNCHANGED <<window, estimate, bucket, reports, isolated, sampled, released, allowed>>

--------------------------------------------------------------------------------
(* Another path: the controller starts afresh, and frames are due at once.    *)
(* Mutant: they are due, as if sent long ago.                                 *)
DueAtOnce(frame) == IF frame.again THEN [frame EXCEPT !.age = MaxAge, !.moved = TRUE] ELSE [frame EXCEPT !.moved = TRUE]
Moved(frame) ==
  IF frame.again THEN [frame EXCEPT !.age = MaxAge, !.retries = 1, !.moved = TRUE]
  ELSE [frame EXCEPT !.moved = TRUE]
PathChange ==
  /\ Fresh /\ frames' = [i \in DOMAIN frames |-> Moved(frames[i])]
  /\ UNCHANGED sampled

Older(age, most) == Smaller(age + 1, most)
Elapse ==
  /\ frames' = [i \in DOMAIN frames |-> [frames[i] EXCEPT !.age = Older(@, MaxAge)]]
  /\ min_age' = Older(min_age, MinRttExpiry) /\ loss_age' = Older(loss_age, LossWindow + 1)
  /\ refill_age' = Older(refill_age, MaxAge)
  /\ reports' = [i \in DOMAIN reports |-> Older(reports[i], LossWindow + 1)]
  /\ released' = 0 /\ allowed' = 0
  /\ UNCHANGED <<cwnd, ssthresh, phase, losses, min_rtt, srtt, tokens, isolated, sampled>>

Next ==
  /\ events < MaxEvents /\ events' = events + 1
  /\ \/ Send \/ SendUngated \/ SendControl \/ AckArrives \/ NackArrives \/ Retransmit
     \/ PathChange \/ Elapse

Spec == Init /\ [][Next]_congestion

--------------------------------------------------------------------------------
(* The window stays between two packets and its ceiling, whatever the order   *)
(* of losses, delays and acknowledgements.                                    *)
WindowBounded == cwnd \in Floor..Ceiling

(* Slow start goes on over isolated losses, and never over a queue.           *)
SlowStartEnds ==
  /\ ~isolated
  /\ phase = "slow_start" => srtt < 2 * min_rtt

(* An ACK of a frame that went out twice, or before the path changed, feeds   *)
(* no estimate.                                                               *)
SamplesAreClear == sampled = "clean"

(* What the application hands over in one tick is one burst at most.          *)
Paced == released * Mtu <= allowed

CongestionSound == WindowBounded /\ SlowStartEnds /\ SamplesAreClear /\ Paced
================================================================================
