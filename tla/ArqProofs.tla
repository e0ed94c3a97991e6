------------------------------- MODULE ArqProofs -------------------------------
(* Proofs about Arq, for every value of its constants: its types, Custody,    *)
(* Delivery, NoPhantomRetries and OnlyFreshFramesProvePath; and that Arq      *)
(* implements Transfer in both directions.  Delivery is inductive as it       *)
(* stands: what has been handed over ends below the expected nonce, and what  *)
(* is handed over next is the run that starts where gap recovery resumes.     *)
EXTENDS Arq, ArqTransfer, FiniteSetTheorems, TLAPS

--------------------------------------------------------------------------------
(* Operators.                                                                 *)

LEMMA NonceIs == \A n : n \in Nonce <=> n \in Nat /\ n < NonceLimit
BY LimitsAssumption DEF Nonce

LEMMA LimitIs ==
  ASSUME NEW p \in Peers
  PROVE  NonceLimit \in Nat /\ FrameLimit[p] \in Nat /\ FrameLimit[p] <= NonceLimit
BY LimitsAssumption

LEMMA OtherPeer ==
  ASSUME NEW p \in Peers
  PROVE  /\ Other(p) \in Peers /\ Other(p) # p /\ Other(Other(p)) = p
         /\ \A q \in Peers : q # p => q = Other(p)
BY RolesAssumption DEF Other, Peers

LEMMA ResendType ==
  ASSUME NEW f \in SentFrame
  PROVE  Resend(f) \in SentFrame
BY LimitsAssumption DEF SentFrame, Resend, Capped

LEMMA FreshFrameType == FreshFrame \in SentFrame
BY LimitsAssumption DEF SentFrame, FreshFrame

LEMMA AckedNoncesBound ==
  ASSUME NEW expected \in Nat, NEW buf \in SUBSET Nonce
  PROVE  /\ AckedNonces(expected, buf) \subseteq (0..(expected - 1)) \cup buf
         /\ 0..(expected - 1) \subseteq AckedNonces(expected, buf)
BY DEF AckedNonces

LEMMA AckFrameType ==
  ASSUME NEW expected \in 0..NonceLimit, NEW buf \in SUBSET Nonce
  PROVE  AckFrame(AckedNonces(expected, buf)) \in Frame
<1>1. expected \in Nat
  BY LimitsAssumption
<1>2. AckedNonces(expected, buf) \subseteq Nonce
  BY <1>1, AckedNoncesBound, NonceIs, LimitsAssumption
<1> QED BY <1>2 DEF AckFrame, Frame

LEMMA NackFrameType ==
  ASSUME NEW n \in 0..NonceLimit
  PROVE  NackFrame(n) \in Frame
BY DEF NackFrame, Frame

LEMMA AtMostOneFrame ==
  ASSUME NEW f \in Frame, NEW s \in {<<>>, <<f>>}
  PROVE  s \in Seq(Frame)
<1>1. CASE s = <<>>
  BY <1>1
<1>2. CASE s = <<f>>
  <2>1. <<f>> \in Seq(Frame)
    OBVIOUS
  <2> QED BY <1>2, <2>1
<1> QED BY <1>1, <1>2

LEMMA RunType ==
  ASSUME NEW from \in Nat, NEW to \in 0..NonceLimit
  PROVE  Run(from, to) \in Seq(Nonce)
<1>1. to \in Nat /\ to <= NonceLimit
  BY LimitsAssumption
<1>2. \A i \in 1..(to - from) : from + i - 1 \in Nonce
  BY <1>1, NonceIs, LimitsAssumption
<1>3. CASE to <= from
  BY <1>1, <1>2, <1>3 DEF Run
<1>4. CASE from < to
  <2>1. to - from \in Nat
    BY <1>1, <1>4
  <2> QED BY <1>2, <2>1 DEF Run
<1> QED BY <1>1, <1>3, <1>4

(* A history is what push_sent_frame accepts: frames built before.            *)
Histories == UNION {[S -> SentFrame] : S \in SUBSET Nonce}
History(p) == {h \in Histories : \A n \in DOMAIN h : n < SendNonce(p)}

(* TypeOK with the sent histories as members of a set.                        *)
SendTyped ==
  /\ sent \in [Peers -> Seq(Frame)]
  /\ sent_history \in [Peers -> Histories]
  /\ gave_up \in [Peers -> SUBSET Nonce]
  /\ overflowed \in [Peers -> SUBSET Nonce]
  /\ \A p \in Peers :
       /\ SendNonce(p) <= FrameLimit[p]
       /\ \A n \in DOMAIN sent_history[p] : n < SendNonce(p)

Typed ==
  /\ SendTyped
  /\ RecvTypeOK
  /\ state \in [Peers -> {"Established", "Closing", "Closed"}]
  /\ ack_pending \in [Peers -> BOOLEAN]
  /\ highest_authenticated \in [Peers -> Nonce \cup {-1}]

LEMMA HistoriesIs ==
  ASSUME NEW h
  PROVE  h \in Histories <=> /\ h \in [DOMAIN h -> SentFrame]
                             /\ DOMAIN h \subseteq Nonce
BY DEF Histories

LEMMA TypedIsTypeOK == Typed => TypeOK
<1> SUFFICES ASSUME Typed PROVE TypeOK
  OBVIOUS
<1>1. sent_history = [p \in Peers |-> sent_history[p]]
  BY DEF Typed, SendTyped
<1>2. ASSUME NEW p \in Peers
      PROVE  /\ sent_history[p] \in [DOMAIN sent_history[p] -> SentFrame]
             /\ DOMAIN sent_history[p] \subseteq 0..(SendNonce(p) - 1)
  <2>1. sent_history[p] \in Histories /\ SendNonce(p) \in Nat
    BY DEF Typed, SendTyped, SendNonce
  <2>2. DOMAIN sent_history[p] \subseteq Nonce
    BY <2>1, HistoriesIs
  <2>3. \A n \in DOMAIN sent_history[p] : n \in Nat /\ n < SendNonce(p)
    BY <2>2, NonceIs DEF Typed, SendTyped
  <2> QED BY <2>1, <2>3, HistoriesIs
<1>3. SendTypeOK
  BY <1>1, <1>2 DEF Typed, SendTyped, SendTypeOK
<1> QED BY <1>3 DEF Typed, TypeOK

LEMMA PushedType ==
  ASSUME SendTyped, NEW p \in Peers, NEW history \in History(p),
         NEW frames \in Seq(Frame), SendNonce(p) + Len(frames) <= FrameLimit[p]
  PROVE  /\ NewNonces(p, frames) \subseteq Nonce
         /\ Pushed(p, history, frames) \in Histories
         /\ DOMAIN Pushed(p, history, frames) \subseteq DOMAIN history \cup NewNonces(p, frames)
         /\ \A n \in DOMAIN Pushed(p, history, frames) : n < SendNonce(p) + Len(frames)
<1> DEFINE pushed == Pushed(p, history, frames)
<1>1. SendNonce(p) \in Nat /\ Len(frames) \in Nat
  BY DEF SendTyped, SendNonce
<1>2. NewNonces(p, frames) \subseteq Nonce
  BY <1>1, NonceIs, LimitIs DEF NewNonces
<1>3. Newest(DOMAIN history \cup NewNonces(p, frames)) \subseteq DOMAIN history \cup NewNonces(p, frames)
  BY DEF Newest
<1>4. /\ history \in [DOMAIN history -> SentFrame]
      /\ DOMAIN history \subseteq Nonce
      /\ \A n \in DOMAIN history : n < SendNonce(p)
  BY HistoriesIs DEF History
<1>5. DOMAIN pushed = Newest(DOMAIN history \cup NewNonces(p, frames))
  BY DEF Pushed
<1>6. \A n \in DOMAIN pushed : pushed[n] \in SentFrame
  BY <1>3, <1>4, <1>5, FreshFrameType DEF Pushed
<1>7. pushed = [n \in DOMAIN pushed |-> pushed[n]]
  BY DEF Pushed
<1>8. pushed \in [DOMAIN pushed -> SentFrame]
  BY <1>6, <1>7
<1>9. \A n \in DOMAIN pushed : n < SendNonce(p) + Len(frames)
  <2>1. \A n \in NewNonces(p, frames) : n < SendNonce(p) + Len(frames)
    BY <1>1 DEF NewNonces
  <2>2. \A n \in DOMAIN history : n < SendNonce(p) + Len(frames)
    BY <1>1, <1>4, NonceIs
  <2> QED BY <1>3, <1>5, <2>1, <2>2
<1>10. DOMAIN pushed \subseteq Nonce
  BY <1>2, <1>3, <1>4, <1>5
<1> QED BY <1>2, <1>3, <1>5, <1>8, <1>9, <1>10, HistoriesIs
--------------------------------------------------------------------------------
(* What a step of the receiving half and of the sending half preserves.       *)

LEMMA SentType ==
  ASSUME SendTyped, NEW p \in Peers
  PROVE  /\ sent[p] \in Seq(Frame)
         /\ SendNonce(p) \in Nat /\ SendNonce(p) <= NonceLimit
         /\ sent_history[p] \in History(p)
         /\ \A n \in Nat : n < SendNonce(p) => FrameOf(p, n) \in Frame
<1>1. sent[p] \in Seq(Frame) /\ SendNonce(p) \in Nat
  BY DEF SendTyped, SendNonce
<1>2. SendNonce(p) <= NonceLimit
  BY <1>1, LimitIs DEF SendTyped
<1>3. sent_history[p] \in History(p)
  BY DEF SendTyped, History, Histories
<1>4. ASSUME NEW n \in Nat, n < SendNonce(p)
      PROVE  FrameOf(p, n) \in Frame
  BY <1>1, <1>4 DEF FrameOf, SendNonce
<1> QED BY <1>1, <1>2, <1>3, <1>4

LEMMA EmitType ==
  ASSUME SendTyped, NEW p \in Peers, NEW history \in History(p),
         NEW frames \in Seq(Frame), Emit(p, history, frames),
         gave_up' \in [Peers -> SUBSET Nonce]
  PROVE  SendTyped'
<1> DEFINE pushed == Pushed(p, history, frames)
<1>1. SendNonce(p) + Len(frames) <= FrameLimit[p]
  BY DEF Emit
<1>2. /\ NewNonces(p, frames) \subseteq Nonce
      /\ pushed \in Histories
      /\ \A n \in DOMAIN pushed : n < SendNonce(p) + Len(frames)
  BY <1>1, PushedType
<1>3. /\ sent' = [sent EXCEPT ![p] = sent[p] \o frames]
      /\ sent_history' = [sent_history EXCEPT ![p] = pushed]
      /\ overflowed' = [overflowed EXCEPT ![p] =
           overflowed[p] \cup ((DOMAIN history \cup NewNonces(p, frames)) \ DOMAIN pushed)]
  BY DEF Emit
<1>4. sent[p] \o frames \in Seq(Frame) /\ Len(sent[p] \o frames) = SendNonce(p) + Len(frames)
  BY DEF SendTyped, SendNonce
<1>5. sent' \in [Peers -> Seq(Frame)]
  BY <1>3, <1>4 DEF SendTyped
<1>6. sent_history' \in [Peers -> Histories]
  BY <1>2, <1>3 DEF SendTyped, Histories
<1>7. DOMAIN history \subseteq Nonce
  BY HistoriesIs DEF History
<1>8. overflowed' \in [Peers -> SUBSET Nonce]
  BY <1>2, <1>3, <1>7 DEF SendTyped
<1>9. ASSUME NEW q \in Peers
      PROVE  /\ SendNonce(q)' <= FrameLimit[q]
             /\ \A n \in DOMAIN sent_history'[q] : n < SendNonce(q)'
  <2>1. CASE q = p
    <3>1. SendNonce(p)' = SendNonce(p) + Len(frames)
      BY <1>3, <1>4 DEF SendTyped, SendNonce
    <3>2. sent_history'[p] = pushed
      BY <1>3 DEF SendTyped
    <3> QED BY <1>1, <1>2, <2>1, <3>1, <3>2
  <2>2. CASE q # p
    BY <1>3, <2>2 DEF SendTyped, SendNonce
  <2> QED BY <2>1, <2>2
<1> QED BY <1>5, <1>6, <1>8, <1>9 DEF SendTyped, Histories

LEMMA AdvanceType ==
  ASSUME RecvTypeOK, NEW p \in Peers, NEW resume \in 0..NonceLimit, NEW to \in 0..NonceLimit,
         NEW buf \in SUBSET Nonce, Advance(p, resume, to, buf)
  PROVE  RecvTypeOK'
<1>1. expected_recv_nonce' \in [Peers -> 0..NonceLimit]
  BY DEF Advance, RecvTypeOK
<1>2. reorder_buffer' \in [Peers -> SUBSET Nonce]
  BY DEF Advance, RecvTypeOK
<1>3. resume \in Nat /\ resume <= NonceLimit /\ expected_recv_nonce[p] \in Nat
  BY LimitsAssumption DEF RecvTypeOK
<1>4. released' \in [Peers -> Seq(Nonce)]
  <2>1. Run(resume, to) \in Seq(Nonce)
    BY <1>3, RunType
  <2>2. released[p] \o Run(resume, to) \in Seq(Nonce)
    BY <2>1 DEF RecvTypeOK
  <2> QED BY <2>2 DEF Advance, RecvTypeOK
<1>5. skipped' \in [Peers -> SUBSET Nonce]
  <2>1. expected_recv_nonce[p]..(resume - 1) \subseteq Nonce
    BY <1>3, NonceIs, LimitsAssumption
  <2> QED BY <2>1 DEF Advance, RecvTypeOK
<1>6. discarded' = discarded
  BY DEF Advance
<1> QED BY <1>1, <1>2, <1>4, <1>5, <1>6 DEF RecvTypeOK
LEMMA GapRecoveryType ==
  ASSUME RecvTypeOK, NEW p \in Peers, NEW resume \in 0..NonceLimit, NEW base \in 0..NonceLimit,
         AfterGapRecovery(p, resume, base)
  PROVE  /\ resume \in Nat /\ base \in Nat /\ resume <= base
         /\ Beyond(reorder_buffer[p], base) \in SUBSET Nonce
<1>1. resume \in Nat /\ base \in Nat
  BY LimitsAssumption
<1>2. resume <= base
  BY <1>1 DEF AfterGapRecovery, DrainsTo
<1>3. Beyond(reorder_buffer[p], base) \in SUBSET Nonce
  BY DEF Beyond, RecvTypeOK
<1> QED BY <1>1, <1>2, <1>3

LEMMA HistoryAfterType ==
  ASSUME SendTyped, NEW p \in Peers, NEW f
  PROVE  /\ HistoryAfter(p, f) \in History(p)
         /\ DOMAIN HistoryAfter(p, f) =
              DOMAIN sent_history[p] \ (IF f.kind = "Ack" THEN f.acked ELSE {})
<1> DEFINE h == HistoryAfter(p, f)
<1>1. /\ sent_history[p] \in [DOMAIN sent_history[p] -> SentFrame]
      /\ DOMAIN sent_history[p] \subseteq Nonce
      /\ \A n \in DOMAIN sent_history[p] : n < SendNonce(p)
  BY SentType, HistoriesIs DEF History
<1>2. DOMAIN h = DOMAIN sent_history[p] \ (IF f.kind = "Ack" THEN f.acked ELSE {})
  BY DEF HistoryAfter
<1>3. \A n \in DOMAIN h : h[n] \in SentFrame
  BY <1>1, <1>2, ResendType DEF HistoryAfter
<1>4. h = [n \in DOMAIN h |-> h[n]]
  BY DEF HistoryAfter
<1>5. h \in [DOMAIN h -> SentFrame]
  BY <1>3, <1>4
<1>6. h \in Histories
  BY <1>1, <1>2, <1>5, HistoriesIs
<1> QED BY <1>1, <1>2, <1>6 DEF History

--------------------------------------------------------------------------------
(* Every action keeps the types.                                              *)

LEMMA OutboundType == Typed /\ (\E p \in Peers : Outbound(p)) => Typed'
<1> SUFFICES ASSUME Typed, NEW p \in Peers, Outbound(p)
             PROVE  Typed'
  OBVIOUS
<1>1. <<DataFrame>> \in Seq(Frame)
  BY DEF DataFrame, Frame
<1>2. SendTyped'
  BY <1>1, EmitType, SentType DEF Typed, Outbound, SendTyped
<1> QED BY <1>2 DEF Typed, Outbound, RecvTypeOK, recvVars

LEMMA StartCloseType == Typed /\ (\E p \in Peers : StartClose(p)) => Typed'
<1> SUFFICES ASSUME Typed, NEW p \in Peers, StartClose(p)
             PROVE  Typed'
  OBVIOUS
<1>1. <<CloseFrame>> \in Seq(Frame)
  BY DEF CloseFrame, Frame
<1>2. SendTyped'
  BY <1>1, EmitType, SentType DEF Typed, StartClose, SendTyped
<1>3. state' \in [Peers -> {"Established", "Closing", "Closed"}]
  BY DEF Typed, StartClose
<1> QED BY <1>2, <1>3 DEF Typed, StartClose, RecvTypeOK, recvVars

LEMMA ForceCloseType == Typed /\ (\E p \in Peers : ForceClose(p)) => Typed'
<1> SUFFICES ASSUME Typed, NEW p \in Peers, ForceClose(p)
             PROVE  Typed'
  OBVIOUS
<1>1. state' \in [Peers -> {"Established", "Closing", "Closed"}]
  BY DEF Typed, ForceClose
<1> QED BY <1>1 DEF Typed, ForceClose, SendTyped, RecvTypeOK, recvVars, sendVars, SendNonce

LEMMA PathChangeType == Typed /\ (\E p \in Peers : PathChange(p)) => Typed'
<1> SUFFICES ASSUME Typed, NEW p \in Peers, PathChange(p)
             PROVE  Typed'
  OBVIOUS
<1> DEFINE h == [n \in DOMAIN sent_history[p] |->
                   IF Retransmittable(p, n) THEN Due(sent_history[p][n])
                   ELSE sent_history[p][n]]
<1>1. /\ sent_history[p] \in [DOMAIN sent_history[p] -> SentFrame]
      /\ DOMAIN sent_history[p] \subseteq Nonce
      /\ \A n \in DOMAIN sent_history[p] : n < SendNonce(p)
  BY SentType, HistoriesIs DEF History, Typed
<1>2. \A f \in SentFrame : Due(f) \in SentFrame
  BY LimitsAssumption DEF SentFrame, Due
<1>3. h \in [DOMAIN sent_history[p] -> SentFrame]
  BY <1>1, <1>2
<1>4. h \in Histories
  BY <1>1, <1>3, HistoriesIs
<1>5. sent_history' = [sent_history EXCEPT ![p] = h]
  BY DEF PathChange
<1>6. sent_history' \in [Peers -> Histories]
  BY <1>4, <1>5 DEF Typed, SendTyped, Histories
<1>7. \A q \in Peers : DOMAIN sent_history'[q] = DOMAIN sent_history[q]
  BY <1>5 DEF Typed, SendTyped
<1>8. SendTyped'
  BY <1>6, <1>7 DEF Typed, SendTyped, PathChange, SendNonce, Histories
<1>9. ack_pending' \in [Peers -> BOOLEAN]
  BY DEF Typed, PathChange
<1> QED BY <1>8, <1>9 DEF Typed, PathChange, RecvTypeOK, recvVars

LEMMA RecvDuplicateType ==
  ASSUME Typed, NEW p \in Peers, NEW n \in Nonce, NEW resume \in 0..NonceLimit,
         NEW base \in 0..NonceLimit, AfterGapRecovery(p, resume, base),
         RecvDuplicate(p, n, resume, base)
  PROVE  Typed'
<1> DEFINE buf == Beyond(reorder_buffer[p], base)
           ack == <<AckFrame(AckedNonces(base, buf))>>
<1>1. RecvTypeOK /\ SendTyped
  BY DEF Typed
<1>2. buf \in SUBSET Nonce
  BY <1>1, GapRecoveryType
<1>3. RecvTypeOK'
  BY <1>1, <1>2, AdvanceType DEF RecvDuplicate
<1>4. ack \in Seq(Frame)
  BY <1>2, AckFrameType
<1>5. gave_up' \in [Peers -> SUBSET Nonce]
  BY <1>1 DEF SendTyped, RecvDuplicate
<1>6. Emit(p, sent_history[p], ack)
  BY DEF RecvDuplicate
<1>7. SendTyped'
  BY <1>1, <1>4, <1>5, <1>6, EmitType, SentType
<1>8. ack_pending' \in [Peers -> BOOLEAN]
  BY DEF Typed, RecvDuplicate
<1> QED BY <1>3, <1>7, <1>8 DEF Typed, RecvDuplicate

LEMMA RecvBeyondWindowType ==
  ASSUME Typed, NEW p \in Peers, NEW n \in Nonce, NEW resume \in 0..NonceLimit,
         NEW base \in 0..NonceLimit, AfterGapRecovery(p, resume, base),
         RecvBeyondWindow(p, n, resume, base)
  PROVE  Typed'
<1> DEFINE buf == Beyond(reorder_buffer[p], base)
           nack == <<NackFrame(base)>>
<1>1. RecvTypeOK /\ SendTyped
  BY DEF Typed
<1>2. buf \in SUBSET Nonce
  BY <1>1, GapRecoveryType
<1>3. RecvTypeOK'
  BY <1>1, <1>2, AdvanceType DEF RecvBeyondWindow
<1>4. nack \in Seq(Frame)
  BY NackFrameType
<1>5. gave_up' \in [Peers -> SUBSET Nonce]
  BY <1>1 DEF SendTyped, RecvBeyondWindow
<1>6. Emit(p, sent_history[p], nack)
  BY DEF RecvBeyondWindow
<1>7. SendTyped'
  BY <1>1, <1>4, <1>5, <1>6, EmitType, SentType
<1>8. ack_pending' \in [Peers -> BOOLEAN]
  BY DEF Typed, RecvBeyondWindow, Recovered
<1> QED BY <1>3, <1>7, <1>8 DEF Typed, RecvBeyondWindow

LEMMA RecvDamagedType ==
  ASSUME Typed, NEW p \in Peers, NEW n \in Nonce, NEW resume \in 0..NonceLimit,
         NEW base \in 0..NonceLimit, AfterGapRecovery(p, resume, base),
         RecvDamaged(p, n, resume, base)
  PROVE  Typed'
<1>1. RecvTypeOK /\ SendTyped
  BY DEF Typed
<1>2. /\ resume \in Nat /\ base \in Nat /\ resume <= NonceLimit /\ base <= NonceLimit
      /\ expected_recv_nonce[p] \in Nat
  BY <1>1, LimitsAssumption DEF RecvTypeOK
<1>3. Beyond(reorder_buffer[p], base) \in SUBSET Nonce
  BY <1>1, GapRecoveryType
<1>4. expected_recv_nonce[p]..(resume - 1) \subseteq Nonce /\ resume..(base - 1) \subseteq Nonce
  BY <1>2, NonceIs, LimitsAssumption
<1>5. expected_recv_nonce' \in [Peers -> 0..NonceLimit] /\ reorder_buffer' \in [Peers -> SUBSET Nonce]
  BY <1>1, <1>3 DEF RecvTypeOK, RecvDamaged
<1>6. skipped' \in [Peers -> SUBSET Nonce] /\ discarded' \in [Peers -> SUBSET Nonce]
  BY <1>1, <1>4 DEF RecvTypeOK, RecvDamaged
<1>7. RecvTypeOK'
  BY <1>1, <1>5, <1>6 DEF RecvTypeOK, RecvDamaged
<1>8. SendTyped'
  BY <1>1 DEF SendTyped, RecvDamaged, sendVars, SendNonce
<1>9. ack_pending' \in [Peers -> BOOLEAN]
  BY DEF Typed, RecvDamaged, Recovered
<1> QED BY <1>7, <1>8, <1>9 DEF Typed, RecvDamaged

LEMMA StoredType ==
  ASSUME RecvTypeOK, NEW p \in Peers, NEW n \in Nonce, NEW base \in Nat, NEW to
  PROVE  /\ Stored(p, n, base) \in SUBSET Nonce
         /\ Beyond(Stored(p, n, base), to) \in SUBSET Nonce
BY DEF Stored, Beyond, RecvTypeOK

LEMMA RecvFrameType ==
  ASSUME Typed, NEW p \in Peers, NEW n \in Nonce, NEW resume \in 0..NonceLimit,
         NEW base \in 0..NonceLimit, AfterGapRecovery(p, resume, base),
         n < SendNonce(Other(p)), RecvFrame(p, n, resume, base)
  PROVE  Typed'
<1> DEFINE f == FrameOf(Other(p), n)
           buf == Stored(p, n, base)
           owed == ack_pending[p] \/ Recovered(p, resume) \/ f.kind \in {"Data", "Close"}
<1>1. RecvTypeOK /\ SendTyped /\ base \in Nat
  BY LimitsAssumption DEF Typed
<1>2. PICK to \in base..NonceLimit :
        /\ DrainsTo(buf, base, to)
        /\ Advance(p, resume, to, Beyond(buf, to))
        /\ \E nack \in {<<>>, <<NackFrame(to)>>},
              ack  \in {<<>>, <<AckFrame(AckedNonces(to, Beyond(buf, to)))>>} :
             /\ nack # <<>> => n # base
             /\ ack # <<>> => owed
             /\ ack_pending' = [ack_pending EXCEPT ![p] = owed /\ ack = <<>>]
             /\ Emit(p, HistoryAfter(p, f), nack \o ack)
  BY DEF RecvFrame
<1>3. to \in 0..NonceLimit
  BY <1>1, LimitsAssumption
<1>4. buf \in SUBSET Nonce /\ Beyond(buf, to) \in SUBSET Nonce
  BY <1>1, StoredType
<1>5. RecvTypeOK'
  BY <1>1, <1>2, <1>3, <1>4, AdvanceType
<1>6. PICK nack \in {<<>>, <<NackFrame(to)>>},
           ack  \in {<<>>, <<AckFrame(AckedNonces(to, Beyond(buf, to)))>>} :
        /\ ack_pending' = [ack_pending EXCEPT ![p] = owed /\ ack = <<>>]
        /\ Emit(p, HistoryAfter(p, f), nack \o ack)
  BY <1>2
<1>7. NackFrame(to) \in Frame /\ AckFrame(AckedNonces(to, Beyond(buf, to))) \in Frame
  BY <1>3, <1>4, NackFrameType, AckFrameType
<1>8. nack \o ack \in Seq(Frame)
  <2>1. nack \in Seq(Frame)
    BY <1>6, <1>7, AtMostOneFrame
  <2>2. ack \in Seq(Frame)
    BY <1>6, <1>7, AtMostOneFrame
  <2> QED BY <2>1, <2>2
<1>9. gave_up' \in [Peers -> SUBSET Nonce]
  BY <1>1 DEF SendTyped, RecvFrame
<1>10. SendTyped'
  BY <1>1, <1>6, <1>8, <1>9, EmitType, HistoryAfterType
<1>11. ack_pending' \in [Peers -> BOOLEAN]
  BY <1>6 DEF Typed
<1>12. state' \in [Peers -> {"Established", "Closing", "Closed"}]
  BY DEF Typed, RecvFrame
<1>13. highest_authenticated' \in [Peers -> Nonce \cup {-1}]
  BY DEF Typed, RecvFrame, Raised
<1> QED BY <1>5, <1>10, <1>11, <1>12, <1>13 DEF Typed

LEMMA InboundType == Typed /\ (\E p \in Peers, n \in Nonce : Inbound(p, n)) => Typed'
<1> SUFFICES ASSUME Typed, NEW p \in Peers, NEW n \in Nonce, Inbound(p, n)
             PROVE  Typed'
  OBVIOUS
<1> QED BY RecvDuplicateType, RecvBeyondWindowType, RecvDamagedType, RecvFrameType DEF Inbound

LEMMA TickType == Typed /\ (\E p \in Peers : Tick(p)) => Typed'
<1> SUFFICES ASSUME Typed, NEW p \in Peers, Tick(p)
             PROVE  Typed'
  OBVIOUS
<1> DEFINE acked == AckedNonces(expected_recv_nonce[p], reorder_buffer[p])
<1>1. RecvTypeOK /\ SendTyped
  BY DEF Typed
<1>2. PICK frames \in {<<>>, <<AckFrame(acked)>>}, owed \in BOOLEAN :
       LET pushed  == Pushed(p, sent_history[p], frames)
           new     == NewNonces(p, frames)
           zombies == Zombies(p) \cap DOMAIN pushed
           live    == {n \in DOMAIN pushed \ (zombies \cup new) : Retransmittable(p, n)}
       IN  /\ TickAck(p, frames, owed)
           /\ ack_pending' = [ack_pending EXCEPT ![p] = owed]
           /\ SendNonce(p) + Len(frames) <= FrameLimit[p]
           /\ sent' = [sent EXCEPT ![p] = @ \o frames]
           /\ gave_up' = [gave_up EXCEPT ![p] = @ \cup zombies]
           /\ overflowed' = [overflowed EXCEPT ![p] =
                @ \cup ((DOMAIN sent_history[p] \cup new) \ DOMAIN pushed)]
           /\ \E due \in SUBSET live :
                sent_history' = [sent_history EXCEPT ![p] =
                  [n \in DOMAIN pushed \ zombies |->
                     IF n \in Oldest(due) THEN Resend(pushed[n]) ELSE pushed[n]]]
  BY DEF Tick
<1> DEFINE pushed == Pushed(p, sent_history[p], frames)
           new == NewNonces(p, frames)
           zombies == Zombies(p) \cap DOMAIN pushed
<1>3. frames \in Seq(Frame)
  <2>1. AckFrame(acked) \in Frame
    BY <1>1, AckFrameType DEF RecvTypeOK
  <2> QED BY <1>2, <2>1, AtMostOneFrame
<1>4. sent_history[p] \in History(p) /\ DOMAIN sent_history[p] \subseteq Nonce
  BY <1>1, SentType, HistoriesIs DEF History
<1>5. /\ new \subseteq Nonce
      /\ pushed \in Histories
      /\ \A n \in DOMAIN pushed : n < SendNonce(p) + Len(frames)
  BY <1>1, <1>2, <1>3, <1>4, PushedType
<1>6. PICK due : sent_history' = [sent_history EXCEPT ![p] =
        [n \in DOMAIN pushed \ zombies |->
           IF n \in Oldest(due) THEN Resend(pushed[n]) ELSE pushed[n]]]
  BY <1>2
<1> DEFINE h == [n \in DOMAIN pushed \ zombies |->
                   IF n \in Oldest(due) THEN Resend(pushed[n]) ELSE pushed[n]]
<1>7. h \in Histories
  <2>1. pushed \in [DOMAIN pushed -> SentFrame] /\ DOMAIN pushed \subseteq Nonce
    BY <1>5, HistoriesIs
  <2>2. h \in [DOMAIN pushed \ zombies -> SentFrame]
    BY <2>1, ResendType
  <2> QED BY <2>1, <2>2, HistoriesIs
<1>8. sent_history' \in [Peers -> Histories]
  BY <1>1, <1>6, <1>7 DEF SendTyped, Histories
<1>9. sent[p] \o frames \in Seq(Frame) /\ Len(sent[p] \o frames) = SendNonce(p) + Len(frames)
  BY <1>1, <1>3 DEF SendTyped, SendNonce
<1>10. sent' \in [Peers -> Seq(Frame)]
  BY <1>1, <1>2, <1>9 DEF SendTyped
<1>11. gave_up' \in [Peers -> SUBSET Nonce]
  <2>1. zombies \subseteq Nonce
    BY <1>5, HistoriesIs
  <2> QED BY <1>1, <1>2, <2>1 DEF SendTyped
<1>12. overflowed' \in [Peers -> SUBSET Nonce]
  BY <1>1, <1>2, <1>4, <1>5 DEF SendTyped
<1>13. ASSUME NEW q \in Peers
       PROVE  /\ SendNonce(q)' <= FrameLimit[q]
              /\ \A n \in DOMAIN sent_history'[q] : n < SendNonce(q)'
  <2>1. CASE q = p
    <3>1. SendNonce(p)' = SendNonce(p) + Len(frames)
      BY <1>1, <1>2, <1>9 DEF SendTyped, SendNonce
    <3>2. DOMAIN sent_history'[p] \subseteq DOMAIN pushed
      BY <1>1, <1>6 DEF SendTyped
    <3> QED BY <1>2, <1>5, <2>1, <3>1, <3>2
  <2>2. CASE q # p
    BY <1>1, <1>2, <1>6, <2>2 DEF SendTyped, SendNonce
  <2> QED BY <2>1, <2>2
<1>14. SendTyped'
  BY <1>8, <1>10, <1>11, <1>12, <1>13 DEF SendTyped, Histories
<1>15. ack_pending' \in [Peers -> BOOLEAN]
  BY <1>2 DEF Typed
<1> QED BY <1>14, <1>15 DEF Typed, Tick, RecvTypeOK, recvVars

LEMMA TypedAlways == Spec => []Typed
<1>1. Init => Typed
  <2> SUFFICES ASSUME Init PROVE Typed
    OBVIOUS
  <2>1. SendTyped
    <3>1. <<>> \in [{} -> SentFrame] /\ DOMAIN <<>> = {}
      OBVIOUS
    <3>2. <<>> \in Histories
      BY <3>1, HistoriesIs
    <3>3. <<>> \in Seq(Frame) /\ Len(<<>>) = 0
      OBVIOUS
    <3>4. sent \in [Peers -> Seq(Frame)]
      BY <3>3 DEF Init
    <3>5. sent_history \in [Peers -> Histories]
      BY <3>2 DEF Init
    <3>6. ASSUME NEW p \in Peers
          PROVE  SendNonce(p) <= FrameLimit[p] /\ \A n \in DOMAIN sent_history[p] : n < SendNonce(p)
      <4>1. SendNonce(p) = 0
        BY <3>3 DEF Init, SendNonce
      <4>2. DOMAIN sent_history[p] = {}
        BY <3>1 DEF Init
      <4> QED BY <4>1, <4>2, LimitIs
    <3> QED BY <3>4, <3>5, <3>6 DEF Init, SendTyped, Histories
  <2>2. RecvTypeOK
    BY LimitsAssumption DEF Init, RecvTypeOK
  <2> QED BY <2>1, <2>2 DEF Init, Typed
<1>2. Typed /\ [Next]_vars => Typed'
  <2> SUFFICES ASSUME Typed, [Next]_vars PROVE Typed'
    OBVIOUS
  <2>1. CASE Next
    BY <2>1, OutboundType, StartCloseType, ForceCloseType, PathChangeType, TickType,
       InboundType DEF Next
  <2>2. CASE UNCHANGED vars
    BY <2>2 DEF Typed, SendTyped, RecvTypeOK, SendNonce, vars, sendVars, recvVars
  <2> QED BY <2>1, <2>2
<1> QED BY <1>1, <1>2, PTL DEF Spec

(* Type correctness: in every reachable state the variables have their types. *)
THEOREM TypeCorrect == Spec => []TypeOK
<1>1. Typed => TypeOK
  BY TypedIsTypeOK
<1> QED BY <1>1, TypedAlways, PTL

--------------------------------------------------------------------------------
(* Custody.  An Ack is true when it is built, and it stays true because what  *)
(* a receiver holds or has moved past only grows: that needs the reorder      *)
(* buffer to lie ahead of the expected nonce (Ahead).  Then a history shrinks *)
(* by an Ack only to frames the receiver knows.                               *)

Ahead ==
  \A p \in Peers : \A m \in reorder_buffer[p] : expected_recv_nonce[p] < m

--------------------------------------------------------------------------------
(* The receiving half.                                                        *)

(* What a peer holds or has moved past only grows.                            *)
Grows == \A q \in Peers : Received(q) \subseteq Received(q)'

LEMMA GapRecoveryMovesOn ==
  ASSUME RecvTypeOK, Ahead, NEW p \in Peers,
         NEW resume \in 0..NonceLimit, NEW base \in 0..NonceLimit,
         AfterGapRecovery(p, resume, base)
  PROVE  /\ expected_recv_nonce[p] \in Nat /\ base \in Nat
         /\ expected_recv_nonce[p] <= base
         /\ base \notin reorder_buffer[p]
<1>1. expected_recv_nonce[p] \in Nat /\ resume \in Nat /\ base \in Nat
  BY LimitsAssumption DEF RecvTypeOK
<1>2. CASE resume = expected_recv_nonce[p] /\ base = resume
  BY <1>1, <1>2 DEF Ahead
<1>3. CASE resume \in reorder_buffer[p] /\ DrainsTo(reorder_buffer[p], resume, base)
  <2>1. expected_recv_nonce[p] < resume
    BY <1>3 DEF Ahead
  <2>2. resume <= base /\ base \notin reorder_buffer[p]
    BY <1>3 DEF DrainsTo
  <2> QED BY <1>1, <2>1, <2>2
<1> QED BY <1>1, <1>2, <1>3 DEF AfterGapRecovery

(* A receive step moves from "base" to "to" over the frames in buf, which     *)
(* holds at least what lies beyond base.                                      *)
LEMMA ReceiveGrows ==
  ASSUME RecvTypeOK, Ahead, NEW p \in Peers,
         NEW resume \in 0..NonceLimit, NEW base \in 0..NonceLimit,
         AfterGapRecovery(p, resume, base),
         NEW to \in 0..NonceLimit, NEW buf \in SUBSET Nonce,
         Beyond(reorder_buffer[p], base) \subseteq buf,
         DrainsTo(buf, base, to),
         expected_recv_nonce' = [expected_recv_nonce EXCEPT ![p] = to],
         reorder_buffer' = [reorder_buffer EXCEPT ![p] = Beyond(buf, to)]
  PROVE  /\ Grows
         /\ Ahead'
         /\ Received(p)' = (0..(to - 1)) \cup Beyond(buf, to)
<1>1. expected_recv_nonce'[p] = to /\ reorder_buffer'[p] = Beyond(buf, to)
  BY DEF RecvTypeOK
<1>2. \A q \in Peers : q # p =>
        expected_recv_nonce'[q] = expected_recv_nonce[q] /\ reorder_buffer'[q] = reorder_buffer[q]
  BY DEF RecvTypeOK
<1>3. Received(p)' = (0..(to - 1)) \cup Beyond(buf, to)
  BY <1>1 DEF Received
<1>4. to \in Nat /\ base <= to /\ to \notin buf
  BY LimitsAssumption DEF DrainsTo
<1>5. /\ expected_recv_nonce[p] \in Nat /\ base \in Nat
      /\ expected_recv_nonce[p] <= base /\ base \notin reorder_buffer[p]
  BY GapRecoveryMovesOn
<1>6. ASSUME NEW x \in Received(p)
      PROVE  x \in Received(p)'
  <2>1. CASE x \in 0..(expected_recv_nonce[p] - 1)
    BY <1>3, <1>4, <1>5, <2>1
  <2>2. CASE x \in reorder_buffer[p]
    <3>1. x \in Nat
      BY <2>2, NonceIs DEF RecvTypeOK
    <3>2. CASE x < to
      BY <1>3, <1>4, <3>1, <3>2
    <3>3. CASE x >= to
      <4>1. x >= base /\ x # base
        BY <1>4, <1>5, <2>2, <3>1, <3>3
      <4>2. x > base
        BY <1>5, <3>1, <4>1
      <4>3. x \in buf
        BY <2>2, <4>2 DEF Beyond
      <4>4. x > to
        BY <1>4, <3>1, <3>3, <4>3
      <4> QED BY <1>3, <4>3, <4>4 DEF Beyond
    <3> QED BY <1>4, <3>1, <3>2, <3>3
  <2> QED BY <2>1, <2>2 DEF Received
<1>7. Grows
  <2> SUFFICES ASSUME NEW q \in Peers
               PROVE  Received(q) \subseteq Received(q)'
    BY DEF Grows
  <2>1. CASE q = p
    BY <1>6, <2>1
  <2>2. CASE q # p
    BY <1>2, <2>2 DEF Received
  <2> QED BY <2>1, <2>2
<1>8. Ahead'
  <2> SUFFICES ASSUME NEW q \in Peers, NEW m \in reorder_buffer'[q]
               PROVE  expected_recv_nonce'[q] < m
    BY DEF Ahead
  <2>1. CASE q = p
    BY <1>1, <2>1 DEF Beyond
  <2>2. CASE q # p
    BY <1>2, <2>2 DEF Ahead
  <2> QED BY <2>1, <2>2
<1> QED BY <1>3, <1>7, <1>8

(* Gap recovery alone.                                                        *)
LEMMA GapRecoveryGrows ==
  ASSUME RecvTypeOK, Ahead, NEW p \in Peers,
         NEW resume \in 0..NonceLimit, NEW base \in 0..NonceLimit,
         AfterGapRecovery(p, resume, base),
         expected_recv_nonce' = [expected_recv_nonce EXCEPT ![p] = base],
         reorder_buffer' = [reorder_buffer EXCEPT ![p] = Beyond(reorder_buffer[p], base)]
  PROVE  /\ Grows
         /\ Ahead'
         /\ Received(p)' = (0..(base - 1)) \cup Beyond(reorder_buffer[p], base)
<1> DEFINE buf == Beyond(reorder_buffer[p], base)
<1>1. base \in Nat /\ buf \in SUBSET Nonce
  BY GapRecoveryType
<1>2. Beyond(buf, base) = buf
  BY DEF Beyond
<1>3. DrainsTo(buf, base, base)
  BY <1>1 DEF DrainsTo, Beyond
<1>4. reorder_buffer' = [reorder_buffer EXCEPT ![p] = Beyond(buf, base)]
  BY <1>2
<1> HIDE DEF buf
<1>5. Beyond(reorder_buffer[p], base) \subseteq buf
  BY DEF buf
<1>6. Grows /\ Ahead' /\ Received(p)' = (0..(base - 1)) \cup Beyond(buf, base)
  BY <1>1, <1>3, <1>4, <1>5, ReceiveGrows
<1> QED BY <1>2, <1>6 DEF buf

LEMMA ReceiverStands ==
  ASSUME Ahead, UNCHANGED <<expected_recv_nonce, reorder_buffer>>
  PROVE  Grows /\ Ahead'
BY DEF Grows, Received, Ahead

--------------------------------------------------------------------------------
(* The sending half.                                                          *)

TruthfulFrame(p, f) == f.kind = "Ack" => f.acked \subseteq Received(p)

(* New frames keep the Acks truthful when they are, as things stand after     *)
(* the step.                                                                  *)
LEMMA AcksStep ==
  ASSUME SendTyped, AcksTruthful, Grows, NEW p \in Peers, NEW frames \in Seq(Frame),
         sent' = [sent EXCEPT ![p] = sent[p] \o frames],
         \A i \in DOMAIN frames : frames[i].kind = "Ack" => frames[i].acked \subseteq Received(p)'
  PROVE  AcksTruthful'
<1> SUFFICES ASSUME NEW q \in Peers, NEW i \in DOMAIN sent'[q], sent'[q][i].kind = "Ack"
             PROVE  sent'[q][i].acked \subseteq Received(q)'
  BY DEF AcksTruthful
<1>1. CASE q = p
  <2>1. sent'[p] = sent[p] \o frames /\ sent[p] \in Seq(Frame)
    BY DEF SendTyped
  <2>2. CASE i \in DOMAIN sent[p]
    <3>1. sent'[p][i] = sent[p][i]
      BY <2>1, <2>2
    <3> QED BY <1>1, <2>2, <3>1 DEF AcksTruthful, Grows
  <2>3. CASE i \notin DOMAIN sent[p]
    <3>1. i - Len(sent[p]) \in DOMAIN frames /\ sent'[p][i] = frames[i - Len(sent[p])]
      BY <1>1, <2>1, <2>3
    <3> QED BY <1>1, <3>1
  <2> QED BY <2>2, <2>3
<1>2. CASE q # p
  <2>1. sent'[q] = sent[q]
    BY <1>2 DEF SendTyped
  <2> QED BY <2>1 DEF AcksTruthful, Grows
<1> QED BY <1>1, <1>2

LEMMA AcksStand ==
  ASSUME AcksTruthful, Grows, sent' = sent
  PROVE  AcksTruthful'
BY DEF AcksTruthful, Grows

(* Who answers for frame n of p.                                              *)
Answered(p, n) ==
  \/ n \in DOMAIN sent_history[p]
  \/ n \in Received(Other(p))
  \/ n \in gave_up[p] \cup overflowed[p]

LEMMA CustodyIs == Custody <=> \A p \in Peers : \A n \in 0..(SendNonce(p) - 1) : Answered(p, n)
BY DEF Custody, Answered

(* The frames of the others are answered for as before.                       *)
LEMMA OthersAnswered ==
  ASSUME Custody, Grows, NEW p \in Peers, NEW q \in Peers, q # p,
         sent'[q] = sent[q], sent_history'[q] = sent_history[q],
         gave_up'[q] = gave_up[q], overflowed'[q] = overflowed[q]
  PROVE  \A n \in 0..(SendNonce(q)' - 1) : Answered(q, n)'
<1>1. SendNonce(q)' = SendNonce(q)
  BY DEF SendNonce
<1>2. Received(Other(q)) \subseteq Received(Other(q))'
  BY OtherPeer DEF Grows
<1> QED BY <1>1, <1>2, CustodyIs DEF Answered

(* Building frames from a history that dropped only what the receiver knows   *)
(* keeps custody: a new frame enters the history or overflows it.             *)
LEMMA EmitCustody ==
  ASSUME SendTyped, Custody, Grows, NEW p \in Peers, NEW history \in History(p),
         NEW frames \in Seq(Frame), Emit(p, history, frames), gave_up' = gave_up,
         \A n \in DOMAIN sent_history[p] : n \in DOMAIN history \/ n \in Received(Other(p))
  PROVE  Custody'
<1> DEFINE pushed == Pushed(p, history, frames)
           new == NewNonces(p, frames)
<1>1. /\ sent' = [sent EXCEPT ![p] = sent[p] \o frames]
      /\ sent_history' = [sent_history EXCEPT ![p] = pushed]
      /\ overflowed' = [overflowed EXCEPT ![p] =
           overflowed[p] \cup ((DOMAIN history \cup new) \ DOMAIN pushed)]
  BY DEF Emit
<1>2. /\ sent'[p] = sent[p] \o frames
      /\ sent_history'[p] = pushed
      /\ overflowed'[p] = overflowed[p] \cup ((DOMAIN history \cup new) \ DOMAIN pushed)
  BY <1>1 DEF SendTyped
<1>3. SendNonce(p) \in Nat /\ Len(frames) \in Nat /\ SendNonce(p)' = SendNonce(p) + Len(frames)
  BY <1>2 DEF SendTyped, SendNonce
<1>4. Received(Other(p)) \subseteq Received(Other(p))'
  BY OtherPeer DEF Grows
<1> HIDE DEF pushed
<1>5. ASSUME NEW n \in 0..(SendNonce(p)' - 1)
      PROVE  Answered(p, n)'
  <2>1. CASE n \in new
    BY <1>2, <2>1 DEF Answered
  <2>2. CASE n \notin new
    <3>1. n \in 0..(SendNonce(p) - 1)
      BY <1>3, <2>2 DEF NewNonces
    <3>2. Answered(p, n)
      BY <3>1, CustodyIs
    <3>3. CASE n \in DOMAIN history
      BY <1>2, <3>3 DEF Answered
    <3>4. CASE n \in Received(Other(p))
      BY <1>4, <3>4 DEF Answered
    <3>5. CASE n \in gave_up[p] \cup overflowed[p]
      BY <1>2, <3>5 DEF Answered
    <3> QED BY <3>2, <3>3, <3>4, <3>5 DEF Answered
  <2> QED BY <2>1, <2>2
<1>6. ASSUME NEW q \in Peers, q # p
      PROVE  \A n \in 0..(SendNonce(q)' - 1) : Answered(q, n)'
  BY <1>1, <1>6, OthersAnswered DEF SendTyped
<1> QED BY <1>5, <1>6 DEF Custody, Answered

LEMMA CustodyStands ==
  ASSUME Custody, Grows, UNCHANGED <<sent, gave_up, overflowed>>,
         \A q \in Peers : DOMAIN sent_history'[q] = DOMAIN sent_history[q]
  PROVE  Custody'
<1> SUFFICES ASSUME NEW q \in Peers, NEW n \in 0..(SendNonce(q)' - 1)
             PROVE  Answered(q, n)'
  BY DEF Custody, Answered
<1>1. SendNonce(q)' = SendNonce(q)
  BY DEF SendNonce
<1>2. Answered(q, n)
  BY <1>1, CustodyIs
<1>3. Received(Other(q)) \subseteq Received(Other(q))'
  BY OtherPeer DEF Grows
<1> QED BY <1>2, <1>3 DEF Answered

--------------------------------------------------------------------------------
(* Every action keeps the invariant (the types are TypeCorrect's business).   *)

Safe == Ahead /\ AcksTruthful /\ Custody

LEMMA AppendedSafe ==
  ASSUME Typed, Safe, NEW p \in Peers, NEW f \in Frame, f.kind # "Ack",
         Emit(p, sent_history[p], <<f>>), gave_up' = gave_up,
         UNCHANGED <<expected_recv_nonce, reorder_buffer>>
  PROVE  Safe'
<1>1. Grows /\ Ahead' /\ SendTyped
  BY ReceiverStands DEF Safe, Typed
<1>2. <<f>> \in Seq(Frame) /\ \A i \in DOMAIN <<f>> : <<f>>[i] = f
  OBVIOUS
<1>3. AcksTruthful'
  BY <1>1, <1>2, AcksStep DEF Safe, Emit
<1>4. Custody'
  BY <1>1, <1>2, EmitCustody, SentType DEF Safe
<1> QED BY <1>1, <1>3, <1>4 DEF Safe

LEMMA OutboundSafe == Typed /\ Safe /\ (\E p \in Peers : Outbound(p)) => Safe'
<1> SUFFICES ASSUME Typed, Safe, NEW p \in Peers, Outbound(p)
             PROVE  Safe'
  OBVIOUS
<1>1. DataFrame \in Frame /\ DataFrame.kind # "Ack"
  BY DEF DataFrame, Frame
<1>2. /\ Emit(p, sent_history[p], <<DataFrame>>) /\ gave_up' = gave_up
      /\ UNCHANGED <<expected_recv_nonce, reorder_buffer>>
  BY DEF Outbound, recvVars
<1> QED BY <1>1, <1>2, AppendedSafe

LEMMA StartCloseSafe == Typed /\ Safe /\ (\E p \in Peers : StartClose(p)) => Safe'
<1> SUFFICES ASSUME Typed, Safe, NEW p \in Peers, StartClose(p)
             PROVE  Safe'
  OBVIOUS
<1>1. CloseFrame \in Frame /\ CloseFrame.kind # "Ack"
  BY DEF CloseFrame, Frame
<1>2. /\ Emit(p, sent_history[p], <<CloseFrame>>) /\ gave_up' = gave_up
      /\ UNCHANGED <<expected_recv_nonce, reorder_buffer>>
  BY DEF StartClose, recvVars
<1> QED BY <1>1, <1>2, AppendedSafe

LEMMA ForceCloseSafe == Typed /\ Safe /\ (\E p \in Peers : ForceClose(p)) => Safe'
<1> SUFFICES ASSUME Typed, Safe, NEW p \in Peers, ForceClose(p)
             PROVE  Safe'
  OBVIOUS
<1>1. UNCHANGED <<expected_recv_nonce, reorder_buffer, sent, sent_history, gave_up, overflowed>>
  BY DEF ForceClose, recvVars, sendVars
<1>2. Grows /\ Ahead'
  BY <1>1, ReceiverStands DEF Safe
<1> QED BY <1>1, <1>2, AcksStand, CustodyStands DEF Safe

LEMMA PathChangeSafe == Typed /\ Safe /\ (\E p \in Peers : PathChange(p)) => Safe'
<1> SUFFICES ASSUME Typed, Safe, NEW p \in Peers, PathChange(p)
             PROVE  Safe'
  OBVIOUS
<1>1. UNCHANGED <<expected_recv_nonce, reorder_buffer, sent, gave_up, overflowed>>
  BY DEF PathChange, recvVars
<1>2. Grows /\ Ahead'
  BY <1>1, ReceiverStands DEF Safe
<1>3. \A q \in Peers : DOMAIN sent_history'[q] = DOMAIN sent_history[q]
  BY DEF PathChange, Typed, SendTyped
<1> QED BY <1>1, <1>2, <1>3, AcksStand, CustodyStands DEF Safe

LEMMA RecvDuplicateSafe ==
  ASSUME Typed, Safe, NEW p \in Peers, NEW n \in Nonce, NEW resume \in 0..NonceLimit,
         NEW base \in 0..NonceLimit, AfterGapRecovery(p, resume, base),
         RecvDuplicate(p, n, resume, base)
  PROVE  Safe'
<1> DEFINE buf == Beyond(reorder_buffer[p], base)
           ack == AckFrame(AckedNonces(base, buf))
<1>1. RecvTypeOK /\ SendTyped /\ base \in Nat /\ buf \in SUBSET Nonce
  BY GapRecoveryType DEF Typed
<1>2. Grows /\ Ahead' /\ Received(p)' = (0..(base - 1)) \cup buf
  BY <1>1, GapRecoveryGrows DEF Safe, RecvDuplicate, Advance
<1>3. Emit(p, sent_history[p], <<ack>>) /\ gave_up' = gave_up
  BY DEF RecvDuplicate
<1>4. ack \in Frame /\ ack.acked \subseteq Received(p)'
  BY <1>1, <1>2, AckFrameType, AckedNoncesBound DEF AckFrame
<1> HIDE DEF ack
<1>5. <<ack>> \in Seq(Frame) /\ \A i \in DOMAIN <<ack>> : <<ack>>[i] = ack
  BY <1>4
<1>6. AcksTruthful'
  BY <1>1, <1>2, <1>3, <1>4, <1>5, AcksStep DEF Safe, Emit
<1>7. Custody'
  BY <1>1, <1>2, <1>3, <1>5, EmitCustody, SentType DEF Safe
<1> QED BY <1>2, <1>6, <1>7 DEF Safe

LEMMA RecvBeyondWindowSafe ==
  ASSUME Typed, Safe, NEW p \in Peers, NEW n \in Nonce, NEW resume \in 0..NonceLimit,
         NEW base \in 0..NonceLimit, AfterGapRecovery(p, resume, base),
         RecvBeyondWindow(p, n, resume, base)
  PROVE  Safe'
<1>1. RecvTypeOK /\ SendTyped
  BY DEF Typed
<1>2. Grows /\ Ahead'
  BY <1>1, GapRecoveryGrows DEF Safe, RecvBeyondWindow, Advance
<1>3. Emit(p, sent_history[p], <<NackFrame(base)>>) /\ gave_up' = gave_up
  BY DEF RecvBeyondWindow
<1>4. NackFrame(base) \in Frame /\ NackFrame(base).kind # "Ack"
  BY NackFrameType DEF NackFrame
<1>5. <<NackFrame(base)>> \in Seq(Frame)
      /\ \A i \in DOMAIN <<NackFrame(base)>> : <<NackFrame(base)>>[i] = NackFrame(base)
  BY <1>4
<1>6. AcksTruthful'
  BY <1>1, <1>2, <1>3, <1>4, <1>5, AcksStep DEF Safe, Emit
<1>7. Custody'
  BY <1>1, <1>2, <1>3, <1>5, EmitCustody, SentType DEF Safe
<1> QED BY <1>2, <1>6, <1>7 DEF Safe

LEMMA RecvDamagedSafe ==
  ASSUME Typed, Safe, NEW p \in Peers, NEW n \in Nonce, NEW resume \in 0..NonceLimit,
         NEW base \in 0..NonceLimit, AfterGapRecovery(p, resume, base),
         RecvDamaged(p, n, resume, base)
  PROVE  Safe'
<1>1. Grows /\ Ahead'
  BY GapRecoveryGrows DEF Safe, RecvDamaged, Typed
<1>2. UNCHANGED <<sent, sent_history, gave_up, overflowed>>
  BY DEF RecvDamaged, sendVars
<1> QED BY <1>1, <1>2, AcksStand, CustodyStands DEF Safe

LEMMA TwoFrames ==
  ASSUME NEW f \in Frame, NEW g \in Frame, NEW s \in {<<>>, <<f>>}, NEW t \in {<<>>, <<g>>}
  PROVE  /\ s \o t \in Seq(Frame)
         /\ \A i \in DOMAIN (s \o t) : (s \o t)[i] \in {f, g}
<1>1. s \in Seq(Frame) /\ t \in Seq(Frame)
  BY AtMostOneFrame
<1>2. CASE s = <<>>
  <2>1. CASE t = <<>>
    BY <1>2, <2>1
  <2>2. CASE t = <<g>>
    BY <1>2, <2>2
  <2> QED BY <2>1, <2>2
<1>3. CASE s = <<f>>
  <2>1. CASE t = <<>>
    BY <1>3, <2>1
  <2>2. CASE t = <<g>>
    BY <1>3, <2>2
  <2> QED BY <2>1, <2>2
<1> QED BY <1>2, <1>3

LEMMA RecvFrameSafe ==
  ASSUME Typed, Safe, NEW p \in Peers, NEW n \in Nonce, NEW resume \in 0..NonceLimit,
         NEW base \in 0..NonceLimit, AfterGapRecovery(p, resume, base),
         n < SendNonce(Other(p)), RecvFrame(p, n, resume, base)
  PROVE  Safe'
<1> DEFINE f == FrameOf(Other(p), n)
           buf == Stored(p, n, base)
<1>1. RecvTypeOK /\ SendTyped /\ base \in Nat
  BY LimitsAssumption DEF Typed
<1>2. PICK to \in base..NonceLimit :
        /\ DrainsTo(buf, base, to)
        /\ Advance(p, resume, to, Beyond(buf, to))
        /\ \E nack \in {<<>>, <<NackFrame(to)>>},
              ack  \in {<<>>, <<AckFrame(AckedNonces(to, Beyond(buf, to)))>>} :
             Emit(p, HistoryAfter(p, f), nack \o ack)
  BY DEF RecvFrame
<1>3. to \in 0..NonceLimit /\ to \in Nat
  BY <1>1, LimitsAssumption
<1>4. buf \in SUBSET Nonce /\ Beyond(buf, to) \in SUBSET Nonce
  BY <1>1, StoredType
<1>5. Beyond(reorder_buffer[p], base) \subseteq buf
  BY DEF Stored
<1>6. Grows /\ Ahead' /\ Received(p)' = (0..(to - 1)) \cup Beyond(buf, to)
  BY <1>1, <1>2, <1>3, <1>4, <1>5, ReceiveGrows DEF Safe, Advance
<1> DEFINE ackFrame == AckFrame(AckedNonces(to, Beyond(buf, to)))
<1>7. PICK nack \in {<<>>, <<NackFrame(to)>>}, ack \in {<<>>, <<ackFrame>>} :
        Emit(p, HistoryAfter(p, f), nack \o ack)
  BY <1>2
<1>8. NackFrame(to) \in Frame /\ NackFrame(to).kind # "Ack"
  BY <1>3, NackFrameType DEF NackFrame
<1>9. ackFrame \in Frame /\ ackFrame.acked \subseteq Received(p)'
  BY <1>3, <1>4, <1>6, AckFrameType, AckedNoncesBound DEF AckFrame
<1> HIDE DEF ackFrame, buf
<1>10. /\ nack \o ack \in Seq(Frame)
       /\ \A i \in DOMAIN (nack \o ack) : (nack \o ack)[i] \in {NackFrame(to), ackFrame}
  BY <1>8, <1>9, TwoFrames
<1>11. AcksTruthful'
  <2>1. sent' = [sent EXCEPT ![p] = sent[p] \o (nack \o ack)]
    BY <1>7 DEF Emit
  <2>2. \A i \in DOMAIN (nack \o ack) :
          (nack \o ack)[i].kind = "Ack" => (nack \o ack)[i].acked \subseteq Received(p)'
    BY <1>8, <1>9, <1>10
  <2> QED BY <1>1, <1>6, <1>10, <2>1, <2>2, AcksStep DEF Safe
<1>12. \A m \in DOMAIN sent_history[p] :
         m \in DOMAIN HistoryAfter(p, f) \/ m \in Received(Other(p))
  <2>1. DOMAIN HistoryAfter(p, f) =
          DOMAIN sent_history[p] \ (IF f.kind = "Ack" THEN f.acked ELSE {})
    BY <1>1, HistoryAfterType
  <2>2. f.kind = "Ack" => f.acked \subseteq Received(Other(p))
    <3>1. Other(p) \in Peers /\ n \in Nat
      BY OtherPeer, NonceIs
    <3>2. n + 1 \in DOMAIN sent[Other(p)]
      BY <1>1, <3>1 DEF SendTyped, SendNonce
    <3> QED BY <3>1, <3>2 DEF Safe, AcksTruthful, FrameOf
  <2> QED BY <2>1, <2>2
<1>13. gave_up' = gave_up
  BY DEF RecvFrame
<1>14. Custody'
  BY <1>1, <1>6, <1>7, <1>10, <1>12, <1>13, EmitCustody, HistoryAfterType DEF Safe
<1> QED BY <1>6, <1>11, <1>14 DEF Safe

LEMMA InboundSafe == Typed /\ Safe /\ (\E p \in Peers, n \in Nonce : Inbound(p, n)) => Safe'
<1> SUFFICES ASSUME Typed, Safe, NEW p \in Peers, NEW n \in Nonce, Inbound(p, n)
             PROVE  Safe'
  OBVIOUS
<1> QED BY RecvDuplicateSafe, RecvBeyondWindowSafe, RecvDamagedSafe, RecvFrameSafe DEF Inbound

LEMMA TickSafe == Typed /\ Safe /\ (\E p \in Peers : Tick(p)) => Safe'
<1> SUFFICES ASSUME Typed, Safe, NEW p \in Peers, Tick(p)
             PROVE  Safe'
  OBVIOUS
<1> DEFINE ackFrame == AckFrame(AckedNonces(expected_recv_nonce[p], reorder_buffer[p]))
<1>1. RecvTypeOK /\ SendTyped
  BY DEF Typed
<1>2. Grows /\ Ahead'
  BY ReceiverStands DEF Safe, Tick, recvVars
<1>3. PICK frames \in {<<>>, <<ackFrame>>} :
       LET pushed  == Pushed(p, sent_history[p], frames)
           new     == NewNonces(p, frames)
           zombies == Zombies(p) \cap DOMAIN pushed
       IN  /\ sent' = [sent EXCEPT ![p] = @ \o frames]
           /\ gave_up' = [gave_up EXCEPT ![p] = @ \cup zombies]
           /\ overflowed' = [overflowed EXCEPT ![p] =
                @ \cup ((DOMAIN sent_history[p] \cup new) \ DOMAIN pushed)]
           /\ \E due : sent_history' = [sent_history EXCEPT ![p] =
                [n \in DOMAIN pushed \ zombies |->
                   IF n \in Oldest(due) THEN Resend(pushed[n]) ELSE pushed[n]]]
  BY DEF Tick
<1> DEFINE pushed == Pushed(p, sent_history[p], frames)
           new == NewNonces(p, frames)
           zombies == Zombies(p) \cap DOMAIN pushed
<1>4. ackFrame \in Frame /\ ackFrame.acked \subseteq Received(p)'
  <2>1. expected_recv_nonce[p] \in Nat /\ expected_recv_nonce[p] \in 0..NonceLimit
        /\ reorder_buffer[p] \in SUBSET Nonce
    BY <1>1, LimitsAssumption DEF RecvTypeOK
  <2>2. ackFrame.acked \subseteq Received(p)
    BY <2>1, AckedNoncesBound DEF AckFrame, Received
  <2> QED BY <1>2, <2>1, <2>2, AckFrameType DEF Grows
<1> HIDE DEF ackFrame
<1>5. frames \in Seq(Frame) /\ \A i \in DOMAIN frames : frames[i] = ackFrame
  <2>1. CASE frames = <<>>
    BY <2>1
  <2>2. CASE frames = <<ackFrame>>
    BY <1>4, <2>2
  <2> QED BY <2>1, <2>2
<1>6. AcksTruthful'
  BY <1>1, <1>2, <1>3, <1>4, <1>5, AcksStep DEF Safe
<1>7. ASSUME NEW n \in 0..(SendNonce(p)' - 1)
      PROVE  Answered(p, n)'
  <2>1. /\ sent'[p] = sent[p] \o frames
        /\ gave_up'[p] = gave_up[p] \cup zombies
        /\ overflowed'[p] = overflowed[p] \cup ((DOMAIN sent_history[p] \cup new) \ DOMAIN pushed)
        /\ DOMAIN sent_history'[p] = DOMAIN pushed \ zombies
    BY <1>1, <1>3 DEF SendTyped
  <2>2. SendNonce(p) \in Nat /\ Len(frames) \in Nat /\ SendNonce(p)' = SendNonce(p) + Len(frames)
    BY <1>1, <1>5, <2>1 DEF SendTyped, SendNonce
  <2> HIDE DEF pushed, zombies
  <2>3. CASE n \in new \cup DOMAIN sent_history[p]
    BY <2>1, <2>3 DEF Answered
  <2>4. CASE n \notin new \cup DOMAIN sent_history[p]
    <3>1. n \in 0..(SendNonce(p) - 1)
      BY <2>2, <2>4 DEF NewNonces
    <3>2. Answered(p, n)
      BY <3>1, CustodyIs DEF Safe
    <3>3. Received(Other(p)) \subseteq Received(Other(p))'
      BY <1>2, OtherPeer DEF Grows
    <3> QED BY <2>1, <2>4, <3>2, <3>3 DEF Answered
  <2> QED BY <2>3, <2>4
<1>8. ASSUME NEW q \in Peers, q # p
      PROVE  \A n \in 0..(SendNonce(q)' - 1) : Answered(q, n)'
  <2>1. /\ sent'[q] = sent[q] /\ sent_history'[q] = sent_history[q]
        /\ gave_up'[q] = gave_up[q] /\ overflowed'[q] = overflowed[q]
    BY <1>1, <1>3, <1>8 DEF SendTyped
  <2> QED BY <1>2, <1>8, <2>1, OthersAnswered DEF Safe
<1>9. Custody'
  BY <1>7, <1>8 DEF Custody, Answered
<1> QED BY <1>2, <1>6, <1>9 DEF Safe

--------------------------------------------------------------------------------

(* An Ack never claims a frame its sender neither holds nor has moved past,   *)
(* and a frame leaves its sender's history only when the receiver knows it or *)
(* the sender gave it up: in every reachable state.                           *)
THEOREM NoFrameIsLost == Spec => [](AcksTruthful /\ Custody)
<1>1. Init => Safe
  <2> SUFFICES ASSUME Init PROVE Safe
    OBVIOUS
  <2>1. \A p \in Peers : sent[p] = <<>> /\ reorder_buffer[p] = {}
    BY DEF Init
  <2>2. \A p \in Peers : SendNonce(p) = 0 /\ DOMAIN sent[p] = {}
    BY <2>1 DEF SendNonce
  <2> QED BY <2>1, <2>2 DEF Safe, Ahead, AcksTruthful, Custody
<1>2. Typed /\ Safe /\ [Next]_vars => Safe'
  <2> SUFFICES ASSUME Typed, Safe, [Next]_vars PROVE Safe'
    OBVIOUS
  <2>1. CASE Next
    BY <2>1, OutboundSafe, StartCloseSafe, ForceCloseSafe, PathChangeSafe, TickSafe,
       InboundSafe DEF Next
  <2>2. CASE UNCHANGED vars
    <3>1. UNCHANGED <<expected_recv_nonce, reorder_buffer, sent, sent_history, gave_up, overflowed>>
      BY <2>2 DEF vars, recvVars, sendVars
    <3>2. Grows /\ Ahead'
      BY <3>1, ReceiverStands DEF Safe
    <3> QED BY <3>1, <3>2, AcksStand, CustodyStands DEF Safe
  <2> QED BY <2>1, <2>2
<1>3. Spec => []Typed
  BY TypedAlways
<1>4. Safe => AcksTruthful /\ Custody
  BY DEF Safe
<1> QED BY <1>1, <1>2, <1>3, <1>4, PTL DEF Spec

--------------------------------------------------------------------------------
(* Runs of nonces and increasing sequences.                                   *)

LEMMA NonceFinite == IsFiniteSet(Nonce) /\ \A S \in SUBSET Nonce : IsFiniteSet(S)
<1>1. IsFiniteSet(Nonce)
  BY LimitsAssumption, FS_Interval DEF Nonce
<1> QED BY <1>1, FS_Subset

LEMMA RunIs ==
  ASSUME NEW from \in Nat, NEW to \in Nat, from <= to
  PROVE  /\ Run(from, to) \in Seq(Nat)
         /\ Len(Run(from, to)) = to - from
         /\ \A i \in 1..(to - from) : Run(from, to)[i] = from + i - 1
<1>1. to - from \in Nat
  OBVIOUS
<1>2. \A i \in 1..(to - from) : from + i - 1 \in Nat
  OBVIOUS
<1>3. Run(from, to) \in [1..(to - from) -> Nat]
  BY <1>2 DEF Run
<1> QED BY <1>1, <1>3 DEF Run

Increasing(s) == \A i, j \in DOMAIN s : i < j => s[i] < s[j]
Below(s, n) == \A i \in DOMAIN s : s[i] < n
Elements(s) == {s[i] : i \in DOMAIN s}

LEMMA JoinIs ==
  ASSUME NEW s \in Seq(Nat), NEW r \in Seq(Nat), NEW l \in Nat, NEW k \in Nat,
         l = Len(s), k = Len(r)
  PROVE  /\ DOMAIN s = 1..l /\ DOMAIN (s \o r) = 1..(l + k)
         /\ \A i \in 1..l : (s \o r)[i] = s[i] /\ s[i] \in Nat
         /\ \A i \in 1..(l + k) : i > l => (s \o r)[i] = r[i - l]
OBVIOUS

(* A run that starts where the sequence ends keeps it increasing.             *)
LEMMA AppendRun ==
  ASSUME NEW s \in Seq(Nat), NEW end \in Nat, NEW from \in Nat, NEW to \in Nat,
         end <= from, from <= to, Increasing(s), Below(s, end)
  PROVE  /\ Increasing(s \o Run(from, to))
         /\ Below(s \o Run(from, to), to)
         /\ Elements(s \o Run(from, to)) = Elements(s) \cup (from..(to - 1))
<1> DEFINE all == s \o Run(from, to)
<1>1. PICK l \in Nat : l = Len(s)
  OBVIOUS
<1>2. PICK k \in Nat : k = to - from
  OBVIOUS
<1>3. /\ DOMAIN s = 1..l /\ DOMAIN all = 1..(l + k)
      /\ \A i \in 1..l : all[i] = s[i] /\ s[i] \in Nat
      /\ \A i \in 1..(l + k) : i > l => all[i] = Run(from, to)[i - l]
  <2>1. Run(from, to) \in Seq(Nat) /\ k = Len(Run(from, to))
    BY <1>2, RunIs
  <2> QED BY <1>1, <2>1, JoinIs, SMTT(30)
<1>4. \A i \in 1..k : Run(from, to)[i] = from + i - 1
  BY <1>2, RunIs
<1>5. \A i \in 1..(l + k) : i > l => all[i] = from + (i - l) - 1
  <2> SUFFICES ASSUME NEW i \in 1..(l + k), i > l
               PROVE  all[i] = from + (i - l) - 1
    OBVIOUS
  <2>1. i - l \in 1..k
    OBVIOUS
  <2> QED BY <1>3, <1>4, <2>1
<1>6. \A i \in 1..l : all[i] \in Nat /\ all[i] < end
  BY <1>3 DEF Below
<1> HIDE DEF all
<1>7. Increasing(all)
  <2> SUFFICES ASSUME NEW i \in 1..(l + k), NEW j \in 1..(l + k), i < j
               PROVE  all[i] < all[j]
    BY <1>3 DEF Increasing
  <2>1. CASE j <= l
    <3>1. i \in 1..l /\ j \in 1..l
      BY <2>1
    <3> QED BY <1>3, <3>1 DEF Increasing
  <2>2. CASE l < i
    BY <1>5, <2>2
  <2>3. CASE i <= l /\ l < j
    <3>1. all[i] < end /\ all[i] \in Nat
      BY <1>6, <2>3
    <3>2. all[j] = from + (j - l) - 1
      BY <1>5, <2>3
    <3> QED BY <2>3, <3>1, <3>2
  <2> QED BY <2>1, <2>2, <2>3
<1>8. Below(all, to)
  <2> SUFFICES ASSUME NEW i \in 1..(l + k)
               PROVE  all[i] < to
    BY <1>3 DEF Below
  <2>1. CASE i <= l
    BY <1>6, <2>1
  <2>2. CASE l < i
    BY <1>2, <1>5, <2>2
  <2> QED BY <2>1, <2>2
<1>9. Elements(all) = Elements(s) \cup (from..(to - 1))
  <2>1. ASSUME NEW i \in 1..(l + k)
        PROVE  all[i] \in Elements(s) \cup (from..(to - 1))
    <3>1. CASE i <= l
      BY <1>3, <3>1, SMTT(30) DEF Elements
    <3>2. CASE l < i
      BY <1>2, <1>5, <3>2
    <3> QED BY <3>1, <3>2
  <2>2. ASSUME NEW i \in 1..l
        PROVE  s[i] \in Elements(all)
    <3>1. i \in DOMAIN all /\ all[i] = s[i]
      BY <1>3
    <3> QED BY <3>1 DEF Elements
  <2>3. ASSUME NEW n \in from..(to - 1)
        PROVE  n \in Elements(all)
    <3>1. l + (n - from) + 1 \in 1..(l + k) /\ l + (n - from) + 1 > l
      BY <1>2
    <3>2. all[l + (n - from) + 1] = n
      BY <1>5, <3>1
    <3> QED BY <1>3, <3>1, <3>2 DEF Elements
  <2> QED BY <1>3, <2>1, <2>2, <2>3 DEF Elements
<1> QED BY <1>7, <1>8, <1>9 DEF all

--------------------------------------------------------------------------------
(* The parts of Delivery, one peer at a time.                                 *)

InOrder(p) == Increasing(released[p]) /\ Below(released[p], expected_recv_nonce[p])

Accounted(p) ==
  /\ 0..(expected_recv_nonce[p] - 1) = Elements(released[p]) \cup skipped[p] \cup discarded[p]
  /\ Elements(released[p]) \cap (skipped[p] \cup discarded[p]) = {}
  /\ skipped[p] \cap discarded[p] = {}

(* What a receiver at "to" may hold of the peer's frames 0..limit-1.          *)
Fits(to, buf, limit) ==
  /\ \A m \in buf : to < m /\ m <= to + MaxReorder /\ m < limit
  /\ to <= limit
  /\ Cardinality(buf) <= MaxReorderBuffer

LEMMA DeliveryIs ==
  Delivery <=> \A p \in Peers :
                 /\ InOrder(p) /\ Accounted(p)
                 /\ Fits(expected_recv_nonce[p], reorder_buffer[p], SendNonce(Other(p)))
<1>1. \A p \in Peers : ReleasedSet(p) = Elements(released[p])
  BY DEF ReleasedSet, Elements
<1>2. InOrderAtMostOnce <=> \A p \in Peers : InOrder(p)
  BY DEF InOrderAtMostOnce, InOrder, Increasing, Below
<1>3. PassedIsAccountedFor <=> \A p \in Peers : Accounted(p)
  BY <1>1 DEF PassedIsAccountedFor, Accounted
<1>4. ReorderWindow <=>
        \A p \in Peers : Fits(expected_recv_nonce[p], reorder_buffer[p], SendNonce(Other(p)))
  BY DEF ReorderWindow, Fits
<1> QED BY <1>2, <1>3, <1>4 DEF Delivery

LEMMA DeliveryNext ==
  ASSUME \A p \in Peers :
           /\ InOrder(p)' /\ Accounted(p)'
           /\ Fits(expected_recv_nonce[p], reorder_buffer[p], SendNonce(Other(p)))'
  PROVE  Delivery'
<1>1. \A p \in Peers : ReleasedSet(p)' = Elements(released[p])'
  BY DEF ReleasedSet, Elements
<1>2. InOrderAtMostOnce'
  BY DEF InOrderAtMostOnce, InOrder, Increasing, Below
<1>3. PassedIsAccountedFor'
  BY <1>1 DEF PassedIsAccountedFor, Accounted
<1>4. ReorderWindow'
  BY DEF ReorderWindow, Fits
<1> QED BY <1>2, <1>3, <1>4 DEF Delivery

(* Frames are only added.                                                     *)
Lengthens == \A q \in Peers : SendNonce(q) <= SendNonce(q)'

LEMMA EmitLengthens ==
  ASSUME SendTyped, NEW p \in Peers, NEW frames \in Seq(Frame),
         sent' = [sent EXCEPT ![p] = sent[p] \o frames]
  PROVE  Lengthens /\ SendNonce(Other(p))' = SendNonce(Other(p))
<1>1. sent'[p] = sent[p] \o frames /\ \A q \in Peers : q # p => sent'[q] = sent[q]
  BY DEF SendTyped
<1>2. \A q \in Peers : SendNonce(q) \in Nat
  BY SentType
<1>3. SendNonce(p)' = SendNonce(p) + Len(frames) /\ Len(frames) \in Nat
  BY <1>1 DEF SendTyped, SendNonce
<1>4. \A q \in Peers : q # p => SendNonce(q)' = SendNonce(q)
  BY <1>1 DEF SendNonce
<1>5. Other(p) \in Peers /\ Other(p) # p
  BY OtherPeer
<1>6. \A q \in Peers : SendNonce(q) <= SendNonce(q)'
  BY <1>2, <1>3, <1>4
<1> QED BY <1>4, <1>5, <1>6 DEF Lengthens

LEMMA FitsLonger ==
  ASSUME NEW to \in Nat, NEW buf \in SUBSET Nonce, NEW a \in Nat, NEW b \in Nat, a <= b,
         Fits(to, buf, a)
  PROVE  Fits(to, buf, b)
<1>1. \A m \in buf : m \in Nat
  BY NonceIs
<1> QED BY <1>1 DEF Fits

(* A peer whose receiving half stands still.                                  *)
LEMMA PeerStands ==
  ASSUME Typed, Typed', Delivery, Lengthens, NEW q \in Peers,
         expected_recv_nonce'[q] = expected_recv_nonce[q], reorder_buffer'[q] = reorder_buffer[q],
         released'[q] = released[q], skipped'[q] = skipped[q], discarded'[q] = discarded[q]
  PROVE  /\ InOrder(q)' /\ Accounted(q)'
         /\ Fits(expected_recv_nonce[q], reorder_buffer[q], SendNonce(Other(q)))'
<1>1. InOrder(q) /\ Accounted(q)
      /\ Fits(expected_recv_nonce[q], reorder_buffer[q], SendNonce(Other(q)))
  BY DeliveryIs
<1>2. InOrder(q)' /\ Accounted(q)'
  BY <1>1 DEF InOrder, Accounted
<1>3. Other(q) \in Peers
  BY OtherPeer
<1>4. SendNonce(Other(q)) \in Nat /\ SendNonce(Other(q))' \in Nat
  <2>1. SendTyped /\ SendTyped'
    BY DEF Typed
  <2> QED BY <1>3, <2>1 DEF SendTyped, SendNonce
<1>5. SendNonce(Other(q)) <= SendNonce(Other(q))'
  BY <1>3 DEF Lengthens
<1>6. expected_recv_nonce[q] \in Nat /\ reorder_buffer[q] \in SUBSET Nonce
  BY LimitsAssumption DEF Typed, RecvTypeOK
<1>7. Fits(expected_recv_nonce[q], reorder_buffer[q], SendNonce(Other(q))')
  BY <1>1, <1>4, <1>5, <1>6, FitsLonger
<1>8. Fits(expected_recv_nonce[q], reorder_buffer[q], SendNonce(Other(q)))'
      <=> Fits(expected_recv_nonce[q], reorder_buffer[q], SendNonce(Other(q))')
  BY DEF Fits
<1> QED BY <1>2, <1>7, <1>8

LEMMA ReceiversStand ==
  ASSUME Typed, Typed', Delivery, Lengthens, UNCHANGED recvVars
  PROVE  Delivery'
<1>1. \A q \in Peers :
        /\ InOrder(q)' /\ Accounted(q)'
        /\ Fits(expected_recv_nonce[q], reorder_buffer[q], SendNonce(Other(q)))'
  BY PeerStands DEF recvVars
<1> QED BY <1>1, DeliveryNext

--------------------------------------------------------------------------------
(* The receiving steps.                                                       *)

LEMMA GapRecoveryBounds ==
  ASSUME Typed, Delivery, NEW p \in Peers,
         NEW resume \in 0..NonceLimit, NEW base \in 0..NonceLimit,
         AfterGapRecovery(p, resume, base)
  PROVE  /\ expected_recv_nonce[p] \in Nat /\ resume \in Nat /\ base \in Nat
         /\ expected_recv_nonce[p] <= resume /\ resume <= base
         /\ base <= SendNonce(Other(p))
<1>1. expected_recv_nonce[p] \in Nat /\ resume \in Nat /\ base \in Nat
  BY LimitsAssumption DEF Typed, RecvTypeOK
<1>2. Other(p) \in Peers /\ SendNonce(Other(p)) \in Nat
  BY OtherPeer, SentType DEF Typed
<1>3. /\ \A m \in reorder_buffer[p] :
           m \in Nat /\ expected_recv_nonce[p] < m /\ m < SendNonce(Other(p))
      /\ expected_recv_nonce[p] <= SendNonce(Other(p))
  BY NonceIs, DeliveryIs DEF Fits, Typed, RecvTypeOK
<1>4. CASE resume = expected_recv_nonce[p] /\ base = resume
  BY <1>1, <1>3, <1>4
<1>5. CASE resume \in reorder_buffer[p] /\ DrainsTo(reorder_buffer[p], resume, base)
  <2>1. expected_recv_nonce[p] < resume /\ resume < SendNonce(Other(p))
    BY <1>3, <1>5
  <2>2. resume <= base /\ (resume..(base - 1)) \subseteq reorder_buffer[p]
    BY <1>5 DEF DrainsTo
  <2>3. CASE base = resume
    BY <1>1, <1>2, <2>1, <2>3
  <2>4. CASE base # resume
    <3>1. base - 1 \in resume..(base - 1)
      BY <1>1, <2>2, <2>4
    <3>2. base - 1 < SendNonce(Other(p))
      BY <1>3, <2>2, <3>1
    <3> QED BY <1>1, <1>2, <2>1, <2>2, <3>2
  <2> QED BY <2>3, <2>4
<1> QED BY <1>1, <1>4, <1>5 DEF AfterGapRecovery

(* What is left of the reorder buffer beyond the expected nonce.              *)
LEMMA BeyondFits ==
  ASSUME Typed, Delivery, NEW p \in Peers, NEW base \in Nat,
         expected_recv_nonce[p] <= base, base <= SendNonce(Other(p))
  PROVE  Fits(base, Beyond(reorder_buffer[p], base), SendNonce(Other(p)))
<1> DEFINE held == reorder_buffer[p]
           rest == Beyond(held, base)
<1>1. /\ expected_recv_nonce[p] \in Nat /\ held \in SUBSET Nonce
      /\ Fits(expected_recv_nonce[p], held, SendNonce(Other(p)))
  BY LimitsAssumption, DeliveryIs DEF Typed, RecvTypeOK
<1>2. \A m \in held : m \in Nat
  BY <1>1, NonceIs
<1>3. MaxReorder \in Nat /\ MaxReorderBuffer \in Nat
  BY LimitsAssumption
<1>4. \A m \in rest : base < m /\ m <= base + MaxReorder /\ m < SendNonce(Other(p))
  BY <1>1, <1>2, <1>3 DEF Beyond, Fits
<1>5. Cardinality(rest) <= MaxReorderBuffer
  <2>1. IsFiniteSet(held) /\ rest \in SUBSET held
    BY <1>1, NonceFinite DEF Beyond
  <2>2. Cardinality(rest) <= Cardinality(held) /\ IsFiniteSet(rest)
    BY <2>1, FS_Subset
  <2>3. Cardinality(held) \in Nat /\ Cardinality(rest) \in Nat
    BY <2>1, <2>2, FS_CardinalityType
  <2>4. Cardinality(held) <= MaxReorderBuffer
    BY <1>1 DEF Fits
  <2> QED BY <1>3, <2>2, <2>3, <2>4
<1> QED BY <1>4, <1>5 DEF Fits

(* The sequence advances over a run that is handed over.                      *)
LEMMA AdvanceDelivers ==
  ASSUME Typed, Typed', Delivery, Lengthens, NEW p \in Peers,
         NEW resume \in Nat, NEW to \in Nat, NEW buf,
         expected_recv_nonce[p] <= resume, resume <= to,
         Advance(p, resume, to, buf),
         SendNonce(Other(p))' = SendNonce(Other(p)),
         Fits(to, buf, SendNonce(Other(p)))
  PROVE  Delivery'
<1> DEFINE end == expected_recv_nonce[p]
<1>1. /\ expected_recv_nonce'[p] = to /\ reorder_buffer'[p] = buf
      /\ released'[p] = released[p] \o Run(resume, to)
      /\ skipped'[p] = skipped[p] \cup (end..(resume - 1))
      /\ discarded'[p] = discarded[p]
  BY DEF Advance, Typed, RecvTypeOK
<1>2. ASSUME NEW q \in Peers, q # p
      PROVE  /\ expected_recv_nonce'[q] = expected_recv_nonce[q]
             /\ reorder_buffer'[q] = reorder_buffer[q]
             /\ released'[q] = released[q] /\ skipped'[q] = skipped[q]
             /\ discarded'[q] = discarded[q]
  BY <1>2 DEF Advance, Typed, RecvTypeOK
<1>3. InOrder(p) /\ Accounted(p)
  BY DeliveryIs
<1>4. end \in Nat /\ released[p] \in Seq(Nat)
  <2>1. released[p] \in Seq(Nonce) /\ end \in Nat
    BY LimitsAssumption DEF Typed, RecvTypeOK
  <2> QED BY <2>1, NonceIs
<1>5. /\ Increasing(released'[p]) /\ Below(released'[p], to)
      /\ Elements(released'[p]) = Elements(released[p]) \cup (resume..(to - 1))
  BY <1>1, <1>3, <1>4, AppendRun DEF InOrder
<1>6. InOrder(p)'
  BY <1>1, <1>5 DEF InOrder, Increasing, Below
<1>7. Accounted(p)'
  <2> DEFINE was == Elements(released[p])
             now == Elements(released'[p])
  <2>1. 0..(end - 1) = was \cup skipped[p] \cup discarded[p]
    BY <1>3 DEF Accounted
  <2>2. now = was \cup (resume..(to - 1))
    BY <1>5
  <2>3. 0..(to - 1) = (0..(end - 1)) \cup (end..(resume - 1)) \cup (resume..(to - 1))
    BY <1>4
  <2>4. was \cap (skipped[p] \cup discarded[p]) = {} /\ skipped[p] \cap discarded[p] = {}
    BY <1>3 DEF Accounted
  <2>5. /\ (0..(end - 1)) \cap (end..(resume - 1)) = {}
        /\ (0..(end - 1)) \cap (resume..(to - 1)) = {}
        /\ (end..(resume - 1)) \cap (resume..(to - 1)) = {}
    BY <1>4
  <2> HIDE DEF was, now
  <2>6. 0..(to - 1) = now \cup skipped'[p] \cup discarded'[p]
    BY <1>1, <2>1, <2>2, <2>3
  <2>7. now \cap (skipped'[p] \cup discarded'[p]) = {} /\ skipped'[p] \cap discarded'[p] = {}
    BY <1>1, <2>1, <2>2, <2>4, <2>5
  <2> QED BY <1>1, <2>6, <2>7 DEF Accounted, now, Elements
<1>8. Fits(expected_recv_nonce[p], reorder_buffer[p], SendNonce(Other(p)))'
  BY <1>1 DEF Fits
<1>9. ASSUME NEW q \in Peers
      PROVE  /\ InOrder(q)' /\ Accounted(q)'
             /\ Fits(expected_recv_nonce[q], reorder_buffer[q], SendNonce(Other(q)))'
  <2>1. CASE q = p
    BY <1>6, <1>7, <1>8, <2>1
  <2>2. CASE q # p
    BY <1>2, <2>2, PeerStands
  <2> QED BY <2>1, <2>2
<1> QED BY <1>9, DeliveryNext

LEMMA RecvDuplicateDelivers ==
  ASSUME Typed, Typed', Delivery, NEW p \in Peers, NEW n \in Nonce,
         NEW resume \in 0..NonceLimit, NEW base \in 0..NonceLimit,
         AfterGapRecovery(p, resume, base), RecvDuplicate(p, n, resume, base)
  PROVE  Delivery'
<1> DEFINE buf == Beyond(reorder_buffer[p], base)
           ack == <<AckFrame(AckedNonces(base, buf))>>
<1>1. RecvTypeOK /\ SendTyped
  BY DEF Typed
<1>2. ack \in Seq(Frame)
  <2>1. buf \in SUBSET Nonce
    BY <1>1, GapRecoveryType
  <2> QED BY <2>1, AckFrameType
<1>3. Advance(p, resume, base, buf) /\ sent' = [sent EXCEPT ![p] = sent[p] \o ack]
  BY DEF RecvDuplicate, Emit
<1> HIDE DEF ack
<1>4. Lengthens /\ SendNonce(Other(p))' = SendNonce(Other(p))
  BY <1>1, <1>2, <1>3, EmitLengthens
<1>5. /\ resume \in Nat /\ base \in Nat /\ expected_recv_nonce[p] <= resume /\ resume <= base
      /\ expected_recv_nonce[p] <= base /\ base <= SendNonce(Other(p))
  BY GapRecoveryBounds
<1>6. Fits(base, buf, SendNonce(Other(p)))
  BY <1>5, BeyondFits
<1> QED BY <1>3, <1>4, <1>5, <1>6, AdvanceDelivers

LEMMA RecvBeyondWindowDelivers ==
  ASSUME Typed, Typed', Delivery, NEW p \in Peers, NEW n \in Nonce,
         NEW resume \in 0..NonceLimit, NEW base \in 0..NonceLimit,
         AfterGapRecovery(p, resume, base), RecvBeyondWindow(p, n, resume, base)
  PROVE  Delivery'
<1> DEFINE buf == Beyond(reorder_buffer[p], base)
           nack == <<NackFrame(base)>>
<1>1. SendTyped /\ nack \in Seq(Frame)
  BY NackFrameType DEF Typed
<1>2. Advance(p, resume, base, buf) /\ sent' = [sent EXCEPT ![p] = sent[p] \o nack]
  BY DEF RecvBeyondWindow, Emit
<1> HIDE DEF nack
<1>3. Lengthens /\ SendNonce(Other(p))' = SendNonce(Other(p))
  BY <1>1, <1>2, EmitLengthens
<1>4. /\ resume \in Nat /\ base \in Nat /\ expected_recv_nonce[p] <= resume /\ resume <= base
      /\ expected_recv_nonce[p] <= base /\ base <= SendNonce(Other(p))
  BY GapRecoveryBounds
<1>5. Fits(base, buf, SendNonce(Other(p)))
  BY <1>4, BeyondFits
<1> QED BY <1>2, <1>3, <1>4, <1>5, AdvanceDelivers

(* What a damaged frame throws away is accounted for as discarded.            *)
LEMMA RecvDamagedDelivers ==
  ASSUME Typed, Typed', Delivery, NEW p \in Peers, NEW n \in Nonce,
         NEW resume \in 0..NonceLimit, NEW base \in 0..NonceLimit,
         AfterGapRecovery(p, resume, base), RecvDamaged(p, n, resume, base)
  PROVE  Delivery'
<1> DEFINE end == expected_recv_nonce[p]
           buf == Beyond(reorder_buffer[p], base)
<1>1. /\ expected_recv_nonce'[p] = base /\ reorder_buffer'[p] = buf
      /\ released'[p] = released[p]
      /\ skipped'[p] = skipped[p] \cup (end..(resume - 1))
      /\ discarded'[p] = discarded[p] \cup (resume..(base - 1))
  BY DEF RecvDamaged, Typed, RecvTypeOK
<1>2. ASSUME NEW q \in Peers, q # p
      PROVE  /\ expected_recv_nonce'[q] = expected_recv_nonce[q]
             /\ reorder_buffer'[q] = reorder_buffer[q]
             /\ released'[q] = released[q] /\ skipped'[q] = skipped[q]
             /\ discarded'[q] = discarded[q]
  BY <1>2 DEF RecvDamaged, Typed, RecvTypeOK
<1>3. sent' = sent
  BY DEF RecvDamaged, sendVars
<1>4. \A q \in Peers : SendNonce(q)' = SendNonce(q)
  BY <1>3 DEF SendNonce
<1>5. Lengthens
  BY <1>4, SentType DEF Lengthens, Typed
<1>6. /\ end \in Nat /\ resume \in Nat /\ base \in Nat /\ end <= resume /\ resume <= base
      /\ end <= base /\ base <= SendNonce(Other(p))
  BY GapRecoveryBounds
<1>7. InOrder(p) /\ Accounted(p) /\ Fits(base, buf, SendNonce(Other(p)))
  BY <1>6, DeliveryIs, BeyondFits
<1>8. InOrder(p)'
  <2>1. \A i \in DOMAIN released[p] : released[p][i] \in Nat
    BY NonceIs DEF Typed, RecvTypeOK
  <2> QED BY <1>1, <1>6, <1>7, <2>1 DEF InOrder, Increasing, Below
<1>9. Accounted(p)'
  <2> DEFINE was == Elements(released[p])
  <2>1. 0..(end - 1) = was \cup skipped[p] \cup discarded[p]
    BY <1>7 DEF Accounted
  <2>2. 0..(base - 1) = (0..(end - 1)) \cup (end..(resume - 1)) \cup (resume..(base - 1))
    BY <1>6
  <2>3. was \cap (skipped[p] \cup discarded[p]) = {} /\ skipped[p] \cap discarded[p] = {}
    BY <1>7 DEF Accounted
  <2>4. /\ (0..(end - 1)) \cap (end..(resume - 1)) = {}
        /\ (0..(end - 1)) \cap (resume..(base - 1)) = {}
        /\ (end..(resume - 1)) \cap (resume..(base - 1)) = {}
    BY <1>6
  <2>5. Elements(released[p])' = was
    BY <1>1 DEF Elements
  <2> HIDE DEF was
  <2>6. 0..(base - 1) = was \cup skipped'[p] \cup discarded'[p]
    BY <1>1, <2>1, <2>2
  <2>7. was \cap (skipped'[p] \cup discarded'[p]) = {} /\ skipped'[p] \cap discarded'[p] = {}
    BY <1>1, <2>1, <2>3, <2>4
  <2> QED BY <1>1, <2>5, <2>6, <2>7 DEF Accounted
<1>10. Fits(expected_recv_nonce[p], reorder_buffer[p], SendNonce(Other(p)))'
  <2>1. SendNonce(Other(p))' = SendNonce(Other(p))
    BY <1>4, OtherPeer
  <2> QED BY <1>1, <1>7, <2>1 DEF Fits
<1>11. ASSUME NEW q \in Peers
       PROVE  /\ InOrder(q)' /\ Accounted(q)'
              /\ Fits(expected_recv_nonce[q], reorder_buffer[q], SendNonce(Other(q)))'
  <2>1. CASE q = p
    BY <1>8, <1>9, <1>10, <2>1
  <2>2. CASE q # p
    BY <1>2, <1>5, <2>2, PeerStands
  <2> QED BY <2>1, <2>2
<1> QED BY <1>11, DeliveryNext

(* A frame joins the buffer when it is next, and then it leaves at once, or   *)
(* when there is room.                                                        *)
LEMMA StoredFits ==
  ASSUME Typed, Delivery, NEW p \in Peers, NEW n \in Nonce, NEW base \in Nat, NEW to \in Nat,
         expected_recv_nonce[p] <= base, base <= SendNonce(Other(p)),
         InWindow(base, n), n < SendNonce(Other(p)),
         DrainsTo(Stored(p, n, base), base, to)
  PROVE  Fits(to, Beyond(Stored(p, n, base), to), SendNonce(Other(p)))
<1> DEFINE held == Beyond(reorder_buffer[p], base)
           buf == Stored(p, n, base)
           rest == Beyond(buf, to)
           limit == SendNonce(Other(p))
<1>1. Fits(base, held, limit)
  BY BeyondFits
<1>2. /\ MaxReorder \in Nat /\ MaxReorderBuffer \in Nat /\ n \in Nat
      /\ limit \in Nat /\ base <= n /\ n <= base + MaxReorder /\ n < limit
  BY LimitsAssumption, NonceIs, OtherPeer, SentType DEF InWindow, Typed
<1>3. held \in SUBSET Nonce /\ IsFiniteSet(held) /\ Cardinality(held) \in Nat
  <2>1. held \in SUBSET Nonce
    BY DEF Beyond, Typed, RecvTypeOK
  <2> QED BY <2>1, NonceFinite, FS_CardinalityType
<1>4. buf \subseteq held \cup {n}
  BY DEF Stored
<1>5. base <= to /\ (base..(to - 1)) \subseteq buf /\ to \notin buf
  BY DEF DrainsTo
<1>6. \A m \in buf : m \in Nat /\ m <= base + MaxReorder /\ m < limit
  <2>1. \A m \in held : m \in Nat /\ m <= base + MaxReorder /\ m < limit
    BY <1>1, <1>3, NonceIs DEF Fits
  <2> HIDE DEF held, buf, limit
  <2> QED BY <1>2, <1>4, <2>1
<1> HIDE DEF buf, limit
<1>7. \A m \in rest : to < m /\ m <= to + MaxReorder /\ m < limit
  <2>1. \A m \in rest : m \in buf /\ to < m
    BY DEF Beyond
  <2> HIDE DEF rest
  <2> QED BY <1>2, <1>5, <1>6, <2>1
<1>8. to <= limit
  <2>1. CASE to = base
    BY <2>1 DEF limit
  <2>2. CASE to # base
    <3>1. to - 1 \in base..(to - 1)
      BY <1>5, <2>2
    <3>2. to - 1 < limit
      BY <1>5, <1>6, <3>1
    <3> QED BY <1>2, <3>2
  <2> QED BY <2>1, <2>2
<1>9. Cardinality(rest) <= MaxReorderBuffer
  <2>1. Cardinality(held) <= MaxReorderBuffer
    BY <1>1 DEF Fits
  <2>2. CASE rest \subseteq held
    <3>1. Cardinality(rest) <= Cardinality(held) /\ IsFiniteSet(rest)
      BY <1>3, <2>2, FS_Subset
    <3>2. Cardinality(rest) \in Nat
      BY <3>1, FS_CardinalityType
    <3> QED BY <1>2, <1>3, <2>1, <3>1, <3>2
  <2>3. CASE ~(rest \subseteq held)
    <3>1. n \in rest /\ n \in buf /\ to < n /\ n \notin held
      BY <1>4, <2>3 DEF Beyond
    <3>2. n # base
      BY <1>2, <1>5, <3>1
    <3>3. Cardinality(held) < MaxReorderBuffer /\ buf = held \cup {n}
      BY <3>1, <3>2 DEF Stored, buf
    <3>4. IsFiniteSet(buf) /\ Cardinality(buf) = Cardinality(held) + 1
      BY <1>3, <3>1, <3>3, FS_AddElement
    <3>5. rest \subseteq buf
      BY DEF Beyond
    <3>6. Cardinality(rest) <= Cardinality(buf) /\ IsFiniteSet(rest)
      BY <3>4, <3>5, FS_Subset
    <3>7. Cardinality(rest) \in Nat
      BY <3>6, FS_CardinalityType
    <3> QED BY <1>2, <1>3, <3>3, <3>4, <3>6, <3>7
  <2> QED BY <2>2, <2>3
<1> QED BY <1>7, <1>8, <1>9 DEF Fits, buf, limit

LEMMA RecvFrameDelivers ==
  ASSUME Typed, Typed', Delivery, NEW p \in Peers, NEW n \in Nonce,
         NEW resume \in 0..NonceLimit, NEW base \in 0..NonceLimit,
         AfterGapRecovery(p, resume, base), n < SendNonce(Other(p)),
         RecvFrame(p, n, resume, base)
  PROVE  Delivery'
<1> DEFINE f == FrameOf(Other(p), n)
           buf == Stored(p, n, base)
<1>1. RecvTypeOK /\ SendTyped /\ base \in Nat /\ InWindow(base, n)
  BY LimitsAssumption DEF Typed, RecvFrame
<1>2. PICK to \in base..NonceLimit :
        /\ DrainsTo(buf, base, to)
        /\ Advance(p, resume, to, Beyond(buf, to))
        /\ \E nack \in {<<>>, <<NackFrame(to)>>},
              ack  \in {<<>>, <<AckFrame(AckedNonces(to, Beyond(buf, to)))>>} :
             Emit(p, HistoryAfter(p, f), nack \o ack)
  BY DEF RecvFrame
<1>3. to \in 0..NonceLimit /\ to \in Nat
  BY <1>1, LimitsAssumption
<1>4. Beyond(buf, to) \in SUBSET Nonce
  BY <1>1, StoredType
<1> DEFINE ackFrame == AckFrame(AckedNonces(to, Beyond(buf, to)))
<1>5. PICK nack \in {<<>>, <<NackFrame(to)>>}, ack \in {<<>>, <<ackFrame>>} :
        Emit(p, HistoryAfter(p, f), nack \o ack)
  BY <1>2
<1>6. NackFrame(to) \in Frame /\ ackFrame \in Frame
  BY <1>3, <1>4, NackFrameType, AckFrameType
<1> HIDE DEF ackFrame
<1>7. nack \o ack \in Seq(Frame)
  BY <1>6, TwoFrames
<1>8. sent' = [sent EXCEPT ![p] = sent[p] \o (nack \o ack)]
  BY <1>5 DEF Emit
<1>9. Lengthens /\ SendNonce(Other(p))' = SendNonce(Other(p))
  BY <1>1, <1>7, <1>8, EmitLengthens
<1>10. /\ resume \in Nat /\ expected_recv_nonce[p] <= resume /\ resume <= base
       /\ expected_recv_nonce[p] <= base /\ base <= SendNonce(Other(p))
  BY GapRecoveryBounds
<1>11. resume <= to
  BY <1>1, <1>2, <1>3, <1>10
<1>12. Fits(to, Beyond(buf, to), SendNonce(Other(p)))
  BY <1>1, <1>2, <1>3, <1>10, StoredFits
<1> QED BY <1>2, <1>3, <1>9, <1>10, <1>11, <1>12, AdvanceDelivers

LEMMA InboundDelivers ==
  Typed /\ Typed' /\ Delivery /\ (\E p \in Peers, n \in Nonce : Inbound(p, n)) => Delivery'
<1> SUFFICES ASSUME Typed, Typed', Delivery, NEW p \in Peers, NEW n \in Nonce, Inbound(p, n)
             PROVE  Delivery'
  OBVIOUS
<1> QED BY RecvDuplicateDelivers, RecvBeyondWindowDelivers, RecvDamagedDelivers,
           RecvFrameDelivers DEF Inbound

(* The other actions leave the receiving half alone.                          *)
LEMMA OthersDeliver ==
  ASSUME Typed, Typed', Delivery, NEW p \in Peers,
         Outbound(p) \/ StartClose(p) \/ ForceClose(p) \/ PathChange(p) \/ Tick(p)
  PROVE  Delivery'
<1>1. UNCHANGED recvVars
  BY DEF Outbound, StartClose, ForceClose, PathChange, Tick
<1>2. SendTyped /\ \A q \in Peers : SendNonce(q) \in Nat
  BY SentType DEF Typed
<1>3. CASE Outbound(p)
  <2>1. <<DataFrame>> \in Seq(Frame)
    BY DEF DataFrame, Frame
  <2>2. Lengthens
    BY <1>2, <1>3, <2>1, EmitLengthens DEF Outbound, Emit
  <2> QED BY <1>1, <2>2, ReceiversStand
<1>4. CASE StartClose(p)
  <2>1. <<CloseFrame>> \in Seq(Frame)
    BY DEF CloseFrame, Frame
  <2>2. Lengthens
    BY <1>2, <1>4, <2>1, EmitLengthens DEF StartClose, Emit
  <2> QED BY <1>1, <2>2, ReceiversStand
<1>5. CASE ForceClose(p) \/ PathChange(p)
  <2>1. sent' = sent
    BY <1>5 DEF ForceClose, PathChange, sendVars
  <2>2. Lengthens
    BY <1>2, <2>1 DEF Lengthens, SendNonce
  <2> QED BY <1>1, <2>2, ReceiversStand
<1>6. CASE Tick(p)
  <2> DEFINE acked == AckedNonces(expected_recv_nonce[p], reorder_buffer[p])
  <2>1. PICK frames \in {<<>>, <<AckFrame(acked)>>} : sent' = [sent EXCEPT ![p] = @ \o frames]
    BY <1>6 DEF Tick
  <2>2. frames \in Seq(Frame)
    <3>1. AckFrame(acked) \in Frame
      BY AckFrameType DEF Typed, RecvTypeOK
    <3> QED BY <2>1, <3>1, AtMostOneFrame
  <2>3. Lengthens
    BY <1>2, <2>1, <2>2, EmitLengthens
  <2> QED BY <1>1, <2>3, ReceiversStand
<1> QED BY <1>3, <1>4, <1>5, <1>6

(* What the caller is given is in order and at most once, everything moved    *)
(* past is released, skipped or discarded, and the reorder buffer stays in    *)
(* its window and capacity: in every reachable state.                         *)
THEOREM DeliveryKept == Spec => []Delivery
<1>1. Init => Delivery
  <2> SUFFICES ASSUME Init, NEW p \in Peers
               PROVE  /\ InOrder(p) /\ Accounted(p)
                      /\ Fits(expected_recv_nonce[p], reorder_buffer[p], SendNonce(Other(p)))
    BY DeliveryIs
  <2>1. /\ expected_recv_nonce[p] = 0 /\ reorder_buffer[p] = {} /\ released[p] = <<>>
        /\ skipped[p] = {} /\ discarded[p] = {} /\ SendNonce(Other(p)) = 0
    BY OtherPeer DEF Init, SendNonce
  <2>2. InOrder(p)
    BY <2>1 DEF InOrder, Increasing, Below
  <2>3. Accounted(p)
    BY <2>1 DEF Accounted, Elements
  <2>4. Fits(expected_recv_nonce[p], reorder_buffer[p], SendNonce(Other(p)))
    BY <2>1, FS_EmptySet, LimitsAssumption DEF Fits
  <2> QED BY <2>2, <2>3, <2>4
<1>2. Typed /\ Typed' /\ Delivery /\ [Next]_vars => Delivery'
  <2> SUFFICES ASSUME Typed, Typed', Delivery, [Next]_vars PROVE Delivery'
    OBVIOUS
  <2>1. CASE Next
    BY <2>1, OthersDeliver, InboundDelivers DEF Next
  <2>2. CASE UNCHANGED vars
    <3>1. UNCHANGED recvVars /\ sent' = sent
      BY <2>2 DEF vars, recvVars, sendVars
    <3>2. Lengthens
      BY <3>1, SentType DEF Typed, Lengthens, SendNonce
    <3> QED BY <3>1, <3>2, ReceiversStand
  <2> QED BY <2>1, <2>2
<1>3. Spec => []Typed
  BY TypedAlways
<1> QED BY <1>1, <1>2, <1>3, PTL DEF Spec

--------------------------------------------------------------------------------
(* A retry counter never runs ahead of the number of transmissions.           *)

Paid(f) == f \in SentFrame /\ f.retries <= f.sends
Charged == \A p \in Peers : \A n \in DOMAIN sent_history[p] : Paid(sent_history[p][n])

LEMMA ResendPaid ==
  ASSUME NEW f, Paid(f)
  PROVE  Paid(Resend(f)) /\ Paid([f EXCEPT !.retries = 1])
<1>1. f \in SentFrame /\ f.retries \in Nat /\ f.sends \in Nat /\ f.retries <= f.sends
      /\ f.sends >= 1
  BY LimitsAssumption DEF Paid, SentFrame
<1>2. RetryMax \in Nat /\ RetryMax >= 1
  BY LimitsAssumption
<1>3. Paid(Resend(f))
  <2>1. Resend(f) \in SentFrame
    BY <1>1, ResendType
  <2>2. Resend(f).retries = Capped(f.retries + 1) /\ Resend(f).sends = Capped(f.sends + 1)
    BY DEF Resend
  <2>3. Capped(f.retries + 1) <= Capped(f.sends + 1)
    BY <1>1, <1>2 DEF Capped
  <2> QED BY <2>1, <2>2, <2>3 DEF Paid
<1>4. Paid([f EXCEPT !.retries = 1])
  BY <1>1, <1>2 DEF Paid, SentFrame
<1> QED BY <1>3, <1>4

LEMMA FreshPaid == Paid(FreshFrame)
BY FreshFrameType DEF Paid, FreshFrame

LEMMA PushedPaid ==
  ASSUME NEW p \in Peers, NEW history, NEW frames, \A n \in DOMAIN history : Paid(history[n])
  PROVE  \A n \in DOMAIN Pushed(p, history, frames) : Paid(Pushed(p, history, frames)[n])
BY FreshPaid DEF Pushed

LEMMA ChargedStep ==
  ASSUME SendTyped, Charged, NEW p \in Peers, NEW h,
         sent_history' = [sent_history EXCEPT ![p] = h],
         \A n \in DOMAIN h : Paid(h[n])
  PROVE  Charged'
<1>1. sent_history'[p] = h /\ \A q \in Peers : q # p => sent_history'[q] = sent_history[q]
  BY DEF SendTyped
<1>2. \A q \in Peers : \A n \in DOMAIN sent_history'[q] : Paid(sent_history'[q][n])
  <2> SUFFICES ASSUME NEW q \in Peers, NEW n \in DOMAIN sent_history'[q]
               PROVE  Paid(sent_history'[q][n])
    OBVIOUS
  <2>1. CASE q = p
    BY <1>1, <2>1
  <2>2. CASE q # p
    BY <1>1, <2>2 DEF Charged
  <2> QED BY <2>1, <2>2
<1> QED BY <1>2 DEF Charged, Paid

LEMMA EmitCharged ==
  ASSUME SendTyped, Charged, NEW p \in Peers, NEW history, NEW frames,
         Emit(p, history, frames), \A n \in DOMAIN history : Paid(history[n])
  PROVE  Charged'
<1>1. sent_history' = [sent_history EXCEPT ![p] = Pushed(p, history, frames)]
  BY DEF Emit
<1> QED BY <1>1, PushedPaid, ChargedStep

LEMMA ChargedAlways == Typed /\ Charged /\ [Next]_vars => Charged'
<1> SUFFICES ASSUME Typed, Charged, [Next]_vars PROVE Charged'
  OBVIOUS
<1>1. SendTyped /\ \A p \in Peers : \A n \in DOMAIN sent_history[p] : Paid(sent_history[p][n])
  BY DEF Typed, Charged
<1>2. ASSUME NEW p \in Peers, Outbound(p) \/ StartClose(p)
      PROVE  Charged'
  BY <1>1, <1>2, EmitCharged DEF Outbound, StartClose
<1>3. ASSUME sent_history' = sent_history
      PROVE  Charged'
  BY <1>3 DEF Charged, Paid
<1>4. ASSUME NEW p \in Peers, PathChange(p)
      PROVE  Charged'
  <2> DEFINE h == [n \in DOMAIN sent_history[p] |->
                     IF Retransmittable(p, n) THEN Due(sent_history[p][n])
                     ELSE sent_history[p][n]]
  <2>1. sent_history' = [sent_history EXCEPT ![p] = h]
    BY <1>4 DEF PathChange
  <2>2. \A n \in DOMAIN h : Paid(h[n])
    BY <1>1, ResendPaid DEF Due
  <2> HIDE DEF h
  <2> QED BY <1>1, <2>1, <2>2, ChargedStep
<1>5. ASSUME NEW p \in Peers, NEW n \in Nonce, Inbound(p, n)
      PROVE  Charged'
  <2>1. PICK resume \in 0..NonceLimit, base \in 0..NonceLimit :
          \/ RecvDuplicate(p, n, resume, base) \/ RecvBeyondWindow(p, n, resume, base)
          \/ RecvDamaged(p, n, resume, base) \/ RecvFrame(p, n, resume, base)
    BY <1>5 DEF Inbound
  <2>2. CASE RecvDuplicate(p, n, resume, base) \/ RecvBeyondWindow(p, n, resume, base)
    <3>1. PICK frames : Emit(p, sent_history[p], frames)
      BY <2>2 DEF RecvDuplicate, RecvBeyondWindow
    <3> QED BY <1>1, <3>1, EmitCharged
  <2>3. CASE RecvDamaged(p, n, resume, base)
    BY <1>3, <2>3 DEF RecvDamaged, sendVars
  <2>4. CASE RecvFrame(p, n, resume, base)
    <3> DEFINE h == HistoryAfter(p, FrameOf(Other(p), n))
    <3>1. PICK frames : Emit(p, h, frames)
      BY <2>4 DEF RecvFrame
    <3>2. \A m \in DOMAIN h : Paid(h[m])
      BY <1>1, ResendPaid DEF HistoryAfter
    <3> HIDE DEF h
    <3> QED BY <1>1, <3>1, <3>2, EmitCharged
  <2> QED BY <2>1, <2>2, <2>3, <2>4
<1>6. ASSUME NEW p \in Peers, Tick(p)
      PROVE  Charged'
  <2> DEFINE acked == AckedNonces(expected_recv_nonce[p], reorder_buffer[p])
  <2>1. PICK frames \in {<<>>, <<AckFrame(acked)>>} :
          LET pushed  == Pushed(p, sent_history[p], frames)
              zombies == Zombies(p) \cap DOMAIN pushed
          IN  \E due : sent_history' = [sent_history EXCEPT ![p] =
                [n \in DOMAIN pushed \ zombies |->
                   IF n \in Oldest(due) THEN Resend(pushed[n]) ELSE pushed[n]]]
    BY <1>6 DEF Tick
  <2> DEFINE pushed == Pushed(p, sent_history[p], frames)
             zombies == Zombies(p) \cap DOMAIN pushed
  <2>2. PICK due : sent_history' = [sent_history EXCEPT ![p] =
           [n \in DOMAIN pushed \ zombies |->
              IF n \in Oldest(due) THEN Resend(pushed[n]) ELSE pushed[n]]]
    BY <2>1
  <2>3. \A n \in DOMAIN pushed : Paid(pushed[n])
    BY <1>1, PushedPaid
  <2> HIDE DEF pushed
  <2> DEFINE h == [n \in DOMAIN pushed \ zombies |->
                     IF n \in Oldest(due) THEN Resend(pushed[n]) ELSE pushed[n]]
  <2>4. \A n \in DOMAIN h : Paid(h[n])
    BY <2>3, ResendPaid
  <2>5. sent_history' = [sent_history EXCEPT ![p] = h]
    BY <2>2
  <2> HIDE DEF h
  <2> QED BY <1>1, <2>4, <2>5, ChargedStep
<1>7. ASSUME NEW p \in Peers, ForceClose(p)
      PROVE  Charged'
  BY <1>3, <1>7 DEF ForceClose, sendVars
<1>8. CASE Next
  BY <1>2, <1>4, <1>5, <1>6, <1>7, <1>8 DEF Next
<1>9. CASE UNCHANGED vars
  BY <1>3, <1>9 DEF vars, sendVars
<1> QED BY <1>8, <1>9

(* The zombie eviction gives a frame up only after it went on the wire        *)
(* max_retries + 3 times, in every step of every behaviour.                   *)
THEOREM NoPhantomRetriesEver == Spec => NoPhantomRetries
<1> DEFINE Evicted == \A p \in Peers : \A n \in gave_up'[p] \ gave_up[p] :
                        sent_history[p][n].sends >= MaxRetries + 3
<1>1. Init => Charged
  BY DEF Init, Charged
<1>2. Typed /\ Charged /\ [Next]_vars => Charged'
  BY ChargedAlways
<1>3. Typed /\ Charged /\ [Next]_vars => [Evicted]_vars
  <2> SUFFICES ASSUME Typed, Charged, [Next]_vars, NEW p \in Peers,
                      NEW n \in gave_up'[p] \ gave_up[p]
               PROVE  sent_history[p][n].sends >= MaxRetries + 3
    OBVIOUS
  <2>1. \E q \in Peers : Tick(q)
    <3>1. gave_up' # gave_up
      OBVIOUS
    <3>2. ASSUME NEW q \in Peers, Outbound(q) \/ StartClose(q) \/ ForceClose(q) \/ PathChange(q)
          PROVE  gave_up' = gave_up
      BY <3>2 DEF Outbound, StartClose, ForceClose, PathChange, sendVars
    <3>3. ASSUME NEW q \in Peers, NEW m \in Nonce, Inbound(q, m)
          PROVE  gave_up' = gave_up
      BY <3>3 DEF Inbound, RecvDuplicate, RecvBeyondWindow, RecvDamaged, RecvFrame, sendVars
    <3>4. UNCHANGED vars => gave_up' = gave_up
      BY DEF vars, sendVars
    <3> QED BY <3>1, <3>2, <3>3, <3>4 DEF Next
  <2>2. PICK q \in Peers : Tick(q)
    BY <2>1
  <2>3. PICK Z \in SUBSET Zombies(q) : gave_up' = [gave_up EXCEPT ![q] = gave_up[q] \cup Z]
    BY <2>2 DEF Tick
  <2>4. q = p /\ n \in Zombies(p)
    BY <2>3 DEF Typed, SendTyped
  <2>5. n \in DOMAIN sent_history[p] /\ sent_history[p][n].retries > MaxRetries + 2
    BY <2>4 DEF Zombies
  <2>6. Paid(sent_history[p][n])
    BY <2>5 DEF Charged
  <2> DEFINE f == sent_history[p][n]
  <2>7. f.retries \in Nat /\ f.sends \in Nat /\ f.retries <= f.sends /\ MaxRetries \in Nat
    BY <2>6, LimitsAssumption DEF Paid, SentFrame
  <2> HIDE DEF f
  <2>8. f.retries > MaxRetries + 2
    BY <2>5 DEF f
  <2>9. f.sends >= MaxRetries + 3
    BY <2>7, <2>8
  <2> QED BY <2>9 DEF f
<1>4. Spec => []Typed
  BY TypedAlways
<1> QED BY <1>1, <1>2, <1>3, <1>4, PTL DEF Spec, NoPhantomRetries

--------------------------------------------------------------------------------
(* What a machine holds out of order it has authenticated.                    *)

Seen == \A p \in Peers : \A m \in reorder_buffer[p] : m <= highest_authenticated[p]

(* Only a frame in the window changes the highest nonce, and one that raises  *)
(* it was never received before.                                              *)
FreshOnly ==
  \A p \in Peers : highest_authenticated'[p] # highest_authenticated[p] =>
    /\ highest_authenticated'[p] > highest_authenticated[p]
    /\ highest_authenticated'[p] \notin Received(p)

LEMMA SeenStep ==
  ASSUME Typed, Seen, NEW p \in Peers, NEW buf,
         reorder_buffer' = [reorder_buffer EXCEPT ![p] = buf],
         buf \subseteq reorder_buffer[p], highest_authenticated' = highest_authenticated
  PROVE  Seen' /\ FreshOnly
<1>1. reorder_buffer'[p] = buf /\ \A q \in Peers : q # p => reorder_buffer'[q] = reorder_buffer[q]
  BY DEF Typed, RecvTypeOK
<1>2. \A q \in Peers : reorder_buffer'[q] \subseteq reorder_buffer[q]
  BY <1>1
<1> QED BY <1>2 DEF Seen, FreshOnly

LEMMA RecvFrameSeen ==
  ASSUME Typed, Delivery, Seen, NEW p \in Peers, NEW n \in Nonce,
         NEW resume \in 0..NonceLimit, NEW base \in 0..NonceLimit,
         AfterGapRecovery(p, resume, base), RecvFrame(p, n, resume, base)
  PROVE  Seen' /\ FreshOnly
<1> DEFINE held == reorder_buffer[p]
           highest == highest_authenticated[p]
<1>1. PICK to \in base..NonceLimit :
        Advance(p, resume, to, Beyond(Stored(p, n, base), to))
  BY DEF RecvFrame
<1>2. /\ reorder_buffer'[p] = Beyond(Stored(p, n, base), to)
      /\ highest_authenticated'[p] = Raised(highest, n)
      /\ \A q \in Peers : q # p => /\ reorder_buffer'[q] = reorder_buffer[q]
                                   /\ highest_authenticated'[q] = highest_authenticated[q]
  BY <1>1 DEF RecvFrame, Advance, Typed, RecvTypeOK
<1>3. reorder_buffer'[p] \subseteq held \cup {n}
  BY <1>2 DEF Beyond, Stored
<1>4. n \in Nat /\ highest \in Int /\ \A m \in held : m \in Nat /\ m <= highest
  BY NonceIs DEF Seen, Typed, RecvTypeOK
<1>5. \A m \in held \cup {n} : m <= Raised(highest, n)
  BY <1>4 DEF Raised
<1>6. Seen'
  BY <1>2, <1>3, <1>5 DEF Seen
<1>7. ASSUME Raised(highest, n) # highest
      PROVE  Raised(highest, n) > highest /\ Raised(highest, n) \notin Received(p)
  <2>1. Raised(highest, n) = n /\ n > highest
    BY <1>4, <1>7 DEF Raised
  <2>2. expected_recv_nonce[p] \in Nat /\ base \in Nat /\ expected_recv_nonce[p] <= base
    BY GapRecoveryBounds
  <2>3. base <= n
    BY <1>4, <2>2 DEF RecvFrame, InWindow
  <2>4. n \notin 0..(expected_recv_nonce[p] - 1) /\ n \notin held
    BY <1>4, <2>1, <2>2, <2>3
  <2> QED BY <2>1, <2>4 DEF Received
<1>8. FreshOnly
  BY <1>2, <1>7 DEF FreshOnly
<1> QED BY <1>6, <1>8

LEMMA SeenAlways == Typed /\ Delivery /\ Seen /\ [Next]_vars => Seen' /\ FreshOnly
<1> SUFFICES ASSUME Typed, Delivery, Seen, [Next]_vars PROVE Seen' /\ FreshOnly
  OBVIOUS
<1>1. ASSUME reorder_buffer' = reorder_buffer, highest_authenticated' = highest_authenticated
      PROVE  Seen' /\ FreshOnly
  BY <1>1 DEF Seen, FreshOnly
<1>2. ASSUME NEW p \in Peers,
             Outbound(p) \/ StartClose(p) \/ ForceClose(p) \/ PathChange(p) \/ Tick(p)
      PROVE  Seen' /\ FreshOnly
  <2>1. UNCHANGED recvVars /\ highest_authenticated' = highest_authenticated
    BY <1>2 DEF Outbound, StartClose, ForceClose, PathChange, Tick
  <2> QED BY <1>1, <2>1 DEF recvVars
<1>3. ASSUME NEW p \in Peers, NEW n \in Nonce, Inbound(p, n)
      PROVE  Seen' /\ FreshOnly
  <2>1. PICK resume \in 0..NonceLimit, base \in 0..NonceLimit :
          /\ AfterGapRecovery(p, resume, base)
          /\ \/ RecvDuplicate(p, n, resume, base) \/ RecvBeyondWindow(p, n, resume, base)
             \/ RecvDamaged(p, n, resume, base) \/ RecvFrame(p, n, resume, base)
    BY <1>3 DEF Inbound
  <2>2. CASE \/ RecvDuplicate(p, n, resume, base) \/ RecvBeyondWindow(p, n, resume, base)
             \/ RecvDamaged(p, n, resume, base)
    <3>1. /\ reorder_buffer' = [reorder_buffer EXCEPT ![p] = Beyond(reorder_buffer[p], base)]
          /\ highest_authenticated' = highest_authenticated
      BY <2>2 DEF RecvDuplicate, RecvBeyondWindow, RecvDamaged, Advance
    <3>2. Beyond(reorder_buffer[p], base) \subseteq reorder_buffer[p]
      BY DEF Beyond
    <3> QED BY <3>1, <3>2, SeenStep
  <2>3. CASE RecvFrame(p, n, resume, base)
    BY <2>1, <2>3, RecvFrameSeen
  <2> QED BY <2>1, <2>2, <2>3
<1>4. CASE Next
  BY <1>2, <1>3, <1>4 DEF Next
<1>5. CASE UNCHANGED vars
  BY <1>1, <1>5 DEF vars, recvVars
<1> QED BY <1>4, <1>5

(* Only a frame that was never received before raises the highest             *)
(* authenticated nonce, which is what moves a session to a new address: in    *)
(* every step of every behaviour.                                             *)
THEOREM OnlyFreshFramesMove == Spec => OnlyFreshFramesProvePath
<1>1. Init => Seen
  BY DEF Init, Seen
<1>2. Typed /\ Delivery /\ Seen /\ [Next]_vars => Seen' /\ FreshOnly
  BY SeenAlways
<1>3. Typed /\ Delivery /\ Seen /\ [Next]_vars => [FreshOnly]_vars
  BY <1>2
<1>4. Spec => []Typed /\ []Delivery
  BY TypedAlways, DeliveryKept
<1> QED BY <1>1, <1>2, <1>3, <1>4, PTL DEF Spec, OnlyFreshFramesProvePath, FreshOnly

--------------------------------------------------------------------------------
(* Transfer: the sending half.  A step of a machine is one of the sender for  *)
(* the frames it builds, and one of the receiver, or none, for the frames of  *)
(* the other.                                                                 *)

Abandoned(p) == gave_up[p] \cup overflowed[p]

(* A machine gives up only frames it built.                                   *)
Own == \A p \in Peers : Abandoned(p) \subseteq 0..(SendNonce(p) - 1)

SenderMoves(p) ==
  /\ SendNonce(p)' \in SendNonce(p)..NonceLimit
  /\ DOMAIN sent_history'[p] \subseteq
       DOMAIN sent_history[p] \cup (SendNonce(p)..(SendNonce(p)' - 1))
  /\ Abandoned(p) \subseteq Abandoned(p)'
  /\ Abandoned(p)' \subseteq 0..(SendNonce(p)' - 1)

SenderRests(p) ==
  /\ sent'[p] = sent[p] /\ sent_history'[p] = sent_history[p]
  /\ gave_up'[p] = gave_up[p] /\ overflowed'[p] = overflowed[p]

LEMMA EmitMoves ==
  ASSUME SendTyped, Own, NEW p \in Peers, NEW history \in History(p),
         DOMAIN history \subseteq DOMAIN sent_history[p],
         NEW frames \in Seq(Frame), Emit(p, history, frames), gave_up' = gave_up
  PROVE  SenderMoves(p) /\ SenderRests(Other(p))
<1> DEFINE pushed == Pushed(p, history, frames)
           new == NewNonces(p, frames)
<1>1. SendNonce(p) + Len(frames) <= FrameLimit[p]
  BY DEF Emit
<1>2. /\ sent' = [sent EXCEPT ![p] = sent[p] \o frames]
      /\ sent_history' = [sent_history EXCEPT ![p] = pushed]
      /\ overflowed' = [overflowed EXCEPT ![p] =
           overflowed[p] \cup ((DOMAIN history \cup new) \ DOMAIN pushed)]
  BY DEF Emit
<1>3. DOMAIN pushed \subseteq DOMAIN history \cup new
  BY <1>1, PushedType
<1> HIDE DEF pushed
<1>4. SendNonce(p) \in Nat /\ Len(frames) \in Nat /\ NonceLimit \in Nat
  BY SentType, LimitIs
<1>5. SendNonce(p)' = SendNonce(p) + Len(frames) /\ SendNonce(p)' <= NonceLimit
  <2>1. SendNonce(p)' = SendNonce(p) + Len(frames)
    BY <1>2 DEF SendTyped, SendNonce
  <2> QED BY <1>1, <1>4, <2>1, LimitIs
<1>6. new = SendNonce(p)..(SendNonce(p)' - 1)
  BY <1>4, <1>5 DEF NewNonces
<1>7. \A n \in DOMAIN history : n \in 0..(SendNonce(p) - 1)
  <2>1. \A n \in DOMAIN history : n \in Nat /\ n < SendNonce(p)
    BY HistoriesIs, NonceIs DEF History
  <2> QED BY <1>4, <2>1
<1>8. DOMAIN sent_history'[p] \subseteq DOMAIN sent_history[p] \cup new
  BY <1>2, <1>3 DEF SendTyped
<1>9. /\ gave_up'[p] = gave_up[p]
      /\ overflowed'[p] = overflowed[p] \cup ((DOMAIN history \cup new) \ DOMAIN pushed)
  BY <1>2 DEF SendTyped
<1> HIDE DEF new
<1>10. Abandoned(p) \subseteq Abandoned(p)'
       /\ Abandoned(p)' \subseteq Abandoned(p) \cup DOMAIN history \cup new
  BY <1>9 DEF Abandoned
<1>11. Abandoned(p)' \subseteq 0..(SendNonce(p)' - 1)
  <2>1. \A n \in new : n \in 0..(SendNonce(p)' - 1)
    BY <1>4, <1>5, <1>6
  <2>2. \A n \in 0..(SendNonce(p) - 1) : n \in 0..(SendNonce(p)' - 1)
    BY <1>4, <1>5
  <2>3. Abandoned(p) \subseteq 0..(SendNonce(p) - 1)
    BY DEF Own
  <2> QED BY <1>7, <1>10, <2>1, <2>2, <2>3
<1>12. SendNonce(p)' \in SendNonce(p)..NonceLimit
  BY <1>4, <1>5
<1>13. SenderMoves(p)
  BY <1>6, <1>8, <1>10, <1>11, <1>12 DEF SenderMoves
<1>14. SenderRests(Other(p))
  BY <1>2, OtherPeer DEF SenderRests, SendTyped
<1> QED BY <1>13, <1>14

LEMMA KeptMoves ==
  ASSUME SendTyped, Own, NEW p \in Peers,
         UNCHANGED <<sent, gave_up, overflowed>>,
         DOMAIN sent_history'[p] = DOMAIN sent_history[p]
  PROVE  SenderMoves(p)
<1>1. SendNonce(p)' = SendNonce(p) /\ Abandoned(p)' = Abandoned(p)
  BY DEF SendNonce, Abandoned
<1>2. SendNonce(p) \in Nat /\ SendNonce(p) <= NonceLimit /\ NonceLimit \in Nat
  BY SentType, LimitIs
<1>3. Abandoned(p) \subseteq 0..(SendNonce(p) - 1)
  BY DEF Own
<1> QED BY <1>1, <1>2, <1>3 DEF SenderMoves

LEMMA TickMoves ==
  ASSUME Typed, Own, NEW p \in Peers, Tick(p)
  PROVE  SenderMoves(p) /\ SenderRests(Other(p))
<1> DEFINE acked == AckedNonces(expected_recv_nonce[p], reorder_buffer[p])
<1>1. SendTyped /\ RecvTypeOK
  BY DEF Typed
<1>2. PICK frames \in {<<>>, <<AckFrame(acked)>>} :
       LET pushed  == Pushed(p, sent_history[p], frames)
           new     == NewNonces(p, frames)
           zombies == Zombies(p) \cap DOMAIN pushed
       IN  /\ SendNonce(p) + Len(frames) <= FrameLimit[p]
           /\ sent' = [sent EXCEPT ![p] = @ \o frames]
           /\ gave_up' = [gave_up EXCEPT ![p] = @ \cup zombies]
           /\ overflowed' = [overflowed EXCEPT ![p] =
                @ \cup ((DOMAIN sent_history[p] \cup new) \ DOMAIN pushed)]
           /\ \E due : sent_history' = [sent_history EXCEPT ![p] =
                [n \in DOMAIN pushed \ zombies |->
                   IF n \in Oldest(due) THEN Resend(pushed[n]) ELSE pushed[n]]]
  BY DEF Tick
<1> DEFINE pushed == Pushed(p, sent_history[p], frames)
           new == NewNonces(p, frames)
           zombies == Zombies(p) \cap DOMAIN pushed
<1>3. frames \in Seq(Frame)
  <2>1. AckFrame(acked) \in Frame
    BY <1>1, AckFrameType DEF RecvTypeOK
  <2> QED BY <1>2, <2>1, AtMostOneFrame
<1>4. DOMAIN pushed \subseteq DOMAIN sent_history[p] \cup new
  BY <1>1, <1>2, <1>3, SentType, PushedType
<1>5. SendNonce(p) \in Nat /\ Len(frames) \in Nat /\ NonceLimit \in Nat
  BY <1>1, <1>3, SentType, LimitIs
<1>6. SendNonce(p)' = SendNonce(p) + Len(frames) /\ SendNonce(p)' <= NonceLimit
  <2>1. SendNonce(p)' = SendNonce(p) + Len(frames)
    BY <1>1, <1>2, <1>3 DEF SendTyped, SendNonce
  <2> QED BY <1>2, <1>5, <2>1, LimitIs
<1>7. new = SendNonce(p)..(SendNonce(p)' - 1)
  BY <1>5, <1>6 DEF NewNonces
<1>8. \A n \in DOMAIN sent_history[p] : n \in 0..(SendNonce(p) - 1)
  <2>1. \A n \in DOMAIN sent_history[p] : n \in Nat /\ n < SendNonce(p)
    BY <1>1, SentType, HistoriesIs, NonceIs DEF History
  <2> QED BY <1>5, <2>1
<1>9. /\ DOMAIN sent_history'[p] = DOMAIN pushed \ zombies
      /\ gave_up'[p] = gave_up[p] \cup zombies
      /\ overflowed'[p] = overflowed[p] \cup ((DOMAIN sent_history[p] \cup new) \ DOMAIN pushed)
  BY <1>1, <1>2 DEF SendTyped
<1>10. zombies \subseteq DOMAIN sent_history[p] \cup new
  BY <1>4
<1> HIDE DEF pushed, new, zombies
<1>11. Abandoned(p) \subseteq Abandoned(p)'
       /\ Abandoned(p)' \subseteq Abandoned(p) \cup DOMAIN sent_history[p] \cup new
  BY <1>9, <1>10 DEF Abandoned
<1>12. Abandoned(p)' \subseteq 0..(SendNonce(p)' - 1)
  <2>1. \A n \in new : n \in 0..(SendNonce(p)' - 1)
    BY <1>5, <1>6, <1>7
  <2>2. \A n \in 0..(SendNonce(p) - 1) : n \in 0..(SendNonce(p)' - 1)
    BY <1>5, <1>6
  <2>3. Abandoned(p) \subseteq 0..(SendNonce(p) - 1)
    BY DEF Own
  <2> QED BY <1>8, <1>11, <2>1, <2>2, <2>3
<1>13. SendNonce(p)' \in SendNonce(p)..NonceLimit
  BY <1>5, <1>6
<1>14. SenderMoves(p)
  BY <1>4, <1>7, <1>9, <1>11, <1>12, <1>13 DEF SenderMoves
<1>15. SenderRests(Other(p))
  BY <1>1, <1>2, OtherPeer DEF SenderRests, SendTyped
<1> QED BY <1>14, <1>15

--------------------------------------------------------------------------------
(* The receiving half.                                                        *)

(* Receive of Transfer, for what p gets from the other machine.               *)
ReceiverMoves(p) ==
  \E from \in expected_recv_nonce[p]..expected_recv_nonce'[p] :
    /\ expected_recv_nonce'[p] \in expected_recv_nonce[p]..SendNonce(Other(p))
    /\ \/ /\ released'[p] = released[p] \o Run(from, expected_recv_nonce'[p])
          /\ skipped'[p] \cup discarded'[p] =
               skipped[p] \cup discarded[p] \cup (expected_recv_nonce[p]..(from - 1))
       \/ /\ released'[p] = released[p]
          /\ skipped'[p] \cup discarded'[p] =
               skipped[p] \cup discarded[p]
                 \cup (expected_recv_nonce[p]..(expected_recv_nonce'[p] - 1))
    /\ reorder_buffer'[p] \subseteq (expected_recv_nonce'[p] + 1)..(SendNonce(Other(p)) - 1)
    /\ {n \in reorder_buffer[p] : n > expected_recv_nonce'[p]} \subseteq reorder_buffer'[p]
    /\ from # expected_recv_nonce[p] =>
         /\ from \in reorder_buffer[p]
         /\ (expected_recv_nonce[p]..(from - 1)) \cap reorder_buffer[p] = {}

ReceiverRests(p) ==
  /\ expected_recv_nonce'[p] = expected_recv_nonce[p]
  /\ reorder_buffer'[p] = reorder_buffer[p] /\ released'[p] = released[p]
  /\ skipped'[p] = skipped[p] /\ discarded'[p] = discarded[p]

LEMMA ReceiversRest == UNCHANGED recvVars => \A p \in Peers : ReceiverRests(p)
BY DEF recvVars, ReceiverRests

LEMMA ResumesAtLowest ==
  ASSUME Typed, NEW p \in Peers, NEW resume \in 0..NonceLimit, NEW base \in 0..NonceLimit,
         AfterGapRecovery(p, resume, base), resume # expected_recv_nonce[p]
  PROVE  /\ resume \in reorder_buffer[p]
         /\ (expected_recv_nonce[p]..(resume - 1)) \cap reorder_buffer[p] = {}
<1>1. resume \in reorder_buffer[p] /\ \A m \in reorder_buffer[p] : resume <= m
  BY DEF AfterGapRecovery
<1>2. resume \in Nat /\ expected_recv_nonce[p] \in Nat
  BY LimitsAssumption DEF Typed, RecvTypeOK
<1>3. \A m \in expected_recv_nonce[p]..(resume - 1) : m < resume /\ m \in Nat
  BY <1>2
<1>4. \A m \in expected_recv_nonce[p]..(resume - 1) : ~(resume <= m)
  BY <1>2, <1>3
<1> QED BY <1>1, <1>4

(* What the step leaves in the buffer lies ahead and below the frames built.  *)
LEMMA LeftAhead ==
  ASSUME Typed', Delivery', NEW p \in Peers, SendNonce(Other(p))' = SendNonce(Other(p))
  PROVE  /\ reorder_buffer'[p] \subseteq (expected_recv_nonce'[p] + 1)..(SendNonce(Other(p)) - 1)
         /\ expected_recv_nonce'[p] <= SendNonce(Other(p))
<1>1. /\ \A m \in reorder_buffer'[p] : expected_recv_nonce'[p] < m /\ m < SendNonce(Other(p))'
      /\ expected_recv_nonce'[p] <= SendNonce(Other(p))'
  BY DEF Delivery, ReorderWindow
<1>2. expected_recv_nonce'[p] \in Nat /\ \A m \in reorder_buffer'[p] : m \in Nat
  BY LimitsAssumption, NonceIs DEF Typed, RecvTypeOK
<1>3. SendNonce(Other(p))' \in Nat
  BY OtherPeer DEF Typed, SendTyped, SendNonce
<1>4. \A m \in reorder_buffer'[p] :
        m \in (expected_recv_nonce'[p] + 1)..(SendNonce(Other(p))' - 1)
  BY <1>1, <1>2, <1>3
<1> QED BY <1>1, <1>4

LEMMA AdvanceMoves ==
  ASSUME Typed, Typed', Delivery, Delivery', NEW p \in Peers,
         NEW resume \in 0..NonceLimit, NEW base \in 0..NonceLimit,
         AfterGapRecovery(p, resume, base), NEW to \in Nat, base <= to, NEW buf,
         Advance(p, resume, to, buf), SendNonce(Other(p))' = SendNonce(Other(p)),
         {n \in reorder_buffer[p] : n > to} \subseteq buf
  PROVE  ReceiverMoves(p) /\ ReceiverRests(Other(p))
<1>1. /\ expected_recv_nonce'[p] = to /\ reorder_buffer'[p] = buf
      /\ released'[p] = released[p] \o Run(resume, to)
      /\ skipped'[p] = skipped[p] \cup (expected_recv_nonce[p]..(resume - 1))
      /\ discarded'[p] = discarded[p]
  BY DEF Advance, Typed, RecvTypeOK
<1>2. ReceiverRests(Other(p))
  BY OtherPeer DEF Advance, ReceiverRests, Typed, RecvTypeOK
<1>3. /\ expected_recv_nonce[p] \in Nat /\ resume \in Nat /\ base \in Nat
      /\ expected_recv_nonce[p] <= resume /\ resume <= base
  BY GapRecoveryBounds
<1>4. /\ buf \subseteq (to + 1)..(SendNonce(Other(p)) - 1)
      /\ to <= SendNonce(Other(p))
  BY <1>1, LeftAhead
<1>5. SendNonce(Other(p)) \in Nat
  BY OtherPeer, SentType DEF Typed
<1>6. resume \in expected_recv_nonce[p]..to /\ to \in expected_recv_nonce[p]..SendNonce(Other(p))
  BY <1>3, <1>4, <1>5
<1>7. skipped'[p] \cup discarded'[p] =
        skipped[p] \cup discarded[p] \cup (expected_recv_nonce[p]..(resume - 1))
  BY <1>1
<1>8. resume # expected_recv_nonce[p] =>
        /\ resume \in reorder_buffer[p]
        /\ (expected_recv_nonce[p]..(resume - 1)) \cap reorder_buffer[p] = {}
  BY ResumesAtLowest
<1>9. ReceiverMoves(p)
  BY <1>1, <1>4, <1>6, <1>7, <1>8 DEF ReceiverMoves
<1> QED BY <1>2, <1>9

LEMMA DamagedMoves ==
  ASSUME Typed, Typed', Delivery, Delivery', NEW p \in Peers, NEW n \in Nonce,
         NEW resume \in 0..NonceLimit, NEW base \in 0..NonceLimit,
         AfterGapRecovery(p, resume, base), RecvDamaged(p, n, resume, base)
  PROVE  ReceiverMoves(p) /\ ReceiverRests(Other(p))
<1>1. /\ expected_recv_nonce'[p] = base
      /\ reorder_buffer'[p] = Beyond(reorder_buffer[p], base)
      /\ released'[p] = released[p]
      /\ skipped'[p] = skipped[p] \cup (expected_recv_nonce[p]..(resume - 1))
      /\ discarded'[p] = discarded[p] \cup (resume..(base - 1))
  BY DEF RecvDamaged, Typed, RecvTypeOK
<1>2. ReceiverRests(Other(p))
  BY OtherPeer DEF RecvDamaged, ReceiverRests, Typed, RecvTypeOK
<1>3. /\ expected_recv_nonce[p] \in Nat /\ resume \in Nat /\ base \in Nat
      /\ expected_recv_nonce[p] <= resume /\ resume <= base
  BY GapRecoveryBounds
<1>4. SendNonce(Other(p))' = SendNonce(Other(p)) /\ SendNonce(Other(p)) \in Nat
  BY OtherPeer, SentType DEF Typed, RecvDamaged, sendVars, SendNonce
<1>5. /\ reorder_buffer'[p] \subseteq (base + 1)..(SendNonce(Other(p)) - 1)
      /\ base <= SendNonce(Other(p))
  BY <1>1, <1>4, LeftAhead
<1>6. resume \in expected_recv_nonce[p]..base
      /\ base \in expected_recv_nonce[p]..SendNonce(Other(p))
  BY <1>3, <1>4, <1>5
<1>7. skipped'[p] \cup discarded'[p] =
        skipped[p] \cup discarded[p] \cup (expected_recv_nonce[p]..(base - 1))
  <2>1. (expected_recv_nonce[p]..(resume - 1)) \cup (resume..(base - 1))
          = expected_recv_nonce[p]..(base - 1)
    BY <1>3
  <2> QED BY <1>1, <2>1
<1>8. resume # expected_recv_nonce[p] =>
        /\ resume \in reorder_buffer[p]
        /\ (expected_recv_nonce[p]..(resume - 1)) \cap reorder_buffer[p] = {}
  BY ResumesAtLowest
<1>9. {m \in reorder_buffer[p] : m > base} \subseteq reorder_buffer'[p]
  BY <1>1 DEF Beyond
<1>10. ReceiverMoves(p)
  BY <1>1, <1>5, <1>6, <1>7, <1>8, <1>9 DEF ReceiverMoves
<1> QED BY <1>2, <1>10

--------------------------------------------------------------------------------
(* Every step, as one of both halves.                                         *)

(* The machine that acts moves as a sender, perhaps to where it is, and as a  *)
(* receiver moves or rests; the other rests.                                  *)
Acts(p) ==
  /\ SenderMoves(p) /\ SenderRests(Other(p))
  /\ ReceiverMoves(p) \/ ReceiverRests(p)
  /\ ReceiverRests(Other(p))

LEMMA SendingActs ==
  ASSUME Typed, Own, NEW p \in Peers,
         Outbound(p) \/ StartClose(p) \/ ForceClose(p) \/ PathChange(p) \/ Tick(p)
  PROVE  Acts(p)
<1>1. UNCHANGED recvVars
  BY DEF Outbound, StartClose, ForceClose, PathChange, Tick
<1>2. ReceiverRests(p) /\ ReceiverRests(Other(p))
  BY <1>1, ReceiversRest, OtherPeer
<1>3. SendTyped /\ sent_history[p] \in History(p)
  BY SentType DEF Typed
<1>4. CASE Outbound(p)
  <2>1. <<DataFrame>> \in Seq(Frame)
    BY DEF DataFrame, Frame
  <2>2. Emit(p, sent_history[p], <<DataFrame>>) /\ gave_up' = gave_up
    BY <1>4 DEF Outbound
  <2>3. SenderMoves(p) /\ SenderRests(Other(p))
    BY <1>3, <2>1, <2>2, EmitMoves
  <2> QED BY <1>2, <2>3 DEF Acts
<1>5. CASE StartClose(p)
  <2>1. <<CloseFrame>> \in Seq(Frame)
    BY DEF CloseFrame, Frame
  <2>2. Emit(p, sent_history[p], <<CloseFrame>>) /\ gave_up' = gave_up
    BY <1>5 DEF StartClose
  <2>3. SenderMoves(p) /\ SenderRests(Other(p))
    BY <1>3, <2>1, <2>2, EmitMoves
  <2> QED BY <1>2, <2>3 DEF Acts
<1>6. CASE ForceClose(p)
  <2>1. UNCHANGED <<sent, sent_history, gave_up, overflowed>>
    BY <1>6 DEF ForceClose, sendVars
  <2>2. SenderMoves(p) /\ SenderRests(Other(p))
    BY <1>3, <2>1, KeptMoves DEF SenderRests
  <2> QED BY <1>2, <2>2 DEF Acts
<1>7. CASE PathChange(p)
  <2>1. /\ UNCHANGED <<sent, gave_up, overflowed>>
        /\ DOMAIN sent_history'[p] = DOMAIN sent_history[p]
        /\ \A q \in Peers : q # p => sent_history'[q] = sent_history[q]
    BY <1>7 DEF PathChange, Typed, SendTyped
  <2>2. SenderMoves(p)
    BY <1>3, <2>1, KeptMoves
  <2>3. SenderRests(Other(p))
    BY <2>1, OtherPeer DEF SenderRests
  <2> QED BY <1>2, <2>2, <2>3 DEF Acts
<1>8. CASE Tick(p)
  BY <1>2, <1>8, TickMoves DEF Acts
<1> QED BY <1>4, <1>5, <1>6, <1>7, <1>8

LEMMA DuplicateActs ==
  ASSUME Typed, Typed', Delivery, Delivery', Own, NEW p \in Peers, NEW n \in Nonce,
         NEW resume \in 0..NonceLimit, NEW base \in 0..NonceLimit,
         AfterGapRecovery(p, resume, base),
         RecvDuplicate(p, n, resume, base) \/ RecvBeyondWindow(p, n, resume, base)
  PROVE  Acts(p)
<1> DEFINE buf == Beyond(reorder_buffer[p], base)
           ackFrame == AckFrame(AckedNonces(base, buf))
<1>1. SendTyped /\ RecvTypeOK /\ sent_history[p] \in History(p)
  BY SentType DEF Typed
<1>2. base \in Nat /\ buf \in SUBSET Nonce
  BY <1>1, GapRecoveryType
<1>3. ackFrame \in Frame /\ NackFrame(base) \in Frame
  BY <1>2, AckFrameType, NackFrameType
<1>4. PICK frame \in {ackFrame, NackFrame(base)} :
        /\ Emit(p, sent_history[p], <<frame>>) /\ gave_up' = gave_up
        /\ Advance(p, resume, base, buf)
  BY DEF RecvDuplicate, RecvBeyondWindow
<1> HIDE DEF ackFrame
<1>5. <<frame>> \in Seq(Frame)
  BY <1>3
<1>6. SenderMoves(p) /\ SenderRests(Other(p))
  BY <1>1, <1>4, <1>5, EmitMoves
<1>7. SendNonce(Other(p))' = SendNonce(Other(p))
  BY <1>6 DEF SenderRests, SendNonce
<1>8. {m \in reorder_buffer[p] : m > base} \subseteq buf
  BY DEF Beyond
<1>9. ReceiverMoves(p) /\ ReceiverRests(Other(p))
  BY <1>2, <1>4, <1>7, <1>8, AdvanceMoves
<1> QED BY <1>6, <1>9 DEF Acts

LEMMA DamagedActs ==
  ASSUME Typed, Typed', Delivery, Delivery', Own, NEW p \in Peers, NEW n \in Nonce,
         NEW resume \in 0..NonceLimit, NEW base \in 0..NonceLimit,
         AfterGapRecovery(p, resume, base), RecvDamaged(p, n, resume, base)
  PROVE  Acts(p)
<1>1. SendTyped /\ UNCHANGED <<sent, sent_history, gave_up, overflowed>>
  BY DEF Typed, RecvDamaged, sendVars
<1>2. SenderMoves(p) /\ SenderRests(Other(p))
  BY <1>1, KeptMoves DEF SenderRests
<1>3. ReceiverMoves(p) /\ ReceiverRests(Other(p))
  BY DamagedMoves
<1> QED BY <1>2, <1>3 DEF Acts

LEMMA FrameActs ==
  ASSUME Typed, Typed', Delivery, Delivery', Own, NEW p \in Peers, NEW n \in Nonce,
         NEW resume \in 0..NonceLimit, NEW base \in 0..NonceLimit,
         AfterGapRecovery(p, resume, base), n < SendNonce(Other(p)),
         RecvFrame(p, n, resume, base)
  PROVE  Acts(p)
<1> DEFINE f == FrameOf(Other(p), n)
           buf == Stored(p, n, base)
<1>1. RecvTypeOK /\ SendTyped /\ base \in Nat /\ gave_up' = gave_up
  BY LimitsAssumption DEF Typed, RecvFrame
<1>2. PICK to \in base..NonceLimit :
        /\ Advance(p, resume, to, Beyond(buf, to))
        /\ \E nack \in {<<>>, <<NackFrame(to)>>},
              ack  \in {<<>>, <<AckFrame(AckedNonces(to, Beyond(buf, to)))>>} :
             Emit(p, HistoryAfter(p, f), nack \o ack)
  BY DEF RecvFrame
<1>3. to \in 0..NonceLimit /\ to \in Nat /\ base <= to
  BY <1>1, LimitsAssumption
<1>4. Beyond(buf, to) \in SUBSET Nonce
  BY <1>1, StoredType
<1> DEFINE ackFrame == AckFrame(AckedNonces(to, Beyond(buf, to)))
<1>5. PICK nack \in {<<>>, <<NackFrame(to)>>}, ack \in {<<>>, <<ackFrame>>} :
        Emit(p, HistoryAfter(p, f), nack \o ack)
  BY <1>2
<1>6. NackFrame(to) \in Frame /\ ackFrame \in Frame
  BY <1>3, <1>4, NackFrameType, AckFrameType
<1> HIDE DEF ackFrame
<1>7. nack \o ack \in Seq(Frame)
  BY <1>6, TwoFrames
<1>8. HistoryAfter(p, f) \in History(p) /\ DOMAIN HistoryAfter(p, f) \subseteq DOMAIN sent_history[p]
  BY <1>1, HistoryAfterType
<1>9. SenderMoves(p) /\ SenderRests(Other(p))
  BY <1>1, <1>5, <1>7, <1>8, EmitMoves
<1>10. SendNonce(Other(p))' = SendNonce(Other(p))
  BY <1>9 DEF SenderRests, SendNonce
<1>11. {m \in reorder_buffer[p] : m > to} \subseteq Beyond(buf, to)
  <2>1. \A m \in reorder_buffer[p] : m \in Nat
    BY <1>1, NonceIs DEF RecvTypeOK
  <2>2. \A m \in reorder_buffer[p] : m > to => m > base
    BY <1>1, <1>3, <2>1
  <2> QED BY <2>2 DEF Stored, Beyond
<1>12. ReceiverMoves(p) /\ ReceiverRests(Other(p))
  BY <1>2, <1>3, <1>10, <1>11, AdvanceMoves
<1> QED BY <1>9, <1>12 DEF Acts

LEMMA EveryStepActs ==
  ASSUME Typed, Typed', Delivery, Delivery', Own, Next
  PROVE  \E p \in Peers : Acts(p)
<1>1. PICK p \in Peers :
        \/ Outbound(p) \/ StartClose(p) \/ ForceClose(p) \/ PathChange(p) \/ Tick(p)
        \/ \E n \in Nonce : Inbound(p, n)
  BY DEF Next
<1>2. CASE \E n \in Nonce : Inbound(p, n)
  <2>1. PICK n \in Nonce : Inbound(p, n)
    BY <1>2
  <2>2. Acts(p)
    BY <2>1, DuplicateActs, DamagedActs, FrameActs DEF Inbound
  <2> QED BY <2>2
<1> QED BY <1>1, <1>2, SendingActs

LEMMA OwnAlways ==
  Typed /\ Typed' /\ Delivery /\ Delivery' /\ Own /\ [Next]_vars => Own'
<1> SUFFICES ASSUME Typed, Typed', Delivery, Delivery', Own, [Next]_vars
             PROVE  Own'
  OBVIOUS
<1>1. CASE Next
  <2>1. PICK p \in Peers : Acts(p)
    BY <1>1, EveryStepActs
  <2>2. Abandoned(p)' \subseteq 0..(SendNonce(p)' - 1)
    BY <2>1 DEF Acts, SenderMoves
  <2>3. Abandoned(Other(p))' \subseteq 0..(SendNonce(Other(p))' - 1)
    <3>1. Abandoned(Other(p)) \subseteq 0..(SendNonce(Other(p)) - 1)
      BY OtherPeer DEF Own
    <3>2. Abandoned(Other(p))' = Abandoned(Other(p))
          /\ SendNonce(Other(p))' = SendNonce(Other(p))
      BY <2>1 DEF Acts, SenderRests, Abandoned, SendNonce
    <3> QED BY <3>1, <3>2
  <2> QED BY <2>2, <2>3, OtherPeer DEF Own
<1>2. CASE UNCHANGED vars
  BY <1>2 DEF vars, sendVars, Own, Abandoned, SendNonce
<1> QED BY <1>1, <1>2

--------------------------------------------------------------------------------
(* The steps of Transfer for the frames of p.                                 *)

SendStep(p) ==
  /\ SenderMoves(p)
  /\ 0..(SendNonce(p)' - 1) \subseteq
       DOMAIN sent_history'[p] \cup Received(Other(p)) \cup Abandoned(p)'
  /\ ReceiverRests(Other(p))

ReceiveStep(p) == SenderRests(p) /\ (ReceiverMoves(Other(p)) \/ ReceiverRests(Other(p)))

LEMMA StepsOfTransfer ==
  ASSUME Typed, Typed', Delivery, Delivery', Custody', Own, Next, NEW p \in Peers
  PROVE  SendStep(p) \/ ReceiveStep(p)
<1>1. PICK q \in Peers : Acts(q)
  BY EveryStepActs
<1>2. CASE q = p
  <2>1. Received(Other(p))' = Received(Other(p))
    BY <1>1, <1>2 DEF Acts, ReceiverRests, Received
  <2>2. \A n \in 0..(SendNonce(p)' - 1) :
          n \in DOMAIN sent_history'[p] \cup Received(Other(p))' \cup Abandoned(p)'
    BY DEF Custody, Abandoned
  <2> QED BY <1>1, <1>2, <2>1, <2>2 DEF SendStep, Acts
<1>3. CASE q # p
  <2>1. q = Other(p) /\ p = Other(q)
    BY <1>3, OtherPeer
  <2> QED BY <1>1, <2>1 DEF Acts, ReceiveStep
<1> QED BY <1>2, <1>3

LEMMA InitiatorStep ==
  SendStep(Initiator) \/ ReceiveStep(Initiator) => [FromInitiator!Next]_FromInitiator!vars
<1>1. Other(Initiator) = Responder /\ Initiator \in Peers
  BY RolesAssumption DEF Other, Peers
<1>2. CASE SendStep(Initiator)
  <2>1. FromInitiator!Send
    BY <1>1, <1>2 DEF FromInitiator!Send, FromInitiator!Frames, FromInitiator!Known, FromInitiator!receiverVars,
       SendStep, SenderMoves, ReceiverRests, Received, Abandoned
  <2> QED BY <2>1 DEF FromInitiator!Next
<1>3. CASE ReceiveStep(Initiator) /\ ReceiverMoves(Responder)
  <2>1. UNCHANGED FromInitiator!senderVars
    BY <1>3 DEF FromInitiator!senderVars, ReceiveStep, SenderRests, SendNonce
  <2>2. Other(Responder) = Initiator
    BY RolesAssumption DEF Other
  <2>3. FromInitiator!Receive
    BY <1>3, <2>1, <2>2 DEF FromInitiator!Receive, ReceiverMoves, Run
  <2> QED BY <2>3 DEF FromInitiator!Next
<1>4. CASE ReceiveStep(Initiator) /\ ReceiverRests(Responder)
  BY <1>4 DEF FromInitiator!vars, FromInitiator!senderVars, FromInitiator!receiverVars,
     ReceiveStep, SenderRests, ReceiverRests, SendNonce
<1> QED BY <1>1, <1>2, <1>3, <1>4 DEF ReceiveStep

LEMMA InitiatorStarts == Init => FromInitiator!Init
<1> SUFFICES ASSUME Init PROVE FromInitiator!Init
  OBVIOUS
<1>1. {Initiator, Responder} \subseteq Peers
  BY DEF Peers
<1>2. SendNonce(Initiator) = 0 /\ DOMAIN sent_history[Initiator] = {}
  BY <1>1 DEF Init, SendNonce
<1> QED BY <1>1, <1>2 DEF Init, FromInitiator!Init

LEMMA InitiatorRests == UNCHANGED vars => UNCHANGED FromInitiator!vars
BY DEF vars, sendVars, recvVars, FromInitiator!vars, FromInitiator!senderVars, FromInitiator!receiverVars, SendNonce

LEMMA ResponderStep ==
  SendStep(Responder) \/ ReceiveStep(Responder) => [FromResponder!Next]_FromResponder!vars
<1>1. Other(Responder) = Initiator /\ Responder \in Peers
  BY RolesAssumption DEF Other, Peers
<1>2. CASE SendStep(Responder)
  <2>1. FromResponder!Send
    BY <1>1, <1>2 DEF FromResponder!Send, FromResponder!Frames, FromResponder!Known, FromResponder!receiverVars,
       SendStep, SenderMoves, ReceiverRests, Received, Abandoned
  <2> QED BY <2>1 DEF FromResponder!Next
<1>3. CASE ReceiveStep(Responder) /\ ReceiverMoves(Initiator)
  <2>1. UNCHANGED FromResponder!senderVars
    BY <1>3 DEF FromResponder!senderVars, ReceiveStep, SenderRests, SendNonce
  <2>2. Other(Initiator) = Responder
    BY RolesAssumption DEF Other
  <2>3. FromResponder!Receive
    BY <1>3, <2>1, <2>2 DEF FromResponder!Receive, ReceiverMoves, Run
  <2> QED BY <2>3 DEF FromResponder!Next
<1>4. CASE ReceiveStep(Responder) /\ ReceiverRests(Initiator)
  BY <1>4 DEF FromResponder!vars, FromResponder!senderVars, FromResponder!receiverVars,
     ReceiveStep, SenderRests, ReceiverRests, SendNonce
<1> QED BY <1>1, <1>2, <1>3, <1>4 DEF ReceiveStep

LEMMA ResponderStarts == Init => FromResponder!Init
<1> SUFFICES ASSUME Init PROVE FromResponder!Init
  OBVIOUS
<1>1. {Responder, Initiator} \subseteq Peers
  BY DEF Peers
<1>2. SendNonce(Responder) = 0 /\ DOMAIN sent_history[Responder] = {}
  BY <1>1 DEF Init, SendNonce
<1> QED BY <1>1, <1>2 DEF Init, FromResponder!Init

LEMMA ResponderRests == UNCHANGED vars => UNCHANGED FromResponder!vars
BY DEF vars, sendVars, recvVars, FromResponder!vars, FromResponder!senderVars, FromResponder!receiverVars, SendNonce

(* The ARQ implements Transfer for the frames of each machine: every          *)
(* behaviour hands them over in order and at most once, and loses none        *)
(* between the sender's history, its giving up and the receiver.              *)
THEOREM ArqImplementsTransfer == Spec => BothTransfer
<1>1. Init => Own
  <2> SUFFICES ASSUME Init PROVE Own
    OBVIOUS
  <2>1. \A p \in Peers : Abandoned(p) = {}
    BY DEF Init, Abandoned
  <2> QED BY <2>1 DEF Own
<1>2. Typed /\ Typed' /\ Delivery /\ Delivery' /\ Own /\ [Next]_vars => Own'
  BY OwnAlways
<1>3. Typed /\ Typed' /\ Delivery /\ Delivery' /\ Custody' /\ Own /\ [Next]_vars
        => [FromInitiator!Next]_FromInitiator!vars
  BY StepsOfTransfer, InitiatorStep, InitiatorRests DEF Peers
<1>4. Typed /\ Typed' /\ Delivery /\ Delivery' /\ Custody' /\ Own /\ [Next]_vars
        => [FromResponder!Next]_FromResponder!vars
  BY StepsOfTransfer, ResponderStep, ResponderRests DEF Peers
<1>5. Spec => []Typed /\ []Delivery /\ [](AcksTruthful /\ Custody)
  BY TypedAlways, DeliveryKept, NoFrameIsLost
<1>6. Spec => InitiatorTransfer
  BY <1>1, <1>2, <1>3, <1>5, InitiatorStarts, PTL DEF Spec, InitiatorTransfer, FromInitiator!Spec
<1>7. Spec => ResponderTransfer
  BY <1>1, <1>2, <1>4, <1>5, ResponderStarts, PTL DEF Spec, ResponderTransfer, FromResponder!Spec
<1> QED BY <1>6, <1>7 DEF BothTransfer
================================================================================
