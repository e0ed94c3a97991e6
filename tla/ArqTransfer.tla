------------------------------- MODULE ArqTransfer -----------------------------
(* The ARQ implements Transfer twice: for the frames of the initiator, which  *)
(* the responder receives, and for the frames of the responder.               *)
EXTENDS Arq

FromInitiator == INSTANCE Transfer WITH
  Limit     <- NonceLimit,
  submitted <- SendNonce(Initiator),
  kept      <- DOMAIN sent_history[Initiator],
  abandoned <- gave_up[Initiator] \cup overflowed[Initiator],
  passed    <- expected_recv_nonce[Responder],
  early     <- reorder_buffer[Responder],
  handed    <- released[Responder],
  missed    <- skipped[Responder] \cup discarded[Responder]

FromResponder == INSTANCE Transfer WITH
  Limit     <- NonceLimit,
  submitted <- SendNonce(Responder),
  kept      <- DOMAIN sent_history[Responder],
  abandoned <- gave_up[Responder] \cup overflowed[Responder],
  passed    <- expected_recv_nonce[Initiator],
  early     <- reorder_buffer[Initiator],
  handed    <- released[Initiator],
  missed    <- skipped[Initiator] \cup discarded[Initiator]

(* Every step of the two machines is a step Transfer allows for the frames of *)
(* the initiator: none is lost between the sender's history, its giving up    *)
(* and the receiver, and they are handed over in order.                       *)
InitiatorTransfer == FromInitiator!Spec

(* The same for the frames of the responder.                                  *)
ResponderTransfer == FromResponder!Spec

(* Both directions.                                                           *)
BothTransfer == InitiatorTransfer /\ ResponderTransfer
================================================================================
