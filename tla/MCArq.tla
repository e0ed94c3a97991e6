--------------------------------- MODULE MCArq ---------------------------------
(* Instances of Arq for TLC: the per-machine bounds are given one by one.     *)
EXTENDS ArqTransfer, TLC

CONSTANTS InitiatorFrames, ResponderFrames, InitiatorData, ResponderData
MCFrameLimit == Initiator :> InitiatorFrames @@ Responder :> ResponderFrames
MCSendLimit == Initiator :> InitiatorData @@ Responder :> ResponderData
================================================================================
