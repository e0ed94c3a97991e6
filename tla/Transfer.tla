-------------------------------- MODULE Transfer -------------------------------
(***************************************************************************)
(* What one direction of an OSTP session promises, whatever the network    *)
(* does: frames 0, 1, 2, ... are submitted, handed over in order and at    *)
(* most once, and until then somebody answers for each of them.  A frame   *)
(* that never arrives was either abandoned by its sender or missed by its  *)
(* receiver, never lost between them.                                      *)
(***************************************************************************)
EXTENDS Integers, Sequences

CONSTANTS Limit    \* frames are 0..Limit-1

VARIABLES
  submitted,   \* number of frames submitted
  kept,        \* frames the sender can still transmit
  abandoned,   \* frames the sender gave up without knowing their fate
  passed,      \* the receiver is done with all frames below this one
  early,       \* frames the receiver holds ahead of its turn
  handed,      \* frames handed over, in order
  missed       \* frames the receiver moved past without handing them over

senderVars == <<submitted, kept, abandoned>>
receiverVars == <<passed, early, handed, missed>>
vars == <<senderVars, receiverVars>>

Frames == 0..(submitted - 1)
Known == (0..(passed - 1)) \cup early

Init ==
  /\ submitted = 0 /\ kept = {} /\ abandoned = {}
  /\ passed = 0 /\ early = {} /\ handed = <<>> /\ missed = {}

(* The sender submits frames and lets go of others: only of those the         *)
(* receiver knows, or else it abandons them.                                  *)
Send ==
  /\ submitted' \in submitted..Limit
  /\ kept' \subseteq kept \cup (submitted..(submitted' - 1))
  /\ abandoned \subseteq abandoned' /\ abandoned' \subseteq Frames'
  /\ Frames' \subseteq kept' \cup Known \cup abandoned'
  /\ UNCHANGED receiverVars

(* The receiver moves on to "passed'": it misses the frames below "from" and  *)
(* hands over the run from there, or misses that too.  What it holds early    *)
(* and has not moved past stays.                                              *)
Receive ==
  \E from \in passed..passed' :
    /\ passed' \in passed..submitted
    /\ \/ /\ handed' = handed \o [i \in 1..(passed' - from) |-> from + i - 1]
          /\ missed' = missed \cup (passed..(from - 1))
       \/ /\ handed' = handed
          /\ missed' = missed \cup (passed..(passed' - 1))
    /\ early' \subseteq (passed' + 1)..(submitted - 1)
    /\ {n \in early : n > passed'} \subseteq early'
    /\ from # passed => from \in early /\ (passed..(from - 1)) \cap early = {}
    /\ UNCHANGED senderVars

Next == Send \/ Receive
Spec == Init /\ [][Next]_vars

================================================================================
