----------------------------- MODULE MCDispatcher -----------------------------
(* Instances of Dispatcher for TLC.  The clients of MCKeys hold one key, but  *)
(* for those of OtherUser.                                                    *)
EXTENDS Dispatcher, TLC

CONSTANTS Alice, Bob, OtherUser
MCKeys == {Alice, Bob}
MCKeyOf == [s \in Sids |-> IF s \in OtherUser THEN Bob ELSE Alice]
SessionSymmetry == Permutations(Sids \ OtherUser)
AddressSymmetry == Permutations(Addrs)
Symmetry == SessionSymmetry \cup AddressSymmetry
================================================================================
