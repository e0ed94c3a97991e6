------------------------------- MODULE Reassembly -------------------------------
(***************************************************************************)
(* The reassembly of IPv4 fragments between the TUN device and the netstack  *)
(* (ostp-client/src/tunnel/ip_reasm.rs).  A length is a number of 8-byte     *)
(* units, a time a number of ticks; what a fragment carries is the datagram  *)
(* it was cut from.                                                          *)
(***************************************************************************)
EXTENDS Integers, FiniteSets

CONSTANTS
  Keys,         \* (src, dst, identification, protocol)
  Datagrams,    \* what is sent under one key, one after the other
  Layouts,      \* the ways a datagram is cut: sets of [off, len, more]
  ReasmTimeout, SweepEvery, MaxGroups, MaxUnits,
  MinReuse      \* environment: ticks before a sender uses an identification again

(* A cut has one end, which is that of the fragment without MF.               *)
Valid == /\ {ReasmTimeout, SweepEvery, MaxGroups, MaxUnits} \subseteq Nat \ {0}
         /\ MinReuse \in Nat /\ MinReuse >= ReasmTimeout + SweepEvery
         /\ \A layout \in Layouts : \A f \in layout :
              /\ f.off \in Nat /\ f.len \in Nat \ {0} /\ f.more \in BOOLEAN
              /\ ~f.more => \A g \in layout : g.off + g.len <= f.off + f.len

VARIABLES
  groups,       \* Reassembler: the fragments of each key, by their offset
  since_sweep,  \* ticks since last_sweep, up to SweepEvery
  forwarded,    \* the datagram process returned last, or Nothing
  sending       \* per key: the datagram on its way, its cut, the ticks since its last fragment

reassembly == <<groups, since_sweep, forwarded, sending>>

Nothing == [key |-> "none"]
NewGroup == [parts |-> <<>>, total_len |-> 0, age |-> 0]
NoGroups == [k \in {} |-> NewGroup]

Init ==
  /\ groups = NoGroups /\ since_sweep = 0 /\ forwarded = Nothing
  /\ sending \in [Keys -> [datagram : {CHOOSE d \in Datagrams : \A e \in Datagrams : d <= e},
                           layout : Layouts, age : {0}]]

--------------------------------------------------------------------------------
Without(gs, k) == [j \in DOMAIN gs \ {k} |-> gs[j]]

(* maybe_sweep, on every frame and at most once per SweepEvery.              *)
Swept == IF since_sweep < SweepEvery THEN groups
         ELSE [k \in {j \in DOMAIN groups : groups[j].age < ReasmTimeout} |-> groups[k]]
(* Mutant: every frame counts as a sweep.                                     *)
SweepsUnderLoad == since_sweep' = 0
Sweeps == since_sweep' = IF since_sweep < SweepEvery THEN since_sweep ELSE 0

(* Under pressure the oldest group makes room (one of them: the order of a   *)
(* HashMap).                                                                 *)
(* Mutant: a full table takes another group.                                  *)
RoomForAll(gs, k) == {gs}
RoomFor(gs, k) ==
  IF k \in DOMAIN gs \/ Cardinality(DOMAIN gs) < MaxGroups THEN {gs}
  ELSE {Without(gs, j) : j \in {i \in DOMAIN gs : \A l \in DOMAIN gs : gs[i].age >= gs[l].age}}

Inserted(g, f, d) ==
  [g EXCEPT !.parts = [o \in DOMAIN g.parts \cup {f.off} |->
                         IF o = f.off THEN [len |-> f.len, of |-> d] ELSE g.parts[o]],
            !.total_len = IF f.more THEN @ ELSE f.off + f.len]

Covers(g, u) == {o \in DOMAIN g.parts : o <= u /\ u < o + g.parts[o].len}
(* Mutant: fragments that overlap never complete a datagram.                  *)
CompleteWithoutOverlap(g) ==
  /\ g.total_len # 0 /\ 0 \in DOMAIN g.parts
  /\ \A u \in 0..(g.total_len - 1) : Cardinality(Covers(g, u)) = 1
Complete(g) == /\ g.total_len # 0 /\ 0 \in DOMAIN g.parts
               /\ \A u \in 0..(g.total_len - 1) : Covers(g, u) # {}
               /\ \A o \in DOMAIN g.parts : o = 0 \/ Covers(g, o - 1) # {}

(* The parts are copied in the order of their offsets, the later one on top. *)
Stitched(g) == [u \in 0..(g.total_len - 1) |->
                  g.parts[CHOOSE o \in Covers(g, u) : \A p \in Covers(g, u) : p <= o].of]

Fragment(k, f) ==
  /\ f \in sending[k].layout
  /\ \E gs \in RoomFor(Swept, k) :
       LET old == IF k \in DOMAIN gs THEN gs[k] ELSE NewGroup
           new == Inserted(old, f, sending[k].datagram)
       IN IF f.off + f.len > MaxUnits
            THEN groups' = Without(gs, k) /\ forwarded' = Nothing
          ELSE IF Complete(new)
            THEN groups' = Without(gs, k) /\ forwarded' = [key |-> k, units |-> Stitched(new)]
          ELSE /\ groups' = [j \in DOMAIN gs \cup {k} |-> IF j = k THEN new ELSE gs[j]]
               /\ forwarded' = Nothing
  /\ Sweeps /\ sending' = [sending EXCEPT ![k].age = 0]

(* A frame that is no fragment passes straight through.                      *)
PassThrough ==
  /\ groups' = Swept /\ Sweeps
  /\ forwarded' = Nothing /\ UNCHANGED sending

(* The sender uses the identification again, for the next datagram.          *)
Reuse(k) ==
  /\ sending[k].age >= MinReuse
  /\ \E l \in Layouts, d \in Datagrams :
       /\ d = sending[k].datagram + 1
       /\ sending' = [sending EXCEPT ![k] = [datagram |-> d, layout |-> l, age |-> 0]]
  /\ UNCHANGED <<groups, since_sweep, forwarded>>

Tick ==
  /\ groups' = [k \in DOMAIN groups |->
                  [groups[k] EXCEPT !.age = IF @ < ReasmTimeout THEN @ + 1 ELSE @]]
  /\ since_sweep' = IF since_sweep < SweepEvery THEN since_sweep + 1 ELSE since_sweep
  /\ sending' = [k \in Keys |-> [sending[k] EXCEPT !.age = IF @ < MinReuse THEN @ + 1 ELSE @]]
  /\ forwarded' = Nothing

Next == \/ \E k \in Keys : Reuse(k) \/ \E f \in UNION Layouts : Fragment(k, f)
        \/ PassThrough \/ Tick

--------------------------------------------------------------------------------
(* The table of unfinished datagrams keeps within its cap, whatever is sent. *)
GroupsBounded == Cardinality(DOMAIN groups) <= MaxGroups

(* Every byte of a datagram handed to the netstack came from that datagram:   *)
(* what a lost tail left behind is gone when the identification comes back.  *)
Unmixed == forwarded # Nothing => \A u \in DOMAIN forwarded.units :
             forwarded.units[u] = sending[forwarded.key].datagram

(* A datagram is forwarded with the fragment that completes it, whichever of  *)
(* them comes last: nothing complete is left to wait for the timeout.        *)
NothingCompleteWaits ==
  \A k \in DOMAIN groups :
    groups[k].total_len # 0 => \E u \in 0..(groups[k].total_len - 1) : Covers(groups[k], u) = {}

(* A datagram comes out whole, of its own fragments, at once, from a bounded  *)
(* table.                                                                     *)
DatagramsWhole == GroupsBounded /\ Unmixed /\ NothingCompleteWaits
================================================================================
