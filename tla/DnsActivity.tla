------------------------------ MODULE DnsActivity -------------------------------
(* The DNS resolver's counters and query log, and the activity file they are  *)
(* kept in (ostp-dns, lib.rs).  A task writes the file once a minute when     *)
(* something changed, "Clear" and a clean stop write it at once; each writer  *)
(* fills the same temporary file and renames it.                              *)
EXTENDS Naturals, FiniteSets

CONSTANTS
  Recorders,   \* queries answered at the same time
  MaxRecorded, \* bound: entries
  MaxCleared   \* bound: times the log is cleared

Writers == {"minute", "clear", "stop"}

VARIABLES
  total,      \* counters: entries counted since the last clear
  log,        \* entries in the query log
  dirty,      \* the file is not up to date
  recorded,   \* entries so far
  recording,  \* recorder -> "idle", "dirty" or "push"
  entry,      \* recorder -> its entry
  writing,    \* writer -> how far it is
  body,       \* writer -> what it is about to write
  tmp, saved, \* the two files
  cleared,    \* times the log was cleared
  crowded     \* history: two writers at once, since the last that was alone

activityVars == <<total, log, dirty, recorded, recording, entry, writing, body, tmp, saved, cleared, crowded>>

Empty == [total |-> 0, log |-> {}]
None == [total |-> 0, log |-> {0}]

Init ==
  /\ total = 0 /\ log = {} /\ dirty = FALSE /\ recorded = 0
  /\ recording = [r \in Recorders |-> "idle"] /\ entry = [r \in Recorders |-> 0]
  /\ writing = [w \in Writers |-> "idle"] /\ body = [w \in Writers |-> Empty]
  /\ tmp = None /\ saved = Empty /\ cleared = 0 /\ crowded = FALSE

fileVars == <<writing, body, tmp, saved, cleared, crowded>>
recordVars == <<recorded, recording, entry>>

--------------------------------------------------------------------------------
(* record                                                                     *)

Count(r) ==
  /\ recording[r] = "idle" /\ recorded < MaxRecorded
  /\ recorded' = recorded + 1 /\ entry' = [entry EXCEPT ![r] = recorded'] /\ total' = total + 1
  /\ recording' = [recording EXCEPT ![r] = "dirty"]
  /\ UNCHANGED <<log, dirty, fileVars>>

MarkDirty(r) ==
  /\ recording[r] = "dirty" /\ dirty' = TRUE /\ recording' = [recording EXCEPT ![r] = "push"]
  /\ UNCHANGED <<total, log, recorded, entry, fileVars>>

Push(r) ==
  /\ recording[r] = "push" /\ log' = log \cup {entry[r]} /\ recording' = [recording EXCEPT ![r] = "idle"]
  /\ UNCHANGED <<total, dirty, recorded, entry, fileVars>>

--------------------------------------------------------------------------------
(* persist                                                                    *)

At(w, p) == writing[w] = p /\ UNCHANGED recordVars
To(w, p) == writing' = [writing EXCEPT ![w] = p]
Alone(w) == \A v \in Writers \ {w} : writing[v] \notin {"body", "write", "rename"}

(* The minute's task, and the stop of the service.                            *)
Begins(w) ==
  /\ w # "clear" /\ At(w, "idle") /\ To(w, "swap")
  /\ UNCHANGED <<total, log, dirty, body, tmp, saved, cleared, crowded>>

(* clear_log: the log, then the counters.                                     *)
ClearLog ==
  /\ At("clear", "idle") /\ cleared < MaxCleared /\ cleared' = cleared + 1
  /\ log' = {} /\ To("clear", "counters")
  /\ UNCHANGED <<total, dirty, body, tmp, saved, crowded>>

ClearCounters ==
  /\ At("clear", "counters") /\ total' = 0 /\ To("clear", "dirty")
  /\ UNCHANGED <<log, dirty, body, tmp, saved, cleared, crowded>>

ClearMarks ==
  /\ At("clear", "dirty") /\ dirty' = TRUE /\ To("clear", "swap")
  /\ UNCHANGED <<total, log, body, tmp, saved, cleared, crowded>>

Swap(w) ==
  /\ At(w, "swap")
  /\ IF dirty THEN To(w, "body") /\ dirty' = FALSE /\ crowded' = ~Alone(w)
     ELSE To(w, "idle") /\ UNCHANGED <<dirty, crowded>>
  /\ UNCHANGED <<total, log, body, tmp, saved, cleared>>

(* Both locks are held.                                                       *)
Body(w) ==
  /\ At(w, "body") /\ body' = [body EXCEPT ![w] = [total |-> total, log |-> log]] /\ To(w, "write")
  /\ UNCHANGED <<total, log, dirty, tmp, saved, cleared, crowded>>

(* Mutant: what could not be written is not tried again.                      *)
NotKept == UNCHANGED dirty

(* What could not be written stays to be written.                             *)
Kept == dirty' = TRUE

(* write_private                                                              *)
Write(w) ==
  /\ At(w, "write")
  /\ \/ tmp' = body[w] /\ To(w, "rename") /\ UNCHANGED dirty
     \/ Kept /\ To(w, "idle") /\ UNCHANGED tmp
  /\ body' = [body EXCEPT ![w] = Empty]
  /\ UNCHANGED <<total, log, saved, cleared, crowded>>

(* Mutant: a rename of nothing leaves no file.                                *)
AnyToRename == TRUE

(* The other writer may have renamed it already.                              *)
ToRename == tmp # None

Rename(w) ==
  /\ At(w, "rename") /\ To(w, "idle")
  /\ IF ToRename THEN saved' = tmp /\ tmp' = None /\ UNCHANGED dirty
     ELSE Kept /\ UNCHANGED <<tmp, saved>>
  /\ UNCHANGED <<total, log, body, cleared, crowded>>

Next ==
  \/ \E r \in Recorders : Count(r) \/ MarkDirty(r) \/ Push(r)
  \/ ClearLog \/ ClearCounters \/ ClearMarks
  \/ \E w \in Writers : Begins(w) \/ Swap(w) \/ Body(w) \/ Write(w) \/ Rename(w)

Spec == Init /\ [][Next]_activityVars

--------------------------------------------------------------------------------
(* The variables have their types; the log holds what was recorded.           *)
TypeOK == /\ log \subseteq 1..recorded /\ total \in 0..recorded /\ dirty \in BOOLEAN
          /\ saved # None /\ saved.total \in 0..recorded

Quiet == \A w \in Writers : writing[w] = "idle"

(* What was counted while the file was being written is written by the next   *)
(* writer: when the flag is down the counters on disk are those in memory,    *)
(* unless two writers ran at once.                                            *)
CountersSaved == Quiet /\ ~dirty /\ ~crowded /\ (\A r \in Recorders : recording[r] # "dirty") => saved.total = total

(* "at most this much is lost on a crash": the same of the query log.         *)
LogSaved == Quiet /\ ~dirty /\ ~crowded /\ (\A r \in Recorders : recording[r] = "idle") => saved.log = log
================================================================================
