-------------------------------- MODULE Traffic ---------------------------------
(* The traffic counters over restarts: .ostp_stats.json, written by the       *)
(* server loop every STATS_INTERVAL and on a clean stop, and read back on     *)
(* start (ostp-server/src/lib.rs).  The periodic write runs on a thread of    *)
(* its own, which the stop does not wait for before it writes; both go        *)
(* through one temporary file.  Files are inodes: a writer that has one open  *)
(* writes to it under whatever name it has by then.                           *)
EXTENDS Naturals

CONSTANTS
  Users,
  MaxBytes      \* bound: what is counted per user

VARIABLES
  process,      \* "up", "stopping" or "down"
  keys,         \* the users of the config
  user_stats,   \* counted so far, by user: DOMAIN is who has an entry
  inodes,       \* content by inode
  file, tmp,    \* inodes of the stats file and of the temporary one, 0 if there is none
  writers,      \* periodic and final: [at, body, inode]
  promised,     \* history: what a restart must not go back behind
  spoiled       \* history: a stop met a periodic write, or its own write failed

traffic == <<process, keys, user_stats, inodes, file, tmp, writers, promised, spoiled>>

Nobody == [u \in {} |-> 0]
Counted(counters, u) == IF u \in DOMAIN counters THEN counters[u] ELSE 0
Half == [whole |-> FALSE, counters |-> Nobody]
Idle == [at |-> "idle", body |-> Nobody, inode |-> 0]
Writers == {"periodic", "final"}
Inodes == 1..4    \* the two names and two open files

Init ==
  /\ process = "up" /\ keys = Users /\ user_stats = [u \in Users |-> 0]
  /\ inodes = [i \in Inodes |-> Half] /\ file = 0 /\ tmp = 0
  /\ writers = [w \in Writers |-> Idle]
  /\ promised = [u \in Users |-> 0] /\ spoiled = FALSE

files == <<inodes, file, tmp>>
history == <<promised, spoiled>>

--------------------------------------------------------------------------------
(* The server.                                                                *)

Count(u) ==
  /\ process = "up" /\ u \in keys
  /\ user_stats[u] < MaxBytes
  /\ user_stats' = [user_stats EXCEPT ![u] = @ + 1]
  /\ UNCHANGED <<process, keys, files, writers, history>>

(* A user leaves the config, and its entry goes with it.                      *)
Remove(u) ==
  /\ process = "up" /\ u \in keys
  /\ keys' = keys \ {u}
  /\ user_stats' = [v \in DOMAIN user_stats \ {u} |-> user_stats[v]]
  /\ promised' = [promised EXCEPT ![u] = 0]
  /\ UNCHANGED <<process, files, writers, spoiled>>

Begin(w) == writers' = [writers EXCEPT ![w] = [at |-> "open", body |-> user_stats, inode |-> 0]]

StatsTick ==
  /\ process = "up" /\ writers["periodic"].at = "idle"
  /\ Begin("periodic")
  /\ UNCHANGED <<process, keys, user_stats, files, history>>

(* A signal or the Shutdown command: the loop is over, what was counted is    *)
(* written once more.                                                         *)
(* Mutant: it is not.                                                         *)
NoFinalWrite == UNCHANGED writers
FinalWrite == Begin("final")

Stop ==
  /\ process = "up" /\ process' = "stopping"
  /\ FinalWrite
  /\ spoiled' = (spoiled \/ writers["periodic"].at # "idle")
  /\ UNCHANGED <<keys, user_stats, files, promised>>

(* The process goes when no blocking write is left.                           *)
Exit ==
  /\ process = "stopping" /\ \A w \in Writers : writers[w].at = "idle"
  /\ process' = "down"
  /\ promised' = [u \in Users |-> Counted(user_stats, u)]
  /\ user_stats' = Nobody
  /\ UNCHANGED <<keys, files, writers, spoiled>>

Crash ==
  /\ process # "down" /\ process' = "down"
  /\ writers' = [w \in Writers |-> Idle] /\ user_stats' = Nobody
  /\ UNCHANGED <<keys, files, history>>

(* The users of the config get back what the file says; a file that cannot be *)
(* read leaves everyone at zero.                                              *)
Saved == IF file = 0 \/ ~inodes[file].whole THEN Nobody ELSE inodes[file].counters
(* Mutant: whoever is in the file is back.                                    *)
RestoredAll(users) == [u \in users \cup DOMAIN Saved |-> Counted(Saved, u)]
Restored(users) == [u \in users |-> Counted(Saved, u)]

Start ==
  /\ process = "down" /\ process' = "up"
  /\ \E users \in SUBSET Users :
       /\ keys' = users
       /\ user_stats' = Restored(users)
       /\ promised' = [u \in Users |-> IF u \notin users THEN 0
                                       ELSE IF spoiled THEN Counted(Saved, u) ELSE promised[u]]
  /\ UNCHANGED <<files, writers, spoiled>>

--------------------------------------------------------------------------------
(* write_stats_file: truncate, write, rename.                                 *)

Other(w) == IF w = "final" THEN "periodic" ELSE "final"
Body(w) == [whole |-> TRUE, counters |-> writers[w].body]
Done(w) == writers' = [writers EXCEPT ![w] = Idle]

Free == CHOOSE i \in Inodes : i \notin {file, tmp} \cup {writers[w].inode : w \in Writers}

Open(w) ==
  /\ writers[w].at = "open"
  /\ tmp' = IF tmp = 0 THEN Free ELSE tmp
  /\ inodes' = [inodes EXCEPT ![tmp'] = Half]
  /\ writers' = [writers EXCEPT ![w].at = "write", ![w].inode = tmp']
  /\ UNCHANGED <<process, keys, user_stats, file, history>>

(* Two writers of one file may leave a mixture.                               *)
Write(w) ==
  /\ writers[w].at = "write"
  /\ \E content \in {Body(w)} \cup (IF writers[Other(w)].inode = writers[w].inode THEN {Half} ELSE {}) :
       inodes' = [inodes EXCEPT ![writers[w].inode] = content]
  /\ writers' = [writers EXCEPT ![w].at = "rename"]
  /\ UNCHANGED <<process, keys, user_stats, file, tmp, history>>

(* The disk is full: the half stays, and is not renamed.                      *)
(* Mutant: the result of the write is not looked at.                          *)
GoesOn(w) == writers' = [writers EXCEPT ![w].at = "rename"]
GivesUp(w) == Done(w)

WriteFails(w) ==
  /\ writers[w].at = "write"
  /\ GivesUp(w)
  /\ spoiled' = (spoiled \/ w = "final")
  /\ UNCHANGED <<process, keys, user_stats, files, promised>>

(* Whatever has the name by now.                                              *)
Rename(w) ==
  /\ writers[w].at = "rename"
  /\ Done(w)
  /\ \/ tmp = 0 /\ UNCHANGED <<file, tmp, promised>>
     \/ /\ tmp # 0 /\ file' = tmp /\ tmp' = 0
        /\ promised' = [u \in Users |-> IF u \in DOMAIN writers[w].body \cap DOMAIN user_stats
                                        THEN writers[w].body[u] ELSE promised[u]]
  /\ spoiled' = (spoiled /\ (tmp = 0 \/ process # "up"))
  /\ UNCHANGED <<process, keys, user_stats, inodes>>

Next ==
  \/ \E u \in Users : Count(u) \/ Remove(u)
  \/ StatsTick \/ Stop \/ Exit \/ Crash \/ Start
  \/ \E w \in Writers : Open(w) \/ Write(w) \/ WriteFails(w) \/ Rename(w)

Spec == Init /\ [][Next]_traffic

--------------------------------------------------------------------------------
TypeOK ==
  /\ process \in {"up", "stopping", "down"}
  /\ keys \subseteq Users /\ DOMAIN user_stats \subseteq Users
  /\ file \in {0} \cup Inodes /\ tmp \in {0} \cup Inodes
  /\ \A w \in Writers : writers[w].at \in {"idle", "open", "write", "rename"}

(* A reader of the stats file never sees half of it, and what a completed     *)
(* write or a clean stop has kept of a user is there for the next start,      *)
(* whatever crashes in between.  (Not when the write of a stop fails, or      *)
(* meets a periodic one: both use one temporary file, and the older counters  *)
(* may come last.)                                                            *)
FileSound ==
  ~spoiled =>
    /\ file # 0 => inodes[file].whole
    /\ \A u \in Users : promised[u] <= Counted(Saved, u)

(* No start takes traffic, and with it a limit that was reached, away from a  *)
(* user, and none brings back one that is not in the config.                  *)
NoFreshStart ==
  process # "down" =>
    /\ ~spoiled => \A u \in keys : promised[u] <= Counted(user_stats, u)
    /\ DOMAIN user_stats \subseteq keys

TrafficSound == FileSound /\ NoFreshStart
================================================================================
