----------------------------- MODULE Certificates ------------------------------
(* The certificate of a server with tls.cert "acme": the service's renewal    *)
(* task and the command `ostp cert` issue it, one at a time by a lock file,   *)
(* answering challenges through a directory they share; the pair of files is  *)
(* written one after the other, and the running service picks it up from a    *)
(* watcher's task or right after its own renewal (tls/mod.rs, tls/acme.rs,    *)
(* cert_cmd.rs).                                                              *)
(* A file is 0 when absent, 1 for a placeholder, else the number of the       *)
(* issuance it came from; the number stands for its modification time too.    *)
EXTENDS Naturals, FiniteSets

CONSTANT MaxIssued  \* bound: the number of the last issuance

(* The constant of a real instance: a placeholder counts as the first.         *)
Valid == MaxIssued \in Nat \ {0}

Issuers == {"service", "cli"}
Reloaders == {"watch", "renewal"}

VARIABLES
  cert_file, key_file,
  issued,        \* history: number of the last issuance
  due,           \* a third of the lifetime, or less, is left
  lock_file,     \* "none", or who made it
  stale,         \* the lock file is older than STALE_LOCK
  broke,         \* history: a lock was taken for stale
  at,            \* issuer -> how far it is
  tries,         \* issuer -> attempts at the lock
  challenges,    \* issuers whose token is in <config_dir>/acme/challenges
  answers,       \* issuers whose token is in the memory of the service's store
  resolver,      \* the service's: "off" when TLS is disabled
  current,       \* the pair served: [cert, key]
  loaded,        \* modification times of the pair last loaded
  reloading,     \* reloader -> [at, seen, cert, key]
  overlapped     \* history: two reloads ran at once

diskVars == <<cert_file, key_file, issued, due>>
lockVars == <<lock_file, stale, broke, tries>>
storeVars == <<challenges, answers>>
servedVars == <<resolver, current, loaded>>
reloadVars == <<reloading, overlapped>>
certVars == <<diskVars, lockVars, at, storeVars, servedVars, reloadVars>>

Disk == [cert |-> cert_file, key |-> key_file]
Idle == [at |-> "idle", seen |-> [cert |-> 0, key |-> 0], cert |-> 0, key |-> 0]
NoPair == [cert |-> 0, key |-> 0]

Init ==
  /\ cert_file = 0 /\ key_file = 0 /\ issued = 1 /\ due = TRUE
  /\ lock_file = "none" /\ stale = FALSE /\ broke = FALSE /\ tries = [i \in Issuers |-> 0]
  /\ at = [service |-> "down", cli |-> "idle"]
  /\ challenges = {} /\ answers = {}
  /\ resolver = "off" /\ current = NoPair /\ loaded = NoPair
  /\ reloading = [r \in Reloaders |-> Idle] /\ overlapped = FALSE

--------------------------------------------------------------------------------
(* The lock: create_new, or remove it when it is old and try once more        *)

Goes(i, p) == at' = [at EXCEPT ![i] = p]

(* Holding the lock.                                                          *)
Issuing == {i \in Issuers : at[i] \in {"preflight", "order", "writekey", "writecert", "unlock"}}

Asks(i) ==
  /\ at[i] = "idle" /\ issued < MaxIssued
  /\ Goes(i, "lock") /\ tries' = [tries EXCEPT ![i] = 0]
  /\ UNCHANGED <<diskVars, lock_file, stale, broke, storeVars, servedVars, reloadVars>>

(* The renewal task, when a third of the lifetime is left.                    *)
RenewalTask == due /\ Asks("service")

(* `cert renew` then, `cert issue` and --force at any time.                   *)
Renew == Asks("cli")

(* Mutant: the file is written whether it was there or not.                   *)
CreateAnyway(i) == /\ lock_file' = i /\ stale' = FALSE /\ Goes(i, "preflight")
                   /\ UNCHANGED <<broke, tries>>

CreateNew(i) ==
  \/ /\ lock_file = "none" /\ lock_file' = i /\ stale' = FALSE
     /\ Goes(i, "preflight") /\ UNCHANGED <<broke, tries>>
  \/ /\ lock_file # "none"
     /\ Goes(i, IF stale THEN "remove" ELSE "idle") /\ UNCHANGED <<lock_file, stale, broke, tries>>

TakeLock(i) == at[i] = "lock" /\ CreateNew(i) /\ UNCHANGED <<diskVars, storeVars, servedVars, reloadVars>>

(* Whatever is there by now is removed.                                       *)
RemoveStale(i) ==
  /\ at[i] = "remove" /\ lock_file' = "none" /\ stale' = FALSE /\ broke' = TRUE
  /\ tries' = [tries EXCEPT ![i] = 1] /\ Goes(i, IF tries[i] = 0 THEN "lock" ELSE "idle")
  /\ UNCHANGED <<diskVars, storeVars, servedVars, reloadVars>>

(* An issuance takes less than STALE_LOCK: a lock grows old when its maker    *)
(* was killed.                                                                *)
GrowsStale ==
  /\ lock_file # "none" /\ Issuing = {} /\ stale = FALSE /\ stale' = TRUE
  /\ UNCHANGED <<diskVars, lock_file, broke, tries, at, storeVars, servedVars, reloadVars>>

--------------------------------------------------------------------------------
(* An issuance                                                                *)

Running == at["service"] # "down"

(* ChallengeStore::get of whoever answers port 80: the running service, or    *)
(* the command, which serves its own store when the port is free.             *)
Answered(i) == i \in challenges \/ i \in answers

(* Mutant: the answer is kept in memory only.                                 *)
PutInMemory(i) == answers' = answers \cup ({i} \cap {"service"}) /\ UNCHANGED challenges

(* ChallengeStore::put: memory and the shared directory.                      *)
Put(i) == answers' = answers \cup ({i} \cap {"service"}) /\ challenges' = challenges \cup {i}

(* preflight puts a token of its own, asks for it and takes it away again;    *)
(* the order then puts the challenge and tells the CA.                        *)
Preflight(i) ==
  /\ at[i] = "preflight"
  /\ \/ Put(i) /\ Goes(i, "order")
     \/ Goes(i, "unlock") /\ UNCHANGED storeVars
  /\ UNCHANGED <<diskVars, lockVars, servedVars, reloadVars>>

(* Mutant: the token is removed when the order succeeded.                     *)
OrderLeaves(i) ==
  /\ at[i] = "order"
  /\ \/ challenges' = challenges \ {i} /\ answers' = answers \ {i} /\ Goes(i, "writekey")
     \/ UNCHANGED storeVars /\ Goes(i, "unlock")
  /\ UNCHANGED <<diskVars, lockVars, servedVars, reloadVars>>

(* Validated, or not; either way the token is removed.                        *)
Order(i) ==
  /\ at[i] = "order"
  /\ challenges' = challenges \ {i} /\ answers' = answers \ {i}
  /\ at' \in {[at EXCEPT ![i] = p] : p \in {"writekey", "unlock"}}
  /\ UNCHANGED <<diskVars, lockVars, servedVars, reloadVars>>

(* write_pem_pair: the key, then the certificate, each renamed into place.    *)
WriteKey(i) ==
  /\ at[i] = "writekey" /\ issued < MaxIssued /\ issued' = issued + 1 /\ key_file' = issued + 1 /\ Goes(i, "writecert")
  /\ UNCHANGED <<cert_file, due, lockVars, storeVars, servedVars, reloadVars>>

WriteCert(i) ==
  /\ at[i] = "writecert" /\ cert_file' = issued /\ due' = FALSE /\ Goes(i, "unlock")
  /\ UNCHANGED <<key_file, issued, lockVars, storeVars, servedVars, reloadVars>>

(* AcmeLock::drop removes the file.  The renewal task then loads the pair,    *)
(* and waits for a backoff when it failed.                                    *)
Unlock(i) ==
  /\ at[i] = "unlock" /\ lock_file' = "none" /\ stale' = FALSE
  /\ IF i = "service" /\ resolver = "on" /\ ~due
     THEN /\ Goes(i, "reload") /\ reloading' = [reloading EXCEPT !["renewal"].at = "stat"]
          /\ overlapped' = (overlapped \/ reloading["watch"].at # "idle")
     ELSE Goes(i, "idle") /\ UNCHANGED reloadVars
  /\ UNCHANGED <<diskVars, broke, tries, storeVars, servedVars>>

NearsExpiry ==
  /\ ~due /\ Issuing = {} /\ due' = TRUE
  /\ UNCHANGED <<cert_file, key_file, issued, lockVars, at, storeVars, servedVars, reloadVars>>

--------------------------------------------------------------------------------
(* HotCertResolver                                                            *)

Reload(r, rec) == reloading' = [reloading EXCEPT ![r] = rec]
Step(r, p) == reloading[r].at = p /\ UNCHANGED <<diskVars, lockVars, storeVars, overlapped>>

(* reload_if_changed, every WATCH_INTERVAL.                                   *)
Watch ==
  /\ reloading["watch"].at = "idle" /\ resolver = "on" /\ loaded # Disk
  /\ Reload("watch", [Idle EXCEPT !.at = "stat"])
  /\ overlapped' = (overlapped \/ reloading["renewal"].at # "idle")
  /\ UNCHANGED <<diskVars, lockVars, storeVars, at, servedVars>>

(* The times are taken before the files are read.                             *)
StatFiles(r) ==
  /\ Step(r, "stat") /\ Reload(r, [reloading[r] EXCEPT !.at = "cert", !.seen = Disk])
  /\ UNCHANGED <<at, servedVars>>

ReadCert(r) ==
  /\ Step(r, "cert") /\ Reload(r, [reloading[r] EXCEPT !.at = "key", !.cert = cert_file])
  /\ UNCHANGED <<at, servedVars>>

Finish(r) == IF r = "renewal" THEN Goes("service", "idle") ELSE UNCHANGED at

(* Mutant: no keys_match.                                                     *)
MatchesAnyway(r) == TRUE

Matches(r) == reloading[r].cert = key_file

(* Mutant: the watcher's task ends at an error.                               *)
WatchEnds(r) == Reload(r, [Idle EXCEPT !.at = "gone"])

NotLoaded(r) == Reload(r, Idle)

(* A pair that does not match leaves the previous one in use.                 *)
ReadKey(r) ==
  /\ Step(r, "key")
  /\ IF Matches(r) THEN Reload(r, [reloading[r] EXCEPT !.at = "swap", !.key = key_file]) /\ UNCHANGED at
     ELSE NotLoaded(r) /\ Finish(r)
  /\ UNCHANGED servedVars

Swap(r) ==
  /\ Step(r, "swap") /\ current' = [cert |-> reloading[r].cert, key |-> reloading[r].key]
  /\ Reload(r, [reloading[r] EXCEPT !.at = "note"])
  /\ UNCHANGED <<at, resolver, loaded>>

Note(r) ==
  /\ Step(r, "note") /\ loaded' = reloading[r].seen /\ Reload(r, Idle) /\ Finish(r)
  /\ UNCHANGED <<resolver, current>>

--------------------------------------------------------------------------------
(* The service's life                                                         *)

(* prepare_tls: a placeholder when a file is missing; a pair that does not    *)
(* load disables TLS for the life of the process.                             *)
Started(c, k) ==
  IF c = k THEN resolver' = "on" /\ current' = [cert |-> c, key |-> k] /\ loaded' = current'
  ELSE resolver' = "off" /\ current' = NoPair /\ loaded' = NoPair

Start ==
  /\ ~Running /\ Goes("service", "idle")
  /\ IF cert_file = 0 \/ key_file = 0
     THEN cert_file' = 1 /\ key_file' = 1 /\ due' = TRUE /\ Started(1, 1)
     ELSE Started(cert_file, key_file) /\ UNCHANGED <<cert_file, key_file, due>>
  /\ UNCHANGED <<issued, lockVars, storeVars, reloadVars>>

ServiceGone ==
  /\ answers' = {} /\ UNCHANGED challenges
  /\ resolver' = "off" /\ current' = NoPair /\ loaded' = NoPair
  /\ reloading' = [r \in Reloaders |-> Idle] /\ overlapped' = FALSE

(* A clean stop drops the task at an await, and the lock with it; a kill      *)
(* leaves the lock behind.                                                    *)
Stop ==
  /\ at["service"] \in {"idle", "preflight", "order"} /\ Goes("service", "down") /\ ServiceGone
  /\ IF at["service"] = "idle" THEN UNCHANGED <<lock_file, stale>>
     ELSE lock_file' = "none" /\ stale' = FALSE
  /\ UNCHANGED <<diskVars, broke, tries>>

Kill(i) ==
  /\ at[i] \notin {"down", "idle"}
  /\ IF i = "service" THEN Goes(i, "down") /\ ServiceGone
     ELSE Goes(i, "idle") /\ UNCHANGED <<storeVars, servedVars, reloadVars>>
  /\ UNCHANGED <<diskVars, lockVars>>

--------------------------------------------------------------------------------
Reloading(r) == StatFiles(r) \/ ReadCert(r) \/ ReadKey(r) \/ Swap(r) \/ Note(r)

Next ==
  \/ \E i \in Issuers :
       \/ TakeLock(i) \/ RemoveStale(i) \/ Preflight(i) \/ Order(i)
       \/ WriteKey(i) \/ WriteCert(i) \/ Unlock(i) \/ Kill(i)
  \/ \E r \in Reloaders : Reloading(r)
  \/ RenewalTask \/ Renew \/ GrowsStale \/ NearsExpiry \/ Watch \/ Start \/ Stop

(* The watcher's timer runs on and a reload that began is finished.           *)
Fairness == WF_certVars(Watch) /\ \A r \in Reloaders : WF_certVars(Reloading(r))

Spec == Init /\ [][Next]_certVars /\ Fairness

--------------------------------------------------------------------------------
(* The variables have their types; a token is in the service's memory during  *)
(* its order only.                                                            *)
TypeOK ==
  /\ answers # {} => at["service"] = "order"
  /\ {cert_file, key_file, issued} \subseteq 0..MaxIssued /\ lock_file \in Issuers \cup {"none"}
  /\ challenges \subseteq Issuers /\ answers \subseteq {"service"} /\ resolver \in {"on", "off"}

(* "One issuance at a time across the CLI and the service", as long as no     *)
(* lock had to be taken for stale.                                            *)
OneIssuance == ~broke => Cardinality(Issuing) <= 1

(* Between the two renames the files do not match: what is served does, and a *)
(* running service goes on with the pair it had.                              *)
ServesAPair == resolver = "on" => current.cert = current.key /\ current.cert # 0

(* A challenge is answered while the CA may ask for it, by a service that was *)
(* restarted meanwhile and for a command that does not own the port.          *)
ChallengeAnswered == \A i \in Issuers : at[i] = "order" => Answered(i)

(* "The running service picks it up within a minute": once the files stay as  *)
(* they are, match, and the service keeps running, they are the pair it       *)
(* serves.  The pair and its times are stored under locks of their own, so    *)
(* this is said of reloads that did not run at once.                          *)
PickedUp ==
  \A n \in 1..MaxIssued :
    [](([](cert_file = n /\ key_file = n /\ resolver = "on" /\ ~overlapped)) => <>(current.cert = n))

(* One renewal at a time, whose challenge is answered, and always a pair that *)
(* belongs together.                                                          *)
CertificatesSound == OneIssuance /\ ChallengeAnswered /\ ServesAPair
================================================================================
