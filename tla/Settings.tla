------------------------------- MODULE Settings --------------------------------
(* config.json of a server and what the running server holds of it.  The      *)
(* management API's handlers (api.rs), the commands `ostp manage`, `panel`,   *)
(* `sub` and `dns`, and the reloader of lib.rs share the file with no lock:   *)
(* each edit reads all of it, changes its part, truncates the file and writes *)
(* all of it back.  The API's handlers change the server's memory first.  The *)
(* reloader looks at the modification time every 5 s.                         *)
(* A user is "absent", "free" or "limited"; a section holds the name of the   *)
(* edit that last wrote it.  Every write is taken to change the modification  *)
(* time.                                                                      *)
EXTENDS Naturals, FiniteSets

CONSTANTS
  Users,  \* access keys
  Plans   \* sets of edits, each of which may be asked for once

Metas == {"absent", "free", "limited"}
Sections == {"api", "dns", "rules"}

(* Who writes what, and how: the handlers that change users, the one that     *)
(* replaces the whole file, and the commands.                                 *)
ApiUser == {"create", "bulk", "update", "delete"}
Command == {"add", "remove", "rename", "panel"}

(* The constants of real instances.                                           *)
EditRecord == [op : ApiUser \cup Command \cup {"dns", "rules", "config"}, user : Users, meta : Metas]
Valid == \A p \in Plans : p \subseteq EditRecord

VARIABLES
  plan,         \* the edits of this behaviour
  access_keys,  \* the server's users
  user_stats,   \* the limit in a user's traffic entry, or "absent"
  dns_memory,   \* the settings the DNS resolver runs with
  file,         \* [state, keys, api, dns, rules, comments]
  mtime,        \* modification time of the file
  last_mtime,   \* the reloader's
  reload,       \* "wait", "read" or "apply"
  content,      \* what the reloader has read
  running,      \* the server came up
  phase,        \* how far an edit is
  held,         \* the whole file an edit is about to write
  crossed       \* history: edits that met another one between read and write

memoryVars == <<access_keys, user_stats, dns_memory, running>>
reloadVars == <<last_mtime, reload, content>>
fileVars == <<file, mtime>>
editVars == <<phase, held, crossed>>
settingsVars == <<plan, memoryVars, reloadVars, fileVars, editVars>>

Blank == [state |-> "whole", keys |-> [u \in Users |-> "absent"], api |-> "first", dns |-> "first",
          rules |-> "first", comments |-> FALSE]

Init ==
  /\ plan \in Plans
  /\ file \in {[Blank EXCEPT !.keys = [u \in Users |-> "free"], !.comments = c] : c \in BOOLEAN}
  /\ access_keys = file.keys /\ user_stats = file.keys /\ dns_memory = file.dns
  /\ mtime = 1 /\ last_mtime = 0 /\ reload = "wait" /\ content = Blank /\ running = TRUE
  /\ phase = [e \in plan |-> "new"] /\ held = [e \in plan |-> Blank] /\ crossed = {}

--------------------------------------------------------------------------------
(* Helpers                                                                    *)

Moved(e, p) == phase' = [phase EXCEPT ![e] = p]

(* Edits that have read the file and not yet written it back.                 *)
Open == {e \in plan : phase[e] \in {"put", "truncate", "fill", "refill"}}

(* Handlers that hold the lock on the users while they write.                 *)
Saving == {e \in plan : e.op \in ApiUser /\ phase[e] \in {"fill", "refill"}}

(* Another edit has read the file and not written it: the later wins.         *)
Crossing(e) == IF Open = {} THEN crossed ELSE crossed \cup Open \cup {e}

AtRest == \A e \in plan : phase[e] \in {"new", "done", "failed"}

--------------------------------------------------------------------------------
(* The management API                                                         *)

(* The map of users, under its lock; an unknown user is refused, but a new    *)
(* one may have the name of an old one.                                       *)
ApplyKeys(e) ==
  /\ phase[e] = "new" /\ e.op \in ApiUser /\ running /\ Saving = {}
  /\ IF e.op \in {"update", "delete"} /\ access_keys[e.user] = "absent"
     THEN Moved(e, "failed") /\ UNCHANGED memoryVars
     ELSE /\ access_keys' = [access_keys EXCEPT ![e.user] = e.meta]
          /\ Moved(e, IF e.op = "bulk" THEN "save" ELSE "stats")
          /\ UNCHANGED <<user_stats, dns_memory, running>>
  /\ UNCHANGED <<plan, reloadVars, fileVars, held, crossed>>

(* The map of traffic entries, under a lock of its own.                       *)
ApplyStats(e) ==
  /\ phase[e] = "stats" /\ user_stats' = [user_stats EXCEPT ![e.user] = e.meta]
  /\ Moved(e, "save")
  /\ UNCHANGED <<plan, access_keys, dns_memory, running, reloadVars, fileVars, held, crossed>>

(* handle_dns_put_settings: the resolver takes the settings at once.          *)
ApplyDns(e) ==
  /\ phase[e] = "new" /\ e.op = "dns" /\ running
  /\ dns_memory' = e.op /\ Moved(e, "save")
  /\ UNCHANGED <<plan, access_keys, user_stats, running, reloadVars, fileVars, held, crossed>>

(* handle_put_rules: the router takes the rules at once.                      *)
ApplyRules(e) ==
  /\ phase[e] = "new" /\ e.op = "rules" /\ running /\ Moved(e, "save")
  /\ UNCHANGED <<plan, memoryVars, reloadVars, fileVars, held, crossed>>

(* What a handler makes of the file it read, and whether it could: the users  *)
(* replace a list inside an object, the DNS settings enter whatever there is, *)
(* and the rules are put into a text parsed with its comments left in, null   *)
(* when that fails.                                                           *)
Readable(e) ==
  CASE e.op \in ApiUser -> file.state = "whole"
    [] e.op = "dns" -> file.state # "torn"
    [] e.op = "rules" -> TRUE

(* Mutant: comments are left in for every edit.                               *)
EditedUnstripped(e) ==
  IF file.comments THEN [Blank EXCEPT !.state = "null"] ELSE [file EXCEPT !.comments = FALSE]

Edited(e) ==
  IF e.op # "rules" THEN [file EXCEPT !.comments = FALSE]
  ELSE IF file.state = "whole" /\ ~file.comments THEN [file EXCEPT !.rules = "rules"]
       ELSE [Blank EXCEPT !.state = "null"]

(* A bulk creation ignores that it could not be saved.                        *)
ReadFile(e) ==
  /\ phase[e] = "save"
  /\ IF Readable(e)
     THEN /\ held' = [held EXCEPT ![e] = Edited(e)]
          /\ crossed' = Crossing(e) /\ Moved(e, "truncate")
     ELSE Moved(e, "failed") /\ UNCHANGED <<held, crossed>>
  /\ UNCHANGED <<plan, memoryVars, reloadVars, fileVars>>

(* handle_get_config and, when the browser sends it back, handle_put_config:  *)
(* the body is the whole file as it was read, which must have a "mode".       *)
GetConfig(e) ==
  /\ phase[e] = "new" /\ e.op = "config" /\ file.state = "whole" /\ running
  /\ held' = [held EXCEPT ![e] = [file EXCEPT !.api = e.op, !.comments = FALSE]]
  /\ crossed' = Crossing(e) /\ Moved(e, "put")
  /\ UNCHANGED <<plan, memoryVars, reloadVars, fileVars>>

PutConfig(e) ==
  /\ phase[e] = "put" /\ Moved(e, "truncate")
  /\ UNCHANGED <<plan, memoryVars, reloadVars, fileVars, held, crossed>>

--------------------------------------------------------------------------------
(* The commands                                                               *)

(* How a command changes the file it loaded: the files it may come to.  The   *)
(* last user stays.                                                           *)
UserAdd(u) == {[file EXCEPT !.keys[u] = "free"]}

UserRemove(u) ==
  IF file.keys[u] = "absent" \/ \A v \in Users \ {u} : file.keys[v] = "absent"
  THEN {} ELSE {[file EXCEPT !.keys[u] = "absent"]}

UserRename(u) == IF file.keys[u] = "absent" THEN {} ELSE {file}

PanelSet == {[file EXCEPT !.api = "panel"]}

Changed(e) ==
  CASE e.op = "add" -> UserAdd(e.user) [] e.op = "remove" -> UserRemove(e.user)
    [] e.op = "rename" -> UserRename(e.user) [] e.op = "panel" -> PanelSet

(* load, then questions to the administrator, validation and a backup.        *)
Load(e) ==
  /\ phase[e] = "new" /\ e.op \in Command
  /\ IF file.state = "whole" /\ Changed(e) # {}
     THEN /\ held' \in {[held EXCEPT ![e] = [f EXCEPT !.comments = FALSE]] : f \in Changed(e)}
          /\ crossed' = Crossing(e) /\ Moved(e, "truncate")
     ELSE Moved(e, "failed") /\ UNCHANGED <<held, crossed>>
  /\ UNCHANGED <<plan, memoryVars, reloadVars, fileVars>>

(* restart_service, after an edit of a section: the server starts again from  *)
(* the file.  Its handlers are cut off wherever they are.                     *)
Restart(e) ==
  /\ phase[e] = "restart"
  /\ phase' = [x \in plan |-> IF x = e THEN "done"
                 ELSE IF x.op \notin Command \cup {"config"} /\ phase[x] # "new" THEN
                        IF phase[x] = "done" THEN "done" ELSE "failed"
                 ELSE phase[x]]
  /\ crossed' = crossed \cup {x \in Open : x.op \notin Command}
  /\ running' = (file.state = "whole")
  /\ access_keys' = file.keys /\ user_stats' = file.keys /\ dns_memory' = file.dns
  /\ last_mtime' = 0 /\ reload' = "wait" /\ content' = Blank
  /\ UNCHANGED <<plan, fileVars, held>>

--------------------------------------------------------------------------------
(* Writing: the file is cut to nothing, then written                          *)

(* Mutant: the users as they were in the file.                                *)
WrittenAsRead(e) == held[e]

(* The handlers for users write those of the memory, the one for DNS its      *)
(* settings.                                                                  *)
Written(e) ==
  CASE e.op \in ApiUser -> [held[e] EXCEPT !.keys = access_keys]
    [] e.op = "dns" -> [held[e] EXCEPT !.dns = dns_memory]
    [] OTHER -> held[e]

Truncate(e) ==
  /\ phase[e] = "truncate" /\ Moved(e, "fill")
  /\ held' = [held EXCEPT ![e] = Written(e)]
  /\ file' = [file EXCEPT !.state = "torn"] /\ mtime' = mtime + 1
  /\ UNCHANGED <<plan, memoryVars, reloadVars, crossed>>

(* Two writers that both cut the file write over each other from its start:   *)
(* the longer text shows behind the shorter.                                  *)
Fill(e) ==
  /\ phase[e] \in {"fill", "refill"}
  /\ \E mixed \in IF phase[e] = "refill" THEN BOOLEAN ELSE {FALSE} :
       file' = IF mixed THEN [held[e] EXCEPT !.state = "torn"] ELSE held[e]
  /\ mtime' = mtime + 1
  /\ phase' = [x \in plan |-> IF x = e THEN IF e.op = "panel" THEN "restart" ELSE "done"
                              ELSE IF phase[x] = "fill" THEN "refill" ELSE phase[x]]
  /\ UNCHANGED <<plan, memoryVars, reloadVars, held, crossed>>

--------------------------------------------------------------------------------
(* The reloader                                                               *)

Poll ==
  /\ reload = "wait" /\ running /\ mtime # last_mtime
  /\ last_mtime' = mtime /\ reload' = "read" /\ UNCHANGED content
  /\ UNCHANGED <<plan, memoryVars, fileVars, editVars>>

(* Mutant: whatever the text yields is applied.                               *)
ReadAgainAnyway ==
  /\ reload = "read" /\ reload' = "apply" /\ content' = file
  /\ UNCHANGED <<plan, last_mtime, memoryVars, fileVars, editVars>>

(* A text that is no configuration waits for the next change of the time.     *)
ReadAgain ==
  /\ reload = "read"
  /\ IF file.state = "whole" THEN reload' = "apply" /\ content' = file
     ELSE reload' = "wait" /\ UNCHANGED content
  /\ UNCHANGED <<plan, last_mtime, memoryVars, fileVars, editVars>>

(* Users and traffic entries, the second lock taken under the first.          *)
Synchronized == user_stats' = content.keys

(* Mutant: the time is taken once the text was applied.                       *)
ApplyLate ==
  /\ reload = "apply" /\ Saving = {}
  /\ access_keys' = content.keys /\ user_stats' = content.keys
  /\ reload' = "wait" /\ last_mtime' = mtime /\ UNCHANGED content
  /\ UNCHANGED <<plan, dns_memory, running, fileVars, editVars>>

Apply ==
  /\ reload = "apply" /\ Saving = {}
  /\ access_keys' = content.keys /\ Synchronized
  /\ reload' = "wait" /\ UNCHANGED <<last_mtime, content>>
  /\ UNCHANGED <<plan, dns_memory, running, fileVars, editVars>>

--------------------------------------------------------------------------------
Next ==
  \/ \E e \in plan :
       \/ ApplyKeys(e) \/ ApplyStats(e) \/ ApplyDns(e) \/ ApplyRules(e) \/ ReadFile(e)
       \/ GetConfig(e) \/ PutConfig(e) \/ Load(e) \/ Truncate(e) \/ Fill(e) \/ Restart(e)
  \/ Poll \/ ReadAgain \/ Apply

(* The reloader's timer runs on; nobody has to edit anything.                 *)
Fairness == WF_settingsVars(Poll) /\ WF_settingsVars(ReadAgain) /\ WF_settingsVars(Apply)

Spec == Init /\ [][Next]_settingsVars /\ Fairness

--------------------------------------------------------------------------------
(* The variables have their types; what the reloader applies was a whole      *)
(* configuration when it read it.                                             *)
TypeOK ==
  /\ content.state = "whole"
  /\ access_keys \in [Users -> Metas] /\ user_stats \in [Users -> Metas]
  /\ file.state \in {"whole", "torn", "null"} /\ file.keys \in [Users -> Metas]
  /\ last_mtime <= mtime /\ crossed \subseteq plan /\ DOMAIN phase = plan

(* Once nobody edits any more and the file can be read, the users of the      *)
(* running server and their limits become those of the file, whatever edits   *)
(* crossed each other, failed half way, or wrote while the reloader read.     *)
Agree == access_keys = file.keys /\ user_stats = file.keys
Settles == [](([]AtRest /\ file.state = "whole" /\ running) => <>Agree)

(* An edit that met no other between its read and its write stays in the      *)
(* file: no later edit of something else puts back what it had before.  The   *)
(* edit of a panel setting, of DNS and of the rules each own a section.       *)
OwnSection(e) == CASE e.op \in {"panel", "config"} -> file.api [] e.op = "dns" -> file.dns
                   [] e.op = "rules" -> file.rules [] OTHER -> e.op
CompletedEditsStay ==
  \A e \in plan \ crossed :
    phase[e] = "done" /\ file.state = "whole" /\ {x \in plan \ {e} : {x.op, e.op} \subseteq {"panel", "config"}} = {}
      => OwnSection(e) = e.op

(* The configuration is readable when nobody writes it, unless edits crossed: *)
(* claimed by every reader of the file, which accepts comments ("a commented  *)
(* config", docs/README.md), for the edit of the routing rules too.           *)
ConfigSurvives == AtRest /\ crossed = {} => file.state = "whole"

(* The same where no rules are edited: a file that only half of an edit       *)
(* reached is never taken for a configuration and written back.               *)
NothingMadeUp ==
  AtRest /\ file.state # "whole" => crossed # {} \/ \E e \in plan : e.op = "rules" /\ phase[e] = "done"

(* The file keeps every edit that met no other, and half of it is not used.   *)
EditsKept == CompletedEditsStay /\ NothingMadeUp
================================================================================
