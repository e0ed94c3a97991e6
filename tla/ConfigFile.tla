------------------------------ MODULE ConfigFile -------------------------------
(* config.json through the commands of `ostp`: setup, init and import write a *)
(* new one, generate-key, cert, sub and panel edit it, migrate brings an old  *)
(* one to the current schema, and a start reads it (ostp/src/main.rs,         *)
(* ostp-client/src/migrate.rs, config.rs).  A write truncates first, and the  *)
(* process can be killed at any step.                                         *)
EXTENDS Naturals, SequencesExt

CONSTANTS
  OldFiles,      \* what may be there at first
  NewKeys,       \* keys that generate-key and setup draw
  MaxCommands    \* bound: commands run

CurrentVersion == 2

VARIABLES
  file,          \* config.json
  backup,        \* config.json.bak
  fallback,      \* ./config.json, when the wizard cannot write where it should
  unit,          \* what the registered service reads: "none", "config" or "fallback"
  command,       \* the command under way: [at, out, to, safe, unit]
  noted,         \* history: keys a migration said it drops
  known,         \* history: keys that were in the file
  replaced,      \* history: keys that setup, init or import replaced with the whole file
  unsafe,        \* history: a file is truncated that no backup was made of
  accepted,      \* history: the program accepted the file before the last edit
  commands

configFiles == <<file, backup, fallback, unit, command, noted, known, replaced, unsafe, accepted, commands>>

(* tagged: has "mode".  stamp: config_version, 0 if there is none.  old: has  *)
(* settings of removed features.  servers: the ostp outbounds of 0.3.x, and   *)
(* default what its routing names, group the first member of each group.      *)
File(mode, keys) ==
  [is |-> "file", mode |-> mode, tagged |-> TRUE, stamp |-> CurrentVersion, keys |-> keys,
   modular |-> FALSE, servers |-> <<>>, default |-> "none", group |-> "none",
   old |-> FALSE, nulls |-> FALSE, tls |-> FALSE, sub |-> FALSE]
Absent == [File("none", {}) EXCEPT !.is = "absent"]
Torn == [File("none", {}) EXCEPT !.is = "torn"]

KeysIn(f) == f.keys \cup ToSet(f.servers)
Fields == DOMAIN Absent

(* The file of a client of 0.3.x has its keys with its servers.               *)
Valid ==
  \A f \in OldFiles :
    /\ f = [x \in Fields |-> f[x]] /\ f.is = "file" /\ f.mode \in {"server", "client", "relay"}
    /\ f.stamp \in Nat /\ f.tagged \in BOOLEAN /\ f.modular \in BOOLEAN
    /\ f.modular => f.mode = "client" /\ f.stamp = 0 /\ f.keys = {}

Done == [at |-> "done", out |-> Absent, to |-> "config", safe |-> TRUE, unit |-> FALSE]

Init ==
  /\ file \in OldFiles \cup {Absent} /\ backup = Absent /\ fallback = Absent /\ unit = "none"
  /\ command = Done /\ noted = {} /\ known = KeysIn(file) /\ replaced = {}
  /\ unsafe = FALSE /\ accepted = FALSE /\ commands = 0

--------------------------------------------------------------------------------
(* What a start, `ostp check` and `ostp links` take.                          *)

Validate(f) ==
  CASE f.mode = "server" -> f.keys # {} /\ (f.sub => f.tls)
    [] f.mode = "client" -> f.keys # {}
    [] f.mode = "relay" -> TRUE
Accepts(f) == f.is = "file" /\ f.tagged /\ ~f.modular /\ Validate(f)

--------------------------------------------------------------------------------
(* The migration.                                                             *)

Has(f) ==
  CASE f.mode = "relay" -> {"upstream_tcp", "listen"}
    [] f.mode = "server" -> {"access_keys", "listen"}
    [] f.mode = "client" -> IF f.modular THEN {"inbounds", "outbounds"} ELSE {"server", "access_key"}

(* Mutant: what listens is a server.                                          *)
SniffServerFirst(f) ==
  IF f.tagged THEN f.mode
  ELSE IF Has(f) \cap {"access_keys", "listen"} # {} THEN "server"
  ELSE IF "upstream_tcp" \in Has(f) THEN "relay" ELSE "client"
DetectKind(f) ==
  IF f.tagged THEN f.mode
  ELSE IF "upstream_tcp" \in Has(f) THEN "relay"
  ELSE IF Has(f) \cap {"access_keys", "listen"} # {} THEN "server" ELSE "client"

DetectVersion(f) == IF f.stamp # 0 THEN f.stamp ELSE IF f.modular THEN 0 ELSE 1

(* The server to keep: the one the routing names, directly or as the first    *)
(* member of a group, or else the first.                                      *)
Primary(f) ==
  LET wanted == IF f.default = "group" THEN f.group ELSE f.default
  IN IF f.servers = <<>> THEN {}
     ELSE IF wanted \in ToSet(f.servers) THEN {wanted} ELSE {f.servers[1]}

ModularToFlat(f) ==
  [f EXCEPT !.modular = FALSE, !.servers = <<>>, !.default = "none", !.group = "none",
            !.keys = Primary(f), !.nulls = FALSE]
(* Mutant: the other servers go without a word.                               *)
NothingDropped(f) == {}
Dropped(f) == IF f.modular THEN ToSet(f.servers) \ Primary(f) ELSE {}

DropRemoved(f) == [f EXCEPT !.old = FALSE]
RelayDropAuth(f) == [f EXCEPT !.old = FALSE]

Step(f, kind, from) ==
  CASE kind = "client" /\ from = 0 -> ModularToFlat(f)
    [] kind = "client" /\ from = 1 -> DropRemoved(f)
    [] kind = "relay" /\ from = 1 -> RelayDropAuth(f)
    [] OTHER -> f

(* The steps of a version that the file is past are left out.                 *)
From(version, f, g) == IF DetectVersion(f) <= version THEN Step(g, DetectKind(f), version) ELSE g

StripNulls(f) == [f EXCEPT !.nulls = FALSE]

Migrated(f) ==
  LET out == From(1, f, From(0, f, f))
  IN StripNulls([out EXCEPT !.mode = DetectKind(f), !.tagged = TRUE, !.stamp = CurrentVersion])

UpToDate(f) == Migrated(f) = f

--------------------------------------------------------------------------------
(* The commands: what they read, check and are about to write.                *)

Idle == command.at = "done" /\ commands < MaxCommands
Begin(at, out, to, safe, registers) ==
  /\ command' = [at |-> at, out |-> out, to |-> to, safe |-> safe, unit |-> registers]
  /\ commands' = commands + 1
untouched == <<file, backup, fallback, unit, unsafe>>

(* A file that is there is replaced, without a copy.                          *)
Replace(out, to, registers) ==
  /\ Begin("truncate", out, to, FALSE, registers)
  /\ replaced' = IF to = "config" THEN known ELSE replaced
  /\ accepted' = FALSE
  /\ UNCHANGED <<untouched, noted, known>>

(* The wizard: a client has a key only from a link; what it writes for one    *)
(* has settings that a migration from version 1 takes out.  Where it cannot   *)
(* write it takes the current directory.                                      *)
WizardClient(keys) == [File("client", keys) EXCEPT !.old = TRUE]
WizardServer(keys) == File("server", keys)
WizardPanel(keys) == WizardServer(keys)
WizardRelay == File("relay", {})

(* Mutant: the service reads what was asked for.                              *)
UnitAsAsked(to) == "config"
RegisterSystemd(to) == to

Setup(out) ==
  /\ Idle
  /\ \E to \in {"config", "fallback"}, registers \in BOOLEAN : Replace(out, to, registers)

SetupAny ==
  \E k \in NewKeys :
    Setup(WizardClient({})) \/ Setup(WizardClient({k})) \/ Setup(WizardServer({k}))
      \/ Setup(WizardPanel(NewKeys)) \/ Setup(WizardRelay)

InitTemplate(mode, k) ==
  CASE mode = "server" -> File("server", {k})
    [] mode = "relay" -> File("relay", {})
    [] mode = "client" -> [File("client", {k}) EXCEPT !.old = TRUE]
InitFile ==
  /\ Idle
  /\ \E mode \in {"server", "relay", "client"}, k \in NewKeys : Replace(InitTemplate(mode, k), "config", FALSE)

Import ==
  /\ Idle
  /\ \E k \in NewKeys : Replace([File("client", {k}) EXCEPT !.old = TRUE], "config", FALSE)

(* generate-key adds to a server's file, checks nothing and keeps no copy.    *)
GenerateKey ==
  /\ Idle /\ file.is = "file" /\ file.tagged /\ file.mode = "server"
  /\ \E k \in NewKeys : Begin("truncate", [file EXCEPT !.keys = @ \cup {k}], "config", FALSE, FALSE)
  /\ accepted' = Accepts(file)
  /\ UNCHANGED <<untouched, noted, known, replaced>>

(* cert, sub and panel: the whole is validated before anything is written.    *)
(* Mutant: it is not.                                                         *)
EditUnchecked(out) == out.tagged /\ ~out.modular
EditAccepted(out) == Accepts(out)
Edit(out, copied) ==
  /\ Idle /\ file.is = "file" /\ file.tagged /\ file.mode = "server" /\ EditAccepted(out)
  /\ Begin(IF copied THEN "copy" ELSE "truncate", out, "config", copied, FALSE)
  /\ accepted' = Accepts(file)
  /\ UNCHANGED <<untouched, noted, known, replaced>>

(* cert goes on when the copy cannot be made.                                 *)
CertIssue == \E copied \in BOOLEAN : Edit([file EXCEPT !.tls = TRUE], copied)
SubSwitch == \E on \in BOOLEAN : Edit([file EXCEPT !.sub = on], TRUE)

(* Mutant: it is copied when it is written.                                   *)
MigrateInPlace == "truncate"
MigrateFirst == "copy"
Migrate ==
  /\ Idle /\ file.is = "file"
  /\ DetectVersion(file) <= CurrentVersion /\ ~UpToDate(file)
  /\ Begin(MigrateFirst, Migrated(file), "config", TRUE, FALSE)
  /\ noted' = noted \cup Dropped(file)
  /\ accepted' = Accepts(file)
  /\ UNCHANGED <<untouched, known, replaced>>

--------------------------------------------------------------------------------
(* The steps of a write.                                                      *)

at(where) == command.at = where
Goto(where) == command' = [command EXCEPT !.at = where]
histories == <<noted, known, replaced, unsafe, accepted, commands>>

Copy ==
  /\ at("copy")
  /\ backup' = Torn /\ Goto("copied")
  /\ UNCHANGED <<file, fallback, unit, histories>>

Copied ==
  /\ at("copied")
  /\ backup' = file /\ Goto("truncate")
  /\ UNCHANGED <<file, fallback, unit, histories>>

Truncate ==
  /\ at("truncate")
  /\ IF command.to = "config" THEN file' = Torn /\ UNCHANGED fallback
     ELSE fallback' = Torn /\ UNCHANGED file
  /\ unsafe' = (unsafe \/ (command.to = "config" /\ ~command.safe /\ file.is = "file"))
  /\ Goto("fill")
  /\ UNCHANGED <<backup, unit, noted, known, replaced, accepted, commands>>

Fill ==
  /\ at("fill")
  /\ IF command.to = "config" THEN file' = command.out /\ UNCHANGED fallback
     ELSE fallback' = command.out /\ UNCHANGED file
  /\ unit' = IF command.unit THEN RegisterSystemd(command.to) ELSE unit
  /\ known' = IF command.to = "config" THEN known \cup command.out.keys ELSE known
  /\ unsafe' = (unsafe /\ command.to # "config")
  /\ command' = Done
  /\ UNCHANGED <<backup, noted, replaced, accepted, commands>>

(* A write is refused before it truncates, or the process is killed.          *)
Fails ==
  /\ command.at # "done"
  /\ command' = Done
  /\ UNCHANGED <<file, backup, fallback, unit, histories>>

(* The administrator takes the copy.                                          *)
Restore ==
  /\ Idle /\ file = Torn /\ backup.is = "file"
  /\ file' = backup /\ commands' = commands + 1
  /\ replaced' = IF unsafe THEN known ELSE replaced
  /\ accepted' = FALSE
  /\ UNCHANGED <<backup, fallback, unit, command, noted, known, unsafe>>

Next ==
  \/ SetupAny \/ InitFile \/ Import \/ GenerateKey \/ CertIssue \/ SubSwitch \/ Migrate
  \/ Copy \/ Copied \/ Truncate \/ Fill \/ Fails \/ Restore

Spec == Init /\ [][Next]_configFiles

--------------------------------------------------------------------------------
TypeOK ==
  /\ {file.is, backup.is, fallback.is} \subseteq {"file", "absent", "torn"}
  /\ unit \in {"none", "config", "fallback"}
  /\ command.at \in {"done", "copy", "copied", "truncate", "fill"}

(* Migrating what was migrated changes nothing, a file is taken for what it   *)
(* is, and one that the program accepts is accepted afterwards.               *)
MigrationSettles ==
  file.is = "file" /\ DetectVersion(file) <= CurrentVersion =>
    /\ UpToDate(Migrated(file))
    /\ DetectKind(file) = file.mode
    /\ Accepts(file) => Accepts(Migrated(file))

(* A command that edits a file the program accepts leaves one it accepts;     *)
(* only what setup, init and import replace can be another.                   *)
EditsKeepItRunning ==
  accepted /\ command.at = "done" /\ file.is = "file" => Accepts(file)

(* An access key or a server is in the file, or a migration said that it      *)
(* goes, or the file was replaced as a whole; while a command that keeps a    *)
(* copy is not through, or was killed, it is in the copy at least.            *)
(* (generate-key, setup, init and import keep none.)                          *)
NoKeyLost ==
  LET gone == noted \cup replaced
  IN /\ ~unsafe => known \subseteq KeysIn(file) \cup KeysIn(backup) \cup gone
     /\ file.is = "file" => known \subseteq KeysIn(file) \cup gone

(* The service that setup registers reads a file that setup wrote.            *)
UnitHasItsFile ==
  unit = "fallback" => fallback.is # "absent"
UnitReads ==
  unit = "config" => file.is # "absent"

ConfigSound == MigrationSettles /\ EditsKeepItRunning /\ NoKeyLost /\ UnitHasItsFile /\ UnitReads
================================================================================
