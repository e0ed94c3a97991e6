------------------------------- MODULE WebServer -------------------------------
(* OSTP behind the machine's own web server: `ostp cert issue`, `ostp panel`  *)
(* and `ostp sub` write a site into nginx, apache or caddy, test, reload, or  *)
(* take everything back; a manifest remembers what was added for `ostp        *)
(* uninstall` (ostp/src/webserver.rs, cert_cmd.rs, panel_cmd.rs, sub_cmd.rs). *)
(* Any step can fail, and the command can be killed after any of them.        *)
EXTENDS Sequences, Naturals

CONSTANTS
  Machines,     \* sets of web servers a machine has: of {"nginx", "apache", "caddy"}
  Layouts,      \* a subset of {"sites", "confd"}
  Domains, OldDomain,
  Routes,       \* what the commands switch: {"panel", "sub"}
  MaxCommands   \* bound: commands run

VARIABLES
  installed,    \* the web servers of this machine
  layout,       \* of /etc/nginx and /etc/apache2 or /etc/httpd
  config,       \* config.json: [frontend, domain, routes]
  certs,        \* domains with a certificate file, be it a placeholder
  disk,         \* content by place
  serving,      \* what each web server loaded last: a set of [domain, routes]
  manifest,     \* webserver.json
  job,          \* the command under way: operations left, undo record
  told,         \* history: routes the user was told are not forwarded
  before,       \* history: disk when the command started
  killed,       \* history: a command was killed, or could not write the manifest
  commands

web == <<installed, layout, config, certs, disk, serving, manifest, job, told, before, killed, commands>>

Global == "any"
Places == (Domains \X {"available", "enabled", "oldavailable", "oldenabled", "confd",
                       "apache", "a2", "caddy"}) \cup {<<Global, "import">>}

Absent == [is |-> "absent", routes |-> {}]
Link == [is |-> "link", routes |-> {}]
Foreign == [is |-> "foreign", routes |-> {}]
Half == [is |-> "half", routes |-> {}]
Block == [is |-> "block", routes |-> {}]
Site(routes) == [is |-> "site", routes |-> routes]

NoManifest == [kind |-> "none", files |-> {}, site |-> Global, import |-> FALSE]
NoChanges == [created |-> {}, modified |-> {}, removed |-> {}, owned |-> {}, site |-> Global, import |-> FALSE]
NoJob == [at |-> "idle", ops |-> <<>>, changes |-> NoChanges]

Old(d) == {<<d, "oldavailable">>, <<d, "confd">>}

(* What earlier versions and the administrator may have left: a site without  *)
(* the extension, one in conf.d, a link or a file of that name of another.    *)
Leftovers(d) ==
  LET With(f) == [p \in Places |-> IF p \in DOMAIN f THEN f[p] ELSE Absent]
  IN {With([p \in {} |-> Absent]),
      With([p \in {<<d, "oldavailable">>, <<d, "oldenabled">>} |->
              IF p[2] = "oldenabled" THEN Link ELSE Site({})]),
      With([p \in {<<d, "confd">>} |-> Site({})]),
      With([p \in {<<d, "enabled">>, <<d, "oldavailable">>} |-> Foreign])}

(* What a web server of that kind makes of the files.                         *)
Effective(kind, files) ==
  LET Enabled(d) == CASE kind = "nginx" -> {files[<<d, "confd">>]}
                           \cup (IF files[<<d, "enabled">>] = Link THEN {files[<<d, "available">>]} ELSE {})
                           \cup (IF files[<<d, "oldenabled">>] = Link THEN {files[<<d, "oldavailable">>]} ELSE {})
                      [] kind = "apache" -> IF layout = "confd" \/ files[<<d, "a2">>] = Link
                                            THEN {files[<<d, "apache">>]} ELSE {}
                      [] kind = "caddy" -> IF files[<<Global, "import">>] = Block
                                           THEN {files[<<d, "caddy">>]} ELSE {}
  IN UNION {{[domain |-> d, routes |-> c.routes] : c \in {x \in Enabled(d) : x.is = "site"}} : d \in Domains}

(* A domain is never Global, and the subscription can be switched.            *)
Valid ==
  /\ \A m \in Machines : m \subseteq {"nginx", "apache", "caddy"}
  /\ Layouts \subseteq {"sites", "confd"}
  /\ OldDomain \in Domains /\ Global \notin Domains
  /\ "sub" \in Routes

Init ==
  /\ installed \in Machines /\ layout \in Layouts
  /\ config = [frontend |-> "builtin", domain |-> Global, routes |-> {}]
  /\ certs = {}
  /\ disk \in Leftovers(OldDomain)
  /\ layout = "confd" \/ "nginx" \notin installed => \A p \in Places : disk[p] = Absent
  /\ manifest = [NoManifest EXCEPT !.files = {p \in Places : disk[p] \in {Link, Site({})}},
                                   !.kind = IF \E p \in Places : disk[p] = Site({}) THEN "nginx" ELSE "none"]
  /\ serving = [k \in installed |-> Effective(k, disk)]
  /\ job = NoJob /\ told = {} /\ before = disk /\ killed = FALSE /\ commands = 0

Idle == job.at = "idle" /\ commands < MaxCommands

--------------------------------------------------------------------------------
(* The sites: the secret path and the subscriptions go to OSTP, the panel to  *)
(* the API, and with nginx and apache the challenges to OSTP's responder.     *)

NginxVhost(c) == {"upgrade", "challenge"} \cup c.routes
ApacheVhost(c) == {"upgrade", "challenge"} \cup c.routes
CaddySite(c) == {"upgrade"} \cup c.routes
Text(c) == Site(CASE c.frontend = "nginx" -> NginxVhost(c)
                  [] c.frontend = "apache" -> ApacheVhost(c)
                  [] c.frontend = "caddy" -> CaddySite(c))

Op(what, place) == [what |-> what, place |-> place]

(* Mutant: the files of earlier versions stay.                                *)
NginxInstallBeside(d) ==
  IF layout = "sites" THEN <<Op("site", <<d, "available">>), Op("link", <<d, "enabled">>)>>
  ELSE <<Op("site", <<d, "confd">>)>>
NginxInstall(d) ==
  IF layout = "sites"
  THEN <<Op("site", <<d, "available">>), Op("link", <<d, "enabled">>),
         Op("unlink", <<d, "oldenabled">>), Op("remove", <<d, "oldavailable">>),
         Op("remove", <<d, "confd">>)>>
  ELSE <<Op("site", <<d, "confd">>)>>

ApacheInstall(d) ==
  <<Op("site", <<d, "apache">>)>> \o (IF layout = "sites" THEN <<Op("enable", <<d, "a2">>)>> ELSE <<>>)

CaddyInstall(d) == <<Op("site", <<d, "caddy">>), Op("import", <<Global, "import">>)>>

Install(c) ==
  (CASE c.frontend = "nginx" -> NginxInstall(c.domain)
     [] c.frontend = "apache" -> ApacheInstall(c.domain)
     [] c.frontend = "caddy" -> CaddyInstall(c.domain))
  \o <<Op("test", <<>>), Op("reload", <<>>)>>

--------------------------------------------------------------------------------
(* The commands.  Each validates and saves config.json before it touches the  *)
(* web server.                                                                *)

Save(c) == config' = c /\ commands' = commands + 1 /\ before' = disk
Run(ops) == job' = [at |-> "run", ops |-> ops, changes |-> NoChanges]

(* A site of ours in the manifest mentions the path.                          *)
(* Mutant: there is a site of ours.                                           *)
VhostExists(route) == \E p \in manifest.files : disk[p].is = "site"
VhostForwards(route) ==
  \E p \in manifest.files : disk[p].is = "site" /\ route \in disk[p].routes

(* --frontend, or what is found on the machine.                               *)
ChooseFrontend == installed \cup {"builtin"}

Issue(d, kind) ==
  /\ Idle
  /\ Save([config EXCEPT !.frontend = kind, !.domain = d])
  /\ \/ kind = "builtin" /\ UNCHANGED <<job, certs>>
     \/ /\ kind # "builtin" /\ Run(Install(config'))
        /\ certs' = IF kind = "caddy" THEN certs ELSE certs \cup {d}
  /\ told' = IF kind = "builtin" THEN {} ELSE told
  /\ UNCHANGED <<installed, layout, disk, serving, manifest, killed>>

Toggled(route, on) == [config EXCEPT !.routes = IF on THEN @ \cup {route} ELSE @ \ {route}]
Advised(route, on) ==
  IF on /\ config.frontend # "builtin" /\ ~VhostForwards(route) THEN told \cup {route} ELSE told
(* One command does not turn a path off and rewrite the site.                 *)
OneThing(route, on, vhost) == vhost /\ ~on => route \notin config.routes
settled == <<installed, layout, certs, disk, serving, manifest, killed>>

(* `ostp panel enable`, `disable` and `set`.                                  *)
PanelChange(on, vhost) ==
  /\ Idle /\ "panel" \in Routes /\ OneThing("panel", on, vhost)
  /\ Save(Toggled("panel", on))
  /\ IF vhost /\ on /\ config.frontend # "builtin"
     THEN Run(Install(config')) /\ UNCHANGED told
     ELSE UNCHANGED job /\ told' = Advised("panel", on)
  /\ UNCHANGED settled

(* `ostp sub enable`, `disable` and `set`: a set that leaves the path as it   *)
(* is gives no advice.                                                        *)
SubChange(on, vhost) ==
  /\ Idle /\ OneThing("sub", on, vhost)
  /\ Save(Toggled("sub", on))
  /\ IF vhost /\ config.frontend # "builtin"
     THEN Run(Install(config')) /\ UNCHANGED told
     ELSE /\ UNCHANGED job
          /\ told' \in {Advised("sub", on)} \cup (IF on /\ "sub" \in config.routes THEN {told} ELSE {})
  /\ UNCHANGED settled

--------------------------------------------------------------------------------
(* webserver::install.                                                        *)

Next1 == Head(job.ops)
Runs(what) == job.at = "run" /\ job.ops # <<>> /\ Next1.what = what
Continue(changes) == job' = [job EXCEPT !.ops = Tail(@), !.changes = changes]
Put(place, content) == disk' = [disk EXCEPT ![place] = content]
kept == <<installed, layout, config, certs, manifest, told, before, killed, commands>>

(* Changes::write notes what was there before it writes.                      *)
Noted(place) ==
  IF disk[place] = Absent THEN [job.changes EXCEPT !.created = @ \cup {place}]
  ELSE [job.changes EXCEPT !.modified = @ \cup {<<place, disk[place]>>}]

WriteSite ==
  /\ Runs("site")
  /\ Put(Next1.place, Text(config))
  /\ Continue([Noted(Next1.place) EXCEPT !.owned = @ \cup {Next1.place}])
  /\ UNCHANGED <<kept, serving>>

(* The disk is full: noted, and half of it written.                           *)
WriteBreaks ==
  /\ Runs("site")
  /\ Put(Next1.place, Half)
  /\ job' = [job EXCEPT !.at = "failed", !.changes = Noted(Next1.place)]
  /\ UNCHANGED <<kept, serving>>

(* A link of that name that is not ours is not touched.                       *)
Symlink ==
  /\ Runs("link") /\ disk[Next1.place] # Foreign
  /\ Put(Next1.place, Link)
  /\ Continue([job.changes EXCEPT !.owned = @ \cup {Next1.place},
                                  !.created = IF disk[Next1.place] = Link THEN @ ELSE @ \cup {Next1.place}])
  /\ UNCHANGED <<kept, serving>>

Taken(place) == [job.changes EXCEPT !.removed = @ \cup {<<place, disk[place]>>}]

RemoveLink ==
  /\ Runs("unlink")
  /\ IF disk[Next1.place] = Link
     THEN Put(Next1.place, Absent) /\ Continue(Taken(Next1.place))
     ELSE Continue(job.changes) /\ UNCHANGED disk
  /\ UNCHANGED <<kept, serving>>

(* Only what starts with our header goes.                                     *)
RemoveOld ==
  /\ Runs("remove")
  /\ IF disk[Next1.place].is = "site"
     THEN Put(Next1.place, Absent) /\ Continue(Taken(Next1.place))
     ELSE Continue(job.changes) /\ UNCHANGED disk
  /\ UNCHANGED <<kept, serving>>

A2ensite ==
  /\ Runs("enable")
  /\ Put(Next1.place, Link)
  /\ Continue([job.changes EXCEPT !.site = Next1.place[1]])
  /\ UNCHANGED <<kept, serving>>

Import ==
  /\ Runs("import")
  /\ IF disk[Next1.place] = Block THEN Continue(job.changes)
     ELSE Continue([job.changes EXCEPT !.modified = @ \cup {<<Next1.place, disk[Next1.place]>>}, !.import = TRUE])
  /\ Put(Next1.place, Block)
  /\ UNCHANGED <<kept, serving>>

ConfigTest ==
  /\ Runs("test")
  /\ config.frontend # "caddy" => config.domain \in certs
  /\ Continue(job.changes)
  /\ UNCHANGED <<kept, disk, serving>>

Reload ==
  /\ Runs("reload")
  /\ serving' = [serving EXCEPT ![config.frontend] = Effective(config.frontend, disk)]
  /\ Continue(job.changes)
  /\ UNCHANGED <<kept, disk>>

(* A step is refused: a permission, a test that does not pass, a reload.      *)
StepFails ==
  /\ job.at = "run" /\ job.ops # <<>>
  /\ job' = [job EXCEPT !.at = "failed"]
  /\ UNCHANGED <<kept, disk, serving>>

Undo(place, olds) ==
  LET was == {old \in olds : old[1] = place}
  IN IF was # {} THEN (CHOOSE old \in was : TRUE)[2]
     ELSE IF place \in job.changes.created \/ place = <<job.changes.site, "a2">> THEN Absent
     ELSE disk[place]
(* Mutant: what was removed stays removed.                                    *)
UndoneWrites(place) == Undo(place, job.changes.modified)
Undone(place) == Undo(place, job.changes.modified \cup job.changes.removed)

Rollback ==
  /\ job.at = "failed"
  /\ disk' = [p \in Places |-> Undone(p)]
  /\ \/ serving' = [serving EXCEPT ![config.frontend] = Effective(config.frontend, disk')]
     \/ UNCHANGED serving
  /\ job' = NoJob
  /\ told' = Routes
  /\ UNCHANGED <<installed, layout, config, certs, manifest, before, killed, commands>>

(* Mutant: a re-install lists what it created.                                *)
TrackCreated(ch) == {p \in manifest.files : disk[p] # Absent} \cup ch.created
Tracked(ch) ==
  ({p \in manifest.files : disk[p] # Absent} \cup ch.created \cup ch.owned) \ {old[1] : old \in ch.removed}

(* Mutant: the import block is ours only if this run wrote it.                *)
ImportOfThisRun(ch) == ch.import
ImportTracked(ch) == ch.import \/ manifest.import

Record ==
  /\ job.at = "run" /\ job.ops = <<>>
  /\ manifest' = [kind |-> config.frontend, files |-> Tracked(job.changes),
                  site |-> IF job.changes.site # Global THEN job.changes.site ELSE manifest.site,
                  import |-> ImportTracked(job.changes)]
  /\ job' = NoJob
  /\ told' = {} /\ before' = disk
  /\ UNCHANGED <<installed, layout, config, certs, disk, serving, killed, commands>>

RecordFails ==
  /\ job.at = "run" /\ job.ops = <<>>
  /\ job' = NoJob /\ told' = Routes /\ before' = disk /\ killed' = TRUE
  /\ UNCHANGED <<installed, layout, config, certs, disk, serving, manifest, commands>>

Kill ==
  /\ job.at # "idle"
  /\ job' = NoJob /\ told' = Routes /\ before' = disk /\ killed' = TRUE
  /\ UNCHANGED <<installed, layout, config, certs, disk, serving, manifest, commands>>

(* `ostp uninstall`.                                                          *)
Uninstall ==
  /\ Idle /\ manifest # NoManifest
  /\ disk' = [p \in Places |->
               IF p \in manifest.files \/ p = <<manifest.site, "a2">>
                  \/ (manifest.import /\ p[2] = "import") THEN Absent ELSE disk[p]]
  /\ \/ manifest.kind \in installed
        /\ serving' = [serving EXCEPT ![manifest.kind] = Effective(manifest.kind, disk')]
     \/ UNCHANGED serving
  /\ manifest' = NoManifest
  /\ commands' = commands + 1
  /\ told' = Routes /\ before' = disk'
  /\ UNCHANGED <<installed, layout, config, certs, job, killed>>

Next ==
  \/ \E d \in Domains, kind \in ChooseFrontend : Issue(d, kind)
  \/ \E on, vhost \in BOOLEAN : PanelChange(on, vhost) \/ SubChange(on, vhost)
  \/ WriteSite \/ WriteBreaks \/ Symlink \/ RemoveLink \/ RemoveOld \/ A2ensite \/ Import
  \/ ConfigTest \/ Reload \/ StepFails \/ Rollback \/ Record \/ RecordFails \/ Kill
  \/ Uninstall

Spec == Init /\ [][Next]_web

--------------------------------------------------------------------------------
TypeOK ==
  /\ installed \in Machines /\ layout \in Layouts /\ certs \subseteq Domains /\ told \subseteq Routes
  /\ config.frontend \in installed \cup {"builtin"} /\ config.routes \subseteq Routes
  /\ DOMAIN disk = Places /\ manifest.files \subseteq Places
  /\ job.at \in {"idle", "run", "failed"}

Ours(place) == disk[place].is \in {"site", "link", "block", "half"}

(* "nginx was left as it was": a command that fails leaves every file as the  *)
(* command found it, with one exception: an apache site that was enabled      *)
(* before is disabled.                                                        *)
LeftAsItWas ==
  job.at = "idle" =>
    \A p \in Places : disk[p] = before[p] \/ (p[2] = "a2" /\ disk[p] = Absent)

Owned(c) ==
  LET ops == Install(c)
  IN {ops[i].place : i \in {j \in DOMAIN ops : ops[j].what \in {"site", "link"}}}

(* What ostp added to a web server is in the manifest, so that uninstall      *)
(* takes it back.  (An apache site is remembered only for the last domain; a  *)
(* killed command leaves files that the next install of the same site lists,  *)
(* and an import block that nobody does.)                                     *)
NothingForgotten ==
  job.at = "idle" =>
    \A p \in Places :
      Ours(p) => \/ p \in manifest.files
                 \/ p[2] = "import" /\ (manifest.import \/ killed)
                 \/ p[2] = "a2" /\ (killed \/ manifest.site = p[1] \/ certs # {p[1]})
                 \/ killed /\ ~(told = {} /\ manifest.kind = config.frontend /\ p \in Owned(config))

(* After an install of nginx no second site of ours has the same name.        *)
OneBlockPerName ==
  job.at = "idle" /\ told = {} /\ manifest.kind = "nginx" /\ config.frontend = "nginx" =>
    \A a, b \in serving["nginx"] : a.domain = config.domain /\ a.domain = b.domain => a = b

(* Every path of the config is forwarded by the web server in front, or the   *)
(* user was told.  (A listed site of another domain, or of a web server that  *)
(* was in front before, hides this when it mentions the path.)                *)
ForwardedOrTold ==
  job.at = "idle" /\ config.frontend # "builtin" =>
    \A r \in config.routes :
      \/ r \in told
      \/ \E s \in serving[config.frontend] : s.domain = config.domain /\ r \in s.routes
      \/ \E p \in manifest.files \ Owned(config) : r \in disk[p].routes

SiteSound == LeftAsItWas /\ NothingForgotten /\ OneBlockPerName /\ ForwardedOrTold
================================================================================
