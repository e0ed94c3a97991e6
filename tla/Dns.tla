--------------------------------- MODULE Dns -----------------------------------
(* The server's DNS resolver (ostp-dns).  An answer depends on the settings,  *)
(* the rewrites, the filter built from rules and downloaded lists, and the    *)
(* cache, each under a lock of its own; `apply` and `update_lists` replace    *)
(* them one after the other while queries are answered.  A SOCKS client's     *)
(* connection by name asks the same resolver (router.rs).                     *)
(* An answer is the set of CNAME targets in it; a filter is the set of names  *)
(* it blocks.                                                                 *)
EXTENDS Naturals, FiniteSets

CONSTANTS
  Names,
  Targets,     \* name -> the CNAME targets of the upstream's answer
  LocalNames,  \* names under .ostp
  Applied,     \* settings an administrator may apply; the server starts with any
  Lists,       \* what a list may hold when it is downloaded
  Clients,     \* each asks one question at a time
  MaxAsked,    \* bound: questions a client asks
  MaxApplies,  \* bound: settings applied
  MaxUpdates   \* bound: updates the timer begins

Settings ==
  [enabled : BOOLEAN, intercept : BOOLEAN, lists : BOOLEAN, rules : SUBSET Names, services : SUBSET Names,
   rewrites : SUBSET Names, cache_size : Nat]

Valid ==
  /\ Names # {} /\ LocalNames \subseteq Names /\ DOMAIN Targets = Names
  /\ Applied # {} /\ Applied \subseteq Settings /\ Lists \subseteq SUBSET Names
  /\ MaxApplies \in Nat

VARIABLES
  settings, rewrites, filter,
  cache,       \* names with an answer in the cache
  list_file,   \* the downloaded list
  fresh,       \* it is there and younger than the interval
  apply,       \* number -> [at, s, filter], of each call of `apply`
  update,      \* number -> [at, s, filter], of each call of `update_lists`
  began,       \* updates the timer began
  mingled,     \* history: two were at once, since the last `apply` begun alone
  asked,       \* client -> questions asked so far
  query,       \* client -> its question
  in_force     \* history: client -> what was in force during its question

ruleVars == <<settings, rewrites, filter>>
writerVars == <<list_file, fresh, apply, update, began, mingled>>
queryVars == <<asked, query>>
dnsVars == <<ruleVars, cache, writerVars, queryVars, in_force>>

NoQuery == [at |-> "idle", name |-> CHOOSE n \in Names : TRUE, by |-> "packet", s |-> CHOOSE s \in Applied : TRUE,
            filter |-> {}, cached |-> FALSE, outcome |-> "none"]
NoWriter == [at |-> "idle", s |-> CHOOSE s \in Applied : TRUE, filter |-> {}]

(* build_filter: the rules, and the list as it is on disk.                    *)
Built(s) == s.rules \cup (IF s.lists THEN list_file ELSE {})

InForce == [on |-> settings.enabled, rules |-> filter, services |-> settings.services]

(* Dns::new                                                                   *)
Init ==
  /\ list_file \in Lists /\ fresh \in BOOLEAN
  /\ settings \in Applied /\ rewrites = settings.rewrites /\ filter = Built(settings)
  /\ cache = {}
  /\ apply = [i \in 1..MaxApplies |-> NoWriter]
  /\ update = [i \in 0..MaxApplies |-> NoWriter] /\ began = 0 /\ mingled = FALSE
  /\ asked = [c \in Clients |-> 0] /\ query = [c \in Clients |-> NoQuery] /\ in_force = [c \in Clients |-> {}]

--------------------------------------------------------------------------------
(* Replacing the rules                                                        *)

UnderWay(f) == {i \in DOMAIN f : f[i].at \notin {"idle", "done"}}
Busy == UnderWay(apply) \cup UnderWay(update) # {}

(* Questions being answered now also meet what is put in force.               *)
Noted == in_force' = [c \in Clients |-> IF query[c].at \in {"idle", "done"} THEN in_force[c]
                                        ELSE in_force[c] \cup {InForce'}]

(* Mutant: the lists are left to the update that follows.                     *)
BuiltForApply(s) == s.rules

BuiltAtApply(s) == Built(s)

(* apply: validated, and the filter built, before anything is replaced.       *)
ApplyBegins(i, s) ==
  /\ apply[i].at = "idle" /\ (i > 1 => apply[i - 1].at # "idle")
  /\ apply' = [apply EXCEPT ![i] = [at |-> "filter", s |-> s, filter |-> BuiltAtApply(s)]]
  /\ mingled' = Busy
  /\ UNCHANGED <<ruleVars, cache, list_file, fresh, update, began, queryVars, in_force>>

ApplyFilter(i) ==
  /\ apply[i].at = "filter" /\ filter' = apply[i].filter
  /\ apply' = [apply EXCEPT ![i].at = "rewrites"]
  /\ UNCHANGED <<settings, rewrites, cache, list_file, fresh, update, began, mingled, queryVars>> /\ Noted

ApplyRewrites(i) ==
  /\ apply[i].at = "rewrites" /\ rewrites' = apply[i].s.rewrites
  /\ apply' = [apply EXCEPT ![i].at = "settings"]
  /\ UNCHANGED <<settings, filter, cache, list_file, fresh, update, began, mingled, queryVars, in_force>>

ApplySettings(i) ==
  /\ apply[i].at = "settings" /\ settings' = apply[i].s
  /\ apply' = [apply EXCEPT ![i].at = "clear"]
  /\ UNCHANGED <<rewrites, filter, cache, list_file, fresh, update, began, mingled, queryVars>> /\ Noted

UpdateDue(s) == s.enabled /\ s.lists /\ ~fresh

(* The cache is emptied; a list that is missing or old is fetched.            *)
ApplyClear(i) ==
  /\ apply[i].at = "clear" /\ cache' = {}
  /\ apply' = [apply EXCEPT ![i] = [NoWriter EXCEPT !.at = "done"]]
  /\ update' = IF UpdateDue(apply[i].s) THEN [update EXCEPT ![i].at = "begin"] ELSE update
  /\ UNCHANGED <<ruleVars, list_file, fresh, began, mingled, queryVars, in_force>>

(* start: every half hour.                                                    *)
TimerUpdates ==
  /\ update[0].at \in {"idle", "done"} /\ began < MaxUpdates /\ UpdateDue(settings)
  /\ began' = began + 1 /\ update' = [update EXCEPT ![0].at = "begin"]
  /\ mingled' = (mingled \/ Busy)
  /\ UNCHANGED <<ruleVars, cache, list_file, fresh, apply, queryVars, in_force>>

(* update_lists keeps the settings of its beginning.                          *)
UpdateBegins(i) ==
  /\ update[i].at = "begin" /\ update' = [update EXCEPT ![i] = [NoWriter EXCEPT !.at = "download", !.s = settings]]
  /\ UNCHANGED <<ruleVars, cache, list_file, fresh, apply, began, mingled, queryVars, in_force>>

(* A download that fails keeps the copy.                                      *)
Download(i) ==
  /\ update[i].at = "download" /\ update' = [update EXCEPT ![i].at = "build"]
  /\ \/ UNCHANGED <<list_file, fresh>>
     \/ update[i].s.lists /\ list_file' \in Lists /\ fresh' = TRUE
  /\ UNCHANGED <<ruleVars, cache, apply, began, mingled, queryVars, in_force>>

UpdateBuilds(i) ==
  /\ update[i].at = "build"
  /\ update' = [update EXCEPT ![i].at = "filter", ![i].filter = Built(update[i].s)]
  /\ UNCHANGED <<ruleVars, cache, list_file, fresh, apply, began, mingled, queryVars, in_force>>

UpdateFilter(i) ==
  /\ update[i].at = "filter" /\ filter' = update[i].filter
  /\ update' = [update EXCEPT ![i].at = "clear"]
  /\ UNCHANGED <<settings, rewrites, cache, list_file, fresh, apply, began, mingled, queryVars>> /\ Noted

UpdateClear(i) ==
  /\ update[i].at = "clear" /\ cache' = {} /\ update' = [update EXCEPT ![i] = [NoWriter EXCEPT !.at = "done"]]
  /\ UNCHANGED <<ruleVars, list_file, fresh, apply, began, mingled, queryVars, in_force>>

ListAges ==
  /\ fresh /\ fresh' = FALSE
  /\ UNCHANGED <<ruleVars, cache, list_file, apply, update, began, mingled, queryVars, in_force>>

--------------------------------------------------------------------------------
(* Answering                                                                  *)

Answering(c, q) == query' = [query EXCEPT ![c] = q] /\ UNCHANGED <<ruleVars, writerVars, asked, in_force>>
Ends(c, outcome) == Answering(c, [NoQuery EXCEPT !.at = "done", !.name = query[c].name, !.outcome = outcome])
Goes(c, at) == Answering(c, [query[c] EXCEPT !.at = at])

(* A packet, or a connection to a name.                                       *)
Asks(c, n, by) ==
  /\ query[c].at \in {"idle", "done"} /\ asked[c] < MaxAsked
  /\ asked' = [asked EXCEPT ![c] = @ + 1]
  /\ query' = [query EXCEPT ![c] = [NoQuery EXCEPT !.name = n, !.by = by, !.s = settings,
                                      !.at = IF by = "name" THEN "explain" ELSE "handle"]]
  /\ in_force' = [in_force EXCEPT ![c] = {InForce}]
  /\ UNCHANGED <<ruleVars, cache, writerVars>>

Refuses(s, n, blocked) == n \notin rewrites /\ (n \in LocalNames \cup s.services \cup blocked)

(* resolve_host: nothing to do while filtering is off; a name the rules block *)
(* is refused, any other is resolved as a packet's would be.                  *)
Explain(c) ==
  /\ query[c].at = "explain" /\ UNCHANGED cache
  /\ IF ~query[c].s.enabled THEN Ends(c, "by name")
     ELSE IF Refuses(settings, query[c].name, filter) THEN Ends(c, "blocked")
     ELSE Answering(c, [query[c] EXCEPT !.at = "handle", !.s = settings])

(* handle, up to the lists: the settings of the beginning, the rewrites of    *)
(* now.  A rewrite to a name is answered as one to an address.                *)
Handle(c) ==
  LET n == query[c].name s == query[c].s IN
  /\ query[c].at = "handle" /\ UNCHANGED cache
  /\ IF ~s.enabled THEN IF s.intercept THEN Goes(c, "lookup") ELSE Ends(c, "not ours")
     ELSE IF n \in rewrites THEN Ends(c, "local")
     ELSE IF Refuses(s, n, {}) THEN Ends(c, "blocked")
     ELSE Goes(c, "filter")

JudgeName(c) ==
  /\ query[c].at = "filter" /\ UNCHANGED cache
  /\ IF query[c].name \in filter THEN Ends(c, "blocked")
     ELSE Answering(c, [query[c] EXCEPT !.at = "lookup", !.filter = filter])

(* resolve_cached, with the settings of now for the cache.  An entry may have *)
(* outlived its time.                                                         *)
Lookup(c) ==
  LET q == [query[c] EXCEPT !.s.cache_size = settings.cache_size] IN
  /\ query[c].at = "lookup" /\ UNCHANGED cache
  /\ \/ /\ settings.cache_size > 0 /\ query[c].name \in cache
        /\ Answering(c, [q EXCEPT !.cached = TRUE, !.at = "verdict"])
     \/ Answering(c, [q EXCEPT !.at = "upstream"])

(* No connection is made to a name that could not be resolved, but the caller *)
(* tries the name itself.                                                     *)
Unresolved(c) == IF query[c].by = "name" THEN "by name" ELSE "failed"

Upstream(c) ==
  /\ query[c].at = "upstream" /\ UNCHANGED cache
  /\ Ends(c, Unresolved(c)) \/ Goes(c, IF query[c].s.cache_size > 0 THEN "store" ELSE "verdict")

(* Mutant: a full cache drops what has outlived its time, and nothing else.   *)
RoomMadeOfOld(c) == SUBSET cache

(* A full cache drops what has outlived its time, and one more if it must.    *)
RoomMade(c) ==
  IF Cardinality(cache) < query[c].s.cache_size THEN {cache} ELSE SUBSET cache \ {cache}

Store(c) ==
  /\ query[c].at = "store"
  /\ \E kept \in RoomMade(c) : cache' = kept \cup {query[c].name}
  /\ Goes(c, "verdict")

(* Mutant: an answer from the cache was judged when it came in.               *)
JudgedNew(c) == IF query[c].cached THEN {} ELSE Targets[query[c].name] \cap query[c].filter

Cloaked(c) == Targets[query[c].name] \cap query[c].filter

(* The targets in the answer, by the filter that judged the name.  A          *)
(* connection finds no address in the refusal.                                *)
Verdict(c) ==
  /\ query[c].at = "verdict" /\ UNCHANGED cache
  /\ IF query[c].s.enabled /\ Cloaked(c) # {} THEN Ends(c, IF query[c].by = "name" THEN "cloaked" ELSE "blocked")
     ELSE Ends(c, "answered")

--------------------------------------------------------------------------------
Next ==
  \/ \E i \in DOMAIN apply :
       \/ \E s \in Applied : ApplyBegins(i, s)
       \/ ApplyFilter(i) \/ ApplyRewrites(i) \/ ApplySettings(i) \/ ApplyClear(i)
  \/ TimerUpdates \/ ListAges
  \/ \E i \in DOMAIN update :
       UpdateBegins(i) \/ Download(i) \/ UpdateBuilds(i) \/ UpdateFilter(i) \/ UpdateClear(i)
  \/ \E c \in Clients :
       \/ \E n \in Names, by \in {"packet", "name"} : Asks(c, n, by)
       \/ Explain(c) \/ Handle(c) \/ JudgeName(c) \/ Lookup(c) \/ Upstream(c) \/ Store(c) \/ Verdict(c)

Spec == Init /\ [][Next]_dnsVars

--------------------------------------------------------------------------------
CacheLimit == CHOOSE k \in {s.cache_size : s \in Applied} : \A s \in Applied : s.cache_size <= k

(* The variables have their types; the cache stays within the largest size.   *)
TypeOK ==
  /\ settings \in Applied /\ filter \subseteq Names /\ rewrites \subseteq Names
  /\ cache \subseteq Names /\ Cardinality(cache) <= CacheLimit /\ list_file \in Lists

(* An answer that is passed on was permitted by what was in force during the  *)
(* question: its name by the services of some moment, and its name with every *)
(* name behind it by the filter of some moment; or the resolver was off.      *)
(* Also when it came from the cache, where a query that was under way while   *)
(* the rules were replaced may have put it after the cache was emptied.       *)
AnsweredByTheRules ==
  \A c \in Clients : query[c].outcome = "answered" =>
    \/ \E f \in in_force[c] : ~f.on
    \/ /\ \E f \in in_force[c] : query[c].name \notin f.services
       /\ \E f \in in_force[c] : ({query[c].name} \cup Targets[query[c].name]) \cap f.rules = {}

(* When nothing is being replaced, and no two replacements ran at once since  *)
(* the last `apply` that began alone, the filter is that of the settings and  *)
(* the list on disk, and the rewrites are the settings'.                      *)
RulesFollow == ~Busy /\ ~mingled => filter = Built(settings) /\ rewrites = settings.rewrites

(* "New settings, live: upstreams, rules and rewrites are rebuilt": the same  *)
(* of settings applied while a list is being downloaded.                      *)
RulesAreCurrent == ~Busy => filter = Built(settings) /\ rewrites = settings.rewrites

(* "a blocked name is refused" for a connection by name, also when it is a    *)
(* name behind it that is blocked: none goes on without an address.           *)
ByNameIsFiltered == \A c \in Clients : query[c].outcome # "cloaked"

(* Answers and filter follow rules that were in force, whatever overlaps.     *)
DnsSound == AnsweredByTheRules /\ RulesFollow
================================================================================
