----------------------------- MODULE ConfigReload -----------------------------
(***************************************************************************)
(* The configuration on its way from the admin API to the running program: *)
(* handleAdminConfig (admin/handlers.go), SaveAppConfig, LoadAppConfig and *)
(* Seed (config/store.go), ReloadConfig (proxy/app.go) and the start of    *)
(* the program (cmd/x-tool/main.go).                                       *)
(*                                                                         *)
(* A configuration is three tables.  Saving replaces them in one           *)
(* transaction, loading reads them in three statements, and the running    *)
(* program has it in two places, the state behind an atomic pointer and    *)
(* the log level.  Nothing keeps two saves apart.  What a table or a place *)
(* holds is named after the request that saved it.                         *)
(*                                                                         *)
(* Definitions ending in _Bug are the plausible slips the properties are   *)
(* tested against; nothing here uses them.                                 *)
(***************************************************************************)
EXTENDS Naturals, Sequences, SequencesExt

CONSTANTS
  Request,  \* requests that save a configuration
  Feature,  \* keys of the features table
  Default   \* the configuration the program is shipped with

ASSUME VersionAssumption == Default \notin Request /\ Feature # {}

VARIABLES
  db,        \* the tables
  keys,      \* the features that have a row
  main,      \* where the start of the program is: down, seed, up
  todo,      \* features Seed still has to insert
  running,   \* AppState
  logLevel,  \* the request whose log level is set
  pc,        \* what a request does next
  loaded,    \* the tables a request's ReloadConfig has read so far
  answer,
  commits,   \* history: the requests whose transaction was committed, in order
  overlap    \* history: a request began while another was under way

tables  == <<db, keys>>
program == <<running, logLevel>>
request == <<pc, loaded, answer>>
history == <<commits, overlap>>
vars    == <<tables, main, todo, program, request, history>>

Version == Request \union {Default}
Table   == {"upstreams", "profiles", "features"}
Config  == [Table -> Version]

\* What a request does next.
Label == {"new", "save", "validate", "replace", "log level", "answered", "lost"}
           \union Table

All(v) == [t \in Table |-> v]

UnderWay(r) == pc[r] \notin {"new", "answered", "lost"}

Init ==
  /\ db = All(Default) /\ keys = {}
  /\ main = "down" /\ todo = {}
  /\ running = All(Default) /\ logLevel = Default
  /\ pc = [r \in Request |-> "new"]
  /\ loaded = [r \in Request |-> All(Default)]
  /\ answer = [r \in Request |-> 0]
  /\ commits = <<>> /\ overlap = FALSE

-----------------------------------------------------------------------------
(* The start of the program                                                *)

\* Saved features are not looked for.
Start_Bug ==
  /\ main = "down"
  /\ main' = "seed" /\ todo' = Feature
  /\ UNCHANGED <<tables, program, request, history>>

\* Seed counts the rows of a table and inserts the defaults when there are none.
\* There are no default upstreams, and one default profile, which LoadAppConfig adds
\* when it is missing; so only features matter here.
Start ==
  /\ main = "down"
  /\ main' = "seed"
  /\ todo' = IF keys = {} THEN Feature ELSE {}
  /\ UNCHANGED <<tables, program, request, history>>

\* One statement per feature, in any order: Seed walks a map.
SeedFeature(k) ==
  /\ main = "seed" /\ k \in todo
  /\ keys' = keys \union {k}
  /\ db' = [db EXCEPT !["features"] = Default]
  /\ todo' = todo \ {k}
  /\ UNCHANGED <<main, program, request, history>>

\* LoadAppConfig, Validate, NewApp.  Nothing else runs yet.
Up ==
  /\ main = "seed" /\ todo = {}
  /\ main' = "up"
  /\ running' = db /\ logLevel' = db["features"]
  /\ UNCHANGED <<tables, todo, request, history>>

\* The program stops; a statement of Seed that fails ends it, too.
Crash ==
  /\ main \in {"seed", "up"}
  /\ main' = "down" /\ todo' = {}
  /\ pc' = [r \in Request |-> IF UnderWay(r) THEN "lost" ELSE pc[r]]
  /\ UNCHANGED <<tables, program, loaded, answer, commits, overlap>>

-----------------------------------------------------------------------------
(* handleAdminConfig                                                       *)

Goto(r, label) == pc' = [pc EXCEPT ![r] = label]

Answer(r, status) ==
  /\ Goto(r, "answered")
  /\ answer' = [answer EXCEPT ![r] = status]

\* A configuration arrives and is valid; one that is not leaves no trace.
Begin(r) ==
  /\ main = "up" /\ pc[r] = "new"
  /\ Goto(r, "save")
  /\ overlap' = (overlap \/ \E other \in Request : UnderWay(other))
  /\ UNCHANGED <<tables, main, todo, program, loaded, answer, commits>>

\* SaveAppConfig commits, or fails and rolls back.
Save(r) ==
  /\ pc[r] = "save"
  /\ \/ /\ db' = All(r) /\ keys' = Feature
        /\ commits' = Append(commits, r)
        /\ Goto(r, "upstreams")
        /\ UNCHANGED answer
     \/ /\ Answer(r, 500)
        /\ UNCHANGED <<tables, commits>>
  /\ UNCHANGED <<main, todo, program, loaded, overlap>>

Read(r, t, next) ==
  /\ pc[r] = t
  /\ \/ /\ loaded' = [loaded EXCEPT ![r][t] = db[t]]
        /\ Goto(r, next)
        /\ UNCHANGED answer
     \/ /\ Answer(r, 500)
        /\ UNCHANGED loaded
  /\ UNCHANGED <<tables, main, todo, program, history>>

\* ListSoftToolPromptProfiles takes what is running.
LoadProfiles_Bug(r) ==
  /\ pc[r] = "profiles"
  /\ loaded' = [loaded EXCEPT ![r]["profiles"] = running["profiles"]]
  /\ Goto(r, "features")
  /\ UNCHANGED <<tables, main, todo, program, history, answer>>

\* ListUpstreams, ListSoftToolPromptProfiles, GetAllFeatures
LoadUpstreams(r) == Read(r, "upstreams", "profiles")
LoadProfiles(r)  == Read(r, "profiles", "features")
LoadFeatures(r)  == Read(r, "features", "validate")

\* Tables of one request were valid when it saved them; of more than one they may
\* be, for instance, an upstream that names a profile which is gone.
Validate(r) ==
  /\ pc[r] = "validate"
  /\ \/ Goto(r, "replace") /\ UNCHANGED answer
     \/ (\A v \in Version : loaded[r] # All(v)) /\ Answer(r, 500)
  /\ UNCHANGED <<tables, main, todo, program, loaded, history>>

ReplaceState(r) ==
  /\ pc[r] = "replace"
  /\ running' = loaded[r]
  /\ Goto(r, "log level")
  /\ UNCHANGED <<tables, main, todo, logLevel, loaded, answer, history>>

\* The level stays what it was.
ApplyLogLevel_Bug(r) ==
  /\ pc[r] = "log level"
  /\ Answer(r, 200)
  /\ UNCHANGED <<tables, main, todo, program, loaded, history>>

\* Then the answer: "Config applied".
ApplyLogLevel(r) ==
  /\ pc[r] = "log level"
  /\ logLevel' = loaded[r]["features"]
  /\ Answer(r, 200)
  /\ UNCHANGED <<tables, main, todo, running, loaded, history>>

Next ==
  \/ Start \/ (\E k \in Feature : SeedFeature(k)) \/ Up \/ Crash
  \/ \E r \in Request :
       \/ Begin(r) \/ Save(r)
       \/ LoadUpstreams(r) \/ LoadProfiles(r) \/ LoadFeatures(r)
       \/ Validate(r) \/ ReplaceState(r) \/ ApplyLogLevel(r)

Spec == Init /\ [][Next]_vars

-----------------------------------------------------------------------------
(* Properties *)

TypeOK ==
  /\ db \in Config /\ keys \subseteq Feature
  /\ main \in {"down", "seed", "up"} /\ todo \subseteq Feature
  /\ running \in Config /\ logLevel \in Version
  /\ pc \in [Request -> Label]
  /\ loaded \in [Request -> Config]
  /\ answer \in [Request -> {0, 200, 500}]
  /\ commits \in Seq(Request)
  /\ overlap \in BOOLEAN

\* When a configuration was saved: 0 for the shipped one.
AgeIn(saved, v) == IF v = Default THEN 0 ELSE SelectInSeq(saved, LAMBDA r : r = v)
Age(v) == AgeIn(commits, v)

TornOneWay(config) ==
  /\ Age(config["upstreams"]) <= Age(config["profiles"])
  /\ Age(config["profiles"]) <= Age(config["features"])

\* The configuration a request makes the running one is its own, or in each table
\* one saved after it: however saves interleave, a reload never misses its own save.
\* A reload that is torn between saves is torn one way only: features are at least as
\* new as profiles, and profiles at least as new as upstreams.
ReloadSeesOwnSave ==
  /\ TypeOK
  /\ \A r \in Request : pc[r] \in {"validate", "replace", "log level"} \/ answer[r] = 200 =>
       \A t \in Table : Age(loaded[r][t]) >= Age(r)
  /\ TornOneWay(running)

\* Requests that do not overlap leave the program running, in both places, what the
\* tables hold, if the last one that saved anything was answered with success.
AppliedAlone ==
  (main = "up" /\ ~overlap /\ (\A r \in Request : ~UnderWay(r))
     /\ commits # <<>> /\ answer[Last(commits)] = 200)
  => running = db /\ logLevel = db["features"]

\* Starting the program again never undoes what was saved.
RestartKeepsSaved ==
  [][commits # <<>> /\ commits' = commits => UNCHANGED tables]_vars

=============================================================================
