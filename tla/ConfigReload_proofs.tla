------------------------- MODULE ConfigReload_proofs -------------------------
(***************************************************************************)
(* Proofs about ConfigReload, for any number of requests and features, and *)
(* any interleaving of saves, failures, crashes and starts: no reload      *)
(* misses its own save, requests that do not overlap leave the program as  *)
(* saved, and no start of the program undoes a save.                       *)
(***************************************************************************)
EXTENDS ConfigReload, TLAPS

\* A request whose transaction was committed, and a version that was ever saved.
Committed(r) == \E i \in 1..Len(commits) : commits[i] = r
Known(v) == v = Default \/ Committed(v)

\* The statements of a request that come after its transaction.
Reading == {"upstreams", "profiles", "features", "validate", "replace", "log level"}

\* The tables a request's ReloadConfig has read.
HasRead(r, t) ==
  \/ t = "upstreams" /\ pc[r] \in Reading \ {"upstreams"}
  \/ t = "profiles"  /\ pc[r] \in {"features", "validate", "replace", "log level"}
  \/ pc[r] \in {"validate", "replace", "log level"}
  \/ answer[r] = 200

\* Requests run while the program is up, and save at most once, before they read.
CourseOf(r) ==
  /\ UnderWay(r) => main = "up"
  /\ answer[r] # 0 => pc[r] = "answered"
  /\ pc[r] \in {"new", "save"} => ~Committed(r)
  /\ pc[r] \in Reading \/ answer[r] = 200 => Committed(r)

CourseInv ==
  /\ main # "seed" => todo = {}
  /\ \A r \in Request : CourseOf(r)

\* The tables are those of the last transaction, and once there is one, Seed finds
\* nothing to do.
TablesInv ==
  /\ \A i, j \in 1..Len(commits) : commits[i] = commits[j] => i = j
  /\ commits = <<>> => db = All(Default)
  /\ commits # <<>> => db = All(Last(commits)) /\ keys = Feature /\ todo = {}

\* What was loaded was saved at some time: by the request itself or later, and what was
\* read later is not older.
LoadedBy(r) ==
  /\ \A t \in Table : Known(loaded[r][t])
  /\ \A t \in Table : HasRead(r, t) => Age(loaded[r][t]) >= Age(r)
  /\ HasRead(r, "profiles") => Age(loaded[r]["upstreams"]) <= Age(loaded[r]["profiles"])
  /\ HasRead(r, "features") => TornOneWay(loaded[r])

LoadedInv ==
  /\ \A t \in Table : Known(running[t])
  /\ TornOneWay(running)
  /\ \A r \in Request : LoadedBy(r)

\* Of requests that do not overlap, the one under way has saved last, has read what it
\* saved, and leaves it running when it is done.
SavedLast(r) ==
  pc[r] \in Reading =>
    /\ commits # <<>> /\ Last(commits) = r
    /\ \A t \in Table : HasRead(r, t) => loaded[r][t] = r
    /\ pc[r] = "log level" => running = All(r)

Settled ==
  main = "up" /\ commits # <<>> /\ answer[Last(commits)] = 200 =>
    running = db /\ logLevel = db["features"]

AloneInv ==
  ~overlap =>
    /\ \A r, s \in Request : UnderWay(r) /\ UnderWay(s) => r = s
    /\ \A r \in Request : SavedLast(r)
    /\ Settled

IInv ==
  /\ TypeOK
  /\ CourseInv
  /\ TablesInv
  /\ LoadedInv
  /\ AloneInv

-----------------------------------------------------------------------------
(* Ages *)

Once(saved) == \A i, j \in 1..Len(saved) : saved[i] = saved[j] => i = j

LEMMA AgeAt ==
  ASSUME NEW saved \in Seq(Request), Once(saved), NEW i \in 1..Len(saved)
  PROVE  AgeIn(saved, saved[i]) = i
<1> DEFINE I == {j \in 1..Len(saved) : saved[j] = saved[i]}
<1>1. saved[i] # Default
  BY VersionAssumption
<1>2. I = {i}
  BY DEF Once
<1>3. Min(I) = i
  <2> HIDE DEF I
  <2> QED BY <1>2 DEF Min
<1>4. AgeIn(saved, saved[i]) = IF I # {} THEN Min(I) ELSE 0
  BY <1>1 DEF AgeIn, SelectInSeq
<1> HIDE DEF I
<1> QED BY <1>2, <1>3, <1>4

LEMMA AgeRange ==
  ASSUME NEW saved \in Seq(Request), Once(saved), NEW v,
         v = Default \/ \E i \in 1..Len(saved) : saved[i] = v
  PROVE  AgeIn(saved, v) \in 0..Len(saved)
<1>1. CASE v = Default
  BY <1>1 DEF AgeIn
<1>2. CASE v # Default
  <2>1. PICK i \in 1..Len(saved) : saved[i] = v
    BY <1>2
  <2> QED BY <2>1, AgeAt
<1> QED BY <1>1, <1>2

LEMMA AgeAppend ==
  ASSUME NEW saved \in Seq(Request), Once(saved),
         NEW r \in Request, \A i \in 1..Len(saved) : saved[i] # r
  PROVE  /\ Once(Append(saved, r))
         /\ \A v : v = Default \/ (\E i \in 1..Len(saved) : saved[i] = v) =>
              AgeIn(Append(saved, r), v) = AgeIn(saved, v)
<1> DEFINE longer == Append(saved, r)
<1>1. /\ longer \in Seq(Request) /\ Len(longer) = Len(saved) + 1
      /\ \A i \in 1..Len(saved) : longer[i] = saved[i]
      /\ longer[Len(saved) + 1] = r
  OBVIOUS
<1> HIDE DEF longer
<1>2. Once(longer)
  BY <1>1 DEF Once
<1>3. ASSUME NEW v, v = Default \/ \E i \in 1..Len(saved) : saved[i] = v
      PROVE  AgeIn(longer, v) = AgeIn(saved, v)
  <2>1. CASE v = Default
    BY <2>1 DEF AgeIn
  <2>2. CASE v # Default
    <3>1. PICK i \in 1..Len(saved) : saved[i] = v
      BY <1>3, <2>2
    <3>2. AgeIn(saved, v) = i
      BY <3>1, AgeAt
    <3>3. i \in 1..Len(longer) /\ longer[i] = v
      BY <1>1, <3>1
    <3>4. AgeIn(longer, longer[i]) = i
      BY <1>1, <1>2, <3>3, AgeAt
    <3> QED BY <3>2, <3>3, <3>4
  <2> QED BY <2>1, <2>2
<1> QED BY <1>2, <1>3 DEF longer

-----------------------------------------------------------------------------
(* Types *)

LEMMA Alls == \A v \in Version : All(v) \in Config /\ \A t \in Table : All(v)[t] = v
BY DEF All, Config

LEMMA Versions == Default \in Version /\ Request \subseteq Version
BY DEF Version

LEMMA Moves ==
  ASSUME pc \in [Request -> Label], answer \in [Request -> {0, 200, 500}],
         NEW r \in Request
  PROVE  /\ \A label \in Label : Goto(r, label) => pc' \in [Request -> Label]
         /\ \A status \in {200, 500} : Answer(r, status) =>
              pc' \in [Request -> Label] /\ answer' \in [Request -> {0, 200, 500}]
<1>1. "answered" \in Label
  BY DEF Label
<1>2. ASSUME NEW label \in Label, Goto(r, label) PROVE pc' \in [Request -> Label]
  BY <1>2 DEF Goto
<1>3. ASSUME NEW status \in {200, 500}, Answer(r, status)
      PROVE  pc' \in [Request -> Label] /\ answer' \in [Request -> {0, 200, 500}]
  BY <1>1, <1>2, <1>3 DEF Answer
<1> QED BY <1>2, <1>3

LEMMA InitIInv == Init => IInv
<1> SUFFICES ASSUME Init PROVE IInv
  OBVIOUS
<1> USE VersionAssumption
<1>1. TypeOK
  <2>1. "new" \in Label
    BY DEF Label
  <2>2. commits \in Seq(Request)
    BY DEF Init
  <2> QED BY <2>1, <2>2, Alls, Versions DEF Init, TypeOK
<1>2. CourseInv
  BY DEF Init, CourseInv, CourseOf, UnderWay, Committed, Reading
<1>3. TablesInv
  BY DEF Init, TablesInv
<1>4. LoadedInv
  BY DEF Init, LoadedInv, LoadedBy, HasRead, Reading, Known, TornOneWay, Age, AgeIn, All, Table
<1>5. AloneInv
  BY DEF Init, AloneInv, SavedLast, Settled, UnderWay, Reading
<1> QED BY <1>1, <1>2, <1>3, <1>4, <1>5 DEF IInv

LEMMA TypeStep == TypeOK /\ [Next]_vars => TypeOK'
<1> SUFFICES ASSUME TypeOK, [Next]_vars PROVE TypeOK'
  OBVIOUS
<1> USE DEF TypeOK, tables, program, request, history
<1>0. {"save", "upstreams", "profiles", "features", "validate", "replace", "log level",
       "answered", "lost"} \subseteq Label
  BY DEF Label, Table
<1>1. CASE Start
  BY <1>1 DEF Start
<1>2. ASSUME NEW k \in Feature, SeedFeature(k) PROVE TypeOK'
  <2>1. db' \in Config
    BY <1>2 DEF SeedFeature, Config, Version, Table
  <2> QED BY <1>2, <2>1 DEF SeedFeature
<1>3. CASE Up
  <2>1. db["features"] \in Version
    BY DEF Config, Table
  <2> QED BY <1>3, <2>1 DEF Up
<1>4. CASE Crash
  <2>1. pc' \in [Request -> Label]
    BY <1>0, <1>4, ZenonT(30) DEF Crash
  <2> QED BY <1>4, <2>1 DEF Crash
<1>5. ASSUME NEW r \in Request, Begin(r) PROVE TypeOK'
  <2>1. pc' \in [Request -> Label]
    BY <1>0, <1>5, Moves DEF Begin
  <2> QED BY <1>5, <2>1 DEF Begin
<1>6. ASSUME NEW r \in Request, Save(r) PROVE TypeOK'
  <2>1. pc' \in [Request -> Label] /\ answer' \in [Request -> {0, 200, 500}]
    <3>1. CASE Goto(r, "upstreams") /\ UNCHANGED answer
      BY <1>0, <3>1, Moves
    <3>2. CASE Answer(r, 500)
      BY <3>2, Moves
    <3> QED BY <1>6, <3>1, <3>2 DEF Save
  <2>2. All(r) \in Config /\ Append(commits, r) \in Seq(Request)
    <3>1. Append(commits, r) \in Seq(Request)
      OBVIOUS
    <3> QED BY <3>1, Alls, Versions
  <2>3. db' \in Config /\ keys' \subseteq Feature /\ commits' \in Seq(Request)
    BY <1>6, <2>2, SMTT(30) DEF Save
  <2> QED BY <1>6, <2>1, <2>3 DEF Save
<1>7. ASSUME NEW r \in Request, NEW t \in Table, NEW next,
             next \in Label, Read(r, t, next)
      PROVE  TypeOK'
  <2>1. pc' \in [Request -> Label] /\ answer' \in [Request -> {0, 200, 500}]
    <3>1. CASE Goto(r, next) /\ UNCHANGED answer
      BY <1>7, <3>1, Moves
    <3>2. CASE Answer(r, 500)
      BY <3>2, Moves
    <3> QED BY <1>7, <3>1, <3>2 DEF Read
  <2>2. [loaded EXCEPT ![r][t] = db[t]] \in [Request -> Config]
    BY DEF Config
  <2>3. loaded' \in [Request -> Config]
    BY <1>7, <2>2 DEF Read
  <2>4. UNCHANGED <<tables, main, todo, program, history>>
    BY <1>7 DEF Read
  <2> QED BY <2>1, <2>3, <2>4
<1>8. ASSUME NEW r \in Request, Validate(r) PROVE TypeOK'
  <2>1. pc' \in [Request -> Label] /\ answer' \in [Request -> {0, 200, 500}]
    <3>1. CASE Goto(r, "replace") /\ UNCHANGED answer
      BY <1>0, <3>1, Moves
    <3>2. CASE Answer(r, 500)
      BY <3>2, Moves
    <3> QED BY <1>8, <3>1, <3>2 DEF Validate
  <2> QED BY <1>8, <2>1 DEF Validate
<1>9. ASSUME NEW r \in Request, ReplaceState(r) PROVE TypeOK'
  <2>1. pc' \in [Request -> Label]
    BY <1>0, <1>9, Moves DEF ReplaceState
  <2>2. running' \in Config
    <3>1. loaded[r] \in Config
      OBVIOUS
    <3>2. running' = loaded[r]
      BY <1>9 DEF ReplaceState
    <3> QED BY <3>1, <3>2
  <2> QED BY <1>9, <2>1, <2>2 DEF ReplaceState
<1>10. ASSUME NEW r \in Request, ApplyLogLevel(r) PROVE TypeOK'
  <2>1. pc' \in [Request -> Label] /\ answer' \in [Request -> {0, 200, 500}]
    BY <1>10, Moves DEF ApplyLogLevel
  <2>2. loaded[r]["features"] \in Version
    BY DEF Config, Table
  <2> QED BY <1>10, <2>1, <2>2 DEF ApplyLogLevel
<1>11. CASE UNCHANGED vars
  BY <1>11 DEF vars
<1>12. ASSUME NEW r \in Request, LoadUpstreams(r) \/ LoadProfiles(r) \/ LoadFeatures(r)
       PROVE  TypeOK'
  BY <1>0, <1>7, <1>12 DEF LoadUpstreams, LoadProfiles, LoadFeatures, Table
<1> QED BY <1>1, <1>2, <1>3, <1>4, <1>5, <1>6, <1>8, <1>9, <1>10, <1>11, <1>12 DEF Next

-----------------------------------------------------------------------------
(* Steps of a request *)

\* An answer of 500 leaves everything else as it was.
Fails(r) ==
  /\ pc[r] \in {"save"} \union Reading
  /\ Answer(r, 500)
  /\ UNCHANGED <<tables, main, todo, program, loaded, history>>

Commits(r) ==
  /\ pc[r] = "save"
  /\ db' = All(r) /\ keys' = Feature
  /\ commits' = Append(commits, r)
  /\ Goto(r, "upstreams")
  /\ UNCHANGED <<main, todo, program, loaded, answer, overlap>>

Reads(r, t, next) ==
  /\ pc[r] = t
  /\ loaded' = [loaded EXCEPT ![r][t] = db[t]]
  /\ Goto(r, next)
  /\ UNCHANGED <<tables, main, todo, program, answer, history>>

Passes(r) ==
  /\ pc[r] = "validate"
  /\ Goto(r, "replace")
  /\ UNCHANGED <<tables, main, todo, program, loaded, answer, history>>

LEMMA Cases ==
  ASSUME [Next]_vars
  PROVE  \/ Start \/ (\E k \in Feature : SeedFeature(k)) \/ Up \/ Crash
         \/ UNCHANGED vars
         \/ \E r \in Request :
              \/ Begin(r) \/ Commits(r) \/ Fails(r)
              \/ Reads(r, "upstreams", "profiles") \/ Reads(r, "profiles", "features")
              \/ Reads(r, "features", "validate")
              \/ Passes(r) \/ ReplaceState(r) \/ ApplyLogLevel(r)
<1> USE DEF tables, program, request, history
<1>1. ASSUME NEW r \in Request, Save(r) PROVE Commits(r) \/ Fails(r)
  BY <1>1 DEF Save, Commits, Fails
<1>2. ASSUME NEW r \in Request, NEW t \in Table, NEW next, Read(r, t, next)
      PROVE  Reads(r, t, next) \/ Fails(r)
  BY <1>2 DEF Read, Reads, Fails, Table, Reading
<1>3. ASSUME NEW r \in Request, Validate(r) PROVE Passes(r) \/ Fails(r)
  BY <1>3 DEF Validate, Passes, Fails, Reading
<1>4. {"upstreams", "profiles", "features"} \subseteq Table
  BY DEF Table
<1> QED BY <1>1, <1>2, <1>3, <1>4 DEF Next, LoadUpstreams, LoadProfiles, LoadFeatures

LEMMA Moved ==
  ASSUME TypeOK, NEW r \in Request, NEW label, Goto(r, label)
  PROVE  \A s \in Request : pc'[s] = IF s = r THEN label ELSE pc[s]
BY DEF TypeOK, Goto

LEMMA Answered ==
  ASSUME TypeOK, NEW r \in Request, NEW status, Answer(r, status)
  PROVE  /\ \A s \in Request : pc'[s] = IF s = r THEN "answered" ELSE pc[s]
         /\ \A s \in Request : answer'[s] = IF s = r THEN status ELSE answer[s]
BY DEF TypeOK, Goto, Answer

LEMMA Crashed ==
  ASSUME TypeOK, Crash
  PROVE  \A s \in Request : pc'[s] = IF UnderWay(s) THEN "lost" ELSE pc[s]
BY DEF Crash

-----------------------------------------------------------------------------
(* The course of a request *)

LEMMA CourseStep == IInv /\ [Next]_vars => CourseInv'
<1> SUFFICES ASSUME IInv, [Next]_vars PROVE CourseInv'
  OBVIOUS
<1> USE DEF tables, program, request, history
<1>0. TypeOK /\ CourseInv
  BY DEF IInv
<1>a. commits' = commits => \A s : Committed(s)' <=> Committed(s)
  BY DEF Committed
<1>b. ASSUME UNCHANGED <<commits, pc, answer>>, main' # "seed" => todo' = {},
             main' = main \/ main # "up"
      PROVE  CourseInv'
  BY <1>0, <1>a, <1>b DEF CourseInv, CourseOf, UnderWay
<1>c. ASSUME NEW r \in Request, UNCHANGED <<commits, main, todo>>, UnderWay(r),
             NEW label \in Reading \union {"answered"}, answer' # answer => label = "answered",
             \A s \in Request : pc'[s] = IF s = r THEN label ELSE pc[s],
             \A s \in Request : s # r => answer'[s] = answer[s],
             label \in Reading \/ answer'[r] = 200 => Committed(r)
      PROVE  CourseInv'
  <2>1. answer[r] = 0
    BY <1>0, <1>c DEF CourseInv, CourseOf, UnderWay
  <2>2. answer'[r] # 0 => label = "answered"
    BY <1>c, <2>1
  <2>3. \A s \in Request : UnderWay(s)' => UnderWay(s)
    BY <1>c DEF UnderWay
  <2>4. CourseOf(r)'
    BY <1>0, <1>a, <1>c, <2>2, <2>3 DEF CourseInv, CourseOf, Reading
  <2>5. ASSUME NEW s \in Request, s # r PROVE CourseOf(s)'
    BY <1>0, <1>a, <1>c, <2>3, <2>5 DEF CourseInv, CourseOf
  <2> QED BY <1>0, <1>c, <2>4, <2>5 DEF CourseInv
<1>1. CASE Start
  BY <1>0, <1>1, <1>b DEF Start, CourseInv
<1>2. ASSUME NEW k \in Feature, SeedFeature(k) PROVE CourseInv'
  BY <1>0, <1>2, <1>b DEF SeedFeature, CourseInv
<1>3. CASE Up
  BY <1>0, <1>3, <1>b DEF Up, CourseInv
<1>4. CASE Crash
  <2>1. \A s \in Request : ~UnderWay(s)'
    BY <1>0, <1>4, Crashed DEF UnderWay
  <2> QED BY <1>0, <1>4, <1>a, <2>1, Crashed, ZenonT(30) DEF Crash, CourseInv, CourseOf, UnderWay, Reading
<1>5. CASE UNCHANGED vars
  BY <1>0, <1>5, <1>b DEF vars, CourseInv
<1>6. ASSUME NEW r \in Request, Begin(r) PROVE CourseInv'
  <2>1. \A s \in Request : pc'[s] = IF s = r THEN "save" ELSE pc[s]
    BY <1>0, <1>6, Moved DEF Begin
  <2>2. CourseOf(r)'
    BY <1>0, <1>6, <1>a, <2>1 DEF Begin, CourseInv, CourseOf, Reading
  <2>3. ASSUME NEW s \in Request, s # r PROVE CourseOf(s)'
    BY <1>0, <1>6, <1>a, <2>1, <2>3 DEF Begin, CourseInv, CourseOf, UnderWay
  <2> QED BY <1>0, <1>6, <2>2, <2>3 DEF Begin, CourseInv
<1>7. ASSUME NEW r \in Request, Commits(r) PROVE CourseInv'
  <2>1. \A s \in Request : pc'[s] = IF s = r THEN "upstreams" ELSE pc[s]
    BY <1>0, <1>7, Moved DEF Commits
  <2>2. \A s \in Request : Committed(s)' <=> s = r \/ Committed(s)
    <3>1. commits \in Seq(Request) /\ commits' = Append(commits, r)
      BY <1>0, <1>7 DEF TypeOK, Commits
    <3> QED BY <3>1 DEF Committed
  <2>3. CourseOf(r)'
    BY <1>0, <1>7, <2>1, <2>2 DEF Commits, CourseInv, CourseOf, UnderWay
  <2>4. ASSUME NEW s \in Request, s # r PROVE CourseOf(s)'
    BY <1>0, <1>7, <2>1, <2>2, <2>4 DEF Commits, CourseInv, CourseOf, UnderWay
  <2> QED BY <1>0, <1>7, <2>3, <2>4 DEF Commits, CourseInv
<1>8. ASSUME NEW r \in Request, Fails(r) PROVE CourseInv'
  <2>1. UnderWay(r)
    BY <1>8 DEF Fails, UnderWay, Reading
  <2>2. UNCHANGED <<commits, main, todo>> /\ Answer(r, 500)
    BY <1>8 DEF Fails
  <2>3. /\ \A s \in Request : pc'[s] = IF s = r THEN "answered" ELSE pc[s]
        /\ \A s \in Request : answer'[s] = IF s = r THEN 500 ELSE answer[s]
    BY <1>0, <2>2, Answered
  <2>4. "answered" \notin Reading /\ answer'[r] # 200
    BY <2>3 DEF Reading
  <2> QED BY <2>1, <2>2, <2>3, <2>4, <1>c
<1>9. ASSUME NEW r \in Request, NEW t \in Table, NEW next \in Reading, Reads(r, t, next)
      PROVE  CourseInv'
  <2>1. \A s \in Request : pc'[s] = IF s = r THEN next ELSE pc[s]
    BY <1>0, <1>9, Moved DEF Reads
  <2>2. UnderWay(r) /\ Committed(r)
    BY <1>0, <1>9 DEF Reads, Table, Reading, UnderWay, CourseInv, CourseOf
  <2> QED BY <1>9, <2>1, <2>2, <1>c DEF Reads
<1>10. ASSUME NEW r \in Request, Passes(r) PROVE CourseInv'
  <2>1. \A s \in Request : pc'[s] = IF s = r THEN "replace" ELSE pc[s]
    BY <1>0, <1>10, Moved DEF Passes
  <2>2. UnderWay(r) /\ Committed(r) /\ "replace" \in Reading
    BY <1>0, <1>10 DEF Passes, Reading, UnderWay, CourseInv, CourseOf
  <2> QED BY <1>10, <2>1, <2>2, <1>c DEF Passes
<1>11. ASSUME NEW r \in Request, ReplaceState(r) PROVE CourseInv'
  <2>1. \A s \in Request : pc'[s] = IF s = r THEN "log level" ELSE pc[s]
    BY <1>0, <1>11, Moved DEF ReplaceState
  <2>2. UnderWay(r) /\ Committed(r) /\ "log level" \in Reading
    BY <1>0, <1>11 DEF ReplaceState, Reading, UnderWay, CourseInv, CourseOf
  <2> QED BY <1>11, <2>1, <2>2, <1>c DEF ReplaceState
<1>12. ASSUME NEW r \in Request, ApplyLogLevel(r) PROVE CourseInv'
  <2>1. UnderWay(r) /\ Committed(r)
    BY <1>0, <1>12 DEF ApplyLogLevel, Reading, UnderWay, CourseInv, CourseOf
  <2>2. UNCHANGED <<commits, main, todo>> /\ Answer(r, 200)
    BY <1>12 DEF ApplyLogLevel
  <2>3. /\ \A s \in Request : pc'[s] = IF s = r THEN "answered" ELSE pc[s]
        /\ \A s \in Request : answer'[s] = IF s = r THEN 200 ELSE answer[s]
    BY <1>0, <2>2, Answered
  <2> QED BY <2>1, <2>2, <2>3, <1>c
<1> QED BY <1>1, <1>2, <1>3, <1>4, <1>5, <1>6, <1>7, <1>8, <1>9, <1>10, <1>11, <1>12, Cases
        DEF Table, Reading

-----------------------------------------------------------------------------
(* The tables *)

LEMMA TablesStep == IInv /\ [Next]_vars => TablesInv'
<1> SUFFICES ASSUME IInv, [Next]_vars PROVE TablesInv'
  OBVIOUS
<1> USE DEF tables, program, request, history
<1>0. TypeOK /\ CourseInv /\ TablesInv
  BY DEF IInv
<1> USE DEF TablesInv
<1>a. ASSUME UNCHANGED <<tables, commits>>, todo' \in {todo, {}} PROVE TablesInv'
  BY <1>0, <1>a DEF TablesInv
<1>1. CASE Start
  <2>1. UNCHANGED <<tables, commits>>
    BY <1>1 DEF Start
  <2>2. commits # <<>> => todo' = {}
    BY <1>0, <1>1, VersionAssumption DEF Start
  <2> QED BY <1>0, <2>1, <2>2
<1>2. ASSUME NEW k \in Feature, SeedFeature(k) PROVE TablesInv'
  <2>1. commits = <<>> /\ commits' = commits
    BY <1>0, <1>2 DEF SeedFeature
  <2>2. db' = All(Default)
    BY <1>0, <1>2, <2>1 DEF SeedFeature, All
  <2> QED BY <1>0, <2>1, <2>2
<1>3. ASSUME NEW r \in Request, Commits(r) PROVE TablesInv'
  <2>1. commits \in Seq(Request) /\ Once(commits)
    BY <1>0 DEF TypeOK, Once
  <2>2. \A i \in 1..Len(commits) : commits[i] # r
    BY <1>0, <1>3 DEF CourseInv, CourseOf, Committed, Commits
  <2>3. Once(commits')
    BY <1>3, <2>1, <2>2, AgeAppend DEF Commits
  <2>4. commits' # <<>> /\ Last(commits') = r
    BY <1>3, <2>1 DEF Commits, Last
  <2>5. todo' = {}
    BY <1>0, <1>3 DEF Commits, CourseInv, CourseOf, UnderWay
  <2> QED BY <1>3, <2>3, <2>4, <2>5 DEF Commits, Once
<1>4. ASSUME NEW r \in Request,
             \/ Begin(r) \/ Fails(r)
             \/ Reads(r, "upstreams", "profiles") \/ Reads(r, "profiles", "features")
             \/ Reads(r, "features", "validate")
             \/ Passes(r) \/ ReplaceState(r) \/ ApplyLogLevel(r)
      PROVE  TablesInv'
  BY <1>a, <1>4 DEF Begin, Fails, Reads, Passes, ReplaceState, ApplyLogLevel
<1>5. CASE Up \/ Crash \/ UNCHANGED vars
  BY <1>a, <1>5 DEF Up, Crash, vars
<1> QED BY <1>1, <1>2, <1>3, <1>4, <1>5, Cases

-----------------------------------------------------------------------------
(* What is loaded *)

LEMMA KnownAges ==
  ASSUME TypeOK, TablesInv
  PROVE  /\ \A v : Known(v) => Age(v) \in Nat
         /\ \A t \in Table : Known(db[t])
         /\ \A t \in Table : \A v : Known(v) => Age(v) <= Age(db[t])
<1>1. commits \in Seq(Request) /\ Once(commits)
  BY DEF TypeOK, TablesInv, Once
<1>2. \A v : Known(v) => Age(v) \in 0..Len(commits)
  BY <1>1, AgeRange DEF Known, Committed, Age
<1>3. CASE commits = <<>>
  <2>1. \A t \in Table : db[t] = Default
    BY <1>3 DEF TablesInv, All
  <2>2. \A v : Known(v) => v = Default
    BY <1>3 DEF Known, Committed
  <2>3. Known(Default)
    BY DEF Known
  <2> QED BY <1>2, <2>1, <2>2, <2>3
<1>4. CASE commits # <<>>
  <2>1. Len(commits) \in 1..Len(commits)
    BY <1>1, <1>4
  <2>2. \A t \in Table : db[t] = commits[Len(commits)]
    BY <1>4 DEF TablesInv, All, Last
  <2>3. Age(commits[Len(commits)]) = Len(commits)
    BY <1>1, <2>1, AgeAt DEF Age
  <2>4. Known(commits[Len(commits)])
    BY <2>1 DEF Known, Committed
  <2>5. Len(commits) \in Nat
    BY <1>1
  <2> QED BY <1>2, <2>2, <2>3, <2>4, <2>5
<1> QED BY <1>3, <1>4

LEMMA LoadedFrame ==
  ASSUME LoadedInv, commits' = commits, NEW r \in Request, loaded'[r] = loaded[r],
         \A t \in Table : HasRead(r, t)' => HasRead(r, t)
  PROVE  LoadedBy(r)'
<1>1. \A v : (Known(v)' <=> Known(v)) /\ Age(v)' = Age(v)
  BY DEF Known, Committed, Age
<1>2. commits' = commits
  OBVIOUS
<1> QED BY <1>2 DEF LoadedInv, LoadedBy, TornOneWay, Age, Known, Committed, Table

LEMMA ReadEffect ==
  ASSUME TypeOK, CourseInv, NEW r \in Request, NEW t \in Table, NEW next, Reads(r, t, next)
  PROVE  /\ \A s \in Request : pc'[s] = IF s = r THEN next ELSE pc[s]
         /\ \A s \in Request : s # r => loaded'[s] = loaded[s]
         /\ \A u \in Table : loaded'[r][u] = IF u = t THEN db[t] ELSE loaded[r][u]
         /\ pc[r] = t /\ Committed(r) /\ answer[r] = 0
         /\ UNCHANGED <<tables, main, todo, program, answer, history>>
<1>1. \A s \in Request : pc'[s] = IF s = r THEN next ELSE pc[s]
  BY Moved DEF Reads
<1>2. loaded \in [Request -> Config] /\ loaded' = [loaded EXCEPT ![r][t] = db[t]]
  BY DEF TypeOK, Reads
<1>3. \A s \in Request : s # r => loaded'[s] = loaded[s]
  BY <1>2
<1>4. \A u \in Table : loaded'[r][u] = IF u = t THEN db[t] ELSE loaded[r][u]
  BY <1>2 DEF Config
<1>5. pc[r] = t /\ Committed(r) /\ answer[r] = 0
  BY DEF Reads, CourseInv, CourseOf, Reading, Table
<1>6. UNCHANGED <<tables, main, todo, program, answer, history>>
  BY DEF Reads
<1> QED BY <1>1, <1>3, <1>4, <1>5, <1>6

LEMMA ReadFrame ==
  ASSUME TypeOK, CourseInv, LoadedInv, NEW r \in Request, NEW t \in Table, NEW next,
         Reads(r, t, next), LoadedBy(r)'
  PROVE  LoadedInv'
<1>1. /\ \A s \in Request : pc'[s] = IF s = r THEN next ELSE pc[s]
      /\ \A s \in Request : s # r => loaded'[s] = loaded[s]
      /\ UNCHANGED <<commits, running, answer>>
  BY ReadEffect DEF program, history
<1>2. ASSUME NEW s \in Request, s # r PROVE LoadedBy(s)'
  <2>1. \A u \in Table : HasRead(s, u)' => HasRead(s, u)
    BY <1>1, <1>2 DEF HasRead
  <2> QED BY <1>1, <1>2, <2>1, LoadedFrame
<1> QED BY <1>1, <1>2 DEF LoadedInv, TornOneWay, Age, Known, Committed

LEMMA LoadedStep == IInv /\ [Next]_vars => LoadedInv'
<1> SUFFICES ASSUME IInv, [Next]_vars PROVE LoadedInv'
  OBVIOUS
<1> USE DEF tables, program, request, history
<1>0. TypeOK /\ CourseInv /\ TablesInv /\ LoadedInv
  BY DEF IInv
<1>a. ASSUME UNCHANGED <<commits, running>>, \A r \in Request : LoadedBy(r)'
      PROVE  LoadedInv'
  BY <1>0, <1>a DEF LoadedInv, TornOneWay, Age, Known, Committed
<1>1. CASE Start
  BY <1>0, <1>1, <1>a, LoadedFrame DEF Start, HasRead
<1>2. ASSUME NEW k \in Feature, SeedFeature(k) PROVE LoadedInv'
  BY <1>0, <1>2, <1>a, LoadedFrame DEF SeedFeature, HasRead
<1>3. CASE Up
  <2>1. \A t \in Table : Known(running[t])'
    BY <1>0, <1>3, KnownAges DEF Up, Known, Committed
  <2>2. TornOneWay(running)'
    BY <1>0, <1>3, KnownAges DEF Up, TornOneWay, Age, Table
  <2>3. \A r \in Request : LoadedBy(r)'
    BY <1>0, <1>3, LoadedFrame DEF Up, HasRead
  <2> QED BY <2>1, <2>2, <2>3 DEF LoadedInv
<1>4. CASE Crash
  <2>1. \A r \in Request, t \in Table : HasRead(r, t)' => HasRead(r, t)
    BY <1>0, <1>4, Crashed DEF Crash, HasRead, Reading
  <2> QED BY <1>0, <1>4, <1>a, <2>1, LoadedFrame DEF Crash
<1>5. CASE UNCHANGED vars
  BY <1>0, <1>5, <1>a, LoadedFrame DEF vars, HasRead
<1>6. ASSUME NEW r \in Request, Begin(r) PROVE LoadedInv'
  <2>1. \A s \in Request, t \in Table : HasRead(s, t)' => HasRead(s, t)
    <3>1. \A s \in Request : pc'[s] = IF s = r THEN "save" ELSE pc[s]
      BY <1>0, <1>6, Moved DEF Begin
    <3>2. pc[r] = "new" /\ answer' = answer
      BY <1>6 DEF Begin
    <3> QED BY <3>1, <3>2 DEF HasRead, Reading
  <2> QED BY <1>0, <1>6, <1>a, <2>1, LoadedFrame DEF Begin
<1>7. ASSUME NEW r \in Request, Fails(r) PROVE LoadedInv'
  <2>1. \A s \in Request, t \in Table : HasRead(s, t)' => HasRead(s, t)
    <3>1. Answer(r, 500)
      BY <1>7 DEF Fails
    <3>2. /\ \A s \in Request : pc'[s] = IF s = r THEN "answered" ELSE pc[s]
          /\ \A s \in Request : answer'[s] = IF s = r THEN 500 ELSE answer[s]
      BY <1>0, <3>1, Answered
    <3>3. ASSUME NEW s \in Request, NEW t \in Table, HasRead(s, t)' PROVE HasRead(s, t)
      <4>1. pc'[r] = "answered" /\ answer'[r] = 500
        BY <3>2
      <4>2. ~HasRead(r, t)'
        BY <4>1 DEF HasRead, Reading
      <4>3. s # r
        BY <3>3, <4>2
      <4> QED BY <3>2, <3>3, <4>3 DEF HasRead
    <3> QED BY <3>3
  <2> QED BY <1>0, <1>7, <1>a, <2>1, LoadedFrame DEF Fails
<1>8. ASSUME NEW r \in Request, Passes(r) PROVE LoadedInv'
  <2>1. \A s \in Request, t \in Table : HasRead(s, t)' => HasRead(s, t)
    <3>1. \A s \in Request : pc'[s] = IF s = r THEN "replace" ELSE pc[s]
      BY <1>0, <1>8, Moved DEF Passes
    <3>2. pc[r] = "validate" /\ answer' = answer
      BY <1>8 DEF Passes
    <3> QED BY <3>1, <3>2 DEF HasRead, Reading
  <2> QED BY <1>0, <1>8, <1>a, <2>1, LoadedFrame DEF Passes
<1>9. ASSUME NEW r \in Request, ApplyLogLevel(r) PROVE LoadedInv'
  <2>1. \A s \in Request, t \in Table : HasRead(s, t)' => HasRead(s, t)
    <3>1. pc[r] = "log level" /\ Answer(r, 200)
      BY <1>9 DEF ApplyLogLevel
    <3>2. /\ \A s \in Request : pc'[s] = IF s = r THEN "answered" ELSE pc[s]
          /\ \A s \in Request : answer'[s] = IF s = r THEN 200 ELSE answer[s]
      BY <1>0, <3>1, Answered
    <3> QED BY <3>1, <3>2 DEF HasRead, Reading
  <2> QED BY <1>0, <1>9, <1>a, <2>1, LoadedFrame DEF ApplyLogLevel
<1>10. ASSUME NEW r \in Request, ReplaceState(r) PROVE LoadedInv'
  <2>1. \A s \in Request, t \in Table : HasRead(s, t)' => HasRead(s, t)
    <3>1. \A s \in Request : pc'[s] = IF s = r THEN "log level" ELSE pc[s]
      BY <1>0, <1>10, Moved DEF ReplaceState
    <3>2. pc[r] = "replace" /\ answer' = answer
      BY <1>10 DEF ReplaceState
    <3> QED BY <3>1, <3>2 DEF HasRead, Reading
  <2>2. \A s \in Request : LoadedBy(s)'
    BY <1>0, <1>10, <2>1, LoadedFrame DEF ReplaceState
  <2>3. running' = loaded[r] /\ commits' = commits
    BY <1>10 DEF ReplaceState
  <2>4. TornOneWay(loaded[r]) /\ \A t \in Table : Known(loaded[r][t])
    BY <1>0, <1>10 DEF ReplaceState, LoadedInv, LoadedBy, HasRead
  <2> QED BY <2>2, <2>3, <2>4 DEF LoadedInv, TornOneWay, Age, Known, Committed
<1>11. ASSUME NEW r \in Request, Commits(r) PROVE LoadedInv'
  <2>1. commits \in Seq(Request) /\ Once(commits) /\ commits' = Append(commits, r)
    BY <1>0, <1>11 DEF TypeOK, TablesInv, Once, Commits
  <2>2. \A i \in 1..Len(commits) : commits[i] # r
    BY <1>0, <1>11 DEF CourseInv, CourseOf, Committed, Commits
  <2>3. \A v : Known(v) => Age(v)' = Age(v)
    BY <2>1, <2>2, AgeAppend DEF Known, Committed, Age
  <2>4. \A v : Known(v) => Known(v)'
    BY <2>1 DEF Known, Committed
  <2>5. UNCHANGED <<running, loaded, answer>>
    BY <1>11 DEF Commits
  <2>6. \A s \in Request : pc'[s] = IF s = r THEN "upstreams" ELSE pc[s]
    BY <1>0, <1>11, Moved DEF Commits
  <2>7. \A s \in Request, t \in Table : HasRead(s, t)' => HasRead(s, t) /\ Known(s)
    <3>1. answer[r] = 0
      BY <1>0, <1>11 DEF Commits, CourseInv, CourseOf
    <3>2. \A t \in Table : ~HasRead(r, t)'
      <4>1. pc'[r] = "upstreams" /\ answer'[r] = 0
        BY <2>5, <2>6, <3>1
      <4> QED BY <4>1 DEF HasRead, Reading
    <3>3. ASSUME NEW s \in Request, s # r, NEW t \in Table, HasRead(s, t)'
          PROVE  HasRead(s, t)
      BY <2>5, <2>6, <3>3 DEF HasRead
    <3>4. \A s \in Request, t \in Table : HasRead(s, t) => Committed(s)
      BY <1>0 DEF HasRead, Reading, CourseInv, CourseOf
    <3> QED BY <3>2, <3>3, <3>4 DEF Known
  <2>8. \A t \in Table : Known(running[t]) /\ \A s \in Request : Known(loaded[s][t])
    BY <1>0 DEF LoadedInv, LoadedBy
  <2>9. ASSUME NEW s \in Request PROVE LoadedBy(s)'
    <3>1. \A t \in Table : Known(loaded[s][t])'
      BY <2>4, <2>5, <2>8 DEF Known, Committed
    <3>2. \A t \in Table : HasRead(s, t)' => Age(loaded[s][t])' >= Age(s)'
      BY <1>0, <2>3, <2>5, <2>7, <2>8 DEF Age, LoadedInv, LoadedBy
    <3>3. HasRead(s, "profiles")' =>
            Age(loaded[s]["upstreams"])' <= Age(loaded[s]["profiles"])'
      BY <1>0, <2>3, <2>5, <2>7, <2>8 DEF Age, LoadedInv, LoadedBy, Table
    <3>4. HasRead(s, "features")' => TornOneWay(loaded[s])'
      BY <1>0, <2>3, <2>5, <2>7, <2>8 DEF Age, LoadedInv, LoadedBy, Table, TornOneWay
    <3> QED BY <3>1, <3>2, <3>3, <3>4 DEF LoadedBy
  <2>10. \A t \in Table : Known(running[t])'
    BY <2>4, <2>5, <2>8 DEF Known, Committed
  <2>11. TornOneWay(running)'
    BY <1>0, <2>3, <2>5, <2>8 DEF LoadedInv, TornOneWay, Age, Table
  <2> QED BY <2>9, <2>10, <2>11 DEF LoadedInv
<1>12. ASSUME NEW r \in Request, Reads(r, "upstreams", "profiles") PROVE LoadedInv'
  <2>1. "upstreams" \in Table
    BY DEF Table
  <2> DEFINE mine == loaded[r]
             read == loaded'[r]
  <2>2. /\ pc[r] = "upstreams" /\ pc'[r] = "profiles" /\ answer[r] = 0 /\ answer'[r] = 0
        /\ \A u \in Table : read[u] = IF u = "upstreams" THEN db["upstreams"] ELSE mine[u]
        /\ Committed(r) /\ commits' = commits
    BY <1>0, <1>12, <2>1, ReadEffect
  <2>3. /\ \A v : Known(v) => Age(v) \in Nat /\ Age(v) <= Age(db["upstreams"])
        /\ Known(db["upstreams"]) /\ Known(r)
    BY <1>0, <2>1, <2>2, KnownAges DEF Known
  <2>4. LoadedBy(r)
    BY <1>0 DEF LoadedInv
  <2>5. \A u \in Table : Known(read[u])
    BY <2>2, <2>3, <2>4 DEF LoadedBy
  <2>6. \A u \in Table : HasRead(r, u)' => Age(read[u]) >= Age(r)
    <3>1. \A u \in Table : HasRead(r, u)' => u = "upstreams" \/ HasRead(r, u)
      BY <2>2 DEF HasRead, Reading, Table
    <3> QED BY <2>2, <2>3, <2>4, <3>1 DEF LoadedBy
  <2>7. HasRead(r, "profiles")' => Age(read["upstreams"]) <= Age(read["profiles"])
    BY <2>2, <2>3, <2>4 DEF LoadedBy, HasRead, Reading, Table
  <2>8. HasRead(r, "features")' => TornOneWay(read)
    BY <2>2, <2>3, <2>4 DEF LoadedBy, HasRead, Reading, Table, TornOneWay
  <2>9. LoadedBy(r)'
    BY <2>2, <2>5, <2>6, <2>7, <2>8 DEF LoadedBy, TornOneWay, Age, Known, Committed
  <2> QED BY <1>0, <1>12, <2>1, <2>9, ReadFrame
<1>13. ASSUME NEW r \in Request, Reads(r, "profiles", "features") PROVE LoadedInv'
  <2>1. "profiles" \in Table
    BY DEF Table
  <2> DEFINE mine == loaded[r]
             read == loaded'[r]
  <2>2. /\ pc[r] = "profiles" /\ pc'[r] = "features" /\ answer[r] = 0 /\ answer'[r] = 0
        /\ \A u \in Table : read[u] = IF u = "profiles" THEN db["profiles"] ELSE mine[u]
        /\ Committed(r) /\ commits' = commits
    BY <1>0, <1>13, <2>1, ReadEffect
  <2>3. /\ \A v : Known(v) => Age(v) \in Nat /\ Age(v) <= Age(db["profiles"])
        /\ Known(db["profiles"]) /\ Known(r)
    BY <1>0, <2>1, <2>2, KnownAges DEF Known
  <2>4. LoadedBy(r)
    BY <1>0 DEF LoadedInv
  <2>5. \A u \in Table : Known(read[u])
    BY <2>2, <2>3, <2>4 DEF LoadedBy
  <2>6. \A u \in Table : HasRead(r, u)' => Age(read[u]) >= Age(r)
    <3>1. \A u \in Table : HasRead(r, u)' => u = "profiles" \/ HasRead(r, u)
      BY <2>2 DEF HasRead, Reading, Table
    <3> QED BY <2>2, <2>3, <2>4, <3>1 DEF LoadedBy
  <2>7. HasRead(r, "profiles")' => Age(read["upstreams"]) <= Age(read["profiles"])
    BY <2>2, <2>3, <2>4 DEF LoadedBy, HasRead, Reading, Table
  <2>8. HasRead(r, "features")' => TornOneWay(read)
    BY <2>2, <2>3, <2>4 DEF LoadedBy, HasRead, Reading, Table, TornOneWay
  <2>9. LoadedBy(r)'
    BY <2>2, <2>5, <2>6, <2>7, <2>8 DEF LoadedBy, TornOneWay, Age, Known, Committed
  <2> QED BY <1>0, <1>13, <2>1, <2>9, ReadFrame
<1>14. ASSUME NEW r \in Request, Reads(r, "features", "validate") PROVE LoadedInv'
  <2>1. "features" \in Table
    BY DEF Table
  <2> DEFINE mine == loaded[r]
             read == loaded'[r]
  <2>2. /\ pc[r] = "features" /\ pc'[r] = "validate" /\ answer[r] = 0 /\ answer'[r] = 0
        /\ \A u \in Table : read[u] = IF u = "features" THEN db["features"] ELSE mine[u]
        /\ Committed(r) /\ commits' = commits
    BY <1>0, <1>14, <2>1, ReadEffect
  <2>3. /\ \A v : Known(v) => Age(v) \in Nat /\ Age(v) <= Age(db["features"])
        /\ Known(db["features"]) /\ Known(r)
    BY <1>0, <2>1, <2>2, KnownAges DEF Known
  <2>4. LoadedBy(r)
    BY <1>0 DEF LoadedInv
  <2>5. \A u \in Table : Known(read[u])
    BY <2>2, <2>3, <2>4 DEF LoadedBy
  <2>6. \A u \in Table : HasRead(r, u)' => Age(read[u]) >= Age(r)
    <3>1. \A u \in Table : HasRead(r, u)' => u = "features" \/ HasRead(r, u)
      BY <2>2 DEF HasRead, Reading, Table
    <3> QED BY <2>2, <2>3, <2>4, <3>1 DEF LoadedBy
  <2>7. HasRead(r, "profiles")' => Age(read["upstreams"]) <= Age(read["profiles"])
    BY <2>2, <2>3, <2>4 DEF LoadedBy, HasRead, Reading, Table
  <2>8. HasRead(r, "features")' => TornOneWay(read)
    BY <2>2, <2>3, <2>4 DEF LoadedBy, HasRead, Reading, Table, TornOneWay
  <2>9. LoadedBy(r)'
    BY <2>2, <2>5, <2>6, <2>7, <2>8 DEF LoadedBy, TornOneWay, Age, Known, Committed
  <2> QED BY <1>0, <1>14, <2>1, <2>9, ReadFrame
<1> QED BY <1>1, <1>2, <1>3, <1>4, <1>5, <1>6, <1>7, <1>8, <1>9, <1>10, <1>11, <1>12, <1>13,
           <1>14, Cases

-----------------------------------------------------------------------------
(* Requests that do not overlap *)

LEMMA LastCommit ==
  ASSUME TypeOK, TablesInv, commits # <<>>
  PROVE  /\ Last(commits) \in Request
         /\ \A t \in Table : db[t] = Last(commits)
BY DEF TypeOK, TablesInv, All, Last

LEMMA AloneFrame ==
  ASSUME IInv, ~overlap, UNCHANGED <<commits, running>>,
         NEW r \in Request, loaded'[r] = loaded[r], answer'[r] = answer[r],
         \/ pc'[r] = pc[r]
         \/ pc'[r] \notin Reading
         \/ pc[r] = "validate" /\ pc'[r] = "replace"
  PROVE  SavedLast(r)'
<1>1. SavedLast(r)
  BY DEF IInv, AloneInv
<1>2. CASE pc'[r] = pc[r]
  <2>1. \A t \in Table : HasRead(r, t)' <=> HasRead(r, t)
    BY <1>2 DEF HasRead
  <2> QED BY <1>1, <1>2, <2>1 DEF SavedLast, Last
<1>3. CASE pc'[r] \notin Reading
  BY <1>3 DEF SavedLast
<1>4. CASE pc[r] = "validate" /\ pc'[r] = "replace"
  <2>1. \A t \in Table : HasRead(r, t)
    BY <1>4 DEF HasRead
  <2> QED BY <1>1, <1>4, <2>1 DEF SavedLast, Reading, Last
<1> QED BY <1>2, <1>3, <1>4

LEMMA AloneStep == IInv /\ [Next]_vars => AloneInv'
<1> SUFFICES ASSUME IInv, [Next]_vars, ~overlap' PROVE AloneInv'
  BY DEF AloneInv
<1> USE DEF tables, program, request, history
<1>0. ~overlap
  BY Cases DEF Start, SeedFeature, Up, Crash, Begin, Commits, Fails, Reads, Passes,
               ReplaceState, ApplyLogLevel, vars
<1>b. /\ TypeOK /\ CourseInv /\ TablesInv
      /\ \A r, s \in Request : UnderWay(r) /\ UnderWay(s) => r = s
      /\ \A r \in Request : SavedLast(r)
      /\ Settled
  BY <1>0 DEF IInv, AloneInv
<1>a. ASSUME UNCHANGED <<commits, running, pc, loaded, answer>>, Settled'
      PROVE  AloneInv'
  <2>1. \A r \in Request : SavedLast(r)'
    BY <1>0, <1>a, AloneFrame
  <2> QED BY <1>a, <1>b, <2>1 DEF AloneInv, UnderWay
<1>1. CASE Start
  <2>1. Settled'
    BY <1>1 DEF Start, Settled
  <2> QED BY <1>1, <1>a, <2>1 DEF Start
<1>2. ASSUME NEW k \in Feature, SeedFeature(k) PROVE AloneInv'
  <2>1. Settled'
    BY <1>2 DEF SeedFeature, Settled
  <2>2. \A r \in Request : SavedLast(r)'
    BY <1>0, <1>2, AloneFrame DEF SeedFeature
  <2> QED BY <1>2, <1>a, <2>1 DEF SeedFeature
<1>3. CASE Up
  <2>1. Settled'
    BY <1>3 DEF Up, Settled
  <2>2. \A r \in Request : ~UnderWay(r)
    BY <1>3, <1>b DEF Up, CourseInv, CourseOf
  <2>3. \A r \in Request : SavedLast(r)'
    BY <1>3, <2>2 DEF Up, SavedLast, UnderWay, Reading
  <2> QED BY <1>3, <2>1, <2>2, <2>3 DEF Up, AloneInv, UnderWay
<1>4. CASE Crash
  <2>1. Settled'
    BY <1>4 DEF Crash, Settled
  <2>2. \A r \in Request : ~UnderWay(r)'
    BY <1>4, <1>b, Crashed DEF UnderWay
  <2>3. \A r \in Request : SavedLast(r)'
    BY <2>2 DEF SavedLast, UnderWay, Reading
  <2> QED BY <2>1, <2>2, <2>3 DEF AloneInv
<1>5. CASE UNCHANGED vars
  BY <1>5, <1>a, <1>b DEF vars, Settled, Last
<1>6. ASSUME NEW r \in Request, Begin(r) PROVE AloneInv'
  <2>1. \A s \in Request : pc'[s] = IF s = r THEN "save" ELSE pc[s]
    BY <1>6, <1>b, Moved DEF Begin
  <2>2. \A s \in Request : ~UnderWay(s)
    BY <1>6 DEF Begin
  <2>3. Settled'
    BY <1>6, <1>b DEF Begin, Settled, Last
  <2>4. \A s \in Request : SavedLast(s)'
    BY <1>0, <1>6, <2>1, AloneFrame DEF Begin, Reading
  <2> QED BY <2>1, <2>2, <2>3, <2>4 DEF AloneInv, UnderWay
<1>c. ASSUME NEW r \in Request, UnderWay(r), \A s \in Request : s # r => pc'[s] = pc[s],
             SavedLast(r)', Settled'
      PROVE  AloneInv'
  <2>1. \A s \in Request : s # r => ~UnderWay(s) /\ ~UnderWay(s)'
    BY <1>b, <1>c DEF UnderWay
  <2>2. \A s \in Request : SavedLast(s)'
    BY <1>c, <2>1 DEF SavedLast, UnderWay, Reading
  <2> QED BY <1>c, <2>1, <2>2 DEF AloneInv
<1>d. ASSUME NEW r \in Request, pc[r] \in Reading
      PROVE  /\ UnderWay(r) /\ answer[r] = 0
             /\ commits # <<>> /\ Last(commits) = r /\ \A t \in Table : db[t] = r
  BY <1>b, <1>d, LastCommit, ZenonT(30) DEF SavedLast, CourseInv, CourseOf, UnderWay, Reading
<1>7. ASSUME NEW r \in Request, Commits(r) PROVE AloneInv'
  <2>1. /\ \A s \in Request : pc'[s] = IF s = r THEN "upstreams" ELSE pc[s]
        /\ pc[r] = "save" /\ answer' = answer
    BY <1>7, <1>b, Moved DEF Commits
  <2>2. UnderWay(r) /\ answer[r] = 0
    BY <1>b, <2>1 DEF CourseInv, CourseOf, UnderWay
  <2>3. commits' # <<>> /\ Last(commits') = r
    <3>1. commits \in Seq(Request) /\ commits' = Append(commits, r)
      BY <1>7, <1>b DEF TypeOK, Commits
    <3> QED BY <3>1 DEF Last
  <2>4. Settled'
    BY <2>1, <2>2, <2>3 DEF Settled, Last
  <2>5. SavedLast(r)'
    <3>1. pc'[r] = "upstreams" /\ answer'[r] = 0
      BY <2>1, <2>2
    <3>2. \A t \in Table : ~HasRead(r, t)'
      BY <3>1 DEF HasRead, Reading
    <3> QED BY <2>3, <3>1, <3>2 DEF SavedLast, Last
  <2> QED BY <1>c, <2>1, <2>2, <2>4, <2>5
<1>8. ASSUME NEW r \in Request, Fails(r) PROVE AloneInv'
  <2>1. /\ Answer(r, 500) /\ UnderWay(r)
        /\ UNCHANGED <<tables, main, program, commits>>
    BY <1>8 DEF Fails, UnderWay, Reading
  <2>2. /\ \A s \in Request : pc'[s] = IF s = r THEN "answered" ELSE pc[s]
        /\ \A s \in Request : answer'[s] = IF s = r THEN 500 ELSE answer[s]
    BY <1>b, <2>1, Answered
  <2>3. Settled'
    <3>1. commits # <<>> => Last(commits) \in Request
      BY <1>b, LastCommit
    <3> QED BY <1>b, <2>1, <2>2, <3>1 DEF Settled, Last
  <2>4. SavedLast(r)'
    BY <2>2 DEF SavedLast, Reading
  <2> QED BY <1>c, <2>1, <2>2, <2>3, <2>4
<1>9. ASSUME NEW r \in Request, NEW t \in Table, NEW next,
             Reads(r, t, next), next # "log level",
             \A u \in Table : HasRead(r, u)' => u = t \/ HasRead(r, u)
      PROVE  AloneInv'
  <2>1. /\ \A s \in Request : pc'[s] = IF s = r THEN next ELSE pc[s]
        /\ \A u \in Table : loaded'[r][u] = IF u = t THEN db[t] ELSE loaded[r][u]
        /\ pc[r] = t
        /\ UNCHANGED <<tables, main, program, answer, commits>>
    <3>1. Reads(r, t, next) /\ TypeOK /\ CourseInv
      BY <1>9, <1>b
    <3>2. UNCHANGED <<tables, main, program, answer, commits>>
      BY <3>1 DEF Reads
    <3> QED BY <3>1, <3>2, ReadEffect
  <2>2. pc[r] \in Reading
    BY <2>1 DEF Table, Reading
  <2>3. Settled'
    BY <1>b, <2>1 DEF Settled, Last
  <2>4. SavedLast(r)'
    <3>1. \A u \in Table : HasRead(r, u)' => loaded'[r][u] = r
      BY <1>9, <1>b, <1>d, <2>1, <2>2 DEF SavedLast
    <3>2. pc'[r] # "log level"
      BY <1>9, <2>1
    <3> QED BY <1>d, <2>1, <2>2, <3>1, <3>2 DEF SavedLast, Last
  <2> QED BY <1>c, <1>d, <2>1, <2>2, <2>3, <2>4
<1>10. ASSUME NEW r \in Request, Passes(r) PROVE AloneInv'
  <2>1. /\ \A s \in Request : pc'[s] = IF s = r THEN "replace" ELSE pc[s]
        /\ pc[r] = "validate" /\ pc[r] \in Reading
        /\ UNCHANGED <<tables, main, program, loaded, answer, commits>>
    BY <1>10, <1>b, Moved DEF Passes, Reading
  <2>2. Settled'
    BY <1>b, <2>1 DEF Settled, Last
  <2>3. SavedLast(r)'
    BY <1>0, <2>1, AloneFrame
  <2> QED BY <1>c, <1>d, <2>1, <2>2, <2>3
<1>11. ASSUME NEW r \in Request, ReplaceState(r) PROVE AloneInv'
  <2>1. /\ \A s \in Request : pc'[s] = IF s = r THEN "log level" ELSE pc[s]
        /\ pc[r] = "replace" /\ pc[r] \in Reading
        /\ running' = loaded[r]
        /\ UNCHANGED <<loaded, answer, commits>>
    BY <1>11, <1>b, Moved DEF ReplaceState, Reading
  <2>2. \A t \in Table : loaded[r][t] = r
    BY <1>b, <2>1 DEF SavedLast, HasRead
  <2>3. loaded[r] = All(r)
    <3>1. loaded[r] \in Config
      BY <1>b DEF TypeOK
    <3> QED BY <2>2, <3>1 DEF Config, All
  <2>4. Settled'
    <3>1. answer[r] = 0 /\ Last(commits) = r
      BY <1>d, <2>1
    <3>2. answer'[Last(commits')] = 0
      BY <2>1, <3>1
    <3> QED BY <3>2 DEF Settled
  <2>5. SavedLast(r)'
    BY <1>d, <2>1, <2>2, <2>3 DEF SavedLast, Last, All
  <2> QED BY <1>c, <1>d, <2>1, <2>4, <2>5
<1>12. ASSUME NEW r \in Request, ApplyLogLevel(r) PROVE AloneInv'
  <2>1. /\ pc[r] = "log level" /\ pc[r] \in Reading /\ Answer(r, 200)
        /\ logLevel' = loaded[r]["features"]
        /\ UNCHANGED <<tables, main, running, loaded, commits>>
    BY <1>12 DEF ApplyLogLevel, Reading
  <2>2. \A s \in Request : pc'[s] = IF s = r THEN "answered" ELSE pc[s]
    BY <1>b, <2>1, Answered
  <2>3. running = db /\ loaded[r]["features"] = db["features"]
    <3>1. running = All(r) /\ db = All(r)
      BY <1>b, <1>d, <2>1 DEF SavedLast, TablesInv
    <3>2. "features" \in Table
      BY DEF Table
    <3>3. loaded[r]["features"] = r
      BY <1>b, <2>1, <3>2 DEF SavedLast, HasRead
    <3> QED BY <1>d, <2>1, <3>1, <3>2, <3>3
  <2>4. Settled'
    BY <2>1, <2>3 DEF Settled
  <2>5. SavedLast(r)'
    BY <2>2 DEF SavedLast, Reading
  <2> QED BY <1>c, <1>d, <2>1, <2>2, <2>4, <2>5
<1>13. ASSUME NEW r \in Request,
              \/ Reads(r, "upstreams", "profiles") \/ Reads(r, "profiles", "features")
              \/ Reads(r, "features", "validate")
       PROVE  AloneInv'
  <2>1. "upstreams" \in Table /\ "profiles" \in Table /\ "features" \in Table
    BY DEF Table
  <2>2. CASE Reads(r, "upstreams", "profiles")
    <3>1. pc'[r] = "profiles" /\ answer'[r] = 0
      BY <1>b, <2>1, <2>2, ReadEffect
    <3>2. \A u \in Table : HasRead(r, u)' => u = "upstreams"
      BY <3>1 DEF HasRead, Table
    <3> QED BY <1>9, <2>1, <2>2, <3>2
  <2>3. CASE Reads(r, "profiles", "features")
    <3>1. pc[r] = "profiles" /\ pc'[r] = "features" /\ answer'[r] = 0
      BY <1>b, <2>1, <2>3, ReadEffect
    <3>2. \A u \in Table : HasRead(r, u)' => u = "profiles" \/ HasRead(r, u)
      BY <3>1 DEF HasRead, Reading
    <3> QED BY <1>9, <2>1, <2>3, <3>2
  <2>4. CASE Reads(r, "features", "validate")
    <3>1. pc[r] = "features" /\ pc'[r] = "validate" /\ answer'[r] = 0
      BY <1>b, <2>1, <2>4, ReadEffect
    <3>2. \A u \in Table : HasRead(r, u)' => u = "features" \/ HasRead(r, u)
      BY <3>1 DEF HasRead, Reading, Table
    <3> QED BY <1>9, <2>1, <2>4, <3>2
  <2> QED BY <1>13, <2>2, <2>3, <2>4
<1> QED BY <1>1, <1>2, <1>3, <1>4, <1>5, <1>6, <1>7, <1>8, <1>10, <1>11, <1>12, <1>13, Cases

-----------------------------------------------------------------------------
(* The theorems *)

LEMMA Inductive == Spec => []IInv
<1>1. IInv /\ [Next]_vars => IInv'
  BY TypeStep, CourseStep, TablesStep, LoadedStep, AloneStep DEF IInv
<1> QED BY <1>1, InitIInv, PTL DEF Spec

\* However saves, reloads, failures, crashes and starts interleave, a reload gives each
\* table as its request saved it or as it was saved later, and what runs is torn one way.
THEOREM OwnSaveSeen == Spec => []ReloadSeesOwnSave
<1>1. IInv => ReloadSeesOwnSave
  <2> SUFFICES ASSUME IInv PROVE ReloadSeesOwnSave
    OBVIOUS
  <2>1. TypeOK /\ TornOneWay(running)
    BY DEF IInv, LoadedInv
  <2>2. ASSUME NEW r \in Request,
               pc[r] \in {"validate", "replace", "log level"} \/ answer[r] = 200,
               NEW t \in Table
        PROVE  Age(loaded[r][t]) >= Age(r)
    <3>1. HasRead(r, t)
      BY <2>2 DEF HasRead
    <3> QED BY <3>1 DEF IInv, LoadedInv, LoadedBy
  <2>3. \A r \in Request : pc[r] \in {"validate", "replace", "log level"} \/ answer[r] = 200 =>
          \A t \in Table : Age(loaded[r][t]) >= Age(r)
    BY <2>2
  <2> QED BY <2>1, <2>3 DEF ReloadSeesOwnSave
<1> QED BY <1>1, Inductive, PTL

\* Requests that do not overlap leave running what the tables hold.
THEOREM AppliedWhenAlone == Spec => []AppliedAlone
<1>1. IInv => AppliedAlone
  BY DEF IInv, AloneInv, Settled, AppliedAlone
<1> QED BY <1>1, Inductive, PTL

\* Once a configuration was saved, the tables change by saves only: no start of the
\* program puts a default in its place.
THEOREM SavedKept == Spec => RestartKeepsSaved
<1>1. IInv /\ [Next]_vars => [commits # <<>> /\ commits' = commits => UNCHANGED tables]_vars
  <2> SUFFICES ASSUME IInv, [Next]_vars, commits # <<>>, commits' = commits
               PROVE  UNCHANGED tables
    OBVIOUS
  <2> USE DEF program, request, history
  <2>1. commits \in Seq(Request) /\ todo = {}
    BY DEF IInv, TypeOK, TablesInv
  <2>2. ASSUME NEW r \in Request PROVE ~Commits(r)
    BY <2>1 DEF Commits
  <2> QED BY <2>1, <2>2, Cases
          DEF Start, SeedFeature, Up, Crash, Begin, Fails, Reads, Passes, ReplaceState,
              ApplyLogLevel, vars
<1> QED BY <1>1, Inductive, PTL DEF Spec, RestartKeepsSaved
==============================================================================
