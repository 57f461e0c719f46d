------------------------- MODULE Persistence_proofs -------------------------
(***************************************************************************)
(* Proofs about what the program keeps outside its memory: the admin       *)
(* sessions of the database, and the log in its files.                     *)
(*                                                                         *)
(* AdminSessions, for any requests and passwords, over any failures and    *)
(* crashes: its types, that an ended session admits nobody, that nothing   *)
(* else ends one, and that the API is not turned off.                      *)
(*                                                                         *)
(* LogStore, for any sizes of records, buffer and file and any number of   *)
(* backups: that what the files and the buffer hold is the end of what     *)
(* Write taken, that a file keeps to its size while the bufio.Writer    *)
(* does not write by itself, that follow sends what is added to the file,  *)
(* and that List returns its last records, and whole ones.                 *)
(***************************************************************************)
EXTENDS AdminSessions, LogStore, FiniteSetTheorems, WellFoundedInduction, SequenceTheorems, TLAPS

-----------------------------------------------------------------------------
(* The admin sessions *)

\* A request's operation goes with the statement it is at, and its answer is its last word.
OpInv ==
  \A r \in Request :
    /\ pc[r] = "touch" => req[r].op # "login"
    /\ pc[r] = "delete" => req[r].op = "logout"
    /\ pc[r] \in {"set", "delete all"} => req[r].op = "password" /\ req[r].new \in Password
    /\ pc[r] \notin {"new", "answered", "lost"} => req[r].new \in Password
    /\ answer[r] # 0 => pc[r] = "answered"

\* Tokens of sessions were handed out, each by a request that is over, and had no end.
SessionInv ==
  /\ sessions \subseteq issued \ ended
  /\ \A t \in issued : pc[t] = "answered"

\* What had ended when a request arrived was purged before the request looks for its session.
BeforeInv ==
  \A r \in Request :
    /\ before[r] \subseteq ended \union expired
    /\ pc[r] = "touch" => sessions \intersect before[r] = {}

\* Behind RequireSession a password is in force, and the one SaveAppConfig has read is, too,
\* if there is none in the environment.
AvailableInv ==
  \A r \in Request :
    /\ Admitted(r) \/ (pc[r] \in {"purge", "touch"} /\ req[r].op # "login") =>
         InForce # NoPassword
    /\ pc[r] = "commit" => req[r].read # NoPassword \/ env # NoPassword

\* What SessionsKept adds to the types.
KeptInv ==
  \A t \in issued \ expired :
    \/ t \in sessions
    \/ \E r \in Request :
         /\ answer[r] = 200
         /\ req[r].op = "password" \/ (req[r].op = "logout" /\ req[r].cookie = t)

IInv ==
  /\ TypeOK
  /\ OpInv
  /\ SessionInv
  /\ BeforeInv
  /\ AvailableInv
  /\ EndedSessionsNotAdmitted
  /\ KeptInv

\* Steps of one request.
StepOf(r) ==
  \/ Begin(r)
  \/ VerifyLogin(r) \/ DeleteExpired(r) \/ CreateSession(r)
  \/ PasswordSource(r) \/ Touch(r) \/ Show(r)
  \/ DeleteSession(r)
  \/ VerifyCurrent(r) \/ SetHash(r) \/ DeleteAll(r)
  \/ ReadHash(r) \/ CommitConfig(r)
  \/ Fails(r)

-----------------------------------------------------------------------------
(* Types, with their sets named so that the provers need not look into them *)

Label == {"new", "verify", "purge", "create", "source", "touch", "show",
          "delete", "set", "delete all", "read", "commit", "answered", "lost"}
Status == {0, 200, 401, 500, 503}
Hash == Password \union {NoPassword}
Asked == [op : Op, cookie : Request \union {NoToken}, given : Hash, new : Hash, read : Hash]

Types ==
  /\ env \in Hash /\ hash \in Hash
  /\ sessions \subseteq Request /\ expired \subseteq issued
  /\ pc \in [Request -> Label] /\ req \in [Request -> Asked] /\ answer \in [Request -> Status]
  /\ issued \subseteq Request /\ ended \subseteq issued
  /\ before \in [Request -> SUBSET Request]

LEMMA TypesAre == TypeOK <=> Types
BY DEF TypeOK, Types, Label, Status, Hash, Asked

LEMMA TypesAreNext == TypeOK' <=> Types'
BY DEF TypeOK, Types, Label, Status, Hash, Asked

LEMMA Names ==
  /\ "verify" \in Label /\ "purge" \in Label /\ "create" \in Label /\ "source" \in Label
  /\ "touch" \in Label /\ "show" \in Label /\ "delete" \in Label /\ "set" \in Label
  /\ "delete all" \in Label /\ "read" \in Label /\ "commit" \in Label /\ "answered" \in Label
  /\ 200 \in Status /\ 401 \in Status /\ 500 \in Status /\ 503 \in Status
BY DEF Label, Status

LEMMA HandlerType ==
  ASSUME Types, OpInv, NEW r \in Request, pc[r] = "touch"
  PROVE  Handler(req[r].op) \in {"delete", "verify", "read", "show"} \intersect Label
<1>1. req[r].op \in Op /\ req[r].op # "login"
  BY DEF Types, Asked, OpInv
<1> QED
  BY <1>1, Names DEF Op, Handler

\* A step of a request leaves it somewhere, and the others where they are.
LEMMA Places ==
  ASSUME Types, OpInv, NEW r \in Request, StepOf(r)
  PROVE  /\ pc' \in [Request -> Label] /\ answer' \in [Request -> Status]
         /\ pc[r] \notin {"answered", "lost"}
         /\ \A q \in Request \ {r} : pc'[q] = pc[q] /\ answer'[q] = answer[q]
<1>1. \/ \E status \in Status : Answer(r, status)
      \/ answer' = answer /\ \E label \in Label : Goto(r, label)
  <2>1. CASE Begin(r)
    BY <2>1, Names DEF Begin, history
  <2>2. CASE VerifyLogin(r)
    BY <2>2, Names, ZenonT(30) DEF VerifyLogin, history
  <2>3. CASE DeleteExpired(r)
    BY <2>3, Names DEF DeleteExpired, history
  <2>4. CASE CreateSession(r)
    BY <2>4, Names DEF CreateSession, history
  <2>5. CASE PasswordSource(r)
    BY <2>5, Names, ZenonT(30) DEF PasswordSource, history
  <2>6. CASE Touch(r)
    BY <2>6, Names, HandlerType DEF Touch, history
  <2>7. CASE Show(r)
    BY <2>7, Names DEF Show, history
  <2>8. CASE DeleteSession(r)
    BY <2>8, Names DEF DeleteSession, history
  <2>9. CASE VerifyCurrent(r)
    BY <2>9, Names, ZenonT(30) DEF VerifyCurrent, history
  <2>10. CASE SetHash(r)
    BY <2>10, Names DEF SetHash, history
  <2>11. CASE DeleteAll(r)
    BY <2>11, Names DEF DeleteAll, history
  <2>12. CASE ReadHash(r)
    BY <2>12, Names DEF ReadHash, history
  <2>13. CASE CommitConfig(r)
    BY <2>13, Names DEF CommitConfig, history
  <2>14. CASE Fails(r)
    BY <2>14, Names DEF Fails, history
  <2> QED
    BY <2>1, <2>2, <2>3, <2>4, <2>5, <2>6, <2>7, <2>8, <2>9, <2>10, <2>11, <2>12, <2>13, <2>14 DEF StepOf
<1>2. ASSUME NEW label \in Label, Goto(r, label), answer' = answer
      PROVE  /\ pc' \in [Request -> Label] /\ answer' \in [Request -> Status]
             /\ \A q \in Request \ {r} : pc'[q] = pc[q] /\ answer'[q] = answer[q]
  BY <1>2 DEF Types, Goto
<1>3. ASSUME NEW status \in Status, Answer(r, status)
      PROVE  /\ pc' \in [Request -> Label] /\ answer' \in [Request -> Status]
             /\ \A q \in Request \ {r} : pc'[q] = pc[q] /\ answer'[q] = answer[q]
  BY <1>3, Names DEF Types, Goto, Answer
<1>4. pc[r] \notin {"answered", "lost"}
  BY DEF StepOf, Begin, VerifyLogin, DeleteExpired, CreateSession, PasswordSource, Touch, Show, DeleteSession, VerifyCurrent, SetHash, DeleteAll, ReadHash, CommitConfig, Fails
<1> QED
  BY <1>1, <1>2, <1>3, <1>4

\* What is handed out or ended stays so, and what others asked for.
LEMMA Asking ==
  ASSUME Types, NEW r \in Request, StepOf(r)
  PROVE  /\ req' \in [Request -> Asked] /\ before' \in [Request -> SUBSET Request]
         /\ \A q \in Request \ {r} : req'[q] = req[q] /\ before'[q] = before[q]
         /\ pc[r] # "new" => /\ before' = before
                             /\ \A field \in {"op", "cookie", "new"} : req'[r][field] = req[r][field]
<1>1. CASE Begin(r)
  <2>1. PICK op \in Op, cookie \in issued \union {NoToken}, given, new \in Password :
          /\ op = "login" => cookie = NoToken
          /\ op \notin {"login", "password"} => given = new
          /\ req' = [req EXCEPT ![r].op = op, ![r].cookie = cookie,
                                ![r].given = given, ![r].new = new]
          /\ Goto(r, IF op = "login" THEN "verify" ELSE "source")
    BY <1>1, Zenon DEF Begin
  <2>2. req' \in [Request -> Asked] /\ \A q \in Request \ {r} : req'[q] = req[q]
    <3> DEFINE asked == [req[r] EXCEPT !.op = op, !.cookie = cookie, !.given = given, !.new = new]
    <3>1. req' = [req EXCEPT ![r] = asked]
      BY <2>1 DEF Types
    <3>2. asked \in Asked
      <4>1. req[r] \in Asked
        BY DEF Types
      <4>2. given \in Hash /\ new \in Hash /\ cookie \in Request \union {NoToken}
        BY DEF Types, Hash
      <4> QED
        BY <4>1, <4>2 DEF Asked
    <3> QED
      BY <3>1, <3>2 DEF Types
  <2>3. before' = [before EXCEPT ![r] = ended \union expired] /\ pc[r] = "new"
    BY <1>1 DEF Begin
  <2>4. ended \union expired \subseteq Request
    BY DEF Types
  <2> QED
    BY <2>2, <2>3, <2>4 DEF Types
<1>2. CASE ReadHash(r)
  <2>1. req' = [req EXCEPT ![r].read = hash] /\ before' = before
    BY <1>2 DEF ReadHash, history
  <2> QED
    BY <2>1 DEF Types, Asked
<1>3. CASE ~Begin(r) /\ ~ReadHash(r)
  <2>1. req' = req /\ before' = before
    BY <1>3 DEF StepOf, history, VerifyLogin, DeleteExpired, CreateSession, PasswordSource, Touch, Show, DeleteSession, VerifyCurrent, SetHash, DeleteAll, CommitConfig, Fails
  <2> QED
    BY <2>1 DEF Types
<1> QED
  BY <1>1, <1>2, <1>3

\* What a request is after it began.
LEMMA Beginning ==
  ASSUME Types, NEW r \in Request, Begin(r)
  PROVE  /\ pc[r] = "new" /\ answer' = answer
         /\ pc'[r] = IF req'[r].op = "login" THEN "verify" ELSE "source"
         /\ req'[r].new \in Password
         /\ before'[r] = ended \union expired
<1>1. PICK op \in Op, cookie \in issued \union {NoToken}, given, new \in Password :
        /\ op = "login" => cookie = NoToken
        /\ op \notin {"login", "password"} => given = new
        /\ req' = [req EXCEPT ![r].op = op, ![r].cookie = cookie,
                              ![r].given = given, ![r].new = new]
        /\ Goto(r, IF op = "login" THEN "verify" ELSE "source")
  BY Zenon DEF Begin
<1>2. req[r] \in Asked
  BY DEF Types
<1>3. req'[r] = [req[r] EXCEPT !.op = op, !.cookie = cookie, !.given = given, !.new = new]
  BY <1>1 DEF Types
<1>4. req'[r].op = op /\ req'[r].new = new
  BY <1>2, <1>3 DEF Asked
<1> QED
  BY <1>1, <1>4 DEF Begin, Goto, Types

\* The tables and the tokens.
LEMMA Tables ==
  ASSUME Types, OpInv, EndedSessionsNotAdmitted, NEW r \in Request, StepOf(r)
  PROVE  /\ env' = env /\ expired' = expired /\ hash' \in Hash
         /\ sessions' \subseteq Request
         /\ issued \subseteq issued' /\ issued' \subseteq Request
         /\ ended \subseteq ended' /\ ended' \subseteq issued'
<1>1. CASE Begin(r)
  BY <1>1 DEF Types, Asked, Begin, tables, history
<1>2. CASE VerifyLogin(r)
  BY <1>2 DEF Types, Asked, VerifyLogin, tables, history
<1>3. CASE DeleteExpired(r)
  BY <1>3 DEF Types, Asked, DeleteExpired, tables, history
<1>4. CASE CreateSession(r)
  BY <1>4 DEF Types, Asked, CreateSession, tables, history
<1>5. CASE PasswordSource(r)
  BY <1>5 DEF Types, Asked, PasswordSource, tables, history
<1>6. CASE Touch(r)
  BY <1>6 DEF Types, Asked, Touch, tables, history
<1>7. CASE Show(r)
  BY <1>7 DEF Types, Asked, Show, tables, history
<1>8. CASE DeleteSession(r)
  BY <1>8 DEF Types, Asked, DeleteSession, tables, history, EndedSessionsNotAdmitted, Admitted
<1>9. CASE VerifyCurrent(r)
  BY <1>9 DEF Types, Asked, VerifyCurrent, tables, history
<1>10. CASE SetHash(r)
  BY <1>10 DEF Types, Asked, SetHash, tables, history
<1>11. CASE DeleteAll(r)
  BY <1>11 DEF Types, Asked, DeleteAll, tables, history
<1>12. CASE ReadHash(r)
  BY <1>12 DEF Types, Asked, ReadHash, tables, history
<1>13. CASE CommitConfig(r)
  BY <1>13 DEF Types, Asked, CommitConfig, tables, history
<1>14. CASE Fails(r)
  BY <1>14 DEF Types, Asked, Fails, tables, history
<1> QED
  BY <1>1, <1>2, <1>3, <1>4, <1>5, <1>6, <1>7, <1>8, <1>9, <1>10, <1>11, <1>12, <1>13, <1>14 DEF StepOf

-----------------------------------------------------------------------------
(* One lemma per conjunct of the invariant *)

LEMMA TypesStep ==
  ASSUME IInv, NEW r \in Request, StepOf(r)
  PROVE  TypeOK'
<1>1. Types /\ OpInv /\ EndedSessionsNotAdmitted
  BY TypesAre DEF IInv
<1>2. Types'
  BY <1>1, Places, Asking, Tables DEF Types
<1> QED
  BY <1>2, TypesAreNext

LEMMA OpStep ==
  ASSUME IInv, NEW r \in Request, StepOf(r)
  PROVE  OpInv'
<1>1. Types /\ OpInv
  BY TypesAre DEF IInv
<1> DEFINE Fits(q) ==
             /\ pc[q] = "touch" => req[q].op # "login"
             /\ pc[q] = "delete" => req[q].op = "logout"
             /\ pc[q] \in {"set", "delete all"} => req[q].op = "password" /\ req[q].new \in Password
             /\ pc[q] \notin {"new", "answered", "lost"} => req[q].new \in Password
             /\ answer[q] # 0 => pc[q] = "answered"
<1>2. ASSUME NEW q \in Request \ {r}
      PROVE  Fits(q)'
  <2>1. pc'[q] = pc[q] /\ answer'[q] = answer[q] /\ req'[q] = req[q]
    BY <1>1, Places, Asking
  <2>2. Fits(q)
    BY <1>1 DEF OpInv
  <2> QED
    BY <2>1, <2>2
<1>3. Fits(r)'
  <2>1. CASE Begin(r)
    <3>1. answer'[r] = answer[r] /\ pc[r] = "new"
      BY <1>1, <2>1, Beginning
    <3>2. answer[r] = 0
      BY <1>1, <3>1 DEF OpInv
    <3> QED
      BY <1>1, <2>1, <3>1, <3>2, Beginning
  <2>2. CASE VerifyLogin(r)
    BY <1>1, <2>2 DEF OpInv, Types, Asked, VerifyLogin, Answer, Goto, history
  <2>3. CASE DeleteExpired(r)
    BY <1>1, <2>3 DEF OpInv, Types, Asked, DeleteExpired, Answer, Goto, history
  <2>4. CASE CreateSession(r)
    BY <1>1, <2>4 DEF OpInv, Types, Asked, CreateSession, Answer, Goto, history
  <2>5. CASE PasswordSource(r)
    BY <1>1, <2>5 DEF OpInv, Types, Asked, PasswordSource, Answer, Goto, history
  <2>6. CASE Touch(r)
    <3>1. req'[r] = req[r] /\ req[r].new \in Password /\ req[r].op # "login" /\ answer[r] = 0
      BY <1>1, <2>6 DEF OpInv, Touch
    <3>2. \/ pc'[r] = Handler(req[r].op) /\ answer'[r] = answer[r]
          \/ pc'[r] = "answered"
      BY <1>1, <2>6 DEF Touch, Goto, Answer, Types
    <3>3. req[r].op \in Op
      BY <1>1 DEF Types, Asked
    <3> QED
      BY <3>1, <3>2, <3>3 DEF Handler, Op
  <2>7. CASE Show(r)
    BY <1>1, <2>7 DEF OpInv, Types, Asked, Show, Answer, Goto, history
  <2>8. CASE DeleteSession(r)
    BY <1>1, <2>8 DEF OpInv, Types, Asked, DeleteSession, Answer, Goto, history
  <2>9. CASE VerifyCurrent(r)
    BY <1>1, <2>9 DEF OpInv, Types, Asked, VerifyCurrent, Answer, Goto, history
  <2>10. CASE SetHash(r)
    BY <1>1, <2>10 DEF OpInv, Types, Asked, SetHash, Answer, Goto, history
  <2>11. CASE DeleteAll(r)
    BY <1>1, <2>11 DEF OpInv, Types, Asked, DeleteAll, Answer, Goto, history
  <2>12. CASE ReadHash(r)
    BY <1>1, <2>12 DEF OpInv, Types, Asked, ReadHash, Answer, Goto, history
  <2>13. CASE CommitConfig(r)
    BY <1>1, <2>13 DEF OpInv, Types, Asked, CommitConfig, Answer, Goto, history
  <2>14. CASE Fails(r)
    BY <1>1, <2>14 DEF OpInv, Types, Asked, Fails, Answer, Goto, history
  <2> QED
    BY <2>1, <2>2, <2>3, <2>4, <2>5, <2>6, <2>7, <2>8, <2>9, <2>10, <2>11, <2>12, <2>13, <2>14 DEF StepOf
<1> QED
  BY <1>2, <1>3 DEF OpInv

LEMMA SessionStep ==
  ASSUME IInv, NEW r \in Request, StepOf(r)
  PROVE  SessionInv'
<1>1. Types /\ OpInv /\ SessionInv
  BY TypesAre DEF IInv
<1>2. r \notin issued
  BY <1>1, Places DEF SessionInv
<1>3. \A t \in issued : pc'[t] = "answered"
  BY <1>1, <1>2, Places DEF SessionInv, Types
<1>4. CASE CreateSession(r)
  BY <1>1, <1>2, <1>3, <1>4 DEF SessionInv, Types, CreateSession, Answer, Goto
<1>5. CASE DeleteSession(r) \/ DeleteAll(r)
  BY <1>1, <1>3, <1>5 DEF SessionInv, DeleteSession, DeleteAll
<1>6. CASE ~CreateSession(r) /\ ~DeleteSession(r) /\ ~DeleteAll(r)
  <2>1. sessions' \subseteq sessions /\ issued' = issued /\ ended' = ended
    BY <1>6 DEF StepOf, tables, history, Begin, VerifyLogin, DeleteExpired, PasswordSource, Touch, Show, VerifyCurrent, SetHash, ReadHash, CommitConfig, Fails
  <2> QED
    BY <1>1, <1>3, <2>1 DEF SessionInv
<1> QED
  BY <1>4, <1>5, <1>6

LEMMA BeforeStep ==
  ASSUME IInv, NEW r \in Request, StepOf(r)
  PROVE  BeforeInv'
<1>1. Types /\ OpInv /\ SessionInv /\ BeforeInv /\ EndedSessionsNotAdmitted
  BY TypesAre DEF IInv
<1>2. ended \subseteq ended' /\ expired' = expired
  BY <1>1, Tables
<1>3. \A t \in sessions' : t \in sessions \/ t \notin issued
  <2>1. sessions' \subseteq sessions \/ sessions' = sessions \union {r}
    BY DEF StepOf, tables, Begin, VerifyLogin, DeleteExpired, CreateSession, PasswordSource, Touch, Show, DeleteSession, VerifyCurrent, SetHash, DeleteAll, ReadHash, CommitConfig, Fails
  <2> QED
    BY <1>1, <2>1, Places DEF SessionInv
<1>4. ASSUME NEW q \in Request \ {r}
      PROVE  /\ before'[q] \subseteq ended' \union expired'
             /\ pc'[q] = "touch" => sessions' \intersect before'[q] = {}
  <2>1. before'[q] = before[q] /\ pc'[q] = pc[q]
    BY <1>1, Places, Asking
  <2>2. before[q] \subseteq issued
    BY <1>1 DEF BeforeInv, Types
  <2> QED
    BY <1>1, <1>2, <1>3, <2>1, <2>2 DEF BeforeInv
<1>5. /\ before'[r] \subseteq ended' \union expired'
      /\ pc'[r] = "touch" => sessions' \intersect before'[r] = {}
  <2>1. CASE Begin(r)
    BY <1>1, <1>2, <2>1 DEF Types, Begin, Goto
  <2>2. CASE DeleteExpired(r)
    BY <1>1, <2>2 DEF Types, DeleteExpired, Goto, BeforeInv, SessionInv, history
  <2>3. CASE ~Begin(r) /\ ~DeleteExpired(r)
    <3>1. before'[r] = before[r]
      BY <2>3 DEF StepOf, history, VerifyLogin, CreateSession, PasswordSource, Touch, Show, DeleteSession, VerifyCurrent, SetHash, DeleteAll, ReadHash, CommitConfig, Fails
    <3>2. pc'[r] # "touch"
      <4>1. \/ \E status \in Status : Answer(r, status)
            \/ Touch(r)
            \/ \E label \in Label \ {"touch"} : Goto(r, label)
        <5>1. CASE VerifyLogin(r) \/ PasswordSource(r) \/ VerifyCurrent(r) \/ SetHash(r) \/ ReadHash(r)
          <6>1. {"purge", "set", "delete all", "commit"} \subseteq Label \ {"touch"}
            BY Names DEF Label
          <6>2. \/ \E status \in Status : Answer(r, status)
                \/ \E label \in {"purge", "set", "delete all", "commit"} : Goto(r, label)
            BY <5>1, Names, ZenonT(40) DEF VerifyLogin, PasswordSource, VerifyCurrent, SetHash, ReadHash
          <6> QED BY <6>1, <6>2
        <5>2. CASE CreateSession(r) \/ Show(r) \/ DeleteSession(r) \/ DeleteAll(r) \/ CommitConfig(r) \/ Fails(r)
          BY <5>2, Names DEF CreateSession, Show, DeleteSession, DeleteAll, CommitConfig, Fails
        <5> QED BY <2>3, <5>1, <5>2 DEF StepOf
      <4>2. CASE Touch(r)
        BY <1>1, <4>2, HandlerType DEF Touch, Types, Goto, Answer
      <4> QED
        BY <1>1, <4>1, <4>2 DEF Types, Goto, Answer
    <3> QED
      BY <1>1, <1>2, <3>1, <3>2 DEF BeforeInv
  <2> QED
    BY <2>1, <2>2, <2>3
<1> QED
  BY <1>4, <1>5 DEF BeforeInv

\* A password that is in force is replaced by another.
LEMMA StaysInForce ==
  ASSUME Types, OpInv, AvailableInv, NEW r \in Request, StepOf(r), InForce # NoPassword
  PROVE  InForce' # NoPassword
<1>1. CASE SetHash(r)
  <2>1. hash' = req[r].new /\ req[r].new \in Password
    BY <1>1 DEF SetHash, OpInv
  <2> QED
    BY <2>1, PasswordAssumption DEF InForce
<1>2. CASE CommitConfig(r)
  <2>1. hash' = req[r].read /\ env' = env
    BY <1>2 DEF CommitConfig
  <2>2. req[r].read # NoPassword \/ env # NoPassword
    BY <1>2 DEF CommitConfig, AvailableInv
  <2> QED
    BY <2>1, <2>2 DEF InForce
<1>3. CASE ~SetHash(r) /\ ~CommitConfig(r)
  <2>1. hash' = hash /\ env' = env
    BY <1>3 DEF StepOf, tables, Begin, VerifyLogin, DeleteExpired, CreateSession, PasswordSource, Touch, Show, DeleteSession, VerifyCurrent, DeleteAll, ReadHash, Fails
  <2> QED
    BY <2>1 DEF InForce
<1> QED
  BY <1>1, <1>2, <1>3

LEMMA AvailableStep ==
  ASSUME IInv, NEW r \in Request, StepOf(r)
  PROVE  AvailableInv'
<1>1. Types /\ OpInv /\ AvailableInv
  BY TypesAre DEF IInv
<1> DEFINE Inside(q) == Admitted(q) \/ (pc[q] \in {"purge", "touch"} /\ req[q].op # "login")
           Read(q) == req[q].read # NoPassword \/ env # NoPassword
<1>2. \A q \in Request : (Inside(q) => InForce # NoPassword) /\ (pc[q] = "commit" => Read(q))
  BY <1>1 DEF AvailableInv
<1>3. InForce # NoPassword => InForce' # NoPassword
  BY <1>1, StaysInForce
<1>4. env' = env
  BY DEF StepOf, Begin, VerifyLogin, DeleteExpired, CreateSession, PasswordSource, Touch, Show, DeleteSession, VerifyCurrent, SetHash, DeleteAll, ReadHash, CommitConfig, Fails
<1>5. ASSUME NEW q \in Request \ {r}
      PROVE  (Inside(q)' => InForce' # NoPassword) /\ (pc'[q] = "commit" => Read(q)')
  <2>1. pc'[q] = pc[q] /\ req'[q] = req[q]
    BY <1>1, Places, Asking
  <2>2. (Inside(q)' => Inside(q)) /\ (Read(q) => Read(q)')
    BY <1>4, <2>1 DEF Admitted
  <2> QED
    BY <1>2, <1>3, <2>1, <2>2
<1>6. Inside(r)' => InForce # NoPassword
  <2>1. CASE Begin(r)
    BY <1>1, <2>1, Beginning DEF Admitted
  <2>2. CASE VerifyLogin(r)
    BY <1>1, <1>2, <2>2, ZenonT(40) DEF Types, Admitted, VerifyLogin, Answer, Goto
  <2>3. CASE DeleteExpired(r)
    BY <1>1, <1>2, <2>3 DEF Types, Admitted, DeleteExpired, Answer, Goto
  <2>4. CASE CreateSession(r)
    BY <1>1, <1>2, <2>4 DEF Types, Admitted, CreateSession, Answer, Goto
  <2>5. CASE PasswordSource(r)
    BY <1>1, <1>2, <2>5, ZenonT(30) DEF Types, Admitted, PasswordSource, Answer, Goto
  <2>6. CASE Touch(r)
    BY <1>1, <1>2, <2>6 DEF Touch, OpInv
  <2>7. CASE Show(r)
    BY <1>1, <1>2, <2>7 DEF Types, Admitted, Show, Answer, Goto
  <2>8. CASE DeleteSession(r)
    BY <1>1, <1>2, <2>8 DEF Types, Admitted, DeleteSession, Answer, Goto
  <2>9. CASE VerifyCurrent(r)
    BY <1>1, <1>2, <2>9 DEF Types, Admitted, VerifyCurrent, Answer, Goto
  <2>10. CASE SetHash(r)
    BY <1>1, <1>2, <2>10 DEF Types, Admitted, SetHash, Answer, Goto
  <2>11. CASE DeleteAll(r)
    BY <1>1, <1>2, <2>11 DEF Types, Admitted, DeleteAll, Answer, Goto
  <2>12. CASE ReadHash(r)
    BY <1>1, <1>2, <2>12 DEF Types, Admitted, ReadHash, Answer, Goto
  <2>13. CASE CommitConfig(r)
    BY <1>1, <1>2, <2>13 DEF Types, Admitted, CommitConfig, Answer, Goto
  <2>14. CASE Fails(r)
    BY <1>1, <1>2, <2>14 DEF Types, Admitted, Fails, Answer, Goto
  <2> QED
    BY <2>1, <2>2, <2>3, <2>4, <2>5, <2>6, <2>7, <2>8, <2>9, <2>10, <2>11, <2>12, <2>13, <2>14 DEF StepOf
<1>7. pc'[r] = "commit" => Read(r)'
  <2>1. CASE ReadHash(r)
    <3>1. Inside(r) /\ req'[r].read = hash
      BY <1>1, <2>1 DEF Types, Asked, Admitted, ReadHash
    <3> QED
      BY <1>2, <1>4, <3>1 DEF InForce
  <2>2. CASE ~ReadHash(r)
    <3>1. pc'[r] # "commit"
      <4>1. CASE Touch(r)
        BY <1>1, <4>1, HandlerType DEF Touch, Types, Goto, Answer
      <4>2. CASE ~Touch(r)
        <5>1. \/ \E status \in Status : Answer(r, status)
              \/ \E label \in Label \ {"commit"} : Goto(r, label)
          BY <2>2, <4>2, Names, ZenonT(30) DEF StepOf, Begin, VerifyLogin, DeleteExpired, CreateSession, PasswordSource, Show, DeleteSession, VerifyCurrent, SetHash, DeleteAll, CommitConfig, Fails
        <5> QED
          BY <1>1, <5>1 DEF Types, Goto, Answer
      <4> QED
        BY <4>1, <4>2
    <3> QED
      BY <3>1
  <2> QED
    BY <2>1, <2>2
<1> QED
  BY <1>3, <1>5, <1>6, <1>7 DEF AvailableInv

LEMMA AdmittedStep ==
  ASSUME IInv, NEW r \in Request, StepOf(r)
  PROVE  EndedSessionsNotAdmitted'
<1>1. Types /\ OpInv /\ SessionInv /\ BeforeInv /\ EndedSessionsNotAdmitted
  BY TypesAre DEF IInv
<1>2. issued \subseteq issued'
  BY <1>1, Tables
<1>3. ASSUME NEW q \in Request \ {r}, Admitted(q)'
      PROVE  req'[q].cookie \in issued' \ before'[q]
  <2>1. pc'[q] = pc[q] /\ req'[q] = req[q] /\ before'[q] = before[q]
    BY <1>1, Places, Asking
  <2>2. Admitted(q)
    BY <1>3, <2>1 DEF Admitted
  <2> QED
    BY <1>1, <1>2, <2>1, <2>2 DEF EndedSessionsNotAdmitted
<1>4. ASSUME Admitted(r)'
      PROVE  req'[r].cookie \in issued' \ before'[r]
  <2>1. CASE Begin(r)
    BY <1>1, <1>4, <2>1, Beginning DEF Admitted
  <2>2. CASE Touch(r)
    <3>1. pc'[r] # "answered"
      BY <1>4 DEF Admitted
    <3>2. req[r].cookie \in sessions /\ pc[r] = "touch" /\ req' = req /\ before' = before
      BY <1>1, <2>2, <3>1 DEF Touch, Answer, Goto, Types, history
    <3> QED
      BY <1>1, <1>2, <3>2 DEF SessionInv, BeforeInv
  <2>3. CASE ~Begin(r) /\ ~Touch(r)
    <3>1. pc[r] # "new"
      BY <2>3 DEF StepOf, VerifyLogin, DeleteExpired, CreateSession, PasswordSource, Show, DeleteSession, VerifyCurrent, SetHash, DeleteAll, ReadHash, CommitConfig, Fails
    <3>2. req'[r].cookie = req[r].cookie /\ req'[r].op = req[r].op /\ before'[r] = before[r]
      BY <1>1, <3>1, Asking
    <3>3. Admitted(r)
      <4>1. CASE VerifyLogin(r)
        BY <1>1, <1>4, <3>2, <4>1 DEF Types, Admitted, VerifyLogin, Answer, Goto
      <4>2. CASE DeleteExpired(r)
        BY <1>1, <1>4, <3>2, <4>2 DEF Types, Admitted, DeleteExpired, Answer, Goto
      <4>3. CASE CreateSession(r)
        BY <1>1, <1>4, <3>2, <4>3 DEF Types, Admitted, CreateSession, Answer, Goto
      <4>4. CASE PasswordSource(r)
        BY <1>1, <1>4, <3>2, <4>4, ZenonT(30) DEF Types, Admitted, PasswordSource, Answer, Goto
      <4>5. CASE Show(r)
        BY <1>1, <1>4, <3>2, <4>5 DEF Types, Admitted, Show, Answer, Goto
      <4>6. CASE DeleteSession(r)
        BY <1>1, <1>4, <3>2, <4>6 DEF Types, Admitted, DeleteSession, Answer, Goto
      <4>7. CASE VerifyCurrent(r)
        BY <1>1, <1>4, <3>2, <4>7 DEF Types, Admitted, VerifyCurrent, Answer, Goto
      <4>8. CASE SetHash(r)
        BY <1>1, <1>4, <3>2, <4>8 DEF Types, Admitted, SetHash, Answer, Goto
      <4>9. CASE DeleteAll(r)
        BY <1>1, <1>4, <3>2, <4>9 DEF Types, Admitted, DeleteAll, Answer, Goto
      <4>10. CASE ReadHash(r)
        BY <1>1, <1>4, <3>2, <4>10 DEF Types, Admitted, ReadHash, Answer, Goto
      <4>11. CASE CommitConfig(r)
        BY <1>1, <1>4, <3>2, <4>11 DEF Types, Admitted, CommitConfig, Answer, Goto
      <4>12. CASE Fails(r)
        BY <1>1, <1>4, <3>2, <4>12 DEF Types, Admitted, Fails, Answer, Goto
      <4> QED
        BY <2>3, <4>1, <4>2, <4>3, <4>4, <4>5, <4>6, <4>7, <4>8, <4>9, <4>10, <4>11, <4>12 DEF StepOf
    <3> QED
      BY <1>1, <1>2, <3>2, <3>3 DEF EndedSessionsNotAdmitted
  <2> QED
    BY <2>1, <2>2, <2>3
<1> QED
  BY <1>3, <1>4 DEF EndedSessionsNotAdmitted

LEMMA KeptStep ==
  ASSUME IInv, NEW r \in Request, StepOf(r)
  PROVE  KeptInv'
<1>1. Types /\ OpInv /\ KeptInv /\ EndedSessionsNotAdmitted
  BY TypesAre DEF IInv
<1> DEFINE EndsIt(q, t) ==
             /\ answer[q] = 200
             /\ req[q].op = "password" \/ (req[q].op = "logout" /\ req[q].cookie = t)
<1> SUFFICES ASSUME NEW t \in issued' \ expired'
             PROVE  t \in sessions' \/ \E q \in Request : EndsIt(q, t)'
  BY DEF KeptInv
<1>2. expired' = expired
  BY <1>1, Tables
<1>3. CASE t \in issued /\ t \notin sessions
  <2>1. PICK q \in Request : EndsIt(q, t)
    BY <1>1, <1>2, <1>3 DEF KeptInv
  <2>2. pc[q] = "answered"
    <3>1. answer[q] # 0
      BY <2>1
    <3> QED
      BY <1>1, <3>1 DEF OpInv
  <2>3. q # r
    BY <1>1, <2>2, Places
  <2>4. answer'[q] = answer[q] /\ req'[q] = req[q]
    BY <1>1, <2>3, Places, Asking
  <2> QED
    BY <2>1, <2>4
<1>4. CASE t \in sessions
  <2>1. CASE DeleteExpired(r)
    BY <1>2, <1>4, <2>1 DEF DeleteExpired
  <2>2. CASE DeleteSession(r)
    <3>1. req[r].op = "logout" /\ req' = req /\ answer'[r] = 200
      BY <1>1, <2>2 DEF DeleteSession, OpInv, Answer, Types
    <3>2. sessions' = sessions \ {req[r].cookie}
      BY <2>2 DEF DeleteSession
    <3> QED
      BY <1>4, <3>1, <3>2
  <2>3. CASE DeleteAll(r)
    BY <1>1, <2>3 DEF DeleteAll, OpInv, Answer, Types
  <2>4. CASE ~DeleteExpired(r) /\ ~DeleteSession(r) /\ ~DeleteAll(r)
    <3>1. sessions \subseteq sessions'
      BY <2>4 DEF StepOf, tables, Begin, VerifyLogin, CreateSession, PasswordSource, Touch, Show, VerifyCurrent, SetHash, ReadHash, CommitConfig, Fails
    <3> QED
      BY <1>4, <3>1
  <2> QED
    BY <2>1, <2>2, <2>3, <2>4
<1>5. CASE t \notin issued
  <2>1. CreateSession(r)
    BY <1>5 DEF StepOf, history, Begin, VerifyLogin, DeleteExpired, PasswordSource, Touch, Show, DeleteSession, VerifyCurrent, SetHash, DeleteAll, ReadHash, CommitConfig, Fails
  <2> QED
    BY <1>5, <2>1 DEF CreateSession
<1> QED
  BY <1>3, <1>4, <1>5

-----------------------------------------------------------------------------
(* The other steps, and the invariant *)

\* A session expires.
LEMMA ExpireStep ==
  ASSUME IInv, NEW t \in Request, Expire(t)
  PROVE  IInv'
<1>1. /\ UNCHANGED <<env, hash, sessions, pc, req, answer, issued, ended, before>>
      /\ expired \subseteq expired' /\ expired' \subseteq issued
  BY ZenonT(40) DEF Expire, tables, history, IInv, TypeOK
<1>2. TypeOK'
  BY <1>1 DEF IInv, TypeOK
<1>3. OpInv' /\ SessionInv'
  BY <1>1 DEF IInv, OpInv, SessionInv
<1>4. BeforeInv'
  BY <1>1 DEF IInv, BeforeInv
<1>5. AvailableInv' /\ EndedSessionsNotAdmitted'
  BY <1>1 DEF IInv, AvailableInv, EndedSessionsNotAdmitted, Admitted, InForce
<1>6. KeptInv'
  BY <1>1 DEF IInv, KeptInv
<1> QED
  BY <1>2, <1>3, <1>4, <1>5, <1>6 DEF IInv

\* A crash leaves nothing behind RequireSession.
LEMMA CrashStep ==
  ASSUME IInv, Crash
  PROVE  IInv'
<1>1. UNCHANGED <<env, hash, sessions, expired, req, answer, issued, ended, before>>
  BY DEF Crash, tables, history
<1>2. pc' = [r \in Request |-> IF pc[r] \in {"new", "answered"} THEN pc[r] ELSE "lost"]
  BY DEF Crash
<1>3. \A r \in Request : /\ pc'[r] \in {"new", "answered", "lost"}
                         /\ pc[r] = "answered" => pc'[r] = "answered"
  BY <1>2
<1>4. TypeOK'
  <2>1. Types
    BY TypesAre DEF IInv
  <2>2. pc' \in [Request -> Label]
    BY <1>2, <1>3, Names DEF Label
  <2>3. Types'
    BY <1>1, <2>1, <2>2 DEF Types
  <2> QED
    BY <2>3, TypesAreNext
<1>5. OpInv'
  BY <1>1, <1>3 DEF IInv, OpInv
<1>6. SessionInv'
  BY <1>1, <1>3 DEF IInv, SessionInv, TypeOK
<1>7. BeforeInv'
  BY <1>1, <1>3 DEF IInv, BeforeInv
<1>8. AvailableInv' /\ EndedSessionsNotAdmitted'
  BY <1>1, <1>3 DEF AvailableInv, EndedSessionsNotAdmitted, Admitted
<1>9. KeptInv'
  BY <1>1 DEF IInv, KeptInv
<1> QED
  BY <1>4, <1>5, <1>6, <1>7, <1>8, <1>9 DEF IInv

LEMMA InitIInv == Init => IInv
<1> SUFFICES ASSUME Init
             PROVE  IInv
  OBVIOUS
<1>1. TypeOK
  BY DEF Init, TypeOK, Op
<1>2. \A r \in Request : pc[r] = "new" /\ answer[r] = 0 /\ before[r] = {}
  BY DEF Init
<1>3. sessions = {} /\ issued = {} /\ expired = {} /\ ended = {}
  BY DEF Init
<1>4. OpInv /\ SessionInv
  BY <1>2, <1>3 DEF OpInv, SessionInv
<1>5. BeforeInv /\ KeptInv
  BY <1>2, <1>3 DEF BeforeInv, KeptInv
<1>6. AvailableInv /\ EndedSessionsNotAdmitted
  BY <1>2 DEF AvailableInv, EndedSessionsNotAdmitted, Admitted
<1> QED
  BY <1>1, <1>4, <1>5, <1>6 DEF IInv

LEMMA NextIInv == IInv /\ [Next]_vars => IInv'
<1> SUFFICES ASSUME IInv, [Next]_vars
             PROVE  IInv'
  OBVIOUS
<1>1. ASSUME NEW r \in Request, StepOf(r)
      PROVE  IInv'
  BY <1>1, TypesStep, OpStep, SessionStep, BeforeStep, AvailableStep, AdmittedStep, KeptStep DEF IInv
<1>2. ASSUME NEW r \in Request, Expire(r)
      PROVE  IInv'
  BY <1>2, ExpireStep
<1>3. CASE Crash
  BY <1>3, CrashStep
<1>4. CASE UNCHANGED vars
  <2>1. UNCHANGED <<env, hash, sessions, expired, pc, req, answer, issued, ended, before>>
    BY <1>4 DEF vars, tables, history
  <2>2. TypeOK'
    BY <2>1 DEF IInv, TypeOK
  <2>3. OpInv' /\ SessionInv' /\ BeforeInv'
    BY <2>1 DEF IInv, OpInv, SessionInv, BeforeInv
  <2>4. AvailableInv' /\ EndedSessionsNotAdmitted'
    BY <2>1 DEF IInv, AvailableInv, EndedSessionsNotAdmitted, Admitted, InForce
  <2>5. KeptInv'
    BY <2>1 DEF IInv, KeptInv
  <2> QED
    BY <2>2, <2>3, <2>4, <2>5 DEF IInv
<1> QED
  BY <1>1, <1>2, <1>3, <1>4 DEF Next, StepOf

\* What is proved of every state below rests on this.
LEMMA Invariance == Spec => []IInv
<1> QED
  BY InitIInv, NextIInv, PTL DEF Spec

\* Every variable keeps its type, through failures and crashes.
THEOREM SessionTypes == Spec => []TypeOK
<1>1. IInv => TypeOK
  BY DEF IInv
<1> QED
  BY <1>1, Invariance, PTL

\* No request gets past RequireSession with a session that had expired, or whose end by
\* a logout or a password change was answered, before the request arrived.
THEOREM EndedNotAdmitted == Spec => []EndedSessionsNotAdmitted
<1>1. IInv => EndedSessionsNotAdmitted
  BY DEF IInv
<1> QED
  BY <1>1, Invariance, PTL

\* A session that is still valid for its client ends only by a logout with it or a
\* password change that was answered with success.
THEOREM SessionEndsRightly == Spec => []SessionsKept
<1>1. IInv => SessionsKept
  BY DEF IInv, KeptInv, SessionsKept
<1> QED
  BY <1>1, Invariance, PTL

\* No step leaves the admin API without a password once it has one.
THEOREM Available == Spec => StaysAvailable
<1>1. IInv /\ [Next]_vars => [InForce # NoPassword => InForce' # NoPassword]_vars
  <2> SUFFICES ASSUME IInv, [Next]_vars, InForce # NoPassword
               PROVE  InForce' # NoPassword \/ UNCHANGED vars
    OBVIOUS
  <2>1. ASSUME NEW r \in Request, StepOf(r)
        PROVE  InForce' # NoPassword
    BY <2>1, StaysInForce, TypesAre DEF IInv
  <2>2. ASSUME NEW r \in Request, Expire(r)
        PROVE  InForce' # NoPassword
    BY <2>2 DEF Expire, tables, InForce
  <2>3. CASE Crash
    BY <2>3 DEF Crash, tables, InForce
  <2> QED
    BY <2>1, <2>2, <2>3 DEF Next, StepOf
<1> QED
  BY <1>1, Invariance, PTL DEF Spec, StaysAvailable

-----------------------------------------------------------------------------
(* The log: pieces of a sequence *)

\* s is what lies in t between the places from and to.
IsPiece(s, t, from, to) ==
  /\ from \in 0..to /\ to \in 0..Len(t)
  /\ Len(s) = to - from
  /\ \A k \in 1..Len(s) : s[k] = t[from + k]

\* Its places are numbers.
LEMMA PieceType ==
  ASSUME NEW S, NEW s \in Seq(S), NEW t \in Seq(S), NEW from, NEW to, IsPiece(s, t, from, to)
  PROVE  from \in Nat /\ to \in Nat /\ from <= to /\ to <= Len(t)
BY DEF IsPiece

\* Whatever is added behind it.
LEMMA PieceOfMore ==
  ASSUME NEW S, NEW s \in Seq(S), NEW t \in Seq(S), NEW u \in Seq(S), NEW from, NEW to,
         IsPiece(s, t, from, to)
  PROVE  IsPiece(s, t \o u, from, to)
<1>1. Len(t \o u) = Len(t) + Len(u) /\ \A k \in 1..Len(t) : (t \o u)[k] = t[k]
  OBVIOUS
<1>2. \A k \in 1..Len(s) : from + k \in 1..Len(t)
  BY DEF IsPiece
<1> QED
  BY <1>1, <1>2 DEF IsPiece

\* A crash takes the end of t.
LEMMA PieceOfLess ==
  ASSUME NEW S, NEW s \in Seq(S), NEW t \in Seq(S), NEW from, NEW to, NEW end \in 0..Len(t),
         IsPiece(s, t, from, to), to <= end
  PROVE  IsPiece(s, SubSeq(t, 1, end), from, to)
<1>1. Len(SubSeq(t, 1, end)) = end /\ \A k \in 1..end : SubSeq(t, 1, end)[k] = t[k]
  OBVIOUS
<1>2. \A k \in 1..Len(s) : from + k \in 1..end
  BY DEF IsPiece
<1> QED
  BY <1>1, <1>2 DEF IsPiece

LEMMA PiecesJoin ==
  ASSUME NEW S, NEW s \in Seq(S), NEW t \in Seq(S), NEW u \in Seq(S), NEW a, NEW b, NEW c,
         IsPiece(s, t, a, b), IsPiece(u, t, b, c)
  PROVE  IsPiece(s \o u, t, a, c)
<1>1. a \in Nat /\ b \in Nat /\ c \in Nat /\ a <= b /\ b <= c /\ c <= Len(t) /\ Len(s) = b - a /\ Len(u) = c - b
  BY DEF IsPiece
<1>2. Len(s \o u) = Len(s) + Len(u)
  OBVIOUS
<1>3. ASSUME NEW k \in 1..Len(s \o u)
      PROVE  (s \o u)[k] = t[a + k]
  <2>1. CASE k <= Len(s)
    <3>1. (s \o u)[k] = s[k] /\ k \in 1..Len(s)
      BY <2>1
    <3> QED BY <3>1 DEF IsPiece
  <2>2. CASE k > Len(s)
    <3>1. (s \o u)[k] = u[k - Len(s)] /\ k - Len(s) \in 1..Len(u)
      BY <1>2, <2>2
    <3>2. u[k - Len(s)] = t[b + (k - Len(s))]
      BY <3>1 DEF IsPiece
    <3>3. b + (k - Len(s)) = a + k
      BY <1>1
    <3> QED BY <3>1, <3>2, <3>3
  <2> QED BY <2>1, <2>2
<1> QED
  BY <1>1, <1>2, <1>3 DEF IsPiece

\* What is added to t is its last piece.
LEMMA LastPiece ==
  ASSUME NEW S, NEW t \in Seq(S), NEW u \in Seq(S)
  PROVE  IsPiece(u, t \o u, Len(t), Len(t) + Len(u))
BY DEF IsPiece

\* A piece falls into two.
LEMMA PieceSplits ==
  ASSUME NEW S, NEW s \in Seq(S), NEW t \in Seq(S), NEW a, NEW b, NEW k \in 0..Len(s),
         IsPiece(s, t, a, b)
  PROVE  IsPiece(SubSeq(s, 1, k), t, a, a + k) /\ IsPiece(SubSeq(s, k + 1, Len(s)), t, a + k, b)
<1>1. a \in Nat /\ b \in Nat /\ a <= b /\ b <= Len(t) /\ Len(s) = b - a
  BY DEF IsPiece
<1>2. Len(SubSeq(s, 1, k)) = k /\ \A j \in 1..k : SubSeq(s, 1, k)[j] = s[j]
  OBVIOUS
<1>3. /\ Len(SubSeq(s, k + 1, Len(s))) = Len(s) - k
      /\ \A j \in 1..(Len(s) - k) : SubSeq(s, k + 1, Len(s))[j] = s[k + j]
  OBVIOUS
<1>4. IsPiece(SubSeq(s, 1, k), t, a, a + k)
  BY <1>1, <1>2 DEF IsPiece
<1>5. ASSUME NEW j \in 1..(Len(s) - k)
      PROVE  SubSeq(s, k + 1, Len(s))[j] = t[(a + k) + j]
  <2>1. k + j \in 1..Len(s)
    OBVIOUS
  <2>2. s[k + j] = t[a + (k + j)]
    BY <2>1 DEF IsPiece
  <2>3. a + (k + j) = (a + k) + j
    BY <1>1
  <2> QED BY <1>3, <2>2, <2>3
<1>6. IsPiece(SubSeq(s, k + 1, Len(s)), t, a + k, b)
  BY <1>1, <1>3, <1>5 DEF IsPiece
<1> QED BY <1>4, <1>6

\* Pieces are what SubSeq says.
LEMMA PieceIs ==
  ASSUME NEW S, NEW s \in Seq(S), NEW t \in Seq(S), NEW a, NEW b, IsPiece(s, t, a, b)
  PROVE  s = SubSeq(t, a + 1, b)
<1>1. a \in Nat /\ b \in Nat /\ a <= b /\ b <= Len(t) /\ Len(s) = b - a
  BY DEF IsPiece
<1>2. SubSeq(t, a + 1, b) \in Seq(S) /\ Len(SubSeq(t, a + 1, b)) = b - a
  BY <1>1
<1>3. \A k \in 1..Len(s) : s[k] = SubSeq(t, a + 1, b)[k]
  BY <1>1 DEF IsPiece
<1> QED BY <1>1, <1>2, <1>3, SeqEqual

\* A set of natural numbers has a least one.
LEMMA LeastNatural ==
  ASSUME NEW T \in SUBSET Nat, T # {}
  PROVE  \E x \in T : \A y \in T : x <= y
<1> DEFINE R == {ss \in Nat \X Nat : ss[1] < ss[2]}
<1>1. IsWellFoundedOn(OpToRel(<, Nat), Nat)
  BY NatLessThanWellFounded
<1>2. OpToRel(<, Nat) = R
  BY DEF OpToRel
<1>3. PICK x \in T : \A y \in T : ~(<<y, x>> \in R)
  BY <1>1, <1>2, WFMin
<1>4. ASSUME NEW y \in T
      PROVE  x <= y
  <2>1. x \in Nat /\ y \in Nat /\ ~(<<y, x>> \in R)
    BY <1>3
  <2>2. ~(y < x)
    BY <2>1
  <2> QED
    BY <2>1, <2>2
<1> QED
  BY <1>4

\* Flattening, step by step.
Joined(f, s) == f = [i \in 1..Len(s) |-> IF i = 1 THEN s[i] ELSE f[i - 1] \o s[i]]

\* There is one way to flatten.
LEMMA JoinedOnce ==
  ASSUME NEW s, Len(s) \in Nat, NEW f, Joined(f, s), NEW g, Joined(g, s)
  PROVE  \A i \in 1..Len(s) : f[i] = g[i]
<1> DEFINE differ == {i \in 1..Len(s) : f[i] # g[i]}
<1>1. SUFFICES ASSUME differ # {}
               PROVE  FALSE
  OBVIOUS
<1>2. differ \in SUBSET Nat
  OBVIOUS
<1>3. PICK x \in differ : \A y \in differ : x <= y
  BY <1>1, <1>2, LeastNatural
<1>4. x \in 1..Len(s) /\ f[x] # g[x]
  OBVIOUS
<1>5. /\ f[x] = IF x = 1 THEN s[x] ELSE f[x - 1] \o s[x]
      /\ g[x] = IF x = 1 THEN s[x] ELSE g[x - 1] \o s[x]
  BY <1>4 DEF Joined
<1>6. x # 1
  BY <1>4, <1>5
<1>7. x - 1 \in 1..Len(s) /\ ~(x <= x - 1)
  BY <1>4, <1>6
<1>8. f[x - 1] = g[x - 1]
  BY <1>3, <1>7
<1> QED
  BY <1>4, <1>5, <1>6, <1>8

LEMMA FlattenIs ==
  ASSUME NEW s, Len(s) \in Nat \ {0}, NEW g, Joined(g, s)
  PROVE  FlattenSeq(s) = g[Len(s)]
<1>1. FlattenSeq(s) = (CHOOSE f : f = [i \in 1..Len(s) |-> IF i = 1 THEN s[i] ELSE f[i - 1] \o s[i]])[Len(s)]
  BY DEF FlattenSeq
<1>2. PICK f : f = (CHOOSE h : Joined(h, s))
  OBVIOUS
<1>3. Joined(f, s)
  BY <1>2
<1>4. FlattenSeq(s) = f[Len(s)]
  BY <1>1, <1>2 DEF Joined
<1> QED
  BY <1>3, <1>4, JoinedOnce

\* Where the pieces of what was taken are: p[i] is where the i-th file ends and p[0]
\* where the buffer begins.
Cuts(p) ==
  /\ p \in [0..MaxBackups + 1 -> Nat] /\ \A i \in 0..MaxBackups + 1 : p[i] <= p[0]
  /\ IsPiece(buffer, taken, p[0], Len(taken))
  /\ \A i \in Backup : IsPiece(Content(i), taken, p[i + 1], p[i])

LEMMA ContentType ==
  ASSUME WriterTypeOK, NEW i \in Backup
  PROVE  Content(i) \in Seq(Cell)
BY DEF WriterTypeOK, Content

\* The pieces together are a piece.
LEMMA KeptIs ==
  ASSUME WriterTypeOK, NEW p, Cuts(p)
  PROVE  Kept \in Seq(Cell) /\ IsPiece(Kept, taken, p[MaxBackups + 1], Len(taken))
<1> DEFINE N == MaxBackups + 1
           files == Files
           g == [i \in 1..N |-> SubSeq(taken, p[N] + 1, p[N - i])]
<1>1. MaxBackups \in Nat \ {0} /\ N \in Nat /\ N # 0
  BY WriterAssumption
<1>2. ASSUME NEW i \in 0..N
      PROVE  p[i] \in Nat /\ p[i] <= Len(taken)
  <2>1. CASE i = 0
    BY <2>1, PieceType, <1>1 DEF Cuts, IsPiece
  <2>2. CASE i # 0
    <3>1. i - 1 \in Backup /\ (i - 1) + 1 = i
      BY <1>1, <2>2 DEF Backup
    <3>2. IsPiece(Content(i - 1), taken, p[i], p[i - 1])
      BY <3>1 DEF Cuts
    <3>3. p[i] \in Nat /\ p[i - 1] \in Nat
      BY <1>1, <3>1 DEF Cuts, Backup
    <3> QED BY <3>2, <3>3 DEF IsPiece, WriterTypeOK
  <2> QED BY <2>1, <2>2
<1>3. ASSUME NEW i \in 1..N
      PROVE  /\ files[i] \in Seq(Cell) /\ IsPiece(files[i], taken, p[N - i + 1], p[N - i])
  <2>1. N - i \in Backup
    BY <1>1 DEF Backup
  <2>2. files[i] = Content(N - i)
    BY <1>1 DEF Files
  <2> QED BY <2>1, <2>2, ContentType DEF Cuts
<1>4. ASSUME NEW i \in 1..N
      PROVE  p[N - i + 1] <= p[N - i]
  <2>1. N - i + 1 \in 0..N /\ N - i \in 0..N
    BY <1>1
  <2> QED BY <1>2, <1>3, <2>1, PieceType DEF WriterTypeOK
<1>5. \A i \in 0..N : p[N] <= p[N - i]
  <2> DEFINE over == {i \in 0..N : ~(p[N] <= p[N - i])}
  <2>1. SUFFICES ASSUME over # {}
                 PROVE  FALSE
    OBVIOUS
  <2>2. over \in SUBSET Nat
    BY <1>1
  <2>3. PICK x \in over : \A y \in over : x <= y
    BY <2>1, <2>2, LeastNatural
  <2>4. x \in 0..N /\ ~(p[N] <= p[N - x])
    OBVIOUS
  <2>5. x # 0
    <3>1. N - 0 = N /\ p[N] \in Nat
      BY <1>1, <1>2
    <3> QED BY <2>4, <3>1
  <2>6. x \in 1..N /\ x - 1 \in 0..N /\ ~(x <= x - 1) /\ N - (x - 1) = N - x + 1
    BY <1>1, <2>4, <2>5
  <2>7. p[N] <= p[N - x + 1]
    BY <2>3, <2>6
  <2>8. p[N - x + 1] <= p[N - x]
    BY <1>4, <2>6
  <2>9. p[N] \in Nat /\ p[N - x + 1] \in Nat /\ p[N - x] \in Nat
    BY <1>1, <1>2, <2>4, <2>6
  <2> QED BY <2>4, <2>7, <2>8, <2>9
<1>6. ASSUME NEW i \in 1..N
      PROVE  g[i] \in Seq(Cell) /\ IsPiece(g[i], taken, p[N], p[N - i])
  <2>1. N - i \in 0..N /\ i \in 0..N /\ N \in 0..N
    BY <1>1
  <2>2. p[N] \in Nat /\ p[N - i] \in Nat /\ p[N] <= p[N - i] /\ p[N - i] <= Len(taken)
    BY <1>2, <1>5, <2>1
  <2>3. PICK a, b : a = p[N] /\ b = p[N - i]
    OBVIOUS
  <2>4. taken \in Seq(Cell)
    BY DEF WriterTypeOK
  <2>5. SubSeq(taken, a + 1, b) \in Seq(Cell) /\ IsPiece(SubSeq(taken, a + 1, b), taken, a, b)
    <3>1. a \in Nat /\ b \in Nat /\ a <= b /\ b <= Len(taken)
      BY <2>2, <2>3
    <3>2. /\ SubSeq(taken, a + 1, b) \in Seq(Cell) /\ Len(SubSeq(taken, a + 1, b)) = b - a
          /\ \A k \in 1..(b - a) : SubSeq(taken, a + 1, b)[k] = taken[a + k]
      BY <2>4, <3>1
    <3> QED BY <2>4, <3>1, <3>2 DEF IsPiece
  <2> QED BY <2>3, <2>5
<1>7. Len(files) = N /\ DOMAIN files = 1..N
  BY <1>1 DEF Files
<1>8. ASSUME NEW i \in 1..N
      PROVE  g[i] = IF i = 1 THEN files[i] ELSE g[i - 1] \o files[i]
  <2> HIDE DEF files, g
  <2>1. taken \in Seq(Cell)
    BY DEF WriterTypeOK
  <2>2. g[i] = SubSeq(taken, p[N] + 1, p[N - i])
    BY <1>6, <2>1, PieceIs
  <2>3. CASE i = 1
    <3>1. N - i + 1 = N
      BY <1>1, <2>3
    <3>2. files[i] = SubSeq(taken, p[N] + 1, p[N - i])
      BY <1>3, <2>1, <3>1, PieceIs
    <3> QED BY <2>2, <2>3, <3>2
  <2>4. CASE i # 1
    <3>1. i - 1 \in 1..N /\ N - (i - 1) = N - i + 1
      BY <1>1, <2>4
    <3>2. g[i - 1] \in Seq(Cell) /\ IsPiece(g[i - 1], taken, p[N], p[N - i + 1])
      BY <1>6, <3>1
    <3>3. files[i] \in Seq(Cell) /\ IsPiece(files[i], taken, p[N - i + 1], p[N - i])
      BY <1>3
    <3>4. IsPiece(g[i - 1] \o files[i], taken, p[N], p[N - i])
      BY <2>1, <3>2, <3>3, PiecesJoin
    <3>5. g[i - 1] \o files[i] \in Seq(Cell)
      BY <3>2, <3>3
    <3>6. g[i - 1] \o files[i] = SubSeq(taken, p[N] + 1, p[N - i])
      BY <2>1, <3>4, <3>5, PieceIs
    <3> QED BY <2>2, <2>4, <3>6
  <2> QED BY <2>3, <2>4
<1>9. Joined(g, files)
  BY <1>7, <1>8 DEF Joined
<1>10. FlattenSeq(files) = g[N]
  <2> HIDE DEF files, g
  <2> QED BY <1>1, <1>7, <1>9, FlattenIs
<1>11. g[N] \in Seq(Cell) /\ IsPiece(g[N], taken, p[N], p[0])
  <2>1. N \in 1..N /\ N - N = 0
    BY <1>1
  <2> QED BY <1>6, <2>1
<1>12. Kept = FlattenSeq(files) \o buffer
  BY DEF Kept
<1>13. buffer \in Seq(Cell) /\ taken \in Seq(Cell) /\ IsPiece(buffer, taken, p[0], Len(taken))
  BY DEF WriterTypeOK, Cuts
<1>14. PICK log : log = g[N]
  OBVIOUS
<1>15. log \in Seq(Cell) /\ IsPiece(log, taken, p[N], p[0])
  BY <1>11, <1>14
<1>16. log \o buffer \in Seq(Cell)
  BY <1>13, <1>15
<1>17. IsPiece(log \o buffer, taken, p[N], Len(taken))
  BY <1>13, <1>15, PiecesJoin
<1> QED
  BY <1>10, <1>12, <1>14, <1>16, <1>17

\* What is kept is the end of what was taken, all of it if nothing was removed.
LEMMA KeptIsSuffix ==
  ASSUME WriterTypeOK, NEW p, Cuts(p)
  PROVE  /\ IsSuffix(Kept, taken)
         /\ p[MaxBackups + 1] = 0 => Kept = taken
<1>1. PICK from : from = p[MaxBackups + 1]
  OBVIOUS
<1>2. taken \in Seq(Cell) /\ Kept \in Seq(Cell) /\ IsPiece(Kept, taken, from, Len(taken))
  BY <1>1, KeptIs DEF WriterTypeOK
<1>3. PICK k : k = Kept
  OBVIOUS
<1>4. from \in Nat /\ from <= Len(taken) /\ Len(k) = Len(taken) - from
  BY <1>2, <1>3 DEF IsPiece
<1>5. \A i \in 1..Len(k) : k[i] = taken[from + i]
  BY <1>2, <1>3 DEF IsPiece
<1>6. /\ Reverse(k) \in Seq(Cell) /\ Len(Reverse(k)) = Len(k)
      /\ \A i \in 1..Len(k) : Reverse(k)[i] = k[Len(k) - i + 1]
  BY <1>2, <1>3 DEF Reverse
<1>7. /\ Reverse(taken) \in Seq(Cell) /\ Len(Reverse(taken)) = Len(taken)
      /\ \A i \in 1..Len(taken) : Reverse(taken)[i] = taken[Len(taken) - i + 1]
  BY <1>2 DEF Reverse
<1>8. ASSUME NEW i \in 1..Len(k)
      PROVE  Reverse(k)[i] = Reverse(taken)[i]
  <2>1. Len(k) - i + 1 \in 1..Len(k) /\ i \in 1..Len(taken)
    BY <1>4
  <2>2. from + (Len(k) - i + 1) = Len(taken) - i + 1
    BY <1>4
  <2> QED BY <1>5, <1>6, <1>7, <2>1, <2>2
<1>9. IsPrefix(Reverse(k), Reverse(taken))
  <2>1. PICK x, y : x = Reverse(k) /\ y = Reverse(taken)
    OBVIOUS
  <2>2. x \in Seq(Cell) /\ y \in Seq(Cell) /\ Len(x) <= Len(y) /\ \A i \in 1..Len(x) : x[i] = y[i]
    BY <1>4, <1>6, <1>7, <1>8, <2>1
  <2>3. SubSeq(x, 1, Len(x)) \in Seq(Cell) /\ SubSeq(y, 1, Len(x)) \in Seq(Cell)
        /\ Len(SubSeq(x, 1, Len(x))) = Len(x) /\ Len(SubSeq(y, 1, Len(x))) = Len(x)
        /\ \A i \in 1..Len(x) : SubSeq(x, 1, Len(x))[i] = SubSeq(y, 1, Len(x))[i]
    BY <2>2
  <2>4. SubSeq(x, 1, Len(x)) = SubSeq(y, 1, Len(x))
    BY <2>3, SeqEqual
  <2> QED BY <2>1, <2>2, <2>4 DEF IsPrefix
<1>10. from = 0 => k = taken
  <2> SUFFICES ASSUME from = 0
               PROVE  k = taken
    OBVIOUS
  <2>1. Len(k) = Len(taken) /\ \A i \in 1..Len(k) : k[i] = taken[i]
    BY <1>4, <1>5
  <2> QED BY <1>2, <1>3, <2>1, SeqEqual
<1> QED
  BY <1>1, <1>3, <1>9, <1>10 DEF IsSuffix

\* A backup whose name is free while files are renamed.
Hole == IF mutex = "rename" THEN {shift + 1} ELSE IF mutex = "create" THEN {0} ELSE {}

\* Nothing but one record, however long it is.
OneRecord(s) == \A i, j \in 1..Len(s) : s[i].rec = s[j].rec

\* No file is open any more.
Ended == closing \in {"closed", "down"}

\* A rotation renames on a closed file with the buffer flushed, and brings one record.
PhaseInv ==
  /\ Renaming => ~open
  /\ mutex # "free" => buffer = <<>> /\ ~Ended
  /\ mutex = "put" => currentSize = 0 /\ Content(0) = <<>>
  /\ Ended => ~open
  /\ open => disk[0] # None
  /\ \A i \in Hole : disk[i] = None
  /\ OneRecord(incoming)

\* Unless a rotation was cut short, backups have no gap but the one it moves, and only a
\* write that failed makes the bufio.Writer fail.
OrderlyInv ==
  ~cut =>
    /\ ~Renaming /\ ~Ended => open
    /\ sticky => torn
    /\ closing = "closed" /\ ~torn => buffer = <<>>
    /\ 0 \notin Hole => disk[0] # None
    /\ \A i, j \in Backup \ Hole : i < j /\ disk[j] # None => disk[i] # None

\* Nothing was removed before all the names of backups were taken.
Complete(p) ==
  ~cut /\ p[MaxBackups + 1] > 0 => \A i \in Backup \ Hole : disk[i] # None

\* The files and the buffer are consecutive pieces of what was taken.
PiecesInv == \E p : Cuts(p) /\ Complete(p)

\* Within the maximal size, unless a single record is larger.
Fits(s) == Len(s) <= MaxSize \/ OneRecord(s)

\* currentSize counts the file, unless the bufio.Writer wrote by itself or has failed.
SizeInv ==
  ~spilled =>
    /\ Fits(Content(0) \o buffer)
    /\ ~Ended /\ ~sticky => Len(Content(0)) <= currentSize

WriterInv ==
  /\ WriterTypeOK
  /\ PhaseInv
  /\ OrderlyInv
  /\ PiecesInv
  /\ SizeInv

LEMMA NoneIsNoFile == None \notin Seq(Cell)
BY WriterAssumption

LEMMA Backups == MaxBackups \in Nat \ {0} /\ Backup = 0..MaxBackups /\ 0 \in Backup
BY WriterAssumption DEF Backup

\* An empty directory.
LEMMA WriterInit == InitWriter => WriterInv
<1> SUFFICES ASSUME InitWriter
             PROVE  WriterInv
  OBVIOUS
<1>0. /\ disk = [i \in Backup |-> IF i = 0 THEN <<>> ELSE None]
      /\ open = TRUE /\ buffer = <<>> /\ sticky = FALSE /\ currentSize = 0
      /\ mutex = "free" /\ shift = 0 /\ incoming = <<>>
      /\ closing = "no" /\ written = 0
      /\ taken = <<>> /\ faults = 0 /\ cut = FALSE /\ torn = FALSE /\ spilled = FALSE
  BY DEF InitWriter
<1>a. <<>> \in Seq(Cell) /\ Len(<<>>) = 0
  OBVIOUS
<1>b. <<>> # None
  BY <1>a, NoneIsNoFile
<1>1. <<>> \in Seq(Cell) /\ Len(<<>>) = 0 /\ <<>> # None
  BY <1>a, <1>b
<1>2. WriterTypeOK
  <2>1. disk \in [Backup -> Seq(Cell) \union {None}]
    BY <1>0, <1>1
  <2>2. BufferSize \in Nat /\ 0 \in 0..MaxBackups - 1 /\ 0 \in 0..MaxRecords /\ 0 \in 0..MaxFaults
    BY WriterAssumption
  <2>3. buffer \in Seq(Cell) /\ Len(buffer) <= BufferSize /\ incoming \in Seq(Cell) /\ taken \in Seq(Cell)
    BY <1>0, <1>1, <2>2
  <2> QED BY <1>0, <2>1, <2>2, <2>3 DEF WriterTypeOK
<1>3. Hole = {}
  BY <1>0 DEF Hole
<1>4. PhaseInv
  BY <1>0, <1>1, <1>3, Backups DEF PhaseInv, OneRecord, Ended, Renaming
<1>5. OrderlyInv
  BY <1>0, <1>1, <1>3, Backups DEF OrderlyInv, Ended
<1>6. \A i \in Backup : Content(i) = <<>>
  BY <1>0 DEF Content
<1>7. PiecesInv
  <2> DEFINE p == [i \in 0..MaxBackups + 1 |-> 0]
  <2>1. \A i \in Backup : i \in 0..MaxBackups + 1 /\ i + 1 \in 0..MaxBackups + 1
    BY Backups
  <2>2. p \in [0..MaxBackups + 1 -> Nat] /\ \A i \in 0..MaxBackups + 1 : p[i] = 0
    OBVIOUS
  <2>3. 0 \in 0..MaxBackups + 1 /\ MaxBackups + 1 \in 0..MaxBackups + 1
    BY Backups
  <2>4. IsPiece(<<>>, <<>>, 0, 0)
    BY <1>1 DEF IsPiece
  <2> HIDE DEF p
  <2>5. Cuts(p) /\ Complete(p)
    BY <1>0, <1>1, <1>6, <2>1, <2>2, <2>3, <2>4 DEF Cuts, Complete
  <2> QED BY <2>5 DEF PiecesInv
<1>8. SizeInv
  <2>1. Content(0) \o buffer = <<>>
    BY <1>0, <1>6, Backups
  <2> QED BY <1>0, <1>1, <1>6, <2>1, Backups, WriterAssumption DEF SizeInv, Fits
<1> QED
  BY <1>2, <1>4, <1>5, <1>7, <1>8 DEF WriterInv

-----------------------------------------------------------------------------
(* What a step does to the pieces *)

\* The file grows by what leaves the buffer.
LEMMA FileGrows ==
  ASSUME WriterTypeOK, NEW p, Cuts(p), NEW x \in Seq(Cell), taken' = taken \o x,
         NEW out \in Seq(Cell), buffer' \in Seq(Cell), NEW c,
         Content(0)' = Content(0) \o out, \A i \in Backup \ {0} : Content(i)' = Content(i),
         IsPiece(out, taken', p[0], c), IsPiece(buffer', taken', c, Len(taken'))
  PROVE  \E q : Cuts(q)' /\ q[MaxBackups + 1] = p[MaxBackups + 1]
<1> DEFINE q == [p EXCEPT ![0] = c]
<1>1. taken \in Seq(Cell) /\ taken' \in Seq(Cell)
  BY DEF WriterTypeOK
<1>2. p[0] \in Nat /\ c \in Nat /\ p[0] <= c
  BY DEF IsPiece
<1>3. /\ q \in [0..MaxBackups + 1 -> Nat] /\ q[0] = c
      /\ \A i \in 1..MaxBackups + 1 : i \in 0..MaxBackups + 1 /\ q[i] = p[i]
  BY <1>2, Backups DEF Cuts
<1>4. \A i \in 0..MaxBackups + 1 : q[i] <= q[0]
  <2>1. \A i \in 0..MaxBackups + 1 : p[i] \in Nat /\ p[i] <= p[0] /\ (i = 0 \/ i \in 1..MaxBackups + 1)
    BY Backups DEF Cuts
  <2> HIDE DEF q
  <2> QED BY <1>2, <1>3, <2>1
<1>5. ASSUME NEW i \in Backup
      PROVE  IsPiece(Content(i)', taken', q[i + 1], q[i])
  <2>1. IsPiece(Content(i), taken', p[i + 1], p[i])
    BY <1>1, ContentType, PieceOfMore DEF Cuts
  <2>2. i + 1 \in 1..MaxBackups + 1 /\ (i = 0 \/ i \in 1..MaxBackups + 1)
    BY Backups
  <2>3. CASE i = 0
    <3>1. Content(0) \in Seq(Cell)
      BY <2>3, ContentType
    <3>2. IsPiece(Content(0), taken', p[1], p[0])
      BY <2>1, <2>3
    <3>3. IsPiece(Content(0) \o out, taken', p[1], c)
      BY <1>1, <3>1, <3>2, PiecesJoin
    <3>4. q[1] = p[1] /\ q[0] = c
      BY <1>3, <2>2, <2>3
    <3>5. Content(i)' = Content(0) \o out /\ i + 1 = 1
      BY <2>3
    <3> HIDE DEF q
    <3> QED BY <2>3, <3>3, <3>4, <3>5
  <2>4. CASE i # 0
    <3>1. Content(i)' = Content(i) /\ q[i] = p[i] /\ q[i + 1] = p[i + 1]
      BY <1>3, <2>2, <2>4
    <3> HIDE DEF q
    <3> QED BY <2>1, <3>1
  <2> QED BY <2>3, <2>4
<1>6. Cuts(q)'
  <2> HIDE DEF q
  <2> QED BY <1>3, <1>4, <1>5 DEF Cuts
<1>7. q[MaxBackups + 1] = p[MaxBackups + 1]
  BY <1>3, Backups
<1> QED
  BY <1>6, <1>7

\* Nothing moves.
LEMMA SamePieces ==
  ASSUME NEW p, Cuts(p), UNCHANGED <<buffer, taken>>, \A i \in Backup : Content(i)' = Content(i)
  PROVE  Cuts(p)'
BY DEF Cuts

\* What is left behind the first n, and what comes behind a.
LEMMA EndOf ==
  ASSUME NEW S, NEW s \in Seq(S), NEW n \in 0..Len(s)
  PROVE  /\ SubSeq(s, n + 1, Len(s)) \in Seq(S)
         /\ Len(SubSeq(s, n + 1, Len(s))) = Len(s) - n
         /\ \A k \in 1..(Len(s) - n) : SubSeq(s, n + 1, Len(s))[k] = s[n + k]
<1>1. Len(s) \in Nat
  OBVIOUS
<1>2. Len(SubSeq(s, n + 1, Len(s))) = Len(s) - n
  BY <1>1
<1>3. SubSeq(s, n + 1, Len(s)) \in Seq(S)
  BY <1>1
<1>4. ASSUME NEW k \in 1..(Len(s) - n)
      PROVE  SubSeq(s, n + 1, Len(s))[k] = s[n + k]
  BY <1>1
<1> QED
  BY <1>2, <1>3, <1>4

LEMMA BehindIt ==
  ASSUME NEW S, NEW a \in Seq(S), NEW c \in Seq(S), NEW s, s = a \o c,
         NEW k \in (Len(a) + 1)..(Len(a) + Len(c))
  PROVE  s[k] = c[k - Len(a)]
OBVIOUS

\* Only the log file changes.
LEMMA FileIs ==
  ASSUME WriterTypeOK, NEW s \in Seq(Cell), disk' = [disk EXCEPT ![0] = s]
  PROVE  /\ disk' \in [Backup -> Seq(Cell) \union {None}]
         /\ disk'[0] = s /\ disk'[0] # None /\ \A i \in Backup : i # 0 => disk'[i] = disk[i]
         /\ Content(0)' = s /\ \A i \in Backup \ {0} : Content(i)' = Content(i)
<1>1. s # None
  BY NoneIsNoFile
<1>2. disk'[0] = s /\ \A i \in Backup : i # 0 => disk'[i] = disk[i]
  BY Backups DEF WriterTypeOK
<1>3. disk' \in [Backup -> Seq(Cell) \union {None}]
  BY DEF WriterTypeOK
<1> QED
  BY <1>1, <1>2, <1>3 DEF Content

LEMMA NoFileMoves ==
  ASSUME disk' = disk
  PROVE  \A i : Content(i)' = Content(i)
BY DEF Content

LEMMA ExtendEmpty ==
  ASSUME NEW s \in Seq(Cell)
  PROVE  s \o <<>> = s /\ <<>> \o s = s
OBVIOUS

LEMMA LenNat == \A s \in Seq(Cell) : Len(s) \in Nat
OBVIOUS

LEMMA NoCells == \A s \in Seq(Cell) : s = <<>> <=> Len(s) = 0
OBVIOUS

\* The lines of the file, with what is still to be written to it.
Log == Content(0) \o buffer

LEMMA LogType ==
  ASSUME WriterTypeOK
  PROVE  /\ Content(0) \in Seq(Cell) /\ buffer \in Seq(Cell) /\ Log \in Seq(Cell)
         /\ Len(Log) = Len(Content(0)) + Len(buffer)
         /\ \A i \in 1..Len(Content(0)) : Log[i] = Content(0)[i]
<1>1. PICK f, b : f = Content(0) /\ b = buffer
  OBVIOUS
<1>2. f \in Seq(Cell) /\ b \in Seq(Cell)
  BY <1>1, ContentType, Backups DEF WriterTypeOK
<1>3. f \o b \in Seq(Cell) /\ Len(f \o b) = Len(f) + Len(b) /\ \A i \in 1..Len(f) : (f \o b)[i] = f[i]
  BY <1>2
<1> QED
  BY <1>1, <1>2, <1>3 DEF Log

LEMMA ConcatAssoc ==
  ASSUME NEW S, NEW a \in Seq(S), NEW b \in Seq(S), NEW c \in Seq(S)
  PROVE  (a \o b) \o c = a \o (b \o c)
OBVIOUS

\* Cells of two texts, one behind the other.
LEMMA ConcatCells ==
  ASSUME NEW S, NEW a \in Seq(S), NEW b \in Seq(S)
  PROVE  /\ a \o b \in Seq(S) /\ Len(a \o b) = Len(a) + Len(b)
         /\ \A i \in 1..Len(a) : (a \o b)[i] = a[i]
         /\ \A i \in 1..Len(b) : (a \o b)[Len(a) + i] = b[i]
OBVIOUS

\* A text is what is before a place of it and what is behind.
LEMMA CutAt ==
  ASSUME NEW s \in Seq(Cell), NEW n \in 0..Len(s)
  PROVE  /\ SubSeq(s, 1, n) \in Seq(Cell) /\ Len(SubSeq(s, 1, n)) = n
         /\ SubSeq(s, n + 1, Len(s)) \in Seq(Cell) /\ Len(SubSeq(s, n + 1, Len(s))) = Len(s) - n
         /\ SubSeq(s, 1, n) \o SubSeq(s, n + 1, Len(s)) = s
<1>1. PICK a, b : a = SubSeq(s, 1, n) /\ b = SubSeq(s, n + 1, Len(s))
  OBVIOUS
<1>2. a \in Seq(Cell) /\ Len(a) = n
  BY <1>1
<1>3. b \in Seq(Cell) /\ Len(b) = Len(s) - n
  BY <1>1, EndOf
<1>4. IsPiece(s, s, 0, Len(s))
  BY DEF IsPiece
<1>5. IsPiece(a, s, 0, 0 + n) /\ IsPiece(b, s, 0 + n, Len(s))
  BY <1>1, <1>4, PieceSplits
<1>6. IsPiece(a \o b, s, 0, Len(s)) /\ a \o b \in Seq(Cell)
  BY <1>2, <1>3, <1>5, PiecesJoin
<1>7. a \o b = SubSeq(s, 0 + 1, Len(s))
  BY <1>6, PieceIs
<1>8. SubSeq(s, 0 + 1, Len(s)) = s
  OBVIOUS
<1> QED
  BY <1>1, <1>2, <1>3, <1>7, <1>8

LEMMA SameBeginning ==
  ASSUME NEW s \in Seq(Cell), NEW t \in Seq(Cell), NEW n \in 0..Len(s), n <= Len(t),
         \A i \in 1..n : s[i] = t[i]
  PROVE  SubSeq(s, 1, n) = SubSeq(t, 1, n)
<1>1. PICK a, b : a = SubSeq(s, 1, n) /\ b = SubSeq(t, 1, n)
  OBVIOUS
<1>2. a \in Seq(Cell) /\ Len(a) = n /\ \A i \in 1..n : a[i] = s[i]
  BY <1>1
<1>3. n \in 0..Len(t)
  OBVIOUS
<1>4. b \in Seq(Cell) /\ Len(b) = n /\ \A i \in 1..n : b[i] = t[i]
  BY <1>1, <1>3
<1>5. a = b
  BY <1>2, <1>4, SeqEqual
<1> QED
  BY <1>1, <1>5

\* The file that is there goes on.
FileGrows0 == \E x \in Seq(Cell) : Content(0)' = Content(0) \o x

\* The buffer takes x, and the first n cells of what is then in it go to the file.
Moves(x, n) ==
  /\ x \in Seq(Cell) /\ n \in 0..Len(buffer \o x)
  /\ n > 0 => open
  /\ disk' = IF n = 0 THEN disk ELSE [disk EXCEPT ![0] = Content(0) \o SubSeq(buffer \o x, 1, n)]
  /\ buffer' = SubSeq(buffer \o x, n + 1, Len(buffer \o x))
  /\ taken' = taken \o x

\* An error of the file stays, and is counted if it is one of an open file.
Errors ==
  /\ sticky' \in BOOLEAN /\ torn' \in BOOLEAN /\ faults' \in 0..MaxFaults
  /\ sticky => sticky'
  /\ torn => torn'
  /\ \/ UNCHANGED <<faults, torn>> /\ (sticky' => sticky \/ ~open)
     \/ faults' = faults + 1 /\ torn' /\ sticky'

\* Whatever the buffer takes and however much of it the file takes: it goes on in order.
LEMMA MovesPieces ==
  ASSUME WriterInv, NEW x, NEW n, Moves(x, n), cut' = cut, Hole' = Hole
  PROVE  /\ disk' \in [Backup -> Seq(Cell) \union {None}]
         /\ buffer' \in Seq(Cell) /\ taken' \in Seq(Cell)
         /\ \A i \in Backup : disk[i] # None <=> disk'[i] # None
         /\ PiecesInv'
         /\ Log' = Log \o x
         /\ FileGrows0
         /\ n \in Nat /\ (n = 0 => Content(0)' = Content(0))
         /\ Len(Content(0)') = Len(Content(0)) + n
         /\ Len(buffer') = Len(buffer) + Len(x) - n
<1>1. /\ WriterTypeOK /\ buffer \in Seq(Cell) /\ taken \in Seq(Cell) /\ x \in Seq(Cell)
      /\ disk \in [Backup -> Seq(Cell) \union {None}]
  BY DEF WriterInv, WriterTypeOK, Moves
<1>2. Content(0) \in Seq(Cell)
  BY <1>1, LogType
<1>3. PICK p : Cuts(p) /\ Complete(p)
  BY DEF WriterInv, PiecesInv
<1>4. PICK f, y : f = Content(0) /\ y = buffer \o x
  OBVIOUS
<1>5. f \in Seq(Cell) /\ y \in Seq(Cell) /\ Len(y) = Len(buffer) + Len(x)
  <2>1. buffer \o x \in Seq(Cell) /\ Len(buffer \o x) = Len(buffer) + Len(x)
    BY <1>1, ConcatCells
  <2> QED BY <1>2, <1>4, <2>1
<1>6. PICK o, r : o = SubSeq(y, 1, n) /\ r = SubSeq(y, n + 1, Len(y))
  OBVIOUS
<1>7. n \in 0..Len(y)
  BY <1>4 DEF Moves
<1>8. /\ o \in Seq(Cell) /\ Len(o) = n /\ r \in Seq(Cell) /\ Len(r) = Len(y) - n
      /\ o \o r = y
  BY <1>5, <1>6, <1>7, CutAt
<1>9. /\ buffer' = r /\ taken' = taken \o x
      /\ disk' = IF n = 0 THEN disk ELSE [disk EXCEPT ![0] = f \o o]
  BY <1>4, <1>6 DEF Moves
<1>10. taken \o x \in Seq(Cell) /\ Len(taken \o x) = Len(taken) + Len(x)
  BY <1>1, ConcatCells
<1>11. f \o o \in Seq(Cell) /\ Len(f \o o) = Len(f) + Len(o)
  BY <1>5, <1>8, ConcatCells
<1>12. n = 0 => o = <<>> /\ f \o o = f
  <2>1. n = 0 => o = <<>>
    BY <1>8, NoCells
  <2> QED BY <1>5, <2>1, ExtendEmpty
<1>13. /\ disk' \in [Backup -> Seq(Cell) \union {None}]
       /\ Content(0)' = f \o o /\ \A i \in Backup \ {0} : Content(i)' = Content(i)
       /\ \A i \in Backup : disk[i] # None <=> disk'[i] # None
  <2>1. CASE n = 0
    <3>1. disk' = disk
      BY <1>9, <2>1
    <3> QED BY <1>1, <1>4, <1>12, <2>1, <3>1, NoFileMoves
  <2>2. CASE n # 0
    <3>0. n > 0
      BY <1>7, <2>2
    <3>1. disk' = [disk EXCEPT ![0] = f \o o] /\ open
      BY <1>9, <2>2, <3>0 DEF Moves
    <3>2. disk[0] # None
      BY <3>1 DEF WriterInv, PhaseInv
    <3>3. /\ disk' \in [Backup -> Seq(Cell) \union {None}]
          /\ disk'[0] # None /\ \A i \in Backup : i # 0 => disk'[i] = disk[i]
          /\ Content(0)' = f \o o /\ \A i \in Backup \ {0} : Content(i)' = Content(i)
      BY <1>1, <1>11, <3>1, FileIs
    <3> QED BY <3>2, <3>3
  <2> QED BY <2>1, <2>2
<1>14. /\ IsPiece(o, taken', p[0], p[0] + n)
       /\ IsPiece(r, taken', p[0] + n, Len(taken'))
  <2>1. IsPiece(buffer, taken, p[0], Len(taken))
    BY <1>3 DEF Cuts
  <2>2. IsPiece(buffer, taken \o x, p[0], Len(taken))
    BY <1>1, <2>1, PieceOfMore
  <2>3. IsPiece(x, taken \o x, Len(taken), Len(taken) + Len(x))
    BY <1>1, LastPiece
  <2>4. IsPiece(buffer \o x, taken \o x, p[0], Len(taken) + Len(x))
    BY <1>1, <1>10, <2>2, <2>3, PiecesJoin
  <2>5. IsPiece(y, taken', p[0], Len(taken')) /\ taken' \in Seq(Cell)
    BY <1>4, <1>9, <1>10, <2>4
  <2> QED BY <1>5, <1>6, <1>7, <2>5, PieceSplits
<1>15. PICK q : Cuts(q)' /\ q[MaxBackups + 1] = p[MaxBackups + 1]
  <2>1. Content(0)' = Content(0) \o o /\ buffer' \in Seq(Cell)
    BY <1>4, <1>8, <1>9, <1>13
  <2>2. IsPiece(buffer', taken', p[0] + n, Len(taken'))
    BY <1>9, <1>14
  <2> QED BY <1>1, <1>3, <1>8, <1>9, <1>13, <1>14, <2>1, <2>2, FileGrows
<1>16. PiecesInv'
  <2>1. Complete(q)'
    BY <1>3, <1>13, <1>15 DEF Complete
  <2> QED BY <1>15, <2>1 DEF PiecesInv
<1>17. Log' = Log \o x
  <2>1. f \in Seq(Cell) /\ o \in Seq(Cell) /\ r \in Seq(Cell) /\ x \in Seq(Cell)
    BY <1>1, <1>5, <1>8
  <2>2. (f \o o) \o r = f \o (o \o r)
    BY <2>1, ConcatAssoc, SMTT(30)
  <2>3. PICK b : b = buffer
    OBVIOUS
  <2>4. b \in Seq(Cell)
    BY <1>1, <2>3
  <2>5. (f \o b) \o x = f \o (b \o x)
    BY <2>1, <2>4, ConcatAssoc, SMTT(30)
  <2> QED BY <1>4, <1>8, <1>9, <1>13, <2>2, <2>3, <2>5 DEF Log
<1>18. FileGrows0
  BY <1>4, <1>8, <1>13 DEF FileGrows0
<1>19. Len(Content(0)') = Len(Content(0)) + n /\ Len(buffer') = Len(buffer) + Len(x) - n
  BY <1>4, <1>5, <1>8, <1>9, <1>11, <1>13
<1>20. n \in Nat
  BY <1>7
<1>21. n = 0 => Content(0)' = Content(0)
  BY <1>4, <1>12, <1>13
<1> QED
  BY <1>8, <1>9, <1>10, <1>13, <1>16, <1>17, <1>18, <1>19, <1>20, <1>21

\* What the file does not take is an error.
LEMMA WroteIs ==
  ASSUME WriterTypeOK, NEW s \in Seq(Cell), NEW n \in Takes(s), Wrote(s, n)
  PROVE  /\ n \in 0..Len(s) /\ (n > 0 => open) /\ (sticky => n = 0) /\ (~sticky' => n = Len(s))
         /\ disk' = IF n = 0 THEN disk ELSE [disk EXCEPT ![0] = Content(0) \o SubSeq(s, 1, n)]
         /\ Errors
<1>1. Len(s) \in Nat /\ MaxFaults \in Nat /\ faults \in 0..MaxFaults /\ sticky \in BOOLEAN /\ torn \in BOOLEAN
  BY WriterAssumption DEF WriterTypeOK
<1>2. n \in 0..Len(s) /\ (n > 0 => open /\ ~sticky)
  BY <1>1 DEF Takes
<1>3. open /\ ~sticky /\ n < Len(s) => faults < MaxFaults
  BY <1>1 DEF Takes
<1>4. /\ sticky' = (sticky \/ n < Len(s))
      /\ IF open /\ ~sticky /\ n < Len(s)
         THEN faults' = faults + 1 /\ torn' = TRUE
         ELSE UNCHANGED <<faults, torn>>
  BY DEF Wrote
<1>5. Errors
  <2>1. sticky' \in BOOLEAN /\ (sticky => sticky')
    BY <1>4
  <2>2. CASE open /\ ~sticky /\ n < Len(s)
    <3>1. faults' = faults + 1 /\ torn' = TRUE /\ faults + 1 \in 0..MaxFaults
      BY <1>1, <1>3, <1>4, <2>2
    <3>2. sticky'
      BY <1>4, <2>2
    <3> QED BY <2>1, <3>1, <3>2 DEF Errors
  <2>3. CASE ~(open /\ ~sticky /\ n < Len(s))
    <3>1. faults' = faults /\ torn' = torn
      BY <1>4, <2>3
    <3>2. sticky' => sticky \/ ~open
      BY <1>4, <2>3
    <3> QED BY <1>1, <2>1, <3>1, <3>2 DEF Errors
  <2> QED BY <2>2, <2>3
<1>6. ~sticky' => n = Len(s)
  <2>1. ~sticky' => ~(n < Len(s))
    BY <1>4
  <2> QED BY <1>1, <1>2, <2>1
<1>7. (n > 0 => open) /\ (sticky => n = 0)
  BY <1>1, <1>2
<1>8. disk' = IF n = 0 THEN disk ELSE [disk EXCEPT ![0] = Content(0) \o SubSeq(s, 1, n)]
  BY DEF Wrote
<1> QED
  BY <1>2, <1>5, <1>6, <1>7, <1>8

-----------------------------------------------------------------------------
(* Flush *)

\* What is in the buffer goes to the end of the file, as far as the file takes it.
LEMMA FlushMoves ==
  ASSUME WriterTypeOK, FlushBuffer, taken' = taken
  PROVE  \E n \in 0..Len(buffer) : Moves(<<>>, n) /\ Errors /\ (~sticky' => n = Len(buffer))
<1>1. buffer \in Seq(Cell) /\ taken \in Seq(Cell) /\ <<>> \in Seq(Cell)
  BY DEF WriterTypeOK
<1>2. PICK n \in Takes(buffer) :
        Wrote(buffer, n) /\ buffer' = SubSeq(buffer, n + 1, Len(buffer))
  BY DEF FlushBuffer
<1>3. /\ n \in 0..Len(buffer) /\ (n > 0 => open) /\ (~sticky' => n = Len(buffer))
      /\ disk' = IF n = 0 THEN disk ELSE [disk EXCEPT ![0] = Content(0) \o SubSeq(buffer, 1, n)]
      /\ Errors
  BY <1>1, <1>2, WroteIs
<1>4. buffer \o <<>> = buffer /\ taken \o <<>> = taken
  BY <1>1, ExtendEmpty
<1>5. Moves(<<>>, n)
  BY <1>1, <1>2, <1>3, <1>4 DEF Moves
<1> QED
  BY <1>3, <1>5

\* The lines of the log stay as they are.
LEMMA FlushPieces ==
  ASSUME WriterInv, FlushBuffer, taken' = taken, cut' = cut, Hole' = Hole
  PROVE  /\ disk' \in [Backup -> Seq(Cell) \union {None}]
         /\ buffer' \in Seq(Cell) /\ taken' \in Seq(Cell) /\ Len(buffer') <= BufferSize
         /\ \A i \in Backup : disk[i] # None <=> disk'[i] # None
         /\ PiecesInv'
         /\ Log' = Log
         /\ FileGrows0
         /\ ~sticky' => buffer' = <<>> /\ Len(Content(0)') = Len(Content(0)) + Len(buffer)
         /\ Errors
<1>1. /\ WriterTypeOK /\ buffer \in Seq(Cell) /\ Len(buffer) <= BufferSize /\ BufferSize \in Nat
      /\ <<>> \in Seq(Cell) /\ Len(<<>>) = 0
  BY WriterAssumption DEF WriterInv, WriterTypeOK
<1>2. PICK n \in 0..Len(buffer) : Moves(<<>>, n) /\ Errors /\ (~sticky' => n = Len(buffer))
  BY <1>1, FlushMoves
<1>3. PICK e : e = <<>>
  OBVIOUS
<1>4. Moves(e, n)
  BY <1>2, <1>3
<1>5. /\ disk' \in [Backup -> Seq(Cell) \union {None}]
      /\ buffer' \in Seq(Cell) /\ taken' \in Seq(Cell)
      /\ \A i \in Backup : disk[i] # None <=> disk'[i] # None
      /\ PiecesInv'
      /\ Log' = Log \o e
      /\ FileGrows0
      /\ Len(Content(0)') = Len(Content(0)) + n
      /\ Len(buffer') = Len(buffer) + Len(e) - n
  BY <1>4, MovesPieces
<1>6. Len(buffer') = Len(buffer) - n /\ Len(buffer) \in Nat
  BY <1>1, <1>3, <1>5
<1>7. Len(buffer') <= BufferSize
  BY <1>1, <1>6
<1>8. Log' = Log
  BY <1>1, <1>3, <1>5, LogType, ExtendEmpty
<1>9. ~sticky' => buffer' = <<>> /\ Len(Content(0)') = Len(Content(0)) + Len(buffer)
  <2> SUFFICES ASSUME ~sticky'
               PROVE  buffer' = <<>> /\ Len(Content(0)') = Len(Content(0)) + Len(buffer)
    OBVIOUS
  <2>1. n = Len(buffer)
    BY <1>2
  <2>2. Len(buffer') = 0
    BY <1>6, <2>1
  <2> QED BY <1>5, <2>1, <2>2, NoCells
<1> QED
  BY <1>2, <1>5, <1>7, <1>8, <1>9

\* An error while the file is open is remembered until the program ends.
LEMMA TornStays ==
  ASSUME WriterInv, Errors, cut' = cut, ~Renaming, ~Ended
  PROVE  ~cut' => (sticky' => torn')
<1>1. ~cut => open /\ (sticky => torn)
  BY DEF WriterInv, OrderlyInv
<1> QED
  BY <1>1 DEF Errors

\* The file is no longer than what was counted.
LEMMA FlushSize ==
  ASSUME WriterInv, FlushBuffer, taken' = taken, cut' = cut, Hole' = Hole, spilled' = spilled, ~Ended,
         currentSize' = IF sticky' THEN currentSize ELSE currentSize + Len(buffer)
  PROVE  SizeInv' /\ currentSize' \in Nat
<1>1. buffer \in Seq(Cell) /\ currentSize \in Nat /\ Content(0) \in Seq(Cell)
  BY LogType DEF WriterInv, WriterTypeOK
<1>2. /\ Log' = Log /\ Errors
      /\ ~sticky' => Len(Content(0)') = Len(Content(0)) + Len(buffer)
  BY FlushPieces
<1>3. ~spilled => Fits((Content(0) \o buffer)')
  BY <1>2 DEF WriterInv, SizeInv, Log
<1>4. ~spilled /\ ~sticky' => Len(Content(0)') <= currentSize'
  <2> SUFFICES ASSUME ~spilled, ~sticky'
               PROVE  Len(Content(0)') <= currentSize'
    OBVIOUS
  <2>1. Len(Content(0)) <= currentSize
    BY <1>2 DEF WriterInv, SizeInv, Errors
  <2>2. currentSize' = currentSize + Len(buffer)
    OBVIOUS
  <2> QED BY <1>1, <1>2, <2>1, <2>2
<1>5. currentSize' \in Nat
  BY <1>1
<1> QED
  BY <1>3, <1>4, <1>5 DEF SizeInv, Fits, OneRecord

LEMMA FlushInv == WriterInv /\ Flush => WriterInv'
<1> SUFFICES ASSUME WriterInv, Flush
             PROVE  WriterInv'
  OBVIOUS
<1>1. /\ FlushBuffer /\ mutex = "free" /\ ~Ended
      /\ currentSize' = IF sticky' THEN currentSize ELSE currentSize + Len(buffer)
      /\ UNCHANGED <<open, mutex, shift, incoming, closing, written, taken, cut, spilled>>
  BY DEF Flush, Ended
<1>2. Hole' = {} /\ Hole = {} /\ ~Renaming /\ ~Renaming'
  BY <1>1 DEF Hole, Renaming
<1>3. /\ disk' \in [Backup -> Seq(Cell) \union {None}]
      /\ buffer' \in Seq(Cell) /\ Len(buffer') <= BufferSize
      /\ \A i \in Backup : disk[i] # None <=> disk'[i] # None
      /\ PiecesInv' /\ Errors
  BY <1>1, <1>2, FlushPieces
<1>4. SizeInv' /\ currentSize' \in Nat
  BY <1>1, <1>2, FlushSize
<1>5. WriterTypeOK'
  BY <1>1, <1>3, <1>4 DEF WriterInv, WriterTypeOK, Errors
<1>6. PhaseInv'
  BY <1>1, <1>2, <1>3, Backups DEF WriterInv, PhaseInv, Ended
<1>7. OrderlyInv'
  BY <1>1, <1>2, <1>3, TornStays, Backups DEF WriterInv, OrderlyInv, Ended
<1> QED
  BY <1>3, <1>4, <1>5, <1>6, <1>7 DEF WriterInv

\* Close is the end of an orderly program: unless a write fails, its buffer is empty.
LEMMA FinishCloseInv == WriterInv /\ FinishClose => WriterInv'
<1> SUFFICES ASSUME WriterInv, FinishClose
             PROVE  WriterInv'
  OBVIOUS
<1>1. /\ FlushBuffer /\ mutex = "free" /\ closing = "drained" /\ closing' = "closed" /\ open' = FALSE
      /\ UNCHANGED <<currentSize, mutex, shift, incoming, written, taken, cut, spilled>>
  BY DEF FinishClose
<1>2. Hole' = {} /\ Hole = {} /\ ~Renaming /\ ~Renaming' /\ ~Ended
  BY <1>1 DEF Hole, Renaming, Ended
<1>3. /\ disk' \in [Backup -> Seq(Cell) \union {None}]
      /\ buffer' \in Seq(Cell) /\ Len(buffer') <= BufferSize
      /\ \A i \in Backup : disk[i] # None <=> disk'[i] # None
      /\ PiecesInv' /\ Log' = Log /\ Errors
      /\ ~sticky' => buffer' = <<>>
  BY <1>1, <1>2, FlushPieces
<1>4. WriterTypeOK'
  BY <1>1, <1>3 DEF WriterInv, WriterTypeOK, Errors
<1>5. PhaseInv'
  BY <1>1, <1>2, <1>3 DEF WriterInv, PhaseInv, Ended
<1>6. OrderlyInv'
  <2>1. ~cut' => (sticky' => torn')
    BY <1>1, <1>2, <1>3, TornStays
  <2> QED BY <1>1, <1>2, <1>3, <2>1, Backups DEF WriterInv, OrderlyInv, Ended
<1>7. SizeInv'
  <2>1. ~spilled => Fits((Content(0) \o buffer)')
    BY <1>3 DEF WriterInv, SizeInv, Log
  <2> QED BY <1>1, <2>1 DEF SizeInv, Fits, OneRecord, Ended
<1> QED
  BY <1>3, <1>4, <1>5, <1>6, <1>7 DEF WriterInv

\* What is in the files, the buffer and the rotation stays.
Still == UNCHANGED <<disk, buffer, taken, cut, torn, spilled, currentSize, open, mutex, shift, incoming>>

LEMMA StillInv ==
  ASSUME WriterInv, Still, written' \in 0..MaxRecords, UNCHANGED <<closing, faults, sticky>>
  PROVE  WriterInv'
<1>1. \A i : Content(i)' = Content(i)
  BY NoFileMoves DEF Still
<1>2. Hole' = Hole
  BY DEF Hole, Still
<1>3. WriterTypeOK'
  BY DEF WriterInv, WriterTypeOK, Still
<1>4. PhaseInv' /\ OrderlyInv'
  BY <1>1, <1>2 DEF WriterInv, PhaseInv, OrderlyInv, Ended, Still, OneRecord, Renaming
<1>5. PiecesInv'
  <2>1. PICK p : Cuts(p) /\ Complete(p)
    BY DEF WriterInv, PiecesInv
  <2>2. Cuts(p)'
    BY <1>1, <2>1, SamePieces DEF Still
  <2>3. Complete(p)'
    BY <1>2, <2>1 DEF Complete, Still
  <2> QED BY <2>2, <2>3 DEF PiecesInv
<1>6. SizeInv'
  BY <1>1 DEF WriterInv, SizeInv, Fits, OneRecord, Ended, Still
<1> QED
  BY <1>3, <1>4, <1>5, <1>6 DEF WriterInv

\* A record is a sequence of cells of one record.
LEMMA RecordIs ==
  ASSUME NEW r \in 1..MaxRecords, NEW n \in Nat
  PROVE  Record(r, n) \in Seq(Cell) /\ Len(Record(r, n)) = n /\ OneRecord(Record(r, n))
<1>1. \A i \in 1..n : [rec |-> r, at |-> i, eol |-> i = n] \in Cell
  BY DEF Cell
<1>2. Record(r, n) \in Seq(Cell) /\ Len(Record(r, n)) = n
  BY <1>1 DEF Record
<1>3. \A i \in 1..n : Record(r, n)[i].rec = r
  BY DEF Record
<1> QED
  BY <1>2, <1>3 DEF OneRecord

-----------------------------------------------------------------------------
(* Write *)

\* What the buffer takes of a record is its beginning, and all of it unless a write fails.
LEMMA PutMoves ==
  ASSUME WriterTypeOK, NEW x \in Seq(Cell), Put(x)
  PROVE  \E k \in 0..Len(x), n \in Nat :
           /\ Moves(SubSeq(x, 1, k), n) /\ Errors
           /\ Len(buffer) + k - n <= BufferSize
           /\ spilled' = (spilled \/ n > 0)
           /\ ~sticky' => k = Len(x)
           /\ sticky => k = 0 /\ n = 0
           /\ UNCHANGED <<open, currentSize>>
<1>1. /\ buffer \in Seq(Cell) /\ taken \in Seq(Cell) /\ Len(buffer) <= BufferSize /\ <<>> \in Seq(Cell)
      /\ BufferSize \in Nat \ {0} /\ Len(buffer) \in Nat /\ Len(x) \in Nat /\ Len(<<>>) = 0
      /\ sticky \in BOOLEAN /\ torn \in BOOLEAN /\ faults \in 0..MaxFaults /\ spilled \in BOOLEAN
  BY WriterAssumption DEF WriterTypeOK
<1>2. CASE sticky
  <2>1. UNCHANGED <<disk, open, buffer, sticky, currentSize, taken, faults, torn, spilled>>
    BY <1>2 DEF Put, file
  <2>2. SubSeq(x, 1, 0) = <<>>
    <3>1. SubSeq(x, 1, 0) \in Seq(Cell) /\ Len(SubSeq(x, 1, 0)) = 0
      BY <1>1, CutAt
    <3> QED BY <3>1, NoCells
  <2>3. buffer \o <<>> = buffer /\ taken \o <<>> = taken
    BY <1>1, ExtendEmpty
  <2>4. SubSeq(buffer, 0 + 1, Len(buffer)) = buffer
    BY <1>1
  <2>5. Moves(SubSeq(x, 1, 0), 0)
    BY <1>1, <2>1, <2>2, <2>3, <2>4 DEF Moves
  <2>6. Errors
    BY <1>1, <2>1 DEF Errors
  <2>7. 0 \in 0..Len(x) /\ 0 \in Nat /\ Len(buffer) + 0 - 0 <= BufferSize /\ spilled' = (spilled \/ 0 > 0)
    BY <1>1, <2>1
  <2> QED BY <1>2, <2>1, <2>5, <2>6, <2>7
<1>3. CASE ~sticky
  <2>1. PICK y, s : y = buffer \o x /\ s = Spills(buffer, x)
    OBVIOUS
  <2>2. /\ y \in Seq(Cell) /\ Len(y) = Len(buffer) + Len(x)
        /\ \A i \in 1..Len(buffer) : y[i] = buffer[i]
        /\ \A i \in 1..Len(x) : y[Len(buffer) + i] = x[i]
    BY <1>1, <2>1, ConcatCells
  <2>3. /\ s \in 0..Len(y) /\ Len(y) - s <= BufferSize
        /\ s > 0 => Len(y) > BufferSize /\ (s = Len(y) \/ (s = BufferSize /\ buffer # <<>>))
    BY <1>1, <2>1, <2>2 DEF Spills
  <2>4. PICK out : out = SubSeq(y, 1, s)
    OBVIOUS
  <2>5. out \in Seq(Cell) /\ Len(out) = s /\ \A i \in 1..s : out[i] = y[i]
    BY <2>2, <2>3, <2>4
  <2>6. PICK n \in Takes(out) :
          LET front == IF n = Len(out) THEN x ELSE TakenOf(buffer, x, n)
              log   == buffer \o front
          IN /\ Wrote(out, n)
             /\ buffer' = SubSeq(log, n + 1, Len(log))
             /\ taken' = taken \o front
             /\ spilled' = (spilled \/ n > 0)
    BY <1>3, <2>1, <2>4 DEF Put
  <2>7. UNCHANGED <<open, currentSize>>
    BY <1>3 DEF Put
  <2>8. /\ n \in 0..s /\ (n > 0 => open) /\ (~sticky' => n = s)
        /\ disk' = IF n = 0 THEN disk ELSE [disk EXCEPT ![0] = Content(0) \o SubSeq(out, 1, n)]
        /\ Errors
    <3>1. Wrote(out, n)
      BY <2>6
    <3> QED BY <2>5, <2>6, <3>1, WroteIs
  <2>9. PICK k \in 0..Len(x) :
          /\ (IF n = Len(out) THEN x ELSE TakenOf(buffer, x, n)) = SubSeq(x, 1, k)
          /\ n = s => k = Len(x)
          /\ n <= Len(buffer) + k /\ Len(buffer) + k - n <= BufferSize
    <3>1. CASE n = s
      <4>1. SubSeq(x, 1, Len(x)) = x
        OBVIOUS
      <4>2. Len(x) \in 0..Len(x) /\ n <= Len(buffer) + Len(x) /\ Len(buffer) + Len(x) - n <= BufferSize
        BY <1>1, <2>2, <2>3, <3>1
      <4> QED BY <2>5, <3>1, <4>1, <4>2
    <3>2. CASE n # s
      <4>1. PICK k : k = (IF buffer = <<>> \/ n > BufferSize THEN n ELSE BufferSize) - Len(buffer)
        OBVIOUS
      <4>2. n < s /\ n \in Nat /\ s > 0
        BY <2>3, <2>8, <3>2
      <4>3. buffer = <<>> => Len(buffer) = 0
        BY <1>1
      <4>4. k \in 0..Len(x) /\ n <= Len(buffer) + k /\ Len(buffer) + k - n <= BufferSize
        BY <1>1, <2>2, <2>3, <4>1, <4>2, <4>3, SMTT(30)
      <4>5. TakenOf(buffer, x, n) = SubSeq(x, 1, k)
        BY <4>1 DEF TakenOf
      <4> QED BY <2>5, <3>2, <4>4, <4>5
    <3> QED BY <3>1, <3>2
  <2>10. PICK t, log : t = SubSeq(x, 1, k) /\ log = buffer \o t
    OBVIOUS
  <2>11. t \in Seq(Cell) /\ Len(t) = k /\ \A i \in 1..k : t[i] = x[i]
    BY <2>10
  <2>12. /\ log \in Seq(Cell) /\ Len(log) = Len(buffer) + k
         /\ \A i \in 1..Len(buffer) : log[i] = buffer[i]
         /\ \A i \in 1..k : log[Len(buffer) + i] = t[i]
    BY <1>1, <2>10, <2>11, ConcatCells
  <2>13. buffer' = SubSeq(log, n + 1, Len(log)) /\ taken' = taken \o t /\ spilled' = (spilled \/ n > 0)
    BY <2>6, <2>9, <2>10
  <2>14. ASSUME NEW i \in 1..n
         PROVE  out[i] = log[i]
    <3>1. i \in 1..s
      BY <2>3, <2>8
    <3>2. out[i] = y[i]
      BY <2>5, <3>1
    <3>3. CASE i \in 1..Len(buffer)
      BY <2>2, <2>12, <3>2, <3>3
    <3>4. CASE i \notin 1..Len(buffer)
      <4>1. PICK j : j = i - Len(buffer)
        OBVIOUS
      <4>2. j \in 1..k /\ j \in 1..Len(x) /\ i = Len(buffer) + j
        BY <1>1, <2>8, <2>9, <3>4, <4>1
      <4> QED BY <2>2, <2>11, <2>12, <3>2, <4>2
    <3> QED BY <3>3, <3>4
  <2>15. SubSeq(out, 1, n) = SubSeq(log, 1, n)
    <3>1. n \in 0..Len(out) /\ n <= Len(log)
      BY <2>5, <2>8, <2>9, <2>12
    <3> QED BY <2>5, <2>12, <2>14, <3>1, SameBeginning
  <2>16. n \in 0..Len(log) /\ n \in Nat
    BY <1>1, <2>3, <2>8, <2>9, <2>12
  <2>17. Moves(t, n)
    BY <2>8, <2>10, <2>11, <2>13, <2>15, <2>16 DEF Moves
  <2>18. ~sticky' => k = Len(x)
    BY <2>8, <2>9
  <2> QED BY <1>3, <2>7, <2>8, <2>9, <2>10, <2>13, <2>16, <2>17, <2>18
<1> QED
  BY <1>1, <1>2, <1>3

\* The beginning of a record.
LEMMA OneRecordPart ==
  ASSUME NEW x \in Seq(Cell), OneRecord(x), NEW k \in 0..Len(x)
  PROVE  OneRecord(SubSeq(x, 1, k))
<1>1. Len(SubSeq(x, 1, k)) = k /\ \A i \in 1..k : SubSeq(x, 1, k)[i] = x[i] /\ i \in 1..Len(x)
  OBVIOUS
<1> QED
  BY <1>1 DEF OneRecord

\* A record that is put into the buffer: it fits, or there is nothing else.
LEMMA PutInv ==
  ASSUME WriterInv, mutex \in {"free", "put"}, ~Ended, NEW x \in Seq(Cell), OneRecord(x), Put(x),
         \/ currentSize + Len(buffer) + Len(x) <= MaxSize
         \/ currentSize = 0 /\ buffer = <<>>,
         written' \in 0..MaxRecords, mutex' = "free", incoming' \in Seq(Cell), OneRecord(incoming'),
         UNCHANGED <<shift, closing, cut>>
  PROVE  WriterInv'
<1>1. /\ WriterTypeOK /\ buffer \in Seq(Cell) /\ Content(0) \in Seq(Cell) /\ Log \in Seq(Cell)
      /\ Len(Log) = Len(Content(0)) + Len(buffer)
      /\ currentSize \in Nat /\ MaxSize \in Nat /\ Len(x) \in Nat /\ Len(buffer) \in Nat
      /\ Len(Content(0)) \in Nat
  <2>1. WriterTypeOK
    BY DEF WriterInv
  <2>2. /\ buffer \in Seq(Cell) /\ Content(0) \in Seq(Cell) /\ Log \in Seq(Cell)
        /\ Len(Log) = Len(Content(0)) + Len(buffer)
    BY <2>1, LogType
  <2>3. Len(x) \in Nat /\ Len(buffer) \in Nat /\ Len(Content(0)) \in Nat
    BY <2>2, LenNat
  <2>4. currentSize \in Nat /\ MaxSize \in Nat
    BY <2>1, WriterAssumption DEF WriterTypeOK
  <2> QED BY <2>1, <2>2, <2>3, <2>4
<1>2. PICK k \in 0..Len(x), n \in Nat :
        /\ Moves(SubSeq(x, 1, k), n) /\ Errors
        /\ Len(buffer) + k - n <= BufferSize
        /\ spilled' = (spilled \/ n > 0)
        /\ ~sticky' => k = Len(x)
        /\ sticky => k = 0 /\ n = 0
        /\ UNCHANGED <<open, currentSize>>
  BY <1>1, PutMoves
<1>3. PICK t : t = SubSeq(x, 1, k)
  OBVIOUS
<1>4. t \in Seq(Cell) /\ Len(t) = k /\ OneRecord(t)
  BY <1>3, OneRecordPart
<1>5. Hole' = {} /\ Hole = {} /\ ~Renaming /\ ~Renaming'
  BY DEF Hole, Renaming
<1>6. /\ disk' \in [Backup -> Seq(Cell) \union {None}]
      /\ buffer' \in Seq(Cell) /\ taken' \in Seq(Cell)
      /\ \A i \in Backup : disk[i] # None <=> disk'[i] # None
      /\ PiecesInv'
      /\ Log' = Log \o t
      /\ n = 0 => Content(0)' = Content(0)
      /\ Len(buffer') = Len(buffer) + Len(t) - n
  <2>1. Moves(t, n)
    BY <1>2, <1>3
  <2> QED BY <1>5, <2>1, MovesPieces
<1>7. WriterTypeOK'
  <2>1. Len(buffer') <= BufferSize
    BY <1>2, <1>4, <1>6
  <2>2. spilled' \in BOOLEAN
    BY <1>2
  <2> QED BY <1>2, <1>6, <2>1, <2>2 DEF WriterInv, WriterTypeOK, Errors
<1>8. PhaseInv'
  BY <1>2, <1>5, <1>6, Backups DEF WriterInv, PhaseInv, Ended, OneRecord
<1>9. OrderlyInv'
  <2>1. ~cut' => (sticky' => torn')
    BY <1>2, <1>5, TornStays
  <2> QED BY <1>2, <1>5, <1>6, <2>1, Backups DEF WriterInv, OrderlyInv, Ended
<1>10. SizeInv'
  <2> SUFFICES ASSUME ~spilled'
               PROVE  Fits(Log') /\ (~sticky' => Len(Content(0)') <= currentSize')
    BY DEF SizeInv, Fits, OneRecord, Log
  <2>1. ~spilled /\ n = 0 /\ Content(0)' = Content(0)
    <3>1. ~spilled /\ ~(n > 0)
      BY <1>2
    <3>2. n = 0
      BY <1>2, <3>1
    <3> QED BY <1>6, <3>1, <3>2
  <2>2. ~sticky => Len(Content(0)) <= currentSize
    BY <2>1 DEF WriterInv, SizeInv
  <2>3. CASE sticky
    <3>1. k = 0
      BY <1>2, <2>3
    <3>2. t = <<>>
      BY <1>4, <3>1, NoCells
    <3>3. Log' = Log
      BY <1>1, <1>6, <3>2, ExtendEmpty
    <3>4. sticky'
      BY <1>2, <2>3 DEF Errors
    <3> QED BY <2>1, <3>3, <3>4 DEF WriterInv, SizeInv, Log, Fits, OneRecord
  <2>4. CASE ~sticky
    <3>1. Len(Log \o t) = Len(Log) + Len(t)
      BY <1>1, <1>4, ConcatCells
    <3>2. CASE currentSize + Len(buffer) + Len(x) <= MaxSize
      <4>1. Len(Log) + Len(t) <= MaxSize
        BY <1>1, <1>4, <2>2, <2>4, <3>2
      <4>2. Len(Log') <= MaxSize
        BY <1>6, <3>1, <4>1
      <4> QED BY <1>2, <2>1, <2>2, <2>4, <4>2 DEF Fits
    <3>3. CASE currentSize = 0 /\ buffer = <<>>
      <4>1. Len(buffer) = 0
        BY <3>3
      <4>2. Len(Log) = 0
        BY <1>1, <2>2, <2>4, <3>3, <4>1
      <4>3. Log = <<>>
        BY <1>1, <4>2, NoCells
      <4>4. Log' = t
        BY <1>4, <1>6, <4>3, ExtendEmpty
      <4> QED BY <1>2, <1>4, <2>1, <2>2, <2>4, <4>4 DEF Fits
    <3> QED BY <3>2, <3>3
  <2> QED BY <2>3, <2>4
<1> QED
  BY <1>6, <1>7, <1>8, <1>9, <1>10 DEF WriterInv

\* The file is flushed and closed before it is renamed.
LEMMA BeginRotationInv ==
  ASSUME WriterInv, mutex = "free", ~Ended, NEW x \in Seq(Cell), OneRecord(x),
         BeginRotation(x), written' \in 0..MaxRecords,
         UNCHANGED <<shift, closing, cut>>
  PROVE  WriterInv'
<1>1. /\ FlushBuffer /\ UNCHANGED <<taken, spilled>>
      /\ currentSize' = IF sticky' THEN currentSize ELSE currentSize + Len(buffer)
      /\ IF sticky' \/ ~open
         THEN UNCHANGED <<open, mutex, incoming>>
         ELSE open' = FALSE /\ mutex' = "remove" /\ incoming' = x
  BY DEF BeginRotation
<1>2. Hole' = {} /\ Hole = {} /\ ~Renaming
  BY <1>1 DEF Hole, Renaming
<1>3. /\ disk' \in [Backup -> Seq(Cell) \union {None}]
      /\ buffer' \in Seq(Cell) /\ Len(buffer') <= BufferSize
      /\ \A i \in Backup : disk[i] # None <=> disk'[i] # None
      /\ PiecesInv' /\ Errors
      /\ ~sticky' => buffer' = <<>>
  BY <1>1, <1>2, FlushPieces
<1>4. SizeInv' /\ currentSize' \in Nat
  BY <1>1, <1>2, FlushSize
<1>5. ~cut' => (sticky' => torn')
  BY <1>2, <1>3, TornStays
<1>6. CASE sticky' \/ ~open
  <2>1. UNCHANGED <<open, mutex, incoming>>
    BY <1>1, <1>6
  <2>2. WriterTypeOK'
    BY <1>1, <1>3, <1>4, <2>1 DEF WriterInv, WriterTypeOK, Errors
  <2>3. PhaseInv'
    <3>1. mutex' = "free" /\ ~Renaming'
      BY <2>1 DEF Renaming
    <3>2. ~Ended'
      BY DEF Ended
    <3>3. open' => disk'[0] # None
      BY <1>3, <2>1, Backups DEF WriterInv, PhaseInv
    <3>4. \A i \in Hole' : disk'[i] = None
      BY <1>2
    <3>5. OneRecord(incoming')
      BY <2>1 DEF WriterInv, PhaseInv, OneRecord
    <3> QED BY <3>1, <3>2, <3>3, <3>4, <3>5 DEF PhaseInv, OneRecord
  <2>4. OrderlyInv'
    BY <1>2, <1>3, <1>5, <2>1, Backups DEF WriterInv, OrderlyInv, Ended, Renaming
  <2> QED BY <1>3, <1>4, <2>2, <2>3, <2>4 DEF WriterInv
<1>7. CASE ~(sticky' \/ ~open)
  <2>1. open /\ ~sticky' /\ open' = FALSE /\ mutex' = "remove" /\ incoming' = x /\ buffer' = <<>>
        /\ closing' = closing
    BY <1>1, <1>3, <1>7 DEF WriterInv, WriterTypeOK
  <2>2. WriterTypeOK'
    BY <1>1, <1>3, <1>4, <2>1 DEF WriterInv, WriterTypeOK, Errors
  <2>3. PhaseInv'
    <3>1. OneRecord(incoming')
      BY <2>1 DEF OneRecord
    <3>2. ~Ended' /\ mutex' # "put"
      BY <2>1 DEF Ended
    <3>3. \A i \in Hole' : disk'[i] = None
      BY <1>2
    <3> QED BY <2>1, <3>1, <3>2, <3>3 DEF PhaseInv, OneRecord
  <2>4. OrderlyInv'
    <3>1. disk'[0] # None
      BY <1>3, <2>1, Backups DEF WriterInv, PhaseInv
    <3> QED BY <1>2, <1>3, <1>5, <2>1, <3>1 DEF WriterInv, OrderlyInv, Ended, Renaming
  <2> QED BY <1>3, <1>4, <2>2, <2>3, <2>4 DEF WriterInv
<1> QED BY <1>6, <1>7

LEMMA WriteInv == WriterInv /\ (\E n \in RecordSize : Write(n)) => WriterInv'
<1> SUFFICES ASSUME WriterInv, NEW n \in RecordSize, Write(n)
             PROVE  WriterInv'
  OBVIOUS
<1>1. PICK x : x = Record(written + 1, n)
  OBVIOUS
<1>2. n \in Nat /\ written + 1 \in 1..MaxRecords /\ MaxRecords \in Nat
  BY WriterAssumption DEF Write, WriterInv, WriterTypeOK
<1>3. x \in Seq(Cell) /\ Len(x) = n /\ OneRecord(x)
  BY <1>1, <1>2, RecordIs
<1>4. /\ mutex = "free" /\ ~Ended /\ written' \in 0..MaxRecords
      /\ UNCHANGED <<shift, closing, cut>>
      /\ IF RotationDue(n) THEN BeginRotation(x) ELSE Put(x) /\ UNCHANGED <<mutex, incoming>>
  BY <1>1, <1>2 DEF Write, Ended
<1>5. CASE RotationDue(n)
  BY <1>3, <1>4, <1>5, BeginRotationInv
<1>6. CASE ~RotationDue(n)
  <2>1. \/ currentSize + Len(buffer) + Len(x) <= MaxSize
        \/ currentSize = 0 /\ buffer = <<>>
    <3>1. currentSize \in Nat /\ buffer \in Seq(Cell) /\ Len(buffer) \in Nat /\ MaxSize \in Nat
      BY WriterAssumption DEF WriterInv, WriterTypeOK
    <3> QED BY <1>2, <1>3, <1>6, <3>1 DEF RotationDue
  <2>2. incoming' \in Seq(Cell) /\ OneRecord(incoming')
    BY <1>4, <1>6 DEF WriterInv, WriterTypeOK, PhaseInv
  <2>3. Put(x) /\ mutex' = "free"
    BY <1>4, <1>6
  <2> QED BY <1>3, <1>4, <2>1, <2>2, <2>3, PutInv
<1> QED BY <1>5, <1>6

-----------------------------------------------------------------------------
(* Rotate *)

LEMMA RemoveOldestInv == WriterInv /\ RemoveOldest => WriterInv'
<1> SUFFICES ASSUME WriterInv, RemoveOldest
             PROVE  WriterInv'
  OBVIOUS
<1> DEFINE N == MaxBackups
<1>1. /\ mutex = "remove" /\ mutex' = "rename" /\ shift' = N - 1
      /\ disk' = [disk EXCEPT ![N] = None]
      /\ UNCHANGED <<open, buffer, sticky, currentSize, incoming, closing, written,
                     taken, faults, cut, torn, spilled>>
  BY DEF RemoveOldest, writerHistory
<1>2. N \in Nat \ {0} /\ Backup = 0..N /\ N \in Backup /\ 0 \in Backup
  BY Backups
<1>3. /\ disk \in [Backup -> Seq(Cell) \union {None}]
      /\ disk'[N] = None /\ \A i \in Backup : i # N => disk'[i] = disk[i]
      /\ disk' \in [Backup -> Seq(Cell) \union {None}]
  BY <1>1, <1>2 DEF WriterInv, WriterTypeOK
<1>4. Content(N)' = <<>> /\ \A i \in Backup : i # N => Content(i)' = Content(i)
  BY <1>2, <1>3 DEF Content
<1>5. Hole = {} /\ Hole' = {N}
  BY <1>1, <1>2 DEF Hole
<1>6. WriterTypeOK'
  BY <1>1, <1>2, <1>3 DEF WriterInv, WriterTypeOK
<1>7. PhaseInv'
  BY <1>1, <1>2, <1>3, <1>5 DEF WriterInv, PhaseInv, Ended, OneRecord, Renaming
<1>8. OrderlyInv'
  BY <1>1, <1>2, <1>3, <1>5 DEF WriterInv, OrderlyInv, Ended, Renaming
<1>9. PICK p : Cuts(p) /\ Complete(p)
  BY DEF WriterInv, PiecesInv
<1>10. /\ p \in [0..N + 1 -> Nat] /\ \A i \in 0..N + 1 : p[i] <= p[0]
       /\ IsPiece(buffer, taken, p[0], Len(taken))
       /\ \A i \in Backup : IsPiece(Content(i), taken, p[i + 1], p[i])
  BY <1>9 DEF Cuts
<1>11. PiecesInv'
  <2>1. CASE disk[N] = None
    <3>1. \A i \in Backup : Content(i)' = Content(i)
      BY <1>3, <2>1 DEF Content
    <3>2. Cuts(p)'
      BY <1>1, <1>9, <3>1, SamePieces
    <3>3. Complete(p)'
      BY <1>1, <1>2, <1>5, <1>9, <2>1 DEF Complete
    <3> QED BY <3>2, <3>3 DEF PiecesInv
  <2>2. CASE disk[N] # None
    <3>1. PICK q : q = [p EXCEPT ![N + 1] = p[N]]
      OBVIOUS
    <3>2. N \in 0..N + 1 /\ N + 1 \in 0..N + 1 /\ 0 \in 0..N + 1 /\ 0 # N + 1
      BY <1>2
    <3>3. /\ q \in [0..N + 1 -> Nat] /\ q[N + 1] = p[N] /\ q[0] = p[0]
          /\ \A i \in 0..N + 1 : i # N + 1 => q[i] = p[i]
      BY <1>10, <3>1, <3>2
    <3>4. \A i \in 0..N + 1 : q[i] <= q[0]
      BY <1>10, <3>2, <3>3
    <3>5. ASSUME NEW i \in Backup
          PROVE  IsPiece(Content(i)', taken', q[i + 1], q[i])
      <4>1. i \in 0..N + 1 /\ i + 1 \in 0..N + 1 /\ i # N + 1
        BY <1>2
      <4>2. CASE i = N
        <5>1. taken \in Seq(Cell) /\ p[N] \in Nat /\ p[N] <= Len(taken)
          <6>1. IsPiece(Content(N), taken, p[N + 1], p[N])
            BY <1>2, <1>10
          <6> QED BY <1>10, <3>2, <6>1 DEF WriterInv, WriterTypeOK, IsPiece
        <5>2. Len(<<>>) = 0
          OBVIOUS
        <5>3. IsPiece(<<>>, taken, p[N], p[N])
          BY <5>1, <5>2 DEF IsPiece
        <5> QED BY <1>1, <1>4, <3>3, <4>1, <4>2, <5>3
      <4>3. CASE i # N
        <5>1. q[i] = p[i] /\ q[i + 1] = p[i + 1] /\ Content(i)' = Content(i)
          BY <1>2, <1>4, <3>3, <4>1, <4>3
        <5> QED BY <1>1, <1>10, <5>1
      <4> QED BY <4>2, <4>3
    <3>6. Cuts(q)'
      BY <1>1, <1>10, <3>3, <3>4, <3>5 DEF Cuts
    <3>7. Complete(q)'
      BY <1>1, <1>2, <1>3, <1>5, <2>2 DEF Complete, WriterInv, OrderlyInv
    <3> QED BY <3>6, <3>7 DEF PiecesInv
  <2> QED BY <2>1, <2>2
<1>12. SizeInv'
  <2>1. Content(0)' = Content(0)
    BY <1>2, <1>4
  <2> QED BY <1>1, <2>1 DEF WriterInv, SizeInv, Fits, OneRecord, Ended
<1> QED
  BY <1>6, <1>7, <1>8, <1>11, <1>12 DEF WriterInv

LEMMA RenameInv == WriterInv /\ Rename => WriterInv'
<1> SUFFICES ASSUME WriterInv, Rename
             PROVE  WriterInv'
  OBVIOUS
<1> DEFINE N == MaxBackups
<1>0. PICK s : s = shift
  OBVIOUS
<1>1. /\ mutex = "rename" /\ mutex' = IF s = 0 THEN "create" ELSE "rename"
      /\ shift' = IF s = 0 THEN 0 ELSE s - 1
      /\ disk' = IF disk[s] = None THEN disk
                 ELSE [disk EXCEPT ![s + 1] = disk[s], ![s] = None]
      /\ UNCHANGED <<open, buffer, sticky, currentSize, incoming, closing, written,
                     taken, faults, cut, torn, spilled>>
  BY <1>0 DEF Rename, writerHistory
<1>2. /\ N \in Nat \ {0} /\ Backup = 0..N /\ s \in 0..N - 1
      /\ s \in Backup /\ s + 1 \in Backup /\ s # s + 1 /\ 0 \in Backup
  BY <1>0, Backups DEF WriterInv, WriterTypeOK
<1>3. Hole = {s + 1} /\ Hole' = {s} /\ disk[s + 1] = None
  BY <1>0, <1>1, <1>2 DEF Hole, WriterInv, PhaseInv
<1>4. /\ disk \in [Backup -> Seq(Cell) \union {None}]
      /\ disk'[s] = None /\ disk'[s + 1] = disk[s]
      /\ \A i \in Backup : i # s /\ i # s + 1 => disk'[i] = disk[i]
      /\ disk' \in [Backup -> Seq(Cell) \union {None}]
  BY <1>1, <1>2, <1>3 DEF WriterInv, WriterTypeOK
<1>5. /\ Content(s + 1) = <<>> /\ Content(s)' = <<>> /\ Content(s + 1)' = Content(s)
      /\ \A i \in Backup : i # s /\ i # s + 1 => Content(i)' = Content(i)
  BY <1>3, <1>4 DEF Content
<1>6. WriterTypeOK'
  <2>1. shift' \in 0..N - 1 /\ mutex' \in {"rename", "create"}
    BY <1>1, <1>2
  <2> QED BY <1>1, <1>4, <2>1 DEF WriterInv, WriterTypeOK
<1>7. PhaseInv'
  BY <1>1, <1>3, <1>4 DEF WriterInv, PhaseInv, Ended, OneRecord, Renaming
<1>8. OrderlyInv'
  <2> SUFFICES ASSUME ~cut
               PROVE  /\ sticky => torn
                      /\ closing = "closed" /\ ~torn => buffer = <<>>
                      /\ 0 \notin Hole' => disk'[0] # None
                      /\ \A i, j \in Backup \ Hole' : i < j /\ disk'[j] # None => disk'[i] # None
    BY <1>1 DEF OrderlyInv, Ended, Renaming
  <2>1. /\ sticky => torn
        /\ closing = "closed" /\ ~torn => buffer = <<>>
        /\ 0 \notin {s + 1} => disk[0] # None
        /\ \A i, j \in Backup \ {s + 1} : i < j /\ disk[j] # None => disk[i] # None
    BY <1>3 DEF WriterInv, OrderlyInv
  <2>2. disk[0] # None /\ 0 # s + 1
    BY <1>2, <2>1
  <2>3. 0 \notin Hole' => disk'[0] # None
    BY <1>2, <1>3, <1>4, <2>2
  <2>4. ASSUME NEW i \in Backup \ {s}, NEW j \in Backup \ {s}, i < j, disk'[j] # None
        PROVE  disk'[i] # None
    <3>1. CASE disk[s] = None
      <4>1. disk' = disk
        BY <1>1, <3>1
      <4>2. j # s + 1 /\ i \in Nat /\ j \in Nat
        BY <1>2, <1>3, <2>4, <4>1
      <4>3. ~(s < j)
        BY <1>2, <2>1, <2>4, <3>1, <4>1, <4>2
      <4>4. i # s + 1
        BY <1>2, <2>4, <4>2, <4>3
      <4> QED BY <2>1, <2>4, <4>1, <4>2, <4>4
    <3>2. CASE disk[s] # None
      <4>1. CASE i = s + 1
        BY <1>4, <3>2, <4>1
      <4>2. CASE i # s + 1
        <5>1. disk'[i] = disk[i]
          BY <1>4, <4>2
        <5>2. CASE j = s + 1
          <6>1. i < s
            BY <1>2, <2>4, <5>2
          <6> QED BY <1>2, <2>1, <3>2, <4>2, <5>1, <6>1
        <5>3. CASE j # s + 1
          BY <1>4, <2>1, <2>4, <4>2, <5>1, <5>3
        <5> QED BY <5>2, <5>3
      <4> QED BY <4>1, <4>2
    <3> QED BY <3>1, <3>2
  <2> QED BY <1>3, <2>1, <2>3, <2>4
<1>9. PICK p : Cuts(p) /\ Complete(p)
  BY DEF WriterInv, PiecesInv
<1>10. /\ p \in [0..N + 1 -> Nat] /\ \A i \in 0..N + 1 : p[i] <= p[0]
       /\ IsPiece(buffer, taken, p[0], Len(taken))
       /\ \A i \in Backup : IsPiece(Content(i), taken, p[i + 1], p[i])
  BY <1>9 DEF Cuts
<1>11. PiecesInv'
  <2>1. CASE disk[s] = None
    <3>1. \A i \in Backup : Content(i)' = Content(i)
      BY <1>1, <2>1, NoFileMoves
    <3>2. Cuts(p)'
      BY <1>1, <1>9, <3>1, SamePieces
    <3>3. Complete(p)'
      BY <1>1, <1>2, <1>3, <1>9, <2>1 DEF Complete
    <3> QED BY <3>2, <3>3 DEF PiecesInv
  <2>2. CASE disk[s] # None
    <3>1. PICK q : q = [p EXCEPT ![s + 1] = p[s]]
      OBVIOUS
    <3>2. s \in 0..N + 1 /\ s + 1 \in 0..N + 1 /\ 0 \in 0..N + 1 /\ 0 # s + 1 /\ N + 1 # s + 1 /\ N + 1 \in 0..N + 1
      BY <1>2
    <3>3. /\ q \in [0..N + 1 -> Nat] /\ q[s + 1] = p[s] /\ q[0] = p[0] /\ q[s] = p[s]
          /\ q[N + 1] = p[N + 1]
          /\ \A i \in 0..N + 1 : i # s + 1 => q[i] = p[i]
      BY <1>2, <1>10, <3>1, <3>2
    <3>4. \A i \in 0..N + 1 : q[i] <= q[0]
      BY <1>10, <3>2, <3>3
    <3>5. p[(s + 1) + 1] = p[s + 1]
      <4>1. IsPiece(<<>>, taken, p[(s + 1) + 1], p[s + 1])
        BY <1>2, <1>5, <1>10
      <4>2. Len(<<>>) = 0
        OBVIOUS
      <4>3. (s + 1) + 1 \in 0..N + 1
        BY <1>2
      <4> QED BY <1>10, <3>2, <4>1, <4>2, <4>3 DEF IsPiece
    <3>6. ASSUME NEW i \in Backup
          PROVE  IsPiece(Content(i)', taken', q[i + 1], q[i])
      <4>1. i \in 0..N + 1 /\ i + 1 \in 0..N + 1
        BY <1>2
      <4>2. IsPiece(Content(s), taken, p[s + 1], p[s])
        BY <1>2, <1>10
      <4>3. CASE i = s + 1
        <5>1. q[(s + 1) + 1] = p[s + 1]
          BY <1>2, <3>3, <3>5, <4>1, <4>3
        <5> QED BY <1>1, <1>5, <3>3, <4>2, <4>3, <5>1
      <4>4. CASE i = s
        <5>1. p[s] \in Nat /\ p[s] <= Len(taken)
          BY <1>10, <3>2, <4>2 DEF IsPiece, WriterInv, WriterTypeOK
        <5>2. Len(<<>>) = 0
          OBVIOUS
        <5>3. IsPiece(<<>>, taken, p[s], p[s])
          BY <5>1, <5>2 DEF IsPiece, WriterInv, WriterTypeOK
        <5> QED BY <1>1, <1>5, <3>3, <4>4, <5>3
      <4>5. CASE i # s /\ i # s + 1
        <5>1. q[i] = p[i] /\ q[i + 1] = p[i + 1] /\ Content(i)' = Content(i)
          BY <1>2, <1>5, <3>3, <4>1, <4>5
        <5> QED BY <1>1, <1>10, <5>1
      <4> QED BY <4>3, <4>4, <4>5
    <3>7. Cuts(q)'
      BY <1>1, <1>10, <3>3, <3>4, <3>6 DEF Cuts
    <3>8. Complete(q)'
      BY <1>1, <1>2, <1>3, <1>4, <1>9, <2>2, <3>3 DEF Complete
    <3> QED BY <3>7, <3>8 DEF PiecesInv
  <2> QED BY <2>1, <2>2
<1>12. SizeInv'
  <2>1. Content(0)' = Content(0) \/ Content(0)' = <<>>
    BY <1>2, <1>5
  <2>2. CASE Content(0)' = Content(0)
    BY <1>1, <2>2 DEF WriterInv, SizeInv, Fits, OneRecord, Ended
  <2>3. CASE Content(0)' = <<>>
    <3>1. <<>> \in Seq(Cell) /\ Len(<<>>) = 0 /\ currentSize \in Nat /\ MaxSize \in Nat
      BY WriterAssumption DEF WriterInv, WriterTypeOK
    <3>2. buffer' = <<>>
      BY <1>1 DEF WriterInv, PhaseInv
    <3>3. Content(0)' \o buffer' = <<>>
      BY <2>3, <3>1, <3>2, ExtendEmpty
    <3>4. Len(Content(0)' \o buffer') <= MaxSize /\ Len(Content(0)') <= currentSize'
      BY <1>1, <2>3, <3>1, <3>3
    <3> QED BY <3>4 DEF SizeInv, Fits
  <2> QED BY <2>1, <2>2, <2>3
<1> QED
  BY <1>6, <1>7, <1>8, <1>11, <1>12 DEF WriterInv

\* The new file is empty.
LEMMA CreateInv == WriterInv /\ Create => WriterInv'
<1> SUFFICES ASSUME WriterInv, Create
             PROVE  WriterInv'
  OBVIOUS
<1>1. PICK e : e = <<>>
  OBVIOUS
<1>2. /\ mutex = "create" /\ mutex' = "put"
      /\ disk' = [disk EXCEPT ![0] = e]
      /\ open' = TRUE /\ sticky' = FALSE /\ currentSize' = 0 /\ spilled' = FALSE
      /\ UNCHANGED <<buffer, shift, incoming, closing, written, taken, faults, cut, torn>>
  BY <1>1 DEF Create
<1>3. e \in Seq(Cell) /\ Len(e) = 0 /\ disk \in [Backup -> Seq(Cell) \union {None}]
  BY <1>1 DEF WriterInv, WriterTypeOK
<1>4. Hole = {0} /\ Hole' = {} /\ disk[0] = None /\ buffer = e /\ ~Ended /\ ~Renaming'
  BY <1>1, <1>2 DEF Hole, WriterInv, PhaseInv, Renaming
<1>5. /\ disk' \in [Backup -> Seq(Cell) \union {None}]
      /\ disk'[0] # None /\ \A i \in Backup : i # 0 => disk'[i] = disk[i]
      /\ Content(0)' = e /\ \A i \in Backup \ {0} : Content(i)' = Content(i)
  BY <1>2, <1>3, FileIs DEF WriterInv
<1>6. WriterTypeOK'
  BY <1>2, <1>5 DEF WriterInv, WriterTypeOK
<1>7. PhaseInv'
  BY <1>1, <1>2, <1>4, <1>5 DEF WriterInv, PhaseInv, Ended, OneRecord
<1>8. OrderlyInv'
  BY <1>2, <1>4, <1>5, Backups DEF WriterInv, OrderlyInv, Ended
<1>9. PiecesInv'
  <2>1. PICK p : Cuts(p) /\ Complete(p)
    BY DEF WriterInv, PiecesInv
  <2>2. Content(0) = e
    BY <1>1, <1>4 DEF Content
  <2>3. Cuts(p)'
    BY <1>2, <1>5, <2>1, <2>2, SamePieces
  <2>4. Complete(p)'
    BY <1>2, <1>4, <1>5, <2>1 DEF Complete
  <2> QED BY <2>3, <2>4 DEF PiecesInv
<1>10. SizeInv'
  <2>1. Content(0)' \o buffer' = e /\ OneRecord(e)
    BY <1>1, <1>2, <1>3, <1>4, <1>5, ExtendEmpty DEF OneRecord
  <2> QED BY <1>2, <1>3, <1>5, <2>1 DEF SizeInv, Fits, OneRecord
<1> QED
  BY <1>6, <1>7, <1>8, <1>9, <1>10 DEF WriterInv

\* The record the rotation was for is the first of the new file.
LEMMA FinishWriteInv == WriterInv /\ FinishWrite => WriterInv'
<1> SUFFICES ASSUME WriterInv, FinishWrite
             PROVE  WriterInv'
  OBVIOUS
<1>1. PICK x, e : x = incoming /\ e = <<>>
  OBVIOUS
<1>2. /\ mutex = "put" /\ Put(x) /\ mutex' = "free" /\ incoming' = e
      /\ UNCHANGED <<shift, closing, written, cut>>
  BY <1>1 DEF FinishWrite
<1>3. x \in Seq(Cell) /\ OneRecord(x) /\ ~Ended /\ currentSize = 0 /\ buffer = <<>>
  BY <1>1, <1>2 DEF WriterInv, WriterTypeOK, PhaseInv
<1>4. incoming' \in Seq(Cell) /\ OneRecord(incoming')
  BY <1>1, <1>2 DEF OneRecord
<1>5. written' \in 0..MaxRecords
  BY <1>2 DEF WriterInv, WriterTypeOK
<1> QED
  BY <1>2, <1>3, <1>4, <1>5, PutInv

\* A rotation that failed leaves everything where it is.
LEMMA RotationFailsInv == WriterInv /\ RotationFails => WriterInv'
<1> SUFFICES ASSUME WriterInv, RotationFails
             PROVE  WriterInv'
  OBVIOUS
<1>1. /\ Renaming /\ faults < MaxFaults /\ faults' = faults + 1 /\ cut' = TRUE
      /\ mutex' = "free" /\ incoming' = <<>>
      /\ UNCHANGED <<disk, open, buffer, sticky, currentSize, shift, closing, written, taken, torn, spilled>>
  BY DEF RotationFails, file
<1>2. \A i : Content(i)' = Content(i)
  BY <1>1, NoFileMoves
<1>3. <<>> \in Seq(Cell) /\ Len(<<>>) = 0 /\ Hole' = {} /\ MaxFaults \in Nat
  BY <1>1, WriterAssumption DEF Hole
<1>4. WriterTypeOK'
  BY <1>1, <1>3 DEF WriterInv, WriterTypeOK
<1>5. PhaseInv' /\ OrderlyInv'
  BY <1>1, <1>3 DEF WriterInv, PhaseInv, OrderlyInv, Ended, OneRecord, Renaming
<1>6. PiecesInv'
  <2>1. PICK p : Cuts(p)
    BY DEF WriterInv, PiecesInv
  <2>2. Cuts(p)'
    BY <1>1, <1>2, <2>1, SamePieces
  <2>3. Complete(p)'
    BY <1>1 DEF Complete
  <2> QED BY <2>2, <2>3 DEF PiecesInv
<1>7. SizeInv'
  BY <1>1, <1>2 DEF WriterInv, SizeInv, Fits, OneRecord, Ended
<1> QED
  BY <1>4, <1>5, <1>6, <1>7 DEF WriterInv

-----------------------------------------------------------------------------
(* The program *)

LEMMA SignalInv == WriterInv /\ (BeginClose \/ Drain) => WriterInv'
<1> SUFFICES ASSUME WriterInv, BeginClose \/ Drain
             PROVE  WriterInv'
  OBVIOUS
<1>1. /\ closing \in {"no", "signalled"} /\ closing' \in {"signalled", "drained"}
      /\ UNCHANGED <<disk, open, buffer, sticky, currentSize, mutex, shift, incoming, written,
                     taken, faults, cut, torn, spilled>>
  BY DEF BeginClose, Drain, file, writerHistory
<1>2. \A i : Content(i)' = Content(i)
  BY <1>1, NoFileMoves
<1>3. Hole' = Hole
  BY <1>1 DEF Hole
<1>4. WriterTypeOK'
  BY <1>1 DEF WriterInv, WriterTypeOK
<1>5. PhaseInv' /\ OrderlyInv'
  BY <1>1, <1>2, <1>3 DEF WriterInv, PhaseInv, OrderlyInv, Ended, OneRecord, Renaming
<1>6. PiecesInv'
  <2>1. PICK p : Cuts(p) /\ Complete(p)
    BY DEF WriterInv, PiecesInv
  <2>2. Cuts(p)'
    BY <1>1, <1>2, <2>1, SamePieces
  <2>3. Complete(p)'
    BY <1>1, <1>3, <2>1 DEF Complete
  <2> QED BY <2>2, <2>3 DEF PiecesInv
<1>7. SizeInv'
  BY <1>1, <1>2 DEF WriterInv, SizeInv, Fits, OneRecord, Ended
<1> QED
  BY <1>4, <1>5, <1>6, <1>7 DEF WriterInv

\* The beginning of a log that fits fits.
LEMMA FitsLess ==
  ASSUME NEW s \in Seq(Cell), NEW t \in Seq(Cell), Fits(s \o t)
  PROVE  Fits(s)
<1>1. /\ Len(s \o t) = Len(s) + Len(t) /\ Len(s) \in Nat /\ Len(t) \in Nat /\ MaxSize \in Nat
      /\ \A i \in 1..Len(s) : i \in 1..Len(s \o t) /\ (s \o t)[i] = s[i]
  BY WriterAssumption
<1>2. CASE Len(s \o t) <= MaxSize
  <2>1. Len(s) <= MaxSize
    BY <1>1, <1>2
  <2> QED BY <2>1 DEF Fits
<1>3. CASE OneRecord(s \o t)
  <2>1. OneRecord(s)
    BY <1>1, <1>3 DEF OneRecord
  <2> QED BY <2>1 DEF Fits
<1> QED BY <1>2, <1>3 DEF Fits

LEMMA StopInv == WriterInv /\ Stop => WriterInv'
<1> SUFFICES ASSUME WriterInv, Stop
             PROVE  WriterInv'
  OBVIOUS
<1>1. /\ closing # "down" /\ closing' = "down"
      /\ \/ closing = "closed" /\ UNCHANGED <<faults, cut>>
         \/ /\ closing # "closed" /\ faults < MaxFaults
            /\ faults' = faults + 1 /\ cut' = (cut \/ Renaming)
      /\ open' = FALSE /\ buffer' = <<>> /\ sticky' = FALSE /\ torn' = FALSE
      /\ taken' = SubSeq(taken, 1, Len(taken) - Len(buffer))
      /\ mutex' = "free" /\ shift' = 0 /\ incoming' = <<>>
      /\ UNCHANGED <<disk, currentSize, written, spilled>>
  BY DEF Stop
<1>2. \A i : Content(i)' = Content(i)
  BY <1>1, NoFileMoves
<1>3. /\ <<>> \in Seq(Cell) /\ Len(<<>>) = 0 /\ Hole' = {} /\ MaxFaults \in Nat
      /\ MaxBackups \in Nat \ {0} /\ BufferSize \in Nat
  BY <1>1, WriterAssumption DEF Hole
<1>4. buffer \in Seq(Cell) /\ taken \in Seq(Cell)
  BY DEF WriterInv, WriterTypeOK
<1>5. PICK p : Cuts(p) /\ Complete(p)
  BY DEF WriterInv, PiecesInv
<1>6. p[0] \in 0..Len(taken) /\ p[0] = Len(taken) - Len(buffer)
  BY <1>4, <1>5 DEF Cuts, IsPiece
<1>7. taken' = SubSeq(taken, 1, p[0]) /\ taken' \in Seq(Cell) /\ Len(taken') = p[0]
  <2>1. taken' = SubSeq(taken, 1, p[0])
    BY <1>1, <1>6
  <2> QED BY <1>4, <1>6, <2>1
<1>8. WriterTypeOK'
  <2>0. faults' \in 0..MaxFaults
    BY <1>1, <1>3 DEF WriterInv, WriterTypeOK
  <2>1. faults' \in 0..MaxFaults /\ cut' \in BOOLEAN
    <3>1. cut \in BOOLEAN
      BY DEF WriterInv, WriterTypeOK
    <3>2. cut' = cut \/ cut' = (cut \/ Renaming)
      BY <1>1
    <3> QED BY <2>0, <3>1, <3>2
  <2>2. shift' \in 0..MaxBackups - 1
    BY <1>1, <1>3
  <2>3. buffer' \in Seq(Cell) /\ Len(buffer') <= BufferSize /\ incoming' \in Seq(Cell)
    BY <1>1, <1>3
  <2> QED BY <1>1, <1>7, <2>1, <2>2, <2>3 DEF WriterInv, WriterTypeOK
<1>9. PhaseInv'
  BY <1>1, <1>3 DEF PhaseInv, Ended, OneRecord, Renaming
<1>10. ~cut' => ~cut /\ Hole = {}
  <2>1. closing = "closed" => mutex = "free"
    BY DEF WriterInv, PhaseInv, Ended
  <2> QED BY <1>1, <2>1 DEF Hole, Renaming, WriterInv, WriterTypeOK
<1>11. OrderlyInv'
  BY <1>1, <1>3, <1>10 DEF WriterInv, OrderlyInv, Ended, Renaming
<1>12. PiecesInv'
  <2>1. /\ p \in [0..MaxBackups + 1 -> Nat] /\ \A i \in 0..MaxBackups + 1 : p[i] <= p[0]
        /\ \A i \in Backup : IsPiece(Content(i), taken, p[i + 1], p[i])
    BY <1>5 DEF Cuts
  <2>2. IsPiece(<<>>, taken', p[0], Len(taken'))
    BY <1>3, <1>6, <1>7 DEF IsPiece
  <2>3. ASSUME NEW i \in Backup
        PROVE  IsPiece(Content(i)', taken', p[i + 1], p[i])
    <3>1. i \in 0..MaxBackups + 1
      BY Backups
    <3>2. Content(i) \in Seq(Cell)
      BY ContentType DEF WriterInv
    <3>3. IsPiece(Content(i), taken, p[i + 1], p[i]) /\ p[i] <= p[0]
      BY <2>1, <3>1
    <3>4. IsPiece(Content(i), SubSeq(taken, 1, p[0]), p[i + 1], p[i])
      BY <1>4, <1>6, <3>2, <3>3, PieceOfLess
    <3> QED BY <1>2, <1>7, <3>4
  <2>4. Cuts(p)'
    BY <1>1, <2>1, <2>2, <2>3 DEF Cuts
  <2>5. Complete(p)'
    BY <1>1, <1>3, <1>5, <1>10 DEF Complete
  <2> QED BY <2>4, <2>5 DEF PiecesInv
<1>13. SizeInv'
  <2>1. Content(0) \in Seq(Cell)
    BY ContentType, Backups DEF WriterInv
  <2>2. Content(0)' \o buffer' = Content(0)
    BY <1>1, <1>2, <2>1, ExtendEmpty
  <2>3. ~spilled => Fits(Content(0))
    BY <1>4, <2>1, FitsLess DEF WriterInv, SizeInv
  <2>4. ~spilled => Fits((Content(0) \o buffer)')
    BY <2>2, <2>3
  <2> QED BY <1>1, <2>4 DEF SizeInv, Fits, OneRecord, Ended
<1> QED
  BY <1>8, <1>9, <1>11, <1>12, <1>13 DEF WriterInv

LEMMA StartInv == WriterInv /\ Start => WriterInv'
<1> SUFFICES ASSUME WriterInv, Start
             PROVE  WriterInv'
  OBVIOUS
<1>1. /\ closing = "down" /\ closing' = "no"
      /\ disk' = [disk EXCEPT ![0] = Content(0)]
      /\ open' = TRUE /\ currentSize' = Len(Content(0))
      /\ UNCHANGED <<buffer, sticky, mutex, shift, incoming, written, taken, faults, cut, torn, spilled>>
  BY DEF Start, writerHistory
<1>2. Content(0) \in Seq(Cell) /\ Len(Content(0)) \in Nat
  BY ContentType, Backups DEF WriterInv
<1>3. /\ disk' \in [Backup -> Seq(Cell) \union {None}]
      /\ disk'[0] # None /\ \A i \in Backup : i # 0 => disk'[i] = disk[i]
      /\ Content(0)' = Content(0) /\ \A i \in Backup \ {0} : Content(i)' = Content(i)
  BY <1>1, <1>2, FileIs DEF WriterInv
<1>4. mutex = "free" /\ Hole = {} /\ Hole' = {}
  BY <1>1 DEF Hole, WriterInv, PhaseInv, Ended
<1>5. WriterTypeOK'
  BY <1>1, <1>2, <1>3 DEF WriterInv, WriterTypeOK
<1>6. PhaseInv'
  BY <1>1, <1>3, <1>4 DEF WriterInv, PhaseInv, Ended, OneRecord, Renaming
<1>7. OrderlyInv'
  BY <1>1, <1>3, <1>4, Backups DEF WriterInv, OrderlyInv, Ended, Renaming
<1>8. PiecesInv'
  <2>1. PICK p : Cuts(p) /\ Complete(p)
    BY DEF WriterInv, PiecesInv
  <2>2. \A i \in Backup : Content(i)' = Content(i)
    BY <1>3
  <2>3. Cuts(p)'
    BY <1>1, <2>1, <2>2, SamePieces
  <2>4. Complete(p)'
    BY <1>1, <1>3, <1>4, <2>1 DEF Complete
  <2> QED BY <2>3, <2>4 DEF PiecesInv
<1>9. SizeInv'
  <2>1. ~spilled => Fits((Content(0) \o buffer)')
    BY <1>1, <1>3 DEF WriterInv, SizeInv
  <2> QED BY <1>1, <1>2, <1>3, <2>1 DEF SizeInv, Fits, OneRecord
<1> QED
  BY <1>5, <1>6, <1>7, <1>8, <1>9 DEF WriterInv

-----------------------------------------------------------------------------

LEMMA WriterStutters == WriterInv /\ UNCHANGED writer => WriterInv'
<1> SUFFICES ASSUME WriterInv, UNCHANGED writer
             PROVE  WriterInv'
  OBVIOUS
<1>1. Still /\ UNCHANGED <<closing, faults, sticky, written>>
  BY DEF writer, file, writerHistory, Still
<1> QED
  BY <1>1, StillInv DEF WriterInv, WriterTypeOK

\* Whatever readers do, the writer goes on as it does by itself.
LEMMA NextInv == WriterInv /\ [LogNext]_logVars => WriterInv'
<1> SUFFICES ASSUME WriterInv, [LogNext]_logVars
             PROVE  WriterInv'
  OBVIOUS
<1>1. Operate => WriterInv'
  BY WriteInv, RotationFailsInv, FlushInv, SignalInv, FinishCloseInv, StartInv DEF Operate
<1>2. Rotate => WriterInv'
  BY RemoveOldestInv, RenameInv, CreateInv, FinishWriteInv DEF Rotate
<1>3. Reading => Flush \/ UNCHANGED writer
  BY DEF Reading, List, FlushFirst, Subscribe, TickFollow, Stat, ReadRange, Send, Cancel
<1> QED
  BY <1>1, <1>2, <1>3, FlushInv, StopInv, WriterStutters
     DEF LogNext, Writing, Rotating, Halt, logVars

LEMMA WriterInvAlways == LogSpec => []WriterInv
<1>1. LogInit => WriterInv
  BY WriterInit DEF LogInit
<1> QED
  BY <1>1, NextInv, PTL DEF LogSpec

\* The files and the buffer hold the newest of what the buffer took, whatever write fails
\* and whatever interrupts a rotation, for any sizes of records, buffer and file and any
\* number of backups.
THEOREM NewestKept == LogSpec => []KeepsNewest
<1>1. ASSUME WriterInv
      PROVE  KeepsNewest
  <2>1. PICK p : Cuts(p) /\ Complete(p)
    BY <1>1 DEF WriterInv, PiecesInv
  <2>2. IsSuffix(Kept, taken) /\ (p[MaxBackups + 1] = 0 => Kept = taken)
    BY <1>1, <2>1, KeptIsSuffix DEF WriterInv
  <2>3. p[MaxBackups + 1] \in Nat
    BY <2>1, Backups DEF Cuts
  <2>4. ~cut /\ ~Renaming /\ Kept # taken => \A i \in Backup : disk[i] # None
    BY <2>1, <2>2, <2>3 DEF Complete, Hole, Renaming
  <2>5. ~cut /\ ~torn /\ closing = "closed" => buffer = <<>>
    BY <1>1 DEF WriterInv, OrderlyInv
  <2> QED BY <2>2, <2>4, <2>5 DEF KeepsNewest
<1> QED
  BY <1>1, WriterInvAlways, PTL

\* The file keeps to its size for as long as the bufio.Writer has not written by itself.
THEOREM FlushedFits == LogSpec => []FlushedLogFits
<1>1. ASSUME WriterInv
      PROVE  FlushedLogFits
  <2> SUFFICES ASSUME ~spilled
               PROVE  LogFitsMaxSize
    BY DEF FlushedLogFits
  <2>1. PICK s : s = Content(0) \o buffer
    OBVIOUS
  <2>2. Fits(s)
    BY <1>1, <2>1 DEF WriterInv, SizeInv
  <2>3. s \in Seq(Cell) /\ MaxSize \in Nat
    BY <1>1, <2>1, ContentType, Backups, WriterAssumption DEF WriterInv, WriterTypeOK
  <2>4. Len(s) <= MaxSize \/ \A c \in ToSet(s) : c.rec = s[1].rec
    <3>1. ASSUME OneRecord(s), NEW c \in ToSet(s)
          PROVE  c.rec = s[1].rec
      <4>1. PICK i \in 1..Len(s) : c = s[i]
        BY <2>3 DEF ToSet
      <4>2. 1 \in 1..Len(s)
        BY <2>3, <4>1
      <4> QED BY <3>1, <4>1, <4>2 DEF OneRecord
    <3> QED BY <2>2, <3>1 DEF Fits
  <2> QED BY <2>1, <2>4 DEF LogFitsMaxSize
<1> QED
  BY <1>1, WriterInvAlways, PTL

-----------------------------------------------------------------------------
(* Lines of a text *)

\* What holds of 0, and of i + 1 if it does of i, holds up to n.
LEMMA StepByStep ==
  ASSUME NEW n \in Nat, NEW T, 0 \in T, \A i \in 0..n : i # n /\ i \in T => i + 1 \in T
  PROVE  \A i \in 0..n : i \in T
<1> DEFINE out == {i \in 0..n : i \notin T}
<1>1. SUFFICES ASSUME out # {}
               PROVE  FALSE
  OBVIOUS
<1>2. out \in SUBSET Nat
  OBVIOUS
<1>3. PICK x \in out : \A y \in out : x <= y
  BY <1>1, <1>2, LeastNatural
<1>4. x \in 0..n /\ x \notin T /\ x # 0
  OBVIOUS
<1>5. x - 1 \in 0..n /\ x - 1 # n /\ ~(x <= x - 1) /\ (x - 1) + 1 = x
  BY <1>4
<1>6. x - 1 \in T
  BY <1>3, <1>5
<1> QED
  BY <1>4, <1>5, <1>6

LEMMA AppendIs ==
  ASSUME NEW S, NEW s \in Seq(S), NEW x \in S
  PROVE  /\ Append(s, x) \in Seq(S) /\ Len(Append(s, x)) = Len(s) + 1
         /\ \A i \in 1..Len(s) : Append(s, x)[i] = s[i]
         /\ Append(s, x)[Len(s) + 1] = x
OBVIOUS

\* Flattening can be done.
LEMMA JoinedExists ==
  ASSUME NEW S, NEW s \in Seq(Seq(S))
  PROVE  \E f : Joined(f, s) /\ \A i \in 1..Len(s) : f[i] \in Seq(S)
<1> DEFINE Part(f, n) == /\ f \in [1..n -> Seq(S)]
                         /\ \A i \in 1..n : f[i] = IF i = 1 THEN s[i] ELSE f[i - 1] \o s[i]
           T == {n \in 0..Len(s) : \E f : Part(f, n)}
<1>1. Len(s) \in Nat
  OBVIOUS
<1>2. 0 \in T
  <2>1. PICK f : f = [i \in 1..0 |-> s[i]]
    OBVIOUS
  <2>2. Part(f, 0)
    BY <2>1
  <2> HIDE DEF Part
  <2> QED BY <1>1, <2>2
<1>3. ASSUME NEW n \in 0..Len(s), n # Len(s), n \in T
      PROVE  n + 1 \in T
  <2> HIDE DEF Part
  <2>1. PICK f : Part(f, n)
    BY <1>3
  <2> USE DEF Part
  <2>2. PICK x : x = IF n = 0 THEN s[n + 1] ELSE f[n] \o s[n + 1]
    OBVIOUS
  <2>3. n + 1 \in 1..Len(s) /\ s[n + 1] \in Seq(S)
    BY <1>1, <1>3
  <2>4. x \in Seq(S)
    <3>1. CASE n = 0
      BY <2>2, <2>3, <3>1
    <3>2. CASE n # 0
      <4>1. f[n] \in Seq(S)
        BY <1>3, <2>1, <3>2
      <4> QED BY <2>2, <2>3, <3>2, <4>1
    <3> QED BY <3>1, <3>2
  <2>5. PICK g : g = [i \in 1..n + 1 |-> IF i = n + 1 THEN x ELSE f[i]]
    OBVIOUS
  <2>6. g \in [1..n + 1 -> Seq(S)]
    BY <2>1, <2>4, <2>5
  <2>7. ASSUME NEW i \in 1..n + 1
        PROVE  g[i] = IF i = 1 THEN s[i] ELSE g[i - 1] \o s[i]
    <3>1. CASE i = n + 1
      <4>1. g[i] = x
        BY <2>5, <3>1
      <4>2. i # 1 => n \in 1..n + 1 /\ n # n + 1 /\ i - 1 = n
        BY <3>1
      <4>3. i # 1 => g[i - 1] = f[n]
        BY <2>5, <4>2
      <4>4. i = 1 <=> n = 0
        BY <3>1
      <4> QED BY <2>2, <3>1, <4>1, <4>3, <4>4
    <3>2. CASE i # n + 1
      <4>1. i \in 1..n /\ (i # 1 => i - 1 \in 1..n)
        BY <3>2
      <4>2. g[i] = f[i] /\ (i # 1 => g[i - 1] = f[i - 1])
        BY <2>5, <4>1
      <4> QED BY <2>1, <4>1, <4>2
    <3> QED BY <3>1, <3>2
  <2>8. Part(g, n + 1)
    BY <2>6, <2>7
  <2> HIDE DEF Part
  <2> QED BY <1>1, <1>3, <2>8
<1>4. Len(s) \in T
  <2>1. \A n \in 0..Len(s) : n # Len(s) /\ n \in T => n + 1 \in T
    BY <1>3
  <2> HIDE DEF T
  <2>2. \A n \in 0..Len(s) : n \in T
    BY <1>1, <1>2, <2>1, StepByStep
  <2> QED BY <1>1, <2>2
<1>5. PICK f : Part(f, Len(s))
  <2> HIDE DEF Part
  <2> QED BY <1>4
<1>6. f = [i \in 1..Len(s) |-> IF i = 1 THEN s[i] ELSE f[i - 1] \o s[i]]
  BY <1>5
<1> QED
  BY <1>5, <1>6 DEF Joined

LEMMA FlattenEmpty == FlattenSeq(<<>>) = <<>>
<1>1. Len(<<>>) = 0
  OBVIOUS
<1> QED
  BY <1>1 DEF FlattenSeq

\* One more sequence is added to the end.
LEMMA FlattenAppend ==
  ASSUME NEW S, NEW s \in Seq(Seq(S)), NEW x \in Seq(S)
  PROVE  FlattenSeq(s) \in Seq(S) /\ FlattenSeq(Append(s, x)) = FlattenSeq(s) \o x
<1>1. PICK t : t = Append(s, x)
  OBVIOUS
<1>2. /\ t \in Seq(Seq(S)) /\ Len(t) = Len(s) + 1 /\ Len(s) \in Nat
      /\ \A i \in 1..Len(s) : t[i] = s[i]
      /\ t[Len(s) + 1] = x
  <2>1. Len(s) \in Nat
    OBVIOUS
  <2> QED BY <1>1, <2>1, AppendIs
<1>3. PICK g : Joined(g, t) /\ \A i \in 1..Len(t) : g[i] \in Seq(S)
  BY <1>2, JoinedExists
<1>4. FlattenSeq(t) = g[Len(t)]
  <2>1. Len(t) \in Nat \ {0}
    BY <1>2
  <2> QED BY <1>3, <2>1, FlattenIs
<1>5. g[Len(t)] = IF Len(t) = 1 THEN t[Len(t)] ELSE g[Len(t) - 1] \o t[Len(t)]
  <2>1. Len(t) \in 1..Len(t)
    BY <1>2
  <2>2. \A i \in 1..Len(t) : g[i] = IF i = 1 THEN t[i] ELSE g[i - 1] \o t[i]
    BY <1>3 DEF Joined
  <2> QED BY <2>1, <2>2
<1>6. CASE Len(s) = 0
  <2>1. s = <<>>
    BY <1>6
  <2>2. FlattenSeq(s) = <<>>
    BY <2>1, FlattenEmpty
  <2>3. FlattenSeq(t) = x
    BY <1>2, <1>4, <1>5, <1>6
  <2> QED BY <1>1, <2>2, <2>3
<1>7. CASE Len(s) # 0
  <2>1. PICK f : Joined(f, s) /\ \A i \in 1..Len(s) : f[i] \in Seq(S)
    BY JoinedExists
  <2>2. PICK h : h = [i \in 1..Len(s) |-> g[i]]
    OBVIOUS
  <2>3. ASSUME NEW i \in 1..Len(s)
        PROVE  h[i] = IF i = 1 THEN s[i] ELSE h[i - 1] \o s[i]
    <3>1. i \in 1..Len(t) /\ (i # 1 => i - 1 \in 1..Len(s))
      BY <1>2
    <3>2. g[i] = IF i = 1 THEN t[i] ELSE g[i - 1] \o t[i]
      BY <1>3, <3>1 DEF Joined
    <3> QED BY <1>2, <2>2, <3>1, <3>2
  <2>4. Joined(h, s)
    BY <2>2, <2>3 DEF Joined
  <2>5. Len(s) \in Nat \ {0} /\ Len(s) \in 1..Len(s)
    BY <1>2, <1>7
  <2>6. FlattenSeq(s) = h[Len(s)]
    BY <2>4, <2>5, FlattenIs
  <2>7. h[Len(s)] = g[Len(s)] /\ g[Len(s)] \in Seq(S)
    <3>1. Len(s) \in 1..Len(t)
      BY <1>2, <2>5
    <3> QED BY <1>3, <2>2, <2>5, <3>1
  <2>8. Len(t) # 1 /\ Len(t) - 1 = Len(s)
    BY <1>2, <1>7
  <2> QED BY <1>1, <1>2, <1>4, <1>5, <2>6, <2>7, <2>8
<1> QED
  BY <1>6, <1>7

-----------------------------------------------------------------------------

\* l and r are what Split comes to, cell by cell.
SplitStep(l, r, s, i) ==
  /\ ~s[i].eol => l[i] = l[i - 1] /\ r[i] = Append(r[i - 1], s[i])
  /\ s[i].eol /\ r[i - 1] = <<>> => l[i] = l[i - 1] /\ r[i] = <<>>
  /\ s[i].eol /\ r[i - 1] # <<>> =>
       l[i] = Append(l[i - 1], Append(r[i - 1], s[i])) /\ r[i] = <<>>

Splits(l, r, s) ==
  /\ l \in [0..Len(s) -> Seq(Seq(Cell))] /\ r \in [0..Len(s) -> Seq(Cell)]
  /\ l[0] = <<>> /\ r[0] = <<>>
  /\ \A i \in 1..Len(s) : SplitStep(l, r, s, i)

SplitBody(f, s, i) ==
  IF i = 0 THEN [lines |-> <<>>, rest |-> <<>>]
  ELSE LET earlier == f[i - 1] IN
       IF ~s[i].eol THEN [earlier EXCEPT !.rest = Append(@, s[i])]
       ELSE IF earlier.rest = <<>> THEN earlier
       ELSE [lines |-> Append(earlier.lines, Append(earlier.rest, s[i])), rest |-> <<>>]

Halves == [lines : Seq(Seq(Cell)), rest : Seq(Cell)]

LEMMA BodyType ==
  ASSUME NEW s \in Seq(Cell), NEW i \in 0..Len(s), NEW f, i # 0 => f[i - 1] \in Halves
  PROVE  SplitBody(f, s, i) \in Halves
<1>1. CASE i = 0
  <2>1. <<>> \in Seq(Seq(Cell)) /\ <<>> \in Seq(Cell)
    OBVIOUS
  <2> QED BY <1>1, <2>1 DEF SplitBody, Halves
<1>2. CASE i # 0
  <2>1. PICK b : b = f[i - 1]
    OBVIOUS
  <2>2. b \in Halves /\ b.lines \in Seq(Seq(Cell)) /\ b.rest \in Seq(Cell)
    BY <1>2, <2>1 DEF Halves
  <2>3. s[i] \in Cell
    BY <1>2
  <2>4. Append(b.rest, s[i]) \in Seq(Cell)
    BY <2>2, <2>3
  <2>5. Append(b.lines, Append(b.rest, s[i])) \in Seq(Seq(Cell)) /\ <<>> \in Seq(Cell)
    BY <2>2, <2>4
  <2>6. [b EXCEPT !.rest = Append(@, s[i])] \in Halves
    BY <2>2, <2>4 DEF Halves
  <2>7. [lines |-> Append(b.lines, Append(b.rest, s[i])), rest |-> <<>>] \in Halves
    BY <2>5 DEF Halves
  <2> QED BY <1>2, <2>1, <2>2, <2>6, <2>7 DEF SplitBody
<1> QED BY <1>1, <1>2

LEMMA SplitExists ==
  ASSUME NEW s \in Seq(Cell)
  PROVE  \E f : f = [i \in 0..Len(s) |-> SplitBody(f, s, i)] /\ f \in [0..Len(s) -> Halves]
<1> DEFINE Part(f, n) == f \in [0..n -> Halves] /\ \A i \in 0..n : f[i] = SplitBody(f, s, i)
           T == {n \in 0..Len(s) : \E f : Part(f, n)}
<1>1. Len(s) \in Nat
  OBVIOUS
<1>2. 0 \in T
  <2>1. PICK f : f = [i \in 0..0 |-> SplitBody(s, s, 0)]
    OBVIOUS
  <2>2. SplitBody(s, s, 0) \in Halves /\ SplitBody(f, s, 0) = SplitBody(s, s, 0)
    <3>1. 0 \in 0..Len(s)
      BY <1>1
    <3> QED BY <3>1, BodyType DEF SplitBody
  <2>3. Part(f, 0)
    BY <2>1, <2>2
  <2> HIDE DEF Part
  <2> QED BY <1>1, <2>3
<1>3. ASSUME NEW n \in 0..Len(s), n # Len(s), n \in T
      PROVE  n + 1 \in T
  <2> HIDE DEF Part
  <2>1. PICK f : Part(f, n)
    BY <1>3
  <2> USE DEF Part
  <2>2. PICK x : x = SplitBody(f, s, n + 1)
    OBVIOUS
  <2>3. n + 1 \in 0..Len(s) /\ (n + 1) - 1 = n /\ n \in 0..n
    BY <1>1, <1>3
  <2>4. x \in Halves
    <3>1. f[(n + 1) - 1] \in Halves
      BY <2>1, <2>3
    <3> QED BY <2>2, <2>3, <3>1, BodyType
  <2>5. PICK g : g = [i \in 0..n + 1 |-> IF i = n + 1 THEN x ELSE f[i]]
    OBVIOUS
  <2>6. g \in [0..n + 1 -> Halves]
    BY <2>1, <2>4, <2>5
  <2>7. ASSUME NEW i \in 0..n + 1
        PROVE  g[i] = SplitBody(g, s, i)
    <3>1. i # 0 => i - 1 \in 0..n + 1 /\ i - 1 # n + 1
      BY <1>3
    <3>2. i # 0 => g[i - 1] = f[i - 1]
      BY <2>5, <3>1
    <3>3. SplitBody(g, s, i) = SplitBody(f, s, i)
      <4>1. CASE i = 0
        BY <4>1 DEF SplitBody
      <4>2. CASE i # 0
        <5>1. g[i - 1] = f[i - 1]
          BY <3>2, <4>2
        <5>2. PICK b : b = f[i - 1]
          OBVIOUS
        <5> QED BY <4>2, <5>1, <5>2 DEF SplitBody
      <4> QED BY <4>1, <4>2
    <3>4. g[i] = IF i = n + 1 THEN x ELSE f[i]
      BY <2>5
    <3>5. i # n + 1 => i \in 0..n
      BY <1>3
    <3> QED BY <2>1, <2>2, <3>3, <3>4, <3>5
  <2>8. Part(g, n + 1)
    BY <2>6, <2>7
  <2> HIDE DEF Part
  <2> QED BY <1>1, <1>3, <2>8
<1>4. Len(s) \in T
  <2>1. \A n \in 0..Len(s) : n # Len(s) /\ n \in T => n + 1 \in T
    BY <1>3
  <2> HIDE DEF T
  <2>2. \A n \in 0..Len(s) : n \in T
    BY <1>1, <1>2, <2>1, StepByStep
  <2> QED BY <1>1, <2>2
<1>5. PICK f : Part(f, Len(s))
  <2> HIDE DEF Part
  <2> QED BY <1>4
<1>6. f = [i \in 0..Len(s) |-> SplitBody(f, s, i)]
  BY <1>5
<1> QED
  BY <1>5, <1>6

\* Split does it.
LEMMA SplitIs ==
  ASSUME NEW s \in Seq(Cell)
  PROVE  \E l, r : Splits(l, r, s) /\ Lines(s) = l[Len(s)] /\ Rest(s) = r[Len(s)]
<1>1. Len(s) \in Nat
  OBVIOUS
<1>2. Split(s) = (CHOOSE f : f = [i \in 0..Len(s) |-> SplitBody(f, s, i)])[Len(s)]
  BY DEF Split, SplitBody
<1>3. PICK f : f = (CHOOSE g : g = [i \in 0..Len(s) |-> SplitBody(g, s, i)])
  OBVIOUS
<1>4. f = [i \in 0..Len(s) |-> SplitBody(f, s, i)]
  <2>1. \E g : g = [i \in 0..Len(s) |-> SplitBody(g, s, i)]
    BY SplitExists
  <2> QED BY <1>3, <2>1
<1>5. \A i \in 0..Len(s) : f[i] = SplitBody(f, s, i)
  BY <1>4
<1>6. \A i \in 0..Len(s) : f[i] \in Halves
  <2> DEFINE T == {i \in 0..Len(s) : f[i] \in Halves}
  <2>1. 0 \in T
    <3>1. 0 \in 0..Len(s)
      BY <1>1
    <3> QED BY <1>5, <3>1, BodyType
  <2>2. ASSUME NEW i \in 0..Len(s), i # Len(s), i \in T
        PROVE  i + 1 \in T
    <3>1. i + 1 \in 0..Len(s) /\ (i + 1) - 1 = i
      BY <1>1, <2>2
    <3>2. SplitBody(f, s, i + 1) \in Halves
      BY <2>2, <3>1, BodyType
    <3> QED BY <1>5, <3>1, <3>2
  <2>3. \A i \in 0..Len(s) : i # Len(s) /\ i \in T => i + 1 \in T
    BY <2>2
  <2> HIDE DEF T
  <2>4. \A i \in 0..Len(s) : i \in T
    BY <1>1, <2>1, <2>3, StepByStep
  <2> QED BY <2>4 DEF T
<1>7. PICK l, r : l = [i \in 0..Len(s) |-> f[i].lines] /\ r = [i \in 0..Len(s) |-> f[i].rest]
  OBVIOUS
<1>8. l \in [0..Len(s) -> Seq(Seq(Cell))] /\ r \in [0..Len(s) -> Seq(Cell)]
  BY <1>6, <1>7 DEF Halves
<1>9. l[0] = <<>> /\ r[0] = <<>>
  <2>1. 0 \in 0..Len(s)
    BY <1>1
  <2>2. f[0] = [lines |-> <<>>, rest |-> <<>>]
    BY <1>5, <2>1 DEF SplitBody
  <2>3. l[0] = f[0].lines /\ r[0] = f[0].rest
    BY <1>7, <2>1
  <2> QED BY <2>2, <2>3
<1>10. ASSUME NEW i \in 1..Len(s)
       PROVE  SplitStep(l, r, s, i)
  <2>1. i \in 0..Len(s) /\ i - 1 \in 0..Len(s) /\ i # 0
    OBVIOUS
  <2>2. PICK b : b = f[i - 1]
    OBVIOUS
  <2>3. f[i] = IF ~s[i].eol THEN [b EXCEPT !.rest = Append(@, s[i])]
               ELSE IF b.rest = <<>> THEN b
               ELSE [lines |-> Append(b.lines, Append(b.rest, s[i])), rest |-> <<>>]
    BY <1>5, <2>1, <2>2 DEF SplitBody
  <2>4. l[i - 1] = b.lines /\ r[i - 1] = b.rest /\ l[i] = f[i].lines /\ r[i] = f[i].rest
    BY <1>7, <2>1, <2>2
  <2>5. b \in Halves
    BY <1>6, <2>1, <2>2
  <2>6. /\ [b EXCEPT !.rest = Append(@, s[i])].lines = b.lines
        /\ [b EXCEPT !.rest = Append(@, s[i])].rest = Append(b.rest, s[i])
    BY <2>5 DEF Halves
  <2> QED BY <2>3, <2>4, <2>6 DEF SplitStep
<1>11. Lines(s) = l[Len(s)] /\ Rest(s) = r[Len(s)]
  <2>1. Split(s) = f[Len(s)] /\ Len(s) \in 0..Len(s)
    BY <1>1, <1>2, <1>3
  <2> QED BY <1>7, <2>1 DEF Lines, Rest
<1> QED
  BY <1>8, <1>9, <1>10, <1>11 DEF Splits

LEMMA LinesType ==
  ASSUME NEW s \in Seq(Cell)
  PROVE  Lines(s) \in Seq(Seq(Cell)) /\ Rest(s) \in Seq(Cell)
<1>1. PICK l, r : Splits(l, r, s) /\ Lines(s) = l[Len(s)] /\ Rest(s) = r[Len(s)]
  BY SplitIs
<1>2. Len(s) \in 0..Len(s)
  OBVIOUS
<1> QED
  BY <1>1, <1>2 DEF Splits

-----------------------------------------------------------------------------
(* What readers see of a step of the writer *)

\* No line is blank but the first, whose beginning may be missing.
Lined(s) == \A i \in 1..Len(s) : i # 1 /\ s[i].eol => ~s[i - 1].eol

LinedInv == Lined(Log) /\ Lined(incoming)

\* One record after the other.
Consecutive(s) ==
  \A i \in 1..Len(s) : i # 1 =>
    IF s[i - 1].eol THEN s[i].at = 1 /\ s[i].rec = s[i - 1].rec + 1 ELSE s[i].rec = s[i - 1].rec

\* As long as nothing has failed, the file holds whole records, up to the last that was written.
RecordsInv ==
  faults = 0 =>
    /\ ~cut /\ ~sticky /\ ~torn
    /\ Consecutive(Log)
    /\ Log # <<>> => Log[1].at = 1 /\ ~Log[1].eol
    /\ mutex = "free" /\ Log # <<>> => Log[Len(Log)].eol /\ Log[Len(Log)].rec = written
    /\ mutex # "free" => \E n \in RecordSize : incoming = Record(written, n)

\* Nothing is added.
LEMMA GrowsByNothing ==
  ASSUME WriterTypeOK, Content(0)' = Content(0)
  PROVE  \E x \in Seq(Cell) : Content(0)' = Content(0) \o x
<1>1. Content(0) \o <<>> = Content(0) /\ <<>> \in Seq(Cell)
  BY LogType, ExtendEmpty
<1> QED
  BY <1>1

-----------------------------------------------------------------------------
(* Records, one after the other *)

LEMMA SizeOfRecord == \A n \in RecordSize : n \in Nat /\ n > 1
BY WriterAssumption, ReaderAssumption

LEMMA RecordLines ==
  ASSUME NEW r \in 1..MaxRecords, NEW n \in RecordSize
  PROVE  /\ Record(r, n) \in Seq(Cell) /\ Len(Record(r, n)) = n /\ n \in Nat /\ n > 1
         /\ Lined(Record(r, n)) /\ Consecutive(Record(r, n))
         /\ Record(r, n)[1].at = 1 /\ ~Record(r, n)[1].eol
         /\ Record(r, n)[n].eol /\ Record(r, n)[n].rec = r /\ Record(r, n)[1].rec = r
<1>1. n \in Nat /\ n > 1
  BY SizeOfRecord
<1>2. Record(r, n) \in Seq(Cell) /\ Len(Record(r, n)) = n
  BY <1>1, RecordIs
<1>3. ASSUME NEW i \in 1..n
      PROVE  Record(r, n)[i] = [rec |-> r, at |-> i, eol |-> i = n]
  BY DEF Record
<1>4. PICK s : s = Record(r, n)
  OBVIOUS
<1>5. ASSUME NEW i \in 1..n
      PROVE  s[i].rec = r /\ s[i].at = i /\ (s[i].eol <=> i = n)
  <2>1. s[i] = [rec |-> r, at |-> i, eol |-> i = n]
    BY <1>3, <1>4
  <2>2. s[i].rec = r /\ s[i].at = i
    BY <2>1
  <2>3. PICK e : e = (i = n)
    OBVIOUS
  <2>4. s[i] = [rec |-> r, at |-> i, eol |-> e]
    BY <2>1, <2>3, Zenon
  <2>5. s[i].eol = e
    BY <2>4
  <2> QED BY <2>2, <2>3, <2>5
<1>6. 1 \in 1..n /\ n \in 1..n /\ \A i \in 1..n : i # 1 => i - 1 \in 1..n /\ i - 1 # n
  BY <1>1
<1>7. Len(s) = n
  BY <1>2, <1>4
<1>8. Lined(s) /\ Consecutive(s)
  BY <1>5, <1>6, <1>7 DEF Lined, Consecutive
<1>9. s[1].at = 1 /\ ~s[1].eol /\ s[n].eol /\ s[n].rec = r /\ s[1].rec = r
  BY <1>1, <1>5, <1>6
<1> QED
  BY <1>1, <1>2, <1>4, <1>8, <1>9

LEMMA LinedJoins ==
  ASSUME NEW a \in Seq(Cell), NEW b \in Seq(Cell), Lined(a), Lined(b),
         a # <<>> /\ b # <<>> => ~a[Len(a)].eol \/ ~b[1].eol
  PROVE  Lined(a \o b)
<1>1. PICK s : s = a \o b
  OBVIOUS
<1>2. /\ Len(s) = Len(a) + Len(b) /\ Len(a) \in Nat /\ Len(b) \in Nat
      /\ \A i \in 1..Len(a) : s[i] = a[i]
      /\ \A i \in 1..Len(b) : s[Len(a) + i] = b[i]
  BY <1>1, ConcatCells
<1>3. ASSUME NEW i \in 1..Len(s), i # 1, s[i].eol
      PROVE  ~s[i - 1].eol
  <2>1. CASE i <= Len(a)
    <3>1. i \in 1..Len(a) /\ i - 1 \in 1..Len(a)
      BY <1>2, <1>3, <2>1
    <3> QED BY <1>2, <1>3, <3>1 DEF Lined
  <2>2. CASE i = Len(a) + 1
    <3>1. 1 \in 1..Len(b) /\ Len(a) \in 1..Len(a) /\ i - 1 = Len(a)
      BY <1>2, <1>3, <2>2
    <3>2. a # <<>> /\ b # <<>>
      BY <1>2, <3>1
    <3>3. s[i] = b[1] /\ s[i - 1] = a[Len(a)]
      BY <1>2, <2>2, <3>1
    <3> QED BY <1>3, <3>2, <3>3
  <2>3. CASE i > Len(a) + 1
    <3>1. PICK j : j = i - Len(a)
      OBVIOUS
    <3>2. j \in 1..Len(b) /\ j - 1 \in 1..Len(b) /\ i = Len(a) + j /\ i - 1 = Len(a) + (j - 1) /\ j # 1
      BY <1>2, <1>3, <2>3, <3>1
    <3>3. s[i] = b[j] /\ s[i - 1] = b[j - 1]
      BY <1>2, <3>2
    <3> QED BY <1>3, <3>2, <3>3 DEF Lined
  <2> QED BY <1>2, <2>1, <2>2, <2>3
<1> QED
  BY <1>1, <1>3 DEF Lined

LEMMA ConsecutiveJoins ==
  ASSUME NEW a \in Seq(Cell), NEW b \in Seq(Cell), Consecutive(a), Consecutive(b),
         a # <<>> /\ b # <<>> => a[Len(a)].eol /\ b[1].at = 1 /\ b[1].rec = a[Len(a)].rec + 1
  PROVE  Consecutive(a \o b)
<1>1. PICK s : s = a \o b
  OBVIOUS
<1>2. /\ Len(s) = Len(a) + Len(b) /\ Len(a) \in Nat /\ Len(b) \in Nat
      /\ \A i \in 1..Len(a) : s[i] = a[i]
      /\ \A i \in 1..Len(b) : s[Len(a) + i] = b[i]
  BY <1>1, ConcatCells
<1>3. ASSUME NEW i \in 1..Len(s), i # 1
      PROVE  IF s[i - 1].eol THEN s[i].at = 1 /\ s[i].rec = s[i - 1].rec + 1
             ELSE s[i].rec = s[i - 1].rec
  <2>1. CASE i <= Len(a)
    <3>1. i \in 1..Len(a) /\ i - 1 \in 1..Len(a)
      BY <1>2, <1>3, <2>1
    <3> QED BY <1>2, <1>3, <3>1 DEF Consecutive
  <2>2. CASE i = Len(a) + 1
    <3>1. 1 \in 1..Len(b) /\ Len(a) \in 1..Len(a) /\ i - 1 = Len(a)
      BY <1>2, <1>3, <2>2
    <3>2. a # <<>> /\ b # <<>>
      BY <1>2, <3>1
    <3>3. s[i] = b[1] /\ s[i - 1] = a[Len(a)]
      BY <1>2, <2>2, <3>1
    <3> QED BY <1>3, <3>2, <3>3
  <2>3. CASE i > Len(a) + 1
    <3>1. PICK j : j = i - Len(a)
      OBVIOUS
    <3>2. j \in 1..Len(b) /\ j - 1 \in 1..Len(b) /\ i = Len(a) + j /\ i - 1 = Len(a) + (j - 1) /\ j # 1
      BY <1>2, <1>3, <2>3, <3>1
    <3>3. s[i] = b[j] /\ s[i - 1] = b[j - 1]
      BY <1>2, <3>2
    <3> QED BY <1>3, <3>2, <3>3 DEF Consecutive
  <2> QED BY <1>2, <2>1, <2>2, <2>3
<1> QED
  BY <1>1, <1>3 DEF Consecutive

LEMMA Emptiness ==
  /\ Lined(<<>>) /\ Consecutive(<<>>)
  /\ \A S : \A s \in Seq(S) : s = <<>> <=> Len(s) = 0
<1>1. Len(<<>>) = 0
  OBVIOUS
<1> QED
  BY <1>1 DEF Lined, Consecutive

-----------------------------------------------------------------------------
(* The lines of the log stay lines, and its records whole *)

TextInv == LinedInv /\ RecordsInv

\* What is the same is as it was.
LEMMA SameText ==
  ASSUME WriterInv, TextInv, Log' = Log, incoming' = incoming, mutex' = mutex, written' = written,
         faults' = 0 => faults = 0 /\ ~cut' /\ ~sticky' /\ ~torn'
  PROVE  TextInv'
BY DEF TextInv, LinedInv, RecordsInv, Lined, Consecutive, Record

\* While nothing has failed, the file is open.
LEMMA WorksYet ==
  ASSUME WriterInv, TextInv, faults = 0
  PROVE  /\ ~cut /\ ~sticky /\ ~torn
         /\ ~Renaming /\ ~Ended => open
         /\ closing = "closed" => buffer = <<>>
BY DEF WriterInv, OrderlyInv, TextInv, RecordsInv

\* Nothing has failed after a step if nothing had before, and it did not.
LEMMA ErrorsYet ==
  ASSUME WriterInv, TextInv, Errors, cut' = cut, ~Renaming, ~Ended, faults' = 0
  PROVE  faults = 0 /\ ~cut' /\ ~sticky' /\ ~torn' /\ open
<1>1. faults \in Nat
  BY DEF WriterInv, WriterTypeOK
<1>2. faults = 0 /\ faults' = faults /\ torn' = torn /\ (sticky' => sticky \/ ~open)
  BY <1>1 DEF Errors
<1> QED
  BY <1>2, WorksYet

\* What is written goes behind the rest, as much of it as the buffer takes.
LEMMA PutLog ==
  ASSUME WriterInv, NEW x \in Seq(Cell), Put(x), mutex \in {"free", "put"}, mutex' = "free", cut' = cut
  PROVE  /\ FileGrows0 /\ Errors
         /\ \E k \in 0..Len(x) : Log' = Log \o SubSeq(x, 1, k) /\ (~sticky' => k = Len(x))
<1>1. PICK k \in 0..Len(x), n \in Nat :
        /\ Moves(SubSeq(x, 1, k), n) /\ Errors
        /\ ~sticky' => k = Len(x)
  BY PutMoves DEF WriterInv
<1>2. Hole' = {} /\ Hole = {}
  BY DEF Hole
<1>3. PICK t : t = SubSeq(x, 1, k)
  OBVIOUS
<1>4. Moves(t, n)
  BY <1>1, <1>3
<1>5. Log' = Log \o t /\ FileGrows0
  BY <1>2, <1>4, MovesPieces
<1> QED
  BY <1>1, <1>3, <1>5

\* The beginning of a text that has no blank lines has none.
LEMMA LinedBegins ==
  ASSUME NEW s \in Seq(Cell), Lined(s), NEW k \in 0..Len(s)
  PROVE  SubSeq(s, 1, k) \in Seq(Cell) /\ Lined(SubSeq(s, 1, k))
<1>1. PICK t : t = SubSeq(s, 1, k)
  OBVIOUS
<1>2. t \in Seq(Cell) /\ Len(t) = k /\ \A i \in 1..k : t[i] = s[i] /\ i \in 1..Len(s)
  BY <1>1
<1>3. ASSUME NEW i \in 1..Len(t), i # 1, t[i].eol
      PROVE  ~t[i - 1].eol
  <2>1. i \in 1..k /\ i - 1 \in 1..k
    BY <1>2, <1>3
  <2>2. t[i] = s[i] /\ t[i - 1] = s[i - 1] /\ i \in 1..Len(s)
    BY <1>2, <2>1
  <2> QED BY <1>3, <2>2 DEF Lined
<1> QED
  BY <1>1, <1>2, <1>3 DEF Lined

\* The beginning of a record behind the lines of the log.
LEMMA PutLines ==
  ASSUME WriterInv, TextInv, NEW x \in Seq(Cell), Lined(x), NEW k \in 0..Len(x),
         Log # <<>> /\ x # <<>> => ~x[1].eol
  PROVE  Lined(Log \o SubSeq(x, 1, k))
<1>1. PICK a, t : a = Log /\ t = SubSeq(x, 1, k)
  OBVIOUS
<1>2. a \in Seq(Cell) /\ Lined(a)
  BY <1>1, LogType DEF WriterInv, TextInv, LinedInv
<1>3. t \in Seq(Cell) /\ Lined(t)
  BY <1>1, LinedBegins
<1>4. a # <<>> /\ t # <<>> => ~t[1].eol
  <2> SUFFICES ASSUME a # <<>>, t # <<>>
               PROVE  ~t[1].eol
    OBVIOUS
  <2>1. Len(t) = k /\ Len(t) # 0
    BY <1>1, <1>3
  <2>2. 1 \in 1..k /\ Len(x) # 0
    BY <2>1
  <2>3. t[1] = x[1] /\ x # <<>>
    BY <1>1, <2>2
  <2> QED BY <1>1, <2>3
<1>5. Lined(a \o t)
  BY <1>2, <1>3, <1>4, LinedJoins
<1> QED
  BY <1>1, <1>5

LEMMA AddedText ==
  ASSUME WriterInv, TextInv, NEW n \in RecordSize, mutex = "free", written \in Nat, written + 1 \in 1..MaxRecords,
         Log' = Log \o Record(written + 1, n), written' = written + 1, faults = 0 => ~sticky' /\ ~torn',
         UNCHANGED <<incoming, mutex, faults, cut>>
  PROVE  TextInv'
<1>1. PICK a, p : a = Log /\ p = Record(written + 1, n)
  OBVIOUS
<1>2. a \in Seq(Cell)
  BY <1>1, LogType DEF WriterInv
<1>3. /\ p \in Seq(Cell) /\ Len(p) = n /\ n \in Nat /\ n > 1
      /\ Lined(p) /\ Consecutive(p)
      /\ p[1].at = 1 /\ ~p[1].eol
      /\ p[n].eol /\ p[n].rec = written + 1 /\ p[1].rec = written + 1
  BY <1>1, RecordLines
<1>4. PICK s : s = a \o p
  OBVIOUS
<1>5. /\ s \in Seq(Cell) /\ Len(s) = Len(a) + n /\ Len(a) \in Nat
      /\ \A i \in 1..Len(a) : s[i] = a[i]
      /\ \A i \in 1..n : s[Len(a) + i] = p[i]
  <2>1. Len(p) = n /\ Len(a) \in Nat /\ p \in Seq(Cell)
    BY <1>2, <1>3
  <2>2. /\ s \in Seq(Cell) /\ Len(s) = Len(a) + Len(p)
        /\ \A i \in 1..Len(a) : s[i] = a[i]
        /\ \A i \in 1..Len(p) : s[Len(a) + i] = p[i]
    <3>1. /\ a \o p \in Seq(Cell) /\ Len(a \o p) = Len(a) + Len(p)
          /\ \A i \in 1..Len(a) : (a \o p)[i] = a[i]
          /\ \A i \in 1..Len(p) : (a \o p)[Len(a) + i] = p[i]
      BY <1>2, <2>1, ConcatCells
    <3> QED BY <1>4, <3>1
  <2> QED BY <2>1, <2>2
<1>6. Log' = s
  BY <1>1, <1>4
<1>7. Lined(s)
  BY <1>1, <1>2, <1>3, <1>4, LinedJoins DEF TextInv, LinedInv
<1>8. ASSUME faults = 0
      PROVE  /\ Consecutive(s)
             /\ s[1].at = 1 /\ ~s[1].eol
             /\ s[Len(s)].eol /\ s[Len(s)].rec = written + 1
  <2>1. /\ Consecutive(a)
        /\ a # <<>> => a[1].at = 1 /\ ~a[1].eol /\ a[Len(a)].eol /\ a[Len(a)].rec = written
    BY <1>1, <1>8 DEF TextInv, RecordsInv
  <2>2. Consecutive(s)
    BY <1>2, <1>3, <1>4, <2>1, ConsecutiveJoins
  <2>3. s[Len(s)] = p[n]
    <3>1. n \in 1..n
      BY <1>3
    <3> QED BY <1>5, <3>1
  <2>4. s[1].at = 1 /\ ~s[1].eol
    <3>1. CASE Len(a) = 0
      <4>1. s[Len(a) + 1] = p[1] /\ Len(a) + 1 = 1
        <5>1. 1 \in 1..n
          BY <1>3
        <5> QED BY <1>5, <3>1, <5>1
      <4> QED BY <1>3, <4>1
    <3>2. CASE Len(a) # 0
      <4>1. 1 \in 1..Len(a) /\ a # <<>>
        BY <1>2, <1>5, <3>2
      <4> QED BY <1>5, <2>1, <4>1
    <3> QED BY <3>1, <3>2
  <2> QED BY <1>3, <2>2, <2>3, <2>4
<1>9. LinedInv'
  <2>1. Lined(s) /\ Lined(incoming)
    BY <1>7 DEF TextInv, LinedInv
  <2> QED BY <1>6, <2>1 DEF LinedInv, Lined
<1>10. RecordsInv'
  <2> SUFFICES ASSUME faults = 0
               PROVE  /\ ~cut' /\ ~sticky' /\ ~torn'
                      /\ Consecutive(Log')
                      /\ Log'[1].at = 1 /\ ~Log'[1].eol
                      /\ Log'[Len(Log')].eol /\ Log'[Len(Log')].rec = written'
                      /\ mutex' = "free"
    BY DEF RecordsInv, Consecutive, Record
  <2> QED BY <1>6, <1>8, WorksYet
<1> QED
  BY <1>9, <1>10 DEF TextInv

\* The file, if it is still there, goes on as it was.
GoesOn == disk[0] # None /\ disk'[0] # None => FileGrows0

LEMMA SameFile ==
  ASSUME WriterInv, disk' = disk
  PROVE  Content(0)' = Content(0) /\ GoesOn
<1>1. Content(0)' = Content(0)
  BY NoFileMoves
<1> QED
  BY <1>1, GrowsByNothing DEF WriterInv, GoesOn, FileGrows0

LEMMA WriteText ==
  ASSUME WriterInv, TextInv, NEW n \in RecordSize, Write(n)
  PROVE  TextInv' /\ GoesOn
<1>1. PICK p : p = Record(written + 1, n)
  OBVIOUS
<1>2. /\ mutex = "free" /\ ~Ended /\ written' = written + 1 /\ written < MaxRecords
      /\ \/ BeginRotation(p)
         \/ Put(p) /\ UNCHANGED <<mutex, incoming>>
      /\ UNCHANGED <<shift, closing, cut>>
  BY <1>1 DEF Write, Ended
<1>3. written \in Nat /\ MaxRecords \in Nat /\ written + 1 \in 1..MaxRecords
  BY <1>2, WriterAssumption DEF WriterInv, WriterTypeOK
<1>4. p \in Seq(Cell) /\ Len(p) = n /\ Lined(p) /\ ~p[1].eol
  BY <1>1, <1>3, RecordLines
<1>5. ~Renaming
  BY <1>2 DEF Renaming
<1>6. CASE BeginRotation(p)
  <2>1. /\ FlushBuffer /\ taken' = taken
        /\ IF sticky' \/ ~open
           THEN UNCHANGED <<open, mutex, incoming>>
           ELSE open' = FALSE /\ mutex' = "remove" /\ incoming' = p
    BY <1>6 DEF BeginRotation
  <2>2. Hole' = {} /\ Hole = {}
    BY <1>2, <2>1 DEF Hole
  <2>3. FileGrows0 /\ Log' = Log /\ Errors
    BY <1>2, <2>1, <2>2, FlushPieces
  <2>4. LinedInv'
    BY <1>4, <2>1, <2>3 DEF TextInv, LinedInv, Lined
  <2>5. RecordsInv'
    <3> SUFFICES ASSUME faults' = 0
                 PROVE  /\ ~cut' /\ ~sticky' /\ ~torn' /\ Consecutive(Log')
                        /\ Log' # <<>> => Log'[1].at = 1 /\ ~Log'[1].eol
                        /\ mutex' # "free" /\ incoming' = Record(written', n)
      BY <1>2 DEF RecordsInv, Consecutive, Record
    <3>1. faults = 0 /\ ~cut' /\ ~sticky' /\ ~torn' /\ open
      BY <1>2, <1>5, <2>3, ErrorsYet
    <3>2. mutex' # "free" /\ incoming' = Record(written', n)
      BY <1>1, <1>2, <2>1, <3>1
    <3> QED BY <2>3, <3>1, <3>2 DEF TextInv, RecordsInv
  <2> QED BY <2>3, <2>4, <2>5 DEF TextInv, GoesOn
<1>7. CASE Put(p) /\ UNCHANGED <<mutex, incoming>>
  <2>1. mutex' = "free" /\ Put(p)
    BY <1>2, <1>7
  <2>2. /\ FileGrows0 /\ Errors
        /\ \E k \in 0..Len(p) : Log' = Log \o SubSeq(p, 1, k) /\ (~sticky' => k = Len(p))
    BY <1>2, <1>4, <2>1, PutLog
  <2>3. PICK k \in 0..Len(p) : Log' = Log \o SubSeq(p, 1, k) /\ (~sticky' => k = Len(p))
    BY <2>2
  <2>4. CASE faults' # 0
    <3>1. Lined(Log')
      BY <1>4, <2>3, PutLines
    <3>2. LinedInv'
      BY <1>7, <3>1 DEF TextInv, LinedInv, Lined
    <3>3. RecordsInv'
      BY <2>4 DEF RecordsInv
    <3> QED BY <2>2, <3>2, <3>3 DEF TextInv, GoesOn
  <2>5. CASE faults' = 0
    <3>1. faults = 0 /\ ~cut' /\ ~sticky' /\ ~torn'
      BY <1>2, <1>5, <2>2, <2>5, ErrorsYet
    <3>2. Log' = Log \o Record(written + 1, n)
      <4>1. SubSeq(p, 1, Len(p)) = p
        BY <1>4
      <4> QED BY <1>1, <2>3, <3>1, <4>1
    <3>3. faults' = faults /\ (faults = 0 => ~sticky' /\ ~torn')
      BY <2>5, <3>1
    <3>4. UNCHANGED <<incoming, mutex, faults, cut>>
      BY <1>2, <1>7, <3>3
    <3>5. TextInv'
      BY <1>2, <1>3, <3>2, <3>3, <3>4, AddedText
    <3> QED BY <2>2, <3>5 DEF GoesOn
  <2> QED BY <2>4, <2>5
<1> QED BY <1>2, <1>6, <1>7

LEMMA FlushedText ==
  ASSUME WriterInv, TextInv, Flush \/ FinishClose
  PROVE  TextInv' /\ GoesOn
<1>1. /\ FlushBuffer /\ mutex = "free" /\ ~Ended
      /\ UNCHANGED <<incoming, mutex, written, taken, cut>>
  BY DEF Flush, FinishClose, Ended
<1>2. Hole' = {} /\ Hole = {} /\ ~Renaming
  BY <1>1 DEF Hole, Renaming
<1>3. FileGrows0 /\ Log' = Log /\ Errors
  BY <1>1, <1>2, FlushPieces
<1>4. faults' = 0 => faults = 0 /\ ~cut' /\ ~sticky' /\ ~torn'
  BY <1>1, <1>2, <1>3, ErrorsYet
<1>5. TextInv'
  BY <1>1, <1>3, <1>4, SameText
<1> QED
  BY <1>3, <1>5 DEF GoesOn

LEMMA FailText ==
  ASSUME WriterInv, TextInv, RotationFails
  PROVE  TextInv' /\ GoesOn
<1>1. /\ disk' = disk /\ buffer' = buffer /\ incoming' = <<>> /\ faults' = faults + 1
  BY DEF RotationFails, file
<1>2. Log' = Log /\ GoesOn
  BY <1>1, SameFile DEF Log
<1>3. faults' # 0
  BY <1>1 DEF WriterInv, WriterTypeOK
<1>4. LinedInv'
  BY <1>1, <1>2, Emptiness DEF TextInv, LinedInv, Lined
<1> QED
  BY <1>2, <1>3, <1>4 DEF TextInv, RecordsInv

LEMMA SignalText ==
  ASSUME WriterInv, TextInv, BeginClose \/ Drain
  PROVE  TextInv' /\ GoesOn
<1>1. /\ disk' = disk /\ buffer' = buffer
      /\ UNCHANGED <<incoming, mutex, written, faults, cut, torn, sticky>>
  BY DEF BeginClose, Drain, file, writerHistory
<1>2. Log' = Log /\ GoesOn
  BY <1>1, SameFile DEF Log
<1> QED
  BY <1>1, <1>2, SameText, WorksYet

LEMMA StartText ==
  ASSUME WriterInv, TextInv, Start
  PROVE  TextInv' /\ GoesOn
<1>1. /\ disk' = [disk EXCEPT ![0] = Content(0)] /\ buffer' = buffer
      /\ UNCHANGED <<incoming, mutex, written, faults, cut, torn, sticky>>
  BY DEF Start, writerHistory
<1>2. Content(0) \in Seq(Cell)
  BY LogType DEF WriterInv
<1>3. Content(0)' = Content(0)
  BY <1>1, <1>2, FileIs DEF WriterInv
<1>4. Log' = Log /\ GoesOn
  BY <1>1, <1>3, GrowsByNothing DEF Log, GoesOn, FileGrows0, WriterInv
<1> QED
  BY <1>1, <1>4, SameText, WorksYet

LEMMA StopText ==
  ASSUME WriterInv, TextInv, Stop
  PROVE  TextInv' /\ GoesOn
<1>1. /\ disk' = disk /\ buffer' = <<>> /\ incoming' = <<>> /\ mutex' = "free"
      /\ sticky' = FALSE /\ torn' = FALSE /\ written' = written
      /\ \/ closing = "closed" /\ UNCHANGED <<faults, cut>>
         \/ faults' = faults + 1
  BY DEF Stop
<1>2. Content(0)' = Content(0) /\ GoesOn
  BY <1>1, SameFile
<1>3. Content(0) \in Seq(Cell) /\ Content(0) \o <<>> = Content(0)
  BY LogType, ExtendEmpty DEF WriterInv
<1>4. Log' = Content(0)
  BY <1>1, <1>2, <1>3 DEF Log
<1>5. Lined(Content(0))
  <2>1. PICK f, s : f = Content(0) /\ s = Log
    OBVIOUS
  <2>0. /\ f \in Seq(Cell) /\ s \in Seq(Cell) /\ buffer \in Seq(Cell)
        /\ Len(s) = Len(f) + Len(buffer) /\ \A i \in 1..Len(f) : s[i] = f[i]
    BY <2>1, LogType DEF WriterInv
  <2>6. Len(f) \in Nat /\ Len(buffer) \in Nat
    BY <2>0, LenNat
  <2>2. /\ f \in Seq(Cell) /\ s \in Seq(Cell) /\ Len(f) <= Len(s)
        /\ \A i \in 1..Len(f) : s[i] = f[i]
    BY <2>0, <2>6
  <2>3. \A i \in 1..Len(f) : i \in 1..Len(s) /\ (i # 1 => i - 1 \in 1..Len(f))
    BY <2>2
  <2>4. Lined(s)
    BY <2>1 DEF TextInv, LinedInv
  <2>5. Lined(f)
    BY <2>2, <2>3, <2>4 DEF Lined
  <2> QED BY <2>1, <2>5
<1>6. LinedInv'
  BY <1>1, <1>4, <1>5, Emptiness DEF LinedInv, Lined
<1>7. RecordsInv'
  <2> SUFFICES ASSUME faults' = 0
               PROVE  RecordsInv'
    BY DEF RecordsInv
  <2>1. closing = "closed" /\ faults = 0 /\ UNCHANGED <<faults, cut>>
    BY <1>1 DEF WriterInv, WriterTypeOK
  <2>2. buffer = <<>> /\ mutex = "free"
    BY <2>1, WorksYet DEF WriterInv, PhaseInv, Ended
  <2>3. Log' = Log
    BY <1>3, <1>4, <2>2 DEF Log
  <2> QED BY <1>1, <2>1, <2>2, <2>3 DEF TextInv, RecordsInv, Consecutive
<1> QED
  BY <1>2, <1>6, <1>7 DEF TextInv

LEMMA RotateText ==
  ASSUME WriterInv, TextInv, RemoveOldest \/ Rename
  PROVE  TextInv' /\ GoesOn
<1>1. /\ buffer = <<>> /\ buffer' = <<>> /\ mutex # "free" /\ mutex' # "free"
      /\ UNCHANGED <<incoming, written, faults, cut, torn, sticky>>
  BY DEF WriterInv, PhaseInv, RemoveOldest, Rename, writerHistory
<1>2. \/ Content(0)' = Content(0) /\ (disk[0] # None <=> disk'[0] # None)
      \/ disk'[0] = None /\ Content(0)' = <<>>
  <2>4. /\ Content(0) = IF disk[0] = None THEN <<>> ELSE disk[0]
        /\ Content(0)' = IF disk'[0] = None THEN <<>> ELSE disk'[0]
    BY DEF Content
  <2>1. disk \in [Backup -> Seq(Cell) \union {None}]
    BY DEF WriterInv, WriterTypeOK
  <2>2. CASE RemoveOldest
    <3>1. disk' = [disk EXCEPT ![MaxBackups] = None]
      BY <2>2 DEF RemoveOldest
    <3>2. disk'[0] = disk[0]
      BY <2>1, <3>1, Backups
    <3> QED BY <2>4, <3>2
  <2>3. CASE Rename
    <3>1. PICK s : s = shift
      OBVIOUS
    <3>2. disk' = IF disk[s] = None THEN disk
                  ELSE [disk EXCEPT ![s + 1] = disk[s], ![s] = None]
      BY <2>3, <3>1 DEF Rename
    <3>3. s \in 0..MaxBackups - 1 /\ s \in Backup /\ s + 1 \in Backup /\ 0 \in Backup /\ s + 1 # 0
      BY <3>1, Backups DEF WriterInv, WriterTypeOK
    <3>4. disk'[0] = disk[0] \/ disk'[0] = None
      BY <2>1, <3>2, <3>3
    <3> QED BY <2>4, <3>4
  <2> QED BY <2>2, <2>3
<1>3. Log' = Log \/ Log' = <<>>
  BY <1>1, <1>2, ExtendEmpty, Emptiness DEF Log
<1>4. TextInv'
  <2>1. LinedInv'
    BY <1>1, <1>3, Emptiness DEF TextInv, LinedInv, Lined
  <2>2. RecordsInv'
    BY <1>1, <1>3, Emptiness DEF TextInv, RecordsInv, Consecutive, Record
  <2> QED BY <2>1, <2>2 DEF TextInv
<1> QED
  BY <1>2, <1>4, GrowsByNothing DEF WriterInv, GoesOn, FileGrows0

LEMMA CreateText ==
  ASSUME WriterInv, TextInv, Create
  PROVE  TextInv' /\ GoesOn
<1>1. PICK e : e = <<>>
  OBVIOUS
<1>2. /\ mutex = "create" /\ mutex' = "put" /\ disk' = [disk EXCEPT ![0] = e] /\ sticky' = FALSE
      /\ UNCHANGED <<buffer, incoming, written, faults, cut, torn>>
  BY <1>1 DEF Create
<1>3. e \in Seq(Cell) /\ e \o e = e
  BY <1>1, ExtendEmpty
<1>4. Content(0)' = e
  BY <1>2, <1>3, FileIs DEF WriterInv
<1>5. Log' = <<>>
  BY <1>1, <1>2, <1>3, <1>4 DEF Log, WriterInv, PhaseInv
<1>6. disk[0] = None
  BY <1>2 DEF WriterInv, PhaseInv, Hole
<1>7. LinedInv'
  BY <1>2, <1>5, Emptiness DEF TextInv, LinedInv, Lined
<1>8. RecordsInv'
  <2>1. faults = 0 => \E n \in RecordSize : incoming' = Record(written', n)
    BY <1>2 DEF TextInv, RecordsInv
  <2> QED BY <1>2, <1>5, <2>1, WorksYet, Emptiness DEF RecordsInv, Consecutive
<1> QED
  BY <1>6, <1>7, <1>8 DEF TextInv, GoesOn

LEMMA FinishWriteText ==
  ASSUME WriterInv, TextInv, FinishWrite
  PROVE  TextInv' /\ GoesOn
<1>1. PICK x : x = incoming
  OBVIOUS
<1>2. /\ mutex = "put" /\ Put(x) /\ mutex' = "free" /\ incoming' = <<>>
      /\ UNCHANGED <<shift, closing, written, cut>>
  BY <1>1 DEF FinishWrite
<1>3. x \in Seq(Cell) /\ Lined(x)
  BY <1>1 DEF WriterInv, WriterTypeOK, TextInv, LinedInv
<1>4. Log = <<>> /\ ~Renaming /\ ~Ended
  <2>1. <<>> \o <<>> = <<>>
    OBVIOUS
  <2> QED BY <1>2, <2>1 DEF Log, WriterInv, PhaseInv, Renaming
<1>5. /\ FileGrows0 /\ Errors
      /\ \E k \in 0..Len(x) : Log' = Log \o SubSeq(x, 1, k) /\ (~sticky' => k = Len(x))
  BY <1>2, <1>3, PutLog
<1>6. PICK k \in 0..Len(x) : Log' = Log \o SubSeq(x, 1, k) /\ (~sticky' => k = Len(x))
  BY <1>5
<1>7. LinedInv'
  <2>1. Lined(Log')
    BY <1>3, <1>4, <1>6, PutLines
  <2> QED BY <1>2, <2>1, Emptiness DEF LinedInv, Lined
<1>8. RecordsInv'
  <2> SUFFICES ASSUME faults' = 0
               PROVE  /\ ~cut' /\ ~sticky' /\ ~torn' /\ Consecutive(Log')
                      /\ Log'[1].at = 1 /\ ~Log'[1].eol
                      /\ Log'[Len(Log')].eol /\ Log'[Len(Log')].rec = written'
    BY <1>2 DEF RecordsInv, Consecutive
  <2>1. faults = 0 /\ ~cut' /\ ~sticky' /\ ~torn'
    BY <1>2, <1>4, <1>5, ErrorsYet
  <2>2. PICK n \in RecordSize : x = Record(written, n)
    BY <1>1, <1>2, <2>1 DEF TextInv, RecordsInv
  <2>3. Log' = x
    <3>1. SubSeq(x, 1, k) = x
      BY <1>3, <1>6, <2>1
    <3> QED BY <1>3, <1>4, <1>6, <3>1, ExtendEmpty
  <2>4. written \in 1..MaxRecords
    <3>1. n \in Nat /\ n > 1 /\ written \in 0..MaxRecords /\ MaxRecords \in Nat
      BY SizeOfRecord, WriterAssumption DEF WriterInv, WriterTypeOK
    <3>2. written # 0
      <4>1. Len(x) = n /\ 1 \in 1..Len(x)
        BY <1>3, <2>2, <3>1 DEF Record
      <4>2. x[1] \in Cell
        BY <1>3, <4>1
      <4>3. x[1].rec \in 1..MaxRecords
        BY <4>2 DEF Cell
      <4>4. x[1].rec = written
        BY <2>2, <3>1 DEF Record
      <4> QED BY <3>1, <4>3, <4>4
    <3> QED BY <3>1, <3>2
  <2>5. /\ Consecutive(x) /\ x[1].at = 1 /\ ~x[1].eol
        /\ x[Len(x)].eol /\ x[Len(x)].rec = written
    BY <2>2, <2>4, RecordLines
  <2> QED BY <1>2, <2>1, <2>3, <2>5 DEF Consecutive
<1> QED
  BY <1>5, <1>7, <1>8 DEF TextInv, GoesOn

LEMMA StutterText ==
  ASSUME WriterInv, TextInv, UNCHANGED writer
  PROVE  TextInv' /\ GoesOn
<1>1. /\ disk' = disk /\ buffer' = buffer
      /\ UNCHANGED <<incoming, mutex, written, faults, cut, torn, sticky>>
  BY DEF writer, file, writerHistory
<1>2. Log' = Log /\ GoesOn
  BY <1>1, SameFile DEF Log
<1> QED
  BY <1>1, <1>2, SameText, WorksYet

LEMMA NextText ==
  ASSUME WriterInv, TextInv, [LogNext]_logVars
  PROVE  TextInv' /\ GoesOn
<1>1. CASE Operate
  BY <1>1, WriteText, FlushedText, FailText, SignalText, StartText DEF Operate
<1>2. CASE Rotate
  BY <1>2, RotateText, CreateText, FinishWriteText DEF Rotate
<1>3. CASE Stop
  BY <1>3, StopText
<1>4. CASE Flush \/ UNCHANGED writer
  BY <1>4, FlushedText, StutterText
<1>5. Reading => Flush \/ UNCHANGED writer
  BY DEF Reading, List, FlushFirst, Subscribe, TickFollow, Stat, ReadRange, Send, Cancel
<1> QED
  BY <1>1, <1>2, <1>3, <1>4, <1>5 DEF LogNext, Writing, Rotating, Halt, logVars

LEMMA InitText == LogInit => TextInv
<1> SUFFICES ASSUME LogInit
             PROVE  TextInv
  OBVIOUS
<1>1. /\ disk = [i \in Backup |-> IF i = 0 THEN <<>> ELSE None] /\ buffer = <<>> /\ incoming = <<>>
      /\ ~cut /\ ~sticky /\ ~torn /\ mutex = "free"
  BY DEF LogInit, InitWriter
<1>2. Content(0) = <<>>
  BY <1>1, Backups DEF Content
<1>3. Log = <<>>
  <2>1. <<>> \o <<>> = <<>>
    OBVIOUS
  <2> QED BY <1>1, <1>2, <2>1 DEF Log
<1> QED
  BY <1>1, <1>3, Emptiness DEF TextInv, LinedInv, RecordsInv

LEMMA TextAlways == LogSpec => [](WriterInv /\ TextInv)
<1>1. LogInit => WriterInv /\ TextInv
  BY InitText, WriterInit DEF LogInit
<1>2. WriterInv /\ TextInv /\ [LogNext]_logVars => (WriterInv /\ TextInv)'
  BY NextInv, NextText
<1> QED
  BY <1>1, <1>2, PTL DEF LogSpec

-----------------------------------------------------------------------------
(* What the lines of a text are made of *)

LEMMA ConcatAppend ==
  ASSUME NEW S, NEW a \in Seq(S), NEW b \in Seq(S), NEW x \in S
  PROVE  a \o Append(b, x) = Append(a \o b, x)
OBVIOUS

LEMMA SubSeqAppend ==
  ASSUME NEW S, NEW s \in Seq(S), NEW m \in Nat, NEW i \in Nat, m <= i + 1, 1 <= m, i + 1 <= Len(s)
  PROVE  SubSeq(s, m, i + 1) = Append(SubSeq(s, m, i), s[i + 1])
OBVIOUS

\* Nothing is left of a line that has ended, and something of every other.
LEMMA SplitRest ==
  ASSUME NEW s \in Seq(Cell), NEW l, NEW r, Splits(l, r, s)
  PROVE  /\ \A i \in 0..Len(s) : r[i] = <<>> <=> i = 0 \/ s[i].eol
         /\ \A i \in 0..Len(s) : \A j \in 1..Len(r[i]) : ~r[i][j].eol
<1> DEFINE NoEnd(x) == \A j \in 1..Len(x) : ~x[j].eol
           T == {i \in 0..Len(s) : NoEnd(r[i])}
<1>1. Len(s) \in Nat
  OBVIOUS
<1>2. r[0] = <<>> /\ NoEnd(<<>>)
  <2>1. Len(<<>>) = 0
    OBVIOUS
  <2> QED BY <2>1 DEF Splits
<1>3. ASSUME NEW i \in 1..Len(s)
      PROVE  (r[i] = <<>> <=> s[i].eol) /\ (NoEnd(r[i - 1]) => NoEnd(r[i]))
  <2>1. SplitStep(l, r, s, i) /\ i - 1 \in 0..Len(s) /\ s[i] \in Cell
    BY DEF Splits
  <2>2. CASE s[i].eol
    BY <1>2, <2>1, <2>2 DEF SplitStep
  <2>3. CASE ~s[i].eol
    <3>1. PICK b, c : b = r[i - 1] /\ c = s[i]
      OBVIOUS
    <3>2. b \in Seq(Cell) /\ c \in Cell
      BY <2>1, <3>1 DEF Splits
    <3>3. r[i] = Append(b, c)
      BY <2>1, <2>3, <3>1 DEF SplitStep
    <3>4. /\ Append(b, c) \in Seq(Cell) /\ Len(Append(b, c)) = Len(b) + 1 /\ Len(b) \in Nat
          /\ \A j \in 1..Len(b) : Append(b, c)[j] = b[j]
          /\ Append(b, c)[Len(b) + 1] = c
      <4>1. Len(b) \in Nat
        BY <3>2
      <4> QED BY <3>2, <4>1, AppendIs
    <3>5. Append(b, c) # <<>>
      BY <3>4, Emptiness
    <3>6. ASSUME NoEnd(b)
          PROVE  NoEnd(Append(b, c))
      <4>1. ASSUME NEW j \in 1..Len(b) + 1
            PROVE  ~Append(b, c)[j].eol
        <5>1. CASE j = Len(b) + 1
          BY <2>3, <3>1, <3>4, <5>1
        <5>2. CASE j # Len(b) + 1
          <6>1. j \in 1..Len(b)
            BY <3>4, <5>2
          <6> QED BY <3>4, <3>6, <6>1
        <5> QED BY <5>1, <5>2
      <4> QED BY <3>4, <4>1
    <3> QED BY <2>3, <3>1, <3>3, <3>5, <3>6
  <2> QED BY <2>2, <2>3
<1>4. \A i \in 0..Len(s) : NoEnd(r[i])
  <2>1. 0 \in T
    BY <1>1, <1>2
  <2>2. ASSUME NEW i \in 0..Len(s), i # Len(s), i \in T
        PROVE  i + 1 \in T
    <3>1. i + 1 \in 1..Len(s) /\ (i + 1) - 1 = i /\ i + 1 \in 0..Len(s)
      BY <1>1, <2>2
    <3>2. NoEnd(r[i + 1])
      BY <1>3, <2>2, <3>1
    <3> QED BY <3>1, <3>2
  <2>3. \A i \in 0..Len(s) : i # Len(s) /\ i \in T => i + 1 \in T
    BY <2>2
  <2> HIDE DEF T
  <2>4. \A i \in 0..Len(s) : i \in T
    BY <1>1, <2>1, <2>3, StepByStep
  <2> QED BY <2>4 DEF T
<1>5. ASSUME NEW i \in 0..Len(s)
      PROVE  r[i] = <<>> <=> i = 0 \/ s[i].eol
  <2>1. i # 0 => i \in 1..Len(s)
    BY <1>1
  <2> QED BY <1>2, <1>3, <2>1
<1> QED
  BY <1>4, <1>5

\* Behind the lines that there were, those of s and what is left are s, but for the end of a line at
\* its beginning.
LEMMA SplitFlat ==
  ASSUME NEW s \in Seq(Cell), NEW l, NEW r, Splits(l, r, s), Lined(s), NEW t \in Seq(Seq(Cell)),
         NEW b \in 0..1, b = 1 <=> s # <<>> /\ s[1].eol
  PROVE  FlattenSeq(t \o l[Len(s)]) \o r[Len(s)] = FlattenSeq(t) \o SubSeq(s, b + 1, Len(s))
<1> DEFINE Flat(i) == FlattenSeq(t \o l[i]) \o r[i] = FlattenSeq(t) \o SubSeq(s, b + 1, i)
           T == {i \in 0..Len(s) : i >= b => Flat(i)}
<1>1. Len(s) \in Nat /\ (b = 1 => Len(s) # 0)
  BY Emptiness
<1>2. PICK e : e = <<>>
  OBVIOUS
<1>3. e \in Seq(Cell) /\ e \in Seq(Seq(Cell)) /\ Len(e) = 0
  BY <1>2
<1>4. PICK F : F = FlattenSeq(t)
  OBVIOUS
<1>5. F \in Seq(Cell) /\ F \o e = F /\ t \o e = t
  <2>1. F \in Seq(Cell)
    BY <1>3, <1>4, FlattenAppend
  <2> QED BY <1>2, <2>1, ExtendEmpty
<1>6. ASSUME l[b] = e, r[b] = e
      PROVE  Flat(b)
  <2>1. SubSeq(s, b + 1, b) = e
    BY <1>2
  <2> QED BY <1>4, <1>5, <1>6, <2>1
<1>7. 0 \in T /\ (b = 1 => Flat(1))
  <2>1. l[0] = e /\ r[0] = e
    BY <1>2 DEF Splits
  <2>2. b = 1 => l[1] = e /\ r[1] = e
    <3>1. b = 1 => 1 \in 1..Len(s) /\ s[1].eol /\ 1 - 1 = 0
      BY <1>1
    <3> QED BY <1>2, <2>1, <3>1 DEF Splits, SplitStep
  <2>3. b = 0 \/ b = 1
    OBVIOUS
  <2> HIDE DEF Flat
  <2>4. 0 \in 0..Len(s)
    BY <1>1
  <2> QED BY <1>6, <2>1, <2>2, <2>3, <2>4
<1>8. ASSUME NEW i \in 0..Len(s), i # Len(s), i >= b, Flat(i)
      PROVE  Flat(i + 1)
  <2>1. PICK L, R, c, q : L = l[i] /\ R = r[i] /\ c = s[i + 1] /\ q = SubSeq(s, b + 1, i)
    OBVIOUS
  <2>2. i + 1 \in 1..Len(s) /\ (i + 1) - 1 = i
    BY <1>1, <1>8
  <2>3. L \in Seq(Seq(Cell)) /\ R \in Seq(Cell) /\ c \in Cell /\ q \in Seq(Cell)
    <3>1. q \in Seq(Cell)
      BY <2>1, <2>2
    <3>2. l \in [0..Len(s) -> Seq(Seq(Cell))] /\ r \in [0..Len(s) -> Seq(Cell)]
      BY DEF Splits
    <3>3. L \in Seq(Seq(Cell)) /\ R \in Seq(Cell)
      BY <2>1, <3>2
    <3> QED BY <2>1, <2>2, <3>1, <3>3
  <2>4. SubSeq(s, b + 1, i + 1) = Append(q, c)
    <3>1. b + 1 \in Nat /\ i \in Nat /\ b + 1 <= i + 1 /\ 1 <= b + 1 /\ i + 1 <= Len(s)
      BY <1>8, <2>2
    <3> QED BY <2>1, <3>1, SubSeqAppend
  <2>5. PICK G : G = FlattenSeq(t \o L)
    OBVIOUS
  <2>6. t \o L \in Seq(Seq(Cell)) /\ G \in Seq(Cell)
    <3>1. t \o L \in Seq(Seq(Cell))
      BY <2>3
    <3> QED BY <1>3, <2>5, <3>1, FlattenAppend
  <2>7. G \o R = F \o q
    BY <1>4, <1>8, <2>1, <2>5
  <2>8. G \o Append(R, c) = F \o Append(q, c)
    <3>1. G \o Append(R, c) = Append(G \o R, c)
      BY <2>3, <2>6, ConcatAppend
    <3>2. F \o Append(q, c) = Append(F \o q, c)
      <4>1. F \in Seq(Cell) /\ q \in Seq(Cell) /\ c \in Cell
        BY <1>5, <2>3
      <4> QED BY <4>1, ConcatAppend
    <3> QED BY <2>7, <3>1, <3>2
  <2>9. SplitStep(l, r, s, i + 1)
    BY <2>2 DEF Splits
  <2>10. CASE ~c.eol
    <3>1. l[i + 1] = L /\ r[i + 1] = Append(R, c)
      BY <2>1, <2>2, <2>9, <2>10 DEF SplitStep
    <3> QED BY <1>4, <2>4, <2>5, <2>8, <3>1
  <2>11. CASE c.eol
    <3>1. R # <<>>
      <4>1. i # 0
        BY <1>8, <2>1, <2>11
      <4>2. ~s[i].eol
        BY <2>1, <2>2, <2>11, <4>1 DEF Lined
      <4> QED BY <2>1, <4>1, <4>2, SplitRest
    <3>2. l[i + 1] = Append(L, Append(R, c)) /\ r[i + 1] = e
      BY <1>2, <2>1, <2>2, <2>9, <2>11, <3>1 DEF SplitStep
    <3>3. Append(R, c) \in Seq(Cell)
      BY <2>3
    <3>4. t \o Append(L, Append(R, c)) = Append(t \o L, Append(R, c))
      BY <2>3, <3>3, ConcatAppend, SMTT(30)
    <3>5. FlattenSeq(Append(t \o L, Append(R, c))) = G \o Append(R, c)
      BY <2>5, <2>6, <3>3, FlattenAppend
    <3>6. G \o Append(R, c) \in Seq(Cell)
      BY <2>6, <3>3
    <3>7. (G \o Append(R, c)) \o e = G \o Append(R, c)
      BY <1>2, <3>6, ExtendEmpty
    <3> QED BY <1>4, <2>4, <2>8, <3>2, <3>4, <3>5, <3>7
  <2> QED BY <2>10, <2>11
<1>9. \A i \in 0..Len(s) : i # Len(s) /\ i \in T => i + 1 \in T
  <2> HIDE DEF Flat
  <2> SUFFICES ASSUME NEW i \in 0..Len(s), i # Len(s), i \in T, i + 1 >= b
               PROVE  i + 1 \in 0..Len(s) /\ Flat(i + 1)
    OBVIOUS
  <2>1. i + 1 \in 0..Len(s)
    BY <1>1
  <2>2. CASE i >= b
    BY <1>8, <2>1, <2>2
  <2>3. CASE ~(i >= b)
    <3>1. i + 1 = 1 /\ b = 1
      BY <2>3
    <3> QED BY <1>7, <2>1, <3>1
  <2> QED BY <2>2, <2>3
<1>10. Flat(Len(s))
  <2> HIDE DEF Flat
  <2>1. 0 \in T
    BY <1>7
  <2>2. Len(s) \in 0..Len(s) /\ Len(s) >= b
    BY <1>1
  <2> HIDE DEF T
  <2>3. \A i \in 0..Len(s) : i \in T
    BY <1>1, <1>9, <2>1, StepByStep
  <2> QED BY <2>2, <2>3 DEF T
<1> QED
  BY <1>10

-----------------------------------------------------------------------------
(* follow *)

Seen == FlattenSeq(sent \o lines) \o carry

\* As long as the file is the same, follow has seen what was added from since to offset, without the
\* end of a line whose rest was there before (b = 1).
Follows ==
  /\ disk[0] # None
  /\ since <= offset /\ offset <= Len(Content(0))
  /\ follower = "read" => offset < size /\ size <= Len(Content(0))
  /\ carry = <<>> /\ offset # since => Content(0)[offset].eol
  /\ \E b \in 0..1 : /\ Seen = SubSeq(Content(0), since + b + 1, offset)
                     /\ b = 1 => since < offset /\ Content(0)[since + 1].eol

FollowInv ==
  /\ \A i \in 1..Len(carry) : ~carry[i].eol
  /\ follower \notin {"sending", "cancelled"} => lines = <<>>
  /\ follower = "off" => sent = <<>> /\ carry = <<>>
  /\ quiet => Follows

LEMMA FlattenNothing == FlattenSeq(<<>> \o <<>>) \o <<>> = <<>>
<1>1. PICK e : e = <<>>
  OBVIOUS
<1>2. e \o e = e
  BY <1>1
<1>3. FlattenSeq(e) = e
  BY <1>1, FlattenEmpty
<1> QED
  BY <1>1, <1>2, <1>3

LEMMA InitFollow == LogInit => LogTypeOK /\ FollowInv
<1> SUFFICES ASSUME LogInit
             PROVE  LogTypeOK /\ FollowInv
  OBVIOUS
<1>1. /\ follower = "off" /\ offset = 0 /\ size = 0 /\ carry = <<>>
      /\ lines = <<>> /\ sent = <<>> /\ since = 0 /\ quiet = TRUE
  BY DEF LogInit
<1>2. LogTypeOK
  <2>1. WriterTypeOK
    BY WriterInit DEF LogInit, WriterInv
  <2>2. <<>> \in Seq(Cell) /\ <<>> \in Seq(Seq(Cell))
    OBVIOUS
  <2> QED BY <1>1, <2>1, <2>2 DEF LogTypeOK
<1>3. disk[0] = <<>> /\ disk[0] # None
  <2>1. disk[0] = <<>>
    BY Backups DEF LogInit, InitWriter
  <2>2. <<>> \in Seq(Cell)
    OBVIOUS
  <2> QED BY <2>1, <2>2, NoneIsNoFile
<1>4. Content(0) = <<>> /\ Len(<<>>) = 0
  <2>1. Len(<<>>) = 0
    OBVIOUS
  <2> QED BY <1>3, <2>1 DEF Content
<1>5. Seen = <<>>
  BY <1>1, FlattenNothing DEF Seen
<1>6. SubSeq(<<>>, 0 + 0 + 1, 0) = <<>>
  OBVIOUS
<1>7. \E b \in 0..1 : /\ Seen = SubSeq(Content(0), since + b + 1, offset)
                      /\ b = 1 => since < offset /\ Content(0)[since + 1].eol
  <2>1. 0 \in 0..1 /\ 0 # 1
    OBVIOUS
  <2> QED BY <1>1, <1>4, <1>5, <1>6, <2>1
<1> QED
  BY <1>1, <1>2, <1>3, <1>4, <1>7 DEF FollowInv, Follows

\* Nothing that was read changes when the file goes on.
LEMMA PrefixStays ==
  ASSUME NEW f \in Seq(Cell), NEW x \in Seq(Cell), NEW m \in Nat \ {0}, NEW n \in Nat, n <= Len(f)
  PROVE  SubSeq(f \o x, m, n) = SubSeq(f, m, n) /\ \A i \in 1..Len(f) : (f \o x)[i] = f[i]
OBVIOUS

\* A step of the writer, or of follow before it looks at the file.
LEMMA FileGoesOn ==
  ASSUME WriterInv, LogTypeOK, FollowInv, GoesOn, WriterTypeOK',
         UNCHANGED <<offset, size, carry, lines, sent, since>>, quiet' \in BOOLEAN,
         quiet' => quiet /\ disk'[0] # None,
         \/ UNCHANGED follower
         \/ follower = "waiting" /\ follower' = "stat"
         \/ follower' = "cancelled"
  PROVE  LogTypeOK' /\ FollowInv'
<1>1. LogTypeOK'
  BY DEF LogTypeOK
<1>2. /\ \A i \in 1..Len(carry') : ~carry'[i].eol
      /\ follower' \notin {"sending", "cancelled"} => lines' = <<>>
      /\ follower' = "off" => sent' = <<>> /\ carry' = <<>>
  BY DEF FollowInv
<1>3. ASSUME quiet'
      PROVE  Follows'
  <2>1. Follows /\ disk[0] # None /\ disk'[0] # None
    BY <1>3 DEF FollowInv, Follows
  <2>2. PICK f, g : f = Content(0) /\ g = Content(0)'
    OBVIOUS
  <2>3. f \in Seq(Cell)
    BY <2>2, LogType DEF WriterInv
  <2>4. PICK x \in Seq(Cell) : g = f \o x
    BY <2>1, <2>2 DEF GoesOn, FileGrows0
  <2>5. Len(f) \in Nat /\ Len(g) \in Nat /\ Len(f) <= Len(g) /\ \A i \in 1..Len(f) : g[i] = f[i]
    <3>1. Len(f \o x) = Len(f) + Len(x) /\ Len(x) \in Nat /\ Len(f) \in Nat
      BY <2>3
    <3>2. \A i \in 1..Len(f) : (f \o x)[i] = f[i]
      BY <2>3
    <3> QED BY <2>4, <3>1, <3>2
  <2>6. since \in Nat /\ offset \in Nat /\ size \in Nat /\ since <= offset /\ offset <= Len(f)
    BY <2>1, <2>2 DEF LogTypeOK, Follows
  <2>7. follower' = "read" => offset < size /\ size <= Len(g)
    <3>1. follower' = "read" => follower = "read"
      OBVIOUS
    <3>2. follower = "read" => offset < size /\ size <= Len(f)
      BY <2>1, <2>2 DEF Follows
    <3> QED BY <2>5, <2>6, <3>1, <3>2
  <2>8. carry = <<>> /\ offset # since => g[offset].eol
    <3>1. carry = <<>> /\ offset # since => f[offset].eol
      BY <2>1, <2>2 DEF Follows
    <3>2. offset # since => offset \in 1..Len(f)
      BY <2>6
    <3> QED BY <2>5, <3>1, <3>2
  <2>9. PICK b \in 0..1 : /\ Seen = SubSeq(f, since + b + 1, offset)
                          /\ b = 1 => since < offset /\ f[since + 1].eol
    BY <2>1, <2>2 DEF Follows
  <2>10. SubSeq(g, since + b + 1, offset) = SubSeq(f, since + b + 1, offset)
    <3>1. since + b + 1 \in Nat \ {0}
      BY <2>6
    <3> QED BY <2>3, <2>4, <2>6, <3>1, PrefixStays
  <2>11. b = 1 => since < offset /\ g[since + 1].eol
    <3>1. b = 1 => since + 1 \in 1..Len(f)
      BY <2>6, <2>9
    <3> QED BY <2>5, <2>9, <3>1
  <2>12. Seen' = Seen
    BY DEF Seen
  <2> QED BY <2>1, <2>2, <2>5, <2>6, <2>7, <2>8, <2>9, <2>10, <2>11, <2>12 DEF Follows
<1> QED
  BY <1>1, <1>2, <1>3 DEF FollowInv

LEMMA SubscribeFollow ==
  ASSUME WriterInv, LogTypeOK, FollowInv, Subscribe
  PROVE  LogTypeOK' /\ FollowInv'
<1>1. PICK n : n = Len(Content(0))
  OBVIOUS
<1>2. /\ follower = "off" /\ follower' = "waiting" /\ offset' = n /\ since' = n /\ quiet' = (disk[0] # None)
      /\ UNCHANGED <<writer, size, carry, lines, sent>>
  BY <1>1 DEF Subscribe
<1>3. lines = <<>> /\ sent = <<>> /\ carry = <<>>
  BY <1>2 DEF FollowInv
<1>4. Content(0) \in Seq(Cell) /\ n \in Nat
  BY <1>1, LogType DEF WriterInv
<1>5. disk' = disk /\ Content(0)' = Content(0) /\ WriterTypeOK'
  BY <1>2, WriterStutters DEF writer, file, Content, WriterInv
<1>6. LogTypeOK'
  <2>1. quiet' \in BOOLEAN
    BY <1>2
  <2> QED BY <1>2, <1>4, <1>5, <2>1 DEF LogTypeOK
<1>7. Seen' = <<>>
  BY <1>2, <1>3, FlattenNothing DEF Seen
<1>8. SubSeq(Content(0), n + 0 + 1, n) = <<>>
  BY <1>4
<1>9. quiet' => Follows'
  <2>1. 0 \in 0..1 /\ 0 # 1
    OBVIOUS
  <2>2. \E b \in 0..1 : /\ Seen' = SubSeq(Content(0)', since' + b + 1, offset')
                        /\ b = 1 => since' < offset' /\ Content(0)'[since' + 1].eol
    BY <1>2, <1>5, <1>7, <1>8, <2>1
  <2>3. since' <= offset' /\ offset' <= Len(Content(0)') /\ offset' = since' /\ follower' # "read"
    <3>1. n <= n
      BY <1>4
    <3> QED BY <1>1, <1>2, <1>5, <3>1
  <2>4. quiet' => disk'[0] # None
    BY <1>2, <1>5
  <2> HIDE DEF Seen, Content
  <2> QED BY <2>2, <2>3, <2>4 DEF Follows
<1> QED
  BY <1>2, <1>3, <1>6, <1>9, Emptiness DEF FollowInv

LEMMA StatFollow ==
  ASSUME WriterInv, LogTypeOK, FollowInv, Stat
  PROVE  LogTypeOK' /\ FollowInv'
<1>1. PICK n : n = Len(Content(0))
  OBVIOUS
<1>2. PICK known : known = IF n < offset THEN 0 ELSE offset
  OBVIOUS
<1>3. /\ follower = "stat" /\ size' = n /\ offset' = known
      /\ carry' = (IF n < offset THEN <<>> ELSE carry)
      /\ follower' = (IF n = known THEN "waiting" ELSE "read")
      /\ UNCHANGED <<writer, lines, sent, since, quiet>>
  BY <1>1, <1>2 DEF Stat
<1>4. n \in Nat /\ known \in Nat /\ offset \in Nat
  BY <1>1, <1>2, LogType DEF WriterInv, LogTypeOK
<1>5. disk' = disk /\ Content(0)' = Content(0) /\ WriterTypeOK'
  BY <1>3, WriterStutters DEF writer, file, Content, WriterInv
<1>6. LogTypeOK'
  <2>1. <<>> \in Seq(Cell)
    OBVIOUS
  <2> QED BY <1>3, <1>4, <1>5, <2>1 DEF LogTypeOK
<1>7. ASSUME quiet'
      PROVE  Follows'
  <2>1. Follows /\ offset <= n
    BY <1>1, <1>3, <1>7 DEF FollowInv, Follows
  <2>2. offset' = offset /\ carry' = carry /\ known = offset
    BY <1>2, <1>3, <1>4, <2>1
  <2>3. Seen' = Seen
    BY <1>3, <2>2 DEF Seen
  <2>4. follower' = "read" => offset < size' /\ size' <= n
    BY <1>3, <1>4, <2>1, <2>2
  <2> QED BY <1>1, <1>3, <1>5, <2>1, <2>2, <2>3, <2>4 DEF Follows
<1>8. \A i \in 1..Len(carry') : ~carry'[i].eol
  BY <1>3, Emptiness DEF FollowInv
<1> QED
  BY <1>3, <1>6, <1>7, <1>8 DEF FollowInv

LEMMA SendIs ==
  ASSUME NEW S, NEW s \in Seq(S), NEW l \in Seq(S), l # <<>>
  PROVE  /\ Append(s, Head(l)) \in Seq(S) /\ Tail(l) \in Seq(S)
         /\ Append(s, Head(l)) \o Tail(l) = s \o l
OBVIOUS

LEMMA SendFollow ==
  ASSUME WriterInv, LogTypeOK, FollowInv, Send
  PROVE  LogTypeOK' /\ FollowInv'
<1>1. /\ follower = "sending" /\ follower' \in {"waiting", "sending"}
      /\ UNCHANGED <<writer, offset, size, carry, since, quiet>>
      /\ \/ lines = <<>> /\ UNCHANGED <<lines, sent>>
         \/ lines # <<>> /\ sent' = Append(sent, Head(lines)) /\ lines' = Tail(lines) /\ follower' = "sending"
  BY DEF Send
<1>2. sent' \in Seq(Seq(Cell)) /\ lines' \in Seq(Seq(Cell)) /\ sent' \o lines' = sent \o lines
  <2>1. sent \in Seq(Seq(Cell)) /\ lines \in Seq(Seq(Cell))
    BY DEF LogTypeOK
  <2>2. CASE lines = <<>> /\ UNCHANGED <<lines, sent>>
    BY <2>1, <2>2
  <2>3. CASE lines # <<>> /\ sent' = Append(sent, Head(lines)) /\ lines' = Tail(lines)
    <3>1. PICK s, l : s = sent /\ l = lines
      OBVIOUS
    <3>2. /\ Append(s, Head(l)) \in Seq(Seq(Cell)) /\ Tail(l) \in Seq(Seq(Cell))
          /\ Append(s, Head(l)) \o Tail(l) = s \o l
      BY <2>1, <2>3, <3>1, SendIs, SMTT(30)
    <3> QED BY <2>3, <3>1, <3>2
  <2> QED BY <1>1, <2>2, <2>3
<1>3. disk' = disk /\ Content(0)' = Content(0) /\ WriterTypeOK'
  BY <1>1, WriterStutters DEF writer, file, Content, WriterInv
<1>4. LogTypeOK'
  BY <1>1, <1>2, <1>3 DEF LogTypeOK
<1>5. Seen' = Seen
  BY <1>1, <1>2 DEF Seen
<1>6. Follows => Follows'
  BY <1>1, <1>3, <1>5 DEF Follows
<1> QED
  BY <1>1, <1>4, <1>6 DEF FollowInv

LEMMA MinIs ==
  ASSUME NEW a \in Nat, NEW b \in Nat
  PROVE  Min({a, b}) \in Nat /\ Min({a, b}) <= a /\ Min({a, b}) <= b /\ (a <= b => Min({a, b}) = a)
<1>1. CASE a <= b
  <2>1. \A y \in {a, b} : a <= y
    BY <1>1
  <2>2. \A z \in {a, b} : (\A y \in {a, b} : z <= y) => z = a
    BY <1>1
  <2> QED BY <1>1, <2>1, <2>2 DEF Min
<1>2. CASE ~(a <= b)
  <2>1. \A y \in {a, b} : b <= y
    BY <1>2
  <2>2. \A z \in {a, b} : (\A y \in {a, b} : z <= y) => z = b
    BY <1>2
  <2> QED BY <1>2, <2>1, <2>2 DEF Min
<1> QED BY <1>1, <1>2

LEMMA SubSeqIs ==
  ASSUME NEW S, NEW f \in Seq(S), NEW m \in Nat, NEW k \in Nat, m <= k, k <= Len(f)
  PROVE  SubSeq(f, m + 1, k) \in Seq(S) /\ IsPiece(SubSeq(f, m + 1, k), f, m, k)
<1>1. /\ SubSeq(f, m + 1, k) \in Seq(S) /\ Len(SubSeq(f, m + 1, k)) = k - m
      /\ \A j \in 1..(k - m) : SubSeq(f, m + 1, k)[j] = f[m + j]
  OBVIOUS
<1>2. m \in 0..k /\ k \in 0..Len(f)
  OBVIOUS
<1> QED
  BY <1>1, <1>2 DEF IsPiece

\* What begins where another ends.
LEMMA SubSeqJoins ==
  ASSUME NEW f \in Seq(Cell), NEW m \in Nat, NEW i \in Nat, NEW k \in Nat,
         m <= i, i <= k, k <= Len(f)
  PROVE  SubSeq(f, m + 1, i) \o SubSeq(f, i + 1, k) = SubSeq(f, m + 1, k)
<1>1. PICK a, b : a = SubSeq(f, m + 1, i) /\ b = SubSeq(f, i + 1, k)
  OBVIOUS
<1>2. i <= Len(f)
  OBVIOUS
<1>3. a \in Seq(Cell) /\ IsPiece(a, f, m, i)
  BY <1>1, <1>2, SubSeqIs
<1>4. b \in Seq(Cell) /\ IsPiece(b, f, i, k)
  BY <1>1, SubSeqIs
<1>5. a \o b \in Seq(Cell)
  BY <1>3, <1>4
<1>6. IsPiece(a \o b, f, m, k)
  BY <1>3, <1>4, PiecesJoin
<1>7. a \o b = SubSeq(f, m + 1, k)
  BY <1>5, <1>6, PieceIs
<1> QED
  BY <1>1, <1>7

\* The beginning of a text with lines.
LEMMA LinedPart ==
  ASSUME WriterTypeOK, TextInv
  PROVE  Lined(Content(0))
<1>1. Log \in Seq(Cell) /\ Len(Log) >= Len(Content(0)) /\ Len(Content(0)) \in Nat
      /\ \A i \in 1..Len(Content(0)) : Log[i] = Content(0)[i]
  <2>1. Len(buffer) \in Nat /\ Len(Content(0)) \in Nat
    BY LogType
  <2> QED BY <2>1, LogType
<1>2. \A i \in 1..Len(Content(0)) : i \in 1..Len(Log) /\ (i # 1 => i - 1 \in 1..Len(Content(0)))
  <2>1. Len(Log) \in Nat
    BY <1>1
  <2> QED BY <1>1, <2>1
<1> QED
  BY <1>1, <1>2 DEF TextInv, LinedInv, Lined

\* What is read is behind what was, and its lines with it.
LEMMA ReadFollow ==
  ASSUME WriterInv, TextInv, LogTypeOK, FollowInv, ReadRange
  PROVE  LogTypeOK' /\ FollowInv'
<1>1. PICK f, new, s : /\ f = Content(0) /\ new = SubSeq(f, offset + 1, Min({size, Len(f)}))
                       /\ s = carry \o new
  OBVIOUS
<1>2. /\ follower = "read" /\ UNCHANGED <<writer, size, sent, since, quiet>>
      /\ \/ /\ disk[0] # None /\ offset' = size /\ carry' = Rest(s) /\ lines' = Lines(s)
            /\ follower' = "sending"
         \/ /\ disk[0] = None /\ follower' = "waiting" /\ UNCHANGED <<offset, carry, lines>>
  BY <1>1 DEF ReadRange
<1>3. f \in Seq(Cell) /\ Len(f) \in Nat /\ offset \in Nat /\ size \in Nat /\ since \in Nat
  BY <1>1, LogType DEF WriterInv, LogTypeOK
<1>4. disk' = disk /\ Content(0)' = f /\ WriterTypeOK'
  BY <1>1, <1>2, WriterStutters DEF writer, file, Content, WriterInv
<1>5. lines = <<>>
  BY <1>2 DEF FollowInv
<1>6. CASE disk[0] = None /\ follower' = "waiting" /\ UNCHANGED <<offset, carry, lines>>
  <2>1. ~quiet' /\ LogTypeOK'
    BY <1>2, <1>4, <1>6 DEF FollowInv, Follows, LogTypeOK
  <2> QED BY <1>2, <1>5, <1>6, <2>1 DEF FollowInv
<1>7. CASE disk[0] # None /\ offset' = size /\ carry' = Rest(s) /\ lines' = Lines(s) /\ follower' = "sending"
  <2>1. new \in Seq(Cell) /\ s \in Seq(Cell)
    <3>1. Min({size, Len(f)}) \in Nat /\ Min({size, Len(f)}) <= Len(f)
      BY <1>3, MinIs
    <3>2. new \in Seq(Cell)
      <4>1. PICK k : k = Min({size, Len(f)})
        OBVIOUS
      <4>2. SubSeq(f, offset + 1, k) \in Seq(Cell)
        <5>1. k \in Nat /\ k <= Len(f)
          BY <3>1, <4>1
        <5>2. CASE offset <= k
          BY <1>3, <5>1, <5>2, SubSeqIs
        <5>3. CASE ~(offset <= k)
          <6>1. SubSeq(f, offset + 1, k) = <<>>
            BY <1>3, <5>1, <5>3
          <6>2. <<>> \in Seq(Cell)
            OBVIOUS
          <6> QED BY <6>1, <6>2
        <5> QED BY <5>2, <5>3
      <4> QED BY <1>1, <4>1, <4>2
    <3>3. carry \in Seq(Cell)
      BY DEF LogTypeOK
    <3>4. carry \o new \in Seq(Cell)
      BY <3>2, <3>3
    <3> QED BY <1>1, <3>2, <3>4
  <2>2. PICK l, r : Splits(l, r, s) /\ Lines(s) = l[Len(s)] /\ Rest(s) = r[Len(s)]
    BY <2>1, SplitIs
  <2>3. LogTypeOK'
    BY <1>2, <1>3, <1>4, <1>7, <2>1, LinesType DEF LogTypeOK
  <2>4. \A i \in 1..Len(carry') : ~carry'[i].eol
    <3>1. Len(s) \in 0..Len(s)
      BY <2>1
    <3> QED BY <1>7, <2>1, <2>2, <3>1, SplitRest
  <2>5. ASSUME quiet'
        PROVE  Follows'
    <3>1. /\ Follows /\ since <= offset /\ offset < size /\ size <= Len(f)
          /\ carry = <<>> /\ offset # since => f[offset].eol
      BY <1>1, <1>2, <2>5 DEF FollowInv, Follows
    <3>2. PICK b \in 0..1 : /\ Seen = SubSeq(f, since + b + 1, offset)
                            /\ b = 1 => since < offset /\ f[since + 1].eol
      BY <1>1, <3>1 DEF Follows
    <3>3. PICK F, c : F = FlattenSeq(sent) /\ c = carry
      OBVIOUS
    <3>4. F \in Seq(Cell) /\ c \in Seq(Cell) /\ sent \in Seq(Seq(Cell))
      <4>1. sent \in Seq(Seq(Cell)) /\ <<>> \in Seq(Cell)
        BY DEF LogTypeOK
      <4> QED BY <3>3, <4>1, FlattenAppend DEF LogTypeOK
    <3>5. F \o c = SubSeq(f, since + b + 1, offset)
      <4>1. sent \o <<>> = sent
        BY <3>4
      <4> QED BY <1>5, <3>2, <3>3, <4>1 DEF Seen
    <3>6. /\ new = SubSeq(f, offset + 1, size) /\ Len(new) = size - offset
          /\ \A i \in 1..Len(new) : new[i] = f[offset + i]
      <4>1. Min({size, Len(f)}) = size
        BY <1>3, <3>1, MinIs
      <4>2. new = SubSeq(f, offset + 1, size)
        BY <1>1, <4>1
      <4> QED BY <1>3, <3>1, <4>2
    <3>7. /\ Len(s) = Len(c) + Len(new) /\ Len(c) \in Nat /\ Len(new) \in Nat \ {0}
          /\ \A i \in 1..Len(c) : s[i] = c[i]
          /\ \A i \in 1..Len(new) : s[Len(c) + i] = new[i]
      <4>1. Len(c) \in Nat /\ Len(new) \in Nat \ {0}
        BY <1>3, <3>1, <3>4, <3>6
      <4>2. /\ Len(c \o new) = Len(c) + Len(new)
            /\ \A i \in 1..Len(c) : (c \o new)[i] = c[i]
            /\ \A i \in 1..Len(new) : (c \o new)[Len(c) + i] = new[i]
        BY <2>1, <3>4, ConcatCells
      <4>3. s = c \o new
        BY <1>1, <3>3
      <4> QED BY <4>1, <4>2, <4>3
    <3>8. \A i \in 1..Len(c) : ~c[i].eol
      BY <3>3 DEF FollowInv
    <3>9. Lined(f) /\ Lined(new) /\ Lined(s)
      <4>1. Lined(f)
        BY <1>1, LinedPart DEF WriterInv
      <4>2. Lined(new)
        <5>1. ASSUME NEW i \in 1..Len(new), i # 1, new[i].eol
              PROVE  ~new[i - 1].eol
          <6>1. /\ i - 1 \in 1..Len(new) /\ offset + i \in 1..Len(f) /\ offset + i # 1
                /\ (offset + i) - 1 = offset + (i - 1)
            BY <1>3, <3>1, <3>6, <5>1
          <6> QED BY <3>6, <4>1, <5>1, <6>1 DEF Lined
        <5> QED BY <5>1 DEF Lined
      <4>3. Lined(c)
        BY <3>8 DEF Lined
      <4>4. c # <<>> => ~c[Len(c)].eol
        <5>1. c # <<>> => Len(c) \in 1..Len(c)
          BY <3>4
        <5> QED BY <3>8, <5>1
      <4> QED BY <1>1, <2>1, <3>3, <3>4, <4>1, <4>2, <4>3, <4>4, LinedJoins
    <3>10. PICK a \in 0..1 : a = 1 <=> s # <<>> /\ s[1].eol
      OBVIOUS
    <3>11. FlattenSeq(sent \o lines') \o carry' = F \o SubSeq(s, a + 1, Len(s))
      <4>1. FlattenSeq(sent \o l[Len(s)]) \o r[Len(s)] = FlattenSeq(sent) \o SubSeq(s, a + 1, Len(s))
        <5>1. s \in Seq(Cell) /\ Splits(l, r, s) /\ Lined(s) /\ sent \in Seq(Seq(Cell))
          BY <2>1, <2>2, <3>4, <3>9
        <5>2. a \in 0..1 /\ (a = 1 <=> s # <<>> /\ s[1].eol)
          BY <3>10
        <5> HIDE DEF Splits, Lined
        <5> QED BY <5>1, <5>2, SplitFlat
      <4> QED BY <1>7, <2>2, <3>3, <4>1
    <3>12. \E d \in 0..1 : /\ Seen' = SubSeq(f, since + d + 1, size)
                           /\ d = 1 => since < size /\ f[since + 1].eol
      <4>1. Seen' = F \o SubSeq(s, a + 1, Len(s))
        BY <1>2, <3>11 DEF Seen
      <4>2. CASE a = 0
        <5>1. SubSeq(s, a + 1, Len(s)) = s
          BY <2>1, <4>2
        <5>2. F \o s = (F \o c) \o new
            <6>1. (F \o c) \o new = F \o (c \o new)
            BY <2>1, <3>4, ConcatAssoc, SMTT(30)
          <6> QED BY <1>1, <3>3, <6>1
        <5>3. F \o s = SubSeq(f, since + b + 1, size)
          <6>1. since + b \in Nat /\ since + b <= offset /\ offset <= size
            BY <1>3, <3>1, <3>2
          <6>2. SubSeq(f, since + b + 1, offset) \o SubSeq(f, offset + 1, size) = SubSeq(f, since + b + 1, size)
            BY <1>3, <3>1, <6>1, SubSeqJoins
          <6> QED BY <3>5, <3>6, <5>2, <6>2
        <5>4. b = 1 => since < size /\ f[since + 1].eol
          BY <1>3, <3>1, <3>2
        <5> QED BY <4>1, <5>1, <5>3, <5>4
      <4>3. CASE a = 1
        <5>1. s # <<>> /\ s[1].eol
          BY <3>10, <4>3
        <5>2. Len(c) = 0
          <6>1. Len(c) # 0 => 1 \in 1..Len(c)
            BY <3>7
          <6> QED BY <3>7, <3>8, <5>1, <6>1
        <5>3. c = <<>> /\ s = new /\ new[1].eol
          <6>1. c = <<>>
            BY <3>4, <5>2
          <6>2. s = new
            BY <1>1, <2>1, <3>3, <6>1, ExtendEmpty
          <6> QED BY <5>1, <6>1, <6>2
        <5>4. offset = since
          <6>1. f[offset + 1].eol /\ offset + 1 \in 1..Len(f)
            <7>1. 1 \in 1..Len(new)
              BY <3>7
            <7> QED BY <1>3, <3>1, <3>6, <5>3, <7>1
          <6>2. offset # since => offset + 1 # 1 /\ (offset + 1) - 1 = offset
            BY <1>3, <3>1
          <6> QED BY <3>1, <3>3, <3>9, <5>3, <6>1, <6>2 DEF Lined
        <5>5. F = <<>>
          <6>1. b = 0
            BY <1>3, <3>2, <5>4
          <6>2. SubSeq(f, since + b + 1, offset) = <<>>
            BY <1>3, <5>4, <6>1
          <6>3. F \o c = F
            BY <3>4, <5>3, ExtendEmpty
          <6> QED BY <3>5, <6>2, <6>3
        <5>6. Seen' = SubSeq(new, 2, Len(new))
          <6>1. SubSeq(new, 2, Len(new)) \in Seq(Cell)
            BY <2>1
          <6>2. <<>> \o SubSeq(new, 2, Len(new)) = SubSeq(new, 2, Len(new))
            BY <6>1, ExtendEmpty
          <6> QED BY <4>1, <4>3, <5>3, <5>5, <6>2
        <5>7. SubSeq(new, 2, Len(new)) = SubSeq(f, since + 1 + 1, size)
          <6>1. IsPiece(new, f, since, size) /\ 1 \in 0..Len(new)
            <7>1. IsPiece(new, f, offset, size)
              BY <1>3, <3>1, <3>6, SubSeqIs
            <7> QED BY <3>7, <5>4, <7>1
          <6>2. IsPiece(SubSeq(new, 1 + 1, Len(new)), f, since + 1, size)
            BY <1>3, <2>1, <6>1, PieceSplits
          <6>3. SubSeq(new, 1 + 1, Len(new)) \in Seq(Cell)
            BY <2>1
          <6>4. SubSeq(new, 1 + 1, Len(new)) = SubSeq(f, (since + 1) + 1, size)
            BY <1>3, <6>2, <6>3, PieceIs
          <6>5. 1 + 1 = 2
            OBVIOUS
          <6> QED BY <6>4, <6>5
        <5>8. since < size /\ f[since + 1].eol
          <6>1. 1 \in 1..Len(new)
            BY <3>7
          <6> QED BY <1>3, <3>1, <3>6, <5>3, <5>4, <6>1
        <5>9. Seen' = SubSeq(f, since + 1 + 1, size)
          BY <5>6, <5>7
        <5>10. 1 \in 0..1
          OBVIOUS
        <5> WITNESS 1 \in 0..1
        <5> QED BY <5>8, <5>9
      <4> QED BY <4>2, <4>3
    <3>13. carry' = <<>> => f[size].eol
      <4>1. Len(s) \in 0..Len(s) /\ Len(s) # 0
        BY <2>1, <3>7
      <4>2. Rest(s) = <<>> <=> s[Len(s)].eol
        BY <2>1, <2>2, <4>1, SplitRest
      <4>3. s[Len(s)] = new[Len(new)] /\ new[Len(new)] = f[size]
        <5>1. Len(new) \in 1..Len(new) /\ offset + Len(new) = size
          BY <1>3, <3>6, <3>7
        <5> QED BY <3>6, <3>7, <5>1
      <4> QED BY <1>7, <4>2, <4>3
    <3>14. since' <= offset' /\ offset' <= Len(f)
      BY <1>2, <1>3, <1>7, <3>1
    <3> QED BY <1>2, <1>4, <1>7, <3>12, <3>13, <3>14 DEF Follows
  <2> QED BY <1>7, <2>3, <2>4, <2>5 DEF FollowInv
<1> QED
  BY <1>2, <1>6, <1>7

LEMMA CancelFollow ==
  ASSUME WriterInv, LogTypeOK, FollowInv, Cancel
  PROVE  LogTypeOK' /\ FollowInv'
<1>1. /\ follower' = "cancelled" /\ disk' = disk
      /\ UNCHANGED <<writer, offset, size, carry, lines, sent, since, quiet>>
  BY DEF Cancel, writer, file
<1>2. GoesOn /\ WriterTypeOK' /\ quiet' \in BOOLEAN /\ (quiet' => disk'[0] # None)
  BY <1>1, SameFile, WriterStutters DEF WriterInv, FollowInv, Follows, LogTypeOK
<1> QED
  BY <1>1, <1>2, FileGoesOn

LEMMA NextFollow ==
  ASSUME WriterInv, TextInv, LogTypeOK, FollowInv, [LogNext]_logVars
  PROVE  LogTypeOK' /\ FollowInv'
<1>1. WriterTypeOK' /\ GoesOn
  BY NextInv, NextText DEF WriterInv
<1>2. quiet \in BOOLEAN /\ (quiet => disk[0] # None)
  BY DEF LogTypeOK, FollowInv, Follows
<1>3. CASE Writing \/ Rotating
  <2>1. UNCHANGED <<follower, offset, size, carry, lines, sent, since>> /\ quiet' = (quiet /\ disk'[0] # None)
    BY <1>3 DEF Writing, Rotating, Aside
  <2>2. quiet' \in BOOLEAN
    BY <2>1
  <2> QED BY <1>1, <2>1, <2>2, FileGoesOn
<1>4. CASE Halt
  BY <1>1, <1>2, <1>4, FileGoesOn DEF Halt, Stop
<1>5. CASE List \/ TickFollow
  <2>1. quiet' = quiet /\ (UNCHANGED follower \/ (follower = "waiting" /\ follower' = "stat"))
        /\ UNCHANGED <<offset, size, carry, lines, sent, since>>
    BY <1>5 DEF List, TickFollow, follow
  <2>2. disk[0] # None => disk'[0] # None
    <3>1. CASE UNCHANGED writer
      BY <3>1 DEF writer, file
    <3>2. CASE Flush
      <4>1. FlushBuffer /\ taken' = taken /\ cut' = cut /\ Hole' = Hole
        BY <3>2 DEF Flush, Hole
      <4> QED BY <4>1, FlushPieces, Backups
    <3> QED BY <1>5, <3>1, <3>2 DEF List, TickFollow, FlushFirst
  <2> QED BY <1>1, <1>2, <2>1, <2>2, FileGoesOn
<1>6. CASE UNCHANGED logVars
  BY <1>1, <1>2, <1>6, FileGoesOn DEF logVars, writer, file, follow
<1> QED
  BY <1>3, <1>4, <1>5, <1>6, SubscribeFollow, StatFollow, ReadFollow, SendFollow, CancelFollow
  DEF LogNext, Reading

LEMMA FollowAlways == LogSpec => [](WriterInv /\ TextInv /\ LogTypeOK /\ FollowInv)
<1>1. LogInit => LogTypeOK /\ FollowInv
  BY InitFollow
<1>2. LogInit => WriterInv /\ TextInv
  BY InitText, WriterInit DEF LogInit
<1>3. WriterInv /\ TextInv /\ LogTypeOK /\ FollowInv /\ [LogNext]_logVars
      => (WriterInv /\ TextInv /\ LogTypeOK /\ FollowInv)'
  BY NextInv, NextText, NextFollow
<1> QED
  BY <1>1, <1>2, <1>3, PTL DEF LogSpec

\* What a subscriber was sent, is to be sent and is carried over is, line by line, what was added to
\* the file since it subscribed, as long as the file is not rotated, whatever is written, flushed,
\* read or stopped meanwhile.
THEOREM FollowerSeesAll == LogSpec => []FollowsFile
<1>1. ASSUME WriterInv, LogTypeOK, FollowInv
      PROVE  FollowsFile
  <2>1. PICK f, added : f = Content(0) /\ added = SubSeq(f, since + 1, offset)
    OBVIOUS
  <2>2. f \in Seq(Cell) /\ Len(f) \in Nat /\ since \in Nat /\ offset \in Nat
    BY <1>1, <2>1, LogType DEF WriterInv, LogTypeOK
  <2>3. ASSUME quiet
        PROVE  Seen = added \/ (added # <<>> /\ added[1].eol /\ Seen = Tail(added))
    <3>1. since <= offset /\ offset <= Len(f)
      BY <1>1, <2>1, <2>3 DEF FollowInv, Follows
    <3>2. PICK b \in 0..1 : /\ Seen = SubSeq(f, since + b + 1, offset)
                            /\ b = 1 => since < offset /\ f[since + 1].eol
      BY <1>1, <2>1, <2>3 DEF FollowInv, Follows
    <3>3. CASE b = 0
      BY <2>1, <2>2, <3>2, <3>3
    <3>4. CASE b = 1
      <4>1. /\ added \in Seq(Cell) /\ Len(added) = offset - since
            /\ \A i \in 1..Len(added) : added[i] = f[since + i]
        BY <2>1, <2>2, <3>1
      <4>2. since < offset /\ 1 \in 1..Len(added) /\ added # <<>>
        BY <2>2, <3>2, <3>4, <4>1
      <4>3. added[1].eol
        BY <3>2, <3>4, <4>1, <4>2
      <4>4. SubSeq(f, since + 1 + 1, offset) = Tail(added)
        BY <2>1, <2>2, <3>1, <4>2
      <4> QED BY <3>2, <3>4, <4>2, <4>3, <4>4
    <3> QED BY <3>3, <3>4
  <2> QED BY <1>1, <2>1, <2>3 DEF FollowsFile, Seen
<1> QED
  BY <1>1, FollowAlways, PTL

-----------------------------------------------------------------------------
(* Where the lines of a text are *)

EndsTo(s, i) == {h \in 1..i : s[h].eol}

\* The lines x of s lie between the places q, one behind the other; b of its ends is blank.
LinesAt(q, s, i, x, b) ==
  /\ q \in [0..Len(x) -> 0..i] /\ q[0] = b
  /\ \A j \in 1..Len(x) :
       /\ q[j - 1] < q[j] /\ x[j] = SubSeq(s, q[j - 1] + 1, q[j])
       /\ \A h \in q[j - 1] + 1..q[j] - 1 : ~s[h].eol

\* After i cells of Split.
SplitAt(q, s, i, x, rest, b) ==
  /\ LinesAt(q, s, i, x, b)
  /\ \A j \in 1..Len(x) : s[q[j]].eol
  /\ rest = SubSeq(s, q[Len(x)] + 1, i)
  /\ \A h \in q[Len(x)] + 1..i : ~s[h].eol
  /\ IsFiniteSet(EndsTo(s, i)) /\ Cardinality(EndsTo(s, i)) = Len(x) + b

LEMMA EndsMore ==
  ASSUME NEW s, NEW i \in Nat, IsFiniteSet(EndsTo(s, i))
  PROVE  /\ IsFiniteSet(EndsTo(s, i + 1))
         /\ Cardinality(EndsTo(s, i)) \in Nat
         /\ ~s[i + 1].eol => Cardinality(EndsTo(s, i + 1)) = Cardinality(EndsTo(s, i))
         /\ s[i + 1].eol => Cardinality(EndsTo(s, i + 1)) = Cardinality(EndsTo(s, i)) + 1
<1>1. Cardinality(EndsTo(s, i)) \in Nat
  BY FS_CardinalityType
<1>2. CASE s[i + 1].eol
  <2>1. EndsTo(s, i + 1) = EndsTo(s, i) \cup {i + 1} /\ i + 1 \notin EndsTo(s, i)
    BY <1>2 DEF EndsTo
  <2> QED BY <1>1, <1>2, <2>1, FS_AddElement
<1>3. CASE ~s[i + 1].eol
  <2>1. EndsTo(s, i + 1) = EndsTo(s, i)
    BY <1>3 DEF EndsTo
  <2> QED BY <1>1, <1>3, <2>1
<1> QED BY <1>2, <1>3

LEMMA SplitStarts ==
  ASSUME NEW s \in Seq(Cell), NEW l, NEW r, Splits(l, r, s), NEW b \in 0..1,
         b = 1 <=> s # <<>> /\ s[1].eol
  PROVE  b <= Len(s) /\ \E q : SplitAt(q, s, b, l[b], r[b], b)
<1>1. Len(s) \in Nat /\ (b = 1 => Len(s) # 0 /\ 1 \in 1..Len(s))
  BY Emptiness
<1>2. PICK e : e = <<>>
  OBVIOUS
<1>3. Len(e) = 0
  BY <1>2
<1>4. l[0] = e /\ r[0] = e /\ (b = 1 => l[1] = e /\ r[1] = e)
  <2>1. l[0] = e /\ r[0] = e
    BY <1>2 DEF Splits
  <2>2. b = 1 => 1 \in 1..Len(s) /\ s[1].eol /\ 1 - 1 = 0
    BY <1>1
  <2> QED BY <1>2, <2>1, <2>2 DEF Splits, SplitStep
<1>5. l[b] = e /\ r[b] = e
  <2>1. b = 0 \/ b = 1
    OBVIOUS
  <2> QED BY <1>4, <2>1
<1>6. IsFiniteSet(EndsTo(s, b)) /\ Cardinality(EndsTo(s, b)) = b
  <2>1. EndsTo(s, 0) = {}
    BY DEF EndsTo
  <2>2. IsFiniteSet(EndsTo(s, 0)) /\ Cardinality(EndsTo(s, 0)) = 0
    BY <2>1, FS_EmptySet
  <2>3. b = 1 => s[0 + 1].eol
    OBVIOUS
  <2>4. b = 1 => IsFiniteSet(EndsTo(s, 0 + 1)) /\ Cardinality(EndsTo(s, 0 + 1)) = 0 + 1
    BY <2>2, <2>3, EndsMore
  <2>5. 0 + 1 = 1 /\ (b = 0 \/ b = 1)
    OBVIOUS
  <2> QED BY <2>2, <2>4, <2>5
<1>7. PICK q : q = [j \in 0..0 |-> b]
  OBVIOUS
<1>8. q \in [0..0 -> 0..b] /\ q[0] = b
  BY <1>7
<1>9. SubSeq(s, b + 1, b) = e
  BY <1>2
<1>10. LinesAt(q, s, b, e, b)
  BY <1>3, <1>8 DEF LinesAt
<1>11. SplitAt(q, s, b, e, e, b)
  BY <1>3, <1>6, <1>8, <1>9, <1>10 DEF SplitAt
<1> QED
  BY <1>1, <1>5, <1>11

\* One cell more.
LEMMA SplitGoesOn ==
  ASSUME NEW s \in Seq(Cell), Lined(s), NEW b \in 0..1, b = 1 <=> s # <<>> /\ s[1].eol,
         NEW i \in Nat, i + 1 <= Len(s), b <= i,
         NEW x \in Seq(Seq(Cell)), NEW R \in Seq(Cell), NEW q, SplitAt(q, s, i, x, R, b),
         R = <<>> <=> i = 0 \/ s[i].eol,
         NEW y, NEW R2,
         ~s[i + 1].eol => y = x /\ R2 = Append(R, s[i + 1]),
         s[i + 1].eol /\ R = <<>> => y = x /\ R2 = <<>>,
         s[i + 1].eol /\ R # <<>> => y = Append(x, Append(R, s[i + 1])) /\ R2 = <<>>
  PROVE  \E p : SplitAt(p, s, i + 1, y, R2, b)
<1>1. PICK n, m, c : n = Len(x) /\ m = q[n] /\ c = s[i + 1]
  OBVIOUS
<1>2. /\ n \in Nat /\ c \in Cell /\ i + 1 \in 1..Len(s)
      /\ q \in [0..n -> 0..i] /\ q[0] = b /\ m \in 0..i
      /\ R = SubSeq(s, m + 1, i)
      /\ \A h \in m + 1..i : ~s[h].eol
  <2>1. n \in Nat /\ i + 1 \in 1..Len(s)
    BY <1>1
  <2>2. n \in 0..n
    BY <2>1
  <2>3. c \in Cell
    BY <1>1, <2>1
  <2>4. q \in [0..n -> 0..i] /\ q[0] = b
    BY <1>1 DEF SplitAt, LinesAt
  <2>5. R = SubSeq(s, m + 1, i) /\ \A h \in m + 1..i : ~s[h].eol
    BY <1>1 DEF SplitAt
  <2>6. m \in 0..i
    BY <1>1, <2>2, <2>4
  <2> QED BY <2>1, <2>3, <2>4, <2>5, <2>6
<1>3. /\ IsFiniteSet(EndsTo(s, i)) /\ IsFiniteSet(EndsTo(s, i + 1))
      /\ Cardinality(EndsTo(s, i)) = n + b
      /\ ~c.eol => Cardinality(EndsTo(s, i + 1)) = n + b
      /\ c.eol => Cardinality(EndsTo(s, i + 1)) = n + b + 1
  BY <1>1, EndsMore DEF SplitAt
<1>4. Append(R, c) = SubSeq(s, m + 1, i + 1)
  <2>1. m + 1 \in Nat /\ m + 1 <= i + 1 /\ 1 <= m + 1
    BY <1>2
  <2>2. SubSeq(s, m + 1, i + 1) = Append(SubSeq(s, m + 1, i), s[i + 1])
    BY <2>1, SubSeqAppend
  <2> QED BY <1>1, <1>2, <2>2
<1>5. CASE ~c.eol
  <2>1. y = x /\ R2 = Append(R, c)
    BY <1>1, <1>5
  <2>2. q \in [0..n -> 0..i + 1]
    BY <1>2
  <2>3. LinesAt(q, s, i + 1, x, b)
    BY <1>1, <2>2 DEF SplitAt, LinesAt
  <2>4. \A h \in m + 1..i + 1 : ~s[h].eol
    BY <1>1, <1>2, <1>5, SMTT(30)
  <2>5. SplitAt(q, s, i + 1, x, Append(R, c), b)
    BY <1>1, <1>3, <1>4, <1>5, <2>3, <2>4 DEF SplitAt
  <2> QED BY <2>1, <2>5
<1>6. CASE c.eol
  <2>1. R # <<>>
    <3>1. i # 0
      <4>1. i = 0 => b = 1
        BY <1>1, <1>2, <1>6, Emptiness
      <4> QED BY <4>1
    <3>2. i + 1 # 1 /\ (i + 1) - 1 = i
      BY <3>1
    <3> QED BY <1>1, <1>2, <1>6, <3>1, <3>2 DEF Lined
  <2>2. m < i
    <3>1. m = i => SubSeq(s, m + 1, i) = <<>>
      BY <1>2
    <3> QED BY <1>2, <2>1, <3>1
  <2>3. PICK z : z = Append(R, c)
    OBVIOUS
  <2>4. y = Append(x, z) /\ R2 = <<>> /\ z \in Seq(Cell) /\ z = SubSeq(s, m + 1, i + 1)
    <3>1. y = Append(x, z) /\ R2 = <<>>
      BY <1>1, <1>6, <2>1, <2>3
    <3>2. z \in Seq(Cell)
      BY <1>2, <2>3
    <3> QED BY <1>4, <2>3, <3>1, <3>2
  <2>5. y \in Seq(Seq(Cell)) /\ Len(y) = n + 1 /\ (\A j \in 1..n : y[j] = x[j]) /\ y[n + 1] = z
    <3>1. /\ Append(x, z) \in Seq(Seq(Cell)) /\ Len(Append(x, z)) = Len(x) + 1
          /\ \A j \in 1..Len(x) : Append(x, z)[j] = x[j]
          /\ Append(x, z)[Len(x) + 1] = z
      <4>1. z \in Seq(Cell)
        BY <2>4
      <4> QED BY <4>1, AppendIs
    <3>2. y = Append(x, z)
      BY <2>4
    <3> QED BY <1>1, <3>1, <3>2
  <2>6. PICK p : p = [j \in 0..n + 1 |-> IF j = n + 1 THEN i + 1 ELSE q[j]]
    OBVIOUS
  <2>7. /\ p \in [0..n + 1 -> 0..i + 1] /\ p[n + 1] = i + 1
        /\ \A j \in 0..n : p[j] = q[j]
    BY <1>2, <2>6, SMTT(30)
  <2>8. p[0] = b
    BY <1>2, <2>7
  <2>9. ASSUME NEW j \in 1..n + 1
        PROVE  /\ p[j - 1] < p[j] /\ y[j] = SubSeq(s, p[j - 1] + 1, p[j])
               /\ \A h \in p[j - 1] + 1..p[j] - 1 : ~s[h].eol
               /\ s[p[j]].eol
    <3>1. CASE j = n + 1
      <4>1. j - 1 = n /\ p[j - 1] = m /\ p[j] = i + 1 /\ (i + 1) - 1 = i
        BY <1>1, <1>2, <2>7, <3>1
      <4>2. m < i + 1
        BY <1>2, <2>2
      <4> QED BY <1>1, <1>2, <1>6, <2>4, <2>5, <3>1, <4>1, <4>2
    <3>2. CASE j # n + 1
      <4>1. j \in 1..n /\ j \in 0..n /\ j - 1 \in 0..n
        BY <1>2, <3>2
      <4>2. p[j] = q[j] /\ p[j - 1] = q[j - 1] /\ y[j] = x[j]
        BY <2>5, <2>7, <4>1
      <4>3. /\ q[j - 1] < q[j] /\ x[j] = SubSeq(s, q[j - 1] + 1, q[j])
            /\ \A h \in q[j - 1] + 1..q[j] - 1 : ~s[h].eol
            /\ s[q[j]].eol
        BY <1>1, <4>1 DEF SplitAt, LinesAt
      <4> QED BY <4>2, <4>3
    <3> QED BY <3>1, <3>2
  <2>10. LinesAt(p, s, i + 1, y, b)
    BY <2>5, <2>7, <2>8, <2>9 DEF LinesAt
  <2>11. SubSeq(s, (i + 1) + 1, i + 1) = <<>>
    BY <1>2
  <2>12. \A h \in (i + 1) + 1..i + 1 : ~s[h].eol
    OBVIOUS
  <2>13. Cardinality(EndsTo(s, i + 1)) = (n + 1) + b
    BY <1>2, <1>3, <1>6
  <2>14. SplitAt(p, s, i + 1, y, R2, b)
    BY <1>3, <2>4, <2>5, <2>7, <2>9, <2>10, <2>11, <2>12, <2>13 DEF SplitAt
  <2> QED BY <2>14
<1> QED BY <1>5, <1>6

LEMMA SplitIsAt ==
  ASSUME NEW s \in Seq(Cell), Lined(s), NEW b \in 0..1, b = 1 <=> s # <<>> /\ s[1].eol
  PROVE  \E q : SplitAt(q, s, Len(s), Lines(s), Rest(s), b)
<1>1. PICK l, r : Splits(l, r, s) /\ Lines(s) = l[Len(s)] /\ Rest(s) = r[Len(s)]
  BY SplitIs
<1> DEFINE At(i) == \E q : SplitAt(q, s, i, l[i], r[i], b)
           T == {i \in 0..Len(s) : i >= b => At(i)}
<1>2. Len(s) \in Nat /\ b <= Len(s) /\ At(b)
  BY <1>1, SplitStarts
<1>3. 0 \in T
  <2> HIDE DEF At
  <2>1. b = 0 => At(0)
    BY <1>2
  <2> QED BY <1>2, <2>1
<1>4. ASSUME NEW i \in 0..Len(s), i # Len(s), i >= b, At(i)
      PROVE  At(i + 1)
  <2>1. i \in Nat /\ i + 1 <= Len(s) /\ b <= i /\ i + 1 \in 1..Len(s) /\ (i + 1) - 1 = i
    BY <1>2, <1>4
  <2>2. PICK q : SplitAt(q, s, i, l[i], r[i], b)
    BY <1>4
  <2>3. l[i] \in Seq(Seq(Cell)) /\ r[i] \in Seq(Cell)
    <3>1. l \in [0..Len(s) -> Seq(Seq(Cell))] /\ r \in [0..Len(s) -> Seq(Cell)]
      BY <1>1 DEF Splits
    <3> QED BY <3>1
  <2>4. r[i] = <<>> <=> i = 0 \/ s[i].eol
    BY <1>1, SplitRest
  <2>5. SplitStep(l, r, s, i + 1)
    BY <1>1, <2>1 DEF Splits
  <2>6. /\ ~s[i + 1].eol => l[i + 1] = l[i] /\ r[i + 1] = Append(r[i], s[i + 1])
        /\ s[i + 1].eol /\ r[i] = <<>> => l[i + 1] = l[i] /\ r[i + 1] = <<>>
        /\ s[i + 1].eol /\ r[i] # <<>> =>
             l[i + 1] = Append(l[i], Append(r[i], s[i + 1])) /\ r[i + 1] = <<>>
    BY <2>1, <2>5 DEF SplitStep
  <2>7. PICK x, R, y, R2 : x = l[i] /\ R = r[i] /\ y = l[i + 1] /\ R2 = r[i + 1]
    OBVIOUS
  <2>8. \E p : SplitAt(p, s, i + 1, y, R2, b)
    <3>1. x \in Seq(Seq(Cell)) /\ R \in Seq(Cell) /\ SplitAt(q, s, i, x, R, b)
      BY <2>2, <2>3, <2>7
    <3>2. R = <<>> <=> i = 0 \/ s[i].eol
      BY <2>4, <2>7
    <3>3. /\ ~s[i + 1].eol => y = x /\ R2 = Append(R, s[i + 1])
          /\ s[i + 1].eol /\ R = <<>> => y = x /\ R2 = <<>>
          /\ s[i + 1].eol /\ R # <<>> => y = Append(x, Append(R, s[i + 1])) /\ R2 = <<>>
      BY <2>6, <2>7
    <3>4. i \in Nat /\ i + 1 <= Len(s) /\ b <= i
      BY <2>1
    <3> QED BY <3>1, <3>2, <3>3, <3>4, SplitGoesOn
  <2> QED BY <2>7, <2>8
<1>5. \A i \in 0..Len(s) : i # Len(s) /\ i \in T => i + 1 \in T
  <2> HIDE DEF At
  <2> SUFFICES ASSUME NEW i \in 0..Len(s), i # Len(s), i \in T, i + 1 >= b
               PROVE  i + 1 \in 0..Len(s) /\ At(i + 1)
    OBVIOUS
  <2>1. i + 1 \in 0..Len(s)
    BY <1>2
  <2>2. CASE i >= b
    BY <1>4, <2>1, <2>2
  <2>3. CASE ~(i >= b)
    <3>1. i + 1 = b
      BY <2>3
    <3> QED BY <1>2, <2>1, <3>1
  <2> QED BY <2>2, <2>3
<1>6. At(Len(s))
  <2> HIDE DEF At
  <2>2. Len(s) \in 0..Len(s) /\ Len(s) >= b
    BY <1>2
  <2> HIDE DEF T
  <2>3. \A i \in 0..Len(s) : i \in T
    BY <1>2, <1>3, <1>5, StepByStep
  <2> QED BY <2>2, <2>3 DEF T
<1> QED
  BY <1>1, <1>6

\* The lines of s, the last of which may lack its end.
LEMMA SplitLinesAre ==
  ASSUME NEW s \in Seq(Cell), Lined(s), NEW b \in 0..1, b = 1 <=> s # <<>> /\ s[1].eol,
         NEW x, x = SplitLines(s)
  PROVE  /\ x \in Seq(Seq(Cell)) /\ Cardinality(Ends(s)) \in Nat /\ Cardinality(Ends(s)) <= Len(x) + b
         /\ \E q : /\ LinesAt(q, s, Len(s), x, b) /\ q[Len(x)] = Len(s)
                   /\ \A j \in 1..Len(x) - 1 : s[q[j]].eol
<1>1. PICK y, R, n : y = Lines(s) /\ R = Rest(s) /\ n = Len(y)
  OBVIOUS
<1>2. y \in Seq(Seq(Cell)) /\ R \in Seq(Cell) /\ n \in Nat /\ Len(s) \in Nat
  BY <1>1, LinesType
<1>3. PICK q : SplitAt(q, s, Len(s), y, R, b)
  BY <1>1, SplitIsAt
<1>4. /\ q \in [0..n -> 0..Len(s)] /\ q[0] = b /\ q[n] \in 0..Len(s)
      /\ R = SubSeq(s, q[n] + 1, Len(s))
      /\ \A h \in q[n] + 1..Len(s) : ~s[h].eol
      /\ \A j \in 1..n : s[q[j]].eol
      /\ \A j \in 1..n :
           /\ q[j - 1] < q[j] /\ y[j] = SubSeq(s, q[j - 1] + 1, q[j])
           /\ \A h \in q[j - 1] + 1..q[j] - 1 : ~s[h].eol
  <2>1. q \in [0..n -> 0..Len(s)] /\ q[0] = b
    BY <1>1, <1>3 DEF SplitAt, LinesAt
  <2>2. n \in 0..n
    BY <1>2
  <2>3. q[n] \in 0..Len(s)
    BY <2>1, <2>2
  <2> QED BY <1>1, <1>3, <2>1, <2>3 DEF SplitAt, LinesAt
<1>5. Cardinality(Ends(s)) = n + b
  <2>1. Ends(s) = EndsTo(s, Len(s))
    BY DEF Ends, EndsTo
  <2> QED BY <1>1, <1>3, <2>1 DEF SplitAt
<1>6. CASE R = <<>>
  <2>1. x = y
    BY <1>1, <1>6 DEF SplitLines
  <2>2. q[n] = Len(s)
    <3>1. PICK m : m = q[n]
      OBVIOUS
    <3>2. m < Len(s) => Len(SubSeq(s, m + 1, Len(s))) = Len(s) - m
      BY <1>2, <1>4, <3>1
    <3>3. m < Len(s) => SubSeq(s, m + 1, Len(s)) # <<>>
      <4>1. Len(<<>>) = 0
        OBVIOUS
      <4>2. PICK t : t = SubSeq(s, m + 1, Len(s))
        OBVIOUS
      <4>3. m \in Nat
        BY <1>4, <3>1
      <4>4. m < Len(s) => Len(t) # 0
        BY <1>2, <3>2, <4>2, <4>3
      <4> QED BY <4>1, <4>2, <4>4
    <3> QED BY <1>2, <1>4, <1>6, <3>1, <3>3
  <2>3. LinesAt(q, s, Len(s), x, b)
    BY <1>3, <2>1 DEF SplitAt
  <2>4. \A j \in 1..Len(x) - 1 : s[q[j]].eol
    <3>1. \A j \in 1..n - 1 : j \in 1..n
      BY <1>2
    <3> QED BY <1>1, <1>4, <2>1, <3>1
  <2>5. Cardinality(Ends(s)) \in Nat /\ Cardinality(Ends(s)) <= n + b
    BY <1>2, <1>5
  <2> QED BY <1>1, <1>2, <2>1, <2>2, <2>3, <2>4, <2>5
<1>7. CASE R # <<>>
  <2>1. x = Append(y, R)
    BY <1>1, <1>7 DEF SplitLines
  <2>2. x \in Seq(Seq(Cell)) /\ Len(x) = n + 1 /\ (\A j \in 1..n : x[j] = y[j]) /\ x[n + 1] = R
    <3>1. /\ Append(y, R) \in Seq(Seq(Cell)) /\ Len(Append(y, R)) = Len(y) + 1
          /\ \A j \in 1..Len(y) : Append(y, R)[j] = y[j]
          /\ Append(y, R)[Len(y) + 1] = R
      BY <1>2, AppendIs
    <3> QED BY <1>1, <2>1, <3>1
  <2>3. q[n] < Len(s)
    <3>1. q[n] = Len(s) => SubSeq(s, q[n] + 1, Len(s)) = <<>>
      BY <1>2
    <3> QED BY <1>2, <1>4, <1>7, <3>1
  <2>4. PICK p : p = [j \in 0..n + 1 |-> IF j = n + 1 THEN Len(s) ELSE q[j]]
    OBVIOUS
  <2>5. /\ p \in [0..n + 1 -> 0..Len(s)] /\ p[n + 1] = Len(s)
        /\ \A j \in 0..n : p[j] = q[j]
    BY <1>2, <1>4, <2>4
  <2>6. p[0] = b
    BY <1>2, <1>4, <2>5
  <2>7. ASSUME NEW j \in 1..n + 1
        PROVE  /\ p[j - 1] < p[j] /\ x[j] = SubSeq(s, p[j - 1] + 1, p[j])
               /\ \A h \in p[j - 1] + 1..p[j] - 1 : ~s[h].eol
               /\ j # n + 1 => s[p[j]].eol
    <3>1. CASE j = n + 1
      <4>1. j - 1 = n /\ p[j - 1] = q[n] /\ p[j] = Len(s)
        BY <1>2, <2>5, <3>1
      <4>2. \A h \in q[n] + 1..Len(s) - 1 : ~s[h].eol
        BY <1>2, <1>4
      <4> QED BY <1>4, <2>2, <2>3, <3>1, <4>1, <4>2
    <3>2. CASE j # n + 1
      <4>1. j \in 1..n /\ j \in 0..n /\ j - 1 \in 0..n
        BY <1>2, <3>2
      <4>2. p[j] = q[j] /\ p[j - 1] = q[j - 1] /\ x[j] = y[j]
        BY <2>2, <2>5, <4>1
      <4> QED BY <1>4, <4>1, <4>2
    <3> QED BY <3>1, <3>2
  <2>8. LinesAt(p, s, Len(s), x, b)
    BY <2>2, <2>5, <2>6, <2>7 DEF LinesAt
  <2>9. \A j \in 1..Len(x) - 1 : s[p[j]].eol
    <3>1. \A j \in 1..(n + 1) - 1 : j \in 1..n + 1 /\ j # n + 1
      BY <1>2
    <3> QED BY <2>2, <2>7, <3>1
  <2>10. Cardinality(Ends(s)) \in Nat /\ Cardinality(Ends(s)) <= (n + 1) + b
    BY <1>2, <1>5
  <2> QED BY <2>2, <2>5, <2>8, <2>9, <2>10
<1> QED BY <1>6, <1>7

-----------------------------------------------------------------------------
(* List *)

LEMMA MaxIs ==
  ASSUME NEW a \in Int, NEW b \in Int
  PROVE  Max({a, b}) = IF a >= b THEN a ELSE b
<1>1. CASE a >= b
  <2>1. \A y \in {a, b} : a >= y
    BY <1>1
  <2>2. \A z \in {a, b} : (\A y \in {a, b} : z >= y) => z = a
    BY <1>1
  <2> QED BY <1>1, <2>1, <2>2 DEF Max
<1>2. CASE ~(a >= b)
  <2>1. \A y \in {a, b} : b >= y
    BY <1>2
  <2>2. \A z \in {a, b} : (\A y \in {a, b} : z >= y) => z = b
    BY <1>2
  <2> QED BY <1>2, <2>1, <2>2 DEF Max
<1> QED BY <1>1, <1>2

\* What is not among the last n of s.
Skipped(s, n) == IF n >= Len(s) THEN 0 ELSE Len(s) - n

LEMMA LastLinesAre ==
  ASSUME NEW S, NEW s \in Seq(S), NEW n \in Nat
  PROVE  /\ Skipped(s, n) \in 0..Len(s) /\ LastLines(s, n) = SubSeq(s, Skipped(s, n) + 1, Len(s))
         /\ LastLines(s, n) \in Seq(S) /\ Len(LastLines(s, n)) = Len(s) - Skipped(s, n)
         /\ \A i \in 1..Len(s) - Skipped(s, n) : LastLines(s, n)[i] = s[Skipped(s, n) + i]
<1>1. PICK m : m = Skipped(s, n)
  OBVIOUS
<1>2. Len(s) \in Nat
  OBVIOUS
<1>3. m \in 0..Len(s)
  BY <1>1, <1>2 DEF Skipped
<1>4. LastLines(s, n) = SubSeq(s, m + 1, Len(s))
  <2>1. Max({1, Len(s) - n + 1}) = IF 1 >= Len(s) - n + 1 THEN 1 ELSE Len(s) - n + 1
    BY <1>2, MaxIs
  <2>2. Max({1, Len(s) - n + 1}) = m + 1
    BY <1>1, <1>2, <2>1 DEF Skipped
  <2> QED BY <2>2 DEF LastLines
<1>5. SubSeq(s, m + 1, Len(s)) \in Seq(S) /\ IsPiece(SubSeq(s, m + 1, Len(s)), s, m, Len(s))
  BY <1>2, <1>3, SubSeqIs
<1> QED
  BY <1>1, <1>3, <1>4, <1>5 DEF IsPiece

\* tailLogLines has read the whole file, or ends enough of lines.
LEMMA TailIs ==
  ASSUME NEW f \in Seq(Cell), NEW n \in Nat
  PROVE  \E d \in Nat : /\ d >= Len(f) \/ EnoughRead(End(f, d), n)
                        /\ TailLogLines(f, n) = LastLines(SplitLines(End(f, d)), n)
<1>1. PICK chunks, enough :
        /\ chunks = 0..(Len(f) + ChunkSize - 1) \div ChunkSize
        /\ enough = {c \in chunks : c * ChunkSize >= Len(f) \/ EnoughRead(End(f, c * ChunkSize), n)}
  OBVIOUS
<1>2. Len(f) \in Nat /\ ChunkSize \in Nat \ {0}
  BY ReaderAssumption
<1>3. PICK all : all = (Len(f) + ChunkSize - 1) \div ChunkSize
  OBVIOUS
<1>4. all \in Nat /\ all * ChunkSize >= Len(f)
  BY <1>2, <1>3
<1>5. all \in enough /\ enough \in SUBSET Nat
  BY <1>1, <1>3, <1>4
<1>6. PICK c : c = Min(enough)
  OBVIOUS
<1>7. c \in enough
  <2>1. \E x \in enough : \A y \in enough : x <= y
    BY <1>5, LeastNatural
  <2> QED BY <1>6, <2>1 DEF Min
<1>8. c * ChunkSize \in Nat
  BY <1>2, <1>5, <1>7
<1>9. c * ChunkSize >= Len(f) \/ EnoughRead(End(f, c * ChunkSize), n)
  BY <1>1, <1>7
<1>10. TailLogLines(f, n) = LastLines(SplitLines(End(f, c * ChunkSize)), n)
  BY <1>1, <1>6 DEF TailLogLines
<1> QED
  BY <1>8, <1>9, <1>10

\* Up to the end of a line there is one record.
LEMMA SameRecord ==
  ASSUME NEW s \in Seq(Cell), Consecutive(s), NEW a \in 1..Len(s), NEW z \in 1..Len(s), a <= z,
         \A h \in a..z - 1 : ~s[h].eol
  PROVE  s[z].rec = s[a].rec
<1> DEFINE T == {i \in 0..z - a : s[a + i].rec = s[a].rec}
<1>1. z - a \in Nat /\ a \in Nat
  OBVIOUS
<1>2. 0 \in T
  <2>1. a + 0 = a /\ 0 \in 0..z - a
    BY <1>1
  <2> QED BY <2>1
<1>3. ASSUME NEW i \in 0..z - a, i # z - a, i \in T
      PROVE  i + 1 \in T
  <2>1. /\ a + (i + 1) \in 1..Len(s) /\ a + (i + 1) # 1 /\ (a + (i + 1)) - 1 = a + i
        /\ a + i \in a..z - 1 /\ i + 1 \in 0..z - a
    BY <1>1, <1>3
  <2>2. ~s[a + i].eol
    BY <2>1
  <2>3. s[a + (i + 1)].rec = s[a + i].rec
    BY <2>1, <2>2 DEF Consecutive
  <2> QED BY <1>3, <2>1, <2>3
<1>4. \A i \in 0..z - a : i # z - a /\ i \in T => i + 1 \in T
  BY <1>3
<1>5. z - a \in T
  <2> HIDE DEF T
  <2>1. \A i \in 0..z - a : i \in T
    BY <1>1, <1>2, <1>4, StepByStep
  <2> QED BY <1>1, <2>1
<1>6. a + (z - a) = z
  OBVIOUS
<1> QED
  BY <1>5, <1>6

\* What lies in a piece of a text is as in the text.
LEMMA TextPiece ==
  ASSUME NEW f \in Seq(Cell), Lined(f), Consecutive(f), NEW m \in 0..Len(f), NEW u \in Seq(Cell),
         Len(u) = Len(f) - m, \A i \in 1..Len(f) - m : u[i] = f[m + i]
  PROVE  Lined(u) /\ Consecutive(u)
<1>1. ASSUME NEW i \in 1..Len(u), i # 1
      PROVE  /\ m + i \in 1..Len(f) /\ m + i # 1 /\ (m + i) - 1 = m + (i - 1)
             /\ u[i] = f[m + i] /\ u[i - 1] = f[m + (i - 1)]
  <2>1. Len(f) \in Nat /\ i \in 1..Len(f) - m /\ i - 1 \in 1..Len(f) - m
    BY <1>1
  <2>2. m + i \in 1..Len(f) /\ m + i # 1 /\ (m + i) - 1 = m + (i - 1)
    BY <1>1, <2>1
  <2> QED BY <2>1, <2>2
<1>2. Lined(u)
  BY <1>1 DEF Lined
<1>3. ASSUME NEW i \in 1..Len(u), i # 1
      PROVE  IF u[i - 1].eol THEN u[i].at = 1 /\ u[i].rec = u[i - 1].rec + 1
             ELSE u[i].rec = u[i - 1].rec
  <2>1. PICK h : h = m + i
    OBVIOUS
  <2>2. h \in 1..Len(f) /\ h # 1 /\ u[i] = f[h] /\ u[i - 1] = f[h - 1]
    BY <1>1, <1>3, <2>1
  <2> QED BY <2>2 DEF Consecutive
<1>4. Consecutive(u)
  BY <1>3 DEF Consecutive
<1> QED BY <1>2, <1>4

\* Lines behind a piece of a text.
LEMMA PieceOfPiece ==
  ASSUME NEW f \in Seq(Cell), NEW m \in 0..Len(f), NEW a \in 0..Len(f) - m, NEW u, u = SubSeq(f, m + 1, Len(f))
  PROVE  SubSeq(u, a + 1, Len(u)) = SubSeq(f, (m + a) + 1, Len(f))
<1>1. Len(f) \in Nat
  OBVIOUS
<1>2. u \in Seq(Cell) /\ IsPiece(u, f, m, Len(f))
  BY <1>1, SubSeqIs
<1>3. a \in 0..Len(u)
  BY <1>2 DEF IsPiece
<1>4. IsPiece(SubSeq(u, a + 1, Len(u)), f, m + a, Len(f))
  BY <1>2, <1>3, PieceSplits
<1>5. SubSeq(u, a + 1, Len(u)) \in Seq(Cell)
  BY <1>2, <1>3
<1> QED
  BY <1>4, <1>5, PieceIs

\* The place where the last line begins.
LastBegins(s, k) ==
  /\ k \in 0..Len(s) - 1 /\ (k # 0 => s[k].eol)
  /\ \A h \in k + 1..Len(s) - 1 : ~s[h].eol

\* There is one, and the last line is what is behind it.
LEMMA LastLineIs ==
  ASSUME NEW s \in Seq(Cell), Lined(s), NEW b \in 0..1, b = 1 <=> s # <<>> /\ s[1].eol,
         NEW x, x = SplitLines(s), Len(x) # 0
  PROVE  \E k : /\ LastBegins(s, k) /\ x[Len(x)] = SubSeq(s, k + 1, Len(s))
                /\ k = 0 => Len(x) = 1 /\ b = 0
<1>1. PICK q : /\ LinesAt(q, s, Len(s), x, b) /\ q[Len(x)] = Len(s)
               /\ \A j \in 1..Len(x) - 1 : s[q[j]].eol
  BY SplitLinesAre
<1>2. PICK K, k : K = Len(x) /\ k = q[K - 1]
  OBVIOUS
<1>3. K \in Nat \ {0} /\ Len(s) \in Nat
  <2>1. x \in Seq(Seq(Cell))
    BY SplitLinesAre
  <2> QED BY <1>2, <2>1
<1>4. /\ q \in [0..K -> 0..Len(s)] /\ q[0] = b
      /\ \A j \in 1..K : q[j - 1] < q[j]
      /\ x[K] = SubSeq(s, k + 1, q[K])
      /\ \A h \in k + 1..q[K] - 1 : ~s[h].eol
  <2>1. K \in 1..K
    BY <1>3
  <2> QED BY <1>1, <1>2, <2>1 DEF LinesAt
<1>5. k \in 0..Len(s) - 1
  <2>1. K - 1 \in 0..K /\ K \in 1..K
    BY <1>3
  <2>2. k \in 0..Len(s) /\ k < Len(s)
    BY <1>1, <1>2, <1>4, <2>1
  <2> QED BY <1>3, <2>2
<1>6. CASE K = 1
  <2>1. k = b
    BY <1>2, <1>4, <1>6
  <2>2. k # 0 => s[k].eol
    BY <2>1
  <2>3. LastBegins(s, k)
    BY <1>1, <1>2, <1>4, <1>5, <2>2 DEF LastBegins
  <2> QED BY <1>1, <1>2, <1>4, <1>6, <2>1, <2>3
<1>7. CASE K # 1
  <2>1. K - 1 \in 1..K - 1 /\ K - 1 \in 1..K /\ K - 1 \in 0..K /\ (K - 1) - 1 \in 0..K
    BY <1>3, <1>7
  <2>2. s[k].eol
    BY <1>1, <1>2, <2>1
  <2>3. k # 0
    <3>1. q[(K - 1) - 1] < k /\ q[(K - 1) - 1] \in 0..Len(s)
      BY <1>2, <1>4, <2>1
    <3> QED BY <1>3, <1>5, <3>1
  <2>4. LastBegins(s, k)
    BY <1>1, <1>2, <1>4, <1>5, <2>2 DEF LastBegins
  <2> QED BY <1>1, <1>2, <1>4, <2>3, <2>4
<1> QED BY <1>6, <1>7

LEMMA LastLineOfTail ==
  ASSUME NEW f \in Seq(Cell), NEW m \in 0..Len(f), NEW u \in Seq(Cell), Len(u) = Len(f) - m,
         \A i \in 1..Len(f) - m : u[i] = f[m + i], m # 0,
         NEW k, NEW h, LastBegins(u, k), LastBegins(f, h), k # 0
  PROVE  h = m + k
<1>1. Len(f) \in Nat /\ Len(u) \in Nat /\ m \in Nat
  OBVIOUS
<1>2. k \in 1..Len(u) - 1 /\ k \in 1..Len(f) - m /\ m + k \in 1..Len(f) - 1 /\ h \in 0..Len(f) - 1
  BY <1>1 DEF LastBegins
<1>3. f[m + k].eol
  BY <1>2 DEF LastBegins
<1>4. ~(m + k > h)
  BY <1>2, <1>3 DEF LastBegins
<1>5. ASSUME m + k < h
      PROVE  FALSE
  <2>1. PICK j : j = h - m
    OBVIOUS
  <2>2. j \in k + 1..Len(u) - 1 /\ j \in 1..Len(f) - m /\ m + j = h /\ h # 0
    BY <1>1, <1>2, <1>5, <2>1
  <2>3. f[h].eol /\ u[j] = f[h] /\ ~u[j].eol
    BY <2>2 DEF LastBegins
  <2> QED BY <2>3
<1> QED
  BY <1>1, <1>2, <1>4, <1>5

\* The last lines of f, at most n, whole but for the end of the last.
ListedWhole(f, n, listing) ==
  /\ Len(listing) <= n
  /\ \A k \in 1..Len(listing) :
       /\ listing[k][1].at = 1
       /\ k < Len(listing) =>
            /\ listing[k][Len(listing[k])].eol
            /\ listing[k + 1][1].rec = listing[k][1].rec + 1
  /\ f # <<>> => listing[Len(listing)] = SplitLines(f)[Len(SplitLines(f))]

\* What tailLogLines makes of a file of whole records.
LEMMA TailLists ==
  ASSUME NEW f \in Seq(Cell), NEW n \in Nat \ {0}, Lined(f), Consecutive(f),
         f # <<>> => f[1].at = 1 /\ ~f[1].eol
  PROVE  ListedWhole(f, n, TailLogLines(f, n))
<1>0. PICK listing : listing = TailLogLines(f, n)
  OBVIOUS
<1>1. PICK d \in Nat : /\ d >= Len(f) \/ EnoughRead(End(f, d), n)
                       /\ listing = LastLines(SplitLines(End(f, d)), n)
  BY <1>0, TailIs
<1>2. PICK m, u, x, K, g :
        /\ m = (IF d >= Len(f) THEN 0 ELSE Len(f) - d) /\ u = End(f, d)
        /\ x = SplitLines(u) /\ K = Len(x)
        /\ g = IF n >= K THEN 0 ELSE K - n
  OBVIOUS
<1>3. /\ Len(f) \in Nat /\ m \in 0..Len(f) /\ u \in Seq(Cell) /\ Len(u) = Len(f) - m
      /\ u = SubSeq(f, m + 1, Len(f))
      /\ \A i \in 1..Len(f) - m : u[i] = f[m + i]
  <2>1. Len(f) \in Nat
    OBVIOUS
  <2>2. m = Skipped(f, d)
    BY <1>2 DEF Skipped
  <2>3. /\ m \in 0..Len(f) /\ LastLines(f, d) = SubSeq(f, m + 1, Len(f))
        /\ LastLines(f, d) \in Seq(Cell) /\ Len(LastLines(f, d)) = Len(f) - m
        /\ \A i \in 1..Len(f) - m : LastLines(f, d)[i] = f[m + i]
    BY <2>2, LastLinesAre
  <2>4. u = LastLines(f, d)
    BY <1>2 DEF End
  <2> QED BY <2>1, <2>3, <2>4
<1>4. m = 0 => u = f
  BY <1>3
<1>5. Lined(u) /\ Consecutive(u)
  BY <1>3, TextPiece
<1>6. PICK b \in 0..1 : b = 1 <=> u # <<>> /\ u[1].eol
  OBVIOUS
<1>7. /\ x \in Seq(Seq(Cell)) /\ K \in Nat
      /\ Cardinality(Ends(u)) \in Nat /\ Cardinality(Ends(u)) <= K + b
  <2>1. x \in Seq(Seq(Cell)) /\ Cardinality(Ends(u)) \in Nat /\ Cardinality(Ends(u)) <= Len(x) + b
    BY <1>2, <1>3, <1>5, <1>6, SplitLinesAre
  <2> QED BY <1>2, <2>1
<1>8. PICK q : /\ LinesAt(q, u, Len(u), x, b) /\ q[K] = Len(u)
               /\ \A j \in 1..K - 1 : u[q[j]].eol
  BY <1>2, <1>3, <1>5, <1>6, SplitLinesAre
<1>9. /\ q \in [0..K -> 0..Len(u)] /\ q[0] = b
      /\ \A j \in 1..K :
           /\ q[j - 1] < q[j] /\ x[j] = SubSeq(u, q[j - 1] + 1, q[j])
           /\ \A h \in q[j - 1] + 1..q[j] - 1 : ~u[h].eol
  BY <1>2, <1>8 DEF LinesAt
<1>10. m = 0 \/ K + b > n
  <2>1. m # 0 => Cardinality(Ends(u)) > n
    BY <1>1, <1>2 DEF EnoughRead
  <2> QED BY <1>7, <2>1
<1>11. /\ g \in 0..K /\ Len(listing) = K - g
       /\ \A i \in 1..K - g : listing[i] = x[g + i]
  <2>1. n \in Nat /\ g = Skipped(x, n)
    BY <1>2 DEF Skipped
  <2>2. /\ g \in 0..Len(x) /\ Len(LastLines(x, n)) = Len(x) - g
        /\ \A i \in 1..Len(x) - g : LastLines(x, n)[i] = x[g + i]
    BY <1>7, <2>1, LastLinesAre, ZenonT(30)
  <2>3. listing = LastLines(x, n)
    BY <1>1, <1>2
  <2> QED BY <1>2, <2>2, <2>3
<1>12. ASSUME NEW j \in 1..K
       PROVE  /\ q[j - 1] \in 0..Len(u) /\ q[j] \in 1..Len(u) /\ q[j - 1] < q[j]
              /\ q[j - 1] + 1 \in 1..Len(u)
              /\ x[j][1] = u[q[j - 1] + 1] /\ x[j][Len(x[j])] = u[q[j]]
  <2>1. PICK a, z : a = q[j - 1] /\ z = q[j]
    OBVIOUS
  <2>2. a \in 0..Len(u) /\ z \in 0..Len(u) /\ a < z
    <3>1. j - 1 \in 0..K /\ j \in 0..K
      BY <1>7
    <3> QED BY <1>9, <2>1, <3>1
  <2>3. x[j] = SubSeq(u, a + 1, z)
    BY <1>9, <2>1
  <2>4. IsPiece(SubSeq(u, a + 1, z), u, a, z)
    <3>1. a \in Nat /\ z \in Nat /\ a <= z /\ z <= Len(u)
      BY <1>3, <2>2
    <3> QED BY <1>3, <3>1, SubSeqIs
  <2>5. Len(x[j]) = z - a /\ \A i \in 1..z - a : x[j][i] = u[a + i]
    BY <2>3, <2>4 DEF IsPiece
  <2>6. 1 \in 1..z - a /\ z - a \in 1..z - a /\ a + (z - a) = z
    BY <2>2
  <2>7. z \in 1..Len(u) /\ a + 1 \in 1..Len(u)
    BY <1>3, <2>2
  <2>8. x[j][1] = u[a + 1] /\ x[j][Len(x[j])] = u[z]
    BY <2>5, <2>6
  <2> QED BY <2>1, <2>2, <2>7, <2>8
<1>13. ASSUME NEW j \in 1..K, j # 1 \/ g = 0
       PROVE  x[j][1].at = 1
  <2>1. ASSUME q[j - 1] # 0, u[q[j - 1]].eol
        PROVE  u[q[j - 1] + 1].at = 1
    <3>1. q[j - 1] + 1 \in 1..Len(u) /\ q[j - 1] + 1 # 1 /\ (q[j - 1] + 1) - 1 = q[j - 1]
      BY <1>12, <2>1
    <3> QED BY <1>5, <2>1, <3>1 DEF Consecutive
  <2>2. CASE j # 1
    <3>1. j - 1 \in 1..K - 1 /\ j - 1 \in 1..K
      BY <1>7, <2>2
    <3>2. u[q[j - 1]].eol /\ q[j - 1] \in 1..Len(u)
      BY <1>8, <1>12, <3>1
    <3> QED BY <1>12, <2>1, <3>2
  <2>3. CASE j = 1 /\ b = 1
    <3>1. q[j - 1] = 1
      BY <1>9, <2>3
    <3> QED BY <1>6, <1>12, <2>1, <2>3, <3>1
  <2>4. CASE j = 1 /\ b = 0
    <3>1. g = 0 /\ q[j - 1] = 0
      BY <1>9, <1>13, <2>4
    <3>2. n >= K
      BY <1>2, <1>7, <3>1
    <3>3. u = f
      BY <1>4, <1>7, <1>10, <2>4, <3>2
    <3>4. f # <<>>
      BY <1>3, <1>12, <3>3, Emptiness
    <3> QED BY <1>12, <3>1, <3>3, <3>4
  <2> QED BY <2>2, <2>3, <2>4
<1>14. ASSUME NEW j \in 1..K - 1
       PROVE  x[j][Len(x[j])].eol /\ x[j + 1][1].rec = x[j][1].rec + 1
  <2>1. PICK a, z : a = q[j - 1] + 1 /\ z = q[j]
    OBVIOUS
  <2>2. j \in 1..K /\ j + 1 \in 1..K /\ (j + 1) - 1 = j
    BY <1>7
  <2>3. /\ a \in 1..Len(u) /\ z \in 1..Len(u) /\ a <= z /\ z + 1 \in 1..Len(u)
        /\ x[j][1] = u[a] /\ x[j][Len(x[j])] = u[z] /\ x[j + 1][1] = u[z + 1]
    <3>1. /\ q[j - 1] \in 0..Len(u) /\ q[j - 1] < q[j] /\ q[j - 1] + 1 \in 1..Len(u) /\ q[j] \in 1..Len(u)
          /\ x[j][1] = u[q[j - 1] + 1] /\ x[j][Len(x[j])] = u[q[j]]
      BY <1>12, <2>2
    <3>2. q[(j + 1) - 1] + 1 \in 1..Len(u) /\ x[j + 1][1] = u[q[(j + 1) - 1] + 1]
      BY <1>12, <2>2
    <3> QED BY <2>1, <2>2, <3>1, <3>2
  <2>4. u[z].eol
    BY <1>8, <2>1
  <2>5. u[z].rec = u[a].rec
    <3>1. \A h \in a..z - 1 : ~u[h].eol
      BY <1>9, <2>1, <2>2
    <3> QED BY <1>3, <1>5, <2>3, <3>1, SameRecord
  <2>6. u[z + 1].rec = u[z].rec + 1
    <3>1. z + 1 # 1 /\ (z + 1) - 1 = z
      BY <2>3
    <3> QED BY <1>5, <2>3, <2>4, <3>1 DEF Consecutive
  <2> QED BY <2>3, <2>4, <2>5, <2>6
<1>15. Len(listing) <= n
  BY <1>2, <1>7, <1>11
<1>16. ASSUME NEW k \in 1..Len(listing)
       PROVE  /\ listing[k][1].at = 1
              /\ k < Len(listing) =>
                   /\ listing[k][Len(listing[k])].eol
                   /\ listing[k + 1][1].rec = listing[k][1].rec + 1
  <2>1. g + k \in 1..K /\ (g + k # 1 \/ g = 0) /\ listing[k] = x[g + k]
    <3>1. k \in 1..K - g
      BY <1>11
    <3> QED BY <1>7, <1>11, <3>1
  <2>2. k < Len(listing) => g + k \in 1..K - 1 /\ (g + k) + 1 = g + (k + 1) /\ listing[k + 1] = x[g + (k + 1)]
    <3>1. k < Len(listing) => k + 1 \in 1..K - g /\ g + k \in 1..K - 1 /\ (g + k) + 1 = g + (k + 1)
      <4>1. PICK N : N = Len(listing)
        OBVIOUS
      <4>2. N = K - g /\ k \in 1..N
        BY <1>11, <4>1
      <4>3. g \in 0..K
        BY <1>11
      <4>4. ASSUME k < N
            PROVE  k + 1 \in 1..K - g /\ g + k \in 1..K - 1 /\ (g + k) + 1 = g + (k + 1)
        BY <1>7, <4>2, <4>3, <4>4
      <4> QED BY <4>1, <4>4
    <3> QED BY <1>11, <3>1
  <2> QED BY <1>13, <1>14, <2>1, <2>2
<1>17. ASSUME f # <<>>
       PROVE  listing[Len(listing)] = SplitLines(f)[Len(SplitLines(f))]
  <2>1. K # 0
    <3>1. ASSUME K = 0
          PROVE  FALSE
      <4>1. Len(u) = b
        BY <1>8, <1>9, <3>1
      <4>2. m = 0
        BY <1>10, <3>1
      <4>3. u = f
        BY <1>4, <4>2
      <4>4. Len(f) # 0
        BY <1>17, Emptiness
      <4> QED BY <1>6, <1>17, <4>1, <4>3, <4>4
    <3> QED BY <3>1
  <2>2. listing[Len(listing)] = x[K]
    <3>1. Len(listing) \in 1..K - g /\ g + Len(listing) = K
      BY <1>2, <1>7, <1>11, <2>1
    <3> QED BY <1>11, <3>1
  <2>3. CASE m = 0
    BY <1>2, <1>4, <2>2, <2>3
  <2>4. CASE m # 0
    <3>1. PICK k : /\ LastBegins(u, k) /\ x[K] = SubSeq(u, k + 1, Len(u))
                   /\ k = 0 => K = 1 /\ b = 0
      <4>1. /\ u \in Seq(Cell) /\ Lined(u) /\ b \in 0..1 /\ (b = 1 <=> u # <<>> /\ u[1].eol)
            /\ x = SplitLines(u) /\ Len(x) # 0
        BY <1>2, <1>3, <1>5, <1>6, <2>1
      <4>2. \E k : /\ LastBegins(u, k) /\ x[Len(x)] = SubSeq(u, k + 1, Len(u))
                   /\ k = 0 => Len(x) = 1 /\ b = 0
        BY <4>1, LastLineIs
      <4> QED BY <1>2, <4>2
    <3>2. k # 0
      BY <1>7, <1>10, <2>4, <3>1
    <3>3. PICK y : y = SplitLines(f)
      OBVIOUS
    <3>4. /\ 0 \in 0..1 /\ (0 = 1 <=> f # <<>> /\ f[1].eol)
      BY <1>17
    <3>5. Len(y) # 0
      <4>1. PICK p : LinesAt(p, f, Len(f), y, 0) /\ p[Len(y)] = Len(f)
        BY <3>3, <3>4, SplitLinesAre
      <4>2. p[0] = 0
        BY <4>1 DEF LinesAt
      <4>3. Len(f) # 0
        BY <1>17, Emptiness
      <4> QED BY <4>1, <4>2, <4>3
    <3>6. PICK h : LastBegins(f, h) /\ y[Len(y)] = SubSeq(f, h + 1, Len(f))
      BY <3>3, <3>4, <3>5, LastLineIs
    <3>7. h = m + k
      <4>1. LastBegins(u, k) /\ LastBegins(f, h)
        BY <3>1, <3>6
      <4>2. /\ m \in 0..Len(f) /\ u \in Seq(Cell) /\ Len(u) = Len(f) - m /\ m # 0 /\ k # 0
            /\ \A i \in 1..Len(f) - m : u[i] = f[m + i]
        BY <1>3, <2>4, <3>2
      <4> QED BY <4>1, <4>2, LastLineOfTail
    <3>8. SubSeq(u, k + 1, Len(u)) = SubSeq(f, (m + k) + 1, Len(f))
      <4>1. k \in 0..Len(f) - m
        BY <1>3, <3>1 DEF LastBegins
      <4> QED BY <1>3, <4>1, PieceOfPiece
    <3> QED BY <2>2, <3>1, <3>3, <3>6, <3>7, <3>8
  <2> QED BY <2>3, <2>4
<1> QED
  BY <1>0, <1>15, <1>16, <1>17 DEF ListedWhole

\* List returns whole records, the last ones of the file and in their order, however the chunks fall
\* and whatever is written, flushed or renamed meanwhile, until something fails.
THEOREM WholeRecordsListed == LogSpec => []ListsWholeRecords
<1>1. ASSUME WriterInv, TextInv
      PROVE  ListsWholeRecords
  <2>1. PICK f : f = Content(0)
    OBVIOUS
  <2>2. f \in Seq(Cell) /\ Limit \in Nat \ {0}
    BY <1>1, <2>1, LogType, ReaderAssumption DEF WriterInv
  <2>3. Lined(f)
    BY <1>1, <2>1, LinedPart DEF WriterInv
  <2>4. ASSUME faults = 0
        PROVE  Consecutive(f) /\ (f # <<>> => f[1].at = 1 /\ ~f[1].eol)
    <3>1. /\ Len(Log) >= Len(f) /\ Len(f) \in Nat /\ Len(Log) \in Nat /\ Log \in Seq(Cell)
          /\ \A i \in 1..Len(f) : Log[i] = f[i]
      <4>1. Len(buffer) \in Nat
        BY <1>1, LogType DEF WriterInv
      <4> QED BY <1>1, <2>1, <2>2, <4>1, LogType DEF WriterInv
    <3>2. Consecutive(Log) /\ (Log # <<>> => Log[1].at = 1 /\ ~Log[1].eol)
      BY <1>1, <2>4 DEF TextInv, RecordsInv
    <3>3. Consecutive(f)
      <4>1. \A i \in 1..Len(f) : i \in 1..Len(Log) /\ (i # 1 => i - 1 \in 1..Len(f))
        BY <3>1
      <4> QED BY <3>1, <3>2, <4>1 DEF Consecutive
    <3>4. f # <<>> => Log # <<>> /\ 1 \in 1..Len(f)
      BY <2>2, <3>1, Emptiness
    <3> QED BY <3>1, <3>2, <3>3, <3>4
  <2>5. ASSUME faults = 0
        PROVE  ListedWhole(f, Limit, TailLogLines(f, Limit))
    <3>1. Consecutive(f) /\ (f # <<>> => f[1].at = 1 /\ ~f[1].eol)
      BY <2>4, <2>5
    <3> HIDE DEF Consecutive, Lined
    <3> QED BY <2>2, <2>3, <3>1, TailLists
  <2> QED BY <2>1, <2>5 DEF ListsWholeRecords, Listing, Last, ListedWhole
<1> QED
  BY <1>1, TextAlways, PTL

=============================================================================
