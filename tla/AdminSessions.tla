---------------------------- MODULE AdminSessions ----------------------------
(***************************************************************************)
(* The admin API's password and sessions: admin/auth.go, the handlers of   *)
(* admin/handlers.go and the statements of config/store.go they run.       *)
(*                                                                         *)
(* net/http runs every request in a goroutine of its own and nothing locks *)
(* across statements, so each SQL statement (SaveAppConfig's transaction   *)
(* counts as one) is an action, and requests interleave between them.  The *)
(* tables survive a crash of the program; its requests do not.             *)
(*                                                                         *)
(* Passwords stand for their hashes, which bcrypt compares faithfully, and *)
(* a login's session token is named after its request.  An answer is       *)
(* decided with the last statement; whether it still reaches the client    *)
(* makes no difference to the tables.                                      *)
(*                                                                         *)
(* Definitions ending in _Bug are the plausible slips the properties are   *)
(* tested against; nothing here uses them.                                 *)
(***************************************************************************)
EXTENDS Naturals, FiniteSets

CONSTANTS
  Request,      \* requests to the admin API
  Password,
  NoPassword    \* a blank password or hash

ASSUME PasswordAssumption == NoPassword \notin Password

VARIABLES
  env,       \* X_TOOL_ADMIN_PASSWORD, which the program finds when it starts
  hash,      \* features.admin_password_hash
  sessions,  \* tokens in admin_sessions
  expired,   \* tokens whose expires_at has passed
  pc,        \* the statement a request runs next
  req,       \* what a request asks for, and what it has read
  answer,    \* its answer
  issued,    \* history: tokens handed to a client
  ended,     \* history: tokens whose end was answered: logout, or a password change
  before     \* history: ended and expired when a request began

tables  == <<hash, sessions>>
history == <<issued, ended, before>>
vars    == <<env, tables, expired, pc, req, answer, history>>

Op == {"login", "view", "logout", "password", "config"}

NoToken == "no cookie"

InForce == IF hash # NoPassword THEN hash ELSE env

Init ==
  /\ env \in Password \union {NoPassword}
  /\ hash \in Password \union {NoPassword}
  /\ sessions = {} /\ expired = {}
  /\ pc = [r \in Request |-> "new"]
  /\ req = [r \in Request |->
              [op |-> "view", cookie |-> NoToken,
               given |-> NoPassword, new |-> NoPassword, read |-> NoPassword]]
  /\ answer = [r \in Request |-> 0]
  /\ issued = {}
  /\ ended = {} /\ before = [r \in Request |-> {}]

Goto(r, label) == pc' = [pc EXCEPT ![r] = label]

Answer(r, status) ==
  /\ Goto(r, "answered")
  /\ answer' = [answer EXCEPT ![r] = status]

-----------------------------------------------------------------------------
(* A request arrives                                                       *)

\* The body is decoded; a blank new password is refused before anything is read.
\* Every operation but login is behind RequireSession.
Begin(r) ==
  /\ pc[r] = "new"
  /\ \E op \in Op, cookie \in issued \union {NoToken}, given, new \in Password :
       /\ op = "login" => cookie = NoToken
       /\ op \notin {"login", "password"} => given = new
       /\ req' = [req EXCEPT ![r].op = op, ![r].cookie = cookie,
                             ![r].given = given, ![r].new = new]
       /\ Goto(r, IF op = "login" THEN "verify" ELSE "source")
  /\ before' = [before EXCEPT ![r] = ended \union expired]
  /\ UNCHANGED <<env, tables, expired, answer, issued, ended>>

-----------------------------------------------------------------------------
(* handleAdminLogin: verifyPassword, then issueSession                     *)

VerifyLogin(r) ==
  /\ pc[r] = "verify" /\ req[r].op = "login"
  /\ \/ InForce = NoPassword /\ Answer(r, 503)
     \/ InForce # NoPassword /\ InForce # req[r].given /\ Answer(r, 401)
     \/ InForce = req[r].given /\ Goto(r, "purge") /\ UNCHANGED answer
  /\ UNCHANGED <<env, tables, expired, req, history>>

\* DeleteExpiredAdminSessions, of issueSession and of authenticated
DeleteExpired(r) ==
  /\ pc[r] = "purge"
  /\ sessions' = sessions \ expired
  /\ Goto(r, IF req[r].op = "login" THEN "create" ELSE "touch")
  /\ UNCHANGED <<env, hash, expired, req, answer, history>>

CreateSession(r) ==
  /\ pc[r] = "create"
  /\ sessions' = sessions \union {r}
  /\ issued' = issued \union {r}
  /\ Answer(r, 200)
  /\ UNCHANGED <<env, hash, expired, req, ended, before>>

-----------------------------------------------------------------------------
(* RequireSession: authenticated                                           *)

PasswordSource(r) ==
  /\ pc[r] = "source"
  /\ \/ InForce = NoPassword /\ Answer(r, 503)
     \/ InForce # NoPassword /\ req[r].cookie = NoToken /\ Answer(r, 401)
     \/ InForce # NoPassword /\ req[r].cookie # NoToken
        /\ Goto(r, "purge") /\ UNCHANGED answer
  /\ UNCHANGED <<env, tables, expired, req, history>>

\* The first statement of the handler behind RequireSession; "view" stands for the
\* handlers that only show something.
Handler(op) ==
  CASE op = "logout"   -> "delete"
    [] op = "password" -> "verify"
    [] op = "config"   -> "read"
    [] op = "view"     -> "show"

\* A session that is not there is created again.
Touch_Bug(r) ==
  /\ pc[r] = "touch"
  /\ sessions' = sessions \union {req[r].cookie}
  /\ Goto(r, Handler(req[r].op))
  /\ UNCHANGED <<env, hash, answer, expired, req, history>>

\* TouchAdminSession: its UPDATE finds the row, or the request is refused.
Touch(r) ==
  /\ pc[r] = "touch"
  /\ \/ req[r].cookie \in sessions /\ Goto(r, Handler(req[r].op)) /\ UNCHANGED answer
     \/ req[r].cookie \notin sessions /\ Answer(r, 401)
  /\ UNCHANGED <<env, tables, expired, req, history>>

\* The handler behind RequireSession runs.
Admitted(r) ==
  \/ pc[r] \in {"delete", "read", "commit", "show"}
  \/ req[r].op = "password" /\ pc[r] \in {"verify", "set", "delete all"}

Show(r) ==
  /\ pc[r] = "show"
  /\ Answer(r, 200)
  /\ UNCHANGED <<env, tables, expired, req, history>>

-----------------------------------------------------------------------------
(* handleAdminLogout                                                       *)

\* Every session is logged out.
DeleteSession_Bug(r) ==
  /\ pc[r] = "delete"
  /\ sessions' = {}
  /\ ended' = ended \union {req[r].cookie}
  /\ Answer(r, 200)
  /\ UNCHANGED <<env, hash, expired, req, issued, before>>

DeleteSession(r) ==
  /\ pc[r] = "delete"
  /\ sessions' = sessions \ {req[r].cookie}
  /\ ended' = ended \union {req[r].cookie}
  /\ Answer(r, 200)
  /\ UNCHANGED <<env, hash, expired, req, issued, before>>

-----------------------------------------------------------------------------
(* handleAdminPassword                                                     *)

VerifyCurrent(r) ==
  /\ pc[r] = "verify" /\ req[r].op = "password"
  /\ \/ InForce = NoPassword /\ Answer(r, 503)
     \/ InForce # NoPassword /\ InForce # req[r].given /\ Answer(r, 401)
     \/ InForce = req[r].given /\ Goto(r, "set") /\ UNCHANGED answer
  /\ UNCHANGED <<env, tables, expired, req, history>>

SetHash(r) ==
  /\ pc[r] = "set"
  /\ hash' = req[r].new
  /\ Goto(r, "delete all")
  /\ UNCHANGED <<env, sessions, expired, req, answer, history>>

DeleteAll(r) ==
  /\ pc[r] = "delete all"
  /\ sessions' = {}
  /\ ended' = ended \union issued
  /\ Answer(r, 200)
  /\ UNCHANGED <<env, hash, expired, req, issued, before>>

-----------------------------------------------------------------------------
(* handleAdminConfig: what SaveAppConfig does to the features table.  The  *)
(* rest of a saved configuration is in ConfigReload.                       *)

ReadHash(r) ==
  /\ pc[r] = "read"
  /\ req' = [req EXCEPT ![r].read = hash]
  /\ Goto(r, "commit")
  /\ UNCHANGED <<env, tables, expired, answer, history>>

\* Rows that are not in the new configuration are gone.
CommitConfig_Bug(r) ==
  /\ pc[r] = "commit"
  /\ hash' = NoPassword
  /\ Answer(r, 200)
  /\ UNCHANGED <<env, sessions, expired, req, history>>

\* The transaction clears features and puts back the hash read before it began.
CommitConfig(r) ==
  /\ pc[r] = "commit"
  /\ hash' = req[r].read
  /\ Answer(r, 200)
  /\ UNCHANGED <<env, sessions, expired, req, history>>

-----------------------------------------------------------------------------

\* A statement fails: the handler answers 500 and does nothing more.
Fails(r) ==
  /\ pc[r] \notin {"new", "show", "answered", "lost"}
  /\ Answer(r, 500)
  /\ UNCHANGED <<env, tables, expired, req, history>>

\* A session's 24 hours are over.
Expire(t) ==
  /\ t \in issued \ expired
  /\ expired' = expired \union {t}
  /\ UNCHANGED <<env, tables, pc, req, answer, history>>

\* The program stops and starts again.
Crash ==
  /\ \E r \in Request : pc[r] \notin {"new", "answered", "lost"}
  /\ pc' = [r \in Request |-> IF pc[r] \in {"new", "answered"} THEN pc[r] ELSE "lost"]
  /\ UNCHANGED <<env, tables, expired, req, answer, history>>

Next ==
  \/ \E r \in Request :
       \/ Begin(r)
       \/ VerifyLogin(r) \/ DeleteExpired(r) \/ CreateSession(r)
       \/ PasswordSource(r) \/ Touch(r) \/ Show(r)
       \/ DeleteSession(r)
       \/ VerifyCurrent(r) \/ SetHash(r) \/ DeleteAll(r)
       \/ ReadHash(r) \/ CommitConfig(r)
       \/ Fails(r) \/ Expire(r)
  \/ Crash

Spec == Init /\ [][Next]_vars

-----------------------------------------------------------------------------
(* Properties *)

TypeOK ==
  /\ {env, hash} \subseteq Password \union {NoPassword}
  /\ sessions \subseteq Request /\ expired \subseteq issued
  /\ pc \in [Request -> {"new", "verify", "purge", "create", "source", "touch", "show",
                         "delete", "set", "delete all", "read", "commit",
                         "answered", "lost"}]
  /\ req \in [Request -> [op : Op, cookie : Request \union {NoToken},
                          given : Password \union {NoPassword},
                          new : Password \union {NoPassword},
                          read : Password \union {NoPassword}]]
  /\ answer \in [Request -> {0, 200, 401, 500, 503}]
  /\ issued \subseteq Request /\ ended \subseteq issued
  /\ before \in [Request -> SUBSET Request]

\* A request gets past RequireSession only with a token that a login handed out and
\* that, when the request arrived, had not expired and whose end (by a logout, or by
\* a password change, of whatever client) had not been answered to anybody.
EndedSessionsNotAdmitted ==
  \A r \in Request :
    Admitted(r) => req[r].cookie \in issued \ before[r]

\* A session a client holds ends only when its token expires, or by a logout with it
\* or a password change that was answered with success: requests that are refused,
\* fail or are lost, saved configurations and other logouts end none.
SessionsKept ==
  /\ TypeOK
  /\ \A t \in issued \ expired :
       \/ t \in sessions
       \/ \E r \in Request :
            /\ answer[r] = 200
            /\ req[r].op = "password" \/ (req[r].op = "logout" /\ req[r].cookie = t)

\* The admin API is never turned off: once a password is in force one is for good,
\* though saving a configuration clears the row that holds it, and a password change
\* may come between.
StaysAvailable == [][InForce # NoPassword => InForce' # NoPassword]_vars

=============================================================================
