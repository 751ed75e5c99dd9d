------------------------------- MODULE Accounts -------------------------------
(***************************************************************************)
(* Local accounts: the tables users and sessions, the middleware that      *)
(* turns a cookie into the caller of a request, and the routes that log    *)
(* in, log out, change passwords and administer users.  Requests run at    *)
(* once; each is a few statements on the database and no transaction.      *)
(* A password is known by its generation: a login succeeds with the one    *)
(* stored when it reads it.  Hashing one takes a tenth of a second, so     *)
(* much may happen between reading a password and using the result.        *)
(***************************************************************************)
EXTENDS Integers, FiniteSets

CONSTANTS
  Names,        \* user names
  Workers,      \* requests that may run at once
  SessionTtl,   \* SESSION_TTL_SECS
  MaxUsers,     \* bound on the users ever created
  MaxSessions,  \* bound on the sessions ever issued
  MaxChanges,   \* bound on the changes of one password
  MaxTime,      \* bound on the clock
  MaxFaults     \* bound on failing statements

ASSUME AccountsAssumption ==
  /\ {SessionTtl, MaxUsers, MaxSessions, MaxChanges, MaxTime, MaxFaults} \subseteq Nat
  /\ SessionTtl > 0

VARIABLES
  bypass,    \* N3UR0N_AUTH_DISABLE: every request is an administrator's
  now,       \* the clock
  users,     \* the table users: ids are never given again
  created,   \* users ever created
  sessions,  \* the table sessions, by token
  issued,    \* tokens ever issued
  req,       \* what each request is doing, and for whom
  faults,    \* statements that have failed
  spared     \* history: sessions no change of password has to end, see below

vars == <<bypass, now, users, created, sessions, issued, req, faults, spared>>

\* what only the environment changes, and the history
setting == <<bypass, spared>>

-----------------------------------------------------------------------------
Role == {"user", "operator", "admin"}
Id == 1..MaxUsers
Token == 1..MaxSessions
NoUser == [role |-> "none"]
User == [role : Role, name : Names, password : 0..MaxChanges]
NoSession == [user |-> 0]
Session == [user : Id, expires : Nat, password : 0..MaxChanges]

\* A request under way: the step it is at, its caller (id, role and token as
\* the middleware found them), the account it works on and what it read of it.
DevUser == "dev-bypass"
Step == {"refresh", "purge_expired", "handler", "set_password", "revoke",
         "delete", "create_first", "issue"}
Idle == [at |-> "idle"]
Request == [at : Step, id : 0..MaxUsers, role : Role \cup {"none"}, token : 0..MaxSessions,
            target : 0..MaxUsers, password : 0..MaxChanges,
            name : Names \cup {DevUser}]

TypeOK ==
  /\ now \in 0..MaxTime
  /\ users \in [Id -> User \cup {NoUser}]
  /\ created \in 0..MaxUsers
  /\ sessions \in [Token -> Session \cup {NoSession}]
  /\ issued \in 0..MaxSessions
  /\ req \in [Workers -> Request \cup {Idle}]
  /\ faults \in 0..MaxFaults
  /\ bypass \in BOOLEAN
  /\ spared \subseteq Token

Init ==
  /\ now = 0
  /\ users = [i \in Id |-> NoUser]
  /\ created = 0
  /\ sessions = [t \in Token |-> NoSession]
  /\ issued = 0
  /\ req = [w \in Workers |-> Idle]
  /\ faults = 0
  /\ bypass \in BOOLEAN
  /\ spared = {}

Exists(i) == users[i] # NoUser
Held(t) == sessions[t] # NoSession
Admins == {i \in Id : users[i].role = "admin"}
At(w, step) == req[w].at = step
Begins(w) == req[w] = Idle
Ends(w) == req' = [req EXCEPT ![w] = Idle]
Goes(w, step) == req' = [req EXCEPT ![w].at = step]

\* the UNIQUE constraint on users.username
Taken(n) == \E i \in Id : Exists(i) /\ users[i].name = n

Inserted(n, r) ==
  /\ created < MaxUsers
  /\ created' = created + 1
  /\ users' = [users EXCEPT ![created + 1] = [role |-> r, name |-> n, password |-> 0]]

\* mistaken form: foreign_keys left off, the sessions of a deleted user stay
SessionsKept(i) == sessions

\* ON DELETE CASCADE
SessionsWithout(i) == [t \in Token |-> IF sessions[t].user = i THEN NoSession ELSE sessions[t]]

-----------------------------------------------------------------------------
(* The session middleware: look the cookie's session up, with its user; an *)
(* expired one is deleted, a live one is extended; then the route runs.    *)

Authenticate(w, t) ==
  /\ ~bypass
  /\ Begins(w)
  /\ Held(t)
  /\ LET i == sessions[t].user IN
       req' = [req EXCEPT ![w] =
         [at |-> IF sessions[t].expires > now THEN "refresh" ELSE "purge_expired",
          id |-> i, role |-> users[i].role, token |-> t,
          target |-> 0, password |-> 0, name |-> users[i].name]]
  /\ UNCHANGED <<setting, now, users, created, sessions, issued, faults>>

AuthenticateBypassed(w) ==
  /\ bypass
  /\ Begins(w)
  /\ req' = [req EXCEPT ![w] = [at |-> "handler", id |-> 0, role |-> "admin", token |-> 0,
                                target |-> 0, password |-> 0, name |-> DevUser]]
  /\ UNCHANGED <<setting, now, users, created, sessions, issued, faults>>

PurgeExpired(w) ==
  /\ At(w, "purge_expired")
  /\ sessions' = [sessions EXCEPT ![req[w].token] = NoSession]
  /\ Ends(w)
  /\ UNCHANGED <<setting, now, users, created, issued, faults>>

\* mistaken form: INSERT OR REPLACE of the session that was looked up
Restored(w) ==
  [sessions EXCEPT ![req[w].token] =
     [user |-> req[w].id, expires |-> now + SessionTtl, password |-> 0]]

\* UPDATE sessions SET expires_at WHERE token_hash
Extended(w) ==
  [sessions EXCEPT ![req[w].token] =
     IF @ = NoSession THEN @ ELSE [@ EXCEPT !.expires = now + SessionTtl]]

Refresh(w) ==
  /\ At(w, "refresh")
  /\ sessions' = Extended(w)
  /\ Goes(w, "handler")
  /\ UNCHANGED <<setting, now, users, created, issued, faults>>

\* A route that leaves accounts alone.
OtherRoute(w) ==
  /\ At(w, "handler")
  /\ Ends(w)
  /\ UNCHANGED <<setting, now, users, created, sessions, issued, faults>>

Logout(w) ==
  /\ At(w, "handler")
  /\ req[w].token # 0
  /\ sessions' = [sessions EXCEPT ![req[w].token] = NoSession]
  /\ Ends(w)
  /\ UNCHANGED <<setting, now, users, created, issued, faults>>

-----------------------------------------------------------------------------
(* The first account, and logging in.                                      *)

Anonymous(step, i, p, n) ==
  [at |-> step, id |-> 0, role |-> "none", token |-> 0,
   target |-> i, password |-> p, name |-> n]

Bootstrap(w, n) ==
  /\ Begins(w)
  /\ \A i \in Id : ~Exists(i)
  /\ req' = [req EXCEPT ![w] = Anonymous("create_first", 0, 0, n)]
  /\ UNCHANGED <<setting, now, users, created, sessions, issued, faults>>

CreateFirst(w) ==
  /\ At(w, "create_first")
  /\ IF Taken(req[w].name)
     THEN Ends(w) /\ UNCHANGED <<users, created>>
     ELSE /\ Inserted(req[w].name, "admin")
          /\ req' = [req EXCEPT ![w] = [@ EXCEPT !.at = "issue", !.target = created + 1]]
  /\ UNCHANGED <<setting, now, sessions, issued, faults>>

Login(w, i) ==
  /\ Begins(w)
  /\ Exists(i)
  /\ req' = [req EXCEPT ![w] = Anonymous("issue", i, users[i].password, users[i].name)]
  /\ UNCHANGED <<setting, now, users, created, sessions, issued, faults>>

\* mistaken form: the session is issued to the caller, who is nobody yet
IssueToCaller(w) ==
  /\ At(w, "issue")
  /\ issued < MaxSessions
  /\ issued' = issued + 1
  /\ sessions' = [sessions EXCEPT ![issued + 1] =
       [user |-> req[w].id, expires |-> now + SessionTtl, password |-> req[w].password]]
  /\ Ends(w)
  /\ UNCHANGED <<setting, now, users, created, faults>>

\* the password was changed since the login verified it
Overtaken(w) == Exists(req[w].target) /\ users[req[w].target].password # req[w].password

\* the foreign key refuses a session for a user that is gone
IssueSession(w) ==
  /\ At(w, "issue")
  /\ IF Exists(req[w].target)
     THEN /\ issued < MaxSessions
          /\ issued' = issued + 1
          /\ sessions' = [sessions EXCEPT ![issued + 1] =
               [user |-> req[w].target, expires |-> now + SessionTtl,
                password |-> req[w].password]]
     ELSE UNCHANGED <<issued, sessions>>
  /\ spared' = spared \cup {t \in Token : t = issued + 1 /\ Overtaken(w)}
  /\ Ends(w)
  /\ UNCHANGED <<bypass, now, users, created, faults>>

-----------------------------------------------------------------------------
(* Changing a password: one's own, or as an administrator another's; the   *)
(* sessions of the account are revoked after it.                           *)

\* The hash is read by name and verified, then the new one is stored by id.
ChangePassword(w) ==
  /\ At(w, "handler")
  /\ Taken(req[w].name)
  /\ req' = [req EXCEPT ![w] = [@ EXCEPT !.at = "set_password", !.target = req[w].id]]
  /\ UNCHANGED <<setting, now, users, created, sessions, issued, faults>>

AdminSetsPassword(w, i) ==
  /\ At(w, "handler")
  /\ req[w].role = "admin"
  /\ req' = [req EXCEPT ![w] = [@ EXCEPT !.at = "set_password", !.target = i]]
  /\ UNCHANGED <<setting, now, users, created, sessions, issued, faults>>

SetPassword(w) ==
  /\ At(w, "set_password")
  /\ IF Exists(req[w].target)
     THEN /\ users[req[w].target].password < MaxChanges
          /\ users' = [users EXCEPT ![req[w].target].password = @ + 1]
     ELSE UNCHANGED users
  /\ Goes(w, "revoke")
  /\ UNCHANGED <<setting, now, created, sessions, issued, faults>>

\* the session a user changes their own password in
Own(w) == {t \in Token : t = req[w].token /\ sessions[t].user = req[w].target}

\* mistaken form: the sessions of the caller are deleted, not of the account
RevokeOwn(w) ==
  /\ At(w, "revoke")
  /\ sessions' = SessionsWithout(req[w].id)
  /\ spared' = spared \cup Own(w)
  /\ Ends(w)
  /\ UNCHANGED <<bypass, now, users, created, issued, faults>>

\* delete_sessions_for_user: all of them, the caller's own as well
Revoke(w) ==
  /\ At(w, "revoke")
  /\ sessions' = SessionsWithout(req[w].target)
  /\ spared' = spared \cup Own(w)
  /\ Ends(w)
  /\ UNCHANGED <<bypass, now, users, created, issued, faults>>

-----------------------------------------------------------------------------
(* Administration.  The caller's role is the one the middleware found.     *)

CreateUser(w, n, r) ==
  /\ At(w, "handler")
  /\ req[w].role = "admin"
  /\ ~Taken(n)
  /\ Inserted(n, r)
  /\ Ends(w)
  /\ UNCHANGED <<setting, now, sessions, issued, faults>>

\* a role alone, or a role and then a password
UpdateRole(w, i, r) ==
  /\ At(w, "handler")
  /\ req[w].role = "admin"
  /\ users' = [users EXCEPT ![i] = IF @ = NoUser THEN @ ELSE [@ EXCEPT !.role = r]]
  /\ \/ Ends(w)
     \/ req' = [req EXCEPT ![w] = [@ EXCEPT !.at = "set_password", !.target = i]]
  /\ UNCHANGED <<setting, now, created, sessions, issued, faults>>

\* at most one is counted, and it is this one
LastAdmin(i) == Admins = {i}

\* One's own account cannot be deleted, nor the last administrator's; but when
\* the users cannot be listed, the administrators are not counted.
DeleteCheck(w, i) ==
  /\ At(w, "handler")
  /\ req[w].role = "admin"
  /\ i # req[w].id
  /\ \/ ~LastAdmin(i) /\ UNCHANGED faults
     \/ faults < MaxFaults /\ faults' = faults + 1
  /\ req' = [req EXCEPT ![w] = [@ EXCEPT !.at = "delete", !.target = i]]
  /\ UNCHANGED <<setting, now, users, created, sessions, issued>>

DeleteUser(w) ==
  /\ At(w, "delete")
  /\ users' = [users EXCEPT ![req[w].target] = NoUser]
  /\ sessions' = SessionsWithout(req[w].target)
  /\ Ends(w)
  /\ UNCHANGED <<setting, now, created, issued, faults>>

Tick ==
  /\ now < MaxTime
  /\ now' = now + 1
  /\ UNCHANGED <<setting, users, created, sessions, issued, req, faults>>

\* A statement fails.  Where the session is extended, this is passed over and
\* the route runs; elsewhere the request ends, with an error, or, where the
\* sessions of an account were to be revoked, with a warning or without.
StatementFails(w) ==
  /\ faults < MaxFaults
  /\ faults' = faults + 1
  /\ req[w] # Idle
  /\ IF At(w, "refresh") THEN Goes(w, "handler") ELSE Ends(w)
  /\ spared' = spared \cup
       {t \in Token : At(w, "revoke") /\ sessions[t].user = req[w].target}
  /\ UNCHANGED <<bypass, now, users, created, sessions, issued>>

-----------------------------------------------------------------------------
Enter(w) ==
  \/ \E t \in Token : Authenticate(w, t)
  \/ AuthenticateBypassed(w)
  \/ \E n \in Names : Bootstrap(w, n)
  \/ \E i \in Id : Login(w, i)
Administer(w) ==
  \/ \E n \in Names, r \in Role : CreateUser(w, n, r)
  \/ \E i \in Id : \/ AdminSetsPassword(w, i) \/ DeleteCheck(w, i)
                   \/ \E r \in Role : UpdateRole(w, i, r)
Proceed(w) ==
  \/ PurgeExpired(w) \/ Refresh(w) \/ OtherRoute(w) \/ Logout(w) \/ CreateFirst(w)
  \/ IssueSession(w) \/ ChangePassword(w) \/ SetPassword(w) \/ Revoke(w) \/ DeleteUser(w)
  \/ StatementFails(w)

Next == Tick \/ \E w \in Workers : Enter(w) \/ Administer(w) \/ Proceed(w)

Spec == Init /\ [][Next]_vars

-----------------------------------------------------------------------------
\* Every session belongs to a user that exists, also when the user is deleted
\* while a login of theirs is under way (sessions.user_id REFERENCES users).
SessionsOwned == \A t \in Token : Held(t) => Exists(sessions[t].user)

\* A session that was deleted, by a logout, a purge or a revocation, never
\* comes back: not by the refresh of a request that was let in before it.
RevokedForGood ==
  [][\A t \in Token : t <= issued /\ ~Held(t) => sessions'[t] = NoSession]_vars

\* Deleting a user leaves an administrator if there was one, when sessions are
\* checked: "Refuse deleting the last admin" (delete_user_route).
LastAdminStays ==
  [][~bypass => \A w \in Workers : DeleteUser(w) /\ Admins # {} => Admins' # {}]_vars

\* A session opened with a former password ends with the request that changed
\* it, whoever changes it and whatever other changes, logins, refreshes and
\* deletions of accounts are under way (change_password, update_user_route).
\* Three kinds of session are spared: of a login that verified the password
\* before the change and issues the session after it; of an account whose
\* revocation failed; and the one in which users change their own, which the
\* comment in change_password keeps and the code does not.
FormerPasswordsOut ==
  \A t \in Token \ spared :
    Held(t) /\ sessions[t].password < users[sessions[t].user].password
      => \E w \in Workers : At(w, "revoke") /\ req[w].target = sessions[t].user
=============================================================================
