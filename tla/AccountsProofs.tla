---------------------------- MODULE AccountsProofs ----------------------------
(***************************************************************************)
(* Proofs about Accounts, for any number of requests at once, accounts and *)
(* sessions: a session has an owner, one that was deleted is gone, and one *)
(* of a former password ends with the request that changed it.             *)
(*                                                                         *)
(* Requests carry what they read to statements that run much later.  What  *)
(* the proofs need of them is where they may point: a request that is to   *)
(* issue a session has an id that once was an account's, and the foreign   *)
(* key does the rest.                                                      *)
(***************************************************************************)
EXTENDS Accounts, TLAPS

(* What a request under way knows when it gets to a statement. *)
Aimed(r) ==
  /\ r.at = "create_first" => r.name \in Names
  /\ r.at = "issue" => r.target \in Id

Inv ==
  /\ TypeOK
  /\ SessionsOwned
  /\ \A w \in Workers : Aimed(req[w])

-----------------------------------------------------------------------------
(* The tables *)

(* Rows are told from the absence of one by their columns. *)
LEMMA Rows ==
  /\ \A u \in User : u # NoUser
  /\ \A s \in Session : s # NoSession
<1>1. ASSUME NEW u \in User PROVE u.role \in Role
  BY DEF User
<1>2. ASSUME NEW s \in Session PROVE s.user # 0
  BY AccountsAssumption DEF Session, Id
<1>3. QED
  BY <1>1, <1>2 DEF NoUser, NoSession, Role

(* A deletion on sessions, of one or of all of an account, takes no owner. *)
LEMMA DropKeeps ==
  ASSUME TypeOK, SessionsOwned, users' = users, sessions' \in [Token -> Session \cup {NoSession}],
         \A t \in Token : sessions'[t] \in {sessions[t], NoSession}
  PROVE  SessionsOwned'
BY DEF SessionsOwned, Held, Exists

LEMMA WithoutOnlyDrops ==
  ASSUME TypeOK, NEW i
  PROVE  /\ SessionsWithout(i) \in [Token -> Session \cup {NoSession}]
         /\ \A t \in Token : /\ SessionsWithout(i)[t] \in {sessions[t], NoSession}
                             /\ sessions[t].user = i => SessionsWithout(i)[t] = NoSession
BY DEF TypeOK, SessionsWithout

(* Rows of users that change, or come, leave the owners there are. *)
LEMMA UsersKeep ==
  ASSUME TypeOK, SessionsOwned, sessions' = sessions,
         \A i \in Id : Exists(i) => users'[i] # NoUser
  PROVE  SessionsOwned'
<1>1. ASSUME NEW t \in Token, Held(t) PROVE sessions[t].user \in Id
  BY <1>1 DEF TypeOK, Held, Session
<1>2. QED
  BY <1>1 DEF SessionsOwned, Held, Exists

(* A request that goes on, or ends, after a step of its own. *)
LEMMA ReqKeeps ==
  ASSUME TypeOK, \A v \in Workers : Aimed(req[v]), NEW w \in Workers, NEW r \in Request \cup {Idle},
         Aimed(r), req' = [req EXCEPT ![w] = r]
  PROVE  req' \in [Workers -> Request \cup {Idle}] /\ \A v \in Workers : Aimed(req'[v])
BY DEF TypeOK

LEMMA IdleAimed == Aimed(Idle) /\ Idle \in Request \cup {Idle}
BY DEF Aimed, Idle

LEMMA EndKeeps ==
  ASSUME Inv, NEW w \in Workers, Ends(w)
  PROVE  req' \in [Workers -> Request \cup {Idle}] /\ \A v \in Workers : Aimed(req'[v])
BY IdleAimed, ReqKeeps DEF Inv, Ends

(* A request at a step is one, and has the fields of one. *)
LEMMA Under ==
  ASSUME Inv, NEW w \in Workers, NEW step \in Step, At(w, step)
  PROVE  req[w] \in Request /\ Aimed(req[w])
BY DEF Inv, TypeOK, At, Idle, Step

LEMMA GoKeeps ==
  ASSUME Inv, NEW w \in Workers, NEW step \in Step, At(w, step),
         NEW next \in {"handler", "revoke"}, Goes(w, next)
  PROVE  req' \in [Workers -> Request \cup {Idle}] /\ \A v \in Workers : Aimed(req'[v])
<1> DEFINE r == [req[w] EXCEPT !.at = next]
<1>1. req[w] \in Request
  BY Under
<1>2. r \in Request /\ Aimed(r)
  BY <1>1 DEF Request, Step, Aimed
<1>3. req' = [req EXCEPT ![w] = r]
  BY DEF Goes, Inv, TypeOK
<1>4. QED
  BY <1>2, <1>3, ReqKeeps DEF Inv

(* A request that is aimed at an account it has the id of. *)
LEMMA Retargeted ==
  ASSUME NEW r \in Request, NEW step \in Step \ {"create_first"}, NEW i \in Id
  PROVE  [r EXCEPT !.at = step, !.target = i] \in Request
         /\ Aimed([r EXCEPT !.at = step, !.target = i])
<1>1. i \in 0..MaxUsers
  BY AccountsAssumption DEF Id
<1>2. [r EXCEPT !.at = step, !.target = i] \in Request
  BY <1>1 DEF Request
<1>3. QED
  BY <1>2 DEF Aimed, Request

-----------------------------------------------------------------------------
(* The actions *)

LEMMA InitInv == Init => Inv
<1> SUFFICES ASSUME Init PROVE Inv
  OBVIOUS
<1>1. TypeOK
  <2>1. /\ 0 \in 0..MaxTime /\ 0 \in 0..MaxUsers /\ 0 \in 0..MaxSessions /\ 0 \in 0..MaxFaults
    BY AccountsAssumption
  <2>2. req \in [Workers -> Request \cup {Idle}]
    BY DEF Init
  <2>3. users \in [Id -> User \cup {NoUser}] /\ sessions \in [Token -> Session \cup {NoSession}]
    BY DEF Init
  <2>4. QED BY <2>1, <2>2, <2>3 DEF Init, TypeOK
<1>2. SessionsOwned
  BY DEF Init, SessionsOwned, Held
<1>3. \A w \in Workers : Aimed(req[w])
  BY IdleAimed DEF Init
<1>4. QED
  BY <1>1, <1>2, <1>3 DEF Inv

(* A request comes in: its caller and its account are read, nothing is     *)
(* written.                                                                *)
LEMMA EnterKeeps ==
  ASSUME Inv, NEW w \in Workers, Enter(w)
  PROVE  Inv'
<1>1. UNCHANGED <<setting, now, users, created, sessions, issued, faults>>
  BY DEF Enter, Authenticate, AuthenticateBypassed, Bootstrap, Login
<1>3. SessionsOwned'
  BY <1>1 DEF Inv, SessionsOwned, Held, Exists
<1>4. SUFFICES \E r \in Request : Aimed(r) /\ req' = [req EXCEPT ![w] = r]
  BY <1>1, <1>3, ReqKeeps DEF Inv, TypeOK, setting
<1>5. ASSUME NEW t \in Token, Authenticate(w, t)
      PROVE  \E r \in Request : Aimed(r) /\ req' = [req EXCEPT ![w] = r]
  <2> DEFINE i == sessions[t].user
             r == [at |-> IF sessions[t].expires > now THEN "refresh" ELSE "purge_expired",
                   id |-> i, role |-> users[i].role, token |-> t,
                   target |-> 0, password |-> 0, name |-> users[i].name]
  <2>1. Held(t) /\ req' = [req EXCEPT ![w] = r]
    BY <1>5 DEF Authenticate
  <2>2. i \in Id /\ users[i] \in User
    BY <2>1 DEF Inv, SessionsOwned, TypeOK, Held, Exists, Session
  <2>3. r \in Request
    BY <2>2, AccountsAssumption DEF Request, Step, User, Id, Token
  <2>4. Aimed(r)
    BY DEF Aimed
  <2>5. QED BY <2>1, <2>3, <2>4
<1>6. CASE AuthenticateBypassed(w)
  <2> DEFINE r == [at |-> "handler", id |-> 0, role |-> "admin", token |-> 0,
                   target |-> 0, password |-> 0, name |-> DevUser]
  <2>1. r \in Request /\ Aimed(r)
    BY AccountsAssumption DEF Request, Step, Role, Aimed
  <2>2. QED BY <1>6, <2>1 DEF AuthenticateBypassed
<1>7. ASSUME NEW n \in Names, Bootstrap(w, n)
      PROVE  \E r \in Request : Aimed(r) /\ req' = [req EXCEPT ![w] = r]
  <2>1. Anonymous("create_first", 0, 0, n) \in Request
    BY AccountsAssumption DEF Anonymous, Request, Step
  <2>2. Aimed(Anonymous("create_first", 0, 0, n))
    BY DEF Anonymous, Aimed
  <2>3. QED BY <1>7, <2>1, <2>2 DEF Bootstrap
<1>8. ASSUME NEW i \in Id, Login(w, i)
      PROVE  \E r \in Request : Aimed(r) /\ req' = [req EXCEPT ![w] = r]
  <2> DEFINE r == Anonymous("issue", i, users[i].password, users[i].name)
  <2>1. users[i] \in User
    BY <1>8 DEF Login, Exists, Inv, TypeOK
  <2>2. r \in Request
    BY <2>1, AccountsAssumption DEF Anonymous, Request, Step, User, Id
  <2>3. Aimed(r)
    BY DEF Anonymous, Aimed
  <2>4. QED BY <1>8, <2>2, <2>3 DEF Login
<1>9. QED
  BY <1>5, <1>6, <1>7, <1>8 DEF Enter

(* An account is added under the next id. *)
LEMMA InsertKeeps ==
  ASSUME Inv, NEW n \in Names, NEW r \in Role, Inserted(n, r)
  PROVE  /\ users' \in [Id -> User \cup {NoUser}]
         /\ created' \in 0..MaxUsers /\ created + 1 \in Id
         /\ \A i \in Id : Exists(i) => users'[i] # NoUser
<1> DEFINE u == [role |-> r, name |-> n, password |-> 0]
<1>1. u \in User
  BY AccountsAssumption DEF User
<1>2. created + 1 \in Id /\ created' \in 0..MaxUsers
  BY AccountsAssumption DEF Inserted, Inv, TypeOK, Id
<1>3. users' = [users EXCEPT ![created + 1] = u]
  BY DEF Inserted
<1>4. QED
  BY <1>1, <1>2, <1>3, Rows DEF Inv, TypeOK, Exists

(* An administrator's request, up to its first write. *)
LEMMA AdministerKeeps ==
  ASSUME Inv, NEW w \in Workers, Administer(w)
  PROVE  Inv'
<1>1. At(w, "handler") /\ req[w] \in Request
  BY Under DEF Administer, CreateUser, AdminSetsPassword, DeleteCheck, UpdateRole, Step
<1>2. ASSUME NEW i \in Id, NEW step \in {"set_password", "delete"},
             req' = [req EXCEPT ![w] = [@ EXCEPT !.at = step, !.target = i]]
      PROVE  req' \in [Workers -> Request \cup {Idle}] /\ \A v \in Workers : Aimed(req'[v])
  <2> DEFINE r == [req[w] EXCEPT !.at = step, !.target = i]
  <2>1. r \in Request /\ Aimed(r)
    BY <1>1, Retargeted DEF Step
  <2>2. QED BY <1>2, <2>1, ReqKeeps DEF Inv
<1>3. ASSUME NEW n \in Names, NEW r \in Role, CreateUser(w, n, r) PROVE Inv'
  <2>1. req' \in [Workers -> Request \cup {Idle}] /\ \A v \in Workers : Aimed(req'[v])
    BY <1>3, EndKeeps DEF CreateUser
  <2>2. SessionsOwned'
    BY <1>3, InsertKeeps, UsersKeep DEF CreateUser, Inv
  <2>3. QED BY <1>3, <2>1, <2>2, InsertKeeps DEF CreateUser, Inv, TypeOK, setting
<1>4. ASSUME NEW i \in Id, AdminSetsPassword(w, i) \/ DeleteCheck(w, i) PROVE Inv'
  <2>1. req' \in [Workers -> Request \cup {Idle}] /\ \A v \in Workers : Aimed(req'[v])
    <3>1. CASE AdminSetsPassword(w, i)
      BY <1>2, <3>1 DEF AdminSetsPassword
    <3>2. CASE DeleteCheck(w, i)
      BY <1>2, <3>2 DEF DeleteCheck
    <3>3. QED BY <1>4, <3>1, <3>2
  <2>2. UNCHANGED <<setting, now, users, created, sessions, issued>>
    BY <1>4 DEF AdminSetsPassword, DeleteCheck
  <2>3. faults' \in 0..MaxFaults
    BY <1>4, AccountsAssumption DEF AdminSetsPassword, DeleteCheck, Inv, TypeOK
  <2>4. QED BY <2>1, <2>2, <2>3 DEF Inv, TypeOK, SessionsOwned, Held, Exists, setting
<1>5. ASSUME NEW i \in Id, NEW r \in Role, UpdateRole(w, i, r) PROVE Inv'
  <2>1. req' \in [Workers -> Request \cup {Idle}] /\ \A v \in Workers : Aimed(req'[v])
    BY <1>2, <1>5, EndKeeps DEF UpdateRole
  <2>2. users' = [users EXCEPT ![i] = IF @ = NoUser THEN @ ELSE [@ EXCEPT !.role = r]]
    BY <1>5 DEF UpdateRole
  <2>3. users[i] # NoUser => [users[i] EXCEPT !.role = r] \in User
    BY DEF Inv, TypeOK, User
  <2>4. users' \in [Id -> User \cup {NoUser}] /\ \A k \in Id : Exists(k) => users'[k] # NoUser
    BY <2>2, <2>3, Rows DEF Inv, TypeOK, Exists
  <2>5. SessionsOwned'
    BY <1>5, <2>4, UsersKeep DEF UpdateRole, Inv
  <2>6. QED BY <1>5, <2>1, <2>4, <2>5 DEF UpdateRole, Inv, TypeOK, setting
<1>6. QED
  BY <1>3, <1>4, <1>5 DEF Administer

(* A session is written: extended, deleted, or issued to an account that   *)
(* the foreign key finds.                                                  *)
LEMMA SessionStepKeeps ==
  ASSUME Inv, NEW w \in Workers,
         PurgeExpired(w) \/ Refresh(w) \/ Logout(w) \/ IssueSession(w) \/ Revoke(w)
  PROVE  Inv'
<1>1. req' \in [Workers -> Request \cup {Idle}] /\ \A v \in Workers : Aimed(req'[v])
  BY EndKeeps, GoKeeps DEF PurgeExpired, Refresh, Logout, IssueSession, Revoke, Step
<1>2. UNCHANGED <<bypass, now, users, created, faults>> /\ spared' \subseteq Token
  BY DEF PurgeExpired, Refresh, Logout, IssueSession, Revoke, Own, setting, Inv, TypeOK
<1>3. SUFFICES /\ sessions' \in [Token -> Session \cup {NoSession}]
               /\ issued' \in 0..MaxSessions
               /\ SessionsOwned'
  BY <1>1, <1>2 DEF Inv, TypeOK
<1>4. CASE PurgeExpired(w) \/ Logout(w) \/ Revoke(w)
  <2>1. /\ sessions' \in [Token -> Session \cup {NoSession}]
        /\ \A t \in Token : sessions'[t] \in {sessions[t], NoSession}
    BY <1>4, WithoutOnlyDrops DEF PurgeExpired, Logout, Revoke, Inv, TypeOK
  <2>2. SessionsOwned'
    BY <1>2, <2>1, DropKeeps DEF Inv
  <2>3. QED BY <1>4, <2>1, <2>2 DEF PurgeExpired, Logout, Revoke, Inv, TypeOK
<1>5. CASE Refresh(w)
  <2> DEFINE k == req[w].token
             e == now + SessionTtl
  <2>1. sessions' = [sessions EXCEPT ![k] =
                       IF @ = NoSession THEN @ ELSE [@ EXCEPT !.expires = e]]
    BY <1>5 DEF Refresh, Extended
  <2>2. e \in Nat
    BY AccountsAssumption DEF Inv, TypeOK
  <2>3. k \in Token /\ sessions[k] # NoSession =>
          /\ [sessions[k] EXCEPT !.expires = e] \in Session
          /\ [sessions[k] EXCEPT !.expires = e].user = sessions[k].user
    BY <2>2 DEF Inv, TypeOK, Session
  <2>4. sessions' \in [Token -> Session \cup {NoSession}]
    BY <2>1, <2>3 DEF Inv, TypeOK
  <2>5. \A t \in Token : sessions'[t] # NoSession =>
          sessions[t] # NoSession /\ sessions'[t].user = sessions[t].user
    BY <2>1, <2>3 DEF Inv, TypeOK
  <2>6. SessionsOwned'
    BY <1>2, <2>5 DEF Inv, SessionsOwned, Held, Exists
  <2>7. QED BY <1>5, <2>4, <2>6 DEF Refresh, Inv, TypeOK
<1>6. CASE IssueSession(w)
  <2>1. req[w] \in Request /\ req[w].target \in Id
    BY <1>6, Under DEF IssueSession, Step, At, Aimed
  <2>2. CASE Exists(req[w].target)
    <3> DEFINE s == [user |-> req[w].target, expires |-> now + SessionTtl,
                     password |-> req[w].password]
    <3>1. s \in Session
      BY <2>1, AccountsAssumption DEF Session, Request, Inv, TypeOK
    <3>2. sessions' = [sessions EXCEPT ![issued + 1] = s] /\ issued' \in 0..MaxSessions
      BY <1>6, <2>2, AccountsAssumption DEF IssueSession, Inv, TypeOK
    <3>3. SessionsOwned'
      BY <1>2, <2>2, <3>2 DEF Inv, TypeOK, SessionsOwned, Held, Exists
    <3>4. QED BY <3>1, <3>2, <3>3 DEF Inv, TypeOK
  <2>3. CASE ~Exists(req[w].target)
    BY <1>2, <1>6, <2>3 DEF IssueSession, Inv, TypeOK, SessionsOwned, Held, Exists
  <2>4. QED BY <2>2, <2>3
<1>7. QED
  BY <1>4, <1>5, <1>6

(* A request that changes a password goes on to the statement that does.   *)
LEMMA ChangeKeeps ==
  ASSUME Inv, NEW w \in Workers, ChangePassword(w)
  PROVE  Inv'
<1> DEFINE r == [req[w] EXCEPT !.at = "set_password", !.target = req[w].id]
<1>1. req[w] \in Request
  BY Under DEF ChangePassword, Step
<1>2. r \in Request /\ Aimed(r)
  BY <1>1 DEF Request, Step, Aimed
<1>3. req' = [req EXCEPT ![w] = r]
  BY DEF ChangePassword
<1>4. req' \in [Workers -> Request \cup {Idle}] /\ \A v \in Workers : Aimed(req'[v])
  BY <1>2, <1>3, ReqKeeps DEF Inv
<1>5. QED
  BY <1>4 DEF ChangePassword, Inv, TypeOK, SessionsOwned, Held, Exists, setting

(* The first account is created, and a session is to be issued to it.      *)
LEMMA CreateFirstKeeps ==
  ASSUME Inv, NEW w \in Workers, CreateFirst(w)
  PROVE  Inv'
<1>1. req[w] \in Request /\ Aimed(req[w]) /\ At(w, "create_first")
  BY Under DEF CreateFirst, Step
<1>2. UNCHANGED <<setting, now, sessions, issued, faults>>
  BY DEF CreateFirst
<1>3. CASE Taken(req[w].name)
  BY <1>2, <1>3, EndKeeps DEF CreateFirst, Inv, TypeOK, SessionsOwned, Held, Exists, setting
<1>4. CASE ~Taken(req[w].name)
  <2> DEFINE r == [req[w] EXCEPT !.at = "issue", !.target = created + 1]
  <2>1. Inserted(req[w].name, "admin") /\ req' = [req EXCEPT ![w] = r]
    BY <1>4 DEF CreateFirst
  <2>2. req[w].name \in Names /\ "admin" \in Role
    BY <1>1 DEF Aimed, At, Role
  <2>3. /\ users' \in [Id -> User \cup {NoUser}]
        /\ created' \in 0..MaxUsers /\ created + 1 \in Id
        /\ \A i \in Id : Exists(i) => users'[i] # NoUser
    BY <2>1, <2>2, InsertKeeps
  <2>4. r \in Request /\ Aimed(r)
    BY <1>1, <2>3, Retargeted DEF Step
  <2>5. req' \in [Workers -> Request \cup {Idle}] /\ \A v \in Workers : Aimed(req'[v])
    BY <2>1, <2>4, ReqKeeps DEF Inv
  <2>6. SessionsOwned'
    BY <1>2, <2>3, UsersKeep DEF Inv
  <2>7. QED BY <1>2, <2>3, <2>5, <2>6 DEF Inv, TypeOK, setting
<1>5. QED
  BY <1>3, <1>4

(* The new hash is stored, if the account is still there.                  *)
LEMMA SetPasswordKeeps ==
  ASSUME Inv, NEW w \in Workers, SetPassword(w)
  PROVE  Inv'
<1> DEFINE i == req[w].target
<1>1. req' \in [Workers -> Request \cup {Idle}] /\ \A v \in Workers : Aimed(req'[v])
  BY GoKeeps DEF SetPassword, Step
<1>2. UNCHANGED <<setting, now, created, sessions, issued, faults>>
  BY DEF SetPassword
<1>3. /\ users' \in [Id -> User \cup {NoUser}]
      /\ \A k \in Id : Exists(k) => users'[k] # NoUser
  <2>1. CASE Exists(i) /\ i \in Id
    <3> DEFINE u == [users[i] EXCEPT !.password = users[i].password + 1]
    <3>1. users[i] \in User /\ users[i].password < MaxChanges
      BY <2>1 DEF SetPassword, Exists, Inv, TypeOK
    <3>2. u \in User
      BY <3>1, AccountsAssumption DEF User
    <3>3. users' = [users EXCEPT ![i] = u]
      BY <2>1 DEF SetPassword
    <3>4. QED BY <3>2, <3>3, Rows DEF Inv, TypeOK, Exists
  <2>2. CASE ~(Exists(i) /\ i \in Id)
    <3>1. users' = users
      BY <2>2 DEF SetPassword, Inv, TypeOK
    <3>2. QED BY <3>1 DEF Inv, TypeOK, Exists
  <2>3. QED BY <2>1, <2>2
<1>4. SessionsOwned'
  BY <1>2, <1>3, UsersKeep DEF Inv
<1>5. QED
  BY <1>1, <1>2, <1>3, <1>4 DEF Inv, TypeOK, setting

(* An account goes and its sessions with it, in the one statement.         *)
LEMMA DeleteUserKeeps ==
  ASSUME Inv, NEW w \in Workers, DeleteUser(w)
  PROVE  Inv'
<1> DEFINE i == req[w].target
<1>1. req' \in [Workers -> Request \cup {Idle}] /\ \A v \in Workers : Aimed(req'[v])
  BY EndKeeps DEF DeleteUser
<1>2. UNCHANGED <<setting, now, created, issued, faults>>
  BY DEF DeleteUser
<1>3. users' = [users EXCEPT ![i] = NoUser] /\ sessions' = SessionsWithout(i)
  BY DEF DeleteUser
<1>4. /\ sessions' \in [Token -> Session \cup {NoSession}]
      /\ \A t \in Token : /\ sessions'[t] \in {sessions[t], NoSession}
                          /\ sessions[t].user = i => sessions'[t] = NoSession
  BY <1>3, WithoutOnlyDrops DEF Inv
<1>5. users' \in [Id -> User \cup {NoUser}] /\ \A k \in Id \ {i} : users'[k] = users[k]
  BY <1>3 DEF Inv, TypeOK
<1>6. ASSUME NEW t \in Token, sessions'[t] # NoSession
      PROVE  users'[sessions'[t].user] # NoUser
  <2>1. sessions'[t] = sessions[t] /\ sessions[t].user # i /\ Held(t)
    BY <1>4, <1>6 DEF Held
  <2>2. sessions[t].user \in Id /\ Exists(sessions[t].user)
    BY <2>1 DEF Inv, TypeOK, SessionsOwned, Held, Session
  <2>3. QED BY <1>5, <2>1, <2>2 DEF Exists
<1>7. SessionsOwned'
  BY <1>6 DEF SessionsOwned, Held, Exists
<1>8. QED
  BY <1>1, <1>2, <1>4, <1>5, <1>7 DEF Inv, TypeOK, setting

(* A statement fails: nothing is written, and the request ends or goes on. *)
LEMMA FailKeeps ==
  ASSUME Inv, NEW w \in Workers, StatementFails(w)
  PROVE  Inv'
<1>1. req' \in [Workers -> Request \cup {Idle}] /\ \A v \in Workers : Aimed(req'[v])
  BY EndKeeps, GoKeeps DEF StatementFails, Step
<1>2. UNCHANGED <<bypass, now, users, created, sessions, issued>>
  BY DEF StatementFails
<1>3. spared' \subseteq Token /\ faults' \in 0..MaxFaults
  BY AccountsAssumption DEF StatementFails, Inv, TypeOK
<1>4. QED
  BY <1>1, <1>2, <1>3 DEF Inv, TypeOK, SessionsOwned, Held, Exists

LEMMA InvStep == Inv /\ [Next]_vars => Inv'
<1> SUFFICES ASSUME Inv, [Next]_vars PROVE Inv'
  OBVIOUS
<1>1. CASE Tick
  BY <1>1, AccountsAssumption
  DEF Tick, Inv, TypeOK, SessionsOwned, Held, Exists, setting
<1>2. ASSUME NEW w \in Workers, Enter(w) PROVE Inv'
  BY <1>2, EnterKeeps
<1>3. ASSUME NEW w \in Workers, Administer(w) PROVE Inv'
  BY <1>3, AdministerKeeps
<1>4. ASSUME NEW w \in Workers, Proceed(w) PROVE Inv'
  <2>1. CASE PurgeExpired(w) \/ Refresh(w) \/ Logout(w) \/ IssueSession(w) \/ Revoke(w)
    BY <2>1, SessionStepKeeps
  <2>2. CASE OtherRoute(w)
    BY <2>2, EndKeeps DEF OtherRoute, Inv, TypeOK, SessionsOwned, Held, Exists, setting
  <2>3. CASE CreateFirst(w)
    BY <2>3, CreateFirstKeeps
  <2>4. CASE ChangePassword(w)
    BY <2>4, ChangeKeeps
  <2>5. CASE SetPassword(w)
    BY <2>5, SetPasswordKeeps
  <2>6. CASE DeleteUser(w)
    BY <2>6, DeleteUserKeeps
  <2>7. CASE StatementFails(w)
    BY <2>7, FailKeeps
  <2>8. QED
    BY <1>4, <2>1, <2>2, <2>3, <2>4, <2>5, <2>6, <2>7 DEF Proceed
<1>5. CASE UNCHANGED vars
  BY <1>5 DEF vars, Inv, TypeOK, SessionsOwned, Held, Exists
<1>6. QED
  BY <1>1, <1>2, <1>3, <1>4, <1>5 DEF Next

-----------------------------------------------------------------------------
(* What is established *)

LEMMA InvAlways == Spec => []Inv
BY InitInv, InvStep, PTL DEF Spec

(* The tables keep their types, whatever the requests under way do.        *)
THEOREM TypeCorrect == Spec => []TypeOK
<1>1. Inv => TypeOK
  BY DEF Inv
<1>2. QED
  BY InvAlways, <1>1, PTL

(* Every session belongs to an account that exists, also when it is        *)
(* deleted while a login of its owner is under way (users and sessions in  *)
(* the schema, IssueSession and DeleteUser here).                          *)
THEOREM Owned == Spec => []SessionsOwned
<1>1. Inv => SessionsOwned
  BY DEF Inv
<1>2. QED
  BY InvAlways, <1>1, PTL

(* A token that was issued and is no longer held is not held again: the    *)
(* refresh of a request let in before is an UPDATE that finds no row, and  *)
(* a login is given a new token.                                           *)
THEOREM Revoked == Spec => RevokedForGood
<1> DEFINE Stays == \A t \in Token : t <= issued /\ ~Held(t) => sessions'[t] = NoSession
<1>1. ASSUME Inv, [Next]_vars PROVE Stays
  <2> SUFFICES ASSUME NEW t \in Token, t <= issued, sessions[t] = NoSession
               PROVE  sessions'[t] = NoSession
    BY DEF Held
  <2>1. CASE sessions' = sessions
    BY <2>1
  <2>2. ASSUME NEW w \in Workers, PurgeExpired(w) \/ Logout(w) \/ Revoke(w) \/ DeleteUser(w)
        PROVE  sessions'[t] = NoSession
    BY <1>1, <2>2, WithoutOnlyDrops DEF PurgeExpired, Logout, Revoke, DeleteUser, Inv, TypeOK
  <2>3. ASSUME NEW w \in Workers, Refresh(w) PROVE sessions'[t] = NoSession
    BY <1>1, <2>3 DEF Refresh, Extended, Inv, TypeOK
  <2>4. ASSUME NEW w \in Workers, IssueSession(w) PROVE sessions'[t] = NoSession
    <3>1. issued + 1 # t
      BY <1>1, AccountsAssumption DEF Inv, TypeOK, Token
    <3>2. QED BY <1>1, <2>4, <3>1 DEF IssueSession, Inv, TypeOK
  <2>5. ASSUME NEW w \in Workers, Enter(w) \/ Administer(w) PROVE sessions' = sessions
    BY <2>5
    DEF Enter, Authenticate, AuthenticateBypassed, Bootstrap, Login,
        Administer, CreateUser, AdminSetsPassword, DeleteCheck, UpdateRole
  <2>6. ASSUME NEW w \in Workers, Proceed(w) PROVE sessions'[t] = NoSession
    <3>1. CASE OtherRoute(w) \/ CreateFirst(w) \/ ChangePassword(w) \/ SetPassword(w)
               \/ StatementFails(w)
      BY <2>1, <3>1 DEF OtherRoute, CreateFirst, ChangePassword, SetPassword, StatementFails
    <3>2. QED BY <2>2, <2>3, <2>4, <2>6, <3>1 DEF Proceed
  <2>7. QED
    BY <1>1, <2>1, <2>5, <2>6 DEF Next, Tick, vars
<1>2. QED
  BY InvAlways, <1>1, PTL DEF Spec, RevokedForGood

-----------------------------------------------------------------------------
(* Sessions of a former password *)

Former(t) == Held(t) /\ sessions[t].password < users[sessions[t].user].password

(* Sessions that go or keep their password, accounts that keep theirs or   *)
(* are new: what is still to be revoked is so by a request that was about  *)
(* to, and is, unless it is the one that takes this step.                  *)
LEMMA StaysDue ==
  ASSUME Inv, FormerPasswordsOut, NEW w \in Workers,
         spared \subseteq spared',
         \A v \in Workers \ {w} : req'[v] = req[v],
         \A t \in Token : \/ sessions'[t] = NoSession
                          \/ /\ Held(t)
                             /\ sessions'[t].user = sessions[t].user
                             /\ sessions'[t].password = sessions[t].password
                             /\ users'[sessions[t].user].password
                                  \in {users[sessions[t].user].password, 0},
         \A t \in Token : At(w, "revoke") /\ req[w].target = sessions[t].user
                            => sessions'[t] = NoSession \/ t \in spared'
  PROVE  FormerPasswordsOut'
<1> SUFFICES ASSUME NEW t \in Token, t \notin spared', Former(t)'
             PROVE  \E v \in Workers : At(v, "revoke")' /\ req'[v].target = sessions'[t].user
  BY DEF FormerPasswordsOut, Former
<1>1. /\ Held(t)
      /\ sessions'[t].user = sessions[t].user
      /\ sessions'[t].password = sessions[t].password
      /\ users'[sessions[t].user].password \in {users[sessions[t].user].password, 0}
      /\ sessions[t].password < users'[sessions[t].user].password
  BY DEF Former, Held
<1>2. sessions[t].password \in Nat
  BY <1>1 DEF Held, Inv, TypeOK, Session
<1>3. Former(t) /\ t \notin spared
  BY <1>1, <1>2 DEF Former
<1>4. PICK v \in Workers : At(v, "revoke") /\ req[v].target = sessions[t].user
  BY <1>3 DEF FormerPasswordsOut, Former
<1>5. v # w
  BY <1>4 DEF Former, Held
<1> QED
  BY <1>1, <1>4, <1>5 DEF At

LEMMA HeldOwned ==
  ASSUME Inv, NEW t \in Token, Held(t)
  PROVE  sessions[t].user \in Id /\ Exists(sessions[t].user)
BY DEF Inv, TypeOK, SessionsOwned, Held, Session

(* The sessions are left alone, and an account keeps its password or is    *)
(* new, with the first of its passwords.                                   *)
LEMMA UntouchedStay ==
  ASSUME Inv, FormerPasswordsOut, NEW w \in Workers,
         sessions' = sessions, spared \subseteq spared', ~At(w, "revoke"),
         \A v \in Workers \ {w} : req'[v] = req[v],
         \A i \in Id : Exists(i) => users'[i].password \in {users[i].password, 0}
  PROVE  FormerPasswordsOut'
<1>1. \A t \in Token : Held(t) => users'[sessions[t].user].password
                                    \in {users[sessions[t].user].password, 0}
  BY HeldOwned
<1> QED
  BY <1>1, StaysDue DEF Held

LEMMA InsertNames ==
  ASSUME Inv, NEW n, NEW r, Inserted(n, r)
  PROVE  \A i \in Id : Exists(i) => users'[i].password \in {users[i].password, 0}
BY DEF Inserted, Inv, TypeOK

(* A request comes in, or is an administrator's up to its first write, or  *)
(* touches no session: no password changes.                                *)
LEMMA EnterDue ==
  ASSUME Inv, FormerPasswordsOut, NEW w \in Workers, Enter(w)
  PROVE  FormerPasswordsOut'
<1>1. /\ UNCHANGED <<setting, users, sessions>> /\ Begins(w)
      /\ \A v \in Workers \ {w} : req'[v] = req[v]
  BY DEF Enter, Authenticate, AuthenticateBypassed, Bootstrap, Login, Inv, TypeOK
<1>2. ~At(w, "revoke")
  BY <1>1 DEF Begins, At, Idle
<1> QED
  BY <1>1, <1>2, UntouchedStay DEF setting

LEMMA AdministerDue ==
  ASSUME Inv, FormerPasswordsOut, NEW w \in Workers, Administer(w)
  PROVE  FormerPasswordsOut'
<1>1. /\ UNCHANGED <<setting, sessions>> /\ At(w, "handler")
      /\ \A v \in Workers \ {w} : req'[v] = req[v]
  BY DEF Administer, CreateUser, AdminSetsPassword, DeleteCheck, UpdateRole, Ends, Inv, TypeOK
<1>2. \A i \in Id : Exists(i) => users'[i].password \in {users[i].password, 0}
  <2>1. ASSUME NEW n \in Names, NEW q \in Role, CreateUser(w, n, q)
        PROVE  \A i \in Id : Exists(i) => users'[i].password \in {users[i].password, 0}
    BY <2>1, InsertNames DEF CreateUser
  <2>2. ASSUME NEW k \in Id, NEW q \in Role, UpdateRole(w, k, q)
        PROVE  \A i \in Id : Exists(i) => users'[i].password \in {users[i].password, 0}
    BY <2>2 DEF UpdateRole, Inv, TypeOK, Exists, User
  <2>3. ASSUME NEW k \in Id, AdminSetsPassword(w, k) \/ DeleteCheck(w, k)
        PROVE  users' = users
    BY <2>3 DEF AdminSetsPassword, DeleteCheck
  <2> QED
    BY <2>1, <2>2, <2>3 DEF Administer
<1> QED
  BY <1>1, <1>2, UntouchedStay DEF setting, At

LEMMA PassingDue ==
  ASSUME Inv, FormerPasswordsOut, NEW w \in Workers,
         OtherRoute(w) \/ ChangePassword(w) \/ CreateFirst(w)
  PROVE  FormerPasswordsOut'
<1>1. /\ UNCHANGED <<setting, sessions>> /\ ~At(w, "revoke")
      /\ \A v \in Workers \ {w} : req'[v] = req[v]
  BY DEF OtherRoute, ChangePassword, CreateFirst, Ends, At, Inv, TypeOK
<1>2. \A i \in Id : Exists(i) => users'[i].password \in {users[i].password, 0}
  BY InsertNames DEF OtherRoute, ChangePassword, CreateFirst
<1> QED
  BY <1>1, <1>2, UntouchedStay DEF setting

(* A login opens a session with the password it verified: the stored one,  *)
(* or one that was changed since, and then the session is spared.          *)
LEMMA IssueDue ==
  ASSUME Inv, FormerPasswordsOut, NEW w \in Workers, IssueSession(w)
  PROVE  FormerPasswordsOut'
<1>1. /\ users' = users /\ At(w, "issue") /\ ~At(w, "revoke")
      /\ spared \subseteq spared'
      /\ \A v \in Workers \ {w} : req'[v] = req[v]
  BY DEF IssueSession, Ends, At, Inv, TypeOK
<1>2. CASE ~Exists(req[w].target)
  <2>1. sessions' = sessions
    BY <1>2 DEF IssueSession
  <2> QED
    BY <1>1, <2>1, UntouchedStay
<1>3. CASE Exists(req[w].target)
  <2> DEFINE s == [user |-> req[w].target, expires |-> now + SessionTtl,
                   password |-> req[w].password]
  <2>1. sessions' = [sessions EXCEPT ![issued + 1] = s]
    BY <1>3 DEF IssueSession
  <2>2. req[w] \in Request /\ req[w].target \in Id
    BY <1>1, Under DEF Step, At, Aimed
  <2>3. req[w].password \in Nat /\ users[req[w].target].password \in Nat
    BY <1>3, <2>2 DEF Request, Inv, TypeOK, Exists, User
  <2> SUFFICES ASSUME NEW t \in Token, t \notin spared', Former(t)'
               PROVE  \E v \in Workers : At(v, "revoke")' /\ req'[v].target = sessions'[t].user
    BY DEF FormerPasswordsOut, Former
  <2>4. CASE t = issued + 1
    <3>1. sessions'[t] = s
      BY <2>1, <2>4 DEF Inv, TypeOK
    <3>2. req[w].password < users[req[w].target].password
      BY <1>1, <3>1 DEF Former
    <3>3. Overtaken(w)
      BY <1>3, <2>3, <3>2 DEF Overtaken
    <3> QED
      BY <2>4, <3>3 DEF IssueSession
  <2>5. CASE t # issued + 1
    <3>1. sessions'[t] = sessions[t]
      BY <2>1, <2>5 DEF Inv, TypeOK
    <3>2. Former(t) /\ t \notin spared
      BY <1>1, <3>1 DEF Former, Held
    <3>3. PICK v \in Workers : At(v, "revoke") /\ req[v].target = sessions[t].user
      BY <3>2 DEF FormerPasswordsOut, Former
    <3>4. v # w
      BY <1>1, <3>3
    <3> QED
      BY <1>1, <3>1, <3>3, <3>4 DEF At
  <2> QED
    BY <2>4, <2>5
<1> QED
  BY <1>2, <1>3

(* The password changes: the request is now about to revoke the account's. *)
LEMMA SetPasswordDue ==
  ASSUME Inv, FormerPasswordsOut, NEW w \in Workers, SetPassword(w)
  PROVE  FormerPasswordsOut'
<1> DEFINE r == [req[w] EXCEPT !.at = "revoke"]
           i == req[w].target
<1>1. req[w] \in Request
  BY Under DEF SetPassword, Step
<1>2. /\ sessions' = sessions /\ spared' = spared /\ ~At(w, "revoke")
      /\ req' = [req EXCEPT ![w] = r] /\ r.at = "revoke" /\ r.target = i
  BY <1>1 DEF SetPassword, Goes, At, Request, setting
<1>3. \A k \in Id \ {i} : users'[k] = users[k]
  BY DEF SetPassword, Inv, TypeOK
<1>4. At(w, "revoke")' /\ req'[w].target = i
  BY <1>2 DEF At, Inv, TypeOK
<1> SUFFICES ASSUME NEW t \in Token, t \notin spared, Former(t)', sessions[t].user # i
             PROVE  \E v \in Workers : At(v, "revoke")' /\ req'[v].target = sessions[t].user
  BY <1>2, <1>4 DEF FormerPasswordsOut, Former
<1>5. Held(t) /\ sessions[t].user \in Id
  BY <1>2, HeldOwned DEF Former, Held
<1>6. Former(t)
  BY <1>2, <1>3, <1>5 DEF Former
<1>7. PICK v \in Workers : At(v, "revoke") /\ req[v].target = sessions[t].user
  BY <1>6 DEF FormerPasswordsOut, Former
<1>8. v # w /\ req'[v] = req[v]
  BY <1>2, <1>7 DEF Inv, TypeOK
<1> QED
  BY <1>7, <1>8 DEF At

(* Sessions go, or are extended. *)
LEMMA SessionsDue ==
  ASSUME Inv, FormerPasswordsOut, NEW w \in Workers,
         PurgeExpired(w) \/ Logout(w) \/ Refresh(w) \/ Revoke(w)
  PROVE  FormerPasswordsOut'
<1>1. /\ users' = users /\ spared \subseteq spared'
      /\ \A v \in Workers \ {w} : req'[v] = req[v]
  BY DEF PurgeExpired, Logout, Refresh, Revoke, setting, Ends, Goes, Inv, TypeOK
<1>2. \A t \in Token : \/ sessions'[t] = NoSession
                       \/ /\ Held(t)
                          /\ sessions'[t].user = sessions[t].user
                          /\ sessions'[t].password = sessions[t].password
  <2>1. CASE PurgeExpired(w) \/ Logout(w)
    BY <2>1 DEF PurgeExpired, Logout, Held, Inv, TypeOK
  <2>2. CASE Refresh(w)
    BY <2>2 DEF Refresh, Extended, Held, Inv, TypeOK, Session
  <2>3. CASE Revoke(w)
    BY <2>3, WithoutOnlyDrops DEF Revoke, Held, Inv
  <2> QED
    BY <2>1, <2>2, <2>3
<1>3. ASSUME NEW t \in Token, At(w, "revoke"), req[w].target = sessions[t].user
      PROVE  sessions'[t] = NoSession
  <2>1. Revoke(w)
    BY <1>3 DEF PurgeExpired, Logout, Refresh, At
  <2> QED
    BY <1>3, <2>1, WithoutOnlyDrops DEF Revoke, Inv
<1> QED
  BY <1>1, <1>2, <1>3, StaysDue

(* An account goes with its sessions. *)
LEMMA DeleteDue ==
  ASSUME Inv, FormerPasswordsOut, NEW w \in Workers, DeleteUser(w)
  PROVE  FormerPasswordsOut'
<1> DEFINE i == req[w].target
<1>1. /\ users' = [users EXCEPT ![i] = NoUser] /\ sessions' = SessionsWithout(i)
      /\ spared' = spared /\ ~At(w, "revoke")
      /\ \A v \in Workers \ {w} : req'[v] = req[v]
  BY DEF DeleteUser, Ends, At, setting, Inv, TypeOK
<1>2. \A t \in Token : /\ sessions'[t] \in {sessions[t], NoSession}
                       /\ sessions[t].user = i => sessions'[t] = NoSession
  BY <1>1, WithoutOnlyDrops DEF Inv
<1>3. \A k \in Id \ {i} : users'[k] = users[k]
  BY <1>1 DEF Inv, TypeOK
<1>4. ASSUME NEW t \in Token, sessions'[t] # NoSession
      PROVE  Held(t) /\ sessions'[t] = sessions[t]
             /\ users'[sessions[t].user] = users[sessions[t].user]
  BY <1>2, <1>3, <1>4, HeldOwned DEF Held
<1> QED
  BY <1>1, <1>4, StaysDue

(* A statement fails: where it was the revocation, its sessions are spared.*)
LEMMA FailDue ==
  ASSUME Inv, FormerPasswordsOut, NEW w \in Workers, StatementFails(w)
  PROVE  FormerPasswordsOut'
<1>1. /\ users' = users /\ sessions' = sessions /\ spared \subseteq spared'
      /\ \A v \in Workers \ {w} : req'[v] = req[v]
  BY DEF StatementFails, Ends, Goes, Inv, TypeOK
<1>2. \A t \in Token : At(w, "revoke") /\ req[w].target = sessions[t].user => t \in spared'
  BY DEF StatementFails
<1> QED
  BY <1>1, <1>2, StaysDue DEF Held

LEMMA DueStep ==
  ASSUME Inv, FormerPasswordsOut, [Next]_vars
  PROVE  FormerPasswordsOut'
<1>1. CASE Tick \/ UNCHANGED vars
  <2>1. UNCHANGED <<users, sessions, req, spared>>
    BY <1>1 DEF Tick, setting, vars
  <2> QED
    BY <2>1 DEF FormerPasswordsOut, Held, At
<1> QED
  BY <1>1, EnterDue, AdministerDue, PassingDue, IssueDue, SetPasswordDue, SessionsDue,
     DeleteDue, FailDue DEF Next, Proceed

(* A session opened with a former password ends with the request that      *)
(* changed it, with any number of requests at once, but for the sessions   *)
(* that are spared (change_password, update_user_route and                 *)
(* delete_sessions_for_user).                                              *)
THEOREM Changed == Spec => []FormerPasswordsOut
<1>1. Init => FormerPasswordsOut
  BY DEF Init, FormerPasswordsOut, Held
<1>2. Inv /\ FormerPasswordsOut /\ [Next]_vars => FormerPasswordsOut'
  BY DueStep
<1> QED
  BY <1>1, <1>2, InvAlways, PTL DEF Spec
=============================================================================
