----------------------------- MODULE AdminAccess -----------------------------
(***************************************************************************)
(* Who may administer the service: the first-run setup, login and          *)
(* sessions, user management (internal/ui) and the break-glass recovery    *)
(* (internal/api), over the tables users, sessions and settings.           *)
(*                                                                         *)
(* Requests run concurrently.  The database serializes their statements,   *)
(* and a request that makes two of them lets others in between: each       *)
(* action ends with one statement, or with one transaction.                *)
(*                                                                         *)
(* A row of users is never deleted and its username never changes, so the  *)
(* username stands for the row; only the id "admin-1", which setup gives   *)
(* to its user, is kept apart.  A password hash is the password it         *)
(* verifies.  A wrong secret, form, password or CSRF token answers with an *)
(* error page and changes nothing.                                         *)
(***************************************************************************)
EXTENDS Naturals, FiniteSets

CONSTANTS Names,       \* usernames
          Passwords,
          Sessions,    \* session tokens; random, so each is used once (bound)
          Requests     \* concurrent requests (bound)

ASSUME NamesAssumption == "none" \notin Names \cup Passwords

VARIABLES
    setup_completed,   \* the row of table settings
    users,             \* table users
    admin1,            \* the username of the row whose id is "admin-1"
    sessions,          \* table sessions
    request            \* local state of each request

vars == <<setup_completed, users, admin1, sessions, request>>
----------------------------------------------------------------------------
User   == [password : Passwords \cup {"none"}, is_disabled : BOOLEAN]
NoUser == [password |-> "none", is_disabled |-> FALSE]

Exists(n)   == users[n].password # "none"
ActiveUsers == {n \in Names : Exists(n) /\ ~users[n].is_disabled}

(* A token not given out yet, an open session, or a deleted or expired one: *)
(* GetSession deletes an expired row when it meets one.                     *)
SessionRow == [user : Names \cup {"none"}, state : {"unused", "open", "gone"}]

RequestState ==
    [pc       : {"idle", "setup", "session", "count", "disable", "enable", "create",
                 "verify", "change", "reset", "reenable", "evict"},
     name     : Names \cup {"none"},      \* the user the request is about
     password : Passwords \cup {"none"}]  \* the new password it brings
Idle == [pc |-> "idle", name |-> "none", password |-> "none"]

AdminTypeOK ==
    /\ setup_completed \in BOOLEAN
    /\ users    \in [Names -> User]
    /\ admin1   \in Names \cup {"none"}
    /\ sessions \in [Sessions -> SessionRow]
    /\ request  \in [Requests -> RequestState]

Init ==
    /\ setup_completed = FALSE
    /\ users    = [n \in Names |-> NoUser]
    /\ admin1   = "none"
    /\ sessions = [s \in Sessions |-> [user |-> "none", state |-> "unused"]]
    /\ request  = [q \in Requests |-> Idle]

At(q, pc)   == request[q].pc = pc
Goto(q, pc) == request' = [request EXCEPT ![q].pc = pc]
Finish(q)   == request' = [request EXCEPT ![q] = Idle]
Start(q, pc, n, pw) ==
    /\ At(q, "idle")
    /\ request' = [request EXCEPT ![q] = [pc |-> pc, name |-> n, password |-> pw]]
----------------------------------------------------------------------------
(* handleSetupPost: the check of setup_completed, outside the transaction. *)
SetupCheck(q, n, pw) ==
    /\ ~setup_completed
    /\ Start(q, "setup", n, pw)
    /\ UNCHANGED <<setup_completed, users, admin1, sessions>>

(* Mutant: the insert replaces a row that is there.                        *)
SetupCommitReplaces(q) ==
    /\ At(q, "setup")
    /\ users' = [users EXCEPT ![request[q].name] =
                    [password |-> request[q].password, is_disabled |-> FALSE]]
    /\ admin1' = request[q].name
    /\ setup_completed' = TRUE
    /\ Goto(q, "session")
    /\ UNCHANGED sessions

(* The transaction: the primary key "admin-1" and UNIQUE (username) decide *)
(* which of several setups inserts its user.                               *)
SetupCommit(q) ==
    /\ At(q, "setup")
    /\ admin1 = "none"
    /\ ~Exists(request[q].name)
    /\ users' = [users EXCEPT ![request[q].name] =
                    [password |-> request[q].password, is_disabled |-> FALSE]]
    /\ admin1' = request[q].name
    /\ setup_completed' = TRUE
    /\ Goto(q, "session")
    /\ UNCHANGED sessions

(* handleLoginPost: the user is read, is enabled, and the password fits.   *)
Login(q, n) ==
    /\ n \in ActiveUsers
    /\ Start(q, "session", n, "none")
    /\ UNCHANGED <<setup_completed, users, admin1, sessions>>

(* Mutant: every session is opened for the id that setup uses.             *)
OpenSessionForFirst(q, s) ==
    /\ At(q, "session")
    /\ sessions[s].state = "unused"
    /\ sessions' = [sessions EXCEPT ![s] = [user |-> "admin-1", state |-> "open"]]
    /\ Finish(q)
    /\ UNCHANGED <<setup_completed, users, admin1>>

(* CreateSession, of a login or of the setup that has just committed.      *)
OpenSession(q, s) ==
    /\ At(q, "session")
    /\ sessions[s].state = "unused"
    /\ sessions' = [sessions EXCEPT ![s] = [user |-> request[q].name, state |-> "open"]]
    /\ Finish(q)
    /\ UNCHANGED <<setup_completed, users, admin1>>

(* handleLogout, or 24 hours have passed.                                  *)
SessionEnds(s) ==
    /\ sessions[s].state = "open"
    /\ sessions' = [sessions EXCEPT ![s].state = "gone"]
    /\ UNCHANGED <<setup_completed, users, admin1, request>>
----------------------------------------------------------------------------
(* requireAuth lets a session in when setup is done, the session is open   *)
(* and its user is enabled.                                                *)
Admitted(s) ==
    /\ setup_completed
    /\ sessions[s].state = "open"
    /\ sessions[s].user \in ActiveUsers

(* An admin page's form is posted: to disable or enable a user that the    *)
(* page lists, to create one, or to change one's own password.             *)
AdminPost(q, s) ==
    /\ Admitted(s)
    /\ \/ \E n \in Names : Exists(n) /\ (Start(q, "count", n, "none")
                                         \/ Start(q, "enable", n, "none"))
       \/ \E n \in Names, pw \in Passwords : Start(q, "create", n, pw)
       \/ \E pw \in Passwords : Start(q, "verify", sessions[s].user, pw)
    /\ UNCHANGED <<setup_completed, users, admin1, sessions>>

(* SetUserDisabled(true): SELECT COUNT of the other active users ...       *)
DisableCount(q) ==
    /\ At(q, "count")
    /\ IF Cardinality(ActiveUsers \ {request[q].name}) < 1
       THEN Finish(q) ELSE Goto(q, "disable")
    /\ UNCHANGED <<setup_completed, users, admin1, sessions>>

(* ... and the UPDATE, a statement of its own.                             *)
DisableUpdate(q) ==
    /\ At(q, "disable")
    /\ users' = [users EXCEPT ![request[q].name].is_disabled = TRUE]
    /\ Finish(q)
    /\ UNCHANGED <<setup_completed, admin1, sessions>>

EnableUpdate(q) ==
    /\ At(q, "enable")
    /\ users' = [users EXCEPT ![request[q].name].is_disabled = FALSE]
    /\ Finish(q)
    /\ UNCHANGED <<setup_completed, admin1, sessions>>

(* CreateUser, of handleUserCreate or of a recovery whose user is unknown; *)
(* UNIQUE (username) fails it when the name is taken.                      *)
CreateUser(q) ==
    /\ At(q, "create")
    /\ ~Exists(request[q].name)
    /\ users' = [users EXCEPT ![request[q].name] =
                    [password |-> request[q].password, is_disabled |-> FALSE]]
    /\ Finish(q)
    /\ UNCHANGED <<setup_completed, admin1, sessions>>

(* handleProfileChangePassword: the form's current password fits the row   *)
(* read now; the row is written after the new hash is computed.            *)
ChangeVerify(q) ==
    /\ At(q, "verify")
    /\ Goto(q, "change")
    /\ UNCHANGED <<setup_completed, users, admin1, sessions>>

ChangePassword(q) ==
    /\ At(q, "change")
    /\ users' = [users EXCEPT ![request[q].name].password = request[q].password]
    /\ Finish(q)
    /\ UNCHANGED <<setup_completed, admin1, sessions>>
----------------------------------------------------------------------------
(* RecoverHandler, for a request that knows the recovery secret.           *)
RecoverLookup(q, n, pw) ==
    /\ Start(q, IF Exists(n) THEN "reset" ELSE "create", n, pw)
    /\ UNCHANGED <<setup_completed, users, admin1, sessions>>

RecoverReset(q) ==
    /\ At(q, "reset")
    /\ users' = [users EXCEPT ![request[q].name].password = request[q].password]
    /\ Goto(q, "reenable")
    /\ UNCHANGED <<setup_completed, admin1, sessions>>

(* Mutant: the account stays disabled.                                     *)
RecoverLeavesDisabled(q) ==
    /\ At(q, "reenable")
    /\ Goto(q, "evict")
    /\ UNCHANGED <<setup_completed, users, admin1, sessions>>

RecoverEnable(q) ==
    /\ At(q, "reenable")
    /\ users' = [users EXCEPT ![request[q].name].is_disabled = FALSE]
    /\ Goto(q, "evict")
    /\ UNCHANGED <<setup_completed, admin1, sessions>>

(* Its error is ignored.                                                   *)
RecoverEnableFails(q) ==
    /\ At(q, "reenable")
    /\ Goto(q, "evict")
    /\ UNCHANGED <<setup_completed, users, admin1, sessions>>

(* RevokeUserSessions.                                                     *)
RecoverEvict(q) ==
    /\ At(q, "evict")
    /\ sessions' = [s \in Sessions |->
                      IF sessions[s].user = request[q].name
                      THEN [sessions[s] EXCEPT !.state = "gone"]
                      ELSE sessions[s]]
    /\ Finish(q)
    /\ UNCHANGED <<setup_completed, users, admin1>>

(* A statement fails (a constraint, the request's context, the disk), a    *)
(* password is wrong, or the process dies: nothing more of it happens.     *)
Abort(q) ==
    /\ ~At(q, "idle")
    /\ Finish(q)
    /\ UNCHANGED <<setup_completed, users, admin1, sessions>>
----------------------------------------------------------------------------
Step(q) ==
    \/ SetupCommit(q) \/ DisableCount(q) \/ DisableUpdate(q) \/ EnableUpdate(q)
    \/ CreateUser(q) \/ ChangeVerify(q) \/ ChangePassword(q)
    \/ RecoverReset(q) \/ RecoverEnable(q) \/ RecoverEnableFails(q) \/ RecoverEvict(q)
    \/ \E s \in Sessions : OpenSession(q, s)
    \/ Abort(q)

Next ==
    \/ \E q \in Requests :
          \/ \E n \in Names, pw \in Passwords :
                SetupCheck(q, n, pw) \/ RecoverLookup(q, n, pw)
          \/ \E n \in Names : Login(q, n)
          \/ \E s \in Sessions : AdminPost(q, s)
          \/ Step(q)
    \/ \E s \in Sessions : SessionEnds(s)

Spec == Init /\ [][Next]_vars

(* An operator who is locked out calls /recover again until it succeeds,   *)
(* requests end, and no statement of a recovery fails for ever.            *)
LiveSpec ==
    /\ Spec
    /\ \A q \in Requests :
          /\ WF_vars(Step(q))
          /\ SF_vars(\E n \in Names, pw \in Passwords : RecoverLookup(q, n, pw))
          /\ SF_vars(RecoverReset(q))
          /\ SF_vars(RecoverEnable(q))
          /\ SF_vars(CreateUser(q))
----------------------------------------------------------------------------
(* Setup is locked once and for all: of several setups that all found      *)
(* setup_completed false one commits, and none ever touches the first      *)
(* administrator again, not even when every user is disabled.              *)
SetupOnce ==
    [][setup_completed \/ setup_completed' =>
          /\ setup_completed'
          /\ admin1' \in Names
          /\ setup_completed => admin1' = admin1]_vars

(* Once setup is done the service never runs out of active administrators. *)
ActiveAdminRemains == setup_completed => ActiveUsers # {}

(* Break-glass works: whatever disabled the accounts, and however the      *)
(* requests interleave, there is again and again an active administrator.  *)
LockoutEnds == []<>(ActiveUsers # {})
============================================================================
