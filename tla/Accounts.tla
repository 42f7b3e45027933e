------------------------------ MODULE Accounts ------------------------------
(***************************************************************************)
(* Accounts and sessions: first-run setup, login, logout, the creation and *)
(* removal of accounts, and what is left of a request whose account goes   *)
(* while it runs.                                                          *)
(*                                                                         *)
(* Handlers run in a thread pool.  A request first authenticates (a read   *)
(* of its own), then its handler reads what it validates, then it writes   *)
(* in a transaction, and last it writes the audit row in another one.      *)
(* Foreign keys are enforced: users is the parent of sessions (CASCADE),   *)
(* of the audit log (SET NULL) and, with no action of its own, of          *)
(* cables.updated_by.                                                      *)
(***************************************************************************)
EXTENDS Naturals, FiniteSets

CONSTANTS
  Users,     \* uuids of accounts
  Tokens,    \* session tokens (random, never handed out twice)
  Requests,  \* handler threads
  MaxRestarts

ASSUME AccountsAssumption ==
  /\ Users \cap Tokens = {}
  /\ MaxRestarts \in Nat

VARIABLES
  users,     \* the accounts that exist
  role,      \* users.role, fixed when an account is made
  sessions,  \* the rows of table sessions
  expired,   \* tokens past their expires_at
  drawn,     \* accounts named by updated_by of a cable that is still there
  audited,   \* accounts with a user.delete row in the audit log
  unused,    \* uuids and tokens not handed out yet
  restarts,
  req        \* what each handler thread carries from one step to the next

vars == <<users, role, sessions, expired, drawn, audited, unused, restarts, req>>
store == <<users, role, sessions, expired, drawn, audited, unused, restarts>>

Roles == {"admin", "viewer"}
Idle == [kind |-> "idle"]

Request ==
  {Idle}
  \cup [kind: {"login"}, user: Users]
  \cup [kind: {"authed"}, user: Users, tok: Tokens, role: Roles]
  \cup [kind: {"delete", "audit"}, user: Users, tgt: Users]

Admins == {u \in users : role[u] = "admin"}
Gone == Users \ (users \cup unused)

Free(r) == req[r] = Idle
Keep(r, q) == req' = [req EXCEPT ![r] = q]
Done(r) == Keep(r, Idle)

\* Authenticated with the role write_auth demands.
Writes(r) == req[r].kind = "authed" /\ req[r].role = "admin"

-----------------------------------------------------------------------------
Init ==
  /\ users = {}
  /\ role = [u \in Users |-> "viewer"]
  /\ sessions = {}
  /\ expired = {}
  /\ drawn = {}
  /\ audited = {}
  /\ unused = Users \cup Tokens
  /\ restarts = 0
  /\ req = [r \in Requests |-> Idle]

(* INSERT INTO users, in a transaction of its own                          *)
AddUser(u, ro) ==
  /\ u \in unused
  /\ users' = users \cup {u}
  /\ role' = [role EXCEPT ![u] = ro]
  /\ unused' = unused \ {u}
  /\ UNCHANGED <<sessions, expired, drawn, audited, restarts>>

(* POST /api/auth/setup: count and insert under BEGIN IMMEDIATE.  Like a   *)
(* login it goes on to open a session, in another transaction.             *)
Setup(r, u) ==
  /\ Free(r)
  /\ users = {}
  /\ AddUser(u, "admin")
  /\ Keep(r, [kind |-> "login", user |-> u])

(* POST /api/auth/login: the account is read, its password verified.       *)
Login(r, u) ==
  /\ Free(r)
  /\ u \in users
  /\ Keep(r, [kind |-> "login", user |-> u])
  /\ UNCHANGED store

(* create_session: the foreign key refuses a user who went in between.     *)
OpenSession(r) ==
  /\ req[r].kind = "login"
  /\ IF req[r].user \in users
       THEN \E t \in unused \cap Tokens :
              /\ sessions' = sessions \cup {[tok |-> t, user |-> req[r].user]}
              /\ unused' = unused \ {t}
       ELSE UNCHANGED <<sessions, unused>>
  /\ Done(r)
  /\ UNCHANGED <<users, role, expired, drawn, audited, restarts>>

(* current_auth: the session and its user, read once; the handler works    *)
(* with the copy from here on.                                             *)
Authenticate(r, s) ==
  /\ Free(r)
  /\ s \in sessions
  /\ s.tok \notin expired
  /\ Keep(r, [kind |-> "authed", user |-> s.user, tok |-> s.tok,
              role |-> role[s.user]])
  /\ UNCHANGED store

(* POST /api/auth/logout                                                   *)
Logout(r) ==
  /\ req[r].kind = "authed"
  /\ sessions' = {s \in sessions : s.tok # req[r].tok}
  /\ Done(r)
  /\ UNCHANGED <<users, role, expired, drawn, audited, unused, restarts>>

(* POST /api/users                                                         *)
CreateUser(r, u, ro) ==
  /\ Writes(r)
  /\ AddUser(u, ro)
  /\ Done(r)

\* one may delete the account one is logged in with
BugCheckDeleteOwn(r, u) ==
  /\ Writes(r)
  /\ u \in users
  /\ Keep(r, [kind |-> "delete", user |-> req[r].user, tgt |-> u])
  /\ UNCHANGED store

(* DELETE /api/users/{u}: not one's own account, not the last admin.       *)
CheckDelete(r, u) ==
  /\ Writes(r)
  /\ u \in users \ {req[r].user}
  /\ u \in Admins => Cardinality(Admins) > 1
  /\ Keep(r, [kind |-> "delete", user |-> req[r].user, tgt |-> u])
  /\ UNCHANGED store

(* cables.updated_by has no ON DELETE action: the row that still names the *)
(* account refuses its removal, with an answer no handler catches.         *)
Removable(u) == u \notin drawn

\* no ON DELETE CASCADE on sessions.user_id
BugSessionsOfAll(U) == sessions

SessionsOf(U) == {s \in sessions : s.user \in U}

(* The transaction.  A second delete of the same account finds no row and  *)
(* succeeds all the same.                                                  *)
CommitDelete(r) ==
  LET q == req[r]
  IN  /\ q.kind = "delete"
      /\ IF Removable(q.tgt)
           THEN /\ users' = users \ {q.tgt}
                /\ sessions' = SessionsOf(users \ {q.tgt})
                /\ Keep(r, [q EXCEPT !.kind = "audit"])
           ELSE UNCHANGED <<users, sessions>> /\ Done(r)
      /\ UNCHANGED <<role, expired, drawn, audited, unused, restarts>>

\* audit(user_id, ...) for audit(auth.user_id, ...)
BugAuditDeleteByTarget(r) ==
  /\ req[r].kind = "audit"
  /\ audited' = IF req[r].tgt \in users THEN audited \cup {req[r].tgt}
                                        ELSE audited
  /\ Done(r)
  /\ UNCHANGED <<users, role, sessions, expired, drawn, unused, restarts>>

(* database.audit: its own transaction, refused by the foreign key when    *)
(* the author has been removed meanwhile.                                  *)
AuditDelete(r) ==
  /\ req[r].kind = "audit"
  /\ audited' = IF req[r].user \in users THEN audited \cup {req[r].tgt}
                                         ELSE audited
  /\ Done(r)
  /\ UNCHANGED <<users, role, sessions, expired, drawn, unused, restarts>>

(* A cable is drawn (PatchBay!InsertCable): updated_by names the account   *)
(* the request authenticated as; its foreign key needs the account.        *)
DrawCable(r) ==
  /\ Writes(r)
  /\ drawn' = drawn \cup ({req[r].user} \cap users)
  /\ Done(r)
  /\ UNCHANGED <<users, role, sessions, expired, audited, unused, restarts>>

(* The last cable that names account u is deleted or replaced.             *)
RemoveCable(r, u) ==
  /\ Writes(r)
  /\ u \in drawn
  /\ drawn' = drawn \ {u}
  /\ Done(r)
  /\ UNCHANGED <<users, role, sessions, expired, audited, unused, restarts>>

(* Seven days pass since the login.                                        *)
Expire(s) ==
  /\ s \in sessions
  /\ s.tok \notin expired
  /\ expired' = expired \cup {s.tok}
  /\ UNCHANGED <<users, role, sessions, drawn, audited, unused, restarts, req>>

(* clean_sessions, in the housekeeping of the maintenance loop             *)
CleanSessions ==
  /\ \E s \in sessions : s.tok \in expired
  /\ sessions' = {s \in sessions : s.tok \notin expired}
  /\ UNCHANGED <<users, role, expired, drawn, audited, unused, restarts, req>>

(* The process stops and starts: the requests in flight are lost.          *)
Restart ==
  /\ restarts < MaxRestarts
  /\ restarts' = restarts + 1
  /\ req' = [r \in Requests |-> Idle]
  /\ UNCHANGED <<users, role, sessions, expired, drawn, audited, unused>>

Next ==
  \/ \E r \in Requests, u \in Users :
       \/ Setup(r, u) \/ Login(r, u) \/ CheckDelete(r, u) \/ RemoveCable(r, u)
       \/ \E ro \in Roles : CreateUser(r, u, ro)
  \/ \E r \in Requests :
       \/ OpenSession(r) \/ Logout(r) \/ DrawCable(r)
       \/ CommitDelete(r) \/ AuditDelete(r)
       \/ \E s \in sessions : Authenticate(r, s)
  \/ \E s \in sessions : Expire(s)
  \/ CleanSessions
  \/ Restart

Spec == Init /\ [][Next]_vars

-----------------------------------------------------------------------------
(* The types, and the references: a session, or a cable's updated_by,      *)
(* always names an account that is there, so that a login that overlaps    *)
(* the removal of its account leaves nothing behind.                       *)
TypeOK ==
  /\ users \subseteq Users
  /\ role \in [Users -> Roles]
  /\ sessions \subseteq [tok: Tokens, user: users]
  /\ expired \subseteq Tokens
  /\ drawn \subseteq users
  /\ audited \subseteq Users
  /\ unused \subseteq Users \cup Tokens
  /\ restarts \in 0..MaxRestarts
  /\ req \in [Requests -> Request]

(* A step that takes the last admin away is the delete of a request whose  *)
(* own account was removed after it had been validated: two admins remove  *)
(* each other.  One request after another can never get there.             *)
LastAdminFallsOnlyToARace ==
  [][(Admins # {} /\ Admins' = {}) =>
        \E r \in Requests : /\ req[r].kind = "delete"
                            /\ req[r].user \notin users
                            /\ req[r].tgt \in Admins]_vars

(* The removal of an account is in the audit log or on its way there.  It  *)
(* is missing only when its author was removed before the row was written, *)
(* or when the process stopped between the two transactions.               *)
RemovalsAreAudited ==
  restarts = 0 =>
    \A u \in Gone :
      \/ u \in audited
      \/ \E r \in Requests : req[r].kind = "audit" /\ req[r].tgt = u
      \/ \E v \in Gone \ {u} : role[v] = "admin"
=============================================================================
