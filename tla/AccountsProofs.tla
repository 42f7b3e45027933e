---------------------------- MODULE AccountsProofs ----------------------------
(***************************************************************************)
(* Proofs about Accounts, for every number of accounts, sessions and       *)
(* requests in flight: types and references, the audit of removals, and    *)
(* the two properties of the steps that remove an account.                 *)
(***************************************************************************)
EXTENDS Accounts, TLAPS

(* The values the handlers write into req are requests.                    *)
LEMMA RequestTyping ==
  /\ Idle \in Request
  /\ \A u \in Users : [kind |-> "login", user |-> u] \in Request
  /\ \A u \in Users, t \in Tokens, ro \in Roles :
       [kind |-> "authed", user |-> u, tok |-> t, role |-> ro] \in Request
  /\ \A u, v \in Users : [kind |-> "delete", user |-> u, tgt |-> v] \in Request
  /\ \A q \in Request : q.kind = "delete" => [q EXCEPT !.kind = "audit"] \in Request
BY DEF Request, Idle

(* What a request of each kind carries.                                    *)
LEMMA RequestFields ==
  ASSUME NEW q \in Request
  PROVE  /\ q.kind \in {"login", "authed", "delete", "audit"} => q.user \in Users
         /\ q.kind = "authed" => q.role \in Roles
         /\ q.kind \in {"delete", "audit"} => q.tgt \in Users
BY DEF Request, Idle

LEMMA DoneTyping ==
  ASSUME TypeOK, NEW r \in Requests, Done(r)
  PROVE  (req \in [Requests -> Request])'
BY RequestTyping DEF TypeOK, Done, Keep

(* A new account keeps the types of the tables.                            *)
LEMMA AddTyping ==
  ASSUME TypeOK, NEW u \in Users, NEW ro \in Roles, AddUser(u, ro),
         (req \in [Requests -> Request])'
  PROVE  TypeOK'
BY DEF TypeOK, AddUser

-----------------------------------------------------------------------------
LEMMA TypeInit == Init => TypeOK
BY AccountsAssumption, RequestTyping DEF Init, TypeOK, Roles

LEMMA TypeStep == TypeOK /\ [Next]_vars => TypeOK'
<1> SUFFICES ASSUME TypeOK, [Next]_vars
             PROVE  TypeOK'
  OBVIOUS
<1>1. ASSUME NEW r \in Requests, NEW u \in Users, Setup(r, u)
      PROVE  TypeOK'
  <2>1. (req \in [Requests -> Request])'
    BY <1>1, RequestTyping DEF TypeOK, Setup, Keep
  <2> QED BY <1>1, <2>1, AddTyping DEF Setup, Roles
<1>2. ASSUME NEW r \in Requests, NEW u \in Users, Login(r, u)
      PROVE  TypeOK'
  BY <1>2, RequestTyping DEF TypeOK, Login, Keep, store
<1>3. ASSUME NEW r \in Requests, NEW u \in Users, CheckDelete(r, u)
      PROVE  TypeOK'
  <2>1. req[r].user \in Users
    BY <1>3, RequestFields DEF TypeOK, CheckDelete, Writes
  <2> QED BY <1>3, <2>1, RequestTyping DEF TypeOK, CheckDelete, Keep, store
<1>4. ASSUME NEW r \in Requests, NEW u \in Users, RemoveCable(r, u)
      PROVE  TypeOK'
  BY <1>4, DoneTyping DEF TypeOK, RemoveCable
<1>5. ASSUME NEW r \in Requests, NEW u \in Users, NEW ro \in Roles, CreateUser(r, u, ro)
      PROVE  TypeOK'
  BY <1>5, DoneTyping, AddTyping DEF CreateUser
<1>6. ASSUME NEW r \in Requests, OpenSession(r)
      PROVE  TypeOK'
  BY <1>6, DoneTyping DEF TypeOK, OpenSession
<1>7. ASSUME NEW r \in Requests, Logout(r)
      PROVE  TypeOK'
  BY <1>7, DoneTyping DEF TypeOK, Logout
<1>8. ASSUME NEW r \in Requests, DrawCable(r)
      PROVE  TypeOK'
  BY <1>8, DoneTyping DEF TypeOK, DrawCable
<1>9. ASSUME NEW r \in Requests, CommitDelete(r)
      PROVE  TypeOK'
  <2>1. CASE Removable(req[r].tgt)
    <3>1. (req \in [Requests -> Request])'
      BY <1>9, <2>1, RequestTyping DEF TypeOK, CommitDelete, Keep
    <3> QED BY <1>9, <2>1, <3>1 DEF TypeOK, CommitDelete, Removable, SessionsOf
  <2>2. CASE ~Removable(req[r].tgt)
    BY <1>9, <2>2, DoneTyping DEF TypeOK, CommitDelete
  <2> QED BY <2>1, <2>2
<1>10. ASSUME NEW r \in Requests, AuditDelete(r)
       PROVE  TypeOK'
  <2>1. req[r].tgt \in Users
    BY <1>10, RequestFields DEF TypeOK, AuditDelete
  <2> QED BY <1>10, <2>1, DoneTyping DEF TypeOK, AuditDelete
<1>11. ASSUME NEW r \in Requests, NEW s \in sessions, Authenticate(r, s)
       PROVE  TypeOK'
  <2>1. s.user \in Users /\ s.tok \in Tokens /\ role[s.user] \in Roles
    BY DEF TypeOK
  <2> QED BY <1>11, <2>1, RequestTyping DEF TypeOK, Authenticate, Keep, store
<1>12. ASSUME NEW s \in sessions, Expire(s)
       PROVE  TypeOK'
  BY <1>12 DEF TypeOK, Expire
<1>13. CASE CleanSessions
  BY <1>13 DEF TypeOK, CleanSessions
<1>14. CASE Restart
  BY <1>14, AccountsAssumption, RequestTyping DEF TypeOK, Restart
<1>15. CASE UNCHANGED vars
  BY <1>15 DEF TypeOK, vars
<1> QED
  BY <1>1, <1>2, <1>3, <1>4, <1>5, <1>6, <1>7, <1>8, <1>9, <1>10, <1>11, <1>12,
     <1>13, <1>14, <1>15 DEF Next

(* Types and references hold in every behaviour: no session and no cable   *)
(* names an account that is gone, however many requests overlap.           *)
THEOREM TypeCorrect == Spec => []TypeOK
BY TypeInit, TypeStep, PTL DEF Spec

-----------------------------------------------------------------------------
(* What RemovalsAreAudited and the last admin rest on: whoever is about to *)
(* remove an account was an admin when he authenticated, has had that role *)
(* since his account was made, and is somebody else than the one removed.  *)
(* An account in use is never handed out again.                            *)
ActorsAreAdmins ==
  /\ users \cap unused = {}
  /\ \A r \in Requests :
       /\ req[r].kind \in {"authed", "delete", "audit"} => req[r].user \notin unused
       /\ req[r].kind = "authed" => role[req[r].user] = req[r].role
       /\ req[r].kind \in {"delete", "audit"} =>
            role[req[r].user] = "admin" /\ req[r].user # req[r].tgt

LEMMA ActorsInit == Init => ActorsAreAdmins
BY DEF Init, ActorsAreAdmins, Idle

(* Steps that make no account and hand out no uuid, and leave requests as  *)
(* they are or idle.                                                       *)
LEMMA ActorsKept ==
  ASSUME TypeOK, ActorsAreAdmins,
         users' \subseteq users, unused' \subseteq unused, role' = role,
         \A r \in Requests : req'[r] = req[r] \/ req'[r] = Idle
  PROVE  ActorsAreAdmins'
BY DEF ActorsAreAdmins, Idle

(* A new account: nobody acts for it yet.                                  *)
LEMMA ActorsAdded ==
  ASSUME TypeOK, ActorsAreAdmins, NEW u \in Users, NEW ro \in Roles, AddUser(u, ro),
         \A r \in Requests : req'[r] = req[r] \/ req'[r].kind \in {"idle", "login"}
  PROVE  ActorsAreAdmins'
<1>1. users' \cap unused' = {}
  BY DEF ActorsAreAdmins, AddUser
<1>2. ASSUME NEW v \in Users, v \notin unused
      PROVE  role'[v] = role[v] /\ v \notin unused'
  BY <1>2 DEF TypeOK, AddUser
<1>3. \A r \in Requests : req[r] \in Request
  BY DEF TypeOK
<1>4. ASSUME NEW r \in Requests, req'[r] = req[r],
             req[r].kind \in {"authed", "delete", "audit"}
      PROVE  req[r].user \in Users /\ req[r].user \notin unused
  BY <1>3, <1>4, RequestFields DEF ActorsAreAdmins
<1> QED
  BY <1>1, <1>2, <1>4 DEF ActorsAreAdmins

LEMMA DoneKeeps ==
  ASSUME TypeOK, NEW r \in Requests, Done(r)
  PROVE  \A o \in Requests : req'[o] = req[o] \/ req'[o] = Idle
BY DEF TypeOK, Done, Keep

LEMMA ActorsStep == TypeOK /\ ActorsAreAdmins /\ [Next]_vars => ActorsAreAdmins'
<1> SUFFICES ASSUME TypeOK, ActorsAreAdmins, [Next]_vars
             PROVE  ActorsAreAdmins'
  OBVIOUS
<1>0. \A r \in Requests : req[r] \in Request
  BY DEF TypeOK
<1>1. ASSUME NEW r \in Requests, NEW u \in Users, Setup(r, u)
      PROVE  ActorsAreAdmins'
  <2>1. \A o \in Requests : req'[o] = req[o] \/ req'[o].kind \in {"idle", "login"}
    BY <1>1 DEF TypeOK, Setup, Keep
  <2> QED BY <1>1, <2>1, ActorsAdded DEF Setup, Roles
<1>2. ASSUME NEW r \in Requests, NEW u \in Users, Login(r, u)
      PROVE  ActorsAreAdmins'
  BY <1>2 DEF TypeOK, ActorsAreAdmins, Login, Keep, store
<1>3. ASSUME NEW r \in Requests, NEW u \in Users, CheckDelete(r, u)
      PROVE  ActorsAreAdmins'
  <2>1. /\ req[r].user \notin unused
        /\ role[req[r].user] = "admin"
        /\ req[r].user # u
    BY <1>3 DEF ActorsAreAdmins, CheckDelete, Writes
  <2> QED BY <1>3, <2>1 DEF TypeOK, ActorsAreAdmins, CheckDelete, Keep, store
<1>4. ASSUME NEW r \in Requests, NEW u \in Users, RemoveCable(r, u)
      PROVE  ActorsAreAdmins'
  BY <1>4, DoneKeeps, ActorsKept DEF RemoveCable
<1>5. ASSUME NEW r \in Requests, NEW u \in Users, NEW ro \in Roles, CreateUser(r, u, ro)
      PROVE  ActorsAreAdmins'
  <2>1. \A o \in Requests : req'[o] = req[o] \/ req'[o].kind \in {"idle", "login"}
    BY <1>5, DoneKeeps DEF CreateUser, Idle
  <2> QED BY <1>5, <2>1, ActorsAdded DEF CreateUser
<1>6. ASSUME NEW r \in Requests, OpenSession(r)
      PROVE  ActorsAreAdmins'
  <2>1. unused' \subseteq unused
    BY <1>6 DEF OpenSession
  <2> QED BY <1>6, <2>1, DoneKeeps, ActorsKept DEF OpenSession
<1>7. ASSUME NEW r \in Requests, Logout(r) \/ DrawCable(r) \/ AuditDelete(r)
      PROVE  ActorsAreAdmins'
  BY <1>7, DoneKeeps, ActorsKept DEF Logout, DrawCable, AuditDelete
<1>8. ASSUME NEW r \in Requests, CommitDelete(r)
      PROVE  ActorsAreAdmins'
  <2>1. CASE Removable(req[r].tgt)
    <3>1. /\ req[r].kind = "delete"
          /\ users' \subseteq users /\ UNCHANGED <<role, unused>>
          /\ req' = [req EXCEPT ![r] = [req[r] EXCEPT !.kind = "audit"]]
      BY <1>8, <2>1 DEF CommitDelete, Keep
    <3>2. req'[r].user = req[r].user /\ req'[r].tgt = req[r].tgt /\ req'[r].kind = "audit"
      BY <1>0, <3>1 DEF TypeOK, Request, Idle
    <3>3. \A o \in Requests \ {r} : req'[o] = req[o]
      BY <3>1 DEF TypeOK
    <3> QED BY <3>1, <3>2, <3>3 DEF ActorsAreAdmins
  <2>2. CASE ~Removable(req[r].tgt)
    BY <1>8, <2>2, DoneKeeps, ActorsKept DEF CommitDelete
  <2> QED BY <2>1, <2>2
<1>9. ASSUME NEW r \in Requests, NEW s \in sessions, Authenticate(r, s)
      PROVE  ActorsAreAdmins'
  <2>1. s.user \notin unused
    BY DEF TypeOK, ActorsAreAdmins
  <2> QED BY <1>9, <2>1 DEF TypeOK, ActorsAreAdmins, Authenticate, Keep, store
<1>10. ASSUME NEW s \in sessions, Expire(s)
       PROVE  ActorsAreAdmins'
  BY <1>10, ActorsKept DEF Expire
<1>11. CASE CleanSessions
  BY <1>11, ActorsKept DEF CleanSessions
<1>12. CASE Restart
  BY <1>12, ActorsKept DEF Restart
<1>13. CASE UNCHANGED vars
  BY <1>13, ActorsKept DEF vars
<1> QED
  BY <1>1, <1>2, <1>3, <1>4, <1>5, <1>6, <1>7, <1>8, <1>9, <1>10, <1>11, <1>12,
     <1>13 DEF Next

-----------------------------------------------------------------------------
(* Steps that remove no account and end no audit keep every account that   *)
(* is gone accounted for.                                                  *)
LEMMA AuditKept ==
  ASSUME TypeOK, RemovalsAreAudited, restarts' = restarts, audited' = audited,
         Gone' = Gone, \A u \in Gone : role'[u] = role[u],
         \A r \in Requests : req[r].kind = "audit" => req'[r] = req[r]
  PROVE  RemovalsAreAudited'
BY DEF RemovalsAreAudited

(* No account disappears when none is removed and no uuid handed out.      *)
LEMMA GoneKept ==
  ASSUME users' = users, unused' \cap Users = unused \cap Users
  PROVE  Gone' = Gone
BY DEF Gone

(* A new account was never there before.                                   *)
LEMMA GoneAdded ==
  ASSUME TypeOK, NEW u \in Users, NEW ro \in Roles, AddUser(u, ro)
  PROVE  Gone' = Gone /\ \A v \in Gone : role'[v] = role[v]
BY DEF TypeOK, AddUser, Gone

(* A handler that is not writing its audit row leaves those that are.      *)
LEMMA AuditsInFlight ==
  ASSUME TypeOK, NEW r \in Requests, req[r].kind # "audit", NEW q, Keep(r, q)
  PROVE  \A o \in Requests : req[o].kind = "audit" => req'[o] = req[o]
BY DEF TypeOK, Keep

LEMMA AuditInit == Init => RemovalsAreAudited
BY DEF Init, RemovalsAreAudited, Gone

LEMMA AuditStep ==
  TypeOK /\ ActorsAreAdmins /\ RemovalsAreAudited /\ [Next]_vars => RemovalsAreAudited'
<1> SUFFICES ASSUME TypeOK, ActorsAreAdmins, RemovalsAreAudited, [Next]_vars
             PROVE  RemovalsAreAudited'
  OBVIOUS
<1>0. \A r \in Requests : req[r] \in Request
  BY DEF TypeOK
<1>1. ASSUME NEW r \in Requests, NEW u \in Users, Setup(r, u)
      PROVE  RemovalsAreAudited'
  <2>1. req[r].kind # "audit" /\ restarts' = restarts /\ audited' = audited
    BY <1>1 DEF Setup, Free, Idle, AddUser
  <2> QED
    BY <1>1, <2>1, AuditsInFlight, GoneAdded, AuditKept DEF Setup, Roles
<1>2. ASSUME NEW r \in Requests, NEW u \in Users, NEW ro \in Roles, CreateUser(r, u, ro)
      PROVE  RemovalsAreAudited'
  <2>1. req[r].kind # "audit" /\ restarts' = restarts /\ audited' = audited
    BY <1>2 DEF CreateUser, Writes, AddUser
  <2> QED
    BY <1>2, <2>1, AuditsInFlight, GoneAdded, AuditKept DEF CreateUser, Done
<1>3. ASSUME NEW r \in Requests, NEW u \in Users,
             Login(r, u) \/ CheckDelete(r, u) \/ RemoveCable(r, u)
      PROVE  RemovalsAreAudited'
  <2>1. /\ req[r].kind # "audit"
        /\ UNCHANGED <<users, unused, role, audited, restarts>>
        /\ \E q : Keep(r, q)
    BY <1>3 DEF Login, CheckDelete, RemoveCable, Free, Writes, Idle, store, Done
  <2> QED
    BY <2>1, AuditsInFlight, GoneKept, AuditKept
<1>4. ASSUME NEW r \in Requests, OpenSession(r) \/ Logout(r) \/ DrawCable(r)
      PROVE  RemovalsAreAudited'
  <2>1. /\ req[r].kind # "audit"
        /\ UNCHANGED <<users, role, audited, restarts>>
        /\ Keep(r, Idle)
    BY <1>4 DEF OpenSession, Logout, DrawCable, Writes, Done
  <2>2. unused' \cap Users = unused \cap Users
    BY <1>4, AccountsAssumption DEF OpenSession, Logout, DrawCable
  <2> QED
    BY <2>1, <2>2, AuditsInFlight, GoneKept, AuditKept
<1>5. ASSUME NEW r \in Requests, NEW s \in sessions, Authenticate(r, s)
      PROVE  RemovalsAreAudited'
  <2>1. /\ req[r].kind # "audit"
        /\ UNCHANGED <<users, unused, role, audited, restarts>>
        /\ \E q : Keep(r, q)
    BY <1>5 DEF Authenticate, Free, Idle, store
  <2> QED
    BY <2>1, AuditsInFlight, GoneKept, AuditKept
<1>6. ASSUME NEW r \in Requests, CommitDelete(r)
      PROVE  RemovalsAreAudited'
  <2>1. CASE Removable(req[r].tgt)
    <3>1. /\ req[r].kind = "delete"
          /\ users' = users \ {req[r].tgt}
          /\ UNCHANGED <<role, audited, unused, restarts>>
          /\ req' = [req EXCEPT ![r] = [req[r] EXCEPT !.kind = "audit"]]
      BY <1>6, <2>1 DEF CommitDelete, Keep
    <3>2. req'[r].tgt = req[r].tgt /\ req'[r].kind = "audit"
      BY <1>0, <3>1 DEF TypeOK, Request, Idle
    <3>3. \A o \in Requests : req[o].kind = "audit" => req'[o] = req[o]
      BY <3>1 DEF TypeOK
    <3>4. Gone \subseteq Gone' /\ Gone' \subseteq Gone \cup {req[r].tgt}
      BY <3>1 DEF Gone
    <3> QED BY <3>1, <3>2, <3>3, <3>4 DEF RemovalsAreAudited
  <2>2. CASE ~Removable(req[r].tgt)
    <3>1. /\ req[r].kind # "audit"
          /\ UNCHANGED <<users, unused, role, audited, restarts>>
          /\ Keep(r, Idle)
      BY <1>6, <2>2 DEF CommitDelete, Done
    <3> QED BY <3>1, AuditsInFlight, GoneKept, AuditKept
  <2> QED BY <2>1, <2>2
<1>7. ASSUME NEW r \in Requests, AuditDelete(r)
      PROVE  RemovalsAreAudited'
  <2>1. /\ UNCHANGED <<users, unused, role, restarts>>
        /\ audited \subseteq audited'
        /\ \A o \in Requests \ {r} : req'[o] = req[o]
    BY <1>7 DEF AuditDelete, Done, Keep, TypeOK
  <2>2. Gone' = Gone
    BY <2>1, GoneKept
  <2>3. CASE req[r].user \in users
    BY <1>7, <2>1, <2>2, <2>3 DEF AuditDelete, RemovalsAreAudited
  <2>4. CASE req[r].user \notin users
    <3>1. req[r].user \in Users
      BY <1>0, <1>7, RequestFields DEF AuditDelete
    <3>2. /\ req[r].user \in Gone /\ role[req[r].user] = "admin"
          /\ req[r].user # req[r].tgt
      BY <1>7, <2>4, <3>1 DEF AuditDelete, ActorsAreAdmins, Gone
    <3> QED BY <2>1, <2>2, <3>2 DEF RemovalsAreAudited
  <2> QED BY <2>3, <2>4
<1>8. ASSUME NEW s \in sessions, Expire(s)
      PROVE  RemovalsAreAudited'
  BY <1>8, GoneKept, AuditKept DEF Expire
<1>9. CASE CleanSessions
  BY <1>9, GoneKept, AuditKept DEF CleanSessions
<1>10. CASE Restart
  BY <1>10 DEF Restart, RemovalsAreAudited, TypeOK
<1>11. CASE UNCHANGED vars
  BY <1>11, GoneKept, AuditKept DEF vars
<1> QED
  BY <1>1, <1>2, <1>3, <1>4, <1>5, <1>6, <1>7, <1>8, <1>9, <1>10, <1>11 DEF Next

(* As long as the process runs, an account that is gone is in the audit    *)
(* log, or its row is on its way, or another admin is gone too: an audit   *)
(* row is lost only with the account of its author.                        *)
THEOREM RemovalsAudited == Spec => []RemovalsAreAudited
<1>1. Init => TypeOK /\ ActorsAreAdmins /\ RemovalsAreAudited
  BY TypeInit, ActorsInit, AuditInit
<1>2. /\ TypeOK /\ ActorsAreAdmins /\ RemovalsAreAudited
      /\ [Next]_vars
      => (TypeOK /\ ActorsAreAdmins /\ RemovalsAreAudited)'
  BY TypeStep, ActorsStep, AuditStep
<1> QED BY <1>1, <1>2, PTL DEF Spec

-----------------------------------------------------------------------------
(* Only a delete takes an account away from those that exist, and roles    *)
(* do not change while an account exists.                                  *)
LEMMA AdminsKept ==
  ASSUME TypeOK, ActorsAreAdmins, [Next]_vars,
         ~ \E r \in Requests : CommitDelete(r)
  PROVE  Admins \subseteq Admins'
<1>1. ASSUME NEW u \in Users, NEW ro \in Roles, AddUser(u, ro)
      PROVE  Admins \subseteq Admins'
  BY <1>1 DEF TypeOK, ActorsAreAdmins, AddUser, Admins
<1>2. CASE \E r \in Requests, u \in Users : Setup(r, u)
  BY <1>1, <1>2 DEF Setup, Roles
<1>3. CASE \E r \in Requests, u \in Users, ro \in Roles : CreateUser(r, u, ro)
  BY <1>1, <1>3 DEF CreateUser
<1>4. CASE UNCHANGED <<users, role>>
  BY <1>4 DEF Admins
<1>5. CASE \E r \in Requests, u \in Users :
             Login(r, u) \/ CheckDelete(r, u) \/ RemoveCable(r, u)
  BY <1>4, <1>5 DEF Login, CheckDelete, RemoveCable, store
<1>6. CASE \E r \in Requests : \/ OpenSession(r) \/ Logout(r) \/ DrawCable(r)
                               \/ AuditDelete(r)
                               \/ \E s \in sessions : Authenticate(r, s)
  BY <1>4, <1>6 DEF OpenSession, Logout, DrawCable, AuditDelete, Authenticate, store
<1>7. CASE (\E s \in sessions : Expire(s)) \/ CleanSessions \/ Restart \/ UNCHANGED vars
  BY <1>4, <1>7 DEF Expire, CleanSessions, Restart, vars
<1> QED
  BY <1>2, <1>3, <1>5, <1>6, <1>7 DEF Next

LEMMA LastAdminStep ==
  ASSUME TypeOK, ActorsAreAdmins, [Next]_vars, Admins # {}, Admins' = {}
  PROVE  \E r \in Requests : /\ req[r].kind = "delete"
                             /\ req[r].user \notin users
                             /\ req[r].tgt \in Admins
<1>1. PICK r \in Requests : CommitDelete(r)
  BY AdminsKept
<1>2. req[r].kind = "delete" /\ role' = role
  BY <1>1 DEF CommitDelete
<1>3. Removable(req[r].tgt)
  BY <1>1, <1>2 DEF CommitDelete, Admins
<1>4. users' = users \ {req[r].tgt}
  BY <1>1, <1>3 DEF CommitDelete
<1>5. req[r].tgt \in Admins
  BY <1>2, <1>4 DEF Admins
<1>6. req[r].user \notin users
  BY <1>2, <1>4 DEF ActorsAreAdmins, Admins
<1> QED BY <1>2, <1>5, <1>6

(* However many requests overlap, the last admin is lost only when the     *)
(* admin who removes him has been removed meanwhile: admins who work one   *)
(* after the other can not lock themselves out.                            *)
THEOREM LastAdmin == Spec => LastAdminFallsOnlyToARace
<1>1. TypeOK /\ ActorsAreAdmins /\ [Next]_vars =>
        [(Admins # {} /\ Admins' = {}) =>
           \E r \in Requests : /\ req[r].kind = "delete"
                               /\ req[r].user \notin users
                               /\ req[r].tgt \in Admins]_vars
  BY LastAdminStep
<1> QED
  BY <1>1, TypeInit, TypeStep, ActorsInit, ActorsStep, PTL
     DEF Spec, LastAdminFallsOnlyToARace

=============================================================================
