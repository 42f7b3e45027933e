----------------------- MODULE ProviderSettingsProofs -----------------------
(***************************************************************************)
(* Proofs about ProviderSettings, for every number of providers, fields    *)
(* and requests in flight: types, and what an update leaves behind.        *)
(***************************************************************************)
EXTENDS ProviderSettings, TLAPS

(* What a request of each kind carries.                                    *)
LEMMA RequestFields ==
  ASSUME NEW q \in Request
  PROVE  /\ q.kind \in {"test", "save", "secrets"} => q \in Update
         /\ q.kind = "delete" => q \in Delete
BY DEF Request, Idle, Update, Delete

(* Whatever the payload leaves of the stored credentials are credentials.  *)
LEMMA StoredTyping ==
  ASSUME NEW current \in Credentials, NEW payload \in Payload
  PROVE  Stored(current, payload) \in Credentials
BY DEF Stored, Credentials, Payload

LEMMA NothingTyping == Nothing \in Credentials
BY DEF Nothing, Credentials

LEMMA KeepTyping ==
  ASSUME TypeOK, NEW r \in Requests, NEW q \in Request, Keep(r, q)
  PROVE  (req \in [Requests -> Request])'
BY DEF TypeOK, Keep

LEMMA TypeInit == Init => TypeOK
BY SettingsAssumption, NothingTyping DEF Init, TypeOK, Request

LEMMA TypeStep == TypeOK /\ [Next]_vars => TypeOK'
<1> SUFFICES ASSUME TypeOK, [Next]_vars
             PROVE  TypeOK'
  OBVIOUS
<1>0. /\ \A r \in Requests : req[r] \in Request
      /\ Idle \in Request
  BY DEF TypeOK, Request
<1>1. ASSUME NEW r \in Requests, NEW p \in Providers, CreateProvider(r, p)
      PROVE  TypeOK'
  BY <1>1 DEF TypeOK, CreateProvider
<1>2. ASSUME NEW r \in Requests, NEW p \in Providers, CheckDelete(r, p)
      PROVE  TypeOK'
  <2>1. [kind |-> "delete", p |-> p] \in Request
    BY DEF Request, Delete
  <2>2. (req \in [Requests -> Request])'
    BY <1>2, <2>1, KeepTyping DEF CheckDelete
  <2> QED BY <1>2, <2>2 DEF TypeOK, CheckDelete, store
<1>3. ASSUME NEW r \in Requests, NEW p \in Edited, NEW on \in BOOLEAN,
             NEW c \in Configs, NEW payload \in Payloads,
             StartUpdate(r, p, on, c, payload)
      PROVE  TypeOK'
  <2>1. creds[p] \in Credentials /\ payload \in Payload /\ p \in Providers
    BY SettingsAssumption DEF TypeOK
  <2>2. [kind |-> IF on THEN "test" ELSE "save", p |-> p, on |-> on,
         config |-> c, payload |-> payload,
         read |-> IF on THEN creds[p] ELSE Nothing] \in Request
    BY <2>1, NothingTyping DEF Request, Update
  <2>3. (req \in [Requests -> Request])'
    BY <1>3, <2>2, KeepTyping DEF StartUpdate
  <2> QED BY <1>3, <2>3 DEF TypeOK, StartUpdate, store
<1>4. ASSUME NEW r \in Requests, TestAnswers(r)
      PROVE  TypeOK'
  <2>1. req[r] \in Update
    BY <1>0, <1>4, RequestFields DEF TestAnswers
  <2>2. [req[r] EXCEPT !.kind = "save"] \in Request
    BY <2>1 DEF Request, Update
  <2>3. (req \in [Requests -> Request])'
    BY <1>0, <1>4, <2>2, KeepTyping DEF TestAnswers, Done
  <2> QED BY <1>4, <2>3 DEF TypeOK, TestAnswers, store
<1>5. ASSUME NEW r \in Requests, SaveConfig(r)
      PROVE  TypeOK'
  <2>1. req[r] \in Update
    BY <1>0, <1>5, RequestFields DEF SaveConfig
  <2>2. [req[r] EXCEPT !.kind = "secrets"] \in Request
    BY <2>1 DEF Request, Update
  <2>3. (req \in [Requests -> Request])'
    BY <1>5, <2>2, KeepTyping DEF SaveConfig
  <2>4. req[r].config \in Configs
    BY <2>1 DEF Update
  <2> QED BY <1>5, <2>3, <2>4 DEF TypeOK, SaveConfig
<1>6. ASSUME NEW r \in Requests, SaveSecrets(r)
      PROVE  TypeOK'
  <2>1. req[r] \in Update
    BY <1>0, <1>6, RequestFields DEF SaveSecrets
  <2>2. CASE HasRow(req[r].p)
    <3>1. req[r].p \in provs /\ req[r].payload \in Payload
      BY <2>1, <2>2 DEF HasRow, Update
    <3>2. Stored(creds[req[r].p], req[r].payload) \in Credentials
      BY <3>1, StoredTyping DEF TypeOK
    <3>3. creds' = [creds EXCEPT ![req[r].p] = Stored(creds[req[r].p], req[r].payload)]
      BY <1>6, <2>2 DEF SaveSecrets
    <3> QED
      BY <1>0, <1>6, <3>1, <3>2, <3>3, KeepTyping DEF TypeOK, SaveSecrets, Done
  <2>3. CASE ~HasRow(req[r].p)
    BY <1>0, <1>6, <2>3, KeepTyping DEF TypeOK, SaveSecrets, Done
  <2> QED BY <2>2, <2>3
<1>7. ASSUME NEW r \in Requests, CommitDelete(r)
      PROVE  TypeOK'
  <2>1. req[r].p \in Providers
    BY <1>0, <1>7, RequestFields DEF CommitDelete, Delete
  <2> QED
    BY <1>0, <1>7, <2>1, KeepTyping, NothingTyping, SettingsAssumption
       DEF TypeOK, CommitDelete, Done
<1>8. CASE Restart
  BY <1>0, <1>8, SettingsAssumption DEF TypeOK, Restart
<1>9. CASE UNCHANGED vars
  BY <1>9 DEF TypeOK, vars
<1> QED
  BY <1>1, <1>2, <1>3, <1>4, <1>5, <1>6, <1>7, <1>8, <1>9 DEF Next

(* Types hold in every behaviour, and with them: a provider that is gone   *)
(* is off and has no credentials, whatever update was under way.           *)
THEOREM TypeCorrect == Spec => []TypeOK
BY TypeInit, TypeStep, PTL DEF Spec

-----------------------------------------------------------------------------
Saving(r) == req[r].kind \in {"save", "secrets"}

(* What the properties of the steps rest on.  The event loop lets one      *)
(* update at a time through its two transactions; an update that switches  *)
(* a provider on gets there with what the remote side accepted; between    *)
(* its transactions the row, if it is still there, is the one it wrote,    *)
(* because an id is not handed out again.  A removal counted more than one.*)
UpdatesInOrder ==
  /\ provs \cap unused = {} /\ Template \notin unused
  /\ \A r, o \in Requests : Saving(r) /\ Saving(o) => r = o
  /\ \A r \in Requests :
       /\ req[r].kind \in {"test", "save", "secrets"} => req[r].p \notin unused
       /\ Saving(r) /\ req[r].on => Tested(req[r])
       /\ req[r].kind = "secrets" /\ req[r].p \in provs =>
            config[req[r].p] = req[r].config /\ (req[r].p \in enabled => req[r].on)

LEMMA OrderInit == Init => UpdatesInOrder
BY DEF Init, UpdatesInOrder, Saving, Idle

LEMMA OrderStep == TypeOK /\ UpdatesInOrder /\ [Next]_vars => UpdatesInOrder'
<1> SUFFICES ASSUME TypeOK, UpdatesInOrder, [Next]_vars
             PROVE  UpdatesInOrder'
  OBVIOUS
<1>0. \A r \in Requests : req[r] \in Request
  BY DEF TypeOK
<1>1. ASSUME NEW r \in Requests, NEW p \in Providers, CreateProvider(r, p)
      PROVE  UpdatesInOrder'
  BY <1>1 DEF UpdatesInOrder, CreateProvider, Saving, Tested
<1>2. ASSUME NEW r \in Requests, NEW p \in Providers, CheckDelete(r, p)
      PROVE  UpdatesInOrder'
  BY <1>2 DEF TypeOK, UpdatesInOrder, CheckDelete, Keep, store, Saving, Tested
<1>3. ASSUME NEW r \in Requests, NEW p \in Edited, NEW on \in BOOLEAN,
             NEW c \in Configs, NEW payload \in Payloads,
             StartUpdate(r, p, on, c, payload)
      PROVE  UpdatesInOrder'
  <2> DEFINE q == [kind |-> IF on THEN "test" ELSE "save", p |-> p, on |-> on,
                   config |-> c, payload |-> payload,
                   read |-> IF on THEN creds[p] ELSE Nothing]
  <2>1. /\ req' = [req EXCEPT ![r] = q]
        /\ UNCHANGED store
        /\ p \in provs
        /\ \A o \in Requests \ {r} : ~Saving(o)
    BY <1>3 DEF StartUpdate, Keep, LoopFree, Saving
  <2>2. /\ q.p = p /\ q.on = on /\ q.kind \in {"test", "save"}
        /\ q.kind = "save" => ~q.on
    OBVIOUS
  <2> HIDE DEF q
  <2> QED BY <2>1, <2>2 DEF TypeOK, UpdatesInOrder, store, Saving, Tested
<1>4. ASSUME NEW r \in Requests, TestAnswers(r)
      PROVE  UpdatesInOrder'
  <2>1. req[r] \in Update
    BY <1>0, <1>4, RequestFields DEF TestAnswers
  <2>2. CASE Tested(req[r])
    <3> DEFINE q == [req[r] EXCEPT !.kind = "save"]
    <3>1. req' = [req EXCEPT ![r] = q] /\ UNCHANGED store
      BY <1>4, <2>2 DEF TestAnswers, Keep
    <3>2. q.kind = "save" /\ q.p = req[r].p /\ q.on = req[r].on /\ Tested(q)
      BY <2>1, <2>2 DEF Update, Tested
    <3>3. \A o \in Requests \ {r} : ~Saving(o)
      BY <1>4 DEF TestAnswers, LoopFree, Saving
    <3> HIDE DEF q
    <3> QED BY <1>4, <3>1, <3>2, <3>3 DEF TestAnswers, TypeOK, UpdatesInOrder, store, Saving
  <2>3. CASE ~Tested(req[r])
    BY <1>4, <2>3 DEF TestAnswers, Done, Keep, Idle, TypeOK, UpdatesInOrder, store, Saving, Tested
  <2> QED BY <2>2, <2>3
<1>5. ASSUME NEW r \in Requests, SaveConfig(r)
      PROVE  UpdatesInOrder'
  <2> DEFINE q == [req[r] EXCEPT !.kind = "secrets"]
  <2>1. req[r] \in Update /\ req[r].kind = "save"
    BY <1>0, <1>5, RequestFields DEF SaveConfig
  <2>2. /\ q.kind = "secrets" /\ q.p = req[r].p /\ q.on = req[r].on
        /\ q.config = req[r].config /\ Tested(q) = Tested(req[r])
    BY <2>1 DEF Update, Tested
  <2>3. /\ req' = [req EXCEPT ![r] = q]
        /\ UNCHANGED <<provs, unused>>
    BY <1>5 DEF SaveConfig, Keep
  <2>4. \A o \in Requests \ {r} : ~Saving(o)
    BY <2>1 DEF UpdatesInOrder, Saving
  <2>5. q.p \in provs => config'[q.p] = q.config /\ (q.p \in enabled' => q.on)
    BY <1>5, <2>1, <2>2 DEF SaveConfig, TypeOK, Update
  <2> HIDE DEF q
  <2> QED BY <2>1, <2>2, <2>3, <2>4, <2>5 DEF TypeOK, UpdatesInOrder, Saving
<1>6. ASSUME NEW r \in Requests, SaveSecrets(r)
      PROVE  UpdatesInOrder'
  BY <1>6 DEF SaveSecrets, Done, Keep, Idle, TypeOK, UpdatesInOrder, Saving, Tested
<1>7. ASSUME NEW r \in Requests, CommitDelete(r)
      PROVE  UpdatesInOrder'
  <2>1. /\ provs' = provs \ {req[r].p} /\ unused' = unused
        /\ enabled' \subseteq enabled
        /\ \A p \in provs' : config'[p] = config[p]
        /\ req' = [req EXCEPT ![r] = Idle]
    BY <1>7 DEF CommitDelete, Done, Keep, TypeOK
  <2> QED BY <2>1 DEF TypeOK, UpdatesInOrder, Saving, Tested, Idle
<1>8. CASE Restart
  BY <1>8 DEF Restart, UpdatesInOrder, Saving, Idle
<1>9. CASE UNCHANGED vars
  BY <1>9 DEF UpdatesInOrder, vars, Saving, Tested
<1> QED
  BY <1>1, <1>2, <1>3, <1>4, <1>5, <1>6, <1>7, <1>8, <1>9 DEF Next

-----------------------------------------------------------------------------
(* What is saved is what was tested, if nothing was stored in between.     *)
LEMMA StoredIsEffective ==
  ASSUME NEW current, NEW payload \in Payload
  PROVE  Stored(current, payload) = Effective(current, payload)
BY SettingsAssumption DEF Stored, Effective, Payload

(* A step that leaves the rows of p alone and ends no update of it leaves  *)
(* p as sound as it was.                                                   *)
LEMMA StaysSound ==
  ASSUME NEW p \in Providers, ~Unsound(p),
         p \in enabled' => p \in enabled,
         p \in enabled' => config'[p] = config[p] /\ creds'[p] = creds[p],
         \A r \in Requests :
           req[r].kind = "secrets" /\ req[r].p = p => req'[r] = req[r]
  PROVE  ~Unsound(p)'
BY DEF Unsound, Works

LEMMA SavesTested ==
  ASSUME TypeOK, UpdatesInOrder, NEW r \in Requests, SaveSecrets(r),
         NEW p \in Providers, req[r].p = p, creds[p] = req[r].read
  PROVE  ~Unsound(p)'
<1>1. req[r] \in Update /\ req[r].kind = "secrets"
  BY RequestFields DEF TypeOK, SaveSecrets
<1>2. enabled' = enabled /\ config' = config
  BY DEF SaveSecrets
<1>3. CASE p \in enabled
  <2>1. p \in provs
    BY <1>3 DEF TypeOK
  <2>2. Tested(req[r]) /\ config[p] = req[r].config
    BY <1>1, <1>3, <2>1 DEF UpdatesInOrder, Saving
  <2>3. creds'[p] = Stored(creds[p], req[r].payload)
    BY <2>1 DEF SaveSecrets, HasRow, TypeOK
  <2>4. creds'[p] = Effective(req[r].read, req[r].payload)
    BY <1>1, <2>3, StoredIsEffective DEF Update
  <2> QED BY <1>2, <2>2, <2>4 DEF Unsound, Works, Tested
<1>4. CASE p \notin enabled
  BY <1>2, <1>4 DEF Unsound
<1> QED BY <1>3, <1>4

LEMMA UntestedStep ==
  ASSUME TypeOK, UpdatesInOrder, [Next]_vars, NEW p \in Providers,
         ~Unsound(p), Unsound(p)', restarts' = restarts
  PROVE  \E r \in Requests :
           req[r].kind = "secrets" /\ req[r].p = p /\ creds[p] # req[r].read
<1>0. \A r \in Requests : req[r] \in Request
  BY DEF TypeOK
<1>1. ASSUME NEW r \in Requests, req[r].kind # "secrets", NEW q, Keep(r, q)
      PROVE  \A o \in Requests : req[o].kind = "secrets" => req'[o] = req[o]
  BY <1>1 DEF Keep, TypeOK
<1>2. CASE UNCHANGED store /\ UNCHANGED req
  BY <1>2, StaysSound DEF store
<1>3. ASSUME NEW r \in Requests, NEW o \in Providers, CreateProvider(r, o)
      PROVE  FALSE
  BY <1>3, StaysSound DEF CreateProvider
<1>4. ASSUME NEW r \in Requests, req[r].kind # "secrets", NEW q, Keep(r, q),
             UNCHANGED store
      PROVE  FALSE
  BY <1>1, <1>4, StaysSound DEF store
<1>5. ASSUME NEW r \in Requests, NEW o \in Providers, CheckDelete(r, o)
      PROVE  FALSE
  BY <1>4, <1>5 DEF CheckDelete, Free, Idle
<1>6. ASSUME NEW r \in Requests, NEW o \in Edited, NEW on \in BOOLEAN,
             NEW c \in Configs, NEW payload \in Payloads,
             StartUpdate(r, o, on, c, payload)
      PROVE  FALSE
  BY <1>4, <1>6 DEF StartUpdate, Free, Idle
<1>7. ASSUME NEW r \in Requests, TestAnswers(r)
      PROVE  FALSE
  BY <1>4, <1>7 DEF TestAnswers, Done
<1>8. ASSUME NEW r \in Requests, SaveConfig(r)
      PROVE  FALSE
  <2>1. CASE req[r].p = p
    <3>1. req[r] \in Update
      BY <1>0, <1>8, RequestFields DEF SaveConfig
    <3>2. req'[r] = [req[r] EXCEPT !.kind = "secrets"]
      BY <1>8 DEF SaveConfig, Keep, TypeOK
    <3>3. req'[r].kind = "secrets" /\ req'[r].p = p
      BY <2>1, <3>1, <3>2 DEF Update
    <3> QED BY <3>3 DEF Unsound
  <2>2. CASE req[r].p # p
    <3>1. /\ p \in enabled' => p \in enabled
          /\ config'[p] = config[p] /\ creds' = creds
      BY <1>8, <2>2 DEF SaveConfig, TypeOK
    <3>2. \A o \in Requests : req[o].kind = "secrets" => req'[o] = req[o]
      BY <1>1, <1>8 DEF SaveConfig
    <3> QED BY <3>1, <3>2, StaysSound
  <2> QED BY <2>1, <2>2
<1>9. ASSUME NEW r \in Requests, SaveSecrets(r)
      PROVE  req[r].kind = "secrets" /\ req[r].p = p /\ creds[p] # req[r].read
  <2>1. CASE req[r].p = p
    BY <1>9, <2>1, SavesTested DEF SaveSecrets
  <2>2. CASE req[r].p # p
    <3>1. enabled' = enabled /\ config' = config /\ creds'[p] = creds[p]
      BY <1>9, <2>2 DEF SaveSecrets, TypeOK
    <3>2. \A o \in Requests : req[o].kind = "secrets" /\ req[o].p = p => req'[o] = req[o]
      BY <1>9, <2>2 DEF SaveSecrets, Done, Keep, TypeOK
    <3> QED BY <3>1, <3>2, StaysSound
  <2> QED BY <2>1, <2>2
<1>10. ASSUME NEW r \in Requests, CommitDelete(r)
       PROVE  FALSE
  <2>1. /\ p \in enabled' => p \in enabled
        /\ p \in enabled' => config'[p] = config[p] /\ creds'[p] = creds[p]
    BY <1>10 DEF CommitDelete, TypeOK
  <2>2. \A o \in Requests : req[o].kind = "secrets" => req'[o] = req[o]
    BY <1>1, <1>10 DEF CommitDelete, Done
  <2> QED BY <2>1, <2>2, StaysSound
<1>11. ~Restart
  BY SettingsAssumption DEF Restart, TypeOK
<1> QED
  BY <1>2, <1>3, <1>5, <1>6, <1>7, <1>8, <1>9, <1>10, <1>11 DEF Next, vars, store

(* A provider that is on comes to rest with something nobody tested only   *)
(* when an update adds to credentials that another one has stored since it *)
(* read them, or when the process stops between its two transactions.      *)
THEOREM SavedIsTested == Spec => OnlyAnOverlapSavesUntested
<1>1. TypeOK /\ UpdatesInOrder /\ [Next]_vars =>
        [\A p \in Providers :
           (~Unsound(p) /\ Unsound(p)') =>
              \/ restarts' # restarts
              \/ \E r \in Requests :
                   /\ req[r].kind = "secrets" /\ req[r].p = p
                   /\ creds[p] # req[r].read]_vars
  BY UntestedStep
<1> QED
  BY <1>1, TypeInit, TypeStep, OrderInit, OrderStep, PTL
     DEF Spec, OnlyAnOverlapSavesUntested

=============================================================================
