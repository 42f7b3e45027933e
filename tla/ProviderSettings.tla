-------------------------- MODULE ProviderSettings --------------------------
(***************************************************************************)
(* The providers of one type: their configuration in table providers and   *)
(* their credentials in table provider_secrets, which an update writes in  *)
(* two transactions, after an await for the test call.                     *)
(*                                                                         *)
(* A provider is switched on only after a read-only call with what is      *)
(* about to be saved was answered.  The handler works out what that is     *)
(* from the credentials it reads before the call; SecretStore.update works *)
(* it out again from those it reads after it.                              *)
(***************************************************************************)
EXTENDS Naturals, FiniteSets

CONSTANTS
  Providers,   \* ids of the providers of this type
  Template,    \* the one every start seeds
  Configs,     \* what config_json can hold
  Blank,       \* the configuration of a seeded or a new provider
  Fields,      \* credential fields of the type
  Values,      \* what a field can hold
  None,        \* a field that is absent; in a payload: left alone
  Clear,       \* in a payload: named in clear_credentials
  Accepted,    \* the <<configuration, credentials>> the remote side accepts
  Edited,      \* the providers somebody edits
  Payloads,    \* the credentials somebody sends
  Requests,
  MaxRestarts

Credentials == [Fields -> Values \cup {None}]
Payload == [Fields -> Values \cup {None, Clear}]
Nothing == [f \in Fields |-> None]

ASSUME SettingsAssumption ==
  /\ Template \in Providers
  /\ Blank \in Configs
  /\ None \notin Values /\ Clear \notin Values /\ None # Clear
  /\ Accepted \subseteq Configs \X Credentials
  /\ Edited \subseteq Providers
  /\ Payloads \subseteq Payload
  /\ MaxRestarts \in Nat

VARIABLES
  provs,     \* the rows of table providers
  enabled,   \* those that are switched on
  config,    \* providers.config_json
  creds,     \* provider_secrets, decrypted; Nothing when there is no row
  unused,    \* uuids not handed out yet
  restarts,
  req        \* what each handler carries over an await or a transaction

vars == <<provs, enabled, config, creds, unused, restarts, req>>
store == <<provs, enabled, config, creds, unused, restarts>>

Idle == [kind |-> "idle"]

\* test: the call is out; save: its answer was good; secrets: config written
Update == [kind: {"test", "save", "secrets"}, p: Providers, on: BOOLEAN,
           config: Configs, payload: Payload, read: Credentials]

Delete == [kind: {"delete"}, p: Providers]

Request == {Idle} \cup Update \cup Delete

Free(r) == req[r] = Idle

(* update_provider is a coroutine: from one await to the next no other     *)
(* coroutine runs, only the handlers of the thread pool do.                *)
LoopFree(r) == \A o \in Requests \ {r} : req[o].kind \notin {"save", "secrets"}
Keep(r, q) == req' = [req EXCEPT ![r] = q]
Done(r) == Keep(r, Idle)

(* SecretStore.update: clear, then take over what is not blank.            *)
Stored(current, payload) ==
  [f \in Fields |-> CASE payload[f] = None  -> current[f]
                      [] payload[f] = Clear -> None
                      [] OTHER              -> payload[f]]

\* only the fields of the payload are tested
BugEffectivePayload(current, payload) ==
  [f \in Fields |-> IF payload[f] \in Values THEN payload[f] ELSE None]

(* effective_credentials in update_provider: what the test call is given.  *)
Effective(current, payload) ==
  [f \in Fields |-> IF payload[f] \in Values THEN payload[f]
                    ELSE IF payload[f] = Clear THEN None ELSE current[f]]

Works(p) == <<config[p], creds[p]>> \in Accepted

-----------------------------------------------------------------------------
Init ==
  /\ provs = {Template}
  /\ enabled = {}
  /\ config = [p \in Providers |-> Blank]
  /\ creds = [p \in Providers |-> Nothing]
  /\ unused = Providers \ {Template}
  /\ restarts = 0
  /\ req = [r \in Requests |-> Idle]

(* POST /api/providers: another one of the type, off and blank.            *)
CreateProvider(r, p) ==
  /\ Free(r)
  /\ p \in unused
  /\ provs' = provs \cup {p}
  /\ unused' = unused \ {p}
  /\ UNCHANGED <<enabled, config, creds, restarts, req>>

(* PATCH /api/providers/{p} up to its await, or up to its first            *)
(* transaction when it does not switch the provider on.                    *)
StartUpdate(r, p, on, c, payload) ==
  /\ Free(r)
  /\ LoopFree(r)
  /\ p \in provs
  /\ Keep(r, [kind |-> IF on THEN "test" ELSE "save", p |-> p, on |-> on,
              config |-> c, payload |-> payload,
              read |-> IF on THEN creds[p] ELSE Nothing])
  /\ UNCHANGED store

Tested(q) == <<q.config, Effective(q.read, q.payload)>> \in Accepted

(* test_one answers: saved on success, refused otherwise.                  *)
TestAnswers(r) ==
  /\ req[r].kind = "test"
  /\ LoopFree(r)
  /\ IF Tested(req[r]) THEN Keep(r, [req[r] EXCEPT !.kind = "save"]) ELSE Done(r)
  /\ UNCHANGED store

(* The transaction on table providers; no row is no error.                 *)
SaveConfig(r) ==
  LET q == req[r]
  IN  /\ q.kind = "save"
      /\ IF q.p \in provs
           THEN /\ config' = [config EXCEPT ![q.p] = q.config]
                /\ enabled' = IF q.on THEN enabled \cup {q.p} ELSE enabled \ {q.p}
           ELSE UNCHANGED <<config, enabled>>
      /\ Keep(r, [q EXCEPT !.kind = "secrets"])
      /\ UNCHANGED <<provs, creds, unused, restarts>>

\* no foreign key on provider_secrets
BugHasRow(p) == TRUE

HasRow(p) == p \in provs

(* SecretStore.update, on its own copy of what is stored by now.  The      *)
(* foreign key refuses secrets of a provider that has been removed.        *)
SaveSecrets(r) ==
  LET q == req[r]
  IN  /\ q.kind = "secrets"
      /\ creds' = IF HasRow(q.p)
                    THEN [creds EXCEPT ![q.p] = Stored(creds[q.p], q.payload)]
                    ELSE creds
      /\ Done(r)
      /\ UNCHANGED <<provs, enabled, config, unused, restarts>>

(* DELETE /api/providers/{p}: not the last one of its type.                *)
CheckDelete(r, p) ==
  /\ Free(r)
  /\ p \in provs
  /\ Cardinality(provs) > 1
  /\ Keep(r, [kind |-> "delete", p |-> p])
  /\ UNCHANGED store

CommitDelete(r) ==
  LET p == req[r].p
  IN  /\ req[r].kind = "delete"
      /\ provs' = provs \ {p}
      /\ enabled' = enabled \ {p}
      /\ config' = [config EXCEPT ![p] = Blank]
      /\ creds' = [creds EXCEPT ![p] = Nothing]
      /\ Done(r)
      /\ UNCHANGED <<unused, restarts>>

(* The process stops and starts: requests in flight are lost, and the      *)
(* seeding brings the template back if it was deleted.                     *)
Restart ==
  /\ restarts < MaxRestarts
  /\ restarts' = restarts + 1
  /\ provs' = provs \cup {Template}
  /\ req' = [r \in Requests |-> Idle]
  /\ UNCHANGED <<enabled, config, creds, unused>>

Next ==
  \/ \E r \in Requests, p \in Providers : CreateProvider(r, p) \/ CheckDelete(r, p)
  \/ \E r \in Requests, p \in Edited, on \in BOOLEAN, c \in Configs :
       \E payload \in Payloads : StartUpdate(r, p, on, c, payload)
  \/ \E r \in Requests :
       TestAnswers(r) \/ SaveConfig(r) \/ SaveSecrets(r) \/ CommitDelete(r)
  \/ Restart

Spec == Init /\ [][Next]_vars

-----------------------------------------------------------------------------
(* Types, and what the foreign key of provider_secrets with its cascade    *)
(* promises: no credentials of a provider that is gone lie in wait for the *)
(* next row with its id, such as the template a restart seeds again.       *)
TypeOK ==
  /\ enabled \subseteq provs
  /\ provs \subseteq Providers
  /\ config \in [Providers -> Configs]
  /\ creds \in [Providers -> Credentials]
  /\ \A p \in Providers \ provs : creds[p] = Nothing
  /\ unused \subseteq Providers
  /\ restarts \in 0..MaxRestarts
  /\ req \in [Requests -> Request]

(* A provider that is on rests with a configuration and credentials the    *)
(* remote side accepts ...                                                 *)
Unsound(p) ==
  /\ p \in enabled
  /\ ~Works(p)
  /\ \A r \in Requests : req[r].kind = "secrets" => req[r].p # p

(* ... until an update adds its fields to credentials that another update  *)
(* stored while the test call was out, or the process stops between the    *)
(* two transactions of an update.  No update on its own leaves behind what *)
(* was not tested.                                                         *)
OnlyAnOverlapSavesUntested ==
  [][\A p \in Providers :
       (~Unsound(p) /\ Unsound(p)') =>
          \/ restarts' # restarts
          \/ \E r \in Requests :
               /\ req[r].kind = "secrets" /\ req[r].p = p
               /\ creds[p] # req[r].read]_vars
=============================================================================
