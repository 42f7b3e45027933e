----------------------------- MODULE VaultProofs -----------------------------
(***************************************************************************)
(* Proofs about Vault, for every number of keys, rows, bundles, requests   *)
(* and restarts: bundles that open, which steps can part rows and key, and *)
(* the restore that is all or nothing.                                     *)
(***************************************************************************)
EXTENDS Vault, TLAPS

(* What a request of each kind is.                                         *)
LEMMA RequestKinds ==
  ASSUME NEW q \in Request
  PROVE  /\ q.kind \in {"read", "write"} => q \in Save
         /\ q.kind = "pack" => q \in Pack
         /\ q.kind = "check" => q \in Check
         /\ q.kind \in Stages => q \in Restore
         /\ q.kind \notin {"read", "write", "pack", "check"} \cup Stages => q = Idle
BY DEF Request, Idle, Save, Pack, Check, Restore, Stages

LEMMA KeepTyping ==
  ASSUME TypeOK, NEW r \in Requests, NEW q \in Request, Keep(r, q)
  PROVE  (req \in [Requests -> Request])'
BY DEF TypeOK, Keep

LEMMA BeginTyping ==
  ASSUME TypeOK, NEW r \in Requests, NEW q \in Request, Begin(r, q)
  PROVE  (req \in [Requests -> Request])'
<1>1. ASSUME NEW o \in Requests, req[o].kind \in Stages \cup {"pack", "check"}
      PROVE  [req[o] EXCEPT !.clean = FALSE] \in Request
  <2>1. req[o] \in Request
    BY DEF TypeOK
  <2>2. req[o] \in Pack \/ req[o] \in Check \/ req[o] \in Restore
    BY <1>1, <2>1, RequestKinds
  <2> QED BY <2>2 DEF Pack, Check, Restore, Request
<1> QED BY <1>1 DEF TypeOK, Begin

LEMMA UnlinkedTyping ==
  ASSUME TypeOK, NEW r \in Requests, NEW q \in Request, Unlinked(r, q)
  PROVE  (req \in [Requests -> Request])'
<1>1. ASSUME NEW o \in Requests, req[o].kind = "write"
      PROVE  [req[o] EXCEPT !.live = FALSE] \in Request
  <2>1. req[o] \in Save
    BY <1>1, RequestKinds DEF TypeOK
  <2> QED BY <2>1 DEF Save, Request
<1> QED BY <1>1 DEF TypeOK, Unlinked

(* The next stage of a restore.                                            *)
LEMMA StageTyping ==
  ASSUME NEW q \in Restore, NEW k \in Stages
  PROVE  [q EXCEPT !.kind = k] \in Request
BY DEF Restore, Request, Stages

-----------------------------------------------------------------------------
(* What a restore carries, once validated, fits together, whatever becomes *)
(* of the files: a bundle opens with its own key, only a bundle has its    *)
(* files swapped, and a legacy backup fits the key that was in place then. *)
Legit(q) ==
  /\ q.kind \in Stages \ {"safe"} => Opens(q.from)
  /\ q.kind \in {"database", "key", "undo"} => q.from.key # None
  /\ q.kind = "valid" /\ q.from.key = None => Fits(q.from.sealed, q.back.key)

CarriedFits == \A r \in Requests : Legit(req[r])

LEMMA IdleLegit == Legit(Idle)
BY DEF Legit, Idle, Stages

LEMMA KeepLegit ==
  ASSUME TypeOK, CarriedFits, NEW r \in Requests, NEW q, Legit(q), Keep(r, q)
  PROVE  CarriedFits'
BY DEF TypeOK, CarriedFits, Keep, Legit, Opens, Fits, Stages

LEMMA BeginLegit ==
  ASSUME TypeOK, CarriedFits, NEW r \in Requests, NEW q, Legit(q), Begin(r, q)
  PROVE  CarriedFits'
<1>1. ASSUME NEW o \in Requests, req[o].kind \in Stages \cup {"pack", "check"}
      PROVE  Legit([req[o] EXCEPT !.clean = FALSE])
  <2>1. req[o] \in Pack \/ req[o] \in Check \/ req[o] \in Restore
    BY <1>1, RequestKinds DEF TypeOK
  <2>2. Legit(req[o])
    BY DEF CarriedFits
  <2> QED BY <2>1, <2>2 DEF Legit, Pack, Check, Restore, Stages
<1>2. \A o \in Requests : Legit(req'[o])
  BY <1>1 DEF TypeOK, CarriedFits, Begin
<1> QED BY <1>2 DEF CarriedFits, Legit, Opens, Fits, Stages

LEMMA UnlinkedLegit ==
  ASSUME TypeOK, CarriedFits, NEW r \in Requests, NEW q, Legit(q), Unlinked(r, q)
  PROVE  CarriedFits'
<1>1. ASSUME NEW o \in Requests, req[o].kind = "write"
      PROVE  Legit([req[o] EXCEPT !.live = FALSE])
  <2>1. req[o] \in Save
    BY <1>1, RequestKinds DEF TypeOK
  <2> QED BY <2>1, <1>1 DEF Legit, Save, Stages
<1>2. \A o \in Requests : Legit(req'[o])
  BY <1>1 DEF TypeOK, CarriedFits, Unlinked
<1> QED BY <1>2 DEF CarriedFits, Legit, Opens, Fits, Stages

-----------------------------------------------------------------------------
(* Whatever is in the backup directory is a bundle or a legacy backup.     *)
LEMMA DirectoryTyping == TypeOK => Directory \subseteq Bundle
<1> SUFFICES ASSUME TypeOK, NEW r \in Requests, req[r].kind = "check"
             PROVE  req[r].bundle \in Bundle
  BY DEF Directory, TypeOK
<1>1. req[r] \in Check
  BY RequestKinds DEF TypeOK
<1> QED BY <1>1 DEF Check

LEMMA TypeInit == Init => TypeOK
BY VaultAssumption DEF Init, TypeOK, Empty, Sealed, Request

LEMMA TypeStep == TypeOK /\ CarriedFits /\ [Next]_vars => TypeOK'
<1> SUFFICES ASSUME TypeOK, CarriedFits, [Next]_vars
             PROVE  TypeOK'
  OBVIOUS
<1>0. /\ \A r \in Requests : req[r] \in Request
      /\ Idle \in Request
  BY DEF TypeOK, Request
<1>1. ASSUME NEW r \in Requests, NEW p \in Providers, ReadSecrets(r, p)
      PROVE  TypeOK'
  <2>1. [kind |-> "read", p |-> p, seal |-> fernet, live |-> TRUE] \in Request
    BY DEF TypeOK, Request, Save
  <2>2. (req \in [Requests -> Request])'
    BY <1>1, <2>1, BeginTyping DEF ReadSecrets
  <2> QED BY <1>1, <2>2 DEF TypeOK, ReadSecrets, files
<1>2. ASSUME NEW r \in Requests, NEW p \in Providers, DeleteProvider(r, p)
      PROVE  TypeOK'
  BY <1>2 DEF TypeOK, DeleteProvider, Sealed
<1>3. ASSUME NEW r \in Requests, SealSecrets(r)
      PROVE  TypeOK'
  <2>1. [req[r] EXCEPT !.kind = "write", !.seal = fernet] \in Request
    BY <1>0, <1>3, RequestKinds DEF TypeOK, SealSecrets, Save, Request
  <2>2. (req \in [Requests -> Request])'
    BY <1>3, <2>1, KeepTyping DEF SealSecrets
  <2> QED BY <1>3, <2>2 DEF TypeOK, SealSecrets, files
<1>4. ASSUME NEW r \in Requests, WriteSecrets(r)
      PROVE  TypeOK'
  <2>1. req[r] \in Save
    BY <1>0, <1>4, RequestKinds DEF WriteSecrets
  <2>2. sealed' \in Sealed
    BY <1>4, <2>1 DEF WriteSecrets, TypeOK, Sealed, Save
  <2>3. (req \in [Requests -> Request])'
    BY <1>0, <1>4, KeepTyping DEF WriteSecrets, Done
  <2> QED BY <1>4, <2>2, <2>3 DEF TypeOK, WriteSecrets
<1>5. ASSUME NEW r \in Requests, NEW t \in Bundle \cup {None}, CopyDatabase(r, t)
      PROVE  TypeOK'
  <2> DEFINE clean == Sound /\ \A o \in Requests \ {r} : Free(o)
  <2>1. [kind |-> "pack", copy |-> sealed, for |-> t, clean |-> clean] \in Request
    BY DEF TypeOK, Request, Pack
  <2>2. (req \in [Requests -> Request])'
    BY <1>5, <2>1, BeginTyping DEF CopyDatabase
  <2> QED BY <1>5, <2>2 DEF TypeOK, CopyDatabase, files
<1>6. ASSUME NEW r \in Requests, BackupDatabase(r)
      PROVE  TypeOK'
  BY <1>5, <1>6 DEF BackupDatabase
<1>7. ASSUME NEW r \in Requests, NEW b \in Directory, BeginRestore(r, b)
      PROVE  TypeOK'
  BY <1>5, <1>7, DirectoryTyping DEF BeginRestore
<1>8. ASSUME NEW r \in Requests, PackKey(r) \/ CheckBundle(r)
      PROVE  TypeOK'
  <2>1. CASE PackKey(r)
    <3> DEFINE q == req[r]
               bundle == [sealed |-> q.copy, key |-> keyFile]
    <3>1. q \in Pack
      BY <1>0, <2>1, RequestKinds DEF PackKey
    <3>2. bundle \in Bundle /\ q.for \in Bundle \cup {None} /\ q.clean \in BOOLEAN
      BY <3>1 DEF Pack, Bundle, TypeOK
    <3>3. Keep(r, [kind |-> "check", bundle |-> bundle, for |-> q.for, clean |-> q.clean])
      BY <2>1 DEF PackKey
    <3> HIDE DEF bundle, q
    <3>4. (req \in [Requests -> Request])'
      BY <3>2, <3>3, KeepTyping DEF Request, Check
    <3> QED BY <2>1, <3>4 DEF TypeOK, PackKey, files
  <2>2. CASE CheckBundle(r)
    <3> DEFINE q == req[r]
               back == [sealed |-> sealed, key |-> keyFile]
               next == [kind |-> "safe", from |-> q.for, clean |-> q.clean, back |-> back]
    <3>1. q \in Check
      BY <1>0, <2>2, RequestKinds DEF CheckBundle
    <3>2. q.bundle \in Bundle /\ q.for \in Bundle \cup {None} /\ q.clean \in BOOLEAN
      BY <3>1 DEF Check
    <3>3. back \in [sealed: Sealed, key: Keys]
      BY DEF TypeOK
    <3>4. /\ Done(r) \/ (q.for # None /\ Keep(r, next))
          /\ backups' = backups \/ (backups' = backups \cup {q.bundle} /\ Opens(q.bundle))
      BY <2>2 DEF CheckBundle, Packable
    <3>5. q.for # None => next \in Request
      <4> HIDE DEF back, q
      <4> QED BY <3>2, <3>3 DEF Request, Restore
    <3>6. (req \in [Requests -> Request])'
      <4> HIDE DEF next, q
      <4> QED BY <1>0, <3>4, <3>5, KeepTyping DEF Done
    <3> QED BY <2>2, <3>2, <3>4, <3>6 DEF TypeOK, CheckBundle
  <2> QED BY <1>8, <2>1, <2>2
<1>9. ASSUME NEW r \in Requests, NEW b \in Bundle, Import(r, b)
      PROVE  TypeOK'
  BY <1>9 DEF TypeOK, Import
<1>10. ASSUME NEW r \in Requests, NEW b \in Directory, Prune(r, b)
       PROVE  TypeOK'
  BY <1>10 DEF TypeOK, Prune
<1>11. ASSUME NEW r \in Requests, ValidateRestore(r)
       PROVE  TypeOK'
  <2>1. req[r] \in Restore
    BY <1>0, <1>11, RequestKinds DEF ValidateRestore, Stages
  <2>2. [req[r] EXCEPT !.kind = "valid", !.back = [sealed |-> sealed, key |-> keyFile]] \in Request
    BY <2>1 DEF Restore, Request, Bundle, TypeOK
  <2>3. (req \in [Requests -> Request])'
    BY <1>0, <1>11, <2>2, KeepTyping DEF ValidateRestore, Done
  <2> QED BY <1>11, <2>3 DEF TypeOK, ValidateRestore, files
<1>12. ASSUME NEW r \in Requests,
              \/ RestoreLegacy(r) \/ SwapDatabase(r) \/ SwapKey(r) \/ Reload(r)
              \/ Abandon(r) \/ UndoDatabase(r) \/ UndoKey(r)
       PROVE  TypeOK'
  <2>1. req[r] \in Restore /\ req[r].kind \in Stages
    BY <1>0, <1>12, RequestKinds DEF RestoreLegacy, SwapDatabase, SwapKey, Reload,
       Abandon, UndoDatabase, UndoKey, Stages
  <2>2. /\ req[r].from.sealed \in Sealed
        /\ req[r].kind \in {"database", "key", "undo"} => req[r].from.key \in Keys
        /\ req[r].back.sealed \in Sealed /\ req[r].back.key \in Keys
    BY <2>1 DEF Restore, Bundle, CarriedFits, Legit
  <2>3. \A k \in Stages : [req[r] EXCEPT !.kind = k] \in Request
    BY <2>1, StageTyping
  <2>4. /\ sealed' \in Sealed /\ keyFile' \in Keys /\ fernet' \in Keys
        /\ UNCHANGED <<backups, left, restarts>>
    BY <1>12, <2>2 DEF RestoreLegacy, SwapDatabase, SwapKey, Reload, Abandon,
       UndoDatabase, UndoKey, UndoneKey, TypeOK, files
  <2>5. (req \in [Requests -> Request])'
    <3>1. CASE RestoreLegacy(r) \/ Reload(r) \/ Abandon(r) \/ UndoKey(r)
      BY <1>0, <3>1, KeepTyping DEF RestoreLegacy, Reload, Abandon, UndoKey, Done
    <3>2. CASE SwapKey(r)
      BY <2>3, <3>2, KeepTyping DEF SwapKey, Stages
    <3>3. CASE SwapDatabase(r)
      BY <2>3, <3>3, UnlinkedTyping DEF SwapDatabase, Stages
    <3>4. CASE UndoDatabase(r)
      BY <1>0, <2>3, <3>4, UnlinkedTyping DEF UndoDatabase, Stages
    <3> QED BY <1>12, <3>1, <3>2, <3>3, <3>4
  <2> QED BY <2>4, <2>5 DEF TypeOK
<1>13. CASE Restart
  BY <1>0, <1>13, DirectoryTyping, VaultAssumption DEF TypeOK, Restart
<1>14. CASE UNCHANGED vars
  BY <1>14 DEF TypeOK, vars
<1> QED
  BY <1>1, <1>2, <1>3, <1>4, <1>6, <1>7, <1>8, <1>9, <1>10, <1>11, <1>12, <1>13,
     <1>14 DEF Next

LEMMA FitsInit == Init => CarriedFits
BY IdleLegit DEF Init, CarriedFits

LEMMA FitsStep == TypeOK /\ CarriedFits /\ [Next]_vars => CarriedFits'
<1> SUFFICES ASSUME TypeOK, CarriedFits, [Next]_vars
             PROVE  CarriedFits'
  OBVIOUS
<1>0. \A r \in Requests : req[r] \in Request /\ Legit(req[r])
  BY DEF TypeOK, CarriedFits
<1>1. CASE UNCHANGED req
  BY <1>1 DEF CarriedFits, Legit, Opens, Fits, Stages
<1>2. ASSUME NEW r \in Requests, Done(r)
      PROVE  CarriedFits'
  BY <1>2, IdleLegit, KeepLegit DEF Done
<1>3. ASSUME NEW r \in Requests, NEW p \in Providers, ReadSecrets(r, p)
      PROVE  CarriedFits'
  <2>1. Legit([kind |-> "read", p |-> p, seal |-> fernet, live |-> TRUE])
    BY DEF Legit, Stages
  <2> QED BY <1>3, <2>1, BeginLegit DEF ReadSecrets
<1>4. ASSUME NEW r \in Requests, SealSecrets(r)
      PROVE  CarriedFits'
  <2>1. Legit([req[r] EXCEPT !.kind = "write", !.seal = fernet])
    BY <1>0, <1>4, RequestKinds DEF SealSecrets, Save, Legit, Stages
  <2> QED BY <1>4, <2>1, KeepLegit DEF SealSecrets
<1>5. ASSUME NEW r \in Requests, NEW t, CopyDatabase(r, t)
      PROVE  CarriedFits'
  <2> DEFINE clean == Sound /\ \A o \in Requests \ {r} : Free(o)
             q == [kind |-> "pack", copy |-> sealed, for |-> t, clean |-> clean]
  <2>1. Legit(q)
    BY DEF Legit, Stages
  <2> QED BY <1>5, <2>1, BeginLegit DEF CopyDatabase
<1>6. ASSUME NEW r \in Requests, PackKey(r) \/ CheckBundle(r)
      PROVE  CarriedFits'
  <2> DEFINE bundle == [sealed |-> req[r].copy, key |-> keyFile]
             back == [sealed |-> sealed, key |-> keyFile]
             check == [kind |-> "check", bundle |-> bundle, for |-> req[r].for,
                       clean |-> req[r].clean]
             safe == [kind |-> "safe", from |-> req[r].for, clean |-> req[r].clean,
                      back |-> back]
  <2>1. Legit(check) /\ Legit(safe)
    BY DEF Legit, Stages
  <2>2. Keep(r, check) \/ Keep(r, safe) \/ Done(r)
    BY <1>6 DEF PackKey, CheckBundle
  <2> HIDE DEF check, safe
  <2> QED BY <1>2, <2>1, <2>2, KeepLegit
<1>7. ASSUME NEW r \in Requests, ValidateRestore(r)
      PROVE  CarriedFits'
  <2> DEFINE next == [req[r] EXCEPT !.kind = "valid",
                                    !.back = [sealed |-> sealed, key |-> keyFile]]
  <2>1. req[r] \in Restore
    BY <1>0, <1>7, RequestKinds DEF ValidateRestore, Stages
  <2>2. /\ next.kind = "valid" /\ next.from = req[r].from
        /\ next.back = [sealed |-> sealed, key |-> keyFile]
    BY <2>1 DEF Restore
  <2>3. ~Refused(req[r].from) => Legit(next)
    BY <2>1, <2>2 DEF Refused, Legit, Stages
  <2> QED BY <1>2, <1>7, <2>3, KeepLegit DEF ValidateRestore
<1>8. ASSUME NEW r \in Requests,
             SwapDatabase(r) \/ SwapKey(r) \/ UndoDatabase(r)
      PROVE  CarriedFits'
  <2>1. req[r] \in Restore /\ Opens(req[r].from) /\ req[r].from.key # None
    BY <1>0, <1>8, RequestKinds DEF SwapDatabase, SwapKey, UndoDatabase, Stages, Legit
  <2>2. \A k \in {"database", "key", "undo"} : Legit([req[r] EXCEPT !.kind = k])
    BY <2>1 DEF Restore, Legit, Stages
  <2> QED
    BY <1>8, <2>2, IdleLegit, KeepLegit, UnlinkedLegit DEF SwapDatabase, SwapKey, UndoDatabase
<1>9. ASSUME NEW r \in Requests,
             WriteSecrets(r) \/ RestoreLegacy(r) \/ Reload(r) \/ Abandon(r) \/ UndoKey(r)
      PROVE  CarriedFits'
  BY <1>2, <1>9 DEF WriteSecrets, RestoreLegacy, Reload, Abandon, UndoKey
<1>10. CASE Restart
  BY <1>10, IdleLegit DEF Restart, CarriedFits, Legit, Opens, Fits, Stages, Idle
<1>11. ASSUME NEW r \in Requests,
              \/ \E p \in Providers : DeleteProvider(r, p)
              \/ \E b \in Directory : Prune(r, b)
              \/ \E b \in Bundle : Import(r, b)
       PROVE  CarriedFits'
  BY <1>1, <1>11 DEF DeleteProvider, Prune, Import
<1>12. ASSUME NEW r \in Requests,
              BackupDatabase(r) \/ \E b \in Directory : BeginRestore(r, b)
       PROVE  CarriedFits'
  BY <1>5, <1>12 DEF BackupDatabase, BeginRestore
<1> QED
  BY <1>1, <1>3, <1>4, <1>6, <1>7, <1>8, <1>9, <1>10, <1>11, <1>12 DEF Next, vars

(* Types hold in every behaviour, and with them: a bundle that does not    *)
(* open with its own key is in the backup directory only while its maker   *)
(* has yet to validate it, or because a stop kept it from that.            *)
THEOREM TypeCorrect == Spec => []TypeOK
<1>1. Init => TypeOK /\ CarriedFits
  BY TypeInit, FitsInit
<1>2. TypeOK /\ CarriedFits /\ [Next]_vars => (TypeOK /\ CarriedFits)'
  BY TypeStep, FitsStep
<1> QED BY <1>1, <1>2, PTL DEF Spec

-----------------------------------------------------------------------------
(* Rows that go away part no key from its rows.                            *)
LEMMA FewerRowsFit ==
  ASSUME NEW k, NEW s \in Sealed, NEW p \in Providers, Fits(s, k)
  PROVE  Fits([s EXCEPT ![p] = None], k)
BY DEF Fits, Sealed

LEMMA PartingStep ==
  ASSUME TypeOK, CarriedFits, [Next]_vars, Fits(sealed, keyFile), ~Fits(sealed, keyFile)'
  PROVE  \E r \in Requests :
           \/ req[r].kind \in {"database", "key", "undo"}
           \/ /\ req[r].kind = "valid"
              /\ req[r].from.key # None \/ req[r].back.key # keyFile
           \/ req[r].kind = "write" /\ req[r].seal # keyFile
<1>0. \A r \in Requests : req[r] \in Request /\ Legit(req[r])
  BY DEF TypeOK, CarriedFits
<1>1. CASE UNCHANGED <<sealed, keyFile>>
  BY <1>1 DEF Fits
<1>2. ASSUME NEW r \in Requests, WriteSecrets(r)
      PROVE  req[r].kind = "write" /\ req[r].seal # keyFile
  <2>1. req[r] \in Save /\ req[r].kind = "write" /\ keyFile' = keyFile
    BY <1>0, <1>2, RequestKinds DEF WriteSecrets
  <2>2. ASSUME req[r].seal = keyFile
        PROVE  FALSE
    <3>1. sealed' = sealed \/ \E k \in {keyFile, None} : sealed' = [sealed EXCEPT ![req[r].p] = k]
      BY <1>2, <2>2 DEF WriteSecrets
    <3>2. \A p \in Providers : sealed'[p] \in {None, keyFile}
      BY <2>1, <3>1 DEF Save, TypeOK, Sealed, Fits
    <3> QED BY <2>1, <3>2 DEF Fits
  <2> QED BY <2>1, <2>2
<1>3. ASSUME NEW r \in Requests, NEW p \in Providers, DeleteProvider(r, p)
      PROVE  FALSE
  <2>1. sealed' = [sealed EXCEPT ![p] = None] /\ keyFile' = keyFile
    BY <1>3 DEF DeleteProvider
  <2> QED BY <2>1, FewerRowsFit DEF TypeOK, Fits
<1>4. ASSUME NEW r \in Requests, RestoreLegacy(r)
      PROVE  req[r].kind = "valid" /\ req[r].back.key # keyFile
  <2>1. /\ req[r].kind = "valid" /\ Fits(req[r].from.sealed, req[r].back.key)
        /\ sealed' = req[r].from.sealed /\ keyFile' = keyFile
    BY <1>0, <1>4 DEF RestoreLegacy, Legit
  <2> QED BY <2>1 DEF Fits
<1>5. ASSUME NEW r \in Requests, SwapDatabase(r)
      PROVE  req[r].kind = "valid" /\ req[r].from.key # None
  BY <1>5 DEF SwapDatabase
<1>6. ASSUME NEW r \in Requests, SwapKey(r) \/ UndoDatabase(r) \/ UndoKey(r)
      PROVE  req[r].kind \in {"database", "key", "undo"}
  BY <1>6 DEF SwapKey, UndoDatabase, UndoKey
<1>7. ASSUME NEW r \in Requests,
             \/ \E p \in Providers : ReadSecrets(r, p)
             \/ \E b \in Directory : BeginRestore(r, b) \/ Prune(r, b)
             \/ \E b \in Bundle : Import(r, b)
             \/ SealSecrets(r) \/ BackupDatabase(r) \/ PackKey(r) \/ CheckBundle(r)
             \/ ValidateRestore(r) \/ Reload(r) \/ Abandon(r)
      PROVE  FALSE
  BY <1>1, <1>7 DEF ReadSecrets, BeginRestore, Prune, Import, SealSecrets, BackupDatabase,
     CopyDatabase, PackKey, CheckBundle, ValidateRestore, Reload, Abandon, files
<1>8. ~Restart /\ ~ UNCHANGED vars
  BY <1>1 DEF Restart, vars
<1> QED
  BY <1>2, <1>3, <1>4, <1>5, <1>6, <1>7, <1>8 DEF Next

(* No step but those of a restore under way, and of a save that encrypted  *)
(* with the key of before one, parts the rows from the key file.           *)
THEOREM OnlyARestore == Spec => OnlyARestoreBreaksTheSeal
<1>1. TypeOK /\ CarriedFits /\ [Next]_vars =>
        [(Fits(sealed, keyFile) /\ ~Fits(sealed, keyFile)') =>
           \E r \in Requests :
             LET q == req[r]
             IN  \/ q.kind \in {"database", "key", "undo"}
                 \/ q.kind = "valid" /\ (q.from.key # None \/ q.back.key # keyFile)
                 \/ q.kind = "write" /\ q.seal # keyFile]_vars
  BY PartingStep
<1> QED
  BY <1>1, TypeInit, TypeStep, FitsInit, FitsStep, PTL
     DEF Spec, OnlyARestoreBreaksTheSeal

-----------------------------------------------------------------------------
(* A restore, or the packing of its safety bundle, that has the            *)
(* application to itself.                                                  *)
Undisturbed(q) == q.kind \in Stages \cup {"pack", "check"} /\ q.clean

(* What is in place at each of its stages.                                 *)
InPlace(r) ==
  LET q == req[r]
  IN  /\ q.kind \in {"pack", "check", "safe", "valid"} => Sound
      /\ q.kind \in {"valid", "database"} => q.back.key = keyFile
      /\ q.kind \in {"valid", "database", "key"} => Fits(q.back.sealed, q.back.key)
      /\ q.kind \in {"database", "key", "undo"} => fernet = q.back.key
      /\ q.kind \in {"database", "key"} => Fits(sealed, q.from.key)
      /\ q.kind = "key" => keyFile = q.from.key
      /\ q.kind = "undo" => Fits(sealed, q.back.key)

AloneInOrder ==
  \A r \in Requests : Undisturbed(req[r]) =>
    InPlace(r) /\ \A o \in Requests \ {r} : req[o] = Idle

LEMMA AloneInit == Init => AloneInOrder
BY DEF Init, AloneInOrder, Undisturbed, Stages, Idle

(* A request that is not idle goes on: nobody else is undisturbed, and it  *)
(* is itself if it was and finds its next stage in place.                  *)
LEMMA Advance ==
  ASSUME TypeOK, AloneInOrder, NEW r \in Requests, NEW q,
         Keep(r, q) \/ Unlinked(r, q), req[r] # Idle,
         Undisturbed(q) => Undisturbed(req[r]) /\ InPlace(r)'
  PROVE  AloneInOrder'
<1>1. req'[r] = q
  BY DEF Keep, Unlinked, TypeOK
<1>2. ASSUME NEW o \in Requests \ {r}
      PROVE  ~Undisturbed(req'[o]) /\ (req[o] = Idle => req'[o] = Idle)
  <2>1. ~Undisturbed(req[o])
    BY DEF AloneInOrder
  <2>2. CASE req'[o] = req[o]
    BY <2>1, <2>2
  <2>3. CASE req[o].kind = "write" /\ req'[o] = [req[o] EXCEPT !.live = FALSE]
    <3>1. req[o] \in Save
      BY <2>3, RequestKinds DEF TypeOK
    <3> QED BY <2>3, <3>1 DEF Save, Undisturbed, Stages, Idle
  <2> QED BY <2>2, <2>3 DEF Keep, Unlinked, TypeOK
<1>3. Undisturbed(q) => \A o \in Requests \ {r} : req'[o] = Idle
  BY <1>2 DEF AloneInOrder
<1>4. \A o \in Requests : Undisturbed(req'[o]) =>
        o = r /\ InPlace(o)' /\ \A x \in Requests \ {o} : req'[x] = Idle
  BY <1>1, <1>2, <1>3
<1> QED BY <1>4 DEF AloneInOrder, Undisturbed

(* A request that ends leaves nobody undisturbed.                          *)
LEMMA AdvanceDone ==
  ASSUME TypeOK, AloneInOrder, NEW r \in Requests, Done(r) \/ Unlinked(r, Idle), req[r] # Idle
  PROVE  AloneInOrder'
<1>1. ~Undisturbed(Idle)
  BY DEF Undisturbed, Idle, Stages
<1> QED BY <1>1, Advance DEF Done

(* A request that begins disturbs all others.                              *)
LEMMA Beginning ==
  ASSUME TypeOK, NEW r \in Requests, NEW q, Begin(r, q),
         Undisturbed(q) => InPlace(r)' /\ \A o \in Requests \ {r} : req[o] = Idle
  PROVE  AloneInOrder'
<1>1. ASSUME NEW o \in Requests \ {r}
      PROVE  ~Undisturbed(req'[o]) /\ (req[o] = Idle => req'[o] = Idle)
  <2>1. CASE req[o].kind \in Stages \cup {"pack", "check"}
    <3>1. req[o] \in Pack \/ req[o] \in Check \/ req[o] \in Restore
      BY <2>1, RequestKinds DEF TypeOK
    <3>2. req'[o] = [req[o] EXCEPT !.clean = FALSE]
      BY <2>1 DEF Begin
    <3> QED BY <2>1, <3>1, <3>2 DEF Undisturbed, Pack, Check, Restore, Stages, Idle
  <2>2. CASE req[o].kind \notin Stages \cup {"pack", "check"}
    BY <2>2 DEF Begin, Undisturbed
  <2> QED BY <2>1, <2>2
<1>2. req'[r] = q
  BY DEF Begin
<1>3. \A o \in Requests : Undisturbed(req'[o]) =>
        o = r /\ InPlace(o)' /\ \A x \in Requests \ {o} : req'[x] = Idle
  BY <1>1, <1>2
<1> QED BY <1>3 DEF AloneInOrder, Undisturbed

LEMMA AloneStep ==
  TypeOK /\ CarriedFits /\ AloneInOrder /\ [Next]_vars => AloneInOrder'
<1> SUFFICES ASSUME TypeOK, CarriedFits, AloneInOrder, [Next]_vars
             PROVE  AloneInOrder'
  OBVIOUS
<1>0. \A r \in Requests : req[r] \in Request /\ Legit(req[r])
  BY DEF TypeOK, CarriedFits
<1>1. CASE UNCHANGED <<sealed, keyFile, fernet, req>>
  BY <1>1 DEF AloneInOrder, InPlace, Sound, Fits, Undisturbed
<1>2. ASSUME NEW r \in Requests, NEW p \in Providers, ReadSecrets(r, p)
      PROVE  AloneInOrder'
  <2> DEFINE q == [kind |-> "read", p |-> p, seal |-> fernet, live |-> TRUE]
  <2>1. Begin(r, q) /\ ~Undisturbed(q)
    BY <1>2 DEF ReadSecrets, Undisturbed, Stages
  <2> QED BY <2>1, Beginning
<1>3. ASSUME NEW r \in Requests, NEW p \in Providers, DeleteProvider(r, p)
      PROVE  AloneInOrder'
  <2>1. /\ sealed' = [sealed EXCEPT ![p] = None]
        /\ UNCHANGED <<keyFile, fernet, req>>
    BY <1>3 DEF DeleteProvider
  <2>2. \A k : Fits(sealed, k) => Fits(sealed, k)'
    BY <2>1 DEF Fits, TypeOK, Sealed
  <2>3. Sound => Sound'
    BY <2>1, <2>2 DEF Sound, Fits
  <2> QED BY <2>1, <2>2, <2>3 DEF AloneInOrder, InPlace, Undisturbed, Fits
<1>4. ASSUME NEW r \in Requests, SealSecrets(r)
      PROVE  AloneInOrder'
  <2> DEFINE q == [req[r] EXCEPT !.kind = "write", !.seal = fernet]
  <2>1. Keep(r, q) /\ req[r].kind = "read"
    BY <1>4 DEF SealSecrets
  <2>2. ~Undisturbed(q)
    BY <1>0, <2>1, RequestKinds DEF Save, Undisturbed, Stages
  <2>3. req[r] # Idle
    BY <2>1 DEF Idle
  <2> QED BY <2>1, <2>2, <2>3, Advance
<1>5. ASSUME NEW r \in Requests, NEW t, CopyDatabase(r, t)
      PROVE  AloneInOrder'
  <2> DEFINE clean == Sound /\ \A o \in Requests \ {r} : Free(o)
             q == [kind |-> "pack", copy |-> sealed, for |-> t, clean |-> clean]
  <2>1. Begin(r, q) /\ UNCHANGED files
    BY <1>5 DEF CopyDatabase
  <2>2. req'[r].kind = "pack"
    BY <2>1 DEF Begin
  <2>3. Undisturbed(q) => InPlace(r)' /\ \A o \in Requests \ {r} : req[o] = Idle
    BY <2>1, <2>2 DEF Undisturbed, InPlace, Sound, Fits, files, Free
  <2> HIDE DEF q
  <2> QED BY <2>1, <2>3, Beginning
<1>6. ASSUME NEW r \in Requests, PackKey(r) \/ CheckBundle(r)
      PROVE  AloneInOrder'
  <2> DEFINE bundle == [sealed |-> req[r].copy, key |-> keyFile]
             back == [sealed |-> sealed, key |-> keyFile]
             check == [kind |-> "check", bundle |-> bundle, for |-> req[r].for,
                       clean |-> req[r].clean]
             safe == [kind |-> "safe", from |-> req[r].for, clean |-> req[r].clean,
                      back |-> back]
  <2>1. /\ req[r].kind \in {"pack", "check"} /\ req[r] # Idle
        /\ UNCHANGED <<sealed, keyFile, fernet>>
        /\ Keep(r, check) \/ Keep(r, safe) \/ Done(r)
    BY <1>6 DEF PackKey, CheckBundle, Idle, files
  <2>2. ASSUME NEW q, q.kind \in {"check", "safe"}, q.clean = req[r].clean, Keep(r, q)
        PROVE  AloneInOrder'
    <3>1. req'[r] = q
      BY <2>2 DEF Keep, TypeOK
    <3>2. Undisturbed(q) => Undisturbed(req[r])
      BY <2>1, <2>2 DEF Undisturbed
    <3>3. Undisturbed(req[r]) => InPlace(r)'
      BY <2>1, <2>2, <3>1 DEF AloneInOrder, InPlace, Sound, Fits
    <3> QED BY <2>1, <2>2, <3>2, <3>3, Advance
  <2>3. /\ check.kind = "check" /\ check.clean = req[r].clean
        /\ safe.kind = "safe" /\ safe.clean = req[r].clean
    OBVIOUS
  <2> HIDE DEF check, safe
  <2>4. CASE Done(r)
    BY <2>1, <2>4, AdvanceDone
  <2> QED BY <2>1, <2>2, <2>3, <2>4
<1>7. ASSUME NEW r \in Requests, ValidateRestore(r)
      PROVE  AloneInOrder'
  <2> DEFINE q == [req[r] EXCEPT !.kind = "valid",
                                 !.back = [sealed |-> sealed, key |-> keyFile]]
  <2>1. /\ req[r].kind = "safe" /\ req[r] # Idle
        /\ UNCHANGED <<sealed, keyFile, fernet>>
        /\ Keep(r, q) \/ Done(r)
    BY <1>7 DEF ValidateRestore, Idle, files
  <2>2. CASE Keep(r, q)
    <3>1. req[r] \in Restore
      BY <1>0, <2>1, RequestKinds DEF Stages
    <3>2. /\ q.kind = "valid" /\ q.clean = req[r].clean
          /\ q.back = [sealed |-> sealed, key |-> keyFile] /\ req'[r] = q
      BY <2>2, <3>1 DEF Restore, Keep, TypeOK
    <3> HIDE DEF q
    <3>3. Undisturbed(q) => Undisturbed(req[r])
      BY <2>1, <3>2 DEF Undisturbed, Stages
    <3>4. Undisturbed(req[r]) => InPlace(r)'
      BY <2>1, <3>2 DEF AloneInOrder, InPlace, Sound, Fits
    <3> QED BY <2>1, <2>2, <3>3, <3>4, Advance
  <2>3. CASE Done(r)
    BY <2>1, <2>3, AdvanceDone
  <2> QED BY <2>1, <2>2, <2>3
<1>8. ASSUME NEW r \in Requests, SwapDatabase(r) \/ SwapKey(r) \/ UndoDatabase(r)
      PROVE  AloneInOrder'
  <2>1. req[r] \in Restore /\ req[r] # Idle /\ Legit(req[r]) /\ req[r].kind \in Stages
    BY <1>0, <1>8, RequestKinds DEF SwapDatabase, SwapKey, UndoDatabase, Stages, Idle
  <2>2. ASSUME NEW k \in Stages
        PROVE  LET q == [req[r] EXCEPT !.kind = k]
               IN  /\ q.kind = k /\ q.from = req[r].from /\ q.back = req[r].back
                   /\ Undisturbed(q) => Undisturbed(req[r])
    BY <2>1 DEF Restore, Undisturbed
  <2>3. CASE SwapDatabase(r)
    <3> DEFINE q == [req[r] EXCEPT !.kind = "database"]
    <3>1. /\ Unlinked(r, q) /\ req'[r] = q
          /\ req[r].kind = "valid" /\ req[r].from.key # None
          /\ sealed' = req[r].from.sealed /\ UNCHANGED <<keyFile, fernet>>
      BY <2>3 DEF SwapDatabase, Unlinked
    <3>2. /\ q.kind = "database" /\ q.from = req[r].from /\ q.back = req[r].back
          /\ Undisturbed(q) => Undisturbed(req[r])
      BY <2>2 DEF Stages
    <3> HIDE DEF q
    <3>3. Undisturbed(req[r]) => InPlace(r)'
      BY <2>1, <3>1, <3>2 DEF AloneInOrder, InPlace, Sound, Fits, Legit, Opens, Stages
    <3> QED BY <2>1, <3>1, <3>2, <3>3, Advance
  <2>4. CASE SwapKey(r)
    <3> DEFINE q == [req[r] EXCEPT !.kind = "key"]
    <3>1. /\ Keep(r, q) /\ req'[r] = q /\ req[r].kind = "database"
          /\ keyFile' = req[r].from.key /\ UNCHANGED <<sealed, fernet>>
      BY <2>4 DEF SwapKey, Keep, TypeOK
    <3>2. /\ q.kind = "key" /\ q.from = req[r].from /\ q.back = req[r].back
          /\ Undisturbed(q) => Undisturbed(req[r])
      BY <2>2 DEF Stages
    <3> HIDE DEF q
    <3>3. Undisturbed(req[r]) => InPlace(r)'
      BY <3>1, <3>2 DEF AloneInOrder, InPlace, Fits
    <3> QED BY <2>1, <3>1, <3>2, <3>3, Advance
  <2>5. CASE UndoDatabase(r) /\ req[r].kind = "key"
    <3> DEFINE q == [req[r] EXCEPT !.kind = "undo"]
    <3>1. /\ Unlinked(r, q) /\ req'[r] = q
          /\ sealed' = req[r].back.sealed /\ UNCHANGED <<keyFile, fernet>>
      BY <2>5 DEF UndoDatabase, Unlinked
    <3>2. /\ q.kind = "undo" /\ q.from = req[r].from /\ q.back = req[r].back
          /\ Undisturbed(q) => Undisturbed(req[r])
      BY <2>2 DEF Stages
    <3> HIDE DEF q
    <3>3. Undisturbed(req[r]) => InPlace(r)'
      BY <2>5, <3>1, <3>2 DEF AloneInOrder, InPlace, Fits
    <3> QED BY <2>1, <3>1, <3>2, <3>3, Advance
  <2>6. CASE UndoDatabase(r) /\ req[r].kind # "key"
    BY <2>1, <2>6, AdvanceDone DEF UndoDatabase
  <2> QED BY <1>8, <2>3, <2>4, <2>5, <2>6
<1>9. ASSUME NEW r \in Requests,
             WriteSecrets(r) \/ RestoreLegacy(r) \/ Reload(r) \/ Abandon(r) \/ UndoKey(r)
      PROVE  AloneInOrder'
  <2>1. Done(r) /\ req[r] # Idle
    BY <1>9 DEF WriteSecrets, RestoreLegacy, Reload, Abandon, UndoKey, Idle
  <2> QED BY <2>1, AdvanceDone
<1>10. CASE Restart
  BY <1>10 DEF Restart, AloneInOrder, Undisturbed, Stages, Idle
<1>11. ASSUME NEW r \in Requests,
              \/ \E b \in Directory : Prune(r, b)
              \/ \E b \in Bundle : Import(r, b)
       PROVE  AloneInOrder'
  BY <1>1, <1>11 DEF Prune, Import
<1>12. ASSUME NEW r \in Requests,
              BackupDatabase(r) \/ \E b \in Directory : BeginRestore(r, b)
       PROVE  AloneInOrder'
  BY <1>5, <1>12 DEF BackupDatabase, BeginRestore
<1> QED
  BY <1>1, <1>2, <1>3, <1>4, <1>6, <1>7, <1>8, <1>9, <1>10, <1>11, <1>12 DEF Next, vars

(* The last step of a restore that was left alone.                         *)
LEMMA RestoreEnds ==
  ASSUME TypeOK, CarriedFits, AloneInOrder, [Next]_vars, NEW r \in Requests,
         Ends(r), restarts' = restarts, req[r].clean
  PROVE  Sound'
<1>0. /\ Legit(req[r]) /\ req[r] \in Restore
      /\ InPlace(r) /\ \A o \in Requests \ {r} : req[o] = Idle
      /\ req[r].kind \in Stages /\ req'[r] = Idle /\ req'[r].kind = "idle"
  BY RequestKinds DEF CarriedFits, AloneInOrder, Undisturbed, Ends, TypeOK, Idle
<1>1. ASSUME NEW o \in Requests, NEW q, Begin(o, q), req[o] = Idle
      PROVE  FALSE
  <2>1. o # r /\ req'[r] = [req[r] EXCEPT !.clean = FALSE]
    BY <1>0, <1>1 DEF Begin, Stages, Idle
  <2> QED BY <1>0, <2>1 DEF Restore, Stages
<1>2. ASSUME NEW o \in Requests, req[o] # Idle
      PROVE  o = r
  BY <1>0, <1>2
<1>3. \A o \in Requests :
        /\ ~ \E p \in Providers : ReadSecrets(o, p) \/ DeleteProvider(o, p)
        /\ ~ BackupDatabase(o)
        /\ \A b \in Directory : ~BeginRestore(o, b) /\ ~Prune(o, b)
        /\ \A b \in Bundle : ~Import(o, b)
  BY <1>0, <1>1 DEF ReadSecrets, DeleteProvider, BackupDatabase, BeginRestore, Prune,
     Import, CopyDatabase, Free, Idle, Stages
<1>4. \A o \in Requests :
        ~SealSecrets(o) /\ ~WriteSecrets(o) /\ ~PackKey(o) /\ ~CheckBundle(o)
  BY <1>0, <1>2 DEF SealSecrets, WriteSecrets, PackKey, CheckBundle, Idle, Stages
<1>5. ~Restart /\ ~ UNCHANGED vars
  BY <1>0, VaultAssumption DEF Restart, vars, TypeOK, Idle, Stages
<1>6. ASSUME NEW o \in Requests, RestoreLegacy(o)
      PROVE  Sound'
  BY <1>0, <1>2, <1>6 DEF RestoreLegacy, InPlace, Sound, Fits, Legit, Idle
<1>7. ASSUME NEW o \in Requests, Reload(o)
      PROVE  Sound'
  BY <1>0, <1>2, <1>7 DEF Reload, InPlace, Sound, Fits, Idle
<1>8. ASSUME NEW o \in Requests, ValidateRestore(o) \/ Abandon(o)
      PROVE  Sound'
  <2>1. o = r /\ req[r].kind \in {"safe", "valid"} /\ UNCHANGED files
    BY <1>2, <1>8 DEF ValidateRestore, Abandon, Idle
  <2> QED BY <1>0, <2>1 DEF InPlace, Sound, Fits, files
<1>9. ASSUME NEW o \in Requests, UndoDatabase(o)
      PROVE  Sound'
  <2>1. o = r
    BY <1>2, <1>9 DEF UndoDatabase, Idle
  <2>2. CASE req[r].kind = "database"
    BY <1>0, <1>9, <2>1, <2>2 DEF UndoDatabase, InPlace, Sound, Fits
  <2>3. CASE req[r].kind = "key"
    <3>1. req'[r] = [req[r] EXCEPT !.kind = "undo"]
      BY <1>9, <2>1, <2>3 DEF UndoDatabase, Unlinked
    <3> QED BY <1>0, <3>1 DEF Restore
  <2> QED BY <1>9, <2>1, <2>2, <2>3 DEF UndoDatabase
<1>10. ASSUME NEW o \in Requests, UndoKey(o)
       PROVE  Sound'
  BY <1>0, <1>2, <1>10 DEF UndoKey, UndoneKey, InPlace, Sound, Fits, Idle
<1>11. ASSUME NEW o \in Requests, NEW q, Keep(o, q) \/ Unlinked(o, q), o = r, q \in Restore
       PROVE  FALSE
  BY <1>0, <1>11 DEF Keep, Unlinked, TypeOK, Restore
<1>12. \A o \in Requests : ~SwapDatabase(o) /\ ~SwapKey(o)
  <2>1. \A k \in Stages : [req[r] EXCEPT !.kind = k] \in Restore
    BY <1>0 DEF Restore, Stages
  <2> QED BY <1>2, <1>11, <2>1 DEF SwapDatabase, SwapKey, Idle, Stages
<1> QED
  BY <1>3, <1>4, <1>5, <1>6, <1>7, <1>8, <1>9, <1>10, <1>12 DEF Next

(* A restore that nobody disturbs ends with rows, key file and key in      *)
(* memory that belong together, whichever of its steps fails.              *)
THEOREM RestoreIsSound == Spec => RestoreKeepsTheSeal
<1>1. TypeOK /\ CarriedFits /\ AloneInOrder /\ [Next]_vars =>
        [\A r \in Requests :
           (Ends(r) /\ restarts' = restarts /\ req[r].clean) => Sound']_vars
  BY RestoreEnds
<1> QED
  BY <1>1, TypeInit, TypeStep, FitsInit, FitsStep, AloneInit, AloneStep, PTL
     DEF Spec, RestoreKeepsTheSeal
=============================================================================
