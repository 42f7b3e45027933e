-------------------------------- MODULE Vault --------------------------------
(***************************************************************************)
(* The credentials at rest: rows of provider_secrets that are encrypted    *)
(* with a machine key, the key file beside the database, the copy of that  *)
(* key in the memory of the process, backup bundles of both, and the       *)
(* restore that swaps two files which cannot be swapped in one step.       *)
(*                                                                         *)
(* The database is reduced to what the key matters to: for every provider  *)
(* the key its row was encrypted with.  Saving credentials runs on the     *)
(* event loop, backups and restores in threads beside it.                  *)
(***************************************************************************)
EXTENDS Naturals, FiniteSets

CONSTANTS
  Keys,        \* machine keys: ours, and those of other installations
  Home,        \* the key of this installation
  Providers,
  None,        \* no row in provider_secrets
  MaxBackups,  \* bound on the backups on disk
  Requests,
  MaxRestarts

ASSUME VaultAssumption ==
  /\ Home \in Keys
  /\ None \notin Keys
  /\ MaxBackups \in Nat /\ MaxRestarts \in Nat

Sealed == [Providers -> Keys \cup {None}]
Empty == [p \in Providers |-> None]

\* A bundle carries the key; a legacy .db backup does not.
Bundle == [sealed: Sealed, key: Keys \cup {None}]

VARIABLES
  sealed,    \* provider_secrets in the database file that is in place
  keyFile,   \* provider-secrets.key
  fernet,    \* SecretStore._fernet of the running process
  backups,   \* the backups that have been validated
  left,      \* bundles that a stop left before they were
  restarts,
  req        \* what each handler carries from one step to the next

vars == <<sealed, keyFile, fernet, backups, left, restarts, req>>
files == <<sealed, keyFile, fernet, backups, left, restarts>>

Idle == [kind |-> "idle"]

\* A connection is live while the file it opened is the one in place.
Save == [kind: {"read", "write"}, p: Providers, seal: Keys, live: BOOLEAN]
Pack == [kind: {"pack"}, copy: Sealed, for: Bundle \cup {None}, clean: BOOLEAN]
Check == [kind: {"check"}, bundle: Bundle, for: Bundle \cup {None}, clean: BOOLEAN]

\* The stages of a restore, named for what has been done; clean: it began
\* in a sound state, and nobody else has been at work since.
Restore == [kind: {"safe", "valid", "database", "key", "undo"},
            from: Bundle, back: [sealed: Sealed, key: Keys], clean: BOOLEAN]

Request == {Idle} \cup Save \cup Pack \cup Check \cup Restore
Stages == {"safe", "valid", "database", "key", "undo"}

Free(r) == req[r] = Idle
Keep(r, q) == req' = [req EXCEPT ![r] = q]
Done(r) == Keep(r, Idle)

\* Whoever begins disturbs the restores that are under way.
Begin(r, q) ==
  req' = [o \in Requests |->
            IF o = r THEN q
            ELSE IF req[o].kind \in Stages \cup {"pack", "check"} THEN [req[o] EXCEPT !.clean = FALSE]
            ELSE req[o]]

\* The file in place is replaced: connections to the old one lead nowhere.
Unlinked(r, q) ==
  req' = [o \in Requests |->
            IF o = r THEN q
            ELSE IF req[o].kind = "write" THEN [req[o] EXCEPT !.live = FALSE]
            ELSE req[o]]

(* Every row decrypts with key k.                                          *)
Fits(s, k) == \A p \in Providers : s[p] \in {None, k}

Sound == Fits(sealed, keyFile) /\ fernet = keyFile

(* A backup opens with the key it carries.                                 *)
Opens(b) == b.key # None => Fits(b.sealed, b.key)

(* The backup directory.  A bundle is there under its own name as soon as  *)
(* it is complete, before it is validated.                                 *)
Directory ==
  backups \cup left
    \cup {req[r].bundle : r \in {o \in Requests : req[o].kind = "check"}}
RoomFor(b) == Cardinality(Directory \cup {b}) <= MaxBackups

-----------------------------------------------------------------------------
Init ==
  /\ sealed = Empty
  /\ keyFile = Home
  /\ fernet = Home
  /\ backups = {} /\ left = {}
  /\ restarts = 0
  /\ req = [r \in Requests |-> Idle]

(* SecretStore.update: what is stored is decrypted first, and a row that   *)
(* does not decrypt is an error.                                           *)
ReadSecrets(r, p) ==
  /\ Free(r)
  /\ sealed[p] \in {None, fernet}
  /\ \A o \in Requests : req[o].kind \notin {"read", "write"}
  /\ Begin(r, [kind |-> "read", p |-> p, seal |-> fernet, live |-> TRUE])
  /\ UNCHANGED files

(* It opens its connection and encrypts with the key in memory ...         *)
SealSecrets(r) ==
  /\ req[r].kind = "read"
  /\ Keep(r, [req[r] EXCEPT !.kind = "write", !.seal = fernet])
  /\ UNCHANGED files

(* ... and commits, to a file that may have been replaced by then; or the  *)
(* row is deleted, when no field is left.                                  *)
WriteSecrets(r) ==
  LET q == req[r]
  IN  /\ q.kind = "write"
      /\ sealed' \in IF q.live THEN {[sealed EXCEPT ![q.p] = k] : k \in {q.seal, None}}
                     ELSE {sealed}
      /\ Done(r)
      /\ UNCHANGED <<keyFile, fernet, backups, left, restarts>>

(* The provider is removed: ON DELETE CASCADE takes its secrets along.     *)
DeleteProvider(r, p) ==
  /\ Free(r)
  /\ sealed' = [sealed EXCEPT ![p] = None]
  /\ UNCHANGED <<keyFile, fernet, backups, left, restarts, req>>

(* create_backup_bundle: an online copy of the database ...                *)
CopyDatabase(r, target) ==
  /\ Free(r)
  /\ Begin(r, [kind |-> "pack", copy |-> sealed, for |-> target,
               clean |-> Sound /\ \A o \in Requests \ {r} : Free(o)])
  /\ UNCHANGED files

BackupDatabase(r) == CopyDatabase(r, None)

(* POST /api/backups/{name}/restore makes a backup for safety first.       *)
BeginRestore(r, b) == b \in Directory /\ CopyDatabase(r, b)

(* ... to which the key is added.  Until it is closed the file is no       *)
(* archive, and nobody can restore it; from then on it is a bundle.        *)
PackKey(r) ==
  LET q == req[r]
      bundle == [sealed |-> q.copy, key |-> keyFile]
  IN  /\ q.kind = "pack"
      /\ RoomFor(bundle)
      /\ Keep(r, [kind |-> "check", bundle |-> bundle, for |-> q.for, clean |-> q.clean])
      /\ UNCHANGED files

\* the bundle is not validated when it is complete
BugPackable(b) == TRUE

Packable(b) == Opens(b)

(* validate_backup tries the one on the other, and a bundle that does not  *)
(* fit, that somebody has pruned or that cannot be read is thrown away.    *)
(* For a restore that is the end of it: it needs its safety backup.        *)
CheckBundle(r) ==
  LET q == req[r]
  IN  /\ q.kind = "check"
      /\ \/ /\ Packable(q.bundle)
            /\ backups' = backups \cup {q.bundle}
            /\ IF q.for = None THEN Done(r)
               ELSE Keep(r, [kind |-> "safe", from |-> q.for, clean |-> q.clean,
                             back |-> [sealed |-> sealed, key |-> keyFile]])
         \/ Done(r) /\ UNCHANGED backups
      /\ UNCHANGED <<sealed, keyFile, fernet, left, restarts>>

(* POST /api/backups/import: a bundle or a legacy database, of this or     *)
(* another installation; validate_backup wants a bundle to fit itself.     *)
Import(r, b) ==
  /\ Free(r)
  /\ Opens(b)
  /\ RoomFor(b)
  /\ backups' = backups \cup {b}
  /\ UNCHANGED <<sealed, keyFile, fernet, left, restarts, req>>

(* prune_backups; which ones go depends on the age of the files.           *)
Prune(r, b) ==
  /\ Free(r)
  /\ \/ b \in backups /\ backups' = backups \ {b} /\ UNCHANGED left
     \/ b \in left /\ left' = left \ {b} /\ UNCHANGED backups
  /\ UNCHANGED <<sealed, keyFile, fernet, restarts, req>>

(* restore_backup begins by validating the file it was asked for, which    *)
(* may be gone, or a bundle nobody has validated yet.  A legacy one must   *)
(* fit the key in place.                                                   *)
Refused(b) ==
  \/ b \notin Directory
  \/ ~Opens(b)
  \/ b.key = None /\ ~Fits(b.sealed, keyFile)

(* The bundle is unpacked and initialised beside the database, and both    *)
(* files are copied for a rollback.                                        *)
ValidateRestore(r) ==
  LET q == req[r]
  IN  /\ q.kind = "safe"
      /\ IF Refused(q.from) THEN Done(r)
         ELSE Keep(r, [q EXCEPT !.kind = "valid",
                                !.back = [sealed |-> sealed, key |-> keyFile]])
      /\ UNCHANGED files

(* A legacy backup is copied into the database that is in place.           *)
RestoreLegacy(r) ==
  LET q == req[r]
  IN  /\ q.kind = "valid"
      /\ q.from.key = None
      /\ sealed' = q.from.sealed
      /\ Done(r)
      /\ UNCHANGED <<keyFile, fernet, backups, left, restarts>>

(* os.replace(database_copy, path)                                         *)
SwapDatabase(r) ==
  LET q == req[r]
  IN  /\ q.kind = "valid"
      /\ q.from.key # None
      /\ sealed' = q.from.sealed
      /\ Unlinked(r, [q EXCEPT !.kind = "database"])
      /\ UNCHANGED <<keyFile, fernet, backups, left, restarts>>

(* os.replace(key_copy, secret_key_path)                                   *)
SwapKey(r) ==
  LET q == req[r]
  IN  /\ q.kind = "database"
      /\ keyFile' = q.from.key
      /\ Keep(r, [q EXCEPT !.kind = "key"])
      /\ UNCHANGED <<sealed, fernet, backups, left, restarts>>

(* provider_secrets.reload, in the handler, after restore_backup is done   *)
Reload(r) ==
  /\ req[r].kind = "key"
  /\ fernet' = keyFile
  /\ Done(r)
  /\ UNCHANGED <<sealed, keyFile, backups, left, restarts>>

(* Unpacking, initialising the copy or the first os.replace raises: what   *)
(* is in place has not been touched.                                       *)
Abandon(r) ==
  /\ req[r].kind \in {"safe", "valid"}
  /\ Done(r)
  /\ UNCHANGED files

(* A later os.replace, chmod or initialize raises: the database goes back  *)
(* first ...                                                               *)
UndoDatabase(r) ==
  LET q == req[r]
  IN  /\ q.kind \in {"database", "key"}
      /\ sealed' = q.back.sealed
      /\ Unlinked(r, IF q.kind = "key" THEN [q EXCEPT !.kind = "undo"] ELSE Idle)
      /\ UNCHANGED <<keyFile, fernet, backups, left, restarts>>

\* the rollback copy of the key is not put back
BugUndoneKey(q) == keyFile

UndoneKey(q) == q.back.key

(* ... then the key, if that was replaced too, and the error is answered.  *)
UndoKey(r) ==
  /\ req[r].kind = "undo"
  /\ keyFile' = UndoneKey(req[r])
  /\ Done(r)
  /\ UNCHANGED <<sealed, fernet, backups, left, restarts>>

\* a new key is generated although the file is there
BugRestartWithNewKey ==
  /\ restarts < MaxRestarts
  /\ restarts' = restarts + 1
  /\ keyFile' \in Keys
  /\ fernet' = keyFile'
  /\ left' = Directory \ backups
  /\ req' = [r \in Requests |-> Idle]
  /\ UNCHANGED <<sealed, backups>>

(* The process stops and starts: _load_or_create_key finds the key file.   *)
(* A bundle that was to be validated stays where it is.                    *)
Restart ==
  /\ restarts < MaxRestarts
  /\ restarts' = restarts + 1
  /\ fernet' = keyFile
  /\ left' = Directory \ backups
  /\ req' = [r \in Requests |-> Idle]
  /\ UNCHANGED <<sealed, keyFile, backups>>

Next ==
  \/ \E r \in Requests, p \in Providers : ReadSecrets(r, p) \/ DeleteProvider(r, p)
  \/ \E r \in Requests :
       \/ SealSecrets(r) \/ WriteSecrets(r) \/ BackupDatabase(r) \/ PackKey(r) \/ CheckBundle(r)
       \/ ValidateRestore(r) \/ RestoreLegacy(r) \/ SwapDatabase(r) \/ SwapKey(r)
       \/ Reload(r) \/ Abandon(r) \/ UndoDatabase(r) \/ UndoKey(r)
       \/ \E b \in Directory : BeginRestore(r, b) \/ Prune(r, b)
       \/ \E b \in Bundle : Import(r, b)
  \/ Restart

Spec == Init /\ [][Next]_vars

-----------------------------------------------------------------------------
(* Types, and: a bundle in the backup directory whose key does not open    *)
(* its rows, because a restore fell between the copies of the two, is one  *)
(* that its maker has yet to validate or that a stop kept from it.         *)
TypeOK ==
  /\ sealed \in Sealed
  /\ keyFile \in Keys
  /\ fernet \in Keys
  /\ backups \subseteq Bundle /\ left \subseteq Bundle
  /\ \A b \in backups : Opens(b)
  /\ restarts \in 0..MaxRestarts
  /\ req \in [Requests -> Request]

Ends(r) == req[r].kind \in Stages /\ req'[r] = Idle

(* A restore that has the application to itself takes it from one sound    *)
(* state to another, where data, key file and key in memory belong         *)
(* together - also when it fails, at any of its steps.                     *)
RestoreKeepsTheSeal ==
  [][\A r \in Requests :
       (Ends(r) /\ restarts' = restarts /\ req[r].clean) => Sound']_vars

(* The rows and the key file belong together, and no step parts them but   *)
(* those of a restore that has begun to swap the two files, a legacy       *)
(* restore whose key was swapped since it was checked, and a save that     *)
(* encrypted with the key of before a restore.                             *)
OnlyARestoreBreaksTheSeal ==
  [][(Fits(sealed, keyFile) /\ ~Fits(sealed, keyFile)') =>
        \E r \in Requests :
          LET q == req[r]
          IN  \/ q.kind \in {"database", "key", "undo"}
              \/ q.kind = "valid" /\ (q.from.key # None \/ q.back.key # keyFile)
              \/ q.kind = "write" /\ q.seal # keyFile]_vars
=============================================================================
