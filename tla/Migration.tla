------------------------------ MODULE Migration ------------------------------
(***************************************************************************)
(* Storage::initialize and what stands around it: the migration of a       *)
(* config.json into the database, the recovery of passwords from its       *)
(* backup, and the reads and saves of the processes, which all initialize  *)
(* first.                                                                  *)
(*                                                                         *)
(* The service and the administrator's commands are processes of their     *)
(* own, so several may initialize at once, and each may be killed between  *)
(* any two steps.  A step here is a transaction of SQLite, a look at the   *)
(* directory or a rename.                                                  *)
(*                                                                         *)
(* The configuration has one user.  Her password is stored as a digest,    *)
(* here the password, and encrypted with her key, or not at all if the     *)
(* database comes from a version that had no such column.  config.json and *)
(* its backup hold the first password.                                     *)
(***************************************************************************)
EXTENDS Naturals, FiniteSets

CONSTANTS
    Processes,
    None,
    MaxRevision,   \* bound
    MaxKills       \* bound

\* What a process does with the configuration it has read.
Kinds == {"look", "change", "rotate key", "change password", "set up"}

First == "first"
Passwords == {First, "other", None}
Encryptions == [key : 0..MaxRevision, password : Passwords]
Settings == [revision : 1..MaxRevision, key : 0..MaxRevision, password : Passwords,
             encrypted : Encryptions \cup {None}, changes : SUBSET Processes]

ASSUME MigrationConstants ==
    /\ MaxRevision \in Nat \ {0} /\ MaxKills \in Nat
    /\ None \notin {First, "other"}
    /\ None \notin Encryptions /\ None \notin Settings

VARIABLES
    legacy,    \* config.json is there
    backup,    \* config.json.legacy-backup-... is there
    db,        \* the settings and the user, None before they are stored
    proc,      \* of each process: its step, what it does and its copy
    early,     \* the processes that began a migration before there was a database
    kills

vars == <<legacy, backup, db, proc, early, kills>>
files == <<legacy, backup>>

NewSettings(password, encrypted) ==
    [revision |-> 1, key |-> 0, password |-> password, encrypted |-> encrypted, changes |-> {}]

Encrypt(key, password) == [key |-> key, password |-> password]

Idle == [at |-> "idle", kind |-> "look", copy |-> None]

\* A config.json of the old version, a database without the encrypted
\* password beside the backup, in which the password may have been changed
\* since the migration, or nothing.
Init == /\ \/ legacy = TRUE /\ backup = FALSE /\ db = None
           \/ /\ legacy = FALSE /\ backup = TRUE
              /\ \E password \in {First, "other"} : db = NewSettings(password, None)
           \/ legacy = FALSE /\ backup = FALSE /\ db = None
        /\ proc = [p \in Processes |-> Idle]
        /\ early = {}
        /\ kills = 0

-----------------------------------------------------------------------------
Goes(p, to) == proc' = [proc EXCEPT ![p].at = to]
Ends(p) == proc' = [proc EXCEPT ![p] = Idle]

Begin(p, kind) ==
    /\ proc[p].at = "idle"
    /\ proc' = [proc EXCEPT ![p] = [at |-> "initialize", kind |-> kind, copy |-> None]]
    /\ UNCHANGED <<files, db, early, kills>>

\* initialize returns, to read or to save.
Return(p) == Goes(p, IF proc[p].copy = None THEN "read" ELSE "save")

\* A user has no encrypted password, and a backup may have the password.
PasswordMissing == db.password # None /\ db.encrypted = None /\ backup

\* The settings are stored already, or there is nothing to migrate.
FindNothingToDo(p) ==
    /\ IF db = None THEN ~ legacy ELSE ~ PasswordMissing
    /\ Return(p)
    /\ UNCHANGED early

FindPasswordMissing(p) ==
    /\ db # None
    /\ PasswordMissing
    /\ Goes(p, "recover")
    /\ UNCHANGED early

\* Fault: config.json alone decides that there is something to migrate.
FindLegacyAlone(p) ==
    /\ legacy
    /\ early' = IF db = None THEN early \cup {p} ELSE early
    /\ Goes(p, "migrate")

FindLegacy(p) ==
    /\ db = None
    /\ legacy
    /\ early' = early \cup {p}
    /\ Goes(p, "migrate")

Initialize(p) ==
    /\ proc[p].at = "initialize"
    /\ FindNothingToDo(p) \/ FindPasswordMissing(p) \/ FindLegacy(p)
    /\ UNCHANGED <<files, db, kills>>

\* The transaction: users still without an encrypted password whose digest
\* fits the one in the backup.  The revision stays.
Recover(p) ==
    /\ proc[p].at = "recover"
    /\ db' = IF db.encrypted = None /\ db.password = First
             THEN [db EXCEPT !.encrypted = Encrypt(db.key, First)]
             ELSE db
    /\ Return(p)
    /\ UNCHANGED <<files, early, kills>>

\* migrate_legacy_config reads the file and makes a configuration of it, with
\* a user of a new id; an error if the file is gone.
Migrate(p) ==
    /\ proc[p].at = "migrate"
    /\ IF legacy THEN Goes(p, "store") ELSE Ends(p)
    /\ early' = IF legacy THEN early ELSE early \ {p}
    /\ UNCHANGED <<files, db, kills>>

\* Fault: config.json is renamed before the database is written.
StoreAfterRename(p) ==
    /\ proc[p].at = "store"
    /\ legacy' = FALSE /\ backup' = TRUE
    /\ Goes(p, "rename")
    /\ UNCHANGED <<db, early, kills>>

\* save_new replaces whatever has been stored meanwhile.
StoreMigrated(p) ==
    /\ proc[p].at = "store"
    /\ db' = NewSettings(First, Encrypt(0, First))
    /\ Goes(p, "rename")
    /\ UNCHANGED <<files, early, kills>>

\* An error if another process has renamed it.
RenameLegacy(p) ==
    /\ proc[p].at = "rename"
    /\ IF legacy THEN Return(p) ELSE Ends(p)
    /\ legacy' = FALSE /\ backup' = TRUE
    /\ early' = early \ {p}
    /\ UNCHANGED <<db, kills>>

-----------------------------------------------------------------------------
(* What follows initialize.                                                *)

Read(p) ==
    /\ proc[p].at = "read"
    /\ db # None
    /\ proc' = [proc EXCEPT ![p].at = "change", ![p].copy = db]
    /\ UNCHANGED <<files, db, early, kills>>

\* A read fails; setup and init make new settings.
NoSettings(p) ==
    /\ proc[p].at = "read"
    /\ db = None
    /\ IF proc[p].kind = "set up" THEN Goes(p, "create") ELSE Ends(p)
    /\ UNCHANGED <<files, db, early, kills>>

\* create looks once more, and then save_new stores.
Create(p) ==
    /\ proc[p].at = "create"
    /\ IF db = None THEN Goes(p, "store new") ELSE Ends(p)
    /\ UNCHANGED <<files, db, early, kills>>

StoreNew(p) ==
    /\ proc[p].at = "store new"
    /\ db' = NewSettings(None, None)
    /\ Ends(p)
    /\ UNCHANGED <<files, early, kills>>

\* command_rotate_key encrypts the password again, if it has one.
Rotated(copy) ==
    [copy EXCEPT !.key = @ + 1,
                 !.encrypted = IF @ = None THEN None ELSE Encrypt(copy.key + 1, @.password)]

PasswordChanged(copy) ==
    [copy EXCEPT !.password = "other", !.encrypted = Encrypt(copy.key, "other")]

Changed(p, copy) == [copy EXCEPT !.changes = @ \cup {p}]

Result(p) ==
    LET copy == proc[p].copy
    IN  CASE proc[p].kind = "rotate key" -> Changed(p, Rotated(copy))
          [] proc[p].kind = "change password" -> Changed(p, PasswordChanged(copy))
          [] OTHER -> Changed(p, copy)

NeedsUser == {"rotate key", "change password"}

\* Nothing to save, no such user, or on to save, which initializes again.
Change(p) ==
    /\ proc[p].at = "change"
    /\ IF \/ proc[p].kind = "look"
          \/ proc[p].kind \in NeedsUser /\ proc[p].copy.password = None
       THEN Ends(p)
       ELSE proc' = [proc EXCEPT ![p].at = "initialize", ![p].copy = Result(p)]
    /\ UNCHANGED <<files, db, early, kills>>

Save(p) ==
    /\ proc[p].at = "save"
    /\ proc[p].copy.revision < MaxRevision
    /\ db' = IF db.revision = proc[p].copy.revision
             THEN [proc[p].copy EXCEPT !.revision = @ + 1]
             ELSE db
    /\ Ends(p)
    /\ UNCHANGED <<files, early, kills>>

\* The bound: a process that would go beyond it is not looked at further.
StopAtBound(p) ==
    /\ proc[p].at = "save"
    /\ proc[p].copy.revision = MaxRevision
    /\ Ends(p)
    /\ UNCHANGED <<files, db, early, kills>>

\* Killed, out of disk space, or without power.
Kill(p) ==
    /\ proc[p].at # "idle"
    /\ kills < MaxKills
    /\ kills' = kills + 1
    /\ Ends(p)
    /\ early' = early \ {p}
    /\ UNCHANGED <<files, db>>

-----------------------------------------------------------------------------
Step(p) ==
    \/ Initialize(p) \/ Recover(p) \/ Migrate(p) \/ StoreMigrated(p) \/ RenameLegacy(p)
    \/ Read(p) \/ NoSettings(p) \/ Create(p) \/ StoreNew(p) \/ Change(p)
    \/ Save(p) \/ StopAtBound(p)

Next == \E p \in Processes : Step(p) \/ Kill(p) \/ \E kind \in Kinds : Begin(p, kind)

Spec == Init /\ [][Next]_vars

\* Processes that were begun go on, and there is always another one: systemd
\* keeps the service up.
FairSpec == Spec /\ \A p \in Processes : WF_vars(Step(p)) /\ WF_vars(Begin(p, "look"))

-----------------------------------------------------------------------------
Steps == {"idle", "initialize", "recover", "migrate", "store", "rename", "read",
          "create", "store new", "change", "save"}

\* The values of the variables.
TypeOK ==
    /\ legacy \in BOOLEAN /\ backup \in BOOLEAN
    /\ db \in Settings \cup {None}
    /\ proc \in [Processes -> [at : Steps, kind : Kinds, copy : Settings \cup {None}]]
    /\ \A p \in Processes : proc[p].at \in {"change", "save"} => proc[p].copy # None /\ db # None
    /\ early \subseteq Processes
    /\ kills \in 0..MaxKills

\* Wherever processes are killed, the configuration is in the database or
\* still in config.json, never in the backup only, where nothing looks for it.
BackupMeansStored == backup => db # None

\* An encrypted password can be decrypted with the user's key and is hers:
\* normalize_loaded_config refuses the whole configuration otherwise, and the
\* service does not start again.  Keys are rotated and passwords changed on
\* copies, while recoveries store without a new revision.
EncryptedFits ==
    db # None /\ db.encrypted # None => db.encrypted = Encrypt(db.key, db.password)

\* Killed wherever it may be, a migration leaves the configuration where it is
\* looked for, and passwords that can be decrypted with the user's key
\* (initialize, migrate_legacy_config, recover_passwords_from_legacy_backups).
StoredAndReadable == TypeOK /\ BackupMeansStored /\ EncryptedFits

\* Settings are stored over others, with the revision starting anew, only by a
\* process that had begun to migrate, or to create, before there were any: a
\* config.json that a killed migration has left behind is not migrated again.
\* What is saved rests on the revision never going back.  And an encrypted
\* password that was recovered is not lost again, although the recovery leaves
\* the revision as it is and a copy read before could be saved over it.
NothingTakenBack ==
    [][db # None =>
         \/ /\ db' # None
            /\ db'.revision >= db.revision
            /\ db.encrypted # None => db'.encrypted # None
         \/ \E p \in Processes : \/ proc[p].at = "store" /\ p \in early
                                 \/ proc[p].at = "store new"]_vars

\* "config.json is migrated and a backup with a timestamp is kept": once the
\* configuration is in the database, config.json becomes the backup.
LegacyBecomesBackup == legacy /\ db # None ~> ~ legacy /\ backup

=============================================================================
