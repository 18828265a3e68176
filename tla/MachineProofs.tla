---------------------------- MODULE MachineProofs ----------------------------
(***************************************************************************)
(* Proofs about MCMachine: Migration, Installation, ServiceLife, and what  *)
(* they are together.                                                      *)
(*                                                                         *)
(* Migration.  Where a process stands says what must be in the database;   *)
(* and a machine is in one of three eras, which it does not leave: it had  *)
(* a config.json, it had a database without encrypted passwords beside a   *)
(* backup, or it had nothing.                                              *)
(*                                                                         *)
(* Installation.  A job's steps lean on what its earlier steps have left:  *)
(* the installer's copy is that of the program that was there, the         *)
(* settings and the unit are in place when the service starts, and the     *)
(* uninstaller removes FRPS only if it is still the one it looked at,      *)
(* since nobody else changes it while a job is at work.                    *)
(*                                                                         *)
(* ServiceLife.  Where a start is says exactly which ports it holds.       *)
(***************************************************************************)
EXTENDS MCMachine, TLAPS

-----------------------------------------------------------------------------
(* The invariant.                                                          *)

ProcStates == [at : Steps, kind : Kinds, copy : Settings \cup {None}]

Fits(s) == s.encrypted # None => s.encrypted = Encrypt(s.key, s.password)

\* What a process may rely on.
Relies(p) ==
    LET r == proc[p]
    IN  /\ r.copy # None => db # None /\ Fits(r.copy) /\ r.copy.key <= r.copy.revision
        /\ r.at = "change" => r.copy # None /\ r.copy.key < r.copy.revision
        /\ r.at = "save" => r.copy # None
        /\ r.at \in {"recover", "rename"} => db # None
        /\ r.at \in {"migrate", "store", "rename"} => p \in early

DbSound == db # None => Fits(db) /\ db.key < db.revision

\* All settings come from config.json, with their passwords encrypted.
InLegacy(p) ==
    /\ proc[p].copy # None => proc[p].copy.encrypted # None
    /\ proc[p].at \notin {"recover", "create", "store new"}
    /\ proc[p].at = "read" => db # None

LegacyEra ==
    /\ legacy \/ backup
    /\ db # None => db.encrypted # None
    /\ \A p \in Processes : InLegacy(p)

\* There is nothing a recovery could add.
Recovered(s) == s.encrypted = None => s.password # First

\* What is read has been recovered as far as it can be, and as long as it is
\* what is stored, no recovery adds to it.
InBackup(p) ==
    /\ proc[p].at \notin {"migrate", "store", "rename", "create", "store new"}
    /\ proc[p].at = "read" => Recovered(db)
    /\ proc[p].copy # None =>
         /\ Recovered(proc[p].copy)
         /\ proc[p].copy.revision <= db.revision
         /\ proc[p].copy.encrypted = None /\ proc[p].copy.revision = db.revision
              => db.encrypted = None /\ db.password # First

BackupEra ==
    /\ ~ legacy /\ backup /\ db # None
    /\ \A p \in Processes : InBackup(p)

\* The user's password has never been set.
Blank(s) == s.password = None /\ s.encrypted = None

InFresh(p) ==
    /\ proc[p].at \notin {"recover", "migrate", "store", "rename"}
    /\ proc[p].copy # None => Blank(proc[p].copy)

FreshEra ==
    /\ ~ legacy /\ ~ backup
    /\ db # None => Blank(db)
    /\ \A p \in Processes : InFresh(p)

Era == LegacyEra \/ BackupEra \/ FreshEra

Types ==
    /\ legacy \in BOOLEAN /\ backup \in BOOLEAN
    /\ db \in Settings \cup {None}
    /\ proc \in [Processes -> ProcStates]
    /\ early \subseteq Processes
    /\ kills \in 0..MaxKills

MigrationInv ==
    /\ Types /\ BackupMeansStored /\ DbSound
    /\ \A p \in Processes : Relies(p)
    /\ Era

-----------------------------------------------------------------------------
(* Settings and processes.                                                 *)

\* New settings are settings.
LEMMA NewAreSettings ==
  ASSUME NEW password \in Passwords, NEW encrypted \in Encryptions \cup {None}
  PROVE  LET s == NewSettings(password, encrypted)
         IN  /\ s \in Settings /\ s # None
             /\ s.revision = 1 /\ s.key = 0 /\ s.password = password /\ s.encrypted = encrypted
<1>1. 1 \in 1..MaxRevision /\ 0 \in 0..MaxRevision /\ None \notin Settings
  BY MigrationConstants
<1> QED
  BY <1>1 DEF NewSettings, Settings

\* A password, encrypted with a key.
LEMMA EncryptType ==
  ASSUME NEW key \in 0..MaxRevision, NEW password \in Passwords
  PROVE  Encrypt(key, password) \in Encryptions /\ Encrypt(key, password) # None
BY MigrationConstants DEF Encrypt, Encryptions

\* The fields of settings.
LEMMA SettingsFields ==
  ASSUME NEW s \in Settings
  PROVE  /\ s # None /\ s.revision \in 1..MaxRevision /\ s.key \in 0..MaxRevision
         /\ s.password \in Passwords /\ s.encrypted \in Encryptions \cup {None}
         /\ s.changes \subseteq Processes
BY MigrationConstants DEF Settings

\* A process goes to its next step.
LEMMA GoesTo ==
  ASSUME Types, NEW p \in Processes, NEW to \in Steps, Goes(p, to)
  PROVE  /\ proc' \in [Processes -> ProcStates]
         /\ proc'[p].at = to /\ proc'[p].copy = proc[p].copy
         /\ \A q \in Processes : q # p => proc'[q] = proc[q]
BY DEF Types, Goes, ProcStates

\* A process ends.
LEMMA EndsIdle ==
  ASSUME Types, NEW p \in Processes, Ends(p)
  PROVE  /\ proc' \in [Processes -> ProcStates]
         /\ proc'[p].at = "idle" /\ proc'[p].copy = None
         /\ \A q \in Processes : q # p => proc'[q] = proc[q]
BY DEF Types, Ends, Idle, ProcStates, Steps, Kinds

\* initialize returns.
LEMMA Returned ==
  ASSUME Types, NEW p \in Processes, Return(p)
  PROVE  /\ proc' \in [Processes -> ProcStates]
         /\ proc'[p].at = IF proc[p].copy = None THEN "read" ELSE "save"
         /\ proc'[p].copy = proc[p].copy
         /\ \A q \in Processes : q # p => proc'[q] = proc[q]
<1>1. (IF proc[p].copy = None THEN "read" ELSE "save") \in Steps
  BY DEF Steps
<1> QED
  BY <1>1, GoesTo DEF Return

\* What a process makes of its copy.
LEMMA ResultOfCopy ==
  ASSUME Types, NEW p \in Processes, proc[p].copy \in Settings, Fits(proc[p].copy),
         proc[p].copy.key < proc[p].copy.revision,
         proc[p].kind \in NeedsUser => proc[p].copy.password # None
  PROVE  LET c == proc[p].copy
             r == Result(p)
         IN  /\ r \in Settings /\ Fits(r) /\ r.key <= r.revision /\ r.revision = c.revision
             /\ c.encrypted # None => r.encrypted # None
             /\ r.encrypted = None => r.password = c.password
             /\ Blank(c) => Blank(r)
<1> DEFINE c == proc[p].copy
           r == Result(p)
<1>1. /\ c \in Settings /\ c # None /\ c.revision \in 1..MaxRevision /\ c.key \in 0..MaxRevision
      /\ c.password \in Passwords /\ c.encrypted \in Encryptions \cup {None}
      /\ c.changes \subseteq Processes /\ c.key < c.revision /\ Fits(c)
  BY SettingsFields
<1> HIDE DEF c
<1>2. c.key + 1 \in 0..MaxRevision /\ c.key + 1 <= c.revision /\ MaxRevision \in Nat
  BY <1>1, MigrationConstants
<1>3. CASE proc[p].kind = "rotate key"
  <2>1. r = Changed(p, Rotated(c))
    BY <1>3 DEF Result, c
  <2> DEFINE e == IF c.encrypted = None THEN None ELSE Encrypt(c.key + 1, c.encrypted.password)
  <2>2. c.encrypted # None => c.encrypted.password = c.password
    BY <1>1 DEF Fits, Encrypt
  <2>3. e \in Encryptions \cup {None} /\ (e # None => e = Encrypt(c.key + 1, c.password))
        /\ (c.encrypted # None => e # None)
    BY <1>1, <1>2, <2>2, EncryptType
  <2>4. r = [c EXCEPT !.key = c.key + 1, !.encrypted = e, !.changes = c.changes \cup {p}]
    BY <1>1, <2>1 DEF Changed, Rotated, Settings
  <2>5. c.encrypted = None => e = None
    OBVIOUS
  <2> HIDE DEF r, e
  <2>6. /\ r.key = c.key + 1 /\ r.encrypted = e /\ r.revision = c.revision
        /\ r.password = c.password /\ r.changes = c.changes \cup {p}
        /\ r \in Settings
    BY <1>1, <1>2, <2>3, <2>4 DEF Settings
  <2> QED
    BY <1>1, <1>2, <2>3, <2>5, <2>6 DEF Fits, Blank, c, r
<1>4. CASE proc[p].kind = "change password"
  <2>1. r = Changed(p, PasswordChanged(c)) /\ c.password # None
    BY <1>4 DEF Result, c, NeedsUser
  <2> DEFINE e == Encrypt(c.key, "other")
  <2>2. e \in Encryptions /\ e # None /\ "other" \in Passwords
    BY <1>1, EncryptType DEF Passwords
  <2>3. r = [c EXCEPT !.password = "other", !.encrypted = e, !.changes = c.changes \cup {p}]
    BY <1>1, <2>1 DEF Changed, PasswordChanged, Settings
  <2>4. e = Encrypt(c.key, "other")
    OBVIOUS
  <2> HIDE DEF r, e
  <2>5. /\ r.key = c.key /\ r.encrypted = e /\ r.revision = c.revision
        /\ r.password = "other" /\ r.changes = c.changes \cup {p}
        /\ r \in Settings
    BY <1>1, <2>2, <2>3 DEF Settings
  <2> QED
    BY <1>1, <2>1, <2>2, <2>4, <2>5 DEF Fits, Blank, c, r
<1>5. CASE proc[p].kind \notin {"rotate key", "change password"}
  <2>1. r = Changed(p, c)
    BY <1>5 DEF Result, c
  <2>2. r = [c EXCEPT !.changes = c.changes \cup {p}]
    BY <1>1, <2>1 DEF Changed
  <2> HIDE DEF r
  <2>3. /\ r.key = c.key /\ r.encrypted = c.encrypted /\ r.revision = c.revision
        /\ r.password = c.password /\ r \in Settings
    BY <1>1, <2>2 DEF Settings
  <2> QED
    BY <1>1, <2>3 DEF Fits, Blank, c, r
<1> QED
  BY <1>3, <1>4, <1>5

-----------------------------------------------------------------------------
(* The steps.                                                              *)

\* A step of one process that leaves database and files alone.
LEMMA LocalStep ==
  ASSUME MigrationInv, NEW p \in Processes, Types',
         UNCHANGED <<legacy, backup, db>>,
         \A q \in Processes : q # p => proc'[q] = proc[q] /\ (q \in early => q \in early'),
         Relies(p)',
         LegacyEra => InLegacy(p)', BackupEra => InBackup(p)', FreshEra => InFresh(p)'
  PROVE  MigrationInv'
<1>1. BackupMeansStored' /\ DbSound'
  BY DEF MigrationInv, BackupMeansStored, DbSound, Fits
<1>2. \A q \in Processes : Relies(q)'
  <2> SUFFICES ASSUME NEW q \in Processes, q # p PROVE Relies(q)'
    OBVIOUS
  <2> QED
    BY DEF MigrationInv, Relies, Fits
<1>3. CASE LegacyEra
  <2>1. \A q \in Processes : q # p => InLegacy(q)'
    BY <1>3 DEF LegacyEra, InLegacy
  <2> QED
    BY <1>1, <1>2, <1>3, <2>1 DEF MigrationInv, Era, LegacyEra
<1>4. CASE BackupEra
  <2>1. \A q \in Processes : q # p => InBackup(q)'
    BY <1>4 DEF BackupEra, InBackup, Recovered
  <2> QED
    BY <1>1, <1>2, <1>4, <2>1 DEF MigrationInv, Era, BackupEra
<1>5. CASE FreshEra
  <2>1. \A q \in Processes : q # p => InFresh(q)'
    BY <1>5 DEF FreshEra, InFresh, Blank
  <2> QED
    BY <1>1, <1>2, <1>5, <2>1 DEF MigrationInv, Era, FreshEra, Blank
<1> QED
  BY <1>3, <1>4, <1>5 DEF MigrationInv, Era

\* What a process at rest may rely on.
LEMMA IdleStep ==
  ASSUME MigrationInv, NEW p \in Processes, Ends(p), early' \in SUBSET Processes,
         \A q \in Processes : q # p => (q \in early => q \in early'),
         kills' \in 0..MaxKills, UNCHANGED <<legacy, backup, db>>
  PROVE  MigrationInv'
<1>1. /\ proc' \in [Processes -> ProcStates]
      /\ proc'[p].at = "idle" /\ proc'[p].copy = None
      /\ \A q \in Processes : q # p => proc'[q] = proc[q]
  BY EndsIdle DEF MigrationInv
<1>2. Types'
  BY <1>1 DEF MigrationInv, Types
<1>3. Relies(p)' /\ InLegacy(p)' /\ InBackup(p)' /\ InFresh(p)'
  BY <1>1 DEF Relies, InLegacy, InBackup, InFresh
<1> QED
  BY <1>1, <1>2, <1>3, LocalStep

\* initialize: what a process finds decides what it does next.
LEMMA InitializeInv ==
  ASSUME MigrationInv, NEW p \in Processes, Initialize(p)
  PROVE  MigrationInv'
<1>1. /\ Types /\ Relies(p) /\ proc[p].at = "initialize"
      /\ UNCHANGED <<legacy, backup, db, kills>>
  BY DEF MigrationInv, Initialize, files
<1>2. CASE FindNothingToDo(p)
  <2>1. /\ proc' \in [Processes -> ProcStates]
        /\ proc'[p].at = IF proc[p].copy = None THEN "read" ELSE "save"
        /\ proc'[p].copy = proc[p].copy
        /\ \A q \in Processes : q # p => proc'[q] = proc[q]
    BY <1>1, <1>2, Returned DEF FindNothingToDo
  <2>2. early' = early /\ (db = None => ~ legacy) /\ (db # None => ~ PasswordMissing)
    BY <1>2 DEF FindNothingToDo
  <2>3. Types'
    BY <1>1, <2>1, <2>2 DEF Types
  <2>4. Relies(p)'
    BY <1>1, <2>1 DEF Relies, Fits
  <2>5. LegacyEra => InLegacy(p)'
    BY <1>1, <2>1, <2>2 DEF LegacyEra, InLegacy, MigrationInv, BackupMeansStored
  <2>6. BackupEra => InBackup(p)'
    BY <1>1, <2>1, <2>2, MigrationConstants DEF BackupEra, InBackup, Recovered,
       PasswordMissing, First
  <2>7. FreshEra => InFresh(p)'
    BY <2>1 DEF FreshEra, InFresh, Blank
  <2> QED
    BY <1>1, <2>1, <2>2, <2>3, <2>4, <2>5, <2>6, <2>7, LocalStep
<1>3. CASE FindPasswordMissing(p)
  <2>1. /\ proc' \in [Processes -> ProcStates]
        /\ proc'[p].at = "recover" /\ proc'[p].copy = proc[p].copy
        /\ \A q \in Processes : q # p => proc'[q] = proc[q]
    BY <1>1, <1>3, GoesTo DEF FindPasswordMissing, Steps
  <2>2. early' = early /\ db # None /\ db.encrypted = None /\ backup
    BY <1>3 DEF FindPasswordMissing, PasswordMissing
  <2>3. Types'
    BY <1>1, <2>1, <2>2 DEF Types
  <2>4. Relies(p)'
    BY <1>1, <2>1, <2>2 DEF Relies, Fits
  <2>5. ~ LegacyEra /\ ~ FreshEra
    BY <2>2 DEF LegacyEra, FreshEra
  <2>6. BackupEra => InBackup(p)'
    BY <1>1, <2>1 DEF BackupEra, InBackup, Recovered
  <2> QED
    BY <1>1, <2>1, <2>2, <2>3, <2>4, <2>5, <2>6, LocalStep
<1>4. CASE FindLegacy(p)
  <2>1. /\ proc' \in [Processes -> ProcStates]
        /\ proc'[p].at = "migrate" /\ proc'[p].copy = proc[p].copy
        /\ \A q \in Processes : q # p => proc'[q] = proc[q]
    BY <1>1, <1>4, GoesTo DEF FindLegacy, Steps
  <2>2. early' = early \cup {p} /\ db = None /\ legacy
    BY <1>4 DEF FindLegacy
  <2>3. Types'
    BY <1>1, <2>1, <2>2 DEF Types
  <2>4. Relies(p)'
    BY <1>1, <2>1, <2>2 DEF Relies, Fits
  <2>5. ~ BackupEra /\ ~ FreshEra
    BY <2>2 DEF BackupEra, FreshEra
  <2>6. LegacyEra => InLegacy(p)'
    BY <1>1, <2>1 DEF LegacyEra, InLegacy
  <2> QED
    BY <1>1, <2>1, <2>2, <2>3, <2>4, <2>5, <2>6, LocalStep
<1> QED
  BY <1>2, <1>3, <1>4 DEF Initialize

\* The steps of a process that leave the database alone.
LEMMA ReadingInv ==
  ASSUME MigrationInv, NEW p \in Processes,
         \/ Migrate(p) \/ Read(p) \/ NoSettings(p) \/ Create(p) \/ Change(p)
         \/ StopAtBound(p) \/ Kill(p) \/ \E kind \in Kinds : Begin(p, kind)
  PROVE  MigrationInv'
<1>1. /\ Types /\ Relies(p) /\ DbSound /\ early \subseteq Processes
      /\ UNCHANGED <<legacy, backup, db>> /\ kills \in 0..MaxKills
  BY DEF MigrationInv, Types, Migrate, Read, NoSettings, Create, Change, StopAtBound, Kill,
         Begin, files
<1>2. CASE Migrate(p)
  <2>1. CASE legacy
    <3>1. /\ proc' \in [Processes -> ProcStates]
          /\ proc'[p].at = "store" /\ proc'[p].copy = proc[p].copy
          /\ \A q \in Processes : q # p => proc'[q] = proc[q]
      BY <1>1, <1>2, <2>1, GoesTo DEF Migrate, Steps
    <3>2. early' = early /\ kills' = kills /\ proc[p].at = "migrate"
      BY <1>2, <2>1 DEF Migrate
    <3>3. Types' /\ Relies(p)'
      BY <1>1, <3>1, <3>2 DEF Types, Relies, Fits
    <3>4. /\ LegacyEra => InLegacy(p)'
          /\ ~ BackupEra /\ ~ FreshEra
      BY <2>1, <3>1 DEF LegacyEra, InLegacy, BackupEra, FreshEra
    <3> QED
      BY <1>1, <3>1, <3>2, <3>3, <3>4, LocalStep
  <2>2. CASE ~ legacy
    BY <1>1, <1>2, <2>2, IdleStep DEF Migrate
  <2> QED
    BY <2>1, <2>2
<1>3. CASE Read(p)
  <2>1. /\ proc[p].at = "read" /\ db # None
        /\ proc' = [proc EXCEPT ![p].at = "change", ![p].copy = db]
        /\ UNCHANGED <<early, kills>>
    BY <1>3 DEF Read
  <2>2. /\ proc' \in [Processes -> ProcStates]
        /\ proc'[p].at = "change" /\ proc'[p].copy = db
        /\ \A q \in Processes : q # p => proc'[q] = proc[q]
    BY <1>1, <2>1 DEF Types, ProcStates, Steps
  <2>3. db \in Settings /\ db.revision \in 1..MaxRevision /\ db.key \in 0..MaxRevision
    BY <1>1, <2>1, SettingsFields DEF Types
  <2>4. Types'
    BY <1>1, <2>1, <2>2 DEF Types
  <2>5. Relies(p)'
    BY <1>1, <2>1, <2>2, <2>3 DEF Relies, DbSound, Fits
  <2>6. /\ LegacyEra => InLegacy(p)'
        /\ FreshEra => InFresh(p)'
    BY <1>1, <2>1, <2>2 DEF LegacyEra, FreshEra, InLegacy, InFresh, Blank
  <2>7. ASSUME BackupEra PROVE InBackup(p)'
    <3>1. Recovered(db)
      BY <2>1, <2>7 DEF BackupEra, InBackup
    <3>2. db.revision <= db.revision
      BY <2>3
    <3>3. UNCHANGED db
      BY <1>1
    <3> QED
      BY <2>2, <3>1, <3>2, <3>3 DEF InBackup, Recovered
  <2> QED
    BY <1>1, <2>1, <2>2, <2>4, <2>5, <2>6, <2>7, LocalStep
<1>4. CASE NoSettings(p) \/ Create(p)
  <2>1. CASE Ends(p)
    BY <1>1, <1>4, <2>1, IdleStep DEF NoSettings, Create
  <2>2. ASSUME NEW to \in {"create", "store new"}, Goes(p, to), db = None
        PROVE  MigrationInv'
    <3>1. /\ proc' \in [Processes -> ProcStates]
          /\ proc'[p].at = to /\ proc'[p].copy = proc[p].copy
          /\ \A q \in Processes : q # p => proc'[q] = proc[q]
      BY <1>1, <2>2, GoesTo DEF Steps
    <3>2. UNCHANGED <<early, kills>> /\ proc[p].at \in {"read", "create"}
      BY <1>4 DEF NoSettings, Create
    <3>3. Types' /\ Relies(p)'
      BY <1>1, <2>2, <3>1, <3>2 DEF Types, Relies, Fits
    <3>4. ~ LegacyEra /\ ~ BackupEra
      BY <2>2, <3>2 DEF LegacyEra, InLegacy, BackupEra
    <3>5. FreshEra => InFresh(p)'
      BY <2>2, <3>1 DEF FreshEra, InFresh, Blank
    <3> QED
      BY <1>1, <3>1, <3>2, <3>3, <3>4, <3>5, LocalStep
  <2> QED
    BY <1>4, <2>1, <2>2 DEF NoSettings, Create
<1>5. CASE Change(p)
  <2>1. proc[p].at = "change" /\ UNCHANGED <<early, kills>>
    BY <1>5 DEF Change
  <2>2. CASE Ends(p)
    BY <1>1, <2>1, <2>2, IdleStep
  <2>3. CASE ~ Ends(p)
    <3> DEFINE c == proc[p].copy
               r == Result(p)
    <3>1. /\ proc' = [proc EXCEPT ![p].at = "initialize", ![p].copy = r]
          /\ proc[p].kind \in NeedsUser => c.password # None
      BY <1>5, <2>3 DEF Change
    <3>2. c \in Settings /\ c # None /\ Fits(c) /\ c.key < c.revision
      BY <1>1, <2>1 DEF Types, ProcStates, Relies
    <3>3. /\ r \in Settings /\ Fits(r) /\ r.key <= r.revision /\ r.revision = c.revision
          /\ c.encrypted # None => r.encrypted # None
          /\ r.encrypted = None => r.password = c.password
          /\ Blank(c) => Blank(r)
      BY <1>1, <3>1, <3>2, ResultOfCopy
    <3> HIDE DEF r
    <3>4. /\ proc' \in [Processes -> ProcStates]
          /\ proc'[p].at = "initialize" /\ proc'[p].copy = r
          /\ \A q \in Processes : q # p => proc'[q] = proc[q]
      BY <1>1, <3>1, <3>3 DEF Types, ProcStates, Steps
    <3>5. Types'
      BY <1>1, <2>1, <3>4 DEF Types
    <3>6. Relies(p)'
      BY <1>1, <3>2, <3>3, <3>4 DEF Relies, Fits
    <3>7. /\ LegacyEra => InLegacy(p)'
          /\ FreshEra => InFresh(p)'
      BY <3>2, <3>3, <3>4 DEF LegacyEra, FreshEra, InLegacy, InFresh
    <3>8. BackupEra => InBackup(p)'
      BY <1>1, <3>2, <3>3, <3>4 DEF BackupEra, InBackup, Recovered
    <3> QED
      BY <1>1, <2>1, <3>4, <3>5, <3>6, <3>7, <3>8, LocalStep
  <2> QED
    BY <2>2, <2>3
<1>6. CASE StopAtBound(p)
  BY <1>1, <1>6, IdleStep DEF StopAtBound
<1>7. CASE Kill(p)
  <2>1. kills' \in 0..MaxKills
    BY <1>1, <1>7, MigrationConstants DEF Kill
  <2> QED
    BY <1>1, <1>7, <2>1, IdleStep DEF Kill
<1>8. ASSUME NEW kind \in Kinds, Begin(p, kind) PROVE MigrationInv'
  <2>1. /\ proc' = [proc EXCEPT ![p] = [at |-> "initialize", kind |-> kind, copy |-> None]]
        /\ UNCHANGED <<early, kills>>
    BY <1>8 DEF Begin
  <2>2. /\ proc' \in [Processes -> ProcStates]
        /\ proc'[p].at = "initialize" /\ proc'[p].copy = None
        /\ \A q \in Processes : q # p => proc'[q] = proc[q]
    BY <1>1, <2>1 DEF Types, ProcStates, Steps
  <2>3. Types'
    BY <1>1, <2>1, <2>2 DEF Types
  <2>4. Relies(p)' /\ InLegacy(p)' /\ InBackup(p)' /\ InFresh(p)'
    BY <2>2 DEF Relies, InLegacy, InBackup, InFresh
  <2> QED
    BY <1>1, <2>1, <2>2, <2>3, <2>4, LocalStep
<1> QED
  BY <1>2, <1>3, <1>4, <1>5, <1>6, <1>7, <1>8

\* A recovery: only beside a backup, and it takes nothing from a copy.
LEMMA RecoverInv ==
  ASSUME MigrationInv, NEW p \in Processes, Recover(p)
  PROVE  MigrationInv'
<1>1. /\ Types /\ Relies(p) /\ DbSound /\ proc[p].at = "recover" /\ db # None
      /\ UNCHANGED <<legacy, backup, early, kills>>
  BY DEF MigrationInv, Recover, files, Relies
<1>2. BackupEra
  BY <1>1 DEF MigrationInv, Era, LegacyEra, InLegacy, FreshEra, InFresh
<1>3. /\ proc' \in [Processes -> ProcStates]
      /\ proc'[p].at = IF proc[p].copy = None THEN "read" ELSE "save"
      /\ proc'[p].copy = proc[p].copy
      /\ \A q \in Processes : q # p => proc'[q] = proc[q]
  BY <1>1, Returned DEF Recover
<1>4. /\ db \in Settings /\ db.revision \in 1..MaxRevision /\ db.key \in 0..MaxRevision
      /\ db.password \in Passwords
  BY <1>1, SettingsFields DEF Types
<1>5. /\ db' \in Settings /\ db' # None /\ Fits(db') /\ db'.key < db'.revision
      /\ Recovered(db') /\ db'.revision = db.revision
      /\ db.encrypted = None /\ db.password # First => db' = db
  <2>1. CASE db.encrypted = None /\ db.password = First
    <3>1. db' = [db EXCEPT !.encrypted = Encrypt(db.key, First)]
      BY <2>1 DEF Recover
    <3>2. Encrypt(db.key, First) \in Encryptions /\ Encrypt(db.key, First) # None
      BY <1>4, EncryptType DEF Passwords
    <3>3. /\ db'.encrypted = Encrypt(db.key, First) /\ db'.key = db.key
          /\ db'.password = db.password /\ db'.revision = db.revision /\ db' \in Settings
      BY <1>4, <3>1, <3>2 DEF Settings
    <3>4. db' # None
      BY <3>3, SettingsFields
    <3> QED
      BY <1>1, <2>1, <3>2, <3>3, <3>4 DEF DbSound, Fits, Recovered
  <2>2. CASE ~ (db.encrypted = None /\ db.password = First)
    <3>1. db' = db
      BY <2>2 DEF Recover
    <3> QED
      BY <1>1, <1>4, <2>2, <3>1 DEF DbSound, Fits, Recovered
  <2> QED
    BY <2>1, <2>2
<1>6. Types' /\ BackupMeansStored' /\ DbSound'
  BY <1>1, <1>3, <1>5 DEF Types, BackupMeansStored, DbSound, Fits
<1>7. \A q \in Processes : Relies(q)'
  <2>1. Relies(p)'
    BY <1>1, <1>3, <1>5 DEF Relies, Fits
  <2>2. ASSUME NEW q \in Processes, q # p PROVE Relies(q)'
    BY <1>1, <1>3, <1>5, <2>2 DEF MigrationInv, Relies, Fits
  <2> QED
    BY <2>1, <2>2
<1>8. \A q \in Processes : InBackup(q)'
  <2>1. ASSUME NEW q \in Processes PROVE proc'[q].copy = proc[q].copy
    BY <1>3
  <2>2. ASSUME NEW q \in Processes
        PROVE  proc'[q].at \notin {"migrate", "store", "rename", "create", "store new"}
    BY <1>2, <1>3 DEF BackupEra, InBackup
  <2>3. ASSUME NEW q \in Processes, proc[q].copy # None
        PROVE  /\ Recovered(proc[q].copy)
               /\ proc[q].copy.revision <= db'.revision
               /\ proc[q].copy.encrypted = None /\ proc[q].copy.revision = db'.revision
                    => db'.encrypted = None /\ db'.password # First
    BY <1>2, <1>5, <2>3 DEF BackupEra, InBackup
  <2> QED
    BY <1>5, <2>1, <2>2, <2>3 DEF InBackup, Recovered
<1>9. BackupEra'
  BY <1>1, <1>2, <1>5, <1>8 DEF BackupEra
<1> QED
  BY <1>6, <1>7, <1>9 DEF MigrationInv, Era

\* Storing what came from config.json.
LEMMA StoreMigratedInv ==
  ASSUME MigrationInv, NEW p \in Processes, StoreMigrated(p)
  PROVE  MigrationInv'
<1>1. /\ Types /\ Relies(p) /\ proc[p].at = "store" /\ p \in early
      /\ UNCHANGED <<legacy, backup, early, kills>>
  BY DEF MigrationInv, StoreMigrated, files, Relies
<1>2. LegacyEra
  BY <1>1 DEF MigrationInv, Era, BackupEra, InBackup, FreshEra, InFresh
<1>3. /\ proc' \in [Processes -> ProcStates]
      /\ proc'[p].at = "rename" /\ proc'[p].copy = proc[p].copy
      /\ \A q \in Processes : q # p => proc'[q] = proc[q]
  BY <1>1, GoesTo DEF StoreMigrated, Steps
<1>4. /\ db' \in Settings /\ db' # None /\ Fits(db') /\ db'.key < db'.revision
      /\ db'.encrypted # None
  <2>1. First \in Passwords /\ 0 \in 0..MaxRevision
    BY MigrationConstants DEF Passwords
  <2>2. Encrypt(0, First) \in Encryptions /\ Encrypt(0, First) # None
    BY <2>1, EncryptType
  <2>3. db' = NewSettings(First, Encrypt(0, First))
    BY DEF StoreMigrated
  <2>4. /\ db' \in Settings /\ db' # None /\ db'.revision = 1 /\ db'.key = 0
        /\ db'.password = First /\ db'.encrypted = Encrypt(0, First)
    BY <2>1, <2>2, <2>3, NewAreSettings
  <2> QED
    BY <2>2, <2>4 DEF Fits
<1>5. Types' /\ BackupMeansStored' /\ DbSound'
  BY <1>1, <1>3, <1>4 DEF Types, BackupMeansStored, DbSound, Fits
<1>6. \A q \in Processes : Relies(q)'
  <2>1. Relies(p)'
    BY <1>1, <1>3, <1>4 DEF Relies, Fits
  <2>2. ASSUME NEW q \in Processes, q # p PROVE Relies(q)'
    BY <1>1, <1>3, <1>4, <2>2 DEF MigrationInv, Relies, Fits
  <2> QED
    BY <2>1, <2>2
<1>7. LegacyEra'
  BY <1>1, <1>2, <1>3, <1>4 DEF LegacyEra, InLegacy
<1> QED
  BY <1>5, <1>6, <1>7 DEF MigrationInv, Era

\* config.json becomes the backup.
LEMMA RenameLegacyInv ==
  ASSUME MigrationInv, NEW p \in Processes, RenameLegacy(p)
  PROVE  MigrationInv'
<1>1. /\ Types /\ Relies(p) /\ proc[p].at = "rename" /\ db # None
      /\ legacy' = FALSE /\ backup' = TRUE /\ early' = early \ {p}
      /\ UNCHANGED <<db, kills>>
  BY DEF MigrationInv, RenameLegacy, Relies
<1>2. LegacyEra
  BY <1>1 DEF MigrationInv, Era, BackupEra, InBackup, FreshEra, InFresh
<1>3. /\ proc' \in [Processes -> ProcStates]
      /\ proc'[p].at \in {"read", "save", "idle"}
      /\ proc'[p].copy = None \/ proc'[p].copy = proc[p].copy
      /\ proc'[p].at = "save" => proc'[p].copy # None
      /\ \A q \in Processes : q # p => proc'[q] = proc[q]
  <2>1. CASE legacy
    BY <1>1, <2>1, Returned DEF RenameLegacy
  <2>2. CASE ~ legacy
    BY <1>1, <2>2, EndsIdle DEF RenameLegacy
  <2> QED
    BY <2>1, <2>2
<1>4. Types' /\ BackupMeansStored' /\ DbSound'
  BY <1>1, <1>3 DEF MigrationInv, Types, BackupMeansStored, DbSound, Fits
<1>5. \A q \in Processes : Relies(q)'
  <2>1. Relies(p)'
    BY <1>1, <1>3 DEF Relies, Fits
  <2>2. ASSUME NEW q \in Processes, q # p PROVE Relies(q)'
    BY <1>1, <1>3, <2>2 DEF MigrationInv, Relies, Fits
  <2> QED
    BY <2>1, <2>2
<1>6. LegacyEra'
  BY <1>1, <1>2, <1>3 DEF LegacyEra, InLegacy
<1> QED
  BY <1>4, <1>5, <1>6 DEF MigrationInv, Era

\* New settings: only where there never were any.
LEMMA StoreNewInv ==
  ASSUME MigrationInv, NEW p \in Processes, StoreNew(p)
  PROVE  MigrationInv'
<1>1. /\ Types /\ Relies(p) /\ proc[p].at = "store new"
      /\ UNCHANGED <<legacy, backup, early, kills>>
  BY DEF MigrationInv, StoreNew, files
<1>2. FreshEra
  BY <1>1 DEF MigrationInv, Era, BackupEra, InBackup, LegacyEra, InLegacy
<1>3. /\ proc' \in [Processes -> ProcStates]
      /\ proc'[p].at = "idle" /\ proc'[p].copy = None
      /\ \A q \in Processes : q # p => proc'[q] = proc[q]
  BY <1>1, EndsIdle DEF StoreNew
<1>4. /\ db' \in Settings /\ db' # None /\ Fits(db') /\ db'.key < db'.revision /\ Blank(db')
  <2>1. db' = NewSettings(None, None) /\ None \in Passwords
    BY DEF StoreNew, Passwords
  <2>2. /\ db' \in Settings /\ db' # None /\ db'.revision = 1 /\ db'.key = 0
        /\ db'.password = None /\ db'.encrypted = None
    BY <2>1, NewAreSettings
  <2> QED
    BY <2>2 DEF Fits, Blank
<1>5. Types' /\ BackupMeansStored' /\ DbSound'
  BY <1>1, <1>3, <1>4 DEF Types, BackupMeansStored, DbSound, Fits
<1>6. \A q \in Processes : Relies(q)'
  <2>1. Relies(p)'
    BY <1>3 DEF Relies
  <2>2. ASSUME NEW q \in Processes, q # p PROVE Relies(q)'
    BY <1>1, <1>3, <1>4, <2>2 DEF MigrationInv, Relies, Fits
  <2> QED
    BY <2>1, <2>2
<1>7. \A q \in Processes : InFresh(q)'
  BY <1>2, <1>3 DEF FreshEra, InFresh, Blank
<1>8. FreshEra'
  BY <1>1, <1>2, <1>4, <1>7 DEF FreshEra, Blank
<1> QED
  BY <1>5, <1>6, <1>8 DEF MigrationInv, Era

\* What a save stores, if it does: the copy, which no recovery was later than.
LEMMA Saved ==
  ASSUME MigrationInv, NEW p \in Processes, Save(p)
  PROVE  /\ db # None /\ proc[p].copy # None /\ proc[p].copy \in Settings
         /\ db' \in Settings /\ db' # None /\ Fits(db') /\ db'.key < db'.revision
         /\ db.revision \in Nat /\ db'.revision \in Nat
         /\ \/ db' = db
            \/ /\ db'.revision = db.revision + 1
               /\ db'.password = proc[p].copy.password
               /\ db'.encrypted = proc[p].copy.encrypted
               /\ db.revision = proc[p].copy.revision
<1> DEFINE c == proc[p].copy
<1>1. /\ Types /\ Relies(p) /\ DbSound /\ proc[p].at = "save"
  BY DEF MigrationInv, Save
<1>2. c # None /\ c \in Settings /\ db # None /\ db \in Settings /\ Fits(c) /\ c.key <= c.revision
  BY <1>1 DEF Relies, Types, ProcStates
<1>3. /\ c.revision \in 1..MaxRevision /\ c.key \in 0..MaxRevision
      /\ db.revision \in 1..MaxRevision /\ db.key \in 0..MaxRevision
      /\ db.key < db.revision /\ Fits(db) /\ MaxRevision \in Nat
  BY <1>1, <1>2, SettingsFields, MigrationConstants DEF DbSound
<1>4. CASE db.revision = c.revision
  <2>1. db' = [c EXCEPT !.revision = c.revision + 1] /\ c.revision < MaxRevision
    BY <1>2, <1>4 DEF Save, Settings
  <2> HIDE DEF c
  <2>2. c.revision + 1 \in 1..MaxRevision
    BY <1>3, <2>1
  <2>3. /\ db' \in Settings /\ db'.revision = c.revision + 1 /\ db'.key = c.key
        /\ db'.password = c.password /\ db'.encrypted = c.encrypted
    BY <1>2, <2>1, <2>2 DEF Settings
  <2>4. db' # None
    BY <2>3, SettingsFields
  <2>5. Fits(db') /\ db'.key < db'.revision /\ db.revision \in Nat /\ db'.revision \in Nat
    BY <1>2, <1>3, <2>3 DEF Fits
  <2> QED
    BY <1>2, <1>3, <1>4, <2>3, <2>4, <2>5 DEF c
<1>5. CASE db.revision # c.revision
  <2>1. db' = db
    BY <1>5 DEF Save
  <2> QED
    BY <1>2, <1>3, <2>1 DEF Fits
<1> QED
  BY <1>4, <1>5

\* A save.
LEMMA SaveInv ==
  ASSUME MigrationInv, NEW p \in Processes, Save(p)
  PROVE  MigrationInv'
<1>1. /\ Types /\ UNCHANGED <<legacy, backup, early, kills>> /\ Relies(p)
  BY DEF MigrationInv, Save, files
<1>2. /\ db # None /\ proc[p].copy # None /\ proc[p].copy \in Settings
      /\ db' \in Settings /\ db' # None /\ Fits(db') /\ db'.key < db'.revision
      /\ db.revision \in Nat /\ db'.revision \in Nat
      /\ \/ db' = db
         \/ /\ db'.revision = db.revision + 1
            /\ db'.password = proc[p].copy.password
            /\ db'.encrypted = proc[p].copy.encrypted
            /\ db.revision = proc[p].copy.revision
  BY Saved
<1>3. /\ proc' \in [Processes -> ProcStates]
      /\ proc'[p].at = "idle" /\ proc'[p].copy = None
      /\ \A q \in Processes : q # p => proc'[q] = proc[q]
  BY <1>1, EndsIdle DEF Save
<1>4. Types' /\ BackupMeansStored' /\ DbSound'
  BY <1>1, <1>2, <1>3 DEF Types, BackupMeansStored, DbSound, Fits
<1>5. \A q \in Processes : Relies(q)'
  <2>1. Relies(p)'
    BY <1>3 DEF Relies
  <2>2. ASSUME NEW q \in Processes, q # p PROVE Relies(q)'
    BY <1>1, <1>2, <1>3, <2>2 DEF MigrationInv, Relies, Fits
  <2> QED
    BY <2>1, <2>2
<1>6. ASSUME LegacyEra PROVE LegacyEra'
  <2>1. db'.encrypted # None
    BY <1>2, <1>6 DEF LegacyEra, InLegacy
  <2>2. \A q \in Processes : InLegacy(q)'
    BY <1>2, <1>3, <1>6 DEF LegacyEra, InLegacy
  <2> QED
    BY <1>1, <1>6, <2>1, <2>2 DEF LegacyEra
<1>7. ASSUME BackupEra PROVE BackupEra'
  <2>1. InBackup(p)'
    BY <1>3 DEF InBackup
  <2>2. ASSUME NEW q \in Processes, q # p PROVE InBackup(q)'
    <3>1. proc'[q] = proc[q] /\ InBackup(q) /\ InBackup(p)
      BY <1>3, <1>7, <2>2 DEF BackupEra
    <3>2. CASE db' = db
      BY <3>1, <3>2 DEF InBackup, Recovered
    <3>3. CASE db' # db
      <4>1. /\ db'.revision = db.revision + 1
            /\ db'.password = proc[p].copy.password
            /\ db'.encrypted = proc[p].copy.encrypted
        BY <1>2, <3>3
      <4>2. Recovered(db')
        BY <1>2, <3>1, <4>1 DEF InBackup, Recovered
      <4>3. proc[q].copy # None => proc[q].copy.revision \in Nat
        BY <1>1, SettingsFields DEF Types, ProcStates
      <4>4. proc[q].copy # None => /\ proc[q].copy.revision <= db'.revision
                                   /\ proc[q].copy.revision # db'.revision
        <5>1. proc[q].copy # None => proc[q].copy.revision <= db.revision
          BY <3>1 DEF InBackup
        <5> QED
          BY <1>2, <4>1, <4>3, <5>1
      <4> QED
        BY <3>1, <4>2, <4>4 DEF InBackup, Recovered
    <3> QED
      BY <3>2, <3>3
  <2> QED
    BY <1>1, <1>2, <1>7, <2>1, <2>2 DEF BackupEra
<1>8. ASSUME FreshEra PROVE FreshEra'
  <2>1. Blank(db')
    BY <1>2, <1>8 DEF FreshEra, InFresh, Blank
  <2>2. \A q \in Processes : InFresh(q)'
    BY <1>3, <1>8 DEF FreshEra, InFresh, Blank
  <2> QED
    BY <1>1, <1>8, <2>1, <2>2 DEF FreshEra, Blank
<1> QED
  BY <1>4, <1>5, <1>6, <1>7, <1>8 DEF MigrationInv, Era

-----------------------------------------------------------------------------
(* The theorems.                                                           *)

\* Each of the three kinds of machine Init allows is in its era.
LEMMA InitInv ==
  ASSUME Init
  PROVE  MigrationInv
<1>1. proc = [p \in Processes |-> Idle] /\ early = {} /\ kills = 0
  BY DEF Init
<1>2. proc \in [Processes -> ProcStates]
  BY <1>1 DEF Idle, ProcStates, Steps, Kinds
<1>3. \A p \in Processes : proc[p].at = "idle" /\ proc[p].copy = None
  BY <1>1 DEF Idle
<1>4. \A p \in Processes : Relies(p) /\ InLegacy(p) /\ InBackup(p) /\ InFresh(p)
  BY <1>3 DEF Relies, InLegacy, InBackup, InFresh
<1>5. kills \in 0..MaxKills
  BY <1>1, MigrationConstants
<1>6. CASE legacy = TRUE /\ backup = FALSE /\ db = None
  BY <1>1, <1>2, <1>4, <1>5, <1>6
     DEF MigrationInv, Types, BackupMeansStored, DbSound, Era, LegacyEra
<1>7. CASE /\ legacy = FALSE /\ backup = TRUE
           /\ \E password \in {First, "other"} : db = NewSettings(password, None)
  <2>1. PICK password \in {First, "other"} : db = NewSettings(password, None)
    BY <1>7
  <2>2. /\ db \in Settings /\ db # None /\ db.revision = 1 /\ db.key = 0 /\ db.encrypted = None
    BY <2>1, NewAreSettings DEF Passwords
  <2> QED
    <3>1. Types /\ BackupMeansStored /\ DbSound
      <4>1. legacy \in BOOLEAN /\ backup \in BOOLEAN
        BY <1>7
      <4>2. db.key < db.revision
        BY <2>2
      <4> QED
        BY <1>1, <1>2, <1>5, <2>2, <4>1, <4>2 DEF Types, BackupMeansStored, DbSound, Fits
    <3>2. BackupEra
      BY <1>4, <1>7, <2>2 DEF BackupEra
    <3> QED
      BY <1>4, <3>1, <3>2 DEF MigrationInv, Era
<1>8. CASE legacy = FALSE /\ backup = FALSE /\ db = None
  BY <1>1, <1>2, <1>4, <1>5, <1>8
     DEF MigrationInv, Types, BackupMeansStored, DbSound, Era, FreshEra
<1> QED
  BY <1>6, <1>7, <1>8 DEF Init

\* Every step of every process keeps the invariant.
LEMMA NextInv ==
  ASSUME MigrationInv, [Next]_vars
  PROVE  MigrationInv'
<1>1. ASSUME NEW p \in Processes, Step(p) \/ Kill(p) \/ \E kind \in Kinds : Begin(p, kind)
      PROVE  MigrationInv'
  BY <1>1, InitializeInv, RecoverInv, StoreMigratedInv, RenameLegacyInv, StoreNewInv, SaveInv,
     ReadingInv DEF Step
<1>2. CASE UNCHANGED vars
  BY <1>2 DEF vars, files, MigrationInv, Types, BackupMeansStored, DbSound, Relies, Fits, Era,
     LegacyEra, BackupEra, FreshEra, InLegacy, InBackup, InFresh, Blank, Recovered
<1> QED
  BY <1>1, <1>2 DEF Next

\* The invariant, whatever the processes do and wherever they are killed.
THEOREM MigrationInvariant == Spec => []MigrationInv
BY InitInv, NextInv, PTL DEF Spec

\* The configuration is always in the database or still in config.json, and
\* its password can be decrypted with the user's key.
THEOREM StoredTheorem == Spec => []StoredAndReadable
<1>1. ASSUME MigrationInv PROVE StoredAndReadable
  <2>1. Types /\ BackupMeansStored /\ DbSound
    BY <1>1 DEF MigrationInv
  <2>2. ASSUME NEW p \in Processes, proc[p].at \in {"change", "save"}
        PROVE  proc[p].copy # None /\ db # None
    BY <1>1, <2>2 DEF MigrationInv, Relies
  <2>3. TypeOK
    BY <2>1, <2>2 DEF TypeOK, Types, ProcStates
  <2> QED
    BY <2>1, <2>3 DEF StoredAndReadable, EncryptedFits, DbSound, Fits
<1> QED
  BY <1>1, MigrationInvariant, PTL

\* Settings are stored over others only by a process that began before there
\* were any, and a recovered password is never saved over.
THEOREM NothingTakenBackTheorem == Spec => NothingTakenBack
<1> DEFINE Taken == \/ /\ db' # None
                       /\ db'.revision >= db.revision
                       /\ db.encrypted # None => db'.encrypted # None
                    \/ \E p \in Processes : \/ proc[p].at = "store" /\ p \in early
                                            \/ proc[p].at = "store new"
<1>1. ASSUME MigrationInv, [Next]_vars, db # None PROVE Taken
  <2>1. db \in Settings /\ db.revision \in Nat
    BY <1>1, SettingsFields DEF MigrationInv, Types
  <2>2. CASE UNCHANGED db
    <3>1. db'.revision >= db.revision
      BY <2>1, <2>2
    <3> QED
      BY <1>1, <2>2, <3>1
  <2>3. ASSUME NEW p \in Processes, Recover(p) PROVE Taken
    <3>1. CASE UNCHANGED db
      BY <2>2, <3>1
    <3>2. CASE db' = [db EXCEPT !.encrypted = Encrypt(db.key, First)]
      <4>1. Encrypt(db.key, First) # None
        BY <2>1, SettingsFields, EncryptType DEF Passwords
      <4>2. /\ db'.revision = db.revision /\ db'.encrypted = Encrypt(db.key, First)
            /\ db' \in Settings
        BY <2>1, <3>2, SettingsFields, EncryptType DEF Settings, Passwords
      <4>3. db' # None /\ db'.revision >= db.revision
        BY <2>1, <4>2, SettingsFields
      <4> QED
        BY <4>1, <4>2, <4>3
    <3> QED
      BY <2>3, <3>1, <3>2 DEF Recover
  <2>4. ASSUME NEW p \in Processes, Save(p) PROVE Taken
    <3>1. /\ db' # None /\ db.revision \in Nat /\ db'.revision \in Nat
          /\ proc[p].copy # None
          /\ \/ db' = db
             \/ /\ db'.revision = db.revision + 1
                /\ db'.password = proc[p].copy.password
                /\ db'.encrypted = proc[p].copy.encrypted
                /\ db.revision = proc[p].copy.revision
      BY <1>1, <2>4, Saved
    <3>2. db.encrypted # None /\ db' # db => proc[p].copy.encrypted # None
      BY <1>1, <3>1 DEF MigrationInv, Era, LegacyEra, BackupEra, FreshEra, InLegacy, InBackup,
         Blank
    <3>3. db'.revision >= db.revision
      BY <3>1
    <3> QED
      BY <3>1, <3>2, <3>3
  <2>5. ASSUME NEW p \in Processes, StoreMigrated(p) \/ StoreNew(p) PROVE Taken
    BY <1>1, <2>5 DEF StoreMigrated, StoreNew, MigrationInv, Relies
  <2>6. ASSUME NEW p \in Processes,
               \/ Initialize(p) \/ Migrate(p) \/ RenameLegacy(p) \/ Read(p) \/ NoSettings(p)
               \/ Create(p) \/ Change(p) \/ StopAtBound(p) \/ Kill(p)
               \/ \E kind \in Kinds : Begin(p, kind)
        PROVE  Taken
    <3>1. UNCHANGED db
      BY <2>6 DEF Initialize, Migrate, RenameLegacy, Read, NoSettings, Create, Change,
         StopAtBound, Kill, Begin
    <3> QED
      BY <2>2, <3>1
  <2>7. CASE UNCHANGED vars
    BY <2>2, <2>7 DEF vars
  <2> HIDE DEF Taken
  <2> QED
    BY <1>1, <2>3, <2>4, <2>5, <2>6, <2>7 DEF Next, Step
<1>2. ASSUME MigrationInv, [Next]_vars PROVE [db # None => Taken]_vars
  BY <1>1, <1>2
<1> QED
  BY <1>2, MigrationInvariant, PTL DEF Spec, NothingTakenBack

-----------------------------------------------------------------------------
(* The installation.                                                       *)

Configuring == job \in Install!Setups

\* What the steps a job has done have left behind.
JobProgress ==
    LET configuring == step \in Install!SetupSteps
    IN  /\ job # Install!Nothing => ended = Install!Nothing
        /\ job = "install" /\ step \in {"stop", "backup"} => before = server
        /\ job = "install" /\ (configuring \/ step \in {"replace", "menu command"})
             => copy = before
        /\ job = "install" /\ (configuring \/ step = "menu command")
             => server # Install!Nothing
        /\ job \in Install!Setups \ {"install"} => server # Install!Nothing
        /\ job \in Install!FrpsOnly => step \in {"frps", "marker"}
        /\ Configuring /\ step \in {"unit", "start"} => settings
        /\ Configuring /\ step = "start" => unitFile
        /\ job = "uninstall" /\ step # "stop" => running = Install!Nothing
        /\ job = "uninstall" /\ step \in {"config", "log", "remove frps"} /\ owned
             => binary = "ours"

InstallationInv ==
    Install!TypeOK /\ JobProgress /\ Install!RestoredIsOld /\ Install!InstalledRuns

USE DEF Install!Nothing, Install!Programs, Install!Foreign, Install!Frps, Install!Jobs,
        Install!Setups, Install!FrpsOnly, Install!Forced

-----------------------------------------------------------------------------
\* A machine without the program, or with an older one that runs.
LEMMA InstallInit == Install!Init => InstallationInv
BY DEF Install!Init, InstallationInv, Install!TypeOK, JobProgress, Install!RestoredIsOld,
       Install!InstalledRuns, Configuring, Install!SetupSteps

\* The installer's steps up to setup (install.sh install_server_binary).
LEMMA ReplacingInv ==
  ASSUME InstallationInv,
         Install!StopForInstall \/ Install!Backup \/ Install!Replace \/ Install!MenuCommand
  PROVE  InstallationInv'
<1> USE DEF InstallationInv, Install!TypeOK, JobProgress, Install!RestoredIsOld,
            Install!InstalledRuns, Configuring, Install!SetupSteps, Install!Does,
            Install!Then, Install!inJob, Install!files, Install!service
<1>1. CASE Install!StopForInstall
  BY <1>1 DEF Install!StopForInstall
<1>2. CASE Install!Backup
  BY <1>2 DEF Install!Backup
<1>3. CASE Install!Replace
  BY <1>3 DEF Install!Replace
<1>4. CASE Install!MenuCommand
  BY <1>4 DEF Install!MenuCommand
<1> QED
  BY <1>1, <1>2, <1>3, <1>4

\* The steps of command_setup, the failing ones included.
LEMMA SetupInv ==
  ASSUME InstallationInv,
         \/ Install!KeepFrps \/ Install!DownloadFrps \/ Install!MarkFrps
         \/ Install!StoreSettings \/ Install!InstallUnit
         \/ Install!StartService \/ Install!SetupFails
  PROVE  InstallationInv'
<1> USE DEF InstallationInv, Install!TypeOK, JobProgress, Install!RestoredIsOld,
            Install!InstalledRuns, Configuring, Install!SetupSteps, Install!InSetup, Install!Then,
            Install!Ends, Install!inJob, Install!files, Install!service, Install!FrpsDone
<1>1. CASE Install!KeepFrps
  BY <1>1 DEF Install!KeepFrps
<1>2. CASE Install!DownloadFrps
  BY <1>2 DEF Install!DownloadFrps
<1>3. CASE Install!MarkFrps
  BY <1>3 DEF Install!MarkFrps
<1>4. CASE Install!StoreSettings
  BY <1>4 DEF Install!StoreSettings
<1>5. CASE Install!InstallUnit
  BY <1>5 DEF Install!InstallUnit
<1>6. CASE Install!StartService
  BY <1>6 DEF Install!StartService
<1>7. CASE Install!SetupFails
  <2>1. CASE job = "install"
    BY <1>7, <2>1 DEF Install!SetupFails
  <2>2. CASE job # "install"
    BY <1>7, <2>2 DEF Install!SetupFails
  <2> QED
    BY <2>1, <2>2
<1> QED
  BY <1>1, <1>2, <1>3, <1>4, <1>5, <1>6, <1>7

\* The steps of command_uninstall.
LEMMA RemovingInv ==
  ASSUME InstallationInv,
         \/ Install!StopForUninstall \/ Install!RemoveUnit \/ Install!RemoveConfig
         \/ Install!RemoveLog
         \/ Install!RemoveFrps \/ Install!RemovePrograms
  PROVE  InstallationInv'
<1> USE DEF InstallationInv, Install!TypeOK, JobProgress, Install!RestoredIsOld,
            Install!InstalledRuns, Configuring, Install!SetupSteps, Install!Does, Install!Then,
            Install!Ends, Install!inJob, Install!files, Install!service
<1>1. CASE Install!StopForUninstall
  BY <1>1 DEF Install!StopForUninstall
<1>2. CASE Install!RemoveUnit
  BY <1>2 DEF Install!RemoveUnit, Install!OwnedFrps
<1>3. CASE Install!RemoveConfig
  BY <1>3 DEF Install!RemoveConfig
<1>4. CASE Install!RemoveLog
  BY <1>4 DEF Install!RemoveLog
<1>5. CASE Install!RemoveFrps
  BY <1>5 DEF Install!RemoveFrps
<1>6. CASE Install!RemovePrograms
  BY <1>6 DEF Install!RemovePrograms
<1> QED
  BY <1>1, <1>2, <1>3, <1>4, <1>5, <1>6

\* Jobs begin and are killed, and the administrator has an FRPS of her own.
LEMMA AroundInv ==
  ASSUME InstallationInv,
         \/ \E j \in Install!Jobs : Install!Begin(j)
         \/ Install!Stop
         \/ \E f \in Install!Foreign \cup {Install!Nothing} : Install!PutFrps(f)
  PROVE  InstallationInv'
<1> USE DEF InstallationInv, Install!TypeOK, JobProgress, Install!RestoredIsOld,
            Install!InstalledRuns, Configuring, Install!SetupSteps, Install!Ends,
            Install!inJob, Install!files, Install!service
<1>1. ASSUME NEW j \in Install!Jobs, Install!Begin(j) PROVE InstallationInv'
  BY <1>1 DEF Install!Begin, Install!FirstStep
<1>2. CASE Install!Stop
  BY <1>2 DEF Install!Stop
<1>3. ASSUME NEW f \in Install!Foreign \cup {Install!Nothing},
Install!PutFrps(f) PROVE InstallationInv'
  <2>1. job = Install!Nothing /\ job' = Install!Nothing
      /\ binary' \in Install!Frps \cup {Install!Nothing}
    BY <1>3 DEF Install!PutFrps
  <2>2. UNCHANGED <<step, ended, Install!inJob, server, marker, settings, unitFile, running,
  applied>>
    BY <1>3 DEF Install!PutFrps
  <2>3. Install!TypeOK'
    BY <2>1, <2>2
  <2>4. JobProgress' /\ Install!RestoredIsOld' /\ Install!InstalledRuns'
    BY <2>1, <2>2
  <2> QED
    BY <2>3, <2>4
<1> QED
  BY <1>1, <1>2, <1>3

\* The installation's inductive invariant.
THEOREM InstallationInvariant == Install!Spec => []InstallationInv
<1>1. InstallationInv /\ [Install!Next]_installVars => InstallationInv'
  <2> SUFFICES ASSUME InstallationInv, [Install!Next]_installVars PROVE InstallationInv'
    OBVIOUS
  <2>1. CASE Install!Next
    BY <2>1, ReplacingInv, SetupInv, RemovingInv, AroundInv DEF Install!Next
  <2>2. CASE UNCHANGED installVars
    <3>1. UNCHANGED <<job, step, copy, before, owned, ended, wasActive>>
      BY <2>2 DEF installVars
    <3>2. UNCHANGED <<server, binary, marker, settings, unitFile, running, applied>>
      BY <2>2 DEF installVars
    <3>3. /\ job' \in Install!Jobs \cup {Install!Nothing}
          /\ binary' \in Install!Frps \cup {Install!Nothing}
          /\ (running # Install!Nothing => server # Install!Nothing)'
          /\ step' = step /\ ended' = ended
          /\ wasActive' = wasActive /\ owned' = owned
      BY <3>1, <3>2 DEF InstallationInv, Install!TypeOK
    <3>4. /\ {server, copy, before, running}' = {server, copy, before, running}
          /\ {marker, settings, unitFile, applied}' = {marker, settings, unitFile, applied}
      BY <3>1, <3>2
    <3>5. Install!TypeOK'
      BY <3>3, <3>4, Zenon DEF InstallationInv, Install!TypeOK
    <3>6. Install!RestoredIsOld' /\ Install!InstalledRuns'
      BY <3>1, <3>2 DEF InstallationInv, Install!RestoredIsOld, Install!InstalledRuns
    <3>7. JobProgress'
      BY <3>1, <3>2 DEF InstallationInv, JobProgress, Configuring, Install!SetupSteps
    <3> QED
      BY <3>5, <3>6, <3>7 DEF InstallationInv
  <2> QED
    BY <2>1, <2>2
<1> QED
  BY InstallInit, <1>1, PTL DEF Install!Spec, Install!vars, installVars

\* No step takes away an FRPS that is not ours (app.rs owned_frps_matches).
LEMMA ForeignFrpsAlone == Install!Spec => Install!ForeignFrpsStays
<1> DEFINE Leaves == job # Install!Nothing /\ binary \in Install!Foreign =>
                       \/ binary' = binary
                       \/ job = "install" /\ binary = "other version" /\ binary' = "ours"
                       \/ job \in Install!Forced /\ binary' = "ours"
<1>1. InstallationInv /\ [Install!Next]_installVars => Leaves
  <2> SUFFICES ASSUME InstallationInv, [Install!Next]_installVars, job # Install!Nothing,
                      binary \in Install!Foreign
               PROVE  Leaves
    OBVIOUS
  <2>1. \/ binary' = binary \/ Install!DownloadFrps \/ Install!RemoveFrps
    BY DEF Install!Next, installVars, Install!files, Install!Begin, Install!StopForInstall,
           Install!Backup, Install!Replace, Install!MenuCommand, Install!KeepFrps,
           Install!MarkFrps, Install!StoreSettings, Install!InstallUnit, Install!StartService,
           Install!SetupFails, Install!StopForUninstall, Install!RemoveUnit,
           Install!RemoveConfig, Install!RemoveLog, Install!RemovePrograms, Install!Stop,
           Install!PutFrps
  <2>2. CASE Install!DownloadFrps
    BY <2>2 DEF Install!DownloadFrps, Install!InSetup, Install!FrpsIsFine
  <2>3. CASE Install!RemoveFrps
    BY <2>3 DEF Install!RemoveFrps, Install!Does, InstallationInv, JobProgress
  <2> QED
    BY <2>1, <2>2, <2>3
<1> QED
  BY <1>1, InstallationInvariant, PTL
     DEF Install!Spec, Install!vars, installVars, Install!ForeignFrpsStays

HIDE DEF Install!Nothing, Install!Programs, Install!Foreign, Install!Frps, Install!Jobs,
        Install!Setups, Install!FrpsOnly, Install!Forced

-----------------------------------------------------------------------------
(* The service.                                                            *)

\* The ports a process holds, by where it is in command_serve.
HeldSoFar ==
    /\ at \in {"none", "read"} => held = {}
    /\ at = "tunnels" => held \subseteq Tunnels
    /\ at = "api" => held = Tunnels
    /\ at = "plugin" => held = Tunnels \cup {"api"}
    /\ at \in {"frps", "serving"} => held = Life!Listeners

LifeInv ==
    /\ Life!TypeOK
    /\ HeldSoFar
    /\ at \in {"none"} \cup Life!Starting => child = "none"

\* The service is about to start, whatever ports other programs have.
LEMMA LifeInit == Life!Init => LifeInv
BY LifeConstants DEF Life!Init, LifeInv, Life!TypeOK, HeldSoFar, Life!Starting, Life!Ending,
   Life!Listeners

\* The counter of the faults stays within its bound.
LEMMA FaultCounted ==
  ASSUME LifeInv, Life!Fault
  PROVE  faults' \in 0..MaxFaults /\ wanted' = wanted /\ foreign' = foreign
BY LifeConstants DEF LifeInv, Life!TypeOK, Life!Fault

\* Whatever ends the process leaves nothing of it (Restart=always,
\* KillMode=mixed).
LEMMA GoneInv ==
  ASSUME LifeInv, Life!Gone, wanted' = wanted, foreign' = foreign, faults' \in 0..MaxFaults
  PROVE  LifeInv'
BY DEF LifeInv, Life!Gone, Life!Leftover, Life!TypeOK, HeldSoFar, Life!Starting

\* Up to where the service serves (app.rs command_serve).
LEMMA StartingInv ==
  ASSUME LifeInv,
         \/ Life!Launch \/ Life!Read \/ Life!TunnelsBound \/ Life!StartFrps
         \/ \E t \in Tunnels : Life!BindTunnel(t)
         \/ Life!BindServer("api", "plugin") \/ Life!BindServer("plugin", "frps")
  PROVE  LifeInv'
<1> USE DEF LifeInv, Life!TypeOK, HeldSoFar, Life!Starting, Life!Ending, Life!Listeners,
            Life!surroundings
<1>1. CASE Life!Launch
  BY <1>1 DEF Life!Launch
<1>2. CASE Life!Read
  BY <1>2 DEF Life!Read
<1>3. CASE Life!TunnelsBound
  BY <1>3 DEF Life!TunnelsBound
<1>4. CASE Life!StartFrps
  BY <1>4 DEF Life!StartFrps
<1>5. ASSUME NEW t \in Tunnels, Life!BindTunnel(t) PROVE LifeInv'
  BY <1>5 DEF Life!BindTunnel
<1>6. CASE Life!BindServer("api", "plugin")
  BY <1>6 DEF Life!BindServer
<1>7. CASE Life!BindServer("plugin", "frps")
  BY <1>7 DEF Life!BindServer
<1> QED
  BY <1>1, <1>2, <1>3, <1>4, <1>5, <1>6, <1>7

\* What ends the process at once.
LEMMA EndingAtOnceInv ==
  ASSUME LifeInv,
         \/ Life!ReadFails \/ Life!StartFrpsFails \/ Life!Kill \/ Life!Return \/ Life!BindFails
         \/ (Life!StopSignal \/ Life!StraySignal) /\ ~ Life!Leave
  PROVE  LifeInv'
<1>1. Life!Gone
  BY DEF Life!ReadFails, Life!StartFrpsFails, Life!Kill, Life!Return, Life!BindFails,
     Life!StopSignal, Life!StraySignal
<1>2. Life!Fault \/ UNCHANGED <<wanted, foreign, faults>>
  BY DEF Life!ReadFails, Life!StartFrpsFails, Life!Kill, Life!Return, Life!BindFails,
     Life!StopSignal, Life!StraySignal, Life!surroundings
<1>3. wanted' = wanted /\ foreign' = foreign /\ faults' \in 0..MaxFaults
  BY <1>2, FaultCounted DEF LifeInv, Life!TypeOK
<1> QED
  BY <1>1, <1>3, GoneInv

\* The shutdown, up to its last step.
LEMMA LeavingInv ==
  ASSUME LifeInv,
         \/ Life!FrpsEnded \/ Life!ServerEnds \/ Life!ShutdownController
         \/ Life!LastFlush \/ Life!EndFrps
         \/ (Life!StopSignal \/ Life!StraySignal) /\ Life!Leave
  PROVE  LifeInv'
<1> USE DEF LifeInv, Life!TypeOK, HeldSoFar, Life!Starting, Life!Ending, Life!Listeners
<1>1. CASE Life!Leave /\ (Life!Fault \/ UNCHANGED <<wanted, foreign, faults>>)
  <2>1. wanted' = wanted /\ foreign' = foreign /\ faults' \in 0..MaxFaults
    BY <1>1, FaultCounted
  <2> QED
    BY <1>1, <2>1 DEF Life!Leave
<1>2. CASE Life!ShutdownController
  BY <1>2 DEF Life!ShutdownController, Life!surroundings
<1>3. CASE Life!LastFlush
  BY <1>3 DEF Life!LastFlush, Life!surroundings
<1>4. CASE Life!EndFrps
  BY <1>4 DEF Life!EndFrps, Life!surroundings
<1> QED
  BY <1>1, <1>2, <1>3, <1>4
     DEF Life!FrpsEnded, Life!ServerEnds, Life!StopSignal, Life!StraySignal, Life!surroundings

\* FRPS, the administrator and other programs.
LEMMA BesideInv ==
  ASSUME LifeInv,
         \/ Life!FrpsStep \/ Life!FrpsCrashes \/ Life!SystemctlStop \/ Life!SystemctlStart
         \/ \E p \in Life!Ports : Life!TakePort(p) \/ Life!LeavePort(p)
  PROVE  LifeInv'
<1> USE DEF LifeInv, Life!TypeOK, HeldSoFar, Life!Starting, Life!Ending, Life!Listeners,
            Life!surroundings
<1>1. CASE Life!FrpsStep
  BY <1>1 DEF Life!FrpsStep, Life!FrpsListens, Life!FrpsFindsPortTaken
<1>2. CASE Life!FrpsCrashes
  <2>1. wanted' = wanted /\ foreign' = foreign /\ faults' \in 0..MaxFaults
    BY <1>2, FaultCounted DEF Life!FrpsCrashes
  <2> QED
    BY <1>2, <2>1 DEF Life!FrpsCrashes
<1>3. CASE Life!SystemctlStop
  BY <1>3 DEF Life!SystemctlStop
<1>4. CASE Life!SystemctlStart
  BY <1>4 DEF Life!SystemctlStart
<1>5. ASSUME NEW p \in Life!Ports, Life!TakePort(p) PROVE LifeInv'
  BY <1>5 DEF Life!TakePort
<1>6. ASSUME NEW p \in Life!Ports, Life!LeavePort(p) PROVE LifeInv'
  BY <1>6 DEF Life!LeavePort
<1> QED
  BY <1>1, <1>2, <1>3, <1>4, <1>5, <1>6

LEMMA LifeNext == LifeInv /\ [Life!Next]_lifeVars => LifeInv'
<1> SUFFICES ASSUME LifeInv, [Life!Next]_lifeVars PROVE LifeInv'
  OBVIOUS
<1>1. CASE Life!Next
  BY <1>1, StartingInv, EndingAtOnceInv, LeavingInv, BesideInv DEF Life!Next, Life!Progress
<1>2. CASE UNCHANGED lifeVars
  BY <1>2 DEF lifeVars, LifeInv, Life!TypeOK, HeldSoFar
<1> QED
  BY <1>1, <1>2

-----------------------------------------------------------------------------
(* The machine.                                                            *)

\* Every part of the machine behaves as it does alone.
LEMMA PartsOfMachine ==
  AllSpec => /\ Spec
             /\ Install!Spec
             /\ Life!Init /\ [][Life!Next]_lifeVars
<1>1. AllInit => Init /\ Install!Init /\ Life!Init
  BY DEF AllInit
<1>2. [AllNext]_AllVars => [Next]_vars
  BY DEF AllNext, AllVars
<1>3. [AllNext]_AllVars => [Install!Next]_installVars
  BY DEF AllNext, AllVars
<1>4. [AllNext]_AllVars => [Life!Next]_lifeVars
  BY DEF AllNext, AllVars
<1>5. installVars = Install!vars
  BY DEF installVars, Install!vars
<1> QED
  BY <1>1, <1>2, <1>3, <1>4, <1>5, PTL DEF AllSpec, Spec, Install!Spec, installVars, Install!vars

\* The service's inductive invariant: where a start is says what it holds.
THEOREM LifeInvariant == AllSpec => []LifeInv
BY PartsOfMachine, LifeInit, LifeNext, PTL

\* A service that serves listens for every stored tunnel, for any number of
\* tunnels, and no FRPS is left over when one starts (app.rs command_serve).
THEOREM ServesEverythingTheorem == AllSpec => []ServesEverything
<1>1. LifeInv => ServesEverything
  BY DEF LifeInv, HeldSoFar, ServesEverything, Life!ServesEverything, Life!StartsClean
<1> QED
  BY <1>1, LifeInvariant, PTL

\* What the installer says is back, is back, and a job that ends well leaves
\* the service running what is installed and stored (install.sh, app.rs
\* command_setup, command_install_service).
THEOREM InstalledOrRestoredTheorem == AllSpec => []InstalledOrRestored
<1>1. InstallationInv => InstalledOrRestored
  BY DEF InstallationInv, InstalledOrRestored
<1> QED
  BY <1>1, PartsOfMachine, InstallationInvariant, PTL

\* No job takes away an FRPS that is not ours (app.rs owned_frps_matches).
THEOREM ForeignFrpsTheorem == AllSpec => ForeignFrpsStays
BY PartsOfMachine, ForeignFrpsAlone DEF ForeignFrpsStays

\* On the machine as in Migration alone: the configuration is in the database
\* or still in config.json, its password can be decrypted, and what is stored
\* is not taken back (storage.rs initialize, migrate_legacy_config,
\* recover_passwords_from_legacy_backups).
THEOREM MachineKeepsItsSettings == AllSpec => []StoredAndReadable /\ NothingTakenBack
BY PartsOfMachine, StoredTheorem, NothingTakenBackTheorem, PTL

=============================================================================
