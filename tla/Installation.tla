---------------------------- MODULE Installation ----------------------------
(***************************************************************************)
(* The files and the service on the machine: install.sh                    *)
(* install_server_binary, the commands setup, install-service,             *)
(* install-frps and uninstall, and install_frps_binary (app.rs).           *)
(*                                                                         *)
(* A job does its steps one after the other; a step may fail, which ends   *)
(* the job, and a job may be killed between two steps.  The installer      *)
(* keeps a copy of the program it replaces and puts it back when the       *)
(* configuration fails.  FRPS is downloaded when the installer finds       *)
(* another version, or when a command has --force or finds none, and is    *)
(* then marked as owned in the configuration directory.  The administrator *)
(* puts an FRPS of her own there, or takes it away, when no job is at      *)
(* work.                                                                   *)
(***************************************************************************)
EXTENDS Naturals

Nothing == "none"

Programs == {"old", "new"}           \* the installer brings the new one
Foreign == {"same version", "other version"}
Frps == Foreign \cup {"ours"}        \* "ours" has the version and the digest
FrpsOnly == {"install-frps", "install-frps --force"}
Forced == {"setup --force-frps", "install-frps --force"}
Setups == {"install", "setup", "setup --force-frps"}
Jobs == Setups \cup FrpsOnly \cup {"uninstall"}

VARIABLES
    job,       \* the job at work, Nothing for none
    at,        \* its next step
    wasActive, \* install: the service ran when it began
    backup,    \* install: the copy of the program it replaces
    owned,     \* uninstall: what owned_frps_matches said
    before,    \* the program when the job began
    ended,     \* how the last job ended
    server,    \* the installed program
    frps,      \* /usr/local/bin/frps
    marker,    \* the owner's mark
    db,        \* there are settings
    unit,      \* the service's unit
    running,   \* the program the service runs
    applied    \* the service was started after the last change of its settings

vars == <<job, at, wasActive, backup, owned, before, ended,
          server, frps, marker, db, unit, running, applied>>
inJob == <<wasActive, backup, owned, before>>
files == <<server, frps, marker, db, unit>>
service == <<running, applied>>

Init == /\ job = Nothing /\ at = "idle" /\ wasActive = FALSE /\ backup = Nothing
        /\ owned = FALSE /\ before = Nothing /\ ended = Nothing
        /\ \/ /\ server = Nothing /\ marker = FALSE /\ db = FALSE /\ unit = FALSE
              /\ running = Nothing /\ applied = FALSE
              /\ frps \in Foreign \cup {Nothing}
           \/ /\ server = "old" /\ marker = TRUE /\ db = TRUE /\ unit = TRUE
              /\ running = "old" /\ applied = TRUE
              /\ frps = "ours"

-----------------------------------------------------------------------------
FirstStep(j) == IF j \in {"install", "uninstall"} THEN "stop" ELSE "frps"

\* All but install are commands of the installed program.
Begin(j) ==
    /\ job = Nothing
    /\ j = "install" \/ server # Nothing
    /\ job' = j
    /\ at' = FirstStep(j)
    /\ wasActive' = (running # Nothing)
    /\ backup' = Nothing /\ owned' = FALSE /\ before' = server /\ ended' = Nothing
    /\ UNCHANGED <<files, service>>

Does(j, step) == job = j /\ at = step
Then(step) == at' = step /\ UNCHANGED <<job, ended>>
Ends(how) == job' = Nothing /\ at' = "idle" /\ ended' = how

SetupSteps == {"frps", "marker", "settings", "unit", "start"}
InSetup == job \in Setups \cup FrpsOnly /\ at \in SetupSteps

-----------------------------------------------------------------------------
(* install_server_binary up to setup.                                      *)

StopForInstall ==
    /\ Does("install", "stop")
    /\ running' = Nothing
    /\ Then("backup")
    /\ UNCHANGED <<inJob, files, applied>>

\* Fault: the copy is made of what has just been installed.
BackupAfterReplace ==
    /\ Does("install", "backup")
    /\ server' = "new"
    /\ backup' = "new"
    /\ Then("replace")
    /\ UNCHANGED <<wasActive, owned, before, frps, marker, db, unit, service>>

Backup ==
    /\ Does("install", "backup")
    /\ backup' = server
    /\ Then("replace")
    /\ UNCHANGED <<wasActive, owned, before, files, service>>

\* Beside the target, then renamed over it.
Replace ==
    /\ Does("install", "replace")
    /\ server' = "new"
    /\ Then("menu command")
    /\ UNCHANGED <<inJob, frps, marker, db, unit, service>>

\* install_orange_command, which only its failure tells from nothing.
MenuCommand ==
    /\ Does("install", "menu command")
    /\ Then("frps")
    /\ UNCHANGED <<inJob, files, service>>

-----------------------------------------------------------------------------
(* command_setup, of which install-frps is the first part.                 *)

\* The installer looks at the version, and a command without --force only
\* whether there is one.
FrpsIsFine ==
    IF job = "install" THEN frps \in {"ours", "same version"}
    ELSE frps # Nothing /\ job \notin Forced

FrpsDone == IF job \in FrpsOnly THEN Ends("frps there") ELSE Then("settings")

KeepFrps ==
    /\ InSetup /\ at = "frps"
    /\ FrpsIsFine
    /\ FrpsDone
    /\ UNCHANGED <<inJob, files, service>>

\* Downloaded, its digest and version verified, renamed over what was there.
DownloadFrps ==
    /\ InSetup /\ at = "frps"
    /\ ~ FrpsIsFine
    /\ frps' = "ours"
    /\ Then("marker")
    /\ UNCHANGED <<inJob, server, marker, db, unit, service>>

MarkFrps ==
    /\ InSetup /\ at = "marker"
    /\ marker' = TRUE
    /\ FrpsDone
    /\ UNCHANGED <<inJob, server, frps, db, unit, service>>

\* Ports and addresses are those of the command line again, users stay.
StoreSettings ==
    /\ InSetup /\ at = "settings"
    /\ db' = TRUE
    /\ applied' = FALSE
    /\ Then("unit")
    /\ UNCHANGED <<inJob, server, frps, marker, unit, running>>

InstallUnit ==
    /\ InSetup /\ at = "unit"
    /\ unit' = TRUE
    /\ Then("start")
    /\ UNCHANGED <<inJob, server, frps, marker, db, service>>

\* command_install_service: started, or restarted if it runs.
StartService ==
    /\ InSetup /\ at = "start"
    /\ running' = server
    /\ applied' = TRUE
    /\ Ends("installed")
    /\ UNCHANGED <<inJob, files>>

\* A step of setup fails.  The installer puts the old program back, if there
\* was one, and starts the service, if it ran; that may fail, too.
SetupFails ==
    /\ InSetup
    /\ IF job = "install"
       THEN /\ server' = IF backup = Nothing THEN server ELSE backup
            /\ running' \in IF wasActive THEN {server', Nothing} ELSE {running}
            /\ applied' = (running' # Nothing)
            /\ Ends("restored")
       ELSE /\ running' \in IF at = "start" THEN {running, Nothing} ELSE {running}
            /\ UNCHANGED <<server, applied>>
            /\ Ends("failed")
    /\ UNCHANGED <<inJob, frps, marker, db, unit>>

-----------------------------------------------------------------------------
(* command_uninstall.                                                      *)

\* Stopped, or killed and stopped; when it runs nevertheless, see Stop.
StopForUninstall ==
    /\ Does("uninstall", "stop")
    /\ running' = Nothing
    /\ Then("unit")
    /\ UNCHANGED <<inJob, files, applied>>

\* Fault: the mark alone counts.
OwnedByMark == marker

\* owned_frps_matches: the mark has the digest of what we download.
OwnedFrps == marker /\ frps = "ours"

RemoveUnit ==
    /\ Does("uninstall", "unit")
    /\ owned' = OwnedFrps
    /\ unit' = FALSE
    /\ Then("config")
    /\ UNCHANGED <<wasActive, backup, before, server, frps, marker, db, service>>

\* The directory with the database and the mark.
RemoveConfig ==
    /\ Does("uninstall", "config")
    /\ db' = FALSE /\ marker' = FALSE
    /\ Then("log")
    /\ UNCHANGED <<inJob, server, frps, unit, service>>

RemoveLog ==
    /\ Does("uninstall", "log")
    /\ Then("remove frps")
    /\ UNCHANGED <<inJob, files, service>>

RemoveFrps ==
    /\ Does("uninstall", "remove frps")
    /\ frps' = IF owned THEN Nothing ELSE frps
    /\ Then("programs")
    /\ UNCHANGED <<inJob, server, marker, db, unit, service>>

RemovePrograms ==
    /\ Does("uninstall", "programs")
    /\ server' = Nothing
    /\ Ends("uninstalled")
    /\ UNCHANGED <<inJob, frps, marker, db, unit, service>>

-----------------------------------------------------------------------------
\* A step outside of setup fails, or the job is killed.
Stop ==
    /\ job # Nothing
    /\ Ends("failed")
    /\ UNCHANGED <<inJob, files, service>>

\* The administrator's own FRPS, or none.
PutFrps(f) ==
    /\ job = Nothing
    /\ frps # f
    /\ frps' = f
    /\ UNCHANGED <<job, at, ended, inJob, server, marker, db, unit, service>>

Next ==
    \/ \E j \in Jobs : Begin(j)
    \/ StopForInstall \/ Backup \/ Replace \/ MenuCommand
    \/ KeepFrps \/ DownloadFrps \/ MarkFrps \/ StoreSettings \/ InstallUnit
    \/ StartService \/ SetupFails
    \/ StopForUninstall \/ RemoveUnit \/ RemoveConfig \/ RemoveLog
    \/ RemoveFrps \/ RemovePrograms
    \/ Stop
    \/ \E f \in Foreign \cup {Nothing} : PutFrps(f)

Spec == Init /\ [][Next]_vars

-----------------------------------------------------------------------------
\* The values of the variables; a service that runs has its program.
TypeOK ==
    /\ job \in Jobs \cup {Nothing}
    /\ at \in SetupSteps \cup {"idle", "stop", "backup", "replace", "menu command", "config",
                               "log", "remove frps", "programs"}
    /\ wasActive \in BOOLEAN /\ owned \in BOOLEAN
    /\ {server, backup, before, running} \subseteq Programs \cup {Nothing}
    /\ running # Nothing => server # Nothing
    /\ ended \in {Nothing, "installed", "frps there", "restored", "failed", "uninstalled"}
    /\ frps \in Frps \cup {Nothing}
    /\ {marker, db, unit, applied} \subseteq BOOLEAN

\* Someone else's FRPS is never removed, and is replaced only by an
\* installation that needs another version, or by a command with --force: a
\* mark that is left from an earlier installation does not make it ours.
ForeignFrpsStays ==
    [][job # Nothing /\ frps \in Foreign =>
         \/ frps' = frps
         \/ job = "install" /\ frps = "other version" /\ frps' = "ours"
         \/ job \in Forced /\ frps' = "ours"]_vars

\* When the installer says that the old program is back, it is, if there was
\* one, whatever step of the configuration has failed.
RestoredIsOld == ended = "restored" /\ before # Nothing => server = before

\* A job that ends well leaves a service that runs the installed program with
\* the settings that are stored, also where an earlier job was killed half-way.
InstalledRuns ==
    ended = "installed" => running = server /\ running # Nothing /\ applied /\ db /\ unit

\* "Complete uninstall": an FRPS that the installation brought goes with it.
OwnedFrpsGoes == ended = "uninstalled" => frps # "ours"

=============================================================================
