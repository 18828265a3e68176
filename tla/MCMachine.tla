------------------------------ MODULE MCMachine ------------------------------
(***************************************************************************)
(* What happens to the machine: Migration, Installation and ServiceLife.   *)
(* They have no variable in common, so in each behaviour only one of them  *)
(* is at work.                                                             *)
(***************************************************************************)
EXTENDS Migration

CONSTANTS
    Tunnels,     \* ServiceLife's
    MaxFaults

ASSUME LifeConstants == MaxFaults \in Nat

VARIABLES
    part,                                                    \* what is at work
    job, step, wasActive, copy, owned, before, ended,        \* Installation
    server, binary, marker, settings, unitFile, running, applied,
    wanted, unit, at, held, child, foreign, faults   \* ServiceLife

Install == INSTANCE Installation WITH
             at <- step, backup <- copy, frps <- binary, db <- settings, unit <- unitFile

Life == INSTANCE ServiceLife

installVars == <<job, step, wasActive, copy, owned, before, ended,
                 server, binary, marker, settings, unitFile, running, applied>>
lifeVars == <<wanted, unit, at, held, child, foreign, faults>>

\* What rests has one initial state.
AllInit ==
    /\ Init /\ Install!Init /\ Life!Init
    /\ part \in {"migration", "installation", "life"}
    /\ part # "migration" => db = None /\ ~ legacy
    /\ part # "installation" => server = "old"
    /\ part # "life" => foreign = {}

AllNext ==
    \/ part = "migration" /\ Next /\ UNCHANGED <<part, installVars, lifeVars>>
    \/ part = "installation" /\ Install!Next /\ UNCHANGED <<part, vars, lifeVars>>
    \/ part = "life" /\ Life!Next /\ UNCHANGED <<part, vars, installVars>>

AllVars == <<part, vars, installVars, lifeVars>>

AllSpec == /\ AllInit /\ [][AllNext]_AllVars
           /\ WF_AllVars(part = "life" /\ Life!Progress /\ UNCHANGED <<part, vars, installVars>>)
           /\ WF_AllVars(part = "life" /\ Life!FrpsStep /\ UNCHANGED <<part, vars, installVars>>)

\* What the installer says is back, is; and a job that ends well leaves the
\* service running the installed program with the stored settings (install.sh,
\* command_setup, command_install_service).
InstalledOrRestored == Install!TypeOK /\ Install!RestoredIsOld /\ Install!InstalledRuns

\* An FRPS that is not ours is never removed, and replaced only by an
\* installation that needs another version or a command with --force
\* (owned_frps_matches, install_frps_binary).
ForeignFrpsStays == Install!ForeignFrpsStays

\* A service that serves listens for every stored tunnel, and a start finds no
\* FRPS of an earlier process (command_serve).
ServesEverything == Life!TypeOK /\ Life!ServesEverything /\ Life!StartsClean

\* The service comes to serve when it is wanted and its ports are free, and
\* ends when it is stopped, wherever it is (command_serve and its unit).
SettlesAsWanted == part = "life" => Life!Recovers /\ Life!StopEnds

=============================================================================
