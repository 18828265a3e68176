----------------------------- MODULE ServiceLife -----------------------------
(***************************************************************************)
(* The service from its start to its end (app.rs command_serve, start_frps,*)
(* shutdown_signal) under systemd, as the unit that command_install_service*)
(* writes has it.                                                          *)
(*                                                                         *)
(* A start takes the ports of all stored tunnels, of the API and of the    *)
(* plugin, one after the other, and then runs FRPS, which takes its own;   *)
(* a port that another program has ends the process with all it has done,  *)
(* and systemd begins again.  What happens to tunnels while the service    *)
(* serves is in Controller, what is accounted in Metering.                 *)
(***************************************************************************)
EXTENDS Naturals, FiniteSets

CONSTANTS
    Tunnels,     \* the public ports of the stored tunnels
    MaxFaults    \* bound: failing reads, crashes, kills and stray signals

Listeners == Tunnels \cup {"api", "plugin"}
Ports == Listeners \cup {"frps"}
Starting == {"read", "tunnels", "api", "plugin", "frps"}
Ending == {"controller", "accounting", "child", "tasks"}

VARIABLES
    wanted,    \* the administrator has started the unit, not stopped it
    unit,      \* of systemd: "inactive", "active", or "waiting" for RestartSec
    at,        \* where the process is
    held,      \* the ports it listens on
    child,     \* its FRPS
    foreign,   \* the ports other programs have
    faults

vars == <<wanted, unit, at, held, child, foreign, faults>>
surroundings == <<wanted, foreign, faults>>

Init == /\ wanted = TRUE
        /\ unit = "waiting"
        /\ at = "none"
        /\ held = {}
        /\ child = "none"
        /\ foreign \in SUBSET Ports
        /\ faults = 0

-----------------------------------------------------------------------------
(* systemd.                                                                *)

\* After RestartSec, or at once when the administrator starts the unit.
Launch ==
    /\ unit = "waiting"
    /\ unit' = "active"
    /\ at' = "read"
    /\ UNCHANGED <<surroundings, held, child>>

\* Fault: KillMode=process.
LeftAlone == child

\* KillMode=mixed: what the process leaves behind is killed.
Leftover == "none"

\* The process is gone, and is started again however it ended: Restart=always.
Gone ==
    /\ at' = "none"
    /\ held' = {}
    /\ child' = Leftover
    /\ unit' = IF wanted THEN "waiting" ELSE "inactive"

Fault == faults < MaxFaults /\ faults' = faults + 1 /\ UNCHANGED <<wanted, foreign>>

-----------------------------------------------------------------------------
(* command_serve until it serves.                                          *)

Read ==
    /\ at = "read"
    /\ at' = "tunnels"
    /\ UNCHANGED <<surroundings, unit, held, child>>

ReadFails == at = "read" /\ Gone /\ Fault

\* reconcile, in any order.
BindTunnel(t) ==
    /\ at = "tunnels"
    /\ t \in Tunnels \ (held \cup foreign)
    /\ held' = held \cup {t}
    /\ UNCHANGED <<surroundings, unit, at, child>>

TunnelsBound ==
    /\ at = "tunnels"
    /\ Tunnels \subseteq held
    /\ at' = "api"
    /\ UNCHANGED <<surroundings, unit, held, child>>

BindServer(name, next) ==
    /\ at = name
    /\ name \notin foreign
    /\ held' = held \cup {name}
    /\ at' = next
    /\ UNCHANGED <<surroundings, unit, child>>

\* A port is taken: command_serve returns the error.
BindFails ==
    /\ \/ at = "tunnels" /\ foreign \cap (Tunnels \ held) # {}
       \/ at \in {"api", "plugin"} /\ at \in foreign
    /\ Gone
    /\ UNCHANGED surroundings

\* Its configuration is written, the binary is found and spawned.
StartFrps ==
    /\ at = "frps"
    /\ child' = "starting"
    /\ at' = "serving"
    /\ UNCHANGED <<surroundings, unit, held>>

StartFrpsFails == at = "frps" /\ Gone /\ Fault

-----------------------------------------------------------------------------
(* FRPS.                                                                   *)

FrpsListens ==
    /\ child = "starting" /\ "frps" \notin foreign
    /\ child' = "listening"
    /\ UNCHANGED <<surroundings, unit, at, held>>

FrpsFindsPortTaken ==
    /\ child = "starting" /\ "frps" \in foreign
    /\ child' = "exited"
    /\ UNCHANGED <<surroundings, unit, at, held>>

FrpsCrashes ==
    /\ child \in {"starting", "listening"}
    /\ child' = "exited"
    /\ Fault
    /\ UNCHANGED <<unit, at, held>>

-----------------------------------------------------------------------------
(* The end: the outcome of select!, and what follows it.                   *)

Leave ==
    /\ at = "serving"
    /\ at' = "controller"
    /\ UNCHANGED <<unit, held, child>>

FrpsEnded == child = "exited" /\ Leave /\ UNCHANGED surroundings

\* A task of the two HTTP servers ends.
ServerEnds == Leave /\ Fault

\* SIGINT by systemd; before there is a handler for it the signal ends the
\* process.
StopSignal ==
    /\ ~wanted
    /\ \/ Leave
       \/ at \in Starting /\ Gone
    /\ UNCHANGED surroundings

\* SIGTERM by someone else, which looks like a wish to stop.
StraySignal ==
    /\ \/ Leave
       \/ at \in Starting /\ Gone
    /\ Fault

\* The listeners end, the last flush is made, FRPS is killed and awaited, and
\* the servers are aborted.
ShutdownController ==
    /\ at = "controller"
    /\ held' = held \ Tunnels
    /\ at' = "accounting"
    /\ UNCHANGED <<surroundings, unit, child>>

LastFlush ==
    /\ at = "accounting"
    /\ at' = "child"
    /\ UNCHANGED <<surroundings, unit, held, child>>

\* Fault: FRPS is awaited, but not killed.
EndFrpsWaiting ==
    /\ at = "child" /\ child \in {"none", "exited"}
    /\ child' = "none"
    /\ at' = "tasks"
    /\ UNCHANGED <<surroundings, unit, held>>

EndFrps ==
    /\ at = "child"
    /\ child' = "none"
    /\ at' = "tasks"
    /\ UNCHANGED <<surroundings, unit, held>>

Return == at = "tasks" /\ Gone /\ UNCHANGED surroundings

\* SIGKILL: TimeoutStopSec, out of memory, or anyone.
Kill == at # "none" /\ Gone /\ Fault

-----------------------------------------------------------------------------
(* The administrator and other programs.                                   *)

SystemctlStop ==
    /\ wanted
    /\ wanted' = FALSE
    /\ unit' = IF unit = "waiting" THEN "inactive" ELSE unit
    /\ UNCHANGED <<at, held, child, foreign, faults>>

SystemctlStart ==
    /\ unit = "inactive"
    /\ wanted' = TRUE
    /\ unit' = "waiting"
    /\ UNCHANGED <<at, held, child, foreign, faults>>

TakePort(p) ==
    /\ p \notin foreign \cup held
    /\ ~ (p = "frps" /\ child = "listening")
    /\ foreign' = foreign \cup {p}
    /\ UNCHANGED <<wanted, unit, at, held, child, faults>>

LeavePort(p) ==
    /\ p \in foreign
    /\ foreign' = foreign \ {p}
    /\ UNCHANGED <<wanted, unit, at, held, child, faults>>

-----------------------------------------------------------------------------
\* What the process, FRPS and systemd do by themselves.
Progress ==
    \/ Launch \/ Read \/ TunnelsBound \/ BindFails \/ StartFrps
    \/ \E t \in Tunnels : BindTunnel(t)
    \/ BindServer("api", "plugin") \/ BindServer("plugin", "frps")
    \/ FrpsEnded \/ StopSignal
    \/ ShutdownController \/ LastFlush \/ EndFrps \/ Return

FrpsStep == FrpsListens \/ FrpsFindsPortTaken

Next ==
    \/ Progress
    \/ FrpsStep
    \/ ReadFails \/ StartFrpsFails \/ FrpsCrashes \/ ServerEnds \/ StraySignal \/ Kill
    \/ SystemctlStop \/ SystemctlStart
    \/ \E p \in Ports : TakePort(p) \/ LeavePort(p)

\* The process, FRPS and systemd go on; nothing is assumed of anyone else.
Spec == Init /\ [][Next]_vars /\ WF_vars(Progress) /\ WF_vars(FrpsStep)

-----------------------------------------------------------------------------
\* The values of the variables; nobody shares a port.
TypeOK ==
    /\ wanted \in BOOLEAN
    /\ unit \in {"inactive", "waiting", "active"}
    /\ at \in {"none", "serving"} \cup Starting \cup Ending
    /\ at = "none" <=> unit # "active"
    /\ held \subseteq Listeners \ foreign
    /\ child \in {"none", "starting", "listening", "exited"}
    /\ foreign \subseteq Ports
    /\ faults \in 0..MaxFaults

\* A service that serves listens for every stored tunnel: a start either gets
\* all of its ports or gives all of them up.
ServesEverything == at = "serving" => held = Listeners

\* No FRPS is left from an earlier process when the service starts: it would
\* have the port, and the token of the time before.
StartsClean == at \in Starting => child = "none"

\* One port that is taken keeps the whole service down, but not for good: when
\* the other programs have left, it serves, whatever ended it before.
Recovers == <>[](wanted /\ foreign = {}) => <>[](at = "serving" /\ child = "listening")

\* systemctl stop ends the service wherever it is, FRPS included, without help
\* of TimeoutStopSec.
StopEnds == ~wanted ~> (unit = "inactive" \/ wanted)

=============================================================================
