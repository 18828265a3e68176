----------------------------- MODULE Controller -----------------------------
(***************************************************************************)
(* The public listeners and the life of the service (controller.rs         *)
(* reconcile, start_task, shutdown; app.rs tunnels, command_serve).        *)
(*                                                                         *)
(* The tunnels handler saves a plan and, still holding the configuration's *)
(* write lock, reconciles: listeners whose tunnel went or moved are        *)
(* cancelled and awaited, then the missing ones are bound in any order.    *)
(* If a port is taken the original configuration is saved and reconciled   *)
(* again, and what that reconciliation reports is ignored.  Meanwhile      *)
(* other programs take and leave ports, UDP sessions outlive their         *)
(* listener and keep its socket, the client may hang up, which drops the   *)
(* handler at an await, commands commit, and the service stops, is killed  *)
(* and starts again.                                                       *)
(*                                                                         *)
(* A tunnel has an endpoint, a protocol with a public port.  Listeners are *)
(* registered under proxy names, and a proxy name follows from the         *)
(* tunnel's id; but an id that is nothing but dashes, which a client may   *)
(* choose, gets another random name whenever the configuration is read or  *)
(* saved (proxy_name_for, normalize_loaded_config), also by the saves of   *)
(* others.  To reconcile such a tunnel is a new one each time: its         *)
(* listener is stopped and another one bound on the same endpoint.         *)
(*                                                                         *)
(* ConfigStore says when a save is accepted; here that is one Boolean, and *)
(* TunnelPlan says which plans are.                                        *)
(***************************************************************************)
EXTENDS Naturals

CONSTANTS
    Keys,      \* tunnels: a user and a tunnel id
    Users,
    Owner,     \* the user of a tunnel
    Dashed,    \* the tunnels whose proxy name is drawn anew at every save
    Endpoints,
    Udp,       \* the endpoints that are UDP
    None       \* no endpoint, no user

ASSUME ControllerConstants ==
    /\ Owner \in [Keys -> Users]
    /\ Dashed \subseteq Keys
    /\ Udp \subseteq Endpoints
    /\ None \notin Endpoints /\ None \notin Users

\* No endpoint has two tunnels.
Plans == {p \in [Keys -> Endpoints \cup {None}] :
            \A j, k \in Keys : p[j] = p[k] /\ p[j] # None => j = k}

Nothing == [k \in Keys |-> None]

\* A socket of the service: whose tunnel's it is, and who holds it: the
\* listener, the cancelled listener, or UDP sessions only.  Blocked sessions
\* wait for room in the accounting queue.
Holders == {"listening", "ending", "lingering", "blocked"}
Held == [by : Keys, as : Holders]
Free == [by |-> None, as |-> "free"]
Foreign == [by |-> None, as |-> "foreign"]

VARIABLES
    svc,     \* command_serve
    stored,  \* the plan in the database
    mem,     \* the plan in the server's memory
    stale,   \* the database has moved on: no save of the server is accepted
    tasks,   \* TrafficController.tasks: the endpoint of each tunnel's listener
    socket,  \* who holds each endpoint
    handler, \* the one holder of the configuration's write lock that reconciles
    awaited, \* shutdown: the cancelled listeners it still waits for
    full,    \* the accounting queue is full and its reader waits for the lock
    answer   \* the last answer of the tunnels handler since it was last at work

vars == <<svc, stored, mem, stale, tasks, socket, handler, awaited, full, answer>>

Idle == [at |-> "idle", user |-> None, target |-> Nothing, awaits |-> {},
         todo |-> {}, undo |-> FALSE]

Listening(e, k) == socket[e] = [by |-> k, as |-> "listening"]

Init == /\ svc = "down"
        /\ stored = Nothing /\ mem = Nothing
        /\ stale = FALSE
        /\ tasks = Nothing
        /\ socket = [e \in Endpoints |-> Free]
        /\ handler = Idle
        /\ awaited = {}
        /\ full = FALSE
        /\ answer = "none"

\* The sockets after the listeners of some endpoints are cancelled.
Cancelled(endpoints) ==
    [e \in Endpoints |-> IF e \in endpoints THEN [socket[e] EXCEPT !.as = "ending"]
                                            ELSE socket[e]]

-----------------------------------------------------------------------------
(* The tunnels handler.                                                    *)

\* One tunnel is to have an endpoint that another one has in the database.
TakesOver(old, new, k, j) == j # k /\ new[k] # None /\ new[k] = old[j]

\* write_snapshot can write the plan in some order (TunnelPlan).
Writable(old, new) ==
    /\ \A j, k \in Keys : TakesOver(old, new, k, j) => new[j] # None
    /\ ~ \E circle \in SUBSET Keys :
            /\ circle # {}
            /\ \A k \in circle : \E j \in circle : TakesOver(old, new, k, j)

Reconcile(u, plan, undo) ==
    handler' = [Idle EXCEPT !.at = "saved", !.user = u, !.target = plan, !.undo = undo]

Serving == svc \in {"up", "draining", "flushing"}

\* Plans that change the tunnels of one user; the others' keep their endpoints,
\* but not, if Dashed, their names.
PlansOf(u) == {p \in Plans : \A k \in Keys : Owner[k] # u => p[k] = mem[k]}

\* Fault: the revision is not compared.
SavePlanUnchecked(u, plan) ==
    /\ Serving /\ handler.at = "idle"
    /\ plan \in PlansOf(u)
    /\ stored' = plan
    /\ Reconcile(u, plan, FALSE)
    /\ answer' = "none"
    /\ UNCHANGED <<svc, mem, stale, tasks, socket, awaited, full>>

\* The candidate is committed.
SavePlan(u, plan) ==
    /\ Serving /\ handler.at = "idle"
    /\ plan \in PlansOf(u)
    /\ ~stale /\ Writable(stored, plan)
    /\ stored' = plan
    /\ Reconcile(u, plan, FALSE)
    /\ answer' = "none"
    /\ UNCHANGED <<svc, mem, stale, tasks, socket, awaited, full>>

\* The save reports an error: nothing is written, or all is and then
\* secure_file fails.
SaveFails(u, plan) ==
    /\ Serving /\ handler.at = "idle"
    /\ plan \in PlansOf(u)
    /\ \/ UNCHANGED <<stored, stale>>
       \/ ~stale /\ Writable(stored, plan) /\ stored' = plan /\ stale' = TRUE
    /\ answer' = "error"
    /\ UNCHANGED <<svc, mem, tasks, socket, handler, awaited, full>>

\* Fault: only listeners of tunnels that are gone are stopped.
StopObsoleteGone ==
    LET gone == {k \in Keys : tasks[k] # None /\ handler.target[k] = None} IN
    /\ handler.at = "saved"
    /\ tasks' = [k \in Keys |-> IF k \in gone THEN None ELSE tasks[k]]
    /\ socket' = Cancelled({tasks[k] : k \in gone})
    /\ handler' = [handler EXCEPT !.at = "stopping", !.awaits = {tasks[k] : k \in gone}]
    /\ UNCHANGED <<svc, stored, mem, stale, awaited, full, answer>>

\* What the plan does not have under the name and with the spec it runs with.
Obsolete ==
    {k \in Keys : tasks[k] # None /\ (tasks[k] # handler.target[k] \/ k \in Dashed)}

\* Fault: obsolete listeners are cancelled but stay registered.
StopObsoleteRegistered ==
    /\ handler.at = "saved"
    /\ socket' = Cancelled({tasks[k] : k \in Obsolete})
    /\ handler' = [handler EXCEPT !.at = "stopping", !.awaits = {tasks[k] : k \in Obsolete}]
    /\ UNCHANGED <<svc, stored, mem, stale, tasks, awaited, full, answer>>

\* Listeners whose tunnel is gone, different or named anew are removed and
\* cancelled.
StopObsolete ==
    /\ handler.at = "saved"
    /\ tasks' = [k \in Keys |-> IF k \in Obsolete THEN None ELSE tasks[k]]
    /\ socket' = Cancelled({tasks[k] : k \in Obsolete})
    /\ handler' = [handler EXCEPT !.at = "stopping", !.awaits = {tasks[k] : k \in Obsolete}]
    /\ UNCHANGED <<svc, stored, mem, stale, awaited, full, answer>>

Wanted(plan) == {k \in Keys : plan[k] # None}

Stopped ==
    /\ handler.at = "stopping"
    /\ handler.awaits = {}
    /\ handler' = [handler EXCEPT !.at = "starting", !.todo = Wanted(handler.target)]
    /\ UNCHANGED <<svc, stored, mem, stale, tasks, socket, awaited, full, answer>>

\* One of the desired tunnels, in the order of a hash map.
Turn(k) == handler.at = "starting" /\ k \in handler.todo

\* Fault: a tunnel whose port is taken is passed over.
RunningOrTaken(k) ==
    /\ Turn(k)
    /\ tasks[k] # None \/ socket[handler.target[k]] # Free
    /\ handler' = [handler EXCEPT !.todo = @ \ {k}]
    /\ UNCHANGED <<svc, stored, mem, stale, tasks, socket, awaited, full, answer>>

\* The tunnel has its listener: contains_key.
Running(k) ==
    /\ Turn(k)
    /\ tasks[k] # None
    /\ handler' = [handler EXCEPT !.todo = @ \ {k}]
    /\ UNCHANGED <<svc, stored, mem, stale, tasks, socket, awaited, full, answer>>

\* The port is free and is bound.
Binds(k) ==
    /\ Turn(k)
    /\ tasks[k] = None
    /\ socket[handler.target[k]] = Free
    /\ socket' = [socket EXCEPT ![handler.target[k]] = [by |-> k, as |-> "listening"]]

StartTask(k) ==
    /\ Binds(k)
    /\ tasks' = [tasks EXCEPT ![k] = handler.target[k]]
    /\ handler' = [handler EXCEPT !.todo = @ \ {k}]
    /\ UNCHANGED <<svc, stored, mem, stale, awaited, full, answer>>

\* The port is not free: start_task fails, and reconcile with it.
CannotBind(k) ==
    /\ Turn(k)
    /\ tasks[k] = None
    /\ socket[handler.target[k]] # Free

\* The original is saved in its turn and reconciled.
RollBack(k) ==
    /\ CannotBind(k) /\ Serving /\ ~handler.undo
    /\ ~stale /\ Writable(stored, mem)
    /\ stored' = mem
    /\ Reconcile(handler.user, mem, TRUE)
    /\ UNCHANGED <<svc, mem, stale, tasks, socket, awaited, full, answer>>

\* The original is not saved, or it is and an error is reported all the same.
RollbackFails(k) ==
    /\ CannotBind(k) /\ Serving /\ ~handler.undo
    /\ \/ UNCHANGED stored
       \/ ~stale /\ Writable(stored, mem) /\ stored' = mem
    /\ stale' = TRUE
    /\ handler' = Idle
    /\ answer' = "conflict"
    /\ UNCHANGED <<svc, mem, tasks, socket, awaited, full>>

\* let _ = controller.reconcile(&rollback).await; *config = rollback
IgnoreFailure(k) ==
    /\ CannotBind(k) /\ Serving /\ handler.undo
    /\ mem' = handler.target
    /\ handler' = Idle
    /\ answer' = "conflict"
    /\ UNCHANGED <<svc, stored, stale, tasks, socket, awaited, full>>

\* Everything desired is running.
Reconciled ==
    /\ handler.at = "starting" /\ handler.todo = {} /\ Serving
    /\ mem' = handler.target
    /\ handler' = Idle
    /\ answer' = IF handler.undo THEN "conflict" ELSE "ok"
    /\ UNCHANGED <<svc, stored, stale, tasks, socket, awaited, full>>

\* The client hangs up and the handler is dropped where it waits: nothing more
\* is done, and memory stays behind the database.
HangUp ==
    /\ handler.at # "idle" /\ Serving
    /\ stale' = TRUE
    /\ handler' = Idle
    /\ UNCHANGED <<svc, stored, mem, tasks, socket, awaited, full, answer>>

\* The same between the bind and the insertion into tasks: the listener runs
\* on with nobody to cancel it.
HangUpBound(k) ==
    /\ Binds(k) /\ Serving
    /\ stale' = TRUE
    /\ handler' = Idle
    /\ UNCHANGED <<svc, stored, mem, tasks, awaited, full, answer>>

-----------------------------------------------------------------------------
(* Listeners, sessions and the accounting queue.                           *)

\* The handle of a cancelled listener returns to whoever awaits it.
HandleReturns(e) ==
    /\ handler' = [handler EXCEPT !.awaits = @ \ {e}]
    /\ awaited' = awaited \ {e}

\* Fault: a cancelled listener waits for its sessions.
ListenerEndsJoined(e) ==
    /\ socket[e].as = "ending"
    /\ ~full
    /\ socket' = [socket EXCEPT ![e] = Free]
    /\ HandleReturns(e)
    /\ UNCHANGED <<svc, stored, mem, stale, tasks, full, answer>>

\* A cancelled listener ends; UDP sessions may hold the socket still.
ListenerEnds(e) ==
    /\ socket[e].as = "ending"
    /\ \/ socket' = [socket EXCEPT ![e] = Free]
       \/ e \in Udp /\ socket' = [socket EXCEPT ![e].as = "lingering"]
    /\ HandleReturns(e)
    /\ UNCHANGED <<svc, stored, mem, stale, tasks, full, answer>>

SessionsEnd(e) ==
    /\ socket[e].as = "lingering"
    /\ socket' = [socket EXCEPT ![e] = Free]
    /\ UNCHANGED <<svc, stored, mem, stale, tasks, handler, awaited, full, answer>>

\* Another packet passes the gate, and its event finds no room.
SessionBlocks(e) ==
    /\ full
    /\ socket[e].as = "lingering"
    /\ socket' = [socket EXCEPT ![e].as = "blocked"]
    /\ UNCHANGED <<svc, stored, mem, stale, tasks, handler, awaited, full, answer>>

SessionResumes(e) ==
    /\ ~full
    /\ socket[e].as = "blocked"
    /\ socket' = [socket EXCEPT ![e].as = "lingering"]
    /\ UNCHANGED <<svc, stored, mem, stale, tasks, handler, awaited, full, answer>>

\* Traffic goes on while flush_pending waits for the lock.
QueueFills ==
    /\ handler.at # "idle" /\ Serving
    /\ full' = TRUE
    /\ UNCHANGED <<svc, stored, mem, stale, tasks, socket, handler, awaited, answer>>

QueueDrains ==
    /\ full /\ handler.at = "idle"
    /\ full' = FALSE
    /\ UNCHANGED <<svc, stored, mem, stale, tasks, socket, handler, awaited, answer>>

-----------------------------------------------------------------------------
(* The service and its surroundings.                                       *)

\* systemd starts the service: storage.read, then reconcile.
Start ==
    /\ svc = "down"
    /\ svc' = "booting"
    /\ mem' = stored
    /\ stale' = FALSE
    /\ handler' = [Idle EXCEPT !.at = "starting", !.target = stored,
                               !.todo = Wanted(stored)]
    /\ UNCHANGED <<stored, tasks, socket, awaited, full, answer>>

Started ==
    /\ svc = "booting" /\ handler.todo = {}
    /\ svc' = "up"
    /\ handler' = Idle
    /\ UNCHANGED <<stored, mem, stale, tasks, socket, awaited, full, answer>>

\* The process ends, and with it everything but the database.
Exit ==
    /\ svc' = "down"
    /\ tasks' = Nothing
    /\ socket' = [e \in Endpoints |-> IF socket[e] = Foreign THEN Foreign ELSE Free]
    /\ handler' = Idle
    /\ awaited' = {}
    /\ full' = FALSE
    /\ answer' = "none"
    /\ UNCHANGED <<stored, mem, stale>>

\* One tunnel that cannot be bound ends the whole service.
StartFails(k) == svc = "booting" /\ CannotBind(k) /\ Exit

Kill == svc # "down" /\ Exit

\* controller.shutdown: the tasks are drained and cancelled.
Shutdown ==
    LET running == {tasks[k] : k \in Wanted(tasks)} IN
    /\ svc = "up"
    /\ svc' = "draining"
    /\ tasks' = Nothing
    /\ socket' = Cancelled(running)
    /\ awaited' = running
    /\ UNCHANGED <<stored, mem, stale, handler, full, answer>>

Drained ==
    /\ svc = "draining"
    /\ awaited = {}
    /\ svc' = "flushing"
    /\ UNCHANGED <<stored, mem, stale, tasks, socket, handler, awaited, full, answer>>

\* The last flush of the accounting task takes the lock; then the process ends.
Flushed == svc = "flushing" /\ handler.at = "idle" /\ Exit

\* A command commits, which may take a user's tunnels along (delete_user).
Command ==
    /\ \/ UNCHANGED stored
       \/ \E u \in Users :
            stored' = [k \in Keys |-> IF Owner[k] = u THEN None ELSE stored[k]]
    /\ stale' = TRUE
    /\ UNCHANGED <<svc, mem, tasks, socket, handler, awaited, full, answer>>

\* Another program takes a port or leaves it.
TakePort(e) ==
    /\ socket[e] = Free
    /\ socket' = [socket EXCEPT ![e] = Foreign]
    /\ UNCHANGED <<svc, stored, mem, stale, tasks, handler, awaited, full, answer>>

LeavePort(e) ==
    /\ socket[e] = Foreign
    /\ socket' = [socket EXCEPT ![e] = Free]
    /\ UNCHANGED <<svc, stored, mem, stale, tasks, handler, awaited, full, answer>>

\* What the code does by itself once the lock is held.
HandlerStep ==
    \/ StopObsolete \/ Stopped \/ Reconciled \/ Started
    \/ \E k \in Keys : \/ Running(k) \/ StartTask(k) \/ RollBack(k) \/ RollbackFails(k)
                       \/ IgnoreFailure(k) \/ StartFails(k)

EndpointStep(e) == ListenerEnds(e) \/ SessionsEnd(e) \/ SessionResumes(e)

Next ==
    \/ \E u \in Users, plan \in Plans : SavePlan(u, plan) \/ SaveFails(u, plan)
    \/ HandlerStep
    \/ HangUp \/ \E k \in Keys : HangUpBound(k)
    \/ \E e \in Endpoints : \/ EndpointStep(e) \/ SessionBlocks(e)
                            \/ TakePort(e) \/ LeavePort(e)
    \/ QueueFills \/ QueueDrains
    \/ Start \/ Kill \/ Shutdown \/ Drained \/ Flushed
    \/ Command

Spec == Init /\ [][Next]_vars

\* Tasks that can run are run.  The lock is handed over in the order of
\* arrival, so the last flush gets it although saves keep coming.
Fairness ==
    /\ WF_vars(HandlerStep)
    /\ \A e \in Endpoints : WF_vars(EndpointStep(e))
    /\ WF_vars(QueueDrains)
    /\ WF_vars(Drained)
    /\ SF_vars(Flushed)

FairSpec == Spec /\ Fairness

-----------------------------------------------------------------------------
\* No two tunnels ever share an endpoint, in the database, in memory or among the
\* registered listeners (controller.rs TrafficController).
TypeOK ==
    /\ svc \in {"down", "booting", "up", "draining", "flushing"}
    /\ stored \in Plans /\ mem \in Plans /\ tasks \in Plans
    /\ stale \in BOOLEAN /\ full \in BOOLEAN
    /\ socket \in [Endpoints -> Held \cup {Free, Foreign}]
    /\ handler \in [at : {"idle", "saved", "stopping", "starting"},
                    user : Users \cup {None}, target : Plans,
                    awaits : SUBSET Endpoints, todo : SUBSET Keys, undo : BOOLEAN]
    /\ awaited \subseteq Endpoints
    /\ answer \in {"none", "ok", "conflict", "error"}

\* A registered listener holds its port, through every stop, failed bind,
\* rollback and hang-up: reconcile never takes a port for served that is not
\* (controller.rs reconcile, contains_key).
RegisteredListens ==
    \A k \in Keys : tasks[k] # None => Listening(tasks[k], k)

\* As long as saves are accepted, between two saves, the service listens for
\* the tunnels of the configuration only, on their ports only, with every
\* listener under control, and memory is what the database holds
\* (app.rs tunnels, controller.rs reconcile).
ServesOnlyConfigured ==
    svc = "up" /\ handler.at = "idle" /\ ~stale =>
        /\ stored = mem
        /\ \A e \in Endpoints, k \in Keys :
              Listening(e, k) => tasks[k] = e /\ mem[k] = e

\* A save that is answered with success leaves every tunnel of every user
\* listening, those included that an earlier rollback could not bind again
\* (app.rs tunnels).
OkMeansServed ==
    svc = "up" /\ handler.at = "idle" /\ answer = "ok" => tasks = mem

\* While the service is up, a running listener is stopped by a save of its own
\* user only, whatever failed before, unless its tunnel's proxy name is drawn
\* anew at each save (controller.rs reconcile, model.rs proxy_name_for).
OthersUndisturbed ==
    [][svc = "up" /\ svc' = "up" =>
         \A k \in Keys \ Dashed : tasks[k] # None /\ tasks'[k] # tasks[k]
                                    => handler.user = Owner[k]]_vars

\* The handler, which holds the configuration's lock, always comes to an end:
\* what it waits for never waits for that lock, not even by way of a full
\* accounting queue (controller.rs reconcile, run_udp_session, flush_pending).
SaveAnswered == handler.at # "idle" ~> handler.at = "idle"

\* A shutdown completes, although the tunnels handler may still be at work and
\* new saves keep coming (app.rs command_serve).
ShutdownEnds == svc = "draining" ~> svc = "down"
=============================================================================
