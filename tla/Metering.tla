------------------------------ MODULE Metering ------------------------------
(***************************************************************************)
(* How a user's bytes reach the bill.  A copy loop or UDP session charges  *)
(* a chunk to the gate, forwards it and sends a TrafficEvent to the        *)
(* accounting task (controller.rs); the task collects events and every     *)
(* tick writes what is pending into the configuration: into a copy, the    *)
(* copy into SQLite under an optimistic revision check, and only then the  *)
(* copy into memory (flush_pending, storage.rs save).                      *)
(*                                                                         *)
(* Three others move the same revision: the tunnels handler, which holds   *)
(* the configuration's write lock from its save until it has reconciled    *)
(* the listeners; the administrator's commands, which are other processes  *)
(* and may set the user's limit and usage to anything, the one below the   *)
(* other included; and the end of the server process, orderly or not,      *)
(* followed by a start that reads the database.  A gate keeps the limit it *)
(* started with: its process never sees a command's save.                  *)
(*                                                                         *)
(* A chunk is one forwarded piece of traffic of one user and counts as one *)
(* unit of traffic_used_bytes, `used'.  The bill beside it is an observer: *)
(* how often each chunk has been added to used, so that billing a chunk    *)
(* twice, or never, can be told apart.                                     *)
(***************************************************************************)
EXTENDS Integers, FiniteSets

CONSTANTS
    Chunks,        \* pieces of traffic
    Limits,        \* values of traffic_limit_bytes, in chunks; 0: none
    Usages,        \* values the administrator gives traffic_used_bytes
    CopyLoops,     \* number of copy loops and UDP sessions
    QueueCapacity, \* ACCOUNTING_QUEUE_CAPACITY
    RevisionBound  \* bound: no tunnel save or command from this revision on

ASSUME MeteringConstants == /\ IsFiniteSet(Chunks)
                            /\ Limits \subseteq Nat
                            /\ Usages \subseteq Nat
                            /\ CopyLoops \in Nat
                            /\ QueueCapacity \in Nat \ {0}
                            /\ RevisionBound \in Nat

VARIABLES
    process,    \* "up", "stopping" (cancel.cancel() was called) or "down"
    task,       \* the accounting task: "running", "flushing" (it wants the
                \* configuration's lock), "last flush" or "done"
    gate,       \* chunks charged to the user's gate: used_bytes
    where,      \* where[c]: how far the server process got with chunk c
    mem,        \* the configuration in memory: [revision, limit, used, bill]
    db,         \* the configuration in SQLite: [revision, limit, used, bill]
    saving,     \* the tunnels handler holds the lock after its save
    command,    \* the administrator's command: [busy, copy]
    delivered,  \* observer: chunks the receiver got
    excused,    \* observer: chunks that went down with a connection or process
    forgiven,   \* observer: chunks charged before the usage was last set
    granted     \* observer: the usage as the administrator last left it

server == <<process, task, gate, where, mem, saving>>
observers == <<delivered, excused, forgiven, granted>>
vars == <<server, db, command, observers>>

Stages == {"unread", "charged", "written", "queued", "pending", "gone"}
At(stage) == {c \in Chunks : where[c] = stage}

Moved(S, stage) == [c \in Chunks |-> IF c \in S THEN stage ELSE where[c]]

Configs == [revision : Nat, limit : Nat, used : Nat, bill : [Chunks -> Nat]]
NoBill == [c \in Chunks |-> 0]
NewConfig(limit) == [revision |-> 1, limit |-> limit, used |-> 0, bill |-> NoBill]

\* What save writes for a copy that is otherwise unchanged.
Bumped(config) == [config EXCEPT !.revision = @ + 1]

\* The configuration with the chunks in S added to the usage.
Charged(config, S) ==
    [revision |-> config.revision + 1,
     limit |-> config.limit,
     used |-> config.used + Cardinality(S),
     bill |-> [c \in Chunks |-> IF c \in S THEN config.bill[c] + 1
                                           ELSE config.bill[c]]]

\* The configuration with the usage set to a number that no chunk stands for.
WithUsage(config, n) ==
    [revision |-> config.revision, limit |-> config.limit, used |-> n, bill |-> NoBill]

NoCommand == [busy |-> FALSE, copy |-> NewConfig(0)]

Init == /\ process = "up"
        /\ task = "running"
        /\ gate = 0
        /\ where = [c \in Chunks |-> "unread"]
        /\ \E limit \in Limits : db = NewConfig(limit)
        /\ mem = db
        /\ saving = FALSE
        /\ command = NoCommand
        /\ delivered = {} /\ excused = {} /\ forgiven = {} /\ granted = 0

-----------------------------------------------------------------------------
(* Copy loops: copy_limited and run_udp_session.                           *)

\* A loop has read a chunk and the gate lets it pass.
Charge(c) ==
    /\ process # "down"
    /\ where[c] = "unread"
    /\ Cardinality(At("charged") \cup At("written")) < CopyLoops
    /\ mem.limit = 0 \/ gate < mem.limit
    /\ gate' = gate + 1
    /\ where' = [where EXCEPT ![c] = "charged"]
    /\ UNCHANGED <<process, task, mem, saving, db, command, observers>>

Deliver(c) ==
    /\ where[c] = "charged"
    /\ where' = [where EXCEPT ![c] = "written"]
    /\ delivered' = delivered \cup {c}
    /\ UNCHANGED <<process, task, gate, mem, saving, db, command, excused, forgiven, granted>>

\* Fault: the event is sent before the chunk is written.
SendEarly(c) ==
    /\ where[c] \in {"charged", "written"}
    /\ task # "done"
    /\ Cardinality(At("queued")) < QueueCapacity
    /\ where' = [where EXCEPT ![c] = "queued"]
    /\ UNCHANGED <<process, task, gate, mem, saving, db, command, observers>>

\* events.send: waits for room in the channel.
Send(c) ==
    /\ where[c] = "written"
    /\ task # "done"
    /\ Cardinality(At("queued")) < QueueCapacity
    /\ where' = [where EXCEPT ![c] = "queued"]
    /\ UNCHANGED <<process, task, gate, mem, saving, db, command, observers>>

\* The receiver is gone: the error of events.send is ignored.
SendToNobody(c) ==
    /\ where[c] = "written"
    /\ task = "done"
    /\ where' = [where EXCEPT ![c] = "gone"]
    /\ excused' = excused \cup {c}
    /\ UNCHANGED <<process, task, gate, mem, saving, db, command, delivered, forgiven, granted>>

\* The other direction of the connection ends, the tunnel is cancelled or the
\* write fails: the loop is dropped wherever it waits.
Cut(c) ==
    /\ where[c] \in {"charged", "written"}
    /\ where' = [where EXCEPT ![c] = "gone"]
    /\ excused' = excused \cup {c}
    /\ UNCHANGED <<process, task, gate, mem, saving, db, command, delivered, forgiven, granted>>

-----------------------------------------------------------------------------
(* The accounting task: spawn_accounting_task and flush_pending.           *)

\* add_event, one event at a time between ticks.
Receive(c) ==
    /\ process # "down"
    /\ task = "running"
    /\ where[c] = "queued"
    /\ where' = [where EXCEPT ![c] = "pending"]
    /\ UNCHANGED <<process, task, gate, mem, saving, db, command, observers>>

\* drain_events, then flush_pending asks for the lock, if there is something
\* to flush.
StartFlush(flushing, idle) ==
    LET drained == Moved(At("queued"), "pending")
    IN  /\ task = "running"
        /\ where' = drained
        /\ task' = IF \E c \in Chunks : drained[c] = "pending"
                     THEN flushing ELSE idle
        /\ UNCHANGED <<process, gate, mem, saving, db, command, observers>>

FlushTick == process # "down" /\ StartFlush("flushing", "running")

LastFlush == process = "stopping" /\ StartFlush("last flush", "done")

Flushing == task \in {"flushing", "last flush"} /\ ~saving

AfterFlush == IF task = "flushing" THEN "running" ELSE "done"

\* The events the task ends with go down with it.
Dropped == IF task = "last flush" THEN At("pending") ELSE {}

FlushedConfig == Charged(mem, At("pending"))

\* Fault: the revision is not compared.
FlushBlind ==
    /\ Flushing
    /\ db' = FlushedConfig
    /\ mem' = FlushedConfig
    /\ where' = Moved(At("pending"), "gone")
    /\ task' = AfterFlush
    /\ UNCHANGED <<process, gate, saving, command, observers>>

\* Fault: memory is charged anew, the events stay pending.
FlushWithoutClear ==
    /\ Flushing
    /\ db.revision = mem.revision
    /\ db' = FlushedConfig
    /\ mem' = FlushedConfig
    /\ task' = AfterFlush
    /\ UNCHANGED <<process, gate, where, saving, command, observers>>

\* The save is committed, memory takes the copy, pending is cleared.
FlushCommit ==
    /\ Flushing
    /\ db.revision = mem.revision
    /\ db' = FlushedConfig
    /\ mem' = FlushedConfig
    /\ where' = Moved(At("pending"), "gone")
    /\ task' = AfterFlush
    /\ UNCHANGED <<process, gate, saving, command, observers>>

\* The transaction is committed, then secure_file fails: save returns an
\* error although the database holds the new bill.
FlushCommitUnsecured ==
    /\ Flushing
    /\ db.revision = mem.revision
    /\ db' = FlushedConfig
    /\ where' = Moved(Dropped, "gone")
    /\ task' = AfterFlush
    /\ UNCHANGED <<process, gate, mem, saving, command, observers>>

\* Fault: the first save that fails ends the task.
FlushGiveUp ==
    /\ Flushing
    /\ where' = Moved(Dropped, "gone")
    /\ excused' = excused \cup Dropped
    /\ task' = "done"
    /\ UNCHANGED <<process, gate, mem, saving, db, command, delivered, forgiven, granted>>

\* Fault: what could not be saved is forgotten.
FlushForgetful ==
    /\ Flushing
    /\ where' = Moved(At("pending"), "gone")
    /\ task' = AfterFlush
    /\ UNCHANGED <<process, gate, mem, saving, db, command, observers>>

\* The revision has moved, or SQLite fails before the commit.
FlushFail ==
    /\ Flushing
    /\ where' = Moved(Dropped, "gone")
    /\ excused' = excused \cup Dropped
    /\ task' = AfterFlush
    /\ UNCHANGED <<process, gate, mem, saving, db, command, delivered, forgiven, granted>>

-----------------------------------------------------------------------------
(* The tunnels handler, as far as it touches the bill.                     *)

\* The configuration with another set of tunnels is saved; the handler keeps
\* the lock while the listeners are reconciled.
SaveTunnels ==
    /\ process # "down"
    /\ ~saving
    /\ db.revision = mem.revision
    /\ db.revision < RevisionBound
    /\ db' = Bumped(mem)
    /\ saving' = TRUE
    /\ UNCHANGED <<process, task, gate, where, mem, command, observers>>

\* The same, but secure_file fails after the commit and the handler answers
\* with an error.
SaveTunnelsUnsecured ==
    /\ process # "down"
    /\ ~saving
    /\ db.revision = mem.revision
    /\ db.revision < RevisionBound
    /\ db' = Bumped(mem)
    /\ UNCHANGED <<server, command, observers>>

\* Reconciled: memory takes the saved copy.
AdoptTunnels ==
    /\ saving
    /\ mem' = Bumped(mem)
    /\ saving' = FALSE
    /\ UNCHANGED <<process, task, gate, where, db, command, observers>>

\* A port could not be bound: the original is saved over the candidate.
RollbackTunnels ==
    /\ saving
    /\ db.revision = mem.revision + 1
    /\ db' = Bumped(Bumped(mem))
    /\ mem' = db'
    /\ saving' = FALSE
    /\ UNCHANGED <<process, task, gate, where, command, observers>>

\* The rollback cannot be saved or fails after its commit, or the client
\* hangs up while the handler awaits reconcile: memory keeps the original
\* with its old revision.
AbandonTunnels ==
    /\ saving
    /\ saving' = FALSE
    /\ \/ UNCHANGED db
       \/ db.revision = mem.revision + 1 /\ db' = Bumped(Bumped(mem))
    /\ UNCHANGED <<process, task, gate, where, mem, command, observers>>

-----------------------------------------------------------------------------
(* The administrator's commands, one at a time.                            *)

ReadForCommand ==
    /\ ~command.busy
    /\ db.revision < RevisionBound
    /\ command' = [busy |-> TRUE, copy |-> db]
    /\ UNCHANGED <<server, db, observers>>

\* storage.save of the copy with the administrator's change in it.
CommandCommits(config) ==
    /\ command.busy
    /\ db.revision = command.copy.revision
    /\ db' = Bumped(config)
    /\ command' = NoCommand
    /\ UNCHANGED <<server, delivered, excused>>

\* set-traffic-used: everything charged so far is forgiven, and the usage is
\* whatever the administrator says.
SetUsage(n) ==
    /\ CommandCommits(WithUsage(command.copy, n))
    /\ forgiven' = Chunks \ At("unread")
    /\ granted' = n

\* set-traffic-limit: the usage stays, below the new limit or above it.
SetLimit(n) ==
    /\ CommandCommits([command.copy EXCEPT !.limit = n])
    /\ granted' = command.copy.used
    /\ UNCHANGED forgiven

\* Any command that leaves limit and usage alone.
SaveCommand ==
    /\ CommandCommits(command.copy)
    /\ UNCHANGED <<forgiven, granted>>

\* The revision has moved, the prompt was left or the save failed.
EndCommand ==
    /\ command.busy
    /\ command' = NoCommand
    /\ UNCHANGED <<server, db, observers>>

-----------------------------------------------------------------------------
(* The life of the server process: command_serve.                          *)

\* A signal, or the end of frps: the cancellation token is set.  It reaches
\* the accounting task and, later, the connections.
Stop == /\ process = "up"
        /\ process' = "stopping"
        /\ UNCHANGED <<task, gate, where, mem, saving, db, command, observers>>

InProcess == Chunks \ (At("unread") \cup At("gone"))

End == /\ process' = "down"
       /\ task' = "done"
       /\ gate' = 0
       /\ where' = Moved(InProcess, "gone")
       /\ excused' = excused \cup InProcess
       /\ saving' = FALSE
       /\ UNCHANGED <<mem, db, command, delivered, forgiven, granted>>

\* The accounting task has been joined; connections are not waited for.
Exit == process = "stopping" /\ task = "done" /\ End

Crash == process # "down" /\ End

\* Fault: the gate starts from zero instead of the recorded usage.
StartFresh ==
    /\ process = "down"
    /\ process' = "up"
    /\ task' = "running"
    /\ mem' = db
    /\ gate' = 0
    /\ UNCHANGED <<where, saving, db, command, observers>>

\* storage.read, TrafficController::new, spawn_accounting_task.
Start ==
    /\ process = "down"
    /\ process' = "up"
    /\ task' = "running"
    /\ mem' = db
    /\ gate' = db.used
    /\ UNCHANGED <<where, saving, db, command, observers>>

Flush == FlushCommit \/ FlushCommitUnsecured \/ FlushFail

Next ==
    \/ \E c \in Chunks : \/ Charge(c) \/ Deliver(c) \/ Send(c)
                         \/ SendToNobody(c) \/ Cut(c) \/ Receive(c)
    \/ FlushTick \/ LastFlush \/ Flush
    \/ SaveTunnels \/ SaveTunnelsUnsecured
    \/ AdoptTunnels \/ RollbackTunnels \/ AbandonTunnels
    \/ ReadForCommand \/ SaveCommand \/ EndCommand
    \/ \E n \in Usages : SetUsage(n)
    \/ \E n \in Limits : SetLimit(n)
    \/ Stop \/ Exit \/ Crash \/ Start

Spec == Init /\ [][Next]_vars

\* The tick comes again and again, the handler ends, and a save that is tried
\* for ever and is not refused succeeds in the end.
FairSpec == /\ Spec
            /\ WF_vars(FlushTick)
            /\ SF_vars(FlushCommit)
            /\ WF_vars(Flush)
            /\ WF_vars(AdoptTunnels \/ RollbackTunnels \/ AbandonTunnels)

-----------------------------------------------------------------------------
\* The usage never goes below zero, and every chunk is in one place.
TypeOK ==
    /\ process \in {"up", "stopping", "down"}
    /\ task \in {"running", "flushing", "last flush", "done"}
    /\ gate \in Nat
    /\ where \in [Chunks -> Stages]
    /\ mem \in Configs /\ db \in Configs
    /\ saving \in BOOLEAN
    /\ command \in [busy : BOOLEAN, copy : Configs]
    /\ delivered \subseteq Chunks
    /\ excused \subseteq Chunks
    /\ forgiven \subseteq Chunks
    /\ granted \in Nat

\* No chunk is ever billed twice, whatever saves fail, conflict or fail after
\* their commit with the events kept for the next tick
\* (controller.rs flush_pending, storage.rs save).
NoDoubleBilling == \A c \in Chunks : db.bill[c] <= 1

\* Only what was forwarded is billed (controller.rs copy_limited: the event
\* follows the write).
OnlyDeliveredBilled == \A c \in Chunks : db.bill[c] > 0 => c \in delivered

\* Once the usage the administrator sets is committed, traffic from before it
\* never comes back on the bill, though the server still holds it in memory,
\* in its queue and in its connections
\* (app.rs command_set_traffic_used, storage.rs save).
ResetSticks == \A c \in forgiven : db.bill[c] = 0

\* Traffic the process is done with is on the bill, unless the usage was
\* set or the chunk went down with its connection or process: a failed
\* flush keeps its events (controller.rs spawn_accounting_task).
NothingForgotten ==
    \A c \in delivered : where[c] = "gone" =>
        db.bill[c] = 1 \/ c \in excused \/ c \in forgiven

\* The quota holds from end to end, across restarts and whatever limits and
\* usages the administrator sets: traffic never takes the record above the
\* limit, so that it only exceeds the limit where the administrator has left
\* it there, and a user above the limit gets nothing; and with what is still
\* on its way to the record the process stays within the limit it started with
\* (controller.rs reserve, TrafficController::new, app.rs
\* command_set_traffic_limit, command_set_traffic_used).
QuotaEndToEnd ==
    /\ db.limit # 0 => db.used <= db.limit \/ db.used <= granted
    /\ process # "down" /\ mem.limit # 0 /\ InProcess # {} =>
          mem.used + Cardinality(InProcess) <= mem.limit

\* Memory that other processes, or an abandoned save, have left behind.
Stale == ~saving /\ mem.revision # db.revision

\* A queued event is billed in the end, unless the process ends or memory no
\* longer matches the database (controller.rs spawn_accounting_task).
QueuedIsBilled ==
    \A c \in Chunks :
        where[c] = "queued" ~> db.bill[c] = 1 \/ process # "up" \/ Stale
=============================================================================
