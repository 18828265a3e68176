----------------------------- MODULE ConfigStore -----------------------------
(***************************************************************************)
(* The configuration as the program keeps it: a row of tables in SQLite,   *)
(* the copy the server holds in memory, and one copy in every running      *)
(* administrator's command (app.rs, storage.rs).                           *)
(*                                                                         *)
(* Every writer takes a copy, changes it and hands the whole copy to save, *)
(* which accepts it only if the copy's revision is still the one in the    *)
(* database.  The tunnels handler works on the copy in memory under its    *)
(* write lock and keeps the lock over the reconciliation of the listeners, *)
(* during which commands still commit.  A save may also report an error    *)
(* after it has committed (secure_file).                                   *)
(*                                                                         *)
(* A user is an account, a tunnel limit, a usage and a number of tunnels.  *)
(***************************************************************************)
EXTENDS Integers

CONSTANTS
    Users, Accounts, MaxTunnels, DefaultLimit, Quota, MaxUsed,
    InitialUsers, Absent, \* as in SerialConfig
    Commands,             \* administrator's commands that run at one time
    RevisionBound         \* bound: no commit from this revision on

VARIABLES
    db,      \* SQLite: [revision, users]
    mem,     \* the server's configuration: [revision, users]
    handler, \* the tunnels handler after its save: [busy, candidate]
    cli,     \* cli[a]: a command between read and save: [busy, copy]
    ids      \* user ids given out so far; new_user_id never repeats one

vars == <<db, mem, handler, cli, ids>>

Undo == IF handler.busy /\ db.revision = handler.candidate.revision
          THEN mem.users ELSE Absent

Serial == INSTANCE SerialConfig WITH config <- db.users, undo <- Undo

ASSUME StoreConstants ==
    /\ MaxTunnels \in Nat /\ Quota \in Nat /\ MaxUsed \in Nat
    /\ DefaultLimit \in 0 .. MaxTunnels
    /\ RevisionBound \in Nat
    /\ InitialUsers \in Serial!UserTables
    /\ Absent \notin Serial!Records /\ Absent \notin Serial!UserTables

Present(users) == Serial!Present(users)

\* normalize_loaded_config, and the UNIQUE constraint on users.account.
AccountsUnique(users) ==
    \A u, v \in Present(users) : users[u].account = users[v].account => u = v

ASSUME StartUnique == AccountsUnique(InitialUsers)

Copies == [revision : Nat, users : Serial!UserTables]
Idle == [busy |-> FALSE, candidate |-> [revision |-> 0, users |-> InitialUsers]]
NoCommand == [busy |-> FALSE, copy |-> [revision |-> 0, users |-> InitialUsers]]

Init == /\ db = [revision |-> 1, users |-> InitialUsers]
        /\ mem = db
        /\ handler = Idle
        /\ cli = [a \in Commands |-> NoCommand]
        /\ ids = Present(InitialUsers)

\* Fault: the copy is accepted whatever has been committed since it was taken.
SaveUnchecked(copy, users) ==
    /\ db.revision < RevisionBound
    /\ AccountsUnique(users)
    /\ db' = [revision |-> db.revision + 1, users |-> users]

\* storage.save of a copy with other users: normalize, compare the revision,
\* replace everything in one transaction.
Save(copy, users) ==
    /\ db.revision < RevisionBound
    /\ AccountsUnique(users)
    /\ db.revision = copy.revision
    /\ db' = [revision |-> copy.revision + 1, users |-> users]

-----------------------------------------------------------------------------
(* The server.                                                             *)

WithTunnels(u, n) == [mem.users EXCEPT ![u].tunnels = n]

MayPlan(u, n) == /\ mem.users[u] # Absent
                 /\ Serial!MayPlan(mem.users[u], n)

\* The tunnels handler saves a plan and goes on to reconcile.
PlanTunnels(u, n) ==
    /\ ~handler.busy
    /\ MayPlan(u, n)
    /\ Save(mem, WithTunnels(u, n))
    /\ handler' = [busy |-> TRUE, candidate |-> db']
    /\ UNCHANGED <<mem, cli, ids>>

\* The plan is committed, but save reports an error: memory stays as it was.
PlanTunnelsUnsecured(u, n) ==
    /\ ~handler.busy
    /\ MayPlan(u, n)
    /\ Save(mem, WithTunnels(u, n))
    /\ UNCHANGED <<mem, handler, cli, ids>>

\* Reconciled: *config = candidate.
AdoptPlan ==
    /\ handler.busy
    /\ mem' = handler.candidate
    /\ handler' = Idle
    /\ UNCHANGED <<db, cli, ids>>

\* Fault: the rollback reads the revision anew.
RollbackLatest ==
    /\ handler.busy
    /\ db' = [revision |-> db.revision + 1, users |-> mem.users]
    /\ mem' = db'
    /\ handler' = Idle
    /\ UNCHANGED <<cli, ids>>

\* Fault: the rollback does not count as a change.
RollbackInPlace ==
    /\ handler.busy
    /\ db.revision = handler.candidate.revision
    /\ db' = [handler.candidate EXCEPT !.users = mem.users]
    /\ mem' = db'
    /\ handler' = Idle
    /\ UNCHANGED <<cli, ids>>

\* A port is not available: the original, under the candidate's revision.
RollbackPlan ==
    /\ handler.busy
    /\ Save(handler.candidate, mem.users)
    /\ mem' = db'
    /\ handler' = Idle
    /\ UNCHANGED <<cli, ids>>

\* The rollback is committed, but save reports an error.
RollbackUnsecured ==
    /\ handler.busy
    /\ Save(handler.candidate, mem.users)
    /\ handler' = Idle
    /\ UNCHANGED <<mem, cli, ids>>

\* The rollback is refused, or the client hangs up during the reconcile.
AbandonPlan ==
    /\ handler.busy
    /\ handler' = Idle
    /\ UNCHANGED <<db, mem, cli, ids>>

\* flush_pending, for one user.
FlushUsage(u) ==
    /\ ~handler.busy
    /\ mem.users[u] # Absent
    /\ mem.users[u].used < MaxUsed
    /\ Save(mem, [mem.users EXCEPT ![u].used = @ + 1])
    /\ mem' \in {mem, db'} \* mem, if save reports an error after its commit
    /\ UNCHANGED <<handler, cli, ids>>

\* The service stops, orderly or not, and starts: storage.read.
Restart ==
    /\ mem' = db
    /\ handler' = Idle
    /\ UNCHANGED <<db, cli, ids>>

-----------------------------------------------------------------------------
(* The administrator's commands.                                           *)

\* The copy is that of one moment.  The code reads the settings first and then users, tunnels and
\* records, each with a SELECT of its own: a save in between leaves a copy of two moments, whose
\* revision is the older one, so that nothing it holds is ever saved (see Save).
ReadConfig(a) ==
    /\ ~cli[a].busy
    /\ cli' = [cli EXCEPT ![a] = [busy |-> TRUE, copy |-> db]]
    /\ UNCHANGED <<db, mem, handler, ids>>

Submit(a, users) ==
    /\ cli[a].busy
    /\ Save(cli[a].copy, users)
    /\ cli' = [cli EXCEPT ![a] = NoCommand]
    /\ UNCHANGED <<mem, handler>>

AddUser(a, u, account) ==
    /\ u \notin ids
    /\ Serial!AccountFree(cli[a].copy.users, account)
    /\ Submit(a, [cli[a].copy.users EXCEPT ![u] = Serial!NewUser(account)])
    /\ ids' = ids \cup {u}

DeleteUser(a, u) ==
    /\ cli[a].copy.users[u] # Absent
    /\ Submit(a, [cli[a].copy.users EXCEPT ![u] = Absent])
    /\ UNCHANGED ids

ChangeAccount(a, u, account) ==
    /\ cli[a].copy.users[u] # Absent
    /\ \A v \in Present(cli[a].copy.users) \ {u} :
          cli[a].copy.users[v].account # account
    /\ Submit(a, [cli[a].copy.users EXCEPT ![u].account = account])
    /\ UNCHANGED ids

SetTunnelLimit(a, u, n) ==
    /\ cli[a].copy.users[u] # Absent
    /\ Submit(a, [cli[a].copy.users EXCEPT ![u].limit = n])
    /\ UNCHANGED ids

SetTrafficUsed(a, u) ==
    /\ cli[a].copy.users[u] # Absent
    /\ Submit(a, [cli[a].copy.users EXCEPT ![u].used = 0])
    /\ UNCHANGED ids

\* The prompt is left, the copy is out of date or the save fails.
EndCommand(a) ==
    /\ cli[a].busy
    /\ cli' = [cli EXCEPT ![a] = NoCommand]
    /\ UNCHANGED <<db, mem, handler, ids>>

ServerStep ==
    \/ \E u \in Users : \/ \E n \in 0 .. MaxTunnels :
                              PlanTunnels(u, n) \/ PlanTunnelsUnsecured(u, n)
                        \/ FlushUsage(u)
    \/ AdoptPlan \/ RollbackPlan \/ RollbackUnsecured \/ AbandonPlan
    \/ Restart

CommandStep(a) ==
    \/ ReadConfig(a) \/ EndCommand(a)
    \/ \E u \in Users :
        \/ \E account \in Accounts : AddUser(a, u, account) \/ ChangeAccount(a, u, account)
        \/ \E n \in 0 .. MaxTunnels : SetTunnelLimit(a, u, n)
        \/ DeleteUser(a, u) \/ SetTrafficUsed(a, u)

Next == ServerStep \/ \E a \in Commands : CommandStep(a)

Spec == Init /\ [][Next]_vars

-----------------------------------------------------------------------------
\* Every copy of the configuration is one that validation accepts (storage.rs
\* normalize_loaded_config).
TypeOK ==
    /\ db \in Copies /\ mem \in Copies
    /\ handler \in [busy : BOOLEAN, candidate : Copies]
    /\ cli \in [Commands -> [busy : BOOLEAN, copy : Copies]]
    /\ ids \subseteq Users

\* A copy with the database's revision is a copy of the database's content:
\* the check in save compares numbers, and what makes that enough is that no
\* two different contents ever bear the same revision (storage.rs save, app.rs
\* tunnels, where the rollback borrows the candidate's revision).
RevisionMeansContent ==
    /\ mem.revision = db.revision => mem.users = db.users
    /\ \A a \in Commands :
          cli[a].busy /\ cli[a].copy.revision = db.revision
            => cli[a].copy.users = db.users

\* Every commit of every writer is one step of a configuration that is changed
\* by one writer at a time: no update is lost, nothing is decided on an old
\* copy, and a rollback takes back its own save only (storage.rs save).
Serializable == Serial!Spec

\* A user deleted by a command stays deleted, whatever copies of the user the
\* server's flushes, plans and rollbacks still work on
\* (app.rs command_delete_user, tunnels).
DeletedStaysDeleted ==
    [][\A u \in ids : db.users[u] = Absent => db'.users[u] = Absent]_vars
=============================================================================
