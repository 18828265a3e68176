---------------------------- MODULE SerialConfig ----------------------------
(***************************************************************************)
(* What the configuration store promises: one configuration, changed by    *)
(* one command, tunnel save or usage charge at a time, each looking at the *)
(* configuration as it is at that moment and changing only what it is      *)
(* about.  Nothing is said here of copies, revisions or processes.         *)
(*                                                                         *)
(* A tunnel save whose ports turn out not to be available may be taken     *)
(* back, but only while nothing else has changed since.                    *)
(***************************************************************************)
EXTENDS Integers

CONSTANTS
    Users,        \* user ids
    Accounts,     \* account names
    MaxTunnels,   \* the largest tunnel_limit
    DefaultLimit, \* tunnel_limit of a new user
    Quota,        \* traffic_limit_bytes, the same for every user
    MaxUsed,      \* bound: usage is counted up to here
    InitialUsers, \* the users to start from
    Absent        \* stands for "no such user"

Records == [account : Accounts, limit : 0 .. MaxTunnels,
            used : 0 .. MaxUsed, tunnels : 0 .. MaxTunnels]
UserTables == [Users -> Records \cup {Absent}]

\* Users of a table.
Present(users) == {u \in Users : users[u] # Absent}

AccountFree(users, account) ==
    \A u \in Present(users) : users[u].account # account

NewUser(account) ==
    [account |-> account, limit |-> DefaultLimit, used |-> 0, tunnels |-> 0]

\* What normalize_user_tunnels and the quota let a user save: up to the limit,
\* or no more than the user has.
MayPlan(record, n) == record.used < Quota /\ (n <= record.limit \/ n <= record.tunnels)

VARIABLES
    config, \* the users
    undo,   \* the users before the last tunnel save, while it can be undone
    ids     \* user ids given out so far
vars == <<config, undo, ids>>

Settled == Absent \* undo, when there is nothing to take back

Init == config = InitialUsers /\ undo = Settled /\ ids = Present(InitialUsers)

Becomes(users) == config' = users /\ undo' = Settled

AddUser(u, account) ==
    /\ u \notin ids
    /\ AccountFree(config, account)
    /\ Becomes([config EXCEPT ![u] = NewUser(account)])
    /\ ids' = ids \cup {u}

DeleteUser(u) == /\ config[u] # Absent
                 /\ Becomes([config EXCEPT ![u] = Absent])
                 /\ UNCHANGED ids

ChangeAccount(u, account) ==
    /\ config[u] # Absent
    /\ \A v \in Present(config) \ {u} : config[v].account # account
    /\ Becomes([config EXCEPT ![u].account = account])
    /\ UNCHANGED ids

SetTunnelLimit(u, n) == /\ config[u] # Absent
                        /\ Becomes([config EXCEPT ![u].limit = n])
                        /\ UNCHANGED ids

SetTrafficUsed(u) == /\ config[u] # Absent
                     /\ Becomes([config EXCEPT ![u].used = 0])
                     /\ UNCHANGED ids

Charge(u) == /\ config[u] # Absent
             /\ config[u].used < MaxUsed
             /\ Becomes([config EXCEPT ![u].used = @ + 1])
             /\ UNCHANGED ids

PlanTunnels(u, n) == /\ config[u] # Absent
                     /\ MayPlan(config[u], n)
                     /\ config' = [config EXCEPT ![u].tunnels = n]
                     /\ undo' \in {config, Settled}
                     /\ UNCHANGED ids

TakeBack == undo # Settled /\ Becomes(undo) /\ UNCHANGED ids

\* The tunnel save stands.
Settle == Becomes(config) /\ UNCHANGED ids

Next ==
    \/ \E u \in Users :
        \/ \E account \in Accounts : AddUser(u, account) \/ ChangeAccount(u, account)
        \/ \E n \in 0 .. MaxTunnels : SetTunnelLimit(u, n) \/ PlanTunnels(u, n)
        \/ DeleteUser(u) \/ SetTrafficUsed(u) \/ Charge(u)
    \/ TakeBack \/ Settle

Spec == Init /\ [][Next]_vars
=============================================================================
