--------------------------- MODULE TrafficRecords ---------------------------
(***************************************************************************)
(* The traffic per port (storage.rs traffic_records, app.rs tunnels,       *)
(* controller.rs add_event and flush_pending).                             *)
(*                                                                         *)
(* In memory a user has a record for each proxy name she ever had; the     *)
(* table has one row per proxy name, of the user who was written last.  A  *)
(* proxy name follows from a tunnel id, which clients choose: a user may   *)
(* use one that another user has given up, and then both have a record of  *)
(* that name until the service starts again, when whoever the row is of    *)
(* keeps it.  Traffic is counted on after a tunnel has left the plan, for  *)
(* as long as its connections last.                                        *)
(*                                                                         *)
(* The administrator's set-traffic-used changes what a user is billed and  *)
(* leaves her records alone; from then on the two differ by as much as     *)
(* they did when the service had started again.                            *)
(*                                                                         *)
(* Saves of the service succeed here; Metering is about those that do not. *)
(* Left out: a record's `active' flag, which nothing reads, its protocol   *)
(* and its public port; the deletion of a user, whose rows go with her;    *)
(* and tunnel ids of dashes only, whose proxy name is drawn anew at every  *)
(* save, so that their traffic has a record under each name they had.      *)
(***************************************************************************)
EXTENDS Naturals, FiniteSets, FiniteSetsExt, Functions

CONSTANTS
    Users,       \* naturals, in the order of their accounts
    Names,
    MaxBytes     \* bound: bytes a user is billed, and bytes she is shown

VARIABLES
    plan,      \* proxy names of each user's tunnels, stored and in memory
    used,      \* traffic_used_bytes of each user, stored and in memory
    records,   \* traffic_by_proxy of each user in memory
    table,     \* traffic_records, by proxy name
    carried,   \* names each user's listeners had since the service started
    pending,   \* bytes not flushed yet, by user and name
    shared,    \* users who lost a record to another user of its name at a start
    usedThen,  \* each user's usage when the administrator last set it
    shownThen  \* what her records added up to then

vars == <<plan, used, records, table, carried, pending, shared, usedThen, shownThen>>
sinceSet == <<usedThen, shownThen>>

Empty == [n \in {} |-> 0]
NoBytes == [u \in Users |-> [n \in Names |-> 0]]

Init == /\ plan = [u \in Users |-> {}]
        /\ used = [u \in Users |-> 0]
        /\ records = [u \in Users |-> Empty]
        /\ table = Empty
        /\ carried = [u \in Users |-> {}]
        /\ pending = NoBytes
        /\ shared = {}
        /\ usedThen = used
        /\ shownThen = used

Sum(f) == FoldFunction(+, 0, f)

-----------------------------------------------------------------------------
(* write_snapshot: the records of the users in their order, each over the  *)
(* row of its name.  No row is ever deleted with its tunnel.               *)

Having(n, recs) == {u \in Users : n \in DOMAIN recs[u]}

Writer(n, recs) == Max(Having(n, recs))

WriteRecords(recs) ==
    table' = [n \in DOMAIN table \cup UNION {DOMAIN recs[u] : u \in Users} |->
                IF Having(n, recs) = {} THEN table[n]
                ELSE [user |-> Writer(n, recs), bytes |-> recs[Writer(n, recs)][n]]]

-----------------------------------------------------------------------------
BytesOf(u, n) == IF n \in DOMAIN records[u] THEN records[u][n] ELSE 0

\* The handler keeps the records and makes those that are missing.
AfterSave(u, names) == [n \in DOMAIN records[u] \cup names |-> BytesOf(u, n)]

Save(u, names) ==
    /\ \A v \in Users \ {u} : plan[v] \cap names = {}
    /\ plan' = [plan EXCEPT ![u] = names]
    /\ records' = [records EXCEPT ![u] = AfterSave(u, names)]
    /\ WriteRecords(records')
    /\ carried' = [carried EXCEPT ![u] = @ \cup names]
    /\ UNCHANGED <<used, pending, shared, sinceSet>>

\* A byte of a tunnel, or of one that has left the plan with connections open.
Traffic(u, n) ==
    /\ n \in carried[u]
    /\ used[u] + Sum(pending[u]) < MaxBytes
    /\ Sum(records[u]) + Sum(pending[u]) < MaxBytes
    /\ pending' = [pending EXCEPT ![u][n] = @ + 1]
    /\ UNCHANGED <<plan, used, records, table, carried, shared, sinceSet>>

\* Fault: traffic of a tunnel that has left the plan is in the usage only.
AfterFlushPlanned(u) ==
    [n \in DOMAIN records[u] |->
        BytesOf(u, n) + (IF n \in plan[u] THEN pending[u][n] ELSE 0)]

\* Every name with traffic has a record.
AfterFlush(u) ==
    [n \in DOMAIN records[u] \cup {m \in Names : pending[u][m] > 0} |->
        BytesOf(u, n) + pending[u][n]]

Flush ==
    /\ pending # NoBytes
    /\ used' = [u \in Users |-> used[u] + Sum(pending[u])]
    /\ records' = [u \in Users |-> AfterFlush(u)]
    /\ WriteRecords(records')
    /\ pending' = NoBytes
    /\ UNCHANGED <<plan, carried, shared, sinceSet>>

\* read: each row becomes a record of its user.
Loaded(u) == [n \in {m \in DOMAIN table : table[m].user = u} |-> table[n].bytes]

Load ==
    /\ records' = [u \in Users |-> Loaded(u)]
    /\ shared' = shared \cup {u \in Users : DOMAIN records[u] # DOMAIN Loaded(u)}
    /\ carried' = plan
    /\ pending' = NoBytes

Restart == Load /\ UNCHANGED <<plan, used, table, sinceSet>>

\* set-traffic-used, and the restart it ends with.  The command writes every
\* row as it read it; what is pending when it commits is refused at its save.
SetUsed(u, bytes) ==
    /\ Load
    /\ used' = [used EXCEPT ![u] = bytes]
    /\ usedThen' = [usedThen EXCEPT ![u] = bytes]
    /\ shownThen' = [shownThen EXCEPT ![u] = Sum(Loaded(u))]
    /\ UNCHANGED <<plan, table>>

Next == \/ \E u \in Users : \/ \E names \in SUBSET Names : Save(u, names)
                            \/ \E n \in Names : Traffic(u, n)
                            \/ \E bytes \in 0..MaxBytes : SetUsed(u, bytes)
        \/ Flush
        \/ Restart

Spec == Init /\ [][Next]_vars

-----------------------------------------------------------------------------
\* The values of the variables.
TypeOK ==
    /\ plan \in [Users -> SUBSET Names]
    /\ used \in [Users -> 0..MaxBytes]
    /\ \A u \in Users : /\ DOMAIN records[u] \subseteq Names
                        /\ Range(records[u]) \subseteq 0..MaxBytes
    /\ DOMAIN table \subseteq Names
    /\ \A n \in DOMAIN table : table[n] \in [user : Users, bytes : 0..MaxBytes]
    /\ carried \in [Users -> SUBSET Names]
    /\ pending \in [Users -> [Names -> 0..MaxBytes]]
    /\ shared \subseteq Users
    /\ usedThen \in [Users -> 0..MaxBytes]
    /\ shownThen \in [Users -> 0..MaxBytes]

\* What users have been billed since the administrator last set their usage,
\* or ever, is what their ports together show more than then, through saves
\* that take tunnels out and in again, traffic that arrives after its tunnel
\* has left, and restarts, as long as no other user has taken a name.
PortsAddUp ==
    \A u \in Users \ shared : used[u] + shownThen[u] = Sum(records[u]) + usedThen[u]

\* A start loses a user's record only to another user who has a record of the
\* same name, and brings back every other one with its bytes.
LostOnlyToNamesake ==
    \A u \in Users : \A n \in DOMAIN records[u] :
        /\ n \in DOMAIN table
        /\ \/ table[n].user = u /\ table[n].bytes = records[u][n]
           \/ table[n].user # u /\ n \in DOMAIN records[table[n].user]

=============================================================================
