---------------------------- MODULE MCBackendPorts ----------------------------
(***************************************************************************)
(* What belongs to whom by its proxy name: FrpsPlugin with two users, of   *)
(* whom one has a quota and gets a new key, and with the back-end ports    *)
(* for a tunnel of each; and TrafficRecords with two users and two names.  *)
(* The two have no variable in common, so in each behaviour only one of    *)
(* them is at work.                                                        *)
(***************************************************************************)
EXTENDS FrpsPlugin, TLC

CONSTANTS
    Owners,                      \* TrafficRecords' users
    MaxBytes,                    \* bound: bytes one of them is billed, or shown
    u1, u2, c1, c2, n1, n2       \* TLC's users, clients, names

\* Accounts are numbered, and there are finitely many.
ASSUME RecordConstants ==
    /\ Owners \subseteq Nat /\ IsFiniteSet(Owners)
    /\ IsFiniteSet(Names)
    /\ MaxBytes \in Nat

MCUserOf == c1 :> u1 @@ c2 :> u2
MCMaxKey == u1 :> 1 @@ u2 :> 0
MCNamesOf == u1 :> {n1} @@ u2 :> {n1, n2}

VARIABLES
    part,                                                   \* what is at work
    plan, used, records, table, carried, pending, shared,   \* TrafficRecords
    usedThen, shownThen

Records == INSTANCE TrafficRecords WITH Users <- Owners

recordVars ==
    <<plan, used, records, table, carried, pending, shared, usedThen, shownThen>>

BothInit == Init /\ Records!Init /\ part \in {"plugin", "records"}

BothNext ==
    \/ part = "plugin" /\ Next /\ UNCHANGED <<part, recordVars>>
    \/ part = "records" /\ Records!Next /\ UNCHANGED <<part, vars>>

BothSpec == BothInit /\ [][BothNext]_<<part, vars, recordVars>>

\* What users are shown per port grows by what they are billed, set-traffic-used
\* apart, and a start loses a record only to another user who has taken the same
\* name (tunnels, add_event, flush_pending, write_snapshot, read).
RecordsAddUp == Records!TypeOK /\ Records!PortsAddUp /\ Records!LostOnlyToNamesake

=============================================================================
