----------------------------- MODULE TunnelPlan -----------------------------
(***************************************************************************)
(* How a tunnel plan becomes rows: the tunnels handler validates the plan  *)
(* of one user against everybody's tunnels and gives every new tunnel a    *)
(* backend port (model.rs normalize_tunnels, app.rs                        *)
(* normalize_user_tunnels); save validates the whole configuration again   *)
(* (storage.rs normalize_loaded_config) and writes it row by row under the *)
(* table's UNIQUE constraints, deleting last (write_snapshot).             *)
(*                                                                         *)
(* A tunnel is an id, a protocol and a public port; names, remarks and     *)
(* addresses are left out, and so are the plans they make invalid.  An     *)
(* empty id is replaced by a fresh one, which is a plan with that id.      *)
(***************************************************************************)
EXTENDS Naturals, FiniteSets, SequencesExt

CONSTANTS
    UserOrder,    \* the users as save sorts them, by account
    Ids,          \* tunnel ids
    ProxyOf,      \* proxy_name_for: [Ids -> proxy names], not injective
    Protocols,
    Ports,        \* ports a plan may ask for
    Reserved,     \* api_port, frps_bind_port, plugin_port
    Pool,         \* BACKEND_PORT_START ..= BACKEND_PORT_END
    MaxTunnels,   \* MAX_TUNNELS_PER_USER
    DefaultLimit, \* tunnel_limit of a new user
    Absent,       \* stands for "no such user"
    Failed        \* stands for an error

Users == ToSet(UserOrder)

Requests == [id : Ids, protocol : Protocols, port : Ports]
Plans == BoundedSeq(Requests, MaxTunnels)
Tunnels == [id : Ids, protocol : Protocols, port : Ports, backend : Pool]
Rows == [id : Ids, protocol : Protocols, port : Ports, backend : Pool, user : Users]

VARIABLES
    config, \* config[u]: Absent, or [limit, tunnels]
    rows    \* the table of tunnels
vars == <<config, rows>>

Present(c) == {u \in Users : c[u] # Absent}

\* All tunnels of some users.
TunnelsOf(c, users) == UNION {ToSet(c[u].tunnels) : u \in users}

Backends(c) == {t.backend : t \in TunnelsOf(c, Present(c))}

-----------------------------------------------------------------------------
(* Validation.                                                             *)

Endpoint(t) == <<t.protocol, t.port>>

\* No two members of a sequence have the same F.
DistinctBy(F(_), s) == \A i, j \in DOMAIN s : F(s[i]) = F(s[j]) => i = j

Proxy(t) == ProxyOf[t.id]

\* normalize_tunnels, as far as it can refuse a plan of well-formed tunnels.
NormalizeTunnels(plan) == DistinctBy(Endpoint, plan)

\* Equal ids have equal proxy names: one test stands for both.
PlanAccepted(c, u, plan) ==
    LET others == TunnelsOf(c, Present(c) \ {u}) IN
    /\ Len(plan) <= c[u].limit \/ Len(plan) <= Len(c[u].tunnels)
    /\ Len(plan) <= MaxTunnels
    /\ NormalizeTunnels(plan)
    /\ DistinctBy(Proxy, plan)
    /\ \A t \in ToSet(plan) :
        /\ t.port \notin Reserved
        /\ t.port \notin Backends(c)
        /\ \A o \in others : Endpoint(o) # Endpoint(t) /\ Proxy(o) # Proxy(t)

\* Fault: ports of the plan itself are not kept from the new backends.
UsedPortsForgetful(c, u, plan) ==
    Reserved \cup Backends(c)
             \cup {t.port : t \in TunnelsOf(c, Present(c) \ {u})}

\* What a new backend port must not be.
UsedPorts(c, u, plan) ==
    Reserved \cup Backends(c)
             \cup {t.port : t \in TunnelsOf(c, Present(c) \ {u})}
             \cup {t.port : t \in ToSet(plan)}

\* allocate_backend_port: the first free one.
AllocateBackend(used) ==
    LET free == Pool \ used IN IF free = {} THEN Failed ELSE Min(free)

\* Fault: every tunnel of a plan is new.
KeptBackendNever(c, u, t) == Failed

\* The backend port of a tunnel the user has already.
KeptBackend(c, u, t) ==
    IF \E o \in ToSet(c[u].tunnels) : o.id = t.id
      THEN (CHOOSE o \in ToSet(c[u].tunnels) : o.id = t.id).backend
      ELSE Failed

\* The next tunnel of a plan gets its back-end port.
Give(c, u, done, t) ==
    LET kept == KeptBackend(c, u, t)
        port == IF kept # Failed THEN kept ELSE AllocateBackend(done.used)
    IN  IF done.tunnels = Failed \/ port = Failed
          THEN [done EXCEPT !.tunnels = Failed]
          ELSE [used |-> done.used \cup {port},
                tunnels |-> Append(done.tunnels,
                              [id |-> t.id, protocol |-> t.protocol,
                               port |-> t.port, backend |-> port])]

\* normalize_user_tunnels: the user's new tunnels, or Failed.
NormalizeUserTunnels(c, u, plan) ==
    IF PlanAccepted(c, u, plan)
      THEN FoldLeft(LAMBDA done, t : Give(c, u, done, t),
                    [used |-> UsedPorts(c, u, plan), tunnels |-> <<>>], plan).tunnels
      ELSE Failed

\* The tunnels of a configuration with their users, in the order they are written.
InOrder(c) ==
    FlattenSeq([i \in DOMAIN UserOrder |->
        LET u == UserOrder[i] IN
        IF c[u] = Absent THEN <<>>
        ELSE [j \in DOMAIN c[u].tunnels |->
                LET t == c[u].tunnels[j] IN
                [id |-> t.id, protocol |-> t.protocol, port |-> t.port,
                 backend |-> t.backend, user |-> u]]])

Backend(t) == t.backend

\* normalize_loaded_config, as far as tunnels go.
NormalizeLoadedConfig(c) ==
    LET all == InOrder(c) IN
    /\ \A u \in Present(c) : /\ c[u].limit <= MaxTunnels
                             /\ Len(c[u].tunnels) <= MaxTunnels
                             /\ NormalizeTunnels(c[u].tunnels)
    /\ DistinctBy(Proxy, all) /\ DistinctBy(Endpoint, all) /\ DistinctBy(Backend, all)
    /\ \A t \in ToSet(all) : t.port \notin Reserved /\ t.backend \notin Reserved
    /\ {t.port : t \in ToSet(all)} \cap {t.backend : t \in ToSet(all)} = {}

-----------------------------------------------------------------------------
(* The table.                                                              *)

\* The UNIQUE constraints of the table, but the primary key.
Clash(table, row) ==
    \E r \in table : /\ r.id # row.id
                     /\ \/ Proxy(r) = Proxy(row)
                        \/ Endpoint(r) = Endpoint(row)
                        \/ r.backend = row.backend

\* Fault: INSERT OR REPLACE, which removes what it clashes with.
UpsertReplacing(table, row) ==
    {r \in table : r.id # row.id /\ ~Clash({r}, row)} \cup {row}

\* INSERT ... ON CONFLICT(id) DO UPDATE.
Upsert(table, row) ==
    IF table = Failed THEN Failed
    ELSE IF Clash(table, row) THEN Failed
    ELSE {r \in table : r.id # row.id} \cup {row}

\* Fault: tunnels that are no longer in the configuration are left.
WriteSnapshotKeeping(table, c) ==
    FoldLeft(Upsert, {r \in table : c[r.user] # Absent}, InOrder(c))

\* Users go first and take their tunnels along, then every tunnel is written,
\* then the tunnels that are not in the configuration go.
WriteSnapshot(table, c) ==
    LET written == FoldLeft(Upsert, {r \in table : c[r.user] # Absent}, InOrder(c))
    IN  IF written = Failed THEN Failed
        ELSE {r \in written : \E t \in ToSet(InOrder(c)) : t.id = r.id}

-----------------------------------------------------------------------------
NewUser == [limit |-> DefaultLimit, tunnels |-> <<>>]

Init == config = [u \in Users |-> NewUser] /\ rows = {}

\* Storage::save, as far as tunnels go; on an error nothing is changed.
Save(c) ==
    /\ NormalizeLoadedConfig(c)
    /\ WriteSnapshot(rows, c) # Failed
    /\ rows' = WriteSnapshot(rows, c)
    /\ config' = c

WithPlan(u, plan) ==
    [config EXCEPT ![u].tunnels = NormalizeUserTunnels(config, u, plan)]

SavePlan(u, plan) ==
    /\ config[u] # Absent
    /\ NormalizeUserTunnels(config, u, plan) # Failed
    /\ Save(WithPlan(u, plan))

SetTunnelLimit(u, n) ==
    config[u] # Absent /\ Save([config EXCEPT ![u].limit = n])

AddUser(u) == config[u] = Absent /\ Save([config EXCEPT ![u] = NewUser])

DeleteUser(u) == config[u] # Absent /\ Save([config EXCEPT ![u] = Absent])

Next == \E u \in Users :
          \/ \E plan \in Plans : SavePlan(u, plan)
          \/ \E n \in 0 .. MaxTunnels : SetTunnelLimit(u, n)
          \/ AddUser(u)
          \/ DeleteUser(u)

Spec == Init /\ [][Next]_vars

-----------------------------------------------------------------------------
\* Every back-end port comes from the range, every plan is within the maximum
\* (storage.rs allocate_backend_port).
TypeOK ==
    /\ config \in [Users -> {Absent} \cup [limit : 0 .. MaxTunnels,
                                           tunnels : BoundedSeq(Tunnels, MaxTunnels)]]
    /\ rows \subseteq Rows

\* What a restart reads is what the server had in memory: the rows that were
\* written over one another are exactly the configuration's tunnels
\* (storage.rs write_snapshot, read).
RowsAreConfig == TypeOK /\ rows = ToSet(InOrder(config))

\* The two validations agree: no plan the handler accepts is then refused by
\* save's own validation, whatever backend ports it was given
\* (app.rs normalize_user_tunnels, storage.rs normalize_loaded_config).
ValidationsAgree ==
    \A u \in Present(config), plan \in Plans :
        NormalizeUserTunnels(config, u, plan) # Failed
            => NormalizeLoadedConfig(WithPlan(u, plan))

\* t is to have what another tunnel of the user has, port or proxy name.
Takes(t, o) == t.id # o.id /\ (Endpoint(t) = Endpoint(o) \/ Proxy(t) = Proxy(o))

\* A plan can be written one row at a time, deleting last: nothing passes from
\* a tunnel that goes, nor around a circle of tunnels.
CircleFree(old, new) ==
    /\ \A t \in new, o \in old : Takes(t, o) => \E n \in new : n.id = o.id
    /\ ~ \E circle \in SUBSET new :
            /\ circle # {}
            /\ \A t \in circle : \E o \in old :
                    Takes(t, o) /\ \E n \in circle : n.id = o.id

\* The table refuses an accepted plan for one reason only, a port or a proxy
\* name that another tunnel of the same user has.  A plan that takes over none
\* is stored in any order; one that takes over some is stored in the right
\* order, unless they come from deleted tunnels or go around in a circle
\* (storage.rs write_snapshot and the UNIQUE constraints of create_schema).
RefusedOnlyForReuse ==
    \A u \in Present(config), plan \in Plans :
        LET planned == NormalizeUserTunnels(config, u, plan)
            old == ToSet(config[u].tunnels)
            Stored(order) == WriteSnapshot(rows, WithPlan(u, order)) # Failed
        IN  planned # Failed =>
            /\ CircleFree(old, ToSet(planned))
                 <=> \E order \in SetToSeqs(ToSet(plan)) : Stored(order)
            /\ (\A t \in ToSet(planned), o \in old : ~Takes(t, o)) => Stored(plan)

\* A tunnel that stays keeps its backend port, which the client's FRPC and the
\* running listener go on using (app.rs normalize_user_tunnels).
BackendKept ==
    [][\A u \in Users :
         config[u] # Absent /\ config'[u] # Absent =>
           \A t \in ToSet(config[u].tunnels), n \in ToSet(config'[u].tunnels) :
              t.id = n.id => t.backend = n.backend]_vars

\* A tunnel limit of 0 forbids a user to create tunnels, as the prompt for a
\* new limit says; the tunnels there are may stay (app.rs set_tunnel_limit,
\* normalize_user_tunnels).
LimitZeroForbidsCreating ==
    [][\A u \in Users :
         config[u] # Absent /\ config'[u] # Absent /\ config[u].limit = 0 =>
           {t.id : t \in ToSet(config'[u].tunnels)}
             \subseteq {t.id : t \in ToSet(config[u].tunnels)}]_vars
=============================================================================
