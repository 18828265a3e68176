---------------------------- MODULE MCTunnelPlan ----------------------------
(***************************************************************************)
(* TunnelPlan for two users, four tunnel ids of which two share a proxy    *)
(* name, one protocol, and public ports that reach into the backend pool   *)
(* on one side and into the reserved ports on the other.                   *)
(***************************************************************************)
EXTENDS Naturals, Sequences, FiniteSets

CONSTANTS
    UserOrder, Ids, ProxyOf, Protocols, Ports, Reserved, Pool,   \* as in TunnelPlan
    MaxPlan,       \* its MaxTunnels
    FirstLimit,    \* its DefaultLimit
    NoUser,        \* its Absent
    Failed,
    ann, bob, i1, i2, i3, i4

VARIABLES config, rows

Plan == INSTANCE TunnelPlan
          WITH MaxTunnels <- MaxPlan, DefaultLimit <- FirstLimit, Absent <- NoUser

ASSUME PlanConstants ==
    /\ UserOrder \in Seq(Plan!Users) /\ Plan!IsInjective(UserOrder)
    /\ DOMAIN ProxyOf = Ids
    /\ Ports \cup Reserved \cup Pool \subseteq Nat
    /\ Pool \cap Reserved = {}
    /\ MaxPlan \in Nat /\ FirstLimit \in 0 .. MaxPlan
    /\ NoUser \notin [limit : 0 .. MaxPlan, tunnels : Seq(Plan!Tunnels)]
    /\ Failed \notin Pool /\ Failed \notin Seq(Plan!Tunnels)

planVars == <<config, rows>>

PlanSpec == Plan!Init /\ [][Plan!Next]_planVars

-----------------------------------------------------------------------------
\* A restart reads what the server had in memory (storage.rs write_snapshot).
RowsAreConfig == Plan!RowsAreConfig
\* What the tunnels handler accepts, save does not refuse (app.rs
\* normalize_user_tunnels, storage.rs normalize_loaded_config).
ValidationsAgree == Plan!ValidationsAgree
\* The table refuses an accepted plan only for a port or a proxy name that it
\* takes over from another tunnel (storage.rs write_snapshot, create_schema).
RefusedOnlyForReuse == Plan!RefusedOnlyForReuse
\* A tunnel that stays keeps its back-end port (app.rs normalize_user_tunnels).
BackendKept == Plan!BackendKept
\* A tunnel limit of 0 forbids to create tunnels (app.rs set_tunnel_limit).
LimitZeroForbidsCreating == Plan!LimitZeroForbidsCreating

-----------------------------------------------------------------------------
MCUserOrder == <<ann, bob>>
MCIds == {i1, i2, i3, i4}
MCProxyOf == [i \in MCIds |-> IF i \in {i1, i2} THEN "fg-1"
                              ELSE IF i = i3 THEN "fg-3" ELSE "fg-4"]
MCPorts == 1 .. 4
MCReserved == {1}
MCPool == 4 .. 6
=============================================================================
