----------------------------- MODULE FrpsPlugin -----------------------------
(***************************************************************************)
(* What FRPS opens (app.rs frps_plugin, plugin_login_response,             *)
(* plugin_proxy_response), beside the handlers login and tunnels, the      *)
(* accounting task, the administrator's commands and the restarts that     *)
(* follow them.                                                            *)
(*                                                                         *)
(* A client learns its user's tunnels and FRPS's token from an answer of   *)
(* the API, logs in to FRPS with the user's key and asks it for the        *)
(* back-end port of a tunnel.  FRPS asks the plugin, which decides by the  *)
(* configuration in the service's memory, and asks nobody when the         *)
(* configuration changes afterwards: a proxy stays open until its client   *)
(* closes it or FRPS ends with the service.  Meanwhile its port, and its   *)
(* name, may belong to another user's new tunnel.                          *)
(*                                                                         *)
(* A name follows from the tunnel id, which clients choose.  Ids of dashes *)
(* only, whose name is drawn anew at every save, are left out: the plugin  *)
(* refuses their proxies once the name has changed.                        *)
(*                                                                         *)
(* FRPS and the clients are external: FRPS opens a port once, and a client *)
(* asks for what it was last told.                                         *)
(***************************************************************************)
EXTENDS Naturals, FiniteSets, Functions

CONSTANTS
    Users,
    Clients,
    UserOf,      \* the user a client has the account of
    Names,       \* proxy names
    NamesOf,     \* bound: those a user asks for; users may ask for the same
    Ports,       \* BACKEND_PORT_START..BACKEND_PORT_END
    Limited,     \* the users who have a quota
    MaxKey,      \* bound: how often the key of each user is rotated
    None

ASSUME PluginConstants ==
    /\ UserOf \in [Clients -> Users]
    /\ NamesOf \in [Users -> SUBSET Names]
    /\ Ports \subseteq Nat /\ IsFiniteSet(Ports)
    /\ Limited \subseteq Users
    /\ MaxKey \in [Users -> Nat]
    /\ None \notin Nat

VARIABLES
    memory,     \* the service's copy: key, whether the quota is spent, tunnels
    stored,     \* the database's
    frps,       \* "starting", or "on" when it accepts connections
    key,        \* the key each client's user has typed in
    reading,    \* the login answers being made: what was read for them
    told,       \* what a client was told last: whether the token, which tunnels
    session,    \* the key with which a client is logged in to FRPS, or None
    open,       \* the proxies in FRPS
    left        \* proxies that were open and right when their tunnel left the plan

vars == <<memory, stored, frps, key, reading, told, session, open, left>>
clients == <<key, reading, told>>
inFrps == <<session, open>>

NoTunnels == [n \in {} |-> None]
NewUser == [key |-> 0, spent |-> FALSE, plan |-> NoTunnels]

Init == /\ memory = [u \in Users |-> NewUser]
        /\ stored = memory
        /\ frps = "starting"
        /\ key = [c \in Clients |-> 0]
        /\ reading = [c \in Clients |-> None]
        /\ told = [c \in Clients |-> [token |-> FALSE, plan |-> NoTunnels]]
        /\ session = [c \in Clients |-> None]
        /\ open = {}
        /\ left = {}

-----------------------------------------------------------------------------
(* The API.  A request is taken when its key is the one in memory.         *)

Authentic(c) == key[c] = memory[UserOf[c]].key

\* login clones the user, then gives the lock back.
LoginRead(c) ==
    /\ Authentic(c) /\ reading[c] = None
    /\ reading' = [reading EXCEPT ![c] =
                     [spent |-> memory[UserOf[c]].spent, plan |-> memory[UserOf[c]].plan]]
    /\ UNCHANGED <<memory, stored, frps, key, told, inFrps, left>>

\* The answer is made of the clone, and of whether FRPS accepts connections
\* now; without quota or without FRPS the client gets no token.
LoginAnswer(c) ==
    /\ reading[c] # None
    /\ told' = [told EXCEPT ![c] =
                  [token |-> ~ reading[c].spent /\ frps = "on", plan |-> reading[c].plan]]
    /\ reading' = [reading EXCEPT ![c] = None]
    /\ UNCHANGED <<memory, stored, frps, key, inFrps, left>>

\* tunnels, list.
List(c) ==
    /\ Authentic(c)
    /\ told' = [told EXCEPT ![c].plan = memory[UserOf[c]].plan]
    /\ UNCHANGED <<memory, stored, frps, key, reading, inFrps, left>>

PortsIn(plan) == Range(plan)

\* The ports that allocate_backend_port finds used.
PortsUsed == UNION {PortsIn(memory[v].plan) : v \in Users}

\* The lowest ports that are free, one for each new tunnel.
Lowest(free, count) == {p \in free : Cardinality({q \in free : q < p}) < count}

\* tunnels, save: what stays keeps its port, what is new gets a free one.
NewPlans(u, names) ==
    LET old == memory[u].plan
        kept == names \cap DOMAIN old
        fresh == Lowest(Ports \ PortsUsed, Cardinality(names \ kept))
    IN  {plan \in [names -> Ports] : /\ \A n \in kept : plan[n] = old[n]
                                     /\ {plan[n] : n \in names \ kept} = fresh
                                     /\ IsInjective(plan)}

\* The proxy is for a tunnel of the configuration in memory.
Right(q) ==
    LET plan == memory[UserOf[q.by]].plan
    IN  q.name \in DOMAIN plan /\ plan[q.name] = q.port

\* A save of the service is accepted while nobody else has changed the
\* database, and a name that no other user's tunnel has now.
Save(c, names) ==
    LET u == UserOf[c]
    IN  /\ Authentic(c) /\ ~ memory[u].spent
        /\ stored = memory
        /\ \A v \in Users \ {u} : names \cap DOMAIN memory[v].plan = {}
        /\ Cardinality(names \ DOMAIN memory[u].plan) <= Cardinality(Ports \ PortsUsed)
        /\ \E plan \in NewPlans(u, names) :
             /\ memory' = [memory EXCEPT ![u].plan = plan]
             /\ stored' = memory'
             /\ told' = [told EXCEPT ![c].plan = plan]
             /\ left' = {q \in left \cup {p \in open : Right(p)} : ~ Right(q)'}
        /\ UNCHANGED <<frps, key, reading, inFrps>>

\* flush_pending brings a user over the quota.
Spend(u) ==
    /\ stored = memory
    /\ u \in Limited /\ ~ memory[u].spent
    /\ memory' = [memory EXCEPT ![u].spent = TRUE]
    /\ stored' = memory'
    /\ UNCHANGED <<frps, clients, inFrps, left>>

-----------------------------------------------------------------------------
(* The administrator, and the restart.                                     *)

RotateKey(u) ==
    /\ stored[u].key < MaxKey[u]
    /\ stored' = [stored EXCEPT ![u].key = @ + 1]
    /\ UNCHANGED <<memory, frps, clients, inFrps, left>>

GrantQuota(u) ==
    /\ stored[u].spent
    /\ stored' = [stored EXCEPT ![u].spent = FALSE]
    /\ UNCHANGED <<memory, frps, clients, inFrps, left>>

\* The user types the new key in.
TypeKey(c) ==
    /\ key[c] # stored[UserOf[c]].key
    /\ key' = [key EXCEPT ![c] = stored[UserOf[c]].key]
    /\ UNCHANGED <<memory, stored, frps, reading, told, inFrps, left>>

\* Fault: FRPS is left running when the service is restarted.
RestartServiceOnly ==
    /\ memory' = stored
    /\ reading' = [c \in Clients |-> None]
    /\ UNCHANGED <<stored, frps, key, told, inFrps, left>>

\* After a command, at an update, after a failure: FRPS ends with the service.
Restart ==
    /\ memory' = stored
    /\ frps' = "starting"
    /\ reading' = [c \in Clients |-> None]
    /\ session' = [c \in Clients |-> None]
    /\ open' = {}
    /\ left' = {}
    /\ UNCHANGED <<stored, key, told>>

FrpsListens ==
    /\ frps = "starting"
    /\ frps' = "on"
    /\ UNCHANGED <<memory, stored, clients, inFrps, left>>

-----------------------------------------------------------------------------
(* FRPS and its plugin.                                                    *)

\* plugin_login_response.
PluginLogin(c) ==
    LET user == memory[UserOf[c]]
    IN  /\ frps = "on" /\ told[c].token /\ session[c] = None
        /\ key[c] = user.key
        /\ ~ user.spent
        /\ session' = [session EXCEPT ![c] = key[c]]
        /\ UNCHANGED <<memory, stored, frps, clients, open, left>>

\* Fault: the port is not compared.
RegisteredName(u, n, port) == n \in DOMAIN memory[u].plan

Registered(u, n, port) == n \in DOMAIN memory[u].plan /\ memory[u].plan[n] = port

\* plugin_proxy_response, for a tunnel the client was told of.
PluginNewProxy(c, n) ==
    LET u == UserOf[c]
        port == told[c].plan[n]
    IN  /\ session[c] # None
        /\ n \in DOMAIN told[c].plan
        /\ \A q \in open : q.port # port /\ q.name # n
        /\ session[c] = memory[u].key
        /\ ~ memory[u].spent
        /\ Registered(u, n, port)
        /\ open' = open \cup {[by |-> c, name |-> n, port |-> port]}
        /\ UNCHANGED <<memory, stored, frps, clients, session, left>>

Close(q) ==
    /\ open' = open \ {q}
    /\ left' = left \ {q}
    /\ UNCHANGED <<memory, stored, frps, clients, session>>

Disconnect(c) ==
    /\ session[c] # None
    /\ session' = [session EXCEPT ![c] = None]
    /\ open' = {q \in open : q.by # c}
    /\ left' = left \cap open'
    /\ UNCHANGED <<memory, stored, frps, clients>>

-----------------------------------------------------------------------------
Next ==
    \/ \E u \in Users : Spend(u) \/ RotateKey(u) \/ GrantQuota(u)
    \/ \E c \in Clients :
         \/ LoginRead(c) \/ LoginAnswer(c) \/ List(c) \/ TypeKey(c)
         \/ PluginLogin(c) \/ Disconnect(c)
         \/ \E names \in SUBSET NamesOf[UserOf[c]] : Save(c, names)
         \/ \E n \in NamesOf[UserOf[c]] : PluginNewProxy(c, n)
    \/ \E q \in open : Close(q)
    \/ Restart
    \/ FrpsListens

Spec == Init /\ [][Next]_vars

-----------------------------------------------------------------------------
Plans(u) == UNION {[names -> Ports] : names \in SUBSET NamesOf[u]}
UserOK(u, user) ==
    user.key \in 0..MaxKey[u] /\ user.spent \in BOOLEAN /\ user.plan \in Plans(u)

\* The values of the variables; no two tunnels of all users have one port.
TypeOK ==
    /\ \A u \in Users : UserOK(u, memory[u]) /\ UserOK(u, stored[u])
    /\ \A u, v \in Users : u # v =>
         PortsIn(memory[u].plan) \cap PortsIn(memory[v].plan) = {}
    /\ \A u \in Users : IsInjective(memory[u].plan)
    /\ frps \in {"starting", "on"}
    /\ \A c \in Clients : reading[c] # None =>
         reading[c].spent \in BOOLEAN /\ reading[c].plan \in Plans(UserOf[c])
    /\ \A c \in Clients : told[c].token \in BOOLEAN /\ told[c].plan \in Plans(UserOf[c])
    /\ \A c \in Clients : /\ key[c] \in 0..MaxKey[UserOf[c]]
                          /\ session[c] \in 0..MaxKey[UserOf[c]] \cup {None}
    /\ open \subseteq [by : Clients, name : Names, port : Ports]
    /\ left \subseteq open

\* Whoever is logged in to FRPS is so with the key that counts now: once the
\* service has restarted after a key was rotated, no client goes on with the
\* old one, and proxies belong to such sessions.
SessionsHaveTheKey ==
    /\ \A c \in Clients : session[c] # None => session[c] = memory[UserOf[c]].key
    /\ \A q \in open : session[q.by] # None

\* A listener hands its connections to the tunnel's back-end port.  Another
\* tunnel's proxy can wait there in one case only, which nothing prevents: it
\* was opened while its own tunnel had the port, and was still open when that
\* tunnel left the plan.  An answer of the API that is out of date, a rotated
\* key, another user with the same name or a restart in between bring nothing
\* else there.
RoutedToOwnerOrLeft ==
    \A u \in Users : \A n \in DOMAIN memory[u].plan : \A q \in open :
        q.port = memory[u].plan[n] =>
            \/ UserOf[q.by] = u /\ q.name = n
            \/ q \in left

=============================================================================
