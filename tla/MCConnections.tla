---------------------------- MODULE MCConnections ----------------------------
(***************************************************************************)
(* The public listeners: UdpSessions with two listeners, two peers and one *)
(* session per listener at a time, where a session that was replaced still *)
(* holds one of two permits, and TcpConnections with two listeners that    *)
(* share fewer permits than they have together.  The two kinds have no     *)
(* variable in common, so in each behaviour only one of them is at work.   *)
(***************************************************************************)
EXTENDS UdpSessions

CONSTANTS
    Connections,     \* TcpConnections' tasks
    TcpPerTunnel,    \* MAX_TCP_CONNECTIONS_PER_TUNNEL
    TcpTotal         \* MAX_TCP_CONNECTIONS_TOTAL

ASSUME ConnectionConstants ==
    IsFiniteSet(Connections) /\ TcpPerTunnel \in Nat /\ TcpTotal \in Nat

VARIABLES
    kind,                          \* which listeners are at work
    listener, token, connection,   \* TcpConnections' step, cancelled and phase
    own, shared, of, old, inHand   \* the others of TcpConnections

Tcp == INSTANCE TcpConnections WITH
         MaxPerTunnel <- TcpPerTunnel, MaxTotal <- TcpTotal,
         step <- listener, cancelled <- token, phase <- connection

tcpVars == <<listener, token, connection, own, shared, of, old, inHand>>

BothInit == Init /\ Tcp!Init /\ kind \in {"udp", "tcp"}

BothNext ==
    \/ kind = "udp" /\ Next /\ UNCHANGED <<kind, tcpVars>>
    \/ kind = "tcp" /\ Tcp!Next /\ UNCHANGED <<kind, vars>>

\* No fair action of the listeners at rest is enabled.
BothSpec == BothInit /\ [][BothNext]_<<kind, vars, tcpVars>> /\ Fairness /\ Tcp!Fairness

\* The table of a UDP listener holds exactly the sessions that may still
\* forward for their peer, the one a packet reaches included, and not more of
\* them than the limit (run_udp_listener, run_udp_session).
SessionTable == TypeOK /\ AliveIsInTable /\ NoDeadEntries /\ WithinLimit

\* Every permit of a semaphore is free or held by exactly one task, whichever
\* way the task ended, lost its place or outlived its listener
\* (run_udp_listener, run_tcp_listener).
PermitsReturn == PermitsBalance /\ Tcp!TypeOK /\ Tcp!PermitsBalance

\* The connections of a cancelled listener end, although both their copy loops
\* may be kept waiting for ever (proxy_tcp_connection).
CancelledEnds == Tcp!CancelledEnds

=============================================================================
