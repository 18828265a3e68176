---------------------------- MODULE UdpSessions ----------------------------
(***************************************************************************)
(* The UDP sessions of the public listeners (controller.rs                 *)
(* run_udp_listener, run_udp_session).                                     *)
(*                                                                         *)
(* Every listener keeps a table from peers to the sender of the peer's     *)
(* session.  Listener and sessions share the table under a mutex, taken    *)
(* anew for every access, so that a session can end and tidy up between    *)
(* any two steps of the listener.  A session holds a permit of a semaphore *)
(* that all listeners share, until its task is gone.                       *)
(*                                                                         *)
(* A session has a receiver with room for QueueCapacity packets; when its  *)
(* run ends the receiver is dropped, and the listener finds the channel    *)
(* closed.  Gate and accounting queue may make a session wait or end;      *)
(* UserGate and Metering say when.                                         *)
(***************************************************************************)
EXTENDS Naturals, FiniteSets

CONSTANTS
    Tunnels,
    Peers,
    Sessions,          \* tasks; one that is gone is used again
    MaxPerTunnel,      \* MAX_UDP_SESSIONS_PER_TUNNEL
    MaxTotal,          \* MAX_UDP_SESSIONS_TOTAL
    QueueCapacity,     \* UDP_SESSION_QUEUE_CAPACITY
    None

ASSUME SessionConstants ==
    /\ MaxPerTunnel \in Nat /\ MaxTotal \in Nat
    /\ QueueCapacity \in Nat \ {0}
    /\ IsFiniteSet(Sessions)
    /\ None \notin Sessions /\ None \notin Peers /\ None \notin Tunnels

\* Where a listener is in its loop.
Steps == {"receive", "lookup", "remove", "limit", "permit", "insert", "ended"}

\* Where a session is: made but not spawned, opening its socket, in its loop,
\* waiting for the gate or the accounting queue, run over, out of the table.
Alive == {"opening", "running", "waiting"}
Phases == Alive \cup {"gone", "made", "closed", "tidied"}

VARIABLES
    step,       \* of each listener
    peer,       \* the sender of the packet a listener has in hand
    found,      \* the session a listener found or made for it
    cancelled,  \* the listener's token, whose children the sessions hold
    table,      \* sessions: the session of each peer
    permits,    \* what is left of the shared semaphore
    phase,      \* of each session
    owner,      \* the listener and the peer of each session
    queue,      \* packets in each session's channel
    quiet       \* no packet comes any more, from either side

vars == <<step, peer, found, cancelled, table, permits, phase, owner, queue, quiet>>
listeners == <<step, peer, found>>

NoOne == [tunnel |-> None, peer |-> None]

Init == /\ step = [t \in Tunnels |-> "receive"]
        /\ peer = [t \in Tunnels |-> None]
        /\ found = [t \in Tunnels |-> None]
        /\ cancelled = [t \in Tunnels |-> FALSE]
        /\ table = [t \in Tunnels |-> [p \in Peers |-> None]]
        /\ permits = MaxTotal
        /\ phase = [s \in Sessions |-> "gone"]
        /\ owner = [s \in Sessions |-> NoOne]
        /\ queue = [s \in Sessions |-> 0]
        /\ quiet = FALSE

\* The sessions in a table.
Entries(t) == {p \in Peers : table[t][p] # None}

\* The receiver exists.
Open(s) == phase[s] \in Alive \cup {"made"}

-----------------------------------------------------------------------------
(* The listener.                                                           *)

Goto(t, next) == step' = [step EXCEPT ![t] = next]

\* The packet is dropped or handed over; the next one.
NextPacket(t) ==
    /\ Goto(t, "receive")
    /\ peer' = [peer EXCEPT ![t] = None]
    /\ found' = [found EXCEPT ![t] = None]

\* A packet comes in, and the table is asked for its sender's session.
Receive(t, p) ==
    /\ step[t] = "receive" /\ ~quiet
    /\ peer' = [peer EXCEPT ![t] = p]
    /\ found' = [found EXCEPT ![t] = table[t][p]]
    /\ Goto(t, IF table[t][p] = None THEN "limit" ELSE "lookup")
    /\ UNCHANGED <<cancelled, table, permits, phase, owner, queue, quiet>>

\* select! may also see the cancellation; sessions hold child tokens.
End(t) ==
    /\ step[t] = "receive" /\ cancelled[t]
    /\ Goto(t, "ended")
    /\ UNCHANGED <<peer, found, cancelled, table, permits, phase, owner, queue, quiet>>

\* try_send: the session takes the packet, or its queue is full and the packet
\* is dropped.
HandOver(t) ==
    /\ step[t] = "lookup" /\ Open(found[t])
    /\ IF queue[found[t]] < QueueCapacity
       THEN queue' = [queue EXCEPT ![found[t]] = @ + 1]
       ELSE UNCHANGED queue
    /\ NextPacket(t)
    /\ UNCHANGED <<cancelled, table, permits, phase, owner, quiet>>

\* try_send: the channel is closed, the packet is kept for a new session.
FindClosed(t) ==
    /\ step[t] = "lookup" /\ ~Open(found[t])
    /\ Goto(t, "remove")
    /\ UNCHANGED <<peer, found, cancelled, table, permits, phase, owner, queue, quiet>>

Remove(t) ==
    /\ step[t] = "remove"
    /\ table' = [table EXCEPT ![t][peer[t]] = None]
    /\ found' = [found EXCEPT ![t] = None]
    /\ Goto(t, "limit")
    /\ UNCHANGED <<peer, cancelled, permits, phase, owner, queue, quiet>>

\* len() against MAX_UDP_SESSIONS_PER_TUNNEL.
Limit(t) ==
    /\ step[t] = "limit"
    /\ IF Cardinality(Entries(t)) >= MaxPerTunnel
       THEN NextPacket(t)
       ELSE Goto(t, "permit") /\ UNCHANGED <<peer, found>>
    /\ UNCHANGED <<cancelled, table, permits, phase, owner, queue, quiet>>

\* A task that nobody refers to any more.
Unused(s) == phase[s] = "gone" /\ \A t \in Tunnels : found[t] # s

\* try_acquire_owned, and the channel with the packet in it.
Acquire(t, s) ==
    /\ step[t] = "permit" /\ permits > 0
    /\ Unused(s)
    /\ permits' = permits - 1
    /\ phase' = [phase EXCEPT ![s] = "made"]
    /\ owner' = [owner EXCEPT ![s] = [tunnel |-> t, peer |-> peer[t]]]
    /\ queue' = [queue EXCEPT ![s] = 1]
    /\ found' = [found EXCEPT ![t] = s]
    /\ Goto(t, "insert")
    /\ UNCHANGED <<peer, cancelled, table, quiet>>

NoPermit(t) ==
    /\ step[t] = "permit" /\ permits = 0
    /\ NextPacket(t)
    /\ UNCHANGED <<cancelled, table, permits, phase, owner, queue, quiet>>

\* The sender goes into the table and the session is spawned.
Insert(t) ==
    /\ step[t] = "insert"
    /\ table' = [table EXCEPT ![t][peer[t]] = found[t]]
    /\ phase' = [phase EXCEPT ![found[t]] = "opening"]
    /\ NextPacket(t)
    /\ UNCHANGED <<cancelled, permits, owner, queue, quiet>>

-----------------------------------------------------------------------------
(* The session.                                                            *)

Become(s, next) == phase' = [phase EXCEPT ![s] = next]

\* The socket to the back end is bound and connected.
Connect(s) ==
    /\ phase[s] = "opening"
    /\ Become(s, "running")
    /\ UNCHANGED <<listeners, cancelled, table, permits, owner, queue, quiet>>

\* A packet of the peer, which asks the gate.
TakeInbound(s) ==
    /\ phase[s] = "running" /\ queue[s] > 0
    /\ queue' = [queue EXCEPT ![s] = @ - 1]
    /\ Become(s, "waiting")
    /\ UNCHANGED <<listeners, cancelled, table, permits, owner, quiet>>

\* A packet of the back end.
TakeBackend(s) ==
    /\ phase[s] = "running" /\ ~quiet
    /\ Become(s, "waiting")
    /\ UNCHANGED <<listeners, cancelled, table, permits, owner, queue, quiet>>

\* Charged, sent and reported: the loop goes on, with a new idle timer.
Forwarded(s) ==
    /\ phase[s] = "waiting"
    /\ Become(s, "running")
    /\ UNCHANGED <<listeners, cancelled, table, permits, owner, queue, quiet>>

\* run_udp_session returns and drops the receiver with what is in it: no
\* socket, quota used up, a send that fails.
Break(s) ==
    /\ phase[s] \in {"opening", "waiting"}
    /\ Become(s, "closed")
    /\ queue' = [queue EXCEPT ![s] = 0]
    /\ UNCHANGED <<listeners, cancelled, table, permits, owner, quiet>>

\* The same for UDP_SESSION_IDLE without a packet, or an error of the back end.
IdleOut(s) ==
    /\ phase[s] = "running"
    /\ Become(s, "closed")
    /\ queue' = [queue EXCEPT ![s] = 0]
    /\ UNCHANGED <<listeners, cancelled, table, permits, owner, quiet>>

\* The same for the cancelled token.
Cancelled(s) ==
    /\ phase[s] = "running" /\ cancelled[owner[s].tunnel]
    /\ Become(s, "closed")
    /\ queue' = [queue EXCEPT ![s] = 0]
    /\ UNCHANGED <<listeners, cancelled, table, permits, owner, quiet>>

\* Fault: the entry is removed whoever's it is.
TidyAnyone(s) ==
    LET o == owner[s] IN
    /\ phase[s] = "closed"
    /\ table' = [table EXCEPT ![o.tunnel][o.peer] = None]
    /\ Become(s, "tidied")
    /\ UNCHANGED <<listeners, cancelled, permits, owner, queue, quiet>>

\* Fault: the entry is left to the next packet of the peer.
TidyNothing(s) ==
    /\ phase[s] = "closed"
    /\ Become(s, "tidied")
    /\ UNCHANGED <<listeners, cancelled, table, permits, owner, queue, quiet>>

\* The entry is removed if it is still this session's: same_channel.
Tidy(s) ==
    LET o == owner[s] IN
    /\ phase[s] = "closed"
    /\ table' = IF table[o.tunnel][o.peer] = s
                THEN [table EXCEPT ![o.tunnel][o.peer] = None]
                ELSE table
    /\ Become(s, "tidied")
    /\ UNCHANGED <<listeners, cancelled, permits, owner, queue, quiet>>

\* The task is gone, and the permit with it.
Release(s) ==
    /\ phase[s] = "tidied"
    /\ permits' = permits + 1
    /\ Become(s, "gone")
    /\ owner' = [owner EXCEPT ![s] = NoOne]
    /\ UNCHANGED <<listeners, cancelled, table, queue, quiet>>

-----------------------------------------------------------------------------
(* The surroundings.                                                       *)

\* reconcile or shutdown cancel the listener.
Cancel(t) ==
    /\ cancelled' = [cancelled EXCEPT ![t] = TRUE]
    /\ UNCHANGED <<listeners, table, permits, phase, owner, queue, quiet>>

SessionsOf(t) == {s \in Sessions : owner[s].tunnel = t}

\* start_task on the same port, which is free when no session holds the socket
\* any more; the listener starts with a table of its own.
Restart(t) ==
    /\ step[t] = "ended"
    /\ \A s \in SessionsOf(t) : ~Open(s)
    /\ Goto(t, "receive")
    /\ cancelled' = [cancelled EXCEPT ![t] = FALSE]
    /\ table' = [table EXCEPT ![t] = [p \in Peers |-> None]]
    /\ UNCHANGED <<peer, found, permits, phase, owner, queue, quiet>>

\* From now on nobody sends.
Silence ==
    /\ ~quiet
    /\ quiet' = TRUE
    /\ UNCHANGED <<listeners, cancelled, table, permits, phase, owner, queue>>

-----------------------------------------------------------------------------
ListenerStep(t) ==
    \/ End(t) \/ HandOver(t) \/ FindClosed(t) \/ Remove(t) \/ Limit(t)
    \/ NoPermit(t) \/ Insert(t)
    \/ \E s \in Sessions : Acquire(t, s)

SessionStep(s) ==
    \/ Connect(s) \/ TakeInbound(s) \/ TakeBackend(s) \/ Forwarded(s) \/ Break(s)
    \/ IdleOut(s) \/ Cancelled(s) \/ Tidy(s) \/ Release(s)

Next == \/ \E t \in Tunnels : ListenerStep(t) \/ Cancel(t) \/ Restart(t)
                              \/ \E p \in Peers : Receive(t, p)
        \/ \E s \in Sessions : SessionStep(s)
        \/ Silence

\* Tasks that can run are run; when nobody sends, the gate has tokens for a
\* packet in the end, and the idle timer runs out.
Fairness ==
    /\ \A t \in Tunnels : WF_vars(ListenerStep(t))
    /\ \A s \in Sessions :
         /\ WF_vars(Connect(s) \/ TakeInbound(s) \/ Tidy(s) \/ Release(s))
         /\ WF_vars(quiet /\ (Forwarded(s) \/ Break(s)))
         /\ WF_vars(IdleOut(s))

Spec == Init /\ [][Next]_vars
FairSpec == Spec /\ Fairness

-----------------------------------------------------------------------------
\* The values of the variables.
TypeOK ==
    /\ step \in [Tunnels -> Steps]
    /\ peer \in [Tunnels -> Peers \cup {None}]
    /\ found \in [Tunnels -> Sessions \cup {None}]
    /\ cancelled \in [Tunnels -> BOOLEAN]
    /\ table \in [Tunnels -> [Peers -> Sessions \cup {None}]]
    /\ permits \in 0..MaxTotal
    /\ phase \in [Sessions -> Phases]
    /\ owner \in [Sessions -> [tunnel : Tunnels \cup {None}, peer : Peers \cup {None}]]
    /\ queue \in [Sessions -> 0..QueueCapacity]
    /\ quiet \in BOOLEAN

\* A session that forwards is the one its listener finds for the peer: nobody
\* removed its entry, in particular not the late cleanup of a predecessor
\* (same_channel), so no peer has two sessions at the back end.
AliveIsInTable ==
    \A s \in Sessions :
        phase[s] \in Alive => table[owner[s].tunnel][owner[s].peer] = s

\* A table has no entry of a session that has tidied up, which would count
\* against the limit until the peer happens to send again.
NoDeadEntries ==
    \A t \in Tunnels, p \in Peers :
        table[t][p] # None => /\ phase[table[t][p]] \in Alive \cup {"closed"}
                              /\ owner[table[t][p]] = [tunnel |-> t, peer |-> p]

\* Every permit of the shared semaphore is free or held by exactly one task,
\* whichever way the task ended or lost its place.
PermitsBalance ==
    permits + Cardinality({s \in Sessions : phase[s] # "gone"}) = MaxTotal

\* A listener never has more sessions forwarding than its limit, although it
\* looks at the table's length and inserts under different locks.
WithinLimit ==
    \A t \in Tunnels :
        Cardinality({s \in SessionsOf(t) : phase[s] \in Alive}) <= MaxPerTunnel

\* When nobody sends any more, every session ends, leaves its table and gives
\* its permit back for good (idle timeout, cleanup, permit).
QuietEmpties ==
    quiet ~> [](permits = MaxTotal /\ \A t \in Tunnels : Entries(t) = {})

=============================================================================
