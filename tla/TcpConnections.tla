--------------------------- MODULE TcpConnections ---------------------------
(***************************************************************************)
(* The TCP connections of the public listeners (controller.rs              *)
(* run_tcp_listener, proxy_tcp_connection, copy_limited).                  *)
(*                                                                         *)
(* An accepted connection takes a permit of its listener's semaphore and   *)
(* then one of a semaphore that all listeners share, both with try, and is *)
(* dropped if either has none.  Its task connects to the back end, runs    *)
(* both copy loops and the cancellation under one select, and gives the    *)
(* permits back when it is over.  A listener that is started again has a   *)
(* semaphore of its own, while tasks of its predecessor may still be       *)
(* there.  What a copy loop charges and reports is in Metering; here it    *)
(* has a chunk in hand or not, and may have it for ever: the gate, the     *)
(* accounting queue or the receiving side keep it waiting.                 *)
(***************************************************************************)
EXTENDS Naturals, FiniteSets

CONSTANTS
    Tunnels,
    Connections,     \* tasks; one that is gone is used again
    MaxPerTunnel,    \* MAX_TCP_CONNECTIONS_PER_TUNNEL
    MaxTotal,        \* MAX_TCP_CONNECTIONS_TOTAL
    None

Directions == {"in", "out"}
Phases == {"gone", "connecting", "copying"}

VARIABLES
    step,       \* of each listener: "accept", "shared" with a permit of its own, "ended"
    cancelled,  \* its token, whose children the connections hold
    own,        \* what is left of its semaphore
    shared,     \* what is left of the shared semaphore
    phase,      \* of each connection
    of,         \* the listener of each connection
    old,        \* connections of an earlier run of their listener
    inHand      \* the directions of each connection that have a chunk in hand

vars == <<step, cancelled, own, shared, phase, of, old, inHand>>
listeners == <<step, cancelled>>

Init == /\ step = [t \in Tunnels |-> "accept"]
        /\ cancelled = [t \in Tunnels |-> FALSE]
        /\ own = [t \in Tunnels |-> MaxPerTunnel]
        /\ shared = MaxTotal
        /\ phase = [c \in Connections |-> "gone"]
        /\ of = [c \in Connections |-> None]
        /\ old = {}
        /\ inHand = [c \in Connections |-> {}]

-----------------------------------------------------------------------------
(* The listener.  A connection it has no permit for is dropped at once,    *)
(* which changes nothing.                                                  *)

Accept(t) ==
    /\ step[t] = "accept"
    /\ own[t] > 0
    /\ own' = [own EXCEPT ![t] = @ - 1]
    /\ step' = [step EXCEPT ![t] = "shared"]
    /\ UNCHANGED <<cancelled, shared, phase, of, old, inHand>>

\* Fault: the listener's own permit is lost with a connection that is dropped.
NoSharedPermitLeak(t) ==
    /\ step[t] = "shared"
    /\ shared = 0
    /\ step' = [step EXCEPT ![t] = "accept"]
    /\ UNCHANGED <<cancelled, own, shared, phase, of, old, inHand>>

NoSharedPermit(t) ==
    /\ step[t] = "shared"
    /\ shared = 0
    /\ own' = [own EXCEPT ![t] = @ + 1]
    /\ step' = [step EXCEPT ![t] = "accept"]
    /\ UNCHANGED <<cancelled, shared, phase, of, old, inHand>>

Spawn(t, c) ==
    /\ step[t] = "shared"
    /\ shared > 0
    /\ phase[c] = "gone"
    /\ shared' = shared - 1
    /\ phase' = [phase EXCEPT ![c] = "connecting"]
    /\ of' = [of EXCEPT ![c] = t]
    /\ step' = [step EXCEPT ![t] = "accept"]
    /\ UNCHANGED <<cancelled, own, old, inHand>>

End(t) ==
    /\ step[t] = "accept" /\ cancelled[t]
    /\ step' = [step EXCEPT ![t] = "ended"]
    /\ UNCHANGED <<cancelled, own, shared, phase, of, old, inHand>>

-----------------------------------------------------------------------------
(* The connection.                                                         *)

\* The task is over: both sockets close, chunks in hand are lost, and the
\* permits go back where they are from.
Over(c) ==
    /\ phase' = [phase EXCEPT ![c] = "gone"]
    /\ of' = [of EXCEPT ![c] = None]
    /\ inHand' = [inHand EXCEPT ![c] = {}]
    /\ shared' = shared + 1
    /\ own' = IF c \in old THEN own ELSE [own EXCEPT ![of[c]] = @ + 1]
    /\ old' = old \ {c}
    /\ UNCHANGED listeners

\* Nothing but the back end ends this wait; the cancellation does not.
Connect(c) ==
    /\ phase[c] = "connecting"
    /\ phase' = [phase EXCEPT ![c] = "copying"]
    /\ UNCHANGED <<listeners, own, shared, of, old, inHand>>

ConnectFails(c) == phase[c] = "connecting" /\ Over(c)

\* read, and the wait for the gate.
TakeChunk(c, d) ==
    /\ phase[c] = "copying" /\ d \notin inHand[c]
    /\ inHand' = [inHand EXCEPT ![c] = @ \cup {d}]
    /\ UNCHANGED <<listeners, own, shared, phase, of, old>>

\* Charged, written and reported.
PassChunk(c, d) ==
    /\ phase[c] = "copying" /\ d \in inHand[c]
    /\ inHand' = [inHand EXCEPT ![c] = @ \ {d}]
    /\ UNCHANGED <<listeners, own, shared, phase, of, old>>

\* One direction is at its end, fails, or has no quota left: the connection is
\* over, whatever the other one has in hand.
LoopEnds(c) == phase[c] = "copying" /\ Over(c)

\* Fault: the cancellation is looked at between chunks only.
CancelledBetweenChunks(c) ==
    /\ phase[c] = "copying"
    /\ c \in old \/ cancelled[of[c]]
    /\ inHand[c] = {}
    /\ Over(c)

Cancelled(c) ==
    /\ phase[c] = "copying"
    /\ c \in old \/ cancelled[of[c]]
    /\ Over(c)

-----------------------------------------------------------------------------
(* The controller.                                                         *)

Cancel(t) ==
    /\ cancelled' = [cancelled EXCEPT ![t] = TRUE]
    /\ UNCHANGED <<step, own, shared, phase, of, old, inHand>>

ConnectionsOf(t) == {c \in Connections : of[c] = t}

\* start_task: a listener with a token and a semaphore of its own.
Restart(t) ==
    /\ step[t] = "ended"
    /\ step' = [step EXCEPT ![t] = "accept"]
    /\ cancelled' = [cancelled EXCEPT ![t] = FALSE]
    /\ own' = [own EXCEPT ![t] = MaxPerTunnel]
    /\ old' = old \cup ConnectionsOf(t)
    /\ UNCHANGED <<shared, phase, of, inHand>>

-----------------------------------------------------------------------------
Next == \/ \E t \in Tunnels :
             \/ Accept(t) \/ NoSharedPermit(t) \/ End(t) \/ Cancel(t) \/ Restart(t)
             \/ \E c \in Connections : Spawn(t, c)
        \/ \E c \in Connections :
             \/ Connect(c) \/ ConnectFails(c) \/ LoopEnds(c) \/ Cancelled(c)
             \/ \E d \in Directions : TakeChunk(c, d) \/ PassChunk(c, d)

\* A connection to the machine's own back end is made or refused, and a task
\* that can run is run.  Nothing is assumed of chunks in hand.
Fairness ==
    \A c \in Connections : WF_vars(Connect(c) \/ ConnectFails(c)) /\ WF_vars(Cancelled(c))

Spec == Init /\ [][Next]_vars
FairSpec == Spec /\ Fairness

-----------------------------------------------------------------------------
\* The values of the variables.
TypeOK ==
    /\ step \in [Tunnels -> {"accept", "shared", "ended"}]
    /\ cancelled \in [Tunnels -> BOOLEAN]
    /\ own \in [Tunnels -> 0..MaxPerTunnel]
    /\ shared \in 0..MaxTotal
    /\ phase \in [Connections -> Phases]
    /\ of \in [Connections -> Tunnels \cup {None}]
    /\ old \subseteq Connections
    /\ inHand \in [Connections -> SUBSET Directions]

\* The connections that hold a permit of the semaphore a listener uses now.
Current(t) == ConnectionsOf(t) \ old

\* Both semaphores count what is there: a connection dropped between the two,
\* or one that outlives its listener, neither loses a permit nor adds one.
PermitsBalance ==
    /\ shared + Cardinality({c \in Connections : phase[c] # "gone"}) = MaxTotal
    /\ \A t \in Tunnels :
         own[t] + Cardinality(Current(t)) + (IF step[t] = "shared" THEN 1 ELSE 0)
            = MaxPerTunnel

\* The connections of a cancelled listener end, although clients, back end,
\* gate and accounting queue may keep both copy loops waiting for ever.
CancelledEnds ==
    \A t \in Tunnels, c \in Connections :
        of[c] = t /\ cancelled[t] ~> of[c] # t

=============================================================================
