-------------------------- MODULE ConnectionsProofs --------------------------
(***************************************************************************)
(* Proofs about MCConnections: UdpSessions, TcpConnections, and both.      *)
(*                                                                         *)
(* UdpSessions.  Only the listener of a table puts anything into it, so    *)
(* between its steps entries can but go: what it found for a packet's peer *)
(* is there or gone, and what it found missing is missing still, with room *)
(* for one more.  A session's own cleanup takes its own entry only, so a   *)
(* session that forwards has one, and a table has no more sessions than    *)
(* entries.                                                                *)
(*                                                                         *)
(* TcpConnections.  A connection that is there holds a permit of the       *)
(* shared semaphore, and one of its listener's unless it is from an        *)
(* earlier run of it, which took that semaphore along.                     *)
(***************************************************************************)
EXTENDS MCConnections, FiniteSetTheorems, TLAPS

-----------------------------------------------------------------------------
(* UdpSessions: the invariant.                                             *)

\* Where a listener with a packet in hand is: what it found for the packet's
\* peer is in its table or has gone from it, and nobody else puts anything in.
UdpListener(t) ==
    /\ step[t] \notin {"receive", "ended"} => peer[t] \in Peers
    /\ step[t] \in {"lookup", "remove"} =>
          found[t] \in Sessions /\ table[t][peer[t]] \in {found[t], None}
    /\ step[t] = "remove" => ~ Open(found[t])
    /\ step[t] \in {"limit", "permit", "insert"} => table[t][peer[t]] = None
    /\ step[t] = "insert" => /\ found[t] \in Sessions /\ phase[found[t]] = "made"
                             /\ owner[found[t]] = [tunnel |-> t, peer |-> peer[t]]
    /\ IsFiniteSet(Entries(t)) /\ Cardinality(Entries(t)) <= MaxPerTunnel
    /\ step[t] \in {"permit", "insert"} => Cardinality(Entries(t)) < MaxPerTunnel

\* A session that is not gone belongs to a peer of a listener.
UdpSession(s) ==
    /\ IF phase[s] = "gone" THEN owner[s] = NoOne
       ELSE owner[s].tunnel \in Tunnels /\ owner[s].peer \in Peers
    /\ phase[s] \in Alive => table[owner[s].tunnel][owner[s].peer] = s

UdpInv ==
    /\ peer \in [Tunnels -> Peers \cup {None}]
    /\ found \in [Tunnels -> Sessions \cup {None}]
    /\ cancelled \in [Tunnels -> BOOLEAN]
    /\ table \in [Tunnels -> [Peers -> Sessions \cup {None}]]
    /\ permits \in Nat
    /\ owner \in [Sessions -> [tunnel : Tunnels \cup {None}, peer : Peers \cup {None}]]
    /\ queue \in [Sessions -> 0..QueueCapacity]
    /\ quiet \in BOOLEAN
    /\ step \in [Tunnels -> Steps] /\ phase \in [Sessions -> Phases]
    /\ \A t \in Tunnels : UdpListener(t)
    /\ \A s \in Sessions : UdpSession(s)
    /\ NoDeadEntries /\ PermitsBalance

-----------------------------------------------------------------------------
(* UdpSessions: steps.                                                     *)

LEMMA UdpInit == Init => UdpInv
<1> SUFFICES ASSUME Init PROVE UdpInv
  OBVIOUS
<1>1. /\ \A t \in Tunnels : /\ step[t] = "receive" /\ peer[t] = None /\ found[t] = None
                            /\ \A p \in Peers : table[t][p] = None
      /\ \A s \in Sessions : phase[s] = "gone" /\ owner[s] = NoOne
      /\ permits = MaxTotal /\ MaxTotal \in Nat /\ MaxPerTunnel \in Nat /\ QueueCapacity \in Nat
  BY SessionConstants DEF Init
<1>2. /\ peer \in [Tunnels -> Peers \cup {None}] /\ found \in [Tunnels -> Sessions \cup {None}]
      /\ cancelled \in [Tunnels -> BOOLEAN] /\ quiet \in BOOLEAN
      /\ table \in [Tunnels -> [Peers -> Sessions \cup {None}]]
      /\ queue \in [Sessions -> 0..QueueCapacity]
      /\ step \in [Tunnels -> Steps] /\ phase \in [Sessions -> Phases]
  <2>1. cancelled \in [Tunnels -> BOOLEAN] /\ quiet \in BOOLEAN
    BY DEF Init
  <2>2. table \in [Tunnels -> [Peers -> Sessions \cup {None}]]
    BY DEF Init
  <2>3. queue \in [Sessions -> 0..QueueCapacity]
    BY <1>1 DEF Init
  <2> QED
    BY <2>1, <2>2, <2>3 DEF Init, Steps, Phases, Alive
<1>3. owner \in [Sessions -> [tunnel : Tunnels \cup {None}, peer : Peers \cup {None}]]
  BY DEF Init, NoOne
<1>4. ASSUME NEW t \in Tunnels PROVE UdpListener(t)
  <2>1. Entries(t) = {}
    BY <1>1 DEF Entries
  <2>2. IsFiniteSet(Entries(t)) /\ Cardinality(Entries(t)) = 0
    BY <2>1, FS_EmptySet
  <2> QED
    BY <1>1, <2>2 DEF UdpListener, Steps
<1>5. \A s \in Sessions : UdpSession(s)
  BY <1>1 DEF UdpSession, Phases, Alive
<1>6. NoDeadEntries
  BY <1>1 DEF NoDeadEntries
<1>7. PermitsBalance
  <2>1. {s \in Sessions : phase[s] # "gone"} = {}
    BY <1>1
  <2>2. Cardinality({s \in Sessions : phase[s] # "gone"}) = 0
    BY <2>1, FS_EmptySet
  <2> QED
    BY <1>1, <2>2 DEF PermitsBalance
<1> QED
  BY <1>1, <1>2, <1>3, <1>4, <1>5, <1>6, <1>7 DEF UdpInv

\* The permits are kept by what leaves the same sessions there.
LEMMA SamePermits ==
  ASSUME UdpInv, permits' = permits,
         \A s \in Sessions : phase'[s] = "gone" <=> phase[s] = "gone"
  PROVE  permits' \in Nat /\ PermitsBalance'
<1>1. {s \in Sessions : phase'[s] # "gone"} = {s \in Sessions : phase[s] # "gone"}
  OBVIOUS
<1> QED
  BY <1>1 DEF UdpInv, PermitsBalance

\* What somebody else's step keeps of a listener.
LEMMA ListenerKept ==
  ASSUME UdpInv, NEW t \in Tunnels,
         step'[t] = step[t], peer'[t] = peer[t], found'[t] = found[t], table'[t] = table[t],
         step[t] = "remove" => ~ (phase'[found[t]] \in Alive \cup {"made"}),
         step[t] = "insert" => /\ phase'[found[t]] = phase[found[t]]
                               /\ owner'[found[t]] = owner[found[t]]
  PROVE  UdpListener(t)'
<1>1. UdpListener(t)
  BY DEF UdpInv
<1>2. Entries(t)' = Entries(t)
  BY DEF Entries
<1> QED
  BY <1>1, <1>2 DEF UdpListener, Open

\* The listener goes on, and nobody else does anything.
LEMMA ListenerMoves ==
  ASSUME UdpInv, NEW t \in Tunnels,
         NEW x \in Steps, NEW p \in Peers \cup {None}, NEW f \in Sessions \cup {None},
         step' = [step EXCEPT ![t] = x], peer' = [peer EXCEPT ![t] = p],
         found' = [found EXCEPT ![t] = f],
         queue' \in [Sessions -> 0..QueueCapacity],
         UNCHANGED <<cancelled, table, permits, phase, owner, quiet>>,
         UdpListener(t)'
  PROVE  UdpInv'
<1>1. /\ peer' \in [Tunnels -> Peers \cup {None}] /\ found' \in [Tunnels -> Sessions \cup {None}]
      /\ step' \in [Tunnels -> Steps]
  BY DEF UdpInv
<1>2. ASSUME NEW r \in Tunnels PROVE UdpListener(r)'
  <2>1. CASE r # t
    <3>1. step'[r] = step[r] /\ peer'[r] = peer[r] /\ found'[r] = found[r]
      BY <2>1 DEF UdpInv
    <3>2. step[r] = "remove" => ~ (phase'[found[r]] \in Alive \cup {"made"})
      BY DEF UdpInv, UdpListener, Open
    <3> QED
      BY <3>1, <3>2, ListenerKept
  <2> QED
    BY <2>1
<1>3. permits' \in Nat /\ PermitsBalance'
  BY SamePermits
<1>4. (\A s \in Sessions : UdpSession(s))' /\ NoDeadEntries'
  BY DEF UdpInv, UdpSession, NoDeadEntries
<1> QED
  BY <1>1, <1>2, <1>3, <1>4 DEF UdpInv

\* A session that is alive goes on or ends, and nobody else does anything.
LEMMA SessionMoves ==
  ASSUME UdpInv, NEW s \in Sessions, phase[s] \in Alive,
         NEW x \in Alive \cup {"closed"}, phase' = [phase EXCEPT ![s] = x],
         queue' \in [Sessions -> 0..QueueCapacity],
         UNCHANGED <<step, peer, found, cancelled, table, permits, owner, quiet>>
  PROVE  UdpInv'
<1>1. /\ phase' \in [Sessions -> Phases] /\ phase'[s] = x
      /\ \A r \in Sessions \ {s} : phase'[r] = phase[r]
  BY DEF UdpInv, Phases
<1>2. x # "gone" /\ x # "made" /\ phase[s] # "gone" /\ phase[s] # "made" /\ x \in Phases
  BY DEF Alive, Phases
<1>3. ASSUME NEW t \in Tunnels PROVE UdpListener(t)'
  <2>1. UdpListener(t)
    BY DEF UdpInv
  <2>2. step[t] = "remove" => found[t] \in Sessions \ {s}
    BY <2>1 DEF UdpListener, Open
  <2>3. step[t] = "insert" => found[t] \in Sessions \ {s}
    BY <1>2, <2>1 DEF UdpListener
  <2>4. step[t] = "remove" => ~ (phase'[found[t]] \in Alive \cup {"made"})
    BY <1>1, <2>1, <2>2 DEF UdpListener, Open
  <2> QED
    BY <1>1, <2>3, <2>4, ListenerKept
<1>4. ASSUME NEW r \in Sessions PROVE UdpSession(r)'
  <2>1. UdpSession(r) /\ UdpSession(s)
    BY DEF UdpInv
  <2> QED
    BY <1>1, <1>2, <2>1 DEF UdpSession
<1>5. NoDeadEntries'
  <2>1. \A r \in Sessions : phase[r] \in Alive \cup {"closed"}
                             => phase'[r] \in Alive \cup {"closed"}
    BY <1>1
  <2>2. \A t \in Tunnels, p \in Peers : table[t][p] \in Sessions \cup {None}
    BY DEF UdpInv
  <2> QED
    BY <2>1, <2>2 DEF UdpInv, NoDeadEntries
<1>6. permits' \in Nat /\ PermitsBalance'
  BY <1>1, <1>2, SamePermits
<1> QED
  BY <1>1, <1>3, <1>4, <1>5, <1>6 DEF UdpInv

\* A listener that has no packet in hand.
LEMMA AtRest ==
  ASSUME UdpInv, NEW t \in Tunnels, step'[t] \in {"receive", "ended"}, table' = table
  PROVE  UdpListener(t)'
<1>1. Entries(t)' = Entries(t)
  BY DEF Entries
<1> QED
  BY <1>1 DEF UdpInv, UdpListener, Steps

LEMMA NextPacketInv ==
  ASSUME UdpInv, NEW t \in Tunnels, NextPacket(t),
         queue' \in [Sessions -> 0..QueueCapacity],
         UNCHANGED <<cancelled, table, permits, phase, owner, quiet>>
  PROVE  UdpInv'
<1>1. /\ step' = [step EXCEPT ![t] = "receive"] /\ peer' = [peer EXCEPT ![t] = None]
      /\ found' = [found EXCEPT ![t] = None]
  BY DEF NextPacket, Goto
<1>2. step'[t] = "receive" /\ "receive" \in Steps
  BY <1>1 DEF UdpInv, Steps
<1>3. UdpListener(t)'
  BY <1>2, AtRest
<1> QED
  BY <1>1, <1>2, <1>3, ListenerMoves

\* Steps that leave the packet, and the session found for it, as they are.
LEMMA GotoInv ==
  ASSUME UdpInv, NEW t \in Tunnels, NEW x \in Steps, Goto(t, x), UdpListener(t)',
         UNCHANGED <<peer, found, cancelled, table, permits, phase, owner, queue, quiet>>
  PROVE  UdpInv'
<1>1. step' = [step EXCEPT ![t] = x]
  BY DEF Goto
<1>2. /\ peer[t] \in Peers \cup {None} /\ peer' = [peer EXCEPT ![t] = peer[t]]
      /\ found[t] \in Sessions \cup {None} /\ found' = [found EXCEPT ![t] = found[t]]
      /\ queue' \in [Sessions -> 0..QueueCapacity]
  BY DEF UdpInv
<1> QED
  BY <1>1, <1>2, ListenerMoves

\* A packet comes in (run_udp_listener).
LEMMA ReceiveInv ==
  ASSUME UdpInv, NEW t \in Tunnels, NEW p \in Peers, Receive(t, p)
  PROVE  UdpInv'
<1> DEFINE x == IF table[t][p] = None THEN "limit" ELSE "lookup"
<1>1. /\ peer' = [peer EXCEPT ![t] = p] /\ found' = [found EXCEPT ![t] = table[t][p]]
      /\ step' = [step EXCEPT ![t] = x]
      /\ UNCHANGED <<cancelled, table, permits, phase, owner, queue, quiet>>
  BY DEF Receive, Goto
<1>2. table[t][p] \in Sessions \cup {None} /\ x \in Steps
  BY DEF UdpInv, Steps
<1>3. peer'[t] = p /\ found'[t] = table[t][p] /\ step'[t] = x
  BY <1>1 DEF UdpInv
<1>4. UdpListener(t)'
  <2>1. Entries(t)' = Entries(t)
    BY <1>1 DEF Entries
  <2>2. IsFiniteSet(Entries(t)) /\ Cardinality(Entries(t)) <= MaxPerTunnel
    BY DEF UdpInv, UdpListener
  <2> QED
    BY <1>1, <1>2, <1>3, <2>1, <2>2 DEF UdpListener
<1>5. queue' \in [Sessions -> 0..QueueCapacity]
  BY <1>1 DEF UdpInv
<1> HIDE DEF x
<1> QED
  BY <1>1, <1>2, <1>4, <1>5, ListenerMoves

\* The packet is handed over, or dropped for a full queue.
LEMMA HandOverInv ==
  ASSUME UdpInv, NEW t \in Tunnels, HandOver(t)
  PROVE  UdpInv'
<1>1. found[t] \in Sessions
  BY DEF UdpInv, UdpListener, HandOver
<1>2. queue' \in [Sessions -> 0..QueueCapacity]
  <2>1. queue[found[t]] \in 0..QueueCapacity /\ QueueCapacity \in Nat
    BY <1>1, SessionConstants DEF UdpInv
  <2>2. CASE queue[found[t]] < QueueCapacity
    <3>1. queue[found[t]] + 1 \in 0..QueueCapacity
      BY <2>1, <2>2
    <3>2. queue' = [queue EXCEPT ![found[t]] = queue[found[t]] + 1]
      BY <2>2 DEF HandOver
    <3> QED
      BY <3>1, <3>2 DEF UdpInv
  <2>3. CASE ~ (queue[found[t]] < QueueCapacity)
    BY <2>3 DEF HandOver, UdpInv
  <2> QED
    BY <2>2, <2>3
<1>3. NextPacket(t) /\ UNCHANGED <<cancelled, table, permits, phase, owner, quiet>>
  BY DEF HandOver
<1> QED
  BY <1>2, <1>3, NextPacketInv

\* The session found has ended: its channel is closed.
LEMMA FindClosedInv ==
  ASSUME UdpInv, NEW t \in Tunnels, FindClosed(t)
  PROVE  UdpInv'
<1>1. /\ step[t] = "lookup" /\ ~ Open(found[t]) /\ Goto(t, "remove")
      /\ UNCHANGED <<peer, found, cancelled, table, permits, phase, owner, queue, quiet>>
  BY DEF FindClosed
<1>2. step'[t] = "remove" /\ "remove" \in Steps
  BY <1>1 DEF Goto, UdpInv, Steps
<1>3. Entries(t)' = Entries(t) /\ Open(found[t])' = Open(found[t])
  BY <1>1 DEF Entries, Open
<1>4. UdpListener(t)'
  BY <1>1, <1>2, <1>3 DEF UdpInv, UdpListener
<1> QED
  BY <1>1, <1>2, <1>4, GotoInv

\* The table's length is looked at.
LEMMA LimitInv ==
  ASSUME UdpInv, NEW t \in Tunnels, Limit(t)
  PROVE  UdpInv'
<1>1. /\ step[t] = "limit"
      /\ UNCHANGED <<cancelled, table, permits, phase, owner, queue, quiet>>
  BY DEF Limit
<1>2. CASE Cardinality(Entries(t)) >= MaxPerTunnel
  <2>1. NextPacket(t) /\ queue' \in [Sessions -> 0..QueueCapacity]
    BY <1>2 DEF Limit, UdpInv
  <2> QED
    BY <1>1, <2>1, NextPacketInv
<1>3. CASE ~ (Cardinality(Entries(t)) >= MaxPerTunnel)
  <2>1. Goto(t, "permit") /\ UNCHANGED <<peer, found>>
    BY <1>3 DEF Limit
  <2>2. step'[t] = "permit" /\ "permit" \in Steps
    BY <2>1 DEF Goto, UdpInv, Steps
  <2>3. Entries(t)' = Entries(t)
    BY <1>1 DEF Entries
  <2>4. Cardinality(Entries(t)) < MaxPerTunnel
    <3>1. Cardinality(Entries(t)) \in Nat
      BY FS_CardinalityType DEF UdpInv, UdpListener
    <3> QED
      BY <1>3, <3>1, SessionConstants
  <2>5. UdpListener(t)'
    BY <1>1, <2>1, <2>2, <2>3, <2>4 DEF UdpInv, UdpListener
  <2> QED
    BY <1>1, <2>1, <2>2, <2>5, GotoInv
<1> QED
  BY <1>2, <1>3

LEMMA NoPermitInv ==
  ASSUME UdpInv, NEW t \in Tunnels, NoPermit(t)
  PROVE  UdpInv'
<1>1. NextPacket(t) /\ UNCHANGED <<cancelled, table, permits, phase, owner, queue, quiet>>
  BY DEF NoPermit
<1>2. queue' \in [Sessions -> 0..QueueCapacity]
  BY <1>1 DEF UdpInv
<1> QED
  BY <1>1, <1>2, NextPacketInv

LEMMA EndInv ==
  ASSUME UdpInv, NEW t \in Tunnels, End(t)
  PROVE  UdpInv'
<1>1. /\ Goto(t, "ended")
      /\ UNCHANGED <<peer, found, cancelled, table, permits, phase, owner, queue, quiet>>
  BY DEF End
<1>2. step'[t] = "ended" /\ "ended" \in Steps
  BY <1>1 DEF Goto, UdpInv, Steps
<1>3. UdpListener(t)'
  BY <1>1, <1>2, AtRest
<1> QED
  BY <1>1, <1>2, <1>3, GotoInv

\* An entry is taken out of a table.
LEMMA EntryGone ==
  ASSUME UdpInv, NEW t \in Tunnels, NEW p \in Peers, table' = [table EXCEPT ![t][p] = None]
  PROVE  /\ table' \in [Tunnels -> [Peers -> Sessions \cup {None}]]
         /\ table'[t][p] = None
         /\ \A q \in Peers \ {p} : table'[t][q] = table[t][q]
         /\ \A r \in Tunnels \ {t} : table'[r] = table[r]
         /\ \A r \in Tunnels, q \in Peers : table'[r][q] \in {table[r][q], None}
         /\ IsFiniteSet(Entries(t)') /\ Cardinality(Entries(t)') <= Cardinality(Entries(t))
<1>1. table \in [Tunnels -> [Peers -> Sessions \cup {None}]]
  BY DEF UdpInv
<1>2. /\ table' \in [Tunnels -> [Peers -> Sessions \cup {None}]]
      /\ table'[t][p] = None
      /\ \A q \in Peers \ {p} : table'[t][q] = table[t][q]
      /\ \A r \in Tunnels \ {t} : table'[r] = table[r]
  BY <1>1
<1>3. \A r \in Tunnels, q \in Peers : table'[r][q] \in {table[r][q], None}
  BY <1>2
<1>4. Entries(t)' \subseteq Entries(t)
  BY <1>3 DEF Entries
<1>5. IsFiniteSet(Entries(t))
  BY DEF UdpInv, UdpListener
<1>6. IsFiniteSet(Entries(t)') /\ Cardinality(Entries(t)') <= Cardinality(Entries(t))
  BY <1>4, <1>5, FS_Subset
<1> QED
  BY <1>2, <1>3, <1>6

\* The listener takes out the entry of a session that has ended.
LEMMA RemoveInv ==
  ASSUME UdpInv, NEW t \in Tunnels, Remove(t)
  PROVE  UdpInv'
<1> DEFINE p == peer[t]
<1>1. /\ step[t] = "remove" /\ table' = [table EXCEPT ![t][p] = None]
      /\ found' = [found EXCEPT ![t] = None] /\ step' = [step EXCEPT ![t] = "limit"]
      /\ UNCHANGED <<peer, cancelled, permits, phase, owner, queue, quiet>>
  BY DEF Remove, Goto
<1>2. UdpListener(t) /\ p \in Peers /\ ~ Open(found[t]) /\ table[t][p] \in {found[t], None}
  BY <1>1 DEF UdpInv, UdpListener
<1>3. /\ table' \in [Tunnels -> [Peers -> Sessions \cup {None}]]
      /\ table'[t][p] = None
      /\ \A q \in Peers \ {p} : table'[t][q] = table[t][q]
      /\ \A r \in Tunnels \ {t} : table'[r] = table[r]
      /\ \A r \in Tunnels, q \in Peers : table'[r][q] \in {table[r][q], None}
      /\ IsFiniteSet(Entries(t)') /\ Cardinality(Entries(t)') <= Cardinality(Entries(t))
  BY <1>1, <1>2, EntryGone
<1> HIDE DEF p
<1>4. /\ step'[t] = "limit" /\ peer'[t] = p /\ step' \in [Tunnels -> Steps]
      /\ \A r \in Tunnels \ {t} : step'[r] = step[r] /\ found'[r] = found[r]
      /\ found' \in [Tunnels -> Sessions \cup {None}]
  BY <1>1 DEF UdpInv, p, Steps
<1>5. ASSUME NEW r \in Tunnels PROVE UdpListener(r)'
  <2>1. CASE r = t
    <3>1. Cardinality(Entries(t)') <= MaxPerTunnel
      <4>1. /\ Cardinality(Entries(t)) \in Nat /\ Cardinality(Entries(t)') \in Nat
            /\ Cardinality(Entries(t)) <= MaxPerTunnel
        BY <1>2, <1>3, FS_CardinalityType DEF UdpListener
      <4> QED
        BY <1>3, <4>1, SessionConstants
    <3>2. UdpListener(t)'
      BY <1>2, <1>3, <1>4, <3>1 DEF UdpListener, Steps
    <3> QED
      BY <2>1, <3>2
  <2>2. CASE r # t
    <3>1. step[r] = "remove" => ~ (phase'[found[r]] \in Alive \cup {"made"})
      BY <1>1 DEF UdpInv, UdpListener, Open
    <3> QED
      BY <1>1, <1>3, <1>4, <2>2, <3>1, ListenerKept
  <2> QED
    BY <2>1, <2>2
<1>6. ASSUME NEW s \in Sessions PROVE UdpSession(s)'
  <2>1. UdpSession(s)
    BY DEF UdpInv
  <2>2. ASSUME phase[s] \in Alive PROVE table'[owner[s].tunnel][owner[s].peer] = s
    <3>1. /\ owner[s].tunnel \in Tunnels /\ owner[s].peer \in Peers
          /\ table[owner[s].tunnel][owner[s].peer] = s
      BY <2>1, <2>2 DEF UdpSession, Alive
    <3>2. ~ (owner[s].tunnel = t /\ owner[s].peer = p)
      BY <1>2, <2>2, <3>1, SessionConstants DEF Open
    <3> QED
      BY <1>3, <3>1, <3>2
  <2> QED
    BY <1>1, <2>1, <2>2 DEF UdpSession
<1>7. NoDeadEntries'
  BY <1>1, <1>3 DEF UdpInv, NoDeadEntries
<1>8. permits' \in Nat /\ PermitsBalance'
  BY <1>1, SamePermits
<1> QED
  BY <1>1, <1>3, <1>4, <1>5, <1>6, <1>7, <1>8 DEF UdpInv

\* A permit is taken and the session's channel is made.
LEMMA AcquireInv ==
  ASSUME UdpInv, NEW t \in Tunnels, NEW s \in Sessions, Acquire(t, s)
  PROVE  UdpInv'
<1> DEFINE o == [tunnel |-> t, peer |-> peer[t]]
<1>1. /\ step[t] = "permit" /\ permits > 0 /\ permits' = permits - 1
      /\ phase[s] = "gone" /\ \A r \in Tunnels : found[r] # s
      /\ phase' = [phase EXCEPT ![s] = "made"] /\ owner' = [owner EXCEPT ![s] = o]
      /\ queue' = [queue EXCEPT ![s] = 1] /\ found' = [found EXCEPT ![t] = s]
      /\ step' = [step EXCEPT ![t] = "insert"]
      /\ UNCHANGED <<peer, cancelled, table, quiet>>
  BY DEF Acquire, Unused, Goto
<1>2. UdpListener(t) /\ peer[t] \in Peers /\ table[t][peer[t]] = None
  BY <1>1 DEF UdpInv, UdpListener
<1>3. o.tunnel = t /\ o.peer = peer[t]
      /\ o \in [tunnel : Tunnels \cup {None}, peer : Peers \cup {None}]
  BY <1>2
<1> HIDE DEF o
<1>4. /\ step'[t] = "insert" /\ found'[t] = s /\ step' \in [Tunnels -> Steps]
      /\ \A r \in Tunnels \ {t} : step'[r] = step[r] /\ found'[r] = found[r]
      /\ found' \in [Tunnels -> Sessions \cup {None}]
  BY <1>1 DEF UdpInv, Steps
<1>5. /\ phase'[s] = "made" /\ owner'[s] = o /\ phase' \in [Sessions -> Phases]
      /\ \A r \in Sessions \ {s} : phase'[r] = phase[r] /\ owner'[r] = owner[r]
      /\ owner' \in [Sessions -> [tunnel : Tunnels \cup {None}, peer : Peers \cup {None}]]
  BY <1>1, <1>3 DEF UdpInv, Phases, Alive
<1>6. queue' \in [Sessions -> 0..QueueCapacity]
  BY <1>1, SessionConstants DEF UdpInv
<1>7. ASSUME NEW r \in Tunnels PROVE UdpListener(r)'
  <2>1. CASE r = t
    <3>1. Entries(t)' = Entries(t)
      BY <1>1 DEF Entries
    <3>2. owner'[s] = [tunnel |-> t, peer |-> peer[t]]
      BY <1>5 DEF o
    <3>3. UdpListener(t)'
      BY <1>1, <1>2, <1>4, <1>5, <3>1, <3>2 DEF UdpListener, Steps
    <3> QED
      BY <2>1, <3>3
  <2>2. CASE r # t
    <3>1. UdpListener(r) /\ found[r] # s
      BY <1>1 DEF UdpInv
    <3>2. step[r] = "remove" => ~ (phase'[found[r]] \in Alive \cup {"made"})
      BY <1>5, <3>1 DEF UdpListener, Open
    <3>3. step[r] = "insert" => /\ phase'[found[r]] = phase[found[r]]
                                /\ owner'[found[r]] = owner[found[r]]
      BY <1>5, <3>1 DEF UdpListener
    <3> QED
      BY <1>1, <1>4, <2>2, <3>2, <3>3, ListenerKept
  <2> QED
    BY <2>1, <2>2
<1>8. ASSUME NEW r \in Sessions PROVE UdpSession(r)'
  <2>1. CASE r = s
    BY <1>2, <1>3, <1>5, <2>1 DEF UdpSession, Phases, Alive
  <2>2. CASE r # s
    BY <1>1, <1>5, <2>2 DEF UdpInv, UdpSession
  <2> QED
    BY <2>1, <2>2
<1>9. NoDeadEntries'
  <2>1. ASSUME NEW r \in Tunnels, NEW p \in Peers, table[r][p] # None
        PROVE  table[r][p] \in Sessions \ {s}
    <3>1. table[r][p] \in Sessions /\ phase[table[r][p]] \in Alive \cup {"closed"}
      <4>1. table[r][p] \in Sessions \cup {None}
        BY DEF UdpInv
      <4>2. phase[table[r][p]] \in Alive \cup {"closed"}
        BY <2>1 DEF UdpInv, NoDeadEntries
      <4> QED
        BY <2>1, <4>1, <4>2
    <3> QED
      BY <1>1, <3>1 DEF Alive
  <2> QED
    BY <1>1, <1>5, <2>1 DEF UdpInv, NoDeadEntries
<1>10. permits' \in Nat /\ PermitsBalance'
  <2> DEFINE Held == {r \in Sessions : phase[r] # "gone"}
  <2>1. {r \in Sessions : phase'[r] # "gone"} = Held \cup {s} /\ s \notin Held
    BY <1>1, <1>5
  <2>2. IsFiniteSet(Held)
    BY FS_Subset, SessionConstants
  <2>3. Cardinality(Held \cup {s}) = Cardinality(Held) + 1 /\ Cardinality(Held) \in Nat
    BY <2>1, <2>2, FS_AddElement, FS_CardinalityType
  <2>4. permits \in Nat /\ permits + Cardinality(Held) = MaxTotal
    BY DEF UdpInv, PermitsBalance
  <2>5. permits' + Cardinality({r \in Sessions : phase'[r] # "gone"}) = MaxTotal
    BY <1>1, <2>1, <2>3, <2>4, SessionConstants
  <2> QED
    BY <1>1, <2>4, <2>5 DEF PermitsBalance
<1> QED
  BY <1>1, <1>4, <1>5, <1>6, <1>7, <1>8, <1>9, <1>10 DEF UdpInv

\* The session's sender goes into the table, where there is room for it.
LEMMA InsertInv ==
  ASSUME UdpInv, NEW t \in Tunnels, Insert(t)
  PROVE  UdpInv'
<1> DEFINE p == peer[t]
           s == found[t]
<1>1. /\ step[t] = "insert"
      /\ table' = [table EXCEPT ![t][p] = s] /\ phase' = [phase EXCEPT ![s] = "opening"]
      /\ step' = [step EXCEPT ![t] = "receive"] /\ peer' = [peer EXCEPT ![t] = None]
      /\ found' = [found EXCEPT ![t] = None]
      /\ UNCHANGED <<cancelled, permits, owner, queue, quiet>>
  BY DEF Insert, NextPacket, Goto
<1>2. /\ p \in Peers /\ s \in Sessions /\ table[t][p] = None
      /\ phase[s] = "made" /\ owner[s] = [tunnel |-> t, peer |-> p]
      /\ IsFiniteSet(Entries(t)) /\ Cardinality(Entries(t)) < MaxPerTunnel
  BY <1>1 DEF UdpInv, UdpListener
<1>3. owner[s].tunnel = t /\ owner[s].peer = p
  BY <1>2
<1> HIDE DEF p, s
<1>4. /\ table' \in [Tunnels -> [Peers -> Sessions \cup {None}]]
      /\ table'[t][p] = s
      /\ \A q \in Peers \ {p} : table'[t][q] = table[t][q]
      /\ \A r \in Tunnels \ {t} : table'[r] = table[r]
  BY <1>1, <1>2 DEF UdpInv
<1>5. /\ phase' \in [Sessions -> Phases] /\ phase'[s] = "opening"
      /\ \A r \in Sessions \ {s} : phase'[r] = phase[r]
  BY <1>1, <1>2 DEF UdpInv, Phases, Alive
<1>6. /\ step'[t] = "receive" /\ step' \in [Tunnels -> Steps]
      /\ peer' \in [Tunnels -> Peers \cup {None}] /\ found' \in [Tunnels -> Sessions \cup {None}]
      /\ \A r \in Tunnels \ {t} : /\ step'[r] = step[r] /\ peer'[r] = peer[r]
                                  /\ found'[r] = found[r]
  BY <1>1 DEF UdpInv, Steps
<1>7. Entries(t)' = Entries(t) \cup {p}
  BY <1>2, <1>4, SessionConstants DEF Entries
<1>8. IsFiniteSet(Entries(t)') /\ Cardinality(Entries(t)') <= MaxPerTunnel
  <2>1. p \notin Entries(t)
    BY <1>2 DEF Entries
  <2>2. /\ IsFiniteSet(Entries(t)') /\ Cardinality(Entries(t)') = Cardinality(Entries(t)) + 1
        /\ Cardinality(Entries(t)) \in Nat
    BY <1>2, <1>7, <2>1, FS_AddElement, FS_CardinalityType
  <2> QED
    BY <1>2, <2>2, SessionConstants
<1>9. ASSUME NEW r \in Tunnels PROVE UdpListener(r)'
  <2>1. CASE r = t
    BY <1>6, <1>8, <2>1 DEF UdpListener, Steps
  <2>2. CASE r # t
    <3>1. UdpListener(r)
      BY DEF UdpInv
    <3>2. step[r] = "insert" => found[r] \in Sessions \ {s}
      BY <1>3, <2>2, <3>1 DEF UdpListener
    <3>3. step[r] = "remove" => found[r] \in Sessions \ {s}
      BY <1>2, <3>1 DEF UdpListener, Open
    <3>4. step[r] = "remove" => ~ (phase'[found[r]] \in Alive \cup {"made"})
      BY <1>5, <3>1, <3>3 DEF UdpListener, Open
    <3> QED
      BY <1>1, <1>4, <1>5, <1>6, <2>2, <3>2, <3>4, ListenerKept
  <2> QED
    BY <2>1, <2>2
<1>10. ASSUME NEW r \in Sessions PROVE UdpSession(r)'
  <2>1. CASE r = s
    BY <1>1, <1>2, <1>3, <1>4, <1>5, <2>1 DEF UdpSession, Phases, Alive
  <2>2. CASE r # s
    <3>1. UdpSession(r) /\ phase'[r] = phase[r] /\ owner'[r] = owner[r]
      BY <1>1, <1>5, <2>2 DEF UdpInv
    <3>2. ASSUME phase[r] \in Alive PROVE table'[owner[r].tunnel][owner[r].peer] = r
      <4>1. /\ owner[r].tunnel \in Tunnels /\ owner[r].peer \in Peers
            /\ table[owner[r].tunnel][owner[r].peer] = r
        BY <3>1, <3>2 DEF UdpSession, Alive
      <4>2. ~ (owner[r].tunnel = t /\ owner[r].peer = p)
        BY <1>2, <4>1, SessionConstants
      <4> QED
        BY <1>4, <4>1, <4>2
    <3> QED
      BY <3>1, <3>2 DEF UdpSession
  <2> QED
    BY <2>1, <2>2
<1>11. NoDeadEntries'
  <2>1. ASSUME NEW r \in Tunnels, NEW q \in Peers, table'[r][q] # None
        PROVE  /\ phase'[table'[r][q]] \in Alive \cup {"closed"}
               /\ owner[table'[r][q]] = [tunnel |-> r, peer |-> q]
    <3>1. CASE r = t /\ q = p
      BY <1>2, <1>4, <1>5, <3>1 DEF Alive
    <3>2. CASE ~ (r = t /\ q = p)
      <4>1. table'[r][q] = table[r][q]
        BY <1>4, <3>2
      <4>2. /\ table[r][q] \in Sessions /\ phase[table[r][q]] \in Alive \cup {"closed"}
            /\ owner[table[r][q]] = [tunnel |-> r, peer |-> q]
        <5>1. table[r][q] \in Sessions
          BY <2>1, <4>1 DEF UdpInv
        <5>2. NoDeadEntries
          BY DEF UdpInv
        <5> QED
          BY <2>1, <4>1, <5>1, <5>2 DEF NoDeadEntries
      <4>3. table[r][q] # s
        BY <1>2, <4>2 DEF Alive
      <4> QED
        BY <1>5, <4>1, <4>2, <4>3
    <3> QED
      BY <3>1, <3>2
  <2> QED
    BY <1>1, <2>1 DEF NoDeadEntries
<1>12. permits' \in Nat /\ PermitsBalance'
  BY <1>1, <1>2, <1>5, SamePermits
<1> QED
  BY <1>1, <1>4, <1>5, <1>6, <1>9, <1>10, <1>11, <1>12 DEF UdpInv

\* A session's loop (run_udp_session).
LEMMA SessionLoopInv ==
  ASSUME UdpInv, NEW s \in Sessions,
         \/ Connect(s) \/ TakeInbound(s) \/ TakeBackend(s) \/ Forwarded(s)
         \/ Break(s) \/ IdleOut(s) \/ Cancelled(s)
  PROVE  UdpInv'
<1>1. queue[s] \in 0..QueueCapacity /\ QueueCapacity \in Nat
  BY SessionConstants DEF UdpInv
<1>2. ASSUME Connect(s) \/ TakeBackend(s) \/ Forwarded(s) PROVE UdpInv'
  <2>1. /\ phase[s] \in Alive /\ phase' = [phase EXCEPT ![s] = phase'[s]]
        /\ phase'[s] \in Alive \cup {"closed"}
        /\ UNCHANGED <<step, peer, found, cancelled, table, permits, owner, queue, quiet>>
    BY <1>2 DEF Connect, TakeBackend, Forwarded, Become, listeners, Alive, UdpInv
  <2>2. queue' \in [Sessions -> 0..QueueCapacity]
    BY <2>1 DEF UdpInv
  <2> QED
    BY <2>1, <2>2, SessionMoves
<1>3. CASE TakeInbound(s)
  <2>1. /\ phase[s] \in Alive /\ phase' = [phase EXCEPT ![s] = "waiting"]
        /\ "waiting" \in Alive \cup {"closed"} /\ queue[s] > 0
        /\ queue' = [queue EXCEPT ![s] = queue[s] - 1]
        /\ UNCHANGED <<step, peer, found, cancelled, table, permits, owner, quiet>>
    BY <1>3 DEF TakeInbound, Become, listeners, Alive
  <2>2. queue[s] - 1 \in 0..QueueCapacity
    BY <1>1, <2>1
  <2>3. queue' \in [Sessions -> 0..QueueCapacity]
    BY <2>1, <2>2 DEF UdpInv
  <2> QED
    BY <2>1, <2>3, SessionMoves
<1>4. ASSUME Break(s) \/ IdleOut(s) \/ Cancelled(s) PROVE UdpInv'
  <2>1. /\ phase[s] \in Alive /\ phase' = [phase EXCEPT ![s] = "closed"]
        /\ queue' = [queue EXCEPT ![s] = 0] /\ "closed" \in Alive \cup {"closed"}
        /\ UNCHANGED <<step, peer, found, cancelled, table, permits, owner, quiet>>
    BY <1>4 DEF Break, IdleOut, Cancelled, Become, listeners, Alive
  <2>2. queue' \in [Sessions -> 0..QueueCapacity]
    BY <1>1, <2>1 DEF UdpInv
  <2> QED
    BY <2>1, <2>2, SessionMoves
<1> QED
  BY <1>2, <1>3, <1>4

\* A session that has ended takes out its entry, and no other.
LEMMA TidyInv ==
  ASSUME UdpInv, NEW s \in Sessions, Tidy(s)
  PROVE  UdpInv'
<1>0. phase[s] = "closed"
  BY DEF Tidy
<1>1. PICK t \in Tunnels, p \in Peers : owner[s].tunnel = t /\ owner[s].peer = p
  BY <1>0 DEF UdpInv, UdpSession
<1>2. /\ phase[s] = "closed" /\ phase' = [phase EXCEPT ![s] = "tidied"]
      /\ table' = IF table[t][p] = s THEN [table EXCEPT ![t][p] = None] ELSE table
      /\ UNCHANGED <<step, peer, found, cancelled, permits, owner, queue, quiet>>
  BY <1>1 DEF Tidy, Become, listeners
<1>3. /\ phase' \in [Sessions -> Phases] /\ phase'[s] = "tidied"
      /\ \A r \in Sessions \ {s} : phase'[r] = phase[r]
  BY <1>2 DEF UdpInv, Phases, Alive
<1>4. /\ table' \in [Tunnels -> [Peers -> Sessions \cup {None}]]
      /\ \A r \in Tunnels \ {t} : table'[r] = table[r]
      /\ \A r \in Tunnels, q \in Peers : table'[r][q] \in {table[r][q], None}
      /\ \A r \in Tunnels, q \in Peers : table[r][q] # s => table'[r][q] = table[r][q]
      /\ table'[t][p] # s
      /\ IsFiniteSet(Entries(t)') /\ Cardinality(Entries(t)') <= Cardinality(Entries(t))
  <2>1. CASE table[t][p] = s
    <3>1. table' = [table EXCEPT ![t][p] = None]
      BY <1>2, <2>1
    <3>2. /\ table' \in [Tunnels -> [Peers -> Sessions \cup {None}]]
          /\ table'[t][p] = None
          /\ \A q \in Peers \ {p} : table'[t][q] = table[t][q]
          /\ \A r \in Tunnels \ {t} : table'[r] = table[r]
          /\ \A r \in Tunnels, q \in Peers : table'[r][q] \in {table[r][q], None}
          /\ IsFiniteSet(Entries(t)') /\ Cardinality(Entries(t)') <= Cardinality(Entries(t))
      BY <3>1, EntryGone
    <3>3. \A r \in Tunnels, q \in Peers : table[r][q] # s => table'[r][q] = table[r][q]
      BY <2>1, <3>2
    <3> QED
      BY <3>2, <3>3, SessionConstants
  <2>2. CASE table[t][p] # s
    <3>1. table' = table /\ Entries(t)' = Entries(t)
      BY <1>2, <2>2 DEF Entries
    <3>2. IsFiniteSet(Entries(t)) /\ Cardinality(Entries(t)) \in Nat
      BY <1>1, FS_CardinalityType DEF UdpInv, UdpListener
    <3> QED
      BY <2>2, <3>1, <3>2 DEF UdpInv
  <2> QED
    BY <2>1, <2>2
<1>5. ASSUME NEW r \in Tunnels PROVE UdpListener(r)'
  <2>1. UdpListener(r)
    BY DEF UdpInv
  <2>2. step[r] = "insert" => found[r] \in Sessions \ {s}
    BY <1>2, <2>1 DEF UdpListener
  <2>3. step[r] = "remove" => ~ (phase'[found[r]] \in Alive \cup {"made"})
    <3> SUFFICES ASSUME step[r] = "remove"
                 PROVE  ~ (phase'[found[r]] \in Alive \cup {"made"})
      OBVIOUS
    <3>1. found[r] \in Sessions /\ ~ (phase[found[r]] \in Alive \cup {"made"})
      BY <2>1 DEF UdpListener, Open
    <3> QED
      BY <1>3, <3>1 DEF Alive
  <2>4. CASE r = t
    <3>1. /\ Cardinality(Entries(t)) \in Nat /\ Cardinality(Entries(t)') \in Nat
          /\ Cardinality(Entries(t)) <= MaxPerTunnel
      BY <1>4, <2>1, <2>4, FS_CardinalityType DEF UdpListener
    <3>2. /\ Cardinality(Entries(t)') <= MaxPerTunnel
          /\ Cardinality(Entries(t)) < MaxPerTunnel => Cardinality(Entries(t)') < MaxPerTunnel
      BY <1>4, <3>1, SessionConstants
    <3>3. peer[t] \in Peers => table'[t][peer[t]] \in {table[t][peer[t]], None}
      BY <1>1, <1>4
    <3>4. step[t] = "insert" => /\ phase'[found[t]] = phase[found[t]]
                                /\ owner'[found[t]] = owner[found[t]]
      BY <1>2, <1>3, <2>2, <2>4
    <3>5. step[t] \in {"lookup", "remove"} => table'[t][peer[t]] \in {found[t], None}
      BY <2>1, <2>4, <3>3 DEF UdpListener
    <3>6. step[t] \in {"limit", "permit", "insert"} => table'[t][peer[t]] = None
      BY <2>1, <2>4, <3>3 DEF UdpListener
    <3>7. UdpListener(t)'
      BY <1>2, <1>4, <2>1, <2>3, <2>4, <3>2, <3>4, <3>5, <3>6 DEF UdpListener, Open
    <3> QED
      BY <2>4, <3>7
  <2>5. CASE r # t
    BY <1>2, <1>3, <1>4, <2>2, <2>3, <2>5, ListenerKept
  <2> QED
    BY <2>4, <2>5
<1>6. ASSUME NEW r \in Sessions PROVE UdpSession(r)'
  <2>1. UdpSession(r)
    BY DEF UdpInv
  <2>2. CASE r = s
    BY <1>2, <1>3, <2>1, <2>2 DEF UdpSession, Phases, Alive
  <2>3. CASE r # s
    <3>1. ASSUME phase[r] \in Alive PROVE table'[owner[r].tunnel][owner[r].peer] = r
      <4>1. /\ owner[r].tunnel \in Tunnels /\ owner[r].peer \in Peers
            /\ table[owner[r].tunnel][owner[r].peer] = r
        BY <2>1, <3>1 DEF UdpSession, Alive
      <4> QED
        BY <1>4, <2>3, <4>1
    <3> QED
      BY <1>2, <1>3, <2>1, <2>3, <3>1 DEF UdpSession
  <2> QED
    BY <2>2, <2>3
<1>7. NoDeadEntries'
  <2>1. ASSUME NEW r \in Tunnels, NEW q \in Peers, table'[r][q] # None
        PROVE  /\ phase'[table'[r][q]] \in Alive \cup {"closed"}
               /\ owner[table'[r][q]] = [tunnel |-> r, peer |-> q]
    <3>1. table'[r][q] = table[r][q] /\ table[r][q] \in Sessions
      <4>1. table'[r][q] \in Sessions \cup {None} /\ table'[r][q] \in {table[r][q], None}
        BY <1>4
      <4> QED
        BY <2>1, <4>1
    <3>2. /\ phase[table[r][q]] \in Alive \cup {"closed"}
          /\ owner[table[r][q]] = [tunnel |-> r, peer |-> q]
      <4>1. NoDeadEntries
        BY DEF UdpInv
      <4> QED
        BY <2>1, <3>1, <4>1 DEF NoDeadEntries
    <3>3. table[r][q] # s
      <4> SUFFICES ASSUME table[r][q] = s PROVE FALSE
        OBVIOUS
      <4>1. t = r /\ p = q
        BY <1>1, <3>2
      <4> QED
        BY <1>4, <3>1, <4>1
    <3> QED
      BY <1>3, <3>1, <3>2, <3>3
  <2> QED
    BY <1>2, <2>1 DEF NoDeadEntries
<1>8. permits' \in Nat /\ PermitsBalance'
  BY <1>2, <1>3, SamePermits
<1> QED
  BY <1>2, <1>3, <1>4, <1>5, <1>6, <1>7, <1>8 DEF UdpInv

\* The task is gone, and its permit is free.
LEMMA ReleaseInv ==
  ASSUME UdpInv, NEW s \in Sessions, Release(s)
  PROVE  UdpInv'
<1>1. /\ phase[s] = "tidied" /\ phase' = [phase EXCEPT ![s] = "gone"]
      /\ permits' = permits + 1 /\ owner' = [owner EXCEPT ![s] = NoOne]
      /\ UNCHANGED <<step, peer, found, cancelled, table, queue, quiet>>
  BY DEF Release, Become, listeners
<1>2. /\ phase' \in [Sessions -> Phases] /\ phase'[s] = "gone" /\ owner'[s] = NoOne
      /\ \A r \in Sessions \ {s} : phase'[r] = phase[r] /\ owner'[r] = owner[r]
  BY <1>1 DEF UdpInv, Phases, Alive
<1>3. owner' \in [Sessions -> [tunnel : Tunnels \cup {None}, peer : Peers \cup {None}]]
  BY <1>1 DEF UdpInv, NoOne
<1>4. ASSUME NEW r \in Tunnels PROVE UdpListener(r)'
  <2>1. UdpListener(r)
    BY DEF UdpInv
  <2>2. step[r] = "insert" => found[r] \in Sessions \ {s}
    BY <1>1, <2>1 DEF UdpListener
  <2>3. step[r] = "remove" => ~ (phase'[found[r]] \in Alive \cup {"made"})
    <3> SUFFICES ASSUME step[r] = "remove"
                 PROVE  ~ (phase'[found[r]] \in Alive \cup {"made"})
      OBVIOUS
    <3>1. found[r] \in Sessions /\ ~ (phase[found[r]] \in Alive \cup {"made"})
      BY <2>1 DEF UdpListener, Open
    <3> QED
      BY <1>2, <3>1 DEF Alive
  <2> QED
    BY <1>1, <1>2, <2>2, <2>3, ListenerKept
<1>5. ASSUME NEW r \in Sessions PROVE UdpSession(r)'
  BY <1>1, <1>2 DEF UdpInv, UdpSession, Phases, Alive
<1>6. NoDeadEntries'
  <2>1. ASSUME NEW r \in Tunnels, NEW p \in Peers, table[r][p] # None
        PROVE  /\ phase'[table[r][p]] \in Alive \cup {"closed"}
               /\ owner'[table[r][p]] = [tunnel |-> r, peer |-> p]
    <3>1. table[r][p] \in Sessions
      BY <2>1 DEF UdpInv
    <3>2. /\ phase[table[r][p]] \in Alive \cup {"closed"}
          /\ owner[table[r][p]] = [tunnel |-> r, peer |-> p]
      BY <2>1 DEF UdpInv, NoDeadEntries
    <3>3. table[r][p] # s
      BY <1>1, <3>2 DEF Alive
    <3> QED
      BY <1>2, <3>1, <3>2, <3>3
  <2> QED
    BY <1>1, <2>1 DEF NoDeadEntries
<1>7. permits' \in Nat /\ PermitsBalance'
  <2> DEFINE Held == {r \in Sessions : phase[r] # "gone"}
  <2>1. {r \in Sessions : phase'[r] # "gone"} = Held \ {s} /\ s \in Held
    BY <1>1, <1>2
  <2>2. IsFiniteSet(Held)
    BY FS_Subset, SessionConstants
  <2>3. Cardinality(Held \ {s}) = Cardinality(Held) - 1 /\ Cardinality(Held) \in Nat
    BY <2>1, <2>2, FS_RemoveElement, FS_CardinalityType
  <2>4. permits \in Nat /\ permits + Cardinality(Held) = MaxTotal
    BY DEF UdpInv, PermitsBalance
  <2>5. permits + 1 + (Cardinality(Held) - 1) = MaxTotal
    BY <2>3, <2>4, SessionConstants
  <2>6. permits' + Cardinality({r \in Sessions : phase'[r] # "gone"}) = MaxTotal
    BY <1>1, <2>1, <2>3, <2>5
  <2> QED
    BY <1>1, <2>4, <2>6 DEF PermitsBalance
<1> QED
  BY <1>1, <1>2, <1>3, <1>4, <1>5, <1>6, <1>7 DEF UdpInv

\* A listener starts again with a table of its own; sessions of its
\* predecessor that are not over yet forward nothing any more.
LEMMA RestartInv ==
  ASSUME UdpInv, NEW t \in Tunnels, Restart(t)
  PROVE  UdpInv'
<1>1. /\ \A s \in SessionsOf(t) : ~ Open(s)
      /\ step' = [step EXCEPT ![t] = "receive"]
      /\ cancelled' = [cancelled EXCEPT ![t] = FALSE]
      /\ table' = [table EXCEPT ![t] = [p \in Peers |-> None]]
      /\ UNCHANGED <<peer, found, permits, phase, owner, queue, quiet>>
  BY DEF Restart, Goto
<1>2. /\ step'[t] = "receive" /\ step' \in [Tunnels -> Steps]
      /\ \A r \in Tunnels \ {t} : step'[r] = step[r] /\ table'[r] = table[r]
      /\ \A p \in Peers : table'[t][p] = None
      /\ cancelled' \in [Tunnels -> BOOLEAN]
  BY <1>1 DEF UdpInv, Steps
<1>3. table' \in [Tunnels -> [Peers -> Sessions \cup {None}]]
  BY <1>1 DEF UdpInv
<1>4. ASSUME NEW r \in Tunnels PROVE UdpListener(r)'
  <2>1. CASE r = t
    <3>1. Entries(t)' = {}
      BY <1>2 DEF Entries
    <3>2. IsFiniteSet(Entries(t)') /\ Cardinality(Entries(t)') <= MaxPerTunnel
      BY <3>1, FS_EmptySet, SessionConstants
    <3> QED
      BY <1>2, <2>1, <3>2 DEF UdpListener, Steps
  <2>2. CASE r # t
    <3>1. step[r] = "remove" => ~ (phase'[found[r]] \in Alive \cup {"made"})
      BY <1>1 DEF UdpInv, UdpListener, Open
    <3> QED
      BY <1>1, <1>2, <2>2, <3>1, ListenerKept
  <2> QED
    BY <2>1, <2>2
<1>5. ASSUME NEW s \in Sessions PROVE UdpSession(s)'
  <2>1. UdpSession(s)
    BY DEF UdpInv
  <2>2. ASSUME phase[s] \in Alive PROVE table'[owner[s].tunnel][owner[s].peer] = s
    <3>1. /\ owner[s].tunnel \in Tunnels /\ owner[s].peer \in Peers
          /\ table[owner[s].tunnel][owner[s].peer] = s
      BY <2>1, <2>2 DEF UdpSession, Alive
    <3>2. owner[s].tunnel # t
      BY <1>1, <2>2 DEF SessionsOf, Open
    <3> QED
      BY <1>2, <3>1, <3>2
  <2> QED
    BY <1>1, <2>1, <2>2 DEF UdpSession
<1>6. NoDeadEntries'
  <2>1. ASSUME NEW r \in Tunnels, NEW p \in Peers, table'[r][p] # None
        PROVE  r # t
    BY <1>2, <2>1
  <2> QED
    BY <1>1, <1>2, <2>1 DEF UdpInv, NoDeadEntries
<1>7. permits' \in Nat /\ PermitsBalance'
  BY <1>1, SamePermits
<1> QED
  BY <1>1, <1>2, <1>3, <1>4, <1>5, <1>6, <1>7 DEF UdpInv

\* What is outside says that a listener is to end, or falls silent.
LEMMA SurroundingsInv ==
  ASSUME UdpInv, Silence \/ \E t \in Tunnels : Cancel(t)
  PROVE  UdpInv'
<1>1. /\ UNCHANGED <<step, peer, found, table, permits, phase, owner, queue>>
      /\ quiet' \in BOOLEAN /\ cancelled' \in [Tunnels -> BOOLEAN]
  BY DEF Silence, Cancel, listeners, UdpInv
<1>2. ASSUME NEW r \in Tunnels PROVE UdpListener(r)'
  <2>1. step[r] = "remove" => ~ (phase'[found[r]] \in Alive \cup {"made"})
    BY <1>1 DEF UdpInv, UdpListener, Open
  <2> QED
    BY <1>1, <2>1, ListenerKept
<1>3. (\A s \in Sessions : UdpSession(s))' /\ NoDeadEntries'
  BY <1>1 DEF UdpInv, UdpSession, NoDeadEntries
<1>4. permits' \in Nat /\ PermitsBalance'
  BY <1>1, SamePermits
<1> QED
  BY <1>1, <1>2, <1>3, <1>4 DEF UdpInv

LEMMA UdpNext == UdpInv /\ [Next]_vars => UdpInv'
<1> SUFFICES ASSUME UdpInv, [Next]_vars PROVE UdpInv'
  OBVIOUS
<1>1. CASE Next
  <2>1. ASSUME NEW t \in Tunnels, ListenerStep(t) PROVE UdpInv'
    BY <2>1, EndInv, HandOverInv, FindClosedInv, RemoveInv, LimitInv, NoPermitInv, InsertInv,
       AcquireInv DEF ListenerStep
  <2>2. ASSUME NEW s \in Sessions, SessionStep(s) PROVE UdpInv'
    BY <2>2, SessionLoopInv, TidyInv, ReleaseInv DEF SessionStep
  <2> QED
    BY <1>1, <2>1, <2>2, RestartInv, ReceiveInv, SurroundingsInv DEF Next
<1>2. CASE UNCHANGED vars
  <2>1. UNCHANGED <<step, peer, found, cancelled, table, permits, phase, owner, queue, quiet>>
    BY <1>2 DEF vars
  <2>2. ASSUME NEW r \in Tunnels PROVE UdpListener(r)'
    <3>1. step[r] = "remove" => ~ (phase'[found[r]] \in Alive \cup {"made"})
      BY <2>1 DEF UdpInv, UdpListener, Open
    <3> QED
      BY <2>1, <3>1, ListenerKept
  <2>3. (\A s \in Sessions : UdpSession(s))' /\ NoDeadEntries'
    BY <2>1 DEF UdpInv, UdpSession, NoDeadEntries
  <2>4. permits' \in Nat /\ PermitsBalance'
    BY <2>1, SamePermits
  <2> QED
    BY <2>1, <2>2, <2>3, <2>4 DEF UdpInv
<1> QED
  BY <1>1, <1>2

\* A table has an entry for each of its sessions that are alive, and no more
\* entries than the limit.
LEMMA WithinLimitHolds == UdpInv => WithinLimit
<1> SUFFICES ASSUME UdpInv, NEW t \in Tunnels
             PROVE  Cardinality({s \in SessionsOf(t) : phase[s] \in Alive}) <= MaxPerTunnel
  BY DEF WithinLimit
<1> DEFINE live == {s \in SessionsOf(t) : phase[s] \in Alive}
           f == [s \in live |-> owner[s].peer]
<1>1. ASSUME NEW s \in live
      PROVE  s \in Sessions /\ owner[s].peer \in Entries(t) /\ table[t][owner[s].peer] = s
  <2>1. s \in Sessions /\ owner[s].tunnel = t /\ phase[s] \in Alive
    BY DEF SessionsOf
  <2>2. owner[s].peer \in Peers /\ table[t][owner[s].peer] = s
    BY <2>1 DEF UdpInv, UdpSession, Alive
  <2> QED
    BY <2>1, <2>2, SessionConstants DEF Entries
<1>2. IsFiniteSet(Entries(t)) /\ Cardinality(Entries(t)) <= MaxPerTunnel
  BY DEF UdpInv, UdpListener
<1>3. IsFiniteSet(live)
  BY FS_Subset, SessionConstants DEF SessionsOf
<1> HIDE DEF live
<1>4. f \in Injection(live, Entries(t))
  BY <1>1 DEF Injection, IsInjective
<1>5. Cardinality(live) <= Cardinality(Entries(t))
  BY <1>2, <1>4, FS_Injection DEF ExistsInjection
<1>6. Cardinality(live) \in Nat /\ Cardinality(Entries(t)) \in Nat
  BY <1>2, <1>3, FS_CardinalityType
<1> QED
  BY <1>2, <1>5, <1>6, SessionConstants DEF live

-----------------------------------------------------------------------------
(* TcpConnections: the invariant.                                          *)

There == {c \in Connections : connection[c] # "gone"}

\* The permits of a listener's semaphore are free, with its connections, or in
\* its own hand.
Balanced(t) ==
    own[t] + Cardinality(Tcp!Current(t)) + (IF listener[t] = "shared" THEN 1 ELSE 0)
       = TcpPerTunnel

TcpTypes ==
    /\ listener \in [Tunnels -> {"accept", "shared", "ended"}]
    /\ token \in [Tunnels -> BOOLEAN]
    /\ own \in [Tunnels -> Nat] /\ shared \in Nat
    /\ connection \in [Connections -> Tcp!Phases]
    /\ of \in [Connections -> Tunnels \cup {None}]
    /\ inHand \in [Connections -> SUBSET Tcp!Directions]

\* A connection that is there belongs to a listener.
Owned == /\ \A c \in Connections : connection[c] = "gone" <=> of[c] = None
         /\ old \subseteq There

TcpInv == /\ TcpTypes /\ Owned
          /\ shared + Cardinality(There) = TcpTotal
          /\ \A t \in Tunnels : Balanced(t)

-----------------------------------------------------------------------------
(* TcpConnections: steps.                                                  *)

\* The instance counts as the library does.
LEMMA TcpCounts == \A S : Tcp!Cardinality(S) = Cardinality(S)
  BY DEF Tcp!Cardinality, Cardinality

LEMMA FiniteConnections ==
  /\ IsFiniteSet(There) /\ Cardinality(There) \in Nat
  /\ \A t \in Tunnels : IsFiniteSet(Tcp!Current(t)) /\ Cardinality(Tcp!Current(t)) \in Nat
<1>1. IsFiniteSet(There)
  BY FS_Subset, ConnectionConstants DEF There
<1>2. ASSUME NEW t \in Tunnels PROVE IsFiniteSet(Tcp!Current(t))
  <2>1. Tcp!Current(t) \subseteq Connections
    BY DEF Tcp!Current, Tcp!ConnectionsOf
  <2> QED
    BY <2>1, FS_Subset, ConnectionConstants
<1> QED
  BY <1>1, <1>2, FS_CardinalityType

LEMMA TcpInit == Tcp!Init => TcpInv
<1> SUFFICES ASSUME Tcp!Init PROVE TcpInv
  OBVIOUS
<1>1. /\ \A t \in Tunnels : listener[t] = "accept" /\ own[t] = TcpPerTunnel
      /\ \A c \in Connections : connection[c] = "gone" /\ of[c] = None
      /\ old = {} /\ shared = TcpTotal /\ TcpTotal \in Nat /\ TcpPerTunnel \in Nat
  BY ConnectionConstants DEF Tcp!Init
<1>2. TcpTypes
  <2>1. /\ listener \in [Tunnels -> {"accept", "shared", "ended"}]
        /\ own \in [Tunnels -> Nat] /\ shared \in Nat
        /\ of \in [Connections -> Tunnels \cup {None}]
    BY <1>1 DEF Tcp!Init
  <2>2. token \in [Tunnels -> BOOLEAN] /\ connection \in [Connections -> Tcp!Phases]
    BY DEF Tcp!Init, Tcp!Phases
  <2>3. inHand \in [Connections -> SUBSET Tcp!Directions]
    BY DEF Tcp!Init
  <2> QED
    BY <2>1, <2>2, <2>3 DEF TcpTypes
<1>3. Owned
  BY <1>1 DEF Owned
<1>4. shared + Cardinality(There) = TcpTotal
  <2>1. There = {}
    BY <1>1 DEF There
  <2> QED
    BY <1>1, <2>1, FS_EmptySet
<1>5. ASSUME NEW t \in Tunnels PROVE Balanced(t)
  <2>1. Tcp!Current(t) = {}
    BY <1>1, SessionConstants DEF Tcp!Current, Tcp!ConnectionsOf
  <2> QED
    BY <1>1, <2>1, FS_EmptySet DEF Balanced
<1> QED
  BY <1>2, <1>3, <1>4, <1>5 DEF TcpInv

\* What somebody else's step keeps of a listener's permits.
LEMMA BalancedKept ==
  ASSUME TcpInv, NEW t \in Tunnels, own'[t] = own[t],
         listener'[t] = "shared" <=> listener[t] = "shared",
         Tcp!Current(t)' = Tcp!Current(t)
  PROVE  Balanced(t)'
<1>1. Balanced(t)
  BY DEF TcpInv
<1> QED
  BY <1>1 DEF Balanced

\* Steps that take or give no permit.
LEMMA NoPermitMoves ==
  ASSUME TcpInv, TcpTypes', UNCHANGED <<own, shared, of, old>>,
         \A t \in Tunnels : listener'[t] = "shared" <=> listener[t] = "shared",
         \A c \in Connections : connection'[c] = "gone" <=> connection[c] = "gone"
  PROVE  TcpInv'
<1>1. There' = There
  BY DEF There
<1>2. Owned'
  BY <1>1 DEF TcpInv, Owned
<1>3. ASSUME NEW t \in Tunnels PROVE Balanced(t)'
  <2>1. Tcp!Current(t)' = Tcp!Current(t)
    BY DEF Tcp!Current, Tcp!ConnectionsOf
  <2> QED
    BY <2>1, BalancedKept
<1> QED
  BY <1>1, <1>2, <1>3 DEF TcpInv

\* A connection is accepted, or dropped again for want of a shared permit
\* (run_tcp_listener).
LEMMA OwnPermitMoves ==
  ASSUME TcpInv, NEW t \in Tunnels, Tcp!Accept(t) \/ Tcp!NoSharedPermit(t)
  PROVE  TcpInv'
<1>1. /\ UNCHANGED <<token, shared, connection, of, old, inHand>>
      /\ own' = [own EXCEPT ![t] = own'[t]] /\ listener' = [listener EXCEPT ![t] = listener'[t]]
      /\ \/ /\ listener[t] = "accept" /\ listener'[t] = "shared"
            /\ own[t] > 0 /\ own'[t] = own[t] - 1
         \/ /\ listener[t] = "shared" /\ listener'[t] = "accept"
            /\ own'[t] = own[t] + 1
  <2>1. CASE Tcp!Accept(t)
    BY <2>1 DEF Tcp!Accept, TcpInv, TcpTypes
  <2>2. CASE Tcp!NoSharedPermit(t)
    BY <2>2 DEF Tcp!NoSharedPermit, TcpInv, TcpTypes
  <2> QED
    BY <2>1, <2>2
<1>2. own[t] \in Nat /\ own'[t] \in Nat
  BY <1>1 DEF TcpInv, TcpTypes
<1>3. TcpTypes'
  <2>1. own' \in [Tunnels -> Nat] /\ listener' \in [Tunnels -> {"accept", "shared", "ended"}]
    BY <1>1, <1>2 DEF TcpInv, TcpTypes
  <2> QED
    BY <1>1, <2>1 DEF TcpInv, TcpTypes, Tcp!Phases, Tcp!Directions
<1>4. There' = There /\ Owned'
  BY <1>1 DEF There, TcpInv, Owned
<1>5. \A r \in Tunnels : Tcp!Current(r)' = Tcp!Current(r)
  BY <1>1 DEF Tcp!Current, Tcp!ConnectionsOf
<1>6. ASSUME NEW r \in Tunnels PROVE Balanced(r)'
  <2>1. CASE r = t
    <3>1. Balanced(t) /\ Cardinality(Tcp!Current(t)) \in Nat
      BY FiniteConnections DEF TcpInv
    <3>2. Cardinality(Tcp!Current(t)') = Cardinality(Tcp!Current(t))
      BY <1>5
    <3>3. own'[t] + Cardinality(Tcp!Current(t)) + (IF listener'[t] = "shared" THEN 1 ELSE 0)
             = TcpPerTunnel
      BY <1>1, <1>2, <3>1 DEF Balanced
    <3> QED
      BY <2>1, <3>2, <3>3 DEF Balanced
  <2>2. CASE r # t
    BY <1>1, <1>5, <2>2, BalancedKept DEF TcpInv, TcpTypes
  <2> QED
    BY <2>1, <2>2
<1> QED
  BY <1>1, <1>3, <1>4, <1>6 DEF TcpInv

\* A task is spawned with both permits.
LEMMA SpawnInv ==
  ASSUME TcpInv, NEW t \in Tunnels, NEW c \in Connections, Tcp!Spawn(t, c)
  PROVE  TcpInv'
<1>1. /\ listener[t] = "shared" /\ shared > 0 /\ connection[c] = "gone"
      /\ shared' = shared - 1
      /\ connection' = [connection EXCEPT ![c] = "connecting"]
      /\ of' = [of EXCEPT ![c] = t] /\ listener' = [listener EXCEPT ![t] = "accept"]
      /\ UNCHANGED <<token, own, old, inHand>>
  BY DEF Tcp!Spawn
<1>2. /\ connection'[c] = "connecting" /\ of'[c] = t /\ listener'[t] = "accept"
      /\ \A d \in Connections \ {c} : connection'[d] = connection[d] /\ of'[d] = of[d]
      /\ \A r \in Tunnels \ {t} : listener'[r] = listener[r]
      /\ of[c] = None /\ t # None /\ c \notin old
  BY <1>1, SessionConstants DEF TcpInv, TcpTypes, Owned, There
<1>3. TcpTypes'
  <2>1. shared' \in Nat /\ own' \in [Tunnels -> Nat]
    BY <1>1 DEF TcpInv, TcpTypes
  <2>2. listener' \in [Tunnels -> {"accept", "shared", "ended"}]
    BY <1>1 DEF TcpInv, TcpTypes
  <2>3. /\ connection' \in [Connections -> Tcp!Phases]
        /\ of' \in [Connections -> Tunnels \cup {None}]
    BY <1>1 DEF TcpInv, TcpTypes, Tcp!Phases
  <2> QED
    BY <1>1, <2>1, <2>2, <2>3 DEF TcpInv, TcpTypes, Tcp!Phases, Tcp!Directions
<1>4. There' = There \cup {c} /\ c \notin There
  BY <1>1, <1>2 DEF There
<1>5. Owned'
  BY <1>1, <1>2, <1>4 DEF TcpInv, Owned
<1>6. shared' + Cardinality(There') = TcpTotal
  <2>1. Cardinality(There') = Cardinality(There) + 1 /\ Cardinality(There) \in Nat
    BY <1>4, FiniteConnections, FS_AddElement
  <2>2. shared \in Nat /\ shared + Cardinality(There) = TcpTotal
    BY DEF TcpInv, TcpTypes
  <2> QED
    BY <1>1, <2>1, <2>2
<1>7. Tcp!Current(t)' = Tcp!Current(t) \cup {c} /\ c \notin Tcp!Current(t)
  BY <1>1, <1>2 DEF Tcp!Current, Tcp!ConnectionsOf
<1>8. ASSUME NEW r \in Tunnels PROVE Balanced(r)'
  <2>1. CASE r = t
    <3>1. /\ Cardinality(Tcp!Current(t)') = Cardinality(Tcp!Current(t)) + 1
          /\ Cardinality(Tcp!Current(t)) \in Nat
      BY <1>7, FiniteConnections, FS_AddElement
    <3>2. own[t] \in Nat /\ own[t] + Cardinality(Tcp!Current(t)) + 1 = TcpPerTunnel
      BY <1>1 DEF TcpInv, TcpTypes, Balanced
    <3>3. own[t] + Cardinality(Tcp!Current(t)') + 0 = TcpPerTunnel
      BY <3>1, <3>2
    <3> QED
      BY <1>1, <1>2, <2>1, <3>3 DEF Balanced
  <2>2. CASE r # t
    <3>1. Tcp!Current(r)' = Tcp!Current(r)
      BY <1>1, <1>2, <2>2, SessionConstants DEF Tcp!Current, Tcp!ConnectionsOf
    <3> QED
      BY <1>1, <1>2, <2>2, <3>1, BalancedKept
  <2> QED
    BY <2>1, <2>2
<1> QED
  BY <1>3, <1>5, <1>6, <1>8 DEF TcpInv

\* A task is over, and its permits go back where they are from: that of a
\* listener's earlier run went with that run's semaphore.
LEMMA OverInv ==
  ASSUME TcpInv, NEW c \in Connections, connection[c] # "gone", Tcp!Over(c)
  PROVE  TcpInv'
<1>1. /\ connection' = [connection EXCEPT ![c] = "gone"] /\ of' = [of EXCEPT ![c] = None]
      /\ inHand' = [inHand EXCEPT ![c] = {}] /\ shared' = shared + 1 /\ old' = old \ {c}
      /\ own' = IF c \in old THEN own ELSE [own EXCEPT ![of[c]] = @ + 1]
      /\ UNCHANGED <<listener, token>>
  BY DEF Tcp!Over, Tcp!listeners
<1>2. /\ connection'[c] = "gone" /\ of'[c] = None
      /\ \A d \in Connections \ {c} : connection'[d] = connection[d] /\ of'[d] = of[d]
  BY <1>1 DEF TcpInv, TcpTypes
<1>3. PICK t \in Tunnels : of[c] = t
  BY DEF TcpInv, TcpTypes, Owned
<1>4. own' \in [Tunnels -> Nat]
  BY <1>1, <1>3 DEF TcpInv, TcpTypes
<1>5. TcpTypes'
  <2>1. /\ connection' \in [Connections -> Tcp!Phases]
        /\ of' \in [Connections -> Tunnels \cup {None}]
    BY <1>1 DEF TcpInv, TcpTypes, Tcp!Phases
  <2>2. inHand' \in [Connections -> SUBSET Tcp!Directions] /\ shared' \in Nat
    BY <1>1 DEF TcpInv, TcpTypes
  <2> QED
    BY <1>1, <1>4, <2>1, <2>2 DEF TcpInv, TcpTypes, Tcp!Phases, Tcp!Directions
<1>6. There' = There \ {c} /\ c \in There
  BY <1>2 DEF There
<1>7. Owned'
  BY <1>1, <1>2, <1>6 DEF TcpInv, Owned
<1>8. shared' + Cardinality(There') = TcpTotal
  <2>1. Cardinality(There') = Cardinality(There) - 1 /\ Cardinality(There) \in Nat
    BY <1>6, FiniteConnections, FS_RemoveElement
  <2>2. shared \in Nat /\ shared + Cardinality(There) = TcpTotal
    BY DEF TcpInv, TcpTypes
  <2> QED
    BY <1>1, <2>1, <2>2
<1>9. ASSUME NEW r \in Tunnels PROVE Balanced(r)'
  <2>1. CASE r = t /\ c \notin old
    <3>1. Tcp!Current(t)' = Tcp!Current(t) \ {c} /\ c \in Tcp!Current(t)
      BY <1>1, <1>2, <1>3, <2>1, SessionConstants DEF Tcp!Current, Tcp!ConnectionsOf
    <3>2. /\ Cardinality(Tcp!Current(t)') = Cardinality(Tcp!Current(t)) - 1
          /\ Cardinality(Tcp!Current(t)) \in Nat
      BY <3>1, FiniteConnections, FS_RemoveElement
    <3>3. own[t] \in Nat /\ own'[t] = own[t] + 1 /\ Balanced(t)
      BY <1>1, <1>3, <2>1 DEF TcpInv, TcpTypes
    <3>4. own'[t] + Cardinality(Tcp!Current(t)') + (IF listener[t] = "shared" THEN 1 ELSE 0)
             = TcpPerTunnel
      BY <3>2, <3>3 DEF Balanced
    <3> QED
      BY <1>1, <2>1, <3>4 DEF Balanced
  <2>2. CASE ~ (r = t /\ c \notin old)
    <3>1. Tcp!Current(r)' = Tcp!Current(r)
      BY <1>1, <1>2, <1>3, <2>2, SessionConstants DEF Tcp!Current, Tcp!ConnectionsOf
    <3>2. own'[r] = own[r]
      BY <1>1, <1>3, <2>2 DEF TcpInv, TcpTypes
    <3> QED
      BY <1>1, <3>1, <3>2, BalancedKept
  <2> QED
    BY <2>1, <2>2
<1> QED
  BY <1>5, <1>7, <1>8, <1>9 DEF TcpInv

\* A listener starts again: with a semaphore of its own, and no connection.
LEMMA TcpRestartInv ==
  ASSUME TcpInv, NEW t \in Tunnels, Tcp!Restart(t)
  PROVE  TcpInv'
<1>1. /\ listener[t] = "ended" /\ listener' = [listener EXCEPT ![t] = "accept"]
      /\ token' = [token EXCEPT ![t] = FALSE] /\ own' = [own EXCEPT ![t] = TcpPerTunnel]
      /\ old' = old \cup Tcp!ConnectionsOf(t)
      /\ UNCHANGED <<shared, connection, of, inHand>>
  BY DEF Tcp!Restart
<1>2. /\ listener'[t] = "accept" /\ own'[t] = TcpPerTunnel /\ TcpPerTunnel \in Nat
      /\ \A r \in Tunnels \ {t} : listener'[r] = listener[r] /\ own'[r] = own[r]
  BY <1>1, ConnectionConstants DEF TcpInv, TcpTypes
<1>3. TcpTypes'
  <2>1. listener' \in [Tunnels -> {"accept", "shared", "ended"}] /\ own' \in [Tunnels -> Nat]
    BY <1>1, <1>2 DEF TcpInv, TcpTypes
  <2>2. token' \in [Tunnels -> BOOLEAN]
    BY <1>1 DEF TcpInv, TcpTypes
  <2> QED
    BY <1>1, <2>1, <2>2 DEF TcpInv, TcpTypes, Tcp!Phases, Tcp!Directions
<1>4. There' = There
  BY <1>1 DEF There
<1>5. Owned'
  <2>1. Tcp!ConnectionsOf(t) \subseteq There
    BY SessionConstants DEF TcpInv, Owned, There, Tcp!ConnectionsOf
  <2> QED
    BY <1>1, <1>4, <2>1 DEF TcpInv, Owned
<1>6. ASSUME NEW r \in Tunnels PROVE Balanced(r)'
  <2>1. CASE r = t
    <3>1. Tcp!Current(t)' = {}
      BY <1>1 DEF Tcp!Current, Tcp!ConnectionsOf
    <3> QED
      BY <1>2, <2>1, <3>1, FS_EmptySet DEF Balanced
  <2>2. CASE r # t
    <3>1. Tcp!Current(r)' = Tcp!Current(r)
      BY <1>1, <2>2 DEF Tcp!Current, Tcp!ConnectionsOf
    <3> QED
      BY <1>2, <2>2, <3>1, BalancedKept
  <2> QED
    BY <2>1, <2>2
<1> QED
  BY <1>1, <1>3, <1>4, <1>5, <1>6 DEF TcpInv

LEMMA TcpNext == TcpInv /\ [Tcp!Next]_tcpVars => TcpInv'
<1> SUFFICES ASSUME TcpInv, [Tcp!Next]_tcpVars PROVE TcpInv'
  OBVIOUS
<1>1. ASSUME NEW t \in Tunnels, Tcp!End(t) \/ Tcp!Cancel(t) PROVE TcpInv'
  <2>1. /\ UNCHANGED <<own, shared, connection, of, old, inHand>>
        /\ \A r \in Tunnels : listener'[r] = "shared" <=> listener[r] = "shared"
    BY <1>1 DEF Tcp!End, Tcp!Cancel, TcpInv, TcpTypes
  <2>2. listener' \in [Tunnels -> {"accept", "shared", "ended"}]
    BY <1>1 DEF Tcp!End, Tcp!Cancel, TcpInv, TcpTypes
  <2>3. token' \in [Tunnels -> BOOLEAN]
    BY <1>1 DEF Tcp!End, Tcp!Cancel, TcpInv, TcpTypes
  <2>4. TcpTypes'
    BY <2>1, <2>2, <2>3 DEF TcpInv, TcpTypes, Tcp!Phases, Tcp!Directions
  <2> QED
    BY <2>1, <2>4, NoPermitMoves
<1>2. ASSUME NEW c \in Connections, Tcp!Connect(c) PROVE TcpInv'
  <2>1. /\ connection[c] = "connecting" /\ connection' = [connection EXCEPT ![c] = "copying"]
        /\ UNCHANGED <<listener, token, own, shared, of, old, inHand>>
    BY <1>2 DEF Tcp!Connect, Tcp!listeners
  <2>2. \A d \in Connections : connection'[d] = "gone" <=> connection[d] = "gone"
    BY <2>1 DEF TcpInv, TcpTypes
  <2>3. connection' \in [Connections -> Tcp!Phases]
    BY <2>1 DEF TcpInv, TcpTypes, Tcp!Phases
  <2>4. TcpTypes'
    BY <2>1, <2>3 DEF TcpInv, TcpTypes, Tcp!Phases, Tcp!Directions
  <2> QED
    BY <2>1, <2>2, <2>4, NoPermitMoves
<1>3. ASSUME NEW c \in Connections, NEW d \in Tcp!Directions,
             Tcp!TakeChunk(c, d) \/ Tcp!PassChunk(c, d)
      PROVE  TcpInv'
  <2>1. UNCHANGED <<listener, token, own, shared, connection, of, old>>
    BY <1>3 DEF Tcp!TakeChunk, Tcp!PassChunk, Tcp!listeners
  <2>2. inHand' \in [Connections -> SUBSET Tcp!Directions]
    BY <1>3 DEF Tcp!TakeChunk, Tcp!PassChunk, TcpInv, TcpTypes
  <2>3. TcpTypes'
    BY <2>1, <2>2 DEF TcpInv, TcpTypes, Tcp!Phases, Tcp!Directions
  <2> QED
    BY <2>1, <2>3, NoPermitMoves
<1>4. ASSUME NEW c \in Connections,
             Tcp!ConnectFails(c) \/ Tcp!LoopEnds(c) \/ Tcp!Cancelled(c)
      PROVE  TcpInv'
  BY <1>4, OverInv DEF Tcp!ConnectFails, Tcp!LoopEnds, Tcp!Cancelled
<1>5. CASE Tcp!Next
  BY <1>1, <1>2, <1>3, <1>4, <1>5, OwnPermitMoves, SpawnInv, TcpRestartInv DEF Tcp!Next
<1>6. CASE UNCHANGED tcpVars
  <2>1. UNCHANGED <<listener, token, own, shared, connection, of, old, inHand>>
    BY <1>6 DEF tcpVars
  <2>2. TcpTypes'
    BY <2>1 DEF TcpInv, TcpTypes, Tcp!Phases, Tcp!Directions
  <2> QED
    BY <2>1, <2>2, NoPermitMoves
<1> QED
  BY <1>5, <1>6

-----------------------------------------------------------------------------
(* Both kinds of listeners.                                                *)

\* What is shown of one kind of listener holds where both are.
LEMMA PartsOfBoth ==
  BothSpec => Init /\ [][Next]_vars /\ Tcp!Init /\ [][Tcp!Next]_tcpVars
<1>1. BothInit => Init /\ Tcp!Init
  BY DEF BothInit
<1>2. [BothNext]_<<kind, vars, tcpVars>> => [Next]_vars /\ [Tcp!Next]_tcpVars
  BY DEF BothNext
<1> QED
  BY <1>1, <1>2, PTL DEF BothSpec

\* UdpSessions: the inductive invariant.
THEOREM UdpInvariant == BothSpec => []UdpInv
  BY UdpInit, UdpNext, PartsOfBoth, PTL

\* TcpConnections: the inductive invariant.
THEOREM TcpInvariant == BothSpec => []TcpInv
  BY TcpInit, TcpNext, PartsOfBoth, PTL

\* The table of a UDP listener holds exactly the sessions that may still
\* forward for their peer, and no more of them than the limit, whatever ends,
\* tidies up or starts between the steps of the listener (run_udp_listener,
\* run_udp_session).
THEOREM SessionTableTheorem == BothSpec => []SessionTable
<1>1. UdpInv => SessionTable
  <2> SUFFICES ASSUME UdpInv PROVE SessionTable
    OBVIOUS
  <2>1. permits \in 0..MaxTotal
    <3>1. IsFiniteSet({s \in Sessions : phase[s] # "gone"})
      BY FS_Subset, SessionConstants
    <3>2. Cardinality({s \in Sessions : phase[s] # "gone"}) \in Nat
      BY <3>1, FS_CardinalityType
    <3> QED
      BY <3>2, SessionConstants DEF UdpInv, PermitsBalance
  <2>2. TypeOK
    BY <2>1 DEF UdpInv, TypeOK
  <2>3. AliveIsInTable /\ NoDeadEntries
    BY DEF UdpInv, UdpSession, AliveIsInTable
  <2> QED
    BY <2>2, <2>3, WithinLimitHolds DEF SessionTable
<1> QED
  BY <1>1, UdpInvariant, PTL

\* Every permit is free or held by exactly one task, whichever way the task
\* ended, lost its place or outlived its listener (run_udp_listener,
\* run_tcp_listener).
THEOREM PermitsReturnTheorem == BothSpec => []PermitsReturn
<1>1. TcpInv => Tcp!TypeOK /\ Tcp!PermitsBalance
  <2> SUFFICES ASSUME TcpInv PROVE Tcp!TypeOK /\ Tcp!PermitsBalance
    OBVIOUS
  <2>1. Tcp!PermitsBalance
    BY TcpCounts DEF TcpInv, Balanced, There, Tcp!PermitsBalance
  <2>2. shared \in 0..TcpTotal
    BY FiniteConnections, ConnectionConstants DEF TcpInv, TcpTypes
  <2>3. ASSUME NEW t \in Tunnels PROVE own[t] \in 0..TcpPerTunnel
    <3>1. own[t] \in Nat /\ Cardinality(Tcp!Current(t)) \in Nat /\ Balanced(t)
      BY FiniteConnections DEF TcpInv, TcpTypes
    <3> QED
      BY <3>1, ConnectionConstants DEF Balanced
  <2>4. own \in [Tunnels -> 0..TcpPerTunnel]
    BY <2>3 DEF TcpInv, TcpTypes
  <2>5. old \subseteq Connections
    BY DEF TcpInv, Owned, There
  <2>6. Tcp!TypeOK
    BY <2>2, <2>4, <2>5 DEF TcpInv, TcpTypes, Tcp!TypeOK
  <2> QED
    BY <2>1, <2>6
<1>2. UdpInv => PermitsBalance
  BY DEF UdpInv
<1>3. UdpInv /\ TcpInv => PermitsReturn
  BY <1>1, <1>2 DEF PermitsReturn
<1> QED
  BY <1>3, UdpInvariant, TcpInvariant, PTL

=============================================================================
