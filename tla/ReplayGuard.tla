----------------------------- MODULE ReplayGuard -----------------------------
(***************************************************************************)
(* Requests of the API that arrive more than once: the freshness test of   *)
(* decrypt_payload and ReplayGuard::accept.                                *)
(*                                                                         *)
(* A client stamps a request with whole seconds.  The server takes it when *)
(* its own clock, in whole seconds, is not further than Skew from the      *)
(* stamp, and then asks the guard, which remembers the request for Ttl     *)
(* seconds of a clock that is finer than a second, or until Capacity       *)
(* younger ones have come.  Between the two the password is verified and   *)
(* the guard's lock is awaited, which takes time; other handlers run.      *)
(* A client's retry and a network's duplicate are one request arriving     *)
(* again.  What the guard keeps is a digest of user, operation and nonce;  *)
(* here it is the request.                                                 *)
(*                                                                         *)
(* The wall clock is taken to run with the monotonic one.                  *)
(***************************************************************************)
EXTENDS Integers, Sequences, FiniteSets

CONSTANTS
    Requests,
    Handlers,     \* calls of the API's handlers that run at once
    None,
    Skew,         \* MAX_CLOCK_SKEW_SECONDS
    Ttl,          \* REPLAY_TTL in seconds
    Capacity,     \* MAX_REPLAY_ENTRIES
    Second,       \* ticks in a second
    MaxSecond     \* bound: when the run ends

VARIABLES
    now,       \* ticks
    stamp,     \* of each request, in seconds, by its client's clock
    handling,  \* of each handler: a request that passed the freshness test
    checked,   \* when it did
    seen,      \* ReplayGuard.seen
    order,     \* ReplayGuard.order
    last,      \* of each request: when it was accepted last, -1 for never
    evicted    \* requests that gave way to a younger one since

vars == <<now, stamp, handling, checked, seen, order, last, evicted>>

Init == /\ now = 0
        /\ stamp \in [Requests -> 0..MaxSecond]
        /\ handling = [h \in Handlers |-> None]
        /\ checked = [h \in Handlers |-> 0]
        /\ seen = {}
        /\ order = <<>>
        /\ last = [r \in Requests |-> -1]
        /\ evicted = {}

-----------------------------------------------------------------------------
Distance(a, b) == IF a < b THEN b - a ELSE a - b

Fresh(r) == Distance(now \div Second, stamp[r]) <= Skew

\* Fault: a memory of exactly Ttl is dropped too.
OutdatedEarly(entry) == now - entry.at >= Ttl * Second

Outdated(entry) == now - entry.at > Ttl * Second

\* How many entries accept takes from the front.
OutdatedCount ==
    CHOOSE n \in 0..Len(order) :
        /\ \A i \in 1..n : Outdated(order[i])
        /\ n = Len(order) \/ ~ Outdated(order[n + 1])

KeysOf(entries) == {entries[i].key : i \in DOMAIN entries}

\* Fault: the table keeps what the queue drops.
RemainingSeenAll == seen

RemainingSeen == seen \ KeysOf(SubSeq(order, 1, OutdatedCount))
RemainingOrder == SubSeq(order, OutdatedCount + 1, Len(order))

-----------------------------------------------------------------------------
\* A request arrives, once more or for the first time, and is decrypted.
Receive(h, r) ==
    /\ handling[h] = None
    /\ Fresh(r)
    /\ handling' = [handling EXCEPT ![h] = r]
    /\ checked' = [checked EXCEPT ![h] = now]
    /\ UNCHANGED <<now, stamp, seen, order, last, evicted>>

Done(h) ==
    /\ handling' = [handling EXCEPT ![h] = None]
    /\ checked' = [checked EXCEPT ![h] = 0]

\* A request that is remembered: the handler answers that it is a duplicate.
Refuse(h) ==
    /\ handling[h] # None
    /\ handling[h] \in RemainingSeen
    /\ seen' = RemainingSeen
    /\ order' = RemainingOrder
    /\ Done(h)
    /\ UNCHANGED <<now, stamp, last, evicted>>

\* The request is remembered; at capacity the oldest one is forgotten for it.
Remember(r, full) ==
    IF full
    THEN /\ seen' = (RemainingSeen \cup {r}) \ {Head(RemainingOrder).key}
         /\ order' = Append(Tail(RemainingOrder), [at |-> now, key |-> r])
         /\ evicted' = (evicted \ {r}) \cup {Head(RemainingOrder).key}
    ELSE /\ seen' = RemainingSeen \cup {r}
         /\ order' = Append(RemainingOrder, [at |-> now, key |-> r])
         /\ evicted' = evicted \ {r}

Accept(h) ==
    LET r == handling[h]
    IN  /\ r # None
        /\ r \notin RemainingSeen
        /\ Remember(r, Cardinality(RemainingSeen \cup {r}) > Capacity
                         /\ RemainingOrder # <<>>)
        /\ last' = [last EXCEPT ![r] = now]
        /\ Done(h)
        /\ UNCHANGED <<now, stamp>>

Tick == /\ now < MaxSecond * Second
        /\ now' = now + 1
        /\ UNCHANGED <<stamp, handling, checked, seen, order, last, evicted>>

Next == \/ Tick
        \/ \E h \in Handlers :
             \/ \E r \in Requests : Receive(h, r)
             \/ Refuse(h)
             \/ Accept(h)

Spec == Init /\ [][Next]_vars

-----------------------------------------------------------------------------
\* The values of the variables.
TypeOK ==
    /\ now \in Nat
    /\ stamp \in [Requests -> Nat]
    /\ handling \in [Handlers -> Requests \cup {None}]
    /\ checked \in [Handlers -> 0..now]
    /\ seen \subseteq Requests
    /\ order \in Seq([at : 0..now, key : Requests])
    /\ Len(order) <= Capacity
    /\ last \in [Requests -> -1..now]
    /\ evicted \subseteq Requests

\* The table and the queue of ReplayGuard hold the same requests, each one
\* once, in the order of their acceptance: nothing stays in the table that the
\* queue will never take out.
SeenIsOrder ==
    /\ seen = KeysOf(order)
    /\ \A i, j \in DOMAIN order :
         i < j => /\ order[i].key # order[j].key
                  /\ order[i].at <= order[j].at
    /\ \A i \in DOMAIN order : order[i].at = last[order[i].key]

AcceptedAgain(h) == Accept(h) /\ last[handling[h]] # -1

\* The memory of a request outlived its freshness, or the clock of its client
\* was ahead of the server's when it was accepted first, or this handler had
\* passed the freshness test before the memory ended.
LateForGoodReason(h) ==
    LET r == handling[h]
    IN  /\ now - last[r] > Ttl * Second
        /\ \/ stamp[r] >= last[r] \div Second
           \/ checked[h] - last[r] <= Ttl * Second

\* A request is accepted once more only when it gave way to Capacity younger
\* ones, or when the memory of it has lasted its time; and then its client's
\* clock was ahead or its handler slow.  Handlers that run at once, retries
\* and duplicates change nothing about that.
RepeatIsLate ==
    [][\A h \in Handlers :
         AcceptedAgain(h) => handling[h] \in evicted \/ LateForGoodReason(h)]_vars

\* The answer that a request was handled before is true, and is given no
\* longer than the memory lasts.
RefusedWasAccepted ==
    [][\A h \in Handlers : Refuse(h) =>
         /\ last[handling[h]] # -1
         /\ now - last[handling[h]] <= Ttl * Second]_vars

=============================================================================
