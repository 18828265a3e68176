----------------------------- MODULE RateLimiter -----------------------------
(***************************************************************************)
(* ApiRateLimiter::allow.                                                  *)
(*                                                                         *)
(* A bucket per address, made at its first call and brought up to the time *)
(* at every later one.  A call first drops the buckets that were idle for  *)
(* IdleTtl, if that was not done within CleanupInterval, and an address    *)
(* without a bucket is refused while MaxClients have one.                  *)
(*                                                                         *)
(* Tokens are whole here, and f64 in the code.                             *)
(***************************************************************************)
EXTENDS Naturals, FiniteSets, Functions

CONSTANTS
    Addresses, Budget, Refill, Costs,
    IdleTtl,           \* RATE_LIMIT_IDLE_TTL
    CleanupInterval,   \* RATE_LIMIT_CLEANUP_INTERVAL
    MaxClients,        \* MAX_RATE_LIMIT_CLIENTS
    MaxNow             \* bound: when the run ends

\* A bucket is full when it may be dropped: 300 seconds refill 600 of 60 tokens.
ASSUME LimiterConstants ==
    /\ Budget \in Nat /\ Refill \in Nat
    /\ Costs \subseteq Nat
    /\ IdleTtl \in Nat \ {0} /\ CleanupInterval \in Nat
    /\ MaxClients \in Nat /\ MaxNow \in Nat
    /\ IdleTtl * Refill >= Budget

VARIABLES
    now,
    clients,       \* a bucket for each of some addresses
    cleaned,       \* last_cleanup, -1 standing for None
    answer         \* to the last call, and its address

vars == <<now, clients, cleaned, answer>>

Never == 0 - 1

Init == /\ now = 0
        /\ clients = [a \in {} |-> 0]
        /\ cleaned = Never
        /\ answer = <<>>

-----------------------------------------------------------------------------
Smaller(a, b) == IF a < b THEN a ELSE b

CleanupDue == cleaned = Never \/ now - cleaned >= CleanupInterval

\* Fault: a cleanup drops every bucket.
KeptNone == IF CleanupDue THEN {} ELSE DOMAIN clients

\* Fault: nothing is dropped.
KeptAll == DOMAIN clients

\* The addresses whose buckets a call finds: retain, when a cleanup is due.
Kept ==
    IF CleanupDue
    THEN {a \in DOMAIN clients : now - clients[a].updated < IdleTtl}
    ELSE DOMAIN clients

Refilled(bucket) == Smaller(Budget, bucket.tokens + (now - bucket.updated) * Refill)

\* What the bucket of an address holds at a call, a new one included.
Tokens(a) == IF a \in Kept THEN Refilled(clients[a]) ELSE Budget

Room(a) == a \in Kept \/ Cardinality(Kept) < MaxClients

Cleanup == cleaned' = IF CleanupDue THEN now ELSE cleaned

Store(a, tokens) ==
    clients' = [b \in Kept \cup {a} |->
                  IF b = a THEN [tokens |-> tokens, updated |-> now] ELSE clients[b]]

-----------------------------------------------------------------------------
Grant(a, cost) ==
    /\ Room(a)
    /\ Tokens(a) >= cost
    /\ Store(a, Tokens(a) - cost)
    /\ Cleanup
    /\ answer' = <<a, "granted">>
    /\ UNCHANGED now

\* The bucket is brought up to the time all the same.
Deny(a, cost) ==
    /\ Room(a)
    /\ Tokens(a) < cost
    /\ Store(a, Tokens(a))
    /\ Cleanup
    /\ answer' = <<a, "denied">>
    /\ UNCHANGED now

NoRoom(a) ==
    /\ ~ Room(a)
    /\ clients' = Restrict(clients, Kept)
    /\ Cleanup
    /\ answer' = <<a, "no room">>
    /\ UNCHANGED now

Tick == /\ now < MaxNow
        /\ now' = now + 1
        /\ answer' = <<>>
        /\ UNCHANGED <<clients, cleaned>>

Next == \/ Tick
        \/ \E a \in Addresses :
             \/ NoRoom(a)
             \/ \E cost \in Costs : Grant(a, cost) \/ Deny(a, cost)

Spec == Init /\ [][Next]_vars

-----------------------------------------------------------------------------
\* The values of the variables; the table is never over its size.
TypeOK ==
    /\ now \in Nat
    /\ DOMAIN clients \subseteq Addresses
    /\ Cardinality(DOMAIN clients) <= MaxClients
    /\ \A a \in DOMAIN clients :
         /\ clients[a].tokens \in 0..Budget
         /\ clients[a].updated \in 0..now
    /\ cleaned \in {Never} \cup 0..now

\* A newcomer is turned away only for addresses that have all called within
\* the last IdleTtl and CleanupInterval: idle ones do not keep the table full
\* although nothing but a call ever cleans it.
NoRoomForTheIdle ==
    [][\A a \in Addresses : NoRoom(a) =>
         \A b \in DOMAIN clients' : now - clients[b].updated < IdleTtl + CleanupInterval]_vars

\* The budget an address has, with a bucket or without one.
Available(a) == IF a \in DOMAIN clients THEN Refilled(clients[a]) ELSE Budget

\* The limiter is the one that never forgets: a bucket that is dropped was
\* full, a call that is denied costs nothing and gains nothing, and no
\* sequence of calls, cleanups and refusals buys more than the budget.
Promise == INSTANCE AddressBudget WITH available <- [a \in Addresses |-> Available(a)]

ImplementsBudget == Promise!Spec

=============================================================================
