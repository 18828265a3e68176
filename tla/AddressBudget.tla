---------------------------- MODULE AddressBudget ----------------------------
(***************************************************************************)
(* What the API's rate limiter promises: every address has a budget that   *)
(* grows with the time up to a capacity, a call is granted exactly when    *)
(* the caller's budget pays for it, and the only other refusal, that there *)
(* is no room, meets callers with a full budget.  No address is ever       *)
(* forgotten here; RateLimiter, which forgets some, implements this.       *)
(***************************************************************************)
EXTENDS Naturals

CONSTANTS
    Addresses,
    Budget,       \* CAPACITY
    Refill,       \* REFILL_PER_SECOND, for one tick
    Costs         \* what hello, usage, tunnels and login cost

VARIABLES
    available,    \* of each address
    answer        \* to the last call, and its address

vars == <<available, answer>>

Smaller(a, b) == IF a < b THEN a ELSE b

Init == /\ available = [a \in Addresses |-> Budget]
        /\ answer = <<>>

Tick == /\ available' = [a \in Addresses |-> Smaller(Budget, available[a] + Refill)]
        /\ answer' = <<>>

Grant(a, cost) ==
    /\ available[a] >= cost
    /\ available' = [available EXCEPT ![a] = @ - cost]
    /\ answer' = <<a, "granted">>

Deny(a, cost) ==
    /\ available[a] < cost
    /\ answer' = <<a, "denied">>
    /\ UNCHANGED available

NoRoom(a) ==
    /\ available[a] = Budget
    /\ answer' = <<a, "no room">>
    /\ UNCHANGED available

Next == \/ Tick
        \/ \E a \in Addresses : \/ NoRoom(a)
                                \/ \E cost \in Costs : Grant(a, cost) \/ Deny(a, cost)

Spec == Init /\ [][Next]_vars

=============================================================================
