--------------------------- MODULE MCRequestLimits ---------------------------
(***************************************************************************)
(* What stands before the handlers of the API: RateLimiter and             *)
(* ReplayGuard.  The two have no variable in common, and a call takes its  *)
(* tokens before anything else is looked at, so in each behaviour only one *)
(* of them is at work.                                                     *)
(***************************************************************************)
EXTENDS RateLimiter, TLC

CONSTANTS
    Requests, Handlers, None,                    \* ReplayGuard's
    Skew, Ttl, Capacity, Second, MaxSecond,
    a1, a2, a3, r1, r2, r3, h1, h2               \* TLC's addresses, requests, handlers

\* A request is remembered for as long as it may be fresh: 300 seconds of each.
ASSUME GuardConstants ==
    /\ None \notin Requests
    /\ Skew \in Nat /\ Ttl \in Nat /\ Skew <= Ttl
    /\ Capacity \in Nat \ {0}
    /\ Second \in Nat \ {0} /\ MaxSecond \in Nat

MCAddresses == {a1, a2, a3}
MCRequests == {r1, r2, r3}
MCHandlers == {h1, h2}

Symmetry == Permutations(MCAddresses) \cup Permutations(MCRequests) \cup Permutations(MCHandlers)

VARIABLES
    part,                                                    \* what is at work
    clock, stamp, handling, checked, seen, order, last, evicted   \* ReplayGuard

Guard == INSTANCE ReplayGuard WITH now <- clock

guardVars == <<clock, stamp, handling, checked, seen, order, last, evicted>>

BothInit ==
    /\ Init /\ Guard!Init
    /\ part \in {"limiter", "guard"}
    /\ part = "limiter" => stamp = [r \in Requests |-> 0]

BothNext ==
    \/ part = "limiter" /\ Next /\ UNCHANGED <<part, guardVars>>
    \/ part = "guard" /\ Guard!Next /\ UNCHANGED <<part, vars>>

BothSpec == BothInit /\ [][BothNext]_<<part, vars, guardVars>>

\* ReplayGuard's table and its queue hold the same requests, each one once, in
\* the order of their acceptance, and no more than its capacity.
GuardInStep == Guard!TypeOK /\ Guard!SeenIsOrder

\* A request is handled once more only when its memory had lasted its time or
\* gave way to younger ones, and then only for a client's clock that was ahead
\* or a handler that was slow; and the answer that it was handled before is
\* true (decrypt_payload, ReplayGuard::accept).
RepeatsAreRefused == Guard!RepeatIsLate /\ Guard!RefusedWasAccepted

=============================================================================
