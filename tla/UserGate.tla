------------------------------ MODULE UserGate ------------------------------
(***************************************************************************)
(* The per-user traffic gate of controller.rs: one quota counter and one   *)
(* token bucket, behind one mutex, shared by every copy loop and every UDP *)
(* session of the user.                                                    *)
(*                                                                         *)
(* A caller asks the gate for a number of bytes (reserve_stream for TCP,   *)
(* reserve_datagram for UDP) and either gets an answer in one pass through *)
(* the critical section or sleeps and passes through it again.  Sleeping   *)
(* callers are not queued: whoever wakes first takes the tokens.           *)
(*                                                                         *)
(* Time is a tick.  Rates are tokens (bytes) per tick.  The window         *)
(* variables observe an arbitrary stretch of time; the gate never reads    *)
(* them.                                                                   *)
(***************************************************************************)
EXTENDS Integers

CONSTANTS
    Callers,      \* copy loops and UDP sessions of one user
    Limits,       \* traffic_limit_bytes the configuration may hold; 0: none
    Rates,        \* bytes_per_second the configuration may hold; 0: none
    StartUsages,  \* traffic_used_bytes the configuration may hold
    MaxStream,    \* COPY_BUFFER_BYTES, the largest stream reservation
    MaxDatagram,  \* 65535, the largest datagram reservation
    MinBurst,     \* COPY_BUFFER_BYTES * 4
    MaxCount,     \* u64::MAX, where the usage counter saturates
    ElapsedBound, \* bound: ticks between two refills
    WindowBound   \* bound: ticks of one observed window

ASSUME GateConstants ==
    /\ Limits \subseteq 0 .. MaxCount
    /\ Rates \subseteq Nat
    /\ StartUsages \subseteq 0 .. MaxCount
    /\ MaxStream \in Nat \ {0}
    /\ MaxDatagram \in Nat
    /\ MinBurst \in Nat
    /\ MaxCount \in Nat
    /\ ElapsedBound \in Nat
    /\ WindowBound \in Nat

\* No request is ever larger than the smallest bucket: 65535 <= 4 * 16384.
ASSUME RequestsFitBurst == MaxStream <= MinBurst /\ MaxDatagram <= MinBurst

VARIABLES
    settings,  \* the loaded configuration's [limit, rate] of this user
    startUsed, \* traffic_used_bytes the gate was created with
    limit, used, rate, tokens, elapsed,  \* GateState; elapsed: last_refill
    call,      \* call[c]: the reservation c is inside of, or NoCall
    allowed,   \* observer: bytes the callers have been told they may forward
    window     \* observer: [granted, ticks] since an arbitrary instant

gateState == <<limit, used, rate, tokens, elapsed>>
vars == <<settings, startUsed, gateState, call, allowed, window>>

NoCall == [bytes |-> 0, exact |-> FALSE, waiting |-> FALSE]
Calls == [bytes : 0 .. MaxStream, exact : {FALSE}, waiting : BOOLEAN]
           \cup [bytes : 0 .. MaxDatagram, exact : {TRUE}, waiting : BOOLEAN]

\* Fault: a bucket no larger than a tick's rate.
BurstOfOneTick(r) == r

BurstCapacity(r) == IF r < MinBurst THEN MinBurst ELSE r

Smaller(a, b) == IF a < b THEN a ELSE b

\* saturating_add
Saturated(n) == Smaller(n, MaxCount)

\* refill_tokens: what the bucket holds once the elapsed time is credited.
Refilled == Smaller(tokens + elapsed * rate, BurstCapacity(rate))

\* Fault: a plain subtraction wraps around when the usage is over the limit.
RemainingWrapped ==
    IF limit < used THEN MaxCount + 1 + limit - used ELSE limit - used

\* limit_bytes.saturating_sub(used_bytes); only meaningful under a limit.
Remaining == IF limit < used THEN 0 ELSE limit - used

\* Fault: a datagram larger than what remains is not refused.
ExhaustedWhenEmpty(c) == limit # 0 /\ Remaining = 0

Exhausted(c) == /\ limit # 0
                /\ Remaining = 0 \/ (call[c].exact /\ Remaining < call[c].bytes)

Desired(c) == IF limit = 0 THEN call[c].bytes
                           ELSE Smaller(call[c].bytes, Remaining)

\* reserve_stream forwards what it got; reserve_datagram only the whole packet.
Forwardable(c) == IF call[c].exact /\ Desired(c) # call[c].bytes
                    THEN 0 ELSE Desired(c)

Init == /\ settings \in [limit : Limits, rate : Rates]
        /\ startUsed \in StartUsages
        /\ limit = settings.limit
        /\ used = startUsed
        /\ rate = settings.rate
        /\ tokens = BurstCapacity(rate)
        /\ elapsed = 0
        /\ call = [c \in Callers |-> NoCall]
        /\ allowed = 0
        /\ window = [granted |-> 0, ticks |-> 0]

\* A caller enters reserve; a request for nothing is answered at the door.
Reserve(c, bytes, exact) ==
    /\ ~call[c].waiting
    /\ bytes # 0
    /\ call' = [call EXCEPT ![c] = [bytes |-> bytes, exact |-> exact,
                                    waiting |-> TRUE]]
    /\ UNCHANGED <<settings, startUsed, gateState, allowed, window>>

\* The critical section answers None: the copy loop or the session ends.
Refuse(c) ==
    /\ call[c].waiting
    /\ Exhausted(c)
    /\ call' = [call EXCEPT ![c] = NoCall]
    /\ UNCHANGED <<settings, startUsed, gateState, allowed, window>>

Charge(c) == /\ used' = Saturated(used + Desired(c))
             /\ allowed' = Saturated(allowed + Forwardable(c))
             /\ call' = [call EXCEPT ![c] = NoCall]

\* No speed limit: the quota alone decides.
GrantUnmetered(c) ==
    /\ call[c].waiting
    /\ ~Exhausted(c)
    /\ rate = 0
    /\ Charge(c)
    /\ UNCHANGED <<settings, startUsed, limit, rate, tokens, elapsed, window>>

\* The bucket is refilled for the time elapsed and holds enough.
GrantMetered(c) ==
    /\ call[c].waiting
    /\ ~Exhausted(c)
    /\ rate # 0
    /\ Refilled >= Desired(c)
    /\ tokens' = Refilled - Desired(c)
    /\ elapsed' = 0
    /\ window' = [window EXCEPT !.granted = @ + Desired(c)]
    /\ Charge(c)
    /\ UNCHANGED <<settings, startUsed, limit, rate>>

\* Too few tokens: the refill is kept and the caller sleeps.
Sleep(c) ==
    /\ call[c].waiting
    /\ ~Exhausted(c)
    /\ rate # 0
    /\ Refilled < Desired(c)
    /\ tokens' = Refilled
    /\ elapsed' = 0
    /\ UNCHANGED <<settings, startUsed, limit, used, rate, call, allowed, window>>

Attempt(c) == Refuse(c) \/ GrantUnmetered(c) \/ GrantMetered(c) \/ Sleep(c)

\* Fault: every save hands out a full bucket.
UpdateLimitsRefilling(newLimit, newRate) ==
    /\ limit' = newLimit
    /\ rate' = newRate
    /\ tokens' = BurstCapacity(newRate)
    /\ elapsed' = 0
    /\ UNCHANGED <<settings, startUsed, used, call, allowed, window>>

\* reconcile_gates applies the configuration to an existing gate on every
\* tunnel save; a bucket whose speed did not change must keep its tokens.
UpdateLimits(newLimit, newRate) ==
    /\ limit' = newLimit
    /\ IF rate # newRate
         THEN /\ rate' = newRate
              /\ tokens' = BurstCapacity(newRate)
              /\ elapsed' = 0
         ELSE UNCHANGED <<rate, tokens, elapsed>>
    /\ UNCHANGED <<settings, startUsed, used, call, allowed, window>>

\* One tick of time; a window that has grown to its bound starts afresh.
Tick ==
    /\ elapsed < ElapsedBound
    /\ elapsed' = elapsed + 1
    /\ window' = IF window.ticks < WindowBound
                   THEN [window EXCEPT !.ticks = @ + 1]
                   ELSE [granted |-> 0, ticks |-> 0]
    /\ UNCHANGED <<settings, startUsed, limit, used, rate, tokens, call, allowed>>

\* The observer starts a new window.
Mark == /\ window' = [granted |-> 0, ticks |-> 0]
        /\ UNCHANGED <<settings, startUsed, gateState, call, allowed>>

Next ==
    \/ \E c \in Callers : \/ \E n \in 0 .. MaxStream : Reserve(c, n, FALSE)
                          \/ \E n \in 0 .. MaxDatagram : Reserve(c, n, TRUE)
                          \/ Attempt(c)
    \/ UpdateLimits(settings.limit, settings.rate)
    \/ Tick
    \/ Mark

Spec == Init /\ [][Next]_vars

\* Sleeping callers are woken by the runtime's timer, and time passes.
FairSpec == Spec /\ WF_vars(Tick) /\ \A c \in Callers : WF_vars(Attempt(c))

-----------------------------------------------------------------------------
\* The bucket is never overdrawn and the counter never leaves its width
\* (controller.rs GateState).
TypeOK ==
    /\ settings \in [limit : Limits, rate : Rates]
    /\ startUsed \in StartUsages
    /\ limit \in 0 .. MaxCount /\ used \in 0 .. MaxCount /\ rate \in Nat
    /\ tokens \in Nat /\ elapsed \in Nat
    /\ call \in [Callers -> Calls]
    /\ allowed \in 0 .. MaxCount
    /\ window \in [granted : Nat, ticks : Nat]

\* Aggregate quota: however many callers share the gate, what it has charged
\* passes neither the limit nor the usage it was created with
\* (controller.rs reserve, test aggregate_gate_enforces_quota).
QuotaHolds ==
    limit # 0 => used <= limit \/ used <= startUsed

\* The gate charges exactly the bytes its callers may forward: a datagram
\* that does not fit is refused without being charged in part.
ChargedIsForwarded == used = Saturated(startUsed + allowed)

\* Aggregate speed: over any stretch of time the callers together get at most
\* one full bucket plus what the speed limit accrues meanwhile, and a tunnel
\* save in between (UpdateLimits) gives them nothing more.
RateHolds ==
    rate # 0 => window.granted <= BurstCapacity(rate) + rate * window.ticks

\* A caller sleeps for ever only if another caller keeps being granted: no
\* request is larger than the bucket, so the gate never stops serving, but
\* sleepers are not queued and a large request can lose every race
\* (controller.rs reserve, the loop around the sleep).
StarvedOnlyByOthers ==
    \A c \in Callers :
        <>[](call[c].waiting) =>
            \E d \in Callers \ {c} : []<><<GrantMetered(d)>>_vars
=============================================================================
