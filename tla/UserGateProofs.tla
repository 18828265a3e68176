--------------------------- MODULE UserGateProofs ---------------------------
(***************************************************************************)
(* Proofs about UserGate for every set of callers, every limit and rate    *)
(* the configuration may hold and every size of buffer, datagram and       *)
(* window.                                                                 *)
(*                                                                         *)
(* QuotaHolds and ChargedIsForwarded are inductive beside the type         *)
(* invariant.  RateHolds is not: what the bucket still holds, counted with *)
(* the time not yet credited, has to be paid for by the same budget, and   *)
(* the bucket never holds more than the burst.  That the gate's limits are *)
(* the configured ones is needed because UpdateLimits refills the bucket   *)
(* whenever the two differ.                                                *)
(***************************************************************************)
EXTENDS UserGate, TLAPS

\* What the window granted and what the bucket could grant now.
Budgeted ==
    rate # 0 => window.granted + Refilled <= BurstCapacity(rate) + rate * window.ticks

Configured == limit = settings.limit /\ rate = settings.rate

BucketFits == tokens <= BurstCapacity(rate)

GateInv == /\ TypeOK
           /\ Configured
           /\ BucketFits
           /\ QuotaHolds
           /\ ChargedIsForwarded
           /\ Budgeted

-----------------------------------------------------------------------------
\* The smallest bucket and the refill are natural numbers.
LEMMA BurstNat ==
  ASSUME NEW r \in Nat
  PROVE  BurstCapacity(r) \in Nat
BY GateConstants DEF BurstCapacity

\* refill_tokens credits a non-negative amount, never above the burst, never
\* less than what was there.
LEMMA RefillBounds ==
  ASSUME TypeOK, BucketFits
  PROVE  /\ Refilled \in Nat
         /\ Refilled <= BurstCapacity(rate)
         /\ tokens <= Refilled
<1>1. BurstCapacity(rate) \in Nat
  BY BurstNat DEF TypeOK
<1>2. elapsed * rate \in Nat
  BY SMT DEF TypeOK
<1> QED
  BY <1>1, <1>2 DEF TypeOK, BucketFits, Refilled, Smaller

\* One more tick is worth at most one tick's rate.
LEMMA RefillStep ==
  ASSUME NEW t \in Nat, NEW e \in Nat, NEW r \in Nat, NEW b \in Nat
  PROVE  Smaller(t + (e + 1) * r, b) <= Smaller(t + e * r, b) + r
<1>1. (e + 1) * r = e * r + r /\ e * r \in Nat
  BY SMT
<1> QED
  BY <1>1 DEF Smaller

\* A call that is not refused gets at most what it asked for and what is
\* left, and can forward all it is charged for.
LEMMA DesiredBounds ==
  ASSUME TypeOK, NEW c \in Callers, ~Exhausted(c)
  PROVE  /\ Desired(c) \in Nat
         /\ Forwardable(c) = Desired(c)
         /\ limit # 0 => used + Desired(c) <= limit
<1>1. call[c].bytes \in Nat /\ call[c].exact \in BOOLEAN
  <2>1. call[c] \in Calls
    BY DEF TypeOK
  <2>2. CASE call[c] \in [bytes : 0 .. MaxStream, exact : {FALSE}, waiting : BOOLEAN]
    <3>1. call[c].bytes \in 0 .. MaxStream
      BY <2>2
    <3>2. call[c].exact \in BOOLEAN
      BY <2>2, Zenon
    <3> QED
      BY <3>1, <3>2, GateConstants
  <2>3. CASE call[c] \in [bytes : 0 .. MaxDatagram, exact : {TRUE}, waiting : BOOLEAN]
    <3>1. call[c].bytes \in 0 .. MaxDatagram
      BY <2>3
    <3>2. call[c].exact \in BOOLEAN
      BY <2>3, Zenon
    <3> QED
      BY <3>1, <3>2, GateConstants
  <2> QED
    BY <2>1, <2>2, <2>3 DEF Calls
<1>2. limit \in Nat /\ used \in Nat
  BY GateConstants DEF TypeOK
<1>3. Desired(c) \in Nat
  BY <1>1, <1>2 DEF Desired, Remaining, Smaller
<1>4. limit # 0 => used + Desired(c) <= limit
  BY <1>1, <1>2 DEF Desired, Remaining, Smaller, Exhausted
<1>5. CASE call[c].exact
  <2>1. Desired(c) = call[c].bytes
    BY <1>1, <1>2, <1>5 DEF Desired, Remaining, Smaller, Exhausted
  <2> QED
    BY <1>3, <1>4, <2>1 DEF Forwardable
<1>6. CASE ~call[c].exact
  BY <1>3, <1>4, <1>6 DEF Forwardable
<1> QED
  BY <1>5, <1>6

-----------------------------------------------------------------------------
\* A new gate (UserGate::new) has a full bucket and no window yet.
LEMMA InitGateInv == Init => GateInv
<1> SUFFICES ASSUME Init PROVE GateInv
  OBVIOUS
<1>1. /\ settings.limit \in 0 .. MaxCount /\ settings.rate \in Nat
      /\ startUsed \in 0 .. MaxCount /\ MaxCount \in Nat
      /\ BurstCapacity(rate) \in Nat
  BY BurstNat, GateConstants DEF Init
<1>2. NoCall \in Calls
  BY GateConstants DEF NoCall, Calls
<1>3. TypeOK
  BY <1>1, <1>2 DEF Init, TypeOK
<1>4. Configured /\ BucketFits /\ QuotaHolds /\ ChargedIsForwarded
  BY <1>1 DEF Init, Configured, BucketFits, QuotaHolds, ChargedIsForwarded,
              Saturated, Smaller
<1>5. Refilled <= BurstCapacity(rate) /\ Refilled \in Nat
  BY <1>3, <1>4, RefillBounds
<1>6. rate * 0 = 0
  BY <1>1 DEF Init
<1>7. Budgeted
  BY <1>1, <1>5, <1>6 DEF Init, Budgeted
<1> QED
  BY <1>3, <1>4, <1>7 DEF GateInv

\* The steps that touch neither the gate's state nor the observer.
LEMMA GateUntouched ==
  ASSUME GateInv, TypeOK',
         UNCHANGED <<settings, startUsed, gateState, allowed, window>>
  PROVE  GateInv'
BY DEF GateInv, Configured, BucketFits, QuotaHolds, ChargedIsForwarded,
       Budgeted, Refilled, gateState

\* Entering reserve changes nothing but the call.
LEMMA ReserveInv ==
  ASSUME GateInv, NEW c \in Callers, NEW exact \in BOOLEAN,
         NEW n \in 0 .. (IF exact THEN MaxDatagram ELSE MaxStream),
         Reserve(c, n, exact)
  PROVE  GateInv'
<1>1. [bytes |-> n, exact |-> exact, waiting |-> TRUE] \in Calls
  BY GateConstants DEF Calls
<1>2. TypeOK'
  BY <1>1 DEF Reserve, GateInv, TypeOK, gateState
<1> QED
  BY <1>2, GateUntouched DEF Reserve

\* A refusal charges nothing.
LEMMA RefuseInv ==
  ASSUME GateInv, NEW c \in Callers, Refuse(c)
  PROVE  GateInv'
<1>1. NoCall \in Calls
  BY GateConstants DEF NoCall, Calls
<1>2. TypeOK'
  BY <1>1 DEF Refuse, GateInv, TypeOK, gateState
<1> QED
  BY <1>2, GateUntouched DEF Refuse

\* A charge keeps the quota, and what is charged is what is forwarded.
LEMMA ChargeInv ==
  ASSUME GateInv, NEW c \in Callers, ~Exhausted(c), Charge(c),
         UNCHANGED <<startUsed, limit>>
  PROVE  /\ used' \in 0 .. MaxCount /\ allowed' \in 0 .. MaxCount
         /\ call' \in [Callers -> Calls]
         /\ QuotaHolds'
         /\ ChargedIsForwarded'
<1>1. /\ Desired(c) \in Nat
      /\ Forwardable(c) = Desired(c)
      /\ limit # 0 => used + Desired(c) <= limit
  BY DesiredBounds DEF GateInv
<1>2. NoCall \in Calls
  BY GateConstants DEF NoCall, Calls
<1>3. /\ startUsed \in 0 .. MaxCount /\ used \in 0 .. MaxCount
      /\ allowed \in 0 .. MaxCount /\ limit \in 0 .. MaxCount /\ MaxCount \in Nat
  BY GateConstants DEF GateInv, TypeOK
<1>4. call' \in [Callers -> Calls]
  BY <1>2 DEF GateInv, TypeOK, Charge
<1>5. used' \in 0 .. MaxCount /\ allowed' \in 0 .. MaxCount
  BY <1>1, <1>3 DEF Charge, Saturated, Smaller
<1>6. QuotaHolds'
  BY <1>1, <1>3 DEF GateInv, Charge, QuotaHolds, Saturated, Smaller
<1>7. ChargedIsForwarded'
  BY <1>1, <1>3 DEF GateInv, Charge, ChargedIsForwarded, Saturated, Smaller
<1> QED
  BY <1>4, <1>5, <1>6, <1>7

\* Without a speed limit a grant charges within the quota.
LEMMA GrantUnmeteredInv ==
  ASSUME GateInv, NEW c \in Callers, GrantUnmetered(c)
  PROVE  GateInv'
<1>1. /\ used' \in 0 .. MaxCount /\ allowed' \in 0 .. MaxCount
      /\ call' \in [Callers -> Calls]
      /\ QuotaHolds' /\ ChargedIsForwarded'
  BY ChargeInv DEF GrantUnmetered
<1>2. TypeOK'
  BY <1>1 DEF GrantUnmetered, GateInv, TypeOK
<1>3. (Configured /\ BucketFits /\ Budgeted)'
  BY DEF GrantUnmetered, GateInv, Configured, BucketFits, Budgeted
<1> QED
  BY <1>1, <1>2, <1>3 DEF GateInv

\* A grant takes from the bucket what it adds to the window.
LEMMA GrantMeteredInv ==
  ASSUME GateInv, NEW c \in Callers, GrantMetered(c)
  PROVE  GateInv'
<1>1. /\ used' \in 0 .. MaxCount /\ allowed' \in 0 .. MaxCount
      /\ call' \in [Callers -> Calls]
      /\ QuotaHolds' /\ ChargedIsForwarded'
  BY ChargeInv DEF GrantMetered
<1>2. Desired(c) \in Nat
  BY DesiredBounds DEF GateInv, GrantMetered
<1>3. Refilled \in Nat /\ Refilled <= BurstCapacity(rate)
  BY RefillBounds DEF GateInv
<1>4. BurstCapacity(rate) \in Nat
  BY BurstNat DEF GateInv, TypeOK
<1>5. tokens' \in Nat /\ tokens' <= BurstCapacity(rate)
  BY <1>2, <1>3, <1>4 DEF GrantMetered
<1>6. window' = [granted |-> window.granted + Desired(c), ticks |-> window.ticks]
      /\ window.granted \in Nat /\ window.ticks \in Nat
  BY DEF GrantMetered, GateInv, TypeOK
<1>7. TypeOK'
  BY <1>1, <1>2, <1>5, <1>6 DEF GrantMetered, GateInv, TypeOK
<1>8. Configured' /\ BucketFits'
  BY <1>5 DEF GrantMetered, GateInv, Configured, BucketFits
<1>9. Budgeted'
  <2>1. rate' = rate /\ rate \in Nat /\ elapsed' = 0 /\ rate # 0
    BY DEF GrantMetered, GateInv, TypeOK
  <2>2. tokens' + elapsed' * rate' = Refilled - Desired(c)
    BY <1>2, <1>3, <2>1 DEF GrantMetered
  <2>3. Refilled' = Refilled - Desired(c)
    BY <1>2, <1>3, <1>4, <2>1, <2>2 DEF Refilled, Smaller
  <2>4. window'.granted + Refilled' = window.granted + Refilled
    BY <1>2, <1>3, <1>6, <2>3
  <2>5. window.granted + Refilled <= BurstCapacity(rate) + rate * window.ticks
    BY <2>1 DEF GateInv, Budgeted
  <2> QED
    BY <1>6, <2>1, <2>4, <2>5 DEF Budgeted
<1> QED
  BY <1>1, <1>7, <1>8, <1>9 DEF GateInv

\* A caller that goes to sleep leaves the refill in the bucket.
LEMMA SleepInv ==
  ASSUME GateInv, NEW c \in Callers, Sleep(c)
  PROVE  GateInv'
<1>1. Refilled \in Nat /\ Refilled <= BurstCapacity(rate)
  BY RefillBounds DEF GateInv
<1>2. BurstCapacity(rate) \in Nat
  BY BurstNat DEF GateInv, TypeOK
<1>3. TypeOK'
  BY <1>1 DEF Sleep, GateInv, TypeOK
<1>4. Configured' /\ BucketFits' /\ QuotaHolds' /\ ChargedIsForwarded'
  BY <1>1 DEF Sleep, GateInv, Configured, BucketFits, QuotaHolds,
              ChargedIsForwarded
<1>5. Refilled' = Refilled
  <2>1. tokens' = Refilled /\ elapsed' = 0 /\ rate' = rate /\ rate \in Nat
    BY DEF Sleep, GateInv, TypeOK
  <2>2. tokens' + elapsed' * rate' = Refilled
    BY <1>1, <2>1
  <2> QED
    BY <1>1, <1>2, <2>1, <2>2 DEF Refilled, Smaller
<1>6. Budgeted'
  BY <1>5 DEF Sleep, GateInv, Budgeted
<1> QED
  BY <1>3, <1>4, <1>6 DEF GateInv

\* A tunnel save finds the limits as they are, so it changes nothing.
LEMMA UpdateLimitsInv ==
  ASSUME GateInv, UpdateLimits(settings.limit, settings.rate)
  PROVE  GateInv'
<1>1. UNCHANGED <<settings, startUsed, gateState, call, allowed, window>>
  BY DEF UpdateLimits, GateInv, Configured, gateState
<1>2. TypeOK'
  BY <1>1 DEF GateInv, TypeOK, gateState
<1> QED
  BY <1>1, <1>2, GateUntouched

\* The budget of a window that starts now: the bucket never exceeds the burst.
LEMMA FreshWindow ==
  ASSUME TypeOK, BucketFits, window = [granted |-> 0, ticks |-> 0]
  PROVE  Budgeted
<1>1. Refilled \in Nat /\ Refilled <= BurstCapacity(rate)
  BY RefillBounds
<1>2. BurstCapacity(rate) \in Nat
  BY BurstNat DEF TypeOK
<1>3. rate * 0 = 0 /\ rate \in Nat
  BY DEF TypeOK
<1> QED
  BY <1>1, <1>2, <1>3 DEF Budgeted

\* A tick adds at most one tick of tokens, and one tick to the window.
LEMMA TickInv ==
  ASSUME GateInv, Tick
  PROVE  GateInv'
<1>1. window.granted \in Nat /\ window.ticks \in Nat /\ rate \in Nat
      /\ tokens \in Nat /\ elapsed \in Nat
  BY DEF GateInv, TypeOK
<1>2. TypeOK'
  BY <1>1 DEF Tick, GateInv, TypeOK
<1>3. Configured' /\ BucketFits' /\ QuotaHolds' /\ ChargedIsForwarded'
  BY DEF Tick, GateInv, Configured, BucketFits, QuotaHolds, ChargedIsForwarded
<1>4. Budgeted'
  <2>1. CASE window.ticks < WindowBound
    <3>1. window' = [granted |-> window.granted, ticks |-> window.ticks + 1]
      BY <2>1 DEF Tick, GateInv, TypeOK
    <3>2. Refilled' <= Refilled + rate
      <4>1. BurstCapacity(rate) \in Nat
        BY <1>1, BurstNat
      <4>2. Smaller(tokens + (elapsed + 1) * rate, BurstCapacity(rate))
              <= Smaller(tokens + elapsed * rate, BurstCapacity(rate)) + rate
        BY <1>1, <4>1, RefillStep
      <4> QED
        BY <4>2 DEF Tick, Refilled
    <3>3. Refilled \in Nat /\ Refilled' \in Nat /\ BurstCapacity(rate) \in Nat
      <4>1. (tokens + (elapsed + 1) * rate) \in Nat
        BY <1>1, SMT
      <4>2. BurstCapacity(rate) \in Nat
        BY <1>1, BurstNat
      <4>3. Refilled' = Smaller(tokens + (elapsed + 1) * rate, BurstCapacity(rate))
        BY DEF Tick, Refilled
      <4> QED
        BY <4>1, <4>2, <4>3, RefillBounds DEF Smaller, GateInv
    <3>4. rate * (window.ticks + 1) = rate * window.ticks + rate
          /\ rate * window.ticks \in Nat
      BY <1>1, SMT
    <3>5. rate' = rate
      BY DEF Tick
    <3>6. rate # 0 => window.granted + Refilled <= BurstCapacity(rate) + rate * window.ticks
      BY DEF GateInv, Budgeted
    <3>7. rate # 0 => window.granted + Refilled'
                        <= BurstCapacity(rate) + rate * (window.ticks + 1)
      BY <1>1, <3>2, <3>3, <3>4, <3>6
    <3> QED
      BY <3>1, <3>5, <3>7 DEF Budgeted
  <2>2. CASE ~(window.ticks < WindowBound)
    <3>1. window' = [granted |-> 0, ticks |-> 0]
      BY <2>2 DEF Tick
    <3>2. TypeOK' /\ BucketFits' /\ (window = [granted |-> 0, ticks |-> 0])' => Budgeted'
      BY FreshWindow, PTL
    <3> QED
      BY <1>2, <1>3, <3>1, <3>2
  <2> QED
    BY <2>1, <2>2
<1> QED
  BY <1>2, <1>3, <1>4 DEF GateInv

\* A new window starts with at most a full bucket.
LEMMA MarkInv ==
  ASSUME GateInv, Mark
  PROVE  GateInv'
<1>1. TypeOK'
  BY DEF Mark, GateInv, TypeOK, gateState
<1>2. Configured' /\ BucketFits' /\ QuotaHolds' /\ ChargedIsForwarded'
  BY DEF Mark, GateInv, gateState, Configured, BucketFits, QuotaHolds,
         ChargedIsForwarded
<1>3. TypeOK' /\ BucketFits' /\ (window = [granted |-> 0, ticks |-> 0])' => Budgeted'
  BY FreshWindow, PTL
<1>4. Budgeted'
  BY <1>1, <1>2, <1>3 DEF Mark
<1> QED
  BY <1>1, <1>2, <1>4 DEF GateInv

\* The strengthening of the three safety invariants that is inductive.
THEOREM GateInvariant == Spec => []GateInv
<1>1. GateInv /\ [Next]_vars => GateInv'
  <2> SUFFICES ASSUME GateInv, [Next]_vars PROVE GateInv'
    OBVIOUS
  <2>1. ASSUME NEW c \in Callers, NEW n \in 0 .. MaxStream, Reserve(c, n, FALSE)
        PROVE  GateInv'
    BY <2>1, ReserveInv
  <2>2. ASSUME NEW c \in Callers, NEW n \in 0 .. MaxDatagram, Reserve(c, n, TRUE)
        PROVE  GateInv'
    BY <2>2, ReserveInv
  <2>3. ASSUME NEW c \in Callers, Attempt(c)
        PROVE  GateInv'
    BY <2>3, RefuseInv, GrantUnmeteredInv, GrantMeteredInv, SleepInv DEF Attempt
  <2>4. CASE UpdateLimits(settings.limit, settings.rate)
    BY <2>4, UpdateLimitsInv
  <2>5. CASE Tick
    BY <2>5, TickInv
  <2>6. CASE Mark
    BY <2>6, MarkInv
  <2>7. CASE UNCHANGED vars
    <3>1. TypeOK'
      BY <2>7 DEF vars, gateState, GateInv, TypeOK
    <3> QED
      BY <2>7, <3>1, GateUntouched DEF vars
  <2> QED
    BY <2>1, <2>2, <2>3, <2>4, <2>5, <2>6, <2>7 DEF Next
<1> QED
  BY <1>1, InitGateInv, PTL DEF Spec

\* The state of the gate keeps its types: usage and tokens never go negative
\* (controller.rs GateState, reserve).
THEOREM GateTypeCorrect == Spec => []TypeOK
<1>1. GateInv => TypeOK
  BY DEF GateInv
<1> QED
  BY <1>1, GateInvariant, PTL

\* Any number of callers sharing the gate stay within the user's quota, or
\* within the usage the gate was created with (controller.rs reserve).
THEOREM QuotaTheorem == Spec => []QuotaHolds
<1>1. GateInv => QuotaHolds
  BY DEF GateInv
<1> QED
  BY <1>1, GateInvariant, PTL

\* The usage charged is, to the byte, what callers were told to forward
\* (controller.rs reserve_stream, reserve_datagram).
THEOREM ChargeTheorem == Spec => []ChargedIsForwarded
<1>1. GateInv => ChargedIsForwarded
  BY DEF GateInv
<1> QED
  BY <1>1, GateInvariant, PTL

\* Over any window the callers together get at most one burst and what the
\* rate accrues, whatever tunnel saves happen meanwhile
\* (controller.rs refill_tokens, update_limits).
THEOREM RateTheorem == Spec => []RateHolds
<1>1. GateInv => RateHolds
  <2> SUFFICES ASSUME GateInv PROVE RateHolds
    OBVIOUS
  <2>1. Refilled \in Nat
    BY RefillBounds DEF GateInv
  <2>2. /\ window.granted \in Nat /\ window.ticks \in Nat /\ rate \in Nat
    BY DEF GateInv, TypeOK
  <2>3. BurstCapacity(rate) \in Nat /\ rate * window.ticks \in Nat
    BY <2>2, BurstNat, SMT
  <2> QED
    BY <2>1, <2>2, <2>3 DEF GateInv, Budgeted, RateHolds
<1> QED
  BY <1>1, GateInvariant, PTL
=============================================================================
