------------------------- MODULE RequestLimitsProofs -------------------------
(***************************************************************************)
(* Proofs about MCRequestLimits: RateLimiter, ReplayGuard, and both.       *)
(*                                                                         *)
(* RateLimiter.  A bucket that a cleanup drops was full, so an address     *)
(* without a bucket has its whole budget, as a new one has: the limiter    *)
(* that forgets implements the one that does not.                          *)
(*                                                                         *)
(* ReplayGuard.  The queue is in the order of acceptance, so what is       *)
(* outdated stands in front; a request that was accepted and is in the     *)
(* table no more was outdated when it left, and stays so, or gave way.     *)
(***************************************************************************)
EXTENDS MCRequestLimits, Integers, FiniteSetTheorems, SequenceTheorems,
        WellFoundedInduction, TLAPS

LimiterInv == TypeOK /\ IsFiniteSet(DOMAIN clients)

-----------------------------------------------------------------------------
(* Arithmetic of a bucket.                                                 *)

\* More time refills more.
LEMMA MoreTimeMore ==
  ASSUME NEW x \in Nat, NEW y \in Nat, x >= y, NEW r \in Nat
  PROVE  x * r \in Nat /\ y * r \in Nat /\ x * r >= y * r
<1>1. PICK d \in Nat : x = y + d
  <2>1. x - y \in Nat /\ x = y + (x - y)
    OBVIOUS
  <2> QED
    BY <2>1
<1>2. x * r = y * r + d * r /\ d * r \in Nat /\ y * r \in Nat
  BY <1>1
<1> QED
  BY <1>2

\* A step of time refills once more.
LEMMA OneMoreStep ==
  ASSUME NEW d \in Nat, NEW r \in Nat
  PROVE  (d + 1) * r = d * r + r /\ d * r \in Nat
OBVIOUS

\* A bucket, brought up to the time, holds no less than it did and no more
\* than the budget; one that was not used for IdleTtl is full.
LEMMA RefilledBucket ==
  ASSUME LimiterInv, NEW a \in DOMAIN clients
  PROVE  /\ Refilled(clients[a]) \in 0..Budget
         /\ now - clients[a].updated >= IdleTtl => Refilled(clients[a]) = Budget
<1>1. /\ clients[a].tokens \in 0..Budget /\ clients[a].updated \in 0..now
      /\ now \in Nat /\ now - clients[a].updated \in Nat
  BY DEF LimiterInv, TypeOK
<1>2. /\ Budget \in Nat /\ Refill \in Nat /\ IdleTtl \in Nat
      /\ IdleTtl * Refill >= Budget
  BY LimiterConstants
<1>3. (now - clients[a].updated) * Refill \in Nat
  BY <1>1, <1>2
<1>4. now - clients[a].updated >= IdleTtl
        => (now - clients[a].updated) * Refill >= IdleTtl * Refill /\ IdleTtl * Refill \in Nat
  BY <1>1, <1>2, MoreTimeMore
<1> DEFINE gained == (now - clients[a].updated) * Refill
<1>5. Refilled(clients[a]) = IF Budget < clients[a].tokens + gained
                             THEN Budget ELSE clients[a].tokens + gained
  BY DEF Refilled, Smaller
<1>6. gained \in Nat /\ (now - clients[a].updated >= IdleTtl => gained >= Budget)
  BY <1>2, <1>3, <1>4
<1> HIDE DEF gained
<1> QED
  BY <1>1, <1>2, <1>5, <1>6

\* What a call finds is what the address has, whether it has a bucket, had one
\* or is new.
LEMMA TokensAreAvailable ==
  ASSUME LimiterInv, NEW a \in Addresses
  PROVE  /\ Tokens(a) = Available(a) /\ Tokens(a) \in 0..Budget
         /\ a \notin Kept => Available(a) = Budget
<1>1. Kept \subseteq DOMAIN clients
  BY DEF Kept
<1>2. a \in DOMAIN clients \ Kept => Refilled(clients[a]) = Budget
  <2>1. a \in DOMAIN clients \ Kept => ~ (now - clients[a].updated < IdleTtl)
    BY DEF Kept
  <2>2. a \in DOMAIN clients => now - clients[a].updated \in Int /\ IdleTtl \in Int
    BY LimiterConstants DEF LimiterInv, TypeOK
  <2> QED
    BY <2>1, <2>2, RefilledBucket
<1>3. Budget \in 0..Budget
  BY LimiterConstants
<1> QED
  BY <1>1, <1>2, <1>3, RefilledBucket DEF Tokens, Available

-----------------------------------------------------------------------------
(* The invariant.                                                          *)

\* The table after an address has got its bucket.
LEMMA StoredTable ==
  ASSUME LimiterInv, NEW a \in Addresses, Room(a), NEW tokens \in 0..Budget,
         Store(a, tokens), Cleanup, UNCHANGED now
  PROVE  LimiterInv'
<1>1. /\ DOMAIN clients' = Kept \cup {a}
      /\ clients'[a] = [tokens |-> tokens, updated |-> now]
      /\ \A b \in Kept : b # a => clients'[b] = clients[b]
  BY DEF Store
<1>2. Kept \subseteq DOMAIN clients /\ IsFiniteSet(Kept)
  <2>1. Kept \subseteq DOMAIN clients
    BY DEF Kept
  <2> QED
    BY <2>1, FS_Subset DEF LimiterInv
<1>3. IsFiniteSet(Kept \cup {a}) /\ Cardinality(Kept \cup {a}) <= MaxClients
  <2>1. CASE a \in Kept
    <3>1. Kept \cup {a} = Kept
      BY <2>1
    <3>2. Cardinality(Kept) <= Cardinality(DOMAIN clients)
      BY <1>2, FS_Subset DEF LimiterInv
    <3>3. Cardinality(Kept) \in Nat /\ Cardinality(DOMAIN clients) \in Nat
      BY <1>2, FS_CardinalityType DEF LimiterInv
    <3>4. Cardinality(DOMAIN clients) <= MaxClients
      BY DEF LimiterInv, TypeOK
    <3>5. Cardinality(Kept) <= MaxClients
      BY <3>2, <3>3, <3>4, LimiterConstants
    <3> QED
      BY <1>2, <3>1, <3>5
  <2>2. CASE a \notin Kept
    <3>1. Cardinality(Kept \cup {a}) = Cardinality(Kept) + 1 /\ IsFiniteSet(Kept \cup {a})
      BY <1>2, <2>2, FS_AddElement
    <3>2. Cardinality(Kept) < MaxClients /\ Cardinality(Kept) \in Nat
      BY <1>2, <2>2, FS_CardinalityType DEF Room
    <3> QED
      BY <3>1, <3>2, LimiterConstants
  <2> QED
    BY <2>1, <2>2
<1>4. now \in Nat /\ now' = now /\ cleaned' \in {Never} \cup 0..now'
  BY DEF LimiterInv, TypeOK, Cleanup
<1>5. \A b \in DOMAIN clients' :
        clients'[b].tokens \in 0..Budget /\ clients'[b].updated \in 0..now'
  BY <1>1, <1>2, <1>4 DEF LimiterInv, TypeOK
<1>6. DOMAIN clients' \subseteq Addresses
  BY <1>1, <1>2 DEF LimiterInv, TypeOK
<1> QED
  BY <1>1, <1>3, <1>4, <1>5, <1>6 DEF LimiterInv, TypeOK

\* The empty table.
LEMMA InitInv == Init => LimiterInv
<1>1. Init => DOMAIN clients = {}
  BY DEF Init
<1>2. IsFiniteSet({}) /\ Cardinality({}) = 0
  BY FS_EmptySet
<1> QED
  BY <1>1, <1>2, LimiterConstants DEF Init, LimiterInv, TypeOK

\* Every step keeps it.
LEMMA NextInv == LimiterInv /\ [Next]_vars => LimiterInv'
<1> SUFFICES ASSUME LimiterInv, [Next]_vars PROVE LimiterInv'
  OBVIOUS
<1>1. CASE Tick
  BY <1>1 DEF Tick, LimiterInv, TypeOK
<1>2. ASSUME NEW a \in Addresses, NEW cost \in Costs, Grant(a, cost)
      PROVE  LimiterInv'
  <2>1. Tokens(a) - cost \in 0..Budget
    <3>1. Tokens(a) \in 0..Budget /\ Tokens(a) >= cost /\ cost \in Nat /\ Budget \in Nat
      BY <1>2, TokensAreAvailable, LimiterConstants DEF Grant
    <3> QED
      BY <3>1
  <2> QED
    BY <1>2, <2>1, StoredTable DEF Grant
<1>3. ASSUME NEW a \in Addresses, NEW cost \in Costs, Deny(a, cost)
      PROVE  LimiterInv'
  BY <1>3, TokensAreAvailable, StoredTable DEF Deny
<1>4. ASSUME NEW a \in Addresses, NoRoom(a)
      PROVE  LimiterInv'
  <2>1. Kept \subseteq DOMAIN clients
    BY DEF Kept
  <2>2. /\ DOMAIN clients' = Kept
        /\ \A b \in Kept : clients'[b] = clients[b]
    BY <1>4, <2>1 DEF NoRoom, Restrict
  <2>3. IsFiniteSet(Kept) /\ Cardinality(Kept) <= MaxClients
    <3>1. IsFiniteSet(Kept) /\ Cardinality(Kept) <= Cardinality(DOMAIN clients)
      BY <2>1, FS_Subset DEF LimiterInv
    <3>2. Cardinality(Kept) \in Nat /\ Cardinality(DOMAIN clients) \in Nat
      BY <3>1, FS_CardinalityType DEF LimiterInv
    <3> QED
      BY <3>1, <3>2, LimiterConstants DEF LimiterInv, TypeOK
  <2>4. now' = now /\ now \in Nat /\ cleaned' \in {Never} \cup 0..now'
    <3>1. now' = now /\ Cleanup
      BY <1>4 DEF NoRoom
    <3>2. now \in Nat /\ cleaned \in {Never} \cup 0..now
      BY DEF LimiterInv, TypeOK
    <3> QED
      BY <3>1, <3>2 DEF Cleanup
  <2> QED
    BY <2>1, <2>2, <2>3, <2>4 DEF LimiterInv, TypeOK
<1>5. CASE UNCHANGED vars
  BY <1>5 DEF vars, LimiterInv, TypeOK
<1> QED
  BY <1>1, <1>2, <1>3, <1>4, <1>5 DEF Next

\* The inductive invariant.
THEOREM LimiterInvariant == Spec => []LimiterInv
BY InitInv, NextInv, PTL DEF Spec

\* The variables keep their types, and the table its size
\* (app.rs MAX_RATE_LIMIT_CLIENTS).
THEOREM LimiterTypeCorrect == Spec => []TypeOK
<1>1. LimiterInv => TypeOK
  BY DEF LimiterInv
<1> QED
  BY <1>1, LimiterInvariant, PTL

-----------------------------------------------------------------------------
(* Who keeps the table full.                                               *)

\* The last cleanup left no bucket that was idle for IdleTtl then.
SweptInv ==
    cleaned # Never => \A b \in DOMAIN clients : cleaned - clients[b].updated < IdleTtl

\* A call that changes the table leaves buckets it kept, and perhaps one of now.
LEMMA SweptByCall ==
  ASSUME LimiterInv, SweptInv, Cleanup, UNCHANGED now,
         \A b \in DOMAIN clients' : \/ b \in Kept /\ clients'[b] = clients[b]
                                   \/ clients'[b].updated = now
  PROVE  SweptInv'
<1>1. now \in Nat /\ IdleTtl \in Nat \ {0} /\ cleaned \in {Never} \cup 0..now
  BY LimiterConstants DEF LimiterInv, TypeOK
<1> SUFFICES ASSUME NEW b \in DOMAIN clients', cleaned' # Never
             PROVE  cleaned' - clients'[b].updated < IdleTtl
  BY DEF SweptInv, Never
<1>2. CASE clients'[b].updated = now
  <2>1. cleaned' \in 0..now
    BY <1>1 DEF Cleanup
  <2>2. cleaned' - now < IdleTtl
    BY <1>1, <2>1
  <2> QED
    BY <1>2, <2>2
<1>3. CASE b \in Kept /\ clients'[b] = clients[b]
  <2>1. CASE CleanupDue
    BY <1>3, <2>1 DEF Cleanup, Kept
  <2>2. CASE ~ CleanupDue
    BY <1>3, <2>2 DEF Cleanup, Kept, SweptInv
  <2> QED
    BY <2>1, <2>2
<1> QED
  BY <1>2, <1>3

\* What NoRoom leaves in the table.
LEMMA NoRoomTable ==
  ASSUME NEW a \in Addresses, NoRoom(a)
  PROVE  DOMAIN clients' = Kept /\ \A b \in Kept : clients'[b] = clients[b]
<1>1. Kept \subseteq DOMAIN clients
  BY DEF Kept
<1> QED
  BY <1>1 DEF NoRoom, Restrict

\* A newcomer is turned away only for addresses that have called lately: only
\* calls clean the table, but an idle address does not outlast the next one
\* that is due (app.rs RATE_LIMIT_CLEANUP_INTERVAL).
THEOREM IdleTheorem == Spec => NoRoomForTheIdle
<1> DEFINE Recent == \A a \in Addresses : NoRoom(a) =>
                       \A b \in DOMAIN clients' :
                          now - clients[b].updated < IdleTtl + CleanupInterval
<1>1. Init => SweptInv
  BY DEF Init, SweptInv
<1>2. LimiterInv /\ SweptInv /\ [Next]_vars => SweptInv'
  <2> SUFFICES ASSUME LimiterInv, SweptInv, [Next]_vars PROVE SweptInv'
    OBVIOUS
  <2>1. CASE Tick \/ UNCHANGED vars
    BY <2>1 DEF Tick, vars, SweptInv
  <2>2. ASSUME NEW a \in Addresses, NEW cost \in Costs, Grant(a, cost) \/ Deny(a, cost)
        PROVE  SweptInv'
    <3>1. /\ Cleanup /\ UNCHANGED now
          /\ \A b \in DOMAIN clients' : \/ b \in Kept /\ clients'[b] = clients[b]
                                       \/ clients'[b].updated = now
      BY <2>2 DEF Grant, Deny, Store
    <3> QED
      BY <3>1, SweptByCall
  <2>3. ASSUME NEW a \in Addresses, NoRoom(a) PROVE SweptInv'
    BY <2>3, NoRoomTable, SweptByCall DEF NoRoom
  <2> QED
    BY <2>1, <2>2, <2>3 DEF Next
<1>3. LimiterInv /\ SweptInv => Recent
  <2> SUFFICES ASSUME LimiterInv, SweptInv, NEW a \in Addresses, NoRoom(a), NEW b \in Kept
               PROVE  now - clients[b].updated < IdleTtl + CleanupInterval
    BY NoRoomTable
  <2>1. /\ now \in Nat /\ IdleTtl \in Nat /\ CleanupInterval \in Nat
        /\ cleaned \in {Never} \cup 0..now
    BY LimiterConstants DEF LimiterInv, TypeOK
  <2>2. b \in DOMAIN clients /\ clients[b].updated \in 0..now
    BY DEF Kept, LimiterInv, TypeOK
  <2>3. CASE CleanupDue
    BY <2>1, <2>2, <2>3 DEF Kept
  <2>4. CASE ~ CleanupDue
    BY <2>1, <2>2, <2>4 DEF CleanupDue, SweptInv
  <2> QED
    BY <2>3, <2>4
<1> QED
  BY <1>1, <1>2, <1>3, LimiterInvariant, PTL DEF Spec, NoRoomForTheIdle

-----------------------------------------------------------------------------
(* The refinement.                                                         *)

\* No address has a bucket in the beginning.
LEMMA InitBudget == Init => Promise!Init
BY DEF Init, Promise!Init, Available

\* A call that stores a bucket changes what this address has, and nothing else.
LEMMA StoredBudget ==
  ASSUME LimiterInv, NEW a \in Addresses, NEW tokens \in 0..Budget,
         Store(a, tokens), UNCHANGED now
  PROVE  \A b \in Addresses : Available(b)' = IF b = a THEN tokens ELSE Available(b)
<1>1. /\ DOMAIN clients' = Kept \cup {a}
      /\ clients'[a] = [tokens |-> tokens, updated |-> now]
      /\ \A b \in Kept : b # a => clients'[b] = clients[b]
  BY DEF Store
<1>2. Available(a)' = tokens
  <2>1. Available(a)' = Smaller(Budget, tokens + (now' - now) * Refill)
    BY <1>1 DEF Available, Refilled
  <2>2. now' - now = 0 /\ tokens + 0 * Refill = tokens /\ tokens <= Budget
        /\ tokens \in Nat /\ Budget \in Nat
    BY LimiterConstants DEF LimiterInv, TypeOK
  <2> QED
    BY <2>1, <2>2 DEF Smaller
<1>3. ASSUME NEW b \in Addresses, b # a
      PROVE  Available(b)' = Available(b)
  <2>1. CASE b \in Kept
    BY <1>1, <1>3, <2>1 DEF Available, Refilled, Kept
  <2>2. CASE b \notin Kept
    BY <1>1, <1>3, <2>2, TokensAreAvailable DEF Available
  <2> QED
    BY <2>1, <2>2
<1> QED
  BY <1>2, <1>3

\* Every step is one of the limiter that never forgets, or none.
LEMMA NextBudget == LimiterInv /\ [Next]_vars => [Promise!Next]_(Promise!vars)
<1> SUFFICES ASSUME LimiterInv, [Next]_vars PROVE [Promise!Next]_(Promise!vars)
  OBVIOUS
<1> USE DEF Promise!Next, Promise!vars
<1>1. CASE Tick
  <2>1. ASSUME NEW a \in Addresses
        PROVE  Available(a)' = Smaller(Budget, Available(a) + Refill)
    <3>1. now \in Nat /\ now' = now + 1 /\ clients' = clients /\ Budget \in Nat /\ Refill \in Nat
      BY <1>1, LimiterConstants DEF Tick, LimiterInv, TypeOK
    <3>2. CASE a \in DOMAIN clients
      <4> DEFINE d == now - clients[a].updated
                 t == clients[a].tokens
      <4>1. d \in Nat /\ t \in Nat /\ now' - clients[a].updated = d + 1
        BY <3>1, <3>2 DEF LimiterInv, TypeOK
      <4>2. /\ Available(a) = Smaller(Budget, t + d * Refill)
            /\ Available(a)' = Smaller(Budget, t + (now' - clients[a].updated) * Refill)
        BY <3>1, <3>2 DEF Available, Refilled
      <4> HIDE DEF d, t
      <4>3. (d + 1) * Refill = d * Refill + Refill /\ d * Refill \in Nat
        BY <3>1, <4>1, OneMoreStep
      <4>4. Available(a)' = Smaller(Budget, t + (d * Refill + Refill))
        BY <4>1, <4>2, <4>3
      <4> DEFINE g == d * Refill
      <4>5. g \in Nat /\ Available(a) = Smaller(Budget, t + g)
            /\ Available(a)' = Smaller(Budget, t + (g + Refill))
        BY <4>2, <4>3, <4>4
      <4> HIDE DEF g
      <4> QED
        BY <3>1, <4>1, <4>5 DEF Smaller
    <3>3. CASE a \notin DOMAIN clients
      BY <3>1, <3>3 DEF Available, Smaller
    <3> QED
      BY <3>2, <3>3
  <2>2. answer' = <<>>
    BY <1>1 DEF Tick
  <2>3. Promise!Tick
    BY <2>1, <2>2 DEF Promise!Tick, Promise!Smaller, Smaller
  <2> QED
    BY <2>3
<1>2. ASSUME NEW a \in Addresses, NEW cost \in Costs, Grant(a, cost)
      PROVE  Promise!Next
  <2>1. /\ Tokens(a) = Available(a) /\ Tokens(a) \in 0..Budget /\ Tokens(a) >= cost
        /\ cost \in Nat /\ Budget \in Nat
    BY <1>2, TokensAreAvailable, LimiterConstants DEF Grant
  <2>2. Tokens(a) - cost \in 0..Budget
    BY <2>1
  <2>3. \A b \in Addresses : Available(b)' = IF b = a THEN Available(a) - cost ELSE Available(b)
    BY <1>2, <2>1, <2>2, StoredBudget DEF Grant
  <2>4. Promise!Grant(a, cost)
    BY <1>2, <2>1, <2>3 DEF Promise!Grant, Grant
  <2> QED
    BY <2>4
<1>3. ASSUME NEW a \in Addresses, NEW cost \in Costs, Deny(a, cost)
      PROVE  Promise!Next
  <2>1. Tokens(a) = Available(a) /\ Tokens(a) \in 0..Budget
    BY TokensAreAvailable
  <2>2. \A b \in Addresses : Available(b)' = Available(b)
    BY <1>3, <2>1, StoredBudget DEF Deny
  <2>3. Promise!Deny(a, cost)
    BY <1>3, <2>1, <2>2 DEF Promise!Deny, Deny
  <2> QED
    BY <2>3
<1>4. ASSUME NEW a \in Addresses, NoRoom(a)
      PROVE  Promise!Next
  <2>1. Kept \subseteq DOMAIN clients
    BY DEF Kept
  <2>2. /\ now' = now /\ DOMAIN clients' = Kept
        /\ \A b \in Kept : clients'[b] = clients[b]
    BY <1>4, NoRoomTable DEF NoRoom
  <2>3. ASSUME NEW b \in Addresses PROVE Available(b)' = Available(b)
    <3>1. CASE b \in Kept
      BY <2>1, <2>2, <3>1 DEF Available, Refilled
    <3>2. CASE b \notin Kept
      BY <2>2, <3>2, TokensAreAvailable DEF Available
    <3> QED
      BY <3>1, <3>2
  <2>4. Available(a) = Budget
    BY <1>4, TokensAreAvailable DEF NoRoom, Room
  <2>5. Promise!NoRoom(a)
    BY <1>4, <2>3, <2>4 DEF Promise!NoRoom, NoRoom
  <2> QED
    BY <2>5
<1>5. CASE UNCHANGED vars
  BY <1>5 DEF vars, Available, Refilled
<1> QED
  BY <1>1, <1>2, <1>3, <1>4, <1>5 DEF Next

\* The limiter implements the one that never forgets an address, for any
\* capacity, refill, costs and times in which an idle bucket fills up
\* (app.rs ApiRateLimiter::allow).
THEOREM BudgetTheorem == Spec => ImplementsBudget
<1>1. ImplementsBudget <=> Promise!Init /\ [][Promise!Next]_(Promise!vars)
  BY DEF ImplementsBudget, Promise!Spec
<1> QED
  BY <1>1, InitBudget, NextBudget, LimiterInvariant, PTL DEF Spec

-----------------------------------------------------------------------------
(* ReplayGuard: table and queue.                                           *)

Entries == [at : Nat, key : Requests]

\* A table s and a queue o that hold the same requests, each one once, in the
\* order of their acceptance, which l remembers; none is later than t.
InStep(s, o, l, t) ==
    /\ o \in Seq(Entries)
    /\ s = {o[i].key : i \in 1..Len(o)}
    /\ \A i \in 1..Len(o) : o[i].at <= t /\ o[i].at = l[o[i].key]
    /\ \A i, j \in 1..Len(o) : i < j => o[i].key # o[j].key /\ o[i].at <= o[j].at

\* A request that was accepted and is not in the table s gave way to a younger
\* one, or its memory has lasted its time.
Forgotten(s, l, e, t) ==
    \A r \in Requests \ s : l[r] # -1 => r \in e \/ t - l[r] > Ttl * Second

GuardInv ==
    /\ clock \in Nat
    /\ stamp \in [Requests -> Nat]
    /\ handling \in [Handlers -> Requests \cup {None}]
    /\ checked \in [Handlers -> Nat] /\ \A h \in Handlers : checked[h] <= clock
    /\ last \in [Requests -> Int]
    /\ \A r \in Requests : last[r] >= -1 /\ last[r] <= clock
    /\ evicted \subseteq Requests
    /\ InStep(seen, order, last, clock) /\ Len(order) <= Capacity
    /\ Forgotten(seen, last, evicted, clock)
    /\ \A h \in Handlers : handling[h] # None =>
          Guard!Distance(checked[h] \div Second, stamp[handling[h]]) <= Skew

\* The instance counts as the library does.
LEMMA GuardCounts == \A S : Guard!Cardinality(S) = Cardinality(S)
  BY DEF Guard!Cardinality, Cardinality

\* The least of a set of naturals.
LEMMA LeastNatural ==
  ASSUME NEW S \in SUBSET Nat, S # {}
  PROVE  \E n \in S : \A m \in S : n <= m
<1> DEFINE R == OpToRel(<, Nat)
<1>1. IsWellFoundedOn(R, Nat)
  BY NatLessThanWellFounded
<1>2. \A m, n \in Nat : m < n => <<m, n>> \in R
  BY DEF OpToRel
<1> HIDE DEF R
<1>3. PICK n \in S : \A m \in S : ~ (<<m, n>> \in R)
  BY <1>1, WFMin
<1>4. ASSUME NEW m \in S PROVE n <= m
  <2>1. ~ (m < n)
    BY <1>2, <1>3
  <2> QED
    BY <2>1
<1> QED
  BY <1>4

\* Table and queue are of one size.
LEMMA SizeOfTable ==
  ASSUME NEW s, NEW o, NEW l, NEW t, InStep(s, o, l, t)
  PROVE  IsFiniteSet(s) /\ Cardinality(s) = Len(o) /\ s \subseteq Requests
<1>1. Len(o) \in Nat /\ \A i \in 1..Len(o) : o[i].key \in Requests
  <2>1. o \in Seq(Entries)
    BY DEF InStep
  <2>2. Len(o) \in Nat /\ \A i \in 1..Len(o) : o[i] \in Entries
    BY <2>1
  <2> QED
    BY <2>2 DEF Entries
<1> DEFINE f == [i \in 1..Len(o) |-> o[i].key]
<1>2. \A i, j \in 1..Len(o) : i # j => o[i].key # o[j].key
  <2> SUFFICES ASSUME NEW i \in 1..Len(o), NEW j \in 1..Len(o), i # j
               PROVE  o[i].key # o[j].key
    OBVIOUS
  <2>1. i < j \/ j < i
    BY <1>1
  <2> QED
    BY <2>1 DEF InStep
<1>3. f \in Bijection(1..Len(o), s)
  BY <1>2 DEF InStep, Bijection, Injection, Surjection, IsInjective
<1>4. IsFiniteSet(1..Len(o)) /\ Cardinality(1..Len(o)) = Len(o)
  BY <1>1, FS_Interval
<1> QED
  BY <1>1, <1>3, <1>4, FS_Bijection DEF ExistsBijection, InStep

\* How many entries are taken from the front (app.rs ReplayGuard::accept):
\* all that are outdated, and no other, since the older ones are in front.
LEMMA WhatIsOutdated ==
  ASSUME order \in Seq(Entries)
  PROVE  /\ Guard!OutdatedCount \in 0..Len(order)
         /\ \A i \in 1..Guard!OutdatedCount : Guard!Outdated(order[i])
         /\ \/ Guard!OutdatedCount = Len(order)
            \/ ~ Guard!Outdated(order[Guard!OutdatedCount + 1])
<1> DEFINE Stops(n) == n = Len(order) \/ ~ Guard!Outdated(order[n + 1])
           S == {n \in 0..Len(order) : Stops(n)}
<1>1. Len(order) \in Nat
  OBVIOUS
<1>2. Len(order) \in S
  BY <1>1
<1>3. S \in SUBSET Nat /\ S # {}
  BY <1>1, <1>2
<1>4. PICK n \in S : \A m \in S : n <= m
  BY <1>3, LeastNatural
<1>5. n \in 0..Len(order) /\ Stops(n)
  BY <1>4
<1>6. ASSUME NEW i \in 1..n PROVE Guard!Outdated(order[i])
  <2>1. i - 1 \in 0..Len(order) /\ i - 1 # Len(order) /\ (i - 1) + 1 = i /\ ~ (n <= i - 1)
    BY <1>1, <1>5
  <2>2. i - 1 \notin S
    BY <1>4, <2>1
  <2>3. ~ Stops(i - 1)
    BY <2>1, <2>2
  <2> QED
    BY <2>1, <2>3
<1>7. \E m \in 0..Len(order) : /\ \A i \in 1..m : Guard!Outdated(order[i])
                               /\ m = Len(order) \/ ~ Guard!Outdated(order[m + 1])
  BY <1>5, <1>6
<1> QED
  BY <1>7 DEF Guard!OutdatedCount

\* What remains is the end of the queue, and in step.
LEMMA RemainingInStep ==
  ASSUME GuardInv
  PROVE  /\ InStep(Guard!RemainingSeen, Guard!RemainingOrder, last, clock)
         /\ Len(Guard!RemainingOrder) \in 0..Capacity
         /\ Guard!RemainingSeen \subseteq seen
         /\ \A r \in seen \ Guard!RemainingSeen : clock - last[r] > Ttl * Second
         /\ \A r \in Guard!RemainingSeen : last[r] >= 0 /\ clock - last[r] <= Ttl * Second
<1> DEFINE n == Guard!OutdatedCount
           rest == Guard!RemainingOrder
<1>1. /\ order \in Seq(Entries) /\ seen = {order[i].key : i \in 1..Len(order)}
      /\ \A i \in 1..Len(order) : order[i].at <= clock /\ order[i].at = last[order[i].key]
      /\ \A i, j \in 1..Len(order) : i < j => /\ order[i].key # order[j].key
                                              /\ order[i].at <= order[j].at
  BY DEF GuardInv, InStep
<1>2. Len(order) \in Nat /\ Len(order) <= Capacity /\ Capacity \in Nat
  BY <1>1, GuardConstants DEF GuardInv
<1>3. \A i \in 1..Len(order) : order[i] \in Entries
  BY <1>1
<1>4. \A i \in 1..Len(order) : order[i].at \in Nat /\ order[i].key \in Requests
  BY <1>3 DEF Entries
<1>5. n \in 0..Len(order)
  BY <1>1, WhatIsOutdated
<1>6. \A i \in 1..n : clock - order[i].at > Ttl * Second
  BY <1>1, WhatIsOutdated DEF Guard!Outdated
<1>7. n = Len(order) \/ ~ (clock - order[n + 1].at > Ttl * Second)
  BY <1>1, WhatIsOutdated DEF Guard!Outdated
<1>8. Guard!KeysOf(SubSeq(order, 1, n)) = {order[i].key : i \in 1..n}
  <2> DEFINE front == SubSeq(order, 1, n)
  <2>1. \A i \in 1..n : order[i] \in Entries
    BY <1>2, <1>3, <1>5
  <2>2. front \in Seq(Entries) /\ Len(front) = n /\ \A i \in 1..n : front[i] = order[i]
    BY <1>2, <1>5, <2>1, SubSeqProperties
  <2>3. DOMAIN front = 1..n
    BY <2>2
  <2> HIDE DEF front
  <2>4. {front[i].key : i \in DOMAIN front} = {order[i].key : i \in 1..n}
    BY <2>2, <2>3
  <2> QED
    BY <2>4 DEF Guard!KeysOf, front
<1>9. /\ rest \in Seq(Entries) /\ Len(rest) = Len(order) - n
      /\ \A i \in 1..Len(rest) : n + i \in 1..Len(order) /\ rest[i] = order[n + i]
  <2>1. \A i \in (n + 1)..Len(order) : order[i] \in Entries
    BY <1>2, <1>3, <1>5
  <2>2. n + 1 \in Int /\ Len(order) \in Int
    BY <1>2, <1>5
  <2>3. /\ rest \in Seq(Entries)
        /\ Len(rest) = IF n + 1 <= Len(order) THEN Len(order) - (n + 1) + 1 ELSE 0
        /\ \A i \in 1..(Len(order) - (n + 1) + 1) : rest[i] = order[(n + 1) + i - 1]
    BY <2>1, <2>2, SubSeqProperties DEF Guard!RemainingOrder
  <2>4. Len(rest) = Len(order) - n
    BY <1>2, <1>5, <2>3
  <2>5. ASSUME NEW i \in 1..Len(rest) PROVE n + i \in 1..Len(order) /\ rest[i] = order[n + i]
    <3>1. i \in 1..(Len(order) - (n + 1) + 1) /\ n + i \in 1..Len(order) /\ (n + 1) + i - 1 = n + i
      BY <1>2, <1>5, <2>4
    <3> QED
      BY <2>3, <3>1
  <2> QED
    BY <2>3, <2>4, <2>5
<1> HIDE DEF n, rest
<1>10. \A i \in 1..Len(order) : i <= n \/ (i - n \in 1..Len(rest) /\ rest[i - n] = order[i])
  <2> SUFFICES ASSUME NEW i \in 1..Len(order), ~ (i <= n)
               PROVE  i - n \in 1..Len(rest) /\ rest[i - n] = order[i]
    OBVIOUS
  <2>1. i - n \in 1..Len(rest) /\ n + (i - n) = i
    BY <1>2, <1>5, <1>9
  <2> QED
    BY <1>9, <2>1
<1>11. Guard!RemainingSeen = {rest[i].key : i \in 1..Len(rest)}
  <2>1. Guard!RemainingSeen = seen \ {order[i].key : i \in 1..n}
    BY <1>8 DEF Guard!RemainingSeen, n
  <2>2. ASSUME NEW i \in 1..Len(rest) PROVE rest[i].key \in seen \ {order[j].key : j \in 1..n}
    <3>1. n + i \in 1..Len(order) /\ rest[i].key = order[n + i].key
      BY <1>9
    <3>2. ASSUME NEW j \in 1..n PROVE order[j].key # order[n + i].key
      <4>1. j \in 1..Len(order) /\ j < n + i
        BY <1>2, <1>5, <3>1
      <4> QED
        BY <1>1, <3>1, <4>1
    <3> QED
      BY <1>1, <3>1, <3>2
  <2>3. ASSUME NEW r \in seen \ {order[j].key : j \in 1..n}
        PROVE  \E i \in 1..Len(rest) : rest[i].key = r
    <3>1. PICK i \in 1..Len(order) : order[i].key = r
      BY <1>1
    <3>2. ~ (i <= n)
      BY <1>2, <1>5, <3>1
    <3> QED
      BY <1>10, <3>1, <3>2
  <2> QED
    BY <2>1, <2>2, <2>3
<1>12. \A i \in 1..Len(rest) : rest[i].at <= clock /\ rest[i].at = last[rest[i].key]
  BY <1>1, <1>9
<1>13. ASSUME NEW i \in 1..Len(rest), NEW j \in 1..Len(rest), i < j
       PROVE  rest[i].key # rest[j].key /\ rest[i].at <= rest[j].at
  <2>1. n + i \in 1..Len(order) /\ n + j \in 1..Len(order)
    BY <1>9
  <2>2. n + i < n + j
    <3>1. Len(rest) \in Nat /\ n \in Nat
      BY <1>2, <1>5, <1>9
    <3>2. i \in Int /\ j \in Int /\ i < j
      BY <1>13, <3>1
    <3> QED
      BY <3>1, <3>2
  <2>3. rest[i] = order[n + i] /\ rest[j] = order[n + j]
    BY <1>9
  <2> QED
    BY <1>1, <2>1, <2>2, <2>3
<1>14. InStep(Guard!RemainingSeen, rest, last, clock)
  BY <1>9, <1>11, <1>12, <1>13 DEF InStep
<1>15. Len(rest) \in 0..Capacity
  BY <1>2, <1>5, <1>9
<1>16. Guard!RemainingSeen \subseteq seen
  BY DEF Guard!RemainingSeen
<1>17. ASSUME NEW r \in seen \ Guard!RemainingSeen PROVE clock - last[r] > Ttl * Second
  <2>1. PICK i \in 1..Len(order) : order[i].key = r
    BY <1>1
  <2>2. i \in 1..n
    BY <1>2, <1>5, <1>10, <1>11, <2>1
  <2> QED
    BY <1>1, <1>6, <2>1, <2>2
<1>18. ASSUME NEW r \in Guard!RemainingSeen
       PROVE  last[r] >= 0 /\ clock - last[r] <= Ttl * Second
  <2>1. PICK i \in 1..Len(rest) : rest[i].key = r
    BY <1>11
  <2>2. n + i \in 1..Len(order) /\ last[r] = order[n + i].at
    BY <1>1, <1>9, <2>1
  <2>3. n + 1 \in 1..Len(order) /\ order[n + 1].at <= order[n + i].at
    <3>1. n + 1 \in 1..Len(order) /\ (n + 1 = n + i \/ n + 1 < n + i)
      BY <1>2, <1>5, <2>2
    <3> QED
      BY <1>1, <1>4, <2>2, <3>1
  <2>4. clock - order[n + 1].at <= Ttl * Second
    <3>1. n # Len(order)
      BY <1>2, <1>5, <2>3
    <3>2. clock \in Nat /\ order[n + 1].at \in Nat /\ Ttl * Second \in Nat
      BY <1>4, <2>3, GuardConstants DEF GuardInv
    <3> QED
      BY <1>7, <3>1, <3>2
  <2> QED
    BY <1>4, <2>2, <2>3, <2>4, GuardConstants DEF GuardInv
<1> QED
  BY <1>14, <1>15, <1>16, <1>17, <1>18 DEF rest

\* A request that is not in the table is put at the end.
LEMMA Pushed ==
  ASSUME NEW s, NEW o, NEW l \in [Requests -> Int], NEW t \in Nat, InStep(s, o, l, t),
         NEW r \in Requests, r \notin s,
         NEW entry \in Entries, entry.at = t, entry.key = r,
         NEW times \in [Requests -> Int], times[r] = t, \A q \in s : times[q] = l[q]
  PROVE  /\ InStep(s \cup {r}, Append(o, entry), times, t)
         /\ Len(Append(o, entry)) = Len(o) + 1
<1> DEFINE new == Append(o, entry)
<1>1. o \in Seq(Entries) /\ s = {o[i].key : i \in 1..Len(o)}
  BY DEF InStep
<1>2. /\ new \in Seq(Entries) /\ Len(new) = Len(o) + 1 /\ Len(o) \in Nat
      /\ \A i \in 1..Len(o) : new[i] = o[i]
      /\ new[Len(o) + 1] = entry
  BY <1>1, AppendProperties
<1>3. entry.at = t /\ entry.key = r /\ times[r] = t /\ \A q \in s : times[q] = l[q]
  OBVIOUS
<1> HIDE DEF new
<1>4. \A i \in 1..Len(new) : i \in 1..Len(o) \/ i = Len(o) + 1
  BY <1>2
<1>5. \A i \in 1..Len(o) : i \in 1..Len(new)
  BY <1>2
<1>6. s \cup {r} = {new[i].key : i \in 1..Len(new)}
  <2>1. Len(o) + 1 \in 1..Len(new)
    BY <1>2
  <2>2. \A i \in 1..Len(o) : new[i].key = o[i].key
    BY <1>2
  <2>3. new[Len(o) + 1].key = r
    BY <1>2, <1>3
  <2>4. \A i \in 1..Len(new) : new[i].key \in s \cup {r}
    BY <1>1, <1>4, <2>2, <2>3
  <2>5. \A q \in s \cup {r} : \E i \in 1..Len(new) : new[i].key = q
    <3>1. ASSUME NEW q \in s PROVE \E i \in 1..Len(new) : new[i].key = q
      <4>1. PICK i \in 1..Len(o) : o[i].key = q
        BY <1>1
      <4> QED
        BY <1>5, <2>2, <4>1
    <3> QED
      BY <2>1, <2>3, <3>1
  <2> QED
    BY <2>4, <2>5
<1>7. ASSUME NEW i \in 1..Len(new) PROVE new[i].at <= t /\ new[i].at = times[new[i].key]
  <2>1. CASE i \in 1..Len(o)
    <3>1. o[i].key \in s
      BY <1>1, <2>1
    <3> QED
      BY <1>2, <1>3, <2>1, <3>1 DEF InStep
  <2>2. CASE i = Len(o) + 1
    BY <1>2, <1>3, <2>2
  <2> QED
    BY <1>4, <2>1, <2>2
<1>8. ASSUME NEW i \in 1..Len(new), NEW j \in 1..Len(new), i < j
      PROVE  new[i].key # new[j].key /\ new[i].at <= new[j].at
  <2>1. i \in 1..Len(o)
    <3>1. Len(o) \in Nat /\ Len(new) = Len(o) + 1
      BY <1>2
    <3> QED
      BY <1>8, <3>1
  <2>2. CASE j \in 1..Len(o)
    <3>1. o[i].key # o[j].key /\ o[i].at <= o[j].at
      BY <1>8, <2>1, <2>2 DEF InStep
    <3> QED
      BY <1>2, <2>1, <2>2, <3>1
  <2>3. CASE j = Len(o) + 1
    <3>1. o[i].key \in s /\ o[i].at <= t
      BY <1>1, <2>1 DEF InStep
    <3> QED
      BY <1>2, <1>3, <2>1, <2>3, <3>1
  <2> QED
    BY <1>4, <2>2, <2>3
<1>9. InStep(s \cup {r}, new, times, t)
  BY <1>2, <1>6, <1>7, <1>8 DEF InStep
<1> QED
  BY <1>2, <1>9 DEF new

\* The oldest request is taken out.
LEMMA Popped ==
  ASSUME NEW s, NEW o, NEW l, NEW t, InStep(s, o, l, t), o # <<>>
  PROVE  /\ Head(o).key \in s
         /\ InStep(s \ {Head(o).key}, Tail(o), l, t)
         /\ Len(Tail(o)) = Len(o) - 1 /\ Len(o) \in Nat
<1> DEFINE rest == Tail(o)
<1>1. o \in Seq(Entries) /\ s = {o[i].key : i \in 1..Len(o)}
  BY DEF InStep
<1>2. Len(o) \in Nat /\ Len(o) # 0 /\ 1 \in 1..Len(o) /\ Head(o) = o[1]
  BY <1>1
<1>3. /\ rest \in Seq(Entries) /\ Len(rest) = Len(o) - 1
      /\ \A i \in 1..Len(rest) : rest[i] = o[i + 1]
  BY <1>1, HeadTailProperties
<1> HIDE DEF rest
<1>4. \A i \in 1..Len(rest) : i + 1 \in 1..Len(o) /\ 1 < i + 1
  BY <1>2, <1>3
<1>5. \A i \in 1..Len(o) : i = 1 \/ (i - 1 \in 1..Len(rest) /\ rest[i - 1] = o[i])
  <2> SUFFICES ASSUME NEW i \in 1..Len(o), i # 1
               PROVE  i - 1 \in 1..Len(rest) /\ rest[i - 1] = o[i]
    OBVIOUS
  <2>1. i - 1 \in 1..Len(rest) /\ (i - 1) + 1 = i
    BY <1>2, <1>3
  <2> QED
    BY <1>3, <2>1
<1>6. s \ {Head(o).key} = {rest[i].key : i \in 1..Len(rest)}
  <2>1. ASSUME NEW i \in 1..Len(rest) PROVE rest[i].key \in s \ {Head(o).key}
    BY <1>1, <1>2, <1>3, <1>4 DEF InStep
  <2>2. ASSUME NEW r \in s \ {Head(o).key} PROVE \E i \in 1..Len(rest) : rest[i].key = r
    <3>1. PICK i \in 1..Len(o) : o[i].key = r
      BY <1>1
    <3> QED
      BY <1>2, <1>5, <3>1
  <2> QED
    BY <2>1, <2>2
<1>7. \A i \in 1..Len(rest) : rest[i].at <= t /\ rest[i].at = l[rest[i].key]
  BY <1>3, <1>4 DEF InStep
<1>8. ASSUME NEW i \in 1..Len(rest), NEW j \in 1..Len(rest), i < j
      PROVE  rest[i].key # rest[j].key /\ rest[i].at <= rest[j].at
  <2>1. i + 1 \in 1..Len(o) /\ j + 1 \in 1..Len(o)
    BY <1>4
  <2>2. i + 1 < j + 1
    <3>1. Len(rest) \in Nat
      BY <1>3
    <3> QED
      BY <1>8, <3>1
  <2>3. o[i + 1].key # o[j + 1].key /\ o[i + 1].at <= o[j + 1].at
    BY <2>1, <2>2 DEF InStep
  <2> QED
    BY <1>3, <2>3
<1>9. InStep(s \ {Head(o).key}, rest, l, t)
  BY <1>3, <1>6, <1>7, <1>8 DEF InStep
<1> QED
  BY <1>1, <1>2, <1>3, <1>9 DEF rest

-----------------------------------------------------------------------------
(* ReplayGuard: steps.                                                     *)

LEMMA GuardInit == Guard!Init => GuardInv
<1> SUFFICES ASSUME Guard!Init PROVE GuardInv
  OBVIOUS
<1>1. InStep(seen, order, last, clock) /\ Len(order) = 0
  BY DEF Guard!Init, InStep
<1>2. stamp \in [Requests -> Nat] /\ Capacity \in Nat
  BY GuardConstants DEF Guard!Init
<1>3. /\ clock = 0 /\ evicted = {} /\ last = [r \in Requests |-> -1]
      /\ handling = [h \in Handlers |-> None] /\ checked = [h \in Handlers |-> 0]
  BY DEF Guard!Init
<1>4. Forgotten(seen, last, evicted, clock)
  BY <1>3 DEF Forgotten
<1> QED
  BY <1>1, <1>2, <1>3, <1>4 DEF GuardInv

\* A request that arrives has passed the freshness test (crypto.rs
\* decrypt_payload).
LEMMA ReceiveInv ==
  ASSUME GuardInv, NEW h \in Handlers, NEW r \in Requests, Guard!Receive(h, r)
  PROVE  GuardInv'
<1>1. /\ handling' = [handling EXCEPT ![h] = r] /\ checked' = [checked EXCEPT ![h] = clock]
      /\ Guard!Distance(clock \div Second, stamp[r]) <= Skew
      /\ UNCHANGED <<clock, stamp, seen, order, last, evicted>>
  BY DEF Guard!Receive, Guard!Fresh
<1>2. /\ handling' \in [Handlers -> Requests \cup {None}] /\ checked' \in [Handlers -> Nat]
      /\ \A g \in Handlers : checked'[g] <= clock
  BY <1>1 DEF GuardInv
<1>3. \A g \in Handlers : handling'[g] # None =>
          Guard!Distance(checked'[g] \div Second, stamp[handling'[g]]) <= Skew
  <2> SUFFICES ASSUME NEW g \in Handlers, handling'[g] # None
               PROVE  Guard!Distance(checked'[g] \div Second, stamp[handling'[g]]) <= Skew
    OBVIOUS
  <2>1. CASE g = h
    <3>1. checked'[g] = clock /\ handling'[g] = r
      BY <1>1, <2>1 DEF GuardInv
    <3> QED
      BY <1>1, <3>1
  <2>2. CASE g # h
    <3>1. checked'[g] = checked[g] /\ handling'[g] = handling[g]
      BY <1>1, <2>2 DEF GuardInv
    <3> QED
      BY <3>1 DEF GuardInv
  <2> QED
    BY <2>1, <2>2
<1>4. InStep(seen, order, last, clock)' /\ Forgotten(seen, last, evicted, clock)'
  BY <1>1 DEF GuardInv, InStep, Forgotten
<1>5. (\A g \in Handlers : handling[g] # None =>
          Guard!Distance(checked[g] \div Second, stamp[handling[g]]) <= Skew)'
  BY <1>1, <1>3 DEF Guard!Distance
<1> QED
  BY <1>1, <1>2, <1>4, <1>5 DEF GuardInv

\* A handler that is done holds nothing.
LEMMA DoneInv ==
  ASSUME GuardInv, NEW h \in Handlers, Guard!Done(h), clock' = clock, stamp' = stamp
  PROVE  /\ clock' \in Nat /\ stamp' \in [Requests -> Nat]
         /\ handling' \in [Handlers -> Requests \cup {None}]
         /\ checked' \in [Handlers -> Nat] /\ \A g \in Handlers : checked'[g] <= clock'
         /\ (\A g \in Handlers : handling[g] # None =>
               Guard!Distance(checked[g] \div Second, stamp[handling[g]]) <= Skew)'
<1>1. handling' = [handling EXCEPT ![h] = None] /\ checked' = [checked EXCEPT ![h] = 0]
  BY DEF Guard!Done
<1>2. /\ handling' \in [Handlers -> Requests \cup {None}] /\ checked' \in [Handlers -> Nat]
      /\ \A g \in Handlers : checked'[g] <= clock
  BY <1>1 DEF GuardInv
<1>3. ASSUME NEW g \in Handlers, handling'[g] # None
      PROVE  Guard!Distance(checked'[g] \div Second, stamp'[handling'[g]]) <= Skew
  <2>1. handling'[g] = handling[g] /\ checked'[g] = checked[g]
    BY <1>1, <1>3 DEF GuardInv
  <2> QED
    BY <1>3, <2>1 DEF GuardInv
<1> QED
  BY <1>2, <1>3 DEF GuardInv, Guard!Distance

\* A duplicate is refused; what is outdated leaves table and queue.
LEMMA RefuseInv ==
  ASSUME GuardInv, NEW h \in Handlers, Guard!Refuse(h)
  PROVE  GuardInv'
<1>1. /\ seen' = Guard!RemainingSeen /\ order' = Guard!RemainingOrder /\ Guard!Done(h)
      /\ UNCHANGED <<clock, stamp, last, evicted>>
  BY DEF Guard!Refuse
<1>2. InStep(seen, order, last, clock)' /\ Len(order)' <= Capacity
  <2>1. /\ InStep(Guard!RemainingSeen, Guard!RemainingOrder, last, clock)
        /\ Len(Guard!RemainingOrder) \in 0..Capacity
    BY RemainingInStep
  <2>2. InStep(seen', order', last', clock')
    BY <1>1, <2>1
  <2>3. Len(order') <= Capacity
    BY <1>1, <2>1, GuardConstants
  <2> QED
    BY <2>2, <2>3 DEF InStep
<1>3. Forgotten(seen, last, evicted, clock)'
  BY <1>1, RemainingInStep DEF GuardInv, Forgotten
<1> QED
  BY <1>1, <1>2, <1>3, DoneInv DEF GuardInv

\* A request is accepted, and at capacity the oldest gives way (app.rs
\* ReplayGuard::accept).
LEMMA AcceptInv ==
  ASSUME GuardInv, NEW h \in Handlers, Guard!Accept(h)
  PROVE  GuardInv'
<1> DEFINE r == handling[h]
           rest == Guard!RemainingOrder
           left == Guard!RemainingSeen
           entry == [at |-> clock, key |-> r]
           times == [last EXCEPT ![r] = clock]
           full == Cardinality(left \cup {r}) > Capacity /\ rest # <<>>
<1>1. /\ r # None /\ r \notin left
      /\ last' = times /\ Guard!Done(h) /\ clock' = clock /\ stamp' = stamp
      /\ IF full
         THEN /\ seen' = (left \cup {r}) \ {Head(rest).key}
              /\ order' = Append(Tail(rest), entry)
              /\ evicted' = (evicted \ {r}) \cup {Head(rest).key}
         ELSE /\ seen' = left \cup {r}
              /\ order' = Append(rest, entry)
              /\ evicted' = evicted \ {r}
  BY GuardCounts DEF Guard!Accept, Guard!Remember
<1>2. r \in Requests \ left
  BY <1>1 DEF GuardInv
<1>3. clock \in Nat /\ last \in [Requests -> Int] /\ evicted \subseteq Requests
  BY DEF GuardInv
<1>4. times \in [Requests -> Int] /\ \A q \in Requests : times[q] >= -1 /\ times[q] <= clock
  BY <1>2, <1>3 DEF GuardInv
<1>5. InStep(left, rest, last, clock) /\ Len(rest) \in 0..Capacity /\ Capacity \in Nat \ {0}
  BY RemainingInStep, GuardConstants
<1>6. Forgotten(left, last, evicted, clock)
  BY RemainingInStep DEF GuardInv, Forgotten
<1>7. /\ times[r] = clock /\ \A q \in Requests \ {r} : times[q] = last[q]
      /\ entry \in Entries /\ entry.at = clock /\ entry.key = r
  BY <1>2, <1>3 DEF Entries
<1>8. CASE full
  <2> DEFINE oldest == Head(rest).key
  <2>1. /\ seen' = (left \cup {r}) \ {oldest} /\ order' = Append(Tail(rest), entry)
        /\ evicted' = (evicted \ {r}) \cup {oldest}
    BY <1>1, <1>8
  <2>2. /\ oldest \in left /\ InStep(left \ {oldest}, Tail(rest), last, clock)
        /\ Len(Tail(rest)) = Len(rest) - 1 /\ Len(rest) \in Nat
    BY <1>5, <1>8, Popped
  <2>3. left \subseteq Requests
    BY <1>5, SizeOfTable
  <2> HIDE DEF oldest, rest, left, r
  <2>4. r # oldest /\ r \in Requests \ (left \ {oldest}) /\ oldest \in Requests
    BY <1>1, <1>2, <2>2, <2>3
  <2>5. /\ InStep((left \ {oldest}) \cup {r}, order', times, clock)
        /\ Len(order') = Len(Tail(rest)) + 1
    <3>1. r \in Requests /\ r \notin left \ {oldest} /\ times \in [Requests -> Int]
      BY <1>4, <2>4
    <3>2. /\ InStep(left \ {oldest}, Tail(rest), last, clock)
          /\ \A q \in left \ {oldest} : times[q] = last[q]
      BY <1>1, <1>7, <2>2, <2>3
    <3> HIDE DEF entry, times
    <3>3. /\ InStep((left \ {oldest}) \cup {r}, Append(Tail(rest), entry), times, clock)
          /\ Len(Append(Tail(rest), entry)) = Len(Tail(rest)) + 1
      BY <1>3, <1>7, <3>1, <3>2, Pushed
    <3> QED
      BY <2>1, <3>3
  <2>6. seen' = (left \ {oldest}) \cup {r}
    BY <2>1, <2>4
  <2>7. InStep(seen', order', times, clock) /\ Len(order') <= Capacity
    BY <1>5, <2>2, <2>5, <2>6
  <2>8. Forgotten(seen', times, evicted', clock)
    BY <1>6, <1>7, <2>1, <2>4, <2>6 DEF Forgotten
  <2>9. evicted' \subseteq Requests
    BY <1>3, <2>1, <2>4
  <2>10. InStep(seen, order, last, clock)' /\ Forgotten(seen, last, evicted, clock)'
    BY <1>1, <2>7, <2>8 DEF InStep, Forgotten
  <2> QED
    BY <1>1, <1>4, <2>7, <2>9, <2>10, DoneInv DEF GuardInv
<1>9. CASE ~ full
  <2>1. seen' = left \cup {r} /\ order' = Append(rest, entry) /\ evicted' = evicted \ {r}
    BY <1>1, <1>9
  <2>2. InStep(seen', order', times, clock) /\ Len(order') = Len(rest) + 1
    <3>1. r \in Requests /\ r \notin left /\ times \in [Requests -> Int]
      BY <1>2, <1>4
    <3>2. InStep(left, rest, last, clock) /\ \A q \in left : times[q] = last[q]
      <4>1. left \subseteq Requests
        BY <1>5, SizeOfTable
      <4> QED
        BY <1>5, <1>7, <3>1, <4>1
    <3> HIDE DEF entry, times, rest, left, r
    <3>3. /\ InStep(left \cup {r}, Append(rest, entry), times, clock)
          /\ Len(Append(rest, entry)) = Len(rest) + 1
      BY <1>3, <1>7, <3>1, <3>2, Pushed
    <3> QED
      BY <2>1, <3>3
  <2>3. Len(rest) + 1 <= Capacity
    <3>1. CASE rest = <<>>
      BY <1>5, <3>1
    <3>2. CASE Cardinality(left \cup {r}) <= Capacity
      <4>1. IsFiniteSet(left) /\ Cardinality(left) = Len(rest)
        BY <1>5, SizeOfTable
      <4>2. Cardinality(left \cup {r}) = Cardinality(left) + 1
        BY <1>2, <4>1, FS_AddElement
      <4> QED
        BY <3>2, <4>1, <4>2
    <3>3. Cardinality(left \cup {r}) \in Nat
      <4>1. IsFiniteSet(left)
        BY <1>5, SizeOfTable
      <4> QED
        BY <4>1, FS_AddElement, FS_CardinalityType
    <3> QED
      BY <1>5, <1>9, <3>1, <3>2, <3>3
  <2> HIDE DEF rest, left, r
  <2>4. Forgotten(seen', times, evicted', clock)
    BY <1>6, <1>7, <2>1 DEF Forgotten
  <2>5. evicted' \subseteq Requests /\ Len(order') <= Capacity
    BY <1>3, <2>1, <2>2, <2>3
  <2>6. InStep(seen, order, last, clock)' /\ Forgotten(seen, last, evicted, clock)'
    BY <1>1, <2>2, <2>4 DEF InStep, Forgotten
  <2> QED
    BY <1>1, <1>4, <2>5, <2>6, DoneInv DEF GuardInv
<1> QED
  BY <1>8, <1>9

\* Time passes: what is outdated stays so.
LEMMA TickInv ==
  ASSUME GuardInv, Guard!Tick
  PROVE  GuardInv'
<1>1. clock' = clock + 1 /\ clock \in Nat /\ Ttl * Second \in Nat
      /\ UNCHANGED <<stamp, handling, checked, seen, order, last, evicted>>
  BY GuardConstants DEF Guard!Tick, GuardInv
<1>2. (\A r \in Requests : last[r] >= -1 /\ last[r] <= clock)'
  BY <1>1 DEF GuardInv
<1>3. (checked \in [Handlers -> Nat] /\ \A h \in Handlers : checked[h] <= clock)'
  BY <1>1 DEF GuardInv
<1>4. InStep(seen, order, last, clock)'
  <2>1. /\ order \in Seq(Entries) /\ seen = {order[i].key : i \in 1..Len(order)}
        /\ \A i, j \in 1..Len(order) : i < j => /\ order[i].key # order[j].key
                                                /\ order[i].at <= order[j].at
    BY DEF GuardInv, InStep
  <2>2. \A i \in 1..Len(order) : order[i] \in Entries
    BY <2>1
  <2>3. \A i \in 1..Len(order) : order[i].at <= clock /\ order[i].at = last[order[i].key]
    BY DEF GuardInv, InStep
  <2>4. ASSUME NEW i \in 1..Len(order) PROVE order[i].at <= clock + 1
    <3>1. order[i].at \in Nat /\ order[i].at <= clock
      BY <2>2, <2>3 DEF Entries
    <3> QED
      BY <1>1, <3>1
  <2> QED
    BY <1>1, <2>1, <2>3, <2>4 DEF InStep
<1>5. Forgotten(seen, last, evicted, clock)'
  <2>1. ASSUME NEW r \in Requests, clock - last[r] > Ttl * Second
        PROVE  clock + 1 - last[r] > Ttl * Second
    <3>1. last[r] \in Int
      BY DEF GuardInv
    <3> QED
      BY <1>1, <2>1, <3>1
  <2> QED
    BY <1>1, <2>1 DEF GuardInv, Forgotten
<1> QED
  BY <1>1, <1>2, <1>3, <1>4, <1>5 DEF GuardInv, Guard!Distance

LEMMA GuardNext == GuardInv /\ [Guard!Next]_guardVars => GuardInv'
<1> SUFFICES ASSUME GuardInv, [Guard!Next]_guardVars PROVE GuardInv'
  OBVIOUS
<1>1. CASE Guard!Next
  BY <1>1, TickInv, ReceiveInv, RefuseInv, AcceptInv DEF Guard!Next
<1>2. CASE UNCHANGED guardVars
  BY <1>2 DEF guardVars, GuardInv, InStep, Forgotten, Guard!Distance
<1> QED
  BY <1>1, <1>2

-----------------------------------------------------------------------------
(* ReplayGuard: theorems.                                                  *)

\* A client's request that is still fresh when its memory has lasted its time
\* bears a stamp that is not before its acceptance.
LEMMA LateIsAhead ==
  ASSUME NEW c \in Nat, NEW l \in Nat, NEW s \in Nat,
         c - l > Ttl * Second, Guard!Distance(c \div Second, s) <= Skew
  PROVE  s >= l \div Second
<1> DEFINE q == c \div Second
           p == l \div Second
<1>1. Second \in Nat /\ Second > 0 /\ Ttl \in Nat /\ Skew \in Nat /\ Skew <= Ttl
  BY GuardConstants
<1>2. q \in Nat /\ p \in Nat /\ c < Second * (q + 1) /\ l >= Second * p
  BY <1>1
<1> HIDE DEF q, p
<1>3. q >= p + Ttl
  <2> SUFFICES ASSUME q + 1 <= p + Ttl PROVE FALSE
    BY <1>1, <1>2
  <2>1. Second * (q + 1) <= Second * (p + Ttl)
    <3>1. PICK d \in Nat : p + Ttl = (q + 1) + d
      <4>1. p + Ttl - (q + 1) \in Nat /\ p + Ttl = (q + 1) + (p + Ttl - (q + 1))
        BY <1>1, <1>2
      <4> QED
        BY <4>1
    <3>2. Second * ((q + 1) + d) = Second * (q + 1) + Second * d /\ Second * d \in Nat
      BY <1>1, <1>2
    <3>3. Second * (q + 1) \in Nat
      BY <1>1, <1>2
    <3> QED
      BY <3>1, <3>2, <3>3
  <2>2. Second * (p + Ttl) = Second * p + Ttl * Second
    BY <1>1, <1>2
  <2>3. Second * p \in Nat /\ Ttl * Second \in Nat /\ Second * (q + 1) \in Nat
    BY <1>1, <1>2
  <2> QED
    BY <1>2, <2>1, <2>2, <2>3
<1>4. q - s <= Skew
  BY <1>1, <1>2 DEF Guard!Distance, q
<1>5. s >= p
  BY <1>1, <1>2, <1>3, <1>4
<1> QED
  BY <1>5 DEF p

\* A request that is accepted again was forgotten for one of the two reasons.
LEMMA RepeatStep ==
  ASSUME GuardInv, NEW h \in Handlers, Guard!AcceptedAgain(h)
  PROVE  handling[h] \in evicted \/ Guard!LateForGoodReason(h)
<1> DEFINE r == handling[h]
<1>1. r # None /\ r \notin Guard!RemainingSeen /\ last[r] # -1
  BY DEF Guard!AcceptedAgain, Guard!Accept
<1>2. r \in Requests
  BY <1>1 DEF GuardInv
<1>3. last[r] \in Nat /\ checked[h] \in Nat /\ stamp[r] \in Nat
  BY <1>1, <1>2 DEF GuardInv
<1>4. r \in evicted \/ clock - last[r] > Ttl * Second
  BY <1>1, <1>2, RemainingInStep DEF GuardInv, Forgotten
<1>5. Guard!Distance(checked[h] \div Second, stamp[r]) <= Skew
  BY <1>1 DEF GuardInv
<1>6. checked[h] - last[r] > Ttl * Second => stamp[r] >= last[r] \div Second
  BY <1>3, <1>5, LateIsAhead
<1>7. checked[h] - last[r] > Ttl * Second \/ checked[h] - last[r] <= Ttl * Second
  BY <1>3, GuardConstants
<1> QED
  BY <1>4, <1>6, <1>7 DEF Guard!LateForGoodReason

\* What is refused is in the table, and not for too long.
LEMMA RefusedStep ==
  ASSUME GuardInv, NEW h \in Handlers, Guard!Refuse(h)
  PROVE  last[handling[h]] # -1 /\ clock - last[handling[h]] <= Ttl * Second
<1>1. handling[h] \in Guard!RemainingSeen
  BY DEF Guard!Refuse
<1>2. last[handling[h]] >= 0 /\ clock - last[handling[h]] <= Ttl * Second
  BY <1>1, RemainingInStep
<1> QED
  BY <1>2

\* What is shown of the limiter and of the guard holds of the two together.
LEMMA PartsOfBoth ==
  BothSpec => Spec /\ Guard!Init /\ [][Guard!Next]_guardVars
<1>1. BothInit => Init /\ Guard!Init
  BY DEF BothInit
<1>2. [BothNext]_<<part, vars, guardVars>> => [Next]_vars /\ [Guard!Next]_guardVars
  <2> SUFFICES ASSUME [BothNext]_<<part, vars, guardVars>>
               PROVE  [Next]_vars /\ [Guard!Next]_guardVars
    OBVIOUS
  <2> QED
    BY DEF BothNext
<1> QED
  BY <1>1, <1>2, PTL DEF BothSpec, Spec

\* ReplayGuard: the inductive invariant.
THEOREM GuardInvariant == BothSpec => []GuardInv
  BY GuardInit, GuardNext, PartsOfBoth, PTL

\* Table and queue hold the same requests, each one once, in the order of
\* their acceptance and no more than Capacity (app.rs ReplayGuard::accept).
THEOREM GuardInStepTheorem == BothSpec => []GuardInStep
<1>1. GuardInv => GuardInStep
  <2> SUFFICES ASSUME GuardInv PROVE GuardInStep
    OBVIOUS
  <2>1. /\ order \in Seq(Entries) /\ seen = {order[i].key : i \in 1..Len(order)}
        /\ \A i \in 1..Len(order) : order[i].at <= clock /\ order[i].at = last[order[i].key]
        /\ \A i, j \in 1..Len(order) : i < j => /\ order[i].key # order[j].key
                                                /\ order[i].at <= order[j].at
    BY DEF GuardInv, InStep
  <2>2. Len(order) \in Nat /\ DOMAIN order = 1..Len(order)
    BY <2>1
  <2>3. Guard!SeenIsOrder
    BY <2>1, <2>2 DEF Guard!SeenIsOrder, Guard!KeysOf
  <2>4. order \in Seq([at : 0..clock, key : Requests])
    <3> DEFINE Earlier == [at : 0..clock, key : Requests]
    <3>1. ASSUME NEW i \in 1..Len(order) PROVE order[i] \in Earlier
      <4>1. order[i] \in Entries /\ order[i].at <= clock /\ clock \in Nat
        BY <2>1 DEF GuardInv
      <4> QED
        BY <4>1 DEF Entries
    <3> HIDE DEF Earlier
    <3>2. order \in [1..Len(order) -> Earlier]
      BY <2>1, <2>2, <3>1
    <3>3. order \in Seq(Earlier)
      BY <2>2, <3>2, SeqDef
    <3> QED
      BY <3>3 DEF Earlier
  <2>5. seen \subseteq Requests
    BY SizeOfTable DEF GuardInv
  <2>6. checked \in [Handlers -> 0..clock] /\ last \in [Requests -> -1..clock]
    BY DEF GuardInv
  <2> QED
    BY <2>3, <2>4, <2>5, <2>6 DEF GuardInv, GuardInStep, Guard!TypeOK
<1> QED
  BY <1>1, GuardInvariant, PTL

\* A request is handled once more only when it gave way to younger ones, or
\* its memory has lasted its time and its client's clock was ahead or its
\* handler slow; and what is refused as handled before was (decrypt_payload,
\* ReplayGuard::accept).
THEOREM RepeatsTheorem == BothSpec => RepeatsAreRefused
<1>1. GuardInv /\ [Guard!Next]_guardVars =>
        [\A h \in Handlers :
           Guard!AcceptedAgain(h) => handling[h] \in evicted \/ Guard!LateForGoodReason(h)]_guardVars
  BY RepeatStep
<1>2. GuardInv /\ [Guard!Next]_guardVars =>
        [\A h \in Handlers : Guard!Refuse(h) =>
           /\ last[handling[h]] # -1
           /\ clock - last[handling[h]] <= Ttl * Second]_guardVars
  BY RefusedStep
<1>3. BothSpec =>
        [][\A h \in Handlers :
             Guard!AcceptedAgain(h) => handling[h] \in evicted \/ Guard!LateForGoodReason(h)]_guardVars
  BY <1>1, GuardInvariant, PartsOfBoth, PTL
<1>4. BothSpec =>
        [][\A h \in Handlers : Guard!Refuse(h) =>
             /\ last[handling[h]] # -1
             /\ clock - last[handling[h]] <= Ttl * Second]_guardVars
  BY <1>2, GuardInvariant, PartsOfBoth, PTL
<1>5. guardVars = Guard!vars
  BY DEF guardVars, Guard!vars
<1> QED
  BY <1>3, <1>4 DEF RepeatsAreRefused, Guard!RepeatIsLate, Guard!RefusedWasAccepted,
                    Guard!vars, guardVars

=============================================================================
