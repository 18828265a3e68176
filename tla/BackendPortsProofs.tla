-------------------------- MODULE BackendPortsProofs --------------------------
(***************************************************************************)
(* Proofs about the two parts of MCBackendPorts.                           *)
(*                                                                         *)
(* FrpsPlugin: FRPS and the service start together, so every session and   *)
(* every proxy was accepted by the configuration in memory or by one that  *)
(* this process has had since; a proxy's tunnel is in the plan still, or   *)
(* has left it while the proxy was open, and no port is in two plans.      *)
(*                                                                         *)
(* TrafficRecords: a row is of a user who has its record, with its bytes,  *)
(* and a user's records grow by what she is billed until a start gives one *)
(* of them to another.  That needs what sums are, which comes first.       *)
(***************************************************************************)
EXTENDS MCBackendPorts, FiniteSetTheorems, WellFoundedInduction, TLAPS

-----------------------------------------------------------------------------
(* Sums.  TrafficRecords adds up with FoldFunction, which stands for a     *)
(* recursive function on the subsets of a domain.  That there is one is    *)
(* shown for the subsets of at most n elements, for the least n for which  *)
(* there were none; what it yields, for a smallest subset for which it did *)
(* not.                                                                    *)

Some(s) == CHOOSE x \in s : TRUE

Summing(f, g) ==
    g = [s \in SUBSET DOMAIN f |-> IF s = {} THEN 0 ELSE f[Some(s)] + g[s \ {Some(s)}]]

\* The sums of f over each subset of its domain.
Sums(f) == CHOOSE g : Summing(f, g)

LEMMA SumIsFold == ASSUME NEW f PROVE Records!Sum(f) = Sums(f)[DOMAIN f]
  BY DEF Records!Sum, Records!FoldFunction, Records!FoldFunctionOnSet,
         Records!MapThenFoldSet, Sums, Summing, Some

LEMMA SomeOf == ASSUME NEW s, s # {} PROVE Some(s) \in s
  BY DEF Some

\* The least of a set of naturals.
LEMMA LeastNatural ==
  ASSUME NEW S \in SUBSET Nat, S # {}
  PROVE  \E n \in S : \A m \in S : n <= m
<1> DEFINE R == OpToRel(<, Nat)
<1>1. IsWellFoundedOn(R, Nat)
  BY NatLessThanWellFounded
<1>2. \A m, n \in Nat : m < n => <<m, n>> \in R
  BY DEF OpToRel
<1> HIDE DEF R
<1>3. PICK n \in S : \A m \in S : ~ (<<m, n>> \in R)
  BY <1>1, WFMin
<1>4. ASSUME NEW m \in S PROVE n <= m
  <2>1. ~ (m < n)
    BY <1>2, <1>3
  <2> QED
    BY <2>1
<1> QED
  BY <1>4

\* A set B of subsets of a finite set has one from which no element can be
\* taken without leaving B.
LEMMA SmallestSubset ==
  ASSUME NEW U, IsFiniteSet(U), NEW B \in SUBSET SUBSET U, B # {}
  PROVE  \E s \in B : \A x \in s : s \ {x} \notin B
<1> DEFINE R == StrictSubsetOrdering(U)
<1>1. IsWellFoundedOn(R, SUBSET U)
  BY FS_StrictSubsetOrderingWellFounded, FS_FiniteSubsetsOfFinite
<1>2. ASSUME NEW s \in SUBSET U, NEW x \in s PROVE <<s \ {x}, s>> \in R
  BY DEF StrictSubsetOrdering
<1> HIDE DEF R
<1>3. PICK s \in B : \A t \in B : ~ (<<t, s>> \in R)
  BY <1>1, WFMin
<1> QED
  BY <1>2, <1>3

Few(f, n) == {s \in SUBSET DOMAIN f : Cardinality(s) <= n}

SummingFew(f, n, g) ==
    g = [s \in Few(f, n) |-> IF s = {} THEN 0 ELSE f[Some(s)] + g[s \ {Some(s)}]]

LEMMA SumsOfFewExist ==
  ASSUME NEW f, IsFiniteSet(DOMAIN f), NEW n \in Nat
  PROVE  \E g : SummingFew(f, n, g)
<1> DEFINE Bad == {m \in Nat : ~ \E g : SummingFew(f, m, g)}
<1> SUFFICES ASSUME Bad # {} PROVE FALSE
  OBVIOUS
<1>1. PICK m \in Bad : \A k \in Bad : m <= k
  BY LeastNatural
<1>2. m \in Nat /\ ~ \E g : SummingFew(f, m, g)
  BY <1>1
<1>3. \A s \in SUBSET DOMAIN f : IsFiniteSet(s) /\ Cardinality(s) \in Nat
  BY FS_Subset, FS_CardinalityType
<1>4. CASE m = 0
  <2>1. \A s \in Few(f, 0) : s = {}
    BY <1>3, FS_EmptySet DEF Few
  <2> DEFINE g == [s \in Few(f, 0) |-> 0]
  <2>2. SummingFew(f, 0, g)
    BY <2>1 DEF SummingFew
  <2> QED
    BY <1>2, <1>4, <2>2
<1>5. CASE m # 0
  <2>1. m - 1 \in Nat /\ ~ (m <= m - 1)
    BY <1>2, <1>5
  <2>2. m - 1 \notin Bad
    BY <1>1, <2>1
  <2>3. PICK g : SummingFew(f, m - 1, g)
    BY <2>1, <2>2
  <2> DEFINE h == [s \in Few(f, m) |->
                     IF s = {} THEN 0 ELSE f[Some(s)] + g[s \ {Some(s)}]]
  <2>4. ASSUME NEW s \in Few(f, m), s # {}
        PROVE  s \ {Some(s)} \in Few(f, m - 1) /\ s \ {Some(s)} \in Few(f, m)
    <3>1. s \in SUBSET DOMAIN f /\ Cardinality(s) <= m /\ Some(s) \in s
      BY <2>4, SomeOf DEF Few
    <3>2. Cardinality(s \ {Some(s)}) = Cardinality(s) - 1 /\ Cardinality(s) \in Nat
      BY <1>3, <3>1, FS_RemoveElement
    <3>3. Cardinality(s \ {Some(s)}) <= m - 1 /\ Cardinality(s \ {Some(s)}) <= m
      BY <1>2, <3>1, <3>2
    <3> QED
      BY <3>1, <3>3 DEF Few
  <2>5. ASSUME NEW t \in Few(f, m - 1), t \in Few(f, m) PROVE h[t] = g[t]
    BY <2>3, <2>5 DEF SummingFew
  <2>6. ASSUME NEW s \in Few(f, m), s # {} PROVE h[s \ {Some(s)}] = g[s \ {Some(s)}]
    BY <2>4, <2>5, <2>6
  <2>7. h = [s \in Few(f, m) |-> IF s = {} THEN 0 ELSE f[Some(s)] + h[s \ {Some(s)}]]
    BY <2>6
  <2>8. SummingFew(f, m, h)
    BY <2>7 DEF SummingFew
  <2> QED
    BY <1>2, <2>8
<1> QED
  BY <1>4, <1>5

LEMMA SumsExist ==
  ASSUME NEW f, IsFiniteSet(DOMAIN f)
  PROVE  Summing(f, Sums(f))
<1> DEFINE n == Cardinality(DOMAIN f)
<1>1. n \in Nat
  BY FS_CardinalityType
<1>2. Few(f, n) = SUBSET DOMAIN f
  BY FS_Subset DEF Few
<1>3. PICK g : SummingFew(f, n, g)
  BY <1>1, SumsOfFewExist
<1>4. Summing(f, g)
  BY <1>2, <1>3 DEF Summing, SummingFew
<1> QED
  BY <1>4 DEF Sums

LEMMA SumsStep ==
  ASSUME NEW f, IsFiniteSet(DOMAIN f)
  PROVE  /\ Sums(f)[{}] = 0
         /\ \A s \in SUBSET DOMAIN f :
               s # {} => Sums(f)[s] = f[Some(s)] + Sums(f)[s \ {Some(s)}]
<1> DEFINE g == Sums(f)
<1>1. g = [s \in SUBSET DOMAIN f |-> IF s = {} THEN 0 ELSE f[Some(s)] + g[s \ {Some(s)}]]
  BY SumsExist DEF Summing
<1> HIDE DEF g
<1>2. g[{}] = 0
  <2>1. {} \in SUBSET DOMAIN f
    OBVIOUS
  <2> QED
    BY <1>1, <2>1
<1>3. ASSUME NEW s \in SUBSET DOMAIN f, s # {} PROVE g[s] = f[Some(s)] + g[s \ {Some(s)}]
  BY <1>1, <1>3
<1> QED
  BY <1>2, <1>3 DEF g

\* f gives naturals to finitely many.
Finite(f) == IsFiniteSet(DOMAIN f) /\ f \in [DOMAIN f -> Nat]

\* Sums of naturals are naturals.
LEMMA SumsNatural ==
  ASSUME NEW f, Finite(f)
  PROVE  \A s \in SUBSET DOMAIN f : Sums(f)[s] \in Nat
<1> DEFINE D == DOMAIN f
           g == Sums(f)
           Bad == {s \in SUBSET D : g[s] \notin Nat}
<1>1. g[{}] = 0
  BY SumsStep DEF Finite
<1>2. \A s \in SUBSET D : s # {} => g[s] = f[Some(s)] + g[s \ {Some(s)}]
  BY SumsStep DEF Finite
<1>0. IsFiniteSet(D) /\ f \in [D -> Nat]
  BY DEF Finite
<1> HIDE DEF g, D
<1>3. SUFFICES ASSUME Bad # {} PROVE FALSE
  BY DEF g, D
<1>4. Bad \in SUBSET SUBSET D
  OBVIOUS
<1>5. PICK s \in Bad : \A x \in s : s \ {x} \notin Bad
  BY <1>0, <1>3, <1>4, SmallestSubset
<1>6. s \in SUBSET D /\ g[s] \notin Nat
  BY <1>5
<1>7. s # {}
  BY <1>1, <1>6
<1>8. Some(s) \in s /\ f[Some(s)] \in Nat
  BY <1>0, <1>6, <1>7, SomeOf
<1>9. g[s \ {Some(s)}] \in Nat
  BY <1>5, <1>6, <1>8
<1>10. f[Some(s)] + g[s \ {Some(s)}] \in Nat
  BY <1>8, <1>9
<1>11. g[s] = f[Some(s)] + g[s \ {Some(s)}]
  BY <1>2, <1>6, <1>7
<1> QED
  BY <1>6, <1>10, <1>11

\* The order in which a sum is made does not matter.
LEMMA SumsAnyOrder ==
  ASSUME NEW f, Finite(f)
  PROVE  \A s \in SUBSET DOMAIN f : \A x \in s : Sums(f)[s] = f[x] + Sums(f)[s \ {x}]
<1> DEFINE D == DOMAIN f
           g == Sums(f)
           Good(s) == \A x \in s : g[s] = f[x] + g[s \ {x}]
           Bad == {s \in SUBSET D : ~ Good(s)}
<1>1. \A s \in SUBSET D : s # {} => g[s] = f[Some(s)] + g[s \ {Some(s)}]
  BY SumsStep DEF Finite
<1>2. \A s \in SUBSET D : g[s] \in Nat
  BY SumsNatural
<1>0. IsFiniteSet(D) /\ f \in [D -> Nat]
  BY DEF Finite
<1> HIDE DEF g, D
<1>3. SUFFICES ASSUME Bad # {} PROVE FALSE
  BY DEF g, D
<1>4. Bad \in SUBSET SUBSET D
  OBVIOUS
<1>5. PICK s \in Bad : \A x \in s : s \ {x} \notin Bad
  BY <1>0, <1>3, <1>4, SmallestSubset
<1>6. s \in SUBSET D
  BY <1>5
<1>7. PICK x \in s : g[s] # f[x] + g[s \ {x}]
  BY <1>5
<1>8. \A z \in s : Good(s \ {z})
  BY <1>5, <1>6
<1> DEFINE y == Some(s)
<1>9. y \in s /\ g[s] = f[y] + g[s \ {y}]
  BY <1>1, <1>6, <1>7, SomeOf
<1> HIDE DEF y
<1>10. x # y
  BY <1>7, <1>9
<1>11. g[s \ {y}] = f[x] + g[(s \ {y}) \ {x}]
  BY <1>7, <1>8, <1>9, <1>10
<1>12. g[s \ {x}] = f[y] + g[(s \ {x}) \ {y}]
  BY <1>7, <1>8, <1>9, <1>10
<1>13. (s \ {x}) \ {y} = (s \ {y}) \ {x} /\ (s \ {y}) \ {x} \in SUBSET D
  BY <1>6
<1>14. f[x] \in Nat /\ f[y] \in Nat /\ g[(s \ {y}) \ {x}] \in Nat
  BY <1>0, <1>2, <1>6, <1>7, <1>9, <1>13
<1>15. f[y] + (f[x] + g[(s \ {y}) \ {x}]) = f[x] + (f[y] + g[(s \ {y}) \ {x}])
  BY <1>14
<1>16. g[s] = f[x] + g[s \ {x}]
  BY <1>9, <1>11, <1>12, <1>13, <1>15
<1> QED
  BY <1>7, <1>16

\* What a function has of x.
Of(f, x) == IF x \in DOMAIN f THEN f[x] ELSE 0

\* f gives naturals to some elements of U.
Amounts(f, U) == DOMAIN f \subseteq U /\ f \in [DOMAIN f -> Nat]

LEMMA AmountsNatural ==
  ASSUME NEW U, IsFiniteSet(U), NEW f, Amounts(f, U)
  PROVE  /\ Finite(f)
         /\ \A x : Of(f, x) \in Nat
         /\ \A s : Sums(f)[s \cap DOMAIN f] \in Nat
         /\ Sums(f)[{}] = 0
<1>1. Finite(f)
  BY FS_Subset DEF Amounts, Finite
<1>2. \A x : Of(f, x) \in Nat
  BY <1>1 DEF Of, Finite
<1>3. \A s \in SUBSET DOMAIN f : Sums(f)[s] \in Nat
  BY <1>1, SumsNatural
<1>4. ASSUME NEW s PROVE s \cap DOMAIN f \in SUBSET DOMAIN f
  OBVIOUS
<1>5. Sums(f)[{}] = 0
  BY <1>1, SumsStep DEF Finite
<1> QED
  BY <1>1, <1>2, <1>3, <1>4, <1>5

\* One name more or less.
LEMMA SumsOver ==
  ASSUME NEW U, IsFiniteSet(U), NEW f, Amounts(f, U), NEW s, NEW x \in s
  PROVE  Sums(f)[s \cap DOMAIN f] = Of(f, x) + Sums(f)[(s \ {x}) \cap DOMAIN f]
<1> DEFINE D == DOMAIN f
<1>1. Finite(f)
  BY AmountsNatural
<1>2. s \cap D \in SUBSET D /\ Sums(f)[s \cap D] \in Nat
  BY AmountsNatural
<1>3. CASE x \in D
  <2>1. (s \ {x}) \cap D = (s \cap D) \ {x} /\ x \in s \cap D
    BY <1>3
  <2>2. \A t \in SUBSET D : \A y \in t : Sums(f)[t] = f[y] + Sums(f)[t \ {y}]
    BY <1>1, SumsAnyOrder
  <2>3. Sums(f)[s \cap D] = f[x] + Sums(f)[(s \cap D) \ {x}]
    BY <1>2, <2>1, <2>2
  <2> QED
    BY <1>3, <2>1, <2>3 DEF Of
<1>4. CASE x \notin D
  <2>1. (s \ {x}) \cap D = s \cap D
    BY <1>4
  <2>2. Of(f, x) = 0
    BY <1>4 DEF Of
  <2> QED
    BY <1>2, <2>1, <2>2
<1> QED
  BY <1>3, <1>4

LEMMA SumNatural ==
  ASSUME NEW U, IsFiniteSet(U), NEW f, Amounts(f, U)
  PROVE  Records!Sum(f) \in Nat
<1>1. Sums(f)[DOMAIN f \cap DOMAIN f] \in Nat
  BY AmountsNatural
<1>2. DOMAIN f \cap DOMAIN f = DOMAIN f
  OBVIOUS
<1> QED
  BY <1>1, <1>2, SumIsFold

AddUp(U, f, g, h) == \A x \in U : Of(h, x) = Of(f, x) + Of(g, x)

\* Two functions add up, name by name, to a third: so do their sums.
LEMMA SumsAddUp ==
  ASSUME NEW U, IsFiniteSet(U), NEW f, NEW g, NEW h,
         Amounts(f, U), Amounts(g, U), Amounts(h, U), AddUp(U, f, g, h)
  PROVE  Records!Sum(h) = Records!Sum(f) + Records!Sum(g)
<1> DEFINE a(s) == Sums(f)[s \cap DOMAIN f]
           b(s) == Sums(g)[s \cap DOMAIN g]
           c(s) == Sums(h)[s \cap DOMAIN h]
           Bad == {s \in SUBSET U : c(s) # a(s) + b(s)}
<1>1. ASSUME NEW s, NEW x \in s
      PROVE  /\ a(s) = Of(f, x) + a(s \ {x})
             /\ b(s) = Of(g, x) + b(s \ {x})
             /\ c(s) = Of(h, x) + c(s \ {x})
  BY SumsOver
<1>2. \A s : a(s) \in Nat /\ b(s) \in Nat
  BY AmountsNatural
<1>3. a({}) = 0 /\ b({}) = 0 /\ c({}) = 0
  <2>1. Sums(f)[{}] = 0 /\ Sums(g)[{}] = 0 /\ Sums(h)[{}] = 0
    BY AmountsNatural
  <2>2. {} \cap DOMAIN f = {} /\ {} \cap DOMAIN g = {} /\ {} \cap DOMAIN h = {}
    OBVIOUS
  <2> QED
    BY <2>1, <2>2
<1>4. /\ a(U) = Records!Sum(f) /\ b(U) = Records!Sum(g) /\ c(U) = Records!Sum(h)
  <2>1. U \cap DOMAIN f = DOMAIN f /\ U \cap DOMAIN g = DOMAIN g /\ U \cap DOMAIN h = DOMAIN h
    BY DEF Amounts
  <2> QED
    BY <2>1, SumIsFold
<1> HIDE DEF a, b, c
<1>5. Bad = {}
  <2> SUFFICES ASSUME Bad # {} PROVE FALSE
    OBVIOUS
  <2>1. Bad \in SUBSET SUBSET U
    OBVIOUS
  <2>2. PICK s \in Bad : \A x \in s : s \ {x} \notin Bad
    BY <2>1, SmallestSubset
  <2>3. s \in SUBSET U /\ c(s) # a(s) + b(s)
    BY <2>2
  <2>4. s # {}
    <3> SUFFICES ASSUME s = {} PROVE FALSE
      OBVIOUS
    <3>1. c({}) = a({}) + b({})
      BY <1>3
    <3> QED
      BY <2>3, <3>1
  <2>5. PICK x \in U : x \in s
    BY <2>3, <2>4
  <2>6. s \ {x} \in SUBSET U /\ s \ {x} \notin Bad
    BY <2>2, <2>3, <2>5
  <2>7. c(s \ {x}) = a(s \ {x}) + b(s \ {x})
    BY <2>6
  <2>8. Of(h, x) = Of(f, x) + Of(g, x)
    BY DEF AddUp
  <2>9. /\ a(s) = Of(f, x) + a(s \ {x}) /\ b(s) = Of(g, x) + b(s \ {x})
        /\ c(s) = Of(h, x) + c(s \ {x})
    BY <1>1, <2>5
  <2>10. a(s \ {x}) \in Nat /\ b(s \ {x}) \in Nat
    BY <1>2
  <2>11. Of(f, x) \in Nat /\ Of(g, x) \in Nat
    BY AmountsNatural
  <2>12. c(s) = a(s) + b(s)
    BY <2>7, <2>8, <2>9, <2>10, <2>11
  <2> QED
    BY <2>3, <2>12
<1>6. c(U) = a(U) + b(U)
  BY <1>5
<1> QED
  BY <1>4, <1>6

\* No name has more than all have.
LEMMA PartOfSum ==
  ASSUME NEW U, IsFiniteSet(U), NEW f, Amounts(f, U), NEW x \in DOMAIN f
  PROVE  f[x] \in Nat /\ f[x] <= Records!Sum(f)
<1> DEFINE D == DOMAIN f
<1>1. Finite(f)
  BY AmountsNatural
<1>2. Sums(f)[D] = f[x] + Sums(f)[D \ {x}]
  BY <1>1, SumsAnyOrder
<1>3. f[x] \in Nat /\ Sums(f)[D \ {x}] \in Nat
  BY <1>1, SumsNatural DEF Finite
<1>4. f[x] <= Sums(f)[D]
  BY <1>2, <1>3
<1> QED
  BY <1>3, <1>4, SumIsFold

\* Nothing adds up to nothing.
LEMMA SumOfZeros ==
  ASSUME NEW U, IsFiniteSet(U), NEW f, Amounts(f, U), \A x \in DOMAIN f : f[x] = 0
  PROVE  Records!Sum(f) = 0
<1> DEFINE v == Records!Sum(f)
<1>1. AddUp(U, f, f, f)
  BY DEF AddUp, Of
<1>2. v = v + v
  BY <1>1, SumsAddUp
<1>3. v \in Nat
  BY SumNatural
<1> HIDE DEF v
<1>4. v = 0
  BY <1>2, <1>3
<1> QED
  BY <1>4 DEF v

\* One who has one.
LEMMA SumOfOne ==
  ASSUME NEW U, IsFiniteSet(U), NEW x \in U
  PROVE  Amounts([y \in {x} |-> 1], U) /\ Records!Sum([y \in {x} |-> 1]) = 1
<1> DEFINE f == [y \in {x} |-> 1]
<1>1. DOMAIN f = {x} /\ f[x] = 1 /\ {x} \ {x} = {} /\ x \in {x}
  OBVIOUS
<1>2. Amounts(f, U)
  BY DEF Amounts
<1> HIDE DEF f
<1>3. Finite(f) /\ Sums(f)[{}] = 0
  BY <1>2, AmountsNatural
<1>4. Sums(f)[{x}] = f[x] + Sums(f)[{x} \ {x}]
  BY <1>1, <1>3, SumsAnyOrder
<1>5. Sums(f)[DOMAIN f] = 1
  BY <1>1, <1>3, <1>4
<1> QED
  BY <1>2, <1>5, SumIsFold DEF f

\* A function that has the same of some names, and of no other, adds up to no
\* more.
LEMMA SumOfPart ==
  ASSUME NEW U, IsFiniteSet(U), NEW f, NEW g, Amounts(f, U), Amounts(g, U),
         DOMAIN g \subseteq DOMAIN f, \A x \in DOMAIN g : g[x] = f[x]
  PROVE  Records!Sum(g) <= Records!Sum(f)
<1> DEFINE h == [x \in DOMAIN f \ DOMAIN g |-> f[x]]
<1>1. Amounts(h, U)
  BY DEF Amounts
<1>2. AddUp(U, g, h, f)
  <2>1. ASSUME NEW x \in U PROVE Of(f, x) \in Nat
    BY AmountsNatural
  <2>2. ASSUME NEW x \in U PROVE Of(f, x) = Of(g, x) + Of(h, x)
    BY <2>1 DEF Of
  <2> QED
    BY <2>2 DEF AddUp
<1> HIDE DEF h
<1>3. Records!Sum(f) = Records!Sum(g) + Records!Sum(h)
  BY <1>1, <1>2, SumsAddUp
<1>4. Records!Sum(f) \in Nat /\ Records!Sum(g) \in Nat /\ Records!Sum(h) \in Nat
  BY <1>1, SumNatural
<1> QED
  BY <1>3, <1>4

\* A finite set of naturals has a greatest.
LEMMA GreatestNatural ==
  ASSUME NEW S \in SUBSET Nat, IsFiniteSet(S), S # {}
  PROVE  \E n \in S : \A m \in S : n >= m
<1> DEFINE Top(s) == \E n \in s : \A m \in s : n >= m
           Bad == {s \in SUBSET S : s # {} /\ ~ Top(s)}
<1> SUFFICES ASSUME Bad # {} PROVE FALSE
  OBVIOUS
<1>1. Bad \in SUBSET SUBSET S
  OBVIOUS
<1>2. PICK s \in Bad : \A x \in s : s \ {x} \notin Bad
  BY <1>1, SmallestSubset
<1>3. s \in SUBSET S /\ s # {} /\ ~ Top(s)
  BY <1>2
<1>4. PICK x \in s : TRUE
  BY <1>3
<1>5. s \ {x} \notin Bad
  BY <1>2
<1>6. CASE s \ {x} = {}
  <2>1. Top(s)
    <3>1. \A m \in s : m = x
      BY <1>6
    <3>2. x \in Nat
      BY <1>3
    <3> QED
      BY <3>1, <3>2
  <2> QED
    BY <1>3, <2>1
<1>7. CASE s \ {x} # {}
  <2>1. Top(s \ {x})
    BY <1>3, <1>5, <1>7
  <2>2. PICK n \in s \ {x} : \A m \in s \ {x} : n >= m
    BY <2>1
  <2>3. \A m \in s : m \in Nat
    BY <1>3
  <2>4. CASE n >= x
    BY <1>3, <2>2, <2>4
  <2>5. CASE ~ (n >= x)
    <3>1. \A m \in s : x >= m
      BY <2>2, <2>3, <2>5
    <3> QED
      BY <1>3, <3>1
  <2> QED
    BY <2>4, <2>5
<1> QED
  BY <1>6, <1>7

-----------------------------------------------------------------------------
(* FrpsPlugin: the invariant.                                              *)

Profile(u) == [key : 0..MaxKey[u], spent : BOOLEAN, plan : Plans(u)]

\* A configuration of all users in which no port is in two places.
Sound(config) ==
    /\ DOMAIN config = Users
    /\ \A u \in Users : config[u] \in Profile(u)
    /\ \A u \in Users : \A m, n \in DOMAIN config[u].plan :
          config[u].plan[m] = config[u].plan[n] => m = n
    /\ \A u, v \in Users : \A m \in DOMAIN config[u].plan, n \in DOMAIN config[v].plan :
          u # v => config[u].plan[m] # config[v].plan[n]

\* Where a proxy comes from.
Rightly(q) == Right(q) \/ q \in left

Answers ==
    /\ frps \in {"starting", "on"}
    /\ DOMAIN key = Clients /\ DOMAIN reading = Clients
    /\ told \in [Clients -> [token : BOOLEAN, plan : UNION {Plans(u) : u \in Users}]]
    /\ \A c \in Clients : /\ told[c].plan \in Plans(UserOf[c])
                          /\ key[c] \in 0..MaxKey[UserOf[c]]
    /\ \A c \in Clients : reading[c] # None =>
          reading[c] \in [spent : BOOLEAN, plan : Plans(UserOf[c])]

InFrps ==
    /\ DOMAIN session = Clients
    /\ \A c \in Clients : session[c] \in 0..MaxKey[UserOf[c]] \cup {None}
    /\ open \subseteq [by : Clients, name : Names, port : Ports]
    /\ left \subseteq open

PluginInv ==
    /\ Sound(memory) /\ Sound(stored) /\ Answers /\ InFrps
    /\ SessionsHaveTheKey
    /\ \A q \in open : Rightly(q)

-----------------------------------------------------------------------------
(* Configurations.                                                         *)

\* The user of a client, and a user's plan.
LEMMA Constant ==
  /\ \A c \in Clients : UserOf[c] \in Users
  /\ \A u \in Users : MaxKey[u] \in Nat /\ NamesOf[u] \subseteq Names
BY PluginConstants

\* A plan gives ports to names of its user.
LEMMA PlanValues ==
  ASSUME NEW u \in Users, NEW given \in Plans(u)
  PROVE  /\ DOMAIN given \subseteq NamesOf[u]
         /\ \A n \in DOMAIN given : given[n] \in Ports
BY DEF Plans

\* The configuration without tunnels.
LEMMA NewIsSound == Sound([u \in Users |-> NewUser])
<1>1. DOMAIN NoTunnels = {}
  BY DEF NoTunnels
<1>2. \A u \in Users : NoTunnels \in Plans(u)
  <2> SUFFICES ASSUME NEW u \in Users PROVE NoTunnels \in [{} -> Ports] /\ {} \in SUBSET NamesOf[u]
    BY DEF Plans
  <2> QED
    BY DEF NoTunnels
<1>3. \A u \in Users : NewUser \in Profile(u)
  <2> SUFFICES ASSUME NEW u \in Users PROVE NewUser \in Profile(u)
    OBVIOUS
  <2>1. FALSE \in BOOLEAN /\ 0 \in 0..MaxKey[u]
    BY Constant
  <2> QED
    BY <1>2, <2>1 DEF NewUser, Profile
<1>4. NewUser.plan = NoTunnels
  BY DEF NewUser
<1> QED
  BY <1>1, <1>3, <1>4 DEF Sound

\* A change of a user that leaves her plan.
LEMMA SamePlanIsSound ==
  ASSUME NEW config, Sound(config), NEW u \in Users, NEW user \in Profile(u),
         user.plan = config[u].plan
  PROVE  Sound([config EXCEPT ![u] = user])
BY DEF Sound

\* Ports are given out that no plan has, each one once.
LEMMA NewPlanIsSound ==
  ASSUME Sound(memory), NEW u \in Users, NEW names \in SUBSET NamesOf[u],
         NEW given \in NewPlans(u, names)
  PROVE  /\ Sound([memory EXCEPT ![u].plan = given])
         /\ given \in Plans(u)
<1> DEFINE old == memory[u].plan
           kept == names \cap DOMAIN old
<1>1. /\ given \in [names -> Ports] /\ IsInjective(given)
      /\ \A n \in kept : given[n] = old[n]
      /\ {given[n] : n \in names \ kept} \subseteq Ports \ PortsUsed
  BY DEF NewPlans, Lowest
<1>2. given \in Plans(u)
  BY <1>1 DEF Plans
<1>3. [memory[u] EXCEPT !.plan = given] \in Profile(u)
  BY <1>2 DEF Sound, Profile
<1>4. [memory EXCEPT ![u].plan = given] = [memory EXCEPT ![u] = [memory[u] EXCEPT !.plan = given]]
  BY DEF Sound
<1> DEFINE new == [memory EXCEPT ![u] = [memory[u] EXCEPT !.plan = given]]
<1>5. /\ new[u].plan = given /\ new[u] \in Profile(u) /\ DOMAIN new = Users
      /\ \A v \in Users : v # u => new[v] = memory[v]
  BY <1>3 DEF Sound, Profile
<1> HIDE DEF new
<1>6. \A m, n \in DOMAIN given : given[m] = given[n] => m = n
  BY <1>1 DEF IsInjective
<1>7. ASSUME NEW v \in Users, v # u, NEW m \in DOMAIN given, NEW n \in DOMAIN memory[v].plan
      PROVE  given[m] # memory[v].plan[n]
  <2>1. CASE m \in kept
    BY <1>1, <1>7, <2>1 DEF Sound
  <2>2. CASE m \notin kept
    <3>1. given[m] \notin PortsUsed
      BY <1>1, <1>7, <2>2
    <3>2. memory[v].plan[n] \in PortsUsed
      BY <1>7 DEF PortsUsed, PortsIn, Range
    <3> QED
      BY <3>1, <3>2
  <2> QED
    BY <2>1, <2>2
<1>8. Sound(new)
  BY <1>5, <1>6, <1>7 DEF Sound
<1> QED
  BY <1>2, <1>4, <1>8 DEF new

\* A quota that is spent, or granted.
LEMMA SpentIsSound ==
  ASSUME NEW config, Sound(config), NEW u \in Users, NEW spent \in BOOLEAN
  PROVE  /\ Sound([config EXCEPT ![u].spent = spent])
         /\ \A v \in Users : /\ [config EXCEPT ![u].spent = spent][v].plan = config[v].plan
                             /\ [config EXCEPT ![u].spent = spent][v].key = config[v].key
<1> DEFINE user == [config[u] EXCEPT !.spent = spent]
<1>1. config[u] \in Profile(u) /\ DOMAIN config = Users
  BY DEF Sound
<1>2. user \in Profile(u) /\ user.plan = config[u].plan /\ user.key = config[u].key
  <2>1. spent \in BOOLEAN
    OBVIOUS
  <2> QED
    BY <1>1, <2>1 DEF Profile
<1>3. [config EXCEPT ![u].spent = spent] = [config EXCEPT ![u] = user]
  BY <1>1
<1> HIDE DEF user
<1>4. Sound([config EXCEPT ![u] = user])
  BY <1>2, SamePlanIsSound
<1> QED
  BY <1>1, <1>2, <1>3, <1>4

\* A key that is rotated.
LEMMA RotatedIsSound ==
  ASSUME NEW config, Sound(config), NEW u \in Users, config[u].key < MaxKey[u]
  PROVE  Sound([config EXCEPT ![u].key = @ + 1])
<1> DEFINE user == [config[u] EXCEPT !.key = @ + 1]
<1>1. config[u] \in Profile(u) /\ DOMAIN config = Users
  BY DEF Sound
<1>2. user \in Profile(u) /\ user.plan = config[u].plan
  <2>1. config[u].key + 1 \in 0..MaxKey[u]
    BY <1>1, Constant DEF Profile
  <2> QED
    BY <1>1, <2>1 DEF Profile
<1>3. [config EXCEPT ![u].key = @ + 1] = [config EXCEPT ![u] = user]
  BY <1>1
<1> HIDE DEF user
<1> QED
  BY <1>2, <1>3, SamePlanIsSound

-----------------------------------------------------------------------------
(* The steps.                                                              *)

\* The API's answers and the keys that are typed in.
LEMMA AnswersInv ==
  ASSUME PluginInv, NEW c \in Clients,
         LoginRead(c) \/ LoginAnswer(c) \/ List(c) \/ TypeKey(c)
  PROVE  PluginInv'
<1>1. /\ Sound(memory) /\ Sound(stored) /\ Answers /\ InFrps /\ UserOf[c] \in Users
      /\ memory[UserOf[c]] \in Profile(UserOf[c]) /\ stored[UserOf[c]] \in Profile(UserOf[c])
  BY Constant DEF PluginInv, Sound
<1>2. UNCHANGED <<memory, stored, frps, session, open, left>>
  BY DEF LoginRead, LoginAnswer, List, TypeKey, inFrps
<1>3. /\ Sound(memory)' /\ Sound(stored)' /\ InFrps' /\ SessionsHaveTheKey'
      /\ \A q \in open' : Rightly(q)'
  BY <1>1, <1>2 DEF PluginInv, Sound, InFrps, SessionsHaveTheKey, Rightly, Right
<1>4. CASE LoginRead(c)
  <2>1. [spent |-> memory[UserOf[c]].spent, plan |-> memory[UserOf[c]].plan]
          \in [spent : BOOLEAN, plan : Plans(UserOf[c])]
    BY <1>1 DEF Profile
  <2>2. Answers'
    BY <1>1, <1>4, <2>1 DEF LoginRead, Answers
  <2> QED
    BY <1>3, <2>2 DEF PluginInv
<1>5. CASE LoginAnswer(c)
  <2> DEFINE t == [token |-> ~ reading[c].spent /\ frps = "on", plan |-> reading[c].plan]
  <2>1. reading[c].plan \in Plans(UserOf[c])
    BY <1>1, <1>5 DEF LoginAnswer, Answers
  <2>2. (~ reading[c].spent /\ frps = "on") \in BOOLEAN
    BY Zenon
  <2>3. reading[c].plan \in UNION {Plans(u) : u \in Users}
    BY <1>1, <2>1
  <2>4. t \in [token : BOOLEAN, plan : UNION {Plans(u) : u \in Users}]
    BY <2>2, <2>3, Zenon
  <2>5. t.plan \in Plans(UserOf[c])
    BY <2>1
  <2>6. /\ told' = [told EXCEPT ![c] = t]
        /\ reading' = [reading EXCEPT ![c] = None]
        /\ UNCHANGED <<frps, key>>
    BY <1>5 DEF LoginAnswer
  <2> HIDE DEF t
  <2>7. Answers'
    BY <1>1, <2>4, <2>5, <2>6 DEF Answers
  <2> QED
    BY <1>3, <2>7 DEF PluginInv
<1>6. CASE List(c)
  <2>1. memory[UserOf[c]].plan \in Plans(UserOf[c])
    BY <1>1 DEF Profile
  <2>2. Answers'
    BY <1>1, <1>6, <2>1 DEF List, Answers
  <2> QED
    BY <1>3, <2>2 DEF PluginInv
<1>7. CASE TypeKey(c)
  <2>1. stored[UserOf[c]].key \in 0..MaxKey[UserOf[c]]
    BY <1>1 DEF Profile
  <2>2. Answers'
    BY <1>1, <1>7, <2>1 DEF TypeKey, Answers
  <2> QED
    BY <1>3, <2>2 DEF PluginInv
<1> QED
  BY <1>4, <1>5, <1>6, <1>7

\* Proxies stay where they came from when a user's plan is replaced, since
\* what leaves it is remembered.
LEMMA SaveInv ==
  ASSUME PluginInv, NEW c \in Clients, NEW names \in SUBSET NamesOf[UserOf[c]], Save(c, names)
  PROVE  PluginInv'
<1> DEFINE u == UserOf[c]
<1>1. u \in Users /\ Sound(memory) /\ Answers /\ InFrps
  BY Constant DEF PluginInv
<1>2. PICK given \in NewPlans(u, names) :
        /\ memory' = [memory EXCEPT ![u].plan = given]
        /\ stored' = memory'
        /\ told' = [told EXCEPT ![c].plan = given]
        /\ left' = {q \in left \cup {p \in open : Right(p)} : ~ Right(q)'}
  BY DEF Save
<1>3. UNCHANGED <<frps, key, reading, session, open>>
  BY DEF Save, inFrps
<1>4. Sound(memory)' /\ Sound(stored)' /\ given \in Plans(u)
  <2>1. Sound([memory EXCEPT ![u].plan = given]) /\ given \in Plans(u)
    BY <1>1, NewPlanIsSound
  <2>2. Sound(memory') /\ Sound(stored')
    BY <1>2, <2>1
  <2> QED
    BY <2>1, <2>2 DEF Sound
<1>5. /\ \A v \in Users : memory'[v].key = memory[v].key
      /\ \A v \in Users : v # u => memory'[v] = memory[v]
  BY <1>1, <1>2 DEF Sound, Profile
<1>6. Answers'
  <2>1. given \in UNION {Plans(v) : v \in Users}
    BY <1>1, <1>4
  <2> QED
    BY <1>1, <1>2, <1>3, <1>4, <2>1 DEF Answers
<1>7. InFrps' /\ SessionsHaveTheKey'
  <2>1. left' \subseteq open'
    BY <1>1, <1>2, <1>3 DEF InFrps
  <2> QED
    BY <1>1, <1>3, <1>5, <2>1, Constant DEF PluginInv, InFrps, SessionsHaveTheKey
<1>8. ASSUME NEW q \in open
      PROVE  Rightly(q)'
  <2>1. Right(q) \/ q \in left
    BY <1>8 DEF PluginInv, Rightly
  <2>2. Right(q)' \/ q \in left'
    BY <1>2, <2>1
  <2> QED
    BY <2>2 DEF Rightly
<1> QED
  BY <1>3, <1>4, <1>6, <1>7, <1>8 DEF PluginInv

\* Quotas and keys.
LEMMA UsersInv ==
  ASSUME PluginInv, NEW u \in Users, Spend(u) \/ RotateKey(u) \/ GrantQuota(u)
  PROVE  PluginInv'
<1>1. Sound(memory) /\ Sound(stored) /\ Answers /\ InFrps
  BY DEF PluginInv
<1>2. UNCHANGED <<frps, key, reading, told, session, open, left>>
  BY DEF Spend, RotateKey, GrantQuota, clients, inFrps
<1>3. Answers' /\ InFrps'
  BY <1>1, <1>2 DEF Answers, InFrps
<1>4. CASE Spend(u)
  <2>1. memory' = [memory EXCEPT ![u].spent = TRUE] /\ stored' = memory'
    BY <1>4 DEF Spend
  <2>2. /\ Sound(memory') /\ Sound(stored')
        /\ \A v \in Users : memory'[v].plan = memory[v].plan /\ memory'[v].key = memory[v].key
    <3> DEFINE new == [memory EXCEPT ![u].spent = TRUE]
    <3>1. TRUE \in BOOLEAN
      OBVIOUS
    <3>2. /\ Sound(new)
          /\ \A v \in Users : new[v].plan = memory[v].plan /\ new[v].key = memory[v].key
      BY <1>1, <3>1, SpentIsSound
    <3>3. memory' = new /\ stored' = new
      BY <2>1
    <3> HIDE DEF new
    <3> QED
      BY <3>2, <3>3
  <2>3. SessionsHaveTheKey' /\ \A q \in open' : Rightly(q)'
    BY <1>1, <1>2, <2>2, Constant DEF PluginInv, SessionsHaveTheKey, Rightly, Right, InFrps
  <2> QED
    BY <1>3, <2>2, <2>3 DEF PluginInv, Sound
<1>5. CASE RotateKey(u) \/ GrantQuota(u)
  <2>1. memory' = memory /\ Sound(stored')
    <3>1. CASE RotateKey(u)
      BY <1>1, <3>1, RotatedIsSound DEF RotateKey
    <3>2. CASE GrantQuota(u)
      <4>1. FALSE \in BOOLEAN
        OBVIOUS
      <4> QED
        BY <1>1, <3>2, <4>1, SpentIsSound DEF GrantQuota
    <3> QED
      BY <1>5, <3>1, <3>2
  <2>2. SessionsHaveTheKey' /\ \A q \in open' : Rightly(q)'
    BY <1>2, <2>1 DEF PluginInv, SessionsHaveTheKey, Rightly, Right
  <2> QED
    BY <1>1, <1>3, <2>1, <2>2 DEF PluginInv, Sound
<1> QED
  BY <1>4, <1>5

\* FRPS, its plugin, and the restart.
LEMMA FrpsInv ==
  ASSUME PluginInv,
         \/ Restart \/ FrpsListens
         \/ \E c \in Clients : PluginLogin(c) \/ Disconnect(c)
         \/ \E c \in Clients : \E n \in NamesOf[UserOf[c]] : PluginNewProxy(c, n)
         \/ \E q \in open : Close(q)
  PROVE  PluginInv'
<1>1. Sound(memory) /\ Sound(stored) /\ Answers /\ InFrps
  BY DEF PluginInv
<1>2. CASE Restart
  <2>1. /\ memory' = stored /\ stored' = stored /\ frps' = "starting" /\ open' = {} /\ left' = {}
        /\ reading' = [c \in Clients |-> None] /\ session' = [c \in Clients |-> None]
        /\ UNCHANGED <<key, told>>
    BY <1>2 DEF Restart
  <2>2. Answers' /\ InFrps' /\ SessionsHaveTheKey'
    BY <1>1, <2>1 DEF Answers, InFrps, SessionsHaveTheKey
  <2>3. Sound(memory)' /\ Sound(stored)'
    BY <1>1, <2>1 DEF Sound
  <2> QED
    BY <2>1, <2>2, <2>3 DEF PluginInv
<1>3. CASE FrpsListens
  <2>1. frps' = "on" /\ UNCHANGED <<memory, stored, key, reading, told, session, open, left>>
    BY <1>3 DEF FrpsListens, clients, inFrps
  <2> QED
    BY <1>1, <2>1 DEF PluginInv, Sound, Answers, InFrps, SessionsHaveTheKey, Rightly, Right
<1>4. ASSUME NEW c \in Clients, PluginLogin(c) PROVE PluginInv'
  <2>1. /\ session' = [session EXCEPT ![c] = key[c]] /\ key[c] = memory[UserOf[c]].key
        /\ session[c] = None
        /\ UNCHANGED <<memory, stored, frps, key, reading, told, open, left>>
    BY <1>4 DEF PluginLogin, clients
  <2>2. key[c] # None /\ key[c] \in 0..MaxKey[UserOf[c]]
    BY <1>1, PluginConstants DEF Answers
  <2>3. InFrps' /\ SessionsHaveTheKey'
    BY <1>1, <2>1, <2>2 DEF InFrps, SessionsHaveTheKey, PluginInv
  <2>4. Sound(memory)' /\ Sound(stored)' /\ Answers' /\ \A q \in open' : Rightly(q)'
    BY <1>1, <2>1 DEF Sound, Answers, PluginInv, Rightly, Right
  <2> QED
    BY <2>3, <2>4 DEF PluginInv
<1>5. ASSUME NEW c \in Clients, Disconnect(c) PROVE PluginInv'
  <2>1. /\ session' = [session EXCEPT ![c] = None]
        /\ open' = {q \in open : q.by # c} /\ left' = left \cap open'
        /\ UNCHANGED <<memory, stored, frps, key, reading, told>>
    BY <1>5 DEF Disconnect, clients
  <2>2. InFrps' /\ SessionsHaveTheKey'
    BY <1>1, <2>1 DEF InFrps, SessionsHaveTheKey, PluginInv
  <2>3. Sound(memory)' /\ Sound(stored)' /\ Answers' /\ \A q \in open' : Rightly(q)'
    BY <1>1, <2>1 DEF Sound, Answers, PluginInv, Rightly, Right
  <2> QED
    BY <2>2, <2>3 DEF PluginInv
<1>6. ASSUME NEW c \in Clients, NEW n \in NamesOf[UserOf[c]], PluginNewProxy(c, n)
      PROVE  PluginInv'
  <2> DEFINE new == [by |-> c, name |-> n, port |-> told[c].plan[n]]
  <2>1. /\ session[c] # None /\ n \in DOMAIN told[c].plan
        /\ Registered(UserOf[c], n, told[c].plan[n])
        /\ open' = open \cup {new}
        /\ UNCHANGED <<memory, stored, frps, key, reading, told, session, left>>
    BY <1>6 DEF PluginNewProxy, clients
  <2>2. new \in [by : Clients, name : Names, port : Ports] /\ new.by = c
        /\ new.name = n /\ new.port = told[c].plan[n]
    BY <1>1, <2>1, Constant, PlanValues DEF Answers
  <2> HIDE DEF new
  <2>3. InFrps' /\ SessionsHaveTheKey'
    BY <1>1, <2>1, <2>2 DEF InFrps, SessionsHaveTheKey, PluginInv
  <2>4. Rightly(new)
    BY <2>1, <2>2 DEF Rightly, Right, Registered
  <2>5. Sound(memory)' /\ Sound(stored)'
    BY <1>1, <2>1 DEF Sound
  <2>6. Answers'
    BY <1>1, <2>1 DEF Answers
  <2>7. ASSUME NEW q \in open' PROVE Rightly(q)'
    <3>1. q \in open \/ q = new
      BY <2>1
    <3>2. Rightly(q)
      BY <2>4, <3>1 DEF PluginInv
    <3> QED
      BY <2>1, <3>2 DEF Rightly, Right
  <2> QED
    BY <2>3, <2>5, <2>6, <2>7 DEF PluginInv
<1>7. ASSUME NEW q \in open, Close(q) PROVE PluginInv'
  <2>1. /\ open' = open \ {q} /\ left' = left \ {q}
        /\ UNCHANGED <<memory, stored, frps, key, reading, told, session>>
    BY <1>7 DEF Close, clients
  <2> QED
    BY <1>1, <2>1 DEF PluginInv, Sound, Answers, InFrps, SessionsHaveTheKey, Rightly, Right
<1> QED
  BY <1>2, <1>3, <1>4, <1>5, <1>6, <1>7

-----------------------------------------------------------------------------
(* The theorems.                                                           *)

\* No tunnels, no sessions, nothing told.
LEMMA InitInv == Init => PluginInv
<1> SUFFICES ASSUME Init PROVE PluginInv
  OBVIOUS
<1>1. Sound(memory) /\ Sound(stored)
  BY NewIsSound DEF Init
<1>2. Answers
  <2>1. \A u \in Users : NoTunnels \in Plans(u)
    BY NewIsSound DEF Sound, Profile, NewUser
  <2>2. FALSE \in BOOLEAN
    OBVIOUS
  <2>3. ASSUME NEW c \in Clients
        PROVE  [token |-> FALSE, plan |-> NoTunnels]
                 \in [token : BOOLEAN, plan : UNION {Plans(u) : u \in Users}]
    BY <2>1, <2>2, Constant
  <2> QED
    BY <2>1, <2>3, Constant DEF Init, Answers
<1>3. InFrps /\ SessionsHaveTheKey /\ open = {}
  BY DEF Init, InFrps, SessionsHaveTheKey
<1> QED
  BY <1>1, <1>2, <1>3 DEF PluginInv

\* The inductive invariant of FRPS's plugin.
THEOREM PluginInvariant == Spec => []PluginInv
<1>1. PluginInv /\ [Next]_vars => PluginInv'
  <2> SUFFICES ASSUME PluginInv, [Next]_vars PROVE PluginInv'
    OBVIOUS
  <2>1. CASE Next
    BY <2>1, AnswersInv, SaveInv, UsersInv, FrpsInv DEF Next
  <2>2. CASE UNCHANGED vars
    BY <2>2 DEF vars, PluginInv, Sound, Answers, InFrps, SessionsHaveTheKey, Rightly, Right
  <2> QED
    BY <2>1, <2>2
<1> QED
  BY InitInv, <1>1, PTL DEF Spec

\* The variables keep their types, and no port is in two plans
\* (app.rs allocate_backend_port).
THEOREM PluginTypeCorrect == Spec => []TypeOK
<1>1. PluginInv => TypeOK
  <2> SUFFICES ASSUME PluginInv PROVE TypeOK
    OBVIOUS
  <2>1. \A u \in Users : UserOK(u, memory[u]) /\ UserOK(u, stored[u])
    <3> SUFFICES ASSUME NEW u \in Users PROVE UserOK(u, memory[u]) /\ UserOK(u, stored[u])
      OBVIOUS
    <3>1. memory[u] \in Profile(u) /\ stored[u] \in Profile(u)
      BY DEF PluginInv, Sound
    <3>2. memory[u].spent \in BOOLEAN /\ stored[u].spent \in BOOLEAN
      BY <3>1, Zenon DEF Profile
    <3> QED
      BY <3>1, <3>2 DEF Profile, UserOK
  <2>2. \A u, v \in Users : u # v => PortsIn(memory[u].plan) \cap PortsIn(memory[v].plan) = {}
    BY DEF PluginInv, Sound, PortsIn, Range
  <2>3. \A u \in Users : IsInjective(memory[u].plan)
    BY DEF PluginInv, Sound, IsInjective
  <2>4. \A c \in Clients : reading[c] # None =>
          reading[c].spent \in BOOLEAN /\ reading[c].plan \in Plans(UserOf[c])
    BY Zenon DEF PluginInv, Answers
  <2>5. \A c \in Clients : told[c].token \in BOOLEAN /\ told[c].plan \in Plans(UserOf[c])
    <3>1. \A c \in Clients : told[c].token \in BOOLEAN
      BY Zenon DEF PluginInv, Answers
    <3> QED
      BY <3>1 DEF PluginInv, Answers
  <2> QED
    BY <2>1, <2>2, <2>3, <2>4, <2>5 DEF TypeOK, PluginInv, Answers, InFrps
<1> QED
  BY <1>1, PluginInvariant, PTL

\* Whoever is logged in is so with the key that counts, and proxies belong to
\* such sessions (app.rs plugin_login_response, plugin_proxy_response).
THEOREM SessionsTheorem == Spec => []SessionsHaveTheKey
<1>1. PluginInv => SessionsHaveTheKey
  BY DEF PluginInv
<1> QED
  BY <1>1, PluginInvariant, PTL

\* What waits on a tunnel's back-end port is its own proxy, or one whose tunnel
\* left the plan while it was open, for any users, names and ports, whoever asks
\* for which name (app.rs plugin_proxy_response, allocate_backend_port).
THEOREM RoutedTheorem == Spec => []RoutedToOwnerOrLeft
<1>1. PluginInv => RoutedToOwnerOrLeft
  <2> SUFFICES ASSUME PluginInv, NEW u \in Users, NEW n \in DOMAIN memory[u].plan,
                      NEW q \in open, q.port = memory[u].plan[n], q \notin left
               PROVE  UserOf[q.by] = u /\ q.name = n
    BY DEF RoutedToOwnerOrLeft
  <2> DEFINE v == UserOf[q.by]
  <2>1. /\ v \in Users /\ q.name \in DOMAIN memory[v].plan
        /\ memory[v].plan[q.name] = memory[u].plan[n]
    BY Constant DEF PluginInv, InFrps, Rightly, Right
  <2> QED
    BY <2>1 DEF PluginInv, Sound
<1> QED
  BY <1>1, PluginInvariant, PTL

-----------------------------------------------------------------------------
(* The records.                                                            *)

RecordsTyped ==
    /\ plan \in [Owners -> SUBSET Names] /\ carried \in [Owners -> SUBSET Names]
    /\ used \in [Owners -> Nat] /\ shared \subseteq Owners
    /\ pending \in [Owners -> [Names -> Nat]]
    /\ DOMAIN records = Owners
    /\ \A u \in Owners : Amounts(records[u], Names)
    /\ usedThen \in [Owners -> 0..MaxBytes] /\ shownThen \in [Owners -> 0..MaxBytes]

\* What users are billed and what they are shown are each within the bound with
\* what is not flushed yet, and both have grown by the same amount.
Billed ==
    \A u \in Owners :
        /\ used[u] + Records!Sum(pending[u]) <= MaxBytes
        /\ Records!Sum(records[u]) + Records!Sum(pending[u]) <= MaxBytes
        /\ u \notin shared =>
               used[u] + shownThen[u] = Records!Sum(records[u]) + usedThen[u]

\* Every row is of a user who has its record, with its bytes, and every record
\* has a row.
RowsRight(recs, rows) ==
    /\ DOMAIN rows \subseteq Names
    /\ \A n \in DOMAIN rows :
          /\ rows[n] \in [user : Owners, bytes : Nat]
          /\ n \in DOMAIN recs[rows[n].user]
          /\ rows[n].bytes = recs[rows[n].user][n]
    /\ \A u \in Owners : DOMAIN recs[u] \subseteq DOMAIN rows

RecordsInv == RecordsTyped /\ Billed /\ RowsRight(records, table)

\* The row of a name is of a user who has its record.
LEMMA WriterHasIt ==
  ASSUME NEW recs, NEW n, Records!Having(n, recs) # {}
  PROVE  Records!Writer(n, recs) \in Owners /\ n \in DOMAIN recs[Records!Writer(n, recs)]
<1> DEFINE S == Records!Having(n, recs)
<1>1. S \subseteq Owners /\ \A u \in S : n \in DOMAIN recs[u]
  BY DEF Records!Having
<1> HIDE DEF S
<1>2. S \in SUBSET Nat /\ IsFiniteSet(S) /\ S # {}
  BY <1>1, FS_Subset, RecordConstants DEF S
<1>3. \E u \in S : \A m \in S : u >= m
  BY <1>2, GreatestNatural
<1>4. Records!Max(S) \in S
  BY <1>3 DEF Records!Max
<1> QED
  BY <1>1, <1>4 DEF S, Records!Writer

\* What write_snapshot leaves, when no record has gone whose row is there.
LEMMA RowsWritten ==
  ASSUME NEW recs, NEW rows, NEW before,
         DOMAIN before \subseteq Names,
         \A n \in DOMAIN before :
             before[n].user \in Owners /\ n \in DOMAIN recs[before[n].user],
         \A u \in Owners : Amounts(recs[u], Names),
         rows = [n \in DOMAIN before \cup UNION {DOMAIN recs[u] : u \in Owners} |->
                   IF Records!Having(n, recs) = {} THEN before[n]
                   ELSE [user |-> Records!Writer(n, recs),
                         bytes |-> recs[Records!Writer(n, recs)][n]]]
  PROVE  RowsRight(recs, rows)
<1>1. \A u \in Owners : DOMAIN recs[u] \subseteq Names /\ recs[u] \in [DOMAIN recs[u] -> Nat]
  BY DEF Amounts
<1>2. DOMAIN rows = DOMAIN before \cup UNION {DOMAIN recs[u] : u \in Owners}
  OBVIOUS
<1>3. DOMAIN rows \subseteq Names /\ \A u \in Owners : DOMAIN recs[u] \subseteq DOMAIN rows
  BY <1>1, <1>2
<1>4. ASSUME NEW n \in DOMAIN rows
      PROVE  /\ rows[n] \in [user : Owners, bytes : Nat]
             /\ n \in DOMAIN recs[rows[n].user]
             /\ rows[n].bytes = recs[rows[n].user][n]
  <2>1. PICK u \in Owners : n \in DOMAIN recs[u]
    BY <1>2
  <2>2. Records!Having(n, recs) # {}
    BY <2>1 DEF Records!Having
  <2> DEFINE w == Records!Writer(n, recs)
  <2>3. w \in Owners /\ n \in DOMAIN recs[w]
    BY <2>2, WriterHasIt
  <2>4. rows[n] = [user |-> w, bytes |-> recs[w][n]]
    BY <1>2, <2>2
  <2> HIDE DEF w
  <2>5. recs[w][n] \in Nat
    BY <1>1, <2>3
  <2> QED
    BY <2>3, <2>4, <2>5
<1> QED
  BY <1>3, <1>4 DEF RowsRight

LEMMA PendingAmounts ==
  ASSUME NEW p, p \in [Owners -> [Names -> Nat]], NEW u \in Owners
  PROVE  Amounts(p[u], Names) /\ Records!Sum(p[u]) \in Nat
<1>1. Amounts(p[u], Names)
  BY DEF Amounts
<1> QED
  BY <1>1, SumNatural, RecordConstants

LEMMA RecordAmounts ==
  ASSUME NEW u \in Owners, RecordsTyped
  PROVE  Amounts(records[u], Names) /\ Records!Sum(records[u]) \in Nat
<1>1. Amounts(records[u], Names)
  BY DEF RecordsTyped
<1> QED
  BY <1>1, SumNatural, RecordConstants

\* Nothing is waiting to be flushed.
LEMMA NothingPending ==
  /\ Records!NoBytes \in [Owners -> [Names -> Nat]]
  /\ \A u \in Owners : Records!Sum(Records!NoBytes[u]) = 0
<1>1. Records!NoBytes \in [Owners -> [Names -> Nat]]
  BY DEF Records!NoBytes
<1>2. ASSUME NEW u \in Owners PROVE Records!Sum(Records!NoBytes[u]) = 0
  <2>1. Amounts(Records!NoBytes[u], Names)
    BY <1>1, PendingAmounts
  <2>2. \A x \in DOMAIN Records!NoBytes[u] : Records!NoBytes[u][x] = 0
    BY DEF Records!NoBytes
  <2> QED
    BY <2>1, <2>2, SumOfZeros, RecordConstants
<1> QED
  BY <1>1, <1>2

\* There is no record.
LEMMA NoRecord ==
  Amounts(Records!Empty, Names) /\ Records!Sum(Records!Empty) = 0
<1>1. DOMAIN Records!Empty = {} /\ Amounts(Records!Empty, Names)
  BY DEF Records!Empty, Amounts
<1> QED
  BY <1>1, SumOfZeros, RecordConstants

LEMMA RecordsStart ==
  ASSUME Records!Init
  PROVE  RecordsInv
<1>1. /\ plan = [u \in Owners |-> {}] /\ carried = [u \in Owners |-> {}]
      /\ used = [u \in Owners |-> 0] /\ shared = {}
      /\ records = [u \in Owners |-> Records!Empty] /\ table = Records!Empty
      /\ pending = Records!NoBytes /\ usedThen = used /\ shownThen = used
  BY DEF Records!Init
<1>2. RecordsTyped
  <2>1. 0 \in 0..MaxBytes
    BY RecordConstants
  <2> QED
    BY <1>1, <2>1, NoRecord, NothingPending DEF RecordsTyped
<1>3. Billed
  <2>1. ASSUME NEW u \in Owners
        PROVE  /\ used[u] = 0 /\ Records!Sum(pending[u]) = 0
               /\ Records!Sum(records[u]) = 0 /\ usedThen[u] = 0 /\ shownThen[u] = 0
    BY <1>1, NoRecord, NothingPending
  <2>2. ASSUME NEW u \in Owners
        PROVE  /\ used[u] + Records!Sum(pending[u]) <= MaxBytes
               /\ Records!Sum(records[u]) + Records!Sum(pending[u]) <= MaxBytes
               /\ used[u] + shownThen[u] = Records!Sum(records[u]) + usedThen[u]
    <3>1. /\ used[u] = 0 /\ Records!Sum(pending[u]) = 0
          /\ Records!Sum(records[u]) = 0 /\ usedThen[u] = 0 /\ shownThen[u] = 0
      BY <2>1
    <3>2. MaxBytes \in Nat
      BY RecordConstants
    <3> QED
      BY <3>1, <3>2
  <2> QED
    BY <2>2 DEF Billed
<1>4. RowsRight(records, table)
  BY <1>1 DEF RowsRight, Records!Empty
<1> QED
  BY <1>2, <1>3, <1>4 DEF RecordsInv

-----------------------------------------------------------------------------
(* The steps.                                                              *)

\* The names whose record a save makes count nothing.
LEMMA SaveStep ==
  ASSUME RecordsInv, NEW u \in Owners, NEW names \in SUBSET Names, Records!Save(u, names)
  PROVE  RecordsInv'
<1> DEFINE h == Records!AfterSave(u, names)
<1>1. RecordsTyped /\ Billed /\ RowsRight(records, table)
  BY DEF RecordsInv
<1>2. /\ plan' = [plan EXCEPT ![u] = names] /\ carried' = [carried EXCEPT ![u] = @ \cup names]
      /\ records' = [records EXCEPT ![u] = h] /\ Records!WriteRecords(records')
      /\ used' = used /\ pending' = pending /\ shared' = shared
      /\ usedThen' = usedThen /\ shownThen' = shownThen
  BY DEF Records!Save, Records!sinceSet
<1>3. Amounts(records[u], Names) /\ records[u] \in [DOMAIN records[u] -> Nat]
      /\ DOMAIN records[u] \subseteq Names
  BY <1>1, RecordAmounts DEF Amounts
<1>4. DOMAIN h = DOMAIN records[u] \cup names
  BY DEF Records!AfterSave
<1>5. Amounts(h, Names)
  BY <1>3 DEF Amounts, Records!AfterSave, Records!BytesOf
<1>6. AddUp(Names, records[u], Records!Empty, h)
  <2>1. ASSUME NEW n \in Names
        PROVE  Of(h, n) = Of(records[u], n) /\ Of(Records!Empty, n) = 0
               /\ Of(records[u], n) \in Nat
    BY <1>3 DEF Of, Records!AfterSave, Records!BytesOf, Records!Empty
  <2>2. ASSUME NEW n \in Names PROVE Of(h, n) = Of(records[u], n) + Of(Records!Empty, n)
    BY <2>1
  <2> QED
    BY <2>2 DEF AddUp
<1> HIDE DEF h
<1>7. Records!Sum(h) = Records!Sum(records[u])
  <2>1. Records!Sum(h) = Records!Sum(records[u]) + Records!Sum(Records!Empty)
    BY <1>3, <1>5, <1>6, NoRecord, SumsAddUp, RecordConstants
  <2> QED
    BY <1>1, <2>1, NoRecord, RecordAmounts
<1>8. DOMAIN records = Owners /\ DOMAIN records' = Owners /\ records'[u] = h
      /\ \A v \in Owners : v # u => records'[v] = records[v]
  BY <1>1, <1>2 DEF RecordsTyped
<1>9. \A v \in Owners : /\ Amounts(records'[v], Names)
                         /\ DOMAIN records[v] \subseteq DOMAIN records'[v]
                         /\ Records!Sum(records'[v]) = Records!Sum(records[v])
  BY <1>1, <1>4, <1>5, <1>7, <1>8, RecordAmounts
<1>10. RecordsTyped'
  BY <1>1, <1>2, <1>8, <1>9 DEF RecordsTyped
<1>11. Billed'
  BY <1>1, <1>2, <1>9 DEF Billed
<1>12. RowsRight(records', table')
  <2> DEFINE recs == records'
  <2>1. /\ DOMAIN table \subseteq Names
        /\ \A n \in DOMAIN table :
              table[n].user \in Owners /\ n \in DOMAIN records[table[n].user]
    BY <1>1 DEF RowsRight
  <2>2. \A n \in DOMAIN table : table[n].user \in Owners /\ n \in DOMAIN recs[table[n].user]
    BY <1>9, <2>1
  <2>3. \A v \in Owners : Amounts(recs[v], Names)
    BY <1>9
  <2>4. table' = [n \in DOMAIN table \cup UNION {DOMAIN recs[v] : v \in Owners} |->
                   IF Records!Having(n, recs) = {} THEN table[n]
                   ELSE [user |-> Records!Writer(n, recs),
                         bytes |-> recs[Records!Writer(n, recs)][n]]]
    BY <1>2 DEF Records!WriteRecords
  <2> HIDE DEF recs
  <2>5. RowsRight(recs, table')
    BY <2>1, <2>2, <2>3, <2>4, RowsWritten
  <2> QED
    BY <2>5 DEF recs
<1> QED
  BY <1>10, <1>11, <1>12 DEF RecordsInv

LEMMA TrafficStep ==
  ASSUME RecordsInv, NEW u \in Owners, NEW n \in Names, Records!Traffic(u, n)
  PROVE  RecordsInv'
<1> DEFINE h == pending'[u]
           one == [m \in {n} |-> 1]
<1>1. RecordsTyped /\ Billed /\ RowsRight(records, table)
  BY DEF RecordsInv
<1>2. /\ used[u] + Records!Sum(pending[u]) < MaxBytes
      /\ Records!Sum(records[u]) + Records!Sum(pending[u]) < MaxBytes
      /\ pending' = [pending EXCEPT ![u][n] = @ + 1]
      /\ plan' = plan /\ used' = used /\ records' = records /\ table' = table
      /\ carried' = carried /\ shared' = shared
      /\ usedThen' = usedThen /\ shownThen' = shownThen
  BY DEF Records!Traffic, Records!sinceSet
<1>3. pending \in [Owners -> [Names -> Nat]] /\ used \in [Owners -> Nat]
  BY <1>1 DEF RecordsTyped
<1>4. pending' \in [Owners -> [Names -> Nat]]
  BY <1>2, <1>3
<1>5. \A v \in Owners : v # u => pending'[v] = pending[v]
  BY <1>2, <1>3
<1>6. AddUp(Names, pending[u], one, h)
  <2>1. pending[u] \in [Names -> Nat] /\ h = [pending[u] EXCEPT ![n] = @ + 1]
    BY <1>2, <1>3
  <2>2. ASSUME NEW m \in Names PROVE Of(h, m) = Of(pending[u], m) + Of(one, m)
    BY <2>1 DEF Of
  <2> QED
    BY <2>2 DEF AddUp
<1>7. Amounts(one, Names) /\ Records!Sum(one) = 1
  BY SumOfOne, RecordConstants
<1>8. Amounts(pending[u], Names) /\ Records!Sum(pending[u]) \in Nat /\ Amounts(h, Names)
  BY <1>3, <1>4, PendingAmounts
<1> HIDE DEF h, one
<1>9. Records!Sum(h) = Records!Sum(pending[u]) + 1
  BY <1>6, <1>7, <1>8, SumsAddUp, RecordConstants
<1>10. /\ used[u] + Records!Sum(h) <= MaxBytes
       /\ Records!Sum(records[u]) + Records!Sum(h) <= MaxBytes
  BY <1>1, <1>2, <1>3, <1>8, <1>9, RecordAmounts, RecordConstants
<1>11. RecordsTyped'
  BY <1>1, <1>2, <1>4 DEF RecordsTyped
<1>12. Billed'
  BY <1>1, <1>2, <1>5, <1>10 DEF Billed, h
<1> QED
  BY <1>1, <1>2, <1>11, <1>12 DEF RecordsInv

\* What was pending is shown and billed.
LEMMA FlushStep ==
  ASSUME RecordsInv, Records!Flush
  PROVE  RecordsInv'
<1>1. RecordsTyped /\ Billed /\ RowsRight(records, table)
  BY DEF RecordsInv
<1>2. /\ used' = [u \in Owners |-> used[u] + Records!Sum(pending[u])]
      /\ records' = [u \in Owners |-> Records!AfterFlush(u)]
      /\ Records!WriteRecords(records') /\ pending' = Records!NoBytes
      /\ plan' = plan /\ carried' = carried /\ shared' = shared
      /\ usedThen' = usedThen /\ shownThen' = shownThen
  BY DEF Records!Flush, Records!sinceSet
<1>3. ASSUME NEW u \in Owners
      PROVE  /\ Amounts(records'[u], Names)
             /\ DOMAIN records[u] \subseteq DOMAIN records'[u]
             /\ Records!Sum(records'[u]) = Records!Sum(records[u]) + Records!Sum(pending[u])
  <2> DEFINE h == Records!AfterFlush(u)
  <2>1. records'[u] = h
    BY <1>2
  <2>2. Amounts(records[u], Names) /\ records[u] \in [DOMAIN records[u] -> Nat]
        /\ DOMAIN records[u] \subseteq Names
    BY <1>1, RecordAmounts DEF Amounts
  <2>3. pending[u] \in [Names -> Nat] /\ Amounts(pending[u], Names)
    BY <1>1, PendingAmounts DEF RecordsTyped
  <2>4. Amounts(h, Names) /\ DOMAIN records[u] \subseteq DOMAIN h
    BY <2>2, <2>3 DEF Amounts, Records!AfterFlush, Records!BytesOf
  <2>5. AddUp(Names, records[u], pending[u], h)
    <3>1. ASSUME NEW n \in Names PROVE Of(h, n) = Of(records[u], n) + Of(pending[u], n)
      BY <2>2, <2>3 DEF Of, Records!AfterFlush, Records!BytesOf
    <3> QED
      BY <3>1 DEF AddUp
  <2> HIDE DEF h
  <2>6. Records!Sum(h) = Records!Sum(records[u]) + Records!Sum(pending[u])
    BY <2>2, <2>3, <2>4, <2>5, SumsAddUp, RecordConstants
  <2> QED
    BY <2>1, <2>4, <2>6
<1>4. ASSUME NEW u \in Owners
      PROVE  /\ used[u] \in Nat /\ Records!Sum(pending[u]) \in Nat
             /\ Records!Sum(records[u]) \in Nat
             /\ usedThen[u] \in Nat /\ shownThen[u] \in Nat
  BY <1>1, PendingAmounts, RecordAmounts DEF RecordsTyped
<1>5. RecordsTyped'
  <2>1. used' \in [Owners -> Nat]
    BY <1>2, <1>4
  <2>2. DOMAIN records' = Owners /\ pending' \in [Owners -> [Names -> Nat]]
    BY <1>2, NothingPending
  <2> QED
    BY <1>1, <1>2, <1>3, <2>1, <2>2 DEF RecordsTyped
<1>6. Billed'
  <2> SUFFICES ASSUME NEW u \in Owners
               PROVE  /\ used'[u] + Records!Sum(pending'[u]) <= MaxBytes
                      /\ Records!Sum(records'[u]) + Records!Sum(pending'[u]) <= MaxBytes
                      /\ u \notin shared' =>
                            used'[u] + shownThen'[u]
                              = Records!Sum(records'[u]) + usedThen'[u]
    BY DEF Billed
  <2>1. used'[u] = used[u] + Records!Sum(pending[u]) /\ Records!Sum(pending'[u]) = 0
    BY <1>2, NothingPending
  <2>2. /\ used[u] + Records!Sum(pending[u]) <= MaxBytes
        /\ Records!Sum(records[u]) + Records!Sum(pending[u]) <= MaxBytes
        /\ u \notin shared => used[u] + shownThen[u] = Records!Sum(records[u]) + usedThen[u]
    BY <1>1 DEF Billed
  <2>3. Records!Sum(records'[u]) = Records!Sum(records[u]) + Records!Sum(pending[u])
    BY <1>3
  <2>4. usedThen'[u] = usedThen[u] /\ shownThen'[u] = shownThen[u] /\ shared' = shared
    BY <1>2
  <2> QED
    BY <1>4, <2>1, <2>2, <2>3, <2>4, RecordConstants
<1>7. RowsRight(records', table')
  <2> DEFINE recs == records'
  <2>1. /\ DOMAIN table \subseteq Names
        /\ \A n \in DOMAIN table :
              table[n].user \in Owners /\ n \in DOMAIN records[table[n].user]
    BY <1>1 DEF RowsRight
  <2>2. \A n \in DOMAIN table : table[n].user \in Owners /\ n \in DOMAIN recs[table[n].user]
    BY <1>3, <2>1
  <2>3. \A v \in Owners : Amounts(recs[v], Names)
    BY <1>3
  <2>4. table' = [n \in DOMAIN table \cup UNION {DOMAIN recs[v] : v \in Owners} |->
                   IF Records!Having(n, recs) = {} THEN table[n]
                   ELSE [user |-> Records!Writer(n, recs),
                         bytes |-> recs[Records!Writer(n, recs)][n]]]
    BY <1>2 DEF Records!WriteRecords
  <2> HIDE DEF recs
  <2>5. RowsRight(recs, table')
    BY <2>1, <2>2, <2>3, <2>4, RowsWritten
  <2> QED
    BY <2>5 DEF recs
<1> QED
  BY <1>5, <1>6, <1>7 DEF RecordsInv

\* A start brings back what its user's rows hold: part of the record she had,
\* or all of it.
LEMMA Loading ==
  ASSUME RecordsInv, Records!Load, UNCHANGED <<plan, table>>
  PROVE  /\ \A u \in Owners :
              /\ Amounts(records'[u], Names)
              /\ Records!Sum(records'[u]) \in Nat /\ Records!Sum(records[u]) \in Nat
              /\ Records!Sum(records'[u]) <= Records!Sum(records[u])
              /\ u \notin shared' =>
                    u \notin shared /\ Records!Sum(records'[u]) = Records!Sum(records[u])
              /\ Records!Sum(pending'[u]) = 0
         /\ \A u \in Owners : records'[u] = Records!Loaded(u)
         /\ plan' \in [Owners -> SUBSET Names] /\ carried' \in [Owners -> SUBSET Names]
         /\ shared' \subseteq Owners /\ pending' \in [Owners -> [Names -> Nat]]
         /\ DOMAIN records' = Owners
         /\ RowsRight(records', table')
<1>1. RecordsTyped /\ Billed /\ RowsRight(records, table)
  BY DEF RecordsInv
<1>2. /\ records' = [u \in Owners |-> Records!Loaded(u)]
      /\ shared' = shared \cup {u \in Owners : DOMAIN records[u] # DOMAIN Records!Loaded(u)}
      /\ carried' = plan /\ pending' = Records!NoBytes
      /\ plan' = plan /\ table' = table
  BY DEF Records!Load
<1>3. ASSUME NEW u \in Owners
      PROVE  /\ Amounts(records'[u], Names)
             /\ Records!Sum(records'[u]) \in Nat /\ Records!Sum(records[u]) \in Nat
             /\ Records!Sum(records'[u]) <= Records!Sum(records[u])
             /\ u \notin shared' =>
                   u \notin shared /\ Records!Sum(records'[u]) = Records!Sum(records[u])
             /\ Records!Sum(pending'[u]) = 0
  <2> DEFINE g == Records!Loaded(u)
  <2>1. records'[u] = g /\ (u \notin shared' => DOMAIN records[u] = DOMAIN g /\ u \notin shared)
    BY <1>2
  <2>2. Amounts(records[u], Names) /\ records[u] \in [DOMAIN records[u] -> Nat]
        /\ DOMAIN records[u] \subseteq Names
    BY <1>1, RecordAmounts DEF Amounts
  <2>3. DOMAIN g \subseteq DOMAIN records[u] /\ \A n \in DOMAIN g : g[n] = records[u][n]
    BY <1>1 DEF RowsRight, Records!Loaded
  <2>4. g = [n \in DOMAIN g |-> g[n]]
    BY DEF Records!Loaded
  <2> HIDE DEF g
  <2>5. Amounts(g, Names)
    BY <2>2, <2>3, <2>4 DEF Amounts
  <2>6. Records!Sum(g) <= Records!Sum(records[u])
    BY <2>2, <2>3, <2>5, SumOfPart, RecordConstants
  <2>7. DOMAIN records[u] = DOMAIN g => g = records[u]
    BY <2>2, <2>3, <2>4
  <2>8. Records!Sum(g) \in Nat /\ Records!Sum(records[u]) \in Nat
    BY <2>2, <2>5, SumNatural, RecordConstants
  <2>9. Records!Sum(pending'[u]) = 0
    BY <1>2, NothingPending
  <2> QED
    BY <2>1, <2>5, <2>6, <2>7, <2>8, <2>9
<1>4. /\ plan' \in [Owners -> SUBSET Names] /\ carried' \in [Owners -> SUBSET Names]
      /\ shared' \subseteq Owners /\ pending' \in [Owners -> [Names -> Nat]]
      /\ DOMAIN records' = Owners /\ \A u \in Owners : records'[u] = Records!Loaded(u)
  BY <1>1, <1>2, NothingPending DEF RecordsTyped
<1>5. RowsRight(records', table')
  <2>1. ASSUME NEW n \in DOMAIN table
        PROVE  /\ table[n] \in [user : Owners, bytes : Nat]
               /\ n \in DOMAIN records'[table[n].user]
               /\ table[n].bytes = records'[table[n].user][n]
    <3>1. table[n] \in [user : Owners, bytes : Nat]
      BY <1>1 DEF RowsRight
    <3>2. records'[table[n].user] = Records!Loaded(table[n].user)
      BY <1>2, <3>1
    <3> QED
      BY <3>1, <3>2 DEF Records!Loaded
  <2>2. ASSUME NEW u \in Owners PROVE DOMAIN records'[u] \subseteq DOMAIN table
    BY <1>2 DEF Records!Loaded
  <2>3. DOMAIN table \subseteq Names
    BY <1>1 DEF RowsRight
  <2> QED
    BY <1>2, <2>1, <2>2, <2>3 DEF RowsRight
<1> QED
  BY <1>3, <1>4, <1>5

\* The usage is what was stored.
LEMMA RestartStep ==
  ASSUME RecordsInv, Records!Restart
  PROVE  RecordsInv'
<1>1. RecordsTyped /\ Billed
  BY DEF RecordsInv
<1>2. /\ Records!Load /\ UNCHANGED <<plan, table>>
      /\ used' = used /\ usedThen' = usedThen /\ shownThen' = shownThen
  BY DEF Records!Restart, Records!sinceSet
<1>3. RecordsTyped' /\ RowsRight(records', table')
  BY <1>1, <1>2, Loading DEF RecordsTyped
<1>4. Billed'
  <2> SUFFICES ASSUME NEW u \in Owners
               PROVE  /\ used'[u] + Records!Sum(pending'[u]) <= MaxBytes
                      /\ Records!Sum(records'[u]) + Records!Sum(pending'[u]) <= MaxBytes
                      /\ u \notin shared' =>
                            used'[u] + shownThen'[u]
                              = Records!Sum(records'[u]) + usedThen'[u]
    BY DEF Billed
  <2>1. /\ Records!Sum(records'[u]) \in Nat /\ Records!Sum(records[u]) \in Nat
        /\ Records!Sum(records'[u]) <= Records!Sum(records[u])
        /\ u \notin shared' =>
              u \notin shared /\ Records!Sum(records'[u]) = Records!Sum(records[u])
        /\ Records!Sum(pending'[u]) = 0
    BY <1>2, Loading
  <2>2. /\ used[u] + Records!Sum(pending[u]) <= MaxBytes
        /\ Records!Sum(records[u]) + Records!Sum(pending[u]) <= MaxBytes
        /\ u \notin shared => used[u] + shownThen[u] = Records!Sum(records[u]) + usedThen[u]
    BY <1>1 DEF Billed
  <2>3. used[u] \in Nat /\ Records!Sum(pending[u]) \in Nat
    BY <1>1, PendingAmounts DEF RecordsTyped
  <2> QED
    BY <1>2, <2>1, <2>2, <2>3, RecordConstants
<1> QED
  BY <1>3, <1>4 DEF RecordsInv

\* The usage that is set, and what the records add up to, count from here on.
LEMMA SetUsedStep ==
  ASSUME RecordsInv, NEW u \in Owners, NEW bytes \in 0..MaxBytes,
         Records!SetUsed(u, bytes)
  PROVE  RecordsInv'
<1>1. RecordsTyped /\ Billed
  BY DEF RecordsInv
<1>2. /\ Records!Load /\ UNCHANGED <<plan, table>>
      /\ used' = [used EXCEPT ![u] = bytes]
      /\ usedThen' = [usedThen EXCEPT ![u] = bytes]
      /\ shownThen' = [shownThen EXCEPT ![u] = Records!Sum(Records!Loaded(u))]
  BY DEF Records!SetUsed
<1>3. ASSUME NEW v \in Owners
      PROVE  /\ Records!Sum(records'[v]) \in Nat /\ Records!Sum(records[v]) \in Nat
             /\ Records!Sum(records'[v]) <= Records!Sum(records[v])
             /\ v \notin shared' =>
                   v \notin shared /\ Records!Sum(records'[v]) = Records!Sum(records[v])
             /\ Records!Sum(pending'[v]) = 0
             /\ records'[v] = Records!Loaded(v)
             /\ Records!Sum(records'[v]) <= MaxBytes
  <2>1. /\ Records!Sum(records'[v]) \in Nat /\ Records!Sum(records[v]) \in Nat
        /\ Records!Sum(records'[v]) <= Records!Sum(records[v])
        /\ v \notin shared' =>
              v \notin shared /\ Records!Sum(records'[v]) = Records!Sum(records[v])
        /\ Records!Sum(pending'[v]) = 0
        /\ records'[v] = Records!Loaded(v)
    BY <1>2, Loading
  <2>2. Records!Sum(records[v]) + Records!Sum(pending[v]) <= MaxBytes
        /\ Records!Sum(pending[v]) \in Nat
    BY <1>1, PendingAmounts DEF Billed, RecordsTyped
  <2>3. Records!Sum(records'[v]) <= MaxBytes
    BY <2>1, <2>2, RecordConstants
  <2> QED
    BY <2>1, <2>3
<1>4. /\ used \in [Owners -> Nat] /\ usedThen \in [Owners -> 0..MaxBytes]
      /\ shownThen \in [Owners -> 0..MaxBytes] /\ bytes \in Nat /\ bytes <= MaxBytes
  BY <1>1, RecordConstants DEF RecordsTyped
<1>5. shownThen'[u] = Records!Sum(records'[u]) /\ shownThen' \in [Owners -> 0..MaxBytes]
  <2>1. Records!Sum(Records!Loaded(u)) \in 0..MaxBytes
    BY <1>3, RecordConstants
  <2> QED
    BY <1>2, <1>3, <1>4, <2>1
<1>6. RecordsTyped'
  <2>1. used' \in [Owners -> Nat] /\ usedThen' \in [Owners -> 0..MaxBytes]
    BY <1>2, <1>4
  <2> QED
    BY <1>1, <1>2, <1>5, <2>1, Loading DEF RecordsTyped
<1>7. Billed'
  <2> SUFFICES ASSUME NEW v \in Owners
               PROVE  /\ used'[v] + Records!Sum(pending'[v]) <= MaxBytes
                      /\ Records!Sum(records'[v]) + Records!Sum(pending'[v]) <= MaxBytes
                      /\ v \notin shared' =>
                            used'[v] + shownThen'[v]
                              = Records!Sum(records'[v]) + usedThen'[v]
    BY DEF Billed
  <2>1. CASE v = u
    <3>1. used'[u] = bytes /\ usedThen'[u] = bytes
      BY <1>2, <1>4
    <3> QED
      BY <1>3, <1>4, <1>5, <2>1, <3>1, RecordConstants
  <2>2. CASE v # u
    <3>1. used'[v] = used[v] /\ usedThen'[v] = usedThen[v] /\ shownThen'[v] = shownThen[v]
      BY <1>2, <1>4, <2>2
    <3>2. /\ used[v] + Records!Sum(pending[v]) <= MaxBytes
          /\ v \notin shared =>
                used[v] + shownThen[v] = Records!Sum(records[v]) + usedThen[v]
      BY <1>1 DEF Billed
    <3>3. used[v] \in Nat /\ Records!Sum(pending[v]) \in Nat
      BY <1>1, PendingAmounts DEF RecordsTyped
    <3> QED
      BY <1>3, <3>1, <3>2, <3>3, RecordConstants
  <2> QED
    BY <2>1, <2>2
<1>8. RowsRight(records', table')
  BY <1>2, Loading
<1> QED
  BY <1>6, <1>7, <1>8 DEF RecordsInv

LEMMA RecordsStutter ==
  ASSUME RecordsInv, UNCHANGED recordVars
  PROVE  RecordsInv'
  BY DEF RecordsInv, RecordsTyped, Billed, RowsRight, recordVars

-----------------------------------------------------------------------------
\* Each part behaves as it does by itself.
LEMMA PartsOfBoth ==
  BothSpec => Spec /\ Records!Init /\ [][Records!Next]_recordVars
<1>1. BothInit => Init /\ Records!Init
  BY DEF BothInit
<1>2. [BothNext]_<<part, vars, recordVars>> => [Next]_vars /\ [Records!Next]_recordVars
  BY DEF BothNext, recordVars
<1> QED
  BY <1>1, <1>2, PTL DEF BothSpec, Spec

\* The records' invariant, in whichever part the behaviour is (traffic_records,
\* tunnels, flush_pending).
THEOREM RecordsInvariant == BothSpec => []RecordsInv
<1>1. Records!Init => RecordsInv
  BY RecordsStart
<1>2. RecordsInv /\ [Records!Next]_recordVars => RecordsInv'
  <2> SUFFICES ASSUME RecordsInv, [Records!Next]_recordVars PROVE RecordsInv'
    OBVIOUS
  <2>1. ASSUME NEW u \in Owners, NEW names \in SUBSET Names, Records!Save(u, names)
        PROVE  RecordsInv'
    BY <2>1, SaveStep
  <2>2. ASSUME NEW u \in Owners, NEW n \in Names, Records!Traffic(u, n) PROVE RecordsInv'
    BY <2>2, TrafficStep
  <2>3. CASE Records!Flush
    BY <2>3, FlushStep
  <2>4. CASE Records!Restart
    BY <2>4, RestartStep
  <2>5. ASSUME NEW u \in Owners, NEW bytes \in 0..MaxBytes, Records!SetUsed(u, bytes)
        PROVE  RecordsInv'
    BY <2>5, SetUsedStep
  <2>6. CASE UNCHANGED recordVars
    BY <2>6, RecordsStutter
  <2> QED
    BY <2>1, <2>2, <2>3, <2>4, <2>5, <2>6 DEF Records!Next
<1> QED
  BY <1>1, <1>2, PartsOfBoth, PTL

LEMMA RecordsAddUpNow ==
  ASSUME RecordsInv
  PROVE  RecordsAddUp
<1>1. RecordsTyped /\ Billed /\ RowsRight(records, table)
  BY DEF RecordsInv
<1>2. ASSUME NEW u \in Owners
      PROVE  /\ used[u] \in 0..MaxBytes
             /\ \A n \in DOMAIN records[u] : records[u][n] \in 0..MaxBytes
             /\ \A n \in Names : pending[u][n] \in 0..MaxBytes
  <2>1. /\ used[u] \in Nat /\ Records!Sum(pending[u]) \in Nat
        /\ Records!Sum(records[u]) \in Nat
    BY <1>1, PendingAmounts, RecordAmounts DEF RecordsTyped
  <2>2. /\ used[u] + Records!Sum(pending[u]) <= MaxBytes
        /\ Records!Sum(records[u]) + Records!Sum(pending[u]) <= MaxBytes
    BY <1>1 DEF Billed
  <2>3. /\ used[u] <= MaxBytes /\ Records!Sum(records[u]) <= MaxBytes
        /\ Records!Sum(pending[u]) <= MaxBytes
    BY <2>1, <2>2, RecordConstants
  <2>4. ASSUME NEW n \in DOMAIN records[u] PROVE records[u][n] \in 0..MaxBytes
    <3>1. records[u][n] \in Nat /\ records[u][n] <= Records!Sum(records[u])
      BY <1>1, RecordAmounts, PartOfSum, RecordConstants
    <3> QED
      BY <2>1, <2>3, <3>1, RecordConstants
  <2>5. ASSUME NEW n \in Names PROVE pending[u][n] \in 0..MaxBytes
    <3>1. Amounts(pending[u], Names) /\ DOMAIN pending[u] = Names
      BY <1>1, PendingAmounts DEF RecordsTyped
    <3>2. pending[u][n] \in Nat /\ pending[u][n] <= Records!Sum(pending[u])
      BY <3>1, PartOfSum, RecordConstants
    <3> QED
      BY <2>1, <2>3, <3>2, RecordConstants
  <2> QED
    BY <2>1, <2>3, <2>4, <2>5, RecordConstants
<1>3. Records!TypeOK
  <2>1. used \in [Owners -> 0..MaxBytes] /\ pending \in [Owners -> [Names -> 0..MaxBytes]]
    BY <1>1, <1>2 DEF RecordsTyped
  <2>2. ASSUME NEW u \in Owners
        PROVE  DOMAIN records[u] \subseteq Names /\ Records!Range(records[u]) \subseteq 0..MaxBytes
    BY <1>1, <1>2, RecordAmounts DEF Amounts, Records!Range
  <2>3. ASSUME NEW n \in DOMAIN table PROVE table[n] \in [user : Owners, bytes : 0..MaxBytes]
    BY <1>1, <1>2 DEF RowsRight
  <2>4. DOMAIN table \subseteq Names
    BY <1>1 DEF RowsRight
  <2> QED
    BY <1>1, <2>1, <2>2, <2>3, <2>4 DEF RecordsTyped, Records!TypeOK
<1>4. Records!PortsAddUp
  BY <1>1 DEF Billed, Records!PortsAddUp
<1>5. Records!LostOnlyToNamesake
  BY <1>1 DEF RowsRight, Records!LostOnlyToNamesake
<1> QED
  BY <1>3, <1>4, <1>5 DEF RecordsAddUp

\* What users are shown per port grows by what they are billed, through any use
\* of set-traffic-used and as long as no other user took a name, and a start
\* loses a record only to one of the same name, for any number of users, names
\* and bytes (tunnels, add_event, flush_pending, command_set_traffic_used,
\* write_snapshot, read).
THEOREM RecordsAddUpTheorem == BothSpec => []RecordsAddUp
<1>1. RecordsInv => RecordsAddUp
  BY RecordsAddUpNow
<1> QED
  BY <1>1, RecordsInvariant, PTL

=============================================================================
